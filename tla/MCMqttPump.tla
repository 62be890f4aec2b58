------------------------------ MODULE MCMqttPump ------------------------------
(***************************************************************************)
(* Small instances of the MQTT pump.                                       *)
(***************************************************************************)
EXTENDS MqttPumpProps

CONSTANTS m1, m2, m3

MCMessages == {m1, m2, m3}
===============================================================================
