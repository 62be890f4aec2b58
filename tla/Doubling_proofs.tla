----------------------------- MODULE Doubling_proofs -----------------------------
(***************************************************************************)
(* Facts about doubling that the provers do not know by themselves: powers *)
(* of two are defined by recursion, and nothing is known of a recursive    *)
(* function before its equation is proved.                                 *)
(***************************************************************************)
EXTENDS Doubling, WellFoundedInduction, TLAPS

-------------------------------------------------------------------------------
(* Induction over the natural numbers, for sets.                           *)

Less == OpToRel(<, Nat)

LEMMA LeastOf ==
  ASSUME NEW T \in SUBSET Nat, T # {}
  PROVE  \E x \in T : \A y \in T : x <= y
<1>1. IsWellFoundedOn(Less, Nat)
  BY NatLessThanWellFounded DEF Less
<1>2. PICK x \in T : \A y \in T : ~ (<<y, x>> \in Less)
  BY <1>1, WFMin
<1>3. ASSUME NEW y \in T PROVE x <= y
  <2>1. x \in Nat /\ y \in Nat /\ <<y, x>> \notin Less
    BY <1>2
  <2>2. ~(y < x)
    BY <2>1 DEF Less, OpToRel
  <2> QED
    BY <2>1, <2>2
<1> QED
  BY <1>3

LEMMA SetInduction ==
  ASSUME NEW T, 0 \in T, \A n \in Nat : n \in T => n + 1 \in T
  PROVE  Nat \subseteq T
<1> SUFFICES ASSUME Nat \ T # {} PROVE FALSE
  OBVIOUS
<1>1. PICK x \in Nat \ T : \A y \in Nat \ T : x <= y
  BY LeastOf
<1>2. x - 1 \in Nat
  BY <1>1
<1>3. x - 1 \in T
  BY <1>1, <1>2
<1>4. (x - 1) + 1 \in T
  BY <1>2, <1>3
<1> QED
  BY <1>1, <1>4

-------------------------------------------------------------------------------
(* The powers of two exist.                                                *)

\* Their beginning, up to n.
Begins(g, n) == g[0] = 1 /\ \A m \in 1 .. n : g[m] = 2 * g[m - 1]

LEMMA BeginningExists ==
  \A n \in Nat : \E g \in [0 .. n -> Nat] : Begins(g, n)
<1> DEFINE T == {n \in Nat : \E g \in [0 .. n -> Nat] : Begins(g, n)}
<1>1. 0 \in T
  <2>1. [m \in 0 .. 0 |-> 1] \in [0 .. 0 -> Nat] /\ Begins([m \in 0 .. 0 |-> 1], 0)
    BY DEF Begins
  <2> QED
    BY <2>1
<1>2. ASSUME NEW n \in Nat, n \in T PROVE n + 1 \in T
  <2>1. PICK g \in [0 .. n -> Nat] : Begins(g, n)
    BY <1>2
  <2> DEFINE h == [m \in 0 .. n + 1 |-> IF m <= n THEN g[m] ELSE 2 * g[n]]
  <2>2. h \in [0 .. n + 1 -> Nat]
    OBVIOUS
  <2>3. h[0] = 1
    BY <2>1 DEF Begins
  <2>4. ASSUME NEW m \in 1 .. n + 1 PROVE h[m] = 2 * h[m - 1]
    <3>1. m - 1 \in 0 .. n /\ h[m - 1] = g[m - 1]
      OBVIOUS
    <3>2. CASE m <= n
      BY <2>1, <3>1, <3>2 DEF Begins
    <3>3. CASE m = n + 1
      BY <3>1, <3>3
    <3> QED
      BY <3>2, <3>3
  <2> HIDE DEF h
  <2>5. Begins(h, n + 1)
    BY <2>3, <2>4 DEF Begins
  <2> QED
    BY <2>2, <2>5
<1> HIDE DEF T
<1>3. Nat \subseteq T
  BY <1>1, <1>2, SetInduction
<1> QED
  BY <1>3 DEF T

LEMMA BeginningsAgree ==
  ASSUME NEW n \in Nat, NEW k \in Nat, NEW g, NEW h, Begins(g, n), Begins(h, k)
  PROVE  \A m \in 0 .. n : m <= k => g[m] = h[m]
<1> SUFFICES ASSUME {m \in Nat : m <= n /\ m <= k /\ g[m] # h[m]} # {} PROVE FALSE
  OBVIOUS
<1>1. PICK x \in {m \in Nat : m <= n /\ m <= k /\ g[m] # h[m]} :
        \A y \in {m \in Nat : m <= n /\ m <= k /\ g[m] # h[m]} : x <= y
  BY LeastOf
<1>2. x # 0
  BY <1>1 DEF Begins
<1>3. x - 1 \in Nat /\ x \in 1 .. n /\ x \in 1 .. k
  BY <1>1, <1>2
<1>4. g[x - 1] = h[x - 1]
  BY <1>1, <1>3
<1>5. g[x] = 2 * g[x - 1] /\ h[x] = 2 * h[x - 1]
  BY <1>3 DEF Begins
<1> QED
  BY <1>1, <1>4, <1>5

LEMMA PowerEquation ==
  PowerOfTwo = [n \in Nat |-> IF n = 0 THEN 1 ELSE 2 * PowerOfTwo[n - 1]]
<1> DEFINE Start(n) == CHOOSE g \in [0 .. n -> Nat] : Begins(g, n)
           f == [n \in Nat |-> Start(n)[n]]
<1>1. \A n \in Nat : Start(n) \in [0 .. n -> Nat] /\ Begins(Start(n), n)
  BY BeginningExists
<1> HIDE DEF Start
<1>2. f[0] = 1
  BY <1>1 DEF Begins
<1>3. ASSUME NEW n \in Nat, n # 0 PROVE f[n] = 2 * f[n - 1]
  <2>1. n - 1 \in Nat /\ n \in 1 .. n /\ n - 1 \in 0 .. n
    BY <1>3
  <2>2. Start(n)[n] = 2 * Start(n)[n - 1]
    BY <1>1, <2>1 DEF Begins
  <2>3. Start(n)[n - 1] = Start(n - 1)[n - 1]
    <3>1. Begins(Start(n), n) /\ Begins(Start(n - 1), n - 1)
      BY <1>1, <2>1
    <3> QED
      BY <2>1, <3>1, BeginningsAgree
  <2> QED
    BY <2>1, <2>2, <2>3
<1>4. f = [n \in Nat |-> IF n = 0 THEN 1 ELSE 2 * f[n - 1]]
  <2>1. \A n \in Nat : f[n] = IF n = 0 THEN 1 ELSE 2 * f[n - 1]
    BY <1>2, <1>3
  <2> QED
    BY <2>1
<1> HIDE DEF f
<1>5. \E g : g = [n \in Nat |-> IF n = 0 THEN 1 ELSE 2 * g[n - 1]]
  BY <1>4
<1> QED
  BY <1>5 DEF PowerOfTwo

LEMMA PowersOfTwo ==
  /\ PowerOfTwo[0] = 1
  /\ \A n \in Nat : PowerOfTwo[n] \in Nat /\ PowerOfTwo[n] > n /\ PowerOfTwo[n + 1] = 2 * PowerOfTwo[n]
<1>1. PowerOfTwo[0] = 1 /\ \A n \in Nat \ {0} : PowerOfTwo[n] = 2 * PowerOfTwo[n - 1]
  BY PowerEquation
<1>2. ASSUME NEW n \in Nat PROVE PowerOfTwo[n + 1] = 2 * PowerOfTwo[n]
  <2>1. n + 1 \in Nat \ {0} /\ (n + 1) - 1 = n
    OBVIOUS
  <2> QED
    BY <1>1, <2>1
<1> DEFINE T == {n \in Nat : PowerOfTwo[n] \in Nat /\ PowerOfTwo[n] > n}
<1>3. 0 \in T
  BY <1>1
<1>4. ASSUME NEW n \in Nat, n \in T PROVE n + 1 \in T
  BY <1>2, <1>4
<1> HIDE DEF T
<1>5. Nat \subseteq T
  BY <1>3, <1>4, SetInduction
<1> QED
  BY <1>1, <1>2, <1>5 DEF T

-------------------------------------------------------------------------------
(* The waits.                                                              *)

\* One doubling, as the components do it.
OnceMore(ms, max) == IF ms >= max THEN ms ELSE IF ms * 2 > max THEN max ELSE ms * 2

\* The base, doubled k - 1 times without a limit.
LEMMA ScaledByPowers ==
  ASSUME NEW base \in Nat, NEW k \in Nat \ {0}
  PROVE  /\ base * PowerOfTwo[k - 1] \in Nat
         /\ base * PowerOfTwo[(k + 1) - 1] = 2 * (base * PowerOfTwo[k - 1])
         /\ base = 0 => base * PowerOfTwo[k - 1] = 0
         /\ base > 0 => base * PowerOfTwo[k - 1] >= k
<1>1. PICK p \in Nat : p = PowerOfTwo[k - 1] /\ p >= k
  <2>1. k - 1 \in Nat
    OBVIOUS
  <2> QED
    BY <2>1, PowersOfTwo
<1>2. PowerOfTwo[(k + 1) - 1] = 2 * p
  <2>1. k - 1 \in Nat /\ (k + 1) - 1 = (k - 1) + 1
    OBVIOUS
  <2> QED
    BY <1>1, <2>1, PowersOfTwo
<1>3. base * p \in Nat /\ base * (2 * p) = 2 * (base * p)
  OBVIOUS
<1>4. base > 0 => base * p >= p
  OBVIOUS
<1> QED
  BY <1>1, <1>2, <1>3, <1>4

\* The k-th wait starts at the base, is doubled once more each time, stays
\* where it is from the max-th on, and is 0 only where the base is.
LEMMA WaitsDouble ==
  ASSUME NEW base \in Nat, NEW max \in Nat, NEW k \in Nat \ {0}
  PROVE  /\ DoubledWait(base, max, k) \in Nat
         /\ DoubledWait(base, max, 1) = base
         /\ DoubledWait(base, max, k + 1) = OnceMore(DoubledWait(base, max, k), max)
         /\ k >= max => DoubledWait(base, max, k + 1) = DoubledWait(base, max, k)
         /\ DoubledWait(base, max, k) = 0 => base = 0
<1>1. PICK x \in Nat : x = base * PowerOfTwo[k - 1]
  BY ScaledByPowers
<1>2. base * PowerOfTwo[(k + 1) - 1] = 2 * x /\ (base = 0 => x = 0) /\ (base > 0 => x >= k)
  BY <1>1, ScaledByPowers
<1>3. base * PowerOfTwo[1 - 1] = base
  BY PowersOfTwo
<1>4. DoubledWait(base, max, k) = IF max <= base THEN base ELSE IF x > max THEN max ELSE x
  BY <1>1 DEF DoubledWait
<1>5. DoubledWait(base, max, k + 1)
        = IF max <= base THEN base ELSE IF 2 * x > max THEN max ELSE 2 * x
  BY <1>2 DEF DoubledWait
<1>6. DoubledWait(base, max, 1) = base
  BY <1>3 DEF DoubledWait
<1> QED
  BY <1>2, <1>4, <1>5, <1>6 DEF OnceMore

\* Where waits are counted as far as the maximum: what the code makes of the
\* wait that comes after n of them.
UpTo(n, max) == IF n < max THEN n + 1 ELSE n

LEMMA NextWait ==
  ASSUME NEW base \in Nat, NEW max \in Nat, NEW n \in 0 .. max
  PROVE  /\ UpTo(n, max) \in 0 .. max
         /\ UpTo(n, max) > 0 \/ max = 0
         /\ DoubledWait(base, max, n + 1) \in Nat
         /\ DoubledWait(base, max, n + 1) = 0 => base = 0
         /\ DoubledWait(base, max, UpTo(n, max)) = DoubledWait(base, max, n + 1)
         /\ DoubledWait(base, max, UpTo(n, max) + 1)
              = OnceMore(DoubledWait(base, max, n + 1), max)
<1> DEFINE ms == DoubledWait(base, max, n + 1)
<1>1. n + 1 \in Nat \ {0}
  OBVIOUS
<1>2. /\ ms \in Nat /\ (ms = 0 => base = 0)
      /\ DoubledWait(base, max, (n + 1) + 1) = OnceMore(ms, max)
      /\ n + 1 >= max => DoubledWait(base, max, (n + 1) + 1) = ms
  BY <1>1, WaitsDouble
<1> HIDE DEF ms
<1>3. CASE n < max
  <2>1. UpTo(n, max) = n + 1
    BY <1>3 DEF UpTo
  <2> QED
    BY <1>2, <1>3, <2>1 DEF ms
<1>4. CASE n = max
  <2>1. UpTo(n, max) = n
    BY <1>4 DEF UpTo
  <2>2. DoubledWait(base, max, n) = ms
    <3>1. CASE max # 0
      BY <1>4, <3>1, WaitsDouble DEF ms
    <3>2. CASE max = 0
      BY <1>4, <3>2 DEF ms, DoubledWait
    <3> QED
      BY <3>1, <3>2
  <2> QED
    BY <1>2, <1>4, <2>1, <2>2 DEF ms
<1> QED
  BY <1>3, <1>4

\* An attempt that waits until a time computed from the last one is made that
\* much later, unless the uptime wraps in between.
LEMMA KeptApart ==
  ASSUME NEW modulus \in Nat \ {0}, NEW s \in 0 .. modulus - 1, NEW t \in 0 .. modulus - 1,
         NEW wait \in Nat, NEW most \in Nat, NEW jitter \in 0 .. most,
         s + wait + most < modulus,
         NEW due, due = (s + (wait + jitter)) % modulus, due = 0 \/ ~(t < due)
  PROVE  (t - s) % modulus >= wait
<1>1. due = s + (wait + jitter)
  <2>1. s + (wait + jitter) \in 0 .. modulus - 1
    OBVIOUS
  <2> QED
    BY <2>1
<1>2. t >= s + wait \/ wait = 0
  BY <1>1
<1> QED
  BY <1>2
===============================================================================
