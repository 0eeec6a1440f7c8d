-------------------------- MODULE InductionProofs --------------------------
(***************************************************************************)
(* Results that rest on induction over data: what a loop of the code       *)
(* computes, however often it turns.  A loop is a recursive function of    *)
(* the model; what holds of 0 and is passed on by every number holds of    *)
(* them all, because a set of numbers has a least element.                 *)
(*                                                                         *)
(*   - the waits of a retried call, for integers of any width (a           *)
(*     time.Duration has 64 bits), any number of attempts and any delays;  *)
(*   - the steering handle, whose drainSteers rebuilds the slice: it       *)
(*     implements TurnQueue for any number of runs and turns;              *)
(*   - the embedding cache, whose two critical sections loop over the      *)
(*     texts of a call: its map and its recency list stay one, and every   *)
(*     caller gets its own vectors in the order of its texts.              *)
(***************************************************************************)
EXTENDS Steering, Backoff, EmbedCache, NaturalsInduction, WellFoundedInduction, SequenceTheorems,
        FiniteSetTheorems, TLAPS

\* A set of natural numbers that is not empty has a least element.
LEMMA LeastNumber ==
    ASSUME NEW S \in SUBSET Nat, S # {}
    PROVE  \E x \in S : \A y \in S : x <= y
  <1>1. IsWellFoundedOn(OpToRel(<, Nat), Nat)
    BY NatLessThanWellFounded, Zenon
  <1>2. PICK x \in S : \A y \in S : ~(<<y, x>> \in OpToRel(<, Nat))
    BY <1>1, WFMin, Zenon
  <1>3. \A y \in S : ~(y < x)
    BY <1>2, Zenon DEF OpToRel
  <1> QED BY <1>3

\* Induction: a set with 0 and every successor holds all the natural numbers.
LEMMA Inductive ==
    ASSUME NEW S \in SUBSET Nat, 0 \in S, \A n \in S : n + 1 \in S
    PROVE  \A n \in Nat : n \in S
  <1> SUFFICES ASSUME Nat \ S # {} PROVE FALSE
    OBVIOUS
  <1>1. PICK x \in Nat \ S : \A y \in Nat \ S : x <= y
    <2>1. Nat \ S \in SUBSET Nat
      OBVIOUS
    <2> QED BY <2>1, LeastNumber, Zenon
  <1>2. x # 0 /\ x - 1 \in Nat /\ ~(x <= x - 1)
    BY <1>1
  <1>3. x - 1 \in S
    BY <1>1, <1>2
  <1> QED BY <1>1, <1>2, <1>3

----------------------------------------------------------------------------
\* The powers of two.

\* The powers of two up to the n-th.
Powers(f, n) ==
    /\ f[0] = 1
    /\ \A i \in 1..n : f[i] = 2 * f[i - 1]

\* There are such powers, and only one value for each.
LEMMA PowersExist ==
    \A n \in Nat : \E f : Powers(f, n)
  <1> DEFINE S == {n \in Nat : \E f : Powers(f, n)}
  <1>1. 0 \in S
    <2>1. Powers([i \in {0} |-> 1], 0)
      BY DEF Powers
    <2> QED BY <2>1
  <1>2. ASSUME NEW n \in S PROVE n + 1 \in S
    <2>1. PICK f : Powers(f, n)
      OBVIOUS
    <2> DEFINE g == [i \in 0..(n + 1) |-> IF i = n + 1 THEN 2 * f[n] ELSE f[i]]
    <2>2. n \in Nat /\ g[0] = f[0] /\ g[n + 1] = 2 * f[n] /\ \A i \in 0..n : g[i] = f[i]
      OBVIOUS
    <2> HIDE DEF g
    <2>3. ASSUME NEW i \in 1..(n + 1) PROVE g[i] = 2 * g[i - 1]
      <3>1. CASE i = n + 1
        <4>1. i - 1 = n /\ n \in 0..n
          BY <2>2, <3>1
        <4> QED BY <2>2, <3>1, <4>1
      <3>2. CASE i # n + 1
        <4>1. i \in 1..n /\ i \in 0..n /\ i - 1 \in 0..n
          BY <2>2, <3>2
        <4> QED BY <2>1, <2>2, <4>1 DEF Powers
      <3> QED BY <3>1, <3>2
    <2>4. Powers(g, n + 1)
      BY <2>1, <2>2, <2>3 DEF Powers
    <2> QED BY <2>2, <2>4
  <1> HIDE DEF S
  <1>3. \A n \in Nat : n \in S
    <2>1. S \in SUBSET Nat
      BY DEF S
    <2> QED BY <1>1, <1>2, <2>1, Inductive
  <1> QED BY <1>3 DEF S

\* There is one such list of powers.
LEMMA PowersUnique ==
    ASSUME NEW f, NEW g, NEW n \in Nat, Powers(f, n), Powers(g, n)
    PROVE  f[n] = g[n]
  <1> DEFINE S == {i \in Nat : i <= n => f[i] = g[i]}
  <1>1. 0 \in S
    BY DEF Powers
  <1>2. ASSUME NEW i \in S PROVE i + 1 \in S
    <2>1. CASE i + 1 <= n
      <3>1. i + 1 \in 1..n /\ (i + 1) - 1 = i /\ i <= n
        BY <2>1
      <3>2. f[i + 1] = 2 * f[i] /\ g[i + 1] = 2 * g[i]
        BY <3>1 DEF Powers
      <3> QED BY <3>1, <3>2
    <2>2. CASE ~(i + 1 <= n)
      BY <2>2
    <2> QED BY <2>1, <2>2
  <1>3. n \in S
    <2>1. S \in SUBSET Nat
      OBVIOUS
    <2> HIDE DEF S
    <2> QED BY <1>1, <1>2, <2>1, Inductive
  <1> QED BY <1>3

\* Pow2 is what its equation says.
LEMMA Pow2Equation ==
    Pow2 = [n \in Nat |-> IF n = 0 THEN 1 ELSE 2 * Pow2[n - 1]]
  <1> DEFINE upTo(n) == CHOOSE f : Powers(f, n)
             p == [n \in Nat |-> upTo(n)[n]]
  <1>1. ASSUME NEW n \in Nat PROVE Powers(upTo(n), n)
    BY PowersExist
  <1>2. p[0] = 1
    BY <1>1 DEF Powers
  <1>3. ASSUME NEW n \in Nat, n # 0 PROVE p[n] = 2 * p[n - 1]
    <2>1. n - 1 \in Nat /\ n \in 1..n
      BY <1>3
    <2>2. upTo(n)[n] = 2 * upTo(n)[n - 1]
      BY <1>1, <2>1 DEF Powers
    <2>3. Powers(upTo(n), n - 1)
      <3>1. \A i \in 1..(n - 1) : i \in 1..n
        BY <2>1
      <3> QED BY <1>1, <3>1 DEF Powers
    <2>4. upTo(n)[n - 1] = upTo(n - 1)[n - 1]
      <3>1. Powers(upTo(n - 1), n - 1)
        BY <1>1, <2>1
      <3> HIDE DEF upTo
      <3> QED BY <2>1, <2>3, <3>1, PowersUnique
    <2> QED BY <2>1, <2>2, <2>4
  <1> HIDE DEF p
  <1>4. p = [n \in Nat |-> IF n = 0 THEN 1 ELSE 2 * p[n - 1]]
    <2>1. p = [n \in Nat |-> p[n]]
      BY DEF p
    <2> QED BY <1>2, <1>3, <2>1
  <1> QED BY <1>4, Zenon DEF Pow2

\* The powers of two are positive, and each is twice the one before.
LEMMA PowersOfTwo ==
    /\ Pow2[0] = 1
    /\ \A n \in Nat : Pow2[n] \in Nat \ {0} /\ Pow2[n + 1] = 2 * Pow2[n]
  <1>1. Pow2[0] = 1
    BY Pow2Equation
  <1>2. ASSUME NEW n \in Nat PROVE Pow2[n + 1] = 2 * Pow2[n]
    <2>1. n + 1 \in Nat /\ n + 1 # 0 /\ (n + 1) - 1 = n
      OBVIOUS
    <2>2. Pow2[n + 1] = 2 * Pow2[(n + 1) - 1]
      BY <2>1, Pow2Equation
    <2> QED BY <2>1, <2>2
  <1> DEFINE S == {n \in Nat : Pow2[n] \in Nat \ {0}}
  <1>3. 0 \in S /\ \A n \in S : n + 1 \in S
    BY <1>1, <1>2
  <1>4. \A n \in Nat : n \in S
    <2>1. S \in SUBSET Nat
      OBVIOUS
    <2> HIDE DEF S
    <2> QED BY <1>3, <2>1, Inductive
  <1> QED BY <1>1, <1>2, <1>4

----------------------------------------------------------------------------
\* The doubling loop.

BackoffTypeOK ==
    /\ baseDelay \in Durations /\ maxDelay \in Durations
    /\ jitter \in 0..Parts
    /\ attempt \in 1..MaxAttempts

Quarter == Pow2[Width - 2]

\* The range: a duration has MaxInt + 1 = 2 * Quarter nonnegative values.
LEMMA DurationRange ==
    /\ Quarter \in Nat \ {0} /\ MaxInt \in Nat /\ MaxInt + 1 = 2 * Quarter
    /\ Pow2[Width] = 2 * (MaxInt + 1)
  <1>1. /\ Width - 2 \in Nat /\ (Width - 2) + 1 = Width - 1
        /\ Width - 1 \in Nat /\ (Width - 1) + 1 = Width
    BY BackoffAssumption
  <1>2. Quarter \in Nat \ {0} /\ Pow2[Width - 1] = 2 * Quarter
    BY <1>1, PowersOfTwo DEF Quarter
  <1>3. Pow2[Width] = 2 * Pow2[Width - 1]
    BY <1>1, PowersOfTwo
  <1> QED BY <1>2, <1>3 DEF MaxInt

\* delay *= 2: exact, or negative when the range does not hold the double.
LEMMA DoublingWraps ==
    ASSUME NEW d \in 1..MaxInt
    PROVE  Wrap(2 * d) = IF 2 * d <= MaxInt THEN 2 * d ELSE 2 * d - 2 * (MaxInt + 1)
  <1> DEFINE m == MaxInt + 1
             x == 2 * d + m
  <1>1. m \in Nat \ {0} /\ d \in Nat /\ d < m /\ x \in Nat /\ Pow2[Width] = 2 * m
    BY DurationRange
  <1>2. Wrap(2 * d) = (x % (2 * m)) - m
    <2>1. 2 * d + MaxInt + 1 = x
      BY DurationRange
    <2> QED BY <1>1, <2>1, DurationRange DEF Wrap
  <1>3. CASE 2 * d <= MaxInt
    <2>1. x < 2 * m
      BY <1>3, DurationRange
    <2>2. x % (2 * m) = x
      <3> HIDE DEF x, m
      <3> QED BY <1>1, <2>1
    <2> QED BY <1>1, <1>2, <1>3, <2>2
  <1>4. CASE ~(2 * d <= MaxInt)
    <2>1. x >= 2 * m /\ x < 2 * (2 * m)
      BY <1>1, <1>4, DurationRange
    <2>2. x % (2 * m) = x - 2 * m
      <3> HIDE DEF x, m
      <3> QED BY <1>1, <2>1
    <2> QED BY <1>1, <1>2, <1>4, <2>2, DurationRange
  <1> QED BY <1>3, <1>4

\* The turns of the loop up to the n-th.
Turns(f, n) ==
    /\ f[0] = <<baseDelay, FALSE>>
    /\ \A i \in 1..n : f[i] = IF f[i - 1][2] THEN f[i - 1] ELSE Double(f[i - 1][1])

\* The loop can take any number of turns.
LEMMA TurnsExist ==
    \A n \in Nat : \E f : f = [i \in 0..n |-> f[i]] /\ Turns(f, n)
  <1> DEFINE S == {n \in Nat : \E f : f = [i \in 0..n |-> f[i]] /\ Turns(f, n)}
  <1>1. 0 \in S
    <2> DEFINE g == [i \in 0..0 |-> <<baseDelay, FALSE>>]
    <2>1. g = [i \in 0..0 |-> g[i]] /\ g[0] = <<baseDelay, FALSE>> /\ 1..0 = {}
      <3>1. 0 \in 0..0 /\ 1..0 = {}
        OBVIOUS
      <3> QED BY <3>1, Zenon
    <2> HIDE DEF g
    <2>2. Turns(g, 0)
      BY <2>1, Zenon DEF Turns
    <2> QED BY <2>1, <2>2
  <1>2. ASSUME NEW n \in S PROVE n + 1 \in S
    <2>1. PICK f : f = [i \in 0..n |-> f[i]] /\ Turns(f, n)
      OBVIOUS
    <2> DEFINE next == IF f[n][2] THEN f[n] ELSE Double(f[n][1])
               g == [i \in 0..(n + 1) |-> IF i = n + 1 THEN next ELSE f[i]]
    <2> HIDE DEF next
    <2>2. /\ n \in Nat /\ g[0] = f[0] /\ g[n + 1] = next /\ \A i \in 0..n : g[i] = f[i]
          /\ g = [i \in 0..(n + 1) |-> g[i]]
      OBVIOUS
    <2> HIDE DEF g
    <2>3. ASSUME NEW i \in 1..(n + 1)
          PROVE  g[i] = IF g[i - 1][2] THEN g[i - 1] ELSE Double(g[i - 1][1])
      <3>1. CASE i = n + 1
        <4>1. i - 1 = n /\ n \in 0..n
          BY <2>2, <3>1
        <4>2. g[i] = next /\ g[i - 1] = f[n]
          BY <2>2, <3>1, <4>1
        <4> QED BY <4>2, Zenon DEF next
      <3>2. CASE i # n + 1
        <4>1. i \in 1..n /\ i \in 0..n /\ i - 1 \in 0..n
          BY <2>2, <3>2
        <4>2. g[i] = f[i] /\ g[i - 1] = f[i - 1]
          BY <2>2, <4>1
        <4>3. f[i] = IF f[i - 1][2] THEN f[i - 1] ELSE Double(f[i - 1][1])
          BY <2>1, <4>1, Zenon DEF Turns
        <4> QED BY <4>2, <4>3, Zenon
      <3> QED BY <3>1, <3>2
    <2>4. Turns(g, n + 1)
      <3>1. g[0] = <<baseDelay, FALSE>>
        BY <2>1, <2>2 DEF Turns
      <3> QED BY <2>3, <3>1, Zenon DEF Turns
    <2> QED BY <2>2, <2>4
  <1> HIDE DEF S
  <1>3. \A n \in Nat : n \in S
    <2>1. S \in SUBSET Nat
      BY DEF S
    <2> QED BY <1>1, <1>2, <2>1, Inductive
  <1> QED BY <1>3 DEF S

\* Loop is what its equation says.
LEMMA LoopTurns ==
    Turns(Loop, MaxAttempts)
  <1> DEFINE Body(f) == [n \in 0..MaxAttempts |->
                            IF n = 0 THEN <<baseDelay, FALSE>>
                            ELSE IF f[n - 1][2] THEN f[n - 1]
                            ELSE Double(f[n - 1][1])]
  <1>0. MaxAttempts \in Nat
    BY BackoffAssumption
  <1>1. PICK f : f = [i \in 0..MaxAttempts |-> f[i]] /\ Turns(f, MaxAttempts)
    BY <1>0, TurnsExist
  <1>2. f = Body(f)
    <2>1. ASSUME NEW n \in 0..MaxAttempts
          PROVE  f[n] = IF n = 0 THEN <<baseDelay, FALSE>>
                        ELSE IF f[n - 1][2] THEN f[n - 1]
                        ELSE Double(f[n - 1][1])
      <3>1. n = 0 \/ n \in 1..MaxAttempts
        BY <1>0
      <3> QED BY <1>1, <3>1, Zenon DEF Turns
    <2> QED BY <1>1, <2>1, Zenon
  <1>3. Loop = Body(Loop)
    BY <1>2, Zenon DEF Loop
  <1>4. 0 \in 0..MaxAttempts /\ \A i \in 1..MaxAttempts : i \in 0..MaxAttempts /\ i # 0
    BY <1>0
  <1>5. Loop[0] = <<baseDelay, FALSE>>
    BY <1>3, <1>4, Zenon
  <1>6. ASSUME NEW i \in 1..MaxAttempts
        PROVE  Loop[i] = IF Loop[i - 1][2] THEN Loop[i - 1] ELSE Double(Loop[i - 1][1])
    BY <1>3, <1>4, Zenon
  <1> QED BY <1>5, <1>6, Zenon DEF Turns

(***************************************************************************)
(* The loop after n turns: still exact, or left with MaxDelay when the     *)
(* exact delay has reached it, or with a quarter of the range when no      *)
(* duration holds the exact delay.                                         *)
(***************************************************************************)
Exact(n) == baseDelay * Pow2[n]

LoopOK(n) ==
    /\ Loop[n][1] \in 1..MaxInt
    /\ \/ ~Loop[n][2] /\ Loop[n][1] = Exact(n)
       \/ Loop[n][2] /\ maxDelay > 0 /\ Loop[n][1] = maxDelay /\ Exact(n) >= maxDelay
       \/ Loop[n][2] /\ Loop[n][1] = Quarter /\ Exact(n) > MaxInt

\* One turn of the loop keeps LoopOK.
LEMMA LoopStep ==
    ASSUME BackoffTypeOK, baseDelay > 0, NEW n \in Nat, n + 1 <= MaxAttempts, LoopOK(n)
    PROVE  LoopOK(n + 1)
  <1> DEFINE d == Loop[n][1]
  <1>1. MaxAttempts \in Nat /\ n + 1 \in 1..MaxAttempts /\ (n + 1) - 1 = n
    BY BackoffAssumption
  <1>2. Loop[n + 1] = IF Loop[n][2] THEN Loop[n] ELSE Double(d)
    <2>1. Loop[n + 1] = IF Loop[(n + 1) - 1][2] THEN Loop[(n + 1) - 1]
                        ELSE Double(Loop[(n + 1) - 1][1])
      BY <1>1, LoopTurns, Zenon DEF Turns
    <2> QED BY <1>1, <2>1, Zenon
  <1>3. /\ MaxInt \in Nat /\ Quarter \in Nat \ {0} /\ MaxInt + 1 = 2 * Quarter
        /\ baseDelay \in Int /\ maxDelay \in Int /\ maxDelay <= MaxInt
    BY DurationRange DEF BackoffTypeOK, Durations
  <1>4. Exact(n) \in Nat /\ Exact(n + 1) = 2 * Exact(n)
    <2> DEFINE p == Pow2[n]
    <2>1. p \in Nat /\ Pow2[n + 1] = 2 * p
      BY PowersOfTwo
    <2> HIDE DEF p
    <2>2. baseDelay * p \in Nat /\ baseDelay * (2 * p) = 2 * (baseDelay * p)
      BY <1>3, <2>1
    <2> QED BY <2>1, <2>2 DEF Exact, p
  <1>5. CASE Loop[n][2]
    <2>1. Loop[n + 1] = Loop[n]
      BY <1>2, <1>5, Zenon
    <2>2. Exact(n + 1) >= Exact(n)
      BY <1>4
    <2> QED BY <1>3, <1>4, <1>5, <2>1, <2>2 DEF LoopOK
  <1>6. CASE ~Loop[n][2]
    <2>1. d \in 1..MaxInt /\ d = Exact(n)
      BY <1>6 DEF LoopOK
    <2>2. Wrap(2 * d) = IF 2 * d <= MaxInt THEN 2 * d ELSE 2 * d - 2 * (MaxInt + 1)
      BY <2>1, DoublingWraps
    <2>3. Loop[n + 1] = Double(d)
      BY <1>2, <1>6, Zenon
    <2> HIDE DEF d
    <2>4. CASE 2 * d > MaxInt
      <3>1. Wrap(2 * d) < 0
        BY <1>3, <2>1, <2>2, <2>4
      <3>2. Loop[n + 1] = <<Quarter, TRUE>>
        BY <2>3, <3>1 DEF Double, Quarter
      <3>3. Loop[n + 1][1] = Quarter /\ Loop[n + 1][2]
        BY <3>2
      <3> QED BY <1>3, <1>4, <2>1, <2>4, <3>3 DEF LoopOK
    <2>5. CASE ~(2 * d > MaxInt)
      <3>1. Wrap(2 * d) = 2 * d /\ 2 * d \in 1..MaxInt
        BY <1>3, <2>1, <2>2, <2>5
      <3>2. ~(2 * d < 0)
        BY <3>1
      <3>3. CASE maxDelay > 0 /\ 2 * d >= maxDelay
        <4>1. Loop[n + 1] = <<maxDelay, TRUE>>
          BY <2>3, <3>1, <3>2, <3>3, Zenon DEF Double
        <4>2. Loop[n + 1][1] = maxDelay /\ Loop[n + 1][2]
          BY <4>1
        <4> QED BY <1>3, <1>4, <2>1, <3>3, <4>2 DEF LoopOK
      <3>4. CASE ~(maxDelay > 0 /\ 2 * d >= maxDelay)
        <4>1. Loop[n + 1] = <<2 * d, FALSE>>
          BY <2>3, <3>1, <3>2, <3>4, Zenon DEF Double
        <4>2. Loop[n + 1][1] = 2 * d /\ ~Loop[n + 1][2]
          BY <4>1
        <4> QED BY <1>4, <2>1, <3>1, <4>2 DEF LoopOK
      <3> QED BY <3>3, <3>4
    <2> QED BY <2>4, <2>5
  <1> QED BY <1>5, <1>6

\* The doubling loop of backoffDelay, for any number of turns.
LEMMA LoopComputes ==
    ASSUME BackoffTypeOK, baseDelay > 0, NEW n \in 0..MaxAttempts
    PROVE  LoopOK(n)
  <1> DEFINE S == {i \in Nat : i <= MaxAttempts => LoopOK(i)}
  <1>1. 0 \in S
    <2>1. Loop[0] = <<baseDelay, FALSE>>
      BY LoopTurns DEF Turns
    <2>2. Loop[0][1] = baseDelay /\ ~Loop[0][2]
      BY <2>1
    <2>3. baseDelay \in 1..MaxInt /\ Exact(0) = baseDelay
      BY DurationRange, PowersOfTwo DEF BackoffTypeOK, Durations, Exact
    <2>4. LoopOK(0)
      BY <2>2, <2>3 DEF LoopOK
    <2> QED BY <2>4
  <1>2. ASSUME NEW i \in S PROVE i + 1 \in S
    <2>1. CASE i + 1 <= MaxAttempts
      <3>1. i \in Nat /\ i <= MaxAttempts
        BY <2>1, BackoffAssumption
      <3>2. LoopOK(i + 1)
        BY <2>1, <3>1, LoopStep
      <3> QED BY <3>1, <3>2
    <2>2. CASE ~(i + 1 <= MaxAttempts)
      BY <2>2
    <2> QED BY <2>1, <2>2
  <1>3. n \in Nat /\ n <= MaxAttempts
    BY BackoffAssumption
  <1>4. n \in S
    <2>1. S \in SUBSET Nat
      OBVIOUS
    <2> HIDE DEF S
    <2> QED BY <1>1, <1>2, <1>3, <2>1, Inductive
  <1> QED BY <1>3, <1>4

----------------------------------------------------------------------------
\* The wait.

\* Whatever is capped stays in the range and within a positive MaxDelay.
LEMMA CappedInRange ==
    ASSUME BackoffTypeOK, NEW d \in 0..MaxInt
    PROVE  Capped(d) \in 0..MaxInt /\ (maxDelay > 0 => Capped(d) <= maxDelay)
  BY DurationRange DEF BackoffTypeOK, Durations, Capped

\* The jittered product is a wait; without jitter it is the delay itself.
LEMMA JitterInRange ==
    ASSUME BackoffTypeOK, NEW d \in 0..MaxInt, NEW factor \in Factors
    PROVE  /\ Jittered(d, factor) \in 0..MaxInt
           /\ maxDelay > 0 => Jittered(d, factor) <= maxDelay
           /\ jitter = 0 => Jittered(d, factor) = Capped(d)
  <1> DEFINE scaled == (d * factor) \div Parts
             cut == IF scaled >= MaxInt THEN MaxInt ELSE scaled
  <1>1. Parts \in Nat \ {0} /\ factor \in Nat /\ d \in Nat /\ MaxInt \in Nat
    BY BackoffAssumption, DurationRange DEF BackoffTypeOK, Factors
  <1>2. scaled \in Nat
    BY <1>1
  <1>3. jitter = 0 => scaled = d
    <2>1. jitter = 0 => factor = Parts
      BY <1>1 DEF Factors
    <2>2. (d * Parts) \div Parts = d
      BY <1>1
    <2> QED BY <2>1, <2>2
  <1>4. Jittered(d, factor) = Capped(cut)
    BY DEF Jittered
  <1> HIDE DEF scaled
  <1>5. cut \in 0..MaxInt /\ (scaled = d => cut = d)
    BY <1>1, <1>2
  <1> HIDE DEF cut
  <1> QED BY <1>3, <1>4, <1>5, CappedInRange

\* A Retry-After is clamped to the range's nonnegative half and capped.
LEMMA HeaderInRange ==
    ASSUME BackoffTypeOK, NEW header \in Headers, header # <<>>
    PROVE  /\ Capped(Max({header[1], 0})) \in 0..MaxInt
           /\ maxDelay > 0 => Capped(Max({header[1], 0})) <= maxDelay
  <1>1. header[1] \in Int /\ header[1] <= MaxInt /\ MaxInt \in Nat
    <2>1. MaxInt \in Nat /\ MaxInt >= 1
      BY DurationRange
    <2>2. PICK e \in RetryAfters : header = <<e>>
      BY DEF Headers
    <2>3. e \in Durations /\ header[1] = e
      BY <2>2, InputAssumption
    <2> QED BY <2>1, <2>3 DEF Durations
  <1> DEFINE h == header[1]
             x == IF h >= 0 THEN h ELSE 0
  <1> HIDE DEF h
  <1>2. x \in {h, 0} /\ \A y \in {h, 0} : x >= y
    BY <1>1 DEF h
  <1>3. Max({h, 0}) \in {h, 0} /\ \A y \in {h, 0} : Max({h, 0}) >= y
    BY <1>2, Zenon DEF Max
  <1>4. Max({h, 0}) \in 0..MaxInt
    BY <1>1, <1>3 DEF h
  <1> QED BY <1>4, CappedInRange DEF h

BackoffInv == BackoffTypeOK /\ ExactOrHuge

\* Every wait that backoffDelay can choose is exact or huge.
LEMMA RetryWaits ==
    ASSUME BackoffInv, NEW header \in Headers, Retry(header)
    PROVE  BackoffInv'
  <1> DEFINE n == attempt - 1
  <1>1. /\ BackoffTypeOK /\ UNCHANGED <<baseDelay, maxDelay, jitter>>
        /\ attempt' = attempt + 1 /\ attempt < MaxAttempts /\ after' = header
        /\ delay' \in BackoffDelay(attempt, header)
    BY DEF BackoffInv, Retry
  <1>2. /\ MaxAttempts \in Nat /\ attempt \in Nat /\ n \in 0..MaxAttempts /\ attempt' - 2 = n
        /\ attempt' \in 1..MaxAttempts
    BY <1>1, BackoffAssumption DEF BackoffTypeOK
  <1>3. BackoffTypeOK'
    BY <1>1, <1>2 DEF BackoffTypeOK
  <1>4. CASE header # <<>>
    <2>1. delay' = Capped(Max({header[1], 0}))
      BY <1>1, <1>4 DEF BackoffDelay
    <2>2. delay' \in 0..MaxInt /\ (maxDelay > 0 => delay' <= maxDelay)
      BY <1>1, <1>4, <2>1, HeaderInRange
    <2>3. ExactOrHuge'
      BY <1>1, <1>4, <2>2 DEF ExactOrHuge
    <2> QED BY <1>3, <2>3 DEF BackoffInv
  <1>5. CASE header = <<>> /\ baseDelay <= 0
    <2>1. delay' = 0
      BY <1>1, <1>5 DEF BackoffDelay
    <2>2. delay' \in 0..MaxInt /\ (maxDelay > 0 => delay' <= maxDelay) /\ ~(baseDelay' > 0)
      BY <1>1, <1>5, <2>1, DurationRange DEF BackoffTypeOK, Durations
    <2>3. ExactOrHuge'
      BY <1>1, <2>2 DEF ExactOrHuge
    <2> QED BY <1>3, <2>3 DEF BackoffInv
  <1>6. CASE header = <<>> /\ ~(baseDelay <= 0)
    <2> DEFINE l == Loop[n][1]
    <2>1. PICK factor \in Factors : delay' = Jittered(Capped(l), factor)
      BY <1>1, <1>6 DEF BackoffDelay, Doubled
    <2>2. /\ MaxInt \in Nat /\ Quarter \in Nat \ {0} /\ MaxInt + 1 = 2 * Quarter
          /\ baseDelay \in Int /\ maxDelay \in Int /\ baseDelay > 0
      BY <1>1, <1>6, DurationRange DEF BackoffTypeOK, Durations
    <2>3. LoopOK(n)
      BY <1>1, <1>2, <2>2, LoopComputes
    <2>4. l \in 0..MaxInt
      BY <2>2, <2>3 DEF LoopOK
    <2> HIDE DEF l, n
    <2>5. Capped(l) \in 0..MaxInt
      BY <1>1, <2>4, CappedInRange
    <2>6. /\ delay' \in 0..MaxInt /\ (maxDelay > 0 => delay' <= maxDelay)
          /\ jitter = 0 => delay' = Capped(Capped(l))
      BY <1>1, <2>1, <2>5, JitterInRange
    <2>7. Capped(Capped(l)) = Capped(l)
      BY <2>2, <2>4 DEF Capped
    <2>8. Exact(n) \in Int
      <3>1. n \in Nat /\ Pow2[n] \in Int
        BY <1>2, PowersOfTwo
      <3> QED BY <2>2, <3>1 DEF Exact
    <2>9. IF Exact(n) <= MaxInt THEN Capped(l) = Capped(Exact(n)) ELSE Capped(l) >= Capped(Quarter)
      BY <2>2, <2>3, <2>4, <2>8 DEF LoopOK, Capped, l
    <2>10. ExactOrHuge'
      BY <1>1, <1>2, <2>6, <2>7, <2>9 DEF ExactOrHuge, Exact, Quarter, Capped
    <2> QED BY <1>3, <2>10 DEF BackoffInv
  <1> QED BY <1>4, <1>5, <1>6

(***************************************************************************)
(* backoffDelay at any width: no wait leaves the range or MaxDelay, and    *)
(* without jitter and header it is the exact exponential as long as a      *)
(* duration can hold it, and never a short wait again after that.          *)
(***************************************************************************)
THEOREM WaitsExactOrHuge == BackoffSpec => []ExactOrHuge
  <1>1. BackoffInit => BackoffInv
    <2> SUFFICES ASSUME BackoffInit PROVE BackoffInv
      OBVIOUS
    <2>1. BackoffTypeOK
      BY BackoffAssumption, InputAssumption DEF BackoffInit, BackoffTypeOK
    <2>2. ExactOrHuge
      <3>1. delay \in 0..MaxInt /\ (maxDelay > 0 => delay <= maxDelay) /\ ~(attempt > 1)
        BY <2>1, DurationRange DEF BackoffInit, BackoffTypeOK, Durations
      <3> QED BY <3>1 DEF ExactOrHuge
    <2> QED BY <2>1, <2>2 DEF BackoffInv
  <1>2. BackoffInv /\ [BackoffNext]_backoffVars => BackoffInv'
    <2> SUFFICES ASSUME BackoffInv, [BackoffNext]_backoffVars PROVE BackoffInv'
      OBVIOUS
    <2>1. CASE BackoffNext
      BY <2>1, RetryWaits DEF BackoffNext
    <2>2. CASE UNCHANGED backoffVars
      BY <2>2 DEF backoffVars, BackoffInv, BackoffTypeOK, ExactOrHuge, Capped
    <2> QED BY <2>1, <2>2
  <1>3. BackoffInv => ExactOrHuge
    BY DEF BackoffInv
  <1> QED BY <1>1, <1>2, <1>3, PTL DEF BackoffSpec

----------------------------------------------------------------------------
\* The steering handle.

Turn == [kind : {"steer", "followUp"}, turn : Nat]

Delivery == [run : Clients, turns : Seq(Turn)]

\* The turns of a slice are numbered as they were queued, and of that kind.
Genuine(turns) ==
    \A i \in 1..Len(turns) :
        turns[i].turn \in 1..Len(queued) /\ turns[i].kind = queued[turns[i].turn]

SteeringInv ==
    /\ queued \in Seq({"steer", "followUp"})
    /\ slice \in Seq(Turn) /\ Ascending(slice) /\ Genuine(slice)
    /\ received \in Seq(Delivery) /\ \A i \in 1..Len(received) : Ascending(received[i].turns)
    /\ client \in [Clients -> {"out", "refused", "in"}]
    /\ isBound = (\E c \in Clients : client[c] = "in")
    /\ \A c, e \in Clients : client[c] = "in" /\ client[e] = "in" => c = e

----------------------------------------------------------------------------
\* The loop of drainSteers.

\* One turn of the loop.
PartOne(part, t) ==
    IF t.kind = "steer"
    THEN [out |-> Append(part.out, t), kept |-> part.kept]
    ELSE [out |-> part.out, kept |-> Append(part.kept, t)]

Parts0 == [out |-> <<>>, kept |-> <<>>]

Partings(f, n) ==
    /\ f[0] = Parts0
    /\ \A i \in 1..n : f[i] = PartOne(f[i - 1], slice[i])

\* The loop can take any number of turns.
LEMMA PartingsExist ==
    \A n \in Nat : \E f : f = [i \in 0..n |-> f[i]] /\ Partings(f, n)
  <1> DEFINE S == {n \in Nat : \E f : f = [i \in 0..n |-> f[i]] /\ Partings(f, n)}
  <1>1. 0 \in S
    <2> DEFINE g == [i \in 0..0 |-> Parts0]
    <2>1. g = [i \in 0..0 |-> g[i]] /\ g[0] = Parts0 /\ 1..0 = {}
      <3>1. 0 \in 0..0 /\ 1..0 = {}
        OBVIOUS
      <3> QED BY <3>1, Zenon
    <2> HIDE DEF g
    <2>2. Partings(g, 0)
      BY <2>1, Zenon DEF Partings
    <2> QED BY <2>1, <2>2
  <1>2. ASSUME NEW n \in S PROVE n + 1 \in S
    <2>1. PICK f : f = [i \in 0..n |-> f[i]] /\ Partings(f, n)
      OBVIOUS
    <2> DEFINE next == PartOne(f[n], slice[n + 1])
               g == [i \in 0..(n + 1) |-> IF i = n + 1 THEN next ELSE f[i]]
    <2> HIDE DEF next
    <2>2. /\ n \in Nat /\ g[0] = f[0] /\ g[n + 1] = next /\ \A i \in 0..n : g[i] = f[i]
          /\ g = [i \in 0..(n + 1) |-> g[i]]
      OBVIOUS
    <2> HIDE DEF g
    <2>3. ASSUME NEW i \in 1..(n + 1) PROVE g[i] = PartOne(g[i - 1], slice[i])
      <3>1. CASE i = n + 1
        <4>1. i - 1 = n /\ n \in 0..n
          BY <2>2, <3>1
        <4>2. g[i] = next /\ g[i - 1] = f[n]
          BY <2>2, <3>1, <4>1
        <4> QED BY <3>1, <4>2, Zenon DEF next
      <3>2. CASE i # n + 1
        <4>1. i \in 1..n /\ i \in 0..n /\ i - 1 \in 0..n
          BY <2>2, <3>2
        <4>2. g[i] = f[i] /\ g[i - 1] = f[i - 1]
          BY <2>2, <4>1
        <4>3. f[i] = PartOne(f[i - 1], slice[i])
          BY <2>1, <4>1, Zenon DEF Partings
        <4> QED BY <4>2, <4>3, Zenon
      <3> QED BY <3>1, <3>2
    <2>4. Partings(g, n + 1)
      <3>1. g[0] = Parts0
        BY <2>1, <2>2, Zenon DEF Partings
      <3> QED BY <2>3, <3>1, Zenon DEF Partings
    <2> QED BY <2>2, <2>4
  <1> HIDE DEF S
  <1>3. \A n \in Nat : n \in S
    <2>1. S \in SUBSET Nat
      BY DEF S
    <2> QED BY <1>1, <1>2, <2>1, Inductive
  <1> QED BY <1>3 DEF S

\* Parted is what its equation says.
LEMMA PartedTurns ==
    ASSUME Len(slice) \in Nat
    PROVE  Partings(Parted, Len(slice))
  <1> DEFINE Body(f) ==
        [n \in 0..Len(slice) |->
            IF n = 0 THEN [out |-> <<>>, kept |-> <<>>]
            ELSE IF slice[n].kind = "steer"
            THEN [out |-> Append(f[n - 1].out, slice[n]), kept |-> f[n - 1].kept]
            ELSE [out |-> f[n - 1].out, kept |-> Append(f[n - 1].kept, slice[n])]]
  <1>1. PICK f : f = [i \in 0..Len(slice) |-> f[i]] /\ Partings(f, Len(slice))
    BY PartingsExist
  <1>2. f = Body(f)
    <2>1. ASSUME NEW n \in 0..Len(slice)
          PROVE  f[n] = IF n = 0 THEN [out |-> <<>>, kept |-> <<>>]
                        ELSE IF slice[n].kind = "steer"
                        THEN [out |-> Append(f[n - 1].out, slice[n]), kept |-> f[n - 1].kept]
                        ELSE [out |-> f[n - 1].out, kept |-> Append(f[n - 1].kept, slice[n])]
      <3>1. n = 0 \/ n \in 1..Len(slice)
        OBVIOUS
      <3>2. 0 \notin 1..Len(slice)
        OBVIOUS
      <3> QED BY <1>1, <3>1, <3>2, Zenon DEF Partings, PartOne, Parts0
    <2> QED BY <1>1, <2>1, Zenon
  <1>3. Parted = Body(Parted)
    BY <1>2, Zenon DEF Parted
  <1>4. 0 \in 0..Len(slice) /\ \A i \in 1..Len(slice) : i \in 0..Len(slice) /\ i # 0
    OBVIOUS
  <1>5. Parted[0] = Parts0
    BY <1>3, <1>4, Zenon DEF Parts0
  <1>6. ASSUME NEW i \in 1..Len(slice) PROVE Parted[i] = PartOne(Parted[i - 1], slice[i])
    BY <1>3, <1>4, Zenon DEF PartOne
  <1> QED BY <1>5, <1>6, Zenon DEF Partings

\* t holds, in order, the turns of kind k among the slice's first n.
Picked(t, n, k) ==
    /\ t \in Seq(Turn) /\ Ascending(t)
    /\ \A i \in 1..Len(t) : \E m \in 1..n : slice[m].kind = k /\ t[i] = slice[m]
    /\ \A m \in 1..n : slice[m].kind = k => \E i \in 1..Len(t) : t[i] = slice[m]

\* The next turn of the slice is of the kind, or of the other one.
LEMMA PickNext ==
    ASSUME slice \in Seq(Turn), Ascending(slice), NEW n \in Nat, n + 1 \in 1..Len(slice),
           NEW t, NEW k, Picked(t, n, k)
    PROVE  /\ slice[n + 1].kind = k => Picked(Append(t, slice[n + 1]), n + 1, k)
           /\ slice[n + 1].kind # k => Picked(t, n + 1, k)
  <1> DEFINE next == slice[n + 1]
             g == Append(t, next)
  <1>1. /\ next \in Turn /\ Len(slice) \in Nat /\ DOMAIN slice = 1..Len(slice)
        /\ t \in Seq(Turn) /\ Len(t) \in Nat /\ DOMAIN t = 1..Len(t)
    BY ElementOfSeq, LenProperties DEF Picked
  <1>2. \A m \in 1..(n + 1) : m \in 1..n \/ m = n + 1
    OBVIOUS
  <1>3. \A m \in 1..n : m \in 1..(n + 1)
    OBVIOUS
  <1>4. ASSUME slice[n + 1].kind # k PROVE Picked(t, n + 1, k)
    BY <1>2, <1>3, <1>4, Zenon DEF Picked
  <1>5. ASSUME slice[n + 1].kind = k PROVE Picked(g, n + 1, k)
    <2>1. /\ g \in Seq(Turn) /\ Len(g) = Len(t) + 1 /\ g[Len(t) + 1] = next
          /\ \A i \in 1..Len(t) : g[i] = t[i]
      BY <1>1, AppendProperties
    <2> HIDE DEF g, next
    <2>2. DOMAIN g = 1..(Len(t) + 1)
      BY <2>1, LenProperties
    <2>3. /\ \A i \in 1..(Len(t) + 1) : i \in 1..Len(t) \/ i = Len(t) + 1
          /\ \A i \in 1..Len(t) : i \in 1..(Len(t) + 1)
          /\ Len(t) + 1 \in 1..(Len(t) + 1) /\ n + 1 \in 1..(n + 1)
      BY <1>1
    <2>4. ASSUME NEW i \in 1..Len(t) PROVE t[i].turn < next.turn
      <3>1. PICK m \in 1..n : t[i] = slice[m]
        BY DEF Picked
      <3>2. m \in DOMAIN slice /\ n + 1 \in DOMAIN slice /\ m < n + 1
        BY <1>1
      <3> QED BY <3>1, <3>2 DEF Ascending, next
    <2>5. ASSUME NEW i \in DOMAIN g, NEW j \in DOMAIN g, i < j PROVE g[i].turn < g[j].turn
      <3>1. i \in 1..Len(t) /\ i \in DOMAIN t /\ g[i] = t[i]
        BY <1>1, <2>1, <2>2, <2>5
      <3>2. CASE j = Len(t) + 1
        BY <2>1, <2>4, <3>1, <3>2
      <3>3. CASE j # Len(t) + 1
        <4>1. j \in DOMAIN t /\ g[j] = t[j]
          BY <1>1, <2>1, <2>2, <3>3
        <4> QED BY <2>5, <3>1, <4>1 DEF Picked, Ascending
      <3> QED BY <3>2, <3>3
    <2>6. Ascending(g)
      BY <2>5 DEF Ascending
    <2>7. ASSUME NEW i \in 1..Len(g) PROVE \E m \in 1..(n + 1) : slice[m].kind = k /\ g[i] = slice[m]
      <3>1. CASE i \in 1..Len(t)
        <4>1. PICK m \in 1..n : slice[m].kind = k /\ t[i] = slice[m]
          BY <3>1, Zenon DEF Picked
        <4> QED BY <1>3, <2>1, <3>1, <4>1, Zenon
      <3>2. CASE i = Len(t) + 1
        BY <1>5, <2>1, <2>3, <3>2, Zenon DEF next
      <3> QED BY <2>1, <2>3, <3>1, <3>2
    <2>8. ASSUME NEW m \in 1..(n + 1), slice[m].kind = k PROVE \E i \in 1..Len(g) : g[i] = slice[m]
      <3>1. CASE m \in 1..n
        <4>1. PICK i \in 1..Len(t) : t[i] = slice[m]
          BY <2>8, <3>1 DEF Picked
        <4> QED BY <2>1, <2>3, <4>1
      <3>2. CASE m = n + 1
        BY <2>1, <2>3, <3>2, Zenon DEF next
      <3> QED BY <1>2, <3>1, <3>2
    <2> QED BY <2>1, <2>6, <2>7, <2>8 DEF Picked
  <1> QED BY <1>4, <1>5

\* drainSteers takes out the steers and keeps the follow-ups, each in order.
LEMMA PartedSound ==
    ASSUME slice \in Seq(Turn), Ascending(slice)
    PROVE  /\ Picked(Parted[Len(slice)].out, Len(slice), "steer")
           /\ Picked(Parted[Len(slice)].kept, Len(slice), "followUp")
  <1> DEFINE OK(n) == Picked(Parted[n].out, n, "steer") /\ Picked(Parted[n].kept, n, "followUp")
             S == {n \in Nat : n <= Len(slice) => OK(n)}
  <1>1. Len(slice) \in Nat
    BY LenProperties
  <1>2. Parted[0] = Parts0 /\ \A i \in 1..Len(slice) : Parted[i] = PartOne(Parted[i - 1], slice[i])
    BY <1>1, PartedTurns, Zenon DEF Partings
  <1>3. 0 \in S
    <2>1. Parted[0].out = <<>> /\ Parted[0].kept = <<>>
      BY <1>2 DEF Parts0
    <2>2. \A k : Picked(<<>>, 0, k)
      BY DEF Picked, Ascending
    <2>3. OK(0)
      BY <2>1, <2>2
    <2> QED BY <2>3
  <1>4. ASSUME NEW n \in S PROVE n + 1 \in S
    <2>1. CASE n + 1 <= Len(slice)
      <3>1. n \in Nat /\ n + 1 \in 1..Len(slice) /\ (n + 1) - 1 = n /\ OK(n)
        BY <1>1, <2>1
      <3>2. Parted[n + 1] = PartOne(Parted[n], slice[n + 1])
        BY <1>2, <3>1
      <3>3. slice[n + 1].kind \in {"steer", "followUp"}
        <4>1. slice[n + 1] \in Turn
          BY <3>1, ElementOfSeq
        <4> QED BY <4>1 DEF Turn
      <3>4. OK(n + 1)
        <4>1. CASE slice[n + 1].kind = "steer"
          <5>1. Parted[n + 1].out = Append(Parted[n].out, slice[n + 1]) /\ Parted[n + 1].kept = Parted[n].kept
            BY <3>2, <4>1 DEF PartOne
          <5>2. slice[n + 1].kind # "followUp"
            BY <4>1
          <5>3. Picked(Append(Parted[n].out, slice[n + 1]), n + 1, "steer")
            BY <3>1, <4>1, PickNext, Zenon
          <5>4. Picked(Parted[n].kept, n + 1, "followUp")
            BY <3>1, <5>2, PickNext, Zenon
          <5> QED BY <5>1, <5>3, <5>4, Zenon
        <4>2. CASE slice[n + 1].kind = "followUp"
          <5>1. /\ Parted[n + 1].kept = Append(Parted[n].kept, slice[n + 1])
                /\ Parted[n + 1].out = Parted[n].out
            BY <3>2, <4>2 DEF PartOne
          <5>2. slice[n + 1].kind # "steer"
            BY <4>2
          <5>3. Picked(Append(Parted[n].kept, slice[n + 1]), n + 1, "followUp")
            BY <3>1, <4>2, PickNext, Zenon
          <5>4. Picked(Parted[n].out, n + 1, "steer")
            BY <3>1, <5>2, PickNext, Zenon
          <5> QED BY <5>1, <5>3, <5>4, Zenon
        <4> QED BY <3>3, <4>1, <4>2
      <3> QED BY <3>1, <3>4
    <2>2. CASE ~(n + 1 <= Len(slice))
      BY <2>2
    <2> QED BY <2>1, <2>2
  <1>5. Len(slice) \in S
    <2>1. S \in SUBSET Nat
      OBVIOUS
    <2> HIDE DEF S
    <2> QED BY <1>1, <1>3, <1>4, <2>1, Inductive
  <1>6. Len(slice) <= Len(slice)
    BY <1>1
  <1> QED BY <1>5, <1>6

----------------------------------------------------------------------------
\* The mapping to TurnQueue.

\* The numbers of a slice's turns.
LEMMA NumbersOf ==
    ASSUME NEW t \in Seq(Turn)
    PROVE  \A x : x \in Numbers(t) <=> \E i \in 1..Len(t) : x = t[i].turn
  <1>1. DOMAIN t = 1..Len(t)
    BY LenProperties
  <1> QED BY <1>1, Zenon DEF Numbers, ToSet

\* A drain that returned something is one more hand-over.
LEMMA HandOversAppend ==
    ASSUME NEW r \in Seq(Delivery), NEW d \in Delivery
    PROVE  HandOvers(Append(r, d)) = Append(HandOvers(r), [run |-> d.run, turns |-> Numbers(d.turns)])
  <1> DEFINE e == [run |-> d.run, turns |-> Numbers(d.turns)]
             h == HandOvers(r)
             g == HandOvers(Append(r, d))
             T == {h[i] : i \in 1..Len(r)} \cup {e}
  <1>1. /\ Len(r) \in Nat /\ Len(Append(r, d)) = Len(r) + 1 /\ Append(r, d)[Len(r) + 1] = d
        /\ \A i \in 1..Len(r) : Append(r, d)[i] = r[i]
    BY AppendProperties, LenProperties
  <1>2. h = [i \in 1..Len(r) |-> h[i]] /\ h \in Seq(T) /\ Len(h) = Len(r)
    <2>1. h = [i \in 1..Len(r) |-> h[i]]
      BY Zenon DEF HandOvers
    <2> HIDE DEF h, e
    <2>2. h \in [1..Len(r) -> T]
      BY <2>1
    <2> QED BY <1>1, <2>1, <2>2, IsASeq, LenProperties
  <1>3. /\ Append(h, e) = [i \in 1..(Len(r) + 1) |-> IF i = Len(r) + 1 THEN e ELSE h[i]]
    <2> HIDE DEF h, e, T
    <2>0. e \in T
      BY DEF T
    <2>1. /\ Append(h, e) \in Seq(T) /\ Len(Append(h, e)) = Len(r) + 1
          /\ Append(h, e)[Len(r) + 1] = e /\ \A i \in 1..Len(r) : Append(h, e)[i] = h[i]
      BY <1>2, <2>0, AppendProperties
    <2>2. Append(h, e) = [i \in 1..(Len(r) + 1) |-> Append(h, e)[i]]
      BY <2>1, LenProperties
    <2>3. \A i \in 1..(Len(r) + 1) : i \in 1..Len(r) \/ i = Len(r) + 1
      BY <1>1
    <2> HIDE DEF h, e
    <2>4. \A i \in 1..(Len(r) + 1) : Append(h, e)[i] = IF i = Len(r) + 1 THEN e ELSE h[i]
      BY <2>1, <2>3, Zenon
    <2> QED BY <2>2, <2>4, Zenon
  <1>4. \A i \in 1..(Len(r) + 1) : i \in 1..Len(r) \/ i = Len(r) + 1
    BY <1>1
  <1>5. g = [i \in 1..(Len(r) + 1) |-> g[i]]
    BY <1>1, Zenon DEF HandOvers
  <1>6. ASSUME NEW i \in 1..(Len(r) + 1) PROVE g[i] = IF i = Len(r) + 1 THEN e ELSE h[i]
    <2>1. g[i] = [run |-> Append(r, d)[i].run, turns |-> Numbers(Append(r, d)[i].turns)]
      BY <1>1, Zenon DEF HandOvers
    <2>2. CASE i = Len(r) + 1
      BY <1>1, <2>1, <2>2, Zenon
    <2>3. CASE i # Len(r) + 1
      <3>1. i \in 1..Len(r)
        BY <1>4, <2>3
      <3>2. h[i] = [run |-> r[i].run, turns |-> Numbers(r[i].turns)]
        BY <3>1, Zenon DEF HandOvers
      <3> QED BY <1>1, <2>1, <2>3, <3>1, <3>2, Zenon
    <2> QED BY <2>2, <2>3
  <1> HIDE DEF g, h
  <1>7. g = Append(h, e)
    BY <1>3, <1>5, <1>6, Zenon
  <1> QED BY <1>7 DEF g, h

\* Who is in charge, given at most one client inside.
LEMMA ChargeIs ==
    ASSUME \A c, e \in Clients : client[c] = "in" /\ client[e] = "in" => c = e
    PROVE  /\ \A c \in Clients : client[c] = "in" => InCharge = c
           /\ (\A c \in Clients : client[c] # "in") => InCharge = NoClient
  BY Zenon DEF InCharge

\* A drain hands over the turns T, or leaves everything as it is.
LEMMA DrainRefines ==
    ASSUME SteeringInv, NEW c \in Clients, client[c] = "in", NEW out \in Seq(Turn), Ascending(out),
           Receive(c, out), slice' \in Seq(Turn), Ascending(slice'),
           UNCHANGED <<isBound, client, queued>>,
           \A i \in 1..Len(slice') : \E m \in 1..Len(slice) : slice'[i] = slice[m],
           Numbers(slice') = Numbers(slice) \ Numbers(out),
           Numbers(out) \subseteq Numbers(slice),
           Numbers(out) = Abstract!PendingSteers \/ Numbers(out) = Numbers(slice)
    PROVE  SteeringInv' /\ [Abstract!TQNext]_(Abstract!turnVars)
  <1>1. Genuine(slice)'
    BY DEF SteeringInv, Genuine
  <1>2. InCharge' = InCharge /\ InCharge = c
    <2>1. InCharge = c
      BY ChargeIs DEF SteeringInv
    <2>2. InCharge' = InCharge
      BY DEF InCharge
    <2> QED BY <2>1, <2>2
  <1>3. CASE out = <<>>
    <2>1. Numbers(out) = {}
      <3>1. Len(out) = 0 /\ 1..0 = {}
        BY <1>3
      <3> QED BY <3>1, NumbersOf
    <2>2. UNCHANGED received
      BY <1>3 DEF Receive
    <2>3. SteeringInv'
      BY <1>1, <2>2 DEF SteeringInv
    <2>4. UNCHANGED Abstract!turnVars
      BY <1>2, <2>1, <2>2 DEF Abstract!turnVars
    <2> QED BY <2>3, <2>4
  <1>4. CASE out # <<>>
    <2> DEFINE d == [run |-> c, turns |-> out]
    <2>1. received' = Append(received, d) /\ d \in Delivery /\ received \in Seq(Delivery)
      BY <1>4 DEF Receive, Delivery, SteeringInv
    <2>2. /\ received' \in Seq(Delivery) /\ Len(received) \in Nat
          /\ Len(received') = Len(received) + 1 /\ received'[Len(received) + 1] = d
          /\ \A i \in 1..Len(received) : received'[i] = received[i]
      BY <2>1, AppendProperties, LenProperties
    <2>3. \A i \in 1..Len(received') : Ascending(received'[i].turns)
      <3>1. \A i \in 1..Len(received') : i \in 1..Len(received) \/ i = Len(received) + 1
        BY <2>2
      <3>2. d.turns = out
        OBVIOUS
      <3>3. \A i \in 1..Len(received) : Ascending(received[i].turns)
        BY DEF SteeringInv
      <3> HIDE DEF d
      <3> QED BY <2>2, <3>1, <3>2, <3>3, Zenon
    <2>4. SteeringInv'
      BY <1>1, <2>2, <2>3 DEF SteeringInv, Ascending
    <2>5. HandOvers(received') = Append(HandOvers(received), [run |-> c, turns |-> Numbers(out)])
      <3>1. d.run = c /\ d.turns = out
        OBVIOUS
      <3> HIDE DEF d
      <3> QED BY <2>1, <3>1, HandOversAppend
    <2>6. Numbers(out) # {}
      <3>1. 1 \in 1..Len(out)
        BY <1>4, EmptySeq, LenProperties
      <3> QED BY <3>1, NumbersOf
    <2>7. Abstract!HandOver(c, Numbers(out))
      BY <1>2, <2>5, <2>6 DEF Abstract!HandOver
    <2>8. Abstract!TQNext
      BY <2>7 DEF Abstract!TQNext
    <2> QED BY <2>4, <2>8
  <1> QED BY <1>3, <1>4

\* The pre-completion drain hands over the pending steers.
LEMMA DrainSteersRefines ==
    ASSUME SteeringInv, NEW c \in Clients, DrainSteers(c)
    PROVE  SteeringInv' /\ [Abstract!TQNext]_(Abstract!turnVars)
  <1> DEFINE out == Parted[Len(slice)].out
             kept == Parted[Len(slice)].kept
             n == Len(slice)
  <1>1. /\ client[c] = "in" /\ Receive(c, out) /\ slice' = kept /\ UNCHANGED <<isBound, client, queued>>
        /\ slice \in Seq(Turn) /\ Ascending(slice) /\ Genuine(slice)
    BY DEF DrainSteers, SteeringInv
  <1>2. Picked(out, n, "steer") /\ Picked(kept, n, "followUp")
    BY <1>1, PartedSound
  <1>3. \A i \in 1..n : slice[i].kind \in {"steer", "followUp"} /\ slice[i].kind = queued[slice[i].turn]
    <2>1. \A i \in 1..n : slice[i] \in Turn
      BY <1>1, ElementOfSeq
    <2> QED BY <1>1, <2>1 DEF Turn, Genuine
  <1> HIDE DEF out, kept, n
  <1>4. /\ out \in Seq(Turn) /\ Ascending(out) /\ kept \in Seq(Turn) /\ Ascending(kept)
        /\ \A i \in 1..Len(out) : \E m \in 1..n : slice[m].kind = "steer" /\ out[i] = slice[m]
        /\ \A m \in 1..n : slice[m].kind = "steer" => \E i \in 1..Len(out) : out[i] = slice[m]
        /\ \A i \in 1..Len(kept) : \E m \in 1..n : slice[m].kind = "followUp" /\ kept[i] = slice[m]
        /\ \A m \in 1..n : slice[m].kind = "followUp" => \E i \in 1..Len(kept) : kept[i] = slice[m]
    BY <1>2, Zenon DEF Picked
  <1>5. \A x : x \in Numbers(out) <=> x \in Numbers(slice) /\ queued[x] = "steer"
    <2>1. \A x : x \in Numbers(out) <=> \E i \in 1..Len(out) : x = out[i].turn
      BY <1>4, NumbersOf
    <2>2. \A x : x \in Numbers(slice) <=> \E i \in 1..n : x = slice[i].turn
      BY <1>1, NumbersOf DEF n
    <2>3. \A m \in 1..n : slice[m].kind = "steer" <=> queued[slice[m].turn] = "steer"
      BY <1>3
    <2>4. ASSUME NEW x \in Numbers(out) PROVE x \in Numbers(slice) /\ queued[x] = "steer"
      <3>1. PICK i \in 1..Len(out) : x = out[i].turn
        BY <2>1
      <3>2. PICK m \in 1..n : slice[m].kind = "steer" /\ out[i] = slice[m]
        BY <1>4
      <3>3. x = slice[m].turn
        BY <3>1, <3>2
      <3> QED BY <2>2, <2>3, <3>2, <3>3, Zenon
    <2>5. ASSUME NEW x \in Numbers(slice), queued[x] = "steer" PROVE x \in Numbers(out)
      <3>1. PICK m \in 1..n : x = slice[m].turn
        BY <2>2
      <3>2. slice[m].kind = "steer"
        BY <2>3, <2>5, <3>1, Zenon
      <3>3. PICK i \in 1..Len(out) : out[i] = slice[m]
        BY <1>4, <3>2, Zenon
      <3>4. x = out[i].turn
        BY <3>1, <3>3
      <3> QED BY <2>1, <3>4, Zenon
    <2> QED BY <2>4, <2>5, Zenon
  <1>6. \A x : x \in Numbers(kept) <=> x \in Numbers(slice) /\ queued[x] # "steer"
    <2>1. \A x : x \in Numbers(kept) <=> \E i \in 1..Len(kept) : x = kept[i].turn
      BY <1>4, NumbersOf
    <2>2. \A x : x \in Numbers(slice) <=> \E i \in 1..n : x = slice[i].turn
      BY <1>1, NumbersOf DEF n
    <2>3. \A m \in 1..n : slice[m].kind = "followUp" <=> queued[slice[m].turn] # "steer"
      BY <1>3
    <2>4. ASSUME NEW x \in Numbers(kept) PROVE x \in Numbers(slice) /\ queued[x] # "steer"
      <3>1. PICK i \in 1..Len(kept) : x = kept[i].turn
        BY <2>1
      <3>2. PICK m \in 1..n : slice[m].kind = "followUp" /\ kept[i] = slice[m]
        BY <1>4
      <3>3. x = slice[m].turn
        BY <3>1, <3>2
      <3> QED BY <2>2, <2>3, <3>2, <3>3, Zenon
    <2>5. ASSUME NEW x \in Numbers(slice), queued[x] # "steer" PROVE x \in Numbers(kept)
      <3>1. PICK m \in 1..n : x = slice[m].turn
        BY <2>2
      <3>2. slice[m].kind = "followUp"
        BY <2>3, <2>5, <3>1, Zenon
      <3>3. PICK i \in 1..Len(kept) : kept[i] = slice[m]
        BY <1>4, <3>2, Zenon
      <3>4. x = kept[i].turn
        BY <3>1, <3>3
      <3> QED BY <2>1, <3>4, Zenon
    <2> QED BY <2>4, <2>5, Zenon
  <1>7. Numbers(slice') = Numbers(slice) \ Numbers(out) /\ Numbers(out) \subseteq Numbers(slice)
    BY <1>1, <1>5, <1>6
  <1>8. Numbers(out) = Abstract!PendingSteers
    BY <1>5 DEF Abstract!PendingSteers
  <1>9. \A i \in 1..Len(slice') : \E m \in 1..Len(slice) : slice'[i] = slice[m]
    BY <1>1, <1>4 DEF n
  <1> QED BY <1>1, <1>4, <1>7, <1>8, <1>9, DrainRefines

\* The would-be-finish drain hands over everything.
LEMMA DrainEverythingRefines ==
    ASSUME SteeringInv, NEW c \in Clients, DrainEverything(c)
    PROVE  SteeringInv' /\ [Abstract!TQNext]_(Abstract!turnVars)
  <1>1. /\ client[c] = "in" /\ Receive(c, slice) /\ slice' = <<>> /\ UNCHANGED <<isBound, client, queued>>
        /\ slice \in Seq(Turn) /\ Ascending(slice)
    BY DEF DrainEverything, SteeringInv
  <1>2. slice' \in Seq(Turn) /\ Ascending(slice') /\ Len(slice') = 0 /\ 1..0 = {}
    BY <1>1 DEF Ascending
  <1>3. Numbers(slice') = {}
    BY <1>2, NumbersOf
  <1>4. Numbers(slice') = Numbers(slice) \ Numbers(slice) /\ Numbers(slice) \subseteq Numbers(slice)
    BY <1>3
  <1>5. \A i \in 1..Len(slice') : \E m \in 1..Len(slice) : slice'[i] = slice[m]
    BY <1>2
  <1> QED BY <1>1, <1>2, <1>4, <1>5, DrainRefines

\* Steer and FollowUp number the turn behind everything that was queued.
LEMMA EnqueueRefines ==
    ASSUME SteeringInv, NEW k \in {"steer", "followUp"}, EnqueueTurn(k)
    PROVE  SteeringInv' /\ Abstract!TQNext
  <1> DEFINE n == Len(queued)
             t == [kind |-> k, turn |-> n + 1]
  <1>1. /\ queued' = Append(queued, k) /\ slice' = Append(slice, t) /\ UNCHANGED <<isBound, client, received>>
        /\ queued \in Seq({"steer", "followUp"}) /\ slice \in Seq(Turn)
    BY DEF EnqueueTurn, SteeringInv
  <1>2. /\ queued' \in Seq({"steer", "followUp"}) /\ Len(queued') = n + 1 /\ queued'[n + 1] = k
        /\ n \in Nat /\ \A i \in 1..n : queued'[i] = queued[i]
    BY <1>1, AppendProperties, LenProperties
  <1>3. t \in Turn /\ t.turn = n + 1 /\ t.kind = k
    BY <1>2 DEF Turn
  <1> HIDE DEF t, n
  <1>4. /\ slice' \in Seq(Turn) /\ Len(slice') = Len(slice) + 1 /\ slice'[Len(slice) + 1] = t
        /\ Len(slice) \in Nat /\ \A i \in 1..Len(slice) : slice'[i] = slice[i]
        /\ DOMAIN slice = 1..Len(slice) /\ DOMAIN slice' = 1..Len(slice')
    BY <1>1, <1>3, AppendProperties, LenProperties
  <1>5. \A i \in 1..Len(slice') : i \in 1..Len(slice) \/ i = Len(slice) + 1
    BY <1>4
  <1>6. \A i \in 1..Len(slice) : slice[i].turn \in 1..n /\ slice[i].kind = queued[slice[i].turn]
    BY DEF SteeringInv, Genuine, n
  <1>7. Genuine(slice)'
    <2>1. ASSUME NEW i \in 1..Len(slice')
          PROVE  slice'[i].turn \in 1..(n + 1) /\ slice'[i].kind = queued'[slice'[i].turn]
      <3>1. CASE i \in 1..Len(slice)
        BY <1>2, <1>4, <1>6, <3>1
      <3>2. CASE i = Len(slice) + 1
        BY <1>2, <1>3, <1>4, <3>2
      <3> QED BY <1>5, <3>1, <3>2
    <2> QED BY <1>2, <2>1 DEF Genuine
  <1>8. Ascending(slice)'
    <2>1. ASSUME NEW i \in 1..Len(slice'), NEW j \in 1..Len(slice'), i < j
          PROVE  slice'[i].turn < slice'[j].turn
      <3>1. i \in 1..Len(slice) /\ slice'[i] = slice[i]
        BY <1>4, <2>1
      <3>2. CASE j \in 1..Len(slice)
        <4>1. slice'[j] = slice[j] /\ i \in DOMAIN slice /\ j \in DOMAIN slice
          BY <1>4, <3>1, <3>2
        <4> QED BY <2>1, <3>1, <4>1 DEF SteeringInv, Ascending
      <3>3. CASE j = Len(slice) + 1
        <4>1. slice'[j].turn = n + 1 /\ slice[i].turn \in 1..n
          BY <1>3, <1>4, <1>6, <3>1, <3>3
        <4> QED BY <1>2, <3>1, <4>1
      <3> QED BY <1>5, <3>2, <3>3
    <2> QED BY <1>4, <2>1 DEF Ascending
  <1>9. SteeringInv'
    <2>1. \A i \in 1..Len(received') : Ascending(received'[i].turns)
      BY <1>1 DEF SteeringInv
    <2> QED BY <1>1, <1>2, <1>4, <1>7, <1>8, <2>1 DEF SteeringInv, Ascending
  <1>10. Numbers(slice') = Numbers(slice) \cup {n + 1}
    <2>1. \A x : x \in Numbers(slice') <=> \E i \in 1..Len(slice') : x = slice'[i].turn
      BY <1>4, NumbersOf
    <2>2. \A x : x \in Numbers(slice) <=> \E i \in 1..Len(slice) : x = slice[i].turn
      BY <1>1, NumbersOf
    <2>3. Len(slice) + 1 \in 1..Len(slice') /\ \A i \in 1..Len(slice) : i \in 1..Len(slice')
      BY <1>4
    <2>4. ASSUME NEW x \in Numbers(slice') PROVE x \in Numbers(slice) \cup {n + 1}
      <3>1. PICK i \in 1..Len(slice') : x = slice'[i].turn
        BY <2>1
      <3>2. CASE i \in 1..Len(slice)
        BY <1>4, <2>2, <3>1, <3>2, Zenon
      <3>3. CASE i = Len(slice) + 1
        <4>1. x = n + 1
          BY <1>3, <1>4, <3>1, <3>3, Zenon
        <4> QED BY <4>1
      <3> QED BY <1>5, <3>2, <3>3
    <2>5. ASSUME NEW x \in Numbers(slice) PROVE x \in Numbers(slice')
      <3>1. PICK i \in 1..Len(slice) : x = slice[i].turn
        BY <2>2
      <3>2. i \in 1..Len(slice') /\ x = slice'[i].turn
        BY <1>4, <2>3, <3>1, Zenon
      <3> QED BY <2>1, <3>2, Zenon
    <2>6. n + 1 \in Numbers(slice')
      <3>1. n + 1 = slice'[Len(slice) + 1].turn
        BY <1>3, <1>4, Zenon
      <3> QED BY <2>1, <2>3, <3>1, Zenon
    <2> QED BY <2>4, <2>5, <2>6
  <1>11. InCharge' = InCharge
    BY <1>1 DEF InCharge
  <1>12. Abstract!QueueTurn(k)
    BY <1>1, <1>10, <1>11 DEF Abstract!QueueTurn, n
  <1> QED BY <1>9, <1>12 DEF Abstract!TQNext, Abstract!Kinds

\* bind, unbind and the return of a refused run.
LEMMA BindingRefines ==
    ASSUME SteeringInv, NEW c \in Clients, Bind(c) \/ LeaveRefused(c) \/ Unbind(c)
    PROVE  SteeringInv' /\ [Abstract!TQNext]_(Abstract!turnVars)
  <1>1. UNCHANGED <<slice, queued, received>> /\ client \in [Clients -> {"out", "refused", "in"}]
    BY DEF Bind, LeaveRefused, Unbind, SteeringInv
  <1>2. SteeringInv' <=>
            /\ client' \in [Clients -> {"out", "refused", "in"}]
            /\ isBound' = (\E e \in Clients : client'[e] = "in")
            /\ \A a, e \in Clients : client'[a] = "in" /\ client'[e] = "in" => a = e
    BY <1>1 DEF SteeringInv, Ascending, Genuine
  <1>3. CASE Bind(c) /\ ~isBound
    <2>1. /\ \A e \in Clients : client[e] # "in"
          /\ client' = [client EXCEPT ![c] = "in"] /\ isBound' = TRUE
      BY <1>3 DEF Bind, SteeringInv
    <2>2. /\ client' \in [Clients -> {"out", "refused", "in"}] /\ client'[c] = "in"
          /\ \A e \in Clients : client'[e] = "in" => e = c
      BY <1>1, <2>1
    <2>3. InCharge = NoClient
      BY <2>1 DEF InCharge
    <2>4. InCharge' = c
      BY <2>2, Zenon DEF InCharge
    <2>5. Abstract!Claim(c)
      BY <1>1, <2>3, <2>4 DEF Abstract!Claim
    <2> QED BY <1>2, <2>1, <2>2, <2>5 DEF Abstract!TQNext
  <1>4. CASE LeaveRefused(c) \/ (Bind(c) /\ isBound)
    <2>1. /\ client[c] # "in" /\ isBound' = isBound
          /\ \E s \in {"out", "refused"} : client' = [client EXCEPT ![c] = s]
      BY <1>4 DEF Bind, LeaveRefused, SteeringInv
    <2>2. /\ client' \in [Clients -> {"out", "refused", "in"}]
          /\ \A e \in Clients : client'[e] = "in" <=> client[e] = "in"
      BY <1>1, <2>1
    <2>3. InCharge' = InCharge
      BY <2>2, Zenon DEF InCharge
    <2>4. UNCHANGED Abstract!turnVars
      BY <1>1, <2>3 DEF Abstract!turnVars
    <2> QED BY <1>2, <2>1, <2>2, <2>4 DEF SteeringInv
  <1>5. CASE Unbind(c)
    <2>1. /\ client[c] = "in" /\ isBound' = FALSE /\ client' = [client EXCEPT ![c] = "out"]
          /\ \A e \in Clients : client[e] = "in" => e = c
      BY <1>5 DEF Unbind, SteeringInv
    <2>2. /\ client' \in [Clients -> {"out", "refused", "in"}]
          /\ \A e \in Clients : client'[e] # "in"
      BY <1>1, <2>1
    <2>3. InCharge = c
      BY <2>1, ChargeIs
    <2>4. InCharge' = NoClient
      BY <2>2 DEF InCharge
    <2>5. Abstract!Release(c)
      BY <1>1, <2>3, <2>4 DEF Abstract!Release
    <2> QED BY <1>2, <2>1, <2>2, <2>5 DEF Abstract!TQNext
  <1> QED BY <1>3, <1>4, <1>5

(***************************************************************************)
(* The mutex-guarded slice and the bound flag implement the promise of the *)
(* handle, for any number of runs and turns: TurnQueue's theorems hold of  *)
(* agent.Steering, and every drain returns its turns in enqueue order.     *)
(***************************************************************************)
THEOREM SteeringRefinesTurnQueue == SSpec => ImplementsTurnQueue
  <1>1. SInit => SteeringInv /\ Abstract!TQInit
    <2> SUFFICES ASSUME SInit PROVE SteeringInv /\ Abstract!TQInit
      OBVIOUS
    <2>1. /\ slice = <<>> /\ queued = <<>> /\ received = <<>> /\ isBound = FALSE
          /\ client = [c \in Clients |-> "out"] /\ 1..0 = {}
      BY DEF SInit
    <2>2. \A c \in Clients : client[c] # "in"
      BY <2>1
    <2>3. Ascending(slice) /\ Genuine(slice)
      BY <2>1 DEF Ascending, Genuine
    <2>4. SteeringInv
      <3>1. Len(received) = 0 /\ queued \in Seq({"steer", "followUp"}) /\ slice \in Seq(Turn)
        BY <2>1
      <3>2. received \in Seq(Delivery)
        BY <2>1
      <3>3. client \in [Clients -> {"out", "refused", "in"}]
        BY <2>1
      <3>4. isBound = (\E c \in Clients : client[c] = "in")
        BY <2>1, <2>2, Zenon
      <3>5. \A i \in 1..Len(received) : Ascending(received[i].turns)
        BY <2>1, <3>1
      <3> QED BY <2>2, <2>3, <3>1, <3>2, <3>3, <3>4, <3>5, Zenon DEF SteeringInv
    <2>5. Numbers(slice) = {}
      <3>1. slice \in Seq(Turn) /\ Len(slice) = 0
        BY <2>1
      <3> QED BY <2>1, <3>1, NumbersOf
    <2>6. HandOvers(received) = <<>>
      BY <2>1 DEF HandOvers
    <2>7. InCharge = NoClient
      BY <2>2 DEF InCharge
    <2> QED BY <2>1, <2>4, <2>5, <2>6, <2>7 DEF Abstract!TQInit
  <1>2. ASSUME SteeringInv, [SNext]_steeringVars
        PROVE  SteeringInv' /\ [Abstract!TQNext]_(Abstract!turnVars)
    <2>1. ASSUME NEW k \in {"steer", "followUp"}, EnqueueTurn(k)
          PROVE  SteeringInv' /\ [Abstract!TQNext]_(Abstract!turnVars)
      BY <1>2, <2>1, EnqueueRefines
    <2>2. ASSUME NEW c \in Clients,
                 Bind(c) \/ LeaveRefused(c) \/ Unbind(c) \/ DrainSteers(c) \/ DrainEverything(c)
          PROVE  SteeringInv' /\ [Abstract!TQNext]_(Abstract!turnVars)
      BY <1>2, <2>2, BindingRefines, DrainSteersRefines, DrainEverythingRefines
    <2>3. CASE UNCHANGED steeringVars
      <3>1. SteeringInv'
        BY <1>2, <2>3 DEF steeringVars, SteeringInv, Ascending, Genuine
      <3>2. UNCHANGED Abstract!turnVars
        BY <2>3 DEF steeringVars, Abstract!turnVars, InCharge
      <3> QED BY <3>1, <3>2
    <2> QED BY <1>2, <2>1, <2>2, <2>3 DEF SNext
  <1>3. SteeringInv => Ascending(slice) /\ \A i \in DOMAIN received : Ascending(received[i].turns)
    <2> SUFFICES ASSUME SteeringInv
                 PROVE  Ascending(slice) /\ \A i \in DOMAIN received : Ascending(received[i].turns)
      OBVIOUS
    <2>1. DOMAIN received = 1..Len(received)
      BY LenProperties DEF SteeringInv
    <2> QED BY <2>1, Zenon DEF SteeringInv
  <1> QED BY <1>1, <1>2, <1>3, PTL DEF SSpec, ImplementsTurnQueue, Abstract!TQSpec

----------------------------------------------------------------------------
\* The embedding cache: its recency list.

\* A list of texts, each once.
Recency(keys) ==
    /\ keys \in Seq(Texts)
    /\ \A i, j \in 1..Len(keys) : keys[i] = keys[j] => i = j

\* A key is in the list.
Listed(keys, key) == \E i \in 1..Len(keys) : keys[i] = key

\* MoveToFront of a key that is listed reorders the list.
LEMMA FrontOfList ==
    ASSUME NEW keys, NEW key, Recency(keys), Listed(keys, key)
    PROVE  /\ Recency(MoveToFront(keys, key))
           /\ Len(MoveToFront(keys, key)) = Len(keys)
           /\ \A k : Listed(MoveToFront(keys, key), k) <=> Listed(keys, k)
<1> DEFINE n == Len(keys)
           place == CHOOSE i \in DOMAIN keys : keys[i] = key
           moved == [i \in 1..n |-> IF i = 1 THEN key ELSE IF i <= place THEN keys[i - 1] ELSE keys[i]]
<1>1. n \in Nat /\ DOMAIN keys = 1..n /\ \A i \in 1..n : keys[i] \in Texts
  BY DEF Recency
<1>2. place \in 1..n /\ keys[place] = key
  BY <1>1, Zenon DEF Listed
<1>3. MoveToFront(keys, key) = moved
  BY <1>1, Zenon DEF MoveToFront
<1> HIDE DEF place
<1>4. moved \in Seq(Texts) /\ Len(moved) = n
  <2>1. \A i \in 1..n : moved[i] \in Texts
    BY <1>1, <1>2
  <2>2. moved \in [1..n -> Texts]
    BY <2>1
  <2> HIDE DEF moved
  <2> QED BY <1>1, <2>2
<1>5. /\ moved[1] = keys[place]
      /\ \A i \in 1..n : i # 1 /\ i <= place => moved[i] = keys[i - 1]
      /\ \A i \in 1..n : i > place => moved[i] = keys[i]
  BY <1>1, <1>2
<1> HIDE DEF moved, n
<1>6. \A i, j \in 1..n : moved[i] = moved[j] => i = j
  <2>1. \A i, j \in 1..n : keys[i] = keys[j] => i = j
    BY DEF Recency, n
  <2> DEFINE from(i) == IF i = 1 THEN place ELSE IF i <= place THEN i - 1 ELSE i
  <2>2. \A i \in 1..n : from(i) \in 1..n /\ moved[i] = keys[from(i)]
    BY <1>1, <1>2, <1>5
  <2>3. \A i, j \in 1..n : from(i) = from(j) => i = j
    BY <1>1, <1>2
  <2> HIDE DEF from
  <2> QED BY <2>1, <2>2, <2>3
<1>7. ASSUME NEW k PROVE (\E i \in 1..n : moved[i] = k) <=> (\E i \in 1..n : keys[i] = k)
  <2>1. ASSUME NEW i \in 1..n, moved[i] = k PROVE \E j \in 1..n : keys[j] = k
    <3>1. CASE i = 1
      BY <3>1, <2>1, <1>2, <1>5
    <3>2. CASE i # 1 /\ i <= place
      <4>1. i - 1 \in 1..n /\ keys[i - 1] = k
        BY <3>2, <2>1, <1>1, <1>5
      <4> QED BY <4>1
    <3>3. CASE i > place
      BY <3>3, <2>1, <1>5
    <3> QED BY <3>1, <3>2, <3>3, <1>1, <1>2
  <2>2. ASSUME NEW i \in 1..n, keys[i] = k PROVE \E j \in 1..n : moved[j] = k
    <3>1. CASE i = place
      <4>1. 1 \in 1..n /\ moved[1] = k
        BY <3>1, <2>2, <1>1, <1>5
      <4> QED BY <4>1
    <3>2. CASE i < place
      <4>1. i + 1 \in 1..n /\ i + 1 # 1 /\ i + 1 <= place /\ (i + 1) - 1 = i
        BY <3>2, <1>1, <1>2
      <4>2. moved[i + 1] = k
        BY <4>1, <2>2, <1>5
      <4> QED BY <4>1, <4>2
    <3>3. CASE i > place
      BY <3>3, <2>2, <1>5
    <3> QED BY <3>1, <3>2, <3>3, <1>1, <1>2
  <2> QED BY <2>1, <2>2
<1> QED BY <1>3, <1>4, <1>6, <1>7 DEF Recency, Listed, n
----------------------------------------------------------------------------
\* What is kept.

Cells == Callers \X Nat \X {"inner", "hit", "given", "kept"} \X Nat
Vectors == [of : Texts, len : Nat, cell : Cells]

\* A vector of a text, in the one length the embedder works with, and of a stage.
Embeds(v, text, stage, d) ==
    v \in Vectors /\ v.of = text /\ v.len = d /\ d # 0 /\ v.cell[3] = stage

\* The map and the list hold the same keys, and every entry embeds its key.
Kept(state, d) ==
    /\ Recency(state.lru)
    /\ \A k : k \in DOMAIN state.cache <=> Listed(state.lru, k)
    /\ IsFiniteSet(DOMAIN state.cache) /\ Cardinality(DOMAIN state.cache) = Len(state.lru)
    /\ MaxSize > 0 => Len(state.lru) <= MaxSize
    /\ \A k \in DOMAIN state.cache : Embeds(state.cache[k], k, "kept", d)

\* A key that is not listed goes in front of the others.
LEMMA PushFront ==
    ASSUME NEW keys, NEW key \in Texts, Recency(keys), ~Listed(keys, key)
    PROVE  /\ Recency(<<key>> \o keys)
           /\ Len(<<key>> \o keys) = Len(keys) + 1
           /\ \A k : Listed(<<key>> \o keys, k) <=> k = key \/ Listed(keys, k)
<1> DEFINE n == Len(keys)
           grown == <<key>> \o keys
<1>1. n \in Nat /\ keys \in Seq(Texts) /\ <<key>> \in Seq(Texts)
  BY DEF Recency
<1>2. grown \in Seq(Texts) /\ Len(grown) = n + 1
  BY <1>1
<1>3. grown[1] = key /\ \A i \in 1..n : grown[i + 1] = keys[i]
  BY <1>1
<1> HIDE DEF grown
<1>4. \A i \in 1..(n + 1) : i = 1 \/ (i - 1 \in 1..n /\ grown[i] = keys[i - 1])
  <2> SUFFICES ASSUME NEW i \in 1..(n + 1), i # 1
               PROVE  i - 1 \in 1..n /\ grown[i] = keys[i - 1]
    OBVIOUS
  <2>1. i - 1 \in 1..n /\ (i - 1) + 1 = i
    BY <1>1
  <2> QED BY <2>1, <1>3
<1>5. \A i, j \in 1..n : keys[i] = keys[j] => i = j
  BY DEF Recency
<1>6. \A i \in 1..n : keys[i] # key
  BY DEF Listed
<1>7. \A i, j \in 1..(n + 1) : grown[i] = grown[j] => i = j
  <2> SUFFICES ASSUME NEW i \in 1..(n + 1), NEW j \in 1..(n + 1), grown[i] = grown[j]
               PROVE  i = j
    OBVIOUS
  <2>1. CASE i = 1 /\ j # 1
    BY <2>1, <1>3, <1>4, <1>6
  <2>2. CASE i # 1 /\ j = 1
    BY <2>2, <1>3, <1>4, <1>6
  <2>3. CASE i # 1 /\ j # 1
    <3>1. i - 1 \in 1..n /\ j - 1 \in 1..n /\ keys[i - 1] = keys[j - 1]
      BY <2>3, <1>4
    <3>2. i - 1 = j - 1
      BY <3>1, <1>5
    <3> QED BY <3>2, <1>1
  <2> QED BY <2>1, <2>2, <2>3
<1>8. ASSUME NEW k
      PROVE  (\E i \in 1..(n + 1) : grown[i] = k) <=> k = key \/ \E i \in 1..n : keys[i] = k
  <2>1. ASSUME NEW i \in 1..(n + 1), grown[i] = k PROVE k = key \/ \E j \in 1..n : keys[j] = k
    BY <2>1, <1>3, <1>4
  <2>2. ASSUME k = key PROVE \E i \in 1..(n + 1) : grown[i] = k
    BY <2>2, <1>1, <1>3
  <2>3. ASSUME NEW j \in 1..n, keys[j] = k PROVE \E i \in 1..(n + 1) : grown[i] = k
    <3>1. j + 1 \in 1..(n + 1) /\ grown[j + 1] = k
      BY <2>3, <1>1, <1>3
    <3> QED BY <3>1
  <2> QED BY <2>1, <2>2, <2>3
<1> QED BY <1>2, <1>7, <1>8 DEF Recency, Listed, grown

\* The list without its last key.
LEMMA WithoutLast ==
    ASSUME NEW keys, Recency(keys), keys # <<>>
    PROVE  /\ Recency(Front(keys))
           /\ Len(Front(keys)) = Len(keys) - 1
           /\ Listed(keys, Last(keys))
           /\ \A k : Listed(Front(keys), k) <=> Listed(keys, k) /\ k # Last(keys)
<1> DEFINE n == Len(keys)
           front == SubSeq(keys, 1, n - 1)
<1>1. n \in Nat /\ n # 0 /\ keys \in Seq(Texts)
  BY DEF Recency
<1>2. front \in Seq(Texts) /\ Len(front) = n - 1 /\ \A i \in 1..(n - 1) : front[i] = keys[i]
  <2>1. 1 \in 1..(n + 1) /\ n - 1 \in 0..n /\ ~(n - 1 < 0)
    BY <1>1
  <2>2. \A i \in 1..(n - 1) : keys[i] \in Texts /\ 1 + i - 1 = i
    BY <1>1
  <2>3. /\ front \in Seq(Texts)
        /\ Len(front) = IF 1 <= n - 1 THEN n - 1 - 1 + 1 ELSE 0
        /\ \A i \in 1..(n - 1 - 1 + 1) : front[i] = keys[1 + i - 1]
    BY <2>1, <2>2, SubSeqProperties
  <2> HIDE DEF front, n
  <2>4. n - 1 - 1 + 1 = n - 1 /\ (~(1 <= n - 1) => n - 1 = 0)
    BY <1>1
  <2>5. \A i \in 1..(n - 1) : front[i] = keys[i]
    BY <2>2, <2>3, <2>4
  <2>6. Len(front) = n - 1
    BY <2>3, <2>4
  <2> QED BY <2>3, <2>5, <2>6
<1>3. Front(keys) = front /\ Last(keys) = keys[n]
  BY DEF Front, Last
<1> HIDE DEF front
<1>4. \A i, j \in 1..n : keys[i] = keys[j] => i = j
  BY DEF Recency
<1>5. \A i, j \in 1..(n - 1) : front[i] = front[j] => i = j
  BY <1>1, <1>2, <1>4
<1>6. ASSUME NEW k
      PROVE  (\E i \in 1..(n - 1) : front[i] = k) <=> (\E i \in 1..n : keys[i] = k) /\ k # keys[n]
  <2>1. ASSUME NEW i \in 1..(n - 1), front[i] = k
        PROVE  (\E j \in 1..n : keys[j] = k) /\ k # keys[n]
    <3>1. i \in 1..n /\ n \in 1..n /\ i # n /\ keys[i] = k
      BY <2>1, <1>1, <1>2
    <3> QED BY <3>1, <1>4
  <2>2. ASSUME NEW i \in 1..n, keys[i] = k, k # keys[n] PROVE \E j \in 1..(n - 1) : front[j] = k
    <3>1. i \in 1..(n - 1)
      BY <2>2, <1>1
    <3> QED BY <3>1, <2>2, <1>2
  <2> QED BY <2>1, <2>2
<1>7. \E i \in 1..n : keys[i] = keys[n]
  BY <1>1
<1> QED BY <1>2, <1>3, <1>5, <1>6, <1>7 DEF Recency, Listed

\* insert keeps the map and the list together, and within the bound.
LEMMA InsertKeeps ==
    ASSUME NEW state, NEW key \in Texts, NEW v, NEW d,
           Kept(state, d), Embeds(v, key, "kept", d)
    PROVE  Kept(Insert(state, key, v), d)
<1> DEFINE known == key \in DOMAIN state.cache
           entries == [k \in DOMAIN state.cache \cup {key} |-> IF k = key THEN v ELSE state.cache[k]]
           keys == IF known THEN MoveToFront(state.lru, key) ELSE <<key>> \o state.lru
           grown == [cache |-> entries, lru |-> keys]
           oldest == Last(keys)
           evicted == [cache |-> [k \in DOMAIN entries \ {oldest} |-> entries[k]], lru |-> Front(keys)]
           over == ~known /\ MaxSize > 0 /\ Cardinality(DOMAIN entries) > MaxSize
<1>0. MaxSize \in Nat
  BY EmbedAssumption
<1>1. /\ Recency(state.lru)
      /\ \A k : k \in DOMAIN state.cache <=> Listed(state.lru, k)
      /\ IsFiniteSet(DOMAIN state.cache) /\ Cardinality(DOMAIN state.cache) = Len(state.lru)
      /\ MaxSize > 0 => Len(state.lru) <= MaxSize
      /\ \A k \in DOMAIN state.cache : Embeds(state.cache[k], k, "kept", d)
      /\ Len(state.lru) \in Nat
  BY DEF Kept, Recency
<1>2. Insert(state, key, v) = IF over THEN evicted ELSE grown
  BY Zenon DEF Insert
<1>3. /\ Recency(keys)
      /\ \A k : Listed(keys, k) <=> k = key \/ Listed(state.lru, k)
      /\ Len(keys) = IF known THEN Len(state.lru) ELSE Len(state.lru) + 1
  <2>1. CASE known
    <3>1. Listed(state.lru, key)
      BY <2>1, <1>1
    <3> QED BY <3>1, <2>1, <1>1, FrontOfList
  <2>2. CASE ~known
    <3>1. ~Listed(state.lru, key)
      BY <2>2, <1>1
    <3> QED BY <3>1, <2>2, <1>1, PushFront
  <2> QED BY <2>1, <2>2
<1>4. DOMAIN entries = DOMAIN state.cache \cup {key}
  OBVIOUS
<1>5. IsFiniteSet(DOMAIN entries) /\ Cardinality(DOMAIN entries) = Len(keys)
  <2>1. /\ IsFiniteSet(DOMAIN state.cache \cup {key})
        /\ Cardinality(DOMAIN state.cache \cup {key}) =
             IF known THEN Cardinality(DOMAIN state.cache) ELSE Cardinality(DOMAIN state.cache) + 1
    BY <1>1, FS_AddElement, Zenon
  <2> QED BY <2>1, <1>1, <1>3, <1>4
<1>6. \A k \in DOMAIN entries : Embeds(entries[k], k, "kept", d)
  BY <1>1
<1>7. \A k : k \in DOMAIN entries <=> Listed(keys, k)
  BY <1>1, <1>3, <1>4
<1> HIDE DEF entries, keys
<1>8. CASE over
  <2>1. keys # <<>> /\ Len(keys) = Len(state.lru) + 1 /\ MaxSize > 0
    BY <1>8, <1>0, <1>3, <1>5, <1>1
  <2>2. /\ Recency(Front(keys)) /\ Len(Front(keys)) = Len(keys) - 1 /\ Listed(keys, oldest)
        /\ \A k : Listed(Front(keys), k) <=> Listed(keys, k) /\ k # oldest
    BY <1>3, <2>1, WithoutLast
  <2>3. DOMAIN evicted.cache = DOMAIN entries \ {oldest} /\ evicted.lru = Front(keys)
        /\ \A k \in DOMAIN entries \ {oldest} : evicted.cache[k] = entries[k]
    OBVIOUS
  <2>4. oldest \in DOMAIN entries
    BY <2>2, <1>7
  <2>5. /\ IsFiniteSet(DOMAIN entries \ {oldest})
        /\ Cardinality(DOMAIN entries \ {oldest}) = Cardinality(DOMAIN entries) - 1
    BY <2>4, <1>5, FS_RemoveElement, Zenon
  <2>6. MaxSize > 0 => Len(Front(keys)) <= MaxSize
    BY <2>1, <2>2, <1>1, <1>0
  <2> HIDE DEF evicted, oldest
  <2>7. Kept(evicted, d)
    BY <2>2, <2>3, <2>5, <2>6, <1>5, <1>6, <1>7 DEF Kept
  <2> QED BY <2>7, <1>2, <1>8, Zenon
<1>9. CASE ~over
  <2>1. MaxSize > 0 => Len(keys) <= MaxSize
    BY <1>9, <1>0, <1>1, <1>3, <1>5
  <2>2. grown.cache = entries /\ grown.lru = keys
    OBVIOUS
  <2> HIDE DEF grown
  <2>3. Kept(grown, d)
    BY <2>1, <2>2, <1>3, <1>5, <1>6, <1>7 DEF Kept
  <2> QED BY <2>3, <1>2, <1>9, Zenon
<1> QED BY <1>8, <1>9

----------------------------------------------------------------------------
\* The loops of the two critical sections.

\* One turn: of the loop that looks the texts up, or of the one that stores.
EmbedTurn(w, before, i) ==
    IF w.loop = "look up" THEN LookUpText(before, w.texts, i) ELSE Store(w.caller, before, i)

EmbedTurns(f, w, start, n) ==
    /\ f[0] = start
    /\ \A i \in 1..n : f[i] = EmbedTurn(w, f[i - 1], i)

\* Both loops can take any number of turns.
LEMMA EmbedTurnsExist ==
    ASSUME NEW w, NEW start
    PROVE  \A n \in Nat : \E f : f = [i \in 0..n |-> f[i]] /\ EmbedTurns(f, w, start, n)
  <1> DEFINE S == {n \in Nat : \E f : f = [i \in 0..n |-> f[i]] /\ EmbedTurns(f, w, start, n)}
  <1>1. 0 \in S
    <2> DEFINE g == [i \in 0..0 |-> start]
    <2>1. g = [i \in 0..0 |-> g[i]] /\ g[0] = start /\ 1..0 = {}
      <3>1. 0 \in 0..0 /\ 1..0 = {}
        OBVIOUS
      <3> QED BY <3>1, Zenon
    <2> HIDE DEF g
    <2>2. EmbedTurns(g, w, start, 0)
      BY <2>1, Zenon DEF EmbedTurns
    <2> QED BY <2>1, <2>2
  <1>2. ASSUME NEW n \in S PROVE n + 1 \in S
    <2>1. PICK f : f = [i \in 0..n |-> f[i]] /\ EmbedTurns(f, w, start, n)
      OBVIOUS
    <2> DEFINE next == EmbedTurn(w, f[n], n + 1)
               g == [i \in 0..(n + 1) |-> IF i = n + 1 THEN next ELSE f[i]]
    <2> HIDE DEF next
    <2>2. /\ n \in Nat /\ g[0] = f[0] /\ g[n + 1] = next /\ \A i \in 0..n : g[i] = f[i]
          /\ g = [i \in 0..(n + 1) |-> g[i]]
      OBVIOUS
    <2> HIDE DEF g
    <2>3. ASSUME NEW i \in 1..(n + 1) PROVE g[i] = EmbedTurn(w, g[i - 1], i)
      <3>1. CASE i = n + 1
        <4>1. i - 1 = n /\ n \in 0..n
          BY <2>2, <3>1
        <4>2. g[i] = next /\ g[i - 1] = f[n]
          BY <2>2, <3>1, <4>1
        <4> QED BY <3>1, <4>2, Zenon DEF next
      <3>2. CASE i # n + 1
        <4>1. i \in 1..n /\ i \in 0..n /\ i - 1 \in 0..n
          BY <2>2, <3>2
        <4>2. g[i] = f[i] /\ g[i - 1] = f[i - 1]
          BY <2>2, <4>1
        <4>3. f[i] = EmbedTurn(w, f[i - 1], i)
          BY <2>1, <4>1, Zenon DEF EmbedTurns
        <4> QED BY <4>2, <4>3, Zenon
      <3> QED BY <3>1, <3>2
    <2>4. EmbedTurns(g, w, start, n + 1)
      <3>1. g[0] = start
        BY <2>1, <2>2, Zenon DEF EmbedTurns
      <3> QED BY <2>3, <3>1, Zenon DEF EmbedTurns
    <2> QED BY <2>2, <2>4
  <1> HIDE DEF S
  <1>3. \A n \in Nat : n \in S
    <2>1. S \in SUBSET Nat
      BY DEF S
    <2> QED BY <1>1, <1>2, <2>1, Inductive
  <1> QED BY <1>3 DEF S

\* LookUpAll is what its loop computes.
LEMMA LookUpAllTurns ==
    ASSUME NEW texts, Len(texts) \in Nat
    PROVE  \E f : /\ f[0] = [lru |-> lru, missing |-> <<>>, hits |-> 0]
                  /\ \A i \in 1..Len(texts) : f[i] = LookUpText(f[i - 1], texts, i)
                  /\ f[Len(texts)] = LookUpAll(texts)
  <1> DEFINE n == Len(texts)
             start == [lru |-> lru, missing |-> <<>>, hits |-> 0]
             w == [loop |-> "look up", texts |-> texts]
             Body(f) == [i \in 0..n |-> IF i = 0 THEN start ELSE LookUpText(f[i - 1], texts, i)]
             all == CHOOSE f : f = Body(f)
  <1>0. w.loop = "look up" /\ w.texts = texts
    OBVIOUS
  <1> HIDE DEF w, start
  <1>1. PICK f : f = [i \in 0..n |-> f[i]] /\ EmbedTurns(f, w, start, n)
    BY EmbedTurnsExist
  <1>2. \A i \in 1..n : f[i] = LookUpText(f[i - 1], texts, i)
    BY <1>0, <1>1, Zenon DEF EmbedTurns, EmbedTurn
  <1>3. f = Body(f)
    <2>1. ASSUME NEW i \in 0..n PROVE f[i] = IF i = 0 THEN start ELSE LookUpText(f[i - 1], texts, i)
      <3>1. i = 0 \/ i \in 1..n
        OBVIOUS
      <3>2. 0 \notin 1..n
        OBVIOUS
      <3> QED BY <1>1, <1>2, <3>1, <3>2, Zenon DEF EmbedTurns
    <2> QED BY <1>1, <2>1, Zenon
  <1>4. all = Body(all)
    BY <1>3, Zenon
  <1>5. LookUpAll(texts) = all[n]
    BY Zenon DEF LookUpAll, start
  <1> HIDE DEF all
  <1>6. 0 \in 0..n /\ \A i \in 1..n : i \in 0..n /\ i # 0
    OBVIOUS
  <1>7. all[0] = start
    BY <1>4, <1>6, Zenon
  <1>8. ASSUME NEW i \in 1..n PROVE all[i] = LookUpText(all[i - 1], texts, i)
    BY <1>4, <1>6, Zenon
  <1> QED BY <1>5, <1>7, <1>8, Zenon DEF start

\* StoreAll is what its loop computes.
LEMMA StoreAllTurns ==
    ASSUME NEW c \in Callers, Len(call[c].missing) \in Nat
    PROVE  \E f : /\ f[0] = [cache |-> cache, lru |-> lru]
                  /\ \A j \in 1..Len(call[c].missing) : f[j] = Store(c, f[j - 1], j)
                  /\ f[Len(call[c].missing)] = StoreAll(c)
  <1> DEFINE n == Len(call[c].missing)
             start == [cache |-> cache, lru |-> lru]
             w == [loop |-> "store", caller |-> c]
             Body(f) == [j \in 0..n |-> IF j = 0 THEN start ELSE Store(c, f[j - 1], j)]
             all == CHOOSE f : f = Body(f)
  <1>0. w.loop # "look up" /\ w.caller = c
    OBVIOUS
  <1> HIDE DEF w, start
  <1>1. PICK f : f = [i \in 0..n |-> f[i]] /\ EmbedTurns(f, w, start, n)
    BY EmbedTurnsExist
  <1>2. \A i \in 1..n : f[i] = Store(c, f[i - 1], i)
    BY <1>0, <1>1, Zenon DEF EmbedTurns, EmbedTurn
  <1>3. f = Body(f)
    <2>1. ASSUME NEW i \in 0..n PROVE f[i] = IF i = 0 THEN start ELSE Store(c, f[i - 1], i)
      <3>1. i = 0 \/ i \in 1..n
        OBVIOUS
      <3>2. 0 \notin 1..n
        OBVIOUS
      <3> QED BY <1>1, <1>2, <3>1, <3>2, Zenon DEF EmbedTurns
    <2> QED BY <1>1, <2>1, Zenon
  <1>4. all = Body(all)
    BY <1>3, Zenon
  <1>5. StoreAll(c) = all[n]
    BY Zenon DEF StoreAll, start
  <1> HIDE DEF all
  <1>6. 0 \in 0..n /\ \A i \in 1..n : i \in 0..n /\ i # 0
    OBVIOUS
  <1>7. all[0] = start
    BY <1>4, <1>6, Zenon
  <1>8. ASSUME NEW i \in 1..n PROVE all[i] = Store(c, all[i - 1], i)
    BY <1>4, <1>6, Zenon
  <1> QED BY <1>5, <1>7, <1>8, Zenon DEF start

----------------------------------------------------------------------------
\* What the lookup loop leaves.

\* The first n texts were looked up: each is a hit, or it is missing.
Looked(found, texts, n) ==
    /\ found \in [lru : Seq(Texts), missing : Seq(Nat), hits : Nat]
    /\ Recency(found.lru) /\ Len(found.lru) = Len(lru)
    /\ \A k : Listed(found.lru, k) <=> Listed(lru, k)
    /\ found.hits + Len(found.missing) = n
    /\ \A j \in 1..Len(found.missing) : found.missing[j] \in 1..n
    /\ \A i \in 1..n : texts[i] \in DOMAIN cache \/ Listed(found.missing, i)

\* The next text is a hit that comes first, or one more missing text.
LEMMA LookedOn ==
    ASSUME \A k \in DOMAIN cache : Listed(lru, k),
           NEW texts \in Seq(Texts), NEW found, NEW n \in Nat, n + 1 \in 1..Len(texts),
           Looked(found, texts, n)
    PROVE  Looked(LookUpText(found, texts, n + 1), texts, n + 1)
<1> DEFINE text == texts[n + 1]
           next == LookUpText(found, texts, n + 1)
<1>1. /\ found \in [lru : Seq(Texts), missing : Seq(Nat), hits : Nat]
      /\ Recency(found.lru) /\ Len(found.lru) = Len(lru)
      /\ \A k : Listed(found.lru, k) <=> Listed(lru, k)
      /\ found.hits + Len(found.missing) = n
      /\ \A j \in 1..Len(found.missing) : found.missing[j] \in 1..n
      /\ \A i \in 1..n : texts[i] \in DOMAIN cache \/ Listed(found.missing, i)
  BY DEF Looked
<1>2. /\ found.lru \in Seq(Texts) /\ found.missing \in Seq(Nat) /\ found.hits \in Nat
      /\ Len(found.missing) \in Nat
  BY <1>1
<1>3. \A i \in 1..(n + 1) : i \in 1..n \/ i = n + 1
  OBVIOUS
<1>6. found.hits + Len(found.missing) = n /\ \A j \in 1..Len(found.missing) : found.missing[j] \in 1..n
  BY <1>1
<1>4. CASE text \in DOMAIN cache
  <2> DEFINE keys == MoveToFront(found.lru, text)
  <2>1. Listed(found.lru, text)
    BY <1>1, <1>4
  <2>2. /\ Recency(keys) /\ Len(keys) = Len(found.lru)
        /\ \A k : Listed(keys, k) <=> Listed(found.lru, k)
    BY <1>1, <2>1, FrontOfList
  <2> HIDE DEF keys
  <2>3. next = [lru |-> keys, missing |-> found.missing, hits |-> found.hits + 1]
    BY <1>1, <1>4 DEF LookUpText, keys
  <2>4. keys \in Seq(Texts)
    BY <2>2 DEF Recency
  <2>5. /\ next \in [lru : Seq(Texts), missing : Seq(Nat), hits : Nat]
        /\ next.lru = keys /\ next.missing = found.missing /\ next.hits = found.hits + 1
    BY <2>3, <2>4, <1>2
  <2> HIDE DEF next
  <2>6. next.hits + Len(next.missing) = n + 1
    <3>1. next.missing = found.missing /\ next.hits = found.hits + 1
      BY <2>5
    <3>2. found.hits + 1 + Len(found.missing) = n + 1
      BY <1>2, <1>6
    <3> QED BY <3>1, <3>2
  <2>7. \A j \in 1..Len(next.missing) : next.missing[j] \in 1..(n + 1)
    BY <2>5, <1>1
  <2>8. \A i \in 1..(n + 1) : texts[i] \in DOMAIN cache \/ Listed(next.missing, i)
    BY <2>5, <1>1, <1>3, <1>4
  <2> QED BY <2>2, <2>5, <2>6, <2>7, <2>8, <1>1, Zenon DEF Looked, next
<1>5. CASE text \notin DOMAIN cache
  <2> DEFINE missed == Append(found.missing, n + 1)
  <2>1. /\ missed \in Seq(Nat) /\ Len(missed) = Len(found.missing) + 1
        /\ \A j \in 1..Len(found.missing) : missed[j] = found.missing[j]
        /\ missed[Len(found.missing) + 1] = n + 1
    BY <1>2, AppendProperties
  <2> HIDE DEF missed
  <2>3. next = [lru |-> found.lru, missing |-> missed, hits |-> found.hits]
    BY <1>1, <1>5 DEF LookUpText, missed
  <2>5. /\ next \in [lru : Seq(Texts), missing : Seq(Nat), hits : Nat]
        /\ next.lru = found.lru /\ next.missing = missed /\ next.hits = found.hits
    BY <2>1, <2>3, <1>2
  <2> HIDE DEF next
  <2>6. next.hits + Len(next.missing) = n + 1
    BY <2>1, <2>5, <1>1, <1>2
  <2>7. ASSUME NEW j \in 1..Len(next.missing) PROVE next.missing[j] \in 1..(n + 1)
    <3>1. j \in 1..Len(found.missing) \/ j = Len(found.missing) + 1
      BY <2>1, <2>5, <1>2
    <3>2. next.missing[j] = missed[j] /\ \A i \in 1..n : i \in 1..(n + 1)
      BY <2>5
    <3>3. CASE j \in 1..Len(found.missing)
      BY <3>2, <3>3, <2>1, <1>6
    <3>4. CASE j = Len(found.missing) + 1
      BY <3>2, <3>4, <2>1
    <3> QED BY <3>1, <3>3, <3>4
  <2>8. ASSUME NEW i \in 1..(n + 1) PROVE texts[i] \in DOMAIN cache \/ Listed(next.missing, i)
    <3>1. CASE i \in 1..n
      <4>1. CASE texts[i] \notin DOMAIN cache
        <5>1. PICK j \in 1..Len(found.missing) : found.missing[j] = i
          BY <3>1, <4>1, <1>1 DEF Listed
        <5>2. Len(next.missing) = Len(found.missing) + 1 /\ next.missing[j] = i
          BY <5>1, <2>1, <2>5
        <5>3. j \in 1..Len(next.missing)
          BY <5>2, <1>2
        <5> QED BY <5>2, <5>3 DEF Listed
      <4> QED BY <4>1
    <3>2. CASE i = n + 1
      <4>1. Len(next.missing) \in 1..Len(next.missing) /\ next.missing[Len(next.missing)] = i
        BY <3>2, <2>1, <2>5, <1>2
      <4> QED BY <4>1 DEF Listed
    <3> QED BY <3>1, <3>2, <1>3
  <2> QED BY <2>5, <2>6, <2>7, <2>8, <1>1, Zenon DEF Looked, next
<1> QED BY <1>4, <1>5

\* All of them.
LEMMA LookUpAllGives ==
    ASSUME \A k \in DOMAIN cache : Listed(lru, k), Recency(lru), NEW texts \in Seq(Texts)
    PROVE  Looked(LookUpAll(texts), texts, Len(texts))
<1>1. Len(texts) \in Nat
  OBVIOUS
<1>2. PICK f : /\ f[0] = [lru |-> lru, missing |-> <<>>, hits |-> 0]
               /\ \A i \in 1..Len(texts) : f[i] = LookUpText(f[i - 1], texts, i)
               /\ f[Len(texts)] = LookUpAll(texts)
  BY <1>1, LookUpAllTurns
<1> DEFINE S == {n \in Nat : n <= Len(texts) => Looked(f[n], texts, n)}
<1>3. 0 \in S
  <2>1. /\ f[0] \in [lru : Seq(Texts), missing : Seq(Nat), hits : Nat]
        /\ f[0].lru = lru /\ f[0].missing = <<>> /\ f[0].hits = 0
    BY <1>2 DEF Recency
  <2>2. f[0].hits + Len(f[0].missing) = 0 /\ 1..Len(f[0].missing) = {} /\ 1..0 = {}
    BY <2>1
  <2>3. Looked(f[0], texts, 0)
    BY <2>1, <2>2, Zenon DEF Looked
  <2> QED BY <2>3
<1>4. ASSUME NEW n \in S PROVE n + 1 \in S
  <2>1. CASE n + 1 <= Len(texts)
    <3>1. n \in Nat /\ n + 1 \in 1..Len(texts) /\ (n + 1) - 1 = n /\ Looked(f[n], texts, n)
      BY <1>1, <2>1
    <3>2. f[n + 1] = LookUpText(f[n], texts, n + 1)
      BY <3>1, <1>2
    <3>3. Looked(f[n + 1], texts, n + 1)
      BY <3>1, <3>2, LookedOn
    <3> QED BY <3>1, <3>3
  <2> QED BY <2>1
<1> HIDE DEF S
<1>5. \A n \in Nat : n \in S
  <2>1. S \in SUBSET Nat
    BY DEF S
  <2> QED BY <1>3, <1>4, <2>1, Inductive
<1>6. Looked(f[Len(texts)], texts, Len(texts))
  BY <1>1, <1>5 DEF S
<1> QED BY <1>2, <1>6

----------------------------------------------------------------------------
\* What a call holds.

Calls == [n : Nat, pc : {"idle", "asking", "computed", "done"}, texts : Seq(Texts),
          results : Seq(Seq(Vectors)), missing : Seq(Nat), computed : Seq(Vectors), attempt : Nat]

\* The caller's own vector of a text: a copy of a hit, or of what was computed.
Own(c, result, text, d) ==
    /\ result[1].cell[1] = c
    /\ Embeds(result[1], text, "hit", d) \/ Embeds(result[1], text, "given", d)

\* Every text is missing still or has a vector of its own, and what was
\* computed belongs to the missing texts in their order.
CallSound(c, me, d) ==
    /\ me \in Calls
    /\ Len(me.results) = Len(me.texts)
    /\ \A j \in 1..Len(me.missing) : me.missing[j] \in 1..Len(me.texts)
    /\ Len(me.computed) <= Len(me.missing)
    /\ \A j \in 1..Len(me.computed) : Embeds(me.computed[j], me.texts[me.missing[j]], "inner", d)
    /\ \A i \in 1..Len(me.texts) :
          \/ Own(c, me.results[i], me.texts[i], d)
          \/ me.pc # "done" /\ Listed(me.missing, i)

\* A cell that was written to is the embedder's, or the writer's own.
Written(s) == s[1][3] # "inner" => s[1][3] \in {"hit", "given"} /\ s[2] = s[1][1]

EmbedInv ==
    /\ config \in [backend : {"ollama", "openai"}, maxBatch : Nat, dimensions : Nat]
    /\ dims \in Nat
    /\ Kept([cache |-> cache, lru |-> lru], dims)
    /\ counts \in [hits : Nat, misses : Nat] /\ counts.hits + counts.misses = asked
    /\ call \in [Callers -> Calls] /\ \A c \in Callers : CallSound(c, call[c], dims)
    /\ \A s \in spoiled : Written(s)

\* A copy embeds what it is a copy of.
LEMMA Copied ==
    ASSUME NEW v, NEW text, NEW from, NEW d, Embeds(v, text, from, d),
           NEW cell \in Cells, NEW stage, cell[3] = stage
    PROVE  /\ Embeds(CopyVector(v, cell), text, stage, d)
           /\ CopyVector(v, cell).cell = cell
<1>1. v \in Vectors
  BY DEF Embeds
<1>2. CopyVector(v, cell) = [of |-> v.of, len |-> v.len, cell |-> cell]
  BY <1>1 DEF CopyVector, Vectors
<1> QED BY <1>1, <1>2 DEF Embeds, Vectors

\* The second critical section keeps what was computed, and keeps the map sound.
LEMMA StoreAllKeeps ==
    ASSUME EmbedInv, NEW c \in Callers, Len(call[c].computed) = Len(call[c].missing)
    PROVE  Kept(StoreAll(c), dims)
<1> DEFINE me == call[c]
           n == Len(me.missing)
<1>1. me \in Calls /\ CallSound(c, me, dims) /\ Kept([cache |-> cache, lru |-> lru], dims)
  BY DEF EmbedInv
<1>2. /\ me.texts \in Seq(Texts) /\ me.missing \in Seq(Nat) /\ me.computed \in Seq(Vectors)
      /\ me.n \in Nat /\ n \in Nat
  BY <1>1 DEF Calls
<1>3. PICK f : /\ f[0] = [cache |-> cache, lru |-> lru]
               /\ \A j \in 1..n : f[j] = Store(c, f[j - 1], j)
               /\ f[n] = StoreAll(c)
  BY <1>2, StoreAllTurns
<1>4. ASSUME NEW j \in 1..n, NEW state, Kept(state, dims) PROVE Kept(Store(c, state, j), dims)
  <2> DEFINE text == me.texts[me.missing[j]]
             v == CopyVector(me.computed[j], Cell(c, "kept", j))
  <2>1. me.missing[j] \in 1..Len(me.texts) /\ Embeds(me.computed[j], text, "inner", dims)
    BY <1>1 DEF CallSound
  <2>2. text \in Texts
    BY <2>1, <1>2
  <2>3. Cell(c, "kept", j) \in Cells /\ Cell(c, "kept", j)[3] = "kept"
    BY <1>2 DEF Cell, Cells
  <2>4. Embeds(v, text, "kept", dims)
    BY <2>1, <2>3, Copied
  <2>5. Store(c, state, j) = Insert(state, text, v)
    BY DEF Store
  <2> HIDE DEF text, v
  <2> QED BY <1>4, <2>2, <2>4, <2>5, InsertKeeps
<1> HIDE DEF n
<1> DEFINE S == {j \in Nat : j <= n => Kept(f[j], dims)}
<1>5. 0 \in S
  BY <1>1, <1>3
<1>6. ASSUME NEW j \in S PROVE j + 1 \in S
  <2>1. CASE j + 1 <= n
    <3>1. j \in Nat /\ j + 1 \in 1..n /\ (j + 1) - 1 = j /\ Kept(f[j], dims)
      BY <1>2, <2>1
    <3>2. f[j + 1] = Store(c, f[j], j + 1)
      BY <3>1, <1>3
    <3>3. Kept(f[j + 1], dims)
      BY <3>1, <3>2, <1>4
    <3> QED BY <3>1, <3>3
  <2> QED BY <2>1
<1> HIDE DEF S
<1>7. \A j \in Nat : j \in S
  <2>1. S \in SUBSET Nat
    BY DEF S
  <2> QED BY <1>5, <1>6, <2>1, Inductive
<1>8. Kept(f[n], dims)
  BY <1>2, <1>7 DEF S
<1> QED BY <1>3, <1>8

----------------------------------------------------------------------------
\* What the embedder answers.

\* Every vector that is decoded is for the text in its place.
LEMMA DecodedInPlace ==
    ASSUME NEW chunk \in Seq(Texts), NEW data \in Bodies(chunk), Decode(data, Len(chunk)) # <<>>
    PROVE  LET vectors == Decode(data, Len(chunk))
           IN  /\ DOMAIN vectors = 1..Len(chunk) /\ vectors = [k \in 1..Len(chunk) |-> vectors[k]]
               /\ \A k \in 1..Len(chunk) : vectors[k].of = chunk[k] /\ vectors[k].len \in Nat
               /\ Len(chunk) # 0
<1> DEFINE n == Len(chunk)
           vectors == Decode(data, n)
<1>1. n \in Nat /\ \A k \in 1..n : chunk[k] \in Texts
  OBVIOUS
<1>2. PICK m \in (n - 1)..n : data \in [1..m -> Entry(chunk)]
  BY DEF Bodies
<1>3. /\ Len(data) = n
      /\ \A i \in DOMAIN data : ~(data[i].index >= n)
      /\ \A i, j \in DOMAIN data : data[i].index = data[j].index => i = j
      /\ vectors = [k \in 1..n |-> CHOOSE e \in ToSet(data) : e.index = k - 1]
  BY Zenon DEF Decode
<1>4. n # 0
  <2>1. ASSUME n = 0 PROVE FALSE
    <3>1. vectors = <<>>
      BY <1>3, <2>1
    <3> QED BY <3>1
  <2> QED BY <2>1
<1>5. data \in [1..n -> Entry(chunk)]
  <2>1. m \in Nat
    BY <1>1, <1>2, <1>4
  <2>2. data \in Seq(Entry(chunk)) /\ Len(data) = m
    BY <1>2, <2>1
  <2>3. m = n
    BY <1>3, <2>2
  <2> QED BY <1>2, <2>3
<1>6. \A e \in Entry(chunk) :
         /\ e.index \in 0..n /\ e.len \in Nat
         /\ e.index < n => e.of = chunk[e.index + 1]
  BY <1>1 DEF Entry, Lengths
<1> DEFINE place == [i \in 1..n |-> data[i].index + 1]
<1> HIDE DEF vectors, n
<1>7. \A i \in 1..n : data[i] \in Entry(chunk) /\ data[i].index \in 0..n /\ data[i].index < n
  BY <1>1, <1>3, <1>5, <1>6
<1>8. place \in [1..n -> 1..n]
  BY <1>1, <1>7
<1>9. place \in Injection(1..n, 1..n)
  <2>1. ASSUME NEW i \in 1..n, NEW j \in 1..n, place[i] = place[j] PROVE i = j
    <3>1. data[i].index = data[j].index
      BY <2>1, <1>7
    <3> QED BY <3>1, <1>3, <1>5
  <2> HIDE DEF place
  <2> QED BY <1>8, <2>1 DEF Injection, IsInjective
<1>10. ASSUME NEW k \in 1..n PROVE \E i \in 1..n : data[i].index = k - 1
  <2> HIDE DEF place
  <2>1. IsFiniteSet(1..n)
    BY <1>1, FS_Interval
  <2>2. place \in Surjection(1..n, 1..n)
    BY <1>9, <2>1, FS_Injection
  <2>3. PICK i \in 1..n : place[i] = k
    BY <2>2 DEF Surjection
  <2>4. data[i].index + 1 = k
    BY <2>3 DEF place
  <2> QED BY <2>4, <1>7
<1>11. ASSUME NEW k \in 1..n PROVE vectors[k].of = chunk[k] /\ vectors[k].len \in Nat
  <2>1. PICK i \in 1..n : data[i].index = k - 1
    BY <1>10
  <2>2. ToSet(data) = {data[j] : j \in 1..n}
    BY <1>5 DEF ToSet
  <2>3. vectors[k] = CHOOSE e \in ToSet(data) : e.index = k - 1
    BY <1>3
  <2>4. vectors[k] \in ToSet(data) /\ vectors[k].index = k - 1
    BY <2>1, <2>2, <2>3
  <2>5. vectors[k] \in Entry(chunk)
    BY <2>2, <2>4, <1>7
  <2>6. k - 1 < n /\ (k - 1) + 1 = k
    BY <1>1
  <2> QED BY <2>4, <2>5, <2>6, <1>6
<1>12. DOMAIN vectors = 1..n /\ vectors = [k \in 1..n |-> vectors[k]]
  BY <1>3
<1> QED BY <1>4, <1>11, <1>12 DEF vectors, n

\* The next chunk: the missing texts that follow those already embedded.
LEMMA NextChunk ==
    ASSUME EmbedInv, NEW c \in Callers
    PROVE  LET me == call[c]
               done == Len(me.computed)
           IN  /\ Chunk(c) \in Seq(Texts) /\ Len(Chunk(c)) <= Len(me.missing) - done
               /\ \A k \in 1..Len(Chunk(c)) : Chunk(c)[k] = me.texts[me.missing[done + k]]
<1> DEFINE me == call[c]
           done == Len(me.computed)
           rest == Len(me.missing) - done
           remaining == [j \in 1..rest |-> me.texts[me.missing[done + j]]]
           size == BatchChunkSize(rest)
<1>1. /\ me \in Calls /\ CallSound(c, me, dims) /\ config.maxBatch \in Nat
  BY DEF EmbedInv
<1>2. /\ me.texts \in Seq(Texts) /\ me.missing \in Seq(Nat) /\ done \in Nat
      /\ Len(me.missing) \in Nat /\ rest \in Nat
  BY <1>1 DEF Calls, CallSound
<1>3. \A j \in 1..rest : me.texts[me.missing[done + j]] \in Texts
  <2> SUFFICES ASSUME NEW j \in 1..rest PROVE me.texts[me.missing[done + j]] \in Texts
    OBVIOUS
  <2>1. done + j \in 1..Len(me.missing)
    BY <1>2
  <2>2. me.missing[done + j] \in 1..Len(me.texts)
    BY <2>1, <1>1 DEF CallSound
  <2>3. me.texts \in Seq(Texts)
    BY <1>2
  <2> HIDE DEF me, rest, done
  <2>4. \A i \in 1..Len(me.texts) : me.texts[i] \in Texts
    BY <2>3
  <2> QED BY <2>2, <2>4, Zenon
<1>4. remaining \in Seq(Texts) /\ Len(remaining) = rest /\ Remaining(c) = remaining
  <2>1. remaining \in [1..rest -> Texts]
    BY <1>3
  <2>2. Remaining(c) = remaining
    BY DEF Remaining
  <2>3. rest \in Nat
    BY <1>2
  <2> HIDE DEF remaining, rest
  <2> QED BY <2>1, <2>2, <2>3
<1>5. size \in 0..rest
  <2> HIDE DEF rest
  <2> QED BY <1>1, <1>2 DEF BatchChunkSize
<1>6. Chunk(c) = SubSeq(remaining, 1, size)
  BY <1>4, Zenon DEF Chunk
<1>7. \A k \in 1..rest : remaining[k] = me.texts[me.missing[done + k]] /\ 1 + k - 1 = k
  <2>1. \A k \in 1..rest : 1 + k - 1 = k
    OBVIOUS
  <2>2. \A k \in 1..rest : remaining[k] = me.texts[me.missing[done + k]]
    OBVIOUS
  <2> QED BY <2>1, <2>2, Zenon
<1>11. rest \in Nat /\ \A k \in 1..rest : remaining[k] \in Texts
  <2>1. rest \in Nat
    BY <1>2
  <2>2. \A k \in 1..rest : remaining[k] \in Texts
    BY <1>3, <1>7, Zenon
  <2> QED BY <2>1, <2>2
<1> HIDE DEF remaining, size, rest
<1>8. \A k \in 1..size : k \in 1..rest /\ remaining[k] \in Texts
  BY <1>5, <1>11
<1>9. /\ SubSeq(remaining, 1, size) \in Seq(Texts)
      /\ Len(SubSeq(remaining, 1, size)) = IF 1 <= size THEN size - 1 + 1 ELSE 0
      /\ \A k \in 1..(size - 1 + 1) : SubSeq(remaining, 1, size)[k] = remaining[1 + k - 1]
  BY <1>5, <1>8, <1>11, SubSeqProperties
<1>10. size - 1 + 1 = size /\ (~(1 <= size) => size = 0) /\ size <= rest
  BY <1>11, <1>5
<1> QED BY <1>6, <1>7, <1>8, <1>9, <1>10 DEF rest

----------------------------------------------------------------------------
\* The invariant is inductive.

\* The length that was recorded is not changed: what is sound remains so.
LEMMA EmbedsLater ==
    ASSUME NEW d, NEW e, d = 0 \/ e = d
    PROVE  /\ \A v, text, stage : Embeds(v, text, stage, d) => Embeds(v, text, stage, e)
           /\ \A state : Kept(state, d) => Kept(state, e)
           /\ \A c, me : CallSound(c, me, d) => CallSound(c, me, e)
<1>1. ASSUME NEW v, NEW text, NEW stage, Embeds(v, text, stage, d)
      PROVE  Embeds(v, text, stage, e)
  BY <1>1 DEF Embeds
<1>2. ASSUME NEW state, Kept(state, d) PROVE Kept(state, e)
  BY <1>1, <1>2, Zenon DEF Kept
<1>3. ASSUME NEW c, NEW me, CallSound(c, me, d) PROVE CallSound(c, me, e)
  <2>1. ASSUME NEW result, NEW text, Own(c, result, text, d) PROVE Own(c, result, text, e)
    BY <2>1, <1>1, Zenon DEF Own
  <2> QED BY <1>1, <1>3, <2>1, Zenon DEF CallSound
<1> QED BY <1>1, <1>2, <1>3, Zenon

\* An empty cache is sound.
LEMMA NothingKept ==
    ASSUME NEW d
    PROVE  Kept([cache |-> <<>>, lru |-> <<>>], d)
<1> DEFINE state == [cache |-> <<>>, lru |-> <<>>]
<1>1. state.cache = <<>> /\ state.lru = <<>> /\ DOMAIN state.cache = {} /\ Len(state.lru) = 0
  OBVIOUS
<1>2. Recency(state.lru)
  BY <1>1 DEF Recency
<1>3. \A k : ~Listed(state.lru, k)
  BY <1>1 DEF Listed
<1>4. IsFiniteSet(DOMAIN state.cache) /\ Cardinality(DOMAIN state.cache) = 0
  BY <1>1, FS_EmptySet
<1>5. MaxSize > 0 => Len(state.lru) <= MaxSize
  BY <1>1, EmbedAssumption
<1> QED BY <1>1, <1>2, <1>3, <1>4, <1>5, Zenon DEF Kept

\* A caller that has no call, before its first or after one that failed.
LEMMA NoCallSound ==
    ASSUME NEW c, NEW me, NEW d, me = NoCall \/ \E m \in Nat : me = [NoCall EXCEPT !.n = m]
    PROVE  CallSound(c, me, d)
<1>1. PICK m \in Nat : me = [NoCall EXCEPT !.n = m]
  <2>1. CASE me = NoCall
    <3>1. me = [NoCall EXCEPT !.n = 0]
      BY <2>1 DEF NoCall
    <3> QED BY <3>1
  <2> QED BY <2>1
<1>2. me = [n |-> m, pc |-> "idle", texts |-> <<>>, results |-> <<>>, missing |-> <<>>,
            computed |-> <<>>, attempt |-> 1]
  BY <1>1 DEF NoCall
<1>3. me \in Calls
  BY <1>2 DEF Calls
<1>4. me.texts = <<>> /\ me.results = <<>> /\ me.missing = <<>> /\ me.computed = <<>>
  BY <1>2
<1> QED BY <1>3, <1>4 DEF CallSound

\* One caller's call changes, and the length is recorded at most once.
LEMMA OneCallChanges ==
    ASSUME EmbedInv, NEW c \in Callers, NEW me, call' = [call EXCEPT ![c] = me],
           CallSound(c, me, dims'), dims = 0 \/ dims' = dims
    PROVE  call' \in [Callers -> Calls] /\ \A e \in Callers : CallSound(e, call'[e], dims')
<1>1. call \in [Callers -> Calls] /\ \A e \in Callers : CallSound(e, call[e], dims)
  BY DEF EmbedInv
<1>2. me \in Calls
  BY DEF CallSound
<1>3. /\ call' \in [Callers -> Calls] /\ call'[c] = me
      /\ \A e \in Callers : e # c => call'[e] = call[e]
  BY <1>1, <1>2
<1>4. \A e \in Callers : CallSound(e, call[e], dims')
  BY <1>1, EmbedsLater, Zenon
<1> QED BY <1>3, <1>4, Zenon

\* A call fails: nothing of it remains.
LEMMA FailCallKeeps ==
    ASSUME EmbedInv, NEW c \in Callers, FailCall(c), dims' \in Nat, dims = 0 \/ dims' = dims,
           UNCHANGED <<config, cacheVars, spoiled>>
    PROVE  EmbedInv'
<1> DEFINE me == [NoCall EXCEPT !.n = call[c].n]
<1>1. call[c].n \in Nat
  BY DEF EmbedInv, Calls
<1>2. CallSound(c, me, dims')
  BY <1>1, NoCallSound
<1>3. call' = [call EXCEPT ![c] = me]
  BY DEF FailCall
<1> HIDE DEF me
<1>4. call' \in [Callers -> Calls] /\ \A e \in Callers : CallSound(e, call'[e], dims')
  BY <1>2, <1>3, OneCallChanges
<1>5. Kept([cache |-> cache', lru |-> lru'], dims')
  BY EmbedsLater, Zenon DEF EmbedInv, cacheVars
<1> QED BY <1>4, <1>5 DEF EmbedInv, cacheVars

\* The first critical section.
LEMMA RequestKeeps ==
    ASSUME EmbedInv, NEW c \in Callers, NEW texts \in Seq(Texts), Request(c, texts)
    PROVE  EmbedInv'
<1> DEFINE found == LookUpAll(texts)
           n == call[c].n + 1
           hit(i) == CopyVector(cache[texts[i]], <<c, n, "hit", i>>)
           results == [i \in DOMAIN texts |-> IF texts[i] \in DOMAIN cache THEN <<hit(i)>> ELSE <<>>]
           pc == IF found.missing = <<>> THEN "done" ELSE "asking"
           me == [n |-> n, pc |-> pc, texts |-> texts, results |-> results,
                  missing |-> found.missing, computed |-> <<>>, attempt |-> 1]
<1>1. /\ Kept([cache |-> cache, lru |-> lru], dims) /\ call[c] \in Calls
      /\ counts.hits \in Nat /\ counts.misses \in Nat /\ counts.hits + counts.misses = asked
      /\ config \in [backend : {"ollama", "openai"}, maxBatch : Nat, dimensions : Nat]
      /\ dims \in Nat /\ \A s \in spoiled : Written(s)
  BY DEF EmbedInv
<1>2. /\ Recency(lru) /\ (\A k : k \in DOMAIN cache <=> Listed(lru, k))
      /\ IsFiniteSet(DOMAIN cache) /\ Cardinality(DOMAIN cache) = Len(lru)
      /\ (MaxSize > 0 => Len(lru) <= MaxSize)
      /\ \A k \in DOMAIN cache : Embeds(cache[k], k, "kept", dims)
  <2> DEFINE state == [cache |-> cache, lru |-> lru]
  <2>1. state.cache = cache /\ state.lru = lru
    OBVIOUS
  <2> HIDE DEF state
  <2> QED BY <1>1, <2>1, Zenon DEF Kept, state
<1>3. Looked(found, texts, Len(texts))
  BY <1>2, LookUpAllGives
<1>4. /\ call' = [call EXCEPT ![c] = me] /\ lru' = found.lru /\ asked' = asked + Len(texts)
      /\ counts' = [hits |-> counts.hits + found.hits, misses |-> counts.misses + Len(found.missing)]
      /\ config' = config /\ cache' = cache /\ dims' = dims /\ spoiled' = spoiled
  BY DEF Request
<1>5. n \in Nat /\ Len(texts) \in Nat /\ DOMAIN texts = 1..Len(texts)
      /\ \A i \in 1..Len(texts) : texts[i] \in Texts
  <2>1. call[c].n \in Nat
    BY <1>1 DEF Calls
  <2>2. n \in Nat
    BY <2>1
  <2>3. Len(texts) \in Nat /\ DOMAIN texts = 1..Len(texts) /\ \A i \in 1..Len(texts) : texts[i] \in Texts
    OBVIOUS
  <2> QED BY <2>2, <2>3, Zenon
<1> HIDE DEF found, n
<1>6. /\ found.lru \in Seq(Texts) /\ found.missing \in Seq(Nat) /\ found.hits \in Nat
      /\ Len(found.missing) \in Nat /\ Recency(found.lru) /\ Len(found.lru) = Len(lru)
      /\ (\A k : Listed(found.lru, k) <=> Listed(lru, k))
      /\ found.hits + Len(found.missing) = Len(texts)
      /\ (\A j \in 1..Len(found.missing) : found.missing[j] \in 1..Len(texts))
      /\ \A i \in 1..Len(texts) : texts[i] \in DOMAIN cache \/ Listed(found.missing, i)
  BY <1>3 DEF Looked
<1>7. ASSUME NEW i \in 1..Len(texts), texts[i] \in DOMAIN cache
      PROVE  Embeds(hit(i), texts[i], "hit", dims) /\ hit(i).cell[1] = c
  <2>1. Embeds(cache[texts[i]], texts[i], "kept", dims)
    BY <1>2, <1>7
  <2> DEFINE cell == <<c, n, "hit", i>>
  <2>2. cell \in Cells /\ cell[3] = "hit" /\ cell[1] = c
    BY <1>5 DEF Cells
  <2> HIDE DEF cell
  <2> QED BY <2>1, <2>2, Copied DEF cell
<1> HIDE DEF hit
<1>8. ASSUME NEW i \in 1..Len(texts)
      PROVE  /\ results[i] \in Seq(Vectors)
             /\ texts[i] \in DOMAIN cache => Own(c, results[i], texts[i], dims)
  <2>1. CASE texts[i] \in DOMAIN cache
    <3>1. Embeds(hit(i), texts[i], "hit", dims) /\ hit(i).cell[1] = c
      BY <2>1, <1>7
    <3>2. results[i] = <<hit(i)>> /\ hit(i) \in Vectors
      BY <2>1, <1>5, <3>1 DEF Embeds
    <3>3. \A v \in Vectors : <<v>> \in Seq(Vectors) /\ <<v>>[1] = v
      OBVIOUS
    <3>4. results[i][1] = hit(i) /\ results[i] \in Seq(Vectors)
      BY <3>2, <3>3, Zenon
    <3> QED BY <3>1, <3>4, Zenon DEF Own
  <2>2. CASE texts[i] \notin DOMAIN cache
    <3>1. results[i] = <<>>
      BY <2>2, <1>5
    <3> QED BY <2>2, <3>1
  <2> QED BY <2>1, <2>2
<1>9. results \in Seq(Seq(Vectors)) /\ Len(results) = Len(texts)
  <2>1. DOMAIN results = 1..Len(texts) /\ results = [i \in 1..Len(texts) |-> results[i]]
    BY <1>5
  <2> HIDE DEF results
  <2>2. results \in [1..Len(texts) -> Seq(Vectors)]
    BY <1>8, <2>1
  <2> QED BY <1>5, <2>2
<1> HIDE DEF results
<1>10. pc \in {"done", "asking"} /\ (pc = "done" => \A i : ~Listed(found.missing, i))
  BY DEF Listed
<1> HIDE DEF pc
<1>11. /\ me \in Calls /\ me.pc = pc /\ me.texts = texts /\ me.results = results
       /\ me.missing = found.missing /\ me.computed = <<>>
  BY <1>5, <1>6, <1>9, <1>10 DEF Calls
<1> HIDE DEF me
<1>12. Len(me.computed) = 0
  BY <1>11
<1>13. CallSound(c, me, dims)
  <2>1. Len(me.computed) <= Len(me.missing) /\ 1..Len(me.computed) = {}
    BY <1>6, <1>11, <1>12
  <2>2. \A i \in 1..Len(me.texts) :
           Own(c, me.results[i], me.texts[i], dims) \/ (me.pc # "done" /\ Listed(me.missing, i))
    BY <1>6, <1>8, <1>10, <1>11, Zenon
  <2> QED BY <1>6, <1>9, <1>11, <2>1, <2>2, Zenon DEF CallSound
<1>14. call' \in [Callers -> Calls] /\ \A e \in Callers : CallSound(e, call'[e], dims')
  BY <1>4, <1>13, OneCallChanges
<1>15. Kept([cache |-> cache', lru |-> lru'], dims')
  <2> DEFINE state == [cache |-> cache, lru |-> found.lru]
  <2>1. state.cache = cache /\ state.lru = found.lru
    OBVIOUS
  <2> HIDE DEF state
  <2>2. Kept(state, dims)
    BY <1>2, <1>6, <2>1, Zenon DEF Kept
  <2> QED BY <1>4, <2>2 DEF state
<1>16. counts' \in [hits : Nat, misses : Nat] /\ counts'.hits + counts'.misses = asked'
  <2>1. /\ counts.hits + found.hits \in Nat /\ counts.misses + Len(found.missing) \in Nat
        /\ (counts.hits + found.hits) + (counts.misses + Len(found.missing)) = asked + Len(texts)
    <3>1. /\ counts.hits \in Nat /\ counts.misses \in Nat /\ counts.hits + counts.misses = asked
          /\ found.hits \in Nat /\ Len(found.missing) \in Nat
          /\ found.hits + Len(found.missing) = Len(texts)
      BY <1>1, <1>6
    <3> QED BY <3>1
  <2> QED BY <1>4, <2>1
<1> QED BY <1>1, <1>4, <1>14, <1>15, <1>16 DEF EmbedInv

\* A chunk is embedded: its vectors follow those computed before.
LEMMA EmbeddedKeeps ==
    ASSUME EmbedInv, NEW c \in Callers, NEW data \in Bodies(Chunk(c)), Embedded(c, data)
    PROVE  EmbedInv'
<1> DEFINE old == call[c]
           chunk == Chunk(c)
           size == Len(chunk)
           vectors == Decode(data, size)
           done == Len(old.computed)
           made == [k \in DOMAIN vectors |->
                       [of |-> vectors[k].of, len |-> vectors[k].len, cell |-> Cell(c, "inner", done + k)]]
           pc == IF Len(chunk) = Len(Remaining(c)) THEN "computed" ELSE "asking"
           computed == old.computed \o made
           me == [old EXCEPT !.computed = computed, !.attempt = 1, !.pc = pc]
<1>1. /\ old \in Calls /\ CallSound(c, old, dims) /\ Kept([cache |-> cache, lru |-> lru], dims)
      /\ dims \in Nat
  BY DEF EmbedInv
<1>2. /\ old.pc = "asking" /\ vectors # <<>> /\ Agree(vectors) /\ dims' = Expected(vectors)
      /\ call' = [call EXCEPT ![c].computed = @ \o made, ![c].attempt = 1, ![c].pc = pc]
      /\ UNCHANGED <<config, cacheVars, spoiled>>
  BY Zenon DEF Embedded
<1>3. call' = [call EXCEPT ![c] = me]
  BY <1>1, <1>2 DEF EmbedInv
<1>4. /\ chunk \in Seq(Texts) /\ size <= Len(old.missing) - done
      /\ \A k \in 1..size : chunk[k] = old.texts[old.missing[done + k]]
  BY NextChunk
<1> HIDE DEF chunk
<1>5. /\ DOMAIN vectors = 1..size /\ size # 0 /\ size \in Nat
      /\ \A k \in 1..size : vectors[k].of = chunk[k] /\ vectors[k].len \in Nat
  <2>1. data \in Bodies(chunk)
    BY DEF chunk
  <2>2. Decode(data, Len(chunk)) # <<>>
    BY <1>2
  <2>3. LET decoded == Decode(data, Len(chunk))
        IN  /\ DOMAIN decoded = 1..Len(chunk)
            /\ \A k \in 1..Len(chunk) : decoded[k].of = chunk[k] /\ decoded[k].len \in Nat
            /\ Len(chunk) # 0
    BY <1>4, <2>1, <2>2, DecodedInPlace
  <2>4. size \in Nat
    BY <1>4
  <2> QED BY <2>3, <2>4
<1> HIDE DEF vectors
<1>6. /\ dims' \in Nat /\ dims' # 0 /\ (dims = 0 \/ dims' = dims)
      /\ \A k \in 1..size : vectors[k].len = dims'
  <2>1. Expected(vectors) > 0 /\ \A k \in 1..size : vectors[k].len = Expected(vectors)
    BY <1>2, <1>5, Zenon DEF Agree
  <2>2. Expected(vectors) \in Nat /\ (dims = 0 \/ Expected(vectors) = dims)
    <3>1. 1 \in 1..size
      BY <1>5
    <3>2. vectors[1].len \in Nat
      BY <1>5, <3>1
    <3> QED BY <1>1, <3>2 DEF Expected
  <2>3. dims' = Expected(vectors)
    BY <1>2
  <2> HIDE DEF size
  <2> QED BY <2>1, <2>2, <2>3
<1>7. /\ old.computed \in Seq(Vectors) /\ done \in Nat /\ old.n \in Nat /\ old.missing \in Seq(Nat)
      /\ Len(old.missing) \in Nat /\ done <= Len(old.missing) /\ old.texts \in Seq(Texts)
  BY <1>1 DEF Calls, CallSound
<1> HIDE DEF old, size, done
<1>8. ASSUME NEW k \in 1..size
      PROVE  Embeds(made[k], old.texts[old.missing[done + k]], "inner", dims')
  <2> DEFINE cell == Cell(c, "inner", done + k)
  <2>1. cell \in Cells /\ cell[3] = "inner"
    BY <1>5, <1>7 DEF Cell, Cells, old
  <2> HIDE DEF cell
  <2>2. made[k] = [of |-> vectors[k].of, len |-> vectors[k].len, cell |-> cell]
    BY <1>5 DEF cell
  <2>3. vectors[k].of = chunk[k] /\ chunk[k] \in Texts /\ vectors[k].len = dims'
    BY <1>4, <1>5, <1>6 DEF size
  <2>4. chunk[k] = old.texts[old.missing[done + k]]
    BY <1>4
  <2> HIDE DEF made
  <2>5. /\ made[k] \in Vectors /\ made[k].of = chunk[k] /\ made[k].len = dims'
        /\ made[k].cell = cell
    BY <2>1, <2>2, <2>3, <1>6 DEF Vectors
  <2> QED BY <2>1, <2>4, <2>5, <1>6, Zenon DEF Embeds
<1>9. made \in Seq(Vectors) /\ Len(made) = size
  <2>1. DOMAIN made = 1..size /\ made = [k \in 1..size |-> made[k]]
    BY <1>5
  <2> HIDE DEF made
  <2>2. \A k \in 1..size : made[k] \in Vectors
    BY <1>8, Zenon DEF Embeds
  <2>3. made \in [1..size -> Vectors]
    BY <2>1, <2>2
  <2> QED BY <1>5, <2>3
<1> HIDE DEF made
<1>10. /\ computed \in Seq(Vectors) /\ Len(computed) = done + size
       /\ \A i \in 1..(done + size) : computed[i] = IF i <= done THEN old.computed[i] ELSE made[i - done]
  BY <1>7, <1>9, ConcatProperties DEF done
<1> HIDE DEF computed
<1>11. \A i \in 1..done : Embeds(old.computed[i], old.texts[old.missing[i]], "inner", dims')
  <2>1. \A i \in 1..done : Embeds(old.computed[i], old.texts[old.missing[i]], "inner", dims)
    BY <1>1 DEF CallSound, done
  <2>2. dims = 0 \/ dims' = dims
    BY <1>6
  <2>3. \A v, text, stage : Embeds(v, text, stage, dims) => Embeds(v, text, stage, dims')
    BY <2>2, EmbedsLater, Zenon
  <2> QED BY <2>1, <2>3, Zenon
<1>12. ASSUME NEW i \in 1..(done + size)
       PROVE  Embeds(computed[i], old.texts[old.missing[i]], "inner", dims')
  <2>1. CASE i <= done
    <3>1. i \in 1..done /\ computed[i] = old.computed[i]
      BY <2>1, <1>7, <1>10
    <3> QED BY <3>1, <1>11, Zenon
  <2>2. CASE ~(i <= done)
    <3>1. i - done \in 1..size /\ done + (i - done) = i /\ computed[i] = made[i - done]
      BY <2>2, <1>5, <1>7, <1>10
    <3>2. Embeds(made[i - done], old.texts[old.missing[done + (i - done)]], "inner", dims')
      BY <3>1, <1>8, Zenon
    <3> QED BY <3>1, <3>2, Zenon
  <2> QED BY <2>1, <2>2
<1>13. pc \in {"computed", "asking"}
  OBVIOUS
<1> HIDE DEF pc
<1>14. /\ me \in Calls /\ me.pc = pc /\ me.texts = old.texts /\ me.results = old.results
       /\ me.missing = old.missing /\ me.computed = computed
  BY <1>1, <1>10, <1>13 DEF Calls
<1> HIDE DEF me
<1>15. CallSound(c, me, dims')
  <2>1. CallSound(c, old, dims')
    BY <1>1, <1>6, EmbedsLater, Zenon
  <2>2. Len(me.computed) <= Len(me.missing)
    BY <1>4, <1>5, <1>7, <1>10, <1>14
  <2>3. me.pc # "done" /\ old.pc # "done"
    BY <1>2, <1>13, <1>14
  <2>4. \A j \in 1..Len(me.computed) : Embeds(me.computed[j], me.texts[me.missing[j]], "inner", dims')
    BY <1>10, <1>12, <1>14, Zenon
  <2> QED BY <2>1, <2>2, <2>3, <2>4, <1>14, Zenon DEF CallSound
<1>16. call' \in [Callers -> Calls] /\ \A e \in Callers : CallSound(e, call'[e], dims')
  BY <1>3, <1>6, <1>15, OneCallChanges
<1>17. Kept([cache |-> cache', lru |-> lru'], dims')
  BY <1>1, <1>2, <1>6, EmbedsLater, Zenon DEF cacheVars
<1> QED BY <1>2, <1>6, <1>16, <1>17 DEF EmbedInv, cacheVars

\* The body is of no use, or the request fails.
LEMMA FailureKeeps ==
    ASSUME EmbedInv, NEW c \in Callers,
           \/ \E data \in Bodies(Chunk(c)) : Unusable(c, data)
           \/ \E retryable \in BOOLEAN : Refused(c, retryable)
    PROVE  EmbedInv'
<1>0. dims \in Nat
  BY DEF EmbedInv
<1>1. ASSUME NEW data \in Bodies(Chunk(c)), Unusable(c, data) PROVE EmbedInv'
  <2> DEFINE vectors == Decode(data, Len(Chunk(c)))
  <2>1. FailCall(c) /\ UNCHANGED <<config, cacheVars, spoiled>>
        /\ (dims' = dims \/ (vectors # <<>> /\ dims' = Expected(vectors)))
    BY <1>1, Zenon DEF Unusable
  <2>2. ASSUME vectors # <<>> PROVE Expected(vectors) \in Nat /\ (dims = 0 \/ Expected(vectors) = dims)
    <3>1. Chunk(c) \in Seq(Texts)
      BY NextChunk
    <3>2. /\ Len(Chunk(c)) # 0 /\ Len(Chunk(c)) \in Nat
          /\ \A k \in 1..Len(Chunk(c)) : vectors[k].len \in Nat
      BY <2>2, <3>1, DecodedInPlace
    <3>3. 1 \in 1..Len(Chunk(c))
      BY <3>2
    <3>4. vectors[1].len \in Nat
      BY <3>2, <3>3
    <3> QED BY <1>0, <3>4 DEF Expected
  <2>3. dims' \in Nat /\ (dims = 0 \/ dims' = dims)
    BY <1>0, <2>1, <2>2
  <2> QED BY <2>1, <2>3, FailCallKeeps
<1>2. ASSUME NEW retryable \in BOOLEAN, Refused(c, retryable) PROVE EmbedInv'
  <2>1. /\ UNCHANGED <<config, cacheVars, dims, spoiled>>
        /\ (FailCall(c) \/ call' = [call EXCEPT ![c].attempt = @ + 1])
    BY <1>2 DEF Refused
  <2>2. CASE FailCall(c)
    BY <1>0, <2>1, <2>2, FailCallKeeps
  <2>3. CASE call' = [call EXCEPT ![c].attempt = @ + 1]
    <3> DEFINE old == call[c]
               me == [old EXCEPT !.attempt = @ + 1]
    <3>1. old \in Calls /\ CallSound(c, old, dims)
      BY DEF EmbedInv
    <3>2. call' = [call EXCEPT ![c] = me]
      BY <2>3 DEF EmbedInv
    <3> HIDE DEF old
    <3>3. /\ me \in Calls /\ me.pc = old.pc /\ me.texts = old.texts /\ me.results = old.results
          /\ me.missing = old.missing /\ me.computed = old.computed
      BY <3>1 DEF Calls
    <3> HIDE DEF me
    <3>4. CallSound(c, me, dims')
      BY <2>1, <3>1, <3>3, Zenon DEF CallSound
    <3>5. call' \in [Callers -> Calls] /\ \A e \in Callers : CallSound(e, call'[e], dims')
      BY <2>1, <3>2, <3>4, OneCallChanges
    <3> QED BY <2>1, <3>5 DEF EmbedInv, cacheVars
  <2> QED BY <2>1, <2>2, <2>3
<1> QED BY <1>1, <1>2

\* The second critical section.
LEMMA SettleKeeps ==
    ASSUME EmbedInv, NEW c \in Callers, Settle(c)
    PROVE  EmbedInv'
<1> DEFINE old == call[c]
           results == [i \in DOMAIN old.texts |-> Given(c, i)]
           me == [old EXCEPT !.pc = "done", !.results = results]
<1>1. /\ old \in Calls /\ CallSound(c, old, dims) /\ dims \in Nat
      /\ old.pc = "computed" /\ UNCHANGED <<config, counts, asked, dims, spoiled>>
  BY DEF EmbedInv, Settle
<1>2. CASE Len(old.computed) # Len(old.missing)
  <2>1. FailCall(c) /\ UNCHANGED <<config, cacheVars, spoiled>>
    BY <1>1, <1>2 DEF Settle, cacheVars
  <2> QED BY <1>1, <2>1, FailCallKeeps
<1>3. CASE Len(old.computed) = Len(old.missing)
  <2>1. /\ cache' = StoreAll(c).cache /\ lru' = StoreAll(c).lru
        /\ call' = [call EXCEPT ![c].pc = "done", ![c].results = results]
    BY <1>3, Zenon DEF Settle
  <2>2. call' = [call EXCEPT ![c] = me]
    BY <2>1 DEF EmbedInv
  <2>3. Kept([cache |-> cache', lru |-> lru'], dims')
    <3> DEFINE state == [cache |-> cache', lru |-> lru']
    <3>1. Kept(StoreAll(c), dims)
      BY <1>3, StoreAllKeeps
    <3>2. state.cache = StoreAll(c).cache /\ state.lru = StoreAll(c).lru
      BY <2>1
    <3> HIDE DEF state
    <3>3. Kept(state, dims)
      BY <3>1, <3>2, Zenon DEF Kept
    <3> QED BY <1>1, <3>3 DEF state
  <2>4. /\ old.texts \in Seq(Texts) /\ old.missing \in Seq(Nat) /\ old.n \in Nat
        /\ old.results \in Seq(Seq(Vectors)) /\ Len(old.results) = Len(old.texts)
        /\ Len(old.texts) \in Nat /\ DOMAIN old.texts = 1..Len(old.texts)
        /\ DOMAIN old.missing = 1..Len(old.missing)
    BY <1>1 DEF Calls, CallSound
  <2>5. ASSUME NEW i \in 1..Len(old.texts)
        PROVE  Given(c, i) \in Seq(Vectors) /\ Own(c, Given(c, i), old.texts[i], dims)
    <3>1. CASE Listed(old.missing, i)
      <4> DEFINE place == CHOOSE j \in DOMAIN old.missing : old.missing[j] = i
                 v == CopyVector(old.computed[place], Cell(c, "given", i))
      <4>1. \E j \in DOMAIN old.missing : old.missing[j] = i
        BY <3>1, <2>4 DEF Listed
      <4>2. place \in 1..Len(old.missing) /\ old.missing[place] = i
        BY <4>1, <2>4, Zenon
      <4>3. Given(c, i) = <<v>>
        BY <4>1, Zenon DEF Given
      <4> HIDE DEF place
      <4>4. Embeds(old.computed[place], old.texts[i], "inner", dims)
        BY <4>2, <1>1, <1>3 DEF CallSound
      <4>5. /\ Cell(c, "given", i) \in Cells /\ Cell(c, "given", i)[3] = "given"
            /\ Cell(c, "given", i)[1] = c
        BY <2>4 DEF Cell, Cells
      <4>6. Embeds(v, old.texts[i], "given", dims) /\ v.cell[1] = c
        BY <4>4, <4>5, Copied
      <4> HIDE DEF v
      <4>7. v \in Vectors
        BY <4>6 DEF Embeds
      <4>8. \A u \in Vectors : <<u>> \in Seq(Vectors) /\ <<u>>[1] = u
        OBVIOUS
      <4>9. Given(c, i) \in Seq(Vectors) /\ Given(c, i)[1] = v
        BY <4>3, <4>7, <4>8, Zenon
      <4> QED BY <4>6, <4>9, Zenon DEF Own
    <3>2. CASE ~Listed(old.missing, i)
      <4>1. Given(c, i) = old.results[i]
        BY <3>2, <2>4, Zenon DEF Given, Listed
      <4>2. Own(c, old.results[i], old.texts[i], dims)
        BY <3>2, <1>1, Zenon DEF CallSound
      <4>3. old.results[i] \in Seq(Vectors)
        BY <2>4
      <4> QED BY <4>1, <4>2, <4>3, Zenon
    <3> QED BY <3>1, <3>2
  <2>6. /\ results \in Seq(Seq(Vectors)) /\ Len(results) = Len(old.texts)
        /\ \A i \in 1..Len(old.texts) : results[i] = Given(c, i)
    <3>1. /\ results = [i \in 1..Len(old.texts) |-> results[i]]
          /\ \A i \in 1..Len(old.texts) : results[i] = Given(c, i)
      BY <2>4
    <3> HIDE DEF results
    <3>2. results \in [1..Len(old.texts) -> Seq(Vectors)]
      BY <2>5, <3>1
    <3>3. Len(old.texts) \in Nat
      BY <2>4
    <3>4. results \in Seq(Seq(Vectors)) /\ Len(results) = Len(old.texts)
      BY <3>2, <3>3
    <3> QED BY <3>1, <3>4
  <2> HIDE DEF results, old
  <2>7. /\ me \in Calls /\ me.pc = "done" /\ me.texts = old.texts /\ me.results = results
        /\ me.missing = old.missing /\ me.computed = old.computed
    BY <1>1, <2>6 DEF Calls
  <2> HIDE DEF me
  <2>8. \A i \in 1..Len(me.texts) : Own(c, me.results[i], me.texts[i], dims)
    BY <2>5, <2>6, <2>7, Zenon
  <2>9. CallSound(c, me, dims)
    BY <1>1, <2>6, <2>7, <2>8, Zenon DEF CallSound
  <2>10. call' \in [Callers -> Calls] /\ \A e \in Callers : CallSound(e, call'[e], dims')
    BY <1>1, <2>2, <2>9, OneCallChanges
  <2> QED BY <1>1, <2>3, <2>10 DEF EmbedInv
<1> QED BY <1>2, <1>3

\* Whoever holds a vector may write into it, and into nothing else.
LEMMA ScribbleKeeps ==
    ASSUME EmbedInv, NEW c \in Callers, call[c].pc = "done",
           \/ \E i \in DOMAIN call[c].results : Scribble(call[c].results[i][1], c)
           \/ \E i \in DOMAIN call[c].computed : Scribble(call[c].computed[i], "embedder")
    PROVE  EmbedInv'
<1> DEFINE me == call[c]
<1>1. me \in Calls /\ CallSound(c, me, dims)
  BY DEF EmbedInv
<1>2. ASSUME NEW v, NEW who, Scribble(v, who), Written(<<v.cell, who>>) PROVE EmbedInv'
  <2>1. spoiled' = spoiled \cup {<<v.cell, who>>} /\ UNCHANGED <<config, cacheVars, dims, call>>
    BY <1>2 DEF Scribble
  <2>2. \A s \in spoiled' : Written(s)
    BY <1>2, <2>1, Zenon DEF EmbedInv
  <2> QED BY <2>1, <2>2 DEF EmbedInv, cacheVars
<1>3. ASSUME NEW i \in DOMAIN me.results, Scribble(me.results[i][1], c) PROVE EmbedInv'
  <2> DEFINE v == me.results[i][1]
  <2>1. i \in 1..Len(me.texts)
    <3>1. me.results \in Seq(Seq(Vectors)) /\ Len(me.results) = Len(me.texts)
      BY <1>1 DEF Calls, CallSound
    <3>2. DOMAIN me.results = 1..Len(me.results)
      BY <3>1, LenProperties
    <3> QED BY <3>1, <3>2
  <2>2. Own(c, me.results[i], me.texts[i], dims)
    BY <2>1, <1>1, Zenon DEF CallSound
  <2>3. v.cell[1] = c /\ v.cell[3] \in {"hit", "given"}
    BY <2>2 DEF Own, Embeds
  <2> HIDE DEF v
  <2>4. Written(<<v.cell, c>>)
    BY <2>3 DEF Written
  <2> QED BY <1>2, <1>3, <2>4 DEF v
<1>4. ASSUME NEW i \in DOMAIN me.computed, Scribble(me.computed[i], "embedder") PROVE EmbedInv'
  <2> DEFINE v == me.computed[i]
  <2>1. i \in 1..Len(me.computed)
    BY <1>1 DEF Calls
  <2>2. Embeds(v, me.texts[me.missing[i]], "inner", dims)
    BY <2>1, <1>1, Zenon DEF CallSound
  <2>3. v.cell[3] = "inner"
    BY <2>2 DEF Embeds
  <2> HIDE DEF v
  <2>4. Written(<<v.cell, "embedder">>)
    BY <2>3 DEF Written
  <2> QED BY <1>2, <1>4, <2>4 DEF v
<1> QED BY <1>3, <1>4

\* The invariant holds at first.
LEMMA EmbedStarts ==
    ASSUME EmbedInit
    PROVE  EmbedInv
<1>1. config \in [backend : {"ollama", "openai"}, maxBatch : Nat, dimensions : Nat] /\ dims \in Nat
  BY EmbedAssumption DEF EmbedInit
<1>2. Kept([cache |-> cache, lru |-> lru], dims)
  BY NothingKept DEF EmbedInit
<1>3. \A c \in Callers : call[c] = NoCall
  BY DEF EmbedInit
<1>4. \A c \in Callers : CallSound(c, call[c], dims)
  BY <1>3, NoCallSound
<1>5. call \in [Callers -> Calls]
  <2>1. \A c \in Callers : call[c] \in Calls
    BY <1>4, Zenon DEF CallSound
  <2>2. call = [c \in Callers |-> call[c]]
    BY DEF EmbedInit
  <2> QED BY <2>1, <2>2
<1>6. counts \in [hits : Nat, misses : Nat] /\ counts.hits + counts.misses = asked /\ spoiled = {}
  BY DEF EmbedInit
<1> QED BY <1>1, <1>2, <1>4, <1>5, <1>6, Zenon DEF EmbedInv

\* Every step keeps it.
LEMMA EmbedSteps ==
    ASSUME EmbedInv, [EmbedNext]_embedVars
    PROVE  EmbedInv'
<1>1. ASSUME NEW c \in Callers,
             NEW texts \in {<<t>> : t \in Texts} \cup {<<t, u>> : t, u \in Texts}, Request(c, texts)
      PROVE  EmbedInv'
  <2>1. \A t \in Texts : <<t>> \in Seq(Texts)
    OBVIOUS
  <2>2. \A t, u \in Texts : <<t, u>> \in Seq(Texts)
    OBVIOUS
  <2>3. texts \in Seq(Texts)
    <3>1. (\E t \in Texts : texts = <<t>>) \/ (\E t, u \in Texts : texts = <<t, u>>)
      BY <1>1
    <3>2. CASE \E t \in Texts : texts = <<t>>
      BY <2>1, <3>2
    <3>3. CASE \E t, u \in Texts : texts = <<t, u>>
      BY <2>2, <3>3
    <3> QED BY <3>1, <3>2, <3>3
  <2> QED BY <1>1, <2>3, RequestKeeps
<1>2. ASSUME NEW c \in Callers, NEW data \in Bodies(Chunk(c)), Embedded(c, data) \/ Unusable(c, data)
      PROVE  EmbedInv'
  BY <1>2, EmbeddedKeeps, FailureKeeps
<1>3. ASSUME NEW c \in Callers, NEW retryable \in BOOLEAN, Refused(c, retryable) PROVE EmbedInv'
  BY <1>3, FailureKeeps
<1>4. ASSUME NEW c \in Callers, Settle(c) PROVE EmbedInv'
  BY <1>4, SettleKeeps
<1>5. ASSUME NEW c \in Callers, call[c].pc = "done",
             \/ \E i \in DOMAIN call[c].results : Scribble(call[c].results[i][1], c)
             \/ \E i \in DOMAIN call[c].computed : Scribble(call[c].computed[i], "embedder")
      PROVE  EmbedInv'
  BY <1>5, ScribbleKeeps
<1>6. CASE Clear
  <2>1. cache' = <<>> /\ lru' = <<>> /\ UNCHANGED <<config, counts, asked, dims, call, spoiled>>
    BY <1>6 DEF Clear
  <2>2. Kept([cache |-> cache', lru |-> lru'], dims')
    BY <2>1, NothingKept
  <2> QED BY <2>1, <2>2 DEF EmbedInv
<1>7. CASE UNCHANGED embedVars
  BY <1>7 DEF EmbedInv, embedVars, cacheVars
<1> QED BY <1>1, <1>2, <1>3, <1>4, <1>5, <1>6, <1>7 DEF EmbedNext

\* The invariant holds always.
THEOREM EmbedInvariant == EmbedSpec => []EmbedInv
<1>1. EmbedInit => EmbedInv
  BY EmbedStarts
<1>2. EmbedInv /\ [EmbedNext]_embedVars => EmbedInv'
  BY EmbedSteps
<1> QED BY <1>1, <1>2, PTL DEF EmbedSpec

(***************************************************************************)
(* However the calls of the cache's users interleave, in whatever order    *)
(* the server answers and whoever writes into a vector: the i-th vector of *)
(* a call embeds its i-th text, in the one length, and is the caller's.    *)
(***************************************************************************)
THEOREM VectorsAligned == EmbedSpec => []AlignedVectors
<1>1. EmbedInv => AlignedVectors
  <2> SUFFICES ASSUME EmbedInv, NEW c \in Callers, call[c].pc = "done",
                      NEW i \in DOMAIN call[c].texts
               PROVE  LET v == call[c].results[i][1]
                      IN  /\ v.of = call[c].texts[i]
                          /\ v.len = dims
                          /\ \A s \in spoiled : s[1] = v.cell => s[2] = c
    BY Zenon DEF AlignedVectors
  <2>1. call[c] \in Calls /\ CallSound(c, call[c], dims) /\ \A s \in spoiled : Written(s)
    BY DEF EmbedInv
  <2>2. i \in 1..Len(call[c].texts)
    BY <2>1 DEF Calls
  <2>3. Own(c, call[c].results[i], call[c].texts[i], dims)
    BY <2>1, <2>2, Zenon DEF CallSound
  <2> DEFINE v == call[c].results[i][1]
  <2>4. v.of = call[c].texts[i] /\ v.len = dims /\ v.cell[1] = c /\ v.cell[3] # "inner"
    BY <2>3 DEF Own, Embeds
  <2> HIDE DEF v
  <2>5. \A s \in spoiled : s[1] = v.cell => s[2] = c
    BY <2>1, <2>4 DEF Written
  <2> QED BY <2>4, <2>5 DEF v
<1> QED BY <1>1, EmbedInvariant, PTL

(***************************************************************************)
(* The map and the recency list stay together and within the bound, every  *)
(* entry embeds its key and is nobody's to write to, and the counters add  *)
(* up to the texts requested.                                              *)
(***************************************************************************)
THEOREM CacheStaysSound == EmbedSpec => []CacheSound
<1>1. EmbedInv => CacheSound
  <2> SUFFICES ASSUME EmbedInv PROVE CacheSound
    OBVIOUS
  <2> DEFINE state == [cache |-> cache, lru |-> lru]
  <2>1. state.cache = cache /\ state.lru = lru
    OBVIOUS
  <2>2. Kept(state, dims)
    BY DEF EmbedInv
  <2> HIDE DEF state
  <2>3. /\ Recency(lru) /\ (\A k : k \in DOMAIN cache <=> Listed(lru, k))
        /\ Cardinality(DOMAIN cache) = Len(lru) /\ (MaxSize > 0 => Len(lru) <= MaxSize)
        /\ \A k \in DOMAIN cache : Embeds(cache[k], k, "kept", dims)
    BY <2>1, <2>2, Zenon DEF Kept
  <2>4. ToSet(lru) = DOMAIN cache
    <3>1. DOMAIN lru = 1..Len(lru)
      BY <2>3 DEF Recency
    <3> QED BY <2>3, <3>1 DEF ToSet, Listed
  <2>5. ASSUME NEW key \in DOMAIN cache
        PROVE  cache[key].of = key /\ \A s \in spoiled : s[1] # cache[key].cell
    <3>1. cache[key].of = key /\ cache[key].cell[3] = "kept"
      BY <2>3 DEF Embeds
    <3>2. \A s \in spoiled : Written(s)
      BY DEF EmbedInv
    <3>3. \A s \in spoiled : s[1][3] # "kept"
      BY <3>2 DEF Written
    <3> QED BY <3>1, <3>3, Zenon
  <2>6. counts.hits + counts.misses = asked
    BY DEF EmbedInv
  <2> QED BY <2>3, <2>4, <2>5, <2>6 DEF CacheSound
<1> QED BY <1>1, EmbedInvariant, PTL
=============================================================================
