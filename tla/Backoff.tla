------------------------------ MODULE Backoff ------------------------------
(***************************************************************************)
(* The waits between the attempts of one retried call: backoffDelay        *)
(* (retry/retry.go) in integers of Width bits, against the exact           *)
(* arithmetic it approximates.  The code's width is 64; every edge it      *)
(* handles (the doubling that wraps, a product beyond the largest integer) *)
(* exists at any width.                                                    *)
(***************************************************************************)
EXTENDS Integers, Sequences, FiniteSetsExt

CONSTANTS
    Width,        \* bits of a time.Duration
    MaxAttempts,  \* retry.Config.MaxAttempts
    Parts,        \* bound: resolution of the jitter's fractions
    Jitters,      \* the values of Config.Jitter, in parts, clamped by Do
    RetryAfters   \* the Retry-After values a failure may carry

ASSUME BackoffAssumption ==
    Width \in Nat /\ Width >= 3 /\ MaxAttempts \in Nat \ {0} /\ Parts \in Nat \ {0}

\* The powers of two.
Pow2[n \in Nat] == IF n = 0 THEN 1 ELSE 2 * Pow2[n - 1]

MaxInt == Pow2[Width - 1] - 1
Durations == -(MaxInt + 1)..MaxInt

ASSUME InputAssumption == Jitters \subseteq 0..Parts /\ RetryAfters \subseteq Durations

\* Two's complement.
Wrap(n) == ((n + MaxInt + 1) % Pow2[Width]) - MaxInt - 1

VARIABLES
    baseDelay, maxDelay,  \* Config.BaseDelay and Config.MaxDelay
    jitter,               \* Config.Jitter
    attempt,              \* attempts made
    after,                \* the last failure's Retry-After: <<d>>, or <<>> without one
    delay                 \* the wait that backoffDelay chose

backoffVars == <<baseDelay, maxDelay, jitter, attempt, after, delay>>

----------------------------------------------------------------------------
Capped(d) == IF maxDelay > 0 /\ d > maxDelay THEN maxDelay ELSE d

\* One turn of the doubling loop: the delay, and whether the loop is left.
Double(d) ==
    LET twice == Wrap(2 * d)
    IN  IF twice < 0 THEN <<Pow2[Width - 2], TRUE>>
        ELSE IF maxDelay > 0 /\ twice >= maxDelay THEN <<maxDelay, TRUE>>
        ELSE <<twice, FALSE>>

\* The loop after n turns, and the delay it leaves.
Loop[n \in 0..MaxAttempts] ==
    IF n = 0 THEN <<baseDelay, FALSE>>
    ELSE IF Loop[n - 1][2] THEN Loop[n - 1]
    ELSE Double(Loop[n - 1][1])

Doubled(n) == Capped(Loop[n][1])

\* Mutation: the product is converted as it is.
JitteredWrapped(d, factor) == Capped(Wrap((d * factor) \div Parts))

\* The product with the jitter's factor saturates, and is capped again.
Jittered(d, factor) ==
    LET scaled == (d * factor) \div Parts
    IN  Capped(IF scaled >= MaxInt THEN MaxInt ELSE scaled)

\* The factors 1 + jitter * (2 * rand - 1) can take, in parts.
Factors == (Parts - jitter)..(Parts + jitter)

\* backoffDelay before attempt n + 1: a Retry-After replaces the computation.
BackoffDelay(n, header) ==
    IF header # <<>>
    THEN {Capped(Max({header[1], 0}))}
    ELSE IF baseDelay <= 0 THEN {0}
    ELSE {Jittered(Doubled(n - 1), factor) : factor \in Factors}

BackoffInit ==
    /\ baseDelay \in Durations /\ maxDelay \in Durations
    /\ jitter \in Jitters
    /\ attempt = 1
    /\ after = <<>>
    /\ delay = 0

\* An attempt fails with or without a Retry-After, and Do waits.
Retry(header) ==
    /\ attempt < MaxAttempts
    /\ attempt' = attempt + 1
    /\ after' = header
    /\ delay' \in BackoffDelay(attempt, header)
    /\ UNCHANGED <<baseDelay, maxDelay, jitter>>

\* A failure comes with a Retry-After or without.
Headers == {<<>>} \cup {<<d>> : d \in RetryAfters}

BackoffNext == \E header \in Headers : Retry(header)

BackoffSpec == BackoffInit /\ [][BackoffNext]_backoffVars

----------------------------------------------------------------------------
\* Properties.

(***************************************************************************)
(* A wait is a nonnegative duration of the machine's width and never       *)
(* longer than a positive MaxDelay: not behind a wrapped doubling, a       *)
(* jittered product beyond the largest integer, or an absurd header.       *)
(* Without jitter and header it is the exact exponential                   *)
(* BaseDelay * 2^(attempt - 1), cut at MaxDelay, whenever a duration can   *)
(* hold it; otherwise it is at least a quarter of the range or MaxDelay,   *)
(* so that a long series of failures never returns to a short wait.        *)
(***************************************************************************)
ExactOrHuge ==
    /\ delay \in 0..MaxInt /\ (maxDelay > 0 => delay <= maxDelay)
    /\ attempt > 1 /\ after = <<>> /\ jitter = 0 /\ baseDelay > 0 =>
        LET exact == baseDelay * Pow2[attempt - 2]
        IN  IF exact <= MaxInt
            THEN delay = Capped(exact)
            ELSE delay >= Capped(Pow2[Width - 2])
============================================================================
