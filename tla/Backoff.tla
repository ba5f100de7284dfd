------------------------------- MODULE Backoff -------------------------------
(***************************************************************************)
(* internal/services/backoff.go: the delays between the attempts of        *)
(* something that is retried, with the width of its integers.  A Backoff   *)
(* is used by one goroutine: the variables are the one in use.             *)
(***************************************************************************)
EXTENDS Integers

CONSTANTS Half,          \* Durations are in -Half .. Half - 1 (2^63 in the code)
          ScaleDefault, MaxDefault

ASSUME BackoffAssumption ==
  /\ Half \in Nat
  /\ ScaleDefault \in 1 .. Half - 1 /\ MaxDefault \in 1 .. Half - 1

VARIABLES
  maxAttempts, scale, max, attempt, \* the struct
  shifted,       \* scale * 2^attempt as an unbounded integer
  delay,         \* what Delay() returned last: a delay, or None
  delayError     \* and its error: "none", "exceeded", "overflow"

backoffVars == <<maxAttempts, scale, max, attempt, shifted, delay, delayError>>

-----------------------------------------------------------------------------
None == 0 - Half - 1

\* The value of x in two's complement.
Wrap(x) == ((x + Half) % (2 * Half)) - Half

\* Plausible slips in the code below, for the mutation runs.
NeverOverflows(d) == FALSE
ScaleAsGiven(s) == s
ExceededAfterOneMore == attempt = maxAttempts + 1
StartOverAtMax ==
  /\ attempt' = IF shifted > max THEN 0 ELSE attempt + 1
  /\ shifted' = IF shifted > max THEN scale ELSE 2 * shifted
-----------------------------------------------------------------------------
ActualScale(s) == IF s <= 0 THEN ScaleDefault ELSE s
ActualMax(m) == IF m <= 0 THEN MaxDefault ELSE m

BackoffInit(attempts, s, m) ==
  /\ maxAttempts = attempts /\ attempt = 0
  /\ scale = ActualScale(s) /\ max = ActualMax(m)
  /\ shifted = ActualScale(s)
  /\ delay = None /\ delayError = "none"

NewBackoff(attempts, s, m) ==
  /\ maxAttempts' = attempts /\ attempt' = 0
  /\ scale' = ActualScale(s) /\ max' = ActualMax(m)
  /\ shifted' = ActualScale(s)
  /\ delay' = None /\ delayError' = "none"

\* b.scale * 1 << b.attempt: the bits that leave the word are lost.
Shift == Wrap(shifted)

AttemptsExceeded == attempt = maxAttempts
Overflows(d) == d < 0

NextAttempt == attempt' = attempt + 1 /\ shifted' = 2 * shifted

DelayFails(error) ==
  /\ delay' = None /\ delayError' = error
  /\ UNCHANGED <<attempt, shifted>>

Granted ==
  /\ delay' = IF Shift > max THEN max ELSE Shift
  /\ delayError' = "none"
  /\ NextAttempt

\* Delay(): an error leaves the attempt where it is, so that the next call finds
\* the same error.
Delay ==
  /\ UNCHANGED <<maxAttempts, scale, max>>
  /\ CASE AttemptsExceeded -> DelayFails("exceeded")
       [] ~AttemptsExceeded /\ Overflows(Shift) -> DelayFails("overflow")
       [] ~AttemptsExceeded /\ ~Overflows(Shift) -> Granted
-----------------------------------------------------------------------------
Durations == -Half .. Half - 1

\* Any use of Backoffs, one after the other.
BackoffNext == Delay \/ \E attempts \in Int, s, m \in Durations : NewBackoff(attempts, s, m)

BackoffBegins == \E attempts \in Int, s, m \in Durations : BackoffInit(attempts, s, m)

BackoffSpec == BackoffBegins /\ [][BackoffNext]_backoffVars

BackoffTypeOK ==
  /\ maxAttempts \in Int /\ attempt \in Nat
  /\ scale \in 1 .. Half - 1 /\ max \in 1 .. Half - 1
  /\ shifted \in Nat \ {0}
  /\ delay \in Int /\ delayError \in {"none", "exceeded", "overflow"}

\* A delay that is granted is scale * 2^attempt, capped at max, for any scale,
\* any maximum and any number of attempts: a shift that wraps round is always
\* an error first, and never a short delay (or none) later.
DelayIsExact ==
  delay # None =>
    /\ attempt > 0
    /\ \/ 2 * delay = shifted /\ delay <= max
       \/ delay = max /\ 2 * max < shifted

\* No more delays are granted than were asked for, if a number was (one below 0
\* asks for any number).  Whatever was asked for, scale * 2^attempt is in
\* the word or the next bit: 2^attempt < 2 * Half, so that there are at most 63 delays
\* with the Half of the code, and something that never succeeds is given up.
RetriesAreBounded ==
  /\ maxAttempts >= 0 => attempt <= maxAttempts
  /\ attempt < shifted /\ shifted < 2 * Half

\* The delays are those asked for, in length and in number.
BackoffIsSound == DelayIsExact /\ RetriesAreBounded
=============================================================================
