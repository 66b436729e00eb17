------------------------------- MODULE Retry -------------------------------
(***************************************************************************)
(* ExponentialBackoffRetry.execute (angzarr_client/retry.py): the          *)
(* operation, the announcement of a retry and the wait before it, in the   *)
(* order the loop takes them, with everything in it that may raise.        *)
(*                                                                         *)
(* math.pow raises OverflowError from 2^1024 on: Exponents is how many     *)
(* attempts it is good for, small in an instance as max_attempts is.       *)
(***************************************************************************)
EXTENDS Integers, Sequences

CONSTANTS
  Error,         \* what the operation may raise, Exceptions all
  Attempts,      \* the values of max_attempts
  MinDelay,      \* min_delay, in some unit of time
  MaxDelay,      \* max_delay
  Exponents,     \* 1024: math.pow(2, n) is finite for n below it
  None

ASSUME LimitAssumption ==
  /\ Attempts \subseteq Nat /\ Exponents \in Nat
  /\ MinDelay \in Nat /\ MaxDelay \in Nat

\* What execute may raise of its own, or of on_retry's.
Own == {"TypeError", "OverflowError", "callback_error"}

ASSUME ErrorAssumption == Error \cap Own = {} /\ None \notin Error

VARIABLES
  max_attempts, jitter, on_retry,     \* the policy
  at,          \* where execute is
  attempt,     \* the loop's variable
  errors,      \* what the operation raised, in order
  announced,   \* the attempts on_retry was called with
  waits,       \* twice the delays slept: with jitter they come in halves
  outcome

policy == <<max_attempts, jitter, on_retry>>
vars == <<policy, at, attempt, errors, announced, waits, outcome>>

Init ==
  /\ max_attempts \in Attempts /\ jitter \in BOOLEAN /\ on_retry \in BOOLEAN
  /\ at = "call" /\ attempt = 0 /\ errors = <<>>
  /\ announced = <<>> /\ waits = <<>> /\ outcome = [how |-> "none", error |-> None]

\* execute ends: with the operation's result, or raising an error.
End(how, error) == at' = "end" /\ outcome' = [how |-> how, error |-> error]

\* With no attempt to make, what is raised at the end is None itself, which
\* is a TypeError.
Begin ==
  /\ at = "call"
  /\ IF max_attempts = 0 THEN End("raised", "TypeError")
                         ELSE at' = "try" /\ UNCHANGED outcome
  /\ UNCHANGED <<policy, attempt, errors, announced, waits>>

Succeeds ==
  /\ at = "try"
  /\ End("returned", None)
  /\ UNCHANGED <<policy, attempt, errors, announced, waits>>

\* KeyboardInterrupt and SystemExit are no Exceptions: nothing retries them.
Interrupted ==
  /\ at \in {"try", "announce", "wait"}
  /\ End("interrupted", None)
  /\ UNCHANGED <<policy, attempt, errors, announced, waits>>

\* Mutant: the last attempt is taken for one before it.
FailsOneTooMany ==
  /\ at = "try"
  /\ \E e \in Error :
       /\ errors' = Append(errors, e)
       /\ IF attempt < max_attempts
            THEN at' = (IF on_retry THEN "announce" ELSE "wait")
                 /\ UNCHANGED outcome
            ELSE End("raised", e)
  /\ UNCHANGED <<policy, attempt, announced, waits>>

\* Mutant: what is raised at the end is the first error.
FailsWithFirst ==
  /\ at = "try"
  /\ \E e \in Error :
       /\ errors' = Append(errors, e)
       /\ IF attempt < max_attempts - 1
            THEN at' = (IF on_retry THEN "announce" ELSE "wait")
                 /\ UNCHANGED outcome
            ELSE End("raised", errors'[1])
  /\ UNCHANGED <<policy, attempt, announced, waits>>

\* The operation raises: it is tried again, unless this was the last time.
Fails ==
  /\ at = "try"
  /\ \E e \in Error :
       /\ errors' = Append(errors, e)
       /\ IF attempt < max_attempts - 1
            THEN at' = (IF on_retry THEN "announce" ELSE "wait")
                 /\ UNCHANGED outcome
            ELSE End("raised", e)
  /\ UNCHANGED <<policy, attempt, announced, waits>>

Announces ==
  /\ at = "announce"
  /\ announced' = Append(announced, attempt)
  /\ at' = "wait"
  /\ UNCHANGED <<policy, attempt, errors, waits, outcome>>

\* on_retry itself raises, out of execute.
AnnouncementRaises ==
  /\ at = "announce"
  /\ announced' = Append(announced, attempt)
  /\ End("raised", "callback_error")
  /\ UNCHANGED <<policy, attempt, errors, waits>>

\* math.pow(2, n).
Power(n) ==
  LET power[k \in 0..n] == IF k = 0 THEN 1 ELSE 2 * power[k - 1]
  IN  power[n]

\* _compute_delay, before the jitter.
Backoff(n) ==
  IF MinDelay * Power(n) < MaxDelay THEN MinDelay * Power(n) ELSE MaxDelay

\* Doubled: a jittered delay is at least half of the backoff, and below it.
TwiceDelays(n) ==
  IF ~jitter THEN {2 * Backoff(n)}
  ELSE IF Backoff(n) = 0 THEN {0}
  ELSE Backoff(n) .. 2 * Backoff(n) - 1

\* Mutant: the exponent of a wait is the attempt that comes next.
WaitsOneOn ==
  /\ at = "wait" /\ attempt < Exponents
  /\ \E d \in TwiceDelays(attempt + 1) : waits' = Append(waits, d)
  /\ attempt' = attempt + 1 /\ at' = "try"
  /\ UNCHANGED <<policy, errors, announced, outcome>>

\* time.sleep, and the loop's next round.
Waits ==
  /\ at = "wait" /\ attempt < Exponents
  /\ \E d \in TwiceDelays(attempt) : waits' = Append(waits, d)
  /\ attempt' = attempt + 1 /\ at' = "try"
  /\ UNCHANGED <<policy, errors, announced, outcome>>

DelayOverflows ==
  /\ at = "wait" /\ attempt >= Exponents
  /\ End("raised", "OverflowError")
  /\ UNCHANGED <<policy, attempt, errors, announced, waits>>

Ended == at = "end" /\ UNCHANGED vars

Next == \/ Begin \/ Succeeds \/ Interrupted \/ Fails
        \/ Announces \/ AnnouncementRaises \/ Waits \/ DelayOverflows
        \/ Ended

Spec == Init /\ [][Next]_vars

----------------------------------------------------------------------------
\* The operation runs max_attempts times at most, and never once it has
\* succeeded; the attempt under way has all the failures before it behind it.
NeverTriedTooOften ==
  /\ Len(errors) <= max_attempts
  /\ at = "try" => Len(errors) = attempt /\ attempt < max_attempts

\* An error of the operation's leaves execute only when every attempt was
\* spent, and is the last one's (RetryPolicy.execute: "Raises the last
\* exception if all attempts fail").
RaisesTheLast ==
  (outcome.how = "raised" /\ outcome.error \in Error)
    => Len(errors) = max_attempts /\ outcome.error = errors[Len(errors)]

\* Between two attempts lies one wait, not above max_delay and within a
\* factor of two of the backoff its attempt is due, and if there is a
\* callback, one announcement of the attempt that failed, before the wait.
RetriesAreAnnouncedAndSpaced ==
  /\ Len(waits) = attempt
  /\ \A n \in DOMAIN waits : /\ Backoff(n - 1) <= waits[n]
                             /\ waits[n] <= 2 * Backoff(n - 1)
  /\ on_retry => /\ \A n \in DOMAIN announced : announced[n] = n - 1
                 /\ Len(announced) >= Len(waits)
  /\ ~on_retry => announced = <<>>
=============================================================================
