--------------------------- MODULE FailureProofs ----------------------------
(***************************************************************************)
(* Proofs about failures: ExponentialBackoffRetry, for every max_attempts, *)
(* delays and operation; what a caller sees of an error, for every status, *)
(* route and given args; and a process manager's compensation, for any     *)
(* number of steps.                                                        *)
(***************************************************************************)
EXTENDS Retry, ErrorPath, Compensation, Induction, FiniteSetTheorems, TLAPS

\* How many failures lie behind each place in the loop.
CountInv ==
  /\ max_attempts \in Nat /\ attempt \in Nat /\ errors \in Seq(Error)
  /\ at \in {"call", "try", "announce", "wait", "end"}
  /\ at = "call" => Len(errors) = attempt /\ attempt = 0
  /\ at = "try" => Len(errors) = attempt /\ attempt < max_attempts
  /\ at \in {"announce", "wait"} =>
       Len(errors) = attempt + 1 /\ attempt < max_attempts - 1
  /\ Len(errors) <= max_attempts

\* What has been raised is the last failure of all attempts, or none of the
\* operation's.
OutcomeInv ==
  /\ at # "end" => outcome.how = "none"
  /\ RaisesTheLast

RetryInv == CountInv /\ OutcomeInv

\* Before execute is called nothing has failed.
LEMMA RetryInit == Init => RetryInv
BY LimitAssumption DEF Init, RetryInv, CountInv, OutcomeInv, RaisesTheLast

\* Each step of the loop keeps the count of failures, and only the failure
\* of the last attempt raises an error of the operation's.
LEMMA RetryStep == RetryInv /\ [Next]_vars => RetryInv'
<1> SUFFICES ASSUME RetryInv, [Next]_vars PROVE RetryInv'
  OBVIOUS
<1>0. "TypeError" \notin Error /\ "OverflowError" \notin Error
      /\ "callback_error" \notin Error
  BY ErrorAssumption DEF Own
<1> USE LimitAssumption, <1>0
    DEF RetryInv, CountInv, OutcomeInv, RaisesTheLast, policy, End
<1>1. CASE Begin
  <2>1. CASE max_attempts = 0
    BY <1>1, <2>1 DEF Begin
  <2>2. CASE max_attempts # 0
    BY <1>1, <2>2 DEF Begin
  <2>3. QED
    BY <2>1, <2>2
<1>2. CASE Succeeds
  BY <1>2 DEF Succeeds
<1>3. CASE Interrupted
  BY <1>3 DEF Interrupted
<1>4. CASE Fails
  <2>1. PICK e \in Error :
          /\ errors' = Append(errors, e)
          /\ attempt < max_attempts - 1 =>
               at' = (IF on_retry THEN "announce" ELSE "wait")
               /\ outcome' = outcome
          /\ ~(attempt < max_attempts - 1) =>
               at' = "end" /\ outcome' = [how |-> "raised", error |-> e]
    BY <1>4 DEF Fails
  <2>2. /\ at = "try" /\ max_attempts' = max_attempts /\ attempt' = attempt
    BY <1>4 DEF Fails
  <2>3. errors \in Seq(Error)
    OBVIOUS
  <2>4. /\ errors' \in Seq(Error) /\ Len(errors') = Len(errors) + 1
        /\ errors'[Len(errors')] = e
    BY <2>1, <2>3
  <2>5. CASE attempt < max_attempts - 1
    BY <2>1, <2>2, <2>4, <2>5
  <2>6. CASE ~(attempt < max_attempts - 1)
    BY <2>1, <2>2, <2>4, <2>6
  <2>7. QED
    BY <2>5, <2>6
<1>5. CASE Announces
  BY <1>5 DEF Announces
<1>6. CASE AnnouncementRaises
  BY <1>6 DEF AnnouncementRaises
<1>7. CASE Waits
  BY <1>7 DEF Waits
<1>8. CASE DelayOverflows
  BY <1>8 DEF DelayOverflows
<1>9. CASE Ended \/ UNCHANGED vars
  BY <1>9 DEF Ended, vars
<1>10. QED
  BY <1>1, <1>2, <1>3, <1>4, <1>5, <1>6, <1>7, <1>8, <1>9 DEF Next

\* The invariant holds of execute throughout.
THEOREM RetryInvariant == Spec => []RetryInv
<1>1. QED
  BY RetryInit, RetryStep, PTL DEF Spec

\* The operation never runs more than max_attempts times (execute's loop).
THEOREM AttemptsAreBounded == Spec => []NeverTriedTooOften
<1>1. RetryInv => NeverTriedTooOften
  BY DEF RetryInv, CountInv, NeverTriedTooOften
<1>2. QED
  BY <1>1, RetryInvariant, PTL

\* What execute raises of the operation's is the last error, after all the
\* attempts (execute's `raise last_err`).
THEOREM LastErrorIsRaised == Spec => []RaisesTheLast
<1>1. RetryInv => RaisesTheLast
  BY DEF RetryInv, OutcomeInv
<1>2. QED
  BY <1>1, RetryInvariant, PTL

\* f holds the powers of two up to the n-th.
ArePowers(f, n) == f = [k \in 0..n |-> IF k = 0 THEN 1 ELSE 2 * f[k - 1]]

\* Each power of two is a natural number: what math.pow is in Power.
LEMMA PowerIsNat == ASSUME NEW n \in Nat PROVE Power(n) \in Nat
<1> DEFINE T == {k \in Nat : \E f : ArePowers(f, k)}
<1>1. 0 \in T
  <2>1. ArePowers([m \in 0..0 |-> 1], 0)
    BY DEF ArePowers
  <2> QED
    BY <2>1
<1>2. ASSUME NEW k \in Nat, k \in T PROVE k + 1 \in T
  <2>1. PICK f : ArePowers(f, k)
    BY <1>2
  <2> DEFINE g == [m \in 0..(k + 1) |-> IF m = k + 1 THEN 2 * f[k] ELSE f[m]]
  <2>2. ArePowers(g, k + 1)
    BY <2>1 DEF ArePowers
  <2> HIDE DEF g
  <2> QED
    BY <2>2
<1> HIDE DEF T
<1>3. \E f : ArePowers(f, n)
  <2>1. n \in T
    BY <1>1, <1>2, NatInduct
  <2> QED
    BY <2>1 DEF T
<1> DEFINE p == CHOOSE f : ArePowers(f, n)
<1>4. ArePowers(p, n)
  BY <1>3, Zenon
<1>5. Power(n) = p[n]
  BY Zenon DEF Power, ArePowers
<1> HIDE DEF p
<1> DEFINE S == {k \in Nat : k <= n => p[k] \in Nat}
<1>6. 0 \in S
  BY <1>4 DEF ArePowers
<1>7. ASSUME NEW k \in Nat, k \in S PROVE k + 1 \in S
  BY <1>4, <1>7 DEF ArePowers
<1> HIDE DEF S
<1>8. n \in S
  BY <1>6, <1>7, NatInduct
<1> QED
  BY <1>5, <1>8 DEF S

\* A backoff is a time, however long the delays are.
LEMMA BackoffIsNat == ASSUME NEW n \in Nat PROVE Backoff(n) \in Nat
<1>1. Power(n) \in Nat
  BY PowerIsNat
<1>2. MinDelay * Power(n) \in Nat
  BY <1>1, LimitAssumption
<1> QED
  BY <1>2, LimitAssumption DEF Backoff

\* What execute has announced and waited, for each place it can be in.
SpacingInv ==
  /\ waits \in Seq(Nat) /\ Len(waits) = attempt
  /\ \A n \in 1..Len(waits) : /\ Backoff(n - 1) <= waits[n]
                              /\ waits[n] <= 2 * Backoff(n - 1)
  /\ announced \in Seq(Nat)
  /\ \A n \in 1..Len(announced) : announced[n] = n - 1
  /\ ~on_retry => announced = <<>> /\ at # "announce"
  /\ on_retry =>
       /\ at \in {"call", "try", "announce"} => Len(announced) = attempt
       /\ at = "wait" => Len(announced) = attempt + 1
       /\ Len(announced) >= attempt

\* A wait is appended with the backoff its attempt is due.
LEMMA DelayIsSpaced ==
  ASSUME NEW n \in Nat, NEW d \in TwiceDelays(n)
  PROVE  d \in Nat /\ Backoff(n) <= d /\ d <= 2 * Backoff(n)
<1>1. Backoff(n) \in Nat
  BY BackoffIsNat
<1> QED
  BY <1>1 DEF TwiceDelays

\* Each step of the loop announces and waits in turn.
LEMMA SpacingStep ==
  RetryInv /\ SpacingInv /\ [Next]_vars => SpacingInv'
<1> SUFFICES ASSUME RetryInv, SpacingInv, [Next]_vars PROVE SpacingInv'
  OBVIOUS
<1> USE DEF SpacingInv, policy, End
<1>0. attempt \in Nat /\ at \in {"call", "try", "announce", "wait", "end"}
  BY DEF RetryInv, CountInv
<1>1. CASE Begin \/ Succeeds \/ Interrupted \/ DelayOverflows
  BY <1>0, <1>1, SMTT(40) DEF Begin, Succeeds, Interrupted, DelayOverflows
<1>2. CASE Fails
  BY <1>0, <1>2 DEF Fails
<1>3. CASE Announces \/ AnnouncementRaises
  <2>1. /\ at = "announce" /\ announced' = Append(announced, attempt)
        /\ UNCHANGED <<policy, attempt, waits>> /\ at' \in {"wait", "end"}
    BY <1>3 DEF Announces, AnnouncementRaises
  <2>2. on_retry /\ Len(announced) = attempt
    BY <2>1
  <2>3. /\ announced' \in Seq(Nat) /\ Len(announced') = attempt + 1
        /\ \A n \in 1..Len(announced') : announced'[n] = n - 1
    BY <1>0, <2>1, <2>2
  <2> QED
    BY <1>0, <2>1, <2>2, <2>3
<1>4. CASE Waits
  <2>1. PICK d \in TwiceDelays(attempt) : waits' = Append(waits, d)
    BY <1>4 DEF Waits
  <2>2. d \in Nat /\ Backoff(attempt) <= d /\ d <= 2 * Backoff(attempt)
    BY <1>0, DelayIsSpaced
  <2>3. /\ at = "wait" /\ attempt' = attempt + 1 /\ at' = "try"
        /\ UNCHANGED <<policy, announced>>
    BY <1>4 DEF Waits
  <2>4. waits' \in Seq(Nat) /\ Len(waits') = attempt'
    BY <1>0, <2>1, <2>2, <2>3
  <2>5. \A n \in 1..Len(waits') : /\ Backoff(n - 1) <= waits'[n]
                                  /\ waits'[n] <= 2 * Backoff(n - 1)
    <3> TAKE n \in 1..Len(waits')
    <3>1. CASE n = attempt + 1
      <4>1. waits'[n] = d /\ n - 1 = attempt
        BY <1>0, <2>1, <3>1
      <4> QED
        BY <2>2, <4>1
    <3>2. CASE n # attempt + 1
      <4>1. n \in 1..Len(waits) /\ waits'[n] = waits[n]
        BY <1>0, <2>1, <2>3, <2>4, <3>2
      <4> QED
        BY <4>1
    <3> QED
      BY <3>1, <3>2
  <2> QED
    BY <1>0, <2>3, <2>4, <2>5
<1>5. CASE Ended \/ UNCHANGED vars
  BY <1>5 DEF Ended, vars
<1> QED
  BY <1>1, <1>2, <1>3, <1>4, <1>5 DEF Next

\* Every retry is announced before it is waited for, once, and waited for
\* within a factor of two of its backoff (execute, _compute_delay), for every
\* min_delay, max_delay and max_attempts.
THEOREM RetriesAreSpaced == Spec => []RetriesAreAnnouncedAndSpaced
<1>1. Init => SpacingInv
  BY DEF Init, SpacingInv
<1>2. SpacingInv => RetriesAreAnnouncedAndSpaced
  <2> SUFFICES ASSUME SpacingInv PROVE RetriesAreAnnouncedAndSpaced
    OBVIOUS
  <2>1. DOMAIN waits = 1..Len(waits) /\ DOMAIN announced = 1..Len(announced)
    BY DEF SpacingInv
  <2> QED
    BY <2>1, Zenon DEF SpacingInv, RetriesAreAnnouncedAndSpaced
<1> QED
  BY <1>1, <1>2, SpacingStep, RetryInvariant, PTL DEF Spec

----------------------------------------------------------------------------
(***************************************************************************)
(* That a failure keeps its status, or is INTERNAL, however many components *)
(* it passes and whatever is lost on the way: for every set of keys, of    *)
(* argument maps and of refusals, and without a bound that matters.        *)
(*                                                                         *)
(* StatusIsGivenOrInternal speaks of what a caller sees; what makes it      *)
(* inductive is StatusInv, which says the same of what is on the wire, in   *)
(* the code and in the trailer at once.                                     *)
(***************************************************************************)

\* What stands for an absent status is none of them.
NamedStatuses == Nothing \notin GrpcCode

\* The statuses a failure may travel under.
Fair == {origin.status, "INTERNAL"} \cap GrpcCode

\* What is on the wire.
IsRpc(r) == r = [code |-> r.code, message |-> r.message, trailer |-> r.trailer]

WireIsFair ==
  /\ IsRpc(rpc)
  /\ rpc.code \in Fair
  /\ rpc.trailer # <<>> => rpc.trailer[1].code = rpc.code

SeenIsFair ==
  /\ seen.grpc_code \in Fair
  /\ seen.status.code = seen.grpc_code

StatusInv ==
  /\ stage \in {"code", "wire", "seen"}
  /\ stage = "wire" => WireIsFair
  /\ stage = "seen" => \/ seen = TransportError /\ origin.status = "UNAVAILABLE"
                       \/ SeenIsFair

\* The statuses the router distinguishes are gRPC's (router/errors.py).
LEMMA StatusSets ==
  /\ Business \subseteq GrpcCode
  /\ Retryable \subseteq GrpcCode
  /\ "INTERNAL" \in GrpcCode /\ "ABORTED" \in GrpcCode
  /\ "UNAVAILABLE" \in GrpcCode /\ "DEADLINE_EXCEEDED" \in GrpcCode
  /\ "DATA_LOSS" \in GrpcCode /\ "UNIMPLEMENTED" \in GrpcCode
BY DEF Business, Retryable, GrpcCode

\* Every validation helper rejects under a status a rejection may have
\* (validation.py).
LEMMA HelpersReject == \A h \in Helpers : h.status \in Business
<1>1. ASSUME NEW refuses, NEW key, NEW status, NEW arg
      PROVE  Helper(refuses, key, status, arg).status = status
  BY DEF Helper
<1>2. ASSUME NEW h \in Helpers
      PROVE  \E status \in Business : \E refuses, key, arg :
               h = Helper(refuses, key, status, arg)
  <2>1. {"NOT_FOUND", "FAILED_PRECONDITION", "INVALID_ARGUMENT"} \subseteq Business
    BY DEF Business
  <2>2. QED BY <2>1, Zenon DEF Helpers
<1>3. QED BY <1>1, <1>2

\* A key of the router that is not declared otherwise is INTERNAL: an escaped
\* exception's, and a fold's.
LEMMA DeclaredInternal ==
  /\ declared_status("UNHANDLED_HANDLER_ERROR") = "INTERNAL"
  /\ declared_status("FOLD_FAILED") = "INTERNAL"
  /\ declared_status("FOLD_FAILED_EMITTED") = "INTERNAL"
BY DEF declared_status

\* What an exception is answered as travels under its own status or INTERNAL
\* (CodedError.escaped, _fold_failed).
LEMMA AnswerStatus ==
  ASSUME NEW e, NEW place \in Places
  PROVE  Answer(place, e).grpc \in
           (IF place = "handler" THEN {e.grpc, "INTERNAL"} ELSE {"INTERNAL"})
<1>1. escaped(e).grpc \in {e.grpc, "INTERNAL"}
  <2>1. CASE e = Unclassified
    BY <2>1 DEF escaped, UnhandledError, CodedError
  <2>2. CASE e # Unclassified /\ e = AnyOther
    BY <2>2 DEF escaped, UnhandledError, CodedError
  <2>3. CASE e # Unclassified /\ e # AnyOther
    BY <2>3 DEF escaped
  <2>4. QED BY <2>1, <2>2, <2>3
<1>2. ASSUME place # "handler" PROVE FoldFailed(place, e).grpc = "INTERNAL"
  BY <1>2, DeclaredInternal DEF FoldFailed, CodedError, Places
<1>3. QED BY <1>1, <1>2 DEF Answer

\* The unclassified exceptions are INTERNAL wherever they are raised
\* (UnhandledError.from_exception).
LEMMA UncodedIsInternal ==
  ASSUME NEW e \in {Unclassified, AnyOther}, NEW place \in Places
  PROVE  Answer(place, e).grpc = "INTERNAL"
<1>1. escaped(e).grpc = "INTERNAL"
  <2>1. CASE e = Unclassified
    BY <2>1 DEF escaped, UnhandledError, CodedError
  <2>2. CASE e # Unclassified
    BY <2>2 DEF escaped, UnhandledError, CodedError
  <2>3. QED BY <2>1, <2>2
<1>2. QED BY <1>1, AnswerStatus DEF Answer

\* The host puts one status in two places: the call's and the trailer's
\* (_Dispatcher.call).
LEMMA AbortedAgrees ==
  ASSUME NEW e
  PROVE  /\ Aborted(e).code = e.grpc
         /\ Aborted(e).trailer[1].code = e.grpc
         /\ IsRpc(Aborted(e))
BY DEF Aborted, Status, IsRpc

\* The client reads back one status, with or without the trailer
\* (_rpc_status).
LEMMA ReadBackAgrees ==
  ASSUME NEW r, r.trailer # <<>> => r.trailer[1].code = r.code
  PROVE  /\ GRPCError(r).grpc_code = r.code
         /\ GRPCError(r).status.code = r.code
<1>1. RpcStatus(r).code = r.code
  BY DEF RpcStatus
<1>2. QED BY <1>1 DEF GRPCError

\* What the client makes of a status with this trailer.
ClientSees(r, trailer) == GRPCError([r EXCEPT !.trailer = trailer])

\* It is a status too: only the trailer is another.
LEMMA SeesAnswer ==
  ASSUME NEW r, NEW trailer, IsRpc(r)
  PROVE  ClientSees(r, trailer)
           = GRPCError([code |-> r.code, message |-> r.message, trailer |-> trailer])
<1> DEFINE c == r.code
           m == r.message
           t == r.trailer
<1>1. r = [code |-> c, message |-> m, trailer |-> t]
  BY DEF IsRpc
<1> HIDE DEF c, m, t
<1>2. [r EXCEPT !.trailer = trailer] = [code |-> c, message |-> m, trailer |-> trailer]
  BY <1>1
<1> QED
  BY <1>2 DEF ClientSees, c, m

\* A given failure is on the wire under its status or INTERNAL.
LEMMA GivesFair ==
  ASSUME NEW e, NEW key, NEW args, NEW status \in GrpcCode,
         \/ e \in {Unclassified, AnyOther}
         \/ e.grpc \in {status, "INTERNAL"},
         Gives(e, key, args, status)
  PROVE  StatusInv'
<1>1. PICK place \in Places :
        /\ Sends(place, e)
        /\ origin' = [key |-> key, args |-> args,
                      status |-> IF place = "handler" THEN status ELSE "INTERNAL"]
  BY DEF Gives
<1>2. Answer(place, e).grpc \in {origin'.status, "INTERNAL"}
  <2>1. CASE e \in {Unclassified, AnyOther}
    BY <2>1, UncodedIsInternal
  <2>2. CASE e.grpc \in {status, "INTERNAL"}
    BY <1>1, <2>2, AnswerStatus
  <2>3. QED BY <2>1, <2>2
<1>3. origin'.status \in GrpcCode
  BY <1>1, StatusSets
<1>4. WireIsFair'
  BY <1>1, <1>2, <1>3, AbortedAgrees, StatusSets DEF Sends, WireIsFair, Fair
<1>5. QED BY <1>1, <1>4 DEF Sends, StatusInv

\* So is one under a status the handler may not pick, as a panic.
LEMMA PickedFair ==
  ASSUME NEW e, NEW allowed, allowed \subseteq GrpcCode,
         NEW key, NEW args, NEW status,
         \/ e \in {Unclassified, AnyOther}
         \/ e.grpc \in {status, "INTERNAL"},
         status \notin allowed => e = AnyOther,
         Picked(e, allowed, key, args, status)
  PROVE  StatusInv'
<1>1. CASE status \in allowed
  BY <1>1, GivesFair DEF Picked
<1>2. CASE status \notin allowed
  BY <1>2, GivesFair, StatusSets DEF Picked
<1>3. QED BY <1>1, <1>2

\* An arg named as a parameter makes Immediate and Bug fail (a TypeError, any
\* exception): else they are coded.
LEMMA ClashOrCoded ==
  ASSUME NEW key, NEW args
  PROVE  IF Clash(args)
           THEN Immediate(key, args) = AnyOther /\ Bug(key, args) = AnyOther
           ELSE /\ Immediate(key, args) = CodedError(key, "ABORTED", args)
                /\ Bug(key, args)
                     = UnhandledError("INTERNAL", flatten(Cause, key, args))
BY DeclaredInternal DEF Immediate, Bug

\* A handler that is a caller too gives what it saw under the status it saw
\* or INTERNAL (external code, after the client's predicates).
LEMMA PassedOnFair ==
  ASSUME NamedStatuses, StatusInv, stage = "seen", PassedOn(seen) # AnyOther
  PROVE  PassedOn(seen).grpc \in Fair
<1>1. CASE SeenIsFair
  <2>1. seen # TransportError
    <3>1. TransportError.grpc_code = Nothing
      BY DEF TransportError
    <3>2. seen.grpc_code \in GrpcCode
      BY <1>1 DEF SeenIsFair, Fair
    <3>3. QED BY <3>1, <3>2, NamedStatuses DEF NamedStatuses
  <2>2. CASE is_aborted(seen)
    <3>1. PassedOn(seen) = CodedError(seen.code, "ABORTED", seen.details)
      BY <2>2, ClashOrCoded DEF PassedOn
    <3> QED BY <1>1, <2>2, <3>1 DEF is_aborted, CodedError, SeenIsFair
  <2>3. CASE ~is_aborted(seen) /\ is_connection_error(seen)
    <3>1. seen.grpc_code = "UNAVAILABLE"
      BY <2>1, <2>3 DEF is_connection_error
    <3>2. RetryableBug(seen.code, "UNAVAILABLE", seen.details).grpc = "UNAVAILABLE"
      BY DEF RetryableBug, Retryable, UnhandledError, CodedError
    <3>3. QED BY <1>1, <2>3, <3>1, <3>2 DEF PassedOn, SeenIsFair
  <2>4. CASE /\ ~is_aborted(seen) /\ ~is_connection_error(seen)
             /\ \/ is_not_found(seen) \/ is_precondition_failed(seen)
                \/ is_invalid_argument(seen)
    <3>1. seen.grpc_code \in Business
      BY <2>4 DEF is_not_found, is_precondition_failed, is_invalid_argument, Business
    <3>2. Rejection(seen.code, seen.grpc_code, seen.details).grpc = seen.grpc_code
      BY <3>1 DEF Rejection, CodedError
    <3>3. QED BY <1>1, <2>4, <3>2 DEF PassedOn, SeenIsFair
  <2>5. CASE /\ ~is_aborted(seen) /\ ~is_connection_error(seen)
             /\ ~is_not_found(seen) /\ ~is_precondition_failed(seen)
             /\ ~is_invalid_argument(seen)
    <3>1. PassedOn(seen) = UnhandledError("INTERNAL",
                                          flatten(Cause, seen.code, seen.details))
      BY <2>5, ClashOrCoded DEF PassedOn
    <3>2. QED BY <3>1, StatusSets DEF UnhandledError, CodedError, Fair
  <2>6. QED BY <2>2, <2>3, <2>4, <2>5
<1>2. CASE seen = TransportError /\ origin.status = "UNAVAILABLE"
  <2>1. ~is_aborted(seen) /\ is_connection_error(seen)
    <3>1. seen.grpc_code = Nothing
      BY <1>2 DEF TransportError
    <3>2. seen.grpc_code # "ABORTED"
      BY <3>1, NamedStatuses, StatusSets DEF NamedStatuses
    <3>3. QED BY <1>2, <3>2 DEF is_aborted, is_connection_error
  <2>2. RetryableBug(seen.code, "UNAVAILABLE", seen.details).grpc = "UNAVAILABLE"
    BY DEF RetryableBug, Retryable, UnhandledError, CodedError
  <2>3. QED BY <1>2, <2>1, <2>2, StatusSets DEF PassedOn, Fair
<1>3. QED BY <1>1, <1>2 DEF StatusInv

\* Every step keeps the status fair.
LEMMA StatusStep ==
  ASSUME NamedStatuses, StatusInv, [ErrorNext]_errorVars
  PROVE  StatusInv'
<1>1. CASE Rejects
  <2>1. PICK key \in Key, args \in Given, status \in GrpcCode :
          Picked(Rejection(key, status, args), Business, key, args, status)
    BY <1>1 DEF Rejects
  <2>2. /\ status \in Business => Rejection(key, status, args).grpc = status
        /\ status \notin Business => Rejection(key, status, args) = AnyOther
    BY DEF Rejection, CodedError
  <2>3. QED BY <2>1, <2>2, PickedFair, StatusSets
<1>2. CASE Validates
  <2>1. PICK h \in Helpers : \E args :
          Gives(Rejection(h.key, h.status, args), h.key, args, h.status)
    BY <1>2 DEF Validates
  <2>2. h.status \in Business
    BY HelpersReject
  <2>3. ASSUME NEW args PROVE Rejection(h.key, h.status, args).grpc = h.status
    BY <2>2 DEF Rejection, CodedError
  <2>4. QED BY <2>1, <2>2, <2>3, GivesFair, StatusSets
<1>3. CASE Refuses
  <2>1. PICK type \in Refusal, status \in GrpcCode :
          Picked(Refused(type, status), Business, "COMMAND_REFUSED",
                 {<<<<"refusal_type">>, type>>}, status)
    BY <1>3 DEF Refuses
  <2>2. /\ status \in Business => Refused(type, status).grpc = status
        /\ status \notin Business => Refused(type, status) = AnyOther
    BY DEF Refused, CodedError
  <2>3. QED BY <2>1, <2>2, PickedFair, StatusSets
<1>4. CASE ReReads
  <2>1. PICK key \in Key, args \in Given :
          Named(Immediate(key, args), key, args, "ABORTED")
    BY <1>4 DEF ReReads
  <2>2. CodedError(key, "ABORTED", args).grpc = "ABORTED"
    BY DEF CodedError
  <2>3. QED BY <2>1, <2>2, ClashOrCoded, GivesFair, StatusSets DEF Named
<1>5. CASE HasBug
  <2>1. PICK key \in Key, args \in Given :
          \/ Named(Bug(key, args), key, args, "INTERNAL")
          \/ \E status \in GrpcCode :
               Picked(RetryableBug(key, status, args), Retryable, key, args, status)
    BY <1>5 DEF HasBug
  <2>2. CASE Named(Bug(key, args), key, args, "INTERNAL")
    <3>1. UnhandledError("INTERNAL", flatten(Cause, key, args)).grpc = "INTERNAL"
      BY DEF UnhandledError, CodedError
    <3>2. QED BY <2>2, <3>1, ClashOrCoded, GivesFair, StatusSets DEF Named
  <2>3. ASSUME NEW status \in GrpcCode,
               Picked(RetryableBug(key, status, args), Retryable, key, args, status)
        PROVE  StatusInv'
    <3>1. /\ status \in Retryable => RetryableBug(key, status, args).grpc = status
          /\ status \notin Retryable => RetryableBug(key, status, args) = AnyOther
      BY DEF RetryableBug, UnhandledError, CodedError
    <3>2. QED BY <2>3, <3>1, PickedFair, StatusSets
  <2>4. QED BY <2>1, <2>2, <2>3
<1>6. CASE Escapes
  BY <1>6, GivesFair, StatusSets DEF Escapes
<1>7. CASE RouterFails
  <2>1. PICK code \in {"PERSISTED_EVENT_CORRUPT", "NO_COMPONENT_OF_KIND", "ANY_DECODE_FAILED"} :
          /\ rpc' = Aborted(CodedError(code, declared_status(code), {}))
          /\ origin' = [key |-> code, args |-> {}, status |-> declared_status(code)]
    BY <1>7 DEF RouterFails
  <2>2. CodedError(code, declared_status(code), {}).grpc = declared_status(code)
    BY DEF CodedError
  <2>3. declared_status(code) \in GrpcCode
    BY StatusSets DEF declared_status
  <2>4. WireIsFair'
    BY <2>1, <2>2, <2>3, AbortedAgrees DEF WireIsFair, Fair
  <2>5. QED BY <1>7, <2>4 DEF RouterFails, StatusInv
<1>8. CASE LinkFails
  <2>1. WireIsFair'
    BY <1>8, StatusSets DEF LinkFails, WireIsFair, Fair, IsRpc
  <2>2. QED BY <1>8, <2>1 DEF LinkFails, StatusInv
<1>9. CASE ChannelIsClosed
  BY <1>9 DEF ChannelIsClosed, StatusInv
<1>10. CASE Arrives
  <2>1. PICK trailer \in {rpc.trailer, <<>>} :
          seen' = GRPCError([rpc EXCEPT !.trailer = trailer])
    BY <1>10 DEF Arrives
  <2>2. WireIsFair /\ origin' = origin /\ stage' = "seen"
    BY <1>10 DEF Arrives, StatusInv
  <2> DEFINE r == [code |-> rpc.code, message |-> rpc.message, trailer |-> trailer]
  <2>3. seen' = GRPCError(r)
    <3>1. seen' = ClientSees(rpc, trailer)
      BY <2>1 DEF ClientSees
    <3> QED BY <2>2, <3>1, SeesAnswer DEF WireIsFair
  <2>4. /\ r.code = rpc.code
        /\ r.trailer # <<>> => r.trailer[1].code = r.code
    BY <2>2 DEF WireIsFair
  <2>5. SeenIsFair'
    <3>1. /\ GRPCError(r).grpc_code = rpc.code
          /\ GRPCError(r).status.code = rpc.code
      BY <2>4, ReadBackAgrees
    <3>2. QED BY <2>2, <2>3, <3>1 DEF SeenIsFair, WireIsFair, Fair
  <2>6. QED BY <2>2, <2>5 DEF StatusInv
<1>11. CASE PassesOn
  <2>1. PICK place \in Places, e \in {PassedOn(seen), AnyOther} : Sends(place, e)
    BY <1>11 DEF PassesOn
  <2>2. stage = "seen" /\ origin' = origin
    BY <1>11 DEF PassesOn
  <2>3. Answer(place, e).grpc \in Fair
    <3>1. CASE e # AnyOther /\ e = PassedOn(seen)
      BY <2>2, <3>1, AnswerStatus, PassedOnFair, StatusSets DEF Fair
    <3>2. CASE e = AnyOther
      BY <3>2, UncodedIsInternal, StatusSets DEF Fair
    <3>3. QED BY <2>1, <3>1, <3>2
  <2>4. WireIsFair'
    BY <2>1, <2>2, <2>3, AbortedAgrees DEF Sends, WireIsFair, Fair
  <2>5. QED BY <2>1, <2>4 DEF Sends, StatusInv
<1>12. CASE Stops \/ UNCHANGED errorVars
  BY <1>12 DEF Stops, errorVars, StatusInv, WireIsFair, SeenIsFair, Fair
<1>13. QED
  BY <1>1, <1>2, <1>3, <1>4, <1>5, <1>6, <1>7, <1>8, <1>9, <1>10, <1>11, <1>12
     DEF ErrorNext

\* The status on the wire and in the caller's hands is the one first given,
\* or INTERNAL, in every reachable state.
THEOREM StatusInvariant == ASSUME NamedStatuses PROVE ErrorSpec => []StatusInv
<1>1. ErrorInit => StatusInv
  BY DEF ErrorInit, StatusInv
<1>2. StatusInv /\ [ErrorNext]_errorVars => StatusInv'
  BY StatusStep, NamedStatuses
<1>3. QED BY <1>1, <1>2, PTL DEF ErrorSpec

\* A caller is never told to retry, to re-read or that it is refused unless
\* the first failure meant it, whatever the components in between and however
\* many trailers are lost (errors.py, router/errors.py, _Dispatcher.call).
THEOREM StatusIsNeverInvented ==
  ASSUME NamedStatuses PROVE ErrorSpec => []StatusIsGivenOrInternal
<1>1. StatusInv => StatusIsGivenOrInternal
  BY DEF StatusInv, StatusIsGivenOrInternal, SeenIsFair, Fair
<1>2. QED BY <1>1, StatusInvariant, PTL

\* No two args of a map have one name; names are of segments, at least one.
IsMap(m, Segment) ==
  /\ \A c, d \in m : c[1] = d[1] => c = d
  /\ \A c \in m : c[1] \in Seq(Segment) /\ c[1] # <<>>

\* All names of a map are below "cause".
OfCause(m) == \A c \in m : c[1][1] = "cause"

\* The key every exception without one of its own is answered under.
Unhandled == "UNHANDLED_HANDLER_ERROR"

\* The segments the library's own names are made of.
OwnSegments ==
  {"cause", "sequence", "type_url", "state_type_url", "refusal_type",
   "context", "field", "reason"}

\* Business code fails under keys of its own, and gives maps.
GivesMaps(Segment) ==
  /\ OwnSegments \subseteq Segment
  /\ \A args \in Given : IsMap(args, Segment)
  /\ Unhandled \notin Key

\* What was given first is in a code and its args.
Carries(key, args, code, extras) ==
  \/ code = key /\ args \subseteq extras
  \/ \E d \in extras : d[2] = key /\ Under(d[1], args) \subseteq extras

\* A name is found again below "cause".
LEMMA BelowCause ==
  ASSUME NEW Segment, "cause" \in Segment, NEW x \in Seq(Segment), x # <<>>
  PROVE  /\ Cause \o x \in Seq(Segment)
         /\ Cause \o x # <<>> /\ Cause \o x # Cause
         /\ (Cause \o x)[1] = "cause"
         /\ \A y \in Seq(Segment) : Cause \o x = Cause \o y => x = y
<1>1. ASSUME NEW y \in Seq(Segment)
      PROVE  /\ Cause \o y \in Seq(Segment)
             /\ Len(Cause \o y) = 1 + Len(y)
             /\ (Cause \o y)[1] = "cause"
  BY DEF Cause
<1>2. ASSUME NEW y \in Seq(Segment), NEW i \in 1..Len(y)
      PROVE  (Cause \o y)[i + 1] = y[i]
  BY DEF Cause
<1>3. ASSUME NEW y \in Seq(Segment), Cause \o x = Cause \o y PROVE x = y
  <2>1. Len(x) = Len(y)
    BY <1>1, <1>3
  <2>2. ASSUME NEW i \in 1..Len(x) PROVE x[i] = y[i]
    <3>1. (Cause \o x)[i + 1] = x[i]
      BY <1>2
    <3>2. (Cause \o y)[i + 1] = y[i]
      BY <1>2, <2>1
    <3> QED
      BY <1>3, <3>1, <3>2
  <2> QED
    BY <2>1, <2>2
<1>4. /\ Len(Cause \o x) # 1 /\ Len(Cause \o x) # 0
      /\ Len(Cause) = 1 /\ Len(<<>>) = 0
  BY <1>1 DEF Cause
<1> QED
  BY <1>1, <1>3, <1>4, Zenon

\* Names are put together in any order.
LEMMA Nested ==
  ASSUME NEW S, NEW a \in Seq(S), NEW b \in Seq(S), NEW c \in Seq(S)
  PROVE  (a \o b) \o c = a \o (b \o c)
OBVIOUS

\* What is below a name below "cause" is below "cause".
LEMMA UnderUnder ==
  ASSUME NEW Segment, "cause" \in Segment, NEW name \in Seq(Segment),
         NEW m, \A c \in m : c[1] \in Seq(Segment)
  PROVE  Under(Cause \o name, m) = Under(Cause, Under(name, m))
<1>1. Cause \in Seq(Segment)
  BY DEF Cause
<1>2. ASSUME NEW c \in m
      PROVE  (Cause \o name) \o c[1] = Cause \o (name \o c[1])
  <2> DEFINE n == c[1]
  <2>1. n \in Seq(Segment)
    OBVIOUS
  <2> HIDE DEF n
  <2>2. (Cause \o name) \o n = Cause \o (name \o n)
    BY <1>1, <2>1, Nested
  <2> QED
    BY <2>2 DEF n
<1>3. Under(Cause \o name, m) = {<<Cause \o (name \o c[1]), c[2]>> : c \in m}
  BY <1>2 DEF Under
<1>4. ASSUME NEW e
      PROVE  e \in Under(Cause, Under(name, m))
               <=> \E c \in m : e = <<Cause \o (name \o c[1]), c[2]>>
  <2>1. e \in Under(Cause, Under(name, m))
          <=> \E a \in Under(name, m) : e = <<Cause \o a[1], a[2]>>
    BY Zenon DEF Under
  <2>2. \A a : a \in Under(name, m) <=> \E c \in m : a = <<name \o c[1], c[2]>>
    BY Zenon DEF Under
  <2>3. ASSUME NEW c \in m, e = <<Cause \o (name \o c[1]), c[2]>>
        PROVE  \E a \in Under(name, m) : e = <<Cause \o a[1], a[2]>>
    <3> DEFINE a == <<name \o c[1], c[2]>>
    <3>1. a \in Under(name, m)
      BY <2>2
    <3>2. a[1] = name \o c[1] /\ a[2] = c[2]
      OBVIOUS
    <3> HIDE DEF a
    <3> QED
      BY <2>3, <3>1, <3>2
  <2>4. ASSUME NEW a \in Under(name, m), e = <<Cause \o a[1], a[2]>>
        PROVE  \E c \in m : e = <<Cause \o (name \o c[1]), c[2]>>
    <3>1. PICK c \in m : a = <<name \o c[1], c[2]>>
      BY <2>2
    <3>2. a[1] = name \o c[1] /\ a[2] = c[2]
      BY <3>1
    <3> QED
      BY <2>4, <3>2
  <2> QED
    BY <2>1, <2>3, <2>4, Zenon
<1>5. ASSUME NEW e
      PROVE  e \in Under(Cause \o name, m)
               <=> \E c \in m : e = <<Cause \o (name \o c[1]), c[2]>>
  BY <1>3, Zenon
<1> QED
  BY <1>4, <1>5

\* flatten makes a map of a map, below "cause".
LEMMA FlattenIsMap ==
  ASSUME NEW Segment, "cause" \in Segment, NEW key, NEW m, IsMap(m, Segment)
  PROVE  IsMap(flatten(Cause, key, m), Segment) /\ OfCause(flatten(Cause, key, m))
<1>1. Cause \in Seq(Segment) /\ Cause # <<>> /\ Cause[1] = "cause"
  BY DEF Cause
<1>2. ASSUME NEW c \in flatten(Cause, key, m)
      PROVE  \/ c[1] = Cause /\ c = <<Cause, key>>
             \/ \E a \in m : c[1] = Cause \o a[1] /\ c = <<Cause \o a[1], a[2]>>
  BY <1>2 DEF flatten, Under
<1>3. ASSUME NEW a \in m
      PROVE  /\ Cause \o a[1] \in Seq(Segment)
             /\ Cause \o a[1] # <<>> /\ Cause \o a[1] # Cause
             /\ (Cause \o a[1])[1] = "cause"
             /\ \A b \in m : Cause \o a[1] = Cause \o b[1] => a = b
  <2>1. a[1] \in Seq(Segment) /\ a[1] # <<>>
    BY DEF IsMap
  <2>2. \A y \in Seq(Segment) : Cause \o a[1] = Cause \o y => a[1] = y
    BY <2>1, BelowCause
  <2>3. \A b \in m : b[1] \in Seq(Segment) /\ (a[1] = b[1] => a = b)
    BY DEF IsMap
  <2> QED
    BY <2>1, <2>2, <2>3, BelowCause
<1>4. ASSUME NEW c \in flatten(Cause, key, m), NEW d \in flatten(Cause, key, m),
             c[1] = d[1]
      PROVE  c = d
  <2>1. CASE c = <<Cause, key>> /\ c[1] = Cause
    BY <1>2, <1>3, <1>4, <2>1
  <2>2. ASSUME NEW a \in m, c[1] = Cause \o a[1], c = <<Cause \o a[1], a[2]>>
        PROVE  c = d
    <3>1. c[1] # Cause
      BY <1>3, <2>2
    <3>2. PICK b \in m : d[1] = Cause \o b[1] /\ d = <<Cause \o b[1], b[2]>>
      BY <1>2, <1>4, <3>1
    <3>3. a = b
      BY <1>3, <1>4, <2>2, <3>2
    <3> QED
      BY <2>2, <3>2, <3>3
  <2> QED
    BY <1>2, <2>1, <2>2
<1>5. ASSUME NEW c \in flatten(Cause, key, m)
      PROVE  c[1] \in Seq(Segment) /\ c[1] # <<>> /\ c[1][1] = "cause"
  <2>1. CASE c[1] = Cause
    BY <1>1, <2>1
  <2>2. ASSUME NEW a \in m, c[1] = Cause \o a[1]
        PROVE  c[1] \in Seq(Segment) /\ c[1] # <<>> /\ c[1][1] = "cause"
    BY <1>3, <2>2
  <2> QED
    BY <1>2, <2>1, <2>2
<1> QED
  BY <1>4, <1>5 DEF IsMap, OfCause

\* flatten keeps what was given in it.
LEMMA FlattenCarries ==
  ASSUME NEW Segment, "cause" \in Segment, NEW key, NEW args, NEW code, NEW m,
         IsMap(args, Segment), IsMap(m, Segment), Carries(key, args, code, m)
  PROVE  \E d \in flatten(Cause, code, m) :
           d[2] = key /\ Under(d[1], args) \subseteq flatten(Cause, code, m)
<1>1. CASE code = key /\ args \subseteq m
  <2>1. <<Cause, code>> \in flatten(Cause, code, m)
    BY DEF flatten
  <2>2. Under(Cause, args) \subseteq flatten(Cause, code, m)
    BY <1>1 DEF flatten, Under
  <2> QED
    BY <1>1, <2>1, <2>2
<1>2. CASE \E d \in m : d[2] = key /\ Under(d[1], args) \subseteq m
  <2>1. PICK d \in m : d[2] = key /\ Under(d[1], args) \subseteq m
    BY <1>2
  <2>2. d[1] \in Seq(Segment) /\ \A c \in args : c[1] \in Seq(Segment)
    BY DEF IsMap
  <2>3. Under(Cause \o d[1], args) = Under(Cause, Under(d[1], args))
    BY <2>2, UnderUnder
  <2>4. Under(Cause, Under(d[1], args)) \subseteq Under(Cause, m)
    BY <2>1 DEF Under
  <2>5. <<Cause \o d[1], d[2]>> \in flatten(Cause, code, m)
    BY DEF flatten, Under
  <2>6. Under(Cause \o d[1], args) \subseteq flatten(Cause, code, m)
    BY <2>3, <2>4 DEF flatten
  <2> QED
    BY <2>1, <2>5, <2>6
<1> QED
  BY <1>1, <1>2 DEF Carries

\* A coded error whose args are a map: below "cause", if an exception's that
\* has no key of its own; then no caller takes it for a refusal or a re-read.
CodedMap(e, Segment) ==
  /\ IsMap(e.extras, Segment)
  /\ e.code = Unhandled =>
       OfCause(e.extras) /\ e.grpc \notin Business \cup {"ABORTED"}

\* No coded error is one of the exceptions that have no code.
LEMMA CodedIsClassified ==
  ASSUME NEW code, NEW grpc, NEW extras, NEW type
  PROVE  /\ CodedError(code, grpc, extras) \notin {Unclassified, AnyOther}
         /\ [CodedError(code, grpc, extras) EXCEPT !.refusal = type]
              \notin {Unclassified, AnyOther}
<1>1. "grpc" \in DOMAIN CodedError(code, grpc, extras)
      /\ "grpc" \in DOMAIN [CodedError(code, grpc, extras) EXCEPT !.refusal = type]
  BY DEF CodedError
<1>2. "grpc" \notin DOMAIN Unclassified /\ "grpc" \notin DOMAIN AnyOther
  BY DEF Unclassified, AnyOther
<1> QED
  BY <1>1, <1>2

\* A coded error is answered as it is.
LEMMA EscapedIsItself ==
  ASSUME NEW e, e \notin {Unclassified, AnyOther}
  PROVE  escaped(e) = e
BY DEF escaped

\* What the empty map and the router's own maps are.
LEMMA SmallMaps ==
  ASSUME NEW Segment, OwnSegments \subseteq Segment
  PROVE  /\ IsMap({}, Segment) /\ OfCause({})
         /\ \A v : IsMap({<<Cause, v>>}, Segment) /\ OfCause({<<Cause, v>>})
         /\ \A n \in OwnSegments : \A v : IsMap({<<<<n>>, v>>}, Segment)
<1>1. \A n \in OwnSegments : <<n>> \in Seq(Segment) /\ <<n>> # <<>>
  OBVIOUS
<1>2. "cause" \in OwnSegments
  BY DEF OwnSegments
<1> QED
  BY <1>1, <1>2 DEF IsMap, OfCause, Cause

\* An exception without a code is answered as a coded error.
LEMMA EscapedIsMap ==
  ASSUME NEW Segment, OwnSegments \subseteq Segment, NEW e,
         \/ e \in {Unclassified, AnyOther}
         \/ CodedMap(e, Segment)
  PROVE  CodedMap(escaped(e), Segment)
<1>1. \/ escaped(e) = UnhandledError("INTERNAL", {})
      \/ escaped(e) = UnhandledError("INTERNAL", {<<Cause, "HANDLER_PANICKED">>})
      \/ escaped(e) = e /\ e \notin {Unclassified, AnyOther}
  BY DEF escaped
<1>2. "INTERNAL" \notin Business \cup {"ABORTED"}
  BY DEF Business
<1>3. ASSUME NEW m, IsMap(m, Segment), OfCause(m)
      PROVE  CodedMap(UnhandledError("INTERNAL", m), Segment)
  BY <1>2, <1>3 DEF CodedMap, UnhandledError, CodedError
<1> QED
  BY <1>1, <1>3, SmallMaps

\* The cause of a fold's failure is below "cause".
LEMMA CauseIsMap ==
  ASSUME NEW Segment, OwnSegments \subseteq Segment, NEW e,
         \/ e \in {Unclassified, AnyOther}
         \/ CodedMap(e, Segment)
  PROVE  IsMap(as_cause(e), Segment) /\ OfCause(as_cause(e))
<1>1. CodedMap(escaped(e), Segment)
  BY EscapedIsMap
<1>2. "cause" \in Segment
  BY DEF OwnSegments
<1> DEFINE coded == escaped(e)
<1>3. as_cause(e) = IF coded.code = "UNHANDLED_HANDLER_ERROR" THEN coded.extras
                    ELSE flatten(Cause, coded.code, coded.extras)
  BY DEF as_cause
<1>4. CodedMap(coded, Segment)
  BY <1>1
<1> HIDE DEF coded
<1>5. CASE coded.code = "UNHANDLED_HANDLER_ERROR"
  BY <1>3, <1>4, <1>5 DEF CodedMap, Unhandled
<1>6. CASE coded.code # "UNHANDLED_HANDLER_ERROR"
  <2>1. IsMap(coded.extras, Segment)
    BY <1>4 DEF CodedMap
  <2> QED
    BY <1>2, <1>3, <1>6, <2>1, FlattenIsMap
<1> QED
  BY <1>5, <1>6

\* The names of a fold's own args are not below "cause" (_fold_failed).
LEMMA FoldFailedIsMap ==
  ASSUME NEW Segment, OwnSegments \subseteq Segment, NEW e, NEW code,
         code # Unhandled,
         \/ e \in {Unclassified, AnyOther}
         \/ CodedMap(e, Segment)
  PROVE  CodedMap(FoldFailed(code, e), Segment)
<1> DEFINE own == {<<<<"sequence">>, "n">>, <<<<"type_url">>, "t">>,
                   <<<<"state_type_url">>, "s">>}
           cause == as_cause(e)
<1>1. IsMap(cause, Segment) /\ OfCause(cause)
  BY CauseIsMap
<1>2. FoldFailed(code, e).code = code /\ FoldFailed(code, e).extras = own \cup cause
  BY DEF FoldFailed, CodedError
<1>3. \A c \in own : c[1] \in Seq(Segment) /\ c[1] # <<>> /\ c[1][1] # "cause"
  <2>1. \A n \in Segment : <<n>> \in Seq(Segment) /\ <<n>> # <<>> /\ <<n>>[1] = n
    OBVIOUS
  <2>2. {"sequence", "type_url", "state_type_url"} \subseteq Segment
    BY DEF OwnSegments
  <2>3. \A c \in own : \E n \in {"sequence", "type_url", "state_type_url"} : c[1] = <<n>>
    OBVIOUS
  <2> HIDE DEF own
  <2> QED
    BY <2>1, <2>2, <2>3
<1>4. \A c, d \in own : c[1] = d[1] => c = d
  OBVIOUS
<1> HIDE DEF own, cause
<1>5. IsMap(own \cup cause, Segment)
  <2>1. ASSUME NEW c \in own \cup cause, NEW d \in own \cup cause, c[1] = d[1]
        PROVE  c = d
    BY <1>1, <1>3, <1>4, <2>1 DEF IsMap, OfCause
  <2>2. \A c \in own \cup cause : c[1] \in Seq(Segment) /\ c[1] # <<>>
    BY <1>1, <1>3 DEF IsMap
  <2> QED
    BY <2>1, <2>2 DEF IsMap
<1> QED
  BY <1>2, <1>5 DEF CodedMap

\* Whatever is raised, wherever, is answered with a map of args.
LEMMA AnswerIsMap ==
  ASSUME NEW Segment, OwnSegments \subseteq Segment, NEW e, NEW place \in Places,
         \/ e \in {Unclassified, AnyOther}
         \/ CodedMap(e, Segment)
  PROVE  CodedMap(Answer(place, e), Segment)
<1>1. CASE place = "handler"
  BY <1>1, EscapedIsMap DEF Answer
<1>2. CASE place # "handler"
  <2>1. place # Unhandled
    BY DEF Places, Unhandled
  <2> QED
    BY <1>2, <2>1, FoldFailedIsMap DEF Answer
<1> QED
  BY <1>1, <1>2

\* A coded error's answer carries what the error does.
LEMMA AnswerCarries ==
  ASSUME NEW Segment, OwnSegments \subseteq Segment, NEW e, NEW place \in Places,
         e \notin {Unclassified, AnyOther}, CodedMap(e, Segment),
         NEW key, NEW args, IsMap(args, Segment), key # Unhandled,
         Carries(key, args, e.code, e.extras)
  PROVE  Carries(key, args, Answer(place, e).code, Answer(place, e).extras)
<1>0. "cause" \in Segment /\ IsMap(e.extras, Segment)
  BY DEF OwnSegments, CodedMap
<1>1. escaped(e) = e
  BY EscapedIsItself
<1>2. CASE place = "handler"
  BY <1>1, <1>2 DEF Answer
<1>3. CASE place # "handler"
  <2>1. \E d \in as_cause(e) : d[2] = key /\ Under(d[1], args) \subseteq as_cause(e)
    <3>1. CASE e.code = "UNHANDLED_HANDLER_ERROR"
      BY <1>1, <3>1 DEF as_cause, Carries, Unhandled
    <3>2. CASE e.code # "UNHANDLED_HANDLER_ERROR"
      <4>1. as_cause(e) = flatten(Cause, e.code, e.extras)
        BY <1>1, <3>2 DEF as_cause
      <4> DEFINE m == e.extras
                 code == e.code
      <4>2. IsMap(m, Segment) /\ Carries(key, args, code, m)
        BY <1>0
      <4> HIDE DEF m, code
      <4>3. \E d \in flatten(Cause, code, m) :
              d[2] = key /\ Under(d[1], args) \subseteq flatten(Cause, code, m)
        BY <1>0, <4>2, FlattenCarries
      <4> QED
        BY <4>1, <4>3 DEF m, code
    <3> QED
      BY <3>1, <3>2
  <2>2. as_cause(e) \subseteq FoldFailed(place, e).extras
    BY DEF FoldFailed, CodedError
  <2>3. Answer(place, e) = FoldFailed(place, e)
    BY <1>3 DEF Answer
  <2> QED
    BY <2>1, <2>2, <2>3 DEF Carries
<1> QED
  BY <1>2, <1>3

\* A failure on the wire, and one in a caller's hands.
WireReason(Segment) ==
  /\ IsRpc(rpc)
  /\ rpc.trailer = <<>> => lost
  /\ rpc.trailer # <<>> =>
       LET info == rpc.trailer[1].details[1]
       IN  /\ rpc.trailer[1].details # <<>>
           /\ IsMap(info.metadata, Segment)
           /\ info.reason = Unhandled => rpc.code \notin Business \cup {"ABORTED"}
           /\ ~lost => Carries(origin.key, origin.args, info.reason, info.metadata)

SeenReason(Segment) ==
  /\ IsMap(seen.details, Segment)
  /\ seen.code = Unhandled => seen.grpc_code \notin Business \cup {"ABORTED"}
  /\ ~lost => Carries(origin.key, origin.args, seen.code, seen.details)

ReasonInv(Segment) ==
  /\ stage \in {"code", "wire", "seen"}
  /\ stage \in {"wire", "seen"} =>
       IsMap(origin.args, Segment) /\ (~lost => origin.key # Unhandled)
  /\ stage = "wire" => WireReason(Segment)
  /\ stage = "seen" => SeenReason(Segment)

\* What the host sends of an error is read back from its trailer
\* (CodedError.status, _Dispatcher.call, GRPCError).
LEMMA ReadBackReason ==
  ASSUME NEW e
  PROVE  /\ IsRpc(Aborted(e))
         /\ Aborted(e).trailer # <<>> /\ Aborted(e).code = e.grpc
         /\ Aborted(e).trailer[1].details # <<>>
         /\ Aborted(e).trailer[1].details[1].reason = e.code
         /\ Aborted(e).trailer[1].details[1].metadata = e.extras
<1>1. Aborted(e).trailer = <<Status(e)>> /\ Aborted(e).code = e.grpc
      /\ IsRpc(Aborted(e))
  BY DEF Aborted, IsRpc
<1>2. CASE e.refusal = Nothing
  BY <1>1, <1>2 DEF Status
<1>3. CASE e.refusal # Nothing
  BY <1>1, <1>3 DEF Status
<1> QED
  BY <1>2, <1>3

\* What is sent of an error is a map, and carries what its answer does.
LEMMA SendsReason ==
  ASSUME NEW Segment, OwnSegments \subseteq Segment, NEW e, NEW place \in Places,
         \/ e \in {Unclassified, AnyOther}
         \/ CodedMap(e, Segment),
         IsMap(origin'.args, Segment),
         ~lost' => /\ origin'.key # Unhandled
                   /\ e \notin {Unclassified, AnyOther} /\ CodedMap(e, Segment)
                   /\ Carries(origin'.key, origin'.args, e.code, e.extras),
         Sends(place, e)
  PROVE  ReasonInv(Segment)'
<1> DEFINE a == Answer(place, e)
<1>1. CodedMap(a, Segment)
  BY AnswerIsMap
<1>2. ~lost' => Carries(origin'.key, origin'.args, a.code, a.extras)
  BY AnswerCarries
<1>3. rpc' = Aborted(a) /\ stage' = "wire"
  BY DEF Sends
<1> HIDE DEF a
<1>4. WireReason(Segment)'
  BY <1>1, <1>2, <1>3, ReadBackReason DEF WireReason, CodedMap
<1> QED
  BY <1>3, <1>4 DEF ReasonInv

\* A failure given under a key of its own, or none, keeps it as it is sent.
LEMMA GivesReason ==
  ASSUME NEW Segment, OwnSegments \subseteq Segment,
         NEW e, NEW key, NEW args, NEW status,
         IsMap(args, Segment),
         \/ e \in {Unclassified, AnyOther} /\ key = Nothing
         \/ /\ e \notin {Unclassified, AnyOther} /\ CodedMap(e, Segment)
            /\ key # Unhandled /\ Carries(key, args, e.code, e.extras),
         Gives(e, key, args, status)
  PROVE  ReasonInv(Segment)'
<1>1. PICK place \in Places :
        /\ Sends(place, e)
        /\ origin' = [key |-> key, args |-> args,
                      status |-> IF place = "handler" THEN status ELSE "INTERNAL"]
  BY DEF Gives
<1>2. origin'.key = key /\ origin'.args = args /\ lost' = (key = Nothing)
  BY <1>1 DEF Gives
<1> QED
  BY <1>1, <1>2, SendsReason

\* So does one that could not be made of its args, as a panic.
LEMMA NamedReason ==
  ASSUME NEW Segment, OwnSegments \subseteq Segment,
         NEW e, NEW key, NEW args, NEW status, IsMap(args, Segment),
         Clash(args) => e = AnyOther,
         ~Clash(args) =>
           /\ e \notin {Unclassified, AnyOther} /\ CodedMap(e, Segment)
           /\ key # Unhandled /\ Carries(key, args, e.code, e.extras),
         Named(e, key, args, status)
  PROVE  ReasonInv(Segment)'
<1>1. CASE ~Clash(args)
  <2>1. Gives(e, key, args, status)
    BY <1>1 DEF Named
  <2> QED
    BY <1>1, <2>1, GivesReason
<1>2. CASE Clash(args)
  <2>1. Gives(AnyOther, Nothing, {}, "INTERNAL")
    BY <1>2 DEF Named
  <2>2. IsMap({}, Segment)
    BY SmallMaps
  <2> QED
    BY <2>1, <2>2, GivesReason
<1> QED
  BY <1>1, <1>2

\* So does one under a status the handler may not pick, as a panic.
LEMMA PickedReason ==
  ASSUME NEW Segment, OwnSegments \subseteq Segment,
         NEW e, NEW allowed, NEW key, NEW args, NEW status,
         IsMap(args, Segment),
         status \notin allowed => e = AnyOther,
         status \in allowed =>
           /\ e \notin {Unclassified, AnyOther} /\ CodedMap(e, Segment)
           /\ key # Unhandled /\ Carries(key, args, e.code, e.extras),
         Picked(e, allowed, key, args, status)
  PROVE  ReasonInv(Segment)'
<1>1. CASE status \in allowed
  <2>1. Gives(e, key, args, status)
    BY <1>1 DEF Picked
  <2> QED
    BY <1>1, <2>1, GivesReason
<1>2. CASE status \notin allowed
  <2>1. Gives(AnyOther, Nothing, {}, "INTERNAL")
    BY <1>2 DEF Picked
  <2>2. IsMap({}, Segment)
    BY SmallMaps
  <2>3. AnyOther \in {Unclassified, AnyOther}
    OBVIOUS
  <2> QED
    BY <2>1, <2>2, <2>3, GivesReason
<1> QED
  BY <1>1, <1>2

\* What an error coded under a key of business code's, with its args, is.
LEMMA CodedReason ==
  ASSUME NEW Segment, NEW key, NEW status, NEW args,
         key # Unhandled, IsMap(args, Segment)
  PROVE  LET e == CodedError(key, status, args)
         IN  /\ e \notin {Unclassified, AnyOther} /\ CodedMap(e, Segment)
             /\ Carries(key, args, e.code, e.extras)
<1> DEFINE e == CodedError(key, status, args)
<1>1. e.code = key /\ e.extras = args
  BY DEF CodedError
<1>2. e \notin {Unclassified, AnyOther}
  BY CodedIsClassified
<1> HIDE DEF e
<1>3. CodedMap(e, Segment) /\ Carries(key, args, e.code, e.extras)
  BY <1>1 DEF CodedMap, Carries
<1> QED
  BY <1>2, <1>3 DEF e

\* And one whose cause they are (Bug, RetryableBug).
LEMMA CausedReason ==
  ASSUME NEW Segment, OwnSegments \subseteq Segment, NEW key, NEW args,
         NEW status \in Retryable \cup {"INTERNAL"}, IsMap(args, Segment)
  PROVE  LET e == UnhandledError(status, flatten(Cause, key, args))
         IN  /\ e \notin {Unclassified, AnyOther} /\ CodedMap(e, Segment)
             /\ \A k, m : IsMap(m, Segment) /\ Carries(k, m, key, args) /\ k # Unhandled
                            => Carries(k, m, e.code, e.extras)
<1> DEFINE x == flatten(Cause, key, args)
           e == UnhandledError(status, x)
<1>0. "cause" \in Segment
  BY DEF OwnSegments
<1>1. IsMap(x, Segment) /\ OfCause(x)
  BY <1>0, FlattenIsMap
<1>2. \A k, m : IsMap(m, Segment) /\ Carries(k, m, key, args) =>
        \E d \in x : d[2] = k /\ Under(d[1], m) \subseteq x
  BY <1>0, FlattenCarries
<1> HIDE DEF x
<1>3. e.code = "UNHANDLED_HANDLER_ERROR" /\ e.extras = x /\ e.grpc = status
  BY DEF UnhandledError, CodedError
<1>4. e \notin {Unclassified, AnyOther}
  BY CodedIsClassified DEF UnhandledError
<1>5. status \notin Business \cup {"ABORTED"}
  BY DEF Business, Retryable
<1> HIDE DEF e
<1>6. CodedMap(e, Segment)
  BY <1>1, <1>3, <1>5 DEF CodedMap
<1>7. \A k, m : IsMap(m, Segment) /\ Carries(k, m, key, args) /\ k # Unhandled
                  => Carries(k, m, e.code, e.extras)
  BY <1>2, <1>3 DEF Carries
<1> QED
  BY <1>4, <1>6, <1>7 DEF e, x

\* A component that passes on what it saw keeps the key, or names it as a
\* cause (external code, after the client's predicates).
LEMMA PassedOnReason ==
  ASSUME NEW Segment, OwnSegments \subseteq Segment,
         SeenReason(Segment), IsMap(origin.args, Segment),
         ~lost => origin.key # Unhandled,
         PassedOn(seen) # AnyOther
  PROVE  /\ PassedOn(seen) \notin {Unclassified, AnyOther}
         /\ CodedMap(PassedOn(seen), Segment)
         /\ ~lost => Carries(origin.key, origin.args,
                             PassedOn(seen).code, PassedOn(seen).extras)
<1> DEFINE code == seen.code
           details == seen.details
           e == PassedOn(seen)
<1>1. /\ IsMap(details, Segment)
      /\ code = Unhandled => seen.grpc_code \notin Business \cup {"ABORTED"}
      /\ ~lost => Carries(origin.key, origin.args, code, details)
  BY DEF SeenReason
<1>2. ASSUME NEW status \in Business \cup {"ABORTED"}, seen.grpc_code = status,
             e = CodedError(code, status, details)
      PROVE  /\ e \notin {Unclassified, AnyOther} /\ CodedMap(e, Segment)
             /\ e.code = code /\ e.extras = details
  <2>1. code # Unhandled
    BY <1>1, <1>2
  <2> HIDE DEF code, details
  <2>2. LET c == CodedError(code, status, details)
        IN  /\ c \notin {Unclassified, AnyOther} /\ CodedMap(c, Segment)
            /\ Carries(code, details, c.code, c.extras)
    BY <1>1, <2>1, CodedReason
  <2>3. /\ CodedError(code, status, details).code = code
        /\ CodedError(code, status, details).extras = details
    BY DEF CodedError
  <2> HIDE DEF e
  <2> QED
    BY <1>2, <2>2, <2>3
<1>3. ASSUME NEW status \in Retryable \cup {"INTERNAL"},
             e = UnhandledError(status, flatten(Cause, code, details))
      PROVE  /\ e \notin {Unclassified, AnyOther} /\ CodedMap(e, Segment)
             /\ ~lost => Carries(origin.key, origin.args, e.code, e.extras)
  <2> HIDE DEF code, details, e
  <2>1. LET c == UnhandledError(status, flatten(Cause, code, details))
        IN  /\ c \notin {Unclassified, AnyOther} /\ CodedMap(c, Segment)
            /\ \A k, m : IsMap(m, Segment) /\ Carries(k, m, code, details) /\ k # Unhandled
                           => Carries(k, m, c.code, c.extras)
    BY <1>1, CausedReason
  <2> QED
    BY <1>1, <1>3, <2>1
<1>4. \/ seen.grpc_code = "ABORTED" /\ e = CodedError(code, "ABORTED", details)
      \/ e = UnhandledError("UNAVAILABLE", flatten(Cause, code, details))
      \/ \E status \in Business :
           seen.grpc_code = status /\ e = CodedError(code, status, details)
      \/ e = UnhandledError("INTERNAL", flatten(Cause, code, details))
  <2>1. /\ \A k, m : RetryableBug(k, "UNAVAILABLE", m)
                       = UnhandledError("UNAVAILABLE", flatten(Cause, k, m))
        /\ \A k, m : \A status \in Business :
             Rejection(k, status, m) = CodedError(k, status, m)
    BY DEF RetryableBug, Retryable, Rejection
  <2>2. CASE is_aborted(seen)
    <3>1. e = Immediate(code, details)
      BY <2>2 DEF PassedOn
    <3> QED
      BY <2>2, <3>1, ClashOrCoded DEF is_aborted
  <2>3. CASE ~is_aborted(seen) /\ is_connection_error(seen)
    BY <2>1, <2>3 DEF PassedOn
  <2>4. CASE /\ ~is_aborted(seen) /\ ~is_connection_error(seen)
             /\ \/ is_not_found(seen) \/ is_precondition_failed(seen)
                \/ is_invalid_argument(seen)
    <3>1. seen.grpc_code \in Business
      BY <2>4 DEF is_not_found, is_precondition_failed, is_invalid_argument, Business
    <3> QED
      BY <2>1, <2>4, <3>1 DEF PassedOn
  <2>5. CASE /\ ~is_aborted(seen) /\ ~is_connection_error(seen)
             /\ ~is_not_found(seen) /\ ~is_precondition_failed(seen)
             /\ ~is_invalid_argument(seen)
    <3>1. e = Bug(code, details)
      BY <2>5 DEF PassedOn
    <3> QED
      BY <3>1, ClashOrCoded
  <2> QED
    BY <2>2, <2>3, <2>4, <2>5
<1>5. "UNAVAILABLE" \in Retryable \cup {"INTERNAL"}
      /\ "INTERNAL" \in Retryable \cup {"INTERNAL"}
      /\ "ABORTED" \in Business \cup {"ABORTED"}
  BY DEF Retryable
<1> HIDE DEF e, code, details
<1>6. /\ e \notin {Unclassified, AnyOther} /\ CodedMap(e, Segment)
      /\ ~lost => Carries(origin.key, origin.args, e.code, e.extras)
  <2>1. CASE seen.grpc_code = "ABORTED" /\ e = CodedError(code, "ABORTED", details)
    BY <1>1, <1>2, <1>5, <2>1
  <2>2. CASE e = UnhandledError("UNAVAILABLE", flatten(Cause, code, details))
    BY <1>3, <1>5, <2>2
  <2>3. ASSUME NEW status \in Business, seen.grpc_code = status,
               e = CodedError(code, status, details)
        PROVE  /\ e \notin {Unclassified, AnyOther} /\ CodedMap(e, Segment)
               /\ e.code = code /\ e.extras = details
    BY <1>2, <2>3
  <2>4. CASE e = UnhandledError("INTERNAL", flatten(Cause, code, details))
    BY <1>3, <1>5, <2>4
  <2> QED
    BY <1>1, <1>4, <2>1, <2>2, <2>3, <2>4
<1> QED
  BY <1>6 DEF e

\* The helpers reject under keys and names of the library's (validation.py).
LEMMA HelperNames == \A h \in Helpers : h.key # Unhandled /\ h.arg \in OwnSegments
<1>1. ASSUME NEW refuses, NEW key, NEW status, NEW arg
      PROVE  Helper(refuses, key, status, arg).key = key
             /\ Helper(refuses, key, status, arg).arg = arg
  BY DEF Helper
<1>2. ASSUME NEW h \in Helpers
      PROVE  \E key, arg : /\ key # Unhandled /\ arg \in OwnSegments
                           /\ \E refuses, status : h = Helper(refuses, key, status, arg)
  <2>1. /\ {"context", "field"} \subseteq OwnSegments
        /\ Unhandled \notin {"ENTITY_NOT_FOUND", "ENTITY_ALREADY_EXISTS",
             "VALUE_NOT_POSITIVE", "VALUE_NOT_NON_NEGATIVE", "COLLECTION_EMPTY",
             "VALUE_EMPTY", "STATUS_MISMATCH", "STATUS_FORBIDDEN"}
    BY DEF OwnSegments, Unhandled
  <2> QED BY <2>1, Zenon DEF Helpers
<1> QED BY <1>1, <1>2

LEMMA SeesNothing ==
  ASSUME NEW r, IsRpc(r)
  PROVE  ClientSees(r, <<>>).code = "GRPC_ERROR" /\ ClientSees(r, <<>>).details = {}
BY SeesAnswer DEF GRPCError, RpcStatus

LEMMA SeesTrailer ==
  ASSUME NEW r, IsRpc(r), r.trailer # <<>>, r.trailer[1].details # <<>>
  PROVE  /\ ClientSees(r, r.trailer).code = r.trailer[1].details[1].reason
         /\ ClientSees(r, r.trailer).details = r.trailer[1].details[1].metadata
         /\ ClientSees(r, r.trailer).grpc_code = r.code
BY SeesAnswer DEF GRPCError, RpcStatus

\* Every step keeps the reason where a reader of it looks.
LEMMA ReasonStep ==
  ASSUME NEW Segment, GivesMaps(Segment), ReasonInv(Segment),
         [ErrorNext]_errorVars
  PROVE  ReasonInv(Segment)'
<1>0. /\ OwnSegments \subseteq Segment /\ "cause" \in Segment
      /\ \A args \in Given : IsMap(args, Segment)
      /\ \A key \in Key : key # Unhandled
      /\ IsMap({}, Segment)
  BY SmallMaps DEF GivesMaps, OwnSegments
<1>1. CASE Rejects
  <2>1. PICK key \in Key, args \in Given, status \in GrpcCode :
          Picked(Rejection(key, status, args), Business, key, args, status)
    BY <1>1 DEF Rejects
  <2>2. /\ status \in Business => Rejection(key, status, args) = CodedError(key, status, args)
        /\ status \notin Business => Rejection(key, status, args) = AnyOther
    BY DEF Rejection
  <2>3. LET e == CodedError(key, status, args)
        IN  /\ e \notin {Unclassified, AnyOther} /\ CodedMap(e, Segment)
            /\ Carries(key, args, e.code, e.extras)
    BY <1>0, CodedReason
  <2> QED
    BY <1>0, <2>1, <2>2, <2>3, PickedReason
<1>2. CASE Validates
  <2>1. PICK h \in Helpers :
          LET args == {<<<<h.arg>>, "name">>}
          IN  Gives(Rejection(h.key, h.status, args), h.key, args, h.status)
    BY <1>2 DEF Validates
  <2> DEFINE args == {<<<<h.arg>>, "name">>}
             key == h.key
             status == h.status
             arg == h.arg
  <2>2. status \in Business
    BY HelpersReject
  <2>3. key # Unhandled /\ arg \in OwnSegments
    BY HelperNames
  <2>4. Gives(Rejection(key, status, args), key, args, status)
    BY <2>1
  <2>5. IsMap(args, Segment)
    BY <1>0, <2>3, SmallMaps
  <2> HIDE DEF args, key, status
  <2>6. LET e == CodedError(key, status, args)
        IN  /\ e \notin {Unclassified, AnyOther} /\ CodedMap(e, Segment)
            /\ Carries(key, args, e.code, e.extras)
    BY <1>0, <2>3, <2>5, CodedReason
  <2>7. Rejection(key, status, args) = CodedError(key, status, args)
    BY <2>2 DEF Rejection
  <2> QED
    BY <1>0, <2>3, <2>4, <2>5, <2>6, <2>7, GivesReason
<1>3. CASE Refuses
  <2>1. PICK type \in Refusal, status \in GrpcCode :
          Picked(Refused(type, status), Business, "COMMAND_REFUSED",
                 {<<<<"refusal_type">>, type>>}, status)
    BY <1>3 DEF Refuses
  <2> DEFINE args == {<<<<"refusal_type">>, type>>}
             e == Refused(type, status)
  <2>2. status \notin Business => e = AnyOther
    BY DEF Refused
  <2>3. IsMap(args, Segment)
    BY <1>0, SmallMaps DEF OwnSegments
  <2>4. ASSUME status \in Business
        PROVE  e.code = "COMMAND_REFUSED" /\ e.extras = args
               /\ e \notin {Unclassified, AnyOther}
    BY <2>4, CodedIsClassified DEF Refused, CodedError
  <2>5. Picked(e, Business, "COMMAND_REFUSED", args, status)
    BY <2>1
  <2> HIDE DEF e, args
  <2>6. status \in Business =>
          /\ e \notin {Unclassified, AnyOther} /\ CodedMap(e, Segment)
          /\ Carries("COMMAND_REFUSED", args, e.code, e.extras)
    BY <2>3, <2>4 DEF CodedMap, Carries, Unhandled
  <2>7. "COMMAND_REFUSED" # Unhandled
    BY DEF Unhandled
  <2> QED
    BY <1>0, <2>2, <2>3, <2>5, <2>6, <2>7, PickedReason
<1>4. CASE ReReads
  <2>1. PICK key \in Key, args \in Given :
          Named(Immediate(key, args), key, args, "ABORTED")
    BY <1>4 DEF ReReads
  <2>2. LET e == CodedError(key, "ABORTED", args)
        IN  /\ e \notin {Unclassified, AnyOther} /\ CodedMap(e, Segment)
            /\ Carries(key, args, e.code, e.extras)
    BY <1>0, CodedReason
  <2> QED
    BY <1>0, <2>1, <2>2, ClashOrCoded, NamedReason
<1>5. CASE HasBug
  <2>1. PICK key \in Key, args \in Given :
          \/ Named(Bug(key, args), key, args, "INTERNAL")
          \/ \E status \in GrpcCode :
               Picked(RetryableBug(key, status, args), Retryable, key, args, status)
    BY <1>5 DEF HasBug
  <2>2. ASSUME NEW status \in Retryable \cup {"INTERNAL"}
        PROVE  LET e == UnhandledError(status, flatten(Cause, key, args))
               IN  /\ e \notin {Unclassified, AnyOther} /\ CodedMap(e, Segment)
                   /\ Carries(key, args, e.code, e.extras)
    <3>1. IsMap(args, Segment) /\ key # Unhandled /\ Carries(key, args, key, args)
      BY <1>0 DEF Carries
    <3> QED
      BY <1>0, <2>2, <3>1, CausedReason
  <2>3. CASE Named(Bug(key, args), key, args, "INTERNAL")
    BY <1>0, <2>2, <2>3, ClashOrCoded, NamedReason
  <2>4. ASSUME NEW status \in GrpcCode,
               Picked(RetryableBug(key, status, args), Retryable, key, args, status)
        PROVE  ReasonInv(Segment)'
    <3>1. /\ status \in Retryable => RetryableBug(key, status, args)
                                       = UnhandledError(status, flatten(Cause, key, args))
          /\ status \notin Retryable => RetryableBug(key, status, args) = AnyOther
      BY DEF RetryableBug
    <3> QED
      BY <1>0, <2>2, <2>4, <3>1, PickedReason
  <2> QED
    BY <2>1, <2>3, <2>4
<1>6. CASE Escapes
  <2>1. PICK e \in {Unclassified, AnyOther} : Gives(e, Nothing, {}, "INTERNAL")
    BY <1>6 DEF Escapes
  <2> QED
    BY <1>0, <2>1, GivesReason
<1>7. CASE RouterFails
  <2>1. PICK code \in {"PERSISTED_EVENT_CORRUPT", "NO_COMPONENT_OF_KIND", "ANY_DECODE_FAILED"} :
          /\ rpc' = Aborted(CodedError(code, declared_status(code), {}))
          /\ origin' = [key |-> code, args |-> {}, status |-> declared_status(code)]
    BY <1>7 DEF RouterFails
  <2> DEFINE e == CodedError(code, declared_status(code), {})
  <2>2. e.code = code /\ e.extras = {} /\ code # Unhandled
    BY DEF CodedError, Unhandled
  <2>3. rpc' = Aborted(e) /\ origin'.key = code /\ origin'.args = {}
    BY <2>1
  <2>4. stage' = "wire"
    BY <1>7 DEF RouterFails
  <2> HIDE DEF e
  <2>5. WireReason(Segment)'
    BY <1>0, <2>2, <2>3, ReadBackReason DEF WireReason, Carries
  <2> QED
    BY <1>0, <2>2, <2>3, <2>4, <2>5 DEF ReasonInv
<1>8. CASE LinkFails
  <2>1. /\ rpc'.trailer = <<>> /\ origin'.args = {} /\ lost' = TRUE
        /\ stage' = "wire" /\ IsRpc(rpc')
    BY <1>8 DEF LinkFails, IsRpc
  <2> QED
    BY <1>0, <2>1 DEF ReasonInv, WireReason
<1>9. CASE ChannelIsClosed
  <2>1. /\ seen' = TransportError /\ origin'.args = {} /\ lost' = TRUE
        /\ stage' = "seen"
    BY <1>9 DEF ChannelIsClosed
  <2>2. IsMap(TransportError.details, Segment) /\ TransportError.code # Unhandled
    BY <1>0, SmallMaps DEF TransportError, OwnSegments, Unhandled
  <2> QED
    BY <1>0, <2>1, <2>2 DEF ReasonInv, SeenReason
<1>10. CASE Arrives
  <2>1. PICK trailer \in {rpc.trailer, <<>>} :
          /\ seen' = GRPCError([rpc EXCEPT !.trailer = trailer])
          /\ lost' = (lost \/ trailer # rpc.trailer)
    BY <1>10 DEF Arrives
  <2>2. /\ stage = "wire" /\ stage' = "seen" /\ UNCHANGED <<origin, rpc>>
        /\ WireReason(Segment)
    BY <1>10 DEF Arrives, ReasonInv
  <2>3. seen' = ClientSees(rpc, trailer) /\ IsRpc(rpc)
    BY <2>1, <2>2 DEF ClientSees, WireReason
  <2>4. CASE trailer = <<>>
    <3>1. seen'.code = "GRPC_ERROR" /\ seen'.details = {}
      BY <2>3, <2>4, SeesNothing
    <3>2. lost'
      BY <2>1, <2>2, <2>4 DEF WireReason
    <3>3. SeenReason(Segment)'
      BY <1>0, <3>1, <3>2 DEF SeenReason, Unhandled
    <3> QED
      BY <2>2, <3>2, <3>3 DEF ReasonInv
  <2>5. CASE trailer # <<>>
    <3>1. trailer = rpc.trailer /\ rpc.trailer # <<>> /\ (~lost' => ~lost)
      BY <2>1, <2>5
    <3>2. rpc.trailer[1].details # <<>>
      BY <2>2, <3>1 DEF WireReason
    <3>3. /\ seen'.code = rpc.trailer[1].details[1].reason
          /\ seen'.details = rpc.trailer[1].details[1].metadata
          /\ seen'.grpc_code = rpc.code
      BY <2>3, <3>1, <3>2, SeesTrailer
    <3>4. SeenReason(Segment)'
      BY <2>2, <3>1, <3>3 DEF WireReason, SeenReason
    <3> QED
      BY <2>2, <3>1, <3>4 DEF ReasonInv
  <2> QED
    BY <2>4, <2>5
<1>11. CASE PassesOn
  <2>1. PICK place \in Places, e \in {PassedOn(seen), AnyOther} :
          Sends(place, e) /\ lost' = (lost \/ e = AnyOther)
    BY <1>11 DEF PassesOn
  <2>2. /\ stage = "seen" /\ origin' = origin
        /\ SeenReason(Segment) /\ IsMap(origin.args, Segment)
        /\ ~lost => origin.key # Unhandled
    BY <1>11 DEF PassesOn, ReasonInv
  <2>3. ASSUME PassedOn(seen) # AnyOther
        PROVE  /\ PassedOn(seen) \notin {Unclassified, AnyOther}
               /\ CodedMap(PassedOn(seen), Segment)
               /\ ~lost => Carries(origin.key, origin.args,
                                   PassedOn(seen).code, PassedOn(seen).extras)
    BY <1>0, <2>2, <2>3, PassedOnReason
  <2>4. CASE e = AnyOther
    <3>1. lost' /\ e \in {Unclassified, AnyOther} /\ IsMap(origin'.args, Segment)
      BY <2>1, <2>2, <2>4
    <3> QED
      BY <1>0, <2>1, <3>1, SendsReason
  <2>5. CASE e # AnyOther /\ e = PassedOn(seen)
    <3>1. /\ CodedMap(e, Segment) /\ IsMap(origin'.args, Segment)
          /\ ~lost' => /\ origin'.key # Unhandled
                       /\ e \notin {Unclassified, AnyOther} /\ CodedMap(e, Segment)
                       /\ Carries(origin'.key, origin'.args, e.code, e.extras)
      BY <2>1, <2>2, <2>3, <2>5
    <3> QED
      BY <1>0, <2>1, <3>1, SendsReason
  <2> QED
    BY <2>4, <2>5
<1>12. CASE Stops \/ UNCHANGED errorVars
  BY <1>12 DEF Stops, errorVars, ReasonInv, WireReason, SeenReason
<1> QED
  BY <1>1, <1>2, <1>3, <1>4, <1>5, <1>6, <1>7, <1>8, <1>9, <1>10, <1>11, <1>12
     DEF ErrorNext

\* The reason a failure was given, and its args under their names, are where
\* the one after looks for them, in every reachable state.
THEOREM ReasonInvariant ==
  ASSUME NEW Segment, GivesMaps(Segment)
  PROVE  ErrorSpec => []ReasonInv(Segment)
<1>1. ErrorInit => ReasonInv(Segment)
  BY DEF ErrorInit, ReasonInv
<1>2. ReasonInv(Segment) /\ [ErrorNext]_errorVars => ReasonInv(Segment)'
  BY ReasonStep
<1> QED
  BY <1>1, <1>2, PTL DEF ErrorSpec

\* The key a failure was given is in what a caller sees, with its args, as
\* the code or as a cause, and no arg takes another's name (router/errors.py
\* flatten; errors.py GRPCError), through any number of components.
THEOREM ReasonIsKept ==
  ASSUME NEW Segment, GivesMaps(Segment)
  PROVE  ErrorSpec => []ReasonSurvives
<1>1. ReasonInv(Segment) => ReasonSurvives
  BY DEF ReasonInv, SeenReason, ReasonSurvives, IsMap, Carries
<1> QED
  BY <1>1, ReasonInvariant, PTL
----------------------------------------------------------------------------
(* A process manager's compensation. *)

\* The events a process manager records of its compensation.
Event == {Failed} \cup {Done(s) : s \in Step} \cup {Undo(s) : s \in Step}
                  \cup {CompensationFailed(s) : s \in Step}

\* They are told apart by their types and steps.
LEMMA EventsDiffer ==
  /\ \A s : Done(s) # Failed /\ Undo(s) # Failed /\ CompensationFailed(s) # Failed
  /\ \A s, t : /\ Done(s) # Undo(t) /\ Done(s) # CompensationFailed(t)
               /\ Undo(s) # CompensationFailed(t)
               /\ Done(s) = Done(t) => s = t
               /\ Undo(s) = Undo(t) => s = t
               /\ CompensationFailed(s) = CompensationFailed(t) => s = t
<1>1. /\ Failed.type = "failed"
      /\ \A s : /\ Done(s).type = "done" /\ Done(s).step = s
                /\ Undo(s).type = "undo" /\ Undo(s).step = s
                /\ CompensationFailed(s).type = "compensation_failed"
                /\ CompensationFailed(s).step = s
  BY DEF Failed, Done, Undo, CompensationFailed
<1>2. /\ "done" # "failed" /\ "undo" # "failed" /\ "compensation_failed" # "failed"
      /\ "done" # "undo" /\ "done" # "compensation_failed"
      /\ "undo" # "compensation_failed"
  OBVIOUS
<1>3. \A s : Done(s) # Failed /\ Undo(s) # Failed /\ CompensationFailed(s) # Failed
  BY <1>1, <1>2
<1>4. \A s, t : /\ Done(s) # Undo(t) /\ Done(s) # CompensationFailed(t)
                /\ Undo(s) # CompensationFailed(t)
  BY <1>1, <1>2
<1>5. \A s, t : Done(s) = Done(t) => s = t
  BY <1>1
<1>6. \A s, t : Undo(s) = Undo(t) => s = t
  BY <1>1
<1>7. \A s, t : CompensationFailed(s) = CompensationFailed(t) => s = t
  BY <1>1
<1> QED
  BY <1>3, <1>4, <1>5, <1>6, <1>7, Zenon

LEMMA EventType ==
  /\ Failed \in Event
  /\ \A s \in Step : /\ Done(s) \in Event /\ Undo(s) \in Event
                     /\ CompensationFailed(s) \in Event
BY DEF Event

\* e is in the sequence j, and no two places of j have it.
Has(j, e)  == \E n \in 1..Len(j) : j[n] = e
Once(j, e) == \A m, n \in 1..Len(j) : j[m] = e /\ j[n] = e => m = n

\* What is recorded after a journal, and what was in it.
LEMMA Recording ==
  ASSUME NEW E, NEW j \in Seq(E), NEW x \in Seq(E)
  PROVE  /\ j \o x \in Seq(E)
         /\ Len(j \o x) = Len(j) + Len(x)
         /\ Len(j) \in Nat /\ Len(x) \in Nat
         /\ \A n \in 1..Len(j) : (j \o x)[n] = j[n]
         /\ \A n \in 1..Len(x) : (j \o x)[Len(j) + n] = x[n]
OBVIOUS

\* A place of a longer journal is one of the journal's or of what follows.
LEMMA PlaceRecorded ==
  ASSUME NEW E, NEW j \in Seq(E), NEW x \in Seq(E)
  PROVE  \A n \in 1..Len(j \o x) :
           \/ n \in 1..Len(j) /\ (j \o x)[n] = j[n]
           \/ \E i \in 1..Len(x) : n = Len(j) + i /\ (j \o x)[n] = x[i]
<1> TAKE n \in 1..Len(j \o x)
<1>1. CASE n <= Len(j)
  <2>1. n \in 1..Len(j)
    BY <1>1, Recording
  <2> QED
    BY <2>1, Recording
<1>2. CASE n > Len(j)
  <2> DEFINE i == n - Len(j)
  <2>1. i \in 1..Len(x) /\ n = Len(j) + i
    BY <1>2, Recording
  <2> QED
    BY <2>1, Recording
<1> QED
  BY <1>1, <1>2, Recording

LEMMA HasRecorded ==
  ASSUME NEW E, NEW j \in Seq(E), NEW x \in Seq(E)
  PROVE  \A e : Has(j \o x, e) <=> Has(j, e) \/ Has(x, e)
<1> TAKE e
<1>1. ASSUME Has(j \o x, e) PROVE Has(j, e) \/ Has(x, e)
  BY <1>1, PlaceRecorded DEF Has
<1>2. ASSUME NEW n \in 1..Len(j), j[n] = e PROVE Has(j \o x, e)
  <2>1. n \in 1..Len(j \o x) /\ (j \o x)[n] = e
    BY <1>2, Recording
  <2> QED
    BY <2>1 DEF Has
<1>3. ASSUME NEW n \in 1..Len(x), x[n] = e PROVE Has(j \o x, e)
  <2> DEFINE m == Len(j) + n
  <2>1. m \in 1..Len(j \o x) /\ (j \o x)[m] = e
    BY <1>3, Recording
  <2> QED
    BY <2>1 DEF Has
<1> QED
  BY <1>1, <1>2, <1>3 DEF Has

LEMMA OnceRecorded ==
  ASSUME NEW E, NEW j \in Seq(E), NEW x \in Seq(E), NEW e,
         Once(j, e), Once(x, e), ~(Has(j, e) /\ Has(x, e))
  PROVE  Once(j \o x, e)
<1> DEFINE z == j \o x
<1>1. SUFFICES ASSUME NEW m \in 1..Len(z), NEW n \in 1..Len(z), z[m] = e, z[n] = e
               PROVE  m = n
  BY DEF Once
<1>2. \/ m \in 1..Len(j) /\ z[m] = j[m]
      \/ \E i \in 1..Len(x) : m = Len(j) + i /\ z[m] = x[i]
  BY PlaceRecorded
<1>3. \/ n \in 1..Len(j) /\ z[n] = j[n]
      \/ \E i \in 1..Len(x) : n = Len(j) + i /\ z[n] = x[i]
  BY PlaceRecorded
<1> HIDE DEF z
<1> QED
  BY <1>1, <1>2, <1>3 DEF Once, Has

\* What a sequence of one event, and of two, has.
LEMMA HasFew ==
  \A a, b, e : /\ Has(<<a>>, e) <=> e = a
               /\ Has(<<a, b>>, e) <=> e = a \/ e = b
               /\ ~Has(<<>>, e) /\ Once(<<>>, e) /\ Once(<<a>>, e)
               /\ a # b => Once(<<a, b>>, e)
BY DEF Has, Once

\* What a handling records has.
LEMMA EventsHave ==
  /\ \A s, e : (Has(<<Done(s)>>, e) <=> e = Done(s)) /\ Once(<<Done(s)>>, e)
  /\ \A s, e : Has(<<CompensationFailed(s)>>, e) <=> e = CompensationFailed(s)
  /\ \A s, t, e : /\ Has(<<Done(s), Undo(t)>>, e) <=> e = Done(s) \/ e = Undo(t)
                  /\ Once(<<Done(s), Undo(t)>>, e)
<1>1. ASSUME NEW s, NEW e
      PROVE  (Has(<<Done(s)>>, e) <=> e = Done(s)) /\ Once(<<Done(s)>>, e)
  <2> DEFINE a == Done(s)
  <2> HIDE DEF a
  <2>1. (Has(<<a>>, e) <=> e = a) /\ Once(<<a>>, e)
    BY HasFew
  <2> QED
    BY <2>1 DEF a
<1>2. ASSUME NEW s, NEW e
      PROVE  Has(<<CompensationFailed(s)>>, e) <=> e = CompensationFailed(s)
  <2> DEFINE a == CompensationFailed(s)
  <2> HIDE DEF a
  <2>1. Has(<<a>>, e) <=> e = a
    BY HasFew
  <2> QED
    BY <2>1 DEF a
<1>3. ASSUME NEW s, NEW t, NEW e
      PROVE  /\ Has(<<Done(s), Undo(t)>>, e) <=> e = Done(s) \/ e = Undo(t)
             /\ Once(<<Done(s), Undo(t)>>, e)
  <2> DEFINE a == Done(s)
             b == Undo(t)
  <2>1. a # b
    BY EventsDiffer
  <2> HIDE DEF a, b
  <2>2. (Has(<<a, b>>, e) <=> e = a \/ e = b) /\ Once(<<a, b>>, e)
    BY <2>1, HasFew
  <2> QED
    BY <2>2 DEF a, b
<1> QED
  BY <1>1, <1>2, <1>3
----------------------------------------------------------------------------
\* The undos due with one more step registered.
Due(s, due, done) == IF s \in done THEN <<Undo(s)>> \o due ELSE due

\* f holds the undos due of the first steps, up to the n-th.
IsDue(f, registered, done, n) ==
  f = [k \in 0..n |->
         IF k = 0 THEN <<>> ELSE Due(registered[k], f[k - 1], done)]

\* u undoes, of the first k steps registered, those done and no others, the
\* newest first: place says which step each of its undos is of.
NewestUndone(u, place, registered, done, k) ==
  /\ u \in Seq(Event)
  /\ \A n \in 1..Len(u) :
       place[n] \in 1..k /\ registered[place[n]] \in done /\ u[n] = Undo(registered[place[n]])
  /\ \A m, n \in 1..Len(u) : m < n => place[m] > place[n]
  /\ \A i \in 1..k : registered[i] \in done => \E n \in 1..Len(u) : place[n] = i

LEMMA DueExists ==
  ASSUME NEW registered, NEW done, NEW n \in Nat
  PROVE  \E f : IsDue(f, registered, done, n)
<1> DEFINE T == {k \in Nat : \E f : IsDue(f, registered, done, k)}
<1>1. 0 \in T
  <2>1. IsDue([m \in 0..0 |-> <<>>], registered, done, 0)
    BY DEF IsDue
  <2> QED
    BY <2>1
<1>2. ASSUME NEW k \in Nat, k \in T PROVE k + 1 \in T
  <2>1. PICK f : IsDue(f, registered, done, k)
    BY <1>2
  <2> DEFINE g == [m \in 0..(k + 1) |->
                     IF m = k + 1 THEN Due(registered[k + 1], f[k], done)
                                  ELSE f[m]]
  <2>2. IsDue(g, registered, done, k + 1)
    BY <2>1 DEF IsDue
  <2> HIDE DEF g
  <2> QED
    BY <2>2
<1> HIDE DEF T
<1>3. n \in T
  BY <1>1, <1>2, NatInduct
<1> QED
  BY <1>3 DEF T

\* rollback's loop over the steps registered, from the newest.
LEMMA UndosAreNewestFirst ==
  ASSUME NEW registered \in Seq(Step), NEW done
  PROVE  \E place : NewestUndone(UndosOf(registered, done), place,
                              registered, done, Len(registered))
<1> DEFINE l == Len(registered)
           f == CHOOSE g : IsDue(g, registered, done, l)
<1>1. l \in Nat /\ \A k \in 1..l : registered[k] \in Step
  OBVIOUS
<1>2. IsDue(f, registered, done, l)
  BY <1>1, DueExists, Zenon
<1>3. UndosOf(registered, done) = f[l]
  BY Zenon DEF UndosOf, IsDue, Due
<1> HIDE DEF l, f
<1> DEFINE T == {k \in Nat :
                   k <= l => \E place : NewestUndone(f[k], place, registered, done, k)}
<1>4. 0 \in T
  <2>1. f[0] = <<>>
    BY <1>1, <1>2 DEF IsDue
  <2>2. NewestUndone(<<>>, <<>>, registered, done, 0)
    BY DEF NewestUndone
  <2> QED
    BY <2>1, <2>2
<1>5. ASSUME NEW k \in Nat, k \in T, k + 1 <= l
      PROVE  \E place : NewestUndone(f[k + 1], place, registered, done, k + 1)
  <2>1. PICK place : NewestUndone(f[k], place, registered, done, k)
    BY <1>1, <1>5
  <2> DEFINE s == registered[k + 1]
             u == f[k]
             v == f[k + 1]
  <2>2. v = IF s \in done THEN <<Undo(s)>> \o u ELSE u
    <3>1. f[k + 1] = Due(registered[k + 1], f[k], done)
      BY <1>1, <1>2, <1>5 DEF IsDue
    <3> QED
      BY <3>1 DEF Due
  <2>3. s \in Step
    BY <1>1, <1>5
  <2>4. CASE s \notin done
    <3>1. NewestUndone(u, place, registered, done, k + 1)
      BY <2>1, <2>4 DEF NewestUndone
    <3> QED
      BY <2>2, <2>4, <3>1
  <2>5. CASE s \in done
    <3> DEFINE a == [n \in 1..(Len(u) + 1) |-> IF n = 1 THEN k + 1 ELSE place[n - 1]]
    <3>1. /\ u \in Seq(Event) /\ Len(u) \in Nat
          /\ <<Undo(s)>> \in Seq(Event)
      BY <2>1, <2>3, EventType DEF NewestUndone
    <3>2. v = <<Undo(s)>> \o u
      BY <2>2, <2>5
    <3> HIDE DEF u, v
    <3>3. /\ v \in Seq(Event) /\ Len(v) = Len(u) + 1 /\ v[1] = Undo(s)
      BY <3>1, <3>2
    <3>4. ASSUME NEW n \in 1..Len(u) PROVE v[n + 1] = u[n]
      BY <3>1, <3>2
    <3>5. ASSUME NEW n \in 1..Len(v), n # 1
          PROVE  n - 1 \in 1..Len(u) /\ v[n] = u[n - 1] /\ a[n] = place[n - 1]
      <4>1. n - 1 \in 1..Len(u) /\ (n - 1) + 1 = n
        BY <3>1, <3>3, <3>5
      <4> QED
        BY <3>1, <3>3, <3>4, <3>5, <4>1
    <3>6. a[1] = k + 1
      BY <3>1
    <3>7. ASSUME NEW n \in 1..Len(u) PROVE n + 1 \in 1..Len(v) /\ a[n + 1] = place[n]
      BY <3>1, <3>3
    <3> HIDE DEF a
    <3>8. /\ \A n \in 1..Len(u) : /\ place[n] \in 1..k /\ registered[place[n]] \in done
                                  /\ u[n] = Undo(registered[place[n]])
          /\ \A m, n \in 1..Len(u) : m < n => place[m] > place[n]
          /\ \A i \in 1..k : registered[i] \in done => \E n \in 1..Len(u) : place[n] = i
      BY <2>1 DEF NewestUndone, u
    <3>9. ASSUME NEW n \in 1..Len(v)
          PROVE  /\ a[n] \in 1..(k + 1) /\ registered[a[n]] \in done
                 /\ v[n] = Undo(registered[a[n]])
      <4>1. CASE n = 1
        BY <2>5, <3>3, <3>6, <4>1
      <4>2. CASE n # 1
        BY <3>5, <3>8, <4>2
      <4> QED
        BY <4>1, <4>2
    <3>10. ASSUME NEW m \in 1..Len(v), NEW n \in 1..Len(v), m < n
           PROVE  a[m] > a[n]
      <4>1. n # 1 /\ a[n] = place[n - 1] /\ n - 1 \in 1..Len(u)
        BY <3>5, <3>10
      <4>2. CASE m = 1
        BY <3>6, <3>8, <4>1, <4>2
      <4>3. CASE m # 1
        <5>1. a[m] = place[m - 1] /\ m - 1 \in 1..Len(u) /\ m - 1 < n - 1
          BY <3>5, <3>10, <4>3
        <5> QED
          BY <3>8, <4>1, <5>1
      <4> QED
        BY <4>2, <4>3
    <3>11. ASSUME NEW i \in 1..(k + 1), registered[i] \in done
           PROVE  \E n \in 1..Len(v) : a[n] = i
      <4>1. CASE i = k + 1
        <5>1. 1 \in 1..Len(v)
          BY <3>1, <3>3
        <5> QED
          BY <3>6, <4>1, <5>1
      <4>2. CASE i # k + 1
        <5>1. PICK n \in 1..Len(u) : place[n] = i
          BY <3>8, <3>11, <4>2
        <5> QED
          BY <3>7, <5>1
      <4> QED
        BY <4>1, <4>2
    <3>12. NewestUndone(v, a, registered, done, k + 1)
      BY <3>3, <3>9, <3>10, <3>11 DEF NewestUndone
    <3> QED
      BY <3>12 DEF v
  <2> QED
    BY <2>4, <2>5
<1>6. ASSUME NEW k \in Nat, k \in T PROVE k + 1 \in T
  BY <1>5, <1>6
<1> HIDE DEF T
<1>7. l \in T
  BY <1>1, <1>4, <1>6, NatInduct
<1>8. \E place : NewestUndone(f[l], place, registered, done, l)
  BY <1>1, <1>7 DEF T
<1> QED
  BY <1>3, <1>8 DEF l
----------------------------------------------------------------------------
\* Each step has a reply event, and a target of its undo, of its own: what
\* reply and undo_refused tell the steps apart by.
OwnReplies == \A s, t \in Step : CompletedBy[s] = CompletedBy[t] => s = t
OwnTargets == \A s, t \in Step : TargetOf[s] = TargetOf[t] => s = t

\* reply and undo_refused find the first step of that event or target, or no
\* step at all.
LEMMA StepFound ==
  ASSUME NEW field, NEW value, steps \in Seq(Step)
  PROVE  \/ /\ FirstStep(field, value) = <<>>
            /\ \A n \in 1..Len(steps) : field[steps[n]] # value
         \/ \E t \in Step : /\ FirstStep(field, value) = <<t>>
                            /\ field[t] = value /\ Has(steps, t)
<1> DEFINE places == {n \in DOMAIN steps : field[steps[n]] = value}
           p == Min(places)
<1>1. /\ places \in SUBSET Nat /\ DOMAIN steps = 1..Len(steps)
      /\ \A n \in DOMAIN steps : steps[n] \in Step
  OBVIOUS
<1>2. FirstStep(field, value) = IF places = {} THEN <<>> ELSE <<steps[p]>>
  BY DEF FirstStep
<1>3. CASE places = {}
  BY <1>1, <1>2, <1>3
<1>4. CASE places # {}
  <2>1. \E x \in places : \A y \in places : x <= y
    BY <1>1, <1>4, LeastElement
  <2>2. p \in places
    BY <2>1, Zenon DEF Min
  <2>3. p \in 1..Len(steps) /\ field[steps[p]] = value /\ steps[p] \in Step
    BY <1>1, <2>2
  <2> HIDE DEF p, places
  <2> QED
    BY <1>2, <1>4, <2>3 DEF Has
<1> QED
  BY <1>3, <1>4

\* Where steps do not share one, it is the step's own.
LEMMA OwnStepFound ==
  ASSUME NEW field, \A s, t \in Step : field[s] = field[t] => s = t,
         steps \in Seq(Step), NEW s \in Step, Has(steps, s)
  PROVE  FirstStep(field, field[s]) = <<s>>
<1> DEFINE value == field[s]
<1>1. \E n \in 1..Len(steps) : field[steps[n]] = value
  BY DEF Has
<1> HIDE DEF value
<1>2. \E t \in Step : FirstStep(field, value) = <<t>> /\ field[t] = value
  BY <1>1, StepFound
<1> QED
  BY <1>2 DEF value

\* The one event, or none, that is recorded of the step found.
LEMMA EventsOfFound ==
  /\ [n \in DOMAIN <<>> |-> Undo(<<>>[n])] = <<>>
  /\ [n \in DOMAIN <<>> |-> CompensationFailed(<<>>[n])] = <<>>
  /\ \A t : /\ [n \in DOMAIN <<t>> |-> Undo(<<t>>[n])] = <<Undo(t)>>
            /\ [n \in DOMAIN <<t>> |-> CompensationFailed(<<t>>[n])]
                 = <<CompensationFailed(t)>>
OBVIOUS
----------------------------------------------------------------------------
\* The steps are registered once each, all before the first command.
StepsInv ==
  /\ steps \in Seq(Step) /\ journal \in Seq(Event)
  /\ sent \subseteq Step /\ undos \subseteq Step
  /\ \A m, n \in 1..Len(steps) : steps[m] = steps[n] => m = n
  /\ (journal # <<>> \/ sent # {} \/ undos # {}) => \A s \in Step : Has(steps, s)

\* Of two steps whose undos are in the journal, done before its failed event.
NewestFirst(j, registered) ==
  \A s, t \in Step : \A f, m, n \in 1..Len(j) :
    (/\ j[f] = Failed
     /\ \E k \in 1..(f - 1) : j[k] = Done(s)
     /\ \E k \in 1..(f - 1) : j[k] = Done(t)
     /\ j[m] = Undo(s) /\ j[n] = Undo(t) /\ m < n)
      => \A p, q \in 1..Len(registered) :
           registered[p] = s /\ registered[q] = t => p > q

\* A command that is out has no reply yet; nothing is done, undone or given
\* up twice; and what is undone is what is done of a manager that gave up.
UndoneInv ==
  /\ \A s \in sent : ~Has(journal, Done(s))
  /\ Once(journal, Failed)
  /\ \A s \in Step :
       /\ Once(journal, Done(s)) /\ Once(journal, Undo(s))
       /\ Has(journal, Undo(s)) <=> Has(journal, Failed) /\ Has(journal, Done(s))
  /\ NewestFirst(journal, steps)

BlameInv ==
  \A s \in Step : s \in rejected <=> Has(journal, CompensationFailed(s))

\* What the handlings read of the journal.
LEMMA JournalRead ==
  /\ RolledBack <=> Has(journal, Failed)
  /\ \A s \in Step : s \in Recorded <=> Has(journal, Done(s))
  /\ \A s : Contains(steps, s) <=> Has(steps, s)
BY DEF RolledBack, Recorded, Contains, Has

LEMMA StartedHasAll ==
  ASSUME Started, steps \in Seq(Step)
  PROVE  \A s \in Step : Has(steps, s)
BY DEF Started, ToSet, Has

\* What rollback answers.
LEMMA RollbackEvents ==
  ASSUME steps \in Seq(Step), \A s \in Step : Has(steps, s)
  PROVE  \E u, place : /\ Rollback = <<Failed>> \o u
                       /\ NewestUndone(u, place, steps, Recorded, Len(steps))
<1>1. \E place : NewestUndone(UndosOf(steps, Recorded), place, steps, Recorded, Len(steps))
  BY UndosAreNewestFirst
<1> QED
  BY <1>1 DEF Rollback

\* One event, and nothing or another one after it.
LEMMA OneAndAnother ==
  ASSUME NEW a, NEW b
  PROVE  <<a>> \o <<>> = <<a>> /\ <<a>> \o <<b>> = <<a, b>>
<1> DEFINE x == <<a>> \o <<b>>
<1>1. <<a>> \in Seq({a, b}) /\ <<b>> \in Seq({a, b})
  OBVIOUS
<1>2. x \in Seq({a, b}) /\ Len(x) = 2 /\ x[1] = a /\ x[2] = b
  BY <1>1
<1> HIDE DEF x
<1>3. x = <<x[1], x[2]>>
  BY <1>2
<1>4. <<a>> \o <<>> = <<a>>
  OBVIOUS
<1> QED
  BY <1>2, <1>3, <1>4 DEF x

\* What reply answers: one event in time, and late one more, the undo of
\* the first step the reply is taken for.
LEMMA ReplyEvents ==
  ASSUME steps \in Seq(Step), NEW s \in Step
  PROVE  \/ Reply(s) = <<Done(s)>>
         \/ \E t \in Step : Reply(s) = <<Done(s), Undo(t)>>
<1> DEFINE late == IF RolledBack THEN FirstStep(CompletedBy, CompletedBy[s]) ELSE <<>>
<1>1. Reply(s) = <<Done(s)>> \o [n \in DOMAIN late |-> Undo(late[n])]
  BY DEF Reply
<1>2. late = <<>> \/ \E t \in Step : late = <<t>>
  BY StepFound
<1> HIDE DEF late
<1>3. CASE late = <<>>
  <2>1. [n \in DOMAIN late |-> Undo(late[n])] = <<>>
    BY <1>3, EventsOfFound
  <2>2. <<Done(s)>> \o <<>> = <<Done(s)>>
    OBVIOUS
  <2> QED
    BY <1>1, <2>1, <2>2
<1>4. ASSUME NEW t \in Step, late = <<t>> PROVE Reply(s) = <<Done(s), Undo(t)>>
  <2>1. [n \in DOMAIN late |-> Undo(late[n])] = <<Undo(t)>>
    BY <1>4, EventsOfFound
  <2>2. <<Done(s)>> \o <<Undo(t)>> = <<Done(s), Undo(t)>>
    BY OneAndAnother
  <2> QED
    BY <1>1, <2>1, <2>2
<1> QED
  BY <1>2, <1>3, <1>4

\* Where replies are the steps' own, late it is the step's own undo.
LEMMA OwnReplyEvents ==
  ASSUME OwnReplies, steps \in Seq(Step), NEW s \in Step, Has(steps, s)
  PROVE  Reply(s) = IF RolledBack THEN <<Done(s), Undo(s)>> ELSE <<Done(s)>>
<1> DEFINE late == IF RolledBack THEN FirstStep(CompletedBy, CompletedBy[s]) ELSE <<>>
<1>1. Reply(s) = <<Done(s)>> \o [n \in DOMAIN late |-> Undo(late[n])]
  BY DEF Reply
<1>2. FirstStep(CompletedBy, CompletedBy[s]) = <<s>>
  BY OwnStepFound DEF OwnReplies
<1>3. late = IF RolledBack THEN <<s>> ELSE <<>>
  BY <1>2
<1> HIDE DEF late
<1>4. /\ <<Done(s)>> \o <<>> = <<Done(s)>>
      /\ <<Done(s)>> \o <<Undo(s)>> = <<Done(s), Undo(s)>>
  BY OneAndAnother
<1>5. CASE RolledBack
  <2>1. [n \in DOMAIN late |-> Undo(late[n])] = <<Undo(s)>>
    BY <1>3, <1>5, EventsOfFound
  <2> QED
    BY <1>1, <1>4, <1>5, <2>1
<1>6. CASE ~RolledBack
  <2>1. [n \in DOMAIN late |-> Undo(late[n])] = <<>>
    BY <1>3, <1>6, EventsOfFound
  <2> QED
    BY <1>1, <1>4, <1>6, <2>1
<1> QED
  BY <1>5, <1>6

\* What undo_refused answers: nothing, or that one step's compensation
\* failed.
LEMMA RefusedEvents ==
  ASSUME steps \in Seq(Step), NEW s
  PROVE  \/ UndoRefused(s) = <<>>
         \/ \E t \in Step : UndoRefused(s) = <<CompensationFailed(t)>>
<1> DEFINE found == FirstStep(TargetOf, TargetOf[s])
<1>1. UndoRefused(s) = [n \in DOMAIN found |-> CompensationFailed(found[n])]
  BY DEF UndoRefused
<1>2. found = <<>> \/ \E t \in Step : found = <<t>>
  BY StepFound
<1> HIDE DEF found
<1> QED
  BY <1>1, <1>2, EventsOfFound

LEMMA OwnRefusedEvents ==
  ASSUME OwnTargets, steps \in Seq(Step), NEW s \in Step, Has(steps, s)
  PROVE  UndoRefused(s) = <<CompensationFailed(s)>>
<1> DEFINE found == FirstStep(TargetOf, TargetOf[s])
<1>1. UndoRefused(s) = [n \in DOMAIN found |-> CompensationFailed(found[n])]
  BY DEF UndoRefused
<1>2. found = <<s>>
  BY OwnStepFound DEF OwnTargets
<1> HIDE DEF found
<1> QED
  BY <1>1, <1>2, EventsOfFound

\* The undos in a rollback's events are events.
LEMMA RollbackType ==
  ASSUME steps \in Seq(Step), \A s \in Step : Has(steps, s)
  PROVE  Rollback \in Seq(Event)
<1>1. PICK u, place : /\ Rollback = <<Failed>> \o u
                      /\ NewestUndone(u, place, steps, Recorded, Len(steps))
  BY RollbackEvents
<1>2. u \in Seq(Event) /\ <<Failed>> \in Seq(Event)
  BY <1>1, EventType DEF NewestUndone
<1> QED
  BY <1>1, <1>2, Recording

\* Every handling records events, of steps that are all registered.
LEMMA StepsStep ==
  StepsInv /\ [CompensationNext]_compensationVars => StepsInv'
<1> SUFFICES ASSUME StepsInv, [CompensationNext]_compensationVars PROVE StepsInv'
  OBVIOUS
<1>0. /\ steps \in Seq(Step) /\ journal \in Seq(Event)
      /\ sent \subseteq Step /\ undos \subseteq Step
  BY DEF StepsInv
<1>1. ASSUME NEW s \in Step, RegisterStep(s) PROVE StepsInv'
  <2>1. ~Has(steps, s)
    BY <1>1, JournalRead DEF RegisterStep
  <2>2. steps' = Append(steps, s) /\ UNCHANGED <<sent, journal, undos>>
    BY <1>1 DEF RegisterStep
  <2>3. /\ steps' \in Seq(Step) /\ Len(steps') = Len(steps) + 1
        /\ \A n \in 1..Len(steps) : steps'[n] = steps[n]
        /\ steps'[Len(steps) + 1] = s /\ Len(steps) \in Nat
    BY <1>0, <2>2
  <2>4. \A m, n \in 1..Len(steps') : steps'[m] = steps'[n] => m = n
    <3> SUFFICES ASSUME NEW m \in 1..Len(steps'), NEW n \in 1..Len(steps'),
                        steps'[m] = steps'[n]
                 PROVE  m = n
      OBVIOUS
    <3>1. m \in 1..Len(steps) \/ m = Len(steps) + 1
      BY <2>3
    <3>2. n \in 1..Len(steps) \/ n = Len(steps) + 1
      BY <2>3
    <3> QED
      BY <2>1, <2>3, <3>1, <3>2 DEF Has, StepsInv
  <2>5. ~(journal # <<>> \/ sent # {} \/ undos # {})
    BY <2>1 DEF StepsInv
  <2> QED
    BY <1>0, <2>2, <2>3, <2>4, <2>5 DEF StepsInv
<1>2. ASSUME UNCHANGED steps, journal' \in Seq(Event),
             sent' \subseteq Step, undos' \subseteq Step,
             \A s \in Step : Has(steps, s)
      PROVE  StepsInv'
  BY <1>2 DEF StepsInv, Has
<1>3. ASSUME NEW s \in Step, SendStep(s) PROVE StepsInv'
  BY <1>0, <1>2, <1>3, StartedHasAll DEF SendStep
<1>4. ASSUME NEW x \in Seq(Event), Record(x)
      PROVE  journal' \in Seq(Event) /\ undos' \subseteq Step
  BY <1>0, <1>4, Recording DEF Record
<1>5. ASSUME NEW s \in Step, StepReplies(s) PROVE StepsInv'
  <2>1. \A t \in Step : Has(steps, t)
    BY <1>5 DEF StepReplies, StepsInv
  <2>2. Reply(s) \in Seq(Event)
    <3>1. /\ <<Done(s)>> \in Seq(Event)
          /\ \A t \in Step : <<Done(s), Undo(t)>> \in Seq(Event)
      BY EventType
    <3> QED
      BY <1>0, <3>1, ReplyEvents
  <2> QED
    BY <1>0, <1>2, <1>4, <1>5, <2>1, <2>2 DEF StepReplies
<1>6. ASSUME NEW s \in Step, StepRefused(s) PROVE StepsInv'
  <2>1. \A t \in Step : Has(steps, t)
    BY <1>6 DEF StepRefused, StepsInv
  <2>2. journal' \in Seq(Event) /\ undos' \subseteq Step
    BY <1>0, <1>4, <1>6, <2>1, RollbackType DEF StepRefused
  <2> QED
    BY <1>0, <1>2, <1>6, <2>1, <2>2 DEF StepRefused
<1>7. ASSUME GivesUp PROVE StepsInv'
  <2>1. \A t \in Step : Has(steps, t)
    BY <1>0, <1>7, StartedHasAll DEF GivesUp
  <2>2. journal' \in Seq(Event) /\ undos' \subseteq Step
    BY <1>0, <1>4, <1>7, <2>1, RollbackType DEF GivesUp
  <2> QED
    BY <1>0, <1>2, <1>7, <2>1, <2>2 DEF GivesUp
<1>8. ASSUME NEW s \in Step, UndoTaken(s) PROVE StepsInv'
  <2>1. \A t \in Step : Has(steps, t)
    BY <1>8 DEF UndoTaken, StepsInv
  <2> QED
    BY <1>0, <1>2, <1>8, <2>1 DEF UndoTaken
<1>9. ASSUME NEW s \in Step, UndoIsRefused(s) PROVE StepsInv'
  <2>1. \A t \in Step : Has(steps, t)
    BY <1>9 DEF UndoIsRefused, StepsInv
  <2>2. UndoRefused(s) \in Seq(Event)
    <3>1. <<>> \in Seq(Event) /\ \A t \in Step : <<CompensationFailed(t)>> \in Seq(Event)
      BY EventType
    <3> QED
      BY <1>0, <3>1, RefusedEvents
  <2>3. journal' \in Seq(Event)
    BY <1>0, <1>9, <2>2, Recording DEF UndoIsRefused
  <2> QED
    BY <1>0, <1>2, <1>9, <2>1, <2>3 DEF UndoIsRefused
<1>10. CASE UNCHANGED compensationVars
  BY <1>10 DEF compensationVars, StepsInv, Has
<1> QED
  BY <1>1, <1>3, <1>5, <1>6, <1>7, <1>8, <1>9, <1>10 DEF CompensationNext
----------------------------------------------------------------------------
\* What is recorded after the rollback leaves its order alone, unless it
\* undoes what was done before.
LEMMA OrderIsKept ==
  ASSUME NEW j \in Seq(Event), NEW x \in Seq(Event), NEW registered,
         NewestFirst(j, registered), ~Has(x, Failed),
         \A t \in Step : Has(x, Undo(t)) => ~Has(j, Done(t))
  PROVE  NewestFirst(j \o x, registered)
<1> DEFINE z == j \o x
<1>1. \A k \in 1..Len(z) :
        \/ k \in 1..Len(j) /\ z[k] = j[k]
        \/ \E i \in 1..Len(x) : k = Len(j) + i /\ z[k] = x[i]
  <2>1. \A k \in 1..Len(j \o x) :
          \/ k \in 1..Len(j) /\ (j \o x)[k] = j[k]
          \/ \E i \in 1..Len(x) : k = Len(j) + i /\ (j \o x)[k] = x[i]
    BY PlaceRecorded
  <2> QED
    BY <2>1, Zenon DEF z
<1>2. SUFFICES ASSUME NEW s \in Step, NEW t \in Step,
                      NEW f \in 1..Len(z), NEW m \in 1..Len(z), NEW n \in 1..Len(z),
                      z[f] = Failed,
                      \E k \in 1..(f - 1) : z[k] = Done(s),
                      \E k \in 1..(f - 1) : z[k] = Done(t),
                      z[m] = Undo(s), z[n] = Undo(t), m < n,
                      NEW p \in 1..Len(registered), NEW q \in 1..Len(registered),
                      registered[p] = s, registered[q] = t
               PROVE  p > q
  BY Zenon DEF NewestFirst
<1>3. Len(j) \in Nat /\ \A k \in 1..Len(j) : z[k] = j[k]
  BY Recording
<1> HIDE DEF z
<1>4. f \in 1..Len(j) /\ j[f] = Failed
  BY <1>1, <1>2 DEF Has
<1>5. /\ \E k \in 1..(f - 1) : j[k] = Done(s)
      /\ \E k \in 1..(f - 1) : j[k] = Done(t)
  <2>1. ASSUME NEW k \in 1..(f - 1) PROVE z[k] = j[k]
    <3>1. k \in 1..Len(j)
      BY <1>3, <1>4
    <3> QED
      BY <1>3, <3>1
  <2> QED
    BY <1>2, <2>1
<1>6. Has(j, Done(t))
  BY <1>3, <1>4, <1>5 DEF Has
<1>7. n \in 1..Len(j) /\ j[n] = Undo(t)
  BY <1>1, <1>2, <1>6 DEF Has
<1>8. m \in 1..Len(j) /\ j[m] = Undo(s)
  <2>1. m \in 1..Len(z) /\ m < n /\ m \in Nat /\ m >= 1
    BY <1>2
  <2>2. m \in 1..Len(j)
    BY <1>3, <1>7, <2>1
  <2> QED
    BY <1>2, <1>3, <2>2
<1>9. \A a, b \in 1..Len(registered) :
        registered[a] = s /\ registered[b] = t => a > b
  <2>1. /\ j[f] = Failed /\ j[m] = Undo(s) /\ j[n] = Undo(t) /\ m < n
        /\ f \in 1..Len(j) /\ m \in 1..Len(j) /\ n \in 1..Len(j)
    BY <1>2, <1>4, <1>7, <1>8
  <2> QED
    BY <1>5, <2>1, Zenon DEF NewestFirst
<1> QED
  BY <1>2, <1>9

\* What a rollback records: the failure once, then undos, of the steps done
\* and of each of them once.
LEMMA RollbackHas ==
  ASSUME NEW u, NEW place, NEW registered \in Seq(Step), NEW done,
         \A m, n \in 1..Len(registered) : registered[m] = registered[n] => m = n,
         \A s \in Step : Has(registered, s),
         NewestUndone(u, place, registered, done, Len(registered))
  PROVE  LET x == <<Failed>> \o u
         IN  /\ x \in Seq(Event) /\ Len(u) \in Nat /\ Len(x) = Len(u) + 1
             /\ x[1] = Failed /\ \A n \in 1..Len(u) : x[n + 1] = u[n]
             /\ Once(x, Failed) /\ Has(x, Failed)
             /\ \A s \in Step : /\ Has(x, Undo(s)) <=> s \in done
                                /\ Once(x, Undo(s)) /\ ~Has(x, Done(s))
                                /\ ~Has(x, CompensationFailed(s))
<1> DEFINE x == <<Failed>> \o u
<1>2. u \in Seq(Event) /\ <<Failed>> \in Seq(Event) /\ Len(u) \in Nat
  BY EventType DEF NewestUndone
<1>1. x \in Seq(Event) /\ Len(x) = Len(u) + 1 /\ x[1] = Failed
  BY <1>2
<1>3. ASSUME NEW n \in 1..Len(u) PROVE x[n + 1] = u[n]
  BY <1>2
<1> HIDE DEF x
<1>4. ASSUME NEW n \in 1..Len(x)
      PROVE  \/ n = 1 /\ x[n] = Failed
             \/ n - 1 \in 1..Len(u) /\ x[n] = u[n - 1]
  <2>1. CASE n = 1
    BY <1>1, <2>1
  <2>2. CASE n # 1
    <3>1. n - 1 \in 1..Len(u) /\ (n - 1) + 1 = n
      BY <1>1, <1>2, <2>2
    <3> QED
      BY <1>3, <3>1
  <2> QED
    BY <2>1, <2>2
<1>5. \A n \in 1..Len(u) : /\ place[n] \in 1..Len(registered)
                           /\ registered[place[n]] \in done
                           /\ u[n] = Undo(registered[place[n]])
  BY DEF NewestUndone
<1>6. ASSUME NEW s, NEW m \in 1..Len(u), NEW n \in 1..Len(u),
             u[m] = Undo(s), u[n] = Undo(s)
      PROVE  m = n
  <2>1. place[m] = place[n]
    BY <1>5, <1>6, EventsDiffer
  <2>2. ~(place[m] > place[n]) /\ ~(place[n] > place[m])
    BY <1>5, <2>1
  <2>3. /\ m < n => place[m] > place[n]
        /\ n < m => place[n] > place[m]
    BY DEF NewestUndone
  <2> QED
    BY <1>2, <2>2, <2>3
<1>7. ASSUME NEW n \in 1..Len(x), x[n] = Failed PROVE n = 1
  BY <1>4, <1>5, <1>7, EventsDiffer
<1>8. Once(x, Failed) /\ Has(x, Failed)
  <2>1. 1 \in 1..Len(x)
    BY <1>1, <1>2
  <2> QED
    BY <1>1, <1>7, <2>1 DEF Once, Has
<1>9. ASSUME NEW s \in Step PROVE Once(x, Undo(s))
  <2> SUFFICES ASSUME NEW m \in 1..Len(x), NEW n \in 1..Len(x),
                      x[m] = Undo(s), x[n] = Undo(s)
               PROVE  m = n
    BY DEF Once
  <2>1. m - 1 \in 1..Len(u) /\ u[m - 1] = Undo(s)
    BY <1>4, EventsDiffer
  <2>2. n - 1 \in 1..Len(u) /\ u[n - 1] = Undo(s)
    BY <1>4, EventsDiffer
  <2>3. m - 1 = n - 1
    BY <1>6, <2>1, <2>2
  <2> QED
    BY <2>3
<1>20. ASSUME NEW s \in Step
       PROVE  /\ Has(x, Undo(s)) => s \in done
              /\ ~Has(x, Done(s)) /\ ~Has(x, CompensationFailed(s))
  <2>1. ASSUME NEW n \in 1..Len(x) PROVE x[n] = Failed \/ \E t \in done : x[n] = Undo(t)
    BY <1>4, <1>5
  <2>2. ASSUME NEW n \in 1..Len(x)
        PROVE  /\ x[n] = Undo(s) => s \in done
               /\ x[n] # Done(s) /\ x[n] # CompensationFailed(s)
    <3>1. CASE x[n] = Failed
      BY <3>1, EventsDiffer, Zenon
    <3>2. ASSUME NEW t \in done, x[n] = Undo(t)
          PROVE  /\ x[n] = Undo(s) => s \in done
                 /\ x[n] # Done(s) /\ x[n] # CompensationFailed(s)
      <4>1. /\ Undo(t) = Undo(s) => t = s
            /\ Undo(t) # Done(s) /\ Undo(t) # CompensationFailed(s)
        BY EventsDiffer, Zenon
      <4> QED
        BY <3>2, <4>1, Zenon
    <3> QED
      BY <2>1, <3>1, <3>2, Zenon
  <2> QED
    BY <2>2, Zenon DEF Has
<1>21. ASSUME NEW s \in Step, s \in done PROVE Has(x, Undo(s))
  <2>1. PICK i \in 1..Len(registered) : registered[i] = s
    BY DEF Has
  <2>2. PICK n \in 1..Len(u) : place[n] = i
    BY <1>21, <2>1 DEF NewestUndone
  <2>3. u[n] = Undo(s) /\ n + 1 \in 1..Len(x) /\ x[n + 1] = u[n]
    BY <1>1, <1>2, <1>3, <1>5, <2>1, <2>2
  <2> QED
    BY <2>3 DEF Has
<1> QED
  BY <1>1, <1>2, <1>3, <1>8, <1>9, <1>20, <1>21 DEF x

\* A rollback puts the undos in the order it should.
LEMMA RollbackIsInOrder ==
  ASSUME NEW j \in Seq(Event), NEW u, NEW place, NEW registered \in Seq(Step), NEW done,
         \A m, n \in 1..Len(registered) : registered[m] = registered[n] => m = n,
         \A s \in Step : Has(registered, s),
         NewestUndone(u, place, registered, done, Len(registered)),
         \A s \in Step : ~Has(j, Undo(s))
  PROVE  NewestFirst(j \o (<<Failed>> \o u), registered)
<1> DEFINE x == <<Failed>> \o u
           z == j \o x
<1>2. /\ x \in Seq(Event) /\ Len(u) \in Nat /\ Len(x) = Len(u) + 1
      /\ x[1] = Failed /\ \A n \in 1..Len(u) : x[n + 1] = u[n]
  BY RollbackHas
<1> HIDE DEF x
<1>1. SUFFICES ASSUME NEW s \in Step, NEW t \in Step,
                      NEW m \in 1..Len(z), NEW n \in 1..Len(z),
                      z[m] = Undo(s), z[n] = Undo(t), m < n,
                      NEW p \in 1..Len(registered), NEW q \in 1..Len(registered),
                      registered[p] = s, registered[q] = t
               PROVE  p > q
  BY Zenon DEF NewestFirst, x
<1>3. \A k \in 1..Len(z) :
        \/ k \in 1..Len(j) /\ z[k] = j[k]
        \/ \E i \in 1..Len(x) : k = Len(j) + i /\ z[k] = x[i]
  <2>1. x \in Seq(Event)
    BY <1>2
  <2> QED
    BY <2>1, PlaceRecorded
<1>4. Len(j) \in Nat
  OBVIOUS
<1> HIDE DEF z
<1>5. ASSUME NEW k \in 1..Len(z), NEW r \in Step, z[k] = Undo(r)
      PROVE  \E i \in 1..Len(u) : k = Len(j) + i + 1 /\ u[i] = Undo(r)
  <2>1. PICK i \in 1..Len(x) : k = Len(j) + i /\ z[k] = x[i]
    BY <1>3, <1>5 DEF Has
  <2>2. i # 1
    BY <1>2, <1>5, <2>1, EventsDiffer
  <2>3. i - 1 \in 1..Len(u) /\ (i - 1) + 1 = i
    BY <1>2, <2>2
  <2>4. u[i - 1] = x[(i - 1) + 1]
    BY <1>2, <2>3
  <2>5. k = Len(j) + (i - 1) + 1
    BY <1>4, <2>1
  <2>6. u[i - 1] = Undo(r)
    BY <1>5, <2>1, <2>3, <2>4
  <2> QED
    BY <2>3, <2>5, <2>6
<1>6. PICK a \in 1..Len(u) : m = Len(j) + a + 1 /\ u[a] = Undo(s)
  BY <1>1, <1>5
<1>7. PICK b \in 1..Len(u) : n = Len(j) + b + 1 /\ u[b] = Undo(t)
  BY <1>1, <1>5
<1>8. a < b
  BY <1>1, <1>2, <1>4, <1>6, <1>7
<1>9. \A i \in 1..Len(u) : /\ place[i] \in 1..Len(registered)
                           /\ u[i] = Undo(registered[place[i]])
  BY DEF NewestUndone
<1>20. place[a] = p /\ place[b] = q
  <2>1. registered[place[a]] = s /\ registered[place[b]] = t
    BY <1>6, <1>7, <1>9, EventsDiffer
  <2>2. place[a] \in 1..Len(registered) /\ place[b] \in 1..Len(registered)
    BY <1>9
  <2> QED
    BY <1>1, <2>1, <2>2
<1>21. place[a] > place[b]
  BY <1>8 DEF NewestUndone
<1> QED
  BY <1>20, <1>21
----------------------------------------------------------------------------
\* A reply is recorded, and undone at once if it is late.
LEMMA ReplyKeepsUndone ==
  ASSUME OwnReplies, StepsInv, UndoneInv, NEW s \in Step, StepReplies(s)
  PROVE  UndoneInv'
<1>1. /\ steps \in Seq(Step) /\ journal \in Seq(Event)
      /\ s \in sent /\ Has(steps, s) /\ ~Has(journal, Done(s))
      /\ ~Has(journal, Undo(s))
  BY DEF StepReplies, StepsInv, UndoneInv
<1> DEFINE x == Reply(s)
<1>2. x = IF RolledBack THEN <<Done(s), Undo(s)>> ELSE <<Done(s)>>
  BY <1>1, OwnReplyEvents
<1>3. journal' = journal \o x /\ sent' = sent \ {s} /\ steps' = steps
  BY DEF StepReplies, Record
<1> HIDE DEF x
<1>4. RolledBack <=> Has(journal, Failed)
  BY JournalRead
<1>5. /\ x \in Seq(Event)
      /\ \A e : Has(x, e) <=> e = Done(s) \/ (Has(journal, Failed) /\ e = Undo(s))
      /\ \A e : Once(x, e)
  <2>1. CASE RolledBack
    <3>1. x = <<Done(s), Undo(s)>>
      BY <1>2, <2>1
    <3>2. <<Done(s), Undo(s)>> \in Seq(Event)
      BY EventType
    <3>3. \A e : (Has(x, e) <=> e = Done(s) \/ e = Undo(s)) /\ Once(x, e)
      BY <3>1, EventsHave
    <3> QED
      BY <1>4, <2>1, <3>1, <3>2, <3>3
  <2>2. CASE ~RolledBack
    <3>1. x = <<Done(s)>>
      BY <1>2, <2>2
    <3>2. <<Done(s)>> \in Seq(Event)
      BY EventType
    <3>3. \A e : (Has(x, e) <=> e = Done(s)) /\ Once(x, e)
      BY <3>1, EventsHave
    <3> QED
      BY <1>4, <2>2, <3>1, <3>2, <3>3
  <2> QED
    BY <2>1, <2>2
<1>6. \A e : Has(journal', e) <=> Has(journal, e) \/ Has(x, e)
  BY <1>1, <1>3, <1>5, HasRecorded
<1>7. ASSUME NEW e, Once(journal, e), ~(Has(journal, e) /\ Has(x, e))
      PROVE  Once(journal', e)
  BY <1>1, <1>3, <1>5, <1>7, OnceRecorded
<1>8. Once(journal', Failed)
  <2>1. ~Has(x, Failed) /\ Once(journal, Failed)
    BY <1>5, EventsDiffer DEF UndoneInv
  <2> QED
    BY <1>7, <2>1
<1>9. ASSUME NEW t \in Step
      PROVE  /\ Once(journal', Done(t)) /\ Once(journal', Undo(t))
             /\ Has(journal', Undo(t)) <=> Has(journal', Failed) /\ Has(journal', Done(t))
  <2>1. /\ Once(journal, Done(t)) /\ Once(journal, Undo(t))
        /\ Has(journal, Undo(t)) <=> Has(journal, Failed) /\ Has(journal, Done(t))
    BY DEF UndoneInv
  <2>2. /\ Has(x, Done(t)) <=> t = s
        /\ Has(x, Undo(t)) <=> Has(journal, Failed) /\ t = s
        /\ ~Has(x, Failed)
    <3>1. Done(t) # Undo(s) /\ (Done(t) = Done(s) <=> t = s)
      BY EventsDiffer
    <3>2. Undo(t) # Done(s) /\ (Undo(t) = Undo(s) <=> t = s)
      BY EventsDiffer
    <3>3. Failed # Undo(s) /\ Failed # Done(s)
      BY EventsDiffer
    <3> QED
      BY <1>5, <3>1, <3>2, <3>3, Zenon
  <2>3. Once(journal', Done(t)) /\ Once(journal', Undo(t))
    BY <1>1, <1>7, <2>1, <2>2
  <2> QED
    BY <1>6, <2>1, <2>2, <2>3
<1>10. \A t \in sent' : ~Has(journal', Done(t))
  <2>1. \A t \in sent : ~Has(journal, Done(t))
    BY DEF UndoneInv
  <2>2. \A t : Has(x, Done(t)) => t = s
    BY <1>5, EventsDiffer
  <2> QED
    BY <1>3, <1>6, <2>1, <2>2
<1>11. NewestFirst(journal', steps')
  <2>1. ~Has(x, Failed) /\ \A t \in Step : Has(x, Undo(t)) => ~Has(journal, Done(t))
    BY <1>1, <1>5, EventsDiffer
  <2>2. NewestFirst(journal, steps)
    BY DEF UndoneInv
  <2>3. NewestFirst(journal \o x, steps)
    BY <1>1, <1>5, <2>1, <2>2, OrderIsKept
  <2> QED
    BY <1>3, <2>3
<1> QED
  BY <1>8, <1>9, <1>10, <1>11 DEF UndoneInv

\* A rollback undoes what is done.
LEMMA RollbackKeepsUndone ==
  ASSUME StepsInv, UndoneInv, \A s \in Step : Has(steps, s),
         ~RolledBack, Record(Rollback), steps' = steps, sent' \subseteq sent
  PROVE  UndoneInv'
<1>1. /\ steps \in Seq(Step) /\ journal \in Seq(Event) /\ sent \subseteq Step
      /\ ~Has(journal, Failed)
      /\ \A s \in Step : ~Has(journal, Undo(s))
      /\ \A m, n \in 1..Len(steps) : steps[m] = steps[n] => m = n
  BY JournalRead DEF StepsInv, UndoneInv
<1>2. PICK u, place : /\ Rollback = <<Failed>> \o u
                      /\ NewestUndone(u, place, steps, Recorded, Len(steps))
  BY <1>1, RollbackEvents
<1> DEFINE x == <<Failed>> \o u
<1>3. /\ x \in Seq(Event) /\ Once(x, Failed) /\ Has(x, Failed)
      /\ \A s \in Step : /\ Has(x, Undo(s)) <=> s \in Recorded
                         /\ Once(x, Undo(s)) /\ ~Has(x, Done(s))
  BY <1>1, <1>2, RollbackHas
<1>4. NewestFirst(journal \o x, steps)
  BY <1>1, <1>2, RollbackIsInOrder
<1>5. journal' = journal \o x
  BY <1>2 DEF Record
<1> HIDE DEF x
<1>6. \A e : Has(journal', e) <=> Has(journal, e) \/ Has(x, e)
  BY <1>1, <1>3, <1>5, HasRecorded
<1>7. ASSUME NEW e, Once(journal, e), Once(x, e), ~(Has(journal, e) /\ Has(x, e))
      PROVE  Once(journal', e)
  BY <1>1, <1>3, <1>5, <1>7, OnceRecorded
<1>8. Once(journal', Failed)
  <2>1. Once(journal, Failed)
    BY DEF UndoneInv
  <2> QED
    BY <1>1, <1>3, <1>7, <2>1
<1>9. ASSUME NEW t \in Step
      PROVE  /\ Once(journal', Done(t)) /\ Once(journal', Undo(t))
             /\ Has(journal', Undo(t)) <=> Has(journal', Failed) /\ Has(journal', Done(t))
  <2>1. Once(journal, Done(t)) /\ Once(journal, Undo(t))
    BY DEF UndoneInv
  <2>2. t \in Recorded <=> Has(journal, Done(t))
    BY JournalRead
  <2>3. Once(x, Done(t))
    BY <1>3 DEF Once, Has
  <2>4. Once(journal', Done(t)) /\ Once(journal', Undo(t))
    BY <1>1, <1>3, <1>7, <2>1, <2>3
  <2> QED
    BY <1>1, <1>3, <1>6, <2>2, <2>4
<1>10. \A t \in sent' : ~Has(journal', Done(t))
  BY <1>1, <1>3, <1>6 DEF UndoneInv
<1>11. NewestFirst(journal', steps')
  BY <1>4, <1>5
<1> QED
  BY <1>8, <1>9, <1>10, <1>11 DEF UndoneInv

\* A refusal of an undo undoes nothing.
LEMMA RefusalKeepsUndone ==
  ASSUME StepsInv, UndoneInv, NEW s \in Step, UndoIsRefused(s)
  PROVE  UndoneInv'
<1>1. steps \in Seq(Step) /\ journal \in Seq(Event) /\ sent \subseteq Step
  BY DEF StepsInv
<1> DEFINE x == UndoRefused(s)
<1>2. journal' = journal \o x /\ UNCHANGED <<steps, sent>>
  BY DEF UndoIsRefused
<1>3. x = <<>> \/ \E t \in Step : x = <<CompensationFailed(t)>>
  BY <1>1, RefusedEvents
<1> HIDE DEF x
<1>4. /\ x \in Seq(Event) /\ ~Has(x, Failed)
      /\ \A t \in Step : ~Has(x, Done(t)) /\ ~Has(x, Undo(t))
  <2>1. CASE x = <<>>
    <3>1. x \in Seq(Event) /\ \A e : ~Has(x, e)
      BY <2>1 DEF Has
    <3> QED
      BY <3>1
  <2>2. ASSUME NEW t \in Step, x = <<CompensationFailed(t)>>
        PROVE  /\ x \in Seq(Event) /\ ~Has(x, Failed)
               /\ \A r \in Step : ~Has(x, Done(r)) /\ ~Has(x, Undo(r))
    <3>1. x \in Seq(Event)
      BY <2>2, EventType
    <3>2. \A e : Has(x, e) <=> e = CompensationFailed(t)
      BY <2>2, EventsHave
    <3> QED
      BY <3>1, <3>2, EventsDiffer
  <2> QED
    BY <1>3, <2>1, <2>2
<1>5. \A e : Has(journal', e) <=> Has(journal, e) \/ Has(x, e)
  BY <1>1, <1>2, <1>4, HasRecorded
<1>6. ASSUME NEW e, Once(journal, e), ~Has(x, e) PROVE Once(journal', e)
  <2>1. Once(x, e)
    BY <1>6 DEF Once, Has
  <2> QED
    BY <1>1, <1>2, <1>4, <1>6, <2>1, OnceRecorded
<1>7. NewestFirst(journal, steps)
  BY DEF UndoneInv
<1>8. NewestFirst(journal', steps')
  BY <1>1, <1>2, <1>4, <1>7, OrderIsKept
<1>9. Once(journal', Failed)
  BY <1>4, <1>6 DEF UndoneInv
<1>10. \A t \in Step : Once(journal', Done(t)) /\ Once(journal', Undo(t))
  BY <1>4, <1>6 DEF UndoneInv
<1>11. \A t \in Step : Has(journal', Undo(t)) <=> Has(journal', Failed) /\ Has(journal', Done(t))
  BY <1>4, <1>5 DEF UndoneInv
<1>12. \A t \in sent' : ~Has(journal', Done(t))
  BY <1>1, <1>2, <1>4, <1>5 DEF UndoneInv
<1> QED
  BY <1>8, <1>9, <1>10, <1>11, <1>12 DEF UndoneInv

LEMMA UndoneStep ==
  OwnReplies /\ StepsInv /\ UndoneInv /\ [CompensationNext]_compensationVars
    => UndoneInv'
<1> SUFFICES ASSUME OwnReplies, StepsInv, UndoneInv,
                    [CompensationNext]_compensationVars
             PROVE  UndoneInv'
  OBVIOUS
<1>1. ASSUME NEW s \in Step, RegisterStep(s) PROVE UndoneInv'
  <2>1. ~Has(steps, s)
    BY <1>1, JournalRead DEF RegisterStep
  <2>2. journal = <<>> /\ sent = {}
    BY <2>1 DEF StepsInv
  <2>3. journal' = <<>> /\ sent' = {}
    BY <1>1, <2>2 DEF RegisterStep
  <2> QED
    BY <2>3 DEF UndoneInv, Once, Has, NewestFirst
<1>2. ASSUME NEW s \in Step, SendStep(s) PROVE UndoneInv'
  <2>1. ~Has(journal, Done(s))
    BY <1>2, JournalRead DEF SendStep
  <2>2. sent' = sent \cup {s} /\ UNCHANGED <<steps, journal>>
    BY <1>2 DEF SendStep
  <2> QED
    BY <2>1, <2>2 DEF UndoneInv
<1>3. ASSUME NEW s \in Step, StepReplies(s) PROVE UndoneInv'
  BY <1>3, ReplyKeepsUndone
<1>4. ASSUME NEW s \in Step, StepRefused(s) PROVE UndoneInv'
  <2>1. /\ s \in sent /\ sent' = sent \ {s} /\ steps' = steps
        /\ \A t \in Step : Has(steps, t)
    BY <1>4 DEF StepRefused, StepsInv
  <2>2. CASE RolledBack
    <3>1. journal' = journal
      BY <1>4, <2>2 DEF StepRefused
    <3> QED
      BY <2>1, <3>1 DEF UndoneInv
  <2>3. CASE ~RolledBack
    <3>1. Record(Rollback)
      BY <1>4, <2>3 DEF StepRefused
    <3> QED
      BY <2>1, <2>3, <3>1, RollbackKeepsUndone
  <2> QED
    BY <2>2, <2>3
<1>5. ASSUME GivesUp PROVE UndoneInv'
  <2>1. \A t \in Step : Has(steps, t)
    BY <1>5, StartedHasAll DEF GivesUp, StepsInv
  <2> QED
    BY <1>5, <2>1, RollbackKeepsUndone DEF GivesUp
<1>6. ASSUME NEW s \in Step, UndoTaken(s) PROVE UndoneInv'
  BY <1>6 DEF UndoTaken, UndoneInv
<1>7. ASSUME NEW s \in Step, UndoIsRefused(s) PROVE UndoneInv'
  BY <1>7, RefusalKeepsUndone
<1>8. CASE UNCHANGED compensationVars
  BY <1>8 DEF compensationVars, UndoneInv
<1> QED
  BY <1>1, <1>2, <1>3, <1>4, <1>5, <1>6, <1>7, <1>8 DEF CompensationNext

\* Only a refused undo is recorded as one, under its own step.
LEMMA BlameStep ==
  OwnTargets /\ StepsInv /\ BlameInv /\ [CompensationNext]_compensationVars
    => BlameInv'
<1> SUFFICES ASSUME OwnTargets, StepsInv, BlameInv,
                    [CompensationNext]_compensationVars
             PROVE  BlameInv'
  OBVIOUS
<1>0. steps \in Seq(Step) /\ journal \in Seq(Event)
  BY DEF StepsInv
<1>1. ASSUME UNCHANGED <<journal, rejected>> PROVE BlameInv'
  BY <1>1 DEF BlameInv
<1>2. ASSUME NEW x \in Seq(Event), \A t \in Step : ~Has(x, CompensationFailed(t)),
             journal' = journal \o x, UNCHANGED rejected
      PROVE  BlameInv'
  <2>1. \A e : Has(journal', e) <=> Has(journal, e) \/ Has(x, e)
    BY <1>0, <1>2, HasRecorded
  <2> QED
    BY <1>2, <2>1 DEF BlameInv
<1>3. ASSUME NEW s \in Step, StepReplies(s) PROVE BlameInv'
  <2>1. journal' = journal \o Reply(s) /\ UNCHANGED rejected
    BY <1>3 DEF StepReplies, Record
  <2>2. \/ Reply(s) = <<Done(s)>>
        \/ \E t \in Step : Reply(s) = <<Done(s), Undo(t)>>
    BY <1>0, ReplyEvents
  <2>3. CASE Reply(s) = <<Done(s)>>
    <3>1. <<Done(s)>> \in Seq(Event)
      BY EventType
    <3>2. \A t \in Step : ~Has(<<Done(s)>>, CompensationFailed(t))
      BY EventsHave, EventsDiffer
    <3> QED
      BY <1>2, <2>1, <2>3, <3>1, <3>2
  <2>4. ASSUME NEW t \in Step, Reply(s) = <<Done(s), Undo(t)>> PROVE BlameInv'
    <3>1. <<Done(s), Undo(t)>> \in Seq(Event)
      BY EventType
    <3>2. \A r \in Step : ~Has(<<Done(s), Undo(t)>>, CompensationFailed(r))
      BY EventsHave, EventsDiffer
    <3> QED
      BY <1>2, <2>1, <2>4, <3>1, <3>2
  <2> QED
    BY <2>2, <2>3, <2>4
<1>4. ASSUME Record(Rollback), \A s \in Step : Has(steps, s), UNCHANGED rejected
      PROVE  BlameInv'
  <2>1. PICK u, place : /\ Rollback = <<Failed>> \o u
                        /\ NewestUndone(u, place, steps, Recorded, Len(steps))
    BY <1>0, <1>4, RollbackEvents
  <2>2. \A m, n \in 1..Len(steps) : steps[m] = steps[n] => m = n
    BY DEF StepsInv
  <2> DEFINE x == <<Failed>> \o u
  <2>3. x \in Seq(Event) /\ \A s \in Step : ~Has(x, CompensationFailed(s))
    BY <1>0, <1>4, <2>1, <2>2, RollbackHas
  <2>4. journal' = journal \o x
    BY <1>4, <2>1 DEF Record
  <2> HIDE DEF x
  <2> QED
    BY <1>2, <1>4, <2>3, <2>4
<1>5. ASSUME NEW s \in Step, StepRefused(s) PROVE BlameInv'
  <2>1. (\A t \in Step : Has(steps, t)) /\ UNCHANGED rejected
    BY <1>5 DEF StepRefused, StepsInv
  <2> QED
    BY <1>1, <1>4, <1>5, <2>1 DEF StepRefused
<1>6. ASSUME GivesUp PROVE BlameInv'
  <2>1. \A t \in Step : Has(steps, t)
    BY <1>0, <1>6, StartedHasAll DEF GivesUp
  <2> QED
    BY <1>4, <1>6, <2>1 DEF GivesUp
<1>7. ASSUME NEW s \in Step, UndoIsRefused(s) PROVE BlameInv'
  <2>1. Has(steps, s)
    BY <1>7 DEF UndoIsRefused, StepsInv
  <2>2. UndoRefused(s) = <<CompensationFailed(s)>>
    BY <1>0, <2>1, OwnRefusedEvents
  <2>3. /\ journal' = journal \o <<CompensationFailed(s)>>
        /\ rejected' = rejected \cup {s}
    BY <1>7, <2>2 DEF UndoIsRefused
  <2>4. <<CompensationFailed(s)>> \in Seq(Event)
    BY EventType
  <2>5. \A e : Has(journal', e) <=> Has(journal, e) \/ e = CompensationFailed(s)
    <3> DEFINE x == <<CompensationFailed(s)>>
    <3>1. \A e : Has(x, e) <=> e = CompensationFailed(s)
      BY EventsHave
    <3>2. x \in Seq(Event) /\ journal' = journal \o x
      BY <2>3, <2>4
    <3> HIDE DEF x
    <3> QED
      BY <1>0, <3>1, <3>2, HasRecorded
  <2> QED
    BY <2>3, <2>5, EventsDiffer DEF BlameInv
<1>8. CASE \E s \in Step : RegisterStep(s) \/ SendStep(s) \/ UndoTaken(s)
  BY <1>1, <1>8 DEF RegisterStep, SendStep, UndoTaken
<1>9. CASE UNCHANGED compensationVars
  BY <1>1, <1>9 DEF compensationVars
<1> QED
  BY <1>3, <1>5, <1>6, <1>7, <1>8, <1>9 DEF CompensationNext

LEMMA CompensationBegins ==
  CompensationInit => StepsInv /\ UndoneInv /\ BlameInv
BY DEF CompensationInit, StepsInv, UndoneInv, BlameInv, Once, Has, NewestFirst

\* Every handling leaves a journal of events, of steps registered once.
THEOREM StepsInvariant == CompensationSpec => []StepsInv
<1> QED
  BY CompensationBegins, StepsStep, PTL DEF CompensationSpec

\* What is done of a manager that gave up is undone, and nothing else is.
THEOREM UndoneInvariant ==
  ASSUME OwnReplies PROVE CompensationSpec => []UndoneInv
<1>1. StepsInv /\ UndoneInv /\ [CompensationNext]_compensationVars => UndoneInv'
  BY UndoneStep
<1> QED
  BY <1>1, CompensationBegins, StepsInvariant, PTL DEF CompensationSpec

\* Once a manager rolled back, each step done has been undone exactly once,
\* replied to before the rollback or after (rollback, reply), for any number
\* of steps.
THEOREM DoneIsUndone ==
  ASSUME OwnReplies PROVE CompensationSpec => []DoneStepsAreUndoneOnce
<1>1. StepsInv /\ UndoneInv => DoneStepsAreUndoneOnce
  <2> SUFFICES ASSUME StepsInv, UndoneInv PROVE DoneStepsAreUndoneOnce
    OBVIOUS
  <2>1. \A e : Contains(journal, e) <=> Has(journal, e)
    BY DEF Contains, Has
  <2>2. DOMAIN journal = 1..Len(journal)
    BY DEF StepsInv
  <2>3. \A s \in Step : AtMostOnce(Undo(s)) /\ AtMostOnce(Done(s))
    BY <2>2 DEF UndoneInv, Once, AtMostOnce
  <2> QED
    BY <2>1, <2>3, JournalRead DEF UndoneInv, DoneStepsAreUndoneOnce
<1> QED
  BY <1>1, StepsInvariant, UndoneInvariant, PTL

\* A rollback undoes the newest step first (rollback's reversed(self._steps)).
THEOREM NewestIsUndoneFirst ==
  ASSUME OwnReplies PROVE CompensationSpec => []RollbackIsNewestFirst
<1>1. StepsInv /\ UndoneInv => RollbackIsNewestFirst
  <2> SUFFICES ASSUME StepsInv, UndoneInv PROVE RollbackIsNewestFirst
    OBVIOUS
  <2>1. DOMAIN journal = 1..Len(journal) /\ DOMAIN steps = 1..Len(steps)
    BY DEF StepsInv
  <2> DEFINE place(s) == CHOOSE k \in DOMAIN steps : steps[k] = s
  <2>2. ASSUME NEW s \in Step, NEW t \in Step,
               NEW f \in DOMAIN journal, NEW m \in DOMAIN journal, NEW n \in DOMAIN journal,
               journal[f] = Failed,
               \E k \in 1..(f - 1) : journal[k] = Done(s),
               \E k \in 1..(f - 1) : journal[k] = Done(t),
               journal[m] = Undo(s), journal[n] = Undo(t), m < n
        PROVE  place(s) > place(t)
    <3>1. \A r \in Step : \E k \in DOMAIN steps : steps[k] = r
      <4>1. journal # <<>>
        BY <2>1, <2>2
      <4> QED
        BY <2>1, <4>1 DEF StepsInv, Has
    <3>2. \A r \in Step : place(r) \in 1..Len(steps) /\ steps[place(r)] = r
      BY <2>1, <3>1
    <3> HIDE DEF place
    <3>3. NewestFirst(journal, steps)
      BY DEF UndoneInv
    <3> QED
      BY <2>1, <2>2, <3>2, <3>3 DEF NewestFirst
  <2> QED
    BY <2>2 DEF RollbackIsNewestFirst
<1> QED
  BY <1>1, StepsInvariant, UndoneInvariant, PTL

\* A refused undo is put down to the step it belongs to (undo_refused),
\* unless two steps share a target.
THEOREM RefusalIsBlamed ==
  ASSUME OwnTargets PROVE CompensationSpec => []RefusalBlamesItsStep
<1>1. BlameInv => RefusalBlamesItsStep
  BY DEF BlameInv, RefusalBlamesItsStep, Has, Contains
<1>2. StepsInv /\ BlameInv /\ [CompensationNext]_compensationVars => BlameInv'
  BY BlameStep
<1> QED
  BY <1>1, <1>2, CompensationBegins, StepsInvariant, PTL DEF CompensationSpec
=============================================================================
