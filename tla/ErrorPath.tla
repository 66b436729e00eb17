----------------------------- MODULE ErrorPath -----------------------------
(***************************************************************************)
(* A failure's way from the business code that gives it to the error a     *)
(* caller sees: coded by the router (router/errors.py), sent by the host   *)
(* as a gRPC status (host.py), read back by a client (errors.py), whose    *)
(* caller may be business code itself and fail in turn.                    *)
(*                                                                         *)
(* An argument map is a set of <<name, value>> pairs, a name the sequence  *)
(* of its dotted segments.  What carries the status between two hosts is   *)
(* external: the trailer of the details may get lost or unreadable.         *)
(***************************************************************************)
EXTENDS Naturals, Sequences

CONSTANTS
  Key,        \* the keys business code fails under
  Given,      \* the argument maps it gives
  Refusal,    \* the types of typed refusals
  MaxHops,    \* bound: components a failure passes after its own
  Nothing     \* what is absent: a key, a status, a client error

Business  == {"FAILED_PRECONDITION", "INVALID_ARGUMENT", "NOT_FOUND",
              "ALREADY_EXISTS", "OUT_OF_RANGE", "PERMISSION_DENIED"}
Retryable == {"UNAVAILABLE", "DEADLINE_EXCEEDED", "RESOURCE_EXHAUSTED"}
GrpcCode  == Business \cup Retryable \cup
             {"ABORTED", "INTERNAL", "UNIMPLEMENTED", "UNKNOWN", "DATA_LOSS"}

VARIABLES
  stage,    \* "code", "wire" or "seen"
  hops,     \* how many components it has passed
  origin,   \* what was given first, and the status it may travel under
  rpc,      \* the status on the wire: its code, message and, in a sequence
            \* that is empty without one, the trailer
  seen,     \* the client error the caller has
  lost      \* history: its key was lost on the way, or never given

errorVars == <<stage, hops, origin, rpc, seen, lost>>

ErrorInit == /\ stage = "code" /\ hops = 0 /\ lost = FALSE
        /\ origin = Nothing /\ rpc = Nothing /\ seen = Nothing
----------------------------------------------------------------------------
(* The router's errors. *)

CodedError(code, grpc, extras) ==
  [code |-> code, grpc |-> grpc, extras |-> extras, refusal |-> Nothing]

\* An exception that is not a CodedError.
Unclassified == [code |-> Nothing, extras |-> "unclassified"]
AnyOther     == [code |-> Nothing, extras |-> "any other"]

\* Of the router's own keys, two that are not INTERNAL.
declared_status(code) ==
  CASE code = "PERSISTED_EVENT_CORRUPT" -> "DATA_LOSS"
    [] code = "NO_COMPONENT_OF_KIND"    -> "UNIMPLEMENTED"
    [] OTHER                            -> "INTERNAL"

Under(name, args) == {<<name \o arg[1], arg[2]>> : arg \in args}

\* Mutant: the cause's args are left beside it.
FlattenBare(name, key, args) == {<<name, key>>} \cup args

flatten(name, key, args) == {<<name, key>>} \cup Under(name, args)

Cause == <<"cause">>

\* Mutant: any status is taken.
RejectionUnchecked(key, status, args) == CodedError(key, status, args)

\* A status outside the business set is a ValueError in the handler.
Rejection(key, status, args) ==
  IF status \in Business THEN CodedError(key, status, args) ELSE AnyOther

Refused(type, status) ==
  IF status \in Business
    THEN [CodedError("COMMAND_REFUSED", status, {<<<<"refusal_type">>, type>>})
            EXCEPT !.refusal = type]
    ELSE AnyOther

\* The args that Immediate and Bug cannot be given: their own parameters'
\* names, of which the others' are positional only.  It is a TypeError.
Clash(args) == \E arg \in args : arg[1] \in {<<"self">>, <<"key">>}

Immediate(key, args) ==
  IF Clash(args) THEN AnyOther ELSE CodedError(key, "ABORTED", args)

UnhandledError(status, extras) ==
  CodedError("UNHANDLED_HANDLER_ERROR", status, extras)

Bug(key, args) ==
  IF Clash(args) THEN AnyOther
  ELSE UnhandledError(declared_status("UNHANDLED_HANDLER_ERROR"),
                      flatten(Cause, key, args))

RetryableBug(key, status, args) ==
  IF status \in Retryable THEN UnhandledError(status, flatten(Cause, key, args))
                          ELSE AnyOther

\* What an exception that leaves business code is answered as.
escaped(e) ==
  CASE e = Unclassified -> UnhandledError("INTERNAL", {})
    [] e = AnyOther     -> UnhandledError("INTERNAL", {<<Cause, "HANDLER_PANICKED">>})
    [] OTHER            -> e

as_cause(e) ==
  LET coded == escaped(e)
  IN  IF coded.code = "UNHANDLED_HANDLER_ERROR" THEN coded.extras
      ELSE flatten(Cause, coded.code, coded.extras)

\* A fold fails as its own code, whatever its applier's exception was.
FoldFailed(code, e) ==
  CodedError(code, declared_status(code),
             {<<<<"sequence">>, "n">>, <<<<"type_url">>, "t">>,
              <<<<"state_type_url">>, "s">>} \cup as_cause(e))

Places == {"handler", "FOLD_FAILED", "FOLD_FAILED_EMITTED"}

\* Exception e, raised in a handler, or in an applier of one of the folds.
Answer(place, e) == IF place = "handler" THEN escaped(e) ELSE FoldFailed(place, e)

----------------------------------------------------------------------------
(* The host's edge, and the client's. *)

\* CodedError.status: the key is the message and the ErrorInfo's reason, the
\* args its metadata; a typed refusal's object follows.
Status(e) ==
  [code |-> e.grpc, message |-> e.code,
   details |-> <<[reason |-> e.code, metadata |-> e.extras]>> \o
               (IF e.refusal = Nothing THEN <<>> ELSE <<e.refusal>>)]

\* _Dispatcher.call: the status is set as a trailer, the call aborted.
Aborted(e) == [code |-> e.grpc, message |-> e.code, trailer |-> <<Status(e)>>]

\* _rpc_status: the trailer's, or what is left when none can be read.
RpcStatus(r) ==
  IF r.trailer = <<>>
    THEN [code |-> r.code, message |-> r.message, details |-> <<>>]
    ELSE r.trailer[1]

\* GRPCError: the ErrorInfo's reason and metadata, found by _error_info.
GRPCError(r) ==
  LET status == RpcStatus(r)
      none   == status.details = <<>>
  IN  [grpc_code |-> r.code, status |-> status,
       code    |-> IF none THEN "GRPC_ERROR" ELSE status.details[1].reason,
       details |-> IF none THEN {} ELSE status.details[1].metadata]

\* TransportError: a closed channel refused the call, which has no status.
TransportError ==
  [grpc_code |-> Nothing, code |-> "TRANSPORT_ERROR",
   details |-> {<<<<"reason">>, "channel closed">>}]

is_not_found(s)           == s.grpc_code = "NOT_FOUND"
is_precondition_failed(s) == s.grpc_code = "FAILED_PRECONDITION"
is_invalid_argument(s)    == s.grpc_code = "INVALID_ARGUMENT"
is_aborted(s)             == s.grpc_code = "ABORTED"
is_connection_error(s)    == s.grpc_code = "UNAVAILABLE" \/ s = TransportError
----------------------------------------------------------------------------
(* What business code raises. *)

\* validation.py: what each helper refuses, and its rejection.
Helper(refuses, key, status, arg) ==
  [refuses |-> refuses, key |-> key, status |-> status, arg |-> arg]

Value == {"absent", "present", "negative", "zero", "positive",
          "no items", "some items", "same status", "other status"}

Helpers ==
  {Helper({"absent"}, "ENTITY_NOT_FOUND", "NOT_FOUND", "context"),
   Helper({"present"}, "ENTITY_ALREADY_EXISTS", "FAILED_PRECONDITION", "context"),
   Helper({"negative", "zero"}, "VALUE_NOT_POSITIVE", "INVALID_ARGUMENT", "field"),
   Helper({"negative"}, "VALUE_NOT_NON_NEGATIVE", "INVALID_ARGUMENT", "field"),
   Helper({"no items"}, "COLLECTION_EMPTY", "INVALID_ARGUMENT", "field"),
   Helper({"no items"}, "VALUE_EMPTY", "INVALID_ARGUMENT", "field"),
   Helper({"other status"}, "STATUS_MISMATCH", "FAILED_PRECONDITION", "context"),
   Helper({"same status"}, "STATUS_FORBIDDEN", "FAILED_PRECONDITION", "context")}

\* A failure given at a place goes on the wire.  Of a fold, only the cause
\* is the applier's own.
Sends(place, e) == /\ rpc' = Aborted(Answer(place, e))
                   /\ stage' = "wire"

\* The first failure: under a key of its own or none, and under a status that
\* means something only if the handler may pick it.
Gives(e, key, args, status) ==
  /\ stage = "code"
  /\ \E place \in Places :
       /\ Sends(place, e)
       /\ origin' = [key |-> key, args |-> args,
                     status |-> IF place = "handler" THEN status ELSE "INTERNAL"]
  /\ lost' = (key = Nothing)
  /\ UNCHANGED <<hops, seen>>

\* Of a failure that could not be made, nothing is left but a panic.
Named(e, key, args, status) ==
  IF Clash(args) THEN Gives(e, Nothing, {}, "INTERNAL")
                 ELSE Gives(e, key, args, status)

\* As little of a status the handler may not pick.
Picked(e, allowed, key, args, status) ==
  IF status \in allowed THEN Gives(e, key, args, status)
                         ELSE Gives(e, Nothing, {}, "INTERNAL")

Rejects ==
  \E key \in Key, args \in Given, status \in GrpcCode :
    Picked(Rejection(key, status, args), Business, key, args, status)

\* A helper passes, or rejects with the name it was given for the value.
Validates ==
  \E h \in Helpers, value \in Value :
    LET args == {<<<<h.arg>>, "name">>}
    IN  /\ value \in h.refuses
        /\ Gives(Rejection(h.key, h.status, args), h.key, args, h.status)

Refuses ==
  \E type \in Refusal, status \in GrpcCode :
    Picked(Refused(type, status), Business, "COMMAND_REFUSED",
           {<<<<"refusal_type">>, type>>}, status)

ReReads ==
  \E key \in Key, args \in Given :
    Named(Immediate(key, args), key, args, "ABORTED")

HasBug ==
  \E key \in Key, args \in Given :
    \/ Named(Bug(key, args), key, args, "INTERNAL")
    \/ \E status \in GrpcCode :
         Picked(RetryableBug(key, status, args), Retryable, key, args, status)

Escapes ==
  \/ Gives(Unclassified, Nothing, {}, "INTERNAL")
  \/ Gives(AnyOther, Nothing, {}, "INTERNAL")

\* The router fails by itself, under a key's declared status.
RouterFails ==
  /\ stage = "code"
  /\ \E code \in {"PERSISTED_EVENT_CORRUPT", "NO_COMPONENT_OF_KIND", "ANY_DECODE_FAILED"} :
       /\ rpc' = Aborted(CodedError(code, declared_status(code), {}))
       /\ origin' = [key |-> code, args |-> {}, status |-> declared_status(code)]
  /\ stage' = "wire"
  /\ UNCHANGED <<hops, seen, lost>>

\* No server answers: grpc's own status, which has no trailer.
LinkFails ==
  /\ stage = "code"
  /\ \E code \in {"UNAVAILABLE", "DEADLINE_EXCEEDED"} :
       /\ rpc' = [code |-> code, message |-> Nothing, trailer |-> <<>>]
       /\ origin' = [key |-> Nothing, args |-> {}, status |-> code]
  /\ stage' = "wire" /\ lost' = TRUE
  /\ UNCHANGED <<hops, seen>>

ChannelIsClosed ==
  /\ stage = "code"
  /\ seen' = TransportError /\ lost' = TRUE
  /\ origin' = [key |-> Nothing, args |-> {}, status |-> "UNAVAILABLE"]
  /\ stage' = "seen"
  /\ UNCHANGED <<hops, rpc>>

\* The client raises what arrives.
Arrives ==
  /\ stage = "wire"
  /\ \E trailer \in {rpc.trailer, <<>>} :
       /\ seen' = GRPCError([rpc EXCEPT !.trailer = trailer])
       /\ lost' = (lost \/ trailer # rpc.trailer)
  /\ stage' = "seen"
  /\ UNCHANGED <<hops, origin, rpc>>

\* The caller is a handler too (external): it fails as the predicates say,
\* under the key and args it was given, or lets the client's error escape.
PassedOn(s) ==
  IF is_aborted(s) THEN Immediate(s.code, s.details)
  ELSE IF is_connection_error(s) THEN RetryableBug(s.code, "UNAVAILABLE", s.details)
  ELSE IF is_not_found(s) \/ is_precondition_failed(s) \/ is_invalid_argument(s)
    THEN Rejection(s.code, s.grpc_code, s.details)
  ELSE Bug(s.code, s.details)

PassesOn ==
  /\ stage = "seen" /\ hops < MaxHops
  /\ \E place \in Places, e \in {PassedOn(seen), AnyOther} :
       /\ Sends(place, e)
       /\ lost' = (lost \/ e = AnyOther)
  /\ hops' = hops + 1 /\ seen' = Nothing
  /\ UNCHANGED origin

Stops == stage = "seen" /\ UNCHANGED errorVars

ErrorNext ==
  \/ Rejects \/ Validates \/ Refuses \/ ReReads \/ HasBug \/ Escapes
  \/ RouterFails \/ LinkFails \/ ChannelIsClosed \/ Arrives \/ PassesOn \/ Stops

ErrorSpec == ErrorInit /\ [][ErrorNext]_errorVars
----------------------------------------------------------------------------
\* The key a failure was given is in what the caller sees, as the code or as
\* a cause of it, with each of its args under the same name: through a fold,
\* through a bug's cause, and through every component that passed it on
\* (router/errors.py flatten: "the key under name, each arg under
\* <name>.<arg>"), as long as trailers arrive; and no arg takes another's
\* name.
ReasonSurvives ==
  /\ stage = "seen" => \A c, d \in seen.details : c[1] = d[1] => c = d
  /\ (stage = "seen" /\ ~lost) =>
    \/ seen.code = origin.key /\ origin.args \subseteq seen.details
    \/ \E d \in seen.details :
         d[2] = origin.key /\ Under(d[1], origin.args) \subseteq seen.details

\* Whatever is lost on the way, a caller is never told to retry, to re-read
\* or that its command is refused unless the first failure meant it: the
\* status is the one given where it may be picked, or INTERNAL; and status()
\* and grpc_code are of one mind.
StatusIsGivenOrInternal ==
  (stage = "seen" /\ seen # TransportError) =>
    /\ seen.grpc_code \in {origin.status, "INTERNAL"}
    /\ seen.status.code = seen.grpc_code
=============================================================================
