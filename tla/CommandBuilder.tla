--------------------------- MODULE CommandBuilder ---------------------------
(***************************************************************************)
(* The CommandBuilder of angzarr_client/builder.py: setters in any order   *)
(* and number, build and the three ways to execute.  Its fields are tested *)
(* in three ways, for None (payload, expected sequence, correlation id),   *)
(* for emptiness (type URL) and for UNSPECIFIED (conflict resolution): 0   *)
(* and "no bytes" are values to send, "" and UNSPECIFIED are not.          *)
(***************************************************************************)
EXTENDS Naturals, Sequences, FiniteSetsExt

CONSTANTS
  TypeUrl, NoTypeUrl,             \* the type URLs given, "" among them
  Payload,                        \* the encoded payloads, none empty but one
  CorrelationId,
  Expected,                       \* expected sequences, 0 among them
  ConflictResolution,             \* conflict resolutions
  NoResolution,                   \* UNSPECIFIED
  MaxCalls,                       \* setter calls of one builder (bound)
  Absent                          \* None

ASSUME AbsentAssumption ==
  /\ Absent \notin ConflictResolution
  /\ \A e \in Expected, r \in ConflictResolution \cup {NoResolution} :
       [expected_sequence |-> e, conflict_resolution |-> r] # Absent
  /\ \A r \in ConflictResolution :
       [expected_sequence |-> Absent, conflict_resolution |-> r] # Absent

Fields == {"type_url", "payload", "correlation_id", "expected_sequence",
           "conflict_resolution"}
Modes  == {"build", "async", "decision", "simple"}

VARIABLES
  field,      \* the builder's fields, by name
  result,     \* what the last build, or the build of an execute, came to
  calls       \* the setter calls so far: what each of them gave

commandVars == <<field, result, calls>>

CommandInit ==
  /\ field = [f \in Fields |->
                IF f = "conflict_resolution" THEN NoResolution ELSE Absent]
  /\ result = [is |-> "none"] /\ calls = <<>>

\* A setter: the fields it is given, and no other.
Set(given) ==
  /\ Len(calls) < MaxCalls
  /\ field' = [f \in Fields |-> IF f \in DOMAIN given THEN given[f] ELSE field[f]]
  /\ calls' = Append(calls, given)
  /\ UNCHANGED result

WithCommand == \E u \in TypeUrl, p \in Payload :
                 Set([type_url |-> u, payload |-> p])
WithTypeUrl == \E u \in TypeUrl : Set([type_url |-> u])
WithPayload == \E p \in Payload : Set([payload |-> p])
WithCorrelationId == \E id \in CorrelationId : Set([correlation_id |-> id])
WithExpectedSequence == \E n \in Expected : Set([expected_sequence |-> n])
WithConflictResolution == \E r \in ConflictResolution : Set([conflict_resolution |-> r])

RefusedAs(code) == result' = [is |-> "refused", code |-> code]

\* with_correlation_id of a text that is no UUID.
RefuseCorrelationId ==
  /\ RefusedAs("PROTO_UUID_INVALID")
  /\ UNCHANGED <<field, calls>>

Handling(expected, resolution) ==
  IF expected = Absent /\ resolution = NoResolution THEN Absent
  ELSE [expected_sequence |-> expected, conflict_resolution |-> resolution]

\* Mutant: an expected sequence is tested for truth, and 0 is dropped.
BookDroppingZero ==
  [type_url |-> field["type_url"], payload |-> field["payload"],
   correlation_id |-> field["correlation_id"],
   handling |-> Handling(IF field["expected_sequence"] = 0 THEN Absent
                           ELSE field["expected_sequence"],
                         field["conflict_resolution"])]

Book ==
  [type_url |-> field["type_url"], payload |-> field["payload"],
   correlation_id |-> field["correlation_id"],
   handling |-> Handling(field["expected_sequence"],
                         field["conflict_resolution"])]

\* build, and the three executes, which send what build returns: DECISION
\* (execute), ASYNC (execute_async), SIMPLE (execute_sync).
BuildCommand(mode) ==
  /\ IF field["type_url"] \in {Absent, NoTypeUrl}
       THEN RefusedAs("COMMAND_TYPE_URL_MISSING")
     ELSE IF field["payload"] = Absent THEN RefusedAs("COMMAND_PAYLOAD_MISSING")
     ELSE result' = [is |-> "book", mode |-> mode, book |-> Book,
                     after |-> Len(calls)]
  /\ UNCHANGED <<field, calls>>

CommandNext ==
  \/ WithCommand \/ WithTypeUrl \/ WithPayload
  \/ WithCorrelationId \/ WithExpectedSequence \/ WithConflictResolution
  \/ RefuseCorrelationId
  \/ \E mode \in Modes : BuildCommand(mode)

CommandSpec == CommandInit /\ [][CommandNext]_commandVars
----------------------------------------------------------------------------
\* What the first n calls gave a field last, or Absent.
LastGiven(f, n) ==
  LET at == {k \in 1..n : f \in DOMAIN calls[k]}
  IN  IF at = {} THEN Absent ELSE calls[Max(at)][f]

\* A book holds of each field what the last call that named it gave, through
\* any chain of setters: an expected sequence of 0 is sent ("0 for a new
\* stream, sent as set"), one that was not given is not, a payload of no bytes
\* is, a resolution is the last given or else UNSPECIFIED, one taken back to
\* UNSPECIFIED as well, and Handling is there only if something of it is.
BookIsWhatWasGiven ==
  result.is = "book" =>
    LET n == result.after
        given      == LastGiven("conflict_resolution", n)
        resolution == IF given = Absent THEN NoResolution ELSE given
        expected   == LastGiven("expected_sequence", n)
        handling   == result.book.handling
    IN  /\ result.book.type_url = LastGiven("type_url", n)
        /\ result.book.payload = LastGiven("payload", n)
        /\ result.book.correlation_id = LastGiven("correlation_id", n)
        /\ handling = Absent <=> expected = Absent /\ resolution = NoResolution
        /\ handling # Absent =>
             /\ handling.expected_sequence = expected
             /\ handling.conflict_resolution = resolution
=============================================================================
