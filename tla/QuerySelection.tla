--------------------------- MODULE QuerySelection ---------------------------
(***************************************************************************)
(* What a QueryBuilder promises (angzarr_client/builder.py, the comment on *)
(* its fields: "Single selection slot ... last-wins"): one slot for what   *)
(* of the stream is read, one for whose stream it is, each holding what    *)
(* was given last.                                                         *)
(***************************************************************************)
CONSTANTS
  Selection,     \* the selections: ranges, and points in sequence or time
  Correlation,   \* the correlation ids
  Root,          \* the root a builder may be made with
  Edition,       \* the editions' names, "" among them
  NoEdition,     \* ""
  None

VARIABLES
  last,          \* the last call: a setter and what it was given, or build
  target,        \* a root, a correlation id, or none
  selection,     \* the slot
  edition,
  query          \* the query built last

vars == <<last, target, selection, edition, query>>

Call(op, arg) == last' = [op |-> op, arg |-> arg]

Init ==
  /\ last = [op |-> "new", arg |-> None]
  /\ target \in [by : {"root"}, id : Root \cup {None}]
  /\ selection = None /\ edition = NoEdition /\ query = None

Select(s) ==
  /\ Call("select", s)
  /\ selection' = s
  /\ UNCHANGED <<target, edition, query>>

Retarget(id) ==
  /\ Call("correlate", id)
  /\ target' = [by |-> "correlation", id |-> id]
  /\ UNCHANGED <<selection, edition, query>>

Edit(e) ==
  /\ Call("edit", e)
  /\ edition' = e
  /\ UNCHANGED <<target, selection, query>>

\* A refused argument changes no slot.
Refuse ==
  /\ Call("refused", None)
  /\ UNCHANGED <<target, selection, edition, query>>

\* The query is what the slots hold, and leaves them as they are.
Build ==
  /\ Call("build", None)
  /\ query' = [target |-> target, selection |-> selection, edition |-> edition]
  /\ UNCHANGED <<target, selection, edition>>

Next == \/ \E s \in Selection : Select(s)
        \/ \E id \in Correlation : Retarget(id)
        \/ \E e \in Edition : Edit(e)
        \/ Refuse \/ Build

Spec == Init /\ [][Next]_vars
=============================================================================
