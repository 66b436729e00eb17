---------------------------- MODULE QueryBuilder ----------------------------
(***************************************************************************)
(* The QueryBuilder of angzarr_client/builder.py, as it keeps its fields:  *)
(* two for the selection, _range and _temporal, and two for the target,    *)
(* _root and _correlation_id.  A setter that refuses its argument raises   *)
(* at once, before it has set anything.  Texts and times are their values: *)
(* what is parsed is abstract, whether it parses is not.                   *)
(***************************************************************************)
CONSTANTS
  Root, Correlation, Edition, NoEdition,
  Sequence,    \* the sequences a selection names
  Time,        \* the instants as_of_time is given that parse
  None

Bounds   == [lower : Sequence, upper : Sequence \cup {None}]
Temporal == [as_of : {"sequence"}, at : Sequence] \cup
            [as_of : {"time"}, at : Time]

Query    == [root : Root \cup {None}, correlation_id : Correlation \cup {None},
             edition : Edition, range : Bounds \cup {None},
             temporal : Temporal \cup {None}]

ASSUME NoneAssumption ==
  /\ None \notin Root \cup Correlation \cup Bounds \cup Temporal \cup Query
  /\ NoEdition \in Edition

VARIABLES
  _root, _correlation_id, _edition, _range, _temporal,
  query,       \* the query build returned last, as the server reads it
  last         \* the last call, and what it was given

selectionVars == <<_range, _temporal>>
targetVars    == <<_root, _correlation_id>>
vars == <<targetVars, selectionVars, _edition, query, last>>

\* QueryClient.query names a root, query_domain none.
Init ==
  /\ _root \in Root \cup {None}
  /\ _correlation_id = None /\ _edition = NoEdition
  /\ _range = None /\ _temporal = None
  /\ query = None /\ last = [op |-> "new", arg |-> None]

Call(op, arg) == last' = [op |-> op, arg |-> arg]

----------------------------------------------------------------------------
(* The setters. *)

\* Mutant: the root stays beside the correlation id.
ByCorrelationIdBeside(id) ==
  /\ _correlation_id' = id
  /\ Call("correlate", id)
  /\ UNCHANGED <<_root, selectionVars, _edition, query>>

ByCorrelationId(id) ==
  /\ _correlation_id' = id /\ _root' = None
  /\ Call("correlate", id)
  /\ UNCHANGED <<selectionVars, _edition, query>>

SetEdition(e) ==
  /\ _edition' = e
  /\ Call("edit", e)
  /\ UNCHANGED <<targetVars, selectionVars, query>>

\* range, and range_to.
SetRange(r) ==
  /\ _range' = r /\ _temporal' = None
  /\ Call("select", r)
  /\ UNCHANGED <<targetVars, _edition, query>>

\* Mutant: the range set before survives.
AsOfBesideRange(p) ==
  /\ _temporal' = p
  /\ Call("select", p)
  /\ UNCHANGED <<targetVars, _range, _edition, query>>

\* as_of_sequence, and as_of_time with a text that parses.
AsOf(p) ==
  /\ _temporal' = p /\ _range' = None
  /\ Call("select", p)
  /\ UNCHANGED <<targetVars, _edition, query>>

\* as_of_time with a text that does not parse, and by_correlation_id with
\* one that is no UUID.
Refuses ==
  /\ Call("refused", None)
  /\ UNCHANGED <<targetVars, selectionVars, _edition, query>>

----------------------------------------------------------------------------
(* build: each field is sent if it is set, and the range before the other. *)

Sent ==
  [root           |-> _root,
   correlation_id |-> _correlation_id,
   edition        |-> _edition,
   range          |-> _range,
   temporal       |-> IF _range # None THEN None ELSE _temporal]

\* build, alone or in get_event_book, get_events and get_pages.
Build ==
  /\ query' = Sent
  /\ Call("build", None)
  /\ UNCHANGED <<targetVars, selectionVars, _edition>>

Next ==
  \/ \E id \in Correlation : ByCorrelationId(id)
  \/ \E e \in Edition : SetEdition(e)
  \/ \E r \in Bounds : SetRange(r)
  \/ \E p \in Temporal : AsOf(p)
  \/ Refuses
  \/ Build

Spec == Init /\ [][Next]_vars
----------------------------------------------------------------------------
(* What the fields stand for, and what the server reads out of a query. *)

OneTarget(root, correlation) ==
  IF correlation # None THEN [by |-> "correlation", id |-> correlation]
                        ELSE [by |-> "root", id |-> root]

OneSelection(range, temporal) == IF range # None THEN range ELSE temporal

Slots == INSTANCE QuerySelection WITH
  Selection <- Bounds \cup Temporal,
  target    <- OneTarget(_root, _correlation_id),
  selection <- OneSelection(_range, _temporal),
  edition   <- _edition,
  query     <- IF query = None THEN None ELSE
                 [target    |-> OneTarget(query.root, query.correlation_id),
                  selection |-> OneSelection(query.range, query.temporal),
                  edition   |-> query.edition]

\* The two pairs of fields behave as the one slot each the builder promises:
\* whatever chain of setters, some of them refused, came before, a built
\* query holds the last selection and the last target.
SingleSlot == Slots!Spec

\* A query never names a correlation id beside a root, of which a server
\* would have to choose one (by_correlation_id: "instead of root").
NamesOneTarget ==
  query # None => query.root = None \/ query.correlation_id = None

\* Every variable keeps its type.
TypeOK ==
  /\ _root \in Root \cup {None} /\ _correlation_id \in Correlation \cup {None}
  /\ _edition \in Edition
  /\ _range \in Bounds \cup {None} /\ _temporal \in Temporal \cup {None}
  /\ last.op \in {"new", "correlate", "edit", "select", "refused", "build"}
=============================================================================
