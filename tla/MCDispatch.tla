----------------------------- MODULE MCDispatch -----------------------------
(* What a component is asked, and what it answers: an aggregate and its     *)
(* history, deliveries to a policy or a projector, or the pages of a book   *)
(* read by hand.  A behaviour is of one of them.                            *)
EXTENDS AggregateDispatch, EventDelivery, PageDecoding, TLC

VARIABLE made      \* which of them it is

\* An aggregate of two units, each unset or holding where and by whom it was
\* set.  "set" reads the page's sequence and meta, "clear" raises on a unit
\* that is not set, "note" has no applier.
CONSTANTS u1, u2

MCUnit    == {u1, u2}
MCState   == [MCUnit -> {<<>>, <<"by hand">>} \cup ((0..MaxLog + 1) \X Input)]
MCFactory == [u \in MCUnit |-> <<>>]
MCEvent   == {"set1", "set2", "clear1", "note"}

MCDecisions ==
  {<<>>, <<"set1">>, <<"clear1">>, <<"note", "set2">>}

MCHasApplier(e) == e # "note"

MCApply(s, p) ==
  CASE p.event = "set1" -> [s EXCEPT ![u1] = <<p.seq, p.by>>]
    [] p.event = "set2" -> [s EXCEPT ![u2] = <<p.seq, p.by>>]
    [] p.event = "clear1" -> IF s[u1] = <<>> THEN Raised
                             ELSE [s EXCEPT ![u1] = <<>>]

\* A handler leaves the state alone, or sets a unit that is not set in it.
MCLeft(s) == {s, IF s[u1] = <<>> THEN [s EXCEPT ![u1] = <<"by hand">>] ELSE s}

MCChanged(s, t) == {u \in MCUnit : s[u] # t[u]}

\* Two deliveries at once, on two threads, of a stream of three events; a
\* book of two pages, of two types, an empty message among them.
MCType        == {"declared", "undeclared"}
MCDeclared    == {"declared"}
MCOutput      == {"none", "some"}
MCMessageType == {"A", "B"}
MCContent     == {"x", "empty"}

MCSymmetry ==
  Permutations(Input) \cup Permutations(Call) \cup Permutations(Worker)

aggregateVars == vars

MCInit ==
  /\ made \in {"aggregate", "events", "reader"}
  /\ IF made = "aggregate" THEN Init
     ELSE hasResolver = FALSE /\ log = <<>> /\ snapshots = {}
          /\ answer = None /\ commit = None /\ untouched = TRUE
  /\ DeliveryInit
  /\ made # "events" => kind = "policy" /\ stream = <<>>
  /\ IF made = "reader" THEN ReaderInit
     ELSE book = <<>> /\ reader = None /\ next = 1 /\ read = <<>> /\ raised = Unset

MCNext ==
  /\ UNCHANGED made
  /\ \/ made = "aggregate" /\ Next /\ UNCHANGED <<deliveryVars, readerVars>>
     \/ made = "events" /\ DeliveryNext /\ UNCHANGED <<aggregateVars, readerVars>>
     \/ made = "reader" /\ ReaderNext /\ UNCHANGED <<aggregateVars, deliveryVars>>

MCSpec == MCInit /\ [][MCNext]_<<made, aggregateVars, deliveryVars, readerVars>>
=============================================================================
