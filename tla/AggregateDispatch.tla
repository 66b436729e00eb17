------------------------- MODULE AggregateDispatch -------------------------
(***************************************************************************)
(* AggregateDispatch.handle (angzarr_client/router/aggregate.py, with the  *)
(* fold of router/context.py), over the history its answers build.  The    *)
(* router keeps nothing between deliveries: what makes an answer right or  *)
(* wrong is the history it extends and the snapshots taken on the way.     *)
(*                                                                         *)
(* The coordinator, which keeps the history, builds each delivery and      *)
(* judges each answer, is not part of the repository: Request, Commit and  *)
(* Drop stand for it as the router's code and comments rely on it.  It     *)
(* appends an answer only to the history the answer was made from, so one  *)
(* answer is under way at a time: an answer another one overtook is        *)
(* dropped.  Business code is the CONSTANT operators.                      *)
(*                                                                         *)
(* A handler is given the very state that the answer's snapshot is then    *)
(* made of: no copy is taken before it runs.  Nothing in the code keeps it *)
(* from changing that state, and nothing says that it must not; what it    *)
(* does is the constant Left, and `kept` tells apart what no handler       *)
(* touched.  An answer is of the history only then, and the properties     *)
(* below say so.                                                           *)
(***************************************************************************)
EXTENDS Naturals, Sequences, FiniteSets

CONSTANTS
  Input,           \* the ids of commands, facts and refusals
  State,           \* the values of the state message
  Factory,         \* its fresh value
  Event,           \* what a handler may record
  Decisions,       \* the sequences of events handlers record
  HasApplier(_),   \* whether the rebuilder has an applier for an event
  Apply(_, _),     \* the applier: a state and a page to a state, or Raised
  Changed(_, _),   \* the resolver: the conflict units two states differ in
  Left(_),         \* what a handler may leave of the state it is handed
  MaxLog,          \* bound: the longest history explored
  Raised,          \* business code raised
  None             \* no value

ASSUME BusinessAssumption ==
  /\ Factory \in State /\ Raised \notin State /\ None \notin State
  /\ Decisions \subseteq Seq(Event)
  /\ MaxLog \in Nat

ASSUME LeftAssumption == \A s \in State : s \in Left(s) /\ Left(s) \subseteq State

VARIABLES
  hasResolver, \* with_commutative was called
  log,         \* the aggregate's pages, by the coordinator's order
  snapshots,   \* the snapshot the coordinator keeps of it, if any
  answer,      \* the router's answer, until the coordinator judges it
  commit,      \* history: what the last step committed, if it did, as its
               \* handler saw it
  untouched    \* history: no committed answer's handler, nor that of the
               \* snapshot it began with, changed the state it was handed

vars == <<hasResolver, log, snapshots, answer, commit, untouched>>

Modes == {"STRICT", "COMMUTATIVE", "AGGREGATE_HANDLES"}

\* The arms of a page's body and how its type is routed.
Routes == {"command", "unknown_command", "fact", "unknown_fact",
           "refusal", "unknown_refusal", "bad_refusal"}
Facts  == Routes \ {"command", "unknown_command"}

Init ==
  /\ hasResolver \in BOOLEAN
  /\ log = <<>> /\ snapshots = {}
  /\ answer = None
  /\ commit = None /\ untouched = TRUE
----------------------------------------------------------------------------
(* The router. *)

\* fold: one page.  An event type without an applier is passed over; the
\* first applier that raises ends the fold.
ApplyPage(s, p) ==
  IF s = Raised \/ ~HasApplier(p.event) THEN s ELSE Apply(s, p)

Fold(s, pages) ==
  LET after[n \in 0..Len(pages)] ==
        IF n = 0 THEN s ELSE ApplyPage(after[n - 1], pages[n])
  IN  after[Len(pages)]

\* start_state: the delivered snapshot's state, else a fresh one.
StartState(r) == IF r.snapshot = None THEN Factory ELSE r.snapshot.state

\* Mutant: the page at the expected sequence counts as seen.
SeenTooMuch(r) == Cardinality({n \in DOMAIN r.pages : r.pages[n].seq <= r.expected})

\* The number of pages the input had seen, which the code takes from the
\* front of the book.
Seen(r) == Cardinality({n \in DOMAIN r.pages : r.pages[n].seq < r.expected})

Window(r) == SubSeq(r.pages, Seen(r) + 1, Len(r.pages))

\* The state all pages give.
HeadState(r) == Fold(Fold(StartState(r), SubSeq(r.pages, 1, Seen(r))), Window(r))

\* What the handler leaves of that state, if it is called at all.
LeftOf(state) == IF state = Raised THEN {Raised} ELSE Left(state)

\* Mutant: no copy is taken, so the later folds show in it.
BeforeShared(r) == Fold(StartState(r), r.pages)

\* The copy of the state as the input had seen it.
Before(r) == Fold(StartState(r), SubSeq(r.pages, 1, Seen(r)))

\* Mutant: the first event folds at the sequence after its own.
EmittedOneLate(r, d) ==
  [n \in DOMAIN d.events |-> [event |-> d.events[n], seq |-> r.next + n, by |-> d.by]]

\* The decision's own events as they will be persisted: at the sequences
\* they will get, with the meta (event_meta) they will be stamped with.
Emitted(r, d) ==
  [n \in DOMAIN d.events |->
     [event |-> d.events[n], seq |-> r.next + n - 1, by |-> d.by]]

\* _decide and _ingest: how the input's type is refused, if it is.
RouteCode(r) ==
  IF r.route = "unknown_command" THEN "UNKNOWN_COMMAND_TYPE"
  ELSE IF r.route = "unknown_fact" THEN "NO_FACT_HANDLER"
  ELSE IF r.route = "bad_refusal" THEN "ANY_DECODE_FAILED"
  ELSE IF r.route = "unknown_refusal" THEN "NO_REFUSAL_HANDLER"
  ELSE "OK"

Failed(code) == [code |-> code]

\* What the handler of input i did: the events it recorded (or Raised), the
\* state it left, whether it settled the conflict it was shown.
Decided(i, events, left, settles) ==
  [by |-> i, events |-> events, left |-> left, settles |-> settles]

\* The response: the events, the state after them, and the conflict report
\* of the input's mode; with it, what the coordinator knows of its delivery.
\* The head of the report is copied from what the handler left.
Response(r, state, d) ==
  LET after == Fold(d.left, Emitted(r, d))
  IN  [code |-> "OK", events |-> d.events, state |-> after,
       by |-> d.by, mode |-> r.mode, expected |-> r.expected,
       settled |-> r.mode = "AGGREGATE_HANDLES" /\ d.settles,
       window |-> IF r.mode = "AGGREGATE_HANDLES" THEN Window(r) ELSE <<>>,
       windowUnits |-> IF r.mode = "COMMUTATIVE"
                         THEN Changed(Before(r), d.left) ELSE {},
       commandUnits |-> IF r.mode = "COMMUTATIVE"
                          THEN Changed(d.left, after) ELSE {},
       kept |-> d.left = state /\ (r.snapshot = None \/ r.snapshot.kept)]

\* Mutant: the decision's own events are not folded before the answer.
AnswerUnfolded(r, state, d) ==
  IF RouteCode(r) # "OK" THEN Failed(RouteCode(r))
  ELSE IF r.corrupt THEN Failed("PERSISTED_EVENT_CORRUPT")
  ELSE IF state = Raised THEN Failed("FOLD_FAILED")
  ELSE IF d.events = Raised THEN Failed("ESCAPED")
  ELSE [Response(r, state, [d EXCEPT !.events = <<>>]) EXCEPT !.events = d.events]

\* handle, with the state that all pages give, and what the handler does: the
\* first check that fails answers.  A fact under COMMUTATIVE is not refused
\* for want of a resolver: calling the missing one is what fails, at the end.
Answer(r, state, d) ==
  IF RouteCode(r) # "OK" THEN Failed(RouteCode(r))
  ELSE IF r.mode = "COMMUTATIVE" /\ ~hasResolver /\ r.route \notin Facts
    THEN Failed("CONFLICT_RESOLUTION_UNSUPPORTED")
  ELSE IF r.corrupt THEN Failed("PERSISTED_EVENT_CORRUPT")
  ELSE IF state = Raised THEN Failed("FOLD_FAILED")
  ELSE IF d.events = Raised THEN Failed("ESCAPED")
  ELSE IF Fold(d.left, Emitted(r, d)) = Raised THEN Failed("FOLD_FAILED_EMITTED")
  ELSE IF r.mode = "COMMUTATIVE" /\ ~hasResolver THEN Failed("ESCAPED")
  ELSE Response(r, state, d)
----------------------------------------------------------------------------
(* The coordinator (external), and the deliveries it makes. *)

\* A delivery at the end of the log: a snapshot no newer than what the
\* sender has seen, if one is chosen, and every page after it.
Request(route, mode, expected, snapshot, corrupt) ==
  [route |-> route, mode |-> mode, expected |-> expected,
   snapshot |-> snapshot, corrupt |-> corrupt, next |-> Len(log),
   pages |-> SubSeq(log, IF snapshot = None THEN 1 ELSE snapshot.at + 1,
                    Len(log))]

\* An input is delivered and answered.  A command may be stale; only a
\* command's Handling says what to do then.
Handle ==
  /\ answer = None
  /\ \E route \in Routes, mode \in Modes, expected \in 0..Len(log),
        s \in {None} \cup snapshots, corrupt \in BOOLEAN :
       /\ route # "command" => expected = Len(log)
       /\ route \notin {"command", "fact"} => mode = "STRICT"
       /\ s # None => s.at <= expected
       /\ corrupt => s # None
       /\ LET r     == Request(route, mode, expected, s, corrupt)
              state == HeadState(r)
          IN  \E i \in Input, events \in Decisions \cup {Raised},
                 left \in LeftOf(state), settles \in BOOLEAN :
                /\ settles => mode = "AGGREGATE_HANDLES"
                /\ route \in Facts => events # <<>>
                /\ RouteCode(r) # "OK" \/ corrupt => events = Raised
                /\ answer' = Answer(r, state, Decided(i, events, left, settles))
  /\ commit' = None
  /\ UNCHANGED <<hasResolver, log, snapshots, untouched>>

\* What the coordinator accepts of a stale command.
Accepted(a) ==
  \/ a.expected = Len(log)
  \/ a.mode = "COMMUTATIVE" /\ a.windowUnits \cap a.commandUnits = {}
  \/ a.mode = "AGGREGATE_HANDLES" /\ a.settled

\* The answer is appended; its state may be kept as a snapshot.
Commit ==
  /\ answer # None /\ answer.code = "OK" /\ Accepted(answer)
  /\ Len(log) + Len(answer.events) <= MaxLog
  /\ LET from == Len(log)
         to   == from + Len(answer.events)
     IN  /\ log' = log \o [n \in DOMAIN answer.events |->
                  [event |-> answer.events[n], seq |-> from + n - 1,
                   by |-> answer.by]]
         /\ snapshots' \in {snapshots, {[at |-> to, state |-> answer.state,
                                       kept |-> answer.kept]}}
         /\ commit' = [mode |-> answer.mode, expected |-> answer.expected,
                       from |-> from, to |-> to, window |-> answer.window,
                       kept |-> answer.kept]
  /\ untouched' = (untouched /\ answer.kept)
  /\ answer' = None
  /\ UNCHANGED hasResolver

\* The sender is told the router's code, or of a conflict; or the call is
\* lost, or was overtaken: nothing is kept, and the input may come again.
Drop ==
  /\ answer # None
  /\ answer' = None /\ commit' = None
  /\ UNCHANGED <<hasResolver, log, snapshots, untouched>>

Next == Handle \/ Commit \/ Drop

Spec == Init /\ [][Next]_vars
----------------------------------------------------------------------------
\* What replaying the first n pages from a fresh state gives.
Replay(n) == Fold(Factory, SubSeq(log, 1, n))

\* A snapshot that no handler touched is what a replay of the whole history
\* up to it gives: folding the decision's own events at decide time, on top
\* of an older snapshot or of none, reads the sequences and metas that replay
\* reads (CommandContext.event_meta: "so an applier reads at decide time what
\* replay hands it").  One touched snapshot spoils those made from it, and
\* none that is made from a replay after it.
SnapshotIsReplay == \A s \in snapshots : s.kept => s.state = Replay(s.at)

\* No event that an applier cannot fold is ever persisted, so the history of
\* an aggregate whose handlers touch no state always replays: an answer of
\* ROUTER_REASON_FOLD_FAILED, which would make every later command fail, is
\* never given.
HistoryFolds ==
  untouched =>
    /\ Replay(Len(log)) # Raised
    /\ answer # None => answer.code # "FOLD_FAILED"

\* A stale COMMUTATIVE command that was accepted changed no conflict unit
\* that the events it had not seen changed: the report's window and command
\* units are cut at the right states, whichever snapshot was delivered, if
\* its handler and the snapshot's left them alone.
CommutativeCommitsAreDisjoint ==
  (/\ commit # None /\ commit.mode = "COMMUTATIVE" /\ commit.kept
   /\ commit.expected < commit.from) =>
    Changed(Replay(commit.expected), Replay(commit.from))
      \cap Changed(Replay(commit.from), Replay(commit.to)) = {}

\* A command accepted under AGGREGATE_HANDLES was decided by a handler that
\* was handed exactly the events its sender had not seen.
ConflictWindowIsComplete ==
  commit # None /\ commit.mode = "AGGREGATE_HANDLES" =>
    commit.window = SubSeq(log, commit.expected + 1, commit.from)
=============================================================================
