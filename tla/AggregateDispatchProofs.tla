---------------------- MODULE AggregateDispatchProofs ----------------------
(***************************************************************************)
(* An aggregate and its history, for every business logic: states, events, *)
(* appliers, decisions and conflict units are parameters, and the history  *)
(* is of any length.  What a handler leaves of the state it is handed is a *)
(* parameter too: what is proved of states is of those no handler touched. *)
(*                                                                         *)
(* The argument is FoldConcat: a snapshot and what follows it, a window    *)
(* and what precedes it, a history and what is appended, fold to the same  *)
(* state as the whole.  It rests on induction over the number of pages.    *)
(***************************************************************************)
EXTENDS AggregateDispatch, Induction, FiniteSetTheorems

\* f holds the stages of folding the first k of pages from s.
IsFold(f, s, pages, k) ==
  f = [n \in 0..k |-> IF n = 0 THEN s ELSE ApplyPage(f[n - 1], pages[n])]

\* The stages of every fold exist: Fold's CHOOSE has a witness.
LEMMA FoldExists ==
  ASSUME NEW s, NEW pages, NEW n \in Nat
  PROVE  \E f : IsFold(f, s, pages, n)
<1> DEFINE T == {k \in Nat : \E f : IsFold(f, s, pages, k)}
<1>1. 0 \in T
  <2>1. IsFold([m \in 0..0 |-> s], s, pages, 0)
    BY DEF IsFold
  <2> QED
    BY <2>1
<1>2. ASSUME NEW k \in Nat, k \in T PROVE k + 1 \in T
  <2>1. PICK f : IsFold(f, s, pages, k)
    BY <1>2
  <2> DEFINE g == [m \in 0..(k + 1) |->
                     IF m = k + 1 THEN ApplyPage(f[k], pages[k + 1]) ELSE f[m]]
  <2>2. IsFold(g, s, pages, k + 1)
    BY <2>1 DEF IsFold
  <2> HIDE DEF g
  <2> QED
    BY <2>2
<1> HIDE DEF T
<1>3. n \in T
  BY <1>1, <1>2, NatInduct
<1> QED
  BY <1>3 DEF T

\* Fold is the last of its stages.
LEMMA FoldStages ==
  ASSUME NEW s, NEW pages, Len(pages) \in Nat
  PROVE  \E f : /\ IsFold(f, s, pages, Len(pages))
                /\ Fold(s, pages) = f[Len(pages)]
<1> DEFINE f == CHOOSE g : IsFold(g, s, pages, Len(pages))
<1>1. \E g : IsFold(g, s, pages, Len(pages))
  BY FoldExists
<1>2. IsFold(f, s, pages, Len(pages))
  BY <1>1, Zenon
<1>3. Fold(s, pages) = f[Len(pages)]
  BY Zenon DEF Fold, IsFold
<1> HIDE DEF f
<1> QED
  BY <1>2, <1>3

\* Each stage applies one page to the one before it.
LEMMA FoldStep ==
  ASSUME NEW f, NEW s, NEW pages, NEW k \in Nat, NEW n \in 0..(k - 1),
         IsFold(f, s, pages, k)
  PROVE  f[n + 1] = ApplyPage(f[n], pages[n + 1])
BY DEF IsFold

\* Folding no page changes nothing.
LEMMA FoldEmpty ==
  ASSUME NEW s
  PROVE  Fold(s, <<>>) = s
<1>1. PICK f : IsFold(f, s, <<>>, Len(<<>>)) /\ Fold(s, <<>>) = f[Len(<<>>)]
  BY FoldStages
<1> QED
  BY <1>1 DEF IsFold

\* The length of a concatenation.
LEMMA ConcatLength ==
  ASSUME NEW E, NEW s \in Seq(E), NEW t \in Seq(E)
  PROVE  Len(s \o t) = Len(s) + Len(t)
OBVIOUS

\* Folding two runs of pages is folding the one and then the other: what a
\* snapshot, a window or emitted events rely on.
LEMMA FoldConcat ==
  ASSUME NEW E, NEW s, NEW a \in Seq(E), NEW b \in Seq(E)
  PROVE  Fold(s, a \o b) = Fold(Fold(s, a), b)
<1>0. a \o b \in Seq(E) /\ Len(a \o b) \in Nat
  OBVIOUS
<1>1. PICK f : IsFold(f, s, a \o b, Len(a \o b)) /\ Fold(s, a \o b) = f[Len(a \o b)]
  BY <1>0, FoldStages
<1>2. PICK g : IsFold(g, s, a, Len(a)) /\ Fold(s, a) = g[Len(a)]
  BY FoldStages
<1>3. PICK h : IsFold(h, g[Len(a)], b, Len(b)) /\ Fold(g[Len(a)], b) = h[Len(b)]
  BY FoldStages
<1>4. /\ Len(a) \in Nat /\ Len(b) \in Nat /\ Len(a \o b) = Len(a) + Len(b)
      /\ \A n \in 1..Len(a) : (a \o b)[n] = a[n]
      /\ \A n \in 1..Len(b) : (a \o b)[Len(a) + n] = b[n]
  OBVIOUS
<1>5. f[Len(a)] = g[Len(a)]
  <2> DEFINE T == {n \in Nat : n <= Len(a) => f[n] = g[n]}
  <2>1. 0 \in T
    BY <1>1, <1>2, <1>4 DEF IsFold
  <2>2. ASSUME NEW n \in Nat, n \in T PROVE n + 1 \in T
    <3>1. SUFFICES ASSUME n + 1 <= Len(a) PROVE f[n + 1] = g[n + 1]
      OBVIOUS
    <3>2. f[n] = g[n] /\ n \in 0..Len(a) /\ n + 1 \in 1..Len(a)
      BY <2>2, <3>1, <1>4
    <3>3. f[n + 1] = ApplyPage(f[n], (a \o b)[n + 1])
      BY <1>1, <1>4, <3>2 DEF IsFold
    <3>4. g[n + 1] = ApplyPage(g[n], a[n + 1])
      BY <1>2, <1>4, <3>2, FoldStep
    <3> QED
      BY <3>2, <3>3, <3>4, <1>4
  <2> HIDE DEF T
  <2>3. Len(a) \in T
    BY <2>1, <2>2, NatInduct, <1>4
  <2> QED
    BY <2>3 DEF T
<1>6. f[Len(a) + Len(b)] = h[Len(b)]
  <2> DEFINE T == {n \in Nat : n <= Len(b) => f[Len(a) + n] = h[n]}
  <2>1. 0 \in T
    BY <1>3, <1>4, <1>5 DEF IsFold
  <2>2. ASSUME NEW n \in Nat, n \in T PROVE n + 1 \in T
    <3>1. SUFFICES ASSUME n + 1 <= Len(b) PROVE f[Len(a) + (n + 1)] = h[n + 1]
      OBVIOUS
    <3>2. /\ f[Len(a) + n] = h[n] /\ n \in 0..Len(b) /\ n + 1 \in 1..Len(b)
          /\ Len(a) + n + 1 \in 1..(Len(a) + Len(b))
      BY <2>2, <3>1, <1>4
    <3>3. f[Len(a) + n + 1] = ApplyPage(f[Len(a) + n], (a \o b)[Len(a) + n + 1])
      <4> DEFINE m == Len(a) + n
                 c == a \o b
                 k == Len(c)
      <4>1. k \in Nat /\ m \in 0..(k - 1)
        BY <1>4, <3>2
      <4>2. IsFold(f, s, c, k)
        BY <1>1
      <4> HIDE DEF m, c, k
      <4>3. f[m + 1] = ApplyPage(f[m], c[m + 1])
        BY <4>1, <4>2, FoldStep
      <4> QED
        BY <4>3 DEF m, c
    <3>4. h[n + 1] = ApplyPage(h[n], b[n + 1])
      BY <1>3, <1>4, <3>2, FoldStep
    <3> QED
      BY <3>2, <3>3, <3>4, <1>4
  <2> HIDE DEF T
  <2>3. Len(b) \in T
    BY <2>1, <2>2, NatInduct, <1>4
  <2> QED
    BY <2>3 DEF T
<1> QED
  BY <1>1, <1>2, <1>3, <1>4, <1>6

\* A piece of a sequence.
LEMMA Cuts ==
  ASSUME NEW E, NEW s \in Seq(E), NEW i \in 0..Len(s), NEW j \in i..Len(s)
  PROVE  /\ SubSeq(s, i + 1, j) \in Seq(E) /\ Len(SubSeq(s, i + 1, j)) = j - i
         /\ \A n \in 1..(j - i) : SubSeq(s, i + 1, j)[n] = s[i + n]
OBVIOUS

\* Two pieces that meet are one.
LEMMA CutsMeet ==
  ASSUME NEW E, NEW s \in Seq(E), NEW i \in 0..Len(s), NEW j \in i..Len(s)
  PROVE  SubSeq(s, 1, i) \o SubSeq(s, i + 1, j) = SubSeq(s, 1, j)
OBVIOUS

\* A piece of a suffix is a piece of the whole.
LEMMA CutOfCut ==
  ASSUME NEW E, NEW s \in Seq(E), NEW i \in 0..Len(s), NEW j \in i..Len(s)
  PROVE  LET p == SubSeq(s, i + 1, Len(s))
         IN  /\ SubSeq(p, 1, j - i) = SubSeq(s, i + 1, j)
             /\ SubSeq(p, j - i + 1, Len(p)) = SubSeq(s, j + 1, Len(s))
OBVIOUS

\* What was cut before an append is cut the same after it.
LEMMA CutOfConcat ==
  ASSUME NEW E, NEW s \in Seq(E), NEW t \in Seq(E), NEW i \in 0..Len(s), NEW j \in i..Len(s)
  PROVE  SubSeq(s \o t, i + 1, j) = SubSeq(s, i + 1, j)
OBVIOUS

PageOfLog == [event : Event, seq : Nat, by : Input]

\* The history's pages are numbered from zero, without a gap.
LogIsNumbered == /\ log \in Seq(PageOfLog)
                 /\ \A n \in DOMAIN log : log[n].seq = n - 1

\* SnapshotIsReplay, of snapshots that lie in the history; none is touched
\* while no handler touched a state.
SnapshotsReplay ==
  \A s \in snapshots :
    /\ s.at \in 0..Len(log)
    /\ s.kept => s.state = Replay(s.at)
    /\ untouched => s.kept

\* The pages the coordinator appends for answer a.
Persisted(a, at) ==
  [n \in DOMAIN a.events |-> [event |-> a.events[n], seq |-> at + n - 1, by |-> a.by]]

\* What the waiting answer of an aggregate may say: it was computed against
\* the whole history, whatever snapshot, expected position and mode it was
\* asked with, and the sets and window it carries are the history's own.
Fits(a) ==
  /\ untouched => a.code # "FOLD_FAILED"
  /\ a.code = "OK" =>
       /\ a.expected \in 0..Len(log) /\ a.by \in Input
       /\ a.events \in Seq(Event)
       /\ a.state # Raised
       /\ a.kept => a.state = Fold(Replay(Len(log)), Persisted(a, Len(log)))
       /\ a.mode = "AGGREGATE_HANDLES" =>
            a.window = SubSeq(log, a.expected + 1, Len(log))
       /\ a.kept /\ a.mode = "COMMUTATIVE" =>
            /\ a.windowUnits = Changed(Replay(a.expected), Replay(Len(log)))
            /\ a.commandUnits = Changed(Replay(Len(log)), a.state)

AnswerFits == answer # None => Fits(answer)

\* The inductive invariant of an aggregate and its history.
IInv == /\ LogIsNumbered
        /\ SnapshotsReplay
        /\ HistoryFolds
        /\ AnswerFits
        /\ CommutativeCommitsAreDisjoint
        /\ ConflictWindowIsComplete

\* A piece of the history, and the numbers of its pages.
LEMMA LogCut ==
  ASSUME LogIsNumbered, NEW i \in 0..Len(log), NEW j \in i..Len(log)
  PROVE  /\ SubSeq(log, i + 1, j) \in Seq(PageOfLog)
         /\ Len(SubSeq(log, i + 1, j)) = j - i
         /\ \A n \in 1..(j - i) : SubSeq(log, i + 1, j)[n].seq = i + n - 1
<1>1. log \in Seq(PageOfLog) /\ DOMAIN log = 1..Len(log) /\ Len(log) \in Nat
  BY DEF LogIsNumbered
<1>2. /\ SubSeq(log, i + 1, j) \in Seq(PageOfLog)
      /\ Len(SubSeq(log, i + 1, j)) = j - i
      /\ \A n \in 1..(j - i) : SubSeq(log, i + 1, j)[n] = log[i + n]
  BY <1>1, Cuts
<1>3. \A n \in 1..(j - i) : log[i + n].seq = i + n - 1
  BY <1>1 DEF LogIsNumbered
<1> QED
  BY <1>2, <1>3

\* Replaying on from an earlier replay is replaying the whole.
LEMMA ReplayOn ==
  ASSUME LogIsNumbered, NEW i \in 0..Len(log), NEW j \in i..Len(log)
  PROVE  Fold(Replay(i), SubSeq(log, i + 1, j)) = Replay(j)
<1>1. log \in Seq(PageOfLog) /\ Len(log) \in Nat
  BY DEF LogIsNumbered
<1>2. SubSeq(log, 1, i) \in Seq(PageOfLog) /\ SubSeq(log, i + 1, j) \in Seq(PageOfLog)
  BY <1>1, LogCut, 0 \in 0..Len(log), 0 + 1 = 1
<1>3. SubSeq(log, 1, i) \o SubSeq(log, i + 1, j) = SubSeq(log, 1, j)
  BY <1>1, CutsMeet
<1>4. Fold(Factory, SubSeq(log, 1, i) \o SubSeq(log, i + 1, j))
        = Fold(Fold(Factory, SubSeq(log, 1, i)), SubSeq(log, i + 1, j))
  <2> DEFINE a == SubSeq(log, 1, i)
             b == SubSeq(log, i + 1, j)
  <2>1. a \in Seq(PageOfLog) /\ b \in Seq(PageOfLog)
    BY <1>2
  <2> HIDE DEF a, b
  <2>2. Fold(Factory, a \o b) = Fold(Fold(Factory, a), b)
    BY <2>1, FoldConcat
  <2> QED
    BY <2>2 DEF a, b
<1> QED
  BY <1>3, <1>4 DEF Replay

\* A request's window is the history after the expected position, the state
\* before it and the head state are replays, whichever snapshot came along
\* that no handler touched.
LEMMA RequestReplays ==
  ASSUME LogIsNumbered, SnapshotsReplay,
         NEW route, NEW mode, NEW corrupt, NEW expected \in 0..Len(log),
         NEW s \in {None} \cup snapshots, s # None => s.at <= expected
  PROVE  LET r == Request(route, mode, expected, s, corrupt)
         IN  /\ Window(r) = SubSeq(log, expected + 1, Len(log))
             /\ (s = None \/ s.kept) => /\ Before(r) = Replay(expected)
                                        /\ HeadState(r) = Replay(Len(log))
<1> DEFINE r == Request(route, mode, expected, s, corrupt)
           i == IF s = None THEN 0 ELSE s.at
<1>1. Len(log) \in Nat /\ log \in Seq(PageOfLog)
  BY DEF LogIsNumbered
<1>2. i \in 0..Len(log) /\ expected \in i..Len(log) /\ Len(log) \in i..Len(log)
  BY <1>1 DEF SnapshotsReplay
<1>3. ASSUME s = None \/ s.kept PROVE StartState(r) = Replay(i)
  <2>1. CASE s = None
    <3>1. SubSeq(log, 1, 0) = <<>>
      BY <1>1
    <3> QED
      BY <2>1, <3>1, FoldEmpty DEF StartState, Request, Replay
  <2>2. CASE s # None
    <3>1. s \in snapshots /\ s.state = Replay(s.at) /\ i = s.at
      BY <1>3, <2>2 DEF SnapshotsReplay
    <3>2. r.snapshot = s
      BY Zenon DEF Request
    <3> QED
      BY <2>2, <3>1, <3>2, Zenon DEF StartState
  <2> QED
    BY <2>1, <2>2
<1>4. r.pages = SubSeq(log, i + 1, Len(log)) /\ r.expected = expected
  <2>1. /\ r.pages = SubSeq(log, IF s = None THEN 1 ELSE s.at + 1, Len(log))
        /\ r.expected = expected
    BY Zenon DEF Request
  <2>2. CASE s = None
    <3>1. i + 1 = 1
      BY <2>2
    <3>2. r.pages = SubSeq(log, 1, Len(log))
      BY <2>1, <2>2, Zenon
    <3> QED
      BY <2>1, <3>1, <3>2, Zenon
  <2>3. CASE s # None
    <3>1. i + 1 = s.at + 1
      BY <2>3
    <3>2. r.pages = SubSeq(log, s.at + 1, Len(log))
      BY <2>1, <2>3, Zenon
    <3> QED
      BY <2>1, <3>1, <3>2, Zenon
  <2> QED
    BY <2>2, <2>3
<1> HIDE DEF i, r
<1>5. Seen(r) = expected - i
  <2>1. /\ r.pages \in Seq(PageOfLog) /\ Len(r.pages) = Len(log) - i
        /\ \A n \in 1..(Len(log) - i) : r.pages[n].seq = i + n - 1
    BY <1>2, <1>4, LogCut, ZenonT(60)
  <2>2. DOMAIN r.pages = 1..(Len(log) - i)
    BY <2>1
  <2>3. {n \in DOMAIN r.pages : r.pages[n].seq < r.expected} = 1..(expected - i)
    <3>1. \A n \in 1..(Len(log) - i) :
            r.pages[n].seq < r.expected <=> n \in 1..(expected - i)
      <4> TAKE n \in 1..(Len(log) - i)
      <4>1. r.pages[n].seq = i + n - 1 /\ r.expected = expected
        BY <1>4, <2>1, Zenon
      <4>2. i \in Nat /\ expected \in Nat /\ Len(log) \in Nat /\ i <= expected /\ n \in Nat /\ n >= 1
        BY <1>1, <1>2
      <4>3. n \in 1..(expected - i) <=> n <= expected - i
        BY <4>2
      <4>4. i + n - 1 < expected <=> n <= expected - i
        BY <4>2
      <4> QED
        BY <4>1, <4>3, <4>4, Zenon
    <3>2. 1..(expected - i) \subseteq 1..(Len(log) - i)
      BY <1>1, <1>2
    <3> QED
      BY <2>2, <3>1, <3>2
  <2>4. Cardinality(1..(expected - i)) = expected - i
    BY <1>1, <1>2, FS_Interval
  <2> QED
    BY <2>3, <2>4 DEF Seen
<1>6. /\ SubSeq(r.pages, 1, Seen(r)) = SubSeq(log, i + 1, expected)
      /\ Window(r) = SubSeq(log, expected + 1, Len(log))
  BY <1>1, <1>2, <1>4, <1>5, CutOfCut, ZenonT(60) DEF Window
<1>7. ASSUME s = None \/ s.kept PROVE Before(r) = Replay(expected)
  BY <1>1, <1>2, <1>3, <1>6, <1>7, ReplayOn DEF Before
<1>8. ASSUME s = None \/ s.kept PROVE HeadState(r) = Replay(Len(log))
  <2>1. HeadState(r) = Fold(Before(r), Window(r))
    BY DEF HeadState, Before
  <2>2. Fold(Replay(expected), SubSeq(log, expected + 1, Len(log))) = Replay(Len(log))
    BY <1>1, <1>2, ReplayOn
  <2> QED
    BY <1>6, <1>7, <1>8, <2>1, <2>2
<1> QED
  BY <1>6, <1>7, <1>8 DEF r

\* Every answer of the router, to every route, mode and outcome of business
\* code, fits the history it was computed against.
LEMMA AnswerIsRight ==
  ASSUME LogIsNumbered, SnapshotsReplay, untouched => Replay(Len(log)) # Raised,
         NEW route \in Routes, NEW mode \in Modes, NEW corrupt,
         NEW expected \in 0..Len(log),
         NEW s \in {None} \cup snapshots, s # None => s.at <= expected,
         NEW i \in Input, NEW events \in Decisions \cup {Raised}, NEW left, NEW settles,
         NEW r, r = Request(route, mode, expected, s, corrupt),
         NEW a, a = Answer(r, HeadState(r), Decided(i, events, left, settles))
  PROVE  Fits(a)
<1> DEFINE d == Decided(i, events, left, settles)
           plain == s = None \/ s.kept
<1>1. /\ Window(r) = SubSeq(log, expected + 1, Len(log))
      /\ plain => Before(r) = Replay(expected) /\ HeadState(r) = Replay(Len(log))
  <2> DEFINE q == Request(route, mode, expected, s, corrupt)
  <2>1. /\ Window(q) = SubSeq(log, expected + 1, Len(log))
        /\ plain => Before(q) = Replay(expected) /\ HeadState(q) = Replay(Len(log))
    BY RequestReplays
  <2>2. q = r
    OBVIOUS
  <2> HIDE DEF q, plain
  <2> QED
    BY <2>1, <2>2
<1>2. r.mode = mode /\ r.expected = expected /\ r.next = Len(log) /\ r.snapshot = s
  BY Zenon DEF Request
<1>3. d.by = i /\ d.events = events /\ d.left = left /\ d.settles = settles
  BY DEF Decided
<1>4. untouched => plain
  BY DEF SnapshotsReplay
<1> HIDE DEF d, plain
<1>5. CASE a = Failed(RouteCode(r)) /\ RouteCode(r) # "OK"
  <2>1. a.code = RouteCode(r)
    BY <1>5 DEF Failed
  <2> QED
    BY <1>5, <2>1 DEF RouteCode, Fits
<1>6. CASE \E code \in {"CONFLICT_RESOLUTION_UNSUPPORTED", "PERSISTED_EVENT_CORRUPT",
                        "ESCAPED", "FOLD_FAILED_EMITTED"} : a = Failed(code)
  BY <1>6 DEF Failed, Fits
<1>7. CASE a = Failed("FOLD_FAILED") /\ HeadState(r) = Raised
  <2>1. ~untouched
    BY <1>1, <1>4, <1>7
  <2> QED
    BY <1>7, <2>1 DEF Failed, Fits
<1>8. CASE /\ a = Response(r, HeadState(r), d) /\ events # Raised
           /\ Fold(left, Emitted(r, d)) # Raised
  <2>1. events \in Seq(Event)
    BY <1>8, BusinessAssumption
  <2>2. /\ a.code = "OK" /\ a.expected = expected /\ a.by = i /\ a.events = events
        /\ a.state = Fold(left, Emitted(r, d)) /\ a.mode = mode
        /\ mode = "AGGREGATE_HANDLES" => a.window = Window(r)
        /\ mode = "COMMUTATIVE" =>
             /\ a.windowUnits = Changed(Before(r), left)
             /\ a.commandUnits = Changed(left, a.state)
    BY <1>2, <1>3, <1>8 DEF Response
  <2>3. a.kept => left = HeadState(r) /\ plain
    <3>1. a.kept = (left = HeadState(r) /\ (s = None \/ s.kept))
      BY <1>2, <1>3, <1>8 DEF Response
    <3> QED
      BY <3>1 DEF plain
  <2>4. Persisted(a, Len(log)) = Emitted(r, d)
    BY <1>2, <1>3, <2>2 DEF Persisted, Emitted
  <2>5. a.kept => a.state = Fold(Replay(Len(log)), Persisted(a, Len(log)))
    BY <1>1, <2>2, <2>3, <2>4
  <2>6. a.kept /\ a.mode = "COMMUTATIVE" =>
          /\ a.windowUnits = Changed(Replay(a.expected), Replay(Len(log)))
          /\ a.commandUnits = Changed(Replay(Len(log)), a.state)
    BY <1>1, <2>2, <2>3
  <2> QED
    BY <1>1, <1>8, <2>1, <2>2, <2>5, <2>6 DEF Fits
<1>9. a = Answer(r, HeadState(r), d)
  BY DEF d
<1> QED
  BY <1>3, <1>5, <1>6, <1>7, <1>8, <1>9 DEF Answer

\* An empty history folds to the fresh state.
LEMMA InitIInv == Init => IInv
<1> SUFFICES ASSUME Init PROVE IInv
  OBVIOUS
<1>1. log = <<>> /\ snapshots = {} /\ answer = None /\ commit = None /\ untouched
  BY DEF Init
<1>2. Replay(Len(log)) = Factory
  <2>1. SubSeq(<<>>, 1, 0) = <<>> /\ Len(<<>>) = 0
    OBVIOUS
  <2> QED
    BY <1>1, <2>1, FoldEmpty DEF Replay
<1> QED
  BY <1>1, <1>2, BusinessAssumption
  DEF IInv, LogIsNumbered, SnapshotsReplay, HistoryFolds, AnswerFits,
      CommutativeCommitsAreDisjoint, ConflictWindowIsComplete

\* Dispatching changes the answer alone, and what it answers fits.
LEMMA HandleIInv == IInv /\ Handle => IInv'
<1> SUFFICES ASSUME IInv, Handle PROVE IInv'
  OBVIOUS
<1>1. UNCHANGED <<hasResolver, log, snapshots, untouched>> /\ commit' = None
  BY DEF Handle
<1>2. \A n : Replay(n)' = Replay(n)
  BY <1>1 DEF Replay
<1>3. /\ LogIsNumbered /\ SnapshotsReplay /\ (untouched => Replay(Len(log)) # Raised)
  BY DEF IInv, HistoryFolds
<1>4. PICK route \in Routes, mode \in Modes, expected \in 0..Len(log),
           s \in {None} \cup snapshots, corrupt \in BOOLEAN :
        /\ route # "command" => expected = Len(log)
        /\ route \notin {"command", "fact"} => mode = "STRICT"
        /\ s # None => s.at <= expected
        /\ corrupt => s # None
        /\ LET r     == Request(route, mode, expected, s, corrupt)
               state == HeadState(r)
           IN  \E i \in Input, events \in Decisions \cup {Raised},
                  left \in LeftOf(state), settles \in BOOLEAN :
                 /\ settles => mode = "AGGREGATE_HANDLES"
                 /\ route \in Facts => events # <<>>
                 /\ RouteCode(r) # "OK" \/ corrupt => events = Raised
                 /\ answer' = Answer(r, state, Decided(i, events, left, settles))
  BY DEF Handle
<1> DEFINE r == Request(route, mode, expected, s, corrupt)
<1>5. PICK i \in Input, events \in Decisions \cup {Raised},
           left \in LeftOf(HeadState(r)), settles \in BOOLEAN :
        answer' = Answer(r, HeadState(r), Decided(i, events, left, settles))
  BY <1>4
<1>6. AnswerFits'
  <2> DEFINE a == answer'
  <2>1. a = Answer(r, HeadState(r), Decided(i, events, left, settles))
    BY <1>5
  <2>2. r = Request(route, mode, expected, s, corrupt)
    OBVIOUS
  <2> HIDE DEF a, r
  <2>3. Fits(a)
    BY <1>3, <1>4, <2>1, <2>2, AnswerIsRight
  <2> QED
    BY <1>1, <1>2, <2>3 DEF AnswerFits, Fits, a
<1>7. LogIsNumbered' /\ SnapshotsReplay' /\ (untouched => Replay(Len(log)) # Raised)'
  BY <1>1, <1>2, <1>3 DEF LogIsNumbered, SnapshotsReplay
<1> QED
  BY <1>1, <1>6, <1>7
  DEF IInv, AnswerFits, Fits, HistoryFolds, CommutativeCommitsAreDisjoint, ConflictWindowIsComplete

\* Appended pages continue the history's numbers.
LEMMA PersistedPages ==
  ASSUME NEW a, a.events \in Seq(Event), a.by \in Input, NEW at \in Nat
  PROVE  /\ Persisted(a, at) \in Seq(PageOfLog)
         /\ Len(Persisted(a, at)) = Len(a.events)
         /\ \A n \in 1..Len(a.events) : Persisted(a, at)[n].seq = at + n - 1
<1> DEFINE page(n) == [event |-> a.events[n], seq |-> at + n - 1, by |-> a.by]
           k == Len(a.events)
<1>1. k \in Nat /\ DOMAIN a.events = 1..k
  OBVIOUS
<1>2. \A n \in 1..k : page(n) \in PageOfLog /\ page(n).seq = at + n - 1
  BY <1>1 DEF PageOfLog
<1>3. Persisted(a, at) = [n \in 1..k |-> page(n)]
  BY <1>1 DEF Persisted
<1> HIDE DEF page, k
<1>4. [n \in 1..k |-> page(n)] \in Seq(PageOfLog) /\ Len([n \in 1..k |-> page(n)]) = k
  BY <1>1, <1>2
<1> QED
  BY <1>2, <1>3, <1>4 DEF k

\* Replay, of a history that is a parameter.
Past(l, n) == Fold(Factory, SubSeq(l, 1, n))

\* An accepted answer extends the history by what its state had folded, so
\* the new snapshot is a replay, and its two unit sets are those of the
\* history before and after it.
LEMMA CommitIInv == IInv /\ Commit => IInv'
<1> SUFFICES ASSUME IInv, Commit PROVE IInv'
  OBVIOUS
<1> DEFINE pages == Persisted(answer, Len(log))
           from  == Len(log)
           to    == Len(log) + Len(answer.events)
<1>1. Fits(answer) /\ answer.code = "OK" /\ Accepted(answer) /\ answer' = None
  BY DEF IInv, AnswerFits, Commit
<1>2. /\ log' = log \o pages
      /\ snapshots' \in {snapshots, {[at |-> to, state |-> answer.state,
                                       kept |-> answer.kept]}}
      /\ commit' = [mode |-> answer.mode, expected |-> answer.expected,
                    from |-> from, to |-> to, window |-> answer.window,
                    kept |-> answer.kept]
      /\ untouched' = (untouched /\ answer.kept)
  BY DEF Commit, Persisted
<1>3. log \in Seq(PageOfLog) /\ from \in Nat /\ DOMAIN log = 1..from
  BY DEF IInv, LogIsNumbered
<1>4. /\ pages \in Seq(PageOfLog)
      /\ Len(pages) = Len(answer.events) /\ Len(pages) \in Nat
      /\ \A n \in 1..Len(pages) : pages[n].seq = from + n - 1
  BY <1>1, <1>3, PersistedPages DEF Fits
<1>5. answer.kept => answer.state = Fold(Past(log, from), pages)
  BY <1>1 DEF Fits, Replay, Past
<1> HIDE DEF pages
<1>6. /\ log \o pages \in Seq(PageOfLog) /\ Len(log \o pages) = to
      /\ to \in Nat /\ from <= to
  <2>1. log \o pages \in Seq(PageOfLog)
    BY <1>3, <1>4
  <2>2. Len(log \o pages) = Len(log) + Len(pages)
    BY <1>3, <1>4, ConcatLength
  <2>3. to = Len(log) + Len(pages)
    BY <1>4
  <2> QED
    BY <1>3, <1>4, <2>1, <2>2, <2>3
<1>7. LogIsNumbered'
  <2>1. \A n \in 1..to : (log \o pages)[n].seq = n - 1
    <3> TAKE n \in 1..to
    <3>1. CASE n <= from
      <4>1. (log \o pages)[n] = log[n] /\ n \in DOMAIN log
        BY <1>3, <1>4, <3>1
      <4> QED
        BY <4>1 DEF IInv, LogIsNumbered
    <3>2. CASE ~(n <= from)
      <4>1. n - from \in 1..Len(pages) /\ (log \o pages)[n] = pages[n - from]
        BY <1>3, <1>4, <1>6, <3>2
      <4> QED
        BY <1>3, <1>4, <4>1
    <3> QED
      BY <3>1, <3>2
  <2> QED
    BY <1>2, <1>6, <2>1 DEF LogIsNumbered
<1>8. \A n \in 0..from : Past(log', n) = Past(log, n)
  <2> TAKE n \in 0..from
  <2>1. SubSeq(log \o pages, 1, n) = SubSeq(log, 1, n)
    BY <1>3, <1>4
  <2> QED
    BY <1>2, <2>1 DEF Past
<1>9. answer.kept => Past(log', to) = answer.state
  <2>1. SubSeq(log \o pages, 1, to) = log \o pages
    BY <1>6
  <2>2. Fold(Factory, log \o pages) = Fold(Fold(Factory, log), pages)
    BY <1>3, <1>4, FoldConcat
  <2>3. SubSeq(log, 1, from) = log
    BY <1>3
  <2> QED
    BY <1>2, <1>5, <2>1, <2>2, <2>3 DEF Past
<1>10. Len(log') = to
  BY <1>2, <1>6
<1> HIDE DEF from, to
<1>11. SnapshotsReplay'
  <2> SUFFICES ASSUME NEW s \in snapshots'
               PROVE  /\ s.at \in 0..to
                      /\ s.kept => s.state = Past(log', s.at)
                      /\ untouched' => s.kept
    BY <1>10 DEF SnapshotsReplay, Replay, Past
  <2>1. CASE s \in snapshots
    <3>1. /\ s.at \in 0..from
          /\ s.kept => s.state = Past(log, s.at)
          /\ untouched => s.kept
      BY <2>1 DEF IInv, SnapshotsReplay, Replay, Past, from
    <3>2. s.at \in 0..to /\ (s.kept => s.state = Past(log', s.at))
      BY <1>3, <1>6, <1>8, <3>1
    <3>3. untouched' => s.kept
      BY <1>2, <3>1, Zenon
    <3> QED
      BY <3>2, <3>3
  <2>2. CASE s = [at |-> to, state |-> answer.state, kept |-> answer.kept]
    <3>1. s.at = to /\ s.state = answer.state /\ s.kept = answer.kept
      BY <2>2
    <3> QED
      <4>1. untouched' => answer.kept
        BY <1>2, Zenon
      <4>2. s.kept <=> answer.kept
        BY <3>1, Zenon
      <4>3. s.at \in 0..to
        BY <1>6, <3>1
      <4>4. answer.kept => s.state = Past(log', s.at)
        BY <1>9, <3>1, Zenon
      <4> QED
        BY <4>1, <4>2, <4>3, <4>4, Zenon
  <2> QED
    BY <1>2, <2>1, <2>2
<1>12. HistoryFolds' /\ AnswerFits'
  BY <1>1, <1>2, <1>9, <1>10 DEF HistoryFolds, AnswerFits, Fits, Replay, Past
<1>13. CommutativeCommitsAreDisjoint'
  <2> SUFFICES ASSUME answer.mode = "COMMUTATIVE", answer.kept,
                      answer.expected < from
               PROVE  Changed(Past(log', answer.expected), Past(log', from))
                        \cap Changed(Past(log', from), Past(log', to)) = {}
    BY <1>2 DEF CommutativeCommitsAreDisjoint, Replay, Past
  <2>1. /\ answer.windowUnits = Changed(Past(log, answer.expected), Past(log, from))
        /\ answer.commandUnits = Changed(Past(log, from), answer.state)
        /\ answer.expected \in 0..from
    BY <1>1 DEF Fits, Replay, Past, from
  <2>2. answer.windowUnits \cap answer.commandUnits = {}
    BY <1>1, <1>3, <2>1 DEF Accepted, from
  <2>3. from \in 0..from
    BY <1>3
  <2> QED
    BY <1>8, <1>9, <2>1, <2>2, <2>3
<1>14. ConflictWindowIsComplete'
  <2> SUFFICES ASSUME answer.mode = "AGGREGATE_HANDLES"
               PROVE  answer.window = SubSeq(log \o pages, answer.expected + 1, from)
    BY <1>2 DEF ConflictWindowIsComplete
  <2>1. /\ answer.expected \in 0..from /\ from \in answer.expected..Len(log)
        /\ answer.window = SubSeq(log, answer.expected + 1, from)
    BY <1>1, <1>3 DEF Fits, from
  <2> QED
    BY <1>3, <1>4, <2>1, CutOfConcat, SMTT(40) DEF from
<1> QED
  BY <1>7, <1>11, <1>12, <1>13, <1>14 DEF IInv

\* A dropped answer leaves the history as it is.
LEMMA RestIInv == IInv /\ (Drop \/ UNCHANGED vars) => IInv'
<1> SUFFICES ASSUME IInv, Drop \/ UNCHANGED vars PROVE IInv'
  OBVIOUS
<1>1. /\ UNCHANGED <<log, snapshots, untouched>>
      /\ answer' = None \/ answer' = answer
      /\ commit' = None \/ commit' = commit
  BY DEF Drop, vars
<1>2. \A n : Replay(n)' = Replay(n)
  BY <1>1 DEF Replay
<1>3. LogIsNumbered' /\ SnapshotsReplay' /\ (untouched => Replay(Len(log)) # Raised)'
  BY <1>1, <1>2 DEF IInv, LogIsNumbered, SnapshotsReplay, HistoryFolds
<1>4. AnswerFits'
  <2>1. CASE answer' = answer
    <3>1. Fits(answer)' <=> Fits(answer)
      BY <1>1, <1>2, <2>1 DEF Fits
    <3> QED
      BY <2>1, <3>1 DEF IInv, AnswerFits
  <2>2. CASE answer' = None
    BY <2>2 DEF AnswerFits
  <2> QED
    BY <1>1, <2>1, <2>2
<1>5. CommutativeCommitsAreDisjoint' /\ ConflictWindowIsComplete'
  <2>1. CASE commit' = commit
    BY <1>1, <1>2, <2>1 DEF IInv, CommutativeCommitsAreDisjoint, ConflictWindowIsComplete
  <2>2. CASE commit' = None
    BY <2>2 DEF CommutativeCommitsAreDisjoint, ConflictWindowIsComplete
  <2> QED
    BY <1>1, <2>1, <2>2
<1> QED
  BY <1>3, <1>4, <1>5 DEF IInv, AnswerFits, Fits, HistoryFolds

\* The invariant holds for every business logic, history and request.
LEMMA SpecIInv == Spec => []IInv
<1>1. IInv /\ [Next]_vars => IInv'
  BY HandleIInv, CommitIInv, RestIInv DEF Next
<1> QED
  BY <1>1, InitIInv, PTL DEF Spec

\* A snapshot persisted from an answer is the replay of the history up to its
\* position, unless a handler changed the state it was handed: that one is
\* packed (aggregate.py: the state answered is the one after the decision's
\* events).
THEOREM SnapshotReplays == Spec => []SnapshotIsReplay
<1>1. IInv => SnapshotIsReplay
  BY DEF IInv, SnapshotsReplay, SnapshotIsReplay
<1> QED
  BY <1>1, SpecIInv, PTL

\* No accepted command makes a history its own appliers cannot fold, unless a
\* handler changed the state that its events were then folded on
\* (aggregate.py folds what it emits before it answers).
THEOREM HistoryAlwaysFolds == Spec => []HistoryFolds
<1>1. IInv => HistoryFolds
  BY DEF IInv
<1> QED
  BY <1>1, SpecIInv, PTL

\* A commutative command is accepted past a stale position only when it and
\* the history it missed changed different units, unless a handler changed
\* the state the report is made of (aggregate.py, the report of a COMMUTATIVE
\* command).
THEOREM CommutativeIsSafe == Spec => []CommutativeCommitsAreDisjoint
<1>1. IInv => CommutativeCommitsAreDisjoint
  BY DEF IInv
<1> QED
  BY <1>1, SpecIInv, PTL

\* A handler that settles conflicts itself was shown every event after the
\* position its command was based on.
THEOREM WindowIsComplete == Spec => []ConflictWindowIsComplete
<1>1. IInv => ConflictWindowIsComplete
  BY DEF IInv
<1> QED
  BY <1>1, SpecIInv, PTL
=============================================================================
