------------------------ MODULE ClientLibraryProofs -------------------------
(***************************************************************************)
(* Proofs about what an application makes with the library: a query, whose *)
(* pairs of fields implement the single slots of QuerySelection; a command *)
(* that is what was given last; a descriptor nobody refuses; clients whose *)
(* channels close with their owners.  For all values, and any number of    *)
(* calls, tables, clients and channels.                                    *)
(***************************************************************************)
EXTENDS QueryBuilder, CommandBuilder, Descriptor, Clients, Induction,
        FiniteSetTheorems

\* Of each pair of fields at most one is set, in the builder and in what it
\* built: only then is the slot they stand for what was set last.
BuilderInv ==
  /\ TypeOK
  /\ _root = None \/ _correlation_id = None
  /\ _range = None \/ _temporal = None
  /\ query # None => query \in Query /\ (query.root = None \/ query.correlation_id = None)

\* A new builder has set neither field of the second pair.
LEMMA BuilderInit == Init => BuilderInv
BY NoneAssumption DEF Init, BuilderInv, TypeOK

\* Every setter clears the other field of the pair it sets.
LEMMA BuilderStep == BuilderInv /\ [Next]_vars => BuilderInv'
<1> SUFFICES ASSUME BuilderInv, [Next]_vars PROVE BuilderInv'
  OBVIOUS
<1> USE NoneAssumption DEF BuilderInv, TypeOK, targetVars, selectionVars, Call
<1>1. CASE \E id \in Correlation : ByCorrelationId(id)
  BY <1>1 DEF ByCorrelationId
<1>2. CASE \E e \in Edition : SetEdition(e)
  BY <1>2 DEF SetEdition
<1>3. CASE \E r \in Bounds : SetRange(r)
  BY <1>3 DEF SetRange
<1>4. CASE \E p \in Temporal : AsOf(p)
  BY <1>4 DEF AsOf
<1>5. CASE Refuses
  BY <1>5 DEF Refuses
<1>6. CASE Build
  <2>1. query' \in Query /\ (query'.root = None \/ query'.correlation_id = None)
    BY <1>6 DEF Build, Sent, Query
  <2>2. QED
    BY <1>6, <2>1 DEF Build
<1>7. CASE UNCHANGED vars
  BY <1>7 DEF vars
<1>8. QED
  BY <1>1, <1>2, <1>3, <1>4, <1>5, <1>6, <1>7 DEF Next

\* At most one field of each pair is ever set (builder.py, "Single selection
\* slot").
THEOREM BuilderInvariant == Spec => []BuilderInv
<1>1. QED
  BY BuilderInit, BuilderStep, PTL DEF Spec

\* Every variable of the builder keeps its type.
THEOREM BuilderTypeCorrect == Spec => []TypeOK
<1>1. BuilderInv => TypeOK
  BY DEF BuilderInv
<1>2. QED
  BY <1>1, BuilderInvariant, PTL

\* No query names a root and a correlation id (by_correlation_id).
THEOREM OneTargetIsNamed == Spec => []NamesOneTarget
<1>1. BuilderInv => NamesOneTarget
  BY DEF BuilderInv, NamesOneTarget
<1>2. QED
  BY <1>1, BuilderInvariant, PTL

\* A new builder's fields stand for empty slots.
LEMMA InitRefines == Init => Slots!Init
BY NoneAssumption DEF Init, Slots!Init, OneTarget, OneSelection

\* Every call of the builder sets the slot it is for, builds a query from the
\* slots, or changes none of them.
LEMMA StepRefines ==
  BuilderInv /\ [Next]_vars => [Slots!Next]_(Slots!vars)
<1> SUFFICES ASSUME BuilderInv, [Next]_vars
             PROVE  [Slots!Next]_(Slots!vars)
  OBVIOUS
<1> USE NoneAssumption DEF BuilderInv, TypeOK, targetVars, selectionVars, Call
<1>1. ASSUME NEW id \in Correlation, ByCorrelationId(id) PROVE Slots!Retarget(id)
  BY <1>1 DEF ByCorrelationId, Slots!Retarget, Slots!Call, OneTarget, OneSelection
<1>2. ASSUME NEW e \in Edition, SetEdition(e) PROVE Slots!Edit(e)
  BY <1>2 DEF SetEdition, Slots!Edit, Slots!Call
<1>3. ASSUME NEW r \in Bounds, SetRange(r) PROVE Slots!Select(r)
  BY <1>3 DEF SetRange, Slots!Select, Slots!Call, OneSelection
<1>4. ASSUME NEW p \in Temporal, AsOf(p) PROVE Slots!Select(p)
  BY <1>4 DEF AsOf, Slots!Select, Slots!Call, OneSelection
<1>5. ASSUME Refuses PROVE Slots!Refuse
  BY <1>5 DEF Refuses, Slots!Refuse, Slots!Call
<1>6. CASE Build
  <2>1. query' \in Query
    BY <1>6 DEF Build, Sent, Query
  <2>2. Slots!Build
    BY <1>6, <2>1 DEF Build, Sent, Slots!Build, Slots!Call, OneTarget, OneSelection
  <2>3. QED
    BY <2>2 DEF Slots!Next
<1>7. CASE UNCHANGED vars
  BY <1>7 DEF vars, Slots!vars
<1>8. QED
  BY <1>1, <1>2, <1>3, <1>4, <1>5, <1>6, <1>7 DEF Next, Slots!Next

\* The builder's two pairs of fields implement the two slots it promises
\* (builder.py, "Single selection slot ... last-wins").
THEOREM BuilderIsSingleSlot == Spec => SingleSlot
<1>1. QED
  BY InitRefines, StepRefines, BuilderInvariant, PTL
     DEF Spec, SingleSlot, Slots!Spec
----------------------------------------------------------------------------
(* The CommandBuilder: a command is what its setters were given last. *)

\* What a setter's call gives.
Given ==
  [type_url : TypeUrl, payload : Payload] \cup [type_url : TypeUrl]
    \cup [payload : Payload] \cup [correlation_id : CorrelationId]
    \cup [expected_sequence : Expected]
    \cup [conflict_resolution : ConflictResolution]

\* The calls among the first n that gave a field, and the last of them.
Places(cs, f, n) == {k \in 1..n : f \in DOMAIN cs[k]}
LastOf(cs, f, n) ==
  IF Places(cs, f, n) = {} THEN Absent ELSE cs[Max(Places(cs, f, n))][f]

LEMMA LastPlace ==
  ASSUME NEW n \in Nat, NEW S, S \subseteq 1..n, S # {}
  PROVE  Max(S) \in S /\ \A k \in S : k <= Max(S)
<1>1. \E k \in S : \A l \in S : l <= k
  <2> DEFINE T == {i \in Nat : n - i \in S}
  <2>1. PICK k \in S : TRUE
    OBVIOUS
  <2>2. k \in Nat /\ k <= n /\ n - k \in Nat /\ n - (n - k) = k
    BY <2>1
  <2>3. n - k \in T
    BY <2>1, <2>2
  <2>4. T \subseteq Nat /\ T # {}
    BY <2>3
  <2>5. PICK i \in T : \A m \in T : i <= m
    BY <2>4, LeastElement
  <2>6. n - i \in S /\ i \in Nat
    BY <2>5
  <2>7. ASSUME NEW l \in S PROVE l <= n - i
    <3>1. l \in Nat /\ l <= n /\ n - l \in Nat /\ n - (n - l) = l
      BY <2>7
    <3>2. n - l \in T
      BY <2>7, <3>1
    <3>3. i <= n - l
      BY <2>5, <3>2
    <3> QED
      BY <2>6, <3>1, <3>3
  <2> QED
    BY <2>6, <2>7
<1> QED
  BY <1>1 DEF Max

LEMMA GivenFields ==
  ASSUME NEW g \in Given
  PROVE  /\ DOMAIN g \subseteq Fields
         /\ "expected_sequence" \in DOMAIN g => g["expected_sequence"] \in Expected
         /\ "conflict_resolution" \in DOMAIN g =>
              g["conflict_resolution"] \in ConflictResolution
BY DEF Given, Fields

\* One more call leaves what those before it gave last, and gives what it
\* names.
LEMMA LastWithOneMore ==
  ASSUME NEW cs \in Seq(Given), NEW g \in Given, NEW f
  PROVE  /\ \A n \in 0..Len(cs) : LastOf(Append(cs, g), f, n) = LastOf(cs, f, n)
         /\ LastOf(Append(cs, g), f, Len(cs) + 1) =
              IF f \in DOMAIN g THEN g[f] ELSE LastOf(cs, f, Len(cs))
<1> DEFINE ds == Append(cs, g)
           N == Len(cs)
<1>1. /\ N \in Nat /\ ds[N + 1] = g
      /\ \A k \in 1..N : ds[k] = cs[k]
  OBVIOUS
<1> HIDE DEF ds, N
<1>2. ASSUME NEW n \in 0..N
      PROVE  Places(ds, f, n) = Places(cs, f, n)
  <2>1. \A k \in 1..n : k \in 1..N
    BY <1>1
  <2>2. \A k \in 1..n : ds[k] = cs[k]
    BY <1>1, <2>1
  <2> QED
    BY <2>2 DEF Places
<1>3. ASSUME NEW n \in 0..N
      PROVE  LastOf(ds, f, n) = LastOf(cs, f, n)
  <2> DEFINE S == Places(cs, f, n)
  <2>1. CASE S = {}
    BY <1>2, <2>1 DEF LastOf
  <2>2. CASE S # {}
    <3>1. S \subseteq 1..n /\ n \in Nat
      BY <1>1 DEF Places
    <3>2. Max(S) \in 1..n
      BY <2>2, <3>1, LastPlace
    <3>3. ds[Max(S)] = cs[Max(S)]
      BY <1>1, <3>2
    <3> QED
      BY <1>2, <2>2, <3>3 DEF LastOf
  <2> QED
    BY <2>1, <2>2
<1>4. CASE f \in DOMAIN g
  <2> DEFINE S == Places(ds, f, N + 1)
  <2>1. N + 1 \in S /\ S \subseteq 1..(N + 1)
    BY <1>1, <1>4 DEF Places
  <2>2. Max(S) \in S /\ \A k \in S : k <= Max(S)
    BY <1>1, <2>1, LastPlace
  <2>3. Max(S) = N + 1
    BY <1>1, <2>1, <2>2
  <2> QED
    BY <1>1, <1>3, <1>4, <2>1, <2>3 DEF LastOf, ds, N
<1>5. CASE f \notin DOMAIN g
  <2>1. Places(ds, f, N + 1) = Places(ds, f, N)
    BY <1>1, <1>5 DEF Places
  <2>2. LastOf(ds, f, N + 1) = LastOf(ds, f, N)
    BY <2>1 DEF LastOf
  <2>3. LastOf(ds, f, N) = LastOf(cs, f, N)
    BY <1>1, <1>3
  <2> QED
    BY <1>3, <1>5, <2>2, <2>3 DEF ds, N
<1> QED
  BY <1>4, <1>5

\* The resolution of a builder after the first n of its calls.
ResolutionGiven(cs, n) ==
  IF LastOf(cs, "conflict_resolution", n) = Absent THEN NoResolution
  ELSE LastOf(cs, "conflict_resolution", n)

\* A book holds what calls gave last, when the first r.after of them were
\* made.
HoldsLast(r, cs) ==
  r.is = "book" =>
    /\ r.after \in 0..Len(cs)
    /\ r.book.type_url = LastOf(cs, "type_url", r.after)
    /\ r.book.payload = LastOf(cs, "payload", r.after)
    /\ r.book.correlation_id = LastOf(cs, "correlation_id", r.after)
    /\ r.book.handling = Absent <=>
         /\ LastOf(cs, "expected_sequence", r.after) = Absent
         /\ ResolutionGiven(cs, r.after) = NoResolution
    /\ r.book.handling # Absent =>
         /\ r.book.handling.expected_sequence =
              LastOf(cs, "expected_sequence", r.after)
         /\ r.book.handling.conflict_resolution = ResolutionGiven(cs, r.after)

\* The fields are what the calls gave last, a resolution UNSPECIFIED before.
CommandInv ==
  /\ calls \in Seq(Given)
  /\ \A f \in Fields \ {"conflict_resolution"} :
       field[f] = LastOf(calls, f, Len(calls))
  /\ field["conflict_resolution"] = ResolutionGiven(calls, Len(calls))
  /\ field["expected_sequence"] \in Expected \cup {Absent}
  /\ field["conflict_resolution"] \in ConflictResolution \cup {NoResolution}
  /\ HoldsLast(result, calls)

LEMMA CommandBegins == CommandInit => CommandInv
<1> SUFFICES ASSUME CommandInit PROVE CommandInv
  OBVIOUS
<1>1. \A f : LastOf(<<>>, f, 0) = Absent
  BY DEF LastOf, Places
<1>2. calls = <<>> /\ Len(calls) = 0 /\ calls \in Seq(Given)
  BY DEF CommandInit
<1>3. result.is # "book"
  BY DEF CommandInit
<1>4. /\ \A f \in Fields \ {"conflict_resolution"} : field[f] = Absent
      /\ field["conflict_resolution"] = NoResolution
      /\ field["expected_sequence"] = Absent
  BY DEF CommandInit, Fields
<1> QED
  BY <1>1, <1>2, <1>3, <1>4 DEF CommandInv, HoldsLast, ResolutionGiven

\* A setter's call is the last to give what it names.
LEMMA SetKeepsLast ==
  ASSUME CommandInv, NEW g \in Given, Set(g)
  PROVE  CommandInv'
<1> DEFINE N == Len(calls)
<1>1. /\ calls \in Seq(Given) /\ calls' = Append(calls, g) /\ N \in Nat
      /\ Len(calls') = N + 1 /\ calls' \in Seq(Given) /\ result' = result
  BY DEF CommandInv, Set
<1>2. /\ \A f : \A n \in 0..N : LastOf(calls', f, n) = LastOf(calls, f, n)
      /\ \A f : LastOf(calls', f, N + 1) =
               IF f \in DOMAIN g THEN g[f] ELSE LastOf(calls, f, N)
  BY <1>1, LastWithOneMore, ZenonT(60)
<1>3. \A f \in Fields : field'[f] = IF f \in DOMAIN g THEN g[f] ELSE field[f]
  BY DEF Set
<1>4. /\ "expected_sequence" \in DOMAIN g => g["expected_sequence"] \in Expected
      /\ "conflict_resolution" \in DOMAIN g =>
           g["conflict_resolution"] \in ConflictResolution
  BY GivenFields
<1>5. "expected_sequence" \in Fields /\ "conflict_resolution" \in Fields
  BY DEF Fields
<1>6. \A f \in Fields \ {"conflict_resolution"} :
        field'[f] = LastOf(calls', f, Len(calls'))
  BY <1>1, <1>2, <1>3 DEF CommandInv
<1>7. field'["conflict_resolution"] = ResolutionGiven(calls', Len(calls'))
  <2>1. CASE "conflict_resolution" \in DOMAIN g
    <3>1. g["conflict_resolution"] # Absent
      BY <1>4, <2>1, AbsentAssumption
    <3> QED
      BY <1>1, <1>2, <1>3, <1>5, <2>1, <3>1 DEF ResolutionGiven
  <2>2. CASE "conflict_resolution" \notin DOMAIN g
    BY <1>1, <1>2, <1>3, <1>5, <2>2 DEF CommandInv, ResolutionGiven
  <2> QED
    BY <2>1, <2>2
<1>8. /\ field'["expected_sequence"] \in Expected \cup {Absent}
      /\ field'["conflict_resolution"] \in ConflictResolution \cup {NoResolution}
  BY <1>3, <1>4, <1>5 DEF CommandInv
<1>9. HoldsLast(result', calls')
  <2>1. HoldsLast(result, calls)
    BY DEF CommandInv
  <2>2. ASSUME result.is = "book" PROVE result.after \in 0..N
    BY <2>1, <2>2 DEF HoldsLast
  <2>3. result.after \in 0..N => result.after \in 0..Len(calls')
    BY <1>1
  <2>4. ASSUME result.is = "book"
        PROVE  /\ \A f : LastOf(calls', f, result.after) = LastOf(calls, f, result.after)
               /\ ResolutionGiven(calls', result.after)
                    = ResolutionGiven(calls, result.after)
    BY <1>2, <2>2, <2>4 DEF ResolutionGiven
  <2> QED
    BY <1>1, <2>1, <2>2, <2>3, <2>4 DEF HoldsLast
<1> QED
  BY <1>1, <1>6, <1>7, <1>8, <1>9 DEF CommandInv

\* A book built holds the fields.
LEMMA BuildHoldsLast ==
  ASSUME CommandInv, NEW mode \in Modes, BuildCommand(mode)
  PROVE  CommandInv'
<1> DEFINE e == field["expected_sequence"]
           r == field["conflict_resolution"]
<1>1. UNCHANGED <<field, calls>>
  BY DEF BuildCommand
<1>2. CASE result'.is # "book"
  BY <1>1, <1>2 DEF CommandInv, HoldsLast
<1>3. CASE result'.is = "book"
  <2>1. result' = [is |-> "book", mode |-> mode, book |-> Book, after |-> Len(calls)]
    BY <1>3 DEF BuildCommand, RefusedAs
  <2>2. /\ result'.after = Len(calls) /\ result'.book.type_url = field["type_url"]
        /\ result'.book.payload = field["payload"]
        /\ result'.book.correlation_id = field["correlation_id"]
        /\ result'.book.handling = Handling(e, r)
    BY <2>1 DEF Book
  <2>3. Len(calls) \in 0..Len(calls)
    BY DEF CommandInv
  <2>4. /\ "type_url" \in Fields /\ "payload" \in Fields /\ "correlation_id" \in Fields
        /\ "expected_sequence" \in Fields
    BY DEF Fields
  <2>5. /\ Handling(e, r) = Absent <=> e = Absent /\ r = NoResolution
        /\ Handling(e, r) # Absent => /\ Handling(e, r).expected_sequence = e
                                     /\ Handling(e, r).conflict_resolution = r
    <3>1. /\ e \in Expected \cup {Absent}
          /\ r \in ConflictResolution \cup {NoResolution}
      BY DEF CommandInv
    <3> HIDE DEF e, r
    <3> QED
      BY <3>1, AbsentAssumption DEF Handling
  <2>6. e = LastOf(calls, "expected_sequence", Len(calls))
    BY <2>4 DEF CommandInv
  <2>7. r = ResolutionGiven(calls, Len(calls))
    BY DEF CommandInv
  <2>8. /\ field["type_url"] = LastOf(calls, "type_url", Len(calls))
        /\ field["payload"] = LastOf(calls, "payload", Len(calls))
        /\ field["correlation_id"] = LastOf(calls, "correlation_id", Len(calls))
    BY <2>4 DEF CommandInv
  <2> HIDE DEF e, r
  <2>9. HoldsLast(result', calls)
    BY <2>2, <2>3, <2>5, <2>6, <2>7, <2>8 DEF HoldsLast
  <2> QED
    BY <1>1, <2>9 DEF CommandInv
<1> QED
  BY <1>2, <1>3

LEMMA CommandStep == CommandInv /\ [CommandNext]_commandVars => CommandInv'
<1> SUFFICES ASSUME CommandInv, [CommandNext]_commandVars PROVE CommandInv'
  OBVIOUS
<1>1. CASE WithCommand
  BY <1>1, SetKeepsLast DEF WithCommand, Given
<1>2. CASE WithTypeUrl
  BY <1>2, SetKeepsLast DEF WithTypeUrl, Given
<1>3. CASE WithPayload
  BY <1>3, SetKeepsLast DEF WithPayload, Given
<1>4. CASE WithCorrelationId
  BY <1>4, SetKeepsLast DEF WithCorrelationId, Given
<1>5. CASE WithExpectedSequence
  BY <1>5, SetKeepsLast DEF WithExpectedSequence, Given
<1>6. CASE WithConflictResolution
  BY <1>6, SetKeepsLast DEF WithConflictResolution, Given
<1>7. CASE RefuseCorrelationId
  BY <1>7 DEF RefuseCorrelationId, RefusedAs, CommandInv, HoldsLast
<1>8. CASE UNCHANGED commandVars
  BY <1>8 DEF commandVars, CommandInv
<1> QED
  BY <1>1, <1>2, <1>3, <1>4, <1>5, <1>6, <1>7, <1>8, BuildHoldsLast DEF CommandNext

THEOREM CommandInvariant == CommandSpec => []CommandInv
<1> QED
  BY CommandBegins, CommandStep, PTL DEF CommandSpec

\* A command holds what the setters gave last, however often and in whatever
\* order they were called (CommandBuilder).
THEOREM CommandIsAsGiven == CommandSpec => []BookIsWhatWasGiven
<1>1. CommandInv => BookIsWhatWasGiven
  <2>1. \A f, n : LastGiven(f, n) = LastOf(calls, f, n)
    BY DEF LastGiven, LastOf, Places
  <2> QED
    BY <2>1 DEF CommandInv, HoldsLast, ResolutionGiven, BookIsWhatWasGiven
<1> QED
  BY <1>1, CommandInvariant, PTL
----------------------------------------------------------------------------
(* describe: what a coordinator or a host would refuse is not built. *)

\* What describe came to is what its arguments come to.
DescribedInv ==
  /\ table \in Table /\ host_version \in Version
  /\ asked \in [rules_version : Version \cup {Unset}, state_type : State \cup {Unset},
                resolutions : (SUBSET Resolution) \cup {Unset}, starts : BOOLEAN]
  /\ described # Unset =>
       /\ described.code = Reason(table, asked)
       /\ described.code = Unset => described.descriptor = Built(table, asked)

LEMMA DescriptorStep ==
  DescribedInv /\ [DescriptorNext]_descriptorVars => DescribedInv'
BY DEF DescribedInv, DescriptorNext, Describe, Done, descriptorVars

THEOREM DescribedInvariant == DescriptorSpec => []DescribedInv
<1>1. DescriptorInit => DescribedInv
  BY DEF DescriptorInit, DescribedInv
<1> QED
  BY <1>1, DescriptorStep, PTL DEF DescriptorSpec

\* A state has resolutions, and is no None.
LEMMA StateIsSet ==
  ASSUME DescribedInv
  PROVE  LET d == Built(table, asked) IN
         /\ d.state = Unset <=> ~HasState(table, asked)
         /\ HasState(table, asked) => d.state = Base \cup Listed(table, asked)
<1>1. HasState(table, asked) => Listed(table, asked) \subseteq Resolution
  <2>1. CASE asked.resolutions # Unset
    BY <2>1 DEF DescribedInv, Listed
  <2>2. CASE asked.resolutions = Unset
    <3>1. HasState(table, asked) =>
            StateOf(table, asked) \in State \cup {t.state : t \in Table}
      BY <2>2 DEF DescribedInv, StateOf, HasState
    <3> QED
      BY <2>2, <3>1, DescriptorAssumption DEF Listed
  <2> QED
    BY <2>1, <2>2
<1>2. HasState(table, asked) => Base \cup Listed(table, asked) # Unset
  BY <1>1, DescriptorAssumption
<1> QED
  BY <1>2 DEF Built, Resolved

\* The least of some rules.
LEMMA FirstRule ==
  ASSUME NEW S, S \subseteq 1..7, NEW n \in S, \A m \in S : n <= m
  PROVE  Min(S) = n
<1>1. \E x \in S : \A y \in S : x <= y
  OBVIOUS
<1>2. Min(S) \in S /\ \A y \in S : Min(S) <= y
  BY <1>1 DEF Min
<1>3. Min(S) \in 1..7 /\ n \in 1..7 /\ Min(S) <= n /\ n <= Min(S)
  BY <1>2
<1> HIDE DEF Min
<1> QED
  BY <1>3

\* The inputs of a policy are one, or there is no such input.
LEMMA OneInput ==
  ASSUME NEW t, t.kind = "policy"
  PROVE  Cardinality(Inputs(t)) # 1 <=> \A i \in Inputs(t) : Inputs(t) # {i}
<1>1. Inputs(t) = {} \/ Inputs(t) = {t.input_domain}
  BY DEF Inputs
<1>2. CASE Inputs(t) = {}
  BY <1>2, FS_EmptySet
<1>3. CASE Inputs(t) = {t.input_domain}
  BY <1>3, FS_Singleton
<1> QED
  BY <1>1, <1>2, <1>3

\* describe refuses what a coordinator would, for its first reason, and
\* builds no descriptor without the resolutions every state has (describe).
THEOREM DescribedIsTaken == DescriptorSpec => []NoRefusableDescriptor
<1>1. DescribedInv => NoRefusableDescriptor
  <2> SUFFICES ASSUME DescribedInv, described # Unset
               PROVE  NoRefusableDescriptor
    BY DEF NoRefusableDescriptor
  <2> DEFINE d == Built(table, asked)
             broken == BrokenRules(d.kind, d.rules_version, d.starts,
                                   d.state # Unset, d.inputs, d.output_domain)
             codes == <<"MISSING_RULES_VERSION", "STARTING_TYPES_ON_NON_PM",
                        "MISSING_STATE_TYPE", "STATE_ON_STATELESS_KIND",
                        "POLICY_INPUT_COUNT", "POLICY_NO_OUTPUT_DOMAIN",
                        "OUTPUT_DOMAIN_ON_NON_POLICY">>
             code == described.code
  <2>1. /\ d.kind = table.kind /\ d.inputs = Inputs(table)
        /\ d.kind \in Stateful \cup {"policy", "projector"}
    BY DescriptorAssumption DEF DescribedInv, Built
  <2>2. d.kind = "policy" =>
          (Cardinality(d.inputs) # 1 <=> \A i \in d.inputs : d.inputs # {i})
    BY <2>1, OneInput
  <2>3. /\ 1 \in broken <=> d.rules_version = NoVersion
        /\ 2 \in broken <=> d.starts /\ d.kind # "process_manager"
        /\ 3 \in broken <=> d.state = Unset /\ d.kind \in Stateful
        /\ 4 \in broken <=> d.state # Unset /\ d.kind \in {"policy", "projector"}
        /\ 5 \in broken <=> d.kind = "policy" /\ \A i \in d.inputs : d.inputs # {i}
        /\ 6 \in broken <=> d.kind = "policy" /\ d.output_domain = ""
        /\ 7 \in broken <=> d.kind # "policy" /\ d.output_domain # ""
    <3> HIDE DEF d
    <3> QED
      BY <2>2 DEF BrokenRules
  <2>4. /\ code = Reason(table, asked)
        /\ HasState(table, asked) <=> d.state # Unset
        /\ d.state # Unset => d.state = Base \cup Listed(table, asked)
    BY StateIsSet DEF DescribedInv
  <2>5. /\ codes[1] = "MISSING_RULES_VERSION" /\ codes[2] = "STARTING_TYPES_ON_NON_PM"
        /\ codes[3] = "MISSING_STATE_TYPE" /\ codes[4] = "STATE_ON_STATELESS_KIND"
        /\ codes[5] = "POLICY_INPUT_COUNT" /\ codes[6] = "POLICY_NO_OUTPUT_DOMAIN"
        /\ codes[7] = "OUTPUT_DOMAIN_ON_NON_POLICY"
    OBVIOUS
  <2> DEFINE known == {codes[n] : n \in 1..7}
  <2>6. \A c : c \in known <=>
          c \in {"MISSING_RULES_VERSION", "STARTING_TYPES_ON_NON_PM",
                 "MISSING_STATE_TYPE", "STATE_ON_STATELESS_KIND",
                 "POLICY_INPUT_COUNT", "POLICY_NO_OUTPUT_DOMAIN",
                 "OUTPUT_DOMAIN_ON_NON_POLICY"}
    <3>1. \A n \in 1..7 : n = 1 \/ n = 2 \/ n = 3 \/ n = 4 \/ n = 5 \/ n = 6 \/ n = 7
      OBVIOUS
    <3>2. \A c : c \in known <=> \E n \in 1..7 : c = codes[n]
      BY Zenon
    <3> HIDE DEF codes, known
    <3> QED
      BY <2>5, <3>1, <3>2
  <2>10. NoRefusableDescriptor <=>
            IF code \in known THEN broken # {} /\ code = codes[Min(broken)]
            ELSE /\ code \in {Unset, "PROJECTOR_NO_INPUT_DOMAIN"} => broken = {}
                 /\ (code = Unset /\ d.state # Unset) =>
                      Base \subseteq d.state /\ Unspecified \notin d.state
    BY Zenon DEF NoRefusableDescriptor
  <2> HIDE DEF d, broken, codes, code, known
  <2>7. broken \subseteq 1..7
    BY DEF broken, BrokenRules
  <2>8. CASE code = "RESOLUTION_UNSPECIFIED"
    <3>1. code \notin known /\ code \notin {Unset, "PROJECTOR_NO_INPUT_DOMAIN"}
      BY <2>6, <2>8, DescriptorAssumption DEF Codes
    <3> QED
      BY <2>10, <3>1
  <2>9. CASE code # "RESOLUTION_UNSPECIFIED"
    <3> DEFINE reason == Refusal(d)
    <3>1. /\ \/ code = reason
             \/ reason = Unset /\ code = "PROJECTOR_NO_INPUT_DOMAIN"
          /\ HasState(table, asked) => Unspecified \notin Listed(table, asked)
      BY <2>4, <2>9 DEF Reason, d
    <3>2. ASSUME NEW n \in 1..7, n \in broken, \A m \in broken : n <= m,
                 reason = codes[n]
          PROVE  NoRefusableDescriptor
      <4> HIDE DEF reason
      <4>1. Min(broken) = n
        BY <2>7, <3>2, FirstRule
      <4>2. reason \in known
        BY <3>2 DEF known
      <4>3. code = reason
        BY <2>6, <3>1, <4>2, DescriptorAssumption DEF Codes
      <4>4. code \in known /\ broken # {} /\ code = codes[Min(broken)]
        BY <3>2, <4>1, <4>2, <4>3
      <4> QED
        BY <2>10, <4>4
    <3>3. ASSUME reason = Unset, broken = {} PROVE NoRefusableDescriptor
      <4> HIDE DEF reason
      <4>1. code \in {Unset, "PROJECTOR_NO_INPUT_DOMAIN"} /\ code \notin known
        BY <2>6, <3>1, <3>3, DescriptorAssumption DEF Codes
      <4>2. (code = Unset /\ d.state # Unset) =>
              Base \subseteq d.state /\ Unspecified \notin d.state
        BY <2>4, <3>1, DescriptorAssumption
      <4> QED
        BY <2>10, <3>3, <4>1, <4>2
    <3>4. \/ reason = Unset /\ broken = {}
          \/ \E n \in 1..7 : n \in broken /\ (\A m \in broken : n <= m) /\ reason = codes[n]
      <4> HIDE DEF reason
      <4>1. CASE d.rules_version = NoVersion
        <5>1. 1 \in broken /\ reason = codes[1]
          BY <2>3, <2>5, <4>1 DEF reason, Refusal
        <5> QED
          BY <2>7, <5>1
      <4>2. CASE d.rules_version # NoVersion /\ d.kind # "process_manager" /\ d.starts
        <5>1. 2 \in broken /\ reason = codes[2] /\ 1 \notin broken
          BY <2>3, <2>5, <4>2 DEF reason, Refusal
        <5> QED
          BY <2>7, <5>1
      <4> DEFINE begins == d.rules_version # NoVersion
                           /\ ~(d.kind # "process_manager" /\ d.starts)
      <4>3. ASSUME begins PROVE 1 \notin broken /\ 2 \notin broken
        BY <2>3, <4>3
      <4>4. CASE begins /\ d.state = Unset /\ d.kind \in Stateful
        <5>1. 3 \in broken /\ reason = codes[3]
          BY <2>3, <2>5, <4>4 DEF reason, Refusal
        <5> QED
          BY <2>7, <4>3, <4>4, <5>1
      <4>5. CASE begins /\ d.state # Unset /\ d.kind \notin Stateful
        <5>1. 4 \in broken /\ reason = codes[4] /\ 3 \notin broken
          BY <2>1, <2>3, <2>5, <4>5 DEF reason, Refusal
        <5> QED
          BY <2>7, <4>3, <4>5, <5>1
      <4> DEFINE stands == begins /\ (d.state = Unset <=> d.kind \notin Stateful)
      <4>6. ASSUME stands
            PROVE  1 \notin broken /\ 2 \notin broken /\ 3 \notin broken /\ 4 \notin broken
        BY <2>3, <4>6 DEF Stateful
      <4>7. CASE stands /\ d.kind = "policy" /\ \A i \in d.inputs : d.inputs # {i}
        <5>1. 5 \in broken /\ reason = codes[5]
          BY <2>3, <2>5, <4>7 DEF reason, Refusal
        <5> QED
          BY <2>7, <4>6, <4>7, <5>1
      <4>8. CASE stands /\ d.kind = "policy" /\ \E i \in d.inputs : d.inputs = {i}
        <5>1. 5 \notin broken /\ 7 \notin broken
          BY <2>3, <4>8
        <5>2. reason = IF d.output_domain = "" THEN codes[6] ELSE Unset
          BY <2>5, <4>8 DEF reason, Refusal, Stateful
        <5>3. 6 \in broken <=> d.output_domain = ""
          BY <2>3, <4>8
        <5>4. \A n \in broken : n = 6
          BY <2>7, <4>6, <4>8, <5>1
        <5>5. CASE d.output_domain = ""
          <6>1. 6 \in broken /\ reason = codes[6]
            BY <5>2, <5>3, <5>5
          <6>2. \A m \in broken : 6 <= m
            BY <5>4
          <6> QED
            BY <6>1, <6>2
        <5>6. CASE d.output_domain # ""
          <6>1. broken = {} /\ reason = Unset
            BY <5>2, <5>3, <5>4, <5>6
          <6> QED
            BY <6>1
        <5> QED
          BY <5>5, <5>6
      <4>9. CASE stands /\ d.kind # "policy"
        <5>1. 5 \notin broken /\ 6 \notin broken
          BY <2>3, <4>9
        <5>2. reason = IF d.output_domain # "" THEN codes[7] ELSE Unset
          BY <2>5, <4>9 DEF reason, Refusal, Stateful
        <5>3. 7 \in broken <=> d.output_domain # ""
          BY <2>3, <4>9
        <5>4. \A n \in broken : n = 7
          BY <2>7, <4>6, <4>9, <5>1
        <5>5. CASE d.output_domain = ""
          <6>1. broken = {} /\ reason = Unset
            BY <5>2, <5>3, <5>4, <5>5
          <6> QED
            BY <6>1
        <5>6. CASE d.output_domain # ""
          <6>1. 7 \in broken /\ reason = codes[7]
            BY <5>2, <5>3, <5>6
          <6>2. \A m \in broken : 7 <= m
            BY <5>4
          <6> QED
            BY <6>1, <6>2
        <5> QED
          BY <5>5, <5>6
      <4> QED
        BY <4>1, <4>2, <4>4, <4>5, <4>7, <4>8, <4>9
    <3> QED
      BY <3>2, <3>3, <3>4
  <2> QED
    BY <2>8, <2>9
<1> QED
  BY <1>1, DescribedInvariant, PTL

\* A descriptor of the version its component reports is one its host takes,
\* and a projector's has inputs (describe, and the host's _add).
THEOREM DescribedIsServed == DescriptorSpec => []HostTakesDescriptor
<1>1. DescribedInv => HostTakesDescriptor
  <2> SUFFICES ASSUME DescribedInv, described # Unset, described.code = Unset
               PROVE  HostTakesDescriptor
    BY DEF HostTakesDescriptor
  <2>1. /\ Reason(table, asked) = Unset
        /\ described.descriptor = Built(table, asked)
    BY DEF DescribedInv
  <2>2. /\ Refusal(Built(table, asked)) = Unset
        /\ table.kind = "projector" => Inputs(table) # {}
    BY <2>1, DescriptorAssumption DEF Reason, Codes
  <2>3. Built(table, asked).rules_version # NoVersion
    BY <2>2, DescriptorAssumption DEF Refusal, Codes
  <2>4. Built(table, asked).rules_version =
          IF asked.rules_version = Unset THEN table.rules_version
                                         ELSE asked.rules_version
    BY DEF Built
  <2>5. table.kind = "projector" =>
          table.domains # {} /\ described.descriptor.inputs # {}
    <3>1. Built(table, asked).inputs = Inputs(table)
      BY DEF Built
    <3>2. table.kind = "projector" => Inputs(table) = table.domains
      BY DEF Inputs
    <3> QED
      BY <2>1, <2>2, <3>1, <3>2
  <2> QED
    BY <2>1, <2>3, <2>4, <2>5 DEF HostTakesDescriptor
<1> QED
  BY <1>1, DescribedInvariant, PTL
----------------------------------------------------------------------------
(* The clients: who closes a channel, and what a closed one answers. *)

Owners(x) == {c \in Client : Live(c) /\ client[c].owns /\ client[c].channel = x}

ClientsType ==
  /\ channel \in [Channel -> {"unused", "open", "closed"}]
  /\ opener \in [Channel -> {Nothing, "library", "caller"}]
  /\ lent \in [Channel -> BOOLEAN]
  /\ client \in [Client -> Object \cup {Nothing}]
  /\ done \subseteq {c \in Client : Live(c)} /\ dropped \subseteq Channel

\* Nobody owns a channel that is not there or is lent, one client one that
\* connect opened, and it is closed by that one.
OwnerInv ==
  /\ ClientsType
  /\ \A x \in Channel :
       /\ channel[x] = "unused" <=> opener[x] = Nothing
       /\ opener[x] = Nothing => Owners(x) = {}
       /\ (opener[x] = "caller" /\ lent[x]) =>
            Owners(x) = {} /\ (channel[x] = "closed" => x \in dropped)
       /\ opener[x] = "library" =>
            \E c \in Client : /\ Owners(x) = {c}
                              /\ channel[x] = "closed" <=> c \in done

\* A domain and its parts are three objects.
LEMMA ThreeObjects ==
  ASSUME NEW c, NEW h, NEW q, Cardinality({c, h, q}) = 3
  PROVE  c # h /\ c # q /\ h # q
<1>1. \A a, b : Cardinality({a, b}) # 3
  <2> TAKE a, b
  <2>1. IsFiniteSet({a}) /\ Cardinality({a}) = 1
    BY FS_Singleton
  <2>2. Cardinality({a} \cup {b}) \in {1, 2}
    BY <2>1, FS_AddElement
  <2>3. {a} \cup {b} = {a, b}
    OBVIOUS
  <2> QED
    BY <2>2, <2>3
<1>2. /\ c = h => {c, h, q} = {c, q}
      /\ c = q => {c, h, q} = {c, h}
      /\ h = q => {c, h, q} = {c, h}
  OBVIOUS
<1> QED
  BY <1>1, <1>2

\* What a constructor makes is one new owner of the channel, or none.
LEMMA MadeOwns ==
  ASSUME ClientsType, NEW x \in Channel, NEW o \in BOOLEAN, Made(x, o)
  PROVE  /\ client' \in [Client -> Object \cup {Nothing}]
         /\ \A c \in Client : Live(c) => client'[c] = client[c]
         /\ \E c \in Client :
              /\ Free(c)
              /\ \A y \in Channel :
                   Owners(y)' = IF o /\ y = x THEN Owners(y) \cup {c} ELSE Owners(y)
<1>1. ASSUME NEW c \in Client, NEW k \in Kinds, Free(c),
             client' = [client EXCEPT ![c] = Single(k, x, o)]
      PROVE  /\ client' \in [Client -> Object \cup {Nothing}]
             /\ \A d \in Client : Live(d) => client'[d] = client[d]
             /\ \A y \in Channel :
                  Owners(y)' = IF o /\ y = x THEN Owners(y) \cup {c} ELSE Owners(y)
  <2> DEFINE v == Single(k, x, o)
  <2>1. v \in Object /\ v # Nothing /\ v.owns = o /\ v.channel = x
    BY NothingAssumption DEF Single, Object
  <2> HIDE DEF v
  <2>2. client'[c] = v /\ \A d \in Client : d # c => client'[d] = client[d]
    BY <1>1 DEF ClientsType, v
  <2>3. client' \in [Client -> Object \cup {Nothing}]
    BY <1>1, <2>1 DEF ClientsType, v
  <2> QED
    BY <1>1, <2>1, <2>2, <2>3 DEF Owners, Free, Live
<1>2. ASSUME NEW c \in Client, NEW h \in Client, NEW q \in Client,
             Free(c), Free(h), Free(q), Cardinality({c, h, q}) = 3,
             client' = Domain(c, h, q, x, o)
      PROVE  /\ client' \in [Client -> Object \cup {Nothing}]
             /\ \A d \in Client : Live(d) => client'[d] = client[d]
             /\ \A y \in Channel :
                  Owners(y)' = IF o /\ y = x THEN Owners(y) \cup {c} ELSE Owners(y)
  <2> DEFINE v == [kind |-> "domain", channel |-> x, owns |-> o,
                   parts |-> [command |-> h, query |-> q]]
             u == Single("command", x, FALSE)
             w == Single("query", x, FALSE)
  <2>1. /\ v \in Object /\ v # Nothing /\ v.owns = o /\ v.channel = x
        /\ u \in Object /\ u # Nothing /\ u.owns = FALSE
        /\ w \in Object /\ w # Nothing /\ w.owns = FALSE
    <3>1. v \in Object /\ v.owns = o /\ v.channel = x
      BY DEF Object
    <3>2. u \in Object /\ u.owns = FALSE
      BY DEF Single, Object, Kinds
    <3>3. w \in Object /\ w.owns = FALSE
      BY DEF Single, Object, Kinds
    <3> HIDE DEF v, u, w
    <3> QED
      BY <3>1, <3>2, <3>3, NothingAssumption
  <2>2. client' = [client EXCEPT ![c] = v, ![h] = u, ![q] = w]
    BY <1>2 DEF Domain
  <2>3. c # h /\ c # q /\ h # q
    BY <1>2, ThreeObjects
  <2> HIDE DEF v, u, w
  <2>4. /\ client'[c] = v /\ client'[h] = u /\ client'[q] = w
        /\ \A d \in Client : d \notin {c, h, q} => client'[d] = client[d]
    BY <2>2, <2>3 DEF ClientsType
  <2>5. client' \in [Client -> Object \cup {Nothing}]
    BY <2>1, <2>2 DEF ClientsType
  <2> QED
    BY <1>2, <2>1, <2>3, <2>4, <2>5 DEF Owners, Free, Live
<1> QED
  BY <1>1, <1>2 DEF Made

\* A step that leaves the objects alone leaves the owners.
LEMMA OwnersStay ==
  ASSUME UNCHANGED client PROVE \A x : Owners(x)' = Owners(x)
BY DEF Owners, Live

\* Building a client over a channel, or composing one of two.
LEMMA BuildingKeepsOwners ==
  ASSUME OwnerInv,
         \/ \E x \in Channel : Connect(x) \/ Construct(x) \/ FromChannel(x)
         \/ \E c, h, q \in Client : FromClients(c, h, q)
  PROVE  OwnerInv'
<1> USE NothingAssumption
<1>1. ASSUME NEW x \in Channel, Connect(x) PROVE OwnerInv'
  <2>1. /\ channel[x] = "unused" /\ Made(x, TRUE)
        /\ channel' = [channel EXCEPT ![x] = "open"]
        /\ opener' = [opener EXCEPT ![x] = "library"]
        /\ UNCHANGED <<lent, done, dropped>>
    BY <1>1 DEF Connect, Open
  <2>2. PICK c \in Client :
          /\ Free(c)
          /\ \A y \in Channel :
               Owners(y)' = IF y = x THEN Owners(y) \cup {c} ELSE Owners(y)
    <3>1. ClientsType /\ TRUE \in BOOLEAN
      BY DEF OwnerInv
    <3>2. \E c \in Client :
            /\ Free(c)
            /\ \A y \in Channel :
                 Owners(y)' = IF TRUE /\ y = x THEN Owners(y) \cup {c} ELSE Owners(y)
      BY <2>1, <3>1, MadeOwns
    <3> QED
      BY <3>2
  <2>3. /\ client' \in [Client -> Object \cup {Nothing}]
        /\ \A d \in Client : Live(d) => client'[d] = client[d]
    BY <2>1, MadeOwns DEF OwnerInv
  <2>4. ClientsType'
    BY <2>1, <2>3 DEF OwnerInv, ClientsType, Live
  <2>5. Owners(x) = {} /\ c \notin done
    BY <2>1, <2>2 DEF OwnerInv, ClientsType, Free, Live
  <2>6. /\ Owners(x)' = {c} /\ channel'[x] = "open" /\ opener'[x] = "library"
        /\ c \notin done'
    BY <2>1, <2>2, <2>5 DEF OwnerInv, ClientsType
  <2>7. \A y \in Channel \ {x} :
          /\ Owners(y)' = Owners(y) /\ channel'[y] = channel[y]
          /\ opener'[y] = opener[y] /\ lent'[y] = lent[y]
    BY <2>1, <2>2 DEF OwnerInv, ClientsType
  <2> QED
    BY <2>1, <2>4, <2>6, <2>7 DEF OwnerInv
<1>2. ASSUME NEW x \in Channel, Construct(x) PROVE OwnerInv'
  <2>1. /\ opener[x] = "caller" /\ Made(x, TRUE)
        /\ lent' = [lent EXCEPT ![x] = FALSE]
        /\ UNCHANGED <<channel, opener, done, dropped>>
    BY <1>2 DEF Construct
  <2>2. /\ client' \in [Client -> Object \cup {Nothing}]
        /\ \A d \in Client : Live(d) => client'[d] = client[d]
        /\ \A y \in Channel \ {x} : Owners(y)' = Owners(y)
    BY <2>1, MadeOwns DEF OwnerInv
  <2>3. ClientsType'
    BY <2>1, <2>2 DEF OwnerInv, ClientsType, Live
  <2>4. ~lent'[x] /\ opener'[x] = "caller" /\ channel'[x] # "unused"
    BY <2>1 DEF OwnerInv, ClientsType
  <2>5. \A y \in Channel \ {x} : lent'[y] = lent[y]
    BY <2>1 DEF OwnerInv, ClientsType
  <2> QED
    BY <2>1, <2>2, <2>3, <2>4, <2>5 DEF OwnerInv
<1>3. ASSUME NEW x \in Channel, FromChannel(x) PROVE OwnerInv'
  <2>1. Made(x, FALSE) /\ UNCHANGED <<channel, opener, lent, done, dropped>>
    BY <1>3 DEF FromChannel
  <2>2. /\ client' \in [Client -> Object \cup {Nothing}]
        /\ \A d \in Client : Live(d) => client'[d] = client[d]
        /\ \A y \in Channel : Owners(y)' = Owners(y)
    BY <2>1, MadeOwns DEF OwnerInv
  <2>3. ClientsType'
    BY <2>1, <2>2 DEF OwnerInv, ClientsType, Live
  <2> QED
    BY <2>1, <2>2, <2>3 DEF OwnerInv
<1>4. ASSUME NEW c \in Client, NEW h \in Client, NEW q \in Client,
             FromClients(c, h, q)
      PROVE  OwnerInv'
  <2> DEFINE v == [kind |-> "domain", channel |-> Nothing, owns |-> FALSE,
                   parts |-> [command |-> h, query |-> q]]
  <2>1. /\ Free(c) /\ client' = [client EXCEPT ![c] = v]
        /\ UNCHANGED <<channel, opener, lent, done, dropped>>
    BY <1>4 DEF FromClients
  <2>2. v \in Object /\ v.owns = FALSE
    BY DEF Object
  <2> HIDE DEF v
  <2>3. client' \in [Client -> Object \cup {Nothing}]
    BY <2>1, <2>2 DEF OwnerInv, ClientsType
  <2>4. /\ client'[c] = v
        /\ \A d \in Client \ {c} : client'[d] = client[d]
    BY <2>1 DEF OwnerInv, ClientsType
  <2>5. \A y \in Channel : Owners(y)' = Owners(y)
    BY <2>1, <2>2, <2>4 DEF Owners, Free, Live
  <2>6. ClientsType'
    BY <2>1, <2>3, <2>4 DEF OwnerInv, ClientsType, Live, Free
  <2> QED
    BY <2>1, <2>5, <2>6 DEF OwnerInv
<1> QED
  BY <1>1, <1>2, <1>3, <1>4

\* A client that is closed closes what it owns, a caller what it opened.
LEMMA ClosingKeepsOwners ==
  ASSUME OwnerInv,
         \/ \E c \in Client : Close(c)
         \/ \E x \in Channel : CallerOpens(x) \/ CallerCloses(x)
  PROVE  OwnerInv'
<1> USE NothingAssumption
<1>1. ASSUME NEW c \in Client, Close(c) PROVE OwnerInv'
  <2>1. /\ Live(c) /\ done' = done \cup {c}
        /\ UNCHANGED <<opener, lent, client, dropped>>
        /\ channel' = IF client[c].owns
                        THEN [channel EXCEPT ![client[c].channel] = "closed"]
                        ELSE channel
    BY <1>1 DEF Close
  <2>2. \A y : Owners(y)' = Owners(y)
    BY <2>1, OwnersStay
  <2>3. /\ \A y \in Channel :
             channel'[y] = IF c \in Owners(y) THEN "closed" ELSE channel[y]
        /\ channel' \in [Channel -> {"unused", "open", "closed"}]
    BY <2>1 DEF OwnerInv, ClientsType, Owners
  <2>4. ClientsType'
    BY <2>1, <2>3 DEF OwnerInv, ClientsType, Live
  <2>5. ASSUME NEW y \in Channel
        PROVE  /\ channel'[y] = "unused" <=> opener'[y] = Nothing
               /\ opener'[y] = Nothing => Owners(y)' = {}
               /\ (opener'[y] = "caller" /\ lent'[y]) =>
                    Owners(y)' = {} /\ (channel'[y] = "closed" => y \in dropped')
               /\ opener'[y] = "library" =>
                    \E d \in Client : /\ Owners(y)' = {d}
                                      /\ channel'[y] = "closed" <=> d \in done'
    <3>1. CASE c \notin Owners(y)
      BY <2>1, <2>2, <2>3, <3>1 DEF OwnerInv
    <3>2. CASE c \in Owners(y)
      BY <2>1, <2>2, <2>3, <3>2 DEF OwnerInv
    <3> QED
      BY <3>1, <3>2
  <2> QED
    BY <2>4, <2>5 DEF OwnerInv
<1>2. ASSUME NEW x \in Channel, CallerOpens(x) PROVE OwnerInv'
  <2>1. /\ channel[x] = "unused" /\ channel' = [channel EXCEPT ![x] = "open"]
        /\ opener' = [opener EXCEPT ![x] = "caller"]
        /\ UNCHANGED <<lent, client, done, dropped>>
    BY <1>2 DEF CallerOpens, Open
  <2>2. \A y : Owners(y)' = Owners(y)
    BY <2>1, OwnersStay
  <2> QED
    BY <2>1, <2>2 DEF OwnerInv, ClientsType, Live
<1>3. ASSUME NEW x \in Channel, CallerCloses(x) PROVE OwnerInv'
  <2>1. /\ channel[x] = "open" /\ opener[x] = "caller"
        /\ channel' = [channel EXCEPT ![x] = "closed"]
        /\ dropped' = dropped \cup {x} /\ UNCHANGED <<opener, lent, client, done>>
    BY <1>3 DEF CallerCloses
  <2>2. \A y : Owners(y)' = Owners(y)
    BY <2>1, OwnersStay
  <2> QED
    BY <2>1, <2>2 DEF OwnerInv, ClientsType, Live
<1> QED
  BY <1>1, <1>2, <1>3

LEMMA OwnerStep == OwnerInv /\ [ClientsNext]_clientsVars => OwnerInv'
<1> SUFFICES ASSUME OwnerInv, [ClientsNext]_clientsVars PROVE OwnerInv'
  OBVIOUS
<1>1. ASSUME UNCHANGED <<channel, opener, lent, client, done, dropped>>
      PROVE  OwnerInv'
  BY <1>1, OwnersStay DEF OwnerInv, ClientsType, Live
<1>2. ASSUME NEW t \in Thread,
             \/ \E c \in Client, op \in Kinds : Invoke(t, c, op)
             \/ Answered(t) \/ CallBreaks(t) \/ Return(t)
      PROVE  OwnerInv'
  BY <1>1, <1>2 DEF Invoke, Answered, CallBreaks, Return
<1> QED
  BY <1>1, <1>2, BuildingKeepsOwners, ClosingKeepsOwners DEF ClientsNext, clientsVars

THEOREM OwnerInvariant == ClientsSpec => []OwnerInv
<1>1. ClientsInit => OwnerInv
  BY NothingAssumption DEF ClientsInit, OwnerInv, ClientsType, Owners, Live
<1> QED
  BY <1>1, OwnerStep, PTL DEF ClientsSpec

\* A channel is closed by whom it belongs to, and by nobody else (close,
\* from_channel, connect): for any clients and channels.
THEOREM OwnersClose == ClientsSpec => []ChannelsCloseWithTheirOwner
<1>1. OwnerInv => ChannelsCloseWithTheirOwner
  <2> SUFFICES ASSUME OwnerInv, NEW x \in Channel
               PROVE  /\ (opener[x] = "caller" /\ lent[x] /\ channel[x] = "closed")
                           => x \in dropped
                      /\ opener[x] = "library" =>
                           /\ Cardinality(Owners(x)) = 1
                           /\ channel[x] = "closed" <=> Owners(x) \subseteq done
    BY DEF ChannelsCloseWithTheirOwner, Owners
  <2> QED
    BY FS_Singleton DEF OwnerInv
<1> QED
  BY <1>1, OwnerInvariant, PTL

\* A client that is no domain has a channel; a domain has two parts, which own
\* nothing if it made them itself.
Sound(c) ==
  IF client[c].kind = "domain"
    THEN /\ client[c].parts # Nothing
         /\ \A k \in Kinds :
              LET p == client[c].parts[k]
              IN  /\ p \in Client /\ Live(p) /\ client[p].kind = k
                  /\ client[c].channel # Nothing => ~client[p].owns
    ELSE client[c].channel \in Channel

SoundInv == \A c \in Client : Live(c) => Sound(c)

\* What is closed was closed with a right to, and so is what cut a call.
RightInv ==
  \A x \in Channel :
    channel[x] = "closed" => x \in dropped \/ \E c \in Owners(x) : c \in done

CallInv ==
  /\ call = [t \in Thread |-> call[t]]
  /\ \A t \in Thread :
       /\ InCall(t) => call[t].on \in Channel
       /\ call[t].at = "ended" =>
            /\ call[t].on \in Channel
            /\ call[t].cut => channel[call[t].on] = "closed"

CutInv == OwnerInv /\ SoundInv /\ RightInv /\ CallInv

\* No step changes a client that is there.
LEMMA ClientsLast ==
  ASSUME ClientsType, [ClientsNext]_clientsVars
  PROVE  \A c \in Client : Live(c) => client'[c] = client[c]
<1>1. ASSUME NEW x \in Channel, Connect(x) \/ Construct(x) \/ FromChannel(x)
      PROVE  \A c \in Client : Live(c) => client'[c] = client[c]
  BY <1>1, MadeOwns DEF Connect, Construct, FromChannel
<1>2. ASSUME NEW c \in Client, NEW h \in Client, NEW q \in Client, FromClients(c, h, q)
      PROVE  \A d \in Client : Live(d) => client'[d] = client[d]
  BY <1>2 DEF FromClients, Free, Live, ClientsType
<1>3. CASE \/ \E x \in Channel : CallerOpens(x) \/ CallerCloses(x)
           \/ \E c \in Client : Close(c)
           \/ \E t \in Thread : \/ \E c \in Client, op \in Kinds : Invoke(t, c, op)
                                \/ Answered(t) \/ CallBreaks(t) \/ Return(t)
  BY <1>3 DEF CallerOpens, CallerCloses, Close, Invoke, Answered, CallBreaks, Return
<1>4. CASE UNCHANGED clientsVars
  BY <1>4 DEF clientsVars
<1> QED
  BY <1>1, <1>2, <1>3, <1>4 DEF ClientsNext

\* A client that is there stays as sound as it was.
LEMMA SoundStays ==
  ASSUME \A c \in Client : Live(c) => client'[c] = client[c],
         NEW c \in Client, Live(c), Sound(c)
  PROVE  Live(c)' /\ Sound(c)'
<1>1. client'[c] = client[c] /\ Live(c)'
  BY DEF Live
<1>2. CASE client[c].kind = "domain"
  <2>1. \A k \in Kinds : LET p == client[c].parts[k]
                         IN  p \in Client /\ client'[p] = client[p]
    BY <1>2 DEF Sound
  <2> QED
    BY <1>1, <1>2, <2>1 DEF Sound, Live
<1>3. CASE client[c].kind # "domain"
  BY <1>1, <1>3 DEF Sound
<1> QED
  BY <1>1, <1>2, <1>3

\* What a constructor makes is sound.
LEMMA MadeSound ==
  ASSUME ClientsType, SoundInv, NEW x \in Channel, NEW o \in BOOLEAN, Made(x, o)
  PROVE  SoundInv'
<1> USE NothingAssumption
<1>0. \A c \in Client : Live(c) => client'[c] = client[c]
  BY MadeOwns
<1>1. \A c \in Client : Live(c) => Sound(c)'
  BY <1>0, SoundStays DEF SoundInv
<1>2. ASSUME NEW c \in Client, NEW k \in Kinds, Free(c),
             client' = [client EXCEPT ![c] = Single(k, x, o)]
      PROVE  SoundInv'
  <2>1. /\ client'[c].kind \in Kinds /\ client'[c].channel = x
        /\ \A d \in Client : d # c => client'[d] = client[d]
    BY <1>2 DEF ClientsType, Single
  <2>2. client'[c].kind # "domain"
    BY <2>1 DEF Kinds
  <2> QED
    BY <1>1, <2>1, <2>2 DEF SoundInv, Sound, Live
<1>3. ASSUME NEW c \in Client, NEW h \in Client, NEW q \in Client,
             Free(c), Free(h), Free(q), Cardinality({c, h, q}) = 3,
             client' = Domain(c, h, q, x, o)
      PROVE  SoundInv'
  <2> DEFINE ps == [command |-> h, query |-> q]
             v == [kind |-> "domain", channel |-> x, owns |-> o, parts |-> ps]
             u == Single("command", x, FALSE)
             w == Single("query", x, FALSE)
  <2>1. /\ v.kind = "domain" /\ v.parts = ps /\ ps # Nothing
        /\ u.kind = "command" /\ u.channel = x /\ ~u.owns
        /\ w.kind = "query" /\ w.channel = x /\ ~w.owns
        /\ u # Nothing /\ w # Nothing
    <3>1. /\ v.kind = "domain" /\ v.parts = ps
          /\ u.kind = "command" /\ u.channel = x /\ ~u.owns
          /\ w.kind = "query" /\ w.channel = x /\ ~w.owns
      BY DEF Single
    <3>2. u \in Object /\ w \in Object
      BY DEF Single, Object, Kinds
    <3>3. ps # Nothing
      BY NothingAssumption
    <3> HIDE DEF u, w, v, ps
    <3> QED
      BY <3>1, <3>2, <3>3
  <2>2. client' = [client EXCEPT ![c] = v, ![h] = u, ![q] = w]
    BY <1>3 DEF Domain
  <2>3. c # h /\ c # q /\ h # q
    BY <1>3, ThreeObjects
  <2>4. ps["command"] = h /\ ps["query"] = q
    OBVIOUS
  <2> HIDE DEF v, u, w, ps
  <2>5. /\ client'[c] = v /\ client'[h] = u /\ client'[q] = w
        /\ \A d \in Client : d \notin {c, h, q} => client'[d] = client[d]
    BY <2>2, <2>3 DEF ClientsType
  <2>6. Sound(c)'
    BY <2>1, <2>4, <2>5 DEF Sound, Live, Kinds
  <2>7. Sound(h)' /\ Sound(q)'
    BY <2>1, <2>5 DEF Sound
  <2>8. \A d \in Client : d \notin {c, h, q} => (Live(d)' <=> Live(d))
    BY <2>5 DEF Live
  <2> QED
    BY <1>1, <2>6, <2>7, <2>8 DEF SoundInv
<1> QED
  BY <1>2, <1>3 DEF Made

LEMMA SoundStep ==
  ASSUME OwnerInv, SoundInv, [ClientsNext]_clientsVars
  PROVE  SoundInv'
<1>0. ClientsType
  BY DEF OwnerInv
<1>1. ASSUME NEW x \in Channel, Connect(x) \/ Construct(x) \/ FromChannel(x)
      PROVE  SoundInv'
  BY <1>0, <1>1, MadeSound DEF Connect, Construct, FromChannel
<1>2. ASSUME NEW c \in Client, NEW h \in Client, NEW q \in Client, FromClients(c, h, q)
      PROVE  SoundInv'
  <2> DEFINE ps == [command |-> h, query |-> q]
             v == [kind |-> "domain", channel |-> Nothing, owns |-> FALSE, parts |-> ps]
  <2>1. /\ Live(h) /\ Live(q) /\ client[h].kind = "command"
        /\ client[q].kind = "query" /\ client' = [client EXCEPT ![c] = v]
    BY <1>2 DEF FromClients
  <2>2. ps["command"] = h /\ ps["query"] = q /\ v.kind = "domain"
        /\ v.channel = Nothing /\ v.parts = ps
    OBVIOUS
  <2>3. ps # Nothing
    BY NothingAssumption
  <2> HIDE DEF v, ps
  <2>4. client'[c] = v /\ \A d \in Client : d # c => client'[d] = client[d]
    BY <1>0, <2>1 DEF ClientsType
  <2>5. \A d \in Client : Live(d) => client'[d] = client[d]
    BY <1>2, <2>4 DEF FromClients, Free, Live
  <2>6. Sound(c)'
    <3>1. /\ Live(h)' /\ Live(q)'
          /\ client'[h].kind = "command" /\ client'[q].kind = "query"
      BY <2>1, <2>5 DEF Live
    <3> QED
      BY <2>2, <2>3, <2>4, <3>1 DEF Sound, Kinds
  <2>7. \A d \in Client : Live(d) => Sound(d)'
    BY <2>5, SoundStays DEF SoundInv
  <2> QED
    BY <2>4, <2>6, <2>7 DEF SoundInv, Live
<1>3. CASE UNCHANGED client
  BY <1>3 DEF SoundInv, Sound, Live
<1>4. CASE \/ \E x \in Channel : CallerOpens(x) \/ CallerCloses(x)
           \/ \E c \in Client : Close(c)
           \/ \E t \in Thread : \/ \E c \in Client, op \in Kinds : Invoke(t, c, op)
                                \/ Answered(t) \/ CallBreaks(t) \/ Return(t)
  BY <1>3, <1>4 DEF CallerOpens, CallerCloses, Close, Invoke, Answered, CallBreaks,
                    Return
<1> QED
  BY <1>1, <1>2, <1>3, <1>4 DEF ClientsNext, clientsVars

\* Owners are never lost, and a close is an owner's or the caller's.
LEMMA RightStep ==
  ASSUME OwnerInv, RightInv, [ClientsNext]_clientsVars
  PROVE  RightInv'
<1>0. ClientsType
  BY DEF OwnerInv
<1>1. \A x \in Channel : Owners(x) \subseteq Owners(x)'
  BY <1>0, ClientsLast DEF Owners, Live
<1>2. ASSUME dropped \subseteq dropped', done \subseteq done',
             \A x \in Channel : channel'[x] = "closed" => channel[x] = "closed"
      PROVE  RightInv'
  BY <1>1, <1>2 DEF RightInv
<1>3. ASSUME NEW x \in Channel, CallerOpens(x) \/ Connect(x) PROVE RightInv'
  BY <1>0, <1>2, <1>3 DEF CallerOpens, Connect, Open, ClientsType
<1>4. ASSUME NEW x \in Channel, CallerCloses(x) PROVE RightInv'
  BY <1>0, <1>1, <1>4 DEF CallerCloses, RightInv, ClientsType
<1>5. ASSUME NEW c \in Client, Close(c) PROVE RightInv'
  <2>1. /\ Live(c) /\ c \in done' /\ done \subseteq done' /\ dropped' = dropped
        /\ channel' = IF client[c].owns
                        THEN [channel EXCEPT ![client[c].channel] = "closed"]
                        ELSE channel
    BY <1>5 DEF Close
  <2>2. \A x \in Channel :
          channel'[x] = "closed" => channel[x] = "closed" \/ c \in Owners(x)
    BY <1>0, <2>1 DEF Owners, ClientsType
  <2> QED
    BY <1>1, <2>1, <2>2 DEF RightInv
<1>6. CASE \/ \E x \in Channel : Construct(x) \/ FromChannel(x)
           \/ \E c, h, q \in Client : FromClients(c, h, q)
           \/ \E t \in Thread : \/ \E c \in Client, op \in Kinds : Invoke(t, c, op)
                                \/ Answered(t) \/ CallBreaks(t) \/ Return(t)
           \/ UNCHANGED clientsVars
  BY <1>2, <1>6 DEF Construct, FromChannel, FromClients, Invoke, Answered, CallBreaks,
                    Return, clientsVars
<1> QED
  BY <1>3, <1>4, <1>5, <1>6 DEF ClientsNext

\* A call goes over a channel there is, and what is closed stays closed.
LEMMA CallStep ==
  ASSUME OwnerInv, SoundInv, CallInv, [ClientsNext]_clientsVars
  PROVE  CallInv'
<1>0. ClientsType
  BY DEF OwnerInv
<1>1. ASSUME UNCHANGED call,
             \A x \in Channel : channel[x] = "closed" => channel'[x] = "closed"
      PROVE  CallInv'
  BY <1>1 DEF CallInv, InCall
<1>2. ASSUME NEW t \in Thread, NEW v, call' = [call EXCEPT ![t] = v], UNCHANGED channel,
             /\ v.at \in {"wait", "drain"} => v.on \in Channel
             /\ v.at = "ended" => /\ v.on \in Channel
                                  /\ v.cut => channel[v.on] = "closed"
      PROVE  CallInv'
  <2>1. /\ call'[t] = v /\ \A u \in Thread \ {t} : call'[u] = call[u]
        /\ call' = [u \in Thread |-> call'[u]]
    BY <1>2 DEF CallInv
  <2> QED
    BY <1>2, <2>1 DEF CallInv, InCall
<1>3. ASSUME NEW t \in Thread, NEW c \in Client, NEW op \in Kinds, Invoke(t, c, op)
      PROVE  CallInv'
  <2> DEFINE x == Route(c, op)
  <2>1. x \in Channel
    <3>1. /\ Live(c) /\ op \in Operations(c) /\ Sound(c)
      BY <1>3 DEF Invoke, SoundInv
    <3>2. CASE client[c].kind = "domain"
      <4> DEFINE p == client[c].parts[op]
      <4>1. p \in Client /\ Live(p) /\ client[p].kind = op
        BY <3>1, <3>2 DEF Sound
      <4>2. client[p].kind # "domain"
        BY <4>1 DEF Kinds
      <4>3. Sound(p)
        BY <4>1 DEF SoundInv
      <4> QED
        BY <3>2, <4>2, <4>3 DEF Sound, Route
    <3>3. CASE client[c].kind # "domain"
      BY <3>1, <3>3 DEF Sound, Route
    <3> QED
      BY <3>2, <3>3
  <2> HIDE DEF x
  <2>2. CASE channel[x] = "closed"
    <3> DEFINE v == [at |-> "ended", how |-> Mapped("closed"), on |-> x,
                     cut |-> channel[x] = "closed"]
    <3>1. call' = [call EXCEPT ![t] = v] /\ UNCHANGED channel
      BY <1>3, <2>2 DEF Invoke, End, x
    <3>2. v.at = "ended" /\ v.on = x
      OBVIOUS
    <3> HIDE DEF v
    <3> QED
      BY <1>2, <2>1, <2>2, <3>1, <3>2
  <2>3. CASE channel[x] # "closed"
    <3>1. PICK stream \in BOOLEAN :
            call' = [call EXCEPT ![t] =
                       [at |-> IF stream THEN "drain" ELSE "wait", on |-> x]]
      BY <1>3, <2>3 DEF Invoke, x
    <3> DEFINE v == [at |-> IF stream THEN "drain" ELSE "wait", on |-> x]
    <3>2. v.at # "ended" /\ v.on = x
      OBVIOUS
    <3>3. UNCHANGED channel
      BY <1>3 DEF Invoke
    <3>4. call' = [call EXCEPT ![t] = v]
      BY <3>1
    <3> HIDE DEF v
    <3> QED
      BY <1>2, <2>1, <3>2, <3>3, <3>4
  <2> QED
    BY <2>2, <2>3
<1>4. ASSUME NEW t \in Thread, NEW how, InCall(t), UNCHANGED channel,
             End(t, how, call[t].on)
      PROVE  CallInv'
  <2> DEFINE v == [at |-> "ended", how |-> how, on |-> call[t].on,
                   cut |-> channel[call[t].on] = "closed"]
  <2>1. call' = [call EXCEPT ![t] = v] /\ call[t].on \in Channel
    BY <1>4 DEF End, CallInv
  <2>2. /\ v.at = "ended" /\ v.on = call[t].on
        /\ v.cut => channel[call[t].on] = "closed"
    OBVIOUS
  <2> HIDE DEF v
  <2> QED
    BY <1>2, <1>4, <2>1, <2>2
<1>5. ASSUME NEW t \in Thread, Answered(t) \/ CallBreaks(t) PROVE CallInv'
  BY <1>4, <1>5 DEF Answered, CallBreaks
<1>6. ASSUME NEW t \in Thread, Return(t) PROVE CallInv'
  <2> DEFINE v == [at |-> "idle"]
  <2>1. call' = [call EXCEPT ![t] = v] /\ UNCHANGED channel
    BY <1>6 DEF Return
  <2>2. v.at = "idle"
    OBVIOUS
  <2> HIDE DEF v
  <2> QED
    BY <1>2, <2>1, <2>2
<1>7. CASE \/ \E x \in Channel : CallerOpens(x) \/ Connect(x) \/ Construct(x)
                                   \/ FromChannel(x) \/ CallerCloses(x)
           \/ \E c, h, q \in Client : FromClients(c, h, q)
           \/ \E c \in Client : Close(c)
           \/ UNCHANGED clientsVars
  <2>1. UNCHANGED call
    BY <1>7 DEF CallerOpens, Connect, Construct, FromChannel, CallerCloses, FromClients,
                Close, clientsVars
  <2>2. \A x \in Channel : channel[x] = "closed" => channel'[x] = "closed"
    BY <1>0, <1>7 DEF CallerOpens, Connect, Construct, FromChannel, CallerCloses, Open,
                      FromClients, Close, clientsVars, ClientsType
  <2> QED
    BY <1>1, <2>1, <2>2
<1> QED
  BY <1>3, <1>5, <1>6, <1>7 DEF ClientsNext

THEOREM CutInvariant == ClientsSpec => []CutInv
<1>1. ClientsInit => SoundInv /\ RightInv /\ CallInv
  BY DEF ClientsInit, SoundInv, RightInv, CallInv, Live, InCall
<1>2. CutInv /\ [ClientsNext]_clientsVars => (SoundInv /\ RightInv /\ CallInv)'
  BY SoundStep, RightStep, CallStep DEF CutInv
<1>3. CutInv <=> OwnerInv /\ SoundInv /\ RightInv /\ CallInv
  BY DEF CutInv
<1> QED
  BY <1>1, <1>2, <1>3, OwnerInvariant, PTL DEF ClientsSpec

\* A call that finds its channel closed, when it is made or in flight, was cut
\* by the caller's own close or by that of a client which owns the channel and
\* is no domain's part (close, _owns_channel): for any clients, channels and
\* threads, in any order of closes and calls.
THEOREM OwnersCut == ClientsSpec => []OnlyOwnersCutCalls
<1>1. CutInv => OnlyOwnersCutCalls
  <2> SUFFICES ASSUME CutInv, NEW t \in Thread, call[t].at = "ended", call[t].cut,
                      call[t].on \notin dropped
               PROVE  \E c \in done : /\ client[c].owns
                                      /\ client[c].channel = call[t].on /\ Whole(c)
    BY DEF OnlyOwnersCutCalls
  <2>1. call[t].on \in Channel /\ channel[call[t].on] = "closed"
    BY DEF CutInv, CallInv
  <2>2. PICK c \in Owners(call[t].on) : c \in done
    BY <2>1 DEF CutInv, RightInv
  <2>3. c \in Client /\ client[c].owns /\ client[c].channel = call[t].on
    BY <2>2 DEF Owners
  <2>4. ASSUME NEW d \in Client, Live(d), client[d].kind = "domain",
               client[d].channel # Nothing
        PROVE  c \notin {client[d].parts.command, client[d].parts.query}
    <3>1. \A k \in Kinds : ~client[client[d].parts[k]].owns
      BY <2>4 DEF CutInv, SoundInv, Sound
    <3>2. /\ ~client[client[d].parts.command].owns
          /\ ~client[client[d].parts.query].owns
      BY <3>1 DEF Kinds
    <3> QED
      BY <2>3, <3>2
  <2>5. Whole(c)
    BY <2>4 DEF Whole
  <2> QED
    BY <2>2, <2>3, <2>5
<1> QED
  BY <1>1, CutInvariant, PTL
=============================================================================
