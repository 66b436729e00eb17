------------------------- MODULE RegistrationProofs -------------------------
(***************************************************************************)
(* Proofs about how a host is given its tables and where it then is found. *)
(*                                                                         *)
(* HostRegistration: for any number of tables, versions and services, a    *)
(* host that start() accepted is consistent and drops nothing.             *)
(*                                                                         *)
(* SocketPath: any number of processes that take turns hand the socket     *)
(* path over; PathInv is the inductive invariant.                          *)
(*                                                                         *)
(* Handshake: the parent reads the socket its child announced, whatever    *)
(* the launcher printed before it.  LineInv says what the pipe holds:      *)
(* lines of the launcher's, and at its end, once the child announced and   *)
(* until the parent is connected, the child's.  That a text with an LF has *)
(* a first one is an induction, LeastElement of module Induction.          *)
(***************************************************************************)
EXTENDS HostRegistration, SocketPath, Handshake, Induction, SequenceTheorems,
        TLAPS

\* A host with a kind service has a component of that kind, and what its
\* router hosts and its table stamps is what it registered, but for what the
\* application changed since.
ComponentInv ==
  kind # "none" =>
    /\ claimed # NoTable
    /\ kind = ServiceOf(KindOf[claimed])
    /\ NamesInputs(claimed, descriptor)
    /\ router # claimed => "router" \in meddled
    /\ version[claimed] # descriptor.version => "version" \in meddled

\* What the server was built with is what the host has, if that is a
\* component: one is registered once.
ServingInv ==
  running =>
    /\ serving.kind # "none" <=> ~serving.upcaster
    /\ serving.kind # "none" => serving.kind = kind /\ serving.descriptor = descriptor

\* Unless a component is remembered as refused, all that were taken before
\* the host ran are the one it registered, and that is the one it serves.
GivenInv ==
  /\ (running \/ refused = <<>>) => \A t \in given : kind # "none" /\ claimed = t
  /\ running => \A t \in given : serving.kind # "none"

RegistrationInv == TypeOK /\ ComponentInv /\ ServingInv /\ GivenInv

\* Every kind has its kind service (the add_* methods of host.py).
LEMMA ServiceOfType == \A k \in Kinds : ServiceOf(k) \in KindServices
BY DEF Kinds, ServiceOf, KindServices

\* The checks of start() answer one of the outcomes.
LEMMA StartCodeType == StartCode \in Outcomes
BY DEF StartCode, Outcomes

\* A host that has claimed no component has no kind service: _add sets the
\* kind after the claim and the registration on the router.
LEMMA UnclaimedHasNoKind ==
  ASSUME TypeOK, ComponentInv, claimed = NoTable
  PROVE  kind = "none"
BY DEF ComponentInv

\* A table that passed _add's check stamps the version it was described
\* with, once it has the host's (_versioned against _add's `reported`).
LEMMA StampIsDescribed ==
  ASSUME TypeOK, NEW t \in Table, NEW d \in Descriptors, Matches(t, d), Versioned(t)
  PROVE  /\ version' \in [Table -> Version]
         /\ version'[t] = d.version
BY VersionAssumption DEF TypeOK, Versioned, Reported, Matches

\* Before the application has done anything the invariant holds.
LEMMA RegistrationStarts == RegistrationInit => RegistrationInv
<1> SUFFICES ASSUME RegistrationInit PROVE RegistrationInv
  OBVIOUS
<1>1. TypeOK
  <2>1. descriptor \in Descriptors
    BY VersionAssumption DEF RegistrationInit, Descriptors
  <2>2. refused \in Seq(Table) /\ services \in Seq(Service)
    BY DEF RegistrationInit
  <2>3. upcaster \in BOOLEAN /\ told \in Outcomes
    BY DEF RegistrationInit, Outcomes
  <2> QED
    BY <2>1, <2>2, <2>3 DEF RegistrationInit, TypeOK
<1> QED
  BY <1>1 DEF RegistrationInit, RegistrationInv, ComponentInv, ServingInv, GivenInv, running

\* No call on the host, its router or a table breaks it.
LEMMA RegistrationStep ==
  RegistrationInv /\ [RegistrationNext]_registrationVars => RegistrationInv'
<1> SUFFICES ASSUME RegistrationInv, [RegistrationNext]_registrationVars
             PROVE  RegistrationInv'
  OBVIOUS
<1> USE DEF RegistrationInv
<1>0. ASSUME UNCHANGED <<serving, kind, descriptor>> PROVE ServingInv'
  BY <1>0 DEF ServingInv, running
<1>1. ASSUME NEW t \in Table, RouterRegister(t)
      PROVE  RegistrationInv'
  <2>1. TypeOK'
    BY <1>1 DEF RouterRegister, TypeOK, Outcomes
  <2>2. ComponentInv' /\ GivenInv'
    BY <1>1 DEF RouterRegister, ComponentInv, GivenInv, running, NamesInputs, TypeOK
  <2> QED BY <1>0, <1>1, <2>1, <2>2 DEF RouterRegister
<1>2. ASSUME NEW t \in Table, NEW v \in Version, WithRulesVersion(t, v)
      PROVE  RegistrationInv'
  <2>1. TypeOK'
    BY <1>2 DEF WithRulesVersion, Meddles, TypeOK
  <2>2. kind # "none" =>
          /\ meddled \subseteq meddled'
          /\ version'[claimed] # version[claimed] => "version" \in meddled'
    BY <1>2, TableAssumption DEF WithRulesVersion, Meddles, TypeOK
  <2>3. ComponentInv'
    BY <1>2, <2>2 DEF WithRulesVersion, ComponentInv, NamesInputs
  <2>4. GivenInv'
    BY <1>2 DEF WithRulesVersion, GivenInv, running
  <2> QED BY <1>0, <1>2, <2>1, <2>3, <2>4 DEF WithRulesVersion
<1>3. ASSUME NEW t \in Table, NEW d \in Descriptors, AddRaises(t, d)
      PROVE  RegistrationInv'
  <2>1. TypeOK'
    BY <1>3 DEF AddRaises, TypeOK, Outcomes
  <2>2. ComponentInv' /\ GivenInv'
    BY <1>3 DEF AddRaises, ComponentInv, GivenInv, running, NamesInputs
  <2> QED BY <1>0, <1>3, <2>1, <2>2 DEF AddRaises
<1>4. ASSUME NEW t \in Table, NEW d \in Descriptors, AddFirst(t, d)
      PROVE  RegistrationInv'
  <2>1. kind = "none" /\ claimed = NoTable /\ t # NoTable
    BY <1>4, UnclaimedHasNoKind, TableAssumption DEF AddFirst
  <2>2. version' \in [Table -> Version] /\ version'[t] = d.version
    BY <1>4, StampIsDescribed DEF AddFirst
  <2>3. ServiceOf(KindOf[t]) \in KindServices /\ "none" \notin KindServices
    BY ServiceOfType, TableAssumption DEF KindServices
  <2>4. (running \/ refused = <<>>) => given = {}
    BY <2>1 DEF GivenInv
  <2>5. UNCHANGED <<refused, upcaster, services, serving, meddled>> /\ claimed' = t
    BY <1>4 DEF AddFirst
  <2>6. CASE router = NoTable /\ told' = "ok"
    <3>1. /\ router' = t /\ kind' = ServiceOf(KindOf[t]) /\ descriptor' = d
          /\ Takes(t)
      BY <1>4, <2>6 DEF AddFirst
    <3>2. given' \subseteq Table
      BY <3>1 DEF Takes, TypeOK
    <3>3. TypeOK'
      BY <2>2, <2>3, <2>5, <2>6, <3>1, <3>2 DEF TypeOK, Outcomes
    <3>4. ComponentInv'
      BY <1>4, <2>1, <2>2, <2>5, <3>1 DEF AddFirst, ComponentInv, NamesInputs
    <3>5. ServingInv'
      BY <2>1, <2>5 DEF ServingInv, running, TypeOK
    <3>6. GivenInv'
      BY <2>3, <2>4, <2>5, <3>1 DEF GivenInv, running, Takes
    <3> QED BY <3>3, <3>4, <3>5, <3>6
  <2>7. CASE router # NoTable /\ told' = "duplicate"
    <3>1. UNCHANGED <<router, kind, descriptor, given>>
      BY <1>4, <2>7 DEF AddFirst
    <3>2. TypeOK'
      BY <2>2, <2>5, <2>7, <3>1 DEF TypeOK, Outcomes
    <3>3. ComponentInv' /\ GivenInv'
      BY <2>1, <2>4, <2>5, <3>1 DEF ComponentInv, GivenInv, running
    <3> QED BY <1>0, <2>5, <3>1, <3>2, <3>3
  <2> QED
    BY <1>4, <2>6, <2>7 DEF AddFirst
<1>5. ASSUME NEW t \in Table, NEW d \in Descriptors, AddLater(t, d)
      PROVE  RegistrationInv'
  <2>1. refused' \in Seq(Table) /\ refused' # <<>>
    BY <1>5 DEF AddLater, TypeOK
  <2>2. given' \subseteq Table /\ (running => given' = given)
    BY <1>5 DEF AddLater, Takes, TypeOK
  <2>3. TypeOK'
    BY <1>5, <2>1, <2>2 DEF AddLater, TypeOK, Outcomes
  <2>4. ComponentInv' /\ GivenInv'
    BY <1>5, <2>1, <2>2 DEF AddLater, ComponentInv, GivenInv, running, NamesInputs
  <2> QED BY <1>0, <1>5, <2>3, <2>4 DEF AddLater
<1>6. ASSUME RouterClose PROVE RegistrationInv'
  <2>1. TypeOK'
    BY <1>6 DEF RouterClose, Meddles, TypeOK
  <2>2. ComponentInv' /\ GivenInv'
    BY <1>6 DEF RouterClose, Meddles, ComponentInv, GivenInv, running, NamesInputs
  <2> QED BY <1>0, <1>6, <2>1, <2>2 DEF RouterClose
<1>7. ASSUME AddUpcaster PROVE RegistrationInv'
  <2>1. TypeOK'
    BY <1>7 DEF AddUpcaster, TypeOK, Outcomes
  <2>2. ComponentInv' /\ GivenInv'
    BY <1>7 DEF AddUpcaster, ComponentInv, GivenInv, running, NamesInputs
  <2> QED BY <1>0, <1>7, <2>1, <2>2 DEF AddUpcaster
<1>8. ASSUME AddUnnamedService PROVE RegistrationInv'
  <2>1. TypeOK'
    BY <1>8 DEF AddUnnamedService, TypeOK, Outcomes
  <2>2. ComponentInv' /\ GivenInv'
    BY <1>8 DEF AddUnnamedService, ComponentInv, GivenInv, running, NamesInputs
  <2> QED BY <1>0, <1>8, <2>1, <2>2 DEF AddUnnamedService
<1>9. ASSUME Start PROVE RegistrationInv'
  <2>1. UNCHANGED <<version, router, claimed, kind, descriptor, refused,
                    upcaster, services, given, meddled>> /\ told' = StartCode
    BY <1>9 DEF Start
  <2>2. ComponentInv'
    BY <2>1 DEF ComponentInv, NamesInputs
  <2>3. CASE StartCode = "started"
    <3> DEFINE server == [kind |-> kind, descriptor |-> descriptor,
                          upcaster |-> upcaster, services |-> services]
    <3>1. serving' = server
      BY <1>9, <2>3 DEF Start
    <3>2. server \in Servers
      BY DEF TypeOK, Servers
    <3>3. TypeOK'
      BY <2>1, <3>1, <3>2, StartCodeType DEF TypeOK
    <3>4. (kind # "none" <=> ~upcaster) /\ refused = <<>>
      BY <2>3 DEF StartCode, TypeOK
    <3>5. /\ serving'.kind = kind /\ serving'.upcaster = upcaster
          /\ serving'.descriptor = descriptor
      BY <3>1
    <3>6. ServingInv'
      BY <2>1, <3>4, <3>5 DEF ServingInv
    <3>7. GivenInv'
      BY <2>1, <3>4, <3>5 DEF GivenInv
    <3> QED BY <2>2, <3>3, <3>6, <3>7
  <2>4. CASE StartCode # "started"
    <3>1. serving' = serving
      BY <1>9, <2>4 DEF Start
    <3>2. TypeOK'
      BY <2>1, <3>1, StartCodeType DEF TypeOK
    <3>3. GivenInv'
      BY <2>1, <3>1 DEF GivenInv, running
    <3> QED BY <1>0, <2>1, <2>2, <3>1, <3>2, <3>3
  <2> QED BY <2>3, <2>4
<1>10. ASSUME NEW s \in Service, AddService(s) PROVE RegistrationInv'
  <2>1. TypeOK'
    BY <1>10 DEF AddService, TypeOK, Outcomes
  <2>2. ComponentInv' /\ GivenInv'
    BY <1>10 DEF AddService, ComponentInv, GivenInv, running, NamesInputs
  <2> QED BY <1>0, <1>10, <2>1, <2>2 DEF AddService
<1>11. CASE UNCHANGED registrationVars
  BY <1>11 DEF registrationVars, TypeOK, ComponentInv, ServingInv, GivenInv,
               running, NamesInputs
<1> QED
  BY <1>1, <1>2, <1>3, <1>4, <1>5, <1>6, <1>7, <1>8, <1>9, <1>10, <1>11
     DEF RegistrationNext

\* The inductive invariant of registration, from which the two below follow.
THEOREM RegistrationInvariant == RegistrationSpec => []RegistrationInv
<1>1. RegistrationInit => RegistrationInv
  BY RegistrationStarts
<1>2. RegistrationInv /\ [RegistrationNext]_registrationVars => RegistrationInv'
  BY RegistrationStep
<1> QED
  BY <1>1, <1>2, PTL DEF RegistrationSpec

\* A host that start() accepted serves a component or an upcaster, behind the
\* service of the component's kind, whatever it is given afterwards; what its
\* router hosts and its table stamps is what was registered and described,
\* unless the application changed that very thing since.
THEOREM RunningIsConsistent == RegistrationSpec => []RunningHostIsConsistent
<1>1. RegistrationInv => RunningHostIsConsistent
  BY DEF RegistrationInv, ComponentInv, ServingInv, RunningHostIsConsistent
<1> QED
  BY <1>1, RegistrationInvariant, PTL

\* A component given to add_* is the one that the host which runs describes
\* and serves, or start() refused, or add_* raised.
THEOREM NoComponentIsDropped == RegistrationSpec => []NothingSilentlyDropped
<1>1. RegistrationInv => NothingSilentlyDropped
  BY DEF RegistrationInv, ComponentInv, GivenInv, NothingSilentlyDropped
<1> QED
  BY <1>1, RegistrationInvariant, PTL

----------------------------------------------------------------------------
(***************************************************************************)
(* Host processes that take turns hand their socket path over, for any     *)
(* number of them.                                                         *)
(***************************************************************************)

Phases == Live \cup {"new", "ended", "failed", "killed"}

Type ==
  /\ file \in Process \cup {Nobody}
  /\ phase \in [Process -> Phases]
  /\ addressed \subseteq Process /\ overlapped \subseteq Process

\* Two processes that run at once have each met the other.
MeetingIsSeen ==
  \A p, q \in Running : p # q => p \in overlapped

\* A file is that of a process that bound it, and has not ended or failed.
FileIsHeld ==
  file # Nobody => phase[file] \in {"serve", "find", "unlink", "killed"}

Killed == \E q \in Process : phase[q] = "killed"

\* A process alone on the path knows what is there from what it did last; one
\* that was given its address, that only a killed one left a file.
AloneKnows(p) ==
  /\ phase[p] = "remove" => file # Nobody
  /\ phase[p] = "bind" => file = Nobody \/ (p \in addressed /\ Killed)
  /\ phase[p] \in {"serve", "unlink"} => file = p
  /\ phase[p] = "find" => file \in {p, Nobody}
  /\ phase[p] \in {"new", "look", "remove", "bind", "ended"} => file # p
  /\ phase[p] = "failed" => p \in addressed /\ Killed

PathInv ==
  /\ Type /\ MeetingIsSeen /\ FileIsHeld
  /\ \A p \in Process \ overlapped : AloneKnows(p)

\* Nobody, which stands for a path with no file, is none of the processes.
Named == Nobody \notin Process

\* A step of p is no step of another, and of one that never ran beside p.
LEMMA StepKeepsType ==
  ASSUME Named, PathInv, PathNext PROVE Type' /\ MeetingIsSeen' /\ FileIsHeld'
<1> USE DEF PathInv, Type, MeetingIsSeen, FileIsHeld, Running, Live, Phases, To, Named
<1>1. ASSUME NEW p \in Process, StartSelected(p)
      PROVE  Type' /\ MeetingIsSeen' /\ FileIsHeld'
  BY <1>1 DEF StartSelected, Meets
<1>2. ASSUME NEW p \in Process, StartGiven(p)
      PROVE  Type' /\ MeetingIsSeen' /\ FileIsHeld'
  BY <1>2 DEF StartGiven, Meets
<1>3. ASSUME NEW p \in Process, Look(p)
      PROVE  Type' /\ MeetingIsSeen' /\ FileIsHeld'
  BY <1>3 DEF Look
<1>4. ASSUME NEW p \in Process, RemoveStale(p)
      PROVE  Type' /\ MeetingIsSeen' /\ FileIsHeld'
  BY <1>4 DEF RemoveStale
<1>5. ASSUME NEW p \in Process, Bind(p)
      PROVE  Type' /\ MeetingIsSeen' /\ FileIsHeld'
  BY <1>5 DEF Bind
<1>6. ASSUME NEW p \in Process, StopServer(p)
      PROVE  Type' /\ MeetingIsSeen' /\ FileIsHeld'
  BY <1>6 DEF StopServer
<1>7. ASSUME NEW p \in Process, Find(p)
      PROVE  Type' /\ MeetingIsSeen' /\ FileIsHeld'
  BY <1>7 DEF Find
<1>8. ASSUME NEW p \in Process, Unlink(p)
      PROVE  Type' /\ MeetingIsSeen' /\ FileIsHeld'
  BY <1>8 DEF Unlink
<1>9. ASSUME NEW p \in Process, Crash(p)
      PROVE  Type' /\ MeetingIsSeen' /\ FileIsHeld'
  BY <1>9 DEF Crash
<1>10. CASE UNCHANGED pathVars
  BY <1>10 DEF pathVars
<1> QED
  BY <1>1, <1>2, <1>3, <1>4, <1>5, <1>6, <1>7, <1>8, <1>9, <1>10 DEF PathNext

\* The process that moves leaves what a lone one knows true: of itself, and
\* of one that is not running, as any other lone one is.
LEMMA StepKeepsKnowledge ==
  ASSUME Named, PathInv, PathNext, NEW q \in Process \ overlapped'
  PROVE  AloneKnows(q)'
<1> USE DEF PathInv, Type, AloneKnows, Killed, Live, Phases, To, Named
<1>1. ASSUME NEW p \in Process, p \in Running, p # q, overlapped' = overlapped
      PROVE  phase[q] \notin Live
  BY <1>1 DEF MeetingIsSeen, Running
<1>2. ASSUME NEW p \in Process, StartSelected(p) PROVE AloneKnows(q)'
  <2>1. overlapped \subseteq overlapped'
    BY <1>2 DEF StartSelected, Meets
  <2> QED
    BY <1>2, <2>1 DEF StartSelected, FileIsHeld
<1>3. ASSUME NEW p \in Process, StartGiven(p) PROVE AloneKnows(q)'
  <2>1. overlapped \subseteq overlapped'
    BY <1>3 DEF StartGiven, Meets
  <2>2. CASE q = p
    <3>1. Running = {}
      BY <1>3, <2>2 DEF StartGiven, Meets
    <3>2. file # Nobody => phase[file] = "killed" /\ file # p
      BY <1>3, <3>1 DEF FileIsHeld, Running, StartGiven
    <3>3. Killed => Killed'
      BY <1>3 DEF StartGiven
    <3> QED
      BY <1>3, <2>2, <3>2, <3>3 DEF StartGiven
  <2>3. CASE q # p
    BY <1>3, <2>1, <2>3 DEF StartGiven
  <2> QED
    BY <2>2, <2>3
<1>4. ASSUME NEW p \in Process, Look(p) PROVE AloneKnows(q)'
  BY <1>4 DEF Look
<1>5. ASSUME NEW p \in Process, RemoveStale(p) PROVE AloneKnows(q)'
  BY <1>1, <1>5 DEF RemoveStale, Running
<1>6. ASSUME NEW p \in Process, Bind(p) PROVE AloneKnows(q)'
  BY <1>1, <1>6 DEF Bind, Running
<1>7. ASSUME NEW p \in Process, StopServer(p) PROVE AloneKnows(q)'
  BY <1>1, <1>7 DEF StopServer, Running
<1>8. ASSUME NEW p \in Process, Find(p) PROVE AloneKnows(q)'
  BY <1>8 DEF Find
<1>9. ASSUME NEW p \in Process, Unlink(p) PROVE AloneKnows(q)'
  BY <1>1, <1>9 DEF Unlink, Running
<1>10. ASSUME NEW p \in Process, Crash(p) PROVE AloneKnows(q)'
  BY <1>10 DEF Crash
<1>11. CASE UNCHANGED pathVars
  BY <1>11 DEF pathVars
<1> QED
  BY <1>2, <1>3, <1>4, <1>5, <1>6, <1>7, <1>8, <1>9, <1>10, <1>11 DEF PathNext

\* The inductive invariant: types, that running processes have seen one
\* another, whose a file is, and what a process alone on the path knows of it.
THEOREM PathInvariant == ASSUME Named PROVE PathSpec => []PathInv
<1>1. PathInit => PathInv
  BY DEF PathInit, PathInv, Type, MeetingIsSeen, FileIsHeld, AloneKnows, Running, Live,
         Phases, Named
<1>2. PathInv /\ [PathNext]_pathVars => PathInv'
  <2> SUFFICES ASSUME PathInv, [PathNext]_pathVars PROVE PathInv'
    OBVIOUS
  <2>1. CASE UNCHANGED pathVars
    BY <2>1 DEF pathVars, PathInv, Type, MeetingIsSeen, FileIsHeld, AloneKnows, Killed,
                Running
  <2>2. CASE PathNext
    BY <2>2, StepKeepsType, StepKeepsKnowledge DEF PathInv
  <2> QED
    BY <2>1, <2>2
<1> QED
  BY <1>1, <1>2, PTL DEF PathSpec

\* A host that ran beside no other one is found at the path while it serves,
\* leaves no file of its own, and fails on the file there only if it was given
\* its address, which keeps it from removing a stale one, and a process was
\* killed.
THEOREM TurnsHandThePathOver == ASSUME Named PROVE PathSpec => []TurnsKeepThePath
<1>1. PathInv => TurnsKeepThePath
  BY DEF PathInv, AloneKnows, Killed, TurnsKeepThePath
<1> QED
  BY <1>1, PathInvariant, PTL
----------------------------------------------------------------------------
(* The line that announces the socket. *)

\* k is the first place of c in a text.
FirstAt(t, c, k) == k \in 1..Len(t) /\ t[k] = c /\ \A m \in 1..(k - 1) : t[m] # c

\* A text that has c has a first one.
LEMMA FirstExists ==
  ASSUME NEW t \in Seq(Piece), NEW c, Contains(t, c)
  PROVE  \E k : FirstAt(t, c, k)
<1> DEFINE T == {i \in Nat : i \in 1..Len(t) /\ t[i] = c}
<1>1. T \in SUBSET Nat /\ T # {}
  BY DEF Contains
<1>2. PICK k \in T : \A y \in T : k <= y
  BY <1>1, LeastElement
<1>3. k \in 1..Len(t) /\ t[k] = c /\ k \in Nat
  BY <1>2
<1>4. ASSUME NEW m \in 1..(k - 1) PROVE t[m] # c
  <2>1. m \in 1..Len(t) /\ m \in Nat /\ ~(k <= m)
    BY <1>3
  <2> QED
    BY <1>2, <2>1
<1> QED
  BY <1>3, <1>4 DEF FirstAt

\* A text is cut at the first c.
LEMMA CutIsFirst ==
  ASSUME NEW t \in Seq(Piece), NEW c, NEW k, FirstAt(t, c, k)
  PROVE  /\ Contains(t, c) /\ Cut(t, c) = k /\ k \in 1..Len(t)
         /\ Before(t, c) = SubSeq(t, 1, k - 1)
         /\ After(t, c) = SubSeq(t, k + 1, Len(t))
<1> DEFINE I == {i \in 1..Len(t) : t[i] = c}
<1>1. k \in I /\ I # {} /\ k \in Nat
  BY DEF FirstAt
<1>2. \A y \in I : k <= y
  BY <1>1 DEF FirstAt
<1>3. Cut(t, c) = Min(I)
  BY <1>1, Zenon DEF Cut, SelectInSeq
<1>4. Min(I) \in I /\ \A y \in I : Min(I) <= y
  BY <1>1, <1>2 DEF Min
<1>5. \A i \in I : i \in Nat
  OBVIOUS
<1> HIDE DEF I
<1>6. Min(I) = k
  <2> DEFINE m == Min(I)
  <2>1. m \in I /\ m <= k /\ k <= m /\ m \in Nat
    BY <1>1, <1>2, <1>4, <1>5
  <2> HIDE DEF m
  <2>2. m = k
    BY <1>1, <2>1
  <2> QED
    BY <2>2 DEF m
<1>7. Contains(t, c) /\ k \in 1..Len(t)
  BY DEF FirstAt, Contains
<1> QED
  BY <1>3, <1>6, <1>7 DEF Before, After

\* A text is found again in one it is followed by another in.
LEMMA Joined ==
  ASSUME NEW s \in Seq(Piece), NEW t \in Seq(Piece)
  PROVE  /\ s \o t \in Seq(Piece)
         /\ Len(s) \in Nat /\ Len(t) \in Nat /\ Len(s \o t) = Len(s) + Len(t)
         /\ \A n \in 1..Len(s) : (s \o t)[n] = s[n]
         /\ \A n \in 1..Len(t) : (s \o t)[Len(s) + n] = t[n]
         /\ \A n \in 1..Len(s \o t) : n <= Len(s) \/ n - Len(s) \in 1..Len(t)
<1>1. /\ s \o t \in Seq(Piece) /\ Len(s \o t) = Len(s) + Len(t)
      /\ \A i \in 1..(Len(s) + Len(t)) :
           (s \o t)[i] = IF i <= Len(s) THEN s[i] ELSE t[i - Len(s)]
  BY ConcatProperties
<1>2. Len(s) \in Nat /\ Len(t) \in Nat
  OBVIOUS
<1>3. ASSUME NEW n \in 1..Len(s) PROVE (s \o t)[n] = s[n]
  <2>1. n \in 1..(Len(s) + Len(t)) /\ n <= Len(s)
    BY <1>2
  <2> QED
    BY <1>1, <2>1
<1>4. ASSUME NEW n \in 1..Len(t) PROVE (s \o t)[Len(s) + n] = t[n]
  <2> DEFINE i == Len(s) + n
  <2>1. i \in 1..(Len(s) + Len(t)) /\ ~(i <= Len(s)) /\ i - Len(s) = n
    BY <1>2
  <2> HIDE DEF i
  <2>2. (s \o t)[i] = t[n]
    BY <1>1, <2>1
  <2> QED
    BY <2>2 DEF i
<1> QED
  BY <1>1, <1>2, <1>3, <1>4

\* What is left of a text from one place on.
LEMMA Remainder ==
  ASSUME NEW t \in Seq(Piece), NEW k \in 0..Len(t)
  PROVE  LET r == SubSeq(t, k + 1, Len(t)) IN
         /\ r \in Seq(Piece) /\ Len(r) = Len(t) - k
         /\ \A n \in 1..Len(r) : r[n] = t[k + n]
<1> DEFINE r == SubSeq(t, k + 1, Len(t))
<1>1. Len(t) \in Nat /\ k \in Nat /\ k <= Len(t) /\ \A i \in (k + 1)..Len(t) : t[i] \in Piece
  OBVIOUS
<1>2. /\ r \in Seq(Piece)
      /\ Len(r) = IF k + 1 <= Len(t) THEN Len(t) - (k + 1) + 1 ELSE 0
      /\ \A i \in 1..(Len(t) - (k + 1) + 1) : r[i] = t[k + 1 + i - 1]
  BY <1>1, SubSeqProperties
<1> HIDE DEF r
<1>3. Len(r) = Len(t) - k
  BY <1>1, <1>2
<1>4. ASSUME NEW n \in 1..Len(r) PROVE r[n] = t[k + n]
  <2>1. n \in 1..(Len(t) - (k + 1) + 1) /\ k + 1 + n - 1 = k + n
    BY <1>1, <1>3
  <2> QED
    BY <1>2, <2>1
<1> QED
  BY <1>2, <1>3, <1>4 DEF r

LEMMA Beginning ==
  ASSUME NEW t \in Seq(Piece), NEW k \in 0..Len(t)
  PROVE  LET r == SubSeq(t, 1, k) IN
         /\ r \in Seq(Piece) /\ Len(r) = k
         /\ \A n \in 1..k : r[n] = t[n]
<1> DEFINE r == SubSeq(t, 1, k)
<1>1. k \in Nat /\ k <= Len(t) /\ \A i \in 1..k : t[i] \in Piece
  OBVIOUS
<1>2. /\ r \in Seq(Piece) /\ Len(r) = IF 1 <= k THEN k - 1 + 1 ELSE 0
      /\ \A i \in 1..(k - 1 + 1) : r[i] = t[1 + i - 1]
  BY <1>1, SubSeqProperties
<1> HIDE DEF r
<1>3. Len(r) = k
  BY <1>1, <1>2
<1>4. ASSUME NEW n \in 1..k PROVE r[n] = t[n]
  <2>1. n \in 1..(k - 1 + 1) /\ 1 + n - 1 = n
    BY <1>1
  <2> QED
    BY <1>2, <2>1
<1> QED
  BY <1>2, <1>3, <1>4 DEF r

\* A line of a text: what is after its j-th piece, an LF or its beginning,
\* up to its i-th, the next LF.
LineAt(t, j, i) ==
  /\ j \in 0..Len(t) /\ i \in 1..Len(t) /\ j < i
  /\ j = 0 \/ t[j] = LF
  /\ t[i] = LF /\ \A m \in (j + 1)..(i - 1) : t[m] # LF

Reads(t, j, i, l) == Len(l) = i - j - 1 /\ \A m \in 1..Len(l) : t[j + m] = l[m]

\* Every line of a text is the launcher's, and it ends with one.
Noisy(t) ==
  /\ t \in Seq(Piece)
  /\ t # <<>> => t[Len(t)] = LF
  /\ \A j, i : LineAt(t, j, i) => \E l \in Noise : Reads(t, j, i, l)

LEMMA LastAndFront ==
  \A s, n : Len(s) = n => Last(s) = s[n] /\ Front(s) = SubSeq(s, 1, n - 1)
BY DEF Last, Front

LEMMA NoiseFact ==
  ASSUME NEW l \in Noise
  PROVE  /\ l \in Seq(Piece) /\ \A m \in 1..Len(l) : l[m] # LF
         /\ <<LF>> \in Seq(Piece)
         /\ Parse(l \o <<LF>>) = At("reading", <<>>)
<1>1. <<LF>> \in Seq(Piece)
  BY PieceAssumption
<1>2. Parse(l \o <<LF>>) = At("reading", <<>>)
  BY NoiseAssumption, Zenon DEF Parse
<1> QED
  BY <1>1, <1>2, NoiseAssumption DEF Contains

\* One line more.
LEMMA NoisyGrows ==
  ASSUME NEW t, Noisy(t), NEW l \in Noise
  PROVE  Noisy(t \o l \o <<LF>>)
<1> DEFINE N == Len(t)
           L == Len(l)
           u == l \o <<LF>>
           v == t \o u
<1>1. t \in Seq(Piece) /\ l \in Seq(Piece) /\ <<LF>> \in Seq(Piece)
  BY NoiseFact DEF Noisy
<1>2. /\ u \in Seq(Piece) /\ Len(u) = L + 1 /\ L \in Nat
      /\ u[L + 1] = LF /\ \A n \in 1..L : u[n] = l[n] /\ u[n] # LF
  <2>1. /\ u \in Seq(Piece) /\ Len(u) = L + Len(<<LF>>) /\ L \in Nat
        /\ \A n \in 1..L : u[n] = l[n]
        /\ \A n \in 1..Len(<<LF>>) : u[L + n] = <<LF>>[n]
    BY <1>1, Joined
  <2>2. Len(<<LF>>) = 1 /\ <<LF>>[1] = LF
    OBVIOUS
  <2>3. \A n \in 1..L : l[n] # LF
    BY NoiseFact
  <2> QED
    BY <2>1, <2>2, <2>3
<1> HIDE DEF u
<1>3. /\ v \in Seq(Piece) /\ N \in Nat /\ Len(v) = N + L + 1
      /\ \A n \in 1..N : v[n] = t[n]
      /\ \A n \in 1..(L + 1) : v[N + n] = u[n]
      /\ \A n \in 1..Len(v) : n <= N \/ n - N \in 1..(L + 1)
  <2>1. /\ v \in Seq(Piece) /\ N \in Nat /\ Len(v) = N + Len(u)
        /\ \A n \in 1..N : v[n] = t[n]
        /\ \A n \in 1..Len(u) : v[N + n] = u[n]
        /\ \A n \in 1..Len(v) : n <= N \/ n - N \in 1..Len(u)
    BY <1>1, <1>2, Joined, ZenonT(60)
  <2> HIDE DEF v, N, L
  <2> QED
    BY <1>2, <2>1
<1> HIDE DEF v, N, L
<1>4. v[N + L + 1] = LF
  BY <1>2, <1>3
<1>5. \A n \in 1..L : v[N + n] = l[n] /\ v[N + n] # LF
  BY <1>2, <1>3, SMTT(40)
<1>6. ASSUME NEW j, NEW i, LineAt(v, j, i)
      PROVE  \E m \in Noise : Reads(v, j, i, m)
  <2>1. /\ j \in 0..Len(v) /\ i \in 1..Len(v) /\ j < i
        /\ j = 0 \/ v[j] = LF
        /\ v[i] = LF /\ \A m \in (j + 1)..(i - 1) : v[m] # LF
    BY <1>6 DEF LineAt
  <2>2. CASE i <= N
    <3>1. j \in 0..N /\ i \in 1..N /\ \A m \in (j + 1)..(i - 1) : m \in 1..N
      BY <1>3, <2>1, <2>2
    <3>2. LineAt(t, j, i)
      BY <1>3, <2>1, <3>1 DEF LineAt, N
    <3>3. PICK m \in Noise : Reads(t, j, i, m)
      BY <3>2 DEF Noisy
    <3>4. \A n \in 1..Len(m) : j + n \in 1..N
      BY <2>1, <2>2, <3>1, <3>3 DEF Reads
    <3>5. Reads(v, j, i, m)
      BY <1>3, <3>3, <3>4 DEF Reads
    <3> QED
      BY <3>5
  <2>3. CASE i > N
    <3>1. i = N + L + 1
      <4>1. i - N \in 1..(L + 1) /\ i - N \notin 1..L
        <5>1. i - N \in 1..(L + 1)
          BY <1>3, <2>1, <2>3
        <5>2. ASSUME i - N \in 1..L PROVE FALSE
          <6> DEFINE n == i - N
          <6>1. n \in 1..L /\ N + n = i
            BY <1>3, <2>1, <5>2
          <6> HIDE DEF n
          <6> QED
            BY <1>5, <2>1, <6>1
        <5> QED
          BY <5>1, <5>2
      <4> QED
        BY <1>2, <1>3, <2>1, <4>1
    <3>2. j = N
      <4>1. CASE j > N
        <5> DEFINE n == j - N
        <5>1. n \in 1..L /\ N + n = j /\ j # 0
          BY <1>2, <1>3, <2>1, <3>1, <4>1
        <5> HIDE DEF n
        <5> QED
          BY <1>5, <2>1, <5>1
      <4>2. CASE j < N
        <5>1. t # <<>> /\ N \in 1..N
          BY <1>3, <2>1, <4>2 DEF N
        <5>2. v[N] = LF
          BY <1>3, <5>1 DEF Noisy, N
        <5>3. N \in (j + 1)..(i - 1)
          BY <1>2, <1>3, <2>1, <3>1, <4>2
        <5> QED
          BY <2>1, <5>2, <5>3
      <4> QED
        BY <1>3, <2>1, <4>1, <4>2
    <3>3. Reads(v, j, i, l)
      <4>1. L = i - j - 1
        BY <1>2, <1>3, <3>1, <3>2
      <4>2. \A m \in 1..L : v[j + m] = l[m]
        BY <1>5, <3>2
      <4> QED
        BY <4>1, <4>2 DEF Reads, L
    <3> QED
      BY <3>3
  <2> QED
    BY <1>3, <2>1, <2>2, <2>3
<1>7. Noisy(v)
  BY <1>3, <1>4, <1>6 DEF Noisy
<1>8. t \o l \o <<LF>> = v
  BY <1>1 DEF u, v
<1> QED
  BY <1>7, <1>8

\* The first line of a noisy text is the launcher's, and the rest is noisy.
LEMMA NoisyShrinks ==
  ASSUME NEW t, Noisy(t), NEW k, FirstAt(t, LF, k)
  PROVE  /\ \E l \in Noise : SubSeq(t, 1, k) = l \o <<LF>>
         /\ Noisy(SubSeq(t, k + 1, Len(t)))
<1> DEFINE s == SubSeq(t, 1, k)
           r == SubSeq(t, k + 1, Len(t))
<1>1. /\ t \in Seq(Piece) /\ Len(t) \in Nat /\ k \in 1..Len(t) /\ k \in 0..Len(t)
      /\ k \in Nat /\ t[k] = LF /\ \A m \in 1..(k - 1) : t[m] # LF
  BY DEF Noisy, FirstAt
<1>2. s \in Seq(Piece) /\ Len(s) = k /\ \A n \in 1..k : s[n] = t[n]
  BY <1>1, Beginning
<1>3. /\ r \in Seq(Piece) /\ Len(r) = Len(t) - k
      /\ \A n \in 1..Len(r) : r[n] = t[k + n]
  BY <1>1, Remainder
<1> HIDE DEF s, r
<1>4. \E l \in Noise : s = l \o <<LF>>
  <2>1. LineAt(t, 0, k)
    BY <1>1 DEF LineAt
  <2>2. PICK l \in Noise : Reads(t, 0, k, l)
    BY <2>1 DEF Noisy
  <2> DEFINE u == l \o <<LF>>
             L == Len(l)
  <2>3. L = k - 1 /\ \A m \in 1..L : t[m] = l[m]
    <3>1. L = k - 0 - 1 /\ \A m \in 1..L : t[0 + m] = l[m]
      BY <2>2 DEF Reads
    <3>2. L \in Nat /\ \A m \in 1..L : 0 + m = m
      BY NoiseFact
    <3> HIDE DEF L
    <3> QED
      BY <1>1, <3>1, <3>2
  <2>4. /\ u \in Seq(Piece) /\ Len(u) = L + Len(<<LF>>)
        /\ \A n \in 1..L : u[n] = l[n]
        /\ \A n \in 1..Len(<<LF>>) : u[L + n] = <<LF>>[n]
    BY NoiseFact, Joined
  <2>5. Len(<<LF>>) = 1 /\ <<LF>>[1] = LF
    OBVIOUS
  <2> HIDE DEF u, L
  <2>6. Len(u) = k /\ u[k] = LF /\ \A n \in 1..(k - 1) : u[n] = t[n]
    BY <1>1, <2>3, <2>4, <2>5
  <2>7. \A n \in 1..Len(s) : s[n] = u[n]
    BY <1>1, <1>2, <2>6
  <2>8. s = u
    BY <1>2, <2>4, <2>6, <2>7, SeqEqual
  <2> QED
    BY <2>8 DEF u
<1>5. r # <<>> => r[Len(r)] = LF
  <2> SUFFICES ASSUME r # <<>> PROVE r[Len(r)] = LF
    OBVIOUS
  <2>1. Len(r) \in 1..Len(r) /\ t # <<>>
    BY <1>1, <1>3
  <2>2. r[Len(r)] = t[k + Len(r)] /\ k + Len(r) = Len(t)
    BY <1>1, <1>3, <2>1
  <2> QED
    BY <2>1, <2>2 DEF Noisy
<1>6. ASSUME NEW j, NEW i, LineAt(r, j, i)
      PROVE  \E l \in Noise : Reads(r, j, i, l)
  <2> DEFINE a == k + j
             b == k + i
  <2>1. /\ j \in 0..Len(r) /\ i \in 1..Len(r) /\ j < i
        /\ j = 0 \/ r[j] = LF
        /\ r[i] = LF /\ \A m \in (j + 1)..(i - 1) : r[m] # LF
    BY <1>6 DEF LineAt
  <2>2. a \in 0..Len(t) /\ b \in 1..Len(t) /\ a < b
    BY <1>1, <1>3, <2>1
  <2>3. t[b] = LF
    BY <1>3, <2>1
  <2>4. t[a] = LF
    <3>1. CASE j = 0
      BY <1>1, <3>1
    <3>2. CASE j # 0
      <4>1. j \in 1..Len(r) /\ r[j] = LF
        BY <2>1, <3>2
      <4> QED
        BY <1>3, <4>1
    <3> QED
      BY <3>1, <3>2
  <2>5. ASSUME NEW m \in (a + 1)..(b - 1) PROVE t[m] # LF
    <3> DEFINE n == m - k
    <3>1. n \in (j + 1)..(i - 1) /\ n \in 1..Len(r) /\ k + n = m
      BY <1>1, <1>3, <2>1
    <3> HIDE DEF n
    <3> QED
      BY <1>3, <2>1, <3>1
  <2> HIDE DEF a, b
  <2>6. LineAt(t, a, b)
    BY <2>2, <2>3, <2>4, <2>5 DEF LineAt
  <2>7. PICK l \in Noise : Reads(t, a, b, l)
    BY <2>6 DEF Noisy
  <2>8. Len(l) = i - j - 1 /\ Len(l) \in Nat
    <3>1. Len(l) = b - a - 1
      BY <2>7 DEF Reads
    <3>2. Len(l) \in Nat
      BY NoiseFact
    <3> QED
      BY <1>1, <2>1, <3>1, <3>2 DEF a, b
  <2>9. ASSUME NEW m \in 1..Len(l) PROVE r[j + m] = l[m]
    <3>1. t[a + m] = l[m]
      BY <2>7 DEF Reads
    <3>2. j + m \in 1..Len(r) /\ k + (j + m) = a + m
      BY <1>1, <1>3, <2>1, <2>8 DEF a
    <3>3. r[j + m] = t[k + (j + m)]
      BY <1>3, <3>2
    <3> QED
      BY <3>1, <3>2, <3>3
  <2> QED
    BY <2>8, <2>9 DEF Reads
<1> QED
  BY <1>3, <1>4, <1>5, <1>6 DEF Noisy, s, r

\* Four pieces before a text.
LEMMA FourBefore ==
  ASSUME NEW a \in Piece, NEW b \in Piece, NEW c \in Piece, NEW d \in Piece,
         NEW s \in Seq(Piece)
  PROVE  LET t == <<a, b, c, d>> \o s IN
         /\ t \in Seq(Piece) /\ Len(t) = 4 + Len(s)
         /\ t[1] = a /\ t[2] = b /\ t[3] = c /\ t[4] = d
         /\ \A n \in 1..Len(s) : t[4 + n] = s[n]
         /\ \A n \in 1..Len(t) : n \in 1..4 \/ n - 4 \in 1..Len(s)
<1> DEFINE h == <<a, b, c, d>>
           t == h \o s
<1>1. /\ h \in Seq(Piece) /\ Len(h) = 4 /\ 1 \in 1..4 /\ 2 \in 1..4 /\ 3 \in 1..4
      /\ 4 \in 1..4 /\ h[1] = a /\ h[2] = b /\ h[3] = c /\ h[4] = d
  OBVIOUS
<1> HIDE DEF h
<1>2. /\ t \in Seq(Piece) /\ Len(s) \in Nat /\ Len(t) = Len(h) + Len(s)
      /\ \A n \in 1..Len(h) : t[n] = h[n]
      /\ \A n \in 1..Len(s) : t[Len(h) + n] = s[n]
      /\ \A n \in 1..Len(t) : n <= Len(h) \/ n - Len(h) \in 1..Len(s)
  BY <1>1, Joined
<1> HIDE DEF t
<1>3. \A n \in 1..Len(t) : n \in 1..4 \/ n - 4 \in 1..Len(s)
  BY <1>1, <1>2
<1>4. t[1] = a /\ t[2] = b /\ t[3] = c /\ t[4] = d
  BY <1>1, <1>2
<1>5. Len(t) = 4 + Len(s) /\ \A n \in 1..Len(s) : t[4 + n] = s[n]
  BY <1>1, <1>2
<1> QED
  BY <1>2, <1>3, <1>4, <1>5 DEF t, h

\* The line a child announces its socket with is read as its address.
LEMMA LineIsRead ==
  ASSUME NEW p \in Path, Decodes(p), ~Contains(p, LF), Last(p) # CR
  PROVE  LET h == HandshakeLine(<<Unix>> \o p) IN
         /\ h \in Seq(Piece) /\ FirstAt(h, LF, Len(h)) /\ h # <<>>
         /\ Parse(h) = At("connected", <<Unix>> \o p)
<1> DEFINE N == Len(p)
           addr == <<Unix>> \o p
           b == <<Prefix, SP, ProtocolVersion, SP>> \o addr
           h == HandshakeLine(addr)
<1>0. /\ Prefix # LF /\ SP # LF /\ ProtocolVersion # LF /\ Unix # LF
      /\ Prefix # SP /\ ProtocolVersion # SP /\ Prefix # Bad /\ SP # Bad
      /\ ProtocolVersion # Bad /\ Unix # Bad /\ LF # CR
  BY DEF Prefix, SP, ProtocolVersion, Unix, LF, Bad, CR
<1>1. /\ p \in Seq(Piece) /\ p # <<>> /\ p[1] = "/" /\ N \in Nat /\ N >= 1
      /\ \A n \in 1..N : p[n] # LF /\ p[n] # Bad
      /\ p[N] # CR
  BY PathAssumption DEF Decodes, Contains, Last
<1>2. /\ addr \in Seq(Piece) /\ Len(addr) = N + 1
      /\ addr[1] = Unix /\ addr[2] = "/" /\ addr[N + 1] # CR
      /\ \A n \in 1..(N + 1) : addr[n] # LF /\ addr[n] # Bad
  <2> DEFINE u == <<Unix>>
  <2>1. u \in Seq(Piece) /\ Len(u) = 1 /\ u[1] = Unix /\ 1 \in 1..1
    BY PieceAssumption
  <2> HIDE DEF u
  <2> DEFINE a == u \o p
  <2>2. /\ a \in Seq(Piece) /\ Len(a) = 1 + N
        /\ \A n \in 1..1 : a[n] = u[n]
        /\ \A n \in 1..N : a[1 + n] = p[n]
        /\ \A n \in 1..Len(a) : n <= 1 \/ n - 1 \in 1..N
    <3>1. /\ a \in Seq(Piece) /\ Len(a) = Len(u) + N
          /\ \A n \in 1..Len(u) : a[n] = u[n]
          /\ \A n \in 1..N : a[Len(u) + n] = p[n]
          /\ \A n \in 1..Len(a) : n <= Len(u) \/ n - Len(u) \in 1..N
      BY <1>1, <2>1, Joined
    <3> HIDE DEF a, N
    <3> QED
      BY <2>1, <3>1
  <2> HIDE DEF a, N
  <2>3. a[1] = Unix /\ a[2] = "/" /\ a[N + 1] # CR
    <3>1. 1 \in 1..N /\ N \in 1..N /\ 1 + 1 = 2 /\ 1 + N = N + 1
      BY <1>1
    <3>2. a[1 + 1] = p[1] /\ a[1 + N] = p[N]
      BY <2>2, <3>1
    <3> QED
      BY <1>1, <2>1, <2>2, <3>1, <3>2 DEF N
  <2>4. ASSUME NEW n \in 1..(N + 1) PROVE a[n] # LF /\ a[n] # Bad
    <3>1. CASE n = 1
      BY <1>0, <2>3, <3>1
    <3>2. CASE n # 1
      <4> DEFINE m == n - 1
      <4>1. m \in 1..N /\ 1 + m = n
        BY <1>1, <3>2
      <4>2. a[1 + m] = p[m]
        BY <2>2, <4>1
      <4> HIDE DEF m
      <4> QED
        BY <1>1, <4>1, <4>2 DEF N
    <3> QED
      BY <3>1, <3>2
  <2>5. Len(a) = N + 1
    BY <1>1, <2>2
  <2> QED
    BY <2>2, <2>3, <2>4, <2>5 DEF a, u
<1> HIDE DEF addr, N
<1>3. /\ b \in Seq(Piece) /\ Len(b) = N + 5
      /\ b[1] = Prefix /\ b[2] = SP /\ b[3] = ProtocolVersion /\ b[4] = SP
      /\ \A n \in 1..(N + 1) : b[4 + n] = addr[n]
      /\ \A n \in 1..Len(b) : n \in 1..4 \/ n - 4 \in 1..(N + 1)
  <2>1. /\ Prefix \in Piece /\ SP \in Piece /\ ProtocolVersion \in Piece
    BY PieceAssumption
  <2>2. /\ b \in Seq(Piece) /\ Len(b) = 4 + Len(addr)
        /\ b[1] = Prefix /\ b[2] = SP /\ b[3] = ProtocolVersion /\ b[4] = SP
        /\ \A n \in 1..Len(addr) : b[4 + n] = addr[n]
        /\ \A n \in 1..Len(b) : n \in 1..4 \/ n - 4 \in 1..Len(addr)
    BY <1>2, <2>1, FourBefore
  <2> HIDE DEF b
  <2> QED
    BY <1>1, <1>2, <2>2
<1> HIDE DEF b
<1>4. \A n \in 1..Len(b) : b[n] # LF /\ b[n] # Bad
  <2> SUFFICES ASSUME NEW n \in 1..Len(b) PROVE b[n] # LF /\ b[n] # Bad
    OBVIOUS
  <2>1. CASE n \in 1..4
    <3>1. n = 1 \/ n = 2 \/ n = 3 \/ n = 4
      BY <2>1
    <3> QED
      BY <1>0, <1>3, <3>1
  <2>2. CASE n - 4 \in 1..(N + 1)
    <3> DEFINE m == n - 4
    <3>1. m \in 1..(N + 1) /\ 4 + m = n
      BY <1>1, <1>3, <2>2
    <3> HIDE DEF m
    <3> QED
      BY <1>2, <1>3, <3>1
  <2> QED
    BY <1>3, <2>1, <2>2
<1>5. b[Len(b)] # CR
  <2>1. 4 + (N + 1) = Len(b) /\ N + 1 \in 1..(N + 1)
    BY <1>1, <1>3
  <2>2. b[4 + (N + 1)] = addr[N + 1]
    BY <1>3, <2>1
  <2> QED
    BY <1>2, <2>1, <2>2
<1>6. /\ h = b \o <<LF>> /\ h \in Seq(Piece) /\ Len(h) = N + 6 /\ h[N + 6] = LF
      /\ \A n \in 1..(N + 5) : h[n] = b[n]
  <2>1. h = b \o <<LF>>
    BY DEF HandshakeLine, b
  <2>2. <<LF>> \in Seq(Piece) /\ Len(<<LF>>) = 1 /\ <<LF>>[1] = LF
    BY PieceAssumption
  <2> DEFINE z == <<LF>>
             g == b \o z
  <2> HIDE DEF z
  <2>3. z \in Seq(Piece) /\ Len(z) = 1 /\ z[1] = LF
    BY <2>2 DEF z
  <2>4. /\ g \in Seq(Piece) /\ Len(g) = Len(b) + Len(z)
        /\ \A n \in 1..Len(b) : g[n] = b[n]
        /\ \A n \in 1..Len(z) : g[Len(b) + n] = z[n]
    BY <1>3, <2>3, Joined
  <2> HIDE DEF g
  <2>5. Len(g) = N + 6 /\ Len(b) + 1 = N + 6 /\ 1 \in 1..Len(z)
    BY <1>1, <1>3, <2>3, <2>4
  <2>6. g[N + 6] = LF /\ \A n \in 1..(N + 5) : g[n] = b[n]
    BY <1>3, <2>3, <2>4, <2>5
  <2>7. h = g
    BY <2>1 DEF g, z
  <2> HIDE DEF h
  <2> QED
    BY <2>1, <2>4, <2>5, <2>6, <2>7
<1> HIDE DEF h
<1>7. FirstAt(h, LF, Len(h)) /\ h # <<>>
  <2>1. N + 6 \in 1..Len(h) /\ \A m \in 1..((N + 6) - 1) : m \in 1..(N + 5) /\ m \in 1..Len(b)
    BY <1>1, <1>3, <1>6
  <2>2. \A m \in 1..((N + 6) - 1) : h[m] # LF
    BY <1>4, <1>6, <2>1
  <2>3. h # <<>>
    BY <1>1, <1>6
  <2>4. FirstAt(h, LF, N + 6)
    <3> DEFINE k == N + 6
    <3>1. k \in 1..Len(h) /\ h[k] = LF
      BY <1>6, <2>1 DEF k
    <3>2. \A m \in 1..(k - 1) : h[m] # LF
      BY <2>2 DEF k
    <3> HIDE DEF k
    <3>3. FirstAt(h, LF, k)
      BY <3>1, <3>2 DEF FirstAt
    <3> QED
      BY <3>3 DEF k
  <2> QED
    BY <1>6, <2>3, <2>4
<1>8. Body(h) = b
  <2>1. RemoveSuffix(h, LF) = SubSeq(h, 1, (N + 6) - 1)
    <3> DEFINE k == N + 6
    <3>1. Len(h) = k /\ h[k] = LF
      BY <1>6 DEF k
    <3> HIDE DEF k
    <3>3. Last(h) = LF /\ Front(h) = SubSeq(h, 1, k - 1)
      BY <3>1, LastAndFront
    <3>2. Last(h) = LF /\ Front(h) = SubSeq(h, 1, (N + 6) - 1)
      BY <3>3 DEF k
    <3> QED
      BY <1>7, <3>2, Zenon DEF RemoveSuffix
  <2> DEFINE s == SubSeq(h, 1, N + 5)
  <2>2. N + 5 \in 0..Len(h) /\ (N + 6) - 1 = N + 5 /\ N + 5 \in Nat
    BY <1>1, <1>6
  <2>3. s \in Seq(Piece) /\ Len(s) = N + 5 /\ \A n \in 1..(N + 5) : s[n] = h[n]
    BY <1>6, <2>2, Beginning
  <2> HIDE DEF s
  <2>4. s = b
    <3>1. Len(s) = Len(b) /\ \A n \in 1..Len(s) : s[n] = b[n]
      BY <1>3, <1>6, <2>3
    <3> QED
      BY <1>3, <2>3, <3>1, SeqEqual
  <2>5. RemoveSuffix(h, LF) = b
    BY <2>1, <2>2, <2>4 DEF s
  <2>6. RemoveSuffix(b, CR) = b
    BY <1>5 DEF RemoveSuffix, Last
  <2> QED
    BY <2>5, <2>6 DEF Body
<1> DEFINE rest == After(b, SP)
<1>9. /\ Before(b, SP) = <<Prefix>>
      /\ rest \in Seq(Piece) /\ Len(rest) = N + 3
      /\ rest[1] = ProtocolVersion /\ rest[2] = SP
      /\ \A n \in 1..(N + 1) : rest[2 + n] = addr[n]
  <2>1. FirstAt(b, SP, 2)
    <3>1. 2 \in 1..Len(b) /\ \A m \in 1..(2 - 1) : m = 1
      BY <1>1, <1>3
    <3> QED
      BY <1>0, <1>3, <3>1 DEF FirstAt
  <2>2. /\ Before(b, SP) = SubSeq(b, 1, 2 - 1)
        /\ rest = SubSeq(b, 2 + 1, Len(b))
    BY <1>3, <2>1, CutIsFirst
  <2> DEFINE f == SubSeq(b, 1, 1)
  <2>3. 1 \in 0..Len(b) /\ 2 \in 0..Len(b) /\ 2 - 1 = 1
    BY <1>1, <1>3
  <2>4. f \in Seq(Piece) /\ Len(f) = 1 /\ \A n \in 1..1 : f[n] = b[n]
    BY <1>3, <2>3, Beginning
  <2> HIDE DEF f
  <2>5. f = <<Prefix>>
    BY <1>3, <2>4
  <2>6. /\ rest \in Seq(Piece) /\ Len(rest) = Len(b) - 2
        /\ \A n \in 1..Len(rest) : rest[n] = b[2 + n]
    BY <1>3, <2>2, <2>3, Remainder
  <2> HIDE DEF rest
  <2>7. Len(rest) = N + 3 /\ 1 \in 1..Len(rest) /\ 2 \in 1..Len(rest)
    BY <1>1, <1>3, <2>6
  <2>8. rest[1] = b[2 + 1] /\ rest[2] = b[2 + 2] /\ 2 + 1 = 3 /\ 2 + 2 = 4
    BY <2>6, <2>7
  <2>9. ASSUME NEW n \in 1..(N + 1) PROVE rest[2 + n] = addr[n]
    <3>1. 2 + n \in 1..Len(rest) /\ 2 + (2 + n) = 4 + n
      BY <1>1, <2>7
    <3>2. rest[2 + n] = b[2 + (2 + n)]
      BY <2>6, <3>1
    <3> QED
      BY <1>3, <3>1, <3>2
  <2>10. Before(b, SP) = <<Prefix>>
    BY <2>2, <2>3, <2>5 DEF f
  <2> QED
    BY <1>3, <2>6, <2>7, <2>8, <2>9, <2>10
<1> HIDE DEF rest
<1>10. Before(rest, SP) = <<ProtocolVersion>> /\ After(rest, SP) = addr
  <2>1. FirstAt(rest, SP, 2)
    <3>1. 2 \in 1..Len(rest) /\ \A m \in 1..(2 - 1) : m = 1
      BY <1>1, <1>9
    <3> QED
      BY <1>0, <1>9, <3>1 DEF FirstAt
  <2>2. /\ Before(rest, SP) = SubSeq(rest, 1, 2 - 1)
        /\ After(rest, SP) = SubSeq(rest, 2 + 1, Len(rest))
    BY <1>9, <2>1, CutIsFirst
  <2> DEFINE f == SubSeq(rest, 1, 1)
             a == SubSeq(rest, 2 + 1, Len(rest))
  <2>3. 1 \in 0..Len(rest) /\ 2 \in 0..Len(rest) /\ 2 - 1 = 1
    BY <1>1, <1>9
  <2>4. f \in Seq(Piece) /\ Len(f) = 1 /\ \A n \in 1..1 : f[n] = rest[n]
    BY <1>9, <2>3, Beginning
  <2>5. /\ a \in Seq(Piece) /\ Len(a) = Len(rest) - 2
        /\ \A n \in 1..Len(a) : a[n] = rest[2 + n]
    BY <1>9, <2>3, Remainder
  <2> HIDE DEF f, a
  <2>6. f = <<ProtocolVersion>>
    BY <1>9, <2>4
  <2>7. Len(a) = N + 1 /\ \A n \in 1..Len(a) : a[n] = addr[n]
    <3>1. Len(a) = N + 1
      BY <1>1, <1>9, <2>5
    <3>2. \A n \in 1..(N + 1) : a[n] = rest[2 + n]
      BY <2>5, <3>1
    <3> QED
      BY <1>9, <3>1, <3>2
  <2>8. a = addr
    BY <1>2, <2>5, <2>7, SeqEqual
  <2> QED
    BY <2>2, <2>3, <2>6, <2>8 DEF f, a
<1>11. Decodes(b)
  BY <1>4 DEF Decodes, Contains
<1>12. IsAddress(addr)
  <2>1. Len(addr) > 1
    BY <1>1, <1>2
  <2> QED
    BY <1>2, <2>1 DEF IsAddress, Contains
<1>13. Parse(h) = At("connected", addr)
  BY <1>8, <1>9, <1>10, <1>11, <1>12 DEF Parse, rest
<1> QED
  BY <1>6, <1>7, <1>13 DEF h, addr

\* The first line of a text is that of the noise it begins with.
LEMMA FirstOfNoise ==
  ASSUME NEW t, Noisy(t), t # <<>>, NEW h \in Seq(Piece),
         NEW k, FirstAt(t \o h, LF, k)
  PROVE  /\ FirstAt(t, LF, k)
         /\ SubSeq(t \o h, 1, k) = SubSeq(t, 1, k)
         /\ SubSeq(t \o h, k + 1, Len(t \o h)) = SubSeq(t, k + 1, Len(t)) \o h
<1> DEFINE N == Len(t)
           u == t \o h
<1>1. /\ t \in Seq(Piece) /\ N \in Nat /\ N \in 1..N /\ t[N] = LF
  BY DEF Noisy
<1>2. /\ u \in Seq(Piece) /\ Len(u) = N + Len(h) /\ Len(h) \in Nat
      /\ \A n \in 1..N : u[n] = t[n]
      /\ \A n \in 1..Len(h) : u[N + n] = h[n]
      /\ \A n \in 1..Len(u) : n <= N \/ n - N \in 1..Len(h)
  BY <1>1, Joined
<1>3. k \in 1..Len(u) /\ u[k] = LF /\ \A m \in 1..(k - 1) : u[m] # LF
  BY DEF FirstAt
<1> HIDE DEF u
<1>4. k \in 1..N
  <2>1. u[N] = LF
    BY <1>1, <1>2
  <2>2. N \notin 1..(k - 1)
    BY <1>3, <2>1
  <2> HIDE DEF N
  <2> QED
    BY <1>1, <1>2, <1>3, <2>2
<1>5. FirstAt(t, LF, k)
  <2>1. \A m \in 1..(k - 1) : m \in 1..N
    BY <1>1, <1>4
  <2>2. t[k] = LF /\ \A m \in 1..(k - 1) : t[m] # LF
    BY <1>2, <1>3, <1>4, <2>1
  <2> QED
    BY <1>4, <2>2 DEF FirstAt
<1>6. SubSeq(u, 1, k) = SubSeq(t, 1, k)
  <2> DEFINE a == SubSeq(u, 1, k)
             b == SubSeq(t, 1, k)
  <2>1. k \in 0..Len(u) /\ k \in 0..Len(t)
    BY <1>1, <1>2, <1>4
  <2>2. a \in Seq(Piece) /\ Len(a) = k /\ \A n \in 1..k : a[n] = u[n]
    BY <1>2, <2>1, Beginning
  <2>3. b \in Seq(Piece) /\ Len(b) = k /\ \A n \in 1..k : b[n] = t[n]
    BY <1>1, <2>1, Beginning
  <2> HIDE DEF a, b
  <2>4. \A n \in 1..k : n \in 1..N
    BY <1>1, <1>4
  <2>5. \A n \in 1..k : a[n] = b[n]
    BY <1>2, <2>2, <2>3, <2>4
  <2>6. a = b
    BY <2>2, <2>3, <2>5, SeqEqual
  <2> QED
    BY <2>6 DEF a, b
<1>7. SubSeq(u, k + 1, Len(u)) = SubSeq(t, k + 1, N) \o h
  <2> DEFINE a == SubSeq(u, k + 1, Len(u))
             b == SubSeq(t, k + 1, N)
             c == b \o h
  <2>1. k \in 0..Len(u) /\ k \in 0..Len(t) /\ k \in Nat
    BY <1>1, <1>2, <1>4
  <2>2. /\ a \in Seq(Piece) /\ Len(a) = Len(u) - k
        /\ \A n \in 1..Len(a) : a[n] = u[k + n]
    BY <1>2, <2>1, Remainder
  <2>3. /\ b \in Seq(Piece) /\ Len(b) = N - k
        /\ \A n \in 1..Len(b) : b[n] = t[k + n]
    BY <1>1, <2>1, Remainder
  <2> HIDE DEF b
  <2>4. /\ c \in Seq(Piece) /\ Len(c) = Len(b) + Len(h)
        /\ \A n \in 1..Len(b) : c[n] = b[n]
        /\ \A n \in 1..Len(h) : c[Len(b) + n] = h[n]
        /\ \A n \in 1..Len(c) : n <= Len(b) \/ n - Len(b) \in 1..Len(h)
    BY <2>3, Joined
  <2> HIDE DEF a, c, N
  <2>5. Len(a) = Len(c) /\ Len(b) \in Nat /\ Len(a) \in Nat
    BY <1>1, <1>2, <1>4, <2>1, <2>2, <2>3, <2>4
  <2>6. ASSUME NEW n \in 1..Len(a) PROVE a[n] = c[n]
    <3>1. a[n] = u[k + n] /\ k + n \in 1..Len(u)
      BY <1>1, <1>2, <2>1, <2>2
    <3>2. CASE n <= Len(b)
      <4>1. n \in 1..Len(b) /\ k + n \in 1..N
        BY <1>1, <2>1, <2>3, <2>5, <3>2
      <4> QED
        BY <1>2, <2>3, <2>4, <3>1, <4>1
    <3>3. CASE ~(n <= Len(b))
      <4> DEFINE m == n - Len(b)
      <4>1. m \in 1..Len(h) /\ Len(b) + m = n /\ N + m = k + n
        BY <1>1, <1>2, <2>1, <2>2, <2>3, <2>5, <3>3
      <4> HIDE DEF m
      <4>2. c[Len(b) + m] = h[m] /\ u[N + m] = h[m]
        BY <1>2, <2>4, <4>1
      <4> QED
        BY <3>1, <4>1, <4>2
    <3> QED
      BY <3>2, <3>3
  <2>7. a = c
    BY <2>2, <2>4, <2>5, <2>6, SeqEqual
  <2> QED
    BY <2>7 DEF a, b, c
<1> QED
  BY <1>5, <1>6, <1>7 DEF u

\* What the parent has not read yet is noise, and the child's line after it
\* if the child announced and the parent is not there yet.
Announced(p, t) == \E q : Noisy(q) /\ t = q \o HandshakeLine(<<Unix>> \o p)

LineInv ==
  /\ child \in {"new", "bound", "refused", "announced"}
  /\ child = "new" <=> path = <<>>
  /\ child # "new" => path \in Path
  /\ child \in {"bound", "announced"} => Decodes(path)
  /\ Announceable =>
       /\ child # "announced" => parent.state = "reading" /\ Noisy(pipe)
       /\ child = "announced" =>
            \/ parent.state = "reading" /\ Announced(path, pipe)
            \/ parent.state = "connected" /\ parent.text = <<Unix>> \o path

LEMMA LineBegins == LineInit => LineInv
<1> SUFFICES ASSUME LineInit PROVE LineInv
  OBVIOUS
<1>1. Noisy(<<>>)
  BY DEF Noisy, LineAt
<1> QED
  BY <1>1 DEF LineInit, LineInv, At

\* The parent reads one line.
LEMMA ReadingKeepsLine ==
  ASSUME LineInv, ParentReads PROVE LineInv'
<1> SUFFICES ASSUME Announceable PROVE LineInv'
  BY DEF ParentReads, LineInv, Announceable
<1>1. /\ parent.state = "reading" /\ Contains(pipe, LF)
      /\ parent' = Parse(SubSeq(pipe, 1, Cut(pipe, LF)))
      /\ pipe' = After(pipe, LF) /\ UNCHANGED <<child, path>>
  BY DEF ParentReads
<1>2. Announceable'
  BY <1>1 DEF Announceable
<1>3. ASSUME NEW k, pipe \in Seq(Piece), FirstAt(pipe, LF, k)
      PROVE  /\ parent' = Parse(SubSeq(pipe, 1, k))
             /\ pipe' = SubSeq(pipe, k + 1, Len(pipe))
  BY <1>1, <1>3, CutIsFirst
<1>4. CASE child # "announced"
  <2>1. Noisy(pipe) /\ pipe \in Seq(Piece)
    BY <1>4 DEF LineInv, Noisy
  <2>2. PICK k : FirstAt(pipe, LF, k)
    BY <1>1, <2>1, FirstExists
  <2>3. PICK l \in Noise : SubSeq(pipe, 1, k) = l \o <<LF>>
    BY <2>1, <2>2, NoisyShrinks
  <2>4. Noisy(pipe')
    BY <1>3, <2>1, <2>2, NoisyShrinks
  <2>5. parent' = Parse(l \o <<LF>>)
    BY <1>3, <2>1, <2>2, <2>3
  <2>6. parent'.state = "reading"
    BY <2>3, <2>5, NoiseFact DEF At
  <2> QED
    BY <1>1, <1>2, <1>4, <2>4, <2>6 DEF LineInv
<1>5. CASE child = "announced"
  <2> DEFINE h == HandshakeLine(<<Unix>> \o path)
  <2>1. PICK q : Noisy(q) /\ pipe = q \o h
    BY <1>1, <1>5 DEF LineInv, Announced
  <2>2. path \in Path /\ Decodes(path) /\ ~Contains(path, LF) /\ Last(path) # CR
    BY <1>5, PathAssumption DEF LineInv, Announceable
  <2>3. /\ h \in Seq(Piece) /\ FirstAt(h, LF, Len(h)) /\ h # <<>>
        /\ Parse(h) = At("connected", <<Unix>> \o path)
    BY <2>2, LineIsRead
  <2> HIDE DEF h
  <2>4. pipe \in Seq(Piece) /\ q \in Seq(Piece)
    BY <2>1, <2>3 DEF Noisy
  <2>5. PICK k : FirstAt(pipe, LF, k)
    BY <1>1, <2>4, FirstExists
  <2>6. CASE q = <<>>
    <3>1. pipe = h
      BY <2>1, <2>3, <2>6
    <3>2. parent' = Parse(SubSeq(pipe, 1, Len(h)))
      BY <1>3, <2>3, <2>4, <3>1
    <3>3. SubSeq(h, 1, Len(h)) = h
      BY <2>3
    <3>4. parent' = At("connected", <<Unix>> \o path)
      BY <2>3, <3>1, <3>2, <3>3
    <3>5. parent'.state = "connected" /\ parent'.text = <<Unix>> \o path'
      BY <1>1, <3>4 DEF At
    <3> QED
      BY <1>1, <1>2, <1>5, <3>5 DEF LineInv
  <2>7. CASE q # <<>>
    <3>1. /\ FirstAt(q, LF, k)
          /\ SubSeq(pipe, 1, k) = SubSeq(q, 1, k)
          /\ SubSeq(pipe, k + 1, Len(pipe)) = SubSeq(q, k + 1, Len(q)) \o h
      BY <2>1, <2>3, <2>5, <2>7, FirstOfNoise
    <3>2. PICK l \in Noise : SubSeq(q, 1, k) = l \o <<LF>>
      BY <2>1, <3>1, NoisyShrinks
    <3>3. Noisy(SubSeq(q, k + 1, Len(q)))
      BY <2>1, <3>1, NoisyShrinks
    <3>4. parent' = Parse(l \o <<LF>>)
      BY <1>3, <2>4, <2>5, <3>1, <3>2
    <3>8. parent'.state = "reading"
      BY <3>2, <3>4, NoiseFact DEF At
    <3>5. pipe' = SubSeq(q, k + 1, Len(q)) \o h
      BY <1>3, <2>4, <2>5, <3>1
    <3>6. Announced(path, pipe')
      BY <3>3, <3>5 DEF Announced, h
    <3>7. Announced(path', pipe')
      BY <1>1, <3>6
    <3> QED
      BY <1>1, <1>2, <1>5, <3>7, <3>8 DEF LineInv
  <2> QED
    BY <2>6, <2>7
<1> QED
  BY <1>4, <1>5

LEMMA LineStep == LineInv /\ [LineNext]_lineVars => LineInv'
<1> SUFFICES ASSUME LineInv, [LineNext]_lineVars PROVE LineInv'
  OBVIOUS
<1>1. CASE LauncherPrints
  <2>1. PICK l \in Noise : pipe' = pipe \o l \o <<LF>>
    BY <1>1 DEF LauncherPrints
  <2>2. child = "new" /\ UNCHANGED <<child, path, parent>>
    BY <1>1 DEF LauncherPrints
  <2>3. Announceable
    BY <2>2 DEF LineInv, Announceable
  <2>4. Noisy(pipe) /\ parent.state = "reading"
    BY <2>2, <2>3 DEF LineInv
  <2>5. Noisy(pipe')
    BY <2>1, <2>4, NoisyGrows
  <2> QED
    BY <2>2, <2>4, <2>5 DEF LineInv
<1>2. CASE ChildBegins
  <2>1. /\ child = "new" /\ path' \in Path /\ UNCHANGED <<pipe, parent>>
        /\ child' = IF Decodes(path') THEN "bound" ELSE "refused"
    BY <1>2 DEF ChildBegins
  <2>2. Announceable
    BY <2>1 DEF LineInv, Announceable
  <2>3. Noisy(pipe) /\ parent.state = "reading" /\ path' # <<>>
    BY <2>1, <2>2, PathAssumption DEF LineInv
  <2> QED
    BY <2>1, <2>3 DEF LineInv
<1>3. CASE ChildAnnounces
  <2>1. /\ child = "bound" /\ child' = "announced" /\ UNCHANGED <<path, parent>>
        /\ pipe' = pipe \o HandshakeLine(<<Unix>> \o path)
    BY <1>3 DEF ChildAnnounces
  <2>2. Announceable' <=> Announceable
    BY <2>1 DEF Announceable
  <2>3. Announceable => Announced(path, pipe')
    BY <2>1 DEF LineInv, Announced
  <2> QED
    BY <2>1, <2>2, <2>3 DEF LineInv, Announced
<1>4. CASE ParentReads
  BY <1>4, ReadingKeepsLine
<1>5. CASE LineDone
  BY <1>5 DEF LineDone, lineVars, LineInv, Announceable
<1>6. CASE UNCHANGED lineVars
  BY <1>6 DEF lineVars, LineInv, Announceable
<1> QED
  BY <1>1, <1>2, <1>3, <1>4, <1>5, <1>6 DEF LineNext

THEOREM LineInvariant == LineSpec => []LineInv
<1> QED
  BY LineBegins, LineStep, PTL DEF LineSpec

\* The parent ends up at the socket the child bound, through whatever lines
\* the launcher printed before (parse_handshake, resolve_socket_path): for
\* every path a line can carry, and any number of lines.
THEOREM AnnouncedIsRead == LineSpec => []AnnouncedSocketIsRead
<1>1. LineInv => AnnouncedSocketIsRead
  <2> SUFFICES ASSUME LineInv, Announceable
               PROVE  /\ parent.state # "malformed"
                      /\ parent.state = "connected" =>
                           child = "announced" /\ parent.text = <<Unix>> \o path
                      /\ (child = "announced" /\ pipe = <<>>) =>
                           parent.state = "connected"
    BY DEF AnnouncedSocketIsRead
  <2>1. ASSUME child = "announced", pipe = <<>>, Announced(path, pipe) PROVE FALSE
    <3> DEFINE h == HandshakeLine(<<Unix>> \o path)
    <3>1. PICK q : Noisy(q) /\ pipe = q \o h
      BY <2>1 DEF Announced
    <3>2. path \in Path /\ Decodes(path) /\ ~Contains(path, LF) /\ Last(path) # CR
      BY <2>1, PathAssumption DEF LineInv, Announceable
    <3>3. h \in Seq(Piece) /\ h # <<>>
      BY <3>2, LineIsRead
    <3> HIDE DEF h
    <3>4. q \in Seq(Piece)
      BY <3>1 DEF Noisy
    <3>5. Len(q \o h) = Len(q) + Len(h) /\ Len(q) \in Nat /\ Len(h) \in Nat \ {0}
      BY <3>3, <3>4
    <3>6. Len(pipe) = 0
      BY <2>1
    <3> QED
      BY <3>1, <3>5, <3>6
  <2> QED
    BY <2>1 DEF LineInv
<1> QED
  BY <1>1, LineInvariant, PTL
=============================================================================
