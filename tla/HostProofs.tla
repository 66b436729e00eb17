----------------------------- MODULE HostProofs -----------------------------
(***************************************************************************)
(* Proofs about the host's lifecycle and the child process that runs one,  *)
(* for every number of calls, workers and health names.                    *)
(*                                                                         *)
(* ComponentHost: HostInv is the inductive invariant.  It says, for each   *)
(* place the application's thread and the coroutines _start and _stop can  *)
(* be in, what is still alive of the server, the supervisor, the pool and  *)
(* the published statuses.  With it every step of a host is a step of      *)
(* ComponentService, or leaves the service alone.                          *)
(*                                                                         *)
(* ChildLaunch: LaunchInv adds to HostInv where the child's main thread    *)
(* is, and that the handshake line is true while the child serves.         *)
(***************************************************************************)
EXTENDS ChildLaunch, TLAPS

NoServing == \A n \in Names : health[n] # "SERVING"

\* Nothing of the host is at work.
Resting ==
  /\ server \notin {"listening", "draining"}
  /\ sup \notin {"probe", "probed", "publish", "sleep"}
  /\ \A c \in Call : call[c] \notin {"queued", "running", "orphan"}
  /\ NoServing

\* The application's thread waits in start() or stop() exactly while _start
\* or _stop has something left to do, and the loop exists meanwhile.
PhaseInv ==
  /\ ctl = "start" <=> startPc # "idle"
  /\ ctl = "stop" <=> stopPc # "idle"
  /\ startPc # "idle" => loop
  /\ stopPc # "idle" => loop

StartInv ==
  /\ (~loop \/ startPc \in {"init", "bind", "failed"}) => Resting /\ ~socket
  /\ startPc = "listen" => Resting
  /\ startPc = "launch" =>
       /\ server = "listening" /\ NoServing
       /\ sup \notin {"probe", "probed", "publish", "sleep"}
  /\ (/\ loop /\ startPc \in {"idle", "done"}
      /\ stopPc \in {"idle", "cancel", "await", "publish", "server"})
         => server = "listening"

StopInv ==
  /\ stopPc \notin {"idle", "cancel", "await"} =>
       sup \notin {"probe", "probed", "publish", "sleep"}
  /\ stopPc = "publish" =>
       \A n \in Names : n < stopName => health[n] # "SERVING"
  /\ stopPc \in {"server", "drain", "workers", "unlink", "finish"} => NoServing
  /\ stopPc = "drain" => server = "draining"
  /\ stopPc \in {"workers", "unlink", "finish"} =>
       /\ server = "down"
       /\ \A c \in Call : call[c] \notin {"queued", "running"}
  /\ stopPc \in {"unlink", "finish"} => \A c \in Call : call[c] # "orphan"
  /\ stopPc = "finish" => ~socket

\* The router is closed only by a stop(), and a host that was stopped runs
\* again only if the application restarts it.
CloseInv ==
  /\ ~stopped => router = "hosting"
  /\ stopPc # "idle" => ~stopped
  /\ (stopped /\ ~RestartsAfterStop) => ~loop
  /\ outcome = "stopped" => stopped

HostInv == TypeOK /\ PhaseInv /\ StartInv /\ StopInv /\ CloseInv

----------------------------------------------------------------------------
(* TypeOK *)

\* The names are numbered from 1 without a gap.
LEMMA NamesFact ==
  /\ NumNames \in Nat /\ 1 \in Names /\ NumNames \in Names
  /\ \A n \in Names : n \in Nat /\ n >= 1 /\ n <= NumNames
  /\ \A n \in Names : n < NumNames => n + 1 \in Names
BY SizeAssumption DEF Names

LEMMA OneIsName == 1 \in Names
BY NamesFact

LEMMA InitType == Init => TypeOK
<1> SUFFICES ASSUME Init PROVE TypeOK
  OBVIOUS
<1>1. health \in [Names -> Statuses]
  BY DEF Init, Statuses
<1>2. call \in [Call -> CallStates] /\ queue \in Seq(Call)
  BY DEF Init, CallStates
<1>3. QED
  BY <1>1, <1>2, OneIsName DEF Init, TypeOK

LEMMA AppType == TypeOK /\ AppNext => TypeOK'
BY DEF TypeOK, AppNext, RunBegin, Signal, StartBegin, StartAgain, StartReturns,
       StartRaises, RunWakes, StopAgain, StopUnstarted, StopBegin, StopReturns,
       AfterRaise, CloseRouter, appVars, hostVars, supVars, srvVars, callVars

LEMMA StartType == TypeOK /\ StartNext => TypeOK'
BY DEF TypeOK, StartNext, StartServices, StartBind, StartListen, StartLaunch,
       Statuses, appVars, hostVars, supVars, srvVars, callVars

LEMMA SupType == TypeOK /\ SupNext => TypeOK'
<1> SUFFICES ASSUME TypeOK, SupNext PROVE TypeOK'
  OBVIOUS
<1> USE DEF TypeOK, supFrame, appVars, hostVars, srvVars, callVars
<1>1. CASE SupPublishes
  BY <1>1, NamesFact DEF SupPublishes, Statuses
<1>2. CASE SupCancelled
  <2>1. supName' \in Names /\ supCancel' \in BOOLEAN
    BY <1>2, OneIsName DEF SupCancelled
  <2>2. QED
    BY <1>2, <2>1 DEF SupCancelled
<1>3. CASE ProbeAnswers \/ ProbeTimesOut \/ SupResumes \/ SupTicks
  BY <1>3, OneIsName DEF ProbeAnswers, ProbeTimesOut, SupResumes, SupTicks
<1>4. QED
  BY <1>1, <1>2, <1>3 DEF SupNext

LEMMA StopType == TypeOK /\ StopNext => TypeOK'
<1> SUFFICES ASSUME TypeOK, StopNext PROVE TypeOK'
  OBVIOUS
<1> USE DEF TypeOK, stopFrame, appVars, hostVars, supVars, srvVars, callVars
<1>1. CASE GraceExpires
  BY <1>1 DEF GraceExpires, CallStates, Replies
<1>2. CASE StopPublish
  BY <1>2, NamesFact DEF StopPublish, Statuses
<1>3. CASE StopCancel
  <2>1. supCancel' \in BOOLEAN
    BY <1>3 DEF StopCancel, SupAlive
  <2>2. QED
    BY <1>3, <2>1 DEF StopCancel
<1>4. CASE StopAwaited \/ StopServer \/ StopDrained \/ StopWorkers \/ StopUnlink
  BY <1>4, OneIsName
     DEF StopAwaited, StopServer, StopDrained, StopWorkers, StopUnlink
<1>5. QED
  BY <1>1, <1>2, <1>3, <1>4 DEF StopNext

LEMMA CallType == TypeOK /\ CallNext => TypeOK'
<1> SUFFICES ASSUME TypeOK, CallNext PROVE TypeOK'
  OBVIOUS
<1> USE DEF TypeOK, CallStates, Replies, callFrame, appVars, hostVars, supVars,
            srvVars
<1>1. CASE Dispatch
  BY <1>1 DEF Dispatch
<1>2. ASSUME NEW c \in Call, Arrive(c) PROVE TypeOK'
  BY <1>2 DEF Arrive
<1>3. ASSUME NEW c \in Call, Finish(c) PROVE TypeOK'
  BY <1>3 DEF Finish, Wire, Returned
<1>4. ASSUME NEW c \in Call, GiveUp(c) PROVE TypeOK'
  BY <1>4 DEF GiveUp, InFlight
<1>5. QED
  BY <1>1, <1>2, <1>3, <1>4 DEF CallNext

LEMMA NextType == TypeOK /\ [Next]_vars => TypeOK'
<1>1. TypeOK /\ UNCHANGED vars => TypeOK'
  BY DEF TypeOK, vars, appVars, hostVars, supVars, srvVars, callVars
<1>2. QED
  BY <1>1, AppType, StartType, SupType, StopType, CallType DEF Next

\* Every reachable state is well typed, for every value of the constants.
THEOREM TypeCorrect == Spec => []TypeOK
BY InitType, NextType, PTL DEF Spec

----------------------------------------------------------------------------
(* HostInv *)

LEMMA InitInv == Init => HostInv
<1> SUFFICES ASSUME Init PROVE HostInv
  OBVIOUS
<1>1. PhaseInv /\ StopInv /\ CloseInv
  BY DEF Init, PhaseInv, StopInv, CloseInv
<1>2. StartInv
  BY DEF Init, StartInv, Resting, NoServing
<1>3. QED
  BY <1>1, <1>2, InitType DEF HostInv

LEMMA AppInv == HostInv /\ AppNext => HostInv'
<1> SUFFICES ASSUME HostInv, AppNext PROVE HostInv'
  OBVIOUS
<1> USE DEF AppNext, RunBegin, Signal, StartBegin, StartAgain, StartReturns,
            StartRaises, RunWakes, StopAgain, StopUnstarted, StopBegin,
            StopReturns, AfterRaise, CloseRouter, appVars, hostVars, supVars,
            srvVars, callVars
<1>1. TypeOK'
  BY AppType DEF HostInv
<1>2. PhaseInv'
  BY DEF HostInv, PhaseInv, TypeOK
<1>3. StartInv'
  BY DEF HostInv, StartInv, StopInv, PhaseInv, Resting, NoServing, TypeOK
<1>4. StopInv'
  BY DEF HostInv, StopInv, PhaseInv, NoServing, TypeOK
<1>5. CloseInv'
  BY DEF HostInv, CloseInv, PhaseInv, TypeOK
<1>6. QED
  BY <1>1, <1>2, <1>3, <1>4, <1>5 DEF HostInv

LEMMA StartInvariant == HostInv /\ StartNext => HostInv'
<1> SUFFICES ASSUME HostInv, StartNext PROVE HostInv'
  OBVIOUS
<1> USE DEF StartNext, StartServices, StartBind, StartListen, StartLaunch,
            appVars, hostVars, supVars, srvVars, callVars
<1>1. TypeOK'
  BY StartType DEF HostInv
<1>2. PhaseInv'
  BY DEF HostInv, PhaseInv, TypeOK
<1>3. StartInv'
  BY DEF HostInv, StartInv, StopInv, PhaseInv, Resting, NoServing, TypeOK
<1>4. StopInv'
  BY DEF HostInv, StopInv, PhaseInv, NoServing, TypeOK
<1>5. CloseInv'
  BY DEF HostInv, CloseInv
<1>6. QED
  BY <1>1, <1>2, <1>3, <1>4, <1>5 DEF HostInv

LEMMA SupInv == HostInv /\ SupNext => HostInv'
<1> SUFFICES ASSUME HostInv, SupNext PROVE HostInv'
  OBVIOUS
<1> USE DEF SupNext, ProbeAnswers, ProbeTimesOut, SupResumes, SupPublishes,
            SupTicks, SupCancelled, SupAlive, supFrame, appVars, hostVars,
            srvVars, callVars
<1>1. TypeOK'
  BY SupType DEF HostInv
<1>2. PhaseInv' /\ CloseInv'
  BY DEF HostInv, PhaseInv, CloseInv
<1>3. StartInv'
  BY DEF HostInv, StartInv, Resting, NoServing
<1>4. StopInv'
  BY DEF HostInv, StopInv, NoServing
<1>5. QED
  BY <1>1, <1>2, <1>3, <1>4 DEF HostInv

LEMMA StopInvariant == HostInv /\ StopNext => HostInv'
<1> SUFFICES ASSUME HostInv, StopNext PROVE HostInv'
  OBVIOUS
<1> USE DEF stopFrame, appVars, hostVars, supVars, srvVars, callVars
<1>1. TypeOK'
  BY StopType DEF HostInv
<1>2. PhaseInv' /\ CloseInv'
  BY DEF HostInv, PhaseInv, CloseInv, StopNext, StopCancel, StopAwaited,
         StopPublish, StopServer, GraceExpires, StopDrained, StopWorkers,
         StopUnlink
<1>3. CASE GraceExpires
  <2>1. StartInv'
    BY <1>3 DEF HostInv, StartInv, StopInv, PhaseInv, GraceExpires, Resting,
                NoServing, TypeOK
  <2>2. StopInv'
    BY <1>3 DEF HostInv, StopInv, GraceExpires, NoServing
  <2>3. QED
    BY <1>1, <1>2, <2>1, <2>2 DEF HostInv
<1>4. CASE StopPublish
  <2>1. StartInv'
    BY <1>4 DEF HostInv, StartInv, PhaseInv, StopPublish, Resting, NoServing,
                TypeOK
  <2>2. stopPc' = "publish" =>
          \A n \in Names : n < stopName' => health'[n] # "SERVING"
    BY <1>4, NamesFact DEF HostInv, StopInv, StopPublish, TypeOK
  <2>3. stopPc' = "server" => NoServing'
    BY <1>4, NamesFact DEF HostInv, StopInv, StopPublish, NoServing, TypeOK
  <2>4. stopPc' \in {"publish", "server"}
    BY <1>4 DEF StopPublish
  <2>5. StopInv'
    BY <1>4, <2>2, <2>3, <2>4 DEF HostInv, StopInv, StopPublish
  <2>6. QED
    BY <1>1, <1>2, <2>1, <2>5 DEF HostInv
<1>5. CASE StopCancel \/ StopAwaited \/ StopServer
  <2>1. StartInv'
    BY <1>5 DEF HostInv, StartInv, PhaseInv, StopCancel, StopAwaited,
                StopServer, Resting, NoServing, TypeOK
  <2>2. StopInv'
    BY <1>5, NamesFact
       DEF HostInv, StopInv, StartInv, PhaseInv, StopCancel, StopAwaited,
           StopServer, SupAlive, NoServing, TypeOK
  <2>3. QED
    BY <1>1, <1>2, <2>1, <2>2 DEF HostInv
<1>6. CASE StopDrained \/ StopWorkers \/ StopUnlink
  <2>1. StartInv'
    BY <1>6 DEF HostInv, StartInv, StopInv, PhaseInv, StopDrained, StopWorkers,
                StopUnlink, Resting, NoServing, TypeOK
  <2>2. StopInv'
    BY <1>6 DEF HostInv, StopInv, StopDrained, StopWorkers, StopUnlink,
                InFlight, Busy, NoServing
  <2>3. QED
    BY <1>1, <1>2, <2>1, <2>2 DEF HostInv
<1>7. QED
  BY <1>3, <1>4, <1>5, <1>6 DEF StopNext

LEMMA CallInv == HostInv /\ CallNext => HostInv'
<1> SUFFICES ASSUME HostInv, CallNext PROVE HostInv'
  OBVIOUS
<1> USE DEF callFrame, appVars, hostVars, supVars, srvVars
<1>1. TypeOK'
  BY CallType DEF HostInv
<1>2. UNCHANGED <<appVars, hostVars, startPc, stopPc, stopName, supVars,
                  health, srvVars>>
  BY DEF CallNext, Dispatch, Arrive, Finish, GiveUp
<1>3. PhaseInv' /\ CloseInv'
  BY <1>2 DEF HostInv, PhaseInv, CloseInv
<1>4. \A c \in Call : call[c] \notin {"queued", "running", "orphan"} =>
        \/ call'[c] \notin {"queued", "running", "orphan"}
        \/ server = "listening"
  BY DEF HostInv, TypeOK, CallNext, Dispatch, Arrive, Finish, GiveUp, InFlight
<1>5. \A c \in Call : call[c] \notin {"queued", "running"} =>
        \/ call'[c] \notin {"queued", "running"}
        \/ server = "listening"
  BY DEF HostInv, TypeOK, CallNext, Dispatch, Arrive, Finish, GiveUp, InFlight,
         Wire, Returned
<1>6. \A c \in Call : call[c] \notin {"running", "orphan"} =>
        \/ call'[c] # "orphan"
  BY DEF HostInv, TypeOK, CallNext, Dispatch, Arrive, Finish, GiveUp, InFlight
<1>7. StartInv'
  BY <1>2, <1>4 DEF HostInv, StartInv, Resting, NoServing
<1>8. StopInv'
  BY <1>2, <1>5, <1>6 DEF HostInv, StopInv, NoServing
<1>9. QED
  BY <1>1, <1>3, <1>7, <1>8 DEF HostInv

LEMMA NextInv == HostInv /\ [Next]_vars => HostInv'
<1>1. HostInv /\ UNCHANGED vars => HostInv'
  BY DEF HostInv, TypeOK, PhaseInv, StartInv, StopInv, CloseInv, Resting,
         NoServing, vars, appVars, hostVars, supVars, srvVars, callVars
<1>2. QED
  BY <1>1, AppInv, StartInvariant, SupInv, StopInvariant, CallInv DEF Next

\* The inductive invariant holds for every value of the constants, restarts
\* and lost cancellations included.
THEOREM HostInvariant == Spec => []HostInv
BY InitInv, NextInv, PTL DEF Spec

----------------------------------------------------------------------------
(* What the invariant gives. *)

\* A name reports SERVING only while the server takes calls, whatever the
\* application, the clients and the supervisor do (restarts and lost
\* cancellations included).
THEOREM ServingMeansListening == Spec => []ServingOnlyWhileListening
<1>1. HostInv => ServingOnlyWhileListening
  BY DEF HostInv, TypeOK, PhaseInv, StartInv, StopInv, Resting, NoServing,
         ServingOnlyWhileListening
<1>2. QED
  BY <1>1, HostInvariant, PTL

\* A host that is never restarted is at rest once stop() has returned.
THEOREM StoppedMeansQuiet ==
  ASSUME ~RestartsAfterStop
  PROVE  Spec => []StopLeavesQuiet
<1>1. HostInv => StopLeavesQuiet
  BY DEF HostInv, StartInv, CloseInv, Resting, NoServing, StopLeavesQuiet,
         Quiet, InFlight, Busy, SupAlive
<1>2. QED
  BY <1>1, HostInvariant, PTL

\* In a host that is never restarted every dispatch finds the component: the
\* router is closed only when no dispatch is queued.
ComponentInv == HostInv /\ DispatchFindsComponent

THEOREM ComponentIsFound ==
  ASSUME ~RestartsAfterStop
  PROVE  Spec => []DispatchFindsComponent
<1>1. Init => ComponentInv
  BY InitInv DEF Init, ComponentInv, DispatchFindsComponent
<1>2. ComponentInv /\ [Next]_vars => ComponentInv'
  <2> SUFFICES ASSUME ComponentInv, [Next]_vars PROVE DispatchFindsComponent'
    BY NextInv DEF ComponentInv
  <2> USE DEF ComponentInv, DispatchFindsComponent
  <2>1. CASE Dispatch
    <3>1. Head(queue) \in Call
      BY <2>1 DEF Dispatch, HostInv, TypeOK
    <3>2. call[Head(queue)] = "queued" => router = "hosting"
      BY <3>1 DEF HostInv, StartInv, CloseInv, Resting
    <3>3. QED
      BY <2>1, <3>1, <3>2 DEF Dispatch, HostInv, TypeOK
  <2>2. CASE CallNext /\ ~Dispatch
    BY <2>2 DEF CallNext, Arrive, Finish, GiveUp, Wire, Returned, HostInv,
                TypeOK
  <2>3. CASE StopNext
    BY <2>3 DEF StopNext, StopCancel, StopAwaited, StopPublish, StopServer,
                GraceExpires, StopDrained, StopWorkers, StopUnlink, callVars
  <2>4. CASE AppNext
    BY <2>4 DEF AppNext, RunBegin, Signal, StartBegin, StartAgain,
                StartReturns, StartRaises, RunWakes, StopAgain, StopUnstarted,
                StopBegin, StopReturns, callVars
  <2>5. CASE StartNext \/ SupNext \/ UNCHANGED vars
    BY <2>5 DEF StartNext, StartServices, StartBind, StartListen, StartLaunch,
                SupNext, ProbeAnswers, ProbeTimesOut, SupResumes, SupPublishes,
                SupTicks, SupCancelled, supFrame, vars, callVars
  <2>6. QED
    BY <2>1, <2>2, <2>3, <2>4, <2>5 DEF Next
<1>3. ComponentInv => DispatchFindsComponent
  BY DEF ComponentInv
<1>4. QED
  BY <1>1, <1>2, <1>3, PTL DEF Spec

\* Where wait_for passes every cancellation on, the supervisor is either
\* about to be cancelled or gone while _stop waits for it.
CancelInv ==
  stopPc = "await" =>
    (supCancel \/ sup \notin {"probe", "probed", "publish", "sleep"})

THEOREM NoServingOnceCancelled ==
  ASSUME ~WaitForLosesCancel
  PROVE  Spec => NoServingAfterCancel
<1>1. Init => CancelInv
  BY DEF Init, CancelInv
<1>2. HostInv /\ CancelInv /\ [Next]_vars => CancelInv'
  <2> SUFFICES ASSUME HostInv, CancelInv, [Next]_vars PROVE CancelInv'
    OBVIOUS
  <2> USE DEF CancelInv
  <2>1. CASE AppNext
    BY <2>1 DEF AppNext, RunBegin, Signal, StartBegin, StartAgain,
                StartReturns, StartRaises, RunWakes, StopAgain, StopUnstarted,
                StopBegin, StopReturns, supVars
  <2>2. CASE StartNext
    BY <2>2 DEF StartNext, StartServices, StartBind, StartListen, StartLaunch,
                supVars, HostInv, PhaseInv
  <2>3. CASE SupNext
    BY <2>3 DEF SupNext, ProbeAnswers, ProbeTimesOut, SupResumes, SupPublishes,
                SupTicks, SupCancelled, SupAlive, supFrame
  <2>4. CASE StopNext
    BY <2>4 DEF StopNext, StopCancel, StopAwaited, StopPublish, StopServer,
                GraceExpires, StopDrained, StopWorkers, StopUnlink, SupAlive,
                supVars
  <2>5. CASE CallNext \/ UNCHANGED vars
    BY <2>5 DEF CallNext, Arrive, Dispatch, Finish, GiveUp, callFrame, vars,
                supVars
  <2>6. QED
    BY <2>1, <2>2, <2>3, <2>4, <2>5 DEF Next
<1>3. HostInv /\ CancelInv /\ [Next]_vars =>
        [ stopPc \notin {"idle", "cancel"} =>
            \A n \in Names : health'[n] = "SERVING" => health[n] = "SERVING"
        ]_vars
  <2> SUFFICES ASSUME HostInv, CancelInv, Next,
                      stopPc \notin {"idle", "cancel"},
                      NEW n \in Names, health'[n] = "SERVING"
               PROVE  health[n] = "SERVING"
    OBVIOUS
  <2>1. CASE SupNext
    BY <2>1 DEF SupNext, ProbeAnswers, ProbeTimesOut, SupResumes, SupPublishes,
                SupTicks, SupCancelled, HostInv, StopInv, CancelInv
  <2>2. CASE StopNext
    BY <2>2 DEF StopNext, StopCancel, StopAwaited, StopPublish, StopServer,
                GraceExpires, StopDrained, StopWorkers, StopUnlink, HostInv,
                TypeOK
  <2>3. CASE AppNext \/ StartNext
    BY <2>3 DEF AppNext, RunBegin, Signal, StartBegin, StartAgain,
                StartReturns, StartRaises, RunWakes, StopAgain, StopUnstarted,
                StopBegin, StopReturns, StartNext, StartServices, StartBind,
                StartListen, StartLaunch, HostInv, PhaseInv
  <2>4. CASE CallNext
    BY <2>4 DEF CallNext, Arrive, Dispatch, Finish, GiveUp, callFrame
  <2>5. QED
    BY <2>1, <2>2, <2>3, <2>4 DEF Next
<1>4. QED
  BY <1>1, <1>2, <1>3, HostInvariant, PTL DEF Spec, NoServingAfterCancel
----------------------------------------------------------------------------
(* ComponentHost implements ComponentService. *)

\* A server that refuses calls is _stop's doing.
ServerInv ==
  server \in {"draining", "down"} =>
    \/ stopped
    \/ stopPc \in {"drain", "workers", "unlink", "finish"}

PromiseInv == HostInv /\ DispatchFindsComponent /\ ServerInv

LEMMA ServerStep == HostInv /\ ServerInv /\ [Next]_vars => ServerInv'
<1> SUFFICES ASSUME HostInv, ServerInv, [Next]_vars PROVE ServerInv'
  OBVIOUS
<1> USE DEF ServerInv
<1>1. CASE AppNext
  BY <1>1 DEF AppNext, RunBegin, Signal, StartBegin, StartAgain,
              StartReturns, StartRaises, RunWakes, StopAgain, StopUnstarted,
              StopBegin, StopReturns, srvVars, hostVars, HostInv, PhaseInv
<1>2. CASE StartNext
  BY <1>2 DEF StartNext, StartServices, StartBind, StartListen, StartLaunch,
              srvVars, hostVars
<1>3. CASE StopNext
  BY <1>3 DEF StopNext, StopCancel, StopAwaited, StopPublish, StopServer,
              GraceExpires, StopDrained, StopWorkers, StopUnlink, stopFrame,
              srvVars, hostVars
<1>4. CASE SupNext \/ CallNext \/ UNCHANGED vars
  BY <1>4 DEF SupNext, ProbeAnswers, ProbeTimesOut, SupResumes, SupPublishes,
              SupTicks, SupCancelled, supFrame, CallNext, Arrive, Dispatch,
              Finish, GiveUp, callFrame, vars, srvVars, hostVars
<1>5. QED
  BY <1>1, <1>2, <1>3, <1>4 DEF Next

LEMMA ServiceBegins == Init => Service!Init
<1> SUFFICES ASSUME Init PROVE Service!Init
  OBVIOUS
<1>1. Phase = "off" /\ {n \in Names : health[n] = "SERVING"} = {} /\ Busy = {}
  BY DEF Init, Phase, Busy
<1>2. [c \in Call |-> Seen(call[c])] = [c \in Call |-> "none"]
  BY DEF Init, Seen
<1>3. QED
  BY <1>1, <1>2 DEF Service!Init

\* Steps that leave what the service shows as it was.
LEMMA ServiceStutters ==
  ASSUME UNCHANGED <<stopped, call>>, Phase' = Phase,
         \A n \in Names : health'[n] = "SERVING" <=> health[n] = "SERVING"
  PROVE  UNCHANGED Service!vars
<1>1. {n \in Names : health[n] = "SERVING"}'
        = {n \in Names : health[n] = "SERVING"}
  OBVIOUS
<1>2. Busy' = Busy
  BY DEF Busy
<1>3. [c \in Call |-> Seen(call[c])]' = [c \in Call |-> Seen(call[c])]
  OBVIOUS
<1>4. QED
  BY <1>1, <1>2, <1>3 DEF Service!vars
LEMMA AppKeepsPromise ==
  ASSUME ~RestartsAfterStop, PromiseInv, AppNext
  PROVE  Service!Next \/ UNCHANGED Service!vars
<1> USE DEF PromiseInv, HostInv, hostVars, srvVars, callVars
<1>1. CASE StopUnstarted
  <2>1. Phase \in {"off"} /\ Phase' = "over"
    BY <1>1 DEF StopUnstarted, Phase, StartInv, Resting, ServerInv, PhaseInv,
                TypeOK
  <2>2. Service!OpenCalls = {} /\ Busy = {}
    BY <1>1 DEF StopUnstarted, StartInv, Resting, Service!OpenCalls, Busy, Seen,
                TypeOK, CallStates, Replies
  <2>3. UNCHANGED <<{n \in Names : health[n] = "SERVING"},
                    [c \in Call |-> Seen(call[c])], Busy>>
    BY <1>1 DEF StopUnstarted, Busy
  <2>4. QED
    BY <2>1, <2>2, <2>3 DEF Service!Next, Service!End
<1>2. CASE StopReturns
  <2>1. Phase = "closing" /\ Phase' = "over"
    BY <1>2 DEF StopReturns, Phase, StopInv, CloseInv, TypeOK
  <2>2. Service!OpenCalls = {} /\ Busy = {}
    BY <1>2 DEF StopReturns, StopInv, Service!OpenCalls, Busy, Seen, TypeOK,
                CallStates, Replies
  <2>3. UNCHANGED <<{n \in Names : health[n] = "SERVING"},
                    [c \in Call |-> Seen(call[c])], Busy>>
    BY <1>2 DEF StopReturns, Busy
  <2>4. QED
    BY <2>1, <2>2, <2>3 DEF Service!Next, Service!End
<1>3. CASE UNCHANGED <<stopped, server, call, health>>
  BY <1>3, ServiceStutters DEF Phase
<1>4. QED
  BY <1>1, <1>2, <1>3
     DEF AppNext, RunBegin, Signal, StartBegin, StartAgain, StartReturns,
         StartRaises, RunWakes, StopAgain, StopBegin

LEMMA StartKeepsPromise ==
  ASSUME ~RestartsAfterStop, PromiseInv, StartNext
  PROVE  Service!Next \/ UNCHANGED Service!vars
<1> USE DEF PromiseInv, HostInv, hostVars, srvVars, callVars
<1>1. CASE StartServices
  <2>1. \A n \in Names : health'[n] = "SERVING" <=> health[n] = "SERVING"
    BY <1>1 DEF StartServices, StartInv, Resting, NoServing
  <2>2. QED
    BY <1>1, <2>1, ServiceStutters DEF StartServices, Phase
<1>2. CASE StartListen
  <2>1. ~stopped /\ server = "none"
    BY <1>2 DEF StartListen, StartInv, Resting, ServerInv, PhaseInv, CloseInv,
                TypeOK
  <2>2. Phase = "off" /\ Phase' = "up"
    BY <1>2, <2>1 DEF StartListen, Phase
  <2>3. UNCHANGED <<{n \in Names : health[n] = "SERVING"},
                    [c \in Call |-> Seen(call[c])], Busy>>
    BY <1>2 DEF StartListen, Busy
  <2>4. QED
    BY <2>2, <2>3 DEF Service!Next, Service!Open
<1>3. CASE StartBind \/ StartLaunch
  BY <1>3, ServiceStutters DEF StartBind, StartLaunch, Phase
<1>4. QED
  BY <1>1, <1>2, <1>3 DEF StartNext

\* A status is published by a host that listens.
LEMMA PublishIsReport ==
  ASSUME ~stopped, server = "listening",
         UNCHANGED <<stopped, server, call>>, health' \in [Names -> Statuses]
  PROVE  Service!Next
<1>1. Phase = "up" /\ Phase' = "up"
  BY DEF Phase
<1>2. {n \in Names : health[n] = "SERVING"}' \in SUBSET Names
  OBVIOUS
<1>3. UNCHANGED <<[c \in Call |-> Seen(call[c])], Busy>>
  BY DEF Busy
<1>4. QED
  BY <1>1, <1>2, <1>3 DEF Service!Next, Service!Report

LEMMA SupKeepsPromise ==
  ASSUME ~RestartsAfterStop, PromiseInv, SupNext
  PROVE  Service!Next \/ UNCHANGED Service!vars
<1> USE DEF PromiseInv, HostInv, supFrame, hostVars, srvVars, callVars
<1>1. CASE SupPublishes
  <2>1. ~stopped /\ server = "listening"
    BY <1>1 DEF SupPublishes, StartInv, StopInv, CloseInv, PhaseInv, Resting,
                TypeOK
  <2>2. QED
    BY <1>1, <2>1, SupType, PublishIsReport DEF SupPublishes, TypeOK, SupNext
<1>2. CASE ProbeAnswers \/ ProbeTimesOut \/ SupResumes \/ SupTicks
             \/ SupCancelled
  BY <1>2, ServiceStutters
     DEF ProbeAnswers, ProbeTimesOut, SupResumes, SupTicks, SupCancelled, Phase
<1>3. QED
  BY <1>1, <1>2 DEF SupNext

LEMMA StopKeepsPromise ==
  ASSUME ~RestartsAfterStop, PromiseInv, StopNext
  PROVE  Service!Next \/ UNCHANGED Service!vars
<1> USE DEF PromiseInv, HostInv, stopFrame, hostVars, srvVars, callVars
<1>1. CASE StopPublish
  <2>1. ~stopped /\ server = "listening"
    BY <1>1 DEF StopPublish, StartInv, CloseInv, PhaseInv, TypeOK
  <2>2. QED
    BY <1>1, <2>1, StopType, PublishIsReport DEF StopPublish, TypeOK, StopNext
<1>2. CASE StopServer
  <2>1. ~stopped /\ server = "listening" /\ NoServing
    BY <1>2 DEF StopServer, StartInv, StopInv, CloseInv, PhaseInv, TypeOK
  <2>2. Phase = "up" /\ Phase' = "closing"
    BY <1>2, <2>1 DEF StopServer, Phase
  <2>3. {n \in Names : health[n] = "SERVING"} = {}
    BY <2>1 DEF NoServing
  <2>4. UNCHANGED <<{n \in Names : health[n] = "SERVING"},
                    [c \in Call |-> Seen(call[c])], Busy>>
    BY <1>2 DEF StopServer, Busy
  <2>5. QED
    BY <2>2, <2>3, <2>4 DEF Service!Next, Service!Close
<1>3. CASE GraceExpires
  <2>1. Phase = "closing" /\ Phase' = "closing"
    BY <1>3 DEF GraceExpires, StopInv, CloseInv, PhaseInv, Phase
  <2>2. InFlight \in SUBSET Service!OpenCalls
    BY <1>3 DEF InFlight, Service!OpenCalls, Seen
  <2>3. ASSUME NEW c \in Call
        PROVE  Seen(call[c])' = IF c \in InFlight THEN "lost" ELSE Seen(call[c])
    <3>1. call'[c] = CASE call[c] = "queued"  -> "UNAVAILABLE"
                       [] call[c] = "running" -> "orphan"
                       [] OTHER -> call[c]
      BY <1>3 DEF GraceExpires
    <3>2. CASE call[c] = "queued"
      BY <3>1, <3>2 DEF Seen, InFlight
    <3>3. CASE call[c] = "running"
      BY <3>1, <3>3 DEF Seen, InFlight
    <3>4. CASE call[c] \notin {"queued", "running"}
      <4>1. call'[c] = call[c] /\ c \notin InFlight
        BY <3>1, <3>4 DEF InFlight
      <4>2. QED
        BY <4>1
    <3>5. QED
      BY <3>2, <3>3, <3>4
  <2>4. Busy' = Busy
    BY <1>3 DEF GraceExpires, Busy
  <2>5. UNCHANGED {n \in Names : health[n] = "SERVING"}
    BY <1>3 DEF GraceExpires
  <2>6. [c \in Call |-> Seen(call[c])]'
          = [c \in Call |-> IF c \in InFlight THEN "lost"
                            ELSE [d \in Call |-> Seen(call[d])][c]]
    BY <2>3
  <2>7. Service!Lose
    BY <2>1, <2>2, <2>4, <2>5, <2>6 DEF Service!Lose
  <2>8. QED
    BY <2>7 DEF Service!Next
<1>4. CASE StopDrained
  <2>1. Phase' = Phase
    BY <1>4 DEF StopDrained, StopInv, CloseInv, PhaseInv, Phase
  <2>2. QED
    BY <1>4, <2>1, ServiceStutters DEF StopDrained
<1>5. CASE StopCancel \/ StopAwaited \/ StopWorkers \/ StopUnlink
  BY <1>5, ServiceStutters
     DEF StopCancel, StopAwaited, StopWorkers, StopUnlink, Phase
<1>6. QED
  BY <1>1, <1>2, <1>3, <1>4, <1>5 DEF StopNext

\* What a step of one call looks like to its caller.
LEMMA CallSeen ==
  ASSUME TypeOK, NEW c \in Call, NEW s \in CallStates,
         call' = [call EXCEPT ![c] = s]
  PROVE  /\ [d \in Call |-> Seen(call[d])]'
              = [[d \in Call |-> Seen(call[d])] EXCEPT ![c] = Seen(s)]
         /\ s \in {"running", "orphan"} => Busy' = Busy \cup {c}
         /\ s \notin {"running", "orphan"} => Busy' = Busy \ {c}
<1>1. \A d \in Call : call'[d] = IF d = c THEN s ELSE call[d]
  BY DEF TypeOK
<1>2. \A d \in Call : Seen(call[d])' = IF d = c THEN Seen(s) ELSE Seen(call[d])
  BY <1>1
<1>3. QED
  BY <1>1, <1>2 DEF Busy

LEMMA CallKeepsPromise ==
  ASSUME ~RestartsAfterStop, PromiseInv, CallNext
  PROVE  Service!Next \/ UNCHANGED Service!vars
<1> USE DEF PromiseInv, HostInv, callFrame, hostVars, srvVars
<1>1. /\ UNCHANGED <<stopped, server, {n \in Names : health[n] = "SERVING"}>>
      /\ Phase' = Phase
  BY DEF CallNext, Dispatch, Arrive, Finish, GiveUp, Phase
<1>2. \A c \in Call : call[c] \in {"queued", "running"} =>
        Phase \in {"up", "closing"}
  BY DEF StartInv, StopInv, CloseInv, PhaseInv, Resting, ServerInv, TypeOK,
         Phase
<1>3. ASSUME NEW c \in Call, Arrive(c) PROVE Service!Next
  <2>1. Phase = "up"
    BY <1>3 DEF Arrive, Phase, StartInv, CloseInv, PhaseInv, Resting, TypeOK
  <2>2. Seen(call[c]) # "open" /\ c \notin Busy
    BY <1>3 DEF Arrive, Seen, Busy, Replies
  <2>3. /\ [d \in Call |-> Seen(call[d])]'
             = [[d \in Call |-> Seen(call[d])] EXCEPT ![c] = "open"]
        /\ Busy' = Busy
    <3>1. /\ "queued" \in CallStates /\ "queued" \notin {"running", "orphan"}
          /\ Seen("queued") = "open"
      BY DEF CallStates, Seen
    <3>2. call' = [call EXCEPT ![c] = "queued"]
      BY <1>3 DEF Arrive
    <3>3. /\ [d \in Call |-> Seen(call[d])]'
               = [[d \in Call |-> Seen(call[d])] EXCEPT ![c] = "open"]
          /\ Busy' = Busy \ {c}
      BY <3>1, <3>2, CallSeen
    <3>4. QED
      BY <2>2, <3>3
  <2>4. QED
    BY <1>1, <2>1, <2>2, <2>3 DEF Service!Next, Service!Take
<1>4. ASSUME Dispatch PROVE Service!Next \/ UNCHANGED Service!vars
  <2> DEFINE c == Head(queue)
  <2>1. c \in Call
    BY <1>4 DEF Dispatch, TypeOK
  <2>2. CASE call[c] = "queued"
    <3>1. router = "hosting"
      BY <2>1, <2>2 DEF StartInv, CloseInv, Resting
    <3>2. call' = [call EXCEPT ![c] = "running"]
      BY <1>4, <2>2, <3>1 DEF Dispatch
    <3>3. Seen(call[c]) = "open" /\ c \notin Busy
      BY <2>2 DEF Seen, Busy
    <3>4. /\ [d \in Call |-> Seen(call[d])]'
               = [[d \in Call |-> Seen(call[d])] EXCEPT ![c] = "open"]
          /\ Busy' = Busy \cup {c}
      BY <2>1, <3>2, CallSeen DEF CallStates, Seen
    <3>5. [d \in Call |-> Seen(call[d])]' = [d \in Call |-> Seen(call[d])]
      BY <2>1, <3>3, <3>4
    <3>6. Service!Work(c)
      BY <1>1, <1>2, <2>1, <2>2, <3>3, <3>4, <3>5 DEF Service!Work
    <3>7. QED
      BY <2>1, <3>6 DEF Service!Next
  <2>3. CASE call[c] # "queued"
    BY <1>1, <1>4, <2>3, ServiceStutters DEF Dispatch
  <2>4. QED
    BY <2>2, <2>3
<1>5. ASSUME NEW c \in Call, Finish(c) PROVE Service!Next
  <2>1. CASE call[c] = "running"
    <3>1. PICK r \in Returned : call' = [call EXCEPT ![c] = Wire(r)]
      BY <1>5, <2>1 DEF Finish
    <3>2. /\ Wire(r) \in CallStates /\ Wire(r) \notin {"running", "orphan"}
          /\ Seen(Wire(r)) = "answered"
      BY DEF Wire, Returned, CallStates, Replies, Seen
    <3>3. /\ [d \in Call |-> Seen(call[d])]'
               = [[d \in Call |-> Seen(call[d])] EXCEPT ![c] = "answered"]
          /\ Busy' = Busy \ {c}
      BY <3>1, <3>2, CallSeen
    <3>4. Seen(call[c]) = "open" /\ c \in Busy
      BY <2>1 DEF Seen, Busy
    <3>5. QED
      BY <1>1, <3>3, <3>4 DEF Service!Next, Service!Answer
  <2>2. CASE call[c] = "orphan"
    <3>1. call' = [call EXCEPT ![c] = "GONE"]
      BY <1>5, <2>2 DEF Finish
    <3>2. Seen(call[c]) = "lost" /\ c \in Busy
      BY <2>2 DEF Seen, Busy
    <3>3. /\ [d \in Call |-> Seen(call[d])]'
               = [[d \in Call |-> Seen(call[d])] EXCEPT ![c] = "lost"]
          /\ Busy' = Busy \ {c}
      <4>1. /\ "GONE" \in CallStates /\ "GONE" \notin {"running", "orphan"}
            /\ Seen("GONE") = "lost"
        BY DEF CallStates, Replies, Seen
      <4>2. QED
        BY <3>1, <4>1, CallSeen
    <3>4. [d \in Call |-> Seen(call[d])]' = [d \in Call |-> Seen(call[d])]
      BY <3>2, <3>3
    <3>5. QED
      BY <1>1, <3>2, <3>3, <3>4 DEF Service!Next, Service!Release
  <2>3. QED
    BY <1>5, <2>1, <2>2 DEF Finish
<1>6. ASSUME NEW c \in Call, GiveUp(c) PROVE Service!Next
  <2>1. PICK s \in {"GONE", "orphan"} :
          /\ call' = [call EXCEPT ![c] = s]
          /\ s = "GONE" <=> call[c] = "queued"
    BY <1>6 DEF GiveUp
  <2>2. call[c] \in {"queued", "running"}
    BY <1>6 DEF GiveUp, InFlight
  <2>3. /\ [d \in Call |-> Seen(call[d])]'
             = [[d \in Call |-> Seen(call[d])] EXCEPT ![c] = "lost"]
        /\ Busy' = Busy
    <3>1. CASE s = "GONE"
      BY <2>1, <3>1, CallSeen DEF CallStates, Replies, Seen, Busy
    <3>2. CASE s = "orphan"
      BY <2>1, <2>2, <3>2, CallSeen DEF CallStates, Seen, Busy
    <3>3. QED
      BY <3>1, <3>2
  <2>4. [d \in Call |-> Seen(call[d])]'
          = [d \in Call |-> IF d \in {c} THEN "lost"
                            ELSE [e \in Call |-> Seen(call[e])][d]]
    BY <2>3
  <2>5. {c} \in SUBSET Service!OpenCalls
    BY <2>2 DEF Service!OpenCalls, Seen
  <2>6. Service!Lose
    BY <1>1, <2>3, <2>4, <2>5 DEF Service!Lose
  <2>7. QED
    BY <2>6 DEF Service!Next
<1>7. QED
  BY <1>3, <1>4, <1>5, <1>6 DEF CallNext

\* A host that is not restarted implements ComponentService, for every number
\* of calls, workers and health names, lost cancellations included.
THEOREM HostKeepsItsPromise ==
  ASSUME ~RestartsAfterStop
  PROVE  Spec => KeepsItsPromise
<1>1. Init => ServerInv
  BY DEF Init, ServerInv
<1>2. PromiseInv /\ [Next]_vars => [Service!Next]_(Service!vars)
  <2>1. PromiseInv /\ UNCHANGED vars => UNCHANGED Service!vars
    BY ServiceStutters DEF vars, hostVars, srvVars, callVars, Phase
  <2>2. QED
    BY <2>1, AppKeepsPromise, StartKeepsPromise, SupKeepsPromise,
       StopKeepsPromise, CallKeepsPromise DEF Next
<1>3. QED
  BY <1>1, <1>2, ServiceBegins, ServerStep, HostInvariant, ComponentIsFound, PTL
     DEF Spec, KeepsItsPromise, Service!Spec, PromiseInv

----------------------------------------------------------------------------
(***************************************************************************)
(* The handshake keeps its word and an ended child is quiet, for any       *)
(* number of calls, workers and health names, and wherever the parent goes *)
(* away.  The host's own invariant comes along: every step of the launch   *)
(* but the parent's exit is a step of the host or leaves it alone.         *)
(***************************************************************************)

ChildPlaces == {"idle", "refused", "start", "starting", "poll", "wait", "write",
                "serve", "finally", "stop", "ended"}

\* Where the child's main thread is tells where the host's caller is, and
\* what has become of the host.
CallerInv ==
  /\ child \in ChildPlaces /\ ctl \in {"app", "start", "stop"} /\ ~inRun
  /\ ctl = "start" <=> child = "starting"
  /\ ctl = "stop" <=> child = "stop"
  /\ child \in {"poll", "wait", "write", "serve"} => loop
  /\ child \in {"idle", "refused", "start", "ended"} => ~loop
  /\ stopped => child = "ended"

\* The line is written once, by a child that then serves until told to stop;
\* the descriptor is closed by the time the host is stopped.
LineInv ==
  /\ line => child \in {"serve", "finally", "stop", "ended"}
  /\ (line /\ ~quit) => child = "serve"
  /\ child \in {"stop", "ended"} => stdout = "closed"

LaunchInv == HostInv /\ CallerInv /\ LineInv

----------------------------------------------------------------------------
\* A step of the launch is a step of the host, or of none of it, or the
\* parent's exit.
LEMMA LaunchStepsHost ==
  ASSUME LaunchNext PROVE [Next]_vars \/ ParentExits
<1>1. CASE ChildNext
  BY <1>1 DEF ChildNext, ChildRefuses, ChildBegins, ChildStarts, ChildStarted,
              ChildStartFails, ChildPolls, ChildWaits, ChildWrites, ChildWakes,
              ChildStops, ChildEnds, Next, AppNext
<1>2. CASE ChildSignal \/ WatcherSeesEof \/ ParentReads \/ ParentCloses
  BY <1>2 DEF ChildSignal, WatcherSeesEof, ParentReads, ParentCloses
<1>3. CASE ParentCalls \/ HostRuns
  BY <1>3 DEF ParentCalls, HostRuns, Next, CallNext
<1>4. CASE UNCHANGED launchVars
  BY <1>4 DEF launchVars
<1> QED
  BY <1>1, <1>2, <1>3, <1>4 DEF LaunchNext

\* The parent's exit gives up every call at once, and nothing else.
LEMMA ParentExitsKeepsHost ==
  ASSUME HostInv, ParentExits PROVE HostInv'
<1>1. UNCHANGED <<appVars, hostVars, startPc, stopPc, stopName, supVars,
                  health, srvVars, queue>>
  BY DEF ParentExits, callFrame
<1>2. \A c \in Call : call'[c] = CASE call[c] = "queued"  -> "GONE"
                                   [] call[c] = "running" -> "orphan"
                                   [] OTHER -> call[c]
  BY DEF ParentExits
<1>3. call' \in [Call -> CallStates]
  BY DEF ParentExits, HostInv, TypeOK, CallStates, Replies
<1> USE <1>1 DEF appVars, hostVars, supVars, srvVars
<1>4. TypeOK'
  BY <1>3 DEF HostInv, TypeOK
<1>5. PhaseInv' /\ CloseInv'
  BY DEF HostInv, PhaseInv, CloseInv
<1>6. StartInv'
  BY <1>2 DEF HostInv, StartInv, Resting, NoServing
<1>7. StopInv'
  BY <1>2 DEF HostInv, StopInv, NoServing
<1> QED
  BY <1>4, <1>5, <1>6, <1>7 DEF HostInv

\* The child's main thread moves.
LEMMA ChildKeepsInv ==
  ASSUME LaunchInv, ChildNext PROVE CallerInv' /\ LineInv'
<1> USE DEF LaunchInv, CallerInv, LineInv, ChildPlaces
<1>1. CASE ChildRefuses \/ ChildBegins \/ ChildPolls \/ ChildWaits
           \/ ChildWrites \/ ChildWakes
  BY <1>1 DEF ChildRefuses, ChildBegins, ChildPolls, ChildWaits, ChildWrites,
              ChildWakes, vars, appVars, hostVars
<1>2. CASE ChildStarts
  BY <1>2 DEF ChildStarts, StartBegin
<1>3. CASE ChildStarted
  BY <1>3 DEF ChildStarted, StartReturns, hostVars, HostInv, PhaseInv, TypeOK
<1>4. CASE ChildStartFails
  BY <1>4 DEF ChildStartFails, StartRaises, AfterRaise
<1>5. CASE ChildStops
  BY <1>5 DEF ChildStops, StopBegin, StopUnstarted, hostVars
<1>6. CASE ChildEnds
  BY <1>6 DEF ChildEnds, StopReturns
<1> QED
  BY <1>1, <1>2, <1>3, <1>4, <1>5, <1>6 DEF ChildNext

\* The others leave the child where it is, and its host's caller.
LEMMA OthersKeepInv ==
  ASSUME LaunchInv, LaunchNext, ~ChildNext PROVE CallerInv' /\ LineInv'
<1>1. UNCHANGED <<ctl, inRun, loop, stopped>>
  BY DEF LaunchNext, ChildSignal, WatcherSeesEof, ParentReads, ParentCloses,
         ParentExits, ParentCalls, Arrive, callFrame, launchVars, vars, appVars,
         hostVars, HostRuns, StartNext, StartServices, StartBind, StartListen,
         StartLaunch, SupNext, ProbeAnswers, ProbeTimesOut, SupResumes,
         SupPublishes, SupTicks, SupCancelled, supFrame, StopNext, StopCancel,
         StopAwaited, StopPublish, StopServer, GraceExpires, StopDrained,
         StopWorkers, StopUnlink, stopFrame, Dispatch, Finish, GiveUp
<1>2. UNCHANGED <<child, stdout, line>> /\ (quit => quit')
  BY DEF LaunchNext, ChildSignal, WatcherSeesEof, ParentReads, ParentCloses,
         ParentExits, ParentCalls, HostRuns, launchVars, childVars
<1> QED
  BY <1>1, <1>2 DEF LaunchInv, CallerInv, LineInv

\* The inductive invariant of the launch, with the host's.
THEOREM LaunchInvariant == LaunchSpec => []LaunchInv
<1>1. ChildInit => LaunchInv
  BY InitInv DEF ChildInit, Init, LaunchInv, CallerInv, LineInv, ChildPlaces
<1>2. LaunchInv /\ [LaunchNext]_launchVars => LaunchInv'
  <2> SUFFICES ASSUME LaunchInv, [LaunchNext]_launchVars PROVE LaunchInv'
    OBVIOUS
  <2>1. CASE LaunchNext
    <3>1. HostInv'
      BY <2>1, LaunchStepsHost, ParentExitsKeepsHost, NextInv DEF LaunchInv
    <3>2. CallerInv' /\ LineInv'
      BY <2>1, ChildKeepsInv, OthersKeepInv
    <3> QED
      BY <3>1, <3>2 DEF LaunchInv
  <2>2. CASE UNCHANGED launchVars
    <3>1. HostInv'
      BY <2>2, NextInv DEF LaunchInv, launchVars
    <3>2. CallerInv' /\ LineInv'
      BY <2>2 DEF LaunchInv, CallerInv, LineInv, launchVars, childVars, vars,
                  appVars, hostVars
    <3> QED
      BY <3>1, <3>2 DEF LaunchInv
  <2> QED
    BY <2>1, <2>2
<1> QED
  BY <1>1, <1>2, PTL DEF LaunchSpec

\* From the handshake line on, until something tells the child to stop, its
\* server takes calls.
THEOREM HandshakeKeepsItsWord == LaunchSpec => []HandshakeIsKept
<1>1. LaunchInv => HandshakeIsKept
  BY DEF LaunchInv, HostInv, PhaseInv, StartInv, CallerInv, LineInv,
         HandshakeIsKept, TypeOK
<1> QED
  BY <1>1, LaunchInvariant, PTL

\* A child that ended left nothing behind, on every way out.
THEOREM EndedMeansQuiet == LaunchSpec => []EndedChildIsQuiet
<1>1. LaunchInv => EndedChildIsQuiet
  BY DEF LaunchInv, HostInv, StartInv, CallerInv, LineInv, Resting, NoServing,
         EndedChildIsQuiet, Quiet, InFlight, Busy, SupAlive
<1> QED
  BY <1>1, LaunchInvariant, PTL
=============================================================================
