------------------------- MODULE HostCallersProofs -------------------------
(***************************************************************************)
(* A stop() that returned means it, for any number of application threads  *)
(* and workers, with handlers that call stop() themselves or exit.         *)
(***************************************************************************)
EXTENDS HostCallers, TLAPS

Type ==
  /\ loop \in {"running", "halting", "ended", "closed"}
  /\ held \in BOOLEAN /\ stopped \in BOOLEAN /\ socket \in BOOLEAN
  /\ router \in {"open", "closed"}
  /\ server \in {"listening", "draining", "down"}
  /\ executor \in {"open", "down"}
  /\ work \in [Worker -> {"idle", "handler", "ended", "exited", "dead"}]
  /\ pc \in [Thread -> Steps \cup {"out", "returned", "raised"}]
  /\ co \in [Thread -> {"none", "begin", "drain", "join pool", "done"}]

\* What each thing being gone says of the ones that went before it.
PoolWentAfterServer ==
  executor = "down" => server = "down" /\ ~socket /\ Busy = {}
LoopWentAfterPool ==
  /\ loop = "closed" => executor = "down"
  /\ ~held => loop = "closed"
RouterWentAfterLoop == router = "closed" => ~held

Gone == executor = "down" /\ loop = "closed" /\ ~held

\* What a coroutine, and a thread in stop(), knows to be gone.
CoKnows(t) ==
  /\ co[t] \in {"join pool", "done"} => server = "down"
  /\ co[t] = "done" => executor = "down"
StopKnows(t) ==
  /\ pc[t] \in {"finally", "halt", "join"} => executor = "down"
  /\ pc[t] = "forget" => loop = "closed"
  /\ pc[t] = "router" => Gone
  /\ pc[t] = "flag" => Gone /\ router = "closed"
  /\ pc[t] = "returned" => stopped
FlagIsLast == stopped => Gone /\ router = "closed"

CallerInv ==
  /\ Type
  /\ PoolWentAfterServer /\ LoopWentAfterPool /\ RouterWentAfterLoop
  /\ FlagIsLast
  /\ \A t \in Thread : CoKnows(t) /\ StopKnows(t)

\* A thread whose stop() returned saw the flag, which is set last.
LEMMA InvGivesRest ==
  ASSUME CallerInv PROVE ReturnedStopIsAtRest
  BY DEF CallerInv, PoolWentAfterServer, LoopWentAfterPool, RouterWentAfterLoop,
         FlagIsLast, StopKnows, ReturnedStopIsAtRest, AtRest, Gone

\* A step of stop() on one thread keeps the invariant.
LEMMA StopKeepsInv ==
  ASSUME CallerInv, NEW t \in Thread, CallStop(t) \/ StopStep(t)
  PROVE  CallerInv'
<1> USE DEF CallerInv, Gone, CoKnows, StopKnows, FlagIsLast, PoolWentAfterServer,
            LoopWentAfterPool, RouterWentAfterLoop, Busy, Goto, Steps
<1>1. CASE CallStop(t)
  BY <1>1 DEF CallStop, Type, hostVars
<1>2. CASE TestStopped(t)
  BY <1>2 DEF TestStopped, Local, Type, hostVars
<1>3. CASE TestLoop(t)
  BY <1>3 DEF TestLoop, Local, Type, hostVars
<1>4. CASE Schedule(t)
  <2> USE DEF Schedule, Type, hostVars
  <2>1. CASE held /\ loop # "closed"
    <3>1. /\ pc' = [pc EXCEPT ![t] = "result"] /\ co' = [co EXCEPT ![t] = "begin"]
          /\ UNCHANGED <<hostVars, work>>
      BY <1>4, <2>1
    <3>2. Type'
      BY <3>1
    <3>3. \A u \in Thread : CoKnows(u)'
      BY <3>1, <3>2, ZenonT(60)
    <3>4. \A u \in Thread : StopKnows(u)'
      BY <3>1, <3>2
    <3>5. /\ PoolWentAfterServer' /\ LoopWentAfterPool'
          /\ RouterWentAfterLoop' /\ FlagIsLast'
      BY <3>1
    <3> QED
      BY <3>2, <3>3, <3>4, <3>5
  <2>2. CASE ~(held /\ loop # "closed")
    BY <1>4, <2>2
  <2> QED
    BY <2>1, <2>2
<1>5. CASE Result(t)
  BY <1>5, ZenonT(60) DEF Result, Local, Type, hostVars
<1>6. CASE TakeLoop(t)
  BY <1>6, ZenonT(60) DEF TakeLoop, Local, Type, hostVars
<1>7. CASE Halt(t)
  BY <1>7, ZenonT(60) DEF Halt, Type
<1>8. CASE Join(t)
  BY <1>8 DEF Join, Type
<1>9. CASE Forget(t)
  BY <1>9 DEF Forget, Type
<1>10. CASE CloseRouter(t)
  BY <1>10 DEF CloseRouter, Type
<1>11. CASE SetStopped(t)
  BY <1>11 DEF SetStopped, Type
<1> QED
  BY <1>1, <1>2, <1>3, <1>4, <1>5, <1>6, <1>7, <1>8, <1>9, <1>10, <1>11
     DEF StopStep

\* So does a step of the loop's thread or of a call.
LEMMA LoopKeepsInv ==
  ASSUME CallerInv,
         \/ LoopEnds
         \/ \E t \in Thread : CoNext(t)
         \/ \E w \in Worker : Dispatch(w) \/ WorkNext(w)
  PROVE  CallerInv'
<1> USE DEF CallerInv, Gone, CoKnows, StopKnows, FlagIsLast, PoolWentAfterServer,
            LoopWentAfterPool, RouterWentAfterLoop, Busy, Runs
<1>1. CASE LoopEnds
  BY <1>1 DEF LoopEnds, Type, stopVars
<1>2. ASSUME NEW t \in Thread, CoBegins(t) PROVE CallerInv'
  BY <1>2 DEF CoBegins, CoStep, Type
<1>3. ASSUME NEW t \in Thread, CoDrains(t) PROVE CallerInv'
  BY <1>3 DEF CoDrains, CoStep, Type
<1>4. ASSUME NEW t \in Thread, CoJoinsPool(t) PROVE CallerInv'
  BY <1>4 DEF CoJoinsPool, Type
<1>5. ASSUME NEW w \in Worker, Dispatch(w) PROVE CallerInv'
  BY <1>5 DEF Dispatch, Type, hostVars, stopVars
<1>6. ASSUME NEW w \in Worker, HandlerEnds(w) PROVE CallerInv'
  BY <1>6 DEF HandlerEnds, Type, hostVars, stopVars
<1>7. ASSUME NEW w \in Worker, AnswerCall(w) PROVE CallerInv'
  BY <1>7 DEF AnswerCall, Type, hostVars, Thread
<1>8. ASSUME NEW w \in Worker, DropOutcome(w) PROVE CallerInv'
  BY <1>8 DEF DropOutcome, Type, hostVars, Thread
<1>9. ASSUME NEW w \in Worker, ExitEndsLoop(w) PROVE CallerInv'
  BY <1>9 DEF ExitEndsLoop, Type, stopVars
<1> QED
  BY <1>1, <1>2, <1>3, <1>4, <1>5, <1>6, <1>7, <1>8, <1>9 DEF CoNext, WorkNext

\* The invariant holds throughout: each thread in stop() knows what is gone,
\* and each thing is gone only after the ones that depend on it.
THEOREM CallerInvariant == Spec => []CallerInv
<1>1. Init => CallerInv
  BY DEF Init, CallerInv, Type, PoolWentAfterServer, LoopWentAfterPool,
         RouterWentAfterLoop, FlagIsLast, CoKnows, StopKnows, Gone, Busy, Steps
<1>2. CallerInv /\ [Next]_vars => CallerInv'
  <2> SUFFICES ASSUME CallerInv, [Next]_vars PROVE CallerInv'
    OBVIOUS
  <2>1. CASE UNCHANGED vars
    BY <2>1 DEF vars, hostVars, stopVars, CallerInv, Type, PoolWentAfterServer,
                LoopWentAfterPool, RouterWentAfterLoop, FlagIsLast, CoKnows,
                StopKnows, Gone, Busy
  <2>2. CASE Next
    BY <2>2, StopKeepsInv, LoopKeepsInv DEF Next
  <2> QED
    BY <2>1, <2>2
<1> QED
  BY <1>1, <1>2, PTL DEF Spec

\* However calls of stop() overlap, on however many threads, none returns
\* before the server, the pool, the socket and the loop are gone and the
\* router is closed, and the router is closed under no handler.
THEOREM ReturnedMeansAtRest == Spec => []ReturnedStopIsAtRest
  BY CallerInvariant, InvGivesRest, PTL
=============================================================================
