--------------------------- MODULE ComponentHost ---------------------------
(***************************************************************************)
(* The lifecycle of a ComponentHost (angzarr_client/host.py): the          *)
(* application's thread calling start, run and stop; the coroutines _start *)
(* and _stop and the readiness supervisor on the host's private event      *)
(* loop; the worker pool that runs dispatches; and the clients' calls.     *)
(*                                                                         *)
(* A step is what runs between two points where another thread or another  *)
(* coroutine can be scheduled.  The host is taken with one component       *)
(* registered: registration is another module's subject.                   *)
(***************************************************************************)
EXTENDS Naturals, FiniteSets, Sequences

CONSTANTS
  Call,                  \* the calls clients may have in flight
  NumNames,              \* health names: 1 is "", the overall server
  MaxWorkers,            \* max_workers
  OwnsRouter,            \* _owns_router: no router was passed in
  WaitForLosesCancel,    \* asyncio.wait_for of the running Python: a cancel
                         \* that finds the inner task done is lost (< 3.12)
  RestartsAfterStop      \* the application calls start() after stop()

ASSUME SizeAssumption ==
  /\ NumNames \in Nat \ {0}
  /\ MaxWorkers \in Nat \ {0}

ASSUME SwitchAssumption ==
  /\ OwnsRouter \in BOOLEAN
  /\ WaitForLosesCancel \in BOOLEAN
  /\ RestartsAfterStop \in BOOLEAN

VARIABLES
  ctl,         \* where the application's thread is
  inRun,       \* it is inside run(): the signal handlers are installed
  stopping,    \* run()'s event, set by SIGTERM or SIGINT
  outcome,     \* how the last start, run or stop ended
  loop,        \* _loop and _thread are set
  stopped,     \* _stopped
  router,      \* the router hosts the component, or was closed
  startPc,     \* the coroutine _start
  stopPc,      \* the coroutine _stop
  stopName,    \* the name _stop publishes next
  sup,         \* the readiness supervisor's task
  supCancel,   \* it was cancelled and has not been resumed yet
  supOk,       \* all_ok of the tick under way
  supName,     \* the name it publishes next
  health,      \* the status last published for each name
  server,      \* the gRPC server
  executor,    \* the worker pool
  socket,      \* the Unix socket file exists
  call,        \* where each client's call is
  queue        \* the pool's work queue: dispatches no worker has taken

appVars  == <<ctl, inRun, stopping, outcome>>
hostVars == <<loop, stopped, router>>
supVars  == <<sup, supCancel, supOk, supName>>
srvVars  == <<server, executor, socket>>
callVars == <<call, queue>>
vars == <<appVars, hostVars, startPc, stopPc, stopName, supVars, health,
          srvVars, callVars>>

Names    == 1..NumNames
Statuses == {"NONE", "NOT_SERVING", "SERVING"}

\* What a client sees of a dispatch: its answer, a coded failure, a failure
\* the handler did not code, the answer of an empty router, or a call cut
\* off by the server or given up by the client.
Replies  == {"OK", "CODED", "UNHANDLED", "NO_HANDLERS", "UNAVAILABLE", "GONE"}
CallStates == Replies \cup {"idle", "queued", "running", "orphan"}

\* _Dispatcher.call: how what the handler did travels.
Returned == {"result", "coded", "raised"}
Wire(r)  == CASE r = "result" -> "OK"
              [] r = "coded"  -> "CODED"
              [] r = "raised" -> "UNHANDLED"

InFlight == {c \in Call : call[c] \in {"queued", "running"}}
Busy     == {c \in Call : call[c] \in {"running", "orphan"}}
SupAlive == sup \in {"probe", "probed", "publish", "sleep"}

Init ==
  /\ ctl = "app" /\ inRun = FALSE /\ stopping = FALSE /\ outcome = "none"
  /\ loop = FALSE /\ stopped = FALSE /\ router = "hosting"
  /\ startPc = "idle" /\ stopPc = "idle" /\ stopName = 1
  /\ sup = "none" /\ supCancel = FALSE /\ supOk = FALSE /\ supName = 1
  /\ health = [n \in Names |-> "NONE"]
  /\ server = "none" /\ executor = "none" /\ socket = FALSE
  /\ call = [c \in Call |-> "idle"] /\ queue = <<>>

----------------------------------------------------------------------------
(* The application's thread. *)

\* run() installs its signal handlers before it calls start().
RunBegin ==
  /\ ctl = "app"
  /\ RestartsAfterStop \/ ~stopped
  /\ ctl' = "run" /\ inRun' = TRUE /\ stopping' = FALSE /\ outcome' = "none"
  /\ UNCHANGED <<hostVars, startPc, stopPc, stopName, supVars, health,
                 srvVars, callVars>>

\* SIGTERM or SIGINT while run()'s handlers are installed.
Signal ==
  /\ inRun /\ ctl \in {"run", "start", "serve"} /\ ~stopping
  /\ stopping' = TRUE
  /\ UNCHANGED <<ctl, inRun, outcome, hostVars, startPc, stopPc, stopName,
                 supVars, health, srvVars, callVars>>

\* start() makes the loop and its thread and waits for _start.  Nothing here
\* looks at _stopped.
StartBegin ==
  /\ ctl \in {"app", "run"}
  /\ ~loop
  /\ RestartsAfterStop \/ ~stopped
  /\ ctl' = "start" /\ loop' = TRUE /\ startPc' = "init" /\ outcome' = "none"
  /\ UNCHANGED <<inRun, stopping, stopped, router, stopPc, stopName, supVars,
                 health, srvVars, callVars>>

\* Where start() leaves the thread when it raises: run() has a finally.
AfterRaise == IF inRun THEN "finally" ELSE "app"

\* HOST_ALREADY_STARTED.
StartAgain ==
  /\ ctl \in {"app", "run"}
  /\ loop
  /\ ctl' = AfterRaise /\ outcome' = "already_started"
  /\ UNCHANGED <<inRun, stopping, hostVars, startPc, stopPc, stopName, supVars,
                 health, srvVars, callVars>>

\* Mutant: run() makes its event after start(), so an earlier signal is lost.
StartReturnsForgetsSignal ==
  /\ ctl = "start" /\ startPc = "done"
  /\ ctl' = IF inRun THEN "serve" ELSE "app"
  /\ startPc' = "idle" /\ outcome' = "started" /\ stopping' = FALSE
  /\ UNCHANGED <<inRun, hostVars, stopPc, stopName, supVars, health,
                 srvVars, callVars>>

StartReturns ==
  /\ ctl = "start" /\ startPc = "done"
  /\ ctl' = IF inRun THEN "serve" ELSE "app"
  /\ startPc' = "idle" /\ outcome' = "started"
  /\ UNCHANGED <<inRun, stopping, hostVars, stopPc, stopName, supVars, health,
                 srvVars, callVars>>

\* _start raised: _shutdown_loop, then the exception goes on.
StartRaises ==
  /\ ctl = "start" /\ startPc = "failed"
  /\ ctl' = AfterRaise
  /\ startPc' = "idle" /\ outcome' = "start_failed" /\ loop' = FALSE
  /\ UNCHANGED <<inRun, stopping, stopped, router, stopPc, stopName, supVars,
                 health, srvVars, callVars>>

\* run()'s wait ends once a signal was seen.
RunWakes ==
  /\ ctl = "serve" /\ stopping
  /\ ctl' = "finally"
  /\ UNCHANGED <<inRun, stopping, outcome, hostVars, startPc, stopPc, stopName,
                 supVars, health, srvVars, callVars>>

\* An owned router is closed.
CloseRouter == router' = IF OwnsRouter THEN "closed" ELSE router

\* stop() of a host that was stopped before: an early return.
StopAgain ==
  /\ ctl \in {"app", "finally"}
  /\ stopped
  /\ ctl' = "app" /\ inRun' = FALSE /\ outcome' = "stopped"
  /\ UNCHANGED <<stopping, hostVars, startPc, stopPc, stopName, supVars,
                 health, srvVars, callVars>>

\* stop() of a host that is not running.
StopUnstarted ==
  /\ ctl \in {"app", "finally"}
  /\ ~stopped /\ ~loop
  /\ CloseRouter /\ stopped' = TRUE
  /\ ctl' = "app" /\ inRun' = FALSE /\ outcome' = "stopped"
  /\ UNCHANGED <<stopping, loop, startPc, stopPc, stopName, supVars, health,
                 srvVars, callVars>>

\* Mutant: the router is closed before the server is drained.
StopBeginClosesFirst ==
  /\ ctl \in {"app", "finally"}
  /\ ~stopped /\ loop
  /\ CloseRouter
  /\ ctl' = "stop" /\ stopPc' = "cancel" /\ outcome' = "none"
  /\ UNCHANGED <<inRun, stopping, loop, stopped, startPc, stopName, supVars,
                 health, srvVars, callVars>>

\* stop() schedules _stop on the loop and waits for it.  run()'s finally has
\* put the previous signal handlers back by then.
StopBegin ==
  /\ ctl \in {"app", "finally"}
  /\ ~stopped /\ loop
  /\ ctl' = "stop" /\ stopPc' = "cancel" /\ outcome' = "none"
  /\ UNCHANGED <<inRun, stopping, hostVars, startPc, stopName, supVars, health,
                 srvVars, callVars>>

\* _stop ended: the loop is shut down, the router closed, _stopped set.
StopReturns ==
  /\ ctl = "stop" /\ stopPc = "finish"
  /\ loop' = FALSE /\ CloseRouter /\ stopped' = TRUE
  /\ ctl' = "app" /\ inRun' = FALSE /\ stopPc' = "idle" /\ outcome' = "stopped"
  /\ UNCHANGED <<stopping, startPc, stopName, supVars, health, srvVars,
                 callVars>>
----------------------------------------------------------------------------
(* The coroutine _start. *)

\* The pool, the servicers and the health service, every name NOT_SERVING.
\* An application's add_to_server may raise first.
StartServices ==
  /\ startPc = "init"
  /\ executor' = "open"
  /\ \/ /\ startPc' = "bind"
        /\ health' = [n \in Names |-> "NOT_SERVING"]
     \/ /\ startPc' = "failed"
        /\ UNCHANGED health
  /\ UNCHANGED <<appVars, hostVars, stopPc, stopName, supVars, server, socket,
                 callVars>>

\* add_insecure_port: the address is bound, or the call raises.
StartBind ==
  /\ startPc = "bind"
  /\ \/ startPc' = "listen" /\ socket' = TRUE
     \/ startPc' = "failed" /\ UNCHANGED socket
  /\ UNCHANGED <<appVars, hostVars, stopPc, stopName, supVars, health, server,
                 executor, callVars>>

\* server.start(): from here on calls arrive.
StartListen ==
  /\ startPc = "listen"
  /\ startPc' = "launch" /\ server' = "listening"
  /\ UNCHANGED <<appVars, hostVars, stopPc, stopName, supVars, health,
                 executor, socket, callVars>>

\* The transport signal is set and the supervisor's task created.
StartLaunch ==
  /\ startPc = "launch"
  /\ startPc' = "done" /\ sup' = "probe" /\ supCancel' = FALSE
  /\ UNCHANGED <<appVars, hostVars, stopPc, stopName, supOk, supName, health,
                 srvVars, callVars>>
----------------------------------------------------------------------------
(* The readiness supervisor: probe, publish to every name, sleep. *)

supFrame == <<appVars, hostVars, startPc, stopPc, stopName, srvVars, callVars>>

\* The probe's own task ends.  The supervisor has not been resumed yet.
ProbeAnswers ==
  /\ sup = "probe"
  /\ sup' = "probed" /\ supOk' = TRUE
  /\ UNCHANGED <<supFrame, supCancel, supName, health>>

\* Mutant: the timeout is not caught and ends the supervisor.
ProbeTimeoutEscapes ==
  /\ sup = "probe" /\ ~supCancel
  /\ sup' = "done" /\ supOk' = FALSE /\ supName' = 1
  /\ UNCHANGED <<supFrame, supCancel, health>>

\* The loop was held up past the probe's timeout.
ProbeTimesOut ==
  /\ sup = "probe" /\ ~supCancel
  /\ sup' = "publish" /\ supOk' = FALSE /\ supName' = 1
  /\ UNCHANGED <<supFrame, supCancel, health>>

SupResumes ==
  /\ sup = "probed" /\ ~supCancel
  /\ sup' = "publish" /\ supName' = 1
  /\ UNCHANGED <<supFrame, supCancel, supOk, health>>

\* health_servicer.set for one name; after the last, sleep(interval).
SupPublishes ==
  /\ sup = "publish" /\ ~supCancel
  /\ health' = [health EXCEPT ![supName] =
                  IF supOk THEN "SERVING" ELSE "NOT_SERVING"]
  /\ IF supName < NumNames
       THEN supName' = supName + 1 /\ UNCHANGED sup
       ELSE sup' = "sleep" /\ UNCHANGED supName
  /\ UNCHANGED <<supFrame, supCancel, supOk>>

SupTicks ==
  /\ sup = "sleep" /\ ~supCancel
  /\ sup' = "probe"
  /\ UNCHANGED <<supFrame, supCancel, supOk, supName, health>>

\* The cancelled task is resumed with CancelledError, which nothing in
\* run_supervisor catches; but wait_for may answer the finished probe's
\* result instead of raising it.
SupCancelled ==
  /\ SupAlive /\ supCancel
  /\ supCancel' = FALSE
  /\ IF sup = "probed" /\ WaitForLosesCancel
       THEN sup' = "publish" /\ supName' = 1
       ELSE sup' = "done" /\ UNCHANGED supName
  /\ UNCHANGED <<supFrame, supOk, health>>
----------------------------------------------------------------------------
(* The coroutine _stop. *)

stopFrame == <<appVars, hostVars, startPc>>

\* Mutant: NOT_SERVING is published with the supervisor still running.
StopCancelSkipped ==
  /\ stopPc = "cancel"
  /\ stopPc' = "publish" /\ stopName' = 1
  /\ UNCHANGED <<stopFrame, supVars, health, srvVars, callVars>>

\* Mutant: the supervisor is awaited without having been cancelled.
StopCancelForgotten ==
  /\ stopPc = "cancel"
  /\ stopPc' = "await"
  /\ UNCHANGED <<stopFrame, stopName, supVars, health, srvVars, callVars>>

StopCancel ==
  /\ stopPc = "cancel"
  /\ stopPc' = "await" /\ supCancel' = SupAlive
  /\ UNCHANGED <<stopFrame, stopName, sup, supOk, supName, health, srvVars,
                 callVars>>

\* await self._supervisor.
StopAwaited ==
  /\ stopPc = "await" /\ ~SupAlive
  /\ stopPc' = "publish" /\ stopName' = 1
  /\ UNCHANGED <<stopFrame, supVars, health, srvVars, callVars>>

StopPublish ==
  /\ stopPc = "publish"
  /\ health' = [health EXCEPT ![stopName] = "NOT_SERVING"]
  /\ IF stopName < NumNames
       THEN stopName' = stopName + 1 /\ UNCHANGED stopPc
       ELSE stopPc' = "server" /\ UNCHANGED stopName
  /\ UNCHANGED <<stopFrame, supVars, srvVars, callVars>>

\* server.stop(grace) is called: new calls are refused.
StopServer ==
  /\ stopPc = "server"
  /\ stopPc' = "drain" /\ server' = "draining"
  /\ UNCHANGED <<stopFrame, stopName, supVars, health, executor, socket,
                 callVars>>

\* The grace period is over: every call in flight is cut off.  A dispatch
\* still queued is cancelled, one that runs goes on with nobody to answer.
GraceExpires ==
  /\ stopPc = "drain" /\ InFlight # {}
  /\ call' = [c \in Call |-> CASE call[c] = "queued"  -> "UNAVAILABLE"
                               [] call[c] = "running" -> "orphan"
                               [] OTHER -> call[c]]
  /\ UNCHANGED <<stopFrame, stopPc, stopName, supVars, health, srvVars, queue>>

StopDrained ==
  /\ stopPc = "drain" /\ InFlight = {}
  /\ stopPc' = "workers" /\ server' = "down"
  /\ UNCHANGED <<stopFrame, stopName, supVars, health, executor, socket,
                 callVars>>

\* Mutant: executor.shutdown(wait=False).
StopWorkersNoWait ==
  /\ stopPc = "workers"
  /\ stopPc' = "unlink" /\ executor' = "shut"
  /\ UNCHANGED <<stopFrame, stopName, supVars, health, server, socket,
                 callVars>>

\* executor.shutdown(wait=True): every dispatch that runs is waited for.
StopWorkers ==
  /\ stopPc = "workers" /\ Busy = {} /\ queue = <<>>
  /\ stopPc' = "unlink" /\ executor' = "shut"
  /\ UNCHANGED <<stopFrame, stopName, supVars, health, server, socket,
                 callVars>>

\* The Unix socket file is removed, if it is still there.
StopUnlink ==
  /\ stopPc = "unlink"
  /\ stopPc' = "finish" /\ socket' = FALSE
  /\ UNCHANGED <<stopFrame, stopName, supVars, health, server, executor,
                 callVars>>
----------------------------------------------------------------------------
(* Calls, and the workers that run them. *)

callFrame == <<appVars, hostVars, startPc, stopPc, stopName, supVars, health,
               srvVars>>

\* A client calls, or calls again: the servicer hands the dispatch to the
\* pool.  (The name of a call given up is used again once the pool has let
\* go of it.)
Arrive(c) ==
  /\ server = "listening"
  /\ call[c] \in Replies \cup {"idle"}
  /\ \A i \in 1..Len(queue) : queue[i] # c
  /\ call' = [call EXCEPT ![c] = "queued"]
  /\ queue' = Append(queue, c)
  /\ UNCHANGED callFrame

\* Mutant: a free worker takes the newest work item.
DispatchNewestFirst ==
  /\ queue # <<>> /\ Cardinality(Busy) < MaxWorkers
  /\ queue' = SubSeq(queue, 1, Len(queue) - 1)
  /\ IF call[queue[Len(queue)]] = "queued"
       THEN call' = [call EXCEPT ![queue[Len(queue)]] =
                       IF router = "hosting" THEN "running" ELSE "NO_HANDLERS"]
       ELSE UNCHANGED call
  /\ UNCHANGED callFrame

\* A free worker takes the oldest work item and asks the router for the
\* component it hosts; an item cancelled meanwhile is skipped.
Dispatch ==
  /\ queue # <<>> /\ Cardinality(Busy) < MaxWorkers
  /\ queue' = Tail(queue)
  /\ IF call[Head(queue)] = "queued"
       THEN call' = [call EXCEPT ![Head(queue)] =
                       IF router = "hosting" THEN "running" ELSE "NO_HANDLERS"]
       ELSE UNCHANGED call
  /\ UNCHANGED callFrame

\* The handler ends; an answer nobody waits for is dropped.
Finish(c) ==
  /\ \/ /\ call[c] = "running"
        /\ \E r \in Returned : call' = [call EXCEPT ![c] = Wire(r)]
     \/ /\ call[c] = "orphan"
        /\ call' = [call EXCEPT ![c] = "GONE"]
  /\ UNCHANGED <<callFrame, queue>>

\* The client gives up (a deadline, a dropped connection): its dispatch is
\* cancelled if it is still queued, and otherwise runs on.
GiveUp(c) ==
  /\ c \in InFlight
  /\ call' = [call EXCEPT ![c] =
                IF call[c] = "queued" THEN "GONE" ELSE "orphan"]
  /\ UNCHANGED <<callFrame, queue>>
----------------------------------------------------------------------------
AppNext ==
  \/ RunBegin \/ Signal \/ StartBegin \/ StartAgain \/ StartReturns
  \/ StartRaises \/ RunWakes \/ StopAgain \/ StopUnstarted \/ StopBegin
  \/ StopReturns

StartNext == StartServices \/ StartBind \/ StartListen \/ StartLaunch

SupNext ==
  \/ ProbeAnswers \/ ProbeTimesOut \/ SupResumes \/ SupPublishes \/ SupTicks
  \/ SupCancelled

StopNext ==
  \/ StopCancel \/ StopAwaited \/ StopPublish \/ StopServer \/ GraceExpires
  \/ StopDrained \/ StopWorkers \/ StopUnlink

CallNext ==
  \/ Dispatch
  \/ \E c \in Call : Arrive(c) \/ Finish(c) \/ GiveUp(c)

Next == AppNext \/ StartNext \/ SupNext \/ StopNext \/ CallNext

Spec == Init /\ [][Next]_vars

\* The application's thread and the loop run on, free workers take what is
\* queued, and handlers end; nobody has to call, signal, give up or restart.
\* A probe reads one flag, so it does not time out on every tick for ever.
Fairness ==
  /\ WF_vars(StartReturns \/ StartRaises \/ RunWakes \/ StopReturns)
  /\ WF_vars(inRun /\ (StartBegin \/ StartAgain \/ StopAgain
                       \/ StopUnstarted \/ StopBegin))
  /\ WF_vars(StartNext)
  /\ WF_vars(SupResumes \/ SupPublishes \/ SupTicks \/ SupCancelled)
  /\ SF_vars(ProbeAnswers)
  /\ WF_vars(StopNext)
  /\ WF_vars(Dispatch)
  /\ \A c \in Call : WF_vars(Finish(c))

FairSpec == Spec /\ Fairness
----------------------------------------------------------------------------
TypeOK ==
  /\ ctl \in {"app", "run", "start", "serve", "finally", "stop"}
  /\ inRun \in BOOLEAN /\ stopping \in BOOLEAN
  /\ outcome \in {"none", "started", "already_started", "start_failed",
                  "stopped"}
  /\ loop \in BOOLEAN /\ stopped \in BOOLEAN
  /\ router \in {"hosting", "closed"}
  /\ startPc \in {"idle", "init", "bind", "listen", "launch", "done", "failed"}
  /\ stopPc \in {"idle", "cancel", "await", "publish", "server", "drain",
                 "workers", "unlink", "finish"}
  /\ stopName \in Names
  /\ sup \in {"none", "probe", "probed", "publish", "sleep", "done"}
  /\ supCancel \in BOOLEAN /\ supOk \in BOOLEAN
  /\ supName \in Names
  /\ health \in [Names -> Statuses]
  /\ server \in {"none", "listening", "draining", "down"}
  /\ executor \in {"none", "open", "shut"}
  /\ socket \in BOOLEAN
  /\ call \in [Call -> CallStates]
  /\ queue \in Seq(Call)

\* No name reports SERVING unless the server takes calls: not before it
\* listens, not from the moment server.stop() refuses new calls, and not
\* because the supervisor publishes once more behind _stop's back (host.py,
\* module docstring: "NOT_SERVING until the readiness supervisor has seen the
\* server listening, and again once shutdown begins").
ServingOnlyWhileListening ==
  (\E n \in Names : health[n] = "SERVING") => server = "listening"

\* What a host that is not running has left behind: nothing.
Quiet ==
  /\ server # "listening" /\ server # "draining"
  /\ InFlight = {} /\ Busy = {}
  /\ ~SupAlive
  /\ \A n \in Names : health[n] # "SERVING"
  /\ ~loop /\ ~socket

\* When stop() has returned the host is at rest: no server, no supervisor, no
\* socket file, no queued dispatch and no handler still running, whatever the
\* grace period cut off (stop's docstring, and "stop waits for a running dispatch even
\* with no grace" in tests/router/test_host_lifecycle.py).
StopLeavesQuiet == outcome = "stopped" => Quiet

\* No dispatch ever meets the router that stop() closed: the pool is drained
\* before the component is dropped, so no client is told
\* ROUTER_REASON_NO_HANDLERS_REGISTERED by a host that had a component.
DispatchFindsComponent == \A c \in Call : call[c] # "NO_HANDLERS"

\* Once _stop has cancelled the supervisor, no name turns SERVING again.
NoServingAfterCancel ==
  [][ stopPc \notin {"idle", "cancel"} =>
        \A n \in Names : health'[n] = "SERVING" => health[n] = "SERVING" ]_vars

\* The host keeps the promise of ComponentService, as what its caller and its
\* prober see of it: a name is SERVING only of a server that takes calls, and
\* none is by the time calls are refused; each call is answered by its
\* handler, cut off or given up, and by no router that was closed; and a
\* stop() that has returned left neither a call nor a handler, for good.
Phase == CASE stopped                       -> "over"
           [] ~stopped /\ server = "none"      -> "off"
           [] ~stopped /\ server = "listening" -> "up"
           [] OTHER                         -> "closing"

Seen(s) == CASE s = "idle"                            -> "none"
             [] s \in {"queued", "running"}            -> "open"
             [] s \in {"OK", "CODED", "UNHANDLED"}      -> "answered"
             [] s \in {"UNAVAILABLE", "GONE", "orphan"} -> "lost"
             [] s = "NO_HANDLERS"                     -> "no handlers"

Service == INSTANCE ComponentService WITH
  Name <- Names, phase <- Phase,
  serving <- {n \in Names : health[n] = "SERVING"},
  calls <- [c \in Call |-> Seen(call[c])],
  working <- Busy

KeepsItsPromise == Service!Spec

\* Every dispatch handed to the pool is answered, cut off or given up, in a
\* pool smaller than the load and through a stop(): none is lost.
QueuedCallsSettle ==
  \A c \in Call : call[c] = "queued" ~> call[c] \in Replies

\* A host whose start() returned reports SERVING under every name at some
\* point, unless it is stopped first.
StartedHostServes ==
  outcome = "started" ~> \/ \A n \in Names : health[n] = "SERVING"
                         \/ outcome # "started"

\* stop() returns.
StopCompletes == ctl = "stop" ~> outcome = "stopped"

\* run() ends, the host stopped, once a signal was seen: also a signal that
\* arrives while the host is still starting.
SignalEndsRun == (inRun /\ stopping) ~> (~inRun /\ stopped)
=============================================================================
