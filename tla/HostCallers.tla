---------------------------- MODULE HostCallers ----------------------------
(***************************************************************************)
(* A serving ComponentHost whose stop() is called by several threads       *)
(* (angzarr_client/host.py): the application's, and the worker threads     *)
(* its handlers run on.  ComponentHost has one caller and takes stop() in  *)
(* few steps; here a step lies between any two reads of a field of the     *)
(* host that another thread writes.                                        *)
(*                                                                         *)
(* A handler may also end in SystemExit or KeyboardInterrupt, which no     *)
(* `except Exception` stops on its way to the loop's thread.               *)
(***************************************************************************)
CONSTANTS
  App,          \* the application's threads
  Worker,       \* the pool's threads, each running a handler when asked to
  HandlersStop, \* handlers call stop()
  HandlersExit  \* handlers end in SystemExit

ASSUME CallerAssumption ==
  /\ App \cap Worker = {}
  /\ HandlersStop \in BOOLEAN /\ HandlersExit \in BOOLEAN

Thread == App \cup Worker

VARIABLES
  loop,      \* the event loop: running, halting, ended or closed
  held,      \* the attributes _loop and _thread still hold it
  stopped,   \* _stopped
  router,    \* the router the host owns
  server,    \* the gRPC server
  executor,  \* the worker pool
  socket,    \* the Unix socket file exists
  work,      \* what each worker does
  pc,        \* where each thread is in stop()
  co,        \* the coroutine _stop each thread has scheduled
  raising,   \* the threads whose stop() has an exception to raise
  met        \* history: the threads that were in stop() with another one

hostVars == <<loop, held, stopped, router, server, executor, socket>>
stopVars == <<pc, co, raising, met>>
vars == <<hostVars, work, stopVars>>

Steps  == {"test", "branch", "schedule", "result", "finally", "halt", "join",
           "forget", "router", "flag"}
Inside == {t \in Thread : pc[t] \in Steps}
Busy   == {w \in Worker : work[w] = "handler"}

\* The host serves: start() has returned.
Init ==
  /\ loop = "running" /\ held = TRUE /\ stopped = FALSE
  /\ router = "open" /\ server = "listening" /\ executor = "open"
  /\ socket = TRUE
  /\ work = [w \in Worker |-> "idle"]
  /\ pc = [t \in Thread |-> "out"] /\ co = [t \in Thread |-> "none"]
  /\ raising = {} /\ met = {}

Goto(t, step) == pc' = [pc EXCEPT ![t] = step]
Local(t, step) == Goto(t, step) /\ UNCHANGED <<hostVars, work, co, raising, met>>
----------------------------------------------------------------------------
(* stop(), on the thread of its caller. *)

CallStop(t) ==
  /\ pc[t] \in {"out", "returned", "raised"}
  /\ t \in Worker => HandlersStop /\ work[t] = "handler" /\ pc[t] = "out"
  /\ Goto(t, "test")
  /\ raising' = raising \ {t}
  /\ met' = IF Inside = {} THEN met \ {t} ELSE met \cup Inside \cup {t}
  /\ UNCHANGED <<hostVars, work, co>>

\* Mutant: the flag is set first, to keep a second caller out.
TestStoppedSetting(t) ==
  /\ pc[t] = "test"
  /\ Goto(t, IF stopped THEN "returned" ELSE "branch")
  /\ stopped' = TRUE
  /\ UNCHANGED <<loop, held, router, server, executor, socket, work, co, raising, met>>

TestStopped(t) ==
  /\ pc[t] = "test"
  /\ Local(t, IF stopped THEN "returned" ELSE "branch")

\* `if self._loop is None`: not started, or another thread is at the end of
\* its stop().
TestLoop(t) ==
  /\ pc[t] = "branch"
  /\ Local(t, IF held THEN "schedule" ELSE "router")

\* run_coroutine_threadsafe, which reads _loop again: by now it may be None,
\* or closed.  A loop that has ended takes the coroutine and never runs it.
Schedule(t) ==
  /\ pc[t] = "schedule"
  /\ IF held /\ loop # "closed"
       THEN /\ Goto(t, "result") /\ co' = [co EXCEPT ![t] = "begin"]
            /\ UNCHANGED raising
       ELSE /\ Goto(t, "finally") /\ raising' = raising \cup {t}
            /\ UNCHANGED co
  /\ UNCHANGED <<hostVars, work, met>>

Result(t) ==
  /\ pc[t] = "result" /\ co[t] = "done"
  /\ Local(t, "finally")

\* _shutdown_loop takes both fields, or finds them None.
TakeLoop(t) ==
  /\ pc[t] = "finally"
  /\ Local(t, IF held THEN "halt" ELSE "router")

\* Mutant: the thread is joined without its loop having been stopped.
HaltForgotten(t) ==
  /\ pc[t] = "halt"
  /\ Local(t, "join")

\* call_soon_threadsafe(loop.stop): a loop another thread has closed refuses
\* it, out of the finally block: nothing that follows in it is done.
Halt(t) ==
  /\ pc[t] = "halt"
  /\ IF loop = "closed"
       THEN Goto(t, "raised") /\ UNCHANGED loop
       ELSE /\ Goto(t, "join")
            /\ loop' = IF loop = "running" THEN "halting" ELSE loop
  /\ UNCHANGED <<held, stopped, router, server, executor, socket, work, co,
                 raising, met>>

\* thread.join and loop.close.  The limit of 30 seconds is not met: the
\* loop's thread has only to see the stop.
Join(t) ==
  /\ pc[t] = "join" /\ loop \in {"ended", "closed"}
  /\ Goto(t, "forget") /\ loop' = "closed"
  /\ UNCHANGED <<held, stopped, router, server, executor, socket, work, co, raising, met>>

\* _loop and _thread are None.
Forget(t) ==
  /\ pc[t] = "forget"
  /\ Goto(t, "router") /\ held' = FALSE
  /\ UNCHANGED <<loop, stopped, router, server, executor, socket, work, co, raising, met>>

CloseRouter(t) ==
  /\ pc[t] = "router"
  /\ Goto(t, "flag") /\ router' = "closed"
  /\ UNCHANGED <<loop, held, stopped, server, executor, socket, work, co, raising, met>>

SetStopped(t) ==
  /\ pc[t] = "flag"
  /\ Goto(t, IF t \in raising THEN "raised" ELSE "returned")
  /\ stopped' = TRUE
  /\ UNCHANGED <<loop, held, router, server, executor, socket, work, co, raising, met>>
----------------------------------------------------------------------------
(* The loop's thread. *)

\* shutdown(wait=True) of the pool holds up the whole thread.
Runs == loop \in {"running", "halting"} /\ \A u \in Thread : co[u] # "join pool"

CoStep(t, from, to) == Runs /\ co[t] = from /\ co' = [co EXCEPT ![t] = to]

\* _stop up to server.stop: the supervisor is cancelled, NOT_SERVING
\* published, and no call taken any more.
CoBegins(t) ==
  /\ CoStep(t, "begin", "drain")
  /\ server' = IF server = "listening" THEN "draining" ELSE server
  /\ UNCHANGED <<loop, held, stopped, router, executor, socket, work, pc, raising, met>>

\* server.stop(grace): calls have ended, or are cut off.
CoDrains(t) ==
  /\ CoStep(t, "drain", "join pool")
  /\ server' = "down"
  /\ UNCHANGED <<loop, held, stopped, router, executor, socket, work, pc, raising, met>>

\* The pool's threads are through with their handlers.
CoJoinsPool(t) ==
  /\ loop \in {"running", "halting"} /\ co[t] = "join pool" /\ Busy = {}
  /\ co' = [co EXCEPT ![t] = "done"]
  /\ executor' = "down" /\ socket' = FALSE
  /\ UNCHANGED <<loop, held, stopped, router, server, work, pc, raising, met>>

\* run_forever returns.  What is scheduled later, or is not done, is left.
LoopEnds ==
  /\ loop = "halting" /\ Runs
  /\ loop' = "ended"
  /\ UNCHANGED <<held, stopped, router, server, executor, socket, work, stopVars>>
----------------------------------------------------------------------------
(* Calls and their handlers. *)

\* A call is dispatched to a worker.
Dispatch(w) ==
  /\ Runs /\ server = "listening" /\ executor = "open"
  /\ work[w] = "idle"
  /\ work' = [work EXCEPT ![w] = "handler"]
  /\ UNCHANGED <<hostVars, stopVars>>

\* The handler ends, its own stop() through, with an outcome for the loop.
HandlerEnds(w) ==
  /\ work[w] = "handler" /\ pc[w] \notin Steps
  /\ \E how \in {"ended"} \cup (IF HandlersExit THEN {"exited"} ELSE {}) :
       work' = [work EXCEPT ![w] = how]
  /\ UNCHANGED <<hostVars, stopVars>>

\* The loop resumes the call with what its handler returned or raised: any
\* Exception is answered as a panic.
AnswerCall(w) ==
  /\ Runs /\ work[w] = "ended" /\ server # "down"
  /\ work' = [work EXCEPT ![w] = "idle"]
  /\ pc' = [pc EXCEPT ![w] = "out"]
  /\ UNCHANGED <<hostVars, co, raising, met>>

\* A call cut off has nobody to resume: its outcome is dropped.
DropOutcome(w) ==
  /\ server = "down" /\ work[w] \in {"ended", "exited"}
  /\ work' = [work EXCEPT ![w] = "idle"]
  /\ pc' = [pc EXCEPT ![w] = "out"]
  /\ UNCHANGED <<hostVars, co, raising, met>>

\* The task re-raises SystemExit or KeyboardInterrupt out of run_forever.
ExitEndsLoop(w) ==
  /\ Runs /\ work[w] = "exited" /\ server # "down"
  /\ loop' = "ended"
  /\ work' = [work EXCEPT ![w] = "dead"]
  /\ UNCHANGED <<held, stopped, router, server, executor, socket, stopVars>>

StopStep(t) ==
  \/ TestStopped(t) \/ TestLoop(t) \/ Schedule(t) \/ Result(t) \/ TakeLoop(t)
  \/ Halt(t) \/ Join(t) \/ Forget(t) \/ CloseRouter(t) \/ SetStopped(t)

CoNext(t) == CoBegins(t) \/ CoDrains(t) \/ CoJoinsPool(t)

WorkNext(w) ==
  HandlerEnds(w) \/ AnswerCall(w) \/ DropOutcome(w) \/ ExitEndsLoop(w)

Next ==
  \/ \E t \in Thread : CallStop(t) \/ StopStep(t) \/ CoNext(t)
  \/ LoopEnds
  \/ \E w \in Worker : Dispatch(w) \/ WorkNext(w)

Spec == Init /\ [][Next]_vars

\* Threads run on, the loop's among them, and handlers end.
Fairness ==
  /\ \A t \in Thread : WF_vars(StopStep(t)) /\ WF_vars(CoNext(t))
  /\ \A w \in Worker : WF_vars(WorkNext(w))
  /\ WF_vars(LoopEnds)

FairSpec == Spec /\ Fairness
----------------------------------------------------------------------------
AtRest == /\ server = "down" /\ executor = "down" /\ ~socket
          /\ router = "closed" /\ loop = "closed" /\ ~held

\* A stop() that returned means it, to each of its callers: however the
\* calls of it overlap, none returns before the server, the pool, the socket
\* and the loop are gone and the router is closed, and the router is closed
\* under no handler.
ReturnedStopIsAtRest ==
  /\ \A t \in Thread : pc[t] = "returned" => AtRest
  /\ router = "closed" => Busy = {}

\* stop() returns, called once or again, to a thread that has it to itself:
\* what keeps one from it, or makes it raise, is another one under way at the
\* same time (a handler's, that waits for itself, is for ever), or a loop
\* that a handler's exit has ended.
LoneStopEnds ==
  \A t \in App :
    pc[t] = "test" ~> \/ pc[t] = "returned" \/ t \in met
                      \/ \E w \in Worker : work[w] = "dead"

\* Whatever escapes business code is answered: every call a handler was
\* running is resumed, or dropped by a server that stopped.
EscapesAreAnswered ==
  \A w \in Worker : work[w] \in {"ended", "exited"} ~> work[w] = "idle"
=============================================================================
