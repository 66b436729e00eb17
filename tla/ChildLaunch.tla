---------------------------- MODULE ChildLaunch ----------------------------
(***************************************************************************)
(* run_child (angzarr_client/child.py): a ComponentHost served as a child  *)
(* process of an in-app runtime.  The child's main thread drives the       *)
(* host's start and stop; a watcher thread reads stdin; the parent reads   *)
(* the handshake line from the child's stdout, then calls.                 *)
(***************************************************************************)
EXTENDS ComponentHost

VARIABLES
  child,       \* where run_child is
  quit,        \* its event `stopping`: a signal or the end of stdin was seen
  stdin,       \* the parent's end of stdin: "open", or "eof"
  stdout,      \* the descriptor kept for the handshake: "open" or "closed"
  line,        \* the handshake line was written
  parent       \* "reading" the child's stdout, "calling" it, or "gone"

childVars == <<child, quit, stdin, stdout, line, parent>>
launchVars == <<vars, childVars>>

ChildInit ==
  /\ Init
  /\ child = "idle" /\ quit = FALSE /\ stdin = "open"
  /\ stdout = "open" /\ line = FALSE /\ parent = "reading"

\* The child's main thread is inside the try block, so its signal handlers
\* are installed and its watcher thread runs.
Watching == child \in {"start", "starting", "poll", "wait", "write", "serve"}
----------------------------------------------------------------------------
(* The child's main thread. *)

\* A path that is not UTF-8 is refused before anything is bound or touched.
ChildRefuses ==
  /\ child = "idle"
  /\ child' = "refused"
  /\ UNCHANGED <<vars, quit, stdin, stdout, line, parent>>

\* stdout is kept aside, the handlers installed, the watcher started.
ChildBegins ==
  /\ child = "idle"
  /\ child' = "start"
  /\ UNCHANGED <<vars, quit, stdin, stdout, line, parent>>

\* Mutant: the handshake is written before the host was started.
ChildStartsWritingFirst ==
  /\ child = "start"
  /\ StartBegin
  /\ child' = "write"
  /\ UNCHANGED <<quit, stdin, stdout, line, parent>>

ChildStarts ==
  /\ child = "start"
  /\ StartBegin
  /\ child' = "starting"
  /\ UNCHANGED <<quit, stdin, stdout, line, parent>>

ChildStarted ==
  /\ child = "starting"
  /\ StartReturns
  /\ child' = "poll"
  /\ UNCHANGED <<quit, stdin, stdout, line, parent>>

ChildStartFails ==
  /\ child = "starting"
  /\ StartRaises
  /\ child' = "finally"
  /\ UNCHANGED <<quit, stdin, stdout, line, parent>>

\* host.health_status(): the status published for the overall server.
ChildPolls ==
  /\ child = "poll"
  /\ child' = IF health[1] = "SERVING" THEN "write" ELSE "wait"
  /\ UNCHANGED <<vars, quit, stdin, stdout, line, parent>>

\* Mutant: the wait's answer is not looked at.
ChildWaitsOnly ==
  /\ child = "wait"
  /\ child' = "poll"
  /\ UNCHANGED <<vars, quit, stdin, stdout, line, parent>>

\* Mutant: one poll too few: the first wait that times out ends the child.
ChildWaitsOnce ==
  /\ child = "wait"
  /\ child' = "finally"
  /\ UNCHANGED <<vars, quit, stdin, stdout, line, parent>>

\* stopping.wait(0.01): no handshake from a child told to stop.
ChildWaits ==
  /\ child = "wait"
  /\ child' = IF quit THEN "finally" ELSE "poll"
  /\ UNCHANGED <<vars, quit, stdin, stdout, line, parent>>

\* The line is written and the descriptor closed; with the reader gone the
\* write raises.
ChildWrites ==
  /\ child = "write"
  /\ \/ /\ parent # "gone"
        /\ child' = "serve" /\ line' = TRUE /\ stdout' = "closed"
     \/ /\ parent = "gone"
        /\ child' = "finally" /\ UNCHANGED <<line, stdout>>
  /\ UNCHANGED <<vars, quit, stdin, parent>>

ChildWakes ==
  /\ child = "serve" /\ quit
  /\ child' = "finally"
  /\ UNCHANGED <<vars, quit, stdin, stdout, line, parent>>

\* Mutant: the finally block forgets the descriptor.
ChildStopsKeepsStdout ==
  /\ child = "finally"
  /\ \/ StopBegin /\ child' = "stop"
     \/ StopUnstarted /\ child' = "ended"
  /\ UNCHANGED <<quit, stdin, stdout, line, parent>>

\* The finally block: the descriptor is closed if it still is open, the
\* handlers are put back, and the host is stopped.
ChildStops ==
  /\ child = "finally"
  /\ stdout' = "closed"
  /\ \/ StopBegin /\ child' = "stop"
     \/ StopUnstarted /\ child' = "ended"
  /\ UNCHANGED <<quit, stdin, line, parent>>

ChildEnds ==
  /\ child = "stop"
  /\ StopReturns
  /\ child' = "ended"
  /\ UNCHANGED <<quit, stdin, stdout, line, parent>>
----------------------------------------------------------------------------
(* What stops a child, and the parent. *)

ChildSignal ==
  /\ Watching /\ ~quit
  /\ quit' = TRUE
  /\ UNCHANGED <<vars, child, stdin, stdout, line, parent>>

\* _watch_stdin's read answers nothing, or fails.
WatcherSeesEof ==
  /\ Watching /\ stdin = "eof" /\ ~quit
  /\ quit' = TRUE
  /\ UNCHANGED <<vars, child, stdin, stdout, line, parent>>

ParentReads ==
  /\ parent = "reading" /\ line
  /\ parent' = "calling"
  /\ UNCHANGED <<vars, child, quit, stdin, stdout, line>>

\* The parent closes the child's stdin.
ParentCloses ==
  /\ stdin = "open"
  /\ stdin' = "eof"
  /\ UNCHANGED <<vars, child, quit, stdout, line, parent>>

\* The parent exits: both its pipes close and its calls are given up.
ParentExits ==
  /\ parent # "gone"
  /\ parent' = "gone" /\ stdin' = "eof"
  /\ call' = [c \in Call |-> CASE call[c] = "queued"  -> "GONE"
                               [] call[c] = "running" -> "orphan"
                               [] OTHER -> call[c]]
  /\ UNCHANGED <<callFrame, queue, child, quit, stdout, line>>

\* Only a parent that has read the line knows where to call.
ParentCalls ==
  /\ parent = "calling"
  /\ \E c \in Call : Arrive(c)
  /\ UNCHANGED childVars

\* The host's own threads.
HostRuns ==
  /\ \/ StartNext \/ SupNext \/ StopNext \/ Dispatch
     \/ \E c \in Call : Finish(c) \/ GiveUp(c)
  /\ UNCHANGED childVars
----------------------------------------------------------------------------
ChildNext ==
  \/ ChildRefuses \/ ChildBegins \/ ChildStarts \/ ChildStarted
  \/ ChildStartFails \/ ChildPolls \/ ChildWaits \/ ChildWrites \/ ChildWakes
  \/ ChildStops \/ ChildEnds

LaunchNext ==
  \/ ChildNext \/ ChildSignal \/ WatcherSeesEof
  \/ ParentReads \/ ParentCloses \/ ParentExits \/ ParentCalls
  \/ HostRuns
  \/ child \in {"refused", "ended"} /\ UNCHANGED launchVars

LaunchSpec == ChildInit /\ [][LaunchNext]_launchVars

\* The child's threads and the host's run on; the parent owes nothing.
LaunchFairness ==
  /\ WF_launchVars(ChildNext)
  /\ WF_launchVars(WatcherSeesEof)
  /\ WF_launchVars(StartNext /\ UNCHANGED childVars)
  /\ WF_launchVars((SupResumes \/ SupPublishes \/ SupTicks \/ SupCancelled)
                     /\ UNCHANGED childVars)
  /\ SF_launchVars(ProbeAnswers /\ UNCHANGED childVars)
  /\ WF_launchVars(StopNext /\ UNCHANGED childVars)
  /\ WF_launchVars(Dispatch /\ UNCHANGED childVars)
  /\ \A c \in Call : WF_launchVars(Finish(c) /\ UNCHANGED childVars)

FairLaunchSpec == LaunchSpec /\ LaunchFairness
----------------------------------------------------------------------------
\* The handshake keeps its word: from the line on, until something tells the
\* child to stop, the server takes calls at the address the line gave
\* (child.py: the line is written "once the host is SERVING").
HandshakeIsKept == (line /\ ~quit) => server = "listening"

\* A child that ended left nothing behind, and the parent reads end of file
\* after the one line: the descriptor is closed, the host at rest and its
\* socket file removed, on every way out (a failed start, a stop before the
\* handshake, a reader that went away).
EndedChildIsQuiet == child = "ended" => Quiet /\ stdout = "closed"

\* The end of stdin ends the child: also while it starts, and while it polls
\* for readiness.
EofEndsChild ==
  (stdin = "eof" /\ child # "idle") ~> child \in {"refused", "ended"}

\* A child whose host started writes the handshake, unless it is told to stop
\* or its reader goes away: the 10 ms poll sees SERVING once the probes no
\* longer time out.
StartedChildShakesHands ==
  <>[][~ProbeTimesOut]_launchVars
    => (child = "poll" ~> (line \/ quit \/ parent = "gone"))
=============================================================================
