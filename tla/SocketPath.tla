----------------------------- MODULE SocketPath -----------------------------
(***************************************************************************)
(* Host processes that take turns on one Unix socket path: a deployment    *)
(* that replaces one, a child the runtime starts again.  A host started    *)
(* without an address takes the environment's (get_transport_config),      *)
(* which looks for a stale file and removes it; one that is given its      *)
(* address, as run_child gives every child's, binds at once, whatever file *)
(* is there.  It serves, and removes the file as it stops (host.py _start  *)
(* and _stop), or is killed on the way.                                    *)
(*                                                                         *)
(* The file names whose listener it leads to, dead or alive.  How gRPC     *)
(* itself treats the file is external: binding over one, it may replace it *)
(* or refuse; closing a listener, it may unlink the path.                  *)
(***************************************************************************)
CONSTANTS
  Process,     \* the processes, each started once
  Nobody       \* no process

VARIABLES
  file,        \* the process whose listener the path leads to, or Nobody
  phase,       \* where each process is
  addressed,   \* the processes whose host was given the address
  overlapped   \* history: the processes that ran beside another one

pathVars == <<file, phase, addressed, overlapped>>

Live == {"look", "remove", "bind", "serve", "find", "unlink"}
Running == {p \in Process : phase[p] \in Live}

PathInit ==
  /\ file = Nobody
  /\ phase = [p \in Process |-> "new"]
  /\ addressed = {} /\ overlapped = {}

To(p, where) == phase' = [phase EXCEPT ![p] = where]

\* A process that begins while others run.
Meets(p) == overlapped' = IF Running = {} THEN overlapped
                                          ELSE overlapped \cup Running \cup {p}

\* start(): the environment selects the socket.
StartSelected(p) ==
  /\ phase[p] = "new"
  /\ To(p, "look")
  /\ Meets(p)
  /\ UNCHANGED <<file, addressed>>

\* start(address): get_transport_config is not asked.
StartGiven(p) ==
  /\ phase[p] = "new"
  /\ To(p, "bind")
  /\ addressed' = addressed \cup {p}
  /\ Meets(p)
  /\ UNCHANGED file

\* Mutant: a stale file is left for the server to deal with.
LookOnly(p) ==
  /\ phase[p] = "look"
  /\ To(p, "bind")
  /\ UNCHANGED <<file, addressed, overlapped>>

\* if os.path.exists(socket_path)
Look(p) ==
  /\ phase[p] = "look"
  /\ To(p, IF file = Nobody THEN "bind" ELSE "remove")
  /\ UNCHANGED <<file, addressed, overlapped>>

\* os.remove: a file that is gone by now raises, out of start().
RemoveStale(p) ==
  /\ phase[p] = "remove"
  /\ To(p, IF file = Nobody THEN "failed" ELSE "bind")
  /\ file' = Nobody
  /\ UNCHANGED <<addressed, overlapped>>

\* add_insecure_port, and from then on calls.
Bind(p) ==
  /\ phase[p] = "bind"
  /\ \/ To(p, "serve") /\ file' = p
     \/ file # Nobody /\ To(p, "failed") /\ UNCHANGED file
  /\ UNCHANGED <<addressed, overlapped>>

\* server.stop.
StopServer(p) ==
  /\ phase[p] = "serve"
  /\ To(p, "find")
  /\ file' \in {file, Nobody}
  /\ UNCHANGED <<addressed, overlapped>>

\* os.path.exists in _stop: of any file at the path.
Find(p) ==
  /\ phase[p] = "find"
  /\ To(p, IF file = Nobody THEN "ended" ELSE "unlink")
  /\ UNCHANGED <<file, addressed, overlapped>>

\* os.remove in _stop: stop() raises if the file is gone by now.
Unlink(p) ==
  /\ phase[p] = "unlink"
  /\ To(p, IF file = Nobody THEN "failed" ELSE "ended")
  /\ file' = Nobody
  /\ UNCHANGED <<addressed, overlapped>>

\* SIGKILL: the file stays.
Crash(p) ==
  /\ p \in Running
  /\ To(p, "killed")
  /\ UNCHANGED <<file, addressed, overlapped>>

PathNext ==
  \/ \E p \in Process :
       \/ StartSelected(p) \/ StartGiven(p)
       \/ Look(p) \/ RemoveStale(p) \/ Bind(p)
       \/ StopServer(p) \/ Find(p) \/ Unlink(p) \/ Crash(p)
  \/ Running = {} /\ (\A p \in Process : phase[p] # "new") /\ UNCHANGED pathVars

PathSpec == PathInit /\ [][PathNext]_pathVars
----------------------------------------------------------------------------
\* One after the other, hosts hand the path over, killed or stopped: each
\* that ran beside no other one comes to serve, is found at the path for as
\* long as it serves, and leaves no file as it ends; a host that is given the
\* path may fail to bind, but only where another was killed: one that stops
\* leaves it nothing to fail on.  Beyond that only a host that runs beside
\* another can fail on the file, or lose its own to the other's stop.
TurnsKeepThePath ==
  \A p \in Process \ overlapped :
    /\ phase[p] = "failed" =>
         p \in addressed /\ \E q \in Process : phase[q] = "killed"
    /\ phase[p] = "serve" => file = p
    /\ phase[p] = "ended" => file # p
=============================================================================
