-------------------------- MODULE ComponentService --------------------------
(***************************************************************************)
(* What a served component promises the coordinator that calls it and the  *)
(* prober that asks for its health, whatever threads, coroutines and pools *)
(* it is made of (angzarr_client/host.py, the module's docstring and       *)
(* stop's).  ComponentHost implements it.                                  *)
(***************************************************************************)
CONSTANTS Name, Call

VARIABLES
  phase,      \* "off", "up", "closing" or "over"
  serving,    \* the names reported SERVING
  calls,      \* what each caller has: nothing, a call, an answer or a loss
  working     \* the calls whose handlers run

vars == <<phase, serving, calls, working>>

OpenCalls == {c \in Call : calls[c] = "open"}

Init ==
  /\ phase = "off" /\ serving = {}
  /\ calls = [c \in Call |-> "none"] /\ working = {}

Open ==
  /\ phase = "off" /\ phase' = "up"
  /\ UNCHANGED <<serving, calls, working>>

\* A name turns SERVING, or back, only of a service that takes calls.
Report ==
  /\ phase = "up" /\ serving' \in SUBSET Name
  /\ UNCHANGED <<phase, calls, working>>

\* Nobody is still sent here when calls begin to be refused.
Close ==
  /\ phase = "up" /\ serving = {}
  /\ phase' = "closing"
  /\ UNCHANGED <<serving, calls, working>>

Take(c) ==
  /\ phase = "up" /\ calls[c] # "open" /\ c \notin working
  /\ calls' = [calls EXCEPT ![c] = "open"]
  /\ UNCHANGED <<phase, serving, working>>

Work(c) ==
  /\ phase \in {"up", "closing"}
  /\ calls[c] = "open" /\ c \notin working
  /\ working' = working \cup {c}
  /\ UNCHANGED <<phase, serving, calls>>

\* A call is answered by its handler, and by nothing else.
Answer(c) ==
  /\ calls[c] = "open" /\ c \in working
  /\ calls' = [calls EXCEPT ![c] = "answered"]
  /\ working' = working \ {c}
  /\ UNCHANGED <<phase, serving>>

\* A caller gives up, or, of a service that closes, is cut off; its handler
\* runs on.
Lose ==
  /\ \E gone \in SUBSET OpenCalls :
       /\ phase = "closing" \/ \E c \in Call : gone = {c}
       /\ calls' = [c \in Call |-> IF c \in gone THEN "lost" ELSE calls[c]]
  /\ UNCHANGED <<phase, serving, working>>

Release(c) ==
  /\ calls[c] = "lost" /\ c \in working
  /\ working' = working \ {c}
  /\ UNCHANGED <<phase, serving, calls>>

\* It is over with no call left and no handler, and for good.
End ==
  /\ phase \in {"off", "closing"} /\ OpenCalls = {} /\ working = {}
  /\ phase' = "over"
  /\ UNCHANGED <<serving, calls, working>>

Next ==
  \/ Open \/ Report \/ Close \/ Lose \/ End
  \/ \E c \in Call : Take(c) \/ Work(c) \/ Answer(c) \/ Release(c)

Spec == Init /\ [][Next]_vars
=============================================================================
