------------------------------ MODULE Clients ------------------------------
(***************************************************************************)
(* The coordinator clients of angzarr_client/client.py and the gRPC        *)
(* channels they share: who may close a channel, and what a call meets     *)
(* that another thread closes the channel under.  QueryClient and          *)
(* CommandHandlerClient treat channels alike; a DomainClient is one of     *)
(* each over one channel, or two composed ones and no channel of its own.  *)
(***************************************************************************)
EXTENDS FiniteSets

CONSTANTS
  Client,      \* the client objects
  Channel,     \* the gRPC channels
  Thread,      \* the application's threads
  Nothing      \* None

Kinds == {"query", "command"}

\* A client object: its kind, channel, _owns_channel, and a domain's parts.
Object == [kind : Kinds \cup {"domain"}, channel : Channel \cup {Nothing},
           owns : BOOLEAN, parts : [command : Client, query : Client] \cup {Nothing}]

ASSUME NothingAssumption ==
  /\ Nothing \notin Object \cup Channel \cup {"library", "caller"}
  /\ Nothing \notin [command : Client, query : Client]

VARIABLES
  channel,     \* unused, open or closed
  opener,      \* who created it: the library or the caller
  lent,        \* it was only ever handed over by from_channel
  client,      \* each client: its kind, channel, _owns_channel and parts
  done,        \* the clients the application has closed
  dropped,     \* the channels the caller itself has closed
  call         \* what each thread's call is doing

clientsVars == <<channel, opener, lent, client, done, dropped, call>>

Free(c)  == client[c] = Nothing
Live(c)  == client[c] # Nothing
Single(k, x, o) == [kind |-> k, channel |-> x, owns |-> o, parts |-> Nothing]

ClientsInit ==
  /\ channel = [x \in Channel |-> "unused"]
  /\ opener = [x \in Channel |-> Nothing] /\ lent = [x \in Channel |-> TRUE]
  /\ client = [c \in Client |-> Nothing]
  /\ done = {} /\ dropped = {}
  /\ call = [t \in Thread |-> [at |-> "idle"]]

----------------------------------------------------------------------------
(* Building clients. *)

\* _create_channel, by connect, or by the caller for itself.
Open(x, who) ==
  /\ channel[x] = "unused"
  /\ channel' = [channel EXCEPT ![x] = "open"]
  /\ opener' = [opener EXCEPT ![x] = who]

CallerOpens(x) ==
  /\ Open(x, "caller")
  /\ UNCHANGED <<lent, client, done, dropped, call>>

\* Mutant: a DomainClient's parts are built by the plain constructor, whose
\* owns_channel defaults to True.
DomainOwningParts(c, h, q, x, o) ==
  [client EXCEPT ![c] = [kind |-> "domain", channel |-> x, owns |-> o,
                         parts |-> [command |-> h, query |-> q]],
                 ![h] = Single("command", x, TRUE),
                 ![q] = Single("query", x, TRUE)]

\* A DomainClient over channel x, with the two clients it makes of it.
Domain(c, h, q, x, o) ==
  [client EXCEPT ![c] = [kind |-> "domain", channel |-> x, owns |-> o,
                         parts |-> [command |-> h, query |-> q]],
                 ![h] = Single("command", x, FALSE),
                 ![q] = Single("query", x, FALSE)]

\* The objects a constructor makes: one client, or a domain and its parts.
Made(x, o) ==
  \/ \E c \in Client, k \in Kinds :
       /\ Free(c)
       /\ client' = [client EXCEPT ![c] = Single(k, x, o)]
  \/ \E c, h, q \in Client :
       /\ Free(c) /\ Free(h) /\ Free(q)
       /\ Cardinality({c, h, q}) = 3
       /\ client' = Domain(c, h, q, x, o)

\* connect: a channel opened under the retry policy, owned by the client.
Connect(x) ==
  /\ Open(x, "library")
  /\ Made(x, TRUE)
  /\ UNCHANGED <<lent, done, dropped, call>>

\* The constructor itself, which takes the channel over unless told not to.
Construct(x) ==
  /\ channel[x] # "unused" /\ opener[x] = "caller"
  /\ Made(x, TRUE)
  /\ lent' = [lent EXCEPT ![x] = FALSE]
  /\ UNCHANGED <<channel, opener, done, dropped, call>>

FromChannel(x) ==
  /\ channel[x] # "unused" /\ opener[x] = "caller"
  /\ Made(x, FALSE)
  /\ UNCHANGED <<channel, opener, lent, done, dropped, call>>

\* from_clients: the parts keep their channels; the whole has none.
FromClients(c, h, q) ==
  /\ Free(c) /\ Live(h) /\ Live(q)
  /\ client[h].kind = "command" /\ client[q].kind = "query"
  /\ client' = [client EXCEPT ![c] =
       [kind |-> "domain", channel |-> Nothing, owns |-> FALSE,
        parts |-> [command |-> h, query |-> q]]]
  /\ UNCHANGED <<channel, opener, lent, done, dropped, call>>

----------------------------------------------------------------------------
(* Closing. *)

\* close, and __exit__: of a channel already closed, a second close is none.
Close(c) ==
  /\ Live(c)
  /\ channel' = IF client[c].owns
                  THEN [channel EXCEPT ![client[c].channel] = "closed"]
                  ELSE channel
  /\ done' = done \cup {c}
  /\ UNCHANGED <<opener, lent, client, dropped, call>>

CallerCloses(x) ==
  /\ channel[x] = "open" /\ opener[x] = "caller"
  /\ channel' = [channel EXCEPT ![x] = "closed"]
  /\ dropped' = dropped \cup {x}
  /\ UNCHANGED <<opener, lent, client, done, call>>

----------------------------------------------------------------------------
(* Calls: _invoke. *)

\* The channel an operation of a client goes through: a DomainClient
\* delegates to its part.
Route(c, op) ==
  IF client[c].kind = "domain" THEN client[client[c].parts[op]].channel
                               ELSE client[c].channel

Operations(c) == IF client[c].kind = "domain" THEN Kinds ELSE {client[c].kind}

\* A call over channel x has ended, cut if x is closed by now.
End(t, how, x) ==
  call' = [call EXCEPT ![t] = [at |-> "ended", how |-> how, on |-> x,
                               cut |-> channel[x] = "closed"]]

\* What _invoke makes of what the stub raised.
Mapped(raised) ==
  IF raised = "rpc_error" THEN "grpc_error" ELSE "transport_error"

\* The stub is called: a closed channel refuses at once.
Invoke(t, c, op) ==
  /\ call[t].at = "idle" /\ Live(c) /\ op \in Operations(c)
  /\ LET x == Route(c, op)
     IN  IF channel[x] = "closed"
           THEN End(t, Mapped("closed"), x)
           ELSE \E stream \in {op = "query", FALSE} :
                  call' = [call EXCEPT ![t] =
                             [at |-> IF stream THEN "drain" ELSE "wait",
                              on |-> x]]
  /\ UNCHANGED <<channel, opener, lent, client, done, dropped>>

InCall(t) == call[t].at \in {"wait", "drain"}

\* The server answers, or ends the stream, over a channel still open.
Answered(t) ==
  /\ InCall(t) /\ channel[call[t].on] = "open"
  /\ End(t, "ok", call[t].on)
  /\ UNCHANGED <<channel, opener, lent, client, done, dropped>>

\* A status other than OK, a deadline, a lost connection; closing a channel
\* cancels what is in flight on it.
CallBreaks(t) ==
  /\ InCall(t)
  /\ End(t, Mapped("rpc_error"), call[t].on)
  /\ UNCHANGED <<channel, opener, lent, client, done, dropped>>

\* The caller has its answer, and may call again.
Return(t) ==
  /\ call[t].at = "ended"
  /\ call' = [call EXCEPT ![t] = [at |-> "idle"]]
  /\ UNCHANGED <<channel, opener, lent, client, done, dropped>>

ClientsNext ==
  \/ \E x \in Channel : CallerOpens(x) \/ Connect(x) \/ Construct(x)
                          \/ FromChannel(x) \/ CallerCloses(x)
  \/ \E c, h, q \in Client : FromClients(c, h, q)
  \/ \E c \in Client : Close(c)
  \/ \E t \in Thread : \/ \E c \in Client, op \in Kinds : Invoke(t, c, op)
                       \/ Answered(t) \/ CallBreaks(t) \/ Return(t)

ClientsSpec == ClientsInit /\ [][ClientsNext]_clientsVars
----------------------------------------------------------------------------
\* A channel is closed by whom it belongs to, and by nobody else.  One the
\* caller only lent (from_channel, of a client or of a domain) is closed by
\* the caller alone, whatever clients over it, or parts of a domain over it,
\* are closed ("the caller retains ownership").  One that connect opened has
\* one owner, the client connect returned, and is open until that is closed,
\* and no longer: closing a part of a connected DomainClient leaves the other
\* part and the whole usable, and nothing leaks.
ChannelsCloseWithTheirOwner ==
  \A x \in Channel :
    LET owners == {c \in Client : Live(c) /\ client[c].owns
                                          /\ client[c].channel = x}
    IN  /\ (opener[x] = "caller" /\ lent[x] /\ channel[x] = "closed") => x \in dropped
        /\ opener[x] = "library" =>
             /\ Cardinality(owners) = 1
             /\ channel[x] = "closed" <=> owners \subseteq done

\* A client the application asked for, and not one of the two that a
\* DomainClient makes for itself over its own channel.
Whole(c) ==
  \A d \in Client : (Live(d) /\ client[d].kind = "domain" /\ client[d].channel # Nothing)
                      => c \notin {client[d].parts.command, client[d].parts.query}

\* A call that finds its channel closed, when it is made or while it is in
\* flight, was cut by somebody with a right to: the caller closed the channel,
\* or a client that owns it, made as such and handed to the application,
\* was closed.  No close of a lent client, of a composed one or of a part that
\* a DomainClient made cuts a call of another client (close, _owns_channel).
OnlyOwnersCutCalls ==
  \A t \in Thread :
    (call[t].at = "ended" /\ call[t].cut) =>
      \/ call[t].on \in dropped
      \/ \E c \in done : /\ client[c].owns /\ client[c].channel = call[t].on
                         /\ Whole(c)
=============================================================================
