# A TLA+ verification of angzarr-client (Python)

`angzarr-client` is the Python home of the Angzarr framework. A business
process builds a *dispatch table* for one component (an aggregate, a process
manager, a policy or a projector), gives it to a `ComponentHost`, and the
host serves it over gRPC to a coordinator, which owns persistence, admission
and delivery. This directory holds TLA+ modules translated from that code,
the TLC configurations that check them on small instances, and TLAPS proofs
of the properties that matter most. `PROJECT.json` maps every definition to
the lines it models, and lists the runs, the mutants, the hazards, the
findings and the theorems.

## 1. Inventory

| Component | State it keeps | Operations | Hard behaviour | Module |
|---|---|---|---|---|
| `ComponentHost` lifecycle (`host.py`) | `_loop`, `_thread`, `_server`, `_executor`, `_supervisor`, `_stopped`, the statuses published | `run`, `start`, `stop`, `_start`, `_stop`, the servicers | an application thread, an event loop, a worker pool and clients, interleaved; failed binds; signals; several threads in `stop()`; handlers that stop the host or exit | `ComponentHost`, `HostCallers`, `ComponentService` |
| readiness supervisor (`readiness.py`) | one task, the status last published | probe, time out, publish, sleep, be cancelled | a cancel racing the end of a probe | `ComponentHost` |
| child launch (`child.py`) | the stop event, stdin, stdout, a host | `run_child`, `_watch_stdin`, the handshake line | the parent going away at any point of the start; a line read out of other output | `ChildLaunch`, `Handshake` |
| registration (`host.py`, `router.py`) | the claimed name, the kind service, the descriptor, remembered refusals | `add_*`, `add_upcaster`, `add_service`, `start`'s refusals, `Router._register`, `close`, `with_rules_version` | an add that fails half way, a second component, a router or a table changed behind the host's back | `HostRegistration` |
| aggregate and process-manager dispatch (`router/aggregate.py`, `router/context.py`, `router/errors.py`) | none between calls: one handling's states, pages, emitted events | `handle`, `fold`, `start_state`, `_decide`, `_ingest` | stale commands, old snapshots, events that do not fold, handlers that change the state they are handed | `AggregateDispatch` |
| policy and projector dispatch (`router/policy.py`, `router/projector.py`, `router/context.py`) | none between calls; the page each thread is handling | `handle`, `refused`, `handling` | a book delivered twice at once, handlers that raise in its middle, threads used again | `EventDelivery` |
| compensation (`compensation.py`) | the steps registered | `step`, `rollback`, `reply`, `undo_refused` | replies after the rollback; refused undos | `Compensation` |
| coordinator clients (`client.py`) | a channel and whether it is owned | `connect`, `from_*`, RPCs, `close` | a channel shared by several clients, or closed under a call | `Clients` |
| builders (`builder.py`) | the fields set so far | setters, `build`, `execute*`, `get_*` | long chains of setters, some refused | `QueryBuilder`, `QuerySelection`, `CommandBuilder` |
| retry (`retry.py`) | attempt, last error | `execute` | limits: 0 attempts, the last attempt, the longest delay | `Retry` |
| descriptor (`descriptor.py`) | none | `describe` | many rules broken at once; two later parties that refuse | `Descriptor` |
| transport configuration (`server.py`, with `host.py`'s `_stop`) | a socket file | `get_transport_config`, the removal at the end | processes in turn, or at once, on one socket path; a process killed; a host that is given its address and looks for no file | `SocketPath` |
| errors (`router/errors.py`, `errors.py`) | none | raising, coding, `status`, reading a status back, the predicates | a failure passed on by several components, a trailer that is lost | `ErrorPath` |
| validation (`validation.py`) | none | `require_*` | which values are refused, under which status | `ErrorPath` |
| page helpers (`helpers.py`, `wrappers.py`) | none | `decode_event`, `decode_typed`, `try_unpack`, `unpack` | two comparisons of one type | `PageDecoding` |
| diagnostics, other accessors, testing, build scripts | none | conversions of messages and text | none | not modelled |

How they interact. The application's thread calls `start`/`stop`/`run`; each
posts a coroutine to the host's private loop and waits. On the loop run
`_start`, `_stop`, the readiness supervisor and one coroutine per call; a
call's dispatch is handed to the worker pool, where it calls the router, which
calls the dispatch table. `run_child` drives a host and polls its health; a
daemon thread watches stdin and sets the same event the signal handlers set.
Dispatch tables keep nothing between calls: what the coordinator appends of
one answer comes back as the pages and the snapshot of a later call.
Compensation is a helper inside a process manager's handlers: what it answers
is journalled by the process manager, and read back from that journal.

What makes each part correct:

- host: a health status is honest; `stop()` ends, and leaves nothing running;
  no call is lost in the pool or answered by a router already emptied;
- child: the handshake line is true when read; the end of stdin always ends
  the child;
- registration: a host that runs serves exactly the one component it was
  given, under its service, with the version it says, as long as the
  application leaves its table and its router alone;
- aggregate dispatch: the answer's state is what a replay will compute, if
  business code leaves the state it is handed alone; no event that cannot be
  folded gets into a stream; a conflict report is about the right window;
- compensation: each done step is undone exactly once, newest first, and a
  refused undo is blamed on its own step;
- policy and projector dispatch: an answer is of its whole book or of none of
  it, and a handler always reads its own page;
- descriptors: none is built that the coordinator or the host would refuse,
  and the reason for refusing is the one they would give;
- clients: a channel is closed by its one owner and by nobody else, and no
  client's close cuts the calls of another that it only shares one with;
- builders: what is built is what was given last;
- retry: no attempt too many, none skipped, and the last error raised;
- socket path: hosts that take turns each leave it free, and make it free
  where they look for a stale file;
- errors: the caller of a failed call sees the status that was meant, or
  INTERNAL, and the reason that was given, however far it came;
- page helpers: a page is read as its own type or not at all.

## 2. Modules and how they correspond to the code

### ComponentHost

One action per stretch of code between two points where another thread or
coroutine can run. `ctl`, `inRun`, `stopping` and `outcome` are the
application's thread; `startPc` and `stopPc` are the program counters of the
coroutines `_start` and `_stop`; `sup*` is the supervisor's task; `health` is
what the health servicer last answered under each name; `call` and `queue`
are the calls and the pool's work queue.

- `start()` creates the loop (`StartBegin`), then `_start` adds the services
  with every name NOT_SERVING, binds, listens and launches the supervisor
  (`StartServices` .. `StartLaunch`). A failure makes `start()` take the loop
  down again and raise (`StartRaises`).
- The supervisor probes, publishes one name per step (each publish is an
  `await`), and sleeps. `_stop` cancels it, waits for it, publishes
  NOT_SERVING name by name, stops the server with its grace period, shuts the
  pool down *waiting*, and removes the socket.
- A client that goes away cancels its handler's coroutine, never the
  dispatch: a running one becomes an `orphan` that still holds a worker. A
  dispatch not yet taken is dropped from the queue.
- Two constants describe the environment. `WaitForLosesCancel` is the
  `asyncio.wait_for` of Python before 3.12, which can lose a cancellation
  when the awaited task has just ended; `RestartsAfterStop` is an application
  that calls `start()` after `stop()`.

gRPC's drain and the client that gives up are external. Two threads inside
`stop()` at once are behaviours of `HostCallers`.

### ComponentService

What the host promises to its coordinator and to a prober, with no thread,
coroutine or pool in it: a name is SERVING only while calls are taken, calls
begin to be refused when no name is, an answer comes from the call's handler
and from nothing else, and the service is over only with no call and no
handler left. `ComponentHost` implements it (`KeepsItsPromise`): the phase is
read from `server` and from what is left of the host, `serving` from
`health`, `calls` and `working` from `call`.

### HostCallers

A host that serves, with several threads in `stop()`: the application's and
the workers whose handlers call it. `pc` is each thread's place in `stop()`,
cut between any two reads of a field another thread writes (`_stopped`,
`_loop`, `_thread`, the loop's own state), and `co` the coroutine `_stop` that
each has scheduled on the one loop. A handler that waits in `stop()` is waited
for by the pool's shutdown, which holds the loop's thread: a deadlock that the
model has, as the code does (so this run does not check deadlock), and that
`LoneStopEnds` names. A handler may also end in SystemExit or
KeyboardInterrupt, which `except Exception` does not stop; it ends
`run_forever` (`ExitEndsLoop`). The join's limit of 30 seconds is taken as
never met.

### SocketPath

Processes, each with one host, on one Unix socket path. Looking for a file and
removing it are two steps, at the start (`Look`, `RemoveStale`) and at the end
(`Find`, `Unlink`), and a process may be killed between any two. Only a host
whose address the environment gives (`StartSelected`) looks for a file at its
start: one that is given its address (`StartGiven`), as `run_child` gives
every child's, binds at once, also over a killed host's file. What gRPC
does to the file is external and left open: it may bind over one or refuse,
and may unlink its own on closing or leave it. `overlapped` is a ghost: the
processes that ran beside another one, of which nothing is promised.

### ChildLaunch

EXTENDS `ComponentHost` and adds `run_child` as the application's thread: it
starts the host, polls the health, writes one line, waits for the stop event,
and stops the host and closes stdout on every way out. The stdin watcher, the
signal handlers and the parent (reading, calling, closing stdin, exiting) are
its other actors.

### Handshake

The line itself, as the sequence of the pieces that matter: the protocol's
words, spaces, line breaks, a piece that is no UTF-8. A launcher may print
anything before it; `Parse` is `parse_handshake` (what is no handshake is
skipped, a malformed one refused), `Body` the removal of the line's ending.
`Announceable` is what the property has to suppose of a path: `run_child`
refuses one that is not UTF-8, but neither one with a line break nor one that
ends in a carriage return, which the parent takes for part of the line ending.

### HostRegistration

Sequential: the application calls the registering methods in any order, any
of them may fail, and some leave something remembered that `start()` refuses.
Nothing in the code closes a running host to them, so every one of them may
also come after `start()`; `serving` is what the server was built with. The
router and the tables are the application's as well: it may close the router,
register on it, or give a table another version at any time. Three ghosts:
`given`, the components whose `add_*` returned before `start()`; `meddled`,
whether the version or the router was changed once the host had registered its
component; and `told`, how the last call ended.
`RunningHostIsConsistent` and `NothingSilentlyDropped` say what holds whatever
was called, and which of the two changes is the one excuse of each part;
`DescribedVersionIsAnswered` is what the repository's README says without an
excuse, and finding 5 refutes it.

### AggregateDispatch

`Answer` is the whole of `AggregateDispatch.handle` as one operator: the
starting state, the pages seen before the command's expected sequence, the
conflict window, the decision, the emitted events with the sequences and
metas of decide time, and the folded answer or its failure code. Business
code is a parameter: `Apply`, `Decisions`,
`Changed` (the conflict units that differ between two states), `HasApplier`.
The coordinator is external and modelled from how the code uses it: it
delivers a snapshot no newer than the expected sequence with every page after
it; it appends an answer only when it was decided at the head, or its
conflict mode accepts the report; it may keep the answer's state as a
snapshot; it may lose an answer. Process managers share this code
(`ProcessManagerDispatch` is a subclass with another kind).

The handler is handed the very state that the emitted events are then folded
on and the snapshot is packed from (`aggregate.py:169`, 179, 184). Nothing
copies it first, and nothing in the repository tells business code to leave it
alone. `Left(s)` is what a handler may leave of a state `s`, in TLC and in the
proofs; a handler that changes it gives a snapshot that is no replay, so the
properties that speak of states say of which ones: `kept`, on a snapshot, an
answer and a commit, is that no handler on the way to it changed the state it
was handed, and `untouched` is the same of all that was committed.

### Compensation

The journal of one process manager, the steps registered with it, the
commands and undos in flight. The class's answers are operators of the
journal; the process manager records them (external), and destinations reply,
refuse, or refuse an undo that is a command.

### EventDelivery

One dispatch of a policy or a projector, page by page, on a worker thread:
it begins (`Begins`), skips a page with no handler, or enters one (`Handles`),
and the handler returns or raises. `current` is `_CURRENT_PAGE` of each
thread, and `tokens` what the `with handling(...)` blocks now open on it will
reset it to; `Nests` is a handler that drives a dispatch table itself. A
raising handler leaves through all of its thread's blocks at once
(`Escapes`). A policy's reactions and a projector's folds are both `answer`,
a list of page and output: the projection a fold makes is what the handlers
were shown, in order. The coordinator is external: it delivers any contiguous
pages of the stream, any number of times and while an earlier delivery still
runs, and hands a policy the refusals of its commands. `returned` is a ghost.

### PageDecoding

A reader that goes through a book with one of the four decoders. A type URL
has a name, with or without a slash; the helpers compare the name, and
protobuf's `Is` and `Unpack` (external) the name and the slash, and may be
asked for a class of another name than the helper was. Bytes are a content or
corrupt.

### ErrorPath

A failure's way: given by business code (`Rejects`, `Validates`, `Refuses`,
`ReReads`, `HasBug`, `Escapes`), by the router (`RouterFails`) or by the link
(`LinkFails`, `ChannelIsClosed`); coded by `escaped`, by a fold's failure or
by neither; put on the wire as gRPC's code, its message and the trailer; read
back as a `GRPCError` with or without the trailer (`Arrives`); and passed on
by a caller that is a handler itself and chooses by the client's predicates
(`PassesOn`; what such a handler does is external). `Immediate` and `Bug` take their
key as a parameter that has a name, so that an arg of that name is a TypeError
and the failure a panic (`Clash`). Arguments are sets of
names and values, a name the sequence of its dotted segments, since the one
thing that can go wrong with them is that two get one name. `Helpers` is the
whole of validation.py: what each helper refuses, its key, its status.

### Clients

`client` holds every client object by its channel, `_owns_channel` and, for a
`DomainClient`, its two parts. The actions are the constructors (`Connect`,
`Construct`, `FromChannel`, `FromClients`; each of the first three makes a
`QueryClient`, a `CommandHandlerClient` or a `DomainClient` with its parts),
`Close`, and a call in three stretches: the stub is called (`Invoke`), then
the answer or the failure arrives (`Answered`, `CallBreaks`), with any other
thread's steps between. grpc's channel is external: it refuses an RPC once
closed, with the ValueError that `client.py:119-139` catches and names in
`_CLOSED_CHANNEL_MESSAGE` (assumed as that code says, not read from grpc), and closing it
breaks the calls in flight. A call that ends records its channel and whether
that is closed by then (`cut`): the RPC was refused or cancelled for it.
`OnlyOwnersCutCalls` says who can have done that. That `_invoke` maps what was
raised to one error or another is a step of the model (`Mapped`) and no
property. `from_stub`, which the tests use to make a client
without a channel, is left out. `lent`, `done`, `dropped` and `cut` are ghosts.

### QueryBuilder, QuerySelection, CommandBuilder

`QueryBuilder` keeps the code's fields, `_range` beside `_temporal` and
`_root` beside `_correlation_id`; `QuerySelection` is the "single selection
slot" that the comment on those fields promises, and the same for the target.
`SingleSlot` says that the first implements the second, under the mapping
that reads the fields, and a built query, as `build` and a server do: the
range before the temporal query. A setter that raises is `Refuses`; it must leave
every slot as it was. In `CommandBuilder` a setter is a record of the fields
it gives (`Set`), and `calls` is a ghost, the history the built book is
compared with, each field of it and the whole of its handling, with the
expected sequence and the resolution. `MCClientLibrary` checks both, with `Descriptor` and `Clients`:
a behaviour is of one of the four.

### Descriptor

`describe` is one step from a dispatch table and the keyword arguments to a
descriptor or to the code of a `ConfigurationError`; `Refusal` is `_refusal`.
Every kind of table, with every combination of its parts and of the
arguments, is an initial state. `NoRefusableDescriptor` compares the outcome
with the module docstring's list of rules (a resolution that is UNSPECIFIED,
which raises before any of them is looked at, aside) and asks that the host's
own reason is given only where no rule is broken; `HostTakesDescriptor` with what
`ComponentHost._add` looks at. Component names, and the details a refusal
carries, are left out.

### Retry

`execute`'s loop, cut where something may raise: the operation (`Fails`,
`Succeeds`), the callback (`Announces`, `AnnouncementRaises`), the delay
(`Waits`, `DelayOverflows`), and an interrupt at any of them. Delays are
doubled, so that a jittered one is a whole number. `Exponents` stands for the
1024 powers of two a float holds: past them, with a max_attempts above 1025,
the delay overflows before it is capped, and `execute` raises OverflowError
with attempts left. With a max_attempts of 0 it raises a TypeError, for the
`None` it holds in place of an error. The model does both.

## 3. Runs

A behaviour of `MCParts`, `MCDispatch` and `MCClientLibrary` is one of one of
the modules they EXTEND, chosen in the initial state and never left: the modules share no state, and a run checks
each on its own. They EXTEND them so that what a run checks is the very
definition that section 4 proves.

| Run | Bounds | States | Shows |
|---|---|---|---|
| `host_safety` | 3 calls, 2 workers, 2 names | 72607 | ServingOnlyWhileListening, StopLeavesQuiet, KeepsItsPromise |
| `host_liveness` | 2 calls, 1 worker, 2 names | 34404 | QueuedCallsSettle, StartedHostServes, StopCompletes, SignalEndsRun |
| `host_lost_cancel` | 1 call | | violation of StopCompletes with `WaitForLosesCancel` |
| `host_restart` | 1 call | | violation of StopLeavesQuiet with `RestartsAfterStop` |
| `host_callers` | 2 application threads, 2 workers; handlers stop and exit | 8901 | ReturnedStopIsAtRest, LoneStopEnds |
| `host_exit` | 1 thread, 1 worker | | violation of EscapesAreAnswered |
| `child_launch` | 1 call, 1 worker, 2 names | 4018 | HandshakeIsKept, EndedChildIsQuiet, EofEndsChild, StartedChildShakesHands |
| `parts`, a host's registration | 2 tables, 3 versions, 1 component refused, 1 service | 111735 in all | RunningHostIsConsistent, NothingSilentlyDropped |
| `parts`, a socket path | 3 processes | | TurnsKeepThePath |
| `parts`, a handshake | paths of 1 to 3 pieces, at most 2 other lines | | AnnouncedSocketIsRead |
| `parts`, retries | 0 to 4 attempts, 2 errors, delays 2 to 3, 2 exponents | | NeverTriedTooOften, RaisesTheLast, RetriesAreAnnouncedAndSpaced |
| `parts`, compensation | 3 steps, 2 of them undone by commands | | DoneStepsAreUndoneOnce, RollbackIsNewestFirst, RefusalBlamesItsStep |
| `parts`, an error | 2 components passed after the first | | ReasonSurvives, StatusIsGivenOrInternal |
| `late_version` | 2 tables, 3 versions | | violation of DescribedVersionIsAnswered |
| `dispatch`, an aggregate | streams of at most 3 events, 2 senders, 2 conflict units, handlers that may set a unit by hand | 247709 in all | SnapshotIsReplay, HistoryFolds, CommutativeCommitsAreDisjoint, ConflictWindowIsComplete |
| `dispatch`, events | streams of at most 3 events, 2 deliveries at once, 2 threads, 1 nested dispatch | | HandlerSeesItsPage, AnswerIsItsBook |
| `dispatch`, a reader | books of at most 2 pages, 2 types, each also without its slash | | ReaderTakesItsPages |
| `compensation_shared_target` | 2 steps with one undo target | | violation of RefusalBlamesItsStep |
| `client_library`, a query | 2 sequences, 1 instant, 2 editions | 347549 in all | NamesOneTarget, SingleSlot |
| `client_library`, a command | 3 setter calls, 2 values a field | | BookIsWhatWasGiven |
| `client_library`, a descriptor | 2 domains, 3 versions, 2 resolutions beside the base | | NoRefusableDescriptor, HostTakesDescriptor |
| `client_library`, clients | 4 client objects, 2 channels, 1 calling thread | | ChannelsCloseWithTheirOwner, OnlyOwnersCutCalls |

Why the bounds suffice. Three calls on two workers are one running, one
orphaned and one queued at once; two names are the least at which a publish
loop can be interrupted in the middle. Two application threads and two workers
are two callers of one kind at once, and one of each kind beside a third.
Two tables of two kinds are a component and one refused, before or after
`start()`; one refused is as many as `start()` looks for. Three processes are two
at once and one that comes after both, or one that follows a killed one that
followed another. Three events
are one before the snapshot, one in the conflict window and one emitted. Three
steps are two done and one still in flight when the rollback is decided, one
of them with an undo nobody can refuse. Two hops are a failure passed on by a
component that was passed it itself: a cause under a cause under a cause. Four
clients are a domain with its parts and one more client of its channel; the
thread that calls is interleaved with closes by all others. Three setter calls
give a field a value, another field one, and the first another. Two deliveries
of three pages are a book under way twice at once, with a page handled before
the one that fails and one after. Three attempts run out after two waits, the
second at the cap of the delay; four meet the overflow. A path of three pieces
has a space or a line break in its middle and at its end. Where a theorem
covers the property the bound no longer matters.

Deadlock is checked in every run but the two of `HostCallers`, whose host does
deadlock when a handler stops it. Type invariants are conjuncts of the
inductive invariants of section 4, and not checked again by the runs.

### Fairness

The application's thread, the loop's ready coroutines, free workers and
handlers that run are weakly fair: the event loop and the executor are FIFO,
and a handler that never returns makes every `stop()` wait by design. No
fairness is put on calls, signals, restarts, clients that go away, or the
timeout of a probe. `ProbeAnswers` is strongly fair in `host_liveness`: the
probe reads one flag in memory, so it does not lose to its timeout on every
tick for ever. `child_launch` states the same as the premise of
StartedChildShakesHands instead. In `host_callers` the threads in `stop()`,
the loop's thread and the handlers that run are weakly fair, and nobody has to
call `stop()` or be called. The other modules state no
liveness: nothing in them has to happen unless a caller wants it.

### Findings

1. **Lost cancel** (`readiness.py:143`). With Python 3.10 or 3.11, a cancel
   that arrives when the probe's task is done is swallowed by `wait_for`;
   the supervisor continues and `_stop` waits for it for ever.
2. **Restart** (`host.py:445`). `start()` after `stop()` is accepted, and
   the next `stop()` returns at once over a host that serves.
3. **Shared undo target** (`compensation.py:170`). Of two steps whose undos
   become the same command, the first registered is blamed for both.
4. **A handler that exits** (`router/context.py:252`, `host.py:161`).
   SystemExit and KeyboardInterrupt are no `Exception`: raised in a handler
   they are not answered as the panic that router/errors.py:218 says any
   escape is, but travel through the worker's future out of `run_forever`. The
   loop's thread ends, with every call unanswered, and a later `stop()` waits
   for a coroutine that nothing runs.
5. **A late version** (`router/aggregate.py:134`, `host.py:331`). The
   descriptor's version "must be the version every answer reports"
   (the repository's `README.md:128`); the host compares the two once, as it
   registers the table, and `with_rules_version` after that changes what is
   answered and not what is described.

## 4. Proofs

TLAPS checks, for every value of the constants that meets the modules'
assumptions, every invariant the passing runs check and their two refinements. What stays with TLC is liveness (see the end of this section).

### Induction

The library's induction theorems take a predicate as a parameter, which none
of the provers here can instantiate. `Induction` states the principle over a
set instead, with no operator for a parameter: `LeastElement` (every non-empty
set of naturals has a least element) from the library's `WFMin`, and from it
`NatInduct` (a set with 0, and with every number the next one, has them all).
With it a recursive *function* can be reasoned about: that a function
with its equations exists is shown by `NatInduct` over the set of lengths at
which one does, hence the `CHOOSE` behind its definition satisfies them, and
what it computes is shown by a second induction. The fold of pages
(`FoldExists`, `FoldStep`), the powers of two (`PowerIsNat`), the undos due
(`DueExists`), the last setter of a field (`LastPlace`) and the first line
break of a text (`FirstExists`) are done so.

### HostProofs: ComponentHost, ChildLaunch

`HostInv` is the conjunction
of `TypeOK`, `PhaseInv` (the application's thread waits in `start` or `stop`
exactly while the coroutine has something left), `StartInv` (what exists at
each point of `_start`, and that a host past it listens), `StopInv` (what is
gone at each point of `_stop`; while it publishes, the names below `stopName`
are not SERVING) and `CloseInv` (the router is closed only by a `stop()`).
None of the properties is inductive alone: that a status is SERVING only
while the server listens needs that the supervisor is gone before `_stop`
publishes, which needs the phase of both coroutines. From `HostInv` follow
`TypeCorrect`, `ServingMeansListening`, `StoppedMeansQuiet` and
`ComponentIsFound` (both for a host not restarted after a stop), and
`NoServingOnceCancelled` (where `wait_for` loses no cancel).
`HostKeepsItsPromise` is the refinement of `ComponentService`, for a host not
restarted after a stop: each action maps to a step of the service or to a
stutter, and `HostInv` supplies what the service's guards ask (that nothing is
SERVING when the server begins to refuse calls, and that nothing runs when the
last of the host is gone).

A step of the launch is a step of the host, or leaves it alone, or is the
parent's exit, so that `HostInv` carries over to `ChildLaunch`. `LaunchInv`
adds where the host's caller is at each place of the child's main thread, and
that the line is written once, by a child that serves until it is told to
stop. `HandshakeKeepsItsWord` and `EndedMeansQuiet` follow.

### HostCallersProofs: HostCallers

`CallerInv` says of each thing that is gone what went
before it (the server and the handlers before the pool, the pool before the
loop, the loop before the router, and the flag last), and of each place in
`stop()`, on every thread, what that thread knows to be gone. None of it
depends on who is in `stop()` with whom, which is why `ReturnedMeansAtRest`
holds for any number of callers and workers: a thread that returns has either
done all of it or seen the flag, which is set last.

### RegistrationProofs: HostRegistration, SocketPath, Handshake

`RegistrationInv` adds to the types that a host
with a kind service has a component, described as its kind needs it, that the
router and the stamped version are the registered ones or `meddled` says which
is not; that what the server was built with is what a host with a component
has; and that every component taken before `start()` is the registered one
unless one is remembered as refused. `StampIsDescribed` is the step that makes
the version fit: `_add` compares the descriptor with what the table *will*
stamp, and `_versioned` then sets that. `RunningIsConsistent` and
`NoComponentIsDropped` follow.

`PathInv` adds to the types that two processes that run
at once are both in `overlapped`, that a file at the path is of a process that
serves, stops or was killed, and what a process that never met another
knows of the file at each of its steps: one that was given its address may
still find a killed one's as it binds. `TurnsHandThePathOver` follows, for
any set of processes of which none is `Nobody` (hypothesis `Named`).

`LineInv` says what is in the pipe: while nothing is announced, whole lines of
the launcher's and a parent that still reads; once the child has announced,
such lines and then its own, or a parent connected to its path. `FirstOfNoise`
is why one read keeps it: the first LF of such a text ends the launcher's
first line if there is one. `LineIsRead` is the other half, that `Parse` of
`HandshakeLine` gives back the address, piece by piece: the line's only LF is
its last piece, what is before it does not end in a carriage return, and its
words are cut at the first two spaces whatever spaces the path has.
`AnnouncedIsRead` follows for every path and any lines of the launcher's.
`NoiseAssumption` says of those that none has a line break in it or is itself
a handshake: one that is would be read as the child's, and no parser could
tell them apart. `PathAssumption`: a child is given an absolute path.

### AggregateDispatchProofs: AggregateDispatch

Everything rests on `FoldConcat`: the fold of two stretches of pages is the
fold of the second on what the first folds to, and a failure anywhere is a
failure of the whole. Hence the state a request starts from is the replay of
the log up to its position, whichever snapshot it was delivered with
(`RequestReplays`), the pages a decision emits fold at decide time as they
will replay (`PersistedPages`), and `AnswerIsRight`. `IInv` joins the types,
that every snapshot and every answer on its way that is `kept` is the replay of
what it stands for, that the whole log replays while it is `untouched`, and the two properties of the last commit, which are inductive only
together with these. `SnapshotReplays`, `HistoryAlwaysFolds`,
`CommutativeIsSafe` and `WindowIsComplete` are its conjuncts. Business code
(`Apply`, `Decisions`, `Changed`, `HasApplier`) is any function at all, and
the stream and the number of senders have any size. `LeftAssumption` asks of
`Left` only that a handler may leave the state alone, and leaves a state: what
is proved is about the states no handler changed, and a changed one spoils
nothing that was made of a replay. `WindowIsComplete` needs none of it: the
window is of pages.

### DeliveryProofs: EventDelivery, PageDecoding

`DeliveryInv`: a call's answer so far is one output for each page behind
`next` that has a handler (`CallsFit`); a thread runs one call at a time
(`OneCallPerThread`); a thread in a handler has one token for each block it is
in, the first of which resets to no page (`HandlersKnow`), and any other has
none (`OthersHaveNone`). `OneCallPerThread` is what keeps a step of one call
from disturbing another's page, and the first token is why `Escapes`, which
leaves all blocks at once, leaves no page behind. `PageIsKnown` and
`AnswerIsOfItsBook` follow for any number of calls and threads and any depth
of nesting. `ReaderInv` says what was read of each page behind `next`;
`PagesAreTaken` follows for any book.

### FailureProofs: Retry, ErrorPath, Compensation

`RetryInv` counts the failures behind each place in the loop;
`AttemptsAreBounded` and `LastErrorIsRaised` follow, for every `max_attempts`,
from the assumption that the operation's errors are none of `execute`'s own.
`RetriesAreSpaced` adds the lists of waits and announcements: how long each
is at each place, and that a wait is within a factor of two of its backoff.

What a caller sees says nothing of the next component's
failure unless the wire is known too: `StatusInv` says of both that the status
is the one first given or INTERNAL, and that the trailer repeats it. The steps
rest on lemmas about the operators: what is answered for an exception travels
under its own status or INTERNAL (`AnswerStatus`), a status is read back as it
was sent (`ReadBackAgrees`), and a handler passes on what it saw or INTERNAL
(`PassedOnFair`). `StatusIsNeverInvented` follows for every number of hops, all keys
and all arguments; it supposes that no status is `Nothing` (`NamedStatuses`).

`ReasonInv` says of the wire and of what is seen that the args are a map, one
value a name, and that the key and args first given are the code and its args,
or stand under one name in them. `FlattenIsMap` and `FlattenCarries` are the core: args put under
`cause` keep apart from one another because a prefix is injective
(`BelowCause`), and apart from the cause's own key, and what already stood
under a name now stands under the longer one (`UnderUnder`). That an arg of
the outer failure may be named like one of the cause is ruled out by who
writes both: the outer failure of a flattening is the router's or the
library's own, whose names are fixed (`OwnSegments`). `ReasonIsKept` follows
for every number of folds and hops, under `GivesMaps`: what business code
gives is a map with non-empty names, and no key of its own is
`UNHANDLED_HANDLER_ERROR`, which would make a coded failure read as an uncoded
one.

`StepsInv` says that the steps are registered once each, before the first
command; `UndoneInv` that nothing is done, undone or given up twice, that
exactly the done steps of a process manager that gave up are undone, and
that the undos in the journal are in order. A journal only grows
(`HasRecorded`, `OnceRecorded`, `OrderIsKept`), so each handling's few events
are compared with what is there: a rollback's are the undos of exactly the
recorded steps, newest first (`UndosAreNewestFirst`, by induction over the
steps), a late reply's are its own step's. `DoneIsUndone` and
`NewestIsUndoneFirst` follow for any number of steps no two of which are
completed by the same event (`OwnReplies`), `RefusalIsBlamed` for
steps no two of which have the same undo target (`OwnTargets`). The code checks neither;
finding 3 is what happens without the second.

### ClientLibraryProofs: QueryBuilder, CommandBuilder, Descriptor, Clients

`BuilderInv` adds to the types that of each pair of
fields at most one is set; without it a later `as_of` could be hidden by an
older range, and the refinement fails at its first step. `BuilderIsSingleSlot`
is the refinement: the initial states map to initial states, and each setter,
refusal and build maps to its step of `QuerySelection`.

`CommandInv` says that each field is what the last call that gave it gave, or
absent, and `LastWithOneMore` what one more call changes of that. The
resolution is the only field with a value that stands for none
(`ResolutionGiven`).
`CommandIsAsGiven` follows for chains of any length. `AbsentAssumption` keeps
"not set" apart from every value.

`DescribedInv` says that what `describe` answered is `Reason` and `Built` of
its arguments. `DescribedIsTaken` then compares the first rule the code finds
broken with the least of the coordinator's (`FirstRule`), `DescribedIsServed`
with what the host looks at, for every table, domain and version.
`DescriptorAssumption`: a table is of one of the four kinds, and "unset" is no
value.

`OwnerInv` says who owns a channel: nobody one that is not open yet or only
lent, one client one that `connect` opened, and that it is closed exactly if
that client is. The steps split into those that make clients (`MadeOwns`: of a
domain and its parts only the domain owns) and those that close them.
`OwnersClose` follows for any number of clients and channels. `CutInv` adds
that every closed channel was dropped by the caller or has an owner that was
closed, that a domain's parts own nothing (so an owner is never one of them), and
that a call that was cut was on a closed channel; clients are never changed
once made (`ClientsLast`). `OwnersCut` follows, for any number of threads.

### Only model-checked

Every liveness property (QueuedCallsSettle, StartedHostServes, StopCompletes,
SignalEndsRun, LoneStopEnds, EofEndsChild, StartedChildShakesHands): fairness and ENABLED are out of the prover's reach.
The violations are TLC's by their nature. Every safety property of a passing
run is proved.

## 5. Plan

What is left, in this order:

1. an abstract delivery that answers its whole book in one step or fails, and
   `EventDelivery` shown to implement it; the same for a compensation that
   undoes in one step what it has recorded;
2. `start()` beside `stop()` in `HostCallers`, and KeyboardInterrupt inside
   `start()`;
3. a second `rollback()` of one journal, once the code says what it promises
   of one.

## 6. Not modelled

- The reading of environment variables (`server.py`, `readiness.py`,
  `child.py`): one expression each, from text to a value the models take as
  given.
- The text rendered of an error (`diagnostic.py`, `escaped`), the tables of
  codes and keys, logging.
- The accessors and the conversions of `helpers.py` and `wrappers.py` beside
  the four decoders: one field or one comparison each, with no state, whose
  subject is text and bytes. `unpack` of None, which a book has not got, is no
  case of `PageDecoding`.
- `testing/` builds data for tests, `scripts/` generates code at build time.
- Times: a timeout may or may not fire, and a wait is as long as it likes,
  but for the delays of `Retry`. A power of two past a float's range is
  `Exponents` in `Retry`.
- A dispatch table changed after `describe`: the host compares only the
  version of a descriptor with its table; its domains are for the coordinator
  to refuse.
- The contexts handed to business code are kept to the sequence and the
  sender.
- `from_stub`, which makes a client without a channel for tests.
