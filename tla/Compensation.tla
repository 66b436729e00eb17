---------------------------- MODULE Compensation ----------------------------
(***************************************************************************)
(* A process manager's compensation (angzarr_client/compensation.py), over *)
(* the journal it is folded from: the PM's own events.  Steps are          *)
(* registered, then commands are sent, answered late or refused, the PM    *)
(* rolls back, and an undo that became a command may be refused.           *)
(*                                                                         *)
(* The PM's handlers and the destinations are the application's: they are  *)
(* modelled as the class's docstring has them used, one handling at a      *)
(* time, a rollback only of a state that is not rolled back.               *)
(***************************************************************************)
EXTENDS Naturals, Sequences, SequencesExt

CONSTANTS
  Step,           \* the PM's steps
  CompletedBy,    \* the type of the event that records each step done
  TargetOf,       \* what each step's undo becomes at its destination
  Commands        \* the targets declared commands, which may be refused

VARIABLES
  steps,      \* _steps, in their order of registration
  warnings,   \* _warnings, as the steps warned of
  sent,       \* the steps whose command is with its destination
  journal,    \* the PM's own events
  undos,      \* the undos with their destinations
  rejected    \* history: the steps whose undo was refused

compensationVars == <<steps, warnings, sent, journal, undos, rejected>>

Failed              == [type |-> "failed"]
Done(s)             == [type |-> "done", step |-> s]
Undo(s)             == [type |-> "undo", step |-> s]
CompensationFailed(s) == [type |-> "compensation_failed", step |-> s]

\* The state is the fold of the journal.
Recorded   == {s \in Step : Contains(journal, Done(s))}
RolledBack == Contains(journal, Failed)

\* The PM is up once its steps are registered.
Started == Len(steps) > 0 /\ ToSet(steps) = Step

CompensationInit ==
  /\ steps = <<>> /\ warnings = <<>> /\ sent = {} /\ journal = <<>>
  /\ undos = {} /\ rejected = {}

\* step: registered after those registered; a target that is a command is
\* warned of, not refused.
RegisterStep(s) ==
  /\ ~Contains(steps, s)
  /\ steps' = Append(steps, s)
  /\ warnings' = IF TargetOf[s] \in Commands THEN Append(warnings, s)
                 ELSE warnings
  /\ UNCHANGED <<sent, journal, undos, rejected>>
----------------------------------------------------------------------------
(* What the class answers. *)

\* The undos of the steps registered that are done, newest first.
UndosOf(registered, done) ==
  LET due[k \in 0..Len(registered)] ==
        IF k = 0 THEN <<>>
        ELSE IF registered[k] \in done THEN <<Undo(registered[k])>> \o due[k - 1]
        ELSE due[k - 1]
  IN  due[Len(registered)]

\* Mutant: in the order of registration.
RollbackInOrder == <<Failed>> \o Reverse(UndosOf(steps, Recorded))

\* Mutant: every step is undone, done or not.
RollbackOfAll == <<Failed>> \o UndosOf(steps, Step)

\* rollback: the failed event, then the undo of each step recorded done.
Rollback == <<Failed>> \o UndosOf(steps, Recorded)

\* The first step registered with this value of a field, alone, or none.
FirstStep(field, value) ==
  LET places == {n \in DOMAIN steps : field[steps[n]] = value}
  IN  IF places = {} THEN <<>> ELSE <<steps[Min(places)]>>

\* reply: the event itself and, once rolled back, the undo its type's step
\* builds from it.
Reply(s) ==
  LET late == IF RolledBack THEN FirstStep(CompletedBy, CompletedBy[s]) ELSE <<>>
  IN  <<Done(s)>> \o [n \in DOMAIN late |-> Undo(late[n])]

\* Mutant: the step registered first is blamed.
UndoRefusedFirst(s) == <<CompensationFailed(steps[1])>>

\* undo_refused: the refusal names what was refused, and the first step whose
\* undo becomes that is recorded.
UndoRefused(s) ==
  LET found == FirstStep(TargetOf, TargetOf[s])
  IN  [n \in DOMAIN found |-> CompensationFailed(found[n])]
----------------------------------------------------------------------------
(* The PM's handlings (external), each recording one answer's events. *)

\* Events are recorded; the outbound policy sends the undos among them on.
Record(events) ==
  /\ journal' = journal \o events
  /\ undos' = undos \cup {s \in Step : Contains(events, Undo(s))}

SendStep(s) ==
  /\ Started /\ ~RolledBack
  /\ s \notin sent /\ s \notin Recorded
  /\ sent' = sent \cup {s}
  /\ UNCHANGED <<steps, warnings, journal, undos, rejected>>

\* The step's reply arrives, in time or after the rollback.
StepReplies(s) ==
  /\ s \in sent
  /\ Record(Reply(s))
  /\ sent' = sent \ {s}
  /\ UNCHANGED <<steps, warnings, rejected>>

\* The step is refused: the PM rolls back, unless it has.
StepRefused(s) ==
  /\ s \in sent
  /\ sent' = sent \ {s}
  /\ IF RolledBack THEN UNCHANGED <<journal, undos>> ELSE Record(Rollback)
  /\ UNCHANGED <<steps, warnings, rejected>>

\* The PM gives up by itself (a deadline of its own), replies outstanding.
GivesUp ==
  /\ Started /\ ~RolledBack
  /\ Record(Rollback)
  /\ UNCHANGED <<steps, warnings, sent, rejected>>

UndoTaken(s) ==
  /\ s \in undos
  /\ undos' = undos \ {s}
  /\ UNCHANGED <<steps, warnings, sent, journal, rejected>>

\* Only a command can be refused; the refusal's handler records it.
UndoIsRefused(s) ==
  /\ s \in undos /\ TargetOf[s] \in Commands
  /\ undos' = undos \ {s} /\ rejected' = rejected \cup {s}
  /\ journal' = journal \o UndoRefused(s)
  /\ UNCHANGED <<steps, warnings, sent>>

Settled == RolledBack /\ sent = {} /\ undos = {}

CompensationNext ==
  \/ \E s \in Step :
       \/ RegisterStep(s) \/ SendStep(s) \/ StepReplies(s) \/ StepRefused(s)
       \/ UndoTaken(s) \/ UndoIsRefused(s)
  \/ GivesUp
  \/ Settled /\ UNCHANGED compensationVars

CompensationSpec == CompensationInit /\ [][CompensationNext]_compensationVars
----------------------------------------------------------------------------
AtMostOnce(e) == \A m, n \in DOMAIN journal : journal[m] = e /\ journal[n] = e => m = n

\* Once the PM rolled back, each step recorded done has been undone, exactly
\* once, whether its reply came before the rollback or after it; and no other
\* step ever is.
DoneStepsAreUndoneOnce ==
  \A s \in Step :
    /\ Contains(journal, Undo(s)) <=> RolledBack /\ Contains(journal, Done(s))
    /\ AtMostOnce(Undo(s)) /\ AtMostOnce(Done(s))

\* A rollback undoes the newest step first: of two steps done when it was
\* decided, the one registered later is undone earlier.
RollbackIsNewestFirst ==
  LET doneBy(f, s) == \E k \in 1..(f - 1) : journal[k] = Done(s)
      place(s)     == CHOOSE k \in DOMAIN steps : steps[k] = s
  IN  \A s, t \in Step : \A f, m, n \in DOMAIN journal :
        (/\ journal[f] = Failed /\ doneBy(f, s) /\ doneBy(f, t)
         /\ journal[m] = Undo(s) /\ journal[n] = Undo(t) /\ m < n)
          => place(s) > place(t)

\* A refused undo is put down to the step it belongs to (undo_refused: "its
\* step's CompensationFailed").
RefusalBlamesItsStep ==
  \A s \in Step : s \in rejected <=> Contains(journal, CompensationFailed(s))
=============================================================================
