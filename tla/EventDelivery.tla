--------------------------- MODULE EventDelivery ---------------------------
(***************************************************************************)
(* What the coordinator delivers to a policy or a projector                *)
(* (angzarr_client/router/policy.py and projector.py): books of a source   *)
(* stream, and refusals of a policy's commands, again and again until it   *)
(* has an answer, several at once on the host's worker threads.  A         *)
(* dispatch goes page by page through business code, which may raise, may  *)
(* dispatch something itself, and asks at any time for the page it is      *)
(* handling: a context variable of its thread (router/context.py).         *)
(*                                                                         *)
(* The coordinator is external: it delivers any pages of the stream in     *)
(* order, also those of a call it has given up and that still runs.        *)
(***************************************************************************)
EXTENDS Naturals, Sequences, SequencesExt

CONSTANTS
  Type,          \* event types
  Declared,      \* those with a handler in the dispatch table
  Output,        \* what a handler may return
  Call,          \* deliveries under way at once
  Worker,        \* the host's dispatch threads
  MaxPages,      \* bound: pages of the source stream
  MaxDepth,      \* bound: dispatches nested in one handler
  NoPage

ASSUME BoundAssumption == MaxPages \in Nat /\ MaxDepth \in Nat

VARIABLES
  kind,          \* the component's kind
  consumed,      \* the projector's table names the stream's domain
  stream,        \* the types of the stream's pages, from sequence 1 on
  call,          \* each delivery: what is asked, and how far its dispatch is
  current,       \* _CURRENT_PAGE of each thread: a page's sequence, or NoPage
  tokens,        \* what each handling of a thread will reset it to
  returned       \* history: what each call's handlers returned, page by page

fixed == <<kind, consumed, stream>>
deliveryVars == <<fixed, call, current, tokens, returned>>

Idle == [at |-> "idle"]

DeliveryInit ==
  /\ kind \in {"policy", "projector"}
  /\ consumed \in (IF kind = "projector" THEN BOOLEAN ELSE {TRUE})
  /\ stream \in UNION {[1..n -> Type] : n \in 0..MaxPages}
  /\ call = [c \in Call |-> Idle]
  /\ current = [w \in Worker |-> NoPage] /\ tokens = [w \in Worker |-> <<>>]
  /\ returned = [c \in Call |-> <<>>]

----------------------------------------------------------------------------
(* The coordinator. *)

\* What a call carries: the sequences of its pages.  An empty book is
\* delivered at the head only; a refusal, translated or not, stands for one
\* page, without a sequence.
Queued(pages, translated) ==
  [at |-> "queued", pages |-> pages, translated |-> translated]

Book(from, to) == Queued([n \in 1..(to + 1 - from) |-> from + n - 1], FALSE)
Refusal(translated) == Queued(<<0>>, translated)

\* Whether business code handles page p of call c.
Handled(c, p) == IF p = 0 THEN call[c].translated
                 ELSE consumed /\ stream[p] \in Declared

Delivers(c) ==
  /\ call[c] = Idle
  /\ \/ \E from \in 1..(Len(stream) + 1), to \in 0..Len(stream) :
          call' = [call EXCEPT ![c] = Book(from, to)]
     \/ /\ kind = "policy"
        /\ \E translated \in BOOLEAN :
             call' = [call EXCEPT ![c] = Refusal(translated)]
  /\ returned' = [returned EXCEPT ![c] = <<>>]
  /\ UNCHANGED <<fixed, current, tokens>>

\* The coordinator takes the answer, or has given the call up before.
Settles(c) ==
  /\ call[c].at = "ended"
  /\ call' = [call EXCEPT ![c] = Idle]
  /\ UNCHANGED <<fixed, current, tokens, returned>>

----------------------------------------------------------------------------
(* handling: the context variable, and what resets it. *)

Enters(w, p) ==
  /\ tokens' = [tokens EXCEPT ![w] = Append(@, current[w])]
  /\ current' = [current EXCEPT ![w] = p]

Leaves(w) ==
  /\ current' = [current EXCEPT ![w] = Last(tokens[w])]
  /\ tokens' = [tokens EXCEPT ![w] = Front(@)]

\* Mutant: the variable is set back after the handler, not finally.
EscapesUnreset(w) ==
  /\ tokens' = [tokens EXCEPT ![w] = <<>>]
  /\ UNCHANGED current

\* An exception on its way out of every handling of the thread.
Escapes(w) ==
  /\ current' = [current EXCEPT ![w] = tokens[w][1]]
  /\ tokens' = [tokens EXCEPT ![w] = <<>>]

----------------------------------------------------------------------------
(* A dispatch, on its thread. *)

Busy(w) == \E c \in Call : call[c].at \in {"loop", "handler"} /\ call[c].on = w

\* handle's locals: the response, or the projection, made for this call.
Started(w, c) ==
  [at |-> "loop", pages |-> call[c].pages, translated |-> call[c].translated,
   on |-> w, next |-> 1, answer |-> <<>>]

Begins(w, c) ==
  /\ call[c].at = "queued" /\ ~Busy(w)
  /\ call' = [call EXCEPT ![c] = Started(w, c)]
  /\ UNCHANGED <<fixed, current, tokens, returned>>

\* The page the loop of c has come to, or the refusal.
PageOf(c) == call[c].pages[call[c].next]
InLoop(c) == call[c].at = "loop" /\ call[c].next <= Len(call[c].pages)

Skips(c) ==
  /\ InLoop(c) /\ ~Handled(c, PageOf(c))
  /\ call' = [call EXCEPT ![c].next = @ + 1]
  /\ UNCHANGED <<fixed, current, tokens, returned>>

Handles(c) ==
  /\ InLoop(c) /\ Handled(c, PageOf(c))
  /\ Enters(call[c].on, PageOf(c))
  /\ call' = [call EXCEPT ![c].at = "handler"]
  /\ UNCHANGED <<fixed, returned>>

\* Business code that drives a table itself: of any page, or of none.
Nests(c) ==
  /\ call[c].at = "handler" /\ Len(tokens[call[c].on]) <= MaxDepth
  /\ \E p \in 0..Len(stream) : Enters(call[c].on, p)
  /\ UNCHANGED <<fixed, call, returned>>

Unnests(c) ==
  /\ call[c].at = "handler" /\ Len(tokens[call[c].on]) > 1
  /\ Leaves(call[c].on)
  /\ UNCHANGED <<fixed, call, returned>>

\* A reaction, a page folded into the projection, or the translated fact.
Answered(c, out) ==
  [call[c] EXCEPT !.at = "loop", !.next = @ + 1,
                  !.answer = Append(@, [trigger |-> PageOf(c), outputs |-> out])]

Returns(c) ==
  /\ call[c].at = "handler" /\ Len(tokens[call[c].on]) = 1
  /\ Leaves(call[c].on)
  /\ \E out \in Output :
       /\ returned' = [returned EXCEPT ![c] =
                         Append(@, [trigger |-> PageOf(c), outputs |-> out])]
       /\ call' = [call EXCEPT ![c] = Answered(c, out)]
  /\ UNCHANGED <<fixed>>

\* A projection's next_sequence: the position after the book.
After(c) == IF call[c].pages = <<>> THEN Len(stream) + 1 ELSE Last(call[c].pages) + 1

Ended(c, code, answer) ==
  call' = [call EXCEPT ![c] =
             [at |-> "ended", pages |-> @.pages, translated |-> @.translated,
              code |-> code, answer |-> answer, after |-> After(c)]]

\* What escapes business code, coded: its own code, or the framework's; of a
\* fold always the fold's.
Code(raised) ==
  IF kind = "projector" THEN "FOLD_FAILED"
  ELSE IF raised = "coded" THEN "OWN" ELSE "UNHANDLED_HANDLER_ERROR"

\* Mutant: what was handled before the failure is answered.
RaisesPartial(c) ==
  /\ call[c].at = "handler"
  /\ Escapes(call[c].on)
  /\ Ended(c, "OK", call[c].answer)
  /\ UNCHANGED <<fixed, returned>>

Raises(c) ==
  /\ call[c].at = "handler"
  /\ Escapes(call[c].on)
  /\ \E raised \in {"coded", "unclassified", "panic"} :
       Ended(c, Code(raised), <<>>)
  /\ UNCHANGED <<fixed, returned>>

\* The loop is through.
Answers(c) ==
  /\ call[c].at = "loop" /\ call[c].next > Len(call[c].pages)
  /\ Ended(c, "OK", call[c].answer)
  /\ UNCHANGED <<fixed, current, tokens, returned>>

DeliveryNext ==
  \E c \in Call :
    \/ Delivers(c) \/ Settles(c)
    \/ \E w \in Worker : Begins(w, c)
    \/ Skips(c) \/ Handles(c) \/ Nests(c) \/ Unnests(c)
    \/ Returns(c) \/ Raises(c) \/ Answers(c)

DeliverySpec == DeliveryInit /\ [][DeliveryNext]_deliveryVars
----------------------------------------------------------------------------
\* Business code that asks for its page (current_page, current_cover) is
\* told its own, whatever other threads handle, whatever it dispatched
\* itself before, and however the calls before it on its thread ended; and
\* a thread with no handler running has none.
HandlerSeesItsPage ==
  /\ \A c \in Call :
       (call[c].at = "handler" /\ Len(tokens[call[c].on]) = 1)
         => current[call[c].on] = PageOf(c)
  /\ \A w \in Worker :
       (~\E c \in Call : call[c].at = "handler" /\ call[c].on = w)
         => current[w] = NoPage /\ tokens[w] = <<>>

\* An answer is of its own book and of all of it: one reaction (or one fold,
\* or the refusal's one fact) for each page with a handler, in page order,
\* holding what the handler returned in this very call, and none for
\* another page; a projection's position is the one after the pages it
\* folded.  A delivery that fails anywhere answers nothing of what had been
\* handled before.
AnswerIsItsBook ==
  \A c \in Call : call[c].at = "ended" =>
    IF call[c].code = "OK"
      THEN LET pages  == call[c].pages
               answer == call[c].answer
           IN  /\ answer = returned[c]
               /\ {answer[n].trigger : n \in DOMAIN answer} =
                    {p \in ToSet(pages) : Handled(c, p)}
               /\ \A m, n \in DOMAIN answer :
                    m < n => answer[m].trigger < answer[n].trigger
               /\ call[c].after = IF pages = <<>> THEN Len(stream) + 1
                                  ELSE Max(ToSet(pages)) + 1
      ELSE call[c].answer = <<>>
=============================================================================
