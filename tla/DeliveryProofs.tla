--------------------------- MODULE DeliveryProofs ---------------------------
(***************************************************************************)
(* Deliveries to policies and projectors, and readers of a book, for every *)
(* stream, set of threads, number of calls under way and nesting.          *)
(*                                                                         *)
(* A call's page is known to its handler because its thread runs no other  *)
(* call (OneCallPerThread) and the first value its thread resets to is no  *)
(* page; its answer is of its book because every step adds what the page   *)
(* the loop has come to is owed (CallFits).                                *)
(***************************************************************************)
EXTENDS EventDelivery, PageDecoding, TLAPS

\* What a handled page adds to an answer.
Reaction == [trigger : Nat, outputs : Output]

Codes == {"OK", "OWN", "FOLD_FAILED", "UNHANDLED_HANDLER_ERROR"}

\* The states of a delivery.
QueuedState  == [at : {"queued"}, pages : Seq(Nat), translated : BOOLEAN]
RunningState == [at : {"loop", "handler"}, pages : Seq(Nat), translated : BOOLEAN,
                 on : Worker, next : Nat, answer : Seq(Reaction)]
EndedState   == [at : {"ended"}, pages : Seq(Nat), translated : BOOLEAN,
                 code : Codes, answer : Seq(Reaction), after : Nat]
CallState    == {Idle} \cup QueuedState \cup RunningState \cup EndedState

\* The types of a delivery's state.
TypeOK ==
  /\ stream \in Seq(Type)
  /\ call \in [Call -> CallState]
  /\ returned \in [Call -> Seq(Reaction)]
  /\ current \in [Worker -> Nat \cup {NoPage}]
  /\ tokens \in [Worker -> Seq(Nat \cup {NoPage})]

\* Handled, of a call known by its flag.
IsHandled(t, p) == IF p = 0 THEN t ELSE consumed /\ stream[p] \in Declared

\* ret holds one reaction, in page order, for each of the first n pages that
\* has a handler, and no other.
AnsweredUpTo(pages, t, n, ret) ==
  /\ \A m \in 1..Len(ret) :
       \E j \in 1..n : ret[m].trigger = pages[j] /\ IsHandled(t, pages[j])
  /\ \A j \in 1..n : IsHandled(t, pages[j]) =>
       \E m \in 1..Len(ret) : ret[m].trigger = pages[j]
  /\ \A m1, m2 \in 1..Len(ret) : m1 < m2 => ret[m1].trigger < ret[m2].trigger

\* A book's pages come in the order of their sequences.
InOrder(pages) == \A m, n \in 1..Len(pages) : m < n => pages[m] < pages[n]

\* After, of a book.
PositionAfter(pages) == IF pages = <<>> THEN Len(stream) + 1 ELSE pages[Len(pages)] + 1

\* What a call in state k has answered, its handlers having returned ret: all
\* of the pages before the one it has come to; when it has failed, nothing.
CallFits(k, ret) ==
  /\ k.at # "idle" => InOrder(k.pages)
  /\ k.at = "queued" => ret = <<>>
  /\ k.at \in {"loop", "handler"} =>
       /\ k.next \in 1..(Len(k.pages) + 1) /\ k.answer = ret
       /\ AnsweredUpTo(k.pages, k.translated, k.next - 1, ret)
  /\ k.at = "handler" =>
       k.next <= Len(k.pages) /\ IsHandled(k.translated, k.pages[k.next])
  /\ k.at = "ended" =>
       IF k.code = "OK"
         THEN /\ k.answer = ret /\ k.after = PositionAfter(k.pages)
              /\ AnsweredUpTo(k.pages, k.translated, Len(k.pages), ret)
         ELSE k.answer = <<>>

CallsFit == \A c \in Call : CallFits(call[c], returned[c])

\* A thread dispatches one call at a time: its context variable has one owner.
OneCallPerThread ==
  \A c, d \in Call :
    /\ call[c].at \in {"loop", "handler"} /\ call[d].at \in {"loop", "handler"}
    /\ call[c].on = call[d].on
    => c = d

\* A thread whose handler is at page p: what it entered first is reset to no
\* page at all, and p is its variable's value, or what the first nested
\* dispatch will reset it to.
ThreadKnows(w, p) ==
  /\ Len(tokens[w]) >= 1 /\ tokens[w][1] = NoPage
  /\ Len(tokens[w]) = 1 => current[w] = p
  /\ Len(tokens[w]) > 1 => tokens[w][2] = p

HandlersKnow ==
  \A c \in Call : call[c].at = "handler" => ThreadKnows(call[c].on, PageOf(c))

\* A thread with no handler has no page, and nothing to reset.
OthersHaveNone ==
  \A w \in Worker :
    (~\E c \in Call : call[c].at = "handler" /\ call[c].on = w)
      => current[w] = NoPage /\ tokens[w] = <<>>

\* The inductive invariant of deliveries.
DeliveryInv == /\ TypeOK
               /\ CallsFit
               /\ OneCallPerThread
               /\ HandlersKnow
               /\ OthersHaveNone

\* Nothing is delivered at the start.
LEMMA InitInv == DeliveryInit => DeliveryInv
<1> SUFFICES ASSUME DeliveryInit PROVE DeliveryInv
  OBVIOUS
<1>1. TypeOK
  <2>1. stream \in Seq(Type)
    BY BoundAssumption DEF DeliveryInit
  <2>2. Idle \in CallState
    BY DEF CallState
  <2> QED
    BY <2>1, <2>2 DEF DeliveryInit, TypeOK
<1>2. \A c \in Call : call[c].at = "idle"
  BY DEF DeliveryInit, Idle
<1> QED
  BY <1>1, <1>2
  DEF DeliveryInv, CallsFit, CallFits, OneCallPerThread, HandlersKnow, OthersHaveNone,
      DeliveryInit

\* A step of one call that no thread's variable takes part in.
LEMMA CallStep ==
  ASSUME DeliveryInv, UNCHANGED <<fixed, current, tokens>>,
         NEW c \in Call, NEW k \in CallState, NEW ret \in Seq(Reaction),
         call' = [call EXCEPT ![c] = k], returned' = [returned EXCEPT ![c] = ret],
         CallFits(k, ret), call[c].at # "handler", k.at # "handler",
         k.at = "loop" =>
           /\ k.on \in Worker
           /\ \A d \in Call \ {c} :
                call[d].at \in {"loop", "handler"} => call[d].on # k.on
  PROVE  DeliveryInv'
<1>1. /\ call'[c] = k /\ returned'[c] = ret
      /\ \A d \in Call \ {c} : call'[d] = call[d] /\ returned'[d] = returned[d]
  BY DEF DeliveryInv, TypeOK
<1>2. TypeOK'
  BY DEF DeliveryInv, TypeOK, fixed
<1>3. \A k1, ret1 : CallFits(k1, ret1)' <=> CallFits(k1, ret1)
  BY DEF fixed, CallFits, AnsweredUpTo, IsHandled, PositionAfter
<1>4. CallsFit'
  <2> SUFFICES ASSUME NEW d \in Call PROVE CallFits(call[d], returned[d])'
    BY DEF CallsFit
  <2>1. CallFits(call'[d], returned'[d])
    BY <1>1 DEF DeliveryInv, CallsFit
  <2> QED
    BY <1>3, <2>1
<1>5. OneCallPerThread'
  BY <1>1 DEF DeliveryInv, OneCallPerThread
<1>6. HandlersKnow'
  BY <1>1 DEF DeliveryInv, HandlersKnow, ThreadKnows, PageOf
<1>7. OthersHaveNone'
  BY <1>1 DEF DeliveryInv, OthersHaveNone
<1> QED
  BY <1>2, <1>4, <1>5, <1>6, <1>7 DEF DeliveryInv

\* What a call's place tells of its fields.
LEMMA KindOfState ==
  ASSUME NEW k \in CallState
  PROVE  /\ k.at = "queued" => k \in QueuedState
         /\ k.at \in {"loop", "handler"} => k \in RunningState
         /\ k.at = "ended" => k \in EndedState
<1>1. Idle.at = "idle" /\ (k \in QueuedState => k.at = "queued")
  BY DEF Idle, QueuedState
<1>2. k \in RunningState => k.at \in {"loop", "handler"}
  BY DEF RunningState
<1>3. k \in EndedState => k.at = "ended"
  BY DEF EndedState
<1> QED
  BY <1>1, <1>2, <1>3 DEF CallState

\* The record Ended writes is a call's state, field by field.
LEMMA EndedRecord ==
  ASSUME NEW pages \in Seq(Nat), NEW translated \in BOOLEAN, NEW code \in Codes,
         NEW answer \in Seq(Reaction), NEW after \in Nat
  PROVE  LET k == [at |-> "ended", pages |-> pages, translated |-> translated,
                   code |-> code, answer |-> answer, after |-> after]
         IN  k \in CallState /\ k.at = "ended" /\ k.code = code /\ k.answer = answer
             /\ k.pages = pages /\ k.translated = translated /\ k.after = after
BY DEF CallState, EndedState

\* A page with no handler adds nothing (Skips).
LEMMA AnsweredSkip ==
  ASSUME NEW pages, NEW t, NEW n \in Nat, NEW ret \in Seq(Reaction),
         AnsweredUpTo(pages, t, n, ret), ~IsHandled(t, pages[n + 1])
  PROVE  AnsweredUpTo(pages, t, n + 1, ret)
<1>1. \A j \in 1..(n + 1) : j \in 1..n \/ j = n + 1
  OBVIOUS
<1>2. 1..n \subseteq 1..(n + 1)
  OBVIOUS
<1> QED
  BY <1>1, <1>2 DEF AnsweredUpTo

\* The fields of a dispatch under way.
LEMMA RunningFields ==
  ASSUME NEW r \in RunningState
  PROVE  /\ r.pages \in Seq(Nat) /\ r.translated \in BOOLEAN /\ r.on \in Worker
         /\ r.next \in Nat /\ r.answer \in Seq(Reaction) /\ r.at \in {"loop", "handler"}
BY DEF RunningState

\* Skips writes one field of a dispatch under way, and no other.
LEMMA RunningNext ==
  ASSUME NEW r \in RunningState, NEW n \in Nat
  PROVE  LET k == [r EXCEPT !.next = n]
         IN  /\ k \in RunningState /\ k.next = n /\ k.at = r.at /\ k.pages = r.pages
             /\ k.on = r.on /\ k.answer = r.answer /\ k.translated = r.translated
BY DEF RunningState

\* Handles writes one field of a dispatch under way, and no other.
LEMMA RunningAt ==
  ASSUME NEW r \in RunningState, NEW at \in {"loop", "handler"}
  PROVE  LET k == [r EXCEPT !.at = at]
         IN  /\ k \in RunningState /\ k.next = r.next /\ k.at = at /\ k.pages = r.pages
             /\ k.on = r.on /\ k.answer = r.answer /\ k.translated = r.translated
BY DEF RunningState

\* The call after a handler has returned: at its next page n, with answer a.
Advanced(r, n, a) == [r EXCEPT !.at = "loop", !.next = n, !.answer = a]

\* Returns writes three fields of a dispatch under way, and no other.
LEMMA RunningAnswered ==
  ASSUME NEW r \in RunningState, NEW n \in Nat, NEW a \in Seq(Reaction)
  PROVE  LET k == Advanced(r, n, a)
         IN  /\ k \in RunningState /\ k.next = n /\ k.at = "loop" /\ k.pages = r.pages
             /\ k.on = r.on /\ k.answer = a /\ k.translated = r.translated
BY DEF RunningState, Advanced

\* What the coordinator delivers is in page order.
LEMMA BookInOrder ==
  ASSUME TypeOK, NEW from \in 1..(Len(stream) + 1), NEW to \in 0..Len(stream)
  PROVE  /\ Book(from, to) \in QueuedState /\ Book(from, to).at = "queued"
         /\ InOrder(Book(from, to).pages)
<1> DEFINE m == to + 1 - from
           pages == [n \in 1..m |-> from + n - 1]
<1>1. Len(stream) \in Nat
  BY DEF TypeOK
<1>2. pages \in Seq(Nat) /\ \A n \in 1..Len(pages) : pages[n] = from + n - 1
  <2>1. CASE m \in Nat
    <3>1. \A n \in 1..m : from + n - 1 \in Nat
      BY <1>1, <2>1
    <3> HIDE DEF m
    <3>2. [n \in 1..m |-> from + n - 1] \in Seq(Nat) /\ Len([n \in 1..m |-> from + n - 1]) = m
      BY <2>1, <3>1
    <3> QED
      BY <3>2
  <2>2. CASE m \notin Nat
    <3>1. 1..m = {}
      BY <1>1, <2>2
    <3>2. pages = <<>>
      BY <3>1
    <3> HIDE DEF pages
    <3> QED
      BY <3>2
  <2> QED
    BY <2>1, <2>2
<1>3. Book(from, to) = Queued(pages, FALSE)
  BY DEF Book
<1> HIDE DEF pages
<1>4. InOrder(pages)
  BY <1>1, <1>2 DEF InOrder
<1> QED
  BY <1>2, <1>3, <1>4 DEF Queued, QueuedState

\* A new delivery has answered nothing yet.
LEMMA DeliversInv ==
  ASSUME DeliveryInv, NEW c \in Call, Delivers(c)
  PROVE  DeliveryInv'
<1>1. PICK k \in QueuedState : /\ call' = [call EXCEPT ![c] = k]
                               /\ k.at = "queued" /\ InOrder(k.pages)
  <2>1. CASE \E from \in 1..(Len(stream) + 1), to \in 0..Len(stream) :
               call' = [call EXCEPT ![c] = Book(from, to)]
    BY <2>1, BookInOrder DEF DeliveryInv
  <2>2. CASE \E translated \in BOOLEAN : call' = [call EXCEPT ![c] = Refusal(translated)]
    <3>1. \A t \in BOOLEAN : /\ Refusal(t) \in QueuedState /\ Refusal(t).at = "queued"
                             /\ InOrder(Refusal(t).pages)
      BY DEF Refusal, Queued, QueuedState, InOrder
    <3> QED
      BY <2>2, <3>1
  <2> QED
    BY <2>1, <2>2 DEF Delivers
<1>2. returned' = [returned EXCEPT ![c] = <<>>] /\ UNCHANGED <<fixed, current, tokens>>
  BY DEF Delivers
<1>3. call[c].at = "idle" /\ k \in CallState
  BY DEF Delivers, Idle, CallState
<1>4. CallFits(k, <<>>) /\ <<>> \in Seq(Reaction)
  BY <1>1 DEF CallFits
<1> QED
  BY <1>1, <1>2, <1>3, <1>4, CallStep

\* Taking an answer leaves the other calls as they are.
LEMMA SettlesInv ==
  ASSUME DeliveryInv, NEW c \in Call, Settles(c)
  PROVE  DeliveryInv'
<1>1. /\ call' = [call EXCEPT ![c] = Idle] /\ UNCHANGED <<fixed, current, tokens, returned>>
      /\ call[c].at = "ended"
  BY DEF Settles
<1>2. Idle \in CallState /\ Idle.at = "idle" /\ returned[c] \in Seq(Reaction)
      /\ returned' = [returned EXCEPT ![c] = returned[c]]
  BY <1>1 DEF CallState, Idle, DeliveryInv, TypeOK
<1>3. CallFits(Idle, returned[c])
  BY <1>2 DEF CallFits
<1> QED
  BY <1>1, <1>2, <1>3, CallStep

\* A dispatch begins on a thread that runs no other.
LEMMA BeginsInv ==
  ASSUME DeliveryInv, NEW c \in Call, NEW w \in Worker, Begins(w, c)
  PROVE  DeliveryInv'
<1> DEFINE k == Started(w, c)
<1>1. /\ call' = [call EXCEPT ![c] = k] /\ UNCHANGED <<fixed, current, tokens, returned>>
      /\ call[c].at = "queued" /\ ~Busy(w)
  BY DEF Begins
<1>2. /\ call[c].pages \in Seq(Nat) /\ call[c].translated \in BOOLEAN
      /\ InOrder(call[c].pages) /\ returned[c] = <<>>
  <2>1. call[c] \in QueuedState
    BY <1>1, KindOfState DEF DeliveryInv, TypeOK
  <2>2. CallFits(call[c], returned[c])
    BY DEF DeliveryInv, CallsFit
  <2> QED
    BY <1>1, <2>1, <2>2 DEF QueuedState, CallFits
<1>3. /\ k.at = "loop" /\ k.on = w /\ k.next = 1 /\ k.answer = <<>>
      /\ k.pages = call[c].pages
  BY DEF Started
<1>4. k \in CallState
  BY <1>2 DEF Started, CallState, RunningState
<1>5. CallFits(k, <<>>)
  BY <1>2, <1>3 DEF CallFits, AnsweredUpTo
<1>6. \A d \in Call \ {c} : call[d].at \in {"loop", "handler"} => call[d].on # w
  BY <1>1 DEF Busy
<1>7. returned' = [returned EXCEPT ![c] = <<>>] /\ <<>> \in Seq(Reaction)
  BY <1>1, <1>2 DEF DeliveryInv, TypeOK
<1> HIDE DEF k
<1> QED
  BY <1>1, <1>3, <1>4, <1>5, <1>6, <1>7, CallStep

\* What the invariant says of a dispatch under way.
LEMMA RunningCall ==
  ASSUME DeliveryInv, NEW c \in Call, call[c].at \in {"loop", "handler"}
  PROVE  /\ call[c] \in RunningState
         /\ call[c].pages \in Seq(Nat) /\ call[c].translated \in BOOLEAN
         /\ call[c].on \in Worker /\ call[c].next \in Nat /\ call[c].answer \in Seq(Reaction)
         /\ InOrder(call[c].pages)
         /\ call[c].next \in 1..(Len(call[c].pages) + 1)
         /\ AnsweredUpTo(call[c].pages, call[c].translated, call[c].next - 1, returned[c])
         /\ call[c].answer = returned[c]
         /\ returned[c] \in Seq(Reaction)
         /\ \A d \in Call \ {c} :
              call[d].at \in {"loop", "handler"} => call[d].on # call[c].on
<1>1. call[c] \in RunningState /\ returned[c] \in Seq(Reaction)
  BY KindOfState DEF DeliveryInv, TypeOK
<1>2. CallFits(call[c], returned[c])
  BY DEF DeliveryInv, CallsFit
<1>3. \A d \in Call \ {c} : call[d].at \in {"loop", "handler"} => call[d].on # call[c].on
  BY DEF DeliveryInv, OneCallPerThread
<1> QED
  BY <1>1, <1>2, <1>3, RunningFields DEF CallFits

\* Going past a page with no handler keeps the invariant.
LEMMA SkipsInv ==
  ASSUME DeliveryInv, NEW c \in Call, Skips(c)
  PROVE  DeliveryInv'
<1> DEFINE old == call[c]
           ret == returned[c]
           n   == old.next
           k   == [old EXCEPT !.next = n + 1]
<1>1. /\ call' = [call EXCEPT ![c] = k] /\ UNCHANGED <<fixed, current, tokens, returned>>
      /\ old.at = "loop" /\ n <= Len(old.pages)
      /\ ~IsHandled(old.translated, old.pages[n])
  BY DEF Skips, InLoop, Handled, IsHandled, PageOf
<1>2. /\ old \in RunningState /\ old.pages \in Seq(Nat) /\ old.on \in Worker
      /\ InOrder(old.pages) /\ n \in 1..(Len(old.pages) + 1)
      /\ AnsweredUpTo(old.pages, old.translated, n - 1, ret) /\ old.answer = ret
      /\ ret \in Seq(Reaction)
      /\ \A d \in Call \ {c} : call[d].at \in {"loop", "handler"} => call[d].on # old.on
  BY <1>1, RunningCall
<1>3. returned' = [returned EXCEPT ![c] = ret] /\ call[c].at # "handler"
  BY <1>1 DEF DeliveryInv, TypeOK
<1>4. n + 1 \in Nat /\ n - 1 \in Nat /\ n - 1 + 1 = n /\ n + 1 - 1 = n
      /\ n + 1 \in 1..(Len(old.pages) + 1)
  <2>1. Len(old.pages) \in Nat
    BY <1>2
  <2> HIDE DEF old, n
  <2> QED
    BY <1>1, <1>2, <2>1, SMTT(40)
<1> HIDE DEF old, ret, n
<1>5. /\ k \in RunningState /\ k.at = "loop" /\ k.next = n + 1
      /\ k.pages = old.pages /\ k.on = old.on /\ k.answer = old.answer
      /\ k.translated = old.translated
  BY <1>1, <1>2, <1>4, RunningNext, SMTT(60)
<1> HIDE DEF k
<1>6. AnsweredUpTo(old.pages, old.translated, n, ret)
  BY <1>1, <1>2, <1>4, AnsweredSkip
<1>8. CallFits(k, ret)
  BY <1>1, <1>2, <1>4, <1>5, <1>6 DEF CallFits
<1>9. k \in CallState /\ k.on \in Worker
      /\ \A d \in Call \ {c} : call[d].at \in {"loop", "handler"} => call[d].on # k.on
  BY <1>2, <1>5 DEF CallState
<1>10. k.at # "handler"
  BY <1>5
<1> QED
  BY <1>1, <1>2, <1>3, <1>8, <1>9, <1>10, CallStep

\* The answer of a loop that is through is of all of its book.
LEMMA AnswersInv ==
  ASSUME DeliveryInv, NEW c \in Call, Answers(c)
  PROVE  DeliveryInv'
<1> DEFINE old == call[c]
           ret == returned[c]
           k   == [at |-> "ended", pages |-> old.pages, translated |-> old.translated,
                   code |-> "OK", answer |-> old.answer, after |-> After(c)]
<1>1. /\ call' = [call EXCEPT ![c] = k] /\ UNCHANGED <<fixed, current, tokens, returned>>
      /\ old.at = "loop" /\ old.next > Len(old.pages)
  BY DEF Answers, Ended
<1>2. /\ old.pages \in Seq(Nat) /\ old.translated \in BOOLEAN /\ old.answer \in Seq(Reaction)
      /\ InOrder(old.pages) /\ old.next \in 1..(Len(old.pages) + 1)
      /\ AnsweredUpTo(old.pages, old.translated, old.next - 1, ret) /\ old.answer = ret
      /\ ret \in Seq(Reaction)
  BY <1>1, RunningCall
<1>3. After(c) = PositionAfter(old.pages) /\ After(c) \in Nat
  BY <1>2 DEF After, PositionAfter, Last, DeliveryInv, TypeOK
<1>4. returned' = [returned EXCEPT ![c] = ret] /\ call[c].at # "handler"
  BY <1>1 DEF DeliveryInv, TypeOK
<1>5. old.next - 1 = Len(old.pages)
  BY <1>1, <1>2
<1> HIDE DEF old, ret
<1>6. k \in CallState /\ k.at = "ended" /\ k.code = "OK" /\ k.answer = old.answer
      /\ k.pages = old.pages /\ k.translated = old.translated
      /\ k.after = After(c)
  BY <1>2, <1>3, EndedRecord DEF Codes
<1> HIDE DEF k
<1>8. CallFits(k, ret)
  BY <1>2, <1>3, <1>5, <1>6 DEF CallFits
<1> QED
  BY <1>1, <1>2, <1>4, <1>6, <1>8, CallStep

\* What the thread of a call in state k, at its page, must hold.
ThreadFits(k, cur, tok) ==
  IF k.at = "handler"
    THEN /\ Len(tok) >= 1 /\ tok[1] = NoPage
         /\ Len(tok) = 1 => cur = k.pages[k.next]
         /\ Len(tok) > 1 => tok[2] = k.pages[k.next]
    ELSE cur = NoPage /\ tok = <<>>

\* A step of the handler of call c, on its thread.
LEMMA HandlerStep ==
  ASSUME DeliveryInv, UNCHANGED fixed,
         NEW c \in Call, NEW w \in Worker, NEW k \in CallState, NEW ret \in Seq(Reaction),
         call[c].at \in {"loop", "handler"}, call[c].on = w,
         call' = [call EXCEPT ![c] = k], returned' = [returned EXCEPT ![c] = ret],
         CallFits(k, ret),
         k.at \in {"loop", "handler", "ended"},
         k.at \in {"loop", "handler"} => k.on = w,
         NEW cur \in Nat \cup {NoPage}, NEW tok \in Seq(Nat \cup {NoPage}),
         current' = [current EXCEPT ![w] = cur], tokens' = [tokens EXCEPT ![w] = tok],
         ThreadFits(k, cur, tok)
  PROVE  DeliveryInv'
<1>1. /\ call'[c] = k /\ returned'[c] = ret
      /\ \A d \in Call \ {c} : call'[d] = call[d] /\ returned'[d] = returned[d]
      /\ current'[w] = cur /\ tokens'[w] = tok
      /\ \A v \in Worker \ {w} : current'[v] = current[v] /\ tokens'[v] = tokens[v]
  BY DEF DeliveryInv, TypeOK
<1>2. TypeOK'
  BY DEF DeliveryInv, TypeOK, fixed
<1>3. \A k1, ret1 : CallFits(k1, ret1)' <=> CallFits(k1, ret1)
  BY DEF fixed, CallFits, AnsweredUpTo, IsHandled, PositionAfter
<1>4. CallsFit'
  <2> SUFFICES ASSUME NEW d \in Call PROVE CallFits(call[d], returned[d])'
    BY DEF CallsFit
  <2>1. CallFits(call'[d], returned'[d])
    BY <1>1 DEF DeliveryInv, CallsFit
  <2> QED
    BY <1>3, <2>1
<1>5. \A d \in Call \ {c} : call[d].at \in {"loop", "handler"} => call[d].on # w
  BY DEF DeliveryInv, OneCallPerThread
<1>6. \A d \in Call \ {c} : call[d].at = "handler" => call[d].on \in Worker
  BY RunningCall
<1>7. OneCallPerThread'
  BY <1>1, <1>5 DEF DeliveryInv, OneCallPerThread
<1>8. HandlersKnow'
  <2> SUFFICES ASSUME NEW d \in Call, call'[d].at = "handler"
               PROVE  ThreadKnows(call[d].on, PageOf(d))'
    BY DEF HandlersKnow
  <2>1. CASE d = c
    BY <1>1, <2>1 DEF ThreadKnows, PageOf, ThreadFits
  <2>2. CASE d # c
    <3>1. call'[d] = call[d] /\ call[d].at = "handler" /\ call[d].on \in Worker \ {w}
      BY <1>1, <1>5, <1>6, <2>2
    <3>2. ThreadKnows(call[d].on, PageOf(d))
      BY <3>1 DEF DeliveryInv, HandlersKnow
    <3> QED
      BY <1>1, <3>1, <3>2 DEF ThreadKnows, PageOf
  <2> QED
    BY <2>1, <2>2
<1>9. OthersHaveNone'
  <2> SUFFICES ASSUME NEW v \in Worker,
                      ~\E d \in Call : call'[d].at = "handler" /\ call'[d].on = v
               PROVE  current'[v] = NoPage /\ tokens'[v] = <<>>
    BY DEF OthersHaveNone
  <2>1. CASE v = w
    BY <1>1, <2>1 DEF ThreadFits
  <2>2. CASE v # w
    <3>1. ~\E d \in Call : call[d].at = "handler" /\ call[d].on = v
      BY <1>1, <2>2
    <3> QED
      BY <1>1, <2>2, <3>1 DEF DeliveryInv, OthersHaveNone
  <2> QED
    BY <2>1, <2>2
<1> QED
  BY <1>2, <1>4, <1>7, <1>8, <1>9 DEF DeliveryInv

\* The reaction of page n + 1 completes those of the first n + 1 pages: its
\* trigger is above all the earlier ones.
LEMMA AnsweredAppend ==
  ASSUME NEW pages \in Seq(Nat), InOrder(pages), NEW t, NEW n \in Nat,
         n + 1 \in 1..Len(pages), NEW ret \in Seq(Reaction),
         AnsweredUpTo(pages, t, n, ret), IsHandled(t, pages[n + 1]), NEW out \in Output
  PROVE  LET new == Append(ret, [trigger |-> pages[n + 1], outputs |-> out])
         IN  new \in Seq(Reaction) /\ AnsweredUpTo(pages, t, n + 1, new)
<1> DEFINE new == Append(ret, [trigger |-> pages[n + 1], outputs |-> out])
<1>1. [trigger |-> pages[n + 1], outputs |-> out] \in Reaction
  BY DEF Reaction
<1>2. /\ new \in Seq(Reaction) /\ Len(new) = Len(ret) + 1 /\ Len(ret) \in Nat
      /\ \A m \in 1..Len(ret) : new[m] = ret[m]
      /\ new[Len(ret) + 1].trigger = pages[n + 1]
  BY <1>1
<1> HIDE DEF new
<1>3. \A j \in 1..n : pages[j] < pages[n + 1]
  BY DEF InOrder
<1>4. \A m \in 1..Len(ret) : ret[m].trigger < pages[n + 1]
  BY <1>3 DEF AnsweredUpTo
<1>5. \A m \in 1..Len(new) :
        \E j \in 1..(n + 1) : new[m].trigger = pages[j] /\ IsHandled(t, pages[j])
  <2> TAKE m \in 1..Len(new)
  <2>1. CASE m \in 1..Len(ret)
    <3>1. PICK j \in 1..n : ret[m].trigger = pages[j] /\ IsHandled(t, pages[j])
      BY <2>1 DEF AnsweredUpTo
    <3>2. j \in 1..(n + 1) /\ new[m].trigger = pages[j]
      BY <1>2, <2>1, <3>1
    <3> QED
      BY <3>1, <3>2, Zenon
  <2>2. CASE m = Len(ret) + 1
    <3>1. n + 1 \in 1..(n + 1) /\ new[m].trigger = pages[n + 1]
      BY <1>2, <2>2
    <3> QED
      BY <3>1, Zenon
  <2> QED
    BY <1>2, <2>1, <2>2
<1>6. \A j \in 1..(n + 1) : IsHandled(t, pages[j]) =>
        \E m \in 1..Len(new) : new[m].trigger = pages[j]
  <2> SUFFICES ASSUME NEW j \in 1..(n + 1), IsHandled(t, pages[j])
               PROVE  \E m \in 1..Len(new) : new[m].trigger = pages[j]
    OBVIOUS
  <2>1. CASE j \in 1..n
    <3>1. PICK m \in 1..Len(ret) : ret[m].trigger = pages[j]
      BY <2>1 DEF AnsweredUpTo
    <3> QED
      BY <1>2, <3>1
  <2>2. CASE j = n + 1
    BY <1>2, <2>2, SMTT(40)
  <2> QED
    BY <2>1, <2>2
<1>7. \A m1, m2 \in 1..Len(new) : m1 < m2 => new[m1].trigger < new[m2].trigger
  <2> SUFFICES ASSUME NEW m1 \in 1..Len(new), NEW m2 \in 1..Len(new), m1 < m2
               PROVE  new[m1].trigger < new[m2].trigger
    OBVIOUS
  <2>1. m1 \in 1..Len(ret) /\ new[m1].trigger = ret[m1].trigger
    BY <1>2
  <2>4. m2 \in 1..Len(ret) \/ m2 = Len(ret) + 1
    <3> DEFINE l == Len(ret)
    <3>1. l \in Nat /\ m2 \in 1..(l + 1)
      BY <1>2
    <3> HIDE DEF l
    <3>2. m2 \in 1..l \/ m2 = l + 1
      BY <3>1
    <3> QED
      BY <3>2 DEF l
  <2>2. CASE m2 \in 1..Len(ret)
    <3>1. ret[m1].trigger < ret[m2].trigger
      BY <2>1, <2>2 DEF AnsweredUpTo
    <3> QED
      BY <1>2, <2>1, <2>2, <3>1
  <2>3. CASE m2 = Len(ret) + 1
    BY <1>2, <1>4, <2>1, <2>3
  <2> QED
    BY <2>4, <2>2, <2>3
<1>8. AnsweredUpTo(pages, t, n + 1, new)
  BY <1>5, <1>6, <1>7 DEF AnsweredUpTo
<1> QED
  BY <1>2, <1>8 DEF new

\* Entering a handler finds the thread's variable empty.
LEMMA HandlesInv ==
  ASSUME DeliveryInv, NEW c \in Call, Handles(c)
  PROVE  DeliveryInv'
<1> DEFINE old == call[c]
           ret == returned[c]
           w   == old.on
           p   == old.pages[old.next]
           k   == [old EXCEPT !.at = "handler"]
           tok == Append(tokens[w], current[w])
<1>1. /\ call' = [call EXCEPT ![c] = k] /\ UNCHANGED <<fixed, returned>>
      /\ old.at = "loop" /\ old.next <= Len(old.pages) /\ IsHandled(old.translated, p)
      /\ current' = [current EXCEPT ![w] = p] /\ tokens' = [tokens EXCEPT ![w] = tok]
  BY DEF Handles, InLoop, Handled, IsHandled, PageOf, Enters
<1>2. /\ old \in RunningState /\ old.pages \in Seq(Nat) /\ w \in Worker
      /\ InOrder(old.pages) /\ old.next \in 1..(Len(old.pages) + 1)
      /\ AnsweredUpTo(old.pages, old.translated, old.next - 1, ret) /\ old.answer = ret
      /\ ret \in Seq(Reaction)
      /\ \A d \in Call \ {c} : call[d].at \in {"loop", "handler"} => call[d].on # w
  BY <1>1, RunningCall
<1>3. returned' = [returned EXCEPT ![c] = ret]
  BY <1>1 DEF DeliveryInv, TypeOK
<1>4. ~\E d \in Call : call[d].at = "handler" /\ call[d].on = w
  BY <1>1, <1>2
<1>5. current[w] = NoPage /\ tokens[w] = <<>>
  BY <1>2, <1>4 DEF DeliveryInv, OthersHaveNone
<1>6. tok \in Seq(Nat \cup {NoPage}) /\ Len(tok) = 1 /\ tok[1] = NoPage
  BY <1>5
<1>7. p \in Nat
  BY <1>1, <1>2, SMTT(40)
<1>8. call[c].at \in {"loop", "handler"} /\ call[c].on = w
  BY <1>1
<1> HIDE DEF tok, old, ret, w
<1>9. /\ k \in RunningState /\ k.at = "handler" /\ k.next = old.next
      /\ k.pages = old.pages /\ k.on = old.on /\ k.answer = old.answer
      /\ k.translated = old.translated
  BY <1>2, RunningAt
<1> HIDE DEF k
<1>10. CallFits(k, ret)
  BY <1>1, <1>2, <1>9 DEF CallFits
<1>11. k \in CallState /\ k.pages[k.next] = p /\ k.on = w
  BY <1>9 DEF CallState, w
<1> HIDE DEF p
<1>12. ThreadFits(k, p, tok)
  BY <1>6, <1>9, <1>11 DEF ThreadFits
<1>13. k.at \in {"loop", "handler", "ended"} /\ UNCHANGED fixed
  BY <1>1, <1>9
<1> QED
  BY <1>1, <1>2, <1>3, <1>6, <1>7, <1>8, <1>10, <1>11, <1>12, <1>13, HandlerStep

\* What the invariant says of a handler.
LEMMA RunningHandler ==
  ASSUME DeliveryInv, NEW c \in Call, call[c].at = "handler"
  PROVE  /\ call[c].next <= Len(call[c].pages) /\ PageOf(c) \in Nat
         /\ IsHandled(call[c].translated, PageOf(c))
         /\ ThreadKnows(call[c].on, PageOf(c))
         /\ tokens[call[c].on] \in Seq(Nat \cup {NoPage})
         /\ current[call[c].on] \in Nat \cup {NoPage}
         /\ CallFits(call[c], returned[c]) /\ call[c] \in CallState
<1>1. CallFits(call[c], returned[c]) /\ call[c] \in CallState
  BY DEF DeliveryInv, CallsFit, TypeOK
<1>2. ThreadKnows(call[c].on, PageOf(c))
  BY DEF DeliveryInv, HandlersKnow
<1>3. /\ call[c].on \in Worker /\ call[c].pages \in Seq(Nat)
      /\ call[c].next \in 1..(Len(call[c].pages) + 1)
  BY RunningCall
<1> QED
  BY <1>1, <1>2, <1>3, SMTT(40) DEF DeliveryInv, TypeOK, CallFits, PageOf

\* A step inside the handler of c: only its thread's variable moves.
LEMMA InsideStep ==
  ASSUME DeliveryInv, UNCHANGED <<fixed, call, returned>>,
         NEW c \in Call, call[c].at = "handler",
         NEW cur \in Nat \cup {NoPage}, NEW tok \in Seq(Nat \cup {NoPage}),
         current' = [current EXCEPT ![call[c].on] = cur],
         tokens' = [tokens EXCEPT ![call[c].on] = tok],
         Len(tok) >= 1, tok[1] = NoPage,
         Len(tok) = 1 => cur = PageOf(c), Len(tok) > 1 => tok[2] = PageOf(c)
  PROVE  DeliveryInv'
<1> DEFINE k   == call[c]
           ret == returned[c]
           w   == call[c].on
<1>1. /\ k \in CallState /\ ret \in Seq(Reaction) /\ CallFits(k, ret) /\ w \in Worker
      /\ UNCHANGED fixed
  BY RunningCall, RunningHandler
<1>2. call' = [call EXCEPT ![c] = k] /\ returned' = [returned EXCEPT ![c] = ret]
  BY DEF DeliveryInv, TypeOK
<1>3. call[c].at \in {"loop", "handler"} /\ call[c].on = w
      /\ k.at \in {"loop", "handler", "ended"} /\ k.on = w
  OBVIOUS
<1>4. ThreadFits(k, cur, tok)
  BY DEF ThreadFits, PageOf
<1>5. current' = [current EXCEPT ![w] = cur] /\ tokens' = [tokens EXCEPT ![w] = tok]
  OBVIOUS
<1> HIDE DEF k, ret, w
<1> QED
  BY <1>1, <1>2, <1>3, <1>4, <1>5, HandlerStep

\* A nested dispatch puts the handler's page on top of what it resets.
LEMMA NestsInv ==
  ASSUME DeliveryInv, NEW c \in Call, Nests(c)
  PROVE  DeliveryInv'
<1> DEFINE w   == call[c].on
           tok == Append(tokens[w], current[w])
<1>1. PICK p \in 0..Len(stream) :
        /\ current' = [current EXCEPT ![w] = p] /\ tokens' = [tokens EXCEPT ![w] = tok]
  BY DEF Nests, Enters
<1>2. call[c].at = "handler" /\ UNCHANGED <<fixed, call, returned>>
  BY DEF Nests
<1>3. /\ ThreadKnows(w, PageOf(c)) /\ tokens[w] \in Seq(Nat \cup {NoPage})
      /\ current[w] \in Nat \cup {NoPage}
  BY <1>2, RunningHandler
<1>4. /\ tok \in Seq(Nat \cup {NoPage}) /\ Len(tok) > 1 /\ tok[1] = NoPage
      /\ tok[2] = PageOf(c)
  <2>1. Len(tokens[w]) \in Nat /\ Len(tokens[w]) >= 1 /\ Len(tok) = Len(tokens[w]) + 1
        /\ tok \in Seq(Nat \cup {NoPage})
    BY <1>3 DEF ThreadKnows
  <2>2. CASE Len(tokens[w]) = 1
    <3>1. /\ Len(tok) = 2 /\ tok[1] = tokens[w][1] /\ tok[2] = current[w]
      BY <1>3, <2>1, <2>2
    <3> QED
      BY <1>3, <2>1, <2>2, <3>1 DEF ThreadKnows
  <2>3. CASE Len(tokens[w]) > 1
    <3>1. /\ Len(tok) > 1 /\ tok[1] = tokens[w][1] /\ tok[2] = tokens[w][2]
      BY <1>3, <2>1, <2>3
    <3> QED
      BY <1>3, <2>1, <2>3, <3>1 DEF ThreadKnows
  <2>4. Len(tokens[w]) = 1 \/ Len(tokens[w]) > 1
    <3> DEFINE l == Len(tokens[w])
    <3>1. l \in Nat /\ l >= 1
      BY <2>1
    <3> HIDE DEF l
    <3>2. l = 1 \/ l > 1
      BY <3>1
    <3> QED
      BY <3>2 DEF l
  <2> QED
    BY <2>2, <2>3, <2>4
<1>5. p \in Nat \cup {NoPage} /\ Len(tok) >= 1 /\ Len(tok) # 1
  BY <1>4 DEF DeliveryInv, TypeOK
<1> HIDE DEF tok
<1> QED
  BY <1>1, <1>2, <1>4, <1>5, InsideStep

\* A nested dispatch that ends puts back what it found.
LEMMA UnnestsInv ==
  ASSUME DeliveryInv, NEW c \in Call, Unnests(c)
  PROVE  DeliveryInv'
<1> DEFINE w   == call[c].on
           cur == Last(tokens[w])
           tok == Front(tokens[w])
<1>1. /\ call[c].at = "handler" /\ UNCHANGED <<fixed, call, returned>>
      /\ Len(tokens[w]) > 1
      /\ current' = [current EXCEPT ![w] = cur] /\ tokens' = [tokens EXCEPT ![w] = tok]
  BY DEF Unnests, Leaves
<1>2. ThreadKnows(w, PageOf(c)) /\ tokens[w] \in Seq(Nat \cup {NoPage})
  BY <1>1, RunningHandler
<1>3. /\ tokens[w][1] = NoPage /\ tokens[w][2] = PageOf(c) /\ Len(tokens[w]) \in Nat
  BY <1>1, <1>2 DEF ThreadKnows
<1>4. /\ tok \in Seq(Nat \cup {NoPage}) /\ Len(tok) = Len(tokens[w]) - 1
      /\ tok[1] = NoPage
      /\ Len(tok) > 1 => tok[2] = PageOf(c)
  BY <1>1, <1>2, <1>3 DEF Front
<1>5. cur \in Nat \cup {NoPage} /\ (Len(tokens[w]) = 2 => cur = PageOf(c))
  BY <1>1, <1>2, <1>3 DEF Last
<1>6. Len(tok) >= 1 /\ (Len(tok) = 1 => cur = PageOf(c))
  BY <1>1, <1>3, <1>4, <1>5
<1> HIDE DEF tok, cur
<1> QED
  BY <1>1, <1>4, <1>5, <1>6, InsideStep

\* A handler that returns adds its reaction and leaves its thread with no page.
LEMMA ReturnsInv ==
  ASSUME DeliveryInv, NEW c \in Call, Returns(c)
  PROVE  DeliveryInv'
<1> DEFINE old == call[c]
           n   == old.next - 1
           m   == old.next + 1
           w   == old.on
           cur == Last(tokens[w])
           tok == Front(tokens[w])
<1>1. /\ old.at = "handler" /\ Len(tokens[w]) = 1
      /\ current' = [current EXCEPT ![w] = cur] /\ tokens' = [tokens EXCEPT ![w] = tok]
      /\ UNCHANGED fixed
  BY DEF Returns, Leaves
<1>2. PICK out \in Output :
        /\ returned' = [returned EXCEPT ![c] =
                          Append(@, [trigger |-> PageOf(c), outputs |-> out])]
        /\ call' = [call EXCEPT ![c] = Answered(c, out)]
  BY DEF Returns
<1> DEFINE new == Append(returned[c], [trigger |-> old.pages[n + 1], outputs |-> out])
           k   == Advanced(old, m, new)
<1>3. /\ old \in RunningState /\ old.pages \in Seq(Nat) /\ w \in Worker
      /\ InOrder(old.pages) /\ old.next \in 1..(Len(old.pages) + 1)
      /\ AnsweredUpTo(old.pages, old.translated, old.next - 1, returned[c])
      /\ old.answer = returned[c] /\ returned[c] \in Seq(Reaction)
  BY <1>1, RunningCall
<1>4. /\ old.next <= Len(old.pages) /\ IsHandled(old.translated, PageOf(c))
      /\ ThreadKnows(w, PageOf(c)) /\ tokens[w] \in Seq(Nat \cup {NoPage})
  BY <1>1, RunningHandler
<1>5. /\ n \in Nat /\ n + 1 = old.next /\ n + 1 \in 1..Len(old.pages)
      /\ m \in 1..(Len(old.pages) + 1) /\ m \in Nat /\ m - 1 = n + 1 /\ old.next - 1 = n
  <2> DEFINE x == old.next
             l == Len(old.pages)
  <2>1. l \in Nat /\ x \in 1..(l + 1) /\ x <= l
    BY <1>3, <1>4
  <2> HIDE DEF x, l
  <2>2. /\ x - 1 \in Nat /\ x - 1 + 1 = x /\ x \in 1..l
        /\ x + 1 \in 1..(l + 1) /\ x + 1 \in Nat /\ x + 1 - 1 = x
    BY <2>1
  <2> QED
    BY <2>2 DEF x, l
<1>6. PageOf(c) = old.pages[n + 1]
  BY <1>5 DEF PageOf
<1>7. returned' = [returned EXCEPT ![c] = new] /\ call' = [call EXCEPT ![c] = k]
  BY <1>2, <1>3, <1>5, <1>6 DEF Answered, Advanced
<1>8. cur = NoPage /\ tok = <<>>
  BY <1>1, <1>4 DEF ThreadKnows, Last, Front
<1>9. <<>> \in Seq(Nat \cup {NoPage}) /\ NoPage \in Nat \cup {NoPage}
      /\ call[c].at \in {"loop", "handler"} /\ call[c].on = w
  BY <1>1
<1> HIDE DEF cur, tok, old, n, m, w
<1>10. new \in Seq(Reaction) /\ AnsweredUpTo(old.pages, old.translated, n + 1, new)
  BY <1>3, <1>4, <1>5, <1>6, AnsweredAppend
<1> HIDE DEF new
<1>11. /\ k \in RunningState /\ k.at = "loop" /\ k.next = m
       /\ k.pages = old.pages /\ k.on = old.on /\ k.answer = new
       /\ k.translated = old.translated
  <2>1. old \in RunningState /\ m \in Nat /\ new \in Seq(Reaction)
    BY <1>3, <1>5, <1>10
  <2> QED
    BY <2>1, RunningAnswered
<1> HIDE DEF k
<1>12. CallFits(k, new)
  BY <1>3, <1>5, <1>10, <1>11 DEF CallFits
<1>13. k \in CallState /\ k.on = w /\ k.at \in {"loop", "handler", "ended"} /\ k.at # "handler"
  BY <1>11 DEF CallState, w
<1>14. ThreadFits(k, cur, tok)
  BY <1>8, <1>13 DEF ThreadFits
<1>15. cur \in Nat \cup {NoPage} /\ tok \in Seq(Nat \cup {NoPage})
  BY <1>8, <1>9
<1> QED
  BY <1>1, <1>3, <1>7, <1>9, <1>10, <1>12, <1>13, <1>14, <1>15, HandlerStep

\* An exception, out of any nesting, leaves its thread with no page and the
\* call with no answer.
LEMMA RaisesInv ==
  ASSUME DeliveryInv, NEW c \in Call, Raises(c)
  PROVE  DeliveryInv'
<1> DEFINE old == call[c]
           ret == returned[c]
           w   == old.on
<1>1. /\ old.at = "handler" /\ UNCHANGED <<fixed, returned>>
      /\ current' = [current EXCEPT ![w] = tokens[w][1]]
      /\ tokens' = [tokens EXCEPT ![w] = <<>>]
  BY DEF Raises, Escapes
<1>2. PICK what \in {"coded", "unclassified", "panic"} : Ended(c, Code(what), <<>>)
  BY DEF Raises
<1> DEFINE code == Code(what)
           k    == [at |-> "ended", pages |-> old.pages, translated |-> old.translated,
                    code |-> code, answer |-> <<>>, after |-> After(c)]
<1>3. code \in Codes /\ code # "OK"
  BY DEF Code, Codes
<1>4. call' = [call EXCEPT ![c] = k]
  BY <1>2 DEF Ended
<1>5. /\ old.pages \in Seq(Nat) /\ old.translated \in BOOLEAN /\ w \in Worker
      /\ InOrder(old.pages) /\ ret \in Seq(Reaction)
  BY <1>1, RunningCall
<1>6. tokens[w][1] = NoPage
  BY <1>1, RunningHandler DEF ThreadKnows
<1>7. After(c) \in Nat
  BY <1>5 DEF After, Last, DeliveryInv, TypeOK
<1>8. returned' = [returned EXCEPT ![c] = ret]
  BY <1>1 DEF DeliveryInv, TypeOK
<1>9. call[c].at \in {"loop", "handler"} /\ call[c].on = w /\ <<>> \in Seq(Reaction)
  BY <1>1
<1> HIDE DEF code, old, ret, w
<1>10. k \in CallState /\ k.at = "ended" /\ k.code = code /\ k.answer = <<>>
       /\ k.pages = old.pages
  <2> DEFINE none == <<>>
  <2>1. none \in Seq(Reaction)
    BY <1>9
  <2> HIDE DEF none
  <2>2. LET r == [at |-> "ended", pages |-> old.pages, translated |-> old.translated,
                  code |-> code, answer |-> none, after |-> After(c)]
        IN  r \in CallState /\ r.at = "ended" /\ r.code = code /\ r.answer = none
            /\ r.pages = old.pages
    BY <1>3, <1>5, <1>7, <2>1, EndedRecord
  <2> QED
    BY <2>2 DEF none
<1> HIDE DEF k
<1>11. CallFits(k, ret)
  BY <1>3, <1>5, <1>10 DEF CallFits
<1>12. /\ <<>> \in Seq(Nat \cup {NoPage}) /\ NoPage \in Nat \cup {NoPage}
       /\ k.at \in {"loop", "handler", "ended"} /\ k.at # "handler" /\ k.at # "loop"
       /\ current' = [current EXCEPT ![w] = NoPage] /\ UNCHANGED fixed
  BY <1>1, <1>6, <1>10
<1>13. ThreadFits(k, NoPage, <<>>) /\ (k.at \in {"loop", "handler"} => k.on = w)
  BY <1>12 DEF ThreadFits
<1> QED
  BY <1>1, <1>4, <1>5, <1>8, <1>9, <1>10, <1>11, <1>12, <1>13, HandlerStep

\* A step that changes nothing keeps the invariant.
LEMMA StutterInv == DeliveryInv /\ UNCHANGED deliveryVars => DeliveryInv'
BY DEF DeliveryInv, TypeOK, CallsFit, CallFits, AnsweredUpTo, IsHandled, PositionAfter,
       OneCallPerThread, HandlersKnow, ThreadKnows, PageOf, OthersHaveNone,
       deliveryVars, fixed

\* The invariant holds whatever threads, calls, streams and bounds there are.
THEOREM DeliveryInvariant == DeliverySpec => []DeliveryInv
<1>1. DeliveryInv /\ DeliveryNext => DeliveryInv'
  BY DeliversInv, SettlesInv, BeginsInv, SkipsInv, HandlesInv, NestsInv, UnnestsInv,
     ReturnsInv, RaisesInv, AnswersInv DEF DeliveryNext
<1> QED
  BY <1>1, InitInv, StutterInv, PTL DEF DeliverySpec

\* Business code is told the page it is handling, on any number of threads,
\* nested to any depth and after any failure (router/context.py: handling
\* resets the variable it set).
THEOREM PageIsKnown == DeliverySpec => []HandlerSeesItsPage
<1>1. DeliveryInv => HandlerSeesItsPage
  BY DEF DeliveryInv, HandlersKnow, ThreadKnows, OthersHaveNone, HandlerSeesItsPage
<1> QED
  BY <1>1, DeliveryInvariant, PTL

\* An answer holds what this call's handlers returned, for exactly the handled
\* pages of its book and in their order, and a failure answers nothing
\* (policy.py and projector.py: the response is made for each call).
THEOREM AnswerIsOfItsBook == DeliverySpec => []AnswerIsItsBook
<1>1. ASSUME DeliveryInv, NEW c \in Call, call[c].at = "ended", call[c].code = "OK"
      PROVE  LET pages  == call[c].pages
                 answer == call[c].answer
             IN  /\ answer = returned[c]
                 /\ {answer[n].trigger : n \in DOMAIN answer} =
                      {p \in ToSet(pages) : Handled(c, p)}
                 /\ \A m, n \in DOMAIN answer :
                      m < n => answer[m].trigger < answer[n].trigger
                 /\ call[c].after = IF pages = <<>> THEN Len(stream) + 1
                                    ELSE Max(ToSet(pages)) + 1
  <2> DEFINE pages  == call[c].pages
             answer == call[c].answer
             t      == call[c].translated
  <2>1. /\ InOrder(pages) /\ answer = returned[c] /\ call[c].after = PositionAfter(pages)
        /\ AnsweredUpTo(pages, t, Len(pages), answer)
    BY <1>1 DEF DeliveryInv, CallsFit, CallFits
  <2>2. pages \in Seq(Nat) /\ answer \in Seq(Reaction)
    <3>1. call[c] \in EndedState
      BY <1>1, KindOfState DEF DeliveryInv, TypeOK
    <3> QED
      BY <3>1 DEF EndedState
  <2>3. \A p : Handled(c, p) <=> IsHandled(t, p)
    BY DEF Handled, IsHandled
  <2> HIDE DEF pages, answer, t
  <2>4. DOMAIN answer = 1..Len(answer) /\ DOMAIN pages = 1..Len(pages) /\ Len(pages) \in Nat
    BY <2>2
  <2>5. {answer[n].trigger : n \in DOMAIN answer} = {p \in ToSet(pages) : Handled(c, p)}
    <3>1. ASSUME NEW n \in DOMAIN answer
          PROVE  answer[n].trigger \in ToSet(pages) /\ Handled(c, answer[n].trigger)
      <4>1. PICK j \in 1..Len(pages) :
              answer[n].trigger = pages[j] /\ IsHandled(t, pages[j])
        BY <2>1, <2>4, <3>1 DEF AnsweredUpTo
      <4>2. pages[j] \in ToSet(pages)
        BY <2>4 DEF ToSet
      <4> QED
        BY <2>3, <4>1, <4>2
    <3>2. ASSUME NEW p \in ToSet(pages), Handled(c, p)
          PROVE  \E n \in DOMAIN answer : p = answer[n].trigger
      <4>1. PICK j \in 1..Len(pages) : p = pages[j]
        BY <2>4 DEF ToSet
      <4>2. IsHandled(t, pages[j])
        BY <2>3, <3>2, <4>1
      <4> QED
        BY <2>1, <2>4, <4>1, <4>2 DEF AnsweredUpTo
    <3> QED
      BY <3>1, <3>2
  <2>6. \A m, n \in DOMAIN answer : m < n => answer[m].trigger < answer[n].trigger
    BY <2>1, <2>4 DEF AnsweredUpTo
  <2>7. pages # <<>> => Max(ToSet(pages)) = pages[Len(pages)]
    <3> SUFFICES ASSUME pages # <<>> PROVE Max(ToSet(pages)) = pages[Len(pages)]
      OBVIOUS
    <3>1. Len(pages) \in 1..Len(pages)
      BY <2>2
    <3>2. pages[Len(pages)] \in ToSet(pages) /\ ToSet(pages) \subseteq Nat
      BY <2>2, <2>4, <3>1, SMTT(40) DEF ToSet
    <3>3. \A x \in ToSet(pages) : pages[Len(pages)] >= x
      <4> HIDE DEF pages
      <4> TAKE x \in ToSet(pages)
      <4>1. PICK j \in 1..Len(pages) : x = pages[j]
        BY <2>4 DEF ToSet
      <4> DEFINE l == Len(pages)
      <4>2. l \in Nat /\ j \in 1..l
        BY <2>4, <4>1
      <4> HIDE DEF l
      <4>3. j = l \/ j < l
        BY <4>2
      <4> QED
        BY <2>1, <2>2, <3>1, <4>1, <4>3 DEF InOrder, l
    <3>4. \A y \in ToSet(pages) : (\A x \in ToSet(pages) : y >= x) => y = pages[Len(pages)]
      BY <3>2, <3>3
    <3> HIDE DEF pages
    <3> QED
      BY <3>2, <3>3, <3>4 DEF Max
  <2> QED
    BY <2>1, <2>5, <2>6, <2>7 DEF PositionAfter, pages, answer
<1>2. ASSUME DeliveryInv, NEW c \in Call, call[c].at = "ended", call[c].code # "OK"
      PROVE  call[c].answer = <<>>
  BY <1>2 DEF DeliveryInv, CallsFit, CallFits
<1>3. DeliveryInv => AnswerIsItsBook
  BY <1>1, <1>2 DEF AnswerIsItsBook
<1> QED
  BY <1>3, DeliveryInvariant, PTL

----------------------------------------------------------------------------
\* What a reader with page p in hand must get, or fail with.
Read(p) == IF Asked(p) THEN Decoded(p.bytes) ELSE Refused

\* A reader's inductive invariant: it is at the page after those it has read.
ReaderInv ==
  /\ book \in Seq(AnyPage)
  /\ reader \in [decoder : Decoders, name : MessageType, type : MessageType]
  /\ reader.decoder # "decode_event" => reader.name = reader.type
  /\ read \in Seq({Refused} \cup {Decoded(c) : c \in Content})
  /\ next = Len(read) + 1
  /\ ReaderTakesItsPages

\* Each of the four decoders answers the message of a page asked for, refuses
\* another (unpack alone raises), and never passes over corrupt bytes.
LEMMA DecodesAsked ==
  ASSUME NEW page \in AnyPage,
         reader \in [decoder : Decoders, name : MessageType, type : MessageType],
         reader.decoder # "decode_event" => reader.name = reader.type
  PROVE  LET answer == Decode(reader, page)
         IN  \/ answer = Read(page) /\ (Asked(page) => page.bytes # "corrupt")
             \/ answer = Error("DecodeError") /\ Asked(page) /\ page.bytes = "corrupt"
             \/ answer = Error("ValueError") /\ ~Asked(page) /\ reader.decoder = "unpack"
BY DEF Decode, Decoders, decode_event, decode_typed, try_unpack, unpack, Unpack, Parse, Is,
       type_matches, type_url_matches, Asked, Read

\* Reading one page, or failing at it, keeps the invariant.
LEMMA ReaderStep == ReaderInv /\ [ReaderNext]_readerVars => ReaderInv'
<1> SUFFICES ASSUME ReaderInv, [ReaderNext]_readerVars PROVE ReaderInv'
  OBVIOUS
<1>1. CASE UNCHANGED readerVars
  BY <1>1 DEF readerVars, ReaderInv, ReaderTakesItsPages, Asked
<1>2. CASE Reads
  <2> DEFINE page == book[next]
             answer == Decode(reader, page)
  <2>1. page \in AnyPage /\ next \in Nat /\ UNCHANGED <<book, reader>> /\ raised = Unset
    BY <1>2 DEF Reads, ReaderInv
  <2>2. next \in 1..Len(book) /\ DOMAIN book = 1..Len(book) /\ Len(book) \in Nat
    BY <1>2 DEF Reads, ReaderInv
  <2>3. \A p : Asked(p)' <=> Asked(p)
    BY <2>1 DEF Asked
  <2>4. \/ answer = Read(page) /\ (Asked(page) => page.bytes # "corrupt")
        \/ answer = Error("DecodeError") /\ Asked(page) /\ page.bytes = "corrupt"
        \/ answer = Error("ValueError") /\ ~Asked(page) /\ reader.decoder = "unpack"
    BY <2>1, DecodesAsked DEF ReaderInv
  <2>5. /\ answer.how = "raised" => raised' = answer.what /\ UNCHANGED <<next, read>>
        /\ answer.how # "raised" =>
             next' = next + 1 /\ read' = Append(read, answer) /\ UNCHANGED raised
    BY <1>2 DEF Reads
  <2> HIDE DEF answer, page
  <2>6. CASE answer = Read(page) /\ (Asked(page) => page.bytes # "corrupt")
    <3>1. answer \in {Refused} \cup {Decoded(c) : c \in Content} /\ answer.how # "raised"
      BY <2>1, <2>6 DEF Read, AnyPage, Payload, Bytes, Asked, Refused, Decoded
    <3>2. next' = next + 1 /\ read' = Append(read, answer) /\ raised' = Unset
      BY <2>1, <2>5, <3>1
    <3>3. /\ read' \in Seq({Refused} \cup {Decoded(c) : c \in Content})
          /\ Len(read') = next /\ next' = Len(read') + 1
          /\ DOMAIN read' = 1..next
          /\ \A n \in 1..(next - 1) : read'[n] = read[n] /\ n \in DOMAIN read
          /\ read'[next] = answer
      BY <2>1, <3>1, <3>2 DEF ReaderInv
    <3>4. \A n \in DOMAIN read : read[n] = Read(book[n])
      BY DEF ReaderInv, ReaderTakesItsPages, Read
    <3>5. \A n \in 1..next : read'[n] = Read(book[n])
      BY <2>1, <2>6, <3>3, <3>4 DEF page
    <3>6. ReaderTakesItsPages'
      BY <2>1, <2>3, <3>2, <3>3, <3>5 DEF ReaderTakesItsPages, Read
    <3> QED
      BY <2>1, <3>3, <3>6 DEF ReaderInv
  <2>7. CASE answer.how = "raised"
    <3>1. raised' = answer.what /\ UNCHANGED <<book, reader, next, read>>
      BY <2>1, <2>5, <2>7
    <3>2. \A n \in DOMAIN read : read[n] = IF Asked(book[n]) THEN Decoded(book[n].bytes)
                                                               ELSE Refused
      BY DEF ReaderInv, ReaderTakesItsPages
    <3>3. answer # Read(page)
      BY <2>7 DEF Read, Refused, Decoded
    <3>4. \/ answer.what = "DecodeError" /\ Asked(book[next]) /\ book[next].bytes = "corrupt"
          \/ answer.what = "ValueError" /\ ~Asked(book[next]) /\ reader.decoder = "unpack"
      BY <2>4, <3>3 DEF Error, page
    <3>5. ReaderTakesItsPages'
      BY <2>3, <3>1, <3>2, <3>4 DEF ReaderTakesItsPages
    <3> QED
      BY <3>1, <3>5 DEF ReaderInv
  <2>8. Error("DecodeError").how = "raised" /\ Error("ValueError").how = "raised"
    BY DEF Error
  <2> QED
    BY <2>4, <2>6, <2>7, <2>8
<1> QED
  BY <1>1, <1>2 DEF ReaderNext, Finished

\* Nothing is read at the start.
LEMMA ReaderStarts == ReaderInit => ReaderInv
<1> SUFFICES ASSUME ReaderInit PROVE ReaderInv
  OBVIOUS
<1>1. book \in Seq(AnyPage)
  BY DEF ReaderInit
<1> QED
  BY <1>1 DEF ReaderInit, ReaderInv, ReaderTakesItsPages

\* A reader with any decoder takes exactly the pages of its type, with their
\* content (wrappers.py and helpers.py).
THEOREM PagesAreTaken == ReaderSpec => []ReaderTakesItsPages
<1>1. ReaderInv => ReaderTakesItsPages
  BY DEF ReaderInv
<1> QED
  BY <1>1, ReaderStarts, ReaderStep, PTL DEF ReaderSpec
=============================================================================
