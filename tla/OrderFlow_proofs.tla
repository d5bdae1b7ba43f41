-------------------------- MODULE OrderFlow_proofs --------------------------
(* Proofs about OrderFlow, for any number of overlapping handlings, any texts  *)
(* and any limit.                                                              *)
EXTENDS OrderFlow, TLAPS

\* The columns the questions before a step have filled.
AskedBefore(step) ==
    CASE step = "awaiting_phone" -> {"name"}
      [] step = "awaiting_address" -> {"name", "orderPhone"}
      [] step = "awaiting_product" -> {"name", "orderPhone", "location"}
      [] step \in {"awaiting_notes", "done"} -> Columns
      [] OTHER -> {}

\* The answers to the questions before a step are there, and new ones if alone.
Covers(answers, alone, step) ==
    \A c \in AskedBefore(step) :
        answers[c] # "missing" /\ (alone => answers[c] = "new")

\* The row covers its own step, what a handling has read covers the step it has
\* read, and the row keeps covering that step until the handling writes.
Covered ==
    /\ Covers(lead.answers, lead.alone, lead.orderStep)
    /\ \A h \in Handlers :
           /\ handler[h].pc \in {"answer", "confirmed"} =>
                  Covers(handler[h].answers, handler[h].alone, handler[h].step)
           /\ At(h, "answer") => Covers(lead.answers, lead.alone, handler[h].step)
           /\ At(h, "confirmed") => handler[h].step = "awaiting_notes"

\* What is known of the lead is so.
KnownIsSo ==
    \A h \in Handlers :
        /\ known[h].none => lead.orderStep = "none"
        /\ known[h].taken => lead.status # "NEW"
        /\ known[h].stale => lead.age > Limit

\* What a handling is about to write does not contradict what is known.
WritesKnown ==
    \A h \in Handlers :
        /\ At(h, "answer") => /\ lead.exists
                              /\ handler[h].step \in Questions
                              /\ ~known[h].none
                              /\ ~known[h].taken
                              /\ known[h].stale => handler[h].intent
        /\ At(h, "start") => handler[h].intent

OrderInv == OrderTypeOK /\ Covered /\ KnownIsSo /\ WritesKnown

-----------------------------------------------------------------------------
(* The row changes *)

\* Whatever the row becomes, what remains known of it is so, and nothing is
\* known that was not known before.
LEMMA ChangesKeepKnown ==
    ASSUME OrderTypeOK, NEW l \in LeadType, Changes(l)
    PROVE  /\ lead' = l
           /\ known' \in [Handlers -> KnownType]
           /\ KnownIsSo'
           /\ \A h \in Handlers : /\ known'[h].none => known[h].none
                                  /\ known'[h].taken => known[h].taken
                                  /\ known'[h].stale => known[h].stale
  BY DEF OrderTypeOK, Changes, KnownIsSo, KnownType, LeadType

\* A handling that ends has nothing under way.
LEMMA FinishIsIdle ==
    ASSUME OrderTypeOK, NEW h \in Handlers, NEW pc \in {"idle", "arrived"}, Finish(h, pc)
    PROVE  /\ handler' \in [Handlers -> HandlerType]
           /\ handler'[h].pc = pc
           /\ \A i \in Handlers \ {h} : handler'[i] = handler[i]
  BY DEF OrderTypeOK, Finish, Idle, HandlerType, NoAnswers, Answers

\* A step that leaves the answers and the step of the row alone, or takes the
\* step away, covers what was covered.
LEMMA KeptAnswersCover ==
    ASSUME OrderInv, NEW l \in LeadType,
           l.answers = lead.answers, l.alone = lead.alone,
           l.orderStep \in {lead.orderStep, "none"}
    PROVE  /\ Covers(l.answers, l.alone, l.orderStep)
           /\ \A h \in Handlers :
                  At(h, "answer") => Covers(l.answers, l.alone, handler[h].step)
  BY DEF OrderInv, Covered, Covers, AskedBefore

-----------------------------------------------------------------------------
(* One lemma per action *)

LEMMA InitInv == Init => OrderInv
<1> SUFFICES ASSUME Init PROVE OrderInv
  OBVIOUS
<1> USE OrderAssumption DEF Init, Idle, NoAnswers, NothingKnown
<1>1. OrderTypeOK
  <2>1. lead \in LeadType
    BY DEF LeadType, LeadStatus, Answers
  <2>2. handler \in [Handlers -> HandlerType]
    BY DEF HandlerType, Answers
  <2>3. known \in [Handlers -> KnownType]
    BY DEF KnownType
  <2> QED
    BY <2>1, <2>2, <2>3 DEF OrderTypeOK
<1>2. Covered
  BY DEF Covered, Covers, AskedBefore, At
<1>3. KnownIsSo /\ WritesKnown
  BY DEF KnownIsSo, WritesKnown, At
<1> QED
  BY <1>1, <1>2, <1>3 DEF OrderInv

LEMMA ArriveKeepsInv ==
    ASSUME OrderInv, NEW h \in Handlers, Arrive(h)
    PROVE  OrderInv'
<1>1. OrderTypeOK
  BY DEF OrderInv
<1>2. /\ handler' \in [Handlers -> HandlerType]
      /\ handler'[h].pc = "arrived"
      /\ \A i \in Handlers \ {h} : handler'[i] = handler[i]
  BY <1>1, FinishIsIdle DEF Arrive
<1>3. /\ lead' = lead
      /\ known' \in [Handlers -> KnownType]
      /\ known'[h] = [none |-> lead.orderStep = "none",
                      taken |-> lead.status # "NEW",
                      stale |-> Stale]
      /\ \A i \in Handlers \ {h} : known'[i] = known[i]
  BY <1>1 DEF Arrive, OrderTypeOK, KnownType, Stale
<1>4. OrderTypeOK'
  BY <1>1, <1>2, <1>3 DEF OrderTypeOK
<1>5. Covered'
  BY <1>2, <1>3 DEF OrderInv, Covered, At, Covers
<1>6. KnownIsSo'
  <2>1. /\ known'[h].none => lead.orderStep = "none"
        /\ known'[h].taken => lead.status # "NEW"
        /\ known'[h].stale => lead.age > Limit
    <3>1. /\ known'[h].none = (lead.orderStep = "none")
          /\ known'[h].taken = (lead.status # "NEW")
          /\ known'[h].stale = Stale
      BY <1>3
    <3> QED
      BY <3>1 DEF Stale
  <2> QED
    BY <1>3, <2>1 DEF OrderInv, KnownIsSo
<1>7. WritesKnown'
  BY <1>2, <1>3 DEF OrderInv, WritesKnown, At
<1> QED
  BY <1>4, <1>5, <1>6, <1>7 DEF OrderInv

\* A handling that ends without a write (Bypass, Confirm).
LEMMA LeaveKeepsInv ==
    ASSUME OrderInv, NEW h \in Handlers, Leave(h), UNCHANGED <<lead, known>>
    PROVE  OrderInv'
<1>1. OrderTypeOK
  BY DEF OrderInv
<1>2. /\ handler' \in [Handlers -> HandlerType]
      /\ handler'[h].pc = "idle"
      /\ \A i \in Handlers \ {h} : handler'[i] = handler[i]
  BY <1>1, FinishIsIdle DEF Leave
<1>3. OrderTypeOK'
  BY <1>1, <1>2 DEF OrderTypeOK
<1>4. Covered'
  BY <1>2 DEF OrderInv, Covered, At, Covers
<1>5. KnownIsSo' /\ WritesKnown'
  BY <1>2 DEF OrderInv, KnownIsSo, WritesKnown, At
<1> QED
  BY <1>3, <1>4, <1>5 DEF OrderInv

\* A change of the row that keeps its answers, by nobody or by a handling that
\* ends with it (Cancel, UpdateStatus, Tick).
LEMMA KeptAnswersKeepInv ==
    ASSUME OrderInv, NEW l \in LeadType, Changes(l),
           l.exists = lead.exists, l.answers = lead.answers, l.alone = lead.alone,
           l.orderStep \in {lead.orderStep, "none"},
           (UNCHANGED handler) \/ \E h \in Handlers : Leave(h)
    PROVE  OrderInv'
<1>1. OrderTypeOK
  BY DEF OrderInv
<1>2. /\ lead' = l
      /\ known' \in [Handlers -> KnownType]
      /\ KnownIsSo'
      /\ \A h \in Handlers : /\ known'[h].none => known[h].none
                             /\ known'[h].taken => known[h].taken
                             /\ known'[h].stale => known[h].stale
  BY <1>1, ChangesKeepKnown
<1>3. /\ handler' \in [Handlers -> HandlerType]
      /\ \A h \in Handlers : handler'[h].pc = "idle" \/ handler'[h] = handler[h]
  <2>1. CASE UNCHANGED handler
    BY <1>1, <2>1 DEF OrderTypeOK
  <2>2. ASSUME NEW h \in Handlers, Leave(h)
        PROVE  /\ handler' \in [Handlers -> HandlerType]
               /\ \A i \in Handlers : handler'[i].pc = "idle" \/ handler'[i] = handler[i]
    BY <1>1, <2>2, FinishIsIdle DEF Leave
  <2> QED
    BY <2>1, <2>2
<1>4. OrderTypeOK'
  BY <1>2, <1>3 DEF OrderTypeOK
<1>5. Covered'
  <2>1. /\ Covers(l.answers, l.alone, l.orderStep)
        /\ \A h \in Handlers :
               At(h, "answer") => Covers(l.answers, l.alone, handler[h].step)
    BY KeptAnswersCover
  <2> QED
    BY <1>2, <1>3, <2>1 DEF OrderInv, Covered, At, Covers
<1>6. WritesKnown'
  BY <1>2, <1>3 DEF OrderInv, WritesKnown, At
<1> QED
  BY <1>2, <1>4, <1>5, <1>6 DEF OrderInv

LEMMA FindPendingKeepsInv ==
    ASSUME OrderInv, NEW h \in Handlers, FindPending(h)
    PROVE  OrderInv'
<1>1. OrderTypeOK
  BY DEF OrderInv
<1>2. UNCHANGED <<lead, known>>
  BY DEF FindPending
<1> DEFINE Snapshot(i) == [pc |-> "answer", intent |-> i, step |-> lead.orderStep,
                           answers |-> lead.answers, alone |-> lead.alone]
           Starting(i) == [Idle EXCEPT !.pc = "start", !.intent = i]
<1>3. PICK text \in Texts :
          handler' = [handler EXCEPT ![h] =
              CASE Continues(text) /\ Accepts(lead.orderStep, text) ->
                       Snapshot("intent" \in text)
                [] Starts(text) -> Starting("intent" \in text)
                [] OTHER -> Idle]
  BY DEF FindPending
<1> HIDE DEF Snapshot, Starting
<1>4. \A i \in Handlers \ {h} : handler'[i] = handler[i]
  BY <1>1, <1>3 DEF OrderTypeOK
<1>5. \/ /\ Continues(text) /\ Accepts(lead.orderStep, text)
         /\ handler'[h] = Snapshot("intent" \in text)
      \/ Starts(text) /\ handler'[h] = Starting("intent" \in text)
      \/ handler'[h] = Idle
  BY <1>1, <1>3 DEF OrderTypeOK
<1>6. handler'[h] \in HandlerType
  <2>1. Snapshot("intent" \in text) \in HandlerType
    BY <1>1 DEF Snapshot, OrderTypeOK, HandlerType, LeadType
  <2>2. Idle \in HandlerType
    BY DEF Idle, HandlerType, NoAnswers, Answers
  <2>3. ASSUME NEW i \in BOOLEAN PROVE Starting(i) \in HandlerType
    BY <2>2 DEF Starting, HandlerType
  <2>4. ("intent" \in text) \in BOOLEAN
    OBVIOUS
  <2>5. Starting("intent" \in text) \in HandlerType
    BY <2>3, <2>4
  <2> QED
    BY <1>5, <2>1, <2>2, <2>5
<1>7. OrderTypeOK'
  BY <1>1, <1>2, <1>3, <1>4, <1>6 DEF OrderTypeOK
<1>8. CASE /\ Continues(text) /\ Accepts(lead.orderStep, text)
           /\ handler'[h] = Snapshot("intent" \in text)
  <2>1. /\ handler'[h].pc = "answer"
        /\ handler'[h].step = lead.orderStep
        /\ handler'[h].answers = lead.answers
        /\ handler'[h].alone = lead.alone
        /\ handler'[h].intent = ("intent" \in text)
    BY <1>8 DEF Snapshot
  <2>2. lead.orderStep \in Questions
    BY <1>8 DEF Accepts, Questions
  <2>3. Covered'
    BY <1>2, <1>4, <2>1 DEF OrderInv, Covered, At, Covers
  <2>4. /\ lead.exists
        /\ ~known[h].none /\ ~known[h].taken
        /\ known[h].stale => "intent" \in text
    BY <1>8 DEF OrderInv, KnownIsSo, Continues, Pending, Stale
  <2>5. KnownIsSo' /\ WritesKnown'
    BY <1>2, <1>4, <2>1, <2>2, <2>4 DEF OrderInv, KnownIsSo, WritesKnown, At
  <2> QED
    BY <1>7, <2>3, <2>5 DEF OrderInv
<1>9. CASE Starts(text) /\ handler'[h] = Starting("intent" \in text)
  <2>1. handler'[h].pc = "start" /\ handler'[h].intent = ("intent" \in text)
    BY <1>9 DEF Starting, Idle
  <2>2. Covered'
    BY <1>2, <1>4, <2>1 DEF OrderInv, Covered, At, Covers
  <2>3. KnownIsSo' /\ WritesKnown'
    BY <1>2, <1>4, <1>9, <2>1 DEF OrderInv, KnownIsSo, WritesKnown, At, Starts
  <2> QED
    BY <1>7, <2>2, <2>3 DEF OrderInv
<1>10. CASE handler'[h] = Idle
  <2>1. handler'[h].pc = "idle"
    BY <1>10 DEF Idle
  <2>2. Covered'
    BY <1>2, <1>4, <2>1 DEF OrderInv, Covered, At, Covers
  <2>3. KnownIsSo' /\ WritesKnown'
    BY <1>2, <1>4, <2>1 DEF OrderInv, KnownIsSo, WritesKnown, At
  <2> QED
    BY <1>7, <2>2, <2>3 DEF OrderInv
<1> QED
  BY <1>5, <1>8, <1>9, <1>10

\* Starting an order makes every answer old and asks the first question again.
LEMMA StartOrderKeepsInv ==
    ASSUME OrderInv, NEW h \in Handlers, StartOrder(h)
    PROVE  OrderInv'
<1>1. OrderTypeOK
  BY DEF OrderInv
<1> DEFINE Aged(name) == [c \in Columns |->
               LET answer == IF c = "name" THEN name ELSE lead.answers[c]
               IN  IF answer = "missing" THEN "missing" ELSE "old"]
           Alone == \A i \in Handlers : ~At(i, "answer")
           Started(name) == [exists |-> TRUE, status |-> "NEW",
                             orderStep |-> "awaiting_name", answers |-> Aged(name),
                             age |-> 0, alone |-> Alone]
<1>2. PICK name \in IF lead.exists THEN {lead.answers["name"]} ELSE {"missing", "old"} :
          Changes(Started(name))
  BY DEF StartOrder
<1>3. Started(name) \in LeadType
  <2>1. Aged(name) \in Answers
    BY DEF Answers
  <2>2. Alone \in BOOLEAN
    OBVIOUS
  <2>3. 0 \in 0..Limit + 1
    BY OrderAssumption
  <2> HIDE DEF Aged, Alone
  <2> QED
    BY <2>1, <2>2, <2>3 DEF LeadType, LeadStatus, OrderStep, Questions
<1>4. /\ lead' = Started(name)
      /\ known' \in [Handlers -> KnownType]
      /\ KnownIsSo'
      /\ \A i \in Handlers : /\ known'[i].none => known[i].none
                             /\ known'[i].taken => known[i].taken
                             /\ known'[i].stale => known[i].stale
  BY <1>1, <1>2, <1>3, ChangesKeepKnown
<1>5. /\ handler' \in [Handlers -> HandlerType]
      /\ handler'[h].pc = "idle"
      /\ \A i \in Handlers \ {h} : handler'[i] = handler[i]
  BY <1>1, FinishIsIdle DEF StartOrder, Leave
<1>6. OrderTypeOK'
  BY <1>3, <1>4, <1>5 DEF OrderTypeOK
<1>7. Covered'
  <2>1. /\ lead'.orderStep = "awaiting_name"
        /\ lead'.answers = Aged(name)
        /\ lead'.alone = Alone
    BY <1>4
  <2>2. Covers(lead.answers, lead.alone, lead.orderStep)'
    BY <2>1 DEF Covers, AskedBefore
  <2>3. ASSUME NEW i \in Handlers, At(i, "answer")'
        PROVE  Covers(lead.answers, lead.alone, handler[i].step)'
    <3>1. i # h /\ handler'[i] = handler[i] /\ At(i, "answer")
      BY <1>5, <2>3 DEF At
    <3>2. ~lead'.alone
      BY <2>1, <3>1
    <3>3. Covers(lead.answers, lead.alone, handler[i].step)
      BY <3>1 DEF OrderInv, Covered
    <3>4. ASSUME NEW c \in AskedBefore(handler[i].step)
          PROVE  lead'.answers[c] # "missing"
      <4>1. c \in Columns /\ lead.answers[c] # "missing"
        BY <3>3 DEF Covers, AskedBefore, Columns
      <4>2. lead.exists
        BY <3>1 DEF OrderInv, WritesKnown
      <4> QED
        BY <1>2, <2>1, <4>1, <4>2
    <3> QED
      BY <3>1, <3>2, <3>4 DEF Covers
  <2>4. ASSUME NEW i \in Handlers
        PROVE  /\ (handler[i].pc \in {"answer", "confirmed"} =>
                      Covers(handler[i].answers, handler[i].alone, handler[i].step))'
               /\ (At(i, "confirmed") => handler[i].step = "awaiting_notes")'
    BY <1>5 DEF OrderInv, Covered, At, Covers
  <2> QED
    BY <2>2, <2>3, <2>4 DEF Covered
<1>8. WritesKnown'
  BY <1>4, <1>5 DEF OrderInv, WritesKnown, At
<1> QED
  BY <1>4, <1>6, <1>7, <1>8 DEF OrderInv

\* An answer fills its column and moves on to a step that needs no other column.
LEMMA SaveKeepsInv ==
    ASSUME OrderInv, NEW h \in Handlers,
           NEW step \in Questions, NEW column \in Columns, NEW next \in OrderStep,
           AskedBefore(next) \subseteq AskedBefore(step) \cup {column},
           Save(h, step, column, next)
    PROVE  OrderInv'
<1>1. OrderTypeOK
  BY DEF OrderInv
<1> DEFINE saved == [lead EXCEPT !.answers[column] = "new", !.orderStep = next, !.age = 0]
<1>2. /\ saved \in LeadType
      /\ saved.exists = lead.exists
      /\ saved.orderStep = next
      /\ saved.alone = lead.alone
      /\ saved.answers[column] = "new"
      /\ \A c \in Columns \ {column} : saved.answers[c] = lead.answers[c]
  <2>1. 0 \in 0..Limit + 1
    BY OrderAssumption
  <2>2. [lead.answers EXCEPT ![column] = "new"] \in Answers
    BY <1>1 DEF OrderTypeOK, LeadType, Answers
  <2>3. lead \in LeadType
    BY <1>1 DEF OrderTypeOK
  <2> QED
    BY <2>1, <2>2, <2>3 DEF LeadType, Answers
<1>3. Changes(saved)
  BY DEF Save
<1> HIDE DEF saved
<1>4. /\ lead' = saved
      /\ known' \in [Handlers -> KnownType]
      /\ KnownIsSo'
      /\ \A i \in Handlers : /\ known'[i].none => known[i].none
                             /\ known'[i].taken => known[i].taken
                             /\ known'[i].stale => known[i].stale
  BY <1>1, <1>2, <1>3, ChangesKeepKnown
<1>5. /\ handler' \in [Handlers -> HandlerType]
      /\ handler'[h].pc = "idle"
      /\ \A i \in Handlers \ {h} : handler'[i] = handler[i]
  BY <1>1, FinishIsIdle DEF Save, Leave
<1>6. OrderTypeOK'
  BY <1>2, <1>4, <1>5 DEF OrderTypeOK
<1>7. ASSUME NEW s, Covers(lead.answers, lead.alone, s)
      PROVE  Covers(saved.answers, saved.alone, s)
  <2>1. AskedBefore(s) \subseteq Columns
    BY DEF AskedBefore, Columns
  <2> QED
    BY <1>2, <1>7, <2>1 DEF Covers
<1>8. Covered'
  <2>1. At(h, "answer") /\ handler[h].step = step
    BY DEF Save
  <2>2. Covers(lead.answers, lead.alone, step)
    BY <2>1 DEF OrderInv, Covered
  <2>3. Covers(saved.answers, saved.alone, next)
    BY <1>2, <1>7, <2>2 DEF Covers
  <2>4. Covers(lead.answers, lead.alone, lead.orderStep)'
    BY <1>2, <1>4, <2>3 DEF Covers
  <2>5. ASSUME NEW i \in Handlers, At(i, "answer")'
        PROVE  Covers(lead.answers, lead.alone, handler[i].step)'
    <3>1. i # h /\ handler'[i] = handler[i] /\ At(i, "answer")
      BY <1>5, <2>5 DEF At
    <3>2. Covers(lead.answers, lead.alone, handler[i].step)
      BY <3>1 DEF OrderInv, Covered
    <3>3. Covers(saved.answers, saved.alone, handler[i].step)
      BY <1>7, <3>2
    <3> QED
      BY <1>4, <3>1, <3>3 DEF Covers
  <2>6. ASSUME NEW i \in Handlers
        PROVE  /\ (handler[i].pc \in {"answer", "confirmed"} =>
                      Covers(handler[i].answers, handler[i].alone, handler[i].step))'
               /\ (At(i, "confirmed") => handler[i].step = "awaiting_notes")'
    BY <1>5 DEF OrderInv, Covered, At, Covers
  <2> QED
    BY <2>4, <2>5, <2>6 DEF Covered
<1>9. WritesKnown'
  BY <1>2, <1>4, <1>5 DEF OrderInv, WritesKnown, At
<1> QED
  BY <1>4, <1>6, <1>8, <1>9 DEF OrderInv

LEMMA SaveNotesKeepsInv ==
    ASSUME OrderInv, NEW h \in Handlers, SaveNotes(h)
    PROVE  OrderInv'
<1>1. OrderTypeOK
  BY DEF OrderInv
<1> DEFINE made == [lead EXCEPT !.orderStep = "done", !.status = "ORDER_PENDING", !.age = 0]
<1>2. /\ made \in LeadType
      /\ made.exists = lead.exists
      /\ made.orderStep = "done"
      /\ made.answers = lead.answers
      /\ made.alone = lead.alone
  <2>1. 0 \in 0..Limit + 1
    BY OrderAssumption
  <2>2. "done" \in OrderStep /\ "ORDER_PENDING" \in LeadStatus
    BY DEF OrderStep, LeadStatus
  <2>3. lead \in LeadType
    BY <1>1 DEF OrderTypeOK
  <2> QED
    BY <2>1, <2>2, <2>3 DEF LeadType
<1>3. Changes(made)
  BY DEF SaveNotes
<1> HIDE DEF made
<1>4. /\ lead' = made
      /\ known' \in [Handlers -> KnownType]
      /\ KnownIsSo'
      /\ \A i \in Handlers : /\ known'[i].none => known[i].none
                             /\ known'[i].taken => known[i].taken
                             /\ known'[i].stale => known[i].stale
  BY <1>1, <1>2, <1>3, ChangesKeepKnown
<1>5. /\ handler' \in [Handlers -> HandlerType]
      /\ handler'[h].pc = "confirmed"
      /\ handler'[h].step = handler[h].step
      /\ handler'[h].answers = handler[h].answers
      /\ handler'[h].alone = handler[h].alone
      /\ \A i \in Handlers \ {h} : handler'[i] = handler[i]
  BY <1>1 DEF SaveNotes, OrderTypeOK, HandlerType
<1>6. OrderTypeOK'
  BY <1>2, <1>4, <1>5 DEF OrderTypeOK
<1>7. At(h, "answer") /\ handler[h].step = "awaiting_notes"
  BY DEF SaveNotes
<1>8. Covered'
  <2>1. Covers(lead.answers, lead.alone, "done")
    BY <1>7 DEF OrderInv, Covered, Covers, AskedBefore
  <2>2. Covers(lead.answers, lead.alone, lead.orderStep)'
    BY <1>2, <1>4, <2>1 DEF Covers
  <2>3. ASSUME NEW i \in Handlers
        PROVE  /\ (handler[i].pc \in {"answer", "confirmed"} =>
                      Covers(handler[i].answers, handler[i].alone, handler[i].step))'
               /\ (At(i, "answer") => Covers(lead.answers, lead.alone, handler[i].step))'
               /\ (At(i, "confirmed") => handler[i].step = "awaiting_notes")'
    BY <1>2, <1>4, <1>5, <1>7 DEF OrderInv, Covered, At, Covers
  <2> QED
    BY <2>2, <2>3 DEF Covered
<1>9. WritesKnown'
  BY <1>2, <1>4, <1>5 DEF OrderInv, WritesKnown, At
<1> QED
  BY <1>4, <1>6, <1>8, <1>9 DEF OrderInv

LEMMA CancelKeepsInv ==
    ASSUME OrderInv, NEW h \in Handlers, Cancel(h)
    PROVE  OrderInv'
<1>1. lead \in LeadType
  BY DEF OrderInv, OrderTypeOK
<1>2. Leave(h)
  BY DEF Cancel
<1>3. CASE ~lead.exists
  BY <1>2, <1>3, LeaveKeepsInv DEF Cancel
<1>4. CASE lead.exists
  <2> DEFINE cancelled == [lead EXCEPT !.orderStep = "none", !.age = 0]
  <2>1. 0 \in 0..Limit + 1
    BY OrderAssumption
  <2>2. /\ cancelled \in LeadType
        /\ cancelled.exists = lead.exists
        /\ cancelled.answers = lead.answers
        /\ cancelled.alone = lead.alone
        /\ cancelled.orderStep = "none"
    BY <1>1, <2>1 DEF LeadType
  <2>3. Changes(cancelled)
    BY <1>4 DEF Cancel
  <2> HIDE DEF cancelled
  <2> QED
    BY <1>2, <2>2, <2>3, KeptAnswersKeepInv
<1> QED
  BY <1>3, <1>4

LEMMA UpdateStatusKeepsInv ==
    ASSUME OrderInv, NEW status \in LeadStatus, UpdateStatus(status)
    PROVE  OrderInv'
<1>1. lead \in LeadType
  BY DEF OrderInv, OrderTypeOK
<1> DEFINE updated == [lead EXCEPT !.status = status, !.age = 0]
<1>2. 0 \in 0..Limit + 1
  BY OrderAssumption
<1>3. /\ updated \in LeadType
      /\ updated.exists = lead.exists
      /\ updated.answers = lead.answers
      /\ updated.alone = lead.alone
      /\ updated.orderStep = lead.orderStep
  BY <1>1, <1>2 DEF LeadType
<1>4. Changes(updated) /\ UNCHANGED handler
  BY DEF UpdateStatus
<1> HIDE DEF updated
<1> QED
  BY <1>3, <1>4, KeptAnswersKeepInv

LEMMA TickKeepsInv ==
    ASSUME OrderInv, Tick
    PROVE  OrderInv'
<1>1. lead \in LeadType
  BY DEF OrderInv, OrderTypeOK
<1> DEFINE older == [lead EXCEPT !.age = @ + 1]
<1>2. lead.age + 1 \in 0..Limit + 1
  BY <1>1, OrderAssumption DEF Tick, Stale, LeadType
<1>3. /\ older \in LeadType
      /\ older.exists = lead.exists
      /\ older.answers = lead.answers
      /\ older.alone = lead.alone
      /\ older.orderStep = lead.orderStep
  BY <1>1, <1>2 DEF LeadType
<1>4. Changes(older) /\ UNCHANGED handler
  BY DEF Tick
<1> HIDE DEF older
<1> QED
  BY <1>3, <1>4, KeptAnswersKeepInv

LEMMA HandleOrderStepKeepsInv ==
    ASSUME OrderInv, NEW h \in Handlers, HandleOrderStep(h)
    PROVE  OrderInv'
<1> USE DEF Questions, OrderStep, Columns, AskedBefore
<1>1. CASE SaveName(h)
  BY <1>1, SaveKeepsInv DEF SaveName
<1>2. CASE SavePhone(h)
  BY <1>2, SaveKeepsInv DEF SavePhone
<1>3. CASE SaveAddress(h)
  BY <1>3, SaveKeepsInv DEF SaveAddress
<1>4. CASE SaveProduct(h)
  BY <1>4, SaveKeepsInv DEF SaveProduct
<1>5. CASE SaveNotes(h)
  BY <1>5, SaveNotesKeepsInv
<1>6. CASE Confirm(h)
  BY <1>6, LeaveKeepsInv DEF Confirm
<1> QED
  BY <1>1, <1>2, <1>3, <1>4, <1>5, <1>6 DEF HandleOrderStep

LEMMA NextKeepsInv == OrderInv /\ [Next]_vars => OrderInv'
<1> SUFFICES ASSUME OrderInv, [Next]_vars PROVE OrderInv'
  OBVIOUS
<1>1. ASSUME NEW h \in Handlers, Arrive(h) PROVE OrderInv'
  BY <1>1, ArriveKeepsInv
<1>2. ASSUME NEW h \in Handlers, TryHandle(h) PROVE OrderInv'
  <2>1. CASE Bypass(h)
    BY <2>1, LeaveKeepsInv DEF Bypass
  <2>2. CASE Cancel(h)
    BY <2>2, CancelKeepsInv
  <2>3. CASE FindPending(h)
    BY <2>3, FindPendingKeepsInv
  <2>4. CASE StartOrder(h)
    BY <2>4, StartOrderKeepsInv
  <2>5. CASE HandleOrderStep(h)
    BY <2>5, HandleOrderStepKeepsInv
  <2> QED
    BY <1>2, <2>1, <2>2, <2>3, <2>4, <2>5 DEF TryHandle
<1>3. ASSUME NEW status \in LeadStatus, UpdateStatus(status) PROVE OrderInv'
  BY <1>3, UpdateStatusKeepsInv
<1>4. CASE Tick
  BY <1>4, TickKeepsInv
<1>5. CASE UNCHANGED vars
  BY <1>5 DEF vars, OrderInv, OrderTypeOK, Covered, Covers, KnownIsSo, WritesKnown, At
<1> QED
  BY <1>1, <1>2, <1>3, <1>4, <1>5 DEF Next

\* The invariant the theorems below rest on: the row and whatever has been read of
\* it cover the questions asked before, and what a handling remembers is so.
THEOREM OrderInvariant == Spec => []OrderInv
  BY InitInv, NextKeepsInv, PTL DEF Spec

-----------------------------------------------------------------------------
(* The properties of OrderFlow *)

\* Types of row and handlings for any texts and limit.
THEOREM OrderTypeCorrect == Spec => []OrderTypeOK
<1>1. OrderInv => OrderTypeOK
  BY DEF OrderInv
<1> QED
  BY <1>1, OrderInvariant, PTL

\* No confirmation lists a missing answer, whatever overlaps it.
THEOREM ConfirmationsAreComplete == Spec => []ConfirmationComplete
<1>1. OrderInv => ConfirmationComplete
  BY DEF OrderInv, Covered, Covers, AskedBefore, ConfirmationComplete, At
<1> QED
  BY <1>1, OrderInvariant, PTL

\* A confirmed order has no answer of an earlier one, if it was started alone.
THEOREM ConfirmedAnswersAreAllNew == Spec => []ConfirmedAnswersAreNew
<1>1. OrderInv => ConfirmedAnswersAreNew
  BY DEF OrderInv, Covered, Covers, AskedBefore, ConfirmedAnswersAreNew, At
<1> QED
  BY <1>1, OrderInvariant, PTL

\* Everything a step may be, as far as step and status of the lead go.
LEMMA WhoWrites ==
    ASSUME OrderInv, [Next]_vars
    PROVE  \/ lead' = lead
           \/ lead'.orderStep = lead.orderStep /\ handler' = handler
           \/ lead'.orderStep = "none" /\ lead'.status = lead.status
           \/ \E h \in Handlers : Writes(h) /\ handler[h].intent
           \/ \E h \in Handlers : /\ Writes(h)
                                  /\ ~known[h].none
                                  /\ ~known[h].taken
                                  /\ known[h].stale => handler[h].intent
<1>1. OrderTypeOK /\ lead \in LeadType
  BY DEF OrderInv, OrderTypeOK
<1>2. ASSUME NEW h \in Handlers, Leave(h), handler[h].pc \in {"answer", "start"}
      PROVE  Writes(h)
  BY <1>1, <1>2, FinishIsIdle DEF Leave, Writes
<1>3. ASSUME NEW h \in Handlers, At(h, "answer")
      PROVE  ~known[h].none /\ ~known[h].taken /\ (known[h].stale => handler[h].intent)
  BY <1>3 DEF OrderInv, WritesKnown
<1>4. ASSUME NEW h \in Handlers, NEW step, NEW column, NEW next,
             Save(h, step, column, next)
      PROVE  At(h, "answer") /\ Writes(h)
  BY <1>2, <1>4 DEF Save, At
<1>5. ASSUME NEW h \in Handlers, TryHandle(h), ~(lead' = lead)
      PROVE  \/ lead'.orderStep = "none" /\ lead'.status = lead.status
             \/ Writes(h) /\ handler[h].intent
             \/ Writes(h) /\ At(h, "answer")
  <2>1. CASE Bypass(h) \/ FindPending(h) \/ Confirm(h)
    BY <1>5, <2>1 DEF Bypass, FindPending, Confirm
  <2>2. CASE Cancel(h)
    BY <1>1, <1>5, <2>2 DEF Cancel, Changes, LeadType
  <2>3. CASE StartOrder(h)
    BY <1>2, <2>3 DEF StartOrder, At, OrderInv, WritesKnown
  <2>4. CASE SaveName(h) \/ SavePhone(h) \/ SaveAddress(h) \/ SaveProduct(h)
    BY <1>4, <2>4 DEF SaveName, SavePhone, SaveAddress, SaveProduct
  <2>5. CASE SaveNotes(h)
    BY <1>1, <2>5 DEF SaveNotes, Writes, At, OrderTypeOK, HandlerType
  <2> QED
    BY <1>5, <2>1, <2>2, <2>3, <2>4, <2>5 DEF TryHandle, HandleOrderStep
<1>6. ASSUME NEW status \in LeadStatus, UpdateStatus(status)
      PROVE  lead'.orderStep = lead.orderStep /\ handler' = handler
  BY <1>1, <1>6 DEF UpdateStatus, Changes, LeadType
<1>7. CASE Tick
  BY <1>1, <1>7 DEF Tick, Changes, LeadType
<1>8. ASSUME NEW h \in Handlers, Arrive(h) PROVE lead' = lead
  BY <1>8 DEF Arrive
<1>9. CASE UNCHANGED vars
  BY <1>9 DEF vars
<1> QED
  BY <1>3, <1>5, <1>6, <1>7, <1>8, <1>9 DEF Next

\* A cancelled order is not revived by messages that arrive later.
THEOREM CancelsHold == Spec => CancelHolds
<1> DEFINE Explained == \E h \in Handlers :
               Writes(h) /\ (handler[h].intent \/ ~known[h].none)
           Step == lead.orderStep = "none" /\ lead'.orderStep # "none" => Explained
<1>1. OrderInv /\ [Next]_vars => Step
  <2> SUFFICES ASSUME OrderInv, [Next]_vars,
                      lead.orderStep = "none", lead'.orderStep # "none"
               PROVE  Explained
    OBVIOUS
  <2> QED
    BY WhoWrites
<1> QED
  BY <1>1, OrderInvariant, PTL DEF Spec, CancelHolds

\* A lead that agents have taken up keeps its status under later messages.
THEOREM TakenLeadsHold == Spec => TakenLeadHolds
<1> DEFINE Explained == \E h \in Handlers :
               Writes(h) /\ (handler[h].intent \/ ~known[h].taken)
           Step == lead.status # "NEW" /\ lead'.status # lead.status /\ handler' # handler => Explained
<1>1. OrderInv /\ [Next]_vars => Step
  <2> SUFFICES ASSUME OrderInv, [Next]_vars,
                      lead.status # "NEW", lead'.status # lead.status, handler' # handler
               PROVE  Explained
    OBVIOUS
  <2> QED
    BY WhoWrites
<1> QED
  BY <1>1, OrderInvariant, PTL DEF Spec, TakenLeadHolds

\* An order over the limit is not advanced by later messages without intent.
THEOREM StaleOrdersHold == Spec => StaleOrderHolds
<1> DEFINE Explained == \E h \in Handlers :
               Writes(h) /\ (handler[h].intent \/ ~known[h].stale)
           Step == lead.orderStep # "none" /\ lead'.orderStep \notin {"none", lead.orderStep} => Explained
<1>1. OrderInv /\ [Next]_vars => Step
  <2> SUFFICES ASSUME OrderInv, [Next]_vars,
                      lead.orderStep # "none", lead'.orderStep \notin {"none", lead.orderStep}
               PROVE  Explained
    OBVIOUS
  <2> QED
    BY WhoWrites
<1> QED
  BY <1>1, OrderInvariant, PTL DEF Spec, StaleOrderHolds
=============================================================================
