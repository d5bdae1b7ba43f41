------------------------ MODULE Conversation_proofs ------------------------
(***************************************************************************)
(* Proofs about Conversation, for any number of messages and customers.    *)
(* What a message may do late depends on what it has seen, so ConvInv ties *)
(* the local variables of each handling to what was in the database when   *)
(* the handling began, and that to what is there now.                      *)
(***************************************************************************)
EXTENDS Conversation, TLAPS

\* Rows, messages and marks that were there when m began are there still.
StillThere(m) ==
    /\ before[m].rows \subseteq rows
    /\ \A r \in before[m].rows : From[r] = From[m]
    /\ before[m].spoken \subseteq before[m].rows
    /\ \A r \in before[m].spoken : stored[r] > 0
    /\ \A r \in before[m].hot : leadStatus[r] = "hot"
    /\ \A r \in Messages : before[m].nudgedAt[r] # Never =>
           before[m].nudgedAt[r] <= lastFollowUpAt[r]

\* The steps before processMessage has counted the messages of the row.
Early == {"idle", "welcome", "first", "count_all", "greet", "mark", "access",
          "find", "create", "count"}

\* What m is about to do agrees with what it has seen.
Informed(m) ==
    /\ At(m, "create") \/ m \in rows => before[m].rows = {}
    /\ At(m, "greet") \/ m \in greeted => before[m].spoken = {}
    /\ handler[m].pc \in {"count", "decide", "lead", "commit", "account"} =>
           handler[m].row \in rows
    /\ handler[m].first => handler[m].row \notin before[m].spoken
    /\ At(m, "commit") /\ handler[m].status = "interested" =>
           handler[m].row \notin before[m].hot
    /\ handler[m].kept => handler[m].pc \in {"account", "reply", "done"}
    /\ handler[m].pc \in Early => ~handler[m].first

\* A follow-up is a day away from the mark that m has seen.
SpacedFrom(m, r, at) ==
    before[m].nudgedAt[r] = Never \/ at - before[m].nudgedAt[r] >= Day

Spaced(m) ==
    /\ handler[m].nudge # "idle" =>
           handler[m].row \in Messages /\ handler[m].pc \in {"reply", "done"}
    /\ Nudging(m, "enqueue") => SpacedFrom(m, handler[m].row, clock)
    /\ \A f \in followUps : f.by = m => SpacedFrom(m, f.row, f.at)

\* A message that has not arrived has left no trace.
NoTrace(m) ==
    At(m, "idle") => /\ m \notin rows /\ m \notin greeted
                     /\ \A f \in followUps : f.by # m

ConvInv ==
    /\ ConversationTypeOK
    /\ \A r \in Messages : lastFollowUpAt[r] <= clock
    /\ \A m \in Messages : StillThere(m) /\ Informed(m) /\ Spaced(m) /\ NoTrace(m)

-----------------------------------------------------------------------------
(* Steps that change one handler and nothing in the database *)

Unmoved == UNCHANGED <<clock, rowVars, greeted, followUps, before>>

\* If such a step leaves its own message informed and spaced, all is well.
LEMMA HandlerStep ==
    ASSUME ConvInv, NEW m \in Messages, Unmoved, welcomeKey' \subseteq Customers,
           handler' \in [Messages -> HandlerType],
           \A n \in Messages \ {m} : handler'[n] = handler[n],
           ~At(m, "idle")', Informed(m)', Spaced(m)'
    PROVE  ConvInv'
<1>1. ConversationTypeOK'
  BY DEF ConvInv, ConversationTypeOK, Unmoved, rowVars
<1>2. \A r \in Messages : (lastFollowUpAt[r] <= clock)'
  BY DEF ConvInv, Unmoved, rowVars
<1>3. ASSUME NEW n \in Messages
      PROVE  StillThere(n)'
  BY DEF ConvInv, StillThere, Unmoved, rowVars
<1>4. ASSUME NEW n \in Messages, n # m
      PROVE  Informed(n)' /\ Spaced(n)' /\ NoTrace(n)'
  <2>1. handler'[n] = handler[n]
    BY <1>4
  <2>2. Informed(n)'
    BY <2>1 DEF ConvInv, Informed, At, Unmoved, rowVars
  <2>3. Spaced(n)'
    BY <2>1 DEF ConvInv, Spaced, SpacedFrom, Nudging, Unmoved, rowVars
  <2>4. NoTrace(n)'
    BY <2>1 DEF ConvInv, NoTrace, At, Unmoved, rowVars
  <2>5. QED
    BY <2>2, <2>3, <2>4
<1>5. NoTrace(m)'
  BY DEF NoTrace
<1>6. QED
  BY <1>1, <1>2, <1>3, <1>4, <1>5 DEF ConvInv

LEMMA GotoFields ==
    ASSUME ConversationTypeOK, NEW m \in Messages, NEW pc \in Steps, Goto(m, pc)
    PROVE  /\ handler' \in [Messages -> HandlerType]
           /\ \A n \in Messages \ {m} : handler'[n] = handler[n]
           /\ handler'[m].pc = pc
           /\ handler'[m].row = handler[m].row
           /\ handler'[m].first = handler[m].first
           /\ handler'[m].status = handler[m].status
           /\ handler'[m].kept = handler[m].kept
           /\ handler'[m].nudge = handler[m].nudge
BY DEF ConversationTypeOK, Goto, HandlerType

\* What going on to step pc takes.
MayGo(m, pc) ==
    /\ pc = "create" => before[m].rows = {}
    /\ pc = "greet" => before[m].spoken = {}
    /\ pc \in {"count", "decide", "lead", "commit", "account"} => handler[m].row \in rows
    /\ pc = "commit" /\ handler[m].status = "interested" =>
           handler[m].row \notin before[m].hot
    /\ handler[m].kept => pc \in {"account", "reply", "done"}
    /\ pc \in Early => ~handler[m].first
    /\ handler[m].nudge # "idle" => pc \in {"reply", "done"}

LEMMA GotoStep ==
    ASSUME ConvInv, NEW m \in Messages, NEW pc \in Steps \ {"idle"}, Goto(m, pc),
           Unmoved, welcomeKey' \subseteq Customers, MayGo(m, pc)
    PROVE  ConvInv'
<1>1. /\ handler' \in [Messages -> HandlerType]
      /\ \A n \in Messages \ {m} : handler'[n] = handler[n]
      /\ handler'[m].pc = pc
      /\ handler'[m].row = handler[m].row
      /\ handler'[m].first = handler[m].first
      /\ handler'[m].status = handler[m].status
      /\ handler'[m].kept = handler[m].kept
      /\ handler'[m].nudge = handler[m].nudge
  BY GotoFields DEF ConvInv
<1>2. Informed(m) /\ Spaced(m)
  BY DEF ConvInv
<1>3. Informed(m)'
  BY <1>1, <1>2 DEF Informed, At, Unmoved, rowVars, MayGo
<1>4. Spaced(m)'
  BY <1>1, <1>2 DEF Spaced, SpacedFrom, Nudging, Unmoved, rowVars, MayGo
<1>5. QED
  BY <1>1, <1>3, <1>4, HandlerStep DEF At

LEMMA LeaveStep ==
    ASSUME ConvInv, NEW m \in Messages, Leave(m), Unmoved, UNCHANGED welcomeKey
    PROVE  ConvInv'
<1>1. handler \in [Messages -> HandlerType] /\ welcomeKey \subseteq Customers
  BY DEF ConvInv, ConversationTypeOK
<1>2. /\ handler' \in [Messages -> HandlerType]
      /\ \A n \in Messages \ {m} : handler'[n] = handler[n]
      /\ handler'[m].pc = "done"
      /\ handler'[m].row = handler[m].row
      /\ handler'[m].first = FALSE
      /\ handler'[m].nudge = handler[m].nudge
  BY <1>1 DEF Leave, NotStarted, HandlerType, Languages, Steps
<1>3. Informed(m) /\ Spaced(m)
  BY DEF ConvInv
<1>4. Informed(m)'
  BY <1>2, <1>3 DEF Informed, At, Unmoved, rowVars
<1>5. Spaced(m)'
  BY <1>2, <1>3 DEF Spaced, SpacedFrom, Nudging, Unmoved, rowVars
<1>6. QED
  BY <1>1, <1>2, <1>4, <1>5, HandlerStep DEF At

LEMMA NudgeFields ==
    ASSUME ConversationTypeOK, NEW m \in Messages,
           NEW step \in {"idle", "read", "enqueue", "mark"}, NudgeGoto(m, step)
    PROVE  /\ handler' \in [Messages -> HandlerType]
           /\ \A n \in Messages \ {m} : handler'[n] = handler[n]
           /\ handler'[m].pc = handler[m].pc
           /\ handler'[m].row = handler[m].row
           /\ handler'[m].first = handler[m].first
           /\ handler'[m].status = handler[m].status
           /\ handler'[m].kept = handler[m].kept
           /\ handler'[m].nudge = step
BY DEF ConversationTypeOK, NudgeGoto, HandlerType

LEMMA NudgeStep ==
    ASSUME ConvInv, NEW m \in Messages,
           NEW step \in {"idle", "read", "enqueue", "mark"}, NudgeGoto(m, step),
           handler[m].nudge # "idle", Unmoved, UNCHANGED welcomeKey,
           step = "enqueue" => SpacedFrom(m, handler[m].row, clock)
    PROVE  ConvInv'
<1>1. /\ handler' \in [Messages -> HandlerType]
      /\ \A n \in Messages \ {m} : handler'[n] = handler[n]
      /\ handler'[m].pc = handler[m].pc
      /\ handler'[m].row = handler[m].row
      /\ handler'[m].first = handler[m].first
      /\ handler'[m].status = handler[m].status
      /\ handler'[m].kept = handler[m].kept
      /\ handler'[m].nudge = step
  BY NudgeFields DEF ConvInv
<1>2. Informed(m) /\ Spaced(m) /\ welcomeKey \subseteq Customers
  BY DEF ConvInv, ConversationTypeOK
<1>3. Informed(m)'
  BY <1>1, <1>2 DEF Informed, At, Unmoved, rowVars
<1>4. Spaced(m)'
  BY <1>1, <1>2 DEF Spaced, SpacedFrom, Nudging, Unmoved, rowVars
<1>5. ~At(m, "idle")'
  BY <1>1, <1>2 DEF Spaced, At
<1>6. QED
  BY <1>1, <1>2, <1>3, <1>4, <1>5, HandlerStep

-----------------------------------------------------------------------------
(* One lemma per action *)

\* What the invariant says of a handling at step pc.
LEMMA HandlerFacts ==
    ASSUME ConvInv, NEW m \in Messages
    PROVE  /\ handler[m] \in HandlerType
           /\ before[m] \in BeforeType
           /\ handler[m].row \in Messages \cup {NoRow}
           /\ handler[m].pc \in Steps
           /\ welcomeKey \subseteq Customers
           /\ From[m] \in Customers
           /\ rows \subseteq Messages
           /\ StillThere(m) /\ Informed(m) /\ Spaced(m) /\ NoTrace(m)
<1>1. handler[m] \in HandlerType /\ before[m] \in BeforeType
  BY DEF ConvInv, ConversationTypeOK
<1>2. handler[m].row \in Messages \cup {NoRow} /\ handler[m].pc \in Steps
  BY <1>1 DEF HandlerType
<1>3. QED
  BY <1>1, <1>2, ConversationAssumption DEF ConvInv, ConversationTypeOK

LEMMA BeginStep ==
    ASSUME ConvInv, NEW m \in Messages, WebhookMessage(m) \/ BaileysMessage(m)
    PROVE  ConvInv'
<1>1. PICK via \in {"webhook", "baileys"}, pc \in {"welcome", "count_all"} :
          Begin(m, via, pc)
  BY DEF WebhookMessage, BaileysMessage
<1>2. /\ handler \in [Messages -> HandlerType]
      /\ before \in [Messages -> BeforeType]
      /\ rows \subseteq Messages
      /\ clock \in 0..MaxClock
      /\ stored \in [Messages -> Nat]
      /\ leadStatus \in [Messages -> LeadStatuses]
      /\ lastFollowUpAt \in [Messages -> Nat \cup {Never}]
  BY DEF ConvInv, ConversationTypeOK
<1>3. /\ handler' \in [Messages -> HandlerType]
      /\ \A n \in Messages \ {m} : handler'[n] = handler[n]
      /\ handler'[m].pc = pc
      /\ handler'[m].row = handler[m].row
      /\ handler'[m].first = handler[m].first
      /\ handler'[m].status = handler[m].status
      /\ handler'[m].kept = handler[m].kept
      /\ handler'[m].nudge = handler[m].nudge
  <2> DEFINE half == [handler EXCEPT ![m].pc = pc]
  <2>1. /\ half \in [Messages -> HandlerType]
        /\ \A n \in Messages \ {m} : half[n] = handler[n]
        /\ half[m].pc = pc /\ half[m].row = handler[m].row
        /\ half[m].first = handler[m].first /\ half[m].status = handler[m].status
        /\ half[m].kept = handler[m].kept /\ half[m].nudge = handler[m].nudge
    BY <1>2 DEF HandlerType, Steps
  <2>2. handler' = [half EXCEPT ![m].via = via]
    BY <1>1, <1>2 DEF Begin
  <2> HIDE DEF half
  <2>3. QED
    BY <2>1, <2>2 DEF HandlerType, Steps
<1> DEFINE seen == [at |-> clock,
                    rows |-> RowsOf(From[m]),
                    spoken |-> {r \in RowsOf(From[m]) : stored[r] > 0},
                    hot |-> {r \in RowsOf(From[m]) : leadStatus[r] = "hot"},
                    nudgedAt |-> lastFollowUpAt]
<1>5. /\ before' = [before EXCEPT ![m] = seen]
      /\ UNCHANGED <<clock, rowVars, welcomeVars, followUps>>
      /\ At(m, "idle")
  BY <1>1 DEF Begin
<1>6. seen \in BeforeType
  BY <1>2, ConversationAssumption DEF BeforeType, RowsOf
<1>7. /\ before' \in [Messages -> BeforeType]
      /\ before'[m] = seen
      /\ \A n \in Messages \ {m} : before'[n] = before[n]
  BY <1>2, <1>5, <1>6
<1>8. ConversationTypeOK'
  BY <1>3, <1>5, <1>7 DEF ConvInv, ConversationTypeOK, rowVars, welcomeVars
<1>9. \A r \in Messages : (lastFollowUpAt[r] <= clock)'
  BY <1>5 DEF ConvInv, rowVars
<1>10. StillThere(m)'
  BY <1>2, <1>5, <1>7 DEF StillThere, rowVars, RowsOf, Never
<1>11. StillThere(m) /\ Informed(m) /\ Spaced(m) /\ NoTrace(m)
  BY DEF ConvInv
<1>12. Informed(m)'
  BY <1>3, <1>5, <1>11 DEF Informed, NoTrace, At, Early, rowVars, welcomeVars
<1>13. Spaced(m)'
  BY <1>3, <1>5, <1>11 DEF Spaced, NoTrace, Nudging, At
<1>14. NoTrace(m)'
  BY <1>3 DEF NoTrace, At
<1>15. ASSUME NEW n \in Messages, n # m
       PROVE  StillThere(n)' /\ Informed(n)' /\ Spaced(n)' /\ NoTrace(n)'
  <2>1. handler'[n] = handler[n] /\ before'[n] = before[n]
    BY <1>3, <1>7, <1>15
  <2>2. StillThere(n)'
    BY <2>1, <1>5 DEF ConvInv, StillThere, rowVars
  <2>3. Informed(n)'
    BY <2>1, <1>5 DEF ConvInv, Informed, At, rowVars, welcomeVars
  <2>4. Spaced(n)'
    BY <2>1, <1>5 DEF ConvInv, Spaced, SpacedFrom, Nudging
  <2>5. NoTrace(n)'
    BY <2>1, <1>5 DEF ConvInv, NoTrace, At, rowVars, welcomeVars
  <2>6. QED
    BY <2>2, <2>3, <2>4, <2>5
<1>16. QED
  BY <1>8, <1>9, <1>10, <1>12, <1>13, <1>14, <1>15 DEF ConvInv

LEMMA WelcomeStep ==
    ASSUME ConvInv, NEW m \in Messages,
           \/ ReadWelcomeKey(m) \/ LookUpFirstContact(m) \/ CountAllMessages(m)
           \/ MarkWelcomed(m)
    PROVE  ConvInv'
<1>1. /\ welcomeKey \subseteq Customers /\ From[m] \in Customers
      /\ StillThere(m) /\ Informed(m) /\ Spaced(m)
  BY HandlerFacts
<1>2. ASSUME ReadWelcomeKey(m)
      PROVE  ConvInv'
  <2>1. PICK pc \in {"access", "first"} : Goto(m, pc)
    BY <1>2 DEF ReadWelcomeKey
  <2>2. Unmoved /\ welcomeKey' \subseteq Customers /\ At(m, "welcome")
    BY <1>1, <1>2 DEF ReadWelcomeKey, Unmoved, welcomeVars
  <2>3. MayGo(m, pc)
    BY <1>1, <2>2 DEF MayGo, Informed, Spaced, At, Early
  <2>4. QED
    BY <2>1, <2>2, <2>3, GotoStep DEF Steps
<1>3. ASSUME LookUpFirstContact(m)
      PROVE  ConvInv'
  <2>1. PICK pc \in {"mark", "greet"} :
            Goto(m, pc) /\ (pc = "greet" => RowsOf(From[m]) = {})
    BY <1>3 DEF LookUpFirstContact
  <2>2. Unmoved /\ welcomeKey' \subseteq Customers /\ At(m, "first")
    BY <1>1, <1>3 DEF LookUpFirstContact, Unmoved, welcomeVars
  <2>3. MayGo(m, pc)
    BY <1>1, <2>1, <2>2 DEF MayGo, StillThere, Informed, Spaced, At, Early, RowsOf
  <2>4. QED
    BY <2>1, <2>2, <2>3, GotoStep DEF Steps
<1>4. ASSUME CountAllMessages(m)
      PROVE  ConvInv'
  <2>1. PICK pc \in {"access", "greet"} :
            Goto(m, pc) /\ (pc = "greet" => ~ \E r \in RowsOf(From[m]) : stored[r] > 0)
    BY <1>4 DEF CountAllMessages
  <2>2. Unmoved /\ welcomeKey' \subseteq Customers /\ At(m, "count_all")
    BY <1>1, <1>4 DEF CountAllMessages, Unmoved, welcomeVars
  <2>3. MayGo(m, pc)
    BY <1>1, <2>1, <2>2 DEF MayGo, StillThere, Informed, Spaced, At, Early, RowsOf
  <2>4. QED
    BY <2>1, <2>2, <2>3, GotoStep DEF Steps
<1>5. ASSUME MarkWelcomed(m)
      PROVE  ConvInv'
  <2>1. Unmoved /\ welcomeKey' \subseteq Customers /\ At(m, "mark") /\ Goto(m, "access")
    BY <1>1, <1>5 DEF MarkWelcomed, Unmoved
  <2>2. MayGo(m, "access")
    BY <1>1, <2>1 DEF MayGo, Informed, Spaced, At, Early
  <2>3. QED
    BY <2>1, <2>2, GotoStep DEF Steps
<1>6. QED
  BY <1>2, <1>3, <1>4, <1>5
LEMMA CountFields ==
    ASSUME ConversationTypeOK, NEW m \in Messages, NEW r \in Messages,
           handler' = [handler EXCEPT ![m].pc = "count", ![m].row = r]
    PROVE  /\ handler' \in [Messages -> HandlerType]
           /\ \A n \in Messages \ {m} : handler'[n] = handler[n]
           /\ handler'[m].pc = "count"
           /\ handler'[m].row = r
           /\ handler'[m].first = handler[m].first
           /\ handler'[m].kept = handler[m].kept
           /\ handler'[m].nudge = handler[m].nudge
<1> DEFINE half == [handler EXCEPT ![m].pc = "count"]
<1>1. handler \in [Messages -> HandlerType]
  BY DEF ConversationTypeOK
<1>2. /\ half \in [Messages -> HandlerType]
      /\ \A n \in Messages \ {m} : half[n] = handler[n]
      /\ half[m].pc = "count" /\ half[m].first = handler[m].first
      /\ half[m].kept = handler[m].kept /\ half[m].nudge = handler[m].nudge
  BY <1>1 DEF HandlerType, Steps
<1>3. handler' = [half EXCEPT ![m].row = r]
  BY <1>1
<1> HIDE DEF half
<1>4. handler' \in [Messages -> HandlerType] /\ handler'[m].row = r
  <2>1. handler' = [half EXCEPT ![m] = [half[m] EXCEPT !.row = r]]
    BY <1>2, <1>3
  <2>2. half[m] \in HandlerType
    BY <1>2
  <2>3. [half[m] EXCEPT !.row = r] \in HandlerType
    BY <2>2 DEF HandlerType
  <2>4. [half[m] EXCEPT !.row = r].row = r
    BY <2>2 DEF HandlerType
  <2>5. QED
    BY <1>2, <2>1, <2>3, <2>4
<1>5. \A n \in Messages \ {m} : handler'[n] = handler[n]
  BY <1>2, <1>3
<1>6. /\ handler'[m].pc = half[m].pc /\ handler'[m].first = half[m].first
      /\ handler'[m].kept = half[m].kept /\ handler'[m].nudge = half[m].nudge
  BY <1>2, <1>3 DEF HandlerType
<1>7. QED
  BY <1>2, <1>4, <1>5, <1>6

LEMMA AccessStep ==
    ASSUME ConvInv, NEW m \in Messages, CheckTenantAccess(m) \/ Reply(m) \/ Abandon(m)
    PROVE  ConvInv'
<1>1. Unmoved /\ UNCHANGED welcomeKey
  BY DEF CheckTenantAccess, Reply, Abandon, Unmoved, welcomeVars
<1>2. CASE Leave(m)
  BY <1>1, <1>2, LeaveStep
<1>3. ASSUME NEW pc \in {"find", "reply"}, Goto(m, pc), At(m, "access")
      PROVE  ConvInv'
  <2>1. MayGo(m, pc)
    BY <1>3, HandlerFacts DEF MayGo, Informed, Spaced, At, Early
  <2>2. welcomeKey' \subseteq Customers
    BY <1>1, HandlerFacts
  <2>3. QED
    BY <1>1, <1>3, <2>1, <2>2, GotoStep DEF Steps
<1>4. QED
  BY <1>2, <1>3 DEF CheckTenantAccess, Reply, Abandon

LEMMA FindStep ==
    ASSUME ConvInv, NEW m \in Messages, FindConversation(m)
    PROVE  ConvInv'
<1>1. /\ welcomeKey' \subseteq Customers /\ rows \subseteq Messages
      /\ StillThere(m) /\ Informed(m) /\ Spaced(m)
      /\ Unmoved /\ At(m, "find")
  BY HandlerFacts DEF FindConversation, Unmoved, welcomeVars
<1>2. CASE RowsOf(From[m]) = {} /\ Goto(m, "create")
  <2>1. MayGo(m, "create")
    BY <1>1, <1>2 DEF MayGo, StillThere, Informed, Spaced, At, Early, RowsOf
  <2>2. QED
    BY <1>1, <1>2, <2>1, GotoStep DEF Steps
<1>3. ASSUME NEW r \in RowsOf(From[m]),
             handler' = [handler EXCEPT ![m].pc = "count", ![m].row = r]
      PROVE  ConvInv'
  <2>1. r \in rows /\ r \in Messages
    BY <1>1 DEF RowsOf
  <2>2. /\ handler' \in [Messages -> HandlerType]
        /\ \A n \in Messages \ {m} : handler'[n] = handler[n]
        /\ handler'[m].pc = "count"
        /\ handler'[m].row = r
        /\ handler'[m].first = handler[m].first
        /\ handler'[m].kept = handler[m].kept
        /\ handler'[m].nudge = handler[m].nudge
    BY <1>3, <2>1, CountFields DEF ConvInv
  <2>3. Informed(m)'
    BY <1>1, <2>1, <2>2 DEF Informed, At, Early, Unmoved, rowVars
  <2>4. Spaced(m)'
    BY <1>1, <2>1, <2>2 DEF Spaced, SpacedFrom, Nudging, At, Unmoved, rowVars
  <2>5. QED
    BY <1>1, <2>2, <2>3, <2>4, HandlerStep DEF At
<1>4. QED
  BY <1>2, <1>3 DEF FindConversation

LEMMA CreateStep ==
    ASSUME ConvInv, NEW m \in Messages, CreateConversation(m)
    PROVE  ConvInv'
<1>1. /\ handler' \in [Messages -> HandlerType]
      /\ \A n \in Messages \ {m} : handler'[n] = handler[n]
      /\ handler'[m].pc = "count"
      /\ handler'[m].row = m
      /\ handler'[m].first = handler[m].first
      /\ handler'[m].kept = handler[m].kept
      /\ handler'[m].nudge = handler[m].nudge
  BY CountFields DEF ConvInv, CreateConversation
<1>2. /\ At(m, "create") /\ rows' = rows \cup {m}
      /\ UNCHANGED <<clock, stored, language, leadStatus, lastMessageAt, lastFollowUpAt,
                     welcomeVars, followUps, before>>
  BY DEF CreateConversation
<1>3. ConversationTypeOK'
  BY <1>1, <1>2 DEF ConvInv, ConversationTypeOK, welcomeVars
<1>4. \A r \in Messages : (lastFollowUpAt[r] <= clock)'
  BY <1>2 DEF ConvInv
<1>5. ASSUME NEW n \in Messages
      PROVE  StillThere(n)'
  BY <1>2 DEF ConvInv, StillThere
<1>6. Informed(m) /\ Spaced(m)
  BY DEF ConvInv
<1>7. Informed(m)'
  BY <1>1, <1>2, <1>6 DEF Informed, At, Early, welcomeVars
<1>8. Spaced(m)'
  BY <1>1, <1>2, <1>6 DEF Spaced, SpacedFrom, Nudging, At
<1>9. ASSUME NEW n \in Messages, n # m
      PROVE  Informed(n)' /\ Spaced(n)' /\ NoTrace(n)'
  <2>1. handler'[n] = handler[n]
    BY <1>1, <1>9
  <2>2. Informed(n)'
    BY <1>2, <1>9, <2>1 DEF ConvInv, Informed, At, welcomeVars
  <2>3. Spaced(n)'
    BY <1>2, <2>1 DEF ConvInv, Spaced, SpacedFrom, Nudging
  <2>4. NoTrace(n)'
    BY <1>2, <1>9, <2>1 DEF ConvInv, NoTrace, At, welcomeVars
  <2>5. QED
    BY <2>2, <2>3, <2>4
<1>10. NoTrace(m)'
  BY <1>1 DEF NoTrace, At
<1>11. QED
  BY <1>3, <1>4, <1>5, <1>7, <1>8, <1>9, <1>10 DEF ConvInv

LEMMA GreetStep ==
    ASSUME ConvInv, NEW m \in Messages, Greet(m)
    PROVE  ConvInv'
<1>1. PICK pc \in {"mark", "access"} : Goto(m, pc)
  BY DEF Greet
<1>2. /\ handler' \in [Messages -> HandlerType]
      /\ \A n \in Messages \ {m} : handler'[n] = handler[n]
      /\ handler'[m].pc = pc
      /\ handler'[m].row = handler[m].row
      /\ handler'[m].first = handler[m].first
      /\ handler'[m].kept = handler[m].kept
      /\ handler'[m].nudge = handler[m].nudge
  BY <1>1, GotoFields DEF ConvInv, Steps
<1>3. /\ At(m, "greet") /\ greeted' = greeted \cup {m}
      /\ UNCHANGED <<clock, rowVars, welcomeKey, followUps, before>>
  BY DEF Greet
<1>4. ConversationTypeOK'
  BY <1>2, <1>3 DEF ConvInv, ConversationTypeOK, rowVars
<1>5. \A r \in Messages : (lastFollowUpAt[r] <= clock)'
  BY <1>3 DEF ConvInv, rowVars
<1>6. ASSUME NEW n \in Messages
      PROVE  StillThere(n)'
  BY <1>3 DEF ConvInv, StillThere, rowVars
<1>7. Informed(m) /\ Spaced(m)
  BY DEF ConvInv
<1>8. Informed(m)'
  BY <1>2, <1>3, <1>7 DEF Informed, At, Early, rowVars
<1>9. Spaced(m)'
  BY <1>2, <1>3, <1>7 DEF Spaced, SpacedFrom, Nudging, At
<1>10. ASSUME NEW n \in Messages, n # m
      PROVE  Informed(n)' /\ Spaced(n)' /\ NoTrace(n)'
  <2>1. handler'[n] = handler[n]
    BY <1>2, <1>10
  <2>2. Informed(n)'
    BY <1>3, <1>10, <2>1 DEF ConvInv, Informed, At, rowVars
  <2>3. Spaced(n)'
    BY <1>3, <2>1 DEF ConvInv, Spaced, SpacedFrom, Nudging
  <2>4. NoTrace(n)'
    BY <1>3, <1>10, <2>1 DEF ConvInv, NoTrace, At, rowVars
  <2>5. QED
    BY <2>2, <2>3, <2>4
<1>11. NoTrace(m)'
  BY <1>2 DEF NoTrace, At
<1>12. QED
  BY <1>4, <1>5, <1>6, <1>8, <1>9, <1>10, <1>11 DEF ConvInv
-----------------------------------------------------------------------------
(* Handlings that learn something: one field of the handler at a time *)

LEMMA SetFirst ==
    ASSUME NEW h \in HandlerType, NEW v \in BOOLEAN
    PROVE  /\ [h EXCEPT !.first = v] \in HandlerType
           /\ [h EXCEPT !.first = v].first = v
           /\ [h EXCEPT !.first = v].pc = h.pc
           /\ [h EXCEPT !.first = v].row = h.row
           /\ [h EXCEPT !.first = v].status = h.status
           /\ [h EXCEPT !.first = v].kept = h.kept
           /\ [h EXCEPT !.first = v].nudge = h.nudge
BY DEF HandlerType

LEMMA SetPc ==
    ASSUME NEW h \in HandlerType, NEW v \in Steps
    PROVE  /\ [h EXCEPT !.pc = v] \in HandlerType
           /\ [h EXCEPT !.pc = v].pc = v
           /\ [h EXCEPT !.pc = v].row = h.row
           /\ [h EXCEPT !.pc = v].first = h.first
           /\ [h EXCEPT !.pc = v].status = h.status
           /\ [h EXCEPT !.pc = v].kept = h.kept
           /\ [h EXCEPT !.pc = v].nudge = h.nudge
BY DEF HandlerType

\* Fields no part of the invariant but the type speaks of.
LEMMA SetOther ==
    ASSUME NEW h \in HandlerType, NEW g,
           \/ \E v \in Languages : g = [h EXCEPT !.lang = v]
           \/ \E v \in BOOLEAN : g = [h EXCEPT !.order = v]
           \/ \E v \in Nat : g = [h EXCEPT !.now = v]
    PROVE  /\ g \in HandlerType
           /\ g.pc = h.pc /\ g.row = h.row /\ g.first = h.first
           /\ g.status = h.status /\ g.kept = h.kept /\ g.nudge = h.nudge
<1>1. ASSUME NEW v \in Languages, g = [h EXCEPT !.lang = v]
      PROVE  /\ g \in HandlerType
             /\ g.pc = h.pc /\ g.row = h.row /\ g.first = h.first
             /\ g.status = h.status /\ g.kept = h.kept /\ g.nudge = h.nudge
  BY <1>1 DEF HandlerType
<1>2. ASSUME NEW v \in BOOLEAN, g = [h EXCEPT !.order = v]
      PROVE  /\ g \in HandlerType
             /\ g.pc = h.pc /\ g.row = h.row /\ g.first = h.first
             /\ g.status = h.status /\ g.kept = h.kept /\ g.nudge = h.nudge
  BY <1>2 DEF HandlerType
<1>3. ASSUME NEW v \in Nat, g = [h EXCEPT !.now = v]
      PROVE  /\ g \in HandlerType
             /\ g.pc = h.pc /\ g.row = h.row /\ g.first = h.first
             /\ g.status = h.status /\ g.kept = h.kept /\ g.nudge = h.nudge
  BY <1>3 DEF HandlerType
<1>4. QED
  BY <1>1, <1>2, <1>3

LEMMA SetStatus ==
    ASSUME NEW h \in HandlerType, NEW v \in {"none", "interested", "hot"}
    PROVE  /\ [h EXCEPT !.status = v] \in HandlerType
           /\ [h EXCEPT !.status = v].status = v
           /\ [h EXCEPT !.status = v].pc = h.pc
           /\ [h EXCEPT !.status = v].row = h.row
           /\ [h EXCEPT !.status = v].first = h.first
           /\ [h EXCEPT !.status = v].kept = h.kept
           /\ [h EXCEPT !.status = v].nudge = h.nudge
BY DEF HandlerType

LEMMA SetNudge ==
    ASSUME NEW h \in HandlerType, NEW v \in {"idle", "read", "enqueue", "mark"}
    PROVE  /\ [h EXCEPT !.nudge = v] \in HandlerType
           /\ [h EXCEPT !.nudge = v].nudge = v
           /\ [h EXCEPT !.nudge = v].pc = h.pc
           /\ [h EXCEPT !.nudge = v].row = h.row
           /\ [h EXCEPT !.nudge = v].first = h.first
           /\ [h EXCEPT !.nudge = v].status = h.status
           /\ [h EXCEPT !.nudge = v].kept = h.kept
BY DEF HandlerType

LEMMA SetKept ==
    ASSUME NEW h \in HandlerType, NEW v \in BOOLEAN
    PROVE  /\ [h EXCEPT !.kept = v] \in HandlerType
           /\ [h EXCEPT !.kept = v].kept = v
           /\ [h EXCEPT !.kept = v].pc = h.pc
           /\ [h EXCEPT !.kept = v].row = h.row
           /\ [h EXCEPT !.kept = v].first = h.first
           /\ [h EXCEPT !.kept = v].status = h.status
           /\ [h EXCEPT !.kept = v].nudge = h.nudge
BY DEF HandlerType
\* What a handling past FindConversation may become.
MayBecome(m, h) ==
    /\ h.pc \in {"decide", "lead", "commit", "reply"}
    /\ h.pc # "reply" => h.row \in rows
    /\ h.first => h.row \notin before[m].spoken
    /\ h.pc = "commit" /\ h.status = "interested" => h.row \notin before[m].hot
    /\ h.kept => h.pc = "reply"
    /\ h.nudge # "idle" => h.pc = "reply" /\ h.row \in Messages
    /\ h.nudge # "enqueue"

LEMMA BecomeStep ==
    ASSUME ConvInv, NEW m \in Messages, NEW h \in HandlerType,
           handler' = [handler EXCEPT ![m] = h],
           Unmoved, UNCHANGED welcomeKey, MayBecome(m, h)
    PROVE  ConvInv'
<1>1. handler \in [Messages -> HandlerType] /\ welcomeKey \subseteq Customers
  BY DEF ConvInv, ConversationTypeOK
<1>2. /\ handler' \in [Messages -> HandlerType]
      /\ \A n \in Messages \ {m} : handler'[n] = handler[n]
      /\ handler'[m] = h
  BY <1>1
<1>3. Informed(m) /\ Spaced(m)
  BY DEF ConvInv
<1>4. Informed(m)'
  BY <1>2, <1>3 DEF Informed, MayBecome, At, Early, Unmoved, rowVars
<1>5. Spaced(m)'
  BY <1>2, <1>3 DEF Spaced, SpacedFrom, MayBecome, Nudging, Unmoved, rowVars
<1>6. ~At(m, "idle")'
  BY <1>2 DEF MayBecome, At
<1>7. QED
  BY <1>1, <1>2, <1>4, <1>5, <1>6, HandlerStep

LEMMA CountStep ==
    ASSUME ConvInv, NEW m \in Messages, CountMessages(m)
    PROVE  ConvInv'
<1>1. /\ Unmoved /\ UNCHANGED welcomeKey /\ At(m, "count")
  BY DEF CountMessages, Unmoved, welcomeVars
<1>2. /\ handler[m] \in HandlerType
      /\ StillThere(m) /\ Informed(m) /\ Spaced(m)
      /\ handler \in [Messages -> HandlerType]
  BY HandlerFacts DEF ConvInv, ConversationTypeOK
<1>3. CASE Goto(m, "decide")
  <2>1. MayGo(m, "decide") /\ welcomeKey' \subseteq Customers
    BY <1>1, <1>2, HandlerFacts DEF MayGo, Informed, Spaced, At, Early
  <2>2. QED
    BY <1>1, <1>3, <2>1, GotoStep DEF Steps
<1>4. ASSUME stored[handler[m].row] = 0, NEW l \in Languages,
             handler' = [handler EXCEPT ![m].pc = "decide", ![m].first = TRUE,
                                        ![m].lang = l]
      PROVE  ConvInv'
  <2> DEFINE h1 == [handler[m] EXCEPT !.pc = "decide"]
  <2> DEFINE h2 == [h1 EXCEPT !.first = TRUE]
  <2> DEFINE h3 == [h2 EXCEPT !.lang = l]
  <2>1. handler' = [handler EXCEPT ![m] = h3]
    BY <1>2, <1>4
  <2>2. /\ h1 \in HandlerType /\ h1.pc = "decide" /\ h1.row = handler[m].row
        /\ h1.kept = handler[m].kept /\ h1.nudge = handler[m].nudge
    BY <1>2, SetPc DEF Steps
  <2> HIDE DEF h1
  <2>3. /\ h2 \in HandlerType /\ h2.pc = "decide" /\ h2.row = handler[m].row
        /\ h2.kept = handler[m].kept /\ h2.nudge = handler[m].nudge
    BY <2>2, SetFirst
  <2> HIDE DEF h2
  <2>4. /\ h3 \in HandlerType /\ h3.pc = "decide" /\ h3.row = handler[m].row
        /\ h3.kept = handler[m].kept /\ h3.nudge = handler[m].nudge
    BY <2>3, SetOther
  <2> HIDE DEF h3
  <2>5. handler[m].row \in rows /\ ~handler[m].kept /\ handler[m].nudge = "idle"
    BY <1>1, <1>2 DEF Informed, Spaced, At
  <2>6. handler[m].row \notin before[m].spoken
    BY <1>2, <1>4 DEF StillThere
  <2>7. MayBecome(m, h3)
    BY <2>4, <2>5, <2>6 DEF MayBecome
  <2>8. QED
    BY <1>1, <2>1, <2>4, <2>7, BecomeStep
<1>5. QED
  BY <1>3, <1>4 DEF CountMessages

LEMMA DecideStep ==
    ASSUME ConvInv, NEW m \in Messages, Decide(m)
    PROVE  ConvInv'
<1>1. /\ Unmoved /\ UNCHANGED welcomeKey /\ At(m, "decide")
  BY DEF Decide, Unmoved, welcomeVars
<1>2. /\ handler[m] \in HandlerType /\ Informed(m) /\ Spaced(m)
      /\ handler \in [Messages -> HandlerType]
      /\ clock \in Nat
  BY HandlerFacts, ConversationAssumption DEF ConvInv, ConversationTypeOK
<1>3. PICK class \in {"none", "interested", "hot"}, order \in BOOLEAN :
          handler' = [handler EXCEPT
              ![m].pc = IF class = "interested" THEN "lead" ELSE "commit",
              ![m].status = class,
              ![m].order = order,
              ![m].now = clock]
  <2>1. PICK branch \in {"product", "order", "other"}, words \in {"none", "hot"} :
          handler' = [handler EXCEPT
              ![m].pc = IF (IF branch = "product" THEN "interested" ELSE words) = "interested"
                        THEN "lead" ELSE "commit",
              ![m].status = IF branch = "product" THEN "interested" ELSE words,
              ![m].order = branch = "order",
              ![m].now = clock]
    BY DEF Decide
  <2>2. (branch = "order") \in BOOLEAN
    OBVIOUS
  <2>3. (IF branch = "product" THEN "interested" ELSE words)
            \in {"none", "interested", "hot"}
    OBVIOUS
  <2>4. QED
    BY <2>1, <2>2, <2>3
<1> DEFINE pc == IF class = "interested" THEN "lead" ELSE "commit"
<1> DEFINE h1 == [handler[m] EXCEPT !.pc = pc]
<1> DEFINE h2 == [h1 EXCEPT !.status = class]
<1> DEFINE h3 == [h2 EXCEPT !.order = order]
<1> DEFINE h4 == [h3 EXCEPT !.now = clock]
<1>4. handler' = [handler EXCEPT ![m] = h4]
  BY <1>2, <1>3
<1>5. pc \in {"lead", "commit"} /\ (pc = "commit" => class # "interested")
  OBVIOUS
<1> HIDE DEF pc
<1>6. /\ h1 \in HandlerType /\ h1.pc = pc /\ h1.row = handler[m].row
      /\ h1.first = handler[m].first /\ h1.kept = handler[m].kept
      /\ h1.nudge = handler[m].nudge
  <2>1. pc \in Steps /\ handler[m] \in HandlerType
    BY <1>2, <1>5 DEF Steps
  <2>2. QED
    BY <2>1, SetPc
<1> HIDE DEF h1
<1>7. /\ h2 \in HandlerType /\ h2.pc = pc /\ h2.row = handler[m].row
      /\ h2.first = handler[m].first /\ h2.kept = handler[m].kept
      /\ h2.nudge = handler[m].nudge /\ h2.status = class
  BY <1>6, SetStatus
<1> HIDE DEF h2
<1>8. /\ h3 \in HandlerType /\ h3.pc = pc /\ h3.row = handler[m].row
      /\ h3.first = handler[m].first /\ h3.kept = handler[m].kept
      /\ h3.nudge = handler[m].nudge /\ h3.status = class
  BY <1>7, SetOther
<1> HIDE DEF h3
<1>9. /\ h4 \in HandlerType /\ h4.pc = pc /\ h4.row = handler[m].row
      /\ h4.first = handler[m].first /\ h4.kept = handler[m].kept
      /\ h4.nudge = handler[m].nudge /\ h4.status = class
  BY <1>2, <1>8, SetOther
<1> HIDE DEF h4
<1>10. /\ handler[m].row \in rows /\ ~handler[m].kept /\ handler[m].nudge = "idle"
       /\ handler[m].first => handler[m].row \notin before[m].spoken
  BY <1>1, <1>2 DEF Informed, Spaced, At
<1>11. MayBecome(m, h4)
  BY <1>5, <1>9, <1>10 DEF MayBecome
<1>12. QED
  BY <1>1, <1>4, <1>9, <1>11, BecomeStep

LEMMA LeadStep ==
    ASSUME ConvInv, NEW m \in Messages, ReadLeadStatus(m)
    PROVE  ConvInv'
<1>1. /\ Unmoved /\ UNCHANGED welcomeKey /\ At(m, "lead")
  BY DEF ReadLeadStatus, Unmoved, welcomeVars
<1>2. /\ handler[m] \in HandlerType /\ StillThere(m) /\ Informed(m) /\ Spaced(m)
      /\ handler \in [Messages -> HandlerType]
      /\ clock \in Nat
      /\ handler[m].status \in {"none", "interested", "hot"}
  BY HandlerFacts, ConversationAssumption DEF ConvInv, ConversationTypeOK, HandlerType
<1> DEFINE status == IF leadStatus[handler[m].row] = "hot" THEN "none"
                     ELSE handler[m].status
<1> DEFINE h1 == [handler[m] EXCEPT !.pc = "commit"]
<1> DEFINE h2 == [h1 EXCEPT !.status = status]
<1> DEFINE h3 == [h2 EXCEPT !.now = clock]
<1>3. handler' = [handler EXCEPT ![m] = h3]
  BY <1>2 DEF ReadLeadStatus, HandlerType
<1>4. /\ status \in {"none", "interested", "hot"}
      /\ status = "interested" => handler[m].row \notin before[m].hot
  BY <1>2 DEF StillThere
<1> HIDE DEF status
<1>5. /\ h1 \in HandlerType /\ h1.pc = "commit" /\ h1.row = handler[m].row
      /\ h1.first = handler[m].first /\ h1.kept = handler[m].kept
      /\ h1.nudge = handler[m].nudge
  BY <1>2, SetPc DEF Steps
<1> HIDE DEF h1
<1>6. /\ h2 \in HandlerType /\ h2.pc = "commit" /\ h2.row = handler[m].row
      /\ h2.first = handler[m].first /\ h2.kept = handler[m].kept
      /\ h2.nudge = handler[m].nudge /\ h2.status = status
  BY <1>4, <1>5, SetStatus
<1> HIDE DEF h2
<1>7. /\ h3 \in HandlerType /\ h3.pc = "commit" /\ h3.row = handler[m].row
      /\ h3.first = handler[m].first /\ h3.kept = handler[m].kept
      /\ h3.nudge = handler[m].nudge /\ h3.status = status
  BY <1>2, <1>6, SetOther
<1> HIDE DEF h3
<1>8. /\ handler[m].row \in rows /\ ~handler[m].kept /\ handler[m].nudge = "idle"
      /\ handler[m].first => handler[m].row \notin before[m].spoken
  BY <1>1, <1>2 DEF Informed, Spaced, At
<1>9. MayBecome(m, h3)
  BY <1>4, <1>7, <1>8 DEF MayBecome
<1>10. QED
  BY <1>1, <1>3, <1>7, <1>9, BecomeStep
LEMMA AccountStep ==
    ASSUME ConvInv, NEW m \in Messages, ChooseAccount(m)
    PROVE  ConvInv'
<1>1. /\ Unmoved /\ UNCHANGED welcomeKey /\ At(m, "account")
  BY DEF ChooseAccount, Unmoved, welcomeVars
<1>2. /\ handler[m] \in HandlerType /\ Informed(m) /\ Spaced(m)
      /\ handler \in [Messages -> HandlerType]
      /\ rows \subseteq Messages
  BY HandlerFacts DEF ConvInv, ConversationTypeOK
<1>3. PICK nudge \in {"idle", "read"} :
          handler' = [handler EXCEPT ![m].pc = "reply", ![m].nudge = nudge]
  BY DEF ChooseAccount
<1> DEFINE h1 == [handler[m] EXCEPT !.pc = "reply"]
<1> DEFINE h2 == [h1 EXCEPT !.nudge = nudge]
<1>4. handler' = [handler EXCEPT ![m] = h2]
  BY <1>2, <1>3
<1>5. /\ h1 \in HandlerType /\ h1.pc = "reply" /\ h1.row = handler[m].row
      /\ h1.first = handler[m].first
  BY <1>2, SetPc DEF Steps
<1> HIDE DEF h1
<1>6. nudge \in {"idle", "read", "enqueue", "mark"}
  BY <1>3
<1>7. /\ h2 \in HandlerType /\ h2.pc = "reply" /\ h2.row = handler[m].row
      /\ h2.first = handler[m].first /\ h2.nudge = nudge
  BY <1>5, <1>6, SetNudge
<1> HIDE DEF h2
<1>8. /\ handler[m].row \in rows
      /\ handler[m].first => handler[m].row \notin before[m].spoken
  BY <1>1, <1>2 DEF Informed, At
<1>9. MayBecome(m, h2)
  BY <1>2, <1>3, <1>7, <1>8 DEF MayBecome
<1>10. QED
  BY <1>1, <1>4, <1>7, <1>9, BecomeStep

\* The transaction: what others have seen stays there, except that a row that
\* stops being hot is no longer expected to be.
LEMMA CommitStep ==
    ASSUME ConvInv, NEW m \in Messages, Commit(m)
    PROVE  ConvInv'
<1> DEFINE row == handler[m].row
<1>1. /\ handler[m] \in HandlerType /\ Informed(m) /\ Spaced(m)
      /\ rows \subseteq Messages
      /\ handler \in [Messages -> HandlerType]
      /\ before \in [Messages -> BeforeType]
      /\ stored \in [Messages -> Nat]
      /\ language \in [Messages -> Languages]
      /\ leadStatus \in [Messages -> LeadStatuses]
      /\ lastMessageAt \in [Messages -> Nat \cup {Never}]
  BY HandlerFacts DEF ConvInv, ConversationTypeOK
<1>2. /\ At(m, "commit")
      /\ UNCHANGED <<clock, rows, lastFollowUpAt, welcomeVars, followUps>>
  BY DEF Commit
<1>3. row \in rows /\ row \in Messages
  BY <1>1, <1>2 DEF Informed, At
<1>4. /\ handler[m].now \in Nat /\ handler[m].lang \in Languages
      /\ handler[m].status \in {"none", "interested", "hot"}
  BY <1>1 DEF HandlerType
<1>5. /\ stored' \in [Messages -> Nat]
      /\ \A r \in Messages : stored[r] > 0 => stored'[r] > 0
  BY <1>1, <1>3 DEF Commit
<1>6. /\ language' \in [Messages -> Languages]
      /\ lastMessageAt' \in [Messages -> Nat \cup {Never}]
  BY <1>1, <1>3, <1>4 DEF Commit
<1>7. leadStatus' \in [Messages -> LeadStatuses]
  BY <1>1, <1>3, <1>4 DEF Commit, LeadStatuses
<1>8. /\ handler' \in [Messages -> HandlerType]
      /\ \A n \in Messages \ {m} : handler'[n] = handler[n]
      /\ handler'[m].pc \in {"reply", "account"}
      /\ handler'[m].row = row
      /\ handler'[m].first = handler[m].first
      /\ handler'[m].nudge = handler[m].nudge
  <2> DEFINE pc == IF handler[m].order THEN "reply" ELSE "account"
  <2> DEFINE h1 == [handler[m] EXCEPT !.pc = pc]
  <2> DEFINE h2 == [h1 EXCEPT !.kept = TRUE]
  <2>1. handler' = [handler EXCEPT ![m] = h2]
    BY <1>1 DEF Commit
  <2>2. pc \in {"reply", "account"}
    OBVIOUS
  <2>3. pc \in Steps
    BY <2>2 DEF Steps
  <2> HIDE DEF pc
  <2>4. /\ h1 \in HandlerType /\ h1.pc = pc /\ h1.row = handler[m].row
        /\ h1.first = handler[m].first /\ h1.nudge = handler[m].nudge
    BY <1>1, <2>3, SetPc
  <2> HIDE DEF h1
  <2>5. /\ h2 \in HandlerType /\ h2.pc = pc /\ h2.row = handler[m].row
        /\ h2.first = handler[m].first /\ h2.nudge = handler[m].nudge
    BY <2>4, SetKept
  <2> HIDE DEF h2
  <2>6. QED
    BY <1>1, <2>1, <2>2, <2>5
<1>9. before' = [n \in Messages |->
                    [before[n] EXCEPT !.hot = {x \in @ : leadStatus'[x] = "hot"}]]
  BY DEF Commit
<1>10. ASSUME NEW n \in Messages
       PROVE  /\ before'[n] \in BeforeType
              /\ before'[n].rows = before[n].rows
              /\ before'[n].spoken = before[n].spoken
              /\ before'[n].nudgedAt = before[n].nudgedAt
              /\ before'[n].hot = {x \in before[n].hot : leadStatus'[x] = "hot"}
  <2>1. before[n] \in BeforeType
    BY <1>1
  <2>2. before'[n] = [before[n] EXCEPT !.hot = {x \in @ : leadStatus'[x] = "hot"}]
    BY <1>9
  <2>3. QED
    BY <2>1, <2>2 DEF BeforeType
<1>11. before' \in [Messages -> BeforeType]
  BY <1>9, <1>10
<1>12. ConversationTypeOK'
  BY <1>2, <1>5, <1>6, <1>7, <1>8, <1>11 DEF ConvInv, ConversationTypeOK, welcomeVars
<1>13. \A r \in Messages : (lastFollowUpAt[r] <= clock)'
  BY <1>2 DEF ConvInv
<1> HIDE DEF row
<1>14. ASSUME NEW n \in Messages
       PROVE  StillThere(n)'
  <2>1. StillThere(n) /\ before[n] \in BeforeType
    BY <1>1 DEF ConvInv
  <2>2. before[n].rows \subseteq Messages
    BY <2>1 DEF BeforeType
  <2>3. QED
    BY <1>2, <1>5, <1>10, <2>1, <2>2 DEF StillThere
<1>15. Informed(m)'
  <2>1. \/ ~handler[m].first \/ row \notin before[m].spoken
    BY <1>1 DEF Informed, row
  <2>2. QED
    BY <1>1, <1>2, <1>3, <1>8, <1>10, <2>1 DEF Informed, At, Early, welcomeVars
<1>16. Spaced(m)'
  BY <1>1, <1>2, <1>8, <1>10 DEF Spaced, SpacedFrom, Nudging, At
<1>17. ASSUME NEW n \in Messages, n # m
       PROVE  Informed(n)' /\ Spaced(n)' /\ NoTrace(n)'
  <2>1. handler'[n] = handler[n]
    BY <1>8, <1>17
  <2>2. Informed(n)'
    BY <1>2, <1>10, <2>1 DEF ConvInv, Informed, At, welcomeVars
  <2>3. Spaced(n)'
    BY <1>2, <1>10, <2>1 DEF ConvInv, Spaced, SpacedFrom, Nudging
  <2>4. NoTrace(n)'
    BY <1>2, <2>1 DEF ConvInv, NoTrace, At, welcomeVars
  <2>5. QED
    BY <2>2, <2>3, <2>4
<1>18. NoTrace(m)'
  BY <1>8 DEF NoTrace, At
<1>19. QED
  BY <1>12, <1>13, <1>14, <1>15, <1>16, <1>17, <1>18 DEF ConvInv

-----------------------------------------------------------------------------
(* scheduleFollowUp and the passing of time *)

LEMMA ReadFollowUpStep ==
    ASSUME ConvInv, NEW m \in Messages, ReadLastFollowUp(m) \/ AbandonFollowUp(m)
    PROVE  ConvInv'
<1>1. Unmoved /\ UNCHANGED welcomeKey /\ handler[m].nudge # "idle"
  BY DEF ReadLastFollowUp, AbandonFollowUp, Unmoved, welcomeVars, Nudging
<1>2. CASE NudgeGoto(m, "idle")
  BY <1>1, <1>2, NudgeStep
<1>3. CASE ReadLastFollowUp(m) /\ NudgeGoto(m, "enqueue")
           /\ ~(/\ lastFollowUpAt[handler[m].row] # Never
                /\ clock - lastFollowUpAt[handler[m].row] < Day)
  <2>1. /\ handler[m].row \in Messages
        /\ StillThere(m)
        /\ before[m] \in BeforeType
    BY <1>1, HandlerFacts DEF Spaced
  <2>2. /\ before[m].nudgedAt[handler[m].row] \in Nat \cup {Never}
        /\ lastFollowUpAt[handler[m].row] \in Nat \cup {Never}
        /\ clock \in Nat /\ Day \in Nat
    BY <2>1, ConversationAssumption DEF ConvInv, ConversationTypeOK, BeforeType
  <2>3. before[m].nudgedAt[handler[m].row] # Never =>
            before[m].nudgedAt[handler[m].row] <= lastFollowUpAt[handler[m].row]
    BY <2>1 DEF StillThere
  <2>4. SpacedFrom(m, handler[m].row, clock)
    BY <1>3, <2>2, <2>3 DEF SpacedFrom, Never
  <2>5. QED
    BY <1>1, <1>3, <2>4, NudgeStep
<1>4. QED
  BY <1>2, <1>3 DEF ReadLastFollowUp, AbandonFollowUp
LEMMA EnqueueStep ==
    ASSUME ConvInv, NEW m \in Messages, EnqueueFollowUp(m)
    PROVE  ConvInv'
<1> DEFINE job == [row |-> handler[m].row, at |-> clock, by |-> m]
<1>1. /\ NudgeGoto(m, "mark") /\ Nudging(m, "enqueue")
      /\ followUps' = followUps \cup {job}
      /\ UNCHANGED <<clock, rowVars, welcomeVars, before>>
  BY DEF EnqueueFollowUp
<1>2. /\ handler' \in [Messages -> HandlerType]
      /\ \A n \in Messages \ {m} : handler'[n] = handler[n]
      /\ handler'[m].pc = handler[m].pc
      /\ handler'[m].row = handler[m].row
      /\ handler'[m].first = handler[m].first
      /\ handler'[m].status = handler[m].status
      /\ handler'[m].kept = handler[m].kept
      /\ handler'[m].nudge = "mark"
  BY <1>1, NudgeFields DEF ConvInv
<1>3. Informed(m) /\ Spaced(m)
  BY DEF ConvInv
<1>4. /\ handler[m].row \in Messages /\ handler[m].pc \in {"reply", "done"}
      /\ SpacedFrom(m, handler[m].row, clock)
  BY <1>1, <1>3 DEF Spaced, Nudging
<1>5. job \in FollowUpJob
  BY <1>4, ConversationAssumption DEF FollowUpJob, ConvInv, ConversationTypeOK
<1>6. job.by = m /\ SpacedFrom(m, job.row, job.at)
  BY <1>4
<1> HIDE DEF job
<1>7. ConversationTypeOK'
  BY <1>1, <1>2, <1>5 DEF ConvInv, ConversationTypeOK, rowVars, welcomeVars
<1>8. \A r \in Messages : (lastFollowUpAt[r] <= clock)'
  BY <1>1 DEF ConvInv, rowVars
<1>9. ASSUME NEW n \in Messages
      PROVE  StillThere(n)'
  BY <1>1 DEF ConvInv, StillThere, rowVars
<1>10. Informed(m)'
  BY <1>1, <1>2, <1>3 DEF Informed, At, rowVars, welcomeVars
<1>11. Spaced(m)'
  BY <1>1, <1>2, <1>3, <1>4, <1>6 DEF Spaced, SpacedFrom, Nudging
<1>12. ASSUME NEW n \in Messages, n # m
       PROVE  Informed(n)' /\ Spaced(n)' /\ NoTrace(n)'
  <2>1. handler'[n] = handler[n]
    BY <1>2, <1>12
  <2>2. Informed(n)'
    BY <1>1, <2>1 DEF ConvInv, Informed, At, rowVars, welcomeVars
  <2>3. Spaced(n)'
    BY <1>1, <1>6, <1>12, <2>1 DEF ConvInv, Spaced, SpacedFrom, Nudging
  <2>4. NoTrace(n)'
    BY <1>1, <1>6, <1>12, <2>1 DEF ConvInv, NoTrace, At, rowVars, welcomeVars
  <2>5. QED
    BY <2>2, <2>3, <2>4
<1>13. NoTrace(m)'
  BY <1>2, <1>4 DEF NoTrace, At
<1>14. QED
  BY <1>7, <1>8, <1>9, <1>10, <1>11, <1>12, <1>13 DEF ConvInv

LEMMA MarkStep ==
    ASSUME ConvInv, NEW m \in Messages, MarkFollowUp(m)
    PROVE  ConvInv'
<1>1. /\ NudgeGoto(m, "idle") /\ Nudging(m, "mark")
      /\ lastFollowUpAt' = [lastFollowUpAt EXCEPT ![handler[m].row] = clock]
      /\ UNCHANGED <<clock, rows, stored, language, leadStatus, lastMessageAt,
                     welcomeVars, followUps, before>>
  BY DEF MarkFollowUp
<1>2. /\ handler' \in [Messages -> HandlerType]
      /\ \A n \in Messages \ {m} : handler'[n] = handler[n]
      /\ handler'[m].pc = handler[m].pc
      /\ handler'[m].row = handler[m].row
      /\ handler'[m].first = handler[m].first
      /\ handler'[m].status = handler[m].status
      /\ handler'[m].kept = handler[m].kept
      /\ handler'[m].nudge = "idle"
  BY <1>1, NudgeFields DEF ConvInv
<1>3. Informed(m) /\ Spaced(m)
  BY DEF ConvInv
<1>4. handler[m].row \in Messages /\ handler[m].pc \in {"reply", "done"}
  BY <1>1, <1>3 DEF Spaced, Nudging
<1>5. /\ lastFollowUpAt \in [Messages -> Nat \cup {Never}]
      /\ clock \in Nat
      /\ \A r \in Messages : lastFollowUpAt[r] <= clock
  BY ConversationAssumption DEF ConvInv, ConversationTypeOK
<1>6. lastFollowUpAt' \in [Messages -> Nat \cup {Never}]
  BY <1>1, <1>4, <1>5
<1>7. ConversationTypeOK'
  BY <1>1, <1>2, <1>6 DEF ConvInv, ConversationTypeOK, welcomeVars
<1>8. \A r \in Messages : /\ (lastFollowUpAt[r] <= clock)'
                          /\ lastFollowUpAt[r] <= lastFollowUpAt'[r]
  BY <1>1, <1>4, <1>5 DEF Never
<1>9. ASSUME NEW n \in Messages
      PROVE  StillThere(n)'
  <2>1. StillThere(n)
    BY DEF ConvInv
  <2>2. before[n].nudgedAt \in [Messages -> Nat \cup {Never}]
    BY DEF ConvInv, ConversationTypeOK, BeforeType
  <2>3. \A r \in Messages : before[n].nudgedAt[r] # Never =>
            before[n].nudgedAt[r] <= lastFollowUpAt'[r]
    <3>1. TAKE r \in Messages
    <3>2. HAVE before[n].nudgedAt[r] # Never
    <3>3. before[n].nudgedAt[r] <= lastFollowUpAt[r]
      BY <2>1, <3>2 DEF StillThere
    <3>4. /\ before[n].nudgedAt[r] \in Int /\ lastFollowUpAt[r] \in Int
          /\ lastFollowUpAt'[r] \in Int
      BY <1>5, <1>6, <2>2 DEF Never
    <3>5. QED
      BY <1>8, <3>3, <3>4
  <2>4. QED
    BY <1>1, <2>1, <2>3 DEF StillThere
<1>10. Informed(m)'
  BY <1>1, <1>2, <1>3 DEF Informed, At, welcomeVars
<1>11. Spaced(m)'
  BY <1>1, <1>2, <1>3 DEF Spaced, SpacedFrom, Nudging
<1>12. ASSUME NEW n \in Messages, n # m
       PROVE  Informed(n)' /\ Spaced(n)' /\ NoTrace(n)'
  <2>1. handler'[n] = handler[n]
    BY <1>2, <1>12
  <2>2. Informed(n)'
    BY <1>1, <2>1 DEF ConvInv, Informed, At, welcomeVars
  <2>3. Spaced(n)'
    BY <1>1, <2>1 DEF ConvInv, Spaced, SpacedFrom, Nudging
  <2>4. NoTrace(n)'
    BY <1>1, <2>1 DEF ConvInv, NoTrace, At, welcomeVars
  <2>5. QED
    BY <2>2, <2>3, <2>4
<1>13. NoTrace(m)'
  BY <1>2, <1>4 DEF NoTrace, At
<1>14. QED
  BY <1>7, <1>8, <1>9, <1>10, <1>11, <1>12, <1>13 DEF ConvInv

LEMMA RunStep ==
    ASSUME ConvInv, NEW f \in followUps, RunFollowUp(f)
    PROVE  ConvInv'
<1>1. /\ followUps' \subseteq followUps
      /\ UNCHANGED <<clock, rowVars, welcomeVars, handler, before>>
  BY DEF RunFollowUp
<1>2. ConversationTypeOK'
  BY <1>1 DEF ConvInv, ConversationTypeOK, rowVars, welcomeVars
<1>3. \A r \in Messages : (lastFollowUpAt[r] <= clock)'
  BY <1>1 DEF ConvInv, rowVars
<1>4. ASSUME NEW n \in Messages
      PROVE  StillThere(n)' /\ Informed(n)' /\ Spaced(n)' /\ NoTrace(n)'
  <2>1. StillThere(n)'
    BY <1>1 DEF ConvInv, StillThere, rowVars
  <2>2. Informed(n)'
    BY <1>1 DEF ConvInv, Informed, At, rowVars, welcomeVars
  <2>3. Spaced(n)'
    BY <1>1 DEF ConvInv, Spaced, SpacedFrom, Nudging
  <2>4. NoTrace(n)'
    BY <1>1 DEF ConvInv, NoTrace, At, rowVars, welcomeVars
  <2>5. QED
    BY <2>1, <2>2, <2>3, <2>4
<1>5. QED
  BY <1>2, <1>3, <1>4 DEF ConvInv

LEMMA TickStep ==
    ASSUME ConvInv, Tick
    PROVE  ConvInv'
<1>1. /\ clock' = clock + 1 /\ clock < MaxClock
      /\ UNCHANGED <<rowVars, welcomeVars, followUps, handler, before>>
  BY DEF Tick
<1>2. /\ clock \in 0..MaxClock /\ MaxClock \in Nat /\ Day \in Nat
      /\ lastFollowUpAt \in [Messages -> Nat \cup {Never}]
      /\ before \in [Messages -> BeforeType]
  BY ConversationAssumption DEF ConvInv, ConversationTypeOK
<1>3. ConversationTypeOK'
  BY <1>1, <1>2 DEF ConvInv, ConversationTypeOK, rowVars, welcomeVars
<1>4. \A r \in Messages : (lastFollowUpAt[r] <= clock)'
  BY <1>1, <1>2 DEF ConvInv, rowVars, Never
<1>5. ASSUME NEW n \in Messages
      PROVE  StillThere(n)' /\ Informed(n)' /\ Spaced(n)' /\ NoTrace(n)'
  <2>1. StillThere(n)'
    BY <1>1 DEF ConvInv, StillThere, rowVars
  <2>2. Informed(n)'
    BY <1>1 DEF ConvInv, Informed, At, rowVars, welcomeVars
  <2>3. Spaced(n)'
    <3>1. Spaced(n) /\ before[n].nudgedAt \in [Messages -> Nat \cup {Never}]
      BY <1>2 DEF ConvInv, BeforeType
    <3>2. Nudging(n, "enqueue") => SpacedFrom(n, handler[n].row, clock + 1)
      <4>1. HAVE Nudging(n, "enqueue")
      <4>2. SpacedFrom(n, handler[n].row, clock) /\ handler[n].row \in Messages
        BY <3>1, <4>1 DEF Spaced, Nudging
      <4>3. before[n].nudgedAt[handler[n].row] \in Int
        BY <3>1, <4>2 DEF Never
      <4>4. QED
        BY <1>2, <4>2, <4>3 DEF SpacedFrom
    <3>3. QED
      BY <1>1, <3>1, <3>2 DEF Spaced, SpacedFrom, Nudging
  <2>4. NoTrace(n)'
    BY <1>1 DEF ConvInv, NoTrace, At, rowVars, welcomeVars
  <2>5. QED
    BY <2>1, <2>2, <2>3, <2>4
<1>6. QED
  BY <1>3, <1>4, <1>5 DEF ConvInv
-----------------------------------------------------------------------------
(* The theorems *)

LEMMA ConvInit == Init => ConvInv
<1> SUFFICES ASSUME Init
             PROVE  ConvInv
  OBVIOUS
<1>1. NotStarted \in HandlerType /\ NothingKnown \in BeforeType
  BY DEF NotStarted, NothingKnown, HandlerType, BeforeType, Steps, Languages
<1>2. ConversationTypeOK
  BY <1>1, ConversationAssumption
     DEF Init, ConversationTypeOK, Languages, LeadStatuses
<1>3. \A r \in Messages : lastFollowUpAt[r] <= clock
  BY DEF Init, Never
<1>4. ASSUME NEW m \in Messages
      PROVE  StillThere(m) /\ Informed(m) /\ Spaced(m) /\ NoTrace(m)
  <2>1. StillThere(m)
    BY DEF Init, StillThere, NothingKnown
  <2>2. Informed(m)
    BY DEF Init, Informed, NotStarted, At
  <2>3. Spaced(m)
    BY DEF Init, Spaced, NotStarted, Nudging
  <2>4. NoTrace(m)
    BY DEF Init, NoTrace
  <2>5. QED
    BY <2>1, <2>2, <2>3, <2>4
<1>5. QED
  BY <1>2, <1>3, <1>4 DEF ConvInv

LEMMA ConvNext == ConvInv /\ [Next]_vars => ConvInv'
<1> SUFFICES ASSUME ConvInv, [Next]_vars
             PROVE  ConvInv'
  OBVIOUS
<1>1. CASE UNCHANGED vars
  <2>1. UNCHANGED <<clock, rows, stored, language, leadStatus, lastMessageAt,
                    lastFollowUpAt, welcomeKey, greeted, followUps, handler, before>>
    BY <1>1 DEF vars, rowVars, welcomeVars
  <2>2. ConversationTypeOK' /\ \A r \in Messages : (lastFollowUpAt[r] <= clock)'
    BY <2>1 DEF ConvInv, ConversationTypeOK
  <2>3. ASSUME NEW m \in Messages
        PROVE  StillThere(m)' /\ Informed(m)' /\ Spaced(m)' /\ NoTrace(m)'
    BY <2>1 DEF ConvInv, StillThere, Informed, Spaced, SpacedFrom, NoTrace, At, Nudging
  <2>4. QED
    BY <2>2, <2>3 DEF ConvInv
<1>2. ASSUME NEW m \in Messages, WebhookMessage(m) \/ BaileysMessage(m)
      PROVE  ConvInv'
  BY <1>2, BeginStep
<1>3. ASSUME NEW m \in Messages, SendWelcomeIfFirstContact(m) \/ CountAllMessages(m)
      PROVE  ConvInv'
  BY <1>3, WelcomeStep, GreetStep DEF SendWelcomeIfFirstContact
<1>4. ASSUME NEW m \in Messages, ProcessMessage(m)
      PROVE  ConvInv'
  BY <1>4, AccessStep, FindStep, CreateStep, CountStep, DecideStep, LeadStep, CommitStep,
     AccountStep DEF ProcessMessage
<1>5. ASSUME NEW m \in Messages, Reply(m) \/ Abandon(m)
      PROVE  ConvInv'
  BY <1>5, AccessStep
<1>6. ASSUME NEW m \in Messages, ScheduleFollowUp(m)
      PROVE  ConvInv'
  BY <1>6, ReadFollowUpStep, EnqueueStep, MarkStep DEF ScheduleFollowUp
<1>7. ASSUME NEW f \in followUps, RunFollowUp(f)
      PROVE  ConvInv'
  BY <1>7, RunStep
<1>8. CASE Tick
  BY <1>8, TickStep
<1>9. QED
  BY <1>1, <1>2, <1>3, <1>4, <1>5, <1>6, <1>7, <1>8 DEF Next

\* The invariant of the inbound pipeline, for any number of overlapping messages.
THEOREM ConversationInvariant == Spec => []ConvInv
BY ConvInit, ConvNext, PTL DEF Spec

\* Types, whatever the messages and the failures of Redis.
THEOREM ConversationTypeCorrect == Spec => []ConversationTypeOK
<1>1. ConvInv => ConversationTypeOK
  BY DEF ConvInv
<1>2. QED
  BY <1>1, ConversationInvariant, PTL

\* findOrCreateConversation: a duplicate row needs first messages that overlap.
THEOREM NoLateDuplicateRows == Spec => []NoLateDuplicateRow
<1>1. ConvInv => NoLateDuplicateRow
  BY DEF ConvInv, ConversationTypeOK, Informed, NoLateDuplicateRow
<1>2. QED
  BY <1>1, ConversationInvariant, PTL

\* sendWelcomeIfFirstContact and its Baileys twin: a customer who has spoken is
\* not welcomed again, even when Redis has lost the key.
THEOREM NoLateWelcomes == Spec => []NoLateWelcome
<1>1. ConvInv => NoLateWelcome
  BY DEF ConvInv, ConversationTypeOK, Informed, NoLateWelcome
<1>2. QED
  BY <1>1, ConversationInvariant, PTL

\* scheduleFollowUp: no follow-up within a day of one the message could know of.
THEOREM FollowUpsAreSpaced == Spec => []FollowUpsSpaced
<1>1. ASSUME ConvInv, NEW f \in followUps
      PROVE  \/ before[f.by].nudgedAt[f.row] = Never
             \/ f.at - before[f.by].nudgedAt[f.row] >= Day
  <2>1. f.by \in Messages
    BY <1>1 DEF ConvInv, ConversationTypeOK, FollowUpJob
  <2>2. QED
    BY <1>1, <2>1 DEF ConvInv, Spaced, SpacedFrom
<1>2. ConvInv => FollowUpsSpaced
  BY <1>1 DEF FollowUpsSpaced
<1>3. QED
  BY <1>2, ConversationInvariant, PTL

\* Only the transaction of processMessage writes language and leadStatus.
LEMMA OnlyCommitWrites ==
    ASSUME [Next]_vars
    PROVE  UNCHANGED <<language, leadStatus>> \/ \E m \in Messages : Commit(m)
<1>1. CASE UNCHANGED vars
  BY <1>1 DEF vars, rowVars
<1>2. ASSUME NEW m \in Messages, WebhookMessage(m) \/ BaileysMessage(m)
      PROVE  UNCHANGED <<language, leadStatus>>
  BY <1>2 DEF WebhookMessage, BaileysMessage, Begin, rowVars
<1>3. ASSUME NEW m \in Messages, SendWelcomeIfFirstContact(m) \/ CountAllMessages(m)
      PROVE  UNCHANGED <<language, leadStatus>>
  BY <1>3 DEF SendWelcomeIfFirstContact, ReadWelcomeKey, LookUpFirstContact, Greet,
     MarkWelcomed, CountAllMessages, rowVars
<1>4. ASSUME NEW m \in Messages, ProcessMessage(m), ~Commit(m)
      PROVE  UNCHANGED <<language, leadStatus>>
  BY <1>4 DEF ProcessMessage, CheckTenantAccess, FindConversation, CreateConversation,
     CountMessages, Decide, ReadLeadStatus, ChooseAccount, rowVars
<1>5. ASSUME NEW m \in Messages, Reply(m) \/ Abandon(m) \/ ScheduleFollowUp(m)
      PROVE  UNCHANGED <<language, leadStatus>>
  BY <1>5 DEF Reply, Abandon, ScheduleFollowUp, ReadLastFollowUp, EnqueueFollowUp,
     MarkFollowUp, AbandonFollowUp, rowVars
<1>6. ASSUME NEW f \in followUps, RunFollowUp(f)
      PROVE  UNCHANGED <<language, leadStatus>>
  BY <1>6 DEF RunFollowUp, rowVars
<1>7. CASE Tick
  BY <1>7 DEF Tick, rowVars
<1>8. QED
  BY <1>1, <1>2, <1>3, <1>4, <1>5, <1>6, <1>7 DEF Next

\* The handling that commits, and what the invariant knows of it.
LEMMA CommitFacts ==
    ASSUME ConvInv, NEW m \in Messages, Commit(m)
    PROVE  /\ ~handler[m].kept /\ handler'[m].kept
           /\ handler[m].row \in Messages
           /\ \A r \in Messages \ {handler[m].row} :
                  language'[r] = language[r] /\ leadStatus'[r] = leadStatus[r]
           /\ language'[handler[m].row] # language[handler[m].row] =>
                  handler[m].row \notin before[m].spoken
           /\ leadStatus[handler[m].row] = "hot" /\ leadStatus'[handler[m].row] # "hot" =>
                  handler[m].row \notin before[m].hot
<1> DEFINE row == handler[m].row
<1>1. /\ handler[m] \in HandlerType /\ Informed(m) /\ rows \subseteq Messages
      /\ handler \in [Messages -> HandlerType]
      /\ language \in [Messages -> Languages]
      /\ leadStatus \in [Messages -> LeadStatuses]
      /\ handler[m].status \in {"none", "interested", "hot"}
  BY HandlerFacts DEF ConvInv, ConversationTypeOK, HandlerType
<1>2. At(m, "commit") /\ row \in rows /\ row \in Messages
  BY <1>1 DEF Commit, Informed, At
<1>3. ~handler[m].kept
  BY <1>1, <1>2 DEF Informed, At
<1>4. handler'[m].kept = TRUE
  <2> DEFINE half == [handler EXCEPT
                         ![m].pc = IF handler[m].order THEN "reply" ELSE "account"]
  <2>1. handler' = [half EXCEPT ![m].kept = TRUE]
    BY <1>1 DEF Commit
  <2>2. half \in [Messages -> HandlerType]
    BY <1>1 DEF HandlerType, Steps
  <2> HIDE DEF half
  <2>3. QED
    BY <2>1, <2>2 DEF HandlerType
<1>5. \A r \in Messages \ {row} :
          language'[r] = language[r] /\ leadStatus'[r] = leadStatus[r]
  BY <1>1 DEF Commit
<1>6. language'[row] # language[row] => row \notin before[m].spoken
  <2>1. language'[row] = IF handler[m].first THEN handler[m].lang ELSE language[row]
    BY <1>1, <1>2 DEF Commit
  <2>2. QED
    BY <1>1, <2>1 DEF Informed
<1>7. leadStatus[row] = "hot" /\ leadStatus'[row] # "hot" => row \notin before[m].hot
  <2>1. leadStatus'[row] =
            IF handler[m].status # "none" THEN handler[m].status ELSE leadStatus[row]
    BY <1>1, <1>2 DEF Commit
  <2>2. QED
    BY <1>1, <1>2, <2>1 DEF Informed
<1>8. QED
  BY <1>2, <1>3, <1>4, <1>5, <1>6, <1>7

\* isFirstMessage: the language of a conversation is written only by messages
\* that arrived before the conversation had any.
THEOREM LanguagesSettle == Spec => LanguageSettles
<1> DEFINE Step == \A r \in rows : language'[r] # language[r] =>
                      \E m \in Messages : /\ handler[m].row = r
                                          /\ ~handler[m].kept /\ handler'[m].kept
                                          /\ r \notin before[m].spoken
<1>1. ConvInv /\ [Next]_vars => Step
  <2> SUFFICES ASSUME ConvInv, [Next]_vars, NEW r \in rows, language'[r] # language[r]
               PROVE  \E m \in Messages : /\ handler[m].row = r
                                          /\ ~handler[m].kept /\ handler'[m].kept
                                          /\ r \notin before[m].spoken
    OBVIOUS
  <2>1. PICK m \in Messages : Commit(m)
    BY OnlyCommitWrites
  <2>2. r \in Messages
    BY DEF ConvInv, ConversationTypeOK
  <2>3. QED
    BY <2>1, <2>2, CommitFacts
<1>2. QED
  BY <1>1, ConversationInvariant, PTL DEF Spec, LanguageSettles

\* updateLeadStatus in processMessage: a lead that has been hot since a message
\* arrived is not downgraded by it.
THEOREM HotLeadsStayHot == Spec => HotStaysHot
<1> DEFINE Step == \A r \in rows : leadStatus[r] = "hot" /\ leadStatus'[r] # "hot" =>
                      \E m \in Messages : /\ handler[m].row = r
                                          /\ ~handler[m].kept /\ handler'[m].kept
                                          /\ r \notin before[m].hot
<1>1. ConvInv /\ [Next]_vars => Step
  <2> SUFFICES ASSUME ConvInv, [Next]_vars, NEW r \in rows,
                      leadStatus[r] = "hot", leadStatus'[r] # "hot"
               PROVE  \E m \in Messages : /\ handler[m].row = r
                                          /\ ~handler[m].kept /\ handler'[m].kept
                                          /\ r \notin before[m].hot
    OBVIOUS
  <2>1. PICK m \in Messages : Commit(m)
    BY OnlyCommitWrites
  <2>2. r \in Messages
    BY DEF ConvInv, ConversationTypeOK
  <2>3. QED
    BY <2>1, <2>2, CommitFacts
<1>2. QED
  BY <1>1, ConversationInvariant, PTL DEF Spec, HotStaysHot

=============================================================================
