---------------------------- MODULE Conversation ----------------------------
(***************************************************************************)
(* The inbound side of one tenant: a message comes in through the Cloud    *)
(* API webhook or through Baileys, the first contact is welcomed, and      *)
(* ChatService.processMessage finds or creates the conversation, decides   *)
(* on a reply, stores both and schedules a follow-up.                      *)
(*                                                                         *)
(* Nothing serialises two messages of one customer: each is an async       *)
(* handler, and every await is a boundary between two actions here.  There *)
(* is no unique key on (tenant, customer), so there may be several rows.   *)
(* A message that is delivered twice is two elements of Messages.          *)
(*                                                                         *)
(* The decision engine and the AI are reduced to the branch and the lead   *)
(* class they come to; replies are not told apart.                         *)
(***************************************************************************)
EXTENDS Integers, FiniteSets

CONSTANTS
    Messages,    \* deliveries of customer messages
    Customers,
    From,        \* From[m]: externalUserId of m
    NoRow,       \* no conversation row
    Day,         \* the 24 hours of follow-up.service.ts, in ticks
    MaxClock,    \* bound of the model: ticks that pass
    RedisFaults  \* TRUE: a command to Redis may fail

ASSUME ConversationAssumption ==
    /\ From \in [Messages -> Customers]
    /\ NoRow \notin Messages
    /\ Day \in Nat \ {0}
    /\ MaxClock \in Nat
    /\ RedisFaults \in BOOLEAN

Languages == {"ar", "en"}
LeadStatuses == {"new", "interested", "hot"}
Never == -1

VARIABLES
    clock,
    rows,            \* conversations; a row is named after the message that made it
    stored,          \* stored[r]: exchanges (message and reply) kept in row r
    language,        \* language[r], leadStatus[r], lastMessageAt[r],
    leadStatus,      \*   lastFollowUpAt[r]: the columns of row r
    lastMessageAt,
    lastFollowUpAt,
    welcomeKey,      \* customers whose welcome_sent key is in Redis
    greeted,         \* messages whose handling sent the welcome
    followUps,       \* delayed follow-up jobs: row, scheduledAt, who asked for it
    handler,         \* handler[m]: the handling of m
    before           \* before[m]: what was in the database when it began

rowVars == <<rows, stored, language, leadStatus, lastMessageAt, lastFollowUpAt>>
welcomeVars == <<welcomeKey, greeted>>
vars == <<clock, rowVars, welcomeVars, followUps, handler, before>>

RowsOf(c) == {r \in rows : From[r] = c}
FollowUpJob == [row : Messages, at : Nat, by : Messages]

\* The awaits a handling can be at.
Steps == {"idle", "welcome", "first", "count_all", "greet", "mark", "access",
          "find", "create", "count", "decide", "lead", "commit", "account",
          "reply", "done"}

HandlerType ==
    [pc : Steps,
     via : {"webhook", "baileys"},
     row : Messages \cup {NoRow},
     first : BOOLEAN,                         \* isFirstMessage
     lang : Languages,                        \* resolvedLang, of a first message
     status : {"none", "interested", "hot"},  \* classifiedStatus
     order : BOOLEAN,                         \* the order branch has answered
     now : Nat,
     kept : BOOLEAN,                          \* the transaction has committed
     nudge : {"idle", "read", "enqueue", "mark"}] \* scheduleFollowUp, not awaited

\* at: the time.  rows: the rows of the customer.  spoken: rows with messages.
\* hot: rows that were hot and have stayed so.  nudgedAt: lastFollowUpAt.
BeforeType ==
    [at : Nat, rows : SUBSET Messages, spoken : SUBSET Messages,
     hot : SUBSET Messages, nudgedAt : [Messages -> Nat \cup {Never}]]

ConversationTypeOK ==
    /\ clock \in 0..MaxClock
    /\ rows \subseteq Messages
    /\ stored \in [Messages -> Nat]
    /\ language \in [Messages -> Languages]
    /\ leadStatus \in [Messages -> LeadStatuses]
    /\ lastMessageAt \in [Messages -> Nat \cup {Never}]
    /\ lastFollowUpAt \in [Messages -> Nat \cup {Never}]
    /\ welcomeKey \subseteq Customers
    /\ greeted \subseteq Messages
    /\ followUps \subseteq FollowUpJob
    /\ handler \in [Messages -> HandlerType]
    /\ before \in [Messages -> BeforeType]

NotStarted == [pc |-> "idle", via |-> "webhook", row |-> NoRow, first |-> FALSE,
               lang |-> "ar", status |-> "none", order |-> FALSE, now |-> 0,
               kept |-> FALSE, nudge |-> "idle"]
NothingKnown == [at |-> 0, rows |-> {}, spoken |-> {}, hot |-> {},
                 nudgedAt |-> [r \in Messages |-> Never]]

Init ==
    /\ clock = 0
    /\ rows = {}
    /\ stored = [r \in Messages |-> 0]
    /\ language = [r \in Messages |-> "ar"]
    /\ leadStatus = [r \in Messages |-> "new"]
    /\ lastMessageAt = [r \in Messages |-> Never]
    /\ lastFollowUpAt = [r \in Messages |-> Never]
    /\ welcomeKey = {}
    /\ greeted = {}
    /\ followUps = {}
    /\ handler = [m \in Messages |-> NotStarted]
    /\ before = [m \in Messages |-> NothingKnown]

At(m, pc) == handler[m].pc = pc
Goto(m, pc) == handler' = [handler EXCEPT ![m].pc = pc]

\* The handling ends; only what a pending scheduleFollowUp needs is kept.
Leave(m) == handler' = [handler EXCEPT ![m] =
               [NotStarted EXCEPT !.pc = "done", !.row = handler[m].row,
                                  !.kept = handler[m].kept, !.nudge = handler[m].nudge]]

\* The commands to Redis the handlers issue; a failed read is a miss.
RedisOutcomes == IF RedisFaults THEN {"ok", "failed"} ELSE {"ok"}

-----------------------------------------------------------------------------
(* Arrival *)

Begin(m, via, pc) ==
    /\ At(m, "idle")
    /\ handler' = [handler EXCEPT ![m].pc = pc, ![m].via = via]
    /\ before' = [before EXCEPT ![m] =
                     [at |-> clock,
                      rows |-> RowsOf(From[m]),
                      spoken |-> {r \in RowsOf(From[m]) : stored[r] > 0},
                      hot |-> {r \in RowsOf(From[m]) : leadStatus[r] = "hot"},
                      nudgedAt |-> lastFollowUpAt]]
    /\ UNCHANGED <<clock, rowVars, welcomeVars, followUps>>

\* handleOneMessage, past the tenant's inbound limit.
WebhookMessage(m) == Begin(m, "webhook", "welcome")

\* BaileysMessageHandler.handleMessage of an active tenant.
BaileysMessage(m) == Begin(m, "baileys", "count_all")

-----------------------------------------------------------------------------
(* Welcome *)

\* sendWelcomeIfFirstContact: the key in Redis saves the query.
ReadWelcomeKey(m) ==
    /\ At(m, "welcome")
    /\ \E r \in RedisOutcomes :
           Goto(m, IF r = "ok" /\ From[m] \in welcomeKey THEN "access" ELSE "first")
    /\ UNCHANGED <<clock, rowVars, welcomeVars, followUps, before>>

\* Mutant of LookUpFirstContact: the query is skipped, Redis knows best.
TrustWelcomeKey(m) ==
    /\ At(m, "first")
    /\ Goto(m, "greet")
    /\ UNCHANGED <<clock, rowVars, welcomeVars, followUps, before>>

\* A customer with a conversation is not welcomed.
LookUpFirstContact(m) ==
    /\ At(m, "first")
    /\ Goto(m, IF RowsOf(From[m]) # {} THEN "mark" ELSE "greet")
    /\ UNCHANGED <<clock, rowVars, welcomeVars, followUps, before>>

\* Baileys counts the messages of the customer instead and keeps no key.
CountAllMessages(m) ==
    /\ At(m, "count_all")
    /\ Goto(m, IF \E r \in RowsOf(From[m]) : stored[r] > 0 THEN "access" ELSE "greet")
    /\ UNCHANGED <<clock, rowVars, welcomeVars, followUps, before>>

\* Welcome text, images and videos go out.
Greet(m) ==
    /\ At(m, "greet")
    /\ greeted' = greeted \cup {m}
    /\ Goto(m, IF handler[m].via = "webhook" THEN "mark" ELSE "access")
    /\ UNCHANGED <<clock, rowVars, welcomeKey, followUps, before>>

MarkWelcomed(m) ==
    /\ At(m, "mark")
    /\ \E r \in RedisOutcomes :
           welcomeKey' = IF r = "ok" THEN welcomeKey \cup {From[m]} ELSE welcomeKey
    /\ Goto(m, "access")
    /\ UNCHANGED <<clock, rowVars, greeted, followUps, before>>

-----------------------------------------------------------------------------
(* processMessage *)

\* checkTenantAccess: when the tenant is switched off or its subscription has
\* run out, the customer gets a fixed reply (through the webhook) and nothing
\* is stored.
CheckTenantAccess(m) ==
    /\ At(m, "access")
    /\ \/ Goto(m, "find")
       \/ handler[m].via = "webhook" /\ Goto(m, "reply")
       \/ handler[m].via = "baileys" /\ Leave(m)
    /\ UNCHANGED <<clock, rowVars, welcomeVars, followUps, before>>

\* Mutant of FindConversation: the row of the other channel does not count.
FindOwnConversationOnly(m) ==
    /\ At(m, "find")
    /\ \/ Goto(m, "create")
       \/ \E r \in RowsOf(From[m]) :
              handler' = [handler EXCEPT ![m].pc = "count", ![m].row = r]
    /\ UNCHANGED <<clock, rowVars, welcomeVars, followUps, before>>

\* findOrCreateConversation: findFirst without an order takes any row.
FindConversation(m) ==
    /\ At(m, "find")
    /\ IF RowsOf(From[m]) = {}
       THEN Goto(m, "create")
       ELSE \E r \in RowsOf(From[m]) :
                handler' = [handler EXCEPT ![m].pc = "count", ![m].row = r]
    /\ UNCHANGED <<clock, rowVars, welcomeVars, followUps, before>>

CreateConversation(m) ==
    /\ At(m, "create")
    /\ rows' = rows \cup {m}
    /\ handler' = [handler EXCEPT ![m].pc = "count", ![m].row = m]
    /\ UNCHANGED <<clock, stored, language, leadStatus, lastMessageAt,
                   lastFollowUpAt, welcomeVars, followUps, before>>

\* Mutant of CountMessages: a conversation with one exchange counts as new.
CountOneAsNew(m) ==
    /\ At(m, "count")
    /\ \E l \in Languages :
           handler' = [handler EXCEPT ![m].pc = "decide",
                                      ![m].first = stored[handler[m].row] <= 1,
                                      ![m].lang = l]
    /\ UNCHANGED <<clock, rowVars, welcomeVars, followUps, before>>

\* The first message of a conversation brings its language.
CountMessages(m) ==
    /\ At(m, "count")
    /\ IF stored[handler[m].row] = 0
       THEN \E l \in Languages :
                handler' = [handler EXCEPT ![m].pc = "decide", ![m].first = TRUE,
                                           ![m].lang = l]
       ELSE Goto(m, "decide")
    /\ UNCHANGED <<clock, rowVars, welcomeVars, followUps, before>>

\* handleIncomingMessage: the branch that answers and the class of the lead.
\* FAQ and AI answers do not differ here; a product answer is "interested"
\* whatever the words are.
Decide(m) ==
    /\ At(m, "decide")
    /\ \E branch \in {"product", "order", "other"}, words \in {"none", "hot"} :
           LET class == IF branch = "product" THEN "interested" ELSE words
           IN  handler' = [handler EXCEPT
                   ![m].pc = IF class = "interested" THEN "lead" ELSE "commit",
                   ![m].status = class,
                   ![m].order = branch = "order",
                   ![m].now = clock]
    /\ UNCHANGED <<clock, rowVars, welcomeVars, followUps, before>>

\* Mutant of ReadLeadStatus: "interested" is written over anything.
SkipLeadStatus(m) ==
    /\ At(m, "lead")
    /\ handler' = [handler EXCEPT ![m].pc = "commit", ![m].now = clock]
    /\ UNCHANGED <<clock, rowVars, welcomeVars, followUps, before>>

\* A hot lead is not made "interested".
ReadLeadStatus(m) ==
    /\ At(m, "lead")
    /\ handler' = [handler EXCEPT
           ![m].pc = "commit",
           ![m].status = IF leadStatus[handler[m].row] = "hot" THEN "none" ELSE @,
           ![m].now = clock]
    /\ UNCHANGED <<clock, rowVars, welcomeVars, followUps, before>>

\* Mutant of Commit: leadStatus is written when there is nothing to write.
CommitAnyStatus(m) ==
    LET r == handler[m].row
    IN  /\ At(m, "commit")
        /\ leadStatus' = [leadStatus EXCEPT ![r] = handler[m].status]
        /\ Goto(m, "reply")
        /\ UNCHANGED <<clock, rows, stored, language, lastMessageAt, lastFollowUpAt,
                       welcomeVars, followUps, before>>

\* The transaction: message, reply and the columns of the row at once.
Commit(m) ==
    LET r == handler[m].row
    IN  /\ At(m, "commit")
        /\ stored' = [stored EXCEPT ![r] = @ + 1]
        /\ lastMessageAt' = [lastMessageAt EXCEPT ![r] = handler[m].now]
        /\ language' = [language EXCEPT ![r] =
               IF handler[m].first THEN handler[m].lang ELSE @]
        /\ leadStatus' = [leadStatus EXCEPT ![r] =
               IF handler[m].status # "none" THEN handler[m].status ELSE @]
        /\ handler' = [handler EXCEPT
               ![m].pc = IF handler[m].order THEN "reply" ELSE "account",
               ![m].kept = TRUE]
        /\ before' = [n \in Messages |->
               [before[n] EXCEPT !.hot = {x \in @ : leadStatus'[x] = "hot"}]]
        /\ UNCHANGED <<clock, rows, lastFollowUpAt, welcomeVars, followUps>>

\* scheduleFollowUp is started, if the tenant has an active number.
ChooseAccount(m) ==
    /\ At(m, "account")
    /\ \E nudge \in {"idle", "read"} :
           handler' = [handler EXCEPT ![m].pc = "reply", ![m].nudge = nudge]
    /\ UNCHANGED <<clock, rowVars, welcomeVars, followUps, before>>

\* The reply goes to the outbound queue, or out through Baileys.
Reply(m) ==
    /\ At(m, "reply")
    /\ Leave(m)
    /\ UNCHANGED <<clock, rowVars, welcomeVars, followUps, before>>

\* An await throws (database, queue): the error is logged and the message
\* forgotten.  A crash is this for every message under way.
Abandon(m) ==
    /\ handler[m].pc \notin {"idle", "done"}
    /\ Leave(m)
    /\ UNCHANGED <<clock, rowVars, welcomeVars, followUps, before>>

-----------------------------------------------------------------------------
(* scheduleFollowUp *)

Nudging(m, step) == handler[m].nudge = step
NudgeGoto(m, step) == handler' = [handler EXCEPT ![m].nudge = step]

\* Mutant of ReadLastFollowUp: lastFollowUpAt is not looked at.
SkipLastFollowUp(m) ==
    /\ Nudging(m, "read")
    /\ NudgeGoto(m, "enqueue")
    /\ UNCHANGED <<clock, rowVars, welcomeVars, followUps, before>>

ReadLastFollowUp(m) ==
    LET last == lastFollowUpAt[handler[m].row]
    IN  /\ Nudging(m, "read")
        /\ NudgeGoto(m, IF last # Never /\ clock - last < Day THEN "idle" ELSE "enqueue")
        /\ UNCHANGED <<clock, rowVars, welcomeVars, followUps, before>>

EnqueueFollowUp(m) ==
    /\ Nudging(m, "enqueue")
    /\ followUps' = followUps \cup {[row |-> handler[m].row, at |-> clock, by |-> m]}
    /\ NudgeGoto(m, "mark")
    /\ UNCHANGED <<clock, rowVars, welcomeVars, before>>

MarkFollowUp(m) ==
    /\ Nudging(m, "mark")
    /\ lastFollowUpAt' = [lastFollowUpAt EXCEPT ![handler[m].row] = clock]
    /\ NudgeGoto(m, "idle")
    /\ UNCHANGED <<clock, rows, stored, language, leadStatus, lastMessageAt,
                   welcomeVars, followUps, before>>

\* Database or queue fail under scheduleFollowUp: logged.
AbandonFollowUp(m) ==
    /\ handler[m].nudge # "idle"
    /\ NudgeGoto(m, "idle")
    /\ UNCHANGED <<clock, rowVars, welcomeVars, followUps, before>>

\* The condition at the top of sendTextWithFallback.
Superseded(f) == lastMessageAt[f.row] > f.at

\* The job is due: it is sent, or skipped when it is superseded.
RunFollowUp(f) ==
    /\ clock >= f.at + Day
    /\ followUps' = followUps \ {f}
    /\ UNCHANGED <<clock, rowVars, welcomeVars, handler, before>>

-----------------------------------------------------------------------------

Tick ==
    /\ clock < MaxClock
    /\ clock' = clock + 1
    /\ UNCHANGED <<rowVars, welcomeVars, followUps, handler, before>>

SendWelcomeIfFirstContact(m) ==
    ReadWelcomeKey(m) \/ LookUpFirstContact(m) \/ Greet(m) \/ MarkWelcomed(m)

ProcessMessage(m) ==
    \/ CheckTenantAccess(m)
    \/ FindConversation(m)
    \/ CreateConversation(m)
    \/ CountMessages(m)
    \/ Decide(m)
    \/ ReadLeadStatus(m)
    \/ Commit(m)
    \/ ChooseAccount(m)

ScheduleFollowUp(m) ==
    ReadLastFollowUp(m) \/ EnqueueFollowUp(m) \/ MarkFollowUp(m) \/ AbandonFollowUp(m)

Next ==
    \/ \E m \in Messages :
           \/ WebhookMessage(m)
           \/ BaileysMessage(m)
           \/ SendWelcomeIfFirstContact(m)
           \/ CountAllMessages(m)
           \/ ProcessMessage(m)
           \/ Reply(m)
           \/ Abandon(m)
           \/ ScheduleFollowUp(m)
    \/ \E f \in followUps : RunFollowUp(f)
    \/ Tick

Spec == Init /\ [][Next]_vars

-----------------------------------------------------------------------------
(* Properties.  Two messages may overlap in any way, so each says what a      *)
(* message may still do given what was there when its handling began.         *)

\* A message of a customer whose conversation existed when it arrived never
\* makes a second one: duplicate rows need first messages that overlap.
NoLateDuplicateRow ==
    \A m \in rows : before[m].rows = {}

\* A customer who has spoken before is not welcomed again, through either
\* channel, with or without Redis.
NoLateWelcome ==
    \A m \in greeted : before[m].spoken = {}

\* The language of a conversation is only written by messages that arrived
\* before it had any.
LanguageSettles ==
    [][\A r \in rows : language'[r] # language[r] =>
          \E m \in Messages : /\ handler[m].row = r
                              /\ ~handler[m].kept /\ handler'[m].kept
                              /\ r \notin before[m].spoken]_vars

\* A lead that was hot when a message arrived, and has been since, is not made
\* "interested" by that message.
HotStaysHot ==
    [][\A r \in rows : leadStatus[r] = "hot" /\ leadStatus'[r] # "hot" =>
          \E m \in Messages : /\ handler[m].row = r
                              /\ ~handler[m].kept /\ handler'[m].kept
                              /\ r \notin before[m].hot]_vars

\* A message schedules no follow-up within a day of one that was on record when
\* the message arrived.
FollowUpsSpaced ==
    \A f \in followUps :
        LET known == before[f.by].nudgedAt[f.row]
        IN  known = Never \/ f.at - known >= Day

\* "Locked on first user message" (schema.prisma:184): once a conversation has
\* messages its language does not change.
LanguageLocked ==
    [][\A r \in rows : stored[r] > 0 => language'[r] = language[r]]_vars

\* A customer who answers after a follow-up was scheduled does not get it ("if
\* the customer has not answered within 24 hours", follow-up.service.ts:24).
ReplyCancelsFollowUp ==
    [][\A f \in followUps \ followUps' : ~Superseded(f) =>
          ~ \E m \in Messages : /\ From[m] = From[f.row]
                                /\ handler[m].kept
                                /\ before[m].at > f.at]_vars
=============================================================================
