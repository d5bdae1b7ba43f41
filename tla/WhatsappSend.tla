---------------------------- MODULE WhatsappSend ----------------------------
(***************************************************************************)
(* The outbound queue: WhatsappService and WhatsappSendProducer put jobs   *)
(* in BullMQ, WhatsappSendProcessor (concurrency 5) runs them.  A handler  *)
(* run reads the follow-up condition, looks for a conversation of the      *)
(* customer, reads its lock, then the tenant's active numbers, and posts   *)
(* to those numbers one after the other until one takes the message.       *)
(* Every await of the handler is a boundary between two actions:           *)
(* customers, human agents (CollisionGuard), admins that switch numbers on *)
(* and off, and crashes of the process come in between.                    *)
(*                                                                         *)
(* A message is addressed to a customer, and a lock is that of a           *)
(* conversation row.  Nothing keeps the rows of a customer unique, and a   *)
(* customer the shop alone knows has none.                                 *)
(*                                                                         *)
(* BullMQ (retry with exponential backoff, stalled-job recovery) is        *)
(* external and modelled from the options the code gives it.  One tick is  *)
(* BackoffTicks of WHATSAPP_SEND_BACKOFF_MS.                               *)
(***************************************************************************)
EXTENDS CollisionGuard, FiniteSets

CONSTANTS
    Jobs,           \* messages somebody may want to send
    CustomerOf,     \* CustomerOf[c]: whom conversation c is with
    NoConv,         \* what a run has that has found no row
    ConvOf,         \* ConvOf[j]: the conversation job j is sent in
    KindsOf,        \* KindsOf[j]: the kinds of message j may turn out to be
    Accounts,       \* WhatsApp numbers of the tenant, as ranks by createdAt
    Preferred,      \* Preferred[j]: whatsappAccountId of the job's data
    Attempts,       \* WHATSAPP_SEND_ATTEMPTS
    BackoffTicks,   \* WHATSAPP_SEND_BACKOFF_MS, in ticks
    FollowUpTicks,  \* FOLLOW_UP_DELAY_MS, in ticks
    Concurrency,    \* concurrency option of the worker
    MaxStalled,     \* BullMQ's maxStalledCount
    MaxCrashes      \* bound of the model: crashes of the process

Kinds == {"text", "followUp", "image", "video",
          "product_list", "interactive_buttons"}

ASSUME SendAssumption ==
    /\ DOMAIN CustomerOf = Conversations
    /\ ConvOf \in [Jobs -> Conversations]
    /\ KindsOf \in [Jobs -> SUBSET Kinds]
    /\ Accounts \subseteq Nat
    /\ Preferred \in [Jobs -> Accounts]
    /\ Attempts \in Nat \ {0}
    /\ BackoffTicks \in Nat
    /\ \A k \in 0..Attempts : BackoffTicks * 2^k \in Nat
    /\ FollowUpTicks \in Nat
    /\ Concurrency \in Nat \ {0}
    /\ MaxStalled \in Nat
    /\ MaxCrashes \in Nat

VARIABLES
    rows,      \* conversations that have a row in the database
    job,       \* job[j]: what Redis keeps of j
    run,       \* run[j]: the handler run of j in the memory of the worker
    sendable,  \* numbers of the tenant whose status is ACTIVE
    replied,   \* follow-ups whose customer wrote after scheduledAt
    accepted,  \* accepted[j]: copies of j the WhatsApp API has taken
    lost,      \* lost[j]: those of them that no handler run reported to BullMQ
    runs,      \* runs[j]: handler runs of j so far
    crashes    \* crashes of the process so far

sendVars == <<rows, job, run, sendable, replied, accepted, lost, runs, crashes>>
vars == <<sendVars, guardVars>>

JobType == [status : {"unsent", "dropped", "waiting", "delayed", "active",
                      "completed", "failed"},
            kind : Kinds \cup {"none"},
            made : 0..Attempts,         \* attemptsMade
            stalls : 0..MaxStalled + 1, \* BullMQ's stalled counter
            delay : Nat]                \* ticks until a delayed job is due

\* held: every conversation of the customer has been locked ever since the run
\* began, and the run's own look at the lock was not cut short by Redis.
\* stale: the customer had replied before the run began.
RunType == [pc : {"idle", "gate", "find", "lock", "load", "post", "sent",
                  "skipped", "locked_out", "broken", "thrown", "orphan"},
            conv : Conversations \cup {NoConv},  \* the row whose lock it asks for
            todo : SUBSET Accounts,     \* numbers the loop has not tried yet
            retryable : BOOLEAN,        \* lastRetryable is set
            held : BOOLEAN,
            stale : BOOLEAN]

SendTypeOK ==
    /\ rows \subseteq Conversations
    /\ job \in [Jobs -> JobType]
    /\ run \in [Jobs -> RunType]
    /\ sendable \subseteq Accounts
    /\ replied \subseteq Jobs
    /\ accepted \in [Jobs -> Nat]
    /\ lost \in [Jobs -> Nat]
    /\ runs \in [Jobs -> Nat]
    /\ crashes \in 0..MaxCrashes
    /\ GuardTypeOK

NoJob == [status |-> "unsent", kind |-> "none", made |-> 0, stalls |-> 0,
          delay |-> 0]
NoRun == [pc |-> "idle", conv |-> NoConv, todo |-> {}, retryable |-> FALSE,
          held |-> FALSE, stale |-> FALSE]

Init ==
    /\ rows \in SUBSET Conversations
    /\ job = [j \in Jobs |-> NoJob]
    /\ run = [j \in Jobs |-> NoRun]
    /\ sendable = Accounts
    /\ replied = {}
    /\ accepted = [j \in Jobs |-> 0]
    /\ lost = [j \in Jobs |-> 0]
    /\ runs = [j \in Jobs |-> 0]
    /\ crashes = 0
    /\ GuardInit

Pending(j) == job[j].status \in {"waiting", "delayed", "active"}
Running(j) == run[j].pc \notin {"idle", "orphan"}

\* The rows a look for the customer of job j may come back with.
RowsOf(j) == {c \in rows : CustomerOf[c] = CustomerOf[ConvOf[j]]}

\* The customer of job j has conversations, and all are locked.
Shielded(j) ==
    /\ RowsOf(j) # {}
    /\ \A c \in RowsOf(j) : IsConversationLocked(c)

-----------------------------------------------------------------------------
(* Producers *)

\* queue.add(name, data, {delay}).
Enqueue(j, k, ticks) ==
    job' = [job EXCEPT ![j].status = IF ticks = 0 THEN "waiting" ELSE "delayed",
                       ![j].kind = k,
                       ![j].delay = ticks]

Drop(j) == job' = [job EXCEPT ![j].status = "dropped"]

\* WhatsappService.sendTextMessage and its siblings: the preferred number must
\* be active, the tenant's outbound limit must allow one more, a catalog must
\* be configured, and the producer must have a queue.  Otherwise the message is
\* logged and forgotten.
SendMessage(j) ==
    /\ job[j].status = "unsent"
    /\ \E k \in KindsOf[j] \ {"followUp"} :
           \/ Preferred[j] \in sendable /\ Enqueue(j, k, 0)
           \/ Drop(j)
    /\ UNCHANGED <<rows, run, sendable, replied, accepted, lost, runs, crashes, guardVars>>

\* FollowUpService.scheduleFollowUp: a text that is due a day later.  It goes
\* straight to the producer.
ScheduleFollowUp(j) ==
    /\ job[j].status = "unsent"
    /\ ConvOf[j] \in rows
    /\ "followUp" \in KindsOf[j]
    /\ Enqueue(j, "followUp", FollowUpTicks)
    /\ UNCHANGED <<rows, run, sendable, replied, accepted, lost, runs, crashes, guardVars>>

-----------------------------------------------------------------------------
(* BullMQ *)

RunUnchanged == UNCHANGED <<rows, sendable, replied, accepted, lost, crashes, guardVars>>

\* The worker picks a job: process() is entered at its first await.
Take(j) ==
    /\ job[j].status = "waiting"
    /\ Cardinality({i \in Jobs : Running(i)}) < Concurrency
    /\ job' = [job EXCEPT ![j].status = "active"]
    /\ run' = [run EXCEPT ![j] =
                  [NoRun EXCEPT
                      !.pc = IF job[j].kind = "followUp" THEN "gate" ELSE "find",
                      !.held = Shielded(j),
                      !.stale = j \in replied]]
    /\ runs' = [runs EXCEPT ![j] = @ + 1]
    /\ RunUnchanged

\* The handler returned: BullMQ completes the job.
FinishCompleted(j) ==
    /\ run[j].pc \in {"sent", "skipped"}
    /\ job' = [job EXCEPT ![j].status = "completed"]
    /\ run' = [run EXCEPT ![j] = NoRun]
    /\ UNCHANGED runs /\ RunUnchanged

\* Mutant of Retries: one attempt too many.
RetriesOnceMore(j) ==
    /\ run[j].pc \in {"locked_out", "broken"} \/ run[j].retryable
    /\ job[j].made < Attempts

\* A plain error is retried while attempts are left, an UnrecoverableError never.
Retries(j) ==
    /\ run[j].pc \in {"locked_out", "broken"} \/ run[j].retryable
    /\ job[j].made + 1 < Attempts

\* The handler threw: back with a delay of BackoffTicks * 2^(attemptsMade - 1),
\* or failed for good.
FinishFailed(j) ==
    /\ run[j].pc \in {"locked_out", "broken", "thrown"}
    /\ job' = [job EXCEPT
                  ![j].status = IF Retries(j) THEN "delayed" ELSE "failed",
                  ![j].delay = IF Retries(j) THEN BackoffTicks * 2^job[j].made ELSE 0,
                  ![j].made = @ + 1]
    /\ run' = [run EXCEPT ![j] = NoRun]
    /\ UNCHANGED runs /\ RunUnchanged

\* A job that was active when its process died is found by the stalled check:
\* it is run again, at most MaxStalled times.
RecoverStalled(j) ==
    /\ run[j].pc = "orphan"
    /\ job' = [job EXCEPT
                  ![j].status = IF job[j].stalls < MaxStalled THEN "waiting" ELSE "failed",
                  ![j].stalls = @ + 1]
    /\ run' = [run EXCEPT ![j] = NoRun]
    /\ UNCHANGED runs /\ RunUnchanged

-----------------------------------------------------------------------------
(* One run of the processor *)

\* Mutant of FollowUpGate: only the first attempt looks at lastMessageAt.
FollowUpGateOnce(j) ==
    /\ run[j].pc = "gate"
    /\ run' = [run EXCEPT ![j].pc =
                  IF j \in replied /\ job[j].made = 0 THEN "skipped" ELSE "find"]
    /\ UNCHANGED <<job, runs>> /\ RunUnchanged

\* A follow-up whose customer has written since scheduledAt is not sent.
FollowUpGate(j) ==
    /\ run[j].pc = "gate"
    /\ run' = [run EXCEPT ![j].pc = IF j \in replied THEN "skipped" ELSE "find"]
    /\ UNCHANGED <<job, runs>> /\ RunUnchanged

\* findFirst by tenant, channel and externalUserId, without an order: one of the
\* customer's rows, whichever.  Without a row nobody looks at a lock.
FindConversation(j) ==
    /\ run[j].pc = "find"
    /\ \/ /\ RowsOf(j) = {}
          /\ run' = [run EXCEPT ![j].pc = "load"]
       \/ \E c \in RowsOf(j) :
              run' = [run EXCEPT ![j].pc = "lock", ![j].conv = c]
    /\ UNCHANGED <<job, runs>> /\ RunUnchanged

\* Mutant of LockGate: the lock is asked for on the first attempt only.
LockGateOnce(j) ==
    /\ run[j].pc = "lock"
    /\ run' = [run EXCEPT ![j].pc =
                  IF IsConversationLocked(run[j].conv) /\ job[j].made = 0
                  THEN "locked_out" ELSE "load",
                          ![j].conv = NoConv]
    /\ UNCHANGED <<job, runs>> /\ RunUnchanged

\* Mutant of LockGate: a run that finds the lock returns instead of throwing.
LockGateReturns(j) ==
    /\ run[j].pc = "lock"
    /\ run' = [run EXCEPT ![j].pc =
                  IF IsConversationLocked(run[j].conv) THEN "skipped" ELSE "load",
                          ![j].conv = NoConv]
    /\ UNCHANGED <<job, runs>> /\ RunUnchanged

\* throw new Error('Conversation locked') when an agent holds the row it found.
\* A read of the lock that fails counts as "not locked".
LockGate(j) ==
    /\ run[j].pc = "lock"
    /\ \E r \in RedisAnswers :
           LET locked == r = "ok" /\ IsConversationLocked(run[j].conv)
           IN  run' = [run EXCEPT ![j].pc = IF locked THEN "locked_out" ELSE "load",
                                  ![j].conv = NoConv,
                                  ![j].held = @ /\ r = "ok"]
    /\ UNCHANGED <<job, runs>> /\ RunUnchanged

\* The database does not answer one of the reads before the loop: a plain error.
DatabaseFails(j) ==
    /\ run[j].pc \in {"gate", "find", "load"}
    /\ run' = [run EXCEPT ![j].pc = "broken"]
    /\ UNCHANGED <<job, runs>> /\ RunUnchanged

\* The tenant's active numbers, read once per run; without one the job fails.
LoadOrderedSendableAccounts(j) ==
    /\ run[j].pc = "load"
    /\ run' = [run EXCEPT ![j].pc = IF sendable = {} THEN "thrown" ELSE "post",
                          ![j].todo = sendable]
    /\ UNCHANGED <<job, runs>> /\ RunUnchanged

\* The preferred number first, the others by age.
IsNext(j, a) ==
    /\ a \in run[j].todo
    /\ IF Preferred[j] \in run[j].todo
       THEN a = Preferred[j]
       ELSE \A b \in run[j].todo : a <= b

\* What posting through one number can come to: an answer of the API, no answer
\* because the request did not arrive or because the answer did not, or a token
\* that cannot be decrypted.
HttpStatuses == {"2xx", "3xx", "400", "4xx", "5xx"}
PostOnce == HttpStatuses \cup {"no_answer", "answer_lost", "undecryptable"}

PostTextOnce == PostOnce
PostImageOnce == PostOnce
PostVideoOnce == PostOnce
PostProductListOnce == PostOnce \cup {"no_items"}
PostInteractiveButtonsOnce == PostOnce \cup {"no_buttons"}

PostResults == PostProductListOnce \cup PostInteractiveButtonsOnce

\* The API has taken the message, whether or not the worker gets to know.
Taken(r) == r \in {"2xx", "answer_lost"}

\* classifyResponse and the catch block of the loop: return, stop for good, or
\* go on to the next number with or without remembering a retryable error.
Verdict(r) ==
    CASE r = "2xx" -> "return"
      [] r = "400" -> "fatal"
      [] r \in {"4xx", "5xx", "no_answer", "answer_lost"} -> "retryable"
      [] OTHER -> "unusable"

\* Mutant of AfterPost: no return after the first number that takes the message.
AfterPostNoReturn(j, a, r) ==
    LET left == run[j].todo \ {a}
    IN  [run[j] EXCEPT !.pc = IF left # {} THEN "post"
                              ELSE IF Verdict(r) = "return" THEN "sent" ELSE "thrown",
                       !.todo = left]

\* Mutant of AfterPost: the loop stops at the first number that gives no answer
\* and the run counts as done.
AfterPostOptimistic(j, a, r) ==
    LET left == run[j].todo \ {a}
        again == run[j].retryable \/ Verdict(r) = "retryable"
    IN  CASE Verdict(r) = "return" \/ r = "no_answer" ->
                 [run[j] EXCEPT !.pc = "sent", !.todo = {}]
          [] Verdict(r) = "fatal" ->
                 [run[j] EXCEPT !.pc = "thrown", !.todo = {}, !.retryable = FALSE]
          [] OTHER ->
                 [run[j] EXCEPT !.pc = IF left = {} THEN "thrown" ELSE "post",
                                !.todo = left, !.retryable = again]

\* The run after number a came to r.  When the last number is through, the
\* last retryable error is thrown if there was one, else an unrecoverable one.
AfterPost(j, a, r) ==
    LET left == run[j].todo \ {a}
        again == run[j].retryable \/ Verdict(r) = "retryable"
    IN  CASE Verdict(r) = "return" ->
                 [run[j] EXCEPT !.pc = "sent", !.todo = {}]
          [] Verdict(r) = "fatal" ->
                 [run[j] EXCEPT !.pc = "thrown", !.todo = {}, !.retryable = FALSE]
          [] OTHER ->
                 [run[j] EXCEPT !.pc = IF left = {} THEN "thrown" ELSE "post",
                                !.todo = left, !.retryable = again]

TryAccount(j, Results) ==
    /\ run[j].pc = "post"
    /\ \E a \in run[j].todo, r \in Results :
           /\ IsNext(j, a)
           /\ run' = [run EXCEPT ![j] = AfterPost(j, a, r)]
           /\ accepted' = [accepted EXCEPT ![j] = @ + (IF Taken(r) THEN 1 ELSE 0)]
           /\ lost' = [lost EXCEPT ![j] = @ + (IF r = "answer_lost" THEN 1 ELSE 0)]
    /\ UNCHANGED <<rows, job, runs, sendable, replied, crashes, guardVars>>

\* The part the five handlers share.
FallbackStep(j, Results) ==
    \/ FindConversation(j)
    \/ LockGate(j)
    \/ LoadOrderedSendableAccounts(j)
    \/ DatabaseFails(j)
    \/ TryAccount(j, Results)

SendTextWithFallback(j) ==
    /\ job[j].kind \in {"text", "followUp"}
    /\ FollowUpGate(j) \/ FallbackStep(j, PostTextOnce)

SendImageWithFallback(j) ==
    job[j].kind = "image" /\ FallbackStep(j, PostImageOnce)

SendVideoWithFallback(j) ==
    job[j].kind = "video" /\ FallbackStep(j, PostVideoOnce)

SendProductListWithFallback(j) ==
    job[j].kind = "product_list" /\ FallbackStep(j, PostProductListOnce)

SendInteractiveButtonsWithFallback(j) ==
    /\ job[j].kind = "interactive_buttons"
    /\ FallbackStep(j, PostInteractiveButtonsOnce)

Process(j) ==
    \/ SendTextWithFallback(j)
    \/ SendImageWithFallback(j)
    \/ SendVideoWithFallback(j)
    \/ SendProductListWithFallback(j)
    \/ SendInteractiveButtonsWithFallback(j)

-----------------------------------------------------------------------------
(* Everybody else *)

\* A run stays "held" as long as all its customer's conversations stay locked.
HeldFollowsLock ==
    run' = [j \in Jobs |-> [run[j] EXCEPT !.held = @ /\ Shielded(j)']]

\* findOrCreateConversation creates a row: the customer's first, or one more.
NewConversation(c) ==
    /\ c \notin rows
    /\ rows' = rows \cup {c}
    /\ UNCHANGED <<job, sendable, replied, accepted, lost, runs, crashes, guardVars>>
    /\ HeldFollowsLock

\* processMessage stored a message of the customer: lastMessageAt passes the
\* scheduledAt of the follow-ups that are under way.
CustomerMessage(c) ==
    /\ c \in rows
    /\ replied' = replied \cup {j \in Jobs : /\ job[j].kind = "followUp"
                                             /\ Pending(j)
                                             /\ ConvOf[j] = c}
    /\ UNCHANGED <<rows, job, run, sendable, accepted, lost, runs, crashes, guardVars>>

\* The admin or the tenant switches a number on or off (updateForTenant).
ToggleAccount(a) ==
    /\ sendable' = IF a \in sendable THEN sendable \ {a} ELSE sendable \cup {a}
    /\ UNCHANGED <<rows, job, run, replied, accepted, lost, runs, crashes, guardVars>>

\* Agents lock conversations they see.
AgentStep(a) ==
    /\ AgentCall(a)
    /\ \A c \in Conversations \ rows : lock'[c] = NoAgent
    /\ UNCHANGED <<rows, job, sendable, replied, accepted, lost, runs, crashes>>
    /\ HeldFollowsLock

\* One tick: locks run out and delayed jobs become due.
Tick ==
    /\ ExpireLocks
    /\ job' = [j \in Jobs |->
                  IF job[j].status # "delayed" THEN job[j]
                  ELSE IF job[j].delay <= 1
                       THEN [job[j] EXCEPT !.status = "waiting", !.delay = 0]
                       ELSE [job[j] EXCEPT !.delay = @ - 1]]
    /\ UNCHANGED <<rows, sendable, replied, accepted, lost, runs, crashes>>
    /\ HeldFollowsLock

\* The process dies with all its handler runs and half-done lock calls; Redis
\* keeps the jobs and the locks.  The answer of a run that had just been told
\* "2xx" is lost.
Crash ==
    /\ crashes < MaxCrashes
    /\ crashes' = crashes + 1
    /\ run' = [j \in Jobs |-> IF Running(j) THEN [NoRun EXCEPT !.pc = "orphan"]
                                            ELSE run[j]]
    /\ lost' = [j \in Jobs |-> lost[j] + (IF run[j].pc = "sent" THEN 1 ELSE 0)]
    /\ call' = [a \in Agents |-> Idle]
    /\ UNCHANGED <<rows, job, sendable, replied, accepted, runs, lock, ttl, lease>>

Next ==
    \/ \E j \in Jobs :
           \/ SendMessage(j)
           \/ ScheduleFollowUp(j)
           \/ Take(j)
           \/ Process(j)
           \/ FinishCompleted(j)
           \/ FinishFailed(j)
           \/ RecoverStalled(j)
    \/ \E c \in Conversations : NewConversation(c) \/ CustomerMessage(c)
    \/ \E a \in Accounts : ToggleAccount(a)
    \/ \E a \in Agents : AgentStep(a)
    \/ Tick
    \/ Crash

Spec == Init /\ [][Next]_vars

\* The worker runs, BullMQ moves jobs, time passes.  Nothing is assumed of the
\* people involved: customers, agents, admins.
FairSpec ==
    /\ Spec
    /\ WF_vars(Tick)
    /\ \A j \in Jobs :
           /\ WF_vars(Take(j))
           /\ WF_vars(Process(j))
           /\ WF_vars(FinishCompleted(j) \/ FinishFailed(j) \/ RecoverStalled(j))

-----------------------------------------------------------------------------
(* Properties *)

\* A copy the customer gets twice is always explained by an answer that was
\* lost on its way to BullMQ (a broken connection, a crash before the job was
\* completed): fallback and retries alone never send a message twice.
DuplicatesExplained ==
    \A j \in Jobs : accepted[j] <= lost[j] + 1

\* A completed job was delivered, or was a follow-up the customer made
\* superfluous: the queue never reports success for a message that is gone.
CompletedMeansDelivered ==
    \A j \in Jobs : job[j].status = "completed" =>
        \/ accepted[j] > 0
        \/ job[j].kind = "followUp" /\ j \in replied

\* Attempts and crashes together cannot make the worker run a job more than
\* Attempts + MaxStalled times.
RunBudget ==
    \A j \in Jobs : runs[j] <= Attempts + MaxStalled

\* While agents keep every conversation of a customer locked from before a run
\* begins, that run does not get as far as reading the numbers, let alone
\* posting: on every attempt, of every kind of message, whenever Redis lets it
\* see the lock.  A customer without a row is not shielded, nor is one with two
\* rows of which an agent has locked the one on the screen.
LockShieldsConversation ==
    \A j \in Jobs : run[j].held =>
        run[j].pc \in {"gate", "find", "lock", "locked_out", "broken", "skipped"}

\* A run of a follow-up that begins after the customer's reply posts nothing,
\* however late the attempt is.
NoFollowUpAfterReply ==
    \A j \in Jobs :
        job[j].kind = "followUp" /\ run[j].stale =>
            run[j].pc \in {"gate", "broken", "skipped"}

\* A conversation lock delays a message and does not lose it ("this
\* approximates 'send after lock is released'", whatsapp-send.processor.ts:383).
LockOnlyDelays ==
    [][\A j \in Jobs : run[j].pc = "locked_out" /\ job[j].status = "active"
                           => job'[j].status # "failed"]_vars

-----------------------------------------------------------------------------
(* The queue keeps the delivery promise. *)

PhaseOf(status) ==
    CASE status = "dropped" -> "refused"
      [] status \in {"waiting", "delayed", "active"} -> "pending"
      [] OTHER -> status

\* What the callers of the queue see.
phases == [j \in Jobs |-> PhaseOf(job[j].status)]

Promise == INSTANCE DeliveryPromise WITH
    Messages <- Jobs,
    phase <- phases,
    deliveries <- accepted,
    obsolete <- replied

\* Every step of the queue is a step of the promise or invisible to it, and
\* under the fairness above every accepted message is settled.
KeepsPromise == Promise!PromiseSpec
=============================================================================
