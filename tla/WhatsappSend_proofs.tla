------------------------ MODULE WhatsappSend_proofs ------------------------
(***************************************************************************)
(* Proofs about WhatsappSend, for any number of messages, conversations,   *)
(* agents and numbers, and any setting of the queue.                       *)
(*                                                                         *)
(* The properties speak of counters (accepted, lost, runs), and none is    *)
(* inductive: each needs to know where in its handler run a job is and     *)
(* what the queue has already booked for it.  SendInv is that bookkeeping. *)
(***************************************************************************)
EXTENDS WhatsappSend, CollisionGuard_proofs

\* A job is active exactly while it has a handler run, alive or orphaned.
ActiveRuns(j) == job[j].status = "active" <=> run[j].pc # "idle"

\* Every copy the API took was reported to BullMQ, is about to be, or is lost.
CopiesAccounted(j) ==
    CASE run[j].pc = "sent" -> accepted[j] = lost[j] + 1
      [] job[j].status = "completed" -> accepted[j] \in {lost[j], lost[j] + 1}
      [] OTHER -> accepted[j] = lost[j]

\* Every handler run has been booked as an attempt or as a stall, but the one
\* that is under way and the one that completed the job.
RunsAccounted(j) ==
    /\ runs[j] = job[j].made + job[j].stalls
                   + (IF job[j].status \in {"active", "completed"} THEN 1 ELSE 0)
    /\ job[j].status \in {"unsent", "dropped"} => job[j].made + job[j].stalls = 0
    /\ Pending(j) \/ job[j].status = "completed" =>
           job[j].made < Attempts /\ job[j].stalls <= MaxStalled
    /\ job[j].made + job[j].stalls <= Attempts + MaxStalled

\* A run that skips the message is that of a follow-up with a reply; only
\* follow-ups come to the gate.
SkipJustified(j) ==
    /\ run[j].pc = "gate" => job[j].kind = "followUp"
    /\ run[j].pc = "skipped" => job[j].kind = "followUp" /\ j \in replied

\* "held" and "stale" say what they are meant to, and the lock a run asks for is
\* that of a row of its customer.
HistoryTrue(j) ==
    /\ run[j].held => Shielded(j)
    /\ run[j].pc = "lock" => run[j].conv \in RowsOf(j)
    /\ run[j].stale => j \in replied
    /\ run[j].pc = "idle" => ~run[j].held /\ ~run[j].stale

SendInv ==
    /\ SendTypeOK
    /\ \A j \in Jobs : /\ ActiveRuns(j)
                       /\ CopiesAccounted(j)
                       /\ RunsAccounted(j)
                       /\ SkipJustified(j)
                       /\ HistoryTrue(j)
    /\ CompletedMeansDelivered
    /\ LockShieldsConversation
    /\ NoFollowUpAfterReply

-----------------------------------------------------------------------------
(* Type correctness, one lemma per group of actions *)

LEMMA ProducersTypeOK ==
    ASSUME SendTypeOK, NEW j \in Jobs, SendMessage(j) \/ ScheduleFollowUp(j)
    PROVE  SendTypeOK'
<1>1. job \in [Jobs -> JobType]
  BY DEF SendTypeOK
<1>2. ASSUME NEW k \in Kinds, NEW n \in Nat, Enqueue(j, k, n)
      PROVE  job' \in [Jobs -> JobType]
  <2> DEFINE new == [job[j] EXCEPT !.status = IF n = 0 THEN "waiting" ELSE "delayed",
                                   !.kind = k,
                                   !.delay = n]
  <2>1. job[j] \in JobType
    BY <1>1
  <2>2. new \in JobType
    BY <2>1 DEF JobType
  <2>3. job' = [job EXCEPT ![j] = new]
    BY <1>2 DEF Enqueue
  <2> HIDE DEF new
  <2>4. QED
    BY <1>1, <2>2, <2>3
<1>3. ASSUME Drop(j)
      PROVE  job' \in [Jobs -> JobType]
  BY <1>1, <1>3 DEF Drop, JobType
<1>4. /\ KindsOf[j] \subseteq Kinds
      /\ "followUp" \in Kinds
      /\ FollowUpTicks \in Nat
      /\ 0 \in Nat
  BY SendAssumption DEF Kinds
<1>5. job' \in [Jobs -> JobType]
  <2>1. CASE SendMessage(j)
    BY <1>2, <1>3, <1>4, <2>1 DEF SendMessage
  <2>2. CASE ScheduleFollowUp(j)
    BY <1>2, <1>4, <2>2 DEF ScheduleFollowUp
  <2>3. QED
    BY <2>1, <2>2
<1>6. QED
  BY <1>5 DEF SendMessage, ScheduleFollowUp, SendTypeOK, GuardTypeOK, guardVars

LEMMA TakeTypeOK ==
    ASSUME SendTypeOK, NEW j \in Jobs, Take(j)
    PROVE  SendTypeOK'
<1>1. job' \in [Jobs -> JobType]
  BY DEF SendTypeOK, Take, JobType
<1>2. run' \in [Jobs -> RunType]
  <2>1. Shielded(j) \in BOOLEAN /\ (j \in replied) \in BOOLEAN
    BY DEF Shielded
  <2>2. [NoRun EXCEPT !.pc = IF job[j].kind = "followUp" THEN "gate" ELSE "find",
                      !.held = Shielded(j),
                      !.stale = j \in replied] \in RunType
    BY <2>1 DEF NoRun, RunType
  <2>3. QED
    BY <2>2 DEF SendTypeOK, Take
<1>3. runs' \in [Jobs -> Nat]
  BY DEF SendTypeOK, Take
<1>4. QED
  BY <1>1, <1>2, <1>3 DEF Take, RunUnchanged, SendTypeOK, GuardTypeOK, guardVars

LEMMA FinishTypeOK ==
    ASSUME SendTypeOK, NEW j \in Jobs, RunsAccounted(j), ActiveRuns(j),
           FinishCompleted(j) \/ FinishFailed(j) \/ RecoverStalled(j)
    PROVE  SendTypeOK'
<1>1. job \in [Jobs -> JobType] /\ run \in [Jobs -> RunType]
  BY DEF SendTypeOK
<1>2. NoRun \in RunType
  BY DEF NoRun, RunType
<1>3. run' \in [Jobs -> RunType]
  BY <1>1, <1>2 DEF FinishCompleted, FinishFailed, RecoverStalled
<1>4. job[j].status = "active"
  BY DEF FinishCompleted, FinishFailed, RecoverStalled, ActiveRuns
<1>5. job[j].made < Attempts /\ job[j].stalls <= MaxStalled
  BY <1>4 DEF RunsAccounted, Pending
<1>6. BackoffTicks * 2^job[j].made \in Nat
  BY <1>1, <1>5, SendAssumption DEF JobType
<1>7. job' \in [Jobs -> JobType]
  <2>1. CASE FinishCompleted(j)
    BY <1>1, <2>1 DEF FinishCompleted, JobType
  <2>2. CASE FinishFailed(j)
    <3> DEFINE ticks == IF Retries(j) THEN BackoffTicks * 2^job[j].made ELSE 0
    <3>1. ticks \in Nat
      BY <1>6
    <3>2. job' = [job EXCEPT ![j].status = IF Retries(j) THEN "delayed" ELSE "failed",
                             ![j].delay = ticks,
                             ![j].made = @ + 1]
      BY <2>2 DEF FinishFailed
    <3> HIDE DEF ticks
    <3>3. QED
      BY <1>1, <1>5, <3>1, <3>2, SendAssumption DEF JobType
  <2>3. CASE RecoverStalled(j)
    BY <1>1, <1>5, <2>3, SendAssumption DEF RecoverStalled, JobType
  <2>4. QED
    BY <2>1, <2>2, <2>3
<1>8. QED
  BY <1>3, <1>7 DEF FinishCompleted, FinishFailed, RecoverStalled, RunUnchanged,
                    SendTypeOK, GuardTypeOK, guardVars

LEMMA AfterPostType ==
    ASSUME run \in [Jobs -> RunType], NEW j \in Jobs, NEW a, NEW r
    PROVE  AfterPost(j, a, r) \in RunType
BY DEF AfterPost, RunType

LEMMA ProcessTypeOK ==
    ASSUME SendTypeOK, NEW j \in Jobs,
           \/ FollowUpGate(j)
           \/ FindConversation(j)
           \/ LockGate(j)
           \/ LoadOrderedSendableAccounts(j)
           \/ DatabaseFails(j)
           \/ \E Results : TryAccount(j, Results)
    PROVE  SendTypeOK'
<1>1. run \in [Jobs -> RunType] /\ sendable \subseteq Accounts
  BY DEF SendTypeOK
<1>2. CASE FollowUpGate(j)
  <2>1. run' \in [Jobs -> RunType]
    BY <1>1, <1>2 DEF FollowUpGate, RunType
  <2>2. QED
    BY <1>2, <2>1 DEF FollowUpGate, RunUnchanged, SendTypeOK, GuardTypeOK, guardVars
<1>3. CASE LockGate(j)
  <2>1. PICK r \in RedisAnswers :
           LET locked == r = "ok" /\ IsConversationLocked(run[j].conv)
           IN  run' = [run EXCEPT ![j].pc = IF locked THEN "locked_out" ELSE "load",
                                  ![j].conv = NoConv,
                                  ![j].held = @ /\ r = "ok"]
    BY <1>3 DEF LockGate
  <2>2. PICK pc \in {"locked_out", "load"}, held \in BOOLEAN :
           run' = [run EXCEPT ![j] = [run[j] EXCEPT !.pc = pc,
                                                    !.conv = NoConv,
                                                    !.held = held]]
    <3>1. (run[j].held /\ r = "ok") \in BOOLEAN
      BY <1>1 DEF RunType
    <3>2. QED
      BY <1>1, <2>1, <3>1
  <2>3. [run[j] EXCEPT !.pc = pc, !.conv = NoConv, !.held = held] \in RunType
    BY <1>1 DEF RunType
  <2>5. run' \in [Jobs -> RunType]
    BY <1>1, <2>2, <2>3
  <2>6. QED
    BY <1>3, <2>5 DEF LockGate, RunUnchanged, SendTypeOK, GuardTypeOK, guardVars
<1>4. CASE LoadOrderedSendableAccounts(j)
  <2>1. [run[j] EXCEPT !.pc = IF sendable = {} THEN "thrown" ELSE "post",
                       !.todo = sendable] \in RunType
    BY <1>1 DEF RunType
  <2>2. run' \in [Jobs -> RunType]
    BY <1>1, <1>4, <2>1 DEF LoadOrderedSendableAccounts
  <2>3. QED
    BY <1>4, <2>2 DEF LoadOrderedSendableAccounts, RunUnchanged, SendTypeOK,
                      GuardTypeOK, guardVars
<1>5. ASSUME NEW Results, TryAccount(j, Results)
      PROVE  SendTypeOK'
  <2>1. PICK a \in run[j].todo, r \in Results :
           /\ run' = [run EXCEPT ![j] = AfterPost(j, a, r)]
           /\ accepted' = [accepted EXCEPT ![j] = @ + (IF Taken(r) THEN 1 ELSE 0)]
           /\ lost' = [lost EXCEPT ![j] = @ + (IF r = "answer_lost" THEN 1 ELSE 0)]
    BY <1>5 DEF TryAccount
  <2>2. AfterPost(j, a, r) \in RunType
    BY <1>1, AfterPostType
  <2>3. run' \in [Jobs -> RunType]
    BY <1>1, <2>1, <2>2
  <2>4. accepted' \in [Jobs -> Nat] /\ lost' \in [Jobs -> Nat]
    BY <2>1 DEF SendTypeOK
  <2>5. QED
    BY <1>5, <2>3, <2>4 DEF TryAccount, SendTypeOK, GuardTypeOK, guardVars
<1>6. CASE DatabaseFails(j)
  <2>1. run' \in [Jobs -> RunType]
    BY <1>1, <1>6 DEF DatabaseFails, RunType
  <2>2. QED
    BY <1>6, <2>1 DEF DatabaseFails, RunUnchanged, SendTypeOK, GuardTypeOK, guardVars
<1>7. CASE FindConversation(j)
  <2>1. PICK pc \in {"load", "lock"}, c \in Conversations \cup {NoConv} :
           run' = [run EXCEPT ![j] = [run[j] EXCEPT !.pc = pc, !.conv = c]]
    <3>1. /\ RowsOf(j) \subseteq Conversations
          /\ run[j] = [run[j] EXCEPT !.conv = run[j].conv]
          /\ run[j].conv \in Conversations \cup {NoConv}
      BY <1>1 DEF RowsOf, SendTypeOK, RunType
    <3>2. CASE run' = [run EXCEPT ![j].pc = "load"]
      <4>1. [run[j] EXCEPT !.pc = "load"]
              = [run[j] EXCEPT !.pc = "load", !.conv = run[j].conv]
        BY <1>1 DEF RunType
      <4>2. QED
        BY <3>1, <3>2, <4>1
    <3>3. CASE \E c \in RowsOf(j) : run' = [run EXCEPT ![j].pc = "lock", ![j].conv = c]
      BY <1>1, <3>1, <3>3
    <3>4. QED
      BY <1>7, <3>2, <3>3 DEF FindConversation
  <2>2. [run[j] EXCEPT !.pc = pc, !.conv = c] \in RunType
    BY <1>1 DEF RunType
  <2>3. run' \in [Jobs -> RunType]
    BY <1>1, <2>1, <2>2
  <2>4. QED
    BY <1>7, <2>3 DEF FindConversation, RunUnchanged, SendTypeOK, GuardTypeOK, guardVars
<1>8. QED
  BY <1>2, <1>3, <1>4, <1>5, <1>6, <1>7

LEMMA HeldFollowsLockType ==
    ASSUME SendTypeOK, HeldFollowsLock
    PROVE  run' \in [Jobs -> RunType]
<1>1. ASSUME NEW j \in Jobs
      PROVE  [run[j] EXCEPT !.held = @ /\ Shielded(j)'] \in RunType
  <2>1. run[j] \in RunType
    BY DEF SendTypeOK
  <2>2. (run[j].held /\ Shielded(j)') \in BOOLEAN
    BY <2>1 DEF RunType
  <2>3. QED
    BY <2>1, <2>2 DEF RunType
<1>2. QED
  BY <1>1 DEF HeldFollowsLock

LEMMA EnvironmentTypeOK ==
    ASSUME SendTypeOK,
           \/ \E c \in Conversations : NewConversation(c) \/ CustomerMessage(c)
           \/ \E a \in Accounts : ToggleAccount(a)
           \/ \E a \in Agents : AgentStep(a)
           \/ Tick
           \/ Crash
    PROVE  SendTypeOK'
<1>1. ASSUME NEW c \in Conversations, CustomerMessage(c)
      PROVE  SendTypeOK'
  BY <1>1 DEF CustomerMessage, SendTypeOK, GuardTypeOK, guardVars
<1>2. ASSUME NEW a \in Accounts, ToggleAccount(a)
      PROVE  SendTypeOK'
  BY <1>2 DEF ToggleAccount, SendTypeOK, GuardTypeOK, guardVars
<1>3. ASSUME NEW a \in Agents, AgentStep(a)
      PROVE  SendTypeOK'
  <2>1. GuardTypeOK'
    BY <1>3, AgentCallTypeOK DEF AgentStep, SendTypeOK
  <2>2. run' \in [Jobs -> RunType]
    BY <1>3, HeldFollowsLockType DEF AgentStep
  <2>3. QED
    BY <1>3, <2>1, <2>2 DEF AgentStep, SendTypeOK
<1>4. CASE Tick
  <2>1. GuardTypeOK'
    BY <1>4, ExpireLocksTypeOK DEF Tick, SendTypeOK
  <2>2. run' \in [Jobs -> RunType]
    BY <1>4, HeldFollowsLockType DEF Tick
  <2>3. job' \in [Jobs -> JobType]
    <3>1. ASSUME NEW j \in Jobs
          PROVE  /\ job[j] \in JobType
                 /\ [job[j] EXCEPT !.status = "waiting", !.delay = 0] \in JobType
                 /\ ~(job[j].delay <= 1) => [job[j] EXCEPT !.delay = @ - 1] \in JobType
      <4>1. job[j] \in JobType
        BY DEF SendTypeOK
      <4>2. [job[j] EXCEPT !.status = "waiting", !.delay = 0] \in JobType
        BY <4>1 DEF JobType
      <4>3. ASSUME ~(job[j].delay <= 1)
            PROVE  [job[j] EXCEPT !.delay = @ - 1] \in JobType
        <5>1. job[j].delay - 1 \in Nat
          BY <4>1, <4>3 DEF JobType
        <5>2. QED
          BY <4>1, <5>1 DEF JobType
      <4>4. QED
        BY <4>1, <4>2, <4>3
    <3>2. QED
      BY <1>4, <3>1 DEF Tick
  <2>4. QED
    BY <1>4, <2>1, <2>2, <2>3 DEF Tick, SendTypeOK
<1>5. CASE Crash
  <2>1. run' \in [Jobs -> RunType]
    <3>1. [NoRun EXCEPT !.pc = "orphan"] \in RunType
      BY DEF NoRun, RunType
    <3>2. QED
      BY <1>5, <3>1 DEF Crash, SendTypeOK
  <2>2. lost' \in [Jobs -> Nat]
    BY <1>5 DEF Crash, SendTypeOK
  <2>3. GuardTypeOK' /\ crashes' \in 0..MaxCrashes
    BY <1>5, SendAssumption DEF Crash, SendTypeOK, GuardTypeOK, Calls, Idle
  <2>4. QED
    BY <1>5, <2>1, <2>2, <2>3 DEF Crash, SendTypeOK
<1>6. ASSUME NEW c \in Conversations, NewConversation(c)
      PROVE  SendTypeOK'
  <2>1. run' \in [Jobs -> RunType]
    BY <1>6, HeldFollowsLockType DEF NewConversation
  <2>2. QED
    BY <1>6, <2>1 DEF NewConversation, SendTypeOK, GuardTypeOK, guardVars
<1>7. QED
  BY <1>1, <1>2, <1>3, <1>4, <1>5, <1>6

-----------------------------------------------------------------------------
(* The bookkeeping.  Most actions touch one job; for the others, what SendInv *)
(* says of a job depends only on what the queue keeps of that job.            *)

JobInv(j) ==
    /\ ActiveRuns(j)
    /\ CopiesAccounted(j)
    /\ RunsAccounted(j)
    /\ SkipJustified(j)
    /\ HistoryTrue(j)
    /\ job[j].status = "completed" =>
           accepted[j] > 0 \/ (job[j].kind = "followUp" /\ j \in replied)
    /\ run[j].held =>
           run[j].pc \in {"gate", "find", "lock", "locked_out", "broken", "skipped"}
    /\ job[j].kind = "followUp" /\ run[j].stale =>
           run[j].pc \in {"gate", "broken", "skipped"}

LEMMA SendInvByJob == SendInv <=> SendTypeOK /\ \A j \in Jobs : JobInv(j)
BY DEF SendInv, JobInv, CompletedMeansDelivered, LockShieldsConversation,
       NoFollowUpAfterReply

\* A step that changes neither the job nor its run nor its counters, and does
\* not unlock its conversation or forget its reply, keeps its bookkeeping.
LEMMA OtherJobKept ==
    ASSUME NEW i \in Jobs, JobInv(i),
           job'[i] = job[i], run'[i] = run[i], runs'[i] = runs[i],
           accepted'[i] = accepted[i], lost'[i] = lost[i],
           i \in replied => i \in replied',
           lock' = lock, rows' = rows
    PROVE  JobInv(i)'
BY DEF JobInv, ActiveRuns, CopiesAccounted, RunsAccounted, Pending, SkipJustified,
       HistoryTrue, Shielded, RowsOf, IsConversationLocked

LEMMA ProducersKeepInv ==
    ASSUME SendTypeOK, NEW j \in Jobs, JobInv(j), SendMessage(j) \/ ScheduleFollowUp(j)
    PROVE  JobInv(j)'
<1>1. job \in [Jobs -> JobType] /\ run \in [Jobs -> RunType]
  BY DEF SendTypeOK
<1>2. /\ job[j].status = "unsent"
      /\ job'[j].status \in {"waiting", "delayed", "dropped"}
      /\ job'[j].made = job[j].made
      /\ job'[j].stalls = job[j].stalls
  <2>1. ASSUME NEW k, NEW n, Enqueue(j, k, n)
        PROVE  /\ job'[j].status \in {"waiting", "delayed"}
               /\ job'[j].made = job[j].made
               /\ job'[j].stalls = job[j].stalls
    BY <1>1, <2>1 DEF Enqueue, JobType
  <2>2. ASSUME Drop(j)
        PROVE  /\ job'[j].status = "dropped"
               /\ job'[j].made = job[j].made
               /\ job'[j].stalls = job[j].stalls
    BY <1>1, <2>2 DEF Drop, JobType
  <2>3. QED
    BY <2>1, <2>2 DEF SendMessage, ScheduleFollowUp
<1>3. UNCHANGED <<rows, run, replied, accepted, lost, runs, lock>>
  BY DEF SendMessage, ScheduleFollowUp, guardVars
<1>4. run[j].pc = "idle" /\ ~run[j].held /\ ~run[j].stale
  BY <1>2 DEF JobInv, ActiveRuns, HistoryTrue
<1>5. RunsAccounted(j)'
  BY <1>1, <1>2, <1>3, SendAssumption DEF JobInv, RunsAccounted, Pending, JobType
<1>6. CopiesAccounted(j)'
  BY <1>2, <1>3, <1>4 DEF JobInv, CopiesAccounted
<1>7. QED
  BY <1>2, <1>3, <1>4, <1>5, <1>6
     DEF JobInv, ActiveRuns, SkipJustified, HistoryTrue

LEMMA TakeKeepsInv ==
    ASSUME SendTypeOK, NEW j \in Jobs, JobInv(j), Take(j)
    PROVE  JobInv(j)'
<1>1. job \in [Jobs -> JobType] /\ run \in [Jobs -> RunType] /\ runs \in [Jobs -> Nat]
  BY DEF SendTypeOK
<1>2. /\ job[j].status = "waiting"
      /\ job' = [job EXCEPT ![j].status = "active"]
      /\ runs' = [runs EXCEPT ![j] = @ + 1]
      /\ UNCHANGED <<rows, replied, accepted, lost, lock>>
  BY DEF Take, RunUnchanged, guardVars
<1>3. /\ run'[j].pc = IF job[j].kind = "followUp" THEN "gate" ELSE "find"
      /\ run'[j].held = Shielded(j)
      /\ run'[j].stale = (j \in replied)
  BY <1>1 DEF Take, NoRun
<1>4. /\ job'[j].status = "active"
      /\ job'[j].kind = job[j].kind
      /\ job'[j].made = job[j].made
      /\ job'[j].stalls = job[j].stalls
  BY <1>1, <1>2 DEF JobType
<1>5. RunsAccounted(j)'
  BY <1>1, <1>2, <1>4 DEF JobInv, RunsAccounted, Pending, JobType
<1>6. CopiesAccounted(j)'
  BY <1>2, <1>3, <1>4 DEF JobInv, CopiesAccounted, ActiveRuns
<1>7. /\ Shielded(j)' = Shielded(j)
      /\ RowsOf(j)' = RowsOf(j)
  BY <1>2 DEF Shielded, RowsOf, IsConversationLocked
<1>8. QED
  BY <1>2, <1>3, <1>4, <1>5, <1>6, <1>7
     DEF JobInv, ActiveRuns, SkipJustified, HistoryTrue

LEMMA FinishKeepsInv ==
    ASSUME SendTypeOK, NEW j \in Jobs, JobInv(j),
           FinishCompleted(j) \/ FinishFailed(j) \/ RecoverStalled(j)
    PROVE  JobInv(j)'
<1>1. /\ job \in [Jobs -> JobType] /\ run \in [Jobs -> RunType]
      /\ accepted[j] \in Nat /\ lost[j] \in Nat
  BY DEF SendTypeOK
<1>2. UNCHANGED <<rows, replied, accepted, lost, runs, lock>>
  BY DEF FinishCompleted, FinishFailed, RecoverStalled, RunUnchanged, guardVars
<1>3. run'[j].pc = "idle" /\ ~run'[j].held /\ ~run'[j].stale
  BY <1>1 DEF FinishCompleted, FinishFailed, RecoverStalled, NoRun
<1>4. job[j].status = "active"
  BY DEF FinishCompleted, FinishFailed, RecoverStalled, JobInv, ActiveRuns
<1>5. CASE FinishCompleted(j)
  <2>1. job' = [job EXCEPT ![j].status = "completed"] /\ run[j].pc \in {"sent", "skipped"}
    BY <1>5 DEF FinishCompleted
  <2>2. /\ job'[j].status = "completed"
        /\ job'[j].kind = job[j].kind
        /\ job'[j].made = job[j].made
        /\ job'[j].stalls = job[j].stalls
    BY <1>1, <2>1 DEF JobType
  <2>3. RunsAccounted(j)'
    BY <1>2, <1>4, <2>2 DEF JobInv, RunsAccounted, Pending
  <2>4. CopiesAccounted(j)'
    BY <1>1, <1>2, <1>3, <1>4, <2>1, <2>2 DEF JobInv, CopiesAccounted
  <2>5. accepted[j] > 0 \/ (job[j].kind = "followUp" /\ j \in replied)
    BY <1>1, <2>1 DEF JobInv, CopiesAccounted, SkipJustified
  <2>6. QED
    BY <1>2, <1>3, <2>2, <2>3, <2>4, <2>5
       DEF JobInv, ActiveRuns, SkipJustified, HistoryTrue
<1>6. CASE FinishFailed(j)
  <2>1. run[j].pc \in {"locked_out", "broken", "thrown"}
    BY <1>6 DEF FinishFailed
  <2>2. /\ job'[j].status = IF Retries(j) THEN "delayed" ELSE "failed"
        /\ job'[j].made = job[j].made + 1
        /\ job'[j].stalls = job[j].stalls
    BY <1>1, <1>6 DEF FinishFailed, JobType
  <2>3. Retries(j) => job[j].made + 1 < Attempts
    BY DEF Retries
  <2>4. RunsAccounted(j)'
    BY <1>1, <1>2, <1>4, <2>2, <2>3, SendAssumption
       DEF JobInv, RunsAccounted, Pending, JobType
  <2>5. CopiesAccounted(j)'
    BY <1>2, <1>3, <1>4, <2>1, <2>2 DEF JobInv, CopiesAccounted
  <2>6. QED
    BY <1>2, <1>3, <2>2, <2>4, <2>5
       DEF JobInv, ActiveRuns, SkipJustified, HistoryTrue
<1>7. CASE RecoverStalled(j)
  <2>1. run[j].pc = "orphan"
    BY <1>7 DEF RecoverStalled
  <2>2. /\ job'[j].status = IF job[j].stalls < MaxStalled THEN "waiting" ELSE "failed"
        /\ job'[j].made = job[j].made
        /\ job'[j].stalls = job[j].stalls + 1
    BY <1>1, <1>7 DEF RecoverStalled, JobType
  <2>3. RunsAccounted(j)'
    BY <1>1, <1>2, <1>4, <2>2, SendAssumption
       DEF JobInv, RunsAccounted, Pending, JobType
  <2>4. CopiesAccounted(j)'
    BY <1>2, <1>3, <1>4, <2>1, <2>2 DEF JobInv, CopiesAccounted
  <2>5. QED
    BY <1>2, <1>3, <2>2, <2>3, <2>4
       DEF JobInv, ActiveRuns, SkipJustified, HistoryTrue
<1>8. QED
  BY <1>5, <1>6, <1>7

LEMMA GatesKeepInv ==
    ASSUME SendTypeOK, NEW j \in Jobs, JobInv(j),
           \/ FollowUpGate(j) \/ FindConversation(j) \/ LockGate(j)
           \/ LoadOrderedSendableAccounts(j) \/ DatabaseFails(j)
    PROVE  JobInv(j)'
<1>1. run \in [Jobs -> RunType]
  BY DEF SendTypeOK
<1>2. UNCHANGED <<rows, job, replied, accepted, lost, runs, lock>>
  BY DEF FollowUpGate, FindConversation, LockGate, LoadOrderedSendableAccounts,
         DatabaseFails, RunUnchanged, guardVars
<1>3. /\ run'[j].held => run[j].held
      /\ run'[j].stale = run[j].stale
      /\ run[j].pc \in {"gate", "find", "lock", "load"}
      /\ run'[j].pc \in {"skipped", "find", "lock", "locked_out", "load",
                         "broken", "thrown", "post"}
      /\ run'[j].pc = "skipped" => run[j].pc = "gate" /\ j \in replied
      /\ run'[j].pc = "find" => j \notin replied
      /\ run'[j].pc = "lock" => run'[j].conv \in RowsOf(j)
      /\ run'[j].held => run'[j].pc \notin {"load", "thrown", "post"}
      /\ run[j].pc = "find" => run'[j].pc \in {"lock", "load", "broken"}
      /\ run[j].pc = "lock" => run'[j].pc \in {"locked_out", "load"}
      /\ run[j].pc = "gate" => run'[j].pc \in {"skipped", "find", "broken"}
      /\ run[j].pc = "load" => run'[j].pc \in {"thrown", "post", "broken"}
  <2>1. CASE FollowUpGate(j)
    BY <1>1, <2>1 DEF FollowUpGate, RunType
  <2>2. CASE LockGate(j)
    <3>1. PICK r \in RedisAnswers :
             LET locked == r = "ok" /\ IsConversationLocked(run[j].conv)
             IN  run' = [run EXCEPT ![j].pc = IF locked THEN "locked_out" ELSE "load",
                                    ![j].conv = NoConv,
                                    ![j].held = @ /\ r = "ok"]
      BY <2>2 DEF LockGate
    <3> DEFINE locked == r = "ok" /\ IsConversationLocked(run[j].conv)
    <3>2. run' = [run EXCEPT ![j].pc = IF locked THEN "locked_out" ELSE "load",
                             ![j].conv = NoConv,
                             ![j].held = @ /\ r = "ok"]
      BY <3>1
    <3>3. run[j].held /\ r = "ok" => locked
      <4>1. run[j].pc = "lock"
        BY <2>2 DEF LockGate
      <4>2. QED
        BY <4>1 DEF JobInv, HistoryTrue, Shielded
    <3> HIDE DEF locked
    <3>4. /\ run'[j].pc = (IF locked THEN "locked_out" ELSE "load")
          /\ run'[j].held = (run[j].held /\ r = "ok")
          /\ run'[j].stale = run[j].stale
      BY <1>1, <3>2 DEF RunType
    <3>5. run[j].pc = "lock"
      BY <2>2 DEF LockGate
    <3>6. QED
      BY <3>3, <3>4, <3>5
  <2>6. CASE FindConversation(j)
    <3>1. run[j].pc = "find" /\ (run[j].held => RowsOf(j) # {})
      BY <2>6 DEF FindConversation, JobInv, HistoryTrue, Shielded
    <3>2. CASE RowsOf(j) = {} /\ run' = [run EXCEPT ![j].pc = "load"]
      BY <1>1, <3>1, <3>2 DEF RunType
    <3>3. ASSUME NEW c \in RowsOf(j), run' = [run EXCEPT ![j].pc = "lock", ![j].conv = c]
          PROVE  /\ run'[j].held = run[j].held
                 /\ run'[j].stale = run[j].stale
                 /\ run'[j].pc = "lock"
                 /\ run'[j].conv \in RowsOf(j)
      BY <1>1, <3>3 DEF RunType
    <3>4. QED
      BY <2>6, <3>1, <3>2, <3>3 DEF FindConversation
  <2>3. CASE LoadOrderedSendableAccounts(j)
    BY <1>1, <2>3 DEF LoadOrderedSendableAccounts, RunType, JobInv
  <2>4. CASE DatabaseFails(j)
    BY <1>1, <2>4 DEF DatabaseFails, RunType
  <2>5. QED
    BY <2>1, <2>2, <2>3, <2>4, <2>6
<1>4. /\ Shielded(j)' = Shielded(j)
      /\ RowsOf(j)' = RowsOf(j)
  BY <1>2 DEF Shielded, RowsOf, IsConversationLocked
<1>5. RunsAccounted(j)' /\ CopiesAccounted(j)'
  BY <1>2, <1>3 DEF JobInv, RunsAccounted, CopiesAccounted, ActiveRuns, Pending
<1>6. SkipJustified(j)'
  BY <1>2, <1>3 DEF JobInv, SkipJustified
<1>7. QED
  BY <1>2, <1>3, <1>4, <1>5, <1>6
     DEF JobInv, ActiveRuns, HistoryTrue

LEMMA PostKeepsInv ==
    ASSUME SendTypeOK, NEW j \in Jobs, JobInv(j), NEW Results, TryAccount(j, Results)
    PROVE  JobInv(j)'
<1>1. /\ run \in [Jobs -> RunType] /\ accepted \in [Jobs -> Nat]
      /\ lost \in [Jobs -> Nat]
  BY DEF SendTypeOK
<1>2. UNCHANGED <<rows, job, replied, runs, lock>> /\ run[j].pc = "post"
  BY DEF TryAccount, guardVars
<1>3. PICK a \in run[j].todo, r \in Results :
         /\ run' = [run EXCEPT ![j] = AfterPost(j, a, r)]
         /\ accepted' = [accepted EXCEPT ![j] = @ + (IF Taken(r) THEN 1 ELSE 0)]
         /\ lost' = [lost EXCEPT ![j] = @ + (IF r = "answer_lost" THEN 1 ELSE 0)]
  BY DEF TryAccount
<1>4. /\ AfterPost(j, a, r).held = run[j].held
      /\ AfterPost(j, a, r).stale = run[j].stale
      /\ AfterPost(j, a, r).pc \in {"sent", "thrown", "post"}
      /\ AfterPost(j, a, r).pc = "sent" <=> r = "2xx"
  BY <1>1 DEF AfterPost, RunType, Verdict
<1>5. /\ run'[j].held = run[j].held
      /\ run'[j].stale = run[j].stale
      /\ run'[j].pc \in {"sent", "thrown", "post"}
      /\ run'[j].pc = "sent" <=> r = "2xx"
  BY <1>1, <1>3, <1>4
<1>6. job[j].status = "active"
  BY <1>2 DEF JobInv, ActiveRuns
<1>7. CopiesAccounted(j)'
  BY <1>1, <1>2, <1>3, <1>5, <1>6 DEF JobInv, CopiesAccounted, Taken
<1>8. RunsAccounted(j)'
  BY <1>2 DEF JobInv, RunsAccounted, Pending
<1>9. /\ Shielded(j)' = Shielded(j)
      /\ RowsOf(j)' = RowsOf(j)
  BY <1>2 DEF Shielded, RowsOf, IsConversationLocked
<1>10. QED
  BY <1>2, <1>5, <1>6, <1>7, <1>8, <1>9
     DEF JobInv, ActiveRuns, SkipJustified, HistoryTrue

\* The actions of one job leave the others alone.
LEMMA JobStepKeepsOthers ==
    ASSUME SendTypeOK, NEW j \in Jobs, NEW i \in Jobs, i # j, JobInv(i),
           \/ SendMessage(j) \/ ScheduleFollowUp(j) \/ Take(j) \/ FinishCompleted(j)
           \/ FinishFailed(j) \/ RecoverStalled(j) \/ FollowUpGate(j)
           \/ FindConversation(j) \/ LockGate(j)
           \/ LoadOrderedSendableAccounts(j) \/ DatabaseFails(j)
           \/ \E Results : TryAccount(j, Results)
    PROVE  JobInv(i)'
<1>1. /\ job'[i] = job[i] /\ run'[i] = run[i] /\ runs'[i] = runs[i]
      /\ accepted'[i] = accepted[i] /\ lost'[i] = lost[i]
  BY DEF SendTypeOK, SendMessage, ScheduleFollowUp, Enqueue, Drop, Take,
         FinishCompleted, FinishFailed, RecoverStalled, FollowUpGate,
         FindConversation, LockGate, LoadOrderedSendableAccounts, DatabaseFails, TryAccount, RunUnchanged, guardVars
<1>2. UNCHANGED <<rows, replied, lock>>
  BY DEF SendMessage, ScheduleFollowUp, Take,
         FinishCompleted, FinishFailed, RecoverStalled, FollowUpGate,
         FindConversation, LockGate, LoadOrderedSendableAccounts, DatabaseFails, TryAccount, RunUnchanged, guardVars
<1>3. QED
  BY <1>1, <1>2, OtherJobKept

\* process(job) is one of the steps above.
LEMMA ProcessSteps ==
    ASSUME NEW j \in Jobs, Process(j)
    PROVE  \/ FollowUpGate(j) /\ job[j].kind \in {"text", "followUp"}
           \/ FindConversation(j)
           \/ LockGate(j)
           \/ LoadOrderedSendableAccounts(j)
           \/ DatabaseFails(j)
           \/ \E Results : TryAccount(j, Results)
BY DEF Process, SendTextWithFallback, SendImageWithFallback, SendVideoWithFallback,
       SendProductListWithFallback, SendInteractiveButtonsWithFallback, FallbackStep

LEMMA EnvironmentKeepsInv ==
    ASSUME SendTypeOK, NEW i \in Jobs, JobInv(i),
           \/ \E c \in Conversations : NewConversation(c) \/ CustomerMessage(c)
           \/ \E a \in Accounts : ToggleAccount(a)
           \/ \E a \in Agents : AgentStep(a)
           \/ Tick
           \/ Crash
    PROVE  JobInv(i)'
<1>1. job \in [Jobs -> JobType] /\ run \in [Jobs -> RunType]
  BY DEF SendTypeOK
<1>2. CASE (\E c \in Conversations : CustomerMessage(c))
           \/ (\E a \in Accounts : ToggleAccount(a))
  BY <1>2, OtherJobKept DEF CustomerMessage, ToggleAccount, guardVars
<1>3. ASSUME HeldFollowsLock,
             rows \subseteq rows',
             UNCHANGED <<replied, accepted, lost, runs>>,
             job'[i].kind = job[i].kind,
             job'[i].made = job[i].made,
             job'[i].stalls = job[i].stalls,
             \/ job'[i].status = job[i].status
             \/ job[i].status = "delayed" /\ job'[i].status = "waiting"
      PROVE  JobInv(i)'
  <2>1. /\ run'[i].pc = run[i].pc
        /\ run'[i].stale = run[i].stale
        /\ run'[i].conv = run[i].conv
        /\ run'[i].held = (run[i].held /\ Shielded(i)')
    BY <1>1, <1>3 DEF HeldFollowsLock, RunType
  <2>2. RunsAccounted(i)'
    BY <1>3 DEF JobInv, RunsAccounted, Pending
  <2>3. CopiesAccounted(i)'
    BY <1>3, <2>1 DEF JobInv, CopiesAccounted
  <2>4. HistoryTrue(i)'
    BY <1>3, <2>1 DEF JobInv, HistoryTrue, RowsOf
  <2>5. QED
    BY <1>3, <2>1, <2>2, <2>3, <2>4 DEF JobInv, ActiveRuns, SkipJustified
<1>4. CASE (\E a \in Agents : AgentStep(a)) \/ (\E c \in Conversations : NewConversation(c))
  BY <1>3, <1>4 DEF AgentStep, NewConversation
<1>5. CASE Tick
  <2>1. /\ job'[i].kind = job[i].kind
        /\ job'[i].made = job[i].made
        /\ job'[i].stalls = job[i].stalls
        /\ \/ job'[i].status = job[i].status
           \/ job[i].status = "delayed" /\ job'[i].status = "waiting"
    BY <1>1, <1>5 DEF Tick, JobType
  <2>2. QED
    BY <1>3, <1>5, <2>1 DEF Tick
<1>6. CASE Crash
  <2>1. UNCHANGED <<rows, job, replied, accepted, runs, lock>>
    BY <1>6 DEF Crash
  <2>2. /\ run'[i].pc = (IF Running(i) THEN "orphan" ELSE run[i].pc)
        /\ ~Running(i) => run'[i].conv = run[i].conv
        /\ run'[i].held = (run[i].held /\ ~Running(i))
        /\ run'[i].stale = (run[i].stale /\ ~Running(i))
    BY <1>1, <1>6 DEF Crash, NoRun, RunType
  <2>3. lost'[i] = lost[i] + (IF run[i].pc = "sent" THEN 1 ELSE 0)
    BY <1>6 DEF Crash
  <2>4. lost[i] \in Nat /\ accepted[i] \in Nat
    BY DEF SendTypeOK
  <2>5. RunsAccounted(i)'
    BY <2>1 DEF JobInv, RunsAccounted, Pending
  <2>6. CopiesAccounted(i)'
    BY <2>1, <2>2, <2>3, <2>4 DEF JobInv, CopiesAccounted, ActiveRuns, Running
  <2>7. HistoryTrue(i)'
    BY <2>1, <2>2 DEF JobInv, HistoryTrue, Shielded, RowsOf, IsConversationLocked, Running
  <2>8. QED
    BY <2>1, <2>2, <2>5, <2>6, <2>7
       DEF JobInv, ActiveRuns, SkipJustified, Running
<1>7. QED
  BY <1>2, <1>4, <1>5, <1>6

-----------------------------------------------------------------------------
(* The results *)

\* SendInv is an invariant of the queue.
THEOREM SendInvariant == Spec => []SendInv
<1>1. Init => SendInv
  <2> SUFFICES ASSUME Init PROVE SendInv
    OBVIOUS
  <2>1. SendTypeOK
    BY SendAssumption, GuardAssumption
       DEF Init, SendTypeOK, GuardInit, GuardTypeOK, Calls, Idle, NoJob, NoRun,
           JobType, RunType
  <2>2. ASSUME NEW j \in Jobs
        PROVE  JobInv(j)
    BY SendAssumption
       DEF Init, NoJob, NoRun, JobInv, ActiveRuns, CopiesAccounted, RunsAccounted,
           Pending, SkipJustified, HistoryTrue
  <2>3. QED
    BY <2>1, <2>2, SendInvByJob
<1>2. SendInv /\ [Next]_vars => SendInv'
  <2> SUFFICES ASSUME SendInv, [Next]_vars
               PROVE  SendTypeOK' /\ \A i \in Jobs : JobInv(i)'
    BY SendInvByJob DEF SendInv, JobInv, CompletedMeansDelivered,
       LockShieldsConversation, NoFollowUpAfterReply
  <2>1. SendTypeOK /\ \A i \in Jobs : JobInv(i)
    BY SendInvByJob
  <2>2. ASSUME NEW j \in Jobs, SendMessage(j) \/ ScheduleFollowUp(j)
        PROVE  SendTypeOK' /\ \A i \in Jobs : JobInv(i)'
    BY <2>1, <2>2, ProducersTypeOK, ProducersKeepInv, JobStepKeepsOthers
  <2>3. ASSUME NEW j \in Jobs, Take(j)
        PROVE  SendTypeOK' /\ \A i \in Jobs : JobInv(i)'
    BY <2>1, <2>3, TakeTypeOK, TakeKeepsInv, JobStepKeepsOthers
  <2>4. ASSUME NEW j \in Jobs,
               FinishCompleted(j) \/ FinishFailed(j) \/ RecoverStalled(j)
        PROVE  SendTypeOK' /\ \A i \in Jobs : JobInv(i)'
    <3>1. SendTypeOK'
      BY <2>1, <2>4, FinishTypeOK DEF JobInv
    <3>2. QED
      BY <2>1, <2>4, <3>1, FinishKeepsInv, JobStepKeepsOthers
  <2>5. ASSUME NEW j \in Jobs, Process(j)
        PROVE  SendTypeOK' /\ \A i \in Jobs : JobInv(i)'
    BY <2>1, <2>5, ProcessSteps, ProcessTypeOK, GatesKeepInv, PostKeepsInv,
       JobStepKeepsOthers
  <2>6. ASSUME \/ \E c \in Conversations : NewConversation(c) \/ CustomerMessage(c)
               \/ \E a \in Accounts : ToggleAccount(a)
               \/ \E a \in Agents : AgentStep(a)
               \/ Tick
               \/ Crash
        PROVE  SendTypeOK' /\ \A i \in Jobs : JobInv(i)'
    BY <2>1, <2>6, EnvironmentTypeOK, EnvironmentKeepsInv
  <2>7. ASSUME UNCHANGED vars
        PROVE  SendTypeOK' /\ \A i \in Jobs : JobInv(i)'
    <3>1. SendTypeOK'
      BY <2>1, <2>7 DEF vars, sendVars, guardVars, SendTypeOK, GuardTypeOK
    <3>2. QED
      BY <2>1, <2>7, <3>1, OtherJobKept DEF vars, sendVars, guardVars
  <2>8. QED
    BY <2>2, <2>3, <2>4, <2>5, <2>6, <2>7 DEF Next
<1>3. QED
  BY <1>1, <1>2, PTL DEF Spec

\* The state of the queue is well-typed: attempts and stalls stay in bounds.
THEOREM SendTypeCorrect == Spec => []SendTypeOK
<1>1. SendInv => SendTypeOK
  BY DEF SendInv
<1>2. QED
  BY <1>1, SendInvariant, PTL

\* Every second copy of a message is explained by an answer that was lost.
THEOREM DuplicatesAreExplained == Spec => []DuplicatesExplained
<1>1. SendInv => DuplicatesExplained
  <2> SUFFICES ASSUME SendInv, NEW j \in Jobs
               PROVE  accepted[j] <= lost[j] + 1
    BY DEF DuplicatesExplained
  <2>1. accepted[j] \in Nat /\ lost[j] \in Nat
    BY DEF SendInv, SendTypeOK
  <2>2. CopiesAccounted(j)
    BY DEF SendInv
  <2>3. QED
    BY <2>1, <2>2 DEF CopiesAccounted
<1>2. QED
  BY <1>1, SendInvariant, PTL

\* A completed message was delivered or had become superfluous.
THEOREM CompletedAreDelivered == Spec => []CompletedMeansDelivered
<1>1. SendInv => CompletedMeansDelivered
  BY DEF SendInv
<1>2. QED
  BY <1>1, SendInvariant, PTL

\* No message is processed more than Attempts + MaxStalled times.
THEOREM RunsAreBounded == Spec => []RunBudget
<1>1. SendInv => RunBudget
  <2> SUFFICES ASSUME SendInv, NEW j \in Jobs
               PROVE  runs[j] <= Attempts + MaxStalled
    BY DEF RunBudget
  <2>1. job[j] \in JobType
    BY DEF SendInv, SendTypeOK
  <2>2. RunsAccounted(j)
    BY DEF SendInv
  <2>3. QED
    BY <2>1, <2>2, SendAssumption DEF RunsAccounted, Pending, JobType
<1>2. QED
  BY <1>1, SendInvariant, PTL

\* Locks held on all a customer's conversations since before a run began stop
\* that run, for every message kind.
THEOREM LockedConversationsShielded == Spec => []LockShieldsConversation
<1>1. SendInv => LockShieldsConversation
  BY DEF SendInv
<1>2. QED
  BY <1>1, SendInvariant, PTL

\* A follow-up run that starts after the customer's reply posts nothing.
THEOREM NoFollowUpAfterReplies == Spec => []NoFollowUpAfterReply
<1>1. SendInv => NoFollowUpAfterReply
  BY DEF SendInv
<1>2. QED
  BY <1>1, SendInvariant, PTL

-----------------------------------------------------------------------------
(* Refinement of DeliveryPromise, the safety part.  That every pending message *)
(* is settled rests on fairness and is left to TLC.                            *)


\* A step that only changes where job j stands changes only j's phase.
LEMMA PhaseOfOneJob ==
    ASSUME SendTypeOK, NEW j \in Jobs,
           \A i \in Jobs \ {j} : job'[i] = job[i]
    PROVE  /\ phases[j] = PhaseOf(job[j].status)
           /\ phases' = [phases EXCEPT ![j] = PhaseOf(job'[j].status)]
BY DEF phases, SendTypeOK

\* Jobs whose status stays in its phase are invisible.
LEMMA PhasesKept ==
    ASSUME \A i \in Jobs : PhaseOf(job'[i].status) = PhaseOf(job[i].status)
    PROVE  phases' = phases
BY DEF phases

\* Handing a message to the queue submits it, or it is refused.
LEMMA ProducersPromise ==
    ASSUME SendTypeOK, NEW j \in Jobs, SendMessage(j) \/ ScheduleFollowUp(j)
    PROVE  Promise!Submit(j) \/ Promise!Refuse(j)
<1>1. job \in [Jobs -> JobType]
  BY DEF SendTypeOK
<1>2. /\ job[j].status = "unsent"
      /\ job'[j].status \in {"waiting", "delayed", "dropped"}
      /\ \A i \in Jobs \ {j} : job'[i] = job[i]
  <2>1. ASSUME NEW k, NEW n, Enqueue(j, k, n)
        PROVE  /\ job'[j].status \in {"waiting", "delayed"}
               /\ \A i \in Jobs \ {j} : job'[i] = job[i]
    BY <1>1, <2>1 DEF Enqueue, JobType
  <2>2. ASSUME Drop(j)
        PROVE  /\ job'[j].status = "dropped"
               /\ \A i \in Jobs \ {j} : job'[i] = job[i]
    BY <1>1, <2>2 DEF Drop, JobType
  <2>3. QED
    BY <2>1, <2>2 DEF SendMessage, ScheduleFollowUp
<1>3. UNCHANGED <<accepted, replied>>
  BY DEF SendMessage, ScheduleFollowUp
<1>4. /\ phases[j] = "unsent"
      /\ phases' = [phases EXCEPT ![j] = PhaseOf(job'[j].status)]
  BY <1>2, PhaseOfOneJob DEF PhaseOf
<1>5. PhaseOf(job'[j].status) \in {"pending", "refused"}
  BY <1>2 DEF PhaseOf
<1>6. QED
  BY <1>3, <1>4, <1>5 DEF Promise!Submit, Promise!Refuse

\* The end of a run completes the message, fails it or is invisible.
LEMMA FinishPromise ==
    ASSUME SendTypeOK, NEW j \in Jobs, JobInv(j), JobInv(j)',
           FinishCompleted(j) \/ FinishFailed(j) \/ RecoverStalled(j)
    PROVE  Promise!Complete(j) \/ Promise!Fail(j) \/ UNCHANGED <<phases, accepted, replied>>
<1>1. job \in [Jobs -> JobType]
  BY DEF SendTypeOK
<1>2. /\ job'[j].status \in {"completed", "failed", "delayed", "waiting"}
      /\ \A i \in Jobs \ {j} : job'[i] = job[i]
  BY <1>1 DEF FinishCompleted, FinishFailed, RecoverStalled, JobType
<1>3. UNCHANGED <<accepted, replied>>
  BY DEF FinishCompleted, FinishFailed, RecoverStalled, RunUnchanged
<1>4. job[j].status = "active"
  BY DEF FinishCompleted, FinishFailed, RecoverStalled, JobInv, ActiveRuns
<1>5. /\ phases[j] = "pending"
      /\ phases' = [phases EXCEPT ![j] = PhaseOf(job'[j].status)]
  BY <1>2, <1>4, PhaseOfOneJob DEF PhaseOf
<1>6. CASE job'[j].status = "completed"
  <2>1. accepted[j] > 0 \/ j \in replied
    BY <1>3, <1>6 DEF JobInv
  <2>2. QED
    BY <1>3, <1>5, <1>6, <2>1 DEF PhaseOf, Promise!Complete
<1>7. CASE job'[j].status = "failed"
  BY <1>3, <1>5, <1>7 DEF PhaseOf, Promise!Fail
<1>8. CASE job'[j].status \in {"delayed", "waiting"}
  <2>1. \A i \in Jobs : PhaseOf(job'[i].status) = PhaseOf(job[i].status)
    BY <1>2, <1>4, <1>8 DEF PhaseOf
  <2>2. QED
    BY <1>3, <2>1, PhasesKept
<1>9. QED
  BY <1>2, <1>6, <1>7, <1>8

\* A step of the handler delivers at most one copy of a pending message.
LEMMA ProcessPromise ==
    ASSUME SendTypeOK, NEW j \in Jobs, JobInv(j), Process(j)
    PROVE  Promise!Deliver(j) \/ UNCHANGED <<phases, accepted, replied>>
<1>1. CASE \/ FollowUpGate(j) \/ FindConversation(j) \/ LockGate(j)
           \/ LoadOrderedSendableAccounts(j) \/ DatabaseFails(j)
  <2>1. UNCHANGED <<job, accepted, replied>>
    BY <1>1 DEF FollowUpGate, FindConversation, LockGate,
                LoadOrderedSendableAccounts, DatabaseFails, RunUnchanged
  <2>2. QED
    BY <2>1, PhasesKept
<1>2. ASSUME NEW Results, TryAccount(j, Results)
      PROVE  Promise!Deliver(j) \/ UNCHANGED <<phases, accepted, replied>>
  <2>1. UNCHANGED <<job, replied>>
    BY <1>2 DEF TryAccount
  <2>2. phases' = phases
    BY <2>1, PhasesKept
  <2>3. phases[j] = "pending"
    BY <1>2 DEF TryAccount, JobInv, ActiveRuns, phases, PhaseOf
  <2>4. accepted \in [Jobs -> Nat]
    BY DEF SendTypeOK
  <2>5. \/ accepted' = [accepted EXCEPT ![j] = @ + 1]
        \/ accepted' = [accepted EXCEPT ![j] = @ + 0]
    BY <1>2 DEF TryAccount
  <2>6. CASE accepted' = [accepted EXCEPT ![j] = @ + 1]
    BY <2>1, <2>2, <2>3, <2>6 DEF Promise!Deliver
  <2>7. CASE accepted' = [accepted EXCEPT ![j] = @ + 0]
    BY <2>1, <2>2, <2>4, <2>7
  <2>8. QED
    BY <2>5, <2>6, <2>7
<1>3. QED
  BY <1>1, <1>2, ProcessSteps

\* Customers make messages superfluous; what everybody else does is invisible.
LEMMA EnvironmentPromise ==
    ASSUME SendTypeOK,
           \/ \E c \in Conversations : NewConversation(c) \/ CustomerMessage(c)
           \/ \E a \in Accounts : ToggleAccount(a)
           \/ \E a \in Agents : AgentStep(a)
           \/ Tick
           \/ Crash
    PROVE  Promise!BecomeObsolete \/ UNCHANGED <<phases, accepted, replied>>
<1>1. ASSUME NEW c \in Conversations, CustomerMessage(c)
      PROVE  Promise!BecomeObsolete
  <2> DEFINE S == {i \in Jobs : job[i].kind = "followUp" /\ Pending(i) /\ ConvOf[i] = c}
  <2>1. \A i \in S : phases[i] = "pending"
    BY DEF Pending, phases, PhaseOf
  <2>2. UNCHANGED <<phases, accepted>>
    BY <1>1, PhasesKept DEF CustomerMessage
  <2>3. replied' = replied \cup S
    BY <1>1 DEF CustomerMessage
  <2>4. S \in SUBSET {i \in Jobs : phases[i] = "pending"}
    BY <2>1
  <2> HIDE DEF S
  <2>5. QED
    BY <2>2, <2>3, <2>4 DEF Promise!BecomeObsolete
<1>2. CASE \/ \E c \in Conversations : NewConversation(c)
           \/ \E a \in Accounts : ToggleAccount(a)
           \/ \E a \in Agents : AgentStep(a)
           \/ Crash
  <2>1. UNCHANGED <<job, accepted, replied>>
    BY <1>2 DEF NewConversation, ToggleAccount, AgentStep, Crash
  <2>2. QED
    BY <2>1, PhasesKept
<1>3. CASE Tick
  <2>1. job \in [Jobs -> JobType]
    BY DEF SendTypeOK
  <2>2. \A i \in Jobs : \/ job'[i].status = job[i].status
                        \/ job[i].status = "delayed" /\ job'[i].status = "waiting"
    BY <1>3, <2>1 DEF Tick, JobType
  <2>3. \A i \in Jobs : PhaseOf(job'[i].status) = PhaseOf(job[i].status)
    BY <2>2 DEF PhaseOf
  <2>4. QED
    BY <1>3, <2>3, PhasesKept DEF Tick
<1>4. QED
  BY <1>1, <1>2, <1>3

\* The queue implements the safety part of the delivery promise: an accepted
\* message is settled once, and as completed only with a delivery or a reason.
THEOREM QueueKeepsPromiseSafety == Spec => Promise!PromiseSafety
<1>1. Init => Promise!PromiseInit
  BY DEF Init, NoJob, phases, PhaseOf, Promise!PromiseInit
<1>2. SendInv /\ SendInv' /\ [Next]_vars => [Promise!PromiseNext]_(Promise!promiseVars)
  <2> SUFFICES ASSUME SendInv, SendInv', [Next]_vars
               PROVE  Promise!PromiseNext \/ UNCHANGED <<phases, accepted, replied>>
    BY DEF Promise!promiseVars
  <2>1. SendTypeOK /\ \A j \in Jobs : JobInv(j)
    BY SendInvByJob
  <2>2. \A j \in Jobs : JobInv(j)'
    BY DEF SendInv, JobInv, CompletedMeansDelivered, LockShieldsConversation,
           NoFollowUpAfterReply
  <2>3. ASSUME NEW j \in Jobs, SendMessage(j) \/ ScheduleFollowUp(j)
        PROVE  Promise!PromiseNext
    BY <2>1, <2>3, ProducersPromise DEF Promise!PromiseNext
  <2>4. ASSUME NEW j \in Jobs, Take(j)
        PROVE  UNCHANGED <<phases, accepted, replied>>
    <3>1. /\ job[j].status = "waiting"
          /\ job' = [job EXCEPT ![j].status = "active"]
          /\ UNCHANGED <<accepted, replied>>
      BY <2>4 DEF Take, RunUnchanged
    <3>2. \A i \in Jobs : PhaseOf(job'[i].status) = PhaseOf(job[i].status)
      BY <2>1, <3>1 DEF PhaseOf, SendTypeOK, JobType
    <3>3. QED
      BY <3>1, <3>2, PhasesKept
  <2>5. ASSUME NEW j \in Jobs,
               FinishCompleted(j) \/ FinishFailed(j) \/ RecoverStalled(j)
        PROVE  Promise!PromiseNext \/ UNCHANGED <<phases, accepted, replied>>
    BY <2>1, <2>2, <2>5, FinishPromise DEF Promise!PromiseNext
  <2>6. ASSUME NEW j \in Jobs, Process(j)
        PROVE  Promise!PromiseNext \/ UNCHANGED <<phases, accepted, replied>>
    BY <2>1, <2>6, ProcessPromise DEF Promise!PromiseNext
  <2>7. ASSUME \/ \E c \in Conversations : NewConversation(c) \/ CustomerMessage(c)
               \/ \E a \in Accounts : ToggleAccount(a)
               \/ \E a \in Agents : AgentStep(a)
               \/ Tick
               \/ Crash
        PROVE  Promise!PromiseNext \/ UNCHANGED <<phases, accepted, replied>>
    BY <2>1, <2>7, EnvironmentPromise DEF Promise!PromiseNext
  <2>8. CASE UNCHANGED vars
    BY <2>8, PhasesKept DEF vars, sendVars
  <2>9. QED
    BY <2>3, <2>4, <2>5, <2>6, <2>7, <2>8 DEF Next
<1>3. QED
  BY <1>1, <1>2, SendInvariant, PTL DEF Spec, Promise!PromiseSafety
=============================================================================
