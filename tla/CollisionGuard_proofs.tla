----------------------- MODULE CollisionGuard_proofs -----------------------
(***************************************************************************)
(* Proofs about CollisionGuard.  LeaseExclusive is not inductive: a lease  *)
(* of one agent excludes another's only because each is backed by the one  *)
(* key in Redis, and the key outlives the lease only because no release or *)
(* extension acts on a key that changed hands under it.  GuardInv says     *)
(* both; the second half needs PromptCalls.                                *)
(***************************************************************************)
EXTENDS CollisionGuard, TLAPS

\* A call that is between its two commands still finds its caller's lock, or none
\* where its DEL was carried out unheard, and an agent that is releasing a
\* conversation no longer relies on it.
PendingCallOwnsLock ==
    \A a \in Agents : call[a] # Idle =>
        \/ lock[call[a].conv] = a /\ call[a].op = "extend"
        \/ /\ lock[call[a].conv] \in {a, NoAgent}
           /\ call[a].op = "release" /\ lease[a][call[a].conv] = 0

\* An agent that relies on a conversation holds its key, which lives longer but
\* for an EXPIRE that was carried out unheard and whose call is not over.
LeaseBackedByLock ==
    \A a \in Agents, c \in Conversations :
        lease[a][c] > 0 =>
            /\ lock[c] = a
            /\ lease[a][c] <= ttl[c] \/ (call[a].op = "extend" /\ call[a].conv = c)

GuardInv ==
    /\ GuardTypeOK
    /\ HeldLockExpires
    /\ PromptCalls => PendingCallOwnsLock /\ LeaseBackedByLock

-----------------------------------------------------------------------------

\* Calls of agents and the passing of time keep the lock state well-typed.
LEMMA AgentCallTypeOK ==
    ASSUME GuardTypeOK, NEW a \in Agents, AgentCall(a)
    PROVE  GuardTypeOK'
<1> USE GuardAssumption DEF GuardTypeOK, Calls, Idle
<1>1. ASSUME NEW c \in Conversations, TryLockConversation(a, c)
      PROVE  GuardTypeOK'
  BY <1>1 DEF TryLockConversation, RedisAnswers
<1>2. ASSUME NEW c \in Conversations, ReleaseGet(a, c)
      PROVE  GuardTypeOK'
  BY <1>2 DEF ReleaseGet
<1>3. ASSUME NEW c \in Conversations, NEW n \in 1..LockTTL, ExtendGet(a, c, n)
      PROVE  GuardTypeOK'
  BY <1>3 DEF ExtendGet
<1>4. ASSUME ReleaseDel(a)
      PROVE  GuardTypeOK'
  BY <1>4 DEF ReleaseDel
<1>5. ASSUME ExtendExpire(a)
      PROVE  GuardTypeOK'
  <2>1. /\ call[a].conv \in Conversations
        /\ call[a].ticks \in 0..LockTTL
    BY <1>5 DEF ExtendExpire
  <2>2. \/ UNCHANGED ttl
        \/ ttl' = [ttl EXCEPT ![call[a].conv] = call[a].ticks]
    BY <1>5 DEF ExtendExpire
  <2>3. \/ lease' = [lease EXCEPT ![a][call[a].conv] = call[a].ticks]
        \/ lease' = [lease EXCEPT ![a][call[a].conv] = 0]
    BY <1>5 DEF ExtendExpire
  <2>4. ttl' \in [Conversations -> 0..LockTTL]
    BY <2>1, <2>2
  <2>5. lease' \in [Agents -> [Conversations -> 0..LockTTL]]
    <3>1. ASSUME NEW n \in 0..LockTTL,
                 lease' = [lease EXCEPT ![a][call[a].conv] = n]
          PROVE  lease' \in [Agents -> [Conversations -> 0..LockTTL]]
      <4>1. [lease[a] EXCEPT ![call[a].conv] = n] \in [Conversations -> 0..LockTTL]
        BY <2>1
      <4>2. QED
        BY <3>1, <4>1
    <3>2. 0 \in 0..LockTTL
      OBVIOUS
    <3>3. QED
      BY <2>1, <2>3, <3>1, <3>2
  <2>6. QED
    BY <1>5, <2>4, <2>5 DEF ExtendExpire
<1>6. ASSUME ReleaseDelUnheard(a) \/ ExtendExpireUnheard(a)
      PROVE  GuardTypeOK'
  <2>1. CASE ReleaseDelUnheard(a)
    BY <2>1 DEF ReleaseDelUnheard
  <2>2. CASE ExtendExpireUnheard(a)
    <3>1. call[a].conv \in Conversations /\ call[a].ticks \in 0..LockTTL
      BY <2>2 DEF ExtendExpireUnheard
    <3> QED
      BY <2>2, <3>1 DEF ExtendExpireUnheard
  <2> QED
    BY <1>6, <2>1, <2>2
<1>7. QED
  BY <1>1, <1>2, <1>3, <1>4, <1>5, <1>6 DEF AgentCall

LEMMA ExpireLocksTypeOK ==
    ASSUME GuardTypeOK, ExpireLocks
    PROVE  GuardTypeOK'
<1>1. /\ lock' \in [Conversations -> Agents \cup {NoAgent}]
      /\ ttl' \in [Conversations -> 0..LockTTL]
      /\ call' \in [Agents -> Calls]
  BY GuardAssumption DEF GuardTypeOK, ExpireLocks
<1>2. ASSUME NEW a \in Agents, NEW c \in Conversations
      PROVE  (IF lease[a][c] = 0 THEN 0 ELSE lease[a][c] - 1) \in 0..LockTTL
  <2>1. lease[a][c] \in 0..LockTTL
    BY DEF GuardTypeOK
  <2>2. QED
    BY <2>1, GuardAssumption
<1>3. lease' \in [Agents -> [Conversations -> 0..LockTTL]]
  BY <1>2 DEF ExpireLocks
<1>4. QED
  BY <1>1, <1>3 DEF GuardTypeOK

\* The service keeps every lock it holds on a clock.
LEMMA AgentCallHeldLockExpires ==
    ASSUME GuardTypeOK, HeldLockExpires, NEW a \in Agents, AgentCall(a)
    PROVE  HeldLockExpires'
<1> USE GuardAssumption DEF GuardTypeOK, Calls, Idle, HeldLockExpires, IsConversationLocked
<1>1. ASSUME NEW c \in Conversations, TryLockConversation(a, c)
      PROVE  HeldLockExpires'
  BY <1>1 DEF TryLockConversation, RedisAnswers
<1>2. ASSUME NEW c \in Conversations, ReleaseGet(a, c)
      PROVE  HeldLockExpires'
  BY <1>2 DEF ReleaseGet
<1>3. ASSUME NEW c \in Conversations, NEW n \in 1..LockTTL, ExtendGet(a, c, n)
      PROVE  HeldLockExpires'
  BY <1>3 DEF ExtendGet
<1>4. ASSUME ReleaseDel(a)
      PROVE  HeldLockExpires'
  BY <1>4 DEF ReleaseDel
<1>5. ASSUME ExtendExpire(a)
      PROVE  HeldLockExpires'
  BY <1>5 DEF ExtendExpire
<1>6. ASSUME ReleaseDelUnheard(a) \/ ExtendExpireUnheard(a)
      PROVE  HeldLockExpires'
  BY <1>6 DEF ReleaseDelUnheard, ExtendExpireUnheard
<1>7. QED
  BY <1>1, <1>2, <1>3, <1>4, <1>5, <1>6 DEF AgentCall

LEMMA ExpireLocksHeldLockExpires ==
    ASSUME GuardTypeOK, HeldLockExpires, ExpireLocks
    PROVE  HeldLockExpires'
BY GuardAssumption DEF GuardTypeOK, HeldLockExpires, ExpireLocks, IsConversationLocked

\* One step of an agent under prompt calls.
LEMMA AgentCallKeepsLeases ==
    ASSUME PromptCalls, GuardTypeOK, PendingCallOwnsLock, LeaseBackedByLock,
           NEW a \in Agents, AgentCall(a)
    PROVE  PendingCallOwnsLock' /\ LeaseBackedByLock'
<1> USE GuardAssumption
        DEF GuardTypeOK, Calls, Idle, PendingCallOwnsLock, LeaseBackedByLock
<1>1. ASSUME NEW c \in Conversations, TryLockConversation(a, c)
      PROVE  PendingCallOwnsLock' /\ LeaseBackedByLock'
  BY <1>1 DEF TryLockConversation, RedisAnswers, Untouched
<1>2. ASSUME NEW c \in Conversations, ReleaseGet(a, c)
      PROVE  PendingCallOwnsLock' /\ LeaseBackedByLock'
  BY <1>2 DEF ReleaseGet
<1>3. ASSUME NEW c \in Conversations, NEW n \in 1..LockTTL, ExtendGet(a, c, n)
      PROVE  PendingCallOwnsLock' /\ LeaseBackedByLock'
  BY <1>3 DEF ExtendGet
<1>4. ASSUME ReleaseDel(a)
      PROVE  PendingCallOwnsLock' /\ LeaseBackedByLock'
  BY <1>4 DEF ReleaseDel
<1>5. ASSUME ExtendExpire(a)
      PROVE  PendingCallOwnsLock' /\ LeaseBackedByLock'
  <2>1. /\ call[a].conv \in Conversations /\ call[a].ticks \in 1..LockTTL
        /\ lock[call[a].conv] = a /\ call[a].op # "release"
    BY <1>5 DEF ExtendExpire
  <2>2. PendingCallOwnsLock'
    BY <1>5, <2>1 DEF ExtendExpire
  <2>3. ASSUME NEW b \in Agents, NEW c \in Conversations, lease'[b][c] > 0
        PROVE  /\ lock'[c] = b
               /\ lease'[b][c] <= ttl'[c] \/ (call'[b].op = "extend" /\ call'[b].conv = c)
    <3>1. CASE b = a /\ c = call[a].conv
      BY <1>5, <2>1, <2>3, <3>1 DEF ExtendExpire, IsConversationLocked
    <3>2. CASE ~(b = a /\ c = call[a].conv)
      <4>1. lease'[b][c] = lease[b][c] /\ lock' = lock /\ lock[c] = b
        BY <1>5, <2>1, <2>3, <3>2 DEF ExtendExpire
      <4>2. c # call[a].conv
        BY <2>1, <3>2, <4>1
      <4>3. ttl'[c] = ttl[c]
        BY <1>5, <2>1, <4>2 DEF ExtendExpire
      <4>4. b # a => call'[b] = call[b]
        BY <1>5 DEF ExtendExpire
      <4> QED
        BY <2>3, <4>1, <4>2, <4>3, <4>4
    <3> QED
      BY <3>1, <3>2
  <2> QED
    BY <2>2, <2>3
<1>6. ASSUME ReleaseDelUnheard(a) \/ ExtendExpireUnheard(a)
      PROVE  PendingCallOwnsLock' /\ LeaseBackedByLock'
  <2>1. CASE ReleaseDelUnheard(a)
    BY <2>1 DEF ReleaseDelUnheard
  <2>2. CASE ExtendExpireUnheard(a)
    <3>1. /\ call[a].conv \in Conversations /\ call[a].ticks \in 1..LockTTL
          /\ lock[call[a].conv] = a /\ call[a].op = "extend"
      BY <2>2 DEF ExtendExpireUnheard
    <3>2. PendingCallOwnsLock'
      BY <2>2 DEF ExtendExpireUnheard
    <3>3. ASSUME NEW b \in Agents, NEW c \in Conversations, lease[b][c] > 0
          PROVE  lease[b][c] <= ttl'[c] \/ (call[b].op = "extend" /\ call[b].conv = c)
      BY <2>2, <3>1, <3>3 DEF ExtendExpireUnheard
    <3> QED
      BY <2>2, <3>2, <3>3 DEF ExtendExpireUnheard
  <2> QED
    BY <1>6, <2>1, <2>2
<1>7. QED
  BY <1>1, <1>2, <1>3, <1>4, <1>5, <1>6 DEF AgentCall

\* One tick under prompt calls.
LEMMA ExpireLocksKeepsLeases ==
    ASSUME PromptCalls, GuardTypeOK, HeldLockExpires, PendingCallOwnsLock,
           LeaseBackedByLock, ExpireLocks
    PROVE  PendingCallOwnsLock' /\ LeaseBackedByLock'
<1> USE GuardAssumption DEF GuardTypeOK, Calls, Idle, ExpireLocks
<1>1. ASSUME NEW a \in Agents, call[a] # Idle
      PROVE  /\ lease[a][call[a].conv] = 0 => lease'[a][call[a].conv] = 0
             /\ lock'[call[a].conv] \in {lock[call[a].conv], NoAgent}
             /\ lock[call[a].conv] = a => lock'[call[a].conv] = a
  BY <1>1 DEF HeldLockExpires, IsConversationLocked
<1>0. PendingCallOwnsLock'
  BY <1>1 DEF PendingCallOwnsLock
<1>2. ASSUME NEW a \in Agents, NEW c \in Conversations, lease'[a][c] > 0
      PROVE  /\ lock'[c] = a
             /\ lease'[a][c] <= ttl'[c] \/ (call'[a].op = "extend" /\ call'[a].conv = c)
  <2>1. /\ lease[a][c] \in Nat /\ lease[a][c] > 1 /\ lease'[a][c] = lease[a][c] - 1
        /\ call' = call /\ ttl[c] \in Nat
    BY <1>2
  <2>2. lock[c] = a /\ IsConversationLocked(c) /\ ttl[c] > 0
    BY <2>1, GuardAssumption DEF LeaseBackedByLock, HeldLockExpires, IsConversationLocked
  <2>3. CASE lease[a][c] <= ttl[c]
    BY <2>1, <2>2, <2>3
  <2>4. CASE call[a].op = "extend" /\ call[a].conv = c
    <3>1. call[a] # Idle
      BY <2>4
    <3>2. ttl[c] # 1
      BY <2>2, <2>4, <3>1
    <3> QED
      BY <2>1, <2>2, <2>4, <3>2
  <2> QED
    BY <2>1, <2>3, <2>4 DEF LeaseBackedByLock
<1>3. QED
  BY <1>0, <1>2 DEF LeaseBackedByLock

\* GuardInv is an invariant of the service.
THEOREM GuardInvariant == GuardSpec => []GuardInv
<1>1. GuardInit => GuardInv
  BY GuardAssumption
     DEF GuardInit, GuardInv, GuardTypeOK, Calls, Idle, HeldLockExpires,
         IsConversationLocked, PendingCallOwnsLock, LeaseBackedByLock
<1>2. GuardInv /\ [GuardNext]_guardVars => GuardInv'
  <2> SUFFICES ASSUME GuardInv, [GuardNext]_guardVars
               PROVE  GuardInv'
    OBVIOUS
  <2>1. ASSUME NEW a \in Agents, AgentCall(a)
        PROVE  GuardInv'
    BY <2>1, AgentCallTypeOK, AgentCallHeldLockExpires, AgentCallKeepsLeases
       DEF GuardInv
  <2>2. CASE ExpireLocks
    BY <2>2, ExpireLocksTypeOK, ExpireLocksHeldLockExpires, ExpireLocksKeepsLeases
       DEF GuardInv
  <2>3. CASE UNCHANGED guardVars
    BY <2>3 DEF guardVars, GuardInv, GuardTypeOK, HeldLockExpires,
                IsConversationLocked, PendingCallOwnsLock, LeaseBackedByLock
  <2>4. QED
    BY <2>1, <2>2, <2>3 DEF GuardNext
<1>3. QED
  BY <1>1, <1>2, PTL DEF GuardSpec

\* The lock state is well-typed: in particular no time to live exceeds LockTTL.
THEOREM GuardTypeCorrect == GuardSpec => []GuardTypeOK
<1>1. GuardInv => GuardTypeOK
  BY DEF GuardInv
<1>2. QED
  BY <1>1, GuardInvariant, PTL

\* Whatever the agents do, and however late their commands arrive, a lock that
\* is held will expire.
THEOREM LocksExpire == GuardSpec => []HeldLockExpires
<1>1. GuardInv => HeldLockExpires
  BY DEF GuardInv
<1>2. QED
  BY <1>1, GuardInvariant, PTL

\* If no lock expires or is taken while its owner's call is under way, two agents
\* never rely on the same conversation.
THEOREM LeasesExclusive ==
    ASSUME PromptCalls
    PROVE  GuardSpec => []LeaseExclusive
<1>1. GuardInv => LeaseExclusive
  BY PromptCalls DEF GuardInv, LeaseBackedByLock, LeaseExclusive
<1>2. QED
  BY <1>1, GuardInvariant, PTL

\* Under the same condition a release deletes its caller's lock only.
THEOREM OnlyOwnersRelease ==
    ASSUME PromptCalls
    PROVE  GuardSpec => OwnerOnlyReleases
<1>1. GuardInv /\ [GuardNext]_guardVars
        => [\A a \in Agents :
               call[a].op = "release" /\ call'[a] = Idle
                   => lock[call[a].conv] \in {a, NoAgent}]_guardVars
  BY PromptCalls DEF GuardInv, PendingCallOwnsLock, Idle
<1>2. QED
  BY <1>1, GuardInvariant, PTL DEF GuardSpec, OwnerOnlyReleases
=============================================================================
