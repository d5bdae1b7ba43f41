--------------------------- MODULE CollisionGuard ---------------------------
(***************************************************************************)
(* The conversation lock of collision-guard.service.ts on top of           *)
(* cache.service.ts: one Redis key per conversation, whose value is the    *)
(* agent that took it and which expires by itself.  tryLockConversation is *)
(* a single SET NX EX.  releaseLock and extendLock are each TWO Redis      *)
(* commands with an await between them (GET, then DEL or EXPIRE), so each  *)
(* is two actions here and anything may happen in between.                 *)
(*                                                                         *)
(* Time is counted in ticks.  Calls that end without changing Redis (lock  *)
(* taken, not the owner, a first command that fails) are the stuttering    *)
(* steps of the model.  Without REDIS_URL, or with QUEUES_DISABLED, the    *)
(* service answers true to everything and there is no lock to speak of;    *)
(* that mode is not modelled.                                              *)
(***************************************************************************)
EXTENDS Integers

CONSTANTS
    Conversations,  \* conversations that can be locked
    Agents,         \* agents that call the service
    NoAgent,        \* value of a lock nobody holds (the key is absent)
    LockTTL,        \* ttlSeconds (30 s), in ticks; no extension is longer
    PromptCalls,    \* TRUE: no lock expires, and none is taken, while a release
                    \* or extension its owner has started is under way
    RedisFaults     \* TRUE: a command to Redis may fail or go unanswered

ASSUME GuardAssumption ==
    /\ NoAgent \notin Agents
    /\ LockTTL \in Nat \ {0}
    /\ PromptCalls \in BOOLEAN
    /\ RedisFaults \in BOOLEAN

VARIABLES
    lock,   \* lock[c]: the value stored under lock:conversation:<c>
    ttl,    \* ttl[c]: ticks until Redis drops that key
    lease,  \* lease[a][c]: ticks for which a may rely on its last "true" answer
    call    \* call[a]: the release or extension a is in the middle of

guardVars == <<lock, ttl, lease, call>>

Idle == [op |-> "idle"]
Calls == {Idle}
         \cup [op : {"release"}, conv : Conversations]
         \cup [op : {"extend"}, conv : Conversations, ticks : 1..LockTTL]

GuardTypeOK ==
    /\ lock \in [Conversations -> Agents \cup {NoAgent}]
    /\ ttl \in [Conversations -> 0..LockTTL]
    /\ lease \in [Agents -> [Conversations -> 0..LockTTL]]
    /\ call \in [Agents -> Calls]

GuardInit ==
    /\ lock = [c \in Conversations |-> NoAgent]
    /\ ttl = [c \in Conversations |-> 0]
    /\ lease = [a \in Agents |-> [c \in Conversations |-> 0]]
    /\ call = [a \in Agents |-> Idle]

IsConversationLocked(c) == lock[c] # NoAgent

\* What can become of a command: executed and answered, executed without the
\* caller getting to know, or not executed.  CacheService catches the error of
\* the last two and answers false, null or nothing.  A SET NX that is sent again
\* finds the key of its first try, which to the agent is a lost answer.
RedisAnswers == IF RedisFaults THEN {"ok", "unanswered", "failed"} ELSE {"ok"}

\* The assumption of prompt calls, for a lock somebody is about to take.
Untouched(c) == PromptCalls => \A b \in Agents : call[b] # Idle => call[b].conv # c

-----------------------------------------------------------------------------
\* Mutant of TryLockConversation: SET EX without NX takes a lock that is held.
TryLockWithoutNx(a, c) ==
    /\ call[a] = Idle
    /\ lock' = [lock EXCEPT ![c] = a]
    /\ ttl' = [ttl EXCEPT ![c] = LockTTL]
    /\ lease' = [lease EXCEPT ![a][c] = LockTTL]
    /\ UNCHANGED call

\* Mutant of TryLockConversation: SETNX, and the EXPIRE after it never arrives.
TryLockWithoutExpiry(a, c) ==
    /\ call[a] = Idle
    /\ lock[c] = NoAgent
    /\ lock' = [lock EXCEPT ![c] = a]
    /\ lease' = [lease EXCEPT ![a][c] = LockTTL]
    /\ UNCHANGED <<ttl, call>>

\* tryLockConversation: SET key agent EX ttl NX finds no key.  When its answer
\* is lost the agent is told false and holds the lock all the same.
TryLockConversation(a, c) ==
    /\ call[a] = Idle /\ Untouched(c)
    /\ lock[c] = NoAgent
    /\ lock' = [lock EXCEPT ![c] = a]
    /\ ttl' = [ttl EXCEPT ![c] = LockTTL]
    /\ \E r \in RedisAnswers \ {"failed"} :
           lease' = [lease EXCEPT ![a][c] = IF r = "ok" THEN LockTTL ELSE 0]
    /\ UNCHANGED call

\* Mutant of ReleaseGet: the owner is not compared with the caller.
ReleaseGetUnchecked(a, c) ==
    /\ call[a] = Idle
    /\ lock[c] # NoAgent
    /\ call' = [call EXCEPT ![a] = [op |-> "release", conv |-> c]]
    /\ lease' = [lease EXCEPT ![a][c] = 0]
    /\ UNCHANGED <<lock, ttl>>

\* releaseLock up to its first await: GET answers the caller's own name.  The
\* agent that asks for the release no longer relies on the lock.
ReleaseGet(a, c) ==
    /\ call[a] = Idle
    /\ lock[c] = a
    /\ call' = [call EXCEPT ![a] = [op |-> "release", conv |-> c]]
    /\ lease' = [lease EXCEPT ![a][c] = 0]
    /\ UNCHANGED <<lock, ttl>>

\* The rest of releaseLock: DEL, whoever holds the key by now.
ReleaseDel(a) ==
    /\ call[a].op = "release"
    /\ \E r \in RedisAnswers :
           IF r = "failed" THEN UNCHANGED <<lock, ttl>>
           ELSE /\ lock' = [lock EXCEPT ![call[a].conv] = NoAgent]
                /\ ttl' = [ttl EXCEPT ![call[a].conv] = 0]
    /\ call' = [call EXCEPT ![a] = Idle]
    /\ UNCHANGED lease

\* ioredis sends a command again whose answer it did not get: a DEL that was
\* carried out unheard is still under way.
ReleaseDelUnheard(a) ==
    /\ RedisFaults
    /\ call[a].op = "release"
    /\ lock' = [lock EXCEPT ![call[a].conv] = NoAgent]
    /\ ttl' = [ttl EXCEPT ![call[a].conv] = 0]
    /\ UNCHANGED <<lease, call>>

\* extendLock up to its first await; n is max(1, floor(seconds)).
ExtendGet(a, c, n) ==
    /\ call[a] = Idle
    /\ lock[c] = a
    /\ call' = [call EXCEPT ![a] = [op |-> "extend", conv |-> c, ticks |-> n]]
    /\ UNCHANGED <<lock, ttl, lease>>

\* Mutant of ExtendExpire: the seconds are added to the time that is left.
ExtendAdds(a) ==
    /\ call[a].op = "extend"
    /\ ttl' = [ttl EXCEPT ![call[a].conv] = @ + call[a].ticks]
    /\ lease' = [lease EXCEPT ![a][call[a].conv] = @ + call[a].ticks]
    /\ call' = [call EXCEPT ![a] = Idle]
    /\ UNCHANGED lock

\* The rest of extendLock: EXPIRE answers 1 when the key exists, whoever owns
\* it, and 0 when it has gone.  An agent that is told false stops relying on
\* the lock.
ExtendExpire(a) ==
    LET c == call[a].conv
        n == call[a].ticks
    IN  /\ call[a].op = "extend"
        /\ \E r \in RedisAnswers :
               IF r = "failed" \/ ~IsConversationLocked(c)
               THEN /\ lease' = [lease EXCEPT ![a][c] = 0]
                    /\ UNCHANGED ttl
               ELSE /\ ttl' = [ttl EXCEPT ![c] = n]
                    /\ lease' = [lease EXCEPT ![a][c] = IF r = "ok" THEN n ELSE 0]
        /\ call' = [call EXCEPT ![a] = Idle]
        /\ UNCHANGED lock

\* An EXPIRE that was carried out unheard and is sent again.
ExtendExpireUnheard(a) ==
    /\ RedisFaults
    /\ call[a].op = "extend"
    /\ IsConversationLocked(call[a].conv)
    /\ ttl' = [ttl EXCEPT ![call[a].conv] = call[a].ticks]
    /\ UNCHANGED <<lock, lease, call>>

\* One tick: Redis drops the keys whose time is up.
ExpireLocks ==
    /\ PromptCalls => \A a \in Agents :
           call[a] # Idle => ~(lock[call[a].conv] = a /\ ttl[call[a].conv] = 1)
    /\ lock' = [c \in Conversations |-> IF ttl[c] <= 1 THEN NoAgent ELSE lock[c]]
    /\ ttl' = [c \in Conversations |-> IF ttl[c] = 0 THEN 0 ELSE ttl[c] - 1]
    /\ lease' = [a \in Agents |-> [c \in Conversations |->
                    IF lease[a][c] = 0 THEN 0 ELSE lease[a][c] - 1]]
    /\ UNCHANGED call

AgentCall(a) ==
    \/ \E c \in Conversations :
           \/ TryLockConversation(a, c)
           \/ ReleaseGet(a, c)
           \/ \E n \in 1..LockTTL : ExtendGet(a, c, n)
    \/ ReleaseDel(a)
    \/ ReleaseDelUnheard(a)
    \/ ExtendExpire(a)
    \/ ExtendExpireUnheard(a)

GuardNext == ExpireLocks \/ \E a \in Agents : AgentCall(a)

GuardSpec == GuardInit /\ [][GuardNext]_guardVars

-----------------------------------------------------------------------------
(* Properties *)

\* A lock that is held expires: SET carries the expiry, and neither a release
\* nor an extension by anybody ever leaves a key without one, so an agent that
\* disappears cannot silence a conversation for ever.
HeldLockExpires ==
    \A c \in Conversations : IsConversationLocked(c) => ttl[c] > 0

\* What the lock is for: two agents never rely on the same conversation at the
\* same time, through every order of the commands of their calls.
LeaseExclusive ==
    \A a, b \in Agents, c \in Conversations :
        lease[a][c] > 0 /\ lease[b][c] > 0 => a = b

\* A releaseLock that gets as far as DEL deletes the caller's own lock and
\* nobody else's ("wrong agent released the lock", test-collision.js:52).
OwnerOnlyReleases ==
    [][\A a \in Agents :
          call[a].op = "release" /\ call'[a] = Idle
              => lock[call[a].conv] \in {a, NoAgent}]_guardVars
=============================================================================
