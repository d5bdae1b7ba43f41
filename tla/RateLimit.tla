----------------------------- MODULE RateLimit -----------------------------
(***************************************************************************)
(* The limit on a tenant's traffic: WhatsappService counts every message it *)
(* is asked to send, the webhook every message that comes in, in a counter  *)
(* per tenant, kind and minute.  The counters are Redis's (INCR, then       *)
(* EXPIRE by whoever got 1), or the process's own when there is no Redis or *)
(* a command of it fails.  What WhatsappService refuses or fails to queue   *)
(* is logged and forgotten; WhatsappSend models what becomes of the rest.   *)
(***************************************************************************)
EXTENDS Naturals, FiniteSets

CONSTANTS
    Tenants,
    NoTenant,      \* not known yet
    Calls,         \* messages, in and out, each handled once
    MaxOf,         \* MaxOf[kind]: webhookPerMinute, outboundPerMinute
    WindowTicks,   \* windowSec, in ticks
    TtlTicks,      \* windowSec + 5, in ticks
    MaxNow,        \* bound of the model: time
    MaxFaults,     \* bound of the model: commands of Redis that go wrong
    MaxCrashes     \* bound of the model: crashes of the process

Kinds == {"webhook", "outbound"}

ASSUME LimitAssumption ==
    /\ IsFiniteSet(Tenants) /\ IsFiniteSet(Calls)
    /\ NoTenant \notin Tenants
    /\ MaxOf \in [Kinds -> Nat]
    /\ WindowTicks \in Nat \ {0}
    /\ TtlTicks \in Nat /\ TtlTicks > WindowTicks
    /\ MaxNow \in Nat /\ MaxFaults \in Nat /\ MaxCrashes \in Nat

VARIABLES
    enabled,   \* REDIS_URL is set
    counter,   \* counter[key]: Redis
    memIncr,   \* memIncr[key]: the memory of the process
    call,      \* call[k]: one message
    now,
    faults,    \* commands of Redis that went wrong so far
    resent,    \* resent[key]: INCRs the client has sent a second time
    crashes

limitVars == <<enabled, counter, memIncr, call, now, faults, resent, crashes>>

Slots == 0..(MaxNow \div WindowTicks)
Slot == now \div WindowTicks
Keys == Kinds \X Tenants \X Slots

Never == 0    \* no expiry

CountType == [n : Nat, exp : Nat]
NoCount == [n |-> 0, exp |-> Never]

CallType ==
    [pc : {"idle", "resolve", "incr", "expire", "allowed", "handled", "queued",
           "blocked", "dropped", "thrown", "dead"},
     message : {"none", "webhook", "message", "carousel"},
     tenant : Tenants \cup {NoTenant},
     counted : BOOLEAN,        \* it has come as far as the limit
     passed : BOOLEAN,         \* tryConsume returned true
     slot : Slots]             \* the minute in which it came to the limit

KindOf(c) == IF c.message = "webhook" THEN "webhook" ELSE "outbound"

\* rl:tenant:<kind>:<tenantId>:<slot>
KeyOf(c) == <<KindOf(c), c.tenant, c.slot>>

RateLimitTypeOK ==
    /\ enabled \in BOOLEAN
    /\ counter \in [Keys -> CountType]
    /\ memIncr \in [Keys -> CountType]
    /\ call \in [Calls -> CallType]
    /\ now \in 0..MaxNow
    /\ faults \in 0..MaxFaults
    /\ resent \in [Keys -> Nat]
    /\ crashes \in 0..MaxCrashes
    \* The counter somebody is about to give an expiry exists and has none.
    /\ \A k \in Calls : call[k].pc = "expire" =>
           counter[KeyOf(call[k])].n > 0 /\ counter[KeyOf(call[k])].exp = Never

NoCall == [pc |-> "idle", message |-> "none", tenant |-> NoTenant,
           counted |-> FALSE, passed |-> FALSE, slot |-> 0]

LimitInit ==
    /\ enabled \in BOOLEAN
    /\ counter = [key \in Keys |-> NoCount]
    /\ memIncr = [key \in Keys |-> NoCount]
    /\ call = [k \in Calls |-> NoCall]
    /\ now = 0
    /\ faults = 0
    /\ resent = [key \in Keys |-> 0]
    /\ crashes = 0

----------------------------------------------------------------------------
(* tryConsume and incrWithTtl *)

\* tryConsume asks for the counter of the minute it is called in.
ToTheLimit(c) == [c EXCEPT !.pc = "incr", !.counted = TRUE, !.slot = Slot]

\* Mutant of Allowed: the message that is one too many gets through.
AllowedOneMore(kind, n) == n <= MaxOf[kind] + 1

Allowed(kind, n) == n <= MaxOf[kind]

\* What follows n: a message that comes in is handled, one that goes out is
\* queued if it is ready for that, one that is over the limit is forgotten.
Settled(c, n, ready) ==
    IF ~Allowed(KindOf(c), n) THEN [c EXCEPT !.pc = "blocked"]
    ELSE [c EXCEPT !.passed = TRUE,
                   !.pc = CASE c.message = "webhook" -> "handled"
                            [] c.message # "webhook" /\ ready -> "allowed"
                            [] OTHER -> "dropped"]

\* memIncrWithTtl: a row whose time is over starts again.
MemRow(key) ==
    IF memIncr[key].n = 0 \/ memIncr[key].exp <= now
    THEN [n |-> 1, exp |-> now + TtlTicks]
    ELSE [memIncr[key] EXCEPT !.n = @ + 1]

MemIncrWithTtl(k, ready) ==
    LET key == KeyOf(call[k]) IN
    /\ memIncr' = [memIncr EXCEPT ![key] = MemRow(key)]
    /\ call' = [call EXCEPT ![k] = Settled(call[k], MemRow(key).n, ready)]

Added(key) == [counter EXCEPT ![key].n = @ + 1]

Incr(k, ready) ==
    LET key == KeyOf(call[k]) IN
    /\ call[k].pc = "incr" /\ enabled
    /\ counter' = Added(key)
    /\ call' = [call EXCEPT ![k] = IF counter[key].n = 0
                                   THEN [call[k] EXCEPT !.pc = "expire"]
                                   ELSE Settled(call[k], counter[key].n + 1, ready)]
    /\ UNCHANGED <<enabled, memIncr, now, faults, resent, crashes>>

\* The connection breaks after Redis has counted, and the client, once it is
\* connected again, sends the command again.
IncrSentAgain(k) ==
    /\ call[k].pc = "incr" /\ enabled
    /\ faults < MaxFaults
    /\ faults' = faults + 1
    /\ counter' = Added(KeyOf(call[k]))
    /\ resent' = [resent EXCEPT ![KeyOf(call[k])] = @ + 1]
    /\ UNCHANGED <<enabled, memIncr, call, now, crashes>>

\* INCR fails, counted or not: the process counts for itself.
IncrFails(k, ready) ==
    /\ call[k].pc = "incr" /\ enabled
    /\ faults < MaxFaults
    /\ faults' = faults + 1
    /\ counter' \in {counter, Added(KeyOf(call[k]))}
    /\ MemIncrWithTtl(k, ready)
    /\ UNCHANGED <<enabled, now, resent, crashes>>

Expiring(key) == [counter EXCEPT ![key].exp = now + TtlTicks]

Expire(k, ready) ==
    /\ call[k].pc = "expire"
    /\ counter' = Expiring(KeyOf(call[k]))
    /\ call' = [call EXCEPT ![k] = Settled(call[k], 1, ready)]
    /\ UNCHANGED <<enabled, memIncr, now, faults, resent, crashes>>

\* EXPIRE fails, done or not: the process counts what Redis has counted.
ExpireFails(k, ready) ==
    /\ call[k].pc = "expire"
    /\ faults < MaxFaults
    /\ faults' = faults + 1
    /\ counter' \in {counter, Expiring(KeyOf(call[k]))}
    /\ MemIncrWithTtl(k, ready)
    /\ UNCHANGED <<enabled, now, resent, crashes>>

\* No REDIS_URL.
IncrInMemory(k, ready) ==
    /\ call[k].pc = "incr" /\ ~enabled
    /\ MemIncrWithTtl(k, ready)
    /\ UNCHANGED <<enabled, counter, now, faults, resent, crashes>>

TryConsume(k, ready) ==
    \/ Incr(k, ready)
    \/ IncrSentAgain(k)
    \/ IncrFails(k, ready)
    \/ Expire(k, ready)
    \/ ExpireFails(k, ready)
    \/ IncrInMemory(k, ready)

----------------------------------------------------------------------------
(* The callers *)

CallStep(k, c) ==
    /\ call' = [call EXCEPT ![k] = c]
    /\ UNCHANGED <<enabled, counter, memIncr, now, faults, resent, crashes>>

\* handleOneMessage: the message of a tenant whose number is known.
HandleOneMessage(k) ==
    \/ /\ call[k].pc = "idle"
       /\ \E t \in Tenants :
              CallStep(k, ToTheLimit([NoCall EXCEPT !.message = "webhook", !.tenant = t]))
    \/ call[k].message = "webhook" /\ TryConsume(k, TRUE)

\* resolveTenantForSend: the number is active and t's (who the caller says it
\* is does not matter), or it is not active, or the database fails.
ResolveTenantForSend(k) ==
    /\ call[k].pc = "resolve"
    /\ \E t \in Tenants : CallStep(k, ToTheLimit([call[k] EXCEPT !.tenant = t]))
       \/ CallStep(k, [call[k] EXCEPT !.pc = "dropped"])
       \/ CallStep(k, [call[k] EXCEPT !.pc = "thrown"])

\* sendProducer.enqueue..., an error of which is logged.
EnqueueJob(k) ==
    /\ call[k].pc = "allowed"
    /\ CallStep(k, [call[k] EXCEPT !.pc = "queued"])
       \/ CallStep(k, [call[k] EXCEPT !.pc = "dropped"])

\* The part the five senders share.  message: what the limit makes of it, and
\* ready: there is something to queue.
Send(k, message, ready) ==
    \/ /\ call[k].pc = "idle"
       /\ CallStep(k, [NoCall EXCEPT !.pc = "resolve", !.message = message])
    \/ /\ call[k].message = message
       /\ ResolveTenantForSend(k) \/ TryConsume(k, ready) \/ EnqueueJob(k)

SendTextMessage(k) == Send(k, "message", TRUE)
SendImageMessage(k) == Send(k, "message", TRUE)
SendVideoMessage(k) == Send(k, "message", TRUE)

\* Whether a catalog is configured and a product is left is looked at when the
\* message has been counted.
SendProductCarousel(k) == \E ready \in BOOLEAN : Send(k, "carousel", ready)

SendInteractiveButtons(k) == Send(k, "message", TRUE)

----------------------------------------------------------------------------

\* Redis removes a key when its time has come.
Expired(count, t) == count.exp # Never /\ count.exp <= t

Tick ==
    /\ now < MaxNow
    /\ now' = now + 1
    /\ counter' = [key \in Keys |-> IF Expired(counter[key], now + 1) THEN NoCount
                                                                      ELSE counter[key]]
    /\ UNCHANGED <<enabled, memIncr, call, faults, resent, crashes>>

\* The process dies with its memory and the messages in its hands.
Crash ==
    /\ crashes < MaxCrashes
    /\ crashes' = crashes + 1
    /\ memIncr' = [key \in Keys |-> NoCount]
    /\ call' = [k \in Calls |-> IF call[k].pc \in {"resolve", "incr", "expire", "allowed"}
                                THEN [call[k] EXCEPT !.pc = "dead"] ELSE call[k]]
    /\ UNCHANGED <<enabled, counter, now, faults, resent>>

LimitNext ==
    \/ \E k \in Calls : \/ HandleOneMessage(k)
                        \/ SendTextMessage(k)
                        \/ SendImageMessage(k)
                        \/ SendVideoMessage(k)
                        \/ SendProductCarousel(k)
                        \/ SendInteractiveButtons(k)
    \/ Tick
    \/ Crash

LimitSpec == LimitInit /\ [][LimitNext]_limitVars

----------------------------------------------------------------------------

\* The messages that were counted for one tenant, kind and minute.
Counted(kind, t, s) ==
    {k \in Calls : /\ call[k].counted
                   /\ KindOf(call[k]) = kind /\ call[k].tenant = t /\ call[k].slot = s}

\* Independent counts there may be of one minute: Redis's, and one of each
\* process that counted for itself.
Counts ==
    IF ~enabled THEN crashes + 1
    ELSE 1 + (IF faults <= crashes THEN faults ELSE crashes + 1)

\* Until the counters of a minute may have expired, no more messages of it get
\* through than the limit, once for every count there is: however the INCRs and
\* EXPIREs of concurrent messages mix, and though a message may be counted long
\* after its minute.
LimitKept ==
    \A kind \in Kinds, t \in Tenants, s \in Slots :
        now < s * WindowTicks + TtlTicks =>
            Cardinality({k \in Counted(kind, t, s) : call[k].passed}) <= Counts * MaxOf[kind]

\* A message is refused only for more messages of its own tenant, kind and
\* minute than the limit, commands sent again included.  Messages of numbers
\* that are switched off do not use up the limit.
RefusedForOwnTraffic ==
    \A k \in Calls : call[k].pc = "blocked" =>
        LET kind == KindOf(call[k]) IN
        Cardinality(Counted(kind, call[k].tenant, call[k].slot))
            + resent[<<kind, call[k].tenant, call[k].slot>>] > MaxOf[kind]

\* Counters do not stay in Redis: one that has no expiry is about to get it,
\* unless a command went wrong, which leaves one at most, or the process died.
CountersExpire ==
    crashes = 0 =>
        Cardinality({key \in Keys : /\ counter[key].n > 0 /\ counter[key].exp = Never
                                    /\ ~\E k \in Calls : call[k].pc = "expire"
                                                         /\ KeyOf(call[k]) = key}) <= faults

\* The limit with its counters, among calls that increment at the same time, commands
\* that fail and a process that dies (tenant-rate-limit.service.ts).
LimitSafe ==
    /\ LimitKept
    /\ RefusedForOwnTraffic
    /\ CountersExpire
=============================================================================
