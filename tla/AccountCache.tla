---------------------------- MODULE AccountCache ----------------------------
(***************************************************************************)
(* Which WhatsApp number belongs to whom.  The webhook asks for the account *)
(* of the number a message came in on: first the cache in Redis, then the   *)
(* table, whose answer it caches for five minutes.  The tenant's settings   *)
(* change the row and delete the keys afterwards.  Between an answer and    *)
(* its caching, and between a change and its deletions, the others go on.   *)
(***************************************************************************)
EXTENDS Integers

CONSTANTS
    Accounts,    \* ids of rows, of any tenants; an id is given out once
    Phones,      \* metaPhoneNumberId
    Lookups,     \* webhook calls that may overlap
    Calls,       \* calls of WhatsappAccountsService that may overlap
    NoNumber,        \* no account, no number
    TTL,         \* WHATSAPP_PHONE_CACHE_TTL_SEC, in ticks
    MaxFill,     \* ticks from the answer of the table to the SET
    RedisFails   \* commands to Redis may fail

ASSUME AccountAssumption ==
    /\ NoNumber \notin Accounts
    /\ NoNumber \notin Phones
    /\ TTL \in Nat \ {0}
    /\ MaxFill \in Nat
    /\ RedisFails \in BOOLEAN

VARIABLES
    accountRow,     \* accountRow[a]: the row of whatsapp_accounts
    cache,   \* cache[p]: the key wa:p, and the time it has left
    look,    \* look[l]: a call of resolveAccountByPhoneNumberId
    call,    \* call[c]: a call of updateForTenant or removeForTenant
    accountPast     \* what the properties remember

accountVars == <<accountRow, cache, look, call, accountPast>>

AccountRow == [state : {"unborn", "alive", "deleted"}, phone : Phones \cup {NoNumber},
               active : BOOLEAN]
KeyType == [account : Accounts \cup {NoNumber}, left : 0..TTL]
LookupType ==
    [pc : {"idle", "missed", "found", "routed"}, phone : Phones \cup {NoNumber},
     account : Accounts \cup {NoNumber},
     wait : 0..MaxFill]            \* ticks since the answer of the table
CallType ==
    [pc : {"idle", "found", "del_old", "del_new"}, account : Accounts \cup {NoNumber},
     old : Phones \cup {NoNumber}, new : Phones \cup {NoNumber}]
Reasons == {"del failed", "late fill", "overlapping updates"}

\* An account serves a number: its row has it and is active.
Active(r, p) == r.state = "alive" /\ r.phone = p /\ r.active
Serves(a, p) == Active(accountRow[a], p)

Longest == TTL + MaxFill + 1

AccountTypeOK ==
    /\ accountRow \in [Accounts -> AccountRow]
    /\ cache \in [Phones -> KeyType]
    /\ look \in [Lookups -> LookupType]
    /\ call \in [Calls -> CallType]
    \* gone: ticks since the account served the number, Longest for more.
    \* reasons: how the key came to hold an account that does not serve it.
    /\ accountPast \in [gone : [Accounts -> [Phones -> 0..Longest]],
                        reasons : [Phones -> SUBSET Reasons]]
    \* What has begun has its operands.
    /\ \A a \in Accounts : accountRow[a].state = "alive" => accountRow[a].phone # NoNumber
    /\ \A l \in Lookups : look[l].pc # "idle" => look[l].phone # NoNumber
    /\ \A l \in Lookups : look[l].pc \in {"found", "routed"} => look[l].account # NoNumber
    /\ \A c \in Calls : call[c].pc # "idle" => call[c].account # NoNumber /\ call[c].old # NoNumber
    /\ \A c \in Calls : call[c].pc \in {"del_old", "del_new"} => call[c].new # NoNumber
    \* Numbers are unique.
    /\ \A a, b \in Accounts :
           accountRow[a].state = "alive" /\ accountRow[b].state = "alive" /\ accountRow[a].phone = accountRow[b].phone
                      => a = b

NoKey == [account |-> NoNumber, left |-> 0]
NoLookup == [pc |-> "idle", phone |-> NoNumber, account |-> NoNumber, wait |-> 0]
NoCall == [pc |-> "idle", account |-> NoNumber, old |-> NoNumber, new |-> NoNumber]

AccountInit ==
    /\ accountRow = [a \in Accounts |-> [state |-> "unborn", phone |-> NoNumber, active |-> FALSE]]
    /\ cache = [p \in Phones |-> NoKey]
    /\ look = [l \in Lookups |-> NoLookup]
    /\ call = [c \in Calls |-> NoCall]
    /\ accountPast = [gone |-> [a \in Accounts |-> [p \in Phones |-> Longest]],
                      reasons |-> [p \in Phones |-> {}]]

Free(p) == \A a \in Accounts : accountRow[a].state = "alive" => accountRow[a].phone # p

\* The row of a becomes r; the number it served until now is remembered.
RowBecomes(a, r, reasons) ==
    /\ accountRow' = [accountRow EXCEPT ![a] = r]
    /\ accountPast' = [gone |-> [accountPast.gone EXCEPT ![a] = [p \in Phones |->
                            IF Serves(a, p) \/ Active(r, p) THEN 0 ELSE accountPast.gone[a][p]]],
                       reasons |-> reasons]

-----------------------------------------------------------------------------
(* resolveAccountByPhoneNumberId *)

\* Mutant of CacheGet: a key that is read gets its five minutes again.
CacheGetRenewing(l, p) ==
    /\ look[l].pc \in {"idle", "routed"}
    /\ look' = [look EXCEPT ![l] =
           [pc |-> IF cache[p].account = NoNumber THEN "missed" ELSE "routed", phone |-> p,
            account |-> cache[p].account, wait |-> 0]]
    /\ cache' = IF cache[p].account = NoNumber THEN cache
                ELSE [cache EXCEPT ![p].left = TTL]
    /\ UNCHANGED <<accountRow, call, accountPast>>

\* The key is read.  An account in it is the answer; an error is a miss.
CacheGet(l, p) ==
    /\ look[l].pc \in {"idle", "routed"}
    /\ \E a \in {cache[p].account} \cup IF RedisFails THEN {NoNumber} ELSE {} :
           look' = [look EXCEPT ![l] =
               [pc |-> IF a = NoNumber THEN "missed" ELSE "routed", phone |-> p,
                account |-> a, wait |-> 0]]
    /\ UNCHANGED <<accountRow, cache, call, accountPast>>

\* The table is asked.  Without an active account the message is dropped.
FindAccount(l) ==
    /\ look[l].pc = "missed"
    /\ IF \E a \in Accounts : Serves(a, look[l].phone)
       THEN \E a \in Accounts :
               /\ Serves(a, look[l].phone)
               /\ look' = [look EXCEPT ![l].pc = "found", ![l].account = a]
       ELSE look' = [look EXCEPT ![l] = NoLookup]
    /\ UNCHANGED <<accountRow, cache, call, accountPast>>

\* The account is cached, or not, and the message goes to it.
CacheSet(l) ==
    LET p == look[l].phone
        a == look[l].account
    IN  /\ look[l].pc = "found"
        /\ look' = [look EXCEPT ![l].pc = "routed", ![l].wait = 0]
        /\ \/ /\ cache' = [cache EXCEPT ![p] = [account |-> a, left |-> TTL]]
              /\ accountPast' = [accountPast EXCEPT !.reasons[p] =
                     IF Serves(a, p) THEN {} ELSE {"late fill"}]
           \/ RedisFails /\ UNCHANGED <<cache, accountPast>>
        /\ UNCHANGED <<accountRow, call>>

ResolveAccountByPhoneNumberId(l) ==
    \/ \E p \in Phones : CacheGet(l, p)
    \/ FindAccount(l)
    \/ CacheSet(l)

-----------------------------------------------------------------------------
(* WhatsappAccountsService *)

\* Mutant of CreateForTenant: the number may be somebody else's.
CreateForTenantTaken(a, p) ==
    /\ accountRow[a].state = "unborn"
    /\ RowBecomes(a, [state |-> "alive", phone |-> p, active |-> TRUE],
                  accountPast.reasons)
    /\ UNCHANGED <<cache, look, call>>

\* createForTenant, and createWhatsappAccount of the administration: numbers are
\* unique, and no key is touched.
CreateForTenant(a, p) ==
    /\ accountRow[a].state = "unborn"
    /\ Free(p)
    /\ RowBecomes(a, [state |-> "alive", phone |-> p, active |-> TRUE],
                  accountPast.reasons)
    /\ UNCHANGED <<cache, look, call>>

\* Both calls begin with the row and the number it has.
FindFirst(c, a) ==
    /\ call[c].pc = "idle"
    /\ accountRow[a].state = "alive"
    /\ call' = [call EXCEPT ![c] = [pc |-> "found", account |-> a, old |-> accountRow[a].phone,
                                    new |-> NoNumber]]
    /\ UNCHANGED <<accountRow, cache, look, accountPast>>

\* The row is not there any more, or the number is taken: the call throws.
RefusedCall(c, p) ==
    \/ accountRow[call[c].account].state # "alive"
    \/ ~Free(p) /\ accountRow[call[c].account].phone # p

Refuse(c) ==
    /\ call[c].pc = "found"
    /\ \E p \in Phones : RefusedCall(c, p)
    /\ call' = [call EXCEPT ![c] = NoCall]
    /\ UNCHANGED <<accountRow, cache, look, accountPast>>

\* A key whose account stops serving the number with no deletion in sight.
Overlooked(c, p) ==
    LET a == call[c].account
    IN  IF /\ cache[accountRow[a].phone].account = a
           /\ accountRow[a].phone \notin {call[c].old, p}
        THEN [accountPast.reasons EXCEPT ![accountRow[a].phone] = @ \cup {"overlapping updates"}]
        ELSE accountPast.reasons

\* The row is updated by its id: the number, the status, both, or neither.
Update(c, p, active) ==
    LET a == call[c].account
    IN  /\ call[c].pc = "found"
        /\ ~RefusedCall(c, p)
        /\ RowBecomes(a, [state |-> "alive", phone |-> p, active |-> active],
                      Overlooked(c, p))
        /\ call' = [call EXCEPT ![c].pc = "del_old", ![c].new = p]
        /\ UNCHANGED <<cache, look>>

Delete(c) ==
    LET a == call[c].account
    IN  /\ call[c].pc = "found"
        /\ accountRow[a].state = "alive"
        /\ RowBecomes(a, [state |-> "deleted", phone |-> NoNumber, active |-> FALSE],
                      Overlooked(c, call[c].old))
        /\ call' = [call EXCEPT ![c].pc = "del_old", ![c].new = call[c].old]
        /\ UNCHANGED <<cache, look>>

\* The key is deleted, or the command fails and the key stays.
Del(p) ==
    \/ /\ cache' = [cache EXCEPT ![p] = NoKey]
       /\ accountPast' = [accountPast EXCEPT !.reasons[p] = {}]
    \/ /\ RedisFails
       /\ accountPast' = [accountPast EXCEPT !.reasons[p] =
              IF cache[p].account = NoNumber THEN {} ELSE @ \cup {"del failed"}]
       /\ UNCHANGED cache

\* The key of the number the row had when it was found.
DelOld(c) ==
    /\ call[c].pc = "del_old"
    /\ Del(call[c].old)
    /\ call' = [call EXCEPT ![c] =
           IF call[c].new = call[c].old THEN NoCall ELSE [@ EXCEPT !.pc = "del_new"]]
    /\ UNCHANGED <<accountRow, look>>

\* The key of the number it has now, if that is another.
DelNew(c) ==
    /\ call[c].pc = "del_new"
    /\ Del(call[c].new)
    /\ call' = [call EXCEPT ![c] = NoCall]
    /\ UNCHANGED <<accountRow, look>>

UpdateForTenant(c) ==
    \/ \E a \in Accounts : FindFirst(c, a)
    \/ Refuse(c)
    \/ \E p \in Phones, active \in BOOLEAN : Update(c, p, active)
    \/ DelOld(c)
    \/ DelNew(c)

RemoveForTenant(c) == Delete(c)

-----------------------------------------------------------------------------
\* Time passes, and keys expire; a lookup does not dwell on its answer for more
\* than MaxFill ticks, and a message that was routed is on its way.
AccountTick ==
    /\ \A l \in Lookups : look[l].pc = "found" => look[l].wait < MaxFill
    /\ look' = [l \in Lookups |->
           CASE look[l].pc = "found" -> [look[l] EXCEPT !.wait = @ + 1]
             [] look[l].pc = "routed" -> NoLookup
             [] OTHER -> look[l]]
    /\ cache' = [p \in Phones |->
           IF cache[p].left <= 1 THEN NoKey ELSE [cache[p] EXCEPT !.left = @ - 1]]
    /\ accountPast' = [gone |-> [a \in Accounts |-> [p \in Phones |->
                    IF Serves(a, p) THEN 0
                    ELSE IF accountPast.gone[a][p] = Longest THEN Longest
                    ELSE accountPast.gone[a][p] + 1]],
                       reasons |-> [p \in Phones |->
                           IF cache[p].left <= 1 THEN {} ELSE accountPast.reasons[p]]]
    /\ UNCHANGED <<accountRow, call>>

AccountNext ==
    \/ \E l \in Lookups : ResolveAccountByPhoneNumberId(l)
    \/ \E a \in Accounts, p \in Phones : CreateForTenant(a, p)
    \/ \E c \in Calls : UpdateForTenant(c) \/ RemoveForTenant(c)
    \/ AccountTick

AccountSpec == AccountInit /\ [][AccountNext]_accountVars

-----------------------------------------------------------------------------
\* However calls and failures overlap, a message that is routed goes to an account
\* that served its number at most the life of a key, and the caching of an
\* answer, ago: to nobody who never had the number, and to nobody for longer.
StaleRoutesBounded ==
    \A l \in Lookups :
        look[l].pc = "routed" =>
            accountPast.gone[look[l].account][look[l].phone] <= TTL + MaxFill

\* A call will delete the key.
WillDelete(p) ==
    \E c \in Calls : \/ call[c].pc = "del_old" /\ p \in {call[c].old, call[c].new}
                     \/ call[c].pc = "del_new" /\ p = call[c].new

\* A key that points to an account which does not serve the number is about to be
\* deleted, or one of three things has happened: its deletion failed, it was
\* filled with an answer from before the change, or updates of one account overlapped.
StaleKeysExplained ==
    \A p \in Phones :
        cache[p].account # NoNumber /\ ~Serves(cache[p].account, p)
            => accountPast.reasons[p] # {} \/ WillDelete(p)

\* How far the cached account of a number and the row may disagree: what is routed
\* by it, and why it is there (whatsapp-webhook.service.ts, whatsapp-accounts.service.ts).
RoutesSafe ==
    /\ StaleRoutesBounded
    /\ StaleKeysExplained
=============================================================================
