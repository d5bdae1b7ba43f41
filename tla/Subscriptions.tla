---------------------------- MODULE Subscriptions ----------------------------
(***************************************************************************)
(* The administrator's table of tenants: switching a tenant on and off and  *)
(* extending its subscription.  A click sends a request that reads the row  *)
(* and writes it later, and then loads the table again; the buttons of one  *)
(* row at a time are disabled, so requests of several rows, and of several  *)
(* browser tabs, overlap.                                                   *)
(***************************************************************************)
EXTENDS Integers, FiniteSets

CONSTANTS
    Tenants,
    Tabs,        \* browsers that show the administrator's dashboard
    Requests,    \* clicks that may be handled at the same time
    None,        \* no tenant, no tab
    Period,      \* SUBSCRIPTION_DAYS
    MaxDay,      \* bound of the clock
    MaxChanges   \* bound of the changes of tenants

ASSUME SubscriptionAssumption ==
    /\ None \notin Tenants
    /\ None \notin Tabs
    /\ Period \in Nat \ {0}
    /\ MaxDay \in Nat
    /\ MaxChanges \in Nat

VARIABLES
    row,      \* row[t]: the tenant's row
    req,      \* req[k]: a click and what it waits for
    screen,   \* screen[b]: the component AdminDashboard in tab b
    now,      \* days
    past      \* what the properties remember

subscriptionVars == <<row, req, screen, now, past>>

NoEnd == -1                                    \* null: the subscription is unlimited
RowType == [active : BOOLEAN, end : Nat \cup {NoEnd}]   \* isActive, subscriptionEnd
Rows == [Tenants -> RowType]
Operations == {"toggle", "extend"}
ReqType ==
    [pc : {"idle", "sent", "read", "written", "load", "listed"},
     op : Operations,
     tab : Tabs \cup {None},         \* None: the tab has given it up
     tenant : Tenants \cup {None},
     found : RowType,                \* the row it read,
     today : 0..MaxDay,              \* and the day it did
     version : Nat, table : Rows]    \* the table it read, and how old it is
ScreenType ==
    [busy : Tenants \cup {None},     \* busyAdminTenantId
     loading : BOOLEAN,              \* tenantsLoading: the table is hidden
     version : Nat, table : Rows]    \* tenants

SubscriptionTypeOK ==
    /\ row \in Rows
    /\ req \in [Requests -> ReqType]
    /\ screen \in [Tabs -> ScreenType]
    /\ now \in 0..MaxDay
    \* changes: writes to the table.  extended, toggled: those of a tenant.
    \* from: the day a tenant's extensions count from, the last of its first period or
    \* that of the extension that ended an unlimited subscription.
    \* lapsed: days a tenant was expired.  stale: operations that wrote what they
    \* had computed from a row, or a day, that was not the current one any more.
    \* last: the tab that the last change came from, None if it had given it up.
    /\ past \in [changes : Nat, last : Tabs \cup {None}, extended : [Tenants -> Nat],
                 toggled : [Tenants -> Nat], from : [Tenants -> Nat],
                 lapsed : [Tenants -> Nat],
                 stale : [Tenants -> SUBSET Operations],
    \* mixed: requests of two tenants overlapped in the tab.  newest: the newest
    \* table it has shown.  failed: a request of it failed.
                 mixed : [Tabs -> BOOLEAN], newest : [Tabs -> Nat],
                 failed : [Tabs -> BOOLEAN]]
    /\ \A k \in Requests : req[k].pc # "idle" => req[k].tenant # None
    /\ \A k \in Requests : req[k].pc \in {"load", "listed"} => req[k].tab # None
    /\ \A k \in Requests : req[k].version <= past.changes
    /\ \A b \in Tabs : screen[b].version <= past.changes

NewRow == [active |-> TRUE, end |-> Period]
Unlimited == [active |-> TRUE, end |-> NoEnd]
NoRequest == [pc |-> "idle", op |-> "toggle", tab |-> None, tenant |-> None,
              found |-> NewRow, today |-> 0, version |-> 0, table |-> [t \in Tenants |-> NewRow]]
NoChange == [t \in Tenants |-> 0]

\* createTenant has given a tenant its first period, or the row is older than
\* subscriptions are, or the seed's: that has no end.  The tabs show it.
SubscriptionInit ==
    /\ row \in [Tenants -> {NewRow, Unlimited}]
    /\ req = [k \in Requests |-> NoRequest]
    /\ screen = [b \in Tabs |-> [busy |-> None, loading |-> FALSE, version |-> 0, table |-> row]]
    /\ now = 0
    /\ past = [changes |-> 0, last |-> None, extended |-> NoChange, toggled |-> NoChange,
               from |-> [t \in Tenants |-> IF row[t].end = NoEnd THEN 0 ELSE Period], lapsed |-> NoChange,
               stale |-> [t \in Tenants |-> {}], mixed |-> [b \in Tabs |-> FALSE],
               newest |-> [b \in Tabs |-> 0], failed |-> [b \in Tabs |-> FALSE]]

Of(b) == {k \in Requests : req[k].tab = b}

----------------------------------------------------------------------------
(* A click: the buttons are enabled unless their row is the busy one.       *)

Send(k, b, t, op) ==
    /\ req[k].pc = "idle"
    /\ ~screen[b].loading
    /\ req' = [req EXCEPT ![k] = [@ EXCEPT !.pc = "sent", !.op = op, !.tab = b, !.tenant = t]]
    /\ screen' = [screen EXCEPT ![b].busy = t]
    /\ past' = [past EXCEPT !.mixed[b] =
                   Of(b) # {} /\ (@ \/ \E j \in Of(b) : req[j].tenant # t)]
    /\ UNCHANGED <<row, now>>

Click(k, b, t, op) == screen[b].busy # t /\ Send(k, b, t, op)

----------------------------------------------------------------------------
(* The server: toggleTenantActive and extendSubscription read the row and   *)
(* update one column of it later.                                           *)

Room == past.changes + Cardinality({k \in Requests : req[k].pc = "read"}) < MaxChanges

FindUnique(k) ==
    /\ req[k].pc = "sent"
    /\ Room
    /\ req' = [req EXCEPT ![k].pc = "read", ![k].found = row[req[k].tenant], ![k].today = now]
    /\ UNCHANGED <<row, screen, now, past>>

\* Whoever has no end counts as expired: the extension ends what was unlimited.
Base(end, today) == IF end = NoEnd \/ end <= today THEN today ELSE end

\* Mutant of Extended: a subscription runs from the day of its extension.
ExtendedFromToday(r, today) == [r EXCEPT !.end = today + Period]

Extended(r, today) == [r EXCEPT !.end = Base(r.end, today) + Period]

Toggled(r) == [r EXCEPT !.active = ~r.active]

\* After an update: the answer goes to the tab, if it still waits.
Written(k) ==
    req' = [req EXCEPT ![k] = IF req[k].tab = None THEN NoRequest ELSE [@ EXCEPT !.pc = "written"]]

ToggleTenantActive(k) ==
    LET t == req[k].tenant
        r == req[k].found
    IN
    /\ req[k].pc = "read" /\ req[k].op = "toggle"
    /\ row' = [row EXCEPT ![t].active = Toggled(r).active]
    /\ past' = [past EXCEPT !.changes = @ + 1, !.last = req[k].tab, !.toggled[t] = @ + 1,
                   !.stale[t] = IF r.active = row[t].active THEN @ ELSE @ \cup {"toggle"}]
    /\ Written(k)
    /\ UNCHANGED <<screen, now>>

ExtendSubscription(k) ==
    LET t == req[k].tenant
        r == req[k].found
        today == req[k].today
    IN
    /\ req[k].pc = "read" /\ req[k].op = "extend"
    /\ row' = [row EXCEPT ![t].end = Extended(r, today).end]
    /\ past' = [past EXCEPT !.changes = @ + 1, !.last = req[k].tab, !.extended[t] = @ + 1,
                   !.from[t] = IF row[t].end = NoEnd THEN now ELSE @,
                   !.stale[t] = IF Base(r.end, today) = Base(row[t].end, now) THEN @
                                ELSE @ \cup {"extend"}]
    /\ Written(k)
    /\ UNCHANGED <<screen, now>>

----------------------------------------------------------------------------
(* The tab: the answer, then the table again.                               *)

LoadTenants(k) ==
    /\ req[k].pc = "written"
    /\ req' = [req EXCEPT ![k].pc = "load"]
    /\ screen' = [screen EXCEPT ![req[k].tab].loading = TRUE]
    /\ UNCHANGED <<row, now, past>>

ListTenants(k) ==
    /\ req[k].pc = "load"
    /\ req' = [req EXCEPT ![k].pc = "listed", ![k].version = past.changes, ![k].table = row]
    /\ UNCHANGED <<row, screen, now, past>>

\* Whichever request ends first shows the table and enables the buttons.
TableArrives(k) ==
    LET b == req[k].tab IN
    /\ req[k].pc = "listed"
    /\ screen' = [screen EXCEPT ![b] = [busy |-> None, loading |-> FALSE,
                                        version |-> req[k].version, table |-> req[k].table]]
    /\ past' = [past EXCEPT !.newest[b] = IF @ < req[k].version THEN req[k].version ELSE @]
    /\ req' = [req EXCEPT ![k] = NoRequest]
    /\ UNCHANGED <<row, now>>

\* A request fails: lost before the server had it, or with its answer while the
\* server goes on.  A list that fails leaves an empty table.
RequestFails(k) ==
    LET b == req[k].tab IN
    /\ req[k].pc # "idle"
    /\ b # None
    /\ \/ /\ req[k].pc \in {"sent", "read"}
          /\ req' = [req EXCEPT ![k].tab = None]
       \/ /\ req[k].pc \in {"written", "load", "listed"}
          /\ req' = [req EXCEPT ![k] = NoRequest]
    /\ screen' = [screen EXCEPT ![b].busy = None,
                     ![b].loading = @ /\ req[k].pc \notin {"load", "listed"}]
    /\ past' = [past EXCEPT !.failed[b] = TRUE]
    /\ UNCHANGED <<row, now>>

\* What a tab has given up need not reach the server.
RequestLost(k) ==
    /\ req[k].pc = "sent" /\ req[k].tab = None
    /\ req' = [req EXCEPT ![k] = NoRequest]
    /\ UNCHANGED <<row, screen, now, past>>

\* A day passes; checkTenantAccess refuses the messages of a tenant whose end
\* lies before the moment of the message, and never one without an end.
Refused(t, day) == row[t].end # NoEnd /\ row[t].end < day

Tick ==
    /\ now < MaxDay
    /\ now' = now + 1
    /\ past' = [past EXCEPT !.lapsed =
                   [t \in Tenants |-> IF Refused(t, now + 1) THEN @[t] + 1 ELSE @[t]]]
    /\ UNCHANGED <<row, req, screen>>

SubscriptionNext ==
    \/ \E k \in Requests, b \in Tabs, t \in Tenants, op \in Operations : Click(k, b, t, op)
    \/ \E k \in Requests : \/ FindUnique(k)
                           \/ ToggleTenantActive(k)
                           \/ ExtendSubscription(k)
                           \/ LoadTenants(k)
                           \/ ListTenants(k)
                           \/ TableArrives(k)
                           \/ RequestFails(k)
                           \/ RequestLost(k)
    \/ Tick

SubscriptionSpec == SubscriptionInit /\ [][SubscriptionNext]_subscriptionVars

----------------------------------------------------------------------------

\* What a tenant was given adds up: its first period, one for each extension,
\* and the days it was refused, make the day it is served until (or today),
\* unless an extension wrote what another had made old: admin.service.ts reads
\* subscriptionEnd and writes a sum, and chat.service.ts decides by the same day.
\* A tenant without an end is never refused, until an extension gives it one.
DaysAddUp ==
    \A t \in Tenants :
        "extend" \notin past.stale[t] =>
            IF row[t].end = NoEnd
            THEN past.extended[t] = 0 /\ past.lapsed[t] = 0
            ELSE Base(row[t].end, now) = past.from[t] + Period * past.extended[t] + past.lapsed[t]

\* Every toggle counts: after an even number of them the tenant is active,
\* unless one wrote the negation of what another had changed already.
TogglesCount ==
    \A t \in Tenants :
        "toggle" \notin past.stale[t] => (row[t].active <=> past.toggled[t] % 2 = 0)

\* The busy row keeps a second request of its tenant off, unless a click on
\* another row has taken busyAdminTenantId over meanwhile.
OneRequestAtATime ==
    \A b \in Tabs : ~past.mixed[b] => \A j, k \in Of(b) : j = k

\* When all is quiet, the tab that made the last change shows the rows as they are,
\* whatever its clicks overlapped with, unless a request of it failed or an older table
\* came in after a newer one.  Other tabs are not told of the change.
TableIsCurrent ==
    \A b \in Tabs :
        /\ \A k \in Requests : req[k].pc = "idle"
        /\ past.last = b \/ past.changes = 0
        /\ ~past.failed[b]
        /\ screen[b].version = past.newest[b]
        => screen[b].table = row

\* What the administrator's page and the table of tenants owe each other, however
\* clicks, answers and failures overlap (AdminDashboard.jsx, admin.service.ts).
SubscriptionsSafe ==
    /\ DaysAddUp
    /\ TogglesCount
    /\ OneRequestAtATime
    /\ TableIsCurrent
=============================================================================
