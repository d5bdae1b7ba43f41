----------------------- MODULE Administration_proofs -----------------------
(***************************************************************************)
(* Proofs about the four components administrators and tenants manage, each *)
(* for all values of its constants: one section per component, which uses   *)
(* nothing of the others.                                                   *)
(***************************************************************************)
EXTENDS MCAdministration, TLAPS

-----------------------------------------------------------------------------
(* Subscriptions: any tenants, tabs, requests and length of a period.       *)

PastType ==
    [changes : Nat, last : Tabs \cup {None}, extended : [Tenants -> Nat],
     toggled : [Tenants -> Nat], from : [Tenants -> Nat], lapsed : [Tenants -> Nat],
     stale : [Tenants -> SUBSET Operations],
     mixed : [Tabs -> BOOLEAN], newest : [Tabs -> Nat], failed : [Tabs -> BOOLEAN]]

\* Requests with a tenant and a tab, as long as they need them.
RequestsHold ==
    \A k \in Requests :
        /\ req[k].pc # "idle" => req[k].tenant # None
        /\ req[k].pc \in {"load", "listed"} => req[k].tab # None
        /\ req[k].pc = "written" => req[k].tab # None
        /\ req[k].pc = "idle" => req[k].tab = None

\* The only request of a tab is of the busy row, unless requests of two rows overlapped.
BusyRow ==
    \A b \in Tabs : ~past.mixed[b] =>
        /\ \A k \in Of(b) : req[k].tenant = screen[b].busy
        /\ \A j, k \in Of(b) : j = k

SubscriptionInv ==
    /\ SubscriptionTypeOK
    /\ RequestsHold
    /\ DaysAddUp
    /\ TogglesCount
    /\ BusyRow

LEMMA SubscriptionInitially == SubscriptionInit => SubscriptionInv
<1> USE SubscriptionAssumption
<1> SUFFICES ASSUME SubscriptionInit PROVE SubscriptionInv
  OBVIOUS
<1>1. /\ NewRow \in RowType /\ [t \in Tenants |-> NewRow] \in Rows /\ NewRow.end = Period
      /\ NewRow.active = TRUE /\ NewRow.end # NoEnd
      /\ Unlimited \in RowType /\ Unlimited.end = NoEnd /\ Unlimited.active = TRUE
  BY DEF NewRow, Unlimited, NoEnd, RowType, Rows
<1>2. NoRequest \in ReqType /\ NoRequest.pc = "idle" /\ NoRequest.tab = None
      /\ NoRequest.version = 0
  BY <1>1 DEF NoRequest, ReqType, Operations
<1>3. /\ row \in Rows /\ now = 0 /\ now \in 0..MaxDay
      /\ \A t \in Tenants : row[t] = NewRow \/ row[t] = Unlimited
  BY <1>1 DEF SubscriptionInit, Rows
<1>4. /\ req \in [Requests -> ReqType]
      /\ \A k \in Requests : req[k] = NoRequest
  BY <1>2 DEF SubscriptionInit
<1>5. /\ screen \in [Tabs -> ScreenType]
      /\ \A b \in Tabs : screen[b].version = 0 /\ screen[b].busy = None
  BY <1>3 DEF SubscriptionInit, ScreenType
<1>6. /\ past \in PastType
      /\ past.changes = 0
      /\ \A t \in Tenants : /\ past.extended[t] = 0 /\ past.toggled[t] = 0 /\ past.lapsed[t] = 0
                            /\ row[t].end # NoEnd => past.from[t] = Period
  BY DEF SubscriptionInit, NoChange, PastType
<1>7. SubscriptionTypeOK
  BY <1>2, <1>3, <1>4, <1>5, <1>6 DEF SubscriptionTypeOK, PastType
<1>8. RequestsHold
  BY <1>2, <1>4 DEF RequestsHold
<1>9. DaysAddUp
  <2>1. Period * 0 = 0
    OBVIOUS
  <2>2. \A t \in Tenants : row[t].end # NoEnd => Base(row[t].end, now) = Period
    BY <1>1, <1>3 DEF Base
  <2>3. ASSUME NEW t \in Tenants
        PROVE  IF row[t].end = NoEnd
               THEN past.extended[t] = 0 /\ past.lapsed[t] = 0
               ELSE Base(row[t].end, now)
                      = past.from[t] + Period * past.extended[t] + past.lapsed[t]
    <3>1. past.extended[t] = 0 /\ past.lapsed[t] = 0
      BY <1>6
    <3>2. CASE row[t].end # NoEnd
      <4>1. past.from[t] = Period /\ Base(row[t].end, now) = Period
        BY <1>6, <2>2, <3>2
      <4> QED
        BY <2>1, <3>1, <3>2, <4>1
    <3> QED
      BY <3>1, <3>2
  <2> QED
    BY <2>3 DEF DaysAddUp
<1>10. TogglesCount
  <2>1. \A t \in Tenants : row[t].active = TRUE
    BY <1>1, <1>3
  <2>2. 0 % 2 = 0
    OBVIOUS
  <2>3. \A t \in Tenants : past.toggled[t] % 2 = 0
    BY <1>6, <2>2
  <2> QED
    BY <2>1, <2>3 DEF TogglesCount
<1>11. BusyRow
  <2>1. \A b \in Tabs : Of(b) = {}
    BY <1>2, <1>4 DEF Of
  <2> QED
    BY <2>1 DEF BusyRow
<1> QED
  BY <1>7, <1>8, <1>9, <1>10, <1>11 DEF SubscriptionInv

-----------------------------------------------------------------------------
(* A request at a time                                                       *)

\* A request goes on, or ends, and no table is newer than the changes.
LEMMA RequestWrites ==
    ASSUME SubscriptionTypeOK, RequestsHold,
           NEW k \in Requests, NEW r \in ReqType, req' = [req EXCEPT ![k] = r],
           row' \in Rows, screen' \in [Tabs -> ScreenType], now' \in 0..MaxDay,
           past' \in PastType, past.changes <= past'.changes,
           \A b \in Tabs : screen'[b].version <= past'.changes,
           r.version <= past'.changes,
           r.pc # "idle" => r.tenant # None,
           r.pc \in {"written", "load", "listed"} => r.tab # None,
           r.pc = "idle" => r.tab = None
    PROVE  SubscriptionTypeOK' /\ RequestsHold'
<1>1. /\ req' \in [Requests -> ReqType]
      /\ req'[k] = r
      /\ \A j \in Requests \ {k} : req'[j] = req[j]
  BY DEF SubscriptionTypeOK
<1>2. \A j \in Requests : req'[j].version <= past'.changes
  <2> SUFFICES ASSUME NEW j \in Requests, j # k PROVE req'[j].version <= past'.changes
    BY <1>1
  <2>1. req[j].version \in Nat /\ past.changes \in Nat /\ past'.changes \in Nat
    BY DEF SubscriptionTypeOK, ReqType, PastType
  <2>2. req[j].version <= past.changes
    BY DEF SubscriptionTypeOK
  <2> QED
    BY <1>1, <2>1, <2>2
<1>3. RequestsHold'
  BY <1>1 DEF RequestsHold
<1>4. \A j \in Requests : /\ req'[j].pc # "idle" => req'[j].tenant # None
                         /\ req'[j].pc \in {"load", "listed"} => req'[j].tab # None
  BY <1>3 DEF RequestsHold
<1> QED
  BY <1>1, <1>2, <1>3, <1>4 DEF SubscriptionTypeOK, PastType

\* Of a tab that keeps its busy row only the same request may go on; when a request of
\* the tab ends, none is left.
LEMMA BusyRowKept ==
    ASSUME SubscriptionTypeOK, BusyRow,
           NEW k \in Requests, NEW r \in ReqType, req' = [req EXCEPT ![k] = r],
           r.tab \in {req[k].tab, None},
           r.tab # None => r.tenant = req[k].tenant,
           past'.mixed = past.mixed,
           \A b \in Tabs : screen'[b].busy = screen[b].busy \/ (b = req[k].tab /\ r.tab = None)
    PROVE  BusyRow'
<1> USE SubscriptionAssumption
<1>1. /\ req'[k] = r
      /\ \A j \in Requests \ {k} : req'[j] = req[j]
  BY DEF SubscriptionTypeOK
<1> SUFFICES ASSUME NEW b \in Tabs, ~past.mixed[b]
             PROVE  /\ \A j \in Of(b)' : req'[j].tenant = screen'[b].busy
                    /\ \A i, j \in Of(b)' : i = j
  BY DEF BusyRow
<1>2. b # None
  OBVIOUS
<1>3. \A j \in Of(b)' : j \in Of(b) /\ req'[j].tenant = req[j].tenant
  BY <1>1, <1>2 DEF Of
<1>4. \A i, j \in Of(b) : i = j
  BY DEF BusyRow
<1>5. CASE screen'[b].busy = screen[b].busy
  BY <1>3, <1>4, <1>5 DEF BusyRow
<1>6. CASE b = req[k].tab /\ r.tab = None
  <2>1. k \in Of(b) /\ k \notin Of(b)'
    BY <1>1, <1>2, <1>6 DEF Of
  <2>2. Of(b)' = {}
    BY <1>3, <1>4, <2>1
  <2> QED
    BY <2>2
<1> QED
  BY <1>5, <1>6

\* Without a write to a row, an extension or a day, the days add up and the toggles count.
LEMMA RowsKept ==
    ASSUME DaysAddUp, TogglesCount, UNCHANGED <<row, now>>,
           past'.stale = past.stale, past'.extended = past.extended,
           past'.lapsed = past.lapsed, past'.toggled = past.toggled,
           past'.from = past.from
    PROVE  DaysAddUp' /\ TogglesCount'
  BY DEF DaysAddUp, TogglesCount, Base

\* The idle request is of its type.
LEMMA NoRequestType ==
    /\ NoRequest \in ReqType /\ NoRequest.pc = "idle" /\ NoRequest.tab = None
    /\ NoRequest.version = 0
<1> USE SubscriptionAssumption
<1>1. NewRow \in RowType /\ [t \in Tenants |-> NewRow] \in Rows
  BY DEF NewRow, RowType, Rows
<1> QED
  BY <1>1 DEF NoRequest, ReqType, Operations

\* What is known of a request.
LEMMA RequestFacts ==
    ASSUME SubscriptionTypeOK, NEW k \in Requests
    PROVE  /\ req[k] \in ReqType
           /\ req[k].tab \in Tabs \cup {None} /\ req[k].tenant \in Tenants \cup {None}
           /\ req[k].found \in RowType /\ req[k].today \in 0..MaxDay
           /\ req[k].version \in Nat /\ req[k].version <= past.changes
           /\ req[k].table \in Rows /\ req[k].op \in Operations
           /\ past \in PastType /\ past.changes \in Nat
  BY DEF SubscriptionTypeOK, ReqType, PastType

-----------------------------------------------------------------------------
(* Steps of a request that write no row                                      *)

LEMMA FindUniqueKeepsInv ==
    ASSUME SubscriptionInv, NEW k \in Requests, FindUnique(k)
    PROVE  SubscriptionInv'
<1> DEFINE r == [req[k] EXCEPT !.pc = "read", !.found = row[req[k].tenant], !.today = now]
<1>1. /\ SubscriptionTypeOK /\ RequestsHold /\ BusyRow /\ DaysAddUp /\ TogglesCount
      /\ req[k].pc = "sent" /\ req' = [req EXCEPT ![k] = r]
      /\ UNCHANGED <<row, screen, now, past>>
  BY DEF FindUnique, SubscriptionInv
<1>2. /\ row \in Rows /\ screen \in [Tabs -> ScreenType] /\ now \in 0..MaxDay
      /\ past \in PastType /\ \A b \in Tabs : screen[b].version <= past.changes
      /\ past.changes \in Nat
  BY <1>1 DEF SubscriptionTypeOK, PastType
<1>3. req[k].tenant \in Tenants /\ row[req[k].tenant] \in RowType
  BY <1>1, <1>2, RequestFacts DEF RequestsHold, Rows
<1>4. /\ r \in ReqType /\ r.pc = "read" /\ r.tab = req[k].tab /\ r.tenant = req[k].tenant
      /\ r.version = req[k].version
  BY <1>1, <1>2, <1>3, RequestFacts DEF ReqType
<1> HIDE DEF r
<1>5. r.version <= past.changes /\ r.tenant # None
  BY <1>1, <1>3, <1>4, RequestFacts, SubscriptionAssumption
<1>6. SubscriptionTypeOK' /\ RequestsHold'
  <2>1. /\ row' \in Rows /\ screen' \in [Tabs -> ScreenType] /\ now' \in 0..MaxDay
        /\ past' \in PastType /\ past.changes <= past'.changes
        /\ \A b \in Tabs : screen'[b].version <= past'.changes
        /\ r.version <= past'.changes
    BY <1>1, <1>2, <1>5
  <2> QED
    BY <1>1, <1>4, <1>5, <2>1, RequestWrites
<1>7. BusyRow'
  BY <1>1, <1>4, BusyRowKept
<1> QED
  BY <1>1, <1>6, <1>7, RowsKept DEF SubscriptionInv

LEMMA ListTenantsKeepsInv ==
    ASSUME SubscriptionInv, NEW k \in Requests, ListTenants(k)
    PROVE  SubscriptionInv'
<1> DEFINE r == [req[k] EXCEPT !.pc = "listed", !.version = past.changes, !.table = row]
<1>1. /\ SubscriptionTypeOK /\ RequestsHold /\ BusyRow /\ DaysAddUp /\ TogglesCount
      /\ req[k].pc = "load" /\ req' = [req EXCEPT ![k] = r]
      /\ UNCHANGED <<row, screen, now, past>>
  BY DEF ListTenants, SubscriptionInv
<1>2. /\ row \in Rows /\ screen \in [Tabs -> ScreenType] /\ now \in 0..MaxDay
      /\ past \in PastType /\ \A b \in Tabs : screen[b].version <= past.changes
      /\ past.changes \in Nat
  BY <1>1 DEF SubscriptionTypeOK, PastType
<1>3. /\ r \in ReqType /\ r.pc = "listed" /\ r.tab = req[k].tab /\ r.tenant = req[k].tenant
      /\ r.version = past.changes
  BY <1>1, <1>2, RequestFacts DEF ReqType
<1> HIDE DEF r
<1>4. r.version <= past.changes /\ r.tenant # None /\ r.tab # None
  BY <1>1, <1>2, <1>3 DEF RequestsHold
<1>5. SubscriptionTypeOK' /\ RequestsHold'
  BY <1>1, <1>2, <1>3, <1>4, RequestWrites
<1>6. BusyRow'
  BY <1>1, <1>3, BusyRowKept
<1> QED
  BY <1>1, <1>5, <1>6, RowsKept DEF SubscriptionInv

LEMMA RequestLostKeepsInv ==
    ASSUME SubscriptionInv, NEW k \in Requests, RequestLost(k)
    PROVE  SubscriptionInv'
<1>1. /\ SubscriptionTypeOK /\ RequestsHold /\ BusyRow /\ DaysAddUp /\ TogglesCount
      /\ req' = [req EXCEPT ![k] = NoRequest]
      /\ UNCHANGED <<row, screen, now, past>>
  BY DEF RequestLost, SubscriptionInv
<1>2. /\ row \in Rows /\ screen \in [Tabs -> ScreenType] /\ now \in 0..MaxDay
      /\ past \in PastType /\ \A b \in Tabs : screen[b].version <= past.changes
      /\ past.changes \in Nat /\ 0 <= past.changes
  BY <1>1 DEF SubscriptionTypeOK, PastType
<1>3. SubscriptionTypeOK' /\ RequestsHold'
  <2>1. /\ row' \in Rows /\ screen' \in [Tabs -> ScreenType] /\ now' \in 0..MaxDay
        /\ past' \in PastType /\ past.changes <= past'.changes
        /\ \A b \in Tabs : screen'[b].version <= past'.changes
        /\ NoRequest.version <= past'.changes
    BY <1>1, <1>2, NoRequestType
  <2> QED
    BY <1>1, <2>1, NoRequestType, RequestWrites
<1>4. BusyRow'
  BY <1>1, NoRequestType, BusyRowKept
<1> QED
  BY <1>1, <1>3, <1>4, RowsKept DEF SubscriptionInv

-----------------------------------------------------------------------------
(* Steps of a tab                                                            *)

LEMMA LoadTenantsKeepsInv ==
    ASSUME SubscriptionInv, NEW k \in Requests, LoadTenants(k)
    PROVE  SubscriptionInv'
<1> DEFINE r == [req[k] EXCEPT !.pc = "load"]
           b == req[k].tab
           s == [screen[b] EXCEPT !.loading = TRUE]
<1>1. /\ SubscriptionTypeOK /\ RequestsHold /\ BusyRow /\ DaysAddUp /\ TogglesCount
      /\ req[k].pc = "written" /\ req' = [req EXCEPT ![k] = r]
      /\ screen' = [screen EXCEPT ![b] = s]
      /\ UNCHANGED <<row, now, past>>
  BY DEF LoadTenants, SubscriptionInv
<1>2. /\ row \in Rows /\ screen \in [Tabs -> ScreenType] /\ now \in 0..MaxDay
      /\ past \in PastType /\ \A c \in Tabs : screen[c].version <= past.changes
      /\ past.changes \in Nat
  BY <1>1 DEF SubscriptionTypeOK, PastType
<1>3. b \in Tabs /\ req[k].tenant # None
  BY <1>1, RequestFacts DEF RequestsHold
<1>4. /\ r \in ReqType /\ r.pc = "load" /\ r.tab = b /\ r.tenant = req[k].tenant
      /\ r.version = req[k].version
  BY <1>1, RequestFacts DEF ReqType
<1>5. s \in ScreenType /\ s.busy = screen[b].busy /\ s.version = screen[b].version
  BY <1>2, <1>3 DEF ScreenType
<1>6. /\ screen' \in [Tabs -> ScreenType]
      /\ \A c \in Tabs : screen'[c].busy = screen[c].busy /\ screen'[c].version = screen[c].version
  BY <1>1, <1>2, <1>5
<1> HIDE DEF r, s
<1>7. SubscriptionTypeOK' /\ RequestsHold'
  <2>1. /\ row' \in Rows /\ now' \in 0..MaxDay
        /\ past' \in PastType /\ past.changes <= past'.changes
        /\ \A c \in Tabs : screen'[c].version <= past'.changes
        /\ r.version <= past'.changes /\ r.tenant # None /\ r.tab # None
    BY <1>1, <1>2, <1>3, <1>4, <1>6, RequestFacts, SubscriptionAssumption
  <2> QED
    BY <1>1, <1>4, <1>6, <2>1, RequestWrites
<1>8. BusyRow'
  BY <1>1, <1>4, <1>6, BusyRowKept
<1> QED
  BY <1>1, <1>7, <1>8, RowsKept DEF SubscriptionInv

LEMMA TableArrivesKeepsInv ==
    ASSUME SubscriptionInv, NEW k \in Requests, TableArrives(k)
    PROVE  SubscriptionInv'
<1> DEFINE b == req[k].tab
           s == [busy |-> None, loading |-> FALSE, version |-> req[k].version,
                 table |-> req[k].table]
           n == IF past.newest[b] < req[k].version THEN req[k].version ELSE past.newest[b]
<1>1. /\ SubscriptionTypeOK /\ RequestsHold /\ BusyRow /\ DaysAddUp /\ TogglesCount
      /\ req[k].pc = "listed" /\ req' = [req EXCEPT ![k] = NoRequest]
      /\ screen' = [screen EXCEPT ![b] = s]
      /\ past' = [past EXCEPT !.newest[b] = n]
      /\ UNCHANGED <<row, now>>
  BY DEF TableArrives, SubscriptionInv
<1>2. /\ row \in Rows /\ screen \in [Tabs -> ScreenType] /\ now \in 0..MaxDay
      /\ past \in PastType /\ \A c \in Tabs : screen[c].version <= past.changes
      /\ past.changes \in Nat
  BY <1>1 DEF SubscriptionTypeOK, PastType
<1>3. b \in Tabs
  BY <1>1, RequestFacts DEF RequestsHold
<1>4. s \in ScreenType /\ s.version <= past.changes
  BY <1>1, RequestFacts DEF ScreenType
<1>5. n \in Nat
  BY <1>1, <1>2, <1>3, RequestFacts DEF PastType
<1> HIDE DEF s, n
<1>6. /\ past' \in PastType /\ past'.changes = past.changes /\ past'.mixed = past.mixed
      /\ past'.stale = past.stale /\ past'.extended = past.extended
      /\ past'.lapsed = past.lapsed /\ past'.toggled = past.toggled
      /\ past'.from = past.from
  BY <1>1, <1>2, <1>3, <1>5 DEF PastType
<1>7. /\ screen' \in [Tabs -> ScreenType]
      /\ screen'[b] = s /\ \A c \in Tabs \ {b} : screen'[c] = screen[c]
  BY <1>1, <1>2, <1>3, <1>4
<1>8. SubscriptionTypeOK' /\ RequestsHold'
  <2>1. /\ row' \in Rows /\ now' \in 0..MaxDay
        /\ past.changes <= past'.changes
        /\ \A c \in Tabs : screen'[c].version <= past'.changes
        /\ NoRequest.version <= past'.changes
    BY <1>1, <1>2, <1>4, <1>6, <1>7, NoRequestType
  <2> QED
    BY <1>1, <1>6, <1>7, <2>1, NoRequestType, RequestWrites
<1>9. BusyRow'
  BY <1>1, <1>6, <1>7, NoRequestType, BusyRowKept
<1> QED
  BY <1>1, <1>6, <1>8, <1>9, RowsKept DEF SubscriptionInv

LEMMA RequestFailsKeepsInv ==
    ASSUME SubscriptionInv, NEW k \in Requests, RequestFails(k)
    PROVE  SubscriptionInv'
<1> DEFINE b == req[k].tab
           s == [screen[b] EXCEPT !.busy = None,
                     !.loading = @ /\ req[k].pc \notin {"load", "listed"}]
<1>1. /\ SubscriptionTypeOK /\ RequestsHold /\ BusyRow /\ DaysAddUp /\ TogglesCount
      /\ req[k].pc # "idle" /\ b # None
      /\ screen' = [screen EXCEPT ![b] = s]
      /\ past' = [past EXCEPT !.failed[b] = TRUE]
      /\ UNCHANGED <<row, now>>
  BY DEF RequestFails, SubscriptionInv
<1>2. /\ row \in Rows /\ screen \in [Tabs -> ScreenType] /\ now \in 0..MaxDay
      /\ past \in PastType /\ \A c \in Tabs : screen[c].version <= past.changes
      /\ past.changes \in Nat
  BY <1>1 DEF SubscriptionTypeOK, PastType
<1>3. b \in Tabs /\ req[k].tenant # None
  BY <1>1, RequestFacts DEF RequestsHold
<1>4. s \in ScreenType /\ s.version = screen[b].version
  BY <1>2, <1>3 DEF ScreenType
<1>5. /\ past' \in PastType /\ past'.changes = past.changes /\ past'.mixed = past.mixed
      /\ past'.stale = past.stale /\ past'.extended = past.extended
      /\ past'.lapsed = past.lapsed /\ past'.toggled = past.toggled
      /\ past'.from = past.from
  BY <1>1, <1>2, <1>3 DEF PastType
<1> HIDE DEF s
<1>6. /\ screen' \in [Tabs -> ScreenType]
      /\ screen'[b] = s /\ \A c \in Tabs \ {b} : screen'[c] = screen[c]
  BY <1>1, <1>2, <1>3, <1>4
<1>7. /\ row' \in Rows /\ now' \in 0..MaxDay
      /\ past.changes <= past'.changes
      /\ \A c \in Tabs : screen'[c].version <= past'.changes
      /\ NoRequest.version <= past'.changes
      /\ req[k].version <= past'.changes
  BY <1>1, <1>2, <1>4, <1>5, <1>6, NoRequestType, RequestFacts
<1>8. CASE req' = [req EXCEPT ![k] = NoRequest]
  <2>1. SubscriptionTypeOK' /\ RequestsHold'
    BY <1>1, <1>5, <1>6, <1>7, <1>8, NoRequestType, RequestWrites
  <2>2. BusyRow'
    BY <1>1, <1>5, <1>6, <1>8, NoRequestType, BusyRowKept
  <2> QED
    BY <1>1, <1>5, <2>1, <2>2, RowsKept DEF SubscriptionInv
<1>9. CASE req[k].pc \in {"sent", "read"} /\ req' = [req EXCEPT ![k].tab = None]
  <2> DEFINE r == [req[k] EXCEPT !.tab = None]
  <2>1. /\ r \in ReqType /\ r.pc = req[k].pc /\ r.tab = None /\ r.tenant = req[k].tenant
        /\ r.version = req[k].version /\ req' = [req EXCEPT ![k] = r]
    BY <1>1, <1>9, RequestFacts DEF ReqType
  <2> HIDE DEF r
  <2>2. SubscriptionTypeOK' /\ RequestsHold'
    BY <1>1, <1>3, <1>5, <1>6, <1>7, <1>9, <2>1, RequestWrites
  <2>3. BusyRow'
    BY <1>1, <1>5, <1>6, <2>1, BusyRowKept
  <2> QED
    BY <1>1, <1>5, <2>2, <2>3, RowsKept DEF SubscriptionInv
<1> QED
  BY <1>8, <1>9 DEF RequestFails

\* A click that is let through is the only request of its tab, or its tab is mixed.
LEMMA ClickKeepsInv ==
    ASSUME SubscriptionInv, NEW k \in Requests, NEW b \in Tabs, NEW t \in Tenants,
           NEW op \in Operations, Click(k, b, t, op)
    PROVE  SubscriptionInv'
<1> USE SubscriptionAssumption
<1> DEFINE r == [req[k] EXCEPT !.pc = "sent", !.op = op, !.tab = b, !.tenant = t]
           s == [screen[b] EXCEPT !.busy = t]
           m == Of(b) # {} /\ (past.mixed[b] \/ \E j \in Of(b) : req[j].tenant # t)
<1>1. /\ SubscriptionTypeOK /\ RequestsHold /\ BusyRow /\ DaysAddUp /\ TogglesCount
      /\ req[k].pc = "idle" /\ screen[b].busy # t
      /\ req' = [req EXCEPT ![k] = r]
      /\ screen' = [screen EXCEPT ![b] = s]
      /\ past' = [past EXCEPT !.mixed[b] = m]
      /\ UNCHANGED <<row, now>>
  BY DEF Click, Send, SubscriptionInv
<1>2. /\ row \in Rows /\ screen \in [Tabs -> ScreenType] /\ now \in 0..MaxDay
      /\ past \in PastType /\ \A c \in Tabs : screen[c].version <= past.changes
      /\ past.changes \in Nat
  BY <1>1 DEF SubscriptionTypeOK, PastType
<1>3. /\ r \in ReqType /\ r.pc = "sent" /\ r.tab = b /\ r.tenant = t
      /\ r.version = req[k].version
  BY <1>1, RequestFacts DEF ReqType
<1>4. s \in ScreenType /\ s.version = screen[b].version /\ s.busy = t
  BY <1>2 DEF ScreenType
<1>5. m \in BOOLEAN
  OBVIOUS
<1>6. (~m) => Of(b) = {}
  <2> SUFFICES ASSUME ~m, Of(b) # {} PROVE FALSE
    OBVIOUS
  <2>1. ~past.mixed[b] /\ \A j \in Of(b) : req[j].tenant = t
    OBVIOUS
  <2> QED
    BY <1>1, <2>1 DEF BusyRow
<1> HIDE DEF r, s, m
<1>7. /\ past' \in PastType /\ past'.changes = past.changes
      /\ past'.stale = past.stale /\ past'.extended = past.extended
      /\ past'.lapsed = past.lapsed /\ past'.toggled = past.toggled
      /\ past'.from = past.from
      /\ past'.mixed[b] = m /\ \A c \in Tabs \ {b} : past'.mixed[c] = past.mixed[c]
  BY <1>1, <1>2, <1>5 DEF PastType
<1>8. /\ screen' \in [Tabs -> ScreenType]
      /\ screen'[b] = s /\ \A c \in Tabs \ {b} : screen'[c] = screen[c]
  BY <1>1, <1>2, <1>4
<1>9. SubscriptionTypeOK' /\ RequestsHold'
  <2>1. /\ row' \in Rows /\ now' \in 0..MaxDay
        /\ past.changes <= past'.changes
        /\ \A c \in Tabs : screen'[c].version <= past'.changes
        /\ r.version <= past'.changes /\ r.tenant # None /\ r.tab # None
    BY <1>1, <1>2, <1>3, <1>4, <1>7, <1>8, RequestFacts
  <2> QED
    BY <1>1, <1>3, <1>7, <1>8, <2>1, RequestWrites
<1>10. BusyRow'
  <2>1. /\ req'[k] = r
        /\ \A j \in Requests \ {k} : req'[j] = req[j]
    BY <1>1 DEF SubscriptionTypeOK
  <2>2. req[k].tab = None
    BY <1>1 DEF RequestsHold
  <2>3. \A c \in Tabs \ {b} : Of(c)' = Of(c) /\ \A j \in Of(c) : req'[j] = req[j]
    BY <1>3, <2>1, <2>2 DEF Of
  <2>4. Of(b)' = Of(b) \cup {k}
    BY <1>3, <2>1 DEF Of
  <2>5. \A c \in Tabs \ {b} : ~past'.mixed[c] =>
            /\ \A j \in Of(c)' : req'[j].tenant = screen'[c].busy
            /\ \A i, j \in Of(c)' : i = j
    BY <1>1, <1>7, <1>8, <2>3 DEF BusyRow
  <2>6. ~past'.mixed[b] =>
            /\ \A j \in Of(b)' : req'[j].tenant = screen'[b].busy
            /\ \A i, j \in Of(b)' : i = j
    BY <1>3, <1>4, <1>6, <1>7, <1>8, <2>1, <2>4
  <2> QED
    BY <2>5, <2>6 DEF BusyRow
<1> QED
  BY <1>1, <1>7, <1>9, <1>10, RowsKept DEF SubscriptionInv

-----------------------------------------------------------------------------
(* Steps that write a row, and the clock                                     *)

\* After an update the request goes on to the answer, or ends.
LEMMA WrittenKeeps ==
    ASSUME SubscriptionTypeOK, RequestsHold, BusyRow,
           NEW k \in Requests, req[k].pc = "read", Written(k),
           row' \in Rows, past' \in PastType, past'.changes = past.changes + 1,
           past'.mixed = past.mixed, UNCHANGED <<screen, now>>
    PROVE  SubscriptionTypeOK' /\ RequestsHold' /\ BusyRow'
<1>1. /\ screen \in [Tabs -> ScreenType] /\ now \in 0..MaxDay
      /\ \A c \in Tabs : screen[c].version \in Nat /\ screen[c].version <= past.changes
      /\ past.changes \in Nat
  BY DEF SubscriptionTypeOK, ScreenType
<1>2. /\ screen' \in [Tabs -> ScreenType] /\ now' \in 0..MaxDay
      /\ past.changes <= past'.changes
      /\ \A c \in Tabs : screen'[c].version <= past'.changes
      /\ NoRequest.version <= past'.changes /\ req[k].version <= past'.changes
      /\ \A c \in Tabs : screen'[c].busy = screen[c].busy
  BY <1>1, NoRequestType, RequestFacts
<1>3. CASE req[k].tab = None
  <2>1. req' = [req EXCEPT ![k] = NoRequest]
    BY <1>3 DEF Written
  <2>2. SubscriptionTypeOK' /\ RequestsHold'
    BY <1>2, <2>1, NoRequestType, RequestWrites
  <2>3. BusyRow'
    BY <1>2, <2>1, NoRequestType, BusyRowKept
  <2> QED
    BY <2>2, <2>3
<1>4. CASE req[k].tab # None
  <2> DEFINE r == [req[k] EXCEPT !.pc = "written"]
  <2>1. req' = [req EXCEPT ![k] = r]
    BY <1>4 DEF Written
  <2>2. /\ r \in ReqType /\ r.pc = "written" /\ r.tab = req[k].tab
        /\ r.tenant = req[k].tenant /\ r.version = req[k].version
    BY RequestFacts DEF ReqType
  <2>3. r.tenant # None /\ r.tab # None
    BY <1>4, <2>2 DEF RequestsHold
  <2> HIDE DEF r
  <2>4. SubscriptionTypeOK' /\ RequestsHold'
    BY <1>2, <2>1, <2>2, <2>3, RequestWrites
  <2>5. BusyRow'
    BY <1>2, <2>1, <2>2, BusyRowKept
  <2> QED
    BY <2>4, <2>5
<1> QED
  BY <1>3, <1>4

\* One more turns an even number odd, and an odd number even.
LEMMA Parity == \A n \in Nat : (n + 1) % 2 = 0 <=> n % 2 # 0
  OBVIOUS

LEMMA ToggleKeepsInv ==
    ASSUME SubscriptionInv, NEW k \in Requests, ToggleTenantActive(k)
    PROVE  SubscriptionInv'
<1> DEFINE t == req[k].tenant
           r == req[k].found
           w == [row[t] EXCEPT !.active = ~r.active]
           st == IF r.active = row[t].active THEN past.stale[t] ELSE past.stale[t] \cup {"toggle"}
<1>1. /\ SubscriptionTypeOK /\ RequestsHold /\ BusyRow /\ DaysAddUp /\ TogglesCount
      /\ req[k].pc = "read" /\ Written(k)
      /\ past' = [past EXCEPT !.changes = @ + 1, !.last = req[k].tab, !.toggled[t] = @ + 1, !.stale[t] = st]
      /\ UNCHANGED <<screen, now>>
  BY DEF ToggleTenantActive, SubscriptionInv
<1>2. /\ row \in Rows /\ past \in PastType /\ past.changes \in Nat
      /\ t \in Tenants /\ r \in RowType /\ row[t] \in RowType
  BY <1>1, RequestFacts DEF SubscriptionTypeOK, RequestsHold, Rows
<1>3. row' = [row EXCEPT ![t] = w]
  BY <1>2 DEF ToggleTenantActive, Toggled, RowType
<1>4. w \in RowType /\ w.end = row[t].end /\ w.active = ~r.active
  BY <1>2 DEF RowType
<1>5. /\ st \in SUBSET Operations
      /\ "extend" \in st <=> "extend" \in past.stale[t]
      /\ "toggle" \notin st => "toggle" \notin past.stale[t] /\ r.active = row[t].active
  BY <1>2 DEF PastType, Operations
<1> HIDE DEF w, st
<1>6. /\ row' \in Rows /\ row'[t] = w /\ \A u \in Tenants \ {t} : row'[u] = row[u]
  BY <1>2, <1>3, <1>4 DEF Rows
<1>7. /\ past' \in PastType /\ past'.changes = past.changes + 1 /\ past'.mixed = past.mixed
      /\ past'.extended = past.extended /\ past'.lapsed = past.lapsed
      /\ past'.from = past.from
  <2>1. /\ past.changes + 1 \in Nat
        /\ [past.toggled EXCEPT ![t] = @ + 1] \in [Tenants -> Nat]
        /\ req[k].tab \in Tabs \cup {None}
        /\ [past.stale EXCEPT ![t] = st] \in [Tenants -> SUBSET Operations]
    BY <1>1, <1>2, <1>5, RequestFacts DEF PastType
  <2>2. past' = [past EXCEPT !.changes = past.changes + 1, !.last = req[k].tab,
                             !.toggled = [past.toggled EXCEPT ![t] = @ + 1],
                             !.stale = [past.stale EXCEPT ![t] = st]]
    BY <1>1, <1>2 DEF PastType
  <2> QED
    BY <1>2, <2>1, <2>2 DEF PastType
<1>8. /\ past'.toggled[t] = past.toggled[t] + 1 /\ past.toggled[t] \in Nat
      /\ \A u \in Tenants \ {t} : past'.toggled[u] = past.toggled[u]
      /\ past'.stale[t] = st
      /\ \A u \in Tenants \ {t} : past'.stale[u] = past.stale[u]
  BY <1>1, <1>2 DEF PastType
<1>9. SubscriptionTypeOK' /\ RequestsHold' /\ BusyRow'
  BY <1>1, <1>6, <1>7, WrittenKeeps
<1>10. DaysAddUp'
  <2>1. \A u \in Tenants : row'[u].end = row[u].end
    BY <1>4, <1>6
  <2>2. \A u \in Tenants : "extend" \in past'.stale[u] <=> "extend" \in past.stale[u]
    BY <1>5, <1>8
  <2> QED
    BY <1>1, <1>7, <2>1, <2>2 DEF DaysAddUp
<1>11. TogglesCount'
  <2>1. \A u \in Tenants \ {t} : "toggle" \notin past'.stale[u] =>
            (row'[u].active <=> past'.toggled[u] % 2 = 0)
    BY <1>1, <1>6, <1>8 DEF TogglesCount
  <2>2. ASSUME "toggle" \notin past'.stale[t]
        PROVE  row'[t].active <=> past'.toggled[t] % 2 = 0
    <3>1. "toggle" \notin past.stale[t] /\ r.active = row[t].active
      BY <1>5, <1>8, <2>2
    <3>2. row[t].active <=> past.toggled[t] % 2 = 0
      BY <1>1, <1>2, <3>1 DEF TogglesCount
    <3>3. row'[t].active <=> past.toggled[t] % 2 # 0
      BY <1>4, <1>6, <3>1, <3>2
    <3> QED
      BY <1>8, <3>3, Parity
  <2> QED
    BY <2>1, <2>2 DEF TogglesCount
<1> QED
  BY <1>9, <1>10, <1>11 DEF SubscriptionInv

LEMMA ExtendKeepsInv ==
    ASSUME SubscriptionInv, NEW k \in Requests, ExtendSubscription(k)
    PROVE  SubscriptionInv'
<1> USE SubscriptionAssumption
<1> DEFINE t == req[k].tenant
           r == req[k].found
           today == req[k].today
           e == Base(r.end, today) + Period
           w == [row[t] EXCEPT !.end = e]
           st == IF Base(r.end, today) = Base(row[t].end, now) THEN past.stale[t]
                                                              ELSE past.stale[t] \cup {"extend"}
           f == IF row[t].end = NoEnd THEN now ELSE past.from[t]
<1>1. /\ SubscriptionTypeOK /\ RequestsHold /\ BusyRow /\ DaysAddUp /\ TogglesCount
      /\ req[k].pc = "read" /\ Written(k)
      /\ past' = [past EXCEPT !.changes = @ + 1, !.last = req[k].tab, !.extended[t] = @ + 1,
                              !.from[t] = f, !.stale[t] = st]
      /\ UNCHANGED <<screen, now>>
  BY DEF ExtendSubscription, SubscriptionInv
<1>2. /\ row \in Rows /\ past \in PastType /\ past.changes \in Nat
      /\ t \in Tenants /\ r \in RowType /\ row[t] \in RowType
      /\ today \in 0..MaxDay /\ now \in 0..MaxDay
  BY <1>1, RequestFacts DEF SubscriptionTypeOK, RequestsHold, Rows
<1>3. /\ r.end \in Nat \cup {NoEnd} /\ row[t].end \in Nat \cup {NoEnd}
      /\ today \in Nat /\ now \in Nat /\ f \in Nat
      /\ Base(r.end, today) \in Nat /\ Base(row[t].end, now) \in Nat /\ e \in Nat
      /\ Base(row[t].end, now) >= now
  BY <1>2 DEF RowType, Base, PastType
<1>4. row' = [row EXCEPT ![t] = w]
  BY <1>2 DEF ExtendSubscription, Extended, RowType
<1>5. w \in RowType /\ w.end = e /\ w.active = row[t].active
  BY <1>2, <1>3 DEF RowType
<1>6. /\ st \in SUBSET Operations
      /\ "toggle" \in st <=> "toggle" \in past.stale[t]
      /\ "extend" \notin st => "extend" \notin past.stale[t]
                               /\ Base(r.end, today) = Base(row[t].end, now)
  BY <1>2 DEF PastType, Operations
<1> HIDE DEF w, st, f
<1>7. /\ row' \in Rows /\ row'[t] = w /\ \A u \in Tenants \ {t} : row'[u] = row[u]
  BY <1>2, <1>4, <1>5 DEF Rows
<1>8. /\ past' \in PastType /\ past'.changes = past.changes + 1 /\ past'.mixed = past.mixed
      /\ past'.toggled = past.toggled /\ past'.lapsed = past.lapsed
  <2>1. /\ past.changes + 1 \in Nat
        /\ [past.extended EXCEPT ![t] = @ + 1] \in [Tenants -> Nat]
        /\ [past.from EXCEPT ![t] = f] \in [Tenants -> Nat]
        /\ req[k].tab \in Tabs \cup {None}
        /\ [past.stale EXCEPT ![t] = st] \in [Tenants -> SUBSET Operations]
    BY <1>1, <1>2, <1>3, <1>6, RequestFacts DEF PastType
  <2>2. past' = [past EXCEPT !.changes = past.changes + 1, !.last = req[k].tab,
                             !.extended = [past.extended EXCEPT ![t] = @ + 1],
                             !.from = [past.from EXCEPT ![t] = f],
                             !.stale = [past.stale EXCEPT ![t] = st]]
    BY <1>1, <1>2 DEF PastType
  <2> QED
    BY <1>2, <2>1, <2>2 DEF PastType
<1>9. /\ past'.extended[t] = past.extended[t] + 1 /\ past.extended[t] \in Nat
      /\ past.lapsed[t] \in Nat /\ past'.from[t] = f
      /\ \A u \in Tenants \ {t} : past'.extended[u] = past.extended[u]
      /\ \A u \in Tenants \ {t} : past'.from[u] = past.from[u]
      /\ past'.stale[t] = st
      /\ \A u \in Tenants \ {t} : past'.stale[u] = past.stale[u]
  BY <1>1, <1>2 DEF PastType
<1>10. SubscriptionTypeOK' /\ RequestsHold' /\ BusyRow'
  BY <1>1, <1>7, <1>8, WrittenKeeps
<1>11. TogglesCount'
  <2>1. \A u \in Tenants : row'[u].active = row[u].active
    BY <1>5, <1>7
  <2>2. \A u \in Tenants : "toggle" \in past'.stale[u] <=> "toggle" \in past.stale[u]
    BY <1>6, <1>9
  <2> QED
    BY <1>1, <1>8, <2>1, <2>2 DEF TogglesCount
<1>12. DaysAddUp'
  <2>1. ASSUME NEW u \in Tenants \ {t}, "extend" \notin past'.stale[u]
        PROVE  IF row'[u].end = NoEnd
               THEN past'.extended[u] = 0 /\ past'.lapsed[u] = 0
               ELSE Base(row'[u].end, now')
                      = past'.from[u] + Period * past'.extended[u] + past'.lapsed[u]
    BY <1>1, <1>7, <1>8, <1>9, <2>1 DEF DaysAddUp
  <2>2. ASSUME "extend" \notin past'.stale[t]
        PROVE  IF row'[t].end = NoEnd
               THEN past'.extended[t] = 0 /\ past'.lapsed[t] = 0
               ELSE Base(row'[t].end, now')
                      = past'.from[t] + Period * past'.extended[t] + past'.lapsed[t]
    <3>1. "extend" \notin past.stale[t] /\ Base(r.end, today) = Base(row[t].end, now)
      BY <1>6, <1>9, <2>2
    <3>2. IF row[t].end = NoEnd
          THEN past.extended[t] = 0 /\ past.lapsed[t] = 0
          ELSE Base(row[t].end, now)
                 = past.from[t] + Period * past.extended[t] + past.lapsed[t]
      BY <1>1, <1>2, <3>1 DEF DaysAddUp
    <3>3. e = Base(row[t].end, now) + Period /\ e > now
      BY <1>3, <3>1
    <3>4. Base(row'[t].end, now') = e /\ row'[t].end = e /\ e # NoEnd
      BY <1>1, <1>3, <1>5, <1>7, <3>3 DEF Base, NoEnd
    <3>5. /\ Period * (past.extended[t] + 1) = Period * past.extended[t] + Period
          /\ Period * past.extended[t] \in Nat
      <4>1. \A n \in Nat : Period * (n + 1) = Period * n + Period /\ Period * n \in Nat
        OBVIOUS
      <4> QED
        BY <1>9, <4>1
    <3>6. Base(row[t].end, now) = f + Period * past.extended[t] + past.lapsed[t]
      <4>1. CASE row[t].end = NoEnd
        <5>1. f = now /\ past.extended[t] = 0 /\ past.lapsed[t] = 0 /\ Base(row[t].end, now) = now
          BY <3>2, <4>1 DEF f, Base
        <5>2. Period * 0 = 0
          OBVIOUS
        <5> QED
          BY <1>3, <5>1, <5>2
      <4>2. CASE row[t].end # NoEnd
        BY <3>2, <4>2 DEF f
      <4> QED
        BY <4>1, <4>2
    <3>7. e = f + Period * (past.extended[t] + 1) + past.lapsed[t]
      BY <1>3, <1>9, <3>3, <3>5, <3>6
    <3>8. Base(row'[t].end, now') = past'.from[t] + Period * past'.extended[t] + past'.lapsed[t]
      BY <1>8, <1>9, <3>4, <3>7
    <3> QED
      BY <3>4, <3>8
  <2>3. t \in Tenants
    BY <1>2
  <2> HIDE DEF t
  <2> QED
    BY <2>1, <2>2, <2>3 DEF DaysAddUp
<1> QED
  BY <1>10, <1>11, <1>12 DEF SubscriptionInv

LEMMA TickKeepsInv ==
    ASSUME SubscriptionInv, Tick
    PROVE  SubscriptionInv'
<1> USE SubscriptionAssumption
<1> DEFINE l == [t \in Tenants |-> IF Refused(t, now + 1) THEN past.lapsed[t] + 1
                                                        ELSE past.lapsed[t]]
<1>1. /\ SubscriptionTypeOK /\ RequestsHold /\ BusyRow /\ DaysAddUp /\ TogglesCount
      /\ now < MaxDay /\ now' = now + 1 /\ past' = [past EXCEPT !.lapsed = l]
      /\ UNCHANGED <<row, req, screen>>
  BY DEF Tick, SubscriptionInv
<1>2. row \in Rows /\ past \in PastType /\ now \in Nat
  BY <1>1 DEF SubscriptionTypeOK, PastType
<1>3. l \in [Tenants -> Nat]
  BY <1>2 DEF PastType
<1>4. /\ past' \in PastType /\ past'.changes = past.changes /\ past'.mixed = past.mixed
      /\ past'.toggled = past.toggled /\ past'.extended = past.extended
      /\ past'.from = past.from /\ past'.stale = past.stale /\ past'.lapsed = l
  BY <1>1, <1>2, <1>3 DEF PastType
<1>5. now' \in 0..MaxDay
  BY <1>1, <1>2
<1>6. SubscriptionTypeOK'
  BY <1>1, <1>4, <1>5 DEF SubscriptionTypeOK, PastType
<1>7. RequestsHold' /\ BusyRow'
  BY <1>1, <1>4 DEF RequestsHold, BusyRow, Of
<1>8. TogglesCount'
  BY <1>1, <1>4 DEF TogglesCount
<1>9. DaysAddUp'
  <2> SUFFICES ASSUME NEW t \in Tenants, "extend" \notin past.stale[t]
               PROVE  IF row[t].end = NoEnd
                      THEN past.extended[t] = 0 /\ l[t] = 0
                      ELSE Base(row[t].end, now + 1)
                             = past.from[t] + Period * past.extended[t] + l[t]
    BY <1>1, <1>4 DEF DaysAddUp, Base
  <2>1. /\ row[t].end \in Nat \cup {NoEnd} /\ past.lapsed[t] \in Nat
        /\ past.extended[t] \in Nat /\ past.from[t] \in Nat
        /\ l[t] = IF row[t].end # NoEnd /\ row[t].end < now + 1
                  THEN past.lapsed[t] + 1 ELSE past.lapsed[t]
    BY <1>2 DEF Rows, RowType, PastType, Refused
  <2>2. PICK g \in Nat : g = past.from[t] + Period * past.extended[t]
    BY <2>1
  <2>3. IF row[t].end = NoEnd THEN past.extended[t] = 0 /\ past.lapsed[t] = 0
        ELSE Base(row[t].end, now) = g + past.lapsed[t]
    BY <1>1, <2>2 DEF DaysAddUp
  <2> HIDE DEF l
  <2>4. CASE row[t].end = NoEnd
    BY <2>1, <2>3, <2>4
  <2>5. CASE row[t].end # NoEnd /\ row[t].end < now + 1
    <3>1. Base(row[t].end, now) = now /\ Base(row[t].end, now + 1) = now + 1
      BY <1>2, <2>1, <2>5 DEF Base
    <3> QED
      BY <1>2, <2>1, <2>2, <2>3, <2>5, <3>1
  <2>6. CASE row[t].end # NoEnd /\ row[t].end >= now + 1
    <3>1. Base(row[t].end, now) = row[t].end /\ Base(row[t].end, now + 1) = row[t].end
      BY <1>2, <2>1, <2>6 DEF Base
    <3> QED
      BY <1>2, <2>1, <2>2, <2>3, <2>6, <3>1
  <2> QED
    BY <1>2, <2>1, <2>4, <2>5, <2>6
<1> QED
  BY <1>6, <1>7, <1>8, <1>9 DEF SubscriptionInv

-----------------------------------------------------------------------------
LEMMA SubscriptionStep == SubscriptionInv /\ [SubscriptionNext]_subscriptionVars => SubscriptionInv'
<1> SUFFICES ASSUME SubscriptionInv, [SubscriptionNext]_subscriptionVars
             PROVE  SubscriptionInv'
  OBVIOUS
<1>1. ASSUME NEW k \in Requests, NEW b \in Tabs, NEW t \in Tenants, NEW op \in Operations,
             Click(k, b, t, op)
      PROVE  SubscriptionInv'
  BY <1>1, ClickKeepsInv
<1>2. ASSUME NEW k \in Requests, FindUnique(k) PROVE SubscriptionInv'
  BY <1>2, FindUniqueKeepsInv
<1>3. ASSUME NEW k \in Requests, ToggleTenantActive(k) PROVE SubscriptionInv'
  BY <1>3, ToggleKeepsInv
<1>4. ASSUME NEW k \in Requests, ExtendSubscription(k) PROVE SubscriptionInv'
  BY <1>4, ExtendKeepsInv
<1>5. ASSUME NEW k \in Requests, LoadTenants(k) PROVE SubscriptionInv'
  BY <1>5, LoadTenantsKeepsInv
<1>6. ASSUME NEW k \in Requests, ListTenants(k) PROVE SubscriptionInv'
  BY <1>6, ListTenantsKeepsInv
<1>7. ASSUME NEW k \in Requests, TableArrives(k) PROVE SubscriptionInv'
  BY <1>7, TableArrivesKeepsInv
<1>8. ASSUME NEW k \in Requests, RequestFails(k) PROVE SubscriptionInv'
  BY <1>8, RequestFailsKeepsInv
<1>9. ASSUME NEW k \in Requests, RequestLost(k) PROVE SubscriptionInv'
  BY <1>9, RequestLostKeepsInv
<1>10. CASE Tick
  BY <1>10, TickKeepsInv
<1>11. CASE UNCHANGED subscriptionVars
  BY <1>11
  DEF subscriptionVars, SubscriptionInv, SubscriptionTypeOK, RequestsHold, DaysAddUp, Base, TogglesCount,
      BusyRow, Of
<1> QED
  BY <1>1, <1>2, <1>3, <1>4, <1>5, <1>6, <1>7, <1>8, <1>9, <1>10, <1>11 DEF SubscriptionNext

\* The inductive invariant: the stated properties, and that a tab which mixes no rows has
\* one request at most, that of its busy row.
THEOREM SubscriptionInvariant == SubscriptionSpec => []SubscriptionInv
  BY SubscriptionInitially, SubscriptionStep, PTL DEF SubscriptionSpec

\* Type correctness (SubscriptionTypeOK): no request that loads a table has lost its tab,
\* and no table is newer than the changes.
THEOREM SubscriptionTypeCorrect == SubscriptionSpec => []SubscriptionTypeOK
<1>1. SubscriptionInv => SubscriptionTypeOK
  BY DEF SubscriptionInv
<1> QED
  BY <1>1, SubscriptionInvariant, PTL

\* DaysAddUp (admin.service.ts, extendSubscription, and chat.service.ts, checkTenantAccess):
\* a tenant is served for the periods it was given, or without an end as long as nobody
\* extends it, for any period, any number of extensions and any interleaving, unless an
\* extension wrote what was old.
THEOREM DaysAlwaysAddUp == SubscriptionSpec => []DaysAddUp
<1>1. SubscriptionInv => DaysAddUp
  BY DEF SubscriptionInv
<1> QED
  BY <1>1, SubscriptionInvariant, PTL

\* TogglesCount (admin.service.ts, toggleTenantActive): only a toggle that read the row
\* before another wrote it may not count.
THEOREM TogglesAlwaysCount == SubscriptionSpec => []TogglesCount
<1>1. SubscriptionInv => TogglesCount
  BY DEF SubscriptionInv
<1> QED
  BY <1>1, SubscriptionInvariant, PTL

\* OneRequestAtATime (AdminDashboard.jsx, busyAdminTenantId): as long as no two rows are
\* busy in turns, a tab has one request under way at most.
THEOREM RequestsOneAtATime == SubscriptionSpec => []OneRequestAtATime
<1>1. SubscriptionInv => OneRequestAtATime
  BY DEF SubscriptionInv, BusyRow, OneRequestAtATime
<1> QED
  BY <1>1, SubscriptionInvariant, PTL

\* A table that is as new as the changes is the rows; and the tab that made the last
\* change has seen it, or a request of it will fetch it, unless a request of it failed.
TablesFollow ==
    /\ \A k \in Requests :
           req[k].pc = "listed" /\ req[k].version = past.changes => req[k].table = row
    /\ \A b \in Tabs : /\ screen[b].version = past.changes => screen[b].table = row
                       /\ past.newest[b] <= past.changes
    /\ \A b \in Tabs :
           (past.last = b \/ past.changes = 0) /\ ~past.failed[b] =>
               \/ past.newest[b] = past.changes
               \/ \E k \in Requests :
                     /\ req[k].tab = b
                     /\ \/ req[k].pc \in {"written", "load"}
                        \/ req[k].pc = "listed" /\ req[k].version = past.changes

LEMMA TablesFollowInitially == SubscriptionInit => TablesFollow
<1> SUFFICES ASSUME SubscriptionInit PROVE TablesFollow
  OBVIOUS
<1>1. /\ \A k \in Requests : req[k].pc = "idle"
      /\ \A b \in Tabs : screen[b].table = row /\ past.newest[b] = 0
      /\ past.changes = 0
  BY DEF SubscriptionInit, NoRequest
<1> QED
  BY <1>1 DEF TablesFollow

\* A change makes every table old; a request that made it for a tab will fetch another.
LEMMA ChangeKeepsTables ==
    ASSUME SubscriptionTypeOK, TablesFollow, NEW k \in Requests, req[k].pc = "read",
           Written(k), past' \in PastType, past'.changes = past.changes + 1,
           past'.last = req[k].tab, past'.newest = past.newest, past'.failed = past.failed,
           screen' = screen
    PROVE  TablesFollow'
<1> USE SubscriptionAssumption
<1>1. /\ past.changes \in Nat /\ past \in PastType
      /\ \A j \in Requests : req[j].version \in Nat /\ req[j].version <= past.changes
      /\ \A b \in Tabs : screen[b].version \in Nat /\ screen[b].version <= past.changes
      /\ \A b \in Tabs : past.newest[b] \in Nat
  BY DEF SubscriptionTypeOK, PastType, ReqType, ScreenType
<1>2. /\ \A j \in Requests \ {k} : req'[j] = req[j]
      /\ req'[k].pc # "listed"
      /\ req[k].tab # None => req'[k].pc = "written" /\ req'[k].tab = req[k].tab
  BY NoRequestType DEF Written, SubscriptionTypeOK, ReqType
<1>3. \A j \in Requests : req'[j].pc = "listed" => req'[j].version # past'.changes
  BY <1>1, <1>2
<1>4. \A b \in Tabs : screen'[b].version # past'.changes /\ past'.newest[b] <= past'.changes
  BY <1>1 DEF TablesFollow
<1>5. past'.changes # 0
  BY <1>1
<1>6. \A b \in Tabs : past'.last = b => req'[k].tab = b /\ req'[k].pc = "written"
  BY <1>2
<1> QED
  BY <1>3, <1>4, <1>5, <1>6 DEF TablesFollow

\* One request changes, and neither a row nor what a tab has seen of them.
LEMMA RequestKeepsTables ==
    ASSUME SubscriptionTypeOK, TablesFollow, NEW k \in Requests, NEW r,
           req' = [req EXCEPT ![k] = r], row' = row,
           past'.changes = past.changes, past'.last = past.last, past'.newest = past.newest,
           \A b \in Tabs : screen'[b].version = screen[b].version,
           \A b \in Tabs : screen'[b].table = screen[b].table,
           \A b \in Tabs : ~past'.failed[b] => ~past.failed[b],
           r.pc = "listed" /\ r.version = past.changes => r.table = row,
           \/ r.tab = req[k].tab
              /\ \/ req[k].pc \notin {"written", "load", "listed"}
                 \/ req[k].pc = "written" /\ r.pc = "load"
                 \/ r.pc = "listed" /\ r.version = past.changes
           \/ req[k].pc \in {"idle", "sent", "read"}
           \/ req[k].tab \in Tabs => past'.failed[req[k].tab]
    PROVE  TablesFollow'
<1>1. /\ req'[k] = r
      /\ \A j \in Requests \ {k} : req'[j] = req[j]
  BY DEF SubscriptionTypeOK
<1>2. \A j \in Requests : req'[j].pc = "listed" /\ req'[j].version = past'.changes
                             => req'[j].table = row'
  BY <1>1 DEF TablesFollow
<1>3. \A b \in Tabs : /\ screen'[b].version = past'.changes => screen'[b].table = row'
                      /\ past'.newest[b] <= past'.changes
  BY DEF TablesFollow
<1>4. ASSUME NEW b \in Tabs, past'.last = b \/ past'.changes = 0, ~past'.failed[b],
             past'.newest[b] # past'.changes
      PROVE  \E j \in Requests :
                /\ req'[j].tab = b
                /\ \/ req'[j].pc \in {"written", "load"}
                   \/ req'[j].pc = "listed" /\ req'[j].version = past'.changes
  <2>1. PICK j \in Requests :
                /\ req[j].tab = b
                /\ \/ req[j].pc \in {"written", "load"}
                   \/ req[j].pc = "listed" /\ req[j].version = past.changes
    BY <1>4 DEF TablesFollow
  <2>2. CASE j # k
    BY <1>1, <2>1, <2>2
  <2>3. CASE j = k
    BY <1>1, <1>4, <2>1, <2>3
  <2> QED
    BY <2>2, <2>3
<1> QED
  BY <1>2, <1>3, <1>4 DEF TablesFollow

\* The newest table a tab has seen is counted, whatever comes in.
LEMMA ArrivalKeepsTables ==
    ASSUME SubscriptionInv, TablesFollow, NEW k \in Requests, TableArrives(k)
    PROVE  TablesFollow'
<1> DEFINE b == req[k].tab
           n == IF past.newest[b] < req[k].version THEN req[k].version ELSE past.newest[b]
<1>1. /\ SubscriptionTypeOK /\ RequestsHold
      /\ past \in PastType /\ req \in [Requests -> ReqType] /\ screen \in [Tabs -> ScreenType]
  BY DEF SubscriptionInv, SubscriptionTypeOK, PastType
<1>2. b \in Tabs /\ req[k].pc = "listed"
  BY <1>1, RequestFacts DEF TableArrives, RequestsHold
<1>3. /\ past'.newest[b] = n /\ \A c \in Tabs \ {b} : past'.newest[c] = past.newest[c]
      /\ past'.changes = past.changes /\ past'.last = past.last /\ past'.failed = past.failed
      /\ row' = row
  BY <1>1, <1>2 DEF TableArrives, PastType
<1>4. /\ screen'[b].version = req[k].version /\ screen'[b].table = req[k].table
      /\ \A c \in Tabs \ {b} : screen'[c] = screen[c]
  BY <1>1, <1>2 DEF TableArrives, ScreenType
<1>5. /\ req'[k].pc = "idle" /\ \A j \in Requests \ {k} : req'[j] = req[j]
  BY <1>1, NoRequestType DEF TableArrives
<1>6. /\ req[k].version \in Nat /\ req[k].version <= past.changes /\ past.changes \in Nat
      /\ past.newest[b] \in Nat /\ past.newest[b] <= past.changes
  BY <1>1, <1>2, RequestFacts DEF TablesFollow, PastType
<1>7. n <= past.changes /\ (req[k].version = past.changes => n = past.changes)
      /\ (past.newest[b] = past.changes => n = past.changes)
  BY <1>6
<1> HIDE DEF n
<1>8. \A j \in Requests : req'[j].pc = "listed" /\ req'[j].version = past'.changes
                             => req'[j].table = row'
  BY <1>3, <1>5 DEF TablesFollow
<1>9. \A c \in Tabs : /\ screen'[c].version = past'.changes => screen'[c].table = row'
                      /\ past'.newest[c] <= past'.changes
  BY <1>2, <1>3, <1>4, <1>7 DEF TablesFollow
<1>10. ASSUME NEW c \in Tabs, past'.last = c \/ past'.changes = 0, ~past'.failed[c],
              past'.newest[c] # past'.changes
       PROVE  \E j \in Requests :
                 /\ req'[j].tab = c
                 /\ \/ req'[j].pc \in {"written", "load"}
                    \/ req'[j].pc = "listed" /\ req'[j].version = past'.changes
  <2>1. past.newest[c] # past.changes
    BY <1>3, <1>7, <1>10
  <2>2. PICK j \in Requests :
                /\ req[j].tab = c
                /\ \/ req[j].pc \in {"written", "load"}
                   \/ req[j].pc = "listed" /\ req[j].version = past.changes
    BY <1>3, <1>10, <2>1 DEF TablesFollow
  <2>3. j # k
    BY <1>2, <1>3, <1>7, <1>10, <2>2
  <2> QED
    BY <1>3, <1>5, <2>2, <2>3
<1> QED
  BY <1>8, <1>9, <1>10 DEF TablesFollow

LEMMA TablesStep ==
    SubscriptionInv /\ TablesFollow /\ [SubscriptionNext]_subscriptionVars => TablesFollow'
<1> SUFFICES ASSUME SubscriptionInv, TablesFollow, [SubscriptionNext]_subscriptionVars
             PROVE  TablesFollow'
  OBVIOUS
<1> USE SubscriptionAssumption
<1>0. /\ SubscriptionTypeOK /\ RequestsHold
      /\ past \in PastType /\ req \in [Requests -> ReqType] /\ screen \in [Tabs -> ScreenType]
  BY DEF SubscriptionInv, SubscriptionTypeOK, PastType
<1>1. ASSUME NEW k \in Requests, NEW b \in Tabs, NEW t \in Tenants, NEW op \in Operations,
             Click(k, b, t, op)
      PROVE  TablesFollow'
  <2> DEFINE r == [req[k] EXCEPT !.pc = "sent", !.op = op, !.tab = b, !.tenant = t]
  <2>1. req' = [req EXCEPT ![k] = r] /\ row' = row /\ r.pc = "sent" /\ req[k].pc = "idle"
    BY <1>0, <1>1 DEF Click, Send, ReqType
  <2>2. /\ past'.changes = past.changes /\ past'.last = past.last
        /\ past'.newest = past.newest /\ past'.failed = past.failed
    BY <1>0, <1>1 DEF Click, Send, PastType
  <2>3. \A c \in Tabs : screen'[c].version = screen[c].version /\ screen'[c].table = screen[c].table
    BY <1>0, <1>1 DEF Click, Send, ScreenType
  <2> HIDE DEF r
  <2> QED
    BY <1>0, <2>1, <2>2, <2>3, RequestKeepsTables
<1>2. ASSUME NEW k \in Requests, FindUnique(k) PROVE TablesFollow'
  <2> DEFINE r == [req[k] EXCEPT !.pc = "read", !.found = row[req[k].tenant], !.today = now]
  <2>1. req' = [req EXCEPT ![k] = r] /\ r.pc = "read" /\ req[k].pc = "sent"
        /\ UNCHANGED <<row, past, screen>>
    BY <1>0, <1>2 DEF FindUnique, ReqType
  <2> HIDE DEF r
  <2> QED
    BY <1>0, <2>1, RequestKeepsTables
<1>3. ASSUME NEW k \in Requests, ToggleTenantActive(k) PROVE TablesFollow'
  <2>1. past' \in PastType
    BY <1>3, ToggleKeepsInv DEF SubscriptionInv, SubscriptionTypeOK, PastType
  <2>2. /\ past'.changes = past.changes + 1 /\ past'.last = req[k].tab
        /\ past'.newest = past.newest /\ past'.failed = past.failed /\ screen' = screen
        /\ req[k].pc = "read" /\ Written(k)
    BY <1>0, <1>3 DEF ToggleTenantActive, PastType
  <2> QED
    BY <1>0, <2>1, <2>2, ChangeKeepsTables
<1>4. ASSUME NEW k \in Requests, ExtendSubscription(k) PROVE TablesFollow'
  <2>1. past' \in PastType
    BY <1>4, ExtendKeepsInv DEF SubscriptionInv, SubscriptionTypeOK, PastType
  <2>2. /\ past'.changes = past.changes + 1 /\ past'.last = req[k].tab
        /\ past'.newest = past.newest /\ past'.failed = past.failed /\ screen' = screen
        /\ req[k].pc = "read" /\ Written(k)
    BY <1>0, <1>4 DEF ExtendSubscription, PastType
  <2> QED
    BY <1>0, <2>1, <2>2, ChangeKeepsTables
<1>5. ASSUME NEW k \in Requests, LoadTenants(k) PROVE TablesFollow'
  <2> DEFINE r == [req[k] EXCEPT !.pc = "load"]
  <2>1. req' = [req EXCEPT ![k] = r] /\ r.pc = "load" /\ r.tab = req[k].tab
        /\ req[k].pc = "written" /\ UNCHANGED <<row, past>>
    BY <1>0, <1>5 DEF LoadTenants, ReqType
  <2>2. \A c \in Tabs : screen'[c].version = screen[c].version /\ screen'[c].table = screen[c].table
    BY <1>0, <1>5 DEF LoadTenants, ScreenType
  <2> HIDE DEF r
  <2> QED
    BY <1>0, <2>1, <2>2, RequestKeepsTables
<1>6. ASSUME NEW k \in Requests, ListTenants(k) PROVE TablesFollow'
  <2> DEFINE r == [req[k] EXCEPT !.pc = "listed", !.version = past.changes, !.table = row]
  <2>1. req' = [req EXCEPT ![k] = r] /\ r.pc = "listed" /\ r.tab = req[k].tab
        /\ r.version = past.changes /\ r.table = row /\ UNCHANGED <<row, past, screen>>
    BY <1>0, <1>6 DEF ListTenants, ReqType
  <2> HIDE DEF r
  <2> QED
    BY <1>0, <2>1, RequestKeepsTables
<1>7. ASSUME NEW k \in Requests, TableArrives(k) PROVE TablesFollow'
  BY <1>7, ArrivalKeepsTables
<1>8. ASSUME NEW k \in Requests, RequestFails(k) PROVE TablesFollow'
  <2>1. req[k].tab \in Tabs
    BY <1>0, <1>8, RequestFacts DEF RequestFails
  <2>2. /\ past'.changes = past.changes /\ past'.last = past.last
        /\ past'.newest = past.newest /\ past'.failed[req[k].tab]
        /\ \A c \in Tabs : past.failed[c] => past'.failed[c]
        /\ row' = row
    BY <1>0, <1>8, <2>1 DEF RequestFails, PastType
  <2>3. \A c \in Tabs : screen'[c].version = screen[c].version /\ screen'[c].table = screen[c].table
    BY <1>0, <1>8, <2>1 DEF RequestFails, ScreenType
  <2>4. CASE req' = [req EXCEPT ![k] = NoRequest]
    BY <1>0, <2>2, <2>3, <2>4, NoRequestType, RequestKeepsTables
  <2>5. CASE req[k].pc \in {"sent", "read"} /\ req' = [req EXCEPT ![k].tab = None]
    <3> DEFINE r == [req[k] EXCEPT !.tab = None]
    <3>1. req' = [req EXCEPT ![k] = r] /\ r.pc = req[k].pc
      BY <1>0, <2>5 DEF ReqType
    <3> HIDE DEF r
    <3>2. r.pc # "listed" /\ req[k].pc \in {"idle", "sent", "read"}
      BY <2>5, <3>1
    <3>3. \A c \in Tabs : ~past'.failed[c] => ~past.failed[c]
      BY <2>2
    <3> QED
      BY <1>0, <2>2, <2>3, <3>1, <3>2, <3>3, RequestKeepsTables
  <2> QED
    BY <1>8, <2>4, <2>5 DEF RequestFails
<1>9. ASSUME NEW k \in Requests, RequestLost(k) PROVE TablesFollow'
  <2>1. req' = [req EXCEPT ![k] = NoRequest] /\ req[k].pc = "sent"
        /\ UNCHANGED <<row, past, screen>>
    BY <1>9 DEF RequestLost
  <2> QED
    BY <1>0, <2>1, NoRequestType, RequestKeepsTables
<1>10. CASE Tick
  <2>1. /\ past'.changes = past.changes /\ past'.last = past.last
        /\ past'.newest = past.newest /\ past'.failed = past.failed
        /\ UNCHANGED <<row, req, screen>>
    BY <1>0, <1>10 DEF Tick, PastType
  <2> QED
    BY <2>1 DEF TablesFollow
<1>11. CASE UNCHANGED subscriptionVars
  BY <1>11 DEF subscriptionVars, TablesFollow
<1> QED
  BY <1>1, <1>2, <1>3, <1>4, <1>5, <1>6, <1>7, <1>8, <1>9, <1>10, <1>11 DEF SubscriptionNext

\* TableIsCurrent (AdminDashboard.jsx, loadTenants): for any number of tabs and requests,
\* the tab of the last change ends with the rows as they are, unless a request of it
\* failed or an older table came in last.
THEOREM TablesAreCurrent == SubscriptionSpec => []TableIsCurrent
<1>1. SubscriptionInv /\ TablesFollow => TableIsCurrent
  <2> SUFFICES ASSUME SubscriptionInv, TablesFollow, NEW b \in Tabs,
                      \A k \in Requests : req[k].pc = "idle",
                      past.last = b \/ past.changes = 0, ~past.failed[b],
                      screen[b].version = past.newest[b]
               PROVE  screen[b].table = row
    BY DEF TableIsCurrent
  <2>1. past.newest[b] = past.changes
    BY DEF TablesFollow
  <2> QED
    BY <2>1 DEF TablesFollow
<1> QED
  BY <1>1, SubscriptionInvariant, TablesFollowInitially, SubscriptionInitially, TablesStep, PTL
  DEF SubscriptionSpec

\* SubscriptionsSafe: all of this at once.
THEOREM SubscriptionsAreSafe == SubscriptionSpec => []SubscriptionsSafe
  BY DaysAlwaysAddUp, TogglesAlwaysCount, RequestsOneAtATime, TablesAreCurrent, PTL
  DEF SubscriptionsSafe

-----------------------------------------------------------------------------
(* ClientAccounts: any emails, passwords and number of calls.               *)

\* A call whose password is the user's: it has written it, and will show or shows it.
WrittenCalls == shown \cup {k \in UserCalls : userCall[k].pc = "answer"}

\* Credentials work from the write on, not only once they are shown; what is shown
\* is of a call that has ended.
Credentials ==
    /\ \A k \in WrittenCalls \ userPast.overtaken : user[userCall[k].email] = userCall[k].password
    /\ \A k \in shown \cup token : userCall[k].pc = "done"

\* What a login has found was the user's password while the login was handled, and a
\* login that signs has typed it.  A reset has found a user, and users stay.
Logins ==
    \A k \in UserCalls :
        /\ userCall[k].op = "reset" /\ userCall[k].pc \in {"hash", "write"} => user[userCall[k].email] # Nobody
        /\ userCall[k].pc \in {"compare", "sign"} => userCall[k].found \in userPast.valid[k]
        /\ userCall[k].pc = "sign" => userCall[k].password = userCall[k].found

AccountsInv ==
    /\ ClientAccountsTypeOK
    /\ OneClientPerTenant
    /\ Credentials
    /\ TokensWereEarned
    /\ Logins

LEMMA AccountsInitially == UserInit => AccountsInv
  BY AccountsAssumption
  DEF UserInit, AccountsInv, ClientAccountsTypeOK, UserCallType, NoUserCall, OneClientPerTenant,
      Credentials, WrittenCalls, TokensWereEarned, Logins

-----------------------------------------------------------------------------
\* A call that begins has read the user of its email, and is shown nowhere.
LEMMA BeginKeepsInv ==
    ASSUME AccountsInv, NEW k \in UserCalls, NEW e \in Emails, NEW p \in Passwords,
           NEW op \in {"create", "reset", "login"},
           NEW pc \in {"hash", "compare", "refused"},
           pc = "compare" \/ op = "reset" => user[e] # Nobody,
           Begin(k, op, e, p, pc)
    PROVE  AccountsInv'
<1> USE AccountsAssumption
<1> DEFINE c == [pc |-> pc, op |-> op, email |-> e, password |-> p, found |-> user[e]]
<1>1. /\ userCall[k].pc = "idle"
      /\ userCall' = [userCall EXCEPT ![k] = c]
      /\ userPast' = [userPast EXCEPT !.valid[k] = {user[e]}]
      /\ tenant' = tenant /\ user' = user /\ shown' = shown /\ token' = token
  BY DEF Begin
<1>2. ClientAccountsTypeOK
  BY DEF AccountsInv
<1>3. c \in UserCallType /\ user[e] \in Passwords \cup {Nobody}
  BY <1>2 DEF ClientAccountsTypeOK, UserCallType
<1>4. /\ userCall' \in [UserCalls -> UserCallType]
      /\ userCall'[k] = c
      /\ \A j \in UserCalls \ {k} : userCall'[j] = userCall[j]
  BY <1>1, <1>2, <1>3 DEF ClientAccountsTypeOK
<1>5. /\ userPast' \in [overtaken : SUBSET UserCalls,
                        valid : [UserCalls -> SUBSET (Passwords \cup {Nobody})]]
      /\ userPast'.overtaken = userPast.overtaken
      /\ userPast'.valid[k] = {user[e]}
      /\ \A j \in UserCalls \ {k} : userPast'.valid[j] = userPast.valid[j]
  BY <1>1, <1>2, <1>3 DEF ClientAccountsTypeOK
<1>6. k \notin shown \cup token
  BY <1>1 DEF AccountsInv, Credentials
<1>7. ClientAccountsTypeOK'
  BY <1>1, <1>2, <1>3, <1>4, <1>5 DEF ClientAccountsTypeOK
<1>8. OneClientPerTenant'
  BY <1>1 DEF AccountsInv, OneClientPerTenant
<1>9. Credentials'
  BY <1>1, <1>2, <1>4, <1>5, <1>6 DEF AccountsInv, Credentials, WrittenCalls, ClientAccountsTypeOK
<1>10. TokensWereEarned'
  BY <1>1, <1>2, <1>4, <1>5, <1>6 DEF AccountsInv, TokensWereEarned, ClientAccountsTypeOK
<1>11. Logins'
  BY <1>1, <1>4, <1>5 DEF AccountsInv, Logins
<1> QED
  BY <1>7, <1>8, <1>9, <1>10, <1>11 DEF AccountsInv

\* What writing a password leaves of it: the writer's is the user's, every other call
\* of the email is overtaken, and no call has lost a password it may be earned by.
LEMMA PasswordIsSet ==
    ASSUME ClientAccountsTypeOK, NEW k \in UserCalls, NEW e \in Emails, NEW p \in Passwords,
           SetPassword(k, e, p)
    PROVE  /\ user' \in [Emails -> Passwords \cup {Nobody}]
           /\ user'[e] = p
           /\ \A d \in Emails \ {e} : user'[d] = user[d]
           /\ userPast' \in [overtaken : SUBSET UserCalls,
                             valid : [UserCalls -> SUBSET (Passwords \cup {Nobody})]]
           /\ \A j \in UserCalls \ {k} :
                  j \notin userPast'.overtaken => j \notin userPast.overtaken /\ userCall[j].email # e
           /\ \A j \in UserCalls : userPast.valid[j] \subseteq userPast'.valid[j]
<1>1. user' = [user EXCEPT ![e] = p]
  BY DEF SetPassword
<1>2. /\ userPast'.overtaken = (userPast.overtaken \cup {j \in UserCalls : userCall[j].email = e}) \ {k}
      /\ userPast'.valid = [j \in UserCalls |->
                                  IF userCall[j].email = e /\ userCall[j].pc \notin {"done", "refused"}
                                  THEN userPast.valid[j] \cup {p} ELSE userPast.valid[j]]
      /\ userPast' = [overtaken |-> userPast'.overtaken, valid |-> userPast'.valid]
  BY DEF SetPassword
<1> QED
  BY <1>1, <1>2 DEF ClientAccountsTypeOK

\* A call that has written its password: it waits to be answered.
LEMMA WriteKeepsInv ==
    ASSUME AccountsInv, NEW k \in UserCalls,
           userCall[k].pc = "write",
           SetPassword(k, userCall[k].email, userCall[k].password),
           userCall' = [userCall EXCEPT ![k].pc = "answer"],
           tenant' = [tenant EXCEPT ![userCall[k].email] = 1],
           UNCHANGED <<shown, token>>
    PROVE  AccountsInv'
<1> USE AccountsAssumption
<1> DEFINE e == userCall[k].email
           p == userCall[k].password
<1>1. ClientAccountsTypeOK
  BY DEF AccountsInv
<1>2. e \in Emails /\ p \in Passwords
  BY <1>1 DEF ClientAccountsTypeOK, UserCallType
<1>3. /\ user' \in [Emails -> Passwords \cup {Nobody}]
      /\ user'[e] = p
      /\ \A d \in Emails \ {e} : user'[d] = user[d]
      /\ userPast' \in [overtaken : SUBSET UserCalls,
                        valid : [UserCalls -> SUBSET (Passwords \cup {Nobody})]]
      /\ \A j \in UserCalls \ {k} :
             j \notin userPast'.overtaken => j \notin userPast.overtaken /\ userCall[j].email # e
      /\ \A j \in UserCalls : userPast.valid[j] \subseteq userPast'.valid[j]
  BY <1>1, <1>2, PasswordIsSet
<1>4. /\ userCall' \in [UserCalls -> UserCallType]
      /\ userCall'[k] = [userCall[k] EXCEPT !.pc = "answer"]
      /\ \A j \in UserCalls \ {k} : userCall'[j] = userCall[j]
  BY <1>1 DEF ClientAccountsTypeOK, UserCallType
<1>5. userCall'[k].pc = "answer" /\ userCall'[k].email = e /\ userCall'[k].password = p
  BY <1>1, <1>4 DEF ClientAccountsTypeOK, UserCallType
<1>6. k \notin shown \cup token
  BY DEF AccountsInv, Credentials
<1>7. tenant' \in [Emails -> Nat]
  BY <1>1, <1>2 DEF ClientAccountsTypeOK
<1>8. ClientAccountsTypeOK'
  BY <1>1, <1>2, <1>3, <1>4, <1>5, <1>7 DEF ClientAccountsTypeOK
<1>9. OneClientPerTenant'
  BY <1>1, <1>2, <1>3 DEF AccountsInv, OneClientPerTenant, ClientAccountsTypeOK
<1>10. Credentials'
  <2>1. \A j \in WrittenCalls' \ userPast'.overtaken : user'[userCall'[j].email] = userCall'[j].password
    <3> SUFFICES ASSUME NEW j \in WrittenCalls' \ userPast'.overtaken
                 PROVE  user'[userCall'[j].email] = userCall'[j].password
      OBVIOUS
    <3>1. CASE j = k
      BY <1>3, <1>5, <3>1
    <3>2. CASE j # k
      <4>1. j \in UserCalls /\ j \in WrittenCalls
        BY <1>1, <1>4, <3>2 DEF WrittenCalls, ClientAccountsTypeOK
      <4>2. j \notin userPast.overtaken /\ userCall[j].email # e
        BY <1>3, <3>2, <4>1
      <4>3. userCall[j].email \in Emails
        BY <1>1, <4>1 DEF WrittenCalls, ClientAccountsTypeOK, UserCallType, AccountsInv, Credentials
      <4> QED
        BY <1>3, <1>4, <3>2, <4>1, <4>2, <4>3 DEF AccountsInv, Credentials
    <3> QED
      BY <3>1, <3>2
  <2>2. \A j \in (shown \cup token)' : userCall'[j].pc = "done"
    BY <1>1, <1>4, <1>6 DEF AccountsInv, Credentials, ClientAccountsTypeOK
  <2> QED
    BY <2>1, <2>2 DEF Credentials
<1>11. TokensWereEarned'
  BY <1>1, <1>3, <1>4, <1>6 DEF AccountsInv, TokensWereEarned, ClientAccountsTypeOK
<1>12. Logins'
  <2>1. \A d \in Emails : user[d] # Nobody => user'[d] # Nobody
    BY <1>2, <1>3
  <2>2. \A j \in UserCalls : userCall[j].op = "reset" /\ userCall[j].pc \in {"hash", "write"}
                             => userCall[j].email \in Emails
    BY <1>1 DEF ClientAccountsTypeOK, UserCallType
  <2> QED
    BY <1>3, <1>4, <1>5, <2>1, <2>2 DEF AccountsInv, Logins
<1> QED
  BY <1>8, <1>9, <1>10, <1>11, <1>12 DEF AccountsInv

\* Of a call that has not ended nothing is shown or signed.
LEMMA Unseen ==
    ASSUME AccountsInv, NEW k \in UserCalls, userCall[k].pc # "done"
    PROVE  k \notin shown /\ k \notin token
  BY DEF AccountsInv, Credentials

\* A call goes on and changes no user: to the next step of its kind, to its end, or to
\* the signing of what it has compared.
LEMMA GoingOnKeepsInv ==
    ASSUME AccountsInv, NEW k \in UserCalls,
           NEW pc \in {"write", "sign", "done", "refused"},
           userCall[k].pc \in {"hash", "write", "answer", "compare", "sign"},
           pc = "sign" => userCall[k].pc = "compare" /\ userCall[k].password = userCall[k].found,
           userCall' = [userCall EXCEPT ![k].pc = pc],
           shown' \subseteq shown \cup {k}, k \in shown' => pc = "done" /\ userCall[k].pc = "answer",
           token' \subseteq token \cup {k}, k \in token' => pc = "done" /\ userCall[k].pc = "sign",
           pc = "write" => userCall[k].pc = "hash",
           UNCHANGED <<tenant, user, userPast>>
    PROVE  AccountsInv'
<1> USE AccountsAssumption
<1>1. ClientAccountsTypeOK
  BY DEF AccountsInv
<1>2. /\ userCall' \in [UserCalls -> UserCallType]
      /\ userCall'[k] = [userCall[k] EXCEPT !.pc = pc]
      /\ \A j \in UserCalls \ {k} : userCall'[j] = userCall[j]
  BY <1>1 DEF ClientAccountsTypeOK, UserCallType
<1>3. /\ userCall'[k].pc = pc /\ userCall'[k].email = userCall[k].email
      /\ userCall'[k].password = userCall[k].password /\ userCall'[k].found = userCall[k].found
  BY <1>1, <1>2 DEF ClientAccountsTypeOK, UserCallType
<1>0. k \notin shown \cup token
  BY DEF AccountsInv, Credentials
<1>4. /\ \A j \in shown' : (j = k /\ pc = "done" /\ userCall[k].pc = "answer") \/ (j \in shown /\ j # k)
      /\ \A j \in token' : (j = k /\ pc = "done" /\ userCall[k].pc = "sign") \/ (j \in token /\ j # k)
      /\ shown' \subseteq UserCalls /\ token' \subseteq UserCalls
  <2>1. \A j \in shown' : (j \in shown /\ j # k) \/ j = k
    BY <1>0
  <2>2. \A j \in token' : (j \in token /\ j # k) \/ j = k
    BY <1>0
  <2>3. shown' \subseteq UserCalls /\ token' \subseteq UserCalls
    BY <1>1 DEF ClientAccountsTypeOK
  <2> QED
    BY <2>1, <2>2, <2>3
<1>5. ClientAccountsTypeOK'
  BY <1>1, <1>2, <1>3, <1>4 DEF ClientAccountsTypeOK
<1>6. OneClientPerTenant'
  BY DEF AccountsInv, OneClientPerTenant
<1>7. Credentials'
  <2>1. \A j \in WrittenCalls' : j \in WrittenCalls
    BY <1>2, <1>3, <1>4 DEF WrittenCalls
  <2>2. \A j \in WrittenCalls : j \in UserCalls /\ userCall'[j].email = userCall[j].email
                           /\ userCall'[j].password = userCall[j].password
    BY <1>1, <1>2, <1>3 DEF WrittenCalls, ClientAccountsTypeOK
  <2>3. \A j \in (shown \cup token)' : userCall'[j].pc = "done"
    BY <1>1, <1>2, <1>3, <1>4 DEF AccountsInv, Credentials, ClientAccountsTypeOK
  <2> QED
    BY <2>1, <2>2, <2>3 DEF AccountsInv, Credentials
<1>8. TokensWereEarned'
  <2>1. userCall[k].pc = "sign" => userCall[k].password \in userPast.valid[k]
    BY DEF AccountsInv, Logins
  <2> QED
    BY <1>1, <1>2, <1>3, <1>4, <2>1 DEF AccountsInv, TokensWereEarned, ClientAccountsTypeOK
<1>9. Logins'
  <2>1. userCall'[k].op = userCall[k].op
    BY <1>1, <1>2 DEF ClientAccountsTypeOK, UserCallType
  <2> QED
    BY <1>2, <1>3, <2>1 DEF AccountsInv, Logins
<1> QED
  BY <1>5, <1>6, <1>7, <1>8, <1>9 DEF AccountsInv

-----------------------------------------------------------------------------
LEMMA AccountsStep == AccountsInv /\ [UserNext]_userVars => AccountsInv'
<1> USE AccountsAssumption
<1> SUFFICES ASSUME AccountsInv, [UserNext]_userVars
             PROVE  AccountsInv'
  OBVIOUS
<1>1. ASSUME NEW k \in UserCalls, NEW e \in Emails, NEW p \in Passwords, CreateTenant(k, e, p)
      PROVE  AccountsInv'
  <2>1. CASE user[e] = Nobody
    BY <1>1, <2>1, BeginKeepsInv DEF CreateTenant
  <2>2. CASE user[e] # Nobody
    BY <1>1, <2>2, BeginKeepsInv DEF CreateTenant
  <2> QED
    BY <2>1, <2>2
<1>2. ASSUME NEW k \in UserCalls, NEW e \in Emails, NEW p \in Passwords, ResetClientPassword(k, e, p)
      PROVE  AccountsInv'
  BY <1>2, BeginKeepsInv DEF ResetClientPassword
<1>3. ASSUME NEW k \in UserCalls, NEW e \in Emails, NEW p \in Passwords, Login(k, e, p)
      PROVE  AccountsInv'
  <2>1. CASE user[e] = Nobody
    BY <1>3, <2>1, BeginKeepsInv DEF Login
  <2>2. CASE user[e] # Nobody
    BY <1>3, <2>2, BeginKeepsInv DEF Login
  <2> QED
    BY <2>1, <2>2
<1>4. ASSUME NEW k \in UserCalls, Hash(k) PROVE AccountsInv'
  <2>1. /\ userCall[k].pc = "hash" /\ userCall' = [userCall EXCEPT ![k].pc = "write"]
        /\ UNCHANGED <<tenant, user, shown, token, userPast>>
    BY <1>4 DEF Hash
  <2> QED
    BY <2>1, Unseen, GoingOnKeepsInv
<1>5. ASSUME NEW k \in UserCalls, CreateTransaction(k) PROVE AccountsInv'
  <2>1. CASE /\ user[userCall[k].email] = Nobody
             /\ tenant' = [tenant EXCEPT ![userCall[k].email] = @ + 1]
             /\ SetPassword(k, userCall[k].email, userCall[k].password)
             /\ userCall' = [userCall EXCEPT ![k].pc = "answer"]
    <3>1. userCall[k].email \in Emails /\ tenant \in [Emails -> Nat]
      BY <1>5 DEF CreateTransaction, AccountsInv, ClientAccountsTypeOK, UserCallType
    <3>2. tenant[userCall[k].email] = 0
      BY <2>1, <3>1 DEF AccountsInv, OneClientPerTenant
    <3>3. tenant' = [tenant EXCEPT ![userCall[k].email] = 1]
      BY <2>1, <3>1, <3>2
    <3> QED
      BY <1>5, <2>1, <3>3, WriteKeepsInv DEF CreateTransaction
  <2>2. CASE /\ userCall' = [userCall EXCEPT ![k].pc = "refused"]
             /\ UNCHANGED <<tenant, user, userPast>>
    <3>1. /\ userCall[k].pc = "write" /\ userCall' = [userCall EXCEPT ![k].pc = "refused"]
          /\ UNCHANGED <<tenant, user, shown, token, userPast>>
      BY <1>5, <2>2 DEF CreateTransaction
    <3> QED
      BY <3>1, Unseen, GoingOnKeepsInv
  <2> QED
    BY <1>5, <2>1, <2>2 DEF CreateTransaction
<1>6. ASSUME NEW k \in UserCalls, ResetUpdate(k) PROVE AccountsInv'
  <2>1. CASE /\ SetPassword(k, userCall[k].email, userCall[k].password)
             /\ userCall' = [userCall EXCEPT ![k].pc = "answer"]
    <3>1. userCall[k].email \in Emails /\ tenant \in [Emails -> Nat]
      BY <1>6 DEF ResetUpdate, AccountsInv, ClientAccountsTypeOK, UserCallType
    <3>2. tenant[userCall[k].email] = 1
      BY <1>6, <3>1 DEF ResetUpdate, AccountsInv, OneClientPerTenant, Logins
    <3>3. tenant' = [tenant EXCEPT ![userCall[k].email] = 1]
      BY <1>6, <3>1, <3>2 DEF ResetUpdate
    <3> QED
      BY <1>6, <2>1, <3>3, WriteKeepsInv DEF ResetUpdate
  <2>2. CASE /\ userCall' = [userCall EXCEPT ![k].pc = "refused"]
             /\ UNCHANGED <<user, userPast>>
    <3>1. /\ userCall[k].pc = "write" /\ userCall' = [userCall EXCEPT ![k].pc = "refused"]
          /\ UNCHANGED <<tenant, user, shown, token, userPast>>
      BY <1>6, <2>2 DEF ResetUpdate
    <3> QED
      BY <3>1, Unseen, GoingOnKeepsInv
  <2> QED
    BY <1>6, <2>1, <2>2 DEF ResetUpdate
<1>7. ASSUME NEW k \in UserCalls, CredentialsShown(k) PROVE AccountsInv'
  <2>1. /\ userCall[k].pc = "answer" /\ userCall' = [userCall EXCEPT ![k].pc = "done"]
        /\ shown' \subseteq shown \cup {k}
        /\ UNCHANGED <<tenant, user, token, userPast>>
    BY <1>7 DEF CredentialsShown
  <2>2. k \notin token
    BY <2>1, Unseen
  <2>3. token' \subseteq token \cup {k} /\ k \notin token'
    BY <2>1, <2>2
  <2> QED
    BY <2>1, <2>3, GoingOnKeepsInv
<1>8. ASSUME NEW k \in UserCalls, Compare(k) PROVE AccountsInv'
  <2>1. /\ userCall[k].pc = "compare"
        /\ UNCHANGED <<tenant, user, shown, token, userPast>>
    BY <1>8 DEF Compare
  <2>2. CASE userCall[k].password = userCall[k].found
    <3>1. userCall' = [userCall EXCEPT ![k].pc = "sign"]
      BY <1>8, <2>2 DEF Compare
    <3> QED
      BY <2>1, <2>2, <3>1, Unseen, GoingOnKeepsInv
  <2>3. CASE userCall[k].password # userCall[k].found
    <3>1. userCall' = [userCall EXCEPT ![k].pc = "refused"]
      BY <1>8, <2>3 DEF Compare
    <3> QED
      BY <2>1, <3>1, Unseen, GoingOnKeepsInv
  <2> QED
    BY <2>2, <2>3
<1>9. ASSUME NEW k \in UserCalls, Sign(k) PROVE AccountsInv'
  <2>1. /\ userCall[k].pc = "sign" /\ userCall' = [userCall EXCEPT ![k].pc = "done"]
        /\ token' = token \cup {k}
        /\ UNCHANGED <<tenant, user, shown, userPast>>
    BY <1>9 DEF Sign
  <2>2. k \notin shown' /\ shown' \subseteq shown \cup {k}
    BY <2>1, Unseen
  <2> QED
    BY <2>1, <2>2, GoingOnKeepsInv
<1>10. CASE UNCHANGED userVars
  BY <1>10
  DEF userVars, AccountsInv, ClientAccountsTypeOK, OneClientPerTenant, Credentials, WrittenCalls,
      TokensWereEarned, Logins
<1> QED
  BY <1>1, <1>2, <1>3, <1>4, <1>5, <1>6, <1>7, <1>8, <1>9, <1>10 DEF UserNext

\* The inductive invariant: the stated properties, with what they need of the calls
\* that are under way.
THEOREM AccountsInvariant == UserSpec => []AccountsInv
  BY AccountsInitially, AccountsStep, PTL DEF UserSpec

\* Type correctness (ClientAccountsTypeOK): every call that goes on has its operands,
\* whatever overlaps.
THEOREM AccountsTypeCorrect == UserSpec => []ClientAccountsTypeOK
<1>1. AccountsInv => ClientAccountsTypeOK
  BY DEF AccountsInv
<1> QED
  BY <1>1, AccountsInvariant, PTL

\* OneClientPerTenant (admin.service.ts, createTenant): the transaction and the unique
\* email keep a tenant and its client user together, for any number of creations that
\* have passed the first query.
THEOREM TenantsHaveOneClient == UserSpec => []OneClientPerTenant
<1>1. AccountsInv => OneClientPerTenant
  BY DEF AccountsInv
<1> QED
  BY <1>1, AccountsInvariant, PTL

\* ShownCredentialsWork (admin.service.ts, createTenant and resetClientPassword):
\* what the administrator reads out is the client's password, unless a later write
\* has replaced it.
THEOREM CredentialsWork == UserSpec => []ShownCredentialsWork
<1>1. AccountsInv => ShownCredentialsWork
  BY DEF AccountsInv, Credentials, WrittenCalls, ShownCredentialsWork
<1> QED
  BY <1>1, AccountsInvariant, PTL

\* TokensWereEarned (auth.service.ts, login): a token is given for a password that was
\* the user's at some moment of its login.
THEOREM TokensAreEarned == UserSpec => []TokensWereEarned
<1>1. AccountsInv => TokensWereEarned
  BY DEF AccountsInv
<1> QED
  BY <1>1, AccountsInvariant, PTL

\* LoginsSafe: all of this at once.
THEOREM LoginsAreSafe == UserSpec => []LoginsSafe
  BY TenantsHaveOneClient, CredentialsWork, TokensAreEarned, PTL DEF LoginsSafe

-----------------------------------------------------------------------------
(* AccountCache: any accounts, numbers, calls and life of a key, whether    *)
(* Redis fails or not.                                                      *)

\* The older a key, the longer its account may be gone; the cap of the clock is
\* never reached by what routes a message.
Ages ==
    /\ \A a \in Accounts, p \in Phones : Serves(a, p) => accountPast.gone[a][p] = 0
    /\ \A p \in Phones :
           cache[p].account # NoNumber =>
               /\ cache[p].left > 0
               /\ accountPast.gone[cache[p].account][p] <= TTL - cache[p].left + MaxFill
    /\ \A l \in Lookups :
           look[l].pc = "found" => accountPast.gone[look[l].account][look[l].phone] <= look[l].wait

AccountInv ==
    /\ AccountTypeOK
    /\ Ages
    /\ StaleRoutesBounded
    /\ StaleKeysExplained

\* What is known of a call that has begun.
LEMMA CallsHaveOperands ==
    ASSUME AccountTypeOK, NEW c \in Calls, call[c].pc # "idle"
    PROVE  call[c].account \in Accounts /\ call[c].old \in Phones
  BY DEF AccountTypeOK, CallType

\* Writing a row leaves the numbers unique and only turns clocks back.
LEMMA RowWrites ==
    ASSUME AccountTypeOK, Ages, NEW a \in Accounts, NEW r \in AccountRow,
           NEW reasons \in [Phones -> SUBSET Reasons], RowBecomes(a, r, reasons),
           r.state = "alive" => r.phone # NoNumber
                                /\ ((accountRow[a].state = "alive" /\ accountRow[a].phone = r.phone) \/ Free(r.phone))
    PROVE  /\ accountRow' \in [Accounts -> AccountRow]
           /\ accountRow'[a] = r
           /\ \A b \in Accounts \ {a} : accountRow'[b] = accountRow[b]
           /\ \A b \in Accounts : accountRow'[b].state = "alive" => accountRow'[b].phone # NoNumber
           /\ \A b, d \in Accounts :
                  accountRow'[b].state = "alive" /\ accountRow'[d].state = "alive"
                      /\ accountRow'[b].phone = accountRow'[d].phone => b = d
           /\ accountPast' \in [gone : [Accounts -> [Phones -> 0..Longest]],
                                reasons : [Phones -> SUBSET Reasons]]
           /\ accountPast'.reasons = reasons
           /\ \A b \in Accounts, p \in Phones :
                  accountPast'.gone[b][p] <= accountPast.gone[b][p]
           /\ \A b \in Accounts, p \in Phones :
                  Active(accountRow'[b], p) => accountPast'.gone[b][p] = 0
<1> USE AccountAssumption
<1> DEFINE g == [p \in Phones |->
               IF Serves(a, p) \/ Active(r, p) THEN 0 ELSE accountPast.gone[a][p]]
<1>1. accountRow' = [accountRow EXCEPT ![a] = r] /\ accountRow \in [Accounts -> AccountRow]
  BY DEF RowBecomes, AccountTypeOK
<1>2. /\ accountRow' \in [Accounts -> AccountRow]
      /\ accountRow'[a] = r
      /\ \A b \in Accounts \ {a} : accountRow'[b] = accountRow[b]
  BY <1>1
<1>3. \A b \in Accounts : accountRow'[b].state = "alive" => accountRow'[b].phone # NoNumber
  BY <1>2 DEF AccountTypeOK
<1>4. \A b, d \in Accounts :
          accountRow'[b].state = "alive" /\ accountRow'[d].state = "alive"
              /\ accountRow'[b].phone = accountRow'[d].phone => b = d
  BY <1>2 DEF AccountTypeOK, Free
<1>5. accountPast.gone \in [Accounts -> [Phones -> 0..Longest]] /\ 0 \in 0..Longest
  BY DEF AccountTypeOK, Longest
<1>6. g \in [Phones -> 0..Longest]
  BY <1>5
<1>7. /\ accountPast' = [gone |-> [accountPast.gone EXCEPT ![a] = g], reasons |-> reasons]
      /\ accountPast'.gone = [accountPast.gone EXCEPT ![a] = g] /\ accountPast'.reasons = reasons
  BY DEF RowBecomes
<1>8. accountPast' \in [gone : [Accounts -> [Phones -> 0..Longest]],
                        reasons : [Phones -> SUBSET Reasons]]
  BY <1>5, <1>6, <1>7
<1>9. accountPast'.gone[a] = g /\ \A b \in Accounts \ {a} : accountPast'.gone[b] = accountPast.gone[b]
  BY <1>5, <1>7
<1>10. \A b \in Accounts, p \in Phones : accountPast'.gone[b][p] <= accountPast.gone[b][p]
  BY <1>5, <1>9 DEF Longest
<1>11. \A b \in Accounts, p \in Phones : Active(accountRow'[b], p) => accountPast'.gone[b][p] = 0
  BY <1>2, <1>9 DEF Ages, Serves
<1> QED
  BY <1>2, <1>3, <1>4, <1>7, <1>8, <1>10, <1>11

\* A write of a row, with everything but the calls left alone, keeps the clocks and
\* what they bound.
LEMMA RowWritesKeepAges ==
    ASSUME AccountTypeOK, Ages, StaleRoutesBounded,
           accountPast'.gone \in [Accounts -> [Phones -> 0..Longest]],
           \A b \in Accounts, p \in Phones : accountPast'.gone[b][p] <= accountPast.gone[b][p],
           \A b \in Accounts, p \in Phones : Active(accountRow'[b], p) => accountPast'.gone[b][p] = 0,
           UNCHANGED <<cache, look>>
    PROVE  Ages' /\ StaleRoutesBounded'
<1> USE AccountAssumption
<1>1. accountPast.gone \in [Accounts -> [Phones -> 0..Longest]] /\ 0..Longest \subseteq Nat
  BY DEF AccountTypeOK, Longest
<1>2. \A a \in Accounts, p \in Phones : accountPast.gone[a][p] \in Nat /\ accountPast'.gone[a][p] \in Nat
  BY <1>1
<1>3. \A a \in Accounts, p \in Phones : Serves(a, p)' => accountPast'.gone[a][p] = 0
  BY DEF Serves
<1>4. \A p \in Phones :
          cache[p].account # NoNumber =>
              accountPast'.gone[cache[p].account][p] <= TTL - cache[p].left + MaxFill
  <2> SUFFICES ASSUME NEW p \in Phones, cache[p].account # NoNumber
               PROVE  accountPast'.gone[cache[p].account][p] <= TTL - cache[p].left + MaxFill
    OBVIOUS
  <2>1. cache[p].account \in Accounts /\ cache[p].left \in 0..TTL
    BY DEF AccountTypeOK, KeyType
  <2>2. accountPast.gone[cache[p].account][p] <= TTL - cache[p].left + MaxFill
    BY DEF Ages
  <2> QED
    BY <1>2, <2>1, <2>2
<1>5. \A l \in Lookups :
          look[l].pc = "found" => accountPast'.gone[look[l].account][look[l].phone] <= look[l].wait
  <2> SUFFICES ASSUME NEW l \in Lookups, look[l].pc = "found"
               PROVE  accountPast'.gone[look[l].account][look[l].phone] <= look[l].wait
    OBVIOUS
  <2>1. look[l].account \in Accounts /\ look[l].phone \in Phones /\ look[l].wait \in Nat
    BY DEF AccountTypeOK, LookupType
  <2>2. accountPast.gone[look[l].account][look[l].phone] <= look[l].wait
    BY DEF Ages
  <2> QED
    BY <1>2, <2>1, <2>2
<1>6. \A l \in Lookups :
          look[l].pc = "routed" =>
              accountPast'.gone[look[l].account][look[l].phone] <= TTL + MaxFill
  <2> SUFFICES ASSUME NEW l \in Lookups, look[l].pc = "routed"
               PROVE  accountPast'.gone[look[l].account][look[l].phone] <= TTL + MaxFill
    OBVIOUS
  <2>1. look[l].account \in Accounts /\ look[l].phone \in Phones
    BY DEF AccountTypeOK, LookupType
  <2>2. accountPast.gone[look[l].account][look[l].phone] <= TTL + MaxFill
    BY DEF StaleRoutesBounded
  <2> QED
    BY <1>2, <2>1, <2>2
<1> QED
  BY <1>3, <1>4, <1>5, <1>6 DEF Ages, StaleRoutesBounded

-----------------------------------------------------------------------------
LEMMA AccountInitially == AccountInit => AccountInv
  BY AccountAssumption
  DEF AccountInit, AccountInv, AccountTypeOK, Ages, StaleRoutesBounded, StaleKeysExplained,
      AccountRow, KeyType, LookupType, CallType, NoKey, NoLookup, NoCall, Serves, Active,
      Longest

\* How the two steps of a lookup change it.
LEMMA LookupRecords ==
    ASSUME NEW k \in LookupType, NEW a \in Accounts
    PROVE  /\ [k EXCEPT !.pc = "found", !.account = a] \in LookupType
           /\ [k EXCEPT !.pc = "found", !.account = a].pc = "found"
           /\ [k EXCEPT !.pc = "found", !.account = a].account = a
           /\ [k EXCEPT !.pc = "found", !.account = a].phone = k.phone
           /\ [k EXCEPT !.pc = "found", !.account = a].wait = k.wait
           /\ k.wait \in Nat /\ k.wait <= MaxFill
           /\ [k EXCEPT !.pc = "routed", !.wait = 0] \in LookupType
           /\ [k EXCEPT !.pc = "routed", !.wait = 0].pc = "routed"
           /\ [k EXCEPT !.pc = "routed", !.wait = 0].phone = k.phone
           /\ [k EXCEPT !.pc = "routed", !.wait = 0].account = k.account
<1>1. 0 \in 0..MaxFill
  BY AccountAssumption
<1>2. k.wait \in 0..MaxFill
  BY DEF LookupType
<1>3. k.wait \in Nat /\ k.wait <= MaxFill
  BY <1>2, AccountAssumption
<1>4. [k EXCEPT !.pc = "found", !.account = a] \in LookupType
  BY DEF LookupType
<1>5. [k EXCEPT !.pc = "routed", !.wait = 0] \in LookupType
  BY <1>1 DEF LookupType
<1> QED
  BY <1>3, <1>4, <1>5 DEF LookupType

\* A lookup that goes on, with keys and clocks of their types, is of its type.
LEMMA LookupWrites ==
    ASSUME AccountTypeOK, NEW l \in Lookups, NEW m \in LookupType,
           look' = [look EXCEPT ![l] = m], UNCHANGED <<accountRow, call>>,
           m.pc # "idle" => m.phone # NoNumber,
           m.pc \in {"found", "routed"} => m.account # NoNumber,
           cache' \in [Phones -> KeyType],
           accountPast' \in [gone : [Accounts -> [Phones -> 0..Longest]],
                             reasons : [Phones -> SUBSET Reasons]]
    PROVE  /\ AccountTypeOK'
           /\ look'[l] = m
           /\ \A k \in Lookups \ {l} : look'[k] = look[k]
<1>1. look \in [Lookups -> LookupType]
  BY DEF AccountTypeOK
<1>2. /\ look' \in [Lookups -> LookupType]
      /\ look'[l] = m
      /\ \A k \in Lookups \ {l} : look'[k] = look[k]
  BY <1>1
<1>3. /\ \A k \in Lookups : look'[k].pc # "idle" => look'[k].phone # NoNumber
      /\ \A k \in Lookups : look'[k].pc \in {"found", "routed"} => look'[k].account # NoNumber
  BY <1>2 DEF AccountTypeOK
<1> QED
  BY <1>2, <1>3 DEF AccountTypeOK

LEMMA CacheGetKeepsInv ==
    ASSUME AccountInv, NEW l \in Lookups, NEW p \in Phones, CacheGet(l, p)
    PROVE  AccountInv'
<1> USE AccountAssumption DEF AccountInv
<1> PICK a \in {cache[p].account} \cup IF RedisFails THEN {NoNumber} ELSE {} :
        look' = [look EXCEPT ![l] =
               [pc |-> IF a = NoNumber THEN "missed" ELSE "routed", phone |-> p,
                account |-> a, wait |-> 0]]
  BY DEF CacheGet
<1>1. a \in {cache[p].account, NoNumber}
  BY DEF AccountAssumption
<1>2. cache[p].account \in Accounts \cup {NoNumber} /\ cache[p].left \in 0..TTL
  BY DEF AccountTypeOK, KeyType
<1> DEFINE m == [pc |-> IF a = NoNumber THEN "missed" ELSE "routed", phone |-> p,
                 account |-> a, wait |-> 0]
<1>3. m \in LookupType
  BY <1>1, <1>2 DEF LookupType
<1>5. /\ AccountTypeOK'
      /\ look'[l] = m
      /\ \A k \in Lookups \ {l} : look'[k] = look[k]
  <2>1. /\ UNCHANGED <<accountRow, cache, call, accountPast>>
        /\ m.pc # "idle" => m.phone # NoNumber
        /\ m.pc \in {"found", "routed"} => m.account # NoNumber
    BY DEF CacheGet
  <2>2. /\ cache' \in [Phones -> KeyType]
        /\ accountPast' \in [gone : [Accounts -> [Phones -> 0..Longest]],
                             reasons : [Phones -> SUBSET Reasons]]
    BY <2>1 DEF AccountTypeOK
  <2>3. AccountTypeOK /\ look' = [look EXCEPT ![l] = m] /\ UNCHANGED <<accountRow, call>>
    BY <2>1
  <2> HIDE DEF m
  <2> QED
    BY <1>3, <2>1, <2>2, <2>3, LookupWrites
<1>4. /\ look'[l].pc = IF a = NoNumber THEN "missed" ELSE "routed"
      /\ look'[l].phone = p /\ look'[l].account = a
      /\ \A k \in Lookups \ {l} : look'[k] = look[k]
  BY <1>5
<1>6. Ages'
  BY <1>4 DEF CacheGet, Ages, Serves
<1>7. StaleRoutesBounded'
  <2>1. a # NoNumber => accountPast.gone[a][p] <= TTL + MaxFill
    <3> SUFFICES ASSUME a # NoNumber PROVE accountPast.gone[a][p] <= TTL + MaxFill
      OBVIOUS
    <3>1. a = cache[p].account /\ a \in Accounts
      BY <1>1, <1>2
    <3>2. accountPast.gone[a][p] <= TTL - cache[p].left + MaxFill
      BY <3>1 DEF Ages
    <3>3. accountPast.gone[a][p] \in Nat
      BY <3>1 DEF AccountTypeOK, Longest
    <3> QED
      BY <1>2, <3>2, <3>3
  <2> QED
    BY <1>4, <2>1 DEF CacheGet, StaleRoutesBounded
<1>8. StaleKeysExplained'
  BY DEF CacheGet, StaleKeysExplained, Serves, WillDelete
<1> QED
  BY <1>5, <1>6, <1>7, <1>8

LEMMA FindAccountKeepsInv ==
    ASSUME AccountInv, NEW l \in Lookups, FindAccount(l)
    PROVE  AccountInv'
<1> USE AccountAssumption DEF AccountInv
<1>1. CASE \E a \in Accounts : Serves(a, look[l].phone)
  <2> PICK a \in Accounts :
          /\ Serves(a, look[l].phone)
          /\ look' = [look EXCEPT ![l].pc = "found", ![l].account = a]
    BY <1>1 DEF FindAccount
  <2>1. /\ look[l] \in LookupType /\ look[l].phone \in Phones
        /\ look[l].pc = "missed"
    BY DEF FindAccount, AccountTypeOK, LookupType
  <2> DEFINE m == [look[l] EXCEPT !.pc = "found", !.account = a]
  <2>2. /\ m \in LookupType /\ m.pc = "found" /\ m.account = a
        /\ m.phone = look[l].phone /\ m.wait \in Nat
    <3>1. m.wait = look[l].wait /\ look[l].wait \in Nat
      BY <2>1, LookupRecords
    <3>2. m \in LookupType
      BY <2>1, LookupRecords
    <3>3. m.pc = "found" /\ m.account = a /\ m.phone = look[l].phone
      BY <2>1 DEF LookupType
    <3> HIDE DEF m
    <3> QED
      BY <3>1, <3>2, <3>3
  <2>3. UNCHANGED <<accountRow, cache, call, accountPast>> /\ look' = [look EXCEPT ![l] = m]
    BY DEF FindAccount
  <2> HIDE DEF m
  <2>4. /\ AccountTypeOK'
        /\ look'[l] = m
        /\ \A k \in Lookups \ {l} : look'[k] = look[k]
    <3>1. /\ cache' \in [Phones -> KeyType]
          /\ accountPast' \in [gone : [Accounts -> [Phones -> 0..Longest]],
                               reasons : [Phones -> SUBSET Reasons]]
      BY <2>3 DEF AccountTypeOK
    <3>2. m.phone # NoNumber /\ m.account # NoNumber
      BY <2>1, <2>2
    <3>3. AccountTypeOK /\ m \in LookupType /\ look' = [look EXCEPT ![l] = m]
          /\ UNCHANGED <<accountRow, call>>
      BY <2>2, <2>3
    <3> QED
      BY <3>1, <3>2, <3>3, LookupWrites
  <2>5. Ages'
    <3>1. accountPast.gone[a][look[l].phone] = 0
      BY <2>1 DEF Ages
    <3>2. \A k \in Lookups :
              look'[k].pc = "found" =>
                  accountPast.gone[look'[k].account][look'[k].phone] <= look'[k].wait
      <4>1. accountPast.gone[m.account][m.phone] <= m.wait
        BY <2>2, <3>1
      <4>2. \A k \in Lookups \ {l} :
                look[k].pc = "found" =>
                    accountPast.gone[look[k].account][look[k].phone] <= look[k].wait
        BY DEF Ages
      <4> QED
        BY <2>4, <4>1, <4>2
    <3> QED
      BY <2>3, <3>2 DEF Ages, Serves
  <2>6. StaleRoutesBounded'
    BY <2>2, <2>3, <2>4 DEF StaleRoutesBounded
  <2>7. StaleKeysExplained'
    BY DEF FindAccount, StaleKeysExplained, Serves, WillDelete
  <2> QED
    BY <2>4, <2>5, <2>6, <2>7
<1>2. CASE ~\E a \in Accounts : Serves(a, look[l].phone)
  <2>1. look' = [look EXCEPT ![l] = NoLookup]
    BY <1>2 DEF FindAccount
  <2>2. NoLookup \in LookupType /\ NoLookup.pc = "idle"
    BY DEF NoLookup, LookupType
  <2>3. /\ AccountTypeOK'
        /\ look'[l] = NoLookup
        /\ \A k \in Lookups \ {l} : look'[k] = look[k]
    <3>1. /\ UNCHANGED <<accountRow, call>>
          /\ cache' \in [Phones -> KeyType]
          /\ accountPast' \in [gone : [Accounts -> [Phones -> 0..Longest]],
                               reasons : [Phones -> SUBSET Reasons]]
      BY DEF FindAccount, AccountTypeOK
    <3> QED
      BY <2>1, <2>2, <3>1, LookupWrites
  <2>4. Ages' /\ StaleRoutesBounded'
    BY <2>2, <2>3 DEF FindAccount, Ages, Serves, StaleRoutesBounded
  <2>5. StaleKeysExplained'
    BY DEF FindAccount, StaleKeysExplained, Serves, WillDelete
  <2> QED
    BY <2>3, <2>4, <2>5
<1> QED
  BY <1>1, <1>2

LEMMA CacheSetKeepsInv ==
    ASSUME AccountInv, NEW l \in Lookups, CacheSet(l)
    PROVE  AccountInv'
<1> USE AccountAssumption DEF AccountInv
<1> DEFINE p == look[l].phone
           a == look[l].account
<1>1. /\ look[l] \in LookupType /\ p \in Phones /\ a \in Accounts
      /\ look[l].pc = "found" /\ look[l].wait \in 0..MaxFill
  BY DEF CacheSet, AccountTypeOK, LookupType
<1>2. accountPast.gone[a][p] <= MaxFill /\ accountPast.gone[a][p] \in Nat
  <2>1. accountPast.gone[a][p] <= look[l].wait
    BY <1>1 DEF Ages
  <2>2. accountPast.gone[a][p] \in Nat
    BY <1>1 DEF AccountTypeOK, Longest
  <2> QED
    BY <1>1, <2>1, <2>2
<1> DEFINE m == [look[l] EXCEPT !.pc = "routed", !.wait = 0]
<1>3. /\ m \in LookupType /\ m.pc = "routed" /\ m.phone = p /\ m.account = a
      /\ look' = [look EXCEPT ![l] = m] /\ UNCHANGED <<accountRow, call>>
  <2>1. m \in LookupType /\ m.pc = "routed" /\ m.phone = p /\ m.account = a
    BY <1>1, LookupRecords
  <2>2. look' = [look EXCEPT ![l] = m] /\ UNCHANGED <<accountRow, call>>
    BY DEF CacheSet
  <2> QED
    BY <2>1, <2>2
<1>9. /\ look'[l] = m
      /\ \A k \in Lookups \ {l} : look'[k] = look[k]
  BY <1>3 DEF AccountTypeOK
<1>4. /\ look'[l].pc = "routed" /\ look'[l].phone = p /\ look'[l].account = a
      /\ \A k \in Lookups \ {l} : look'[k] = look[k]
  BY <1>3, <1>9
<1> HIDE DEF m
<1>5. accountPast'.gone = accountPast.gone
  BY DEF CacheSet, AccountTypeOK
<1>6. StaleRoutesBounded'
  BY <1>1, <1>2, <1>4, <1>5 DEF StaleRoutesBounded
<1>7. CASE /\ cache' = [cache EXCEPT ![p] = [account |-> a, left |-> TTL]]
           /\ accountPast' = [accountPast EXCEPT !.reasons[p] =
                     IF Serves(a, p) THEN {} ELSE {"late fill"}]
  <2>1. /\ cache' \in [Phones -> KeyType]
        /\ cache'[p] = [account |-> a, left |-> TTL]
        /\ \A q \in Phones \ {p} : cache'[q] = cache[q]
    <3>1. cache \in [Phones -> KeyType] /\ [account |-> a, left |-> TTL] \in KeyType
      BY <1>1 DEF AccountTypeOK, KeyType
    <3> QED
      BY <1>1, <1>7, <3>1
  <2>2. /\ accountPast'.reasons = [accountPast.reasons EXCEPT ![p] =
                     IF Serves(a, p) THEN {} ELSE {"late fill"}]
        /\ accountPast' \in [gone : [Accounts -> [Phones -> 0..Longest]],
                             reasons : [Phones -> SUBSET Reasons]]
    BY <1>1, <1>7 DEF AccountTypeOK, Reasons
  <2>3. AccountTypeOK'
    BY <1>1, <1>3, <2>1, <2>2, LookupWrites
  <2>4. Ages'
    <3>1. accountPast.gone[a][p] <= TTL - TTL + MaxFill /\ TTL > 0
      BY <1>2
    <3>2. accountRow' = accountRow
      BY DEF CacheSet
    <3>3. \A b \in Accounts, q \in Phones : Serves(b, q)' => accountPast'.gone[b][q] = 0
      BY <1>5, <3>2 DEF Ages, Serves
    <3>4. \A q \in Phones :
              cache'[q].account # NoNumber =>
                  /\ cache'[q].left > 0
                  /\ accountPast.gone[cache'[q].account][q] <= TTL - cache'[q].left + MaxFill
      BY <2>1, <3>1 DEF Ages
    <3>5. \A k \in Lookups :
              look'[k].pc = "found" =>
                  accountPast.gone[look'[k].account][look'[k].phone] <= look'[k].wait
      BY <1>4 DEF Ages
    <3> QED
      BY <1>5, <3>3, <3>4, <3>5 DEF Ages
  <2>5. StaleKeysExplained'
    <3>1. accountPast.reasons \in [Phones -> SUBSET Reasons] /\ accountRow' = accountRow /\ call' = call
      BY DEF CacheSet, AccountTypeOK
    <3>2. ~Active(accountRow'[cache'[p].account], p) => accountPast'.reasons[p] # {}
      <4>1. cache'[p].account = a
        BY <2>1
      <4>2. CASE Active(accountRow[a], p)
        BY <3>1, <4>1, <4>2
      <4>3. CASE ~Active(accountRow[a], p)
        <5>1. accountPast'.reasons = [accountPast.reasons EXCEPT ![p] = {"late fill"}]
          BY <2>2, <4>3 DEF Serves
        <5> QED
          BY <1>1, <3>1, <5>1
      <4> QED
        BY <4>2, <4>3
    <3>3. \A q \in Phones \ {p} : accountPast'.reasons[q] = accountPast.reasons[q]
      BY <2>2, <3>1
    <3> QED
      BY <2>1, <3>1, <3>2, <3>3 DEF StaleKeysExplained, Serves, WillDelete
  <2> QED
    BY <1>6, <2>3, <2>4, <2>5
<1>8. CASE UNCHANGED <<cache, accountPast>>
  <2>1. AccountTypeOK'
    <3>1. /\ cache' \in [Phones -> KeyType]
          /\ accountPast' \in [gone : [Accounts -> [Phones -> 0..Longest]],
                               reasons : [Phones -> SUBSET Reasons]]
      BY <1>8 DEF AccountTypeOK
    <3> QED
      BY <1>1, <1>3, <3>1, LookupWrites
  <2>2. Ages'
    BY <1>4, <1>8 DEF CacheSet, Ages, Serves
  <2>3. StaleKeysExplained'
    BY <1>8 DEF CacheSet, StaleKeysExplained, Serves, WillDelete
  <2> QED
    BY <1>6, <2>1, <2>2, <2>3
<1> QED
  BY <1>7, <1>8 DEF CacheSet

-----------------------------------------------------------------------------
LEMMA CreateKeepsInv ==
    ASSUME AccountInv, NEW a \in Accounts, NEW p \in Phones, CreateForTenant(a, p)
    PROVE  AccountInv'
<1> USE AccountAssumption DEF AccountInv
<1> DEFINE r == [state |-> "alive", phone |-> p, active |-> TRUE]
<1>1. /\ r \in AccountRow /\ r.state = "alive" /\ r.phone = p
      /\ accountPast.reasons \in [Phones -> SUBSET Reasons]
  BY DEF AccountRow, AccountTypeOK
<1>2. /\ RowBecomes(a, r, accountPast.reasons) /\ Free(p) /\ p # NoNumber
      /\ UNCHANGED <<cache, look, call>> /\ accountRow[a].state = "unborn"
  BY DEF CreateForTenant
<1> HIDE DEF r
<1>3. /\ accountRow' \in [Accounts -> AccountRow]
      /\ \A b \in Accounts \ {a} : accountRow'[b] = accountRow[b]
      /\ \A b \in Accounts : accountRow'[b].state = "alive" => accountRow'[b].phone # NoNumber
      /\ \A b, d \in Accounts :
             accountRow'[b].state = "alive" /\ accountRow'[d].state = "alive"
                 /\ accountRow'[b].phone = accountRow'[d].phone => b = d
      /\ accountPast' \in [gone : [Accounts -> [Phones -> 0..Longest]],
                           reasons : [Phones -> SUBSET Reasons]]
      /\ accountPast'.reasons = accountPast.reasons
      /\ \A b \in Accounts, q \in Phones : accountPast'.gone[b][q] <= accountPast.gone[b][q]
      /\ \A b \in Accounts, q \in Phones : Active(accountRow'[b], q) => accountPast'.gone[b][q] = 0
  BY <1>1, <1>2, RowWrites
<1>4. AccountTypeOK'
  BY <1>2, <1>3 DEF AccountTypeOK
<1>5. accountPast'.gone \in [Accounts -> [Phones -> 0..Longest]]
  BY <1>3
<1>6. Ages' /\ StaleRoutesBounded'
  BY <1>2, <1>3, <1>5, RowWritesKeepAges
<1>7. StaleKeysExplained'
  <2>1. \A b \in Accounts, q \in Phones : Active(accountRow[b], q) => Active(accountRow'[b], q)
    BY <1>2, <1>3 DEF Active
  <2>2. \A q \in Phones : cache[q].account # NoNumber => cache[q].account \in Accounts
    BY DEF AccountTypeOK, KeyType
  <2> QED
    BY <1>2, <1>3, <2>1, <2>2 DEF StaleKeysExplained, Serves, WillDelete
<1> QED
  BY <1>4, <1>6, <1>7

\* A call that goes on, with everything else of its type, is of its type.
LEMMA CallWrites ==
    ASSUME AccountTypeOK, NEW c \in Calls, NEW m \in CallType,
           call' = [call EXCEPT ![c] = m],
           m.pc # "idle" => m.account # NoNumber /\ m.old # NoNumber,
           m.pc \in {"del_old", "del_new"} => m.new # NoNumber
    PROVE  /\ call' \in [Calls -> CallType]
           /\ call'[c] = m
           /\ \A d \in Calls \ {c} : call'[d] = call[d]
           /\ \A d \in Calls : call'[d].pc # "idle" => call'[d].account # NoNumber /\ call'[d].old # NoNumber
           /\ \A d \in Calls : call'[d].pc \in {"del_old", "del_new"} => call'[d].new # NoNumber
<1>1. call \in [Calls -> CallType]
  BY DEF AccountTypeOK
<1>2. /\ call' \in [Calls -> CallType]
      /\ call'[c] = m
      /\ \A d \in Calls \ {c} : call'[d] = call[d]
  BY <1>1
<1> QED
  BY <1>2 DEF AccountTypeOK

LEMMA FindFirstKeepsInv ==
    ASSUME AccountInv, NEW c \in Calls, NEW a \in Accounts, FindFirst(c, a)
    PROVE  AccountInv'
<1> USE AccountAssumption DEF AccountInv
<1> DEFINE m == [pc |-> "found", account |-> a, old |-> accountRow[a].phone, new |-> NoNumber]
<1>1. accountRow[a].phone \in Phones
  BY DEF FindFirst, AccountTypeOK, AccountRow
<1>2. /\ m \in CallType /\ m.pc = "found" /\ m.account # NoNumber /\ m.old # NoNumber
      /\ call' = [call EXCEPT ![c] = m] /\ UNCHANGED <<accountRow, cache, look, accountPast>>
      /\ call[c].pc = "idle"
  BY <1>1 DEF FindFirst, CallType
<1> HIDE DEF m
<1>3. /\ call' \in [Calls -> CallType]
      /\ call'[c] = m
      /\ \A d \in Calls \ {c} : call'[d] = call[d]
      /\ \A d \in Calls : call'[d].pc # "idle" => call'[d].account # NoNumber /\ call'[d].old # NoNumber
      /\ \A d \in Calls : call'[d].pc \in {"del_old", "del_new"} => call'[d].new # NoNumber
  BY <1>2, CallWrites
<1>4. AccountTypeOK'
  BY <1>2, <1>3 DEF AccountTypeOK
<1>5. Ages' /\ StaleRoutesBounded'
  BY <1>2 DEF Ages, StaleRoutesBounded, Serves
<1>6. \A q \in Phones : WillDelete(q) => WillDelete(q)'
  BY <1>2, <1>3 DEF WillDelete
<1>7. StaleKeysExplained'
  BY <1>2, <1>6 DEF StaleKeysExplained, Serves
<1> QED
  BY <1>4, <1>5, <1>7

LEMMA RefuseKeepsInv ==
    ASSUME AccountInv, NEW c \in Calls, Refuse(c)
    PROVE  AccountInv'
<1> USE AccountAssumption DEF AccountInv
<1>1. /\ NoCall \in CallType /\ NoCall.pc = "idle"
      /\ call' = [call EXCEPT ![c] = NoCall] /\ UNCHANGED <<accountRow, cache, look, accountPast>>
      /\ call[c].pc = "found"
  BY DEF Refuse, NoCall, CallType
<1>2. /\ call' \in [Calls -> CallType]
      /\ \A d \in Calls \ {c} : call'[d] = call[d]
      /\ \A d \in Calls : call'[d].pc # "idle" => call'[d].account # NoNumber /\ call'[d].old # NoNumber
      /\ \A d \in Calls : call'[d].pc \in {"del_old", "del_new"} => call'[d].new # NoNumber
  BY <1>1, CallWrites
<1>3. AccountTypeOK'
  BY <1>1, <1>2 DEF AccountTypeOK
<1>4. Ages' /\ StaleRoutesBounded'
  BY <1>1 DEF Ages, StaleRoutesBounded, Serves
<1>5. \A q \in Phones : WillDelete(q) => WillDelete(q)'
  BY <1>1, <1>2 DEF WillDelete
<1>6. StaleKeysExplained'
  BY <1>1, <1>5 DEF StaleKeysExplained, Serves
<1> QED
  BY <1>3, <1>4, <1>6

\* The write of updateForTenant (r alive with the number p) and of removeForTenant
\* (r deleted, p the number the call found): a key left behind is explained.
LEMMA WritesKeepInv ==
    ASSUME AccountInv, NEW c \in Calls, NEW p \in Phones, NEW r \in AccountRow,
           call[c].pc = "found", accountRow[call[c].account].state = "alive",
           RowBecomes(call[c].account, r, Overlooked(c, p)),
           r.state = "alive" =>
               r.phone = p /\ (accountRow[call[c].account].phone = p \/ Free(p)),
           call' = [call EXCEPT ![c].pc = "del_old", ![c].new = p],
           UNCHANGED <<cache, look>>
    PROVE  AccountInv'
<1> USE AccountAssumption DEF AccountInv
<1> DEFINE a == call[c].account
           old == call[c].old
           q0 == accountRow[a].phone
           reasons == Overlooked(c, p)
           m == [call[c] EXCEPT !.pc = "del_old", !.new = p]
<1>1. a \in Accounts /\ old \in Phones
  BY CallsHaveOperands
<1>2. q0 \in Phones
  BY <1>1 DEF AccountTypeOK, AccountRow
<1>3. reasons \in [Phones -> SUBSET Reasons]
  <2>1. accountPast.reasons \in [Phones -> SUBSET Reasons]
    BY DEF AccountTypeOK
  <2>2. accountPast.reasons[q0] \cup {"overlapping updates"} \in SUBSET Reasons
    BY <1>2, <2>1 DEF Reasons
  <2>3. [accountPast.reasons EXCEPT ![q0] = @ \cup {"overlapping updates"}]
            \in [Phones -> SUBSET Reasons]
    BY <2>1, <2>2
  <2> QED
    BY <2>1, <2>3 DEF Overlooked
<1>4. /\ \A q \in Phones : accountPast.reasons[q] # {} => reasons[q] # {}
      /\ cache[q0].account = a /\ q0 \notin {old, p} => reasons[q0] # {}
  <2>1. accountPast.reasons \in [Phones -> SUBSET Reasons]
    BY DEF AccountTypeOK
  <2>2. CASE cache[q0].account = a /\ q0 \notin {old, p}
    <3>1. reasons = [accountPast.reasons EXCEPT ![q0] = @ \cup {"overlapping updates"}]
      BY <2>2 DEF Overlooked
    <3> QED
      BY <1>2, <2>1, <3>1
  <2>3. CASE ~(cache[q0].account = a /\ q0 \notin {old, p})
    <3>1. reasons = accountPast.reasons
      BY <2>3 DEF Overlooked
    <3> QED
      BY <2>3, <3>1
  <2> QED
    BY <2>2, <2>3
<1>5. /\ m \in CallType /\ m.pc = "del_old" /\ m.old = old /\ m.new = p /\ m.account = a
      /\ call' = [call EXCEPT ![c] = m]
  BY <1>1 DEF AccountTypeOK, CallType
<1>6. /\ call' \in [Calls -> CallType]
      /\ call'[c] = m
      /\ \A d \in Calls \ {c} : call'[d] = call[d]
      /\ \A d \in Calls : call'[d].pc # "idle" => call'[d].account # NoNumber /\ call'[d].old # NoNumber
      /\ \A d \in Calls : call'[d].pc \in {"del_old", "del_new"} => call'[d].new # NoNumber
  <2> HIDE DEF m
  <2> QED
    BY <1>1, <1>5, CallWrites
<1> HIDE DEF m, reasons
<1>7. /\ accountRow' \in [Accounts -> AccountRow]
      /\ \A b \in Accounts \ {a} : accountRow'[b] = accountRow[b]
      /\ \A b \in Accounts : accountRow'[b].state = "alive" => accountRow'[b].phone # NoNumber
      /\ \A b, d \in Accounts :
             accountRow'[b].state = "alive" /\ accountRow'[d].state = "alive"
                 /\ accountRow'[b].phone = accountRow'[d].phone => b = d
      /\ accountPast' \in [gone : [Accounts -> [Phones -> 0..Longest]],
                           reasons : [Phones -> SUBSET Reasons]]
      /\ accountPast'.reasons = reasons
      /\ \A b \in Accounts, q \in Phones : accountPast'.gone[b][q] <= accountPast.gone[b][q]
      /\ \A b \in Accounts, q \in Phones : Active(accountRow'[b], q) => accountPast'.gone[b][q] = 0
  <2>1. RowBecomes(a, r, reasons)
    BY DEF reasons
  <2>2. r.state = "alive" =>
            r.phone # NoNumber /\ ((accountRow[a].state = "alive" /\ accountRow[a].phone = r.phone) \/ Free(r.phone))
    OBVIOUS
  <2> QED
    BY <1>1, <1>3, <2>1, <2>2, RowWrites
<1>8. AccountTypeOK'
  BY <1>6, <1>7 DEF AccountTypeOK
<1>9. accountPast'.gone \in [Accounts -> [Phones -> 0..Longest]]
  BY <1>7
<1>10. Ages' /\ StaleRoutesBounded'
  BY <1>7, <1>9, RowWritesKeepAges
<1>11. \A q \in {old, p} : WillDelete(q)'
  BY <1>5, <1>6 DEF WillDelete
<1>12. \A q \in Phones : WillDelete(q) => WillDelete(q)'
  BY <1>6 DEF WillDelete
<1>13. ASSUME NEW q \in Phones, cache[q].account # NoNumber,
              ~Active(accountRow'[cache[q].account], q), Active(accountRow[cache[q].account], q)
       PROVE  reasons[q] # {} \/ WillDelete(q)'
  <2>1. cache[q].account = a
    BY <1>7, <1>13 DEF AccountTypeOK, KeyType
  <2>2. q = q0
    BY <1>13, <2>1 DEF Active
  <2>3. CASE q \in {old, p}
    BY <1>11, <2>3
  <2>4. CASE q \notin {old, p}
    BY <1>4, <2>1, <2>2, <2>4
  <2> QED
    BY <2>3, <2>4
<1>14. StaleKeysExplained'
  BY <1>4, <1>7, <1>12, <1>13 DEF StaleKeysExplained, Serves
<1> QED
  BY <1>8, <1>10, <1>14

LEMMA UpdateKeepsInv ==
    ASSUME AccountInv, NEW c \in Calls, NEW p \in Phones, NEW active \in BOOLEAN,
           Update(c, p, active)
    PROVE  AccountInv'
<1> DEFINE r == [state |-> "alive", phone |-> p, active |-> active]
<1>1. r \in AccountRow /\ r.state = "alive" /\ r.phone = p
  BY DEF AccountRow
<1>2. /\ call[c].pc = "found"
      /\ accountRow[call[c].account].state = "alive"
      /\ accountRow[call[c].account].phone = p \/ Free(p)
      /\ RowBecomes(call[c].account, r, Overlooked(c, p))
      /\ call' = [call EXCEPT ![c].pc = "del_old", ![c].new = p]
      /\ UNCHANGED <<cache, look>>
  BY DEF Update, RefusedCall
<1> HIDE DEF r
<1> QED
  BY <1>1, <1>2, WritesKeepInv

LEMMA DeleteKeepsInv ==
    ASSUME AccountInv, NEW c \in Calls, Delete(c)
    PROVE  AccountInv'
<1> DEFINE r == [state |-> "deleted", phone |-> NoNumber, active |-> FALSE]
           p == call[c].old
<1>1. r \in AccountRow /\ r.state # "alive"
  BY DEF AccountRow
<1>2. /\ call[c].pc = "found"
      /\ accountRow[call[c].account].state = "alive"
      /\ RowBecomes(call[c].account, r, Overlooked(c, p))
      /\ call' = [call EXCEPT ![c].pc = "del_old", ![c].new = p]
      /\ UNCHANGED <<cache, look>>
  BY DEF Delete
<1>3. p \in Phones
  BY <1>2, CallsHaveOperands DEF AccountInv
<1> HIDE DEF r, p
<1> QED
  BY <1>1, <1>2, <1>3, WritesKeepInv

\* A deletion that was awaited, of the key p, after which the call will delete no
\* other key than before.
LEMMA DelKeepsInv ==
    ASSUME AccountInv, NEW c \in Calls, NEW p \in Phones, NEW m \in CallType,
           Del(p), UNCHANGED <<accountRow, look>>,
           call' = [call EXCEPT ![c] = m],
           m.pc # "idle" => m.account # NoNumber /\ m.old # NoNumber,
           m.pc \in {"del_old", "del_new"} => m.new # NoNumber,
           \A q \in Phones \ {p} : WillDelete(q) => WillDelete(q)'
    PROVE  AccountInv'
<1> USE AccountAssumption DEF AccountInv
<1>1. /\ call' \in [Calls -> CallType]
      /\ \A d \in Calls : call'[d].pc # "idle" => call'[d].account # NoNumber /\ call'[d].old # NoNumber
      /\ \A d \in Calls : call'[d].pc \in {"del_old", "del_new"} => call'[d].new # NoNumber
  BY CallWrites
<1>2. /\ cache \in [Phones -> KeyType]
      /\ accountPast \in [gone : [Accounts -> [Phones -> 0..Longest]],
                          reasons : [Phones -> SUBSET Reasons]]
  BY DEF AccountTypeOK
<1>3. NoKey \in KeyType /\ NoKey.account = NoNumber
  BY DEF NoKey, KeyType
<1>4. CASE /\ cache' = [cache EXCEPT ![p] = NoKey]
           /\ accountPast' = [accountPast EXCEPT !.reasons[p] = {}]
  <2>1. /\ cache' \in [Phones -> KeyType]
        /\ cache'[p] = NoKey /\ \A q \in Phones \ {p} : cache'[q] = cache[q]
    BY <1>2, <1>3, <1>4
  <2>2. /\ accountPast' \in [gone : [Accounts -> [Phones -> 0..Longest]],
                             reasons : [Phones -> SUBSET Reasons]]
        /\ accountPast'.gone = accountPast.gone
        /\ \A q \in Phones \ {p} : accountPast'.reasons[q] = accountPast.reasons[q]
    BY <1>2, <1>4
  <2>3. AccountTypeOK'
    BY <1>1, <2>1, <2>2 DEF AccountTypeOK
  <2>4. Ages' /\ StaleRoutesBounded'
    BY <1>3, <2>1, <2>2 DEF Ages, StaleRoutesBounded, Serves
  <2>5. StaleKeysExplained'
    BY <1>3, <2>1, <2>2 DEF StaleKeysExplained, Serves
  <2> QED
    BY <2>3, <2>4, <2>5
<1>5. CASE /\ accountPast' = [accountPast EXCEPT !.reasons[p] =
                  IF cache[p].account = NoNumber THEN {} ELSE @ \cup {"del failed"}]
           /\ UNCHANGED cache
  <2> DEFINE new == IF cache[p].account = NoNumber THEN {}
                    ELSE accountPast.reasons[p] \cup {"del failed"}
  <2>1. new \in SUBSET Reasons
    BY <1>2 DEF Reasons
  <2>2. accountPast' = [accountPast EXCEPT !.reasons = [accountPast.reasons EXCEPT ![p] = new]]
    BY <1>2, <1>5
  <2>3. /\ accountPast' \in [gone : [Accounts -> [Phones -> 0..Longest]],
                             reasons : [Phones -> SUBSET Reasons]]
        /\ accountPast'.gone = accountPast.gone
        /\ accountPast'.reasons[p] = new
        /\ \A q \in Phones \ {p} : accountPast'.reasons[q] = accountPast.reasons[q]
    <3> HIDE DEF new
    <3> QED
      BY <1>2, <2>1, <2>2
  <2>4. AccountTypeOK'
    BY <1>1, <1>5, <2>3 DEF AccountTypeOK
  <2>5. Ages' /\ StaleRoutesBounded'
    BY <1>5, <2>3 DEF Ages, StaleRoutesBounded, Serves
  <2>6. cache[p].account # NoNumber => accountPast'.reasons[p] # {}
    BY <2>3
  <2>7. StaleKeysExplained'
    BY <1>5, <2>3, <2>6 DEF StaleKeysExplained, Serves
  <2> QED
    BY <2>4, <2>5, <2>7
<1> QED
  BY <1>4, <1>5 DEF Del

LEMMA DelOldKeepsInv ==
    ASSUME AccountInv, NEW c \in Calls, DelOld(c)
    PROVE  AccountInv'
<1> DEFINE p == call[c].old
           m == IF call[c].new = call[c].old THEN NoCall
                ELSE [call[c] EXCEPT !.pc = "del_new"]
<1>1. /\ call \in [Calls -> CallType] /\ call[c].pc = "del_old"
      /\ p \in Phones /\ p # NoNumber /\ call[c].account # NoNumber /\ call[c].new # NoNumber
      /\ AccountTypeOK
  BY CallsHaveOperands DEF DelOld, AccountInv, AccountTypeOK
<1>2. Del(p) /\ UNCHANGED <<accountRow, look>> /\ call' = [call EXCEPT ![c] = m]
  BY DEF DelOld
<1>3. CASE call[c].new = call[c].old
  <2>1. m = NoCall /\ NoCall \in CallType /\ NoCall.pc = "idle"
    BY <1>3 DEF NoCall, CallType
  <2> HIDE DEF m
  <2>2. \A q \in Phones \ {p} : WillDelete(q) => WillDelete(q)'
    BY <1>1, <1>2, <1>3 DEF WillDelete
  <2> HIDE DEF p
  <2> QED
    BY <1>1, <1>2, <2>1, <2>2, DelKeepsInv
<1>4. CASE call[c].new # call[c].old
  <2>1. /\ m \in CallType /\ m.pc = "del_new" /\ m.account = call[c].account
        /\ m.old = call[c].old /\ m.new = call[c].new
    BY <1>1, <1>4 DEF CallType
  <2> HIDE DEF m
  <2>2. \A q \in Phones \ {p} : WillDelete(q) => WillDelete(q)'
    BY <1>1, <1>2, <2>1 DEF WillDelete
  <2> QED
    BY <1>1, <1>2, <2>1, <2>2, DelKeepsInv
<1> QED
  BY <1>3, <1>4

LEMMA DelNewKeepsInv ==
    ASSUME AccountInv, NEW c \in Calls, DelNew(c)
    PROVE  AccountInv'
<1> DEFINE p == call[c].new
<1>1. call \in [Calls -> CallType] /\ call[c].pc = "del_new" /\ p \in Phones
  BY DEF DelNew, AccountInv, AccountTypeOK, CallType
<1>2. Del(p) /\ UNCHANGED <<accountRow, look>> /\ call' = [call EXCEPT ![c] = NoCall]
  BY DEF DelNew
<1>3. NoCall \in CallType /\ NoCall.pc = "idle"
  BY DEF NoCall, CallType
<1>4. \A q \in Phones \ {p} : WillDelete(q) => WillDelete(q)'
  BY <1>1, <1>2 DEF WillDelete
<1> HIDE DEF p
<1> QED
  BY <1>1, <1>2, <1>3, <1>4, DelKeepsInv

LEMMA AccountTickKeepsInv == AccountInv /\ AccountTick => AccountInv'
<1> USE AccountAssumption DEF AccountInv
<1> SUFFICES ASSUME AccountInv, AccountTick PROVE AccountInv'
  OBVIOUS
<1> DEFINE Older(a, p) == IF Serves(a, p) THEN 0
                          ELSE IF accountPast.gone[a][p] = Longest THEN Longest
                          ELSE accountPast.gone[a][p] + 1
<1>1. UNCHANGED <<accountRow, call>>
  BY DEF AccountTick
<1>2. \A a \in Accounts, p \in Phones : accountPast.gone[a][p] \in 0..Longest
  BY DEF AccountTypeOK
<1>3. /\ accountPast'.gone = [a \in Accounts |-> [p \in Phones |-> Older(a, p)]]
      /\ accountPast'.reasons = [p \in Phones |->
             IF cache[p].left <= 1 THEN {} ELSE accountPast.reasons[p]]
      /\ accountPast' = [gone |-> accountPast'.gone, reasons |-> accountPast'.reasons]
  BY DEF AccountTick
<1>4. \A a \in Accounts, p \in Phones :
          /\ accountPast'.gone[a][p] \in 0..Longest
          /\ accountPast'.gone[a][p] <= accountPast.gone[a][p] + 1
          /\ Serves(a, p) => accountPast'.gone[a][p] = 0
  <2> SUFFICES ASSUME NEW a \in Accounts, NEW p \in Phones
               PROVE  /\ accountPast'.gone[a][p] \in 0..Longest
                      /\ accountPast'.gone[a][p] <= accountPast.gone[a][p] + 1
                      /\ Serves(a, p) => accountPast'.gone[a][p] = 0
    OBVIOUS
  <2>1. accountPast'.gone[a][p] = Older(a, p)
    BY <1>3
  <2>2. CASE Serves(a, p)
    BY <1>2, <2>1, <2>2 DEF Longest
  <2>3. CASE ~Serves(a, p)
    BY <1>2, <2>1, <2>3 DEF Longest
  <2> QED
    BY <2>2, <2>3
<1>5. accountPast' \in [gone : [Accounts -> [Phones -> 0..Longest]],
                        reasons : [Phones -> SUBSET Reasons]]
  <2>1. accountPast'.gone \in [Accounts -> [Phones -> 0..Longest]]
    <3>1. \A a \in Accounts, p \in Phones : Older(a, p) \in 0..Longest
      BY <1>3, <1>4
    <3> HIDE DEF Older
    <3> QED
      BY <1>3, <3>1
  <2>2. accountPast'.reasons \in [Phones -> SUBSET Reasons]
    BY <1>3 DEF AccountTypeOK
  <2> QED
    BY <1>3, <2>1, <2>2
<1>6. \A p \in Phones :
          /\ cache'[p] \in KeyType
          /\ \/ cache'[p] = NoKey /\ cache'[p].account = NoNumber
             \/ /\ cache'[p].account = cache[p].account
                /\ cache[p].left > 1
                /\ cache'[p].left = cache[p].left - 1
  <2> SUFFICES ASSUME NEW p \in Phones
               PROVE  /\ cache'[p] \in KeyType
                      /\ \/ cache'[p] = NoKey /\ cache'[p].account = NoNumber
                         \/ /\ cache'[p].account = cache[p].account
                            /\ cache[p].left > 1
                            /\ cache'[p].left = cache[p].left - 1
    OBVIOUS
  <2>1. cache[p] \in KeyType /\ cache[p].left \in 0..TTL
    BY DEF AccountTypeOK, KeyType
  <2>2. CASE cache[p].left <= 1
    BY <2>2 DEF AccountTick, NoKey, KeyType
  <2>3. CASE ~(cache[p].left <= 1)
    <3>1. cache'[p] = [cache[p] EXCEPT !.left = cache[p].left - 1]
      BY <2>3 DEF AccountTick
    <3>2. cache[p].left - 1 \in 0..TTL /\ cache[p].left > 1
      BY <2>1, <2>3
    <3> QED
      BY <2>1, <3>1, <3>2 DEF KeyType
  <2> QED
    BY <2>2, <2>3
<1>7. \A l \in Lookups :
          /\ look'[l] \in LookupType
          /\ look'[l].pc # "routed"
          /\ look'[l].pc # "idle" => look'[l].phone # NoNumber
          /\ look'[l].pc = "found" =>
                 /\ look[l].pc = "found"
                 /\ look'[l].account = look[l].account /\ look'[l].account # NoNumber
                 /\ look'[l].phone = look[l].phone
                 /\ look'[l].wait = look[l].wait + 1
  <2> SUFFICES ASSUME NEW l \in Lookups
               PROVE  /\ look'[l] \in LookupType
                      /\ look'[l].pc # "routed"
                      /\ look'[l].pc # "idle" => look'[l].phone # NoNumber
                      /\ look'[l].pc = "found" =>
                             /\ look[l].pc = "found"
                             /\ look'[l].account = look[l].account /\ look'[l].account # NoNumber
                             /\ look'[l].phone = look[l].phone
                             /\ look'[l].wait = look[l].wait + 1
    OBVIOUS
  <2>1. look[l] \in LookupType /\ look[l].wait \in 0..MaxFill
    BY DEF AccountTypeOK, LookupType
  <2>2. CASE look[l].pc = "found"
    <3>1. look'[l] = [look[l] EXCEPT !.wait = look[l].wait + 1]
      BY <2>2 DEF AccountTick
    <3>2. look[l].wait + 1 \in 0..MaxFill
      BY <2>1, <2>2 DEF AccountTick
    <3>3. look[l].phone # NoNumber /\ look[l].account # NoNumber
      BY <2>2 DEF AccountTypeOK
    <3> QED
      BY <2>1, <2>2, <3>1, <3>2, <3>3 DEF LookupType
  <2>3. CASE look[l].pc = "routed"
    <3>1. look'[l] = NoLookup
      BY <2>3 DEF AccountTick
    <3> QED
      BY <3>1 DEF NoLookup, LookupType
  <2>4. CASE look[l].pc \notin {"found", "routed"}
    <3>1. look'[l] = look[l]
      BY <2>4 DEF AccountTick
    <3> QED
      BY <2>1, <2>4, <3>1 DEF AccountTypeOK
  <2> QED
    BY <2>2, <2>3, <2>4
<1>8. AccountTypeOK'
  <2>1. cache' \in [Phones -> KeyType]
    BY <1>6 DEF AccountTick
  <2>2. look' \in [Lookups -> LookupType]
    BY <1>7 DEF AccountTick
  <2>3. \A l \in Lookups : look'[l].pc \in {"found", "routed"} => look'[l].account # NoNumber
    BY <1>7
  <2> QED
    BY <1>1, <1>5, <1>7, <2>1, <2>2, <2>3 DEF AccountTypeOK
<1>9. Ages'
  <2>1. \A a \in Accounts, p \in Phones : Serves(a, p)' => accountPast'.gone[a][p] = 0
    BY <1>1, <1>4 DEF Serves
  <2>2. ASSUME NEW p \in Phones, cache'[p].account # NoNumber
        PROVE  /\ cache'[p].left > 0
               /\ accountPast'.gone[cache'[p].account][p] <= TTL - cache'[p].left + MaxFill
    <3>1. /\ cache'[p].account = cache[p].account /\ cache[p].left > 1
          /\ cache'[p].left = cache[p].left - 1
      BY <1>6, <2>2
    <3>2. cache[p].account \in Accounts /\ cache[p].left \in 0..TTL
      BY <2>2, <3>1 DEF AccountTypeOK, KeyType
    <3>3. accountPast.gone[cache[p].account][p] <= TTL - cache[p].left + MaxFill
      BY <2>2, <3>1 DEF Ages
    <3>4. /\ accountPast'.gone[cache[p].account][p] <= accountPast.gone[cache[p].account][p] + 1
          /\ accountPast'.gone[cache[p].account][p] \in Int /\ accountPast.gone[cache[p].account][p] \in Int
      BY <1>2, <1>4, <3>2 DEF Longest
    <3>5. accountPast'.gone[cache[p].account][p] <= TTL - (cache[p].left - 1) + MaxFill
      BY <3>2, <3>3, <3>4
    <3> QED
      BY <3>1, <3>2, <3>5
  <2>3. ASSUME NEW l \in Lookups, look'[l].pc = "found"
        PROVE  accountPast'.gone[look'[l].account][look'[l].phone] <= look'[l].wait
    <3>1. /\ look[l].pc = "found" /\ look'[l].account = look[l].account
          /\ look'[l].phone = look[l].phone /\ look'[l].wait = look[l].wait + 1
      BY <1>7, <2>3
    <3>2. look[l].account \in Accounts /\ look[l].phone \in Phones /\ look[l].wait \in Int
      BY <3>1 DEF AccountTypeOK, LookupType
    <3>3. accountPast.gone[look[l].account][look[l].phone] <= look[l].wait
      BY <3>1 DEF Ages
    <3>4. /\ accountPast'.gone[look[l].account][look[l].phone]
                <= accountPast.gone[look[l].account][look[l].phone] + 1
          /\ accountPast'.gone[look[l].account][look[l].phone] \in Int
          /\ accountPast.gone[look[l].account][look[l].phone] \in Int
      BY <1>2, <1>4, <3>2 DEF Longest
    <3> QED
      BY <3>1, <3>2, <3>3, <3>4
  <2> QED
    BY <2>1, <2>2, <2>3 DEF Ages
<1>10. StaleRoutesBounded'
  BY <1>7 DEF StaleRoutesBounded
<1>11. StaleKeysExplained'
  <2>1. ASSUME NEW p \in Phones, cache'[p].account # NoNumber
        PROVE  cache'[p].account = cache[p].account /\ accountPast'.reasons[p] = accountPast.reasons[p]
    <3>1. cache'[p].account = cache[p].account /\ cache[p].left > 1
      BY <1>6, <2>1
    <3>2. ~(cache[p].left <= 1)
      BY <3>1 DEF AccountTypeOK, KeyType
    <3> QED
      BY <1>3, <3>1, <3>2
  <2>2. \A p \in Phones : WillDelete(p)' <=> WillDelete(p)
    BY <1>1 DEF WillDelete
  <2> QED
    BY <1>1, <2>1, <2>2 DEF StaleKeysExplained, Serves
<1> QED
  BY <1>8, <1>9, <1>10, <1>11

-----------------------------------------------------------------------------
\* The inductive invariant: types, and how old what is cached or on its way may be.
THEOREM AccountInvariant == AccountSpec => []AccountInv
<1>1. ASSUME AccountInv, [AccountNext]_accountVars PROVE AccountInv'
  <2>1. ASSUME NEW l \in Lookups, ResolveAccountByPhoneNumberId(l) PROVE AccountInv'
    BY <1>1, <2>1, CacheGetKeepsInv, FindAccountKeepsInv, CacheSetKeepsInv
    DEF ResolveAccountByPhoneNumberId
  <2>2. ASSUME NEW c \in Calls, UpdateForTenant(c) \/ RemoveForTenant(c) PROVE AccountInv'
    BY <1>1, <2>2, FindFirstKeepsInv, RefuseKeepsInv, UpdateKeepsInv, DelOldKeepsInv,
       DelNewKeepsInv, DeleteKeepsInv
    DEF UpdateForTenant, RemoveForTenant
  <2>3. CASE UNCHANGED accountVars
    BY <1>1, <2>3 DEF accountVars, AccountInv, AccountTypeOK, Ages, StaleRoutesBounded,
                      StaleKeysExplained, Serves, WillDelete
  <2> QED
    BY <1>1, <2>1, <2>2, <2>3, CreateKeepsInv, AccountTickKeepsInv DEF AccountNext
<1> QED
  BY <1>1, AccountInitially, PTL DEF AccountSpec

\* Lookups, keys, rows and calls keep their types, and numbers stay unique.
THEOREM AccountTypeCorrect == AccountSpec => []AccountTypeOK
  BY AccountInvariant, PTL DEF AccountInv

\* Whatever overlaps or fails, a message goes to an account that served the number
\* at most the life of a key and the caching of an answer ago.
THEOREM RoutesAreBounded == AccountSpec => []StaleRoutesBounded
  BY AccountInvariant, PTL DEF AccountInv

\* A key of an account that does not serve the number is about to be deleted, or
\* its deletion failed, or it was filled late, or updates overlapped.
THEOREM StaleKeysAreExplained == AccountSpec => []StaleKeysExplained
  BY AccountInvariant, PTL DEF AccountInv

\* RoutesSafe: both at once.
THEOREM RoutesAreSafe == AccountSpec => []RoutesSafe
  BY RoutesAreBounded, StaleKeysAreExplained, PTL DEF RoutesSafe

-----------------------------------------------------------------------------
(* Baileys: any number of sockets, sessions and calls.                      *)

\* Calls under way hold a session, others hold none.
Holds ==
    /\ \A d \in Disconnects : disconnect[d].pc = "logout" <=> disconnect[d].s # NoSession
    /\ \A i \in Images : image[i].pc = "fetch" <=> image[i].s # NoSession

\* A session has a socket when an image is sent through it; once the session has
\* been disconnected it is not the one in the map and its socket is dead.
ImagesEnd ==
    \A i \in Images :
        /\ image[i].ended => image[i].pc # "sent"
        /\ image[i].pc = "fetch" => session[image[i].s].sock # NoSession
        /\ image[i].pc = "fetch" /\ image[i].ended =>
               image[i].s # current /\ ~Live(session[image[i].s].sock)

\* The socket of the session in the map has handlers.
Wired ==
    current # NoSession /\ session[current].sock # NoSession /\ Live(session[current].sock)
        => Receives(session[current].sock)

\* One connection at a time, and what the session in the map says of it.
Alone ==
    /\ connecting["api"] + connecting["close"] <= 1
    /\ Connecting => \A k \in Sockets : ~Receives(k)
    /\ \A k \in Sockets : Receives(k) =>
           current # NoSession /\ session[current].sock = k /\ Status # "disconnected"
    /\ \A d \in Disconnects :
           disconnect[d].pc = "logout" => current \in {NoSession, disconnect[d].s}
    /\ current # NoSession /\ Status = "connected" =>
           session[current].sock # NoSession /\ socket[session[current].sock].state = "open"
    /\ current # NoSession /\ Status = "connecting" =>
           \/ Connecting
           \/ history.failed
           \/ session[current].sock # NoSession /\ Receives(session[current].sock)

BaileysInv ==
    /\ BaileysTypeOK
    /\ Holds
    /\ ImagesEnd
    /\ Wired
    /\ ~history.overlapped => Alone

-----------------------------------------------------------------------------
LEMMA BaileysInitially == BaileysInit => BaileysInv
  BY BaileysAssumption
  DEF BaileysInit, BaileysInv, BaileysTypeOK, Holds, ImagesEnd, Wired, Alone, SessionType,
      SocketType, DisconnectType, ImageType, NewSession, Closed, NobodyConnecting,
      NoDisconnect, NoImage, NoPast, Statuses, Live, Receives, Connecting, Status

LEMMA RestartKeepsInv == BaileysInv /\ Restart => BaileysInv'
  BY BaileysAssumption
  DEF Restart, BaileysInv, BaileysTypeOK, Holds, ImagesEnd, Wired, Alone, SessionType,
      SocketType, DisconnectType, ImageType, Closed, NobodyConnecting,
      NoDisconnect, NoImage, NoPast, Statuses, Live, Receives, Connecting, Status

LEMMA ConnectTenantKeepsInv ==
    ASSUME BaileysInv, NEW s \in Sessions, ConnectTenant(s)
    PROVE  BaileysInv'
<1> USE BaileysAssumption
<1>1. BaileysTypeOK'
  <2>1. session' \in [Sessions -> SessionType]
    BY DEF ConnectTenant, BaileysInv, BaileysTypeOK, NewSession, SessionType, Statuses
  <2>2. connecting' \in [{"api", "close"} -> Nat]
    BY DEF ConnectTenant, BaileysInv, BaileysTypeOK
  <2>3. history' \in [overlapped : BOOLEAN, failed : BOOLEAN]
    <3>1. CASE Connecting \/ Disconnecting
      BY <3>1 DEF ConnectTenant, BaileysInv, BaileysTypeOK
    <3>2. CASE ~(Connecting \/ Disconnecting)
      BY <3>2 DEF ConnectTenant, BaileysInv, BaileysTypeOK, NoPast
    <3> QED
      BY <3>1, <3>2
  <2> QED
    BY <2>1, <2>2, <2>3 DEF ConnectTenant, BaileysInv, BaileysTypeOK
<1>2. Holds'
  BY DEF ConnectTenant, BaileysInv, Holds
<1>3. ImagesEnd'
  BY DEF ConnectTenant, BaileysInv, BaileysTypeOK, ImageType, Holds, ImagesEnd, Held, Live
<1>4. Wired'
  BY DEF ConnectTenant, BaileysInv, BaileysTypeOK, SessionType, NewSession, Wired
<1>5. ~history'.overlapped => Alone'
  <2> SUFFICES ASSUME ~history'.overlapped
               PROVE  Alone'
    OBVIOUS
  <2>1. ~Connecting /\ ~Disconnecting
    BY DEF ConnectTenant, BaileysInv, BaileysTypeOK
  <2>2. \A k \in Sockets : ~Receives(k)
    <3> SUFFICES ASSUME NEW k \in Sockets, Receives(k) PROVE FALSE
      OBVIOUS
    <3>1. history' = history
      BY <2>1 DEF ConnectTenant
    <3>2. Alone
      BY <3>1 DEF BaileysInv
    <3>3. current # NoSession /\ Status # "disconnected"
      BY <3>2 DEF Alone
    <3> QED
      BY <3>3 DEF ConnectTenant, GetStatus
  <2>3. connecting["api"] + connecting["close"] = 0
    BY <2>1 DEF Connecting, BaileysInv, BaileysTypeOK
  <2>4. /\ connecting'["api"] = 1 /\ connecting'["close"] = 0
        /\ current' = s /\ session'[s] = NewSession
        /\ socket' = socket /\ disconnect' = disconnect
    BY <2>3 DEF ConnectTenant, BaileysInv, BaileysTypeOK
  <2>5. \A d \in Disconnects : disconnect[d].pc # "logout"
    BY <2>1 DEF Disconnecting
  <2> QED
    BY <2>2, <2>4, <2>5 DEF Alone, Connecting, Receives, Live, Status, NewSession
<1> QED
  BY <1>1, <1>2, <1>3, <1>4, <1>5 DEF BaileysInv

LEMMA ConnectKeepsInv ==
    ASSUME BaileysInv, NEW o \in {"api", "close"}, NEW k \in Sockets, Connect(o, k)
    PROVE  BaileysInv'
<1> USE BaileysAssumption
<1>1. BaileysTypeOK'
  BY DEF Connect, BaileysInv, BaileysTypeOK, SessionType, SocketType, Statuses
<1>2. Holds'
  BY DEF Connect, BaileysInv, Holds
<1>3. ImagesEnd'
  BY <1>1 DEF Connect, BaileysInv, BaileysTypeOK, ImageType, SessionType, SocketType, Holds,
              ImagesEnd, Held, HeldSocket, Live
<1>4. Wired'
  <2>1. CASE current = NoSession
    BY <2>1 DEF Connect, Wired
  <2>2. CASE current # NoSession
    <3>1. current' = current /\ session'[current].sock = k /\ socket'[k].wired
      <4>1. session' = [session EXCEPT ![current].sock = k, ![current].status = "connecting"]
        BY <2>2 DEF Connect
      <4>2. socket' = [socket EXCEPT ![k] = [state |-> "opening", wired |-> TRUE]]
        BY <2>2 DEF Connect
      <4> QED
        BY <2>2, <4>1, <4>2 DEF Connect, BaileysInv, BaileysTypeOK, SessionType, SocketType
    <3> QED
      BY <3>1 DEF Wired, Live, Receives
  <2> QED
    BY <2>1, <2>2
<1>5. ~history'.overlapped => Alone'
  <2> SUFFICES ASSUME Alone PROVE Alone'
    BY DEF Connect, BaileysInv
  <2>1. /\ connecting'["api"] + connecting'["close"] = 0
        /\ \A j \in Sockets : ~Receives(j)
    BY DEF Connect, Alone, Connecting, BaileysInv, BaileysTypeOK
  <2>2. CASE current = NoSession
    <3>1. /\ current' = NoSession
          /\ \A j \in Sockets : ~Receives(j)'
      BY <2>1, <2>2 DEF Connect, BaileysInv, BaileysTypeOK, SocketType, Receives, Live
    <3>2. UNCHANGED disconnect
      BY DEF Connect
    <3> QED
      BY <2>1, <3>1, <3>2 DEF Alone, Connecting, Status
  <2>3. CASE current # NoSession
    <3>1. /\ current' = current
          /\ session'[current].sock = k /\ session'[current].status = "connecting"
      BY <2>3 DEF Connect, BaileysInv, BaileysTypeOK, SessionType
    <3>2. \A j \in Sockets : Receives(j)' <=> j = k
      BY <2>1, <2>3 DEF Connect, BaileysInv, BaileysTypeOK, SocketType, Receives, Live
    <3>3. UNCHANGED disconnect
      BY DEF Connect
    <3> QED
      BY <2>1, <2>3, <3>1, <3>2, <3>3 DEF Alone, Connecting, Status
  <2> QED
    BY <2>2, <2>3
<1> QED
  BY <1>1, <1>2, <1>3, <1>4, <1>5 DEF BaileysInv

LEMMA ConnectFailsKeepsInv == BaileysInv /\ ConnectFails => BaileysInv'
<1> SUFFICES ASSUME BaileysInv, ConnectFails PROVE BaileysInv'
  OBVIOUS
<1>1. /\ UNCHANGED <<current, session, socket, disconnect, image>>
      /\ connecting' \in [{"api", "close"} -> Nat]
      /\ connecting'["api"] + connecting'["close"] < connecting["api"] + connecting["close"]
  BY DEF ConnectFails, BaileysInv, BaileysTypeOK
<1>2. /\ history' \in [overlapped : BOOLEAN, failed : BOOLEAN]
      /\ history'.overlapped = history.overlapped
      /\ history'.failed
  BY DEF ConnectFails, BaileysInv, BaileysTypeOK
<1>3. BaileysTypeOK' /\ Holds' /\ ImagesEnd' /\ Wired'
  BY <1>1, <1>2 DEF BaileysInv, BaileysTypeOK, Holds, ImagesEnd, Wired, Live, Receives
<1>4. ~history'.overlapped => Alone'
  <2> SUFFICES ASSUME Alone PROVE Alone'
    BY <1>2 DEF BaileysInv
  <2>1. connecting["api"] \in Nat /\ connecting["close"] \in Nat
    BY DEF BaileysInv, BaileysTypeOK
  <2>2. connecting'["api"] \in Nat /\ connecting'["close"] \in Nat
    BY <1>1
  <2>3. connecting'["api"] + connecting'["close"] <= 1 /\ ~Connecting'
    BY <1>1, <2>1, <2>2 DEF Alone, Connecting
  <2> QED
    BY <1>1, <1>2, <2>3 DEF Alone, Live, Receives, Connecting, Status
<1> QED
  BY <1>3, <1>4 DEF BaileysInv

-----------------------------------------------------------------------------
(* The events of a socket *)

LEMMA QrEventKeepsInv ==
    ASSUME BaileysInv, NEW k \in Sockets, QrEvent(k)
    PROVE  BaileysInv'
<1>1. BaileysTypeOK'
  BY DEF QrEvent, BaileysInv, BaileysTypeOK, SessionType, Statuses
<1>2. Holds' /\ ImagesEnd' /\ Wired'
  BY DEF QrEvent, BaileysInv, BaileysTypeOK, SessionType, ImageType, Holds, ImagesEnd, Wired,
         Live, Receives
<1>3. ~history'.overlapped => Alone'
  BY DEF QrEvent, BaileysInv, BaileysTypeOK, SessionType, Alone, Live, Receives, Connecting,
         Status
<1> QED
  BY <1>1, <1>2, <1>3 DEF BaileysInv

LEMMA OpenEventKeepsInv ==
    ASSUME BaileysInv, NEW k \in Sockets, OpenEvent(k)
    PROVE  BaileysInv'
<1> USE BaileysAssumption
<1>1. BaileysTypeOK'
  <2>1. socket' \in [Sockets -> SocketType]
    BY DEF OpenEvent, BaileysInv, BaileysTypeOK, SocketType
  <2>2. session' \in [Sessions -> SessionType]
    <3>1. CASE Receives(k) /\ current # NoSession
      <4>1. session' = [session EXCEPT ![current].qr = FALSE, ![current].status = "connected"]
        BY <3>1 DEF OpenEvent
      <4>2. current \in Sessions /\ session \in [Sessions -> SessionType]
        BY <3>1 DEF BaileysInv, BaileysTypeOK
      <4> QED
        BY <4>1, <4>2 DEF SessionType, Statuses
    <3>2. CASE ~(Receives(k) /\ current # NoSession)
      BY <3>2 DEF OpenEvent, BaileysInv, BaileysTypeOK
    <3> QED
      BY <3>1, <3>2
  <2> QED
    BY <2>1, <2>2 DEF OpenEvent, BaileysInv, BaileysTypeOK
<1>2. /\ \A j \in Sockets : Live(j)' <=> Live(j)
      /\ \A j \in Sockets : Receives(j)' <=> Receives(j)
      /\ \A s \in Sessions : session'[s].sock = session[s].sock
  BY DEF OpenEvent, BaileysInv, BaileysTypeOK, SessionType, SocketType, Live, Receives
<1>3. Holds' /\ ImagesEnd' /\ Wired'
  BY <1>2 DEF OpenEvent, BaileysInv, BaileysTypeOK, SessionType, ImageType, Holds, ImagesEnd,
              Wired
<1>4. ~history'.overlapped => Alone'
  <2> SUFFICES ASSUME Alone PROVE Alone'
    BY DEF OpenEvent, BaileysInv
  <2>1. CASE Receives(k) /\ current # NoSession
    BY <1>2, <2>1 DEF OpenEvent, BaileysInv, BaileysTypeOK, SessionType, SocketType, Alone,
                      Connecting, Status
  <2>2. CASE ~(Receives(k) /\ current # NoSession)
    BY <1>2, <2>2 DEF OpenEvent, BaileysInv, BaileysTypeOK, SessionType, SocketType, Alone,
                      Connecting, Status
  <2> QED
    BY <2>1, <2>2
<1> QED
  BY <1>1, <1>3, <1>4 DEF BaileysInv

\* The sessions after a close event.
LEMMA DisconnectedType ==
    ASSUME BaileysTypeOK
    PROVE  /\ Disconnected \in [Sessions -> SessionType]
           /\ \A s \in Sessions : Disconnected[s].sock = session[s].sock
           /\ current # NoSession => Disconnected[current].status = "disconnected"
  BY DEF Disconnected, BaileysTypeOK, SessionType, Statuses

\* Whoever closes a socket: the rest of the state is left to the caller.
LEMMA CloseKeepsInv ==
    ASSUME BaileysInv, NEW k \in Sockets, NEW loggedOut \in BOOLEAN, CloseEvent(k, loggedOut),
           UNCHANGED <<disconnect, image, history>>
    PROVE  BaileysInv'
<1> USE BaileysAssumption
<1>1. BaileysTypeOK'
  <2>1. socket' \in [Sockets -> SocketType]
    BY DEF CloseEvent, Closed, BaileysInv, BaileysTypeOK, SocketType
  <2>2. session' \in [Sessions -> SessionType]
    BY DisconnectedType DEF CloseEvent, BaileysInv, BaileysTypeOK
  <2>3. connecting' \in [{"api", "close"} -> Nat]
    BY DEF CloseEvent, BaileysInv, BaileysTypeOK
  <2>4. current' \in {current, NoSession}
    BY DEF CloseEvent
  <2> QED
    BY <2>1, <2>2, <2>3, <2>4 DEF BaileysInv, BaileysTypeOK
<1>2. /\ \A j \in Sockets \ {k} : socket'[j] = socket[j]
      /\ ~Live(k)' /\ ~Receives(k)'
      /\ \A s \in Sessions : session'[s].sock = session[s].sock
      /\ current' \in {current, NoSession}
  BY DEF CloseEvent, Disconnected, Closed, BaileysInv, BaileysTypeOK, SessionType, SocketType,
         Live, Receives
<1>3. Holds'
  BY DEF BaileysInv, Holds
<1>4. ImagesEnd'
  BY <1>2 DEF BaileysInv, BaileysTypeOK, SessionType, ImageType, Holds, ImagesEnd, Live
<1>5. Wired'
  BY <1>2 DEF BaileysInv, BaileysTypeOK, SessionType, Wired, Live, Receives
<1>6. ~history'.overlapped => Alone'
  <2> SUFFICES ASSUME Alone PROVE Alone'
    BY DEF BaileysInv
  <2>1. CASE Receives(k)
    <3>1. /\ current # NoSession /\ session[current].sock = k
          /\ connecting["api"] + connecting["close"] = 0
          /\ \A j \in Sockets : ~Receives(j)'
      BY <1>2, <2>1 DEF Alone, Connecting, BaileysInv, BaileysTypeOK, Receives, Live
    <3>2. CASE loggedOut
      BY <2>1, <3>1, <3>2 DEF CloseEvent, Alone, Connecting
    <3>3. CASE ~loggedOut
      <4>1. /\ current' = current /\ session'[current].status = "disconnected"
            /\ connecting'["api"] + connecting'["close"] = 1
        BY <2>1, <3>1, <3>3 DEF CloseEvent, Disconnected, BaileysInv, BaileysTypeOK, SessionType
      <4> QED
        BY <3>1, <4>1 DEF Alone, Connecting, Status
    <3> QED
      BY <3>2, <3>3
  <2>2. CASE ~Receives(k)
    <3>1. UNCHANGED <<current, session, connecting>>
      BY <2>2 DEF CloseEvent
    <3>2. current # NoSession => session[current].sock # k
      BY <2>2 DEF CloseEvent, BaileysInv, BaileysTypeOK, Wired
    <3>3. \A j \in Sockets : Receives(j)' <=> Receives(j)
      BY <1>2, <2>2 DEF Receives, Live
    <3> QED
      BY <1>2, <3>1, <3>2, <3>3 DEF Alone, Connecting, Status, BaileysInv, BaileysTypeOK,
                                    SessionType
  <2> QED
    BY <2>1, <2>2
<1> QED
  BY <1>1, <1>3, <1>4, <1>5, <1>6 DEF BaileysInv

-----------------------------------------------------------------------------
(* disconnectTenant, sendText, sendImage *)

LEMMA BeginDisconnectKeepsInv ==
    ASSUME BaileysInv, NEW d \in Disconnects, BeginDisconnect(d)
    PROVE  BaileysInv'
  BY BaileysAssumption
  DEF BeginDisconnect, BaileysInv, BaileysTypeOK, DisconnectType, Holds, ImagesEnd, Wired,
      Alone, Live, Receives, Connecting, Status

LEMMA FinishDisconnectKeepsInv ==
    ASSUME BaileysInv, NEW d \in Disconnects, FinishDisconnect(d)
    PROVE  BaileysInv'
<1> USE BaileysAssumption
<1> DEFINE s == disconnect[d].s
           k == session[s].sock
<1>0. s \in Sessions /\ k \in Sockets \cup {NoSession}
  BY DEF FinishDisconnect, BaileysInv, BaileysTypeOK, DisconnectType, SessionType, Holds
<1>1. BaileysTypeOK'
  <2>1. socket' \in [Sockets -> SocketType]
    <3>1. Closed \in SocketType
      BY DEF Closed, SocketType
    <3>2. socket' = socket \/ (k # NoSession /\ socket' = [socket EXCEPT ![k] = Closed])
      BY DEF FinishDisconnect
    <3> QED
      BY <1>0, <3>1, <3>2 DEF BaileysInv, BaileysTypeOK
  <2>2. session' \in [Sessions -> SessionType]
    BY <1>0, DisconnectedType DEF FinishDisconnect, BaileysInv, BaileysTypeOK
  <2>3. connecting' \in [{"api", "close"} -> Nat]
    BY <1>0 DEF FinishDisconnect, BaileysInv, BaileysTypeOK
  <2>4. disconnect' \in [Disconnects -> DisconnectType]
    BY DEF FinishDisconnect, NoDisconnect, BaileysInv, BaileysTypeOK, DisconnectType
  <2>5. image' \in [Images -> ImageType]
    BY DEF FinishDisconnect, BaileysInv, BaileysTypeOK, ImageType
  <2> QED
    BY <2>1, <2>2, <2>3, <2>4, <2>5 DEF FinishDisconnect, BaileysInv, BaileysTypeOK
<1>2. /\ \A j \in Sockets : j # k => socket'[j] = socket[j]
      /\ k # NoSession => socket'[k].state = "closed"
      /\ \A r \in Sessions : session'[r].sock = session[r].sock
      /\ current' = NoSession
  <2>1. CASE k # NoSession /\ Live(k)
    BY <1>0, <2>1, DisconnectedType
    DEF FinishDisconnect, Closed, BaileysInv, BaileysTypeOK, SocketType
  <2>2. CASE ~(k # NoSession /\ Live(k))
    BY <1>0, <2>2 DEF FinishDisconnect, Live
  <2> QED
    BY <2>1, <2>2
<1>3. Holds'
  BY DEF FinishDisconnect, NoDisconnect, BaileysInv, BaileysTypeOK, DisconnectType, ImageType,
         Holds
<1>4. ImagesEnd'
  <2> SUFFICES ASSUME NEW i \in Images
               PROVE  /\ image'[i].ended => image'[i].pc # "sent"
                      /\ image'[i].pc = "fetch" => session'[image'[i].s].sock # NoSession
                      /\ image'[i].pc = "fetch" /\ image'[i].ended =>
                             /\ image'[i].s # NoSession
                             /\ socket'[session'[image'[i].s].sock].state = "closed"
    BY <1>2 DEF ImagesEnd, Live
  <2>0. /\ image[i].s \in Sessions \cup {NoSession}
        /\ image[i].pc = "fetch" <=> image[i].s # NoSession
    BY DEF BaileysInv, BaileysTypeOK, ImageType, Holds
  <2>1. CASE image[i].s = s
    <3>1. image'[i] = [image[i] EXCEPT !.ended = TRUE]
      BY <2>1 DEF FinishDisconnect
    <3>2. image'[i].s = s /\ image'[i].pc = "fetch" /\ s # NoSession /\ image[i].pc = "fetch"
      BY <1>0, <2>0, <2>1, <3>1 DEF BaileysInv, BaileysTypeOK, ImageType
    <3>3. k # NoSession /\ session'[s].sock = k
      BY <1>0, <1>2, <2>1, <3>2 DEF BaileysInv, ImagesEnd
    <3> QED
      BY <1>2, <3>2, <3>3
  <2>2. CASE image[i].s # s
    <3>1. image'[i] = image[i]
      BY <2>2 DEF FinishDisconnect
    <3>2. /\ image[i].ended => image[i].pc # "sent"
          /\ image[i].pc = "fetch" => session[image[i].s].sock # NoSession
          /\ image[i].pc = "fetch" /\ image[i].ended => ~Live(session[image[i].s].sock)
      BY DEF BaileysInv, ImagesEnd
    <3>3. \A j \in Sockets : ~Live(j) => socket'[j].state = "closed"
      BY <1>2 DEF Live
    <3>4. \A r \in Sessions : session[r].sock \in Sockets \cup {NoSession}
      BY DEF BaileysInv, BaileysTypeOK, SessionType
    <3> QED
      BY <1>2, <2>0, <3>1, <3>2, <3>3, <3>4
  <2> QED
    BY <2>1, <2>2
<1>5. Wired'
  BY <1>2 DEF Wired
<1>6. ~history'.overlapped => Alone'
  <2> SUFFICES ASSUME Alone PROVE Alone'
    BY DEF FinishDisconnect, BaileysInv
  <2>1. \A j \in Sockets : ~Receives(j)'
    <3> SUFFICES ASSUME NEW j \in Sockets, Receives(j)' PROVE FALSE
      OBVIOUS
    <3>1. j # k /\ Receives(j)
      BY <1>2 DEF Receives, Live
    <3>2. current = s /\ session[current].sock = j
      BY <3>1 DEF Alone, FinishDisconnect
    <3> QED
      BY <3>1, <3>2
  <2>2. connecting'["api"] + connecting'["close"] <= 1
    <3>1. CASE k # NoSession /\ Live(k) /\ Receives(k)
      BY <1>0, <3>1 DEF FinishDisconnect, Alone, Connecting, BaileysInv, BaileysTypeOK
    <3>2. CASE ~(k # NoSession /\ Live(k) /\ Receives(k))
      BY <3>2 DEF FinishDisconnect, Alone
    <3> QED
      BY <3>1, <3>2
  <2> QED
    BY <1>2, <2>1, <2>2 DEF Alone
<1> QED
  BY <1>1, <1>3, <1>4, <1>5, <1>6 DEF BaileysInv

LEMMA ImagesKeepInv ==
    ASSUME BaileysInv, NEW i \in Images, SendText(i) \/ BeginImage(i) \/ SendImage(i)
    PROVE  BaileysInv'
<1> USE BaileysAssumption
<1>1. UNCHANGED <<current, session, socket, connecting, disconnect, history>>
  BY DEF SendText, BeginImage, SendImage
<1>2. BaileysTypeOK' /\ Holds' /\ ImagesEnd'
  <2>1. CASE SendText(i)
    BY <2>1 DEF SendText, NoImage, BaileysInv, BaileysTypeOK, ImageType, Holds, ImagesEnd, Live
  <2>2. CASE BeginImage(i)
    BY <2>2 DEF BeginImage, NoImage, BaileysInv, BaileysTypeOK, ImageType, Holds, ImagesEnd, Live
  <2>3. CASE SendImage(i)
    <3>1. BaileysTypeOK'
      BY <1>1, <2>3 DEF SendImage, BaileysInv, BaileysTypeOK, ImageType
    <3>2. Holds'
      BY <1>1, <2>3 DEF SendImage, BaileysInv, BaileysTypeOK, ImageType, Holds
    <3>3. ImagesEnd'
      BY <1>1, <2>3 DEF SendImage, BaileysInv, BaileysTypeOK, ImageType, ImagesEnd, Live
    <3> QED
      BY <3>1, <3>2, <3>3
  <2> QED
    BY <2>1, <2>2, <2>3
<1>3. Wired' /\ (~history'.overlapped => Alone')
  BY <1>1 DEF BaileysInv, Wired, Alone, Live, Receives, Connecting, Status
<1> QED
  BY <1>2, <1>3 DEF BaileysInv

-----------------------------------------------------------------------------
\* The inductive invariant: unless calls overlapped there is one connection, and
\* the session in the map is about it.
THEOREM BaileysInvariant == BaileysSpec => []BaileysInv
<1>1. BaileysInv /\ [BaileysNext]_baileysVars => BaileysInv'
  <2> SUFFICES ASSUME BaileysInv, [BaileysNext]_baileysVars PROVE BaileysInv'
    OBVIOUS
  <2>1. ASSUME NEW s \in Sessions, ConnectTenant(s) PROVE BaileysInv'
    BY <2>1, ConnectTenantKeepsInv
  <2>2. ASSUME NEW o \in {"api", "close"}, NEW k \in Sockets, Connect(o, k) PROVE BaileysInv'
    BY <2>2, ConnectKeepsInv
  <2>3. ASSUME NEW k \in Sockets, QrEvent(k) \/ OpenEvent(k) \/ NetworkClose(k)
        PROVE  BaileysInv'
    BY <2>3, QrEventKeepsInv, OpenEventKeepsInv, CloseKeepsInv DEF NetworkClose
  <2>4. ASSUME NEW d \in Disconnects, LoggedOut(d) PROVE BaileysInv'
    <3>1. session[disconnect[d].s].sock \in Sockets
      BY <2>4 DEF LoggedOut, BaileysInv, BaileysTypeOK, DisconnectType, SessionType, Holds
    <3> QED
      BY <2>4, <3>1, CloseKeepsInv DEF LoggedOut
  <2>5. ASSUME NEW d \in Disconnects, BeginDisconnect(d) \/ FinishDisconnect(d)
        PROVE  BaileysInv'
    BY <2>5, BeginDisconnectKeepsInv, FinishDisconnectKeepsInv
  <2>6. CASE UNCHANGED baileysVars
    BY <2>6 DEF baileysVars, BaileysInv, BaileysTypeOK, Holds, ImagesEnd, Wired, Alone, Live,
                Receives, Connecting, Status
  <2> QED
    BY <2>1, <2>2, <2>3, <2>4, <2>5, <2>6, RestartKeepsInv, ConnectFailsKeepsInv,
       ImagesKeepInv DEF BaileysNext
<1> QED
  BY <1>1, BaileysInitially, PTL DEF BaileysSpec

\* The types of sessions, sockets and calls.
THEOREM BaileysTypeCorrect == BaileysSpec => []BaileysTypeOK
<1>1. BaileysInv => BaileysTypeOK
  BY DEF BaileysInv
<1> QED
  BY <1>1, BaileysInvariant, PTL

\* However often the tenant connects, disconnects and loses the connection: without
\* overlapping calls only one socket delivers messages.
THEOREM OnlyOneSocket == BaileysSpec => []OneSocket
<1>1. BaileysInv => OneSocket
  BY DEF BaileysInv, Alone, OneSocket
<1> QED
  BY <1>1, BaileysInvariant, PTL

\* getStatus tells the truth under the same condition.
THEOREM StatusIsHonest == BaileysSpec => []StatusHonest
<1>1. BaileysInv => StatusHonest
  <2> SUFFICES ASSUME BaileysInv, Alone PROVE StatusHonest
    BY DEF BaileysInv, StatusHonest
  <2>1. CASE current = NoSession
    BY <2>1 DEF Alone, StatusHonest, GetStatus
  <2>2. CASE current # NoSession
    <3>1. Status \in Statuses
      BY <2>2 DEF BaileysInv, BaileysTypeOK, SessionType, Status
    <3> QED
      BY <2>2, <3>1 DEF Alone, StatusHonest, GetStatus, Status, Statuses
  <2> QED
    BY <2>1, <2>2
<1> QED
  BY <1>1, BaileysInvariant, PTL

\* No interleaving lets an image out after its session was disconnected.
THEOREM NothingIsSentAfterDisconnect == BaileysSpec => []NothingSentAfterDisconnect
<1>1. BaileysInv => NothingSentAfterDisconnect
  BY DEF BaileysInv, ImagesEnd, NothingSentAfterDisconnect
<1> QED
  BY <1>1, BaileysInvariant, PTL

\* A disconnected session always has a reconnection on its way, whichever calls
\* overlapped: the theorem needs nothing but the types.
THEOREM SessionsAreNotLeftBehind == BaileysSpec => []NotLeftBehind
<1> USE BaileysAssumption
<1>1. BaileysInit => NotLeftBehind
  BY DEF BaileysInit, NotLeftBehind
<1>2. BaileysTypeOK /\ NotLeftBehind /\ [BaileysNext]_baileysVars => NotLeftBehind'
  <2> SUFFICES ASSUME BaileysTypeOK, NotLeftBehind, [BaileysNext]_baileysVars
               PROVE  NotLeftBehind'
    OBVIOUS
  <2>1. ASSUME NEW s \in Sessions, ConnectTenant(s) PROVE NotLeftBehind'
    <3>1. current' = s /\ session'[s].status = "connecting"
      BY <2>1 DEF ConnectTenant, NewSession, BaileysTypeOK
    <3> QED
      BY <3>1 DEF NotLeftBehind, Status
  <2>2. ASSUME NEW o \in {"api", "close"}, NEW k \in Sockets, Connect(o, k)
        PROVE  NotLeftBehind'
    <3>1. current # NoSession => session'[current].status = "connecting"
      BY <2>2 DEF Connect, BaileysTypeOK, SessionType
    <3> QED
      BY <2>2, <3>1 DEF Connect, NotLeftBehind, Status
  <2>3. CASE ConnectFails
    BY <2>3 DEF ConnectFails, NotLeftBehind, Status, BaileysTypeOK
  <2>4. CASE Restart
    BY <2>4 DEF Restart, NotLeftBehind
  <2>5. ASSUME NEW k \in Sockets, QrEvent(k) \/ OpenEvent(k) PROVE NotLeftBehind'
    <3>1. \/ UNCHANGED session
          \/ current # NoSession /\ session'[current].status # "disconnected"
      BY <2>5 DEF QrEvent, OpenEvent, BaileysTypeOK, SessionType
    <3> QED
      BY <2>5, <3>1 DEF QrEvent, OpenEvent, NotLeftBehind, Status
  <2>6. ASSUME NEW k, NEW loggedOut \in BOOLEAN, CloseEvent(k, loggedOut)
        PROVE  NotLeftBehind'
    <3>1. CASE Receives(k)
      BY <2>6, <3>1 DEF CloseEvent, NotLeftBehind, BaileysTypeOK
    <3>2. CASE ~Receives(k)
      BY <2>6, <3>2 DEF CloseEvent, NotLeftBehind, Status
    <3> QED
      BY <3>1, <3>2
  <2>7. ASSUME NEW k \in Sockets, NetworkClose(k) PROVE NotLeftBehind'
    BY <2>6, <2>7 DEF NetworkClose
  <2>8. ASSUME NEW d \in Disconnects, BeginDisconnect(d) \/ LoggedOut(d) \/ FinishDisconnect(d)
        PROVE  NotLeftBehind'
    BY <2>6, <2>8 DEF BeginDisconnect, LoggedOut, FinishDisconnect, NotLeftBehind, Status
  <2>9. ASSUME NEW i \in Images, SendText(i) \/ BeginImage(i) \/ SendImage(i)
        PROVE  NotLeftBehind'
    BY <2>9 DEF SendText, BeginImage, SendImage, NotLeftBehind, Status
  <2>10. CASE UNCHANGED baileysVars
    BY <2>10 DEF baileysVars, NotLeftBehind, Status
  <2> QED
    BY <2>1, <2>2, <2>3, <2>4, <2>5, <2>7, <2>8, <2>9, <2>10 DEF BaileysNext
<1> QED
  BY <1>1, <1>2, BaileysTypeCorrect, PTL DEF BaileysSpec

\* SessionSafe: all of this at once.
THEOREM SessionsAreSafe == BaileysSpec => []SessionSafe
  BY OnlyOneSocket, StatusIsHonest, SessionsAreNotLeftBehind, NothingIsSentAfterDisconnect, PTL
  DEF SessionSafe

-----------------------------------------------------------------------------
(* The sum: what the run checks is a behaviour of every component.          *)

\* Whatever part a behaviour moves, each component takes its own steps or none, so
\* what holds of each by itself holds here.
THEOREM PartsAreComponents == Spec => SubscriptionSpec /\ UserSpec /\ AccountSpec /\ BaileysSpec
<1>1. Init => SubscriptionInit /\ UserInit /\ AccountInit /\ BaileysInit
  BY DEF Init
<1>2. [Next]_<<part, subscriptionVars, userVars, accountVars, baileysVars>>
         => /\ [SubscriptionNext]_subscriptionVars
            /\ [UserNext]_userVars
            /\ [AccountNext]_accountVars
            /\ [BaileysNext]_baileysVars
  BY DEF Next, SubscriptionsStep, ClientsStep, NumbersStep, SessionsStep
<1> QED
  BY <1>1, <1>2, PTL DEF Spec, SubscriptionSpec, UserSpec, AccountSpec, BaileysSpec

\* AdministrationTypeOK, of the four together.
THEOREM AdministrationTypeCorrect == Spec => []AdministrationTypeOK
  BY PartsAreComponents, SubscriptionTypeCorrect, AccountsTypeCorrect, AccountTypeCorrect,
     BaileysTypeCorrect, PTL
  DEF AdministrationTypeOK

\* What the run checks of the four, for all values of the constants.
THEOREM AdministrationIsSafe ==
    Spec => [](SubscriptionsSafe /\ LoginsSafe /\ RoutesSafe /\ SessionSafe)
  BY PartsAreComponents, SubscriptionsAreSafe, LoginsAreSafe, RoutesAreSafe, SessionsAreSafe, PTL

=============================================================================
