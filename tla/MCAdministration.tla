--------------------------- MODULE MCAdministration ---------------------------
(***************************************************************************)
(* What administrators and tenants manage, checked in one run: the table of *)
(* tenants and its subscriptions, the logins of clients, the numbers with   *)
(* the cache the webhook asks, and the WhatsApp Web session.  The four      *)
(* share no variable, so every behaviour moves one of them and the others   *)
(* stay as they start: the states are the sum of the four, not their        *)
(* product.  Model values are shared, too: x1 is a tenant here, an email    *)
(* there.                                                                   *)
(***************************************************************************)
EXTENDS Subscriptions, ClientAccounts, AccountCache, Baileys, TLC

CONSTANTS x1, x2, y1, y2, k1, k2, n1, n2

VARIABLE part

Init ==
    /\ part \in {"subscriptions", "unlimited", "clients", "numbers", "sessions"}
    /\ SubscriptionInit /\ UserInit /\ AccountInit /\ BaileysInit
    /\ Cardinality({t \in Tenants : row[t] = Unlimited}) = IF part = "unlimited" THEN 1 ELSE 0

\* Up to three changes of one tab in up to three days, or two of two tabs on one day;
\* with one of the tenants unlimited, up to two of one tab in up to three days.
Changes == past.changes + Cardinality({k \in Requests : req[k].pc = "read"})
OneTab == Of(n2) = {} /\ past.newest[n2] = 0 /\ ~past.failed[n2]
SubscriptionsStep ==
    /\ part \in {"subscriptions", "unlimited"} /\ SubscriptionNext
    /\ IF part = "unlimited" THEN OneTab' /\ Changes' <= 2
       ELSE ((OneTab /\ now + Changes <= 4) \/ (now = 0 /\ Changes <= 2))'
    /\ UNCHANGED <<part, userVars, accountVars, baileysVars>>
ClientsStep ==
    part = "clients" /\ UserNext /\ UNCHANGED <<part, subscriptionVars, accountVars, baileysVars>>

\* Two accounts whose numbers are changed by one call at a time, or one account and
\* two calls that overlap while no key ages.
OneCall == call[n2].pc = "idle"
OneAccount ==
    /\ \E a \in Accounts : accountRow[a].state = "unborn"
    /\ \A p \in Phones : cache[p].left \in {0, TTL}
    /\ \A a \in Accounts, p \in Phones : accountPast.gone[a][p] \in {0, Longest}
NumbersStep ==
    /\ part = "numbers" /\ AccountNext /\ (OneCall \/ OneAccount)'
    /\ UNCHANGED <<part, subscriptionVars, userVars, baileysVars>>
SessionsStep ==
    part = "sessions" /\ BaileysNext /\ UNCHANGED <<part, subscriptionVars, userVars, accountVars>>

Next == SubscriptionsStep \/ ClientsStep \/ NumbersStep \/ SessionsStep

Spec == Init /\ [][Next]_<<part, subscriptionVars, userVars, accountVars, baileysVars>>

Alike == Permutations({x1, x2}) \cup Permutations({y1, y2}) \cup Permutations({k1, k2})

\* Every part's state has its type and the relations between its variables that hold
\* by every single step.
AdministrationTypeOK ==
    /\ SubscriptionTypeOK
    /\ ClientAccountsTypeOK
    /\ AccountTypeOK
    /\ BaileysTypeOK
===============================================================================
