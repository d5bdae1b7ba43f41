------------------------------ MODULE MCDashboard ------------------------------
(***************************************************************************)
(* What agents and customers see on their screens, checked in one run: the  *)
(* conversation that is open, the FAQs and products with the answers made   *)
(* from them, and the shop with its orders.  The three share no variable,   *)
(* so every behaviour moves one of them and the others stay as they start:  *)
(* the states are the sum of the three, not their product.  Model values    *)
(* are shared, too: k1 is an opening here, a request there.                 *)
(***************************************************************************)
EXTENDS LiveThread, Catalog, Orders, TLC

CONSTANTS k1, k2, x1, x2, n1, n2, n3

\* FAQs, and products, asked about while other callers of the endpoints change
\* them; more changes that nobody asks about; and the FAQs in a tab whose requests
\* may fail, in one that makes more changes, or in two tabs.
Situations ==
    {[faqs |-> faqs, items |-> {x1, x2}, fields |-> {}, tabs |-> {}, askers |-> {n3},
      writes |-> 2, api |-> TRUE, redisFails |-> TRUE, requestsFail |-> FALSE] : faqs \in BOOLEAN}
    \cup
    {[faqs |-> TRUE, items |-> {x1, x2}, fields |-> {}, tabs |-> {}, askers |-> {},
      writes |-> 3, api |-> TRUE, redisFails |-> FALSE, requestsFail |-> FALSE],
     [faqs |-> TRUE, items |-> {x1, x2}, fields |-> Fields, tabs |-> {n1}, askers |-> {},
      writes |-> 2, api |-> FALSE, redisFails |-> FALSE, requestsFail |-> TRUE],
     [faqs |-> TRUE, items |-> {x1, x2}, fields |-> {"answer"}, tabs |-> {n1}, askers |-> {},
      writes |-> 3, api |-> FALSE, redisFails |-> FALSE, requestsFail |-> FALSE],
     [faqs |-> TRUE, items |-> {x1, x2}, fields |-> Fields, tabs |-> {n1, n2}, askers |-> {},
      writes |-> 2, api |-> FALSE, redisFails |-> FALSE, requestsFail |-> FALSE]}

VARIABLE part

\* Openings while a customer writes, two only if the connection has held since the
\* last click and no join waits for its query; or one and the memory panel while
\* connected.
OneOpening == \E k \in Openings : call[k].pc = "idle"
Held == ~past.dropped /\ socket.joining = {}
LiveStep ==
    /\ part = "thread" /\ LiveNext
    /\ \/ call'[n3].pc = "idle" /\ (OneOpening \/ Held)'
       \/ (OneOpening /\ socket.up)' /\ \A v \in Convs : saved'[v] = 0
    /\ UNCHANGED <<part, catalogVars, ordersVars>>
CatalogPart ==
    part = "catalog" /\ CatalogNext /\ UNCHANGED <<part, liveVars, ordersVars>>

\* Orders of a page that nobody looks at, or one order of one product.
Shopping ==
    /\ \A k \in OrderRequests : orderReq[k].pc \in {"idle", "posted", "stored"}
    /\ orderPast.updates = 0 /\ \A v \in OrderTabs : orderTab[v].rows = {}
OneOrder ==
    /\ \E o \in OrderIds : order[o].status = "none"
    /\ \A g \in Pages : \E x \in Products : orderPast.put[g][x] = 0
    /\ \A g \in Pages : ~orderPast.unsure[g] /\ ~orderPast.edited[g]
OrdersStep ==
    part = "orders" /\ OrdersNext /\ (Shopping \/ OneOrder)'
        /\ UNCHANGED <<part, liveVars, catalogVars>>

Init ==
    /\ part \in {"thread", "catalog", "orders"}
    /\ LiveInit /\ OrdersInit
    \* One way to start is enough for a part that stays.
    /\ CatalogInit /\ (part # "catalog" => scene.faqs /\ scene.tabs = {})

Next == LiveStep \/ CatalogPart \/ OrdersStep

Spec == Init /\ [][Next]_<<part, liveVars, catalogVars, ordersVars>>

Alike == Permutations({k1, k2}) \cup Permutations({x1, x2})

\* Every part's state has its type and the relations between its variables that hold
\* by every single step.
DashboardTypeOK ==
    /\ LiveTypeOK
    /\ CatalogTypeOK
    /\ OrdersTypeOK
================================================================================
