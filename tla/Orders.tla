-------------------------------- MODULE Orders --------------------------------
(***************************************************************************)
(* Orders of the web shop.  A customer's page (shop.html) keeps a cart and  *)
(* sends it; ShopService stores the order; agents confirm or cancel it in   *)
(* their tabs, and OrdersService.updateStatus tells the customer: it reads  *)
(* the order, writes the status, looks for an active number and queues the  *)
(* notice, and others may do the same in between.                           *)
(***************************************************************************)
EXTENDS Integers, FiniteSets

CONSTANTS
    Products,       \* those createOrder takes: their name is not blank
    Pages,        \* open shop pages
    OrderTabs,         \* dashboards that show the orders
    OrderRequests,     \* requests that may be under way
    OrderIds,     \* bound: orders that may be stored
    NoOrder,
    MaxPut,       \* bound: pieces of a product put in a cart, from one loading to the next
    MaxUpdates,   \* bound: changes of status
    Wanted        \* the statuses other callers of PATCH /orders/:id send

Allowed == {"pending", "confirmed", "cancelled", "delivered"}

ASSUME OrdersAssumption ==
    /\ NoOrder \notin Pages \cup OrderTabs \cup OrderIds
    /\ MaxPut \in Nat /\ MaxUpdates \in Nat
    /\ Wanted \subseteq STRING

VARIABLES
    page,    \* page[g]: cart and button of a shop page
    order,   \* order[o]: a row of orders
    told,    \* told[o]: the last notice about it in the outbound queue
    orderReq,     \* orderReq[k]: a request
    orderTab,     \* orderTab[b]: the orders view of a dashboard
    orderPast     \* what the properties remember

ordersVars == <<page, order, told, orderReq, orderTab, orderPast>>

Cart == [Products -> 0..MaxPut]
Empty == [x \in Products |-> 0]
Statuses == Allowed \cup {"none"}
Notices == {"none", "confirmed", "problem"}
NoOrderRequest == [pc |-> "idle", page |-> NoOrder, items |-> Empty, tab |-> NoOrder, order |-> NoOrder,
                   status |-> "none", rows |-> {}]

From(g) == {k \in OrderRequests : orderReq[k].page = g}
\* Between its update and the end of its notice.
Telling(o) == {k \in OrderRequests : orderReq[k].order = o /\ orderReq[k].pc \in {"updated", "found"}}

OrdersTypeOK ==
    /\ page \in [Pages -> [open : BOOLEAN, cart : Cart, submitting : BOOLEAN]]
    /\ order \in [OrderIds -> [status : Statuses, items : Cart]]
    /\ told \in [OrderIds -> Notices]
    /\ \A k \in OrderRequests :
           orderReq[k].pc \in {"idle", "posted", "stored", "patch", "read", "updated", "found",
                               "answered", "load", "listed"}
    /\ orderPast.updates \in 0..MaxUpdates
    \* The button that orders is disabled while the page waits, and only then.
    /\ \A g \in Pages : page[g].submitting <=> From(g) # {}
    \* put, removed, ordered: pieces, since the page was loaded.  edited: the cart was
    \* changed while its order was sent.  unsure: an order was stored, and the page was
    \* not told.  overlapped, unsent: what happened to the notices of an order since it was
    \* changed while no other change of it was on its way.
    /\ orderPast.put \in [Pages -> Cart] /\ orderPast.removed \in [Pages -> Cart]

OrdersInit ==
    /\ page = [g \in Pages |-> [open |-> FALSE, cart |-> Empty, submitting |-> FALSE]]
    /\ order = [o \in OrderIds |-> [status |-> "none", items |-> Empty]]
    /\ told = [o \in OrderIds |-> "none"]
    /\ orderReq = [k \in OrderRequests |-> NoOrderRequest]
    /\ orderTab = [b \in OrderTabs |-> [rows |-> {}, loading |-> FALSE]]
    /\ orderPast = [updates |-> 0,
                    put |-> [g \in Pages |-> Empty], removed |-> [g \in Pages |-> Empty],
                    ordered |-> [g \in Pages |-> Empty],
                    edited |-> [g \in Pages |-> FALSE], unsure |-> [g \in Pages |-> FALSE],
                    overlapped |-> [o \in OrderIds |-> FALSE], unsent |-> [o \in OrderIds |-> FALSE]]

-------------------------------------------------------------------------------
(* The shop page *)

\* The page is loaded, or loaded again: its cart is empty, and it waits for nothing.
LoadStore(g) ==
    /\ page' = [page EXCEPT ![g] = [open |-> TRUE, cart |-> Empty, submitting |-> FALSE]]
    /\ orderReq' = [k \in OrderRequests |-> IF k \notin From(g) THEN orderReq[k]
                                            ELSE IF orderReq[k].pc = "posted" THEN [orderReq[k] EXCEPT !.page = NoOrder]
                                            ELSE NoOrderRequest]
    /\ orderPast' = [orderPast EXCEPT !.put[g] = Empty, !.removed[g] = Empty, !.ordered[g] = Empty,
                                      !.edited[g] = FALSE, !.unsure[g] = FALSE]
    /\ UNCHANGED <<order, told, orderTab>>

AddToCart(g, x) ==
    /\ page[g].open
    /\ orderPast.put[g][x] < MaxPut
    /\ page' = [page EXCEPT ![g].cart[x] = @ + 1]
    /\ orderPast' = [orderPast EXCEPT !.put[g][x] = @ + 1, !.edited[g] = @ \/ page[g].submitting]
    /\ UNCHANGED <<order, told, orderReq, orderTab>>

RemoveFromCart(g, x) ==
    /\ page[g].cart[x] > 0
    /\ page' = [page EXCEPT ![g].cart[x] = 0]
    /\ orderPast' = [orderPast EXCEPT !.removed[g][x] = @ + page[g].cart[x],
                                      !.edited[g] = @ \/ page[g].submitting]
    /\ UNCHANGED <<order, told, orderReq, orderTab>>

\* state.submitting, and the cart is not empty
MaySubmit(g) == ~page[g].submitting /\ page[g].cart # Empty

\* Mutant of SubmitOrder: the cart is emptied when the order is sent.
SubmitClearing(k, g) ==
    /\ orderReq[k].pc = "idle"
    /\ MaySubmit(g)
    /\ orderReq' = [orderReq EXCEPT ![k] = [NoOrderRequest EXCEPT !.pc = "posted", !.page = g,
                                                                  !.items = page[g].cart]]
    /\ page' = [page EXCEPT ![g].submitting = TRUE, ![g].cart = Empty]
    /\ UNCHANGED <<order, told, orderTab, orderPast>>

SubmitOrder(k, g) ==
    /\ orderReq[k].pc = "idle"
    /\ MaySubmit(g)
    /\ orderReq' = [orderReq EXCEPT ![k] = [NoOrderRequest EXCEPT !.pc = "posted", !.page = g,
                                                                  !.items = page[g].cart]]
    /\ page' = [page EXCEPT ![g].submitting = TRUE]
    /\ UNCHANGED <<order, told, orderTab, orderPast>>

\* The order is stored with the items and the prices of the page.
CreateOrder(k, o) ==
    LET g == orderReq[k].page IN
    /\ orderReq[k].pc = "posted"
    /\ order[o].status = "none"
    /\ order' = [order EXCEPT ![o] = [status |-> "pending", items |-> orderReq[k].items]]
    /\ IF g = NoOrder
       THEN orderReq' = [orderReq EXCEPT ![k] = NoOrderRequest] /\ UNCHANGED orderPast
       ELSE /\ orderReq' = [orderReq EXCEPT ![k].pc = "stored"]
            /\ orderPast' = [orderPast EXCEPT !.ordered[g] = [x \in Products |-> @[x] + orderReq[k].items[x]]]
    /\ UNCHANGED <<page, told, orderTab>>

\* The page has the answer: whatever is in the cart by now goes.
OrderPlaced(k) ==
    /\ orderReq[k].pc = "stored"
    /\ page' = [page EXCEPT ![orderReq[k].page] = [@ EXCEPT !.cart = Empty, !.submitting = FALSE]]
    /\ orderReq' = [orderReq EXCEPT ![k] = NoOrderRequest]
    /\ UNCHANGED <<order, told, orderTab, orderPast>>

\* Mutant of OrderFails: the button stays disabled.
OrderFailsForGood(k) ==
    /\ orderReq[k].pc = "posted" /\ orderReq[k].page # NoOrder
    /\ orderReq' = [orderReq EXCEPT ![k] = NoOrderRequest]
    /\ UNCHANGED <<page, order, told, orderTab, orderPast>>

\* The request is refused, fails or is lost, or its answer is; the cart stays.
OrderFails(k) ==
    LET g == orderReq[k].page IN
    /\ orderReq[k].pc \in {"posted", "stored"} /\ g # NoOrder
    /\ page' = [page EXCEPT ![g].submitting = FALSE]
    /\ \/ /\ orderReq' = [orderReq EXCEPT ![k] = NoOrderRequest]
          /\ orderPast' = [orderPast EXCEPT !.unsure[g] = @ \/ orderReq[k].pc = "stored"]
       \/ /\ orderReq[k].pc = "posted"                 \* the server still has it
          /\ orderReq' = [orderReq EXCEPT ![k].page = NoOrder]
          /\ orderPast' = [orderPast EXCEPT !.unsure[g] = TRUE]
    /\ UNCHANGED <<order, told, orderTab>>

-------------------------------------------------------------------------------
(* A change of status                                                      *)

Patch(k, b, o, s) ==
    [NoOrderRequest EXCEPT !.pc = "patch", !.tab = b, !.order = o, !.status = s]

\* updateOrderStatus: the buttons of a row that is shown; nothing disables them.
UpdateOrderStatus(k, b, o, s) ==
    /\ orderReq[k].pc = "idle"
    /\ s \in {"confirmed", "cancelled"}
    /\ ~orderTab[b].loading /\ o \in orderTab[b].rows
    /\ orderReq' = [orderReq EXCEPT ![k] = Patch(k, b, o, s)]
    /\ UNCHANGED <<page, order, told, orderTab, orderPast>>

\* Another caller; what is no status becomes pending.
PatchOrder(k, o, s) ==
    /\ orderReq[k].pc = "idle"
    /\ orderReq' = [orderReq EXCEPT ![k] = Patch(k, NoOrder, o, IF s \in Allowed THEN s ELSE "pending")]
    /\ UNCHANGED <<page, order, told, orderTab, orderPast>>

\* findFirst: without the order, 404.
FindOrder(k) ==
    /\ orderReq[k].pc = "patch"
    /\ orderReq' = [orderReq EXCEPT ![k] = IF order[orderReq[k].order].status = "none" THEN NoOrderRequest
                                           ELSE [@ EXCEPT !.pc = "read"]]
    /\ UNCHANGED <<page, order, told, orderTab, orderPast>>

\* updateMany.  The notices of an order start anew when no other one is on its way.
UpdateMany(k) ==
    LET o == orderReq[k].order
        busy == Telling(o) # {}
    IN
    /\ orderReq[k].pc = "read"
    /\ orderPast.updates < MaxUpdates
    /\ order' = [order EXCEPT ![o].status = orderReq[k].status]
    /\ orderReq' = [orderReq EXCEPT ![k].pc = "updated"]
    /\ orderPast' = [orderPast EXCEPT !.updates = @ + 1, !.overlapped[o] = busy,
                                      !.unsent[o] = @ /\ busy]
    /\ UNCHANGED <<page, told, orderTab>>

\* With an answer, or without one if the tab no longer waits.
OrderAnswered(k) == IF orderReq[k].tab = NoOrder THEN NoOrderRequest ELSE [orderReq[k] EXCEPT !.pc = "answered"]

\* findFirst of an active number: without one nobody is told.
FindAccount(k) ==
    /\ orderReq[k].pc = "updated"
    /\ \/ orderReq' = [orderReq EXCEPT ![k].pc = "found"] /\ UNCHANGED orderPast
       \/ /\ orderReq' = [orderReq EXCEPT ![k] = OrderAnswered(k)]
          /\ orderPast' = [orderPast EXCEPT !.unsent[orderReq[k].order] = TRUE]
    /\ UNCHANGED <<page, order, told, orderTab>>

\* Mutant of NoticeOf: whatever is not cancelled is good news.
NoticeOfCancelled(status) == IF status = "cancelled" THEN "problem" ELSE "confirmed"

NoticeOf(status) == IF status = "confirmed" THEN "confirmed" ELSE "problem"

\* The notice is queued; an error is logged.
EnqueueNotice(k) ==
    LET o == orderReq[k].order IN
    /\ orderReq[k].pc = "found"
    /\ \/ told' = [told EXCEPT ![o] = NoticeOf(orderReq[k].status)] /\ UNCHANGED orderPast
       \/ /\ orderPast' = [orderPast EXCEPT !.unsent[o] = TRUE]
          /\ UNCHANGED told
    /\ orderReq' = [orderReq EXCEPT ![k] = OrderAnswered(k)]
    /\ UNCHANGED <<page, order, orderTab>>

-------------------------------------------------------------------------------
(* The orders view *)

\* loadOrders: by the view and its button, or after a change.
LoadOrders(k, b) ==
    /\ \/ orderReq[k].pc = "idle"
       \/ orderReq[k].pc = "answered" /\ orderReq[k].tab = b
    /\ orderReq' = [orderReq EXCEPT ![k] = [NoOrderRequest EXCEPT !.pc = "load", !.tab = b]]
    /\ orderTab' = [orderTab EXCEPT ![b].loading = TRUE]
    /\ UNCHANGED <<page, order, told, orderPast>>

FindAll(k) ==
    /\ orderReq[k].pc = "load"
    /\ orderReq' = [orderReq EXCEPT ![k] = [@ EXCEPT !.pc = "listed",
                             !.rows = {o \in OrderIds : order[o].status # "none"}]]
    /\ UNCHANGED <<page, order, told, orderTab, orderPast>>

OrdersArrive(k) ==
    /\ orderReq[k].pc = "listed"
    /\ orderTab' = [orderTab EXCEPT ![orderReq[k].tab] = [rows |-> orderReq[k].rows, loading |-> FALSE]]
    /\ orderReq' = [orderReq EXCEPT ![k] = NoOrderRequest]
    /\ UNCHANGED <<page, order, told, orderPast>>

\* A request of the tab fails or its answer is lost; the rows stay as they were.
OrderRequestFails(k) ==
    LET b == orderReq[k].tab IN
    /\ b # NoOrder
    /\ orderReq' = [orderReq EXCEPT ![k] = IF orderReq[k].pc \in {"patch", "read", "updated", "found"}
                                           THEN [@ EXCEPT !.tab = NoOrder] ELSE NoOrderRequest]
    /\ orderTab' = [orderTab EXCEPT ![b].loading = @ /\ orderReq[k].pc \notin {"load", "listed"}]
    /\ UNCHANGED <<page, order, told, orderPast>>
-------------------------------------------------------------------------------

OrdersNext ==
    \/ \E g \in Pages :
           \/ LoadStore(g)
           \/ \E x \in Products : AddToCart(g, x) \/ RemoveFromCart(g, x)
    \/ \E k \in OrderRequests :
           \/ \E g \in Pages : SubmitOrder(k, g)
           \/ \E o \in OrderIds :
                  \/ CreateOrder(k, o)
                  \/ \E s \in Wanted : PatchOrder(k, o, s)
                  \/ \E b \in OrderTabs, s \in Allowed : UpdateOrderStatus(k, b, o, s)
           \/ OrderPlaced(k)
           \/ OrderFails(k)
           \/ FindOrder(k)
           \/ UpdateMany(k)
           \/ FindAccount(k)
           \/ EnqueueNotice(k)
           \/ \E b \in OrderTabs : LoadOrders(k, b)
           \/ FindAll(k)
           \/ OrdersArrive(k)
           \/ OrderRequestFails(k)

OrdersSpec == OrdersInit /\ [][OrdersNext]_ordersVars

-------------------------------------------------------------------------------

\* No piece is ordered more often than it was put in the cart, however the clicks on
\* the button meet its requests, unless an order was stored whose answer the page
\* never had: then the customer may send the same cart again.
OrderedOnce ==
    \A g \in Pages, x \in Products :
        ~orderPast.unsure[g] => orderPast.ordered[g][x] <= orderPast.put[g][x]

\* Nothing is forgotten: on a page that does not wait, what was put in the cart is in
\* it, was removed or was ordered, whatever failed; unless the cart was changed while
\* its order was on its way (shop.html:670 clears what was added meanwhile).
NothingForgotten ==
    \A g \in Pages, x \in Products :
        ~page[g].submitting /\ ~orderPast.unsure[g] /\ ~orderPast.edited[g] =>
            orderPast.put[g][x] = page[g].cart[x] + orderPast.removed[g][x] + orderPast.ordered[g][x]

\* When nothing more is on its way, the last notice about an order says what its status
\* says, unless changes overlapped since it was last changed alone, or a notice could
\* not be sent: the notice is queued after the update, without looking at the row.
LastNoticeMatches ==
    \A o \in OrderIds :
        /\ Telling(o) = {}
        /\ told[o] # "none" \/ order[o].status \notin {"none", "pending"}
        /\ ~orderPast.overlapped[o] /\ ~orderPast.unsent[o]
        => told[o] # "none" /\ (told[o] = "confirmed" <=> order[o].status = "confirmed")

\* The cart and the stored orders, however clicks, lost requests and lost answers
\* meet (shop.html, shop.service.ts).
CartSafe ==
    /\ OrderedOnce
    /\ NothingForgotten
===============================================================================
