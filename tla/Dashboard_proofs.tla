-------------------------- MODULE Dashboard_proofs --------------------------
(***************************************************************************)
(* Proofs about the three components that screens show, each for all values *)
(* of its constants: one section per component, which uses nothing of the   *)
(* others.                                                                  *)
(***************************************************************************)
EXTENDS MCDashboard, FiniteSetTheorems, TLAPS

-----------------------------------------------------------------------------
(* Orders: any products, pages, tabs, requests and orders.                  *)

OrderRequestType ==
    [pc : {"idle", "posted", "stored", "patch", "read", "updated", "found", "answered", "load",
           "listed"},
     page : Pages \cup {NoOrder}, items : Cart, tab : OrderTabs \cup {NoOrder},
     order : OrderIds \cup {NoOrder}, status : Statuses, rows : SUBSET OrderIds]

OrderPastType ==
    [updates : 0..MaxUpdates, put : [Pages -> Cart], removed : [Pages -> Cart],
     ordered : [Pages -> [Products -> Nat]], edited : [Pages -> BOOLEAN],
     unsure : [Pages -> BOOLEAN], overlapped : [OrderIds -> BOOLEAN],
     unsent : [OrderIds -> BOOLEAN]]

PageType == [open : BOOLEAN, cart : Cart, submitting : BOOLEAN]

\* What a request holds while it is under way: an order of a page, or a change of one
\* order to a status.
OrderRequestsHold ==
    \A k \in OrderRequests :
        /\ orderReq[k].page # NoOrder => orderReq[k].pc \in {"posted", "stored"}
                                         /\ orderReq[k].tab = NoOrder
        /\ orderReq[k].pc = "stored" => orderReq[k].page # NoOrder
        /\ orderReq[k].pc \in {"patch", "read", "updated", "found"} =>
               orderReq[k].order \in OrderIds /\ orderReq[k].status \in Allowed

\* A page waits for one request at most.
OneOrderAtATime ==
    \A g \in Pages : \A j, k \in From(g) : j = k

\* Pieces of a product are in the cart or were removed, at most once; a page that has
\* no doubt about its order has ordered none of them that is still in the cart, and a
\* cart that was left alone is the order that is on its way.
Stored(g) == \E k \in From(g) : orderReq[k].pc = "stored"
Pieces(g, x) ==
    LET put == orderPast.put[g][x]
        removed == orderPast.removed[g][x]
        ordered == orderPast.ordered[g][x]
        cart == page[g].cart[x]
    IN
    /\ cart + removed <= put
    /\ ~orderPast.unsure[g] =>
          /\ ordered <= put
          /\ ~Stored(g) => ordered + cart <= put
          /\ \A k \in From(g) : orderReq[k].pc = "posted" => ordered + orderReq[k].items[x] <= put
    /\ ~orderPast.unsure[g] /\ ~orderPast.edited[g] =>
          /\ ~Stored(g) => put = cart + removed + ordered
          /\ Stored(g) => put = removed + ordered
          /\ \A k \in From(g) : orderReq[k].pc = "posted" => orderReq[k].items[x] = cart
PiecesAddUp == \A g \in Pages, x \in Products : Pieces(g, x)

\* Until changes of an order overlap, the one that is being told is the row's.
NoticesFollow ==
    \A o \in OrderIds :
        /\ order[o].status = "none" =>
              /\ told[o] = "none"
              /\ \A k \in OrderRequests : orderReq[k].order = o =>
                     orderReq[k].pc \notin {"read", "updated", "found"}
        /\ ~orderPast.overlapped[o] =>
              /\ \A j, k \in Telling(o) : j = k
              /\ \A k \in Telling(o) : orderReq[k].status = order[o].status

OrdersInv ==
    /\ OrdersTypeOK
    /\ orderReq \in [OrderRequests -> OrderRequestType]
    /\ orderPast \in OrderPastType
    /\ OrderRequestsHold
    /\ OneOrderAtATime
    /\ PiecesAddUp
    /\ NoticesFollow
    /\ LastNoticeMatches

LEMMA NoOrderRequestType ==
    /\ NoOrderRequest \in OrderRequestType
    /\ NoOrderRequest.pc = "idle" /\ NoOrderRequest.page = NoOrder
    /\ NoOrderRequest.tab = NoOrder /\ NoOrderRequest.order = NoOrder
<1> USE OrdersAssumption
<1>1. Empty \in Cart
  BY DEF Empty, Cart
<1> QED
  BY <1>1 DEF NoOrderRequest, OrderRequestType, Statuses

LEMMA OrderRequestFacts ==
    ASSUME OrdersInv, NEW k \in OrderRequests
    PROVE  /\ orderReq[k] \in OrderRequestType
           /\ orderReq[k].page \in Pages \cup {NoOrder}
           /\ orderReq[k].tab \in OrderTabs \cup {NoOrder}
           /\ orderReq[k].order \in OrderIds \cup {NoOrder}
           /\ orderReq[k].items \in Cart
           /\ orderReq[k].status \in Statuses
  BY DEF OrdersInv, OrderRequestType

LEMMA OrdersInitially == OrdersInit => OrdersInv
<1> USE OrdersAssumption
<1> SUFFICES ASSUME OrdersInit PROVE OrdersInv
  OBVIOUS
<1>1. Empty \in Cart /\ \A x \in Products : Empty[x] = 0
  BY DEF Empty, Cart
<1>2. /\ orderReq \in [OrderRequests -> OrderRequestType]
      /\ \A k \in OrderRequests : /\ orderReq[k].pc = "idle" /\ orderReq[k].page = NoOrder
                                  /\ orderReq[k].order = NoOrder
  BY NoOrderRequestType DEF OrdersInit
<1>3. /\ \A g \in Pages : From(g) = {}
      /\ \A o \in OrderIds : Telling(o) = {}
  BY <1>2 DEF From, Telling
<1>4. orderPast \in OrderPastType
  BY <1>1 DEF OrdersInit, OrderPastType, Empty
<1>5. OrdersTypeOK
  BY <1>1, <1>2, <1>3, <1>4 DEF OrdersInit, OrdersTypeOK, OrderPastType, Statuses, Notices
<1>6. OrderRequestsHold /\ OneOrderAtATime
  BY <1>2, <1>3 DEF OrderRequestsHold, OneOrderAtATime
<1>7. PiecesAddUp
  BY <1>1, <1>3 DEF OrdersInit, PiecesAddUp, Pieces, Stored
<1>8. NoticesFollow /\ LastNoticeMatches
  BY <1>2, <1>3 DEF OrdersInit, NoticesFollow, LastNoticeMatches
<1> QED
  BY <1>2, <1>4, <1>5, <1>6, <1>7, <1>8 DEF OrdersInv

-----------------------------------------------------------------------------
\* What a step leaves alone of a page, of its cart and of the requests it waits for.
PagesStay ==
    /\ page' = page
    /\ orderPast'.put = orderPast.put /\ orderPast'.removed = orderPast.removed
    /\ orderPast'.ordered = orderPast.ordered /\ orderPast'.edited = orderPast.edited
    /\ orderPast'.unsure = orderPast.unsure

\* A request that no page waits for changes, and none waits for it then.
LEMMA RequestKeepsPages ==
    ASSUME OrdersInv, NEW k \in OrderRequests, NEW r \in OrderRequestType,
           orderReq' = [orderReq EXCEPT ![k] = r],
           orderReq[k].page = NoOrder, r.page = NoOrder, r.pc # "stored",
           r.pc \in {"patch", "read", "updated", "found"} =>
               r.order \in OrderIds /\ r.status \in Allowed,
           PagesStay, orderPast' \in OrderPastType,
           order' \in [OrderIds -> [status : Statuses, items : Cart]],
           told' \in [OrderIds -> Notices]
    PROVE  /\ OrdersTypeOK' /\ OrderRequestsHold' /\ OneOrderAtATime' /\ PiecesAddUp'
           /\ orderReq' \in [OrderRequests -> OrderRequestType]
           /\ (orderPast \in OrderPastType)'
<1> USE OrdersAssumption
<1>1. /\ orderReq' \in [OrderRequests -> OrderRequestType]
      /\ orderReq'[k] = r /\ \A j \in OrderRequests \ {k} : orderReq'[j] = orderReq[j]
      /\ (orderPast \in OrderPastType)'
  BY DEF OrdersInv, OrderPastType
<1>2. \A g \in Pages : From(g)' = From(g) /\ k \notin From(g)
  BY <1>1 DEF From
<1>3. OrdersTypeOK'
  <2>1. \A j \in OrderRequests : orderReq'[j].pc \in
            {"idle", "posted", "stored", "patch", "read", "updated", "found", "answered",
             "load", "listed"}
    BY <1>1 DEF OrderRequestType
  <2>2. orderPast'.updates \in 0..MaxUpdates /\ orderPast'.put \in [Pages -> Cart]
        /\ orderPast'.removed \in [Pages -> Cart]
    BY DEF OrderPastType
  <2> QED
    BY <1>2, <2>1, <2>2 DEF OrdersInv, OrdersTypeOK, PagesStay
<1>4. OrderRequestsHold'
  BY <1>1 DEF OrdersInv, OrderRequestsHold
<1>5. OneOrderAtATime'
  BY <1>2 DEF OrdersInv, OneOrderAtATime
<1>6. PiecesAddUp'
  <2>1. \A g \in Pages : \A j \in From(g) : orderReq'[j] = orderReq[j]
    BY <1>1, <1>2 DEF From
  <2> QED
    BY <1>2, <2>1 DEF OrdersInv, PiecesAddUp, Pieces, Stored, PagesStay
<1> QED
  BY <1>1, <1>3, <1>4, <1>5, <1>6

\* A request that tells nobody anything changes.
LEMMA RequestKeepsNotices ==
    ASSUME OrdersInv, NEW k \in OrderRequests, NEW r,
           orderReq' = [orderReq EXCEPT ![k] = r], order' = order, told' = told,
           orderPast'.overlapped = orderPast.overlapped, orderPast'.unsent = orderPast.unsent,
           \/ r.pc = orderReq[k].pc /\ r.order = orderReq[k].order
              /\ r.status = orderReq[k].status
           \/ /\ orderReq[k].pc \notin {"updated", "found"}
              /\ r.pc \notin {"updated", "found"}
              /\ r.pc = "read" /\ r.order \in OrderIds => order[r.order].status # "none"
    PROVE  NoticesFollow' /\ LastNoticeMatches'
<1>1. orderReq'[k] = r /\ \A j \in OrderRequests \ {k} : orderReq'[j] = orderReq[j]
  BY DEF OrdersInv
<1>2. \A o \in OrderIds : /\ Telling(o)' = Telling(o)
                          /\ \A j \in Telling(o) : orderReq'[j].status = orderReq[j].status
  BY <1>1 DEF Telling
<1>3. NoticesFollow'
  BY <1>1, <1>2 DEF OrdersInv, NoticesFollow
<1>4. LastNoticeMatches'
  BY <1>2 DEF OrdersInv, LastNoticeMatches
<1> QED
  BY <1>3, <1>4


-----------------------------------------------------------------------------
\* What the loading of a page does to the requests.
LEMMA LoadStoreKeepsInv ==
    ASSUME OrdersInv, NEW g \in Pages, LoadStore(g) PROVE OrdersInv'
<1> USE OrdersAssumption
<1>0. Empty \in Cart /\ \A x \in Products : Empty[x] = 0
  BY DEF Empty, Cart
<1>1. \A k \in OrderRequests :
          orderReq'[k] = IF k \notin From(g) THEN orderReq[k]
                         ELSE IF orderReq[k].pc = "posted" THEN [orderReq[k] EXCEPT !.page = NoOrder]
                         ELSE NoOrderRequest
  BY DEF LoadStore
<1>2. \A k \in OrderRequests :
          /\ orderReq'[k] \in OrderRequestType
          /\ orderReq'[k].page # NoOrder => orderReq'[k] = orderReq[k] /\ orderReq[k].page # g
          /\ orderReq[k].page # g => orderReq'[k] = orderReq[k]
          /\ orderReq'[k] # orderReq[k] => orderReq'[k].pc \in {"idle", "posted"}
                                           /\ orderReq[k].pc \in {"posted", "stored"}
                                           /\ orderReq'[k].page = NoOrder
  <2> SUFFICES ASSUME NEW k \in OrderRequests
               PROVE  /\ orderReq'[k] \in OrderRequestType
                      /\ orderReq'[k].page # NoOrder => orderReq'[k] = orderReq[k]
                                                        /\ orderReq[k].page # g
                      /\ orderReq[k].page # g => orderReq'[k] = orderReq[k]
                      /\ orderReq'[k] # orderReq[k] =>
                             /\ orderReq'[k].pc \in {"idle", "posted"}
                             /\ orderReq[k].pc \in {"posted", "stored"}
                             /\ orderReq'[k].page = NoOrder
    OBVIOUS
  <2>1. orderReq[k] \in OrderRequestType
    BY OrderRequestFacts
  <2>2. CASE k \notin From(g)
    BY <1>1, <2>1, <2>2 DEF From
  <2>3. CASE k \in From(g)
    <3>1. orderReq[k].page = g /\ orderReq[k].pc \in {"posted", "stored"}
      BY <2>3 DEF From, OrdersInv, OrderRequestsHold
    <3>2. CASE orderReq[k].pc = "posted"
      BY <1>1, <2>1, <2>3, <3>1, <3>2 DEF OrderRequestType
    <3>3. CASE orderReq[k].pc # "posted"
      BY <1>1, <2>3, <3>1, <3>3, NoOrderRequestType
    <3> QED
      BY <3>2, <3>3
  <2> QED
    BY <2>2, <2>3
<1>3. orderReq' \in [OrderRequests -> OrderRequestType]
  BY <1>2 DEF LoadStore
<1>4. From(g)' = {} /\ \A h \in Pages \ {g} : From(h)' = From(h)
  BY <1>2 DEF From
<1>5. /\ page'[g] = [open |-> TRUE, cart |-> Empty, submitting |-> FALSE]
      /\ \A h \in Pages \ {g} : page'[h] = page[h]
      /\ page' \in [Pages -> PageType]
  BY <1>0 DEF LoadStore, OrdersInv, OrdersTypeOK, PageType
<1>6. /\ orderPast' \in OrderPastType /\ (orderPast \in OrderPastType)'
      /\ orderPast'.put[g] = Empty /\ orderPast'.removed[g] = Empty /\ orderPast'.ordered[g] = Empty
      /\ \A h \in Pages \ {g} :
             /\ orderPast'.put[h] = orderPast.put[h] /\ orderPast'.removed[h] = orderPast.removed[h]
             /\ orderPast'.ordered[h] = orderPast.ordered[h]
             /\ orderPast'.edited[h] = orderPast.edited[h]
             /\ orderPast'.unsure[h] = orderPast.unsure[h]
      /\ orderPast'.overlapped = orderPast.overlapped /\ orderPast'.unsent = orderPast.unsent
  <2>1. Empty \in [Products -> Nat]
    BY DEF Empty
  <2> QED
    BY <1>0, <2>1 DEF LoadStore, OrdersInv, OrderPastType
<1>7. OrdersTypeOK'
  <2>1. \A k \in OrderRequests : orderReq'[k].pc \in
            {"idle", "posted", "stored", "patch", "read", "updated", "found", "answered",
             "load", "listed"}
    BY <1>2 DEF OrderRequestType
  <2>2. \A h \in Pages : page'[h].submitting <=> From(h)' # {}
    BY <1>4, <1>5 DEF OrdersInv, OrdersTypeOK
  <2> QED
    BY <1>5, <1>6, <2>1, <2>2 DEF OrdersInv, OrdersTypeOK, LoadStore, OrderPastType, PageType
<1>8. OrderRequestsHold'
  <2> SUFFICES ASSUME NEW k \in OrderRequests
               PROVE  /\ orderReq'[k].page # NoOrder => orderReq'[k].pc \in {"posted", "stored"}
                                                        /\ orderReq'[k].tab = NoOrder
                      /\ orderReq'[k].pc = "stored" => orderReq'[k].page # NoOrder
                      /\ orderReq'[k].pc \in {"patch", "read", "updated", "found"} =>
                             orderReq'[k].order \in OrderIds /\ orderReq'[k].status \in Allowed
    BY DEF OrderRequestsHold
  <2>1. CASE orderReq'[k] = orderReq[k]
    BY <2>1 DEF OrdersInv, OrderRequestsHold
  <2>2. CASE orderReq'[k] # orderReq[k]
    BY <1>2, <2>2
  <2> QED
    BY <2>1, <2>2
<1>9. OneOrderAtATime'
  BY <1>4 DEF OrdersInv, OneOrderAtATime
<1>10. PiecesAddUp'
  <2> SUFFICES ASSUME NEW h \in Pages, h # g
               PROVE  \A k \in From(h) : orderReq'[k] = orderReq[k]
    BY <1>0, <1>4, <1>5, <1>6 DEF OrdersInv, PiecesAddUp, Pieces, Stored
  <2> QED
    BY <1>2 DEF From
<1>11. \A o \in OrderIds : /\ Telling(o)' = Telling(o)
                           /\ \A k \in Telling(o) : orderReq'[k] = orderReq[k]
  BY <1>2 DEF Telling
<1>12. NoticesFollow'
  <2>1. \A k \in OrderRequests, o \in OrderIds :
            orderReq'[k].pc \in {"read", "updated", "found"} => orderReq'[k] = orderReq[k]
    BY <1>2
  <2>2. order' = order /\ told' = told
    BY DEF LoadStore
  <2> QED
    BY <1>6, <1>11, <2>1, <2>2 DEF OrdersInv, NoticesFollow
<1>13. LastNoticeMatches'
  BY <1>6, <1>11 DEF LoadStore, OrdersInv, LastNoticeMatches
<1> QED
  BY <1>3, <1>6, <1>7, <1>8, <1>9, <1>10, <1>12, <1>13 DEF OrdersInv

\* A customer changes the cart of a page.
LEMMA CartChangeKeepsInv ==
    ASSUME OrdersInv, NEW g \in Pages, page' \in [Pages -> PageType],
           (orderPast \in OrderPastType)', UNCHANGED <<order, told, orderReq>>,
           \A h \in Pages : page'[h].submitting = page[h].submitting,
           \A h \in Pages \ {g} :
               /\ page'[h].cart = page[h].cart
               /\ orderPast'.put[h] = orderPast.put[h]
               /\ orderPast'.removed[h] = orderPast.removed[h],
           orderPast'.ordered = orderPast.ordered, orderPast'.unsure = orderPast.unsure,
           \A h \in Pages : orderPast'.edited[h] =
               IF h = g THEN orderPast.edited[g] \/ page[g].submitting ELSE orderPast.edited[h],
           orderPast'.overlapped = orderPast.overlapped, orderPast'.unsent = orderPast.unsent,
           \A x \in Products :
               /\ orderPast.put[g][x] <= orderPast'.put[g][x]
               /\ orderPast'.put[g][x] - page'[g].cart[x] - orderPast'.removed[g][x]
                    = orderPast.put[g][x] - page[g].cart[x] - orderPast.removed[g][x]
               /\ page'[g].cart[x] - page[g].cart[x] <= orderPast'.put[g][x] - orderPast.put[g][x]
    PROVE  OrdersInv'
<1> USE OrdersAssumption
<1>1. OrdersTypeOK'
  BY DEF OrdersInv, OrdersTypeOK, OrderPastType, PageType, From
<1>2. OrderRequestsHold' /\ OneOrderAtATime'
  BY DEF OrdersInv, OrderRequestsHold, OneOrderAtATime, From
<1>3. PiecesAddUp'
  <2>1. \A h \in Pages : From(h)' = From(h) /\ (Stored(h)' <=> Stored(h))
    BY DEF From, Stored
  <2>2. \A h \in Pages : orderPast.edited[h] => orderPast'.edited[h]
    OBVIOUS
  <2>3. ASSUME NEW h \in Pages \ {g}, NEW x \in Products PROVE Pieces(h, x)'
    <3>1. Pieces(h, x)
      BY DEF OrdersInv, PiecesAddUp
    <3> QED
      BY <2>1, <2>2, <3>1 DEF Pieces
  <2>4. ASSUME NEW x \in Products PROVE Pieces(g, x)'
    <3> DEFINE cart == page[g].cart[x]
               put == orderPast.put[g][x]
               removed == orderPast.removed[g][x]
               ordered == orderPast.ordered[g][x]
    <3>1. Pieces(g, x)
      BY DEF OrdersInv, PiecesAddUp
    <3>2. /\ cart \in Nat /\ put \in Nat /\ removed \in Nat /\ ordered \in Nat
          /\ cart' \in Nat /\ put' \in Nat /\ removed' \in Nat /\ ordered' = ordered
      BY DEF OrdersInv, OrdersTypeOK, OrderPastType, PageType, Cart
    <3>3. put <= put' /\ put' - cart' - removed' = put - cart - removed
          /\ cart' - cart <= put' - put
      OBVIOUS
    <3>4. \A k \in From(g) : orderReq'[k].items[x] \in Nat
      BY OrderRequestFacts DEF From, Cart
    <3>5. ~orderPast'.edited[g] => ~orderPast.edited[g] /\ From(g) = {} /\ ~Stored(g)
      BY DEF OrdersInv, OrdersTypeOK, Stored
    <3>6. cart' + removed' <= put'
      BY <3>1, <3>2, <3>3 DEF Pieces
    <3>7. ASSUME ~orderPast.unsure[g]
          PROVE  /\ ordered' <= put' /\ (~Stored(g) => ordered' + cart' <= put')
                 /\ \A k \in From(g) : orderReq[k].pc = "posted" =>
                                           ordered' + orderReq'[k].items[x] <= put'
      BY <3>1, <3>2, <3>3, <3>4, <3>7 DEF Pieces
    <3>8. ASSUME ~orderPast.unsure[g], ~orderPast'.edited[g]
          PROVE  put' = cart' + removed' + ordered'
      BY <3>1, <3>2, <3>3, <3>5, <3>8 DEF Pieces
    <3> QED
      BY <2>1, <3>5, <3>6, <3>7, <3>8 DEF Pieces
  <2> QED
    BY <2>3, <2>4 DEF PiecesAddUp
<1>4. NoticesFollow' /\ LastNoticeMatches'
  BY DEF OrdersInv, NoticesFollow, LastNoticeMatches, Telling
<1> QED
  BY <1>1, <1>2, <1>3, <1>4 DEF OrdersInv


LEMMA PieceFacts ==
    ASSUME OrdersInv, NEW g \in Pages, NEW x \in Products
    PROVE  /\ Pieces(g, x)
           /\ page[g].cart[x] \in 0..MaxPut /\ orderPast.put[g][x] \in 0..MaxPut
           /\ orderPast.removed[g][x] \in 0..MaxPut /\ orderPast.ordered[g][x] \in Nat
  BY OrdersAssumption
  DEF OrdersInv, OrdersTypeOK, PiecesAddUp, OrderPastType, PageType, Cart

\* One piece of one page.
LEMMA CellOfCart ==
    ASSUME NEW f \in [Pages -> Cart], NEW g \in Pages, NEW x \in Products, NEW n \in 0..MaxPut
    PROVE  LET F == [f EXCEPT ![g][x] = n] IN
           /\ F \in [Pages -> Cart]
           /\ \A h \in Pages \ {g} : F[h] = f[h]
           /\ \A y \in Products : F[g][y] = IF y = x THEN n ELSE f[g][y]
<1> DEFINE c == [f[g] EXCEPT ![x] = n]
<1>1. c \in Cart /\ \A y \in Products : c[y] = IF y = x THEN n ELSE f[g][y]
  BY DEF Cart
<1> HIDE DEF c
<1> QED
  BY <1>1 DEF c

LEMMA AddToCartKeepsInv ==
    ASSUME OrdersInv, NEW g \in Pages, NEW x \in Products, AddToCart(g, x) PROVE OrdersInv'
<1> USE OrdersAssumption
<1>1. page \in [Pages -> PageType] /\ orderPast \in OrderPastType
  BY DEF OrdersInv, OrdersTypeOK, PageType
<1>2. page[g].cart[x] + 1 \in 0..MaxPut /\ orderPast.put[g][x] + 1 \in 0..MaxPut
  BY PieceFacts DEF AddToCart, Pieces
<1>3. /\ page' \in [Pages -> PageType]
      /\ \A h \in Pages : page'[h].submitting = page[h].submitting
      /\ \A h \in Pages \ {g} : page'[h] = page[h]
      /\ \A y \in Products : page'[g].cart[y] = IF y = x THEN page[g].cart[y] + 1
                                                ELSE page[g].cart[y]
  BY <1>1, <1>2 DEF AddToCart, PageType, Cart
<1>4. /\ (orderPast \in OrderPastType)'
      /\ \A h \in Pages \ {g} : orderPast'.put[h] = orderPast.put[h]
      /\ \A y \in Products : orderPast'.put[g][y] = IF y = x THEN orderPast.put[g][y] + 1
                                                    ELSE orderPast.put[g][y]
      /\ orderPast'.removed = orderPast.removed
      /\ orderPast'.ordered = orderPast.ordered /\ orderPast'.unsure = orderPast.unsure
      /\ orderPast'.overlapped = orderPast.overlapped /\ orderPast'.unsent = orderPast.unsent
  <2> DEFINE F == [orderPast.put EXCEPT ![g][x] = orderPast.put[g][x] + 1]
  <2>1. /\ F \in [Pages -> Cart]
        /\ \A h \in Pages \ {g} : F[h] = orderPast.put[h]
        /\ \A y \in Products : F[g][y] = IF y = x THEN orderPast.put[g][x] + 1
                                        ELSE orderPast.put[g][y]
    <3>1. orderPast.put \in [Pages -> Cart]
      BY <1>1 DEF OrderPastType
    <3> QED
      BY <1>2, <3>1, CellOfCart
  <2>2. orderPast' = [orderPast EXCEPT !.put = F,
                          !.edited[g] = orderPast.edited[g] \/ page[g].submitting]
    BY DEF AddToCart
  <2>3. page[g].submitting \in BOOLEAN
    BY <1>1 DEF PageType
  <2> HIDE DEF F
  <2> QED
    BY <1>1, <2>1, <2>2, <2>3 DEF OrderPastType
<1>5. \A h \in Pages : orderPast'.edited[h] =
          IF h = g THEN orderPast.edited[g] \/ page[g].submitting ELSE orderPast.edited[h]
  BY <1>1 DEF AddToCart, OrderPastType
<1>6. \A y \in Products :
          /\ orderPast.put[g][y] <= orderPast'.put[g][y]
          /\ orderPast'.put[g][y] - page'[g].cart[y] - orderPast'.removed[g][y]
               = orderPast.put[g][y] - page[g].cart[y] - orderPast.removed[g][y]
          /\ page'[g].cart[y] - page[g].cart[y] <= orderPast'.put[g][y] - orderPast.put[g][y]
  <2>1. \A y \in Products :
            page[g].cart[y] \in Nat /\ orderPast.put[g][y] \in Nat /\ orderPast.removed[g][y] \in Nat
    BY PieceFacts
  <2> QED
    BY <1>3, <1>4, <2>1
<1> QED
  BY <1>3, <1>4, <1>5, <1>6, CartChangeKeepsInv DEF AddToCart

LEMMA RemoveFromCartKeepsInv ==
    ASSUME OrdersInv, NEW g \in Pages, NEW x \in Products, RemoveFromCart(g, x) PROVE OrdersInv'
<1> USE OrdersAssumption
<1>1. page \in [Pages -> PageType] /\ orderPast \in OrderPastType
  BY DEF OrdersInv, OrdersTypeOK, PageType
<1>2. orderPast.removed[g][x] + page[g].cart[x] \in 0..MaxPut
  BY PieceFacts DEF RemoveFromCart, Pieces
<1>3. /\ page' \in [Pages -> PageType]
      /\ \A h \in Pages : page'[h].submitting = page[h].submitting
      /\ \A h \in Pages \ {g} : page'[h] = page[h]
      /\ \A y \in Products : page'[g].cart[y] = IF y = x THEN 0 ELSE page[g].cart[y]
  BY <1>1, <1>2 DEF RemoveFromCart, PageType, Cart
<1>4. /\ (orderPast \in OrderPastType)'
      /\ \A h \in Pages \ {g} : orderPast'.removed[h] = orderPast.removed[h]
      /\ \A y \in Products : orderPast'.removed[g][y] =
             IF y = x THEN orderPast.removed[g][y] + page[g].cart[y] ELSE orderPast.removed[g][y]
      /\ orderPast'.put = orderPast.put
      /\ orderPast'.ordered = orderPast.ordered /\ orderPast'.unsure = orderPast.unsure
      /\ orderPast'.overlapped = orderPast.overlapped /\ orderPast'.unsent = orderPast.unsent
  <2> DEFINE F == [orderPast.removed EXCEPT ![g][x] = orderPast.removed[g][x] + page[g].cart[x]]
  <2>1. /\ F \in [Pages -> Cart]
        /\ \A h \in Pages \ {g} : F[h] = orderPast.removed[h]
        /\ \A y \in Products : F[g][y] = IF y = x THEN orderPast.removed[g][x] + page[g].cart[x]
                                        ELSE orderPast.removed[g][y]
    <3>1. orderPast.removed \in [Pages -> Cart]
      BY <1>1 DEF OrderPastType
    <3> QED
      BY <1>2, <3>1, CellOfCart
  <2>2. orderPast' = [orderPast EXCEPT !.removed = F,
                          !.edited[g] = orderPast.edited[g] \/ page[g].submitting]
    BY DEF RemoveFromCart
  <2>3. page[g].submitting \in BOOLEAN
    BY <1>1 DEF PageType
  <2> HIDE DEF F
  <2> QED
    BY <1>1, <2>1, <2>2, <2>3 DEF OrderPastType
<1>5. \A h \in Pages : orderPast'.edited[h] =
          IF h = g THEN orderPast.edited[g] \/ page[g].submitting ELSE orderPast.edited[h]
  BY <1>1 DEF RemoveFromCart, OrderPastType
<1>6. \A y \in Products :
          /\ orderPast.put[g][y] <= orderPast'.put[g][y]
          /\ orderPast'.put[g][y] - page'[g].cart[y] - orderPast'.removed[g][y]
               = orderPast.put[g][y] - page[g].cart[y] - orderPast.removed[g][y]
          /\ page'[g].cart[y] - page[g].cart[y] <= orderPast'.put[g][y] - orderPast.put[g][y]
  <2>1. \A y \in Products :
            page[g].cart[y] \in Nat /\ orderPast.put[g][y] \in Nat /\ orderPast.removed[g][y] \in Nat
    BY PieceFacts
  <2> QED
    BY <1>3, <1>4, <2>1
<1> QED
  BY <1>3, <1>4, <1>5, <1>6, CartChangeKeepsInv DEF RemoveFromCart

\* The request of one page changes, or goes; what the page has ordered follows.
LEMMA PageRequestKeepsInv ==
    ASSUME OrdersInv, NEW k \in OrderRequests, NEW r \in OrderRequestType, NEW g \in Pages,
           orderReq' = [orderReq EXCEPT ![k] = r],
           orderReq[k].pc \in {"idle", "posted", "stored"}, r.pc \in {"idle", "posted", "stored"},
           orderReq[k].page = g \/ (orderReq[k].page = NoOrder /\ From(g) = {}),
           \/ r.page = g /\ r.pc # "idle" /\ r.tab = NoOrder
           \/ r.page = NoOrder /\ r.pc # "stored",
           page' \in [Pages -> PageType], page'[g].submitting <=> r.page = g,
           \A h \in Pages \ {g} : page'[h] = page[h],
           (orderPast \in OrderPastType)', orderPast'.put = orderPast.put,
           orderPast'.removed = orderPast.removed, orderPast'.edited = orderPast.edited,
           \A h \in Pages \ {g} : /\ orderPast'.ordered[h] = orderPast.ordered[h]
                                  /\ orderPast'.unsure[h] = orderPast.unsure[h],
           orderPast'.overlapped = orderPast.overlapped, orderPast'.unsent = orderPast.unsent,
           order' \in [OrderIds -> [status : Statuses, items : Cart]], told' = told,
           \A o \in OrderIds : \/ order'[o] = order[o]
                               \/ order[o].status = "none" /\ order'[o].status = "pending",
           \A x \in Products : Pieces(g, x)'
    PROVE  OrdersInv'
<1> USE OrdersAssumption
<1>1. /\ orderReq' \in [OrderRequests -> OrderRequestType]
      /\ orderReq'[k] = r /\ \A j \in OrderRequests \ {k} : orderReq'[j] = orderReq[j]
  BY DEF OrdersInv
<1>2. /\ \A h \in Pages \ {g} : From(h)' = From(h) /\ k \notin From(h)
      /\ From(g) \subseteq {k}
  BY <1>1 DEF From, OrdersInv, OneOrderAtATime
<1>3. From(g)' = IF r.page = g THEN {k} ELSE {}
  BY <1>1, <1>2 DEF From
<1>4. OrdersTypeOK'
  <2>1. \A j \in OrderRequests : orderReq'[j].pc \in
            {"idle", "posted", "stored", "patch", "read", "updated", "found", "answered",
             "load", "listed"}
    BY <1>1 DEF OrderRequestType
  <2>2. \A h \in Pages : page'[h].submitting <=> From(h)' # {}
    <3>1. page'[g].submitting <=> From(g)' # {}
      BY <1>3
    <3>2. ASSUME NEW h \in Pages \ {g} PROVE page'[h].submitting <=> From(h)' # {}
      BY <1>2 DEF OrdersInv, OrdersTypeOK
    <3> QED
      BY <3>1, <3>2
  <2>3. orderPast'.updates \in 0..MaxUpdates /\ orderPast'.put \in [Pages -> Cart]
        /\ orderPast'.removed \in [Pages -> Cart] /\ told' \in [OrderIds -> Notices]
    BY DEF OrderPastType, OrdersInv, OrdersTypeOK
  <2> QED
    BY <2>1, <2>2, <2>3 DEF OrdersTypeOK, PageType
<1>5. OrderRequestsHold'
  BY <1>1 DEF OrdersInv, OrderRequestsHold
<1>6. OneOrderAtATime'
  BY <1>2, <1>3 DEF OrdersInv, OneOrderAtATime
<1>7. PiecesAddUp'
  <2> SUFFICES ASSUME NEW h \in Pages \ {g}, NEW x \in Products PROVE Pieces(h, x)'
    BY DEF PiecesAddUp
  <2>1. \A j \in From(h) : orderReq'[j] = orderReq[j]
    BY <1>1, <1>2 DEF From
  <2>2. Stored(h)' <=> Stored(h)
    BY <1>2, <2>1 DEF Stored
  <2>3. Pieces(h, x)
    BY PieceFacts
  <2> QED
    BY <1>2, <2>1, <2>2, <2>3 DEF Pieces
<1>8. \A o \in OrderIds : /\ Telling(o)' = Telling(o)
                          /\ \A j \in Telling(o) : orderReq'[j] = orderReq[j]
  BY <1>1 DEF Telling
<1>9. \A j \in OrderRequests : orderReq'[j].pc \in {"read", "updated", "found"} =>
                                   orderReq'[j] = orderReq[j]
  BY <1>1
<1>10. \A o \in OrderIds : order[o].status = "none" => told[o] = "none" /\ Telling(o) = {}
  BY DEF OrdersInv, NoticesFollow, Telling
<1>11. NoticesFollow'
  BY <1>8, <1>9, <1>10 DEF OrdersInv, NoticesFollow
<1>12. LastNoticeMatches'
  BY <1>8, <1>10 DEF OrdersInv, LastNoticeMatches
<1> QED
  BY <1>1, <1>4, <1>5, <1>6, <1>7, <1>11, <1>12 DEF OrdersInv


\* The request of a page is the only one.
LEMMA OnlyRequest ==
    ASSUME OrdersInv, NEW k \in OrderRequests, NEW r, NEW g \in Pages,
           orderReq' = [orderReq EXCEPT ![k] = r],
           orderReq[k].page = g \/ From(g) = {}
    PROVE  /\ orderReq'[k] = r
           /\ From(g)' = IF r.page = g THEN {k} ELSE {}
           /\ Stored(g)' <=> r.page = g /\ r.pc = "stored"
           /\ orderReq[k].page = g => (Stored(g) <=> orderReq[k].pc = "stored")
           /\ From(g) = {} => ~Stored(g)
<1>1. /\ orderReq'[k] = r /\ \A j \in OrderRequests \ {k} : orderReq'[j] = orderReq[j]
  BY DEF OrdersInv
<1>2. From(g) \subseteq {k} /\ (orderReq[k].page = g => From(g) = {k})
  BY DEF From, OrdersInv, OneOrderAtATime
<1>3. From(g)' = IF r.page = g THEN {k} ELSE {}
  BY <1>1, <1>2 DEF From
<1> QED
  BY <1>1, <1>2, <1>3 DEF Stored

LEMMA SubmitOrderKeepsInv ==
    ASSUME OrdersInv, NEW k \in OrderRequests, NEW g \in Pages, SubmitOrder(k, g)
    PROVE  OrdersInv'
<1> USE OrdersAssumption
<1> DEFINE r == [NoOrderRequest EXCEPT !.pc = "posted", !.page = g, !.items = page[g].cart]
<1>1. /\ page \in [Pages -> PageType] /\ page[g].cart \in Cart /\ orderPast \in OrderPastType
      /\ From(g) = {} /\ orderReq[k].pc = "idle" /\ orderReq[k].page = NoOrder
  BY DEF OrdersInv, OrdersTypeOK, PageType, SubmitOrder, MaySubmit, OrderRequestsHold
<1>2. /\ r \in OrderRequestType
      /\ r.pc = "posted" /\ r.page = g /\ r.items = page[g].cart /\ r.tab = NoOrder
  BY <1>1, NoOrderRequestType DEF OrderRequestType
<1> HIDE DEF r
<1>3. orderReq' = [orderReq EXCEPT ![k] = r] /\ UNCHANGED <<order, told, orderPast>>
  BY DEF SubmitOrder, r
<1>4. /\ page' \in [Pages -> PageType]
      /\ page'[g].submitting /\ page'[g].cart = page[g].cart
      /\ \A h \in Pages \ {g} : page'[h] = page[h]
  BY <1>1 DEF SubmitOrder, PageType
<1>5. ASSUME NEW x \in Products PROVE Pieces(g, x)'
  <2>1. /\ orderReq'[k] = r /\ From(g)' = {k} /\ ~Stored(g)' /\ ~Stored(g)
    BY <1>1, <1>2, <1>3, OnlyRequest
  <2> QED
    BY <1>2, <1>3, <1>4, <2>1, PieceFacts DEF Pieces
<1>6. orderPast' = orderPast /\ order' = order /\ (orderPast \in OrderPastType)'
      /\ order' \in [OrderIds -> [status : Statuses, items : Cart]]
  BY <1>1, <1>3 DEF OrdersInv, OrdersTypeOK
<1> QED
  BY <1>1, <1>2, <1>3, <1>4, <1>5, <1>6, PageRequestKeepsInv

LEMMA CreateOrderKeepsInv ==
    ASSUME OrdersInv, NEW k \in OrderRequests, NEW o \in OrderIds, CreateOrder(k, o)
    PROVE  OrdersInv'
<1> USE OrdersAssumption
<1>1. /\ page \in [Pages -> PageType] /\ orderPast \in OrderPastType
      /\ orderReq[k] \in OrderRequestType /\ orderReq[k].items \in Cart
      /\ orderReq[k].page \in Pages \cup {NoOrder} /\ orderReq[k].pc = "posted"
  BY OrderRequestFacts DEF OrdersInv, OrdersTypeOK, PageType, CreateOrder
<1>2. /\ order' \in [OrderIds -> [status : Statuses, items : Cart]]
      /\ order[o].status = "none" /\ order'[o].status = "pending"
      /\ \A q \in OrderIds \ {o} : order'[q] = order[q]
      /\ UNCHANGED <<page, told>>
  BY <1>1 DEF CreateOrder, OrdersInv, OrdersTypeOK, Statuses, Allowed
<1>3. CASE orderReq[k].page = NoOrder
  <2>1. orderReq' = [orderReq EXCEPT ![k] = NoOrderRequest] /\ UNCHANGED orderPast
    BY <1>3 DEF CreateOrder
  <2>2. /\ OrdersTypeOK' /\ OrderRequestsHold' /\ OneOrderAtATime' /\ PiecesAddUp'
        /\ orderReq' \in [OrderRequests -> OrderRequestType]
        /\ (orderPast \in OrderPastType)'
    <3>1. PagesStay /\ orderPast' \in OrderPastType /\ told' \in [OrderIds -> Notices]
      BY <1>1, <1>2, <2>1 DEF PagesStay, OrdersInv, OrdersTypeOK
    <3> QED
      BY <1>2, <1>3, <2>1, <3>1, NoOrderRequestType, RequestKeepsPages
  <2>3. /\ orderReq'[k] = NoOrderRequest
        /\ \A j \in OrderRequests \ {k} : orderReq'[j] = orderReq[j]
    BY <2>1 DEF OrdersInv
  <2>4. \A q \in OrderIds : /\ Telling(q)' = Telling(q)
                            /\ \A j \in Telling(q) : orderReq'[j] = orderReq[j]
    BY <1>1, <2>3, NoOrderRequestType DEF Telling
  <2>5. \A q \in OrderIds : order[q].status = "none" => told[q] = "none" /\ Telling(q) = {}
    BY DEF OrdersInv, NoticesFollow, Telling
  <2>6. NoticesFollow'
    BY <1>2, <2>1, <2>3, <2>4, <2>5, NoOrderRequestType DEF OrdersInv, NoticesFollow
  <2>7. LastNoticeMatches'
    BY <1>2, <2>1, <2>4, <2>5 DEF OrdersInv, LastNoticeMatches
  <2> QED
    BY <2>2, <2>6, <2>7 DEF OrdersInv
<1>4. CASE orderReq[k].page # NoOrder
  <2> PICK g \in Pages : g = orderReq[k].page
    BY <1>1, <1>4
  <2> DEFINE r == [orderReq[k] EXCEPT !.pc = "stored"]
             n == [x \in Products |-> orderPast.ordered[g][x] + orderReq[k].items[x]]
  <2>1. /\ g \in Pages /\ r \in OrderRequestType /\ r.pc = "stored" /\ r.page = g
        /\ r.tab = NoOrder
    BY <1>1, <1>4 DEF OrderRequestType, OrdersInv, OrderRequestsHold
  <2>2. /\ orderReq' = [orderReq EXCEPT ![k] = r]
        /\ orderPast' = [orderPast EXCEPT !.ordered[g] = n]
    BY <1>4 DEF CreateOrder
  <2>3. \A x \in Products : orderReq[k].items[x] \in Nat /\ orderPast.ordered[g][x] \in Nat
    BY <1>1, <2>1 DEF Cart, OrderPastType
  <2>4. n \in [Products -> Nat]
    BY <2>3
  <2>5. /\ (orderPast \in OrderPastType)' /\ orderPast'.ordered[g] = n
        /\ \A h \in Pages \ {g} : orderPast'.ordered[h] = orderPast.ordered[h]
        /\ orderPast'.put = orderPast.put
        /\ orderPast'.removed = orderPast.removed /\ orderPast'.edited = orderPast.edited
        /\ orderPast'.unsure = orderPast.unsure
        /\ orderPast'.overlapped = orderPast.overlapped /\ orderPast'.unsent = orderPast.unsent
    BY <1>1, <2>1, <2>2, <2>4 DEF OrderPastType
  <2>6. page'[g].submitting
    BY <1>2, <2>1 DEF OrdersInv, OrdersTypeOK, From
  <2>7. \A x \in Products : n[x] = orderPast.ordered[g][x] + orderReq[k].items[x]
    OBVIOUS
  <2> HIDE DEF r, n
  <2>8. ASSUME NEW x \in Products PROVE Pieces(g, x)'
    <3>1. /\ From(g)' = {k} /\ Stored(g)' /\ ~Stored(g) /\ orderReq'[k].pc = "stored"
      <4>1. orderReq[k].page = g /\ orderReq[k].pc # "stored" /\ r.page = g /\ r.pc = "stored"
        BY <1>1, <2>1
      <4> QED
        BY <2>2, <4>1, OnlyRequest
    <3>2. k \in From(g)
      BY DEF From
    <3> QED
      BY <1>1, <1>2, <2>3, <2>5, <2>7, <3>1, <3>2, PieceFacts DEF Pieces
  <2>9. \A q \in OrderIds : \/ order'[q] = order[q]
                            \/ order[q].status = "none" /\ order'[q].status = "pending"
    BY <1>2
  <2> QED
    BY <1>1, <1>2, <2>1, <2>2, <2>5, <2>6, <2>8, <2>9, PageRequestKeepsInv
<1> QED
  BY <1>3, <1>4


LEMMA OrderPlacedKeepsInv ==
    ASSUME OrdersInv, NEW k \in OrderRequests, OrderPlaced(k) PROVE OrdersInv'
<1> USE OrdersAssumption
<1>0. Empty \in Cart /\ \A x \in Products : Empty[x] = 0
  BY DEF Empty, Cart
<1>1. /\ page \in [Pages -> PageType] /\ orderPast \in OrderPastType
      /\ orderReq[k].page \in Pages /\ orderReq[k].pc = "stored"
  BY OrderRequestFacts
  DEF OrdersInv, OrdersTypeOK, PageType, OrderPlaced, OrderRequestsHold
<1> PICK g \in Pages : g = orderReq[k].page
  BY <1>1
<1>2. orderReq' = [orderReq EXCEPT ![k] = NoOrderRequest] /\ UNCHANGED <<order, told, orderPast>>
  BY DEF OrderPlaced
<1>3. /\ page' \in [Pages -> PageType]
      /\ ~page'[g].submitting /\ page'[g].cart = Empty
      /\ \A h \in Pages \ {g} : page'[h] = page[h]
  BY <1>0, <1>1 DEF OrderPlaced, PageType
<1>4. From(g)' = {} /\ ~Stored(g)' /\ Stored(g)
  <2>1. orderReq[k].page = g /\ NoOrderRequest.page # g
    BY NoOrderRequestType
  <2> QED
    BY <1>1, <1>2, <2>1, OnlyRequest
<1>5. ASSUME NEW x \in Products PROVE Pieces(g, x)'
  BY <1>0, <1>2, <1>3, <1>4, PieceFacts DEF Pieces
<1>6. /\ orderPast' = orderPast /\ order' = order /\ (orderPast \in OrderPastType)'
      /\ order' \in [OrderIds -> [status : Statuses, items : Cart]]
      /\ NoOrderRequest.page # g
  BY <1>1, <1>2, NoOrderRequestType DEF OrdersInv, OrdersTypeOK
<1> QED
  BY <1>1, <1>2, <1>3, <1>5, <1>6, NoOrderRequestType, PageRequestKeepsInv

LEMMA OrderFailsKeepsInv ==
    ASSUME OrdersInv, NEW k \in OrderRequests, OrderFails(k) PROVE OrdersInv'
<1> USE OrdersAssumption
<1>1. /\ page \in [Pages -> PageType] /\ orderPast \in OrderPastType
      /\ orderReq[k] \in OrderRequestType
      /\ orderReq[k].page \in Pages /\ orderReq[k].pc \in {"posted", "stored"}
  BY OrderRequestFacts DEF OrdersInv, OrdersTypeOK, PageType, OrderFails
<1> PICK g \in Pages : g = orderReq[k].page
  BY <1>1
<1>2. /\ page' \in [Pages -> PageType]
      /\ ~page'[g].submitting /\ page'[g].cart = page[g].cart
      /\ \A h \in Pages \ {g} : page'[h] = page[h]
      /\ UNCHANGED <<order, told>>
  <2>1. page' = [page EXCEPT ![g].submitting = FALSE] /\ UNCHANGED <<order, told>>
    BY DEF OrderFails
  <2>2. page'[g] = [page[g] EXCEPT !.submitting = FALSE]
        /\ \A h \in Pages \ {g} : page'[h] = page[h]
    BY <1>1, <2>1
  <2>3. page[g] \in PageType /\ page'[g] \in PageType
    BY <1>1, <2>2 DEF PageType
  <2> QED
    BY <1>1, <2>1, <2>2, <2>3 DEF PageType
<1>3. PICK r \in OrderRequestType, unsure \in BOOLEAN :
          /\ orderReq' = [orderReq EXCEPT ![k] = r]
          /\ orderPast' = [orderPast EXCEPT !.unsure[g] = unsure]
          /\ r.page = NoOrder /\ r.pc \in {"idle", "posted"}
          /\ ~unsure => ~orderPast.unsure[g] /\ orderReq[k].pc = "posted"
  <2>1. CASE /\ orderReq' = [orderReq EXCEPT ![k] = NoOrderRequest]
             /\ orderPast' = [orderPast EXCEPT !.unsure[g] = @ \/ orderReq[k].pc = "stored"]
    <3> DEFINE unsure == orderPast.unsure[g] \/ orderReq[k].pc = "stored"
    <3>1. unsure \in BOOLEAN /\ orderPast' = [orderPast EXCEPT !.unsure[g] = unsure]
      BY <2>1
    <3>2. ~unsure => ~orderPast.unsure[g] /\ orderReq[k].pc = "posted"
      BY <1>1
    <3> HIDE DEF unsure
    <3> QED
      BY <2>1, <3>1, <3>2, NoOrderRequestType
  <2>2. CASE /\ orderReq[k].pc = "posted" /\ orderReq' = [orderReq EXCEPT ![k].page = NoOrder]
             /\ orderPast' = [orderPast EXCEPT !.unsure[g] = TRUE]
    <3> DEFINE r == [orderReq[k] EXCEPT !.page = NoOrder]
    <3>1. /\ r \in OrderRequestType /\ r.page = NoOrder /\ r.pc = "posted"
          /\ orderReq' = [orderReq EXCEPT ![k] = r]
      BY <1>1, <2>2 DEF OrderRequestType
    <3> HIDE DEF r
    <3> QED
      BY <2>2, <3>1
  <2> QED
    BY <2>1, <2>2 DEF OrderFails
<1>4. /\ orderPast' \in OrderPastType /\ (orderPast \in OrderPastType)'
      /\ orderPast'.unsure[g] = unsure
      /\ \A h \in Pages \ {g} : orderPast'.unsure[h] = orderPast.unsure[h]
      /\ orderPast'.put = orderPast.put /\ orderPast'.ordered = orderPast.ordered
      /\ orderPast'.removed = orderPast.removed /\ orderPast'.edited = orderPast.edited
      /\ orderPast'.overlapped = orderPast.overlapped /\ orderPast'.unsent = orderPast.unsent
  BY <1>1, <1>3 DEF OrderPastType
<1>5. r.page # g /\ From(g)' = {} /\ ~Stored(g)' /\ (Stored(g) <=> orderReq[k].pc = "stored")
  <2>1. orderReq[k].page = g /\ r.page # g
    BY <1>3
  <2> QED
    BY <1>3, <2>1, OnlyRequest
<1>6. ASSUME NEW x \in Products PROVE Pieces(g, x)'
  <2>1. ~orderPast'.unsure[g] => ~orderPast.unsure[g] /\ ~Stored(g)
    BY <1>1, <1>3, <1>4, <1>5
  <2> QED
    BY <1>2, <1>4, <1>5, <2>1, PieceFacts DEF Pieces
<1>7. order' = order /\ order' \in [OrderIds -> [status : Statuses, items : Cart]]
  BY <1>2 DEF OrdersInv, OrdersTypeOK
<1>8. /\ orderReq[k].page = g /\ orderReq[k].pc \in {"idle", "posted", "stored"}
      /\ r.pc \in {"idle", "posted", "stored"} /\ r.page = NoOrder /\ r.pc # "stored"
      /\ (page'[g].submitting <=> r.page = g)
  BY <1>1, <1>2, <1>3, <1>5
<1> QED
  BY <1>2, <1>3, <1>4, <1>6, <1>7, <1>8, PageRequestKeepsInv


-----------------------------------------------------------------------------
\* What a change of one order by a request that no page waits for owes: its shape,
\* and the notices.
LEMMA PatchingKeepsInv ==
    ASSUME OrdersInv, NEW k \in OrderRequests, NEW r \in OrderRequestType,
           orderReq' = [orderReq EXCEPT ![k] = r],
           orderReq[k].page = NoOrder, r.page = NoOrder, r.pc # "stored",
           r.pc \in {"patch", "read", "updated", "found"} =>
               r.order \in OrderIds /\ r.status \in Allowed,
           PagesStay, orderPast' \in OrderPastType,
           order' \in [OrderIds -> [status : Statuses, items : Cart]],
           told' \in [OrderIds -> Notices],
           NoticesFollow', LastNoticeMatches'
    PROVE  OrdersInv'
  BY RequestKeepsPages DEF OrdersInv

\* The same for one that tells nobody anything.
LEMMA QuietRequestKeepsInv ==
    ASSUME OrdersInv, NEW k \in OrderRequests, NEW r \in OrderRequestType,
           orderReq' = [orderReq EXCEPT ![k] = r], UNCHANGED <<page, order, told, orderPast>>,
           orderReq[k].page = NoOrder, r.page = NoOrder, r.pc # "stored",
           r.pc \in {"patch", "read", "updated", "found"} =>
               r.order \in OrderIds /\ r.status \in Allowed,
           \/ r.pc = orderReq[k].pc /\ r.order = orderReq[k].order
              /\ r.status = orderReq[k].status
           \/ /\ orderReq[k].pc \notin {"updated", "found"}
              /\ r.pc \notin {"updated", "found"}
              /\ r.pc = "read" /\ r.order \in OrderIds => order[r.order].status # "none"
    PROVE  OrdersInv'
<1>1. PagesStay /\ orderPast' \in OrderPastType
      /\ order' \in [OrderIds -> [status : Statuses, items : Cart]]
      /\ told' \in [OrderIds -> Notices]
  BY DEF PagesStay, OrdersInv, OrdersTypeOK
<1>2. NoticesFollow' /\ LastNoticeMatches'
  BY RequestKeepsNotices
<1> QED
  BY <1>1, <1>2, PatchingKeepsInv

LEMMA PatchBeginsKeepsInv ==
    ASSUME OrdersInv, NEW k \in OrderRequests, NEW b \in OrderTabs \cup {NoOrder},
           NEW o \in OrderIds, NEW s \in Allowed, orderReq[k].pc = "idle",
           orderReq' = [orderReq EXCEPT ![k] = Patch(k, b, o, s)],
           UNCHANGED <<page, order, told, orderPast>>
    PROVE  OrdersInv'
<1> DEFINE r == Patch(k, b, o, s)
<1>1. /\ r \in OrderRequestType /\ r.pc = "patch" /\ r.page = NoOrder
      /\ r.order = o /\ r.status = s
  BY NoOrderRequestType DEF Patch, OrderRequestType, Statuses
<1>2. orderReq[k].page = NoOrder
  BY DEF OrdersInv, OrderRequestsHold
<1> HIDE DEF r
<1> QED
  BY <1>1, <1>2, QuietRequestKeepsInv DEF r

LEMMA FindOrderKeepsInv ==
    ASSUME OrdersInv, NEW k \in OrderRequests, FindOrder(k) PROVE OrdersInv'
<1>1. /\ orderReq[k] \in OrderRequestType /\ orderReq[k].pc = "patch"
      /\ orderReq[k].page = NoOrder /\ orderReq[k].order \in OrderIds
      /\ orderReq[k].status \in Allowed
  BY OrderRequestFacts DEF FindOrder, OrdersInv, OrderRequestsHold
<1>2. CASE order[orderReq[k].order].status = "none"
  <2>1. orderReq' = [orderReq EXCEPT ![k] = NoOrderRequest]
    BY <1>2 DEF FindOrder
  <2> QED
    BY <1>1, <2>1, NoOrderRequestType, QuietRequestKeepsInv DEF FindOrder
<1>3. CASE order[orderReq[k].order].status # "none"
  <2> DEFINE r == [orderReq[k] EXCEPT !.pc = "read"]
  <2>1. orderReq' = [orderReq EXCEPT ![k] = r]
    BY <1>3 DEF FindOrder
  <2>2. /\ r \in OrderRequestType /\ r.pc = "read" /\ r.page = NoOrder
        /\ r.order = orderReq[k].order /\ r.status = orderReq[k].status
    BY <1>1 DEF OrderRequestType
  <2> HIDE DEF r
  <2> QED
    BY <1>1, <1>3, <2>1, <2>2, QuietRequestKeepsInv DEF FindOrder
<1> QED
  BY <1>2, <1>3


\* A request that tells a customer of an order: what it knows, and who else tells.
LEMMA TellingFacts ==
    ASSUME OrdersInv, NEW k \in OrderRequests, orderReq[k].pc \in {"read", "updated", "found"}
    PROVE  /\ orderReq[k] \in OrderRequestType /\ orderReq[k].page = NoOrder
           /\ orderReq[k].order \in OrderIds /\ orderReq[k].status \in Allowed
           /\ order[orderReq[k].order].status # "none"
           /\ order \in [OrderIds -> [status : Statuses, items : Cart]]
           /\ told \in [OrderIds -> Notices] /\ orderPast \in OrderPastType
  BY OrderRequestFacts
  DEF OrdersInv, OrdersTypeOK, OrderRequestsHold, NoticesFollow

LEMMA UpdateManyKeepsInv ==
    ASSUME OrdersInv, NEW k \in OrderRequests, UpdateMany(k) PROVE OrdersInv'
<1> USE OrdersAssumption
<1> DEFINE r == [orderReq[k] EXCEPT !.pc = "updated"]
           o == orderReq[k].order
           busy == Telling(o) # {}
<1>1. orderReq[k].pc = "read"
  BY DEF UpdateMany
<1>2. /\ orderReq[k] \in OrderRequestType /\ orderReq[k].page = NoOrder
      /\ o \in OrderIds /\ orderReq[k].status \in Allowed /\ order[o].status # "none"
      /\ order \in [OrderIds -> [status : Statuses, items : Cart]]
      /\ told \in [OrderIds -> Notices] /\ orderPast \in OrderPastType
  BY <1>1, TellingFacts
<1>3. /\ r \in OrderRequestType /\ r.pc = "updated" /\ r.page = NoOrder
      /\ r.order = o /\ r.status = orderReq[k].status /\ orderReq' = [orderReq EXCEPT ![k] = r]
  BY <1>2 DEF UpdateMany, OrderRequestType
<1> HIDE DEF r
<1>4. /\ order' \in [OrderIds -> [status : Statuses, items : Cart]]
      /\ order'[o].status = orderReq[k].status
      /\ \A q \in OrderIds \ {o} : order'[q] = order[q]
  BY <1>2 DEF UpdateMany, Statuses
<1>5. /\ orderPast' = [orderPast EXCEPT !.updates = @ + 1, !.overlapped[o] = busy,
                                        !.unsent[o] = @ /\ busy]
      /\ orderPast.updates < MaxUpdates /\ UNCHANGED <<page, told>>
  BY DEF UpdateMany
<1>6. /\ orderPast' \in OrderPastType /\ PagesStay
      /\ orderPast'.overlapped[o] <=> busy
      /\ \A q \in OrderIds \ {o} : /\ orderPast'.overlapped[q] = orderPast.overlapped[q]
                                   /\ orderPast'.unsent[q] = orderPast.unsent[q]
  <2> DEFINE silent == orderPast.unsent[o] /\ busy
  <2>1. busy \in BOOLEAN /\ silent \in BOOLEAN /\ orderPast.updates + 1 \in 0..MaxUpdates
    BY <1>2, <1>5 DEF OrderPastType
  <2>2. orderPast' = [orderPast EXCEPT !.updates = orderPast.updates + 1, !.overlapped[o] = busy,
                                       !.unsent[o] = silent]
    BY <1>2, <1>5
  <2> HIDE DEF busy, silent
  <2> QED
    <3>1. /\ orderPast'.updates = orderPast.updates + 1
          /\ orderPast'.overlapped = [orderPast.overlapped EXCEPT ![o] = busy]
          /\ orderPast'.unsent = [orderPast.unsent EXCEPT ![o] = silent]
          /\ orderPast'.put = orderPast.put /\ orderPast'.removed = orderPast.removed
          /\ orderPast'.ordered = orderPast.ordered /\ orderPast'.edited = orderPast.edited
          /\ orderPast'.unsure = orderPast.unsure
      BY <1>2, <2>2 DEF OrderPastType
    <3>2. /\ orderPast'.overlapped \in [OrderIds -> BOOLEAN]
          /\ orderPast'.unsent \in [OrderIds -> BOOLEAN]
          /\ orderPast'.overlapped[o] <=> busy
          /\ \A q \in OrderIds \ {o} : /\ orderPast'.overlapped[q] = orderPast.overlapped[q]
                                       /\ orderPast'.unsent[q] = orderPast.unsent[q]
      BY <1>2, <2>1, <3>1 DEF OrderPastType
    <3>3. orderPast' \in OrderPastType
      BY <1>2, <2>1, <2>2 DEF OrderPastType
    <3> QED
      BY <1>5, <3>1, <3>2, <3>3 DEF PagesStay
<1>7. orderReq'[k] = r /\ \A j \in OrderRequests \ {k} : orderReq'[j] = orderReq[j]
  BY <1>3 DEF OrdersInv
<1>8. /\ Telling(o)' = Telling(o) \cup {k}
      /\ \A q \in OrderIds \ {o} : Telling(q)' = Telling(q) /\ k \notin Telling(q)
  BY <1>3, <1>7 DEF Telling
<1>9. NoticesFollow'
  <2>1. ASSUME NEW q \in OrderIds, order'[q].status = "none"
        PROVE  /\ told'[q] = "none"
               /\ \A j \in OrderRequests : orderReq'[j].order = q =>
                     orderReq'[j].pc \notin {"read", "updated", "found"}
    <3>1. q # o
      BY <1>2, <1>4, <2>1 DEF Allowed
    <3> QED
      BY <1>3, <1>4, <1>5, <1>7, <2>1, <3>1 DEF OrdersInv, NoticesFollow
  <2>2. ASSUME NEW q \in OrderIds, ~orderPast'.overlapped[q]
        PROVE  /\ \A i, j \in Telling(q)' : i = j
               /\ \A j \in Telling(q)' : orderReq'[j].status = order'[q].status
    <3>1. CASE q = o
      <4>1. Telling(o)' = {k}
        BY <1>6, <1>8, <2>2, <3>1
      <4> QED
        BY <1>3, <1>4, <1>7, <3>1, <4>1
    <3>2. CASE q # o
      <4>1. \A j \in Telling(q) : orderReq'[j] = orderReq[j]
        BY <1>7, <1>8, <3>2 DEF Telling
      <4> QED
        BY <1>4, <1>6, <1>8, <2>2, <3>2, <4>1 DEF OrdersInv, NoticesFollow
    <3> QED
      BY <3>1, <3>2
  <2> QED
    BY <2>1, <2>2 DEF NoticesFollow
<1>10. LastNoticeMatches'
  <2>2. ASSUME NEW q \in OrderIds \ {o}
        PROVE  /\ Telling(q)' = Telling(q) /\ told'[q] = told[q] /\ order'[q] = order[q]
               /\ orderPast'.overlapped[q] = orderPast.overlapped[q]
               /\ orderPast'.unsent[q] = orderPast.unsent[q]
    BY <1>4, <1>5, <1>6, <1>8
  <2> SUFFICES ASSUME NEW q \in OrderIds, Telling(q)' = {},
                      told'[q] # "none" \/ order'[q].status \notin {"none", "pending"},
                      ~orderPast'.overlapped[q], ~orderPast'.unsent[q]
               PROVE  told'[q] # "none" /\ (told'[q] = "confirmed" <=> order'[q].status = "confirmed")
    BY DEF LastNoticeMatches
  <2>1. q # o
    BY <1>3, <1>7 DEF Telling
  <2>3. /\ Telling(q) = {} /\ ~orderPast.overlapped[q] /\ ~orderPast.unsent[q]
        /\ told[q] # "none" \/ order[q].status \notin {"none", "pending"}
    BY <2>1, <2>2
  <2>4. told[q] # "none" /\ (told[q] = "confirmed" <=> order[q].status = "confirmed")
    BY <2>3 DEF OrdersInv, LastNoticeMatches
  <2> QED
    BY <2>1, <2>2, <2>4
<1> QED
  BY <1>2, <1>3, <1>4, <1>5, <1>6, <1>9, <1>10, PatchingKeepsInv

\* The end of a change: the tab that waits is answered.
LEMMA OrderAnsweredType ==
    ASSUME OrdersInv, NEW k \in OrderRequests, orderReq[k].pc \in {"updated", "found"}
    PROVE  /\ OrderAnswered(k) \in OrderRequestType /\ OrderAnswered(k).page = NoOrder
           /\ OrderAnswered(k).pc \in {"idle", "answered"}
<1>1. orderReq[k] \in OrderRequestType /\ orderReq[k].page = NoOrder
  BY TellingFacts
<1> QED
  BY <1>1, NoOrderRequestType DEF OrderAnswered, OrderRequestType

\* With the end of a change, a notice matches the row or is known to be missing.
LEMMA EndOfChangeKeepsInv ==
    ASSUME OrdersInv, NEW k \in OrderRequests, orderReq[k].pc \in {"updated", "found"},
           NEW o \in OrderIds, o = orderReq[k].order,
           orderReq' = [orderReq EXCEPT ![k] = OrderAnswered(k)],
           UNCHANGED <<page, order>>,
           \/ told' = [told EXCEPT ![o] = NoticeOf(orderReq[k].status)] /\ UNCHANGED orderPast
           \/ orderPast' = [orderPast EXCEPT !.unsent[o] = TRUE] /\ UNCHANGED told
    PROVE  OrdersInv'
<1>1. /\ orderReq[k] \in OrderRequestType /\ orderReq[k].page = NoOrder
      /\ orderReq[k].status \in Allowed /\ order[o].status # "none"
      /\ order \in [OrderIds -> [status : Statuses, items : Cart]]
      /\ told \in [OrderIds -> Notices] /\ orderPast \in OrderPastType
  BY TellingFacts
<1>2. /\ OrderAnswered(k) \in OrderRequestType /\ OrderAnswered(k).page = NoOrder
      /\ OrderAnswered(k).pc \in {"idle", "answered"}
  BY OrderAnsweredType
<1>3. /\ told' \in [OrderIds -> Notices]
      /\ \A q \in OrderIds \ {o} : told'[q] = told[q]
  BY <1>1 DEF NoticeOf, Notices
<1>4. /\ orderPast' \in OrderPastType /\ PagesStay
      /\ orderPast'.overlapped = orderPast.overlapped
      /\ \A q \in OrderIds \ {o} : orderPast'.unsent[q] = orderPast.unsent[q]
  <2>1. CASE orderPast' = [orderPast EXCEPT !.unsent[o] = TRUE]
    BY <1>1, <2>1 DEF OrderPastType, PagesStay
  <2>2. CASE UNCHANGED orderPast
    BY <1>1, <2>2 DEF PagesStay
  <2> QED
    BY <2>1, <2>2
<1>5. \/ told'[o] = NoticeOf(orderReq[k].status)
      \/ orderPast'.unsent[o]
  BY <1>1 DEF OrderPastType
<1>6. /\ orderReq'[k] = OrderAnswered(k)
      /\ \A j \in OrderRequests \ {k} : orderReq'[j] = orderReq[j]
  BY DEF OrdersInv
<1>7. /\ Telling(o)' = Telling(o) \ {k} /\ k \in Telling(o)
      /\ \A q \in OrderIds \ {o} : Telling(q)' = Telling(q) /\ k \notin Telling(q)
  BY <1>2, <1>6 DEF Telling
<1>8. NoticesFollow'
  <2>1. \A q \in OrderIds : \A j \in Telling(q)' : j \in Telling(q) /\ orderReq'[j] = orderReq[j]
    BY <1>6, <1>7
  <2>2. ASSUME NEW q \in OrderIds, order'[q].status = "none"
        PROVE  /\ told'[q] = "none"
               /\ \A j \in OrderRequests : orderReq'[j].order = q =>
                     orderReq'[j].pc \notin {"read", "updated", "found"}
    BY <1>1, <1>2, <1>3, <1>6, <2>2 DEF OrdersInv, NoticesFollow
  <2> QED
    BY <1>4, <2>1, <2>2 DEF OrdersInv, NoticesFollow
<1>9. LastNoticeMatches'
  <2> SUFFICES ASSUME Telling(o)' = {}, ~orderPast'.overlapped[o], ~orderPast'.unsent[o]
               PROVE  told'[o] # "none" /\ (told'[o] = "confirmed" <=> order[o].status = "confirmed")
    BY <1>3, <1>4, <1>7 DEF OrdersInv, LastNoticeMatches
  <2>1. orderReq[k].status = order[o].status
    BY <1>4, <1>7 DEF OrdersInv, NoticesFollow
  <2> QED
    BY <1>5, <2>1 DEF NoticeOf
<1> QED
  BY <1>1, <1>2, <1>3, <1>4, <1>8, <1>9, PatchingKeepsInv

LEMMA FindAccountKeepsOrders ==
    ASSUME OrdersInv, NEW k \in OrderRequests, FindAccount(k) PROVE OrdersInv'
<1>1. /\ orderReq[k].pc = "updated" /\ orderReq[k] \in OrderRequestType
      /\ orderReq[k].page = NoOrder /\ orderReq[k].order \in OrderIds
      /\ orderReq[k].status \in Allowed
  BY TellingFacts DEF FindAccount
<1>2. CASE orderReq' = [orderReq EXCEPT ![k].pc = "found"] /\ UNCHANGED orderPast
  <2> DEFINE r == [orderReq[k] EXCEPT !.pc = "found"]
  <2>1. /\ r \in OrderRequestType /\ r.pc = "found" /\ r.page = NoOrder
        /\ r.order = orderReq[k].order /\ r.status = orderReq[k].status
        /\ orderReq' = [orderReq EXCEPT ![k] = r] /\ UNCHANGED <<page, order, told>>
    BY <1>1, <1>2 DEF OrderRequestType, FindAccount
  <2> HIDE DEF r
  <2>2. PagesStay /\ orderPast' \in OrderPastType /\ told' \in [OrderIds -> Notices]
        /\ order' \in [OrderIds -> [status : Statuses, items : Cart]]
    BY <1>1, <1>2, <2>1 DEF PagesStay, OrdersInv, OrdersTypeOK
  <2>3. orderReq'[k] = r /\ \A j \in OrderRequests \ {k} : orderReq'[j] = orderReq[j]
    BY <2>1 DEF OrdersInv
  <2>4. \A q \in OrderIds : /\ Telling(q)' = Telling(q)
                            /\ \A j \in Telling(q) : orderReq'[j].status = orderReq[j].status
    BY <1>1, <2>1, <2>3 DEF Telling
  <2>5. NoticesFollow' /\ LastNoticeMatches'
    BY <1>1, <1>2, <2>1, <2>3, <2>4 DEF OrdersInv, NoticesFollow, LastNoticeMatches
  <2> QED
    BY <1>1, <2>1, <2>2, <2>5, PatchingKeepsInv
<1>3. CASE /\ orderReq' = [orderReq EXCEPT ![k] = OrderAnswered(k)]
           /\ orderPast' = [orderPast EXCEPT !.unsent[orderReq[k].order] = TRUE]
  BY <1>1, <1>3, EndOfChangeKeepsInv DEF FindAccount
<1> QED
  BY <1>2, <1>3 DEF FindAccount

LEMMA EnqueueNoticeKeepsInv ==
    ASSUME OrdersInv, NEW k \in OrderRequests, EnqueueNotice(k) PROVE OrdersInv'
<1>1. orderReq[k].pc = "found" /\ orderReq[k].order \in OrderIds
  BY TellingFacts DEF EnqueueNotice
<1> QED
  BY <1>1, EndOfChangeKeepsInv DEF EnqueueNotice


LEMMA LoadOrdersKeepsInv ==
    ASSUME OrdersInv, NEW k \in OrderRequests, NEW b \in OrderTabs, LoadOrders(k, b)
    PROVE  OrdersInv'
<1> DEFINE r == [NoOrderRequest EXCEPT !.pc = "load", !.tab = b]
<1>1. /\ r \in OrderRequestType /\ r.pc = "load" /\ r.page = NoOrder
      /\ orderReq' = [orderReq EXCEPT ![k] = r] /\ UNCHANGED <<page, order, told, orderPast>>
      /\ orderReq[k].pc \in {"idle", "answered"}
  BY NoOrderRequestType DEF LoadOrders, OrderRequestType
<1> HIDE DEF r
<1>2. orderReq[k].page = NoOrder
  BY <1>1 DEF OrdersInv, OrderRequestsHold
<1> QED
  BY <1>1, <1>2, QuietRequestKeepsInv

LEMMA FindAllKeepsInv ==
    ASSUME OrdersInv, NEW k \in OrderRequests, FindAll(k) PROVE OrdersInv'
<1> DEFINE r == [orderReq[k] EXCEPT !.pc = "listed",
                                    !.rows = {o \in OrderIds : order[o].status # "none"}]
<1>1. orderReq[k] \in OrderRequestType /\ orderReq[k].pc = "load" /\ orderReq[k].page = NoOrder
  BY OrderRequestFacts DEF FindAll, OrdersInv, OrderRequestsHold
<1>2. /\ r \in OrderRequestType /\ r.pc = "listed" /\ r.page = NoOrder
      /\ orderReq' = [orderReq EXCEPT ![k] = r] /\ UNCHANGED <<page, order, told, orderPast>>
  BY <1>1 DEF FindAll, OrderRequestType
<1> HIDE DEF r
<1> QED
  BY <1>1, <1>2, QuietRequestKeepsInv

LEMMA OrdersArriveKeepsInv ==
    ASSUME OrdersInv, NEW k \in OrderRequests, OrdersArrive(k) PROVE OrdersInv'
<1>1. /\ orderReq[k].pc = "listed" /\ orderReq[k].page = NoOrder
      /\ orderReq' = [orderReq EXCEPT ![k] = NoOrderRequest]
      /\ UNCHANGED <<page, order, told, orderPast>>
  BY DEF OrdersArrive, OrdersInv, OrderRequestsHold
<1> QED
  BY <1>1, NoOrderRequestType, QuietRequestKeepsInv

LEMMA OrderRequestFailsKeepsInv ==
    ASSUME OrdersInv, NEW k \in OrderRequests, OrderRequestFails(k) PROVE OrdersInv'
<1>1. /\ orderReq[k] \in OrderRequestType /\ orderReq[k].page = NoOrder
      /\ orderReq[k].pc \in {"patch", "read", "updated", "found"} =>
             orderReq[k].order \in OrderIds /\ orderReq[k].status \in Allowed
      /\ UNCHANGED <<page, order, told, orderPast>>
  BY OrderRequestFacts DEF OrderRequestFails, OrdersInv, OrderRequestsHold
<1>2. CASE orderReq[k].pc \in {"patch", "read", "updated", "found"}
  <2> DEFINE r == [orderReq[k] EXCEPT !.tab = NoOrder]
  <2>1. /\ r \in OrderRequestType /\ r.pc = orderReq[k].pc /\ r.page = NoOrder
        /\ r.order = orderReq[k].order /\ r.status = orderReq[k].status
        /\ orderReq' = [orderReq EXCEPT ![k] = r]
    BY <1>1, <1>2 DEF OrderRequestFails, OrderRequestType
  <2> HIDE DEF r
  <2> QED
    BY <1>1, <1>2, <2>1, QuietRequestKeepsInv
<1>3. CASE orderReq[k].pc \notin {"patch", "read", "updated", "found"}
  <2>1. orderReq' = [orderReq EXCEPT ![k] = NoOrderRequest]
    BY <1>3 DEF OrderRequestFails
  <2> QED
    BY <1>1, <1>3, <2>1, NoOrderRequestType, QuietRequestKeepsInv
<1> QED
  BY <1>2, <1>3

-----------------------------------------------------------------------------
\* The inductive invariant: the pieces of every cart add up through a request, and of
\* the requests that tell a customer of an order, only one may while none overlapped.
THEOREM OrdersInvariant == OrdersSpec => []OrdersInv
<1>1. OrdersInv /\ [OrdersNext]_ordersVars => OrdersInv'
  <2> SUFFICES ASSUME OrdersInv, [OrdersNext]_ordersVars PROVE OrdersInv'
    OBVIOUS
  <2>1. ASSUME NEW k \in OrderRequests, NEW o \in OrderIds, NEW s \in Wanted, PatchOrder(k, o, s)
        PROVE  OrdersInv'
    BY <2>1, PatchBeginsKeepsInv DEF PatchOrder, Allowed
  <2>2. ASSUME NEW k \in OrderRequests, NEW b \in OrderTabs, NEW o \in OrderIds, NEW s \in Allowed,
               UpdateOrderStatus(k, b, o, s)
        PROVE  OrdersInv'
    BY <2>2, PatchBeginsKeepsInv DEF UpdateOrderStatus
  <2>3. CASE UNCHANGED ordersVars
    BY <2>3 DEF ordersVars, OrdersInv, OrdersTypeOK, OrderRequestsHold, OneOrderAtATime,
                PiecesAddUp, Pieces, Stored, From, NoticesFollow, LastNoticeMatches, Telling
  <2> QED
    BY <2>1, <2>2, <2>3, LoadStoreKeepsInv, AddToCartKeepsInv, RemoveFromCartKeepsInv,
       SubmitOrderKeepsInv, CreateOrderKeepsInv, OrderPlacedKeepsInv, OrderFailsKeepsInv,
       FindOrderKeepsInv, UpdateManyKeepsInv, FindAccountKeepsOrders, EnqueueNoticeKeepsInv,
       LoadOrdersKeepsInv, FindAllKeepsInv, OrdersArriveKeepsInv, OrderRequestFailsKeepsInv
    DEF OrdersNext
<1> QED
  BY <1>1, OrdersInitially, PTL DEF OrdersSpec

\* The types, and a page's button is disabled exactly while a request of it is under way.
THEOREM OrdersTypeCorrect == OrdersSpec => []OrdersTypeOK
<1>1. OrdersInv => OrdersTypeOK
  BY DEF OrdersInv
<1> QED
  BY <1>1, OrdersInvariant, PTL

\* CartSafe (shop.html, submitOrder): for any number of pages, products and requests, no
\* piece is ordered twice, and none is forgotten, but in the cases the properties name.
THEOREM CartsAreSafe == OrdersSpec => []CartSafe
<1>1. OrdersInv => OrderedOnce
  BY PieceFacts DEF OrderedOnce, Pieces
<1>2. OrdersInv => NothingForgotten
  <2> SUFFICES ASSUME OrdersInv, NEW g \in Pages, NEW x \in Products,
                      ~page[g].submitting, ~orderPast.unsure[g], ~orderPast.edited[g]
               PROVE  orderPast.put[g][x] = page[g].cart[x] + orderPast.removed[g][x]
                                            + orderPast.ordered[g][x]
    BY DEF NothingForgotten
  <2>1. ~Stored(g)
    BY DEF OrdersInv, OrdersTypeOK, Stored
  <2> QED
    BY <2>1, PieceFacts DEF Pieces
<1> QED
  BY <1>1, <1>2, OrdersInvariant, PTL DEF CartSafe

\* LastNoticeMatches (orders.service.ts, updateStatus): whoever changes an order and
\* however their steps interleave, the customer's last notice is the row's status,
\* unless changes overlapped or a notice could not be sent.
THEOREM NoticesMatch == OrdersSpec => []LastNoticeMatches
<1>1. OrdersInv => LastNoticeMatches
  BY DEF OrdersInv
<1> QED
  BY <1>1, OrdersInvariant, PTL


-----------------------------------------------------------------------------
(* Catalog: any rows, fields, tabs, requests, messages and situations.      *)

FormType == [item : Items \cup {NoItem}, text : [Fields -> Writes], calm : BOOLEAN]
ReqType ==
    [pc : {"idle", "sent", "checked", "written", "answered", "load", "listed"},
     op : Operations, tab : Tabs \cup {NoItem}, item : Items \cup {NoItem},
     touched : SUBSET Fields, form : FormType, version : Writes, rows : [Items -> Row]]
TabType ==
    [rows : [Items -> Row], version : Writes, loading : BOOLEAN, busy : Items \cup {NoItem},
     form : FormType]
CatalogPastType ==
    [writes : Writes, dropped : Writes, word : [Items -> [Fields -> Writes]],
     unseen : [Items -> BOOLEAN], blind : [Items -> BOOLEAN], newest : [Tabs -> Writes],
     failed : BOOLEAN, foreign : BOOLEAN]

\* What the server is asked for: all fields of a new row, none of one that is deleted,
\* shown or hidden; a form is of the row that it edits.
AsksFor(r) ==
    /\ r.op # "view"
    /\ r.op = "add" => r.touched = Fields /\ r.form = NoForm
    /\ r.op # "add" => r.item \in Items
    /\ r.op \in {"delete", "show", "hide"} => r.touched = {} /\ r.form = NoForm
    /\ r.form # NoForm => r.form.item = r.item

ServerFits ==
    /\ scene \in Scenes
    /\ table \in [Items -> Row]
    /\ cache \in [held : BOOLEAN, asOf : Writes, empty : BOOLEAN, excused : BOOLEAN]
    /\ ask \in [Askers -> [pc : {"idle", "missed", "found", "done"}, since : Writes,
                           asOf : Writes, empty : BOOLEAN, excused : BOOLEAN]]
    /\ \A i \in Items : table[i].state # "alive" => ~table[i].active

RequestFits(r, n) ==
    /\ r.pc \in {"sent", "checked"} => AsksFor(r)
    /\ r.pc = "checked" => r.op # "add"
    /\ r.pc = "idle" => r.tab = NoItem
    /\ r.pc \in {"answered", "load", "listed"} => r.tab \in Tabs
    /\ r.version <= n
RequestsFit ==
    /\ req \in [Requests -> ReqType]
    /\ \A k \in Requests : RequestFits(req[k], catalogPast.writes)

TabsFit ==
    /\ tab \in [Tabs -> TabType]
    /\ \A b \in Tabs : /\ tab[b].form # NoForm => tab[b].form.item \in Items
                       /\ tab[b].version <= catalogPast.writes

PastFits ==
    /\ catalogPast \in CatalogPastType
    /\ catalogPast.dropped <= catalogPast.writes

CatalogTypes == ServerFits /\ RequestsFit /\ TabsFit /\ PastFits

\* The key has every write whose deletion was tried, or is known to lack it; so has the
\* list that a message found.
ListsAreFresh ==
    /\ cache.held /\ ~cache.excused => cache.asOf >= catalogPast.dropped
    /\ \A m \in Askers :
           /\ ask[m].since <= catalogPast.dropped
           /\ ask[m].pc = "found" => ask[m].asOf >= ask[m].since
           /\ ask[m].pc = "done" => ask[m].asOf >= ask[m].since \/ ask[m].excused
           /\ scene.faqs /\ ask[m].pc = "done" /\ ask[m].empty => ask[m].asOf >= ask[m].since

\* An agent alone: no other tab, no other caller, and nothing failed.
Alone(b) == scene.tabs = {b} /\ ~catalogPast.foreign /\ ~catalogPast.failed

\* The tab has the newest list or a request that will bring it.
TabFollows(b) ==
    /\ catalogPast.newest[b] <= catalogPast.writes
    /\ tab[b].version = catalogPast.writes => tab[b].rows = Listed
    /\ \A k \in Of(b) :
           req[k].pc = "listed" /\ req[k].version = catalogPast.writes => req[k].rows = Listed
    /\ \/ catalogPast.newest[b] = catalogPast.writes
       \/ \E k \in Of(b) : \/ req[k].pc \in {"written", "answered", "load"}
                           \/ req[k].pc = "listed" /\ req[k].version = catalogPast.writes

\* A form opened on a quiet page holds the texts of its row until it is saved, and
\* nothing but its saving is under way.
FormFollows(b) ==
    /\ tab[b].form.calm =>
          /\ \A j, k \in Of(b) : j = k
          /\ \A k \in Of(b) : /\ req[k].op = "edit"
                              /\ req[k].pc \in {"sent", "checked", "written", "answered"}
          /\ (\A k \in Of(b) : req[k].pc \in {"sent", "checked"}) =>
                 tab[b].form.text = table[tab[b].form.item].text
    /\ \A k \in Of(b) : req[k].pc \in {"sent", "checked"} /\ req[k].form.calm =>
                            req[k].form = tab[b].form

OwnPage(b) ==
    /\ \A k \in Requests : req[k].pc # "idle" => req[k].tab = b
    /\ TabFollows(b)
    /\ FormFollows(b)
    /\ \A i \in Items : ~catalogPast.blind[i]

OwnEdits == \A b \in Tabs : Alone(b) => OwnPage(b)


LEMMA SceneFacts ==
    ASSUME scene \in Scenes
    PROVE  /\ scene.items \subseteq Items /\ scene.fields \subseteq Fields
           /\ scene.tabs \subseteq Tabs /\ scene.askers \subseteq Askers
           /\ scene.writes \in Nat /\ scene.faqs \in BOOLEAN
  BY CatalogAssumption DEF CatalogAssumption, SceneType

\* The types depend on the situation only, which stays.
LEMMA TypesStay ==
    ASSUME scene' = scene
    PROVE  /\ Writes' = Writes /\ Row' = Row /\ FormType' = FormType /\ ReqType' = ReqType
           /\ TabType' = TabType /\ CatalogPastType' = CatalogPastType
  BY DEF Writes, Row, FormType, ReqType, TabType, CatalogPastType

LEMMA NothingTypes ==
    ASSUME scene \in Scenes
    PROVE  /\ 0 \in Writes /\ NoRow \in Row /\ NoForm \in FormType /\ NoRequest \in ReqType
           /\ NoRow.state = "unborn" /\ ~NoRow.active
           /\ NoForm.item = NoItem /\ ~NoForm.calm
           /\ NoRequest.pc = "idle" /\ NoRequest.tab = NoItem /\ NoRequest.version = 0
           /\ NoRequest.op = "view" /\ NoRequest.item = NoItem /\ NoRequest.touched = {}
           /\ NoRequest.form = NoForm /\ NoRequest.rows \in [Items -> Row]
<1>1. 0 \in Writes
  BY SceneFacts DEF Writes
<1>2. NoRow \in Row
  BY <1>1 DEF NoRow, Row
<1>3. NoForm \in FormType /\ NoForm.item = NoItem /\ ~NoForm.calm
  BY <1>1, <1>2 DEF NoForm, NoRow, FormType
<1> QED
  BY <1>1, <1>2, <1>3 DEF NoRow, NoRequest, ReqType, Operations

LEMMA ListedType == CatalogTypes => Listed \in [Items -> Row]
  BY NothingTypes DEF CatalogTypes, ServerFits, Listed

LEMMA CatalogTypesAre == CatalogTypes => CatalogTypeOK
<1> SUFFICES ASSUME CatalogTypes PROVE CatalogTypeOK
  OBVIOUS
<1>1. \A k \in Requests :
           /\ req[k].pc \in {"idle", "sent", "checked", "written", "answered", "load", "listed"}
           /\ req[k].op \in Operations
           /\ req[k].pc \in {"answered", "load", "listed"} => req[k].tab \in Tabs
           /\ req[k].version <= catalogPast.writes
  BY DEF CatalogTypes, RequestsFit, RequestFits, ReqType
<1>2. \A b \in Tabs : tab[b].busy \in Items \cup {NoItem} /\ tab[b].version <= catalogPast.writes
  BY DEF CatalogTypes, TabsFit, TabType
<1>3. catalogPast.writes \in Writes /\ catalogPast.dropped \in 0..catalogPast.writes
  BY SceneFacts DEF CatalogTypes, ServerFits, PastFits, CatalogPastType, Writes
<1> QED
  BY <1>1, <1>2, <1>3 DEF CatalogTypes, ServerFits, CatalogTypeOK

LEMMA CatalogTypesInitially == CatalogInit => CatalogTypes
<1> SUFFICES ASSUME CatalogInit PROVE CatalogTypes
  OBVIOUS
<1>1. ServerFits
  BY NothingTypes DEF CatalogInit, ServerFits, NoKey, NoAsk
<1>2. RequestsFit
  BY NothingTypes DEF CatalogInit, RequestsFit, RequestFits
<1>3. TabsFit
  BY NothingTypes DEF CatalogInit, TabsFit, TabType
<1>4. PastFits
  <2>1. NoRow.text \in [Fields -> Writes] /\ 0 \in Writes
    BY NothingTypes DEF CatalogInit, Row
  <2> QED
    BY <2>1 DEF CatalogInit, PastFits, CatalogPastType
<1> QED
  BY <1>1, <1>2, <1>3, <1>4 DEF CatalogTypes

\* One request changes; the writes only grow.
LEMMA RequestFitsStill ==
    ASSUME CatalogTypes, scene' = scene, NEW k \in Requests, NEW r \in ReqType,
           req' = [req EXCEPT ![k] = r], RequestFits(r, catalogPast'.writes),
           catalogPast'.writes \in Nat, catalogPast.writes <= catalogPast'.writes
    PROVE  RequestsFit'
<1>1. /\ req' \in [Requests -> ReqType] /\ ReqType' = ReqType
      /\ req'[k] = r /\ \A j \in Requests \ {k} : req'[j] = req[j]
  BY TypesStay DEF CatalogTypes, RequestsFit
<1>2. ASSUME NEW j \in Requests \ {k} PROVE RequestFits(req'[j], catalogPast'.writes)
  <2>1. RequestFits(req[j], catalogPast.writes) /\ req[j].version \in Nat /\ catalogPast.writes \in Nat
    BY SceneFacts
    DEF CatalogTypes, ServerFits, RequestsFit, PastFits, ReqType, CatalogPastType, Writes
  <2> QED
    BY <1>1, <2>1 DEF RequestFits, AsksFor
<1> QED
  BY <1>1, <1>2 DEF RequestsFit

\* One tab changes.
LEMMA TabFitsStill ==
    ASSUME CatalogTypes, scene' = scene, NEW b \in Tabs, NEW t \in TabType,
           tab' = [tab EXCEPT ![b] = t], t.form # NoForm => t.form.item \in Items,
           t.version <= catalogPast.writes, catalogPast'.writes = catalogPast.writes
    PROVE  TabsFit'
  BY TypesStay DEF CatalogTypes, TabsFit

\* What a step leaves alone still fits.
LEMMA RestFits ==
    ASSUME CatalogTypes, scene' = scene
    PROVE  /\ UNCHANGED <<table, cache, ask>> => ServerFits'
           /\ UNCHANGED <<req, catalogPast>> => RequestsFit'
           /\ UNCHANGED <<tab, catalogPast>> => TabsFit'
           /\ UNCHANGED catalogPast => PastFits'
  BY TypesStay
  DEF CatalogTypes, ServerFits, RequestsFit, RequestFits, AsksFor, TabsFit, PastFits


LEMMA CatalogFacts ==
    ASSUME CatalogTypes
    PROVE  /\ scene \in Scenes /\ table \in [Items -> Row]
           /\ req \in [Requests -> ReqType] /\ tab \in [Tabs -> TabType]
           /\ catalogPast \in CatalogPastType
           /\ catalogPast.writes \in Nat /\ catalogPast.writes \in Writes
           /\ \A k \in Requests : RequestFits(req[k], catalogPast.writes) /\ req[k] \in ReqType
           /\ \A b \in Tabs : tab[b] \in TabType
  BY SceneFacts
  DEF CatalogTypes, ServerFits, RequestsFit, TabsFit, PastFits, CatalogPastType, Writes

\* A step of a tab whose request changes and that may change its own state.
LEMMA TabStepKeepsTypes ==
    ASSUME CatalogTypes, scene' = scene, NEW k \in Requests, NEW r \in ReqType,
           req' = [req EXCEPT ![k] = r], RequestFits(r, catalogPast.writes),
           UNCHANGED <<table, cache, ask>>,
           \/ UNCHANGED tab
           \/ \E b \in Tabs, t \in TabType : /\ tab' = [tab EXCEPT ![b] = t]
                                             /\ t.form # NoForm => t.form.item \in Items
                                             /\ t.version <= catalogPast.writes,
           catalogPast' \in CatalogPastType, catalogPast'.writes = catalogPast.writes,
           catalogPast'.dropped = catalogPast.dropped
    PROVE  CatalogTypes'
<1>1. ServerFits'
  BY RestFits
<1>2. RequestsFit'
  <2>1. /\ catalogPast'.writes \in Nat /\ catalogPast.writes <= catalogPast'.writes
        /\ RequestFits(r, catalogPast'.writes)
    BY CatalogFacts
  <2> QED
    BY <2>1, RequestFitsStill
<1>3. TabsFit'
  <2>1. CASE UNCHANGED tab
    BY <2>1, TypesStay DEF CatalogTypes, TabsFit
  <2>2. ASSUME NEW b \in Tabs, NEW t \in TabType, tab' = [tab EXCEPT ![b] = t],
               t.form # NoForm => t.form.item \in Items, t.version <= catalogPast.writes
        PROVE  TabsFit'
    BY <2>2, TabFitsStill
  <2> QED
    BY <2>1, <2>2
<1>4. PastFits'
  BY TypesStay DEF CatalogTypes, PastFits
<1> QED
  BY <1>1, <1>2, <1>3, <1>4 DEF CatalogTypes

LEMMA SentType ==
    ASSUME CatalogTypes, NEW b \in Tabs \cup {NoItem}, NEW op \in Operations,
           NEW i \in Items \cup {NoItem}, NEW touched \in SUBSET Fields
    PROVE  LET r == Sent(b, op, i, touched) IN
           /\ r \in ReqType /\ r.pc = "sent" /\ r.op = op /\ r.tab = b /\ r.item = i
           /\ r.touched = touched /\ r.version = 0
           /\ r.form = IF b = NoItem THEN NoForm ELSE tab[b].form
<1>1. /\ NoRequest \in ReqType /\ NoForm \in FormType
      /\ b # NoItem => tab[b].form \in FormType
      /\ NoRequest.version = 0
  BY CatalogFacts, NothingTypes DEF TabType
<1> QED
  BY <1>1 DEF Sent, ReqType

LEMMA SubmitKeepsTypes ==
    ASSUME CatalogTypes, scene' = scene, NEW k \in Requests, NEW b \in Tabs, Submit(k, b)
    PROVE  CatalogTypes'
<1> DEFINE r == Sent(b, "add", NoItem, Fields)
<1>1. /\ r \in ReqType /\ r.pc = "sent" /\ r.op = "add" /\ r.touched = Fields /\ r.version = 0
      /\ r.form = NoForm
  BY SentType, CatalogAssumption DEF CatalogAssumption, Submit, Operations
<1> HIDE DEF r
<1>2. RequestFits(r, catalogPast.writes)
  BY <1>1, CatalogFacts DEF RequestFits, AsksFor
<1>3. req' = [req EXCEPT ![k] = r] /\ UNCHANGED <<table, cache, ask, tab, catalogPast>>
  BY DEF Submit, r
<1> QED
  BY <1>1, <1>2, <1>3, CatalogFacts, TabStepKeepsTypes

LEMMA SaveEditKeepsTypes ==
    ASSUME CatalogTypes, scene' = scene, NEW k \in Requests, NEW b \in Tabs,
           NEW touched \in SUBSET Fields, SaveEdit(k, b, touched)
    PROVE  CatalogTypes'
<1> DEFINE r == Sent(b, "edit", tab[b].form.item, touched)
<1>1. tab[b].form.item \in Items
  BY DEF SaveEdit, CatalogTypes, TabsFit
<1>2. /\ r \in ReqType /\ r.pc = "sent" /\ r.op = "edit" /\ r.version = 0
      /\ r.item = tab[b].form.item /\ r.form = tab[b].form
  BY <1>1, SentType, CatalogAssumption DEF CatalogAssumption, Operations
<1> HIDE DEF r
<1>3. RequestFits(r, catalogPast.writes)
  BY <1>1, <1>2, CatalogFacts DEF RequestFits, AsksFor
<1>4. req' = [req EXCEPT ![k] = r] /\ UNCHANGED <<table, cache, ask, tab, catalogPast>>
  BY DEF SaveEdit, r
<1> QED
  BY <1>2, <1>3, <1>4, CatalogFacts, TabStepKeepsTypes

LEMMA DeleteKeepsTypes ==
    ASSUME CatalogTypes, scene' = scene, NEW k \in Requests, NEW b \in Tabs, NEW i \in Items,
           Delete(k, b, i)
    PROVE  CatalogTypes'
<1> DEFINE r == Sent(b, "delete", i, {})
           t == [tab[b] EXCEPT !.busy = i]
<1>1. /\ r \in ReqType /\ r.pc = "sent" /\ r.op = "delete" /\ r.version = 0
      /\ r.item = i /\ r.form = NoForm /\ r.touched = {}
  BY SentType, CatalogAssumption DEF CatalogAssumption, Operations, Delete, Clickable
<1>2. t \in TabType /\ t.form = NoForm /\ t.version <= catalogPast.writes
      /\ tab' = [tab EXCEPT ![b] = t]
  BY CatalogFacts DEF TabType, Delete, Clickable, CatalogTypes, TabsFit
<1> HIDE DEF r, t
<1>3. RequestFits(r, catalogPast.writes)
  BY <1>1, CatalogFacts DEF RequestFits, AsksFor
<1>4. req' = [req EXCEPT ![k] = r] /\ UNCHANGED <<table, cache, ask, catalogPast>>
  BY DEF Delete, r
<1> QED
  BY <1>1, <1>2, <1>3, <1>4, CatalogFacts, TabStepKeepsTypes

LEMMA ViewKeepsTypes ==
    ASSUME CatalogTypes, scene' = scene, NEW k \in Requests, NEW b \in Tabs, View(k, b)
    PROVE  CatalogTypes'
<1> DEFINE r == [NoRequest EXCEPT !.pc = "load", !.tab = b]
           t == [tab[b] EXCEPT !.loading = TRUE]
<1>1. /\ r \in ReqType /\ r.pc = "load" /\ r.tab = b /\ r.version = 0
  BY CatalogFacts, NothingTypes DEF ReqType
<1>2. t \in TabType /\ t.form = NoForm /\ t.version <= catalogPast.writes
      /\ tab' = [tab EXCEPT ![b] = t]
  BY CatalogFacts DEF TabType, View, CatalogTypes, TabsFit
<1> HIDE DEF r, t
<1>3. RequestFits(r, catalogPast.writes)
  BY <1>1, CatalogFacts DEF RequestFits
<1>4. req' = [req EXCEPT ![k] = r] /\ UNCHANGED <<table, cache, ask, catalogPast>>
  BY DEF View, r
<1> QED
  BY <1>1, <1>2, <1>3, <1>4, CatalogFacts, TabStepKeepsTypes

\* The forms of a tab are opened and closed.
LEMMA FormKeepsTypes ==
    ASSUME CatalogTypes, scene' = scene, NEW b \in Tabs,
           CloseEdit(b) \/ \E i \in Items : OpenEdit(b, i)
    PROVE  CatalogTypes'
<1>1. PICK f \in FormType : /\ tab' = [tab EXCEPT ![b].form = f]
                            /\ f # NoForm => f.item \in Items
  <2>1. CASE CloseEdit(b)
    BY <2>1, CatalogFacts, NothingTypes DEF CloseEdit
  <2>2. ASSUME NEW i \in Items, OpenEdit(b, i)
        PROVE  \E f \in FormType : /\ tab' = [tab EXCEPT ![b].form = f]
                                   /\ f # NoForm => f.item \in Items
    <3> DEFINE f == [item |-> i, text |-> tab[b].rows[i].text, calm |-> Quiet(b)]
    <3>1. tab[b].rows[i].text \in [Fields -> Writes] /\ Quiet(b) \in BOOLEAN
      BY CatalogFacts DEF TabType, Row, Quiet
    <3>2. f \in FormType /\ f.item = i
      BY <3>1 DEF FormType
    <3>3. tab' = [tab EXCEPT ![b].form = f]
      BY <2>2 DEF OpenEdit
    <3> HIDE DEF f
    <3> QED
      BY <3>2, <3>3
  <2> QED
    BY <2>1, <2>2
<1>2. UNCHANGED <<table, cache, ask, req, catalogPast>>
  BY DEF CloseEdit, OpenEdit
<1> DEFINE t == [tab[b] EXCEPT !.form = f]
<1>3. /\ t \in TabType /\ t.form = f /\ t.version <= catalogPast.writes
      /\ tab' = [tab EXCEPT ![b] = t]
  BY <1>1, CatalogFacts DEF TabType, CatalogTypes, TabsFit
<1> HIDE DEF t
<1>4. TabsFit'
  BY <1>1, <1>2, <1>3, TabFitsStill
<1> QED
  BY <1>2, <1>4, RestFits DEF CatalogTypes


LEMMA AnsweredKeepsTypes ==
    ASSUME CatalogTypes, scene' = scene, NEW k \in Requests, Answered(k) PROVE CatalogTypes'
<1> DEFINE r == [req[k] EXCEPT !.pc = "load"]
           b == req[k].tab
           t == [tab[b] EXCEPT !.loading = TRUE,
                               !.form = IF req[k].op = "edit" THEN NoForm ELSE tab[b].form]
<1>1. b \in Tabs /\ req[k] \in ReqType /\ RequestFits(req[k], catalogPast.writes)
  BY CatalogFacts DEF Answered, RequestFits
<1>2. /\ r \in ReqType /\ r.pc = "load" /\ r.tab = b /\ r.version = req[k].version
  BY <1>1 DEF ReqType
<1>3. RequestFits(r, catalogPast.writes)
  BY <1>1, <1>2 DEF RequestFits
<1>4. t \in TabType /\ t.form \in {NoForm, tab[b].form} /\ t.version = tab[b].version
  BY <1>1, CatalogFacts, NothingTypes DEF TabType
<1>5. /\ t.form # NoForm => t.form.item \in Items
      /\ t.version <= catalogPast.writes
  BY <1>1, <1>4 DEF CatalogTypes, TabsFit
<1>6. /\ req' = [req EXCEPT ![k] = r] /\ UNCHANGED <<table, cache, ask, catalogPast>>
      /\ tab' = [tab EXCEPT ![b] = t]
  <2>1. tab' = [tab EXCEPT ![b] = t]
    BY CatalogFacts DEF Answered
  <2>2. req' = [req EXCEPT ![k] = r] /\ UNCHANGED <<table, cache, ask, catalogPast>>
    BY DEF Answered
  <2> QED
    BY <2>1, <2>2
<1> HIDE DEF r, t
<1> QED
  BY <1>1, <1>2, <1>3, <1>4, <1>5, <1>6, CatalogFacts, TabStepKeepsTypes

LEMMA FindAllByTenantKeepsTypes ==
    ASSUME CatalogTypes, scene' = scene, NEW k \in Requests, FindAllByTenant(k)
    PROVE  CatalogTypes'
<1> DEFINE r == [req[k] EXCEPT !.pc = "listed", !.rows = Listed, !.version = catalogPast.writes]
<1>1. req[k] \in ReqType /\ RequestFits(req[k], catalogPast.writes) /\ req[k].tab \in Tabs
  BY CatalogFacts DEF FindAllByTenant, RequestFits
<1>2. /\ r \in ReqType /\ r.pc = "listed" /\ r.tab = req[k].tab /\ r.version = catalogPast.writes
  BY <1>1, CatalogFacts, ListedType DEF ReqType
<1>3. RequestFits(r, catalogPast.writes)
  BY <1>1, <1>2, CatalogFacts DEF RequestFits
<1>4. req' = [req EXCEPT ![k] = r] /\ UNCHANGED <<table, cache, ask, tab, catalogPast>>
  BY DEF FindAllByTenant
<1> HIDE DEF r
<1> QED
  BY <1>2, <1>3, <1>4, CatalogFacts, TabStepKeepsTypes

LEMMA TableArrivesKeepsTypes ==
    ASSUME CatalogTypes, scene' = scene, NEW k \in Requests, TableArrives(k)
    PROVE  CatalogTypes'
<1>1. /\ req[k] \in ReqType /\ RequestFits(req[k], catalogPast.writes) /\ req[k].tab \in Tabs
      /\ req[k].version \in Writes /\ req[k].rows \in [Items -> Row]
  BY CatalogFacts DEF TableArrives, RequestFits, ReqType
<1> PICK b \in Tabs : b = req[k].tab
  BY <1>1
<1> DEFINE t == [tab[b] EXCEPT !.rows = req[k].rows, !.version = req[k].version,
                     !.loading = FALSE,
                     !.busy = IF req[k].op = "delete" THEN NoItem ELSE tab[b].busy]
           n == IF catalogPast.newest[b] < req[k].version THEN req[k].version
                ELSE catalogPast.newest[b]
<1>2. n \in Writes
  BY <1>1, CatalogFacts DEF CatalogPastType
<1>3. t \in TabType /\ t.form = tab[b].form /\ t.version <= catalogPast.writes
  BY <1>1, CatalogFacts DEF TabType, RequestFits
<1>4. /\ req' = [req EXCEPT ![k] = NoRequest] /\ UNCHANGED <<table, cache, ask>>
      /\ tab' = [tab EXCEPT ![b] = t]
      /\ catalogPast' = [catalogPast EXCEPT !.newest[b] = n]
  <2>1. tab' = [tab EXCEPT ![b] = t]
    BY CatalogFacts DEF TableArrives
  <2>2. /\ req' = [req EXCEPT ![k] = NoRequest] /\ UNCHANGED <<table, cache, ask>>
        /\ catalogPast' = [catalogPast EXCEPT !.newest[b] = n]
    BY DEF TableArrives
  <2> QED
    BY <2>1, <2>2
<1> HIDE DEF t, n
<1>5. /\ catalogPast' \in CatalogPastType /\ catalogPast'.writes = catalogPast.writes
      /\ catalogPast'.dropped = catalogPast.dropped
  BY <1>2, <1>4, CatalogFacts DEF CatalogPastType
<1>6. t.form # NoForm => t.form.item \in Items
  BY <1>3 DEF CatalogTypes, TabsFit
<1>7. RequestFits(NoRequest, catalogPast.writes) /\ NoRequest \in ReqType
  BY CatalogFacts, NothingTypes DEF RequestFits
<1> QED
  BY <1>3, <1>4, <1>5, <1>6, <1>7, TabStepKeepsTypes

LEMMA RequestFailsKeepsTypes ==
    ASSUME CatalogTypes, scene' = scene, NEW k \in Requests, RequestFails(k)
    PROVE  CatalogTypes'
<1>1. req[k] \in ReqType /\ RequestFits(req[k], catalogPast.writes) /\ req[k].tab \in Tabs
  BY CatalogFacts DEF RequestFails, RequestFits, ReqType
<1> PICK b \in Tabs : b = req[k].tab
  BY <1>1
<1> DEFINE loads == req[k].pc \in {"load", "listed"}
           r == IF req[k].pc \in {"sent", "checked", "written"}
                THEN [req[k] EXCEPT !.tab = NoItem] ELSE NoRequest
           t == [tab[b] EXCEPT !.rows = IF loads THEN NoRequest.rows ELSE tab[b].rows,
                     !.loading = tab[b].loading /\ ~loads,
                     !.busy = IF req[k].op = "delete" THEN NoItem ELSE tab[b].busy]
<1>2. r \in ReqType /\ RequestFits(r, catalogPast.writes)
  BY <1>1, CatalogFacts, NothingTypes DEF ReqType, RequestFits, AsksFor
<1>3. t \in TabType /\ t.form = tab[b].form /\ t.version = tab[b].version
  BY CatalogFacts, NothingTypes DEF TabType
<1>4. /\ req' = [req EXCEPT ![k] = r] /\ UNCHANGED <<table, cache, ask>>
      /\ tab' = [tab EXCEPT ![b] = t]
      /\ catalogPast' = [catalogPast EXCEPT !.failed = TRUE]
  <2>1. tab' = [tab EXCEPT ![b] = t]
    BY CatalogFacts DEF RequestFails
  <2>2. /\ req' = [req EXCEPT ![k] = r] /\ UNCHANGED <<table, cache, ask>>
        /\ catalogPast' = [catalogPast EXCEPT !.failed = TRUE]
    BY DEF RequestFails
  <2> QED
    BY <2>1, <2>2
<1> HIDE DEF t, r
<1>5. /\ catalogPast' \in CatalogPastType /\ catalogPast'.writes = catalogPast.writes
      /\ catalogPast'.dropped = catalogPast.dropped
  BY <1>4, CatalogFacts DEF CatalogPastType
<1>6. (t.form # NoForm => t.form.item \in Items) /\ t.version <= catalogPast.writes
  BY <1>3 DEF CatalogTypes, TabsFit
<1> QED
  BY <1>2, <1>3, <1>4, <1>5, <1>6, TabStepKeepsTypes

LEMMA ApiCallKeepsTypes ==
    ASSUME CatalogTypes, scene' = scene, NEW k \in Requests, NEW op \in Operations,
           NEW i \in Items \cup {NoItem}, NEW touched \in SUBSET Fields,
           ApiCall(k, op, i, touched)
    PROVE  CatalogTypes'
<1> PICK sent \in SUBSET Fields : sent = IF op = "add" THEN Fields ELSE touched
  OBVIOUS
<1> DEFINE r == Sent(NoItem, op, i, sent)
<1>1. /\ r \in ReqType /\ r.pc = "sent" /\ r.op = op /\ r.version = 0 /\ r.item = i
      /\ r.form = NoForm /\ r.touched = sent
  BY SentType
<1> HIDE DEF r
<1>2. /\ op # "view" /\ (op = "edit" <=> touched # {}) /\ (op = "add" <=> i = NoItem)
      /\ req' = [req EXCEPT ![k] = r] /\ UNCHANGED <<table, cache, ask, tab>>
      /\ catalogPast' = [catalogPast EXCEPT !.foreign = TRUE]
  BY DEF ApiCall, r
<1>3. RequestFits(r, catalogPast.writes)
  <2>1. /\ op # "add" => i \in Items
        /\ op \in {"delete", "show", "hide"} => touched = {}
    BY <1>2
  <2> QED
    BY <1>1, <1>2, <2>1, CatalogFacts DEF RequestFits, AsksFor
<1>4. /\ catalogPast' \in CatalogPastType /\ catalogPast'.writes = catalogPast.writes
      /\ catalogPast'.dropped = catalogPast.dropped
  BY <1>2, CatalogFacts DEF CatalogPastType
<1> QED
  BY <1>1, <1>2, <1>3, <1>4, TabStepKeepsTypes


\* A request that is refused.
LEMMA RefuseKeepsTypes ==
    ASSUME CatalogTypes, scene' = scene, NEW k \in Requests, Refuse(k) PROVE CatalogTypes'
<1>1. RequestsFit'
  <2>1. RequestFits(NoRequest, catalogPast'.writes) /\ NoRequest \in ReqType
        /\ catalogPast'.writes = catalogPast.writes
    BY CatalogFacts, NothingTypes DEF RequestFits, Refuse, CatalogPastType
  <2>2. catalogPast'.writes \in Nat /\ catalogPast.writes <= catalogPast'.writes
    BY <2>1, CatalogFacts
  <2> QED
    BY <2>1, <2>2, RequestFitsStill DEF Refuse
<1>2. TabsFit'
  <2>1. /\ \A b \in Tabs : tab'[b] \in TabType /\ tab'[b].form = tab[b].form
                           /\ tab'[b].version = tab[b].version
        /\ tab' \in [Tabs -> TabType] /\ catalogPast'.writes = catalogPast.writes
    <3>1. ASSUME NEW b \in Tabs
          PROVE  /\ tab'[b] \in TabType /\ tab'[b].form = tab[b].form
                 /\ tab'[b].version = tab[b].version
      <4>1. tab'[b] = [tab[b] EXCEPT !.busy = NoItem] \/ tab'[b] = tab[b]
        BY DEF Refuse
      <4> QED
        BY <4>1, CatalogFacts DEF TabType
    <3>2. tab' = [b \in Tabs |-> tab'[b]]
      BY DEF Refuse
    <3>3. catalogPast'.writes = catalogPast.writes
      BY CatalogFacts DEF Refuse, CatalogPastType
    <3> QED
      BY <3>1, <3>2, <3>3
  <2> QED
    BY <2>1, TypesStay DEF CatalogTypes, TabsFit
<1>3. PastFits'
  <2>1. catalogPast' = [catalogPast EXCEPT !.failed = catalogPast.failed \/ req[k].tab # NoItem]
    BY DEF Refuse
  <2>2. (catalogPast.failed \/ req[k].tab # NoItem) \in BOOLEAN
    BY CatalogFacts DEF CatalogPastType
  <2> QED
    BY <2>1, <2>2, CatalogFacts, TypesStay DEF CatalogTypes, PastFits, CatalogPastType
<1> QED
  BY <1>1, <1>2, <1>3, RestFits DEF CatalogTypes, Refuse

LEMMA EnsureExistsKeepsTypes ==
    ASSUME CatalogTypes, scene' = scene, NEW k \in Requests, EnsureExists(k)
    PROVE  CatalogTypes'
<1>1. CASE Refuse(k)
  BY <1>1, RefuseKeepsTypes
<1>2. CASE /\ req' = [req EXCEPT ![k].pc = "checked"]
           /\ UNCHANGED <<table, cache, ask, tab, catalogPast>>
  <2> DEFINE r == [req[k] EXCEPT !.pc = "checked"]
  <2>1. r \in ReqType /\ RequestFits(r, catalogPast.writes)
    BY CatalogFacts DEF EnsureExists, ReqType, RequestFits, AsksFor
  <2>2. req' = [req EXCEPT ![k] = r]
    BY <1>2
  <2> HIDE DEF r
  <2> QED
    BY <1>2, <2>1, <2>2, CatalogFacts, TabStepKeepsTypes
<1> QED
  BY <1>1, <1>2 DEF EnsureExists

\* The texts that a write leaves in a row.
LEMMA TypedType ==
    ASSUME CatalogTypes, NEW k \in Requests, NEW r \in Row, NEW n \in Writes
    PROVE  Typed(k, r, n) \in [Fields -> Writes]
<1>1. req[k].form.text \in [Fields -> Writes] /\ r.text \in [Fields -> Writes]
  BY CatalogFacts DEF ReqType, FormType, Row
<1> QED
  BY <1>1 DEF Typed

LEMMA WrittenRowType ==
    ASSUME CatalogTypes, NEW k \in Requests, NEW i \in Items, NEW n \in Writes,
           req[k].pc \in {"sent", "checked"}, ~Missing(k, i)
    PROVE  /\ WrittenRow(k, i, n) \in Row
           /\ WrittenRow(k, i, n).state # "alive" => ~WrittenRow(k, i, n).active
           /\ WrittenRow(k, i, n).text =
                  IF req[k].op \in {"add", "edit"} THEN Typed(k, table[i], n) ELSE table[i].text
<1>1. /\ table[i] \in Row /\ Typed(k, table[i], n) \in [Fields -> Writes]
      /\ req[k].op \in Operations \ {"view"}
  BY CatalogFacts, TypedType DEF ReqType, RequestFits, AsksFor
<1>2. CASE req[k].op = "add"
  BY <1>1, <1>2 DEF WrittenRow, Row
<1>3. CASE req[k].op = "edit"
  BY <1>1, <1>3 DEF WrittenRow, Row, Missing
<1>4. CASE req[k].op = "delete"
  BY <1>1, <1>4 DEF WrittenRow, Row
<1>5. CASE req[k].op = "show"
  BY <1>1, <1>5 DEF WrittenRow, Row, Missing
<1>6. CASE req[k].op = "hide"
  BY <1>1, <1>6 DEF WrittenRow, Row
<1> QED
  BY <1>1, <1>2, <1>3, <1>4, <1>5, <1>6 DEF Operations

\* What a write does to the past, and to its request.
Writing(k, i) ==
    /\ req[k].pc \in {"sent", "checked"} /\ ~Missing(k, i)
    /\ table' = [table EXCEPT ![i] = WrittenRow(k, i, catalogPast.writes + 1)]
    /\ req' = [req EXCEPT ![k] = [@ EXCEPT !.pc = "written", !.version = catalogPast.writes + 1,
                                           !.touched = {}, !.form = NoForm]]
    /\ catalogPast.writes + 1 \in Writes
    /\ catalogPast'.writes = catalogPast.writes + 1
    /\ UNCHANGED <<cache, ask, tab>>
    /\ catalogPast'.dropped = catalogPast.dropped /\ catalogPast'.newest = catalogPast.newest
    /\ catalogPast'.failed = catalogPast.failed /\ catalogPast'.foreign = catalogPast.foreign
    /\ \A j \in Items \ {i} : /\ catalogPast'.word[j] = catalogPast.word[j]
                              /\ catalogPast'.unseen[j] = catalogPast.unseen[j]
                              /\ catalogPast'.blind[j] = catalogPast.blind[j]
    /\ catalogPast'.word[i] = [f \in Fields |-> IF f \in req[k].touched THEN catalogPast.writes + 1
                                                ELSE catalogPast.word[i][f]]
    /\ LET old == req[k].form # NoForm /\ req[k].form.text # table[i].text IN
       /\ catalogPast'.unseen[i] <=> catalogPast.unseen[i] \/ old
       /\ catalogPast'.blind[i] <=> catalogPast.blind[i] \/ (old /\ req[k].form.calm)

LEMMA WriteFacts ==
    ASSUME CatalogTypes, NEW k \in Requests, NEW i \in Items, Write(k, i)
    PROVE  \/ Refuse(k)
           \/ Writing(k, i) /\ catalogPast' \in CatalogPastType
<1> DEFINE n == catalogPast.writes + 1
           old == req[k].form # NoForm /\ req[k].form.text # table[i].text
           w == [f \in Fields |-> IF f \in req[k].touched THEN n ELSE catalogPast.word[i][f]]
           unseen == catalogPast.unseen[i] \/ old
           blind == catalogPast.blind[i] \/ (old /\ req[k].form.calm)
<1>1. CASE Missing(k, i)
  BY <1>1 DEF Write
<1>2. CASE ~Missing(k, i)
  <2>1. /\ table' = [table EXCEPT ![i] = WrittenRow(k, i, n)]
        /\ req' = [req EXCEPT ![k] = [@ EXCEPT !.pc = "written", !.version = n,
                                               !.touched = {}, !.form = NoForm]]
        /\ UNCHANGED <<cache, ask, tab>>
        /\ n <= scene.writes /\ req[k].pc \in {"sent", "checked"}
    BY <1>2 DEF Write
  <2>2. catalogPast' = [catalogPast EXCEPT !.writes = n, !.word[i] = w,
                                           !.unseen[i] = unseen, !.blind[i] = blind]
    BY <1>2 DEF Write
  <2>3. /\ n \in Writes /\ w \in [Fields -> Writes] /\ unseen \in BOOLEAN /\ blind \in BOOLEAN
    BY <2>1, CatalogFacts, SceneFacts DEF Writes, CatalogPastType, ReqType, FormType
  <2> HIDE DEF n, w, unseen, blind
  <2>4. catalogPast' \in CatalogPastType
    BY <2>2, <2>3, CatalogFacts DEF CatalogPastType
  <2>5. /\ catalogPast'.writes = n
        /\ catalogPast'.dropped = catalogPast.dropped /\ catalogPast'.newest = catalogPast.newest
        /\ catalogPast'.failed = catalogPast.failed /\ catalogPast'.foreign = catalogPast.foreign
    BY <2>2, CatalogFacts DEF CatalogPastType
  <2>6. \A j \in Items \ {i} : /\ catalogPast'.word[j] = catalogPast.word[j]
                              /\ catalogPast'.unseen[j] = catalogPast.unseen[j]
                              /\ catalogPast'.blind[j] = catalogPast.blind[j]
    BY <2>2, CatalogFacts DEF CatalogPastType
  <2>7. /\ catalogPast'.word[i] = w /\ (catalogPast'.unseen[i] <=> unseen)
        /\ (catalogPast'.blind[i] <=> blind)
    BY <2>2, <2>3, CatalogFacts DEF CatalogPastType
  <2> QED
    BY <1>2, <2>1, <2>3, <2>4, <2>5, <2>6, <2>7 DEF Writing, n, w, unseen, blind
<1> QED
  BY <1>1, <1>2


LEMMA WriteKeepsTypes ==
    ASSUME CatalogTypes, scene' = scene, NEW k \in Requests, NEW i \in Items, Write(k, i)
    PROVE  CatalogTypes'
<1>1. CASE Refuse(k)
  BY <1>1, RefuseKeepsTypes
<1>2. CASE Writing(k, i) /\ catalogPast' \in CatalogPastType
  <2> DEFINE n == catalogPast.writes + 1
             r == [req[k] EXCEPT !.pc = "written", !.version = n, !.touched = {}, !.form = NoForm]
  <2>1. /\ n \in Writes /\ n \in Nat /\ catalogPast.writes \in Nat /\ catalogPast.writes <= n
        /\ catalogPast'.writes = n /\ catalogPast'.dropped = catalogPast.dropped
    BY <1>2, CatalogFacts DEF Writing
  <2>2. r \in ReqType /\ RequestFits(r, n) /\ req' = [req EXCEPT ![k] = r]
    <3>1. req[k] \in ReqType /\ NoForm \in FormType
      BY CatalogFacts, NothingTypes
    <3>2. r \in ReqType /\ r.pc = "written" /\ r.version = n
      BY <2>1, <3>1 DEF ReqType
    <3>3. req' = [req EXCEPT ![k] = r]
      BY <1>2 DEF Writing
    <3> HIDE DEF r, n
    <3> QED
      BY <2>1, <3>2, <3>3 DEF RequestFits
  <2>3. /\ WrittenRow(k, i, n) \in Row
        /\ WrittenRow(k, i, n).state # "alive" => ~WrittenRow(k, i, n).active
        /\ table' = [table EXCEPT ![i] = WrittenRow(k, i, n)]
    BY <1>2, <2>1, WrittenRowType DEF Writing
  <2> HIDE DEF n, r
  <2>4. RequestsFit'
    BY <2>1, <2>2, RequestFitsStill
  <2>5. ServerFits'
    BY <1>2, <2>3, TypesStay DEF Writing, CatalogTypes, ServerFits
  <2>6. TabsFit'
    <3>1. \A b \in Tabs : tab[b].version \in Nat
      BY CatalogFacts, SceneFacts DEF TabType, Writes
    <3> QED
      BY <1>2, <2>1, <3>1, TypesStay DEF Writing, CatalogTypes, TabsFit
  <2>7. PastFits'
    <3>1. catalogPast.dropped \in Nat
      BY CatalogFacts, SceneFacts DEF CatalogPastType, Writes
    <3> QED
      BY <1>2, <2>1, <3>1, TypesStay DEF CatalogTypes, PastFits
  <2> QED
    BY <2>4, <2>5, <2>6, <2>7 DEF CatalogTypes
<1> QED
  BY <1>1, <1>2, WriteFacts

LEMMA DelKeyKeepsTypes ==
    ASSUME CatalogTypes, scene' = scene, NEW k \in Requests, DelKey(k) PROVE CatalogTypes'
<1> DEFINE r == IF req[k].tab = NoItem THEN NoRequest
                ELSE [req[k] EXCEPT !.pc = "answered", !.version = 0]
           n == IF catalogPast.dropped < req[k].version THEN req[k].version
                ELSE catalogPast.dropped
<1>1. /\ req' = [req EXCEPT ![k] = r] /\ catalogPast' = [catalogPast EXCEPT !.dropped = n]
      /\ UNCHANGED <<table, ask, tab>>
  BY DEF DelKey, Done, Dropped
<1>2. r \in ReqType /\ RequestFits(r, catalogPast.writes)
  <2>1. req[k] \in ReqType /\ 0 \in Writes /\ catalogPast.writes \in Nat
    BY CatalogFacts, NothingTypes
  <2>2. CASE req[k].tab = NoItem
    BY <2>1, <2>2, NothingTypes, CatalogFacts DEF RequestFits
  <2>3. CASE req[k].tab # NoItem
    <3>1. r = [req[k] EXCEPT !.pc = "answered", !.version = 0] /\ req[k].tab \in Tabs
      BY <2>1, <2>3 DEF ReqType
    <3>2. r \in ReqType /\ r.pc = "answered" /\ r.version = 0 /\ r.tab \in Tabs
      BY <2>1, <3>1 DEF ReqType
    <3> QED
      BY <2>1, <3>2 DEF RequestFits
  <2> QED
    BY <2>2, <2>3
<1>3. n \in Writes /\ n <= catalogPast.writes
  <2>1. req[k].version \in Writes /\ req[k].version <= catalogPast.writes
    BY CatalogFacts DEF ReqType, RequestFits
  <2>2. catalogPast.dropped \in Writes /\ catalogPast.dropped <= catalogPast.writes
    BY DEF CatalogTypes, PastFits, CatalogPastType
  <2> QED
    BY <2>1, <2>2
<1> HIDE DEF r, n
<1>4. /\ catalogPast' \in CatalogPastType /\ catalogPast'.writes = catalogPast.writes
      /\ catalogPast'.dropped = n
  BY <1>1, <1>3, CatalogFacts DEF CatalogPastType
<1>5. RequestsFit'
  <2>1. RequestFits(r, catalogPast'.writes) /\ catalogPast'.writes \in Nat
        /\ catalogPast.writes <= catalogPast'.writes
    BY <1>2, <1>4, CatalogFacts
  <2> QED
    BY <1>1, <1>2, <2>1, RequestFitsStill
<1>6. TabsFit'
  BY <1>1, <1>4, TypesStay DEF CatalogTypes, TabsFit
<1>7. PastFits'
  BY <1>3, <1>4, TypesStay DEF PastFits
<1>8. ServerFits'
  <2>1. cache' \in [held : BOOLEAN, asOf : Writes, empty : BOOLEAN, excused : BOOLEAN]
    <3>1. CASE cache' = NoKey
      BY <3>1, NothingTypes, CatalogFacts DEF NoKey
    <3>2. CASE cache' = [cache EXCEPT !.excused =
                            cache.held /\ (@ \/ cache.asOf < req[k].version)]
      <4> DEFINE e == cache.held /\ (cache.excused \/ cache.asOf < req[k].version)
      <4>1. e \in BOOLEAN /\ cache' = [cache EXCEPT !.excused = e]
        BY <3>2 DEF CatalogTypes, ServerFits
      <4> HIDE DEF e
      <4> QED
        BY <4>1 DEF CatalogTypes, ServerFits
    <3> QED
      BY <3>1, <3>2 DEF DelKey
  <2> QED
    BY <1>1, <2>1, TypesStay DEF CatalogTypes, ServerFits
<1> QED
  BY <1>5, <1>6, <1>7, <1>8 DEF CatalogTypes

\* The answers change the key and a message.
LEMMA AnswerKeepsTypes ==
    ASSUME CatalogTypes, scene' = scene, NEW m \in Askers,
           CacheGet(m) \/ FindMany(m) \/ CacheSet(m)
    PROVE  CatalogTypes'
<1> DEFINE AskType == [pc : {"idle", "missed", "found", "done"}, since : Writes,
                       asOf : Writes, empty : BOOLEAN, excused : BOOLEAN]
           KeyType == [held : BOOLEAN, asOf : Writes, empty : BOOLEAN, excused : BOOLEAN]
<1>1. /\ ask \in [Askers -> AskType] /\ ask[m] \in AskType /\ cache \in KeyType
      /\ catalogPast.dropped \in Writes /\ catalogPast.writes \in Writes /\ 0 \in Writes
      /\ UNCHANGED <<table, req, tab, catalogPast>>
  BY CatalogFacts, NothingTypes
  DEF CatalogTypes, ServerFits, CatalogPastType, CacheGet, FindMany, CacheSet
<1>2. ask' \in [Askers -> AskType] /\ cache' \in KeyType
  <2>1. CASE CacheGet(m)
    <3>1. CASE ask' = [ask EXCEPT ![m] = [pc |-> "done", since |-> catalogPast.dropped,
                          asOf |-> cache.asOf, empty |-> cache.empty, excused |-> cache.excused]]
      BY <1>1, <2>1, <3>1 DEF CacheGet
    <3>2. CASE ask' = [ask EXCEPT ![m] = [NoAsk EXCEPT !.pc = "missed", !.since = catalogPast.dropped]]
      BY <1>1, <2>1, <3>2 DEF CacheGet, NoAsk
    <3> QED
      BY <2>1, <3>1, <3>2 DEF CacheGet
  <2>2. CASE FindMany(m)
    BY <1>1, <2>2 DEF FindMany, NothingListed
  <2>3. CASE CacheSet(m)
    <3>1. ask' \in [Askers -> AskType]
      BY <1>1, <2>3 DEF CacheSet
    <3>2. CASE cache' = [held |-> TRUE, asOf |-> ask[m].asOf, empty |-> ask[m].empty,
                         excused |-> ask[m].asOf < catalogPast.dropped]
      <4> DEFINE e == ask[m].asOf < catalogPast.dropped
      <4>1. /\ e \in BOOLEAN
            /\ cache' = [held |-> TRUE, asOf |-> ask[m].asOf, empty |-> ask[m].empty, excused |-> e]
        BY <3>2
      <4>2. ask[m].asOf \in Writes /\ ask[m].empty \in BOOLEAN
        BY <1>1
      <4> HIDE DEF e
      <4> QED
        BY <3>1, <4>1, <4>2
    <3>3. CASE UNCHANGED cache
      <4> HIDE DEF KeyType
      <4> QED
        BY <1>1, <3>1, <3>3
    <3> QED
      BY <2>3, <3>1, <3>2, <3>3 DEF CacheSet
  <2> QED
    BY <2>1, <2>2, <2>3
<1>3. ServerFits'
  BY <1>1, <1>2, TypesStay DEF CatalogTypes, ServerFits
<1> QED
  BY <1>1, <1>3, RestFits DEF CatalogTypes

LEMMA ExpireKeepsTypes ==
    ASSUME CatalogTypes, scene' = scene, Expire PROVE CatalogTypes'
<1>1. ServerFits'
  BY TypesStay, NothingTypes, CatalogFacts DEF Expire, NoKey, CatalogTypes, ServerFits
<1> QED
  BY <1>1, RestFits DEF CatalogTypes, Expire

\* Every step of the next-state relation, with the types of what it is about.
LEMMA CatalogTypesStep == CatalogTypes /\ [CatalogNext]_catalogVars => CatalogTypes'
<1> SUFFICES ASSUME CatalogTypes, [CatalogNext]_catalogVars PROVE CatalogTypes'
  OBVIOUS
<1>1. CASE UNCHANGED catalogVars
  BY <1>1, RestFits DEF catalogVars, CatalogTypes
<1>2. CASE CatalogNext
  <2>1. scene' = scene /\ CatalogStep /\ scene.tabs \subseteq Tabs /\ scene.items \subseteq Items
        /\ scene.fields \subseteq Fields /\ scene.askers \subseteq Askers
    BY <1>2, CatalogFacts, SceneFacts DEF CatalogNext
  <2>2. ASSUME NEW k \in Requests, Tabwork(k) \/ Service(k) \/ RequestFails(k) PROVE CatalogTypes'
    BY <2>1, <2>2, AnsweredKeepsTypes, FindAllByTenantKeepsTypes, TableArrivesKeepsTypes,
       EnsureExistsKeepsTypes, WriteKeepsTypes, DelKeyKeepsTypes, RequestFailsKeepsTypes
    DEF Tabwork, Service
  <2>3. ASSUME NEW k \in Requests, NEW b \in Tabs,
               \/ Submit(k, b)
               \/ View(k, b)
               \/ \E touched \in SUBSET Fields : SaveEdit(k, b, touched)
               \/ \E i \in Items : Delete(k, b, i)
        PROVE  CatalogTypes'
    BY <2>1, <2>3, SubmitKeepsTypes, ViewKeepsTypes, SaveEditKeepsTypes, DeleteKeepsTypes
  <2>4. ASSUME NEW k \in Requests, NEW op \in Operations, NEW i \in Items \cup {NoItem},
               NEW touched \in SUBSET Fields, ApiCall(k, op, i, touched)
        PROVE  CatalogTypes'
    BY <2>1, <2>4, ApiCallKeepsTypes
  <2>5. ASSUME NEW b \in Tabs, CloseEdit(b) \/ \E i \in Items : OpenEdit(b, i)
        PROVE  CatalogTypes'
    BY <2>1, <2>5, FormKeepsTypes
  <2>6. ASSUME NEW m \in Askers, CacheGet(m) \/ Answer(m) PROVE CatalogTypes'
    BY <2>1, <2>6, AnswerKeepsTypes DEF Answer
  <2>7. CASE Expire
    BY <2>1, <2>7, ExpireKeepsTypes
  <2>8. \A touched \in SUBSET scene.fields : touched \in SUBSET Fields
    BY <2>1
  <2> QED
    BY <2>1, <2>2, <2>3, <2>4, <2>5, <2>6, <2>7, <2>8 DEF CatalogStep
<1> QED
  BY <1>1, <1>2

\* The types, how a request in the server is shaped, and what holds by every step.
THEOREM CatalogTypeCorrect == CatalogSpec => []CatalogTypeOK
<1>1. CatalogSpec => []CatalogTypes
  BY CatalogTypesInitially, CatalogTypesStep, PTL DEF CatalogSpec
<1> QED
  BY <1>1, CatalogTypesAre, PTL


\* ---- AnswersSafe: what the key and the messages have

LEMMA FreshInitially == CatalogInit => ListsAreFresh
  BY DEF CatalogInit, ListsAreFresh, NoKey, NoAsk

\* A step that leaves the key and the messages alone, and tries no deletion.
LEMMA FreshStill ==
    ASSUME ListsAreFresh, scene' = scene, UNCHANGED <<cache, ask>>,
           catalogPast'.dropped = catalogPast.dropped
    PROVE  ListsAreFresh'
  BY DEF ListsAreFresh

LEMMA NumbersOfAnswers ==
    ASSUME CatalogTypes
    PROVE  /\ catalogPast.dropped \in Nat /\ catalogPast.writes \in Nat
           /\ catalogPast.dropped <= catalogPast.writes
           /\ cache.asOf \in Nat
           /\ \A m \in Askers : ask[m].asOf \in Nat /\ ask[m].since \in Nat
           /\ \A k \in Requests : req[k].version \in Nat
<1>1. \A n \in Writes : n \in Nat
  BY CatalogFacts, SceneFacts DEF Writes
<1>2. \A k \in Requests : req[k].version \in Writes
  BY CatalogFacts DEF ReqType
<1> QED
  BY <1>1, <1>2 DEF CatalogTypes, ServerFits, PastFits, CatalogPastType

\* Tabs and requests, but for the deletion of the key.
LEMMA RequestKeepsLists ==
    ASSUME CatalogTypes, ListsAreFresh, scene' = scene, NEW k \in Requests,
           \/ Tabwork(k)
           \/ EnsureExists(k)
           \/ \E i \in Items : Write(k, i)
           \/ RequestFails(k)
    PROVE  ListsAreFresh'
<1>1. ASSUME Refuse(k) PROVE ListsAreFresh'
  BY <1>1, FreshStill, CatalogFacts DEF Refuse, CatalogPastType
<1>2. CASE Tabwork(k) \/ RequestFails(k)
  BY <1>2, FreshStill, CatalogFacts
  DEF Tabwork, Answered, FindAllByTenant, TableArrives, RequestFails, CatalogPastType
<1>3. CASE EnsureExists(k)
  BY <1>1, <1>3, FreshStill DEF EnsureExists
<1>4. ASSUME NEW i \in Items, Write(k, i) PROVE ListsAreFresh'
  BY <1>1, <1>4, WriteFacts, FreshStill DEF Writing
<1> QED
  BY <1>2, <1>3, <1>4

LEMMA DelKeyKeepsLists ==
    ASSUME CatalogTypes, ListsAreFresh, scene' = scene, NEW k \in Requests, DelKey(k)
    PROVE  ListsAreFresh'
<1>1. PICK n \in Nat : /\ catalogPast'.dropped = n
                       /\ n >= catalogPast.dropped
                       /\ n = catalogPast.dropped \/ n = req[k].version
  BY NumbersOfAnswers, CatalogFacts DEF DelKey, Dropped, CatalogPastType
<1>2. \A m \in Askers : ask'[m] = ask[m]
  BY DEF DelKey
<1>3. cache'.held /\ ~cache'.excused => cache'.asOf >= n
  <2>1. CASE cache' = NoKey
    BY <2>1 DEF NoKey
  <2>2. CASE cache' = [cache EXCEPT !.excused =
                          cache.held /\ (@ \/ cache.asOf < req[k].version)]
    <3>1. /\ cache'.held = cache.held /\ cache'.asOf = cache.asOf
          /\ cache'.excused <=> (cache.held /\ (cache.excused \/ cache.asOf < req[k].version))
      BY <2>2 DEF CatalogTypes, ServerFits
    <3> QED
      BY <1>1, <3>1, NumbersOfAnswers DEF ListsAreFresh
  <2> QED
    BY <2>1, <2>2 DEF DelKey
<1> QED
  BY <1>1, <1>2, <1>3, NumbersOfAnswers DEF ListsAreFresh

LEMMA AnswerKeepsLists ==
    ASSUME CatalogTypes, ListsAreFresh, scene' = scene, NEW m \in Askers,
           CacheGet(m) \/ FindMany(m) \/ CacheSet(m)
    PROVE  ListsAreFresh'
<1>1. /\ catalogPast' = catalogPast /\ \A o \in Askers \ {m} : ask'[o] = ask[o]
      /\ m \in DOMAIN ask
  BY DEF CacheGet, FindMany, CacheSet, CatalogTypes, ServerFits
<1>2. CASE CacheGet(m)
  <2>1. CASE /\ Believed
             /\ ask' = [ask EXCEPT ![m] = [pc |-> "done", since |-> catalogPast.dropped,
                          asOf |-> cache.asOf, empty |-> cache.empty, excused |-> cache.excused]]
    <3>1. /\ ask'[m].pc = "done" /\ ask'[m].since = catalogPast.dropped
          /\ ask'[m].asOf = cache.asOf /\ ask'[m].empty = cache.empty
          /\ ask'[m].excused = cache.excused
      BY <1>1, <2>1
    <3> QED
      BY <1>1, <1>2, <2>1, <3>1, NumbersOfAnswers DEF ListsAreFresh, Believed, CacheGet
  <2>2. CASE ask' = [ask EXCEPT ![m] = [NoAsk EXCEPT !.pc = "missed", !.since = catalogPast.dropped]]
    <3>1. ask'[m].pc = "missed" /\ ask'[m].since = catalogPast.dropped
      BY <1>1, <2>2 DEF NoAsk
    <3> QED
      BY <1>1, <1>2, <3>1, NumbersOfAnswers DEF ListsAreFresh, CacheGet
  <2> QED
    BY <1>2, <2>1, <2>2 DEF CacheGet
<1>3. CASE FindMany(m)
  <2>1. /\ ask'[m].pc = "found" /\ ask'[m].asOf = catalogPast.writes
        /\ ask'[m].since = ask[m].since /\ cache' = cache
    BY <1>1, <1>3 DEF FindMany, CatalogTypes, ServerFits
  <2> QED
    BY <1>1, <2>1, NumbersOfAnswers DEF ListsAreFresh
<1>4. CASE CacheSet(m)
  <2>1. /\ ask[m].pc = "found" /\ ask'[m].pc = "done" /\ ask'[m].asOf = ask[m].asOf
        /\ ask'[m].since = ask[m].since
    BY <1>1, <1>4 DEF CacheSet, CatalogTypes, ServerFits
  <2>2. cache'.held /\ ~cache'.excused => cache'.asOf >= catalogPast.dropped
    <3>1. CASE cache' = [held |-> TRUE, asOf |-> ask[m].asOf, empty |-> ask[m].empty,
                         excused |-> ask[m].asOf < catalogPast.dropped]
      <4>1. cache'.asOf = ask[m].asOf /\ (cache'.excused <=> ask[m].asOf < catalogPast.dropped)
        BY <3>1
      <4> QED
        BY <4>1, NumbersOfAnswers
    <3>2. CASE UNCHANGED cache
      BY <3>2 DEF ListsAreFresh
    <3> QED
      BY <1>4, <3>1, <3>2 DEF CacheSet
  <2> QED
    BY <1>1, <2>1, <2>2, NumbersOfAnswers DEF ListsAreFresh
<1> QED
  BY <1>2, <1>3, <1>4

LEMMA FreshStep ==
    CatalogTypes /\ ListsAreFresh /\ [CatalogNext]_catalogVars => ListsAreFresh'
<1> SUFFICES ASSUME CatalogTypes, ListsAreFresh, [CatalogNext]_catalogVars
             PROVE  ListsAreFresh'
  OBVIOUS
<1>1. CASE UNCHANGED catalogVars
  BY <1>1, FreshStill DEF catalogVars
<1>2. CASE CatalogNext
  <2>1. scene' = scene /\ CatalogStep /\ scene.tabs \subseteq Tabs /\ scene.items \subseteq Items
        /\ scene.fields \subseteq Fields /\ scene.askers \subseteq Askers
    BY <1>2, CatalogFacts, SceneFacts DEF CatalogNext
  <2>2. ASSUME NEW k \in Requests, Tabwork(k) \/ Service(k) \/ RequestFails(k)
        PROVE  ListsAreFresh'
    BY <2>1, <2>2, RequestKeepsLists, DelKeyKeepsLists DEF Service
  <2>3. ASSUME NEW k \in Requests, NEW b \in Tabs,
               \/ Submit(k, b)
               \/ View(k, b)
               \/ \E touched \in SUBSET scene.fields : SaveEdit(k, b, touched)
               \/ \E i \in Items : Delete(k, b, i)
        PROVE  ListsAreFresh'
    BY <2>1, <2>3, FreshStill DEF Submit, View, SaveEdit, Delete
  <2>4. ASSUME NEW k \in Requests, NEW op \in Operations, NEW i \in Items \cup {NoItem},
               NEW touched \in SUBSET scene.fields, ApiCall(k, op, i, touched)
        PROVE  ListsAreFresh'
    BY <2>1, <2>4, FreshStill, CatalogFacts DEF ApiCall, CatalogPastType
  <2>5. ASSUME NEW b \in Tabs, CloseEdit(b) \/ \E i \in Items : OpenEdit(b, i)
        PROVE  ListsAreFresh'
    BY <2>1, <2>5, FreshStill DEF CloseEdit, OpenEdit
  <2>6. ASSUME NEW m \in Askers, CacheGet(m) \/ Answer(m) PROVE ListsAreFresh'
    BY <2>1, <2>6, AnswerKeepsLists DEF Answer
  <2>7. CASE Expire
    BY <2>1, <2>7 DEF Expire, NoKey, ListsAreFresh
  <2> QED
    BY <2>1, <2>2, <2>3, <2>4, <2>5, <2>6, <2>7 DEF CatalogStep
<1> QED
  BY <1>1, <1>2

LEMMA CatalogTypesAlways == CatalogSpec => []CatalogTypes
  BY CatalogTypesInitially, CatalogTypesStep, PTL DEF CatalogSpec

\* An answer has every write whose service call was over when its message asked, but
\* for the two ways the key can be left behind; and no tenant is without a first FAQ.
THEOREM AnswersAreSafe == CatalogSpec => []AnswersSafe
<1>1. CatalogSpec => []ListsAreFresh
  BY CatalogTypesAlways, FreshInitially, FreshStep, PTL DEF CatalogSpec
<1>2. ListsAreFresh => AnswersSafe
  BY DEF ListsAreFresh, AnswersSafe, NoOldAnswer, NoOldEmptiness
<1> QED
  BY <1>1, <1>2, PTL


\* ---- FormsSafe: words, and the edits of an agent alone

\* Only a write touches a row and what was typed for it.
LEMMA WordsStay ==
    ASSUME WordsHold, table' = table, catalogPast'.word = catalogPast.word,
           catalogPast'.unseen = catalogPast.unseen
    PROVE  WordsHold'
  BY DEF WordsHold

LEMMA WriteKeepsWords ==
    ASSUME CatalogTypes, WordsHold, NEW k \in Requests, NEW i \in Items, Write(k, i)
    PROVE  WordsHold'
<1>1. CASE Refuse(k)
  BY <1>1, WordsStay, CatalogFacts DEF Refuse, CatalogPastType
<1>2. CASE Writing(k, i)
  <2> DEFINE n == catalogPast.writes + 1
             r == WrittenRow(k, i, n)
             words == [f \in Fields |-> IF f \in req[k].touched THEN n ELSE catalogPast.word[i][f]]
  <2>1. /\ n \in Writes /\ table' = [table EXCEPT ![i] = r] /\ catalogPast'.word[i] = words
        /\ AsksFor(req[k]) /\ req[k].touched \in SUBSET Fields /\ req[k].op \in Operations
        /\ table[i].text \in [Fields -> Writes] /\ catalogPast.word[i] \in [Fields -> Writes]
        /\ req[k].form.text \in [Fields -> Writes]
    BY <1>2, CatalogFacts
    DEF Writing, RequestFits, ReqType, FormType, Row, CatalogPastType
  <2>2. r.text = IF req[k].op \in {"add", "edit"} THEN Typed(k, table[i], n) ELSE table[i].text
    BY <1>2, <2>1, WrittenRowType DEF Writing
  <2>3. ASSUME r.state = "alive", ~catalogPast'.unseen[i] PROVE r.text = words
    <3>1. /\ ~catalogPast.unseen[i]
          /\ req[k].form = NoForm \/ req[k].form.text = table[i].text
      BY <1>2, <2>3 DEF Writing
    <3>2. CASE req[k].op = "add"
      BY <2>1, <2>2, <3>2 DEF AsksFor, Typed
    <3>3. CASE req[k].op = "edit"
      <4>1. table[i].text = catalogPast.word[i]
        BY <1>2, <3>1, <3>3 DEF Writing, Missing, WordsHold
      <4> QED
        BY <2>1, <2>2, <3>1, <3>3, <4>1 DEF Typed
    <3>4. CASE req[k].op \in {"delete", "show", "hide"}
      <4>1. table[i].text = catalogPast.word[i]
        BY <1>2, <3>1, <3>4 DEF Writing, Missing, WordsHold
      <4>2. req[k].touched = {}
        BY <2>1, <3>4 DEF AsksFor
      <4>3. words = catalogPast.word[i]
        BY <2>1, <4>2
      <4> QED
        BY <2>2, <3>4, <4>1, <4>3
    <3> QED
      BY <2>1, <3>2, <3>3, <3>4 DEF AsksFor, Operations
  <2> HIDE DEF n, r, words
  <2>4. table'[i] = r /\ \A j \in Items \ {i} : table'[j] = table[j]
    BY <2>1, CatalogFacts
  <2> QED
    BY <1>2, <2>1, <2>3, <2>4 DEF Writing, WordsHold
<1> QED
  BY <1>1, <1>2, WriteFacts

LEMMA WordsStep ==
    CatalogTypes /\ WordsHold /\ [CatalogNext]_catalogVars => WordsHold'
<1> SUFFICES ASSUME CatalogTypes, WordsHold, [CatalogNext]_catalogVars PROVE WordsHold'
  OBVIOUS
<1>1. CASE UNCHANGED catalogVars
  BY <1>1, WordsStay DEF catalogVars
<1>2. CASE CatalogNext
  <2>1. CatalogStep /\ scene.items \subseteq Items
    BY <1>2, CatalogFacts, SceneFacts DEF CatalogNext
  <2>2. catalogPast \in CatalogPastType
    BY CatalogFacts
  <2>3. ASSUME NEW k \in Requests,
               Tabwork(k) \/ EnsureExists(k) \/ DelKey(k) \/ RequestFails(k)
        PROVE  WordsHold'
    BY <2>2, <2>3, WordsStay
    DEF Tabwork, Answered, FindAllByTenant, TableArrives, EnsureExists, Refuse, DelKey, Dropped,
        RequestFails, CatalogPastType
  <2>4. ASSUME NEW k \in Requests, NEW i \in Items, Write(k, i) PROVE WordsHold'
    BY <2>4, WriteKeepsWords
  <2>5. ASSUME NEW k \in Requests, NEW b \in scene.tabs,
               \/ Submit(k, b)
               \/ View(k, b)
               \/ \E touched \in SUBSET scene.fields : SaveEdit(k, b, touched)
               \/ \E i \in Items : Delete(k, b, i)
        PROVE  WordsHold'
    BY <2>5, WordsStay DEF Submit, View, SaveEdit, Delete
  <2>6. ASSUME NEW k \in Requests, NEW op \in Operations, NEW i \in scene.items \cup {NoItem},
               NEW touched \in SUBSET scene.fields, ApiCall(k, op, i, touched)
        PROVE  WordsHold'
    BY <2>2, <2>6, WordsStay DEF ApiCall, CatalogPastType
  <2>7. ASSUME NEW b \in scene.tabs, CloseEdit(b) \/ \E i \in Items : OpenEdit(b, i)
        PROVE  WordsHold'
    BY <2>7, WordsStay DEF CloseEdit, OpenEdit
  <2>8. ASSUME NEW m \in scene.askers, CacheGet(m) \/ Answer(m) PROVE WordsHold'
    BY <2>8, WordsStay DEF CacheGet, Answer, FindMany, CacheSet
  <2>9. CASE Expire
    BY <2>9, WordsStay DEF Expire
  <2> QED
    BY <2>1, <2>3, <2>4, <2>5, <2>6, <2>7, <2>8, <2>9 DEF CatalogStep, Service
<1> QED
  BY <1>1, <1>2


LEMMA OwnPageInitially == CatalogInit => OwnEdits
<1> SUFFICES ASSUME CatalogInit, NEW b \in Tabs PROVE OwnPage(b)
  BY DEF OwnEdits
<1>1. \A k \in Requests : req[k].pc = "idle" /\ req[k].tab = NoItem
  BY NothingTypes DEF CatalogInit
<1>2. Of(b) = {}
  BY <1>1, CatalogAssumption DEF Of, CatalogAssumption
<1>3. Listed = [i \in Items |-> NoRow]
  BY DEF Listed, Visible, CatalogInit, NoRow
<1>4. /\ catalogPast.newest[b] = 0 /\ catalogPast.writes = 0
      /\ tab[b].rows = Listed /\ ~tab[b].form.calm
      /\ \A i \in Items : ~catalogPast.blind[i]
  BY <1>3 DEF CatalogInit, NoForm
<1> QED
  BY <1>1, <1>2, <1>4 DEF OwnPage, TabFollows, FormFollows

\* One request changes.
LEMMA Moved ==
    ASSUME CatalogTypes, NEW k \in Requests, NEW r, req' = [req EXCEPT ![k] = r]
    PROVE  req'[k] = r /\ \A j \in Requests \ {k} : req'[j] = req[j]
  BY CatalogFacts

\* A step that leaves the server's rows alone leaves the list.
LEMMA ListedStays == ASSUME table' = table PROVE Listed' = Listed
  BY DEF Listed, Visible

\* With a calm form open, the saving of it is all that is under way.
LEMMA CalmForm ==
    ASSUME NEW b \in Tabs, OwnPage(b)
    PROVE  /\ tab[b].form.calm => \A k \in Of(b) :
                 /\ req[k].op = "edit" /\ req[k].pc \in {"sent", "checked", "written", "answered"}
                 /\ \A j \in Of(b) : j = k
           /\ \A k \in Of(b) : req[k].pc \in {"sent", "checked"} /\ req[k].form.calm =>
                 tab[b].form.calm /\ req[k].form = tab[b].form
  BY DEF OwnPage, FormFollows

\* A request of the page is sent: it carries the form that is open, if any.
LEMMA SentKeepsPage ==
    ASSUME CatalogTypes, NEW b \in Tabs, OwnPage(b), NEW k \in Requests, req[k].pc = "idle",
           NEW r, req' = [req EXCEPT ![k] = r], r.pc = "sent", r.tab = b,
           r.form = tab[b].form, UNCHANGED <<table, catalogPast>>,
           tab'[b].rows = tab[b].rows, tab'[b].version = tab[b].version,
           tab'[b].form = tab[b].form,
           tab[b].form.calm => r.op = "edit" /\ ~Saving(b)
    PROVE  OwnPage(b)'
<1>1. req'[k] = r /\ \A j \in Requests \ {k} : req'[j] = req[j]
  BY Moved
<1>2. k \notin Of(b) /\ \A j \in Requests : j \in Of(b)' <=> j = k \/ j \in Of(b)
  <2>1. req[k].tab = NoItem
    BY CatalogFacts DEF RequestFits
  <2> QED
    BY <1>1, <2>1, CatalogAssumption DEF Of, CatalogAssumption
<1>3. Listed' = Listed
  BY ListedStays
<1>4. TabFollows(b)'
  BY <1>1, <1>2, <1>3 DEF OwnPage, TabFollows, Of
<1>5. tab[b].form.calm => Of(b) = {}
  BY CalmForm DEF Saving
<1>6. FormFollows(b)'
  <2>1. CASE tab[b].form.calm
    <3>1. \A j \in Of(b)' : j = k
      BY <1>2, <1>5, <2>1 DEF Of
    <3>2. tab[b].form.text = table[tab[b].form.item].text
      BY <1>5, <2>1 DEF OwnPage, FormFollows
    <3> QED
      BY <1>1, <2>1, <3>1, <3>2 DEF FormFollows, Of
  <2>2. CASE ~tab[b].form.calm
    BY <1>1, <1>2, <2>2, CalmForm DEF FormFollows, Of
  <2> QED
    BY <2>1, <2>2
<1>7. \A j \in Requests : req'[j].pc # "idle" => req'[j].tab = b
  BY <1>1 DEF OwnPage
<1> QED
  BY <1>4, <1>6, <1>7 DEF OwnPage

\* The requests an agent sends.
LEMMA AgentSendsKeepsPage ==
    ASSUME CatalogTypes, scene' = scene, NEW b \in Tabs, OwnPage(b), NEW k \in Requests,
           \/ Submit(k, b)
           \/ \E touched \in SUBSET Fields : SaveEdit(k, b, touched)
           \/ \E i \in Items : Delete(k, b, i)
    PROVE  OwnPage(b)'
<1> b # NoItem /\ b \in Tabs
  BY CatalogAssumption DEF CatalogAssumption
<1>1. CASE Submit(k, b)
  <2> DEFINE r == Sent(b, "add", NoItem, Fields)
  <2>1. r.pc = "sent" /\ r.tab = b /\ r.form = tab[b].form
    BY DEF Sent, NoRequest
  <2>2. /\ req[k].pc = "idle" /\ tab[b].form = NoForm /\ req' = [req EXCEPT ![k] = r]
        /\ UNCHANGED <<table, tab, catalogPast>>
    BY <1>1 DEF Submit
  <2> HIDE DEF r
  <2> QED
    BY <2>1, <2>2, SentKeepsPage, NothingTypes, CatalogFacts
<1>2. ASSUME NEW touched \in SUBSET Fields, SaveEdit(k, b, touched) PROVE OwnPage(b)'
  <2> DEFINE r == Sent(b, "edit", tab[b].form.item, touched)
  <2>1. r.pc = "sent" /\ r.tab = b /\ r.form = tab[b].form /\ r.op = "edit"
    BY DEF Sent, NoRequest
  <2>2. /\ req[k].pc = "idle" /\ ~Saving(b) /\ req' = [req EXCEPT ![k] = r]
        /\ UNCHANGED <<table, tab, catalogPast>>
    BY <1>2 DEF SaveEdit
  <2> HIDE DEF r
  <2> QED
    BY <2>1, <2>2, SentKeepsPage
<1>3. ASSUME NEW i \in Items, Delete(k, b, i) PROVE OwnPage(b)'
  <2> DEFINE r == Sent(b, "delete", i, {})
  <2>1. r.pc = "sent" /\ r.tab = b /\ r.form = tab[b].form
    BY DEF Sent, NoRequest
  <2>2. /\ req[k].pc = "idle" /\ tab[b].form = NoForm /\ req' = [req EXCEPT ![k] = r]
        /\ UNCHANGED <<table, catalogPast>>
    BY <1>3 DEF Delete, Clickable
  <2>3. /\ tab'[b].rows = tab[b].rows /\ tab'[b].version = tab[b].version
        /\ tab'[b].form = tab[b].form
    BY <1>3, CatalogFacts DEF Delete, TabType
  <2> HIDE DEF r
  <2> QED
    BY <2>1, <2>2, <2>3, SentKeepsPage, NothingTypes, CatalogFacts
<1> QED
  BY <1>1, <1>2, <1>3

\* A form is opened or closed.
LEMMA FormKeepsPage ==
    ASSUME CatalogTypes, scene' = scene, NEW b \in Tabs, OwnPage(b),
           CloseEdit(b) \/ \E i \in Items : OpenEdit(b, i)
    PROVE  OwnPage(b)'
<1>1. /\ UNCHANGED <<table, req, catalogPast>> /\ Listed' = Listed /\ Of(b)' = Of(b)
      /\ tab'[b].rows = tab[b].rows /\ tab'[b].version = tab[b].version
  BY CatalogFacts, ListedStays DEF CloseEdit, OpenEdit, TabType, Of
<1>2. TabFollows(b)'
  BY <1>1 DEF OwnPage, TabFollows
<1>3. FormFollows(b)'
  <2>1. CASE CloseEdit(b)
    <3>1. ~tab'[b].form.calm /\ ~Saving(b)
      BY <2>1, CatalogFacts, NothingTypes DEF CloseEdit, TabType
    <3>2. \A k \in Of(b) : ~(req[k].pc \in {"sent", "checked"} /\ req[k].form.calm)
      BY <3>1, CalmForm DEF Saving
    <3> QED
      BY <1>1, <3>1, <3>2 DEF FormFollows
  <2>2. ASSUME NEW i \in Items, OpenEdit(b, i) PROVE FormFollows(b)'
    <3>1. /\ tab'[b].form.item = i /\ tab'[b].form.text = tab[b].rows[i].text
          /\ tab'[b].form.calm <=> Quiet(b)
      BY <2>2, CatalogFacts DEF OpenEdit, TabType, Quiet
    <3>2. \A k \in Of(b) : ~(req[k].pc \in {"sent", "checked"} /\ req[k].form.calm)
      BY <2>2, CatalogFacts, NothingTypes, CalmForm DEF OpenEdit, Clickable
    <3>3. CASE Quiet(b)
      <4>1. Of(b) = {} /\ tab[b].rows = Listed
        BY <3>3 DEF Quiet, OwnPage, TabFollows
      <4>2. tab[b].rows[i].text = table[i].text
        BY <2>2, <4>1, NothingTypes, CatalogFacts DEF OpenEdit, Clickable, Listed
      <4> QED
        BY <1>1, <3>1, <4>1, <4>2 DEF FormFollows
    <3>4. CASE ~Quiet(b)
      BY <1>1, <3>1, <3>2, <3>4 DEF FormFollows
    <3> QED
      BY <3>3, <3>4
  <2> QED
    BY <2>1, <2>2
<1> QED
  BY <1>1, <1>2, <1>3 DEF OwnPage


\* Unless the list fails to come, the page reads it again and again.
LEMMA ReadingKeepsPage ==
    ASSUME CatalogTypes, scene' = scene, NEW b \in Tabs, OwnPage(b), NEW k \in Requests,
           View(k, b) \/ Answered(k) \/ FindAllByTenant(k) \/ TableArrives(k)
    PROVE  OwnPage(b)'
<1>1. /\ table' = table /\ Listed' = Listed /\ catalogPast'.writes = catalogPast.writes
      /\ catalogPast'.blind = catalogPast.blind /\ b # NoItem
      /\ catalogPast.writes \in Nat
  BY CatalogFacts, ListedStays, CatalogAssumption
  DEF View, Answered, FindAllByTenant, TableArrives, CatalogPastType, CatalogAssumption
<1>2. PICK r : req' = [req EXCEPT ![k] = r]
  BY DEF View, Answered, FindAllByTenant, TableArrives
<1>3. req'[k] = r /\ \A j \in Requests \ {k} : req'[j] = req[j]
  BY <1>2, Moved
<1>4. CASE View(k, b)
  <2>1. /\ r.pc = "load" /\ r.tab = b /\ ~r.form.calm /\ req[k].pc = "idle" /\ catalogPast' = catalogPast
    <3>1. r = [NoRequest EXCEPT !.pc = "load", !.tab = b]
      BY <1>3, <1>4, CatalogFacts DEF View
    <3>2. r.pc = "load" /\ r.tab = b /\ r.form = NoRequest.form
      BY <3>1 DEF NoRequest
    <3> QED
      BY <1>4, <3>2, NothingTypes, CatalogFacts DEF View
  <2>2. /\ tab'[b].rows = tab[b].rows /\ tab'[b].version = tab[b].version
        /\ tab'[b].form = NoForm /\ tab[b].form = NoForm
    BY <1>4, CatalogFacts DEF View, TabType
  <2>3. TabFollows(b)'
    BY <1>1, <1>3, <2>1, <2>2 DEF OwnPage, TabFollows, Of
  <2>4. FormFollows(b)'
    BY <1>3, <2>1, <2>2, NothingTypes, CatalogFacts DEF OwnPage, FormFollows, Of
  <2> QED
    BY <1>1, <1>3, <2>1, <2>3, <2>4 DEF OwnPage
<1>5. CASE Answered(k)
  <2>1. /\ r = [req[k] EXCEPT !.pc = "load"] /\ req[k].pc = "answered" /\ req[k].tab = b
        /\ catalogPast' = catalogPast
    BY <1>3, <1>5, CatalogFacts DEF Answered, OwnPage
  <2>2. r.pc = "load" /\ r.tab = b
    BY <2>1, CatalogFacts DEF ReqType
  <2>3. /\ tab'[b].rows = tab[b].rows /\ tab'[b].version = tab[b].version
        /\ tab'[b].form = IF req[k].op = "edit" THEN NoForm ELSE tab[b].form
    BY <1>5, <2>1, CatalogFacts DEF Answered, TabType
  <2>4. TabFollows(b)'
    <3>1. k \in Of(b)' /\ req'[k].pc = "load"
      BY <1>3, <2>2 DEF Of
    <3>2. \A j \in Of(b)' : j = k \/ (j \in Of(b) /\ req'[j] = req[j])
      BY <1>3 DEF Of
    <3> QED
      BY <1>1, <2>1, <2>3, <3>1, <3>2 DEF OwnPage, TabFollows
  <2>5. ~tab'[b].form.calm
    BY <2>1, <2>3, CalmForm, NothingTypes, CatalogFacts DEF Of
  <2>6. \A j \in Of(b) : ~(req[j].pc \in {"sent", "checked"} /\ req[j].form.calm)
    BY <2>1, CalmForm DEF Of
  <2>7. FormFollows(b)'
    BY <1>3, <2>2, <2>5, <2>6 DEF FormFollows, Of
  <2> QED
    BY <1>1, <1>3, <2>2, <2>4, <2>7 DEF OwnPage
<1>6. CASE FindAllByTenant(k)
  <2>1. /\ r = [req[k] EXCEPT !.pc = "listed", !.rows = Listed, !.version = catalogPast.writes]
        /\ req[k].pc = "load" /\ req[k].tab = b /\ catalogPast' = catalogPast /\ tab' = tab
    BY <1>3, <1>6, CatalogFacts DEF FindAllByTenant, OwnPage
  <2>2. r.pc = "listed" /\ r.tab = b /\ r.rows = Listed /\ r.version = catalogPast.writes
    BY <2>1, CatalogFacts DEF ReqType
  <2>3. TabFollows(b)'
    <3>1. /\ k \in Of(b)' /\ req'[k].pc = "listed" /\ req'[k].rows = Listed
          /\ req'[k].version = catalogPast.writes
      BY <1>3, <2>2 DEF Of
    <3>2. \A j \in Of(b)' : j = k \/ (j \in Of(b) /\ req'[j] = req[j])
      BY <1>3 DEF Of
    <3> QED
      BY <1>1, <2>1, <3>1, <3>2 DEF OwnPage, TabFollows
  <2>4. ~tab[b].form.calm
    BY <2>1, CalmForm DEF Of
  <2>5. \A j \in Of(b) : ~(req[j].pc \in {"sent", "checked"} /\ req[j].form.calm)
    BY <2>4, CalmForm
  <2>6. FormFollows(b)'
    BY <1>3, <2>1, <2>2, <2>4, <2>5 DEF FormFollows, Of
  <2>7. \A j \in Requests : req'[j].pc # "idle" => req'[j].tab = b
    BY <1>3, <2>2 DEF OwnPage
  <2> QED
    BY <1>1, <2>3, <2>6, <2>7 DEF OwnPage
<1>7. CASE TableArrives(k)
  <2>1. /\ r = NoRequest /\ req[k].pc = "listed" /\ req[k].tab = b
    BY <1>3, <1>7, CatalogFacts DEF TableArrives, OwnPage
  <2>2. /\ tab'[b].rows = req[k].rows /\ tab'[b].version = req[k].version
        /\ tab'[b].form = tab[b].form
    BY <1>7, <2>1, CatalogFacts DEF TableArrives, TabType
  <2>3. catalogPast'.newest[b] = IF catalogPast.newest[b] < req[k].version THEN req[k].version
                                 ELSE catalogPast.newest[b]
    BY <1>7, <2>1, CatalogFacts DEF TableArrives, CatalogPastType
  <2>4. /\ req[k].version \in Nat /\ catalogPast.newest[b] \in Nat
        /\ req[k].version <= catalogPast.writes
    BY CatalogFacts, SceneFacts DEF CatalogPastType, ReqType, RequestFits, Writes
  <2>5. r.pc = "idle" /\ r.tab = NoItem
    BY <2>1, NothingTypes, CatalogFacts
  <2>6. TabFollows(b)'
    BY <1>1, <1>3, <2>1, <2>2, <2>3, <2>4, <2>5 DEF OwnPage, TabFollows, Of
  <2>7. ~tab[b].form.calm
    BY <2>1, CalmForm DEF Of
  <2>8. \A j \in Of(b) : ~(req[j].pc \in {"sent", "checked"} /\ req[j].form.calm)
    BY <2>7, CalmForm
  <2>9. FormFollows(b)'
    BY <1>1, <1>3, <2>2, <2>5, <2>7, <2>8 DEF FormFollows, Of
  <2> QED
    BY <1>1, <1>3, <2>5, <2>6, <2>9 DEF OwnPage
<1> QED
  BY <1>4, <1>5, <1>6, <1>7

\* The server: nothing is refused, or something has failed.
LEMMA EnsureExistsKeepsPage ==
    ASSUME CatalogTypes, scene' = scene, NEW b \in Tabs, OwnPage(b), NEW k \in Requests,
           EnsureExists(k), ~catalogPast'.failed
    PROVE  OwnPage(b)'
<1>1. req[k].pc = "sent" /\ req[k].tab = b /\ b # NoItem
  BY CatalogAssumption DEF EnsureExists, OwnPage, CatalogAssumption
<1>2. ~Refuse(k)
  BY <1>1, CatalogFacts DEF Refuse, CatalogPastType
<1> DEFINE r == [req[k] EXCEPT !.pc = "checked"]
<1>3. req' = [req EXCEPT ![k] = r] /\ UNCHANGED <<table, tab, catalogPast>>
  BY <1>2 DEF EnsureExists
<1>4. r.pc = "checked" /\ r.tab = b /\ r.form = req[k].form /\ r.op = req[k].op
  BY <1>1, CatalogFacts DEF ReqType
<1> HIDE DEF r
<1>5. req'[k] = r /\ \A j \in Requests \ {k} : req'[j] = req[j]
  BY <1>3, Moved
<1>6. Listed' = Listed
  BY <1>3, ListedStays
<1>7. TabFollows(b)'
  BY <1>1, <1>3, <1>4, <1>5, <1>6 DEF OwnPage, TabFollows, Of
<1>8. FormFollows(b)'
  BY <1>1, <1>3, <1>4, <1>5 DEF OwnPage, FormFollows, Of
<1> QED
  BY <1>3, <1>4, <1>5, <1>7, <1>8 DEF OwnPage

LEMMA WriteKeepsPage ==
    ASSUME CatalogTypes, scene' = scene, NEW b \in Tabs, OwnPage(b), NEW k \in Requests,
           NEW i \in Items, Write(k, i), ~catalogPast'.failed
    PROVE  OwnPage(b)'
<1>1. /\ req[k].pc \in {"sent", "checked"} /\ req[k].tab = b /\ b # NoItem
      /\ req[k].op # "add" => i = req[k].item
  BY CatalogAssumption DEF Write, OwnPage, CatalogAssumption
<1>2. ~Refuse(k)
  BY <1>1, CatalogFacts DEF Refuse, CatalogPastType
<1>3. Writing(k, i)
  BY <1>2, WriteFacts
<1> DEFINE n == catalogPast.writes + 1
           r == [req[k] EXCEPT !.pc = "written", !.version = n, !.touched = {}, !.form = NoForm]
<1>4. /\ req' = [req EXCEPT ![k] = r] /\ tab' = tab /\ catalogPast'.writes = n
      /\ catalogPast'.newest = catalogPast.newest /\ n \in Nat /\ catalogPast.writes \in Nat
      /\ n > catalogPast.writes
  BY <1>3, CatalogFacts DEF Writing
<1>5. r.pc = "written" /\ r.tab = b /\ r.op = req[k].op /\ r.version = n
  BY <1>1, CatalogFacts DEF ReqType
<1> HIDE DEF r, n
<1>6. req'[k] = r /\ \A j \in Requests \ {k} : req'[j] = req[j]
  BY <1>4, Moved
<1>7. /\ tab[b].version < n /\ catalogPast.newest[b] <= n
      /\ \A j \in Requests : req[j].version < n
  <2>1. \A j \in Requests : req[j].version \in Nat /\ req[j].version <= catalogPast.writes
    BY NumbersOfAnswers, CatalogFacts DEF RequestFits
  <2>2. tab[b].version \in Nat /\ tab[b].version <= catalogPast.writes
    BY CatalogFacts, SceneFacts DEF CatalogTypes, TabsFit, TabType, Writes
  <2>3. catalogPast.newest[b] \in Nat /\ catalogPast.newest[b] <= catalogPast.writes
    BY CatalogFacts, SceneFacts DEF CatalogPastType, Writes, OwnPage, TabFollows
  <2> QED
    BY <1>4, <2>1, <2>2, <2>3
<1>8. TabFollows(b)'
  <2>1. tab'[b].version # catalogPast'.writes /\ catalogPast'.newest[b] <= catalogPast'.writes
    BY <1>4, <1>7
  <2>2. \A j \in Of(b)' : ~(req'[j].pc = "listed" /\ req'[j].version = catalogPast'.writes)
    BY <1>4, <1>5, <1>6, <1>7 DEF Of
  <2>3. k \in Of(b)' /\ req'[k].pc = "written"
    BY <1>5, <1>6 DEF Of
  <2> QED
    BY <2>1, <2>2, <2>3 DEF TabFollows
<1>9. FormFollows(b)'
  <2>1. tab[b].form.calm => \A j \in Of(b) : j = k
    BY <1>1, CalmForm DEF Of
  <2>2. Of(b)' = Of(b) /\ k \in Of(b)
    BY <1>1, <1>5, <1>6 DEF Of
  <2>3. tab'[b].form.calm =>
            /\ \A j, g \in Of(b)' : j = g
            /\ \A g \in Of(b)' : req'[g].op = "edit" /\ req'[g].pc = "written"
    BY <1>4, <1>5, <1>6, <2>1, <2>2, CalmForm
  <2>4. \A j \in Of(b)' : req'[j].pc \in {"sent", "checked"} /\ req'[j].form.calm =>
                              req'[j].form = tab'[b].form
    BY <1>4, <1>5, <1>6, <2>2, CalmForm
  <2> QED
    BY <2>2, <2>3, <2>4 DEF FormFollows
<1>10. ~catalogPast'.blind[i]
  <2>1. SUFFICES ASSUME req[k].form # NoForm, req[k].form.calm PROVE req[k].form.text = table[i].text
    BY <1>3 DEF Writing, OwnPage
  <2>2. k \in Of(b)
    BY <1>1 DEF Of
  <2>3. req[k].form = tab[b].form /\ tab[b].form.calm /\ \A j \in Of(b) : j = k
    BY <1>1, <2>1, <2>2, CalmForm
  <2>4. req[k].form.text = table[req[k].form.item].text
    BY <1>1, <2>3 DEF OwnPage, FormFollows
  <2>5. req[k].form.item = i
    BY <1>1, <2>1, CatalogFacts DEF RequestFits, AsksFor
  <2> QED
    BY <2>4, <2>5
<1>11. \A j \in Items : ~catalogPast'.blind[j]
  BY <1>3, <1>10 DEF Writing, OwnPage
<1> QED
  BY <1>5, <1>6, <1>8, <1>9, <1>11 DEF OwnPage

LEMMA DelKeyKeepsPage ==
    ASSUME CatalogTypes, scene' = scene, NEW b \in Tabs, OwnPage(b), NEW k \in Requests,
           DelKey(k)
    PROVE  OwnPage(b)'
<1>1. req[k].pc = "written" /\ req[k].tab = b /\ b # NoItem
  BY CatalogAssumption DEF DelKey, OwnPage, CatalogAssumption
<1> DEFINE r == [req[k] EXCEPT !.pc = "answered", !.version = 0]
<1>2. req' = [req EXCEPT ![k] = r] /\ UNCHANGED <<table, tab>>
  BY <1>1 DEF DelKey, Done
<1>3. r.pc = "answered" /\ r.tab = b /\ r.op = req[k].op
  BY <1>1, CatalogFacts DEF ReqType
<1> HIDE DEF r
<1>4. req'[k] = r /\ \A j \in Requests \ {k} : req'[j] = req[j]
  BY <1>2, Moved
<1>5. /\ catalogPast'.writes = catalogPast.writes /\ catalogPast'.newest = catalogPast.newest
      /\ catalogPast'.blind = catalogPast.blind /\ Listed' = Listed
  BY <1>2, CatalogFacts, ListedStays DEF DelKey, Dropped, CatalogPastType
<1>6. TabFollows(b)'
  BY <1>1, <1>2, <1>3, <1>4, <1>5 DEF OwnPage, TabFollows, Of
<1>7. FormFollows(b)'
  BY <1>1, <1>2, <1>3, <1>4 DEF OwnPage, FormFollows, Of
<1> QED
  BY <1>3, <1>4, <1>5, <1>6, <1>7 DEF OwnPage


\* Nothing happens to the page.
LEMMA PageStays ==
    ASSUME NEW b \in Tabs, OwnPage(b), UNCHANGED <<table, req, tab, catalogPast>>
    PROVE  OwnPage(b)'
  BY ListedStays DEF OwnPage, TabFollows, FormFollows, Of

LEMMA OwnEditsStep ==
    CatalogTypes /\ OwnEdits /\ [CatalogNext]_catalogVars => OwnEdits'
<1> SUFFICES ASSUME CatalogTypes, OwnEdits, [CatalogNext]_catalogVars,
                    NEW b \in Tabs, Alone(b)'
             PROVE  OwnPage(b)'
  BY DEF OwnEdits
<1>1. CASE UNCHANGED catalogVars
  BY <1>1, PageStays DEF catalogVars, OwnEdits, Alone
<1>2. CASE CatalogNext
  <2>1. /\ scene' = scene /\ CatalogStep /\ scene.items \subseteq Items
        /\ scene.fields \subseteq Fields /\ scene.askers \subseteq Askers
        /\ ~catalogPast'.failed /\ ~catalogPast'.foreign /\ scene.tabs = {b}
    BY <1>2, CatalogFacts, SceneFacts DEF CatalogNext, Alone
  <2>2. Alone(b) \/ catalogPast.failed \/ catalogPast.foreign
    BY <2>1 DEF Alone
  <2>3. (catalogPast.failed => catalogPast'.failed) /\ (catalogPast.foreign => catalogPast'.foreign)
    <3>1. catalogPast \in CatalogPastType
      BY CatalogFacts
    <3>2. ASSUME NEW k \in Requests, Tabwork(k) \/ EnsureExists(k) \/ DelKey(k) \/ RequestFails(k)
          PROVE  (catalogPast.failed => catalogPast'.failed) /\ (catalogPast.foreign => catalogPast'.foreign)
      BY <3>1, <3>2
      DEF Tabwork, Answered, FindAllByTenant, TableArrives, EnsureExists, Refuse, DelKey, Dropped,
          RequestFails, CatalogPastType
    <3>3. ASSUME NEW k \in Requests, NEW i \in Items, Write(k, i)
          PROVE  (catalogPast.failed => catalogPast'.failed) /\ (catalogPast.foreign => catalogPast'.foreign)
      BY <3>1, <3>3, WriteFacts DEF Writing, Refuse, CatalogPastType
    <3>4. ASSUME NEW k \in Requests, NEW op \in Operations, NEW i \in scene.items \cup {NoItem},
                 NEW touched \in SUBSET scene.fields, ApiCall(k, op, i, touched)
          PROVE  catalogPast'.foreign /\ catalogPast'.failed = catalogPast.failed
      BY <3>1, <3>4 DEF ApiCall, CatalogPastType
    <3>5. \/ \E k \in Requests : Tabwork(k) \/ EnsureExists(k) \/ DelKey(k) \/ RequestFails(k)
          \/ \E k \in Requests, i \in Items : Write(k, i)
          \/ \E k \in Requests, op \in Operations, i \in scene.items \cup {NoItem},
                touched \in SUBSET scene.fields : ApiCall(k, op, i, touched)
          \/ catalogPast' = catalogPast
      BY <2>1
      DEF CatalogStep, Service, Submit, View, SaveEdit, Delete, CloseEdit, OpenEdit, CacheGet,
          Answer, FindMany, CacheSet, Expire
    <3> QED
      BY <3>2, <3>3, <3>4, <3>5
  <2>4. OwnPage(b)
    BY <2>1, <2>2, <2>3 DEF OwnEdits
  <2>5. ASSUME NEW k \in Requests, Tabwork(k) \/ Service(k) PROVE OwnPage(b)'
    BY <2>1, <2>4, <2>5, ReadingKeepsPage, EnsureExistsKeepsPage, WriteKeepsPage, DelKeyKeepsPage
    DEF Tabwork, Service
  <2>6. ASSUME NEW k \in Requests, RequestFails(k) PROVE FALSE
    BY <2>1, <2>6, CatalogFacts DEF RequestFails, CatalogPastType
  <2>7. ASSUME NEW k \in Requests,
               \/ Submit(k, b)
               \/ View(k, b)
               \/ \E touched \in SUBSET Fields : SaveEdit(k, b, touched)
               \/ \E i \in Items : Delete(k, b, i)
        PROVE  OwnPage(b)'
    BY <2>1, <2>4, <2>7, AgentSendsKeepsPage, ReadingKeepsPage
  <2>8. ASSUME NEW k \in Requests, NEW op \in Operations, NEW i \in scene.items \cup {NoItem},
               NEW touched \in SUBSET scene.fields, ApiCall(k, op, i, touched)
        PROVE  FALSE
    BY <2>1, <2>8, CatalogFacts DEF ApiCall, CatalogPastType
  <2>9. ASSUME CloseEdit(b) \/ \E i \in Items : OpenEdit(b, i) PROVE OwnPage(b)'
    BY <2>1, <2>4, <2>9, FormKeepsPage
  <2>10. ASSUME Expire \/ \E m \in scene.askers : CacheGet(m) \/ Answer(m) PROVE OwnPage(b)'
    BY <2>4, <2>10, PageStays DEF Expire, CacheGet, Answer, FindMany, CacheSet
  <2>11. \A touched \in SUBSET scene.fields : touched \in SUBSET Fields
    BY <2>1
  <2> QED
    BY <2>1, <2>5, <2>6, <2>7, <2>8, <2>9, <2>10, <2>11 DEF CatalogStep
<1> QED
  BY <1>1, <1>2

\* A field holds what was typed for it last unless a form was saved over it unseen, and
\* an agent alone on a quiet page never does that to himself.
THEOREM FormsAreSafe == CatalogSpec => []FormsSafe
<1>1. CatalogInit => WordsHold
  BY DEF CatalogInit, WordsHold, NoRow
<1>2. CatalogSpec => []WordsHold
  BY <1>1, CatalogTypesAlways, WordsStep, PTL DEF CatalogSpec
<1>3. CatalogSpec => []OwnEdits
  BY OwnPageInitially, CatalogTypesAlways, OwnEditsStep, PTL DEF CatalogSpec
<1>4. CatalogTypes /\ OwnEdits => OwnEditsKept
  <2>1. SUFFICES ASSUME CatalogTypes, OwnEdits, Cardinality(scene.tabs) = 1,
                        ~catalogPast.foreign, ~catalogPast.failed, NEW i \in Items
                 PROVE  ~catalogPast.blind[i]
    BY DEF OwnEditsKept
  <2>2. scene.tabs \subseteq Tabs /\ IsFiniteSet(scene.tabs)
    <3>1. scene.tabs \in SUBSET Tabs /\ IsFiniteSet(Tabs)
      BY <2>1, CatalogFacts, SceneFacts, CatalogAssumption DEF CatalogAssumption
    <3> QED
      BY <3>1, FS_Subset
  <2>3. PICK b : scene.tabs = {b}
    BY <2>1, <2>2, FS_Singleton
  <2> QED
    BY <2>1, <2>2, <2>3 DEF OwnEdits, Alone, OwnPage
<1>5. WordsHold /\ OwnEditsKept => FormsSafe
  BY DEF FormsSafe
<1> QED
  BY <1>2, <1>3, <1>4, <1>5, CatalogTypesAlways, PTL


-----------------------------------------------------------------------------
(* LiveThread: any conversations, openings, panel calls and bounds.         *)

\* An exchange is under way until its event has arrived or is lost.
UnderWay == unsent \cup Range(toClient)
IsSaved(m) == m[2] <= saved[m[1]]

\* Each is under way once, and what is under way or shown was saved.
OnceUnderWay ==
    /\ \A i, j \in DOMAIN toClient : toClient[i] = toClient[j] => i = j
    /\ \A i \in DOMAIN toClient : toClient[i] \notin unsent /\ IsSaved(toClient[i])
    /\ \A i \in DOMAIN screen.thread : IsSaved(screen.thread[i])

\* What is under way and shown, or in an answer that will be, was read early.
ReadEarly ==
    /\ TwiceOnlyIfReadEarly
    /\ \A i \in DOMAIN screen.thread :
           screen.thread[i] \in UnderWay => screen.thread[i] \in past.early
    /\ \A k \in Calls : call[k].pc = "answered" =>
           \A n \in 1..call[k].rows :
               <<call[k].conv, n>> \in UnderWay => <<call[k].conv, n>> \in past.early

\* An exchange is in the thread, under way, known to be missed, or an opening will read
\* it or has read it.
Explained(c, n) ==
    \/ <<c, n>> \in Range(screen.thread) \cup UnderWay \cup past.missed
    \/ \E k \in Openings : /\ call[k].conv = c
                           /\ \/ call[k].pc = "messages"
                              \/ call[k].pc = "answered" /\ n <= call[k].rows
AllExplained ==
    screen.selected # None /\ screen.selected = screen.ref /\ ~past.crossed =>
        \A n \in 1..saved[screen.ref] : Explained(screen.ref, n)

\* The last word to the gateway about a conversation is a join.
JoinOf(c) == [event |-> "join", conv |-> c]
LeaveOf(c) == [event |-> "leave", conv |-> c]
JoinIsLast(c) ==
    \/ \E i \in DOMAIN toServer :
           /\ toServer[i] = JoinOf(c)
           /\ \A j \in DOMAIN toServer : j > i => toServer[j] # LeaveOf(c)
    \/ /\ c \in socket.rooms \cup socket.joining
       /\ \A j \in DOMAIN toServer : toServer[j] # LeaveOf(c)
JoinsFollow ==
    /\ screen.selected # None /\ screen.selected = screen.ref
    /\ ~past.dropped /\ screen.ref \notin past.unjoined
    =>
        \/ \E k \in Openings : call[k].pc # "idle" /\ call[k].conv = screen.ref
        \/ JoinIsLast(screen.ref)


LEMMA AppendFacts ==
    ASSUME NEW S, NEW s \in Seq(S), NEW e \in S
    PROVE  /\ Append(s, e) \in Seq(S) /\ Range(Append(s, e)) = Range(s) \cup {e}
           /\ DOMAIN Append(s, e) = DOMAIN s \cup {Len(s) + 1}
           /\ Append(s, e)[Len(s) + 1] = e
           /\ \A i \in DOMAIN s : Append(s, e)[i] = s[i] /\ i < Len(s) + 1 /\ i # Len(s) + 1
<1>1. /\ Append(s, e) \in Seq(S) /\ DOMAIN Append(s, e) = DOMAIN s \cup {Len(s) + 1}
      /\ Append(s, e)[Len(s) + 1] = e
      /\ \A i \in DOMAIN s : Append(s, e)[i] = s[i] /\ i < Len(s) + 1 /\ i # Len(s) + 1
  OBVIOUS
<1> QED
  BY <1>1 DEF Range

LEMMA TailFacts ==
    ASSUME NEW S, NEW s \in Seq(S), s # <<>>
    PROVE  /\ Head(s) \in S /\ Tail(s) \in Seq(S)
           /\ Range(s) = Range(Tail(s)) \cup {Head(s)}
           /\ 1 \in DOMAIN s /\ Head(s) = s[1]
           /\ \A i \in DOMAIN Tail(s) : i \in Nat /\ i + 1 \in DOMAIN s /\ Tail(s)[i] = s[i + 1]
           /\ \A i \in DOMAIN s : i \in Nat /\ (i = 1 \/ (i - 1 \in DOMAIN Tail(s) /\ Tail(s)[i - 1] = s[i]))
<1>1. /\ Head(s) \in S /\ Tail(s) \in Seq(S) /\ 1 \in DOMAIN s /\ Head(s) = s[1]
      /\ \A i \in DOMAIN Tail(s) : i \in Nat /\ i + 1 \in DOMAIN s /\ Tail(s)[i] = s[i + 1]
      /\ \A i \in DOMAIN s : i \in Nat /\ (i = 1 \/ (i - 1 \in DOMAIN Tail(s) /\ Tail(s)[i - 1] = s[i]))
  OBVIOUS
<1>2. ASSUME NEW x \in Range(s) PROVE x \in Range(Tail(s)) \cup {Head(s)}
  <2>1. PICK i \in DOMAIN s : x = s[i]
    BY <1>2 DEF Range
  <2>2. CASE i = 1
    BY <1>1, <2>1, <2>2
  <2>3. CASE i # 1
    <3>1. i - 1 \in DOMAIN Tail(s) /\ Tail(s)[i - 1] = x
      BY <1>1, <2>1, <2>3
    <3> QED
      BY <3>1 DEF Range
  <2> QED
    BY <2>2, <2>3
<1>3. ASSUME NEW x \in Range(Tail(s)) PROVE x \in Range(s)
  BY <1>1, <1>3 DEF Range
<1>4. Head(s) \in Range(s)
  BY <1>1 DEF Range
<1> QED
  BY <1>1, <1>2, <1>3, <1>4

LEMMA RowsFacts ==
    ASSUME NEW c \in Convs, NEW n \in Nat, n <= MaxExchanges
    PROVE  /\ Rows(c, n) \in Seq(Exchanges) /\ DOMAIN Rows(c, n) = 1..n
           /\ \A i \in 1..n : Rows(c, n)[i] = <<c, i>>
           /\ Range(Rows(c, n)) = {<<c, i>> : i \in 1..n}
<1>1. \A i \in 1..n : <<c, i>> \in Exchanges
  BY LiveAssumption DEF Exchanges, LiveAssumption
<1> QED
  BY <1>1 DEF Rows, Range

LEMMA LiveFacts ==
    ASSUME LiveTypeOK
    PROVE  /\ \A k \in Calls : /\ call[k] \in CallType /\ call[k].rows \in Nat
                               /\ call[k].pc # "idle" => call[k].conv \in Convs
           /\ \A c \in Convs : saved[c] \in Nat /\ saved[c] <= MaxExchanges
           /\ \A m \in Exchanges : m[1] \in Convs /\ m[2] \in Nat /\ m = <<m[1], m[2]>>
           /\ Openings \subseteq Calls /\ PanelCalls \subseteq Calls
           /\ DOMAIN call = Calls /\ DOMAIN saved = Convs
           /\ screen \in ScreenType /\ past.early \subseteq Exchanges /\ past.missed \subseteq Exchanges
<1>1. \A c \in Convs : saved[c] \in Nat /\ saved[c] <= MaxExchanges
  BY LiveAssumption DEF LiveTypeOK, LiveAssumption
<1>2. \A m \in Exchanges : m[1] \in Convs /\ m[2] \in Nat /\ m = <<m[1], m[2]>>
  BY LiveAssumption DEF Exchanges, LiveAssumption
<1>3. \A k \in Calls : /\ call[k] \in CallType /\ call[k].rows \in Nat
                       /\ call[k].pc # "idle" => call[k].conv \in Convs
  BY DEF LiveTypeOK, CallType, Shown
<1> QED
  BY <1>1, <1>2, <1>3 DEF LiveTypeOK, Calls


\* ---- types

LEMMA LiveTypesInitially == LiveInit => LiveTypeOK
<1> SUFFICES ASSUME LiveInit PROVE LiveTypeOK
  OBVIOUS
<1>1. saved \in [Convs -> 0..MaxExchanges] /\ unsent \subseteq Exchanges
  BY LiveAssumption DEF LiveInit, LiveAssumption
<1>2. screen \in ScreenType
  BY DEF LiveInit, NoScreen, ScreenType, Shown
<1>3. call \in [Calls -> CallType] /\ \A k \in Calls : call[k].pc = "idle"
  BY DEF LiveInit, NoCall, CallType, Shown
<1>4. socket \in SocketType /\ toServer \in Seq(EventType) /\ toClient \in Seq(Exchanges)
  BY DEF LiveInit, SocketType
<1>5. past \in [early : SUBSET Exchanges, missed : SUBSET Exchanges,
                crossed : BOOLEAN, dropped : BOOLEAN, unjoined : SUBSET Convs]
  BY DEF LiveInit
<1> QED
  BY <1>1, <1>2, <1>3, <1>4, <1>5 DEF LiveTypeOK, LiveInit

PastType ==
    [early : SUBSET Exchanges, missed : SUBSET Exchanges, crossed : BOOLEAN, dropped : BOOLEAN,
     unjoined : SUBSET Convs]

\* One call changes, the database does not.
LEMMA CallKeepsTypes ==
    ASSUME LiveTypeOK, NEW k \in Calls, NEW r \in CallType, call' = [call EXCEPT ![k] = r],
           r.pc # "idle" => r.conv # None,
           r.pc = "answered" => r.rows <= saved[r.conv],
           UNCHANGED <<saved, unsent, toClient>>,
           screen' \in ScreenType, socket' \in SocketType, toServer' \in Seq(EventType),
           past' \in PastType
    PROVE  LiveTypeOK'
  BY DEF LiveTypeOK, PastType

\* What a step does to the past keeps its type.
LEMMA PastTypes ==
    ASSUME LiveTypeOK
    PROVE  /\ past \in PastType /\ Fresh \in PastType
           /\ Fresh.early = past.early /\ Fresh.missed = past.missed /\ ~Fresh.crossed /\ ~Fresh.dropped
           /\ \A c \in Convs : /\ Crosses(c) \in PastType
                               /\ Crosses(c).early = past.early /\ Crosses(c).missed = past.missed
                               /\ (Crosses(c).crossed <=> past.crossed \/ screen.ref # c)
                               /\ (Crosses(c).dropped <=> past.dropped)
                               /\ Crosses(c).unjoined = past.unjoined
           /\ \A q \in SUBSET Exchanges :
                  /\ [past EXCEPT !.missed = @ \cup q] \in PastType
                  /\ [past EXCEPT !.dropped = TRUE, !.missed = @ \cup q] \in PastType
           /\ \A c \in Convs, q \in SUBSET Exchanges :
                  [Crosses(c) EXCEPT !.missed = @ \cup q] \in PastType
           /\ \A q \in SUBSET Exchanges, d \in SUBSET Exchanges :
                  [past EXCEPT !.early = @ \cup q, !.missed = d] \in PastType
           /\ \A c \in Convs : [Crosses(c) EXCEPT !.unjoined = @ \ {c}] \in PastType
<1>1. past \in PastType
  BY DEF LiveTypeOK, PastType
<1>2. ASSUME NEW c \in Convs
      PROVE  /\ Crosses(c) \in PastType
             /\ Crosses(c).early = past.early /\ Crosses(c).missed = past.missed
             /\ (Crosses(c).crossed <=> past.crossed \/ screen.ref # c)
             /\ (Crosses(c).dropped <=> past.dropped)
             /\ Crosses(c).unjoined = past.unjoined
  <2> DEFINE x == past.crossed \/ screen.ref # c
  <2>1. x \in BOOLEAN /\ Crosses(c) = [past EXCEPT !.crossed = x]
    BY <1>1 DEF PastType, Crosses
  <2> HIDE DEF x
  <2>2. /\ Crosses(c) \in PastType
        /\ Crosses(c).early = past.early /\ Crosses(c).missed = past.missed
        /\ (Crosses(c).crossed <=> x)
        /\ (Crosses(c).dropped <=> past.dropped)
        /\ Crosses(c).unjoined = past.unjoined
    BY <1>1, <2>1 DEF PastType
  <2> QED
    BY <2>2 DEF x
<1>3. /\ \A c \in Convs, q \in SUBSET Exchanges :
             [Crosses(c) EXCEPT !.missed = @ \cup q] \in PastType
      /\ \A c \in Convs : [Crosses(c) EXCEPT !.unjoined = @ \ {c}] \in PastType
  BY <1>2 DEF PastType
<1>4. /\ Fresh \in PastType
      /\ Fresh.early = past.early /\ Fresh.missed = past.missed /\ ~Fresh.crossed /\ ~Fresh.dropped
  BY <1>1 DEF PastType, Fresh
<1>5. /\ \A q \in SUBSET Exchanges :
            /\ [past EXCEPT !.missed = @ \cup q] \in PastType
            /\ [past EXCEPT !.dropped = TRUE, !.missed = @ \cup q] \in PastType
      /\ \A q \in SUBSET Exchanges, d \in SUBSET Exchanges :
            [past EXCEPT !.early = @ \cup q, !.missed = d] \in PastType
  BY <1>1 DEF PastType
<1> QED
  BY <1>1, <1>2, <1>3, <1>4, <1>5

LEMMA ServerKeepsTypes ==
    ASSUME LiveTypeOK,
           (\E c \in Convs : SaveExchange(c)) \/ (\E m \in unsent : EmitNewMessage(m))
    PROVE  LiveTypeOK'
<1>1. ASSUME NEW c \in Convs, SaveExchange(c) PROVE LiveTypeOK'
  <2>1. /\ saved[c] \in Nat /\ saved[c] + 1 \in 0..MaxExchanges /\ saved[c] + 1 \in 1..MaxExchanges
        /\ MaxExchanges \in Nat
    BY <1>1, LiveFacts, LiveAssumption DEF SaveExchange, LiveAssumption
  <2>2. /\ saved' \in [Convs -> 0..MaxExchanges]
        /\ \A d \in Convs : saved[d] \in Nat /\ saved'[d] \in Nat /\ saved[d] <= saved'[d]
        /\ saved'[c] = saved[c] + 1
    BY <1>1, <2>1, LiveFacts DEF SaveExchange, LiveTypeOK
  <2>3. <<c, saved[c] + 1>> \in Exchanges
    BY <2>1 DEF Exchanges
  <2>4. unsent' \subseteq Exchanges
    BY <1>1, <2>3 DEF SaveExchange, LiveTypeOK
  <2>5. \A m \in unsent' : m[2] <= saved'[m[1]]
    <3>1. ASSUME NEW m \in unsent PROVE m[2] <= saved'[m[1]]
      <4>1. m \in Exchanges /\ m[2] <= saved[m[1]]
        BY DEF LiveTypeOK
      <4> QED
        BY <2>2, <4>1, LiveFacts
    <3> QED
      BY <1>1, <2>1, <2>2, <3>1 DEF SaveExchange
  <2>6. ASSUME NEW k \in Calls, call'[k].pc = "answered" PROVE call'[k].rows <= saved'[call'[k].conv]
    <3>1. call[k].rows <= saved[call[k].conv] /\ call[k].conv \in Convs /\ call[k].rows \in Nat
      BY <1>1, <2>6, LiveFacts DEF LiveTypeOK, SaveExchange
    <3> QED
      BY <1>1, <2>2, <3>1 DEF SaveExchange
  <2> QED
    BY <1>1, <2>2, <2>4, <2>5, <2>6 DEF LiveTypeOK, SaveExchange
<1>2. ASSUME NEW m \in unsent, EmitNewMessage(m) PROVE LiveTypeOK'
  <2>1. m \in Exchanges /\ toClient \in Seq(Exchanges)
    BY DEF LiveTypeOK
  <2>2. toClient' \in Seq(Exchanges)
    BY <1>2, <2>1, AppendFacts DEF EmitNewMessage
  <2>3. past' \in PastType
    <3>1. {m} \in SUBSET Exchanges /\ past \in PastType
      BY <2>1, PastTypes
    <3>2. past' = past \/ past' = [past EXCEPT !.missed = @ \cup {m}]
      BY <1>2 DEF EmitNewMessage
    <3> QED
      BY <3>1, <3>2, PastTypes
  <2> QED
    BY <1>2, <2>1, <2>2, <2>3 DEF LiveTypeOK, EmitNewMessage, PastType
<1> QED
  BY <1>1, <1>2

LEMMA OpeningKeepsTypes ==
    ASSUME LiveTypeOK, NEW k \in Openings, OpeningStep(k) PROVE LiveTypeOK'
<1>1. /\ k \in Calls /\ call[k] \in CallType /\ (call[k].pc # "idle" => call[k].conv \in Convs)
      /\ screen \in ScreenType /\ socket \in SocketType /\ toServer \in Seq(EventType)
      /\ past \in PastType /\ NoCall \in CallType /\ NoCall.pc = "idle"
      /\ \A c \in Convs : c # None /\ c \in Shown
  BY LiveFacts, PastTypes, LiveAssumption
  DEF LiveTypeOK, NoCall, CallType, Shown, LiveAssumption
<1>2. ASSUME NEW c \in Convs, OpenConversation(k, c) PROVE LiveTypeOK'
  <2> DEFINE r == [pc |-> "messages", conv |-> c, rows |-> 0]
  <2>1. r \in CallType /\ r.pc = "messages" /\ r.conv = c
    BY <1>1 DEF CallType, Opening
  <2>2. screen' \in ScreenType
    <3>1. NoScreen \in ScreenType
      BY DEF NoScreen, ScreenType, Shown
    <3> QED
      BY <1>1, <1>2, <3>1 DEF OpenConversation, ScreenType
  <2>3. call' = [call EXCEPT ![k] = r]
    BY <1>2 DEF OpenConversation
  <2>4. past' \in PastType /\ UNCHANGED <<saved, unsent, socket, toServer, toClient>>
    BY <1>2, PastTypes DEF OpenConversation
  <2> HIDE DEF r
  <2> QED
    BY <1>1, <2>1, <2>2, <2>3, <2>4, CallKeepsTypes
<1>3. CASE FindMessagesForConversation(k)
  <2> DEFINE c == call[k].conv
             r == [call[k] EXCEPT !.pc = "answered", !.rows = saved[c]]
  <2>1. call[k].pc = "messages" /\ c \in Convs /\ saved[c] \in Nat
    BY <1>1, <1>3, LiveFacts DEF FindMessagesForConversation
  <2>2. r \in CallType /\ r.pc = "answered" /\ r.conv = c /\ r.rows = saved[c]
    BY <1>1, <2>1 DEF CallType, Opening
  <2>3. call' = [call EXCEPT ![k] = r]
    BY <1>1, <1>3 DEF FindMessagesForConversation, LiveTypeOK
  <2>4. past' \in PastType
    <3> DEFINE q == {m \in unsent \cup Range(toClient) : m[1] = c}
               d == {m \in past.missed : m[1] # c}
    <3>1. q \in SUBSET Exchanges /\ d \in SUBSET Exchanges
      BY <1>1 DEF Range, LiveTypeOK
    <3>2. past' = [past EXCEPT !.early = @ \cup q, !.missed = d]
      BY <1>3 DEF FindMessagesForConversation
    <3> HIDE DEF q, d
    <3> QED
      BY <3>1, <3>2, PastTypes
  <2> HIDE DEF r
  <2>5. r.rows <= saved[r.conv]
    BY <2>1, <2>2
  <2> QED
    BY <1>1, <1>3, <2>1, <2>2, <2>3, <2>4, <2>5, CallKeepsTypes
    DEF FindMessagesForConversation
<1>4. CASE MessagesArrive(k)
  <2> DEFINE c == call[k].conv
             answer == Rows(c, call[k].rows)
             r == [call[k] EXCEPT !.pc = "stats", !.rows = 0]
             lost == Range(screen.thread) \ Range(answer)
  <2>1. /\ call[k].pc = "answered" /\ c \in Convs /\ call[k].rows \in Nat
        /\ call[k].rows <= MaxExchanges
    <3>1. call[k].pc = "answered" /\ c \in Convs /\ call[k].rows <= saved[c]
      BY <1>1, <1>4 DEF MessagesArrive, LiveTypeOK
    <3> QED
      BY <1>1, <3>1, LiveFacts, LiveAssumption DEF LiveAssumption
  <2>2. r \in CallType /\ r.pc = "stats" /\ r.conv = c
    BY <1>1, <2>1 DEF CallType, Opening
  <2>3. call' = [call EXCEPT ![k] = r]
    BY <1>1, <1>4 DEF MessagesArrive, LiveTypeOK
  <2>4. answer \in Seq(Exchanges)
    BY <2>1, RowsFacts
  <2>5. screen' \in ScreenType
    BY <1>1, <1>4, <2>4 DEF MessagesArrive, ScreenType
  <2>6. lost \in SUBSET Exchanges
    BY <1>1 DEF Range, ScreenType
  <2>7. past' = [Crosses(c) EXCEPT !.missed = @ \cup lost]
    BY <1>4 DEF MessagesArrive
  <2> HIDE DEF r, answer, lost
  <2>8. past' \in PastType
    BY <2>1, <2>6, <2>7, PastTypes
  <2> QED
    BY <1>1, <1>4, <2>1, <2>2, <2>3, <2>5, <2>8, CallKeepsTypes DEF MessagesArrive
<1>5. CASE StatsArrive(k)
  <2> DEFINE r == [call[k] EXCEPT !.pc = "recs"]
  <2>1. r \in CallType /\ r.pc = "recs" /\ r.conv = call[k].conv /\ call[k].conv \in Convs
    BY <1>1, <1>5 DEF CallType, Opening, StatsArrive
  <2>2. call' = [call EXCEPT ![k] = r]
    BY <1>1, <1>5 DEF StatsArrive, LiveTypeOK
  <2>3. screen' \in ScreenType
    BY <1>1, <1>5, <2>1 DEF StatsArrive, ScreenType
  <2>4. past' \in PastType
    BY <1>5, <2>1, PastTypes DEF StatsArrive
  <2> HIDE DEF r
  <2> QED
    BY <1>1, <1>5, <2>1, <2>2, <2>3, <2>4, CallKeepsTypes DEF StatsArrive
<1>6. CASE RecommendationsArrive(k)
  <2>1. call[k].conv \in Convs
    BY <1>1, <1>6 DEF RecommendationsArrive
  <2>2. toServer' \in Seq(EventType)
    BY <1>1, <1>6, <2>1, AppendFacts DEF RecommendationsArrive, Tell, EventType
  <2>3. screen' \in ScreenType
    BY <1>1, <1>6, <2>1 DEF RecommendationsArrive, ScreenType
  <2>4. past' \in PastType
    BY <1>6, <2>1, PastTypes DEF RecommendationsArrive
  <2> QED
    BY <1>1, <1>6, <2>1, <2>2, <2>3, <2>4, CallKeepsTypes DEF RecommendationsArrive
<1>7. CASE OpeningFails(k)
  <2>1. screen' \in ScreenType
    BY <1>1, <1>7 DEF OpeningFails, ScreenType, Shown
  <2> QED
    BY <1>1, <1>7, <2>1, CallKeepsTypes DEF OpeningFails
<1> QED
  BY <1>2, <1>3, <1>4, <1>5, <1>6, <1>7 DEF OpeningStep

LEMMA PanelKeepsTypes ==
    ASSUME LiveTypeOK, NEW k \in PanelCalls, PanelStep(k) PROVE LiveTypeOK'
<1>1. /\ k \in Calls /\ call[k] \in CallType /\ (call[k].pc # "idle" => call[k].conv \in Convs)
      /\ screen \in ScreenType /\ socket \in SocketType /\ toServer \in Seq(EventType)
      /\ past \in PastType /\ NoCall \in CallType /\ NoCall.pc = "idle"
      /\ \A c \in Convs : c # None /\ c \in Shown
  BY LiveFacts, PastTypes, LiveAssumption
  DEF LiveTypeOK, NoCall, CallType, Shown, LiveAssumption
<1>2. ASSUME NEW pc \in {"refresh", "search", "clear"}, Ask(k, pc), screen' \in ScreenType
      PROVE  LiveTypeOK'
  <2> DEFINE r == [pc |-> pc, conv |-> screen.selected, rows |-> 0]
  <2>1. r \in CallType /\ r.pc = pc /\ r.conv = screen.selected
    BY <1>1 DEF CallType, ScreenType
  <2>2. call' = [call EXCEPT ![k] = r] /\ screen.selected # None
    BY <1>2 DEF Ask
  <2> HIDE DEF r
  <2> QED
    BY <1>1, <1>2, <2>1, <2>2, CallKeepsTypes DEF Ask
<1>3. CASE RefreshMemoryStats(k)
  <2>1. screen' \in ScreenType
    BY <1>1, <1>3 DEF RefreshMemoryStats, ScreenType
  <2> QED
    BY <1>2, <1>3, <2>1 DEF RefreshMemoryStats
<1>4. CASE SearchMemory(k)
  BY <1>1, <1>2, <1>4 DEF SearchMemory
<1>5. CASE ClearMemory(k)
  <2>1. screen' \in ScreenType
    BY <1>1, <1>5 DEF ClearMemory, ScreenType
  <2> QED
    BY <1>2, <1>5, <2>1 DEF ClearMemory
<1>6. CASE RefreshEnds(k)
  <2>1. call[k].conv \in Convs
    BY <1>1, <1>6 DEF RefreshEnds
  <2>2. screen' \in ScreenType
    BY <1>1, <1>6, <2>1 DEF RefreshEnds, ScreenType
  <2>3. past' \in PastType
    BY <1>1, <1>6, <2>1, PastTypes DEF RefreshEnds
  <2> QED
    BY <1>1, <1>6, <2>2, <2>3, CallKeepsTypes DEF RefreshEnds
<1>7. CASE SearchEnds(k)
  <2>1. call[k].conv \in Convs
    BY <1>1, <1>7 DEF SearchEnds
  <2>2. screen' \in ScreenType
    BY <1>1, <1>7, <2>1 DEF SearchEnds, ScreenType, Shown
  <2>3. past' \in PastType
    BY <1>1, <1>7, <2>1, PastTypes DEF SearchEnds
  <2> QED
    BY <1>1, <1>7, <2>2, <2>3, CallKeepsTypes DEF SearchEnds
<1>8. CASE ClearEnds(k)
  <2>1. screen' \in ScreenType
    <3>1. CASE screen' = [screen EXCEPT !.results = None, !.busy = @ \cup {"refresh"}]
      BY <1>1, <3>1 DEF ScreenType, Shown
    <3>2. CASE screen' = [screen EXCEPT !.busy = @ \ {"clear"}]
      BY <1>1, <3>2 DEF ScreenType
    <3> QED
      BY <1>8, <3>1, <3>2 DEF ClearEnds
  <2>2. PICK r \in CallType : /\ call' = [call EXCEPT ![k] = r]
                              /\ r.pc # "idle" => r.conv # None
                              /\ r.pc # "answered"
    <3>1. CASE call' = [call EXCEPT ![k].pc = "reload"]
      <4> DEFINE r == [call[k] EXCEPT !.pc = "reload"]
      <4>1. /\ r \in CallType /\ call' = [call EXCEPT ![k] = r] /\ r.conv # None
            /\ r.pc = "reload"
        BY <1>1, <1>8, <3>1 DEF CallType, Opening, ClearEnds, LiveTypeOK
      <4> HIDE DEF r
      <4> QED
        BY <4>1
    <3>2. CASE call' = [call EXCEPT ![k] = NoCall]
      BY <1>1, <3>2
    <3> QED
      BY <1>8, <3>1, <3>2 DEF ClearEnds
  <2> QED
    BY <1>1, <1>8, <2>1, <2>2, CallKeepsTypes DEF ClearEnds
<1> QED
  BY <1>3, <1>4, <1>5, <1>6, <1>7, <1>8 DEF PanelStep

\* The page and the connection: no call changes.
LEMMA RestKeepsTypes ==
    ASSUME LiveTypeOK, UNCHANGED <<saved, unsent, call>>,
           screen' \in ScreenType, socket' \in SocketType, toServer' \in Seq(EventType),
           toClient' \in Seq(Exchanges), past' \in PastType
    PROVE  LiveTypeOK'
  BY DEF LiveTypeOK, PastType

LEMMA JoinFailsFacts ==
    ASSUME LiveTypeOK, NEW c \in Convs, JoinFails(c)
    PROVE  /\ UNCHANGED <<saved, unsent, screen, call, toServer, toClient>>
           /\ socket' \in SocketType /\ socket'.rooms = socket.rooms
           /\ socket'.joining = socket.joining \ {c}
           /\ past' \in PastType
           /\ past'.early = past.early /\ past'.missed = past.missed
           /\ (past'.crossed <=> past.crossed) /\ (past'.dropped <=> past.dropped)
           /\ past'.unjoined = past.unjoined \cup ({c} \ (socket.rooms \cup ToJoin))
<1>1. /\ UNCHANGED <<saved, unsent, screen, call, toServer, toClient>>
      /\ socket \in SocketType /\ socket' = [socket EXCEPT !.joining = @ \ {c}]
      /\ past \in PastType
      /\ past' = [past EXCEPT !.unjoined = @ \cup ({c} \ (socket.rooms \cup ToJoin))]
  BY PastTypes DEF JoinFails, LiveTypeOK
<1>2. PICK s \in SUBSET Convs : s = {c} \ (socket.rooms \cup ToJoin)
  OBVIOUS
<1> QED
  BY <1>1, <1>2 DEF SocketType, PastType

LEMMA ConnectionKeepsTypes ==
    ASSUME LiveTypeOK,
           \/ CloseConversation
           \/ HandleJoin
           \/ \E c \in Convs : Joined(c) \/ JoinFails(c)
           \/ HandleLeave
           \/ OnNewMessage
           \/ Disconnect
           \/ HandleConnection
    PROVE  LiveTypeOK'
<1>1. /\ screen \in ScreenType /\ socket \in SocketType /\ toServer \in Seq(EventType)
      /\ toClient \in Seq(Exchanges) /\ past \in PastType
  BY PastTypes DEF LiveTypeOK
<1>2. CASE CloseConversation
  <2>1. screen' \in ScreenType
    <3>1. NoScreen \in ScreenType
      BY DEF NoScreen, ScreenType, Shown
    <3> QED
      BY <1>1, <1>2, <3>1 DEF CloseConversation, ScreenType
  <2>2. toServer' \in Seq(EventType)
    <3>1. CASE UNCHANGED toServer
      BY <1>1, <3>1
    <3>2. CASE screen.ref # None /\ Tell("leave", screen.ref)
      <4>1. [event |-> "leave", conv |-> screen.ref] \in EventType
        BY <1>1, <3>2 DEF ScreenType, Shown, EventType
      <4> QED
        BY <1>1, <3>2, <4>1, AppendFacts DEF Tell
    <3> QED
      BY <1>2, <3>1, <3>2 DEF CloseConversation
  <2>3. past' \in PastType
    BY <1>2, PastTypes DEF CloseConversation
  <2> QED
    BY <1>1, <1>2, <2>1, <2>2, <2>3, RestKeepsTypes DEF CloseConversation
<1>3. CASE HandleJoin
  <2>1. Head(toServer) \in EventType /\ Tail(toServer) \in Seq(EventType)
    BY <1>1, <1>3 DEF HandleJoin
  <2>2. socket' \in SocketType
    BY <1>1, <1>3, <2>1 DEF HandleJoin, SocketType, EventType
  <2> QED
    BY <1>1, <1>3, <2>1, <2>2, RestKeepsTypes DEF HandleJoin
<1>4. ASSUME NEW c \in Convs, Joined(c) PROVE LiveTypeOK'
  <2>1. socket' \in SocketType
    BY <1>1, <1>4 DEF Joined, SocketType
  <2> QED
    BY <1>1, <1>4, <2>1, RestKeepsTypes DEF Joined
<1>5. CASE HandleLeave
  <2>1. Head(toServer) \in EventType /\ Tail(toServer) \in Seq(EventType)
    BY <1>1, <1>5 DEF HandleLeave
  <2>2. socket' \in SocketType
    BY <1>1, <1>5, <2>1 DEF HandleLeave, SocketType, EventType
  <2> QED
    BY <1>1, <1>5, <2>1, <2>2, RestKeepsTypes DEF HandleLeave
<1>6. CASE OnNewMessage
  <2>1. Head(toClient) \in Exchanges /\ Tail(toClient) \in Seq(Exchanges)
    BY <1>1, <1>6 DEF OnNewMessage
  <2>2. screen.thread \in Seq(Exchanges) /\ Append(screen.thread, Head(toClient)) \in Seq(Exchanges)
    BY <1>1, <2>1, AppendFacts DEF ScreenType
  <2>3. screen' \in ScreenType
    BY <1>1, <1>6, <2>2 DEF OnNewMessage, ScreenType
  <2> QED
    BY <1>1, <1>6, <2>1, <2>3, RestKeepsTypes DEF OnNewMessage
<1>7. CASE Disconnect
  <2>1. Range(toClient) \in SUBSET Exchanges
    BY <1>1 DEF Range
  <2>2. past' \in PastType
    BY <1>7, <2>1, PastTypes DEF Disconnect
  <2>3. socket' \in SocketType
    BY <1>7 DEF Disconnect, SocketType
  <2>4. toServer' \in Seq(EventType) /\ toClient' \in Seq(Exchanges)
    BY <1>7 DEF Disconnect
  <2> QED
    BY <1>1, <1>7, <2>2, <2>3, <2>4, RestKeepsTypes DEF Disconnect
<1>8. CASE HandleConnection
  <2>1. socket' \in SocketType
    BY <1>1, <1>8 DEF HandleConnection, SocketType
  <2> QED
    BY <1>1, <1>8, <2>1, RestKeepsTypes DEF HandleConnection
<1>9. ASSUME NEW c \in Convs, JoinFails(c) PROVE LiveTypeOK'
  BY <1>1, <1>9, JoinFailsFacts, RestKeepsTypes
<1> QED
  BY <1>2, <1>3, <1>4, <1>5, <1>6, <1>7, <1>8, <1>9

\* The steps of the next-state relation, in the three groups of the lemmas.
Connection ==
    \/ CloseConversation
    \/ HandleJoin
    \/ \E c \in Convs : Joined(c) \/ JoinFails(c)
    \/ HandleLeave
    \/ OnNewMessage
    \/ Disconnect
    \/ HandleConnection

LEMMA LiveSteps ==
    ASSUME LiveNext
    PROVE  \/ (\E c \in Convs : SaveExchange(c)) \/ (\E m \in unsent : EmitNewMessage(m))
           \/ \E k \in Openings : OpeningStep(k)
           \/ \E k \in PanelCalls : PanelStep(k)
           \/ Connection
  BY LiveAssumption DEF LiveNext, LiveAssumption, Connection

LEMMA LiveTypesStep == LiveTypeOK /\ [LiveNext]_liveVars => LiveTypeOK'
<1> SUFFICES ASSUME LiveTypeOK, [LiveNext]_liveVars PROVE LiveTypeOK'
  OBVIOUS
<1>1. CASE UNCHANGED liveVars
  BY <1>1 DEF liveVars, LiveTypeOK
<1>2. CASE LiveNext
  BY <1>2, LiveSteps, ServerKeepsTypes, OpeningKeepsTypes, PanelKeepsTypes, ConnectionKeepsTypes
  DEF Connection
<1> QED
  BY <1>1, <1>2

\* The types, and what is under way was saved in a conversation of the tenant.
THEOREM LiveTypeCorrect == LiveSpec => []LiveTypeOK
  BY LiveTypesInitially, LiveTypesStep, PTL DEF LiveSpec


\* ---- what each step does to the screen, the calls and the past

LEMMA CallMoves ==
    ASSUME LiveTypeOK, NEW k \in Calls, NEW r, call' = [call EXCEPT ![k] = r]
    PROVE  call'[k] = r /\ \A j \in Calls \ {k} : call'[j] = call[j]
  BY DEF LiveTypeOK

LEMMA OpenConversationFacts ==
    ASSUME LiveTypeOK, NEW k \in Openings, NEW c \in Convs, OpenConversation(k, c)
    PROVE  /\ screen'.selected = c /\ screen'.ref = c /\ screen'.thread = <<>>
           /\ screen'.stats = None /\ screen'.results = None /\ screen'.recs = None
           /\ call'[k].pc = "messages" /\ call'[k].conv = c
           /\ \A j \in Calls \ {k} : call'[j] = call[j]
           /\ past'.early = past.early /\ past'.missed = past.missed
           /\ UNCHANGED <<saved, unsent, socket, toServer, toClient>>
<1>1. /\ screen' = [NoScreen EXCEPT !.selected = c, !.ref = c, !.busy = screen.busy]
      /\ call' = [call EXCEPT ![k] = [pc |-> "messages", conv |-> c, rows |-> 0]]
      /\ past' = Fresh /\ UNCHANGED <<saved, unsent, socket, toServer, toClient>>
  BY DEF OpenConversation
<1>2. /\ screen'.selected = c /\ screen'.ref = c /\ screen'.thread = <<>>
      /\ screen'.stats = None /\ screen'.results = None /\ screen'.recs = None
  BY <1>1 DEF NoScreen
<1>3. call'[k] = [pc |-> "messages", conv |-> c, rows |-> 0] /\ \A j \in Calls \ {k} : call'[j] = call[j]
  BY <1>1, CallMoves, LiveFacts
<1>4. call'[k].pc = "messages" /\ call'[k].conv = c
  BY <1>3
<1>5. past'.early = past.early /\ past'.missed = past.missed
  BY <1>1, PastTypes
<1> QED
  BY <1>1, <1>2, <1>3, <1>4, <1>5

LEMMA FindMessagesFacts ==
    ASSUME LiveTypeOK, NEW k \in Openings, FindMessagesForConversation(k)
    PROVE  /\ call[k].pc = "messages" /\ call[k].conv \in Convs
           /\ call'[k].pc = "answered" /\ call'[k].conv = call[k].conv
           /\ call'[k].rows = saved[call[k].conv]
           /\ \A j \in Calls \ {k} : call'[j] = call[j]
           /\ past'.early = past.early \cup {m \in UnderWay : m[1] = call[k].conv}
           /\ past'.missed = {m \in past.missed : m[1] # call[k].conv}
           /\ (past'.crossed <=> past.crossed) /\ (past'.dropped <=> past.dropped)
           /\ past'.unjoined = past.unjoined
           /\ UNCHANGED <<saved, unsent, screen, socket, toServer, toClient>>
<1>1. /\ call' = [call EXCEPT ![k] = [call[k] EXCEPT !.pc = "answered", !.rows = saved[call[k].conv]]]
      /\ call[k].pc = "messages" /\ call[k] \in CallType /\ call[k].conv \in Convs /\ k \in Calls
      /\ UNCHANGED <<saved, unsent, screen, socket, toServer, toClient>>
  BY LiveFacts DEF FindMessagesForConversation, LiveTypeOK
<1>2. /\ call'[k] = [call[k] EXCEPT !.pc = "answered", !.rows = saved[call[k].conv]]
      /\ \A j \in Calls \ {k} : call'[j] = call[j]
  BY <1>1, CallMoves
<1>3. /\ call'[k].pc = "answered" /\ call'[k].conv = call[k].conv
      /\ call'[k].rows = saved[call[k].conv]
  <2>1. call[k] \in CallType
    BY <1>1
  <2> QED
    BY <1>2, <2>1 DEF CallType
<1>4. /\ past'.early = past.early \cup {m \in UnderWay : m[1] = call[k].conv}
      /\ past'.missed = {m \in past.missed : m[1] # call[k].conv}
      /\ (past'.crossed <=> past.crossed) /\ (past'.dropped <=> past.dropped)
      /\ past'.unjoined = past.unjoined
  BY PastTypes DEF FindMessagesForConversation, PastType, UnderWay
<1> QED
  BY <1>1, <1>2, <1>3, <1>4

LEMMA MessagesArriveFacts ==
    ASSUME LiveTypeOK, NEW k \in Openings, MessagesArrive(k)
    PROVE  /\ call[k].pc = "answered" /\ call[k].conv \in Convs
           /\ call[k].rows \in Nat /\ call[k].rows <= MaxExchanges
           /\ call[k].rows <= saved[call[k].conv]
           /\ screen'.thread = Rows(call[k].conv, call[k].rows)
           /\ screen'.selected = screen.selected /\ screen'.ref = screen.ref
           /\ screen'.stats = screen.stats /\ screen'.results = screen.results
           /\ screen'.recs = screen.recs
           /\ call'[k].pc = "stats" /\ call'[k].conv = call[k].conv
           /\ \A j \in Calls \ {k} : call'[j] = call[j]
           /\ past'.early = past.early
           /\ past'.missed = past.missed \cup
                  (Range(screen.thread) \ Range(Rows(call[k].conv, call[k].rows)))
           /\ (past'.crossed <=> past.crossed \/ screen.ref # call[k].conv)
           /\ (past'.dropped <=> past.dropped) /\ past'.unjoined = past.unjoined
           /\ UNCHANGED <<saved, unsent, socket, toServer, toClient>>
<1> DEFINE c == call[k].conv
           answer == Rows(c, call[k].rows)
<1>1. /\ call' = [call EXCEPT ![k] = [call[k] EXCEPT !.pc = "stats", !.rows = 0]]
      /\ call[k].pc = "answered" /\ call[k] \in CallType /\ k \in Calls /\ c \in Convs
      /\ call[k].rows \in Nat /\ call[k].rows <= saved[c]
      /\ UNCHANGED <<saved, unsent, socket, toServer, toClient>>
  BY LiveFacts DEF MessagesArrive, LiveTypeOK
<1>2. call[k].rows <= MaxExchanges
  BY <1>1, LiveFacts, LiveAssumption DEF LiveAssumption
<1>3. /\ call'[k] = [call[k] EXCEPT !.pc = "stats", !.rows = 0]
      /\ \A j \in Calls \ {k} : call'[j] = call[j]
  BY <1>1, CallMoves
<1>4. call'[k].pc = "stats" /\ call'[k].conv = c
  <2>1. call[k] \in CallType
    BY <1>1
  <2> QED
    BY <1>3, <2>1 DEF CallType
<1>5. screen' = [screen EXCEPT !.thread = answer] /\ screen \in ScreenType
  BY LiveFacts DEF MessagesArrive
<1>6. past' = [Crosses(c) EXCEPT !.missed = @ \cup (Range(screen.thread) \ Range(answer))]
  BY DEF MessagesArrive
<1> HIDE DEF answer
<1>7. /\ screen'.thread = answer /\ screen'.selected = screen.selected /\ screen'.ref = screen.ref
      /\ screen'.stats = screen.stats /\ screen'.results = screen.results
      /\ screen'.recs = screen.recs
  BY <1>5 DEF ScreenType
<1>8. /\ past'.early = Crosses(c).early
      /\ past'.missed = Crosses(c).missed \cup (Range(screen.thread) \ Range(answer))
      /\ past'.crossed = Crosses(c).crossed /\ past'.dropped = Crosses(c).dropped
      /\ past'.unjoined = Crosses(c).unjoined
  BY <1>1, <1>6, PastTypes DEF PastType
<1>9. /\ past'.early = past.early
      /\ past'.missed = past.missed \cup (Range(screen.thread) \ Range(answer))
      /\ (past'.crossed <=> past.crossed \/ screen.ref # c)
      /\ (past'.dropped <=> past.dropped) /\ past'.unjoined = past.unjoined
  BY <1>1, <1>8, PastTypes
<1> QED
  BY <1>1, <1>2, <1>3, <1>4, <1>7, <1>9 DEF answer

\* The two answers that follow, of the statistics and of the recommendations.
LEMMA LaterAnswersFacts ==
    ASSUME LiveTypeOK, NEW k \in Openings, StatsArrive(k) \/ RecommendationsArrive(k)
    PROVE  /\ call[k].pc \in {"stats", "recs"} /\ call[k].conv \in Convs
           /\ screen'.thread = screen.thread
           /\ screen'.selected = screen.selected /\ screen'.ref = screen.ref
           /\ screen'.results = screen.results
           /\ screen'.stats \in {screen.stats, call[k].conv}
           /\ screen'.recs \in {screen.recs, call[k].conv}
           /\ \A j \in Calls \ {k} : call'[j] = call[j]
           /\ past'.early = past.early /\ past'.missed = past.missed
           /\ (past'.crossed <=> past.crossed \/ screen.ref # call[k].conv)
           /\ (past'.dropped <=> past.dropped)
           /\ UNCHANGED <<saved, unsent, socket, toClient>>
           /\ \/ /\ call'[k].pc = "recs" /\ call'[k].conv = call[k].conv
                 /\ toServer' = toServer /\ past'.unjoined = past.unjoined
              \/ /\ call'[k] = NoCall
                 /\ toServer' = Append(toServer, JoinOf(call[k].conv))
                 /\ past'.unjoined = past.unjoined \ {call[k].conv}
<1>1. /\ call[k].pc \in {"stats", "recs"} /\ call[k] \in CallType /\ k \in Calls
      /\ call[k].conv \in Convs /\ screen \in ScreenType
      /\ UNCHANGED <<saved, unsent, socket, toClient>>
  BY LiveFacts DEF StatsArrive, RecommendationsArrive
<1>2. /\ past'.early = past.early /\ past'.missed = past.missed
      /\ (past'.crossed <=> past.crossed \/ screen.ref # call[k].conv)
      /\ (past'.dropped <=> past.dropped)
      /\ StatsArrive(k) => past'.unjoined = past.unjoined
      /\ RecommendationsArrive(k) => past'.unjoined = past.unjoined \ {call[k].conv}
  <2> DEFINE x == Crosses(call[k].conv)
  <2>1. /\ x \in PastType /\ x.early = past.early /\ x.missed = past.missed
        /\ (x.crossed <=> past.crossed \/ screen.ref # call[k].conv)
        /\ (x.dropped <=> past.dropped) /\ x.unjoined = past.unjoined
    BY <1>1, PastTypes
  <2>2. /\ StatsArrive(k) => past' = x
        /\ RecommendationsArrive(k) => past' = [x EXCEPT !.unjoined = @ \ {call[k].conv}]
    BY DEF StatsArrive, RecommendationsArrive
  <2> HIDE DEF x
  <2>3. CASE StatsArrive(k) /\ ~RecommendationsArrive(k)
    BY <2>1, <2>2, <2>3
  <2>4. CASE RecommendationsArrive(k)
    <3>1. past' = [x EXCEPT !.unjoined = @ \ {call[k].conv}] /\ ~StatsArrive(k)
      BY <2>2, <2>4 DEF StatsArrive, RecommendationsArrive
    <3>2. /\ past'.early = x.early /\ past'.missed = x.missed
          /\ past'.crossed = x.crossed /\ past'.dropped = x.dropped
          /\ past'.unjoined = x.unjoined \ {call[k].conv}
      BY <2>1, <3>1 DEF PastType
    <3> QED
      BY <2>1, <3>1, <3>2
  <2> QED
    BY <2>3, <2>4
<1>3. CASE StatsArrive(k)
  <2>1. /\ screen' = [screen EXCEPT !.stats = call[k].conv] /\ toServer' = toServer
        /\ call' = [call EXCEPT ![k] = [call[k] EXCEPT !.pc = "recs"]]
    BY <1>3, LiveFacts DEF StatsArrive, LiveTypeOK
  <2>2. /\ screen'.thread = screen.thread
        /\ screen'.selected = screen.selected /\ screen'.ref = screen.ref
        /\ screen'.results = screen.results
        /\ screen'.stats = call[k].conv /\ screen'.recs = screen.recs
    BY <1>1, <2>1 DEF ScreenType
  <2>3. /\ call'[k] = [call[k] EXCEPT !.pc = "recs"] /\ \A j \in Calls \ {k} : call'[j] = call[j]
    BY <1>1, <2>1, CallMoves
  <2>4. call'[k].pc = "recs" /\ call'[k].conv = call[k].conv
    BY <1>1, <2>3 DEF CallType
  <2>5. past'.unjoined = past.unjoined
    BY <1>2, <1>3
  <2> QED
    BY <1>1, <1>2, <2>1, <2>2, <2>3, <2>4, <2>5
<1>4. CASE RecommendationsArrive(k)
  <2>1. /\ screen' = [screen EXCEPT !.recs = call[k].conv]
        /\ toServer' = Append(toServer, JoinOf(call[k].conv))
        /\ call' = [call EXCEPT ![k] = NoCall]
    BY <1>4 DEF RecommendationsArrive, Tell, JoinOf
  <2>2. /\ screen'.thread = screen.thread
        /\ screen'.selected = screen.selected /\ screen'.ref = screen.ref
        /\ screen'.results = screen.results
        /\ screen'.stats = screen.stats /\ screen'.recs = call[k].conv
    BY <1>1, <2>1 DEF ScreenType
  <2>3. /\ call'[k] = NoCall /\ \A j \in Calls \ {k} : call'[j] = call[j]
    BY <1>1, <2>1, CallMoves
  <2>4. past'.unjoined = past.unjoined \ {call[k].conv}
    BY <1>2, <1>4
  <2> QED
    BY <1>1, <1>2, <2>1, <2>2, <2>3, <2>4
<1> QED
  BY <1>3, <1>4

LEMMA OpeningFailsFacts ==
    ASSUME LiveTypeOK, NEW k \in Openings, OpeningFails(k)
    PROVE  /\ screen'.selected = None /\ screen'.ref = screen.ref
           /\ screen'.thread = screen.thread /\ screen'.stats = screen.stats
           /\ screen'.results = screen.results /\ screen'.recs = screen.recs
           /\ call'[k].pc = "idle"
           /\ \A j \in Calls \ {k} : call'[j] = call[j]
           /\ UNCHANGED <<saved, unsent, socket, toServer, toClient, past>>
<1>1. /\ screen' = [screen EXCEPT !.selected = None] /\ call' = [call EXCEPT ![k] = NoCall]
      /\ k \in Calls /\ screen \in ScreenType
      /\ UNCHANGED <<saved, unsent, socket, toServer, toClient, past>>
  BY LiveFacts DEF OpeningFails
<1>2. call'[k] = NoCall /\ \A j \in Calls \ {k} : call'[j] = call[j]
  BY <1>1, CallMoves
<1>3. NoCall.pc = "idle"
  BY DEF NoCall
<1> QED
  BY <1>1, <1>2, <1>3 DEF ScreenType

\* The memory panel's requests leave the thread and the openings alone.
LEMMA PanelFacts ==
    ASSUME LiveTypeOK, NEW k \in PanelCalls, PanelStep(k)
    PROVE  /\ UNCHANGED <<saved, unsent, socket, toServer, toClient>>
           /\ screen'.thread = screen.thread
           /\ screen'.selected = screen.selected /\ screen'.ref = screen.ref
           /\ screen'.recs = screen.recs
           /\ screen'.stats \in {screen.stats, call[k].conv}
           /\ screen'.results \in {screen.results, call[k].conv, None}
           /\ \A j \in Calls \ {k} : call'[j] = call[j]
           /\ call'[k].pc # "answered"
           /\ past'.early = past.early /\ past'.missed = past.missed
           /\ (past'.dropped <=> past.dropped) /\ past'.unjoined = past.unjoined
           /\ past.crossed => past'.crossed
           /\ ~past'.crossed => /\ screen'.stats \in {screen.stats, screen.ref}
                                /\ screen'.results \in {screen.results, screen.ref, None}
<1>1. /\ k \in Calls /\ screen \in ScreenType /\ NoCall.pc = "idle" /\ call[k] \in CallType
      /\ past \in PastType /\ UNCHANGED <<saved, unsent, socket, toServer, toClient>>
      /\ call[k].pc # "idle" => call[k].conv \in Convs
  BY LiveFacts, PastTypes
  DEF NoCall, PanelStep, RefreshMemoryStats, SearchMemory, ClearMemory, Ask, RefreshEnds,
      SearchEnds, ClearEnds
<1>2. PICK r : /\ call' = [call EXCEPT ![k] = r]
               /\ r.pc # "answered"
  <2>1. CASE \E pc \in {"refresh", "search", "clear"} : Ask(k, pc)
    <3>1. PICK pc \in {"refresh", "search", "clear"} : Ask(k, pc)
      BY <2>1
    <3> DEFINE r == [pc |-> pc, conv |-> screen.selected, rows |-> 0]
    <3>2. call' = [call EXCEPT ![k] = r] /\ r.pc = pc
      BY <3>1 DEF Ask
    <3> HIDE DEF r
    <3> QED
      BY <3>2
  <2>2. CASE call' = [call EXCEPT ![k] = NoCall]
    BY <1>1, <2>2
  <2>3. CASE call' = [call EXCEPT ![k].pc = "reload"]
    <3> DEFINE r == [call[k] EXCEPT !.pc = "reload"]
    <3>1. call' = [call EXCEPT ![k] = r] /\ r.pc = "reload"
      BY <1>1, <2>3 DEF CallType, LiveTypeOK
    <3> HIDE DEF r
    <3> QED
      BY <3>1
  <2> QED
    BY <2>1, <2>2, <2>3
    DEF PanelStep, RefreshMemoryStats, SearchMemory, ClearMemory, RefreshEnds, SearchEnds, ClearEnds
<1>3. (\A j \in Calls \ {k} : call'[j] = call[j]) /\ call'[k].pc # "answered"
  BY <1>1, <1>2, CallMoves
<1>4. CASE RefreshMemoryStats(k) \/ SearchMemory(k) \/ ClearMemory(k)
  <2>1. past' = past
    BY <1>4 DEF RefreshMemoryStats, SearchMemory, ClearMemory, Ask
  <2>2. screen' = screen \/ \E q : screen' = [screen EXCEPT !.busy = q]
    BY <1>4 DEF RefreshMemoryStats, SearchMemory, ClearMemory
  <2>3. /\ screen'.thread = screen.thread
        /\ screen'.selected = screen.selected /\ screen'.ref = screen.ref
        /\ screen'.recs = screen.recs
        /\ screen'.stats = screen.stats /\ screen'.results = screen.results
    BY <1>1, <2>2 DEF ScreenType
  <2> QED
    BY <1>1, <1>3, <2>1, <2>3
<1>5. CASE RefreshEnds(k)
  <2>1. PICK q : \/ /\ screen' = [screen EXCEPT !.stats = call[k].conv, !.busy = q]
                    /\ past' = Crosses(call[k].conv)
                 \/ screen' = [screen EXCEPT !.busy = q] /\ past' = past
    BY <1>5 DEF RefreshEnds
  <2>2. call[k].conv \in Convs
    BY <1>1, <1>5 DEF RefreshEnds
  <2>3. /\ screen'.thread = screen.thread
        /\ screen'.selected = screen.selected /\ screen'.ref = screen.ref
        /\ screen'.recs = screen.recs /\ screen'.results = screen.results
        /\ screen'.stats \in {screen.stats, call[k].conv}
        /\ past' = past => screen'.stats = screen.stats \/ past' = Crosses(call[k].conv)
    BY <1>1, <2>1 DEF ScreenType
  <2>4. /\ past'.early = past.early /\ past'.missed = past.missed
        /\ (past'.dropped <=> past.dropped) /\ past'.unjoined = past.unjoined
        /\ past.crossed => past'.crossed
        /\ past' = Crosses(call[k].conv) /\ ~past'.crossed => call[k].conv = screen.ref
    BY <2>1, <2>2, PastTypes
  <2> QED
    BY <1>1, <1>3, <2>1, <2>3, <2>4
<1>6. CASE SearchEnds(k)
  <2>1. \/ screen' = [screen EXCEPT !.results = call[k].conv] /\ past' = Crosses(call[k].conv)
        \/ screen' = [screen EXCEPT !.results = None] /\ past' = past
    BY <1>6 DEF SearchEnds
  <2>2. call[k].conv \in Convs
    BY <1>1, <1>6 DEF SearchEnds
  <2>3. /\ screen'.thread = screen.thread
        /\ screen'.selected = screen.selected /\ screen'.ref = screen.ref
        /\ screen'.recs = screen.recs /\ screen'.stats = screen.stats
        /\ \/ screen'.results = call[k].conv /\ past' = Crosses(call[k].conv)
           \/ screen'.results = None
    BY <1>1, <2>1 DEF ScreenType
  <2>4. /\ past'.early = past.early /\ past'.missed = past.missed
        /\ (past'.dropped <=> past.dropped) /\ past'.unjoined = past.unjoined
        /\ past.crossed => past'.crossed
        /\ past' = Crosses(call[k].conv) /\ ~past'.crossed => call[k].conv = screen.ref
    BY <2>1, <2>2, PastTypes
  <2> QED
    BY <1>1, <1>3, <2>3, <2>4
<1>7. CASE ClearEnds(k)
  <2>1. past' = past
    BY <1>7 DEF ClearEnds
  <2>2. \E q : screen' = [screen EXCEPT !.results = None, !.busy = q] \/ screen' = [screen EXCEPT !.busy = q]
    BY <1>7 DEF ClearEnds
  <2>3. /\ screen'.thread = screen.thread
        /\ screen'.selected = screen.selected /\ screen'.ref = screen.ref
        /\ screen'.recs = screen.recs
        /\ screen'.stats = screen.stats /\ screen'.results \in {screen.results, None}
    BY <1>1, <2>2 DEF ScreenType
  <2> QED
    BY <1>1, <1>3, <2>1, <2>3
<1> QED
  BY <1>4, <1>5, <1>6, <1>7 DEF PanelStep

LEMMA CloseFacts ==
    ASSUME LiveTypeOK, CloseConversation
    PROVE  /\ screen'.selected = None /\ screen'.ref = None /\ screen'.thread = <<>>
           /\ screen'.stats = None /\ screen'.results = None /\ screen'.recs = None
           /\ past'.early = past.early /\ past'.missed = past.missed
           /\ UNCHANGED <<saved, unsent, call, socket, toClient>>
  BY PastTypes DEF CloseConversation, NoScreen

\* An event arrives, and is put into the thread or forgotten.
LEMMA OnNewMessageFacts ==
    ASSUME LiveTypeOK, OnNewMessage
    PROVE  /\ toClient \in Seq(Exchanges) /\ toClient # <<>> /\ screen.thread \in Seq(Exchanges)
           /\ Head(toClient) \in Exchanges /\ toClient' = Tail(toClient)
           /\ screen'.selected = screen.selected /\ screen'.ref = screen.ref
           /\ screen'.stats = screen.stats /\ screen'.results = screen.results
           /\ screen'.recs = screen.recs
           /\ screen'.thread = IF screen.ref = Head(toClient)[1]
                               THEN Append(screen.thread, Head(toClient)) ELSE screen.thread
           /\ UNCHANGED <<saved, unsent, call, socket, toServer, past>>
<1>1. /\ toClient \in Seq(Exchanges) /\ toClient # <<>> /\ screen \in ScreenType
      /\ screen.thread \in Seq(Exchanges)
  BY DEF LiveTypeOK, OnNewMessage, ScreenType
<1>2. PICK t : /\ t = IF screen.ref = Head(toClient)[1]
                      THEN Append(screen.thread, Head(toClient)) ELSE screen.thread
               /\ screen' = [screen EXCEPT !.thread = t]
  BY DEF OnNewMessage
<1>3. /\ screen'.selected = screen.selected /\ screen'.ref = screen.ref
      /\ screen'.stats = screen.stats /\ screen'.results = screen.results
      /\ screen'.recs = screen.recs /\ screen'.thread = t
  BY <1>1, <1>2 DEF ScreenType
<1> QED
  BY <1>1, <1>2, <1>3 DEF OnNewMessage

LEMMA DisconnectFacts ==
    ASSUME LiveTypeOK, Disconnect
    PROVE  /\ UNCHANGED <<saved, unsent, screen, call>> /\ toClient' = <<>> /\ toServer' = <<>>
           /\ past'.early = past.early /\ past'.missed = past.missed \cup Range(toClient)
           /\ (past'.crossed <=> past.crossed) /\ past'.dropped
  BY PastTypes DEF Disconnect, PastType


\* ---- ThreadIsOfConversation

LEMMA ThreadOfStep ==
    LiveTypeOK /\ ThreadIsOfConversation /\ [LiveNext]_liveVars => ThreadIsOfConversation'
<1> SUFFICES ASSUME LiveTypeOK, ThreadIsOfConversation, [LiveNext]_liveVars
             PROVE  ThreadIsOfConversation'
  OBVIOUS
<1>1. CASE UNCHANGED screen /\ (past'.crossed <=> past.crossed)
  BY <1>1 DEF ThreadIsOfConversation
<1>2. CASE \E c \in Convs : SaveExchange(c)
  BY <1>1, <1>2 DEF SaveExchange
<1>3. CASE \E m \in unsent : EmitNewMessage(m)
  <2>1. past'.crossed <=> past.crossed
    BY <1>3, PastTypes DEF EmitNewMessage, PastType
  <2> QED
    BY <1>1, <1>3, <2>1 DEF EmitNewMessage
<1>4. ASSUME NEW k \in Openings, OpeningStep(k) PROVE ThreadIsOfConversation'
  <2>1. ASSUME NEW c \in Convs, OpenConversation(k, c) PROVE ThreadIsOfConversation'
    BY <2>1, OpenConversationFacts DEF ThreadIsOfConversation
  <2>2. CASE FindMessagesForConversation(k)
    BY <1>1, <2>2, FindMessagesFacts
  <2>3. CASE MessagesArrive(k)
    <3>1. SUFFICES ASSUME ~past'.crossed
                   PROVE  /\ screen'.selected \in {screen'.ref, None}
                          /\ \A i \in DOMAIN screen'.thread : screen'.thread[i][1] = screen'.ref
                          /\ {screen'.stats, screen'.results, screen'.recs} \subseteq {screen'.ref, None}
      BY DEF ThreadIsOfConversation
    <3>2. ~past.crossed /\ screen.ref = call[k].conv
      BY <2>3, <3>1, MessagesArriveFacts
    <3>3. \A i \in DOMAIN screen'.thread : screen'.thread[i] = <<call[k].conv, i>>
      BY <2>3, MessagesArriveFacts, RowsFacts
    <3> QED
      BY <2>3, <3>2, <3>3, MessagesArriveFacts DEF ThreadIsOfConversation
  <2>4. CASE StatsArrive(k) \/ RecommendationsArrive(k)
    BY <2>4, LaterAnswersFacts DEF ThreadIsOfConversation
  <2>5. CASE OpeningFails(k)
    BY <2>5, OpeningFailsFacts DEF ThreadIsOfConversation
  <2> QED
    BY <1>4, <2>1, <2>2, <2>3, <2>4, <2>5 DEF OpeningStep
<1>5. ASSUME NEW k \in PanelCalls, PanelStep(k) PROVE ThreadIsOfConversation'
  <2>1. SUFFICES ASSUME ~past'.crossed
                 PROVE  /\ screen'.selected \in {screen'.ref, None}
                        /\ \A i \in DOMAIN screen'.thread : screen'.thread[i][1] = screen'.ref
                        /\ {screen'.stats, screen'.results, screen'.recs} \subseteq {screen'.ref, None}
    BY DEF ThreadIsOfConversation
  <2> QED
    BY <1>5, <2>1, PanelFacts DEF ThreadIsOfConversation
<1>6. CASE Connection
  <2>1. CASE CloseConversation
    BY <2>1, CloseFacts DEF ThreadIsOfConversation
  <2>2. CASE HandleJoin \/ (\E c \in Convs : Joined(c)) \/ HandleLeave \/ HandleConnection
    BY <1>1, <2>2 DEF HandleJoin, Joined, HandleLeave, HandleConnection
  <2>3. CASE OnNewMessage
    <3>1. CASE screen.ref = Head(toClient)[1]
      <4>1. /\ screen'.thread = Append(screen.thread, Head(toClient))
            /\ screen.thread \in Seq(Exchanges) /\ Head(toClient) \in Exchanges
            /\ past' = past /\ screen'.selected = screen.selected /\ screen'.ref = screen.ref
            /\ screen'.stats = screen.stats /\ screen'.results = screen.results
            /\ screen'.recs = screen.recs
        BY <2>3, <3>1, OnNewMessageFacts
      <4>2. \A i \in DOMAIN screen'.thread :
                \/ i \in DOMAIN screen.thread /\ screen'.thread[i] = screen.thread[i]
                \/ screen'.thread[i] = Head(toClient)
        BY <4>1, AppendFacts
      <4> QED
        BY <3>1, <4>1, <4>2 DEF ThreadIsOfConversation
    <3>2. CASE screen.ref # Head(toClient)[1]
      BY <2>3, <3>2, OnNewMessageFacts DEF ThreadIsOfConversation
    <3> QED
      BY <3>1, <3>2
  <2>4. CASE Disconnect
    BY <1>1, <2>4, DisconnectFacts
  <2>5. ASSUME NEW c \in Convs, JoinFails(c) PROVE ThreadIsOfConversation'
    BY <1>1, <2>5, JoinFailsFacts
  <2> QED
    BY <1>6, <2>1, <2>2, <2>3, <2>4, <2>5 DEF Connection
<1>7. CASE UNCHANGED liveVars
  BY <1>1, <1>7 DEF liveVars
<1> QED
  BY <1>2, <1>3, <1>4, <1>5, <1>6, <1>7, LiveSteps


\* ---- TwiceOnlyIfReadEarly

OnceInv == OnceUnderWay /\ ReadEarly

LEMMA OnceInitially == LiveInit => OnceInv
  BY DEF LiveInit, OnceInv, OnceUnderWay, ReadEarly, TwiceOnlyIfReadEarly, NoScreen, NoCall, Range

\* Steps that put no exchange under way and show none: fewer under way, the same thread
\* or none.
LEMMA OnceStays ==
    ASSUME LiveTypeOK, OnceInv, UNCHANGED <<saved, unsent>>,
           toClient' = toClient \/ toClient' = <<>>,
           screen'.thread = screen.thread \/ screen'.thread = <<>>,
           \A k \in Calls : call'[k].pc = "answered" => call'[k] = call[k],
           past'.early = past.early
    PROVE  OnceInv'
<1>1. UnderWay' \subseteq UnderWay
  BY DEF UnderWay, Range
<1>2. OnceUnderWay'
  BY DEF OnceInv, OnceUnderWay, IsSaved
<1>3. TwiceOnlyIfReadEarly'
  BY DEF OnceInv, ReadEarly, TwiceOnlyIfReadEarly
<1>4. ReadEarly'
  BY <1>1, <1>3 DEF OnceInv, ReadEarly
<1> QED
  BY <1>2, <1>4 DEF OnceInv

LEMMA SaveKeepsOnce ==
    ASSUME LiveTypeOK, OnceInv, NEW c \in Convs, SaveExchange(c) PROVE OnceInv'
<1> DEFINE e == <<c, saved[c] + 1>>
<1>1. /\ unsent' = unsent \cup {e} /\ saved' = [saved EXCEPT ![c] = @ + 1]
      /\ UNCHANGED <<screen, call, socket, toServer, toClient, past>>
      /\ saved[c] \in Nat
  BY LiveFacts DEF SaveExchange
<1>2. /\ saved'[c] = saved[c] + 1 /\ \A d \in Convs : saved[d] \in Nat /\ saved'[d] >= saved[d]
      /\ \A d \in Convs : saved'[d] \in Nat
  BY <1>1, LiveFacts
<1>3. \A m \in Exchanges : IsSaved(m) => m # e /\ m[2] <= saved'[m[1]]
  BY <1>1, <1>2, LiveFacts DEF IsSaved
<1>4. \A i \in DOMAIN toClient : toClient[i] \in Exchanges
  BY DEF LiveTypeOK
<1>5. \A i \in DOMAIN screen.thread : screen.thread[i] \in Exchanges
  BY DEF LiveTypeOK, ScreenType
<1> HIDE DEF e
<1>6. OnceUnderWay'
  BY <1>1, <1>3, <1>4, <1>5 DEF OnceInv, OnceUnderWay, IsSaved
<1>7. \A i \in DOMAIN screen.thread : screen.thread[i] # e
  BY <1>3, <1>5 DEF OnceInv, OnceUnderWay
<1>8. UnderWay' = UnderWay \cup {e}
  BY <1>1 DEF UnderWay
<1>9. ASSUME NEW k \in Calls, call[k].pc = "answered", NEW n \in 1..call[k].rows
      PROVE  <<call[k].conv, n>> # e
  <2>1. call[k].rows <= saved[call[k].conv] /\ call[k].rows \in Nat /\ call[k].conv \in Convs
    BY <1>9, LiveFacts DEF LiveTypeOK
  <2>2. n <= saved[call[k].conv] /\ n \in Nat
    BY <1>2, <2>1
  <2> QED
    BY <1>1, <2>1, <2>2 DEF e
<1>10. TwiceOnlyIfReadEarly'
  BY <1>1 DEF OnceInv, ReadEarly, TwiceOnlyIfReadEarly
<1>11. ReadEarly'
  BY <1>1, <1>7, <1>8, <1>9, <1>10 DEF OnceInv, ReadEarly
<1> QED
  BY <1>6, <1>11 DEF OnceInv

LEMMA EmitKeepsOnce ==
    ASSUME LiveTypeOK, OnceInv, NEW m \in unsent, EmitNewMessage(m) PROVE OnceInv'
<1>1. /\ unsent' = unsent \ {m} /\ UNCHANGED <<saved, screen, call>> /\ m \in Exchanges
      /\ toClient \in Seq(Exchanges) /\ IsSaved(m)
      /\ toClient' = toClient \/ toClient' = Append(toClient, m)
  BY DEF EmitNewMessage, LiveTypeOK, IsSaved
<1>2. past'.early = past.early
  BY PastTypes DEF EmitNewMessage, PastType
<1>3. UnderWay' \subseteq UnderWay
  <2>1. Range(Append(toClient, m)) = Range(toClient) \cup {m}
    BY <1>1, AppendFacts
  <2> QED
    BY <1>1, <2>1 DEF UnderWay
<1>4. OnceUnderWay'
  <2>1. \A i \in DOMAIN toClient : toClient[i] # m
    BY DEF OnceInv, OnceUnderWay
  <2>2. CASE toClient' = toClient
    BY <1>1, <2>2 DEF OnceInv, OnceUnderWay, IsSaved
  <2>3. CASE toClient' = Append(toClient, m)
    <3>1. /\ \A i, j \in DOMAIN toClient' : toClient'[i] = toClient'[j] => i = j
          /\ \A i \in DOMAIN toClient' : toClient'[i] \notin unsent' /\ IsSaved(toClient'[i])
      BY <1>1, <2>1, <2>3, AppendFacts DEF OnceInv, OnceUnderWay
    <3> QED
      BY <1>1, <3>1 DEF OnceInv, OnceUnderWay, IsSaved
  <2> QED
    BY <1>1, <2>2, <2>3
<1>5. TwiceOnlyIfReadEarly'
  BY <1>1, <1>2 DEF OnceInv, ReadEarly, TwiceOnlyIfReadEarly
<1>6. ReadEarly'
  BY <1>1, <1>2, <1>3, <1>5 DEF OnceInv, ReadEarly
<1> QED
  BY <1>4, <1>6 DEF OnceInv

\* The one that reads: what is under way of its conversation is early from now on.
LEMMA FindMessagesKeepsOnce ==
    ASSUME LiveTypeOK, OnceInv, NEW k \in Openings, FindMessagesForConversation(k)
    PROVE  OnceInv'
<1> DEFINE c == call[k].conv
<1>1. /\ UNCHANGED <<saved, unsent, screen, toClient>> /\ c \in Convs /\ k \in Calls
      /\ call'[k].conv = c
      /\ \A j \in Calls \ {k} : call'[j] = call[j]
      /\ past'.early = past.early \cup {m \in UnderWay : m[1] = c}
      /\ UnderWay' = UnderWay
  BY FindMessagesFacts, LiveFacts DEF UnderWay
<1>2. \A n : <<c, n>>[1] = c
  OBVIOUS
<1> HIDE DEF c
<1>3. OnceUnderWay'
  BY <1>1 DEF OnceInv, OnceUnderWay, IsSaved
<1>4. TwiceOnlyIfReadEarly'
  BY <1>1 DEF OnceInv, ReadEarly, TwiceOnlyIfReadEarly
<1>5. ASSUME NEW j \in Calls, call'[j].pc = "answered", NEW n \in 1..call'[j].rows,
             <<call'[j].conv, n>> \in UnderWay
      PROVE  <<call'[j].conv, n>> \in past'.early
  <2>1. CASE j = k
    BY <1>1, <1>2, <1>5, <2>1
  <2>2. CASE j # k
    BY <1>1, <1>5, <2>2 DEF OnceInv, ReadEarly
  <2> QED
    BY <2>1, <2>2
<1>6. \A i \in DOMAIN screen'.thread :
          screen'.thread[i] \in UnderWay => screen'.thread[i] \in past'.early
  BY <1>1 DEF OnceInv, ReadEarly
<1> QED
  BY <1>1, <1>3, <1>4, <1>5, <1>6 DEF OnceInv, ReadEarly

LEMMA MessagesArriveKeepsOnce ==
    ASSUME LiveTypeOK, OnceInv, NEW k \in Openings, MessagesArrive(k)
    PROVE  OnceInv'
<1> DEFINE c == call[k].conv
           n == call[k].rows
<1>1. /\ UNCHANGED <<saved, unsent, toClient>> /\ c \in Convs /\ k \in Calls
      /\ n \in Nat /\ n <= MaxExchanges /\ n <= saved[c] /\ call[k].pc = "answered"
      /\ screen'.thread = Rows(c, n) /\ past'.early = past.early
      /\ call'[k].pc # "answered"
      /\ \A j \in Calls \ {k} : call'[j] = call[j]
      /\ UnderWay' = UnderWay /\ saved[c] \in Nat
  BY MessagesArriveFacts, LiveFacts DEF UnderWay
<1>2. /\ DOMAIN screen'.thread = 1..n
      /\ \A i \in 1..n : screen'.thread[i] = <<c, i>>
  BY <1>1, RowsFacts
<1>3. \A i \in 1..n : <<c, i>> \in UnderWay => <<c, i>> \in past.early
  BY <1>1 DEF OnceInv, ReadEarly
<1>4. \A i \in 1..n : IsSaved(<<c, i>>)
  BY <1>1 DEF IsSaved
<1> HIDE DEF c, n
<1>5. OnceUnderWay'
  <2>1. \A i \in DOMAIN screen'.thread : IsSaved(screen'.thread[i])
    BY <1>2, <1>4
  <2> QED
    BY <1>1, <2>1 DEF OnceInv, OnceUnderWay, IsSaved
<1>6. \A i, j \in DOMAIN screen'.thread : i # j => screen'.thread[i] # screen'.thread[j]
  <2>1. ASSUME NEW i \in 1..n, NEW j \in 1..n, <<c, i>> = <<c, j>> PROVE i = j
    BY <2>1
  <2> QED
    BY <1>2, <2>1
<1>7. TwiceOnlyIfReadEarly'
  BY <1>6 DEF TwiceOnlyIfReadEarly
<1>8. ReadEarly'
  BY <1>1, <1>2, <1>3, <1>7 DEF OnceInv, ReadEarly
<1> QED
  BY <1>5, <1>8 DEF OnceInv

LEMMA OnNewMessageKeepsOnce ==
    ASSUME LiveTypeOK, OnceInv, OnNewMessage PROVE OnceInv'
<1> DEFINE e == Head(toClient)
<1>1. /\ toClient \in Seq(Exchanges) /\ toClient # <<>> /\ screen.thread \in Seq(Exchanges)
      /\ e \in Exchanges /\ toClient' = Tail(toClient)
      /\ UNCHANGED <<saved, unsent, call, past>>
      /\ screen'.thread = screen.thread \/ screen'.thread = Append(screen.thread, e)
  BY OnNewMessageFacts
<1>2. /\ 1 \in DOMAIN toClient /\ e = toClient[1]
      /\ \A i \in DOMAIN toClient' : i \in Nat /\ i + 1 \in DOMAIN toClient /\ toClient'[i] = toClient[i + 1]
      /\ Range(toClient) = Range(toClient') \cup {e}
      /\ \A i \in DOMAIN toClient' : i \in Nat \ {0}
  BY <1>1, TailFacts
<1> HIDE DEF e
<1>3. UnderWay' \subseteq UnderWay /\ e \in UnderWay
  BY <1>1, <1>2 DEF UnderWay
<1>4. e \notin UnderWay' /\ IsSaved(e)
  <2>1. \A i \in DOMAIN toClient' : toClient'[i] # e
    BY <1>2 DEF OnceInv, OnceUnderWay
  <2>2. e \notin unsent /\ IsSaved(e)
    BY <1>2 DEF OnceInv, OnceUnderWay
  <2> QED
    BY <1>1, <2>1, <2>2 DEF UnderWay, Range
<1>5. /\ \A i, j \in DOMAIN toClient' : toClient'[i] = toClient'[j] => i = j
      /\ \A i \in DOMAIN toClient' : toClient'[i] \notin unsent' /\ IsSaved(toClient'[i])
  BY <1>1, <1>2 DEF OnceInv, OnceUnderWay
<1>6. \A i \in DOMAIN screen'.thread :
          \/ i \in DOMAIN screen.thread /\ screen'.thread[i] = screen.thread[i]
          \/ i = Len(screen.thread) + 1 /\ screen'.thread[i] = e
  BY <1>1, AppendFacts
<1>7. OnceUnderWay'
  <2>1. \A i \in DOMAIN screen'.thread : IsSaved(screen'.thread[i])
    BY <1>4, <1>6 DEF OnceInv, OnceUnderWay
  <2> QED
    BY <1>1, <1>5, <2>1 DEF OnceUnderWay, IsSaved
<1>8. TwiceOnlyIfReadEarly'
  <2>1. \A i \in DOMAIN screen.thread : screen.thread[i] = e => e \in past.early
    BY <1>3 DEF OnceInv, ReadEarly
  <2> QED
    BY <1>1, <1>6, <2>1 DEF OnceInv, ReadEarly, TwiceOnlyIfReadEarly
<1>9. \A i \in DOMAIN screen'.thread :
          screen'.thread[i] \in UnderWay' => screen'.thread[i] \in past'.early
  BY <1>1, <1>3, <1>4, <1>6 DEF OnceInv, ReadEarly
<1>10. ReadEarly'
  BY <1>1, <1>3, <1>8, <1>9 DEF OnceInv, ReadEarly
<1> QED
  BY <1>7, <1>10 DEF OnceInv

LEMMA OnceStep == LiveTypeOK /\ OnceInv /\ [LiveNext]_liveVars => OnceInv'
<1> SUFFICES ASSUME LiveTypeOK, OnceInv, [LiveNext]_liveVars PROVE OnceInv'
  OBVIOUS
<1>1. ASSUME NEW k \in Openings, OpeningStep(k) PROVE OnceInv'
  <2> k \in Calls
    BY LiveFacts
  <2>1. ASSUME NEW c \in Convs, OpenConversation(k, c) PROVE OnceInv'
    BY <2>1, OpenConversationFacts, OnceStays
  <2>2. CASE StatsArrive(k) \/ RecommendationsArrive(k)
    <3>1. call'[k].pc # "answered"
      BY <2>2, LaterAnswersFacts DEF NoCall
    <3> QED
      BY <2>2, <3>1, LaterAnswersFacts, OnceStays
  <2>3. CASE OpeningFails(k)
    BY <2>3, OpeningFailsFacts, OnceStays
  <2> QED
    BY <1>1, <2>1, <2>2, <2>3, FindMessagesKeepsOnce, MessagesArriveKeepsOnce DEF OpeningStep
<1>2. ASSUME NEW k \in PanelCalls, PanelStep(k) PROVE OnceInv'
  BY <1>2, PanelFacts, OnceStays, LiveFacts
<1>3. CASE Connection
  <2>1. CASE CloseConversation
    BY <2>1, CloseFacts, OnceStays
  <2>2. CASE HandleJoin \/ (\E c \in Convs : Joined(c)) \/ HandleLeave \/ HandleConnection
    BY <2>2, OnceStays DEF HandleJoin, Joined, HandleLeave, HandleConnection
  <2>3. CASE Disconnect
    BY <2>3, DisconnectFacts, OnceStays
  <2>4. ASSUME NEW c \in Convs, JoinFails(c) PROVE OnceInv'
    BY <2>4, JoinFailsFacts, OnceStays
  <2> QED
    BY <1>3, <2>1, <2>2, <2>3, <2>4, OnNewMessageKeepsOnce DEF Connection
<1>4. CASE UNCHANGED liveVars
  BY <1>4, OnceStays DEF liveVars
<1> QED
  BY <1>1, <1>2, <1>3, <1>4, SaveKeepsOnce, EmitKeepsOnce, LiveSteps


\* ---- MissedIsExplained

Accounted == Range(screen.thread) \cup UnderWay \cup past.missed
Brings(r, c, n) ==
    /\ r.conv = c
    /\ r.pc = "messages" \/ (r.pc = "answered" /\ n <= r.rows)

LEMMA ExplainedIs ==
    ASSUME NEW c, NEW n
    PROVE  Explained(c, n) <=> <<c, n>> \in Accounted \/ \E k \in Openings : Brings(call[k], c, n)
  BY DEF Explained, Accounted, Brings

\* What AllExplained asks for after a step.
LEMMA ExplainedAfter ==
    ASSUME ASSUME NEW c, screen'.selected # None, screen'.selected = c, screen'.ref = c,
                  ~past'.crossed, NEW n \in 1..saved'[c]
           PROVE  <<c, n>> \in Accounted' \/ \E k \in Openings : Brings(call'[k], c, n)
    PROVE  AllExplained'
<1> SUFFICES ASSUME screen'.selected # None, screen'.selected = screen'.ref, ~past'.crossed,
                    NEW n \in 1..saved'[screen'.ref]
             PROVE  Explained(screen.ref, n)'
  BY DEF AllExplained
<1>1. PICK c : c = screen'.ref
  OBVIOUS
<1>2. <<c, n>> \in Accounted' \/ \E k \in Openings : Brings(call'[k], c, n)
  BY <1>1
<1> QED
  BY <1>1, <1>2 DEF Explained, Accounted, Brings

\* Nothing is lost, and no opening that reads ends.
LEMMA ExplainedStays ==
    ASSUME AllExplained, saved' = saved,
           Accounted \subseteq Accounted',
           screen'.selected # None => screen'.selected = screen.selected,
           screen'.ref = screen.ref, past.crossed => past'.crossed,
           \A k \in Openings : call[k].pc \in {"messages", "answered"} => call'[k] = call[k]
    PROVE  AllExplained'
<1>1. ASSUME NEW c, screen'.selected # None, screen'.selected = c, screen'.ref = c,
             ~past'.crossed, NEW n \in 1..saved'[c]
      PROVE  <<c, n>> \in Accounted' \/ \E k \in Openings : Brings(call'[k], c, n)
  <2>1. Explained(screen.ref, n) /\ screen.ref = c
    BY <1>1 DEF AllExplained
  <2>2. Explained(c, n)
    BY <2>1
  <2>3. CASE <<c, n>> \in Accounted
    BY <2>3
  <2>4. ASSUME NEW k \in Openings, Brings(call[k], c, n) PROVE Brings(call'[k], c, n)
    BY <2>4 DEF Brings
  <2> QED
    BY <2>2, <2>3, <2>4, ExplainedIs
<1> QED
  BY <1>1, ExplainedAfter

LEMMA ServerKeepsExplained ==
    ASSUME LiveTypeOK, AllExplained,
           (\E c \in Convs : SaveExchange(c)) \/ (\E m \in unsent : EmitNewMessage(m))
    PROVE  AllExplained'
<1>1. ASSUME NEW d \in Convs, SaveExchange(d) PROVE AllExplained'
  <2>1. /\ unsent' = unsent \cup {<<d, saved[d] + 1>>} /\ saved' = [saved EXCEPT ![d] = @ + 1]
        /\ UNCHANGED <<screen, call, toClient, past>> /\ saved[d] \in Nat
    BY <1>1, LiveFacts DEF SaveExchange
  <2>2. Accounted' = Accounted \cup {<<d, saved[d] + 1>>}
    BY <2>1 DEF Accounted, UnderWay
  <2>3. ASSUME NEW c, screen'.selected # None, screen'.selected = c, screen'.ref = c,
               ~past'.crossed, NEW n \in 1..saved'[c]
        PROVE  <<c, n>> \in Accounted' \/ \E k \in Openings : Brings(call'[k], c, n)
    <3>1. c \in Convs
      BY <2>1, <2>3, LiveFacts DEF ScreenType, Shown
    <3>2. n \in 1..saved[c] \/ (c = d /\ n = saved[d] + 1)
      BY <2>1, <2>3, <3>1, LiveFacts
    <3>3. CASE n \in 1..saved[c]
      <4>1. Explained(screen.ref, n) /\ screen.ref = c
        BY <2>1, <2>3, <3>3 DEF AllExplained
      <4>2. Explained(c, n)
        BY <4>1
      <4> QED
        BY <2>1, <2>2, <4>2, ExplainedIs
    <3>4. CASE c = d /\ n = saved[d] + 1
      BY <2>2, <3>4
    <3> QED
      BY <3>2, <3>3, <3>4
  <2> QED
    BY <2>3, ExplainedAfter
<1>2. ASSUME NEW m \in unsent, EmitNewMessage(m) PROVE AllExplained'
  <2>1. /\ unsent' = unsent \ {m} /\ UNCHANGED <<saved, screen, call>> /\ m \in Exchanges
        /\ toClient \in Seq(Exchanges)
        /\ \/ toClient' = Append(toClient, m) /\ past' = past
           \/ toClient' = toClient /\ past' = [past EXCEPT !.missed = @ \cup {m}]
    BY <1>2 DEF EmitNewMessage, LiveTypeOK
  <2>2. Range(Append(toClient, m)) = Range(toClient) \cup {m}
    BY <2>1, AppendFacts
  <2>3. \/ toClient' = Append(toClient, m) /\ past' = past
        \/ /\ toClient' = toClient /\ past'.missed = past.missed \cup {m}
           /\ past'.crossed = past.crossed
    BY <2>1, PastTypes DEF PastType
  <2>4. Accounted \subseteq Accounted'
    BY <2>1, <2>2, <2>3 DEF Accounted, UnderWay
  <2> QED
    BY <2>1, <2>3, <2>4, ExplainedStays
<1> QED
  BY <1>1, <1>2

LEMMA OpeningKeepsExplained ==
    ASSUME LiveTypeOK, AllExplained, NEW k \in Openings, OpeningStep(k)
    PROVE  AllExplained'
<1> k \in Calls /\ Openings \subseteq Calls
  BY LiveFacts
<1>1. ASSUME NEW d \in Convs, OpenConversation(k, d) PROVE AllExplained'
  <2>1. screen'.ref = d /\ call'[k].pc = "messages" /\ call'[k].conv = d
    BY <1>1, OpenConversationFacts
  <2>2. \A n : Brings(call'[k], d, n)
    BY <2>1 DEF Brings
  <2> QED
    BY <2>1, <2>2, ExplainedAfter
<1>2. CASE FindMessagesForConversation(k)
  <2>1. /\ UNCHANGED <<saved, screen>> /\ UnderWay' = UnderWay
        /\ call'[k].pc = "answered" /\ call'[k].conv = call[k].conv
        /\ call'[k].rows = saved[call[k].conv]
        /\ \A j \in Calls \ {k} : call'[j] = call[j]
        /\ past'.missed = {m \in past.missed : m[1] # call[k].conv}
        /\ (past'.crossed <=> past.crossed)
    BY <1>2, FindMessagesFacts DEF UnderWay
  <2>2. ASSUME NEW c, screen'.selected # None, screen'.selected = c, screen'.ref = c,
               ~past'.crossed, NEW n \in 1..saved'[c]
        PROVE  <<c, n>> \in Accounted' \/ \E j \in Openings : Brings(call'[j], c, n)
    <3>1. CASE call[k].conv = c
      <4>1. n <= saved[c]
        BY <2>1, <2>2, <1>2, <3>1, LiveFacts, FindMessagesFacts
      <4>2. Brings(call'[k], c, n)
        BY <2>1, <3>1, <4>1 DEF Brings
      <4> QED
        BY <4>2
    <3>2. CASE call[k].conv # c
      <4>1. Explained(screen.ref, n) /\ screen.ref = c
        BY <2>1, <2>2 DEF AllExplained
      <4>2. Explained(c, n)
        BY <4>1
      <4>3. <<c, n>> \in Accounted => <<c, n>> \in Accounted'
        BY <2>1, <3>2 DEF Accounted
      <4>4. \A j \in Openings : Brings(call[j], c, n) => Brings(call'[j], c, n)
        BY <2>1, <3>2 DEF Brings
      <4> QED
        BY <4>2, <4>3, <4>4, ExplainedIs
    <3> QED
      BY <3>1, <3>2
  <2> QED
    BY <2>2, ExplainedAfter
<1>3. CASE MessagesArrive(k)
  <2> DEFINE q == call[k].rows
  <2>1. /\ UNCHANGED <<saved, unsent, toClient>> /\ UnderWay' = UnderWay
        /\ screen'.thread = Rows(call[k].conv, q) /\ q \in Nat /\ q <= MaxExchanges
        /\ screen'.selected = screen.selected /\ screen'.ref = screen.ref
        /\ call[k].pc = "answered" /\ call[k].conv \in Convs
        /\ \A j \in Calls \ {k} : call'[j] = call[j]
        /\ past'.missed = past.missed \cup (Range(screen.thread) \ Range(Rows(call[k].conv, q)))
        /\ (past'.crossed <=> past.crossed \/ screen.ref # call[k].conv)
    BY <1>3, MessagesArriveFacts DEF UnderWay
  <2>2. Accounted \subseteq Accounted'
    BY <2>1 DEF Accounted
  <2>3. Range(screen'.thread) = {<<call[k].conv, j>> : j \in 1..q}
    BY <2>1, RowsFacts
  <2> HIDE DEF q
  <2>4. ASSUME NEW c, screen'.selected # None, screen'.selected = c, screen'.ref = c,
               ~past'.crossed, NEW n \in 1..saved'[c]
        PROVE  <<c, n>> \in Accounted' \/ \E j \in Openings : Brings(call'[j], c, n)
    <3>1. Explained(screen.ref, n) /\ screen.ref = c /\ call[k].conv = c
      BY <2>1, <2>4 DEF AllExplained
    <3>2. Explained(c, n)
      BY <3>1
    <3>3. CASE <<c, n>> \in Accounted
      BY <2>2, <3>3
    <3>4. ASSUME Brings(call[k], c, n) PROVE <<c, n>> \in Accounted'
      <4>1. n \in 1..q
        <5>1. n <= q
          BY <2>1, <3>4 DEF Brings, q
        <5>2. n \in Nat \ {0}
          BY <2>1, <2>4, <3>1, LiveFacts
        <5> QED
          BY <2>1, <5>1, <5>2
      <4> QED
        BY <2>3, <3>1, <4>1 DEF Accounted
    <3>5. ASSUME NEW j \in Openings \ {k}, Brings(call[j], c, n) PROVE Brings(call'[j], c, n)
      BY <2>1, <3>5
    <3> QED
      BY <3>2, <3>3, <3>4, <3>5, ExplainedIs
  <2> QED
    BY <2>4, ExplainedAfter
<1>4. CASE StatsArrive(k) \/ RecommendationsArrive(k)
  <2>1. Accounted' = Accounted
    BY <1>4, LaterAnswersFacts DEF Accounted, UnderWay
  <2> QED
    BY <1>4, <2>1, LaterAnswersFacts, ExplainedStays
<1>5. CASE OpeningFails(k)
  BY <1>5, OpeningFailsFacts, ExplainedAfter
<1> QED
  BY <1>1, <1>2, <1>3, <1>4, <1>5 DEF OpeningStep

LEMMA OnNewMessageKeepsExplained ==
    ASSUME LiveTypeOK, AllExplained, OnNewMessage PROVE AllExplained'
<1> DEFINE e == Head(toClient)
<1>1. /\ toClient \in Seq(Exchanges) /\ toClient # <<>> /\ screen.thread \in Seq(Exchanges)
      /\ e \in Exchanges /\ toClient' = Tail(toClient)
      /\ UNCHANGED <<saved, unsent, call, past>>
      /\ screen'.selected = screen.selected /\ screen'.ref = screen.ref
      /\ screen'.thread = IF screen.ref = e[1] THEN Append(screen.thread, e) ELSE screen.thread
  BY OnNewMessageFacts
<1>2. Range(toClient) = Range(toClient') \cup {e}
  BY <1>1, TailFacts
<1>3. Range(Append(screen.thread, e)) = Range(screen.thread) \cup {e}
  BY <1>1, AppendFacts
<1> HIDE DEF e
<1>4. ASSUME NEW c, screen'.selected # None, screen'.selected = c, screen'.ref = c,
             ~past'.crossed, NEW n \in 1..saved'[c]
      PROVE  <<c, n>> \in Accounted' \/ \E k \in Openings : Brings(call'[k], c, n)
  <2>1. Explained(screen.ref, n) /\ screen.ref = c
    BY <1>1, <1>4 DEF AllExplained
  <2>2. Explained(c, n) /\ <<c, n>>[1] = c
    BY <2>1
  <2>3. CASE <<c, n>> = e
    BY <1>1, <1>3, <2>1, <2>2, <2>3 DEF Accounted
  <2>4. CASE <<c, n>> # e
    <3>1. <<c, n>> \in Accounted => <<c, n>> \in Accounted'
      BY <1>1, <1>2, <1>3, <2>4 DEF Accounted, UnderWay
    <3> QED
      BY <1>1, <2>2, <3>1, ExplainedIs
  <2> QED
    BY <2>3, <2>4
<1> QED
  BY <1>4, ExplainedAfter

LEMMA ExplainedStep == LiveTypeOK /\ AllExplained /\ [LiveNext]_liveVars => AllExplained'
<1> SUFFICES ASSUME LiveTypeOK, AllExplained, [LiveNext]_liveVars PROVE AllExplained'
  OBVIOUS
<1>1. ASSUME NEW k \in PanelCalls, PanelStep(k) PROVE AllExplained'
  <2>1. Accounted' = Accounted
    BY <1>1, PanelFacts DEF Accounted, UnderWay
  <2>2. \A j \in Openings : j \in Calls \ {k}
    BY LiveFacts, LiveAssumption DEF LiveAssumption
  <2> QED
    BY <1>1, <2>1, <2>2, PanelFacts, ExplainedStays
<1>2. CASE Connection
  <2>1. CASE CloseConversation
    BY <2>1, CloseFacts, ExplainedAfter
  <2>2. CASE HandleJoin \/ (\E c \in Convs : Joined(c)) \/ HandleLeave \/ HandleConnection
    <3>1. UNCHANGED <<saved, unsent, screen, call, toClient, past>>
      BY <2>2 DEF HandleJoin, Joined, HandleLeave, HandleConnection
    <3>2. Accounted' = Accounted
      BY <3>1 DEF Accounted, UnderWay
    <3> QED
      BY <3>1, <3>2, ExplainedStays
  <2>3. CASE Disconnect
    <3>1. Accounted \subseteq Accounted'
      BY <2>3, DisconnectFacts DEF Accounted, UnderWay
    <3> QED
      BY <2>3, <3>1, DisconnectFacts, ExplainedStays
  <2>4. ASSUME NEW c \in Convs, JoinFails(c) PROVE AllExplained'
    <3>1. Accounted' = Accounted
      BY <2>4, JoinFailsFacts DEF Accounted, UnderWay
    <3> QED
      BY <2>4, <3>1, JoinFailsFacts, ExplainedStays
  <2> QED
    BY <1>2, <2>1, <2>2, <2>3, <2>4, OnNewMessageKeepsExplained DEF Connection
<1>3. CASE UNCHANGED liveVars
  <2>1. Accounted' = Accounted
    BY <1>3 DEF liveVars, Accounted, UnderWay
  <2> QED
    BY <1>3, <2>1, ExplainedStays DEF liveVars
<1> QED
  BY <1>1, <1>2, <1>3, ServerKeepsExplained, OpeningKeepsExplained, LiveSteps


\* ---- LiveUnlessDropped

\* Nothing is said to the gateway, and no room is left.
LEMMA JoinStays ==
    ASSUME NEW c, JoinIsLast(c), toServer' = toServer,
           socket.rooms \cup socket.joining \subseteq socket'.rooms \cup socket'.joining
    PROVE  JoinIsLast(c)'
  BY DEF JoinIsLast, JoinOf, LeaveOf

\* Another join is no leave.
LEMMA JoinAppended ==
    ASSUME LiveTypeOK, NEW c \in Convs, NEW d \in Convs, c = d \/ JoinIsLast(c),
           toServer' = Append(toServer, JoinOf(d)), socket' = socket
    PROVE  JoinIsLast(c)'
<1>1. /\ toServer \in Seq(EventType) /\ JoinOf(d) \in EventType
      /\ \A b : JoinOf(d) # LeaveOf(b)
  <2>1. JoinOf(d) \in EventType /\ JoinOf(d).event = "join"
    BY DEF JoinOf, EventType
  <2>2. \A b : LeaveOf(b).event = "leave"
    BY DEF LeaveOf
  <2> QED
    BY <2>1, <2>2 DEF LiveTypeOK
<1>2. /\ DOMAIN toServer' = DOMAIN toServer \cup {Len(toServer) + 1}
      /\ toServer'[Len(toServer) + 1] = JoinOf(d)
      /\ \A i \in DOMAIN toServer : /\ toServer'[i] = toServer[i]
                                    /\ i < Len(toServer) + 1 /\ i \in Nat
      /\ Len(toServer) \in Nat
  BY <1>1, AppendFacts
<1>3. CASE c = d
  <2>1. \A j \in DOMAIN toServer' : ~(j > Len(toServer) + 1)
    BY <1>2
  <2> QED
    BY <1>2, <1>3, <2>1 DEF JoinIsLast, JoinOf, LeaveOf
<1>4. CASE JoinIsLast(c)
  <2>1. ASSUME NEW i \in DOMAIN toServer, toServer[i] = JoinOf(c),
               \A j \in DOMAIN toServer : j > i => toServer[j] # LeaveOf(c)
        PROVE  JoinIsLast(c)'
    <3>1. /\ i \in DOMAIN toServer' /\ toServer'[i] = JoinOf(c)
          /\ \A j \in DOMAIN toServer' : j > i => toServer'[j] # LeaveOf(c)
      BY <1>1, <1>2, <2>1
    <3> QED
      BY <3>1 DEF JoinIsLast, JoinOf, LeaveOf
  <2>2. ASSUME c \in socket.rooms \cup socket.joining,
               \A j \in DOMAIN toServer : toServer[j] # LeaveOf(c)
        PROVE  JoinIsLast(c)'
    <3>1. \A j \in DOMAIN toServer' : toServer'[j] # LeaveOf(c)
      BY <1>1, <1>2, <2>2
    <3> QED
      BY <2>2, <3>1 DEF JoinIsLast, JoinOf, LeaveOf
  <2> QED
    BY <1>4, <2>1, <2>2 DEF JoinIsLast
<1> QED
  BY <1>3, <1>4

\* The gateway takes the first word.
LEMMA JoinHandled ==
    ASSUME LiveTypeOK, NEW c, JoinIsLast(c), HandleJoin \/ HandleLeave
    PROVE  JoinIsLast(c)'
<1> DEFINE e == Head(toServer)
<1>1. /\ toServer \in Seq(EventType) /\ toServer # <<>> /\ toServer' = Tail(toServer)
      /\ socket \in SocketType
      /\ \/ e.event = "join" /\ socket' = [socket EXCEPT !.joining = @ \cup {e.conv}]
         \/ e.event = "leave" /\ socket' = [socket EXCEPT !.rooms = @ \ {e.conv}]
  BY DEF LiveTypeOK, HandleJoin, HandleLeave
<1>2. /\ e \in EventType /\ 1 \in DOMAIN toServer /\ e = toServer[1]
      /\ \A i \in DOMAIN toServer' : i \in Nat /\ i + 1 \in DOMAIN toServer /\ toServer'[i] = toServer[i + 1]
      /\ \A i \in DOMAIN toServer : i \in Nat /\ (i = 1 \/ (i - 1 \in DOMAIN toServer' /\ toServer'[i - 1] = toServer[i]))
      /\ \A i \in DOMAIN toServer' : i >= 1
  BY <1>1, TailFacts
<1>3. \/ /\ e = JoinOf(e.conv) /\ e.conv \in socket'.joining
         /\ socket.rooms \cup socket.joining \subseteq socket'.rooms \cup socket'.joining
      \/ /\ e = LeaveOf(e.conv)
         /\ (socket.rooms \cup socket.joining) \ {e.conv} \subseteq socket'.rooms \cup socket'.joining
  <2>1. e = [event |-> e.event, conv |-> e.conv]
    BY <1>2 DEF EventType
  <2>2. CASE e.event = "join" /\ socket' = [socket EXCEPT !.joining = @ \cup {e.conv}]
    <3>1. socket'.rooms = socket.rooms /\ socket'.joining = socket.joining \cup {e.conv}
      BY <1>1, <2>2 DEF SocketType
    <3> QED
      BY <2>1, <2>2, <3>1 DEF JoinOf
  <2>3. CASE e.event = "leave" /\ socket' = [socket EXCEPT !.rooms = @ \ {e.conv}]
    <3>1. socket'.rooms = socket.rooms \ {e.conv} /\ socket'.joining = socket.joining
      BY <1>1, <2>3 DEF SocketType
    <3> QED
      BY <2>1, <2>3, <3>1 DEF LeaveOf
  <2> QED
    BY <1>1, <2>2, <2>3
<1>4. JoinOf(c).event = "join" /\ LeaveOf(c).event = "leave" /\ JoinOf(c).conv = c
  BY DEF JoinOf, LeaveOf
<1> HIDE DEF e
<1>5. ASSUME NEW i \in DOMAIN toServer, toServer[i] = JoinOf(c),
             \A j \in DOMAIN toServer : j > i => toServer[j] # LeaveOf(c)
      PROVE  JoinIsLast(c)'
  <2>1. CASE i = 1
    <3>1. e = JoinOf(c) /\ e.event = "join" /\ e.conv = c
      BY <1>2, <1>4, <1>5, <2>1
    <3>2. c \in socket'.joining
      BY <1>3, <1>4, <3>1 DEF LeaveOf
    <3>3. \A j \in DOMAIN toServer' : toServer'[j] # LeaveOf(c)
      BY <1>2, <1>5, <2>1
    <3> QED
      BY <3>2, <3>3 DEF JoinIsLast, JoinOf, LeaveOf
  <2>2. CASE i # 1
    <3>1. i - 1 \in DOMAIN toServer' /\ toServer'[i - 1] = JoinOf(c)
      BY <1>2, <1>5, <2>2
    <3>2. ASSUME NEW j \in DOMAIN toServer', j > i - 1 PROVE toServer'[j] # LeaveOf(c)
      <4>1. j + 1 \in DOMAIN toServer /\ toServer'[j] = toServer[j + 1] /\ j + 1 > i
        BY <1>2, <3>2
      <4> QED
        BY <1>5, <4>1
    <3> QED
      BY <3>1, <3>2 DEF JoinIsLast, JoinOf, LeaveOf
  <2> QED
    BY <2>1, <2>2
<1>6. ASSUME c \in socket.rooms \cup socket.joining,
             \A j \in DOMAIN toServer : toServer[j] # LeaveOf(c)
      PROVE  JoinIsLast(c)'
  <2>1. e # LeaveOf(c)
    BY <1>2, <1>6
  <2>2. c \in socket'.rooms \cup socket'.joining
    BY <1>3, <1>6, <2>1
  <2>3. \A j \in DOMAIN toServer' : toServer'[j] # LeaveOf(c)
    BY <1>2, <1>6
  <2> QED
    BY <2>2, <2>3 DEF JoinIsLast, JoinOf, LeaveOf
<1> QED
  BY <1>5, <1>6 DEF JoinIsLast

\* A join that fails was not the last word, or the room is joined already.
LEMMA JoinOutlastsFailure ==
    ASSUME LiveTypeOK, NEW c \in Convs, JoinIsLast(c), NEW d \in Convs, JoinFails(d),
           d = c => c \in socket.rooms \cup ToJoin
    PROVE  JoinIsLast(c)'
<1>1. /\ toServer' = toServer /\ socket'.rooms = socket.rooms
      /\ socket'.joining = socket.joining \ {d}
  BY JoinFailsFacts
<1>2. CASE c \in socket'.rooms \cup socket'.joining \/ c \notin socket.rooms \cup socket.joining
  BY <1>1, <1>2 DEF JoinIsLast, JoinOf, LeaveOf
<1>3. CASE d = c /\ c \in ToJoin
  <2>1. PICK i \in DOMAIN toServer : toServer[i] = JoinOf(c)
    BY <1>3 DEF ToJoin, JoinOf
  <2>2. CASE \A j \in DOMAIN toServer : toServer[j] # LeaveOf(c)
    BY <1>1, <2>1, <2>2 DEF JoinIsLast, JoinOf, LeaveOf
  <2>3. CASE \E j \in DOMAIN toServer : toServer[j] = LeaveOf(c)
    BY <1>1, <2>3 DEF JoinIsLast, JoinOf, LeaveOf
  <2> QED
    BY <2>2, <2>3
<1> QED
  BY <1>1, <1>2, <1>3

\* What JoinsFollow asks for after a step.
LEMMA JoinsAfter ==
    ASSUME ASSUME NEW c \in Convs, screen'.selected = c, screen'.ref = c,
                  ~past'.dropped, c \notin past'.unjoined
           PROVE  \/ \E k \in Openings : call'[k].pc # "idle" /\ call'[k].conv = c
                  \/ JoinIsLast(c)',
           LiveTypeOK'
    PROVE  JoinsFollow'
<1> SUFFICES ASSUME screen'.selected # None, screen'.selected = screen'.ref,
                    ~past'.dropped, screen'.ref \notin past'.unjoined
             PROVE  \/ \E k \in Openings : call'[k].pc # "idle" /\ call'[k].conv = screen'.ref
                    \/ JoinIsLast(screen.ref)'
  BY DEF JoinsFollow
<1>1. PICK c \in Convs : c = screen'.ref
  BY DEF LiveTypeOK, ScreenType, Shown
<1>2. \/ \E k \in Openings : call'[k].pc # "idle" /\ call'[k].conv = c
      \/ JoinIsLast(c)'
  BY <1>1
<1> QED
  BY <1>1, <1>2 DEF JoinIsLast, JoinOf, LeaveOf

\* A step that keeps the openings and what the gateway knows.
LEMMA JoinsStay ==
    ASSUME LiveTypeOK', JoinsFollow,
           screen'.selected # None => screen'.selected = screen.selected,
           screen'.ref = screen.ref, past.dropped => past'.dropped,
           past.unjoined \subseteq past'.unjoined,
           \A k \in Openings : call[k].pc # "idle" =>
               call'[k].pc # "idle" /\ call'[k].conv = call[k].conv,
           toServer' = toServer,
           socket.rooms \cup socket.joining \subseteq socket'.rooms \cup socket'.joining
    PROVE  JoinsFollow'
<1>1. ASSUME NEW c \in Convs, screen'.selected = c, screen'.ref = c,
             ~past'.dropped, c \notin past'.unjoined
      PROVE  \/ \E k \in Openings : call'[k].pc # "idle" /\ call'[k].conv = c
             \/ JoinIsLast(c)'
  <2>1. c # None
    BY LiveAssumption DEF LiveAssumption
  <2>2. \/ \E k \in Openings : call[k].pc # "idle" /\ call[k].conv = screen.ref
        \/ JoinIsLast(screen.ref)
    BY <1>1, <2>1 DEF JoinsFollow
  <2>3. screen.ref = c
    BY <1>1
  <2>4. \/ \E k \in Openings : call[k].pc # "idle" /\ call[k].conv = c
        \/ JoinIsLast(c)
    BY <2>2, <2>3
  <2> QED
    BY <2>4, JoinStays
<1> QED
  BY <1>1, JoinsAfter

LEMMA JoinsStep ==
    LiveTypeOK /\ JoinsFollow /\ [LiveNext]_liveVars => JoinsFollow'
<1> SUFFICES ASSUME LiveTypeOK, JoinsFollow, [LiveNext]_liveVars PROVE JoinsFollow'
  OBVIOUS
<1>1. LiveTypeOK' /\ Openings \subseteq Calls /\ \A c \in Convs : c # None
  BY LiveTypesStep, LiveFacts, LiveAssumption DEF LiveAssumption
<1>2. CASE \E c \in Convs : SaveExchange(c)
  BY <1>1, <1>2, JoinsStay DEF SaveExchange
<1>3. CASE \E m \in unsent : EmitNewMessage(m)
  <2>1. past'.dropped = past.dropped /\ past'.unjoined = past.unjoined
    <3>1. PICK q : past' = past \/ past' = [past EXCEPT !.missed = q]
      BY <1>3 DEF EmitNewMessage
    <3> QED
      BY <3>1, PastTypes DEF PastType
  <2> QED
    BY <1>1, <1>3, <2>1, JoinsStay DEF EmitNewMessage
<1>4. ASSUME NEW k \in Openings, OpeningStep(k) PROVE JoinsFollow'
  <2>1. ASSUME NEW d \in Convs, OpenConversation(k, d) PROVE JoinsFollow'
    <3>1. screen'.ref = d /\ call'[k].pc = "messages" /\ call'[k].conv = d
      BY <2>1, OpenConversationFacts
    <3> QED
      BY <1>1, <3>1, JoinsAfter
  <2>2. CASE FindMessagesForConversation(k)
    BY <1>1, <2>2, FindMessagesFacts, JoinsStay
  <2>3. CASE MessagesArrive(k)
    <3>1. /\ call'[k].pc # "idle" /\ call'[k].conv = call[k].conv
          /\ \A j \in Openings \ {k} : call'[j] = call[j]
          /\ UNCHANGED <<socket, toServer>>
          /\ screen'.selected = screen.selected /\ screen'.ref = screen.ref
          /\ (past'.dropped <=> past.dropped) /\ past'.unjoined = past.unjoined
      BY <1>1, <2>3, MessagesArriveFacts
    <3> QED
      BY <1>1, <3>1, JoinsStay
  <2>4. CASE StatsArrive(k) \/ RecommendationsArrive(k)
    <3>1. /\ call[k].conv \in Convs /\ socket' = socket
          /\ \A j \in Openings \ {k} : call'[j] = call[j]
          /\ screen'.selected = screen.selected /\ screen'.ref = screen.ref
          /\ (past'.dropped <=> past.dropped)
          /\ \/ /\ call'[k].pc = "recs" /\ call'[k].conv = call[k].conv
                /\ toServer' = toServer /\ past'.unjoined = past.unjoined
             \/ /\ toServer' = Append(toServer, JoinOf(call[k].conv))
                /\ past'.unjoined = past.unjoined \ {call[k].conv}
      BY <1>1, <2>4, LaterAnswersFacts
    <3>2. CASE /\ call'[k].pc = "recs" /\ call'[k].conv = call[k].conv
               /\ toServer' = toServer /\ past'.unjoined = past.unjoined
      BY <1>1, <3>1, <3>2, JoinsStay
    <3>3. CASE /\ toServer' = Append(toServer, JoinOf(call[k].conv))
               /\ past'.unjoined = past.unjoined \ {call[k].conv}
      <4>1. ASSUME NEW c \in Convs, screen'.selected = c, screen'.ref = c,
                   ~past'.dropped, c \notin past'.unjoined
            PROVE  \/ \E j \in Openings : call'[j].pc # "idle" /\ call'[j].conv = c
                   \/ JoinIsLast(c)'
        <5>2. screen.ref = c
          BY <3>1, <4>1
        <5>3. \/ c = call[k].conv
              \/ \E j \in Openings : call[j].pc # "idle" /\ call[j].conv = c
              \/ JoinIsLast(c)
          <6>1. CASE c # call[k].conv
            <7>1. \/ \E j \in Openings : call[j].pc # "idle" /\ call[j].conv = screen.ref
                  \/ JoinIsLast(screen.ref)
              BY <1>1, <3>1, <3>3, <4>1, <5>2, <6>1 DEF JoinsFollow
            <7> QED
              BY <5>2, <7>1
          <6> QED
            BY <6>1
        <5>4. CASE call[k].conv = c \/ JoinIsLast(c)
          BY <3>1, <3>3, <5>4, JoinAppended
        <5> QED
          BY <3>1, <5>3, <5>4
      <4> QED
        BY <1>1, <4>1, JoinsAfter
    <3> QED
      BY <3>1, <3>2, <3>3
  <2>5. CASE OpeningFails(k)
    <3>1. screen'.selected = None
      BY <2>5, OpeningFailsFacts
    <3> QED
      BY <3>1 DEF JoinsFollow
  <2> QED
    BY <1>4, <2>1, <2>2, <2>3, <2>4, <2>5 DEF OpeningStep
<1>5. ASSUME NEW k \in PanelCalls, PanelStep(k) PROVE JoinsFollow'
  <2>1. \A j \in Openings : j \in Calls \ {k}
    BY <1>1, LiveAssumption DEF LiveAssumption
  <2> QED
    BY <1>1, <1>5, <2>1, PanelFacts, JoinsStay
<1>6. CASE Connection
  <2>1. CASE CloseConversation
    BY <2>1, CloseFacts DEF JoinsFollow
  <2>2. CASE HandleJoin \/ HandleLeave
    <3>1. UNCHANGED <<screen, call, past>>
      BY <2>2 DEF HandleJoin, HandleLeave
    <3>2. ASSUME NEW c \in Convs, screen'.selected = c, screen'.ref = c,
                 ~past'.dropped, c \notin past'.unjoined
          PROVE  \/ \E j \in Openings : call'[j].pc # "idle" /\ call'[j].conv = c
                 \/ JoinIsLast(c)'
      <4>1. \/ \E j \in Openings : call[j].pc # "idle" /\ call[j].conv = screen.ref
            \/ JoinIsLast(screen.ref)
        BY <1>1, <3>1, <3>2 DEF JoinsFollow
      <4>2. screen.ref = c
        BY <3>1, <3>2
      <4>3. \/ \E j \in Openings : call[j].pc # "idle" /\ call[j].conv = c
            \/ JoinIsLast(c)
        BY <4>1, <4>2
      <4> QED
        BY <2>2, <3>1, <4>3, JoinHandled
    <3> QED
      BY <1>1, <3>2, JoinsAfter
  <2>3. ASSUME NEW c \in Convs, Joined(c) PROVE JoinsFollow'
    <3>1. /\ UNCHANGED <<screen, call, toServer, past>>
          /\ socket' = [socket EXCEPT !.joining = @ \ {c}, !.rooms = @ \cup {c}]
          /\ socket \in SocketType
      BY <2>3 DEF Joined, LiveTypeOK
    <3>2. socket.rooms \cup socket.joining \subseteq socket'.rooms \cup socket'.joining
      BY <3>1 DEF SocketType
    <3> QED
      BY <1>1, <3>1, <3>2, JoinsStay
  <2>4. CASE HandleConnection
    <3>1. /\ UNCHANGED <<screen, call, toServer, past>>
          /\ socket' = [socket EXCEPT !.up = TRUE] /\ socket \in SocketType
      BY <2>4 DEF HandleConnection, LiveTypeOK
    <3>2. socket'.rooms = socket.rooms /\ socket'.joining = socket.joining
      BY <3>1 DEF SocketType
    <3> QED
      BY <1>1, <3>1, <3>2, JoinsStay
  <2>5. CASE OnNewMessage
    BY <1>1, <2>5, OnNewMessageFacts, JoinsStay
  <2>6. CASE Disconnect
    BY <2>6, DisconnectFacts DEF JoinsFollow
  <2>7. ASSUME NEW d \in Convs, JoinFails(d) PROVE JoinsFollow'
    <3>1. ASSUME NEW c \in Convs, screen'.selected = c, screen'.ref = c,
                 ~past'.dropped, c \notin past'.unjoined
          PROVE  \/ \E j \in Openings : call'[j].pc # "idle" /\ call'[j].conv = c
                 \/ JoinIsLast(c)'
      <4>1. UNCHANGED <<screen, call, toServer>> /\ ~past.dropped /\ c \notin past.unjoined
        BY <2>7, <3>1, JoinFailsFacts
      <4>2. screen.selected = c /\ screen.ref = c /\ c # None
        BY <1>1, <3>1, <4>1
      <4>3. \/ \E j \in Openings : call[j].pc # "idle" /\ call[j].conv = screen.ref
            \/ JoinIsLast(screen.ref)
        BY <4>1, <4>2 DEF JoinsFollow
      <4>4. \/ \E j \in Openings : call[j].pc # "idle" /\ call[j].conv = c
            \/ JoinIsLast(c)
        BY <4>2, <4>3
      <4>5. d = c => c \in socket.rooms \cup ToJoin
        BY <2>7, <3>1, JoinFailsFacts
      <4> QED
        BY <2>7, <4>1, <4>4, <4>5, JoinOutlastsFailure
    <3> QED
      BY <1>1, <3>1, JoinsAfter
  <2> QED
    BY <1>6, <2>1, <2>2, <2>3, <2>4, <2>5, <2>6, <2>7 DEF Connection
<1>7. CASE UNCHANGED liveVars
  BY <1>1, <1>7, JoinsStay DEF liveVars
<1> QED
  BY <1>2, <1>3, <1>4, <1>5, <1>6, <1>7, LiveSteps

\* The thread is of the conversation that is open, has every exchange but those that are
\* accounted for, none twice unless it was read early, and stays live.
THEOREM ThreadIsSafe == LiveSpec => []ThreadSafe
<1> DEFINE Inv == LiveTypeOK /\ ThreadIsOfConversation /\ OnceInv /\ AllExplained /\ JoinsFollow
<1>1. LiveInit => Inv
  <2> SUFFICES ASSUME LiveInit PROVE Inv
    OBVIOUS
  <2>1. LiveTypeOK /\ OnceInv
    BY LiveTypesInitially, OnceInitially
  <2>2. screen.selected = None /\ screen.ref = None /\ screen.thread = <<>>
        /\ screen.stats = None /\ screen.results = None /\ screen.recs = None
    BY DEF LiveInit, NoScreen
  <2> QED
    BY <2>1, <2>2 DEF ThreadIsOfConversation, AllExplained, JoinsFollow
<1>2. Inv /\ [LiveNext]_liveVars => Inv'
  BY LiveTypesStep, ThreadOfStep, OnceStep, ExplainedStep, JoinsStep
<1>3. Inv => ThreadSafe
  <2> SUFFICES ASSUME Inv PROVE ThreadSafe
    OBVIOUS
  <2>1. MissedIsExplained
    <3>1. SUFFICES ASSUME Settled, ~past.crossed, NEW n \in 1..saved[screen.ref]
                   PROVE  <<screen.ref, n>> \in Range(screen.thread) \cup Range(toClient) \cup unsent \cup past.missed
      BY DEF MissedIsExplained
    <3>2. Explained(screen.ref, n)
      BY <3>1 DEF AllExplained, Settled
    <3> QED
      BY <3>1, <3>2 DEF Explained, UnderWay, Settled, Loading
  <2>2. LiveUnlessDropped
    <3>1. SUFFICES ASSUME Opened, ~past.dropped, screen.ref \notin past.unjoined
                   PROVE  Live(screen.ref)
      BY DEF LiveUnlessDropped
    <3>2. JoinIsLast(screen.ref)
      BY <3>1 DEF JoinsFollow, Opened
    <3>3. screen.ref \in Convs
      BY <3>1 DEF Opened, LiveTypeOK, ScreenType, Shown
    <3> QED
      BY <3>2, <3>3 DEF JoinIsLast, JoinOf, Live, ToJoin
  <2> QED
    BY <2>1, <2>2 DEF ThreadSafe, OnceInv, ReadEarly
<1> QED
  BY <1>1, <1>2, <1>3, PTL DEF LiveSpec


-----------------------------------------------------------------------------
(* The run's sum of the three parts.                                        *)

\* A behaviour of the sum is one of each part: the parts that stay stutter.
THEOREM PartsAreComponents == Spec => LiveSpec /\ CatalogSpec /\ OrdersSpec
<1>1. Init => LiveInit /\ CatalogInit /\ OrdersInit
  BY DEF Init
<1>2. [Next]_<<part, liveVars, catalogVars, ordersVars>> =>
          /\ [LiveNext]_liveVars
          /\ [CatalogNext]_catalogVars
          /\ [OrdersNext]_ordersVars
  BY DEF Next, LiveStep, CatalogPart, OrdersStep
<1> QED
  BY <1>1, <1>2, PTL DEF Spec, LiveSpec, CatalogSpec, OrdersSpec

\* Types of all three.
THEOREM DashboardTypeCorrect == Spec => []DashboardTypeOK
<1>1. LiveTypeOK /\ CatalogTypeOK /\ OrdersTypeOK => DashboardTypeOK
  BY DEF DashboardTypeOK
<1> QED
  BY <1>1, PartsAreComponents, LiveTypeCorrect, CatalogTypeCorrect, OrdersTypeCorrect, PTL

\* What the run checks of the three parts.
THEOREM DashboardIsSafe ==
    Spec => [](ThreadSafe /\ AnswersSafe /\ FormsSafe /\ CartSafe /\ LastNoticeMatches)
  BY PartsAreComponents, ThreadIsSafe, AnswersAreSafe, FormsAreSafe, CartsAreSafe, NoticesMatch,
     PTL

=============================================================================
