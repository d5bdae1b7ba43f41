------------------------------- MODULE Tracking -------------------------------
(***************************************************************************)
(* What customers have looked at, and what they are recommended.  For each  *)
(* product of an answer trackProductView reads the product and then, in one *)
(* transaction, notes the view and counts the mention.  An agent's tab asks *)
(* getRecommendationsForCustomer, which makes its list of several queries,  *)
(* and the controller leaves out what is not active by then.                *)
(*                                                                         *)
(* trackOrderPlaced and updateAllAffinityScores have no caller: no view has *)
(* an order, getFrequentlyBoughtTogether finds nothing, and every           *)
(* conversion rate is 0.                                                    *)
(***************************************************************************)
EXTENDS Integers, FiniteSets

CONSTANTS
    Products,      \* naturals, in the order of their creation
    Words,         \* keywords
    Lower,         \* Lower[w]: w as it is sought, trimmed and in lower case
    Empty,         \* what is left of a keyword of blanks
    Convs,         \* conversations
    Trackings,     \* calls of trackProductView under way
    Readers,       \* calls of GET /products/recommendations under way
    NoView,
    Limit,         \* of recommendations: 5
    ViewCap,       \* views that are looked at: 20
    WordCap,       \* keywords that are sought: 30
    SimilarCap,    \* similar products: 10
    TopCap,        \* popular products: 10
    MaxMentions,   \* bound: trackings of a product
    MaxChanges     \* bound: changes of products

ASSUME TrackingAssumption ==
    /\ Products \subseteq Nat /\ IsFiniteSet(Products) /\ IsFiniteSet(Convs)
    /\ IsFiniteSet(Words) /\ Lower \in [Words -> Words \cup {Empty}]
    /\ {Limit, ViewCap, WordCap, SimilarCap, TopCap} \subseteq Nat \ {0}
    /\ MaxMentions \in Nat /\ MaxChanges \in Nat

VARIABLES
    product,   \* product[p]: its row
    views,     \* views[c][p]: which product p was of those a conversation showed; 0: not shown
    affinity,  \* affinity[p]: the row of product_affinities
    track,     \* track[k]
    rec,       \* rec[r]
    trackingPast       \* what the properties remember

trackingVars == <<product, views, affinity, track, rec, trackingPast>>

NoAffinity == [held |-> FALSE, mentions |-> 0, words |-> {}]
NoTracking == [pc |-> "idle", conv |-> NoView, product |-> NoView, words |-> {}]
NoReader == [pc |-> "idle", viewed |-> {}, words |-> {}, picks |-> {},
             latest |-> {}, disturbed |-> FALSE]

Alive(p) == product[p].alive
Active(p) == product[p].alive /\ product[p].active

\* Views go with the row of the product; all that c was ever shown keep their numbers.
Shown(c) == {p \in Products : views[c][p] # 0}
Seen(c) == {p \in Shown(c) : Alive(p)}
Viewers(p) == {c \in Convs : p \in Seen(c)}

\* What may be left of S when no more than n are taken
Cut(S, n) == {T \in SUBSET S : Cardinality(T) = IF Cardinality(S) < n THEN Cardinality(S) ELSE n}

\* What ORDER BY score DESC with a LIMIT of n may return of S
Best(S, n, score) == {T \in Cut(S, n) : \A p \in T, q \in S \ T : score[p] >= score[q]}

ProductType == [alive : BOOLEAN, active : BOOLEAN, words : SUBSET Words]
AffinityType == [held : BOOLEAN, mentions : 0..MaxMentions, words : SUBSET Words]
TrackingType ==
    [pc : {"read"}, conv : Convs, product : Products, words : SUBSET Words] \cup {NoTracking}
ReaderType ==
    [pc : {"idle", "viewed", "words", "similar", "ranked", "shown"}, viewed : SUBSET Products,
     words : SUBSET Words, picks : SUBSET Products, latest : SUBSET Products, disturbed : BOOLEAN]

TrackingTypeOK ==
    /\ product \in [Products -> ProductType]
    /\ views \in [Convs -> [Products -> Nat]]
    /\ \A c \in Convs, p \in Products :
           /\ views[c][p] <= Cardinality(Shown(c))
           /\ \A q \in Shown(c) : views[c][p] = views[c][q] => p = q
    /\ affinity \in [Products -> AffinityType]
    /\ \A p \in Products : Alive(p) \/ affinity[p] = NoAffinity
    /\ track \in [Trackings -> TrackingType]
    /\ rec \in [Readers -> ReaderType]
    /\ \A r \in Readers : rec[r].pc \in {"ranked", "shown"} => Cardinality(rec[r].picks) <= Limit
    \* tracked: transactions that mentioned a product.  fresh: it was tracked since it was
    \* last edited, by a call that began after, and no older call wrote after that.
    /\ trackingPast \in [tracked : [Products -> 0..MaxMentions], fresh : [Products -> BOOLEAN],
                         changes : 0..MaxChanges]

TrackingInit ==
    /\ product \in [Products -> [alive : {TRUE}, active : {TRUE}, words : SUBSET Words]]
    /\ views = [c \in Convs |-> [p \in Products |-> 0]]
    /\ affinity = [p \in Products |-> NoAffinity]
    /\ track = [k \in Trackings |-> NoTracking]
    /\ rec = [r \in Readers |-> NoReader]
    /\ trackingPast = [tracked |-> [p \in Products |-> 0], fresh |-> [p \in Products |-> FALSE],
                       changes |-> 0]

Disturb == rec' = [r \in Readers |-> [rec[r] EXCEPT !.disturbed = rec[r].pc # "idle"]]

-------------------------------------------------------------------------------
(* trackProductView *)

\* The answer of a conversation names p; without its row, 404.
FindProduct(k, c, p) ==
    /\ track[k].pc = "idle"
    /\ Alive(p)
    /\ track' = [track EXCEPT ![k] = [pc |-> "read", conv |-> c, product |-> p,
                                      words |-> product[p].words]]
    /\ UNCHANGED <<product, views, affinity, rec, trackingPast>>

ViewAdded(c, p) ==
    IF p \in Shown(c) THEN views ELSE [views EXCEPT ![c][p] = Cardinality(Shown(c)) + 1]

\* One mention more, and its keywords, if there are any.
Mentioned(a, words) ==
    [held |-> TRUE, mentions |-> a.mentions + 1,
     words |-> IF words # {} \/ ~a.held THEN words ELSE a.words]

\* Mutant of Track: the two statements without a transaction, when the second fails.
TrackHalf(k) ==
    LET p == track[k].product IN
    /\ track[k].pc = "read" /\ Alive(p)
    /\ views' = ViewAdded(track[k].conv, p)
    /\ Disturb
    /\ track' = [track EXCEPT ![k] = NoTracking]
    /\ UNCHANGED <<product, affinity, trackingPast>>

\* The transaction; the row must still be there.
Track(k) ==
    LET p == track[k].product IN
    /\ track[k].pc = "read" /\ Alive(p)
    /\ trackingPast.tracked[p] < MaxMentions
    /\ views' = ViewAdded(track[k].conv, p)
    /\ affinity' = [affinity EXCEPT ![p] = Mentioned(@, track[k].words)]
    /\ trackingPast' = [trackingPast EXCEPT !.tracked[p] = @ + 1,
                                            !.fresh[p] = track[k].words = product[p].words]
    /\ Disturb
    /\ track' = [track EXCEPT ![k] = NoTracking]
    /\ UNCHANGED product

\* Its error is logged: the row is gone, or the database does not answer.
TrackFails(k) ==
    /\ track[k].pc = "read"
    /\ track' = [track EXCEPT ![k] = NoTracking]
    /\ UNCHANGED <<product, views, affinity, rec, trackingPast>>

-------------------------------------------------------------------------------
(* The catalog *)

Change(p, r) ==
    /\ Alive(p) /\ r # product[p]
    /\ trackingPast.changes < MaxChanges
    /\ product' = [product EXCEPT ![p] = r]
    /\ Disturb

\* update: keywords or isActive
UpdateProduct(p, r) ==
    /\ Change(p, r) /\ r.alive
    /\ trackingPast' = [trackingPast EXCEPT !.changes = @ + 1, !.fresh[p] = @ /\ r.words = product[p].words]
    /\ UNCHANGED <<views, affinity, track>>

\* remove: views and affinity go with the row
RemoveProduct(p) ==
    /\ Change(p, [product[p] EXCEPT !.alive = FALSE])
    /\ affinity' = [affinity EXCEPT ![p] = NoAffinity]
    /\ trackingPast' = [trackingPast EXCEPT !.changes = @ + 1, !.tracked[p] = 0, !.fresh[p] = FALSE]
    /\ UNCHANGED <<views, track>>

-------------------------------------------------------------------------------
(* getRecommendationsForCustomer *)

\* The products viewed last
ViewedBy(c) == Best(Seen(c), ViewCap, views[c])

\* All that c has viewed if that is looked at, and what it viewed last
Latest(c) ==
    {p \in Seen(c) : Cardinality(Seen(c)) <= ViewCap \/ \A q \in Seen(c) : views[c][q] <= views[c][p]}

FindViewed(r, c) ==
    /\ rec[r].pc \in {"idle", "shown"}
    /\ \E viewed \in ViewedBy(c) :
           rec' = [rec EXCEPT ![r] = [NoReader EXCEPT !.pc = "viewed", !.viewed = viewed,
                                                     !.latest = Latest(c)]]
    /\ UNCHANGED <<product, views, affinity, track, trackingPast>>

\* The keywords of what was viewed, in lower case.  Of too many the first ones are taken,
\* in the order in which the query listed their rows, which is any.
Sought(viewed) == {Lower[w] : w \in UNION {affinity[p].words : p \in viewed}} \ {Empty}
Keywords(viewed) == Cut(Sought(viewed), WordCap)

FindWords(r) ==
    /\ rec[r].pc = "viewed"
    /\ \E words \in Keywords(rec[r].viewed) :
           rec' = [rec EXCEPT ![r] = [@ EXCEPT !.pc = "words", !.words = words]]
    /\ UNCHANGED <<product, views, affinity, track, trackingPast>>

\* Active products that share one of them, the newest first
Created == [p \in Products |-> p]
Similar(viewed, words) ==
    {p \in Products : Active(p) /\ p \notin viewed /\ product[p].words \cap words # {}}

FindSimilar(r) ==
    /\ rec[r].pc = "words"
    /\ \E picks \in Best(Similar(rec[r].viewed, rec[r].words), SimilarCap, Created) :
           rec' = [rec EXCEPT ![r] = [@ EXCEPT !.pc = "similar", !.picks = picks]]
    /\ UNCHANGED <<product, views, affinity, track, trackingPast>>

\* The affinities with most mentions, of equal ones any
Mentions == [p \in Products |-> affinity[p].mentions]
Held == {p \in Products : affinity[p].held}
Rankings == Best(Held, TopCap, Mentions)

\* The popular ones fill the list up; one that is not active has its place, too.
Filled(picks, viewed, top) ==
    IF Cardinality(picks) >= Limit THEN Best(picks, Limit, Created)
    ELSE {picks \cup more : more \in Best(top \ (viewed \cup picks), Limit - Cardinality(picks), Mentions)}

FindTop(r) ==
    /\ rec[r].pc = "similar"
    /\ \E top \in Rankings : \E picks \in Filled(rec[r].picks, rec[r].viewed, top) :
           rec' = [rec EXCEPT ![r] = [@ EXCEPT !.pc = "ranked", !.words = {}, !.picks = picks]]
    /\ UNCHANGED <<product, views, affinity, track, trackingPast>>

\* recommendations: what is active by now, with its name and price
Show(r) ==
    /\ rec[r].pc = "ranked"
    /\ rec' = [rec EXCEPT ![r] = [@ EXCEPT !.pc = "shown",
                                                !.picks = {p \in rec[r].picks : Active(p)}]]
    /\ UNCHANGED <<product, views, affinity, track, trackingPast>>

-------------------------------------------------------------------------------

TrackingNext ==
    \/ \E k \in Trackings :
           \/ \E c \in Convs, p \in Products : FindProduct(k, c, p)
           \/ Track(k)
           \/ TrackFails(k)
    \/ \E p \in Products :
           \/ \E active \in BOOLEAN, words \in SUBSET Words :
                  UpdateProduct(p, [alive |-> TRUE, active |-> active, words |-> words])
           \/ RemoveProduct(p)
    \/ \E r \in Readers :
           \/ \E c \in Convs : FindViewed(r, c)
           \/ FindWords(r)
           \/ FindSimilar(r)
           \/ FindTop(r)
           \/ Show(r)

TrackingSpec == TrackingInit /\ [][TrackingNext]_trackingVars

-------------------------------------------------------------------------------

\* Every transaction that was carried out is counted, and what has a view has a count
\* of at least one for each of its conversations: the two statements of
\* trackProductView stay together, and overlapping calls do not overwrite each other.
MentionsAddUp ==
    \A p \in Products :
        /\ affinity[p].mentions = trackingPast.tracked[p]
        /\ affinity[p].mentions >= Cardinality(Viewers(p))

\* The keywords that recommendations are sought by are the product's, once it has been
\* tracked since its last edit, unless an older call wrote its own after that; those
\* of a product that has lost its keywords are kept (product-tracking.service.ts:75).
KeywordsFollow ==
    \A p \in Products :
        trackingPast.fresh[p] /\ product[p].words # {} => affinity[p].words = product[p].words

\* A customer is not recommended what the conversation showed last, nor anything it
\* showed as long as all of it is looked at (ViewCap), whatever is tracked meanwhile.
RecommendsNews ==
    \A r \in Readers : rec[r].pc = "shown" => rec[r].picks \cap rec[r].latest = {}

\* Nothing is recommended only if nothing popular is left to recommend and no product
\* shares a lower-case keyword with what was viewed (one with a capital is sought in
\* lower case and never found), unless rows changed while the list was made, more than
\* WordCap keywords were viewed, or the candidate was crowded out: by TopCap others as
\* popular, or by Limit inactive ones, which the controller takes out again afterwards.
Rivals(p) == {q \in Held \ {p} : affinity[q].mentions >= affinity[p].mentions}
NothingOnlyIfCrowdedOut ==
    \A r \in Readers, p \in Products :
        /\ rec[r].pc = "shown" /\ rec[r].picks = {} /\ ~rec[r].disturbed
        /\ Active(p) /\ p \notin rec[r].viewed
        => /\ \/ \A v \in rec[r].viewed, w \in product[p].words :
                     w \in affinity[v].words /\ w # Empty => Lower[w] # w
              \/ Cardinality(Sought(rec[r].viewed)) > WordCap
           /\ \/ ~affinity[p].held
              \/ Cardinality(Rivals(p)) >= TopCap
              \/ Cardinality({q \in Rivals(p) \ rec[r].viewed : ~Active(q)}) >= Limit

\* Views, affinities and the recommendations made from them, while several calls of
\* trackProductView and edits of the products overlap (product-tracking.service.ts).
TrackingSafe ==
    /\ MentionsAddUp
    /\ KeywordsFollow
    /\ RecommendsNews
    /\ NothingOnlyIfCrowdedOut
===============================================================================
