------------------------------ MODULE MCMessages ------------------------------
(***************************************************************************)
(* What surrounds a message, checked in one run: the limit on the traffic,  *)
(* the semantic memory, the views of products and the broadcasts.  The four *)
(* share no variable, so every behaviour moves one of them and the others   *)
(* stay as they start: the states are the sum of the four, not their        *)
(* product.  Model values are shared, too: k1 is a message here, a save     *)
(* there.                                                                   *)
(***************************************************************************)
EXTENDS RateLimit, Memory, Tracking, Broadcast, TLC

CONSTANTS k1, k2, k3, w1, w2, w3, w4, anyone

\* One message may come in and two go out per minute of two ticks.
SmallMax == [kind \in Kinds |-> IF kind = "webhook" THEN 1 ELSE 2]

\* One keyword is another with a capital.
W2Capital == [w \in Words |-> IF w = w2 THEN w1 ELSE w]

\* None, one, the capital and a blank, or one more than are sought
Wording == {{}, {w1}, {w2, w4}, {w1, w3}}
Worded == \A p \in Products : product[p].words \in Wording

VARIABLE part

\* A command fails or the process dies; one message is a carousel.
LimitStep ==
    part = "limit" /\ LimitNext /\ (faults + crashes)' <= 1
        /\ Cardinality({k \in Calls : call'[k].message = "carousel"}) <= 1
        /\ UNCHANGED <<part, memoryVars, trackingVars, broadcastVars>>
\* Three saves of which two overlap at a time, without a crash; or two with one.
MemoryStep ==
    part = "memory" /\ MemoryNext
        /\ \/ Cardinality(InFlight)' <= 2 /\ memoryPast'.crashes = 0
           \/ \E s \in Saves : save'[s].pc = "idle"
        /\ UNCHANGED <<part, limitVars, trackingVars, broadcastVars>>
\* Products are recommended while one is tracked, or two are tracked; and three
\* mentions, or two and a change of a product.
TrackingStep ==
    part = "tracking" /\ TrackingNext
        /\ \/ \A v \in Readers : rec'[v].pc = "idle"
           \/ \E k \in Trackings : track'[k].pc = "idle"
        /\ Worded'
        /\ trackingPast'.tracked[1] + trackingPast'.tracked[2] + trackingPast'.changes <= 3
        /\ UNCHANGED <<part, limitVars, memoryVars, broadcastVars>>
\* A customer writes during the first broadcast or the answer to an addition is lost; or
\* another is sent to two of them.  To the filter, a hot lead is like an interested one.
\* All rows may be one customer's: no property then holds because two are not.
OneCustomer == [c \in Recipients |-> anyone]
Lukewarm == \A c \in Recipients : status[c] # "hot"
BroadcastStep ==
    part = "broadcast" /\ BroadcastNext
        /\ LET troubles == broadcastPast'.moves + broadcastPast'.unheard[1] + broadcastPast'.unheard[2] IN
              /\ troubles <= 1
              /\ (troubles = 0 /\ Cardinality(Matching)' <= 2) \/ run'[2].pc = "idle"
        /\ Lukewarm'
        /\ UNCHANGED <<part, limitVars, memoryVars, trackingVars>>

Init ==
    /\ part \in {"limit", "memory", "tracking", "broadcast"}
    /\ MemoryInit
    \* One way to start is enough for a part that stays.
    /\ LimitInit /\ (part # "limit" => enabled)
    /\ TrackingInit /\ Worded /\ (part # "tracking" => \A p \in Products : product[p].words = {})
    /\ BroadcastInit /\ Lukewarm /\ (part # "broadcast" => \A c \in Recipients : ~Exists(c))

Next == LimitStep \/ MemoryStep \/ TrackingStep \/ BroadcastStep

Spec == Init /\ [][Next]_<<part, limitVars, memoryVars, trackingVars, broadcastVars>>

Alike == Permutations({k1, k2, k3})

\* Every part's state has its type and the relations between its variables that hold
\* by every single step.
MessagesTypeOK ==
    /\ RateLimitTypeOK
    /\ MemoryTypeOK
    /\ TrackingTypeOK
    /\ BroadcastTypeOK
===============================================================================
