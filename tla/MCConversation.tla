--------------------------- MODULE MCConversation ---------------------------
(* Finite instance of Conversation for TLC: the messages of one customer. *)
EXTENDS Conversation, TLC

CONSTANT c1

OneCustomer == [m \in Messages |-> c1]

\* Messages are interchangeable.
MessageSymmetry == Permutations(Messages)

\* For one finding: a corner of the behaviours.  Messages come through
\* Baileys, at most two are under way at a time, nothing fails, and every message
\* is answered by the FAQ with a number at hand for follow-ups.
PlainHandling ==
    /\ Cardinality({m \in Messages : handler'[m].pc \notin {"idle", "done"}}) <= 2
    /\ \A m \in Messages :
        /\ handler[m].pc = "idle" => handler'[m].pc \in {"idle", "count_all"}
        /\ handler'[m].pc = "decide" => handler'[m].lang = "ar"
        /\ handler'[m].pc \in {"commit", "lead"} =>
               handler'[m].status = "none" /\ ~handler'[m].order
        /\ handler[m].pc = "access" => handler'[m].pc \in {"access", "find"}
        /\ handler'[m].pc = "done" =>
               handler[m].pc \in {"reply", "done"} /\ handler'[m].kept
        /\ handler[m].pc = "account" /\ handler'[m].pc = "reply" =>
               handler'[m].nudge = "read"
        /\ handler[m].nudge = "enqueue" => handler'[m].nudge # "idle"
=============================================================================
