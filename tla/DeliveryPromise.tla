--------------------------- MODULE DeliveryPromise ---------------------------
(***************************************************************************)
(* What the outbound queue promises its callers, without numbers, retries, *)
(* locks or crashes: a message that was accepted for sending is settled    *)
(* exactly once and for good; it is settled as completed only when the     *)
(* WhatsApp API has taken it at least once, or when there was a reason not *)
(* to send it; and every pending message is eventually settled.  The       *)
(* promise is at-least-once: it does not bound the deliveries of a pending *)
(* message, and a message reported as failed may have been delivered.      *)
(***************************************************************************)
EXTENDS Integers

CONSTANT Messages

VARIABLES
    phase,       \* phase[m]: where the caller sees message m
    deliveries,  \* deliveries[m]: how often the API has taken m
    obsolete     \* messages there is a reason not to send any more

promiseVars == <<phase, deliveries, obsolete>>

PromiseInit ==
    /\ phase = [m \in Messages |-> "unsent"]
    /\ deliveries = [m \in Messages |-> 0]
    /\ obsolete = {}

\* The caller hands the message over, or is refused.
Submit(m) ==
    /\ phase[m] = "unsent"
    /\ phase' = [phase EXCEPT ![m] = "pending"]
    /\ UNCHANGED <<deliveries, obsolete>>

Refuse(m) ==
    /\ phase[m] = "unsent"
    /\ phase' = [phase EXCEPT ![m] = "refused"]
    /\ UNCHANGED <<deliveries, obsolete>>

\* The API takes one copy of a pending message.
Deliver(m) ==
    /\ phase[m] = "pending"
    /\ deliveries' = [deliveries EXCEPT ![m] = @ + 1]
    /\ UNCHANGED <<phase, obsolete>>

\* Pending messages, any number at once, lose their reason to be sent.
BecomeObsolete ==
    \E S \in SUBSET {m \in Messages : phase[m] = "pending"} :
        /\ obsolete' = obsolete \cup S
        /\ UNCHANGED <<phase, deliveries>>

Complete(m) ==
    /\ phase[m] = "pending"
    /\ deliveries[m] > 0 \/ m \in obsolete
    /\ phase' = [phase EXCEPT ![m] = "completed"]
    /\ UNCHANGED <<deliveries, obsolete>>

Fail(m) ==
    /\ phase[m] = "pending"
    /\ phase' = [phase EXCEPT ![m] = "failed"]
    /\ UNCHANGED <<deliveries, obsolete>>

PromiseNext ==
    \/ BecomeObsolete
    \/ \E m \in Messages :
           Submit(m) \/ Refuse(m) \/ Deliver(m) \/ Complete(m) \/ Fail(m)

PromiseSafety == PromiseInit /\ [][PromiseNext]_promiseVars

\* Every pending message is settled.
PromiseSpec ==
    /\ PromiseSafety
    /\ \A m \in Messages : WF_promiseVars(Complete(m) \/ Fail(m))
=============================================================================
