----------------------------- MODULE OrderFlow -----------------------------
(***************************************************************************)
(* An order taken in conversation with one customer of one tenant          *)
(* (ChatOrderDecisionService).  The order lives in the customer's lead: the *)
(* step it is at and the answers so far are columns of one row, which is    *)
(* unique per (tenant, phone).  tryHandle reads the row and, in the same    *)
(* synchronous continuation, decides on the write; the write itself is a    *)
(* second statement.  Other messages of the customer and the agents'        *)
(* changes of the lead's status come in between, and the write addresses    *)
(* the row by its id alone.                                                 *)
(***************************************************************************)
EXTENDS Integers

CONSTANTS
    Handlers,  \* handlings of the customer's messages that may overlap
    Texts,     \* what a message may say, see Wordings
    Limit      \* ORDER_FLOW_TTL_MS, in ticks

\* What the code finds in a text: keywords, and what passes as an answer.
Traits == {"products", "cancel", "intent", "name", "phone", "address"}

\* Every keyword has two characters or more and so would pass as a name; eight
\* digits would pass as an address.
Wordings ==
    {t \in SUBSET Traits :
        /\ t \cap {"products", "cancel", "intent", "address"} # {} => "name" \in t
        /\ "phone" \in t => "address" \in t}

ASSUME OrderAssumption ==
    /\ Texts \subseteq Wordings
    /\ Limit \in Nat

LeadStatus == {"NEW", "ORDER_PENDING", "CONTACTED", "CLOSED"}
Questions == {"awaiting_name", "awaiting_phone", "awaiting_address",
              "awaiting_product", "awaiting_notes"}
OrderStep == Questions \cup {"done"}
Columns == {"name", "orderPhone", "location", "interest"}

\* An answer is missing, older than the start of the order, or newer.
Answers == [Columns -> {"missing", "old", "new"}]

VARIABLES
    lead,     \* the row
    handler,  \* handler[h]: a handling of tryHandle
    known     \* known[h]: what has been so ever since the handling began

vars == <<lead, handler, known>>

LeadType ==
    [exists : BOOLEAN,
     status : LeadStatus,
     orderStep : OrderStep \cup {"none"},
     answers : Answers,
     age : 0..Limit + 1,   \* ticks since updatedAt; all above Limit are one
     alone : BOOLEAN]      \* no answer to an earlier order was under way when
                           \* this one was started

HandlerType ==
    [pc : {"idle", "arrived", "answer", "start", "confirmed"},
     intent : BOOLEAN,     \* isOrderIntent of the text
     step : OrderStep \cup {"none"},   \* the row it has read
     answers : Answers,
     alone : BOOLEAN]

\* none: no order was under way.  taken: the lead's status was not NEW.
\* stale: the lead was older than Limit.
KnownType == [none : BOOLEAN, taken : BOOLEAN, stale : BOOLEAN]

OrderTypeOK ==
    /\ lead \in LeadType
    /\ handler \in [Handlers -> HandlerType]
    /\ known \in [Handlers -> KnownType]

NoAnswers == [c \in Columns |-> "missing"]
Idle == [pc |-> "idle", intent |-> FALSE, step |-> "none", answers |-> NoAnswers,
         alone |-> FALSE]
NothingKnown == [none |-> FALSE, taken |-> FALSE, stale |-> FALSE]

Init ==
    /\ lead = [exists |-> FALSE, status |-> "NEW", orderStep |-> "none",
               answers |-> NoAnswers, age |-> 0, alone |-> FALSE]
    /\ handler = [h \in Handlers |-> Idle]
    /\ known = [h \in Handlers |-> NothingKnown]

At(h, pc) == handler[h].pc = pc
Stale == lead.age > Limit

\* The lead has become l: what has been so ever since remains known.
Changes(l) ==
    /\ lead' = l
    /\ known' = [h \in Handlers |->
           [none |-> known[h].none /\ l.orderStep = "none",
            taken |-> known[h].taken /\ l.status # "NEW",
            stale |-> known[h].stale /\ l.age > Limit]]

Finish(h, pc) == handler' = [handler EXCEPT ![h] = [Idle EXCEPT !.pc = pc]]
Leave(h) == Finish(h, "idle")

-----------------------------------------------------------------------------
(* tryHandle *)

\* A message of the customer comes in; what it says is not looked at yet.
Arrive(h) ==
    /\ At(h, "idle")
    /\ Finish(h, "arrived")
    /\ known' = [known EXCEPT ![h] = [none |-> lead.orderStep = "none",
                                      taken |-> lead.status # "NEW",
                                      stale |-> Stale]]
    /\ UNCHANGED lead

\* A FAQ answers, or the text asks for products: the order is left alone.  So
\* it is when a statement fails: the error ends the handling.
Bypass(h) ==
    /\ handler[h].pc \in {"arrived", "answer", "start"}
    /\ Leave(h)
    /\ UNCHANGED <<lead, known>>

\* A text that cancels takes the step away, whatever the status; there may be no
\* row yet.  (An update that fails is swallowed, which is a Bypass.)
Cancel(h) ==
    /\ At(h, "arrived")
    /\ \E text \in Texts : "cancel" \in text /\ "products" \notin text
    /\ IF lead.exists
       THEN Changes([lead EXCEPT !.orderStep = "none", !.age = 0])
       ELSE UNCHANGED <<lead, known>>
    /\ Leave(h)

\* Can the text be an answer to the question?  The product and the notes may be
\* anything; an order that is done asks for nothing.
Accepts(step, text) ==
    CASE step = "awaiting_name" -> "name" \in text
      [] step = "awaiting_phone" -> "phone" \in text
      [] step = "awaiting_address" -> "address" \in text
      [] OTHER -> step \in Questions

\* Mutant of Pending: an order counts whatever the lead's status.
PendingAnyStatus == lead.exists /\ lead.orderStep # "none"

\* The findFirst of the order under way.
Pending == lead.exists /\ lead.status = "NEW" /\ lead.orderStep # "none"

\* Mutant of Continues: the age of the order is not looked at.
ContinuesAnyAge(text) == Pending

\* Only a text with order intent brings an order back that is over the limit.
Continues(text) == Pending /\ (~Stale \/ "intent" \in text)

\* Mutant of Starts: any text starts an order when there is none.
StartsAnyText(text) == ~Pending

Starts(text) == ~Pending /\ "intent" \in text

\* The row is read, and what is to be written is decided on.
FindPending(h) ==
    /\ At(h, "arrived")
    /\ \E text \in Texts :
           LET intent == "intent" \in text
               answers == Continues(text) /\ Accepts(lead.orderStep, text)
           IN  /\ text \cap {"products", "cancel"} = {}
               /\ handler' = [handler EXCEPT ![h] =
                      CASE answers -> [pc |-> "answer", intent |-> intent,
                                       step |-> lead.orderStep,
                                       answers |-> lead.answers, alone |-> lead.alone]
                        [] Starts(text) -> [Idle EXCEPT !.pc = "start", !.intent = intent]
                        [] OTHER -> Idle]
    /\ UNCHANGED <<lead, known>>

\* Mutant of StartOrder: an order that was left half-way goes on where it was.
StartOrderHalfway(h) ==
    /\ At(h, "start")
    /\ Changes([exists |-> TRUE,
                status |-> "NEW",
                orderStep |-> IF lead.orderStep = "none" THEN "awaiting_name"
                              ELSE lead.orderStep,
                answers |-> [c \in Columns |->
                    IF lead.answers[c] = "missing" THEN "missing" ELSE "old"],
                age |-> 0,
                alone |-> \A i \in Handlers : ~At(i, "answer")])
    /\ Leave(h)

\* The upsert.  It keeps the answers of earlier orders; a new row may have the
\* name the channel has given.
StartOrder(h) ==
    /\ At(h, "start")
    /\ \E name \in IF lead.exists THEN {lead.answers["name"]} ELSE {"missing", "old"} :
           Changes([exists |-> TRUE,
                    status |-> "NEW",
                    orderStep |-> "awaiting_name",
                    answers |-> [c \in Columns |->
                        LET answer == IF c = "name" THEN name ELSE lead.answers[c]
                        IN  IF answer = "missing" THEN "missing" ELSE "old"],
                    age |-> 0,
                    alone |-> \A i \in Handlers : ~At(i, "answer")])
    /\ Leave(h)

-----------------------------------------------------------------------------
(* handleOrderStep: one update per question *)

Save(h, step, column, next) ==
    /\ At(h, "answer")
    /\ handler[h].step = step
    /\ Changes([lead EXCEPT !.answers[column] = "new", !.orderStep = next, !.age = 0])
    /\ Leave(h)

SaveName(h) == Save(h, "awaiting_name", "name", "awaiting_phone")
SavePhone(h) == Save(h, "awaiting_phone", "orderPhone", "awaiting_address")

\* Mutant of SaveAddress: the question after the next.
SaveAddressAndSkip(h) == Save(h, "awaiting_address", "location", "awaiting_notes")

SaveAddress(h) == Save(h, "awaiting_address", "location", "awaiting_product")

\* Mutant of SaveProduct: a step that no branch reads (the column is a string).
SaveProductMisspelt(h) == Save(h, "awaiting_product", "interest", "awaiting_note")

SaveProduct(h) == Save(h, "awaiting_product", "interest", "awaiting_notes")

\* The last answer makes the order, and the customer is told the answers that
\* the handling had read.
SaveNotes(h) ==
    /\ At(h, "answer")
    /\ handler[h].step = "awaiting_notes"
    /\ Changes([lead EXCEPT !.orderStep = "done", !.status = "ORDER_PENDING", !.age = 0])
    /\ handler' = [handler EXCEPT ![h].pc = "confirmed"]

\* The confirmation is on its way to the customer.
Confirm(h) ==
    /\ At(h, "confirmed")
    /\ Leave(h)
    /\ UNCHANGED <<lead, known>>

HandleOrderStep(h) ==
    \/ SaveName(h)
    \/ SavePhone(h)
    \/ SaveAddress(h)
    \/ SaveProduct(h)
    \/ SaveNotes(h)
    \/ Confirm(h)

TryHandle(h) ==
    \/ Bypass(h)
    \/ Cancel(h)
    \/ FindPending(h)
    \/ StartOrder(h)
    \/ HandleOrderStep(h)

-----------------------------------------------------------------------------

\* LeadsService.updateStatus: an agent sets the status, and nothing else.
UpdateStatus(status) ==
    /\ lead.exists
    /\ Changes([lead EXCEPT !.status = status, !.age = 0])
    /\ UNCHANGED handler

Tick ==
    /\ lead.exists /\ ~Stale
    /\ Changes([lead EXCEPT !.age = @ + 1])
    /\ UNCHANGED handler

Next ==
    \/ \E h \in Handlers : Arrive(h) \/ TryHandle(h)
    \/ \E status \in LeadStatus : UpdateStatus(status)
    \/ Tick

Spec == Init /\ [][Next]_vars

-----------------------------------------------------------------------------
(* Properties *)

\* However messages overlap, are cancelled, run over the limit or are overtaken by
\* agents: a confirmation never lists an answer that nobody has given ("—").
ConfirmationComplete ==
    \A h \in Handlers : At(h, "confirmed") =>
        \A c \in Columns : handler[h].answers[c] # "missing"

\* A confirmed order does not carry over an answer from an earlier order of the
\* customer, unless an answer to the earlier one was still being written when the
\* order was started.
ConfirmedAnswersAreNew ==
    \A h \in Handlers : At(h, "confirmed") /\ handler[h].alone =>
        \A c \in Columns : handler[h].answers[c] = "new"

\* What h has under way does to the lead.
Writes(h) == handler[h].pc \in {"answer", "start"} /\ handler'[h].pc # handler[h].pc

\* A cancelled order stays cancelled for every message that arrives later: only
\* one that asks for a new order may set a step again.
CancelHolds ==
    [][lead.orderStep = "none" /\ lead'.orderStep # "none" =>
          \E h \in Handlers : Writes(h) /\ (handler[h].intent \/ ~known[h].none)]_vars

\* Messages that arrive after agents took the lead up do not change its status
\* unless they ask for a new order.
TakenLeadHolds ==
    [][lead.status # "NEW" /\ lead'.status # lead.status /\ handler' # handler =>
          \E h \in Handlers : Writes(h) /\ (handler[h].intent \/ ~known[h].taken)]_vars

\* An order that nobody has touched within the limit is neither advanced nor
\* finished by a message that arrives later and does not ask to order.
StaleOrderHolds ==
    [][lead.orderStep # "none" /\ lead'.orderStep \notin {"none", lead.orderStep} =>
          \E h \in Handlers : Writes(h) /\ (handler[h].intent \/ ~known[h].stale)]_vars
=============================================================================
