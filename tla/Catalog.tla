-------------------------------- MODULE Catalog --------------------------------
(***************************************************************************)
(* What a tenant's bot knows: its FAQs, or its products.  The dashboard     *)
(* creates, edits and deletes them; the service changes a row and then      *)
(* deletes the list that was cached for the tenant; the answers read that   *)
(* list, and cache what the table says when it is missing.  faq.service.ts  *)
(* and products.service.ts are the same code, so are their two readers, but *)
(* for an empty list: chat-engine.service.ts reads the table again, and     *)
(* fetchTopProductsCached answers with it.                                  *)
(*                                                                         *)
(* A text is named by the write that typed it: text[f] = n says that what   *)
(* is in field f was typed for the n-th write.                              *)
(***************************************************************************)
EXTENDS Integers, FiniteSets

CONSTANTS
    Items,         \* ids of rows, given out once
    Fields,        \* what is written in a row
    Tabs,          \* dashboards
    Requests,      \* requests that may be under way
    Askers,        \* messages that may be answered at a time
    NoItem,
    Scenes         \* bounds: the situations that are looked at

SceneType ==
    [faqs : BOOLEAN,          \* or products
     items : SUBSET Items,    \* rows there may be
     fields : SUBSET Fields,  \* fields that are edited one without the other
     tabs : SUBSET Tabs,      \* open dashboards
     askers : SUBSET Askers,
     writes : Nat,            \* writes carried out
     api : BOOLEAN,           \* the endpoints have other callers
     redisFails : BOOLEAN,    \* commands to Redis may fail
     requestsFail : BOOLEAN]  \* requests of a tab may fail

ASSUME CatalogAssumption ==
    /\ NoItem \notin Tabs \cup Items
    /\ IsFiniteSet(Tabs)
    /\ Scenes \subseteq SceneType

VARIABLES
    scene,  \* which list this is and what may happen to it; it stays
    table,  \* table[i]: the row of faqs or products
    cache,  \* the key faqs:<tenant> or products:<tenant>
    ask,    \* ask[m]: a message that looks the list up
    req,    \* req[k]: a request, from its sending to the table that follows it
    tab,    \* tab[b]: the page of a dashboard
    catalogPast    \* what the properties remember

catalogVars == <<scene, table, cache, ask, req, tab, catalogPast>>

Writes == 0..scene.writes
Row == [state : {"unborn", "alive", "deleted"}, active : BOOLEAN, text : [Fields -> Writes]]
Operations == {"add", "edit", "delete", "show", "hide", "view"}
NoRow == [state |-> "unborn", active |-> FALSE, text |-> [f \in Fields |-> 0]]

\* excused: the list was known to be old when it was put or left there.
NoKey == [held |-> FALSE, asOf |-> 0, empty |-> TRUE, excused |-> FALSE]
NoAsk == [pc |-> "idle", since |-> 0, asOf |-> 0, empty |-> TRUE, excused |-> FALSE]
NoForm == [item |-> NoItem, text |-> NoRow.text, calm |-> FALSE]
NoRequest == [pc |-> "idle", op |-> "view", tab |-> NoItem, item |-> NoItem, touched |-> {},
              form |-> NoForm, version |-> 0, rows |-> [i \in Items |-> NoRow]]

CatalogTypeOK ==
    /\ scene \in Scenes
    /\ table \in [Items -> Row]
    /\ cache \in [held : BOOLEAN, asOf : Writes, empty : BOOLEAN, excused : BOOLEAN]
    /\ ask \in [Askers -> [pc : {"idle", "missed", "found", "done"}, since : Writes,
                           asOf : Writes, empty : BOOLEAN, excused : BOOLEAN]]
    /\ \A k \in Requests :
           /\ req[k].pc \in {"idle", "sent", "checked", "written", "answered", "load", "listed"}
           /\ req[k].op \in Operations
           /\ req[k].pc \in {"answered", "load", "listed"} => req[k].tab \in Tabs
           /\ req[k].version <= catalogPast.writes
    /\ \A b \in Tabs : tab[b].busy \in Items \cup {NoItem} /\ tab[b].version <= catalogPast.writes
    \* A row that was deleted keeps out of every list, and is not written again.
    /\ \A i \in Items : table[i].state # "alive" => ~table[i].active
    \* writes: so many were carried out.  dropped: the last one whose key deletion was
    \* tried.  word: which write last typed a field.  unseen: a row was saved from a form
    \* opened on other texts than it had.  blind: in a form opened on a quiet page.
    \* newest: the newest list a tab has shown.  failed: a request of a tab failed.
    \* foreign: another caller sent one.
    /\ catalogPast.writes \in Writes /\ catalogPast.dropped \in 0..catalogPast.writes

Visible(r) == r.state = "alive" /\ r.active

\* findMany where isActive
Listed == [i \in Items |-> IF Visible(table[i]) THEN table[i] ELSE NoRow]
NothingListed == \A i \in Items : ~Visible(table[i])

CatalogInit ==
    /\ scene \in Scenes
    /\ table = [i \in Items |-> NoRow]
    /\ cache = NoKey
    /\ ask = [m \in Askers |-> NoAsk]
    /\ req = [k \in Requests |-> NoRequest]
    /\ tab = [b \in Tabs |-> [rows |-> [i \in Items |-> NoRow], version |-> 0,
                              loading |-> FALSE, busy |-> NoItem, form |-> NoForm]]
    /\ catalogPast = [writes |-> 0, dropped |-> 0,
                      word |-> [i \in Items |-> NoRow.text],
                      unseen |-> [i \in Items |-> FALSE], blind |-> [i \in Items |-> FALSE],
                      newest |-> [b \in Tabs |-> 0], failed |-> FALSE, foreign |-> FALSE]

Of(b) == {k \in Requests : req[k].tab = b}

--------------------------------------------------------------------------------
(* The tab *)

Sent(b, op, i, touched) ==
    [NoRequest EXCEPT !.pc = "sent", !.op = op, !.tab = b, !.item = i,
                      !.touched = touched, !.form = IF b = NoItem THEN NoForm ELSE tab[b].form]

\* Its forms: the one that adds, under the table, is covered by the one that edits.
Submit(k, b) ==
    /\ req[k].pc = "idle"
    /\ tab[b].form = NoForm
    /\ \A j \in Of(b) : req[j].op # "add"                            \* savingFaq
    /\ req' = [req EXCEPT ![k] = Sent(b, "add", NoItem, Fields)]
    /\ UNCHANGED <<table, cache, ask, tab, catalogPast>>

\* A row of the table can be clicked while the table is there and the row not busy.
Clickable(b, i) ==
    /\ ~tab[b].loading
    /\ tab[b].rows[i].state = "alive"
    /\ tab[b].busy # i
    /\ tab[b].form = NoForm

Quiet(b) == Of(b) = {} /\ tab[b].version = catalogPast.newest[b]

OpenEdit(b, i) ==
    /\ scene.faqs
    /\ Clickable(b, i)
    /\ tab' = [tab EXCEPT ![b].form = [item |-> i, text |-> tab[b].rows[i].text,
                                       calm |-> Quiet(b)]]
    /\ UNCHANGED <<table, cache, ask, req, catalogPast>>

Saving(b) == \E j \in Of(b) : req[j].op = "edit"                     \* savingFaqEdit

CloseEdit(b) ==
    /\ tab[b].form # NoForm
    /\ ~Saving(b)
    /\ tab' = [tab EXCEPT ![b].form = NoForm]
    /\ UNCHANGED <<table, cache, ask, req, catalogPast>>

\* All fields are sent, those the agent changed and those the form was opened with.
SaveEdit(k, b, touched) ==
    /\ req[k].pc = "idle"
    /\ tab[b].form # NoForm
    /\ ~Saving(b)
    /\ req' = [req EXCEPT ![k] = Sent(b, "edit", tab[b].form.item, touched)]
    /\ UNCHANGED <<table, cache, ask, tab, catalogPast>>

Delete(k, b, i) ==
    /\ req[k].pc = "idle"
    /\ Clickable(b, i)
    /\ req' = [req EXCEPT ![k] = Sent(b, "delete", i, {})]
    /\ tab' = [tab EXCEPT ![b].busy = i]
    /\ UNCHANGED <<table, cache, ask, catalogPast>>

\* The view is opened.
View(k, b) ==
    /\ req[k].pc = "idle"
    /\ tab[b].form = NoForm
    /\ req' = [req EXCEPT ![k] = [NoRequest EXCEPT !.pc = "load", !.tab = b]]
    /\ tab' = [tab EXCEPT ![b].loading = TRUE]
    /\ UNCHANGED <<table, cache, ask, catalogPast>>

\* The answer came: the form is closed, and the table read again.
Answered(k) ==
    LET b == req[k].tab IN
    /\ req[k].pc = "answered"
    /\ req' = [req EXCEPT ![k].pc = "load"]
    /\ tab' = [tab EXCEPT ![b].loading = TRUE,
                          ![b].form = IF req[k].op = "edit" THEN NoForm ELSE @]
    /\ UNCHANGED <<table, cache, ask, catalogPast>>

FindAllByTenant(k) ==
    /\ req[k].pc = "load"
    /\ req' = [req EXCEPT ![k] = [@ EXCEPT !.pc = "listed", !.rows = Listed,
                                           !.version = catalogPast.writes]]
    /\ UNCHANGED <<table, cache, ask, tab, catalogPast>>

\* Whichever list comes in is shown, and the spinner goes.
TableArrives(k) ==
    LET b == req[k].tab IN
    /\ req[k].pc = "listed"
    /\ tab' = [tab EXCEPT ![b].rows = req[k].rows, ![b].version = req[k].version,
                          ![b].loading = FALSE,
                          ![b].busy = IF req[k].op = "delete" THEN NoItem ELSE @]
    /\ catalogPast' = [catalogPast EXCEPT !.newest[b] = IF @ < req[k].version THEN req[k].version ELSE @]
    /\ req' = [req EXCEPT ![k] = NoRequest]
    /\ UNCHANGED <<table, cache, ask>>

\* A request fails, or its answer is lost; a form stays open, a list that fails
\* leaves an empty table.  The server goes on with what it has received.
RequestFails(k) ==
    LET b == req[k].tab
        loads == req[k].pc \in {"load", "listed"}
    IN
    /\ scene.requestsFail
    /\ req[k].pc # "idle" /\ b # NoItem
    /\ req' = [req EXCEPT ![k] = IF req[k].pc \in {"sent", "checked", "written"}
                                 THEN [@ EXCEPT !.tab = NoItem] ELSE NoRequest]
    /\ tab' = [tab EXCEPT ![b].rows = IF loads THEN NoRequest.rows ELSE @,
                          ![b].loading = @ /\ ~loads,
                          ![b].busy = IF req[k].op = "delete" THEN NoItem ELSE @]
    /\ catalogPast' = [catalogPast EXCEPT !.failed = TRUE]
    /\ UNCHANGED <<table, cache, ask>>

--------------------------------------------------------------------------------
(* The service *)

\* Other callers of the endpoints send the fields they mean, and isActive.
ApiCall(k, op, i, touched) ==
    /\ scene.api
    /\ req[k].pc = "idle"
    /\ op # "view" /\ (op = "edit" <=> touched # {})
    /\ (op = "add") <=> (i = NoItem)
    /\ req' = [req EXCEPT ![k] = Sent(NoItem, op, i, IF op = "add" THEN Fields ELSE touched)]
    /\ catalogPast' = [catalogPast EXCEPT !.foreign = TRUE]
    /\ UNCHANGED <<table, cache, ask, tab>>

\* A request of the tab that is refused ends with an error there: its form stays.
Refuse(k) ==
    /\ req' = [req EXCEPT ![k] = NoRequest]
    /\ tab' = [b \in Tabs |-> IF b = req[k].tab /\ req[k].op = "delete"
                              THEN [tab[b] EXCEPT !.busy = NoItem] ELSE tab[b]]
    /\ catalogPast' = [catalogPast EXCEPT !.failed = @ \/ req[k].tab # NoItem]
    /\ UNCHANGED <<table, cache, ask>>

\* ensureExists; an inactive row exists.
EnsureExists(k) ==
    /\ req[k].pc = "sent" /\ req[k].op # "add"
    /\ IF table[req[k].item].state = "alive"
       THEN /\ req' = [req EXCEPT ![k].pc = "checked"]
            /\ UNCHANGED <<table, cache, ask, tab, catalogPast>>
       ELSE Refuse(k)

\* Mutant of Typed: an edit forgets the fields the agent left alone.
TypedOnly(k, r, n) == [f \in Fields |-> IF f \in req[k].touched THEN n ELSE 0]

\* The texts after write n: of a form, all its fields; of another caller, those sent.
Typed(k, r, n) ==
    [f \in Fields |-> IF f \in req[k].touched THEN n
                      ELSE IF req[k].form # NoForm THEN req[k].form.text[f] ELSE r.text[f]]

WrittenRow(k, i, n) ==
    LET r == table[i] IN
    CASE req[k].op = "add" -> [state |-> "alive", active |-> TRUE, text |-> Typed(k, r, n)]
      [] req[k].op = "edit" -> [r EXCEPT !.text = Typed(k, r, n)]
      [] req[k].op = "delete" -> [r EXCEPT !.state = "deleted", !.active = FALSE]
      [] req[k].op = "show" -> [r EXCEPT !.active = TRUE]
      [] req[k].op = "hide" -> [r EXCEPT !.active = FALSE]

\* P2025: the row was deleted since the check.
Missing(k, i) == req[k].op # "add" /\ table[i].state # "alive"

\* The statement of create, update or remove.
Write(k, i) ==
    LET n == catalogPast.writes + 1
        old == req[k].form # NoForm /\ req[k].form.text # table[i].text
    IN
    /\ \/ req[k].op = "add" /\ req[k].pc = "sent" /\ table[i].state = "unborn"
       \/ req[k].op # "add" /\ req[k].pc = "checked" /\ i = req[k].item
    /\ n <= scene.writes
    /\ IF Missing(k, i) THEN Refuse(k)
       ELSE /\ table' = [table EXCEPT ![i] = WrittenRow(k, i, n)]
            /\ req' = [req EXCEPT ![k] = [@ EXCEPT !.pc = "written", !.version = n,
                                                   !.touched = {}, !.form = NoForm]]
            /\ catalogPast' = [catalogPast EXCEPT !.writes = n,
                   !.word[i] = [f \in Fields |-> IF f \in req[k].touched THEN n ELSE @[f]],
                   !.unseen[i] = @ \/ old,
                   !.blind[i] = @ \/ (old /\ req[k].form.calm)]
            /\ UNCHANGED <<cache, ask, tab>>

\* After its key deletion a request is answered, if its tab still waits.
Done(k) ==
    req' = [req EXCEPT ![k] = IF req[k].tab = NoItem THEN NoRequest
                                  ELSE [@ EXCEPT !.pc = "answered", !.version = 0]]

Dropped(n) == catalogPast' = [catalogPast EXCEPT !.dropped = IF @ < n THEN n ELSE @]

\* Mutant of DelKey: a new row does not delete the list.
DelKeyOfChanges(k) ==
    /\ req[k].pc = "written"
    /\ cache' = IF req[k].op = "add" THEN cache ELSE NoKey
    /\ Dropped(req[k].version)
    /\ Done(k)
    /\ UNCHANGED <<table, ask, tab>>

\* cache.del, whose errors are swallowed.
DelKey(k) ==
    /\ req[k].pc = "written"
    /\ \/ cache' = NoKey
       \/ /\ scene.redisFails
          /\ cache' = [cache EXCEPT !.excused = cache.held /\ (@ \/ cache.asOf < req[k].version)]
    /\ Dropped(req[k].version)
    /\ Done(k)
    /\ UNCHANGED <<table, ask, tab>>

--------------------------------------------------------------------------------
(* The answers: matchMessage and fetchTopProductsCached *)

Believed == cache.held /\ ~(scene.faqs /\ cache.empty)

CacheGet(m) ==
    /\ ask[m].pc \in {"idle", "done"}
    /\ \/ /\ Believed
          /\ ask' = [ask EXCEPT ![m] = [pc |-> "done", since |-> catalogPast.dropped, asOf |-> cache.asOf,
                                        empty |-> cache.empty, excused |-> cache.excused]]
       \/ /\ ~Believed \/ scene.redisFails
          /\ ask' = [ask EXCEPT ![m] = [NoAsk EXCEPT !.pc = "missed", !.since = catalogPast.dropped]]
    /\ UNCHANGED <<table, cache, req, tab, catalogPast>>

FindMany(m) ==
    /\ ask[m].pc = "missed"
    /\ ask' = [ask EXCEPT ![m] = [@ EXCEPT !.pc = "found", !.asOf = catalogPast.writes,
                                           !.empty = NothingListed]]
    /\ UNCHANGED <<table, cache, req, tab, catalogPast>>

\* The list is cached, whatever was written and dropped since it was read.
CacheSet(m) ==
    /\ ask[m].pc = "found"
    /\ ask' = [ask EXCEPT ![m].pc = "done"]
    /\ \/ cache' = [held |-> TRUE, asOf |-> ask[m].asOf, empty |-> ask[m].empty,
                    excused |-> ask[m].asOf < catalogPast.dropped]
       \/ scene.redisFails /\ UNCHANGED cache
    /\ UNCHANGED <<table, req, tab, catalogPast>>

\* After 300 s, or when Redis makes room.
Expire ==
    /\ cache.held
    /\ cache' = NoKey
    /\ UNCHANGED <<table, ask, req, tab, catalogPast>>

--------------------------------------------------------------------------------

Tabwork(k) == Answered(k) \/ FindAllByTenant(k) \/ TableArrives(k)
Service(k) == EnsureExists(k) \/ (\E i \in scene.items : Write(k, i)) \/ DelKey(k)
Answer(m) == FindMany(m) \/ CacheSet(m)

CatalogStep ==
    \/ \E k \in Requests :
           \/ Tabwork(k)
           \/ Service(k)
           \/ RequestFails(k)
           \/ \E b \in scene.tabs : \/ Submit(k, b)
                                    \/ View(k, b)
                                    \/ \E touched \in SUBSET scene.fields : SaveEdit(k, b, touched)
                                    \/ \E i \in Items : Delete(k, b, i)
           \/ \E op \in Operations, i \in scene.items \cup {NoItem}, touched \in SUBSET scene.fields :
                  ApiCall(k, op, i, touched)
    \/ \E b \in scene.tabs : CloseEdit(b) \/ \E i \in Items : OpenEdit(b, i)
    \/ \E m \in scene.askers : CacheGet(m) \/ Answer(m)
    \/ Expire

CatalogNext == CatalogStep /\ UNCHANGED scene

CatalogSpec == CatalogInit /\ [][CatalogNext]_catalogVars

--------------------------------------------------------------------------------

\* A message is answered from a list that has every write whose service call was over
\* when the message asked (dropped), unless the deletion of the key failed or a list
\* read before a write was cached after the deletion (chat-engine.service.ts:84,
\* chat.service.ts:568).
NoOldAnswer ==
    \A m \in Askers : ask[m].pc = "done" => ask[m].asOf >= ask[m].since \/ ask[m].excused

\* The second look at an empty list (chat-engine.service.ts:69): whatever went wrong
\* with the key, a tenant that has added its first FAQ is not without one.
NoOldEmptiness ==
    \A m \in Askers :
        scene.faqs /\ ask[m].pc = "done" /\ ask[m].empty => ask[m].asOf >= ask[m].since

\* A field holds what was last typed for it, unless its row was saved from a form that
\* was opened on an older version of the row: saveFaqEdit sends every field.
WordsHold ==
    \A i \in Items :
        table[i].state = "alive" /\ ~catalogPast.unseen[i] => table[i].text = catalogPast.word[i]

\* An agent alone, none of whose requests failed, does not write over an edit of his
\* own from a form opened on a quiet page: the table is read again after each change.
OwnEditsKept ==
    Cardinality(scene.tabs) = 1 /\ ~catalogPast.foreign /\ ~catalogPast.failed =>
        \A i \in Items : ~catalogPast.blind[i]

\* An answer is made from what is stored now, though the list of the FAQs is cached and
\* its key deleted after each change (faqs.service.ts, products.service.ts).
AnswersSafe ==
    /\ NoOldAnswer
    /\ NoOldEmptiness

\* What agents type into a form is saved and shown, though the list is loaded anew
\* under their hands (MessagingDashboard.jsx).
FormsSafe ==
    /\ WordsHold
    /\ OwnEditsKept
================================================================================
