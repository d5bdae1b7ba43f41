------------------------------- MODULE Broadcast -------------------------------
(***************************************************************************)
(* A message to all customers of a tenant.  BroadcastService.send counts    *)
(* the conversations that match a filter, reads them page by page, the      *)
(* newest first, by an offset into a list that customers reorder by         *)
(* writing, and queues a message for each, later ones with longer delays.   *)
(* The dashboard waits for the answer of it all.                            *)
(***************************************************************************)
EXTENDS Integers, FiniteSets, SequencesExt

CONSTANTS
    Recipients,  \* conversations: rows, of which a customer may have several
    CustomerOf,  \* CustomerOf[c]: whom messages to c are sent to
    Runs,        \* requests of a broadcast, in their order
    Texts,
    Nothing,
    Filter,      \* "all", "new", "interested" or "hot"
    BatchSize,   \* 500
    MaxTotal,    \* 10 000
    MaxMoves,    \* bound: messages of customers and new conversations
    MaxUnheard   \* bound: answers of the queue that are lost, for each run

ASSUME BroadcastAssumption ==
    /\ Filter \in {"all", "new", "interested", "hot"}
    /\ IsFiniteSet(Recipients) /\ Runs \subseteq Nat
    /\ BatchSize \in Nat \ {0} /\ MaxTotal \in Nat /\ MaxMoves \in Nat /\ MaxUnheard \in Nat
    /\ Nothing \notin Texts /\ Nothing \notin Runs

VARIABLES
    status,   \* status[c]: leadStatus of c, "none" without a row
    date,     \* date[c]: lastMessageAt of c, 0 as long as it has none
    run,      \* run[b]
    jobs,     \* the text jobs in the outbound queue, in the order of their addition
    tab,      \* the broadcast form of a dashboard
    broadcastPast      \* what the properties remember

broadcastVars == <<status, date, run, jobs, tab, broadcastPast>>

Leads == {"new", "interested", "hot"}
NoRun == [pc |-> "idle", text |-> Nothing, total |-> 0, offset |-> 0, page |-> <<>>, at |-> 1,
          take |-> 0, queued |-> 0, skipped |-> 0]

Least(i, j) == IF i < j THEN i ELSE j
Exists(c) == status[c] # "none"
Matches(c) == Exists(c) /\ Filter \in {"all", status[c]}
Matching == {c \in Recipients : Matches(c)}
Fresh == {c \in Matching : date[c] = 0}

\* What ORDER BY last_message_at DESC may list: rows without a date come first, in any order.
Ahead(c, d) == date[c] = 0 \/ (date[d] # 0 /\ date[d] < date[c])
Listings == {l \in SetToSeqs(Matching) : \A i, j \in 1..Len(l) : i < j => Ahead(l[i], l[j])}

\* Every message has a date of its own.
Now == Cardinality(Recipients) + broadcastPast.moves + 1

Working == {"counted", "page"}
RunType ==
    [pc : Working \cup {"idle", "posted", "done", "failed"}, text : Texts \cup {Nothing},
     total : 0..MaxTotal, offset : Nat, page : Seq(Recipients), at : Nat, take : Nat,
     queued : Nat, skipped : Nat]
JobType == [run : Runs, conv : Recipients, due : Nat]
PastType ==
    [moves : 0..MaxMoves, unanswered : SUBSET Runs, skips : SUBSET (Runs \X Recipients),
     moved : [Runs -> SUBSET Recipients], joined : [Runs -> SUBSET Recipients],
     left : [Runs -> SUBSET Recipients], listed : [Runs -> SUBSET Recipients],
     tied : [Runs -> BOOLEAN], unheard : [Runs -> 0..MaxUnheard]]

JobsOf(b) == {i \in 1..Len(jobs) : jobs[i].run = b}

BroadcastTypeOK ==
    /\ status \in [Recipients -> Leads \cup {"none"}]
    /\ date \in [Recipients -> 0..(Now - 1)]
    /\ \A c, d \in Recipients : date[c] = date[d] => date[c] = 0 \/ c = d
    /\ \A c \in Recipients : Exists(c) \/ date[c] = 0
    /\ run \in [Runs -> RunType]
    /\ \A b \in Runs :
           /\ run[b].offset + Len(run[b].page) <= run[b].total
           /\ run[b].at \in 1..(Len(run[b].page) + 1)
    /\ jobs \in Seq(JobType)
    /\ tab \in [text : Texts \cup {Nothing}, waits : Runs \cup {Nothing},
                shows : {"nothing", "error", "result"}]
    \* moved[b], joined[b], left[b]: the customers who wrote, and those who came to match
    \* or ceased to match, since b counted.  listed[b]: those who matched then.  tied[b]:
    \* b read a page while two had no date.  unanswered: requests whose answer the tab
    \* has not seen.  unheard[b]: additions to the queue that b did not hear of.
    /\ broadcastPast \in PastType

BroadcastInit ==
    \* A row whose first message was not saved is new and has no date.
    \E n \in 0..Cardinality(Recipients), s \in [Recipients -> Leads \cup {"none"}] :
        /\ date \in [Recipients -> 0..n]
        /\ \A i \in 1..n : \E c \in Recipients : date[c] = i /\ \A d \in Recipients \ {c} : date[d] # i
        /\ \A c \in Recipients : s[c] \in IF date[c] = 0 THEN {"none", "new"} ELSE Leads
        /\ status = s
        /\ run = [b \in Runs |-> NoRun]
        /\ jobs = <<>>
        /\ tab = [text |-> Nothing, waits |-> Nothing, shows |-> "nothing"]
        /\ broadcastPast = [moves |-> 0, unanswered |-> {}, skips |-> {},
                            moved |-> [b \in Runs |-> {}], joined |-> [b \in Runs |-> {}],
                            left |-> [b \in Runs |-> {}], listed |-> [b \in Runs |-> {}],
                            tied |-> [b \in Runs |-> FALSE], unheard |-> [b \in Runs |-> 0]]

-------------------------------------------------------------------------------
(* Customers *)

Moved(c) ==
    LET seen(f, test) == [b \in Runs |-> IF run[b].pc \in Working /\ test THEN f[b] \cup {c}
                                         ELSE f[b]]
        matched == Matches(c)
        matches == Filter \in {"all", status'[c]}
    IN  /\ broadcastPast.moves < MaxMoves
        /\ broadcastPast' = [broadcastPast EXCEPT !.moves = @ + 1, !.moved = seen(@, TRUE),
                                                  !.joined = seen(@, ~matched /\ matches),
                                                  !.left = seen(@, matched /\ ~matches)]

\* A customer who writes for the first time has a row before anything is dated; first
\* messages that overlap leave one each.
NewConversation(c) ==
    /\ ~Exists(c)
    /\ status' = [status EXCEPT ![c] = "new"]
    /\ Moved(c)
    /\ UNCHANGED <<date, run, jobs, tab>>

\* A message is saved; its words may make the customer interested or hot.
CustomerWrites(c) ==
    /\ Exists(c)
    /\ \E s \in {status[c], "interested", "hot"} : status' = [status EXCEPT ![c] = s]
    /\ date' = [date EXCEPT ![c] = Now]
    /\ Moved(c)
    /\ UNCHANGED <<run, jobs, tab>>

-------------------------------------------------------------------------------
(* The form *)

\* The text may be changed at any time, also while the tab waits.  Words that were sent
\* before and are typed once more count as another text.
Write(t) ==
    /\ t # tab.text /\ \A b \in Runs : run[b].text # t
    /\ tab' = [tab EXCEPT !.text = t]
    /\ UNCHANGED <<status, date, run, jobs, broadcastPast>>

SendBroadcast(b) ==
    /\ run[b].pc = "idle" /\ \A d \in Runs : d < b => run[d].pc # "idle"
    /\ tab.text # Nothing /\ tab.waits = Nothing
    /\ run' = [run EXCEPT ![b] = [NoRun EXCEPT !.pc = "posted", !.text = tab.text]]
    /\ tab' = [tab EXCEPT !.waits = b, !.shows = "nothing"]
    /\ UNCHANGED <<status, date, jobs, broadcastPast>>

\* The answer; the text goes, whatever it is by now.
ShowResult ==
    /\ tab.waits # Nothing /\ run[tab.waits].pc = "done"
    /\ tab' = [text |-> Nothing, waits |-> Nothing, shows |-> "result"]
    /\ UNCHANGED <<status, date, run, jobs, broadcastPast>>

\* The request failed, or its answer was lost and the run goes on.  The text stays.
ShowError ==
    /\ tab.waits # Nothing
    /\ tab' = [tab EXCEPT !.waits = Nothing, !.shows = "error"]
    /\ broadcastPast' = [broadcastPast EXCEPT !.unanswered = @ \cup {tab.waits}]
    /\ UNCHANGED <<status, date, run, jobs>>

-------------------------------------------------------------------------------
(* BroadcastService.send *)

\* No active number: nothing is sent, and all counts are 0.
NoNumber(b) ==
    /\ run[b].pc = "posted"
    /\ run' = [run EXCEPT ![b].pc = "done"]
    /\ UNCHANGED <<status, date, jobs, tab, broadcastPast>>

CountTotal(b) ==
    /\ run[b].pc = "posted"
    /\ run' = [run EXCEPT ![b].pc = "counted",
                          ![b].total = Least(Cardinality(Matching), MaxTotal)]
    /\ broadcastPast' = [broadcastPast EXCEPT !.listed[b] = Matching]
    /\ UNCHANGED <<status, date, jobs, tab>>

\* A page from the offset, while there is more to read
ReadPage(b) ==
    LET r == run[b]
        take == Least(BatchSize, r.total - r.offset)
    IN
    /\ r.pc = "counted" /\ r.offset < r.total
    /\ \E l \in Listings :
           run' = [run EXCEPT ![b] = [r EXCEPT !.pc = "page", !.take = take, !.at = 1,
                      !.page = SubSeq(l, r.offset + 1, Least(Len(l), r.offset + take))]]
    /\ broadcastPast' = [broadcastPast EXCEPT !.tied[b] = @ \/ Cardinality(Fresh) > 1]
    /\ UNCHANGED <<status, date, jobs, tab>>

\* The place in the whole list, which sets the delay
Index(r) == r.offset + r.at - 1

\* A job for the next of the page
Add(b) ==
    LET r == run[b] IN
    /\ r.pc = "page" /\ r.at <= Len(r.page)
    /\ jobs' = Append(jobs, [run |-> b, conv |-> r.page[r.at], due |-> Index(r)])
    /\ UNCHANGED <<status, date, tab>>

Enqueue(b) ==
    /\ Add(b)
    /\ run' = [run EXCEPT ![b].at = @ + 1, ![b].queued = @ + 1]
    /\ UNCHANGED broadcastPast

\* The job is added and the answer lost with the connection: the run still waits.  The
\* client sends the command again, which adds another one, or gives up, which is
\* EnqueueFails.
AddUnheard(b) ==
    /\ Add(b)
    /\ broadcastPast.unheard[b] < MaxUnheard
    /\ broadcastPast' = [broadcastPast EXCEPT !.unheard[b] = @ + 1]
    /\ UNCHANGED run

\* The queue is not there, or does not answer: the conversation is skipped and counted.
EnqueueFails(b) ==
    /\ run[b].pc = "page" /\ run[b].at <= Len(run[b].page)
    /\ run' = [run EXCEPT ![b].at = @ + 1, ![b].skipped = @ + 1]
    /\ broadcastPast' = [broadcastPast EXCEPT !.skips = @ \cup {<<b, run[b].page[run[b].at]>>}]
    /\ UNCHANGED <<status, date, jobs, tab>>

\* Mutant of NextOffset: one too far, for each page.
NextOffsetTooFar(r) == Least(r.offset + Len(r.page) + 1, r.total)

NextOffset(r) == r.offset + Len(r.page)

\* The page is done; one that was not full is the last.
PageDone(b) ==
    LET r == run[b] IN
    /\ r.pc = "page" /\ r.at > Len(r.page)
    /\ run' = [run EXCEPT ![b] =
                  [r EXCEPT !.offset = NextOffset(r), !.page = <<>>, !.at = 1,
                            !.pc = IF Len(r.page) < r.take THEN "done" ELSE "counted"]]
    /\ UNCHANGED <<status, date, jobs, tab, broadcastPast>>

AllDone(b) ==
    /\ run[b].pc = "counted" /\ run[b].offset >= run[b].total
    /\ run' = [run EXCEPT ![b].pc = "done"]
    /\ UNCHANGED <<status, date, jobs, tab, broadcastPast>>

\* A query fails, or the process ends: what is queued stays queued.
RunFails(b) ==
    /\ run[b].pc \in Working \cup {"posted"}
    /\ run' = [run EXCEPT ![b].pc = "failed"]
    /\ UNCHANGED <<status, date, jobs, tab, broadcastPast>>

-------------------------------------------------------------------------------

BroadcastNext ==
    \/ \E c \in Recipients : NewConversation(c) \/ CustomerWrites(c)
    \/ \E t \in Texts : Write(t)
    \/ ShowResult \/ ShowError
    \/ \E b \in Runs :
           \/ SendBroadcast(b)
           \/ NoNumber(b) \/ CountTotal(b) \/ ReadPage(b)
           \/ Enqueue(b) \/ AddUnheard(b) \/ EnqueueFails(b) \/ PageDone(b) \/ AllDone(b)
           \/ RunFails(b)

BroadcastSpec == BroadcastInit /\ [][BroadcastNext]_broadcastVars

-------------------------------------------------------------------------------

Sent(b, c) == (\E i \in JobsOf(b) : jobs[i].conv = c) \/ <<b, c>> \in broadcastPast.skips
HasCounted(b) == run[b].pc = "done" /\ broadcastPast.listed[b] # {}

\* The result a tab is shown adds up: of the messages of the run only those whose
\* addition it did not hear of may be missing from its count, and of the total nobody is
\* unaccounted for, unless a customer ceased to match meanwhile.
CountsAddUp ==
    \A b \in Runs :
        /\ Cardinality(JobsOf(b)) = run[b].queued + broadcastPast.unheard[b]
        /\ run[b].queued + run[b].skipped <= run[b].total
        /\ run[b].pc = "done" /\ broadcastPast.left[b] = {}
           => run[b].queued + run[b].skipped = run[b].total

\* A conversation that matched when the run counted is left out by a finished run only
\* if its customer wrote or ceased to match meanwhile, if another came to match or ceased
\* to, if the cap cut the list, or if the order of undated rows was open.
LeftOutIsExplained ==
    \A b \in Runs : \A c \in broadcastPast.listed[b] :
        HasCounted(b) /\ ~Sent(b, c)
        => \/ c \in broadcastPast.moved[b]
           \/ broadcastPast.joined[b] \cup broadcastPast.left[b] # {}
           \/ Cardinality(broadcastPast.listed[b]) > MaxTotal
           \/ broadcastPast.tied[b]

\* One run sends a customer two messages only if there are two rows of the customer,
\* somebody moved up the list between two of its pages, the order of undated rows was
\* open, or the same addition was made twice.
TwiceIsExplained ==
    \A b \in Runs : \A i, j \in JobsOf(b) :
        i < j /\ CustomerOf[jobs[i].conv] = CustomerOf[jobs[j].conv]
        => \/ jobs[i].conv # jobs[j].conv
           \/ broadcastPast.moved[b] # {}
           \/ broadcastPast.tied[b]
           \/ broadcastPast.unheard[b] > 0 /\ jobs[i].due = jobs[j].due

\* No two messages of a run are due at the same time, across its pages: the provider
\* gets them one delay apart, unless the same addition was made twice.
OneAfterTheOther ==
    \A i, j \in 1..Len(jobs) :
        i < j /\ jobs[i].run = jobs[j].run
        => \/ jobs[i].due < jobs[j].due
           \/ /\ broadcastPast.unheard[jobs[i].run] > 0
              /\ jobs[i].due = jobs[j].due /\ jobs[i].conv = jobs[j].conv

\* A customer gets the same text of two requests only if the tab was shown an error for
\* the first of them: sending it again is the agent's decision, who cannot know that the
\* first one may have gone through.
AgainOnlyAfterError ==
    \A i, j \in 1..Len(jobs) :
        LET a == jobs[i].run
            b == jobs[j].run
        IN  a < b /\ run[a].text = run[b].text => a \in broadcastPast.unanswered

\* A broadcast reads its recipients page by page from a list that changes, and may be
\* asked for again (broadcast.service.ts); who gets which message and when.
BroadcastSafe ==
    /\ CountsAddUp
    /\ LeftOutIsExplained
    /\ TwiceIsExplained
    /\ OneAfterTheOther
    /\ AgainOnlyAfterError
===============================================================================
