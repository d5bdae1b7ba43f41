-------------------------- MODULE Broadcast_proofs --------------------------
(***************************************************************************)
(* Proofs about broadcasts, for any number of customers and requests, any   *)
(* pages and any cap.                                                       *)
(***************************************************************************)
EXTENDS Broadcast, FiniteSetTheorems, TLAPS

-----------------------------------------------------------------------------
(* Sets and their sizes.                                                    *)

\* A subset of a finite set has a size, and it is not larger.
LEMMA Fewer ==
    ASSUME NEW B, IsFiniteSet(B), NEW A, A \subseteq B
    PROVE  /\ IsFiniteSet(A)
           /\ Cardinality(A) \in Nat /\ Cardinality(B) \in Nat
           /\ Cardinality(A) <= Cardinality(B)
  BY FS_Subset, FS_CardinalityType

\* One element more is one more at most, and exactly one if it is new.
LEMMA OneMore ==
    ASSUME NEW A, IsFiniteSet(A), NEW x
    PROVE  /\ IsFiniteSet(A \cup {x})
           /\ Cardinality(A) \in Nat /\ Cardinality(A \cup {x}) \in Nat
           /\ Cardinality(A \cup {x}) <= Cardinality(A) + 1
           /\ x \notin A => Cardinality(A \cup {x}) = Cardinality(A) + 1
<1>1. IsFiniteSet(A \cup {x})
      /\ Cardinality(A \cup {x}) = IF x \in A THEN Cardinality(A) ELSE Cardinality(A) + 1
  BY FS_AddElement
<1>2. Cardinality(A) \in Nat /\ Cardinality(A \cup {x}) \in Nat
  BY <1>1, FS_CardinalityType
<1> QED
  BY <1>1, <1>2

-----------------------------------------------------------------------------
(* Broadcasts.  A list that nobody disturbs has one place for each customer; *)
(* the invariants say how far down that list a run has come.                 *)

\* What a run has handled is queued or skipped.
AddsUp(b) ==
    LET r == run[b] IN
    /\ Cardinality(JobsOf(b)) = r.queued + broadcastPast.unheard[b]
    /\ r.queued + r.skipped = Index(r)
    /\ r.pc \in {"idle", "posted", "counted"} => r.page = <<>>
    /\ r.pc \in {"idle", "posted"} => r.total = 0 /\ broadcastPast.unheard[b] = 0
    /\ r.pc = "idle" <=> r.text = Nothing

\* Its messages are due in the order of its list, before what it has not handled yet,
\* unless it has not heard of an addition.
AtPlace(b, i) ==
    /\ broadcastPast.unheard[b] > 0
    /\ run[b].at <= Len(run[b].page)
    /\ jobs[i].due = Index(run[b]) /\ jobs[i].conv = run[b].page[run[b].at]
OneAddition(b, i, j) ==
    /\ broadcastPast.unheard[b] > 0
    /\ jobs[i].due = jobs[j].due /\ jobs[i].conv = jobs[j].conv
DuesFollow(b) ==
    /\ \A i \in JobsOf(b) : jobs[i].due < Index(run[b]) \/ AtPlace(b, i)
    /\ \A i, j \in JobsOf(b) : i < j => jobs[i].due < jobs[j].due \/ OneAddition(b, i, j)

\* As long as nobody who matched ceases to, the list is as long as it was when it was
\* counted, and so its pages are full.
PagesAreFull(b) ==
    LET r == run[b] IN
    /\ r.pc \in Working =>
           /\ r.total = Least(Cardinality(broadcastPast.listed[b]), MaxTotal)
           /\ broadcastPast.left[b] = {} => broadcastPast.listed[b] \subseteq Matching
           /\ broadcastPast.left[b] \cup broadcastPast.joined[b] = {}
              => broadcastPast.listed[b] = Matching
    /\ broadcastPast.left[b] = {} =>
           /\ r.pc = "page" => Len(r.page) = r.take
           /\ r.pc = "done" => r.queued + r.skipped = r.total

\* Those listed before c, whatever the order of undated rows.
Before(c) == {d \in Matching \ {c} : Ahead(d, c)}

\* If nobody has written and the order was never open, what a run has handled, and what
\* its page holds, is in its place still.
Undisturbed(b) == broadcastPast.moved[b] = {} /\ ~broadcastPast.tied[b]
PlacesKept(b) ==
    run[b].pc \in Working /\ Undisturbed(b) =>
        /\ \A i \in JobsOf(b) : Cardinality(Before(jobs[i].conv)) = jobs[i].due
        /\ \A k \in 1..Len(run[b].page) :
               Cardinality(Before(run[b].page[k])) = run[b].offset + k - 1
NoneTwice(b) ==
    Undisturbed(b) =>
        \A i, j \in JobsOf(b) : i < j => jobs[i].conv # jobs[j].conv \/ jobs[i].due = jobs[j].due

\* Once a page was read whose order was not open, nobody without a date comes up unless
\* somebody came to match.
OneUndated(b) ==
    LET r == run[b] IN
    /\ r.pc = "page" \/ (r.pc = "counted" /\ r.offset > 0)
    /\ ~broadcastPast.tied[b] /\ broadcastPast.joined[b] = {}
    => \A c, d \in Fresh : c = d

\* Whoever may not be left out, and has not been sent the message, is still to come:
\* in the page, or so far down the list that later pages have him.
Expected(b, c) ==
    /\ c \in broadcastPast.listed[b] \ broadcastPast.moved[b]
    /\ broadcastPast.joined[b] \cup broadcastPast.left[b] = {}
    /\ Cardinality(broadcastPast.listed[b]) <= MaxTotal
    /\ ~broadcastPast.tied[b]
ToCome(b, c) ==
    \/ \E k \in run[b].at..Len(run[b].page) : run[b].page[k] = c
    \/ Cardinality(Before(c)) >= run[b].offset + Len(run[b].page)
NoneForgotten(b) ==
    \A c \in Recipients :
        /\ Expected(b, c)
        /\ ~Sent(b, c)
        => /\ run[b].pc \in Working => ToCome(b, c)
           /\ run[b].pc # "done"

\* Before a run has counted, there is nothing to remember.
NothingYet(b) ==
    run[b].pc \in {"idle", "posted"} =>
        /\ broadcastPast.moved[b] = {} /\ broadcastPast.listed[b] = {}

RunHolds(b) ==
    /\ AddsUp(b)
    /\ DuesFollow(b)
    /\ PagesAreFull(b)
    /\ PlacesKept(b)
    /\ NoneTwice(b)
    /\ OneUndated(b)
    /\ NoneForgotten(b)
    /\ NothingYet(b)

\* A text stays in the form only while its request is under way or after an error.
TextsAreSpent ==
    \A b \in Runs :
        run[b].pc # "idle" =>
            /\ \/ b \in broadcastPast.unanswered
               \/ b = tab.waits
               \/ run[b].text # tab.text
            /\ \A a \in Runs : a < b =>
                   /\ run[a].pc # "idle"
                   /\ run[a].text = run[b].text => a \in broadcastPast.unanswered

BroadcastInv ==
    /\ BroadcastTypeOK
    /\ \A b \in Runs : RunHolds(b)
    /\ TextsAreSpent

LEMMA JobsAppended ==
    ASSUME jobs \in Seq(JobType), NEW b \in Runs, NEW j \in JobType, j.run = b,
           jobs' = Append(jobs, j)
    PROVE  /\ jobs' \in Seq(JobType)
           /\ Len(jobs) \in Nat
           /\ jobs'[Len(jobs) + 1] = j
           /\ Len(jobs) + 1 \notin JobsOf(b)
           /\ JobsOf(b)' = JobsOf(b) \cup {Len(jobs) + 1}
           /\ \A d \in Runs \ {b} : JobsOf(d)' = JobsOf(d)
           /\ \A i \in 1..Len(jobs) : jobs'[i] = jobs[i]
           /\ \A i \in JobsOf(b) : i <= Len(jobs)
<1>1. jobs' \in Seq(JobType) /\ Len(jobs') = Len(jobs) + 1 /\ Len(jobs) \in Nat
      /\ jobs'[Len(jobs) + 1] = j /\ \A i \in 1..Len(jobs) : jobs'[i] = jobs[i]
  OBVIOUS
<1>2. JobsOf(b)' = JobsOf(b) \cup {Len(jobs) + 1}
  BY <1>1 DEF JobsOf
<1>3. \A d \in Runs \ {b} : JobsOf(d)' = JobsOf(d)
  BY <1>1 DEF JobsOf
<1> QED
  BY <1>1, <1>2, <1>3 DEF JobsOf

LEMMA JobsAreFinite ==
    ASSUME jobs \in Seq(JobType), NEW b \in Runs
    PROVE  /\ IsFiniteSet(JobsOf(b)) /\ Cardinality(JobsOf(b)) \in Nat
           /\ \A i \in JobsOf(b) : i \in 1..Len(jobs) /\ jobs[i] \in JobType /\ jobs[i].run = b
<1>1. IsFiniteSet(1..Len(jobs))
  BY FS_Interval
<1>2. JobsOf(b) \subseteq 1..Len(jobs)
  BY DEF JobsOf
<1>3. \A i \in JobsOf(b) : i \in 1..Len(jobs) /\ jobs[i] \in JobType /\ jobs[i].run = b
  BY DEF JobsOf
<1> QED
  BY <1>1, <1>2, <1>3, Fewer

\* A listing has every customer who matches in one place.
LEMMA ListingFacts ==
    ASSUME NEW l \in Listings
    PROVE  /\ IsFiniteSet(Matching) /\ Cardinality(Matching) \in Nat
           /\ l \in [1..Cardinality(Matching) -> Matching]
           /\ l \in Seq(Recipients) /\ Len(l) = Cardinality(Matching)
           /\ \A i, j \in 1..Len(l) : i # j => l[i] # l[j]
           /\ \A i, j \in 1..Len(l) : i < j => Ahead(l[i], l[j])
           /\ \A c \in Matching : \E i \in 1..Len(l) : l[i] = c
<1>1. IsFiniteSet(Matching) /\ Cardinality(Matching) \in Nat
  <2>1. IsFiniteSet(Recipients) /\ Matching \subseteq Recipients
    BY BroadcastAssumption DEF Matching
  <2> QED
    BY <2>1, Fewer
<1> DEFINE n == Cardinality(Matching)
<1>2. /\ l \in [1..n -> Matching]
      /\ \A i, j \in 1..n : i # j => l[i] # l[j]
      /\ \A i, j \in 1..Len(l) : i < j => Ahead(l[i], l[j])
  BY DEF Listings, SetToSeqs
<1>3. l \in Seq(Recipients) /\ Len(l) = n
  <2>1. Matching \subseteq Recipients
    BY DEF Matching
  <2> QED
    BY <1>1, <1>2, <2>1
<1>4. l \in Injection(1..n, Matching)
  BY <1>2 DEF Injection, IsInjective
<1>5. Cardinality(1..n) = n
  BY <1>1, FS_Interval
<1>6. l \in Surjection(1..n, Matching)
  <2>1. Cardinality(1..n) = Cardinality(Matching) <=> l \in Surjection(1..n, Matching)
    BY <1>1, <1>4, FS_Injection
  <2> QED
    BY <1>5, <2>1
<1>7. \A c \in Matching : \E i \in 1..n : l[i] = c
  BY <1>6 DEF Surjection
<1> QED
  BY <1>1, <1>2, <1>3, <1>7

\* What a step of run b leaves alone.
OnlyRun(b) ==
    /\ UNCHANGED <<status, date>>
    /\ broadcastPast'.moves = broadcastPast.moves
    /\ broadcastPast'.moved = broadcastPast.moved
    /\ broadcastPast'.joined = broadcastPast.joined
    /\ broadcastPast'.left = broadcastPast.left
    /\ broadcastPast'.unanswered = broadcastPast.unanswered
    /\ \A d \in Runs \ {b} :
           /\ run'[d] = run[d]
           /\ broadcastPast'.listed[d] = broadcastPast.listed[d]
           /\ broadcastPast'.tied[d] <=> broadcastPast.tied[d]
           /\ broadcastPast'.unheard[d] = broadcastPast.unheard[d]
           /\ \A c \in Recipients : <<d, c>> \in broadcastPast'.skips <=> <<d, c>> \in broadcastPast.skips
    /\ jobs' = jobs \/ \E j \in JobType : j.run = b /\ jobs' = Append(jobs, j)

\* A part of a sequence.
LEMMA PartOfList ==
    ASSUME NEW S, NEW l \in Seq(S), NEW a \in Nat, NEW m \in Nat, m <= Len(l)
    PROVE  LET p == SubSeq(l, a + 1, m) IN
           /\ p \in Seq(S)
           /\ m <= a => Len(p) = 0
           /\ a < m => Len(p) = m - a
           /\ \A k \in 1..Len(p) : a + k \in 1..Len(l) /\ p[k] = l[a + k]
<1>1. CASE m <= a
  BY <1>1
<1>2. CASE a < m
  BY <1>2
<1> QED
  BY <1>1, <1>2

LEMMA RunBecomes ==
    ASSUME run \in [Runs -> RunType], NEW b \in Runs, NEW r \in RunType,
           run' = [run EXCEPT ![b] = r]
    PROVE  /\ run' \in [Runs -> RunType] /\ run'[b] = r
           /\ \A d \in Runs \ {b} : run'[d] = run[d]
  OBVIOUS

LEMMA RunTypes ==
    ASSUME BroadcastTypeOK, NEW b \in Runs
    PROVE  /\ run[b] \in RunType
           /\ run[b].total \in Nat /\ run[b].offset \in Nat /\ run[b].at \in Nat
           /\ run[b].queued \in Nat /\ run[b].skipped \in Nat /\ run[b].take \in Nat
           /\ run[b].page \in Seq(Recipients) /\ Len(run[b].page) \in Nat
           /\ run[b].offset + Len(run[b].page) <= run[b].total
           /\ run[b].at \in 1..(Len(run[b].page) + 1)
           /\ Index(run[b]) \in Nat
           /\ \A k \in 1..Len(run[b].page) : run[b].page[k] \in Recipients
<1>1. run[b] \in RunType
  BY DEF BroadcastTypeOK
<1>2. /\ run[b].total \in Nat /\ run[b].offset \in Nat /\ run[b].at \in Nat
      /\ run[b].queued \in Nat /\ run[b].skipped \in Nat /\ run[b].take \in Nat
      /\ run[b].page \in Seq(Recipients)
  BY <1>1, BroadcastAssumption DEF RunType
<1>3. /\ run[b].offset + Len(run[b].page) <= run[b].total
      /\ run[b].at \in 1..(Len(run[b].page) + 1)
  BY DEF BroadcastTypeOK
<1>4. Len(run[b].page) \in Nat /\ \A k \in 1..Len(run[b].page) : run[b].page[k] \in Recipients
  BY <1>2
<1> QED
  BY <1>1, <1>2, <1>3, <1>4 DEF Index

\* A step that only gives b another row, and notes something of it.
LEMMA OneRunTyped ==
    ASSUME BroadcastTypeOK, NEW b \in Runs, NEW r \in RunType,
           run' = [run EXCEPT ![b] = r],
           r.offset + Len(r.page) <= r.total, r.at \in 1..(Len(r.page) + 1),
           UNCHANGED <<status, date>>, jobs' \in Seq(JobType),
           tab' \in [text : Texts \cup {Nothing}, waits : Runs \cup {Nothing},
                     shows : {"nothing", "error", "result"}],
           broadcastPast' \in PastType, broadcastPast'.moves = broadcastPast.moves
    PROVE  /\ BroadcastTypeOK' /\ run'[b] = r
           /\ \A d \in Runs \ {b} : run'[d] = run[d]
<1>1. /\ run' \in [Runs -> RunType] /\ run'[b] = r
      /\ \A d \in Runs \ {b} : run'[d] = run[d]
  BY RunBecomes DEF BroadcastTypeOK
<1>2. Now' = Now
  BY DEF Now
<1>3. \A d \in Runs : /\ run'[d].offset + Len(run'[d].page) <= run'[d].total
                      /\ run'[d].at \in 1..(Len(run'[d].page) + 1)
  BY <1>1 DEF BroadcastTypeOK
<1> QED
  BY <1>1, <1>2, <1>3 DEF BroadcastTypeOK, Exists

LEMMA SendBroadcastFacts ==
    ASSUME BroadcastInv, NEW b \in Runs, SendBroadcast(b)
    PROVE  /\ BroadcastTypeOK' /\ OnlyRun(b)
           /\ run[b].pc = "idle"
           /\ run'[b] = [NoRun EXCEPT !.pc = "posted", !.text = tab.text]
           /\ tab.text \in Texts /\ tab.text # Nothing /\ tab.waits = Nothing
           /\ tab'.waits = b /\ tab'.text = tab.text
           /\ UNCHANGED <<jobs, broadcastPast>>
           /\ \A d \in Runs : d < b => run[d].pc # "idle"
<1>0. BroadcastTypeOK
  BY DEF BroadcastInv
<1> DEFINE r == [NoRun EXCEPT !.pc = "posted", !.text = tab.text]
<1>1. r \in RunType /\ r.offset + Len(r.page) <= r.total /\ r.at \in 1..(Len(r.page) + 1)
  <2>1. tab.text \in Texts \cup {Nothing} /\ <<>> \in Seq(Recipients) /\ Len(<<>>) = 0
    BY <1>0 DEF BroadcastTypeOK
  <2>2. NoRun \in RunType /\ NoRun.offset = 0 /\ NoRun.page = <<>> /\ NoRun.total = 0 /\ NoRun.at = 1
    BY <2>1, BroadcastAssumption DEF NoRun, RunType
  <2>3. r \in RunType /\ r.offset = NoRun.offset /\ r.page = NoRun.page /\ r.total = NoRun.total
        /\ r.at = NoRun.at
    BY <2>1, <2>2 DEF RunType
  <2> QED
    BY <2>1, <2>2, <2>3
<1>2. tab \in [text : Texts \cup {Nothing}, waits : Runs \cup {Nothing},
               shows : {"nothing", "error", "result"}]
  BY <1>0 DEF BroadcastTypeOK
<1>3. /\ tab' \in [text : Texts \cup {Nothing}, waits : Runs \cup {Nothing},
                   shows : {"nothing", "error", "result"}]
      /\ tab'.waits = b /\ tab'.text = tab.text
  BY <1>2 DEF SendBroadcast
<1>4. run' = [run EXCEPT ![b] = r] /\ UNCHANGED <<status, date, jobs, broadcastPast>>
  BY DEF SendBroadcast
<1>5. jobs \in Seq(JobType) /\ broadcastPast \in PastType
  BY <1>0 DEF BroadcastTypeOK
<1>6. BroadcastTypeOK' /\ run'[b] = r /\ \A d \in Runs \ {b} : run'[d] = run[d]
  <2> HIDE DEF r
  <2> QED
    BY <1>0, <1>1, <1>3, <1>4, <1>5, OneRunTyped
<1>7. OnlyRun(b)
  BY <1>4, <1>6 DEF OnlyRun
<1> QED
  BY <1>2, <1>3, <1>4, <1>6, <1>7 DEF SendBroadcast

LEMMA RunEndsFacts ==
    ASSUME BroadcastInv, NEW b \in Runs, NoNumber(b) \/ AllDone(b) \/ RunFails(b)
    PROVE  /\ BroadcastTypeOK' /\ OnlyRun(b)
           /\ \E pc \in {"done", "failed"} : run'[b] = [run[b] EXCEPT !.pc = pc]
           /\ run'[b].pc = "done" => \/ run[b].pc = "posted"
                                     \/ run[b].pc = "counted" /\ run[b].offset >= run[b].total
           /\ run[b].pc # "idle"
           /\ UNCHANGED <<jobs, tab, broadcastPast>>
<1>0. BroadcastTypeOK
  BY DEF BroadcastInv
<1>1. PICK pc \in {"done", "failed"} :
          /\ run' = [run EXCEPT ![b].pc = pc]
          /\ pc = "done" => \/ run[b].pc = "posted"
                            \/ run[b].pc = "counted" /\ run[b].offset >= run[b].total
          /\ run[b].pc # "idle"
          /\ UNCHANGED <<status, date, jobs, tab, broadcastPast>>
  BY DEF NoNumber, AllDone, RunFails, Working
<1> DEFINE r == [run[b] EXCEPT !.pc = pc]
<1>2. run[b] \in RunType /\ run[b].offset + Len(run[b].page) <= run[b].total
      /\ run[b].at \in 1..(Len(run[b].page) + 1)
  BY <1>0, RunTypes
<1>3. r \in RunType /\ r.offset + Len(r.page) <= r.total /\ r.at \in 1..(Len(r.page) + 1)
      /\ r.pc = pc
  BY <1>2 DEF RunType
<1>4. jobs \in Seq(JobType) /\ broadcastPast \in PastType
      /\ tab \in [text : Texts \cup {Nothing}, waits : Runs \cup {Nothing},
                  shows : {"nothing", "error", "result"}]
  BY <1>0 DEF BroadcastTypeOK
<1>5. BroadcastTypeOK' /\ run'[b] = r /\ \A d \in Runs \ {b} : run'[d] = run[d]
  <2>1. run' = [run EXCEPT ![b] = r]
    BY <1>1
  <2> HIDE DEF r
  <2> QED
    BY <1>0, <1>1, <1>3, <1>4, <2>1, OneRunTyped
<1>6. OnlyRun(b)
  BY <1>1, <1>5 DEF OnlyRun
<1> QED
  BY <1>1, <1>3, <1>5, <1>6

LEMMA CountTotalFacts ==
    ASSUME BroadcastInv, NEW b \in Runs, CountTotal(b)
    PROVE  /\ BroadcastTypeOK' /\ OnlyRun(b)
           /\ run[b].pc = "posted"
           /\ run'[b] = [run[b] EXCEPT !.pc = "counted",
                                       !.total = Least(Cardinality(Matching), MaxTotal)]
           /\ broadcastPast' = [broadcastPast EXCEPT !.listed[b] = Matching]
           /\ broadcastPast'.listed[b] = Matching
           /\ broadcastPast'.unheard = broadcastPast.unheard
           /\ UNCHANGED <<jobs, tab>>
<1>0. BroadcastTypeOK /\ AddsUp(b)
  BY DEF BroadcastInv, RunHolds
<1> DEFINE n == Least(Cardinality(Matching), MaxTotal)
           r == [run[b] EXCEPT !.pc = "counted", !.total = n]
<1>1. n \in 0..MaxTotal
  <2>1. IsFiniteSet(Recipients) /\ Matching \subseteq Recipients /\ MaxTotal \in Nat
    BY BroadcastAssumption DEF Matching
  <2>2. Cardinality(Matching) \in Nat
    BY <2>1, Fewer
  <2> QED
    BY <2>1, <2>2 DEF Least
<1>2. /\ run[b].pc = "posted" /\ run' = [run EXCEPT ![b] = r]
      /\ broadcastPast' = [broadcastPast EXCEPT !.listed[b] = Matching]
      /\ UNCHANGED <<status, date, jobs, tab>>
  BY DEF CountTotal
<1>3. run[b] \in RunType /\ run[b].offset + Len(run[b].page) <= run[b].total
      /\ run[b].at \in 1..(Len(run[b].page) + 1) /\ run[b].offset \in Nat /\ Len(run[b].page) \in Nat
  BY <1>0, RunTypes
<1>4. run[b].total = 0
  BY <1>0, <1>2 DEF AddsUp
<1>5. r \in RunType /\ r.offset + Len(r.page) <= r.total /\ r.at \in 1..(Len(r.page) + 1)
  <2>1. r \in RunType /\ r.offset = run[b].offset /\ r.page = run[b].page /\ r.total = n
        /\ r.at = run[b].at
    BY <1>1, <1>3 DEF RunType, Working
  <2> QED
    BY <1>1, <1>3, <1>4, <2>1
<1>6. jobs \in Seq(JobType) /\ broadcastPast \in PastType
      /\ tab \in [text : Texts \cup {Nothing}, waits : Runs \cup {Nothing},
                  shows : {"nothing", "error", "result"}]
  BY <1>0 DEF BroadcastTypeOK
<1>7. /\ broadcastPast' \in PastType /\ broadcastPast'.moves = broadcastPast.moves
      /\ broadcastPast'.listed[b] = Matching
      /\ broadcastPast'.unheard = broadcastPast.unheard
      /\ \A d \in Runs \ {b} : broadcastPast'.listed[d] = broadcastPast.listed[d]
  <2>1. Matching \subseteq Recipients
    BY DEF Matching
  <2> QED
    BY <1>2, <1>6, <2>1 DEF PastType
<1>8. BroadcastTypeOK' /\ run'[b] = r /\ \A d \in Runs \ {b} : run'[d] = run[d]
  <2> HIDE DEF r
  <2> QED
    BY <1>0, <1>2, <1>5, <1>6, <1>7, OneRunTyped
<1>9. OnlyRun(b)
  BY <1>2, <1>6, <1>7, <1>8 DEF OnlyRun, PastType
<1> QED
  BY <1>2, <1>7, <1>8, <1>9

LEMMA ReadPageFacts ==
    ASSUME BroadcastInv, NEW b \in Runs, ReadPage(b)
    PROVE  /\ BroadcastTypeOK' /\ OnlyRun(b)
           /\ run[b].pc = "counted" /\ run[b].offset < run[b].total
           /\ \E l \in Listings :
                  /\ run'[b].pc = "page" /\ run'[b].at = 1
                  /\ run'[b].take \in Nat /\ run[b].offset + run'[b].take <= run[b].total
                  /\ run'[b].offset = run[b].offset /\ run'[b].total = run[b].total
                  /\ run'[b].queued = run[b].queued /\ run'[b].skipped = run[b].skipped
                  /\ run'[b].text = run[b].text
                  /\ Len(run'[b].page) <= run'[b].take
                  /\ Len(run'[b].page) = IF Len(l) < run[b].offset THEN 0
                                         ELSE Least(Len(l), run[b].offset + run'[b].take) - run[b].offset
                  /\ \A k \in 1..Len(run'[b].page) :
                         /\ run[b].offset + k \in 1..Len(l)
                         /\ run'[b].page[k] = l[run[b].offset + k]
           /\ broadcastPast'.listed = broadcastPast.listed
           /\ broadcastPast'.skips = broadcastPast.skips
           /\ broadcastPast'.tied[b] <=> broadcastPast.tied[b] \/ Cardinality(Fresh) > 1
           /\ broadcastPast'.unheard = broadcastPast.unheard
           /\ UNCHANGED <<jobs, tab>>
<1>0. BroadcastTypeOK
  BY DEF BroadcastInv
<1> DEFINE q == run[b]
           take == Least(BatchSize, q.total - q.offset)
<1>1. /\ q \in RunType /\ q.offset \in Nat /\ q.total \in Nat
  BY <1>0, RunTypes
<1>2. /\ q.pc = "counted" /\ q.offset < q.total
      /\ UNCHANGED <<status, date, jobs, tab>>
      /\ broadcastPast' = [broadcastPast EXCEPT !.tied[b] = @ \/ Cardinality(Fresh) > 1]
  BY DEF ReadPage
<1>3. take \in Nat /\ q.offset + take <= q.total
  BY <1>1, <1>2, BroadcastAssumption DEF Least
<1>4. PICK l \in Listings :
          run' = [run EXCEPT ![b] = [q EXCEPT !.pc = "page", !.take = take, !.at = 1,
                      !.page = SubSeq(l, q.offset + 1, Least(Len(l), q.offset + take))]]
  BY DEF ReadPage
<1> DEFINE m == Least(Len(l), q.offset + take)
           p == SubSeq(l, q.offset + 1, m)
           r == [q EXCEPT !.pc = "page", !.take = take, !.at = 1, !.page = p]
<1>5. l \in Seq(Recipients) /\ Len(l) \in Nat
  BY ListingFacts
<1>6. m \in Nat /\ m <= Len(l) /\ m <= q.offset + take
  BY <1>1, <1>3, <1>5 DEF Least
<1>7. /\ p \in Seq(Recipients)
      /\ m <= q.offset => Len(p) = 0
      /\ q.offset < m => Len(p) = m - q.offset
      /\ \A k \in 1..Len(p) : q.offset + k \in 1..Len(l) /\ p[k] = l[q.offset + k]
  <2>1. PICK a \in Nat : a = q.offset
    BY <1>1
  <2> HIDE DEF m
  <2>2. LET e == SubSeq(l, a + 1, m) IN
        /\ e \in Seq(Recipients)
        /\ m <= a => Len(e) = 0
        /\ a < m => Len(e) = m - a
        /\ \A k \in 1..Len(e) : a + k \in 1..Len(l) /\ e[k] = l[a + k]
    BY <1>5, <1>6, PartOfList
  <2> QED
    BY <2>1, <2>2
<1>8. Len(p) \in Nat /\ Len(p) <= take
      /\ Len(p) = IF Len(l) < q.offset THEN 0 ELSE m - q.offset
  <2>1. Len(l) < q.offset => m < q.offset
    BY <1>1, <1>3, <1>5 DEF Least
  <2>2. Len(l) >= q.offset => m >= q.offset
    BY <1>1, <1>3, <1>5 DEF Least
  <2> HIDE DEF p, m, take
  <2> QED
    BY <1>1, <1>3, <1>5, <1>6, <1>7, <2>1, <2>2
<1>9. /\ r \in RunType /\ r.pc = "page" /\ r.take = take /\ r.at = 1 /\ r.page = p
      /\ r.offset = q.offset /\ r.total = q.total /\ r.queued = q.queued /\ r.skipped = q.skipped
      /\ r.text = q.text
  <2> HIDE DEF p, take
  <2> QED
    BY <1>1, <1>3, <1>7 DEF RunType, Working
<1>10. r.offset + Len(r.page) <= r.total /\ r.at \in 1..(Len(r.page) + 1)
  <2> HIDE DEF p, take, r
  <2> QED
    BY <1>1, <1>3, <1>8, <1>9
<1>11. jobs \in Seq(JobType) /\ broadcastPast \in PastType
       /\ tab \in [text : Texts \cup {Nothing}, waits : Runs \cup {Nothing},
                   shows : {"nothing", "error", "result"}]
  BY <1>0 DEF BroadcastTypeOK
<1>12. broadcastPast' \in PastType
  <2>1. (broadcastPast.tied[b] \/ Cardinality(Fresh) > 1) \in BOOLEAN
    OBVIOUS
  <2> QED
    BY <1>2, <1>11 DEF PastType
<1>13. /\ broadcastPast'.moves = broadcastPast.moves
       /\ broadcastPast'.moved = broadcastPast.moved
       /\ broadcastPast'.joined = broadcastPast.joined
       /\ broadcastPast'.left = broadcastPast.left
       /\ broadcastPast'.unanswered = broadcastPast.unanswered
       /\ broadcastPast'.listed = broadcastPast.listed
       /\ broadcastPast'.skips = broadcastPast.skips
       /\ \A d \in Runs \ {b} : broadcastPast'.tied[d] <=> broadcastPast.tied[d]
       /\ broadcastPast'.tied[b] <=> broadcastPast.tied[b] \/ Cardinality(Fresh) > 1
       /\ broadcastPast'.unheard = broadcastPast.unheard
  BY <1>2, <1>11 DEF PastType
<1>14. BroadcastTypeOK' /\ run'[b] = r /\ \A d \in Runs \ {b} : run'[d] = run[d]
  <2> HIDE DEF r, p, m, take
  <2>1. run' = [run EXCEPT ![b] = r]
    BY <1>4 DEF r, p, m, take
  <2> QED
    BY <1>0, <1>2, <1>9, <1>10, <1>11, <1>12, <1>13, <2>1, OneRunTyped
<1>15. OnlyRun(b)
  BY <1>2, <1>13, <1>14 DEF OnlyRun
<1> QED
  <2> HIDE DEF r, p, m, take
  <2>1. /\ run'[b].pc = "page" /\ run'[b].at = 1
        /\ run'[b].take \in Nat /\ run[b].offset + run'[b].take <= run[b].total
        /\ run'[b].offset = run[b].offset /\ run'[b].total = run[b].total
        /\ run'[b].queued = run[b].queued /\ run'[b].skipped = run[b].skipped
        /\ run'[b].text = run[b].text
        /\ Len(run'[b].page) <= run'[b].take
        /\ Len(run'[b].page) = IF Len(l) < run[b].offset THEN 0
                               ELSE Least(Len(l), run[b].offset + run'[b].take) - run[b].offset
    BY <1>3, <1>8, <1>9, <1>14 DEF m
  <2>2. \A k \in 1..Len(run'[b].page) :
            /\ run[b].offset + k \in 1..Len(l)
            /\ run'[b].page[k] = l[run[b].offset + k]
    BY <1>7, <1>9, <1>14
  <2> QED
    BY <1>2, <1>13, <1>14, <1>15, <2>1, <2>2

\* The next customer of the page, who is queued or skipped.
LEMMA HandleFacts ==
    ASSUME BroadcastInv, NEW b \in Runs, Enqueue(b) \/ EnqueueFails(b)
    PROVE  /\ BroadcastTypeOK' /\ OnlyRun(b)
           /\ run[b].pc = "page" /\ run[b].at \in 1..Len(run[b].page)
           /\ run[b].page[run[b].at] \in Recipients
           /\ run'[b].pc = "page" /\ run'[b].at = run[b].at + 1
           /\ run'[b].page = run[b].page /\ run'[b].take = run[b].take
           /\ run'[b].offset = run[b].offset /\ run'[b].total = run[b].total
           /\ run'[b].text = run[b].text
           /\ \/ /\ jobs' = Append(jobs, [run |-> b, conv |-> run[b].page[run[b].at],
                                          due |-> Index(run[b])])
                 /\ run'[b].queued = run[b].queued + 1 /\ run'[b].skipped = run[b].skipped
                 /\ UNCHANGED broadcastPast
              \/ /\ run'[b].skipped = run[b].skipped + 1 /\ run'[b].queued = run[b].queued
                 /\ broadcastPast' = [broadcastPast EXCEPT
                        !.skips = @ \cup {<<b, run[b].page[run[b].at]>>}]
                 /\ UNCHANGED jobs
           /\ broadcastPast'.listed = broadcastPast.listed
           /\ broadcastPast'.tied = broadcastPast.tied
           /\ broadcastPast'.unheard = broadcastPast.unheard
           /\ broadcastPast.skips \subseteq broadcastPast'.skips
           /\ UNCHANGED tab
<1>0. BroadcastTypeOK
  BY DEF BroadcastInv
<1> DEFINE q == run[b]
           c == q.page[q.at]
<1>1. /\ q.pc = "page" /\ q.at <= Len(q.page)
      /\ UNCHANGED <<status, date, tab>>
  BY DEF Enqueue, Add, EnqueueFails
<1>2. /\ q \in RunType /\ q.at \in Nat /\ q.queued \in Nat /\ q.skipped \in Nat
      /\ Len(q.page) \in Nat /\ q.at \in 1..Len(q.page) /\ Index(q) \in Nat
      /\ q.offset + Len(q.page) <= q.total /\ c \in Recipients
  BY <1>0, <1>1, RunTypes
<1>3. jobs \in Seq(JobType) /\ broadcastPast \in PastType
      /\ tab \in [text : Texts \cup {Nothing}, waits : Runs \cup {Nothing},
                  shows : {"nothing", "error", "result"}]
  BY <1>0 DEF BroadcastTypeOK
<1>4. CASE Enqueue(b)
  <2> DEFINE j == [run |-> b, conv |-> c, due |-> Index(q)]
             r == [q EXCEPT !.at = @ + 1, !.queued = @ + 1]
  <2>1. jobs' = Append(jobs, j) /\ UNCHANGED broadcastPast
    BY <1>4 DEF Enqueue, Add
  <2>2. j \in JobType /\ j.run = b
    BY <1>2 DEF JobType
  <2>3. jobs' \in Seq(JobType)
    BY <1>3, <2>1, <2>2
  <2>4. /\ r \in RunType /\ r.pc = q.pc /\ r.at = q.at + 1 /\ r.page = q.page /\ r.take = q.take
        /\ r.offset = q.offset /\ r.total = q.total /\ r.text = q.text
        /\ r.queued = q.queued + 1 /\ r.skipped = q.skipped
    <3>1. PICK a \in Nat, n \in Nat : a = q.at + 1 /\ n = q.queued + 1
      <4>1. q.at \in Nat /\ q.queued \in Nat
        BY <1>2
      <4>2. q.at + 1 \in Nat /\ q.queued + 1 \in Nat
        BY <4>1
      <4> QED
        BY <4>2
    <3>2. r = [q EXCEPT !.at = a, !.queued = n]
      BY <3>1
    <3> QED
      BY <1>2, <3>1, <3>2 DEF RunType
  <2>5. run' = [run EXCEPT ![b] = r]
    BY <1>0, <1>4 DEF Enqueue, Add, BroadcastTypeOK
  <2>6. r.offset + Len(r.page) <= r.total /\ r.at \in 1..(Len(r.page) + 1)
    BY <1>2, <2>4
  <2> HIDE DEF r, j
  <2>7. BroadcastTypeOK' /\ run'[b] = r /\ \A d \in Runs \ {b} : run'[d] = run[d]
    BY <1>0, <1>1, <1>3, <2>1, <2>3, <2>4, <2>5, <2>6, OneRunTyped
  <2>8. OnlyRun(b)
    BY <1>1, <2>1, <2>2, <2>7 DEF OnlyRun
  <2> QED
    BY <1>1, <1>2, <2>1, <2>4, <2>7, <2>8 DEF j
<1>5. CASE EnqueueFails(b)
  <2> DEFINE r == [q EXCEPT !.at = @ + 1, !.skipped = @ + 1]
  <2>1. /\ UNCHANGED jobs
        /\ broadcastPast' = [broadcastPast EXCEPT !.skips = @ \cup {<<b, c>>}]
    BY <1>5 DEF EnqueueFails
  <2>2. /\ broadcastPast' \in PastType
        /\ broadcastPast'.skips = broadcastPast.skips \cup {<<b, c>>}
        /\ broadcastPast'.moves = broadcastPast.moves
        /\ broadcastPast'.moved = broadcastPast.moved
        /\ broadcastPast'.joined = broadcastPast.joined
        /\ broadcastPast'.left = broadcastPast.left
        /\ broadcastPast'.unanswered = broadcastPast.unanswered
        /\ broadcastPast'.listed = broadcastPast.listed
        /\ broadcastPast'.tied = broadcastPast.tied
        /\ broadcastPast'.unheard = broadcastPast.unheard
    <3>1. PICK z \in SUBSET (Runs \X Recipients) : z = broadcastPast.skips \cup {<<b, c>>}
      <4>1. broadcastPast.skips \in SUBSET (Runs \X Recipients)
        BY <1>3 DEF PastType
      <4>2. <<b, c>> \in Runs \X Recipients
        BY <1>2
      <4> QED
        BY <4>1, <4>2
    <3>2. broadcastPast' = [broadcastPast EXCEPT !.skips = z]
      BY <2>1, <3>1
    <3> QED
      BY <1>3, <3>1, <3>2 DEF PastType
  <2>4. /\ r \in RunType /\ r.pc = q.pc /\ r.at = q.at + 1 /\ r.page = q.page /\ r.take = q.take
        /\ r.offset = q.offset /\ r.total = q.total /\ r.text = q.text
        /\ r.skipped = q.skipped + 1 /\ r.queued = q.queued
    <3>1. PICK a \in Nat, n \in Nat : a = q.at + 1 /\ n = q.skipped + 1
      <4>1. q.at \in Nat /\ q.skipped \in Nat
        BY <1>2
      <4>2. q.at + 1 \in Nat /\ q.skipped + 1 \in Nat
        BY <4>1
      <4> QED
        BY <4>2
    <3>2. r = [q EXCEPT !.at = a, !.skipped = n]
      BY <3>1
    <3> QED
      BY <1>2, <3>1, <3>2 DEF RunType
  <2>5. run' = [run EXCEPT ![b] = r]
    BY <1>0, <1>5 DEF EnqueueFails, BroadcastTypeOK
  <2>6. r.offset + Len(r.page) <= r.total /\ r.at \in 1..(Len(r.page) + 1)
    BY <1>2, <2>4
  <2> HIDE DEF r
  <2>7. BroadcastTypeOK' /\ run'[b] = r /\ \A d \in Runs \ {b} : run'[d] = run[d]
    BY <1>0, <1>1, <1>3, <2>1, <2>2, <2>4, <2>5, <2>6, OneRunTyped
  <2>8. \A d \in Runs \ {b} : \A e \in Recipients :
            <<d, e>> \in broadcastPast'.skips <=> <<d, e>> \in broadcastPast.skips
    BY <2>2
  <2>9. OnlyRun(b)
    BY <1>1, <2>1, <2>2, <2>7, <2>8 DEF OnlyRun
  <2> QED
    BY <1>1, <1>2, <2>1, <2>2, <2>4, <2>7, <2>9
<1> QED
  BY <1>4, <1>5

LEMMA UnheardIsNat ==
    ASSUME BroadcastTypeOK, NEW b \in Runs
    PROVE  broadcastPast.unheard[b] \in Nat
  BY BroadcastAssumption DEF BroadcastTypeOK, PastType

\* The next customer of the page is queued, and the run does not know.
LEMMA AddUnheardFacts ==
    ASSUME BroadcastInv, NEW b \in Runs, AddUnheard(b)
    PROVE  /\ BroadcastTypeOK' /\ OnlyRun(b)
           /\ run[b].pc = "page" /\ run[b].at \in 1..Len(run[b].page)
           /\ run'[b] = run[b] /\ UNCHANGED <<run, tab>>
           /\ jobs' = Append(jobs, [run |-> b, conv |-> run[b].page[run[b].at], due |-> Index(run[b])])
           /\ broadcastPast'.unheard[b] = broadcastPast.unheard[b] + 1
           /\ broadcastPast'.moves = broadcastPast.moves
           /\ broadcastPast'.moved = broadcastPast.moved
           /\ broadcastPast'.joined = broadcastPast.joined
           /\ broadcastPast'.left = broadcastPast.left
           /\ broadcastPast'.listed = broadcastPast.listed
           /\ broadcastPast'.tied = broadcastPast.tied
           /\ broadcastPast'.skips = broadcastPast.skips
<1>0. BroadcastTypeOK /\ jobs \in Seq(JobType) /\ broadcastPast \in PastType
  BY DEF BroadcastInv, BroadcastTypeOK
<1> DEFINE j == [run |-> b, conv |-> run[b].page[run[b].at], due |-> Index(run[b])]
<1>1. /\ run[b].pc = "page" /\ run[b].at <= Len(run[b].page) /\ jobs' = Append(jobs, j)
      /\ UNCHANGED <<run, status, date, tab>>
      /\ broadcastPast.unheard[b] < MaxUnheard
      /\ broadcastPast' = [broadcastPast EXCEPT !.unheard[b] = @ + 1]
  BY DEF AddUnheard, Add
<1>2. run[b].at \in 1..Len(run[b].page)
  BY <1>0, <1>1, RunTypes
<1>3. j \in JobType /\ j.run = b
  BY <1>0, <1>2, RunTypes DEF JobType
<1>4. PICK u \in [Runs -> 0..MaxUnheard] :
          /\ u = [broadcastPast.unheard EXCEPT ![b] = @ + 1]
          /\ u[b] = broadcastPast.unheard[b] + 1
          /\ \A d \in Runs \ {b} : u[d] = broadcastPast.unheard[d]
  <2>1. broadcastPast.unheard \in [Runs -> 0..MaxUnheard]
    BY <1>0 DEF PastType
  <2>2. broadcastPast.unheard[b] + 1 \in 0..MaxUnheard
    BY <1>1, <2>1, BroadcastAssumption
  <2>3. PICK m \in 0..MaxUnheard : m = broadcastPast.unheard[b] + 1
    BY <2>2
  <2>4. [broadcastPast.unheard EXCEPT ![b] = m] \in [Runs -> 0..MaxUnheard]
    BY <2>1
  <2> QED
    BY <2>1, <2>3, <2>4
<1>5. broadcastPast' = [broadcastPast EXCEPT !.unheard = u]
  BY <1>1, <1>4
<1>6. /\ broadcastPast' \in PastType /\ broadcastPast'.unheard = u
      /\ broadcastPast'.moves = broadcastPast.moves
      /\ broadcastPast'.moved = broadcastPast.moved
      /\ broadcastPast'.joined = broadcastPast.joined
      /\ broadcastPast'.left = broadcastPast.left
      /\ broadcastPast'.listed = broadcastPast.listed
      /\ broadcastPast'.tied = broadcastPast.tied
      /\ broadcastPast'.skips = broadcastPast.skips
      /\ broadcastPast'.unanswered = broadcastPast.unanswered
  BY <1>0, <1>4, <1>5 DEF PastType
<1>7. jobs' \in Seq(JobType)
  <2> HIDE DEF j
  <2> QED
    BY <1>0, <1>1, <1>3
<1>8. BroadcastTypeOK'
  <2>1. Now' = Now
    BY <1>6 DEF Now
  <2> QED
    BY <1>0, <1>1, <1>6, <1>7, <2>1 DEF BroadcastTypeOK, Exists
<1>9. OnlyRun(b)
  <2> HIDE DEF j
  <2> QED
    BY <1>1, <1>3, <1>4, <1>6 DEF OnlyRun
<1> QED
  BY <1>1, <1>2, <1>4, <1>6, <1>8, <1>9

LEMMA PageDoneFacts ==
    ASSUME BroadcastInv, NEW b \in Runs, PageDone(b)
    PROVE  /\ BroadcastTypeOK' /\ OnlyRun(b)
           /\ run[b].pc = "page" /\ run[b].at = Len(run[b].page) + 1
           /\ run'[b].pc = IF Len(run[b].page) < run[b].take THEN "done" ELSE "counted"
           /\ run'[b].at = 1 /\ run'[b].page = <<>> /\ Len(run'[b].page) = 0
           /\ run'[b].offset = run[b].offset + Len(run[b].page)
           /\ run'[b].total = run[b].total /\ run'[b].text = run[b].text
           /\ run'[b].queued = run[b].queued /\ run'[b].skipped = run[b].skipped
           /\ UNCHANGED <<jobs, tab, broadcastPast>>
<1>0. BroadcastTypeOK
  BY DEF BroadcastInv
<1> DEFINE q == run[b]
           pc == IF Len(q.page) < q.take THEN "done" ELSE "counted"
           r == [q EXCEPT !.offset = q.offset + Len(q.page), !.page = <<>>, !.at = 1, !.pc = pc]
<1>1. /\ q.pc = "page" /\ q.at > Len(q.page)
      /\ run' = [run EXCEPT ![b] = r]
      /\ UNCHANGED <<status, date, jobs, tab, broadcastPast>>
  BY DEF PageDone, NextOffset
<1>2. /\ q \in RunType /\ q.at \in Nat /\ q.offset \in Nat /\ q.total \in Nat
      /\ Len(q.page) \in Nat /\ q.at \in 1..(Len(q.page) + 1)
      /\ q.offset + Len(q.page) <= q.total
  BY <1>0, RunTypes
<1>3. jobs \in Seq(JobType) /\ broadcastPast \in PastType
      /\ tab \in [text : Texts \cup {Nothing}, waits : Runs \cup {Nothing},
                  shows : {"nothing", "error", "result"}]
  BY <1>0 DEF BroadcastTypeOK
<1>4. pc \in {"done", "counted"} /\ q.offset + Len(q.page) \in Nat
      /\ <<>> \in Seq(Recipients) /\ Len(<<>>) = 0
  BY <1>2
<1>5. /\ r \in RunType /\ r.pc = pc /\ r.at = 1 /\ r.page = <<>>
      /\ r.offset = q.offset + Len(q.page) /\ r.total = q.total /\ r.text = q.text
      /\ r.queued = q.queued /\ r.skipped = q.skipped
  <2> HIDE DEF pc
  <2> QED
    BY <1>2, <1>4 DEF RunType, Working
<1>6. r.offset + Len(r.page) <= r.total /\ r.at \in 1..(Len(r.page) + 1)
  <2> HIDE DEF r
  <2> QED
    BY <1>2, <1>4, <1>5
<1>7. BroadcastTypeOK' /\ run'[b] = r /\ \A d \in Runs \ {b} : run'[d] = run[d]
  <2> HIDE DEF r
  <2> QED
    BY <1>0, <1>1, <1>3, <1>5, <1>6, OneRunTyped
<1>8. OnlyRun(b)
  BY <1>1, <1>7 DEF OnlyRun
<1> QED
  <2> HIDE DEF r
  <2> QED
    BY <1>1, <1>2, <1>4, <1>5, <1>7, <1>8

Growing(f, c, test) == [b \in Runs |-> IF run[b].pc \in Working /\ test THEN f[b] \cup {c} ELSE f[b]]

LEMMA GrowingFacts ==
    ASSUME NEW f \in [Runs -> SUBSET Recipients], NEW c \in Recipients, NEW test \in BOOLEAN
    PROVE  /\ Growing(f, c, test) \in [Runs -> SUBSET Recipients]
           /\ \A b \in Runs :
                  /\ run[b].pc \notin Working \/ ~test => Growing(f, c, test)[b] = f[b]
                  /\ run[b].pc \in Working /\ test => Growing(f, c, test)[b] = f[b] \cup {c}
  BY DEF Growing

\* A message of a customer, the first or another one.
LEMMA CustomerFacts ==
    ASSUME BroadcastInv, NEW c \in Recipients, NewConversation(c) \/ CustomerWrites(c)
    PROVE  /\ BroadcastTypeOK'
           /\ UNCHANGED <<run, jobs, tab>>
           /\ \A d \in Recipients \ {c} : status'[d] = status[d] /\ date'[d] = date[d]
           /\ Exists(c)'
           /\ \/ ~Exists(c) /\ date[c] = 0 /\ date'[c] = 0
              \/ Exists(c) /\ date'[c] = Now
           /\ broadcastPast'.listed = broadcastPast.listed
           /\ broadcastPast'.tied = broadcastPast.tied
           /\ broadcastPast'.unheard = broadcastPast.unheard
           /\ broadcastPast'.skips = broadcastPast.skips
           /\ broadcastPast'.unanswered = broadcastPast.unanswered
           /\ \A b \in Runs :
                  /\ run[b].pc \notin Working =>
                         /\ broadcastPast'.moved[b] = broadcastPast.moved[b]
                         /\ broadcastPast'.joined[b] = broadcastPast.joined[b]
                         /\ broadcastPast'.left[b] = broadcastPast.left[b]
                  /\ run[b].pc \in Working =>
                         /\ broadcastPast'.moved[b] = broadcastPast.moved[b] \cup {c}
                         /\ broadcastPast.joined[b] \subseteq broadcastPast'.joined[b]
                         /\ broadcastPast.left[b] \subseteq broadcastPast'.left[b]
                         /\ ~Matches(c) /\ Matches(c)' => c \in broadcastPast'.joined[b]
                         /\ Matches(c) /\ ~Matches(c)' => c \in broadcastPast'.left[b]
<1>0. BroadcastTypeOK
  BY DEF BroadcastInv
<1> DEFINE matches == Filter \in {"all", status'[c]}
           joins == ~Matches(c) /\ matches
           leaves == Matches(c) /\ ~matches
<1>1. /\ broadcastPast.moves < MaxMoves
      /\ broadcastPast' = [broadcastPast EXCEPT
             !.moves = @ + 1, !.moved = Growing(@, c, TRUE),
             !.joined = Growing(@, c, joins), !.left = Growing(@, c, leaves)]
  BY DEF NewConversation, CustomerWrites, Moved, Growing
<1>2. broadcastPast \in PastType /\ broadcastPast.moves \in Nat /\ broadcastPast.moves + 1 \in 0..MaxMoves
  <2>1. broadcastPast \in PastType
    BY <1>0 DEF BroadcastTypeOK
  <2>2. broadcastPast.moves \in 0..MaxMoves
    BY <2>1 DEF PastType
  <2> QED
    BY <1>1, <2>1, <2>2, BroadcastAssumption
<1>3. PICK u \in [Runs -> SUBSET Recipients], v \in [Runs -> SUBSET Recipients],
           w \in [Runs -> SUBSET Recipients], n \in 0..MaxMoves :
          /\ u = Growing(broadcastPast.moved, c, TRUE)
          /\ v = Growing(broadcastPast.joined, c, joins)
          /\ w = Growing(broadcastPast.left, c, leaves)
          /\ n = broadcastPast.moves + 1
  <2>1. /\ broadcastPast.moved \in [Runs -> SUBSET Recipients]
        /\ broadcastPast.joined \in [Runs -> SUBSET Recipients]
        /\ broadcastPast.left \in [Runs -> SUBSET Recipients]
    BY <1>2 DEF PastType
  <2>2. joins \in BOOLEAN /\ leaves \in BOOLEAN
    OBVIOUS
  <2> HIDE DEF joins, leaves
  <2>3. /\ Growing(broadcastPast.moved, c, TRUE) \in [Runs -> SUBSET Recipients]
        /\ Growing(broadcastPast.joined, c, joins) \in [Runs -> SUBSET Recipients]
        /\ Growing(broadcastPast.left, c, leaves) \in [Runs -> SUBSET Recipients]
    BY <2>1, <2>2, GrowingFacts
  <2> QED
    BY <1>2, <2>3
<1>4. broadcastPast' = [broadcastPast EXCEPT !.moves = n, !.moved = u, !.joined = v, !.left = w]
  BY <1>1, <1>3
<1>5. /\ broadcastPast' \in PastType
      /\ broadcastPast'.moves = n /\ broadcastPast'.moved = u
      /\ broadcastPast'.joined = v /\ broadcastPast'.left = w
      /\ broadcastPast'.listed = broadcastPast.listed
      /\ broadcastPast'.tied = broadcastPast.tied
      /\ broadcastPast'.unheard = broadcastPast.unheard
      /\ broadcastPast'.skips = broadcastPast.skips
      /\ broadcastPast'.unanswered = broadcastPast.unanswered
  BY <1>2, <1>3, <1>4 DEF PastType
<1>6. Now \in Nat \ {0} /\ Now' = Now + 1
  <2>1. Cardinality(Recipients) \in Nat
    BY BroadcastAssumption, FS_CardinalityType
  <2> QED
    BY <1>2, <1>3, <1>5, <2>1 DEF Now
<1>7. /\ status \in [Recipients -> Leads \cup {"none"}]
      /\ date \in [Recipients -> 0..(Now - 1)]
      /\ \A d, e \in Recipients : date[d] = date[e] => date[d] = 0 \/ d = e
      /\ \A d \in Recipients : Exists(d) \/ date[d] = 0
  BY <1>0 DEF BroadcastTypeOK
<1>8. PICK s \in Leads : status' = [status EXCEPT ![c] = s]
  <2>1. CASE NewConversation(c)
    BY <2>1 DEF NewConversation, Leads
  <2>2. CASE CustomerWrites(c)
    BY <1>7, <2>2 DEF CustomerWrites, Exists, Leads
  <2> QED
    BY <2>1, <2>2
<1>9. /\ status' \in [Recipients -> Leads \cup {"none"}]
      /\ status'[c] = s /\ s # "none" /\ Exists(c)'
      /\ \A d \in Recipients \ {c} : status'[d] = status[d]
  BY <1>7, <1>8 DEF Leads, Exists
<1>10. /\ \A d \in Recipients \ {c} : date'[d] = date[d]
       /\ \/ ~Exists(c) /\ date[c] = 0 /\ date'[c] = 0
          \/ Exists(c) /\ date'[c] = Now
       /\ date' \in [Recipients -> 0..Now]
  <2>1. CASE NewConversation(c)
    BY <1>6, <1>7, <2>1 DEF NewConversation
  <2>2. CASE CustomerWrites(c)
    BY <1>6, <1>7, <2>2 DEF CustomerWrites
  <2> QED
    BY <2>1, <2>2
<1>11. UNCHANGED <<run, jobs, tab>>
  BY DEF NewConversation, CustomerWrites
<1>12. \A d, e \in Recipients : date'[d] = date'[e] => date'[d] = 0 \/ d = e
  <2>1. \A d \in Recipients : date[d] # Now
    BY <1>6, <1>7
  <2> QED
    BY <1>6, <1>7, <1>10, <2>1
<1>13. \A d \in Recipients : Exists(d)' \/ date'[d] = 0
  BY <1>7, <1>9, <1>10 DEF Exists
<1>14. BroadcastTypeOK'
  <2>1. Now' - 1 = Now
    BY <1>6
  <2> QED
    BY <1>0, <1>5, <1>9, <1>10, <1>11, <1>12, <1>13, <2>1 DEF BroadcastTypeOK
<1>15. Matches(c)' <=> matches
  BY <1>9 DEF Matches, Exists
<1>16. ASSUME NEW b \in Runs
       PROVE  /\ run[b].pc \notin Working =>
                     /\ broadcastPast'.moved[b] = broadcastPast.moved[b]
                     /\ broadcastPast'.joined[b] = broadcastPast.joined[b]
                     /\ broadcastPast'.left[b] = broadcastPast.left[b]
              /\ run[b].pc \in Working =>
                     /\ broadcastPast'.moved[b] = broadcastPast.moved[b] \cup {c}
                     /\ broadcastPast.joined[b] \subseteq broadcastPast'.joined[b]
                     /\ broadcastPast.left[b] \subseteq broadcastPast'.left[b]
                     /\ joins => c \in broadcastPast'.joined[b]
                     /\ leaves => c \in broadcastPast'.left[b]
  <2> HIDE DEF joins, leaves
  <2> QED
    BY <1>3, <1>5 DEF Growing
<1> QED
  <2>1. ~Matches(c) /\ Matches(c)' => joins
    BY <1>15
  <2>2. Matches(c) /\ ~Matches(c)' => leaves
    BY <1>15
  <2> HIDE DEF joins, leaves
  <2> QED
    BY <1>5, <1>9, <1>10, <1>11, <1>14, <1>16, <2>1, <2>2

\* A step of the form.
LEMMA FormFacts ==
    ASSUME BroadcastInv, (\E t \in Texts : Write(t)) \/ ShowResult \/ ShowError
    PROVE  /\ BroadcastTypeOK'
           /\ UNCHANGED <<status, date, run, jobs>>
           /\ broadcastPast'.moved = broadcastPast.moved
           /\ broadcastPast'.joined = broadcastPast.joined
           /\ broadcastPast'.left = broadcastPast.left
           /\ broadcastPast'.listed = broadcastPast.listed
           /\ broadcastPast'.tied = broadcastPast.tied
           /\ broadcastPast'.unheard = broadcastPast.unheard
           /\ broadcastPast'.skips = broadcastPast.skips
<1>0. BroadcastTypeOK
  BY DEF BroadcastInv
<1>1. broadcastPast \in PastType
      /\ tab \in [text : Texts \cup {Nothing}, waits : Runs \cup {Nothing},
                  shows : {"nothing", "error", "result"}]
  BY <1>0 DEF BroadcastTypeOK
<1>2. UNCHANGED <<status, date, run, jobs>>
  BY DEF Write, ShowResult, ShowError
<1>3. tab' \in [text : Texts \cup {Nothing}, waits : Runs \cup {Nothing},
                shows : {"nothing", "error", "result"}]
  <2>1. CASE \E t \in Texts : Write(t)
    BY <1>1, <2>1 DEF Write
  <2>2. CASE ShowResult
    BY <2>2 DEF ShowResult
  <2>3. CASE ShowError
    BY <1>1, <2>3 DEF ShowError
  <2> QED
    BY <2>1, <2>2, <2>3
<1>4. /\ broadcastPast' \in PastType /\ broadcastPast'.moves = broadcastPast.moves
      /\ broadcastPast'.moved = broadcastPast.moved
      /\ broadcastPast'.joined = broadcastPast.joined
      /\ broadcastPast'.left = broadcastPast.left
      /\ broadcastPast'.listed = broadcastPast.listed
      /\ broadcastPast'.tied = broadcastPast.tied
      /\ broadcastPast'.unheard = broadcastPast.unheard
      /\ broadcastPast'.skips = broadcastPast.skips
  <2>1. CASE ShowError
    <3>1. PICK z \in SUBSET Runs : broadcastPast' = [broadcastPast EXCEPT !.unanswered = z]
      <4>1. tab.waits \in Runs /\ broadcastPast.unanswered \in SUBSET Runs
        BY <1>1, <2>1 DEF ShowError, PastType
      <4>2. broadcastPast' = [broadcastPast EXCEPT !.unanswered = @ \cup {tab.waits}]
        BY <2>1 DEF ShowError
      <4> QED
        BY <4>1, <4>2
    <3> QED
      BY <1>1, <3>1 DEF PastType
  <2>2. CASE (\E t \in Texts : Write(t)) \/ ShowResult
    BY <1>1, <2>2 DEF Write, ShowResult
  <2> QED
    BY <2>1, <2>2
<1>5. Now' = Now
  BY <1>4 DEF Now
<1>6. BroadcastTypeOK'
  BY <1>0, <1>2, <1>3, <1>4, <1>5 DEF BroadcastTypeOK, Exists
<1> QED
  BY <1>2, <1>4, <1>6

\* What RunHolds speaks of, as it was.
Untouched(d) ==
    /\ UNCHANGED <<status, date>>
    /\ run'[d] = run[d]
    /\ broadcastPast'.moved[d] = broadcastPast.moved[d]
    /\ broadcastPast'.joined[d] = broadcastPast.joined[d]
    /\ broadcastPast'.left[d] = broadcastPast.left[d]
    /\ broadcastPast'.listed[d] = broadcastPast.listed[d]
    /\ broadcastPast'.tied[d] <=> broadcastPast.tied[d]
    /\ broadcastPast'.unheard[d] = broadcastPast.unheard[d]
    /\ \A c \in Recipients : <<d, c>> \in broadcastPast'.skips <=> <<d, c>> \in broadcastPast.skips
    /\ JobsOf(d)' = JobsOf(d)
    /\ \A i \in JobsOf(d) : jobs'[i] = jobs[i]

LEMMA SameList ==
    ASSUME UNCHANGED <<status, date>>
    PROVE  /\ Matching' = Matching /\ Fresh' = Fresh
           /\ \A c \in Recipients : Before(c)' = Before(c) /\ (Matches(c)' <=> Matches(c))
<1>1. \A c \in Recipients : Matches(c)' <=> Matches(c)
  BY DEF Matches, Exists
<1>2. Matching' = Matching
  BY <1>1 DEF Matching
<1>3. Fresh' = Fresh
  BY <1>2 DEF Fresh
<1>4. \A c \in Recipients : Before(c)' = Before(c)
  BY <1>2 DEF Before, Ahead
<1> QED
  BY <1>1, <1>2, <1>3, <1>4

LEMMA UntouchedHolds ==
    ASSUME BroadcastTypeOK, NEW d \in Runs, RunHolds(d), Untouched(d)
    PROVE  RunHolds(d)'
<1> USE DEF Untouched
<1>1. /\ Matching' = Matching /\ Fresh' = Fresh
      /\ \A c \in Recipients : Before(c)' = Before(c)
  BY SameList
<1>2. /\ \A i \in JobsOf(d) : jobs[i] \in JobType /\ jobs[i].conv \in Recipients
      /\ \A k \in 1..Len(run[d].page) : run[d].page[k] \in Recipients
  <2>1. jobs \in Seq(JobType)
    BY DEF BroadcastTypeOK
  <2> QED
    BY <2>1, JobsAreFinite, RunTypes DEF JobType
<1>3. AddsUp(d)'
  BY DEF RunHolds, AddsUp, Index
<1>4. DuesFollow(d)'
  <2>1. DuesFollow(d)
    BY DEF RunHolds
  <2>2. Index(run[d])' = Index(run[d])
    BY DEF Index
  <2> QED
    BY <2>1, <2>2 DEF DuesFollow, AtPlace, OneAddition
<1>5. PagesAreFull(d)'
  BY <1>1 DEF RunHolds, PagesAreFull
<1>6. PlacesKept(d)'
  <2>1. PlacesKept(d)
    BY DEF RunHolds
  <2>2. Undisturbed(d)' <=> Undisturbed(d)
    BY DEF Undisturbed
  <2>3. \A i \in JobsOf(d) : Before(jobs[i].conv)' = Before(jobs[i].conv)
    BY <1>1, <1>2 DEF Before, Ahead
  <2>4. \A k \in 1..Len(run[d].page) : Before(run[d].page[k])' = Before(run[d].page[k])
    BY <1>1, <1>2 DEF Before, Ahead
  <2> QED
    BY <2>1, <2>2, <2>3, <2>4 DEF PlacesKept
<1>7. NoneTwice(d)'
  BY DEF RunHolds, NoneTwice, Undisturbed
<1>8. OneUndated(d)'
  BY <1>1 DEF RunHolds, OneUndated
<1>9. NoneForgotten(d)'
  <2>1. NoneForgotten(d)
    BY DEF RunHolds
  <2>2. \A c \in Recipients : Sent(d, c)' <=> Sent(d, c)
    BY DEF Sent
  <2>3. \A c \in Recipients : Expected(d, c)' <=> Expected(d, c)
    BY DEF Expected
  <2>4. \A c \in Recipients : ToCome(d, c)' <=> ToCome(d, c)
    BY <1>1 DEF ToCome
  <2> QED
    BY <2>1, <2>2, <2>3, <2>4 DEF NoneForgotten
<1>10. NothingYet(d)'
  BY DEF RunHolds, NothingYet
<1> QED
  BY <1>3, <1>4, <1>5, <1>6, <1>7, <1>8, <1>9, <1>10 DEF RunHolds

\* A step of one run leaves the others alone.
LEMMA OthersUntouched ==
    ASSUME BroadcastTypeOK, NEW b \in Runs, OnlyRun(b), NEW d \in Runs \ {b}
    PROVE  Untouched(d)
<1>1. jobs \in Seq(JobType)
  BY DEF BroadcastTypeOK
<1>2. JobsOf(d)' = JobsOf(d) /\ \A i \in JobsOf(d) : jobs'[i] = jobs[i]
  <2>1. CASE jobs' = jobs
    BY <2>1 DEF JobsOf
  <2>2. CASE \E j \in JobType : j.run = b /\ jobs' = Append(jobs, j)
    BY <1>1, <2>2, JobsAppended, JobsAreFinite
  <2> QED
    BY <2>1, <2>2 DEF OnlyRun
<1> QED
  BY <1>2 DEF OnlyRun, Untouched

\* A run that has not counted has done nothing.
LEMMA NothingDone ==
    ASSUME BroadcastTypeOK, NEW b \in Runs, AddsUp(b), run[b].pc \in {"idle", "posted"}
    PROVE  /\ JobsOf(b) = {} /\ run[b].queued = 0 /\ run[b].skipped = 0 /\ run[b].total = 0
           /\ run[b].offset = 0 /\ run[b].at = 1 /\ Len(run[b].page) = 0
<1>1. /\ run[b].offset \in Nat /\ run[b].at \in 1..(Len(run[b].page) + 1) /\ Len(run[b].page) \in Nat
      /\ run[b].queued \in Nat /\ run[b].skipped \in Nat
      /\ run[b].offset + Len(run[b].page) <= run[b].total
  BY RunTypes
<1>2. run[b].total = 0 /\ run[b].queued + run[b].skipped = run[b].offset + run[b].at - 1
      /\ Cardinality(JobsOf(b)) = run[b].queued + broadcastPast.unheard[b]
      /\ broadcastPast.unheard[b] = 0
  BY DEF AddsUp, Index
<1>3. run[b].offset = 0 /\ run[b].at = 1 /\ Len(run[b].page) = 0
  <2>1. \A o, n \in Nat : o + n <= 0 => o = 0 /\ n = 0
    OBVIOUS
  <2>2. run[b].offset = 0 /\ Len(run[b].page) = 0
    BY <1>1, <1>2, <2>1
  <2>3. run[b].at \in 1..1
    BY <1>1, <2>2
  <2> QED
    BY <2>2, <2>3
<1>4. run[b].queued = 0 /\ run[b].skipped = 0
  BY <1>1, <1>2, <1>3
<1>5. IsFiniteSet(JobsOf(b))
  BY JobsAreFinite DEF BroadcastTypeOK
<1> QED
  BY <1>2, <1>3, <1>4, <1>5, FS_EmptySet

LEMMA SendKeeps == ASSUME BroadcastInv, NEW b \in Runs, SendBroadcast(b) PROVE RunHolds(b)'
<1>0. BroadcastTypeOK /\ RunHolds(b) /\ AddsUp(b) /\ NothingYet(b)
  BY DEF BroadcastInv, RunHolds
<1>1. /\ OnlyRun(b) /\ run[b].pc = "idle" /\ UNCHANGED <<jobs, broadcastPast>>
      /\ run'[b] = [NoRun EXCEPT !.pc = "posted", !.text = tab.text]
      /\ tab.text # Nothing
  BY SendBroadcastFacts
<1>2. /\ run'[b].pc = "posted" /\ run'[b].text # Nothing /\ run'[b].total = 0 /\ run'[b].offset = 0
      /\ run'[b].page = <<>> /\ run'[b].at = 1 /\ run'[b].queued = 0 /\ run'[b].skipped = 0
  BY <1>1 DEF NoRun
<1>3. JobsOf(b) = {} /\ JobsOf(b)' = JobsOf(b)
  BY <1>0, <1>1, NothingDone DEF JobsOf
<1>4. Cardinality({}) = 0
  BY FS_EmptySet
<1>5. AddsUp(b)'
  <2>1. broadcastPast'.unheard[b] = 0
    BY <1>0, <1>1 DEF AddsUp
  <2> QED
    BY <1>2, <1>3, <1>4, <2>1 DEF AddsUp, Index
<1>6. DuesFollow(b)' /\ NoneTwice(b)'
  BY <1>3 DEF DuesFollow, NoneTwice
<1>7. PagesAreFull(b)' /\ PlacesKept(b)' /\ OneUndated(b)'
  BY <1>2 DEF PagesAreFull, PlacesKept, OneUndated, Working
<1>8. NoneForgotten(b)' /\ NothingYet(b)'
  BY <1>0, <1>1, <1>2 DEF NoneForgotten, NothingYet, Expected, Working
<1> QED
  BY <1>5, <1>6, <1>7, <1>8 DEF RunHolds

LEMMA RunEndsKeeps ==
    ASSUME BroadcastInv, NEW b \in Runs, NoNumber(b) \/ AllDone(b) \/ RunFails(b)
    PROVE  RunHolds(b)'
<1>0. BroadcastTypeOK /\ RunHolds(b)
  BY DEF BroadcastInv
<1>1. PICK pc \in {"done", "failed"} :
          /\ run'[b] = [run[b] EXCEPT !.pc = pc]
          /\ run'[b].pc = "done" => \/ run[b].pc = "posted"
                                    \/ run[b].pc = "counted" /\ run[b].offset >= run[b].total
          /\ run[b].pc # "idle"
          /\ OnlyRun(b) /\ UNCHANGED <<jobs, tab, broadcastPast>>
  BY RunEndsFacts
<1>2. /\ run'[b].pc = pc /\ run'[b].total = run[b].total /\ run'[b].offset = run[b].offset
      /\ run'[b].page = run[b].page /\ run'[b].at = run[b].at /\ run'[b].queued = run[b].queued
      /\ run'[b].skipped = run[b].skipped /\ run'[b].text = run[b].text
  BY <1>0, <1>1, RunTypes DEF RunType
<1>3. /\ run[b].offset \in Nat /\ run[b].at \in 1..(Len(run[b].page) + 1) /\ Len(run[b].page) \in Nat
      /\ run[b].offset + Len(run[b].page) <= run[b].total /\ run[b].total \in Nat
      /\ run[b].queued \in Nat /\ run[b].skipped \in Nat
  BY <1>0, RunTypes
<1>4. JobsOf(b)' = JobsOf(b) /\ Index(run[b])' = Index(run[b])
  BY <1>1, <1>2 DEF JobsOf, Index
<1>5. AddsUp(b)'
  BY <1>0, <1>1, <1>2, <1>4 DEF RunHolds, AddsUp
<1>6. DuesFollow(b)' /\ NoneTwice(b)'
  <2>1. DuesFollow(b) /\ NoneTwice(b)
    BY <1>0 DEF RunHolds
  <2> QED
    BY <1>1, <1>4, <2>1 DEF DuesFollow, AtPlace, OneAddition, NoneTwice, Undisturbed
<1>7. pc = "done" => Index(run[b]) = run[b].total /\ run[b].queued + run[b].skipped = run[b].total
  <2>1. AddsUp(b)
    BY <1>0 DEF RunHolds
  <2>2. CASE run[b].pc = "posted"
    <3>1. /\ run[b].queued = 0 /\ run[b].skipped = 0 /\ run[b].total = 0
          /\ run[b].offset = 0 /\ run[b].at = 1
      BY <1>0, <2>1, <2>2, NothingDone
    <3> QED
      BY <3>1 DEF Index
  <2>3. CASE run[b].pc = "counted" /\ run[b].offset >= run[b].total
    <3>1. Len(run[b].page) = 0
      BY <1>3, <2>3
    <3> QED
      BY <1>3, <2>1, <2>3, <3>1 DEF Index, AddsUp
  <2> QED
    BY <1>1, <1>2, <2>2, <2>3
<1>8. PagesAreFull(b)' /\ PlacesKept(b)' /\ OneUndated(b)'
  BY <1>2, <1>7 DEF PagesAreFull, PlacesKept, OneUndated, Working
<1>9. NoneForgotten(b)'
  <2> SUFFICES ASSUME NEW c \in Recipients, Expected(b, c), ~Sent(b, c), pc = "done"
               PROVE  FALSE
    BY <1>1, <1>2, <1>4 DEF NoneForgotten, Expected, Sent, Working
  <2>1. c \in broadcastPast.listed[b] /\ ~(run[b].pc = "posted")
    BY <1>0 DEF Expected, RunHolds, NothingYet
  <2>2. run[b].pc = "counted" /\ run[b].offset >= run[b].total
    BY <1>1, <1>2, <2>1
  <2>3. ToCome(b, c)
    BY <1>0, <2>2 DEF RunHolds, NoneForgotten, Working
  <2>4. Len(run[b].page) = 0 /\ run[b].at = 1 /\ run[b].offset = run[b].total
    <3>1. \A o, n, t \in Nat : o >= t /\ o + n <= t => o = t /\ n = 0
      OBVIOUS
    <3>2. run[b].offset = run[b].total /\ Len(run[b].page) = 0
      BY <1>3, <2>2, <3>1
    <3>3. run[b].at \in 1..1
      BY <1>3, <3>2
    <3> QED
      BY <3>2, <3>3
  <2>5. Cardinality(Before(c)) >= run[b].total
    BY <1>3, <2>3, <2>4 DEF ToCome
  <2>6. /\ broadcastPast.listed[b] = Matching
        /\ run[b].total = Least(Cardinality(Matching), MaxTotal)
        /\ Cardinality(Matching) <= MaxTotal
    BY <1>0, <2>2 DEF RunHolds, PagesAreFull, Expected, Working
  <2>7. IsFiniteSet(Matching) /\ c \in Matching
    <3>1. IsFiniteSet(Recipients) /\ Matching \subseteq Recipients
      BY BroadcastAssumption DEF Matching
    <3> QED
      BY <2>1, <2>6, <3>1, Fewer
  <2>8. Cardinality(Matching \ {c}) = Cardinality(Matching) - 1 /\ IsFiniteSet(Matching \ {c})
        /\ Cardinality(Matching) \in Nat
    BY <2>7, FS_RemoveElement, FS_CardinalityType
  <2>9. Before(c) \subseteq Matching \ {c}
    BY DEF Before
  <2>10. Cardinality(Before(c)) <= Cardinality(Matching) - 1 /\ Cardinality(Before(c)) \in Nat
    BY <2>8, <2>9, Fewer
  <2>11. run[b].total = Cardinality(Matching)
    BY <2>6, <2>8, BroadcastAssumption DEF Least
  <2> QED
    BY <2>5, <2>8, <2>10, <2>11
<1>10. NothingYet(b)'
  BY <1>2 DEF NothingYet
<1> QED
  BY <1>5, <1>6, <1>8, <1>9, <1>10 DEF RunHolds

\* As many places of a list as there are indices hold different elements.
Firsts(l, n) == {l[i] : i \in 1..n}

LEMMA PlacesCount ==
    ASSUME NEW S, NEW l, NEW n \in Nat, \A i \in 1..n : l[i] \in S,
           \A i, j \in 1..n : i # j => l[i] # l[j]
    PROVE  IsFiniteSet(Firsts(l, n)) /\ Cardinality(Firsts(l, n)) = n
<1> DEFINE T == {l[i] : i \in 1..n}
           f == [i \in 1..n |-> l[i]]
<1>1. f \in Bijection(1..n, T)
  <2>1. f \in [1..n -> T]
    OBVIOUS
  <2>2. \A i, j \in 1..n : f[i] = f[j] => i = j
    OBVIOUS
  <2>3. \A t \in T : \E i \in 1..n : f[i] = t
    OBVIOUS
  <2> HIDE DEF f, T
  <2>4. f \in Injection(1..n, T)
    BY <2>1, <2>2 DEF Injection, IsInjective
  <2>5. f \in Surjection(1..n, T)
    BY <2>1, <2>3 DEF Surjection
  <2> QED
    BY <2>4, <2>5 DEF Bijection
<1>2. ExistsBijection(1..n, T)
  BY <1>1 DEF ExistsBijection
<1>3. IsFiniteSet(1..n) /\ Cardinality(1..n) = n
  BY FS_Interval
<1>4. IsFiniteSet(T) /\ Cardinality(T) = Cardinality(1..n)
  <2> HIDE DEF T, f
  <2> QED
    BY <1>2, <1>3, FS_Bijection
<1> QED
  BY <1>3, <1>4 DEF Firsts

\* With at most one undated row, whoever has a place in a list has it in every list.
LEMMA PlaceInList ==
    ASSUME BroadcastTypeOK, NEW l \in Listings, \A c, d \in Fresh : c = d, NEW k \in 1..Len(l)
    PROVE  IsFiniteSet(Before(l[k])) /\ Cardinality(Before(l[k])) = k - 1
<1>1. /\ Len(l) \in Nat /\ l \in [1..Len(l) -> Matching]
      /\ \A i, j \in 1..Len(l) : i # j => l[i] # l[j]
      /\ \A i, j \in 1..Len(l) : i < j => Ahead(l[i], l[j])
      /\ \A c \in Matching : \E i \in 1..Len(l) : l[i] = c
  BY ListingFacts
<1>2. \A c \in Matching : c \in Recipients /\ date[c] \in Nat
  <2>1. Cardinality(Recipients) \in Nat /\ broadcastPast.moves \in Nat
    BY BroadcastAssumption, FS_CardinalityType DEF BroadcastTypeOK, PastType
  <2> QED
    BY <2>1 DEF Matching, BroadcastTypeOK, Now
<1>3. Before(l[k]) = {l[i] : i \in 1..(k - 1)}
  <2>1. ASSUME NEW i \in 1..(k - 1) PROVE l[i] \in Before(l[k])
    BY <1>1, <2>1 DEF Before
  <2>2. ASSUME NEW d \in Before(l[k]) PROVE d \in {l[i] : i \in 1..(k - 1)}
    <3>1. d \in Matching /\ d # l[k] /\ Ahead(d, l[k])
      BY <2>2 DEF Before
    <3>2. PICK i \in 1..Len(l) : l[i] = d
      BY <1>1, <3>1
    <3>3. CASE i > k
      <4>1. Ahead(l[k], d)
        BY <1>1, <3>2, <3>3
      <4>2. l[k] \in Matching
        BY <1>1
      <4>3. date[d] = 0 /\ date[l[k]] = 0
        BY <1>2, <3>1, <4>1, <4>2 DEF Ahead
      <4> QED
        BY <3>1, <4>2, <4>3 DEF Fresh
    <3>4. i # k
      BY <3>1, <3>2
    <3> QED
      BY <1>1, <3>2, <3>3, <3>4
  <2> QED
    BY <2>1, <2>2
<1>4. k - 1 \in Nat /\ (\A i \in 1..(k - 1) : l[i] \in Matching)
      /\ \A i, j \in 1..(k - 1) : i # j => l[i] # l[j]
  BY <1>1
<1>5. PICK n \in Nat : n = k - 1
  BY <1>4
<1>6. IsFiniteSet(Firsts(l, n)) /\ Cardinality(Firsts(l, n)) = n
  <2>1. (\A i \in 1..n : l[i] \in Matching) /\ \A i, j \in 1..n : i # j => l[i] # l[j]
    BY <1>4, <1>5
  <2> QED
    BY <2>1, PlacesCount
<1> QED
  BY <1>3, <1>5, <1>6 DEF Firsts

LEMMA FreshIsOne ==
    ASSUME ~(Cardinality(Fresh) > 1)
    PROVE  \A c, d \in Fresh : c = d
<1> SUFFICES ASSUME NEW c \in Fresh, NEW d \in Fresh, c # d PROVE FALSE
  OBVIOUS
<1>1. IsFiniteSet(Recipients) /\ Fresh \subseteq Recipients
  BY BroadcastAssumption DEF Fresh, Matching
<1>2. IsFiniteSet(Fresh) /\ Cardinality(Fresh) \in Nat
  BY <1>1, Fewer
<1>3. IsFiniteSet({c}) /\ Cardinality({c}) = 1
  BY FS_Singleton
<1>4. Cardinality({c} \cup {d}) = 2
  BY <1>3, OneMore
<1>5. {c} \cup {d} \subseteq Fresh
  OBVIOUS
<1> QED
  BY <1>2, <1>4, <1>5, Fewer

LEMMA CountTotalKeeps == ASSUME BroadcastInv, NEW b \in Runs, CountTotal(b) PROVE RunHolds(b)'
<1>0. BroadcastTypeOK /\ AddsUp(b) /\ NothingYet(b)
  BY DEF BroadcastInv, RunHolds
<1> DEFINE n == Least(Cardinality(Matching), MaxTotal)
<1>1. /\ OnlyRun(b) /\ run[b].pc = "posted" /\ UNCHANGED jobs
      /\ run'[b] = [run[b] EXCEPT !.pc = "counted", !.total = n]
      /\ broadcastPast'.listed[b] = Matching
      /\ broadcastPast'.unheard = broadcastPast.unheard
  BY CountTotalFacts
<1>2. /\ run'[b].pc = "counted" /\ run'[b].total = n /\ run'[b].text = run[b].text
      /\ run'[b].offset = run[b].offset /\ run'[b].page = run[b].page /\ run'[b].at = run[b].at
      /\ run'[b].queued = run[b].queued /\ run'[b].skipped = run[b].skipped
  <2> HIDE DEF n
  <2> QED
    BY <1>0, <1>1, RunTypes DEF RunType
<1>3. JobsOf(b) = {} /\ JobsOf(b)' = {} /\ run[b].offset = 0 /\ run[b].at = 1 /\ Len(run[b].page) = 0
  BY <1>0, <1>1, NothingDone DEF JobsOf
<1>4. Matching' = Matching
  BY <1>1, SameList DEF OnlyRun
<1>5. AddsUp(b)'
  BY <1>0, <1>1, <1>2, <1>3 DEF AddsUp, Index
<1>6. DuesFollow(b)' /\ NoneTwice(b)'
  BY <1>3 DEF DuesFollow, NoneTwice
<1>7. PagesAreFull(b)'
  BY <1>1, <1>2, <1>4 DEF PagesAreFull
<1>8. PlacesKept(b)' /\ OneUndated(b)'
  BY <1>2, <1>3 DEF PlacesKept, OneUndated
<1>9. NoneForgotten(b)'
  <2>1. ASSUME NEW c \in Recipients PROVE ToCome(b, c)'
    <3>1. IsFiniteSet(Recipients) /\ Before(c)' \subseteq Recipients
      BY BroadcastAssumption DEF Before, Matching
    <3>2. Cardinality(Before(c)') \in Nat
      BY <3>1, Fewer
    <3>3. Cardinality(Before(c)') >= 0 + 0
      BY <3>2
    <3> QED
      BY <1>2, <1>3, <3>3 DEF ToCome
  <2> QED
    BY <1>2, <2>1 DEF NoneForgotten
<1>10. NothingYet(b)'
  BY <1>2 DEF NothingYet
<1> QED
  BY <1>5, <1>6, <1>7, <1>8, <1>9, <1>10 DEF RunHolds

LEMMA ReadPageKeeps == ASSUME BroadcastInv, NEW b \in Runs, ReadPage(b) PROVE RunHolds(b)'
<1>0. BroadcastTypeOK /\ RunHolds(b)
  BY DEF BroadcastInv
<1> DEFINE q == run[b]
           p == run'[b].page
<1>1. /\ OnlyRun(b) /\ q.pc = "counted" /\ q.offset < q.total
      /\ UNCHANGED <<jobs, tab>>
      /\ broadcastPast'.listed = broadcastPast.listed
      /\ broadcastPast'.skips = broadcastPast.skips
      /\ broadcastPast'.tied[b] <=> broadcastPast.tied[b] \/ Cardinality(Fresh) > 1
      /\ broadcastPast'.unheard = broadcastPast.unheard
  BY ReadPageFacts
<1>2. PICK l \in Listings :
         /\ run'[b].pc = "page" /\ run'[b].at = 1
         /\ run'[b].take \in Nat /\ q.offset + run'[b].take <= q.total
         /\ run'[b].offset = q.offset /\ run'[b].total = q.total
         /\ run'[b].queued = q.queued /\ run'[b].skipped = q.skipped
         /\ run'[b].text = q.text
         /\ Len(p) <= run'[b].take
         /\ Len(p) = IF Len(l) < q.offset THEN 0 ELSE Least(Len(l), q.offset + run'[b].take) - q.offset
         /\ \A k \in 1..Len(p) : q.offset + k \in 1..Len(l) /\ p[k] = l[q.offset + k]
  BY ReadPageFacts
<1>3. /\ q.offset \in Nat /\ q.at \in 1..(Len(q.page) + 1) /\ Len(q.page) \in Nat
      /\ q.total \in Nat /\ q.queued \in Nat /\ q.skipped \in Nat
  BY <1>0, RunTypes
<1>4. q.page = <<>> /\ Len(q.page) = 0 /\ q.at = 1
  <2>1. q.page = <<>>
    BY <1>0, <1>1 DEF RunHolds, AddsUp
  <2>2. Len(<<>>) = 0
    OBVIOUS
  <2> QED
    BY <1>3, <2>1, <2>2
<1>5. JobsOf(b)' = JobsOf(b) /\ Index(run[b])' = Index(run[b])
  BY <1>1, <1>2, <1>4 DEF JobsOf, Index
<1>6. /\ Matching' = Matching /\ Fresh' = Fresh /\ \A c \in Recipients : Before(c)' = Before(c)
      /\ broadcastPast'.moved = broadcastPast.moved
      /\ broadcastPast'.joined = broadcastPast.joined
      /\ broadcastPast'.left = broadcastPast.left
  BY <1>1, SameList DEF OnlyRun
<1>7. ~broadcastPast'.tied[b] => ~broadcastPast.tied[b] /\ \A c, d \in Fresh : c = d
  BY <1>1, FreshIsOne
<1>8. /\ IsFiniteSet(Matching) /\ Cardinality(Matching) \in Nat /\ Len(l) = Cardinality(Matching)
      /\ l \in [1..Len(l) -> Matching]
      /\ \A c \in Matching : \E i \in 1..Len(l) : l[i] = c
  BY ListingFacts
<1>9. AddsUp(b)'
  BY <1>0, <1>1, <1>2, <1>5 DEF RunHolds, AddsUp
<1>10. DuesFollow(b)' /\ NoneTwice(b)'
  <2>1. DuesFollow(b) /\ NoneTwice(b)
    BY <1>0 DEF RunHolds
  <2> QED
    <3>1. \A i : ~AtPlace(b, i)
      BY <1>4 DEF AtPlace
    <3>2. DuesFollow(b)'
      BY <1>1, <1>5, <2>1, <3>1 DEF DuesFollow, OneAddition
    <3>3. NoneTwice(b)'
      BY <1>1, <1>5, <1>6, <1>7, <2>1 DEF NoneTwice, Undisturbed
    <3> QED
      BY <3>2, <3>3
<1>11. PagesAreFull(b)'
  <2>1. /\ q.total = Least(Cardinality(broadcastPast.listed[b]), MaxTotal)
        /\ broadcastPast.left[b] = {} => broadcastPast.listed[b] \subseteq Matching
        /\ broadcastPast.left[b] \cup broadcastPast.joined[b] = {} => broadcastPast.listed[b] = Matching
    BY <1>0, <1>1 DEF RunHolds, PagesAreFull, Working
  <2>2. broadcastPast.left[b] = {} => Len(p) = run'[b].take
    <3> HAVE broadcastPast.left[b] = {}
    <3>1. Cardinality(broadcastPast.listed[b]) <= Cardinality(Matching)
          /\ Cardinality(broadcastPast.listed[b]) \in Nat
      BY <1>8, <2>1, Fewer
    <3>2. q.total <= Len(l)
      BY <1>8, <2>1, <3>1, BroadcastAssumption DEF Least
    <3>3. Least(Len(l), q.offset + run'[b].take) = q.offset + run'[b].take
      BY <1>2, <1>3, <1>8, <3>2 DEF Least
    <3>4. ~(Len(l) < q.offset)
      BY <1>1, <1>3, <1>8, <3>2
    <3> QED
      BY <1>2, <1>3, <3>3, <3>4
  <2> QED
    BY <1>1, <1>2, <1>6, <2>1, <2>2 DEF PagesAreFull, Working
<1>12. PlacesKept(b)'
  <2> SUFFICES ASSUME Undisturbed(b)'
               PROVE  /\ \A i \in JobsOf(b) : Cardinality(Before(jobs[i].conv))' = jobs[i].due
                      /\ \A k \in 1..Len(p) : Cardinality(Before(run[b].page[k]))' = q.offset + k - 1
    BY <1>1, <1>2, <1>5 DEF PlacesKept
  <2>1. Undisturbed(b) /\ \A c, d \in Fresh : c = d
    BY <1>6, <1>7 DEF Undisturbed
  <2>2. \A i \in JobsOf(b) : Cardinality(Before(jobs[i].conv)) = jobs[i].due
    BY <1>0, <1>1, <2>1 DEF RunHolds, PlacesKept, Working
  <2>3. \A i \in JobsOf(b) : Before(jobs[i].conv)' = Before(jobs[i].conv)
    BY <1>1, <1>6 DEF Before, Ahead, OnlyRun
  <2>4. ASSUME NEW k \in 1..Len(p) PROVE Cardinality(Before(run[b].page[k]))' = q.offset + k - 1
    <3>1. PICK j \in 1..Len(l) : j = q.offset + k /\ p[k] = l[j]
      BY <1>2
    <3>2. Cardinality(Before(l[j])) = j - 1
      BY <1>0, <2>1, <3>1, PlaceInList
    <3>3. PICK c \in Recipients : c = p[k] /\ c = l[j]
      BY <1>8, <3>1 DEF Matching
    <3>4. Cardinality(Before(c))' = j - 1
      BY <1>6, <3>2, <3>3
    <3>5. Before(run[b].page[k])' = Before(c)'
      BY <3>3 DEF Before
    <3> QED
      BY <1>3, <3>1, <3>4, <3>5
  <2> QED
    BY <2>2, <2>3, <2>4
<1>13. OneUndated(b)'
  BY <1>6, <1>7 DEF OneUndated
<1>14. NoneForgotten(b)'
  <2> SUFFICES ASSUME NEW c \in Recipients, Expected(b, c)', ~Sent(b, c)'
               PROVE  ToCome(b, c)'
    BY <1>2 DEF NoneForgotten
  <2>1. Expected(b, c) /\ ~Sent(b, c) /\ \A d, e \in Fresh : d = e
    BY <1>1, <1>5, <1>6, <1>7 DEF Expected, Sent
  <2>2. ToCome(b, c)
    BY <1>0, <1>1, <2>1 DEF RunHolds, NoneForgotten, Working
  <2>3. Cardinality(Before(c)) >= q.offset
    BY <1>3, <1>4, <2>2 DEF ToCome
  <2>4. c \in Matching
    BY <1>0, <1>1, <2>1 DEF Expected, RunHolds, PagesAreFull, Working
  <2>5. PICK i \in 1..Len(l) : l[i] = c
    BY <1>8, <2>4
  <2>6. Cardinality(Before(c)) = i - 1
    BY <1>0, <2>1, <2>5, PlaceInList
  <2>7. i > q.offset /\ i \in Nat /\ Len(l) \in Nat /\ ~(Len(l) < q.offset)
    BY <1>3, <1>8, <2>3, <2>6
  <2> DEFINE m == Least(Len(l), q.offset + run'[b].take)
  <2>8. m \in Nat /\ Len(p) = m - q.offset
    BY <1>2, <1>3, <2>7 DEF Least
  <2>9. CASE i <= m
    <3>1. i - q.offset \in 1..Len(p)
      <4> HIDE DEF m, p
      <4> QED
        BY <1>3, <2>7, <2>8, <2>9
    <3>2. p[i - q.offset] = l[q.offset + (i - q.offset)]
      BY <1>2, <3>1
    <3>3. q.offset + (i - q.offset) = i
      BY <1>3, <2>7
    <3> QED
      BY <1>2, <2>5, <3>1, <3>2, <3>3 DEF ToCome
  <2>10. CASE i > m
    <3>1. Cardinality(Before(c))' >= run'[b].offset + Len(p)
      <4> HIDE DEF m, p
      <4> QED
        BY <1>2, <1>3, <1>6, <2>6, <2>7, <2>8, <2>10
    <3> QED
      BY <3>1 DEF ToCome
  <2> QED
    BY <2>7, <2>8, <2>9, <2>10
<1>15. NothingYet(b)'
  BY <1>2 DEF NothingYet
<1> QED
  BY <1>9, <1>10, <1>11, <1>12, <1>13, <1>14, <1>15 DEF RunHolds

LEMMA HandleKeeps == ASSUME BroadcastInv, NEW b \in Runs, Enqueue(b) \/ EnqueueFails(b) PROVE RunHolds(b)'
<1>0. BroadcastTypeOK /\ RunHolds(b)
  BY DEF BroadcastInv
<1> DEFINE q == run[b]
           n == Len(jobs) + 1
           j == [run |-> b, conv |-> q.page[q.at], due |-> Index(q)]
<1>1. /\ OnlyRun(b) /\ q.pc = "page" /\ q.at \in 1..Len(q.page)
      /\ run'[b].pc = "page" /\ run'[b].at = q.at + 1
      /\ run'[b].page = q.page /\ run'[b].take = q.take
      /\ run'[b].offset = q.offset /\ run'[b].total = q.total /\ run'[b].text = q.text
      /\ broadcastPast'.listed = broadcastPast.listed
      /\ broadcastPast'.tied = broadcastPast.tied
      /\ broadcastPast'.unheard = broadcastPast.unheard
      /\ broadcastPast.skips \subseteq broadcastPast'.skips
  BY HandleFacts
<1>2. \/ /\ jobs' = Append(jobs, j)
         /\ run'[b].queued = q.queued + 1 /\ run'[b].skipped = q.skipped
      \/ /\ run'[b].skipped = q.skipped + 1 /\ run'[b].queued = q.queued
         /\ broadcastPast' = [broadcastPast EXCEPT !.skips = @ \cup {<<b, q.page[q.at]>>}]
         /\ UNCHANGED jobs
  BY HandleFacts
<1>3. /\ q.offset \in Nat /\ q.at \in Nat /\ Len(q.page) \in Nat
      /\ q.queued \in Nat /\ q.skipped \in Nat /\ Index(q) = q.offset + q.at - 1 /\ Index(q) \in Nat
  BY <1>0, RunTypes DEF Index
<1>4. PICK c \in Recipients : c = q.page[q.at]
  BY <1>0, <1>1, RunTypes
<1>5. Index(run[b])' = Index(q) + 1
  <2>1. Index(run[b])' = run'[b].offset + run'[b].at - 1
    BY DEF Index
  <2>2. run'[b].offset = q.offset /\ run'[b].at = q.at + 1
    BY <1>1
  <2> QED
    BY <1>3, <2>1, <2>2
<1>6. /\ Matching' = Matching /\ Fresh' = Fresh /\ \A d \in Recipients : Before(d)' = Before(d)
      /\ broadcastPast'.moved = broadcastPast.moved
      /\ broadcastPast'.joined = broadcastPast.joined
      /\ broadcastPast'.left = broadcastPast.left
  BY <1>1, SameList DEF OnlyRun
<1>7. /\ IsFiniteSet(JobsOf(b)) /\ Cardinality(JobsOf(b)) \in Nat
      /\ \A i \in JobsOf(b) : i \in 1..Len(jobs) /\ jobs[i] \in JobType /\ jobs[i].run = b
      /\ jobs \in Seq(JobType)
  BY <1>0, JobsAreFinite DEF BroadcastTypeOK
<1>8. /\ \A i \in JobsOf(b) : jobs[i].due \in Nat /\ jobs[i].conv \in Recipients
      /\ j \in JobType /\ j.run = b /\ j.conv = c /\ j.due = Index(q)
  BY <1>3, <1>4, <1>7 DEF JobType
\* The jobs of b: those there were, and the new one if it is there.
<1>9. \/ /\ JobsOf(b)' = JobsOf(b) \cup {n} /\ n \notin JobsOf(b) /\ jobs'[n].conv = c
         /\ jobs'[n].due = Index(q) /\ \A i \in JobsOf(b) : i < n
         /\ run'[b].queued = q.queued + 1 /\ run'[b].skipped = q.skipped
      \/ /\ JobsOf(b)' = JobsOf(b)
         /\ run'[b].skipped = q.skipped + 1 /\ run'[b].queued = q.queued
         /\ <<b, c>> \in broadcastPast'.skips
  <2>1. CASE jobs' = Append(jobs, j)
             /\ run'[b].queued = q.queued + 1 /\ run'[b].skipped = q.skipped
    <3> HIDE DEF j
    <3>1. /\ jobs'[n] = j /\ n \notin JobsOf(b) /\ JobsOf(b)' = JobsOf(b) \cup {n}
          /\ Len(jobs) \in Nat /\ \A i \in JobsOf(b) : i <= Len(jobs)
      BY <1>7, <1>8, <2>1, JobsAppended
    <3> QED
      BY <1>7, <1>8, <2>1, <3>1
  <2>2. CASE /\ run'[b].skipped = q.skipped + 1 /\ run'[b].queued = q.queued
             /\ broadcastPast' = [broadcastPast EXCEPT !.skips = @ \cup {<<b, q.page[q.at]>>}]
             /\ UNCHANGED jobs
    <3>1. <<b, c>> \in broadcastPast'.skips
      BY <1>0, <1>4, <2>2 DEF BroadcastTypeOK, PastType
    <3> QED
      BY <2>2, <3>1 DEF JobsOf
  <2> QED
    BY <1>2, <2>1, <2>2
<1>10. \A i \in JobsOf(b) : jobs'[i] = jobs[i]
  <2>1. CASE jobs' = jobs
    BY <2>1
  <2>2. CASE jobs' = Append(jobs, j)
    <3> HIDE DEF j
    <3> QED
      BY <1>7, <1>8, <2>2, JobsAppended
  <2> QED
    BY <1>2, <2>1, <2>2
<1>11. AddsUp(b)'
  <2>1. AddsUp(b)
    BY <1>0 DEF RunHolds
  <2>2. Cardinality(JobsOf(b)') = run'[b].queued + broadcastPast'.unheard[b]
    <3>1. Cardinality(JobsOf(b) \cup {n}) = IF n \in JobsOf(b) THEN Cardinality(JobsOf(b))
                                            ELSE Cardinality(JobsOf(b)) + 1
      BY <1>7, FS_AddElement
    <3>2. broadcastPast.unheard[b] \in Nat /\ broadcastPast'.unheard[b] = broadcastPast.unheard[b]
      BY <1>0, <1>1, UnheardIsNat
    <3>3. Cardinality(JobsOf(b)) = q.queued + broadcastPast.unheard[b]
      BY <2>1 DEF AddsUp
    <3>4. \A u, k \in Nat : (k + u) + 1 = (k + 1) + u
      OBVIOUS
    <3>5. CASE JobsOf(b)' = JobsOf(b) \cup {n} /\ n \notin JobsOf(b) /\ run'[b].queued = q.queued + 1
      BY <1>3, <3>1, <3>2, <3>3, <3>4, <3>5
    <3>6. CASE JobsOf(b)' = JobsOf(b) /\ run'[b].queued = q.queued
      BY <3>2, <3>3, <3>6
    <3> QED
      BY <1>9, <3>5, <3>6
  <2>3. run'[b].queued + run'[b].skipped = Index(q) + 1
    <3>1. q.queued + q.skipped = Index(q)
      BY <2>1 DEF AddsUp
    <3>2. \/ run'[b].queued = q.queued + 1 /\ run'[b].skipped = q.skipped
          \/ run'[b].skipped = q.skipped + 1 /\ run'[b].queued = q.queued
      BY <1>9
    <3> QED
      BY <1>3, <3>1, <3>2
  <2> QED
    BY <1>1, <1>5, <2>1, <2>2, <2>3 DEF AddsUp
<1>12. DuesFollow(b)'
  <2>1. DuesFollow(b)
    BY <1>0 DEF RunHolds
  <2>2. \A i \in JobsOf(b)' : jobs'[i].due < Index(q) + 1
    BY <1>3, <1>8, <1>9, <1>10, <2>1 DEF DuesFollow, AtPlace, OneAddition
  <2>3. \A i, k \in JobsOf(b)' : i < k => jobs'[i].due < jobs'[k].due \/ OneAddition(b, i, k)'
    <3> SUFFICES ASSUME NEW i \in JobsOf(b)', NEW k \in JobsOf(b)', i < k
                 PROVE  jobs'[i].due < jobs'[k].due \/ OneAddition(b, i, k)'
      OBVIOUS
    <3>1. Len(jobs) \in Nat /\ \A h \in JobsOf(b) : h \in Nat /\ h <= Len(jobs)
      BY <1>7
    <3>2. i \in JobsOf(b)
      BY <1>9, <3>1
    <3>3. CASE k \in JobsOf(b)
      BY <1>1, <1>10, <2>1, <3>2, <3>3 DEF DuesFollow, OneAddition
    <3>4. CASE k \notin JobsOf(b)
      <4>1. jobs'[k].due = Index(q) /\ jobs'[k].conv = c
        BY <1>9, <3>4
      <4>2. \/ jobs[i].due < Index(q)
            \/ broadcastPast.unheard[b] > 0 /\ jobs[i].due = Index(q) /\ jobs[i].conv = c
        BY <1>4, <2>1, <3>2 DEF DuesFollow, AtPlace
      <4> QED
        BY <1>1, <1>10, <3>2, <4>1, <4>2 DEF OneAddition
    <3> QED
      BY <3>3, <3>4
  <2> QED
    BY <1>5, <2>2, <2>3 DEF DuesFollow, AtPlace, OneAddition
<1>13. PagesAreFull(b)'
  BY <1>0, <1>1, <1>6 DEF RunHolds, PagesAreFull, Working
<1>14. Undisturbed(b)' <=> Undisturbed(b)
  BY <1>1, <1>6 DEF Undisturbed
<1>15. Undisturbed(b) => /\ \A i \in JobsOf(b) : Cardinality(Before(jobs[i].conv)) = jobs[i].due
                         /\ \A k \in 1..Len(q.page) : Cardinality(Before(q.page[k])) = q.offset + k - 1
                         /\ Cardinality(Before(c)) = Index(q)
  BY <1>0, <1>1, <1>3, <1>4 DEF RunHolds, PlacesKept, Working
<1>16. PlacesKept(b)'
  <2> SUFFICES ASSUME Undisturbed(b)
               PROVE  /\ \A i \in JobsOf(b)' : Cardinality(Before(jobs[i].conv))' = jobs'[i].due
                      /\ \A k \in 1..Len(q.page) : Cardinality(Before(run[b].page[k]))' = q.offset + k - 1
    BY <1>1, <1>14 DEF PlacesKept
  <2>1. ASSUME NEW i \in JobsOf(b)' PROVE Cardinality(Before(jobs[i].conv))' = jobs'[i].due
    <3>1. PICK d \in Recipients : d = jobs'[i].conv /\ Cardinality(Before(d)) = jobs'[i].due
      BY <1>8, <1>9, <1>10, <1>15
    <3>2. Before(jobs[i].conv)' = Before(d)'
      BY <3>1 DEF Before
    <3> QED
      BY <1>6, <3>1, <3>2
  <2>2. ASSUME NEW k \in 1..Len(q.page)
        PROVE  Cardinality(Before(run[b].page[k]))' = q.offset + k - 1
    <3>1. PICK d \in Recipients : d = q.page[k] /\ Cardinality(Before(d)) = q.offset + k - 1
      BY <1>0, <1>15, RunTypes
    <3>2. Before(run[b].page[k])' = Before(d)'
      BY <1>1, <3>1 DEF Before
    <3> QED
      BY <1>6, <3>1, <3>2
  <2> QED
    BY <2>1, <2>2
<1>17. NoneTwice(b)'
  <2> SUFFICES ASSUME Undisturbed(b), NEW i \in JobsOf(b)', NEW k \in JobsOf(b)', i < k
               PROVE  jobs'[i].conv # jobs'[k].conv \/ jobs'[i].due = jobs'[k].due
    BY <1>14 DEF NoneTwice
  <2>1. Len(jobs) \in Nat /\ \A h \in JobsOf(b) : h \in Nat /\ h <= Len(jobs)
    BY <1>7
  <2>2. i \in JobsOf(b)
    BY <1>9, <2>1
  <2>3. CASE k \in JobsOf(b)
    BY <1>0, <1>10, <2>2, <2>3 DEF RunHolds, NoneTwice
  <2>4. CASE k \notin JobsOf(b)
    <3>1. jobs'[k].conv = c
      BY <1>9, <2>4
    <3>2. /\ jobs[i].due < Index(q) \/ jobs[i].due = Index(q)
          /\ Cardinality(Before(jobs[i].conv)) = jobs[i].due
      BY <1>0, <1>15, <2>2 DEF RunHolds, DuesFollow, AtPlace, OneAddition
    <3>3. jobs[i].conv # c \/ jobs[i].due = Index(q)
      BY <1>3, <1>8, <1>15, <2>2, <3>2
    <3> QED
      BY <1>9, <1>10, <2>2, <2>4, <3>1, <3>3
  <2> QED
    BY <2>3, <2>4
<1>18. OneUndated(b)'
  BY <1>0, <1>1, <1>6 DEF RunHolds, OneUndated
<1>19. NoneForgotten(b)'
  <2> SUFFICES ASSUME NEW d \in Recipients, Expected(b, d)', ~Sent(b, d)'
               PROVE  ToCome(b, d)'
    BY <1>1 DEF NoneForgotten
  <2>1. Expected(b, d)
    BY <1>1, <1>6 DEF Expected
  <2>2. ~Sent(b, d) /\ d # c
    BY <1>1, <1>9, <1>10 DEF Sent
  <2>3. ToCome(b, d)
    BY <1>0, <1>1, <2>1, <2>2 DEF RunHolds, NoneForgotten, Working
  <2>4. CASE \E k \in q.at..Len(q.page) : q.page[k] = d
    <3>1. PICK k \in q.at..Len(q.page) : q.page[k] = d
      BY <2>4
    <3>2. k \in (q.at + 1)..Len(q.page)
      BY <1>3, <1>4, <2>2, <3>1
    <3> QED
      BY <1>1, <3>1, <3>2 DEF ToCome
  <2>5. CASE Cardinality(Before(d)) >= q.offset + Len(q.page)
    BY <1>1, <1>6, <2>5 DEF ToCome
  <2> QED
    BY <2>3, <2>4, <2>5 DEF ToCome
<1>20. NothingYet(b)'
  BY <1>1 DEF NothingYet
<1> QED
  BY <1>11, <1>12, <1>13, <1>16, <1>17, <1>18, <1>19, <1>20 DEF RunHolds

\* An unheard addition is one job more, of the place the run is at.
LEMMA AddUnheardKeeps == ASSUME BroadcastInv, NEW b \in Runs, AddUnheard(b) PROVE RunHolds(b)'
<1>0. BroadcastTypeOK /\ RunHolds(b)
  BY DEF BroadcastInv
<1> DEFINE q == run[b]
           n == Len(jobs) + 1
           j == [run |-> b, conv |-> q.page[q.at], due |-> Index(q)]
<1>1. /\ OnlyRun(b) /\ q.pc = "page" /\ q.at \in 1..Len(q.page)
      /\ run' = run /\ jobs' = Append(jobs, j)
      /\ broadcastPast'.unheard[b] = broadcastPast.unheard[b] + 1
      /\ broadcastPast'.moved = broadcastPast.moved
      /\ broadcastPast'.joined = broadcastPast.joined
      /\ broadcastPast'.left = broadcastPast.left
      /\ broadcastPast'.listed = broadcastPast.listed
      /\ broadcastPast'.tied = broadcastPast.tied
      /\ broadcastPast'.skips = broadcastPast.skips
  BY AddUnheardFacts
<1>2. /\ q.offset \in Nat /\ q.at \in Nat /\ Len(q.page) \in Nat
      /\ q.queued \in Nat /\ Index(q) = q.offset + q.at - 1 /\ Index(q) \in Nat
      /\ broadcastPast.unheard[b] \in Nat
  BY <1>0, RunTypes, UnheardIsNat DEF Index
<1>3. PICK c \in Recipients : c = q.page[q.at]
  BY <1>0, <1>1, RunTypes
<1>4. /\ Matching' = Matching /\ Fresh' = Fresh /\ \A d \in Recipients : Before(d)' = Before(d)
  BY <1>1, SameList DEF OnlyRun
<1>5. /\ IsFiniteSet(JobsOf(b)) /\ Cardinality(JobsOf(b)) \in Nat /\ jobs \in Seq(JobType)
      /\ \A i \in JobsOf(b) : /\ i \in 1..Len(jobs) /\ jobs[i].due \in Nat
                              /\ jobs[i].conv \in Recipients
      /\ j \in JobType /\ j.run = b /\ j.conv = c /\ j.due = Index(q)
  BY <1>0, <1>2, <1>3, JobsAreFinite DEF BroadcastTypeOK, JobType
<1>6. /\ JobsOf(b)' = JobsOf(b) \cup {n} /\ n \notin JobsOf(b)
      /\ jobs'[n].conv = c /\ jobs'[n].due = Index(q)
      /\ \A i \in JobsOf(b) : i < n /\ jobs'[i] = jobs[i]
  <2> HIDE DEF j
  <2>1. /\ jobs'[n] = j /\ n \notin JobsOf(b) /\ JobsOf(b)' = JobsOf(b) \cup {n}
        /\ Len(jobs) \in Nat /\ \A i \in JobsOf(b) : i <= Len(jobs)
        /\ \A i \in 1..Len(jobs) : jobs'[i] = jobs[i]
    BY <1>1, <1>5, JobsAppended
  <2> QED
    BY <1>5, <2>1
<1>7. AddsUp(b) /\ DuesFollow(b) /\ PlacesKept(b) /\ NoneTwice(b)
  BY <1>0 DEF RunHolds
<1>8. AddsUp(b)'
  <2>1. Cardinality(JobsOf(b) \cup {n}) = Cardinality(JobsOf(b)) + 1
    BY <1>5, <1>6, FS_AddElement
  <2>2. Cardinality(JobsOf(b)) = q.queued + broadcastPast.unheard[b]
    BY <1>7 DEF AddsUp
  <2>3. Cardinality(JobsOf(b)') = q.queued + broadcastPast'.unheard[b]
    BY <1>1, <1>2, <1>6, <2>1, <2>2
  <2> QED
    BY <1>1, <1>7, <2>3 DEF AddsUp
<1>9. DuesFollow(b)'
  <2>1. broadcastPast'.unheard[b] > 0
    BY <1>1, <1>2
  <2>2. ASSUME NEW i \in JobsOf(b)' PROVE jobs'[i].due < Index(q) \/ AtPlace(b, i)'
    <3>1. CASE i \in JobsOf(b)
      <4>1. \/ jobs[i].due < Index(q)
            \/ jobs[i].due = Index(q) /\ jobs[i].conv = c
        BY <1>3, <1>7, <3>1 DEF DuesFollow, AtPlace
      <4>2. jobs'[i] = jobs[i] /\ run' = run /\ q.at <= Len(q.page)
        <5>1. jobs'[i] = jobs[i]
          BY <1>6, <3>1
        <5>2. q.at <= Len(q.page)
          BY <1>1, <1>2
        <5> QED
          BY <1>1, <5>1, <5>2
      <4>3. CASE jobs[i].due < Index(q)
        BY <4>2, <4>3
      <4>4. CASE jobs[i].due = Index(q) /\ jobs[i].conv = c
        BY <1>3, <2>1, <4>2, <4>4 DEF AtPlace
      <4> QED
        BY <4>1, <4>3, <4>4
    <3>2. CASE i = n
      BY <1>1, <1>3, <1>6, <2>1, <3>2 DEF AtPlace
    <3> QED
      BY <1>6, <3>1, <3>2
  <2>3. ASSUME NEW i \in JobsOf(b)', NEW k \in JobsOf(b)', i < k
        PROVE  jobs'[i].due < jobs'[k].due \/ OneAddition(b, i, k)'
    <3>1. \A h \in JobsOf(b) : h \in Nat /\ h < n
      BY <1>5, <1>6
    <3>2. n \in Nat
      BY <1>5
    <3>3. i \in JobsOf(b)
      BY <1>6, <2>3, <3>1, <3>2
    <3>4. CASE k \in JobsOf(b)
      BY <1>6, <1>7, <2>1, <2>3, <3>3, <3>4 DEF DuesFollow, OneAddition
    <3>5. CASE k \notin JobsOf(b)
      BY <1>3, <1>6, <1>7, <2>1, <3>3, <3>5 DEF DuesFollow, AtPlace, OneAddition
    <3> QED
      BY <3>4, <3>5
  <2> QED
    BY <1>1, <2>2, <2>3 DEF DuesFollow
<1>10. Undisturbed(b)' <=> Undisturbed(b)
  BY <1>1 DEF Undisturbed
<1>11. Undisturbed(b) => Cardinality(Before(c)) = Index(q)
  BY <1>1, <1>2, <1>3, <1>7 DEF PlacesKept, Working
<1>12. PlacesKept(b)'
  <2> SUFFICES ASSUME Undisturbed(b)
               PROVE  /\ \A i \in JobsOf(b)' : Cardinality(Before(jobs[i].conv))' = jobs'[i].due
                      /\ \A k \in 1..Len(q.page) : Cardinality(Before(run[b].page[k]))' = q.offset + k - 1
    BY <1>1, <1>10 DEF PlacesKept
  <2>1. ASSUME NEW i \in JobsOf(b)' PROVE Cardinality(Before(jobs[i].conv))' = jobs'[i].due
    <3>1. PICK d \in Recipients : d = jobs'[i].conv /\ Cardinality(Before(d)) = jobs'[i].due
      BY <1>1, <1>5, <1>6, <1>7, <1>11 DEF PlacesKept, Working
    <3>2. Before(jobs[i].conv)' = Before(d)'
      BY <3>1 DEF Before
    <3> QED
      BY <1>4, <3>1, <3>2
  <2>2. ASSUME NEW k \in 1..Len(q.page)
        PROVE  Cardinality(Before(run[b].page[k]))' = q.offset + k - 1
    <3>1. PICK d \in Recipients : d = q.page[k] /\ Cardinality(Before(d)) = q.offset + k - 1
      BY <1>0, <1>1, <1>7, RunTypes DEF PlacesKept, Working
    <3>2. Before(run[b].page[k])' = Before(d)'
      BY <1>1, <3>1 DEF Before
    <3> QED
      BY <1>4, <3>1, <3>2
  <2> QED
    BY <2>1, <2>2
<1>13. NoneTwice(b)'
  <2> SUFFICES ASSUME Undisturbed(b), NEW i \in JobsOf(b)', NEW k \in JobsOf(b)', i < k
               PROVE  jobs'[i].conv # jobs'[k].conv \/ jobs'[i].due = jobs'[k].due
    BY <1>10 DEF NoneTwice
  <2>1. n \in Nat /\ \A h \in JobsOf(b) : h \in Nat /\ h < n
    BY <1>5, <1>6
  <2>2. i \in JobsOf(b)
    BY <1>6, <2>1
  <2>3. CASE k \in JobsOf(b)
    BY <1>6, <1>7, <2>2, <2>3 DEF NoneTwice
  <2>4. CASE k \notin JobsOf(b)
    <3>1. Cardinality(Before(jobs[i].conv)) = jobs[i].due
      BY <1>1, <1>7, <2>2 DEF PlacesKept, Working
    <3>2. jobs[i].conv # c \/ jobs[i].due = Index(q)
      BY <1>11, <3>1
    <3> QED
      BY <1>6, <2>2, <2>4, <3>2
  <2> QED
    BY <2>3, <2>4
<1>14. PagesAreFull(b)' /\ OneUndated(b)'
  BY <1>0, <1>1, <1>4 DEF RunHolds, PagesAreFull, OneUndated
<1>15. NoneForgotten(b)'
  <2> SUFFICES ASSUME NEW d \in Recipients, Expected(b, d)', ~Sent(b, d)'
               PROVE  ToCome(b, d)'
    BY <1>1 DEF NoneForgotten
  <2>1. Expected(b, d) /\ ~Sent(b, d)
    BY <1>1, <1>6 DEF Expected, Sent
  <2>2. ToCome(b, d)
    BY <1>0, <1>1, <2>1 DEF RunHolds, NoneForgotten, Working
  <2> QED
    BY <1>1, <1>4, <2>2 DEF ToCome
<1>16. NothingYet(b)'
  BY <1>1 DEF NothingYet
<1> QED
  BY <1>8, <1>9, <1>12, <1>13, <1>14, <1>15, <1>16 DEF RunHolds

LEMMA PageDoneKeeps == ASSUME BroadcastInv, NEW b \in Runs, PageDone(b) PROVE RunHolds(b)'
<1>0. BroadcastTypeOK /\ RunHolds(b)
  BY DEF BroadcastInv
<1> DEFINE q == run[b]
<1>1. /\ OnlyRun(b) /\ q.pc = "page" /\ q.at = Len(q.page) + 1
      /\ run'[b].pc = IF Len(q.page) < q.take THEN "done" ELSE "counted"
      /\ run'[b].at = 1 /\ run'[b].page = <<>> /\ Len(run'[b].page) = 0
      /\ run'[b].offset = q.offset + Len(q.page)
      /\ run'[b].total = q.total /\ run'[b].text = q.text
      /\ run'[b].queued = q.queued /\ run'[b].skipped = q.skipped
      /\ UNCHANGED <<jobs, tab, broadcastPast>>
  BY PageDoneFacts
<1>3. /\ q.offset \in Nat /\ q.at \in Nat /\ Len(q.page) \in Nat /\ q.take \in Nat
      /\ q.queued \in Nat /\ q.skipped \in Nat
  BY <1>0, RunTypes
<1>4. Index(run[b])' = Index(q) /\ JobsOf(b)' = JobsOf(b)
  BY <1>1, <1>3 DEF Index, JobsOf
<1>6. /\ Matching' = Matching /\ Fresh' = Fresh /\ \A d \in Recipients : Before(d)' = Before(d)
  BY <1>1, SameList DEF OnlyRun
<1>7. AddsUp(b)'
  BY <1>0, <1>1, <1>4 DEF RunHolds, AddsUp
<1>8. DuesFollow(b)' /\ NoneTwice(b)'
  <2>1. DuesFollow(b) /\ NoneTwice(b)
    BY <1>0 DEF RunHolds
  <2> QED
    BY <1>1, <1>4, <2>1 DEF DuesFollow, AtPlace, OneAddition, NoneTwice, Undisturbed
<1>9. run'[b].pc = "done" => broadcastPast.left[b] # {}
  BY <1>0, <1>1, <1>3 DEF RunHolds, PagesAreFull
<1>10. PagesAreFull(b)'
  BY <1>0, <1>1, <1>6, <1>9 DEF RunHolds, PagesAreFull, Working
<1>11. PlacesKept(b)'
  <2>1. PlacesKept(b) /\ (Undisturbed(b)' <=> Undisturbed(b))
    BY <1>0, <1>1 DEF RunHolds, Undisturbed
  <2>2. \A i \in JobsOf(b) : Before(jobs[i].conv)' = Before(jobs[i].conv)
    BY <1>1, <1>6 DEF Before, Ahead, OnlyRun
  <2> QED
    BY <1>1, <1>4, <2>1, <2>2 DEF PlacesKept, Working
<1>12. OneUndated(b)'
  BY <1>0, <1>1, <1>6 DEF RunHolds, OneUndated
<1>13. NoneForgotten(b)'
  <2> SUFFICES ASSUME NEW d \in Recipients, Expected(b, d), ~Sent(b, d)
               PROVE  ToCome(b, d)' /\ run'[b].pc # "done"
    BY <1>1, <1>4 DEF NoneForgotten, Expected, Sent
  <2>1. ToCome(b, d)
    BY <1>0, <1>1 DEF RunHolds, NoneForgotten, Working
  <2>2. Cardinality(Before(d)) >= q.offset + Len(q.page)
    BY <1>1, <1>3, <2>1 DEF ToCome
  <2>3. Cardinality(Before(d))' >= run'[b].offset + Len(run'[b].page)
    BY <1>1, <1>3, <1>6, <2>2
  <2> QED
    BY <1>9, <2>3 DEF ToCome, Expected
<1>14. NothingYet(b)'
  BY <1>1 DEF NothingYet
<1> QED
  BY <1>7, <1>8, <1>10, <1>11, <1>12, <1>13, <1>14 DEF RunHolds

\* A message of a customer moves one row to the front of the list, or adds one.
LEMMA CustomerKeeps ==
    ASSUME BroadcastInv, NEW c \in Recipients, NewConversation(c) \/ CustomerWrites(c),
           NEW b \in Runs
    PROVE  RunHolds(b)'
<1>0. BroadcastTypeOK /\ RunHolds(b)
  BY DEF BroadcastInv
<1>1. /\ UNCHANGED <<run, jobs, tab>>
      /\ \A d \in Recipients \ {c} : status'[d] = status[d] /\ date'[d] = date[d]
      /\ \/ ~Exists(c) /\ date[c] = 0 /\ date'[c] = 0
         \/ Exists(c) /\ date'[c] = Now
      /\ Exists(c)'
      /\ broadcastPast'.listed = broadcastPast.listed
      /\ broadcastPast'.tied = broadcastPast.tied
      /\ broadcastPast'.unheard = broadcastPast.unheard
      /\ broadcastPast'.skips = broadcastPast.skips
  BY CustomerFacts
<1>2. /\ run[b].pc \notin Working =>
             /\ broadcastPast'.moved[b] = broadcastPast.moved[b]
             /\ broadcastPast'.joined[b] = broadcastPast.joined[b]
             /\ broadcastPast'.left[b] = broadcastPast.left[b]
      /\ run[b].pc \in Working =>
             /\ broadcastPast'.moved[b] = broadcastPast.moved[b] \cup {c}
             /\ broadcastPast.joined[b] \subseteq broadcastPast'.joined[b]
             /\ broadcastPast.left[b] \subseteq broadcastPast'.left[b]
             /\ ~Matches(c) /\ Matches(c)' => c \in broadcastPast'.joined[b]
             /\ Matches(c) /\ ~Matches(c)' => c \in broadcastPast'.left[b]
  BY CustomerFacts
<1>3. JobsOf(b)' = JobsOf(b) /\ Index(run[b])' = Index(run[b])
  BY <1>1 DEF JobsOf, Index
<1>4. AddsUp(b)' /\ DuesFollow(b)'
  BY <1>0, <1>1, <1>3 DEF RunHolds, AddsUp, DuesFollow, AtPlace, OneAddition
<1>5. CASE run[b].pc \notin Working
  <2>1. PagesAreFull(b)'
    BY <1>0, <1>1, <1>2, <1>5 DEF RunHolds, PagesAreFull, Working
  <2>2. PlacesKept(b)' /\ OneUndated(b)'
    BY <1>1, <1>5 DEF PlacesKept, OneUndated, Working
  <2>3. NoneTwice(b)'
    BY <1>0, <1>1, <1>2, <1>3, <1>5 DEF RunHolds, NoneTwice, Undisturbed
  <2>4. NoneForgotten(b)'
    <3>1. \A d \in Recipients : Expected(b, d)' <=> Expected(b, d)
      BY <1>1, <1>2, <1>5 DEF Expected
    <3>2. \A d \in Recipients : Sent(b, d)' <=> Sent(b, d)
      BY <1>1, <1>3 DEF Sent
    <3> QED
      BY <1>0, <1>1, <1>5, <3>1, <3>2 DEF RunHolds, NoneForgotten
  <2>5. NothingYet(b)'
    BY <1>0, <1>1, <1>2, <1>5 DEF RunHolds, NothingYet
  <2> QED
    BY <1>4, <2>1, <2>2, <2>3, <2>4, <2>5 DEF RunHolds
<1>6. CASE run[b].pc \in Working
  <2>1. \A d \in Recipients \ {c} : Matches(d)' <=> Matches(d)
    BY <1>1 DEF Matches, Exists
  <2>2. broadcastPast'.left[b] = {} => broadcastPast.left[b] = {} /\ Matching \subseteq Matching'
    BY <1>2, <1>6, <2>1 DEF Matching
  <2>3. broadcastPast'.joined[b] = {} => broadcastPast.joined[b] = {} /\ Matching' \subseteq Matching
    BY <1>2, <1>6, <2>1 DEF Matching
  <2>4. PagesAreFull(b)'
    BY <1>0, <1>1, <1>6, <2>2, <2>3 DEF RunHolds, PagesAreFull, Working
  <2>5. PlacesKept(b)' /\ NoneTwice(b)'
    BY <1>2, <1>6 DEF PlacesKept, NoneTwice, Undisturbed
  <2>6. Now \in Nat \ {0} /\ \A d \in Recipients : date[d] \in Nat /\ date[d] < Now
    <3>1. Cardinality(Recipients) \in Nat /\ broadcastPast.moves \in Nat
      BY <1>0, BroadcastAssumption, FS_CardinalityType DEF BroadcastTypeOK, PastType
    <3> QED
      BY <1>0, <3>1 DEF BroadcastTypeOK, Now
  <2>7. broadcastPast'.joined[b] = {} => Fresh' \subseteq Fresh
    <3> HAVE broadcastPast'.joined[b] = {}
    <3>1. Matching' \subseteq Matching /\ Matching' \subseteq Recipients
      BY <2>3 DEF Matching
    <3>2. ASSUME NEW d \in Fresh' PROVE d \in Fresh
      <4>1. d \in Matching /\ date'[d] = 0
        BY <3>1, <3>2 DEF Fresh
      <4>2. d # c
        BY <1>1, <2>6, <4>1 DEF Matching, Matches
      <4> QED
        BY <1>1, <3>1, <3>2, <4>1, <4>2 DEF Fresh
    <3> QED
      BY <3>2
  <2>8. OneUndated(b)'
    BY <1>0, <1>1, <2>3, <2>7 DEF RunHolds, OneUndated
  <2>9. NoneForgotten(b)'
    <3> SUFFICES ASSUME NEW d \in Recipients, Expected(b, d)', ~Sent(b, d)'
                 PROVE  ToCome(b, d)'
      BY <1>1, <1>6 DEF NoneForgotten, Working
    <3>1. /\ d # c /\ Expected(b, d) /\ Matching' = Matching
          /\ ~broadcastPast.tied[b] /\ broadcastPast.joined[b] = {}
      BY <1>1, <1>2, <1>6, <2>2, <2>3 DEF Expected
    <3>2. ~Sent(b, d)
      BY <1>1, <1>3 DEF Sent
    <3>3. ToCome(b, d)
      BY <1>0, <1>6, <3>1, <3>2 DEF RunHolds, NoneForgotten
    <3>4. IsFiniteSet(Before(d)') /\ Cardinality(Before(d)') \in Nat
      <4>1. IsFiniteSet(Recipients) /\ Before(d)' \subseteq Recipients
        BY BroadcastAssumption DEF Before, Matching
      <4> QED
        BY <4>1, Fewer
    <3>5. /\ run[b].offset \in Nat /\ Len(run[b].page) \in Nat /\ Cardinality(Before(d)) \in Nat
      <4>1. IsFiniteSet(Recipients) /\ Before(d) \subseteq Recipients
        BY BroadcastAssumption DEF Before, Matching
      <4> QED
        BY <1>0, <4>1, Fewer, RunTypes
    <3>6. CASE \E k \in run[b].at..Len(run[b].page) : run[b].page[k] = d
      BY <1>1, <3>6 DEF ToCome
    <3>7. CASE run[b].pc = "counted" /\ ~(run[b].offset > 0)
      <4>1. run[b].page = <<>>
        BY <1>0, <3>7 DEF RunHolds, AddsUp
      <4>2. Len(<<>>) = 0
        OBVIOUS
      <4>3. run[b].offset + Len(run[b].page) = 0
        BY <3>5, <3>7, <4>1, <4>2
      <4>4. Cardinality(Before(d)') >= run'[b].offset + Len(run'[b].page)
        BY <1>1, <3>4, <4>3
      <4> QED
        BY <4>4 DEF ToCome
    <3>8. CASE /\ Cardinality(Before(d)) >= run[b].offset + Len(run[b].page)
               /\ run[b].pc = "page" \/ (run[b].pc = "counted" /\ run[b].offset > 0)
      <4>1. \A e, f \in Fresh : e = f
        BY <1>0, <3>1, <3>8 DEF RunHolds, OneUndated
      <4>2. d \in Matching
        BY <1>0, <1>6, <3>1 DEF Expected, RunHolds, PagesAreFull
      <4>3. ASSUME NEW e \in Before(d) PROVE e \in Before(d)'
        <5>1. e \in Matching /\ e # d /\ Ahead(e, d) /\ e \in Recipients
          BY <4>3 DEF Before, Matching
        <5>2. ~(date[e] = 0 /\ date[d] = 0)
          BY <4>1, <4>2, <5>1 DEF Fresh
        <5>3. date'[d] = date[d] /\ (date'[e] = date[e] \/ e = c)
          BY <1>1, <3>1, <5>1
        <5>4. e = c => date'[e] = Now
          BY <1>1, <5>1 DEF Matching, Matches
        <5>5. Ahead(e, d)'
          <6>1. CASE e = c
            <7>1. date[d] # 0
              BY <5>1, <5>2 DEF Ahead
            <7> QED
              BY <2>6, <5>3, <5>4, <6>1, <7>1 DEF Ahead
          <6>2. CASE date'[e] = date[e]
            BY <5>1, <5>3, <6>2 DEF Ahead
          <6> QED
            BY <5>3, <6>1, <6>2
        <5> QED
          BY <3>1, <5>1, <5>5 DEF Before
      <4>4. Cardinality(Before(d)) <= Cardinality(Before(d)')
        <5>1. Before(d) \subseteq Before(d)'
          BY <4>3
        <5> QED
          BY <3>4, <5>1, Fewer
      <4>5. Cardinality(Before(d)') >= run'[b].offset + Len(run'[b].page)
        BY <1>1, <3>4, <3>5, <3>8, <4>4
      <4> QED
        BY <4>5 DEF ToCome
    <3> QED
      BY <1>6, <3>3, <3>6, <3>7, <3>8 DEF ToCome, Working
  <2>10. NothingYet(b)'
    BY <1>1, <1>6 DEF NothingYet, Working
  <2> QED
    BY <1>4, <2>4, <2>5, <2>8, <2>9, <2>10 DEF RunHolds
<1> QED
  BY <1>5, <1>6

\* A step that changes neither the form nor a text.
LEMMA TextsStay ==
    ASSUME TextsAreSpent, UNCHANGED tab, broadcastPast'.unanswered = broadcastPast.unanswered,
           \A d \in Runs : /\ run'[d].text = run[d].text
                           /\ run'[d].pc = "idle" <=> run[d].pc = "idle"
    PROVE  TextsAreSpent'
  BY DEF TextsAreSpent

LEMMA FormKeepsTexts ==
    ASSUME BroadcastInv, (\E t \in Texts : Write(t)) \/ ShowResult \/ ShowError
    PROVE  TextsAreSpent'
<1>0. /\ broadcastPast \in PastType /\ TextsAreSpent /\ Nothing \notin Runs
      /\ tab \in [text : Texts \cup {Nothing}, waits : Runs \cup {Nothing},
                  shows : {"nothing", "error", "result"}]
      /\ \A b \in Runs : run[b].pc = "idle" <=> run[b].text = Nothing
  BY BroadcastAssumption DEF BroadcastInv, BroadcastTypeOK, RunHolds, AddsUp
<1>1. CASE \E t \in Texts : Write(t)
  <2>1. PICK t \in Texts : Write(t)
    BY <1>1
  <2>2. /\ UNCHANGED <<run, broadcastPast>> /\ tab'.text = t /\ tab'.waits = tab.waits
        /\ \A b \in Runs : run[b].text # t
    BY <1>0, <2>1 DEF Write
  <2> QED
    BY <1>0, <2>2 DEF TextsAreSpent
<1>2. CASE ShowResult
  <2>1. /\ UNCHANGED <<run, broadcastPast>> /\ tab'.text = Nothing
        /\ \A b \in Runs : run[b].pc # "idle" => run[b].text # Nothing
    BY <1>0, <1>2 DEF ShowResult
  <2> QED
    BY <1>0, <2>1 DEF TextsAreSpent
<1>3. CASE ShowError
  <2>1. /\ UNCHANGED run /\ tab'.text = tab.text
        /\ broadcastPast'.unanswered = broadcastPast.unanswered \cup {tab.waits}
    BY <1>0, <1>3 DEF ShowError, PastType
  <2> QED
    BY <1>0, <2>1 DEF TextsAreSpent
<1> QED
  BY <1>1, <1>2, <1>3

LEMMA SendKeepsTexts == ASSUME BroadcastInv, NEW b \in Runs, SendBroadcast(b) PROVE TextsAreSpent'
<1>1. /\ OnlyRun(b) /\ run[b].pc = "idle"
      /\ run'[b] = [NoRun EXCEPT !.pc = "posted", !.text = tab.text]
      /\ tab.waits = Nothing /\ tab'.waits = b /\ tab'.text = tab.text
      /\ UNCHANGED <<jobs, broadcastPast>>
      /\ \A d \in Runs : d < b => run[d].pc # "idle"
  BY SendBroadcastFacts
<1>2. run'[b].pc = "posted" /\ run'[b].text = tab.text /\ \A d \in Runs \ {b} : run'[d] = run[d]
  BY <1>1 DEF NoRun, OnlyRun
<1>3. TextsAreSpent /\ Nothing \notin Runs /\ Runs \subseteq Nat
  BY BroadcastAssumption DEF BroadcastInv
<1>4. \A d \in Runs : run[d].pc # "idle" => d \in broadcastPast.unanswered \/ run[d].text # tab.text
  BY <1>1, <1>3 DEF TextsAreSpent
<1>5. ASSUME NEW d \in Runs, run'[d].pc # "idle"
      PROVE  /\ \/ d \in broadcastPast'.unanswered
                \/ d = tab'.waits
                \/ run'[d].text # tab'.text
             /\ \A a \in Runs : a < d =>
                    /\ run'[a].pc # "idle"
                    /\ run'[a].text = run'[d].text => a \in broadcastPast'.unanswered
  <2>1. CASE d = b
    <3>1. \A a \in Runs : a < b => a # b
      BY <1>3
    <3> QED
      BY <1>1, <1>2, <1>4, <2>1, <3>1
  <2>2. CASE d # b
    <3>1. run'[d] = run[d] /\ ~(b < d)
      BY <1>1, <1>2, <1>3, <1>5, <2>2 DEF TextsAreSpent
    <3>2. \A a \in Runs : a < d => run'[a] = run[a]
      BY <1>2, <3>1
    <3> QED
      BY <1>1, <1>3, <1>4, <1>5, <3>1, <3>2 DEF TextsAreSpent
  <2> QED
    BY <2>1, <2>2
<1> QED
  BY <1>5 DEF TextsAreSpent

LEMMA RunKeepsTexts ==
    ASSUME BroadcastInv, NEW b \in Runs,
           \/ NoNumber(b) \/ CountTotal(b) \/ ReadPage(b) \/ Enqueue(b) \/ AddUnheard(b) \/ EnqueueFails(b)
           \/ PageDone(b) \/ AllDone(b) \/ RunFails(b)
    PROVE  TextsAreSpent'
<1>0. BroadcastTypeOK /\ TextsAreSpent
  BY DEF BroadcastInv
<1>1. /\ OnlyRun(b) /\ UNCHANGED tab /\ run'[b].text = run[b].text
      /\ run[b].pc # "idle" /\ run'[b].pc # "idle"
  <2>1. CASE NoNumber(b) \/ AllDone(b) \/ RunFails(b)
    BY <1>0, <2>1, RunEndsFacts, RunTypes DEF RunType
  <2>2. CASE CountTotal(b)
    <3>1. PICK n : n = Least(Cardinality(Matching), MaxTotal)
      OBVIOUS
    <3>2. /\ OnlyRun(b) /\ UNCHANGED tab /\ run[b].pc = "posted"
          /\ run'[b] = [run[b] EXCEPT !.pc = "counted", !.total = n]
      BY <2>2, <3>1, CountTotalFacts
    <3> QED
      BY <1>0, <3>2, RunTypes DEF RunType
  <2>3. CASE ReadPage(b)
    BY <2>3, ReadPageFacts
  <2>4. CASE Enqueue(b) \/ EnqueueFails(b)
    BY <2>4, HandleFacts
  <2>5. CASE PageDone(b)
    BY <2>5, PageDoneFacts
  <2>6. CASE AddUnheard(b)
    BY <2>6, AddUnheardFacts
  <2> QED
    BY <2>1, <2>2, <2>3, <2>4, <2>5, <2>6
<1>2. /\ broadcastPast'.unanswered = broadcastPast.unanswered
      /\ \A d \in Runs \ {b} : run'[d] = run[d]
  BY <1>1 DEF OnlyRun
<1> QED
  BY <1>0, <1>1, <1>2, TextsStay

LEMMA BroadcastInvInit == BroadcastInit => BroadcastInv
<1> SUFFICES ASSUME BroadcastInit PROVE BroadcastInv
  OBVIOUS
<1>1. PICK n \in 0..Cardinality(Recipients), s \in [Recipients -> Leads \cup {"none"}] :
        /\ date \in [Recipients -> 0..n]
        /\ \A i \in 1..n : \E c \in Recipients : date[c] = i /\ \A d \in Recipients \ {c} : date[d] # i
        /\ \A c \in Recipients : s[c] \in IF date[c] = 0 THEN {"none", "new"} ELSE Leads
        /\ status = s
  BY DEF BroadcastInit
<1>2. /\ run = [b \in Runs |-> NoRun]
      /\ jobs = <<>>
      /\ tab = [text |-> Nothing, waits |-> Nothing, shows |-> "nothing"]
      /\ broadcastPast = [moves |-> 0, unanswered |-> {}, skips |-> {},
                          moved |-> [b \in Runs |-> {}], joined |-> [b \in Runs |-> {}],
                          left |-> [b \in Runs |-> {}], listed |-> [b \in Runs |-> {}],
                          tied |-> [b \in Runs |-> FALSE], unheard |-> [b \in Runs |-> 0]]
  BY DEF BroadcastInit
<1>3. Cardinality(Recipients) \in Nat /\ n \in Nat /\ n <= Cardinality(Recipients)
  BY BroadcastAssumption, FS_CardinalityType
<1>4. Now - 1 = Cardinality(Recipients)
  BY <1>2, <1>3 DEF Now
<1>5. date \in [Recipients -> 0..(Now - 1)]
  BY <1>1, <1>3, <1>4
<1>6. \A c, d \in Recipients : date[c] = date[d] => date[c] = 0 \/ c = d
  BY <1>1, <1>3
<1>7. \A c \in Recipients : Exists(c) \/ date[c] = 0
  BY <1>1 DEF Exists, Leads
<1>8. NoRun \in RunType /\ NoRun.offset = 0 /\ Len(NoRun.page) = 0 /\ NoRun.total = 0 /\ NoRun.at = 1
      /\ NoRun.page = <<>> /\ NoRun.pc = "idle" /\ NoRun.queued = 0 /\ NoRun.skipped = 0
      /\ NoRun.text = Nothing
  <2>1. <<>> \in Seq(Recipients) /\ Len(<<>>) = 0 /\ 0 \in 0..MaxTotal
    BY BroadcastAssumption
  <2> QED
    BY <2>1 DEF NoRun, RunType
<1>9. run \in [Runs -> RunType] /\ \A b \in Runs : run[b] = NoRun
  BY <1>2, <1>8
<1>10. broadcastPast \in PastType
  BY <1>2, BroadcastAssumption DEF PastType
<1>11. jobs \in Seq(JobType) /\ \A b \in Runs : JobsOf(b) = {}
  BY <1>2 DEF JobsOf
<1>12. BroadcastTypeOK
  BY <1>1, <1>2, <1>5, <1>6, <1>7, <1>8, <1>9, <1>10, <1>11 DEF BroadcastTypeOK
<1>13. ASSUME NEW b \in Runs PROVE RunHolds(b)
  <2>1. Cardinality({}) = 0
    BY FS_EmptySet
  <2>2. AddsUp(b)
    <3>1. run[b] = NoRun /\ JobsOf(b) = {}
      BY <1>9, <1>11
    <3>2. Index(run[b]) = 0
      BY <1>8, <3>1 DEF Index
    <3> QED
      BY <1>2, <1>8, <2>1, <3>1, <3>2 DEF AddsUp
  <2>3. DuesFollow(b) /\ NoneTwice(b)
    BY <1>11 DEF DuesFollow, NoneTwice
  <2>4. PagesAreFull(b) /\ PlacesKept(b) /\ OneUndated(b)
    BY <1>8, <1>9 DEF PagesAreFull, PlacesKept, OneUndated, Working
  <2>5. NoneForgotten(b) /\ NothingYet(b)
    BY <1>2, <1>8, <1>9 DEF NoneForgotten, NothingYet, Working
  <2> QED
    BY <2>2, <2>3, <2>4, <2>5 DEF RunHolds
<1>14. TextsAreSpent
  BY <1>8, <1>9 DEF TextsAreSpent
<1> QED
  BY <1>12, <1>13, <1>14 DEF BroadcastInv

LEMMA BroadcastInvStep == BroadcastInv /\ [BroadcastNext]_broadcastVars => BroadcastInv'
<1> SUFFICES ASSUME BroadcastInv, [BroadcastNext]_broadcastVars PROVE BroadcastInv'
  OBVIOUS
<1>0. BroadcastTypeOK /\ TextsAreSpent /\ \A b \in Runs : RunHolds(b)
  BY DEF BroadcastInv
<1>1. CASE \E c \in Recipients : NewConversation(c) \/ CustomerWrites(c)
  <2>1. PICK c \in Recipients : NewConversation(c) \/ CustomerWrites(c)
    BY <1>1
  <2>2. BroadcastTypeOK' /\ UNCHANGED <<run, tab>>
        /\ broadcastPast'.unanswered = broadcastPast.unanswered
    BY <2>1, CustomerFacts
  <2>3. \A b \in Runs : RunHolds(b)'
    BY <2>1, CustomerKeeps
  <2>4. TextsAreSpent'
    BY <1>0, <2>2, TextsStay
  <2> QED
    BY <2>2, <2>3, <2>4 DEF BroadcastInv
<1>2. CASE (\E t \in Texts : Write(t)) \/ ShowResult \/ ShowError
  <2>1. BroadcastTypeOK' /\ TextsAreSpent'
    BY <1>2, FormFacts, FormKeepsTexts
  <2>2. ASSUME NEW b \in Runs PROVE RunHolds(b)'
    <3>1. Untouched(b)
      BY <1>2, FormFacts DEF Untouched, JobsOf
    <3> QED
      BY <1>0, <3>1, UntouchedHolds
  <2> QED
    BY <2>1, <2>2 DEF BroadcastInv
<1>3. CASE \E b \in Runs :
               \/ SendBroadcast(b)
               \/ NoNumber(b) \/ CountTotal(b) \/ ReadPage(b)
               \/ Enqueue(b) \/ AddUnheard(b) \/ EnqueueFails(b) \/ PageDone(b) \/ AllDone(b)
               \/ RunFails(b)
  <2>1. PICK b \in Runs :
               \/ SendBroadcast(b)
               \/ NoNumber(b) \/ CountTotal(b) \/ ReadPage(b)
               \/ Enqueue(b) \/ AddUnheard(b) \/ EnqueueFails(b) \/ PageDone(b) \/ AllDone(b)
               \/ RunFails(b)
    BY <1>3
  <2>2. BroadcastTypeOK' /\ OnlyRun(b)
    BY <2>1, SendBroadcastFacts, RunEndsFacts, CountTotalFacts, ReadPageFacts, HandleFacts, AddUnheardFacts,
       PageDoneFacts
  <2>3. RunHolds(b)'
    BY <2>1, SendKeeps, RunEndsKeeps, CountTotalKeeps, ReadPageKeeps, HandleKeeps, AddUnheardKeeps,
       PageDoneKeeps
  <2>4. ASSUME NEW d \in Runs \ {b} PROVE RunHolds(d)'
    <3>1. Untouched(d)
      BY <1>0, <2>2, OthersUntouched
    <3> QED
      BY <1>0, <3>1, UntouchedHolds
  <2>5. TextsAreSpent'
    BY <2>1, SendKeepsTexts, RunKeepsTexts
  <2> QED
    BY <2>2, <2>3, <2>4, <2>5 DEF BroadcastInv
<1>4. CASE UNCHANGED broadcastVars
  <2>1. BroadcastTypeOK' /\ TextsAreSpent'
    BY <1>0, <1>4 DEF broadcastVars, BroadcastTypeOK, TextsAreSpent, Exists, Now
  <2>2. ASSUME NEW b \in Runs PROVE RunHolds(b)'
    <3>1. Untouched(b)
      BY <1>4 DEF broadcastVars, Untouched, JobsOf
    <3> QED
      BY <1>0, <3>1, UntouchedHolds
  <2> QED
    BY <2>1, <2>2 DEF BroadcastInv
<1> QED
  BY <1>1, <1>2, <1>3, <1>4 DEF BroadcastNext

\* The counters, pages and lists of every run follow each other, and the text of the form
\* is one no run has sent, unless its answer is awaited or was lost.
THEOREM BroadcastInvariant == BroadcastSpec => []BroadcastInv
  BY BroadcastInvInit, BroadcastInvStep, PTL DEF BroadcastSpec

\* Every broadcast stays in its total and every page in its list, and dated rows have
\* dates of their own.
THEOREM BroadcastTypeCorrect == BroadcastSpec => []BroadcastTypeOK
<1>1. BroadcastInv => BroadcastTypeOK
  BY DEF BroadcastInv
<1> QED
  BY <1>1, BroadcastInvariant, PTL

LEMMA RunsAreSafe ==
    ASSUME BroadcastInv, NEW b \in Runs
    PROVE  /\ Cardinality(JobsOf(b)) = run[b].queued + broadcastPast.unheard[b]
           /\ run[b].queued + run[b].skipped <= run[b].total
           /\ run[b].pc = "done" /\ broadcastPast.left[b] = {}
              => run[b].queued + run[b].skipped = run[b].total
<1>1. BroadcastTypeOK /\ AddsUp(b) /\ PagesAreFull(b)
  BY DEF BroadcastInv, RunHolds
<1>2. /\ run[b].offset \in Nat /\ Len(run[b].page) \in Nat /\ run[b].total \in Nat
      /\ run[b].at \in 1..(Len(run[b].page) + 1)
      /\ run[b].offset + Len(run[b].page) <= run[b].total
  BY <1>1, RunTypes
<1>3. Index(run[b]) <= run[b].total
  <2>1. \A a, n \in Nat : a \in 1..(n + 1) => a - 1 <= n
    OBVIOUS
  <2>2. run[b].at \in Nat /\ run[b].at - 1 <= Len(run[b].page)
    BY <1>1, <1>2, <2>1, RunTypes
  <2>3. \A o, a, n, t \in Nat : a - 1 <= n /\ o + n <= t => o + a - 1 <= t
    OBVIOUS
  <2>4. run[b].offset + run[b].at - 1 <= run[b].total
    BY <1>2, <2>2, <2>3
  <2> QED
    BY <2>4 DEF Index
<1> QED
  BY <1>1, <1>3 DEF AddsUp, PagesAreFull

LEMMA AgainIsExplained == ASSUME BroadcastInv PROVE AgainOnlyAfterError
<1> SUFFICES ASSUME NEW i \in 1..Len(jobs), NEW k \in 1..Len(jobs),
                    jobs[i].run < jobs[k].run, run[jobs[i].run].text = run[jobs[k].run].text
             PROVE  jobs[i].run \in broadcastPast.unanswered
  BY DEF AgainOnlyAfterError
<1>1. BroadcastTypeOK /\ jobs \in Seq(JobType) /\ TextsAreSpent
  BY DEF BroadcastInv, BroadcastTypeOK
<1>2. PICK a \in Runs, b \in Runs : a = jobs[i].run /\ b = jobs[k].run
  <2>1. jobs[i] \in JobType /\ jobs[k] \in JobType
    BY <1>1
  <2> QED
    BY <2>1 DEF JobType
<1>3. k \in JobsOf(b) /\ AddsUp(b)
  BY <1>2 DEF JobsOf, BroadcastInv, RunHolds
<1>4. run[b].pc # "idle"
  BY <1>1, <1>3, NothingDone
<1> QED
  BY <1>1, <1>2, <1>4 DEF TextsAreSpent

\* Broadcasts are safe: the counts shown add up but for additions that went unheard; who is
\* left out or gets a message twice was moved by somebody's writing, had no date, has two
\* rows or was added twice; messages of a run are due one after the other, and only an
\* unanswered request has its text sent again.
THEOREM BroadcastIsSafe == BroadcastSpec => []BroadcastSafe
<1>1. BroadcastInv => BroadcastSafe
  <2> SUFFICES ASSUME BroadcastInv PROVE BroadcastSafe
    OBVIOUS
  <2>0. BroadcastTypeOK /\ \A b \in Runs : RunHolds(b)
    BY DEF BroadcastInv
  <2>1. CountsAddUp
    BY RunsAreSafe DEF CountsAddUp
  <2>2. LeftOutIsExplained
    <3> SUFFICES ASSUME NEW b \in Runs, NEW c \in broadcastPast.listed[b], HasCounted(b),
                        ~Sent(b, c), c \notin broadcastPast.moved[b],
                        broadcastPast.joined[b] \cup broadcastPast.left[b] = {},
                        ~(Cardinality(broadcastPast.listed[b]) > MaxTotal),
                        ~broadcastPast.tied[b]
                 PROVE  FALSE
      BY DEF LeftOutIsExplained
    <3>1. IsFiniteSet(Recipients) /\ broadcastPast.listed[b] \in SUBSET Recipients /\ MaxTotal \in Nat
      BY <2>0, BroadcastAssumption DEF BroadcastTypeOK, PastType
    <3>2. Cardinality(broadcastPast.listed[b]) \in Nat
      BY <3>1, Fewer
    <3>3. c \in Recipients /\ Expected(b, c)
      BY <3>1, <3>2 DEF Expected
    <3> QED
      BY <2>0, <3>3 DEF RunHolds, NoneForgotten, HasCounted
  <2>3. TwiceIsExplained
    <3> SUFFICES ASSUME NEW b \in Runs, NEW i \in JobsOf(b), NEW k \in JobsOf(b), i < k,
                        jobs[i].conv = jobs[k].conv, Undisturbed(b)
                 PROVE  broadcastPast.unheard[b] > 0 /\ jobs[i].due = jobs[k].due
      BY DEF TwiceIsExplained, Undisturbed
    <3>1. jobs[i].due = jobs[k].due /\ (jobs[i].due < jobs[k].due \/ OneAddition(b, i, k))
      BY <2>0 DEF RunHolds, NoneTwice, DuesFollow
    <3>2. jobs[i].due \in Nat
      BY <2>0, JobsAreFinite DEF BroadcastTypeOK, JobType
    <3> QED
      BY <3>1, <3>2 DEF OneAddition
  <2>4. OneAfterTheOther
    <3> SUFFICES ASSUME NEW i \in 1..Len(jobs), NEW k \in 1..Len(jobs),
                        i < k, jobs[i].run = jobs[k].run
                 PROVE  \/ jobs[i].due < jobs[k].due
                        \/ /\ broadcastPast.unheard[jobs[i].run] > 0
                           /\ jobs[i].due = jobs[k].due /\ jobs[i].conv = jobs[k].conv
      BY DEF OneAfterTheOther
    <3>1. PICK b \in Runs : b = jobs[i].run
      <4>1. jobs \in Seq(JobType)
        BY <2>0 DEF BroadcastTypeOK
      <4>2. jobs[i] \in JobType
        BY <4>1
      <4> QED
        BY <4>2 DEF JobType
    <3>2. i \in JobsOf(b) /\ k \in JobsOf(b)
      BY <3>1 DEF JobsOf
    <3> QED
      BY <2>0, <3>1, <3>2 DEF RunHolds, DuesFollow, AtPlace, OneAddition
  <2>5. AgainOnlyAfterError
    BY AgainIsExplained
  <2> QED
    BY <2>1, <2>2, <2>3, <2>4, <2>5 DEF BroadcastSafe
<1> QED
  BY <1>1, BroadcastInvariant, PTL

=============================================================================
