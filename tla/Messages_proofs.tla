-------------------------- MODULE Messages_proofs --------------------------
(***************************************************************************)
(* Proofs about what surrounds a message, each for all values of the        *)
(* constants: one section per component, which uses nothing of the others.  *)
(* Those about broadcasts are in Broadcast_proofs.                          *)
(***************************************************************************)
EXTENDS MCMessages, Broadcast_proofs

-----------------------------------------------------------------------------
(* Sets and their sizes.                                                    *)

\* A set of naturals has a least element: of the intervals up to its elements one
\* contains no other.
LEMMA LeastExists ==
    ASSUME NEW T \in SUBSET Nat, T # {}
    PROVE  \E x \in T : \A y \in T : x <= y
<1> DEFINE U == {0..i : i \in T}
<1>1. \A i \in Nat : IsFiniteSet(0..i)
  BY FS_Interval
<1>2. U \subseteq FiniteSubsetsOf(Nat)
  BY <1>1 DEF FiniteSubsetsOf
<1>3. U # {}
  OBVIOUS
<1>4. PICK u \in U : \A v \in U : ~(<<v, u>> \in StrictSubsetOrdering(Nat))
  <2>1. IsWellFoundedOn(StrictSubsetOrdering(Nat), FiniteSubsetsOf(Nat))
    BY FS_StrictSubsetOrderingWellFounded
  <2> HIDE DEF U
  <2> QED
    BY <2>1, <1>2, <1>3, WFMin
<1>5. PICK x \in T : u = 0..x
  OBVIOUS
<1>6. ASSUME NEW y \in T, y < x PROVE FALSE
  <2>1. 0..y \in U
    OBVIOUS
  <2>2. 0..y \subseteq 0..x /\ 0..y # 0..x /\ 0..x \subseteq Nat
    BY <1>6
  <2>3. <<0..y, 0..x>> \in StrictSubsetOrdering(Nat)
    BY <2>2 DEF StrictSubsetOrdering
  <2> QED
    BY <2>1, <2>3, <1>4, <1>5
<1> QED
  BY <1>6

-----------------------------------------------------------------------------
(* The semantic memory: any saves, sizes and times.                         *)

\* Saves whose row was created, or that ended without one.
Stored == {s \in Saves : save[s].pc \in {"list", "delete", "done"}}
Cleaning == {s \in Saves : save[s].pc \in {"list", "delete"}}
Deleting == {s \in Saves : save[s].pc = "delete"}

\* Rows were created, and what a cleanup will delete was.
RowsWereCreated ==
    /\ mem \subseteq memoryPast.created
    /\ memoryPast.created \subseteq Stored
    /\ \A s \in Saves : save[s].ids \subseteq Stored
    /\ \A s \in Saves : save[s].pc # "delete" => save[s].ids = {}

\* A list names no row among the newest that were created, however old it is.
ListsAreOld ==
    \A s \in Saves : save[s].ids \cap memoryPast.created \subseteq Beyond(KeepLast, memoryPast.created)

\* Timestamps follow the clock, and what had ended when s began has an older one.
TimesFollow ==
    \A s \in Saves :
        /\ save[s].at <= clock
        /\ memoryPast.before[s] \subseteq Ended \ {s}
        /\ save[s].pc = "idle" => memoryPast.before[s] = {}
        /\ save[s].pc = "create" \/ s \in mem =>
               \A t \in memoryPast.before[s] \cap mem : save[t].at <= save[s].at

\* What was said when the memory was cleared, and did not wait, is gone for good.
GoneForGood ==
    \A s \in memoryPast.said :
        /\ save[s].pc # "idle"
        /\ s \notin memoryPast.waiting => s \notin mem /\ s \in Stored

\* Whichever of the cleanups that have their list delete it, at most KeepLast rows are
\* left, and one for each other cleanup that is under way or was skipped.
Listed(D) == UNION {save[s].ids : s \in D}
CleanupsSuffice ==
    \A D \in SUBSET Deleting :
        Cardinality(mem \ Listed(D)) <= KeepLast + memoryPast.skipped + Cardinality(Cleaning \ D)

MemoryInv ==
    /\ MemoryTypeOK
    /\ RowsWereCreated
    /\ ListsAreOld
    /\ NewestKept
    /\ TimesFollow
    /\ GoneForGood
    /\ CleanupsSuffice

\* Rows with different timestamps: at most n of them have fewer than n newer ones, for
\* all but the oldest of these are newer than it.
LEMMA NewestAreFew ==
    ASSUME MemoryTypeOK, NEW rows \in SUBSET Saves, NEW n \in Nat,
           \A s, t \in rows : s # t => save[s].at # save[t].at
    PROVE  Cardinality(Newest(n, rows)) <= n
<1> DEFINE N == Newest(n, rows)
           T == {save[s].at : s \in N}
<1> USE MemoryAssumption
<1>1. N \subseteq rows /\ N \subseteq Saves
  BY DEF Newest
<1>2. \A s \in Saves : save[s].at \in Nat
  BY DEF MemoryTypeOK, SaveType
<1>3. CASE N = {}
  BY <1>3, FS_EmptySet
<1>4. CASE N # {}
  <2>1. T \in SUBSET Nat /\ T # {}
    BY <1>1, <1>2, <1>4
  <2>2. PICK x \in T : \A y \in T : x <= y
    <3> HIDE DEF T
    <3> QED
      BY <2>1, LeastExists
  <2>3. PICK u \in N : x = save[u].at
    OBVIOUS
  <2>4. \A s \in N \ {u} : save[s].at > save[u].at
    BY <1>1, <1>2, <2>2, <2>3
  <2>5. N \ {u} \subseteq Newer(u) \cap rows
    BY <1>1, <2>4 DEF Newer
  <2>6. Cardinality(Newer(u) \cap rows) < n
    BY <2>3 DEF Newest
  <2>7. IsFiniteSet(N) /\ IsFiniteSet(Newer(u) \cap rows)
    BY <1>1, Fewer
  <2>8. Cardinality(N \ {u}) = Cardinality(N) - 1 /\ Cardinality(N) \in Nat
    BY <2>7, FS_RemoveElement, FS_CardinalityType
  <2>9. Cardinality(N \ {u}) <= Cardinality(Newer(u) \cap rows)
        /\ Cardinality(Newer(u) \cap rows) \in Nat
    BY <2>5, <2>7, Fewer
  <2> QED
    BY <2>6, <2>8, <2>9
<1> QED
  BY <1>3, <1>4

\* A row that is not among the newest has n of the newest before it: the newest row before
\* it that is not among them would have n newer ones, all of them among the newest.
LEMMA NewestCover ==
    ASSUME MemoryTypeOK, NEW rows \in SUBSET Saves, NEW n \in Nat, NEW t \in Beyond(n, rows)
    PROVE  Cardinality(Newer(t) \cap Newest(n, rows)) >= n
<1> DEFINE A == Newer(t) \cap rows
           L == A \ Newest(n, rows)
           T == {MaxTime - save[s].at : s \in L}
<1> USE MemoryAssumption
<1>1. t \in rows /\ rows \subseteq Saves /\ A \subseteq Saves
  BY DEF Beyond
<1>2. \A s \in Saves : save[s].at \in 0..MaxTime
  BY DEF MemoryTypeOK, SaveType
<1>3. \A s \in Beyond(n, rows) : Cardinality(Newer(s) \cap rows) >= n
  <2> SUFFICES ASSUME NEW s \in Beyond(n, rows) PROVE Cardinality(Newer(s) \cap rows) >= n
    OBVIOUS
  <2>1. Cardinality(Newer(s) \cap rows) \in Nat
    BY Fewer
  <2> QED
    BY <2>1 DEF Beyond, Newest
<1>4. CASE L = {}
  <2>1. Newer(t) \cap Newest(n, rows) = A
    BY <1>4 DEF Newest
  <2> QED
    BY <2>1, <1>3
<1>5. CASE L # {}
  <2>1. T \in SUBSET Nat /\ T # {}
    BY <1>1, <1>2, <1>5
  <2>2. PICK x \in T : \A y \in T : x <= y
    <3> HIDE DEF T
    <3> QED
      BY <2>1, LeastExists
  <2>3. PICK u \in L : x = MaxTime - save[u].at
    OBVIOUS
  <2>4. \A s \in L : save[s].at <= save[u].at
    BY <1>1, <1>2, <2>2, <2>3
  <2>5. Newer(u) \cap rows \subseteq A
    BY <1>1, <1>2 DEF Newer
  <2>6. \A s \in Newer(u) : s \notin L
    BY <1>1, <1>2, <2>4 DEF Newer
  <2>7. Newer(u) \cap rows \subseteq Newer(t) \cap Newest(n, rows)
    BY <2>5, <2>6
  <2>8. Cardinality(Newer(u) \cap rows) >= n
    BY <1>3 DEF Beyond
  <2>9. /\ Cardinality(Newer(u) \cap rows) <= Cardinality(Newer(t) \cap Newest(n, rows))
        /\ Cardinality(Newer(u) \cap rows) \in Nat
        /\ Cardinality(Newer(t) \cap Newest(n, rows)) \in Nat
    <3>1. IsFiniteSet(Newer(t) \cap Newest(n, rows))
      BY Fewer DEF Newer
    <3> QED
      BY <2>7, <3>1, Fewer
  <2> QED
    BY <2>8, <2>9
<1> QED
  BY <1>4, <1>5

\* What is not among the newest of some rows is not among the newest of more rows.
LEMMA BeyondGrows ==
    ASSUME NEW rows \in SUBSET Saves, NEW more \in SUBSET Saves, rows \subseteq more, NEW n \in Nat
    PROVE  Beyond(n, rows) \subseteq Beyond(n, more)
<1> USE MemoryAssumption
<1> SUFFICES ASSUME NEW s \in Beyond(n, rows) PROVE s \in Beyond(n, more)
  OBVIOUS
<1>1. IsFiniteSet(Newer(s) \cap more)
  BY Fewer
<1>2. Cardinality(Newer(s) \cap rows) <= Cardinality(Newer(s) \cap more)
      /\ Cardinality(Newer(s) \cap rows) \in Nat /\ Cardinality(Newer(s) \cap more) \in Nat
  BY <1>1, Fewer
<1> QED
  BY <1>2 DEF Beyond, Newest

LEMMA MemoryInitially == MemoryInit => MemoryInv
<1> SUFFICES ASSUME MemoryInit PROVE MemoryInv
  OBVIOUS
<1> USE MemoryAssumption
<1>1. \A s \in Saves : save[s] = NoSave
  BY DEF MemoryInit
<1>2. NoSave \in SaveType
  BY DEF NoSave, SaveType
<1>3. MemoryTypeOK
  <2>1. save \in [Saves -> SaveType]
    BY <1>2 DEF MemoryInit
  <2>2. context \in ContextType
    BY DEF MemoryInit, ContextType
  <2>3. memoryPast \in [created : SUBSET Saves, said : SUBSET Saves, waiting : SUBSET Saves,
                        before : [Saves -> SUBSET Saves], skipped : Nat,
                        crashes : 0..MaxMemoryCrashes]
    BY DEF MemoryInit
  <2> QED
    BY <2>1, <2>2, <2>3 DEF MemoryInit, MemoryTypeOK
<1>4. RowsWereCreated /\ ListsAreOld /\ GoneForGood
  BY <1>1 DEF MemoryInit, RowsWereCreated, ListsAreOld, GoneForGood, Beyond, NoSave
<1>5. NewestKept
  BY DEF MemoryInit, NewestKept, Newest
<1>6. TimesFollow
  BY <1>1 DEF MemoryInit, TimesFollow, NoSave
<1>7. CleanupsSuffice
  <2> SUFFICES ASSUME NEW D \in SUBSET Deleting
               PROVE  Cardinality(mem \ Listed(D))
                          <= KeepLast + memoryPast.skipped + Cardinality(Cleaning \ D)
    BY DEF CleanupsSuffice
  <2>1. mem \ Listed(D) = {} /\ memoryPast.skipped = 0
    BY DEF MemoryInit
  <2>2. Cardinality(Cleaning \ D) \in Nat
    BY Fewer DEF Cleaning
  <2> QED
    BY <2>1, <2>2, FS_EmptySet
<1> QED
  BY <1>3, <1>4, <1>5, <1>6, <1>7 DEF MemoryInv

\* What a save becomes: it moves on, gets its embedding and its timestamp, lists or ends.
LEMMA SaveMoves ==
    ASSUME NEW r \in SaveType, NEW p \in {"embed", "list", "delete", "done"}
    PROVE  LET c == [r EXCEPT !.pc = p] IN
           c \in SaveType /\ c.at = r.at /\ c.pc = p /\ c.ids = r.ids
  BY DEF SaveType

LEMMA SaveEmbeds ==
    ASSUME NEW r \in SaveType, NEW e \in BOOLEAN, NEW n \in 0..MaxTime
    PROVE  LET c == [r EXCEPT !.pc = "create", !.embedded = e, !.at = n] IN
           c \in SaveType /\ c.at = n /\ c.pc = "create" /\ c.ids = r.ids
  BY DEF SaveType

LEMMA SaveCleans ==
    ASSUME NEW r \in SaveType, NEW p \in {"embed", "list", "delete", "done"}, NEW i \in SUBSET Saves
    PROVE  LET c == [r EXCEPT !.pc = p, !.ids = i] IN
           c \in SaveType /\ c.at = r.at /\ c.pc = p /\ c.ids = i
  BY DEF SaveType

LEMMA SaveGone == Gone \in SaveType /\ Gone.pc = "done" /\ Gone.at = 0 /\ Gone.ids = {}
<1>1. 0 \in 0..MaxTime
  BY MemoryAssumption
<1>2. NoSave \in SaveType /\ NoSave.at = 0 /\ NoSave.ids = {}
  BY <1>1 DEF NoSave, SaveType
<1> HIDE DEF NoSave
<1> QED
  BY <1>2, SaveMoves DEF Gone

\* Creating a row keeps the timestamps of a conversation different.
LEMMA MemoryTypesKept ==
    ASSUME MemoryInv, [MemoryNext]_memoryVars
    PROVE  MemoryTypeOK'
<1> USE MemoryAssumption
<1> DEFINE Past == [created : SUBSET Saves, said : SUBSET Saves, waiting : SUBSET Saves,
                    before : [Saves -> SUBSET Saves], skipped : Nat,
                    crashes : 0..MaxMemoryCrashes]
<1>0. /\ mem \in SUBSET Saves /\ save \in [Saves -> SaveType] /\ memoryPast \in Past
      /\ extractor \in {"none", "loading", "ready", "failed"}
      /\ context \in ContextType /\ clock \in 0..MaxTime
      /\ \A s, t \in mem : s # t => save[s].at # save[t].at
      /\ \A s \in mem : save[s].pc \in {"list", "delete", "done"}
  BY DEF MemoryInv, MemoryTypeOK
<1>s. \A s \in Saves : save[s] \in SaveType
  BY <1>0
<1>1. ASSUME NEW s \in Saves, SaveMessage(s) PROVE MemoryTypeOK'
  <2>1. [save[s] EXCEPT !.pc = "embed"] \in SaveType
    BY <1>s, SaveMoves
  <2>2. memoryPast' \in Past
    <3>1. Ended \in SUBSET Saves
      BY DEF Ended
    <3>2. memoryPast' = [memoryPast EXCEPT !.before = [memoryPast.before EXCEPT ![s] = Ended]]
      BY <1>1 DEF SaveMessage
    <3>3. [memoryPast.before EXCEPT ![s] = Ended] \in [Saves -> SUBSET Saves]
      BY <1>0, <3>1
    <3> QED
      BY <1>0, <3>2, <3>3
  <2>3. save' = [save EXCEPT ![s] = [save[s] EXCEPT !.pc = "embed"]]
    BY <1>1 DEF SaveMessage
  <2>4. \A t \in mem : t # s /\ save'[t] = save[t]
    BY <1>0, <1>1, <2>3 DEF SaveMessage
  <2>5. save' \in [Saves -> SaveType]
    BY <1>0, <2>1, <2>3
  <2>6. extractor' \in {"none", "loading", "ready", "failed"} /\ UNCHANGED <<mem, context, clock>>
    BY <1>0, <1>1 DEF SaveMessage, GetOrCreateExtractor
  <2> QED
    BY <1>0, <2>2, <2>4, <2>5, <2>6 DEF MemoryTypeOK
<1>2. ASSUME NEW s \in Saves, Embed(s) PROVE MemoryTypeOK'
  <2>1. PICK e \in BOOLEAN :
            save' = [save EXCEPT ![s] = [save[s] EXCEPT !.pc = "create", !.embedded = e, !.at = clock]]
    BY <1>2 DEF Embed, EmbedAnswers
  <2>2. [save[s] EXCEPT !.pc = "create", !.embedded = e, !.at = clock] \in SaveType
    <3>1. PICK n \in 0..MaxTime : n = clock
      BY <1>0
    <3> QED
      BY <1>s, <3>1, SaveEmbeds
  <2>3. \A t \in mem : t # s /\ save'[t] = save[t]
    BY <1>0, <1>2, <2>1 DEF Embed
  <2>4. save' \in [Saves -> SaveType]
    BY <1>0, <2>1, <2>2
  <2>5. UNCHANGED <<mem, extractor, context, clock, memoryPast>>
    BY <1>2 DEF Embed
  <2> QED
    BY <1>0, <2>3, <2>4, <2>5 DEF MemoryTypeOK
<1>3. ASSUME NEW s \in Saves, Create(s) PROVE MemoryTypeOK'
  <2>1. CASE mem' = mem \cup {s}
    <3>1. CASE s \in mem
      BY <1>0, <1>3, <3>1 DEF Create
    <3>2. CASE s \notin mem
      <4>1. /\ \A t \in mem : save[t].at # save[s].at
            /\ save' = [save EXCEPT ![s] = [save[s] EXCEPT !.pc = "list"]]
            /\ memoryPast' = [memoryPast EXCEPT !.created = @ \cup {s}]
        BY <1>3, <2>1, <3>2 DEF Create
      <4>2. /\ [save[s] EXCEPT !.pc = "list"] \in SaveType
            /\ [save[s] EXCEPT !.pc = "list"].at = save[s].at
            /\ [save[s] EXCEPT !.pc = "list"].pc = "list"
        BY <1>s, SaveMoves
      <4>3. save' \in [Saves -> SaveType]
        BY <1>0, <4>1, <4>2
      <4>4. memoryPast' \in Past
        BY <1>0, <4>1
      <4>5. /\ \A t \in Saves : save'[t].at = save[t].at
            /\ \A t \in mem : save'[t] = save[t]
            /\ save'[s].pc = "list"
        BY <1>0, <3>2, <4>1, <4>2
      <4>6. \A t, u \in mem' : t # u => save'[t].at # save'[u].at
        BY <1>0, <2>1, <4>1, <4>5
      <4> QED
        BY <1>0, <1>3, <2>1, <4>3, <4>4, <4>5, <4>6 DEF Create, MemoryTypeOK
    <3> QED
      BY <3>1, <3>2
  <2>2. CASE save' = [save EXCEPT ![s] = Gone] /\ UNCHANGED <<mem, memoryPast>>
    <3>1. Gone \in SaveType
      BY SaveGone
    <3>2. \A t \in mem : t # s /\ save'[t] = save[t]
      BY <1>0, <1>3, <2>2 DEF Create
    <3> QED
      BY <1>0, <1>3, <2>2, <3>1, <3>2 DEF Create, MemoryTypeOK
  <2> QED
    BY <1>3, <2>1, <2>2 DEF Create
<1>4. ASSUME NEW s \in Saves, ListOld(s) \/ DeleteOld(s) \/ CleanupFails(s) PROVE MemoryTypeOK'
  <2>1. PICK p \in {"done", "delete"}, i \in SUBSET Saves :
            save' = [save EXCEPT ![s] = [save[s] EXCEPT !.pc = p, !.ids = i]]
    <3>1. Beyond(KeepLast, mem) \in SUBSET Saves
      BY <1>0 DEF Beyond
    <3>2. CASE ListOld(s)
      <4>1. CASE Beyond(KeepLast, mem) = {}
        BY <3>1, <3>2, <4>1 DEF ListOld
      <4>2. CASE Beyond(KeepLast, mem) # {}
        BY <3>1, <3>2, <4>2 DEF ListOld
      <4> QED
        BY <4>1, <4>2
    <3>3. CASE DeleteOld(s) \/ CleanupFails(s)
      <4>1. save' = [save EXCEPT ![s] = [save[s] EXCEPT !.pc = "done", !.ids = {}]]
        BY <3>3 DEF DeleteOld, CleanupFails
      <4> QED
        BY <4>1
    <3> QED
      BY <1>4, <3>2, <3>3
  <2>2. [save[s] EXCEPT !.pc = p, !.ids = i] \in SaveType
        /\ [save[s] EXCEPT !.pc = p, !.ids = i].at = save[s].at
        /\ [save[s] EXCEPT !.pc = p, !.ids = i].pc = p
    <3>1. PICK r \in SaveType : r = save[s]
      BY <1>s
    <3>2. [r EXCEPT !.pc = p, !.ids = i] \in SaveType
          /\ [r EXCEPT !.pc = p, !.ids = i].at = r.at /\ [r EXCEPT !.pc = p, !.ids = i].pc = p
      BY DEF SaveType
    <3> QED
      BY <3>1, <3>2
  <2>3. save' \in [Saves -> SaveType] /\ \A t \in Saves : save'[t].at = save[t].at
    BY <1>0, <2>1, <2>2
  <2>4. \A t \in mem : save'[t].pc \in {"list", "delete", "done"}
    BY <1>0, <2>1, <2>2
  <2>5. mem' \subseteq mem /\ UNCHANGED <<extractor, context, clock>>
    BY <1>4 DEF ListOld, DeleteOld, CleanupFails
  <2>6. memoryPast' \in Past
    BY <1>0, <1>4 DEF ListOld, DeleteOld, CleanupFails
  <2> QED
    BY <1>0, <2>3, <2>4, <2>5, <2>6 DEF MemoryTypeOK
<1>5. ASSUME GetRelevantContext PROVE MemoryTypeOK'
  <2>1. \A n \in Nat : Newest(n, mem) \in SUBSET Saves
    BY <1>0 DEF Newest
  <2>2. PICK rows \in SUBSET Saves, e \in BOOLEAN : context' = [rows |-> rows, ranked |-> e]
    <3>1. CASE context' = [rows |-> Newest(TopK, mem), ranked |-> FALSE]
      <4>1. Newest(TopK, mem) \in SUBSET Saves
        BY <2>1
      <4> QED
        BY <3>1, <4>1
    <3>2. CASE \E rows \in SUBSET Newest(Window, mem) : context' = [rows |-> rows, ranked |-> TRUE]
      BY <2>1, <3>2
    <3> QED
      BY <1>5, <3>1, <3>2 DEF GetRelevantContext
  <2>3. context' \in ContextType
    BY <2>2 DEF ContextType
  <2> QED
    BY <1>0, <1>5, <2>3 DEF GetRelevantContext, MemoryTypeOK
<1>6. ASSUME Cleared PROVE MemoryTypeOK'
  <2>1. InFlight \cup Ended \in SUBSET Saves
        /\ {s \in Saves : save[s].pc \in {"embed", "create"}} \in SUBSET Saves
    BY DEF InFlight, Ended
  <2>2. memoryPast' \in Past
    BY <1>0, <1>6, <2>1 DEF Cleared
  <2> QED
    BY <1>0, <1>6, <2>2 DEF Cleared, MemoryTypeOK
<1>7. ASSUME MemoryCrash PROVE MemoryTypeOK'
  <2>1. \A s \in Saves :
            /\ save[s].pc \in {"embed", "create"} => save'[s] = Gone
            /\ save[s].pc \in {"list", "delete"} =>
                   save'[s] = [save[s] EXCEPT !.pc = "done", !.ids = {}]
            /\ save[s].pc \notin {"embed", "create", "list", "delete"} => save'[s] = save[s]
    BY <1>7 DEF MemoryCrash
  <2>2. Gone \in SaveType
    BY SaveGone
  <2>3. \A s \in Saves : /\ [save[s] EXCEPT !.pc = "done", !.ids = {}] \in SaveType
                          /\ [save[s] EXCEPT !.pc = "done", !.ids = {}].pc = "done"
                          /\ [save[s] EXCEPT !.pc = "done", !.ids = {}].at = save[s].at
    <3> SUFFICES ASSUME NEW s \in Saves
                 PROVE  /\ [save[s] EXCEPT !.pc = "done", !.ids = {}] \in SaveType
                        /\ [save[s] EXCEPT !.pc = "done", !.ids = {}].pc = "done"
                        /\ [save[s] EXCEPT !.pc = "done", !.ids = {}].at = save[s].at
      OBVIOUS
    <3> QED
      BY <1>s, SaveCleans
  <2>4. save' \in [Saves -> SaveType]
    <3>1. \A s \in Saves : save'[s] \in SaveType
      BY <1>s, <2>1, <2>2, <2>3
    <3>2. save' = [s \in Saves |-> save'[s]]
      BY <1>7 DEF MemoryCrash
    <3> QED
      BY <3>1, <3>2
  <2>5. \A s \in mem : save'[s].at = save[s].at /\ save'[s].pc = "done"
    <3> SUFFICES ASSUME NEW s \in mem PROVE save'[s].at = save[s].at /\ save'[s].pc = "done"
      OBVIOUS
    <3>1. s \in Saves /\ save[s].pc \in {"list", "delete", "done"}
      BY <1>0
    <3> QED
      BY <2>1, <2>3, <3>1
  <2>6. memoryPast' \in Past
    <3>1. Cardinality({s \in Saves : save[s].pc \in {"list", "delete"}}) \in Nat
      BY Fewer
    <3>2. PICK n \in Nat : n = Cardinality({s \in Saves : save[s].pc \in {"list", "delete"}})
      BY <3>1
    <3>3. memoryPast' = [memoryPast EXCEPT !.crashes = memoryPast.crashes + 1,
                                           !.skipped = memoryPast.skipped + n]
      BY <1>7, <3>2 DEF MemoryCrash
    <3>4. memoryPast.crashes + 1 \in 0..MaxMemoryCrashes
      <4>1. memoryPast.crashes \in 0..MaxMemoryCrashes
        BY <1>0
      <4>2. memoryPast.crashes < MaxMemoryCrashes
        BY <1>7 DEF MemoryCrash
      <4> QED
        BY <4>1, <4>2
    <3>5. memoryPast.skipped + n \in Nat
      BY <1>0
    <3> QED
      BY <1>0, <3>3, <3>4, <3>5
  <2>7. extractor' = "none" /\ UNCHANGED <<mem, context, clock>>
    BY <1>7 DEF MemoryCrash
  <2> QED
    BY <1>0, <2>4, <2>5, <2>6, <2>7 DEF MemoryTypeOK
<1>8. ASSUME ExtractorSettles \/ AskForContext \/ MemoryTick \/ UNCHANGED memoryVars
      PROVE  MemoryTypeOK'
  BY <1>0, <1>8 DEF ExtractorSettles, AskForContext, MemoryTick, memoryVars, GetOrCreateExtractor,
                    MemoryTypeOK
<1> QED
  BY <1>1, <1>2, <1>3, <1>4, <1>5, <1>6, <1>7, <1>8
  DEF MemoryNext, ClearConversationMemory, DeleteTenantMemory

\* What each step changes, field by field.
Others(s) == \A t \in Saves \ {s} : save'[t] = save[t]
PastOfRows == <<memoryPast.created, memoryPast.said, memoryPast.waiting>>

LEMMA SaveMessageFacts ==
    ASSUME MemoryInv, NEW s \in Saves, SaveMessage(s)
    PROVE  /\ Others(s) /\ save[s].pc = "idle"
           /\ save'[s].pc = "embed" /\ save'[s].at = save[s].at /\ save'[s].ids = save[s].ids
           /\ \A t \in Saves \ {s} : memoryPast'.before[t] = memoryPast.before[t]
           /\ memoryPast'.before[s] = Ended
           /\ UNCHANGED <<mem, clock, PastOfRows, memoryPast.skipped>>
<1>1. save \in [Saves -> SaveType] /\ save[s] \in SaveType
  BY DEF MemoryInv, MemoryTypeOK
<1>2. PICK r \in SaveType : r = save[s]
  BY <1>1
<1>3. save' = [save EXCEPT ![s] = [r EXCEPT !.pc = "embed"]] /\ save[s].pc = "idle"
  BY <1>2 DEF SaveMessage
<1>4. [r EXCEPT !.pc = "embed"].pc = "embed" /\ [r EXCEPT !.pc = "embed"].at = r.at
      /\ [r EXCEPT !.pc = "embed"].ids = r.ids
  BY DEF SaveType
<1>5. memoryPast' = [memoryPast EXCEPT !.before = [memoryPast.before EXCEPT ![s] = Ended]]
      /\ UNCHANGED <<mem, clock>>
  BY DEF SaveMessage
<1>6. /\ memoryPast'.before = [memoryPast.before EXCEPT ![s] = Ended]
      /\ memoryPast.before \in [Saves -> SUBSET Saves]
      /\ UNCHANGED <<memoryPast.created, memoryPast.said, memoryPast.waiting, memoryPast.skipped>>
  BY <1>5 DEF MemoryInv, MemoryTypeOK
<1> QED
  BY <1>1, <1>2, <1>3, <1>4, <1>5, <1>6 DEF Others, PastOfRows

LEMMA EmbedFacts ==
    ASSUME MemoryInv, NEW s \in Saves, Embed(s)
    PROVE  /\ Others(s) /\ save[s].pc = "embed"
           /\ save'[s].pc = "create" /\ save'[s].at = clock /\ save'[s].ids = save[s].ids
           /\ UNCHANGED <<mem, clock, memoryPast>>
<1>1. save \in [Saves -> SaveType] /\ save[s] \in SaveType /\ clock \in 0..MaxTime
  BY DEF MemoryInv, MemoryTypeOK
<1>2. PICK r \in SaveType : r = save[s]
  BY <1>1
<1>3. PICK e \in BOOLEAN :
          save' = [save EXCEPT ![s] = [r EXCEPT !.pc = "create", !.embedded = e, !.at = clock]]
  BY <1>2 DEF Embed, EmbedAnswers
<1>4. LET c == [r EXCEPT !.pc = "create", !.embedded = e, !.at = clock] IN
      c.pc = "create" /\ c.at = clock /\ c.ids = r.ids
  BY DEF SaveType
<1>5. save[s].pc = "embed" /\ UNCHANGED <<mem, clock, memoryPast>>
  BY DEF Embed
<1> QED
  BY <1>1, <1>2, <1>3, <1>4, <1>5 DEF Others

LEMMA CreateFacts ==
    ASSUME MemoryInv, NEW s \in Saves, Create(s)
    PROVE  /\ Others(s) /\ save[s].pc = "create" /\ s \notin mem
           /\ UNCHANGED <<clock, memoryPast.said, memoryPast.waiting, memoryPast.before,
                          memoryPast.skipped>>
           /\ save'[s].ids = {}
           /\ \/ /\ \A t \in mem : save[t].at # save[s].at
                 /\ mem' = mem \cup {s} /\ memoryPast'.created = memoryPast.created \cup {s}
                 /\ save'[s].pc = "list" /\ save'[s].at = save[s].at
              \/ UNCHANGED <<mem, memoryPast>> /\ save'[s].pc = "done"
<1>1. /\ save \in [Saves -> SaveType] /\ save[s] \in SaveType /\ save[s].pc = "create"
      /\ s \notin mem /\ save[s].ids = {}
  BY DEF MemoryInv, MemoryTypeOK, RowsWereCreated, Create
<1>2. PICK r \in SaveType : r = save[s]
  BY <1>1
<1>3. CASE /\ \A t \in mem : save[t].at # save[s].at
           /\ mem' = mem \cup {s}
           /\ save' = [save EXCEPT ![s].pc = "list"]
           /\ memoryPast' = [memoryPast EXCEPT !.created = @ \cup {s}]
  <2>1. save' = [save EXCEPT ![s] = [r EXCEPT !.pc = "list"]]
    BY <1>2, <1>3
  <2>2. [r EXCEPT !.pc = "list"].pc = "list" /\ [r EXCEPT !.pc = "list"].at = r.at
        /\ [r EXCEPT !.pc = "list"].ids = r.ids
    BY DEF SaveType
  <2>3. /\ memoryPast'.created = memoryPast.created \cup {s}
        /\ UNCHANGED <<memoryPast.said, memoryPast.waiting, memoryPast.before, memoryPast.skipped>>
    BY <1>3 DEF MemoryInv, MemoryTypeOK
  <2> QED
    BY <1>1, <1>2, <1>3, <2>1, <2>2, <2>3 DEF Others, Create
<1>4. CASE save' = [save EXCEPT ![s] = Gone] /\ UNCHANGED <<mem, memoryPast>>
  BY <1>1, <1>4, SaveGone DEF Others, Create
<1> QED
  BY <1>3, <1>4 DEF Create

LEMMA CleanupFacts ==
    ASSUME MemoryInv, NEW s \in Saves, ListOld(s) \/ DeleteOld(s) \/ CleanupFails(s)
    PROVE  /\ Others(s) /\ s \in Cleaning /\ save'[s].at = save[s].at
           /\ UNCHANGED <<clock, PastOfRows, memoryPast.before>>
           /\ \/ /\ ListOld(s) /\ save[s].pc = "list"
                 /\ save'[s].ids = Beyond(KeepLast, mem)
                 /\ save'[s].pc = IF Beyond(KeepLast, mem) = {} THEN "done" ELSE "delete"
                 /\ UNCHANGED <<mem, memoryPast.skipped>>
              \/ /\ DeleteOld(s) /\ save[s].pc = "delete"
                 /\ save'[s].ids = {} /\ save'[s].pc = "done"
                 /\ mem' = mem \ save[s].ids
                 /\ UNCHANGED memoryPast.skipped
              \/ /\ CleanupFails(s)
                 /\ save'[s].ids = {} /\ save'[s].pc = "done"
                 /\ UNCHANGED mem /\ memoryPast'.skipped = memoryPast.skipped + 1
<1>1. save \in [Saves -> SaveType] /\ save[s] \in SaveType
  BY DEF MemoryInv, MemoryTypeOK
<1>2. PICK r \in SaveType : r = save[s]
  BY <1>1
<1>3. \A p \in {"done", "delete"}, i \in SUBSET Saves :
          LET c == [r EXCEPT !.pc = p, !.ids = i] IN c.pc = p /\ c.ids = i /\ c.at = r.at
  BY DEF SaveType
<1>4. Beyond(KeepLast, mem) \in SUBSET Saves
  BY DEF MemoryInv, MemoryTypeOK, Beyond
<1>5. CASE ListOld(s)
  <2>1. PICK p \in {"done", "delete"} : p = IF Beyond(KeepLast, mem) = {} THEN "done" ELSE "delete"
    OBVIOUS
  <2>2. save' = [save EXCEPT ![s] = [r EXCEPT !.pc = p, !.ids = Beyond(KeepLast, mem)]]
    BY <1>2, <1>5, <2>1 DEF ListOld
  <2>3. save[s].pc = "list" /\ UNCHANGED <<mem, clock, memoryPast>>
    BY <1>5 DEF ListOld
  <2> QED
    BY <1>1, <1>2, <1>3, <1>4, <1>5, <2>1, <2>2, <2>3 DEF Others, PastOfRows, Cleaning
<1>6. CASE DeleteOld(s)
  <2>1. save' = [save EXCEPT ![s] = [r EXCEPT !.pc = "done", !.ids = {}]]
    BY <1>2, <1>6 DEF DeleteOld
  <2>2. save[s].pc = "delete" /\ mem' = mem \ save[s].ids /\ UNCHANGED <<clock, memoryPast>>
    BY <1>6 DEF DeleteOld
  <2> QED
    BY <1>1, <1>2, <1>3, <1>6, <2>1, <2>2 DEF Others, PastOfRows, Cleaning
<1>7. CASE CleanupFails(s)
  <2>1. save' = [save EXCEPT ![s] = [r EXCEPT !.pc = "done", !.ids = {}]]
    BY <1>2, <1>7 DEF CleanupFails
  <2>2. save[s].pc \in {"list", "delete"} /\ UNCHANGED <<mem, clock>>
    BY <1>7 DEF CleanupFails
  <2>3. /\ memoryPast'.skipped = memoryPast.skipped + 1
        /\ UNCHANGED <<memoryPast.created, memoryPast.said, memoryPast.waiting, memoryPast.before>>
    BY <1>7 DEF CleanupFails, MemoryInv, MemoryTypeOK
  <2> QED
    BY <1>1, <1>2, <1>3, <1>7, <2>1, <2>2, <2>3 DEF Others, PastOfRows, Cleaning
<1> QED
  BY <1>5, <1>6, <1>7

LEMMA CrashFacts ==
    ASSUME MemoryInv, MemoryCrash
    PROVE  /\ \A s \in Saves : save[s].pc = "idle" => save'[s] = save[s]
           /\ \A s \in Saves : save[s].pc # "idle" => save'[s].pc = "done" /\ save'[s].ids = {}
           /\ \A s \in Stored : save'[s].at = save[s].at
           /\ \A s \in Saves : save'[s].at <= clock
           /\ memoryPast'.skipped = memoryPast.skipped + Cardinality(Cleaning)
           /\ UNCHANGED <<mem, clock, PastOfRows, memoryPast.before>>
<1>1. save \in [Saves -> SaveType] /\ clock \in Nat
  BY MemoryAssumption DEF MemoryInv, MemoryTypeOK
<1>2. \A s \in Saves :
          /\ save[s].pc \in {"embed", "create"} => save'[s] = Gone
          /\ save[s].pc \in {"list", "delete"} =>
                 save'[s] = [save[s] EXCEPT !.pc = "done", !.ids = {}]
          /\ save[s].pc \in {"idle", "done"} => save'[s] = save[s]
  BY DEF MemoryCrash
<1>3. \A s \in Saves :
          LET c == [save[s] EXCEPT !.pc = "done", !.ids = {}] IN
          c.pc = "done" /\ c.ids = {} /\ c.at = save[s].at
  <2> SUFFICES ASSUME NEW s \in Saves
               PROVE  LET c == [save[s] EXCEPT !.pc = "done", !.ids = {}] IN
                      c.pc = "done" /\ c.ids = {} /\ c.at = save[s].at
    OBVIOUS
  <2>1. save[s] \in SaveType
    BY <1>1
  <2> QED
    BY <2>1, SaveCleans
<1>4. \A s \in Saves : save[s].pc \in {"idle", "embed", "create", "list", "delete", "done"}
  BY <1>1 DEF SaveType
<1>5. /\ \A s \in Saves : save[s].at <= clock
      /\ \A s \in Saves : save[s].pc # "delete" => save[s].ids = {}
  BY DEF MemoryInv, TimesFollow, RowsWereCreated
<1>6. memoryPast' = [memoryPast EXCEPT !.crashes = memoryPast.crashes + 1,
                                       !.skipped = memoryPast.skipped + Cardinality(Cleaning)]
      /\ UNCHANGED <<mem, clock>>
  BY DEF MemoryCrash, Cleaning
<1>7. /\ memoryPast'.skipped = memoryPast.skipped + Cardinality(Cleaning)
      /\ UNCHANGED <<memoryPast.created, memoryPast.said, memoryPast.waiting, memoryPast.before>>
  BY <1>6 DEF MemoryInv, MemoryTypeOK
<1>8. \A s \in Stored : save'[s].at = save[s].at
  BY <1>2, <1>3 DEF Stored
<1>9. \A s \in Saves : save'[s].at <= clock
  <2> SUFFICES ASSUME NEW s \in Saves PROVE save'[s].at <= clock
    OBVIOUS
  <2>1. CASE save[s].pc \in {"embed", "create"}
    <3>1. save'[s] = Gone
      BY <1>2, <2>1
    <3> QED
      BY <1>1, <3>1, SaveGone
  <2>2. CASE save[s].pc \in {"list", "delete"}
    <3>1. save'[s].at = save[s].at
      BY <1>8, <2>2 DEF Stored
    <3> QED
      BY <1>5, <3>1
  <2>3. CASE save[s].pc \in {"idle", "done"}
    BY <1>2, <1>5, <2>3
  <2> QED
    BY <1>4, <2>1, <2>2, <2>3
<1>10. \A s \in Saves : save[s].pc # "idle" => save'[s].pc = "done" /\ save'[s].ids = {}
  BY <1>2, <1>3, <1>4, <1>5, SaveGone
<1> QED
  BY <1>2, <1>6, <1>7, <1>8, <1>9, <1>10 DEF PastOfRows

\* What was created keeps its place, whatever is created after it.
LEMMA RowsKeepTheirPlace ==
    ASSUME NEW old \in SUBSET Saves, NEW new \in SUBSET Saves, old \subseteq new,
           \A s \in new : save'[s].at = save[s].at
    PROVE  /\ Beyond(KeepLast, old) \subseteq Beyond(KeepLast, new)'
           /\ Newest(KeepLast, new)' \cap old \subseteq Newest(KeepLast, old)
<1>1. \A s \in new : Newer(s)' \cap new = Newer(s) \cap new
  BY DEF Newer
<1>2. Newest(KeepLast, new)' = Newest(KeepLast, new)
  BY <1>1 DEF Newest
<1>3. Beyond(KeepLast, new)' = Beyond(KeepLast, new)
  BY <1>2 DEF Beyond
<1>4. Beyond(KeepLast, old) \subseteq Beyond(KeepLast, new)
  BY BeyondGrows, MemoryAssumption
<1> QED
  BY <1>2, <1>3, <1>4 DEF Beyond, Newest

\* No row becomes one of the newest again, so no cleanup deletes one of these.
LEMMA RowsKept ==
    ASSUME MemoryInv, MemoryTypeOK', RowsWereCreated',
           memoryPast.created \subseteq memoryPast'.created,
           \A s \in memoryPast'.created : save'[s].at = save[s].at,
           mem \ mem' \subseteq Beyond(KeepLast, memoryPast.created),
           memoryPast'.created \ memoryPast.created \subseteq mem',
           \A s \in Saves : \/ save'[s].ids \cap memoryPast'.created = {}
                            \/ save'[s].ids \subseteq save[s].ids /\ save[s].ids \subseteq Stored
                                   /\ save'[s].ids \cap memoryPast'.created
                                          \subseteq memoryPast.created
                            \/ save'[s].ids \subseteq Beyond(KeepLast, mem)
    PROVE  ListsAreOld' /\ NewestKept'
<1> USE MemoryAssumption
<1>0. /\ memoryPast.created \in SUBSET Saves /\ memoryPast'.created \in SUBSET Saves
      /\ mem \in SUBSET Saves /\ mem \subseteq memoryPast.created
  BY DEF MemoryInv, MemoryTypeOK, RowsWereCreated
<1>1. PICK old \in SUBSET Saves, new \in SUBSET Saves, m \in SUBSET Saves :
          old = memoryPast.created /\ new = memoryPast'.created /\ m = mem
  BY <1>0
<1>2. /\ Beyond(KeepLast, old) \subseteq Beyond(KeepLast, new)'
      /\ Newest(KeepLast, new)' \cap old \subseteq Newest(KeepLast, old)
  BY <1>1, RowsKeepTheirPlace
<1>3. Beyond(KeepLast, m) \subseteq Beyond(KeepLast, old)
  BY <1>0, <1>1, BeyondGrows
<1>4. Beyond(KeepLast, new)' = Beyond(KeepLast, memoryPast.created)'
      /\ Newest(KeepLast, new)' = Newest(KeepLast, memoryPast.created)'
  BY <1>1 DEF Beyond, Newest, Newer
<1>5. Newest(KeepLast, old) \subseteq mem /\ \A s \in Saves : save[s].ids \cap old \subseteq Beyond(KeepLast, old)
  BY <1>1 DEF MemoryInv, NewestKept, ListsAreOld
<1>6. ASSUME NEW s \in Saves PROVE save'[s].ids \cap new \subseteq Beyond(KeepLast, new)'
  <2>1. CASE save'[s].ids \cap memoryPast'.created = {}
    BY <1>1, <2>1
  <2>2. CASE save'[s].ids \subseteq save[s].ids
             /\ save'[s].ids \cap memoryPast'.created \subseteq memoryPast.created
    BY <1>1, <1>2, <1>5, <2>2
  <2>3. CASE save'[s].ids \subseteq Beyond(KeepLast, mem)
    BY <1>1, <1>2, <1>3, <2>3
  <2> QED
    BY <2>1, <2>2, <2>3
<1>7. ListsAreOld'
  BY <1>1, <1>4, <1>6 DEF ListsAreOld
<1>8. Newest(KeepLast, new)' \subseteq mem'
  <2> SUFFICES ASSUME NEW u \in Newest(KeepLast, new)' PROVE u \in mem'
    OBVIOUS
  <2>1. u \in new
    BY DEF Newest
  <2>2. CASE u \in old
    BY <1>1, <1>2, <1>5, <2>2 DEF Beyond
  <2> QED
    BY <1>1, <2>1, <2>2
<1>9. NewestKept'
  BY <1>4, <1>8 DEF NewestKept
<1> QED
  BY <1>7, <1>9

LEMMA SaveMessageKeepsInv == ASSUME MemoryInv, MemoryTypeOK', NEW s \in Saves, SaveMessage(s) PROVE MemoryInv'
<1>1. /\ Others(s) /\ save[s].pc = "idle"
      /\ save'[s].pc = "embed" /\ save'[s].at = save[s].at /\ save'[s].ids = save[s].ids
      /\ \A t \in Saves \ {s} : memoryPast'.before[t] = memoryPast.before[t]
      /\ memoryPast'.before[s] = Ended
      /\ UNCHANGED <<mem, clock, memoryPast.created, memoryPast.said, memoryPast.waiting,
                     memoryPast.skipped>>
  BY SaveMessageFacts DEF PastOfRows
<1>2. mem \in SUBSET Saves /\ memoryPast.said \in SUBSET Saves /\ s \notin Stored /\ s \notin mem
  BY <1>1 DEF MemoryInv, MemoryTypeOK, Stored
<1>3. Stored' = Stored /\ Cleaning' = Cleaning /\ Deleting' = Deleting /\ Ended' = Ended
  BY <1>1 DEF Others, Stored, Cleaning, Deleting, Ended
<1>4. \A t \in Saves : save'[t].ids = save[t].ids /\ save'[t].at = save[t].at
                       /\ (save'[t].pc = "delete" <=> save[t].pc = "delete")
  BY <1>1 DEF Others
<1>5. RowsWereCreated'
  BY <1>1, <1>3, <1>4 DEF MemoryInv, RowsWereCreated
<1>6. ListsAreOld' /\ NewestKept'
  <2>1. \A t \in Saves : save[t].ids \subseteq Stored
    BY DEF MemoryInv, RowsWereCreated
  <2>2. memoryPast'.created \subseteq Saves
    BY <1>1 DEF MemoryInv, MemoryTypeOK
  <2> QED
    BY <1>1, <1>4, <1>5, <2>1, <2>2, RowsKept
<1>7. TimesFollow'
  <2>1. Ended \subseteq Saves \ {s}
    BY <1>1 DEF Ended
  <2> QED
    BY <1>1, <1>2, <1>3, <1>4, <2>1 DEF MemoryInv, TimesFollow, Others
<1>8. GoneForGood'
  BY <1>1, <1>2, <1>3 DEF MemoryInv, GoneForGood, Others
<1>9. CleanupsSuffice'
  <2>1. \A D \in SUBSET Deleting : Listed(D)' = Listed(D)
    BY <1>4 DEF Listed, Deleting
  <2> QED
    BY <1>1, <1>3, <2>1 DEF MemoryInv, CleanupsSuffice
<1> QED
  BY <1>5, <1>6, <1>7, <1>8, <1>9 DEF MemoryInv

LEMMA EmbedKeepsInv == ASSUME MemoryInv, MemoryTypeOK', NEW s \in Saves, Embed(s) PROVE MemoryInv'
<1>1. /\ Others(s) /\ save[s].pc = "embed"
      /\ save'[s].pc = "create" /\ save'[s].at = clock /\ save'[s].ids = save[s].ids
      /\ UNCHANGED <<mem, clock, memoryPast>>
  BY EmbedFacts
<1>2. /\ mem \in SUBSET Saves /\ memoryPast.said \in SUBSET Saves /\ memoryPast.created \subseteq Stored
      /\ s \notin Stored /\ s \notin mem /\ clock \in Nat
  BY <1>1, MemoryAssumption DEF MemoryInv, MemoryTypeOK, RowsWereCreated, Stored
<1>3. Stored' = Stored /\ Cleaning' = Cleaning /\ Deleting' = Deleting /\ Ended' = Ended
  BY <1>1 DEF Others, Stored, Cleaning, Deleting, Ended
<1>4. \A t \in Saves : save'[t].ids = save[t].ids
                       /\ (save'[t].pc = "delete" <=> save[t].pc = "delete")
  BY <1>1 DEF Others
<1>5. RowsWereCreated'
  BY <1>1, <1>3, <1>4 DEF MemoryInv, RowsWereCreated
<1>6. ListsAreOld' /\ NewestKept'
  <2>1. \A t \in Saves : save[t].ids \subseteq Stored
    BY DEF MemoryInv, RowsWereCreated
  <2>2. \A t \in memoryPast'.created : save'[t].at = save[t].at
    BY <1>1, <1>2 DEF Stored, Others
  <2> QED
    BY <1>1, <1>4, <1>5, <2>1, <2>2, RowsKept
<1>7. TimesFollow'
  <2>1. \A t \in Saves : save[t].at <= clock
    BY DEF MemoryInv, TimesFollow
  <2>2. \A t \in Saves : memoryPast.before[t] \subseteq Ended \ {t}
                         /\ (save[t].pc = "idle" => memoryPast.before[t] = {})
    BY DEF MemoryInv, TimesFollow
  <2>3. \A t \in Saves : save'[t].at <= clock
    BY <1>1, <1>2, <2>1 DEF Others
  <2>4. ASSUME NEW t \in Saves, save'[t].pc = "create" \/ t \in mem
        PROVE  \A u \in memoryPast.before[t] \cap mem : save'[u].at <= save'[t].at
    <3>1. CASE t = s
      BY <1>1, <1>2, <2>1, <3>1 DEF Others
    <3>2. CASE t # s
      BY <1>1, <1>2, <2>4, <3>2 DEF Others, MemoryInv, TimesFollow
    <3> QED
      BY <3>1, <3>2
  <2>5. \A t \in Saves : save'[t].pc = "idle" => save[t].pc = "idle"
    BY <1>1 DEF Others
  <2> QED
    BY <1>1, <1>3, <2>2, <2>3, <2>4, <2>5 DEF TimesFollow
<1>8. GoneForGood'
  BY <1>1, <1>2, <1>3 DEF MemoryInv, GoneForGood, Others
<1>9. CleanupsSuffice'
  <2>1. \A D \in SUBSET Deleting : Listed(D)' = Listed(D)
    BY <1>4 DEF Listed, Deleting
  <2> QED
    BY <1>1, <1>3, <2>1 DEF MemoryInv, CleanupsSuffice
<1> QED
  BY <1>5, <1>6, <1>7, <1>8, <1>9 DEF MemoryInv

LEMMA CreateKeepsInv == ASSUME MemoryInv, MemoryTypeOK', NEW s \in Saves, Create(s) PROVE MemoryInv'
<1> USE MemoryAssumption
<1>1. /\ Others(s) /\ save[s].pc = "create" /\ s \notin mem
      /\ UNCHANGED <<clock, memoryPast.said, memoryPast.waiting, memoryPast.before,
                     memoryPast.skipped>>
      /\ save'[s].ids = {}
      /\ \/ /\ \A t \in mem : save[t].at # save[s].at
            /\ mem' = mem \cup {s} /\ memoryPast'.created = memoryPast.created \cup {s}
            /\ save'[s].pc = "list" /\ save'[s].at = save[s].at
         \/ UNCHANGED <<mem, memoryPast>> /\ save'[s].pc = "done"
  BY CreateFacts
<1>2. /\ mem \in SUBSET Saves /\ memoryPast.said \in SUBSET Saves
      /\ mem \subseteq memoryPast.created /\ memoryPast.created \subseteq Stored
      /\ s \notin Stored /\ clock \in Nat
      /\ \A t \in Saves : save[t].ids \subseteq Stored
      /\ \A t \in Saves : save[t].pc # "delete" => save[t].ids = {}
  BY <1>1 DEF MemoryInv, MemoryTypeOK, RowsWereCreated, Stored
<1>3. Stored' = Stored \cup {s} /\ Deleting' = Deleting /\ Ended \subseteq Ended'
  BY <1>1 DEF Others, Stored, Deleting, Ended
<1>4. /\ \A t \in Saves : save'[t].ids = save[t].ids /\ (save'[t].pc = "delete" <=> save[t].pc = "delete")
      /\ \A t \in Saves : save'[t].pc \in {"idle", "create"} => t # s /\ save[t].pc = save'[t].pc
  BY <1>1, <1>2 DEF Others
<1>5. RowsWereCreated'
  BY <1>1, <1>2, <1>3, <1>4 DEF RowsWereCreated
<1>6. ListsAreOld' /\ NewestKept'
  <2>1. \A t \in memoryPast'.created : save'[t].at = save[t].at
    BY <1>1, <1>2 DEF Stored, Others
  <2>2. \A t \in Saves : save'[t].ids \cap memoryPast'.created \subseteq memoryPast.created
    BY <1>1, <1>2, <1>4
  <2> QED
    BY <1>1, <1>2, <1>4, <1>5, <2>1, <2>2, RowsKept
<1>7. TimesFollow'
  <2>1. \A t \in Saves : save[t].at <= clock /\ save[t].at \in Nat
    BY DEF MemoryInv, TimesFollow, MemoryTypeOK, SaveType
  <2>2. \A t \in Saves : memoryPast.before[t] \subseteq Ended \ {t}
                         /\ (save[t].pc = "idle" => memoryPast.before[t] = {})
    BY DEF MemoryInv, TimesFollow
  <2>3. \A t \in Saves : save'[t].at <= clock
    <3>1. CASE UNCHANGED <<mem, memoryPast>> /\ save'[s].pc = "done"
      <4>1. save'[s].at = 0 \/ save'[s].at = save[s].at
        BY SaveGone, <1>1, <3>1 DEF Create, MemoryInv, MemoryTypeOK
      <4> QED
        BY <1>1, <1>2, <2>1, <4>1 DEF Others
    <3>2. CASE save'[s].at = save[s].at
      BY <1>1, <2>1, <3>2 DEF Others
    <3> QED
      BY <1>1, <3>1, <3>2
  <2>4. ASSUME NEW t \in Saves, save'[t].pc = "create" \/ t \in mem',
               NEW u \in memoryPast.before[t] \cap mem'
        PROVE  save'[u].at <= save'[t].at
    <3>1. u # s /\ u \in mem /\ u \in Saves
      BY <1>1, <1>2, <2>2, <2>4 DEF Ended
    <3>2. save[t].pc = "create" \/ t \in mem
      BY <1>1, <1>4, <2>4
    <3>3. save[u].at <= save[t].at
      BY <3>1, <3>2 DEF MemoryInv, TimesFollow
    <3>4. t # s \/ save'[s].at = save[s].at
      BY <1>1, <1>4, <2>4
    <3> QED
      BY <1>1, <3>1, <3>3, <3>4 DEF Others
  <2> QED
    BY <1>1, <1>3, <1>4, <2>2, <2>3, <2>4 DEF TimesFollow
<1>8. GoneForGood'
  BY <1>1, <1>2, <1>3 DEF MemoryInv, GoneForGood, Others
<1>9. CleanupsSuffice'
  <2> SUFFICES ASSUME NEW D \in SUBSET Deleting
               PROVE  Cardinality(mem' \ Listed(D)')
                          <= KeepLast + memoryPast.skipped + Cardinality(Cleaning' \ D)
    BY <1>1, <1>3 DEF CleanupsSuffice
  <2>1. Listed(D)' = Listed(D)
    BY <1>4 DEF Listed, Deleting
  <2>2. Cardinality(mem \ Listed(D)) <= KeepLast + memoryPast.skipped + Cardinality(Cleaning \ D)
    BY DEF MemoryInv, CleanupsSuffice
  <2>3. IsFiniteSet(mem \ Listed(D)) /\ IsFiniteSet(Cleaning \ D)
    BY <1>2, Fewer DEF Cleaning
  <2>4. memoryPast.skipped \in Nat
    BY DEF MemoryInv, MemoryTypeOK
  <2>5. CASE mem' = mem \cup {s} /\ save'[s].pc = "list"
    <3>1. s \notin Listed(D)
      BY <1>2 DEF Listed, Deleting
    <3>2. mem' \ Listed(D) = (mem \ Listed(D)) \cup {s}
      BY <2>5, <3>1
    <3>3. Cleaning' \ D = (Cleaning \ D) \cup {s} /\ s \notin Cleaning \ D
      BY <1>1, <2>5 DEF Cleaning, Deleting, Others
    <3>4. Cardinality((mem \ Listed(D)) \cup {s}) <= Cardinality(mem \ Listed(D)) + 1
          /\ Cardinality(mem \ Listed(D)) \in Nat /\ Cardinality((mem \ Listed(D)) \cup {s}) \in Nat
      BY <2>3, OneMore
    <3>5. Cardinality((Cleaning \ D) \cup {s}) = Cardinality(Cleaning \ D) + 1
          /\ Cardinality(Cleaning \ D) \in Nat
      BY <2>3, <3>3, OneMore
    <3>6. Cardinality(mem' \ Listed(D)') = Cardinality((mem \ Listed(D)) \cup {s})
      BY <2>1, <3>2
    <3>7. Cardinality(Cleaning' \ D) = Cardinality(Cleaning \ D) + 1
      BY <3>3, <3>5
    <3> QED
      BY <2>2, <2>4, <3>4, <3>5, <3>6, <3>7
  <2>6. CASE UNCHANGED <<mem, memoryPast>> /\ save'[s].pc = "done"
    <3>1. Cleaning' = Cleaning
      BY <1>1, <2>6 DEF Cleaning, Others
    <3> QED
      BY <2>1, <2>2, <2>6, <3>1
  <2> QED
    BY <1>1, <2>5, <2>6
<1> QED
  BY <1>5, <1>6, <1>7, <1>8, <1>9 DEF MemoryInv

\* Between a list and its deletion: nothing is listed that is among the newest, and with
\* different timestamps a list leaves KeepLast rows.
LEMMA CleanupKeepsInv ==
    ASSUME MemoryInv, MemoryTypeOK', NEW s \in Saves, ListOld(s) \/ DeleteOld(s) \/ CleanupFails(s)
    PROVE  MemoryInv'
<1> USE MemoryAssumption
<1> DEFINE Lists == /\ save[s].pc = "list" /\ save'[s].ids = Beyond(KeepLast, mem)
                    /\ save'[s].pc = IF Beyond(KeepLast, mem) = {} THEN "done" ELSE "delete"
                    /\ UNCHANGED <<mem, memoryPast.skipped>>
           Deletes == /\ save[s].pc = "delete" /\ save'[s].ids = {} /\ save'[s].pc = "done"
                      /\ mem' = mem \ save[s].ids /\ UNCHANGED memoryPast.skipped
           Fails == /\ save'[s].ids = {} /\ save'[s].pc = "done"
                    /\ UNCHANGED mem /\ memoryPast'.skipped = memoryPast.skipped + 1
<1>1. /\ Others(s) /\ s \in Cleaning /\ save'[s].at = save[s].at
      /\ UNCHANGED <<clock, memoryPast.created, memoryPast.said, memoryPast.waiting,
                     memoryPast.before>>
      /\ Lists \/ Deletes \/ Fails
  BY CleanupFacts DEF PastOfRows
<1>2. /\ mem \in SUBSET Saves /\ memoryPast.said \in SUBSET Saves
      /\ mem \subseteq memoryPast.created /\ memoryPast.created \subseteq Stored
      /\ memoryPast.created \in SUBSET Saves
      /\ \A t \in Saves : save[t].ids \subseteq Stored
      /\ \A t \in Saves : save[t].pc # "delete" => save[t].ids = {}
      /\ memoryPast.skipped \in Nat
  BY DEF MemoryInv, MemoryTypeOK, RowsWereCreated
<1>3. /\ Stored' = Stored /\ Ended \subseteq Ended' /\ mem' \subseteq mem
      /\ s \in Stored /\ save'[s].pc \in {"done", "delete"}
      /\ \A t \in Saves : save'[t].at = save[t].at
  BY <1>1 DEF Others, Stored, Cleaning, Ended
<1>4. Beyond(KeepLast, mem) \subseteq mem
  BY DEF Beyond
<1>5. RowsWereCreated'
  <2>1. save'[s].ids \subseteq Stored
    BY <1>1, <1>2, <1>4
  <2>2. save'[s].pc # "delete" => save'[s].ids = {}
    BY <1>1
  <2> QED
    BY <1>1, <1>2, <1>3, <2>1, <2>2 DEF RowsWereCreated, Others
<1>6. ListsAreOld' /\ NewestKept'
  <2>1. mem \ mem' \subseteq Beyond(KeepLast, memoryPast.created)
    BY <1>1, <1>2 DEF MemoryInv, ListsAreOld
  <2>2. \A t \in Saves : \/ save'[t].ids \subseteq save[t].ids
                         \/ save'[t].ids \subseteq Beyond(KeepLast, mem)
    BY <1>1 DEF Others
  <2>3. /\ memoryPast.created \subseteq memoryPast'.created
        /\ memoryPast'.created \ memoryPast.created \subseteq mem'
        /\ \A t \in memoryPast'.created : save'[t].at = save[t].at
    BY <1>1, <1>2, <1>3
  <2>4. \A t \in Saves : \/ /\ save'[t].ids \subseteq save[t].ids /\ save[t].ids \subseteq Stored
                            /\ save'[t].ids \cap memoryPast'.created \subseteq memoryPast.created
                         \/ save'[t].ids \subseteq Beyond(KeepLast, mem)
    BY <1>1, <1>2, <2>2
  <2> QED
    BY <1>5, <2>1, <2>3, <2>4, RowsKept
<1>7. TimesFollow'
  <2>1. \A t \in Saves :
            /\ save[t].at <= clock
            /\ memoryPast.before[t] \subseteq Ended \ {t}
            /\ save[t].pc = "idle" => memoryPast.before[t] = {}
    BY DEF MemoryInv, TimesFollow
  <2>2. ASSUME NEW t \in Saves, save'[t].pc = "create" \/ t \in mem',
               NEW u \in memoryPast.before[t] \cap mem'
        PROVE  save'[u].at <= save'[t].at
    <3>1. u \in Saves /\ u \in memoryPast.before[t] \cap mem
      BY <1>2, <1>3
    <3>2. save[t].pc = "create" \/ t \in mem
      BY <1>1, <1>3, <2>2 DEF Others
    <3>3. save[u].at <= save[t].at
      BY <3>1, <3>2 DEF MemoryInv, TimesFollow
    <3> QED
      BY <1>3, <3>1, <3>3
  <2>3. \A t \in Saves : save'[t].pc = "idle" => save[t].pc = "idle"
    BY <1>1, <1>3 DEF Others
  <2> QED
    BY <1>1, <1>3, <2>1, <2>2, <2>3 DEF TimesFollow
<1>8. GoneForGood'
  BY <1>1, <1>2, <1>3 DEF MemoryInv, GoneForGood, Others
<1>9. CleanupsSuffice'
  <2> SUFFICES ASSUME NEW D \in SUBSET Deleting'
               PROVE  Cardinality(mem' \ Listed(D)')
                          <= KeepLast + memoryPast'.skipped + Cardinality(Cleaning' \ D)
    BY DEF CleanupsSuffice
  <2>0. D \in SUBSET Saves /\ IsFiniteSet(Cleaning' \ D) /\ Cardinality(Cleaning' \ D) \in Nat
    BY Fewer DEF Cleaning, Deleting
  <2>1. CASE Lists /\ s \notin D /\ Beyond(KeepLast, mem) # {}
    <3>1. D \in SUBSET Deleting /\ Cleaning' = Cleaning /\ mem' = mem
      BY <1>1, <2>1 DEF Deleting, Cleaning, Others
    <3>2. Listed(D)' = Listed(D)
      BY <1>1, <2>0, <2>1 DEF Listed, Others
    <3> QED
      BY <1>1, <2>1, <3>1, <3>2 DEF MemoryInv, CleanupsSuffice
  <2>2. CASE Lists /\ (s \in D \/ Beyond(KeepLast, mem) = {})
    <3>1. mem' \ Listed(D)' \subseteq Newest(KeepLast, mem)
      BY <1>1, <2>0, <2>2 DEF Listed, Beyond
    <3>2. Cardinality(Newest(KeepLast, mem)) <= KeepLast
      <4>1. PICK m \in SUBSET Saves : m = mem
        BY <1>2
      <4>2. \A t, u \in m : t # u => save[t].at # save[u].at
        BY <4>1 DEF MemoryInv, MemoryTypeOK
      <4>3. Cardinality(Newest(KeepLast, m)) <= KeepLast
        BY <4>2, NewestAreFew DEF MemoryInv
      <4> QED
        BY <4>1, <4>3
    <3>3. IsFiniteSet(Newest(KeepLast, mem))
      BY <1>2, Fewer DEF Newest
    <3>4. /\ Cardinality(mem' \ Listed(D)') <= Cardinality(Newest(KeepLast, mem))
          /\ Cardinality(mem' \ Listed(D)') \in Nat /\ Cardinality(Newest(KeepLast, mem)) \in Nat
      BY <3>1, <3>3, Fewer
    <3> QED
      BY <1>2, <2>0, <2>2, <3>2, <3>4
  <2>3. CASE Deletes
    <3>1. s \notin D /\ D \cup {s} \in SUBSET Deleting
      BY <1>1, <2>3 DEF Deleting, Others
    <3>2. mem' \ Listed(D)' = mem \ Listed(D \cup {s})
      BY <1>1, <2>0, <2>3, <3>1 DEF Listed, Others
    <3>3. Cleaning' \ D = Cleaning \ (D \cup {s})
      BY <1>1, <2>3 DEF Cleaning, Others
    <3> QED
      BY <2>3, <3>1, <3>2, <3>3 DEF MemoryInv, CleanupsSuffice
  <2>4. CASE Fails
    <3>1. s \notin D /\ D \in SUBSET Deleting
      BY <1>1, <2>4 DEF Deleting, Others
    <3>2. Listed(D)' = Listed(D)
      BY <1>1, <2>0, <3>1 DEF Listed, Others
    <3>3. Cleaning \ D = (Cleaning' \ D) \cup {s} /\ s \notin Cleaning' \ D
      BY <1>1, <2>4, <3>1 DEF Cleaning, Others
    <3>4. Cardinality((Cleaning' \ D) \cup {s}) = Cardinality(Cleaning' \ D) + 1
      BY <2>0, <3>3, OneMore
    <3>5. Cardinality(mem \ Listed(D)) <= KeepLast + memoryPast.skipped + Cardinality(Cleaning \ D)
      BY <3>1 DEF MemoryInv, CleanupsSuffice
    <3>6. Cardinality(mem' \ Listed(D)') = Cardinality(mem \ Listed(D))
      BY <2>4, <3>2
    <3>7. Cardinality(Cleaning \ D) = Cardinality(Cleaning' \ D) + 1
      BY <3>3, <3>4
    <3>8. memoryPast'.skipped = memoryPast.skipped + 1
      BY <2>4
    <3>9. IsFiniteSet(mem \ Listed(D)) /\ Cardinality(mem \ Listed(D)) \in Nat
      BY <1>2, Fewer
    <3> QED
      BY <1>2, <2>0, <3>5, <3>6, <3>7, <3>8, <3>9
  <2> QED
    BY <1>1, <2>1, <2>2, <2>3, <2>4
<1> QED
  BY <1>5, <1>6, <1>7, <1>8, <1>9 DEF MemoryInv

LEMMA ClearedKeepsInv == ASSUME MemoryInv, MemoryTypeOK', Cleared PROVE MemoryInv'
<1> USE MemoryAssumption
<1> DEFINE W == {s \in Saves : save[s].pc \in {"embed", "create"}}
<1>1. /\ mem' = {} /\ UNCHANGED <<save, clock>>
      /\ memoryPast' = [memoryPast EXCEPT !.created = {}, !.said = InFlight \cup Ended, !.waiting = W]
  BY DEF Cleared
<1>2. /\ memoryPast'.created = {} /\ memoryPast'.said = InFlight \cup Ended
      /\ memoryPast'.waiting = W
      /\ UNCHANGED <<memoryPast.before, memoryPast.skipped>>
  BY <1>1 DEF MemoryInv, MemoryTypeOK
<1>3. Stored' = Stored /\ Cleaning' = Cleaning /\ Deleting' = Deleting /\ Ended' = Ended
  BY <1>1 DEF Stored, Cleaning, Deleting, Ended
<1>4. RowsWereCreated'
  BY <1>1, <1>2, <1>3 DEF MemoryInv, RowsWereCreated
<1>5. ListsAreOld' /\ NewestKept'
  BY <1>1, <1>2 DEF ListsAreOld, NewestKept, Newest
<1>6. TimesFollow'
  BY <1>1, <1>2, <1>3 DEF MemoryInv, TimesFollow
<1>7. GoneForGood'
  <2>1. \A s \in Saves : save[s].pc \in {"idle", "embed", "create", "list", "delete", "done"}
    BY DEF MemoryInv, MemoryTypeOK, SaveType
  <2>2. \A s \in InFlight \cup Ended : save[s].pc # "idle" /\ (s \notin W => s \in Stored)
    BY <2>1 DEF InFlight, Ended, Stored
  <2> QED
    BY <1>1, <1>2, <1>3, <2>2 DEF GoneForGood
<1>8. CleanupsSuffice'
  <2> SUFFICES ASSUME NEW D \in SUBSET Deleting
               PROVE  Cardinality(mem' \ Listed(D)')
                          <= KeepLast + memoryPast.skipped + Cardinality(Cleaning \ D)
    BY <1>2, <1>3 DEF CleanupsSuffice
  <2>1. mem' \ Listed(D)' = {}
    BY <1>1
  <2>2. Cardinality(Cleaning \ D) \in Nat /\ memoryPast.skipped \in Nat
    BY Fewer DEF Cleaning, MemoryInv, MemoryTypeOK
  <2> QED
    BY <2>1, <2>2, FS_EmptySet
<1> QED
  BY <1>4, <1>5, <1>6, <1>7, <1>8 DEF MemoryInv

LEMMA CrashKeepsMemory == ASSUME MemoryInv, MemoryTypeOK', MemoryCrash PROVE MemoryInv'
<1> USE MemoryAssumption
<1>1. /\ \A s \in Saves : save[s].pc = "idle" => save'[s] = save[s]
      /\ \A s \in Saves : save[s].pc # "idle" => save'[s].pc = "done" /\ save'[s].ids = {}
      /\ \A s \in Stored : save'[s].at = save[s].at
      /\ \A s \in Saves : save'[s].at <= clock
      /\ memoryPast'.skipped = memoryPast.skipped + Cardinality(Cleaning)
      /\ UNCHANGED <<mem, clock, memoryPast.created, memoryPast.said, memoryPast.waiting,
                     memoryPast.before>>
  BY CrashFacts DEF PastOfRows
<1>2. /\ mem \in SUBSET Saves /\ memoryPast.said \in SUBSET Saves
      /\ mem \subseteq memoryPast.created /\ memoryPast.created \subseteq Stored
      /\ \A t \in Saves : save[t].pc # "delete" => save[t].ids = {}
      /\ memoryPast.skipped \in Nat
  BY DEF MemoryInv, MemoryTypeOK, RowsWereCreated
<1>3. /\ Stored \subseteq Stored' /\ Ended \subseteq Ended' /\ Cleaning' = {} /\ Deleting' = {}
      /\ \A t \in Saves : save'[t].ids = {} /\ (save'[t].pc = "idle" <=> save[t].pc = "idle")
                          /\ save'[t].pc # "create"
  BY <1>1, <1>2 DEF Stored, Ended, Cleaning, Deleting
<1>4. RowsWereCreated'
  BY <1>1, <1>2, <1>3 DEF RowsWereCreated
<1>5. ListsAreOld' /\ NewestKept'
  BY <1>1, <1>2, <1>3, <1>4, RowsKept
<1>6. TimesFollow'
  <2>1. \A t \in Saves :
            /\ memoryPast.before[t] \subseteq Ended \ {t}
            /\ save[t].pc = "idle" => memoryPast.before[t] = {}
    BY DEF MemoryInv, TimesFollow
  <2>2. \A t \in mem : \A u \in memoryPast.before[t] \cap mem : save[u].at <= save[t].at
    BY <1>2 DEF MemoryInv, TimesFollow
  <2>3. \A t \in mem : save'[t].at = save[t].at
    BY <1>1, <1>2
  <2>4. \A t \in Saves : save'[t].pc = "create" \/ t \in mem =>
            \A u \in memoryPast.before[t] \cap mem : save'[u].at <= save'[t].at
    BY <1>3, <2>2, <2>3
  <2> QED
    BY <1>1, <1>3, <2>1, <2>4 DEF TimesFollow
<1>7. GoneForGood'
  BY <1>1, <1>2, <1>3 DEF MemoryInv, GoneForGood
<1>8. CleanupsSuffice'
  <2>1. Cardinality(mem \ Listed({})) <= KeepLast + memoryPast.skipped + Cardinality(Cleaning \ {})
    BY DEF MemoryInv, CleanupsSuffice
  <2>2. mem \ Listed({}) = mem /\ mem' \ Listed({})' = mem /\ Cleaning \ {} = Cleaning
        /\ Cleaning' \ {} = {}
    BY <1>1, <1>3 DEF Listed
  <2>3. Cardinality({}) = 0
    BY FS_EmptySet
  <2>4. Cardinality(mem' \ Listed({})')
            <= KeepLast + memoryPast'.skipped + Cardinality(Cleaning' \ {})
    <3>1. Cardinality(mem) <= KeepLast + memoryPast.skipped + Cardinality(Cleaning)
      BY <2>1, <2>2
    <3>2. KeepLast + memoryPast'.skipped + 0 = KeepLast + memoryPast.skipped + Cardinality(Cleaning)
      <4>1. Cardinality(Cleaning) \in Nat
        BY Fewer DEF Cleaning
      <4> QED
        BY <1>1, <1>2, <4>1
    <3> QED
      BY <2>2, <2>3, <3>1, <3>2
  <2>5. \A D \in SUBSET Deleting' : D = {}
    BY <1>3
  <2> QED
    BY <2>4, <2>5 DEF CleanupsSuffice
<1> QED
  BY <1>4, <1>5, <1>6, <1>7, <1>8 DEF MemoryInv

\* The extractor, a context and the clock touch no save.
LEMMA RestKeepsMemory ==
    ASSUME MemoryInv, MemoryTypeOK',
           ExtractorSettles \/ AskForContext \/ GetRelevantContext \/ MemoryTick
               \/ UNCHANGED memoryVars
    PROVE  MemoryInv'
<1> USE MemoryAssumption
<1>1. UNCHANGED <<mem, save, memoryPast>> /\ clock' \in {clock, clock + 1} /\ clock \in Nat
  BY DEF ExtractorSettles, AskForContext, GetRelevantContext, MemoryTick, memoryVars, MemoryInv,
         MemoryTypeOK
<1>2. RowsWereCreated' /\ ListsAreOld' /\ NewestKept' /\ GoneForGood'
  BY <1>1 DEF MemoryInv, RowsWereCreated, ListsAreOld, NewestKept, GoneForGood, Stored, Beyond,
              Newest, Newer
<1>3. TimesFollow'
  <2>1. \A t \in Saves : save[t].at \in Nat
    BY DEF MemoryInv, MemoryTypeOK, SaveType
  <2> QED
    BY <1>1, <2>1 DEF MemoryInv, TimesFollow, Ended
<1>4. CleanupsSuffice'
  BY <1>1 DEF MemoryInv, CleanupsSuffice, Listed, Cleaning, Deleting
<1> QED
  BY <1>2, <1>3, <1>4 DEF MemoryInv

\* The invariant that the properties of the memory follow from.
THEOREM MemoryInvariant == MemorySpec => []MemoryInv
<1>1. MemoryInv /\ [MemoryNext]_memoryVars => MemoryInv'
  <2> SUFFICES ASSUME MemoryInv, [MemoryNext]_memoryVars PROVE MemoryInv'
    OBVIOUS
  <2>1. MemoryTypeOK'
    BY MemoryTypesKept
  <2> QED
    BY <2>1, SaveMessageKeepsInv, EmbedKeepsInv, CreateKeepsInv, CleanupKeepsInv, ClearedKeepsInv,
       CrashKeepsMemory, RestKeepsMemory
    DEF MemoryNext, ClearConversationMemory, DeleteTenantMemory
<1> QED
  BY <1>1, MemoryInitially, PTL DEF MemorySpec

\* Types; the timestamps of a conversation's rows are different.
THEOREM MemoryTypeCorrect == MemorySpec => []MemoryTypeOK
<1>1. MemoryInv => MemoryTypeOK
  BY DEF MemoryInv
<1> QED
  BY <1>1, MemoryInvariant, PTL

\* However saves, cleanups and clearings overlap: the newest rows stay, the others go
\* unless a cleanup was skipped, saves that did not overlap are in order, and what was
\* cleared comes back only if its save was waiting.
THEOREM MemoryIsSafe == MemorySpec => []MemorySafe
<1>1. MemoryInv => MemorySafe
  <2> SUFFICES ASSUME MemoryInv PROVE MemorySafe
    OBVIOUS
  <2>1. NewestKept
    BY DEF MemoryInv
  <2>2. BoundedWhenQuiet
    <3> SUFFICES ASSUME InFlight = {} PROVE Cardinality(mem) <= KeepLast + memoryPast.skipped
      BY DEF BoundedWhenQuiet
    <3>1. Cleaning = {}
      BY DEF InFlight, Cleaning
    <3>2. Cardinality(mem \ Listed({})) <= KeepLast + memoryPast.skipped + Cardinality(Cleaning \ {})
      BY DEF MemoryInv, CleanupsSuffice
    <3>3. mem \ Listed({}) = mem /\ Cleaning \ {} = {}
      BY <3>1 DEF Listed
    <3>4. Cardinality({}) = 0 /\ memoryPast.skipped \in Nat
      BY FS_EmptySet DEF MemoryInv, MemoryTypeOK
    <3>5. Cardinality(mem) <= KeepLast + memoryPast.skipped + 0
      BY <3>2, <3>3, <3>4
    <3> QED
      BY <3>4, <3>5, MemoryAssumption
  <2>3. InOrderUnlessOverlapping
    <3> SUFFICES ASSUME NEW s \in mem, NEW t \in mem, t \in memoryPast.before[s]
                 PROVE  save[t].at < save[s].at
      BY DEF InOrderUnlessOverlapping
    <3>1. s \in Saves /\ t \in Saves /\ t # s /\ save[t].at <= save[s].at
      BY DEF MemoryInv, TimesFollow, MemoryTypeOK
    <3>2. save[t].at # save[s].at
      BY <3>1 DEF MemoryInv, MemoryTypeOK
    <3>3. save[t].at \in Nat /\ save[s].at \in Nat
      BY <3>1 DEF MemoryInv, MemoryTypeOK, SaveType
    <3> QED
      BY <3>1, <3>2, <3>3
  <2>4. OnlyWaitingReturn
    BY DEF MemoryInv, GoneForGood, OnlyWaitingReturn
  <2> QED
    BY <2>1, <2>2, <2>3, <2>4 DEF MemorySafe
<1> QED
  BY <1>1, MemoryInvariant, PTL

\* Without embeddings a context is the newest messages created since the memory was
\* cleared: a row that is gone has KeepLast newer ones in the memory, so no row after it
\* is among the TopK newest.
THEOREM ContextsAreNewest == MemorySpec => ContextIsNewest
<1> USE MemoryAssumption
<1>1. MemoryInv => Newest(TopK, mem) = Newest(TopK, memoryPast.created)
  <2> SUFFICES ASSUME MemoryInv PROVE Newest(TopK, mem) = Newest(TopK, memoryPast.created)
    OBVIOUS
  <2>1. PICK c \in SUBSET Saves, m \in SUBSET Saves : c = memoryPast.created /\ m = mem
    BY DEF MemoryInv, MemoryTypeOK
  <2>2. m \subseteq c /\ Newest(KeepLast, c) \subseteq m /\ MemoryTypeOK
    BY <2>1 DEF MemoryInv, RowsWereCreated, NewestKept
  <2>3. ASSUME NEW s \in Newest(TopK, m) PROVE s \in Newest(TopK, c)
    <3>1. s \in m /\ Cardinality(Newer(s) \cap m) < TopK
      BY DEF Newest
    <3>2. Newer(s) \cap c = Newer(s) \cap m
      <4> SUFFICES ASSUME NEW t \in Newer(s) \cap c, t \notin m PROVE FALSE
        BY <2>2
      <4>1. t \in Beyond(KeepLast, c)
        BY <2>2 DEF Beyond
      <4>2. Cardinality(Newer(t) \cap Newest(KeepLast, c)) >= KeepLast
        BY <2>2, <4>1, NewestCover
      <4>3. Newer(t) \cap Newest(KeepLast, c) \subseteq Newer(s) \cap m
        <5>1. \A u \in Saves : save[u].at \in Nat
          BY <2>2 DEF MemoryTypeOK, SaveType
        <5>2. Newer(t) \subseteq Newer(s)
          BY <3>1, <5>1 DEF Newer
        <5> QED
          BY <2>2, <5>2
      <4>4. /\ Cardinality(Newer(t) \cap Newest(KeepLast, c)) <= Cardinality(Newer(s) \cap m)
            /\ Cardinality(Newer(t) \cap Newest(KeepLast, c)) \in Nat
            /\ Cardinality(Newer(s) \cap m) \in Nat
        <5>1. IsFiniteSet(Newer(s) \cap m)
          BY Fewer
        <5> QED
          BY <4>3, <5>1, Fewer
      <4> QED
        BY <3>1, <4>2, <4>4
    <3> QED
      BY <2>2, <3>1, <3>2 DEF Newest
  <2>4. ASSUME NEW s \in Newest(TopK, c) PROVE s \in Newest(TopK, m)
    <3>1. s \in c /\ Cardinality(Newer(s) \cap c) < TopK
      BY DEF Newest
    <3>2. IsFiniteSet(Newer(s) \cap c)
      BY Fewer
    <3>3. Cardinality(Newer(s) \cap m) <= Cardinality(Newer(s) \cap c)
          /\ Cardinality(Newer(s) \cap m) \in Nat /\ Cardinality(Newer(s) \cap c) \in Nat
      BY <2>2, <3>2, Fewer
    <3>4. s \in m
      BY <2>2, <3>1, <3>3 DEF Newest
    <3> QED
      BY <3>1, <3>3, <3>4 DEF Newest
  <2> QED
    BY <2>1, <2>3, <2>4
<1>2. MemoryInv /\ [MemoryNext]_memoryVars =>
          [context' # context /\ ~context'.ranked
               => context'.rows = Newest(TopK, memoryPast.created)]_memoryVars
  <2> SUFFICES ASSUME MemoryInv, MemoryNext, context' # context, ~context'.ranked
               PROVE  context'.rows = Newest(TopK, memoryPast.created)
    OBVIOUS
  <2>1. GetRelevantContext
    BY DEF MemoryNext, SaveMessage, Embed, Create, ListOld, DeleteOld, CleanupFails,
           ExtractorSettles, AskForContext, ClearConversationMemory, DeleteTenantMemory, Cleared,
           MemoryCrash, MemoryTick
  <2>2. context'.rows = Newest(TopK, mem)
    BY <2>1 DEF GetRelevantContext
  <2> QED
    BY <1>1, <2>2
<1> QED
  BY <1>2, MemoryInvariant, PTL DEF MemorySpec, ContextIsNewest

-----------------------------------------------------------------------------
(* The limit on the traffic: any tenants, messages, limits and windows.     *)

\* The messages that were counted under a key; those of them whose INCR is over, those
\* that have their answer, and those that got through or, with the first place of the
\* counter, will unless the process counts for itself.
CountedFor(key) == {k \in Calls : call[k].counted /\ KeyOf(call[k]) = key}
ConsumedFor(key) == {k \in CountedFor(key) : call[k].pc # "incr"}
SettledFor(key) == {k \in CountedFor(key) : call[k].pc \notin {"incr", "expire"}}
MaxFor(key) == MaxOf[key[1]]
Passing(key) ==
    {k \in CountedFor(key) : call[k].passed \/ (call[k].pc = "expire" /\ MaxFor(key) > 0)}

\* Until then no counter of the key has expired.
Until(key) == key[3] * WindowTicks + TtlTicks

CallsHold ==
    \A k \in Calls :
        /\ call[k].pc \in {"idle", "resolve"} => ~call[k].counted
        /\ call[k].pc \in {"incr", "expire"} => call[k].counted /\ ~call[k].passed
        /\ call[k].pc = "blocked" \/ call[k].passed => call[k].counted
        /\ call[k].counted => call[k].tenant \in Tenants /\ call[k].slot * WindowTicks <= now

\* One message at most is to give a counter its expiry.
OneExpires ==
    \A j, k \in Calls : call[j].pc = "expire" /\ call[k].pc = "expire"
                            /\ KeyOf(call[j]) = KeyOf(call[k]) => j = k

CountersHold ==
    \A key \in Keys :
        /\ counter[key].n = 0 => counter[key].exp = Never
        /\ counter[key].exp # Never => counter[key].exp >= Until(key)
        /\ memIncr[key].n > 0 => memIncr[key].exp >= Until(key)
        /\ ~enabled => counter[key].n = 0

\* A counter counts messages of its key, each once, and commands sent again.
CountsAreMessages ==
    \A key \in Keys :
        /\ counter[key].n <= Cardinality(ConsumedFor(key)) + resent[key]
        /\ memIncr[key].n <= Cardinality(SettledFor(key))

\* What got through was let through by Redis, by the process, or by one of the g processes
\* before it that counted for themselves, each after a fault of its own.
Fits(key, g) ==
    /\ enabled => g + (IF memIncr[key].n > 0 THEN 1 ELSE 0) <= faults
    /\ Cardinality(Passing(key)) <= Least(counter[key].n, MaxFor(key)) + g * MaxFor(key)
                                        + Least(memIncr[key].n, MaxFor(key))
PassedFits == \A key \in Keys : now < Until(key) => \E g \in 0..crashes : Fits(key, g)

LimitInv ==
    /\ RateLimitTypeOK
    /\ CallsHold
    /\ OneExpires
    /\ CountersHold
    /\ CountsAreMessages
    /\ RefusedForOwnTraffic
    /\ CountersExpire
    /\ PassedFits

\* The minute of a time within the bounds, and when it began.
LEMMA SlotFits ==
    ASSUME NEW t \in 0..MaxNow
    PROVE  t \div WindowTicks \in Slots /\ (t \div WindowTicks) * WindowTicks <= t
<1> USE LimitAssumption
<1>1. /\ t \div WindowTicks \in Nat /\ MaxNow \div WindowTicks \in Nat
      /\ (t \div WindowTicks) * WindowTicks <= t
      /\ MaxNow < (MaxNow \div WindowTicks) * WindowTicks + WindowTicks
  OBVIOUS
<1>2. ASSUME t \div WindowTicks > MaxNow \div WindowTicks PROVE FALSE
  <2>1. PICK a \in Nat, b \in Nat, w \in Nat :
            a = t \div WindowTicks /\ b = MaxNow \div WindowTicks /\ w = WindowTicks
    BY <1>1
  <2>2. a * w >= b * w + w
    <3>1. a >= b + 1
      BY <1>2, <2>1
    <3>2. a * w >= (b + 1) * w
      BY <3>1
    <3> QED
      BY <3>2
  <2> QED
    BY <1>1, <2>1, <2>2
<1> QED
  BY <1>1, <1>2 DEF Slots

\* What follows the count n of a message: the same message, handled, queued or refused.
LEMMA SettledFits ==
    ASSUME NEW c \in CallType, NEW n \in Nat, NEW ready \in BOOLEAN, ~c.passed
    PROVE  LET r == Settled(c, n, ready) IN
           /\ r \in CallType
           /\ r.message = c.message /\ r.tenant = c.tenant /\ r.slot = c.slot
           /\ (r.counted <=> c.counted)
           /\ r.pc \in {"blocked", "handled", "allowed", "dropped"}
           /\ (r.passed <=> n <= MaxOf[KindOf(c)])
           /\ (r.pc = "blocked" <=> ~(n <= MaxOf[KindOf(c)]))
<1> DEFINE r == Settled(c, n, ready)
<1>1. CASE ~Allowed(KindOf(c), n)
  <2>1. r = [c EXCEPT !.pc = "blocked"]
    BY <1>1 DEF Settled
  <2>2. ~(n <= MaxOf[KindOf(c)])
    BY <1>1 DEF Allowed
  <2> HIDE DEF r
  <2>3. r \in CallType
    BY <2>1 DEF CallType
  <2>4. r.message = c.message /\ r.tenant = c.tenant /\ r.slot = c.slot /\ r.pc = "blocked"
    BY <2>1 DEF CallType
  <2>5. r.passed = c.passed /\ r.counted = c.counted
    BY <2>1 DEF CallType
  <2>6. ~r.passed /\ (r.counted <=> c.counted)
    BY <2>5
  <2> QED
    BY <2>2, <2>3, <2>4, <2>6 DEF r
<1>2. CASE Allowed(KindOf(c), n)
  <2>1. PICK p \in {"handled", "allowed", "dropped"} : r = [c EXCEPT !.passed = TRUE, !.pc = p]
    BY <1>2 DEF Settled
  <2>2. n <= MaxOf[KindOf(c)]
    BY <1>2 DEF Allowed
  <2> HIDE DEF r
  <2>3. r \in CallType
    BY <2>1 DEF CallType
  <2>4. r.message = c.message /\ r.tenant = c.tenant /\ r.slot = c.slot /\ r.pc = p
    BY <2>1 DEF CallType
  <2>5. r.passed = TRUE /\ r.counted = c.counted
    BY <2>1 DEF CallType
  <2>6. r.passed <=> n <= MaxOf[KindOf(c)]
    BY <2>2, <2>5
  <2>7. r.pc = "blocked" <=> ~(n <= MaxOf[KindOf(c)])
    BY <2>2, <2>4
  <2>8. r.counted <=> c.counted
    BY <2>5
  <2> QED
    BY <2>3, <2>4, <2>6, <2>7, <2>8 DEF r
<1> QED
  BY <1>1, <1>2

\* A step of a caller that does not touch the limit: the message comes to the limit, or it
\* goes on, is dropped or fails.
Comes(k, c) ==
    /\ ~call[k].counted
    /\ c.pc = "incr" /\ c.counted /\ ~c.passed
    /\ c.tenant \in Tenants /\ c.slot = Slot
GoesOn(k, c) ==
    /\ call[k].pc \in {"idle", "resolve", "allowed"}
    /\ c.pc \in {"resolve", "dropped", "thrown", "queued"}
    /\ c.pc = "resolve" => ~c.counted
    /\ c.counted <=> call[k].counted
    /\ c.passed <=> call[k].passed
    /\ c.counted => /\ c.pc \in {"dropped", "queued"}
                    /\ c.message = call[k].message /\ c.tenant = call[k].tenant
                    /\ c.slot = call[k].slot

\* A new message and one on its way to the limit.
LEMMA NewCallFits ==
    /\ NoCall \in CallType /\ ~NoCall.counted /\ ~NoCall.passed /\ NoCall.pc = "idle"
    /\ \A m \in {"message", "carousel"} :
           LET c == [NoCall EXCEPT !.pc = "resolve", !.message = m] IN
           c \in CallType /\ ~c.counted /\ ~c.passed /\ c.pc = "resolve"
    /\ \A t \in Tenants :
           LET c == [NoCall EXCEPT !.message = "webhook", !.tenant = t] IN
           c \in CallType /\ ~c.passed /\ c.tenant = t
<1> USE LimitAssumption
<1>1. 0 \in Slots
  BY SlotFits DEF Slots
<1>2. NoCall = [pc |-> "idle", message |-> "none", tenant |-> NoTenant,
                counted |-> FALSE, passed |-> FALSE, slot |-> 0]
  BY DEF NoCall
<1>3. NoCall \in CallType /\ ~NoCall.counted /\ ~NoCall.passed /\ NoCall.pc = "idle"
  BY <1>1, <1>2 DEF CallType
<1> HIDE DEF NoCall
<1>4. ASSUME NEW m \in {"message", "carousel"}
      PROVE  LET c == [NoCall EXCEPT !.pc = "resolve", !.message = m] IN
             c \in CallType /\ ~c.counted /\ ~c.passed /\ c.pc = "resolve"
  BY <1>3 DEF CallType
<1>5. ASSUME NEW t \in Tenants
      PROVE  LET c == [NoCall EXCEPT !.message = "webhook", !.tenant = t] IN
             c \in CallType /\ ~c.passed /\ c.tenant = t
  BY <1>3 DEF CallType
<1> QED
  BY <1>3, <1>4, <1>5

LEMMA ToTheLimitFits ==
    ASSUME NEW c \in CallType, ~c.passed, c.tenant \in Tenants, now \in 0..MaxNow
    PROVE  LET r == ToTheLimit(c) IN
           /\ r \in CallType /\ r.pc = "incr" /\ r.counted /\ ~r.passed
           /\ r.tenant = c.tenant /\ r.slot = Slot
<1>1. Slot \in Slots
  BY SlotFits DEF Slot
<1> QED
  BY <1>1 DEF ToTheLimit, CallType

LEMMA KeyFits ==
    ASSUME NEW c \in CallType, c.tenant \in Tenants
    PROVE  KeyOf(c) \in Keys /\ KeyOf(c)[1] = KindOf(c) /\ KeyOf(c)[3] = c.slot
  BY DEF KeyOf, KindOf, Keys, Kinds, CallType

\* Redis counts, and gives an expiry.
LEMMA AddedFits ==
    ASSUME RateLimitTypeOK, NEW key \in Keys
    PROVE  /\ Added(key) \in [Keys -> CountType]
           /\ Added(key)[key].n = counter[key].n + 1 /\ Added(key)[key].exp = counter[key].exp
           /\ \A other \in Keys \ {key} : Added(key)[other] = counter[other]
<1>1. counter \in [Keys -> CountType] /\ counter[key] \in CountType
  BY DEF RateLimitTypeOK
<1>2. PICK r \in CountType : r = counter[key]
  BY <1>1
<1>3. Added(key) = [counter EXCEPT ![key] = [r EXCEPT !.n = r.n + 1]]
  BY <1>2 DEF Added
<1>4. LET c == [r EXCEPT !.n = r.n + 1] IN c \in CountType /\ c.n = r.n + 1 /\ c.exp = r.exp
  BY DEF CountType
<1> QED
  BY <1>1, <1>2, <1>3, <1>4

LEMMA ExpiringFits ==
    ASSUME RateLimitTypeOK, NEW key \in Keys
    PROVE  /\ Expiring(key) \in [Keys -> CountType]
           /\ Expiring(key)[key].n = counter[key].n
           /\ Expiring(key)[key].exp = now + TtlTicks /\ now + TtlTicks # Never
           /\ \A other \in Keys \ {key} : Expiring(key)[other] = counter[other]
<1>1. counter \in [Keys -> CountType] /\ counter[key] \in CountType
      /\ now + TtlTicks \in Nat /\ now + TtlTicks # Never
  BY LimitAssumption DEF RateLimitTypeOK, Never
<1>2. PICK r \in CountType : r = counter[key]
  BY <1>1
<1>3. Expiring(key) = [counter EXCEPT ![key] = [r EXCEPT !.exp = now + TtlTicks]]
  BY <1>2 DEF Expiring
<1>4. LET c == [r EXCEPT !.exp = now + TtlTicks] IN
      c \in CountType /\ c.n = r.n /\ c.exp = now + TtlTicks
  BY <1>1 DEF CountType
<1> QED
  BY <1>1, <1>2, <1>3, <1>4

\* The process counts: its row starts again only when its time is over.
LEMMA MemRowFits ==
    ASSUME RateLimitTypeOK, CountersHold, NEW key \in Keys, key[3] * WindowTicks <= now
    PROVE  LET r == MemRow(key) IN
           /\ r \in CountType /\ r.n > 0 /\ r.n <= memIncr[key].n + 1 /\ r.exp >= Until(key)
           /\ now < Until(key) => r.n = memIncr[key].n + 1
<1> USE LimitAssumption
<1>0. /\ memIncr[key] \in CountType /\ now \in Nat /\ key[3] \in Nat /\ WindowTicks \in Nat
      /\ TtlTicks \in Nat /\ MaxNow \div WindowTicks \in Int
  BY DEF RateLimitTypeOK, Keys, Slots
<1>1. key[3] * WindowTicks \in Nat
  BY <1>0
<1>2. Until(key) \in Nat /\ now + TtlTicks >= Until(key)
  BY <1>0, <1>1 DEF Until
<1>3. memIncr[key].n \in Nat /\ memIncr[key].exp \in Nat
      /\ (memIncr[key].n > 0 => memIncr[key].exp >= Until(key))
  BY <1>0 DEF CountType, CountersHold
<1>4. CASE memIncr[key].n = 0 \/ memIncr[key].exp <= now
  <2>1. MemRow(key) = [n |-> 1, exp |-> now + TtlTicks]
    BY <1>4 DEF MemRow
  <2>2. now + TtlTicks \in Nat
    BY <1>0
  <2>3. now < Until(key) => memIncr[key].n = 0
    BY <1>0, <1>2, <1>3, <1>4
  <2> QED
    BY <1>2, <1>3, <2>1, <2>2, <2>3 DEF CountType
<1>5. CASE ~(memIncr[key].n = 0 \/ memIncr[key].exp <= now)
  <2>1. PICK r \in CountType : r = memIncr[key]
    BY <1>0
  <2>2. MemRow(key) = [r EXCEPT !.n = r.n + 1]
    BY <1>5, <2>1 DEF MemRow
  <2>3. LET c == [r EXCEPT !.n = r.n + 1] IN c \in CountType /\ c.n = r.n + 1 /\ c.exp = r.exp
    BY DEF CountType
  <2> QED
    BY <1>3, <1>5, <2>1, <2>2, <2>3
<1> QED
  BY <1>4, <1>5

\* Three of the five kinds of step of tryConsume; IncrSentAgain and Expire are the others.
Becomes(k, r) == call' = [call EXCEPT ![k] = r]
SamePlace == UNCHANGED <<enabled, now, crashes>>

FirstCounted(k) ==
    LET key == KeyOf(call[k]) IN
    /\ call[k].pc = "incr" /\ enabled /\ counter[key].n = 0
    /\ counter' = Added(key) /\ Becomes(k, [call[k] EXCEPT !.pc = "expire"])
    /\ SamePlace /\ UNCHANGED <<memIncr, faults, resent>>

CountedNext(k, ready) ==
    LET key == KeyOf(call[k]) IN
    /\ call[k].pc = "incr" /\ enabled /\ counter[key].n # 0
    /\ counter' = Added(key) /\ Becomes(k, Settled(call[k], counter[key].n + 1, ready))
    /\ SamePlace /\ UNCHANGED <<memIncr, faults, resent>>

CountedInMemory(k, ready) ==
    LET key == KeyOf(call[k]) IN
    /\ call[k].pc \in {"incr", "expire"}
    /\ \/ enabled /\ faults < MaxFaults /\ faults' = faults + 1
       \/ ~enabled /\ call[k].pc = "incr" /\ UNCHANGED <<faults, counter>>
    /\ \/ counter' = counter
       \/ call[k].pc = "incr" /\ counter' = Added(key)
       \/ call[k].pc = "expire" /\ counter' = Expiring(key)
    /\ memIncr' = [memIncr EXCEPT ![key] = MemRow(key)]
    /\ Becomes(k, Settled(call[k], MemRow(key).n, ready))
    /\ SamePlace /\ UNCHANGED resent

LEMMA ConsumeKinds ==
    ASSUME RateLimitTypeOK, CountersHold, NEW k \in Calls, NEW ready \in BOOLEAN,
           TryConsume(k, ready), CallsHold
    PROVE  \/ FirstCounted(k)
           \/ CountedNext(k, ready)
           \/ IncrSentAgain(k)
           \/ CountedInMemory(k, ready)
           \/ Expire(k, ready)
<1>1. CASE Incr(k, ready)
  <2>1. CASE counter[KeyOf(call[k])].n = 0
    BY <1>1, <2>1 DEF Incr, FirstCounted, Becomes, SamePlace
  <2>2. CASE counter[KeyOf(call[k])].n # 0
    BY <1>1, <2>2 DEF Incr, CountedNext, Becomes, SamePlace
  <2> QED
    BY <2>1, <2>2
<1>2. CASE IncrFails(k, ready)
  BY <1>2 DEF IncrFails, MemIncrWithTtl, CountedInMemory, Becomes, SamePlace
<1>3. CASE ExpireFails(k, ready)
  <2>1. enabled
    <3>1. call[k].pc = "expire"
      BY <1>3 DEF ExpireFails
    <3>2. call[k].counted /\ call[k].tenant \in Tenants /\ call[k] \in CallType
      BY <3>1 DEF CallsHold, RateLimitTypeOK
    <3>3. KeyOf(call[k]) \in Keys
      BY <3>2, KeyFits
    <3>4. counter[KeyOf(call[k])].n > 0
      BY <3>1 DEF RateLimitTypeOK
    <3> QED
      BY <3>3, <3>4 DEF CountersHold, RateLimitTypeOK
  <2> QED
    BY <1>3, <2>1 DEF ExpireFails, MemIncrWithTtl, CountedInMemory, Becomes, SamePlace
<1>4. CASE IncrInMemory(k, ready)
  BY <1>4 DEF IncrInMemory, MemIncrWithTtl, CountedInMemory, Becomes, SamePlace
<1> QED
  BY <1>1, <1>2, <1>3, <1>4 DEF TryConsume

\* Every step is one of eight kinds.
CallerStep == \E k \in Calls, c \in CallType : CallStep(k, c) /\ (Comes(k, c) \/ GoesOn(k, c))

LEMMA LimitKinds ==
    ASSUME RateLimitTypeOK, CallsHold, LimitNext
    PROVE  \/ CallerStep
           \/ \E k \in Calls, ready \in BOOLEAN : TryConsume(k, ready)
           \/ Tick
           \/ Crash
<1>0. now \in 0..MaxNow /\ \A k \in Calls : call[k] \in CallType
  BY DEF RateLimitTypeOK
<1>1. ASSUME NEW k \in Calls, HandleOneMessage(k)
      PROVE  CallerStep \/ TryConsume(k, TRUE)
  <2>1. ASSUME call[k].pc = "idle", NEW t \in Tenants,
               CallStep(k, ToTheLimit([NoCall EXCEPT !.message = "webhook", !.tenant = t]))
        PROVE  CallerStep
    <3>1. PICK c \in CallType : c = [NoCall EXCEPT !.message = "webhook", !.tenant = t]
      BY NewCallFits
    <3>2. ~c.passed /\ c.tenant = t
      BY <3>1, NewCallFits
    <3>3. PICK r \in CallType : r = ToTheLimit(c)
      BY <1>0, <3>2, ToTheLimitFits
    <3>4. r.pc = "incr" /\ r.counted /\ ~r.passed /\ r.tenant = c.tenant /\ r.slot = Slot
      BY <1>0, <3>2, <3>3, ToTheLimitFits
    <3>5. ~call[k].counted
      BY <2>1 DEF CallsHold
    <3>6. Comes(k, r)
      BY <3>2, <3>4, <3>5 DEF Comes
    <3> QED
      BY <2>1, <3>1, <3>3, <3>6 DEF CallerStep
  <2> QED
    BY <1>1, <2>1 DEF HandleOneMessage
<1>2. ASSUME NEW k \in Calls, call[k].pc = "resolve", NEW t \in Tenants,
             CallStep(k, ToTheLimit([call[k] EXCEPT !.tenant = t]))
      PROVE  CallerStep
  <2>1. ~call[k].counted /\ ~call[k].passed
    BY <1>2 DEF CallsHold
  <2>2. PICK b \in CallType : b = call[k]
    BY <1>0
  <2>3. LET c == [b EXCEPT !.tenant = t] IN c \in CallType /\ c.tenant = t /\ c.passed = b.passed
    BY DEF CallType
  <2>4. PICK c \in CallType : c = [call[k] EXCEPT !.tenant = t]
    BY <2>2, <2>3
  <2>5. ~c.passed /\ c.tenant = t
    BY <2>1, <2>2, <2>3, <2>4
  <2>6. PICK r \in CallType : r = ToTheLimit(c)
    BY <1>0, <2>5, ToTheLimitFits
  <2>7. r.pc = "incr" /\ r.counted /\ ~r.passed /\ r.tenant = c.tenant /\ r.slot = Slot
    BY <1>0, <2>5, <2>6, ToTheLimitFits
  <2>8. Comes(k, r)
    BY <2>1, <2>5, <2>7 DEF Comes
  <2> QED
    BY <1>2, <2>4, <2>6, <2>8 DEF CallerStep
<1>3. ASSUME NEW k \in Calls, NEW p \in {"dropped", "thrown", "queued"},
             CallStep(k, [call[k] EXCEPT !.pc = p]),
             call[k].pc = "resolve" \/ (call[k].pc = "allowed" /\ p \in {"dropped", "queued"})
      PROVE  CallerStep
  <2>1. PICK b \in CallType : b = call[k]
    BY <1>0
  <2>2. PICK c : c = [b EXCEPT !.pc = p]
    OBVIOUS
  <2>3. c \in CallType
    BY <2>2 DEF CallType
  <2>4. c.pc = p /\ c.message = b.message /\ c.tenant = b.tenant /\ c.slot = b.slot
    BY <2>2 DEF CallType
  <2>5. c.counted = b.counted /\ c.passed = b.passed
    BY <2>2 DEF CallType
  <2>6. c.counted => p \in {"dropped", "queued"}
    BY <1>3, <2>1, <2>5 DEF CallsHold
  <2>7. GoesOn(k, c)
    BY <1>3, <2>1, <2>4, <2>5, <2>6 DEF GoesOn
  <2> QED
    BY <1>3, <2>1, <2>2, <2>3, <2>7 DEF CallerStep
<1>4. ASSUME NEW k \in Calls, call[k].pc = "idle", NEW m \in {"message", "carousel"},
             CallStep(k, [NoCall EXCEPT !.pc = "resolve", !.message = m])
      PROVE  CallerStep
  <2>1. PICK c \in CallType : c = [NoCall EXCEPT !.pc = "resolve", !.message = m]
    BY NewCallFits
  <2>2. ~c.counted /\ ~c.passed /\ c.pc = "resolve"
    BY <2>1, NewCallFits
  <2>3. ~call[k].counted /\ ~call[k].passed
    BY <1>4 DEF CallsHold
  <2>4. GoesOn(k, c)
    BY <1>4, <2>2, <2>3 DEF GoesOn
  <2> QED
    BY <1>4, <2>1, <2>4 DEF CallerStep
<1>5. ASSUME NEW k \in Calls, NEW m \in {"message", "carousel"}, NEW ready \in BOOLEAN,
             Send(k, m, ready)
      PROVE  CallerStep \/ TryConsume(k, ready)
  <2>1. CASE ResolveTenantForSend(k)
    BY <1>2, <1>3, <2>1 DEF ResolveTenantForSend
  <2>2. CASE EnqueueJob(k)
    BY <1>3, <2>2 DEF EnqueueJob
  <2> QED
    BY <1>4, <1>5, <2>1, <2>2 DEF Send
<1> QED
  BY <1>1, <1>5 DEF LimitNext, SendTextMessage, SendImageMessage, SendVideoMessage,
                    SendProductCarousel, SendInteractiveButtons

\* Whatever the step, a message that was counted stays counted, under its key, and never
\* goes back behind its INCR or its answer.
CallsGrow ==
    \A k \in Calls :
        /\ call[k].counted => /\ call'[k].counted
                              /\ call'[k].message = call[k].message
                              /\ call'[k].tenant = call[k].tenant
                              /\ call'[k].slot = call[k].slot
                              /\ call[k].pc # "incr" => call'[k].pc # "incr"
                              /\ call[k].pc \notin {"incr", "expire"} =>
                                     call'[k].pc \notin {"incr", "expire"}
        /\ call[k].passed => call'[k].passed

LEMMA BecomesFacts ==
    ASSUME RateLimitTypeOK, NEW k \in Calls, NEW r \in CallType, Becomes(k, r)
    PROVE  /\ call'[k] = r /\ \A j \in Calls \ {k} : call'[j] = call[j]
           /\ call' \in [Calls -> CallType]
  BY DEF RateLimitTypeOK, Becomes

\* The message has its answer, by the count n.
AnsweredWith(k, n) ==
    \E r \in CallType :
        /\ Becomes(k, r) /\ r.counted
        /\ r.message = call[k].message /\ r.tenant = call[k].tenant /\ r.slot = call[k].slot
        /\ r.pc \in {"blocked", "handled", "allowed", "dropped"}
        /\ (r.passed <=> n <= MaxFor(KeyOf(call[k])))
        /\ (r.pc = "blocked" <=> ~(n <= MaxFor(KeyOf(call[k]))))

\* A message whose INCR is due: what its steps make of it.
LEMMA ConsumeCall ==
    ASSUME RateLimitTypeOK, CallsHold, CountersHold, NEW k \in Calls, NEW ready \in BOOLEAN
    PROVE  /\ FirstCounted(k) => \E r \in CallType :
                  /\ Becomes(k, r) /\ r.pc = "expire" /\ r.counted /\ ~r.passed
                  /\ r.message = call[k].message /\ r.tenant = call[k].tenant
                  /\ r.slot = call[k].slot
           /\ CountedNext(k, ready) => AnsweredWith(k, counter[KeyOf(call[k])].n + 1)
           /\ CountedInMemory(k, ready) => AnsweredWith(k, MemRow(KeyOf(call[k])).n)
           /\ Expire(k, ready) => AnsweredWith(k, 1)
           /\ FirstCounted(k) \/ CountedNext(k, ready) \/ CountedInMemory(k, ready)
                  \/ Expire(k, ready) \/ IncrSentAgain(k) =>
                  /\ call[k].counted /\ ~call[k].passed /\ call[k] \in CallType
                  /\ KeyOf(call[k]) \in Keys /\ call[k].pc \in {"incr", "expire"}
                  /\ KeyOf(call[k])[1] = KindOf(call[k])
                  /\ KeyOf(call[k])[3] * WindowTicks <= now
<1>1. call[k] \in CallType
  BY DEF RateLimitTypeOK
<1>2. ASSUME call[k].pc \in {"incr", "expire"}
      PROVE  /\ call[k].counted /\ ~call[k].passed /\ call[k] \in CallType
             /\ KeyOf(call[k]) \in Keys /\ call[k].pc \in {"incr", "expire"}
             /\ KeyOf(call[k])[1] = KindOf(call[k])
             /\ KeyOf(call[k])[3] * WindowTicks <= now
  <2>1. /\ call[k].counted /\ ~call[k].passed /\ call[k].tenant \in Tenants
        /\ call[k].slot * WindowTicks <= now
    BY <1>2 DEF CallsHold
  <2> QED
    BY <1>1, <1>2, <2>1, KeyFits
<1>3. ASSUME FirstCounted(k)
      PROVE  \E r \in CallType :
                  /\ Becomes(k, r) /\ r.pc = "expire" /\ r.counted /\ ~r.passed
                  /\ r.message = call[k].message /\ r.tenant = call[k].tenant
                  /\ r.slot = call[k].slot
  <2>1. PICK c \in CallType : c = call[k] /\ c.counted /\ ~c.passed
    BY <1>1, <1>2, <1>3 DEF FirstCounted
  <2>2. PICK r : r = [c EXCEPT !.pc = "expire"]
    OBVIOUS
  <2>3. r \in CallType
    BY <2>2 DEF CallType
  <2>4. r.pc = "expire" /\ r.message = c.message /\ r.tenant = c.tenant /\ r.slot = c.slot
    BY <2>2 DEF CallType
  <2>5. r.counted = c.counted /\ r.passed = c.passed
    BY <2>2 DEF CallType
  <2>6. Becomes(k, r)
    BY <1>3, <2>1, <2>2 DEF FirstCounted
  <2> QED
    BY <2>1, <2>3, <2>4, <2>5, <2>6
<1>4. ASSUME NEW n \in Nat \ {0}, call[k].pc \in {"incr", "expire"},
             Becomes(k, Settled(call[k], n, ready))
      PROVE  AnsweredWith(k, n)
  <2>1. ~call[k].passed /\ call[k].counted /\ KeyOf(call[k])[1] = KindOf(call[k])
    BY <1>2, <1>4
  <2>2. PICK r : r = Settled(call[k], n, ready)
    OBVIOUS
  <2>3. /\ r \in CallType
        /\ r.message = call[k].message /\ r.tenant = call[k].tenant /\ r.slot = call[k].slot
        /\ (r.counted <=> call[k].counted)
        /\ r.pc \in {"blocked", "handled", "allowed", "dropped"}
        /\ (r.passed <=> n <= MaxOf[KindOf(call[k])])
        /\ (r.pc = "blocked" <=> ~(n <= MaxOf[KindOf(call[k])]))
    BY <1>1, <2>1, <2>2, SettledFits
  <2> QED
    BY <1>4, <2>1, <2>2, <2>3 DEF MaxFor, AnsweredWith
<1>5. ASSUME call[k].pc \in {"incr", "expire"}
      PROVE  counter[KeyOf(call[k])].n + 1 \in Nat \ {0} /\ MemRow(KeyOf(call[k])).n \in Nat \ {0}
  <2>1. counter[KeyOf(call[k])] \in CountType
    BY <1>2, <1>5 DEF RateLimitTypeOK
  <2>2. MemRow(KeyOf(call[k])) \in CountType /\ MemRow(KeyOf(call[k])).n > 0
    BY <1>2, <1>5, MemRowFits
  <2> QED
    BY <2>1, <2>2 DEF CountType
<1>6. /\ CountedNext(k, ready) =>
             call[k].pc = "incr" /\ Becomes(k, Settled(call[k], counter[KeyOf(call[k])].n + 1, ready))
      /\ CountedInMemory(k, ready) =>
             call[k].pc \in {"incr", "expire"}
             /\ Becomes(k, Settled(call[k], MemRow(KeyOf(call[k])).n, ready))
      /\ Expire(k, ready) => call[k].pc = "expire" /\ Becomes(k, Settled(call[k], 1, ready))
      /\ IncrSentAgain(k) => call[k].pc = "incr"
      /\ FirstCounted(k) => call[k].pc = "incr"
  BY DEF CountedNext, CountedInMemory, Expire, IncrSentAgain, FirstCounted, Becomes
<1>7. /\ CountedNext(k, ready) => AnsweredWith(k, counter[KeyOf(call[k])].n + 1)
      /\ CountedInMemory(k, ready) => AnsweredWith(k, MemRow(KeyOf(call[k])).n)
      /\ Expire(k, ready) => AnsweredWith(k, 1)
  BY <1>4, <1>5, <1>6
<1> QED
  BY <1>2, <1>3, <1>6, <1>7

LEMMA CrashCalls ==
    ASSUME RateLimitTypeOK, Crash
    PROVE  /\ call' \in [Calls -> CallType]
           /\ \A k \in Calls :
                  /\ call'[k].message = call[k].message /\ call'[k].tenant = call[k].tenant
                  /\ call'[k].slot = call[k].slot
                  /\ (call'[k].counted <=> call[k].counted)
                  /\ (call'[k].passed <=> call[k].passed)
                  /\ call'[k].pc = "dead" \/ (call'[k].pc = call[k].pc
                         /\ call[k].pc \notin {"resolve", "incr", "expire", "allowed"})
           /\ crashes' = crashes + 1 /\ memIncr' = [key \in Keys |-> NoCount]
           /\ UNCHANGED <<enabled, counter, now, faults, resent>>
<1>1. /\ crashes' = crashes + 1 /\ memIncr' = [key \in Keys |-> NoCount]
      /\ call' = [k \in Calls |-> IF call[k].pc \in {"resolve", "incr", "expire", "allowed"}
                                  THEN [call[k] EXCEPT !.pc = "dead"] ELSE call[k]]
      /\ UNCHANGED <<enabled, counter, now, faults, resent>>
  BY DEF Crash
<1>2. ASSUME NEW k \in Calls
      PROVE  /\ call'[k] \in CallType
             /\ call'[k].message = call[k].message /\ call'[k].tenant = call[k].tenant
             /\ call'[k].slot = call[k].slot
             /\ (call'[k].counted <=> call[k].counted)
             /\ (call'[k].passed <=> call[k].passed)
             /\ call'[k].pc = "dead" \/ (call'[k].pc = call[k].pc
                    /\ call[k].pc \notin {"resolve", "incr", "expire", "allowed"})
  <2>1. PICK c \in CallType : c = call[k]
    BY DEF RateLimitTypeOK
  <2>2. CASE call[k].pc \in {"resolve", "incr", "expire", "allowed"}
    <3>1. PICK r : r = [c EXCEPT !.pc = "dead"]
      OBVIOUS
    <3>2. r \in CallType
      BY <3>1 DEF CallType
    <3>3. r.pc = "dead" /\ r.message = c.message /\ r.tenant = c.tenant /\ r.slot = c.slot
      BY <3>1 DEF CallType
    <3>4. r.counted = c.counted /\ r.passed = c.passed
      BY <3>1 DEF CallType
    <3>5. call'[k] = r
      BY <1>1, <2>1, <2>2, <3>1
    <3> QED
      BY <2>1, <3>2, <3>3, <3>4, <3>5
  <2>3. CASE call[k].pc \notin {"resolve", "incr", "expire", "allowed"}
    BY <1>1, <2>1, <2>3
  <2> QED
    BY <2>2, <2>3
<1>3. call' \in [Calls -> CallType]
  <2>1. call' = [k \in Calls |-> call'[k]]
    BY <1>1
  <2> QED
    BY <1>2, <2>1
<1> QED
  BY <1>1, <1>2, <1>3

\* A message that counts keeps its key.
LEMMA SameKey ==
    ASSUME NEW c, NEW d, c.message = d.message, c.tenant = d.tenant, c.slot = d.slot
    PROVE  KeyOf(c) = KeyOf(d) /\ KindOf(c) = KindOf(d)
  BY DEF KeyOf, KindOf

\* What every step does to the messages.
LEMMA LimitCalls ==
    ASSUME LimitInv, [LimitNext]_limitVars
    PROVE  call' \in [Calls -> CallType] /\ CallsGrow /\ CallsHold'
<1> USE DEF CallsGrow
<1>0. /\ RateLimitTypeOK /\ CallsHold /\ CountersHold
      /\ call \in [Calls -> CallType]
      /\ now \in 0..MaxNow
  BY DEF LimitInv, RateLimitTypeOK
<1>1. CASE CallerStep
  <2>1. PICK k \in Calls, c \in CallType : CallStep(k, c) /\ (Comes(k, c) \/ GoesOn(k, c))
    BY <1>1 DEF CallerStep
  <2>2. Becomes(k, c) /\ UNCHANGED now
    BY <2>1 DEF CallStep, Becomes
  <2>3. call'[k] = c /\ (\A j \in Calls \ {k} : call'[j] = call[j]) /\ call' \in [Calls -> CallType]
    BY <1>0, <2>2, BecomesFacts
  <2>4. CallsGrow
    <3>1. call[k].passed => call[k].counted
      BY <1>0 DEF CallsHold
    <3>2. CASE Comes(k, c)
      BY <2>3, <3>1, <3>2 DEF Comes
    <3>3. CASE GoesOn(k, c)
      BY <2>3, <3>1, <3>3 DEF GoesOn
    <3> QED
      BY <2>1, <3>2, <3>3
  <2>5. Slot * WindowTicks <= now
    BY <1>0, SlotFits DEF Slot
  <2>6. /\ call'[k].pc \in {"idle", "resolve"} => ~call'[k].counted
        /\ call'[k].pc \in {"incr", "expire"} => call'[k].counted /\ ~call'[k].passed
        /\ call'[k].pc = "blocked" \/ call'[k].passed => call'[k].counted
        /\ call'[k].counted => call'[k].tenant \in Tenants /\ call'[k].slot * WindowTicks <= now
    <3>1. CASE Comes(k, c)
      BY <2>3, <2>5, <3>1 DEF Comes
    <3>2. CASE GoesOn(k, c)
      BY <1>0, <2>3, <3>2 DEF GoesOn, CallsHold
    <3> QED
      BY <2>1, <3>1, <3>2
  <2>7. CallsHold'
    BY <1>0, <2>2, <2>3, <2>6 DEF CallsHold
  <2> QED
    BY <2>3, <2>4, <2>7
<1>2. ASSUME NEW k \in Calls, NEW ready \in BOOLEAN, TryConsume(k, ready)
      PROVE  call' \in [Calls -> CallType] /\ CallsGrow /\ CallsHold'
  <2>1. FirstCounted(k) \/ CountedNext(k, ready) \/ IncrSentAgain(k) \/ CountedInMemory(k, ready)
            \/ Expire(k, ready)
    BY <1>0, <1>2, ConsumeKinds
  <2>2. /\ call[k].counted /\ ~call[k].passed /\ call[k].pc \in {"incr", "expire"}
    BY <1>0, <2>1, ConsumeCall
  <2>3. UNCHANGED now
    BY <2>1 DEF FirstCounted, CountedNext, IncrSentAgain, CountedInMemory, Expire, SamePlace
  <2>4. CASE IncrSentAgain(k)
    BY <1>0, <2>4 DEF IncrSentAgain, CallsHold
  <2>5. CASE \E r \in CallType :
                 /\ Becomes(k, r) /\ r.counted
                 /\ r.message = call[k].message /\ r.tenant = call[k].tenant
                 /\ r.slot = call[k].slot
                 /\ \/ r.pc = "expire" /\ call[k].pc = "incr" /\ ~r.passed
                    \/ r.pc \in {"blocked", "handled", "allowed", "dropped"}
    <3>1. PICK r \in CallType :
                 /\ Becomes(k, r) /\ r.counted
                 /\ r.message = call[k].message /\ r.tenant = call[k].tenant
                 /\ r.slot = call[k].slot
                 /\ \/ r.pc = "expire" /\ call[k].pc = "incr" /\ ~r.passed
                    \/ r.pc \in {"blocked", "handled", "allowed", "dropped"}
      BY <2>5
    <3>2. call'[k] = r /\ (\A j \in Calls \ {k} : call'[j] = call[j]) /\ call' \in [Calls -> CallType]
      BY <1>0, <3>1, BecomesFacts
    <3>3. CallsGrow
      BY <2>2, <3>1, <3>2
    <3>4. CallsHold'
      BY <1>0, <2>2, <2>3, <3>1, <3>2 DEF CallsHold
    <3> QED
      BY <3>2, <3>3, <3>4
  <2>6. CASE FirstCounted(k)
    <3>1. call[k].pc = "incr"
      BY <2>6 DEF FirstCounted
    <3> QED
      BY <1>0, <2>5, <2>6, <3>1, ConsumeCall
  <2>7. CASE CountedNext(k, ready) \/ CountedInMemory(k, ready) \/ Expire(k, ready)
    <3>1. \E n \in Int : AnsweredWith(k, n)
      <4>1. counter[KeyOf(call[k])].n + 1 \in Int /\ MemRow(KeyOf(call[k])).n \in Int
        <5>1. KeyOf(call[k]) \in Keys /\ KeyOf(call[k])[3] * WindowTicks <= now
          BY <1>0, <2>1, ConsumeCall
        <5>2. counter[KeyOf(call[k])] \in CountType
          BY <1>0, <5>1 DEF RateLimitTypeOK
        <5>3. MemRow(KeyOf(call[k])) \in CountType
          BY <1>0, <5>1, MemRowFits
        <5> QED
          BY <5>2, <5>3 DEF CountType
      <4> QED
        BY <1>0, <2>7, <4>1, ConsumeCall
    <3> QED
      BY <2>5, <3>1 DEF AnsweredWith
  <2> QED
    BY <2>1, <2>4, <2>6, <2>7
<1>3. CASE Tick
  <2>1. now' = now + 1 /\ UNCHANGED call
    BY <1>3 DEF Tick
  <2>2. \A k \in Calls : call[k].slot * WindowTicks <= now => call[k].slot * WindowTicks <= now + 1
    <3> SUFFICES ASSUME NEW k \in Calls
                 PROVE  call[k].slot * WindowTicks <= now => call[k].slot * WindowTicks <= now + 1
      OBVIOUS
    <3>1. call[k].slot \in Int /\ WindowTicks \in Nat
      BY <1>0, LimitAssumption DEF CallType, Slots
    <3>2. call[k].slot * WindowTicks \in Int
      BY <3>1
    <3> QED
      BY <1>0, <3>2
  <2> QED
    BY <1>0, <2>1, <2>2 DEF CallsHold
<1>4. CASE Crash
  <2>1. /\ call' \in [Calls -> CallType] /\ UNCHANGED now
        /\ \A k \in Calls :
                  /\ call'[k].message = call[k].message /\ call'[k].tenant = call[k].tenant
                  /\ call'[k].slot = call[k].slot
                  /\ (call'[k].counted <=> call[k].counted)
                  /\ (call'[k].passed <=> call[k].passed)
                  /\ call'[k].pc = "dead" \/ (call'[k].pc = call[k].pc
                         /\ call[k].pc \notin {"resolve", "incr", "expire", "allowed"})
    BY <1>0, <1>4, CrashCalls
  <2>2. CallsHold'
    BY <1>0, <2>1 DEF CallsHold
  <2> QED
    BY <2>1, <2>2
<1>5. CASE UNCHANGED limitVars
  BY <1>0, <1>5 DEF limitVars, CallsHold
<1> QED
  BY <1>0, <1>1, <1>2, <1>3, <1>4, <1>5, LimitKinds

\* The kinds of step that are not of tryConsume move no message to an expiry, and those
\* that answer a message move none either.
LEMMA ExpiryBegins ==
    ASSUME LimitInv, [LimitNext]_limitVars, NEW j \in Calls, call'[j].pc = "expire"
    PROVE  \/ call'[j] = call[j]
           \/ FirstCounted(j) /\ KeyOf(call'[j]) = KeyOf(call[j])
<1>0. RateLimitTypeOK /\ CallsHold /\ CountersHold
  BY DEF LimitInv
<1>1. CASE CallerStep
  <2>1. PICK k \in Calls, c \in CallType : CallStep(k, c) /\ (Comes(k, c) \/ GoesOn(k, c))
    BY <1>1 DEF CallerStep
  <2>2. call'[k] = c /\ \A i \in Calls \ {k} : call'[i] = call[i]
    BY <1>0, <2>1, BecomesFacts DEF CallStep, Becomes
  <2> QED
    BY <2>1, <2>2 DEF Comes, GoesOn
<1>2. ASSUME NEW k \in Calls, NEW ready \in BOOLEAN, TryConsume(k, ready)
      PROVE  \/ call'[j] = call[j]
             \/ FirstCounted(j) /\ KeyOf(call'[j]) = KeyOf(call[j])
  <2>1. CASE FirstCounted(k)
    <3>1. PICK r \in CallType : /\ Becomes(k, r)
                                /\ r.message = call[k].message /\ r.tenant = call[k].tenant
                                /\ r.slot = call[k].slot
      BY <1>0, <2>1, ConsumeCall
    <3>2. call'[k] = r /\ \A i \in Calls \ {k} : call'[i] = call[i]
      BY <1>0, <3>1, BecomesFacts
    <3> QED
      BY <2>1, <3>1, <3>2, SameKey
  <2>2. CASE CountedNext(k, ready) \/ CountedInMemory(k, ready) \/ Expire(k, ready)
    <3>1. PICK r \in CallType : Becomes(k, r) /\ r.pc # "expire"
      BY <1>0, <2>2, ConsumeCall DEF AnsweredWith
    <3>2. call'[k] = r /\ \A i \in Calls \ {k} : call'[i] = call[i]
      BY <1>0, <3>1, BecomesFacts
    <3> QED
      BY <3>1, <3>2
  <2>3. CASE IncrSentAgain(k)
    BY <2>3 DEF IncrSentAgain
  <2> QED
    BY <1>0, <1>2, <2>1, <2>2, <2>3, ConsumeKinds
<1>3. CASE Crash
  <2>1. call'[j].pc = "dead" \/ (call'[j].pc = call[j].pc /\ call[j].pc # "expire")
    BY <1>0, <1>3, CrashCalls
  <2> QED
    BY <2>1
<1> QED
  BY <1>0, <1>1, <1>2, <1>3, LimitKinds DEF Tick, limitVars

LEMMA OneStillExpires == ASSUME LimitInv, [LimitNext]_limitVars PROVE OneExpires'
<1> SUFFICES ASSUME NEW j \in Calls, NEW k \in Calls, call'[j].pc = "expire", call'[k].pc = "expire",
                    KeyOf(call'[j]) = KeyOf(call'[k])
             PROVE  j = k
  BY DEF OneExpires, KeyOf, KindOf
<1>0. RateLimitTypeOK /\ OneExpires
  BY DEF LimitInv
<1>1. CASE call'[j] = call[j] /\ call'[k] = call[k]
  BY <1>0, <1>1 DEF OneExpires
<1>2. ASSUME NEW a \in Calls, NEW b \in Calls, FirstCounted(a), KeyOf(call'[a]) = KeyOf(call[a]),
             call'[b] = call[b], call'[b].pc = "expire", KeyOf(call'[a]) = KeyOf(call'[b])
      PROVE  FALSE
  <2>1. counter[KeyOf(call[b])].n > 0 /\ counter[KeyOf(call[a])].n = 0
    BY <1>0, <1>2 DEF RateLimitTypeOK, FirstCounted
  <2> QED
    BY <1>2, <2>1
<1>3. ASSUME FirstCounted(j), FirstCounted(k), j # k PROVE FALSE
  <2>1. PICK r \in CallType : Becomes(j, r)
    BY <1>0, <1>3, ConsumeCall DEF LimitInv
  <2>2. call'[k] = call[k]
    BY <1>0, <1>3, <2>1, BecomesFacts
  <2> QED
    BY <1>3, <2>2 DEF FirstCounted
<1> QED
  BY <1>1, <1>2, <1>3, ExpiryBegins

\* Counters and bounds keep their types; a counter that is to get its expiry is not empty.
LEMMA LimitTypesKept == ASSUME LimitInv, [LimitNext]_limitVars PROVE RateLimitTypeOK'
<1> USE LimitAssumption
<1> DEFINE Due(c, d) == \A k \in Calls : d[k].pc = "expire" =>
                            c[KeyOf(d[k])].n > 0 /\ c[KeyOf(d[k])].exp = Never
<1>0. /\ RateLimitTypeOK /\ CallsHold /\ CountersHold /\ OneExpires
      /\ enabled \in BOOLEAN
      /\ counter \in [Keys -> CountType] /\ memIncr \in [Keys -> CountType]
      /\ now \in 0..MaxNow /\ faults \in 0..MaxFaults /\ resent \in [Keys -> Nat]
      /\ crashes \in 0..MaxCrashes
  BY DEF LimitInv, RateLimitTypeOK
<1>d. Due(counter, call)
  BY DEF LimitInv, RateLimitTypeOK
<1>1. call' \in [Calls -> CallType]
  BY LimitCalls
<1>2. SUFFICES /\ enabled' \in BOOLEAN
               /\ counter' \in [Keys -> CountType] /\ memIncr' \in [Keys -> CountType]
               /\ now' \in 0..MaxNow /\ faults' \in 0..MaxFaults /\ resent' \in [Keys -> Nat]
               /\ crashes' \in 0..MaxCrashes
               /\ Due(counter', call')
  BY <1>1 DEF RateLimitTypeOK, KeyOf, KindOf
<1>3. CASE CallerStep \/ UNCHANGED limitVars
  <2>1. UNCHANGED <<enabled, counter, memIncr, now, faults, resent, crashes>>
    BY <1>3 DEF CallerStep, CallStep, limitVars
  <2>2. ASSUME NEW j \in Calls, call'[j].pc = "expire" PROVE call'[j] = call[j]
    <3>1. CASE FirstCounted(j)
      <4>1. counter'[KeyOf(call[j])].n = counter[KeyOf(call[j])].n + 1 /\ counter[KeyOf(call[j])].n = 0
        BY <1>0, <3>1, ConsumeCall, AddedFits DEF FirstCounted
      <4> QED
        BY <2>1, <4>1
    <3> QED
      BY <2>2, <3>1, ExpiryBegins
  <2>3. Due(counter', call')
    BY <1>d, <2>1, <2>2
  <2> QED
    BY <1>0, <2>1, <2>3
<1>4. ASSUME NEW k \in Calls, NEW ready \in BOOLEAN, TryConsume(k, ready)
      PROVE  /\ enabled' \in BOOLEAN
             /\ counter' \in [Keys -> CountType] /\ memIncr' \in [Keys -> CountType]
             /\ now' \in 0..MaxNow /\ faults' \in 0..MaxFaults /\ resent' \in [Keys -> Nat]
             /\ crashes' \in 0..MaxCrashes
             /\ Due(counter', call')
  <2>1. FirstCounted(k) \/ CountedNext(k, ready) \/ IncrSentAgain(k) \/ CountedInMemory(k, ready)
            \/ Expire(k, ready)
    BY <1>0, <1>4, ConsumeKinds
  <2>2. PICK key \in Keys : key = KeyOf(call[k]) /\ key[3] * WindowTicks <= now
    BY <1>0, <2>1, ConsumeCall
  <2>3. UNCHANGED <<enabled, now, crashes>>
    BY <2>1 DEF FirstCounted, CountedNext, IncrSentAgain, CountedInMemory, Expire, SamePlace
  <2>4. counter' \in {counter, Added(key), Expiring(key)}
    BY <2>1, <2>2 DEF FirstCounted, CountedNext, IncrSentAgain, CountedInMemory, Expire
  <2>5. counter' \in [Keys -> CountType]
    BY <1>0, <2>4, AddedFits, ExpiringFits
  <2>6. memIncr' \in [Keys -> CountType]
    <3>1. memIncr' = memIncr \/ memIncr' = [memIncr EXCEPT ![key] = MemRow(key)]
      BY <2>1, <2>2 DEF FirstCounted, CountedNext, IncrSentAgain, CountedInMemory, Expire
    <3>2. MemRow(key) \in CountType
      BY <1>0, <2>2, MemRowFits
    <3> QED
      BY <1>0, <3>1, <3>2
  <2>7. faults' \in 0..MaxFaults
    BY <1>0, <2>1 DEF FirstCounted, CountedNext, IncrSentAgain, CountedInMemory, Expire
  <2>8. resent' \in [Keys -> Nat]
    <3>1. resent' = resent \/ resent' = [resent EXCEPT ![key] = @ + 1]
      BY <2>1, <2>2 DEF FirstCounted, CountedNext, IncrSentAgain, CountedInMemory, Expire
    <3> QED
      BY <1>0, <3>1
  <2>9. Due(counter', call')
    <3> SUFFICES ASSUME NEW j \in Calls, call'[j].pc = "expire"
                 PROVE  counter'[KeyOf(call'[j])].n > 0 /\ counter'[KeyOf(call'[j])].exp = Never
      OBVIOUS
    <3>1. CASE FirstCounted(j) /\ KeyOf(call'[j]) = KeyOf(call[j])
      <4>1. /\ counter'[KeyOf(call[j])].n = counter[KeyOf(call[j])].n + 1
            /\ counter[KeyOf(call[j])].n = 0
            /\ counter'[KeyOf(call[j])].exp = counter[KeyOf(call[j])].exp
            /\ counter[KeyOf(call[j])].exp = Never
        BY <1>0, <3>1, ConsumeCall, AddedFits DEF FirstCounted, CountersHold
      <4> QED
        BY <3>1, <4>1
    <3>2. CASE call'[j] = call[j]
      <4>1. call[j].pc = "expire" /\ KeyOf(call[j]) \in Keys
        <5>1. call[j].tenant \in Tenants /\ call[j] \in CallType /\ call[j].pc = "expire"
          BY <1>0, <3>2 DEF CallsHold, RateLimitTypeOK
        <5> QED
          BY <5>1, KeyFits
      <4>2. counter[KeyOf(call[j])].n > 0 /\ counter[KeyOf(call[j])].exp = Never
        BY <1>d, <4>1
      <4>3. counter[KeyOf(call[j])].n \in Nat
        BY <1>0, <4>1 DEF CountType
      <4>4. CASE counter' = counter
        BY <3>2, <4>2, <4>4
      <4>5. CASE counter' = Added(key)
        <5>1. CASE KeyOf(call[j]) = key
          BY <1>0, <3>2, <4>2, <4>3, <4>5, <5>1, AddedFits
        <5>2. CASE KeyOf(call[j]) # key
          BY <1>0, <3>2, <4>1, <4>2, <4>5, <5>2, AddedFits
        <5> QED
          BY <5>1, <5>2
      <4>6. CASE counter' = Expiring(key) /\ call[k].pc = "expire"
                     /\ (CountedInMemory(k, ready) \/ Expire(k, ready))
        <5>1. j # k
          <6>1. PICK r \in CallType : Becomes(k, r) /\ r.pc # "expire"
            BY <1>0, <4>6, ConsumeCall DEF AnsweredWith
          <6> QED
            BY <1>0, <6>1, BecomesFacts
        <5>2. KeyOf(call[j]) # key
          BY <1>0, <2>2, <4>1, <4>6, <5>1 DEF OneExpires
        <5> QED
          BY <1>0, <3>2, <4>1, <4>2, <4>6, <5>2, ExpiringFits
      <4> QED
        BY <2>1, <2>2, <4>4, <4>5, <4>6
        DEF FirstCounted, CountedNext, IncrSentAgain, CountedInMemory, Expire
    <3> QED
      BY <3>1, <3>2, ExpiryBegins
  <2> HIDE DEF Due
  <2> QED
    BY <1>0, <2>3, <2>5, <2>6, <2>7, <2>8, <2>9
<1>5. CASE Tick
  <2>1. /\ now < MaxNow /\ now' = now + 1
        /\ counter' = [key \in Keys |-> IF Expired(counter[key], now + 1) THEN NoCount
                                                                          ELSE counter[key]]
        /\ UNCHANGED <<enabled, memIncr, call, faults, resent, crashes>>
    BY <1>5 DEF Tick
  <2>2. NoCount \in CountType
    BY DEF NoCount, CountType, Never
  <2>3. counter' \in [Keys -> CountType]
    BY <1>0, <2>1, <2>2
  <2>4. Due(counter', call')
    <3> SUFFICES ASSUME NEW j \in Calls, call[j].pc = "expire"
                 PROVE  counter'[KeyOf(call[j])] = counter[KeyOf(call[j])]
      BY <1>d, <2>1
    <3>1. call[j].tenant \in Tenants /\ call[j] \in CallType
      BY <1>0 DEF CallsHold, RateLimitTypeOK
    <3>2. KeyOf(call[j]) \in Keys
      BY <3>1, KeyFits
    <3>3. counter[KeyOf(call[j])].exp = Never
      BY <1>d
    <3> QED
      BY <2>1, <3>2, <3>3 DEF Expired
  <2>5. now' \in 0..MaxNow
    BY <1>0, <2>1
  <2> HIDE DEF Due
  <2> QED
    BY <1>0, <2>1, <2>3, <2>4, <2>5
<1>6. CASE Crash
  <2>1. /\ crashes' = crashes + 1 /\ memIncr' = [key \in Keys |-> NoCount]
        /\ UNCHANGED <<enabled, counter, now, faults, resent>>
        /\ \A j \in Calls : call'[j].pc # "expire"
    BY <1>0, <1>6, CrashCalls
  <2>2. NoCount \in CountType
    BY DEF NoCount, CountType, Never
  <2>3. crashes' \in 0..MaxCrashes /\ memIncr' \in [Keys -> CountType]
    BY <1>0, <1>6, <2>1, <2>2 DEF Crash
  <2> QED
    BY <1>0, <2>1, <2>3
<1> QED
  BY <1>0, <1>3, <1>4, <1>5, <1>6, LimitKinds

\* What tryConsume does to the counters: that of the message's key, and no other.
LEMMA ConsumeCounters ==
    ASSUME LimitInv, NEW k \in Calls, NEW ready \in BOOLEAN, TryConsume(k, ready)
    PROVE  LET key == KeyOf(call[k]) IN
           /\ key \in Keys /\ key[3] * WindowTicks <= now
           /\ UNCHANGED <<enabled, now, crashes>>
           /\ \A other \in Keys \ {key} : /\ counter'[other] = counter[other]
                                          /\ memIncr'[other] = memIncr[other]
                                          /\ resent'[other] = resent[other]
           /\ \/ UNCHANGED counter
              \/ /\ enabled /\ call[k].pc = "incr"
                 /\ counter'[key].n = counter[key].n + 1
                 /\ counter'[key].exp = counter[key].exp
              \/ /\ enabled /\ call[k].pc = "expire"
                 /\ counter'[key].n = counter[key].n
                 /\ counter'[key].exp = now + TtlTicks
           /\ UNCHANGED memIncr \/ memIncr'[key] = MemRow(key)
<1> DEFINE key == KeyOf(call[k])
<1>0. RateLimitTypeOK /\ CallsHold /\ CountersHold
      /\ memIncr \in [Keys -> CountType] /\ resent \in [Keys -> Nat]
  BY DEF LimitInv, RateLimitTypeOK
<1>1. FirstCounted(k) \/ CountedNext(k, ready) \/ IncrSentAgain(k) \/ CountedInMemory(k, ready)
          \/ Expire(k, ready)
  BY <1>0, ConsumeKinds
<1>2. key \in Keys /\ key[3] * WindowTicks <= now /\ call[k].pc \in {"incr", "expire"}
  BY <1>0, <1>1, ConsumeCall
<1>3. UNCHANGED <<enabled, now, crashes>>
  BY <1>1 DEF FirstCounted, CountedNext, IncrSentAgain, CountedInMemory, Expire, SamePlace
<1>4. call[k].pc = "expire" => enabled
  BY <1>0, <1>2 DEF RateLimitTypeOK, CountersHold
<1>5. /\ UNCHANGED counter \/ (enabled /\ call[k].pc = "incr" /\ counter' = Added(key))
             \/ (enabled /\ call[k].pc = "expire" /\ counter' = Expiring(key))
      /\ UNCHANGED memIncr \/ memIncr' = [memIncr EXCEPT ![key] = MemRow(key)]
      /\ UNCHANGED resent \/ resent' = [resent EXCEPT ![key] = @ + 1]
  BY <1>1, <1>4 DEF FirstCounted, CountedNext, IncrSentAgain, CountedInMemory, Expire
<1>6. /\ \A other \in Keys \ {key} : memIncr'[other] = memIncr[other] /\ resent'[other] = resent[other]
      /\ UNCHANGED memIncr \/ memIncr'[key] = MemRow(key)
  BY <1>0, <1>2, <1>5
<1>7. CASE UNCHANGED counter
  BY <1>2, <1>3, <1>6, <1>7
<1>8. CASE enabled /\ call[k].pc = "incr" /\ counter' = Added(key)
  BY <1>0, <1>2, <1>3, <1>6, <1>8, AddedFits
<1>9. CASE enabled /\ call[k].pc = "expire" /\ counter' = Expiring(key)
  BY <1>0, <1>2, <1>3, <1>6, <1>9, ExpiringFits
<1> QED
  BY <1>5, <1>7, <1>8, <1>9

LEMMA CountersStillHold == ASSUME LimitInv, [LimitNext]_limitVars PROVE CountersHold'
<1> USE LimitAssumption
<1>0. RateLimitTypeOK /\ CallsHold /\ CountersHold /\ now \in Nat
  BY DEF LimitInv, RateLimitTypeOK
<1>1. CASE CallerStep \/ UNCHANGED limitVars
  <2>1. UNCHANGED <<enabled, counter, memIncr>>
    BY <1>1 DEF CallerStep, CallStep, limitVars
  <2> QED
    BY <1>0, <2>1 DEF CountersHold
<1>2. ASSUME NEW k \in Calls, NEW ready \in BOOLEAN, TryConsume(k, ready) PROVE CountersHold'
  <2>1. PICK key : key = KeyOf(call[k])
    OBVIOUS
  <2>2. /\ key \in Keys /\ key[3] * WindowTicks <= now
        /\ UNCHANGED <<enabled, now, crashes>>
        /\ \A other \in Keys \ {key} : /\ counter'[other] = counter[other]
                                       /\ memIncr'[other] = memIncr[other]
        /\ \/ UNCHANGED counter
           \/ /\ enabled /\ call[k].pc = "incr"
              /\ counter'[key].n = counter[key].n + 1
              /\ counter'[key].exp = counter[key].exp
           \/ /\ enabled /\ call[k].pc = "expire"
              /\ counter'[key].n = counter[key].n
              /\ counter'[key].exp = now + TtlTicks
        /\ UNCHANGED memIncr \/ memIncr'[key] = MemRow(key)
    BY <1>2, <2>1, ConsumeCounters
  <2>3. /\ counter[key].n \in Nat /\ counter[key].exp \in Nat
        /\ memIncr[key].n \in Nat
    BY <1>0, <2>2 DEF RateLimitTypeOK, CountType
  <2>4. now + TtlTicks >= Until(key) /\ Until(key) \in Int
    <3>1. key[3] \in Int
      BY <2>2 DEF Keys, Slots
    <3>2. key[3] * WindowTicks \in Int
      BY <3>1
    <3> QED
      BY <1>0, <2>2, <3>2 DEF Until
  <2>5. call[k].pc = "expire" => counter[key].n > 0
    BY <1>0, <2>1 DEF RateLimitTypeOK
  <2>6. MemRow(key).exp >= Until(key)
    BY <1>0, <2>2, MemRowFits
  <2>7. /\ counter'[key].n = 0 => counter'[key].exp = Never
        /\ counter'[key].exp # Never => counter'[key].exp >= Until(key)
        /\ ~enabled => counter'[key].n = 0
    <3>1. /\ counter[key].n = 0 => counter[key].exp = Never
          /\ counter[key].exp # Never => counter[key].exp >= Until(key)
          /\ ~enabled => counter[key].n = 0
      BY <1>0, <2>2 DEF CountersHold
    <3>2. CASE UNCHANGED counter
      BY <3>1, <3>2
    <3>3. CASE enabled /\ counter'[key].n = counter[key].n + 1
               /\ counter'[key].exp = counter[key].exp
      BY <2>3, <3>1, <3>3
    <3>4. CASE enabled /\ call[k].pc = "expire" /\ counter'[key].n = counter[key].n
               /\ counter'[key].exp = now + TtlTicks
      BY <2>3, <2>4, <2>5, <3>1, <3>4
    <3> QED
      BY <2>2, <3>2, <3>3, <3>4
  <2>8. memIncr'[key].n > 0 => memIncr'[key].exp >= Until(key)
    BY <1>0, <2>2, <2>6 DEF CountersHold
  <2> QED
    BY <1>0, <2>2, <2>7, <2>8 DEF CountersHold, Until
<1>3. CASE Tick
  <2>1. /\ \A key \in Keys : counter'[key] \in {counter[key], NoCount}
        /\ UNCHANGED <<enabled, memIncr>>
    BY <1>3 DEF Tick
  <2>2. NoCount.n = 0 /\ NoCount.exp = Never
    BY DEF NoCount
  <2> QED
    BY <1>0, <2>1, <2>2 DEF CountersHold, Until
<1>4. CASE Crash
  <2>1. /\ memIncr' = [key \in Keys |-> NoCount] /\ UNCHANGED <<enabled, counter>>
    BY <1>4 DEF Crash
  <2>2. NoCount.n = 0
    BY DEF NoCount
  <2> QED
    BY <1>0, <2>1, <2>2 DEF CountersHold, Until
<1> QED
  BY <1>0, <1>1, <1>2, <1>3, <1>4, LimitKinds

\* The messages of a key only become more, and so do those among them that were counted.
LEMMA SetsGrow ==
    ASSUME LimitInv, [LimitNext]_limitVars, NEW key \in Keys
    PROVE  /\ IsFiniteSet(CountedFor(key)') /\ IsFiniteSet(ConsumedFor(key)')
           /\ IsFiniteSet(SettledFor(key)') /\ IsFiniteSet(Passing(key)')
           /\ CountedFor(key) \subseteq CountedFor(key)'
           /\ ConsumedFor(key) \subseteq ConsumedFor(key)'
           /\ SettledFor(key) \subseteq SettledFor(key)'
           /\ Cardinality(ConsumedFor(key)) \in Nat /\ Cardinality(ConsumedFor(key)') \in Nat
           /\ Cardinality(ConsumedFor(key)) <= Cardinality(ConsumedFor(key)')
           /\ Cardinality(SettledFor(key)) \in Nat /\ Cardinality(SettledFor(key)') \in Nat
           /\ Cardinality(SettledFor(key)) <= Cardinality(SettledFor(key)')
<1> USE LimitAssumption
<1>1. CallsGrow
  BY LimitCalls
<1>2. /\ IsFiniteSet(CountedFor(key)') /\ IsFiniteSet(ConsumedFor(key)')
      /\ IsFiniteSet(SettledFor(key)') /\ IsFiniteSet(Passing(key)')
  <2>1. /\ CountedFor(key)' \subseteq Calls /\ ConsumedFor(key)' \subseteq Calls
        /\ SettledFor(key)' \subseteq Calls /\ Passing(key)' \subseteq Calls
    BY DEF CountedFor, ConsumedFor, SettledFor, Passing
  <2> QED
    BY <2>1, Fewer
<1>3. \A k \in CountedFor(key) : k \in CountedFor(key)'
  BY <1>1, SameKey DEF CallsGrow, CountedFor
<1>4. /\ ConsumedFor(key) \subseteq ConsumedFor(key)' /\ SettledFor(key) \subseteq SettledFor(key)'
  BY <1>1, <1>3 DEF CallsGrow, CountedFor, ConsumedFor, SettledFor
<1> QED
  BY <1>2, <1>3, <1>4, Fewer

LEMMA OneMoreCounted ==
    ASSUME LimitInv, [LimitNext]_limitVars, NEW k \in Calls, NEW key \in Keys,
           call[k].counted, key = KeyOf(call[k])
    PROVE  /\ call[k].pc = "incr" /\ call'[k].pc # "incr" =>
                  Cardinality(ConsumedFor(key)) + 1 <= Cardinality(ConsumedFor(key)')
           /\ call[k].pc \in {"incr", "expire"} /\ call'[k].pc \notin {"incr", "expire"} =>
                  Cardinality(SettledFor(key)) + 1 <= Cardinality(SettledFor(key)')
<1> USE LimitAssumption
<1>1. k \in CountedFor(key)'
  BY SetsGrow DEF CountedFor
<1>2. ASSUME call[k].pc = "incr", call'[k].pc # "incr"
      PROVE  Cardinality(ConsumedFor(key)) + 1 <= Cardinality(ConsumedFor(key)')
  <2>1. ConsumedFor(key) \cup {k} \subseteq ConsumedFor(key)' /\ k \notin ConsumedFor(key)
    BY <1>1, <1>2, SetsGrow DEF ConsumedFor, CountedFor
  <2>2. IsFiniteSet(ConsumedFor(key)) /\ IsFiniteSet(ConsumedFor(key)')
    BY Fewer, SetsGrow DEF ConsumedFor, CountedFor
  <2>3. Cardinality(ConsumedFor(key) \cup {k}) = Cardinality(ConsumedFor(key)) + 1
    BY <2>1, <2>2, OneMore
  <2>4. Cardinality(ConsumedFor(key) \cup {k}) <= Cardinality(ConsumedFor(key)')
    BY <2>1, <2>2, Fewer
  <2> QED
    BY <2>3, <2>4
<1>3. ASSUME call[k].pc \in {"incr", "expire"}, call'[k].pc \notin {"incr", "expire"}
      PROVE  Cardinality(SettledFor(key)) + 1 <= Cardinality(SettledFor(key)')
  <2>1. SettledFor(key) \cup {k} \subseteq SettledFor(key)' /\ k \notin SettledFor(key)
    BY <1>1, <1>3, SetsGrow DEF SettledFor, CountedFor
  <2>2. IsFiniteSet(SettledFor(key)) /\ IsFiniteSet(SettledFor(key)')
    BY Fewer, SetsGrow DEF SettledFor, CountedFor
  <2>3. Cardinality(SettledFor(key) \cup {k}) = Cardinality(SettledFor(key)) + 1
    BY <2>1, <2>2, OneMore
  <2>4. Cardinality(SettledFor(key) \cup {k}) <= Cardinality(SettledFor(key)')
    BY <2>1, <2>2, Fewer
  <2> QED
    BY <2>3, <2>4
<1> QED
  BY <1>2, <1>3

LEMMA CountsStayMessages == ASSUME LimitInv, [LimitNext]_limitVars PROVE CountsAreMessages'
<1> USE LimitAssumption
<1>0. /\ RateLimitTypeOK /\ CallsHold /\ CountersHold
      /\ counter \in [Keys -> CountType] /\ memIncr \in [Keys -> CountType]
      /\ resent \in [Keys -> Nat]
  BY DEF LimitInv, RateLimitTypeOK
<1>n. \A key \in Keys : counter[key].n \in Nat /\ memIncr[key].n \in Nat /\ resent[key] \in Nat
  BY <1>0 DEF CountType
<1>a. \A key \in Keys : /\ counter[key].n <= Cardinality(ConsumedFor(key)) + resent[key]
                        /\ memIncr[key].n <= Cardinality(SettledFor(key))
  BY DEF LimitInv, CountsAreMessages
<1> SUFFICES ASSUME NEW key \in Keys
             PROVE  /\ counter'[key].n <= Cardinality(ConsumedFor(key)') + resent'[key]
                    /\ memIncr'[key].n <= Cardinality(SettledFor(key)')
  BY DEF CountsAreMessages
<1>b. /\ Cardinality(ConsumedFor(key)) \in Nat /\ Cardinality(ConsumedFor(key)') \in Nat
      /\ Cardinality(ConsumedFor(key)) <= Cardinality(ConsumedFor(key)')
      /\ Cardinality(SettledFor(key)) \in Nat /\ Cardinality(SettledFor(key)') \in Nat
      /\ Cardinality(SettledFor(key)) <= Cardinality(SettledFor(key)')
  BY SetsGrow
<1>1. CASE /\ counter'[key] \in {counter[key], NoCount}
           /\ memIncr'[key] \in {memIncr[key], NoCount}
           /\ UNCHANGED resent
  <2>1. NoCount.n = 0
    BY DEF NoCount
  <2>2. counter'[key].n <= counter[key].n /\ memIncr'[key].n <= memIncr[key].n
        /\ counter'[key].n \in Nat /\ memIncr'[key].n \in Nat
    BY <1>1, <1>n, <2>1
  <2> QED
    BY <1>1, <1>a, <1>b, <1>n, <2>2
<1>2. ASSUME NEW k \in Calls, NEW ready \in BOOLEAN, TryConsume(k, ready), key = KeyOf(call[k])
      PROVE  /\ counter'[key].n <= Cardinality(ConsumedFor(key)') + resent'[key]
             /\ memIncr'[key].n <= Cardinality(SettledFor(key)')
  <2>1. FirstCounted(k) \/ CountedNext(k, ready) \/ IncrSentAgain(k) \/ CountedInMemory(k, ready)
            \/ Expire(k, ready)
    BY <1>0, <1>2, ConsumeKinds
  <2>2. /\ \/ counter'[key].n = counter[key].n
           \/ call[k].pc = "incr" /\ counter'[key].n = counter[key].n + 1
        /\ UNCHANGED memIncr \/ memIncr'[key] = MemRow(key)
        /\ key[3] * WindowTicks <= now
    BY <1>2, ConsumeCounters
  <2>3. call[k].counted /\ call[k].pc \in {"incr", "expire"}
    BY <1>0, <2>1, ConsumeCall
  <2>4. MemRow(key).n \in Nat /\ MemRow(key).n <= memIncr[key].n + 1
    <3>1. MemRow(key) \in CountType /\ MemRow(key).n <= memIncr[key].n + 1
      BY <1>0, <2>2, MemRowFits
    <3> QED
      BY <3>1 DEF CountType
  <2>5. CASE IncrSentAgain(k)
    <3>1. resent'[key] = resent[key] + 1 /\ UNCHANGED memIncr
      BY <1>0, <1>2, <2>5 DEF IncrSentAgain
    <3> QED
      BY <1>a, <1>b, <1>n, <2>2, <3>1
  <2>6. CASE FirstCounted(k)
    <3>1. PICK r \in CallType : Becomes(k, r) /\ r.pc = "expire"
      BY <1>0, <2>6, ConsumeCall
    <3>2. call'[k].pc = "expire" /\ call[k].pc = "incr" /\ UNCHANGED <<memIncr, resent>>
      BY <1>0, <2>6, <3>1, BecomesFacts DEF FirstCounted
    <3>3. Cardinality(ConsumedFor(key)) + 1 <= Cardinality(ConsumedFor(key)')
      BY <1>2, <2>3, <3>2, OneMoreCounted
    <3> QED
      BY <1>a, <1>b, <1>n, <2>2, <3>2, <3>3
  <2>7. CASE CountedNext(k, ready) \/ CountedInMemory(k, ready) \/ Expire(k, ready)
    <3>1. PICK r \in CallType :
              Becomes(k, r) /\ r.pc \in {"blocked", "handled", "allowed", "dropped"}
      BY <1>0, <2>7, ConsumeCall DEF AnsweredWith
    <3>2. call'[k].pc \notin {"incr", "expire"}
      BY <1>0, <3>1, BecomesFacts
    <3>3. UNCHANGED resent
      BY <2>7 DEF CountedNext, CountedInMemory, Expire
    <3>4. call[k].pc = "incr" => Cardinality(ConsumedFor(key)) + 1 <= Cardinality(ConsumedFor(key)')
      BY <1>2, <2>3, <3>2, OneMoreCounted
    <3>5. Cardinality(SettledFor(key)) + 1 <= Cardinality(SettledFor(key)')
      BY <1>2, <2>3, <3>2, OneMoreCounted
    <3>6. counter'[key].n <= Cardinality(ConsumedFor(key)') + resent[key]
      BY <1>a, <1>b, <1>n, <2>2, <3>4
    <3>7. memIncr'[key].n <= Cardinality(SettledFor(key)')
      <4>1. memIncr[key].n <= Cardinality(SettledFor(key)) /\ memIncr[key].n \in Nat
        BY <1>a, <1>n
      <4> QED
        BY <1>b, <2>2, <2>4, <3>5, <4>1
    <3> QED
      BY <3>3, <3>6, <3>7
  <2> QED
    BY <2>1, <2>5, <2>6, <2>7
<1>3. ASSUME NEW k \in Calls, NEW ready \in BOOLEAN, TryConsume(k, ready), key # KeyOf(call[k])
      PROVE  /\ counter'[key] = counter[key] /\ memIncr'[key] = memIncr[key]
             /\ resent'[key] = resent[key]
  BY <1>3, ConsumeCounters
<1>4. ASSUME NEW k \in Calls, NEW ready \in BOOLEAN, TryConsume(k, ready), key # KeyOf(call[k])
      PROVE  /\ counter'[key].n <= Cardinality(ConsumedFor(key)') + resent'[key]
             /\ memIncr'[key].n <= Cardinality(SettledFor(key)')
  BY <1>3, <1>4, <1>a, <1>b, <1>n
<1>5. CallerStep \/ Tick \/ Crash \/ UNCHANGED limitVars =>
          /\ counter'[key] \in {counter[key], NoCount}
          /\ memIncr'[key] \in {memIncr[key], NoCount}
          /\ UNCHANGED resent
  BY DEF CallerStep, CallStep, Tick, Crash, limitVars
<1> QED
  BY <1>0, <1>1, <1>2, <1>4, <1>5, LimitKinds

\* A message that is refused was counted after as many of its key as the limit allows.
LEMMA RefusalsStay == ASSUME LimitInv, [LimitNext]_limitVars PROVE RefusedForOwnTraffic'
<1> USE LimitAssumption
<1>0. /\ RateLimitTypeOK /\ CallsHold /\ CountersHold
      /\ counter \in [Keys -> CountType] /\ memIncr \in [Keys -> CountType]
      /\ resent \in [Keys -> Nat] /\ call \in [Calls -> CallType]
  BY DEF LimitInv, RateLimitTypeOK
<1>t. RateLimitTypeOK' /\ CallsHold' /\ CountsAreMessages' /\ call' \in [Calls -> CallType]
  BY LimitTypesKept, LimitCalls, CountsStayMessages
<1> DEFINE OfOneKey(j) ==
        {k \in Calls : /\ call'[k].counted
                       /\ KindOf(call'[k]) = KindOf(call'[j])
                       /\ call'[k].tenant = call'[j].tenant
                       /\ call'[k].slot = call'[j].slot}
<1> SUFFICES ASSUME NEW j \in Calls, call'[j].pc = "blocked"
             PROVE  Cardinality(OfOneKey(j)) + resent'[KeyOf(call'[j])] > MaxOf[KindOf(call'[j])]
  BY DEF RefusedForOwnTraffic, KeyOf, KindOf, Counted
<1>1. PICK key \in Keys : key = KeyOf(call'[j]) /\ key[1] = KindOf(call'[j])
  <2>1. call'[j].tenant \in Tenants /\ call'[j] \in CallType
    BY <1>t DEF CallsHold
  <2> QED
    BY <2>1, KeyFits
<1>2. OfOneKey(j) = CountedFor(key)'
  <2>1. \A k \in Calls : KeyOf(call'[k]) = key <=> /\ KindOf(call'[k]) = KindOf(call'[j])
                                                  /\ call'[k].tenant = call'[j].tenant
                                                  /\ call'[k].slot = call'[j].slot
    BY <1>1 DEF KeyOf
  <2>2. CountedFor(key)' = {k \in Calls : call'[k].counted /\ KeyOf(call'[k]) = key}
    BY DEF CountedFor, KeyOf, KindOf
  <2> QED
    BY <2>1, <2>2
<1> SUFFICES Cardinality(CountedFor(key)') + resent'[key] > MaxFor(key)
  BY <1>1, <1>2 DEF MaxFor
<1>m. MaxFor(key) \in Nat /\ resent[key] \in Nat /\ resent'[key] \in Nat
  <2>1. resent' \in [Keys -> Nat]
    BY <1>t DEF RateLimitTypeOK
  <2>2. MaxOf[key[1]] \in Nat
    BY <1>1 DEF Keys
  <2> QED
    BY <1>0, <2>1, <2>2 DEF MaxFor
<1>c. /\ CountedFor(key) \subseteq CountedFor(key)' /\ IsFiniteSet(CountedFor(key)')
      /\ Cardinality(CountedFor(key)) <= Cardinality(CountedFor(key)')
      /\ Cardinality(CountedFor(key)) \in Nat /\ Cardinality(CountedFor(key)') \in Nat
  BY SetsGrow, Fewer
<1>d. Cardinality(ConsumedFor(key)') <= Cardinality(CountedFor(key)')
      /\ Cardinality(SettledFor(key)') <= Cardinality(CountedFor(key)')
      /\ Cardinality(ConsumedFor(key)') \in Nat /\ Cardinality(SettledFor(key)') \in Nat
  <2>1. ConsumedFor(key)' \subseteq CountedFor(key)' /\ SettledFor(key)' \subseteq CountedFor(key)'
    BY DEF ConsumedFor, SettledFor
  <2> QED
    BY <1>c, <2>1, Fewer
<1>e. /\ counter'[key].n <= Cardinality(ConsumedFor(key)') + resent'[key]
      /\ memIncr'[key].n <= Cardinality(SettledFor(key)')
      /\ counter'[key].n \in Nat /\ memIncr'[key].n \in Nat
  <2>1. counter'[key] \in CountType /\ memIncr'[key] \in CountType
    BY <1>t DEF RateLimitTypeOK
  <2> QED
    BY <1>t, <2>1 DEF CountsAreMessages, CountType
<1>3. CASE call[j].pc = "blocked"
  <2>1. /\ call[j].counted /\ call[j].tenant \in Tenants
        /\ KeyOf(call'[j]) = KeyOf(call[j])
    <3>1. call[j].counted /\ call[j].tenant \in Tenants
      BY <1>0, <1>3 DEF CallsHold
    <3>2. call'[j].message = call[j].message /\ call'[j].tenant = call[j].tenant
          /\ call'[j].slot = call[j].slot
      BY <3>1, LimitCalls DEF CallsGrow
    <3> QED
      BY <3>1, <3>2, SameKey
  <2>2. Cardinality(CountedFor(key)) + resent[key] > MaxFor(key)
    <3>1. Cardinality(Counted(KindOf(call[j]), call[j].tenant, call[j].slot))
              + resent[KeyOf(call[j])] > MaxOf[KindOf(call[j])]
      BY <1>3 DEF LimitInv, RefusedForOwnTraffic, KeyOf
    <3>2. Counted(KindOf(call[j]), call[j].tenant, call[j].slot) = CountedFor(key)
          /\ KindOf(call[j]) = key[1]
      BY <1>1, <2>1 DEF Counted, CountedFor, KeyOf
    <3> QED
      BY <1>1, <2>1, <3>1, <3>2 DEF MaxFor
  <2>3. resent'[key] >= resent[key]
    <3>1. ASSUME NEW k \in Calls, NEW ready \in BOOLEAN, TryConsume(k, ready)
          PROVE  resent'[key] >= resent[key]
      <4>1. FirstCounted(k) \/ CountedNext(k, ready) \/ IncrSentAgain(k) \/ CountedInMemory(k, ready)
                \/ Expire(k, ready)
        BY <1>0, <3>1, ConsumeKinds
      <4>2. UNCHANGED resent \/ resent' = [resent EXCEPT ![KeyOf(call[k])] = @ + 1]
        BY <4>1 DEF FirstCounted, CountedNext, IncrSentAgain, CountedInMemory, Expire
      <4> QED
        BY <1>0, <1>m, <4>2
    <3>2. CallerStep \/ Tick \/ Crash \/ UNCHANGED limitVars => UNCHANGED resent
      BY DEF CallerStep, CallStep, Tick, Crash, limitVars
    <3> QED
      BY <1>0, <1>m, <3>1, <3>2, LimitKinds
  <2> QED
    BY <1>c, <1>m, <2>2, <2>3
<1>4. CASE call[j].pc # "blocked"
  <2>1. ASSUME NEW k \in Calls, NEW ready \in BOOLEAN,
               CountedNext(k, ready) \/ CountedInMemory(k, ready) \/ Expire(k, ready),
               TryConsume(k, ready)
        PROVE  Cardinality(CountedFor(key)') + resent'[key] > MaxFor(key)
    <3>1. PICK r \in CallType :
              Becomes(k, r) /\ r.message = call[k].message /\ r.tenant = call[k].tenant
                  /\ r.slot = call[k].slot
      BY <1>0, <2>1, ConsumeCall DEF AnsweredWith
    <3>2. j = k /\ call'[k] = r
      BY <1>0, <1>4, <3>1, BecomesFacts
    <3>3. KeyOf(call[k]) = key
      BY <1>1, <3>1, <3>2, SameKey
    <3>4. ASSUME NEW n, AnsweredWith(k, n) PROVE ~(n <= MaxFor(key))
      <4>1. PICK q \in CallType : Becomes(k, q) /\ (q.pc = "blocked" <=> ~(n <= MaxFor(KeyOf(call[k]))))
        BY <3>4 DEF AnsweredWith
      <4>2. q = call'[k]
        BY <1>0, <4>1, BecomesFacts
      <4> QED
        BY <3>2, <3>3, <4>1, <4>2
    <3>5. call[k].counted /\ key[3] * WindowTicks <= now
      BY <1>0, <2>1, <3>3, ConsumeCall
    <3>6. CASE CountedNext(k, ready)
      <4>1. ~(counter[key].n + 1 <= MaxFor(key))
        BY <1>0, <3>3, <3>4, <3>6, ConsumeCall
      <4>2. counter'[key].n = counter[key].n + 1
        BY <1>0, <3>3, <3>6, AddedFits DEF CountedNext
      <4>3. counter'[key].n > MaxFor(key)
        BY <1>e, <1>m, <4>1, <4>2
      <4> QED
        BY <1>c, <1>d, <1>e, <1>m, <4>3
    <3>7. CASE CountedInMemory(k, ready)
      <4>1. ~(MemRow(key).n <= MaxFor(key))
        BY <1>0, <3>3, <3>4, <3>7, ConsumeCall
      <4>2. memIncr'[key] = MemRow(key)
        BY <1>0, <3>3, <3>7 DEF CountedInMemory
      <4>3. memIncr'[key].n > MaxFor(key)
        BY <1>e, <1>m, <4>1, <4>2
      <4> QED
        BY <1>c, <1>d, <1>e, <1>m, <4>3
    <3>8. CASE Expire(k, ready)
      <4>1. ~(1 <= MaxFor(key))
        BY <1>0, <3>4, <3>8, ConsumeCall
      <4>2. k \in CountedFor(key)'
        <5>1. k \in CountedFor(key)
          BY <3>3, <3>5 DEF CountedFor
        <5> QED
          BY <1>c, <5>1
      <4>3. Cardinality(CountedFor(key)') # 0
        BY <1>c, <4>2, FS_EmptySet
      <4> QED
        BY <1>c, <1>m, <4>1, <4>3
    <3> QED
      BY <2>1, <3>6, <3>7, <3>8
  <2>2. ASSUME NEW k \in Calls, FirstCounted(k) PROVE FALSE
    <3>1. PICK r \in CallType : Becomes(k, r) /\ r.pc = "expire"
      BY <1>0, <2>2, ConsumeCall
    <3> QED
      BY <1>0, <1>4, <3>1, BecomesFacts
  <2>3. ASSUME NEW k \in Calls, IncrSentAgain(k) PROVE FALSE
    BY <1>4, <2>3 DEF IncrSentAgain
  <2>4. ASSUME CallerStep PROVE FALSE
    <3>1. PICK k \in Calls, c \in CallType : CallStep(k, c) /\ (Comes(k, c) \/ GoesOn(k, c))
      BY <2>4 DEF CallerStep
    <3>2. call'[k] = c /\ \A i \in Calls \ {k} : call'[i] = call[i]
      BY <1>0, <3>1, BecomesFacts DEF CallStep, Becomes
    <3> QED
      BY <1>4, <3>1, <3>2 DEF Comes, GoesOn
  <2>5. ASSUME Crash PROVE FALSE
    BY <1>0, <1>4, <2>5, CrashCalls
  <2>6. ASSUME Tick \/ UNCHANGED limitVars PROVE FALSE
    BY <1>4, <2>6 DEF Tick, limitVars
  <2> QED
    BY <1>0, <2>1, <2>2, <2>3, <2>4, <2>5, <2>6, LimitKinds, ConsumeKinds
<1> QED
  BY <1>3, <1>4

\* The keys within the bounds are finitely many.
LEMMA KeysAreFinite == IsFiniteSet(Keys)
<1> USE LimitAssumption
<1> DEFINE Pairs == (Kinds \X Tenants) \X Slots
           f == [p \in Pairs |-> <<p[1][1], p[1][2], p[2]>>]
<1>1. IsFiniteSet(Kinds)
  <2>1. Kinds = ({} \cup {"webhook"}) \cup {"outbound"}
    BY DEF Kinds
  <2>2. IsFiniteSet({})
    BY FS_EmptySet
  <2> QED
    BY <2>1, <2>2, OneMore
<1>2. IsFiniteSet(Slots)
  <2>1. 0 \in Int /\ MaxNow \div WindowTicks \in Int
    OBVIOUS
  <2>2. IsFiniteSet(0..(MaxNow \div WindowTicks))
    BY <2>1, FS_Interval
  <2> QED
    BY <2>2 DEF Slots
<1>3. IsFiniteSet(Pairs)
  <2>1. IsFiniteSet(Kinds \X Tenants)
    BY <1>1, FS_Product
  <2> QED
    BY <1>2, <2>1, FS_Product
<1>4. f \in [Pairs -> Keys]
  BY DEF Keys
<1>5. \A key \in Keys : \E p \in Pairs : f[p] = key
  <2> SUFFICES ASSUME NEW key \in Keys PROVE \E p \in Pairs : f[p] = key
    OBVIOUS
  <2>1. <<<<key[1], key[2]>>, key[3]>> \in Pairs
    BY DEF Keys
  <2>2. f[<<<<key[1], key[2]>>, key[3]>>] = key
    BY <2>1 DEF Keys
  <2> QED
    BY <2>1, <2>2
<1>6. f \in Surjection(Pairs, Keys)
  BY <1>4, <1>5 DEF Surjection
<1> QED
  BY <1>3, <1>6, FS_Surjection

\* A message that is to give its counter an expiry does it next, or the process dies.
LEMMA ExpiryComes ==
    ASSUME LimitInv, [LimitNext]_limitVars, NEW j \in Calls, call[j].pc = "expire", ~Crash
    PROVE  \/ call'[j] = call[j]
           \/ \E ready \in BOOLEAN : TryConsume(j, ready) /\ ~IncrSentAgain(j)
<1>0. RateLimitTypeOK /\ CallsHold /\ CountersHold
  BY DEF LimitInv
<1>1. CASE CallerStep
  <2>1. PICK k \in Calls, c \in CallType : CallStep(k, c) /\ (Comes(k, c) \/ GoesOn(k, c))
    BY <1>1 DEF CallerStep
  <2>2. call'[k] = c /\ \A i \in Calls \ {k} : call'[i] = call[i]
    BY <1>0, <2>1, BecomesFacts DEF CallStep, Becomes
  <2>3. call[j].counted
    BY <1>0 DEF CallsHold
  <2> QED
    BY <2>1, <2>2, <2>3 DEF Comes, GoesOn
<1>2. ASSUME NEW k \in Calls, NEW ready \in BOOLEAN, TryConsume(k, ready), k # j
      PROVE  call'[j] = call[j]
  <2>1. CASE IncrSentAgain(k)
    BY <2>1 DEF IncrSentAgain
  <2>2. CASE FirstCounted(k) \/ CountedNext(k, ready) \/ CountedInMemory(k, ready) \/ Expire(k, ready)
    <3>1. \E r \in CallType : Becomes(k, r)
      BY <1>0, <2>2, ConsumeCall DEF AnsweredWith
    <3> QED
      BY <1>0, <1>2, <3>1, BecomesFacts
  <2> QED
    BY <1>0, <1>2, <2>1, <2>2, ConsumeKinds
<1>3. ~IncrSentAgain(j)
  BY DEF IncrSentAgain
<1> QED
  BY <1>0, <1>1, <1>2, <1>3, LimitKinds DEF Tick, limitVars

\* A counter without an expiry that nobody is about to give it takes a command that fails.
Orphans ==
    {key \in Keys : /\ counter[key].n > 0 /\ counter[key].exp = Never
                    /\ ~\E k \in Calls : call[k].pc = "expire" /\ KeyOf(call[k]) = key}

LEMMA OrphansComeOfFaults ==
    ASSUME LimitInv, [LimitNext]_limitVars, ~Crash
    PROVE  \/ Orphans' \subseteq Orphans
           \/ faults' = faults + 1 /\ \E key \in Keys : Orphans' \subseteq Orphans \cup {key}
<1>0. RateLimitTypeOK /\ CallsHold /\ CountersHold /\ OneExpires
  BY DEF LimitInv
<1>o. Orphans' = {key \in Keys :
                    /\ counter'[key].n > 0 /\ counter'[key].exp = Never
                    /\ ~\E k \in Calls : call'[k].pc = "expire" /\ KeyOf(call'[k]) = key}
  BY DEF Orphans, KeyOf, KindOf
<1>1. ASSUME NEW key \in Keys, key \in Orphans', counter'[key] = counter[key],
             \A j \in Calls : call[j].pc = "expire" /\ KeyOf(call[j]) = key => call'[j] = call[j]
      PROVE  key \in Orphans
  BY <1>o, <1>1 DEF Orphans
<1>2. CASE CallerStep \/ UNCHANGED limitVars
  <2>1. UNCHANGED counter
    BY <1>2 DEF CallerStep, CallStep, limitVars
  <2>2. ASSUME NEW j \in Calls, call[j].pc = "expire" PROVE call'[j] = call[j]
    <3>1. CASE CallerStep
      <4>1. PICK k \in Calls, c \in CallType : CallStep(k, c) /\ (Comes(k, c) \/ GoesOn(k, c))
        BY <3>1 DEF CallerStep
      <4>2. \A i \in Calls \ {k} : call'[i] = call[i]
        BY <1>0, <4>1, BecomesFacts DEF CallStep, Becomes
      <4>3. call[j].counted
        BY <1>0, <2>2 DEF CallsHold
      <4> QED
        BY <2>2, <4>1, <4>2, <4>3 DEF Comes, GoesOn
    <3> QED
      BY <1>2, <3>1 DEF limitVars
  <2>3. Orphans' \subseteq Orphans
    BY <1>1, <1>o, <2>1, <2>2
  <2> QED
    BY <2>3
<1>3. ASSUME NEW k \in Calls, NEW ready \in BOOLEAN, TryConsume(k, ready)
      PROVE  \/ Orphans' \subseteq Orphans
             \/ faults' = faults + 1 /\ \E key \in Keys : Orphans' \subseteq Orphans \cup {key}
  <2>1. PICK key \in Keys : key = KeyOf(call[k])
    BY <1>3, ConsumeCounters
  <2>2. FirstCounted(k) \/ CountedNext(k, ready) \/ IncrSentAgain(k) \/ CountedInMemory(k, ready)
            \/ Expire(k, ready)
    BY <1>0, <1>3, ConsumeKinds
  <2>3. \A j \in Calls \ {k} : call'[j] = call[j]
    <3>1. CASE IncrSentAgain(k)
      BY <3>1 DEF IncrSentAgain
    <3>2. CASE FirstCounted(k) \/ CountedNext(k, ready) \/ CountedInMemory(k, ready) \/ Expire(k, ready)
      <4>1. \E r \in CallType : Becomes(k, r)
        BY <1>0, <3>2, ConsumeCall DEF AnsweredWith
      <4> QED
        BY <1>0, <4>1, BecomesFacts
    <3> QED
      BY <2>2, <3>1, <3>2
  <2>4. Orphans' \subseteq Orphans \cup {key}
    <3> SUFFICES ASSUME NEW other \in Orphans', other # key PROVE other \in Orphans
      OBVIOUS
    <3>1. other \in Keys
      BY <1>o
    <3>2. counter'[other] = counter[other]
      BY <1>3, <2>1, <3>1, ConsumeCounters
    <3>3. \A j \in Calls : call[j].pc = "expire" /\ KeyOf(call[j]) = other => call'[j] = call[j]
      BY <2>1, <2>3
    <3> QED
      BY <1>1, <3>1, <3>2, <3>3
  <2>5. CASE IncrSentAgain(k) \/ (CountedInMemory(k, ready) /\ enabled)
    <3>1. faults' = faults + 1
      BY <2>5 DEF IncrSentAgain, CountedInMemory
    <3> QED
      BY <2>4, <3>1
  <2>6. CASE CountedInMemory(k, ready) /\ ~enabled
    <3>1. UNCHANGED counter
      BY <2>6 DEF CountedInMemory
    <3>2. counter'[key].n = 0
      BY <1>0, <2>6, <3>1 DEF CountersHold
    <3>3. key \notin Orphans'
      BY <1>o, <3>2
    <3> QED
      BY <2>4, <3>3
  <2>7. CASE FirstCounted(k)
    <3>1. PICK r \in CallType :
              /\ Becomes(k, r) /\ r.pc = "expire"
              /\ r.message = call[k].message /\ r.tenant = call[k].tenant /\ r.slot = call[k].slot
      BY <1>0, <2>7, ConsumeCall
    <3>2. call'[k] = r /\ KeyOf(r) = key
      BY <1>0, <2>1, <3>1, BecomesFacts, SameKey
    <3>3. key \notin Orphans'
      BY <1>o, <3>1, <3>2
    <3> QED
      BY <2>4, <3>3
  <2>8. CASE CountedNext(k, ready)
    <3>1. call[k].pc = "incr" /\ counter' = Added(key) /\ counter[key].n # 0
      BY <2>1, <2>8 DEF CountedNext
    <3>2. counter'[key].exp = counter[key].exp /\ counter[key].n \in Nat
      BY <1>0, <3>1, AddedFits DEF RateLimitTypeOK, CountType
    <3>3. key \in Orphans' => key \in Orphans
      BY <1>o, <2>3, <3>1, <3>2 DEF Orphans
    <3> QED
      BY <2>4, <3>3
  <2>9. CASE Expire(k, ready)
    <3>1. counter'[key].exp # Never
      BY <1>0, <2>1, <2>9, ExpiringFits DEF Expire
    <3>2. key \notin Orphans'
      BY <1>o, <3>1
    <3> QED
      BY <2>4, <3>2
  <2> QED
    BY <2>2, <2>5, <2>6, <2>7, <2>8, <2>9
<1>4. CASE Tick
  <2>1. UNCHANGED call /\ \A key \in Keys : counter'[key] \in {counter[key], NoCount}
    BY <1>4 DEF Tick
  <2>2. NoCount.n = 0
    BY DEF NoCount
  <2>3. Orphans' \subseteq Orphans
    BY <1>1, <1>o, <2>1, <2>2
  <2> QED
    BY <2>3
<1> QED
  BY <1>0, <1>2, <1>3, <1>4, LimitKinds

LEMMA CountersStillExpire == ASSUME LimitInv, [LimitNext]_limitVars PROVE CountersExpire'
<1>0. faults \in 0..MaxFaults /\ MaxFaults \in Nat /\ crashes \in 0..MaxCrashes /\ MaxCrashes \in Nat
      /\ RateLimitTypeOK /\ CallsHold
  BY LimitAssumption DEF LimitInv, RateLimitTypeOK
<1>e. CountersExpire <=> (crashes = 0 => Cardinality(Orphans) <= faults)
  BY DEF CountersExpire, Orphans
<1>f. CountersExpire' <=> (crashes' = 0 => Cardinality(Orphans') <= faults')
  BY DEF CountersExpire, Orphans
<1>1. CASE Crash
  <2>1. crashes' # 0
    BY <1>0, <1>1 DEF Crash
  <2> QED
    BY <1>f, <2>1
<1>2. CASE ~Crash
  <2>1. crashes' = crashes /\ faults' \in {faults, faults + 1}
    <3>1. ASSUME NEW k \in Calls, NEW ready \in BOOLEAN, TryConsume(k, ready)
          PROVE  crashes' = crashes /\ faults' \in {faults, faults + 1}
      BY <3>1 DEF TryConsume, Incr, IncrSentAgain, IncrFails, Expire, ExpireFails, IncrInMemory
    <3> QED
      BY <1>0, <1>2, <3>1, LimitKinds DEF CallerStep, CallStep, Tick, limitVars
  <2>2. IsFiniteSet(Orphans) /\ IsFiniteSet(Orphans')
    <3>1. Orphans \subseteq Keys /\ Orphans' \subseteq Keys
      BY DEF Orphans
    <3> QED
      BY <3>1, KeysAreFinite, Fewer
  <2>3. Cardinality(Orphans) \in Nat /\ Cardinality(Orphans') \in Nat
    BY <2>2, Fewer
  <2>4. CASE Orphans' \subseteq Orphans
    <3>1. Cardinality(Orphans') <= Cardinality(Orphans)
      BY <2>2, <2>4, Fewer
    <3>2. CountersExpire
      BY DEF LimitInv
    <3> QED
      BY <1>0, <1>e, <1>f, <2>1, <2>3, <3>1, <3>2
  <2>5. ASSUME NEW key \in Keys, faults' = faults + 1, Orphans' \subseteq Orphans \cup {key}
        PROVE  CountersExpire'
    <3>1. Cardinality(Orphans') <= Cardinality(Orphans \cup {key})
          /\ Cardinality(Orphans \cup {key}) \in Nat
      BY <2>2, <2>5, OneMore, Fewer
    <3>2. Cardinality(Orphans \cup {key}) <= Cardinality(Orphans) + 1
      BY <2>2, OneMore
    <3>3. CountersExpire
      BY DEF LimitInv
    <3> QED
      BY <1>0, <1>e, <1>f, <2>1, <2>3, <2>5, <3>1, <3>2, <3>3
  <2> QED
    BY <1>2, <2>4, <2>5, OrphansComeOfFaults
<1> QED
  BY <1>1, <1>2

LEMMA LeastFacts ==
    ASSUME NEW a \in Nat, NEW max \in Nat
    PROVE  /\ Least(a, max) \in Nat /\ Least(a, max) <= max /\ Least(0, max) = 0
           /\ Least(a + 1, max) = Least(a, max) + (IF a + 1 <= max THEN 1 ELSE 0)
           /\ \A b \in Nat : a <= b => Least(a, max) <= Least(b, max)
  BY DEF Least

\* Fewer or one more of what gets through.
LEMMA PassingFacts ==
    ASSUME LimitInv, [LimitNext]_limitVars, NEW key \in Keys
    PROVE  /\ Cardinality(Passing(key)) \in Nat /\ Cardinality(Passing(key)') \in Nat
           /\ \A j \in Passing(key)' : call'[j] = call[j] => j \in Passing(key)
           /\ Passing(key)' \subseteq Passing(key) =>
                  Cardinality(Passing(key)') <= Cardinality(Passing(key))
           /\ \A k \in Calls : Passing(key)' \subseteq Passing(key) \cup {k} =>
                  Cardinality(Passing(key)') <= Cardinality(Passing(key)) + 1
<1>1. IsFiniteSet(Passing(key)) /\ IsFiniteSet(Passing(key)')
  <2>1. Passing(key) \subseteq Calls
    BY DEF Passing, CountedFor
  <2> QED
    BY <2>1, LimitAssumption, Fewer, SetsGrow
<1>2. Cardinality(Passing(key)) \in Nat /\ Cardinality(Passing(key)') \in Nat
  BY <1>1, Fewer
<1>3. ASSUME NEW j \in Passing(key)', call'[j] = call[j] PROVE j \in Passing(key)
  <2>1. /\ j \in Calls /\ call'[j].counted /\ KeyOf(call'[j]) = key
        /\ call'[j].passed \/ (call'[j].pc = "expire" /\ MaxFor(key) > 0)
    BY DEF Passing, CountedFor, KeyOf, KindOf, MaxFor
  <2> QED
    BY <1>3, <2>1 DEF Passing, CountedFor
<1>4. ASSUME NEW k \in Calls, Passing(key)' \subseteq Passing(key) \cup {k}
      PROVE  Cardinality(Passing(key)') <= Cardinality(Passing(key)) + 1
  <2>1. /\ Cardinality(Passing(key)') <= Cardinality(Passing(key) \cup {k})
        /\ Cardinality(Passing(key) \cup {k}) \in Nat
        /\ Cardinality(Passing(key) \cup {k}) <= Cardinality(Passing(key)) + 1
    BY <1>1, <1>4, OneMore, Fewer
  <2> QED
    BY <1>2, <2>1
<1>5. Passing(key)' \subseteq Passing(key) => Cardinality(Passing(key)') <= Cardinality(Passing(key))
  BY <1>1, Fewer
<1> QED
  BY <1>2, <1>3, <1>4, <1>5

\* Nothing new gets through and no counter shrinks.
LEMMA FitsIfNothingNew ==
    ASSUME LimitInv, [LimitNext]_limitVars, NEW key \in Keys, NEW g \in 0..crashes, Fits(key, g),
           Passing(key)' \subseteq Passing(key),
           counter'[key].n >= counter[key].n, memIncr'[key].n = memIncr[key].n,
           UNCHANGED enabled, faults' >= faults
    PROVE  Fits(key, g)'
<1>1. /\ counter[key] \in CountType /\ counter'[key] \in CountType /\ memIncr[key] \in CountType
      /\ faults \in Nat /\ faults' \in Nat /\ crashes \in Nat
  BY LimitAssumption, LimitTypesKept DEF LimitInv, RateLimitTypeOK
<1>2. counter[key].n \in Nat /\ counter'[key].n \in Nat /\ memIncr[key].n \in Nat
  BY <1>1 DEF CountType
<1>3. MaxFor(key) \in Nat
  BY LimitAssumption DEF MaxFor, Keys
<1>4. PICK q \in Nat : q = g * MaxFor(key)
  BY <1>1, <1>3
<1>5. PICK p \in Nat, r \in Nat : p = Cardinality(Passing(key)) /\ r = Cardinality(Passing(key)')
  BY PassingFacts
<1>6. r <= p
  BY <1>5, PassingFacts
<1>7. p <= Least(counter[key].n, MaxFor(key)) + q + Least(memIncr[key].n, MaxFor(key))
  BY <1>4, <1>5 DEF Fits
<1>8. /\ Least(counter[key].n, MaxFor(key)) <= Least(counter'[key].n, MaxFor(key))
      /\ Least(counter[key].n, MaxFor(key)) \in Nat /\ Least(counter'[key].n, MaxFor(key)) \in Nat
      /\ Least(memIncr[key].n, MaxFor(key)) \in Nat
  BY <1>2, <1>3, LeastFacts
<1>9. r <= Least(counter'[key].n, MaxFor(key)) + q + Least(memIncr'[key].n, MaxFor(key))
  BY <1>6, <1>7, <1>8
<1>10. enabled' => g + (IF memIncr'[key].n > 0 THEN 1 ELSE 0) <= faults'
  BY <1>1 DEF Fits
<1> QED
  BY <1>4, <1>5, <1>9, <1>10 DEF Fits, MaxFor, Least

\* Redis or the process has let one through that was not yet.
LEMMA FitsIfOneNew ==
    ASSUME LimitInv, [LimitNext]_limitVars, NEW key \in Keys, NEW g \in 0..crashes, Fits(key, g),
           NEW k \in Calls, Passing(key)' \subseteq Passing(key) \cup {k},
           UNCHANGED enabled,
           \/ /\ counter'[key].n = counter[key].n + 1 /\ memIncr'[key].n = memIncr[key].n
              /\ UNCHANGED faults
              /\ ~(counter[key].n + 1 <= MaxFor(key)) => Passing(key)' \subseteq Passing(key)
           \/ /\ counter'[key].n >= counter[key].n /\ memIncr'[key].n = memIncr[key].n + 1
              /\ enabled => faults' = faults + 1
              /\ ~(memIncr[key].n + 1 <= MaxFor(key)) => Passing(key)' \subseteq Passing(key)
    PROVE  Fits(key, g)'
<1>1. /\ counter[key] \in CountType /\ counter'[key] \in CountType /\ memIncr[key] \in CountType
      /\ faults \in Nat /\ faults' \in Nat /\ crashes \in Nat
  BY LimitAssumption, LimitTypesKept DEF LimitInv, RateLimitTypeOK
<1>2. counter[key].n \in Nat /\ counter'[key].n \in Nat /\ memIncr[key].n \in Nat
  BY <1>1 DEF CountType
<1>3. MaxFor(key) \in Nat
  BY LimitAssumption DEF MaxFor, Keys
<1>4. PICK q \in Nat : q = g * MaxFor(key)
  BY <1>1, <1>3
<1>5. PICK p \in Nat, r \in Nat : p = Cardinality(Passing(key)) /\ r = Cardinality(Passing(key)')
  BY PassingFacts
<1>6. r <= p + 1 /\ (Passing(key)' \subseteq Passing(key) => r <= p)
  BY <1>5, PassingFacts
<1>7. p <= Least(counter[key].n, MaxFor(key)) + q + Least(memIncr[key].n, MaxFor(key))
  BY <1>4, <1>5 DEF Fits
<1>8. /\ Least(counter[key].n, MaxFor(key)) <= Least(counter'[key].n, MaxFor(key))
      /\ Least(counter[key].n, MaxFor(key)) \in Nat /\ Least(counter'[key].n, MaxFor(key)) \in Nat
      /\ Least(memIncr[key].n, MaxFor(key)) \in Nat
  <2>1. counter[key].n <= counter'[key].n
    BY <1>2
  <2> QED
    BY <1>2, <1>3, <2>1, LeastFacts
<1>9. /\ Least(counter[key].n + 1, MaxFor(key))
             = Least(counter[key].n, MaxFor(key)) + (IF counter[key].n + 1 <= MaxFor(key) THEN 1 ELSE 0)
      /\ Least(memIncr[key].n + 1, MaxFor(key))
             = Least(memIncr[key].n, MaxFor(key)) + (IF memIncr[key].n + 1 <= MaxFor(key) THEN 1 ELSE 0)
  BY <1>2, <1>3, LeastFacts
<1>10. r <= Least(counter'[key].n, MaxFor(key)) + q + Least(memIncr'[key].n, MaxFor(key))
  <2>1. CASE /\ counter'[key].n = counter[key].n + 1 /\ memIncr'[key].n = memIncr[key].n
             /\ ~(counter[key].n + 1 <= MaxFor(key)) => Passing(key)' \subseteq Passing(key)
    <3>1. CASE counter[key].n + 1 <= MaxFor(key)
      BY <1>6, <1>7, <1>8, <1>9, <2>1, <3>1
    <3>2. CASE ~(counter[key].n + 1 <= MaxFor(key))
      BY <1>6, <1>7, <1>8, <1>9, <2>1, <3>2
    <3> QED
      BY <3>1, <3>2
  <2>2. CASE /\ counter'[key].n >= counter[key].n /\ memIncr'[key].n = memIncr[key].n + 1
             /\ ~(memIncr[key].n + 1 <= MaxFor(key)) => Passing(key)' \subseteq Passing(key)
    <3>1. CASE memIncr[key].n + 1 <= MaxFor(key)
      BY <1>6, <1>7, <1>8, <1>9, <2>2, <3>1
    <3>2. CASE ~(memIncr[key].n + 1 <= MaxFor(key))
      BY <1>6, <1>7, <1>8, <1>9, <2>2, <3>2
    <3> QED
      BY <3>1, <3>2
  <2> QED
    BY <2>1, <2>2
<1>11. enabled' => g + (IF memIncr'[key].n > 0 THEN 1 ELSE 0) <= faults'
  <2>1. enabled => g + (IF memIncr[key].n > 0 THEN 1 ELSE 0) <= faults
    BY DEF Fits
  <2>2. g \in Nat
    BY <1>1
  <2> QED
    BY <1>1, <1>2, <2>1, <2>2
<1> QED
  BY <1>4, <1>5, <1>10, <1>11 DEF Fits, MaxFor, Least

\* The process that counted is one of those before.
LEMMA FitsAfterCrash ==
    ASSUME LimitInv, Crash, NEW key \in Keys, NEW g \in 0..crashes, Fits(key, g)
    PROVE  \E h \in 0..crashes' : Fits(key, h)'
<1>1. /\ counter[key] \in CountType /\ memIncr[key] \in CountType
      /\ faults \in Nat /\ crashes \in Nat /\ RateLimitTypeOK
  BY LimitAssumption DEF LimitInv, RateLimitTypeOK
<1>2. counter[key].n \in Nat /\ memIncr[key].n \in Nat
  BY <1>1 DEF CountType
<1>3. MaxFor(key) \in Nat
  BY LimitAssumption DEF MaxFor, Keys
<1>n. [LimitNext]_limitVars
  BY DEF LimitNext
<1>4. /\ crashes' = crashes + 1 /\ memIncr'[key].n = 0
      /\ UNCHANGED <<enabled, counter, now, faults, resent>>
      /\ Passing(key)' \subseteq Passing(key)
  <2>1. \A k \in Calls :
            /\ KeyOf(call'[k]) = KeyOf(call[k]) /\ call'[k].pc # "expire"
            /\ (call'[k].counted <=> call[k].counted) /\ (call'[k].passed <=> call[k].passed)
    BY <1>1, CrashCalls, SameKey
  <2>2. Passing(key)' = {k \in Calls : /\ call'[k].counted /\ KeyOf(call'[k]) = key
                                       /\ call'[k].passed
                                              \/ (call'[k].pc = "expire" /\ MaxFor(key) > 0)}
    BY DEF Passing, CountedFor, KeyOf, KindOf, MaxFor
  <2>3. Passing(key)' \subseteq Passing(key)
    BY <2>1, <2>2 DEF Passing, CountedFor
  <2> QED
    BY <1>1, <2>3, CrashCalls DEF NoCount
<1>5. PICK p \in Nat, r \in Nat : p = Cardinality(Passing(key)) /\ r = Cardinality(Passing(key)')
  BY <1>n, PassingFacts
<1>6. r <= p
  BY <1>4, <1>5, <1>n, PassingFacts
<1>7. PICK h \in Nat : h = g + (IF memIncr[key].n > 0 THEN 1 ELSE 0)
  BY <1>1, <1>2
<1>8. PICK q \in Nat, s \in Nat : q = g * MaxFor(key) /\ s = h * MaxFor(key)
  BY <1>1, <1>3
<1>9. /\ Least(counter[key].n, MaxFor(key)) \in Nat /\ Least(memIncr[key].n, MaxFor(key)) \in Nat
      /\ Least(memIncr[key].n, MaxFor(key)) <= MaxFor(key)
      /\ Least(0, MaxFor(key)) = 0
  BY <1>2, <1>3, LeastFacts
<1>10. q + Least(memIncr[key].n, MaxFor(key)) <= s
  <2>1. CASE memIncr[key].n > 0
    <3>1. s = (g + 1) * MaxFor(key)
      BY <1>7, <1>8, <2>1
    <3>2. (g + 1) * MaxFor(key) = g * MaxFor(key) + MaxFor(key)
      BY <1>1, <1>3
    <3> QED
      BY <1>3, <1>8, <1>9, <3>1, <3>2
  <2>2. CASE memIncr[key].n = 0
    <3>1. h = g
      BY <1>1, <1>7, <2>2
    <3> QED
      BY <1>8, <1>9, <2>2, <3>1
  <2> QED
    BY <1>2, <2>1, <2>2
<1>11. p <= Least(counter[key].n, MaxFor(key)) + q + Least(memIncr[key].n, MaxFor(key))
  BY <1>5, <1>8 DEF Fits
<1>12. r <= Least(counter'[key].n, MaxFor(key)) + s + Least(memIncr'[key].n, MaxFor(key))
  BY <1>3, <1>4, <1>6, <1>9, <1>10, <1>11
<1>13. enabled' => h + (IF memIncr'[key].n > 0 THEN 1 ELSE 0) <= faults'
  BY <1>1, <1>4, <1>7 DEF Fits
<1>14. h \in 0..crashes'
  BY <1>1, <1>2, <1>4, <1>7
<1>15. Fits(key, h)'
  BY <1>5, <1>8, <1>12, <1>13 DEF Fits, MaxFor, Least
<1> QED
  BY <1>14, <1>15

\* What tryConsume lets through has its place in one of the counters.
LEMMA ConsumedFits ==
    ASSUME LimitInv, [LimitNext]_limitVars, NEW k \in Calls, NEW ready \in BOOLEAN,
           TryConsume(k, ready), NEW key \in Keys, key = KeyOf(call[k]), now < Until(key),
           NEW g \in 0..crashes, Fits(key, g)
    PROVE  Fits(key, g)'
<1>0. RateLimitTypeOK /\ CallsHold /\ CountersHold /\ memIncr \in [Keys -> CountType]
      /\ faults \in Nat /\ MaxFor(key) \in Nat
  BY LimitAssumption DEF LimitInv, RateLimitTypeOK, MaxFor, Keys
<1>1. FirstCounted(k) \/ CountedNext(k, ready) \/ IncrSentAgain(k) \/ CountedInMemory(k, ready)
          \/ Expire(k, ready)
  BY <1>0, ConsumeKinds
<1>2. /\ call[k].counted /\ key[3] * WindowTicks <= now
      /\ call[k].pc \in {"incr", "expire"} /\ UNCHANGED enabled
  BY <1>0, <1>1, ConsumeCall, ConsumeCounters
<1>3. /\ counter[key].n \in Nat /\ memIncr[key].n \in Nat /\ counter'[key].n >= counter[key].n
      /\ MemRow(key).n = memIncr[key].n + 1
  <2>1. counter[key] \in CountType /\ memIncr[key] \in CountType
    BY <1>0 DEF RateLimitTypeOK
  <2>2. counter[key].n \in Nat /\ memIncr[key].n \in Nat
    BY <2>1 DEF CountType
  <2>3. MemRow(key).n = memIncr[key].n + 1
    BY <1>0, <1>2, MemRowFits
  <2> QED
    BY <2>2, <2>3, ConsumeCounters
<1>4. CASE IncrSentAgain(k)
  <2>1. UNCHANGED <<call, memIncr>> /\ faults' = faults + 1
    BY <1>4 DEF IncrSentAgain
  <2>2. Passing(key)' \subseteq Passing(key)
    BY <2>1, PassingFacts
  <2> QED
    BY <1>0, <1>2, <1>3, <2>1, <2>2, FitsIfNothingNew
<1>5. ASSUME NEW n \in Nat, AnsweredWith(k, n)
      PROVE  /\ Passing(key)' \subseteq Passing(key) \cup {k}
             /\ ~(n <= MaxFor(key)) => Passing(key)' \subseteq Passing(key)
  <2>1. PICK r \in CallType :
            /\ Becomes(k, r) /\ r.pc \in {"blocked", "handled", "allowed", "dropped"}
            /\ (r.passed <=> n <= MaxFor(KeyOf(call[k])))
    BY <1>5 DEF AnsweredWith
  <2>2. call'[k] = r /\ \A j \in Calls \ {k} : call'[j] = call[j]
    BY <1>0, <2>1, BecomesFacts
  <2>3. Passing(key)' \subseteq Calls
    BY DEF Passing, CountedFor
  <2>4. Passing(key)' \subseteq Passing(key) \cup {k}
    BY <2>2, <2>3, PassingFacts
  <2>5. ASSUME ~(n <= MaxFor(key)) PROVE k \notin Passing(key)'
    <3>1. ~call'[k].passed /\ call'[k].pc # "expire"
      BY <2>1, <2>2, <2>5
    <3> QED
      BY <3>1 DEF Passing
  <2> QED
    BY <2>4, <2>5
<1>6. CASE FirstCounted(k)
  <2>1. PICK r \in CallType : Becomes(k, r) /\ ~r.passed
    BY <1>0, <1>6, ConsumeCall
  <2>2. call'[k] = r /\ \A j \in Calls \ {k} : call'[j] = call[j]
    BY <1>0, <2>1, BecomesFacts
  <2>3. Passing(key)' \subseteq Calls
    BY DEF Passing, CountedFor
  <2>4. Passing(key)' \subseteq Passing(key) \cup {k}
    BY <2>2, <2>3, PassingFacts
  <2>5. counter[key].n = 0 /\ counter'[key].n = counter[key].n + 1 /\ UNCHANGED <<memIncr, faults>>
    BY <1>0, <1>6, AddedFits DEF FirstCounted
  <2>6. ASSUME ~(counter[key].n + 1 <= MaxFor(key)) PROVE k \notin Passing(key)'
    <3>1. ~(MaxFor(key) > 0) /\ ~call'[k].passed
      BY <1>0, <2>1, <2>2, <2>5, <2>6
    <3> QED
      BY <3>1 DEF Passing, MaxFor
  <2> QED
    BY <1>2, <2>4, <2>5, <2>6, FitsIfOneNew
<1>7. CASE CountedNext(k, ready)
  <2>1. AnsweredWith(k, counter[key].n + 1) /\ counter'[key].n = counter[key].n + 1
        /\ UNCHANGED <<memIncr, faults>>
    BY <1>0, <1>7, ConsumeCall, AddedFits DEF CountedNext
  <2>2. counter[key].n + 1 \in Nat
    BY <1>3
  <2> QED
    BY <1>2, <1>5, <2>1, <2>2, FitsIfOneNew
<1>8. CASE CountedInMemory(k, ready)
  <2>1. AnsweredWith(k, memIncr[key].n + 1)
    BY <1>0, <1>3, <1>8, ConsumeCall
  <2>2. memIncr[key].n + 1 \in Nat
    BY <1>3
  <2>3. memIncr'[key].n = memIncr[key].n + 1 /\ (enabled => faults' = faults + 1)
    BY <1>0, <1>3, <1>8 DEF CountedInMemory
  <2> QED
    BY <1>2, <1>3, <1>5, <2>1, <2>2, <2>3, FitsIfOneNew
<1>9. CASE Expire(k, ready)
  <2>1. AnsweredWith(k, 1) /\ call[k].pc = "expire" /\ UNCHANGED <<memIncr, faults>>
    BY <1>0, <1>9, ConsumeCall DEF Expire
  <2>2. 1 <= MaxFor(key) => k \in Passing(key)
    BY <1>0, <1>2, <2>1 DEF Passing, CountedFor
  <2>3. Passing(key)' \subseteq Passing(key)
    BY <1>5, <2>1, <2>2
  <2> QED
    BY <1>0, <1>2, <1>3, <2>1, <2>3, FitsIfNothingNew
<1> QED
  BY <1>1, <1>4, <1>6, <1>7, <1>8, <1>9

LEMMA PassedStillFits == ASSUME LimitInv, [LimitNext]_limitVars PROVE PassedFits'
<1> USE LimitAssumption
<1>0. /\ RateLimitTypeOK /\ CallsHold /\ CountersHold /\ now \in Nat /\ now' \in Nat
      /\ crashes \in Nat /\ faults \in Nat
  BY LimitTypesKept DEF LimitInv, RateLimitTypeOK
<1> SUFFICES ASSUME NEW key \in Keys, now' < Until(key)
             PROVE  \E h \in 0..crashes' : Fits(key, h)'
  BY DEF PassedFits, Until
<1>k. /\ Until(key) \in Int /\ counter[key] \in CountType /\ memIncr[key] \in CountType
      /\ counter[key].n \in Nat /\ counter[key].exp \in Nat
  <2>1. key[3] \in Int
    BY DEF Keys, Slots
  <2>2. key[3] * WindowTicks \in Int
    BY <2>1
  <2> QED
    BY <1>0, <2>2 DEF Until, RateLimitTypeOK, CountType
<1>1. now < Until(key)
  <2>1. now' \in {now, now + 1}
    <3>1. ASSUME NEW k \in Calls, NEW ready \in BOOLEAN, TryConsume(k, ready) PROVE now' = now
      BY <3>1, ConsumeCounters
    <3> QED
      BY <1>0, <3>1, LimitKinds DEF CallerStep, CallStep, Tick, Crash, limitVars
  <2> QED
    BY <1>0, <1>k, <2>1
<1>2. PICK g \in 0..crashes : Fits(key, g)
  BY <1>1 DEF LimitInv, PassedFits
<1>3. CASE CallerStep
  <2>1. PICK k \in Calls, c \in CallType : CallStep(k, c) /\ (Comes(k, c) \/ GoesOn(k, c))
    BY <1>3 DEF CallerStep
  <2>2. call'[k] = c /\ \A i \in Calls \ {k} : call'[i] = call[i]
    BY <1>0, <2>1, BecomesFacts DEF CallStep, Becomes
  <2>3. UNCHANGED <<enabled, counter, memIncr, now, faults, resent, crashes>>
    BY <2>1 DEF CallStep
  <2>4. k \in Passing(key)' => k \in Passing(key)
    <3>1. call[k].passed => call[k].counted
      BY <1>0 DEF CallsHold
    <3>2. k \in Passing(key)' => /\ c.counted /\ KeyOf(c) = key
                                 /\ c.passed \/ c.pc = "expire"
      BY <2>2 DEF Passing, CountedFor, KeyOf, KindOf
    <3>3. GoesOn(k, c) /\ c.counted => KeyOf(c) = KeyOf(call[k])
      BY SameKey DEF GoesOn
    <3> QED
      BY <2>1, <3>1, <3>2, <3>3 DEF Comes, GoesOn, Passing, CountedFor
  <2>5. Passing(key)' \subseteq Passing(key)
    <3>1. Passing(key)' \subseteq Calls
      BY DEF Passing, CountedFor
    <3> QED
      BY <2>2, <2>4, <3>1, PassingFacts
  <2>6. Fits(key, g)'
    BY <1>0, <1>2, <1>k, <2>3, <2>5, FitsIfNothingNew
  <2> QED
    BY <1>2, <2>3, <2>6
<1>4. ASSUME NEW k \in Calls, NEW ready \in BOOLEAN, TryConsume(k, ready)
      PROVE  \E h \in 0..crashes' : Fits(key, h)'
  <2>1. CASE key = KeyOf(call[k])
    <3>1. Fits(key, g)' /\ crashes' = crashes
      BY <1>1, <1>2, <1>4, <2>1, ConsumedFits, ConsumeCounters
    <3> QED
      BY <1>2, <3>1
  <2>2. CASE key # KeyOf(call[k])
    <3>1. counter'[key] = counter[key] /\ memIncr'[key] = memIncr[key] /\ UNCHANGED <<enabled, crashes>>
      BY <1>4, <2>2, ConsumeCounters
    <3>2. faults' \in {faults, faults + 1}
      BY <1>4 DEF TryConsume, Incr, IncrSentAgain, IncrFails, Expire, ExpireFails, IncrInMemory
    <3>3. Passing(key)' \subseteq Passing(key)
      <4>1. FirstCounted(k) \/ CountedNext(k, ready) \/ IncrSentAgain(k) \/ CountedInMemory(k, ready)
                \/ Expire(k, ready)
        BY <1>0, <1>4, ConsumeKinds
      <4>2. CASE IncrSentAgain(k)
        BY <4>2, PassingFacts DEF IncrSentAgain
      <4>3. CASE FirstCounted(k) \/ CountedNext(k, ready) \/ CountedInMemory(k, ready) \/ Expire(k, ready)
        <5>1. PICK r \in CallType :
                  /\ Becomes(k, r) /\ r.message = call[k].message
                  /\ r.tenant = call[k].tenant /\ r.slot = call[k].slot
          BY <1>0, <4>3, ConsumeCall DEF AnsweredWith
        <5>2. call'[k] = r /\ \A j \in Calls \ {k} : call'[j] = call[j]
          BY <1>0, <5>1, BecomesFacts
        <5>3. KeyOf(call'[k]) # key
          BY <2>2, <5>1, <5>2, SameKey
        <5>4. k \notin Passing(key)' /\ Passing(key)' \subseteq Calls
          BY <5>3 DEF Passing, CountedFor, KeyOf, KindOf
        <5> QED
          BY <5>2, <5>4, PassingFacts
      <4> QED
        BY <4>1, <4>2, <4>3
    <3>4. Fits(key, g)'
      BY <1>0, <1>2, <1>k, <3>1, <3>2, <3>3, FitsIfNothingNew
    <3> QED
      BY <1>2, <3>1, <3>4
  <2> QED
    BY <2>1, <2>2
<1>5. CASE Tick
  <2>1. /\ now' = now + 1 /\ UNCHANGED <<enabled, memIncr, call, faults, resent, crashes>>
        /\ counter'[key] = IF Expired(counter[key], now + 1) THEN NoCount ELSE counter[key]
    BY <1>5 DEF Tick
  <2>2. ~Expired(counter[key], now + 1)
    BY <1>0, <1>k, <2>1 DEF Expired, CountersHold
  <2>3. Passing(key)' \subseteq Passing(key)
    BY <2>1, PassingFacts
  <2>4. Fits(key, g)'
    BY <1>0, <1>2, <1>k, <2>1, <2>2, <2>3, FitsIfNothingNew
  <2> QED
    BY <1>2, <2>1, <2>4
<1>6. CASE Crash
  BY <1>2, <1>6, FitsAfterCrash
<1>7. CASE UNCHANGED limitVars
  <2>1. UNCHANGED <<enabled, memIncr, call, faults, resent, crashes, counter>>
    BY <1>7 DEF limitVars
  <2>2. Passing(key)' \subseteq Passing(key)
    BY <2>1, PassingFacts
  <2>3. Fits(key, g)'
    BY <1>0, <1>2, <1>k, <2>1, <2>2, FitsIfNothingNew
  <2> QED
    BY <1>2, <2>1, <2>3
<1> QED
  BY <1>0, <1>3, <1>4, <1>5, <1>6, <1>7, LimitKinds

LEMMA LimitInitially == LimitInit => LimitInv
<1> SUFFICES ASSUME LimitInit PROVE LimitInv
  OBVIOUS
<1> USE LimitAssumption
<1>1. /\ enabled \in BOOLEAN /\ now = 0 /\ faults = 0 /\ crashes = 0
      /\ counter = [key \in Keys |-> NoCount] /\ memIncr = [key \in Keys |-> NoCount]
      /\ call = [k \in Calls |-> NoCall] /\ resent = [key \in Keys |-> 0]
  BY DEF LimitInit
<1>2. NoCount \in CountType /\ NoCount.n = 0 /\ NoCount.exp = Never
  BY DEF NoCount, CountType, Never
<1>3. NoCall \in CallType /\ ~NoCall.counted /\ ~NoCall.passed /\ NoCall.pc = "idle"
  BY NewCallFits
<1>4. RateLimitTypeOK
  BY <1>1, <1>2, <1>3 DEF RateLimitTypeOK
<1>5. CallsHold /\ OneExpires /\ CountersHold /\ RefusedForOwnTraffic
  BY <1>1, <1>2, <1>3 DEF CallsHold, OneExpires, CountersHold, RefusedForOwnTraffic
<1>z. Cardinality({}) = 0
  BY FS_EmptySet
<1>6. CountersExpire
  <2>1. Orphans = {}
    BY <1>1, <1>2 DEF Orphans
  <2>2. CountersExpire <=> (crashes = 0 => Cardinality(Orphans) <= faults)
    BY DEF CountersExpire, Orphans
  <2> QED
    BY <1>1, <1>z, <2>1, <2>2
<1>7. \A key \in Keys : CountedFor(key) = {} /\ ConsumedFor(key) = {} /\ SettledFor(key) = {}
                            /\ Passing(key) = {} /\ MaxFor(key) \in Nat
  BY <1>1, <1>3 DEF CountedFor, ConsumedFor, SettledFor, Passing, MaxFor, Keys
<1>8. CountsAreMessages
  BY <1>1, <1>2, <1>7, <1>z DEF CountsAreMessages
<1>9. PassedFits
  <2> SUFFICES ASSUME NEW key \in Keys PROVE \E g \in 0..crashes : Fits(key, g)
    BY DEF PassedFits
  <2>1. Cardinality(Passing(key)) = 0 /\ 0 * MaxFor(key) = 0 /\ Least(0, MaxFor(key)) = 0
    BY <1>7, <1>z DEF Least
  <2>2. counter[key].n = 0 /\ memIncr[key].n = 0
    BY <1>1, <1>2
  <2>3. Fits(key, 0)
    BY <1>1, <2>1, <2>2 DEF Fits
  <2> QED
    BY <1>1, <2>3
<1> QED
  BY <1>4, <1>5, <1>6, <1>8, <1>9 DEF LimitInv

\* What is counted under a key counts messages of that key, all that get through find a
\* place in a counter, and counters without an expiry come of failed commands: together
\* these are an invariant of the limit.
THEOREM LimitInvariant == LimitSpec => []LimitInv
<1>1. LimitInv /\ [LimitNext]_limitVars => LimitInv'
  <2> SUFFICES ASSUME LimitInv, [LimitNext]_limitVars PROVE LimitInv'
    OBVIOUS
  <2>1. /\ RateLimitTypeOK' /\ CallsHold' /\ OneExpires' /\ CountersHold' /\ CountsAreMessages'
        /\ RefusedForOwnTraffic' /\ CountersExpire' /\ PassedFits'
    BY LimitTypesKept, LimitCalls, OneStillExpires, CountersStillHold, CountsStayMessages,
       RefusalsStay, CountersStillExpire, PassedStillFits
  <2> QED
    BY <2>1 DEF LimitInv
<1> QED
  BY <1>1, LimitInitially, PTL DEF LimitSpec

\* The state of the limit keeps its types, and a counter somebody is about to give an
\* expiry exists and has none (tenant-rate-limit.service.ts).
THEOREM LimitTypeCorrect == LimitSpec => []RateLimitTypeOK
<1>1. LimitInv => RateLimitTypeOK
  BY DEF LimitInv
<1> QED
  BY <1>1, LimitInvariant, PTL

\* The messages that got through in one minute fit into the counts there may be of it.
LEMMA FitsWithinCounts ==
    ASSUME LimitInv, NEW kind \in Kinds, NEW t \in Tenants, NEW s \in Slots,
           now < s * WindowTicks + TtlTicks
    PROVE  Cardinality({k \in Counted(kind, t, s) : call[k].passed}) <= Counts * MaxOf[kind]
<1> USE LimitAssumption
<1>0. /\ RateLimitTypeOK /\ CountersHold
      /\ faults \in Nat /\ crashes \in Nat /\ enabled \in BOOLEAN
  BY DEF LimitInv, RateLimitTypeOK
<1>1. PICK key \in Keys : key = <<kind, t, s>>
  BY DEF Keys
<1>2. now < Until(key)
  BY <1>1 DEF Until
<1>3. PICK g \in 0..crashes : Fits(key, g)
  BY <1>2 DEF LimitInv, PassedFits
<1>4. counter[key] \in CountType /\ memIncr[key] \in CountType
  BY <1>0 DEF RateLimitTypeOK
<1>5. counter[key].n \in Nat /\ memIncr[key].n \in Nat /\ MaxFor(key) \in Nat
  BY <1>4 DEF CountType, MaxFor, Keys
<1>6. {k \in Counted(kind, t, s) : call[k].passed} \subseteq Passing(key)
  BY <1>1 DEF Counted, Passing, CountedFor, KeyOf
<1>7. /\ Cardinality({k \in Counted(kind, t, s) : call[k].passed}) <= Cardinality(Passing(key))
      /\ Cardinality({k \in Counted(kind, t, s) : call[k].passed}) \in Nat
      /\ Cardinality(Passing(key)) \in Nat
  <2>1. Passing(key) \subseteq Calls
    BY DEF Passing, CountedFor
  <2> QED
    BY <1>6, <2>1, Fewer
<1>8. /\ Least(counter[key].n, MaxFor(key)) \in Nat /\ Least(memIncr[key].n, MaxFor(key)) \in Nat
      /\ Least(counter[key].n, MaxFor(key)) <= MaxFor(key)
      /\ Least(memIncr[key].n, MaxFor(key)) <= MaxFor(key)
      /\ Least(0, MaxFor(key)) = 0
  BY <1>5, LeastFacts
<1>9. PICK u \in {0, 1}, e \in {0, 1} : /\ u = (IF memIncr[key].n > 0 THEN 1 ELSE 0)
                                       /\ e = (IF enabled THEN 1 ELSE 0)
  OBVIOUS
<1>10. Counts \in Nat /\ e + g + u <= Counts
  <2>1. CASE enabled
    <3>1. g + u <= faults /\ g <= crashes /\ e = 1
      BY <1>3, <1>9, <2>1 DEF Fits
    <3>2. Counts = 1 + (IF faults <= crashes THEN faults ELSE crashes + 1)
      BY <2>1 DEF Counts
    <3> QED
      BY <1>0, <1>9, <3>1, <3>2
  <2>2. CASE ~enabled
    <3>1. Counts = crashes + 1 /\ e = 0 /\ g <= crashes
      BY <1>3, <1>9, <2>2 DEF Counts
    <3> QED
      BY <1>0, <1>9, <3>1
  <2> QED
    BY <1>0, <2>1, <2>2
<1>11. g \in Nat /\ MaxOf[kind] = MaxFor(key)
  BY <1>0, <1>1 DEF MaxFor
<1>12. PICK a \in Nat : a = g * MaxFor(key)
  BY <1>5, <1>11
<1>13. Cardinality(Passing(key)) <= e * MaxFor(key) + a + u * MaxFor(key)
  <2>1. Least(memIncr[key].n, MaxFor(key)) <= u * MaxFor(key)
    <3>1. CASE u = 1
      BY <1>5, <1>8, <3>1
    <3>2. CASE u = 0
      <4>1. memIncr[key].n = 0
        BY <1>5, <1>9, <3>2
      <4> QED
        BY <1>5, <1>8, <3>2, <4>1
    <3> QED
      BY <3>1, <3>2
  <2>2. Least(counter[key].n, MaxFor(key)) <= e * MaxFor(key)
    <3>1. CASE e = 1
      BY <1>5, <1>8, <3>1
    <3>2. CASE e = 0
      <4>1. counter[key].n = 0
        BY <1>0, <1>9, <3>2 DEF CountersHold
      <4> QED
        BY <1>5, <1>8, <3>2, <4>1
    <3> QED
      BY <3>1, <3>2
  <2>3. Cardinality(Passing(key)) <= Least(counter[key].n, MaxFor(key)) + a
                                         + Least(memIncr[key].n, MaxFor(key))
    BY <1>3, <1>12 DEF Fits
  <2>4. e * MaxFor(key) \in Nat /\ u * MaxFor(key) \in Nat
    BY <1>5, <1>9
  <2> QED
    BY <1>5, <1>7, <1>8, <2>1, <2>2, <2>3, <2>4
<1>14. e * MaxFor(key) + a + u * MaxFor(key) <= Counts * MaxFor(key)
  <2>1. PICK m \in Nat : m = MaxFor(key)
    BY <1>5
  <2>9. e \in Nat /\ u \in Nat
    BY <1>9
  <2>2. (e + g + u) * m = e * m + g * m + u * m
    BY <1>11, <2>9
  <2>3. PICK d \in Nat : Counts = (e + g + u) + d
    <3>1. Counts - (e + g + u) \in Nat
      BY <1>10, <1>11, <2>9
    <3>2. Counts = (e + g + u) + (Counts - (e + g + u))
      BY <1>10, <1>11, <2>9
    <3> QED
      BY <3>1, <3>2
  <2>4. Counts * m = (e + g + u) * m + d * m /\ d * m \in Nat
    BY <1>9, <1>11, <2>3
  <2>5. (e + g + u) * m \in Nat
    BY <1>9, <1>11
  <2> QED
    BY <1>12, <2>1, <2>2, <2>4, <2>5
<1> QED
  <2>1. Counts * MaxFor(key) \in Nat /\ e * MaxFor(key) \in Nat /\ u * MaxFor(key) \in Nat
    BY <1>5, <1>9, <1>10
  <2> QED
    BY <1>7, <1>11, <1>12, <1>13, <1>14, <2>1

\* For any messages, limits and windows: however the INCRs and EXPIREs of concurrent
\* messages mix, no more of one minute get through than the limit, once for every count
\* there may be of it; a message is refused only for more than the limit of its own
\* tenant, kind and minute; and no counter is left without an expiry unless a command
\* failed or the process died (tryConsume, incrWithTtl and their callers).
THEOREM LimitIsSafe == LimitSpec => []LimitSafe
<1>1. LimitInv => LimitSafe
  BY FitsWithinCounts DEF LimitSafe, LimitKept, LimitInv
<1> QED
  BY <1>1, LimitInvariant, PTL

-----------------------------------------------------------------------------
(* Views and recommendations.  What a list was made from is what there is as *)
(* long as its reader was not disturbed.                                     *)

ViewsAreNumbered ==
    /\ views \in [Convs -> [Products -> Nat]]
    /\ \A c \in Convs, p \in Products :
           /\ views[c][p] <= Cardinality(Shown(c))
           /\ \A q \in Shown(c) : views[c][p] = views[c][q] => p = q

\* Nothing that was viewed is picked, and what was viewed last is among it.
PicksAreNew(r) ==
    /\ rec[r].latest \subseteq rec[r].viewed
    /\ rec[r].pc \in {"similar", "ranked", "shown"} => rec[r].picks \cap rec[r].viewed = {}

\* The words sought, and the products found by them, are still those there are.
WordsAreSought(r) ==
    rec[r].pc \in {"words", "similar"} /\ ~rec[r].disturbed =>
        /\ rec[r].words \in Keywords(rec[r].viewed)
        /\ rec[r].pc = "similar"
           => rec[r].picks \in Best(Similar(rec[r].viewed, rec[r].words), SimilarCap, Created)

\* Why p is not on a list that nothing active is on.
CrowdedOut(r, p) ==
    /\ \/ \A v \in rec[r].viewed, w \in product[p].words : w \in affinity[v].words /\ w # Empty => Lower[w] # w
       \/ Cardinality(Sought(rec[r].viewed)) > WordCap
    /\ \/ ~affinity[p].held
       \/ Cardinality(Rivals(p)) >= TopCap
       \/ Cardinality({q \in Rivals(p) \ rec[r].viewed : ~Active(q)}) >= Limit
ListIsExplained(r) ==
    rec[r].pc \in {"ranked", "shown"} /\ ~rec[r].disturbed =>
        \A p \in Products :
            Active(p) /\ p \notin rec[r].viewed /\ (\A q \in rec[r].picks : ~Active(q))
            => CrowdedOut(r, p)

ReaderHolds(r) == PicksAreNew(r) /\ WordsAreSought(r) /\ ListIsExplained(r)

TrackingInv ==
    /\ TrackingTypeOK
    /\ MentionsAddUp
    /\ KeywordsFollow
    /\ \A r \in Readers : ReaderHolds(r)

LEMMA BestFacts ==
    ASSUME NEW S, IsFiniteSet(S), NEW n \in Nat, NEW score, NEW T \in Best(S, n, score)
    PROVE  /\ T \subseteq S /\ IsFiniteSet(T)
           /\ Cardinality(T) \in Nat /\ Cardinality(S) \in Nat /\ Cardinality(T) <= n
           /\ Cardinality(S) <= n => T = S
           /\ T # S => Cardinality(T) = n
           /\ \A p \in T, q \in S \ T : score[p] >= score[q]
<1>1. T \subseteq S /\ Cardinality(T) = (IF Cardinality(S) < n THEN Cardinality(S) ELSE n)
      /\ \A p \in T, q \in S \ T : score[p] >= score[q]
  BY DEF Best, Cut
<1>2. IsFiniteSet(T) /\ Cardinality(T) \in Nat /\ Cardinality(S) \in Nat
      /\ (Cardinality(T) = Cardinality(S) => T = S)
  <2>1. T \subseteq S
    BY <1>1
  <2> QED
    BY <2>1, FS_Subset, FS_CardinalityType
<1> QED
  BY <1>1, <1>2

LEMMA NothingBest ==
    ASSUME NEW S, IsFiniteSet(S), NEW n \in Nat \ {0}, NEW score, {} \in Best(S, n, score)
    PROVE  S = {}
<1>1. Cardinality({}) = 0
  BY FS_EmptySet
<1>2. {} # S => Cardinality({}) = n
  BY BestFacts
<1> QED
  BY <1>1, <1>2

LEMMA ReaderTypes ==
    ASSUME TrackingTypeOK, NEW r \in Readers
    PROVE  /\ rec[r] \in ReaderType
           /\ rec[r].viewed \in SUBSET Products /\ rec[r].picks \in SUBSET Products
           /\ rec[r].words \in SUBSET Words /\ rec[r].latest \in SUBSET Products
           /\ IsFiniteSet(rec[r].viewed) /\ IsFiniteSet(rec[r].picks)
           /\ IsFiniteSet(Products)
<1>1. rec[r] \in ReaderType
  BY DEF TrackingTypeOK
<1>2. /\ rec[r].viewed \in SUBSET Products /\ rec[r].picks \in SUBSET Products
      /\ rec[r].words \in SUBSET Words /\ rec[r].latest \in SUBSET Products
  BY <1>1 DEF ReaderType
<1> QED
  BY <1>1, <1>2, TrackingAssumption, Fewer

\* A reader whose step it is not, and who knows if anything changed.
LEMMA ReaderStays ==
    ASSUME NEW r \in Readers, ReaderHolds(r), rec'[r].pc = rec[r].pc,
           rec'[r].viewed = rec[r].viewed, rec'[r].words = rec[r].words,
           rec'[r].picks = rec[r].picks, rec'[r].latest = rec[r].latest,
           \/ rec'[r].disturbed \/ rec[r].pc = "idle"
           \/ UNCHANGED <<product, affinity>> /\ (rec'[r].disturbed <=> rec[r].disturbed)
    PROVE  ReaderHolds(r)'
<1>1. PicksAreNew(r)'
  BY DEF ReaderHolds, PicksAreNew
<1>2. CASE rec'[r].disturbed \/ rec[r].pc = "idle"
  BY <1>1, <1>2 DEF ReaderHolds, WordsAreSought, ListIsExplained
<1>3. CASE UNCHANGED <<product, affinity>> /\ (rec'[r].disturbed <=> rec[r].disturbed)
  <2>1. \A p \in Products : Active(p)' <=> Active(p)
    BY <1>3 DEF Active
  <2>2. WordsAreSought(r)'
    <3>1. Keywords(rec[r].viewed)' = Keywords(rec[r].viewed)
      BY <1>3 DEF Keywords, Sought, Cut
    <3>2. Similar(rec[r].viewed, rec[r].words)' = Similar(rec[r].viewed, rec[r].words)
      BY <1>3 DEF Similar, Active
    <3> QED
      BY <1>3, <3>1, <3>2 DEF ReaderHolds, WordsAreSought, Best, Cut, Created
  <2>3. ListIsExplained(r)'
    BY <1>3 DEF ReaderHolds, ListIsExplained, CrowdedOut, Sought, Rivals, Held, Active
  <2> QED
    BY <1>1, <2>2, <2>3 DEF ReaderHolds
<1> QED
  BY <1>2, <1>3

LEMMA DisturbFacts ==
    ASSUME TrackingInv, Disturb
    PROVE  /\ rec' \in [Readers -> ReaderType]
           /\ \A r \in Readers : /\ ReaderHolds(r)'
                                 /\ rec'[r].pc \in {"ranked", "shown"} => Cardinality(rec'[r].picks) <= Limit
<1>1. TrackingTypeOK /\ \A r \in Readers : ReaderHolds(r)
  BY DEF TrackingInv
<1>2. ASSUME NEW r \in Readers
      PROVE  /\ rec'[r] \in ReaderType /\ ReaderHolds(r)'
             /\ rec'[r].pc \in {"ranked", "shown"} => Cardinality(rec'[r].picks) <= Limit
  <2>1. rec'[r] = [rec[r] EXCEPT !.disturbed = rec[r].pc # "idle"]
    BY DEF Disturb
  <2>2. PICK d \in BOOLEAN : d <=> rec[r].pc # "idle"
    OBVIOUS
  <2>3. rec'[r] = [rec[r] EXCEPT !.disturbed = d]
    BY <2>1, <2>2
  <2>4. /\ rec'[r] \in ReaderType /\ rec'[r].pc = rec[r].pc
        /\ rec'[r].viewed = rec[r].viewed /\ rec'[r].words = rec[r].words
        /\ rec'[r].picks = rec[r].picks /\ rec'[r].latest = rec[r].latest
        /\ rec'[r].disturbed <=> d
    BY <1>1, <2>3, ReaderTypes DEF ReaderType
  <2>5. ReaderHolds(r)'
    BY <1>1, <2>2, <2>4, ReaderStays
  <2> QED
    BY <1>1, <2>4, <2>5 DEF TrackingTypeOK
<1>3. rec' = [r \in Readers |-> rec'[r]]
  BY DEF Disturb
<1> QED
  BY <1>2, <1>3

LEMMA ShownAreFinite ==
    ASSUME NEW c \in Convs
    PROVE  /\ IsFiniteSet(Shown(c)) /\ Shown(c) \subseteq Products /\ Cardinality(Shown(c)) \in Nat
           /\ IsFiniteSet(Seen(c)) /\ Seen(c) \subseteq Shown(c)
<1>1. Shown(c) \subseteq Products /\ Seen(c) \subseteq Shown(c) /\ Seen(c) \subseteq Products
  BY DEF Shown, Seen
<1> QED
  BY <1>1, TrackingAssumption, Fewer

\* A conversation that is shown p has at most p more, and no other one has.
LEMMA ViewAddedFacts ==
    ASSUME ViewsAreNumbered, UNCHANGED product, NEW c \in Convs, NEW p \in Products,
           views' = ViewAdded(c, p)
    PROVE  /\ ViewsAreNumbered'
           /\ \A q \in Products \ {p} : Viewers(q)' = Viewers(q)
           /\ Viewers(p)' \subseteq Viewers(p) \cup {c}
<1>1. CASE p \in Shown(c)
  <2>1. UNCHANGED views
    BY <1>1 DEF ViewAdded
  <2>2. \A d \in Convs : Shown(d)' = Shown(d) /\ Seen(d)' = Seen(d)
    BY <2>1 DEF Seen, Shown, Alive
  <2>3. ViewsAreNumbered'
    BY <2>1, <2>2 DEF ViewsAreNumbered
  <2>4. \A q \in Products : Viewers(q)' = Viewers(q)
    BY <2>2 DEF Viewers
  <2> QED
    BY <2>3, <2>4
<1>2. CASE p \notin Shown(c)
  <2>1. PICK n \in Nat : n = Cardinality(Shown(c)) + 1
    <3>1. Cardinality(Shown(c)) + 1 \in Nat
      BY ShownAreFinite
    <3> QED
      BY <3>1
  <2>2. views \in [Convs -> [Products -> Nat]] /\ views' = [views EXCEPT ![c][p] = n]
    BY <1>2, <2>1 DEF ViewAdded, ViewsAreNumbered
  <2>3. /\ views' \in [Convs -> [Products -> Nat]]
        /\ views'[c][p] = n
        /\ \A q \in Products \ {p} : views'[c][q] = views[c][q]
        /\ \A d \in Convs \ {c} : views'[d] = views[d]
    BY <2>2
  <2>4. n # 0 /\ Cardinality(Shown(c)) \in Nat
    BY <2>1, ShownAreFinite
  <2>5. Shown(c)' = Shown(c) \cup {p} /\ \A d \in Convs \ {c} : Shown(d)' = Shown(d)
    BY <2>3, <2>4 DEF Shown
  <2>6. Cardinality(Shown(c)') = n
    BY <1>2, <2>1, <2>5, ShownAreFinite, OneMore
  <2>7. ASSUME NEW d \in Convs, NEW q \in Products
        PROVE  /\ views'[d][q] <= Cardinality(Shown(d)')
               /\ \A s \in Shown(d)' : views'[d][q] = views'[d][s] => q = s
    <3>1. /\ views[d][q] \in Nat /\ views[d][q] <= Cardinality(Shown(d))
          /\ \A s \in Shown(d) : views[d][q] = views[d][s] => q = s
      BY DEF ViewsAreNumbered
    <3>2. CASE d # c
      BY <2>3, <2>5, <3>1, <3>2
    <3>3. CASE d = c
      <4>1. \A s \in Shown(c) : views[c][s] \in Nat /\ views[c][s] < n /\ s \in Products
        BY <2>1, <2>4 DEF ViewsAreNumbered, Shown
      <4>2. CASE q = p
        <5>1. views'[c][q] = n
          BY <2>3, <4>2
        <5>2. \A s \in Shown(c) : s # p /\ views'[c][s] = views[c][s]
          BY <1>2, <2>3, <4>1
        <5>3. \A s \in Shown(c) : views'[c][s] # n
          BY <4>1, <5>2
        <5> QED
          BY <2>5, <2>6, <3>3, <4>2, <5>1, <5>3
      <4>3. CASE q # p
        <5>1. views'[d][q] = views[d][q] /\ views[d][q] < n
          BY <2>1, <2>3, <2>4, <3>1, <3>3, <4>3
        <5>2. views[c][q] \in Nat /\ views'[c][q] < n /\ views'[c][q] \in Nat
          BY <3>1, <3>3, <5>1
        <5>3. \A s \in Shown(c) : views'[c][q] = views'[c][s] => q = s
          BY <1>2, <2>3, <3>1, <3>3, <4>1, <5>1
        <5>4. views'[c][q] <= n /\ views'[c][q] # n
          BY <5>2
        <5> QED
          BY <2>3, <2>5, <2>6, <3>3, <5>3, <5>4
      <4> QED
        BY <4>2, <4>3
    <3> QED
      BY <3>2, <3>3
  <2>8. ViewsAreNumbered'
    BY <2>3, <2>7 DEF ViewsAreNumbered
  <2>9. \A q \in Products \ {p} : Viewers(q)' = Viewers(q)
    BY <2>5 DEF Viewers, Seen, Alive
  <2>10. Viewers(p)' \subseteq Viewers(p) \cup {c}
    BY <2>5 DEF Viewers, Seen, Alive
  <2> QED
    BY <2>8, <2>9, <2>10
<1> QED
  BY <1>1, <1>2

LEMMA ViewersAreFinite ==
    ASSUME NEW p \in Products
    PROVE  IsFiniteSet(Viewers(p)) /\ Cardinality(Viewers(p)) \in Nat
<1>1. Viewers(p) \subseteq Convs
  BY DEF Viewers
<1> QED
  BY <1>1, TrackingAssumption, Fewer

\* The transaction of trackProductView.
LEMMA TrackKeeps == ASSUME TrackingInv, NEW k \in Trackings, Track(k) PROVE TrackingInv'
<1>0. TrackingTypeOK /\ MentionsAddUp /\ KeywordsFollow
  BY DEF TrackingInv
<1>a. track[k].product \in Products /\ track[k].conv \in Convs /\ track[k].words \in SUBSET Words
  BY <1>0 DEF Track, TrackingTypeOK, TrackingType, NoTracking
<1>b. PICK p \in Products, c \in Convs, w \in SUBSET Words :
          p = track[k].product /\ c = track[k].conv /\ w = track[k].words
  BY <1>a
<1>1. /\ Alive(p)
      /\ trackingPast.tracked[p] < MaxMentions /\ views' = ViewAdded(c, p)
      /\ affinity' = [affinity EXCEPT ![p] = Mentioned(@, w)]
      /\ trackingPast' = [trackingPast EXCEPT !.tracked[p] = @ + 1, !.fresh[p] = w = product[p].words]
      /\ Disturb /\ track' = [track EXCEPT ![k] = NoTracking] /\ UNCHANGED product
  BY <1>b DEF Track
<1>2. /\ rec' \in [Readers -> ReaderType]
      /\ \A r \in Readers : /\ ReaderHolds(r)'
                            /\ rec'[r].pc \in {"ranked", "shown"} => Cardinality(rec'[r].picks) <= Limit
  BY <1>1, DisturbFacts
<1>3. ViewsAreNumbered
  BY <1>0 DEF TrackingTypeOK, ViewsAreNumbered
<1>4. /\ ViewsAreNumbered'
      /\ \A q \in Products \ {p} : Viewers(q)' = Viewers(q)
      /\ Viewers(p)' \subseteq Viewers(p) \cup {c}
  <2> QED
    BY <1>1, <1>3, ViewAddedFacts
<1>5. affinity \in [Products -> AffinityType] /\ affinity[p] \in AffinityType
      /\ affinity[p].mentions = trackingPast.tracked[p]
  BY <1>0, <1>1 DEF TrackingTypeOK, MentionsAddUp
<1>6. PICK n \in 0..MaxMentions : n = affinity[p].mentions + 1 /\ n = trackingPast.tracked[p] + 1
  <2>1. affinity[p].mentions \in 0..MaxMentions
    BY <1>5 DEF AffinityType
  <2>2. affinity[p].mentions + 1 \in 0..MaxMentions
    BY <1>1, <1>5, <2>1, TrackingAssumption
  <2> QED
    BY <1>5, <2>2
<1>7. /\ affinity' \in [Products -> AffinityType]
      /\ affinity'[p].mentions = n /\ affinity'[p].words = (IF w # {} \/ ~affinity[p].held THEN w ELSE affinity[p].words)
      /\ \A q \in Products \ {p} : affinity'[q] = affinity[q]
  <2>1. PICK a \in AffinityType : a = Mentioned(affinity[p], w)
    <3>1. affinity[p].words \in SUBSET Words
      BY <1>5 DEF AffinityType
    <3>2. Mentioned(affinity[p], w)
            = [held |-> TRUE, mentions |-> n, words |-> IF w # {} \/ ~affinity[p].held THEN w ELSE affinity[p].words]
      BY <1>6 DEF Mentioned
    <3>3. Mentioned(affinity[p], w) \in AffinityType
      BY <1>1, <3>1, <3>2 DEF AffinityType
    <3> QED
      BY <3>3
  <2>2. affinity' = [affinity EXCEPT ![p] = a]
    BY <1>1, <1>5, <2>1
  <2>3. a.mentions = n /\ a.words = (IF w # {} \/ ~affinity[p].held THEN w ELSE affinity[p].words)
    BY <1>6, <2>1 DEF Mentioned
  <2> QED
    BY <1>1, <1>5, <2>2, <2>3
<1>8. /\ trackingPast' \in [tracked : [Products -> 0..MaxMentions], fresh : [Products -> BOOLEAN],
                            changes : 0..MaxChanges]
      /\ trackingPast'.tracked[p] = n
      /\ trackingPast'.fresh[p] <=> w = product[p].words
      /\ \A q \in Products \ {p} : /\ trackingPast'.tracked[q] = trackingPast.tracked[q]
                                   /\ trackingPast'.fresh[q] <=> trackingPast.fresh[q]
  <2>1. trackingPast \in [tracked : [Products -> 0..MaxMentions], fresh : [Products -> BOOLEAN],
                          changes : 0..MaxChanges]
    BY <1>0 DEF TrackingTypeOK
  <2>2. PICK f \in BOOLEAN : f <=> w = product[p].words
    OBVIOUS
  <2>3. trackingPast' = [trackingPast EXCEPT !.tracked[p] = n, !.fresh[p] = f]
    BY <1>1, <1>6, <2>1, <2>2
  <2>4. /\ trackingPast'.tracked = [trackingPast.tracked EXCEPT ![p] = n]
        /\ trackingPast'.fresh = [trackingPast.fresh EXCEPT ![p] = f]
        /\ trackingPast'.changes = trackingPast.changes
        /\ trackingPast' = [tracked |-> trackingPast'.tracked, fresh |-> trackingPast'.fresh,
                            changes |-> trackingPast'.changes]
    BY <2>1, <2>3
  <2>5. /\ trackingPast'.tracked \in [Products -> 0..MaxMentions]
        /\ trackingPast'.tracked[p] = n
        /\ \A q \in Products \ {p} : trackingPast'.tracked[q] = trackingPast.tracked[q]
    BY <1>6, <2>1, <2>4
  <2>6. /\ trackingPast'.fresh \in [Products -> BOOLEAN]
        /\ trackingPast'.fresh[p] <=> f
        /\ \A q \in Products \ {p} : trackingPast'.fresh[q] <=> trackingPast.fresh[q]
    BY <2>1, <2>2, <2>4
  <2> QED
    BY <2>1, <2>2, <2>4, <2>5, <2>6
<1>9. TrackingTypeOK'
  <2>1. track' \in [Trackings -> TrackingType]
    BY <1>0, <1>1 DEF TrackingTypeOK, TrackingType
  <2>2. \A q \in Products : Alive(q)' \/ affinity'[q] = NoAffinity
    BY <1>0, <1>1, <1>7 DEF TrackingTypeOK, Alive
  <2> QED
    BY <1>0, <1>1, <1>2, <1>4, <1>7, <1>8, <2>1, <2>2 DEF TrackingTypeOK, ViewsAreNumbered
<1>10. MentionsAddUp'
  <2>1. ASSUME NEW q \in Products
        PROVE  affinity'[q].mentions = trackingPast'.tracked[q]
               /\ affinity'[q].mentions >= Cardinality(Viewers(q)')
    <3>1. affinity[q].mentions = trackingPast.tracked[q] /\ affinity[q].mentions >= Cardinality(Viewers(q))
      BY <1>0 DEF MentionsAddUp
    <3>2. CASE q # p
      BY <1>4, <1>7, <1>8, <3>1, <3>2
    <3>3. CASE q = p
      <4>1. Cardinality(Viewers(p)') <= Cardinality(Viewers(p)) + 1 /\ Cardinality(Viewers(p)') \in Nat
            /\ Cardinality(Viewers(p)) \in Nat
        <5>1. /\ IsFiniteSet(Viewers(p) \cup {c}) /\ Cardinality(Viewers(p)) \in Nat
              /\ Cardinality(Viewers(p) \cup {c}) <= Cardinality(Viewers(p)) + 1
          BY <1>1, ViewersAreFinite, OneMore
        <5>2. /\ Cardinality(Viewers(p)') \in Nat /\ Cardinality(Viewers(p) \cup {c}) \in Nat
              /\ Cardinality(Viewers(p)') <= Cardinality(Viewers(p) \cup {c})
          BY <1>4, <5>1, Fewer
        <5> QED
          BY <5>1, <5>2
      <4>2. affinity[p].mentions \in Nat
        BY <1>5 DEF AffinityType
      <4>3. n >= Cardinality(Viewers(p)')
        BY <1>6, <3>1, <3>3, <4>1, <4>2
      <4> QED
        BY <1>7, <1>8, <3>3, <4>3
    <3> QED
      BY <3>2, <3>3
  <2> QED
    BY <2>1 DEF MentionsAddUp
<1>11. KeywordsFollow'
  <2>1. ASSUME NEW q \in Products, trackingPast'.fresh[q], product[q].words # {}
        PROVE  affinity'[q].words = product[q].words
    <3>1. CASE q # p
      BY <1>0, <1>7, <1>8, <2>1, <3>1 DEF KeywordsFollow
    <3>2. CASE q = p
      BY <1>7, <1>8, <2>1, <3>2
    <3> QED
      BY <3>1, <3>2
  <2> QED
    BY <1>1, <2>1 DEF KeywordsFollow
<1> QED
  BY <1>2, <1>9, <1>10, <1>11 DEF TrackingInv

\* An edit of a product, which nobody's views are part of.
LEMMA UpdateKeeps ==
    ASSUME TrackingInv, NEW p \in Products, NEW active \in BOOLEAN, NEW words \in SUBSET Words,
           UpdateProduct(p, [alive |-> TRUE, active |-> active, words |-> words])
    PROVE  TrackingInv'
<1>0. TrackingTypeOK /\ MentionsAddUp /\ KeywordsFollow
  BY DEF TrackingInv
<1>1. PICK row \in ProductType : /\ row = [alive |-> TRUE, active |-> active, words |-> words]
                                 /\ row.alive /\ row.words = words
  <2>1. PICK row : row = [alive |-> TRUE, active |-> active, words |-> words]
    OBVIOUS
  <2>2. row \in ProductType
    BY <2>1 DEF ProductType
  <2>3. row.alive = TRUE /\ row.words = words
    BY <2>1
  <2> QED
    BY <2>1, <2>2, <2>3
<1>2. /\ Alive(p) /\ trackingPast.changes < MaxChanges /\ product' = [product EXCEPT ![p] = row] /\ Disturb
      /\ trackingPast' = [trackingPast EXCEPT !.changes = @ + 1, !.fresh[p] = @ /\ words = product[p].words]
      /\ UNCHANGED <<views, affinity, track>>
  BY <1>1 DEF UpdateProduct, Change
<1>3. /\ rec' \in [Readers -> ReaderType]
      /\ \A r \in Readers : /\ ReaderHolds(r)'
                            /\ rec'[r].pc \in {"ranked", "shown"} => Cardinality(rec'[r].picks) <= Limit
  BY <1>2, DisturbFacts
<1>4. /\ product' \in [Products -> ProductType] /\ product'[p] = row
      /\ \A q \in Products \ {p} : product'[q] = product[q]
  BY <1>0, <1>2 DEF TrackingTypeOK
<1>5. \A q \in Products : Alive(q)' <=> Alive(q)
  BY <1>1, <1>2, <1>4 DEF Alive
<1>6. \A d \in Convs : Shown(d)' = Shown(d) /\ Seen(d)' = Seen(d)
  BY <1>2, <1>5 DEF Seen, Shown
<1>7. \A q \in Products : Viewers(q)' = Viewers(q)
  BY <1>6 DEF Viewers
<1>8. /\ trackingPast' \in [tracked : [Products -> 0..MaxMentions], fresh : [Products -> BOOLEAN],
                            changes : 0..MaxChanges]
      /\ trackingPast'.tracked = trackingPast.tracked
      /\ trackingPast'.fresh[p] <=> trackingPast.fresh[p] /\ words = product[p].words
      /\ \A q \in Products \ {p} : trackingPast'.fresh[q] <=> trackingPast.fresh[q]
  <2>1. trackingPast \in [tracked : [Products -> 0..MaxMentions], fresh : [Products -> BOOLEAN],
                          changes : 0..MaxChanges]
    BY <1>0 DEF TrackingTypeOK
  <2>2. PICK f \in BOOLEAN : f <=> trackingPast.fresh[p] /\ words = product[p].words
    OBVIOUS
  <2>3. PICK n \in 0..MaxChanges : n = trackingPast.changes + 1
    BY <1>2, <2>1, TrackingAssumption
  <2>4. trackingPast' = [trackingPast EXCEPT !.changes = n, !.fresh[p] = f]
    <3>1. (trackingPast.fresh[p] /\ words = product[p].words) = f
      BY <2>1, <2>2
    <3> QED
      BY <1>2, <2>1, <2>3, <3>1
  <2>5. /\ trackingPast'.tracked = trackingPast.tracked
        /\ trackingPast'.fresh = [trackingPast.fresh EXCEPT ![p] = f]
        /\ trackingPast'.changes = n
        /\ trackingPast' = [tracked |-> trackingPast'.tracked, fresh |-> trackingPast'.fresh,
                            changes |-> trackingPast'.changes]
    BY <2>1, <2>4
  <2> QED
    BY <2>1, <2>2, <2>5
<1>9. TrackingTypeOK'
  <2>1. \A q \in Products : Alive(q)' \/ affinity'[q] = NoAffinity
    BY <1>0, <1>2, <1>5 DEF TrackingTypeOK
  <2> QED
    BY <1>0, <1>2, <1>3, <1>4, <1>6, <1>8, <2>1 DEF TrackingTypeOK
<1>10. MentionsAddUp'
  BY <1>0, <1>2, <1>7, <1>8 DEF MentionsAddUp
<1>11. KeywordsFollow'
  <2>1. ASSUME NEW q \in Products, trackingPast'.fresh[q], product'[q].words # {}
        PROVE  affinity[q].words = product'[q].words
    BY <1>0, <1>1, <1>4, <1>8, <2>1 DEF KeywordsFollow
  <2> QED
    BY <1>2, <2>1 DEF KeywordsFollow
<1> QED
  BY <1>3, <1>9, <1>10, <1>11 DEF TrackingInv

LEMMA RemoveKeeps == ASSUME TrackingInv, NEW p \in Products, RemoveProduct(p) PROVE TrackingInv'
<1>0. TrackingTypeOK /\ MentionsAddUp /\ KeywordsFollow
  BY DEF TrackingInv
<1>1. PICK row \in ProductType : /\ row = [product[p] EXCEPT !.alive = FALSE]
                                 /\ ~row.alive
  <2>1. product[p] \in ProductType
    BY <1>0 DEF TrackingTypeOK
  <2>2. PICK row : row = [product[p] EXCEPT !.alive = FALSE]
    OBVIOUS
  <2>3. row \in ProductType /\ row.alive = FALSE
    BY <2>1, <2>2 DEF ProductType
  <2> QED
    BY <2>2, <2>3
<1>2. /\ Alive(p) /\ trackingPast.changes < MaxChanges /\ product' = [product EXCEPT ![p] = row] /\ Disturb
      /\ affinity' = [affinity EXCEPT ![p] = NoAffinity]
      /\ trackingPast' = [trackingPast EXCEPT !.changes = @ + 1, !.tracked[p] = 0, !.fresh[p] = FALSE]
      /\ UNCHANGED <<views, track>>
  BY <1>1 DEF RemoveProduct, Change
<1>3. /\ rec' \in [Readers -> ReaderType]
      /\ \A r \in Readers : /\ ReaderHolds(r)'
                            /\ rec'[r].pc \in {"ranked", "shown"} => Cardinality(rec'[r].picks) <= Limit
  BY <1>2, DisturbFacts
<1>4. /\ product' \in [Products -> ProductType] /\ product'[p] = row
      /\ \A q \in Products \ {p} : product'[q] = product[q]
  BY <1>0, <1>2 DEF TrackingTypeOK
<1>5. ~Alive(p)' /\ \A q \in Products \ {p} : Alive(q)' <=> Alive(q)
  BY <1>1, <1>4 DEF Alive
<1>6. \A d \in Convs : Shown(d)' = Shown(d) /\ Seen(d)' = Seen(d) \ {p}
  <2>1. \A d \in Convs : Shown(d)' = Shown(d)
    BY <1>2 DEF Shown
  <2> QED
    BY <1>5, <2>1 DEF Seen, Shown
<1>7. Viewers(p)' = {} /\ \A q \in Products \ {p} : Viewers(q)' = Viewers(q)
  BY <1>6 DEF Viewers
<1>8. /\ trackingPast' \in [tracked : [Products -> 0..MaxMentions], fresh : [Products -> BOOLEAN],
                            changes : 0..MaxChanges]
      /\ trackingPast'.tracked[p] = 0 /\ ~trackingPast'.fresh[p]
      /\ \A q \in Products \ {p} : /\ trackingPast'.tracked[q] = trackingPast.tracked[q]
                                   /\ trackingPast'.fresh[q] <=> trackingPast.fresh[q]
  <2>1. trackingPast \in [tracked : [Products -> 0..MaxMentions], fresh : [Products -> BOOLEAN],
                          changes : 0..MaxChanges]
    BY <1>0 DEF TrackingTypeOK
  <2>2. PICK n \in 0..MaxChanges : n = trackingPast.changes + 1
    BY <1>2, <2>1, TrackingAssumption
  <2>3. trackingPast' = [trackingPast EXCEPT !.changes = n, !.tracked[p] = 0, !.fresh[p] = FALSE]
    BY <1>2, <2>1, <2>2
  <2>4. /\ trackingPast'.tracked = [trackingPast.tracked EXCEPT ![p] = 0]
        /\ trackingPast'.fresh = [trackingPast.fresh EXCEPT ![p] = FALSE]
        /\ trackingPast'.changes = n
        /\ trackingPast' = [tracked |-> trackingPast'.tracked, fresh |-> trackingPast'.fresh,
                            changes |-> trackingPast'.changes]
    BY <2>1, <2>3
  <2>5. 0 \in 0..MaxMentions
    BY TrackingAssumption
  <2> QED
    BY <2>1, <2>2, <2>4, <2>5
<1>9. NoAffinity \in AffinityType
  BY TrackingAssumption DEF NoAffinity, AffinityType
<1>10. affinity' \in [Products -> AffinityType] /\ affinity'[p] = NoAffinity
       /\ \A q \in Products \ {p} : affinity'[q] = affinity[q]
  BY <1>0, <1>2, <1>9 DEF TrackingTypeOK
<1>11. TrackingTypeOK'
  <2>1. \A q \in Products : Alive(q)' \/ affinity'[q] = NoAffinity
    BY <1>0, <1>5, <1>10 DEF TrackingTypeOK
  <2> QED
    BY <1>0, <1>2, <1>3, <1>4, <1>6, <1>8, <1>10, <2>1 DEF TrackingTypeOK
<1>12. MentionsAddUp'
  <2>1. affinity'[p].mentions = 0 /\ Cardinality(Viewers(p)') = 0
    BY <1>7, <1>10, FS_EmptySet DEF NoAffinity
  <2> QED
    BY <1>0, <1>7, <1>8, <1>10, <2>1 DEF MentionsAddUp
<1>13. KeywordsFollow'
  BY <1>0, <1>4, <1>8, <1>10 DEF KeywordsFollow
<1> QED
  BY <1>3, <1>11, <1>12, <1>13 DEF TrackingInv

\* A step of one reader, which only reads.
LEMMA ReaderSteps ==
    ASSUME TrackingInv, NEW r \in Readers, NEW a \in ReaderType, rec' = [rec EXCEPT ![r] = a],
           UNCHANGED <<product, views, affinity, track, trackingPast>>,
           a.pc \in {"ranked", "shown"} => Cardinality(a.picks) <= Limit,
           ReaderHolds(r)'
    PROVE  TrackingInv'
<1>0. TrackingTypeOK /\ MentionsAddUp /\ KeywordsFollow /\ \A s \in Readers : ReaderHolds(s)
  BY DEF TrackingInv
<1>1. rec' \in [Readers -> ReaderType] /\ rec'[r] = a /\ \A s \in Readers \ {r} : rec'[s] = rec[s]
  BY <1>0 DEF TrackingTypeOK
<1>2. \A s \in Readers \ {r} : ReaderHolds(s)'
  BY <1>0, <1>1, ReaderStays
<1>3. \A d \in Convs : Shown(d)' = Shown(d) /\ Seen(d)' = Seen(d)
  BY DEF Shown, Seen, Alive
<1>4. MentionsAddUp' /\ KeywordsFollow'
  BY <1>0, <1>3 DEF MentionsAddUp, KeywordsFollow, Viewers
<1>5. TrackingTypeOK'
  BY <1>0, <1>1, <1>3 DEF TrackingTypeOK, Alive
<1> QED
  BY <1>2, <1>4, <1>5 DEF TrackingInv

LEMMA FindViewedKeeps ==
    ASSUME TrackingInv, NEW r \in Readers, NEW c \in Convs, FindViewed(r, c)
    PROVE  TrackingInv'
<1>0. TrackingTypeOK
  BY DEF TrackingInv
<1>1. PICK viewed \in ViewedBy(c) :
          rec' = [rec EXCEPT ![r] = [NoReader EXCEPT !.pc = "viewed", !.viewed = viewed,
                                                     !.latest = Latest(c)]]
  BY DEF FindViewed
<1>2. PICK latest : latest = Latest(c)
  OBVIOUS
<1>3. /\ IsFiniteSet(Seen(c)) /\ Seen(c) \subseteq Products /\ Seen(c) \subseteq Shown(c)
      /\ Cardinality(Seen(c)) \in Nat /\ ViewCap \in Nat \ {0}
  BY ShownAreFinite, FS_CardinalityType, TrackingAssumption
<1>4. /\ viewed \subseteq Seen(c) /\ Cardinality(viewed) \in Nat
      /\ Cardinality(Seen(c)) <= ViewCap => viewed = Seen(c)
      /\ viewed # Seen(c) => Cardinality(viewed) = ViewCap
      /\ \A p \in viewed, q \in Seen(c) \ viewed : views[c][p] >= views[c][q]
  BY <1>3, BestFacts DEF ViewedBy
<1>5. latest \subseteq viewed
  <2> SUFFICES ASSUME NEW p \in latest, p \notin viewed PROVE FALSE
    OBVIOUS
  <2>1. p \in Seen(c) /\ (Cardinality(Seen(c)) <= ViewCap \/ \A q \in Seen(c) : views[c][q] <= views[c][p])
    BY <1>2 DEF Latest
  <2>2. viewed # Seen(c) /\ Cardinality(viewed) = ViewCap /\ \A q \in Seen(c) : views[c][q] <= views[c][p]
    BY <1>4, <2>1
  <2>3. viewed # {}
    BY <1>3, <2>2, FS_EmptySet
  <2>4. PICK q \in viewed : TRUE
    BY <2>3
  <2>5. q \in Seen(c) /\ q \in Shown(c) /\ q \in Products /\ p \in Products /\ q # p
    BY <1>3, <1>4, <2>1, <2>4
  <2>6. views[c][q] >= views[c][p] /\ views[c][q] <= views[c][p]
    BY <1>4, <2>1, <2>2, <2>5
  <2>7. views[c][q] \in Nat /\ views[c][p] \in Nat
    BY <1>0, <2>5 DEF TrackingTypeOK
  <2>8. views[c][p] = views[c][q]
    BY <2>6, <2>7
  <2> QED
    BY <1>0, <2>5, <2>8 DEF TrackingTypeOK
<1>6. PICK a \in ReaderType : /\ a = [NoReader EXCEPT !.pc = "viewed", !.viewed = viewed, !.latest = latest]
                              /\ a.pc = "viewed" /\ a.viewed = viewed /\ a.latest = latest
  <2>1. viewed \in SUBSET Products /\ latest \in SUBSET Products
    BY <1>3, <1>4, <1>5
  <2>2. PICK a : a = [NoReader EXCEPT !.pc = "viewed", !.viewed = viewed, !.latest = latest]
    OBVIOUS
  <2>3. a \in ReaderType /\ a.pc = "viewed" /\ a.viewed = viewed /\ a.latest = latest
    BY <2>1, <2>2 DEF NoReader, ReaderType
  <2> QED
    BY <2>2, <2>3
<1>7. rec' = [rec EXCEPT ![r] = a] /\ rec'[r] = a /\ UNCHANGED <<product, views, affinity, track, trackingPast>>
  BY <1>0, <1>1, <1>2, <1>6 DEF FindViewed, TrackingTypeOK
<1>8. ReaderHolds(r)'
  BY <1>5, <1>6, <1>7 DEF ReaderHolds, PicksAreNew, WordsAreSought, ListIsExplained
<1> QED
  BY <1>6, <1>7, <1>8, ReaderSteps

LEMMA FindWordsKeeps == ASSUME TrackingInv, NEW r \in Readers, FindWords(r) PROVE TrackingInv'
<1>0. TrackingTypeOK /\ ReaderHolds(r)
  BY DEF TrackingInv
<1>1. PICK viewed \in SUBSET Products : viewed = rec[r].viewed
  BY <1>0, ReaderTypes
<1>2. PICK words \in Keywords(viewed) :
          rec' = [rec EXCEPT ![r] = [@ EXCEPT !.pc = "words", !.words = words]]
  BY <1>1 DEF FindWords
<1>2a. words \in SUBSET Words
  <2>1. \A p \in viewed : affinity[p].words \in SUBSET Words
    BY <1>0, <1>1 DEF TrackingTypeOK, AffinityType
  <2>2. Sought(viewed) \in SUBSET Words
    BY <2>1, TrackingAssumption DEF Sought
  <2> QED
    BY <1>2, <2>2 DEF Keywords, Cut
<1>3. PICK a \in ReaderType : /\ a = [rec[r] EXCEPT !.pc = "words", !.words = words]
                              /\ a.pc = "words" /\ a.words = words
                              /\ a.viewed = viewed /\ a.latest = rec[r].latest
  <2>1. PICK a : a = [rec[r] EXCEPT !.pc = "words", !.words = words]
    OBVIOUS
  <2>2. a \in ReaderType /\ a.pc = "words" /\ a.words = words /\ a.viewed = viewed
        /\ a.latest = rec[r].latest
    BY <1>0, <1>1, <1>2a, <2>1, ReaderTypes DEF ReaderType
  <2> QED
    BY <2>1, <2>2
<1>4. rec' = [rec EXCEPT ![r] = a] /\ rec'[r] = a /\ UNCHANGED <<product, views, affinity, track, trackingPast>>
  BY <1>0, <1>1, <1>2, <1>3 DEF FindWords, TrackingTypeOK
<1>5. ReaderHolds(r)'
  <2>1. Sought(rec[r].viewed)' = Sought(viewed)
    BY <1>3, <1>4 DEF Sought
  <2>2. words \in Keywords(rec[r].viewed)'
    BY <1>2, <2>1 DEF Keywords, Cut
  <2> QED
    BY <1>0, <1>1, <1>2, <1>3, <1>4, <2>2 DEF ReaderHolds, PicksAreNew, WordsAreSought, ListIsExplained
<1> QED
  BY <1>3, <1>4, <1>5, ReaderSteps

LEMMA FindSimilarKeeps == ASSUME TrackingInv, NEW r \in Readers, FindSimilar(r) PROVE TrackingInv'
<1>0. TrackingTypeOK /\ ReaderHolds(r)
  BY DEF TrackingInv
<1>1. PICK viewed \in SUBSET Products, words \in SUBSET Words : viewed = rec[r].viewed /\ words = rec[r].words
  BY <1>0, ReaderTypes
<1>2. PICK picks \in Best(Similar(viewed, words), SimilarCap, Created) :
          rec' = [rec EXCEPT ![r] = [@ EXCEPT !.pc = "similar", !.picks = picks]]
  BY <1>1 DEF FindSimilar
<1>3. picks \subseteq Similar(viewed, words) /\ picks \in SUBSET Products /\ picks \cap viewed = {}
  BY <1>2 DEF Best, Cut, Similar
<1>4. PICK a \in ReaderType : /\ a = [rec[r] EXCEPT !.pc = "similar", !.picks = picks]
                              /\ a.pc = "similar" /\ a.words = words /\ a.picks = picks
                              /\ a.viewed = viewed /\ a.latest = rec[r].latest
                              /\ a.disturbed <=> rec[r].disturbed
  <2>1. PICK a : a = [rec[r] EXCEPT !.pc = "similar", !.picks = picks]
    OBVIOUS
  <2>2. a \in ReaderType /\ a.pc = "similar" /\ a.words = words /\ a.picks = picks /\ a.viewed = viewed
        /\ a.latest = rec[r].latest /\ a.disturbed = rec[r].disturbed
    BY <1>0, <1>1, <1>3, <2>1, ReaderTypes DEF ReaderType
  <2> QED
    BY <2>1, <2>2
<1>5. /\ rec' = [rec EXCEPT ![r] = a] /\ rec'[r] = a /\ rec[r].pc = "words"
      /\ UNCHANGED <<product, views, affinity, track, trackingPast>>
  BY <1>0, <1>2, <1>4 DEF FindSimilar, TrackingTypeOK
<1>6. WordsAreSought(r)'
  <2>1. Sought(rec[r].viewed)' = Sought(viewed)
    BY <1>4, <1>5 DEF Sought
  <2>2. Best(Similar(rec[r].viewed, rec[r].words), SimilarCap, Created)'
            = Best(Similar(viewed, words), SimilarCap, Created)
    <3>1. Similar(rec[r].viewed, rec[r].words)' = Similar(viewed, words)
      BY <1>4, <1>5 DEF Similar, Active
    <3> QED
      BY <3>1 DEF Best, Cut, Created
  <2>3. ~rec[r].disturbed => words \in Keywords(rec[r].viewed)'
    BY <1>0, <1>1, <1>5, <2>1 DEF ReaderHolds, WordsAreSought, Keywords, Cut
  <2> QED
    BY <1>2, <1>4, <1>5, <2>2, <2>3 DEF WordsAreSought
<1>7. PicksAreNew(r)' /\ ListIsExplained(r)'
  BY <1>0, <1>1, <1>3, <1>4, <1>5 DEF ReaderHolds, PicksAreNew, ListIsExplained
<1> QED
  BY <1>4, <1>5, <1>6, <1>7, ReaderSteps DEF ReaderHolds

LEMMA ShowKeeps == ASSUME TrackingInv, NEW r \in Readers, Show(r) PROVE TrackingInv'
<1>0. TrackingTypeOK /\ ReaderHolds(r) /\ rec[r].pc = "ranked"
  BY DEF TrackingInv, Show
<1>1. PICK picks \in SUBSET Products : picks = {p \in rec[r].picks : Active(p)}
  <2>1. {p \in rec[r].picks : Active(p)} \in SUBSET Products
    BY <1>0, ReaderTypes
  <2> QED
    BY <2>1
<1>2. PICK a \in ReaderType : /\ a = [rec[r] EXCEPT !.pc = "shown", !.picks = picks]
                              /\ a.pc = "shown" /\ a.picks = picks
                              /\ a.viewed = rec[r].viewed /\ a.latest = rec[r].latest
                              /\ a.disturbed <=> rec[r].disturbed
  <2>1. PICK a : a = [rec[r] EXCEPT !.pc = "shown", !.picks = picks]
    OBVIOUS
  <2>2. a \in ReaderType /\ a.pc = "shown" /\ a.picks = picks /\ a.viewed = rec[r].viewed
        /\ a.latest = rec[r].latest /\ a.disturbed = rec[r].disturbed
    BY <1>0, <2>1, ReaderTypes DEF ReaderType
  <2> QED
    BY <2>1, <2>2
<1>3. rec' = [rec EXCEPT ![r] = a] /\ rec'[r] = a /\ UNCHANGED <<product, views, affinity, track, trackingPast>>
  BY <1>0, <1>1, <1>2 DEF Show, TrackingTypeOK
<1>4. Cardinality(picks) <= Limit
  <2>1. IsFiniteSet(rec[r].picks) /\ Cardinality(rec[r].picks) <= Limit /\ picks \subseteq rec[r].picks
    BY <1>0, <1>1, ReaderTypes DEF TrackingTypeOK
  <2>2. Cardinality(picks) <= Cardinality(rec[r].picks) /\ Cardinality(picks) \in Nat
        /\ Cardinality(rec[r].picks) \in Nat
    BY <2>1, Fewer
  <2> QED
    BY <2>1, <2>2, TrackingAssumption
<1>5. ListIsExplained(r)'
  <2> SUFFICES ASSUME ~rec[r].disturbed, NEW p \in Products, Active(p), p \notin rec[r].viewed,
                      \A q \in picks : ~Active(q)
               PROVE  CrowdedOut(r, p)'
    BY <1>2, <1>3 DEF ListIsExplained, Active
  <2>1. CrowdedOut(r, p)
    BY <1>0, <1>1 DEF ReaderHolds, ListIsExplained
  <2> QED
    BY <1>2, <1>3, <2>1 DEF CrowdedOut, Sought, Rivals, Held, Active
<1>6. PicksAreNew(r)' /\ WordsAreSought(r)'
  BY <1>0, <1>1, <1>2, <1>3 DEF ReaderHolds, PicksAreNew, WordsAreSought
<1> QED
  BY <1>2, <1>3, <1>4, <1>5, <1>6, ReaderSteps DEF ReaderHolds

\* How many a filled list holds.
LEMMA FilledFits ==
    ASSUME NEW S \in SUBSET Products, NEW V \in SUBSET Products, NEW top \in SUBSET Products,
           NEW T \in Filled(S, V, top)
    PROVE  /\ T \in SUBSET Products /\ Cardinality(T) <= Limit
           /\ S \cap V = {} => T \cap V = {}
<1>0. /\ IsFiniteSet(S) /\ IsFiniteSet(top \ (V \cup S)) /\ Cardinality(S) \in Nat /\ Limit \in Nat
  <2>1. IsFiniteSet(Products) /\ S \subseteq Products /\ top \ (V \cup S) \subseteq Products
    BY TrackingAssumption
  <2> QED
    BY <2>1, Fewer, TrackingAssumption
<1>1. CASE Cardinality(S) >= Limit
  <2>1. T \in Best(S, Limit, Created)
    BY <1>1 DEF Filled
  <2>2. T \subseteq S /\ Cardinality(T) <= Limit
    BY <1>0, <2>1, BestFacts
  <2> QED
    BY <2>2
<1>2. CASE ~(Cardinality(S) >= Limit)
  <2>1. PICK more \in Best(top \ (V \cup S), Limit - Cardinality(S), Mentions) : T = S \cup more
    BY <1>2 DEF Filled
  <2>2. PICK n \in Nat : n = Limit - Cardinality(S)
    BY <1>0, <1>2
  <2>3. /\ more \subseteq top \ (V \cup S) /\ IsFiniteSet(more)
        /\ Cardinality(more) \in Nat /\ Cardinality(more) <= n
    BY <1>0, <2>1, <2>2, BestFacts
  <2>4. Cardinality(S \cup more) = Cardinality(S) + Cardinality(more) - Cardinality(S \cap more)
    BY <1>0, <2>3, FS_Union
  <2>5. S \cap more = {} /\ Cardinality(S \cap more) = 0
    BY <2>3, FS_EmptySet
  <2>6. Cardinality(T) <= Limit
    BY <1>0, <2>1, <2>2, <2>3, <2>4, <2>5
  <2> QED
    BY <2>1, <2>3, <2>6
<1> QED
  BY <1>1, <1>2

\* When nothing active is on a list, nothing similar was found, and p was crowded out.
LEMMA FilledExplains ==
    ASSUME TrackingTypeOK, NEW V \in SUBSET Products, NEW S \in SUBSET Products,
           NEW W \in Keywords(V), S \in Best(Similar(V, W), SimilarCap, Created),
           NEW top \in Rankings, NEW T \in Filled(S, V, top), \A q \in T : ~Active(q),
           NEW p \in Products, Active(p), p \notin V
    PROVE  /\ \/ \A v \in V, w \in product[p].words : w \in affinity[v].words /\ w # Empty => Lower[w] # w
              \/ Cardinality(Sought(V)) > WordCap
           /\ \/ ~affinity[p].held
              \/ Cardinality(Rivals(p)) >= TopCap
              \/ Cardinality({q \in Rivals(p) \ V : ~Active(q)}) >= Limit
<1>0. /\ IsFiniteSet(Products) /\ IsFiniteSet(Similar(V, W)) /\ IsFiniteSet(S) /\ IsFiniteSet(Held)
      /\ IsFiniteSet(Rivals(p)) /\ Cardinality(Rivals(p)) \in Nat /\ Rivals(p) \subseteq Products
      /\ Held \subseteq Products
      /\ Limit \in Nat \ {0} /\ SimilarCap \in Nat \ {0} /\ TopCap \in Nat \ {0}
  <2>1. /\ IsFiniteSet(Products) /\ Similar(V, W) \subseteq Products /\ S \subseteq Products
        /\ Held \subseteq Products /\ Rivals(p) \subseteq Products
    BY TrackingAssumption DEF Similar, Held, Rivals
  <2> QED
    BY <2>1, Fewer, TrackingAssumption
<1>1. S \subseteq Similar(V, W) /\ \A q \in S : Active(q)
  BY DEF Best, Cut, Similar
<1>2. Cardinality({}) = 0
  BY FS_EmptySet
<1>3. S = {} /\ Similar(V, W) = {}
  <2>1. S = {}
    <3>1. CASE Cardinality(S) >= Limit
      <4>1. T \in Best(S, Limit, Created)
        BY <3>1 DEF Filled
      <4>2. T \subseteq S
        BY <4>1 DEF Best, Cut
      <4>3. T = {}
        BY <1>1, <4>2
      <4> QED
        BY <1>0, <4>1, <4>3, NothingBest
    <3>2. CASE ~(Cardinality(S) >= Limit)
      <4>1. S \subseteq T
        BY <3>2 DEF Filled
      <4> QED
        BY <1>1, <4>1
    <3> QED
      BY <3>1, <3>2
  <2> QED
    BY <1>0, <2>1, NothingBest
<1>4. \/ \A v \in V, w \in product[p].words : w \in affinity[v].words /\ w # Empty => Lower[w] # w
      \/ Cardinality(Sought(V)) > WordCap
  <2> SUFFICES ASSUME NEW v \in V, NEW w \in product[p].words, w \in affinity[v].words, w # Empty,
                      Lower[w] = w, ~(Cardinality(Sought(V)) > WordCap)
               PROVE  FALSE
    OBVIOUS
  <2>1. w \in W
    <3>1. IsFiniteSet(Sought(V))
      <4>1. \A q \in V : affinity[q].words \in SUBSET Words
        BY DEF TrackingTypeOK, AffinityType
      <4>2. Sought(V) \subseteq Words
        BY <4>1, TrackingAssumption DEF Sought
      <4> QED
        BY <4>2, FS_Subset, TrackingAssumption
    <3>2. Cardinality(W) = Cardinality(Sought(V)) /\ W \subseteq Sought(V)
      <4>1. Cardinality(Sought(V)) \in Nat /\ WordCap \in Nat
        BY <3>1, FS_CardinalityType, TrackingAssumption
      <4> QED
        BY <4>1 DEF Keywords, Cut
    <3>3. W = Sought(V)
      BY <3>1, <3>2, FS_Subset
    <3> QED
      BY <3>3 DEF Sought
  <2>2. p \in Similar(V, W)
    BY <2>1 DEF Similar
  <2> QED
    BY <1>3, <2>2
<1>5. ASSUME affinity[p].held, ~(Cardinality(Rivals(p)) >= TopCap)
      PROVE  Cardinality({q \in Rivals(p) \ V : ~Active(q)}) >= Limit
  <2>1. p \in Held
    BY <1>5 DEF Held
  <2>2. /\ top \subseteq Held /\ (top # Held => Cardinality(top) = TopCap)
        /\ \A q \in top, s \in Held \ top : Mentions[q] >= Mentions[s]
    BY <1>0, BestFacts DEF Rankings
  <2>3. p \in top
    <3> SUFFICES ASSUME p \notin top PROVE FALSE
      OBVIOUS
    <3>1. \A q \in top : Mentions[q] >= Mentions[p]
      BY <2>1, <2>2
    <3>2. top \subseteq Rivals(p)
      BY <1>0, <2>2, <3>1 DEF Rivals, Mentions
    <3>3. Cardinality(top) = TopCap /\ Cardinality(top) <= Cardinality(Rivals(p))
      BY <1>0, <2>1, <2>2, <3>2, Fewer
    <3> QED
      BY <1>0, <1>5, <3>3
  <2>4. T \in Best(top \ V, Limit, Mentions)
    <3>1. ~(Cardinality(S) >= Limit) /\ Limit - Cardinality(S) = Limit /\ V \cup S = V
      BY <1>0, <1>2, <1>3
    <3>2. Filled(S, V, top) = {S \cup more : more \in Best(top \ V, Limit, Mentions)}
      BY <3>1 DEF Filled
    <3> QED
      BY <1>3, <3>2
  <2>5. IsFiniteSet(top \ V)
    <3>1. top \ V \subseteq Products
      BY <1>0, <2>2
    <3> QED
      BY <1>0, <3>1, Fewer
  <2>6. /\ T \subseteq top \ V /\ (T # top \ V => Cardinality(T) = Limit)
        /\ \A q \in T, s \in (top \ V) \ T : Mentions[q] >= Mentions[s]
    BY <1>0, <2>4, <2>5, BestFacts
  <2>7. p \in (top \ V) \ T
    BY <2>3
  <2>8. Cardinality(T) = Limit /\ \A q \in T : Mentions[q] >= Mentions[p]
    BY <2>6, <2>7
  <2>9. T \subseteq {q \in Rivals(p) \ V : ~Active(q)}
    BY <1>0, <2>2, <2>6, <2>7, <2>8 DEF Rivals, Mentions
  <2>10. IsFiniteSet({q \in Rivals(p) \ V : ~Active(q)})
    BY <1>0, Fewer
  <2>11. /\ Cardinality(T) <= Cardinality({q \in Rivals(p) \ V : ~Active(q)})
         /\ Cardinality({q \in Rivals(p) \ V : ~Active(q)}) \in Nat
    BY <2>9, <2>10, Fewer
  <2> QED
    BY <1>0, <2>8, <2>11
<1> QED
  BY <1>4, <1>5

LEMMA FindTopKeeps == ASSUME TrackingInv, NEW r \in Readers, FindTop(r) PROVE TrackingInv'
<1>0. TrackingTypeOK /\ ReaderHolds(r) /\ rec[r].pc = "similar"
  BY DEF TrackingInv, FindTop
<1>1. PICK V \in SUBSET Products, S \in SUBSET Products : V = rec[r].viewed /\ S = rec[r].picks
  BY <1>0, ReaderTypes
<1>2. PICK top \in Rankings : \E picks \in Filled(S, V, top) :
          rec' = [rec EXCEPT ![r] = [@ EXCEPT !.pc = "ranked", !.words = {}, !.picks = picks]]
  BY <1>1 DEF FindTop
<1>3. PICK picks \in Filled(S, V, top) :
          rec' = [rec EXCEPT ![r] = [@ EXCEPT !.pc = "ranked", !.words = {}, !.picks = picks]]
  BY <1>2
<1>4. top \in SUBSET Products
  BY DEF Rankings, Best, Cut, Held
<1>5. /\ picks \in SUBSET Products /\ Cardinality(picks) <= Limit
      /\ S \cap V = {} => picks \cap V = {}
  BY <1>4, FilledFits
<1>6. PICK a \in ReaderType : /\ a = [rec[r] EXCEPT !.pc = "ranked", !.words = {}, !.picks = picks]
                              /\ a.pc = "ranked" /\ a.picks = picks
                              /\ a.viewed = V /\ a.latest = rec[r].latest
                              /\ a.disturbed <=> rec[r].disturbed
  <2>1. PICK a : a = [rec[r] EXCEPT !.pc = "ranked", !.words = {}, !.picks = picks]
    OBVIOUS
  <2>2. a \in ReaderType /\ a.pc = "ranked" /\ a.picks = picks /\ a.viewed = V
        /\ a.latest = rec[r].latest /\ a.disturbed = rec[r].disturbed
    BY <1>0, <1>1, <1>5, <2>1, ReaderTypes DEF ReaderType
  <2> QED
    BY <2>1, <2>2
<1>7. rec' = [rec EXCEPT ![r] = a] /\ rec'[r] = a /\ UNCHANGED <<product, views, affinity, track, trackingPast>>
  BY <1>0, <1>3, <1>6 DEF FindTop, TrackingTypeOK
<1>8. ListIsExplained(r)'
  <2> SUFFICES ASSUME ~rec[r].disturbed, NEW p \in Products, Active(p), p \notin V,
                      \A q \in picks : ~Active(q)
               PROVE  CrowdedOut(r, p)'
    BY <1>6, <1>7 DEF ListIsExplained, Active
  <2>1. PICK W \in Keywords(V) : S \in Best(Similar(V, W), SimilarCap, Created)
    BY <1>0, <1>1 DEF ReaderHolds, WordsAreSought
  <2>2. /\ \/ \A v \in V, w \in product[p].words : w \in affinity[v].words /\ w # Empty => Lower[w] # w
           \/ Cardinality(Sought(V)) > WordCap
        /\ \/ ~affinity[p].held
           \/ Cardinality(Rivals(p)) >= TopCap
           \/ Cardinality({q \in Rivals(p) \ V : ~Active(q)}) >= Limit
    BY <1>0, <2>1, FilledExplains
  <2> QED
    <3>1. rec'[r].viewed = V /\ UNCHANGED <<product, affinity>>
      BY <1>6, <1>7
    <3>2. Sought(rec[r].viewed)' = Sought(V)
      BY <3>1 DEF Sought
    <3>3. Rivals(p)' = Rivals(p)
      BY <3>1 DEF Rivals, Held
    <3>4. {q \in Rivals(p) \ rec[r].viewed : ~Active(q)}' = {q \in Rivals(p) \ V : ~Active(q)}
      BY <3>1, <3>3 DEF Active
    <3> QED
      BY <2>2, <3>1, <3>2, <3>3, <3>4 DEF CrowdedOut
<1>9. PicksAreNew(r)' /\ WordsAreSought(r)'
  BY <1>0, <1>1, <1>5, <1>6, <1>7 DEF ReaderHolds, PicksAreNew, WordsAreSought
<1> QED
  BY <1>5, <1>6, <1>7, <1>8, <1>9, ReaderSteps DEF ReaderHolds

\* A call of trackProductView that only reads, or ends without its transaction.
LEMMA TrackingReads ==
    ASSUME TrackingInv, NEW k \in Trackings,
           (\E c \in Convs, p \in Products : FindProduct(k, c, p)) \/ TrackFails(k)
    PROVE  TrackingInv'
<1>0. TrackingTypeOK /\ MentionsAddUp /\ KeywordsFollow /\ \A r \in Readers : ReaderHolds(r)
  BY DEF TrackingInv
<1>1. PICK a \in TrackingType : track' = [track EXCEPT ![k] = a]
  <2>1. CASE TrackFails(k)
    BY <2>1 DEF TrackFails, TrackingType
  <2>2. CASE \E c \in Convs, p \in Products : FindProduct(k, c, p)
    <3>1. PICK c \in Convs, p \in Products : FindProduct(k, c, p)
      BY <2>2
    <3>2. product[p].words \in SUBSET Words
      BY <1>0 DEF TrackingTypeOK, ProductType
    <3> QED
      BY <3>1, <3>2 DEF FindProduct, TrackingType
  <2> QED
    BY <2>1, <2>2
<1>2. UNCHANGED <<product, views, affinity, rec, trackingPast>>
  BY DEF FindProduct, TrackFails
<1>3. track' \in [Trackings -> TrackingType]
  BY <1>0, <1>1 DEF TrackingTypeOK
<1>4. \A d \in Convs : Shown(d)' = Shown(d) /\ Seen(d)' = Seen(d)
  BY <1>2 DEF Shown, Seen, Alive
<1>5. TrackingTypeOK' /\ MentionsAddUp' /\ KeywordsFollow'
  BY <1>0, <1>2, <1>3, <1>4 DEF TrackingTypeOK, MentionsAddUp, KeywordsFollow, Viewers, Alive
<1>6. \A r \in Readers : ReaderHolds(r)'
  BY <1>0, <1>2, ReaderStays
<1> QED
  BY <1>5, <1>6 DEF TrackingInv

LEMMA TrackingInitially == TrackingInit => TrackingInv
<1> SUFFICES ASSUME TrackingInit PROVE TrackingInv
  OBVIOUS
<1>1. /\ product \in [Products -> ProductType] /\ \A p \in Products : Alive(p)
      /\ views = [c \in Convs |-> [p \in Products |-> 0]]
      /\ affinity = [p \in Products |-> NoAffinity]
      /\ track = [k \in Trackings |-> NoTracking]
      /\ rec = [r \in Readers |-> NoReader]
      /\ trackingPast = [tracked |-> [p \in Products |-> 0], fresh |-> [p \in Products |-> FALSE],
                         changes |-> 0]
  BY DEF TrackingInit, ProductType, Alive
<1>2. \A c \in Convs : Shown(c) = {} /\ Seen(c) = {}
  BY <1>1 DEF Shown, Seen
<1>3. Cardinality({}) = 0 /\ MaxMentions \in Nat /\ MaxChanges \in Nat
  BY FS_EmptySet, TrackingAssumption
<1>4. /\ NoAffinity \in AffinityType /\ NoAffinity.mentions = 0
      /\ NoReader \in ReaderType /\ NoReader.pc = "idle" /\ NoReader.latest = {} /\ NoReader.viewed = {}
  BY <1>3 DEF NoAffinity, AffinityType, NoReader, ReaderType
<1>5. \A p \in Products : Viewers(p) = {}
  BY <1>2 DEF Viewers
<1>6. TrackingTypeOK
  <2>1. views \in [Convs -> [Products -> Nat]]
    BY <1>1
  <2>2. \A c \in Convs, p \in Products :
           /\ views[c][p] <= Cardinality(Shown(c))
           /\ \A q \in Shown(c) : views[c][p] = views[c][q] => p = q
    BY <1>1, <1>2, <1>3
  <2>3. trackingPast \in [tracked : [Products -> 0..MaxMentions], fresh : [Products -> BOOLEAN],
                          changes : 0..MaxChanges]
    BY <1>1, <1>3
  <2>4. affinity \in [Products -> AffinityType] /\ rec \in [Readers -> ReaderType]
        /\ track \in [Trackings -> TrackingType] /\ \A r \in Readers : rec[r].pc = "idle"
    BY <1>1, <1>4 DEF TrackingType
  <2> QED
    BY <1>1, <2>1, <2>2, <2>3, <2>4 DEF TrackingTypeOK
<1>7. MentionsAddUp /\ KeywordsFollow
  <2>1. \A p \in Products : /\ affinity[p].mentions = 0 /\ trackingPast.tracked[p] = 0
                            /\ Cardinality(Viewers(p)) = 0
    BY <1>1, <1>3, <1>4, <1>5
  <2>2. \A p \in Products : trackingPast.fresh[p] = FALSE
    BY <1>1
  <2>3. MentionsAddUp
    BY <2>1 DEF MentionsAddUp
  <2> QED
    BY <2>2, <2>3 DEF KeywordsFollow
<1>8. \A r \in Readers : ReaderHolds(r)
  BY <1>1, <1>4 DEF ReaderHolds, PicksAreNew, WordsAreSought, ListIsExplained
<1> QED
  BY <1>6, <1>7, <1>8 DEF TrackingInv

LEMMA TrackingStays == TrackingInv /\ [TrackingNext]_trackingVars => TrackingInv'
<1> SUFFICES ASSUME TrackingInv, [TrackingNext]_trackingVars PROVE TrackingInv'
  OBVIOUS
<1>1. CASE \E k \in Trackings :
               (\E c \in Convs, p \in Products : FindProduct(k, c, p)) \/ Track(k) \/ TrackFails(k)
  BY <1>1, TrackingReads, TrackKeeps
<1>2. CASE \E p \in Products :
               \/ \E active \in BOOLEAN, words \in SUBSET Words :
                      UpdateProduct(p, [alive |-> TRUE, active |-> active, words |-> words])
               \/ RemoveProduct(p)
  BY <1>2, UpdateKeeps, RemoveKeeps
<1>3. CASE \E r \in Readers :
               (\E c \in Convs : FindViewed(r, c)) \/ FindWords(r) \/ FindSimilar(r) \/ FindTop(r) \/ Show(r)
  BY <1>3, FindViewedKeeps, FindWordsKeeps, FindSimilarKeeps, FindTopKeeps, ShowKeeps
<1>4. CASE UNCHANGED trackingVars
  <2>1. UNCHANGED <<product, views, affinity, track, rec, trackingPast>>
    BY <1>4 DEF trackingVars
  <2>2. \A d \in Convs : Shown(d)' = Shown(d) /\ Seen(d)' = Seen(d)
    BY <2>1 DEF Shown, Seen, Alive
  <2>3. TrackingTypeOK' /\ MentionsAddUp' /\ KeywordsFollow'
    BY <2>1, <2>2 DEF TrackingInv, TrackingTypeOK, MentionsAddUp, KeywordsFollow, Viewers, Alive
  <2>4. \A r \in Readers : ReaderHolds(r)'
    BY <2>1, ReaderStays DEF TrackingInv
  <2> QED
    BY <2>3, <2>4 DEF TrackingInv
<1> QED
  BY <1>1, <1>2, <1>3, <1>4 DEF TrackingNext

\* Views, counts, keywords and lists of recommendations follow each other.
THEOREM TrackingInvariant == TrackingSpec => []TrackingInv
  BY TrackingInitially, TrackingStays, PTL DEF TrackingSpec

\* A conversation's views are numbered in their order, and a product that is gone has no
\* affinity.
THEOREM TrackingTypeCorrect == TrackingSpec => []TrackingTypeOK
<1>1. TrackingInv => TrackingTypeOK
  BY DEF TrackingInv
<1> QED
  BY <1>1, TrackingInvariant, PTL

\* However calls of trackProductView, edits of products and requests for recommendations
\* overlap: every mention is counted and viewed products have theirs, keywords follow the
\* last tracking, nothing seen last is recommended, and an empty list has its reason.
THEOREM TrackingIsSafe == TrackingSpec => []TrackingSafe
<1>1. TrackingInv => TrackingSafe
  <2> SUFFICES ASSUME TrackingInv PROVE TrackingSafe
    OBVIOUS
  <2>1. MentionsAddUp /\ KeywordsFollow /\ \A r \in Readers : PicksAreNew(r) /\ ListIsExplained(r)
    BY DEF TrackingInv, ReaderHolds
  <2>2. RecommendsNews
    BY <2>1 DEF RecommendsNews, PicksAreNew
  <2>3. NothingOnlyIfCrowdedOut
    BY <2>1 DEF NothingOnlyIfCrowdedOut, ListIsExplained, CrowdedOut
  <2> QED
    BY <2>1, <2>2, <2>3 DEF TrackingSafe
<1> QED
  BY <1>1, TrackingInvariant, PTL

-----------------------------------------------------------------------------
(* The run: its steps are those of one component at a time.                 *)

\* A behaviour of the run is one of each component, which the others' steps leave alone,
\* so what holds of a component alone holds of it in the run.
THEOREM PartsAreComponents == Spec => LimitSpec /\ MemorySpec /\ TrackingSpec /\ BroadcastSpec
<1>1. Init => LimitInit /\ MemoryInit /\ TrackingInit /\ BroadcastInit
  BY DEF Init
<1>2. [Next]_<<part, limitVars, memoryVars, trackingVars, broadcastVars>> =>
          /\ [LimitNext]_limitVars
          /\ [MemoryNext]_memoryVars
          /\ [TrackingNext]_trackingVars
          /\ [BroadcastNext]_broadcastVars
  BY DEF Next, LimitStep, MemoryStep, TrackingStep, BroadcastStep
<1> QED
  BY <1>1, <1>2, PTL DEF Spec, LimitSpec, MemorySpec, TrackingSpec, BroadcastSpec

\* In the run, every component's state has its type.
THEOREM MessagesTypeCorrect == Spec => []MessagesTypeOK
<1>1. Spec => [](RateLimitTypeOK /\ MemoryTypeOK /\ TrackingTypeOK /\ BroadcastTypeOK)
  BY PartsAreComponents, LimitTypeCorrect, MemoryTypeCorrect, TrackingTypeCorrect,
     BroadcastTypeCorrect, PTL
<1>2. RateLimitTypeOK /\ MemoryTypeOK /\ TrackingTypeOK /\ BroadcastTypeOK => MessagesTypeOK
  BY DEF MessagesTypeOK
<1> QED
  BY <1>1, <1>2, PTL

\* In the run, the limit keeps what tenant-rate-limit.service.ts promises, the memory
\* what conversation-memory.service.ts does, and what is said of tracked products
\* (product-tracking.service.ts) and of broadcasts (broadcast.service.ts) holds.
THEOREM MessagesAreSafe == Spec => /\ [](LimitSafe /\ MemorySafe /\ TrackingSafe /\ BroadcastSafe)
                                   /\ ContextIsNewest
  BY PartsAreComponents, LimitIsSafe, MemoryIsSafe, TrackingIsSafe, BroadcastIsSafe,
     ContextsAreNewest, PTL

=============================================================================
