------------------------------- MODULE Memory -------------------------------
(***************************************************************************)
(* The semantic memory of one conversation.  Messages are saved without     *)
(* anyone waiting for it: each save embeds its text, takes a timestamp,     *)
(* creates its row and then prunes all but the newest rows in two queries.  *)
(* Saves overlap with each other, with the reading of the context of the    *)
(* next answer and with the clearing of the memory.                         *)
(***************************************************************************)
EXTENDS Naturals, FiniteSets

CONSTANTS
    Saves,      \* calls of saveMessage, each with its message
    KeepLast,   \* rows a cleanup keeps
    TopK,       \* rows of a context
    Window,     \* rows a context is chosen from
    MaxTime,    \* bound of the clock
    MaxMemoryCrashes  \* bound of the crashes

ASSUME MemoryAssumption ==
    /\ IsFiniteSet(Saves)
    /\ KeepLast \in Nat \ {0}
    /\ TopK \in 1..KeepLast
    /\ Window \in Nat /\ Window >= KeepLast
    /\ MaxTime \in Nat
    /\ MaxMemoryCrashes \in Nat

VARIABLES
    mem,        \* the saves whose row is in conversation_memories
    save,       \* save[s]: the call and, once created, its row
    extractor,  \* extractorPromise
    context,    \* the last answer of getRelevantContext
    clock,        \* milliseconds
    memoryPast        \* what the properties remember

memoryVars == <<mem, save, extractor, context, clock, memoryPast>>

SaveType ==
    [pc : {"idle", "embed", "create", "list", "delete", "done"},
     at : 0..MaxTime,          \* timestamp
     embedded : BOOLEAN,       \* the row has an embedding
     ids : SUBSET Saves]       \* the rows the cleanup deletes

ContextType == [rows : SUBSET Saves, ranked : BOOLEAN]

MemoryTypeOK ==
    /\ mem \subseteq Saves
    /\ save \in [Saves -> SaveType]
    /\ extractor \in {"none", "loading", "ready", "failed"}
    /\ context \in ContextType
    /\ clock \in 0..MaxTime
    \* created: since the memory was last cleared.  said: saves that had begun
    \* when it was cleared; waiting: those of them without a row yet.
    \* before[s]: the saves that had ended when s began.
    \* skipped: cleanups that did not come to their end.
    /\ memoryPast \in [created : SUBSET Saves, said : SUBSET Saves, waiting : SUBSET Saves,
                       before : [Saves -> SUBSET Saves], skipped : Nat, crashes : 0..MaxMemoryCrashes]
    \* Timestamps of a conversation are unique, and a row has been created.
    /\ \A s, t \in mem : s # t => save[s].at # save[t].at
    /\ \A s \in mem : save[s].pc \in {"list", "delete", "done"}

Newer(s) == {t \in Saves : save[t].at > save[s].at}
Newest(n, rows) == {s \in rows : Cardinality(Newer(s) \cap rows) < n}
Beyond(n, rows) == rows \ Newest(n, rows)

NoSave == [pc |-> "idle", at |-> 0, embedded |-> FALSE, ids |-> {}]
Gone == [NoSave EXCEPT !.pc = "done"]

MemoryInit ==
    /\ mem = {}
    /\ save = [s \in Saves |-> NoSave]
    /\ extractor = "none"
    /\ context = [rows |-> {}, ranked |-> FALSE]
    /\ clock = 0
    /\ memoryPast = [created |-> {}, said |-> {}, waiting |-> {}, before |-> [s \in Saves |-> {}],
                     skipped |-> 0, crashes |-> 0]

InFlight == {s \in Saves : save[s].pc \notin {"idle", "done"}}
Ended == {s \in Saves : save[s].pc = "done"}

----------------------------------------------------------------------------
(* EmbeddingsService: the model is loaded once, by whoever asks first, and a *)
(* load that failed is never tried again.                                   *)

GetOrCreateExtractor ==
    extractor' = IF extractor = "none" THEN "loading" ELSE extractor

ExtractorSettles ==
    /\ extractor = "loading"
    /\ extractor' \in {"ready", "failed"}
    /\ UNCHANGED <<mem, save, context, clock, memoryPast>>

AskForContext ==
    /\ extractor = "none"
    /\ GetOrCreateExtractor
    /\ UNCHANGED <<mem, save, context, clock, memoryPast>>

\* What embed may answer: with a model a vector, or nothing after an error.
EmbedAnswers == IF extractor = "ready" THEN BOOLEAN ELSE {FALSE}

----------------------------------------------------------------------------
(* saveMessage. *)

\* Blank texts return at once and change nothing.
SaveMessage(s) ==
    /\ save[s].pc = "idle"
    /\ save' = [save EXCEPT ![s].pc = "embed"]
    /\ GetOrCreateExtractor
    /\ memoryPast' = [memoryPast EXCEPT !.before[s] = Ended]
    /\ UNCHANGED <<mem, context, clock>>

\* The timestamp is taken when the embedding has come.
Embed(s) ==
    /\ save[s].pc = "embed"
    /\ extractor \in {"ready", "failed"}
    /\ \E e \in EmbedAnswers :
           save' = [save EXCEPT ![s].pc = "create", ![s].embedded = e, ![s].at = clock]
    /\ UNCHANGED <<mem, extractor, context, clock, memoryPast>>

\* Mutant of Create: the collision is not refused.
CreateColliding(s) ==
    /\ save[s].pc = "create"
    /\ mem' = mem \cup {s}
    /\ save' = [save EXCEPT ![s].pc = "list"]
    /\ memoryPast' = [memoryPast EXCEPT !.created = @ \cup {s}]
    /\ UNCHANGED <<extractor, context, clock>>

\* A collision with the timestamp of another row, or any other error, drops
\* the message and the cleanup with it.
Create(s) ==
    /\ save[s].pc = "create"
    /\ \/ /\ \A t \in mem : save[t].at # save[s].at
          /\ mem' = mem \cup {s}
          /\ save' = [save EXCEPT ![s].pc = "list"]
          /\ memoryPast' = [memoryPast EXCEPT !.created = @ \cup {s}]
       \/ /\ save' = [save EXCEPT ![s] = Gone]
          /\ UNCHANGED <<mem, memoryPast>>
    /\ UNCHANGED <<extractor, context, clock>>

\* cleanupOldMemories: all but the newest rows.
\* Mutant of ListOld: one row too many.
ListOldOffByOne(s) ==
    /\ save[s].pc = "list"
    /\ save' = [save EXCEPT ![s].pc = "delete", ![s].ids = Beyond(KeepLast - 1, mem)]
    /\ UNCHANGED <<mem, extractor, context, clock, memoryPast>>

ListOld(s) ==
    /\ save[s].pc = "list"
    /\ save' = [save EXCEPT
                  ![s].pc = IF Beyond(KeepLast, mem) = {} THEN "done" ELSE "delete",
                  ![s].ids = Beyond(KeepLast, mem)]
    /\ UNCHANGED <<mem, extractor, context, clock, memoryPast>>

DeleteOld(s) ==
    /\ save[s].pc = "delete"
    /\ mem' = mem \ save[s].ids
    /\ save' = [save EXCEPT ![s].pc = "done", ![s].ids = {}]
    /\ UNCHANGED <<extractor, context, clock, memoryPast>>

\* One of the two queries of the cleanup fails; the caller logs it.
CleanupFails(s) ==
    /\ save[s].pc \in {"list", "delete"}
    /\ save' = [save EXCEPT ![s].pc = "done", ![s].ids = {}]
    /\ memoryPast' = [memoryPast EXCEPT !.skipped = @ + 1]
    /\ UNCHANGED <<mem, extractor, context, clock>>

----------------------------------------------------------------------------
(* Reading and clearing. *)

\* Mutant of GetRelevantContext: the rows are taken oldest first.
GetRelevantContextOldest ==
    /\ extractor \in {"ready", "failed"}
    /\ context' = [rows |-> {s \in mem : Cardinality(mem \ Newer(s)) <= TopK}, ranked |-> FALSE]
    /\ UNCHANGED <<mem, save, extractor, clock, memoryPast>>

\* The first rows of some ranking by similarity: a row without an embedding
\* counts -1, as one of length zero does.
MostSimilar(rows, window) ==
    LET vectors == {s \in window : save[s].embedded} IN
    /\ Cardinality(rows) = IF Cardinality(window) < TopK THEN Cardinality(window) ELSE TopK
    /\ rows \subseteq vectors \/ vectors \subseteq rows

\* Without an embedding of the question the newest rows; else the most similar
\* of the window, rows without an embedding last.
GetRelevantContext ==
    LET window == Newest(Window, mem) IN
    /\ extractor \in {"ready", "failed"}
    /\ \E e \in EmbedAnswers :
           \/ ~e /\ context' = [rows |-> Newest(TopK, mem), ranked |-> FALSE]
           \/ /\ e
              /\ \E rows \in SUBSET window :
                     MostSimilar(rows, window) /\ context' = [rows |-> rows, ranked |-> TRUE]
    /\ UNCHANGED <<mem, save, extractor, clock, memoryPast>>

Cleared ==
    /\ mem' = {}
    /\ memoryPast' = [memoryPast EXCEPT !.created = {}, !.said = InFlight \cup Ended,
                           !.waiting = {s \in Saves : save[s].pc \in {"embed", "create"}}]
    /\ UNCHANGED <<save, extractor, context, clock>>

\* The dashboard clears the conversation, the administrator the whole tenant.
ClearConversationMemory == mem # {} /\ Cleared
DeleteTenantMemory == mem # {} /\ Cleared

----------------------------------------------------------------------------

MemoryCrash ==
    /\ memoryPast.crashes < MaxMemoryCrashes
    /\ save' = [s \in Saves |->
                  CASE save[s].pc \in {"embed", "create"} -> Gone
                    [] save[s].pc \in {"list", "delete"} -> [save[s] EXCEPT !.pc = "done", !.ids = {}]
                    [] OTHER -> save[s]]
    /\ extractor' = "none"
    /\ memoryPast' = [memoryPast EXCEPT !.crashes = @ + 1,
                    !.skipped = @ + Cardinality({s \in Saves : save[s].pc \in {"list", "delete"}})]
    /\ UNCHANGED <<mem, context, clock>>

MemoryTick ==
    /\ clock < MaxTime
    /\ clock' = clock + 1
    /\ UNCHANGED <<mem, save, extractor, context, memoryPast>>

MemoryNext ==
    \/ \E s \in Saves : \/ SaveMessage(s)
                        \/ Embed(s)
                        \/ Create(s)
                        \/ ListOld(s)
                        \/ DeleteOld(s)
                        \/ CleanupFails(s)
    \/ ExtractorSettles
    \/ AskForContext
    \/ GetRelevantContext
    \/ ClearConversationMemory
    \/ DeleteTenantMemory
    \/ MemoryCrash
    \/ MemoryTick

MemorySpec == MemoryInit /\ [][MemoryNext]_memoryVars

----------------------------------------------------------------------------

\* However saves and cleanups overlap, no cleanup removes one of the newest
\* rows created since the memory was cleared: a list that is old when its rows
\* are deleted names only rows that are older still.
NewestKept == Newest(KeepLast, memoryPast.created) \subseteq mem

\* When no save is in flight the memory has at most KeepLast rows, and one more
\* for each cleanup that failed or died: of overlapping saves, the one that lists
\* last sees the rows of all.
BoundedWhenQuiet == InFlight = {} => Cardinality(mem) <= KeepLast + memoryPast.skipped

\* Rows are in the order of the conversation unless their saves overlapped: the
\* timestamp is taken after the embedding, so two saves that wait for the model
\* may be stored in either order, but one that had ended stays before.
InOrderUnlessOverlapping ==
    \A s \in mem, t \in mem : t \in memoryPast.before[s] => save[t].at < save[s].at

\* Of what was said before the memory was cleared, only messages come back whose
\* save was waiting for its embedding or its insertion at that moment: nothing
\* waits for those saves, so the agent's clearing does not either.
OnlyWaitingReturn == mem \cap memoryPast.said \subseteq memoryPast.waiting

\* The rows of a conversation's memory, with saves and cleanups that nothing waits
\* for, and a clearing in between (conversation-memory.service.ts).
MemorySafe ==
    /\ NewestKept
    /\ BoundedWhenQuiet
    /\ InOrderUnlessOverlapping
    /\ OnlyWaitingReturn

\* Without embeddings the context of an answer is the newest messages created
\* since the memory was cleared, though cleanups go on meanwhile.
ContextIsNewest ==
    [][context' # context /\ ~context'.ranked
           => context'.rows = Newest(TopK, memoryPast.created)]_memoryVars
=============================================================================
