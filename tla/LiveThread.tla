----------------------------- MODULE LiveThread -----------------------------
(***************************************************************************)
(* The conversation an agent has open in the dashboard.  Opening one reads  *)
(* its messages, then its memory and the recommendations, and joins its     *)
(* room at the gateway last; messages saved from then on arrive as events.  *)
(* Requests of one opening go on while the agent closes the conversation or *)
(* opens another, and whatever they answer is put on the screen.            *)
(***************************************************************************)
EXTENDS Naturals, Sequences, Functions

CONSTANTS
    Convs,          \* the tenant's conversations
    Talking,        \* those whose customers write meanwhile
    Openings,       \* openings that may overlap
    PanelCalls,     \* requests of the memory panel that may overlap
    None,           \* no conversation
    MaxExchanges,   \* exchanges saved in each conversation
    MaxWire         \* messages under way between client and gateway

ASSUME LiveAssumption ==
    /\ Openings \cap PanelCalls = {}
    /\ None \notin Convs
    /\ Talking \subseteq Convs
    /\ MaxExchanges \in Nat
    /\ MaxWire \in Nat \ {0}

VARIABLES
    saved,      \* saved[c]: how many exchanges the database has
    unsent,     \* exchanges saved whose events are not emitted yet
    screen,     \* the state of the component
    call,       \* call[k]: a request of the component and what follows it
    socket,     \* the gateway's side of the connection
    toServer,   \* join and leave on their way, or kept while not connected
    toClient,   \* new_message events on their way
    past        \* what the properties remember

liveVars == <<saved, unsent, screen, call, socket, toServer, toClient, past>>

Calls == Openings \cup PanelCalls

\* An exchange: the customer's message and the answer, saved in one transaction.
Exchanges == Convs \X (1..MaxExchanges)

Shown == Convs \cup {None}
ScreenType ==
    [selected : Shown,              \* selectedConvId
     ref : Shown,                   \* selectedConvIdRef
     thread : Seq(Exchanges),       \* messages
     stats : Shown,                 \* whose memoryStats, memoryResults and
     results : Shown,               \* recommendations are shown
     recs : Shown,
     busy : SUBSET {"refresh", "clear"}]   \* memoryLoading, memoryClearing
Opening == {"messages", "answered", "stats", "recs"}
CallType ==
    [pc : Opening \cup {"idle", "refresh", "search", "clear", "reload"}, conv : Shown,
     rows : Nat]                    \* how many exchanges the answer has
SocketType == [up : BOOLEAN, rooms : SUBSET Convs, joining : SUBSET Convs]
EventType == [event : {"join", "leave"}, conv : Convs]

LiveTypeOK ==
    /\ saved \in [Convs -> 0..MaxExchanges]
    /\ unsent \subseteq Exchanges
    /\ screen \in ScreenType
    /\ call \in [Calls -> CallType]
    /\ socket \in SocketType
    /\ toServer \in Seq(EventType)
    /\ toClient \in Seq(Exchanges)
    \* early: read by an opening before their event arrived.
    \* missed: their event did not reach the thread, and nothing read them since.
    \* crossed: an answer was put under another conversation than it is of.
    \* dropped: the connection was lost since the agent's last click.
    \* unjoined: the gateway failed to join them, and was not asked again.
    /\ past \in [early : SUBSET Exchanges, missed : SUBSET Exchanges,
                 crossed : BOOLEAN, dropped : BOOLEAN, unjoined : SUBSET Convs]
    \* What is under way is of a conversation and was saved.
    /\ \A k \in Calls : call[k].pc # "idle" => call[k].conv # None
    /\ \A k \in Calls : call[k].pc = "answered" => call[k].rows <= saved[call[k].conv]
    /\ \A m \in unsent : m[2] <= saved[m[1]]

NoCall == [pc |-> "idle", conv |-> None, rows |-> 0]
NoScreen == [selected |-> None, ref |-> None, thread |-> <<>>, stats |-> None,
             results |-> None, recs |-> None, busy |-> {}]

LiveInit ==
    /\ saved = [c \in Convs |-> 0]
    /\ unsent = {}
    /\ screen = NoScreen
    /\ call = [k \in Calls |-> NoCall]
    /\ socket = [up |-> TRUE, rooms |-> {}, joining |-> {}]
    /\ toServer = <<>>
    /\ toClient = <<>>
    /\ past = [early |-> {}, missed |-> {}, crossed |-> FALSE, dropped |-> FALSE,
                unjoined |-> {}]

Room(wire) == Len(wire) < MaxWire

----------------------------------------------------------------------------
(* The server saves an exchange and later emits its events. *)

SaveExchange(c) ==
    /\ saved[c] < MaxExchanges
    /\ saved' = [saved EXCEPT ![c] = @ + 1]
    /\ unsent' = unsent \cup {<<c, saved[c] + 1>>}
    /\ UNCHANGED <<screen, call, socket, toServer, toClient, past>>

EmitNewMessage(m) ==
    /\ m \in unsent
    /\ unsent' = unsent \ {m}
    /\ \/ /\ m[1] \in socket.rooms
          /\ Room(toClient)
          /\ toClient' = Append(toClient, m)
          /\ UNCHANGED past
       \/ /\ m[1] \notin socket.rooms
          /\ past' = [past EXCEPT !.missed = @ \cup {m}]
          /\ UNCHANGED toClient
    /\ UNCHANGED <<saved, screen, call, socket, toServer>>

----------------------------------------------------------------------------
(* Opening a conversation. *)

Tell(event, c) == toServer' = Append(toServer, [event |-> event, conv |-> c])
Fresh == [past EXCEPT !.crossed = FALSE, !.dropped = FALSE, !.unjoined = {}]

\* The agent clicks a row of the list.
OpenConversation(k, c) ==
    /\ call[k].pc = "idle"
    /\ screen' = [NoScreen EXCEPT !.selected = c, !.ref = c, !.busy = screen.busy]
    /\ call' = [call EXCEPT ![k] = [pc |-> "messages", conv |-> c, rows |-> 0]]
    /\ past' = Fresh
    /\ UNCHANGED <<saved, unsent, socket, toServer, toClient>>

\* The rows of a conversation up to n, oldest first.
Rows(c, n) == [i \in 1..n |-> <<c, i>>]

FindMessagesForConversation(k) ==
    LET c == call[k].conv IN
    /\ call[k].pc = "messages"
    /\ call' = [call EXCEPT ![k].pc = "answered", ![k].rows = saved[c]]
    /\ past' = [past EXCEPT !.early = @ \cup {m \in unsent \cup Range(toClient) : m[1] = c},
                            !.missed = {m \in @ : m[1] # c}]
    /\ UNCHANGED <<saved, unsent, screen, socket, toServer, toClient>>

\* An answer for conversation c is put on the screen.
Crosses(c) == [past EXCEPT !.crossed = @ \/ screen.ref # c]

MessagesArrive(k) ==
    LET c == call[k].conv
        answer == Rows(c, call[k].rows)
    IN
    /\ call[k].pc = "answered"
    /\ screen' = [screen EXCEPT !.thread = answer]
    /\ call' = [call EXCEPT ![k].pc = "stats", ![k].rows = 0]
    \* What events had brought and the answer lacks is gone from the thread.
    /\ past' = [Crosses(c) EXCEPT !.missed =
                    @ \cup (Range(screen.thread) \ Range(answer))]
    /\ UNCHANGED <<saved, unsent, socket, toServer, toClient>>

StatsArrive(k) ==
    /\ call[k].pc = "stats"
    /\ screen' = [screen EXCEPT !.stats = call[k].conv]
    /\ call' = [call EXCEPT ![k].pc = "recs"]
    /\ past' = Crosses(call[k].conv)
    /\ UNCHANGED <<saved, unsent, socket, toServer, toClient>>

RecommendationsArrive(k) ==
    /\ call[k].pc = "recs"
    /\ Room(toServer)
    /\ screen' = [screen EXCEPT !.recs = call[k].conv]
    /\ Tell("join", call[k].conv)
    /\ call' = [call EXCEPT ![k] = NoCall]
    /\ past' = [Crosses(call[k].conv) EXCEPT !.unjoined = @ \ {call[k].conv}]
    /\ UNCHANGED <<saved, unsent, socket, toClient>>

\* One of the three requests fails: the panel closes, the ref stays.
OpeningFails(k) ==
    /\ call[k].pc \in Opening
    /\ screen' = [screen EXCEPT !.selected = None]
    /\ call' = [call EXCEPT ![k] = NoCall]
    /\ UNCHANGED <<saved, unsent, socket, toServer, toClient, past>>

\* The close button of the panel, or another tab of the dashboard.
CloseConversation ==
    /\ screen' = [NoScreen EXCEPT !.busy = screen.busy]
    /\ \/ screen.ref = None /\ UNCHANGED toServer
       \/ screen.ref # None /\ Room(toServer) /\ Tell("leave", screen.ref)
    /\ past' = Fresh
    /\ UNCHANGED <<saved, unsent, call, socket, toClient>>

----------------------------------------------------------------------------
(* The memory panel: each request is for the conversation selected when it  *)
(* began, the refresh that follows a clearing included.                     *)

Ask(k, pc) ==
    /\ call[k].pc = "idle"
    /\ screen.selected # None
    /\ call' = [call EXCEPT ![k] = [pc |-> pc, conv |-> screen.selected, rows |-> 0]]
    /\ UNCHANGED <<saved, unsent, socket, toServer, toClient, past>>

RefreshMemoryStats(k) ==
    /\ "refresh" \notin screen.busy
    /\ Ask(k, "refresh")
    /\ screen' = [screen EXCEPT !.busy = @ \cup {"refresh"}]

SearchMemory(k) == Ask(k, "search") /\ UNCHANGED screen

ClearMemory(k) ==
    /\ "clear" \notin screen.busy
    /\ Ask(k, "clear")
    /\ screen' = [screen EXCEPT !.busy = @ \cup {"clear"}]

\* memory-stats answers, or fails.  The one that follows a clearing ends it.
RefreshEnds(k) ==
    LET over == IF call[k].pc = "reload" THEN {"refresh", "clear"} ELSE {"refresh"} IN
    /\ call[k].pc \in {"refresh", "reload"}
    /\ \/ /\ screen' = [screen EXCEPT !.stats = call[k].conv, !.busy = @ \ over]
          /\ past' = Crosses(call[k].conv)
       \/ /\ screen' = [screen EXCEPT !.busy = @ \ over]
          /\ UNCHANGED past
    /\ call' = [call EXCEPT ![k] = NoCall]
    /\ UNCHANGED <<saved, unsent, socket, toServer, toClient>>

SearchEnds(k) ==
    /\ call[k].pc = "search"
    /\ \/ screen' = [screen EXCEPT !.results = call[k].conv] /\ past' = Crosses(call[k].conv)
       \/ screen' = [screen EXCEPT !.results = None] /\ UNCHANGED past
    /\ call' = [call EXCEPT ![k] = NoCall]
    /\ UNCHANGED <<saved, unsent, socket, toServer, toClient>>

ClearEnds(k) ==
    /\ call[k].pc = "clear"
    /\ \/ /\ screen' = [screen EXCEPT !.results = None, !.busy = @ \cup {"refresh"}]
          /\ call' = [call EXCEPT ![k].pc = "reload"]
       \/ /\ screen' = [screen EXCEPT !.busy = @ \ {"clear"}]
          /\ call' = [call EXCEPT ![k] = NoCall]
    /\ UNCHANGED <<saved, unsent, socket, toServer, toClient, past>>

----------------------------------------------------------------------------
(* The connection: socket.io keeps what the client emits while it is not    *)
(* connected, and the server forgets the rooms of a connection it loses.    *)

\* handleJoinConversation up to its query; the conversations of the list are
\* the tenant's own, so the query finds them.
HandleJoin ==
    /\ socket.up
    /\ toServer # <<>>
    /\ Head(toServer).event = "join"
    /\ socket' = [socket EXCEPT !.joining = @ \cup {Head(toServer).conv}]
    /\ toServer' = Tail(toServer)
    /\ UNCHANGED <<saved, unsent, screen, call, toClient, past>>

Joined(c) ==
    /\ c \in socket.joining
    /\ socket' = [socket EXCEPT !.joining = @ \ {c}, !.rooms = @ \cup {c}]
    /\ UNCHANGED <<saved, unsent, screen, call, toServer, toClient, past>>

\* Conversations whose join is on its way to the gateway.
ToJoin == {c \in Convs : \E i \in DOMAIN toServer :
                             toServer[i] = [event |-> "join", conv |-> c]}

\* The query throws.  The connection stays as it is, and the client, which waits
\* for no answer, does not ask again.
JoinFails(c) ==
    /\ c \in socket.joining
    /\ socket' = [socket EXCEPT !.joining = @ \ {c}]
    /\ past' = [past EXCEPT !.unjoined = @ \cup ({c} \ (socket.rooms \cup ToJoin))]
    /\ UNCHANGED <<saved, unsent, screen, call, toServer, toClient>>

HandleLeave ==
    /\ socket.up
    /\ toServer # <<>>
    /\ Head(toServer).event = "leave"
    /\ socket' = [socket EXCEPT !.rooms = @ \ {Head(toServer).conv}]
    /\ toServer' = Tail(toServer)
    /\ UNCHANGED <<saved, unsent, screen, call, toClient, past>>

\* Mutant of OnNewMessage: events are dropped while the thread is loading.
OnNewMessageLoaded ==
    /\ socket.up
    /\ toClient # <<>>
    /\ screen' = [screen EXCEPT !.thread =
                     IF screen.ref = Head(toClient)[1] /\ \A k \in Openings : call[k].pc = "idle"
                     THEN Append(@, Head(toClient)) ELSE @]
    /\ toClient' = Tail(toClient)
    /\ UNCHANGED <<saved, unsent, call, socket, toServer, past>>

OnNewMessage ==
    /\ socket.up
    /\ toClient # <<>>
    /\ screen' = [screen EXCEPT !.thread =
                     IF screen.ref = Head(toClient)[1] THEN Append(@, Head(toClient)) ELSE @]
    /\ toClient' = Tail(toClient)
    /\ UNCHANGED <<saved, unsent, call, socket, toServer, past>>

\* What was under way is lost with the connection.
Disconnect ==
    /\ socket.up
    /\ socket' = [up |-> FALSE, rooms |-> {}, joining |-> {}]
    /\ toServer' = <<>>
    /\ toClient' = <<>>
    /\ past' = [past EXCEPT !.dropped = TRUE, !.missed = @ \cup Range(toClient)]
    /\ UNCHANGED <<saved, unsent, screen, call>>

\* handleConnection: a new connection, in no room.
HandleConnection ==
    /\ ~socket.up
    /\ socket' = [socket EXCEPT !.up = TRUE]
    /\ UNCHANGED <<saved, unsent, screen, call, toServer, toClient, past>>

OpeningStep(k) ==
    \/ \E c \in Convs : OpenConversation(k, c)
    \/ FindMessagesForConversation(k)
    \/ MessagesArrive(k)
    \/ StatsArrive(k)
    \/ RecommendationsArrive(k)
    \/ OpeningFails(k)

PanelStep(k) ==
    \/ RefreshMemoryStats(k)
    \/ SearchMemory(k)
    \/ ClearMemory(k)
    \/ RefreshEnds(k)
    \/ SearchEnds(k)
    \/ ClearEnds(k)

LiveNext ==
    \/ \E c \in Talking : SaveExchange(c)
    \/ \E m \in unsent : EmitNewMessage(m)
    \/ \E k \in Openings : OpeningStep(k)
    \/ \E k \in PanelCalls : PanelStep(k)
    \/ CloseConversation
    \/ HandleJoin
    \/ \E c \in Convs : Joined(c) \/ JoinFails(c)
    \/ HandleLeave
    \/ OnNewMessage
    \/ Disconnect
    \/ HandleConnection

LiveSpec == LiveInit /\ [][LiveNext]_liveVars

----------------------------------------------------------------------------

\* The thread and the panels under it are of the conversation that is open,
\* unless an answer for another one was put there: requests of an opening that
\* the agent left behind (MessagingDashboard.jsx, openConversation and
\* refreshMemoryStats) are the only way for a message to be shown to the agent
\* as another customer's.
ThreadIsOfConversation ==
    ~past.crossed =>
        /\ screen.selected \in {screen.ref, None}
        /\ \A i \in DOMAIN screen.thread : screen.thread[i][1] = screen.ref
        /\ {screen.stats, screen.results, screen.recs} \subseteq {screen.ref, None}

Loading(c) == \E k \in Openings : call[k].conv = c /\ call[k].pc \in {"messages", "answered"}
Settled == screen.selected # None /\ screen.selected = screen.ref /\ ~Loading(screen.ref)

\* Once an open conversation's messages are read, each exchange saved is in the
\* thread, is still to be emitted or under way, or is accounted for: emitted
\* while the socket was not in the room (between the reading and the join, after
\* a lost connection or a join that failed), lost with a connection, or overwritten by an
\* answer that had been read before it.
MissedIsExplained ==
    Settled /\ ~past.crossed =>
        \A n \in 1..saved[screen.ref] :
            LET m == <<screen.ref, n>> IN
            m \in Range(screen.thread) \cup Range(toClient) \cup unsent \cup past.missed

\* An exchange shows twice only if an opening read it between its saving and the
\* arrival of its event (chat.service.ts saves, looks for an account, and emits).
TwiceOnlyIfReadEarly ==
    \A i, j \in DOMAIN screen.thread :
        i # j /\ screen.thread[i] = screen.thread[j] => screen.thread[i] \in past.early

\* The conversation that is open is live, or about to be, once its opening has
\* finished, unless the connection was lost since or the gateway failed to look
\* the conversation up when it was asked last (conversation.gateway.ts, the query
\* of handleJoinConversation): joins and leaves of a conversation that is closed
\* and opened again take effect in the right order.
Live(c) == c \in socket.rooms \cup socket.joining \cup ToJoin
Opened ==
    /\ screen.selected # None
    /\ screen.selected = screen.ref
    /\ \A k \in Openings : call[k].pc = "idle"
LiveUnlessDropped ==
    Opened /\ ~past.dropped /\ screen.ref \notin past.unjoined => Live(screen.ref)

\* The open conversation, between the answers of overlapping openings and the events
\* of the socket (MessagingDashboard.jsx, conversation.gateway.ts).
ThreadSafe ==
    /\ ThreadIsOfConversation
    /\ MissedIsExplained
    /\ TwiceOnlyIfReadEarly
    /\ LiveUnlessDropped
=============================================================================
