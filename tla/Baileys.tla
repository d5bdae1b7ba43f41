------------------------------ MODULE Baileys ------------------------------
(***************************************************************************)
(* The WhatsApp Web session of one tenant (BaileysService).  The service    *)
(* keeps an object per tenant in a map; the library's sockets report to     *)
(* handlers that look the object up in the map again, whichever it is by    *)
(* then.  connect() awaits the credentials before it makes its socket, and  *)
(* disconnectTenant awaits the logout before it ends the socket and clears  *)
(* the map.  Tenants share nothing.                                         *)
(***************************************************************************)
EXTENDS Integers, FiniteSets

CONSTANTS
    Sockets,        \* sockets the library may hold at a time
    Sessions,       \* objects the service may hold at a time
    Disconnects,    \* calls of disconnectTenant that may overlap
    Images,         \* calls of sendText and sendImage that may overlap
    NoSession            \* no session, no socket

ASSUME BaileysAssumption ==
    /\ NoSession \notin Sockets
    /\ NoSession \notin Sessions

Statuses == {"disconnected", "connecting", "connected"}

VARIABLES
    current,     \* sessions.get(tenantId)
    session,     \* session[s]: a TenantSession
    socket,      \* socket[k]: a socket of the library
    connecting,  \* calls of connect() before their socket, by who called
    disconnect,  \* disconnect[d]: a call of disconnectTenant
    image,       \* image[i]: a call of sendImage or sendText
    history      \* what the properties remember

baileysVars == <<current, session, socket, connecting, disconnect, image, history>>

SessionType == [sock : Sockets \cup {NoSession}, qr : BOOLEAN, status : Statuses]
SocketType == [state : {"opening", "open", "closed"}, wired : BOOLEAN]
DisconnectType == [pc : {"idle", "logout"}, s : Sessions \cup {NoSession}]
ImageType == [pc : {"idle", "fetch", "sent", "lost"}, s : Sessions \cup {NoSession},
              ended : BOOLEAN]   \* its session has been disconnected meanwhile

BaileysTypeOK ==
    /\ current \in Sessions \cup {NoSession}
    /\ session \in [Sessions -> SessionType]
    /\ socket \in [Sockets -> SocketType]
    /\ connecting \in [{"api", "close"} -> Nat]
    /\ disconnect \in [Disconnects -> DisconnectType]
    /\ image \in [Images -> ImageType]
    \* overlapped: connectTenant was accepted while connect() or
    \* disconnectTenant ran.  failed: a connect() of connectTenant threw.
    /\ history \in [overlapped : BOOLEAN, failed : BOOLEAN]

Closed == [state |-> "closed", wired |-> FALSE]
NewSession == [sock |-> NoSession, qr |-> FALSE, status |-> "connecting"]
NoImage == [pc |-> "idle", s |-> NoSession, ended |-> FALSE]
NoDisconnect == [pc |-> "idle", s |-> NoSession]

NoPast == [overlapped |-> FALSE, failed |-> FALSE]
NobodyConnecting == [o \in {"api", "close"} |-> 0]

BaileysInit ==
    /\ current = NoSession
    /\ session = [s \in Sessions |-> NewSession]
    /\ socket = [k \in Sockets |-> Closed]
    /\ connecting = NobodyConnecting
    /\ disconnect = [d \in Disconnects |-> NoDisconnect]
    /\ image = [i \in Images |-> NoImage]
    /\ history = NoPast

-----------------------------------------------------------------------------
Live(k) == socket[k].state # "closed"

\* Its messages reach the application: it has the messages.upsert handler.
Receives(k) == Live(k) /\ socket[k].wired

Status == session[current].status
Connecting == connecting["api"] + connecting["close"] > 0
Disconnecting == \E d \in Disconnects : disconnect[d].pc = "logout"

\* Somebody still holds the session; a session that is held besides the one in the
\* map, whose socket connect() replaces, has the socket.
Held(s) ==
    \/ s = current
    \/ \E d \in Disconnects : disconnect[d].s = s
    \/ \E i \in Images : image[i].s = s
HeldSocket(k) ==
    \E s \in Sessions \ {current} : Held(s) /\ session[s].sock = k

\* Bound: there are sockets enough for one more connection.  A connection is a live
\* socket or a connect() under way; calls may hold a dead socket each.
RoomForSocket ==
    Cardinality({k \in Sockets : Live(k)}) + connecting["api"] + connecting["close"]
        < Cardinality(Sockets) - Cardinality(Disconnects) - Cardinality(Images)

\* What getStatus answers.
GetStatus == IF current = NoSession THEN [status |-> "disconnected", qr |-> FALSE]
             ELSE [status |-> Status, qr |-> session[current].qr]

-----------------------------------------------------------------------------
(* connectTenant and connect *)

\* The call returns at once when the tenant is connected or connecting.
ConnectTenant(s) ==
    /\ GetStatus.status = "disconnected"
    /\ ~Held(s)
    /\ RoomForSocket
    /\ session' = [session EXCEPT ![s] = NewSession]
    /\ current' = s
    /\ connecting' = [connecting EXCEPT !["api"] = @ + 1]
    /\ history' = IF Connecting \/ Disconnecting
                  THEN [history EXCEPT !.overlapped = TRUE]
                  ELSE IF \E k \in Sockets : Receives(k) THEN history ELSE NoPast
    /\ UNCHANGED <<socket, disconnect, image>>

\* The credentials are read: the socket is made, and reports to the session that
\* is in the map by now.  When there is none the socket is left to itself.
Connect(o, k) ==
    /\ connecting[o] > 0
    /\ ~Live(k)
    /\ ~HeldSocket(k)
    /\ connecting' = [connecting EXCEPT ![o] = @ - 1]
    /\ socket' = [socket EXCEPT ![k] = [state |-> "opening", wired |-> current # NoSession]]
    /\ IF current = NoSession
       THEN UNCHANGED session
       ELSE session' = [session EXCEPT ![current].sock = k,
                                       ![current].status = "connecting"]
    /\ UNCHANGED <<current, disconnect, image, history>>

\* connect() throws: the request of connectTenant fails, its session stays.
ConnectFails ==
    /\ connecting["api"] > 0
    /\ connecting' = [connecting EXCEPT !["api"] = @ - 1]
    /\ history' = [history EXCEPT !.failed = TRUE]
    /\ UNCHANGED <<current, session, socket, disconnect, image>>

\* The process dies; so it does when connect() throws in the close handler, whose
\* promise nobody awaits.  Every session and socket is gone.
Restart ==
    /\ current' = NoSession
    /\ socket' = [k \in Sockets |-> Closed]
    /\ connecting' = NobodyConnecting
    /\ disconnect' = [d \in Disconnects |-> NoDisconnect]
    /\ image' = [i \in Images |-> NoImage]
    /\ history' = NoPast
    /\ UNCHANGED session

-----------------------------------------------------------------------------
(* The handlers of connection.update *)

\* A QR code; the handler writes to the session in the map.
QrEvent(k) ==
    /\ socket[k].state = "opening"
    /\ Receives(k)
    /\ current # NoSession
    /\ session' = [session EXCEPT ![current].qr = TRUE,
                                  ![current].status = "connecting"]
    /\ UNCHANGED <<current, socket, connecting, disconnect, image, history>>

OpenEvent(k) ==
    /\ socket[k].state = "opening"
    /\ socket' = [socket EXCEPT ![k].state = "open"]
    /\ IF Receives(k) /\ current # NoSession
       THEN session' = [session EXCEPT ![current].qr = FALSE,
                                       ![current].status = "connected"]
       ELSE UNCHANGED session
    /\ UNCHANGED <<current, connecting, disconnect, image, history>>

\* The sessions after the close event of a socket with handlers.
Disconnected ==
    IF current = NoSession THEN session
    ELSE [session EXCEPT ![current].qr = FALSE, ![current].status = "disconnected"]

\* Mutant of CloseEvent: shouldReconnect has lost its negation.
CloseEventReversed(k, loggedOut) ==
    /\ Live(k)
    /\ socket' = [socket EXCEPT ![k] = Closed]
    /\ IF Receives(k)
       THEN /\ session' = Disconnected
            /\ connecting' = IF loggedOut
                             THEN [connecting EXCEPT !["close"] = @ + 1]
                             ELSE connecting
            /\ UNCHANGED current
       ELSE UNCHANGED <<current, session, connecting>>

\* The socket closes.  Its handler marks the session in the map and calls
\* connect() again, unless WhatsApp logged the device out.
CloseEvent(k, loggedOut) ==
    /\ Live(k)
    /\ socket' = [socket EXCEPT ![k] = Closed]
    /\ IF Receives(k)
       THEN /\ session' = Disconnected
            /\ IF loggedOut
               THEN /\ current' = NoSession
                    /\ UNCHANGED connecting
               ELSE /\ connecting' = [connecting EXCEPT !["close"] = @ + 1]
                    /\ UNCHANGED current
       ELSE UNCHANGED <<current, session, connecting>>

NetworkClose(k) ==
    /\ \E loggedOut \in BOOLEAN : CloseEvent(k, loggedOut)
    /\ UNCHANGED <<disconnect, image, history>>

-----------------------------------------------------------------------------
(* disconnectTenant *)

\* With a session in the map: logout() is called on its socket, if it has one.
BeginDisconnect(d) ==
    /\ disconnect[d].pc = "idle"
    /\ current # NoSession
    /\ disconnect' = [disconnect EXCEPT ![d] = [pc |-> "logout", s |-> current]]
    /\ UNCHANGED <<current, session, socket, connecting, image, history>>

\* A logout that succeeds closes the socket as logged out, before the call that
\* awaits it goes on; one that fails leaves the socket.
LoggedOut(d) ==
    /\ disconnect[d].pc = "logout"
    /\ session[disconnect[d].s].sock # NoSession
    /\ CloseEvent(session[disconnect[d].s].sock, TRUE)
    /\ UNCHANGED <<disconnect, image, history>>

\* The rest of the call: the socket the session has now is ended, which its
\* handler takes for a connection to be made again, and the map is cleared.
FinishDisconnect(d) ==
    LET s == disconnect[d].s
        k == session[s].sock
    IN  /\ disconnect[d].pc = "logout"
        /\ IF k # NoSession /\ Live(k)
           THEN /\ socket' = [socket EXCEPT ![k] = Closed]
                /\ IF Receives(k)
                   THEN /\ session' = Disconnected
                        /\ connecting' = [connecting EXCEPT !["close"] = @ + 1]
                   ELSE UNCHANGED <<session, connecting>>
           ELSE UNCHANGED <<session, socket, connecting>>
        /\ current' = NoSession
        /\ disconnect' = [disconnect EXCEPT ![d] = NoDisconnect]
        /\ image' = [i \in Images |->
               IF image[i].s = s THEN [image[i] EXCEPT !.ended = TRUE] ELSE image[i]]
        /\ UNCHANGED history

-----------------------------------------------------------------------------
(* sendText, sendImage *)

\* Without a socket the call throws; a closed socket throws as well.
SendText(i) ==
    /\ image[i].pc # "fetch"
    /\ current # NoSession /\ session[current].sock # NoSession
    /\ image' = [image EXCEPT ![i] =
           [NoImage EXCEPT !.pc = IF Live(session[current].sock) THEN "sent" ELSE "lost"]]
    /\ UNCHANGED <<current, session, socket, connecting, disconnect, history>>

\* The session is looked up, then the image is fetched.
BeginImage(i) ==
    /\ image[i].pc # "fetch"
    /\ current # NoSession /\ session[current].sock # NoSession
    /\ image' = [image EXCEPT ![i] = [NoImage EXCEPT !.pc = "fetch", !.s = current]]
    /\ UNCHANGED <<current, session, socket, connecting, disconnect, history>>

\* The image goes through the socket its session has by then; an image that
\* cannot be fetched, or a socket that is closed, is logged and forgotten.
SendImage(i) ==
    /\ image[i].pc = "fetch"
    /\ \E pc \in {"sent", "lost"} :
          /\ pc = "sent" => Live(session[image[i].s].sock)
          /\ image' = [image EXCEPT ![i].pc = pc, ![i].s = NoSession]
    /\ UNCHANGED <<current, session, socket, connecting, disconnect, history>>

BaileysNext ==
    \/ \E s \in Sessions : ConnectTenant(s)
    \/ \E o \in {"api", "close"}, k \in Sockets : Connect(o, k)
    \/ ConnectFails
    \/ Restart
    \/ \E k \in Sockets : QrEvent(k) \/ OpenEvent(k) \/ NetworkClose(k)
    \/ \E d \in Disconnects : BeginDisconnect(d) \/ LoggedOut(d) \/ FinishDisconnect(d)
    \/ \E i \in Images : SendText(i) \/ BeginImage(i) \/ SendImage(i)

BaileysSpec == BaileysInit /\ [][BaileysNext]_baileysVars

-----------------------------------------------------------------------------
\* One socket per tenant: unless somebody connected while connect() or
\* disconnectTenant was at work, the only socket whose messages reach the
\* application is that of the session in the map.  Every other one would handle
\* each message of the customer once more, and could not be disconnected.
OneSocket ==
    ~history.overlapped =>
        \A k \in Sockets : Receives(k) => current # NoSession /\ session[current].sock = k

\* Under the same condition getStatus tells the truth: connected means that the
\* socket is open, disconnected that there is none, and a tenant is connecting as
\* long as something is on its way to a connection, or connect() has failed.
StatusHonest ==
    ~history.overlapped =>
        CASE GetStatus.status = "connected" ->
                 session[current].sock # NoSession /\ socket[session[current].sock].state = "open"
          [] GetStatus.status = "disconnected" -> \A k \in Sockets : ~Receives(k)
          [] OTHER -> \/ Connecting
                      \/ history.failed
                      \/ session[current].sock # NoSession /\ Receives(session[current].sock)

\* However the calls overlap: an image that was being fetched when its session
\* was disconnected is not sent afterwards.
NothingSentAfterDisconnect ==
    \A i \in Images : image[i].ended => image[i].pc # "sent"

\* A session that lost its socket is not left behind: as long as it is disconnected
\* the call of connect() that its close handler made, which nobody awaits and no timer
\* repeats, is still on its way, whichever calls overlapped.
NotLeftBehind ==
    current # NoSession /\ Status = "disconnected" => connecting["close"] > 0

\* A session and its sockets, whatever the order of their events, reconnections and
\* the tenant's own connecting and disconnecting (baileys.service.ts).
SessionSafe ==
    /\ OneSocket
    /\ StatusHonest
    /\ NotLeftBehind
    /\ NothingSentAfterDisconnect
=============================================================================
