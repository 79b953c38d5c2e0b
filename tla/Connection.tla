----------------------------- MODULE Connection -----------------------------
(***************************************************************************)
(* The state of a connection and who is told of it: Connect, OnConnect,    *)
(* OnDisconnect, OnClose, SendMessage and Close of client-sdk-v1 and of    *)
(* sdk-v1, which stands on core.  In the client a link is a call of        *)
(* Connect, in the server an accepted stream; either has a goroutine that  *)
(* ends in a read loop.                                                    *)
(*                                                                         *)
(* The hubs state and connected are one hub with two keys, which never     *)
(* meet.  It is the abstract topic, which Cheetah implements: a            *)
(* publication is one step and its parcels come when they come, so nothing *)
(* here rests on when a Publish is back.  The context that may be done is  *)
(* that of Connect; handlers stay, since Cheetah has what leaving does to  *)
(* a Publish.  Messages and datagrams are the subject of Delivery.         *)
(***************************************************************************)
EXTENDS Naturals, FiniteSets

CONSTANTS
    Sides,        \* which of the two SDKs to look at
    Links,        \* calls of Connect, or accepted streams
    OnConnect,    \* handlers given to OnConnect,
    OnDisconnect, \* to OnDisconnect,
    OnClose,      \* and to OnClose, each with the channel it subscribes
    Closer,       \* the goroutine that calls Close
    SKEY, CTKEY,
    MaxParcels,   \* bounds the publications; it is never met
    None

Handlers == OnConnect \cup OnDisconnect \cup OnClose
Goroutines == Links \cup {Closer}
States == {"Disconnected", "Connecting", "Connected", "Closed"}

ASSUME ConnectionAssumption ==
    /\ Sides \subseteq {"client", "server"}
    /\ Closer \notin Links
    /\ None \notin Goroutines \cup Handlers \cup {SKEY, CTKEY}
    /\ SKEY # CTKEY
    /\ IsFiniteSet(Links)
    /\ MaxParcels \in Nat /\ MaxParcels > 4 * Cardinality(Links)
    /\ OnConnect \cap (OnDisconnect \cup OnClose) = {}
    /\ OnDisconnect \cap OnClose = {}

VARIABLES member, gone, latch, count, owed, seen

topic == <<member, gone, latch, count, owed, seen>>

VARIABLES
    side,
    what,      \* what[n]: what parcel n says, and which goroutine says it
    at,        \* at[g]: where g is
    todo,      \* todo[g]: the argument of its updateState, what comes after
    mu,        \* who holds a.mu; the server's is not used
    socket,    \* a.socket, in the server core's msocket: whose it is
    conn,      \* conn[g]: the connection of link g
    listening, \* the listener takes connections
    cancelled, \* the context is done
    reg        \* reg[c]: where the goroutine of handler c is

app == <<side, what, at, todo, mu, socket, conn, listening,
         cancelled, reg>>
vars == <<topic, app>>

Hub == INSTANCE LatchedTopic WITH
          Keys <- {SKEY, CTKEY}, Chans <- Handlers

NoUpdate == <<"none", "none">>

Key(c) == IF c \in OnConnect THEN CTKEY ELSE SKEY

Init ==
    /\ Hub!Init
    /\ side \in Sides
    /\ what = [n \in 1..MaxParcels |-> <<"nothing", None>>]
    /\ at = [g \in Goroutines |-> "idle"]
    /\ todo = [g \in Goroutines |-> NoUpdate]
    /\ mu = None /\ socket = None
    /\ conn = [g \in Links |-> "none"]
    /\ listening = (side = "server") /\ cancelled = FALSE
    /\ reg = [c \in Handlers |-> "none"]

Go(g, place) == at' = [at EXCEPT ![g] = place]

(* g calls updateState(state) and goes on with next. *)
Update(g, state, next) ==
    /\ Go(g, "update")
    /\ todo' = [todo EXCEPT ![g] = <<state, next>>]

-----------------------------------------------------------------------------
(* updateState and Publish, for whoever calls them. *)

(* The client assigns a.State, which nothing reads, under a.mu. *)
SetState(g) ==
    /\ at[g] = "update"
    /\ side = "client" => mu = None
    /\ Go(g, "publish")
    /\ UNCHANGED <<topic, side, what, todo, mu, socket, conn, listening,
                   cancelled, reg>>

Publish(g, key, says) ==
    /\ Hub!Announce(key)
    /\ what' = [what EXCEPT ![count + 1] = <<says, g>>]

PublishState(g) ==
    /\ at[g] = "publish"
    /\ Publish(g, SKEY, todo[g][1])
    /\ Go(g, "told")
    /\ UNCHANGED <<side, todo, mu, socket, conn, listening, cancelled, reg>>

(* updateState is back.  Where the goroutine of Connect ends its deferred *)
(* calls close the connection; in the server they close the stream.       *)
Return(g) ==
    /\ at[g] = "told"
    /\ Go(g, todo[g][2])
    /\ todo' = [todo EXCEPT ![g] = NoUpdate]
    /\ IF side = "client" /\ todo[g][2] = "ended" /\ conn[g] = "up"
       THEN conn' = [conn EXCEPT ![g] = "down"]
       ELSE UNCHANGED conn
    /\ UNCHANGED <<topic, side, what, mu, socket, listening,
                   cancelled, reg>>

-----------------------------------------------------------------------------
(* Connect. *)

Connect(g) ==
    /\ side = "client" /\ at[g] = "idle"
    /\ Update(g, "Connecting", "dial")
    /\ UNCHANGED <<topic, side, what, mu, socket, conn, listening,
                   cancelled, reg>>

Dial(g) ==
    /\ at[g] = "dial"
    /\ \/ /\ ~cancelled
          /\ conn' = [conn EXCEPT ![g] = "up"]
          /\ Go(g, "handshake") /\ UNCHANGED todo
       \/ Update(g, "Disconnected", "ended") /\ UNCHANGED conn
    /\ UNCHANGED <<topic, side, what, mu, socket, listening, cancelled, reg>>

(* AsyncLIV takes a connection of the listener, ... *)
AcceptConn(g) ==
    /\ side = "server" /\ at[g] = "idle"
    /\ listening /\ ~cancelled
    /\ conn' = [conn EXCEPT ![g] = "up"]
    /\ Go(g, "accepted")
    /\ UNCHANGED <<topic, side, what, todo, mu, socket, listening,
                   cancelled, reg>>

(* ... then its stream, which becomes the one that SendMessage writes to.  *)
AcceptStream(g) ==
    /\ at[g] = "accepted" /\ conn[g] = "up" /\ ~cancelled
    /\ socket' = g
    /\ Go(g, "handshake")
    /\ UNCHANGED <<topic, side, what, todo, mu, conn, listening,
                   cancelled, reg>>

(* Either case of the select may be taken when both are ready. *)
Handshake(g) ==
    /\ at[g] = "handshake"
    /\ \/ Update(g, "Connected", IF side = "client" THEN "open" ELSE "connected")
       \/ cancelled /\ Update(g, "Closed", "ended")
    /\ UNCHANGED <<topic, side, what, mu, socket, conn, listening,
                   cancelled, reg>>

(* Mutant: the socket is not stored before the publication. *)
OpenUnstored(g) ==
    /\ at[g] = "open"
    /\ \/ conn[g] = "up" /\ Go(g, "connected") /\ UNCHANGED todo
       \/ /\ conn[g] = "down" \/ cancelled
          /\ Update(g, "Disconnected", "ended")
    /\ UNCHANGED <<topic, side, what, mu, socket, conn, listening,
                   cancelled, reg>>

(* OpenStreamSync. *)
Open(g) ==
    /\ at[g] = "open"
    /\ \/ conn[g] = "up" /\ Go(g, "socket") /\ UNCHANGED todo
       \/ /\ conn[g] = "down" \/ cancelled
          /\ Update(g, "Disconnected", "ended")
    /\ UNCHANGED <<topic, side, what, mu, socket, conn, listening,
                   cancelled, reg>>

SetSocket(g) ==
    /\ at[g] = "socket" /\ mu = None
    /\ socket' = g
    /\ Go(g, "connected")
    /\ UNCHANGED <<topic, side, what, todo, mu, conn, listening,
                   cancelled, reg>>

(* Mutant: nothing is published while nobody listens. *)
PublishIfHeard(g) ==
    /\ at[g] = "connected"
    /\ IF Hub!Present(CTKEY) = {}
       THEN UNCHANGED <<topic, what>>
       ELSE Publish(g, CTKEY, "socket")
    /\ Go(g, "loop")
    /\ UNCHANGED <<side, todo, mu, socket, conn, listening, cancelled, reg>>

PublishConnected(g) ==
    /\ at[g] = "connected"
    /\ Publish(g, CTKEY, "socket")
    /\ Go(g, "loop")
    /\ UNCHANGED <<side, todo, mu, socket, conn, listening, cancelled, reg>>

(* The loop goes round; a server whose context is done reads no more, and *)
(* goes round for ever.                                                   *)
Loop(g) ==
    /\ at[g] = "loop"
    /\ Go(g, IF side = "server" /\ cancelled THEN "spinning" ELSE "reading")
    /\ UNCHANGED <<topic, side, what, todo, mu, socket, conn, listening,
                   cancelled, reg>>

ReadMessage(g) ==
    /\ at[g] = "reading" /\ conn[g] = "up"
    /\ Go(g, "loop")
    /\ UNCHANGED <<topic, side, what, todo, mu, socket, conn, listening,
                   cancelled, reg>>

(* Mutant: the loop ends without a word. *)
ReadErrorSilent(g) ==
    /\ at[g] = "reading" /\ conn[g] = "down"
    /\ Go(g, "ended")
    /\ UNCHANGED <<topic, side, what, todo, mu, socket, conn, listening,
                   cancelled, reg>>

ReadError(g) ==
    /\ at[g] = "reading" /\ conn[g] = "down"
    /\ Update(g, "Disconnected", "ended")
    /\ UNCHANGED <<topic, side, what, mu, socket, conn, listening,
                   cancelled, reg>>

LinkStep(g) ==
    \/ SetState(g) \/ PublishState(g) \/ Return(g)
    \/ Dial(g) \/ Handshake(g) \/ Open(g) \/ SetSocket(g)
    \/ PublishConnected(g) \/ Loop(g) \/ ReadError(g)

-----------------------------------------------------------------------------
(* Close, and what comes from outside. *)

(* The client's holds a.mu over all that follows, updateState first. *)
Close ==
    /\ at[Closer] = "idle"
    /\ IF side = "client" THEN mu = None /\ mu' = Closer ELSE UNCHANGED mu
    /\ Update(Closer, "Closed", "closing")
    /\ UNCHANGED <<topic, side, what, socket, conn, listening,
                   cancelled, reg>>

(* The listener is closed, and the connection of the socket that is known; *)
(* connections that were accepted before go on.                            *)
CloseSocket ==
    /\ at[Closer] = "closing"
    /\ listening' = FALSE
    /\ conn' = IF socket = None THEN conn ELSE [conn EXCEPT ![socket] = "down"]
    /\ mu' = None
    /\ Go(Closer, "closed")
    /\ UNCHANGED <<topic, side, what, todo, socket, cancelled, reg>>

CloseStep ==
    \/ Close \/ CloseSocket
    \/ SetState(Closer) \/ PublishState(Closer) \/ Return(Closer)

PeerLeaves(g) ==
    /\ conn[g] = "up"
    /\ conn' = [conn EXCEPT ![g] = "down"]
    /\ UNCHANGED <<topic, side, what, at, todo, mu, socket, listening,
                   cancelled, reg>>

Cancel ==
    /\ ~cancelled
    /\ cancelled' = TRUE
    /\ UNCHANGED <<topic, side, what, at, todo, mu, socket, conn,
                   listening, reg>>

(* AcceptStream fails, and its goroutine closes the connection. *)
CloseConn(g) ==
    /\ side = "server" /\ cancelled
    /\ PeerLeaves(g)

-----------------------------------------------------------------------------
(* The handlers. *)

(* OnConnect, OnDisconnect or OnClose is back before its goroutine runs. *)
Register(c) ==
    /\ reg[c] = "none"
    /\ reg' = [reg EXCEPT ![c] = "starting"]
    /\ UNCHANGED <<topic, side, what, at, todo, mu, socket, conn,
                   listening, cancelled>>

Subscribe(c) ==
    /\ reg[c] = "starting"
    /\ Hub!Join(c, Key(c))
    /\ reg' = [reg EXCEPT ![c] = "waiting"]
    /\ UNCHANGED <<side, what, at, todo, mu, socket, conn, listening,
                   cancelled>>

(* A parcel comes.  The handler of OnConnect is called with its socket; the *)
(* others look whether it is their state, and their handlers only return.   *)
Receive(c) ==
    /\ reg[c] = "waiting"
    /\ Hub!See(c)
    /\ reg' = [reg EXCEPT ![c] = IF c \in OnConnect THEN "handling" ELSE @]
    /\ UNCHANGED <<side, what, at, todo, mu, socket, conn, listening,
                   cancelled>>

CallSendMessage(c) ==
    /\ reg[c] = "handling"
    /\ reg' = [reg EXCEPT ![c] = "sending"]
    /\ UNCHANGED <<topic, side, what, at, todo, mu, socket, conn, listening,
                   cancelled>>

(* The client reads a.socket under a.mu, core reads msocket without. *)
SendMessage(c) ==
    /\ reg[c] = "sending"
    /\ side = "client" => mu = None
    /\ reg' = [reg EXCEPT ![c] = IF socket = None THEN "not ready" ELSE "sent"]
    /\ UNCHANGED <<topic, side, what, at, todo, mu, socket, conn, listening,
                   cancelled>>

HandlerReturns(c) ==
    /\ reg[c] \in {"handling", "sent", "not ready"}
    /\ reg' = [reg EXCEPT ![c] = "waiting"]
    /\ UNCHANGED <<topic, side, what, at, todo, mu, socket, conn, listening,
                   cancelled>>

Next ==
    \/ \E g \in Links : \/ Connect(g) \/ AcceptConn(g) \/ AcceptStream(g)
                        \/ ReadMessage(g) \/ PeerLeaves(g) \/ CloseConn(g)
                        \/ LinkStep(g)
    \/ CloseStep \/ Cancel
    \/ \E c \in Handlers : Register(c) \/ Subscribe(c) \/ Receive(c)
    \/ \E c \in OnConnect : CallSendMessage(c) \/ SendMessage(c)
                             \/ HandlerReturns(c)

(* Goroutines that can run do, dialling ends, handlers return; Close has   *)
(* no fairness: nobody has to call it.                                     *)
Fairness ==
    /\ \A g \in Links : WF_vars(LinkStep(g))
    /\ \A c \in Handlers : WF_vars(Subscribe(c)) /\ WF_vars(Receive(c))
    /\ \A c \in OnConnect : WF_vars(SendMessage(c) \/ HandlerReturns(c))

Spec == Init /\ [][Next]_vars /\ Fairness

-----------------------------------------------------------------------------
TypeOK ==
    /\ member \in [Handlers -> {SKEY, CTKEY, None}] /\ gone = {}
    /\ count \in 0..(4 * Cardinality(Links) + 1)
    /\ latch \in [{SKEY, CTKEY} -> 0..count]
    /\ owed \in [Handlers -> SUBSET (1..count)]
    /\ seen \in [Handlers -> SUBSET (1..count)]
    /\ side \in Sides
    /\ what \in [1..MaxParcels ->
                   (States \cup {"socket", "nothing"}) \X (Goroutines \cup {None})]
    /\ at \in [Goroutines ->
                 {"idle", "dial", "accepted", "handshake", "open", "socket",
                  "connected", "loop", "reading", "spinning", "update",
                  "publish", "told", "ended", "closing", "closed"}]
    /\ mu \in {None, Closer} /\ socket \in Links \cup {None}
    /\ conn \in [Links -> {"none", "up", "down"}]
    /\ listening \in BOOLEAN /\ cancelled \in BOOLEAN
    /\ reg \in [Handlers -> {"none", "starting", "waiting", "handling",
                         "sending", "sent", "not ready"}]

(* client-sdk-v1/api.go:191, core/api.go:28: a handler of OnConnect that  *)
(* calls SendMessage is never too early, whichever link it was called for *)
(* and whether it was there in time or got the latched event.             *)
ReadyWhenConnected == \A c \in OnConnect : reg[c] # "not ready"

(* The client hangs in Close. *)
Hanging == mu = Closer

PublishedFor(g, n) == \E m \in 1..n : what[m] = <<"socket", g>>

(* client-sdk-v1/api.go:50, sdk-v1/api.go:29: when a link is connected and *)
(* OnConnect was called, before the publication or after it, some handler  *)
(* is called with its socket or with that of one connected later:          *)
(* runDownload, which calls Connect first, rests on it.                    *)
ConnectIsHeard ==
    \A g \in Links :
       (/\ at[g] = "connected" \/ PublishedFor(g, count)
        /\ \E c \in OnConnect : reg[c] # "none") ~>
       (\E c \in OnConnect : \E n \in seen[c] : PublishedFor(g, n)) \/ Hanging

(* client-sdk-v1/api.go:53-57, sdk-v1/api.go:41-46: a connection that is *)
(* gone is told to every handler of OnDisconnect that has subscribed, if *)
(* the client does not hang in Close, and the server's context, after    *)
(* which its loops no longer read, is not done.                          *)
DisconnectIsHeard ==
    \A g \in Links, c \in OnDisconnect :
       (/\ reg[c] = "waiting" /\ conn[g] = "down"
        /\ at[g] \in {"open", "socket", "connected", "loop", "reading"}) ~>
       \/ \E n \in seen[c] : what[n] = <<"Disconnected", g>>
       \/ Hanging \/ (side = "server" /\ cancelled)
=============================================================================
