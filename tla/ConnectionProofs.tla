-------------------------- MODULE ConnectionProofs --------------------------
(* Theorems about the state of a connection and who is told of it. *)
EXTENDS Connection, TLAPS

USE ConnectionAssumption

(* The types: those of TypeOK, except that count is bounded by MaxParcels. *)
TopicTypes ==
    /\ member \in [Handlers -> {SKEY, CTKEY, None}] /\ gone = {}
    /\ count \in 0..MaxParcels
    /\ latch \in [{SKEY, CTKEY} -> 0..count]
    /\ owed \in [Handlers -> SUBSET (1..count)]
    /\ seen \in [Handlers -> SUBSET (1..count)]

Places == {"idle", "dial", "accepted", "handshake", "open", "socket", "connected", "loop",
           "reading", "spinning", "update", "publish", "told", "ended", "closing", "closed"}

After == {"none", "dial", "open", "connected", "ended", "closing"}

LinkTypes ==
    /\ side \in Sides
    /\ at \in [Goroutines -> Places]
    /\ todo \in [Goroutines -> (States \cup {"none"}) \X After]
    /\ \A g \in Goroutines : at[g] \in {"publish", "update"} => todo[g][1] \in States
    /\ \A g \in Goroutines : at[g] \in {"publish", "update", "told"} => todo[g][2] # "none"
    /\ mu \in {None, Closer} /\ socket \in Links \cup {None}
    /\ conn \in [Links -> {"none", "up", "down"}]
    /\ listening \in BOOLEAN /\ cancelled \in BOOLEAN
    /\ reg \in [Handlers -> {"none", "starting", "waiting", "handling",
                           "sending", "sent", "not ready"}]

Said ==
    what \in [1..MaxParcels -> (States \cup {"socket", "nothing"}) \X (Goroutines \cup {None})]

Types == TopicTypes /\ LinkTypes /\ Said

(* Wherever a handler of OnConnect may come to call SendMessage there is a
   socket: it is set before "connected" is published, and never taken back. *)
Ready ==
    /\ \A g \in Links : at[g] = "connected" => socket # None
    /\ \A g \in Links : side = "server" /\ at[g] = "handshake" => socket # None
    /\ \A g \in Goroutines : todo[g][2] = "connected" => socket # None
    /\ latch[CTKEY] # 0 => socket # None
    /\ \A c \in OnConnect :
          /\ member[c] # SKEY
          /\ owed[c] # {} => socket # None
          /\ reg[c] \in {"handling", "sending"} => socket # None
          /\ reg[c] # "not ready"

(* Only the client dials. *)
Dials == \A g \in Links : at[g] = "dial" \/ todo[g][2] = "dial" => side = "client"

LinkAction(g) ==
    \/ Connect(g) \/ AcceptConn(g) \/ AcceptStream(g)
    \/ ReadMessage(g) \/ PeerLeaves(g) \/ CloseConn(g) \/ LinkStep(g)

HandlerAction(c) ==
    \/ Register(c) \/ Subscribe(c) \/ Receive(c)
    \/ c \in OnConnect /\ (CallSendMessage(c) \/ SendMessage(c) \/ HandlerReturns(c))

(* A step is one of a link, of Close, of the context, or of a handler. *)
LEMMA Steps ==
    ASSUME [Next]_vars
    PROVE  \/ \E g \in Links : LinkAction(g)
           \/ CloseStep \/ Cancel
           \/ \E c \in Handlers : HandlerAction(c)
           \/ UNCHANGED vars
BY DEF Next, LinkAction, HandlerAction, Handlers

(* What a step does to the hub. *)
LEMMA TopicStep ==
    ASSUME [Next]_vars
    PROVE  \/ UNCHANGED topic
           \/ \E g \in Goroutines : PublishState(g)
           \/ \E g \in Links : PublishConnected(g)
           \/ \E c \in Handlers : Subscribe(c) \/ Receive(c)
<1>1. ASSUME NEW g \in Links, LinkAction(g), ~PublishState(g), ~PublishConnected(g)
      PROVE  UNCHANGED topic
    BY <1>1 DEF LinkAction, LinkStep, Connect, AcceptConn, AcceptStream, ReadMessage, PeerLeaves,
                CloseConn, SetState, Return, Dial, Handshake, Open, SetSocket, Loop, ReadError
<1>2. ASSUME CloseStep, ~PublishState(Closer) PROVE UNCHANGED topic
    BY <1>2 DEF CloseStep, Close, CloseSocket, SetState, Return
<1>3. ASSUME Cancel PROVE UNCHANGED topic
    BY <1>3 DEF Cancel
<1>4. ASSUME NEW c \in Handlers, HandlerAction(c), ~Subscribe(c), ~Receive(c) PROVE UNCHANGED topic
    BY <1>4 DEF HandlerAction, Register, CallSendMessage, SendMessage, HandlerReturns
<1>5. ASSUME UNCHANGED vars PROVE UNCHANGED topic
    BY <1>5 DEF vars
<1>6. Closer \in Goroutines /\ Links \subseteq Goroutines
    BY DEF Goroutines
<1> QED BY <1>1, <1>2, <1>3, <1>4, <1>5, <1>6, Steps

(* What the proofs need of the constants. *)
LEMMA Constants ==
    /\ SKEY # CTKEY /\ None \notin {SKEY, CTKEY} /\ None \notin Goroutines
    /\ Closer \in Goroutines /\ Closer \notin Links /\ Closer # None
    /\ \A g \in Links : g \in Goroutines /\ g # Closer /\ g # None
    /\ \A c \in OnConnect : c \in Handlers /\ Key(c) = CTKEY
    /\ \A c \in Handlers : Key(c) \in {SKEY, CTKEY}
    /\ MaxParcels \in Nat
BY DEF ConnectionAssumption, Goroutines, Handlers, Key

(* The operations of the hub keep its types. *)
LEMMA AnnounceTypes ==
    ASSUME TopicTypes, NEW k \in {SKEY, CTKEY}, Hub!Announce(k)
    PROVE  /\ TopicTypes'
           /\ count' = count + 1 /\ count + 1 \in 1..MaxParcels
<1>1. count \in Nat /\ count + 1 \in 1..MaxParcels /\ count' = count + 1
    BY Constants DEF TopicTypes, Hub!Announce
<1>2. /\ 0..count \subseteq 0..count' /\ 1..count \subseteq 1..count'
      /\ count + 1 \in 0..count' /\ count + 1 \in 1..count' /\ count' \in 0..MaxParcels
    BY <1>1, Constants
<1>3. latch' \in [{SKEY, CTKEY} -> 0..count']
    BY <1>2 DEF TopicTypes, Hub!Announce
<1>4. owed' \in [Handlers -> SUBSET (1..count')]
    BY <1>2 DEF TopicTypes, Hub!Announce
<1>5. seen' \in [Handlers -> SUBSET (1..count')]
    BY <1>2 DEF TopicTypes, Hub!Announce
<1> QED BY <1>1, <1>2, <1>3, <1>4, <1>5 DEF TopicTypes, Hub!Announce

(* The two hubs keep their types. *)
LEMMA TopicTypesStep ==
    ASSUME TopicTypes, [Next]_vars
    PROVE  TopicTypes'
<1>1. CASE UNCHANGED topic
    BY <1>1 DEF TopicTypes, topic
<1>2. ASSUME NEW k \in {SKEY, CTKEY}, Hub!Announce(k) PROVE TopicTypes'
    BY <1>2, AnnounceTypes
<1>3. ASSUME NEW c \in Handlers, Subscribe(c) PROVE TopicTypes'
    <2>1. Hub!Join(c, Key(c)) /\ Key(c) \in {SKEY, CTKEY} /\ count \in Nat
        BY <1>3, Constants DEF Subscribe, TopicTypes
    <2>2. {latch[Key(c)]} \ {0} \in SUBSET (1..count)
        BY <2>1 DEF TopicTypes
    <2>3. 0 \in 0..count
        BY <2>1
    <2> QED BY <2>1, <2>2, <2>3 DEF TopicTypes, Hub!Join
<1>4. ASSUME NEW c \in Handlers, Receive(c) PROVE TopicTypes'
    BY <1>4 DEF TopicTypes, Receive, Hub!See
<1> QED BY <1>1, <1>2, <1>3, <1>4, TopicStep DEF PublishState, PublishConnected, Publish

(* The links and handlers keep theirs. *)
LEMMA LinkTypesStep ==
    ASSUME LinkTypes, [Next]_vars
    PROVE  LinkTypes'
<1> USE Constants
<1>1. ASSUME NEW g \in Goroutines, SetState(g) \/ PublishState(g) \/ Return(g) PROVE LinkTypes'
    <2>1. CASE SetState(g)
        BY <2>1 DEF LinkTypes, SetState, Go, Places
    <2>2. CASE PublishState(g)
        BY <2>2 DEF LinkTypes, PublishState, Go, Places
    <2>3. CASE Return(g)
        <3>1. todo[g] \in (States \cup {"none"}) \X After
            BY DEF LinkTypes
        <3>2. todo[g][2] \in After /\ todo[g][2] # "none"
            BY <2>3, <3>1 DEF LinkTypes, Return
        <3>3. todo[g][2] \in Places \ {"publish", "update", "told"}
            BY <3>2 DEF After, Places
        <3>4. at' = [at EXCEPT ![g] = todo[g][2]] /\ todo' = [todo EXCEPT ![g] = NoUpdate]
              /\ UNCHANGED <<side, mu, socket, listening, cancelled, reg>>
            BY <2>3 DEF Return, Go
        <3>5. NoUpdate \in (States \cup {"none"}) \X After
            BY DEF NoUpdate, After
        <3>6. conn' \in [Links -> {"none", "up", "down"}]
            BY <2>3 DEF Return, LinkTypes
        <3>7. at' \in [Goroutines -> Places]
            BY <3>3, <3>4 DEF LinkTypes
        <3>8. todo' \in [Goroutines -> (States \cup {"none"}) \X After]
            BY <3>4, <3>5 DEF LinkTypes
        <3>9. \A h \in Goroutines :
                 /\ at'[h] \in {"publish", "update"} => todo'[h][1] \in States
                 /\ at'[h] \in {"publish", "update", "told"} => todo'[h][2] # "none"
            BY <3>3, <3>4 DEF LinkTypes
        <3> QED BY <3>4, <3>6, <3>7, <3>8, <3>9 DEF LinkTypes
    <2> QED BY <1>1, <2>1, <2>2, <2>3
<1>2. ASSUME NEW g \in Goroutines, NEW z \in States, NEW n \in After \ {"none"}, Update(g, z, n)
      PROVE  /\ at' \in [Goroutines -> Places]
             /\ todo' \in [Goroutines -> (States \cup {"none"}) \X After]
             /\ \A h \in Goroutines : at'[h] \in {"publish", "update"} => todo'[h][1] \in States
             /\ \A h \in Goroutines : at'[h] \in {"publish", "update", "told"} => todo'[h][2] # "none"
    BY <1>2 DEF LinkTypes, Update, Go, Places
<1>3. ASSUME NEW g \in Goroutines, UNCHANGED todo,
             NEW place \in {"accepted", "handshake", "socket", "connected", "loop", "reading",
                            "spinning"},
             Go(g, place)
      PROVE  /\ at' \in [Goroutines -> Places]
             /\ \A h \in Goroutines : at'[h] \in {"publish", "update"} => todo'[h][1] \in States
             /\ \A h \in Goroutines : at'[h] \in {"publish", "update", "told"} => todo'[h][2] # "none"
    BY <1>3 DEF LinkTypes, Go, Places
<1>4. ASSUME NEW g \in Links, LinkAction(g) PROVE LinkTypes'
    <2>1. CASE Connect(g)
        <3>1. Update(g, "Connecting", "dial")
            BY <2>1 DEF Connect
        <3> QED BY <1>2, <2>1, <3>1 DEF Connect, LinkTypes, States, After
    <2>2. CASE AcceptConn(g) \/ AcceptStream(g) \/ ReadMessage(g) \/ PeerLeaves(g) \/ CloseConn(g)
        <3>1. CASE AcceptConn(g)
            BY <1>3, <3>1 DEF LinkTypes, AcceptConn
        <3>2. CASE AcceptStream(g)
            BY <1>3, <3>2 DEF LinkTypes, AcceptStream
        <3>3. CASE ReadMessage(g)
            BY <1>3, <3>3 DEF LinkTypes, ReadMessage
        <3>4. CASE PeerLeaves(g) \/ CloseConn(g)
            BY <3>4 DEF LinkTypes, PeerLeaves, CloseConn
        <3> QED BY <2>2, <3>1, <3>2, <3>3, <3>4
    <2>3. CASE SetState(g) \/ PublishState(g) \/ Return(g)
        BY <1>1, <2>3
    <2>4. CASE Dial(g)
        <3>1. CASE Go(g, "handshake") /\ conn' = [conn EXCEPT ![g] = "up"] /\ UNCHANGED todo
            BY <1>3, <2>4, <3>1 DEF Dial, LinkTypes
        <3>2. CASE Update(g, "Disconnected", "ended") /\ UNCHANGED conn
            BY <1>2, <2>4, <3>2 DEF Dial, LinkTypes, States, After
        <3> QED BY <2>4, <3>1, <3>2 DEF Dial
    <2>5. CASE Handshake(g)
        BY <1>2, <2>5 DEF Handshake, LinkTypes, States, After
    <2>6. CASE Open(g)
        BY <1>2, <2>6, ZenonT(30) DEF Open, LinkTypes, States, After, Go, Places
    <2>7. CASE SetSocket(g) \/ PublishConnected(g) \/ Loop(g)
        <3>1. CASE SetSocket(g)
            BY <1>3, <3>1 DEF LinkTypes, SetSocket
        <3>2. CASE PublishConnected(g)
            BY <1>3, <3>2 DEF LinkTypes, PublishConnected
        <3>3. CASE Loop(g)
            BY <1>3, <3>3 DEF LinkTypes, Loop
        <3> QED BY <2>7, <3>1, <3>2, <3>3
    <2>8. CASE ReadError(g)
        BY <1>2, <2>8 DEF ReadError, LinkTypes, States, After
    <2> QED BY <1>4, <2>1, <2>2, <2>3, <2>4, <2>5, <2>6, <2>7, <2>8 DEF LinkAction, LinkStep
<1>5. CASE CloseStep
    <2>1. CASE Close
        <3>1. Update(Closer, "Closed", "closing")
            BY <2>1 DEF Close
        <3> QED BY <1>2, <2>1, <3>1 DEF Close, LinkTypes, States, After
    <2>2. CASE CloseSocket
        <3>1. conn' \in [Links -> {"none", "up", "down"}]
            BY <2>2 DEF CloseSocket, LinkTypes
        <3> QED BY <2>2, <3>1 DEF CloseSocket, LinkTypes, Go, Places
    <2> QED BY <1>1, <1>5, <2>1, <2>2 DEF CloseStep
<1>6. CASE Cancel
    BY <1>6 DEF Cancel, LinkTypes
<1>7. ASSUME NEW c \in Handlers, HandlerAction(c) PROVE LinkTypes'
    BY <1>7 DEF HandlerAction, Register, Subscribe, Receive, CallSendMessage, SendMessage,
                HandlerReturns, LinkTypes
<1>8. CASE UNCHANGED vars
    BY <1>8 DEF vars, app, LinkTypes
<1> QED BY <1>4, <1>5, <1>6, <1>7, <1>8, Steps

(* What is said comes from a publication. *)
LEMMA SaidStep ==
    ASSUME Types, [Next]_vars
    PROVE  /\ Said'
           /\ \/ UNCHANGED <<what, count>>
              \/ \E g \in Goroutines, z \in States \cup {"socket"} :
                    /\ z = "socket" \/ (at[g] = "publish" /\ z = todo[g][1])
                    /\ count' = count + 1 /\ count + 1 \in 1..MaxParcels
                    /\ what' = [what EXCEPT ![count + 1] = <<z, g>>]
<1> USE Constants
<1>1. ASSUME NEW g \in Goroutines, NEW k \in {SKEY, CTKEY}, NEW z \in States \cup {"socket"},
             Publish(g, k, z)
      PROVE  /\ count' = count + 1 /\ count + 1 \in 1..MaxParcels
             /\ what' = [what EXCEPT ![count + 1] = <<z, g>>]
             /\ Said'
    <2>1. Hub!Announce(k) /\ what' = [what EXCEPT ![count + 1] = <<z, g>>]
        BY <1>1 DEF Publish
    <2>2. count' = count + 1 /\ count + 1 \in 1..MaxParcels
        BY <2>1, AnnounceTypes DEF Types
    <2>3. <<z, g>> \in (States \cup {"socket", "nothing"}) \X (Goroutines \cup {None})
        OBVIOUS
    <2> QED BY <2>1, <2>2, <2>3 DEF Types, Said
<1>2. ASSUME NEW g \in Goroutines, PublishState(g)
      PROVE  /\ count' = count + 1 /\ count + 1 \in 1..MaxParcels
             /\ what' = [what EXCEPT ![count + 1] = <<todo[g][1], g>>]
             /\ at[g] = "publish" /\ todo[g][1] \in States
             /\ Said'
    <2>1. at[g] = "publish" /\ todo[g][1] \in States /\ Publish(g, SKEY, todo[g][1])
        BY <1>2 DEF PublishState, Types, LinkTypes
    <2> QED BY <1>1, <2>1
<1>3. ASSUME NEW g \in Links, PublishConnected(g)
      PROVE  /\ count' = count + 1 /\ count + 1 \in 1..MaxParcels
             /\ what' = [what EXCEPT ![count + 1] = <<"socket", g>>]
             /\ Said'
    <2>1. Publish(g, CTKEY, "socket")
        BY <1>3 DEF PublishConnected
    <2> QED BY <1>1, <2>1
<1>4. ASSUME NEW c \in Handlers, Subscribe(c) \/ Receive(c)
      PROVE  UNCHANGED <<what, count>>
    BY <1>4 DEF Subscribe, Receive, Hub!Join, Hub!See
<1>5. ASSUME UNCHANGED topic PROVE UNCHANGED count
    BY <1>5 DEF topic
<1>6. \/ UNCHANGED what
      \/ \E g \in Goroutines : PublishState(g)
      \/ \E g \in Links : PublishConnected(g)
    <2>1. ASSUME NEW g \in Links, LinkAction(g), ~PublishState(g), ~PublishConnected(g)
          PROVE  UNCHANGED what
        BY <2>1 DEF LinkAction, LinkStep, Connect, AcceptConn, AcceptStream, ReadMessage,
                    PeerLeaves, CloseConn, SetState, Return, Dial, Handshake, Open, SetSocket,
                    Loop, ReadError
    <2>2. ASSUME CloseStep, ~PublishState(Closer) PROVE UNCHANGED what
        BY <2>2 DEF CloseStep, Close, CloseSocket, SetState, Return
    <2>3. ASSUME Cancel PROVE UNCHANGED what
        BY <2>3 DEF Cancel
    <2>4. ASSUME NEW c \in Handlers, HandlerAction(c) PROVE UNCHANGED what
        BY <2>4 DEF HandlerAction, Register, Subscribe, Receive, CallSendMessage, SendMessage,
                    HandlerReturns
    <2>5. ASSUME UNCHANGED vars PROVE UNCHANGED what
        BY <2>5 DEF vars, app
    <2> QED BY <2>1, <2>2, <2>3, <2>4, <2>5, Steps
<1>7. ASSUME UNCHANGED <<what, count>> PROVE Said'
    BY <1>7 DEF Types, Said
<1> QED BY <1>2, <1>3, <1>4, <1>5, <1>6, <1>7, TopicStep

(* A socket, once set, is there for good. *)
LEMMA SocketStays ==
    ASSUME LinkTypes, [Next]_vars
    PROVE  socket # None => socket' # None
<1>1. ASSUME NEW g \in Links, LinkAction(g) PROVE socket' = g \/ UNCHANGED socket
    BY <1>1 DEF LinkAction, LinkStep, Connect, AcceptConn, AcceptStream, ReadMessage,
                PeerLeaves, CloseConn, SetState, PublishState, Return, Dial, Handshake, Open,
                SetSocket, PublishConnected, Loop, ReadError
<1>2. ASSUME CloseStep \/ Cancel PROVE UNCHANGED socket
    BY <1>2 DEF CloseStep, Close, CloseSocket, SetState, PublishState, Return, Cancel
<1>3. ASSUME NEW c \in Handlers, HandlerAction(c) PROVE UNCHANGED socket
    BY <1>3 DEF HandlerAction, Register, Subscribe, Receive, CallSendMessage, SendMessage,
                HandlerReturns
<1>4. ASSUME UNCHANGED vars PROVE UNCHANGED socket
    BY <1>4 DEF vars, app
<1> QED BY <1>1, <1>2, <1>3, <1>4, Steps, Constants

(* A link of a server never comes to dial. *)
LEMMA DialsStep ==
    ASSUME LinkTypes, Dials, [Next]_vars
    PROVE  Dials'
<1> USE Constants
<1>1. DOMAIN at = Goroutines /\ DOMAIN todo = Goroutines
    BY DEF LinkTypes
<1>2. ASSUME NEW g \in Links, LinkAction(g)
      PROVE  /\ UNCHANGED side
             /\ \A h \in Links \ {g} : at'[h] = at[h] /\ todo'[h] = todo[h]
    BY <1>1, <1>2 DEF LinkAction, LinkStep, Connect, AcceptConn, AcceptStream, ReadMessage,
                PeerLeaves, CloseConn, SetState, PublishState, Return, Dial, Handshake, Open,
                SetSocket, PublishConnected, Loop, ReadError, Go, Update
<1>3. ASSUME NEW g \in Links, LinkAction(g)
      PROVE  at'[g] = "dial" \/ todo'[g][2] = "dial" => side = "client"
    <2>1. CASE Connect(g)
        BY <2>1 DEF Connect
    <2>2. CASE Return(g)
        BY <1>1, <2>2 DEF Return, Go, NoUpdate, Dials
    <2>3. CASE SetState(g) \/ PublishState(g)
        BY <1>1, <2>3 DEF SetState, PublishState, Go, Dials
    <2>4. CASE PeerLeaves(g) \/ CloseConn(g)
        BY <2>4 DEF PeerLeaves, CloseConn, Dials
    <2>5. CASE \/ AcceptConn(g) \/ AcceptStream(g) \/ ReadMessage(g) \/ SetSocket(g)
               \/ PublishConnected(g) \/ Loop(g)
        BY <1>1, <2>5 DEF AcceptConn, AcceptStream, ReadMessage, SetSocket, PublishConnected, Loop,
                          Go, Dials
    <2>6. ASSUME NEW z, NEW n, n # "dial", Update(g, z, n)
          PROVE  at'[g] # "dial" /\ todo'[g][2] # "dial"
        BY <1>1, <2>6 DEF Update, Go
    <2>7. CASE Dial(g)
        BY <1>1, <2>6, <2>7 DEF Dial, Go, Dials
    <2>8. CASE Handshake(g)
        <3>1. \E z \in States, n \in {"open", "connected", "ended"} : Update(g, z, n)
            BY <2>8 DEF Handshake, States
        <3> QED BY <2>6, <3>1
    <2>9. CASE Open(g)
        BY <1>1, <2>6, <2>9 DEF Open, Go, Dials
    <2>10. CASE ReadError(g)
        BY <2>6, <2>10 DEF ReadError
    <2> QED BY <1>3, <2>1, <2>2, <2>3, <2>4, <2>5, <2>7, <2>8, <2>9, <2>10 DEF LinkAction, LinkStep
<1>4. ASSUME NEW g \in Links, LinkAction(g) PROVE Dials'
    BY <1>2, <1>3, <1>4 DEF Dials
<1>5. ASSUME CloseStep
      PROVE  UNCHANGED side /\ \A h \in Links : at'[h] = at[h] /\ todo'[h] = todo[h]
    BY <1>1, <1>5 DEF CloseStep, Close, CloseSocket, SetState, PublishState, Return, Update, Go
<1>6. ASSUME Cancel PROVE UNCHANGED <<at, todo, side>>
    BY <1>6 DEF Cancel
<1>7. ASSUME NEW c \in Handlers, HandlerAction(c) PROVE UNCHANGED <<at, todo, side>>
    BY <1>7 DEF HandlerAction, Register, Subscribe, Receive, CallSendMessage, SendMessage,
                HandlerReturns
<1>8. ASSUME UNCHANGED vars PROVE UNCHANGED <<at, todo, side>>
    BY <1>8 DEF vars, app
<1> QED BY <1>4, <1>5, <1>6, <1>7, <1>8, Steps DEF Dials

(* Nothing new that Ready speaks of: what was so stays so. *)
LEMMA ReadyStays ==
    ASSUME LinkTypes, Ready, [Next]_vars, UNCHANGED side,
           \A g \in Links : at'[g] = "connected" => at[g] = "connected" \/ socket # None,
           \A g \in Links : side = "server" /\ at'[g] = "handshake" =>
                             at[g] = "handshake" \/ socket' # None,
           \A g \in Goroutines : todo'[g][2] = "connected" =>
                             todo[g][2] = "connected" \/ socket # None,
           latch'[CTKEY] # 0 => latch[CTKEY] # 0 \/ socket # None,
           \A c \in OnConnect :
              /\ member'[c] # SKEY
              /\ owed'[c] # {} => owed[c] # {} \/ socket # None
              /\ reg'[c] \in {"handling", "sending"} =>
                    reg[c] \in {"handling", "sending"} \/ socket # None
              /\ reg'[c] # "not ready"
    PROVE  Ready'
<1>1. socket # None => socket' # None
    BY SocketStays
<1> QED BY <1>1 DEF Ready

(* Nothing on the way to a handler of OnConnect goes before the socket. *)
LEMMA ReadyStep ==
    ASSUME Types, Dials, Ready, [Next]_vars
    PROVE  Ready'
<1> USE Constants
<1>1. LinkTypes /\ TopicTypes
    BY DEF Types
<1>2. /\ DOMAIN at = Goroutines /\ DOMAIN todo = Goroutines /\ DOMAIN reg = Handlers
      /\ DOMAIN owed = Handlers /\ DOMAIN member = Handlers /\ DOMAIN latch = {SKEY, CTKEY}
    BY <1>1 DEF LinkTypes, TopicTypes
<1>3. ASSUME NEW g \in Goroutines, SetState(g) \/ PublishState(g) \/ Return(g) PROVE Ready'
    <2>1. UNCHANGED <<side, reg, member>>
        BY <1>3 DEF SetState, PublishState, Return, Publish, Hub!Announce, topic
    <2>2. /\ \A h \in Links : at'[h] # at[h] => at'[h] = "publish" \/ at'[h] = "told" \/ at'[h] = todo[h][2]
          /\ \A h \in Goroutines : todo'[h] = todo[h] \/ todo'[h] = NoUpdate
        BY <1>2, <1>3 DEF SetState, PublishState, Return, Go
    <2>3. todo[g][2] \in After
        BY <1>1 DEF LinkTypes
    <2>4. \A h \in Goroutines : todo[h][2] # "handshake"
        BY <1>1 DEF LinkTypes, After
    <2>5. \A c \in OnConnect : owed'[c] = owed[c]
        <3>1. CASE PublishState(g)
            <4>1. \A c \in OnConnect : c \notin Hub!Present(SKEY)
                BY DEF Ready, Hub!Present
            <4> QED BY <3>1, <4>1 DEF PublishState, Publish, Hub!Announce
        <3>2. CASE SetState(g) \/ Return(g)
            BY <3>2 DEF SetState, Return, topic
        <3> QED BY <1>3, <3>1, <3>2
    <2>6. latch'[CTKEY] = latch[CTKEY]
        BY <1>2, <1>3 DEF SetState, Return, topic, PublishState, Publish, Hub!Announce
    <2>7. \A h \in Links : at'[h] = "connected" => at[h] = "connected" \/ socket # None
        <3> SUFFICES ASSUME NEW h \in Links, at'[h] = "connected", at[h] # "connected"
                     PROVE  socket # None
            OBVIOUS
        <3>1. at'[h] = todo[h][2]
            BY <2>2
        <3> QED BY <3>1 DEF Ready
    <2>8. \A h \in Links : at'[h] = "handshake" => at[h] = "handshake"
        BY <2>2, <2>4
    <2>9. \A h \in Goroutines : todo'[h][2] = "connected" => todo[h][2] = "connected"
        BY <2>2 DEF NoUpdate
    <2>10. \A c \in OnConnect :
              /\ member'[c] # SKEY
              /\ owed'[c] # {} => owed[c] # {} \/ socket # None
              /\ reg'[c] \in {"handling", "sending"} =>
                    reg[c] \in {"handling", "sending"} \/ socket # None
              /\ reg'[c] # "not ready"
        BY <2>1, <2>5 DEF Ready
    <2> QED BY <1>1, <2>1, <2>6, <2>7, <2>8, <2>9, <2>10, ReadyStays
<1>4. ASSUME UNCHANGED <<topic, reg, side>>,
             \A g \in Links : at'[g] = "connected" => at[g] = "connected" \/ socket # None,
             \A g \in Links : side = "server" /\ at'[g] = "handshake" =>
                               at[g] = "handshake" \/ socket' # None,
             \A g \in Goroutines : todo'[g][2] = "connected" =>
                               todo[g][2] = "connected" \/ socket # None
      PROVE  Ready'
    <2>1. UNCHANGED <<latch, member, owed>>
        BY <1>4 DEF topic
    <2> QED BY <1>1, <1>4, <2>1, ReadyStays DEF Ready
<1>5. ASSUME NEW g \in Links, LinkAction(g), ~(SetState(g) \/ PublishState(g) \/ Return(g)),
             ~PublishConnected(g)
      PROVE  Ready'
    <2>1. UNCHANGED <<topic, reg, side>>
        BY <1>5 DEF LinkAction, LinkStep, Connect, AcceptConn, AcceptStream, ReadMessage,
                PeerLeaves, CloseConn, Dial, Handshake, Open, SetSocket, Loop, ReadError
    <2>2. CASE SetSocket(g)
        <3>1. socket' = g /\ socket' # None /\ UNCHANGED <<topic, todo>>
              /\ \A h \in Links : at'[h] # "handshake" \/ at[h] = "handshake"
            BY <1>2, <2>2 DEF SetSocket, Go
        <3>2. latch'[CTKEY] = latch[CTKEY]
            BY <3>1 DEF topic
        <3> QED BY <2>1, <3>1 DEF Ready, topic
    <2>3. CASE AcceptStream(g)
        <3>1. socket' # None
            BY <2>3 DEF AcceptStream
        <3> QED BY <2>1, <3>1 DEF Ready, topic
    <2>4. ASSUME NEW z, NEW n, n = "connected" => socket # None, Update(g, z, n)
          PROVE  Ready'
        <3>1. \A h \in Links : at'[h] = "connected" => at[h] = "connected"
            BY <1>2, <2>4 DEF Update, Go
        <3>2. \A h \in Links : at'[h] = "handshake" => at[h] = "handshake"
            BY <1>2, <2>4 DEF Update, Go
        <3>3. \A h \in Goroutines : todo'[h] = todo[h] \/ todo'[h] = <<z, n>>
            BY <1>2, <2>4 DEF Update
        <3>4. \A h \in Goroutines : todo'[h][2] = "connected" =>
                                 todo[h][2] = "connected" \/ socket # None
            BY <2>4, <3>3
        <3> QED BY <1>4, <2>1, <3>1, <3>2, <3>4
    <2>5. ASSUME NEW place, place # "connected", Go(g, place) \/ UNCHANGED at, UNCHANGED todo,
                 ~(side = "server" /\ place = "handshake")
          PROVE  Ready'
        <3>1. \A h \in Links : at'[h] = "connected" => at[h] = "connected"
            BY <1>2, <2>5 DEF Go
        <3>2. \A h \in Links : side = "server" /\ at'[h] = "handshake" => at[h] = "handshake"
            BY <1>2, <2>5 DEF Go
        <3> QED BY <1>4, <2>1, <2>5, <3>1, <3>2
    <2>6. CASE Connect(g)
        BY <2>4, <2>6 DEF Connect
    <2>7. CASE AcceptConn(g) \/ ReadMessage(g) \/ Loop(g)
        BY <2>5, <2>7 DEF AcceptConn, ReadMessage, Loop
    <2>8. CASE PeerLeaves(g) \/ CloseConn(g)
        BY <2>5, <2>8 DEF PeerLeaves, CloseConn
    <2>9. CASE Dial(g)
        <3>1. side # "server"
            BY <2>9 DEF Dial, Dials
        <3> QED BY <2>4, <2>5, <2>9, <3>1 DEF Dial
    <2>10. CASE Handshake(g)
        <3>1. CASE side = "server"
            <4>1. socket # None
                BY <2>10, <3>1 DEF Handshake, Ready
            <4> QED BY <2>4, <2>10, <4>1 DEF Handshake
        <3>2. CASE side # "server"
            <4>1. side = "client"
                BY <1>1, <3>2 DEF LinkTypes, ConnectionAssumption
            <4> QED BY <2>4, <2>10, <4>1 DEF Handshake
        <3> QED BY <3>1, <3>2
    <2>11. CASE Open(g)
        BY <2>4, <2>5, <2>11 DEF Open
    <2>12. CASE ReadError(g)
        BY <2>4, <2>12 DEF ReadError
    <2> QED BY <1>5, <2>2, <2>3, <2>6, <2>7, <2>8, <2>9, <2>10, <2>11, <2>12 DEF LinkAction, LinkStep
<1>6. ASSUME NEW g \in Links, PublishConnected(g) PROVE Ready'
    <2>1. socket # None /\ UNCHANGED <<socket, side, reg, todo>>
        BY <1>6 DEF PublishConnected, Ready
    <2>2. UNCHANGED member
        BY <1>6 DEF PublishConnected, Publish, Hub!Announce
    <2> QED BY <2>1, <2>2 DEF Ready
<1>7. CASE CloseStep
    <2>1. CASE Close
        <3>1. /\ \A h \in Links : at'[h] = at[h]
              /\ \A h \in Goroutines : todo'[h] = todo[h] \/ todo'[h] = <<"Closed", "closing">>
              /\ UNCHANGED <<topic, reg, side>>
            BY <1>2, <2>1 DEF Close, Update, Go
        <3>2. \A h \in Goroutines : todo'[h][2] = "connected" => todo[h][2] = "connected"
            BY <3>1
        <3> QED BY <1>4, <3>1, <3>2
    <2>2. CASE CloseSocket
        <3>1. (\A h \in Links : at'[h] = at[h]) /\ UNCHANGED <<topic, reg, side, todo>>
            BY <1>2, <2>2 DEF CloseSocket, Go
        <3> QED BY <1>4, <3>1
    <2> QED BY <1>3, <1>7, <2>1, <2>2 DEF CloseStep
<1>8. CASE Cancel \/ UNCHANGED vars
    <2>1. UNCHANGED <<topic, reg, side, at, todo>>
        BY <1>8 DEF Cancel, vars, app
    <2> QED BY <1>4, <2>1
<1>9. ASSUME NEW c \in Handlers, HandlerAction(c) PROVE Ready'
    <2>1. UNCHANGED <<side, at, todo, socket>>
        BY <1>9 DEF HandlerAction, Register, Subscribe, Receive, CallSendMessage, SendMessage,
                    HandlerReturns
    <2>2. CASE Register(c) \/ (c \in OnConnect /\ (CallSendMessage(c) \/ SendMessage(c) \/ HandlerReturns(c)))
        <3>1. UNCHANGED <<latch, member, owed>>
            BY <2>2 DEF Register, CallSendMessage, SendMessage, HandlerReturns, topic
        <3>2. \A d \in OnConnect :
                 /\ reg'[d] \in {"handling", "sending"} => reg[d] \in {"handling", "sending"}
                 /\ reg'[d] = "not ready" =>
                       reg[d] = "not ready" \/ (reg[d] = "sending" /\ socket = None)
            BY <1>2, <2>2 DEF Register, CallSendMessage, SendMessage, HandlerReturns
        <3> QED BY <2>1, <3>1, <3>2 DEF Ready
    <2>3. CASE Subscribe(c)
        <3>1. /\ Hub!Join(c, Key(c)) /\ reg' = [reg EXCEPT ![c] = "waiting"]
            BY <2>3 DEF Subscribe
        <3>2. \A d \in OnConnect : reg'[d] = reg[d] \/ reg'[d] = "waiting"
            BY <1>2, <3>1
        <3>3. latch'[CTKEY] # 0 => latch[CTKEY] # 0
            BY <1>2, <3>1 DEF Hub!Join
        <3>4. \A d \in OnConnect : member'[d] = member[d] \/ member'[d] = CTKEY
            BY <1>2, <3>1 DEF Hub!Join
        <3>5. \A d \in OnConnect : owed'[d] = owed[d] \/ owed'[d] = {latch[CTKEY]} \ {0}
            BY <1>2, <3>1 DEF Hub!Join
        <3>6. \A d \in OnConnect : owed'[d] # {} => owed[d] # {} \/ latch[CTKEY] # 0
            BY <3>5
        <3> QED BY <2>1, <3>2, <3>3, <3>4, <3>6 DEF Ready
    <2>4. CASE Receive(c)
        <3>1. owed[c] # {} /\ UNCHANGED <<latch, member>>
            BY <2>4 DEF Receive, Hub!See
        <3>2. \A d \in OnConnect : owed'[d] # {} => owed[d] # {}
            BY <1>2, <2>4 DEF Receive, Hub!See
        <3>3. \A d \in OnConnect : reg'[d] = reg[d] \/ (d = c /\ reg'[d] = "handling")
            BY <1>2, <2>4 DEF Receive
        <3>4. \A d \in OnConnect : /\ reg'[d] \in {"handling", "sending"} => socket # None
                                   /\ reg'[d] # "not ready"
            BY <3>1, <3>3 DEF Ready
        <3>5. \A d \in OnConnect : /\ member'[d] # SKEY
                                   /\ owed'[d] # {} => socket' # None
            BY <2>1, <3>1, <3>2 DEF Ready
        <3>6. /\ \A g \in Links : at'[g] = "connected" => socket' # None
              /\ \A g \in Links : side' = "server" /\ at'[g] = "handshake" => socket' # None
              /\ \A g \in Goroutines : todo'[g][2] = "connected" => socket' # None
              /\ latch'[CTKEY] # 0 => socket' # None
            BY <2>1, <3>1 DEF Ready
        <3> QED BY <2>1, <3>4, <3>5, <3>6 DEF Ready
    <2> QED BY <1>9, <2>2, <2>3, <2>4 DEF HandlerAction
<1>10. ASSUME NEW g \in Links, LinkAction(g) PROVE Ready'
    BY <1>3, <1>5, <1>6, <1>10
<1> QED BY <1>7, <1>8, <1>9, <1>10, Steps

ConnectionInv == Types /\ Dials /\ Ready

(* The types, and what is there when a handler runs, hold together in every
   step. *)
THEOREM ConnectionInvariance == Spec => []ConnectionInv
<1> USE Constants
<1>1. Init => ConnectionInv
    <2> SUFFICES ASSUME Init PROVE ConnectionInv
        OBVIOUS
    <2>1. TopicTypes
        BY DEF Init, Hub!Init, TopicTypes
    <2>2. LinkTypes
        BY DEF Init, LinkTypes, Places, After, NoUpdate
    <2>3. Said
        BY DEF Init, Said
    <2>4. Dials
        BY DEF Init, Dials, NoUpdate
    <2>5. Ready
        BY DEF Init, Hub!Init, Ready, NoUpdate
    <2> QED BY <2>1, <2>2, <2>3, <2>4, <2>5 DEF ConnectionInv, Types
<1>2. ConnectionInv /\ [Next]_vars => ConnectionInv'
    BY TopicTypesStep, LinkTypesStep, SaidStep, DialsStep, ReadyStep DEF ConnectionInv, Types
<1> QED BY <1>1, <1>2, PTL DEF Spec

(* A handler of OnConnect that calls SendMessage always finds a socket. *)
THEOREM ReadyWhenConnectedAlways == Spec => []ReadyWhenConnected
<1>1. ConnectionInv => ReadyWhenConnected
    BY DEF ConnectionInv, Ready, ReadyWhenConnected
<1> QED BY <1>1, ConnectionInvariance, PTL
=============================================================================
