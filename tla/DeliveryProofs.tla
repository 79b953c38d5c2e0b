--------------------------- MODULE DeliveryProofs ---------------------------
(* Theorems about the way of a message from SendMessage to its handler. *)
EXTENDS Delivery, TLAPS, SequenceTheorems

(* What CheetahProofs proves of every hub. *)
HubProofs == INSTANCE CheetahProofs WITH
                Keys <- {MKEY}, Chans <- Handlers, Publishers <- Sockets,
                MaxParcels <- MaxMessages

(* Every step of the delivery is a step of its message hub, or none. *)
THEOREM DeliveryUsesHub == Spec => Hub!Spec
<1>1. Init => Hub!Init
    BY DEF Init
<1>2. [Next]_vars => [Hub!Next]_(Hub!vars)
    <2> SUFFICES ASSUME [Next]_vars PROVE [Hub!Next]_(Hub!vars)
        OBVIOUS
    <2>1. ASSUME UNCHANGED hub PROVE UNCHANGED Hub!vars
        BY <2>1 DEF hub, Hub!vars, Hub!hub, Hub!history
    <2>2. ASSUME NEW s \in Sockets, SendMessage(s) \/ SendNote(s) \/ PeerRead(s) \/ LoseNote(s) \/ Drop(s)
          PROVE  UNCHANGED hub
        BY <2>2 DEF SendMessage, SendNote, PeerRead, LoseNote, Drop
    <2>3. ASSUME NEW s \in Sockets, Top(s) \/ ReadError(s) \/ ReadDatagram(s) \/ CloseConn(s) \/ Cancel
          PROVE  UNCHANGED hub
        BY <2>3 DEF Top, ReadError, ReadDatagram, CloseConn, Drop, Cancel
    <2>4. ASSUME NEW s \in Sockets, ReadMessage(s) PROVE Hub!Next
        BY <2>4 DEF ReadMessage, Hub!Next
    <2>5. ASSUME NEW s \in Sockets, Deliver(s) PROVE Hub!Next
        BY <2>5 DEF Deliver, Hub!Next
    <2>6. ASSUME NEW c \in Handlers, OnMessage(c) \/ Hand(c) \/ Handle(c) \/ WorkerEnds(c)
          PROVE  UNCHANGED hub
        BY <2>6 DEF OnMessage, Hand, Handle, WorkerEnds
    <2>7. ASSUME NEW c \in Handlers, Subscribe(c) \/ Take(c) \/ Leave(c) PROVE Hub!Next
        BY <2>7 DEF Subscribe, Take, Leave, Hub!Next
    <2>8. ASSUME Cancel PROVE UNCHANGED hub
        BY <2>8 DEF Cancel
    <2> QED BY <2>1, <2>2, <2>3, <2>4, <2>5, <2>6, <2>7, <2>8 DEF Next, vars
<1> QED BY <1>1, <1>2, PTL DEF Spec, Hub!Spec

(* The hub of Delivery and the one of HubProofs are the same. *)
LEMMA HubSame ==
    /\ \A c \in Handlers, k \in {MKEY} :
          /\ Hub!Subscribe(c, k) <=> HubProofs!Subscribe(c, k)
          /\ Hub!Receive(c) <=> HubProofs!Receive(c)
          /\ Hub!Unsubscribe(c) <=> HubProofs!Unsubscribe(c)
    /\ \A s \in Sockets, k \in {MKEY} :
          /\ Hub!Publish(s, k) <=> HubProofs!Publish(s, k)
          /\ Hub!Send(s) <=> HubProofs!Send(s)
          /\ Hub!Panic(s) <=> HubProofs!Panic(s)
    /\ \A k \in {MKEY} : Hub!Evict(k) <=> HubProofs!Evict(k)
    /\ HubProofs!CheetahAssumption
<1>1. ASSUME NEW c \in Handlers, NEW k \in {MKEY}
      PROVE  /\ Hub!Subscribe(c, k) <=> HubProofs!Subscribe(c, k)
             /\ Hub!Receive(c) <=> HubProofs!Receive(c)
             /\ Hub!Unsubscribe(c) <=> HubProofs!Unsubscribe(c)
    BY DEF Hub!Subscribe, HubProofs!Subscribe, Hub!Receive, HubProofs!Receive,
           Hub!Unsubscribe, HubProofs!Unsubscribe,
           Hub!Subscribed, HubProofs!Subscribed, Hub!history, HubProofs!history,
           Hub!NoParcel, HubProofs!NoParcel
<1>2. ASSUME NEW s \in Sockets, NEW k \in {MKEY}
      PROVE  /\ Hub!Publish(s, k) <=> HubProofs!Publish(s, k)
             /\ Hub!Send(s) <=> HubProofs!Send(s)
             /\ Hub!Panic(s) <=> HubProofs!Panic(s)
    BY DEF Hub!Publish, HubProofs!Publish, Hub!Send, HubProofs!Send, Hub!Panic, HubProofs!Panic,
           Hub!Advance, HubProofs!Advance, Hub!history, HubProofs!history,
           Hub!NoParcel, HubProofs!NoParcel
<1>3. ASSUME NEW k \in {MKEY} PROVE Hub!Evict(k) <=> HubProofs!Evict(k)
    BY DEF Hub!Evict, HubProofs!Evict, Hub!history, HubProofs!history, Hub!NoParcel, HubProofs!NoParcel
<1>4. HubProofs!CheetahAssumption
    BY DeliveryAssumption DEF HubProofs!CheetahAssumption
<1> QED BY <1>1, <1>2, <1>3, <1>4

(* So what holds of every hub holds of this one. *)
THEOREM HubInvariance == Spec => []HubProofs!IInv
<1>1. Hub!Init => HubProofs!Init
    BY DEF Hub!Init, HubProofs!Init, Hub!NoParcel, HubProofs!NoParcel, Hub!Parcels, HubProofs!Parcels
<1>2. [Hub!Next]_(Hub!vars) => [HubProofs!Next]_(HubProofs!vars)
    <2>1. Hub!Next => HubProofs!Next
        BY HubSame DEF Hub!Next, HubProofs!Next
    <2>2. UNCHANGED Hub!vars => UNCHANGED HubProofs!vars
        BY DEF Hub!vars, HubProofs!vars, Hub!hub, HubProofs!hub, Hub!history, HubProofs!history
    <2> QED BY <2>1, <2>2
<1>3. Hub!Spec => HubProofs!Spec
    BY <1>1, <1>2, PTL DEF Hub!Spec, HubProofs!Spec
<1>4. HubProofs!CheetahAssumption
    BY HubSame
<1> QED BY <1>3, <1>4, DeliveryUsesHub, HubProofs!Invariance, PTL

----------------------------------------------------------------------------

(* The types of everything but the hub. *)
OwnTypes ==
    /\ written \in [Sockets -> 0..MaxSent]
    /\ owing \in [Sockets -> BOOLEAN]
    /\ notes \in [Sockets -> Nat]
    /\ lost \in [Sockets -> 0..MaxLost]
    /\ replies \in [Sockets -> Nat]
    /\ loop \in [Sockets -> {"top", "reading", "datagram", "ended"}]
    /\ consumed \in [Sockets -> 0..MaxSent]
    /\ dlatch \in {"none", "note", "error"}
    /\ open \in [Sockets -> BOOLEAN]
    /\ cancelled \in BOOLEAN
    /\ before \in [Sockets -> 0..MaxSent]

(* A connection that is up, and not about to be closed, has lost or delivered
   or still carries a datagram for every message: the loop has taken one for
   each message it read, except the one it is waiting for now. *)
Balance ==
    \A s \in Sockets : open[s] /\ ~cancelled =>
        written[s] + (IF loop[s] = "datagram" THEN 1 ELSE 0)
          <= consumed[s] + notes[s] + lost[s] + (IF owing[s] THEN 1 ELSE 0)

(* Once the context is done only a loop that was already reading reads. *)
LastRead ==
    \A s \in Sockets : cancelled =>
        /\ consumed[s] <= before[s] + 1
        /\ loop[s] = "reading" => consumed[s] = before[s]

LoopInv == OwnTypes /\ Balance /\ LastRead

USE DeliveryAssumption

(* Each step keeps the invariant of the read loop. *)
LEMMA LoopStep == LoopInv /\ [Next]_vars => LoopInv'
<1> SUFFICES ASSUME LoopInv, [Next]_vars PROVE LoopInv'
    OBVIOUS
<1> USE DEF LoopInv, OwnTypes, Balance, LastRead
<1>1. ASSUME NEW s \in Sockets, SendMessage(s) PROVE LoopInv'
    BY <1>1 DEF SendMessage, server
<1>2. ASSUME NEW s \in Sockets, SendNote(s) PROVE LoopInv'
    BY <1>2 DEF SendNote, server
<1>3. ASSUME NEW s \in Sockets, PeerRead(s) PROVE LoopInv'
    BY <1>3 DEF PeerRead, server
<1>4. ASSUME NEW s \in Sockets, LoseNote(s) PROVE LoopInv'
    BY <1>4 DEF LoseNote, server
<1>5. ASSUME NEW s \in Sockets, Drop(s) PROVE LoopInv'
    BY <1>5 DEF Drop, peer
<1>6. ASSUME NEW s \in Sockets, Top(s) PROVE LoopInv'
    BY <1>6 DEF Top, peer
<1>7. ASSUME NEW s \in Sockets, ReadMessage(s) PROVE LoopInv'
    BY <1>7 DEF ReadMessage, peer
<1>8. ASSUME NEW s \in Sockets, Deliver(s) PROVE LoopInv'
    BY <1>8 DEF Deliver, peer, server
<1>9. ASSUME NEW s \in Sockets, ReadError(s) PROVE LoopInv'
    BY <1>9 DEF ReadError, peer
<1>10. ASSUME NEW s \in Sockets, ReadDatagram(s) PROVE LoopInv'
    BY <1>10 DEF ReadDatagram
<1>11. ASSUME Cancel PROVE LoopInv'
    BY <1>11 DEF Cancel, peer
<1>12. ASSUME NEW c \in Handlers,
              OnMessage(c) \/ Subscribe(c) \/ Take(c) \/ Hand(c) \/ Leave(c) \/ WorkerEnds(c)
       PROVE  LoopInv'
    BY <1>12 DEF OnMessage, Subscribe, Take, Hand, Leave, WorkerEnds, peer, server
<1>13. ASSUME NEW c \in Handlers, Handle(c) PROVE LoopInv'
    <2> DEFINE a == author[Head(out[c])]
    <2>1. replies' = replies \/ replies' = [replies EXCEPT ![a] = @ + 1]
        BY <1>13 DEF Handle
    <2>2. replies' \in [Sockets -> Nat]
        <3>1. CASE a \in Sockets
            <4>1. replies[a] \in Nat
                BY <3>1
            <4> HIDE DEF a
            <4> QED BY <2>1, <3>1, <4>1
        <3>2. CASE a \notin Sockets
            <4> HIDE DEF a
            <4> QED BY <2>1, <3>2
        <3> QED BY <3>1, <3>2
    <2>3. UNCHANGED <<written, owing, notes, lost, loop, consumed, dlatch, open, cancelled, before>>
        BY <1>13 DEF Handle, server
    <2> QED BY <2>2, <2>3
<1>14. CASE UNCHANGED vars
    BY <1>14 DEF vars, peer, server
<1> QED BY <1>1, <1>2, <1>3, <1>4, <1>5, <1>6, <1>7, <1>8, <1>9, <1>10, <1>11, <1>12, <1>13, <1>14
        DEF Next, CloseConn

(* The invariant of the read loop holds always: datagrams balance messages,
   and a loop that was cancelled reads one message more at most. *)
THEOREM LoopInvariance == Spec => []LoopInv
<1>1. Init => LoopInv
    <2> SUFFICES ASSUME Init PROVE LoopInv
        OBVIOUS
    <2>1. OwnTypes
        <3>1. /\ written = [s \in Sockets |-> 0] /\ consumed = [s \in Sockets |-> 0]
              /\ before = [s \in Sockets |-> 0] /\ lost = [s \in Sockets |-> 0]
            BY DEF Init
        <3>2. /\ notes = [s \in Sockets |-> 0] /\ replies = [s \in Sockets |-> 0]
              /\ owing = [s \in Sockets |-> FALSE] /\ open = [s \in Sockets |-> TRUE]
              /\ loop = [s \in Sockets |-> "top"] /\ cancelled = FALSE /\ dlatch = "none"
            BY DEF Init
        <3>3. 0 \in 0..MaxSent /\ 0 \in 0..MaxLost
            OBVIOUS
        <3> QED BY <3>1, <3>2, <3>3 DEF OwnTypes
    <2>2. Balance
        BY DEF Init, Balance
    <2>3. LastRead
        BY DEF Init, LastRead
    <2> QED BY <2>1, <2>2, <2>3 DEF LoopInv
<1> QED BY <1>1, LoopStep, PTL DEF Spec

(* A message is left unread behind a missing datagram only when two were
   lost. *)
THEOREM StrandedByTwoLossesAlways == Spec => []StrandedByTwoLosses
<1>1. LoopInv => StrandedByTwoLosses
    BY DEF LoopInv, OwnTypes, Balance, StrandedByTwoLosses, Starved
<1> QED BY <1>1, LoopInvariance, PTL

(* Shutdown lets a read loop finish one message at most. *)
THEOREM ShutdownStopsReadingAlways == Spec => []ShutdownStopsReading
<1>1. LoopInv => ShutdownStopsReading
    BY DEF LoopInv, LastRead, ShutdownStopsReading
<1> QED BY <1>1, LoopInvariance, PTL

----------------------------------------------------------------------------

(* Elements and the sequence operators the pipeline is built with. *)
LEMMA ElementsAppend ==
    ASSUME NEW S, NEW q \in Seq(S), NEW x \in S
    PROVE  Append(q, x) \in Seq(S) /\ Elements(Append(q, x)) = Elements(q) \cup {x}
<1>1. /\ DOMAIN Append(q, x) = 1..(Len(q) + 1)
      /\ DOMAIN q = 1..Len(q) /\ Len(q) \in Nat
      /\ \A i \in 1..Len(q) : Append(q, x)[i] = q[i]
      /\ Append(q, x)[Len(q) + 1] = x
    OBVIOUS
<1> QED BY <1>1 DEF Elements

(* What is taken from the head of a sequence is what its tail lacks. *)
LEMMA ElementsTail ==
    ASSUME NEW S, NEW q \in Seq(S), q # <<>>
    PROVE  /\ Tail(q) \in Seq(S) /\ Head(q) \in S
           /\ Elements(q) = Elements(Tail(q)) \cup {Head(q)}
<1>1. /\ Len(q) \in Nat \ {0} /\ DOMAIN q = 1..Len(q)
      /\ DOMAIN Tail(q) = 1..(Len(q) - 1)
      /\ \A i \in 1..(Len(q) - 1) : Tail(q)[i] = q[i + 1]
      /\ Head(q) = q[1]
    OBVIOUS
<1>2. ASSUME NEW i \in 1..Len(q) PROVE q[i] \in Elements(Tail(q)) \cup {Head(q)}
    <2>1. CASE i = 1
        BY <1>1, <2>1
    <2>2. CASE i # 1
        <3>1. i - 1 \in 1..(Len(q) - 1) /\ Tail(q)[i - 1] = q[i]
            BY <1>1, <2>2
        <3> QED BY <1>1, <3>1 DEF Elements
    <2> QED BY <2>1, <2>2
<1>3. ASSUME NEW i \in 1..(Len(q) - 1) PROVE Tail(q)[i] \in Elements(q)
    <2>1. i + 1 \in 1..Len(q) /\ Tail(q)[i] = q[i + 1]
        BY <1>1
    <2> QED BY <1>1, <2>1 DEF Elements
<1>4. Head(q) \in Elements(q)
    BY <1>1 DEF Elements
<1>5. Tail(q) \in Seq(S) /\ Head(q) \in S
    BY <1>1
<1> QED BY <1>1, <1>2, <1>3, <1>4, <1>5 DEF Elements

(* What two sequences hold together. *)
LEMMA ElementsConcat ==
    ASSUME NEW S, NEW p \in Seq(S), NEW q \in Seq(S)
    PROVE  p \o q \in Seq(S) /\ Elements(p \o q) = Elements(p) \cup Elements(q)
<1>1. /\ Len(p) \in Nat /\ Len(q) \in Nat
      /\ DOMAIN p = 1..Len(p) /\ DOMAIN q = 1..Len(q)
      /\ DOMAIN (p \o q) = 1..(Len(p) + Len(q))
      /\ \A i \in 1..Len(p) : (p \o q)[i] = p[i]
      /\ \A i \in (Len(p) + 1)..(Len(p) + Len(q)) : (p \o q)[i] = q[i - Len(p)]
    OBVIOUS
<1>2. ASSUME NEW i \in DOMAIN q PROVE q[i] \in Elements(p \o q)
    <2>1. Len(p) + i \in (Len(p) + 1)..(Len(p) + Len(q))
        BY <1>1
    <2>2. (p \o q)[Len(p) + i] = q[i]
        BY <1>1, <2>1
    <2> QED BY <1>1, <2>1, <2>2 DEF Elements
<1>3. ASSUME NEW i \in DOMAIN p PROVE p[i] \in Elements(p \o q)
    <2>1. i \in DOMAIN (p \o q) /\ (p \o q)[i] = p[i]
        BY <1>1
    <2> QED BY <2>1 DEF Elements
<1>4. ASSUME NEW i \in DOMAIN (p \o q) PROVE (p \o q)[i] \in Elements(p) \cup Elements(q)
    <2>1. CASE i <= Len(p)
        BY <1>1, <2>1 DEF Elements
    <2>2. CASE i > Len(p)
        <3>1. i - Len(p) \in DOMAIN q /\ (p \o q)[i] = q[i - Len(p)]
            BY <1>1, <2>2
        <3> QED BY <3>1 DEF Elements
    <2> QED BY <1>1, <2>1, <2>2
<1>5. p \o q \in Seq(S)
    OBVIOUS
<1> QED BY <1>2, <1>3, <1>4, <1>5 DEF Elements

(* The forwarder's goroutine is in its loop exactly while it is subscribed, and
   what it took from the hub's channel is in its hand, in out or handled. *)
PipeTypes ==
    /\ fwd \in [Handlers -> {"none", "starting", "waiting", "holding", "gone"}]
    /\ hold \in [Handlers -> Parcels \cup {NoParcel}]
    /\ out \in [Handlers -> Seq(Parcels)]
    /\ handled \in [Handlers -> Seq(Parcels)]

Carried ==
    \A c \in Handlers :
        /\ fwd[c] \in {"none", "starting"} => home[c] = None
        /\ fwd[c] \in {"waiting", "holding"} => home[c] = MKEY /\ c \in subscribers[MKEY]
        /\ fwd[c] # "holding" /\ fwd[c] # "gone" => hold[c] = NoParcel
        /\ fwd[c] = "holding" => hold[c] # NoParcel
        /\ got[c] \subseteq Elements(handled[c]) \cup Elements(out[c]) \cup {hold[c]}

Topics == \A n \in 1..published : topic[n] = MKEY

PipeInv == PipeTypes /\ Carried /\ Topics

USE DEF NoParcel, Parcels

(* Nothing is in the pipeline at first. *)
LEMMA PipeInit == Init => PipeInv
<1> SUFFICES ASSUME Init PROVE PipeInv
    OBVIOUS
<1>1. /\ fwd = [c \in Handlers |-> "none"] /\ hold = [c \in Handlers |-> NoParcel]
      /\ out = [c \in Handlers |-> <<>>] /\ handled = [c \in Handlers |-> <<>>]
    BY DEF Init
<1>2. home = [c \in Handlers |-> None] /\ got = [c \in Handlers |-> {}] /\ published = 0
    BY DEF Init, Hub!Init
<1>3. <<>> \in Seq(Parcels)
    OBVIOUS
<1> QED BY <1>1, <1>2, <1>3 DEF PipeInv, PipeTypes, Carried, Topics

(* Each step keeps what is known of the pipeline. *)
LEMMA PipeStep == HubProofs!IInv /\ PipeInv /\ [Next]_vars => PipeInv'
<1> SUFFICES ASSUME HubProofs!IInv, PipeInv, [Next]_vars PROVE PipeInv'
    OBVIOUS
<1>0. HubProofs!TypeOK /\ HubProofs!Fresh /\ HubProofs!Senders
    BY DEF HubProofs!IInv, HubProofs!Shape
<1> USE DEF PipeInv, PipeTypes, Carried, Topics
<1>1. ASSUME UNCHANGED hub, UNCHANGED pipe PROVE PipeInv'
    BY <1>1 DEF hub, pipe
<1>2. ASSUME NEW s \in Sockets,
             \/ SendMessage(s) \/ SendNote(s) \/ PeerRead(s) \/ LoseNote(s) \/ Drop(s)
             \/ Top(s) \/ ReadError(s) \/ ReadDatagram(s) \/ CloseConn(s)
      PROVE  PipeInv'
    BY <1>1, <1>2 DEF SendMessage, SendNote, PeerRead, LoseNote, Drop, Top, ReadError,
                      ReadDatagram, CloseConn
<1>3. ASSUME NEW s \in Sockets, ReadMessage(s) PROVE PipeInv'
    <2>1. HubProofs!Publish(s, MKEY)
        BY <1>3, HubSame DEF ReadMessage
    <2>2. /\ published \in Nat /\ published' = published + 1
          /\ topic'[published + 1] = MKEY
          /\ \A n \in 1..published : topic'[n] = topic[n]
          /\ UNCHANGED <<subscribers, home, got>>
        BY <1>0, <2>1, HubSame, HubProofs!PublishEffect
    <2>3. UNCHANGED pipe
        BY <1>3 DEF ReadMessage
    <2>4. \A n \in 1..published' : n = published + 1 \/ n \in 1..published
        BY <2>2
    <2> QED BY <2>2, <2>3, <2>4 DEF pipe
<1>4. ASSUME NEW s \in Sockets, Deliver(s) PROVE PipeInv'
    <2>1. UNCHANGED <<subscribers, published, topic, home, got>>
        BY <1>4 DEF Deliver, Hub!Send, Hub!Panic, Hub!history
    <2>2. UNCHANGED pipe
        BY <1>4 DEF Deliver
    <2> QED BY <2>1, <2>2 DEF pipe
<1>5. CASE Cancel
    BY <1>1, <1>5 DEF Cancel
<1>6. ASSUME NEW c \in Handlers, OnMessage(c) PROVE PipeInv'
    BY <1>6 DEF OnMessage, hub
<1>7. ASSUME NEW c \in Handlers, Subscribe(c) PROVE PipeInv'
    <2>1. /\ fwd[c] = "starting" /\ fwd' = [fwd EXCEPT ![c] = "waiting"]
          /\ UNCHANGED <<hold, out, handled>>
        BY <1>7 DEF Subscribe
    <2>2. /\ home' = [home EXCEPT ![c] = MKEY]
          /\ subscribers' = [subscribers EXCEPT ![MKEY] = @ \cup {c}]
          /\ UNCHANGED <<published, topic, got>>
        BY <1>7 DEF Subscribe, Hub!Subscribe
    <2>3. home'[c] = MKEY /\ \A d \in Handlers \ {c} : home'[d] = home[d]
        BY <1>0, <2>2 DEF HubProofs!TypeOK
    <2>4. subscribers'[MKEY] = subscribers[MKEY] \cup {c}
        BY <1>0, <2>2 DEF HubProofs!TypeOK
    <2> QED BY <2>1, <2>2, <2>3, <2>4
<1>8. ASSUME NEW c \in Handlers, Take(c) PROVE PipeInv'
    <2>1. /\ fwd[c] = "waiting" /\ fwd' = [fwd EXCEPT ![c] = "holding"]
          /\ hold' = [hold EXCEPT ![c] = slot[c]]
          /\ UNCHANGED <<out, handled>>
        BY <1>8 DEF Take
    <2>2. /\ slot[c] # NoParcel
          /\ got' = [got EXCEPT ![c] = @ \cup {slot[c]}]
          /\ UNCHANGED <<subscribers, published, topic, home>>
        BY <1>8 DEF Take, Hub!Receive, Hub!NoParcel
    <2>3. slot[c] \in Parcels
        BY <1>0, <2>2 DEF HubProofs!TypeOK, HubProofs!Parcels, HubProofs!NoParcel
    <2>4. /\ got'[c] = got[c] \cup {slot[c]}
          /\ \A d \in Handlers \ {c} : got'[d] = got[d]
        BY <1>0, <2>2 DEF HubProofs!TypeOK
    <2>5. NoParcel \notin got[c]
        BY <1>0 DEF HubProofs!TypeOK, HubProofs!Parcels
    <2>6. got[c] \subseteq Elements(handled[c]) \cup Elements(out[c])
        BY <2>1, <2>5
    <2> QED BY <2>1, <2>2, <2>3, <2>4, <2>6
<1>9. ASSUME NEW c \in Handlers, Hand(c) PROVE PipeInv'
    <2>1. /\ fwd[c] = "holding" /\ fwd' = [fwd EXCEPT ![c] = "waiting"]
          /\ hold' = [hold EXCEPT ![c] = NoParcel]
          /\ out' = [out EXCEPT ![c] = Append(@, hold[c])]
          /\ UNCHANGED <<handled, hub>>
        BY <1>9 DEF Hand
    <2>2. hold[c] \in Parcels /\ out[c] \in Seq(Parcels)
        BY <2>1
    <2> HIDE DEF Parcels
    <2>3. /\ Append(out[c], hold[c]) \in Seq(Parcels)
          /\ Elements(Append(out[c], hold[c])) = Elements(out[c]) \cup {hold[c]}
        BY <2>2, ElementsAppend
    <2> QED BY <2>1, <2>2, <2>3 DEF hub
<1>10. ASSUME NEW c \in Handlers, Leave(c) PROVE PipeInv'
    <2>1. /\ fwd' = [fwd EXCEPT ![c] = "gone"]
          /\ UNCHANGED <<hold, out, handled>>
        BY <1>10 DEF Leave
    <2>2. /\ subscribers' = [subscribers EXCEPT ![home[c]] = @ \ {c}]
          /\ UNCHANGED <<published, topic, home, got>>
        BY <1>10 DEF Leave, Hub!Unsubscribe, Hub!history
    <2>3. \A d \in Handlers \ {c} : d \in subscribers[MKEY] => d \in subscribers'[MKEY]
        BY <1>0, <2>2 DEF HubProofs!TypeOK
    <2> QED BY <2>1, <2>2, <2>3
<1>11. ASSUME NEW c \in Handlers, Handle(c) PROVE PipeInv'
    <2>1. /\ out[c] # <<>>
          /\ out' = [out EXCEPT ![c] = Tail(@)]
          /\ handled' = [handled EXCEPT ![c] = Append(@, Head(out[c]))]
          /\ UNCHANGED <<fwd, hold, hub>>
        BY <1>11 DEF Handle
    <2>2. /\ Tail(out[c]) \in Seq(Parcels) /\ Head(out[c]) \in Parcels
          /\ Elements(out[c]) = Elements(Tail(out[c])) \cup {Head(out[c])}
        BY <2>1, ElementsTail
    <2>3. /\ Append(handled[c], Head(out[c])) \in Seq(Parcels)
          /\ Elements(Append(handled[c], Head(out[c]))) = Elements(handled[c]) \cup {Head(out[c])}
        BY <2>2, ElementsAppend
    <2> HIDE DEF Parcels
    <2> QED BY <2>1, <2>2, <2>3 DEF hub
<1>12. ASSUME NEW c \in Handlers, WorkerEnds(c) PROVE PipeInv'
    BY <1>12 DEF WorkerEnds, hub
<1>13. CASE UNCHANGED vars
    BY <1>1, <1>13 DEF vars
<1> QED BY <1>2, <1>3, <1>4, <1>5, <1>6, <1>7, <1>8, <1>9, <1>10, <1>11, <1>12, <1>13 DEF Next

(* What the forwarder took from its channel is in its hand, in its buffer or
   handled, always. *)
THEOREM PipeInvariance == Spec => []PipeInv
<1> QED BY PipeInit, PipeStep, HubInvariance, PTL DEF Spec

(* What a pipeline is made of. *)
LEMMA PipelineTyped ==
    ASSUME PipeTypes, HubProofs!TypeOK, NEW c \in Handlers
    PROVE  /\ One(hold[c]) \in Seq(Parcels) /\ One(slot[c]) \in Seq(Parcels)
           /\ Pipeline(c) \in Seq(Parcels)
           /\ Elements(Pipeline(c)) = Elements(handled[c]) \cup Elements(out[c])
                                        \cup Elements(One(hold[c])) \cup Elements(One(slot[c]))
<1> DEFINE p == handled[c] \o out[c]
           q == p \o One(hold[c])
<1>1. slot[c] \in Parcels \cup {NoParcel} /\ hold[c] \in Parcels \cup {NoParcel}
    BY DEF PipeTypes, HubProofs!TypeOK, HubProofs!Parcels, HubProofs!NoParcel
<1>2. handled[c] \in Seq(Parcels) /\ out[c] \in Seq(Parcels)
    BY DEF PipeTypes
<1> HIDE DEF Parcels
<1>3. \A m \in Parcels \cup {NoParcel} : One(m) \in Seq(Parcels)
    BY DEF One
<1>4. p \in Seq(Parcels) /\ Elements(p) = Elements(handled[c]) \cup Elements(out[c])
    BY <1>2, ElementsConcat
<1>5. q \in Seq(Parcels) /\ Elements(q) = Elements(p) \cup Elements(One(hold[c]))
    <2> HIDE DEF p
    <2> QED BY <1>1, <1>3, <1>4, ElementsConcat
<1>6. /\ q \o One(slot[c]) \in Seq(Parcels)
      /\ Elements(q \o One(slot[c])) = Elements(q) \cup Elements(One(slot[c]))
    <2> HIDE DEF q
    <2> QED BY <1>1, <1>3, <1>5, ElementsConcat
<1>7. Pipeline(c) = q \o One(slot[c])
    BY DEF Pipeline
<1> HIDE DEF p, q
<1> QED BY <1>1, <1>3, <1>4, <1>5, <1>6, <1>7

(* Whatever is published while a handler is subscribed is in its pipeline or
   on its way there. *)
THEOREM CompleteAlways == Spec => []Complete
<1>1. ASSUME HubProofs!IInv, PipeInv PROVE Complete
    <2> SUFFICES ASSUME NEW c \in Handlers, fwd[c] \in {"waiting", "holding"}, ~Crashed,
                        NEW n \in 1..published, n > born[c]
                 PROVE  n \in Elements(Pipeline(c)) \cup Hub!Owed(c)
        BY DEF Complete
    <2>1. HubProofs!TypeOK /\ HubProofs!NothingLost
        BY <1>1 DEF HubProofs!IInv, HubProofs!Shape
    <2>2. HubProofs!Subscribed(c) /\ home[c] = MKEY /\ topic[n] = MKEY
        BY <1>1, DeliveryAssumption DEF PipeInv, Carried, Topics, HubProofs!Subscribed
    <2>3. n \in HubProofs!Held(c) \cup HubProofs!Owed(c) \/ HubProofs!Abandoned(n)
        BY <2>1, <2>2 DEF HubProofs!NothingLost
    <2>4. ~HubProofs!Abandoned(n)
        BY DEF HubProofs!Abandoned, Crashed
    <2>5. CASE n \in HubProofs!Owed(c)
        BY <2>5 DEF HubProofs!Owed, Hub!Owed
    <2>6. CASE n \in HubProofs!Held(c)
        <3>1. n \in got[c] \/ n = slot[c]
            BY <2>6 DEF HubProofs!Held
        <3>2. n # NoParcel /\ n \in Nat
            OBVIOUS
        <3>3. slot[c] \in Parcels \cup {NoParcel} /\ hold[c] \in Parcels \cup {NoParcel}
            BY <1>1, <2>1 DEF PipeInv, PipeTypes, HubProofs!TypeOK, HubProofs!Parcels, HubProofs!NoParcel
        <3>6. Elements(Pipeline(c)) = Elements(handled[c]) \cup Elements(out[c])
                                        \cup Elements(One(hold[c])) \cup Elements(One(slot[c]))
            BY <1>1, <2>1, PipelineTyped DEF PipeInv
        <3>7. \A m : m # NoParcel => m \in Elements(One(m))
            BY DEF One, Elements
        <3>8. got[c] \subseteq Elements(handled[c]) \cup Elements(out[c]) \cup {hold[c]}
            BY <1>1 DEF PipeInv, Carried
        <3>9. CASE n = hold[c]
            BY <3>2, <3>6, <3>7, <3>9
        <3>10. CASE n = slot[c]
            BY <3>2, <3>6, <3>7, <3>10
        <3> QED BY <3>1, <3>6, <3>8, <3>9, <3>10
    <2> QED BY <2>3, <2>4, <2>5, <2>6
<1> QED BY <1>1, HubInvariance, PipeInvariance, PTL

----------------------------------------------------------------------------

(* The types the invariants above do not need. *)
RestTypes ==
    /\ \A c \in Handlers : Len(out[c]) <= Cap
    /\ worker \in [Handlers -> BOOLEAN]
    /\ asked \in [Handlers -> 0..MaxMessages]

(* Each step keeps the types of what the invariants above do not speak of. *)
LEMMA RestStep == HubProofs!IInv /\ PipeInv /\ RestTypes /\ [Next]_vars => RestTypes'
<1> SUFFICES ASSUME HubProofs!IInv, PipeInv, RestTypes, [Next]_vars PROVE RestTypes'
    OBVIOUS
<1> USE DEF RestTypes
<1>1. ASSUME UNCHANGED <<out, worker, asked>> PROVE RestTypes'
    BY <1>1
<1>2. ASSUME NEW s \in Sockets,
             \/ SendMessage(s) \/ SendNote(s) \/ PeerRead(s) \/ LoseNote(s) \/ Drop(s)
             \/ Top(s) \/ ReadMessage(s) \/ Deliver(s) \/ ReadError(s) \/ ReadDatagram(s)
             \/ CloseConn(s)
      PROVE  RestTypes'
    BY <1>1, <1>2 DEF SendMessage, SendNote, PeerRead, LoseNote, Drop, Top, ReadMessage, Deliver,
                      ReadError, ReadDatagram, CloseConn, pipe
<1>3. CASE Cancel
    BY <1>1, <1>3 DEF Cancel, pipe
<1>4. ASSUME NEW c \in Handlers, OnMessage(c) PROVE RestTypes'
    <2>1. published \in 0..MaxMessages
        BY DEF HubProofs!IInv, HubProofs!Shape, HubProofs!TypeOK
    <2> QED BY <1>4, <2>1 DEF OnMessage
<1>5. ASSUME NEW c \in Handlers, Subscribe(c) \/ Take(c) \/ Leave(c) PROVE RestTypes'
    BY <1>1, <1>5 DEF Subscribe, Take, Leave
<1>6. ASSUME NEW c \in Handlers, Hand(c) PROVE RestTypes'
    <2>1. out[c] \in Seq(Parcels) /\ out \in [Handlers -> Seq(Parcels)]
        BY DEF PipeInv, PipeTypes
    <2>2. Len(Append(out[c], hold[c])) = Len(out[c]) + 1 /\ Len(out[c]) \in Nat
        BY <2>1
    <2> QED BY <1>6, <2>1, <2>2 DEF Hand
<1>7. ASSUME NEW c \in Handlers, Handle(c) PROVE RestTypes'
    <2>1. out[c] \in Seq(Parcels) /\ out \in [Handlers -> Seq(Parcels)] /\ out[c] # <<>>
        BY <1>7 DEF PipeInv, PipeTypes, Handle
    <2>2. Len(Tail(out[c])) = Len(out[c]) - 1 /\ Len(out[c]) \in Nat
        BY <2>1
    <2> QED BY <1>7, <2>1, <2>2 DEF Handle
<1>8. ASSUME NEW c \in Handlers, WorkerEnds(c) PROVE RestTypes'
    BY <1>8 DEF WorkerEnds
<1>9. CASE UNCHANGED vars
    BY <1>1, <1>9 DEF vars, pipe
<1> QED BY <1>2, <1>3, <1>4, <1>5, <1>6, <1>7, <1>8, <1>9 DEF Next

(* Every variable keeps its type; no more messages wait for a handler than
   there is room for. *)
THEOREM DeliveryTypeCorrect == Spec => []TypeOK
<1>1. Init => RestTypes
    BY DEF Init, RestTypes
<1>2. Spec => []RestTypes
    BY <1>1, RestStep, HubInvariance, PipeInvariance, PTL DEF Spec
<1>3. HubProofs!IInv /\ LoopInv /\ PipeInv /\ RestTypes => TypeOK
    <2>1. HubProofs!IInv => Hub!TypeOK
        BY DEF HubProofs!IInv, HubProofs!Shape, HubProofs!TypeOK, Hub!TypeOK,
               HubProofs!Parcels, Hub!Parcels, HubProofs!NoParcel, Hub!NoParcel
    <2> QED BY <2>1 DEF LoopInv, OwnTypes, PipeInv, PipeTypes, RestTypes, TypeOK
<1> QED BY <1>2, <1>3, HubInvariance, LoopInvariance, PipeInvariance, PTL

----------------------------------------------------------------------------

(* Handing a message on along the pipeline leaves it the same sequence, and a
   message that comes in is its last. *)
LEMMA PipeMoves ==
    ASSUME NEW S, NEW h \in Seq(S), NEW o \in Seq(S)
    PROVE  /\ \A x \in S : (h \o o \o <<>>) \o <<x>> = (h \o o \o <<x>>) \o <<>>
           /\ \A x \in S : h \o o \o <<x>> = h \o Append(o, x) \o <<>>
           /\ o # <<>> => Append(h, Head(o)) \o Tail(o) = h \o o
<1>1. <<>> \in Seq(S) /\ h \o o \in Seq(S) /\ \A x \in S : <<x>> \in Seq(S)
    BY ConcatProperties
<1>2. ASSUME NEW x \in S PROVE (h \o o \o <<>>) \o <<x>> = (h \o o \o <<x>>) \o <<>>
    <2>1. h \o o \o <<>> = h \o o
        BY <1>1, ConcatEmptySeq
    <2>2. h \o o \o <<x>> \in Seq(S)
        BY <1>1, ConcatProperties
    <2>3. (h \o o \o <<x>>) \o <<>> = h \o o \o <<x>>
        BY <2>2, ConcatEmptySeq
    <2> QED BY <2>1, <2>3
<1>3. ASSUME NEW x \in S PROVE h \o o \o <<x>> = h \o Append(o, x) \o <<>>
    <2>1. Append(o, x) = o \o <<x>> /\ Append(o, x) \in Seq(S)
        BY AppendIsConcat, AppendProperties
    <2>2. h \o o \o <<x>> = h \o Append(o, x)
        BY <1>1, <2>1, ConcatAssociative
    <2>3. h \o Append(o, x) \in Seq(S)
        BY <2>1, ConcatProperties
    <2> QED BY <2>2, <2>3, ConcatEmptySeq
<1>4. ASSUME o # <<>> PROVE Append(h, Head(o)) \o Tail(o) = h \o o
    <2>1. Head(o) \in S /\ Tail(o) \in Seq(S)
        BY <1>4, HeadTailProperties
    <2>2. Append(h, Head(o)) = h \o <<Head(o)>> /\ <<Head(o)>> \in Seq(S)
        BY <2>1, AppendIsConcat
    <2>3. Append(h, Head(o)) \o Tail(o) = h \o (<<Head(o)>> \o Tail(o))
        BY <2>1, <2>2, ConcatAssociative
    <2>4. <<Head(o)>> \o Tail(o) = o
        <3>1. SubSeq(o, 1, Len(o)) = o /\ Len(o) \in Nat \ {0}
            BY <1>4, SubSeqFull, EmptySeq
        <3>2. SubSeq(o, 1, Len(o)) = <<o[1]>> \o SubSeq(o, 2, Len(o))
            BY <3>1, SubSeqRecursiveFirst
        <3>3. Tail(o) = SubSeq(o, 2, Len(o)) /\ Head(o) = o[1]
            BY <1>4, TailIsSubSeq
        <3> QED BY <3>1, <3>2, <3>3
    <2> QED BY <2>3, <2>4
<1> QED BY <1>2, <1>3, <1>4

(* What is in the pipeline was taken from the hub's channel or is in it. *)
Flow ==
    \A c \in Handlers :
        /\ Elements(handled[c]) \cup Elements(out[c]) \subseteq got[c]
        /\ hold[c] # NoParcel => hold[c] \in got[c]

(* Nothing gets into the pipeline but out of the channel of the hub. *)
LEMMA FlowStep == HubProofs!IInv /\ PipeInv /\ Flow /\ [Next]_vars => Flow'
<1> SUFFICES ASSUME HubProofs!IInv, PipeInv, Flow, [Next]_vars PROVE Flow'
    OBVIOUS
<1>0. HubProofs!TypeOK
    BY DEF HubProofs!IInv, HubProofs!Shape
<1> USE DEF Flow
<1>1. ASSUME UNCHANGED <<handled, out, hold, got>> PROVE Flow'
    BY <1>1
<1>2. ASSUME NEW s \in Sockets,
             \/ SendMessage(s) \/ SendNote(s) \/ PeerRead(s) \/ LoseNote(s) \/ Drop(s)
             \/ Top(s) \/ ReadError(s) \/ ReadDatagram(s) \/ CloseConn(s)
      PROVE  Flow'
    BY <1>1, <1>2 DEF SendMessage, SendNote, PeerRead, LoseNote, Drop, Top, ReadError,
                      ReadDatagram, CloseConn, pipe, hub
<1>3. ASSUME NEW s \in Sockets, ReadMessage(s) \/ Deliver(s) PROVE Flow'
    BY <1>1, <1>3 DEF ReadMessage, Deliver, pipe, Hub!Publish, Hub!Send, Hub!Panic, Hub!history
<1>4. CASE Cancel
    BY <1>1, <1>4 DEF Cancel, pipe, hub
<1>5. ASSUME NEW c \in Handlers, OnMessage(c) \/ WorkerEnds(c) \/ Subscribe(c) \/ Leave(c)
      PROVE  Flow'
    BY <1>1, <1>5 DEF OnMessage, WorkerEnds, Subscribe, Leave, hub,
                      Hub!Subscribe, Hub!Unsubscribe, Hub!history
<1>6. ASSUME NEW c \in Handlers, Take(c) PROVE Flow'
    <2>1. /\ hold' = [hold EXCEPT ![c] = slot[c]]
          /\ got' = [got EXCEPT ![c] = @ \cup {slot[c]}]
          /\ UNCHANGED <<out, handled>>
        BY <1>6 DEF Take, Hub!Receive
    <2> QED BY <1>0, <2>1 DEF HubProofs!TypeOK, PipeInv, PipeTypes
<1>7. ASSUME NEW c \in Handlers, Hand(c) PROVE Flow'
    <2>1. /\ hold' = [hold EXCEPT ![c] = NoParcel]
          /\ out' = [out EXCEPT ![c] = Append(@, hold[c])]
          /\ UNCHANGED <<handled, got>>
        BY <1>7 DEF Hand, hub
    <2>2. hold[c] \in Parcels /\ hold[c] # NoParcel /\ out[c] \in Seq(Parcels)
        BY <1>7 DEF Hand, PipeInv, PipeTypes, Carried
    <2> HIDE DEF Parcels
    <2>3. Elements(Append(out[c], hold[c])) = Elements(out[c]) \cup {hold[c]}
        BY <2>2, ElementsAppend
    <2> QED BY <2>1, <2>2, <2>3 DEF PipeInv, PipeTypes
<1>8. ASSUME NEW c \in Handlers, Handle(c) PROVE Flow'
    <2>1. /\ out[c] # <<>>
          /\ out' = [out EXCEPT ![c] = Tail(@)]
          /\ handled' = [handled EXCEPT ![c] = Append(@, Head(out[c]))]
          /\ UNCHANGED <<hold, got>>
        BY <1>8 DEF Handle, hub
    <2>2. handled[c] \in Seq(Parcels) /\ out[c] \in Seq(Parcels)
        BY DEF PipeInv, PipeTypes
    <2> HIDE DEF Parcels
    <2>3. /\ Head(out[c]) \in Parcels
          /\ Elements(out[c]) = Elements(Tail(out[c])) \cup {Head(out[c])}
        BY <2>1, <2>2, ElementsTail
    <2>4. Elements(Append(handled[c], Head(out[c]))) = Elements(handled[c]) \cup {Head(out[c])}
        BY <2>2, <2>3, ElementsAppend
    <2> QED BY <2>1, <2>3, <2>4 DEF PipeInv, PipeTypes
<1>9. CASE UNCHANGED vars
    BY <1>1, <1>9 DEF vars, pipe, hub
<1> QED BY <1>2, <1>3, <1>4, <1>5, <1>6, <1>7, <1>8, <1>9 DEF Next

(* The pipeline is what the hub gave to the handler, no more and no less. *)
LEMMA PipelineIsHeld ==
    ASSUME HubProofs!IInv, PipeInv, Flow, NEW c \in Handlers
    PROVE  /\ Elements(Pipeline(c)) = HubProofs!Held(c)
           /\ HubProofs!Held(c) \subseteq 1..published
<1>1. HubProofs!TypeOK /\ HubProofs!Numbers
    BY DEF HubProofs!IInv, HubProofs!Shape
<1>2. Elements(Pipeline(c)) = Elements(handled[c]) \cup Elements(out[c])
                                \cup Elements(One(hold[c])) \cup Elements(One(slot[c]))
    BY <1>1, PipelineTyped DEF PipeInv
<1>3. \A n : Elements(One(n)) = IF n = NoParcel THEN {} ELSE {n}
    BY DEF Elements, One
<1>4. NoParcel \notin got[c]
    BY <1>1 DEF HubProofs!TypeOK, HubProofs!Parcels
<1>5. Elements(Pipeline(c)) = HubProofs!Held(c)
    <2> HIDE DEF NoParcel
    <2>1. HubProofs!NoParcel = NoParcel
        BY DEF HubProofs!NoParcel, NoParcel
    <2> QED BY <1>2, <1>3, <1>4, <2>1 DEF HubProofs!Held, PipeInv, Carried, Flow
<1>6. ASSUME NEW n \in HubProofs!Held(c) PROVE n \in 1..published
    BY <1>1 DEF HubProofs!Held, HubProofs!Numbers, HubProofs!TypeOK, HubProofs!Parcels, HubProofs!NoParcel
<1> QED BY <1>5, <1>6

(* InOrder, handler by handler. *)
Ordered(p) ==
    \A i, j \in DOMAIN p : i < j /\ author[p[i]] = author[p[j]] =>
        /\ p[i] < p[j]
        /\ \A n \in p[i]..p[j] : author[n] = author[p[i]] => n \in Elements(p)

(* It stays so where the pipeline stays the same. *)
LEMMA OrderKept ==
    ASSUME NEW c \in Handlers, Ordered(Pipeline(c)), Pipeline(c)' = Pipeline(c),
           Pipeline(c) \in Seq(Parcels), Elements(Pipeline(c)) \subseteq 1..published,
           published \in Nat, \A n \in 1..published : author'[n] = author[n]
    PROVE  Ordered(Pipeline(c))'
<1> DEFINE p == Pipeline(c)
<1>1. \A i \in DOMAIN p : p[i] \in 1..published
    BY DEF Elements
<1>2. \A i, j \in DOMAIN p : \A n \in p[i]..p[j] : n \in 1..published
    BY <1>1
<1>3. Elements(p)' = Elements(p)
    BY DEF Elements
<1> HIDE DEF p
<1>4. p' = p
    BY DEF p
<1>5. SUFFICES ASSUME NEW i \in DOMAIN p, NEW j \in DOMAIN p, i < j, author'[p[i]] = author'[p[j]]
               PROVE  /\ p[i] < p[j]
                      /\ \A n \in p[i]..p[j] : author'[n] = author'[p[i]] => n \in Elements(p)
    BY <1>3, <1>4 DEF Ordered, p
<1>6. author[p[i]] = author[p[j]]
    BY <1>1, <1>5
<1>7. /\ p[i] < p[j]
      /\ \A n \in p[i]..p[j] : author[n] = author[p[i]] => n \in Elements(p)
    BY <1>5, <1>6 DEF Ordered, p
<1> QED BY <1>1, <1>2, <1>7

(* What a read loop sends to a handler comes behind all it has sent it before,
   and there is none between that was left out. *)
LEMMA SendComesNext ==
    ASSUME HubProofs!IInv, PipeInv, Flow, ~Crashed,
           NEW s \in Sockets, NEW c \in Handlers, c \in pending[s], c \notin closed,
           NEW k \in HubProofs!Held(c), author[k] = s
    PROVE  /\ author[parcel[s]] = s
           /\ k < parcel[s]
           /\ \A n \in k..parcel[s] : author[n] = s => n = parcel[s] \/ n \in HubProofs!Held(c)
<1>1. /\ HubProofs!TypeOK /\ HubProofs!Registry /\ HubProofs!Senders /\ HubProofs!Numbers
      /\ HubProofs!Once /\ HubProofs!Newer /\ HubProofs!NothingLost /\ HubProofs!Latest
    BY DEF HubProofs!IInv, HubProofs!Shape
<1>2. /\ parcel[s] # NoParcel /\ author[parcel[s]] = s /\ home[c] # None /\ parcel[s] > born[c]
      /\ parcel[s] <= published
    BY <1>1 DEF HubProofs!Senders, HubProofs!NoParcel
<1>3. k \in 1..published
    BY PipelineIsHeld
<1>4. /\ parcel[s] \in Nat /\ k \in Nat /\ published \in Nat /\ born[c] \in Nat /\ replayed[c] \in Nat
    <2>1. /\ published \in 0..MaxMessages
          /\ parcel \in [Sockets -> 0..MaxMessages] /\ born \in [Handlers -> 0..MaxMessages]
          /\ replayed \in [Handlers -> 0..MaxMessages]
        BY <1>1 DEF HubProofs!TypeOK, HubProofs!Parcels, HubProofs!NoParcel
    <2> QED BY <1>3, <2>1
<1>5. k <= parcel[s]
    BY <1>1, <1>3 DEF HubProofs!Latest
<1>6. k # parcel[s]
    BY <1>1, <1>2 DEF HubProofs!Once, HubProofs!Held
<1>7. HubProofs!Subscribed(c) /\ home[c] = MKEY
    BY <1>1, <1>2 DEF HubProofs!Subscribed, HubProofs!Registry, HubProofs!TypeOK
<1>8. ASSUME NEW n \in k..parcel[s], author[n] = s, n # parcel[s] PROVE n \in HubProofs!Held(c)
    <2>1. n \in 1..published /\ topic[n] = MKEY
        BY <1>2, <1>3, <1>4 DEF PipeInv, Topics
    <2>2. CASE n = k
        BY <2>2
    <2>3. CASE n # k
        <3>1. k = replayed[c] \/ k > born[c]
            BY <1>1 DEF HubProofs!Newer, HubProofs!Held
        <3>2. n > born[c]
            BY <1>1, <1>3, <1>4, <1>7, <2>1, <2>3, <3>1 DEF HubProofs!Latest, HubProofs!NoParcel
        <3>3. n \in HubProofs!Held(c) \cup HubProofs!Owed(c) \/ HubProofs!Abandoned(n)
            BY <1>1, <1>7, <2>1, <3>2 DEF HubProofs!NothingLost
        <3>4. ~HubProofs!Abandoned(n)
            BY DEF HubProofs!Abandoned, Crashed
        <3>5. n \notin HubProofs!Owed(c)
            <4> SUFFICES ASSUME NEW g \in Sockets, c \in pending[g], parcel[g] = n PROVE FALSE
                BY DEF HubProofs!Owed
            <4>1. author[parcel[g]] = g
                BY <1>1, <2>1 DEF HubProofs!Senders, HubProofs!NoParcel
            <4> QED BY <1>8, <4>1
        <3> QED BY <3>3, <3>4, <3>5
    <2> QED BY <2>2, <2>3
<1> QED BY <1>2, <1>4, <1>5, <1>6, <1>8

(* A message that the hub sends is later than all of its stream in the
   pipeline, and the next to its last. *)
LEMMA OrderGrows ==
    ASSUME HubProofs!IInv, PipeInv, Flow, ~Crashed, NEW s \in Sockets, Hub!Send(s), UNCHANGED pipe,
           NEW c \in Handlers, c = target[s], Ordered(Pipeline(c))
    PROVE  Ordered(Pipeline(c))'
<1> DEFINE p == Pipeline(c)
           m == parcel[s]
<1>1. HubProofs!TypeOK /\ HubProofs!Senders
    BY DEF HubProofs!IInv, HubProofs!Shape
<1>2. /\ c \in pending[s] /\ c \notin closed /\ slot[c] = NoParcel /\ slot'[c] = m
      /\ UNCHANGED author
    <2>1. HubProofs!Send(s) /\ HubProofs!CheetahAssumption
        BY HubSame
    <2> QED BY <1>1, <2>1, HubProofs!SendEffect DEF HubProofs!NoParcel
<1>3. m \in Parcels
    BY <1>1, <1>2 DEF HubProofs!Senders, HubProofs!TypeOK, HubProofs!Parcels, HubProofs!NoParcel
<1>4. p \in Seq(Parcels) /\ Elements(p) = HubProofs!Held(c) /\ One(hold[c]) \in Seq(Parcels)
    BY <1>1, PipelineTyped, PipelineIsHeld DEF PipeInv
<1>5. p' = Append(p, m)
    <2> DEFINE q == handled[c] \o out[c] \o One(hold[c])
    <2>1. handled[c] \in Seq(Parcels) /\ out[c] \in Seq(Parcels)
        BY DEF PipeInv, PipeTypes
    <2>2. handled'[c] = handled[c] /\ out'[c] = out[c] /\ hold'[c] = hold[c]
        BY DEF pipe
    <2>3. One(slot[c]) = <<>> /\ One(slot'[c]) = <<m>>
        BY <1>2, <1>3 DEF One
    <2>4. p = q \o One(slot[c]) /\ p' = q \o One(slot'[c])
        BY <2>2 DEF Pipeline, One
    <2> HIDE DEF Parcels, p, m
    <2>5. handled[c] \o out[c] \in Seq(Parcels)
        BY <2>1, ConcatProperties
    <2>6. q \in Seq(Parcels)
        BY <1>4, <2>5, ConcatProperties
    <2> HIDE DEF q
    <2> QED BY <1>3, <2>3, <2>4, <2>6, ConcatEmptySeq, AppendIsConcat
<1>6. /\ Len(p) \in Nat /\ DOMAIN p = 1..Len(p) /\ DOMAIN p' = 1..Len(p)+1
      /\ \A i \in 1..Len(p) : p'[i] = p[i] /\ p[i] \in Elements(p)
      /\ p'[Len(p)+1] = m
    <2> HIDE DEF Parcels, p, m
    <2>1. Len(p) \in Nat /\ DOMAIN p = 1..Len(p)
        BY <1>4
    <2>2. Append(p, m) \in Seq(Parcels) /\ Len(Append(p, m)) = Len(p) + 1
          /\ \A i \in 1..Len(p) : Append(p, m)[i] = p[i]
          /\ Append(p, m)[Len(p)+1] = m
        BY <1>3, <1>4, AppendProperties
    <2>3. DOMAIN Append(p, m) = 1..Len(p)+1
        BY <2>2, LenProperties
    <2> QED BY <1>5, <2>1, <2>2, <2>3 DEF Elements
<1>7. Elements(p)' = Elements(p) \cup {m}
    <2> HIDE DEF Parcels, p, m
    <2>1. Elements(Append(p, m)) = Elements(p) \cup {m}
        BY <1>3, <1>4, ElementsAppend
    <2>2. Elements(p)' = Elements(Append(p, m))
        BY <1>5 DEF Elements
    <2> QED BY <2>1, <2>2
<1>8. SUFFICES ASSUME NEW i \in 1..Len(p)+1, NEW j \in 1..Len(p)+1, i < j, author[p'[i]] = author[p'[j]]
               PROVE  /\ p'[i] < p'[j]
                      /\ \A n \in p'[i]..p'[j] : author[n] = author[p'[i]] => n \in Elements(p) \cup {m}
    <2> HIDE DEF p, m
    <2> QED BY <1>2, <1>6, <1>7 DEF Ordered, p
<1>9. i \in 1..Len(p)
    BY <1>6, <1>8
<1>10. CASE j \in 1..Len(p)
    <2>1. p'[i] = p[i] /\ p'[j] = p[j]
        BY <1>6, <1>9, <1>10
    <2> HIDE DEF p, m
    <2> QED BY <1>6, <1>8, <1>9, <1>10, <2>1, SMTT(30) DEF Ordered, p
<1>11. CASE j = Len(p) + 1
    <2>1. p'[i] = p[i] /\ p'[j] = m /\ p[i] \in HubProofs!Held(c)
        BY <1>4, <1>6, <1>9, <1>11
    <2>2. author[m] = s
        BY <1>1, <1>3 DEF HubProofs!Senders, HubProofs!NoParcel
    <2>3. author[p[i]] = s
        BY <1>8, <2>1, <2>2
    <2>4. /\ p[i] < m
          /\ \A n \in p[i]..m : author[n] = s => n = m \/ n \in HubProofs!Held(c)
        BY <1>2, <2>1, <2>3, SendComesNext
    <2> HIDE DEF p, m
    <2> QED BY <1>4, <2>1, <2>2, <2>3, <2>4
<1> QED BY <1>8, <1>10, <1>11

AllOrdered == \A c \in Handlers : Ordered(Pipeline(c))

(* Each step keeps the order of every pipeline. *)
LEMMA OrderStep ==
    HubProofs!IInv /\ PipeInv /\ Flow /\ AllOrdered /\ [Next]_vars => AllOrdered'
<1> SUFFICES ASSUME HubProofs!IInv, PipeInv, Flow, AllOrdered, [Next]_vars PROVE AllOrdered'
    OBVIOUS
<1>0. HubProofs!TypeOK /\ HubProofs!Fresh
    BY DEF HubProofs!IInv, HubProofs!Shape
<1>1. published \in Nat /\ published <= MaxMessages
    BY <1>0 DEF HubProofs!TypeOK
<1>2. ASSUME NEW c \in Handlers, Pipeline(c)' = Pipeline(c), \A n \in 1..published : author'[n] = author[n]
      PROVE  Ordered(Pipeline(c))'
    <2>1. Pipeline(c) \in Seq(Parcels) /\ Elements(Pipeline(c)) \subseteq 1..published
        BY <1>0, PipelineTyped, PipelineIsHeld DEF PipeInv
    <2> QED BY <1>1, <1>2, <2>1, OrderKept DEF AllOrdered
<1>3. ASSUME UNCHANGED <<pipe, slot>>, \A n \in 1..published : author'[n] = author[n]
      PROVE  AllOrdered'
    <2> SUFFICES ASSUME NEW c \in Handlers PROVE Ordered(Pipeline(c))'
        BY DEF AllOrdered
    <2>1. Pipeline(c)' = Pipeline(c)
        BY <1>3 DEF Pipeline, One, pipe
    <2> QED BY <1>2, <1>3, <2>1
<1>4. ASSUME UNCHANGED <<pipe, hub>> PROVE AllOrdered'
    BY <1>3, <1>4 DEF hub
<1>5. ASSUME NEW s \in Sockets,
             \/ SendMessage(s) \/ SendNote(s) \/ PeerRead(s) \/ LoseNote(s) \/ Drop(s)
             \/ Top(s) \/ ReadError(s) \/ ReadDatagram(s) \/ CloseConn(s)
      PROVE  AllOrdered'
    BY <1>4, <1>5 DEF SendMessage, SendNote, PeerRead, LoseNote, Drop, Top, ReadError,
                      ReadDatagram, CloseConn
<1>6. ASSUME NEW s \in Sockets, ReadMessage(s) PROVE AllOrdered'
    <2>1. HubProofs!Publish(s, MKEY) /\ UNCHANGED pipe
        BY <1>6, HubSame DEF ReadMessage
    <2>2. UNCHANGED slot /\ \A n \in 1..published : author'[n] = author[n]
        BY <1>0, <2>1, HubSame, HubProofs!PublishEffect
    <2> QED BY <1>3, <2>1, <2>2
<1>7. ASSUME NEW s \in Sockets, Deliver(s), ~Crashed PROVE AllOrdered'
    <2>1. UNCHANGED pipe
        BY <1>7 DEF Deliver
    <2>2. CASE Hub!Panic(s)
        BY <1>3, <2>1, <2>2 DEF Hub!Panic, Hub!history
    <2>3. CASE Hub!Send(s)
        <3>1. UNCHANGED author /\ slot' = [slot EXCEPT ![target[s]] = parcel[s]]
            BY <2>3 DEF Hub!Send, Hub!history
        <3> SUFFICES ASSUME NEW c \in Handlers PROVE Ordered(Pipeline(c))'
            BY DEF AllOrdered
        <3>2. CASE c = target[s]
            BY <1>7, <2>1, <2>3, <3>2, OrderGrows DEF AllOrdered
        <3>3. CASE c # target[s]
            <4>1. slot'[c] = slot[c]
                BY <1>0, <3>1, <3>3 DEF HubProofs!TypeOK
            <4>2. Pipeline(c)' = Pipeline(c)
                BY <2>1, <4>1 DEF Pipeline, One, pipe
            <4> QED BY <1>2, <3>1, <4>2
        <3> QED BY <3>2, <3>3
    <2> QED BY <1>7, <2>2, <2>3 DEF Deliver
<1>8. CASE Cancel
    BY <1>4, <1>8 DEF Cancel
<1>9. ASSUME NEW c \in Handlers, OnMessage(c) \/ WorkerEnds(c) \/ Leave(c) PROVE AllOrdered'
    <2>1. UNCHANGED <<hold, out, handled, slot, author>>
        BY <1>9 DEF OnMessage, WorkerEnds, Leave, hub, Hub!Unsubscribe, Hub!history
    <2> SUFFICES ASSUME NEW d \in Handlers PROVE Ordered(Pipeline(d))'
        BY DEF AllOrdered
    <2>2. Pipeline(d)' = Pipeline(d)
        BY <2>1 DEF Pipeline, One
    <2> QED BY <1>2, <2>1, <2>2
<1>10. ASSUME NEW c \in Handlers, Subscribe(c) PROVE AllOrdered'
    <2>1. /\ fwd[c] = "starting" /\ slot' = [slot EXCEPT ![c] = last[MKEY]]
          /\ UNCHANGED <<hold, out, handled, author>>
        BY <1>10 DEF Subscribe, Hub!Subscribe
    <2> SUFFICES ASSUME NEW d \in Handlers PROVE Ordered(Pipeline(d))'
        BY DEF AllOrdered
    <2>2. CASE d # c
        <3>1. slot'[d] = slot[d]
            BY <1>0, <2>1, <2>2 DEF HubProofs!TypeOK
        <3>2. Pipeline(d)' = Pipeline(d)
            <4>1. UNCHANGED <<hold, out, handled>>
                BY <2>1
            <4> QED BY <3>1, <4>1 DEF Pipeline, One
        <3> QED BY <1>2, <2>1, <3>2
    <2>3. CASE d = c
        <3>1. home[c] = None /\ got[c] = {} /\ hold[c] = NoParcel
            BY <1>0, <2>1 DEF PipeInv, Carried, HubProofs!Fresh
        <3>2. handled[c] = <<>> /\ out[c] = <<>>
            <4>1. handled[c] \in Seq(Parcels) /\ out[c] \in Seq(Parcels)
                BY DEF PipeInv, PipeTypes
            <4>2. Elements(handled[c]) = {} /\ Elements(out[c]) = {}
                BY <3>1 DEF Flow
            <4> HIDE DEF Parcels
            <4>3. ASSUME NEW q \in Seq(Parcels), q # <<>> PROVE Elements(q) # {}
                <5>1. Elements(q) = Elements(Tail(q)) \cup {Head(q)}
                    BY <4>3, ElementsTail, Zenon
                <5> QED BY <5>1
            <4> QED BY <4>1, <4>2, <4>3
        <3>3. Pipeline(c)' = One(last[MKEY])
            <4>1. slot'[c] = last[MKEY]
                BY <1>0, <2>1 DEF HubProofs!TypeOK
            <4>2. Pipeline(c)' = <<>> \o <<>> \o <<>> \o One(last[MKEY])
                BY <2>1, <3>1, <3>2, <4>1 DEF Pipeline, One
            <4> QED BY <4>2 DEF One
        <3>4. \A i, j \in DOMAIN One(last[MKEY]) : i = j /\ i \in Nat
            BY DEF One
        <3> QED BY <2>3, <3>3, <3>4 DEF Ordered
    <2> QED BY <2>2, <2>3
<1>11. ASSUME NEW c \in Handlers, Take(c) \/ Hand(c) \/ Handle(c) PROVE AllOrdered'
    <2>1. UNCHANGED author
        BY <1>11 DEF Take, Hand, Handle, hub, Hub!Receive
    <2>2. handled[c] \in Seq(Parcels) /\ out[c] \in Seq(Parcels)
        BY DEF PipeInv, PipeTypes
    <2>3. One(hold[c]) \in Seq(Parcels) /\ One(slot[c]) \in Seq(Parcels)
        BY <1>0, PipelineTyped DEF PipeInv
    <2>4. ASSUME NEW d \in Handlers, d # c PROVE Pipeline(d)' = Pipeline(d)
        <3>1. slot'[d] = slot[d] /\ hold'[d] = hold[d] /\ out'[d] = out[d] /\ handled'[d] = handled[d]
            BY <1>0, <1>11, <2>4 DEF Take, Hand, Handle, hub, Hub!Receive, PipeInv, PipeTypes,
                                     HubProofs!TypeOK
        <3> QED BY <3>1 DEF Pipeline, One
    <2>5. ASSUME Take(c) PROVE Pipeline(c)' = Pipeline(c)
        <3>1. /\ slot[c] # NoParcel /\ hold[c] = NoParcel
              /\ handled'[c] = handled[c] /\ out'[c] = out[c]
              /\ hold'[c] = slot[c] /\ slot'[c] = NoParcel
            BY <1>0, <2>5 DEF Take, Hub!Receive, Hub!NoParcel, PipeInv, PipeTypes, Carried,
                              HubProofs!TypeOK
        <3>2. slot[c] \in Parcels
            BY <1>0, <3>1 DEF HubProofs!TypeOK, HubProofs!Parcels, HubProofs!NoParcel
        <3>3. /\ One(hold[c]) = <<>> /\ One(slot[c]) = <<slot[c]>>
              /\ One(hold'[c]) = <<slot[c]>> /\ One(slot'[c]) = <<>>
            BY <3>1 DEF One
        <3>4. /\ Pipeline(c) = (handled[c] \o out[c] \o <<>>) \o <<slot[c]>>
              /\ Pipeline(c)' = (handled[c] \o out[c] \o <<slot[c]>>) \o <<>>
            BY <3>1, <3>3 DEF Pipeline, One
        <3> HIDE DEF Parcels
        <3> QED BY <2>2, <3>2, <3>4, PipeMoves
    <2>6. ASSUME Hand(c) PROVE Pipeline(c)' = Pipeline(c)
        <3>1. /\ hold[c] \in Parcels /\ hold[c] # NoParcel
              /\ handled'[c] = handled[c] /\ out'[c] = Append(out[c], hold[c])
              /\ hold'[c] = NoParcel /\ slot'[c] = slot[c]
            BY <2>6 DEF Hand, hub, PipeInv, PipeTypes, Carried
        <3>2. One(hold[c]) = <<hold[c]>> /\ One(hold'[c]) = <<>>
            BY <3>1 DEF One
        <3>3. /\ Pipeline(c) = (handled[c] \o out[c] \o <<hold[c]>>) \o One(slot[c])
              /\ Pipeline(c)' = (handled[c] \o Append(out[c], hold[c]) \o <<>>) \o One(slot[c])
            BY <3>1, <3>2 DEF Pipeline, One
        <3> HIDE DEF Parcels
        <3>4. handled[c] \o out[c] \o <<hold[c]>> = handled[c] \o Append(out[c], hold[c]) \o <<>>
            <4> DEFINE h == handled[c]
                       o == out[c]
                       x == hold[c]
            <4>1. h \in Seq(Parcels) /\ o \in Seq(Parcels) /\ x \in Parcels
                BY <2>2, <3>1
            <4> HIDE DEF h, o, x
            <4>2. h \o o \o <<x>> = h \o Append(o, x) \o <<>>
                BY <4>1, PipeMoves, SMTT(30)
            <4> QED BY <4>2 DEF h, o, x
        <3> QED BY <3>3, <3>4
    <2>7. ASSUME Handle(c) PROVE Pipeline(c)' = Pipeline(c)
        <3>1. /\ out[c] # <<>> /\ out'[c] = Tail(out[c])
              /\ handled'[c] = Append(handled[c], Head(out[c]))
              /\ hold'[c] = hold[c] /\ slot'[c] = slot[c]
            BY <2>7 DEF Handle, hub, PipeInv, PipeTypes
        <3>2. Pipeline(c)' = (Append(handled[c], Head(out[c])) \o Tail(out[c])) \o One(hold[c]) \o One(slot[c])
            BY <3>1 DEF Pipeline, One
        <3> HIDE DEF Parcels
        <3>3. Append(handled[c], Head(out[c])) \o Tail(out[c]) = handled[c] \o out[c]
            <4> DEFINE h == handled[c]
                       o == out[c]
            <4>1. h \in Seq(Parcels) /\ o \in Seq(Parcels) /\ o # <<>>
                BY <2>2, <3>1
            <4> HIDE DEF h, o
            <4>2. Append(h, Head(o)) \o Tail(o) = h \o o
                BY <4>1, PipeMoves, SMTT(30)
            <4> QED BY <4>2 DEF h, o
        <3> QED BY <3>2, <3>3 DEF Pipeline
    <2> QED BY <1>2, <1>11, <2>1, <2>4, <2>5, <2>6, <2>7 DEF AllOrdered
<1>12. CASE UNCHANGED vars
    BY <1>4, <1>12 DEF vars
<1> QED BY <1>5, <1>6, <1>7, <1>8, <1>9, <1>10, <1>11, <1>12 DEF Next

(* A handler is called with the messages of one stream in the order in which
   they were sent, each once and without a gap: through the hub, the
   forwarder's hand and the buffered channel. *)
THEOREM InOrderAlways == Spec => []InOrder
<1>1. Init => Flow /\ AllOrdered
    <2> SUFFICES ASSUME Init, NEW c \in Handlers
                 PROVE  /\ Elements(handled[c]) \cup Elements(out[c]) \subseteq got[c]
                        /\ hold[c] = NoParcel
                        /\ Ordered(Pipeline(c))
        BY DEF Flow, AllOrdered
    <2>1. handled[c] = <<>> /\ out[c] = <<>> /\ hold[c] = NoParcel /\ slot[c] = NoParcel
        BY DEF Init, Hub!Init, Hub!NoParcel
    <2>2. Pipeline(c) = <<>> \o <<>> \o <<>> \o <<>>
        BY <2>1 DEF Pipeline, One
    <2>3. Pipeline(c) = <<>>
        BY <2>2
    <2> QED BY <2>1, <2>3 DEF Elements, Ordered
<1>2. AllOrdered => InOrder
    BY DEF AllOrdered, Ordered, InOrder
<1> QED BY <1>1, <1>2, FlowStep, OrderStep, HubInvariance, PipeInvariance, PTL DEF Spec
=============================================================================
