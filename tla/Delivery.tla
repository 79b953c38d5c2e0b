------------------------------ MODULE Delivery ------------------------------
(***************************************************************************)
(* The way of a message from the peer's SendMessage to a handler given to  *)
(* OnMessage: sdk-v1/api.go on the receiving side, client-sdk-v1/api.go    *)
(* and core/socket/api.go on the sending side, and the hub of Cheetah      *)
(* between the read loop of a stream and the handlers.                     *)
(*                                                                         *)
(* A socket is an accepted stream with its read loop; the loop is the      *)
(* goroutine that publishes.  A message is identified with the parcel its  *)
(* Publish makes, so what is still in the stream is only counted: QUIC     *)
(* keeps a stream in order and loses nothing of it.  Datagrams it may      *)
(* lose: a WriteMessage sends one after the message, a ReadMessage another.*)
(*                                                                         *)
(* The loop reads a message, publishes it, reads one datagram and starts   *)
(* again, and the peer reads the replies the handlers write.  All contexts *)
(* are the one that admin.Start cancels.                                   *)
(***************************************************************************)
EXTENDS Naturals, Sequences

CONSTANTS
    MKEY,        \* the only key of the hub
    Handlers,    \* calls of OnMessage, each with the channel it subscribes
    Sockets,     \* accepted streams, each with its read loop
    MaxMessages, \* bounds the messages published altogether
    MaxSent,     \* bounds the messages written to one stream
    MaxLost,     \* bounds the datagrams lost on one connection
    Cap,         \* capacity of the channel between forwarder and handler
    None

ASSUME DeliveryAssumption ==
    /\ MaxMessages \in Nat /\ MaxSent \in Nat /\ MaxLost \in Nat
    /\ Cap \in Nat \ {0}
    /\ None \notin {MKEY} \cup Handlers \cup Sockets

(* The message hub. *)
VARIABLES subscribers, last, slot, closed, pc, parcel, pending, target,
          published, topic, author, home, born, replayed, got

hub == <<subscribers, last, slot, closed, pc, parcel, pending, target,
         published, topic, author, home, born, replayed, got>>

Hub == INSTANCE Cheetah WITH
          Keys <- {MKEY}, Chans <- Handlers, Publishers <- Sockets,
          MaxParcels <- MaxMessages

VARIABLES
    written,   \* written[s]: messages the peer has put into the stream of s
    owing,     \* owing[s]: WriteMessage has yet to send its datagram
    notes,     \* notes[s]: datagrams on their way to s
    lost,      \* lost[s]: datagrams lost
    replies    \* replies[s]: messages in the stream to the peer

peer == <<written, owing, notes, lost, replies>>

VARIABLES
    loop,      \* loop[s]: where the read loop of s is
    consumed,  \* consumed[s]: messages read from the stream of s
    dlatch,    \* what dmessage keeps for a Stats that does not come
    open,      \* open[s]: the connection of s is up
    cancelled, \* the context is done
    before     \* before[s]: consumed[s] when it was cancelled

server == <<loop, consumed, dlatch, open, cancelled, before>>

VARIABLES
    fwd,       \* fwd[c]: where the forwarding goroutine of c is
    hold,      \* hold[c]: the parcel it has taken and not handed on
    out,       \* out[c]: the buffered channel out
    worker,    \* worker[c]: the goroutine that calls the handler runs
    handled,   \* handled[c]: the parcels the handler was called with
    asked      \* asked[c]: published when OnMessage returned

pipe == <<fwd, hold, out, worker, handled, asked>>

vars == <<hub, peer, server, pipe>>

NoParcel == 0
Parcels == 1..MaxMessages

Init ==
    /\ Hub!Init
    /\ written = [s \in Sockets |-> 0]
    /\ owing = [s \in Sockets |-> FALSE]
    /\ notes = [s \in Sockets |-> 0]
    /\ lost = [s \in Sockets |-> 0]
    /\ replies = [s \in Sockets |-> 0]
    /\ loop = [s \in Sockets |-> "top"]
    /\ consumed = [s \in Sockets |-> 0]
    /\ dlatch = "none"
    /\ open = [s \in Sockets |-> TRUE]
    /\ cancelled = FALSE
    /\ before = [s \in Sockets |-> 0]
    /\ fwd = [c \in Handlers |-> "none"]
    /\ hold = [c \in Handlers |-> NoParcel]
    /\ out = [c \in Handlers |-> <<>>]
    /\ worker = [c \in Handlers |-> FALSE]
    /\ handled = [c \in Handlers |-> <<>>]
    /\ asked = [c \in Handlers |-> 0]

----------------------------------------------------------------------------
(* The peer: client-sdk-v1 over core/socket. *)

(* WriteMessage: the frame goes into the stream.  Messages are taken to fit
   into the window of the stream: a longer one stays half-written, its datagram
   unsent, until the reader comes to it, which with a loss it never may. *)
SendMessage(s) ==
    /\ open[s] /\ ~owing[s]
    /\ written[s] < MaxSent
    /\ written' = [written EXCEPT ![s] = @ + 1]
    /\ owing' = [owing EXCEPT ![s] = TRUE]
    /\ UNCHANGED <<notes, lost, replies, hub, server, pipe>>

(* Still under the socket's lock, the datagram after it. *)
SendNote(s) ==
    /\ owing[s]
    /\ owing' = [owing EXCEPT ![s] = FALSE]
    /\ notes' = [notes EXCEPT ![s] = @ + 1]
    /\ UNCHANGED <<written, lost, replies, hub, server, pipe>>

(* The peer's loop reads a reply; ReadMessage sends a datagram of its own. *)
PeerRead(s) ==
    /\ open[s]
    /\ replies[s] > 0
    /\ replies' = [replies EXCEPT ![s] = @ - 1]
    /\ notes' = [notes EXCEPT ![s] = @ + 1]
    /\ UNCHANGED <<written, owing, lost, hub, server, pipe>>

LoseNote(s) ==
    /\ notes[s] > 0
    /\ lost[s] < MaxLost
    /\ notes' = [notes EXCEPT ![s] = @ - 1]
    /\ lost' = [lost EXCEPT ![s] = @ + 1]
    /\ UNCHANGED <<written, owing, replies, hub, server, pipe>>

(* The peer leaves, or nothing was heard for too long. *)
Drop(s) ==
    /\ open[s]
    /\ open' = [open EXCEPT ![s] = FALSE]
    /\ UNCHANGED <<hub, peer, loop, consumed, dlatch, cancelled, before, pipe>>

----------------------------------------------------------------------------
(* The read loop of a socket. *)

(* Mutant: the loop does not look at the context. *)
TopWithoutContext(s) ==
    /\ loop[s] = "top"
    /\ loop' = [loop EXCEPT ![s] = "reading"]
    /\ UNCHANGED <<hub, peer, consumed, dlatch, open, cancelled, before, pipe>>

(* The empty case of a done context falls out of the select, past the read. *)
Top(s) ==
    /\ loop[s] = "top"
    /\ loop' = [loop EXCEPT ![s] = IF cancelled THEN "datagram" ELSE "reading"]
    /\ UNCHANGED <<hub, peer, consumed, dlatch, open, cancelled, before, pipe>>

(* A message is read and Publish takes the hub's lock. *)
ReadMessage(s) ==
    /\ loop[s] = "reading"
    /\ open[s]
    /\ consumed[s] < written[s]
    /\ Hub!Publish(s, MKEY)
    /\ consumed' = [consumed EXCEPT ![s] = @ + 1]
    /\ loop' = [loop EXCEPT ![s] = "datagram"]
    /\ UNCHANGED <<peer, dlatch, open, cancelled, before, pipe>>

(* The rest of Publish; its panic has nobody to recover it. *)
Deliver(s) ==
    /\ Hub!Send(s) \/ Hub!Panic(s)
    /\ UNCHANGED <<peer, server, pipe>>

(* The connection is gone, with what was in the stream. *)
ReadError(s) ==
    /\ loop[s] = "reading"
    /\ ~open[s]
    /\ loop' = [loop EXCEPT ![s] = "ended"]
    /\ UNCHANGED <<hub, peer, consumed, dlatch, open, cancelled, before, pipe>>

(* Mutant: every other datagram is thrown away unseen. *)
ReadTwoDatagrams(s) ==
    /\ loop[s] = "datagram"
    /\ pc[s] = "idle"
    /\ \/ /\ notes[s] > 1
          /\ notes' = [notes EXCEPT ![s] = @ - 2]
          /\ dlatch' = "note"
       \/ /\ ~open[s] \/ cancelled
          /\ dlatch' = "error"
          /\ UNCHANGED notes
    /\ loop' = [loop EXCEPT ![s] = "top"]
    /\ UNCHANGED <<hub, written, owing, lost, replies, consumed, open,
                   cancelled, before, pipe>>

(* When Publish is back: one datagram, or the error that there will be none.
   The error is published too, as a datagram that is ready. *)
ReadDatagram(s) ==
    /\ loop[s] = "datagram"
    /\ pc[s] = "idle"
    /\ \/ /\ notes[s] > 0
          /\ notes' = [notes EXCEPT ![s] = @ - 1]
          /\ dlatch' = "note"
       \/ /\ ~open[s] \/ cancelled
          /\ dlatch' = "error"
          /\ UNCHANGED notes
    /\ loop' = [loop EXCEPT ![s] = "top"]
    /\ UNCHANGED <<hub, written, owing, lost, replies, consumed, open,
                   cancelled, before, pipe>>

Cancel ==
    /\ ~cancelled
    /\ cancelled' = TRUE
    /\ before' = consumed
    /\ UNCHANGED <<hub, peer, loop, consumed, dlatch, open, pipe>>

(* AcceptStream of a done context fails and its goroutine closes the
   connection. *)
CloseConn(s) ==
    /\ cancelled
    /\ Drop(s)

----------------------------------------------------------------------------
(* OnMessage. *)

(* It starts its goroutines and is back before they have done anything. *)
OnMessage(c) ==
    /\ fwd[c] = "none"
    /\ fwd' = [fwd EXCEPT ![c] = "starting"]
    /\ worker' = [worker EXCEPT ![c] = TRUE]
    /\ asked' = [asked EXCEPT ![c] = published]
    /\ UNCHANGED <<hub, peer, server, hold, out, handled>>

Subscribe(c) ==
    /\ fwd[c] = "starting"
    /\ Hub!Subscribe(c, MKEY)
    /\ fwd' = [fwd EXCEPT ![c] = "waiting"]
    /\ UNCHANGED <<peer, server, hold, out, worker, handled, asked>>

Take(c) ==
    /\ fwd[c] = "waiting"
    /\ Hub!Receive(c)
    /\ hold' = [hold EXCEPT ![c] = slot[c]]
    /\ fwd' = [fwd EXCEPT ![c] = "holding"]
    /\ UNCHANGED <<peer, server, out, worker, handled, asked>>

(* Mutant: select with a default, a message that finds out full is dropped. *)
HandOrDrop(c) ==
    /\ fwd[c] = "holding"
    /\ out' = [out EXCEPT ![c] = IF Len(@) < Cap THEN Append(@, hold[c]) ELSE @]
    /\ hold' = [hold EXCEPT ![c] = NoParcel]
    /\ fwd' = [fwd EXCEPT ![c] = "waiting"]
    /\ UNCHANGED <<hub, peer, server, worker, handled, asked>>

(* Mutant: out is not bounded. *)
HandWithoutRoom(c) ==
    /\ fwd[c] = "holding"
    /\ out' = [out EXCEPT ![c] = Append(@, hold[c])]
    /\ hold' = [hold EXCEPT ![c] = NoParcel]
    /\ fwd' = [fwd EXCEPT ![c] = "waiting"]
    /\ UNCHANGED <<hub, peer, server, worker, handled, asked>>

(* Mutant: a waiting message is overtaken by the next. *)
HandInFront(c) ==
    /\ fwd[c] = "holding"
    /\ Len(out[c]) < Cap
    /\ out' = [out EXCEPT ![c] = <<hold[c]>> \o @]
    /\ hold' = [hold EXCEPT ![c] = NoParcel]
    /\ fwd' = [fwd EXCEPT ![c] = "waiting"]
    /\ UNCHANGED <<hub, peer, server, worker, handled, asked>>

(* out <- result *)
Hand(c) ==
    /\ fwd[c] = "holding"
    /\ Len(out[c]) < Cap
    /\ out' = [out EXCEPT ![c] = Append(@, hold[c])]
    /\ hold' = [hold EXCEPT ![c] = NoParcel]
    /\ fwd' = [fwd EXCEPT ![c] = "waiting"]
    /\ UNCHANGED <<hub, peer, server, worker, handled, asked>>

(* ctx.Done in either select; the deferred Unsubscribe closes the channel. *)
Leave(c) ==
    /\ cancelled
    /\ fwd[c] \in {"waiting", "holding"}
    /\ Hub!Unsubscribe(c)
    /\ fwd' = [fwd EXCEPT ![c] = "gone"]
    /\ UNCHANGED <<peer, server, hold, out, worker, handled, asked>>

(* Mutant: the goroutine that calls the handler does it once. *)
HandleOne(c) ==
    /\ worker[c]
    /\ out[c] # <<>>
    /\ out' = [out EXCEPT ![c] = Tail(@)]
    /\ handled' = [handled EXCEPT ![c] = Append(@, Head(out[c]))]
    /\ worker' = [worker EXCEPT ![c] = FALSE]
    /\ \/ UNCHANGED replies
       \/ replies' = [replies EXCEPT ![author[Head(out[c])]] = @ + 1]
    /\ UNCHANGED <<hub, written, owing, notes, lost, server, fwd, hold, asked>>

(* The handler is called, and may answer on the socket of the message. *)
Handle(c) ==
    /\ worker[c]
    /\ out[c] # <<>>
    /\ out' = [out EXCEPT ![c] = Tail(@)]
    /\ handled' = [handled EXCEPT ![c] = Append(@, Head(out[c]))]
    /\ \/ UNCHANGED replies
       \/ replies' = [replies EXCEPT ![author[Head(out[c])]] = @ + 1]
    /\ UNCHANGED <<hub, written, owing, notes, lost, server, fwd, hold, worker, asked>>

WorkerEnds(c) ==
    /\ cancelled
    /\ worker[c]
    /\ worker' = [worker EXCEPT ![c] = FALSE]
    /\ UNCHANGED <<hub, peer, server, fwd, hold, out, handled, asked>>

----------------------------------------------------------------------------

(* The panic of a read loop ends the process. *)
Crashed == \E s \in Sockets : pc[s] = "panicked"

Next ==
    /\ ~Crashed
    /\ \/ \E s \in Sockets : \/ SendMessage(s) \/ SendNote(s) \/ PeerRead(s)
                             \/ LoseNote(s) \/ Drop(s)
       \/ \E s \in Sockets : \/ Top(s) \/ ReadMessage(s) \/ Deliver(s)
                             \/ ReadError(s) \/ ReadDatagram(s)
       \/ Cancel
       \/ \E s \in Sockets : CloseConn(s)
       \/ \E c \in Handlers : \/ OnMessage(c) \/ Subscribe(c) \/ Take(c) \/ Hand(c)
                              \/ Leave(c) \/ Handle(c) \/ WorkerEnds(c)

Spec == Init /\ [][Next]_vars

(* Goroutines are scheduled; a blocked send gets its turn when the channel is
   read again and again; QUIC delivers what it does not lose. *)
Fairness ==
    /\ \A s \in Sockets :
          /\ WF_vars(~Crashed /\ SendNote(s))
          /\ WF_vars(~Crashed /\ Top(s))
          /\ WF_vars(~Crashed /\ ReadMessage(s))
          /\ WF_vars(~Crashed /\ ReadError(s))
          /\ SF_vars(~Crashed /\ Deliver(s))
          /\ WF_vars(~Crashed /\ ReadDatagram(s))
          /\ WF_vars(~Crashed /\ CloseConn(s))
    /\ \A c \in Handlers :
          /\ WF_vars(~Crashed /\ Subscribe(c))
          /\ WF_vars(~Crashed /\ Take(c))
          /\ WF_vars(~Crashed /\ Hand(c))
          /\ WF_vars(~Crashed /\ Handle(c))

FairSpec == Spec /\ Fairness

----------------------------------------------------------------------------
(* Properties. *)

TypeOK ==
    /\ Hub!TypeOK
    /\ written \in [Sockets -> 0..MaxSent]
    /\ owing \in [Sockets -> BOOLEAN]
    /\ notes \in [Sockets -> Nat]
    /\ lost \in [Sockets -> 0..MaxLost]
    /\ replies \in [Sockets -> Nat]
    /\ loop \in [Sockets -> {"top", "reading", "datagram", "ended"}]
    /\ consumed \in [Sockets -> 0..MaxSent]
    /\ dlatch \in {"none", "note", "error"}
    /\ open \in [Sockets -> BOOLEAN]
    /\ cancelled \in BOOLEAN
    /\ before \in [Sockets -> 0..MaxSent]
    /\ fwd \in [Handlers -> {"none", "starting", "waiting", "holding", "gone"}]
    /\ hold \in [Handlers -> Parcels \cup {NoParcel}]
    /\ out \in [Handlers -> Seq(Parcels)]
    /\ \A c \in Handlers : Len(out[c]) <= Cap
    /\ worker \in [Handlers -> BOOLEAN]
    /\ handled \in [Handlers -> Seq(Parcels)]
    /\ asked \in [Handlers -> 0..MaxMessages]

Elements(q) == {q[i] : i \in DOMAIN q}
One(n) == IF n = NoParcel THEN <<>> ELSE <<n>>

(* What handler c was called with, then what it will be called with. *)
Pipeline(c) == handled[c] \o out[c] \o One(hold[c]) \o One(slot[c])

(* A handler meets the messages of one stream in the order in which they were
   sent, each once, and from its first one on without a gap. *)
InOrder ==
    \A c \in Handlers :
        LET p == Pipeline(c) IN
        \A i, j \in DOMAIN p : i < j /\ author[p[i]] = author[p[j]] =>
            /\ p[i] < p[j]
            /\ \A n \in p[i]..p[j] : author[n] = author[p[i]] => n \in Elements(p)

(* Nothing published while a handler is subscribed fails to come to it:
   neither the hub nor the forwarder nor the buffer loses any of it. *)
Complete ==
    \A c \in Handlers : fwd[c] \in {"waiting", "holding"} /\ ~Crashed =>
        \A n \in 1..published : n > born[c] => n \in Elements(Pipeline(c)) \cup Hub!Owed(c)

(* The read loop waits for a datagram that is not there and not coming. *)
Starved(s) ==
    /\ loop[s] = "datagram" /\ pc[s] = "idle" /\ open[s] /\ ~cancelled
    /\ notes[s] = 0 /\ ~owing[s]

(* A message that is written stays unread in its stream only after two
   datagrams of the connection were lost: every whole message and every reply
   brings a datagram, and the loop needs one fewer than it has messages to
   read.  (Of one that is still being written this says nothing.) *)
StrandedByTwoLosses ==
    \A s \in Sockets : Starved(s) /\ consumed[s] < written[s] => lost[s] >= 2

(* After the context is done a read loop reads at most the message it was
   already waiting for. *)
ShutdownStopsReading ==
    \A s \in Sockets : cancelled => consumed[s] <= before[s] + 1

(* "OnMessage registers a handler that is called for every message received"
   (sdk-v1/api.go:119).  Violated: OnMessage is back before its goroutine has
   subscribed, and the hub keeps only the last message for it. *)
EveryMessage ==
    \A c \in Handlers : fwd[c] \notin {"none", "gone"} /\ ~Crashed =>
        \A n \in 1..published : n > asked[c] =>
            n \in Elements(Pipeline(c)) \cup Hub!Owed(c) \cup {last[MKEY]}

(* A parcel on its way to a handler reaches it, however long the buffers are
   full, unless the server stops. *)
OwedIsHandled ==
    \A c \in Handlers : \A n \in Parcels :
        n \in Hub!Owed(c) ~> n \in Elements(handled[c]) \/ cancelled
============================================================================
