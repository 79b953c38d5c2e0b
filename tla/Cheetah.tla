------------------------------ MODULE Cheetah ------------------------------
(***************************************************************************)
(* The publish/subscribe hub of golang/cheetha/cheetha.go, through which   *)
(* every callback of the SDKs is driven: OnMessage, OnConnect, OnClose,    *)
(* GoMonitor, POST /completion and the HTTP client all sit on one.         *)
(*                                                                         *)
(* Subscribe, Unsubscribe, Evict and the first half of Publish run under   *)
(* l.mu and never wait while they hold it (Subscribe's replay goes into a  *)
(* channel nobody else knows yet), so each of them is one step.  The sends *)
(* of Publish come after the unlock, one by one, each of them blocking: a  *)
(* step per send, interleaved with everything else.                        *)
(*                                                                         *)
(* A Go channel made with capacity 1 is a slot.  Parcels are numbered in   *)
(* the order in which their Publish takes the lock.                        *)
(***************************************************************************)
EXTENDS Naturals

CONSTANTS Keys,        \* keys of the hub
          Chans,       \* the channels Subscribe can make: bounds the subscriptions
          Publishers,  \* goroutines that call Publish
          MaxParcels,  \* bounds the calls of Publish
          None         \* no key, no channel, no goroutine

ASSUME CheetahAssumption ==
    /\ MaxParcels \in Nat
    /\ None \notin Keys \cup Chans \cup Publishers

VARIABLES
    subscribers, \* subscribers[k]: the channels registered under k
    last,        \* last[k]: the latched parcel of k, or NoParcel
    slot,        \* slot[c]: the parcel in the buffer of channel c, or NoParcel
    closed,      \* channels closed by Unsubscribe
    pc,          \* pc[g]: where goroutine g is in Publish
    parcel,      \* parcel[g]: the argument of g's latest Publish
    pending,     \* pending[g]: channels of g's snapshot it has not served yet
    target       \* target[g]: the channel g is sending to

hub == <<subscribers, last, slot, closed, pc, parcel, pending, target>>

(* What has happened so far; the code keeps none of it. *)
VARIABLES
    published,   \* number of Publish calls so far
    topic,       \* topic[n]: the key parcel n was published under
    author,      \* author[n]: the goroutine that published parcel n
    home,        \* home[c]: the key c was subscribed to, None before
    born,        \* born[c]: the value of published when c was subscribed
    replayed,    \* replayed[c]: the latched parcel Subscribe put into c
    got          \* got[c]: the parcels the owner of c has taken out of it

history == <<published, topic, author, home, born, replayed, got>>

vars == <<hub, history>>

NoParcel == 0
Parcels == 1..MaxParcels

(* c's owner is between Subscribe and Unsubscribe. *)
Subscribed(c) == home[c] # None /\ c \in subscribers[home[c]]

----------------------------------------------------------------------------

Init ==
    /\ subscribers = [k \in Keys |-> {}]
    /\ last = [k \in Keys |-> NoParcel]
    /\ slot = [c \in Chans |-> NoParcel]
    /\ closed = {}
    /\ pc = [g \in Publishers |-> "idle"]
    /\ parcel = [g \in Publishers |-> NoParcel]
    /\ pending = [g \in Publishers |-> {}]
    /\ target = [g \in Publishers |-> None]
    /\ published = 0
    /\ topic = [n \in Parcels |-> None]
    /\ author = [n \in Parcels |-> None]
    /\ home = [c \in Chans |-> None]
    /\ born = [c \in Chans |-> 0]
    /\ replayed = [c \in Chans |-> NoParcel]
    /\ got = [c \in Chans |-> {}]

(* Mutant: the replay leaves the latch in place. *)
SubscribeKeepingLatch(c, k) ==
    /\ home[c] = None
    /\ home' = [home EXCEPT ![c] = k]
    /\ subscribers' = [subscribers EXCEPT ![k] = @ \cup {c}]
    /\ slot' = [slot EXCEPT ![c] = last[k]]
    /\ born' = [born EXCEPT ![c] = published]
    /\ replayed' = [replayed EXCEPT ![c] = last[k]]
    /\ UNCHANGED <<last, closed, pc, parcel, pending, target, published, topic, author, got>>

(* A fresh channel is registered and handed the latched parcel, if there is
   one, which is evicted. *)
Subscribe(c, k) ==
    /\ home[c] = None
    /\ home' = [home EXCEPT ![c] = k]
    /\ subscribers' = [subscribers EXCEPT ![k] = @ \cup {c}]
    /\ slot' = [slot EXCEPT ![c] = last[k]]
    /\ last' = [last EXCEPT ![k] = NoParcel]
    /\ born' = [born EXCEPT ![c] = published]
    /\ replayed' = [replayed EXCEPT ![c] = last[k]]
    /\ UNCHANGED <<closed, pc, parcel, pending, target, published, topic, author, got>>

(* Goroutine g goes on with the channels in rest, in the order in which the
   map iteration happened to list them, or returns. *)
Advance(g, rest) ==
    /\ pending' = [pending EXCEPT ![g] = rest]
    /\ \/ /\ rest = {}
          /\ pc' = [pc EXCEPT ![g] = "idle"]
          /\ target' = [target EXCEPT ![g] = None]
       \/ \E c \in rest :
             /\ pc' = [pc EXCEPT ![g] = "sending"]
             /\ target' = [target EXCEPT ![g] = c]

(* The locked part of Publish: latch the parcel, copy the subscribers. *)
Publish(g, k) ==
    /\ pc[g] = "idle"
    /\ published < MaxParcels
    /\ published' = published + 1
    /\ topic' = [topic EXCEPT ![published + 1] = k]
    /\ author' = [author EXCEPT ![published + 1] = g]
    /\ last' = [last EXCEPT ![k] = published + 1]
    /\ parcel' = [parcel EXCEPT ![g] = published + 1]
    /\ Advance(g, subscribers[k])
    /\ UNCHANGED <<subscribers, slot, closed, home, born, replayed, got>>

(* Mutant: the loop ranges over the live map instead of a copy of it, and so
   meets the channels subscribed after the unlock. *)
SendToLiveMap(g) ==
    /\ pc[g] = "sending"
    /\ target[g] \notin closed
    /\ slot[target[g]] = NoParcel
    /\ slot' = [slot EXCEPT ![target[g]] = parcel[g]]
    /\ Advance(g, (pending[g] \ {target[g]})
                    \cup {c \in subscribers[home[target[g]]] : born[c] >= parcel[g]})
    /\ UNCHANGED <<subscribers, last, closed, parcel, history>>

(* Mutant: select with a default case, a full channel is skipped. *)
SendOrSkip(g) ==
    /\ pc[g] = "sending"
    /\ target[g] \notin closed
    /\ slot' = [slot EXCEPT ![target[g]] = IF @ = NoParcel THEN parcel[g] ELSE @]
    /\ Advance(g, pending[g] \ {target[g]})
    /\ UNCHANGED <<subscribers, last, closed, parcel, history>>

(* ch <- parcel: waits for room in the channel. *)
Send(g) ==
    /\ pc[g] = "sending"
    /\ target[g] \notin closed
    /\ slot[target[g]] = NoParcel
    /\ slot' = [slot EXCEPT ![target[g]] = parcel[g]]
    /\ Advance(g, pending[g] \ {target[g]})
    /\ UNCHANGED <<subscribers, last, closed, parcel, history>>

(* A send on a closed channel panics, also when it was already waiting there:
   the goroutine unwinds and the rest of the snapshot is never served.  Where
   nobody recovers the process ends with it; here the others go on. *)
Panic(g) ==
    /\ pc[g] = "sending"
    /\ target[g] \in closed
    /\ pc' = [pc EXCEPT ![g] = "panicked"]
    /\ pending' = [pending EXCEPT ![g] = {}]
    /\ target' = [target EXCEPT ![g] = None]
    /\ UNCHANGED <<subscribers, last, slot, closed, parcel, history>>

(* Mutant: a receive that does not wait takes the zero value of an empty
   channel. *)
ReceiveNil(c) ==
    /\ Subscribed(c)
    /\ got' = [got EXCEPT ![c] = @ \cup {slot[c]}]
    /\ slot' = [slot EXCEPT ![c] = NoParcel]
    /\ UNCHANGED <<subscribers, last, closed, pc, parcel, pending, target,
                   published, topic, author, home, born, replayed>>

(* The owner of c takes what is in it. *)
Receive(c) ==
    /\ Subscribed(c)
    /\ slot[c] # NoParcel
    /\ got' = [got EXCEPT ![c] = @ \cup {slot[c]}]
    /\ slot' = [slot EXCEPT ![c] = NoParcel]
    /\ UNCHANGED <<subscribers, last, closed, pc, parcel, pending, target,
                   published, topic, author, home, born, replayed>>

(* Mutant: the channel is forgotten but not closed. *)
UnsubscribeKeepingOpen(c) ==
    /\ Subscribed(c)
    /\ subscribers' = [subscribers EXCEPT ![home[c]] = @ \ {c}]
    /\ UNCHANGED <<last, slot, closed, pc, parcel, pending, target, history>>

(* Deferred by every owner: runs once, when the owner stops receiving. *)
Unsubscribe(c) ==
    /\ Subscribed(c)
    /\ subscribers' = [subscribers EXCEPT ![home[c]] = @ \ {c}]
    /\ closed' = closed \cup {c}
    /\ UNCHANGED <<last, slot, pc, parcel, pending, target, history>>

Evict(k) ==
    /\ last[k] # NoParcel
    /\ last' = [last EXCEPT ![k] = NoParcel]
    /\ UNCHANGED <<subscribers, slot, closed, pc, parcel, pending, target, history>>

Next ==
    \/ \E c \in Chans, k \in Keys : Subscribe(c, k)
    \/ \E g \in Publishers, k \in Keys : Publish(g, k)
    \/ \E g \in Publishers : Send(g) \/ Panic(g)
    \/ \E c \in Chans : Receive(c) \/ Unsubscribe(c)
    \/ \E k \in Keys : Evict(k)

Spec == Init /\ [][Next]_vars

(* Goroutines are scheduled, an owner that holds on to its channel keeps
   receiving from it, and the runtime queues blocked senders first come first
   served, so a send that finds room again and again gets its turn. *)
Fairness ==
    /\ \A g \in Publishers : SF_vars(Send(g)) /\ WF_vars(Panic(g))
    /\ \A c \in Chans : WF_vars(Receive(c))

FairSpec == Spec /\ Fairness

----------------------------------------------------------------------------
(* Properties. *)

(* Parcels that reached the channel of c, and parcels on their way to it. *)
Held(c) == got[c] \cup ({slot[c]} \ {NoParcel})
Owed(c) == {parcel[g] : g \in {h \in Publishers : c \in pending[h]}}

(* g unwound out of the Publish of n before it had served its snapshot. *)
Abandoned(n) ==
    \E g \in Publishers : pc[g] = "panicked" /\ parcel[g] = n /\ author[n] = g

TypeOK ==
    /\ subscribers \in [Keys -> SUBSET Chans]
    /\ last \in [Keys -> Parcels \cup {NoParcel}]
    /\ slot \in [Chans -> Parcels \cup {NoParcel}]
    /\ closed \in SUBSET Chans
    /\ pc \in [Publishers -> {"idle", "sending", "panicked"}]
    /\ parcel \in [Publishers -> Parcels \cup {NoParcel}]
    /\ pending \in [Publishers -> SUBSET Chans]
    /\ target \in [Publishers -> Chans \cup {None}]
    /\ published \in 0..MaxParcels
    /\ topic \in [Parcels -> Keys \cup {None}]
    /\ author \in [Parcels -> Publishers \cup {None}]
    /\ home \in [Chans -> Keys \cup {None}]
    /\ born \in [Chans -> 0..MaxParcels]
    /\ replayed \in [Chans -> Parcels \cup {NoParcel}]
    /\ got \in [Chans -> SUBSET Parcels]

(* No channel is given a parcel twice, whatever a Subscribe that is handed the
   latch and a Publish that is still serving its snapshot do to each other:
   the latch is written and the snapshot taken under one lock. *)
AtMostOnce ==
    \A c \in Chans :
        /\ slot[c] \notin got[c]
        /\ Held(c) \cap Owed(c) = {}

(* A subscriber sees nothing that was published before it subscribed, except
   the one latched parcel Subscribe replays to it, and nothing that belongs to
   another key. *)
NothingOlder ==
    \A c \in Chans : \A n \in Held(c) \cup Owed(c) :
        /\ n = replayed[c] \/ n > born[c]
        /\ topic[n] = home[c]

(* A latched parcel is the newest of its key and no subscriber was handed it
   as a replay; no two subscribers are handed the same one ("only one
   subscriber gets the replay", cheetha.go:35). *)
ReplayedOnce ==
    /\ \A k \in Keys : last[k] # NoParcel =>
          /\ topic[last[k]] = k
          /\ \A n \in 1..published : topic[n] = k => n <= last[k]
          /\ \A c \in Chans : replayed[c] # last[k]
    /\ \A c, d \in Chans : replayed[c] = replayed[d] => c = d \/ replayed[c] = NoParcel

(* Everything published under its key since it subscribed has reached a
   subscriber or is still coming, unless the publisher panicked. *)
NothingLost ==
    \A c \in Chans : Subscribed(c) =>
        \A n \in 1..published :
            n > born[c] /\ topic[n] = home[c] => n \in Held(c) \cup Owed(c) \/ Abandoned(n)

(* The comment on the send in Publish, "blocking send - never silently
   dropped" (cheetha.go:61): NothingLost without the exception.  Violated: a
   subscriber that leaves while a Publish is under way costs the others the
   parcel. *)
NeverDropped ==
    \A c \in Chans : Subscribed(c) =>
        \A n \in 1..published :
            n > born[c] /\ topic[n] = home[c] => n \in Held(c) \cup Owed(c)

(* Publish comes back, by return or by panic, however slow the subscribers
   are and whoever leaves in between. *)
PublishReturns ==
    \A g \in Publishers : pc[g] = "sending" ~> pc[g] # "sending"

(* What c is still to receive: nothing once it is closed. *)
Outstanding(c) == IF c \in closed THEN {} ELSE (Held(c) \ got[c]) \cup Owed(c)

(* The hub implements a topic to which a publication is one step. *)
Topic == INSTANCE LatchedTopic WITH
            member <- home,
            gone   <- closed,
            latch  <- last,
            count  <- published,
            owed   <- [c \in Chans |-> Outstanding(c)],
            seen   <- got

ImplementsTopic == Topic!Spec
============================================================================
