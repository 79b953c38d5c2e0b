--------------------------- MODULE CheetahProofs ---------------------------
(* Theorems about the hub of golang/cheetha, for any number of keys,       *)
(* channels, publishers and parcels.                                       *)
EXTENDS Cheetah, TLAPS

(* The registry and the closed channels agree with who subscribed to what. *)
Registry ==
    /\ \A k \in Keys : \A c \in subscribers[k] : home[c] = k /\ c \notin closed
    /\ \A c \in closed : home[c] # None
    /\ \A c \in Chans : home[c] # None /\ c \notin closed => c \in subscribers[home[c]]

(* Nobody knows a channel that was not made yet. *)
Fresh ==
    \A c \in Chans : home[c] = None =>
        /\ slot[c] = NoParcel
        /\ got[c] = {}
        /\ replayed[c] = NoParcel
        /\ \A g \in Publishers : c \notin pending[g]

(* A goroutine in the loop of Publish is sending its own, already numbered
   parcel to channels that were subscribed to its key before. *)
Senders ==
    \A g \in Publishers :
        /\ pending[g] = {} <=> pc[g] # "sending"
        /\ pc[g] = "sending" => target[g] \in pending[g]
        /\ parcel[g] <= published
        /\ parcel[g] # NoParcel => author[parcel[g]] = g
        /\ pc[g] # "idle" => parcel[g] # NoParcel
        /\ \A c \in pending[g] :
              /\ home[c] # None
              /\ parcel[g] > born[c]
              /\ topic[parcel[g]] = home[c]

(* Every number in use is the number of a publication. *)
Numbers ==
    /\ \A k \in Keys : last[k] <= published
    /\ \A c \in Chans :
          /\ slot[c] <= published
          /\ \A n \in got[c] : n <= published
          /\ born[c] <= published
          /\ replayed[c] <= born[c]

(* AtMostOnce and NothingOlder, channel by channel. *)
Once ==
    \A c \in Chans :
        /\ slot[c] \notin got[c]
        /\ \A g \in Publishers : c \in pending[g] =>
              slot[c] # parcel[g] /\ parcel[g] \notin got[c]

Newer ==
    \A c \in Chans :
        /\ slot[c] # NoParcel =>
              (slot[c] = replayed[c] \/ slot[c] > born[c]) /\ topic[slot[c]] = home[c]
        /\ \A n \in got[c] : (n = replayed[c] \/ n > born[c]) /\ topic[n] = home[c]

(* What a goroutine published last is the last of all it published, and a
   replay was the last of its key when it was handed out. *)
Latest ==
    /\ \A g \in Publishers : \A n \in 1..published : author[n] = g => n <= parcel[g]
    /\ \A c \in Chans : replayed[c] # NoParcel =>
          \A n \in 1..published : replayed[c] < n /\ n <= born[c] => topic[n] # home[c]

Shape == TypeOK /\ Registry /\ Fresh /\ Senders /\ Numbers
IInv == Shape /\ Once /\ Newer /\ ReplayedOnce /\ NothingLost /\ Latest

USE CheetahAssumption DEF NoParcel, Parcels

(* What the loop of Publish does to its goroutine. *)
LEMMA AdvanceTypes ==
    ASSUME NEW g \in Publishers, NEW rest \in SUBSET Chans, Advance(g, rest),
           pending \in [Publishers -> SUBSET Chans],
           pc \in [Publishers -> {"idle", "sending", "panicked"}],
           target \in [Publishers -> Chans \cup {None}]
    PROVE  /\ pending' \in [Publishers -> SUBSET Chans]
           /\ pc' \in [Publishers -> {"idle", "sending", "panicked"}]
           /\ target' \in [Publishers -> Chans \cup {None}]
<1>1. CASE rest = {}
    BY <1>1 DEF Advance
<1>2. ASSUME NEW c \in rest, pc' = [pc EXCEPT ![g] = "sending"], target' = [target EXCEPT ![g] = c]
      PROVE  /\ pc' \in [Publishers -> {"idle", "sending", "panicked"}]
             /\ target' \in [Publishers -> Chans \cup {None}]
    BY <1>2
<1> QED BY <1>1, <1>2 DEF Advance

(* Types are preserved by every operation of the hub. *)
LEMMA TypeStep == TypeOK /\ [Next]_vars => TypeOK'
<1> SUFFICES ASSUME TypeOK, [Next]_vars PROVE TypeOK'
    OBVIOUS
<1>1. ASSUME NEW c \in Chans, NEW k \in Keys, Subscribe(c, k) PROVE TypeOK'
    BY <1>1 DEF TypeOK, Subscribe
<1>2. ASSUME NEW g \in Publishers, NEW k \in Keys, Publish(g, k) PROVE TypeOK'
    <2>1. published + 1 \in Parcels /\ published' \in 0..MaxParcels
        BY <1>2 DEF TypeOK, Publish
    <2>2. /\ topic' \in [Parcels -> Keys \cup {None}]
          /\ author' \in [Parcels -> Publishers \cup {None}]
          /\ last' \in [Keys -> Parcels \cup {NoParcel}]
          /\ parcel' \in [Publishers -> Parcels \cup {NoParcel}]
        BY <1>2, <2>1 DEF TypeOK, Publish
    <2>3. /\ pending' \in [Publishers -> SUBSET Chans]
          /\ pc' \in [Publishers -> {"idle", "sending", "panicked"}]
          /\ target' \in [Publishers -> Chans \cup {None}]
        <3>1. subscribers[k] \in SUBSET Chans /\ Advance(g, subscribers[k])
            BY <1>2 DEF TypeOK, Publish
        <3> QED BY <3>1, AdvanceTypes DEF TypeOK
    <2>4. UNCHANGED <<subscribers, slot, closed, home, born, replayed, got>>
        BY <1>2 DEF Publish
    <2> QED BY <2>1, <2>2, <2>3, <2>4 DEF TypeOK
<1>3. ASSUME NEW g \in Publishers, Send(g) PROVE TypeOK'
    <2>1. slot' \in [Chans -> Parcels \cup {NoParcel}]
        BY <1>3 DEF TypeOK, Send
    <2>2. /\ pending' \in [Publishers -> SUBSET Chans]
          /\ pc' \in [Publishers -> {"idle", "sending", "panicked"}]
          /\ target' \in [Publishers -> Chans \cup {None}]
        <3>1. /\ pending[g] \ {target[g]} \in SUBSET Chans
              /\ Advance(g, pending[g] \ {target[g]})
            BY <1>3 DEF TypeOK, Send
        <3> QED BY <3>1, AdvanceTypes DEF TypeOK
    <2>3. UNCHANGED <<subscribers, last, closed, parcel, history>>
        BY <1>3 DEF Send
    <2> QED BY <2>1, <2>2, <2>3 DEF TypeOK, history
<1>4. ASSUME NEW g \in Publishers, Panic(g) PROVE TypeOK'
    BY <1>4 DEF TypeOK, Panic, history
<1>5. ASSUME NEW c \in Chans, Receive(c) PROVE TypeOK'
    BY <1>5 DEF TypeOK, Receive
<1>6. ASSUME NEW c \in Chans, Unsubscribe(c) PROVE TypeOK'
    BY <1>6 DEF TypeOK, Unsubscribe, history
<1>7. ASSUME NEW k \in Keys, Evict(k) PROVE TypeOK'
    BY <1>7 DEF TypeOK, Evict, history
<1>8. CASE UNCHANGED vars
    BY <1>8 DEF TypeOK, vars, hub, history
<1> QED BY <1>1, <1>2, <1>3, <1>4, <1>5, <1>6, <1>7, <1>8 DEF Next

(* The state of the hub always has the types declared for it. *)
THEOREM TypeCorrect == Spec => []TypeOK
<1>1. Init => TypeOK
    BY DEF Init, TypeOK
<1> QED BY <1>1, TypeStep, PTL DEF Spec

(* The same by value: what the loop of Publish changes, and for whom. *)
LEMMA AdvanceEffect ==
    ASSUME TypeOK, NEW g \in Publishers, NEW rest \in SUBSET Chans, Advance(g, rest)
    PROVE  /\ pending'[g] = rest
           /\ pc'[g] # "panicked"
           /\ rest = {} <=> pc'[g] # "sending"
           /\ rest # {} => target'[g] \in rest
           /\ \A h \in Publishers \ {g} :
                 pending'[h] = pending[h] /\ pc'[h] = pc[h] /\ target'[h] = target[h]
<1> USE DEF TypeOK
<1>1. CASE rest = {}
    BY <1>1 DEF Advance
<1>2. CASE rest # {}
    <2>1. PICK c \in rest : pc' = [pc EXCEPT ![g] = "sending"] /\ target' = [target EXCEPT ![g] = c]
        BY <1>2 DEF Advance
    <2> QED BY <1>2, <2>1 DEF Advance
<1> QED BY <1>1, <1>2

(* The registry stays in agreement with the subscriptions. *)
LEMMA RegistryStep == TypeOK /\ Registry /\ [Next]_vars => Registry'
<1> SUFFICES ASSUME TypeOK, Registry, [Next]_vars PROVE Registry'
    OBVIOUS
<1> USE DEF TypeOK, Registry
<1>1. ASSUME NEW c \in Chans, NEW k \in Keys, Subscribe(c, k) PROVE Registry'
    BY <1>1 DEF Subscribe
<1>2. ASSUME NEW g \in Publishers, NEW k \in Keys, Publish(g, k) PROVE Registry'
    BY <1>2 DEF Publish
<1>3. ASSUME NEW g \in Publishers, Send(g) PROVE Registry'
    BY <1>3 DEF Send, history
<1>4. ASSUME NEW g \in Publishers, Panic(g) PROVE Registry'
    BY <1>4 DEF Panic, history
<1>5. ASSUME NEW c \in Chans, Receive(c) PROVE Registry'
    BY <1>5 DEF Receive
<1>6. ASSUME NEW c \in Chans, Unsubscribe(c) PROVE Registry'
    BY <1>6 DEF Unsubscribe, Subscribed, history
<1>7. ASSUME NEW k \in Keys, Evict(k) PROVE Registry'
    BY <1>7 DEF Evict, history
<1>8. CASE UNCHANGED vars
    BY <1>8 DEF vars, hub, history
<1> QED BY <1>1, <1>2, <1>3, <1>4, <1>5, <1>6, <1>7, <1>8 DEF Next

(* No operation touches a channel before Subscribe makes it. *)
LEMMA FreshStep == TypeOK /\ Registry /\ Fresh /\ Senders /\ [Next]_vars => Fresh'
<1> SUFFICES ASSUME TypeOK, Registry, Fresh, Senders, [Next]_vars,
                    NEW d \in Chans, home'[d] = None
             PROVE  /\ slot'[d] = NoParcel
                    /\ got'[d] = {}
                    /\ replayed'[d] = NoParcel
                    /\ \A h \in Publishers : d \notin pending'[h]
    BY DEF Fresh
<1> DEFINE Goal == /\ slot'[d] = NoParcel
                   /\ got'[d] = {}
                   /\ replayed'[d] = NoParcel
                   /\ \A h \in Publishers : d \notin pending'[h]
<1>1. ASSUME NEW c \in Chans, NEW k \in Keys, Subscribe(c, k) PROVE Goal
    BY <1>1 DEF Subscribe, TypeOK, Fresh
<1>2. ASSUME NEW g \in Publishers, NEW k \in Keys, Publish(g, k) PROVE Goal
    <2>1. subscribers[k] \in SUBSET Chans /\ d \notin subscribers[k]
        BY <1>2 DEF Publish, TypeOK, Registry
    <2>2. \A h \in Publishers : pending'[h] = IF h = g THEN subscribers[k] ELSE pending[h]
        BY <1>2, <2>1, AdvanceEffect DEF Publish
    <2>3. UNCHANGED <<slot, home, replayed, got>>
        BY <1>2 DEF Publish
    <2> QED BY <2>1, <2>2, <2>3 DEF Fresh
<1>3. ASSUME NEW g \in Publishers, Send(g) PROVE Goal
    <2>1. /\ pending[g] \ {target[g]} \in SUBSET Chans
          /\ target[g] \in Chans
          /\ d # target[g]
        BY <1>3 DEF Send, TypeOK, Fresh, Senders, history
    <2>2. \A h \in Publishers :
              pending'[h] = IF h = g THEN pending[g] \ {target[g]} ELSE pending[h]
        BY <1>3, <2>1, AdvanceEffect DEF Send
    <2>3. slot'[d] = slot[d] /\ UNCHANGED <<home, replayed, got>>
        BY <1>3, <2>1 DEF Send, TypeOK, history
    <2> QED BY <2>1, <2>2, <2>3 DEF Fresh
<1>4. ASSUME NEW g \in Publishers, Panic(g) PROVE Goal
    BY <1>4 DEF Panic, TypeOK, Fresh, history
<1>5. ASSUME NEW c \in Chans, Receive(c) PROVE Goal
    BY <1>5 DEF Receive, Subscribed, TypeOK, Fresh
<1>6. ASSUME NEW c \in Chans, Unsubscribe(c) PROVE Goal
    BY <1>6 DEF Unsubscribe, TypeOK, Fresh, history
<1>7. ASSUME NEW k \in Keys, Evict(k) PROVE Goal
    BY <1>7 DEF Evict, Fresh, history
<1>8. CASE UNCHANGED vars
    BY <1>8 DEF vars, hub, history, Fresh
<1> QED BY <1>1, <1>2, <1>3, <1>4, <1>5, <1>6, <1>7, <1>8 DEF Next

(* The senders' part of the invariant.  A send cannot disturb it because what is
   left of the snapshot is a part of it; a publication starts with channels
   that are subscribed to its key and a number larger than any before. *)
LEMMA SendersStep ==
    TypeOK /\ Registry /\ Fresh /\ Senders /\ Numbers /\ [Next]_vars => Senders'
<1> SUFFICES ASSUME TypeOK, Registry, Fresh, Senders, Numbers, [Next]_vars,
                    NEW h \in Publishers
             PROVE  /\ pending'[h] = {} <=> pc'[h] # "sending"
                    /\ pc'[h] = "sending" => target'[h] \in pending'[h]
                    /\ parcel'[h] <= published'
                    /\ parcel'[h] # NoParcel => author'[parcel'[h]] = h
                    /\ pc'[h] # "idle" => parcel'[h] # NoParcel
                    /\ \A d \in pending'[h] :
                          /\ home'[d] # None
                          /\ parcel'[h] > born'[d]
                          /\ topic'[parcel'[h]] = home'[d]
    BY DEF Senders
<1> DEFINE Loop == /\ pending'[h] = {} <=> pc'[h] # "sending"
                   /\ pc'[h] = "sending" => target'[h] \in pending'[h]
           Own  == /\ parcel'[h] <= published'
                   /\ parcel'[h] # NoParcel => author'[parcel'[h]] = h
                   /\ pc'[h] # "idle" => parcel'[h] # NoParcel
           Dest == \A d \in pending'[h] :
                       /\ home'[d] # None
                       /\ parcel'[h] > born'[d]
                       /\ topic'[parcel'[h]] = home'[d]
<1>1. ASSUME NEW c \in Chans, NEW k \in Keys, Subscribe(c, k) PROVE Loop /\ Own /\ Dest
    <2>1. UNCHANGED <<pc, parcel, pending, target, published, topic, author>>
        BY <1>1 DEF Subscribe
    <2>2. \A d \in pending[h] : home'[d] = home[d] /\ born'[d] = born[d]
        BY <1>1 DEF Subscribe, TypeOK, Fresh
    <2> QED BY <2>1, <2>2 DEF Senders
<1>2. ASSUME NEW g \in Publishers, NEW k \in Keys, Publish(g, k) PROVE Loop /\ Own /\ Dest
    <2>1. subscribers[k] \in SUBSET Chans /\ Advance(g, subscribers[k])
        BY <1>2 DEF Publish, TypeOK
    <2>2. published + 1 \in Parcels /\ published \in Nat
        BY <1>2 DEF Publish, TypeOK
    <2>3. /\ UNCHANGED <<home, born>>
          /\ published' = published + 1
          /\ topic'[published + 1] = k
          /\ author'[published + 1] = g
          /\ \A n \in Parcels \ {published + 1} : topic'[n] = topic[n] /\ author'[n] = author[n]
          /\ parcel'[g] = published + 1
          /\ \A i \in Publishers \ {g} : parcel'[i] = parcel[i]
        BY <1>2, <2>2 DEF Publish, TypeOK
    <2>4. CASE h = g
        <3>1. Loop
            BY <2>1, <2>4, AdvanceEffect
        <3>2. Own
            BY <2>2, <2>3, <2>4
        <3>3. \A d \in subscribers[k] : home[d] = k /\ k # None /\ born[d] \in 0..published
            BY <2>1 DEF Registry, Numbers, TypeOK
        <3>4. pending'[h] = subscribers[k]
            BY <2>1, <2>4, AdvanceEffect
        <3>5. Dest
            BY <2>2, <2>3, <2>4, <3>3, <3>4
        <3> QED BY <3>1, <3>2, <3>5
    <2>5. CASE h # g
        <3>1. pending'[h] = pending[h] /\ pc'[h] = pc[h] /\ target'[h] = target[h]
            BY <2>1, <2>5, AdvanceEffect
        <3>2. parcel'[h] = parcel[h] /\ parcel[h] \in Parcels \cup {NoParcel} /\ parcel[h] <= published
            BY <2>3, <2>5 DEF Senders, TypeOK
        <3>3. parcel[h] # NoParcel => topic'[parcel[h]] = topic[parcel[h]] /\ author'[parcel[h]] = author[parcel[h]]
            BY <2>2, <2>3, <3>2
        <3>4. Loop /\ Own
            BY <2>2, <2>3, <3>1, <3>2, <3>3 DEF Senders
        <3>5. pending[h] # {} => parcel[h] # NoParcel
            BY DEF Senders
        <3>6. Dest
            BY <2>3, <3>1, <3>2, <3>3, <3>5 DEF Senders
        <3> QED BY <3>4, <3>6
    <2> QED BY <2>4, <2>5
<1>3. ASSUME NEW g \in Publishers, Send(g) PROVE Loop /\ Own /\ Dest
    <2>1. /\ pending[g] \ {target[g]} \in SUBSET Chans
          /\ Advance(g, pending[g] \ {target[g]})
          /\ pc[g] = "sending"
        BY <1>3 DEF Send, TypeOK
    <2>2. UNCHANGED <<parcel, published, topic, author, home, born>>
        BY <1>3 DEF Send, history
    <2>3. CASE h = g
        BY <2>1, <2>2, <2>3, AdvanceEffect DEF Senders
    <2>4. CASE h # g
        BY <2>1, <2>2, <2>4, AdvanceEffect DEF Senders
    <2> QED BY <2>3, <2>4
<1>4. ASSUME NEW g \in Publishers, Panic(g) PROVE Loop /\ Own /\ Dest
    BY <1>4 DEF Panic, TypeOK, Senders, history
<1>5. ASSUME NEW c \in Chans, Receive(c) PROVE Loop /\ Own /\ Dest
    BY <1>5 DEF Receive, Senders
<1>6. ASSUME NEW c \in Chans, Unsubscribe(c) PROVE Loop /\ Own /\ Dest
    BY <1>6 DEF Unsubscribe, Senders, history
<1>7. ASSUME NEW k \in Keys, Evict(k) PROVE Loop /\ Own /\ Dest
    BY <1>7 DEF Evict, Senders, history
<1>8. CASE UNCHANGED vars
    BY <1>8 DEF vars, hub, history, Senders
<1> QED BY <1>1, <1>2, <1>3, <1>4, <1>5, <1>6, <1>7, <1>8 DEF Next

(* What Publish does, by value, for the lemmas below. *)
LEMMA PublishEffect ==
    ASSUME TypeOK, NEW g \in Publishers, NEW k \in Keys, Publish(g, k)
    PROVE  /\ published + 1 \in Parcels
           /\ published \in Nat
           /\ published' = published + 1
           /\ topic'[published + 1] = k
           /\ \A n \in 1..published : topic'[n] = topic[n]
           /\ \A n \in 1..published : author'[n] = author[n]
           /\ last'[k] = published + 1
           /\ \A j \in Keys \ {k} : last'[j] = last[j]
           /\ parcel'[g] = published + 1
           /\ pending'[g] = subscribers[k]
           /\ pc[g] = "idle"
           /\ pc'[g] # "panicked"
           /\ \A i \in Publishers \ {g} :
                 parcel'[i] = parcel[i] /\ pending'[i] = pending[i] /\ pc'[i] = pc[i]
           /\ UNCHANGED <<subscribers, slot, closed, home, born, replayed, got>>
<1>1. published + 1 \in Parcels /\ published \in Nat
    BY DEF Publish, TypeOK
<1>2. subscribers[k] \in SUBSET Chans /\ Advance(g, subscribers[k])
    BY DEF Publish, TypeOK
<1>3. /\ pending'[g] = subscribers[k]
      /\ pc'[g] # "panicked"
      /\ \A i \in Publishers \ {g} : pending'[i] = pending[i] /\ pc'[i] = pc[i]
    BY <1>2, AdvanceEffect
<1>4. \A n \in 1..published : n \in Parcels /\ n # published + 1
    BY <1>1
<1>5. /\ topic'[published + 1] = k
      /\ \A n \in 1..published : topic'[n] = topic[n] /\ author'[n] = author[n]
    BY <1>1, <1>4 DEF Publish, TypeOK
<1>6. /\ last'[k] = published + 1
      /\ \A j \in Keys \ {k} : last'[j] = last[j]
      /\ parcel'[g] = published + 1
      /\ \A i \in Publishers \ {g} : parcel'[i] = parcel[i]
    BY DEF Publish, TypeOK
<1>7. /\ published' = published + 1
      /\ pc[g] = "idle"
      /\ UNCHANGED <<subscribers, slot, closed, home, born, replayed, got>>
    BY DEF Publish
<1> QED BY <1>1, <1>3, <1>5, <1>6, <1>7

(* What a send does: one channel less to serve, and its slot filled. *)
LEMMA SendEffect ==
    ASSUME TypeOK, Senders, NEW g \in Publishers, Send(g)
    PROVE  /\ target[g] \in pending[g]
           /\ target[g] \in Chans
           /\ target[g] \notin closed
           /\ slot[target[g]] = NoParcel
           /\ slot'[target[g]] = parcel[g]
           /\ \A c \in Chans \ {target[g]} : slot'[c] = slot[c]
           /\ pending'[g] = pending[g] \ {target[g]}
           /\ pc[g] = "sending"
           /\ pc'[g] # "panicked"
           /\ \A i \in Publishers \ {g} : pending'[i] = pending[i] /\ pc'[i] = pc[i]
           /\ UNCHANGED <<subscribers, last, closed, parcel, published, topic,
                          author, home, born, replayed, got>>
<1>1. target[g] \in pending[g] /\ target[g] \in Chans /\ pc[g] = "sending"
    BY DEF Send, Senders, TypeOK
<1>2. /\ pending[g] \ {target[g]} \in SUBSET Chans
      /\ Advance(g, pending[g] \ {target[g]})
    BY DEF Send, TypeOK
<1>3. /\ pending'[g] = pending[g] \ {target[g]}
      /\ pc'[g] # "panicked"
      /\ \A i \in Publishers \ {g} : pending'[i] = pending[i] /\ pc'[i] = pc[i]
    BY <1>2, AdvanceEffect
<1>4. /\ slot[target[g]] = NoParcel
      /\ slot'[target[g]] = parcel[g]
      /\ \A c \in Chans \ {target[g]} : slot'[c] = slot[c]
      /\ target[g] \notin closed
    BY <1>1 DEF Send, TypeOK
<1> QED BY <1>1, <1>3, <1>4 DEF Send, history

(* Numbers only grow. *)
LEMMA NumbersStep == TypeOK /\ Senders /\ Numbers /\ [Next]_vars => Numbers'
<1> SUFFICES ASSUME TypeOK, Senders, Numbers, [Next]_vars PROVE Numbers'
    OBVIOUS
<1>0. /\ published \in Nat
      /\ \A k \in Keys : last[k] \in Nat
      /\ \A c \in Chans : /\ slot[c] \in Nat /\ born[c] \in Nat /\ replayed[c] \in Nat
                           /\ \A n \in got[c] : n \in Nat
    BY DEF TypeOK
<1>1. ASSUME NEW c \in Chans, NEW k \in Keys, Subscribe(c, k) PROVE Numbers'
    BY <1>0, <1>1 DEF Subscribe, TypeOK, Numbers
<1>2. ASSUME NEW g \in Publishers, NEW k \in Keys, Publish(g, k) PROVE Numbers'
    BY <1>0, <1>2, PublishEffect DEF Numbers
<1>3. ASSUME NEW g \in Publishers, Send(g) PROVE Numbers'
    BY <1>0, <1>3, SendEffect DEF Senders, Numbers
<1>4. ASSUME NEW g \in Publishers, Panic(g) PROVE Numbers'
    BY <1>4 DEF Panic, Numbers, history
<1>5. ASSUME NEW c \in Chans, Receive(c) PROVE Numbers'
    BY <1>0, <1>5 DEF Receive, TypeOK, Numbers
<1>6. ASSUME NEW c \in Chans, Unsubscribe(c) PROVE Numbers'
    BY <1>6 DEF Unsubscribe, Numbers, history
<1>7. ASSUME NEW k \in Keys, Evict(k) PROVE Numbers'
    BY <1>0, <1>7 DEF Evict, TypeOK, Numbers, history
<1>8. CASE UNCHANGED vars
    BY <1>8 DEF vars, hub, history, Numbers
<1> QED BY <1>1, <1>2, <1>3, <1>4, <1>5, <1>6, <1>7, <1>8 DEF Next

(* Two goroutines never send the same parcel, and none of them sends nothing. *)
LEMMA DistinctParcels ==
    ASSUME TypeOK, Senders, NEW g \in Publishers, pending[g] # {}
    PROVE  /\ parcel[g] \in Parcels
           /\ \A h \in Publishers \ {g} : parcel[h] # parcel[g]
<1>1. pc[g] = "sending" /\ parcel[g] # NoParcel
    BY DEF Senders
<1>2. \A h \in Publishers : parcel[h] = parcel[g] => author[parcel[g]] = h
    BY <1>1 DEF Senders
<1> QED BY <1>1, <1>2 DEF TypeOK, Senders

(* No channel is given a parcel twice: the step. *)
LEMMA OnceStep == Shape /\ Once /\ [Next]_vars => Once'
<1> SUFFICES ASSUME Shape, Once, [Next]_vars,
                    NEW d \in Chans
             PROVE  /\ slot'[d] \notin got'[d]
                    /\ \A h \in Publishers : d \in pending'[h] =>
                          slot'[d] # parcel'[h] /\ parcel'[h] \notin got'[d]
    BY DEF Once
<1> DEFINE Goal == /\ slot'[d] \notin got'[d]
                   /\ \A h \in Publishers : d \in pending'[h] =>
                         slot'[d] # parcel'[h] /\ parcel'[h] \notin got'[d]
<1> USE DEF Shape
<1>1. ASSUME NEW c \in Chans, NEW k \in Keys, Subscribe(c, k) PROVE Goal
    <2>1. UNCHANGED <<got, pending, parcel>>
        BY <1>1 DEF Subscribe
    <2>2. d # c => slot'[d] = slot[d]
        BY <1>1 DEF Subscribe, TypeOK
    <2>3. got[c] = {} /\ \A h \in Publishers : c \notin pending[h]
        BY <1>1 DEF Subscribe, Fresh
    <2> QED BY <2>1, <2>2, <2>3 DEF Once
<1>2. ASSUME NEW g \in Publishers, NEW k \in Keys, Publish(g, k) PROVE Goal
    <2>1. slot[d] <= published /\ slot[d] \in Nat /\ \A n \in got[d] : n <= published /\ n \in Nat
        BY DEF Numbers, TypeOK
    <2>2. slot[d] # published + 1 /\ published + 1 \notin got[d]
        BY <1>2, <2>1, PublishEffect
    <2> QED BY <1>2, <2>2, PublishEffect DEF Once
<1>3. ASSUME NEW g \in Publishers, Send(g) PROVE Goal
    <2>1. CASE d = target[g]
        <3>1. d \in pending[g] /\ slot'[d] = parcel[g] /\ got'[d] = got[d] /\ parcel' = parcel
            BY <1>3, <2>1, SendEffect
        <3>2. \A h \in Publishers : d \in pending'[h] => h # g /\ d \in pending[h]
            BY <1>3, <2>1, SendEffect
        <3>3. \A h \in Publishers \ {g} : parcel[h] # parcel[g]
            BY <3>1, DistinctParcels
        <3> QED BY <3>1, <3>2, <3>3 DEF Once
    <2>2. CASE d # target[g]
        <3>1. slot'[d] = slot[d] /\ got'[d] = got[d] /\ parcel' = parcel
            BY <1>3, <2>2, SendEffect
        <3>2. \A h \in Publishers : d \in pending'[h] => d \in pending[h]
            BY <1>3, <2>2, SendEffect
        <3> QED BY <3>1, <3>2 DEF Once
    <2> QED BY <2>1, <2>2
<1>4. ASSUME NEW g \in Publishers, Panic(g) PROVE Goal
    BY <1>4 DEF Panic, TypeOK, Once, history
<1>5. ASSUME NEW c \in Chans, Receive(c) PROVE Goal
    <2>1. UNCHANGED <<pending, parcel>>
        BY <1>5 DEF Receive
    <2>2. CASE d = c
        <3>1. slot'[d] = NoParcel /\ got'[d] = got[d] \cup {slot[d]} /\ slot[d] # NoParcel
            BY <1>5, <2>2 DEF Receive, TypeOK
        <3>2. NoParcel \notin got[d]
            BY DEF TypeOK
        <3>3. \A h \in Publishers : d \in pending[h] => parcel[h] \in Parcels
            BY DistinctParcels
        <3>4. \A h \in Publishers : d \in pending[h] => parcel[h] # NoParcel
            BY <3>3
        <3> QED BY <2>1, <3>1, <3>2, <3>4 DEF Once
    <2>3. CASE d # c
        BY <1>5, <2>1, <2>3 DEF Receive, TypeOK, Once
    <2> QED BY <2>2, <2>3
<1>6. ASSUME NEW c \in Chans, Unsubscribe(c) PROVE Goal
    BY <1>6 DEF Unsubscribe, Once, history
<1>7. ASSUME NEW k \in Keys, Evict(k) PROVE Goal
    BY <1>7 DEF Evict, Once, history
<1>8. CASE UNCHANGED vars
    BY <1>8 DEF vars, hub, history, Once
<1> QED BY <1>1, <1>2, <1>3, <1>4, <1>5, <1>6, <1>7, <1>8 DEF Next

(* Nothing older than the subscription but the replay: the step. *)
LEMMA NewerStep == Shape /\ ReplayedOnce /\ Newer /\ [Next]_vars => Newer'
<1> SUFFICES ASSUME Shape, ReplayedOnce, Newer, [Next]_vars,
                    NEW d \in Chans
             PROVE  /\ slot'[d] # NoParcel =>
                          /\ slot'[d] = replayed'[d] \/ slot'[d] > born'[d]
                          /\ topic'[slot'[d]] = home'[d]
                    /\ \A n \in got'[d] :
                          /\ n = replayed'[d] \/ n > born'[d]
                          /\ topic'[n] = home'[d]
    BY DEF Newer
<1> DEFINE Goal == /\ slot'[d] # NoParcel =>
                         /\ slot'[d] = replayed'[d] \/ slot'[d] > born'[d]
                         /\ topic'[slot'[d]] = home'[d]
                   /\ \A n \in got'[d] :
                         /\ n = replayed'[d] \/ n > born'[d]
                         /\ topic'[n] = home'[d]
<1> USE DEF Shape
<1>1. ASSUME NEW c \in Chans, NEW k \in Keys, Subscribe(c, k) PROVE Goal
    <2>1. UNCHANGED <<got, topic>>
        BY <1>1 DEF Subscribe
    <2>2. CASE d = c
        <3>1. slot'[d] = last[k] /\ replayed'[d] = last[k] /\ home'[d] = k /\ got[d] = {}
            BY <1>1, <2>2 DEF Subscribe, TypeOK, Fresh
        <3>2. last[k] # NoParcel => topic[last[k]] = k
            BY DEF ReplayedOnce
        <3> QED BY <2>1, <3>1, <3>2
    <2>3. CASE d # c
        BY <1>1, <2>1, <2>3 DEF Subscribe, TypeOK, Newer
    <2> QED BY <2>2, <2>3
<1>2. ASSUME NEW g \in Publishers, NEW k \in Keys, Publish(g, k) PROVE Goal
    <2>1. slot[d] # NoParcel => slot[d] \in 1..published
        BY DEF Numbers, TypeOK
    <2>2. \A n \in got[d] : n \in 1..published
        BY DEF Numbers, TypeOK
    <2> QED BY <1>2, <2>1, <2>2, PublishEffect DEF Newer
<1>3. ASSUME NEW g \in Publishers, Send(g) PROVE Goal
    <2>1. CASE d = target[g]
        BY <1>3, <2>1, SendEffect DEF Senders, Newer
    <2>2. CASE d # target[g]
        BY <1>3, <2>2, SendEffect DEF Newer
    <2> QED BY <2>1, <2>2
<1>4. ASSUME NEW g \in Publishers, Panic(g) PROVE Goal
    BY <1>4 DEF Panic, Newer, history
<1>5. ASSUME NEW c \in Chans, Receive(c) PROVE Goal
    BY <1>5 DEF Receive, TypeOK, Newer
<1>6. ASSUME NEW c \in Chans, Unsubscribe(c) PROVE Goal
    BY <1>6 DEF Unsubscribe, Newer, history
<1>7. ASSUME NEW k \in Keys, Evict(k) PROVE Goal
    BY <1>7 DEF Evict, Newer, history
<1>8. CASE UNCHANGED vars
    BY <1>8 DEF vars, hub, history, Newer
<1> QED BY <1>1, <1>2, <1>3, <1>4, <1>5, <1>6, <1>7, <1>8 DEF Next

(* One subscriber per replay, and never of a superseded parcel: the step. *)
LEMMA ReplayedStep == Shape /\ ReplayedOnce /\ [Next]_vars => ReplayedOnce'
<1> SUFFICES ASSUME Shape, ReplayedOnce, [Next]_vars PROVE ReplayedOnce'
    OBVIOUS
<1> USE DEF Shape
<1>0. /\ published \in Nat
      /\ \A j \in Keys : last[j] \in Nat /\ (last[j] # NoParcel => last[j] \in 1..published)
      /\ \A c \in Chans : replayed[c] \in Nat /\ replayed[c] <= published
    BY DEF TypeOK, Numbers
<1>1. ASSUME NEW c \in Chans, NEW k \in Keys, Subscribe(c, k) PROVE ReplayedOnce'
    <2>1. /\ last'[k] = NoParcel
          /\ replayed'[c] = last[k]
          /\ \A j \in Keys \ {k} : last'[j] = last[j]
          /\ \A d \in Chans \ {c} : replayed'[d] = replayed[d]
          /\ UNCHANGED <<published, topic>>
        BY <1>1 DEF Subscribe, TypeOK
    <2>2. \A j \in Keys \ {k} : last[j] # NoParcel => last[j] # last[k]
        BY DEF ReplayedOnce
    <2>3. \A j \in Keys : last'[j] # NoParcel => j # k /\ last'[j] = last[j]
        BY <2>1
    <2>4. ASSUME NEW j \in Keys, last'[j] # NoParcel
          PROVE  /\ topic'[last'[j]] = j
                 /\ \A n \in 1..published' : topic'[n] = j => n <= last'[j]
                 /\ \A d \in Chans : replayed'[d] # last'[j]
        BY <2>1, <2>2, <2>3, <2>4 DEF ReplayedOnce
    <2>5. ASSUME NEW d \in Chans, NEW e \in Chans, replayed'[d] = replayed'[e], replayed'[d] # NoParcel
          PROVE  d = e
        BY <2>1, <2>5 DEF ReplayedOnce
    <2> QED BY <2>4, <2>5 DEF ReplayedOnce
<1>2. ASSUME NEW g \in Publishers, NEW k \in Keys, Publish(g, k) PROVE ReplayedOnce'
    <2>1. \A n \in 1..published' : n = published + 1 \/ n \in 1..published
        BY <1>0, <1>2, PublishEffect
    <2>2. ASSUME NEW j \in Keys, last'[j] # NoParcel
          PROVE  /\ topic'[last'[j]] = j
                 /\ \A n \in 1..published' : topic'[n] = j => n <= last'[j]
                 /\ \A d \in Chans : replayed'[d] # last'[j]
        <3>1. CASE j = k
            BY <1>0, <1>2, <2>1, <3>1, PublishEffect
        <3>2. CASE j # k
            BY <1>0, <1>2, <2>1, <2>2, <3>2, PublishEffect DEF ReplayedOnce
        <3> QED BY <3>1, <3>2
    <2>3. replayed' = replayed
        BY <1>2 DEF Publish
    <2> QED BY <2>2, <2>3 DEF ReplayedOnce
<1>3. ASSUME NEW g \in Publishers, Send(g) PROVE ReplayedOnce'
    BY <1>3 DEF Send, ReplayedOnce, history
<1>4. ASSUME NEW g \in Publishers, Panic(g) PROVE ReplayedOnce'
    BY <1>4 DEF Panic, ReplayedOnce, history
<1>5. ASSUME NEW c \in Chans, Receive(c) PROVE ReplayedOnce'
    BY <1>5 DEF Receive, ReplayedOnce
<1>6. ASSUME NEW c \in Chans, Unsubscribe(c) PROVE ReplayedOnce'
    BY <1>6 DEF Unsubscribe, ReplayedOnce, history
<1>7. ASSUME NEW k \in Keys, Evict(k) PROVE ReplayedOnce'
    <2>1. /\ last'[k] = NoParcel
          /\ \A j \in Keys \ {k} : last'[j] = last[j]
          /\ UNCHANGED <<published, topic, replayed>>
        BY <1>7 DEF Evict, TypeOK, history
    <2> QED BY <2>1 DEF ReplayedOnce
<1>8. CASE UNCHANGED vars
    BY <1>8 DEF vars, hub, history, ReplayedOnce
<1> QED BY <1>1, <1>2, <1>3, <1>4, <1>5, <1>6, <1>7, <1>8 DEF Next

(* A parcel is owed to a channel by the goroutine that is sending it there. *)
LEMMA OwedBy ==
    ASSUME NEW c \in Chans, NEW n
    PROVE  n \in Owed(c) <=> \E g \in Publishers : c \in pending[g] /\ parcel[g] = n
BY DEF Owed

(* Nothing is lost but to a panic: the step. *)
LEMMA LostStep == Shape /\ NothingLost /\ [Next]_vars => NothingLost'
<1> SUFFICES ASSUME Shape, NothingLost, [Next]_vars,
                    NEW d \in Chans, Subscribed(d)',
                    NEW n \in 1..published', n > born'[d], topic'[n] = home'[d]
             PROVE  (n \in Held(d) \cup Owed(d) \/ Abandoned(n))'
    BY DEF NothingLost
<1> DEFINE Goal == (n \in Held(d) \cup Owed(d) \/ Abandoned(n))'
           Before == n \in Held(d) \cup Owed(d) \/ Abandoned(n)
<1> USE DEF Shape
<1>0. /\ published \in Nat
      /\ (n \in Owed(d))' <=> \E g \in Publishers : d \in pending'[g] /\ parcel'[g] = n
    BY DEF TypeOK, Owed
<1>1. ASSUME NEW c \in Chans, NEW k \in Keys, Subscribe(c, k) PROVE Goal
    <2>1. UNCHANGED <<got, pc, parcel, pending, published, topic, author>>
        BY <1>1 DEF Subscribe
    <2>2. d # c
        BY <1>1, <1>0, <2>1 DEF Subscribe, TypeOK
    <2>3. home'[d] = home[d] /\ born'[d] = born[d] /\ slot'[d] = slot[d] /\ Subscribed(d)
        BY <1>1, <2>2 DEF Subscribe, Subscribed, TypeOK
    <2>4. Before
        BY <2>1, <2>3 DEF NothingLost
    <2> QED BY <2>1, <2>3, <2>4 DEF Held, Owed, Abandoned
<1>2. ASSUME NEW g \in Publishers, NEW k \in Keys, Publish(g, k) PROVE Goal
    <2>1. Subscribed(d)
        BY <1>2, PublishEffect DEF Subscribed
    <2>2. CASE n = published + 1
        <3>1. home[d] = k /\ d \in subscribers[k]
            BY <1>2, <2>1, <2>2, PublishEffect DEF Subscribed
        <3>2. (n \in Owed(d))'
            BY <1>0, <1>2, <2>2, <3>1, PublishEffect
        <3> QED BY <3>2
    <2>3. CASE n # published + 1
        <3>1. n \in 1..published
            BY <1>0, <1>2, <2>3, PublishEffect
        <3>2. Before
            BY <1>2, <2>1, <3>1, PublishEffect DEF NothingLost
        <3>3. CASE n \in Held(d)
            BY <1>2, <3>3, PublishEffect DEF Held
        <3>4. CASE n \in Owed(d)
            <4>1. PICK h \in Publishers : d \in pending[h] /\ parcel[h] = n
                BY <3>4, OwedBy
            <4>2. h # g
                BY <1>2, <4>1, PublishEffect DEF Senders
            <4> QED BY <1>0, <1>2, <4>1, <4>2, PublishEffect
        <3>5. CASE Abandoned(n)
            <4>1. PICK h \in Publishers : pc[h] = "panicked" /\ parcel[h] = n /\ author[n] = h
                BY <3>5 DEF Abandoned
            <4>2. h # g
                BY <1>2, <4>1, PublishEffect
            <4>3. pc'[h] = "panicked" /\ parcel'[h] = n /\ author'[n] = h
                BY <1>2, <3>1, <4>1, <4>2, PublishEffect
            <4> QED BY <4>3 DEF Abandoned
        <3> QED BY <3>2, <3>3, <3>4, <3>5
    <2> QED BY <2>2, <2>3
<1>3. ASSUME NEW g \in Publishers, Send(g) PROVE Goal
    <2>1. Before
        BY <1>3, SendEffect DEF NothingLost, Subscribed
    <2>2. CASE n \in Held(d)
        BY <1>3, <2>2, SendEffect DEF Held
    <2>3. CASE n \in Owed(d)
        <3>1. PICK h \in Publishers : d \in pending[h] /\ parcel[h] = n
            BY <2>3, OwedBy
        <3>2. CASE h = g /\ d = target[g]
            <4>1. slot'[d] = n /\ n # NoParcel
                BY <1>3, <3>1, <3>2, SendEffect, DistinctParcels
            <4> QED BY <4>1 DEF Held
        <3>3. CASE ~(h = g /\ d = target[g])
            <4>1. d \in pending'[h] /\ parcel'[h] = n
                BY <1>3, <3>1, <3>3, SendEffect
            <4> QED BY <1>0, <4>1
        <3> QED BY <3>2, <3>3
    <2>4. CASE Abandoned(n)
        <3>1. PICK h \in Publishers : pc[h] = "panicked" /\ parcel[h] = n /\ author[n] = h
            BY <2>4 DEF Abandoned
        <3>2. pc'[h] = "panicked" /\ parcel'[h] = n /\ author'[n] = h
            BY <1>3, <3>1, SendEffect
        <3> QED BY <3>2 DEF Abandoned
    <2> QED BY <2>1, <2>2, <2>3, <2>4
<1>4. ASSUME NEW g \in Publishers, Panic(g) PROVE Goal
    <2>1. /\ UNCHANGED <<subscribers, slot, parcel, published, topic, author, home, born, got>>
          /\ pc[g] = "sending" /\ pc'[g] = "panicked"
          /\ \A h \in Publishers \ {g} : pc'[h] = pc[h] /\ pending'[h] = pending[h]
        BY <1>4 DEF Panic, TypeOK, history
    <2>2. Before
        BY <2>1 DEF NothingLost, Subscribed
    <2>3. CASE n \in Held(d)
        BY <2>1, <2>3 DEF Held
    <2>4. CASE n \in Owed(d)
        <3>1. PICK h \in Publishers : d \in pending[h] /\ parcel[h] = n
            BY <2>4, OwedBy
        <3>2. CASE h = g
            BY <2>1, <3>1, <3>2, DistinctParcels DEF Senders, Abandoned
        <3>3. CASE h # g
            BY <1>0, <2>1, <3>1, <3>3
        <3> QED BY <3>2, <3>3
    <2>5. CASE Abandoned(n)
        BY <2>1, <2>5 DEF Abandoned
    <2> QED BY <2>2, <2>3, <2>4, <2>5
<1>5. ASSUME NEW c \in Chans, Receive(c) PROVE Goal
    <2>1. UNCHANGED <<subscribers, pc, pending, parcel, published, topic, author, home, born>>
        BY <1>5 DEF Receive
    <2>2. Before
        BY <2>1 DEF NothingLost, Subscribed
    <2>3. Held(d) \subseteq Held(d)'
        BY <1>5 DEF Receive, TypeOK, Held
    <2> QED BY <2>1, <2>2, <2>3 DEF Owed, Abandoned
<1>6. ASSUME NEW c \in Chans, Unsubscribe(c) PROVE Goal
    <2>1. UNCHANGED <<slot, got, pc, pending, parcel, published, topic, author, home, born>>
        BY <1>6 DEF Unsubscribe, history
    <2>2. Subscribed(d)
        BY <1>6, <2>1 DEF Unsubscribe, Subscribed, TypeOK
    <2>3. Before
        BY <2>1, <2>2 DEF NothingLost
    <2> QED BY <2>1, <2>3 DEF Held, Owed, Abandoned
<1>7. ASSUME NEW k \in Keys, Evict(k) PROVE Goal
    BY <1>7 DEF Evict, NothingLost, Subscribed, Held, Owed, Abandoned, history
<1>8. CASE UNCHANGED vars
    BY <1>8 DEF vars, hub, history, NothingLost, Subscribed, Held, Owed, Abandoned
<1> QED BY <1>1, <1>2, <1>3, <1>4, <1>5, <1>6, <1>7, <1>8 DEF Next

(* The order of what one goroutine publishes, and of a replay: the step. *)
LEMMA LatestStep == Shape /\ ReplayedOnce /\ Latest /\ [Next]_vars => Latest'
<1> SUFFICES ASSUME Shape, ReplayedOnce, Latest, [Next]_vars PROVE Latest'
    OBVIOUS
<1> USE DEF Shape
<1>0. /\ published \in Nat
      /\ \A g \in Publishers : parcel[g] \in Nat
      /\ \A c \in Chans : born[c] \in Nat /\ replayed[c] \in Nat
    <2>1. /\ published \in 0..MaxParcels
          /\ parcel \in [Publishers -> Parcels \cup {NoParcel}]
          /\ born \in [Chans -> 0..MaxParcels]
          /\ replayed \in [Chans -> Parcels \cup {NoParcel}]
        BY DEF TypeOK
    <2> QED BY <2>1
<1>1. ASSUME NEW c \in Chans, NEW k \in Keys, Subscribe(c, k) PROVE Latest'
    <2>1. /\ replayed'[c] = last[k] /\ born'[c] = published /\ home'[c] = k
          /\ \A d \in Chans \ {c} : replayed'[d] = replayed[d] /\ born'[d] = born[d] /\ home'[d] = home[d]
          /\ UNCHANGED <<published, author, topic, parcel>>
        BY <1>1 DEF Subscribe, TypeOK
    <2>2. last[k] \in Nat /\ (last[k] # NoParcel => \A n \in 1..published : topic[n] = k => n <= last[k])
        BY DEF ReplayedOnce, TypeOK
    <2> QED BY <1>0, <2>1, <2>2 DEF Latest
<1>2. ASSUME NEW g \in Publishers, NEW k \in Keys, Publish(g, k) PROVE Latest'
    <2>1. author'[published + 1] = g
        BY <1>2, PublishEffect DEF Publish, TypeOK
    <2>2. \A n \in 1..published' : n \in 1..published \/ n = published + 1
        BY <1>0, <1>2, PublishEffect
    <2>3. \A c \in Chans : born[c] <= published
        BY DEF Numbers
    <2>4. \A h \in Publishers : parcel[h] <= parcel'[h] /\ parcel'[h] \in Nat
        BY <1>0, <1>2, PublishEffect DEF Senders
    <2>5. ASSUME NEW h \in Publishers, NEW n \in 1..published', author'[n] = h
          PROVE  n <= parcel'[h]
        <3>1. CASE n \in 1..published
            <4>1. author[n] = h
                BY <1>2, <2>5, <3>1, PublishEffect
            <4>2. n <= parcel[h]
                BY <3>1, <4>1 DEF Latest
            <4> QED BY <1>0, <2>4, <4>2
        <3>2. CASE n = published + 1
            BY <1>0, <1>2, <2>1, <2>5, <3>2, PublishEffect
        <3> QED BY <2>2, <3>1, <3>2
    <2>6. ASSUME NEW c \in Chans, replayed'[c] # NoParcel,
                 NEW n \in 1..published', replayed'[c] < n, n <= born'[c]
          PROVE  topic'[n] # home'[c]
        <3>1. UNCHANGED <<home, born, replayed>>
            BY <1>2, PublishEffect
        <3>2. n \in 1..published
            BY <1>0, <2>2, <2>3, <2>6, <3>1
        <3>3. topic'[n] = topic[n]
            BY <1>2, <3>2, PublishEffect
        <3> QED BY <2>6, <3>1, <3>2, <3>3 DEF Latest
    <2> QED BY <2>5, <2>6 DEF Latest
<1>3. ASSUME NEW g \in Publishers, Send(g) PROVE Latest'
    BY <1>3 DEF Send, Latest, history
<1>4. ASSUME NEW g \in Publishers, Panic(g) PROVE Latest'
    BY <1>4 DEF Panic, Latest, history
<1>5. ASSUME NEW c \in Chans, Receive(c) PROVE Latest'
    BY <1>5 DEF Receive, Latest
<1>6. ASSUME NEW c \in Chans, Unsubscribe(c) PROVE Latest'
    BY <1>6 DEF Unsubscribe, Latest, history
<1>7. ASSUME NEW k \in Keys, Evict(k) PROVE Latest'
    BY <1>7 DEF Evict, Latest, history
<1>8. CASE UNCHANGED vars
    BY <1>8 DEF vars, hub, history, Latest
<1> QED BY <1>1, <1>2, <1>3, <1>4, <1>5, <1>6, <1>7, <1>8 DEF Next

----------------------------------------------------------------------------

(* The invariant is inductive ... *)
LEMMA IInvInit == Init => IInv
<1> SUFFICES ASSUME Init PROVE IInv
    OBVIOUS
<1>1. Shape
    BY DEF Init, Shape, TypeOK, Registry, Fresh, Senders, Numbers
<1>2. Once /\ Newer /\ ReplayedOnce /\ NothingLost
    BY DEF Init, Once, Newer, ReplayedOnce, NothingLost
<1>3. Latest
    BY DEF Init, Latest
<1> QED BY <1>1, <1>2, <1>3 DEF IInv

(* Each step keeps the invariant, part by part. *)
LEMMA IInvStep == IInv /\ [Next]_vars => IInv'
<1> SUFFICES ASSUME IInv, [Next]_vars PROVE IInv'
    OBVIOUS
<1>1. Shape'
    BY TypeStep, RegistryStep, FreshStep, SendersStep, NumbersStep DEF IInv, Shape
<1>2. Once' /\ Newer' /\ ReplayedOnce' /\ NothingLost'
    BY OnceStep, NewerStep, ReplayedStep, LostStep DEF IInv
<1>3. Latest'
    BY LatestStep DEF IInv
<1> QED BY <1>1, <1>2, <1>3 DEF IInv

(* ... and so holds in every state. *)
THEOREM Invariance == Spec => []IInv
<1> QED BY IInvInit, IInvStep, PTL DEF Spec

(* No channel is given a parcel twice. *)
THEOREM AtMostOnceAlways == Spec => []AtMostOnce
<1>1. ASSUME IInv PROVE AtMostOnce
    <2> SUFFICES ASSUME NEW c \in Chans
                 PROVE  slot[c] \notin got[c] /\ Held(c) \cap Owed(c) = {}
        BY DEF AtMostOnce
    <2>1. slot[c] \notin got[c]
        BY <1>1 DEF IInv, Once
    <2>2. ASSUME NEW n \in Held(c), n \in Owed(c) PROVE FALSE
        <3>1. PICK g \in Publishers : c \in pending[g] /\ parcel[g] = n
            BY <2>2, OwedBy
        <3> QED BY <1>1, <2>2, <3>1 DEF IInv, Once, Held
    <2> QED BY <2>1, <2>2
<1> QED BY <1>1, Invariance, PTL

(* A subscriber is given what is published to its key from its subscription
   on, and of the time before that nothing but its replay. *)
THEOREM NothingOlderAlways == Spec => []NothingOlder
<1>1. ASSUME IInv PROVE NothingOlder
    <2> SUFFICES ASSUME NEW c \in Chans, NEW n \in Held(c) \cup Owed(c)
                 PROVE  (n = replayed[c] \/ n > born[c]) /\ topic[n] = home[c]
        BY DEF NothingOlder
    <2>1. CASE n \in Held(c)
        BY <1>1, <2>1 DEF IInv, Newer, Held
    <2>2. CASE n \in Owed(c)
        BY <1>1, <2>2, OwedBy DEF IInv, Shape, Senders
    <2> QED BY <2>1, <2>2
<1> QED BY <1>1, Invariance, PTL

(* The latch is handed to one subscriber, and never after it was
   superseded. *)
THEOREM ReplayedOnceAlways == Spec => []ReplayedOnce
<1>1. IInv => ReplayedOnce
    BY DEF IInv
<1> QED BY <1>1, Invariance, PTL

(* A subscriber misses a publication to its key only if the publisher
   panicked while it was serving it. *)
THEOREM NothingLostAlways == Spec => []NothingLost
<1>1. IInv => NothingLost
    BY DEF IInv
<1> QED BY <1>1, Invariance, PTL

----------------------------------------------------------------------------

(* Membership in what a channel is still to receive, now and after a step. *)
LEMMA OutstandingBy ==
    ASSUME Once, NEW c \in Chans, NEW n
    PROVE  n \in Outstanding(c) <=>
              /\ c \notin closed
              /\ \/ slot[c] = n /\ n # NoParcel
                 \/ \E g \in Publishers : c \in pending[g] /\ parcel[g] = n
BY OwedBy DEF Outstanding, Held, Once

(* The same of the next state. *)
LEMMA OutstandingByNext ==
    ASSUME Once', NEW c \in Chans, NEW n
    PROVE  n \in Outstanding(c)' <=>
              /\ c \notin closed'
              /\ \/ slot'[c] = n /\ n # NoParcel
                 \/ \E g \in Publishers : c \in pending'[g] /\ parcel'[g] = n
BY DEF Outstanding, Held, Owed, Once

(* Those present under a key are those the registry lists. *)
LEMMA PresentIsSubscribed ==
    ASSUME TypeOK, Registry, NEW k \in Keys
    PROVE  Topic!Present(k) = subscribers[k]
BY DEF TypeOK, Registry, Topic!Present

(* Every operation of the hub is one of the topic, a send is none. *)
LEMMA TopicStep == IInv /\ [Next]_vars => [Topic!Next]_(Topic!vars)
<1> SUFFICES ASSUME IInv, [Next]_vars PROVE [Topic!Next]_(Topic!vars)
    OBVIOUS
<1> USE DEF IInv, Shape
<1>0. Once'
    BY OnceStep
<1>1. ASSUME NEW c \in Chans, NEW k \in Keys, Subscribe(c, k) PROVE Topic!Join(c, k)
    <2>1. /\ home[c] = None
          /\ home' = [home EXCEPT ![c] = k]
          /\ last' = [last EXCEPT ![k] = NoParcel]
          /\ UNCHANGED <<closed, published, got, pending, parcel>>
          /\ slot'[c] = last[k]
          /\ \A d \in Chans \ {c} : slot'[d] = slot[d]
        BY <1>1 DEF Subscribe, TypeOK
    <2>2. \A h \in Publishers : c \notin pending[h]
        BY <2>1 DEF Fresh
    <2>3. c \notin closed
        BY <2>1 DEF Registry
    <2>4. Outstanding(c)' = {last[k]} \ {NoParcel}
        BY <1>0, <2>1, <2>2, <2>3, OutstandingByNext
    <2>5. \A d \in Chans \ {c} : Outstanding(d)' = Outstanding(d)
        BY <1>0, <2>1, OutstandingBy, OutstandingByNext, SMTT(30)
    <2> QED BY <2>1, <2>4, <2>5 DEF Topic!Join
<1>2. ASSUME NEW g \in Publishers, NEW k \in Keys, Publish(g, k) PROVE Topic!Announce(k)
    <2>1. /\ published < MaxParcels
          /\ last' = [last EXCEPT ![k] = published + 1]
        BY <1>2 DEF Publish
    <2>2. pending[g] = {}
        BY <1>2, PublishEffect DEF Senders
    <2>3. ASSUME NEW d \in Chans
          PROVE  Outstanding(d)' = IF d \in subscribers[k]
                                   THEN Outstanding(d) \cup {published + 1}
                                   ELSE Outstanding(d)
        <3>1. CASE d \in subscribers[k]
            <4>1. d \notin closed
                BY <3>1 DEF Registry
            <4>2. ASSUME NEW n
                  PROVE  (\E h \in Publishers : d \in pending'[h] /\ parcel'[h] = n)
                         <=> \/ n = published + 1
                             \/ \E h \in Publishers : d \in pending[h] /\ parcel[h] = n
                BY <1>2, <2>2, <3>1, PublishEffect
            <4>3. ASSUME NEW n
                  PROVE  n \in Outstanding(d)' <=> n \in Outstanding(d) \/ n = published + 1
                BY <1>0, <1>2, <4>1, <4>2, OutstandingBy, OutstandingByNext, PublishEffect
            <4> QED BY <3>1, <4>3
        <3>2. CASE d \notin subscribers[k]
            <4>1. ASSUME NEW n
                  PROVE  (\E h \in Publishers : d \in pending'[h] /\ parcel'[h] = n)
                         <=> \E h \in Publishers : d \in pending[h] /\ parcel[h] = n
                BY <1>2, <2>2, <3>2, PublishEffect
            <4>2. ASSUME NEW n
                  PROVE  n \in Outstanding(d)' <=> n \in Outstanding(d)
                BY <1>0, <1>2, <4>1, OutstandingBy, OutstandingByNext, PublishEffect
            <4> QED BY <3>2, <4>2
        <3> QED BY <3>1, <3>2
    <2> QED BY <1>2, <2>1, <2>3, PresentIsSubscribed, PublishEffect DEF Topic!Announce
<1>3. ASSUME NEW g \in Publishers, Send(g) PROVE UNCHANGED Topic!vars
    <2>1. parcel[g] # NoParcel
        BY <1>3, SendEffect, DistinctParcels
    <2>2. ASSUME NEW d \in Chans PROVE Outstanding(d)' = Outstanding(d)
        <3>1. CASE d = target[g]
            <4>1. ASSUME NEW n
                  PROVE  n \in Outstanding(d)' <=> n \in Outstanding(d)
                BY <1>0, <1>3, <2>1, <3>1, OutstandingBy, OutstandingByNext, SendEffect
            <4> QED BY <4>1
        <3>2. CASE d # target[g]
            <4>1. ASSUME NEW n
                  PROVE  n \in Outstanding(d)' <=> n \in Outstanding(d)
                BY <1>0, <1>3, <3>2, OutstandingBy, OutstandingByNext, SendEffect
            <4> QED BY <4>1
        <3> QED BY <3>1, <3>2
    <2> QED BY <1>3, <2>2, SendEffect DEF Topic!vars
<1>4. ASSUME NEW g \in Publishers, Panic(g)
      PROVE  Topic!BreakOff(topic[parcel[g]], parcel[g]) /\ topic[parcel[g]] \in Keys
    <2>1. /\ UNCHANGED <<slot, closed, last, parcel, published, home, got>>
          /\ pc[g] = "sending"
          /\ target[g] \in closed
          /\ pending'[g] = {}
          /\ \A h \in Publishers \ {g} : pending'[h] = pending[h]
        BY <1>4 DEF Panic, TypeOK, history
    <2>2. /\ target[g] \in pending[g] /\ target[g] \in Chans
          /\ home[target[g]] = topic[parcel[g]]
          /\ topic[parcel[g]] \in Keys
        BY <2>1 DEF Senders, TypeOK
    <2>3. \A d \in pending[g] : d \in Chans /\ home[d] = topic[parcel[g]]
        BY DEF Senders, TypeOK
    <2> DEFINE lost == {d \in pending[g] : d \notin closed}
    <2>4. lost \in SUBSET Topic!Present(topic[parcel[g]])
        BY <2>3 DEF Topic!Present
    <2>5. ASSUME NEW d \in Chans
          PROVE  Outstanding(d)' = IF d \in lost THEN Outstanding(d) \ {parcel[g]} ELSE Outstanding(d)
        <3>1. CASE d \in pending[g]
            <4>1. slot[d] # parcel[g] /\ \A h \in Publishers \ {g} : parcel[h] # parcel[g]
                BY <3>1, DistinctParcels DEF Once
            <4>2. ASSUME NEW n
                  PROVE  n \in Outstanding(d)' <=> n \in Outstanding(d) /\ n # parcel[g]
                BY <1>0, <2>1, <4>1, OutstandingBy, OutstandingByNext
            <4>3. d \in closed => Outstanding(d) = {}
                BY DEF Outstanding
            <4> QED BY <3>1, <4>2, <4>3
        <3>2. CASE d \notin pending[g]
            <4>1. ASSUME NEW n
                  PROVE  n \in Outstanding(d)' <=> n \in Outstanding(d)
                BY <1>0, <2>1, <3>2, OutstandingBy, OutstandingByNext
            <4> QED BY <3>2, <4>1
        <3> QED BY <3>1, <3>2
    <2> QED BY <2>1, <2>2, <2>4, <2>5 DEF Topic!BreakOff
<1>5. ASSUME NEW c \in Chans, Receive(c) PROVE Topic!See(c)
    <2>1. /\ slot[c] # NoParcel
          /\ slot' = [slot EXCEPT ![c] = NoParcel]
          /\ got' = [got EXCEPT ![c] = @ \cup {slot[c]}]
          /\ c \notin closed
          /\ UNCHANGED <<closed, last, published, home, pending, parcel>>
        BY <1>5 DEF Receive, Subscribed, Registry, TypeOK
    <2>2. slot'[c] = NoParcel /\ \A d \in Chans \ {c} : slot'[d] = slot[d]
        BY <2>1 DEF TypeOK
    <2>3. \A h \in Publishers : c \in pending[h] => parcel[h] # slot[c]
        BY DEF Once
    <2>4. slot[c] \in Outstanding(c)
        BY <2>1, OutstandingBy
    <2>5. ASSUME NEW n PROVE n \in Outstanding(c)' <=> n \in Outstanding(c) /\ n # slot[c]
        BY <1>0, <2>1, <2>2, <2>3, OutstandingBy, OutstandingByNext
    <2>6. ASSUME NEW d \in Chans \ {c}, NEW n
          PROVE  n \in Outstanding(d)' <=> n \in Outstanding(d)
        BY <1>0, <2>1, <2>2, OutstandingBy, OutstandingByNext
    <2>7. /\ Outstanding(c)' = Outstanding(c) \ {slot[c]}
          /\ \A d \in Chans \ {c} : Outstanding(d)' = Outstanding(d)
        BY <2>5, <2>6
    <2> QED BY <2>1, <2>4, <2>7 DEF Topic!See
<1>6. ASSUME NEW c \in Chans, Unsubscribe(c) PROVE Topic!Leave(c)
    <2>1. /\ home[c] # None /\ c \notin closed
          /\ closed' = closed \cup {c}
          /\ UNCHANGED <<slot, last, published, home, got, pending, parcel>>
        BY <1>6 DEF Unsubscribe, Subscribed, Registry, TypeOK, history
    <2>2. Outstanding(c)' = {}
        BY <2>1 DEF Outstanding
    <2>3. \A d \in Chans \ {c} : Outstanding(d)' = Outstanding(d)
        BY <2>1 DEF Outstanding, Held, Owed
    <2> QED BY <2>1, <2>2, <2>3 DEF Topic!Leave
<1>7. ASSUME NEW k \in Keys, Evict(k) PROVE Topic!Forget(k)
    <2>1. \A d \in Chans : Outstanding(d)' = Outstanding(d)
        BY <1>7 DEF Evict, Outstanding, Held, Owed, history
    <2> QED BY <1>7, <2>1 DEF Evict, Topic!Forget, history
<1>8. CASE UNCHANGED vars
    BY <1>8 DEF vars, hub, history, Topic!vars, Outstanding, Held, Owed
<1>9. CASE Next
    <2>1. ASSUME NEW g \in Publishers, Panic(g) PROVE Topic!Next
        <3>1. parcel[g] \in 1..MaxParcels
            BY <2>1, DistinctParcels DEF Panic, Senders
        <3> QED BY <1>4, <2>1, <3>1 DEF Topic!Next
    <2> QED BY <1>1, <1>2, <1>3, <1>5, <1>6, <1>7, <1>9, <2>1 DEF Next, Topic!Next
<1> QED BY <1>8, <1>9

(* The hub implements the topic, for any number of everything. *)
THEOREM Implementation == Spec => ImplementsTopic
<1>1. Init => Topic!Init
    BY DEF Init, Topic!Init, Outstanding, Held, Owed
<1> QED BY <1>1, TopicStep, Invariance, PTL DEF Spec, ImplementsTopic, Topic!Spec
============================================================================
