--------------------------- MODULE LatchedTopic ---------------------------
(***************************************************************************)
(* What the hub of golang/cheetha promises its users, without channels,    *)
(* snapshots and locks: a publication is one step that owes the parcel to  *)
(* everyone subscribed at that moment and latches it for whoever comes     *)
(* next.  Cheetah implements this specification.                           *)
(***************************************************************************)
EXTENDS Naturals

CONSTANTS Keys, Chans, MaxParcels, None

VARIABLES
    member,  \* member[c]: the key c joined, None before
    gone,    \* those that left
    latch,   \* latch[k]: the parcel kept for the next to join, 0 if none
    count,   \* number of publications
    owed,    \* owed[c]: parcels c was promised and has not seen
    seen     \* seen[c]: parcels c has seen

vars == <<member, gone, latch, count, owed, seen>>

Present(k) == {c \in Chans : member[c] = k /\ c \notin gone}

Init ==
    /\ member = [c \in Chans |-> None]
    /\ gone = {}
    /\ latch = [k \in Keys |-> 0]
    /\ count = 0
    /\ owed = [c \in Chans |-> {}]
    /\ seen = [c \in Chans |-> {}]

Join(c, k) ==
    /\ member[c] = None
    /\ member' = [member EXCEPT ![c] = k]
    /\ owed' = [owed EXCEPT ![c] = {latch[k]} \ {0}]
    /\ latch' = [latch EXCEPT ![k] = 0]
    /\ UNCHANGED <<gone, count, seen>>

Announce(k) ==
    /\ count < MaxParcels
    /\ count' = count + 1
    /\ latch' = [latch EXCEPT ![k] = count + 1]
    /\ owed' = [c \in Chans |-> IF c \in Present(k) THEN owed[c] \cup {count + 1} ELSE owed[c]]
    /\ UNCHANGED <<member, gone, seen>>

See(c) ==
    /\ \E n \in owed[c] :
          /\ owed' = [owed EXCEPT ![c] = @ \ {n}]
          /\ seen' = [seen EXCEPT ![c] = @ \cup {n}]
    /\ UNCHANGED <<member, gone, latch, count>>

Leave(c) ==
    /\ member[c] # None
    /\ c \notin gone
    /\ gone' = gone \cup {c}
    /\ owed' = [owed EXCEPT ![c] = {}]
    /\ UNCHANGED <<member, latch, count, seen>>

(* Once somebody left k, a publication to k may break off: some of those
   present are never given its parcel n. *)
BreakOff(k, n) ==
    /\ \E c \in gone : member[c] = k
    /\ \E lost \in SUBSET Present(k) :
          owed' = [c \in Chans |-> IF c \in lost THEN owed[c] \ {n} ELSE owed[c]]
    /\ UNCHANGED <<member, gone, latch, count, seen>>

Forget(k) ==
    /\ latch' = [latch EXCEPT ![k] = 0]
    /\ UNCHANGED <<member, gone, count, owed, seen>>

Next ==
    \/ \E c \in Chans, k \in Keys : Join(c, k)
    \/ \E k \in Keys : Announce(k) \/ Forget(k)
    \/ \E c \in Chans : See(c) \/ Leave(c)
    \/ \E k \in Keys, n \in 1..MaxParcels : BreakOff(k, n)

Spec == Init /\ [][Next]_vars
============================================================================
