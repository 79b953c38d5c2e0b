----------------------------- MODULE EntryList -----------------------------
(***************************************************************************)
(* What golang/stack promises, without arrays: a list of entries, newest   *)
(* first, and copies of it that belong to those who asked for them.  Stack *)
(* implements this specification.                                          *)
(***************************************************************************)
EXTENDS Naturals, Sequences, SequencesExt

CONSTANTS Values, Holders

VARIABLES
    list,   \* the entries
    given,  \* given[h]: the copy holder h has, <<>> without one
    fault   \* the latest call panicked

vars == <<list, given, fault>>

Init ==
    /\ list = <<>>
    /\ given = [h \in Holders |-> <<>>]
    /\ fault = FALSE

Change(l) ==
    /\ list' = l
    /\ fault' = FALSE
    /\ UNCHANGED given

Put(x) == Change(<<x>> \o list)
Erase(x) == Change(RemoveFirst(list, x))
Cycle == list # <<>> /\ Change(Append(Tail(list), Head(list)))

(* Entries f+1 to t+1 come to the front, in their order. *)
Bring(f, t) ==
    Change(SubSeq(list, f + 1, t + 1) \o SubSeq(list, 1, f) \o SubSeq(list, t + 2, Len(list)))

Set(i, x) == Change([list EXCEPT ![i] = x])

Copy(h, n) ==
    /\ given' = [given EXCEPT ![h] = SubSeq(list, 1, n)]
    /\ fault' = FALSE
    /\ UNCHANGED list

(* A holder does with its copy what it likes. *)
Write(h, i, x) ==
    /\ given' = [given EXCEPT ![h][i] = x]
    /\ UNCHANGED <<list, fault>>

Forget(h) ==
    /\ given' = [given EXCEPT ![h] = <<>>]
    /\ UNCHANGED <<list, fault>>

(* A call whose positions are not in the list panics or does nothing. *)
Refuse(panics) ==
    /\ fault' = panics
    /\ UNCHANGED <<list, given>>

Next ==
    \/ \E x \in Values : Put(x) \/ Erase(x)
    \/ Cycle
    \/ \E f, t \in 0..Len(list)-1 : f <= t /\ Bring(f, t)
    \/ \E i \in DOMAIN list, x \in Values : Set(i, x)
    \/ \E h \in Holders : \/ \E n \in 0..Len(list) : Copy(h, n)
                          \/ \E i \in DOMAIN given[h], x \in Values : Write(h, i, x)
                          \/ Forget(h)
    \/ \E panics \in BOOLEAN : Refuse(panics)

Spec == Init /\ [][Next]_vars
============================================================================
