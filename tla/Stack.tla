------------------------------- MODULE Stack -------------------------------
(***************************************************************************)
(* golang/stack/stack.go: a slice behind a mutex, newest entry first.      *)
(* Every method holds the mutex to its end, so a call is one step.  What a *)
(* slice is matters here: Erase, PushLast and Replace write into the array *)
(* it stands on, while Push and Rearrange move it to another array; a      *)
(* slice handed out must be on neither.                                    *)
(*                                                                         *)
(* Arrays are names in a memory, and one nobody refers to can be had again *)
(* (the garbage collector of Go).  A method that panics lets go of the     *)
(* mutex by its defer, and its caller may recover.                         *)
(***************************************************************************)
EXTENDS Integers, Sequences

CONSTANTS
    Values,  \* what is pushed
    Holders, \* callers that keep what Max or Range gave them
    Arrays,  \* arrays there is memory for
    MaxLen,  \* bounds the pushes
    None     \* no array

ASSUME StackAssumption ==
    /\ MaxLen \in Nat
    /\ None \notin Arrays
    /\ \A held \in [Holders -> Arrays \cup {None}], used \in Arrays \cup {None} :
          \E a \in Arrays : a # used /\ \A h \in Holders : held[h] # a

VARIABLES
    mem,    \* mem[a]: what array a holds, up to its capacity
    data,   \* s.data: the array it stands on, None while it is nil
    size,   \* and its length
    copies, \* copies[h]: the array of the slice h was given
    fault   \* the latest call panicked

vars == <<mem, data, size, copies, fault>>

At(a, n) == IF n = 0 THEN <<>> ELSE SubSeq(mem[a], 1, n)
Entries == At(data, size)

(* An array nobody refers to. *)
Unused == CHOOSE a \in Arrays : a # data /\ \A h \in Holders : copies[h] # a

Init ==
    /\ mem = [a \in Arrays |-> <<>>]
    /\ data = None
    /\ size = 0
    /\ copies = [h \in Holders |-> None]
    /\ fault = FALSE

(* s.data becomes a slice of a new array; the old one, which no copy is on,
   is collected. *)
Move(content) ==
    /\ mem' = [a \in Arrays |-> IF a = Unused THEN content
                                ELSE IF a = data THEN <<>> ELSE mem[a]]
    /\ data' = Unused
    /\ size' = Len(content)
    /\ fault' = FALSE
    /\ UNCHANGED copies

Stay ==
    /\ fault' = FALSE
    /\ UNCHANGED <<mem, data, size, copies>>

Panic ==
    /\ fault' = TRUE
    /\ UNCHANGED <<mem, data, size, copies>>

Push(x) ==
    /\ size < MaxLen
    /\ Move(<<x>> \o Entries)

First(x, i) == Entries[i] = x /\ \A j \in 1..(i-1) : Entries[j] # x

(* append(s.data[:i], s.data[i+1:]...) shifts the rest down in the array. *)
Erase(x) ==
    \/ /\ \A i \in 1..size : Entries[i] # x
       /\ Stay
    \/ /\ \E i \in 1..size :
             /\ First(x, i)
             /\ mem' = [mem EXCEPT ![data] = [j \in DOMAIN @ |->
                            IF i <= j /\ j < size THEN @[j+1] ELSE @[j]]]
       /\ size' = size - 1
       /\ fault' = FALSE
       /\ UNCHANGED <<data, copies>>

(* Entries from..to, counted from 0, come first.  The guard lets an index one
   past the end through: for to the slices that follow panic, as they do for a
   negative index, and make does for a negative length. *)
Rearrange(from, to) ==
    \/ /\ from > size \/ to > size
       /\ Stay
    \/ /\ from <= size /\ to <= size
       /\ from < 0 \/ to >= size \/ to < from - 1
       /\ Panic
    \/ /\ 0 <= from /\ from <= to + 1 /\ to < size
       /\ Move(SubSeq(Entries, from + 1, to + 1)
                 \o SubSeq(Entries, 1, from) \o SubSeq(Entries, to + 2, size))

PushLast ==
    \/ /\ size = 0
       /\ Stay
    \/ /\ size > 0
       /\ mem' = [mem EXCEPT ![data] = [j \in DOMAIN @ |->
                      IF j < size THEN @[j+1] ELSE IF j = size THEN @[1] ELSE @[j]]]
       /\ fault' = FALSE
       /\ UNCHANGED <<data, size, copies>>

(* The guard lets the index one past the end through to the panic. *)
Replace(index, x) ==
    \/ /\ index > size
       /\ Stay
    \/ /\ index = size \/ index < 0
       /\ Panic
    \/ /\ 0 <= index /\ index < size
       /\ mem' = [mem EXCEPT ![data][index + 1] = x]
       /\ fault' = FALSE
       /\ UNCHANGED <<data, size, copies>>

(* Mutant: s.data[:limit] itself. *)
RangeOfData(h, limit) ==
    LET n == IF limit < 0 THEN 0 ELSE IF limit > size THEN size ELSE limit IN
    /\ copies[h] = None
    /\ n = size /\ size > 0
    /\ copies' = [copies EXCEPT ![h] = data]
    /\ fault' = FALSE
    /\ UNCHANGED <<mem, data, size>>

(* A copy of up to limit entries. *)
Range(h, limit) ==
    LET n == IF limit < 0 THEN 0 ELSE IF limit > size THEN size ELSE limit IN
    /\ copies[h] = None
    /\ mem' = [mem EXCEPT ![Unused] = At(data, n)]
    /\ copies' = [copies EXCEPT ![h] = Unused]
    /\ fault' = FALSE
    /\ UNCHANGED <<data, size>>

Max(h) == Range(h, size)

(* The holder writes into its copy, or lets go of it. *)
Scribble(h, i, x) ==
    /\ copies[h] # None
    /\ i \in DOMAIN mem[copies[h]]
    /\ mem' = [mem EXCEPT ![copies[h]][i] = x]
    /\ UNCHANGED <<data, size, copies, fault>>

Release(h) ==
    /\ copies[h] # None
    /\ mem' = [mem EXCEPT ![copies[h]] = <<>>]
    /\ copies' = [copies EXCEPT ![h] = None]
    /\ UNCHANGED <<data, size, fault>>

(* Positions a caller may give: those of the list, and one beyond at either
   end of what the guards let through. *)
Positions == -1..(MaxLen + 1)

Next ==
    \/ \E x \in Values : Push(x) \/ Erase(x)
    \/ \E from, to \in Positions : Rearrange(from, to)
    \/ PushLast
    \/ \E index \in Positions, x \in Values : Replace(index, x)
    \/ \E h \in Holders : \/ Max(h) \/ Release(h)
                          \/ \E limit \in Positions : Range(h, limit)
                          \/ \E i \in 1..MaxLen, x \in Values : Scribble(h, i, x)

Spec == Init /\ [][Next]_vars

----------------------------------------------------------------------------
(* Properties. *)

TypeOK ==
    /\ mem \in [Arrays -> Seq(Values)]
    /\ data \in Arrays \cup {None}
    /\ size \in 0..MaxLen
    /\ copies \in [Holders -> Arrays \cup {None}]
    /\ fault \in BOOLEAN

(* The list and the copies as their users see them. *)
List == INSTANCE EntryList WITH
            list  <- Entries,
            given <- [h \in Holders |-> IF copies[h] = None THEN <<>> ELSE mem[copies[h]]]

(* Through shifts in place, new arrays and refused calls the stack is a list
   whose calls do what they say, and no slice it ever handed out changes with
   it, nor it with one of those. *)
ImplementsList == List!Spec
============================================================================
