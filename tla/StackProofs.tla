---------------------------- MODULE StackProofs ----------------------------
(* Theorems about golang/stack: it is a list whose copies are its holders'. *)
EXTENDS Stack, TLAPS

USE StackAssumption

(* The slice lies within its array. *)
Fits ==
    /\ data = None => size = 0
    /\ data # None => size <= Len(mem[data])

(* Nobody's copy is on the array of the stack, or on that of another copy. *)
Apart ==
    \A h \in Holders : copies[h] # None =>
        /\ copies[h] # data
        /\ \A i \in Holders \ {h} : copies[i] # copies[h]

StackInv == TypeOK /\ Fits /\ Apart

(* There is always an array nobody refers to. *)
LEMMA UnusedIsFree ==
    ASSUME TypeOK
    PROVE  /\ Unused \in Arrays /\ Unused # None
           /\ Unused # data /\ \A h \in Holders : copies[h] # Unused
<1>1. \E a \in Arrays : a # data /\ \A h \in Holders : copies[h] # a
    BY DEF TypeOK, StackAssumption
<1>2. Unused \in Arrays /\ Unused # data /\ \A h \in Holders : copies[h] # Unused
    BY <1>1 DEF Unused
<1> QED BY <1>2 DEF StackAssumption

(* The length and the entries of a slice. *)
LEMMA Slices ==
    ASSUME NEW s \in Seq(Values), NEW m \in Int, NEW n \in Int, 1 <= m, n <= Len(s), m <= n + 1
    PROVE  /\ SubSeq(s, m, n) \in Seq(Values)
           /\ Len(SubSeq(s, m, n)) = n - m + 1
           /\ \A i \in 1..(n - m + 1) : SubSeq(s, m, n)[i] = s[m + i - 1]
OBVIOUS

(* Sequences with the same entries are the same. *)
LEMMA Same ==
    ASSUME NEW s \in Seq(Values), NEW t \in Seq(Values), Len(s) = Len(t),
           \A i \in 1..Len(s) : s[i] = t[i]
    PROVE  s = t
OBVIOUS

(* The entries are those of the array, up to the size. *)
LEMMA EntriesAre ==
    ASSUME TypeOK, Fits
    PROVE  /\ Entries \in Seq(Values)
           /\ Len(Entries) = size
           /\ size \in Nat
           /\ \A i \in 1..size : Entries[i] = mem[data][i]
<1>1. size \in Nat
    BY DEF TypeOK, StackAssumption
<1>2. CASE size = 0
    BY <1>2 DEF Entries, At
<1>3. CASE size # 0
    <2>1. data \in Arrays /\ mem[data] \in Seq(Values) /\ size <= Len(mem[data])
        BY <1>3 DEF TypeOK, Fits
    <2>2. Entries = SubSeq(mem[data], 1, size)
        BY <1>3 DEF Entries, At
    <2>3. PICK s \in Seq(Values) : s = mem[data]
        BY <2>1
    <2>4. SubSeq(s, 1, size) \in Seq(Values) /\ Len(SubSeq(s, 1, size)) = size
          /\ \A i \in 1..size : SubSeq(s, 1, size)[i] = s[i]
        BY <1>1, <2>1, <2>3, Slices
    <2> QED BY <1>1, <2>2, <2>3, <2>4
<1> QED BY <1>2, <1>3

(* What the holders see of their copies. *)
Given == [h \in Holders |-> IF copies[h] = None THEN <<>> ELSE mem[copies[h]]]

(* The first n entries of an array, as At reads them. *)
LEMMA Prefix ==
    ASSUME NEW s \in Seq(Values), NEW n \in Nat, n <= Len(s)
    PROVE  LET t == IF n = 0 THEN <<>> ELSE SubSeq(s, 1, n) IN
           /\ t \in Seq(Values)
           /\ Len(t) = n
           /\ \A i \in 1..n : t[i] = s[i]
<1>1. CASE n = 0
    BY <1>1
<1>2. CASE n # 0
    <2>1. SubSeq(s, 1, n) \in Seq(Values) /\ Len(SubSeq(s, 1, n)) = n
          /\ \A i \in 1..n : SubSeq(s, 1, n)[i] = s[i]
        BY <1>2, Slices
    <2> QED BY <1>2, <2>1
<1> QED BY <1>1, <1>2

(* The array moved to was nobody's, so the copies stay apart and as they are. *)
LEMMA MoveEffect ==
    ASSUME StackInv, NEW content \in Seq(Values), Len(content) <= MaxLen, Move(content)
    PROVE  StackInv' /\ Entries' = content /\ Given' = Given /\ fault' = FALSE
<1>1. /\ mem \in [Arrays -> Seq(Values)]
      /\ data \in Arrays \cup {None}
      /\ copies \in [Holders -> Arrays \cup {None}]
    BY DEF StackInv, TypeOK
<1>2. /\ Unused \in Arrays /\ Unused # None
      /\ Unused # data /\ \A h \in Holders : copies[h] # Unused
    BY UnusedIsFree DEF StackInv
<1>3. /\ mem' = [a \in Arrays |-> IF a = Unused THEN content
                                  ELSE IF a = data THEN <<>> ELSE mem[a]]
      /\ data' = Unused /\ size' = Len(content) /\ fault' = FALSE /\ copies' = copies
    BY DEF Move
<1>4. mem' \in [Arrays -> Seq(Values)] /\ mem'[Unused] = content
    BY <1>1, <1>2, <1>3
<1>5. Len(content) \in Nat
    OBVIOUS
<1>6. TypeOK'
    <2>1. size' \in 0..MaxLen
        BY <1>3, <1>5 DEF StackAssumption
    <2> QED BY <1>1, <1>2, <1>3, <1>4, <2>1 DEF TypeOK
<1>7. Fits'
    BY <1>2, <1>3, <1>4, <1>5 DEF Fits
<1>8. Apart'
    BY <1>2, <1>3 DEF StackInv, Apart
<1>9. Entries' = content
    <2>1. Entries' = IF Len(content) = 0 THEN <<>> ELSE SubSeq(content, 1, Len(content))
        BY <1>3, <1>4 DEF Entries, At
    <2>2. Len(Entries') = Len(content) /\ Entries' \in Seq(Values)
          /\ \A i \in 1..Len(content) : Entries'[i] = content[i]
        BY <2>1, <1>5, Prefix
    <2> QED BY <2>2, Same
<1>10. Given' = Given
    <2>1. ASSUME NEW h \in Holders, copies[h] # None
          PROVE  mem'[copies[h]] = mem[copies[h]]
        <3>1. copies[h] \in Arrays /\ copies[h] # Unused /\ copies[h] # data
            BY <1>1, <1>2, <2>1 DEF StackInv, Apart
        <3> QED BY <1>3, <3>1
    <2> QED BY <1>3, <2>1 DEF Given
<1> QED BY <1>3, <1>6, <1>7, <1>8, <1>9, <1>10 DEF StackInv

(* A write into the array of the stack reaches no copy. *)
LEMMA WriteEffect ==
    ASSUME StackInv, data \in Arrays,
           NEW content \in Seq(Values), Len(content) = Len(mem[data]),
           mem' = [mem EXCEPT ![data] = content],
           size' \in Nat, size' <= size, fault' = FALSE, UNCHANGED <<data, copies>>
    PROVE  /\ StackInv' /\ Given' = Given
           /\ Entries' \in Seq(Values)
           /\ Len(Entries') = size'
           /\ \A i \in 1..size' : Entries'[i] = content[i]
<1>1. /\ mem \in [Arrays -> Seq(Values)]
      /\ copies \in [Holders -> Arrays \cup {None}]
      /\ size \in Nat /\ size <= MaxLen
    BY DEF StackInv, TypeOK
<1>2. mem' \in [Arrays -> Seq(Values)] /\ mem'[data] = content
    BY <1>1
<1>3. data # None /\ size <= Len(mem[data])
    BY DEF StackInv, Fits, StackAssumption
<1>4. TypeOK'
    <2>1. size' \in 0..MaxLen
        BY <1>1 DEF StackAssumption
    <2> QED BY <1>1, <1>2, <2>1 DEF StackInv, TypeOK
<1>5. Len(content) \in Nat /\ size' <= Len(content)
    BY <1>1, <1>3
<1>6. Fits'
    BY <1>2, <1>3, <1>5 DEF Fits
<1>7. Apart'
    BY DEF StackInv, Apart
<1>8. Given' = Given
    <2>1. ASSUME NEW h \in Holders, copies[h] # None
          PROVE  mem'[copies[h]] = mem[copies[h]]
        <3>1. copies[h] \in Arrays /\ copies[h] # data
            BY <1>1, <2>1 DEF StackInv, Apart
        <3> QED BY <1>1, <3>1
    <2> QED BY <2>1 DEF Given
<1>9. Entries' = IF size' = 0 THEN <<>> ELSE SubSeq(content, 1, size')
    BY <1>2 DEF Entries, At
<1>10. Entries' \in Seq(Values) /\ Len(Entries') = size'
       /\ \A i \in 1..size' : Entries'[i] = content[i]
    BY <1>5, <1>9, Prefix
<1> QED BY <1>4, <1>6, <1>7, <1>8, <1>10 DEF StackInv

(* RemoveFirst of the list is the list without the first such entry. *)
LEMMA RemoveFirstIs ==
    ASSUME NEW s \in Seq(Values), NEW x, NEW i \in 1..Len(s),
           s[i] = x, \A j \in 1..(i-1) : s[j] # x
    PROVE  List!RemoveFirst(s, x) = SubSeq(s, 1, i - 1) \o SubSeq(s, i + 1, Len(s))
<1> DEFINE I == {j \in 1..Len(s) : s[j] = x}
<1>1. i \in I /\ \A j \in I : i <= j
    OBVIOUS
<1>2. List!Min(I) = i
    <2>1. \A m : (m \in I /\ \A j \in I : m =< j) => m = i
        BY <1>1
    <2> HIDE DEF I
    <2>2. List!Min(I) \in I /\ \A j \in I : List!Min(I) =< j
        BY <1>1 DEF List!Min
    <2> QED BY <2>1, <2>2
<1>3. List!SelectInSeq(s, LAMBDA v : v = x) = i
    BY <1>1, <1>2 DEF List!SelectInSeq
<1> QED BY <1>3 DEF List!RemoveFirst, List!RemoveAt

(* A refused call changes nothing but the report of it. *)
LEMMA RefuseStep ==
    ASSUME StackInv, Stay \/ Panic
    PROVE  StackInv' /\ \E panics \in BOOLEAN : List!Refuse(panics)
<1>1. fault' \in BOOLEAN /\ UNCHANGED <<mem, data, size, copies>>
    BY DEF Stay, Panic
<1>2. TypeOK' /\ Fits' /\ Apart'
    BY <1>1 DEF StackInv, TypeOK, Fits, Apart
<1>3. Entries' = Entries /\ Given' = Given
    BY <1>1 DEF Entries, At, Given
<1>4. List!Refuse(fault')
    BY <1>3 DEF List!Refuse, Given
<1> QED BY <1>1, <1>2, <1>4 DEF StackInv

(* Push is Put of the list, in a new array. *)
LEMMA PushStep ==
    ASSUME StackInv, NEW x \in Values, Push(x)
    PROVE  StackInv' /\ List!Put(x)
<1>1. Entries \in Seq(Values) /\ Len(Entries) = size /\ size \in Nat
    BY EntriesAre DEF StackInv
<1>2. <<x>> \o Entries \in Seq(Values) /\ Len(<<x>> \o Entries) = size + 1
    BY <1>1
<1>3. Len(<<x>> \o Entries) <= MaxLen
    BY <1>1, <1>2 DEF Push, StackAssumption
<1>4. StackInv' /\ Entries' = <<x>> \o Entries /\ Given' = Given /\ fault' = FALSE
    BY <1>2, <1>3, MoveEffect DEF Push
<1> QED BY <1>4 DEF List!Put, List!Change, Given

(* Two parts of the list, one after the other. *)
LEMMA Joined ==
    ASSUME NEW s \in Seq(Values), NEW t \in Seq(Values)
    PROVE  /\ s \o t \in Seq(Values)
           /\ Len(s \o t) = Len(s) + Len(t)
           /\ \A i \in 1..Len(s) : (s \o t)[i] = s[i]
           /\ \A i \in 1..Len(t) : (s \o t)[Len(s) + i] = t[i]
OBVIOUS

(* The list without its entry i. *)
LEMMA Without ==
    ASSUME NEW s \in Seq(Values), NEW i \in 1..Len(s)
    PROVE  LET t == SubSeq(s, 1, i - 1) \o SubSeq(s, i + 1, Len(s)) IN
           /\ t \in Seq(Values)
           /\ Len(t) = Len(s) - 1
           /\ \A j \in 1..(Len(s) - 1) : t[j] = IF j < i THEN s[j] ELSE s[j+1]
<1>1. PICK a \in Seq(Values) : a = SubSeq(s, 1, i - 1)
    <2>1. i - 1 \in Int /\ i - 1 <= Len(s) /\ 1 <= i - 1 + 1
        OBVIOUS
    <2>2. SubSeq(s, 1, i - 1) \in Seq(Values)
        BY <2>1, Slices
    <2> QED BY <2>2
<1>2. PICK b \in Seq(Values) : b = SubSeq(s, i + 1, Len(s))
    <2>1. i + 1 \in Int /\ Len(s) \in Int /\ 1 <= i + 1 /\ i + 1 <= Len(s) + 1
        OBVIOUS
    <2>2. SubSeq(s, i + 1, Len(s)) \in Seq(Values)
        BY <2>1, Slices
    <2> QED BY <2>2
<1>3. Len(a) = i - 1 /\ \A j \in 1..(i - 1) : a[j] = s[j]
    BY <1>1, Slices
<1>4. Len(b) = Len(s) - i /\ \A j \in 1..(Len(s) - i) : b[j] = s[i + j]
    BY <1>2, Slices
<1>5. a \o b \in Seq(Values) /\ Len(a \o b) = Len(s) - 1
    BY <1>3, <1>4, Joined
<1>6. ASSUME NEW j \in 1..(Len(s) - 1)
      PROVE  (a \o b)[j] = IF j < i THEN s[j] ELSE s[j+1]
    <2>1. CASE j < i
        <3>1. j \in 1..Len(a) /\ j \in 1..(i - 1)
            BY <1>3, <2>1
        <3>2. (a \o b)[j] = a[j]
            BY <3>1, Joined
        <3>3. a[j] = s[j]
            BY <1>3, <3>1
        <3> QED BY <2>1, <3>2, <3>3
    <2>2. CASE j >= i
        <3>1. j - (i - 1) \in 1..Len(b) /\ Len(a) + (j - (i - 1)) = j
            BY <1>3, <1>4, <2>2, SMTT(30)
        <3>2. (a \o b)[j] = b[j - (i - 1)]
            BY <3>1, Joined
        <3>3. b[j - (i - 1)] = s[i + (j - (i - 1))]
            BY <1>4, <3>1
        <3>4. i + (j - (i - 1)) = j + 1
            OBVIOUS
        <3> QED BY <2>2, <3>2, <3>3, <3>4
    <2>3. j < i \/ j >= i
        OBVIOUS
    <2> QED BY <2>1, <2>2, <2>3
<1> QED BY <1>1, <1>2, <1>5, <1>6

(* The shift in the array and the list without the entry are the same. *)
LEMMA EraseStep ==
    ASSUME StackInv, NEW x \in Values, Erase(x)
    PROVE  StackInv' /\ (List!Erase(x) \/ \E panics \in BOOLEAN : List!Refuse(panics))
<1>1. CASE Stay
    BY <1>1, RefuseStep
<1>2. ASSUME NEW i \in 1..size, First(x, i),
             mem' = [mem EXCEPT ![data] = [j \in DOMAIN @ |->
                         IF i <= j /\ j < size THEN @[j+1] ELSE @[j]]],
             size' = size - 1, fault' = FALSE, UNCHANGED <<data, copies>>
      PROVE  StackInv' /\ List!Erase(x)
    <2>1. /\ Entries \in Seq(Values) /\ Len(Entries) = size /\ size \in Nat
          /\ \A j \in 1..size : Entries[j] = mem[data][j]
        BY EntriesAre DEF StackInv
    <2>2. data \in Arrays /\ size <= Len(mem[data])
        BY <2>1, <1>2 DEF StackInv, TypeOK, Fits
    <2>3. PICK s \in Seq(Values) : s = mem[data]
        BY <2>2 DEF StackInv, TypeOK
    <2> DEFINE c == [j \in 1..Len(s) |-> IF i <= j /\ j < size THEN s[j+1] ELSE s[j]]
    <2>4. c \in Seq(Values) /\ Len(c) = Len(s)
        BY <2>1, <2>2, <2>3
    <2>5. mem' = [mem EXCEPT ![data] = c]
        <3>1. DOMAIN s = 1..Len(s) /\ Len(s) \in Nat
            OBVIOUS
        <3> QED BY <1>2, <2>3, <3>1
    <2>6. \A j \in 1..(size - 1) : c[j] = IF j < i THEN s[j] ELSE s[j+1]
        BY <2>1, <2>2, <2>3
    <2> HIDE DEF c
    <2>7. /\ StackInv' /\ Given' = Given
          /\ Entries' \in Seq(Values) /\ Len(Entries') = size - 1
          /\ \A j \in 1..(size - 1) : Entries'[j] = c[j]
        <3>1. size' \in Nat /\ size' <= size
            BY <1>2, <2>1
        <3> QED BY <1>2, <2>2, <2>3, <2>4, <2>5, <3>1, WriteEffect
    <2>8. PICK e \in Seq(Values) : e = Entries
        BY <2>1
    <2>9. PICK w \in Seq(Values) : w = SubSeq(e, 1, i - 1) \o SubSeq(e, i + 1, Len(e))
        BY <2>1, <2>8, Without
    <2>10. Len(w) = size - 1
           /\ \A j \in 1..(size - 1) : w[j] = IF j < i THEN e[j] ELSE e[j+1]
        <3>1. i \in 1..Len(e) /\ Len(e) = size
            BY <2>1, <2>8
        <3> QED BY <2>9, <3>1, Without
    <2>11. ASSUME NEW j \in 1..(size - 1)
           PROVE  Entries'[j] = w[j]
        <3>1. j \in 1..size /\ j + 1 \in 1..size
            BY <2>1
        <3>2. e[j] = s[j] /\ e[j+1] = s[j+1]
            BY <2>1, <2>3, <2>8, <3>1
        <3> QED BY <2>6, <2>7, <2>10, <3>2
    <2>12. Entries' = w
        BY <2>7, <2>10, <2>11, Same
    <2>13. List!RemoveFirst(Entries, x) = w
        <3>1. e[i] = x /\ \A j \in 1..(i-1) : e[j] # x
            BY <1>2, <2>8 DEF First
        <3> QED BY <2>1, <2>8, <2>9, <3>1, RemoveFirstIs, ZenonT(30)
    <2> QED BY <1>2, <2>7, <2>12, <2>13 DEF List!Erase, List!Change, Given
<1> QED BY <1>1, <1>2 DEF Erase

(* PushLast is Cycle of the list. *)
LEMMA PushLastStep ==
    ASSUME StackInv, PushLast
    PROVE  StackInv' /\ (List!Cycle \/ \E panics \in BOOLEAN : List!Refuse(panics))
<1>1. CASE Stay
    BY <1>1, RefuseStep
<1>2. ASSUME size > 0,
             mem' = [mem EXCEPT ![data] = [j \in DOMAIN @ |->
                         IF j < size THEN @[j+1] ELSE IF j = size THEN @[1] ELSE @[j]]],
             fault' = FALSE, UNCHANGED <<data, size, copies>>
      PROVE  StackInv' /\ List!Cycle
    <2>1. /\ Entries \in Seq(Values) /\ Len(Entries) = size /\ size \in Nat
          /\ \A j \in 1..size : Entries[j] = mem[data][j]
        BY EntriesAre DEF StackInv
    <2>2. data \in Arrays /\ size <= Len(mem[data])
        BY <2>1, <1>2 DEF StackInv, TypeOK, Fits
    <2>3. PICK s \in Seq(Values) : s = mem[data]
        BY <2>2 DEF StackInv, TypeOK
    <2> DEFINE c == [j \in 1..Len(s) |->
                         IF j < size THEN s[j+1] ELSE IF j = size THEN s[1] ELSE s[j]]
    <2>4. c \in Seq(Values) /\ Len(c) = Len(s)
        BY <1>2, <2>1, <2>2, <2>3
    <2>5. mem' = [mem EXCEPT ![data] = c]
        <3>1. DOMAIN s = 1..Len(s) /\ Len(s) \in Nat
            OBVIOUS
        <3> QED BY <1>2, <2>3, <3>1
    <2>6. \A j \in 1..size : c[j] = IF j < size THEN s[j+1] ELSE s[1]
        BY <2>1, <2>2, <2>3
    <2> HIDE DEF c
    <2>7. /\ StackInv' /\ Given' = Given
          /\ Entries' \in Seq(Values) /\ Len(Entries') = size
          /\ \A j \in 1..size : Entries'[j] = c[j]
        <3>1. size' \in Nat /\ size' <= size
            BY <1>2, <2>1
        <3> QED BY <1>2, <2>2, <2>3, <2>4, <2>5, <3>1, WriteEffect
    <2>8. PICK e \in Seq(Values) : e = Entries
        BY <2>1
    <2>9. /\ Append(Tail(e), Head(e)) \in Seq(Values)
          /\ Len(Append(Tail(e), Head(e))) = size
          /\ \A j \in 1..size : Append(Tail(e), Head(e))[j] = IF j < size THEN e[j+1] ELSE e[1]
        BY <1>2, <2>1, <2>8
    <2>10. PICK w \in Seq(Values) : w = Append(Tail(e), Head(e))
        BY <2>9
    <2>11. ASSUME NEW j \in 1..size
           PROVE  Entries'[j] = w[j]
        <3>1. 1 \in 1..size /\ (j < size => j + 1 \in 1..size)
            BY <1>2, <2>1
        <3>2. e[1] = s[1] /\ (j < size => e[j+1] = s[j+1])
            BY <2>1, <2>3, <2>8, <3>1
        <3> QED BY <2>6, <2>7, <2>9, <2>10, <3>2
    <2>12. Entries' = w
        BY <2>7, <2>9, <2>10, <2>11, Same
    <2>13. Entries # <<>>
        BY <1>2, <2>1
    <2> QED BY <1>2, <2>7, <2>8, <2>10, <2>12, <2>13 DEF List!Cycle, List!Change, Given
<1> QED BY <1>1, <1>2 DEF PushLast

(* Replace is Set of the list. *)
LEMMA ReplaceStep ==
    ASSUME StackInv, NEW index \in Int, NEW x \in Values, Replace(index, x)
    PROVE  /\ StackInv'
           /\ \/ index + 1 \in DOMAIN Entries /\ List!Set(index + 1, x)
              \/ \E panics \in BOOLEAN : List!Refuse(panics)
<1>1. CASE Stay \/ Panic
    BY <1>1, RefuseStep
<1>2. ASSUME 0 <= index, index < size,
             mem' = [mem EXCEPT ![data][index + 1] = x],
             fault' = FALSE, UNCHANGED <<data, size, copies>>
      PROVE  StackInv' /\ index + 1 \in DOMAIN Entries /\ List!Set(index + 1, x)
    <2>1. /\ Entries \in Seq(Values) /\ Len(Entries) = size /\ size \in Nat
          /\ \A j \in 1..size : Entries[j] = mem[data][j]
        BY EntriesAre DEF StackInv
    <2>2. data \in Arrays /\ size <= Len(mem[data])
        BY <2>1, <1>2 DEF StackInv, TypeOK, Fits
    <2>3. PICK s \in Seq(Values) : s = mem[data]
        BY <2>2 DEF StackInv, TypeOK
    <2>4. PICK c : c = [s EXCEPT ![index + 1] = x]
        OBVIOUS
    <2>5. c \in Seq(Values) /\ Len(c) = Len(s)
        BY <1>2, <2>1, <2>2, <2>3, <2>4
    <2>6. mem' = [mem EXCEPT ![data] = c]
        BY <1>2, <2>3, <2>4
    <2>7. \A j \in 1..size : c[j] = IF j = index + 1 THEN x ELSE s[j]
        BY <1>2, <2>1, <2>2, <2>3, <2>4
    <2>8. /\ StackInv' /\ Given' = Given
          /\ Entries' \in Seq(Values) /\ Len(Entries') = size
          /\ \A j \in 1..size : Entries'[j] = c[j]
        <3>1. size' \in Nat /\ size' <= size
            BY <1>2, <2>1
        <3> QED BY <1>2, <2>2, <2>3, <2>5, <2>6, <3>1, WriteEffect
    <2>9. PICK e \in Seq(Values) : e = Entries
        BY <2>1
    <2>10. PICK w : w = [e EXCEPT ![index + 1] = x]
        OBVIOUS
    <2>11. w \in Seq(Values) /\ Len(w) = size
           /\ \A j \in 1..size : w[j] = IF j = index + 1 THEN x ELSE e[j]
        BY <1>2, <2>1, <2>9, <2>10
    <2>12. ASSUME NEW j \in 1..size
           PROVE  Entries'[j] = w[j]
        BY <2>1, <2>3, <2>7, <2>8, <2>9, <2>11
    <2>13. Entries' = w
        BY <2>8, <2>11, <2>12, Same
    <2>14. index + 1 \in DOMAIN Entries
        BY <1>2, <2>1
    <2> QED BY <1>2, <2>8, <2>9, <2>10, <2>13, <2>14 DEF List!Set, List!Change, Given
<1> QED BY <1>1, <1>2 DEF Replace

(* Moving the list to a new order of its entries; nothing happens to it where
   the part to be moved is empty. *)
LEMMA RearrangeStep ==
    ASSUME StackInv, NEW from \in Int, NEW to \in Int, Rearrange(from, to)
    PROVE  /\ StackInv'
           /\ \/ /\ from \in 0..Len(Entries)-1 /\ to \in 0..Len(Entries)-1
                 /\ from <= to /\ List!Bring(from, to)
              \/ \E panics \in BOOLEAN : List!Refuse(panics)
<1>1. CASE Stay \/ Panic
    BY <1>1, RefuseStep
<1>2. ASSUME 0 <= from, from <= to + 1, to < size,
             Move(SubSeq(Entries, from + 1, to + 1)
                    \o SubSeq(Entries, 1, from) \o SubSeq(Entries, to + 2, size))
      PROVE  /\ StackInv'
             /\ \/ /\ from \in 0..Len(Entries)-1 /\ to \in 0..Len(Entries)-1
                   /\ from <= to /\ List!Bring(from, to)
                \/ List!Refuse(FALSE)
    <2>1. PICK e \in Seq(Values) : e = Entries
        BY EntriesAre DEF StackInv
    <2>2. Len(e) = size /\ size \in Nat /\ size <= MaxLen
        BY <2>1, EntriesAre DEF StackInv, TypeOK, StackAssumption
    <2>3. PICK a \in Seq(Values) : a = SubSeq(e, from + 1, to + 1)
        <3>1. /\ from + 1 \in Int /\ to + 1 \in Int /\ 1 <= from + 1
              /\ to + 1 <= Len(e) /\ from + 1 <= to + 1 + 1
            BY <1>2, <2>2
        <3>2. SubSeq(e, from + 1, to + 1) \in Seq(Values)
            BY <3>1, Slices
        <3> QED BY <3>2
    <2>4. PICK b \in Seq(Values) : b = SubSeq(e, 1, from)
        <3>1. from <= Len(e) /\ 1 <= from + 1
            BY <1>2, <2>2
        <3>2. SubSeq(e, 1, from) \in Seq(Values)
            BY <3>1, Slices
        <3> QED BY <3>2
    <2>5. PICK d \in Seq(Values) : d = SubSeq(e, to + 2, size)
        <3>1. to + 2 \in Int /\ 1 <= to + 2 /\ size <= Len(e) /\ to + 2 <= size + 1
            BY <1>2, <2>2
        <3>2. SubSeq(e, to + 2, size) \in Seq(Values)
            BY <2>2, <3>1, Slices
        <3> QED BY <3>2
    <2>6. /\ Len(a) = to - from + 1 /\ Len(b) = from /\ Len(d) = size - to - 1
          /\ \A i \in 1..(to - from + 1) : a[i] = e[from + i]
          /\ \A i \in 1..from : b[i] = e[i]
          /\ \A i \in 1..(size - to - 1) : d[i] = e[to + 1 + i]
        <3>1. /\ from + 1 \in Int /\ to + 1 \in Int /\ 1 <= from + 1
              /\ to + 1 <= Len(e) /\ from + 1 <= to + 1 + 1
            BY <1>2, <2>2
        <3>2. from <= Len(e) /\ 1 <= from + 1
            BY <1>2, <2>2
        <3>3. to + 2 \in Int /\ 1 <= to + 2 /\ size <= Len(e) /\ to + 2 <= size + 1
            BY <1>2, <2>2
        <3>4. Len(a) = (to + 1) - (from + 1) + 1
              /\ \A i \in 1..((to + 1) - (from + 1) + 1) : a[i] = e[from + 1 + i - 1]
            BY <2>3, <3>1, Slices
        <3>5. Len(b) = from - 1 + 1 /\ \A i \in 1..(from - 1 + 1) : b[i] = e[1 + i - 1]
            BY <2>4, <3>2, Slices
        <3>6. Len(d) = size - (to + 2) + 1
              /\ \A i \in 1..(size - (to + 2) + 1) : d[i] = e[to + 2 + i - 1]
            BY <2>2, <2>5, <3>3, Slices
        <3> QED BY <2>2, <3>4, <3>5, <3>6
    <2>7. (a \o b) \o d \in Seq(Values) /\ Len((a \o b) \o d) = size
        <3>1. a \o b \in Seq(Values) /\ Len(a \o b) = to + 1
            BY <2>6, Joined
        <3>2. PICK ab \in Seq(Values) : ab = a \o b
            BY <3>1
        <3>3. ab \o d \in Seq(Values) /\ Len(ab \o d) = Len(ab) + Len(d)
            BY Joined
        <3> QED BY <2>2, <2>6, <3>1, <3>2, <3>3
    <2>8. StackInv' /\ Entries' = (a \o b) \o d /\ Given' = Given /\ fault' = FALSE
        <3>1. PICK w \in Seq(Values) : w = (a \o b) \o d
            BY <2>7
        <3>2. Len(w) <= MaxLen /\ Move(w)
            BY <1>2, <2>1, <2>2, <2>3, <2>4, <2>5, <2>7, <3>1
        <3> QED BY <3>1, <3>2, MoveEffect
    <2>9. CASE from <= to
        <3>1. from \in 0..Len(Entries)-1 /\ to \in 0..Len(Entries)-1
            BY <1>2, <2>1, <2>2, <2>9
        <3>2. Entries' = SubSeq(e, from + 1, to + 1) \o SubSeq(e, 1, from) \o SubSeq(e, to + 2, Len(e))
            BY <2>2, <2>3, <2>4, <2>5, <2>8
        <3>3. List!Bring(from, to)
            BY <2>1, <2>8, <3>2 DEF List!Bring, List!Change, Given
        <3> QED BY <2>8, <2>9, <3>1, <3>3
    <2>10. CASE from = to + 1
        <3>1. Len(a) = 0 /\ Len(b) = from /\ Len(d) = size - from
            BY <2>2, <2>6, <2>10
        <3>2. PICK ab \in Seq(Values) : ab = a \o b
            BY Joined
        <3>3. Len(ab) = from /\ \A i \in 1..from : ab[i] = e[i]
            BY <2>6, <3>1, <3>2, Joined
        <3>4. PICK w \in Seq(Values) : w = ab \o d
            BY Joined
        <3>5. ASSUME NEW i \in 1..size
              PROVE  w[i] = e[i]
            <4>1. CASE i <= from
                <5>1. i \in 1..Len(ab) /\ i \in 1..from
                    BY <3>3, <4>1
                <5> QED BY <3>3, <3>4, <5>1, Joined
            <4>2. CASE i > from
                <5>1. i - from \in 1..(size - to - 1) /\ i - from \in 1..Len(d)
                      /\ Len(ab) + (i - from) = i /\ to + 1 + (i - from) = i
                    BY <2>2, <2>6, <2>10, <3>3, <4>2
                <5>2. (ab \o d)[Len(ab) + (i - from)] = d[i - from]
                    <6>1. \A k \in 1..Len(d) : (ab \o d)[Len(ab) + k] = d[k]
                        BY Joined
                    <6> QED BY <5>1, <6>1
                <5>3. d[i - from] = e[i]
                    BY <2>6, <5>1
                <5> QED BY <3>4, <5>1, <5>2, <5>3
            <4>3. i <= from \/ i > from
                BY <2>2
            <4> QED BY <4>1, <4>2, <4>3
        <3>6. Len(w) = Len(e)
            BY <2>2, <2>7, <3>2, <3>4
        <3>7. w = e
            BY <2>2, <3>5, <3>6, Same
        <3>8. List!Refuse(FALSE)
            BY <2>1, <2>8, <3>2, <3>4, <3>7 DEF List!Refuse, Given
        <3> QED BY <2>8, <3>8
    <2>11. from <= to \/ from = to + 1
        BY <1>2
    <2> QED BY <2>9, <2>10, <2>11
<1> QED BY <1>1, <1>2 DEF Rearrange

(* What is done to the copy of one holder reaches neither the list nor the
   copies of the others. *)
LEMMA CopyEffect ==
    ASSUME StackInv, NEW h \in Holders, NEW a \in Arrays, a # data,
           \A g \in Holders \ {h} : copies[g] # a,
           NEW c \in Seq(Values), NEW k \in {a, None}, k = None => c = <<>>,
           mem' = [mem EXCEPT ![a] = c], copies' = [copies EXCEPT ![h] = k],
           UNCHANGED <<data, size>>, fault' \in BOOLEAN
    PROVE  StackInv' /\ Entries' = Entries /\ Given' = [Given EXCEPT ![h] = c]
<1>1. /\ mem \in [Arrays -> Seq(Values)]
      /\ data \in Arrays \cup {None}
      /\ copies \in [Holders -> Arrays \cup {None}]
      /\ size \in Nat
    BY DEF StackInv, TypeOK, StackAssumption
<1>2. /\ mem' \in [Arrays -> Seq(Values)] /\ mem'[a] = c
      /\ \A b \in Arrays \ {a} : mem'[b] = mem[b]
    BY <1>1
<1>3. /\ copies' \in [Holders -> Arrays \cup {None}] /\ copies'[h] = k
      /\ \A g \in Holders \ {h} : copies'[g] = copies[g]
    BY <1>1
<1>4. TypeOK'
    BY <1>1, <1>2, <1>3 DEF StackInv, TypeOK
<1>5. data # None => mem'[data] = mem[data]
    BY <1>1, <1>2
<1>6. Fits'
    BY <1>5 DEF StackInv, Fits
<1>7. Apart'
    BY <1>3 DEF StackInv, Apart
<1>8. Entries' = Entries
    <2>1. CASE size = 0
        BY <2>1 DEF Entries, At
    <2>2. CASE size # 0
        <3>1. mem'[data] = mem[data]
            BY <1>5, <2>2 DEF StackInv, Fits
        <3>2. Entries = SubSeq(mem[data], 1, size)
            BY <2>2 DEF Entries, At
        <3>3. Entries' = SubSeq(mem'[data'], 1, size')
            BY <2>2 DEF Entries, At
        <3>4. data' = data /\ size' = size
            OBVIOUS
        <3> QED BY <3>1, <3>2, <3>3, <3>4
    <2> QED BY <2>1, <2>2
<1>9. Given' = [Given EXCEPT ![h] = c]
    <2>1. ASSUME NEW g \in Holders
          PROVE  (IF copies'[g] = None THEN <<>> ELSE mem'[copies'[g]])
                   = IF g = h THEN c ELSE IF copies[g] = None THEN <<>> ELSE mem[copies[g]]
        <3>1. CASE g = h
            BY <1>2, <1>3, <3>1
        <3>2. CASE g # h
            BY <1>1, <1>2, <1>3, <3>2
        <3> QED BY <3>1, <3>2
    <2>2. Given' = [g \in Holders |-> IF copies'[g] = None THEN <<>> ELSE mem'[copies'[g]]]
        BY DEF Given
    <2>3. [Given EXCEPT ![h] = c]
            = [g \in Holders |-> IF g = h THEN c
                                 ELSE IF copies[g] = None THEN <<>> ELSE mem[copies[g]]]
        BY DEF Given
    <2> QED BY <2>1, <2>2, <2>3
<1> QED BY <1>4, <1>6, <1>7, <1>8, <1>9 DEF StackInv

(* Range and Max give a holder what the list is, on an array of its own. *)
LEMMA RangeStep ==
    ASSUME StackInv, NEW h \in Holders, NEW limit \in Int, Range(h, limit)
    PROVE  StackInv' /\ \E n \in 0..Len(Entries) : List!Copy(h, n)
<1>1. Len(Entries) = size /\ size \in Nat /\ \A j \in 1..size : Entries[j] = mem[data][j]
    BY EntriesAre DEF StackInv
<1>2. PICK e \in Seq(Values) : e = Entries
    BY EntriesAre DEF StackInv
<1>3. PICK n \in 0..size :
        /\ copies[h] = None
        /\ mem' = [mem EXCEPT ![Unused] = At(data, n)]
        /\ copies' = [copies EXCEPT ![h] = Unused]
        /\ fault' = FALSE
        /\ UNCHANGED <<data, size>>
    <2>1. (IF limit < 0 THEN 0 ELSE IF limit > size THEN size ELSE limit) \in 0..size
        BY <1>1
    <2> QED BY <2>1 DEF Range
<1>4. At(data, n) \in Seq(Values) /\ At(data, n) = SubSeq(e, 1, n)
    <2>1. SubSeq(e, 1, n) \in Seq(Values) /\ Len(SubSeq(e, 1, n)) = n
          /\ \A j \in 1..n : SubSeq(e, 1, n)[j] = e[j]
        BY <1>1, <1>2
    <2>2. CASE n = 0
        BY <2>1, <2>2 DEF At
    <2>3. CASE n # 0
        <3>1. data \in Arrays /\ size <= Len(mem[data])
            BY <1>1, <2>3 DEF StackInv, TypeOK, Fits
        <3>2. PICK s \in Seq(Values) : s = mem[data]
            BY <3>1 DEF StackInv, TypeOK
        <3>3. SubSeq(s, 1, n) \in Seq(Values) /\ Len(SubSeq(s, 1, n)) = n
              /\ \A j \in 1..n : SubSeq(s, 1, n)[j] = s[j]
            BY <1>1, <2>3, <3>1, <3>2
        <3>4. \A j \in 1..n : SubSeq(s, 1, n)[j] = SubSeq(e, 1, n)[j]
            BY <1>1, <1>2, <2>1, <3>2, <3>3
        <3>5. SubSeq(s, 1, n) = SubSeq(e, 1, n)
            BY <2>1, <3>3, <3>4, Same
        <3> QED BY <2>1, <2>3, <3>2, <3>5 DEF At
    <2> QED BY <2>2, <2>3
<1>5. StackInv' /\ Entries' = Entries /\ Given' = [Given EXCEPT ![h] = At(data, n)]
    <2>1. PICK c \in Seq(Values) : c = At(data, n)
        BY <1>4
    <2>2. Unused \in Arrays /\ Unused # None
          /\ Unused # data /\ \A g \in Holders : copies[g] # Unused
        BY UnusedIsFree DEF StackInv
    <2>3. PICK a \in Arrays : a = Unused
        BY <2>2
    <2> QED BY <1>3, <2>1, <2>2, <2>3, CopyEffect
<1>6. List!Copy(h, n)
    BY <1>2, <1>3, <1>4, <1>5 DEF List!Copy, Given
<1> QED BY <1>1, <1>5, <1>6

(* Who writes into a copy writes into that one only. *)
LEMMA ScribbleStep ==
    ASSUME StackInv, NEW h \in Holders, NEW i, NEW x \in Values, Scribble(h, i, x)
    PROVE  StackInv' /\ i \in DOMAIN Given[h] /\ List!Write(h, i, x)
<1>1. /\ copies[h] # None /\ i \in DOMAIN mem[copies[h]]
      /\ mem' = [mem EXCEPT ![copies[h]][i] = x]
      /\ UNCHANGED <<data, size, copies, fault>>
    BY DEF Scribble
<1>2. PICK a \in Arrays : a = copies[h]
    BY <1>1 DEF StackInv, TypeOK
<1>3. PICK s \in Seq(Values) : s = mem[a]
    BY DEF StackInv, TypeOK
<1>4. Given[h] = s
    BY <1>1, <1>2, <1>3 DEF Given
<1>5. [s EXCEPT ![i] = x] \in Seq(Values)
    BY <1>1, <1>2, <1>3
<1>6. PICK c \in Seq(Values) : c = [s EXCEPT ![i] = x]
    BY <1>5
<1>7. mem' = [mem EXCEPT ![a] = c]
    BY <1>1, <1>2, <1>3, <1>6
<1>8. copies' = [copies EXCEPT ![h] = a]
    BY <1>1, <1>2 DEF StackInv, TypeOK
<1>9. StackInv' /\ Entries' = Entries /\ Given' = [Given EXCEPT ![h] = c]
    <2>1. a # data /\ (\A g \in Holders \ {h} : copies[g] # a) /\ a # None
        BY <1>1, <1>2 DEF StackInv, Apart
    <2>2. fault' \in BOOLEAN
        BY <1>1 DEF StackInv, TypeOK
    <2>3. PICK k \in {a, None} : k = a
        OBVIOUS
    <2>4. (k = None => c = <<>>) /\ copies' = [copies EXCEPT ![h] = k]
        BY <1>8, <2>1, <2>3
    <2>5. UNCHANGED <<data, size>>
        BY <1>1
    <2> QED BY <1>7, <2>1, <2>2, <2>4, <2>5, CopyEffect
<1>10. Given' = [Given EXCEPT ![h][i] = x]
    BY <1>4, <1>6, <1>9
<1>11. List!Write(h, i, x)
    BY <1>1, <1>9, <1>10 DEF List!Write, Given
<1> QED BY <1>1, <1>2, <1>3, <1>4, <1>9, <1>11

(* A copy that is let go is gone. *)
LEMMA ReleaseStep ==
    ASSUME StackInv, NEW h \in Holders, Release(h)
    PROVE  StackInv' /\ List!Forget(h)
<1>1. /\ copies[h] # None
      /\ mem' = [mem EXCEPT ![copies[h]] = <<>>]
      /\ copies' = [copies EXCEPT ![h] = None]
      /\ UNCHANGED <<data, size, fault>>
    BY DEF Release
<1>2. PICK a \in Arrays : a = copies[h]
    BY <1>1 DEF StackInv, TypeOK
<1>3. PICK c \in Seq(Values) : c = <<>>
    <2>1. <<>> \in Seq(Values)
        OBVIOUS
    <2> QED BY <2>1
<1>4. StackInv' /\ Entries' = Entries /\ Given' = [Given EXCEPT ![h] = c]
    <2>1. a # data /\ (\A g \in Holders \ {h} : copies[g] # a)
        BY <1>1, <1>2 DEF StackInv, Apart
    <2>2. fault' \in BOOLEAN
        BY <1>1 DEF StackInv, TypeOK
    <2> QED BY <1>1, <1>2, <1>3, <2>1, <2>2, CopyEffect
<1> QED BY <1>1, <1>3, <1>4 DEF List!Forget, Given

(* Every step keeps the copies on arrays of their own and is one of the list. *)
LEMMA StackStep ==
    ASSUME StackInv, [Next]_vars
    PROVE  StackInv' /\ [List!Next]_List!vars
<1>1. CASE \E x \in Values : Push(x) \/ Erase(x)
    BY <1>1, PushStep, EraseStep DEF List!Next
<1>2. CASE \E from, to \in Positions : Rearrange(from, to)
    <2>1. PICK from, to \in Int : Rearrange(from, to)
        BY <1>2 DEF Positions, StackAssumption
    <2> QED BY <2>1, RearrangeStep DEF List!Next
<1>3. CASE PushLast
    BY <1>3, PushLastStep DEF List!Next
<1>4. CASE \E index \in Positions, x \in Values : Replace(index, x)
    <2>1. PICK index \in Int, x \in Values : Replace(index, x)
        BY <1>4 DEF Positions, StackAssumption
    <2> QED BY <2>1, ReplaceStep DEF List!Next
<1>5. ASSUME NEW h \in Holders,
             \/ Max(h) \/ Release(h)
             \/ \E limit \in Positions : Range(h, limit)
             \/ \E i \in 1..MaxLen, x \in Values : Scribble(h, i, x)
      PROVE  StackInv' /\ List!Next
    <2>1. CASE Max(h) \/ \E limit \in Positions : Range(h, limit)
        <3>1. size \in Int
            BY DEF StackInv, TypeOK, StackAssumption
        <3>2. PICK limit \in Int : Range(h, limit)
            BY <2>1, <3>1 DEF Max, Positions, StackAssumption
        <3> QED BY <3>2, RangeStep DEF List!Next
    <2>2. CASE Release(h)
        BY <2>2, ReleaseStep DEF List!Next
    <2>3. CASE \E i \in 1..MaxLen, x \in Values : Scribble(h, i, x)
        <3>1. PICK i \in 1..MaxLen, x \in Values : Scribble(h, i, x)
            BY <2>3
        <3>2. i \in DOMAIN Given[h] /\ List!Write(h, i, x) /\ StackInv'
            BY <3>1, ScribbleStep
        <3> QED BY <3>2 DEF List!Next, Given
    <2> QED BY <1>5, <2>1, <2>2, <2>3
<1>6. CASE UNCHANGED vars
    <2>1. TypeOK' /\ Fits' /\ Apart'
        BY <1>6 DEF StackInv, TypeOK, Fits, Apart, vars
    <2>2. Entries' = Entries /\ Given' = Given /\ fault' = fault
        BY <1>6 DEF Entries, At, Given, vars
    <2> QED BY <2>1, <2>2 DEF StackInv, List!vars, Given
<1> QED BY <1>1, <1>2, <1>3, <1>4, <1>5, <1>6 DEF Next

(* Both begin without entries. *)
LEMMA StackInit == Init => StackInv /\ List!Init
<1> SUFFICES ASSUME Init PROVE StackInv /\ List!Init
    OBVIOUS
<1>1. <<>> \in Seq(Values) /\ 0 \in 0..MaxLen
    BY DEF StackAssumption
<1>2. TypeOK /\ Fits /\ Apart
    BY <1>1 DEF Init, TypeOK, Fits, Apart
<1>3. Entries = <<>> /\ Given = [h \in Holders |-> <<>>]
    BY DEF Init, Entries, At, Given
<1> QED BY <1>2, <1>3 DEF StackInv, Init, List!Init, Given

(* The slice of the stack lies within its array, and no slice that Range or Max
   handed out is on that array or on that of another one. *)
THEOREM StackInvariance == Spec => []StackInv
<1>1. Init => StackInv
    BY StackInit
<1>2. StackInv /\ [Next]_vars => StackInv'
    BY StackStep
<1> QED BY <1>1, <1>2, PTL DEF Spec

(* Through shifts within the array, moves to another one, calls out of range
   and panics, golang/stack is a list whose calls do what they say, and the
   slices it hands out belong to those who asked for them. *)
THEOREM StackImplementsList == Spec => ImplementsList
<1>1. Init => List!Init
    BY StackInit
<1>2. StackInv /\ [Next]_vars => [List!Next]_List!vars
    BY StackStep
<1> QED BY <1>1, <1>2, StackInvariance, PTL DEF Spec, ImplementsList, List!Spec
============================================================================
