---------------------------- MODULE PartsProofs ----------------------------
(***************************************************************************)
(* What the two loops of Cutter do to every buffer, for every target size, *)
(* divisor and number of cuts.  The inductive invariant adds to the two    *)
(* properties what is known in the middle of a scan: the byte kept is the  *)
(* extremum of what was looked at, and no chunk could have ended there.    *)
(*                                                                         *)
(* A link cuts as Cutter does: every step of Parts is a step of Cutter or  *)
(* none, for the buffers it passes on are never empty.  What is proved of  *)
(* Cutter for every buffer then holds of every file that is shared.        *)
(*                                                                         *)
(* The invariant of Parts follows the bytes: a slice lies in the buffer as *)
(* many whole Reads before its place in the file; the buffer has at each   *)
(* place the latest byte read there; the part files are the slices, in     *)
(* order; the tracker has what was sent and not lost; and the joiner has   *)
(* come to the end of some part of the file.                               *)
(***************************************************************************)
EXTENDS Parts, FiniteSetTheorems, SequenceTheorems, TLAPS

Scanned ==
    cutter = "scan" =>
       /\ cursor < Len(data)
       /\ i \in 1..L /\ maxPos < i
       /\ ExtremumAt(cursor, cursor + maxPos, cursor + i - 1)
       /\ \A p \in (cursor + 1)..(cursor + i - 1) : ~EndsAt(cursor, p)

CutterInv == CutterTypeOK /\ Partition /\ CutAtExtremum /\ Scanned

-----------------------------------------------------------------------------
(* Bounds of the parameters: a window may be 0 in Rust, a boundary never.  *)
LEMMA ProductPositive ==
    ASSUME NEW a \in Nat \ {0}, NEW b \in Nat \ {0}
    PROVE  a * b \in Nat \ {0}
  BY SMT

(* Quotients, and the greater and the lesser of two numbers, stay numbers. *)
LEMMA QuotientNatural ==
    ASSUME NEW a \in Nat, NEW b \in Nat \ {0}
    PROVE  a \div b \in Nat
  BY SMT

(* The greater of two numbers is positive if one of them is. *)
LEMMA GreatestPositive ==
    ASSUME NEW a \in Nat, NEW b \in Nat
    PROVE  /\ Greatest(a, b) \in Nat /\ Least(a, b) \in Nat
           /\ a > 0 \/ b > 0 => Greatest(a, b) \in Nat \ {0}
  BY DEF Greatest, Least

(* Both programs come to a window, and to a boundary that is not zero. *)
LEMMA ParamsTyped ==
    ASSUME CutterTypeOK, NEW buffer \in Seq(Values), NEW size \in Nat
    PROVE  ParamsFor(buffer, size) \in [window : Nat, boundary : Nat \ {0}]
<1> DEFINE c == Cuts[style]
           d == Divisor[style]
<1>1. c \in Nat \ {0} /\ d \in Nat \ {0} /\ Len(buffer) \in Nat
      /\ FileCap \in Nat
  BY CutterAssumption DEF CutterTypeOK
<1> HIDE DEF c, d
<1>2. CASE style = "go"
  <2> DEFINE q == Len(buffer) \div Greatest(c, 1)
             f == Greatest(Least(q, size), 1)
             t == Greatest(f, 1)
             w == t \div Greatest(2, d)
  <2>1. Greatest(c, 1) \in Nat \ {0} BY <1>1 DEF Greatest
  <2>2. q \in Nat BY <2>1, <1>1, QuotientNatural
  <2> HIDE DEF q
  <2>3. f \in Nat \ {0}
    <3>1. Least(q, size) \in Nat BY <2>2 DEF Greatest, Least
    <3> QED BY <3>1 DEF Greatest
  <2> HIDE DEF f
  <2>4. t \in Nat \ {0} BY <2>3 DEF Greatest
  <2>5. Greatest(2, d) \in Nat \ {0} BY <1>1 DEF Greatest
  <2> HIDE DEF t
  <2>6. w \in Nat BY <2>4, <2>5, QuotientNatural
  <2> HIDE DEF w
  <2>7. Greatest(w, 1) \in Nat BY <2>6 DEF Greatest
  <2>8. Greatest(1, c) \in Nat \ {0} BY <1>1 DEF Greatest
  <2>9. t * Greatest(1, c) \in Nat \ {0} BY <2>4, <2>8, ProductPositive
  <2>10. ParamsFor(buffer, size)
           = [window |-> Greatest(w, 1), boundary |-> t * Greatest(1, c)]
    BY <1>2, Zenon DEF ParamsFor, GoParams, GoFindSizes, c, d, q, f, t, w
  <2> QED BY <2>7, <2>9, <2>10
<1>3. CASE style # "go"
  <2> DEFINE f == Least(FileCap \div Greatest(c, 1), Len(buffer))
             t == Greatest(f, 1)
  <2>1. Greatest(c, 1) \in Nat \ {0} BY <1>1 DEF Greatest
  <2>2. FileCap \div Greatest(c, 1) \in Nat BY <2>1, <1>1, QuotientNatural
  <2>3. f \in Nat BY <2>2, <1>1, GreatestPositive
  <2> HIDE DEF f
  <2>4. t \in Nat \ {0} BY <2>3 DEF Greatest
  <2> HIDE DEF t
  <2>5. t \div d \in Nat BY <2>4, <1>1, QuotientNatural
  <2>6. t * c \in Nat \ {0} BY <2>4, <1>1, ProductPositive
  <2>7. ParamsFor(buffer, size) = [window |-> t \div d, boundary |-> t * c]
    BY <1>3, Zenon DEF ParamsFor, RustParams, RustFindSizes, c, d, f, t
  <2> QED BY <2>5, <2>6, <2>7
<1> QED BY <1>2, <1>3

-----------------------------------------------------------------------------
(* A chunk is at most what the boundary and the buffer allow. *)
LEMMA LimitIsL ==
    ASSUME CutterTypeOK
    PROVE  /\ L \in Nat /\ cursor + L = Limit(cursor)
           /\ L <= Len(data) - cursor
           /\ cursor < Len(data) => L >= 1
  BY DEF CutterTypeOK, L, Limit, Least

(* A byte within the buffer is a number. *)
LEMMA AtNatural ==
    ASSUME CutterTypeOK, NEW p \in 0..(Len(data) - 1)
    PROVE  At(p) \in Nat
<1>1. data \in Seq(Values) /\ p + 1 \in 1..Len(data)
  BY DEF CutterTypeOK
<1>2. data[p + 1] \in Values
  BY <1>1
<1> QED BY <1>2, CutterAssumption DEF At

(* Two bytes cannot both be the extremum of the same stretch. *)
LEMMA ExtremumUnique ==
    ASSUME CutterTypeOK, NEW from \in Nat, NEW p \in 0..(Len(data) - 1),
           NEW m \in from..p, NEW n \in from..p,
           ExtremumAt(from, m, p), ExtremumAt(from, n, p)
    PROVE  m = n
<1>1. At(m) \in Nat /\ At(n) \in Nat
  BY AtNatural DEF CutterTypeOK
<1>2. ASSUME m < n PROVE FALSE
  BY <1>1, <1>2 DEF ExtremumAt
<1>3. ASSUME n < m PROVE FALSE
  BY <1>1, <1>3 DEF ExtremumAt
<1> QED BY <1>2, <1>3

(* The invariant of the cutter holds at first. *)
LEMMA Initially == ASSUME CutterInit PROVE CutterInv
  BY DEF CutterInit, CutterIdle, CutterInv, CutterTypeOK, Partition,
         CutAtExtremum, Scanned, Styles, Start

(* CreateChunk starts with no cut. *)
LEMMA CreateChunkKeeps ==
    ASSUME CutterInv, NEW buffer \in Seq(Values), NEW size \in Nat,
           CreateChunk(buffer, size)
    PROVE  CutterInv'
<1>1. params' \in [window : Nat, boundary : Nat \ {0}]
  BY ParamsTyped DEF CreateChunk, CutterInv
<1>2. CutterTypeOK'
  BY <1>1 DEF CreateChunk, CutterInv, CutterTypeOK
<1>3. Partition' /\ CutAtExtremum' /\ Scanned'
  BY DEF CreateChunk, Partition, CutAtExtremum, Scanned, Start
<1> QED BY <1>2, <1>3 DEF CutterInv

(* What a step keeps that leaves the buffer and the cuts alone. *)
LEMMA CutsKept ==
    ASSUME CutterInv, UNCHANGED <<style, data, params, cursor, cuts>>,
           cutter # "idle", cutter' \in {"next", "scan"},
           i' \in Nat, maxPos' \in Nat
    PROVE  CutterTypeOK' /\ Partition' /\ CutAtExtremum'
<1>1. CutterTypeOK'
  BY DEF CutterInv, CutterTypeOK
<1>2. Partition'
  BY DEF CutterInv, Partition, Start, Limit
<1>3. CutAtExtremum'
  BY DEF CutterInv, CutAtExtremum, Start, Limit, EndsAt, ExtremumAt, At
<1> QED BY <1>1, <1>2, <1>3

(* A scan starts at the end of the chunk before. *)
LEMMA NextChunkKeeps == ASSUME CutterInv, NextChunk PROVE CutterInv'
<1>1. CutterTypeOK' /\ Partition' /\ CutAtExtremum'
  BY CutsKept DEF NextChunk
<1>2. L >= 1 /\ L \in Nat
  BY LimitIsL DEF CutterInv, NextChunk
<1>3. Scanned'
  <2>1. i' = 1 /\ maxPos' = 0 /\ cursor \in Nat /\ L' = L
    BY DEF NextChunk, CutterInv, CutterTypeOK, L
  <2>2. ExtremumAt(cursor, cursor + 0, cursor + 1 - 1)'
    BY <2>1 DEF ExtremumAt, NextChunk
  <2> QED
    BY <1>2, <2>1, <2>2 DEF Scanned, NextChunk
<1> QED BY <1>1, <1>3 DEF CutterInv

(* A chunk ends n bytes behind the cursor. *)
LEMMA CutKeeps ==
    ASSUME CutterInv, cutter = "scan", NEW n \in 1..L, CutAt(n),
           cursor + n = Limit(cursor) \/ EndsAt(cursor, cursor + n),
           \A p \in (cursor + 1)..(cursor + n - 1) : ~EndsAt(cursor, p)
    PROVE  CutterInv'
<1>1. /\ L \in Nat /\ cursor + L = Limit(cursor)
      /\ L <= Len(data) - cursor
  BY LimitIsL DEF CutterInv
<1>2. /\ cursor \in Nat /\ cursor + n \in Nat \ {0}
      /\ cursor' = cursor + n /\ cuts' = Append(cuts, cursor + n)
      /\ cuts \in Seq(Nat \ {0})
      /\ UNCHANGED <<style, data, params, i, maxPos>> /\ cutter' = "next"
  BY <1>1 DEF CutAt, Greatest, CutterInv, CutterTypeOK
<1>3. /\ Len(cuts') = Len(cuts) + 1 /\ cuts'[Len(cuts) + 1] = cursor + n
      /\ \A k \in 1..Len(cuts) : cuts'[k] = cuts[k]
      /\ Len(cuts) \in Nat
  BY <1>2
<1>4. /\ \A k \in 1..(Len(cuts) + 1) : Start(k)' = Start(k)
      /\ Start(Len(cuts) + 1) = cursor
      /\ Start(Len(cuts) + 1)' = cursor'
  <2>1. Start(Len(cuts) + 1) = cursor
    BY DEF CutterInv, Partition
  <2>2. \A k \in 1..(Len(cuts) + 1) : Start(k)' = Start(k)
    BY <1>3 DEF Start
  <2>3. Start(Len(cuts) + 1)' = cursor'
    <3>1. Len(cuts') + 1 # 1 /\ (Len(cuts') + 1) - 1 = Len(cuts) + 1
      BY <1>3
    <3>2. Start(Len(cuts) + 1)' = cuts'[(Len(cuts') + 1) - 1]
      BY <3>1 DEF Start
    <3> QED BY <3>1, <3>2, <1>2, <1>3
  <2> QED BY <2>1, <2>2, <2>3
<1>5. CutterTypeOK'
  BY <1>1, <1>2 DEF CutterInv, CutterTypeOK
<1>6. \A f : Limit(f)' = Limit(f)
  BY <1>2 DEF Limit
<1>7. \A f, p : EndsAt(f, p)' = EndsAt(f, p)
  BY <1>2 DEF EndsAt, ExtremumAt, At
<1>8. Partition'
  <2>1. ASSUME NEW k \in 1..Len(cuts')
        PROVE  cuts'[k] > Start(k)' /\ cuts'[k] <= Limit(Start(k))'
    <3>1. CASE k \in 1..Len(cuts)
      BY <3>1, <1>3, <1>4, <1>6 DEF CutterInv, Partition
    <3>2. CASE k = Len(cuts) + 1
      BY <3>2, <1>1, <1>2, <1>3, <1>4, <1>6, SMTT(30)
    <3> QED BY <3>1, <3>2, <1>3
  <2>2. cursor' = Start(Len(cuts) + 1)' /\ cutter' # "done"
    BY <1>2, <1>4
  <2> QED BY <2>1, <2>2 DEF Partition
<1>9. CutAtExtremum'
  <2>1. ASSUME NEW k \in 1..Len(cuts')
        PROVE  /\ cuts'[k] = Limit(Start(k))' \/ EndsAt(Start(k), cuts[k])'
               /\ \A p \in (Start(k)' + 1)..(cuts'[k] - 1) :
                     ~EndsAt(Start(k), p)'
    <3>1. CASE k \in 1..Len(cuts)
      <4>1. Start(k)' = Start(k) /\ cuts'[k] = cuts[k]
        BY <3>1, <1>3, <1>4
      <4>2. /\ cuts[k] = Limit(Start(k)) \/ EndsAt(Start(k), cuts[k])
            /\ \A p \in (Start(k) + 1)..(cuts[k] - 1) : ~EndsAt(Start(k), p)
        BY <3>1 DEF CutterInv, CutAtExtremum
      <4> QED BY <4>1, <4>2, <1>2 DEF Limit, EndsAt, ExtremumAt, At
    <3>2. CASE k = Len(cuts) + 1
      <4>1. Start(k)' = cursor /\ cuts'[k] = cursor + n
        BY <3>2, <1>3, <1>4
      <4> QED BY <4>1, <1>2 DEF Limit, EndsAt, ExtremumAt, At
    <3> QED BY <3>1, <3>2, <1>3
  <2> QED BY <2>1 DEF CutAtExtremum
<1>10. Scanned'
  BY <1>2 DEF Scanned
<1> QED BY <1>5, <1>8, <1>9, <1>10 DEF CutterInv

(* What is known wherever the loop looks at its next byte. *)
LEMMA ScanFacts ==
    ASSUME CutterInv, Scanning
    PROVE  /\ cursor \in Nat /\ i \in Nat \ {0} /\ maxPos \in Nat
           /\ L \in Nat /\ i < L /\ maxPos < i
           /\ cursor + i \in 0..(Len(data) - 1)
           /\ ExtremumAt(cursor, cursor + maxPos, cursor + i - 1)
           /\ \A p \in (cursor + 1)..(cursor + i - 1) : ~EndsAt(cursor, p)
           /\ params.window \in Nat
  BY LimitIsL DEF CutterInv, Scanning, Scanned, CutterTypeOK

(* A byte that stays below leaves the extremum where it is. *)
LEMMA BelowKeepsExtremum ==
    ASSUME CutterInv, Scanning, Below(cursor + i, cursor + maxPos)
    PROVE  ExtremumAt(cursor, cursor + maxPos, cursor + i)
  BY ScanFacts DEF ExtremumAt, Below

(* A window behind the extremum is where the definition has the cut. *)
LEMMA FoundExtremumKeeps == ASSUME CutterInv, FoundExtremum PROVE CutterInv'
<1>1. /\ Below(cursor + i, cursor + maxPos)
      /\ i = maxPos + params.window /\ CutAt(i) /\ cutter = "scan"
  BY DEF FoundExtremum, Scanning
<1>s. Scanning
  BY DEF FoundExtremum
<1>f. /\ cursor \in Nat /\ i \in Nat \ {0} /\ maxPos \in Nat
      /\ L \in Nat /\ i < L /\ maxPos < i
      /\ cursor + i \in 0..(Len(data) - 1)
      /\ \A p \in (cursor + 1)..(cursor + i - 1) : ~EndsAt(cursor, p)
      /\ params.window \in Nat
  BY <1>s, ScanFacts
<1>2. ExtremumAt(cursor, cursor + maxPos, cursor + i)
  BY <1>s, <1>1, BelowKeepsExtremum
<1>3. (cursor + i) - params.window = cursor + maxPos
  BY <1>1, <1>f, SMTT(30)
<1>4. EndsAt(cursor, cursor + i)
  <2>1. params.window > 0
    BY <1>1, <1>f
  <2>2. (cursor + i) - params.window >= cursor
    BY <1>3, <1>f
  <2> QED BY <1>2, <1>3, <2>1, <2>2 DEF EndsAt
<1>5. i \in 1..L
  BY <1>f
<1> QED BY <1>1, <1>4, <1>5, <1>f, CutKeeps

(* At the boundary, or at the end, there was no place to cut before. *)
LEMMA NoExtremumKeeps == ASSUME CutterInv, NoExtremum PROVE CutterInv'
<1>1. /\ cutter = "scan" /\ i >= L /\ CutAt(L)
      /\ cursor < Len(data) /\ i \in 1..L /\ cursor \in Nat
      /\ \A p \in (cursor + 1)..(cursor + i - 1) : ~EndsAt(cursor, p)
  BY DEF NoExtremum, CutterInv, Scanned, CutterTypeOK
<1>2. L \in 1..L /\ i = L /\ cursor + L = Limit(cursor)
  BY <1>1, LimitIsL DEF CutterInv
<1> QED BY <1>1, <1>2, CutKeeps

(* A scan step: the extremum is maxPos' now, and no chunk ends at i.       *)
LEMMA ScanOnKeeps ==
    ASSUME CutterInv, Scanning, ScanOn, NEW top \in {maxPos, i}, maxPos' = top,
           ExtremumAt(cursor, cursor + top, cursor + i),
           i # top + params.window \/ params.window = 0
    PROVE  CutterInv'
<1>f. /\ cursor \in Nat /\ i \in Nat \ {0} /\ maxPos \in Nat
      /\ L \in Nat /\ i < L /\ maxPos < i
      /\ cursor + i \in 0..(Len(data) - 1)
      /\ \A p \in (cursor + 1)..(cursor + i - 1) : ~EndsAt(cursor, p)
      /\ params.window \in Nat
  BY ScanFacts
<1>1. /\ UNCHANGED <<style, data, params, cursor, cuts, cutter>>
      /\ i' = i + 1 /\ cutter = "scan" /\ top \in Nat /\ top <= i
      /\ L' = L
  BY <1>f DEF ScanOn, Scanning, L
<1>2. CutterTypeOK' /\ Partition' /\ CutAtExtremum'
  BY <1>1, <1>f, CutsKept
<1>3. ~EndsAt(cursor, cursor + i)
  <2> SUFFICES ASSUME EndsAt(cursor, cursor + i) PROVE FALSE
    OBVIOUS
  <2> DEFINE n == cursor + i - params.window
  <2>1. /\ params.window > 0 /\ n \in cursor..(cursor + i)
        /\ ExtremumAt(cursor, n, cursor + i)
    BY <1>f DEF EndsAt
  <2>2. cursor + top \in cursor..(cursor + i)
    BY <1>1, <1>f
  <2>3. CutterTypeOK /\ cursor \in Nat /\ cursor + i \in 0..(Len(data) - 1)
    BY <1>f DEF CutterInv
  <2> HIDE DEF n
  <2>4. n = cursor + top
    BY <2>1, <2>2, <2>3, ExtremumUnique
  <2> QED BY <2>1, <2>4, <1>1, <1>f, SMTT(30) DEF n
<1>4. Scanned'
  <2>1. /\ cursor < Len(data) /\ i' \in 1..L' /\ maxPos' < i'
        /\ (cursor + i') - 1 = cursor + i
    BY <1>1, <1>f
  <2>2. ExtremumAt(cursor, cursor + maxPos, cursor + i - 1)'
    <3>1. i' = i + 1 /\ cursor' = cursor
      BY <1>1
    <3>2. style' = style /\ data' = data
      BY <1>1
    <3>3. cursor' + maxPos' = cursor + top
      BY <3>1
    <3>4. (\A j \in cursor..(cursor + i - 1) :
              /\ j < cursor + maxPos =>
                    IF style = "go" THEN At(j) < At(cursor + maxPos)
                                    ELSE At(j) <= At(cursor + maxPos)
              /\ j > cursor + maxPos =>
                    IF style = "go" THEN At(j) <= At(cursor + maxPos)
                                    ELSE At(j) < At(cursor + maxPos))'
      BY <3>1, <3>2, <3>3, <1>f DEF ExtremumAt, At
    <3> QED BY <3>4, Zenon DEF ExtremumAt
  <2>3. \A p \in (cursor + 1)..(cursor + i' - 1) : ~EndsAt(cursor, p)
    BY <1>1, <1>3, <1>f
  <2>4. \A p \in (cursor' + 1)..(cursor' + i' - 1) : ~EndsAt(cursor, p)'
    BY <2>3, <1>1 DEF EndsAt, ExtremumAt, At
  <2> QED BY <2>1, <2>2, <2>4, <1>1 DEF Scanned
<1> QED BY <1>2, <1>4 DEF CutterInv

(* A byte that is no new extremum leaves the old one as it is. *)
LEMMA StaysBelowKeeps == ASSUME CutterInv, StaysBelow PROVE CutterInv'
<1>1. Scanning
  BY DEF StaysBelow
<1>3. /\ ScanOn /\ maxPos' = maxPos
      /\ Below(cursor + i, cursor + maxPos) /\ i # maxPos + params.window
  BY DEF StaysBelow
<1>2. ExtremumAt(cursor, cursor + maxPos', cursor + i)
  BY <1>1, <1>3, BelowKeepsExtremum
<1> QED BY <1>1, <1>2, <1>3, ScanOnKeeps

(* A new extremum is that of all that was looked at, and no place to cut. *)
LEMMA NewMaximumKeeps == ASSUME CutterInv, NewMaximum PROVE CutterInv'
<1>1. Scanning
  BY DEF NewMaximum
<1>2. ScanOn /\ maxPos' = i /\ ~Below(cursor + i, cursor + maxPos)
  BY DEF NewMaximum
<1>f. /\ cursor \in Nat /\ i \in Nat \ {0} /\ maxPos \in Nat
      /\ L \in Nat /\ i < L /\ maxPos < i
      /\ cursor + i \in 0..(Len(data) - 1)
      /\ \A p \in (cursor + 1)..(cursor + i - 1) : ~EndsAt(cursor, p)
      /\ params.window \in Nat
      /\ ExtremumAt(cursor, cursor + maxPos, cursor + i - 1)
  BY <1>1, ScanFacts
<1>3. \A p \in cursor..(cursor + i) : At(p) \in Nat
  <2>1. \A p \in cursor..(cursor + i) : p \in 0..(Len(data) - 1)
    BY <1>f DEF CutterInv, CutterTypeOK
  <2>2. CutterTypeOK
    BY DEF CutterInv
  <2> QED BY <2>1, <2>2, AtNatural
<1>4. ExtremumAt(cursor, cursor + i, cursor + i)
  <2> SUFFICES ASSUME NEW j \in cursor..(cursor + i), j < cursor + i
               PROVE  IF style = "go" THEN At(j) < At(cursor + i)
                                      ELSE At(j) <= At(cursor + i)
    BY <1>f DEF ExtremumAt
  <2> DEFINE m == cursor + maxPos
             p == cursor + i
  <2>1. /\ m \in cursor..(p - 1) /\ j \in cursor..(p - 1)
        /\ m \in cursor..p /\ p \in cursor..p
    BY <1>f
  <2>2. At(j) \in Nat /\ At(m) \in Nat /\ At(p) \in Nat
    BY <1>3, <2>1
  <2>3. At(j) <= At(m)
    <3>1. j = m \/ j < m \/ j > m
      BY <2>1, <1>f
    <3>2. /\ j < m => IF style = "go" THEN At(j) < At(m) ELSE At(j) <= At(m)
          /\ j > m => IF style = "go" THEN At(j) <= At(m) ELSE At(j) < At(m)
      BY <1>f, <2>1 DEF ExtremumAt
    <3> HIDE DEF m, p
    <3> QED BY <3>1, <3>2, <2>2
  <2>4. IF style = "go" THEN At(m) < At(p) ELSE At(m) <= At(p)
    BY <1>2, <2>2 DEF Below
  <2> HIDE DEF m
  <2> QED BY <2>2, <2>3, <2>4
<1>5. i # maxPos' + params.window \/ params.window = 0
  BY <1>2, <1>f
<1>6. ExtremumAt(cursor, cursor + maxPos', cursor + i) /\ maxPos' \in {maxPos, i}
  BY <1>2, <1>4
<1> QED BY <1>1, <1>2, <1>5, <1>6, ScanOnKeeps

(* At the end of the buffer its chunks are returned as they are. *)
LEMMA ReturnChunksKeeps == ASSUME CutterInv, ReturnChunks PROVE CutterInv'
<1>1. CutterTypeOK' /\ Scanned' /\ cursor = Len(data)
  BY DEF ReturnChunks, CutterInv, CutterTypeOK, Scanned
<1>2. Partition'
  BY <1>1 DEF ReturnChunks, CutterInv, Partition, Start, Limit
<1>3. CutAtExtremum'
  BY DEF ReturnChunks, CutterInv, CutAtExtremum, Start, Limit, EndsAt,
         ExtremumAt, At
<1> QED BY <1>1, <1>2, <1>3 DEF CutterInv

(* Each step of the cutter keeps its invariant. *)
LEMMA CutterStepKeeps == ASSUME CutterInv, CutterStep PROVE CutterInv'
  BY NextChunkKeeps, FoundExtremumKeeps, StaysBelowKeeps, NewMaximumKeeps,
     NoExtremumKeeps, ReturnChunksKeeps DEF CutterStep

(* What leaves the cutter alone keeps it, too. *)
LEMMA StutterKeeps ==
    ASSUME CutterInv, UNCHANGED cutterVars PROVE CutterInv'
  BY DEF cutterVars, CutterInv, CutterTypeOK, Partition, CutAtExtremum,
         Scanned, Start, Limit, L, EndsAt, ExtremumAt, At

-----------------------------------------------------------------------------
(* chunk.go:86-174, cutter.rs:27-45, 315-338: the inductive invariant of   *)
(* CreateChunk and AEC, whatever buffers they are called with.             *)
THEOREM CutterInvariance == CutterSpec => []CutterInv
<1>1. CutterInit => CutterInv
  BY Initially
<1>2. CutterInv /\ [CutterNext]_cutterVars => CutterInv'
  BY CreateChunkKeeps, CutterStepKeeps, StutterKeeps DEF CutterNext
<1> QED BY <1>1, <1>2, PTL DEF CutterSpec

(* The chunks of a buffer are the buffer, none empty or beyond the         *)
(* boundary, for all parameters.                                           *)
THEOREM PartitionAlways == CutterSpec => []Partition
<1>1. CutterInv => Partition BY DEF CutterInv
<1> QED BY <1>1, CutterInvariance, PTL

(* The one-pass scan cuts where the definition of asymmetric extremum      *)
(* chunking does, in both programs.                                        *)
THEOREM CutAtExtremumAlways == CutterSpec => []CutAtExtremum
<1>1. CutterInv => CutAtExtremum BY DEF CutterInv
<1> QED BY <1>1, CutterInvariance, PTL

-----------------------------------------------------------------------------
(* Cutter within Parts. *)

FileInv ==
    /\ history \in Seq(Seq(Values))
    /\ file \in Seq(Values) /\ buf \in Seq(Values) /\ Len(buf) = Len(file)
    /\ offset \in Nat

-----------------------------------------------------------------------------
TransferStep ==
    \/ Send \/ StoreWrites \/ StoreFails
    \/ \E n \in queue : StoreOpens(n) \/ Lose(n)

JoinStep ==
    \/ RustJoinStarts \/ GoJoinStarts \/ JoinReturns
    \/ \E n \in joining.left : JoinCopies(n)

LinkLeft == NextFile \/ ReadFails

(* A step is one of the link or its end, of a transfer or of a joiner. *)
LEMMA Steps ==
    ASSUME [Next]_vars
    PROVE  LinkStep \/ LinkLeft \/ TransferStep \/ JoinStep \/ UNCHANGED vars
  BY DEF Next, TransferStep, JoinStep, LinkLeft

(* Making a link, sending it and joining do not meddle with each other. *)
LEMMA Apart ==
    /\ LinkStep => UNCHANGED <<bin, storing, joining>>
    /\ LinkStep /\ ~OpenFile => UNCHANGED sendVars
    /\ LinkLeft => UNCHANGED <<sendVars, joining>>
    /\ TransferStep => UNCHANGED <<cutterVars, linkVars>>
    /\ JoinStep => UNCHANGED <<cutterVars, linkVars, sendVars>>
<1>1. LinkStep => UNCHANGED <<bin, storing, joining>>
  BY DEF LinkStep, OpenFile, ReadFile, ReadNothing, EndOfFile, MapFile, Cut, TakeChunks,
         SavePart, SaveFails, ReturnLink, vars, sendVars
<1>2. LinkStep /\ ~OpenFile => UNCHANGED sendVars
  BY DEF LinkStep, ReadFile, ReadNothing, EndOfFile, MapFile, Cut, TakeChunks,
         SavePart, SaveFails, ReturnLink, vars
<1>3. LinkLeft => UNCHANGED <<sendVars, joining>>
  BY DEF LinkLeft, NextFile, ReadFails
<1>4. TransferStep => UNCHANGED <<cutterVars, linkVars>>
  BY DEF TransferStep, Send, StoreWrites, StoreFails, StoreOpens, Lose
<1>5. JoinStep => UNCHANGED <<cutterVars, linkVars, sendVars>>
  BY DEF JoinStep, RustJoinStarts, GoJoinStarts, JoinStarts, JoinReturns, JoinCopies
<1> QED BY <1>1, <1>2, <1>3, <1>4, <1>5

(* A buffer, given byte by byte, is a sequence. *)
LEMMA BufferIsSeq ==
    ASSUME NEW n \in Nat, NEW f \in [1..n -> Values]
    PROVE  f \in Seq(Values) /\ Len(f) = n
  BY SMT

(* A Read gives the cutter a buffer that is not empty. *)
LEMMA ReadFileFeeds ==
    ASSUME FileInv, ReadFile
    PROVE  /\ FileInv'
           /\ \E buffer \in Seq(Values) \ {<<>>}, size \in Nat :
                 CreateChunk(buffer, size)
<1> DEFINE n == Least(ReadMax, Len(file) - offset)
<1>1. /\ Len(file) \in Nat /\ offset \in Nat /\ n \in 1..(Len(file) - offset)
      /\ \A k \in 1..Len(file) : file[k] \in Values /\ buf[k] \in Values
  BY PartsAssumption DEF FileInv, ReadFile, Least
<1>2. /\ buf' = [k \in 1..Len(file) |->
                    IF k <= n THEN file[offset + k] ELSE buf[k]]
      /\ offset' = offset + n
      /\ CreateChunk(SubSeq(buf', 1, n), Len(file))
      /\ UNCHANGED <<history, file>>
  BY DEF ReadFile
<1> HIDE DEF n
<1>3. \A k \in 1..Len(file) : k <= n => offset + k \in 1..Len(file)
  BY <1>1
<1>4. buf' \in [1..Len(file) -> Values]
  BY <1>1, <1>2, <1>3
<1>5. buf' \in Seq(Values) /\ Len(buf') = Len(file)
  BY <1>1, <1>4, BufferIsSeq
<1>6. SubSeq(buf', 1, n) \in Seq(Values) \ {<<>>}
  <2>1. n \in 1..Len(buf')
    BY <1>1, <1>5
  <2>2. SubSeq(buf', 1, n) \in Seq(Values) /\ Len(SubSeq(buf', 1, n)) = n
    BY <2>1, <1>5
  <2> QED BY <2>1, <2>2
<1>7. FileInv'
  BY <1>1, <1>2, <1>5 DEF FileInv
<1>8. Len(file) \in Nat /\ CreateChunk(SubSeq(buf', 1, n), Len(file))
  BY <1>1, <1>2
<1> QED BY <1>6, <1>7, <1>8

(* So does a mapped file, unless it is too short to be cut. *)
LEMMA MapFileFeeds ==
    ASSUME FileInv, MapFile
    PROVE  /\ FileInv'
           /\ \/ UNCHANGED cutterVars
              \/ \E buffer \in Seq(Values) \ {<<>>}, size \in Nat :
                    CreateChunk(buffer, size)
<1>1. FileInv'
  BY DEF FileInv, MapFile
<1>2. CASE Len(file) < HeaderSize
  BY <1>1, <1>2 DEF MapFile
<1>3. CASE ~(Len(file) < HeaderSize)
  <2>1. CreateChunk(file, Len(file))
    BY <1>3 DEF MapFile
  <2>2. file \in Seq(Values) \ {<<>>} /\ Len(file) \in Nat
    BY <1>3, PartsAssumption DEF FileInv
  <2> QED BY <1>1, <2>1, <2>2
<1> QED BY <1>2, <1>3

(* The next file is a sequence of bytes with a buffer as long. *)
LEMMA OpenFileKeeps == ASSUME FileInv, OpenFile PROVE FileInv'
<1>1. /\ Head(history) \in Seq(Values) /\ Tail(history) \in Seq(Seq(Values))
      /\ file' = Head(history) /\ history' = Tail(history) /\ offset' = 0
      /\ buf' = [k \in 1..Len(Head(history)) |-> 0]
  BY DEF FileInv, OpenFile
<1>2. Len(file') \in Nat /\ buf' \in [1..Len(file') -> Values]
  BY <1>1, PartsAssumption
<1>3. buf' \in Seq(Values) /\ Len(buf') = Len(file')
  BY <1>2, BufferIsSeq
<1> QED BY <1>1, <1>3 DEF FileInv

(* Every step keeps FileInv, and is to Cutter a step or a stutter. *)
LEMMA StepMaps ==
    ASSUME FileInv, [Next]_vars
    PROVE  FileInv' /\ [CutterNext]_cutterVars
<1>1. CASE ReadFile
  BY <1>1, ReadFileFeeds DEF CutterNext
<1>2. CASE MapFile
  BY <1>2, MapFileFeeds DEF CutterNext
<1>3. CASE OpenFile
  <2>1. UNCHANGED cutterVars
    BY <1>3 DEF OpenFile
  <2> QED BY <2>1, <1>3, OpenFileKeeps
<1>4. CASE Cut
  <2>1. CutterStep /\ UNCHANGED <<history, file, offset, buf>>
    BY <1>4 DEF Cut, linkVars
  <2> QED BY <2>1 DEF CutterNext, FileInv
<1>5. CASE \/ ReadNothing \/ EndOfFile \/ TakeChunks \/ SavePart \/ SaveFails
           \/ ReturnLink
  <2>1. UNCHANGED cutterVars /\ UNCHANGED <<history, file, offset, buf>>
    BY <1>5 DEF ReadNothing, EndOfFile, TakeChunks, SavePart, SaveFails,
                ReturnLink, vars, linkVars
  <2> QED BY <2>1 DEF FileInv
<1>6. CASE TransferStep \/ JoinStep \/ LinkLeft
  <2>1. UNCHANGED cutterVars /\ UNCHANGED <<history, file, offset, buf>>
    BY <1>6, Apart DEF LinkLeft, NextFile, ReadFails, linkVars
  <2> QED BY <2>1 DEF FileInv
<1>8. CASE UNCHANGED vars
  <2>1. UNCHANGED cutterVars /\ UNCHANGED <<history, file, offset, buf>>
    BY <1>8 DEF vars, linkVars
  <2> QED BY <2>1 DEF FileInv
<1> QED BY <1>1, <1>2, <1>3, <1>4, <1>5, <1>6, <1>8, Steps DEF LinkStep

-----------------------------------------------------------------------------
(* link.go:67-83, cutter.rs:283-295: whatever files are shared, and        *)
(* whatever fails on the way, CreateChunk is only used as Cutter has it.   *)
THEOREM PartsUsesCutter == Spec => CutterSpec
<1>1. Init => CutterInit /\ FileInv
  BY PartsAssumption DEF Init, FileInv
<1>2. FileInv /\ [Next]_vars => FileInv' /\ [CutterNext]_cutterVars
  BY StepMaps
<1> QED BY <1>1, <1>2, PTL DEF Spec, CutterSpec

(* The chunks of every buffer of every link are the buffer, and end where  *)
(* the definition says.                                                    *)
THEOREM LinksArePartitioned == Spec => [](Partition /\ CutAtExtremum)
  BY PartsUsesCutter, PartitionAlways, CutAtExtremumAlways, PTL

-----------------------------------------------------------------------------
(* The invariant of a link, of its transfers and of the joiner. *)

(* Bytes of the file that the slices are of. *)
Covered == IF linking = "cut" THEN offset - Len(data) ELSE offset
ReadSize == IF style = "go" THEN Least(ReadMax, Len(file)) ELSE Len(file)
Short == style = "rust" /\ Len(file) < HeaderSize

(* In Go the places of a slice in the buffer and in the file lie whole     *)
(* Reads apart; in Rust they are one.                                      *)
InPlace(from, begin) ==
    /\ from <= begin
    /\ IF style = "go" THEN (begin - from) % ReadMax = 0 ELSE begin = from

Width(k) == slices[k][2] - slices[k][1]

(* The slices adjoin in the file, and each is of one Read. *)
Placed ==
    linking # "idle" =>
       /\ Len(begins) = Len(slices)
       /\ IF slices = <<>> THEN Covered = 0 \/ Short ELSE begins[1] = 0
       /\ \A k \in 1..Len(slices) :
             /\ slices[k][1] < slices[k][2] /\ slices[k][2] <= ReadSize
             /\ InPlace(slices[k][1], begins[k])
             /\ begins[k] + Width(k) <= Covered
             /\ begins[k] + Width(k)
                   = IF k = Len(slices) THEN Covered ELSE begins[k + 1]

(* The latest byte of file up to o that a Read puts at p. *)
Latest(p, o, q) ==
    /\ q \in 1..o /\ q % ReadMax = p % ReadMax
    /\ \A r \in 1..o : r % ReadMax = p % ReadMax => r <= q

(* What the buffer and the slices hold on the way, in Go and in Rust. *)
Feeding ==
    linking = "cut" =>
       /\ Len(data) \in 1..ReadSize /\ Len(data) <= offset
       /\ InPlace(0, offset - Len(data))

ReadInGo ==
    linking # "idle" /\ style = "go" =>
       /\ offset = Len(file) \/ offset % ReadMax = 0
       /\ linking \in {"save", "linked"} => file # <<>>
       /\ \A p \in 1..Least(ReadMax, offset) :
             \E q \in 1..offset : Latest(p, offset, q) /\ buf[p] = file[q]

MappedInRust ==
    /\ linking = "read" /\ style = "rust" => offset = 0 /\ slices = <<>>
    /\ linking \in {"cut", "save", "linked"} /\ style = "rust" =>
          /\ buf = file /\ offset = Len(file)
          /\ slices = <<>> \/ ~Short
          /\ linking = "cut" => ~Short

Filled ==
    /\ Feeding /\ ReadInGo /\ MappedInRust
    /\ linking \in {"save", "linked"} =>
          offset = Len(file) /\ (slices = <<>> => Short)

(* The part files are slices of the buffer, up to the one saved last; in  *)
(* Go there are no others.                                                *)
SavedUpTo(c) ==
    /\ 0..(c - 1) \subseteq DOMAIN parts
    /\ style = "go" => DOMAIN parts = 0..(c - 1)
    /\ linking = "linked" => c = Len(slices)
    /\ \A k \in 0..(c - 1) :
          parts[k] = SubSeq(buf, slices[k + 1][1] + 1, slices[k + 1][2])

Saved ==
    /\ linking \in {"read", "cut"} => written = 0 /\ (style = "go" => parts = Empty)
    /\ linking \in {"save", "linked"} => SavedUpTo(written)

(* Each part of a transfer is to be sent, lost, being stored, or stored. *)
Sent ==
    /\ linking # "linked" => Transferred
    /\ linking \in {"read", "cut", "save"} => sends = 0
    /\ linking = "linked" /\ sends > 0 =>
          \A k \in DOMAIN parts :
             \/ k \in queue \/ k \in lost \/ k = storing
             \/ k \in DOMAIN bin /\ bin[k] = parts[k]

(* n parts in Bin, the k-th of which ends at e[k], are the file whole. *)
Holds(n, e, whole) ==
    /\ e[0] = 0 /\ e[n] = Len(whole)
    /\ \A k \in 0..(n - 1) :
          /\ e[k] <= e[k + 1] /\ e[k + 1] <= Len(whole)
          /\ k \in DOMAIN bin /\ bin[k] = SubSeq(whole, e[k] + 1, e[k + 1])

Alone == joining.by = "go" \/ joining.exact

(* The joiner is at part c of n. *)
Reached(n, e, c) ==
    /\ joining.left \subseteq DOMAIN bin
    /\ joining.left \cap (0..(n - 1)) = c..(n - 1)
    /\ IF c < n THEN joining.out = SubSeq(joining.whole, 1, e[c])
       ELSE IsPrefix(joining.whole, joining.out)
    /\ Alone => /\ joining.left = c..(n - 1)
                /\ joining.out = SubSeq(joining.whole, 1, e[c])

Joins ==
    joining.whole # NoFile =>
       /\ joining.pc \in {"copy", "done"}
       /\ joining.pc = "copy" =>
             /\ storing = None
             /\ \E n \in Nat : \E e \in [0..n -> Nat] :
                   Holds(n, e, joining.whole) /\ \E c \in 0..n : Reached(n, e, c)
       /\ joining.pc = "done" =>
             /\ IsPrefix(joining.whole, joining.out)
             /\ Alone => joining.out = joining.whole

PartsInv == TypeOK /\ Placed /\ Filled /\ Saved /\ Sent /\ Joins

-----------------------------------------------------------------------------
(* Remainders, by which places that Reads share are told. *)

(* A number is its quotient times the divisor, and the remainder. *)
LEMMA Division ==
    ASSUME NEW M \in Nat \ {0}, NEW a \in Nat
    PROVE  \E q \in Nat : a = M * q + (a % M) /\ a % M \in 0..(M - 1)
<1>1. a = M * (a \div M) + (a % M) /\ a % M \in 0..(M - 1) /\ a \div M \in Nat
  BY Z3
<1> QED BY <1>1

(* Two multiples of a number are at least that number apart. *)
LEMMA Multiple ==
    ASSUME NEW M \in Nat \ {0}, NEW k \in Int, NEW l \in Int, M * k < M * l
    PROVE  M * k + M <= M * l
<1>1. k < l
  BY Z3
<1>2. \E d \in Nat : l = k + 1 + d
  <2>1. l - k - 1 \in Nat /\ l = k + 1 + (l - k - 1)
    BY <1>1
  <2> QED BY <2>1
<1>3. PICK d \in Nat : l = k + 1 + d
  BY <1>2
<1>4. M * l = M * k + M + M * d /\ M * d >= 0
  BY <1>3, Z3
<1>5. M * k \in Int /\ M * d \in Int /\ M * l \in Int
  BY Z3
<1> QED BY <1>4, <1>5

(* The remainder is what is left over the multiple. *)
LEMMA Remainder ==
    ASSUME NEW M \in Nat \ {0}, NEW q \in Nat, NEW r \in 0..(M - 1)
    PROVE  (M * q + r) % M = r
BY Z3

(* Two numbers with one remainder are at least the divisor apart. *)
LEMMA SameRemainder ==
    ASSUME NEW M \in Nat \ {0}, NEW a \in Nat, NEW b \in Nat, a % M = b % M, a < b
    PROVE  a + M <= b
<1>1. PICK k \in Nat : a = M * k + (a % M) /\ a % M \in 0..(M - 1)
  BY Division
<1>2. PICK l \in Nat : b = M * l + (b % M)
  BY Division
<1>3. M * k \in Int /\ M * l \in Int
  BY Z3
<1>4. M * k < M * l
  BY <1>1, <1>2, <1>3
<1>5. M * k + M <= M * l
  BY <1>4, Multiple
<1> QED BY <1>1, <1>2, <1>3, <1>5

(* A multiple leaves the remainder as it is. *)
LEMMA MultipleAdded ==
    ASSUME NEW M \in Nat \ {0}, NEW o \in Nat, NEW p \in Nat, o % M = 0
    PROVE  (o + p) % M = p % M
<1>1. PICK k \in Nat : o = M * k + (o % M)
  BY Division
<1>2. PICK l \in Nat : p = M * l + (p % M) /\ p % M \in 0..(M - 1)
  BY Division
<1>3. M * k \in Int /\ M * l \in Int /\ M * (k + l) = M * k + M * l /\ k + l \in Nat
  BY Z3
<1>4. o + p = M * (k + l) + (p % M)
  <2>1. o = M * k
    BY <1>1, <1>3
  <2>2. p % M \in Int
    BY <1>2
  <2> QED BY <2>1, <2>2, <1>2, <1>3
<1> QED BY <1>2, <1>3, <1>4, Remainder

-----------------------------------------------------------------------------
(* Types. *)

LinkTypes ==
    /\ FileInv
    /\ linking \in {"idle", "read", "cut", "save", "linked"}
    /\ offset \in 0..Len(file)
    /\ slices \in Seq(Nat \X Nat) /\ begins \in Seq(Nat)

PartTypes ==
    /\ Directory(parts) /\ IsFiniteSet(DOMAIN parts)
    /\ written \in 0..Len(slices)

SendTypes ==
    /\ queue \subseteq DOMAIN parts /\ sends \in 0..MaxMessages
    /\ lost \subseteq DOMAIN parts
    /\ Directory(bin) /\ storing \in DOMAIN parts \cup {None}

JoinTypes ==
    joining \in [pc : {"idle", "copy", "done", "error"}, by : Joiners,
                 left : SUBSET Nat, out : Contents,
                 whole : Contents \cup {NoFile}, exact : BOOLEAN]

(* The types, by whom they belong to. *)
LEMMA TypesApart ==
    TypeOK <=> CutterTypeOK /\ LinkTypes /\ PartTypes /\ SendTypes /\ JoinTypes
<1>1. ASSUME TypeOK PROVE CutterTypeOK /\ LinkTypes /\ PartTypes /\ SendTypes /\ JoinTypes
  <2>1. CutterTypeOK /\ LinkTypes
    BY <1>1 DEF TypeOK, LinkTypes, FileInv, Contents
  <2>2. PartTypes /\ SendTypes
    BY <1>1 DEF TypeOK, PartTypes, SendTypes
  <2>3. JoinTypes
    BY <1>1 DEF TypeOK, JoinTypes
  <2> QED BY <2>1, <2>2, <2>3
<1>2. ASSUME CutterTypeOK, LinkTypes, PartTypes, SendTypes, JoinTypes PROVE TypeOK
  BY <1>2, SMTT(30) DEF TypeOK, LinkTypes, FileInv, PartTypes, SendTypes, JoinTypes, Contents
<1> QED BY <1>1, <1>2

(* The empty directory is one. *)
LEMMA EmptyDirectory == Empty \in [{} -> Contents] /\ DOMAIN Empty = {} /\ Directory(Empty)
  BY DEF Empty, Directory

(* Writing a part adds it and leaves the others. *)
LEMMA Writing ==
    ASSUME NEW d, Directory(d), NEW n \in Nat, NEW c \in Contents
    PROVE  /\ Directory(Write(d, n, c)) /\ DOMAIN Write(d, n, c) = DOMAIN d \cup {n}
           /\ Write(d, n, c)[n] = c
           /\ \A k \in DOMAIN d : k # n => Write(d, n, c)[k] = d[k]
<1>1. \A k \in DOMAIN d : d[k] \in Contents
  BY DEF Directory
<1> QED BY <1>1 DEF Directory, Write

(* A slice of a sequence of bytes is one. *)
LEMMA SlicedTyped ==
    ASSUME NEW s \in Seq(Values), NEW a \in Nat, NEW b \in 0..Len(s)
    PROVE  SubSeq(s, a + 1, b) \in Contents
<1>1. CASE a + 1 <= b
  BY <1>1, SubSeqProperties DEF Contents
<1>2. CASE ~(a + 1 <= b)
  BY <1>2 DEF Contents
<1> QED BY <1>1, <1>2

(* What TakeChunks appends. *)
LEMMA ChunksTyped ==
    ASSUME CutterTypeOK, NEW o \in Nat, Len(data) <= o
    PROVE  /\ [k \in 1..Len(cuts) |-> <<Start(k), cuts[k]>>] \in Seq(Nat \X Nat)
           /\ [k \in 1..Len(cuts) |-> o - Len(data) + Start(k)] \in Seq(Nat)
           /\ Len([k \in 1..Len(cuts) |-> <<Start(k), cuts[k]>>]) = Len(cuts)
           /\ Len([k \in 1..Len(cuts) |-> o - Len(data) + Start(k)]) = Len(cuts)
<1>1. /\ Len(cuts) \in Nat /\ Len(data) \in Nat
      /\ \A k \in 1..Len(cuts) : cuts[k] \in Nat
  BY DEF CutterTypeOK
<1>2. \A k \in 1..Len(cuts) : Start(k) \in Nat
  BY <1>1 DEF Start
<1>3. \A k \in 1..Len(cuts) : o - Len(data) + Start(k) \in Nat
  BY <1>1, <1>2
<1>4. [k \in 1..Len(cuts) |-> <<Start(k), cuts[k]>>] \in [1..Len(cuts) -> Nat \X Nat]
  BY <1>1, <1>2
<1>5. [k \in 1..Len(cuts) |-> o - Len(data) + Start(k)] \in [1..Len(cuts) -> Nat]
  BY <1>3
<1> QED BY <1>1, <1>4, <1>5

(* Each step keeps the types of the link. *)
LEMMA LinkTypesStep ==
    ASSUME TypeOK, Feeding, [Next]_vars
    PROVE  LinkTypes'
<1>t. /\ FileInv /\ offset \in 0..Len(file) /\ Len(file) \in Nat /\ CutterTypeOK
      /\ linking \in {"idle", "read", "cut", "save", "linked"}
      /\ slices \in Seq(Nat \X Nat) /\ begins \in Seq(Nat)
  BY TypesApart DEF LinkTypes, FileInv
<1>f. FileInv'
  BY <1>t, StepMaps
<1>1. CASE OpenFile
  BY <1>1, <1>f DEF OpenFile, LinkTypes, FileInv
<1>2. CASE ReadFile
  <2>1. offset + Least(ReadMax, Len(file) - offset) \in 0..Len(file)
    BY <1>t, <1>2, PartsAssumption DEF ReadFile, Least
  <2>2. offset' = offset + Least(ReadMax, Len(file) - offset) /\ file' = file
    BY <1>2 DEF ReadFile
  <2> QED BY <2>1, <2>2, <1>2, <1>f, <1>t DEF ReadFile, LinkTypes
<1>3. CASE MapFile
  BY <1>3, <1>f, <1>t DEF MapFile, LinkTypes
<1>4. CASE TakeChunks
  <2>1. /\ slices' = slices \o [k \in 1..Len(cuts) |-> <<Start(k), cuts[k]>>]
        /\ begins' = begins \o [k \in 1..Len(cuts) |-> offset - Len(data) + Start(k)]
        /\ UNCHANGED <<file, offset>> /\ linking' \in {"read", "save"}
        /\ Len(data) <= offset /\ offset \in Nat
    BY <1>4, <1>t DEF TakeChunks, Feeding
  <2>2. slices' \in Seq(Nat \X Nat) /\ begins' \in Seq(Nat)
    BY <2>1, <1>t, ChunksTyped, SMTT(30)
  <2> QED BY <2>1, <2>2, <1>f, <1>t DEF LinkTypes
<1>5. CASE ReadNothing \/ EndOfFile \/ Cut \/ SavePart \/ SaveFails \/ ReturnLink
  <2>1. UNCHANGED <<file, offset, slices, begins>>
        /\ (linking' = linking \/ linking' \in {"save", "idle", "linked"})
    BY <1>5 DEF ReadNothing, EndOfFile, Cut, SavePart, SaveFails, ReturnLink, vars, linkVars
  <2> QED BY <2>1, <1>f, <1>t DEF LinkTypes
<1>6. CASE TransferStep \/ JoinStep \/ LinkLeft \/ UNCHANGED vars
  <2>1. UNCHANGED <<file, offset, slices, begins>>
        /\ (linking' = linking \/ linking' = "idle")
    BY <1>6, Apart DEF LinkLeft, NextFile, ReadFails, linkVars, vars
  <2> QED BY <2>1, <1>f, <1>t DEF LinkTypes
<1> QED BY <1>1, <1>2, <1>3, <1>4, <1>5, <1>6, Steps DEF LinkStep

(* What one Read takes is at most the file and the buffer. *)
LEMMA ReadSizeTyped ==
    ASSUME TypeOK
    PROVE  ReadSize \in 0..Len(file) /\ ReadSize \in Nat /\ Len(file) \in Nat
           /\ Len(buf) = Len(file) /\ buf \in Seq(Values)
           /\ (style = "go" => ReadSize <= ReadMax)
<1>1. Len(file) \in Nat /\ Len(buf) = Len(file) /\ buf \in Seq(Values)
  BY TypesApart DEF LinkTypes, FileInv
<1> QED BY <1>1, PartsAssumption DEF ReadSize, Least

(* A slice lies in the buffer and holds its bytes from there. *)
LEMMA SliceTyped ==
    ASSUME TypeOK, Placed, linking # "idle", NEW k \in 1..Len(slices)
    PROVE  /\ slices[k][1] \in Nat /\ slices[k][2] \in Nat
           /\ begins[k] \in Nat /\ slices[k][1] < slices[k][2]
           /\ slices[k][2] <= ReadSize
           /\ Width(k) \in Nat \ {0}
           /\ Len(SubSeq(buf, slices[k][1] + 1, slices[k][2])) = Width(k)
           /\ SubSeq(buf, slices[k][1] + 1, slices[k][2]) \in Contents
           /\ \A p \in 1..Width(k) :
                 SubSeq(buf, slices[k][1] + 1, slices[k][2])[p] = buf[slices[k][1] + p]
<1>1. slices \in Seq(Nat \X Nat) /\ begins \in Seq(Nat) /\ Len(begins) = Len(slices)
  BY TypesApart DEF LinkTypes, Placed
<1>2. slices[k] \in Nat \X Nat /\ begins[k] \in Nat
  BY <1>1
<1>3. slices[k][1] \in Nat /\ slices[k][2] \in Nat
  BY <1>2
<1>4. slices[k][1] < slices[k][2] /\ slices[k][2] <= ReadSize
  BY DEF Placed
<1>5. slices[k][2] \in 0..Len(buf) /\ buf \in Seq(Values)
  BY <1>3, <1>4, ReadSizeTyped
<1>6. SubSeq(buf, slices[k][1] + 1, slices[k][2]) \in Contents
  BY <1>3, <1>5, SlicedTyped
<1> DEFINE a == slices[k][1]
           b == slices[k][2]
<1>7. a \in Nat /\ b \in Nat /\ a < b /\ b <= Len(buf)
  BY <1>3, <1>4, <1>5
<1>8. Width(k) = b - a
  BY DEF Width
<1> HIDE DEF a, b
<1>9. /\ Len(SubSeq(buf, a + 1, b)) = b - a
      /\ \A p \in 1..(b - a) : SubSeq(buf, a + 1, b)[p] = buf[a + p]
  BY <1>5, <1>7
<1> QED BY <1>2, <1>3, <1>4, <1>6, <1>7, <1>8, <1>9, SMTT(30) DEF a, b

(* Each step keeps the type of the directory. *)
LEMMA PartTypesStep ==
    ASSUME TypeOK, Feeding, Placed, Saved, [Next]_vars
    PROVE  PartTypes'
<1>t. /\ CutterTypeOK /\ PartTypes /\ slices \in Seq(Nat \X Nat)
      /\ Len(slices) \in Nat /\ offset \in Nat /\ written \in Nat
  BY TypesApart DEF LinkTypes, FileInv, PartTypes
<1>1. CASE OpenFile
  <2>1. parts' \in {Empty, parts} /\ written' = 0 /\ slices' = <<>>
    BY <1>1 DEF OpenFile
  <2>2. IsFiniteSet(DOMAIN parts')
    BY <2>1, <1>t, EmptyDirectory, FS_EmptySet DEF PartTypes
  <2> QED BY <2>1, <2>2, <1>t, EmptyDirectory DEF PartTypes
<1>2. CASE TakeChunks
  <2>1. /\ slices' = slices \o [k \in 1..Len(cuts) |-> <<Start(k), cuts[k]>>]
        /\ UNCHANGED <<parts, written>> /\ Len(data) <= offset
    BY <1>2 DEF TakeChunks, Feeding
  <2>2. /\ [k \in 1..Len(cuts) |-> <<Start(k), cuts[k]>>] \in Seq(Nat \X Nat)
        /\ Len([k \in 1..Len(cuts) |-> <<Start(k), cuts[k]>>]) \in Nat
    BY <2>1, <1>t, ChunksTyped
  <2>3. Len(slices') \in Nat /\ Len(slices') >= Len(slices)
    BY <2>1, <2>2, <1>t
  <2> QED BY <2>1, <2>3, <1>t DEF PartTypes
<1>w. ASSUME NEW c \in Contents, parts' = Write(parts, written, c)
      PROVE  Directory(parts') /\ IsFiniteSet(DOMAIN parts')
  <2>1. Directory(parts') /\ DOMAIN parts' = DOMAIN parts \cup {written}
    BY <1>w, <1>t, Writing DEF PartTypes
  <2>2. IsFiniteSet(DOMAIN parts \cup {written})
    BY <1>t, FS_AddElement DEF PartTypes
  <2> QED BY <2>1, <2>2
<1>3. CASE SavePart
  <2> DEFINE w == SubSeq(buf, slices[written + 1][1] + 1, slices[written + 1][2])
  <2>1. /\ written < Len(slices) /\ slices' = slices /\ linking = "save"
        /\ parts' = Write(parts, written, w) /\ written' = written + 1
    BY <1>3 DEF SavePart
  <2>2. written + 1 \in 1..Len(slices)
    BY <2>1, <1>t DEF PartTypes
  <2>3. w \in Contents
    BY <2>1, <2>2, SliceTyped
  <2> HIDE DEF w
  <2>4. Directory(parts') /\ IsFiniteSet(DOMAIN parts')
    BY <2>1, <2>3, <1>w
  <2> QED BY <2>1, <2>2, <2>4 DEF PartTypes
<1>4. CASE SaveFails
  <2>1. /\ parts' = parts \/ parts' = Write(parts, written, <<>>)
        /\ UNCHANGED <<slices, written>>
    BY <1>4 DEF SaveFails
  <2>2. <<>> \in Contents
    BY DEF Contents
  <2>3. Directory(parts') /\ IsFiniteSet(DOMAIN parts')
    BY <2>1, <2>2, <1>w, <1>t DEF PartTypes
  <2> QED BY <2>1, <2>3, <1>t DEF PartTypes
<1>5. CASE ReadFile \/ MapFile \/ ReadNothing \/ EndOfFile \/ Cut \/ ReturnLink
  <2>1. UNCHANGED <<slices, parts, written>>
    BY <1>5 DEF ReadFile, MapFile, ReadNothing, EndOfFile, Cut, ReturnLink,
                vars, linkVars
  <2> QED BY <2>1, <1>t DEF PartTypes, Directory
<1>6. CASE TransferStep \/ JoinStep \/ LinkLeft \/ UNCHANGED vars
  <2>1. UNCHANGED <<slices, parts, written>>
    BY <1>6, Apart DEF LinkLeft, NextFile, ReadFails, linkVars, vars
  <2> QED BY <2>1, <1>t DEF PartTypes, Directory
<1> QED BY <1>1, <1>2, <1>3, <1>4, <1>5, <1>6, Steps DEF LinkStep

(* A transfer that is begun is within the bound. *)
LEMMA OneMore ==
    ASSUME NEW s \in Nat, NEW c \in Nat, NEW m \in Nat, (s + 1) * Greatest(1, c) <= m
    PROVE  s + 1 \in 0..m
<1>1. Greatest(1, c) \in Nat \ {0}
  BY DEF Greatest
<1>2. PICK g \in Nat : Greatest(1, c) = g + 1
  <2>1. Greatest(1, c) - 1 \in Nat /\ Greatest(1, c) = (Greatest(1, c) - 1) + 1
    BY <1>1
  <2> QED BY <2>1
<1>3. (s + 1) * (g + 1) = (s + 1) * g + s + 1 /\ (s + 1) * g \in Nat
  BY Z3
<1> QED BY <1>2, <1>3

(* Each step keeps the types of transfers and of Bin. *)
LEMMA SendTypesStep ==
    ASSUME TypeOK, Saved, Sent, [Next]_vars
    PROVE  SendTypes'
<1>t. /\ PartTypes /\ SendTypes
  BY TypesApart
<1>d. /\ Directory(parts) /\ Directory(bin) /\ DOMAIN parts \subseteq Nat
      /\ queue \subseteq DOMAIN parts /\ lost \subseteq DOMAIN parts
      /\ sends \in 0..MaxMessages /\ storing \in DOMAIN parts \cup {None}
      /\ MaxMessages \in Nat
  BY <1>t, PartsAssumption DEF PartTypes, SendTypes, Directory
<1>1. CASE OpenFile
  <2>1. storing = None
    BY <1>1 DEF OpenFile, Sent, Transferred
  <2>2. /\ queue' = {} /\ lost' = {} /\ sends' = 0 /\ UNCHANGED <<bin, storing>>
    BY <1>1 DEF OpenFile
  <2> QED BY <2>1, <2>2, <1>d DEF SendTypes, Directory
<1>2. CASE SavePart \/ SaveFails
  <2>1. UNCHANGED sendVars /\ DOMAIN parts \subseteq DOMAIN parts'
    BY <1>2 DEF SavePart, SaveFails, Write
  <2> QED BY <2>1, <1>d DEF SendTypes, sendVars, Directory
<1>3. CASE LinkStep /\ ~OpenFile /\ ~SavePart /\ ~SaveFails
  <2>1. UNCHANGED sendVars
    BY <1>3, Apart
  <2>2. UNCHANGED parts
    BY <1>3 DEF LinkStep, ReadFile, MapFile, ReadNothing, EndOfFile, Cut, TakeChunks,
                ReturnLink, vars, linkVars
  <2> QED BY <2>1, <2>2, <1>d DEF SendTypes, sendVars, Directory
<1>4. CASE JoinStep \/ LinkLeft \/ UNCHANGED vars
  <2>1. UNCHANGED sendVars /\ UNCHANGED parts
    BY <1>4, Apart DEF LinkLeft, NextFile, ReadFails, linkVars, vars
  <2> QED BY <2>1, <1>d DEF SendTypes, sendVars, Directory
<1>5. CASE TransferStep
  <2>0. UNCHANGED parts
    BY <1>5, Apart DEF linkVars
  <2>1. CASE Send
    <3>1. /\ linking = "linked"
          /\ (sends + 1) * Greatest(1, Cardinality(DOMAIN parts)) <= MaxMessages
          /\ queue' = DOMAIN parts /\ sends' = sends + 1 /\ lost' = {}
          /\ UNCHANGED <<bin, storing>>
      BY <2>1 DEF Send
    <3>2. Cardinality(DOMAIN parts) \in Nat
      BY <1>t, FS_CardinalityType DEF PartTypes
    <3>3. sends + 1 \in 0..MaxMessages
      BY <3>1, <3>2, <1>d, OneMore
    <3> QED BY <3>1, <3>3, <2>0, <1>d DEF SendTypes, Directory
  <2>2. CASE StoreWrites
    <3>1. /\ storing \in DOMAIN parts /\ bin' = Write(bin, storing, parts[storing])
          /\ storing' = None /\ UNCHANGED <<queue, sends, lost>>
      BY <2>2, <1>d DEF StoreWrites
    <3>2. parts[storing] \in Contents
      BY <3>1, <1>d DEF Directory
    <3>3. Directory(bin')
      BY <3>1, <3>2, <1>d, Writing
    <3> QED BY <3>1, <3>3, <2>0, <1>d DEF SendTypes
  <2>3. CASE StoreFails
    BY <2>3, <2>0, <1>d DEF StoreFails, SendTypes, Directory
  <2>4. ASSUME NEW n \in queue, StoreOpens(n) PROVE SendTypes'
    <3>1. /\ bin' = Write(bin, n, <<>>) /\ storing' = n /\ queue' = queue \ {n}
          /\ UNCHANGED <<sends, lost>>
      BY <2>4 DEF StoreOpens
    <3>2. Directory(bin')
      <4>1. n \in Nat /\ <<>> \in Contents
        BY <1>d DEF Contents
      <4> QED BY <4>1, <3>1, <1>d, Writing
    <3> QED BY <3>1, <3>2, <2>0, <1>d DEF SendTypes
  <2>5. ASSUME NEW n \in queue, Lose(n) PROVE SendTypes'
    BY <2>5, <2>0, <1>d DEF Lose, SendTypes, Directory
  <2> QED BY <1>5, <2>1, <2>2, <2>3, <2>4, <2>5 DEF TransferStep
<1> QED BY <1>1, <1>2, <1>3, <1>4, <1>5, Steps

(* Each step keeps the type of the joiner. *)
LEMMA JoinTypesStep ==
    ASSUME TypeOK, [Next]_vars
    PROVE  JoinTypes'
<1>t. /\ JoinTypes /\ Directory(parts) /\ Directory(bin) /\ file \in Contents
      /\ written \in Nat
  BY TypesApart DEF PartTypes, SendTypes, LinkTypes, FileInv, Contents
<1>1. CASE UNCHANGED joining
  BY <1>1, <1>t DEF JoinTypes
<1>2. CASE joining' = Disturbed
  BY <1>2, <1>t DEF JoinTypes, Disturbed
<1>3. CASE TransferStep
  <2>1. UNCHANGED joining \/ joining' = Disturbed
    BY <1>3 DEF TransferStep, Send, StoreOpens, StoreWrites, StoreFails, Lose
  <2> QED BY <2>1, <1>1, <1>2
<1>4. CASE RustJoinStarts \/ GoJoinStarts
  <2>1. PICK by \in Joiners, left \in SUBSET Nat : JoinStarts(by, left)
    BY <1>4, <1>t DEF RustJoinStarts, GoJoinStarts, Joiners, Directory
  <2>2. /\ <<>> \in Contents
        /\ (IF Received /\ LinkWhole THEN file ELSE NoFile) \in Contents \cup {NoFile}
    BY <1>t DEF Contents
  <2> HIDE DEF Contents
  <2> QED BY <2>1, <2>2 DEF JoinStarts, JoinTypes
<1>5. CASE JoinReturns
  BY <1>5, <1>t DEF JoinReturns, JoinTypes
<1>6. ASSUME NEW n \in joining.left, JoinCopies(n) PROVE JoinTypes'
  <2>1. CASE n \in DOMAIN bin
    <3>1. bin[n] \in Contents /\ joining.out \in Contents
      BY <2>1, <1>t DEF Directory, JoinTypes
    <3>2. joining.out \o bin[n] \in Contents
      BY <3>1 DEF Contents
    <3>3. joining' = [joining EXCEPT !.left = @ \ {n}, !.out = @ \o bin[n]]
      BY <2>1, <1>6 DEF JoinCopies
    <3> QED BY <3>2, <3>3, <1>t DEF JoinTypes
  <2>2. CASE n \notin DOMAIN bin
    BY <2>2, <1>6, <1>t DEF JoinCopies, JoinTypes
  <2> QED BY <2>1, <2>2
<1>7. CASE LinkStep \/ LinkLeft \/ UNCHANGED vars
  BY <1>7, <1>1, Apart DEF vars
<1> QED BY <1>3, <1>4, <1>5, <1>6, <1>7, Steps DEF JoinStep

(* Each step keeps all of them. *)
LEMMA TypeStep ==
    ASSUME TypeOK, Feeding, Placed, Saved, Sent, CutterInv', [Next]_vars
    PROVE  TypeOK'
<1>1. CutterTypeOK'
  BY DEF CutterInv
<1>2. LinkTypes' /\ PartTypes' /\ SendTypes' /\ JoinTypes'
  BY LinkTypesStep, PartTypesStep, SendTypesStep, JoinTypesStep
<1> QED BY <1>1, <1>2, TypesApart DEF TypeOK, LinkTypes, FileInv, PartTypes, SendTypes,
                                    JoinTypes, Contents

-----------------------------------------------------------------------------
(* Which steps leave the slices, the buffer and the file as they are. *)
LEMMA LinkKept ==
    ASSUME [Next]_vars, ~OpenFile, ~ReadFile, ~MapFile, ~TakeChunks
    PROVE  /\ UNCHANGED <<file, offset, buf, slices, begins, style>>
           /\ \/ linking' = linking /\ UNCHANGED cutterVars
              \/ linking' = linking /\ Cut
              \/ linking' = "idle"
              \/ EndOfFile \/ SavePart \/ ReturnLink
<1>1. CASE ReadNothing \/ EndOfFile \/ SavePart \/ SaveFails \/ ReturnLink
  BY <1>1 DEF ReadNothing, EndOfFile, SavePart, SaveFails, ReturnLink, vars, linkVars,
              cutterVars
<1>2. CASE Cut
  <2>1. style' = style
    BY <1>2 DEF Cut, CutterStep, NextChunk, FoundExtremum, StaysBelow, NewMaximum,
                NoExtremum, ReturnChunks, CutAt, ScanOn
  <2>2. UNCHANGED linkVars
    BY <1>2 DEF Cut
  <2> QED BY <2>1, <2>2, <1>2 DEF linkVars
<1>3. CASE TransferStep \/ JoinStep \/ UNCHANGED vars
  BY <1>3, Apart DEF vars, linkVars, cutterVars
<1>4. CASE LinkLeft
  BY <1>4 DEF LinkLeft, NextFile, ReadFails, cutterVars
<1> QED BY <1>1, <1>2, <1>3, <1>4, Steps DEF LinkStep

(* Cutting a buffer leaves it where it is. *)
LEMMA CutKeepsData ==
    ASSUME Cut
    PROVE  UNCHANGED <<style, data>> /\ linking = "cut"
  BY DEF Cut, CutterStep, NextChunk, FoundExtremum, StaysBelow, NewMaximum,
         NoExtremum, ReturnChunks, CutAt, ScanOn

(* A Read puts what it takes at the start of the buffer, and is whole unless
   it is the last. *)
LEMMA ReadFileFacts ==
    ASSUME TypeOK, ReadFile
    PROVE  \E n \in Nat \ {0} :
              /\ n = Least(ReadMax, Len(file) - offset)
              /\ n <= ReadMax /\ offset + n <= Len(file)
              /\ n = ReadMax \/ offset + n = Len(file)
              /\ offset' = offset + n /\ data' = SubSeq(buf', 1, n)
              /\ Len(data') = n
              /\ \A k \in 1..Len(file) :
                    buf'[k] = IF k <= n THEN file[offset + k] ELSE buf[k]
              /\ UNCHANGED <<file, slices, begins, style>>
              /\ linking = "read" /\ linking' = "cut" /\ style = "go"
<1> DEFINE n == Least(ReadMax, Len(file) - offset)
<1>1. FileInv /\ offset \in 0..Len(file) /\ Len(file) \in Nat /\ offset < Len(file)
  BY TypesApart DEF LinkTypes, FileInv, ReadFile
<1>2. n \in Nat \ {0} /\ n <= ReadMax /\ offset + n <= Len(file)
      /\ (n = ReadMax \/ offset + n = Len(file))
  BY <1>1, PartsAssumption DEF Least
<1>3. /\ buf' = [k \in 1..Len(file) |->
                    IF k <= n THEN file[offset + k] ELSE buf[k]]
      /\ offset' = offset + n /\ data' = SubSeq(buf', 1, n)
      /\ UNCHANGED <<file, slices, begins, style>>
      /\ linking = "read" /\ linking' = "cut" /\ style = "go"
  BY DEF ReadFile, CreateChunk
<1>4. FileInv'
  BY <1>1, ReadFileFeeds
<1> HIDE DEF n
<1>5. Len(data') = n
  BY <1>1, <1>2, <1>3, <1>4 DEF FileInv
<1>6. n = Least(ReadMax, Len(file) - offset)
  BY DEF n
<1> QED BY <1>2, <1>3, <1>5, <1>6, Zenon

(* A mapped file is the buffer, and is cut unless it is too short. *)
LEMMA MapFileFacts ==
    ASSUME TypeOK, MapFile
    PROVE  /\ buf' = file /\ offset' = Len(file) /\ style = "rust" /\ linking = "read"
           /\ UNCHANGED <<file, slices, begins, style>>
           /\ \/ linking' = "save" /\ Len(file) < HeaderSize
              \/ linking' = "cut" /\ Len(file) >= HeaderSize /\ data' = file
<1>1. Len(file) \in Nat /\ HeaderSize \in Nat
  BY TypesApart, PartsAssumption DEF LinkTypes, FileInv
<1>2. CASE Len(file) < HeaderSize
  BY <1>1, <1>2 DEF MapFile, cutterVars
<1>3. CASE ~(Len(file) < HeaderSize)
  BY <1>1, <1>3 DEF MapFile, CreateChunk
<1> QED BY <1>2, <1>3

(* The entries of two sequences one behind the other. *)
LEMMA Appended ==
    ASSUME NEW S, NEW s \in Seq(S), NEW t \in Seq(S)
    PROVE  /\ Len(s \o t) = Len(s) + Len(t)
           /\ \A k \in 1..Len(s) : (s \o t)[k] = s[k]
           /\ \A k \in 1..Len(t) : (s \o t)[Len(s) + k] = t[k]
  OBVIOUS

(* The chunks of a buffer, as TakeChunks finds them. *)
LEMMA ChunksFacts ==
    ASSUME CutterInv, cutter = "done", data # <<>>
    PROVE  /\ Len(cuts) \in Nat \ {0} /\ cuts[Len(cuts)] = Len(data)
           /\ Start(1) = 0
           /\ \A k \in 1..Len(cuts) :
                 /\ Start(k) \in Nat /\ cuts[k] \in Nat
                 /\ Start(k) < cuts[k] /\ cuts[k] <= Len(data)
                 /\ k # Len(cuts) => cuts[k] = Start(k + 1)
<1>1. /\ Len(cuts) \in Nat /\ Len(data) \in Nat \ {0}
      /\ \A k \in 1..Len(cuts) : cuts[k] \in Nat
      /\ params.boundary \in Nat
  BY DEF CutterInv, CutterTypeOK
<1>2. /\ \A k \in 1..Len(cuts) : cuts[k] > Start(k) /\ cuts[k] <= Limit(Start(k))
      /\ Start(Len(cuts) + 1) = Len(data)
  BY DEF CutterInv, Partition
<1>3. Start(1) = 0 /\ \A k \in Nat : k > 0 => Start(k + 1) = cuts[k]
  BY DEF Start
<1>4. Len(cuts) # 0
  BY <1>1, <1>2, <1>3
<1>5. cuts[Len(cuts)] = Len(data)
  <2>1. Start(Len(cuts) + 1) = cuts[Len(cuts)]
    BY <1>1, <1>3, <1>4
  <2> QED BY <2>1, <1>2
<1>6. ASSUME NEW k \in 1..Len(cuts)
      PROVE  /\ Start(k) \in Nat /\ cuts[k] \in Nat
             /\ Start(k) < cuts[k] /\ cuts[k] <= Len(data)
             /\ k # Len(cuts) => cuts[k] = Start(k + 1)
  <2>1. Start(k) \in Nat /\ cuts[k] \in Nat
    BY <1>1 DEF Start
  <2>2. Limit(Start(k)) <= Len(data)
    BY <2>1, <1>1 DEF Limit, Least
  <2>3. Limit(Start(k)) \in Nat
    BY <2>1, <1>1 DEF Limit, Least
  <2>4. cuts[k] > Start(k) /\ cuts[k] <= Limit(Start(k))
    BY <1>2
  <2>5. cuts[k] = Start(k + 1)
    BY <1>1, <1>3
  <2> QED BY <2>1, <2>2, <2>3, <2>4, <2>5, <1>1
<1> QED BY <1>1, <1>3, <1>4, <1>5, <1>6

(* The chunks are appended to the slices, each with its place in the file. *)
LEMMA TakeChunksFacts ==
    ASSUME TypeOK, CutterInv, Feeding, TakeChunks
    PROVE  \E o \in Nat :
              /\ o = offset - Len(data) /\ InPlace(0, o) /\ o = Covered
              /\ Len(data) \in Nat \ {0} /\ Len(data) <= ReadSize
              /\ offset = o + Len(data)
              /\ Len(cuts) \in Nat \ {0}
              /\ Len(slices') = Len(slices) + Len(cuts)
              /\ Len(begins') = Len(begins) + Len(cuts)
              /\ \A k \in 1..Len(slices) : slices'[k] = slices[k]
              /\ \A k \in 1..Len(begins) : begins'[k] = begins[k]
              /\ \A k \in 1..Len(cuts) :
                    /\ slices'[Len(slices) + k] = <<Start(k), cuts[k]>>
                    /\ begins'[Len(begins) + k] = o + Start(k)
              /\ UNCHANGED <<file, offset, buf, parts, style>>
              /\ linking = "cut"
              /\ linking' = IF style = "go" THEN "read" ELSE "save"
<1> DEFINE o == offset - Len(data)
           s == [k \in 1..Len(cuts) |-> <<Start(k), cuts[k]>>]
           b == [k \in 1..Len(cuts) |-> o + Start(k)]
<1>1. /\ linking = "cut" /\ cutter = "done"
      /\ slices' = slices \o s /\ begins' = begins \o b
      /\ linking' = IF style = "go" THEN "read" ELSE "save"
      /\ UNCHANGED <<cutterVars, file, offset, buf, parts>>
  BY DEF TakeChunks
<1>2. /\ CutterTypeOK /\ offset \in Nat
      /\ slices \in Seq(Nat \X Nat) /\ begins \in Seq(Nat)
  BY TypesApart DEF LinkTypes, FileInv
<1>3. /\ Len(data) \in 1..ReadSize /\ Len(data) <= offset /\ InPlace(0, o)
      /\ Len(data) \in Nat
  BY <1>1, <1>2 DEF Feeding, CutterTypeOK
<1>4. data # <<>>
  BY <1>3
<1>5. Len(cuts) \in Nat \ {0}
  BY <1>1, <1>4, ChunksFacts
<1>6. s \in Seq(Nat \X Nat) /\ b \in Seq(Nat) /\ Len(s) = Len(cuts) /\ Len(b) = Len(cuts)
  BY <1>2, <1>3, ChunksTyped
<1>7. /\ \A k \in 1..Len(cuts) : s[k] = <<Start(k), cuts[k]>>
      /\ \A k \in 1..Len(cuts) : b[k] = o + Start(k)
  OBVIOUS
<1>8. o \in Nat /\ offset = o + Len(data) /\ o = offset - Len(data) /\ o = Covered
  BY <1>1, <1>2, <1>3 DEF Covered
<1> HIDE DEF s, b, o
<1>9. /\ Len(slices') = Len(slices) + Len(cuts)
      /\ \A k \in 1..Len(slices) : slices'[k] = slices[k]
      /\ \A k \in 1..Len(cuts) : slices'[Len(slices) + k] = s[k]
  <2>1. /\ Len(slices \o s) = Len(slices) + Len(s)
        /\ \A k \in 1..Len(slices) : (slices \o s)[k] = slices[k]
        /\ \A k \in 1..Len(s) : (slices \o s)[Len(slices) + k] = s[k]
    <3>1. slices \in Seq(Nat \X Nat) /\ s \in Seq(Nat \X Nat)
      BY <1>2, <1>6
    <3> QED BY <3>1, Appended
  <2>2. slices' = slices \o s /\ Len(s) = Len(cuts)
    BY <1>1, <1>6
  <2> QED BY <2>1, <2>2, Zenon
<1>10. /\ Len(begins') = Len(begins) + Len(cuts)
       /\ \A k \in 1..Len(begins) : begins'[k] = begins[k]
       /\ \A k \in 1..Len(cuts) : begins'[Len(begins) + k] = b[k]
  <2>1. /\ Len(begins \o b) = Len(begins) + Len(b)
        /\ \A k \in 1..Len(begins) : (begins \o b)[k] = begins[k]
        /\ \A k \in 1..Len(b) : (begins \o b)[Len(begins) + k] = b[k]
    <3>1. begins \in Seq(Nat) /\ b \in Seq(Nat)
      BY <1>2, <1>6
    <3> QED BY <3>1, Appended
  <2>2. begins' = begins \o b /\ Len(b) = Len(cuts)
    BY <1>1, <1>6
  <2> QED BY <2>1, <2>2, Zenon
<1>11. style' = style
  BY <1>1 DEF cutterVars
<1>12. Len(data) \in Nat \ {0} /\ Len(data) <= ReadSize
  BY <1>3
<1>13. \A k \in 1..Len(cuts) :
          /\ slices'[Len(slices) + k] = <<Start(k), cuts[k]>>
          /\ begins'[Len(begins) + k] = o + Start(k)
  BY <1>7, <1>9, <1>10, Zenon
<1> QED BY <1>1, <1>3, <1>5, <1>8, <1>9, <1>10, <1>11, <1>12, <1>13, Zenon

(* Each step keeps the slices adjoining, each of one Read. *)
LEMMA PlacedStep ==
    ASSUME TypeOK, CutterInv, Placed, Filled, [Next]_vars
    PROVE  Placed'
<1>t. /\ slices \in Seq(Nat \X Nat) /\ Len(slices) \in Nat
      /\ offset \in Nat /\ Len(file) \in Nat
      /\ linking \in {"idle", "read", "cut", "save", "linked"}
  BY TypesApart DEF LinkTypes, FileInv
<1>1. CASE OpenFile
  <2>1. linking' = "read" /\ offset' = 0 /\ slices' = <<>> /\ begins' = <<>>
    BY <1>1 DEF OpenFile
  <2>2. Covered' = 0
    BY <2>1 DEF Covered
  <2> QED BY <2>1, <2>2 DEF Placed
<1>k. ASSUME UNCHANGED <<slices, begins, style, file>>, Covered' = Covered, linking # "idle"
      PROVE  Placed'
  <2>1. ReadSize' = ReadSize /\ Short' = Short
    BY <1>k DEF ReadSize, Short
  <2>2. \A k : Width(k)' = Width(k)
    BY <1>k DEF Width
  <2>3. \A f, b : InPlace(f, b)' = InPlace(f, b)
    BY <1>k DEF InPlace
  <2>4. /\ Len(begins) = Len(slices)
        /\ IF slices = <<>> THEN Covered = 0 \/ Short ELSE begins[1] = 0
    BY <1>k DEF Placed
  <2>5. \A k \in 1..Len(slices) :
             /\ slices[k][1] < slices[k][2] /\ slices[k][2] <= ReadSize
             /\ InPlace(slices[k][1], begins[k])
             /\ begins[k] + Width(k) <= Covered
             /\ begins[k] + Width(k)
                   = IF k = Len(slices) THEN Covered ELSE begins[k + 1]
    BY <1>k DEF Placed
  <2>6. \A k \in 1..Len(slices') :
             /\ slices'[k][1] < slices'[k][2] /\ slices'[k][2] <= ReadSize'
             /\ InPlace(slices[k][1], begins[k])'
             /\ begins'[k] + Width(k)' <= Covered'
             /\ begins'[k] + Width(k)'
                   = IF k = Len(slices') THEN Covered' ELSE begins'[k + 1]
    <3>1. \A k : InPlace(slices[k][1], begins[k])' = InPlace(slices[k][1], begins[k])
      BY <1>k DEF InPlace
    <3> QED BY <3>1, <2>1, <2>2, <2>5, <1>k
  <2> QED BY <2>1, <2>4, <2>6, <1>k DEF Placed
<1>2. CASE ReadFile
  <2>1. PICK n \in Nat : /\ offset' = offset + n /\ Len(data') = n
                         /\ UNCHANGED <<file, slices, begins, style>>
                         /\ linking = "read" /\ linking' = "cut"
    BY <1>2, ReadFileFacts
  <2>2. Covered' = Covered
    BY <2>1, <1>t DEF Covered
  <2> QED BY <2>1, <2>2, <1>k
<1>3. CASE MapFile
  <2>1. /\ offset' = Len(file) /\ style = "rust" /\ linking = "read"
        /\ UNCHANGED <<file, slices, begins, style>>
        /\ \/ linking' = "save" /\ Len(file) < HeaderSize
           \/ linking' = "cut" /\ data' = file
    BY <1>3, MapFileFacts
  <2>2. slices = <<>> /\ offset = 0
    BY <2>1 DEF Filled, MappedInRust
  <2>3. Covered' = 0 \/ Short'
    BY <2>1, <1>t DEF Covered, Short
  <2>4. Len(begins') = 0 /\ slices' = <<>>
    BY <2>1, <2>2, <1>t DEF Placed
  <2> QED BY <2>3, <2>4 DEF Placed
<1>4. CASE TakeChunks
  <2>1. PICK o \in Nat :
              /\ o = offset - Len(data) /\ InPlace(0, o) /\ o = Covered
              /\ Len(data) \in Nat \ {0} /\ Len(data) <= ReadSize
              /\ offset = o + Len(data)
              /\ Len(cuts) \in Nat \ {0}
              /\ Len(slices') = Len(slices) + Len(cuts)
              /\ Len(begins') = Len(begins) + Len(cuts)
              /\ \A k \in 1..Len(slices) : slices'[k] = slices[k]
              /\ \A k \in 1..Len(begins) : begins'[k] = begins[k]
              /\ \A k \in 1..Len(cuts) :
                    /\ slices'[Len(slices) + k] = <<Start(k), cuts[k]>>
                    /\ begins'[Len(begins) + k] = o + Start(k)
              /\ UNCHANGED <<file, offset, buf, parts, style>>
              /\ linking = "cut"
              /\ linking' = IF style = "go" THEN "read" ELSE "save"
    BY <1>4, TakeChunksFacts DEF Filled
  <2>2. cutter = "done" /\ data # <<>>
    BY <2>1, <1>4 DEF TakeChunks
  <2>3. /\ Len(cuts) \in Nat \ {0} /\ cuts[Len(cuts)] = Len(data)
        /\ Start(1) = 0
        /\ \A k \in 1..Len(cuts) :
              /\ Start(k) \in Nat /\ cuts[k] \in Nat
              /\ Start(k) < cuts[k] /\ cuts[k] <= Len(data)
              /\ k # Len(cuts) => cuts[k] = Start(k + 1)
    BY <2>2, ChunksFacts
  <2>4. Covered' = offset /\ ReadSize' = ReadSize /\ Len(begins) = Len(slices)
        /\ ~Short
    <3>1. linking' # "cut" /\ linking' \in {"read", "save"}
      BY <2>1
    <3>2. Covered' = offset
      BY <3>1, <2>1 DEF Covered
    <3>3. ReadSize' = ReadSize
      BY <2>1 DEF ReadSize
    <3>4. ~Short
      BY <2>1 DEF Filled, MappedInRust, Short
    <3> QED BY <2>1, <3>2, <3>3, <3>4 DEF Placed
  <2>b. begins'[Len(begins) + 1] = o + Start(1)
    <3>1. 1 \in 1..Len(cuts)
      BY <2>3
    <3>2. \A k \in 1..Len(cuts) : begins'[Len(begins) + k] = o + Start(k)
      BY <2>1, Zenon
    <3> QED BY <3>1, <3>2, Zenon
  <2>5. begins'[1] = 0 /\ slices' # <<>>
    <3>1. CASE slices = <<>>
      <4>1. o = 0 /\ Len(slices) = 0
        BY <3>1, <2>1, <2>4 DEF Placed
      <4>3. Len(begins) = 0 /\ begins'[0 + 1] = 0 + 0 /\ Len(slices') = 0 + Len(cuts)
        BY <4>1, <2>b, <2>1, <2>3, <2>4, Zenon
      <4>4. begins'[1] = 0 /\ Len(slices') # 0
        BY <4>3, <2>3
      <4> QED BY <4>4
    <3>2. CASE slices # <<>>
      <4>1. Len(slices) # 0 /\ begins[1] = 0
        BY <3>2, <2>1, <1>t DEF Placed
      <4>2. 1 \in 1..Len(begins)
        BY <4>1, <2>4, <1>t
      <4>3. begins'[1] = begins[1]
        BY <4>2, <2>1
      <4>4. Len(slices') # 0
        BY <4>1, <2>1, <1>t
      <4> QED BY <4>1, <4>3, <4>4
    <3> QED BY <3>1, <3>2
  <2>6. ASSUME NEW k \in 1..Len(slices')
        PROVE  /\ slices'[k][1] < slices'[k][2] /\ slices'[k][2] <= ReadSize'
               /\ InPlace(slices[k][1], begins[k])'
               /\ begins'[k] + Width(k)' <= Covered'
               /\ begins'[k] + Width(k)'
                     = IF k = Len(slices') THEN Covered' ELSE begins'[k + 1]
    <3>1. CASE k \in 1..Len(slices)
      <4>1. slices'[k] = slices[k] /\ begins'[k] = begins[k]
        BY <3>1, <2>1, <2>4
      <4>2. /\ slices[k][1] < slices[k][2] /\ slices[k][2] <= ReadSize
            /\ InPlace(slices[k][1], begins[k])
            /\ begins[k] + Width(k) <= o
            /\ begins[k] + Width(k)
                   = IF k = Len(slices) THEN o ELSE begins[k + 1]
        BY <3>1, <2>1 DEF Placed
      <4>3. /\ slices[k][1] \in Nat /\ slices[k][2] \in Nat /\ begins[k] \in Nat
            /\ Width(k) \in Nat
        BY <3>1, <2>1, SliceTyped
      <4>4. Width(k)' = Width(k)
        BY <4>1 DEF Width
      <4>5. InPlace(slices[k][1], begins[k])'
        BY <4>1, <4>2, <2>1 DEF InPlace
      <4>6. CASE k = Len(slices)
        <5>2. begins'[k + 1] = o /\ k # Len(slices')
          BY <2>b, <4>6, <2>1, <2>3, <2>4, <1>t
        <5> QED BY <5>2, <4>1, <4>2, <4>3, <4>4, <4>5, <4>6, <2>1, <2>4
      <4>7. CASE k # Len(slices)
        <5>1. begins'[k + 1] = begins[k + 1] /\ k # Len(slices')
          <6>1. k + 1 \in 1..Len(begins) /\ k # Len(slices) + Len(cuts)
            BY <4>7, <3>1, <2>3, <2>4, <1>t, SMTT(30)
          <6> QED BY <6>1, <2>1
        <5>2. begins'[k] + Width(k)' = begins'[k + 1]
          BY <5>1, <4>1, <4>2, <4>4, <4>7
        <5>3. Covered' = o + Len(data) /\ Len(data) \in Nat
          BY <2>1, <2>4
        <5>4. begins'[k] + Width(k)' <= Covered'
          BY <5>3, <4>1, <4>2, <4>3, <4>4
        <5>5. slices'[k][1] < slices'[k][2] /\ slices'[k][2] <= ReadSize'
          BY <4>1, <4>2, <2>1, <2>4
        <5> QED BY <5>1, <5>2, <5>4, <5>5, <4>5
      <4> QED BY <4>6, <4>7
    <3>2. CASE k \notin 1..Len(slices)
      <4>1. PICK m \in 1..Len(cuts) : k = Len(slices) + m
        <5>1. k - Len(slices) \in 1..Len(cuts) /\ k = Len(slices) + (k - Len(slices))
          BY <3>2, <2>1, <1>t
        <5> QED BY <5>1
      <4>2. /\ slices'[k] = <<Start(m), cuts[m]>> /\ begins'[k] = o + Start(m)
        BY <4>1, <2>1, <2>4
      <4>3. /\ Start(m) \in Nat /\ cuts[m] \in Nat
            /\ Start(m) < cuts[m] /\ cuts[m] <= Len(data)
            /\ m # Len(cuts) => cuts[m] = Start(m + 1)
        BY <2>3
      <4>4. Width(k)' = cuts[m] - Start(m)
        BY <4>2 DEF Width
      <4>5. InPlace(slices[k][1], begins[k])'
        <5>1. CASE style = "go"
          <6>1. ((o + Start(m)) - Start(m)) = o /\ (o - 0) = o
            BY <2>1, <4>3
          <6>2. o % ReadMax = 0
            BY <5>1, <6>1, <2>1 DEF InPlace
          <6>3. Start(m) <= o + Start(m)
            BY <4>3, <2>1
          <6> QED BY <6>1, <6>2, <6>3, <5>1, <4>2, <2>1 DEF InPlace
        <5>2. CASE style # "go"
          BY <5>2, <2>1, <4>2, <4>3 DEF InPlace
        <5> QED BY <5>1, <5>2
      <4>6. begins'[k] + Width(k)' = o + cuts[m]
        BY <4>2, <4>3, <4>4
      <4>7. slices'[k][1] < slices'[k][2] /\ slices'[k][2] <= ReadSize'
        <5>1. ReadSize \in Nat
          BY ReadSizeTyped
        <5>2. slices'[k][1] = Start(m) /\ slices'[k][2] = cuts[m]
          BY <4>2
        <5> QED BY <5>1, <5>2, <4>3, <2>1, <2>4
      <4>8. CASE m = Len(cuts)
        <5>1. k = Len(slices')
          BY <4>8, <4>1, <2>1
        <5> QED BY <5>1, <4>5, <4>6, <4>7, <4>8, <2>1, <2>3, <2>4
      <4>9. CASE m # Len(cuts)
        <5>1. m + 1 \in 1..Len(cuts) /\ k # Len(slices') /\ k + 1 = Len(begins) + (m + 1)
          BY <4>9, <4>1, <2>1, <2>4, <1>t
        <5>2. begins'[k + 1] = o + Start(m + 1)
          BY <5>1, <2>1
        <5>3. o + cuts[m] <= offset
          <6>1. o \in Nat /\ offset = o + Len(data) /\ Len(data) \in Nat
            BY <2>1
          <6> QED BY <6>1, <4>3
        <5> QED BY <5>1, <5>2, <5>3, <4>3, <4>5, <4>6, <4>7, <4>9, <2>1, <2>4
      <4> QED BY <4>8, <4>9
    <3> QED BY <3>1, <3>2
  <2>7. Len(begins') = Len(slices')
    BY <2>1, <2>4
  <2> QED BY <2>5, <2>6, <2>7 DEF Placed
<1>5. CASE ~OpenFile /\ ~ReadFile /\ ~MapFile /\ ~TakeChunks
  <2>1. UNCHANGED <<file, offset, slices, begins, style>>
    BY <1>5, LinkKept
  <2>2. CASE linking' = "idle"
    BY <2>2 DEF Placed
  <2>3. CASE linking' = linking /\ UNCHANGED data /\ linking # "idle"
    <3>1. Covered' = Covered
      BY <2>1, <2>3 DEF Covered
    <3> QED BY <3>1, <2>1, <2>3, <1>k
  <2>4. CASE EndOfFile \/ SavePart \/ ReturnLink
    <3>1. linking \in {"read", "save"} /\ linking' \in {"save", "linked"}
      BY <2>4 DEF EndOfFile, SavePart, ReturnLink
    <3>2. Covered' = Covered
      BY <2>1, <3>1 DEF Covered
    <3> QED BY <3>1, <3>2, <2>1, <1>k
  <2> QED BY <2>2, <2>3, <2>4, <1>5, LinkKept, CutKeepsData DEF cutterVars
<1> QED BY <1>1, <1>2, <1>3, <1>4, <1>5

-----------------------------------------------------------------------------
(* What the buffer holds. *)

(* Nothing, and the divisor itself, leave no remainder. *)
LEMMA ZeroRemainder == ASSUME NEW M \in Nat \ {0} PROVE 0 % M = 0 /\ M % M = 0
<1>1. (M * 0 + 0) % M = 0
  BY Remainder
<1>2. M * 0 + 0 = 0
  BY Z3
<1>3. M % M = 0
  BY Z3
<1> QED BY <1>1, <1>2, <1>3

(* A Read of n bytes behind o whole Reads: what it puts at p is the latest *)
(* there, and what it does not reach stays the latest.                     *)
LEMMA LatestRead ==
    ASSUME NEW o \in Nat, o % ReadMax = 0, NEW n \in Nat \ {0}, n <= ReadMax,
           NEW p \in 1..n
    PROVE  Latest(p, o + n, o + p)
<1> USE PartsAssumption DEF PartsAssumption
<1>0. ReadMax \in Nat \ {0} /\ p \in Nat
  OBVIOUS
<1>1. (o + p) % ReadMax = p % ReadMax
  BY <1>0, MultipleAdded, Zenon
<1>2. ASSUME NEW r \in 1..(o + n), r % ReadMax = p % ReadMax
      PROVE  r <= o + p
  <2> SUFFICES ASSUME o + p < r PROVE FALSE
    OBVIOUS
  <2>1. (o + p) + ReadMax <= r
    <3>1. (o + p) % ReadMax = r % ReadMax /\ o + p \in Nat /\ r \in Nat
          /\ ReadMax \in Nat \ {0}
      BY <1>1, <1>2
    <3> QED BY <3>1, SameRemainder
  <2> QED BY <2>1
<1>3. o + p \in 1..(o + n)
  OBVIOUS
<1> QED BY <1>1, <1>2, <1>3 DEF Latest

(* A Read that ends before a place in the buffer leaves the byte there. *)
LEMMA LatestKept ==
    ASSUME NEW o \in Nat, o % ReadMax = 0, NEW n \in Nat \ {0},
           NEW p \in (n + 1)..ReadMax, NEW q \in 1..o, Latest(p, o, q)
    PROVE  Latest(p, o + n, q)
<1> USE PartsAssumption DEF PartsAssumption
<1>1. ASSUME NEW r \in 1..(o + n), r % ReadMax = p % ReadMax
      PROVE  r <= q
  <2>1. CASE r <= o
    <3>1. r \in 1..o
      BY <2>1
    <3> QED BY <3>1, <1>1, Zenon DEF Latest
  <2>2. CASE ~(r <= o)
    <3>1. PICK s \in 1..n : r = o + s
      <4>1. r - o \in 1..n /\ r = o + (r - o)
        BY <2>2
      <4> QED BY <4>1
    <3>2. r % ReadMax = s % ReadMax
      <4>1. ReadMax \in Nat \ {0} /\ s \in Nat
        OBVIOUS
      <4> QED BY <4>1, <3>1, MultipleAdded, Zenon
    <3>3. s + ReadMax <= p
      <4>1. s % ReadMax = p % ReadMax /\ s \in Nat /\ p \in Nat /\ s < p
            /\ ReadMax \in Nat \ {0}
        BY <3>2, <1>1
      <4> QED BY <4>1, SameRemainder
    <3> QED BY <3>3
  <2> QED BY <2>1, <2>2
<1>2. q \in 1..(o + n)
  OBVIOUS
<1> QED BY <1>1, <1>2 DEF Latest

(* After a Read each place holds the latest byte read there. *)
LEMMA ReadInGoRead ==
    ASSUME TypeOK, Filled, ReadFile
    PROVE  ReadInGo'
<1> USE PartsAssumption DEF PartsAssumption
<1>1. PICK n \in Nat \ {0} :
              /\ n = Least(ReadMax, Len(file) - offset)
              /\ n <= ReadMax /\ offset + n <= Len(file)
              /\ n = ReadMax \/ offset + n = Len(file)
              /\ offset' = offset + n /\ data' = SubSeq(buf', 1, n)
              /\ Len(data') = n
              /\ \A k \in 1..Len(file) :
                    buf'[k] = IF k <= n THEN file[offset + k] ELSE buf[k]
              /\ UNCHANGED <<file, slices, begins, style>>
              /\ linking = "read" /\ linking' = "cut" /\ style = "go"
  BY ReadFileFacts
<1>2. offset \in Nat /\ Len(file) \in Nat /\ ReadMax \in Nat \ {0}
  BY TypesApart DEF LinkTypes, FileInv
<1>3. offset % ReadMax = 0
  <2>1. offset # Len(file)
    BY <1>1, <1>2
  <2> QED BY <2>1, <1>1 DEF Filled, ReadInGo
<1>4. offset' = Len(file') \/ offset' % ReadMax = 0
  <2>1. CASE n = ReadMax
    <3>1. (offset + ReadMax) % ReadMax = ReadMax % ReadMax
      BY <1>2, <1>3, MultipleAdded
    <3> QED BY <3>1, <2>1, <1>1, <1>2, ZeroRemainder
  <2> QED BY <2>1, <1>1
<1>5. ASSUME NEW p \in 1..Least(ReadMax, offset + n)
      PROVE  \E q \in 1..(offset + n) : Latest(p, offset + n, q) /\ buf'[p] = file[q]
  <2>1. p \in Nat \ {0} /\ p <= ReadMax /\ p <= offset + n /\ p \in 1..Len(file)
    BY <1>1, <1>2 DEF Least
  <2>2. CASE p <= n
    <3>1. Latest(p, offset + n, offset + p)
      <4>1. p \in 1..n /\ n <= ReadMax
        BY <2>1, <2>2, <1>1
      <4> QED BY <4>1, <1>2, <1>3, LatestRead, Zenon
    <3>2. buf'[p] = file[offset + p] /\ offset + p \in 1..(offset + n)
      BY <2>1, <2>2, <1>1, <1>2
    <3> QED BY <3>1, <3>2
  <2>3. CASE ~(p <= n)
    <3>1. ReadMax <= offset
      <4>1. 0 < offset /\ 0 % ReadMax = offset % ReadMax
        BY <2>1, <2>3, <1>2, <1>3, ZeroRemainder
      <4>2. 0 + ReadMax <= offset
        BY <4>1, <1>2, SameRemainder
      <4> QED BY <4>2, <1>2
    <3>2. p \in 1..Least(ReadMax, offset) /\ p \in (n + 1)..ReadMax
      BY <3>1, <2>1, <2>3, <1>1, <1>2 DEF Least
    <3>3. PICK q \in 1..offset : Latest(p, offset, q) /\ buf[p] = file[q]
      BY <3>2, <1>1 DEF Filled, ReadInGo
    <3>4. Latest(p, offset + n, q)
      BY <3>2, <3>3, <1>1, <1>2, <1>3, LatestKept
    <3>5. buf'[p] = buf[p] /\ q \in 1..(offset + n)
      BY <2>1, <2>3, <1>1, <1>2
    <3> QED BY <3>3, <3>4, <3>5
  <2> QED BY <2>2, <2>3
<1>6. \A p \in 1..Least(ReadMax, offset') :
         \E q \in 1..offset' : Latest(p, offset', q) /\ buf'[p] = file'[q]
  BY <1>1, <1>5
<1>7. linking' = "cut" /\ \A p, o, q : Latest(p, o, q)' = Latest(p, o, q)
  BY <1>1 DEF Latest
<1> QED BY <1>4, <1>6, <1>7 DEF ReadInGo, Latest

(* Each step keeps what is known of the bytes in the buffer. *)
LEMMA FilledStep ==
    ASSUME TypeOK, CutterInv, Placed, Filled, [Next]_vars
    PROVE  Filled'
<1> USE PartsAssumption DEF PartsAssumption
<1>t. /\ Len(file) \in Nat /\ offset \in 0..Len(file)
      /\ style \in Styles
      /\ linking \in {"idle", "read", "cut", "save", "linked"}
  BY TypesApart DEF LinkTypes, FileInv, CutterTypeOK
<1>1. CASE OpenFile
  <2>1. /\ linking' = "read" /\ offset' = 0 /\ slices' = <<>> /\ style' = style
    BY <1>1 DEF OpenFile, cutterVars
  <2>2. ReadInGo'
    <3>1. offset' % ReadMax = 0
      BY <2>1, ZeroRemainder
    <3>2. 1..Least(ReadMax, offset') = {}
      BY <2>1 DEF Least
    <3> QED BY <2>1, <3>1, <3>2 DEF ReadInGo
  <2> QED BY <2>1, <2>2 DEF Filled, Feeding, MappedInRust
<1>2. CASE ReadFile
  <2>1. ReadInGo'
    BY <1>2, ReadInGoRead
  <2>2. PICK n \in Nat \ {0} :
              /\ n = Least(ReadMax, Len(file) - offset)
              /\ offset + n <= Len(file) /\ n <= ReadMax
              /\ offset' = offset + n /\ Len(data') = n
              /\ UNCHANGED <<file, style>>
              /\ linking = "read" /\ linking' = "cut" /\ style = "go"
    BY <1>2, ReadFileFacts
  <2>3. Feeding'
    <3>1. Len(data') \in 1..ReadSize' /\ Len(data') <= offset'
      BY <2>2, <1>t DEF ReadSize, Least
    <3>2. (offset' - Len(data')) - 0 = offset
      BY <2>2, <1>t
    <3>3. offset % ReadMax = 0
      BY <2>2, <1>t DEF Filled, ReadInGo
    <3>4. InPlace(0, offset - Len(data))'
      <4>1. 0 <= offset' - Len(data')
        BY <2>2, <1>t
      <4>2. ((offset' - Len(data')) - 0) % ReadMax = 0
        BY <3>2, <3>3
      <4> QED BY <4>1, <4>2, <2>2, Zenon DEF InPlace
    <3> QED BY <3>1, <3>4 DEF Feeding
  <2> QED BY <2>1, <2>2, <2>3 DEF Filled, MappedInRust
<1>3. CASE MapFile
  <2>1. /\ buf' = file /\ offset' = Len(file) /\ style = "rust" /\ linking = "read"
        /\ UNCHANGED <<file, slices, begins, style>>
        /\ \/ linking' = "save" /\ Len(file) < HeaderSize
           \/ linking' = "cut" /\ Len(file) >= HeaderSize /\ data' = file
    BY <1>3, MapFileFacts
  <2>2. slices' = <<>> /\ style' = "rust"
    BY <2>1 DEF Filled, MappedInRust
  <2>3. CASE linking' = "save"
    <3>1. Len(file) < HeaderSize
      BY <2>1, <2>3
    <3> QED BY <3>1, <2>1, <2>2, <2>3 DEF Filled, Feeding, ReadInGo, MappedInRust, Short
  <2>4. CASE linking' = "cut"
    <3>1. Len(file) >= HeaderSize /\ data' = file
      BY <2>1, <2>4
    <3>2. Len(data') \in 1..ReadSize' /\ Len(data') <= offset' /\ offset' - Len(data') = 0
      BY <3>1, <2>1, <2>2, <1>t DEF ReadSize
    <3>3. Feeding'
      BY <3>2, <2>2 DEF Feeding, InPlace
    <3>4. ~Short'
      BY <3>1, <2>1, <1>t DEF Short
    <3> QED BY <3>3, <3>4, <2>1, <2>2, <2>4 DEF Filled, ReadInGo, MappedInRust
  <2> QED BY <2>1, <2>3, <2>4
<1>4. CASE TakeChunks
  <2>1. /\ UNCHANGED <<file, offset, buf, style>> /\ linking = "cut"
        /\ linking' = IF style = "go" THEN "read" ELSE "save"
    BY <1>4 DEF TakeChunks, cutterVars
  <2>2. CASE style = "go"
    <3>1. ReadInGo'
      BY <2>1, <2>2 DEF Filled, ReadInGo, Latest
    <3> QED BY <3>1, <2>1, <2>2 DEF Filled, Feeding, MappedInRust
  <2>3. CASE style = "rust"
    <3>1. buf = file /\ offset = Len(file) /\ ~Short
      BY <2>1, <2>3 DEF Filled, MappedInRust
    <3>2. slices' # <<>>
      <4>1. Len(slices') = Len(slices) + Len(cuts) /\ Len(cuts) \in Nat \ {0}
        BY <1>4, TakeChunksFacts DEF Filled
      <4>2. Len(slices) \in Nat
        BY TypesApart DEF LinkTypes
      <4> QED BY <4>1, <4>2
    <3>3. ~Short'
      BY <3>1, <2>1 DEF Short
    <3> QED BY <3>1, <3>2, <3>3, <2>1, <2>3 DEF Filled, Feeding, ReadInGo, MappedInRust
  <2> QED BY <2>2, <2>3, <1>t DEF Styles
<1>5. CASE ~OpenFile /\ ~ReadFile /\ ~MapFile /\ ~TakeChunks
  <2>1. UNCHANGED <<file, offset, buf, slices, style>>
    BY <1>5, LinkKept
  <2>r. ReadSize' = ReadSize /\ Short' = Short
    BY <2>1 DEF ReadSize, Short
  <2>2. CASE linking' = "idle"
    BY <2>2 DEF Filled, Feeding, ReadInGo, MappedInRust
  <2>3. CASE linking' = linking /\ UNCHANGED data
    <3>1. Feeding'
      BY <2>1, <2>r, <2>3 DEF Filled, Feeding, InPlace
    <3>2. ReadInGo' /\ MappedInRust'
      BY <2>1, <2>r, <2>3 DEF Filled, ReadInGo, MappedInRust, Latest
    <3> QED BY <3>1, <3>2, <2>1, <2>r, <2>3 DEF Filled
  <2>4. CASE EndOfFile
    <3>1. /\ linking = "read" /\ style = "go" /\ file # <<>> /\ offset = Len(file)
          /\ linking' = "save"
      BY <2>4 DEF EndOfFile
    <3>2. ReadInGo'
      BY <2>1, <3>1 DEF Filled, ReadInGo, Latest
    <3>3. slices # <<>>
      <4>1. file \in Seq(Values)
        BY TypesApart DEF LinkTypes, FileInv
      <4>2. Len(file) # 0
        BY <3>1, <4>1
      <4>3. Covered = offset /\ ~Short
        BY <3>1 DEF Covered, Short
      <4> QED BY <3>1, <4>2, <4>3 DEF Placed
    <3> QED BY <3>1, <3>2, <3>3, <2>1 DEF Filled, Feeding, MappedInRust
  <2>5. CASE SavePart \/ ReturnLink
    <3>1. linking = "save" /\ linking' \in {"save", "linked"}
      BY <2>5 DEF SavePart, ReturnLink
    <3>2. ReadInGo'
      BY <2>1, <3>1 DEF Filled, ReadInGo, Latest
    <3> QED BY <3>1, <3>2, <2>1, <2>r DEF Filled, Feeding, MappedInRust
  <2> QED BY <2>2, <2>3, <2>4, <2>5, <1>5, LinkKept, CutKeepsData DEF cutterVars
<1> QED BY <1>1, <1>2, <1>3, <1>4, <1>5

-----------------------------------------------------------------------------
(* The part files. *)

(* Each step keeps the part files the slices that were saved. *)
LEMMA SavedStep ==
    ASSUME TypeOK, Placed, Saved, [Next]_vars
    PROVE  Saved'
<1>t. /\ slices \in Seq(Nat \X Nat) /\ Len(slices) \in Nat
      /\ linking \in {"idle", "read", "cut", "save", "linked"}
      /\ Directory(parts) /\ written \in 0..Len(slices) /\ written \in Nat
  BY TypesApart DEF LinkTypes, PartTypes
<1>e. ASSUME written' = 0, style' = "go" => parts' = Empty,
             linking' \in {"read", "cut", "save"}
      PROVE  Saved'
  <2>1. SavedUpTo(0)'
    BY <1>e, EmptyDirectory DEF SavedUpTo
  <2> QED BY <2>1, <1>e DEF Saved
<1>1. CASE \/ OpenFile \/ ReadFile \/ MapFile \/ TakeChunks \/ EndOfFile
  <2>1. /\ linking' \in {"read", "cut", "save"} /\ style' = style
        /\ \/ written' = 0 /\ (style = "go" => parts' = Empty)
           \/ UNCHANGED <<parts, written>> /\ linking \in {"read", "cut"}
    BY <1>1 DEF OpenFile, ReadFile, MapFile, TakeChunks, EndOfFile, CreateChunk,
                cutterVars
  <2> QED BY <2>1, <1>e DEF Saved
<1>2. CASE SavePart
  <2> DEFINE w == SubSeq(buf, slices[written + 1][1] + 1, slices[written + 1][2])
  <2>1. /\ written < Len(slices) /\ UNCHANGED <<slices, buf, linking, style>>
        /\ linking = "save" /\ written' = written + 1
        /\ parts' = Write(parts, written, w)
    BY <1>2 DEF SavePart, cutterVars
  <2>2. SavedUpTo(written)
    BY <2>1 DEF Saved
  <2>3. written + 1 \in 1..Len(slices)
    BY <2>1, <1>t
  <2>4. w \in Contents
    BY <2>1, <2>3, SliceTyped
  <2> HIDE DEF w
  <2>5. /\ DOMAIN parts' = DOMAIN parts \cup {written} /\ parts'[written] = w
        /\ \A k \in DOMAIN parts : k # written => parts'[k] = parts[k]
    <3>1. /\ DOMAIN Write(parts, written, w) = DOMAIN parts \cup {written}
          /\ Write(parts, written, w)[written] = w
          /\ \A k \in DOMAIN parts :
                k # written => Write(parts, written, w)[k] = parts[k]
      BY <2>4, <1>t, Writing, ZenonT(30)
    <3> QED BY <3>1, <2>1, Zenon
  <2>6. 0..((written + 1) - 1) = 0..(written - 1) \cup {written}
    BY <1>t
  <2>7. /\ 0..((written + 1) - 1) \subseteq DOMAIN parts'
        /\ style = "go" => DOMAIN parts' = 0..((written + 1) - 1)
    BY <2>2, <2>5, <2>6 DEF SavedUpTo
  <2>8. ASSUME NEW k \in 0..((written + 1) - 1)
        PROVE  parts'[k] = SubSeq(buf, slices[k + 1][1] + 1, slices[k + 1][2])
    <3>1. CASE k = written
      BY <3>1, <2>5 DEF w
    <3>2. CASE k # written
      <4>1. k \in 0..(written - 1) /\ k \in DOMAIN parts
        BY <3>2, <2>6, <2>2 DEF SavedUpTo
      <4> QED BY <4>1, <3>2, <2>2, <2>5 DEF SavedUpTo
    <3> QED BY <3>1, <3>2
  <2>9. SavedUpTo(written)'
    BY <2>1, <2>7, <2>8 DEF SavedUpTo
  <2> QED BY <2>1, <2>9 DEF Saved
<1>3. CASE ReturnLink
  <2>1. /\ linking = "save" /\ linking' = "linked" /\ written = Len(slices)
        /\ UNCHANGED <<slices, buf, parts, written, style>>
    BY <1>3 DEF ReturnLink, cutterVars
  <2>2. SavedUpTo(written)
    BY <2>1 DEF Saved
  <2>3. SavedUpTo(written)'
    BY <2>1, <2>2 DEF SavedUpTo
  <2> QED BY <2>1, <2>3 DEF Saved
<1>4. CASE /\ ~OpenFile /\ ~ReadFile /\ ~MapFile /\ ~TakeChunks /\ ~EndOfFile
           /\ ~SavePart /\ ~ReturnLink
  <2>1. /\ UNCHANGED <<buf, slices, style>>
        /\ linking' = linking \/ linking' = "idle"
    BY <1>4, LinkKept
  <2>2. UNCHANGED <<parts, written>> \/ linking' = "idle"
    <3>1. CASE ReadNothing \/ SaveFails \/ LinkLeft
      BY <3>1 DEF ReadNothing, SaveFails, LinkLeft, NextFile, ReadFails, vars, linkVars
    <3>2. CASE Cut
      BY <3>2 DEF Cut, linkVars
    <3>3. CASE TransferStep \/ JoinStep \/ UNCHANGED vars
      BY <3>3, Apart DEF vars, linkVars
    <3> QED BY <3>1, <3>2, <3>3, <1>4, Steps DEF LinkStep
  <2>3. CASE linking' = "idle"
    BY <2>3 DEF Saved
  <2>4. CASE linking' = linking /\ UNCHANGED <<parts, written>>
    BY <2>1, <2>4 DEF Saved, SavedUpTo
  <2> QED BY <2>1, <2>2, <2>3, <2>4
<1> QED BY <1>1, <1>2, <1>3, <1>4

-----------------------------------------------------------------------------
(* Transfers. *)

(* Each part of a transfer stays on its way, lost or stored. *)
LEMMA SentStep ==
    ASSUME TypeOK, Sent, [Next]_vars
    PROVE  Sent'
<1>t. /\ Directory(parts) /\ Directory(bin) /\ DOMAIN parts \subseteq Nat
      /\ queue \subseteq DOMAIN parts /\ storing \in DOMAIN parts \cup {None}
      /\ linking \in {"idle", "read", "cut", "save", "linked"}
      /\ None \notin DOMAIN parts
  <2>1. LinkTypes /\ PartTypes /\ SendTypes
    BY TypesApart
  <2>2. DOMAIN parts \subseteq Nat /\ None \notin DOMAIN parts
    BY <2>1 DEF PartTypes, Directory, None
  <2> QED BY <2>1, <2>2 DEF LinkTypes, PartTypes, SendTypes
<1>k. ASSUME UNCHANGED <<sendVars, parts>>, linking' = linking
      PROVE  Sent'
  BY <1>k DEF Sent, Transferred, sendVars
<1>1. CASE OpenFile
  <2>1. /\ linking = "idle" /\ linking' = "read" /\ queue' = {} /\ sends' = 0
        /\ UNCHANGED storing
    BY <1>1 DEF OpenFile
  <2> QED BY <2>1 DEF Sent, Transferred
<1>2. CASE LinkStep /\ ~OpenFile
  <2>1. UNCHANGED sendVars
    BY <1>2, Apart
  <2>2. CASE ReadNothing \/ Cut
    <3>1. UNCHANGED parts /\ linking' = linking
      BY <2>2 DEF ReadNothing, Cut, vars, linkVars
    <3> QED BY <3>1, <2>1, <1>k
  <2>3. CASE SavePart
    BY <2>3, <2>1 DEF SavePart, Sent, Transferred, sendVars
  <2>4. CASE ReadFile \/ MapFile \/ EndOfFile \/ TakeChunks \/ SaveFails \/ ReturnLink
    <3>1. linking \in {"read", "cut", "save"}
          /\ linking' \in {"idle", "read", "cut", "save", "linked"}
      BY <2>4 DEF ReadFile, MapFile, EndOfFile, TakeChunks, SaveFails, ReturnLink
    <3>2. Transferred' /\ sends' = 0
      BY <3>1, <2>1 DEF Sent, Transferred, sendVars
    <3> QED BY <3>2 DEF Sent
  <2> QED BY <1>2, <2>2, <2>3, <2>4 DEF LinkStep
<1>3. CASE LinkLeft
  BY <1>3 DEF LinkLeft, NextFile, ReadFails, Sent, Transferred, sendVars
<1>4. CASE JoinStep \/ UNCHANGED vars
  <2>1. UNCHANGED <<sendVars, parts>> /\ linking' = linking
    BY <1>4, Apart DEF vars, linkVars
  <2> QED BY <2>1, <1>k
<1>5. CASE TransferStep
  <2>0. UNCHANGED parts /\ linking' = linking
    BY <1>5, Apart DEF linkVars
  <2>1. CASE Send
    BY <2>1, <2>0 DEF Send, Sent, Transferred
  <2>2. CASE StoreWrites
    <3>1. /\ storing \in DOMAIN parts /\ bin' = Write(bin, storing, parts[storing])
          /\ storing' = None /\ UNCHANGED <<queue, sends, lost>>
      BY <2>2, <1>t DEF StoreWrites
    <3>2. linking = "linked"
      BY <3>1, <1>t DEF Sent, Transferred
    <3>3. /\ storing \in DOMAIN bin' /\ bin'[storing] = parts[storing]
          /\ \A k \in DOMAIN bin : k # storing => k \in DOMAIN bin' /\ bin'[k] = bin[k]
      BY <3>1 DEF Write
    <3> QED BY <3>1, <3>2, <3>3, <2>0 DEF Sent
  <2>3. CASE StoreFails
    <3>1. /\ storing # None /\ lost' = lost \cup {storing} /\ storing' = None
          /\ UNCHANGED <<queue, sends, bin>>
      BY <2>3 DEF StoreFails
    <3>2. linking = "linked"
      BY <3>1, <1>t DEF Sent, Transferred
    <3> QED BY <3>1, <3>2, <2>0 DEF Sent
  <2>4. ASSUME NEW n \in queue, StoreOpens(n) PROVE Sent'
    <3>1. /\ bin' = Write(bin, n, <<>>) /\ storing' = n /\ queue' = queue \ {n}
          /\ UNCHANGED <<sends, lost>> /\ storing = None
      BY <2>4 DEF StoreOpens
    <3>2. linking = "linked"
      BY <1>t DEF Sent, Transferred
    <3>3. \A k \in DOMAIN bin : k # n => k \in DOMAIN bin' /\ bin'[k] = bin[k]
      BY <3>1 DEF Write
    <3> QED BY <3>1, <3>2, <3>3, <2>0, <1>t DEF Sent
  <2>5. ASSUME NEW n \in queue, Lose(n) PROVE Sent'
    <3>1. /\ lost' = lost \cup {n} /\ queue' = queue \ {n}
          /\ UNCHANGED <<sends, bin, storing>>
      BY <2>5 DEF Lose
    <3>2. linking = "linked"
      BY <1>t DEF Sent, Transferred
    <3> QED BY <3>1, <3>2, <2>0 DEF Sent
  <2> QED BY <1>5, <2>1, <2>2, <2>3, <2>4, <2>5 DEF TransferStep
<1> QED BY <1>1, <1>2, <1>3, <1>4, <1>5, Steps

-----------------------------------------------------------------------------
(* What a finished link holds. *)

(* The byte a link in Go has at place p of the file. *)
LEMMA LastReadIs ==
    ASSUME NEW p \in Nat, NEW q \in 1..Len(file), Len(file) \in Nat,
           Latest(p, Len(file), q)
    PROVE  LastRead(p) = file[q]
<1> DEFINE again == {r \in 1..Len(file) : r % ReadMax = p % ReadMax}
<1>1. q \in again /\ \A r \in again : r <= q
  BY DEF Latest
<1>2. \A r \in again : r \in Int
  OBVIOUS
<1>3. \A t \in again : (\A r \in again : r <= t) => t = q
  <2> SUFFICES ASSUME NEW t \in again, \A r \in again : r <= t PROVE t = q
    OBVIOUS
  <2>1. q <= t /\ t <= q
    BY <1>1
  <2> QED BY <2>1, <1>1, <1>2
<1> HIDE DEF again
<1>4. (CHOOSE t \in again : \A r \in again : r <= t) = q
  BY <1>1, <1>3
<1>5. LastRead(p) = file[CHOOSE t \in again : \A r \in again : r <= t]
  BY DEF LastRead, again
<1> QED BY <1>4, <1>5

(* A file of one Read is as it was read. *)
LEMMA OneRead ==
    ASSUME Len(file) \in Nat, Len(file) <= ReadMax, NEW p \in 1..Len(file)
    PROVE  LastRead(p) = file[p]
<1> USE PartsAssumption DEF PartsAssumption
<1>0. ReadMax \in Nat \ {0} /\ p \in Nat
  OBVIOUS
<1>1. ASSUME NEW r \in 1..Len(file), r % ReadMax = p % ReadMax PROVE r <= p
  <2> SUFFICES ASSUME p < r PROVE FALSE
    OBVIOUS
  <2>1. p + ReadMax <= r
    <3>1. r \in Nat /\ p % ReadMax = r % ReadMax
      BY <1>1
    <3> QED BY <3>1, <1>0, SameRemainder
  <2> QED BY <2>1
<1>2. Latest(p, Len(file), p)
  BY <1>1 DEF Latest
<1> QED BY <1>0, <1>2, LastReadIs

(* A slice of a finished link holds what the last Read left there. *)
LEMMA SliceBytes ==
    ASSUME TypeOK, Placed, Filled, linking = "linked", NEW k \in 1..Len(slices),
           NEW p \in 1..Width(k)
    PROVE  buf[slices[k][1] + p] = IF style = "go" THEN LastRead(begins[k] + p)
                                   ELSE file[begins[k] + p]
<1> USE PartsAssumption DEF PartsAssumption
<1> DEFINE from == slices[k][1]
           b == begins[k]
<1>1. /\ from \in Nat /\ slices[k][2] \in Nat /\ b \in Nat
      /\ slices[k][2] <= ReadSize /\ from < slices[k][2]
      /\ Width(k) = slices[k][2] - from
  BY SliceTyped DEF Width
<1>2. InPlace(from, b)
  BY DEF Placed
<1>3. Len(file) \in Nat /\ offset = Len(file) /\ p \in Nat \ {0}
      /\ from + p \in 1..ReadSize /\ ReadSize \in Nat /\ ReadMax \in Nat \ {0}
      /\ style \in Styles
  <2>1. Len(file) \in Nat /\ ReadSize \in Nat /\ ReadMax \in Nat \ {0}
    BY ReadSizeTyped
  <2>2. offset = Len(file) /\ style \in Styles
    BY TypesApart DEF Filled, CutterTypeOK
  <2>3. p \in Nat \ {0} /\ p <= slices[k][2] - from
    BY <1>1
  <2>4. from + p \in 1..ReadSize
    BY <1>1, <2>1, <2>3
  <2> QED BY <2>1, <2>2, <2>3, <2>4
<1> HIDE DEF from, b
<1>4. CASE style = "go"
  <2>1. from + p \in 1..Least(ReadMax, offset)
    BY <1>3, <1>4 DEF ReadSize
  <2>2. PICK q \in 1..offset : Latest(from + p, offset, q) /\ buf[from + p] = file[q]
    BY <2>1, <1>4 DEF Filled, ReadInGo
  <2>3. (b + p) % ReadMax = (from + p) % ReadMax
    <3>1. PICK d \in Nat : d = b - from
      BY <1>1, <1>2 DEF InPlace
    <3>2. d % ReadMax = 0 /\ b + p = d + (from + p) /\ from + p \in Nat
      BY <3>1, <1>1, <1>2, <1>3, <1>4 DEF InPlace
    <3>3. (d + (from + p)) % ReadMax = (from + p) % ReadMax
      BY <3>2, <1>3, MultipleAdded
    <3> QED BY <3>2, <3>3
  <2>4. Latest(b + p, Len(file), q)
    BY <2>2, <2>3, <1>3 DEF Latest
  <2>5. LastRead(b + p) = file[q]
    BY <2>4, <1>1, <1>3, LastReadIs
  <2> QED BY <2>2, <2>5, <1>4 DEF from, b
<1>5. CASE style = "rust"
  <2>1. buf = file /\ b = from
    BY <1>2, <1>5 DEF Filled, MappedInRust, InPlace
  <2> QED BY <2>1, <1>5 DEF from, b
<1> QED BY <1>3, <1>4, <1>5 DEF Styles

(* So do the part files, which are these slices. *)
LEMMA LinkContentHolds ==
    ASSUME TypeOK, Placed, Filled, Saved
    PROVE  LinkContent
<1> SUFFICES ASSUME linking = "linked" PROVE LinkContent
  BY DEF LinkContent
<1>1. /\ Len(slices) \in Nat /\ Len(begins) = Len(slices) /\ Directory(parts)
      /\ slices \in Seq(Nat \X Nat) /\ begins \in Seq(Nat)
      /\ offset = Len(file) /\ Covered = offset
  BY TypesApart DEF LinkTypes, PartTypes, Placed, Filled, Covered
<1>2. SavedUpTo(Len(slices)) /\ written = Len(slices)
  BY DEF Saved, SavedUpTo
<1>3. /\ written = Len(begins) /\ 0..(written - 1) \subseteq DOMAIN parts
      /\ style = "go" => DOMAIN parts = 0..(written - 1)
  BY <1>1, <1>2 DEF SavedUpTo
<1>4. CASE Short
  <2>1. slices = <<>>
    BY <1>4 DEF Filled, MappedInRust, Short
  <2>2. written = 0 /\ 0..(written - 1) = {}
    BY <2>1, <1>2
  <2> QED BY <2>2, <1>3, <1>4 DEF Short, LinkContent
<1>5. CASE ~Short
  <2>1. slices # <<>> /\ begins[1] = 0 /\ Len(slices) # 0
    <3>1. slices # <<>>
      BY <1>5 DEF Filled
    <3> QED BY <3>1, <1>1 DEF Placed
  <2>2. begins # <<>>
    BY <2>1, <1>1
  <2>3. ASSUME NEW k \in 0..(written - 1)
        PROVE  /\ begins[k + 1] + Len(parts[k])
                     = IF k + 1 = Len(begins) THEN Len(file) ELSE begins[k + 2]
               /\ \A p \in 1..Len(parts[k]) :
                     parts[k][p] = IF style = "go" THEN LastRead(begins[k + 1] + p)
                                   ELSE file[begins[k + 1] + p]
    <3>1. k + 1 \in 1..Len(slices) /\ k \in 0..(Len(slices) - 1) /\ (k + 1) + 1 = k + 2
      BY <1>1, <1>3, SMTT(30)
    <3>2. parts[k] = SubSeq(buf, slices[k + 1][1] + 1, slices[k + 1][2])
      BY <3>1, <1>2 DEF SavedUpTo
    <3>3. /\ Len(parts[k]) = Width(k + 1)
          /\ \A p \in 1..Width(k + 1) : parts[k][p] = buf[slices[k + 1][1] + p]
      BY <3>1, <3>2, SliceTyped
    <3>4. begins[k + 1] + Width(k + 1)
             = IF k + 1 = Len(slices) THEN Covered ELSE begins[(k + 1) + 1]
      BY <3>1 DEF Placed
    <3>5. \A p \in 1..Len(parts[k]) :
             parts[k][p] = IF style = "go" THEN LastRead(begins[k + 1] + p)
                           ELSE file[begins[k + 1] + p]
      BY <3>1, <3>3, SliceBytes
    <3> QED BY <3>1, <3>3, <3>4, <3>5, <1>1
  <2> QED BY <2>1, <2>2, <2>3, <1>3, <1>5 DEF Short, LinkContent
<1> QED BY <1>4, <1>5

-----------------------------------------------------------------------------
(* The joiner. *)

(* Sequences with the same entries are the same. *)
LEMMA SameSeq ==
    ASSUME NEW S, NEW s \in Seq(S), NEW t \in Seq(S), Len(s) = Len(t),
           \A p \in 1..Len(s) : s[p] = t[p]
    PROVE  s = t
  BY SeqEqual

(* The length and the entries of a slice. *)
LEMMA SubSeqFacts ==
    ASSUME NEW S, NEW s \in Seq(S), NEW a \in Nat, NEW b \in Nat, a <= b, b <= Len(s)
    PROVE  /\ SubSeq(s, a + 1, b) \in Seq(S) /\ Len(SubSeq(s, a + 1, b)) = b - a
           /\ \A p \in 1..(b - a) : SubSeq(s, a + 1, b)[p] = s[a + p]
<1>1. CASE a < b
  <2>1. \A i_1 \in (a + 1)..b : s[i_1] \in S
    OBVIOUS
  <2> QED BY <2>1, <1>1, SubSeqProperties
<1>2. CASE a = b
  BY <1>2
<1> QED BY <1>1, <1>2

(* Two adjoining stretches of a sequence are one. *)
LEMMA Adjoin ==
    ASSUME NEW S, NEW s \in Seq(S), NEW a \in Nat, NEW b \in Nat, a <= b, b <= Len(s)
    PROVE  SubSeq(s, 1, a) \o SubSeq(s, a + 1, b) = SubSeq(s, 1, b)
<1> DEFINE u == SubSeq(s, 1, a)
           v == SubSeq(s, a + 1, b)
           w == SubSeq(s, 1, b)
<1>1. /\ u \in Seq(S) /\ Len(u) = a /\ \A p \in 1..a : u[p] = s[p]
      /\ v \in Seq(S) /\ Len(v) = b - a /\ \A p \in 1..(b - a) : v[p] = s[a + p]
      /\ w \in Seq(S) /\ Len(w) = b /\ \A p \in 1..b : w[p] = s[p]
  <2>1. Len(s) \in Nat /\ a <= Len(s)
    OBVIOUS
  <2>2. u \in Seq(S) /\ Len(u) = a /\ \A p \in 1..a : u[p] = s[p]
    BY <2>1
  <2>3. w \in Seq(S) /\ Len(w) = b /\ \A p \in 1..b : w[p] = s[p]
    BY <2>1
  <2>4. v \in Seq(S) /\ Len(v) = b - a /\ \A p \in 1..(b - a) : v[p] = s[a + p]
    BY SubSeqFacts
  <2> QED BY <2>2, <2>3, <2>4
<1> HIDE DEF u, v, w
<1>2. u \o v \in Seq(S) /\ Len(u \o v) = b
  <2>1. u \in Seq(S) /\ v \in Seq(S)
    BY <1>1
  <2>2. u \o v \in Seq(S) /\ Len(u \o v) = Len(u) + Len(v)
    BY <2>1, Appended
  <2> QED BY <2>2, <1>1
<1>3. ASSUME NEW p \in 1..b PROVE (u \o v)[p] = w[p]
  <2>1. CASE p <= a
    <3>1. p \in 1..Len(u)
      BY <2>1, <1>1
    <3>2. (u \o v)[p] = u[p]
      BY <3>1, <1>1, Appended
    <3> QED BY <3>1, <3>2, <1>1
  <2>2. CASE ~(p <= a)
    <3>1. PICK q \in 1..(b - a) : p = a + q
      <4>1. p - a \in 1..(b - a) /\ p = a + (p - a)
        BY <2>2
      <4> QED BY <4>1
    <3>2. (u \o v)[Len(u) + q] = v[q]
      BY <3>1, <1>1, Appended
    <3> QED BY <3>1, <3>2, <1>1
  <2> QED BY <2>1, <2>2
<1>4. u \o v = w
  BY <1>1, <1>2, <1>3, SameSeq
<1> QED BY <1>4 DEF u, v, w

(* The slice from end to end is the sequence. *)
LEMMA WholeSubSeq ==
    ASSUME NEW S, NEW s \in Seq(S)
    PROVE  SubSeq(s, 1, Len(s)) = s /\ IsPrefix(s, s)
<1>1. SubSeq(s, 1, Len(s)) = s
  BY SeqEqual
<1> QED BY <1>1 DEF IsPrefix

(* What is appended to a sequence leaves its prefixes. *)
LEMMA PrefixAppended ==
    ASSUME NEW S, NEW s \in Seq(S), NEW t \in Seq(S), NEW u \in Seq(S), IsPrefix(s, t)
    PROVE  IsPrefix(s, t \o u)
<1>1. /\ Len(s) \in Nat /\ Len(t) \in Nat /\ Len(u) \in Nat /\ Len(s) <= Len(t)
      /\ SubSeq(s, 1, Len(s)) = SubSeq(t, 1, Len(s))
  BY DEF IsPrefix
<1>2. t \o u \in Seq(S) /\ Len(t \o u) = Len(t) + Len(u)
      /\ \A p \in 1..Len(t) : (t \o u)[p] = t[p]
  OBVIOUS
<1> DEFINE w == t \o u
<1>3. SubSeq(w, 1, Len(s)) = SubSeq(t, 1, Len(s))
  <2>1. /\ w \in Seq(S) /\ Len(s) <= Len(w)
        /\ \A p \in 1..Len(s) : w[p] = t[p]
    BY <1>1, <1>2
  <2> HIDE DEF w
  <2>2. /\ SubSeq(w, 1, Len(s)) \in Seq(S) /\ Len(SubSeq(w, 1, Len(s))) = Len(s)
        /\ \A p \in 1..Len(s) : SubSeq(w, 1, Len(s))[p] = w[p]
    BY <2>1, <1>1
  <2>3. /\ SubSeq(t, 1, Len(s)) \in Seq(S) /\ Len(SubSeq(t, 1, Len(s))) = Len(s)
        /\ \A p \in 1..Len(s) : SubSeq(t, 1, Len(s))[p] = t[p]
    BY <1>1
  <2> DEFINE x == SubSeq(w, 1, Len(s))
             y == SubSeq(t, 1, Len(s))
  <2> HIDE DEF x, y
  <2>4. x \in Seq(S) /\ y \in Seq(S) /\ Len(x) = Len(y) /\ \A p \in 1..Len(x) : x[p] = y[p]
    BY <2>1, <2>2, <2>3 DEF x, y
  <2>5. x = y
    BY <2>4, SameSeq
  <2> QED BY <2>5 DEF x, y
<1>4. Len(s) <= Len(w)
  BY <1>1, <1>2
<1> QED BY <1>1, <1>3, <1>4 DEF IsPrefix

(* A link that holds its file, received whole. *)
LEMMA WholeInBin ==
    ASSUME TypeOK, Placed, Filled, Saved, Sent, Received, LinkWhole
    PROVE  \E n \in Nat : \E e \in [0..n -> Nat] :
              /\ Holds(n, e, file) /\ n > 0
              /\ written = n /\ 0..(n - 1) \subseteq DOMAIN bin
<1> USE PartsAssumption DEF PartsAssumption
<1> DEFINE n == Len(slices)
           e == [k \in 0..n |-> IF k = n THEN Len(file) ELSE begins[k + 1]]
<1>1. /\ linking = "linked" /\ sends > 0 /\ queue = {} /\ storing = None /\ lost = {}
  BY DEF Received, Transferred
<1>2. /\ n \in Nat /\ Len(begins) = n /\ Directory(parts) /\ Directory(bin)
      /\ begins \in Seq(Nat) /\ file \in Contents /\ Len(file) \in Nat
      /\ offset = Len(file) /\ Covered = offset /\ style \in Styles
      /\ None \notin DOMAIN parts
  <2>1. /\ n \in Nat /\ begins \in Seq(Nat) /\ file \in Contents /\ Len(file) \in Nat
        /\ style \in Styles
    BY TypesApart DEF LinkTypes, FileInv, Contents, CutterTypeOK
  <2>2. Directory(parts) /\ Directory(bin) /\ None \notin DOMAIN parts
    BY TypesApart DEF PartTypes, SendTypes, Directory, None
  <2>3. Len(begins) = n /\ offset = Len(file) /\ Covered = offset
    BY <1>1 DEF Placed, Filled, Covered
  <2> QED BY <2>1, <2>2, <2>3
<1>3. SavedUpTo(n) /\ written = n
  BY <1>1 DEF Saved, SavedUpTo
<1>4. 0..(n - 1) \subseteq DOMAIN parts
  BY <1>3 DEF SavedUpTo
<1>5. \A k \in DOMAIN parts : k \in DOMAIN bin /\ bin[k] = parts[k]
  BY <1>1, <1>2 DEF Sent
<1>6. ~Short /\ slices # <<>> /\ n # 0 /\ begins[1] = 0
  <2>1. ~Short
    BY <1>2 DEF LinkWhole, Short
  <2>2. slices # <<>>
    BY <1>1, <2>1 DEF Filled
  <2>3. slices \in Seq(Nat \X Nat)
    BY TypesApart DEF LinkTypes
  <2> QED BY <1>1, <2>1, <2>2, <2>3 DEF Placed
<1>7. e \in [0..n -> Nat]
  BY <1>2
<1>8. e[0] = 0 /\ e[n] = Len(file)
  BY <1>2, <1>6
<1>9. ASSUME NEW k \in 0..(n - 1)
      PROVE  /\ e[k] <= e[k + 1] /\ e[k + 1] <= Len(file)
             /\ k \in DOMAIN bin /\ bin[k] = SubSeq(file, e[k] + 1, e[k + 1])
  <2>1. k + 1 \in 1..n /\ k \in 0..n /\ k + 1 \in 0..n /\ k # n /\ (k + 1) + 1 = k + 2
    BY <1>2
  <2>2. /\ Width(k + 1) \in Nat /\ begins[k + 1] \in Nat
        /\ parts[k] = SubSeq(buf, slices[k + 1][1] + 1, slices[k + 1][2])
        /\ parts[k] \in Contents /\ Len(parts[k]) = Width(k + 1)
        /\ \A p \in 1..Width(k + 1) : parts[k][p] = buf[slices[k + 1][1] + p]
    <3>1. parts[k] = SubSeq(buf, slices[k + 1][1] + 1, slices[k + 1][2])
      BY <1>3 DEF SavedUpTo
    <3>2. linking # "idle"
      BY <1>1
    <3> QED BY <3>1, <3>2, <2>1, SliceTyped
  <2>3. /\ begins[k + 1] + Width(k + 1) <= Covered
        /\ begins[k + 1] + Width(k + 1)
              = IF k + 1 = n THEN Covered ELSE begins[(k + 1) + 1]
    BY <1>1, <2>1 DEF Placed
  <2>4. e[k] = begins[k + 1] /\ e[k + 1] = begins[k + 1] + Width(k + 1)
    BY <2>1, <2>3, <1>2
  <2> DEFINE a == e[k]
             b == e[k + 1]
  <2> HIDE DEF e, n
  <2>5. a \in Nat /\ b \in Nat /\ a <= b /\ b <= Len(file) /\ Width(k + 1) = b - a
    <3>1. a = begins[k + 1] /\ b = a + Width(k + 1) /\ a + Width(k + 1) <= Len(file)
      BY <2>3, <2>4, <1>2
    <3>2. a \in Nat /\ Width(k + 1) \in Nat
      BY <3>1, <2>2
    <3> HIDE DEF a, b
    <3> QED BY <3>1, <3>2
  <2>6. ASSUME NEW p \in 1..(b - a)
        PROVE  parts[k][p] = file[a + p]
    <3>1. p \in 1..Width(k + 1)
      BY <2>5
    <3>2. parts[k][p] = IF style = "go" THEN LastRead(begins[k + 1] + p)
                        ELSE file[begins[k + 1] + p]
      BY <3>1, <1>1, <2>1, <2>2, SliceBytes DEF n
    <3>3. CASE style = "go"
      <4>1. Len(file) <= ReadMax /\ begins[k + 1] + p \in 1..Len(file)
        <5>1. Len(file) <= ReadMax /\ Len(file) \in Nat
          BY <3>3, <1>2 DEF LinkWhole
        <5>2. a + p \in 1..Len(file) /\ a = begins[k + 1]
          <6>1. a = begins[k + 1]
            BY <2>4
          <6> HIDE DEF a, b
          <6> QED BY <6>1, <5>1, <2>5
        <5> QED BY <5>1, <5>2
      <4> QED BY <4>1, <3>2, <3>3, <2>4, <1>2, OneRead
    <3> QED BY <3>2, <3>3, <2>4
  <2> HIDE DEF a, b
  <2>7. /\ SubSeq(file, a + 1, b) \in Contents /\ Len(SubSeq(file, a + 1, b)) = b - a
        /\ \A p \in 1..(b - a) : SubSeq(file, a + 1, b)[p] = file[a + p]
    <3>1. file \in Seq(Values)
      BY <1>2 DEF Contents
    <3> QED BY <3>1, <2>5, SubSeqFacts, SMTT(30) DEF Contents
  <2>8. parts[k] = SubSeq(file, a + 1, b)
    <3> DEFINE x == SubSeq(file, a + 1, b)
               y == parts[k]
    <3>1. /\ x \in Seq(Values) /\ y \in Seq(Values) /\ Len(x) = Len(y)
          /\ \A p \in 1..Len(x) : x[p] = y[p]
      BY <2>2, <2>5, <2>6, <2>7 DEF Contents
    <3> HIDE DEF x, y
    <3>2. x = y
      BY <3>1, SameSeq
    <3> QED BY <3>2 DEF x, y
  <2>9. k \in DOMAIN bin /\ bin[k] = parts[k]
    BY <1>4, <1>5
  <2> QED BY <2>5, <2>8, <2>9 DEF a, b
<1> HIDE DEF e, n
<1>10. Holds(n, e, file)
  BY <1>8, <1>9 DEF Holds
<1>11. n > 0 /\ n \in Nat /\ 0..(n - 1) \subseteq DOMAIN bin /\ written = n
  BY <1>2, <1>3, <1>4, <1>5, <1>6
<1> QED BY <1>7, <1>10, <1>11

(* A joiner starts before the first part, with nothing written. *)
LEMMA JoinStartKeeps ==
    ASSUME TypeOK, Placed, Filled, Saved, Sent, RustJoinStarts \/ GoJoinStarts
    PROVE  Joins'
<1>t. /\ file \in Contents /\ NoFile \notin Contents /\ UNCHANGED bin
  BY TypesApart, PartsAssumption, Apart DEF LinkTypes, FileInv, Contents, sendVars, JoinStep
<1>1. PICK by \in Joiners, left \in {DOMAIN bin, 0..(written - 1)} :
         JoinStarts(by, left)
         /\ (IF by = "go" THEN left = 0..(written - 1) ELSE left = DOMAIN bin)
  BY DEF RustJoinStarts, GoJoinStarts, Joiners
<1>2. joining' = [pc |-> "copy", by |-> by, left |-> left, out |-> <<>>,
                  whole |-> IF Received /\ LinkWhole THEN file ELSE NoFile,
                  exact |-> DOMAIN bin = 0..(written - 1)]
      /\ UNCHANGED storing
  BY <1>1 DEF JoinStarts, sendVars
<1>3. CASE ~(Received /\ LinkWhole)
  <2>1. joining'.whole = NoFile
    BY <1>2, <1>3
  <2> QED BY <2>1 DEF Joins
<1>4. CASE Received /\ LinkWhole
  <2>1. PICK n \in Nat : \E e \in [0..n -> Nat] :
              /\ Holds(n, e, file) /\ n > 0
              /\ written = n /\ 0..(n - 1) \subseteq DOMAIN bin
    BY <1>4, WholeInBin
  <2>2. PICK e \in [0..n -> Nat] :
              /\ Holds(n, e, file) /\ n > 0
              /\ written = n /\ 0..(n - 1) \subseteq DOMAIN bin
    BY <2>1
  <2>3. /\ joining'.pc = "copy" /\ joining'.by = by /\ joining'.left = left
        /\ joining'.out = <<>> /\ joining'.whole = file
        /\ joining'.exact = (DOMAIN bin = 0..(written - 1))
    BY <1>2, <1>4
  <2>4. SubSeq(file, 1, e[0]) = <<>>
    BY <2>2, <1>t DEF Holds, Contents
  <2>5. Holds(n, e, joining.whole)'
    BY <2>2, <2>3, <1>t DEF Holds
  <2>6. Alone' => left = 0..(n - 1)
    BY <2>2, <2>3, <1>1 DEF Alone
  <2>7. left \subseteq DOMAIN bin /\ left \cap (0..(n - 1)) = 0..(n - 1)
    BY <2>2, <1>1
  <2>8. Reached(n, e, 0)'
    BY <2>2, <2>3, <2>4, <2>6, <2>7, <1>t DEF Reached
  <2>9. storing' = None
    BY <1>2, <1>4 DEF Received, Transferred
  <2>10. 0 \in 0..n
    OBVIOUS
  <2>11. \E m \in Nat : \E d \in [0..m -> Nat] :
            Holds(m, d, joining.whole)' /\ \E c \in 0..m : Reached(m, d, c)'
    BY <2>5, <2>8, <2>10
  <2> QED BY <2>3, <2>9, <2>11 DEF Joins
<1> QED BY <1>3, <1>4

(* The part with the least number is the next of the file, or behind it. *)
LEMMA JoinCopyKeeps ==
    ASSUME TypeOK, Joins, NEW m \in joining.left, JoinCopies(m)
    PROVE  Joins'
<1>t. /\ Directory(bin) /\ m \in Nat /\ joining.left \subseteq Nat
      /\ joining.out \in Contents /\ joining.whole \in Contents \cup {NoFile}
      /\ joining.pc = "copy" /\ UNCHANGED <<bin, storing>>
      /\ \A k \in joining.left : m <= k
      /\ joining \in [pc : {"idle", "copy", "done", "error"}, by : Joiners,
                      left : SUBSET Nat, out : Contents,
                      whole : Contents \cup {NoFile}, exact : BOOLEAN]
  BY TypesApart DEF SendTypes, JoinTypes, JoinCopies, ByIndex, sendVars
<1>0. joining'.whole = joining.whole
  BY <1>t DEF JoinCopies
<1>1. CASE joining.whole = NoFile
  BY <1>0, <1>1 DEF Joins
<1>2. CASE joining.whole # NoFile
  <2> DEFINE whole == joining.whole
  <2>w. whole \in Contents
    BY <1>2, <1>t
  <2>1. PICK n \in Nat : \E e \in [0..n -> Nat] :
           Holds(n, e, joining.whole) /\ \E c \in 0..n : Reached(n, e, c)
    BY <1>2, <1>t DEF Joins
  <2>2. PICK e \in [0..n -> Nat] :
           Holds(n, e, joining.whole) /\ \E c \in 0..n : Reached(n, e, c)
    BY <2>1
  <2>3. PICK c \in 0..n : Reached(n, e, c)
    BY <2>2
  <2>4. m \in DOMAIN bin
    BY <2>3 DEF Reached
  <2>5. /\ joining'.pc = "copy" /\ joining'.by = joining.by
        /\ joining'.left = joining.left \ {m} /\ joining'.out = joining.out \o bin[m]
        /\ joining'.whole = whole /\ joining'.exact = joining.exact
    <3>1. joining' = [joining EXCEPT !.left = @ \ {m}, !.out = @ \o bin[m]]
      BY <2>4 DEF JoinCopies
    <3> QED BY <3>1, <1>t
  <2>6. Alone' = Alone /\ bin[m] \in Contents
    BY <2>4, <2>5, <1>t DEF Alone, Directory
  <2>7. Holds(n, e, joining.whole)'
    BY <2>2, <2>5, <1>t DEF Holds
  <2>8. \E d \in 0..n : Reached(n, e, d)'
    <3>1. CASE c < n
      <4>1. c \in joining.left /\ m = c
        <5>1. c \in c..(n - 1) /\ c \in Nat
          BY <3>1
        <5>2. c \in joining.left
          BY <5>1, <2>3 DEF Reached
        <5>3. m <= c
          BY <5>2, <1>t
        <5>4. m \in 0..(n - 1)
          BY <5>1, <5>3, <3>1, <1>t
        <5>5. m \in c..(n - 1)
          BY <5>4, <2>3 DEF Reached
        <5> QED BY <5>1, <5>2, <5>3, <5>5, <1>t
      <4>2. joining.out \o bin[m] = SubSeq(whole, 1, e[c + 1])
        <5>1. /\ joining.out = SubSeq(whole, 1, e[c])
              /\ bin[m] = SubSeq(whole, e[c] + 1, e[c + 1])
              /\ e[c] \in Nat /\ e[c + 1] \in Nat
              /\ e[c] <= e[c + 1] /\ e[c + 1] <= Len(whole)
          <6>1. c \in 0..(n - 1) /\ c \in 0..n /\ c + 1 \in 0..n
            BY <3>1
          <6>2. joining.out = SubSeq(whole, 1, e[c])
            BY <3>1, <2>3 DEF Reached
          <6>3. bin[m] = SubSeq(whole, e[c] + 1, e[c + 1])
                /\ e[c] <= e[c + 1] /\ e[c + 1] <= Len(whole)
            BY <6>1, <4>1, <2>2 DEF Holds
          <6> QED BY <6>1, <6>2, <6>3
        <5>2. whole \in Seq(Values)
          BY <2>w DEF Contents
        <5> QED BY <5>1, <5>2, Adjoin
      <4>3. joining'.left \subseteq DOMAIN bin'
        BY <2>3, <2>5, <1>t DEF Reached
      <4>4. joining'.left \cap (0..(n - 1)) = (c + 1)..(n - 1)
        <5>1. joining.left \cap (0..(n - 1)) = c..(n - 1)
          BY <2>3 DEF Reached
        <5>2. (c..(n - 1)) \ {c} = (c + 1)..(n - 1)
          OBVIOUS
        <5> QED BY <5>1, <5>2, <4>1, <2>5
      <4>5. Alone' => joining'.left = (c + 1)..(n - 1)
        <5>1. Alone => joining.left = c..(n - 1)
          BY <2>3 DEF Reached
        <5>2. (c..(n - 1)) \ {c} = (c + 1)..(n - 1)
          OBVIOUS
        <5> QED BY <5>1, <5>2, <4>1, <2>5, <2>6
      <4>6. ~(c + 1 < n) => IsPrefix(whole, SubSeq(whole, 1, e[c + 1]))
        <5> SUFFICES ASSUME ~(c + 1 < n)
                     PROVE  IsPrefix(whole, SubSeq(whole, 1, e[c + 1]))
          OBVIOUS
        <5>1. c + 1 = n
          BY <3>1
        <5>2. e[c + 1] = Len(whole)
          BY <5>1, <2>2 DEF Holds
        <5>3. whole \in Seq(Values)
          BY <2>w DEF Contents
        <5> QED BY <5>2, <5>3, WholeSubSeq
      <4>7. Reached(n, e, c + 1)'
        BY <4>2, <4>3, <4>4, <4>5, <4>6, <2>5 DEF Reached
      <4>8. c + 1 \in 0..n
        BY <3>1
      <4> QED BY <4>7, <4>8
    <3>2. CASE ~(c < n)
      <4>1. c = n /\ c..(n - 1) = {}
        BY <3>2
      <4>2. ~Alone
        BY <4>1, <2>3 DEF Reached
      <4>3. joining'.left \subseteq DOMAIN bin' /\ joining'.left \cap (0..(n - 1)) = c..(n - 1)
        BY <4>1, <2>3, <2>5, <1>t DEF Reached
      <4>4. IsPrefix(whole, joining.out \o bin[m])
        <5>1. IsPrefix(whole, joining.out)
          BY <3>2, <2>3 DEF Reached
        <5>2. whole \in Seq(Values) /\ joining.out \in Seq(Values) /\ bin[m] \in Seq(Values)
          BY <2>w, <2>6, <1>t DEF Contents
        <5> QED BY <5>1, <5>2, PrefixAppended
      <4>5. Reached(n, e, c)'
        BY <3>2, <4>2, <4>3, <4>4, <2>5, <2>6 DEF Reached
      <4> QED BY <4>5
    <3> QED BY <3>1, <3>2
  <2>9. storing' = None
    BY <1>2, <1>t DEF Joins
  <2>10. \E k \in Nat : \E d \in [0..k -> Nat] :
            Holds(k, d, joining.whole)' /\ \E b \in 0..k : Reached(k, d, b)'
    BY <2>7, <2>8
  <2> QED BY <2>5, <2>9, <2>10 DEF Joins
<1> QED BY <1>1, <1>2

(* When no part is left the whole file was written. *)
LEMMA JoinReturnKeeps ==
    ASSUME TypeOK, Joins, JoinReturns
    PROVE  Joins'
<1>t. /\ joining \in [pc : {"idle", "copy", "done", "error"}, by : Joiners,
                      left : SUBSET Nat, out : Contents,
                      whole : Contents \cup {NoFile}, exact : BOOLEAN]
      /\ joining.pc = "copy" /\ joining.left = {}
      /\ joining' = [joining EXCEPT !.pc = "done"]
  BY TypesApart DEF JoinTypes, JoinReturns
<1>0. /\ joining'.pc = "done" /\ joining'.by = joining.by /\ joining'.out = joining.out
      /\ joining'.whole = joining.whole /\ joining'.exact = joining.exact
      /\ Alone' = Alone
  BY <1>t DEF Alone
<1>1. CASE joining.whole = NoFile
  BY <1>0, <1>1 DEF Joins
<1>2. CASE joining.whole # NoFile
  <2>1. PICK n \in Nat : \E e \in [0..n -> Nat] :
           Holds(n, e, joining.whole) /\ \E c \in 0..n : Reached(n, e, c)
    BY <1>2, <1>t DEF Joins
  <2>2. PICK e \in [0..n -> Nat] :
           Holds(n, e, joining.whole) /\ \E c \in 0..n : Reached(n, e, c)
    BY <2>1
  <2>3. PICK c \in 0..n : Reached(n, e, c)
    BY <2>2
  <2>4. c = n
    <3>1. c..(n - 1) = {}
      BY <2>3, <1>t DEF Reached
    <3>2. c < n => c \in c..(n - 1)
      OBVIOUS
    <3> QED BY <3>1, <3>2
  <2>5. IsPrefix(joining.whole, joining.out)
    BY <2>3, <2>4 DEF Reached
  <2>6. Alone => joining.out = SubSeq(joining.whole, 1, Len(joining.whole))
    BY <2>2, <2>3, <2>4 DEF Reached, Holds
  <2>7. joining.whole \in Seq(Values)
    BY <1>2, <1>t DEF Contents
  <2>8. SubSeq(joining.whole, 1, Len(joining.whole)) = joining.whole
    BY <2>7, WholeSubSeq
  <2> QED BY <2>5, <2>6, <2>8, <1>0 DEF Joins
<1> QED BY <1>1, <1>2

(* Each step keeps what is known of the joiner. *)
LEMMA JoinsStep ==
    ASSUME TypeOK, Placed, Filled, Saved, Sent, Joins, [Next]_vars
    PROVE  Joins'
<1>1. CASE RustJoinStarts \/ GoJoinStarts
  BY <1>1, JoinStartKeeps
<1>2. CASE \E n \in joining.left : JoinCopies(n)
  BY <1>2, JoinCopyKeeps
<1>3. CASE JoinReturns
  BY <1>3, JoinReturnKeeps
<1>k. ASSUME UNCHANGED joining, UNCHANGED <<bin, storing>> \/ joining.pc # "copy"
      PROVE  Joins'
  <2>1. CASE joining.pc # "copy"
    <3>1. joining.whole # NoFile =>
             /\ joining.pc = "done" /\ IsPrefix(joining.whole, joining.out)
             /\ Alone => joining.out = joining.whole
      BY <2>1 DEF Joins
    <3> QED BY <3>1, <1>k DEF Joins, Alone
  <2>2. CASE UNCHANGED <<bin, storing>>
    BY <2>2, <1>k, ZenonT(30) DEF Joins, Holds, Reached, Alone
  <2> QED BY <2>1, <2>2, <1>k
<1>4. CASE LinkStep \/ LinkLeft \/ UNCHANGED vars
  <2>1. UNCHANGED <<bin, storing, joining>>
    BY <1>4, Apart DEF vars, sendVars
  <2> QED BY <2>1, <1>k
<1>5. CASE TransferStep
  <2>1. CASE Send \/ \E n \in queue : Lose(n)
    BY <2>1, <1>k DEF Send, Lose
  <2>2. CASE StoreWrites \/ StoreFails
    <3>1. storing # None /\ UNCHANGED joining
      BY <2>2 DEF StoreWrites, StoreFails
    <3>2. CASE joining.whole = NoFile
      BY <3>1, <3>2 DEF Joins
    <3>3. CASE joining.pc # "copy"
      BY <3>1, <3>3, <1>k
    <3> QED BY <3>1, <3>2, <3>3 DEF Joins
  <2>3. ASSUME NEW n \in queue, StoreOpens(n) PROVE Joins'
    <3>1. joining' = IF joining.pc = "copy" THEN Disturbed ELSE joining
      BY <2>3 DEF StoreOpens
    <3>2. CASE joining.pc = "copy"
      <4>1. JoinTypes
        BY TypesApart
      <4>2. joining'.whole = NoFile
        BY <3>1, <3>2, <4>1 DEF Disturbed, JoinTypes
      <4> QED BY <4>2 DEF Joins
    <3>3. CASE joining.pc # "copy"
      BY <3>1, <3>3, <1>k
    <3> QED BY <3>2, <3>3
  <2> QED BY <1>5, <2>1, <2>2, <2>3 DEF TransferStep
<1> QED BY <1>1, <1>2, <1>3, <1>4, <1>5, Steps DEF JoinStep

-----------------------------------------------------------------------------
(* The invariant holds before the first file. *)
LEMMA PartsInitially == ASSUME Init PROVE PartsInv
<1> USE PartsAssumption DEF PartsAssumption
<1>1. CutterTypeOK
  BY Initially DEF Init, CutterInv
<1>2. LinkTypes /\ PartTypes /\ SendTypes
  BY EmptyDirectory, FS_EmptySet DEF Init, LinkTypes, FileInv, PartTypes, SendTypes, Contents
<1>3. JoinTypes
  BY DEF Init, JoinTypes, Joiners, Contents
<1>4. Placed /\ Filled /\ Saved /\ Sent /\ Joins
  BY DEF Init, Placed, Filled, Feeding, ReadInGo, MappedInRust, Saved, Sent, Transferred, Joins
<1> QED BY <1>1, <1>2, <1>3, <1>4, TypesApart DEF PartsInv

(* The inductive invariant of links, transfers and joins, whatever files   *)
(* are shared and whatever is lost: where each slice lies in its buffer and *)
(* in the file, what the part files hold, which of them the tracker has.    *)
THEOREM PartsInvariance == Spec => []PartsInv
<1>1. Init => PartsInv
  BY PartsInitially
<1>2. PartsInv /\ CutterInv /\ CutterInv' /\ [Next]_vars => PartsInv'
  BY TypeStep, PlacedStep, FilledStep, SavedStep, SentStep, JoinsStep DEF PartsInv, Filled
<1>3. Spec => []CutterInv
  BY PartsUsesCutter, CutterInvariance, PTL
<1> QED BY <1>1, <1>2, <1>3, PTL DEF Spec

(* Every variable keeps its type. *)
THEOREM PartsTypeCorrect == Spec => []TypeOK
<1>1. PartsInv => TypeOK
  BY DEF PartsInv
<1> QED BY <1>1, PartsInvariance, PTL

(* link.go:63-94, cutter.rs:223-313: the part files of a finished link are *)
(* the file, byte for byte, or what the last Read left of it, for every    *)
(* file, every size of a Read and every choice of cuts.                    *)
THEOREM LinkContentAlways == Spec => []LinkContent
<1>1. PartsInv => LinkContent
  BY LinkContentHolds DEF PartsInv
<1> QED BY <1>1, PartsInvariance, PTL

(* mio.rs:69-127, chunk.go:212-255: what was received whole is joined to   *)
(* the file that was cut.                                                  *)
THEOREM JoinRestoresAlways == Spec => []JoinRestores
<1>1. PartsInv => JoinRestores
  BY DEF PartsInv, Joins, JoinRestores, Alone
<1> QED BY <1>1, PartsInvariance, PTL

(* mio.rs:69-127, chunk.go:235-250: the file is the beginning of what is   *)
(* joined, whatever else lies in Bin.                                      *)
THEOREM FileComesFirstAlways == Spec => []FileComesFirst
<1>1. PartsInv => FileComesFirst
  BY DEF PartsInv, Joins, FileComesFirst
<1> QED BY <1>1, PartsInvariance, PTL
=============================================================================
