------------------------------- MODULE Cutter -------------------------------
(***************************************************************************)
(* How a buffer is cut into chunks: CreateChunk with AEC in misc/chunk.go  *)
(* and create_chunk with a_c_e in mongoose_cutter/cutter.rs.  Both look    *)
(* for an asymmetric extremum: a chunk ends where its greatest byte lies   *)
(* Window bytes back.  They differ in ties, in how the parameters are      *)
(* bounded and in what calls them (module Parts).  Of the chunks, which    *)
(* are slices of the buffer, only the ends are kept: cuts.  The split into *)
(* divisions, which nothing reads, and the logged numbers are left out.    *)
(***************************************************************************)
EXTENDS Integers, Sequences

CONSTANTS
    Values,   \* what a byte may be
    Cuts,     \* Cuts[style]: in how many pieces the caller thinks
    Divisor,  \* Divisor[style]: of the target size, for the window
    FileCap   \* what the caller in Rust bounds a piece with

Styles == {"go", "rust"}

ASSUME CutterAssumption ==
    /\ Values \subseteq Nat
    /\ Cuts \in [Styles -> Nat \ {0}]
    /\ Divisor \in [Styles -> Nat \ {0}]
    /\ FileCap \in Nat

VARIABLES
    style,   \* which of the two programs this is
    data,    \* the buffer
    params,  \* AEParams
    cursor,  \* where the chunk being looked for begins
    cuts,    \* the ends of the chunks found
    cutter,  \* where CreateChunk is: "idle", "next", "scan" or "done"
    i,       \* AEC: the byte looked at, from the cursor
    maxPos   \* AEC: the greatest byte so far, from the cursor

cutterVars == <<style, data, params, cursor, cuts, cutter, i, maxPos>>

Least(a, b) == IF a < b THEN a ELSE b
Greatest(a, b) == IF a > b THEN a ELSE b

GoFindSizes(cap, fileSize, chunk) ==
    Greatest(Least(fileSize \div Greatest(chunk, 1), cap), 1)

GoParams(fallback, divisor, multiplier) ==
    LET target == Greatest(fallback, 1)
    IN  [window   |-> Greatest(target \div Greatest(2, divisor), 1),
         boundary |-> target * Greatest(1, multiplier)]

RustFindSizes(cap, fileSize, chunk) ==
    Least(fileSize \div Greatest(chunk, 1), cap)

RustParams(fallback, divisor, multiplier) ==
    LET target == Greatest(fallback, 1)
    IN  [window |-> target \div divisor, boundary |-> target * multiplier]

(* size is what the caller says of the whole file; in Rust the buffer is *)
(* the file, and its length bounds a piece of FileCap.                   *)
ParamsFor(buffer, size) ==
    IF style = "go"
    THEN GoParams(GoFindSizes(size, Len(buffer), Cuts[style]),
                  Divisor[style], Cuts[style])
    ELSE RustParams(RustFindSizes(Len(buffer), FileCap, Cuts[style]),
                    Divisor[style], Cuts[style])

At(p) == data[p + 1]

(* Mutant: Go compares as Rust does. *)
BelowStrictly(p, m) == At(p) < At(m)

(* A byte that does not become the new extremum: ties keep the first one *)
(* in Go, the last one in Rust.                                          *)
Below(p, m) == IF style = "go" THEN At(p) <= At(m) ELSE At(p) < At(m)

L == Least(Len(data) - cursor, params.boundary)

-----------------------------------------------------------------------------
CutterIdle ==
    /\ data = <<>> /\ cuts = <<>>
    /\ params = [window |-> 0, boundary |-> 1]
    /\ cursor = 0 /\ i = 0 /\ maxPos = 0
    /\ cutter = "idle"

CutterInit == CutterIdle /\ style \in Styles

CreateChunk(buffer, size) ==
    /\ cutter \in {"idle", "done"}
    /\ data' = buffer
    /\ params' = ParamsFor(buffer, size)
    /\ cursor' = 0 /\ cuts' = <<>>
    /\ cutter' = "next"
    /\ UNCHANGED <<style, i, maxPos>>

(* The loop goes round: AEC on the rest of the buffer. *)
NextChunk ==
    /\ cutter = "next" /\ cursor < Len(data)
    /\ i' = 1 /\ maxPos' = 0
    /\ cutter' = "scan"
    /\ UNCHANGED <<style, data, params, cursor, cuts>>

(* Mutant: the byte at which the scan stopped is taken to be cut already. *)
CutSkipping(n) ==
    /\ cursor' = cursor + n + 1
    /\ cuts' = Append(cuts, cursor + n)
    /\ cutter' = "next"
    /\ UNCHANGED <<style, data, params, i, maxPos>>

CutAt(n) ==
    /\ cursor' = cursor + Greatest(1, n)
    /\ cuts' = Append(cuts, cursor')
    /\ cutter' = "next"
    /\ UNCHANGED <<style, data, params, i, maxPos>>

ScanOn == i' = i + 1 /\ UNCHANGED <<style, data, params, cursor, cuts, cutter>>

Scanning == cutter = "scan" /\ i < L

FoundExtremum ==
    /\ Scanning /\ Below(cursor + i, cursor + maxPos)
    /\ i = maxPos + params.window
    /\ CutAt(i)

StaysBelow ==
    /\ Scanning /\ Below(cursor + i, cursor + maxPos)
    /\ i # maxPos + params.window
    /\ ScanOn /\ UNCHANGED maxPos

NewMaximum ==
    /\ Scanning /\ ~Below(cursor + i, cursor + maxPos)
    /\ maxPos' = i
    /\ ScanOn

NoExtremum == cutter = "scan" /\ i >= L /\ CutAt(L)

ReturnChunks ==
    /\ cutter = "next" /\ cursor >= Len(data)
    /\ cutter' = "done"
    /\ UNCHANGED <<style, data, params, cursor, cuts, i, maxPos>>

CutterStep ==
    \/ NextChunk \/ FoundExtremum \/ StaysBelow \/ NewMaximum
    \/ NoExtremum \/ ReturnChunks

CutterNext ==
    \/ \E buffer \in Seq(Values) \ {<<>>}, size \in Nat :
          CreateChunk(buffer, size)
    \/ CutterStep

CutterSpec == CutterInit /\ [][CutterNext]_cutterVars

-----------------------------------------------------------------------------
CutterTypeOK ==
    /\ style \in Styles
    /\ data \in Seq(Values)
    /\ params \in [window : Nat, boundary : Nat \ {0}]
    /\ cursor \in 0..Len(data)
    /\ cuts \in Seq(Nat \ {0})
    /\ cutter \in {"idle", "next", "scan", "done"}
    /\ i \in Nat /\ maxPos \in Nat

(* Where chunk k begins. *)
Start(k) == IF k = 1 THEN 0 ELSE cuts[k - 1]

(* The greatest byte of from..p lies at m: the first such in Go, the last *)
(* in Rust.                                                               *)
ExtremumAt(from, m, p) ==
    \A j \in from..p :
       /\ j < m => IF style = "go" THEN At(j) < At(m) ELSE At(j) <= At(m)
       /\ j > m => IF style = "go" THEN At(j) <= At(m) ELSE At(j) < At(m)

EndsAt(from, p) ==
    /\ params.window > 0 /\ p - params.window >= from
    /\ ExtremumAt(from, p - params.window, p)

Limit(from) == Least(Len(data), from + params.boundary)

(* chunk.go:117, cutter.rs:315: the chunks lie one behind the other, none *)
(* is empty or longer than the boundary, and together they are the buffer *)
(* when the loop is through: no byte is lost or doubled between two.      *)
Partition ==
    /\ \A k \in 1..Len(cuts) : /\ cuts[k] > Start(k)
                               /\ cuts[k] <= Limit(Start(k))
    /\ cutter # "idle" => cursor = Start(Len(cuts) + 1)
    /\ cutter = "done" => cursor = Len(data)

(* chunk.go:81-109, cutter.rs:27-45: the scan, which keeps one maximum,  *)
(* finds the chunks of the published definition: each ends at the first  *)
(* place whose extremum lies a window back, or else at the boundary.     *)
CutAtExtremum ==
    \A k \in 1..Len(cuts) :
       /\ cuts[k] = Limit(Start(k)) \/ EndsAt(Start(k), cuts[k])
       /\ \A p \in (Start(k) + 1)..(cuts[k] - 1) : ~EndsAt(Start(k), p)
=============================================================================
