------------------------------- MODULE Parts -------------------------------
(***************************************************************************)
(* A file on its way through part files: CreateLink (misc/link.go) or      *)
(* build_chunk (cutter.rs) cut it into name.part_0, name.part_1, ...; the  *)
(* directory is sent (write in sdk-v2/io.go); a tracker stores what comes  *)
(* under the name that came with it (WriteChunkFileV2); and the parts are  *)
(* joined there, by join_chunks of mio.rs or by JoinChunks of chunk.go.    *)
(*                                                                         *)
(* All files of a behaviour have one name, so that they meet in the one    *)
(* directory Bin of the tracker; the joiners never look across names.  A   *)
(* directory is a function from the number in the name to the contents.    *)
(* Which messages come is the subject of Delivery and Share: here any of   *)
(* a transfer may be lost, and what is sent is what ReadDir lists.         *)
(***************************************************************************)
EXTENDS Cutter, FiniteSets, SequencesExt

CONSTANTS
    Histories,   \* the sequences of files that may be shared
    ReadMax,     \* bytes one Read of a file returns at most
    HeaderSize,  \* bytes a file must have for create_groups to cut it
    Radix,       \* of the numbers in the names
    MaxMessages, \* bound on the messages of the transfers of one link
    NoFile

ASSUME PartsAssumption ==
    /\ Histories \subseteq Seq(Seq(Values))
    /\ ReadMax \in Nat \ {0} /\ HeaderSize \in Nat \ {0}
    /\ Radix \in Nat \ {0, 1} /\ MaxMessages \in Nat \ {0}
    /\ 0 \in Values
    /\ NoFile \notin Seq(Values)

VARIABLES
    history,  \* the files still to be shared
    file,     \* the file of the link
    linking,  \* CreateLink: "idle", "read", "cut", "save" or "linked"
    offset,   \* how far the file is read
    buf,      \* its buffer
    slices,   \* ace.Files: the chunks, each a slice <<from, to>> of buf
    begins,   \* where in the file each of them begins (history)
    parts,    \* the directory of the link
    written,  \* how many parts of this link are in it
    queue,    \* the parts write has still to send
    sends,    \* transfers of the link
    lost,     \* parts of the present transfer that were not stored
    bin,      \* the directory Bin of the tracker
    storing,  \* the part the handler of Download is writing
    joining   \* the joiner

linkVars == <<history, file, linking, offset, buf, slices, begins, parts,
              written>>
sendVars == <<queue, sends, lost, bin, storing>>
vars == <<cutterVars, linkVars, sendVars, joining>>

None == -1
Joiners == {"go", "rust"}

-----------------------------------------------------------------------------
(* The names of parts, as ReadDir sorts them: by digits, not by number. *)
Digits[n \in Nat] ==
    IF n < Radix THEN <<n>> ELSE Append(Digits[n \div Radix], n % Radix)

NameBefore(m, n) ==
    LET a == Digits[m]
        b == Digits[n]
    IN  \/ IsStrictPrefix(a, b)
        \/ \E k \in 1..Least(Len(a), Len(b)) :
              /\ SubSeq(a, 1, k - 1) = SubSeq(b, 1, k - 1)
              /\ a[k] < b[k]

(* A directory or a list is gone through in an order by taking what comes  *)
(* first of what is left.                                                  *)
ReadDir(left, n) == n \in left /\ \A m \in left \ {n} : NameBefore(n, m)

(* Mutant: the joiner takes the parts as the directory lists them. *)
ByName(left, n) == n \in left /\ \A m \in left \ {n} : NameBefore(n, m)

ByIndex(left, n) == n \in left /\ \A m \in left : n <= m

Write(directory, index, contents) ==
    [k \in DOMAIN directory \cup {index} |->
        IF k = index THEN contents ELSE directory[k]]

Empty == [k \in {} |-> <<>>]

-----------------------------------------------------------------------------
Init ==
    /\ CutterInit
    /\ history \in Histories
    /\ file = <<>> /\ linking = "idle" /\ offset = 0 /\ buf = <<>>
    /\ slices = <<>> /\ begins = <<>> /\ parts = Empty /\ written = 0
    /\ queue = {} /\ sends = 0 /\ lost = {} /\ bin = Empty
    /\ storing = None
    /\ joining = [pc |-> "idle", by |-> "rust", left |-> {}, out |-> <<>>,
                  whole |-> NoFile, exact |-> FALSE]

(* CreateLink or build_chunk is called for the next file: CreateLink makes *)
(* a directory of its own, build_chunk takes what the caller names, which  *)
(* may hold the parts of an earlier file.                                  *)
OpenFile ==
    /\ linking = "idle" /\ history # <<>>
    /\ file' = Head(history) /\ history' = Tail(history)
    /\ linking' = "read" /\ offset' = 0
    /\ buf' = [k \in 1..Len(Head(history)) |-> 0]
    /\ slices' = <<>> /\ begins' = <<>> /\ written' = 0
    /\ parts' \in IF style = "go" THEN {Empty} ELSE {Empty, parts}
    /\ queue' = {} /\ sends' = 0 /\ lost' = {}
    /\ UNCHANGED <<cutterVars, bin, storing, joining>>

(* Read fills the buffer from its start, with all a Read of the file can  *)
(* return, which may be less than its rest; the chunks cut from it before *)
(* are slices of it.                                                      *)
ReadFile ==
    /\ linking = "read" /\ style = "go" /\ offset < Len(file)
    /\ LET n == Least(ReadMax, Len(file) - offset)
       IN  /\ buf' = [k \in 1..Len(file) |->
                        IF k <= n THEN file[offset + k] ELSE buf[k]]
           /\ offset' = offset + n
           /\ CreateChunk(SubSeq(buf', 1, n), Len(file))
    /\ linking' = "cut"
    /\ UNCHANGED <<history, file, slices, begins, parts, written, sendVars,
                   joining>>

(* To open, stat, hash, seek or read the file, or to map it, fails: Go     *)
(* returns the error, and in Rust _build_chunk is unwrapped, a panic.      *)
ReadFails ==
    /\ linking = "read"
    /\ linking' = "idle"
    /\ UNCHANGED <<cutterVars, history, file, offset, buf, slices, begins,
                   parts, written, sendVars, joining>>

(* Into a buffer of no bytes Read reads none, and reports no end. *)
ReadNothing ==
    /\ linking = "read" /\ style = "go" /\ file = <<>>
    /\ UNCHANGED vars

(* Mutant: a read of nothing is no end of the file. *)
EndAfterEnd ==
    /\ linking = "read" /\ style = "go" /\ file # <<>> /\ offset > Len(file)
    /\ linking' = "save"
    /\ UNCHANGED <<cutterVars, history, file, offset, buf, slices, begins,
                   parts, written, sendVars, joining>>

EndOfFile ==
    /\ linking = "read" /\ style = "go" /\ file # <<>> /\ offset = Len(file)
    /\ linking' = "save"
    /\ UNCHANGED <<cutterVars, history, file, offset, buf, slices, begins,
                   parts, written, sendVars, joining>>

(* Mutant: what is behind the header is cut, not the whole file. *)
MapRest ==
    /\ linking = "read" /\ style = "rust"
    /\ buf' = file /\ offset' = Len(file)
    /\ IF Len(file) <= HeaderSize
       THEN linking' = "save" /\ UNCHANGED cutterVars
       ELSE /\ linking' = "cut"
            /\ CreateChunk(SubSeq(file, HeaderSize + 1, Len(file)), Len(file))
    /\ UNCHANGED <<history, file, slices, begins, parts, written, sendVars,
                   joining>>

(* create_groups: the file is mapped; without room for a header it gives *)
(* no slices, which is no error.                                         *)
MapFile ==
    /\ linking = "read" /\ style = "rust"
    /\ buf' = file /\ offset' = Len(file)
    /\ IF Len(file) < HeaderSize
       THEN linking' = "save" /\ UNCHANGED cutterVars
       ELSE linking' = "cut" /\ CreateChunk(file, Len(file))
    /\ UNCHANGED <<history, file, slices, begins, parts, written, sendVars,
                   joining>>

Cut ==
    /\ linking = "cut"
    /\ CutterStep
    /\ UNCHANGED <<linkVars, sendVars, joining>>

TakeChunks ==
    /\ linking = "cut" /\ cutter = "done"
    /\ slices' = slices \o [k \in 1..Len(cuts) |-> <<Start(k), cuts[k]>>]
    /\ begins' = begins \o [k \in 1..Len(cuts) |-> offset - Len(data) + Start(k)]
    /\ linking' = IF style = "go" THEN "read" ELSE "save"
    /\ UNCHANGED <<cutterVars, history, file, offset, buf, parts, written,
                   sendVars, joining>>

(* WriteChunkFile, save_groups: the next part file. *)
SavePart ==
    LET slice == slices[written + 1]
    IN  /\ linking = "save" /\ written < Len(slices)
        /\ parts' = Write(parts, written, SubSeq(buf, slice[1] + 1, slice[2]))
        /\ written' = written + 1
        /\ UNCHANGED <<cutterVars, history, file, linking, offset, buf,
                       slices, begins, sendVars, joining>>

(* The error is returned instead of a link; the parts written stay, and    *)
(* the one that failed may, with nothing in it.                            *)
SaveFails ==
    /\ linking = "save" /\ written < Len(slices)
    /\ linking' = "idle"
    /\ parts' \in {parts, Write(parts, written, <<>>)}
    /\ UNCHANGED <<cutterVars, history, file, offset, buf, slices, begins,
                   written, sendVars, joining>>

ReturnLink ==
    /\ linking = "save" /\ written = Len(slices)
    /\ linking' = "linked"
    /\ UNCHANGED <<cutterVars, history, file, offset, buf, slices, begins,
                   parts, written, sendVars, joining>>

-----------------------------------------------------------------------------
Transferred == queue = {} /\ storing = None

(* write lists the directory, with all that is in it; it may be asked to *)
(* again.                                                                *)
Send ==
    /\ linking = "linked" /\ Transferred
    /\ (sends + 1) * Greatest(1, Cardinality(DOMAIN parts)) <= MaxMessages
    /\ queue' = DOMAIN parts
    /\ sends' = sends + 1 /\ lost' = {}
    /\ UNCHANGED <<cutterVars, linkVars, bin, storing, joining>>

(* A join under way may meet what is stored from here on. *)
Disturbed == [joining EXCEPT !.whole = NoFile, !.exact = FALSE]

(* Mutant: a part that is there already is taken to be this one. *)
StoreOnce(n) ==
    /\ ReadDir(queue, n) /\ storing = None
    /\ queue' = queue \ {n}
    /\ IF n \in DOMAIN bin
       THEN UNCHANGED <<bin, storing>>
       ELSE storing' = n /\ bin' = Write(bin, n, <<>>)
    /\ joining' = IF joining.pc = "copy" THEN Disturbed ELSE joining
    /\ UNCHANGED <<cutterVars, linkVars, sends, lost>>

(* WriteChunkFileV2: os.WriteFile opens the file, which empties it, ... *)
StoreOpens(n) ==
    /\ ReadDir(queue, n) /\ storing = None
    /\ storing' = n /\ queue' = queue \ {n}
    /\ bin' = Write(bin, n, <<>>)
    /\ joining' = IF joining.pc = "copy" THEN Disturbed ELSE joining
    /\ UNCHANGED <<cutterVars, linkVars, sends, lost>>

(* ... and writes it, ... *)
StoreWrites ==
    /\ storing # None
    /\ bin' = Write(bin, storing, parts[storing])
    /\ storing' = None
    /\ UNCHANGED <<cutterVars, linkVars, queue, sends, lost, joining>>

(* ... or fails to: the handler logs it, and the transfer goes on. *)
StoreFails ==
    /\ storing # None
    /\ lost' = lost \cup {storing} /\ storing' = None
    /\ UNCHANGED <<cutterVars, linkVars, queue, sends, bin, joining>>

Lose(n) ==
    /\ ReadDir(queue, n) /\ storing = None
    /\ lost' = lost \cup {n} /\ queue' = queue \ {n}
    /\ UNCHANGED <<cutterVars, linkVars, sends, bin, storing, joining>>

NextFile ==
    /\ linking = "linked" /\ Transferred /\ history # <<>>
    /\ linking' = "idle"
    /\ UNCHANGED <<cutterVars, history, file, offset, buf, slices, begins,
                   parts, written, sendVars, joining>>

-----------------------------------------------------------------------------
(* What the joiner is asked for: after the transfer of a link that holds *)
(* its file, of which no part was lost, that file.                       *)
Received == linking = "linked" /\ sends > 0 /\ Transferred /\ lost = {}

LinkWhole ==
    IF style = "go" THEN Len(file) \in 1..ReadMax ELSE Len(file) >= HeaderSize

JoinStarts(by, left) ==
    /\ joining.pc = "idle"
    /\ joining' = [pc |-> "copy", by |-> by, left |-> left, out |-> <<>>,
                   whole |-> IF Received /\ LinkWhole THEN file ELSE NoFile,
                   exact |-> DOMAIN bin = 0..(written - 1)]
    /\ UNCHANGED <<cutterVars, linkVars, sendVars>>

(* join_chunks: get_chunks lists what there is, join_chunk sorts it. *)
RustJoinStarts == bin # Empty /\ JoinStarts("rust", DOMAIN bin)

(* JoinChunks is told the number of chunks, and takes them from 0 on. *)
GoJoinStarts == linking = "linked" /\ sends > 0
                /\ JoinStarts("go", 0..(written - 1))

JoinCopies(n) ==
    /\ joining.pc = "copy" /\ ByIndex(joining.left, n)
    /\ joining' = IF n \in DOMAIN bin
                  THEN [joining EXCEPT !.left = @ \ {n}, !.out = @ \o bin[n]]
                  ELSE [joining EXCEPT !.pc = "error"]
    /\ UNCHANGED <<cutterVars, linkVars, sendVars>>

JoinReturns ==
    /\ joining.pc = "copy" /\ joining.left = {}
    /\ joining' = [joining EXCEPT !.pc = "done"]
    /\ UNCHANGED <<cutterVars, linkVars, sendVars>>

LinkStep ==
    \/ OpenFile \/ ReadFile \/ ReadNothing \/ EndOfFile \/ MapFile \/ Cut
    \/ TakeChunks \/ SavePart \/ SaveFails \/ ReturnLink

Next ==
    \/ LinkStep \/ ReadFails
    \/ Send \/ StoreWrites \/ StoreFails \/ NextFile
    \/ \E n \in queue : StoreOpens(n) \/ Lose(n)
    \/ RustJoinStarts \/ GoJoinStarts \/ JoinReturns
    \/ \E n \in joining.left : JoinCopies(n)

(* A goroutine that can run does: the one that makes the link. *)
Spec == Init /\ [][Next]_vars /\ WF_vars(LinkStep)

-----------------------------------------------------------------------------
Contents == Seq(Values)
Directory(d) == DOMAIN d \subseteq Nat /\ d \in [DOMAIN d -> Contents]

TypeOK ==
    /\ CutterTypeOK
    /\ history \in Seq(Contents) /\ file \in Contents
    /\ linking \in {"idle", "read", "cut", "save", "linked"}
    /\ offset \in 0..Len(file)
    /\ buf \in Contents /\ Len(buf) = Len(file)
    /\ slices \in Seq(Nat \X Nat) /\ begins \in Seq(Nat)
    /\ Directory(parts) /\ IsFiniteSet(DOMAIN parts)
    /\ written \in 0..Len(slices)
    /\ queue \subseteq DOMAIN parts /\ sends \in 0..MaxMessages
    /\ lost \subseteq DOMAIN parts
    /\ Directory(bin) /\ storing \in DOMAIN parts \cup {None}
    /\ joining \in [pc : {"idle", "copy", "done", "error"}, by : Joiners,
                   left : SUBSET Nat, out : Contents,
                   whole : Contents \cup {NoFile}, exact : BOOLEAN]

(* Byte p of what one buffer, filled anew by every Read, is left with. *)
LastRead(p) ==
    LET again == {q \in 1..Len(file) : q % ReadMax = p % ReadMax}
    IN  file[CHOOSE q \in again : \A r \in again : r <= q]

(* link.go:63-94, cutter.rs:223-313: the part files a finished link wrote  *)
(* lie one behind the other and hold the file, if it fits one Read and, in *)
(* Rust, has a header's length: a shorter one has no parts, and a longer   *)
(* one gets, where an early chunk was, the bytes the last Read left in the *)
(* buffer. CreateLink's directory holds no more than these.                *)
LinkContent ==
    linking = "linked" =>
       /\ written = Len(begins) /\ 0..(written - 1) \subseteq DOMAIN parts
       /\ style = "go" => DOMAIN parts = 0..(written - 1)
       /\ IF style = "rust" /\ Len(file) < HeaderSize
          THEN written = 0
          ELSE begins # <<>> /\ begins[1] = 0
       /\ \A k \in 0..(written - 1) :
             /\ begins[k + 1] + Len(parts[k])
                   = IF k + 1 = Len(begins) THEN Len(file) ELSE begins[k + 2]
             /\ \A p \in 1..Len(parts[k]) :
                   parts[k][p] = IF style = "go" THEN LastRead(begins[k + 1] + p)
                                 ELSE file[begins[k + 1] + p]

(* mio.rs:69-127, chunk.go:212-255, io.go:197: when the last transfer was *)
(* stored whole and no part is stored during the join, what was sent in   *)
(* the order of names is joined in the order of numbers to the file; the  *)
(* joiner in Rust needs the directory to hold nothing else of that name.  *)
JoinRestores ==
    /\ joining.pc \in {"done", "error"} /\ joining.whole # NoFile
    /\ joining.by = "go" \/ joining.exact
    => joining.pc = "done" /\ joining.out = joining.whole

(* mio.rs:69-127, chunk.go:235-250: whatever else lies in Bin, a file that *)
(* was stored whole is the beginning of what either joiner makes of it.    *)
FileComesFirst ==
    (joining.pc = "done" /\ joining.whole # NoFile) =>
       IsPrefix(joining.whole, joining.out)

(* link.go:67-83: CreateLink comes to an end, without a read having to     *)
(* fail, for every file but the empty one, from which it reads for ever.   *)
LinkEnds == (linking = "read" /\ file # <<>>) ~> linking \in {"idle", "linked"}
=============================================================================
