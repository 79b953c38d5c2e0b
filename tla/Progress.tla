------------------------------ MODULE Progress ------------------------------
(***************************************************************************)
(* The tracking numbers of a node: sdk-v2/track.go, the update functions   *)
(* of io.go, the handler of Download and GoMonitor in sdk-v2/api.go, and   *)
(* the byte counters of core/socket.                                       *)
(*                                                                         *)
(* There is one TrackFile.  The handler of Download brings it up to date   *)
(* after each chunk, the handler of a job of runDownload after all that it *)
(* sent; either takes the lock five times, once for each number, and asks  *)
(* for the byte counters before, without any lock.  A report that Download *)
(* publishes is a pointer to the TrackFile itself, which the handler of    *)
(* GoMonitor reads, without the lock, when its turn comes.                 *)
(*                                                                         *)
(* Delivery is the way of a message from the read loops to the handler of  *)
(* Download, which is one queue in the end and that here.  The hub trackk  *)
(* lies between Download and GoMonitor.                                    *)
(*                                                                         *)
(* A float is kept as the pair it is the quotient of.                      *)
(***************************************************************************)
EXTENDS Integers, Sequences

CONSTANTS
    TKEY,       \* the key of trackk
    Download,   \* the goroutine that calls the handler of Download
    Monitors,   \* calls of GoMonitor, each with a context and a handler
    Sockets,    \* connections that bring the chunks of one file each
    Ends,       \* Ends[s]: where each message ends in the bytes that come over s
    Size,       \* Size[s]: FileInfo.Size of the file
    Jobs,       \* transfers this node makes itself at the same time
    Sent,       \* Sent[j]: bytes that j writes
    MaxReports, \* bounds the reports published
    Cap,        \* capacity of out
    None

Updaters == {Download} \cup Jobs
Messages == UNION {{s} \X DOMAIN Ends[s] : s \in Sockets}

ASSUME ProgressAssumption ==
    /\ Download \notin Jobs /\ Jobs \cap Sockets = {}
    /\ Ends \in [Sockets -> Seq(Nat \ {0})]
    /\ \A s \in Sockets : \A i, j \in DOMAIN Ends[s] : i < j => Ends[s][i] < Ends[s][j]
    /\ Size \in [Sockets -> Nat]
    /\ Sent \in [Jobs -> Nat]
    /\ MaxReports \in Nat
    /\ Cap \in Nat \ {0}
    /\ None \notin {TKEY, Download} \cup Monitors \cup Sockets \cup Messages

(* The hub trackk. *)
VARIABLES subscribers, last, slot, closed, pc, parcel, pending, target,
          published, topic, author, home, born, replayed, got

hub == <<subscribers, last, slot, closed, pc, parcel, pending, target,
         published, topic, author, home, born, replayed, got>>

Hub == INSTANCE Cheetah WITH
          Keys <- {TKEY}, Chans <- Monitors, Publishers <- {Download},
          MaxParcels <- MaxReports

VARIABLES
    bytesRead, \* bytesRead[s]: the counter of socket s
    loop,      \* loop[s]: the messages the loop of s has read
    queue      \* messages on their way to the handler of Download

net == <<bytesRead, loop, queue>>

VARIABLES
    toComplete, written, progress, bytesLeft, timeToComplete, \* the TrackFile
    lastRead,   \* and what calcSpeed keeps of the call before
    timed

track == <<toComplete, written, progress, bytesLeft, timeToComplete, lastRead, timed>>

VARIABLES
    chunk,     \* the message the handler of Download is called with
    stage,     \* stage[u]: the update u makes next
    asked,     \* asked[u]: what it has been told is done and read
    speed,     \* speed[u]: what calcSpeed gave it
    stored,    \* the messages written to the bin, in that order (history)
    filed,     \* files whose size was set (history)
    by         \* the socket or job Written is of (history)

update == <<chunk, stage, asked, speed, stored, filed, by>>

VARIABLES
    fwd,       \* fwd[m]: where the subscribing goroutine of m is
    out,       \* out[m]: reports in the channel out
    look,      \* look[m]: the number the handler of m reads next
    report,    \* report[m]: the numbers it has read last
    cancelled  \* the calls of GoMonitor whose context is done

monitor == <<fwd, out, look, report, cancelled>>

vars == <<hub, net, track, update, monitor>>

NoReport == [written |-> 0, progress |-> <<0, 1>>]

Init ==
    /\ Hub!Init
    /\ bytesRead = [s \in Sockets |-> 0]
    /\ loop = [s \in Sockets |-> 0]
    /\ queue = <<>>
    /\ toComplete = 0
    /\ written = 0
    /\ progress = <<0, 1>>
    /\ bytesLeft = 0
    /\ timeToComplete = <<0, 1>>
    /\ lastRead = 0
    /\ timed = FALSE
    /\ chunk = None
    /\ stage = [u \in Updaters |-> "idle"]
    /\ asked = [u \in Updaters |-> <<0, 0>>]
    /\ speed = [u \in Updaters |-> 0]
    /\ stored = <<>>
    /\ filed = {}
    /\ by = None
    /\ fwd = [m \in Monitors |-> "none"]
    /\ out = [m \in Monitors |-> 0]
    /\ look = [m \in Monitors |-> "idle"]
    /\ report = [m \in Monitors |-> NoReport]
    /\ cancelled = {}

MessageSize(m) ==
    Ends[m[1]][m[2]] - (IF m[2] = 1 THEN 0 ELSE Ends[m[1]][m[2] - 1])

----------------------------------------------------------------------------
(* The read loop of a socket. *)

(* Mutant: the counter says how much came last. *)
ReadLast(s) ==
    LET m == <<s, loop[s] + 1>> IN
    /\ m \in Messages
    /\ bytesRead' = [bytesRead EXCEPT ![s] = MessageSize(m)]
    /\ loop' = [loop EXCEPT ![s] = @ + 1]
    /\ queue' = Append(queue, m)
    /\ UNCHANGED <<hub, track, update, monitor>>

(* ReadMessage counts the payload, headers of the chunk included, and the loop
   publishes it.  The counting, which comes first, and the way to the handler
   are one step: the counter is never behind what the handler has. *)
Read(s) ==
    LET m == <<s, loop[s] + 1>> IN
    /\ m \in Messages
    /\ bytesRead' = [bytesRead EXCEPT ![s] = @ + MessageSize(m)]
    /\ loop' = [loop EXCEPT ![s] = @ + 1]
    /\ queue' = Append(queue, m)
    /\ UNCHANGED <<hub, track, update, monitor>>

----------------------------------------------------------------------------
(* The handler of Download, up to its update. *)

(* The goroutine of a GET /meta_info sets the field itself, without the lock. *)
SetToComplete(s) ==
    /\ s \notin filed
    /\ filed' = filed \cup {s}
    /\ toComplete' = Size[s]
    /\ UNCHANGED <<written, progress, bytesLeft, timeToComplete, lastRead, timed,
                   chunk, stage, asked, speed, stored, by, hub, net, monitor>>

WriteChunkFile ==
    /\ stage[Download] = "idle"
    /\ queue # <<>>
    /\ queue' = Tail(queue)
    /\ chunk' = Head(queue)
    /\ stored' = Append(stored, Head(queue))
    /\ stage' = [stage EXCEPT ![Download] = "asking"]
    /\ UNCHANGED <<bytesRead, loop, asked, speed, filed, by, hub, track, monitor>>

(* The message does not unpack or the disk does not take it: a line in the log. *)
WriteChunkError ==
    /\ stage[Download] = "idle"
    /\ queue # <<>>
    /\ queue' = Tail(queue)
    /\ UNCHANGED <<bytesRead, loop, hub, track, update, monitor>>

(* Stat of the socket the message came over: what has been read by now. *)
AskRead ==
    /\ stage[Download] = "asking"
    /\ asked' = [asked EXCEPT ![Download] = <<bytesRead[chunk[1]], bytesRead[chunk[1]]>>]
    /\ stage' = [stage EXCEPT ![Download] = "written"]
    /\ UNCHANGED <<chunk, speed, stored, filed, by, hub, net, track, monitor>>

(* The handler of a job is through with write; its socket has read nothing. *)
AskWritten(j) ==
    /\ stage[j] = "idle"
    /\ asked' = [asked EXCEPT ![j] = <<Sent[j], 0>>]
    /\ stage' = [stage EXCEPT ![j] = "written"]
    /\ UNCHANGED <<chunk, speed, stored, filed, by, hub, net, track, monitor>>

----------------------------------------------------------------------------
(* updatePeerDownload and updatePeerStats: five calls, each under t.mu. *)

Done(u) == asked[u][1]
Source(u) == IF u = Download THEN chunk[1] ELSE u

UpdateWritten(u) ==
    /\ stage[u] = "written"
    /\ written' = Done(u)
    /\ by' = Source(u)
    /\ stage' = [stage EXCEPT ![u] = "progress"]
    /\ UNCHANGED <<toComplete, progress, bytesLeft, timeToComplete, lastRead, timed,
                   chunk, asked, speed, stored, filed, hub, net, monitor>>

(* The log line before the guard divides by ToComplete. *)
UpdateProgress(u) ==
    /\ stage[u] = "progress"
    /\ IF toComplete = 0
       THEN /\ stage' = [stage EXCEPT ![u] = "panicked"]
            /\ UNCHANGED progress
       ELSE /\ stage' = [stage EXCEPT ![u] = "left"]
            /\ progress' = <<Done(u), toComplete>>
    /\ UNCHANGED <<toComplete, written, bytesLeft, timeToComplete, lastRead, timed,
                   chunk, asked, speed, stored, filed, by, hub, net, monitor>>

UpdateBytesLeft(u) ==
    /\ stage[u] = "left"
    /\ bytesLeft' = toComplete - Done(u)
    /\ stage' = [stage EXCEPT ![u] = "speed"]
    /\ UNCHANGED <<toComplete, written, progress, timeToComplete, lastRead, timed,
                   chunk, asked, speed, stored, filed, by, hub, net, monitor>>

(* Nothing when called for the first time; then the bytes read since the last
   call, of whatever socket that was, over some time or over so long a time that
   the quotient is cut to nothing. *)
CalcSpeed(u) ==
    LET read  == asked[u][2]
        delta == IF read > lastRead THEN read - lastRead ELSE 0
    IN
    /\ stage[u] = "speed"
    /\ \E v \in (IF timed THEN {0, delta} ELSE {0}) : speed' = [speed EXCEPT ![u] = v]
    /\ lastRead' = read
    /\ timed' = TRUE
    /\ stage' = [stage EXCEPT ![u] = "time"]
    /\ UNCHANGED <<toComplete, written, progress, bytesLeft, timeToComplete,
                   chunk, asked, stored, filed, by, hub, net, monitor>>

(* Mutant: the time is that of what is left. *)
UpdateTimeOfRest(u) ==
    /\ stage[u] = "time"
    /\ timeToComplete' = <<bytesLeft, speed[u]>>
    /\ stage' = [stage EXCEPT ![u] = IF u = Download THEN "publish" ELSE "done"]
    /\ asked' = [asked EXCEPT ![u] = <<0, 0>>]
    /\ speed' = [speed EXCEPT ![u] = 0]
    /\ UNCHANGED <<toComplete, written, progress, bytesLeft, lastRead, timed,
                   chunk, stored, filed, by, hub, net, monitor>>

(* The limits set first for "nothing" and "no speed" do not return: the quotient
   replaces them, and what is divided are the bytes that are done. *)
UpdateTimeToComplete(u) ==
    /\ stage[u] = "time"
    /\ timeToComplete' = <<toComplete - bytesLeft, speed[u]>>
    /\ stage' = [stage EXCEPT ![u] = IF u = Download THEN "publish" ELSE "done"]
    /\ asked' = [asked EXCEPT ![u] = <<0, 0>>]
    /\ speed' = [speed EXCEPT ![u] = 0]
    /\ UNCHANGED <<toComplete, written, progress, bytesLeft, lastRead, timed,
                   chunk, stored, filed, by, hub, net, monitor>>

(* Mutant: one report is enough, they all point to the same numbers. *)
PublishFirst ==
    /\ stage[Download] = "publish"
    /\ IF published = 0 THEN Hub!Publish(Download, TKEY) ELSE UNCHANGED hub
    /\ stage' = [stage EXCEPT ![Download] = "publishing"]
    /\ UNCHANGED <<chunk, asked, speed, stored, filed, by, net, track, monitor>>

Publish ==
    /\ stage[Download] = "publish"
    /\ Hub!Publish(Download, TKEY)
    /\ stage' = [stage EXCEPT ![Download] = "publishing"]
    /\ UNCHANGED <<chunk, asked, speed, stored, filed, by, net, track, monitor>>

Deliver ==
    /\ Hub!Send(Download) \/ Hub!Panic(Download)
    /\ UNCHANGED <<net, track, update, monitor>>

(* Publish is back, and with it the handler. *)
Return ==
    /\ stage[Download] = "publishing"
    /\ pc[Download] = "idle"
    /\ stage' = [stage EXCEPT ![Download] = "idle"]
    /\ chunk' = None
    /\ UNCHANGED <<asked, speed, stored, filed, by, hub, net, track, monitor>>

----------------------------------------------------------------------------
(* GoMonitor. *)

GoMonitor(m) ==
    /\ fwd[m] = "none"
    /\ fwd' = [fwd EXCEPT ![m] = "starting"]
    /\ UNCHANGED <<out, look, report, cancelled, hub, net, track, update>>

Subscribe(m) ==
    /\ fwd[m] = "starting"
    /\ Hub!Subscribe(m, TKEY)
    /\ fwd' = [fwd EXCEPT ![m] = "waiting"]
    /\ UNCHANGED <<out, look, report, cancelled, net, track, update>>

Take(m) ==
    /\ fwd[m] = "waiting"
    /\ Hub!Receive(m)
    /\ fwd' = [fwd EXCEPT ![m] = "holding"]
    /\ UNCHANGED <<out, look, report, cancelled, net, track, update>>

Hand(m) ==
    /\ fwd[m] = "holding"
    /\ out[m] < Cap
    /\ out' = [out EXCEPT ![m] = @ + 1]
    /\ fwd' = [fwd EXCEPT ![m] = "waiting"]
    /\ UNCHANGED <<look, report, cancelled, hub, net, track, update>>

Cancel(m) ==
    /\ fwd[m] # "none" /\ m \notin cancelled
    /\ cancelled' = cancelled \cup {m}
    /\ UNCHANGED <<fwd, out, look, report, hub, net, track, update>>

Leave(m) ==
    /\ m \in cancelled
    /\ fwd[m] \in {"waiting", "holding"}
    /\ Hub!Unsubscribe(m)
    /\ fwd' = [fwd EXCEPT ![m] = "gone"]
    /\ UNCHANGED <<out, look, report, cancelled, net, track, update>>

(* The worker calls the handler, and that Document: it reads one number after
   the other while the updates go on, Written before Progress and others that
   nothing here looks at.  A worker whose context is done ends instead. *)
Handle(m) ==
    /\ look[m] = "idle"
    /\ out[m] > 0
    /\ out' = [out EXCEPT ![m] = @ - 1]
    /\ look' = [look EXCEPT ![m] = "written"]
    /\ UNCHANGED <<fwd, report, cancelled, hub, net, track, update>>

WorkerEnds(m) ==
    /\ m \in cancelled
    /\ look[m] = "idle"
    /\ look' = [look EXCEPT ![m] = "ended"]
    /\ UNCHANGED <<fwd, out, report, cancelled, hub, net, track, update>>

Document(m) ==
    /\ \/ /\ look[m] = "written"
          /\ report' = [report EXCEPT ![m].written = written]
          /\ look' = [look EXCEPT ![m] = "progress"]
       \/ /\ look[m] = "progress"
          /\ report' = [report EXCEPT ![m].progress = progress]
          /\ look' = [look EXCEPT ![m] = "idle"]
    /\ UNCHANGED <<fwd, out, cancelled, hub, net, track, update>>

----------------------------------------------------------------------------

Crashed == pc[Download] = "panicked" \/ \E u \in Updaters : stage[u] = "panicked"

Update(u) ==
    \/ UpdateWritten(u) \/ UpdateProgress(u) \/ UpdateBytesLeft(u)
    \/ CalcSpeed(u) \/ UpdateTimeToComplete(u)

Next ==
    /\ ~Crashed
    /\ \/ \E s \in Sockets : Read(s) \/ SetToComplete(s)
       \/ WriteChunkFile \/ WriteChunkError \/ AskRead
       \/ \E j \in Jobs : AskWritten(j)
       \/ \E u \in Updaters : Update(u)
       \/ Publish \/ Deliver \/ Return
       \/ \E m \in Monitors : \/ GoMonitor(m) \/ Subscribe(m) \/ Take(m) \/ Hand(m)
                              \/ Cancel(m) \/ Leave(m)
                              \/ Handle(m) \/ WorkerEnds(m) \/ Document(m)

Spec == Init /\ [][Next]_vars

----------------------------------------------------------------------------
(* Properties. *)

Pair == Int \X Int
Stages == {"idle", "asking", "written", "progress", "left", "speed", "time",
           "publish", "publishing", "done", "panicked"}

TypeOK ==
    /\ Hub!TypeOK
    /\ bytesRead \in [Sockets -> Nat]
    /\ loop \in [Sockets -> Nat]
    /\ queue \in Seq(Messages)
    /\ toComplete \in Nat /\ written \in Nat /\ bytesLeft \in Int
    /\ progress \in Nat \X (Nat \ {0})
    /\ timeToComplete \in Pair
    /\ lastRead \in Nat /\ timed \in BOOLEAN
    /\ chunk \in Messages \cup {None}
    /\ stage \in [Updaters -> Stages]
    /\ asked \in [Updaters -> Nat \X Nat]
    /\ speed \in [Updaters -> Nat]
    /\ stored \in Seq(Messages)
    /\ filed \subseteq Sockets
    /\ by \in Sockets \cup Jobs \cup {None}
    /\ fwd \in [Monitors -> {"none", "starting", "waiting", "holding", "gone"}]
    /\ out \in [Monitors -> 0..Cap]
    /\ look \in [Monitors -> {"idle", "written", "progress", "ended"}]
    /\ report \in [Monitors -> [written : Nat, progress : Pair]]
    /\ cancelled \subseteq Monitors

(* What is stored of a connection, up to the chunk that was stored last. *)
StoredOf(s) == {i \in DOMAIN Ends[s] : \E k \in DOMAIN stored : stored[k] = <<s, i>>}

(* Between two chunks Written is never less than what is stored of the file it
   is of: the counter is asked later than it is counted up, and never for
   another connection than that of the chunk. *)
WrittenCoversStored ==
    stage[Download] = "idle" /\ by \in Sockets =>
        \A i \in StoredOf(by) : written >= Ends[by][i]

Quiet(m) ==
    /\ chunk = None
    /\ fwd[m] = "waiting" /\ slot[m] = 0 /\ out[m] = 0 /\ look[m] = "idle"
    /\ m \notin cancelled

(* "GoMonitor returns the current file state report" (sdk-v2/api.go:28): when
   all is quiet a handler has, in its last report, numbers of one update, and
   they cover the chunk that was stored last, although a report may show
   anything in between.  So it is for every GoMonitor that came before the last
   report and for the first that came after it, whom the latch is for; but not
   where the node sends a file of its own meanwhile. *)
LastReportIsCurrent ==
    \A m \in Monitors :
        /\ Quiet(m) /\ stored # <<>> /\ \A j \in Jobs : stage[j] = "idle"
        /\ born[m] < published \/ replayed[m] # Hub!NoParcel
        => LET s == stored[Len(stored)][1]
               i == stored[Len(stored)][2]
           IN /\ report[m].written >= Ends[s][i]
              /\ report[m].progress[1] = report[m].written

Undefined(q) == q[1] = 0 /\ q[2] = 0

(* The quotient that replaces the limit values is undefined only if another
   file was announced, or nothing was sent at all. *)
TimeIsDefined ==
    Undefined(timeToComplete) =>
        \/ \E f, g \in filed : f # g
        \/ \E j \in Jobs : Sent[j] = 0 /\ stage[j] # "idle"
============================================================================
