------------------------------- MODULE Share -------------------------------
(***************************************************************************)
(* A node that shares files: sdk-v2/api.go, io.go, track.go and            *)
(* admin/admin.go.  GET /meta_info names a directory and the trackers to   *)
(* send it to, POST /completion waits until a transfer is through, Stop is *)
(* the end of the process.  The hub gotInfo of Cheetah lies between the    *)
(* transfers and the POSTs.                                                *)
(*                                                                         *)
(* A request is a GET /meta_info and its directory: what is sent of r is   *)
(* told apart by <<r, i>>, entry i of the listing of r.  Two kinds of      *)
(* MetaInfo change anything: "meta" from the local client, "udp" forwarded *)
(* by another node.  A third body is no MetaInfo, as some field has the    *)
(* wrong type, but a SuceedFileTransfer: its GET publishes on the hub seed *)
(* where the POSTs wait, too.  (What a finished transfer sends decodes as  *)
(* a MetaInfo with neither flag set, which does nothing.)  Of the hub seed *)
(* this module has what Cheetah is shown to implement, LatchedTopic.       *)
(*                                                                         *)
(* A job is the client of one tracker: its connected hub has one publisher *)
(* and one subscriber and holds one parcel at most, so the handler runs    *)
(* once or never.  Of a tracker this module has the handler of Download;   *)
(* the way of a message to it, abstracted to the stream here, is Delivery, *)
(* and what is stored of it the subject of Parts.                          *)
(* Of the tracking numbers it has ToComplete, by which they all divide.    *)
(***************************************************************************)
EXTENDS Naturals, Sequences, FiniteSets

CONSTANTS
    IKEY,      \* the key of gotInfo
    SKEY,      \* the key of seed
    MaxSeeds,  \* bound on the GETs that publish on seed
    Requests,  \* the GETs of /meta_info that are to come
    Trackers,  \* the other nodes
    Posts,     \* the POSTs of /completion, each with its channel
    Kind,      \* Kind[r]: "meta" or "udp"
    Urls,      \* Urls[r]: the trackers r is to be sent to (Config.URLs)
    Tcps,      \* Tcps[r]: those that are told before (Config.TCPs)
    Size,      \* Size[r]: FileInfo.Size
    Listing,   \* Listing[r]: the sizes of the entries of the directory, in the
               \* order of ReadDir; a subdirectory counts as empty
    Window,    \* messages a stream takes before one is handled
    None

Jobs == Requests \X Trackers
MaxParcels == Cardinality(Jobs)

ASSUME ShareAssumption ==
    /\ IsFiniteSet(Requests) /\ IsFiniteSet(Trackers)
    /\ Kind \in [Requests -> {"meta", "udp"}]
    /\ Urls \in [Requests -> SUBSET Trackers]
    /\ Tcps \in [Requests -> Seq(Trackers)]
    /\ Size \in [Requests -> Nat]
    /\ Listing \in [Requests -> Seq(Nat)]
    /\ Window \in Nat \ {0}
    /\ MaxSeeds \in Nat
    /\ None \notin {IKEY, SKEY} \cup Requests \cup Trackers \cup Posts \cup Jobs

(* The hub gotInfo: the jobs publish, the POSTs subscribe. *)
VARIABLES subscribers, last, slot, closed, pc, parcel, pending, target,
          published, topic, author, home, born, replayed, got

hub == <<subscribers, last, slot, closed, pc, parcel, pending, target,
         published, topic, author, home, born, replayed, got>>

Hub == INSTANCE Cheetah WITH
          Keys <- {IKEY}, Chans <- Posts, Publishers <- Jobs

VARIABLES
    get,        \* get[r]: where the goroutine of GET r is
    untold,     \* untold[r]: the TCPs it has still to tell
    toComplete, \* track.ToComplete
    fileData,   \* track.PeerFileData: the request it was taken from, or None
    filed       \* the requests in the order of setPeerFileData (history)

track == <<get, untold, toComplete, fileData, filed>>

VARIABLES
    job,        \* job[j]: where the client and the OnConnect handler of j are
    dir,        \* dir[j]: the directory the handler has read from PeerFileData
    at,         \* at[j]: the entry write comes to next
    mu,         \* the job that holds a.mu, or None
    sent,       \* sent[j]: the messages WriteMessage has taken
    up          \* up[j]: the connection to the tracker is up

send == <<job, dir, at, mu, sent, up>>

VARIABLES
    stream,     \* stream[j]: messages on their way to the tracker
    informing,  \* informing[t]: goroutines of forwarded GETs at t
    total,      \* total[t]: ToComplete at t
    dead        \* trackers that have panicked

tracker == <<stream, informing, total, dead>>

VARIABLES
    ask,        \* ask[p]: where the handler of POST p is
    answer,     \* answer[p]: its answer
    phase,      \* where the shutdown is
    halved      \* the job that divided by zero, or None

(* The hub seed: the GETs publish, the POSTs subscribe. *)
VARIABLES member, gone, latch, count, owed, seen

seed == <<member, gone, latch, count, owed, seen>>

Seed == INSTANCE LatchedTopic WITH
           Keys <- {SKEY}, Chans <- Posts, MaxParcels <- MaxSeeds

node == <<ask, answer, phase, halved, seed>>

vars == <<hub, track, send, tracker, node>>

NoParcel == 0
Messages == UNION {{r} \X DOMAIN Listing[r] : r \in Requests}

Init ==
    /\ Hub!Init
    /\ Seed!Init
    /\ get = [r \in Requests |-> "new"]
    /\ untold = [r \in Requests |-> <<>>]
    /\ toComplete = 0
    /\ fileData = None
    /\ filed = <<>>
    /\ job = [j \in Jobs |-> "none"]
    /\ dir = [j \in Jobs |-> None]
    /\ at = [j \in Jobs |-> 1]
    /\ mu = None
    /\ sent = [j \in Jobs |-> <<>>]
    /\ up = [j \in Jobs |-> FALSE]
    /\ stream = [j \in Jobs |-> <<>>]
    /\ informing = [t \in Trackers |-> {}]
    /\ total = [t \in Trackers |-> 0]
    /\ dead = {}
    /\ ask = [p \in Posts |-> "none"]
    /\ answer = [p \in Posts |-> "none"]
    /\ phase = "up"
    /\ halved = None

----------------------------------------------------------------------------
(* The node: GET /meta_info. *)

(* The handler answers at once and leaves the rest to a goroutine. *)
Get(r) ==
    /\ phase = "up"
    /\ get[r] = "new"
    /\ get' = [get EXCEPT ![r] = "telling"]
    /\ untold' = [untold EXCEPT ![r] = IF Kind[r] = "meta" THEN Tcps[r] ELSE <<>>]
    /\ UNCHANGED <<toComplete, fileData, filed, hub, send, tracker, node>>

(* The GET that is no MetaInfo: its handler publishes before it returns.  One
   accepted before Stop may still do so after it. *)
GetSeed ==
    /\ Seed!Announce(SKEY)
    /\ UNCHANGED <<ask, answer, phase, halved, hub, track, send, tracker>>

(* A POST that leaves while the handler serves the others costs them the seed:
   the panic is the handler's own, and the server recovers it. *)
BreakOffSeed(n) ==
    /\ Seed!BreakOff(SKEY, n)
    /\ UNCHANGED <<ask, answer, phase, halved, hub, track, send, tracker>>

(* One forwarded GET, which the other node answers before its goroutine has
   done anything, or which does not get through: nobody looks. *)
Tell(r) ==
    /\ get[r] = "telling"
    /\ untold[r] # <<>>
    /\ untold' = [untold EXCEPT ![r] = Tail(@)]
    /\ \/ UNCHANGED informing
       \/ /\ Head(untold[r]) \notin dead
          /\ informing' = [informing EXCEPT ![Head(untold[r])] = @ \cup {r}]
    /\ UNCHANGED <<get, toComplete, fileData, filed, hub, send, stream,
                   total, dead, node>>

(* Mutant: only a forwarded request brings its size. *)
SetToCompleteIfUdp(r) ==
    /\ get[r] = "telling"
    /\ untold[r] = <<>>
    /\ toComplete' = IF Kind[r] = "udp" THEN Size[r] ELSE toComplete
    /\ get' = [get EXCEPT ![r] = "filing"]
    /\ UNCHANGED <<untold, fileData, filed, hub, send, tracker, node>>

SetToComplete(r) ==
    /\ get[r] = "telling"
    /\ untold[r] = <<>>
    /\ toComplete' = Size[r]
    /\ get' = [get EXCEPT ![r] = "filing"]
    /\ UNCHANGED <<untold, fileData, filed, hub, send, tracker, node>>

(* Mutant: the file data of an earlier request is kept. *)
SetFileDataOnce(r) ==
    /\ get[r] = "filing"
    /\ filed' = Append(filed, r)
    /\ fileData' = IF fileData = None THEN r ELSE fileData
    /\ get' = [get EXCEPT ![r] = IF Kind[r] = "meta" THEN "starting" ELSE "done"]
    /\ UNCHANGED <<untold, toComplete, hub, send, tracker, node>>

SetPeerFileData(r) ==
    /\ get[r] = "filing"
    /\ filed' = Append(filed, r)
    /\ fileData' = r
    /\ get' = [get EXCEPT ![r] = IF Kind[r] = "meta" THEN "starting" ELSE "done"]
    /\ UNCHANGED <<untold, toComplete, hub, send, tracker, node>>

(* A client for each tracker PeerFileData lists at this moment. *)
RunDownload(r) ==
    /\ get[r] = "starting"
    /\ get' = [get EXCEPT ![r] = "done"]
    /\ job' = [j \in Jobs |-> IF j[1] = r /\ j[2] \in Urls[fileData]
                                THEN "dialing" ELSE job[j]]
    /\ UNCHANGED <<untold, toComplete, fileData, filed, hub, dir, at, mu, sent, up,
                   tracker, node>>

----------------------------------------------------------------------------
(* The node: a job. *)

(* Handshake and stream are there; the handler is called and reads where the
   chunks are. *)
Connect(j) ==
    /\ job[j] = "dialing"
    /\ j[2] \notin dead
    /\ up' = [up EXCEPT ![j] = TRUE]
    /\ dir' = [dir EXCEPT ![j] = fileData]
    /\ job' = [job EXCEPT ![j] = "connected"]
    /\ UNCHANGED <<at, mu, sent, hub, track, tracker, node>>

(* No connection: the handler is never called. *)
DialError(j) ==
    /\ job[j] = "dialing"
    /\ job' = [job EXCEPT ![j] = "failed"]
    /\ UNCHANGED <<dir, at, mu, sent, up, hub, track, tracker, node>>

Lock(j) ==
    /\ job[j] = "connected"
    /\ mu = None
    /\ mu' = j
    /\ job' = [job EXCEPT ![j] = "writing"]
    /\ UNCHANGED <<dir, at, sent, up, hub, track, tracker, node>>

(* An entry without data is passed over. *)
SkipEntry(j) ==
    /\ job[j] = "writing"
    /\ at[j] \in DOMAIN Listing[dir[j]]
    /\ Listing[dir[j]][at[j]] = 0
    /\ at' = [at EXCEPT ![j] = @ + 1]
    /\ UNCHANGED <<job, dir, mu, sent, up, hub, track, tracker, node>>

(* Mutant: where the chunks are is looked up again for each of them. *)
WriteEntryOfFileData(j) ==
    LET d == fileData IN
    /\ job[j] = "writing"
    /\ at[j] \in DOMAIN Listing[d]
    /\ Listing[d][at[j]] > 0
    /\ up[j]
    /\ Len(stream[j]) < Window
    /\ stream' = [stream EXCEPT ![j] = Append(@, <<d, at[j]>>)]
    /\ sent' = [sent EXCEPT ![j] = Append(@, <<d, at[j]>>)]
    /\ at' = [at EXCEPT ![j] = @ + 1]
    /\ UNCHANGED <<job, dir, mu, up, hub, track, informing, total, dead, node>>

(* Mutant: the stream takes everything at once. *)
WriteEntryUnbounded(j) ==
    LET m == <<dir[j], at[j]>> IN
    /\ job[j] = "writing"
    /\ m \in Messages
    /\ Listing[dir[j]][at[j]] > 0
    /\ up[j]
    /\ stream' = [stream EXCEPT ![j] = Append(@, m)]
    /\ sent' = [sent EXCEPT ![j] = Append(@, m)]
    /\ at' = [at EXCEPT ![j] = @ + 1]
    /\ UNCHANGED <<job, dir, mu, up, hub, track, informing, total, dead, node>>

(* WriteMessage blocks, with a.mu held, while the stream is full. *)
WriteEntry(j) ==
    LET m == <<dir[j], at[j]>> IN
    /\ job[j] = "writing"
    /\ m \in Messages
    /\ Listing[dir[j]][at[j]] > 0
    /\ up[j]
    /\ Len(stream[j]) < Window
    /\ stream' = [stream EXCEPT ![j] = Append(@, m)]
    /\ sent' = [sent EXCEPT ![j] = Append(@, m)]
    /\ at' = [at EXCEPT ![j] = @ + 1]
    /\ UNCHANGED <<job, dir, mu, up, hub, track, informing, total, dead, node>>

(* Mutant: the result of a transfer that failed is published like any other. *)
WriteErrorPublished(j) ==
    /\ job[j] = "writing"
    /\ mu' = None
    /\ job' = [job EXCEPT ![j] = "written"]
    /\ UNCHANGED <<dir, at, sent, up, hub, track, tracker, node>>


(* ReadDir, ReadFile or WriteMessage fails: a.mu is released, the handler
   returns and nobody is told. *)
WriteError(j) ==
    /\ job[j] = "writing"
    /\ mu' = None
    /\ job' = [job EXCEPT ![j] = "failed"]
    /\ UNCHANGED <<dir, at, sent, up, hub, track, tracker, node>>

WriteDone(j) ==
    /\ job[j] = "writing"
    /\ at[j] > Len(Listing[dir[j]])
    /\ mu' = None
    /\ job' = [job EXCEPT ![j] = "written"]
    /\ UNCHANGED <<dir, at, sent, up, hub, track, tracker, node>>

(* Mutant: nothing is reported of a connection that has gone. *)
PublishIfUp(j) ==
    /\ job[j] = "written"
    /\ up[j]
    /\ Hub!Publish(j, IKEY)
    /\ job' = [job EXCEPT ![j] = "publishing"]
    /\ UNCHANGED <<dir, at, mu, sent, up, track, tracker, node>>

(* got is set and gotInfo.Publish takes the hub's lock ... *)
PublishGotInfo(j) ==
    /\ job[j] = "written"
    /\ Hub!Publish(j, IKEY)
    /\ job' = [job EXCEPT ![j] = "publishing"]
    /\ UNCHANGED <<dir, at, mu, sent, up, track, tracker, node>>

(* ... and serves the POSTs it found; its panic ends the process. *)
Deliver(j) ==
    /\ Hub!Send(j) \/ Hub!Panic(j)
    /\ UNCHANGED <<track, send, tracker, node>>

(* updatePeerStats divides by ToComplete before it asks whether it is zero. *)
UpdatePeerStats(j) ==
    /\ job[j] = "publishing"
    /\ pc[j] = "idle"
    /\ job' = [job EXCEPT ![j] = "done"]
    /\ halved' = IF toComplete = 0 THEN j ELSE halved
    /\ UNCHANGED <<dir, at, mu, sent, up, hub, track, tracker, ask, answer, phase,
                   seed>>

----------------------------------------------------------------------------
(* The trackers and the network. *)

(* The connection goes, with what was in the stream. *)
Drop(j) ==
    /\ up[j]
    /\ up' = [up EXCEPT ![j] = FALSE]
    /\ stream' = [stream EXCEPT ![j] = <<>>]
    /\ UNCHANGED <<job, dir, at, mu, sent, hub, track, informing,
                   total, dead, node>>

(* The handler of Download: the chunk is unpacked and goes to disk, then the
   numbers are brought up to date, with the same division. *)
HandleChunk(j) ==
    LET t == j[2] IN
    /\ t \notin dead
    /\ stream[j] # <<>>
    /\ stream' = [stream EXCEPT ![j] = Tail(@)]
    /\ dead' = IF total[t] = 0 THEN dead \cup {t} ELSE dead
    /\ UNCHANGED <<informing, total, hub, track, send, node>>

(* It cannot be unpacked or written: the handler returns before that. *)
ChunkError(j) ==
    /\ j[2] \notin dead
    /\ stream[j] # <<>>
    /\ stream' = [stream EXCEPT ![j] = Tail(@)]
    /\ UNCHANGED <<informing, total, dead, hub, track, send, node>>

(* The goroutine of a forwarded GET gets as far as ToComplete. *)
Inform(t, r) ==
    /\ t \notin dead
    /\ r \in informing[t]
    /\ informing' = [informing EXCEPT ![t] = @ \ {r}]
    /\ total' = [total EXCEPT ![t] = Size[r]]
    /\ UNCHANGED <<stream, dead, hub, track, send, node>>

----------------------------------------------------------------------------
(* The node: POST /completion. *)

Post(p) ==
    /\ phase = "up"
    /\ ask[p] = "none"
    /\ ask' = [ask EXCEPT ![p] = "asked"]
    /\ UNCHANGED <<answer, phase, halved, seed, hub, track, send, tracker>>

Subscribe(p) ==
    /\ ask[p] = "asked"
    /\ Hub!Subscribe(p, IKEY)
    /\ ask' = [ask EXCEPT ![p] = "subscribed"]
    /\ UNCHANGED <<answer, phase, halved, seed, track, send, tracker>>

SubscribeSeed(p) ==
    /\ ask[p] = "subscribed"
    /\ Seed!Join(p, SKEY)
    /\ ask' = [ask EXCEPT ![p] = "waiting"]
    /\ UNCHANGED <<answer, phase, halved, hub, track, send, tracker>>

(* The select; what is published always has got set ... *)
FileDone(p) ==
    /\ ask[p] = "waiting"
    /\ Hub!Receive(p)
    /\ answer' = [answer EXCEPT ![p] = "file done"]
    /\ ask' = [ask EXCEPT ![p] = "leaving"]
    /\ UNCHANGED <<phase, halved, seed, track, send, tracker>>

(* ... and seed.  The request for the local joiner is only added. *)
SeedTriggered(p) ==
    /\ ask[p] = "waiting"
    /\ Seed!See(p)
    /\ answer' = [answer EXCEPT ![p] = "seed triggered"]
    /\ ask' = [ask EXCEPT ![p] = "leaving"]
    /\ UNCHANGED <<phase, halved, hub, track, send, tracker>>

ShuttingDown(p) ==
    /\ ask[p] = "waiting"
    /\ phase = "cancelled"
    /\ answer' = [answer EXCEPT ![p] = "shutting down"]
    /\ ask' = [ask EXCEPT ![p] = "leaving"]
    /\ UNCHANGED <<phase, halved, seed, hub, track, send, tracker>>

(* The request's own context: whoever asked has gone. *)
Gone(p) ==
    /\ ask[p] = "waiting"
    /\ ask' = [ask EXCEPT ![p] = "leaving"]
    /\ UNCHANGED <<answer, phase, halved, seed, hub, track, send, tracker>>

(* The deferred calls of Unsubscribe, the last one first. *)
LeaveSeed(p) ==
    /\ ask[p] = "leaving"
    /\ Seed!Leave(p)
    /\ ask' = [ask EXCEPT ![p] = "left"]
    /\ UNCHANGED <<answer, phase, halved, hub, track, send, tracker>>

Leave(p) ==
    /\ ask[p] = "left"
    /\ Hub!Unsubscribe(p)
    /\ ask' = [ask EXCEPT ![p] = "done"]
    /\ UNCHANGED <<answer, phase, halved, seed, track, send, tracker>>

----------------------------------------------------------------------------
(* The end of the process: OnStop. *)

Active == {p \in Posts : ask[p] \notin {"none", "done"}}

(* Shutdown closes the listener and waits for the handlers. *)
Stop ==
    /\ phase = "up"
    /\ phase' = "draining"
    /\ UNCHANGED <<ask, answer, halved, seed, hub, track, send, tracker>>

(* Mutant: Shutdown without a deadline. *)
ShutdownWhenIdle ==
    /\ phase = "draining"
    /\ Active = {}
    /\ phase' = "cancelled"
    /\ UNCHANGED <<ask, answer, halved, seed, hub, track, send, tracker>>

(* Shutdown is back when no handler is left or after five seconds, whichever
   comes first; only then is the context cancelled that the POSTs wait for. *)
Cancel ==
    /\ phase = "draining"
    /\ phase' = "cancelled"
    /\ UNCHANGED <<ask, answer, halved, seed, hub, track, send, tracker>>

(* OnStop is back and so is Run: what goroutines are left go with it. *)
Exit ==
    /\ phase = "cancelled"
    /\ phase' = "exited"
    /\ UNCHANGED <<ask, answer, halved, seed, hub, track, send, tracker>>

----------------------------------------------------------------------------

Down ==
    \/ phase = "exited"
    \/ halved # None
    \/ \E j \in Jobs : pc[j] = "panicked"

Node ==
    \/ \E r \in Requests : \/ Get(r) \/ Tell(r) \/ SetToComplete(r)
                           \/ SetPeerFileData(r) \/ RunDownload(r)
    \/ \E j \in Jobs : \/ Connect(j) \/ DialError(j) \/ Lock(j) \/ SkipEntry(j)
                       \/ WriteEntry(j) \/ WriteError(j) \/ WriteDone(j)
                       \/ PublishGotInfo(j) \/ Deliver(j) \/ UpdatePeerStats(j)
    \/ GetSeed \/ \E n \in 1..MaxSeeds : BreakOffSeed(n)
    \/ \E p \in Posts : \/ Post(p) \/ Subscribe(p) \/ SubscribeSeed(p)
                        \/ FileDone(p) \/ SeedTriggered(p) \/ ShuttingDown(p)
                        \/ Gone(p) \/ LeaveSeed(p) \/ Leave(p)
    \/ Stop \/ Cancel \/ Exit

Next ==
    \/ ~Down /\ Node
    \/ \E j \in Jobs : Drop(j) \/ HandleChunk(j) \/ ChunkError(j)
    \/ \E t \in Trackers, r \in Requests : Inform(t, r)

Spec == Init /\ [][Next]_vars

(* What a goroutine does next of its own accord. *)
GetStep(r) == Tell(r) \/ SetToComplete(r) \/ SetPeerFileData(r) \/ RunDownload(r)
JobStep(j) ==
    \/ Connect(j) \/ DialError(j) \/ Lock(j)
    \/ SkipEntry(j) \/ WriteEntry(j) \/ WriteDone(j)
    \/ ~up[j] /\ WriteError(j)
    \/ PublishGotInfo(j) \/ Deliver(j) \/ UpdatePeerStats(j)
PostStep(p) ==
    \/ Subscribe(p) \/ SubscribeSeed(p) \/ FileDone(p) \/ SeedTriggered(p)
    \/ ShuttingDown(p) \/ LeaveSeed(p) \/ Leave(p)

(* Goroutines are scheduled and the timer of Shutdown runs; a mutex and a
   channel that come free again and again are given to everyone who waits; a
   dial ends, in a connection or not; a write on a connection that has gone
   fails.  Nothing is asked of the trackers: one may never read again, as its
   loop waits for a datagram that was lost. *)
Fairness ==
    /\ \A r \in Requests : WF_vars(~Down /\ GetStep(r))
    /\ \A j \in Jobs : SF_vars(~Down /\ JobStep(j))
    /\ \A p \in Posts : WF_vars(~Down /\ PostStep(p))
    /\ WF_vars(~Down /\ (Cancel \/ Exit))

FairSpec == Spec /\ Fairness

----------------------------------------------------------------------------
(* Properties. *)

TypeOK ==
    /\ Hub!TypeOK
    /\ get \in [Requests -> {"new", "telling", "filing", "starting", "done"}]
    /\ untold \in [Requests -> Seq(Trackers)]
    /\ toComplete \in Nat
    /\ fileData \in Requests \cup {None}
    /\ filed \in Seq(Requests)
    /\ job \in [Jobs -> {"none", "dialing", "connected", "writing", "written",
                         "publishing", "done", "failed"}]
    /\ dir \in [Jobs -> Requests \cup {None}]
    /\ at \in [Jobs -> Nat \ {0}]
    /\ mu \in Jobs \cup {None}
    /\ sent \in [Jobs -> Seq(Messages)]
    /\ up \in [Jobs -> BOOLEAN]
    /\ stream \in [Jobs -> Seq(Messages)]
    /\ \A j \in Jobs : Len(stream[j]) <= Window
    /\ informing \in [Trackers -> SUBSET Requests]
    /\ total \in [Trackers -> Nat]
    /\ dead \in SUBSET Trackers
    /\ ask \in [Posts -> {"none", "asked", "subscribed", "waiting", "leaving",
                         "left", "done"}]
    /\ answer \in [Posts -> {"none", "file done", "seed triggered",
                            "shutting down"}]
    /\ phase \in {"up", "draining", "cancelled", "exited"}
    /\ halved \in Jobs \cup {None}

HasData(m) == Listing[m[1]][m[2]] > 0

(* q is what there is to send of directory d up to entry n, in order. *)
IsData(q, d, n) ==
    /\ \A i \in DOMAIN q : q[i] \in {d} \X (1..n) /\ HasData(q[i])
    /\ \A i, k \in DOMAIN q : i < k => q[i][2] < q[k][2]
    /\ \A e \in 1..n : HasData(<<d, e>>) => \E i \in DOMAIN q : q[i] = <<d, e>>

(* "file done" is answered only after every entry with data of some directory
   was written, without an error, to the stream of one tracker. *)
DoneMeansSent ==
    \A p \in Posts : answer[p] = "file done" =>
        \E n \in got[p] : LET j == author[n] IN
            IsData(sent[j], dir[j], Len(Listing[dir[j]]))

(* What goes to a tracker comes from one directory, in the order of its
   listing and without a gap, whatever requests come in meanwhile. *)
OneDirectory ==
    \A j \in Jobs : sent[j] # <<>> => IsData(sent[j], dir[j], at[j] - 1)

Place(r) == CHOOSE i \in DOMAIN filed : filed[i] = r

(* A transfer may send the directory of another request than its own, the
   latest when its handler runs, but never one that was set before. *)
NeverOlderDirectory ==
    \A j \in Jobs : dir[j] # None => Place(dir[j]) >= Place(j[1])

(* The node itself is never brought down by the division: its size is set
   before any transfer starts.  Only a request without one does it. *)
SizeComesFirst ==
    halved # None => \E r \in Requests : Size[r] = 0 /\ get[r] \notin {"new", "telling"}

(* "via tcp send the file tracking first" (sdk-v2/api.go:218): a tracker that
   was reached with it has ToComplete set when a chunk comes.  Violated: the
   tracker answers the forwarded GET and leaves ToComplete to a goroutine,
   which the chunk may overtake. *)
TrackingFirst == \A t \in dead : informing[t] = {}

(* WriteMessage waits, with a.mu held, for a tracker to read. *)
Stalled ==
    \E j \in Jobs : mu = j /\ job[j] = "writing" /\ up[j] /\ Len(stream[j]) = Window


(* A POST that waits while the last entry of a transfer is written is
   answered, unless it leaves or the tracker never reads again: what was
   published reaches it whatever becomes of the connection. *)
TransferAnswered ==
    []<>~Stalled =>
        \A p \in Posts, j \in Jobs :
            ask[p] = "waiting" /\ job[j] = "writing" ~>
                ask[p] # "waiting" \/ job[j] = "failed" \/ Down

(* The process ends after Stop, although POSTs wait for a context that is
   cancelled only when nobody waits for them any more. *)
StopEnds == phase = "draining" ~> Down
============================================================================
