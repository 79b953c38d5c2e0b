----------------------------- MODULE ShareProofs -----------------------------
(* Theorems about a node that shares files. *)
EXTENDS Share, FiniteSetTheorems, TLAPS

(* What CheetahProofs proves of every hub. *)
HubProofs == INSTANCE CheetahProofs WITH
                Keys <- {IKEY}, Chans <- Posts, Publishers <- Jobs

USE ShareAssumption

(* The steps of a job, of the other nodes, and of the handler of a POST. *)
JobAction(j) ==
    \/ Connect(j) \/ DialError(j) \/ Lock(j) \/ SkipEntry(j)
    \/ WriteEntry(j) \/ WriteError(j) \/ WriteDone(j)
    \/ PublishGotInfo(j) \/ Deliver(j) \/ UpdatePeerStats(j)

PostAction(p) ==
    \/ Post(p) \/ Subscribe(p) \/ SubscribeSeed(p) \/ FileDone(p) \/ SeedTriggered(p)
    \/ ShuttingDown(p) \/ Gone(p) \/ LeaveSeed(p) \/ Leave(p)

GetAction(r) ==
    \/ Get(r) \/ Tell(r) \/ SetToComplete(r) \/ SetPeerFileData(r) \/ RunDownload(r)

(* What the node does beside: its end, and what is published on seed. *)
NodeAction ==
    \/ Stop \/ Cancel \/ Exit
    \/ GetSeed \/ \E n \in 1..MaxSeeds : BreakOffSeed(n)

(* The operations of the node and of the others, for the steps below. *)
LEMMA Steps ==
    ASSUME [Next]_vars
    PROVE  \/ \E r \in Requests : GetAction(r)
           \/ \E j \in Jobs : JobAction(j)
           \/ \E p \in Posts : PostAction(p)
           \/ NodeAction
           \/ \E j \in Jobs : Drop(j) \/ HandleChunk(j) \/ ChunkError(j)
           \/ \E t \in Trackers, r \in Requests : Inform(t, r)
           \/ UNCHANGED vars
BY Zenon DEF Next, Node, GetAction, JobAction, PostAction, NodeAction

(* A step of the node leaves the hub gotInfo alone, or is one of these. *)
LEMMA HubStep ==
    ASSUME [Next]_vars
    PROVE  \/ UNCHANGED hub
           \/ \E j \in Jobs : Hub!Publish(j, IKEY) \/ Hub!Send(j) \/ Hub!Panic(j)
           \/ \E p \in Posts : Hub!Subscribe(p, IKEY) \/ Hub!Receive(p) \/ Hub!Unsubscribe(p)
<1>1. ASSUME NEW r \in Requests, GetAction(r) PROVE UNCHANGED hub
    BY <1>1 DEF GetAction, Get, Tell, SetToComplete, SetPeerFileData, RunDownload
<1>2. ASSUME NEW j \in Jobs, JobAction(j)
      PROVE  UNCHANGED hub \/ Hub!Publish(j, IKEY) \/ Hub!Send(j) \/ Hub!Panic(j)
    BY <1>2 DEF JobAction, Connect, DialError, Lock, SkipEntry, WriteEntry, WriteError,
                WriteDone, PublishGotInfo, Deliver, UpdatePeerStats
<1>3. ASSUME NEW p \in Posts, PostAction(p)
      PROVE  \/ UNCHANGED hub
             \/ Hub!Subscribe(p, IKEY) \/ Hub!Receive(p) \/ Hub!Unsubscribe(p)
    BY <1>3 DEF PostAction, Post, Subscribe, SubscribeSeed, FileDone, SeedTriggered,
                ShuttingDown, Gone, LeaveSeed, Leave
<1>4. ASSUME NodeAction PROVE UNCHANGED hub
    BY <1>4 DEF NodeAction, Stop, Cancel, Exit, GetSeed, BreakOffSeed
<1>5. ASSUME NEW j \in Jobs, Drop(j) \/ HandleChunk(j) \/ ChunkError(j) PROVE UNCHANGED hub
    BY <1>5 DEF Drop, HandleChunk, ChunkError
<1>6. ASSUME NEW t \in Trackers, NEW r \in Requests, Inform(t, r) PROVE UNCHANGED hub
    BY <1>6 DEF Inform
<1>7. CASE UNCHANGED vars
    BY <1>7 DEF vars
<1> QED BY <1>1, <1>2, <1>3, <1>4, <1>5, <1>6, <1>7, Steps

(* The hub of the node and the one of HubProofs are the same. *)
LEMMA HubSame ==
    /\ \A c \in Posts, k \in {IKEY} :
          /\ Hub!Subscribe(c, k) <=> HubProofs!Subscribe(c, k)
          /\ Hub!Receive(c) <=> HubProofs!Receive(c)
          /\ Hub!Unsubscribe(c) <=> HubProofs!Unsubscribe(c)
    /\ \A j \in Jobs, k \in {IKEY} :
          /\ Hub!Publish(j, k) <=> HubProofs!Publish(j, k)
          /\ Hub!Send(j) <=> HubProofs!Send(j)
          /\ Hub!Panic(j) <=> HubProofs!Panic(j)
    /\ HubProofs!CheetahAssumption
<1>1. ASSUME NEW c \in Posts, NEW k \in {IKEY}
      PROVE  /\ Hub!Subscribe(c, k) <=> HubProofs!Subscribe(c, k)
             /\ Hub!Receive(c) <=> HubProofs!Receive(c)
             /\ Hub!Unsubscribe(c) <=> HubProofs!Unsubscribe(c)
    BY DEF Hub!Subscribe, HubProofs!Subscribe, Hub!Receive, HubProofs!Receive,
           Hub!Unsubscribe, HubProofs!Unsubscribe,
           Hub!Subscribed, HubProofs!Subscribed, Hub!history, HubProofs!history,
           Hub!NoParcel, HubProofs!NoParcel
<1>2. ASSUME NEW j \in Jobs, NEW k \in {IKEY}
      PROVE  /\ Hub!Publish(j, k) <=> HubProofs!Publish(j, k)
             /\ Hub!Send(j) <=> HubProofs!Send(j)
             /\ Hub!Panic(j) <=> HubProofs!Panic(j)
    BY DEF Hub!Publish, HubProofs!Publish, Hub!Send, HubProofs!Send, Hub!Panic, HubProofs!Panic,
           Hub!Advance, HubProofs!Advance, Hub!history, HubProofs!history,
           Hub!NoParcel, HubProofs!NoParcel
<1>3. HubProofs!CheetahAssumption
    <2>1. IsFiniteSet(Jobs)
        BY FS_Product DEF Jobs
    <2>2. MaxParcels \in Nat
        BY <2>1, FS_CardinalityType DEF MaxParcels
    <2> QED BY <2>2 DEF HubProofs!CheetahAssumption
<1> QED BY <1>1, <1>2, <1>3

(* So what holds of every hub holds of this one. *)
THEOREM GotInfoInvariance == Spec => []HubProofs!IInv
<1>1. Init => HubProofs!Init
    BY DEF Init, Hub!Init, HubProofs!Init, Hub!NoParcel, HubProofs!NoParcel,
           Hub!Parcels, HubProofs!Parcels
<1>2. [Next]_vars => [HubProofs!Next]_(HubProofs!vars)
    <2> SUFFICES ASSUME [Next]_vars PROVE [HubProofs!Next]_(HubProofs!vars)
        OBVIOUS
    <2>1. UNCHANGED hub => UNCHANGED HubProofs!vars
        BY DEF hub, HubProofs!vars, HubProofs!hub, HubProofs!history
    <2> QED BY <2>1, HubStep, HubSame DEF HubProofs!Next
<1>3. Spec => HubProofs!Spec
    BY <1>1, <1>2, PTL DEF Spec, HubProofs!Spec
<1> QED BY <1>3, HubSame, HubProofs!Invariance, PTL

----------------------------------------------------------------------------

OwnTypes ==
    /\ get \in [Requests -> {"new", "telling", "filing", "starting", "done"}]
    /\ untold \in [Requests -> Seq(Trackers)]
    /\ toComplete \in Nat
    /\ fileData \in Requests \cup {None}
    /\ filed \in Seq(Requests)
    /\ job \in [Jobs -> {"none", "dialing", "connected", "writing", "written",
                         "publishing", "done", "failed"}]
    /\ dir \in [Jobs -> Requests \cup {None}]
    /\ at \in [Jobs -> Nat \ {0}]
    /\ mu \in Jobs \cup {None}
    /\ sent \in [Jobs -> Seq(Messages)]
    /\ up \in [Jobs -> BOOLEAN]
    /\ ask \in [Posts -> {"none", "asked", "subscribed", "waiting", "leaving",
                         "left", "done"}]
    /\ answer \in [Posts -> {"none", "file done", "seed triggered",
                            "shutting down"}]
    /\ phase \in {"up", "draining", "cancelled", "exited"}
    /\ halved \in Jobs \cup {None}

TrackerTypes ==
    /\ stream \in [Jobs -> Seq(Messages)]
    /\ \A j \in Jobs : Len(stream[j]) <= Window
    /\ informing \in [Trackers -> SUBSET Requests]
    /\ total \in [Trackers -> Nat]
    /\ dead \in SUBSET Trackers

(* Each request is filed once, PeerFileData is of the last that was, and
   ToComplete is the size of a request that came so far. *)
Filing ==
    /\ \A r \in Requests :
          get[r] \in {"starting", "done"} <=> \E i \in DOMAIN filed : filed[i] = r
    /\ \A i, k \in DOMAIN filed : filed[i] = filed[k] => i = k
    /\ filed # <<>> => fileData = filed[Len(filed)]
    /\ \A r \in Requests : get[r] \notin {"new", "telling"} =>
          \E q \in Requests : get[q] \notin {"new", "telling"} /\ toComplete = Size[q]

(* A transfer starts when its request is through, from a directory that was
   filed no earlier, and has sent what there is of it so far. *)
Transfer(j) ==
    /\ job[j] # "none" => get[j[1]] = "done"
    /\ job[j] \in {"none", "dialing"} => dir[j] = None
    /\ job[j] \in {"connected", "writing", "written", "publishing", "done"} => dir[j] # None
    /\ dir[j] = None => sent[j] = <<>> /\ at[j] = 1
    /\ dir[j] # None =>
          /\ at[j] <= Len(Listing[dir[j]]) + 1
          /\ IsData(sent[j], dir[j], at[j] - 1)
          /\ \E i, k \in DOMAIN filed : k <= i /\ filed[i] = dir[j] /\ filed[k] = j[1]
    /\ job[j] \in {"written", "publishing", "done"} => at[j] = Len(Listing[dir[j]]) + 1

Transfers == \A j \in Jobs : Transfer(j)

(* What is published was sent; who is answered received what is published. *)
Answers ==
    /\ \A n \in 1..published : author[n] \in Jobs /\ job[author[n]] \in {"publishing", "done"}
    /\ \A p \in Posts : answer[p] = "file done" => got[p] # {}

NodeInv == OwnTypes /\ Filing /\ Transfers /\ Answers /\ SizeComesFirst

(* The listing of a directory is finite. *)
LEMMA Lengths ==
    \A d \in Requests : Len(Listing[d]) \in Nat /\ DOMAIN Listing[d] = 1..Len(Listing[d])
BY DEF ShareAssumption

(* A place that is not beyond k is in 1..k. *)
LEMMA Bounded ==
    ASSUME NEW n, NEW k, NEW m, m \in Nat, k \in 0..m, n \in 1..m, n <= k
    PROVE  n \in 1..k
OBVIOUS

(* One more and one less is none. *)
LEMMA OneBack == \A n \in Nat : (n + 1) - 1 = n
OBVIOUS

(* A message is a request and a place in the listing of its directory. *)
LEMMA Messaging ==
    \A m \in Messages : /\ m = <<m[1], m[2]>>
                        /\ m[1] \in Requests
                        /\ m[2] \in DOMAIN Listing[m[1]]
                        /\ m[2] \in Nat \ {0}
<1> SUFFICES ASSUME NEW m \in Messages
             PROVE  /\ m = <<m[1], m[2]>>
                    /\ m[1] \in Requests
                    /\ m[2] \in DOMAIN Listing[m[1]]
                    /\ m[2] \in Nat \ {0}
    OBVIOUS
<1>1. PICK r \in Requests : m \in {r} \X DOMAIN Listing[r]
    BY DEF Messages
<1>2. m = <<m[1], m[2]>> /\ m[1] = r /\ m[2] \in DOMAIN Listing[r]
    BY <1>1
<1>3. Listing[r] \in Seq(Nat)
    BY DEF ShareAssumption
<1>4. DOMAIN Listing[r] = 1..Len(Listing[r]) /\ Len(Listing[r]) \in Nat
    BY <1>3
<1>5. m[2] \in 1..Len(Listing[r])
    BY <1>2, <1>4
<1>6. m[2] \in Nat \ {0}
    BY <1>4, <1>5
<1> QED BY <1>2, <1>6

(* Each step keeps the types of the node. *)
LEMMA OwnTypesStep ==
    ASSUME OwnTypes, [Next]_vars
    PROVE  OwnTypes'
<1>1. ASSUME NEW r \in Requests, GetAction(r) PROVE OwnTypes'
    <2>1. CASE Get(r)
        <3>1. untold' \in [Requests -> Seq(Trackers)]
            <4>1. <<>> \in Seq(Trackers) /\ Tcps[r] \in Seq(Trackers)
                BY DEF ShareAssumption
            <4>2. untold \in [Requests -> Seq(Trackers)]
                BY DEF OwnTypes
            <4> QED BY <2>1, <4>1, <4>2 DEF Get
        <3> QED BY <2>1, <3>1 DEF OwnTypes, Get, send, node
    <2>2. CASE Tell(r)
        <3>1. untold[r] \in Seq(Trackers) /\ untold[r] # <<>>
            BY <2>2 DEF OwnTypes, Tell
        <3>2. Tail(untold[r]) \in Seq(Trackers)
            BY <3>1
        <3> QED BY <2>2, <3>2 DEF OwnTypes, Tell, send, node
    <2>3. CASE SetToComplete(r)
        BY <2>3 DEF OwnTypes, SetToComplete, send, node, ShareAssumption
    <2>4. CASE SetPeerFileData(r)
        <3>1. filed' \in Seq(Requests)
            <4>1. filed \in Seq(Requests) /\ filed' = Append(filed, r)
                BY <2>4 DEF OwnTypes, SetPeerFileData
            <4> QED BY <4>1
        <3>2. get' \in [Requests -> {"new", "telling", "filing", "starting", "done"}]
            BY <2>4 DEF OwnTypes, SetPeerFileData
        <3> QED BY <2>4, <3>1, <3>2 DEF OwnTypes, SetPeerFileData, send, node
    <2>5. CASE RunDownload(r)
        BY <2>5 DEF OwnTypes, RunDownload, node
    <2> QED BY <1>1, <2>1, <2>2, <2>3, <2>4, <2>5 DEF GetAction
<1>2. ASSUME NEW j \in Jobs, JobAction(j) PROVE OwnTypes'
    <2>1. CASE Connect(j)
        BY <2>1 DEF OwnTypes, Connect, track, node
    <2>2. CASE DialError(j)
        BY <2>2 DEF OwnTypes, DialError, track, node
    <2>3. CASE Lock(j)
        BY <2>3 DEF OwnTypes, Lock, track, node
    <2>4. CASE SkipEntry(j)
        <3>1. at[j] \in Nat \ {0}
            BY DEF OwnTypes
        <3>2. at[j] + 1 \in Nat \ {0}
            BY <3>1
        <3> QED BY <2>4, <3>2 DEF OwnTypes, SkipEntry, track, node
    <2>5. CASE WriteEntry(j)
        <3>1. sent[j] \in Seq(Messages) /\ <<dir[j], at[j]>> \in Messages
            BY <2>5 DEF OwnTypes, WriteEntry
        <3>2. Append(sent[j], <<dir[j], at[j]>>) \in Seq(Messages)
            BY <3>1
        <3>3. at[j] \in Nat \ {0}
            BY DEF OwnTypes
        <3>4. at[j] + 1 \in Nat \ {0}
            BY <3>3
        <3>5. sent' \in [Jobs -> Seq(Messages)]
            BY <2>5, <3>2 DEF OwnTypes, WriteEntry
        <3> QED BY <2>5, <3>4, <3>5 DEF OwnTypes, WriteEntry, track, node
    <2>6. CASE WriteError(j)
        BY <2>6 DEF OwnTypes, WriteError, track, node
    <2>7. CASE WriteDone(j)
        BY <2>7 DEF OwnTypes, WriteDone, track, node
    <2>8. CASE PublishGotInfo(j)
        BY <2>8 DEF OwnTypes, PublishGotInfo, track, node
    <2>9. CASE Deliver(j)
        BY <2>9 DEF OwnTypes, Deliver, track, send, node
    <2>10. CASE UpdatePeerStats(j)
        BY <2>10 DEF OwnTypes, UpdatePeerStats, track
    <2> QED BY <1>2, <2>1, <2>2, <2>3, <2>4, <2>5, <2>6, <2>7, <2>8, <2>9, <2>10 DEF JobAction
<1>3. ASSUME NEW p \in Posts, PostAction(p) PROVE OwnTypes'
    <2>1. UNCHANGED <<get, untold, toComplete, fileData, filed, job, dir, at, mu, sent, up>>
          /\ UNCHANGED <<phase, halved>>
        BY <1>3 DEF PostAction, Post, Subscribe, SubscribeSeed, FileDone, SeedTriggered,
                ShuttingDown, Gone, LeaveSeed, Leave, track, send
    <2>2. ask' \in [Posts -> {"none", "asked", "subscribed", "waiting", "leaving",
                         "left", "done"}]
        <3>1. \E s \in {"asked", "subscribed", "waiting", "leaving", "left", "done"} :
                  ask' = [ask EXCEPT ![p] = s]
            BY <1>3 DEF PostAction, Post, Subscribe, SubscribeSeed, FileDone, SeedTriggered,
                ShuttingDown, Gone, LeaveSeed, Leave
        <3> QED BY <3>1 DEF OwnTypes
    <2>3. answer' \in [Posts -> {"none", "file done", "seed triggered",
                            "shutting down"}]
        <3>1. \/ UNCHANGED answer
              \/ \E s \in {"file done", "seed triggered", "shutting down"} :
                    answer' = [answer EXCEPT ![p] = s]
            BY <1>3 DEF PostAction, Post, Subscribe, SubscribeSeed, FileDone, SeedTriggered,
                ShuttingDown, Gone, LeaveSeed, Leave
        <3> QED BY <3>1 DEF OwnTypes
    <2> QED BY <2>1, <2>2, <2>3 DEF OwnTypes
<1>4. CASE NodeAction
    <2>1. /\ UNCHANGED <<track, send, ask, answer, halved>>
          /\ phase' \in {phase, "draining", "cancelled", "exited"}
        BY <1>4 DEF NodeAction, Stop, Cancel, Exit, GetSeed, BreakOffSeed
    <2> QED BY <2>1 DEF OwnTypes, track, send
<1>5. ASSUME NEW j \in Jobs, Drop(j) \/ HandleChunk(j) \/ ChunkError(j) PROVE OwnTypes'
    <2>1. CASE Drop(j)
        BY <2>1 DEF OwnTypes, Drop, track, send, node
    <2>2. CASE HandleChunk(j)
        BY <2>2 DEF OwnTypes, HandleChunk, track, send, node
    <2>3. CASE ChunkError(j)
        BY <2>3 DEF OwnTypes, ChunkError, track, send, node
    <2> QED BY <1>5, <2>1, <2>2, <2>3
<1>6. ASSUME NEW t \in Trackers, NEW r \in Requests, Inform(t, r) PROVE OwnTypes'
    BY <1>6 DEF OwnTypes, Inform, track, send, node
<1>7. CASE UNCHANGED vars
    BY <1>7 DEF OwnTypes, vars, track, send, node
<1> QED BY <1>1, <1>2, <1>3, <1>4, <1>5, <1>6, <1>7, Steps

(* Each step keeps those of the trackers and of the streams to them. *)
LEMMA TrackerTypesStep ==
    ASSUME TrackerTypes, OwnTypes, [Next]_vars
    PROVE  TrackerTypes'
<1>1. ASSUME NEW r \in Requests, GetAction(r) PROVE TrackerTypes'
    <2>1. CASE Tell(r)
        <3>1. untold[r] \in Seq(Trackers) /\ untold[r] # <<>>
            BY <2>1 DEF OwnTypes, Tell
        <3>2. Head(untold[r]) \in Trackers
            BY <3>1
        <3>3. informing \in [Trackers -> SUBSET Requests]
            BY DEF TrackerTypes
        <3>4. informing[Head(untold[r])] \cup {r} \in SUBSET Requests
            BY <3>2, <3>3
        <3>5. informing' \in [Trackers -> SUBSET Requests]
            BY <2>1, <3>2, <3>3, <3>4, Zenon DEF Tell
        <3> QED BY <2>1, <3>5 DEF TrackerTypes, Tell
    <2> QED BY <1>1, <2>1 DEF GetAction, Get, SetToComplete, SetPeerFileData, RunDownload,
                              TrackerTypes, tracker
<1>2. ASSUME NEW j \in Jobs, JobAction(j) PROVE TrackerTypes'
    <2>1. CASE WriteEntry(j)
        <3>1. stream[j] \in Seq(Messages) /\ <<dir[j], at[j]>> \in Messages
              /\ Len(stream[j]) < Window /\ Window \in Nat
            BY <2>1 DEF TrackerTypes, WriteEntry, ShareAssumption
        <3>2. /\ Append(stream[j], <<dir[j], at[j]>>) \in Seq(Messages)
              /\ Len(Append(stream[j], <<dir[j], at[j]>>)) <= Window
            BY <3>1
        <3> QED BY <2>1, <3>2 DEF TrackerTypes, WriteEntry
    <2> QED BY <1>2, <2>1 DEF JobAction, Connect, DialError, Lock, SkipEntry, WriteError,
                WriteDone, PublishGotInfo, Deliver, UpdatePeerStats, TrackerTypes, tracker
<1>3. ASSUME NEW p \in Posts, PostAction(p) PROVE TrackerTypes'
    BY <1>3 DEF TrackerTypes, PostAction, Post, Subscribe, SubscribeSeed, FileDone, SeedTriggered,
                ShuttingDown, Gone, LeaveSeed, Leave, tracker
<1>4. CASE NodeAction
    BY <1>4 DEF TrackerTypes, NodeAction, Stop, Cancel, Exit, GetSeed, BreakOffSeed, tracker
<1>5. ASSUME NEW j \in Jobs, Drop(j) PROVE TrackerTypes'
    BY <1>5 DEF TrackerTypes, Drop, ShareAssumption
<1>6. ASSUME NEW j \in Jobs, HandleChunk(j) \/ ChunkError(j) PROVE TrackerTypes'
    <2>1. j[2] \in Trackers
        BY DEF Jobs
    <2>2. stream[j] \in Seq(Messages) /\ stream[j] # <<>> /\ Len(stream[j]) <= Window
        BY <1>6 DEF TrackerTypes, HandleChunk, ChunkError
    <2>3. Tail(stream[j]) \in Seq(Messages) /\ Len(Tail(stream[j])) <= Window
        BY <2>2 DEF ShareAssumption
    <2>4. stream' = [stream EXCEPT ![j] = Tail(@)]
        BY <1>6 DEF HandleChunk, ChunkError
    <2>5. stream' \in [Jobs -> Seq(Messages)] /\ \A i \in Jobs : Len(stream'[i]) <= Window
        BY <2>3, <2>4 DEF TrackerTypes
    <2>6. UNCHANGED <<informing, total>> /\ dead' \in SUBSET Trackers
        BY <1>6, <2>1 DEF TrackerTypes, HandleChunk, ChunkError
    <2> QED BY <2>5, <2>6 DEF TrackerTypes
<1>7. ASSUME NEW t \in Trackers, NEW r \in Requests, Inform(t, r) PROVE TrackerTypes'
    BY <1>7 DEF TrackerTypes, Inform, ShareAssumption
<1>8. CASE UNCHANGED vars
    BY <1>8 DEF TrackerTypes, vars, tracker
<1> QED BY <1>1, <1>2, <1>3, <1>4, <1>5, <1>6, <1>7, <1>8, Steps

----------------------------------------------------------------------------

(* Only the goroutine of a GET changes what Filing speaks of. *)
LEMMA OthersKeepFiles ==
    ASSUME [Next]_vars, ~\E r \in Requests : GetAction(r)
    PROVE  UNCHANGED <<get, toComplete, fileData, filed>>
<1>1. ASSUME NEW j \in Jobs, JobAction(j) PROVE UNCHANGED track
    BY <1>1 DEF JobAction, Connect, DialError, Lock, SkipEntry, WriteEntry, WriteError,
                WriteDone, PublishGotInfo, Deliver, UpdatePeerStats
<1>2. ASSUME NEW p \in Posts, PostAction(p) PROVE UNCHANGED track
    BY <1>2 DEF PostAction, Post, Subscribe, SubscribeSeed, FileDone, SeedTriggered,
                ShuttingDown, Gone, LeaveSeed, Leave
<1>3. ASSUME NodeAction PROVE UNCHANGED track
    BY <1>3 DEF NodeAction, Stop, Cancel, Exit, GetSeed, BreakOffSeed
<1>4. ASSUME NEW j \in Jobs, Drop(j) \/ HandleChunk(j) \/ ChunkError(j) PROVE UNCHANGED track
    BY <1>4 DEF Drop, HandleChunk, ChunkError
<1>5. ASSUME NEW t \in Trackers, NEW r \in Requests, Inform(t, r) PROVE UNCHANGED track
    BY <1>5 DEF Inform
<1>6. ASSUME UNCHANGED vars PROVE UNCHANGED track
    BY <1>6 DEF vars
<1>7. UNCHANGED track
    BY <1>1, <1>2, <1>3, <1>4, <1>5, <1>6, Steps
<1> QED BY <1>7 DEF track

(* Each step keeps what is known of the directories that were filed. *)
LEMMA FilingStep ==
    ASSUME OwnTypes, Filing, [Next]_vars
    PROVE  Filing'
<1>1. get \in [Requests -> {"new", "telling", "filing", "starting", "done"}]
    BY DEF OwnTypes
<1>2. ASSUME NEW r \in Requests, Get(r) PROVE Filing'
    <2>1. UNCHANGED <<toComplete, fileData, filed>> /\ get[r] = "new"
          /\ get' = [get EXCEPT ![r] = "telling"]
        BY <1>2 DEF Get
    <2> QED BY <1>1, <2>1 DEF Filing
<1>3. ASSUME NEW r \in Requests, Tell(r) PROVE Filing'
    <2>1. UNCHANGED <<get, toComplete, fileData, filed>>
        BY <1>3 DEF Tell
    <2> QED BY <2>1 DEF Filing
<1>4. ASSUME NEW r \in Requests, SetToComplete(r) PROVE Filing'
    <2>1. UNCHANGED <<fileData, filed>> /\ get[r] = "telling"
          /\ get' = [get EXCEPT ![r] = "filing"] /\ toComplete' = Size[r]
        BY <1>4 DEF SetToComplete
    <2>2. get'[r] \notin {"new", "telling"} /\ toComplete' = Size[r]
        BY <1>1, <2>1
    <2> QED BY <1>1, <2>1, <2>2 DEF Filing
<1>5. ASSUME NEW r \in Requests, SetPeerFileData(r) PROVE Filing'
    <2>1. filed \in Seq(Requests)
        BY DEF OwnTypes
    <2>2. PICK s \in {"starting", "done"} : get' = [get EXCEPT ![r] = s]
        BY <1>5 DEF SetPeerFileData
    <2>3. get[r] = "filing" /\ filed' = Append(filed, r) /\ fileData' = r
          /\ UNCHANGED toComplete
        BY <1>5 DEF SetPeerFileData
    <2>4. /\ DOMAIN filed' = 1..Len(filed) + 1
          /\ Len(filed') = Len(filed) + 1
          /\ Len(filed) \in Nat
          /\ filed'[Len(filed) + 1] = r
          /\ DOMAIN filed = 1..Len(filed)
          /\ \A i \in DOMAIN filed : filed'[i] = filed[i] /\ i \in DOMAIN filed'
        BY <2>1, <2>3, SMTT(30)
    <2>5. \A i \in DOMAIN filed : filed[i] # r
        BY <2>3 DEF Filing
    <2>6. \A i \in DOMAIN filed' : i \in DOMAIN filed \/ i = Len(filed) + 1
        BY <2>4
    <2>7. Len(filed) + 1 \in DOMAIN filed'
        BY <2>4
    <2>8. ASSUME NEW q \in Requests
          PROVE  get'[q] \in {"starting", "done"} <=> \E i \in DOMAIN filed' : filed'[i] = q
        <3>1. CASE q = r
            BY <1>1, <2>2, <2>4, <2>7, <3>1
        <3>2. CASE q # r
            <4>1. get'[q] = get[q]
                BY <1>1, <2>2, <3>2
            <4>2. (\E i \in DOMAIN filed' : filed'[i] = q) <=> (\E i \in DOMAIN filed : filed[i] = q)
                BY <2>4, <2>6, <3>2
            <4> QED BY <4>1, <4>2 DEF Filing
        <3> QED BY <3>1, <3>2
    <2>9. \A i, k \in DOMAIN filed' : filed'[i] = filed'[k] => i = k
        BY <2>4, <2>5, <2>6 DEF Filing
    <2>10. fileData' = filed'[Len(filed')]
        BY <2>3, <2>4
    <2>11. \A q \in Requests : get'[q] \notin {"new", "telling"} <=> get[q] \notin {"new", "telling"}
        BY <1>1, <2>2, <2>3
    <2> QED BY <2>3, <2>8, <2>9, <2>10, <2>11 DEF Filing
<1>6. ASSUME NEW r \in Requests, RunDownload(r) PROVE Filing'
    <2>1. UNCHANGED <<toComplete, fileData, filed>> /\ get[r] = "starting"
          /\ get' = [get EXCEPT ![r] = "done"]
        BY <1>6 DEF RunDownload
    <2> QED BY <1>1, <2>1, SMTT(30) DEF Filing
<1>7. ASSUME NEW r \in Requests, GetAction(r) PROVE Filing'
    BY <1>2, <1>3, <1>4, <1>5, <1>6, <1>7 DEF GetAction
<1>8. CASE ~\E r \in Requests : GetAction(r)
    <2>1. UNCHANGED <<get, toComplete, fileData, filed>>
        BY <1>8, OthersKeepFiles
    <2> QED BY <2>1 DEF Filing
<1> QED BY <1>7, <1>8

(* The division: a job is past the hub only when its request is through, and
   then ToComplete is the size of a request. *)
LEMMA SizeStep ==
    ASSUME OwnTypes, Filing, Transfers, SizeComesFirst, [Next]_vars
    PROVE  SizeComesFirst'
<1>1. ASSUME NEW q \in Requests, get[q] \notin {"new", "telling"}
      PROVE  get'[q] \notin {"new", "telling"}
    <2>1. get \in [Requests -> {"new", "telling", "filing", "starting", "done"}]
        BY DEF OwnTypes
    <2>2. ASSUME NEW r \in Requests, GetAction(r) PROVE get'[q] \notin {"new", "telling"}
        BY <1>1, <2>1, <2>2 DEF GetAction, Get, Tell, SetToComplete, SetPeerFileData, RunDownload
    <2> QED BY <1>1, <2>2, OthersKeepFiles
<1>2. CASE UNCHANGED halved
    BY <1>1, <1>2 DEF SizeComesFirst
<1>3. ASSUME NEW j \in Jobs, UpdatePeerStats(j) PROVE SizeComesFirst'
    <2>1. CASE toComplete # 0
        <3>1. UNCHANGED halved
            BY <1>3, <2>1 DEF UpdatePeerStats
        <3> QED BY <1>2, <3>1
    <2>2. CASE toComplete = 0
        <3>1. PICK r \in Requests : r = j[1]
            BY DEF Jobs
        <3>2. job[j] = "publishing"
            BY <1>3 DEF UpdatePeerStats
        <3>3. get[r] \notin {"new", "telling"}
            BY <3>1, <3>2 DEF Transfers, Transfer
        <3>4. PICK q \in Requests : get[q] \notin {"new", "telling"} /\ toComplete = Size[q]
            BY <3>3 DEF Filing
        <3> QED BY <1>1, <2>2, <3>4 DEF SizeComesFirst
    <2> QED BY <2>1, <2>2
<1>4. UNCHANGED halved \/ \E j \in Jobs : UpdatePeerStats(j)
    <2>1. ASSUME NEW r \in Requests, GetAction(r) PROVE UNCHANGED halved
        BY <2>1 DEF GetAction, Get, Tell, SetToComplete, SetPeerFileData, RunDownload, node
    <2>2. ASSUME NEW j \in Jobs, JobAction(j) PROVE UNCHANGED halved \/ UpdatePeerStats(j)
        BY <2>2 DEF JobAction, Connect, DialError, Lock, SkipEntry, WriteEntry, WriteError,
                    WriteDone, PublishGotInfo, Deliver, node
    <2>3. ASSUME NEW p \in Posts, PostAction(p) PROVE UNCHANGED halved
        BY <2>3 DEF PostAction, Post, Subscribe, SubscribeSeed, FileDone, SeedTriggered,
                ShuttingDown, Gone, LeaveSeed, Leave
    <2>4. ASSUME NodeAction PROVE UNCHANGED halved
        BY <2>4 DEF NodeAction, Stop, Cancel, Exit, GetSeed, BreakOffSeed
    <2>5. ASSUME NEW j \in Jobs, Drop(j) \/ HandleChunk(j) \/ ChunkError(j) PROVE UNCHANGED halved
        BY <2>5 DEF Drop, HandleChunk, ChunkError, node
    <2>6. ASSUME NEW t \in Trackers, NEW r \in Requests, Inform(t, r) PROVE UNCHANGED halved
        BY <2>6 DEF Inform, node
    <2>7. ASSUME UNCHANGED vars PROVE UNCHANGED halved
        BY <2>7 DEF vars, node
    <2> QED BY <2>1, <2>2, <2>3, <2>4, <2>5, <2>6, <2>7, Steps
<1> QED BY <1>2, <1>3, <1>4

----------------------------------------------------------------------------

(* What is sent of a directory, one entry further on. *)
LEMMA NothingIsData ==
    ASSUME NEW d PROVE IsData(<<>>, d, 0)
BY DEF IsData

(* An entry without data adds nothing to what was sent. *)
LEMMA SkipIsData ==
    ASSUME NEW q \in Seq(Messages), NEW d, NEW n \in Nat,
           IsData(q, d, n), ~HasData(<<d, n + 1>>)
    PROVE  IsData(q, d, n + 1)
<1>1. \A i \in DOMAIN q : q[i] \in {d} \X (1..n + 1) /\ HasData(q[i])
    BY DEF IsData
<1>2. \A i, k \in DOMAIN q : i < k => q[i][2] < q[k][2]
    BY DEF IsData
<1>3. \A e \in 1..n + 1 : e \in 1..n \/ e = n + 1
    OBVIOUS
<1>4. \A e \in 1..n + 1 : HasData(<<d, e>>) => \E i \in DOMAIN q : q[i] = <<d, e>>
    BY <1>3 DEF IsData
<1> QED BY <1>1, <1>2, <1>4 DEF IsData

(* One with data is appended to it. *)
LEMMA WriteIsData ==
    ASSUME NEW q \in Seq(Messages), NEW d, NEW n \in Nat,
           IsData(q, d, n), HasData(<<d, n + 1>>)
    PROVE  IsData(Append(q, <<d, n + 1>>), d, n + 1)
<1> DEFINE m == <<d, n + 1>>
           w == Append(q, m)
           l == Len(q)
<1>1. /\ l \in Nat
      /\ DOMAIN q = 1..l
      /\ DOMAIN w = 1..l + 1
      /\ w[l + 1] = m
      /\ \A i \in 1..l : w[i] = q[i]
    OBVIOUS
<1>2. m \in {d} \X (1..n + 1) /\ m[2] = n + 1 /\ HasData(m)
    OBVIOUS
<1>3. \A i \in 1..l : q[i] \in {d} \X (1..n) /\ HasData(q[i])
    BY <1>1 DEF IsData
<1>4. \A i \in 1..l : q[i] \in {d} \X (1..n + 1) /\ q[i][2] \in 1..n
    BY <1>3
<1>5. \A i, k \in 1..l : i < k => q[i][2] < q[k][2]
    BY <1>1 DEF IsData
<1>6. \A e \in 1..n : HasData(<<d, e>>) => \E i \in 1..l : q[i] = <<d, e>>
    BY <1>1 DEF IsData
<1>7. \A e \in 1..n + 1 : e \in 1..n \/ e = n + 1
    OBVIOUS
<1>8. \A i \in 1..l + 1 : i \in 1..l \/ i = l + 1
    BY <1>1
<1>9. l + 1 \in 1..l + 1 /\ \A i \in 1..l : i \in 1..l + 1
    BY <1>1
<1> HIDE DEF w, l
<1>10. \A i \in 1..l + 1 : w[i] \in {d} \X (1..n + 1) /\ HasData(w[i])
    <2> HIDE DEF m
    <2> QED BY <1>1, <1>2, <1>3, <1>4, <1>8
<1>11. \A i, k \in 1..l + 1 : i < k => w[i][2] < w[k][2]
    <2> SUFFICES ASSUME NEW i \in 1..l + 1, NEW k \in 1..l + 1, i < k
                 PROVE  w[i][2] < w[k][2]
        OBVIOUS
    <2>1. i \in 1..l
        BY <1>1
    <2>2. w[i] = q[i] /\ q[i][2] \in 1..n
        BY <1>1, <1>4, <2>1
    <2>3. CASE k \in 1..l
        BY <1>1, <1>5, <2>1, <2>2, <2>3
    <2>4. CASE k = l + 1
        <3>1. w[k][2] = n + 1
            BY <1>1, <1>2, <2>4
        <3> QED BY <2>2, <3>1
    <2> QED BY <1>8, <2>3, <2>4
<1>12. \A e \in 1..n + 1 : HasData(<<d, e>>) => \E i \in 1..l + 1 : w[i] = <<d, e>>
    BY <1>1, <1>6, <1>7, <1>9
<1> QED
    <2>1. IsData(w, d, n + 1)
        BY <1>1, <1>10, <1>11, <1>12 DEF IsData
    <2> QED BY <2>1 DEF w

(* What a GET has done, and what is filed, stays. *)
LEMMA FilesGrow ==
    ASSUME OwnTypes, [Next]_vars
    PROVE  /\ \A q \in Requests : get[q] = "done" => get'[q] = "done"
           /\ \A i \in DOMAIN filed : i \in DOMAIN filed' /\ filed'[i] = filed[i]
<1>1. get \in [Requests -> {"new", "telling", "filing", "starting", "done"}]
      /\ filed \in Seq(Requests)
    BY DEF OwnTypes
<1>2. ASSUME NEW r \in Requests, GetAction(r)
      PROVE  \A q \in Requests : get[q] = "done" => get'[q] = "done"
    BY <1>1, <1>2 DEF GetAction, Get, Tell, SetToComplete, SetPeerFileData, RunDownload
<1>3. ASSUME NEW r \in Requests, GetAction(r)
      PROVE  \A i \in DOMAIN filed : i \in DOMAIN filed' /\ filed'[i] = filed[i]
    <2>1. UNCHANGED filed \/ filed' = Append(filed, r)
        BY <1>3 DEF GetAction, Get, Tell, SetToComplete, SetPeerFileData, RunDownload
    <2>2. CASE UNCHANGED filed
        BY <2>2
    <2>3. CASE filed' = Append(filed, r)
        <3>1. DOMAIN filed = 1..Len(filed) /\ Len(filed) \in Nat
            BY <1>1
        <3>2. DOMAIN filed' = 1..Len(filed) + 1 /\ \A i \in 1..Len(filed) : filed'[i] = filed[i]
            BY <1>1, <2>3
        <3> QED BY <3>1, <3>2
    <2> QED BY <2>1, <2>2, <2>3
<1> QED BY <1>2, <1>3, OthersKeepFiles

(* A job that a step leaves alone is as it was, whatever is filed. *)
LEMMA TransferSame ==
    ASSUME OwnTypes, [Next]_vars, NEW j \in Jobs, Transfer(j),
           job'[j] = job[j], dir'[j] = dir[j], sent'[j] = sent[j], at'[j] = at[j]
    PROVE  Transfer(j)'
<1>1. PICK r \in Requests : r = j[1]
    BY DEF Jobs
<1>2. job'[j] # "none" => get'[j[1]] = "done"
    BY <1>1, FilesGrow DEF Transfer
<1>3. dir'[j] # None => \E i, k \in DOMAIN filed' : k <= i /\ filed'[i] = dir'[j] /\ filed'[k] = j[1]
    <2> SUFFICES ASSUME dir'[j] # None
                 PROVE  \E i, k \in DOMAIN filed' : k <= i /\ filed'[i] = dir'[j] /\ filed'[k] = j[1]
        OBVIOUS
    <2>1. PICK i, k \in DOMAIN filed : k <= i /\ filed[i] = dir[j] /\ filed[k] = j[1]
        BY DEF Transfer
    <2> QED BY <2>1, FilesGrow
<1>4. dir'[j] # None =>
          /\ at'[j] <= Len(Listing[dir'[j]]) + 1
          /\ IsData(sent'[j], dir'[j], at'[j] - 1)
    BY DEF Transfer
<1>5. IsData(sent[j], dir[j], at[j] - 1)' <=> IsData(sent'[j], dir'[j], at'[j] - 1)
    BY DEF IsData, HasData
<1> QED BY <1>2, <1>3, <1>4, <1>5 DEF Transfer

(* A step of one job leaves the others' alone. *)
LEMMA OtherTransfers ==
    ASSUME OwnTypes, NEW j \in Jobs, JobAction(j), NEW i \in Jobs, i # j
    PROVE  job'[i] = job[i] /\ dir'[i] = dir[i] /\ sent'[i] = sent[i] /\ at'[i] = at[i]
<1>1. /\ job \in [Jobs -> {"none", "dialing", "connected", "writing", "written",
                           "publishing", "done", "failed"}]
      /\ dir \in [Jobs -> Requests \cup {None}]
      /\ at \in [Jobs -> Nat \ {0}]
      /\ sent \in [Jobs -> Seq(Messages)]
    BY DEF OwnTypes
<1> QED BY <1>1 DEF JobAction, Connect, DialError, Lock, SkipEntry, WriteEntry, WriteError,
                    WriteDone, PublishGotInfo, Deliver, UpdatePeerStats, send

(* A step of a job keeps its transfer in the order of its listing. *)
LEMMA TransferStep ==
    ASSUME OwnTypes, Filing, NEW j \in Jobs, Transfer(j), [Next]_vars, JobAction(j)
    PROVE  Transfer(j)'
<1>1. /\ job[j] \in {"none", "dialing", "connected", "writing", "written",
                     "publishing", "done", "failed"}
      /\ dir[j] \in Requests \cup {None}
      /\ at[j] \in Nat \ {0}
      /\ sent[j] \in Seq(Messages)
      /\ filed \in Seq(Requests)
    BY DEF OwnTypes
<1>2. DOMAIN job = Jobs /\ DOMAIN dir = Jobs /\ DOMAIN at = Jobs /\ DOMAIN sent = Jobs
    BY DEF OwnTypes
<1>3. UNCHANGED <<get, filed>>
    BY DEF JobAction, Connect, DialError, Lock, SkipEntry, WriteEntry, WriteError,
           WriteDone, PublishGotInfo, Deliver, UpdatePeerStats, track
<1>4. \A d \in Requests : Len(Listing[d]) \in Nat /\ DOMAIN Listing[d] = 1..Len(Listing[d])
    BY Lengths
<1>5. ASSUME job[j] \in {"connected", "writing", "written", "publishing", "done"}
      PROVE  /\ dir[j] \in Requests
             /\ get[j[1]] = "done"
             /\ at[j] <= Len(Listing[dir[j]]) + 1
             /\ IsData(sent[j], dir[j], at[j] - 1)
             /\ \E i, k \in DOMAIN filed : k <= i /\ filed[i] = dir[j] /\ filed[k] = j[1]
    BY <1>1, <1>5 DEF Transfer
<1>6. CASE Connect(j)
    <2>1. /\ job[j] = "dialing" /\ job'[j] = "connected"
          /\ dir'[j] = fileData /\ UNCHANGED <<at, sent>>
        BY <1>2, <1>6 DEF Connect
    <2>2. get[j[1]] = "done" /\ sent[j] = <<>> /\ at[j] = 1
        BY <2>1 DEF Transfer
    <2>3. PICK r \in Requests : r = j[1]
        BY DEF Jobs
    <2>4. PICK k \in DOMAIN filed : filed[k] = r
        BY <2>2, <2>3 DEF Filing
    <2>5. Len(filed) \in DOMAIN filed /\ k <= Len(filed) /\ filed # <<>>
        BY <1>1, <2>4, SMTT(30)
    <2>6. fileData = filed[Len(filed)] /\ fileData \in Requests
        BY <1>1, <2>5 DEF Filing
    <2>7. fileData # None
        BY <2>6 DEF ShareAssumption
    <2>8. IsData(sent'[j], dir'[j], at'[j] - 1)
        BY <2>1, <2>2, NothingIsData
    <2>9. at'[j] <= Len(Listing[dir'[j]]) + 1
        BY <1>4, <2>1, <2>2, <2>6
    <2>10. \E i, l \in DOMAIN filed' : l <= i /\ filed'[i] = dir'[j] /\ filed'[l] = j[1]
        BY <1>3, <2>1, <2>3, <2>4, <2>5, <2>6
    <2> QED BY <1>3, <2>1, <2>2, <2>7, <2>8, <2>9, <2>10 DEF Transfer
<1>7. CASE DialError(j)
    <2>1. job[j] = "dialing" /\ job'[j] = "failed" /\ UNCHANGED <<dir, at, sent>>
        BY <1>2, <1>7 DEF DialError
    <2> QED BY <1>3, <2>1 DEF Transfer, IsData, HasData
<1>8. CASE Lock(j)
    <2>1. job[j] = "connected" /\ job'[j] = "writing" /\ UNCHANGED <<dir, at, sent>>
        BY <1>2, <1>8 DEF Lock
    <2> QED BY <1>3, <2>1 DEF Transfer, IsData, HasData
<1>9. CASE SkipEntry(j)
    <2>1. /\ job[j] = "writing" /\ at[j] \in DOMAIN Listing[dir[j]]
          /\ Listing[dir[j]][at[j]] = 0
          /\ at'[j] = at[j] + 1 /\ UNCHANGED <<job, dir, sent>>
        BY <1>2, <1>9 DEF SkipEntry
    <2>2. ~HasData(<<dir[j], at[j]>>)
        BY <2>1 DEF HasData
    <2>3. PICK n \in Nat : at[j] = n + 1
        <3>1. at[j] - 1 \in Nat /\ at[j] = (at[j] - 1) + 1
            BY <1>1
        <3> QED BY <3>1
    <2>4. at[j] - 1 = n /\ at'[j] - 1 = n + 1
        BY <2>1, <2>3
    <2>5. IsData(sent[j], dir[j], n)
        BY <1>5, <2>1, <2>4
    <2>6. IsData(sent'[j], dir'[j], at'[j] - 1)
        BY <1>1, <2>1, <2>2, <2>3, <2>4, <2>5, SkipIsData
    <2>7. at'[j] <= Len(Listing[dir'[j]]) + 1
        BY <1>4, <1>5, <2>1
    <2> QED BY <1>1, <1>3, <1>5, <2>1, <2>6, <2>7 DEF Transfer, ShareAssumption
<1>10. CASE WriteEntry(j)
    <2>1. /\ job[j] = "writing" /\ <<dir[j], at[j]>> \in Messages
          /\ Listing[dir[j]][at[j]] > 0
          /\ sent'[j] = Append(sent[j], <<dir[j], at[j]>>)
          /\ at'[j] = at[j] + 1 /\ UNCHANGED <<job, dir>>
        BY <1>2, <1>10 DEF WriteEntry
    <2>2. HasData(<<dir[j], at[j]>>)
        BY <2>1 DEF HasData
    <2>3. PICK n \in Nat : at[j] = n + 1
        <3>1. at[j] - 1 \in Nat /\ at[j] = (at[j] - 1) + 1
            BY <1>1
        <3> QED BY <3>1
    <2>4. at[j] - 1 = n /\ at'[j] - 1 = n + 1
        BY <2>1, <2>3
    <2>5. IsData(sent[j], dir[j], n)
        BY <1>5, <2>1, <2>4
    <2>6. IsData(Append(sent[j], <<dir[j], n + 1>>), dir[j], n + 1)
        BY <1>1, <2>2, <2>3, <2>5, WriteIsData
    <2>7. IsData(sent'[j], dir'[j], at'[j] - 1)
        BY <2>1, <2>3, <2>4, <2>6
    <2>8. at[j] \in DOMAIN Listing[dir[j]]
        <3>1. PICK m \in Messages : m = <<dir[j], at[j]>>
            BY <2>1
        <3> QED BY <3>1, Messaging
    <2>9. at'[j] <= Len(Listing[dir'[j]]) + 1
        BY <1>4, <1>5, <2>1, <2>8
    <2> QED BY <1>1, <1>3, <1>5, <2>1, <2>7, <2>9 DEF Transfer, ShareAssumption
<1>11. CASE WriteError(j)
    <2>1. job[j] = "writing" /\ job'[j] = "failed" /\ UNCHANGED <<dir, at, sent>>
        BY <1>2, <1>11 DEF WriteError
    <2> QED BY <1>3, <2>1 DEF Transfer, IsData, HasData
<1>12. CASE WriteDone(j)
    <2>1. /\ job[j] = "writing" /\ at[j] > Len(Listing[dir[j]])
          /\ job'[j] = "written" /\ UNCHANGED <<dir, at, sent>>
        BY <1>2, <1>12 DEF WriteDone
    <2>2. at[j] = Len(Listing[dir[j]]) + 1
        <3>1. PICK l \in Nat : l = Len(Listing[dir[j]])
            BY <1>4, <1>5, <2>1
        <3>2. at[j] > l /\ at[j] <= l + 1 /\ at[j] \in Nat
            BY <1>1, <1>5, <2>1, <3>1
        <3> QED BY <3>1, <3>2
    <2> QED BY <1>3, <2>1, <2>2 DEF Transfer, IsData, HasData
<1>13. CASE PublishGotInfo(j)
    <2>1. job[j] = "written" /\ job'[j] = "publishing" /\ UNCHANGED <<dir, at, sent>>
        BY <1>2, <1>13 DEF PublishGotInfo
    <2> QED BY <1>3, <2>1 DEF Transfer, IsData, HasData
<1>14. CASE Deliver(j)
    <2>1. UNCHANGED <<job, dir, at, sent>>
        BY <1>14 DEF Deliver, send
    <2> QED BY <2>1, TransferSame
<1>15. CASE UpdatePeerStats(j)
    <2>1. job[j] = "publishing" /\ job'[j] = "done" /\ UNCHANGED <<dir, at, sent>>
        BY <1>2, <1>15 DEF UpdatePeerStats
    <2> QED BY <1>3, <2>1 DEF Transfer, IsData, HasData
<1> QED BY <1>6, <1>7, <1>8, <1>9, <1>10, <1>11, <1>12, <1>13, <1>14, <1>15 DEF JobAction

(* Each step keeps every transfer. *)
LEMMA TransfersStep ==
    ASSUME OwnTypes, Filing, Transfers, [Next]_vars
    PROVE  Transfers'
<1> SUFFICES ASSUME NEW j \in Jobs PROVE Transfer(j)'
    BY DEF Transfers
<1>1. Transfer(j)
    BY DEF Transfers
<1>2. ASSUME UNCHANGED <<job, dir, at, sent>> PROVE Transfer(j)'
    BY <1>1, <1>2, TransferSame
<1>3. ASSUME NEW r \in Requests, GetAction(r) PROVE Transfer(j)'
    <2>1. CASE RunDownload(r)
        <3>1. UNCHANGED <<dir, at, sent>> /\ get[r] = "starting" /\ get'[r] = "done"
            BY <2>1 DEF RunDownload, OwnTypes
        <3>2. job'[j] = IF j[1] = r /\ j[2] \in Urls[fileData] THEN "dialing" ELSE job[j]
            BY <2>1 DEF RunDownload
        <3>3. CASE job'[j] = job[j]
            BY <1>1, <3>1, <3>3, TransferSame
        <3>4. CASE j[1] = r /\ job'[j] = "dialing"
            <4>1. job[j] = "none"
                BY <1>1, <3>1, <3>4 DEF Transfer
            <4>2. dir'[j] = None /\ sent'[j] = <<>> /\ at'[j] = 1
                BY <1>1, <3>1, <4>1 DEF Transfer
            <4> QED BY <3>1, <3>4, <4>2 DEF Transfer
        <3> QED BY <3>2, <3>3, <3>4
    <2>2. CASE ~RunDownload(r)
        <3>1. UNCHANGED <<job, dir, at, sent>>
            BY <1>3, <2>2 DEF GetAction, Get, Tell, SetToComplete, SetPeerFileData, send
        <3> QED BY <1>2, <3>1
    <2> QED BY <2>1, <2>2
<1>4. ASSUME NEW i \in Jobs, JobAction(i) PROVE Transfer(j)'
    <2>1. CASE i = j
        BY <1>1, <1>4, <2>1, TransferStep
    <2>2. CASE i # j
        <3>1. job'[j] = job[j] /\ dir'[j] = dir[j] /\ sent'[j] = sent[j] /\ at'[j] = at[j]
            BY <1>4, <2>2, OtherTransfers
        <3> QED BY <1>1, <3>1, TransferSame
    <2> QED BY <2>1, <2>2
<1>5. ASSUME NEW p \in Posts, PostAction(p) PROVE Transfer(j)'
    BY <1>2, <1>5 DEF PostAction, Post, Subscribe, SubscribeSeed, FileDone, SeedTriggered,
                ShuttingDown, Gone, LeaveSeed, Leave, send
<1>6. ASSUME NodeAction PROVE Transfer(j)'
    BY <1>2, <1>6 DEF NodeAction, Stop, Cancel, Exit, GetSeed, BreakOffSeed, send
<1>7. ASSUME NEW i \in Jobs, Drop(i) \/ HandleChunk(i) \/ ChunkError(i) PROVE Transfer(j)'
    BY <1>2, <1>7 DEF Drop, HandleChunk, ChunkError, send
<1>8. ASSUME NEW t \in Trackers, NEW r \in Requests, Inform(t, r) PROVE Transfer(j)'
    BY <1>2, <1>8 DEF Inform, send
<1>9. CASE UNCHANGED vars
    BY <1>2, <1>9 DEF vars, send
<1> QED BY <1>3, <1>4, <1>5, <1>6, <1>7, <1>8, <1>9, Steps

----------------------------------------------------------------------------

(* What the proofs about the answers need of the hub. *)
HubFacts ==
    /\ HubProofs!TypeOK
    /\ HubProofs!Numbers

(* What is used of the invariant of the hub. *)
LEMMA HubKnown ==
    ASSUME HubProofs!IInv PROVE HubFacts
BY DEF HubProofs!IInv, HubProofs!Shape, HubFacts

(* Who has published keeps its result. *)
LEMMA PublishersKeep ==
    ASSUME OwnTypes, Transfers, [Next]_vars, NEW j \in Jobs, job[j] \in {"publishing", "done"}
    PROVE  job'[j] \in {"publishing", "done"}
<1>1. job \in [Jobs -> {"none", "dialing", "connected", "writing", "written",
                       "publishing", "done", "failed"}]
    BY DEF OwnTypes
<1>2. ASSUME NEW r \in Requests, GetAction(r) PROVE job'[j] \in {"publishing", "done"}
    <2>1. CASE RunDownload(r)
        <3>1. j[1] # r
            BY <2>1 DEF RunDownload, Transfers, Transfer
        <3> QED BY <2>1, <3>1 DEF RunDownload
    <2>2. CASE ~RunDownload(r)
        BY <1>2, <2>2 DEF GetAction, Get, Tell, SetToComplete, SetPeerFileData, send
    <2> QED BY <2>1, <2>2
<1>3. ASSUME NEW i \in Jobs, JobAction(i) PROVE job'[j] \in {"publishing", "done"}
    BY <1>1, <1>3 DEF JobAction, Connect, DialError, Lock, SkipEntry, WriteEntry, WriteError,
                WriteDone, PublishGotInfo, Deliver, UpdatePeerStats, send
<1>4. ASSUME NEW p \in Posts, PostAction(p) PROVE UNCHANGED job
    BY <1>4 DEF PostAction, Post, Subscribe, SubscribeSeed, FileDone, SeedTriggered,
                ShuttingDown, Gone, LeaveSeed, Leave, send
<1>5. ASSUME NodeAction PROVE UNCHANGED job
    BY <1>5 DEF NodeAction, Stop, Cancel, Exit, GetSeed, BreakOffSeed, send
<1>6. ASSUME NEW i \in Jobs, Drop(i) \/ HandleChunk(i) \/ ChunkError(i) PROVE UNCHANGED job
    BY <1>6 DEF Drop, HandleChunk, ChunkError, send
<1>7. ASSUME NEW t \in Trackers, NEW r \in Requests, Inform(t, r) PROVE UNCHANGED job
    BY <1>7 DEF Inform, send
<1>8. ASSUME UNCHANGED vars PROVE UNCHANGED job
    BY <1>8 DEF vars, send
<1> QED BY <1>2, <1>3, <1>4, <1>5, <1>6, <1>7, <1>8, Steps

(* What the node's steps do to the list of what was published. *)
LEMMA AuthorStep ==
    ASSUME HubFacts, [Next]_vars
    PROVE  \/ UNCHANGED <<published, author>>
           \/ \E j \in Jobs : /\ PublishGotInfo(j)
                              /\ published \in Nat
                              /\ published' = published + 1
                              /\ author'[published + 1] = j
                              /\ \A n \in 1..published : author'[n] = author[n]
<1>1. ASSUME NEW r \in Requests, GetAction(r) PROVE UNCHANGED <<published, author>>
    BY <1>1 DEF GetAction, Get, Tell, SetToComplete, SetPeerFileData, RunDownload, hub
<1>2. ASSUME NEW j \in Jobs, JobAction(j), ~PublishGotInfo(j) PROVE UNCHANGED <<published, author>>
    BY <1>2 DEF JobAction, Connect, DialError, Lock, SkipEntry, WriteEntry, WriteError,
                WriteDone, Deliver, UpdatePeerStats, hub, Hub!Send, Hub!Panic, Hub!history
<1>3. ASSUME NEW j \in Jobs, PublishGotInfo(j)
      PROVE  /\ published \in Nat
             /\ published' = published + 1
             /\ author'[published + 1] = j
             /\ \A n \in 1..published : author'[n] = author[n]
    <2>1. HubProofs!Publish(j, IKEY) /\ HubProofs!TypeOK /\ HubProofs!CheetahAssumption
        BY <1>3, HubSame DEF PublishGotInfo, HubFacts
    <2>2. /\ published \in Nat
          /\ published' = published + 1
          /\ published + 1 \in HubProofs!Parcels
          /\ \A n \in 1..published : author'[n] = author[n]
        BY <2>1, HubProofs!PublishEffect
    <2>3. author' = [author EXCEPT ![published + 1] = j]
        BY <2>1 DEF HubProofs!Publish
    <2>4. author \in [HubProofs!Parcels -> Jobs \cup {None}]
        BY <2>1 DEF HubProofs!TypeOK
    <2> QED BY <2>2, <2>3, <2>4
<1>4. ASSUME NEW p \in Posts, PostAction(p) PROVE UNCHANGED <<published, author>>
    BY <1>4 DEF PostAction, Post, Subscribe, SubscribeSeed, FileDone, SeedTriggered,
                ShuttingDown, Gone, LeaveSeed, Leave, hub,
                Hub!Subscribe, Hub!Receive, Hub!Unsubscribe, Hub!history
<1>5. ASSUME NodeAction PROVE UNCHANGED <<published, author>>
    BY <1>5 DEF NodeAction, Stop, Cancel, Exit, GetSeed, BreakOffSeed, hub
<1>6. ASSUME NEW j \in Jobs, Drop(j) \/ HandleChunk(j) \/ ChunkError(j)
      PROVE  UNCHANGED <<published, author>>
    BY <1>6 DEF Drop, HandleChunk, ChunkError, hub
<1>7. ASSUME NEW t \in Trackers, NEW r \in Requests, Inform(t, r)
      PROVE  UNCHANGED <<published, author>>
    BY <1>7 DEF Inform, hub
<1>8. ASSUME UNCHANGED vars PROVE UNCHANGED <<published, author>>
    BY <1>8 DEF vars, hub
<1> QED BY <1>1, <1>2, <1>3, <1>4, <1>5, <1>6, <1>7, <1>8, Steps

(* What a POST received it keeps. *)
LEMMA GotStep ==
    ASSUME HubFacts, [Next]_vars, NEW p \in Posts
    PROVE  got[p] # {} => got'[p] # {}
<1>1. got \in [Posts -> SUBSET HubProofs!Parcels]
    BY DEF HubFacts, HubProofs!TypeOK
<1>2. ASSUME NEW j \in Jobs, Hub!Publish(j, IKEY) \/ Hub!Send(j) \/ Hub!Panic(j)
      PROVE  UNCHANGED got
    BY <1>2 DEF Hub!Publish, Hub!Send, Hub!Panic, Hub!history
<1>3. ASSUME NEW c \in Posts, Hub!Subscribe(c, IKEY) \/ Hub!Unsubscribe(c)
      PROVE  UNCHANGED got
    BY <1>3 DEF Hub!Subscribe, Hub!Unsubscribe, Hub!history
<1>4. ASSUME NEW c \in Posts, Hub!Receive(c)
      PROVE  got[p] # {} => got'[p] # {}
    BY <1>1, <1>4 DEF Hub!Receive
<1>5. ASSUME UNCHANGED hub PROVE UNCHANGED got
    BY <1>5 DEF hub
<1> QED BY <1>2, <1>3, <1>4, <1>5, HubStep

(* Each step keeps what is known of answers and of what is published. *)
LEMMA AnswersStep ==
    ASSUME OwnTypes, HubFacts, Transfers, Answers, [Next]_vars
    PROVE  Answers'
<1>1. ASSUME NEW n \in 1..published'
      PROVE  author'[n] \in Jobs /\ job'[author'[n]] \in {"publishing", "done"}
    <2>1. CASE UNCHANGED <<published, author>>
        BY <1>1, <2>1, PublishersKeep DEF Answers
    <2>2. ASSUME NEW j \in Jobs, PublishGotInfo(j), published \in Nat,
                 published' = published + 1, author'[published + 1] = j,
                 \A i \in 1..published : author'[i] = author[i]
          PROVE  author'[n] \in Jobs /\ job'[author'[n]] \in {"publishing", "done"}
        <3>1. CASE n \in 1..published
            BY <2>2, <3>1, PublishersKeep DEF Answers
        <3>2. CASE n = published + 1
            BY <2>2, <3>2 DEF PublishGotInfo, OwnTypes
        <3> QED BY <2>2, <3>1, <3>2
    <2> QED BY <2>1, <2>2, AuthorStep
<1>2. ASSUME NEW p \in Posts, answer'[p] = "file done"
      PROVE  got'[p] # {}
    <2>1. CASE answer'[p] = answer[p]
        BY <1>2, <2>1, GotStep DEF Answers
    <2>2. CASE answer'[p] # answer[p]
        <3>1. DOMAIN answer = Posts
            BY DEF OwnTypes
        <3>2. ~UNCHANGED answer
            BY <2>2
        <3>3. PICK c \in Posts : PostAction(c)
            <4>1. ASSUME NEW r \in Requests, GetAction(r) PROVE FALSE
                BY <3>2, <4>1 DEF GetAction, Get, Tell, SetToComplete, SetPeerFileData,
                                 RunDownload, node
            <4>2. ASSUME NEW j \in Jobs, JobAction(j) PROVE FALSE
                BY <3>2, <4>2 DEF JobAction, Connect, DialError, Lock, SkipEntry, WriteEntry,
                                 WriteError, WriteDone, PublishGotInfo, Deliver,
                                 UpdatePeerStats, node
            <4>3. ASSUME NodeAction PROVE FALSE
                BY <3>2, <4>3 DEF NodeAction, Stop, Cancel, Exit, GetSeed, BreakOffSeed
            <4>4. ASSUME NEW j \in Jobs, Drop(j) \/ HandleChunk(j) \/ ChunkError(j) PROVE FALSE
                BY <3>2, <4>4 DEF Drop, HandleChunk, ChunkError, node
            <4>5. ASSUME NEW t \in Trackers, NEW r \in Requests, Inform(t, r) PROVE FALSE
                BY <3>2, <4>5 DEF Inform, node
            <4>6. ASSUME UNCHANGED vars PROVE FALSE
                BY <3>2, <4>6 DEF vars, node
            <4> QED BY <4>1, <4>2, <4>3, <4>4, <4>5, <4>6, Steps
        <3>4. FileDone(c) /\ c = p
            BY <1>2, <2>2, <3>1, <3>3 DEF PostAction, Post, Subscribe, SubscribeSeed, FileDone, SeedTriggered,
                ShuttingDown, Gone, LeaveSeed, Leave
        <3>5. Hub!Receive(p)
            BY <3>4 DEF FileDone
        <3>6. p \in DOMAIN got
            BY DEF HubFacts, HubProofs!TypeOK
        <3> QED BY <3>5, <3>6 DEF Hub!Receive
    <2> QED BY <2>1, <2>2
<1> QED BY <1>1, <1>2 DEF Answers

----------------------------------------------------------------------------

(* The invariant: the types, what is filed, how far each transfer is, what the
   answers stand for. *)
THEOREM NodeInvariance == Spec => [](NodeInv /\ HubProofs!IInv)
<1>1. Init => NodeInv
    <2> SUFFICES ASSUME Init PROVE NodeInv
        OBVIOUS
    <2>1. OwnTypes
        BY DEF Init, OwnTypes
    <2>2. Filing
        BY DEF Init, Filing
    <2>3. Transfers
        BY DEF Init, Transfers, Transfer
    <2>4. Answers
        BY DEF Init, Hub!Init, Answers
    <2>5. SizeComesFirst
        BY DEF Init, SizeComesFirst
    <2> QED BY <2>1, <2>2, <2>3, <2>4, <2>5 DEF NodeInv
<1>2. NodeInv /\ HubProofs!IInv /\ [Next]_vars => NodeInv'
    BY OwnTypesStep, FilingStep, TransfersStep, AnswersStep, SizeStep, HubKnown DEF NodeInv
<1> QED BY <1>1, <1>2, GotInfoInvariance, PTL DEF Spec

(* Every variable of the node keeps its type: no index leaves a listing, no
   stream takes more than its window. *)
THEOREM ShareTypeCorrect == Spec => []TypeOK
<1>1. Init => TrackerTypes
    <2>1. Init => stream = [j \in Jobs |-> <<>>] /\ Window \in Nat
        BY DEF Init, ShareAssumption
    <2> QED BY <2>1 DEF Init, TrackerTypes
<1>2. NodeInv /\ TrackerTypes /\ [Next]_vars => TrackerTypes'
    BY TrackerTypesStep DEF NodeInv
<1>3. Spec => []TrackerTypes
    BY <1>1, <1>2, NodeInvariance, PTL DEF Spec
<1>4. NodeInv /\ TrackerTypes /\ HubProofs!IInv => TypeOK
    <2> SUFFICES ASSUME NodeInv, TrackerTypes, HubProofs!IInv PROVE TypeOK
        OBVIOUS
    <2>1. Hub!TypeOK
        BY HubKnown DEF HubFacts, Hub!TypeOK, HubProofs!TypeOK, Hub!NoParcel,
                        HubProofs!NoParcel, Hub!Parcels, HubProofs!Parcels
    <2> QED BY <2>1 DEF NodeInv, OwnTypes, TrackerTypes, TypeOK
<1> QED BY <1>3, <1>4, NodeInvariance, PTL

(* Whatever POST is answered "file done", every entry with data of a directory
   went to some tracker, in order. *)
THEOREM DoneMeansSentAlways == Spec => []DoneMeansSent
<1>1. NodeInv /\ HubProofs!IInv => DoneMeansSent
    <2> SUFFICES ASSUME NodeInv, HubProofs!IInv, NEW p \in Posts, answer[p] = "file done"
                 PROVE  \E n \in got[p] :
                            IsData(sent[author[n]], dir[author[n]],
                                   Len(Listing[dir[author[n]]]))
        BY DEF DoneMeansSent
    <2>1. HubFacts
        BY HubKnown
    <2>2. PICK n \in got[p] : TRUE
        <3>1. got[p] # {}
            BY DEF NodeInv, Answers
        <3> QED BY <3>1
    <2>3. n \in 1..published
        <3>1. got \in [Posts -> SUBSET HubProofs!Parcels] /\ published \in 0..MaxParcels
            BY <2>1 DEF HubFacts, HubProofs!TypeOK
        <3>2. n \in 1..MaxParcels
            BY <2>2, <3>1 DEF HubProofs!Parcels
        <3>3. n <= published
            BY <2>1, <2>2 DEF HubFacts, HubProofs!Numbers
        <3>4. MaxParcels \in Nat
            BY HubSame DEF HubProofs!CheetahAssumption
        <3> QED BY <3>1, <3>2, <3>3, <3>4, Bounded
    <2>4. PICK j \in Jobs : j = author[n] /\ job[j] \in {"publishing", "done"}
        BY <2>3 DEF NodeInv, Answers
    <2>5. Transfer(j) /\ dir[j] \in Requests \cup {None}
        BY DEF NodeInv, Transfers, OwnTypes
    <2>6. /\ dir[j] \in Requests
          /\ at[j] = Len(Listing[dir[j]]) + 1
          /\ IsData(sent[j], dir[j], at[j] - 1)
        BY <2>4, <2>5 DEF Transfer
    <2>7. at[j] - 1 = Len(Listing[dir[j]])
        <3>1. Len(Listing[dir[j]]) \in Nat
            BY <2>6, Lengths
        <3> QED BY <2>6, <3>1, OneBack, Zenon
    <2> QED BY <2>2, <2>4, <2>6, <2>7
<1> QED BY <1>1, NodeInvariance, PTL

(* The chunks that go to a tracker are those of one directory, in order and
   without a gap, although other requests replace PeerFileData meanwhile. *)
THEOREM OneDirectoryAlways == Spec => []OneDirectory
<1>1. NodeInv => OneDirectory
    BY DEF NodeInv, Transfers, Transfer, OneDirectory
<1> QED BY <1>1, NodeInvariance, PTL

(* A transfer never sends a directory that was set before its own. *)
THEOREM NeverOlderDirectoryAlways == Spec => []NeverOlderDirectory
<1>1. NodeInv => NeverOlderDirectory
    <2> SUFFICES ASSUME NodeInv, NEW j \in Jobs, dir[j] # None
                 PROVE  Place(dir[j]) >= Place(j[1])
        BY DEF NeverOlderDirectory
    <2>1. PICK i, k \in DOMAIN filed : k <= i /\ filed[i] = dir[j] /\ filed[k] = j[1]
        BY DEF NodeInv, Transfers, Transfer
    <2>2. \A l \in DOMAIN filed : Place(filed[l]) = l
        BY DEF NodeInv, Filing, Place
    <2>3. Place(dir[j]) = i /\ Place(j[1]) = k
        BY <2>1, <2>2
    <2>4. i \in Nat /\ k \in Nat
        <3>1. filed \in Seq(Requests)
            BY DEF NodeInv, OwnTypes
        <3>2. DOMAIN filed = 1..Len(filed) /\ Len(filed) \in Nat
            BY <3>1
        <3> QED BY <2>1, <3>2
    <2> QED BY <2>1, <2>3, <2>4
<1> QED BY <1>1, NodeInvariance, PTL

(* The node divides by zero only for a request without a size. *)
THEOREM SizeComesFirstAlways == Spec => []SizeComesFirst
<1>1. NodeInv => SizeComesFirst
    BY DEF NodeInv
<1> QED BY <1>1, NodeInvariance, PTL
=============================================================================
