--------------------------- MODULE ProgressProofs ---------------------------
(* Theorems about the tracking numbers of a node and the reports of them. *)
EXTENDS Progress, TLAPS

(* What CheetahProofs proves of every hub. *)
HubProofs == INSTANCE CheetahProofs WITH
                Keys <- {TKEY}, Chans <- Monitors, Publishers <- {Download},
                MaxParcels <- MaxReports

USE ProgressAssumption

Types ==
    /\ bytesRead \in [Sockets -> Nat]
    /\ loop \in [Sockets -> Nat]
    /\ queue \in Seq(Messages)
    /\ toComplete \in Nat /\ written \in Nat /\ bytesLeft \in Int
    /\ progress \in Nat \X (Nat \ {0})
    /\ timeToComplete \in Pair
    /\ lastRead \in Nat /\ timed \in BOOLEAN
    /\ chunk \in Messages \cup {None}
    /\ stage \in [Updaters -> Stages]
    /\ asked \in [Updaters -> Nat \X Nat]
    /\ speed \in [Updaters -> Nat]
    /\ stored \in Seq(Messages)
    /\ filed \subseteq Sockets
    /\ by \in Sockets \cup Jobs \cup {None}
    /\ fwd \in [Monitors -> {"none", "starting", "waiting", "holding", "gone"}]
    /\ out \in [Monitors -> 0..Cap]
    /\ look \in [Monitors -> {"idle", "written", "progress", "ended"}]
    /\ report \in [Monitors -> [written : Nat, progress : Pair]]
    /\ cancelled \subseteq Monitors

(* A counter says where the message ends that its loop has read last, and
   nothing is stored that no loop has read. *)
Come(m) == m[2] <= loop[m[1]]

Counted ==
    /\ \A s \in Sockets :
          /\ loop[s] \in 0..Len(Ends[s])
          /\ bytesRead[s] = IF loop[s] = 0 THEN 0 ELSE Ends[s][loop[s]]
    /\ \A k \in DOMAIN queue : Come(queue[k])
    /\ \A k \in DOMAIN stored : Come(stored[k])

(* The handler of Download is at work on the chunk stored last. *)
AtWork ==
    /\ chunk = None <=> stage[Download] = "idle"
    /\ chunk # None => stored # <<>> /\ chunk = stored[Len(stored)]
    /\ stage[Download] # "done"
    /\ \A j \in Jobs : stage[j] \notin {"asking", "publish", "publishing"}

(* What it was told is done covers what is stored of that connection. *)
Asked ==
    stage[Download] \in {"written", "progress", "left", "speed", "time"} =>
        \A i \in StoredOf(chunk[1]) : asked[Download][1] >= Ends[chunk[1]][i]

(* And so does Written, of whatever connection it is. *)
Covers ==
    by \in Sockets /\ (stage[Download] \notin {"asking", "written"} \/ by # chunk[1]) =>
        \A i \in StoredOf(by) : written >= Ends[by][i]

(* Without jobs Written and Progress are of the chunk stored last. *)
AllIdle == \A j \in Jobs : stage[j] = "idle"

Settled ==
    AllIdle /\ stored # <<>> =>
        LET s == stored[Len(stored)][1]
            i == stored[Len(stored)][2]
        IN /\ stage[Download] \notin {"asking", "written"} => written >= Ends[s][i]
           /\ stage[Download] = "progress" => written = asked[Download][1]
           /\ stage[Download] \notin {"asking", "written", "progress", "panicked"} =>
                 progress[1] = written

(* The goroutine of a GoMonitor holds on to its channel, and Download is in
   Publish only where it calls it. *)
Members ==
    /\ \A m \in Monitors :
          /\ fwd[m] \in {"none", "starting"} <=> home[m] = None
          /\ fwd[m] \in {"waiting", "holding"} => m \in subscribers[TKEY]
    /\ pc[Download] # "idle" => stage[Download] = "publishing"

(* A monitor that waits for a report, while none is on its way to it, has
   read the numbers as they are. *)
Told(m) ==
    \/ slot[m] # Hub!NoParcel
    \/ out[m] > 0
    \/ look[m] = "written"
    \/ look[m] = "progress" /\ report[m].written = written
    \/ look[m] = "idle" /\ report[m].written = written /\ report[m].progress = progress

Due(m) ==
    /\ AllIdle /\ stored # <<>>
    /\ fwd[m] = "waiting" /\ m \notin cancelled
    /\ born[m] < published \/ replayed[m] # Hub!NoParcel
    /\ \/ stage[Download] = "idle"
       \/ /\ stage[Download] = "publishing" /\ pc[Download] # "panicked"
          /\ m \notin pending[Download]

Informed == \A m \in Monitors : Due(m) => Told(m)

(* What bytesLeft lacks of toComplete is positive once an update has set it. *)
SeveralFiles == \E f, g \in filed : f # g
NothingSent == \E j \in Jobs : Sent[j] = 0 /\ stage[j] # "idle"

Rest ==
    /\ toComplete # 0 => filed # {}
    /\ \A u \in Updaters : stage[u] \in {"left", "speed", "time"} =>
          toComplete # 0 \/ SeveralFiles
    /\ \A j \in Jobs : stage[j] \in {"written", "progress", "left"} => asked[j][1] = Sent[j]
    /\ \/ SeveralFiles \/ NothingSent
       \/ toComplete # 0 /\ toComplete - bytesLeft > 0
       \/ timeToComplete = <<0, 1>> /\ \A u \in Updaters : stage[u] \notin {"speed", "time"}

ProgressInv ==
    /\ Types /\ Counted /\ AtWork /\ Asked /\ Covers
    /\ Settled /\ Members /\ Informed /\ Rest /\ TimeIsDefined

----------------------------------------------------------------------------

SocketAction(s) == Read(s) \/ SetToComplete(s)

HandlerAction ==
    \/ WriteChunkFile \/ WriteChunkError \/ AskRead
    \/ Publish \/ Deliver \/ Return

MonitorAction(m) ==
    \/ GoMonitor(m) \/ Subscribe(m) \/ Take(m) \/ Hand(m)
    \/ Cancel(m) \/ Leave(m)
    \/ Handle(m) \/ WorkerEnds(m) \/ Document(m)

(* A step is one of a socket, of the handler of Download, of a job, of an
   update or of a monitor. *)
LEMMA Steps ==
    ASSUME [Next]_vars
    PROVE  \/ \E s \in Sockets : SocketAction(s)
           \/ HandlerAction
           \/ \E j \in Jobs : AskWritten(j)
           \/ \E u \in Updaters : Update(u)
           \/ \E m \in Monitors : MonitorAction(m)
           \/ UNCHANGED vars
BY DEF Next, SocketAction, HandlerAction, MonitorAction

(* A step of the node leaves the hub trackk alone, or is one of these. *)
LEMMA HubStep ==
    ASSUME [Next]_vars
    PROVE  \/ UNCHANGED hub
           \/ Hub!Publish(Download, TKEY) \/ Hub!Send(Download) \/ Hub!Panic(Download)
           \/ \E m \in Monitors : Hub!Subscribe(m, TKEY) \/ Hub!Receive(m) \/ Hub!Unsubscribe(m)
<1>1. ASSUME NEW s \in Sockets, SocketAction(s) PROVE UNCHANGED hub
    BY <1>1 DEF SocketAction, Read, SetToComplete
<1>2. CASE HandlerAction
    BY <1>2 DEF HandlerAction, WriteChunkFile, WriteChunkError, AskRead, Publish, Deliver, Return
<1>3. ASSUME NEW j \in Jobs, AskWritten(j) PROVE UNCHANGED hub
    BY <1>3 DEF AskWritten
<1>4. ASSUME NEW u \in Updaters, Update(u) PROVE UNCHANGED hub
    BY <1>4 DEF Update, UpdateWritten, UpdateProgress, UpdateBytesLeft, CalcSpeed,
                UpdateTimeToComplete
<1>5. ASSUME NEW m \in Monitors, MonitorAction(m)
      PROVE  UNCHANGED hub \/ Hub!Subscribe(m, TKEY) \/ Hub!Receive(m) \/ Hub!Unsubscribe(m)
    BY <1>5 DEF MonitorAction, GoMonitor, Subscribe, Take, Hand, Cancel, Leave, Handle,
                WorkerEnds, Document
<1>6. CASE UNCHANGED vars
    BY <1>6 DEF vars
<1> QED BY <1>1, <1>2, <1>3, <1>4, <1>5, <1>6, Steps

(* The hub of the node and the one of HubProofs are the same. *)
LEMMA HubSame ==
    /\ \A c \in Monitors :
          /\ Hub!Subscribe(c, TKEY) <=> HubProofs!Subscribe(c, TKEY)
          /\ Hub!Receive(c) <=> HubProofs!Receive(c)
          /\ Hub!Unsubscribe(c) <=> HubProofs!Unsubscribe(c)
    /\ Hub!Publish(Download, TKEY) <=> HubProofs!Publish(Download, TKEY)
    /\ Hub!Send(Download) <=> HubProofs!Send(Download)
    /\ Hub!Panic(Download) <=> HubProofs!Panic(Download)
    /\ HubProofs!CheetahAssumption
<1>1. ASSUME NEW c \in Monitors
      PROVE  /\ Hub!Subscribe(c, TKEY) <=> HubProofs!Subscribe(c, TKEY)
             /\ Hub!Receive(c) <=> HubProofs!Receive(c)
             /\ Hub!Unsubscribe(c) <=> HubProofs!Unsubscribe(c)
    BY DEF Hub!Subscribe, HubProofs!Subscribe, Hub!Receive, HubProofs!Receive,
           Hub!Unsubscribe, HubProofs!Unsubscribe,
           Hub!Subscribed, HubProofs!Subscribed, Hub!history, HubProofs!history,
           Hub!NoParcel, HubProofs!NoParcel
<1>2. /\ Hub!Publish(Download, TKEY) <=> HubProofs!Publish(Download, TKEY)
      /\ Hub!Send(Download) <=> HubProofs!Send(Download)
      /\ Hub!Panic(Download) <=> HubProofs!Panic(Download)
    BY DEF Hub!Publish, HubProofs!Publish, Hub!Send, HubProofs!Send, Hub!Panic, HubProofs!Panic,
           Hub!Advance, HubProofs!Advance, Hub!history, HubProofs!history,
           Hub!NoParcel, HubProofs!NoParcel
<1>3. HubProofs!CheetahAssumption
    BY DEF HubProofs!CheetahAssumption, ProgressAssumption
<1> QED BY <1>1, <1>2, <1>3

(* So what holds of every hub holds of this one. *)
THEOREM TrackkInvariance == Spec => []HubProofs!IInv
<1>1. Init => HubProofs!Init
    BY DEF Init, Hub!Init, HubProofs!Init, Hub!NoParcel, HubProofs!NoParcel,
           Hub!Parcels, HubProofs!Parcels
<1>2. [Next]_vars => [HubProofs!Next]_(HubProofs!vars)
    <2> SUFFICES ASSUME [Next]_vars PROVE [HubProofs!Next]_(HubProofs!vars)
        OBVIOUS
    <2>1. UNCHANGED hub => UNCHANGED HubProofs!vars
        BY DEF hub, HubProofs!vars, HubProofs!hub, HubProofs!history
    <2> QED BY <2>1, HubStep, HubSame DEF HubProofs!Next
<1>3. Spec => HubProofs!Spec
    BY <1>1, <1>2, PTL DEF Spec, HubProofs!Spec
<1> QED BY <1>3, HubSame, HubProofs!Invariance, PTL

----------------------------------------------------------------------------

(* An entry of a sequence is of its set. *)
LEMMA Element ==
    ASSUME NEW S, NEW q \in Seq(S), NEW i \in 1..Len(q)
    PROVE  q[i] \in S
OBVIOUS

(* Head and Tail have entries of the sequence only. *)
LEMMA HeadTail ==
    ASSUME NEW S, NEW q \in Seq(S), q # <<>>
    PROVE  /\ Head(q) \in S /\ Tail(q) \in Seq(S)
           /\ \E i \in DOMAIN q : Head(q) = q[i]
           /\ \A k \in DOMAIN Tail(q) : \E i \in DOMAIN q : Tail(q)[k] = q[i]
<1>1. Len(q) \in Nat \ {0} /\ DOMAIN q = 1..Len(q)
    OBVIOUS
<1>2. Head(q) = q[1] /\ 1 \in DOMAIN q
    BY <1>1
<1>3. Tail(q) \in Seq(S) /\ Len(Tail(q)) = Len(q) - 1
      /\ \A k \in 1..(Len(q) - 1) : Tail(q)[k] = q[k+1]
    OBVIOUS
<1>4. DOMAIN Tail(q) = 1..(Len(q) - 1)
    BY <1>1, <1>3
<1>5. \A k \in DOMAIN Tail(q) : k + 1 \in DOMAIN q /\ Tail(q)[k] = q[k+1]
    BY <1>1, <1>3, <1>4
<1> QED BY <1>2, <1>3, <1>5, Element, <1>1

(* An appended entry is the last, and the others stay. *)
LEMMA Appended ==
    ASSUME NEW S, NEW q \in Seq(S), NEW x \in S
    PROVE  /\ Append(q, x) \in Seq(S) /\ Append(q, x) # <<>>
           /\ Append(q, x)[Len(Append(q, x))] = x
           /\ \A k \in DOMAIN Append(q, x) :
                 Append(q, x)[k] = x \/ (k \in DOMAIN q /\ Append(q, x)[k] = q[k])
           /\ \A k \in DOMAIN q : k \in DOMAIN Append(q, x) /\ Append(q, x)[k] = q[k]
           /\ \E k \in DOMAIN Append(q, x) : Append(q, x)[k] = x
<1>1. /\ Append(q, x) \in Seq(S) /\ Len(Append(q, x)) = Len(q) + 1 /\ Len(q) \in Nat
      /\ Append(q, x)[Len(q) + 1] = x
      /\ \A k \in 1..Len(q) : Append(q, x)[k] = q[k]
    OBVIOUS
<1>2. PICK r \in Seq(S) : r = Append(q, x)
    BY <1>1
<1>3. DOMAIN q = 1..Len(q) /\ DOMAIN r = 1..(Len(q) + 1)
    BY <1>1, <1>2
<1>4. r # <<>>
    <2>1. Len(r) = Len(q) + 1 /\ Len(q) + 1 # 0
        BY <1>1, <1>2
    <2> QED BY <2>1
<1>5. ASSUME NEW k \in DOMAIN r PROVE r[k] = x \/ (k \in DOMAIN q /\ r[k] = q[k])
    <2>1. k = Len(q) + 1 \/ k \in 1..Len(q)
        BY <1>1, <1>3
    <2> QED BY <1>1, <1>2, <1>3, <2>1
<1>6. \A k \in DOMAIN q : k \in DOMAIN r /\ r[k] = q[k]
    BY <1>1, <1>2, <1>3
<1>7. Len(q) + 1 \in DOMAIN r
    BY <1>1, <1>3
<1> QED BY <1>1, <1>2, <1>4, <1>5, <1>6, <1>7

(* A message is a connection and a number in it. *)
LEMMA Messaging ==
    \A m \in Messages : /\ m = <<m[1], m[2]>> /\ m # None
                        /\ m[1] \in Sockets
                        /\ m[2] \in DOMAIN Ends[m[1]]
                        /\ m[2] \in Nat \ {0} /\ m[2] <= Len(Ends[m[1]])
                        /\ Ends[m[1]][m[2]] \in Nat \ {0}
<1> SUFFICES ASSUME NEW m \in Messages
             PROVE  /\ m = <<m[1], m[2]>> /\ m # None
                    /\ m[1] \in Sockets
                    /\ m[2] \in DOMAIN Ends[m[1]]
                    /\ m[2] \in Nat \ {0} /\ m[2] <= Len(Ends[m[1]])
                    /\ Ends[m[1]][m[2]] \in Nat \ {0}
    OBVIOUS
<1>1. PICK s \in Sockets : m \in {s} \X DOMAIN Ends[s]
    BY DEF Messages
<1>2. m = <<m[1], m[2]>> /\ m[1] = s /\ m[2] \in DOMAIN Ends[s]
    BY <1>1
<1>3. Ends[s] \in Seq(Nat \ {0})
    BY DEF ProgressAssumption
<1>4. DOMAIN Ends[s] = 1..Len(Ends[s]) /\ Len(Ends[s]) \in Nat
    BY <1>3
<1>5. m[2] \in 1..Len(Ends[s])
    BY <1>2, <1>4
<1>6. m[2] \in Nat \ {0} /\ m[2] <= Len(Ends[m[1]])
    BY <1>2, <1>4, <1>5
<1>7. Ends[s][m[2]] \in Nat \ {0}
    BY <1>3, <1>5, Element
<1>8. m # None
    BY DEF ProgressAssumption
<1> QED BY <1>2, <1>6, <1>7, <1>8

(* The messages of a connection end one behind the other. *)
LEMMA Increasing ==
    ASSUME NEW s \in Sockets, NEW i \in DOMAIN Ends[s], NEW j \in DOMAIN Ends[s], i <= j
    PROVE  Ends[s][i] <= Ends[s][j]
<1>1. Ends[s] \in Seq(Nat \ {0})
    BY DEF ProgressAssumption
<1>2. i \in 1..Len(Ends[s]) /\ j \in 1..Len(Ends[s]) /\ Len(Ends[s]) \in Nat
    BY <1>1
<1>3. Ends[s][i] \in Nat /\ Ends[s][j] \in Nat
    BY <1>1, <1>2, Element
<1>4. CASE i = j
    BY <1>3, <1>4
<1>5. CASE i < j
    BY <1>3, <1>5 DEF ProgressAssumption
<1> QED BY <1>2, <1>4, <1>5

----------------------------------------------------------------------------

(* The size of the next message is from the end of the one before to its own. *)
LEMMA NextMessage ==
    ASSUME NEW s \in Sockets, Types, <<s, loop[s] + 1>> \in Messages
    PROVE  /\ loop[s] + 1 \in 1..Len(Ends[s]) /\ loop[s] \in Nat
           /\ Ends[s][loop[s] + 1] \in Nat \ {0}
           /\ MessageSize(<<s, loop[s] + 1>>)
                 = Ends[s][loop[s] + 1] - (IF loop[s] = 0 THEN 0 ELSE Ends[s][loop[s]])
           /\ MessageSize(<<s, loop[s] + 1>>) \in Nat
<1>1. PICK n \in Nat : n = loop[s]
    BY DEF Types
<1>2. PICK m \in Messages : m = <<s, n + 1>>
    BY <1>1
<1>3. /\ m[1] = s /\ m[2] = n + 1
      /\ Ends[s][n + 1] \in Nat \ {0} /\ n + 1 <= Len(Ends[s])
      /\ n + 1 \in DOMAIN Ends[s]
    <2>1. m[1] = s /\ m[2] = n + 1
        BY <1>2
    <2> QED BY <2>1, Messaging
<1>4. MessageSize(m) = Ends[s][n + 1] - (IF n + 1 = 1 THEN 0 ELSE Ends[s][(n + 1) - 1])
    BY <1>3 DEF MessageSize
<1>5. (n + 1) - 1 = n /\ (n + 1 = 1 <=> n = 0)
    OBVIOUS
<1>6. Len(Ends[s]) \in Nat /\ DOMAIN Ends[s] = 1..Len(Ends[s]) /\ Ends[s] \in Seq(Nat \ {0})
    <2>1. Ends[s] \in Seq(Nat \ {0})
        BY DEF ProgressAssumption
    <2> QED BY <2>1
<1>7. MessageSize(m) \in Nat
    <2>1. CASE n = 0
        BY <1>3, <1>4, <2>1
    <2>2. CASE n # 0
        <3>1. n \in 1..Len(Ends[s])
            BY <1>3, <1>6, <2>2
        <3>2. Ends[s][n] \in Nat
            BY <1>6, <3>1, Element
        <3>3. Ends[s][n] <= Ends[s][n + 1]
            <4>1. n \in DOMAIN Ends[s] /\ n <= n + 1
                BY <1>6, <3>1
            <4> QED BY <1>3, <4>1, Increasing
        <3> QED BY <1>3, <1>4, <1>5, <2>2, <3>2, <3>3
    <2> QED BY <2>1, <2>2
<1>8. n + 1 \in 1..Len(Ends[s])
    BY <1>3, <1>6
<1> QED BY <1>1, <1>2, <1>3, <1>4, <1>5, <1>7, <1>8

(* Each step keeps the types. *)
LEMMA TypesStep ==
    ASSUME Types, AtWork, [Next]_vars
    PROVE  Types'
<1>1. ASSUME NEW s \in Sockets, Read(s) PROVE Types'
    <2>1. PICK m \in Messages : m = <<s, loop[s] + 1>>
        BY <1>1 DEF Read
    <2>2. queue' \in Seq(Messages)
        BY <1>1, <2>1, Appended DEF Types, Stages, Read
    <2>3. loop[s] + 1 \in Nat /\ bytesRead[s] + MessageSize(m) \in Nat
        <3>1. MessageSize(m) \in Nat /\ loop[s] \in Nat
            BY <2>1, NextMessage
        <3>2. bytesRead[s] \in Nat
            BY DEF Types
        <3> QED BY <3>1, <3>2
    <2>4. bytesRead' \in [Sockets -> Nat] /\ loop' \in [Sockets -> Nat]
        <3>1. bytesRead' = [bytesRead EXCEPT ![s] = bytesRead[s] + MessageSize(m)]
              /\ loop' = [loop EXCEPT ![s] = loop[s] + 1]
            BY <1>1, <2>1 DEF Read
        <3> QED BY <2>3, <3>1 DEF Types
    <2> QED BY <1>1, <2>2, <2>4 DEF Types, Stages, Read, track, update, monitor
<1>2. ASSUME NEW s \in Sockets, SetToComplete(s) PROVE Types'
    <2>1. Size[s] \in Nat
        BY DEF ProgressAssumption
    <2> QED BY <1>2, <2>1 DEF Types, Stages, SetToComplete, net, monitor
<1>3. CASE WriteChunkFile
    <2>1. Head(queue) \in Messages /\ Tail(queue) \in Seq(Messages)
        BY <1>3, HeadTail DEF Types, Stages, WriteChunkFile
    <2>2. stored' \in Seq(Messages)
        BY <1>3, <2>1, Appended DEF Types, Stages, WriteChunkFile
    <2> QED BY <1>3, <2>1, <2>2 DEF Types, Stages, WriteChunkFile, track, monitor
<1>4. CASE WriteChunkError
    <2>1. Tail(queue) \in Seq(Messages)
        BY <1>4, HeadTail DEF Types, Stages, WriteChunkError
    <2> QED BY <1>4, <2>1 DEF Types, Stages, WriteChunkError, track, update, monitor
<1>5. CASE AskRead
    <2>1. chunk[1] \in Sockets
        BY <1>5, Messaging DEF Types, Stages, AtWork, AskRead
    <2>2. bytesRead[chunk[1]] \in Nat
        BY <2>1 DEF Types
    <2> QED BY <1>5, <2>2 DEF Types, Stages, AskRead, net, track, monitor
<1>6. CASE Publish \/ Deliver
    BY <1>6 DEF Types, Stages, Publish, Deliver, net, track, update, monitor
<1>7. CASE Return
    BY <1>7 DEF Types, Stages, Return, net, track, monitor
<1>8. ASSUME NEW j \in Jobs, AskWritten(j) PROVE Types'
    <2>1. Sent[j] \in Nat
        BY DEF ProgressAssumption
    <2>2. asked' \in [Updaters -> Nat \X Nat]
        BY <1>8, <2>1 DEF Types, Stages, AskWritten
    <2> QED BY <1>8, <2>2 DEF Types, Stages, AskWritten, net, track, monitor
<1>9. ASSUME NEW u \in Updaters, Update(u) PROVE Types'
    <2>1. asked[u] \in Nat \X Nat /\ asked[u][1] \in Nat /\ asked[u][2] \in Nat
        BY DEF Types
    <2>2. CASE UpdateWritten(u)
        <3>1. by' \in Sockets \cup Jobs
            BY <2>2, Messaging DEF Types, Stages, AtWork, UpdateWritten, Source, Updaters
        <3> QED BY <2>1, <2>2, <3>1 DEF Types, Stages, UpdateWritten, Done, net, monitor
    <2>3. CASE UpdateProgress(u)
        <3>1. progress' \in Nat \X (Nat \ {0})
            <4>1. toComplete \in Nat
                BY DEF Types
            <4>2. CASE toComplete = 0
                BY <2>3, <4>2 DEF Types, Stages, UpdateProgress
            <4>3. CASE toComplete # 0
                BY <2>1, <2>3, <4>1, <4>3 DEF UpdateProgress, Done
            <4> QED BY <4>2, <4>3
        <3>2. stage' \in [Updaters -> Stages]
            <4>1. PICK w \in {"panicked", "left"} : stage' = [stage EXCEPT ![u] = w]
                BY <2>3 DEF UpdateProgress
            <4>2. w \in Stages
                BY DEF Stages
            <4> QED BY <4>1, <4>2 DEF Types
        <3> QED BY <2>3, <3>1, <3>2 DEF Types, Stages, UpdateProgress, net, monitor
    <2>4. CASE UpdateBytesLeft(u)
        <3>1. bytesLeft' \in Int
            BY <2>1, <2>4 DEF Types, Stages, UpdateBytesLeft, Done
        <3> QED BY <2>4, <3>1 DEF Types, Stages, UpdateBytesLeft, net, monitor
    <2>5. CASE CalcSpeed(u)
        <3>1. speed' \in [Updaters -> Nat]
            <4>1. PICK v \in Nat : speed' = [speed EXCEPT ![u] = v]
                <5>1. lastRead \in Nat
                    BY DEF Types
                <5>2. (IF asked[u][2] > lastRead THEN asked[u][2] - lastRead ELSE 0) \in Nat
                    BY <2>1, <5>1
                <5> QED BY <2>5, <5>2 DEF CalcSpeed
            <4> QED BY <4>1 DEF Types
        <3> QED BY <2>1, <2>5, <3>1 DEF Types, Stages, CalcSpeed, net, monitor
    <2>6. CASE UpdateTimeToComplete(u)
        <3>1. toComplete - bytesLeft \in Int /\ speed[u] \in Int
            BY DEF Types
        <3>2. timeToComplete' \in Pair
            BY <2>6, <3>1 DEF UpdateTimeToComplete, Pair
        <3>3. asked' \in [Updaters -> Nat \X Nat]
            BY <2>6 DEF Types, Stages, UpdateTimeToComplete
        <3> QED BY <2>6, <3>2, <3>3 DEF Types, Stages, UpdateTimeToComplete, net, monitor
    <2> QED BY <1>9, <2>2, <2>3, <2>4, <2>5, <2>6 DEF Update
<1>10. ASSUME NEW m \in Monitors, MonitorAction(m) PROVE Types'
    <2>1. CASE GoMonitor(m) \/ Subscribe(m) \/ Take(m) \/ Cancel(m) \/ Leave(m)
        <3>1. CASE GoMonitor(m)
            BY <3>1 DEF Types, Stages, GoMonitor, net, track, update
        <3>2. CASE Subscribe(m) \/ Take(m)
            BY <3>2 DEF Types, Stages, Subscribe, Take, net, track, update
        <3>3. CASE Cancel(m) \/ Leave(m)
            BY <3>3 DEF Types, Stages, Cancel, Leave, net, track, update
        <3> QED BY <2>1, <3>1, <3>2, <3>3
    <2>2. CASE Hand(m) \/ Handle(m)
        <3>1. out[m] \in 0..Cap /\ Cap \in Nat
            BY DEF Types, Stages, ProgressAssumption
        <3>2. out' \in [Monitors -> 0..Cap]
            <4>1. CASE Hand(m)
                <5>1. out[m] + 1 \in 0..Cap
                    BY <3>1, <4>1 DEF Hand
                <5> QED BY <4>1, <5>1 DEF Types, Stages, Hand
            <4>2. CASE Handle(m)
                <5>1. out[m] - 1 \in 0..Cap
                    BY <3>1, <4>2 DEF Handle
                <5> QED BY <4>2, <5>1 DEF Types, Stages, Handle
            <4> QED BY <2>2, <4>1, <4>2
        <3>3. CASE Hand(m)
            BY <3>2, <3>3 DEF Types, Stages, Hand, net, track, update
        <3>4. CASE Handle(m)
            BY <3>2, <3>4 DEF Types, Stages, Handle, net, track, update
        <3> QED BY <2>2, <3>3, <3>4
    <2>3. CASE WorkerEnds(m)
        BY <2>3 DEF Types, Stages, WorkerEnds, net, track, update
    <2>4. CASE Document(m)
        <3>1. report[m] \in [written : Nat, progress : Pair] /\ written \in Nat /\ progress \in Pair
            BY DEF Types, Stages, Pair
        <3>2. report' \in [Monitors -> [written : Nat, progress : Pair]]
            <4>1. PICK x \in [written : Nat, progress : Pair] : report' = [report EXCEPT ![m] = x]
                <5>1. CASE report' = [report EXCEPT ![m].written = written]
                    <6>1. report' = [report EXCEPT ![m] = [report[m] EXCEPT !.written = written]]
                        BY <5>1
                    <6>2. [report[m] EXCEPT !.written = written] \in [written : Nat, progress : Pair]
                        BY <3>1
                    <6> QED BY <6>1, <6>2
                <5>2. CASE report' = [report EXCEPT ![m].progress = progress]
                    <6>1. report' = [report EXCEPT ![m] = [report[m] EXCEPT !.progress = progress]]
                        BY <5>2
                    <6>2. [report[m] EXCEPT !.progress = progress] \in [written : Nat, progress : Pair]
                        BY <3>1
                    <6> QED BY <6>1, <6>2
                <5> QED BY <2>4, <5>1, <5>2 DEF Document
            <4> QED BY <4>1 DEF Types
        <3> QED BY <2>4, <3>2 DEF Types, Stages, Document, net, track, update
    <2> QED BY <1>10, <2>1, <2>2, <2>3, <2>4 DEF MonitorAction
<1>11. CASE UNCHANGED vars
    BY <1>11 DEF Types, Stages, vars, net, track, update, monitor
<1> QED BY <1>1, <1>2, <1>3, <1>4, <1>5, <1>6, <1>7, <1>8, <1>9, <1>10, <1>11, Steps
        DEF SocketAction, HandlerAction

(* Each step keeps the counters at what was read, and what is stored behind
   them. *)
LEMMA CountedStep ==
    ASSUME Types, Counted, [Next]_vars
    PROVE  Counted'
<1>1. ASSUME NEW s \in Sockets, Read(s) PROVE Counted'
    <2>1. PICK n \in Nat : n = loop[s]
        BY DEF Types
    <2>2. PICK m \in Messages : m = <<s, n + 1>>
        BY <1>1, <2>1 DEF Read
    <2>3. /\ n + 1 \in 1..Len(Ends[s])
          /\ Ends[s][n + 1] \in Nat
          /\ MessageSize(m) = Ends[s][n + 1] - (IF n = 0 THEN 0 ELSE Ends[s][n])
        BY <2>1, <2>2, NextMessage
    <2>4. /\ loop' = [loop EXCEPT ![s] = n + 1]
          /\ bytesRead' = [bytesRead EXCEPT ![s] = bytesRead[s] + MessageSize(m)]
          /\ queue' = Append(queue, m) /\ stored' = stored
        BY <1>1, <2>1, <2>2 DEF Read, update
    <2>5. bytesRead[s] = IF n = 0 THEN 0 ELSE Ends[s][n]
        BY <2>1 DEF Counted
    <2>6. bytesRead[s] \in Nat
        BY DEF Types
    <2>7. bytesRead'[s] = Ends[s][n + 1]
        <3>1. bytesRead'[s] = bytesRead[s] + MessageSize(m)
            BY <2>4 DEF Types
        <3>2. MessageSize(m) = Ends[s][n + 1] - bytesRead[s]
            BY <2>3, <2>5
        <3>3. Ends[s][n + 1] \in Nat
            BY <2>3
        <3> QED BY <2>6, <3>1, <3>2, <3>3
    <2>8. loop'[s] = n + 1 /\ \A t \in Sockets \ {s} : loop'[t] = loop[t] /\ bytesRead'[t] = bytesRead[t]
        BY <2>4 DEF Types
    <2>9. ASSUME NEW t \in Sockets
          PROVE  /\ loop'[t] \in 0..Len(Ends[t])
                 /\ bytesRead'[t] = IF loop'[t] = 0 THEN 0 ELSE Ends[t][loop'[t]]
        <3>1. CASE t = s
            <4>1. n + 1 \in 0..Len(Ends[s]) /\ n + 1 # 0
                BY <2>3
            <4> QED BY <2>7, <2>8, <3>1, <4>1
        <3>2. CASE t # s
            BY <2>8, <3>2 DEF Counted
        <3> QED BY <3>1, <3>2
    <2>10. ASSUME NEW q \in Messages, Come(q) PROVE q[2] <= loop'[q[1]]
        <3>1. q[1] \in Sockets /\ q[2] \in Nat
            BY Messaging
        <3>2. loop[q[1]] \in Nat /\ loop'[q[1]] \in Nat /\ loop[q[1]] <= loop'[q[1]]
            <4>1. PICK t \in Sockets : t = q[1]
                BY <3>1
            <4>2. n \in Nat /\ loop[s] = n /\ loop'[s] = n + 1 /\ loop[t] \in Nat
                BY <2>1, <2>8 DEF Types
            <4>3. t # s => loop'[t] = loop[t]
                BY <2>8
            <4> QED BY <4>1, <4>2, <4>3
        <3> QED BY <2>10, <3>1, <3>2 DEF Come
    <2>11. m[2] <= loop'[m[1]]
        BY <2>2, <2>8, <2>1
    <2>12. \A k \in DOMAIN stored : stored[k] \in Messages /\ Come(stored[k])
        BY DEF Types, Counted
    <2>13. \A k \in DOMAIN queue : queue[k] \in Messages /\ Come(queue[k])
        BY DEF Types, Counted
    <2>14. \A k \in DOMAIN queue' : Come(queue[k])'
        <3>1. queue \in Seq(Messages)
            BY DEF Types
        <3>2. \A k \in DOMAIN queue' : queue'[k] = m \/ (k \in DOMAIN queue /\ queue'[k] = queue[k])
            BY <2>4, <3>1, Appended, SMTT(30)
        <3>3. ASSUME NEW k \in DOMAIN queue' PROVE queue'[k][2] <= loop'[queue'[k][1]]
            <4>1. CASE queue'[k] = m
                BY <2>11, <4>1
            <4>2. CASE k \in DOMAIN queue /\ queue'[k] = queue[k]
                BY <2>10, <2>13, <4>2
            <4> QED BY <3>2, <4>1, <4>2
        <3> QED BY <3>3 DEF Come
    <2>15. \A k \in DOMAIN stored' : Come(stored[k])'
        <3>1. ASSUME NEW k \in DOMAIN stored PROVE stored[k][2] <= loop'[stored[k][1]]
            BY <2>10, <2>12
        <3> QED BY <2>4, <3>1 DEF Come
    <2> QED BY <2>9, <2>14, <2>15 DEF Counted
<1>2. CASE WriteChunkFile
    <2>1. queue # <<>> /\ queue' = Tail(queue) /\ stored' = Append(stored, Head(queue))
          /\ UNCHANGED <<loop, bytesRead>>
        BY <1>2 DEF WriteChunkFile
    <2>2. queue \in Seq(Messages) /\ stored \in Seq(Messages)
        BY DEF Types
    <2>3. Come(Head(queue))
        BY <2>1, <2>2, HeadTail DEF Counted
    <2>4. \A k \in DOMAIN queue' : Come(queue'[k])
        BY <2>1, <2>2, HeadTail DEF Counted
    <2>5. \A k \in DOMAIN stored' : Come(stored'[k])
        <3>1. PICK h \in Messages : h = Head(queue)
            BY <2>1, <2>2, HeadTail
        <3>2. stored' = Append(stored, h)
            BY <2>1, <3>1
        <3>3. \A k \in DOMAIN stored' :
                  stored'[k] = h \/ (k \in DOMAIN stored /\ stored'[k] = stored[k])
            BY <2>2, <3>2, Appended, SMTT(30)
        <3> QED BY <2>3, <3>1, <3>3 DEF Counted
    <2> QED BY <2>1, <2>4, <2>5 DEF Counted, Come
<1>3. CASE WriteChunkError
    <2>1. queue # <<>> /\ queue' = Tail(queue) /\ UNCHANGED <<loop, bytesRead, stored>>
        BY <1>3 DEF WriteChunkError, update
    <2>2. queue \in Seq(Messages)
        BY DEF Types
    <2>3. \A k \in DOMAIN queue' : Come(queue'[k])
        BY <2>1, <2>2, HeadTail DEF Counted
    <2> QED BY <2>1, <2>3 DEF Counted, Come
<1>4. ASSUME UNCHANGED <<bytesRead, loop, queue, stored>> PROVE Counted'
    BY <1>4 DEF Counted, Come
<1>5. ASSUME NEW s \in Sockets, SetToComplete(s) PROVE Counted'
    BY <1>4, <1>5 DEF SetToComplete, net
<1>6. CASE AskRead \/ Publish \/ Deliver \/ Return
    BY <1>4, <1>6 DEF AskRead, Publish, Deliver, Return, net, update
<1>7. ASSUME NEW j \in Jobs, AskWritten(j) PROVE Counted'
    BY <1>4, <1>7 DEF AskWritten, net
<1>8. ASSUME NEW u \in Updaters, Update(u) PROVE Counted'
    BY <1>4, <1>8 DEF Update, UpdateWritten, UpdateProgress, UpdateBytesLeft, CalcSpeed,
                UpdateTimeToComplete, net
<1>9. ASSUME NEW m \in Monitors, MonitorAction(m) PROVE Counted'
    BY <1>4, <1>9 DEF MonitorAction, GoMonitor, Subscribe, Take, Hand, Cancel, Leave, Handle,
                WorkerEnds, Document, net, update
<1>10. CASE UNCHANGED vars
    BY <1>4, <1>10 DEF vars, net, update
<1> QED BY <1>1, <1>2, <1>3, <1>5, <1>6, <1>7, <1>8, <1>9, <1>10, Steps
        DEF SocketAction, HandlerAction

(* What a monitor does, or a socket reads, is none of the handler's business. *)
LEMMA Apart ==
    /\ \A s \in Sockets : SocketAction(s) =>
          UNCHANGED <<written, progress, bytesLeft, timeToComplete, chunk, stage, asked, stored, by>>
    /\ \A m \in Monitors : MonitorAction(m) => UNCHANGED <<track, update, net>>
    /\ UNCHANGED vars => UNCHANGED <<track, update, net>>
<1>1. ASSUME NEW s \in Sockets, SocketAction(s)
      PROVE  UNCHANGED <<written, progress, bytesLeft, timeToComplete, chunk, stage, asked, stored, by>>
    BY <1>1 DEF SocketAction, Read, SetToComplete, track, update
<1>2. ASSUME NEW m \in Monitors, MonitorAction(m) PROVE UNCHANGED <<track, update, net>>
    BY <1>2 DEF MonitorAction, GoMonitor, Subscribe, Take, Hand, Cancel, Leave, Handle,
                WorkerEnds, Document
<1> QED BY <1>1, <1>2 DEF vars

(* Each step keeps the handler at the chunk stored last. *)
LEMMA AtWorkStep ==
    ASSUME Types, AtWork, [Next]_vars
    PROVE  AtWork'
<1>1. stage \in [Updaters -> Stages] /\ Download \in Updaters /\ Jobs \subseteq Updaters
      /\ Download \notin Jobs
    BY DEF Types, Updaters, ProgressAssumption
<1>2. ASSUME UNCHANGED <<chunk, stage, stored>> PROVE AtWork'
    BY <1>2 DEF AtWork
<1>3. CASE WriteChunkFile
    <2>1. PICK h \in Messages : h = Head(queue)
        BY <1>3, HeadTail DEF Types, WriteChunkFile
    <2>2. stored' # <<>> /\ chunk' = stored'[Len(stored')] /\ chunk' # None
        <3>1. stored' = Append(stored, h) /\ chunk' = h /\ stored \in Seq(Messages)
            BY <1>3, <2>1 DEF Types, WriteChunkFile
        <3>2. stored' # <<>> /\ stored'[Len(stored')] = h
            BY <3>1, Appended
        <3> QED BY <3>1, <3>2, Messaging
    <2>3. stage' = [stage EXCEPT ![Download] = "asking"]
        BY <1>3 DEF WriteChunkFile
    <2> QED BY <1>1, <2>2, <2>3 DEF AtWork
<1>4. CASE WriteChunkError \/ Deliver
    BY <1>2, <1>4 DEF WriteChunkError, Deliver, update
<1>5. CASE AskRead \/ Publish \/ Return
    BY <1>1, <1>5 DEF AskRead, Publish, Return, AtWork
<1>6. ASSUME NEW j \in Jobs, AskWritten(j) PROVE AtWork'
    BY <1>1, <1>6 DEF AskWritten, AtWork
<1>7. ASSUME NEW u \in Updaters, Update(u) PROVE AtWork'
    <2>1. UNCHANGED <<chunk, stored>>
        BY <1>7 DEF Update, UpdateWritten, UpdateProgress, UpdateBytesLeft, CalcSpeed,
                    UpdateTimeToComplete
    <2>2. stage[u] # "idle"
        BY <1>7 DEF Update, UpdateWritten, UpdateProgress, UpdateBytesLeft, CalcSpeed,
                    UpdateTimeToComplete
    <2>3. PICK w \in {"progress", "panicked", "left", "speed", "time", "publish", "done"} :
             stage' = [stage EXCEPT ![u] = w] /\ (w = "publish" => u = Download) /\ (w = "done" => u # Download)
        BY <1>7 DEF Update, UpdateWritten, UpdateProgress, UpdateBytesLeft, CalcSpeed,
                    UpdateTimeToComplete
    <2> QED BY <1>1, <2>1, <2>2, <2>3 DEF AtWork
<1>8. ASSUME NEW s \in Sockets, SocketAction(s) PROVE AtWork'
    BY <1>2, <1>8, Apart
<1>9. ASSUME NEW m \in Monitors, MonitorAction(m) PROVE AtWork'
    BY <1>2, <1>9, Apart DEF update
<1>10. CASE UNCHANGED vars
    BY <1>2, <1>10, Apart DEF update
<1> QED BY <1>3, <1>4, <1>5, <1>6, <1>7, <1>8, <1>9, <1>10, Steps DEF HandlerAction

(* The counter that is asked covers what is stored of its connection. *)
LEMMA AskedStep ==
    ASSUME Types, Counted, AtWork, Asked, [Next]_vars
    PROVE  Asked'
<1>1. stage \in [Updaters -> Stages] /\ asked \in [Updaters -> Nat \X Nat]
      /\ Download \in Updaters /\ Jobs \subseteq Updaters /\ Download \notin Jobs
    BY DEF Types, Updaters, ProgressAssumption
<1>2. ASSUME UNCHANGED <<chunk, stored, asked>>, stage'[Download] = stage[Download] PROVE Asked'
    BY <1>2 DEF Asked, StoredOf
<1>3. ASSUME stage'[Download] \notin {"written", "progress", "left", "speed", "time"} PROVE Asked'
    BY <1>3 DEF Asked
<1>4. CASE AskRead
    <2>1. PICK m \in Messages : m = chunk
        BY <1>4 DEF Types, AtWork, AskRead
    <2>2. PICK s \in Sockets : s = m[1]
        BY Messaging
    <2>3. asked'[Download][1] = bytesRead[s] /\ chunk' = chunk /\ stored' = stored
        BY <1>1, <1>4, <2>1, <2>2 DEF AskRead
    <2>4. ASSUME NEW i \in StoredOf(s) PROVE bytesRead[s] >= Ends[s][i]
        <3>1. PICK k \in DOMAIN stored : stored[k] = <<s, i>>
            BY <2>4 DEF StoredOf
        <3>2. PICK q \in Messages : q = stored[k]
            BY DEF Types
        <3>3. q[1] = s /\ q[2] = i
            BY <3>1, <3>2
        <3>4. i \in Nat \ {0} /\ i \in DOMAIN Ends[s] /\ i <= loop[s]
            BY <3>2, <3>3, Messaging DEF Counted, Come
        <3>5. loop[s] \in 0..Len(Ends[s]) /\ loop[s] # 0
              /\ bytesRead[s] = Ends[s][loop[s]]
            BY <3>4 DEF Counted
        <3>6. Ends[s] \in Seq(Nat \ {0})
            BY DEF ProgressAssumption
        <3>7. loop[s] \in 1..Len(Ends[s]) /\ loop[s] \in DOMAIN Ends[s]
            BY <3>5, <3>6
        <3>8. Ends[s][i] <= Ends[s][loop[s]]
            BY <3>4, <3>7, Increasing
        <3>9. Ends[s][i] \in Nat /\ Ends[s][loop[s]] \in Nat
            BY <3>4, <3>6, <3>7, Element
        <3> QED BY <3>5, <3>8, <3>9
    <2> QED BY <2>1, <2>2, <2>3, <2>4 DEF Asked, StoredOf
<1>5. CASE WriteChunkFile \/ Publish \/ Return
    <2>1. stage'[Download] \in {"asking", "publishing", "idle"}
        BY <1>1, <1>5 DEF WriteChunkFile, Publish, Return
    <2> QED BY <1>3, <2>1
<1>6. CASE WriteChunkError \/ Deliver
    BY <1>2, <1>6 DEF WriteChunkError, Deliver, update
<1>7. ASSUME NEW j \in Jobs, AskWritten(j) PROVE Asked'
    <2>1. asked'[Download] = asked[Download] /\ stage'[Download] = stage[Download]
          /\ UNCHANGED <<chunk, stored>>
        BY <1>1, <1>7 DEF AskWritten
    <2> QED BY <2>1 DEF Asked, StoredOf
<1>8. ASSUME NEW u \in Updaters, Update(u) PROVE Asked'
    <2>1. UNCHANGED <<chunk, stored>>
        BY <1>8 DEF Update, UpdateWritten, UpdateProgress, UpdateBytesLeft, CalcSpeed,
                    UpdateTimeToComplete
    <2>2. CASE u # Download
        <3>1. asked'[Download] = asked[Download] /\ stage'[Download] = stage[Download]
            BY <1>1, <1>8, <2>2 DEF Update, UpdateWritten, UpdateProgress, UpdateBytesLeft, CalcSpeed,
                    UpdateTimeToComplete
        <3> QED BY <2>1, <3>1 DEF Asked, StoredOf
    <2>3. CASE u = Download /\ UpdateTimeToComplete(u)
        <3>1. stage'[Download] = "publish"
            BY <1>1, <2>3 DEF UpdateTimeToComplete
        <3> QED BY <1>3, <3>1
    <2>4. CASE u = Download /\ ~UpdateTimeToComplete(u)
        <3>1. stage[Download] \in {"written", "progress", "left", "speed", "time"} /\ asked' = asked
            BY <1>8, <2>4 DEF Update, UpdateWritten, UpdateProgress, UpdateBytesLeft, CalcSpeed
        <3> QED BY <2>1, <3>1 DEF Asked, StoredOf
    <2> QED BY <2>2, <2>3, <2>4
<1>9. ASSUME NEW s \in Sockets, SocketAction(s) PROVE Asked'
    BY <1>2, <1>9, Apart
<1>10. ASSUME NEW m \in Monitors, MonitorAction(m) PROVE Asked'
    BY <1>2, <1>10, Apart DEF update
<1>11. CASE UNCHANGED vars
    BY <1>2, <1>11, Apart DEF update
<1> QED BY <1>4, <1>5, <1>6, <1>7, <1>8, <1>9, <1>10, <1>11, Steps DEF HandlerAction

(* Once it is set Written does, too. *)
LEMMA CoversStep ==
    ASSUME Types, AtWork, Asked, Covers, [Next]_vars
    PROVE  Covers'
<1>1. stage \in [Updaters -> Stages] /\ stored \in Seq(Messages)
      /\ Download \in Updaters /\ Jobs \subseteq Updaters /\ Download \notin Jobs
    BY DEF Types, Updaters, ProgressAssumption
<1>2. ASSUME UNCHANGED <<by, written, chunk, stored>>,
             stage'[Download] \notin {"asking", "written"} =>
                stage[Download] \notin {"asking", "written"}
      PROVE  Covers'
    BY <1>2 DEF Covers, StoredOf
<1>3. CASE WriteChunkFile
    <2>1. PICK h \in Messages : h = Head(queue)
        BY <1>3, HeadTail DEF Types, WriteChunkFile
    <2>2. /\ stored' = Append(stored, h) /\ chunk' = h
          /\ stage[Download] = "idle" /\ stage'[Download] = "asking"
          /\ UNCHANGED <<by, written>>
        BY <1>1, <1>3, <2>1 DEF WriteChunkFile, track
    <2> SUFFICES ASSUME by \in Sockets, by # h[1], NEW i \in StoredOf(by)'
                 PROVE  written >= Ends[by][i]
        BY <2>2 DEF Covers
    <2>3. PICK k \in DOMAIN stored' : stored'[k] = <<by, i>>
        BY <2>2 DEF StoredOf
    <2>4. stored'[k] # h
        BY <2>3
    <2>5. k \in DOMAIN stored /\ stored[k] = <<by, i>>
        BY <1>1, <2>2, <2>3, <2>4, Appended
    <2>6. i \in StoredOf(by)
        BY <2>2, <2>5 DEF StoredOf
    <2> QED BY <2>2, <2>6 DEF Covers
<1>4. CASE AskRead
    BY <1>1, <1>4 DEF AskRead, Covers, StoredOf, track
<1>5. CASE Publish
    <2>1. UNCHANGED <<by, written, chunk, stored>> /\ stage[Download] = "publish"
        BY <1>5 DEF Publish, track
    <2> QED BY <1>2, <2>1
<1>6. CASE Return
    <2>1. UNCHANGED <<by, written, stored>> /\ stage[Download] = "publishing"
        BY <1>6 DEF Return, track
    <2> QED BY <2>1 DEF Covers, StoredOf
<1>7. CASE WriteChunkError \/ Deliver
    BY <1>2, <1>7 DEF WriteChunkError, Deliver, update, track
<1>8. ASSUME NEW j \in Jobs, AskWritten(j) PROVE Covers'
    <2>1. stage'[Download] = stage[Download] /\ UNCHANGED <<by, written, chunk, stored>>
        BY <1>1, <1>8 DEF AskWritten, track
    <2> QED BY <1>2, <2>1
<1>9. ASSUME NEW u \in Updaters, Update(u) PROVE Covers'
    <2>1. CASE UpdateWritten(u) /\ u = Download
        <3>1. /\ written' = asked[Download][1] /\ by' = chunk[1]
              /\ stage[Download] = "written" /\ UNCHANGED <<chunk, stored>>
            BY <2>1 DEF UpdateWritten, Done, Source
        <3>2. \A i \in StoredOf(chunk[1]) : written' >= Ends[chunk[1]][i]
            BY <3>1 DEF Asked
        <3> QED BY <3>1, <3>2 DEF Covers, StoredOf
    <2>2. CASE UpdateWritten(u) /\ u # Download
        <3>1. by' = u /\ u \in Jobs
            BY <2>2 DEF UpdateWritten, Source, Updaters
        <3>2. by' \notin Sockets
            BY <3>1 DEF ProgressAssumption
        <3> QED BY <3>2 DEF Covers
    <2>3. CASE UpdateProgress(u) \/ UpdateBytesLeft(u) \/ CalcSpeed(u) \/ UpdateTimeToComplete(u)
        <3>1. UNCHANGED <<by, written, chunk, stored>>
            BY <2>3 DEF UpdateProgress, UpdateBytesLeft, CalcSpeed, UpdateTimeToComplete
        <3>2. stage'[Download] \notin {"asking", "written"} =>
                stage[Download] \notin {"asking", "written"}
            <4>1. stage[u] \in {"progress", "left", "speed", "time"} /\ \E w : stage' = [stage EXCEPT ![u] = w]
                BY <2>3 DEF UpdateProgress, UpdateBytesLeft, CalcSpeed, UpdateTimeToComplete
            <4>2. CASE u = Download
                BY <4>1, <4>2
            <4>3. CASE u # Download
                BY <1>1, <4>1, <4>3
            <4> QED BY <4>2, <4>3
        <3> QED BY <1>2, <3>1, <3>2
    <2> QED BY <1>9, <2>1, <2>2, <2>3 DEF Update
<1>10. ASSUME NEW s \in Sockets, SocketAction(s) PROVE Covers'
    BY <1>2, <1>10, Apart
<1>11. ASSUME NEW m \in Monitors, MonitorAction(m) PROVE Covers'
    BY <1>2, <1>11, Apart DEF update, track
<1>12. CASE UNCHANGED vars
    BY <1>2, <1>12, Apart DEF update, track
<1> QED BY <1>3, <1>4, <1>5, <1>6, <1>7, <1>8, <1>9, <1>10, <1>11, <1>12, Steps DEF HandlerAction

(* The chunk stored last is one of those stored of its connection. *)
LEMMA LastIsStored ==
    ASSUME Types, stored # <<>>
    PROVE  /\ stored[Len(stored)] \in Messages
           /\ stored[Len(stored)][2] \in StoredOf(stored[Len(stored)][1])
<1>1. stored \in Seq(Messages)
    BY DEF Types
<1>2. Len(stored) \in 1..Len(stored) /\ DOMAIN stored = 1..Len(stored)
    BY <1>1
<1>3. PICK m \in Messages : m = stored[Len(stored)]
    BY <1>1, <1>2, Element
<1>4. m = <<m[1], m[2]>> /\ m[2] \in DOMAIN Ends[m[1]]
    BY Messaging
<1>5. m[2] \in StoredOf(m[1])
    BY <1>2, <1>3, <1>4 DEF StoredOf
<1> QED BY <1>3, <1>5

(* Without jobs Written and Progress follow the chunk stored last. *)
LEMMA SettledStep ==
    ASSUME Types, AtWork, Asked, Settled, [Next]_vars
    PROVE  Settled'
<1>1. stage \in [Updaters -> Stages] /\ Download \in Updaters /\ Jobs \subseteq Updaters
      /\ Download \notin Jobs
    BY DEF Types, Updaters, ProgressAssumption
<1>2. ASSUME UNCHANGED <<stage, stored, written, progress, asked>> PROVE Settled'
    BY <1>2 DEF Settled, AllIdle
<1>3. CASE WriteChunkFile \/ AskRead
    <2>1. stage'[Download] \in {"asking", "written"}
        BY <1>1, <1>3 DEF WriteChunkFile, AskRead
    <2> QED BY <2>1 DEF Settled
<1>4. CASE Publish \/ Return
    <2>1. /\ stage[Download] \in {"publish", "publishing"}
          /\ stage'[Download] \in {"publishing", "idle"}
          /\ \A j \in Jobs : stage'[j] = stage[j]
          /\ UNCHANGED <<stored, written, progress>>
        BY <1>1, <1>4 DEF Publish, Return, track
    <2>2. AllIdle' => AllIdle
        BY <2>1 DEF AllIdle
    <2> QED BY <2>1, <2>2 DEF Settled
<1>5. CASE WriteChunkError \/ Deliver
    BY <1>2, <1>5 DEF WriteChunkError, Deliver, update, track
<1>6. ASSUME NEW j \in Jobs, stage'[j] # "idle" PROVE Settled'
    BY <1>6 DEF Settled, AllIdle
<1>7. ASSUME NEW j \in Jobs, AskWritten(j) PROVE Settled'
    <2>1. stage'[j] # "idle"
        BY <1>1, <1>7 DEF AskWritten
    <2> QED BY <1>6, <2>1
<1>8. ASSUME NEW u \in Updaters, Update(u) PROVE Settled'
    <2>1. CASE u # Download
        <3>1. u \in Jobs
            BY <2>1 DEF Updaters
        <3>2. stage'[u] # "idle"
            BY <1>1, <1>8 DEF Update, UpdateWritten, UpdateProgress, UpdateBytesLeft, CalcSpeed,
                UpdateTimeToComplete
        <3> QED BY <1>6, <3>1, <3>2
    <2>2. CASE u = Download
        <3>1. stage[Download] # "idle" /\ UNCHANGED stored
            BY <1>8, <2>2 DEF Update, UpdateWritten, UpdateProgress, UpdateBytesLeft, CalcSpeed,
                UpdateTimeToComplete
        <3>2. stored # <<>> /\ chunk = stored[Len(stored)]
            BY <3>1 DEF AtWork
        <3>3. \A j \in Jobs : stage'[j] = stage[j]
            BY <1>1, <1>8, <2>2 DEF Update, UpdateWritten, UpdateProgress, UpdateBytesLeft, CalcSpeed,
                UpdateTimeToComplete
        <3>4. AllIdle' => AllIdle
            BY <3>3 DEF AllIdle
        <3>5. CASE UpdateWritten(u)
            <4>1. stage[Download] = "written" /\ stage'[Download] = "progress"
                  /\ written' = asked[Download][1] /\ asked' = asked
                BY <1>1, <2>2, <3>5 DEF UpdateWritten, Done
            <4>2. asked[Download][1] >= Ends[stored[Len(stored)][1]][stored[Len(stored)][2]]
                BY <3>2, <4>1, LastIsStored DEF Asked
            <4> QED BY <3>1, <4>1, <4>2 DEF Settled
        <3>6. CASE UpdateProgress(u) /\ toComplete = 0
            <4>1. stage[Download] = "progress" /\ stage'[Download] = "panicked"
                  /\ written' = written
                BY <1>1, <2>2, <3>6 DEF UpdateProgress
            <4> QED BY <3>1, <3>2, <3>4, <4>1 DEF Settled
        <3>7. CASE UpdateProgress(u) /\ toComplete # 0
            <4>1. stage[Download] = "progress" /\ stage'[Download] = "left"
                  /\ written' = written /\ progress'[1] = asked[Download][1]
                BY <1>1, <2>2, <3>7 DEF UpdateProgress, Done
            <4> QED BY <3>1, <3>2, <3>4, <4>1 DEF Settled
        <3>8. CASE UpdateBytesLeft(u) \/ CalcSpeed(u) \/ UpdateTimeToComplete(u)
            <4>1. /\ stage[Download] \in {"left", "speed", "time"}
                  /\ stage'[Download] \in {"speed", "time", "publish"}
                  /\ UNCHANGED <<written, progress>>
                BY <1>1, <2>2, <3>8 DEF UpdateBytesLeft, CalcSpeed, UpdateTimeToComplete
            <4> QED BY <3>1, <3>4, <4>1 DEF Settled
        <3> QED BY <1>8, <3>5, <3>6, <3>7, <3>8 DEF Update
    <2> QED BY <2>1, <2>2
<1>9. ASSUME NEW s \in Sockets, SocketAction(s) PROVE Settled'
    BY <1>2, <1>9, Apart
<1>10. ASSUME NEW m \in Monitors, MonitorAction(m) PROVE Settled'
    BY <1>2, <1>10, Apart DEF update, track
<1>11. CASE UNCHANGED vars
    BY <1>2, <1>11, Apart DEF update, track
<1> QED BY <1>3, <1>4, <1>5, <1>7, <1>8, <1>9, <1>10, <1>11, Steps DEF HandlerAction

(* The time stays defined: bytesLeft lacks something of toComplete. *)
LEMMA RestStep ==
    ASSUME Types, AtWork, Asked, Rest, TimeIsDefined, [Next]_vars
    PROVE  Rest' /\ TimeIsDefined'
<1>1. stage \in [Updaters -> Stages] /\ asked \in [Updaters -> Nat \X Nat]
      /\ Download \in Updaters /\ Jobs \subseteq Updaters /\ Download \notin Jobs
      /\ Updaters = Jobs \cup {Download}
      /\ toComplete \in Nat /\ bytesLeft \in Int
    BY DEF Types, Updaters, ProgressAssumption
<1>2. ASSUME UNCHANGED <<toComplete, bytesLeft, timeToComplete, filed, stage, asked>>
      PROVE Rest' /\ TimeIsDefined'
    BY <1>2 DEF Rest, TimeIsDefined, SeveralFiles, NothingSent
<1>3. ASSUME NEW s \in Sockets, SetToComplete(s) PROVE Rest' /\ TimeIsDefined'
    <2>1. /\ s \notin filed /\ filed' = filed \cup {s}
          /\ UNCHANGED <<bytesLeft, timeToComplete, stage, asked>>
        BY <1>3 DEF SetToComplete
    <2>2. NothingSent => NothingSent'
        BY <2>1 DEF NothingSent
    <2>3. CASE filed = {}
        <3>1. toComplete = 0 /\ ~SeveralFiles
            BY <2>3 DEF Rest, SeveralFiles
        <3>2. \A u \in Updaters : stage[u] \notin {"left", "speed", "time"}
            BY <3>1 DEF Rest
        <3>3. Rest'
            BY <2>1, <2>2, <3>1, <3>2 DEF Rest
        <3>4. TimeIsDefined'
            BY <2>1, <2>3 DEF TimeIsDefined, NothingSent
        <3> QED BY <3>3, <3>4
    <2>4. CASE filed # {}
        <3>1. SeveralFiles'
            BY <2>1, <2>4 DEF SeveralFiles
        <3>2. filed' # {}
            BY <2>1
        <3> QED BY <2>1, <3>1, <3>2 DEF Rest, TimeIsDefined, SeveralFiles
    <2> QED BY <2>3, <2>4
<1>4. ASSUME NEW s \in Sockets, Read(s) PROVE Rest' /\ TimeIsDefined'
    BY <1>2, <1>4 DEF Read, track, update
<1>5. CASE WriteChunkError \/ Deliver
    BY <1>2, <1>5 DEF WriteChunkError, Deliver, track, update
(* Steps of an updater that set none of the numbers. *)
<1>6. ASSUME NEW u \in Updaters, NEW w, stage' = [stage EXCEPT ![u] = w],
             w \notin {"left", "speed", "time"},
             UNCHANGED <<toComplete, bytesLeft, timeToComplete, filed>>,
             u \in Jobs => w # "idle" /\ (w \in {"written", "progress"} => asked'[u][1] = Sent[u]),
             \A j \in Jobs \ {u} : asked'[j] = asked[j]
      PROVE  Rest' /\ TimeIsDefined'
    <2>1. SeveralFiles' <=> SeveralFiles
        BY <1>6 DEF SeveralFiles
    <2>2. NothingSent => NothingSent'
        BY <1>1, <1>6 DEF NothingSent
    <2>3. \A v \in Updaters : stage'[v] = IF v = u THEN w ELSE stage[v]
        BY <1>1, <1>6
    <2>4. \A v \in Updaters : stage'[v] \in {"left", "speed", "time"} =>
             stage[v] \in {"left", "speed", "time"}
        BY <1>6, <2>3
    <2>5. \A v \in Updaters : stage'[v] \in {"speed", "time"} => stage[v] \in {"speed", "time"}
        BY <1>6, <2>3
    <2>6. \A j \in Jobs : stage'[j] \in {"written", "progress", "left"} => asked'[j][1] = Sent[j]
        BY <1>1, <1>6, <2>3 DEF Rest
    <2>7. Rest'
        BY <1>6, <2>1, <2>2, <2>4, <2>5, <2>6 DEF Rest
    <2>8. TimeIsDefined'
        BY <1>6, <2>1, <2>2 DEF TimeIsDefined, SeveralFiles, NothingSent
    <2> QED BY <2>7, <2>8
<1>7. CASE WriteChunkFile \/ AskRead \/ Publish \/ Return
    <2>1. PICK w \in {"asking", "written", "publishing", "idle"} : stage' = [stage EXCEPT ![Download] = w]
        BY <1>7 DEF WriteChunkFile, AskRead, Publish, Return
    <2>2. UNCHANGED <<toComplete, bytesLeft, timeToComplete, filed>>
        BY <1>7 DEF WriteChunkFile, AskRead, Publish, Return, track
    <2>3. \A j \in Jobs \ {Download} : asked'[j] = asked[j]
        BY <1>1, <1>7 DEF WriteChunkFile, AskRead, Publish, Return
    <2> QED BY <1>1, <1>6, <2>1, <2>2, <2>3
<1>8. ASSUME NEW j \in Jobs, AskWritten(j) PROVE Rest' /\ TimeIsDefined'
    <2>1. /\ stage' = [stage EXCEPT ![j] = "written"]
          /\ asked' = [asked EXCEPT ![j] = <<Sent[j], 0>>]
          /\ UNCHANGED <<toComplete, bytesLeft, timeToComplete, filed>>
        BY <1>8 DEF AskWritten, track
    <2>2. asked'[j][1] = Sent[j] /\ \A k \in Jobs \ {j} : asked'[k] = asked[k]
        BY <1>1, <2>1
    <2> QED BY <1>1, <1>6, <2>1, <2>2
<1>9. ASSUME NEW u \in Updaters, Update(u) PROVE Rest' /\ TimeIsDefined'
    <2>1. CASE UpdateWritten(u)
        <3>1. /\ stage' = [stage EXCEPT ![u] = "progress"] /\ stage[u] = "written" /\ asked' = asked
              /\ UNCHANGED <<toComplete, bytesLeft, timeToComplete, filed>>
            BY <2>1 DEF UpdateWritten
        <3>2. u \in Jobs => asked'[u][1] = Sent[u]
            BY <3>1 DEF Rest
        <3> QED BY <1>6, <3>1, <3>2
    <2>2. CASE UpdateProgress(u) /\ toComplete = 0
        <3>1. /\ stage' = [stage EXCEPT ![u] = "panicked"] /\ asked' = asked
              /\ UNCHANGED <<toComplete, bytesLeft, timeToComplete, filed>>
            BY <2>2 DEF UpdateProgress
        <3> QED BY <1>6, <3>1
    <2>3. CASE UpdateProgress(u) /\ toComplete # 0
        <3>1. /\ stage' = [stage EXCEPT ![u] = "left"] /\ stage[u] = "progress" /\ asked' = asked
              /\ UNCHANGED <<toComplete, bytesLeft, timeToComplete, filed>>
            BY <2>3 DEF UpdateProgress
        <3>2. \A v \in Updaters : stage'[v] = IF v = u THEN "left" ELSE stage[v]
            BY <1>1, <3>1
        <3>3. SeveralFiles' <=> SeveralFiles
            BY <3>1 DEF SeveralFiles
        <3>4. NothingSent => NothingSent'
            BY <1>1, <3>1, <3>2 DEF NothingSent
        <3>5. \A j \in Jobs : stage'[j] \in {"written", "progress", "left"} => asked'[j][1] = Sent[j]
            BY <1>1, <3>1, <3>2 DEF Rest
        <3>6. (\A v \in Updaters : stage[v] \notin {"speed", "time"}) =>
                 \A v \in Updaters : stage'[v] \notin {"speed", "time"}
            BY <3>2
        <3>7. Rest'
            BY <2>3, <3>1, <3>3, <3>4, <3>5, <3>6 DEF Rest
        <3>8. TimeIsDefined'
            BY <3>1, <3>3, <3>4 DEF TimeIsDefined, SeveralFiles, NothingSent
        <3> QED BY <3>7, <3>8
    <2>4. CASE UpdateBytesLeft(u)
        <3>1. /\ stage' = [stage EXCEPT ![u] = "speed"] /\ stage[u] = "left" /\ asked' = asked
              /\ bytesLeft' = toComplete - asked[u][1]
              /\ UNCHANGED <<toComplete, timeToComplete, filed>>
            BY <2>4 DEF UpdateBytesLeft, Done
        <3>2. \A v \in Updaters : stage'[v] = IF v = u THEN "speed" ELSE stage[v]
            BY <1>1, <3>1
        <3>3. SeveralFiles' <=> SeveralFiles
            BY <3>1 DEF SeveralFiles
        <3>4. NothingSent => NothingSent'
            BY <1>1, <3>1, <3>2 DEF NothingSent
        <3>5. \A j \in Jobs : stage'[j] \in {"written", "progress", "left"} => asked'[j][1] = Sent[j]
            BY <1>1, <3>1, <3>2 DEF Rest
        <3>6. toComplete # 0 \/ SeveralFiles
            BY <3>1 DEF Rest
        <3>7. asked[u][1] \in Nat
            BY <1>1
        <3>8. asked[u][1] # 0 \/ NothingSent'
            <4>1. CASE u = Download
                <5>1. stored # <<>> /\ chunk = stored[Len(stored)]
                    BY <3>1, <4>1 DEF AtWork
                <5>2. PICK m \in Messages : m = chunk /\ m[2] \in StoredOf(m[1])
                    BY <5>1, LastIsStored
                <5>3. asked[u][1] >= Ends[m[1]][m[2]]
                    BY <3>1, <4>1, <5>2 DEF Asked
                <5>4. Ends[m[1]][m[2]] \in Nat \ {0}
                    BY Messaging
                <5> QED BY <3>7, <5>3, <5>4
            <4>2. CASE u \in Jobs
                <5>1. asked[u][1] = Sent[u]
                    BY <3>1, <4>2 DEF Rest
                <5>2. stage'[u] # "idle"
                    BY <3>2
                <5> QED BY <4>2, <5>1, <5>2 DEF NothingSent
            <4> QED BY <1>1, <4>1, <4>2
        <3>9. asked[u][1] # 0 => toComplete' - bytesLeft' > 0
            BY <1>1, <3>1, <3>7
        <3>10. toComplete' # 0 => filed' # {}
            BY <3>1 DEF Rest
        <3>11. \A v \in Updaters : stage'[v] \in {"left", "speed", "time"} => toComplete' # 0 \/ SeveralFiles'
            BY <3>1, <3>3, <3>6
        <3>12. \/ SeveralFiles' \/ NothingSent'
               \/ toComplete' # 0 /\ toComplete' - bytesLeft' > 0
            BY <3>1, <3>3, <3>6, <3>8, <3>9
        <3>13. Rest'
            BY <3>5, <3>10, <3>11, <3>12 DEF Rest
        <3>14. TimeIsDefined'
            BY <3>1, <3>3, <3>4 DEF TimeIsDefined, SeveralFiles, NothingSent
        <3> QED BY <3>13, <3>14
    <2>5. CASE CalcSpeed(u)
        <3>1. /\ stage' = [stage EXCEPT ![u] = "time"] /\ stage[u] = "speed" /\ asked' = asked
              /\ UNCHANGED <<toComplete, bytesLeft, timeToComplete, filed>>
            BY <2>5 DEF CalcSpeed
        <3>2. \A v \in Updaters : stage'[v] = IF v = u THEN "time" ELSE stage[v]
            BY <1>1, <3>1
        <3>3. SeveralFiles' <=> SeveralFiles
            BY <3>1 DEF SeveralFiles
        <3>4. NothingSent => NothingSent'
            BY <1>1, <3>1, <3>2 DEF NothingSent
        <3>5. \A j \in Jobs : stage'[j] \in {"written", "progress", "left"} => asked'[j][1] = Sent[j]
            BY <1>1, <3>1, <3>2 DEF Rest
        <3>6. toComplete # 0 \/ SeveralFiles
            BY <3>1 DEF Rest
        <3>7. SeveralFiles \/ NothingSent \/ (toComplete # 0 /\ toComplete - bytesLeft > 0)
            BY <3>1 DEF Rest
        <3>8. Rest'
            BY <3>1, <3>3, <3>4, <3>5, <3>6, <3>7 DEF Rest
        <3>9. TimeIsDefined'
            BY <3>1, <3>3, <3>4 DEF TimeIsDefined, SeveralFiles, NothingSent
        <3> QED BY <3>8, <3>9
    <2>6. CASE UpdateTimeToComplete(u)
        <3>1. PICK w \in {"publish", "done"} : stage' = [stage EXCEPT ![u] = w]
            BY <2>6 DEF UpdateTimeToComplete
        <3>2. /\ stage[u] = "time" /\ asked' = [asked EXCEPT ![u] = <<0, 0>>]
              /\ timeToComplete' = <<toComplete - bytesLeft, speed[u]>>
              /\ UNCHANGED <<toComplete, bytesLeft, filed>>
            BY <2>6 DEF UpdateTimeToComplete
        <3>3. \A v \in Updaters : stage'[v] = IF v = u THEN w ELSE stage[v]
            BY <1>1, <3>1
        <3>4. SeveralFiles' <=> SeveralFiles
            BY <3>2 DEF SeveralFiles
        <3>5. NothingSent => NothingSent'
            BY <1>1, <3>3 DEF NothingSent
        <3>6. \A j \in Jobs : stage'[j] \in {"written", "progress", "left"} => asked'[j][1] = Sent[j]
            BY <1>1, <3>2, <3>3 DEF Rest
        <3>7. SeveralFiles \/ NothingSent \/ (toComplete # 0 /\ toComplete - bytesLeft > 0)
            BY <3>2 DEF Rest
        <3>8. \A v \in Updaters : stage'[v] \in {"left", "speed", "time"} =>
                 toComplete # 0 \/ SeveralFiles
            BY <3>3 DEF Rest
        <3>9. toComplete # 0 => filed # {}
            BY DEF Rest
        <3>10. Rest'
            BY <3>2, <3>4, <3>5, <3>6, <3>7, <3>8, <3>9 DEF Rest
        <3>11. TimeIsDefined'
            <4>1. toComplete - bytesLeft > 0 => ~Undefined(timeToComplete')
                BY <1>1, <3>2 DEF Undefined
            <4> QED BY <3>4, <3>5, <3>7, <4>1 DEF TimeIsDefined, SeveralFiles, NothingSent, Undefined
        <3> QED BY <3>10, <3>11
    <2> QED BY <1>9, <2>1, <2>2, <2>3, <2>4, <2>5, <2>6 DEF Update
<1>10. ASSUME NEW m \in Monitors, MonitorAction(m) PROVE Rest' /\ TimeIsDefined'
    BY <1>2, <1>10, Apart DEF update, track
<1>11. CASE UNCHANGED vars
    BY <1>2, <1>11, Apart DEF update, track
<1> QED BY <1>3, <1>4, <1>5, <1>7, <1>8, <1>9, <1>10, <1>11, Steps DEF HandlerAction, SocketAction

----------------------------------------------------------------------------
(* The hub trackk as the node sees it: one key, one publisher. *)

(* What is used of the invariant of the hub. *)
LEMMA HubTypes ==
    ASSUME HubProofs!IInv
    PROVE  /\ HubProofs!TypeOK
           /\ subscribers[TKEY] \in SUBSET Monitors /\ subscribers \in [{TKEY} -> SUBSET Monitors]
           /\ slot \in [Monitors -> Nat] /\ last[TKEY] \in Nat
           /\ pc \in [{Download} -> {"idle", "sending", "panicked"}]
           /\ pending[Download] \in SUBSET Monitors
           /\ home \in [Monitors -> {TKEY, None}] /\ TKEY # None
           /\ published \in Nat
           /\ born \in [Monitors -> Nat] /\ replayed \in [Monitors -> Nat]
           /\ \A m \in Monitors : born[m] <= published
           /\ pending[Download] = {} <=> pc[Download] # "sending"
<1>1. HubProofs!TypeOK /\ HubProofs!Numbers /\ HubProofs!Senders
    BY DEF HubProofs!IInv, HubProofs!Shape
<1>2. HubProofs!Parcels \subseteq Nat /\ HubProofs!NoParcel \in Nat /\ 0..MaxReports \subseteq Nat
      /\ TKEY # None
    BY DEF HubProofs!Parcels, HubProofs!NoParcel, ProgressAssumption
<1>3. /\ subscribers \in [{TKEY} -> SUBSET Monitors]
      /\ pc \in [{Download} -> {"idle", "sending", "panicked"}]
      /\ pending[Download] \in SUBSET Monitors
      /\ home \in [Monitors -> {TKEY, None}]
    BY <1>1 DEF HubProofs!TypeOK
<1>4. /\ slot \in [Monitors -> HubProofs!Parcels \cup {HubProofs!NoParcel}]
      /\ replayed \in [Monitors -> HubProofs!Parcels \cup {HubProofs!NoParcel}]
      /\ last \in [{TKEY} -> HubProofs!Parcels \cup {HubProofs!NoParcel}]
      /\ published \in 0..MaxReports /\ born \in [Monitors -> 0..MaxReports]
    BY <1>1 DEF HubProofs!TypeOK
<1>5. /\ slot \in [Monitors -> Nat] /\ last[TKEY] \in Nat /\ published \in Nat
      /\ born \in [Monitors -> Nat] /\ replayed \in [Monitors -> Nat]
    <2>1. /\ \A m \in Monitors : slot[m] \in Nat /\ replayed[m] \in Nat /\ born[m] \in Nat
          /\ last[TKEY] \in Nat /\ published \in Nat
        BY <1>2, <1>4
    <2>2. slot \in [Monitors -> Nat]
        BY <1>4, <2>1
    <2>3. replayed \in [Monitors -> Nat]
        BY <1>4, <2>1
    <2>4. born \in [Monitors -> Nat]
        BY <1>4, <2>1
    <2> QED BY <2>1, <2>2, <2>3, <2>4
<1>6. \A m \in Monitors : born[m] <= published
    BY <1>1 DEF HubProofs!Numbers
<1>7. pending[Download] = {} <=> pc[Download] # "sending"
    BY <1>1 DEF HubProofs!Senders
<1> QED BY <1>1, <1>2, <1>3, <1>4, <1>5, <1>6, <1>7

(* What Publish, a panic in it, Subscribe, a receipt and Unsubscribe do to the
   channels of the monitors. *)
LEMMA PublishEffect ==
    ASSUME HubProofs!IInv, Hub!Publish(Download, TKEY)
    PROVE  /\ pc[Download] = "idle" /\ pc'[Download] # "panicked"
           /\ pending'[Download] = subscribers[TKEY]
           /\ UNCHANGED <<subscribers, slot, home, born, replayed>>
<1>1. HubProofs!Publish(Download, TKEY) /\ HubProofs!CheetahAssumption
    BY HubSame
<1>2. HubProofs!TypeOK /\ subscribers[TKEY] \in SUBSET Monitors
    BY HubTypes
<1>3. /\ pc[Download] = "idle" /\ HubProofs!Advance(Download, subscribers[TKEY])
      /\ UNCHANGED <<subscribers, slot, home, born, replayed>>
    BY <1>1 DEF HubProofs!Publish
<1>4. pending'[Download] = subscribers[TKEY] /\ pc'[Download] # "panicked"
    BY <1>1, <1>2, <1>3, HubProofs!AdvanceEffect
<1> QED BY <1>3, <1>4

(* Send gives the parcel to one channel, which is served then. *)
LEMMA SendEffect ==
    ASSUME HubProofs!IInv, Hub!Send(Download)
    PROVE  /\ pc[Download] = "sending"
           /\ UNCHANGED <<subscribers, home, born, replayed, published>>
           /\ \E t \in Monitors :
                 /\ slot'[t] # HubProofs!NoParcel
                 /\ \A m \in Monitors \ {t} : slot'[m] = slot[m]
                 /\ pending'[Download] = pending[Download] \ {t}
<1>1. HubProofs!Send(Download) /\ HubProofs!CheetahAssumption
    BY HubSame
<1>2. HubProofs!TypeOK /\ HubProofs!Senders /\ pending[Download] \in SUBSET Monitors
      /\ slot \in [Monitors -> Nat]
    BY HubTypes DEF HubProofs!IInv, HubProofs!Shape
<1>3. /\ pc[Download] = "sending"
      /\ HubProofs!Advance(Download, pending[Download] \ {target[Download]})
      /\ slot' = [slot EXCEPT ![target[Download]] = parcel[Download]]
      /\ UNCHANGED <<subscribers, home, born, replayed, published>>
    BY <1>1 DEF HubProofs!Send, HubProofs!history
<1>4. target[Download] \in Monitors /\ parcel[Download] # HubProofs!NoParcel
    BY <1>2, <1>3 DEF HubProofs!Senders
<1>5. pending[Download] \ {target[Download]} \in SUBSET Monitors
    BY <1>2
<1>6. pending'[Download] = pending[Download] \ {target[Download]}
    BY <1>1, <1>2, <1>3, <1>5, HubProofs!AdvanceEffect
<1> QED BY <1>2, <1>3, <1>4, <1>6

(* A panic leaves the registration alone. *)
LEMMA PanicEffect ==
    ASSUME HubProofs!IInv, Hub!Panic(Download)
    PROVE  /\ pc[Download] = "sending" /\ pc'[Download] = "panicked"
           /\ UNCHANGED <<subscribers, home>>
    BY HubTypes DEF Hub!Panic, Hub!history

(* A subscription replays the latch to its own channel only. *)
LEMMA SubscribeEffect ==
    ASSUME HubProofs!IInv, NEW c \in Monitors, Hub!Subscribe(c, TKEY)
    PROVE  /\ home'[c] = TKEY /\ c \in subscribers'[TKEY]
           /\ born'[c] = published /\ slot'[c] = replayed'[c]
           /\ subscribers[TKEY] \subseteq subscribers'[TKEY]
           /\ \A m \in Monitors \ {c} :
                 /\ home'[m] = home[m] /\ slot'[m] = slot[m]
                 /\ born'[m] = born[m] /\ replayed'[m] = replayed[m]
           /\ UNCHANGED <<pc, pending, published>>
    BY HubTypes DEF Hub!Subscribe

(* A receipt empties its own channel only. *)
LEMMA ReceiveEffect ==
    ASSUME HubProofs!IInv, NEW c \in Monitors, Hub!Receive(c)
    PROVE  /\ \A m \in Monitors \ {c} : slot'[m] = slot[m]
           /\ UNCHANGED <<subscribers, home, born, replayed, pc, pending, published>>
    BY HubTypes DEF Hub!Receive

(* Who leaves takes nobody else along. *)
LEMMA UnsubscribeEffect ==
    ASSUME HubProofs!IInv, NEW c \in Monitors, Hub!Unsubscribe(c)
    PROVE  /\ home[c] # None
           /\ \A m \in Monitors \ {c} : m \in subscribers[TKEY] => m \in subscribers'[TKEY]
           /\ UNCHANGED <<slot, home, born, replayed, pc, pending, published>>
<1>1. /\ home[c] # None /\ subscribers' = [subscribers EXCEPT ![home[c]] = @ \ {c}]
      /\ UNCHANGED <<slot, home, born, replayed, pc, pending, published>>
    BY DEF Hub!Unsubscribe, Hub!Subscribed, Hub!history
<1>2. home[c] = TKEY
    BY <1>1, HubTypes
<1> QED BY <1>1, <1>2, HubTypes

----------------------------------------------------------------------------

(* Each step keeps the monitors subscribed while they wait. *)
LEMMA MembersStep ==
    ASSUME Types, AtWork, Members, HubProofs!IInv, [Next]_vars
    PROVE  Members'
<1>1. /\ stage \in [Updaters -> Stages] /\ Download \in Updaters
      /\ Download \notin Jobs /\ Updaters = Jobs \cup {Download}
      /\ fwd \in [Monitors -> {"none", "starting", "waiting", "holding", "gone"}]
    BY DEF Types, Updaters, ProgressAssumption
<1>2. ASSUME UNCHANGED <<hub, fwd>>,
             stage'[Download] # stage[Download] => stage[Download] # "publishing" \/ pc[Download] = "idle"
      PROVE Members'
    BY <1>2 DEF Members, hub
<1>3. CASE WriteChunkFile \/ WriteChunkError \/ AskRead \/ Return
    BY <1>2, <1>3 DEF WriteChunkFile, WriteChunkError, AskRead, Return, update, monitor
<1>4. ASSUME NEW s \in Sockets, SocketAction(s) PROVE Members'
    BY <1>2, <1>4 DEF SocketAction, Read, SetToComplete, update, monitor
<1>5. ASSUME NEW j \in Jobs, AskWritten(j) PROVE Members'
    <2>1. stage'[Download] = stage[Download] /\ UNCHANGED <<hub, fwd>>
        BY <1>1, <1>5 DEF AskWritten, monitor
    <2> QED BY <1>2, <2>1
<1>6. ASSUME NEW u \in Updaters, Update(u) PROVE Members'
    <2>1. /\ UNCHANGED <<hub, fwd>> /\ stage[u] # "publishing"
          /\ \A v \in Updaters \ {u} : stage'[v] = stage[v]
        BY <1>1, <1>6 DEF Update, UpdateWritten, UpdateProgress, UpdateBytesLeft, CalcSpeed,
                          UpdateTimeToComplete, monitor
    <2> QED BY <1>1, <1>2, <2>1
<1>7. CASE Publish
    <2>1. UNCHANGED <<subscribers, home>>
        BY <1>7, PublishEffect DEF Publish
    <2>2. stage'[Download] = "publishing" /\ UNCHANGED fwd
        BY <1>1, <1>7 DEF Publish, monitor
    <2> QED BY <2>1, <2>2 DEF Members
<1>8. CASE Deliver
    <2>1. UNCHANGED <<subscribers, home>> /\ pc[Download] # "idle"
        BY <1>8, SendEffect, PanicEffect DEF Deliver
    <2>2. UNCHANGED <<stage, fwd>>
        BY <1>8 DEF Deliver, update, monitor
    <2> QED BY <2>1, <2>2 DEF Members
<1>9. ASSUME NEW m \in Monitors, MonitorAction(m) PROVE Members'
    <2>1. stage' = stage
        BY <1>9, Apart DEF update
    <2>2. CASE GoMonitor(m)
        <3>1. fwd[m] = "none" /\ fwd' = [fwd EXCEPT ![m] = "starting"] /\ UNCHANGED hub
            BY <2>2 DEF GoMonitor
        <3> QED BY <1>1, <2>1, <3>1 DEF Members, hub
    <2>3. CASE Subscribe(m)
        <3>1. /\ fwd[m] = "starting" /\ fwd' = [fwd EXCEPT ![m] = "waiting"]
              /\ Hub!Subscribe(m, TKEY)
            BY <2>3 DEF Subscribe
        <3>2. /\ home'[m] = TKEY /\ TKEY # None /\ m \in subscribers'[TKEY]
              /\ subscribers[TKEY] \subseteq subscribers'[TKEY]
              /\ \A n \in Monitors \ {m} : home'[n] = home[n]
              /\ UNCHANGED pc
            BY <3>1, SubscribeEffect, HubTypes
        <3>3. fwd'[m] = "waiting" /\ \A n \in Monitors \ {m} : fwd'[n] = fwd[n]
            BY <1>1, <3>1
        <3> QED BY <2>1, <3>2, <3>3 DEF Members
    <2>4. CASE Take(m)
        <3>1. /\ fwd[m] = "waiting" /\ fwd' = [fwd EXCEPT ![m] = "holding"]
              /\ UNCHANGED <<subscribers, home, pc>>
            BY <2>4, ReceiveEffect DEF Take
        <3>2. fwd'[m] = "holding" /\ \A n \in Monitors \ {m} : fwd'[n] = fwd[n]
            BY <1>1, <3>1
        <3> QED BY <2>1, <3>1, <3>2 DEF Members
    <2>5. CASE Hand(m)
        <3>1. /\ fwd[m] = "holding" /\ fwd' = [fwd EXCEPT ![m] = "waiting"]
              /\ UNCHANGED <<subscribers, home, pc>>
            BY <2>5 DEF Hand, hub
        <3>2. fwd'[m] = "waiting" /\ \A n \in Monitors \ {m} : fwd'[n] = fwd[n]
            BY <1>1, <3>1
        <3> QED BY <2>1, <3>1, <3>2 DEF Members
    <2>6. CASE Leave(m)
        <3>1. /\ fwd[m] \in {"waiting", "holding"} /\ fwd' = [fwd EXCEPT ![m] = "gone"]
              /\ Hub!Unsubscribe(m)
            BY <2>6 DEF Leave
        <3>2. /\ home[m] # None
              /\ \A n \in Monitors \ {m} : n \in subscribers[TKEY] => n \in subscribers'[TKEY]
              /\ UNCHANGED <<home, pc>>
            BY <3>1, UnsubscribeEffect
        <3>3. fwd'[m] = "gone" /\ \A n \in Monitors \ {m} : fwd'[n] = fwd[n]
            BY <1>1, <3>1
        <3> QED BY <2>1, <3>2, <3>3 DEF Members
    <2>7. CASE Cancel(m) \/ Handle(m) \/ WorkerEnds(m) \/ Document(m)
        BY <1>2, <2>1, <2>7 DEF Cancel, Handle, WorkerEnds, Document
    <2> QED BY <1>9, <2>2, <2>3, <2>4, <2>5, <2>6, <2>7 DEF MonitorAction
<1>10. CASE UNCHANGED vars
    BY <1>2, <1>10 DEF vars, update, monitor
<1> QED BY <1>3, <1>4, <1>5, <1>6, <1>7, <1>8, <1>9, <1>10, Steps DEF HandlerAction

(* Each step keeps a monitor without a report on its way up to date. *)
LEMMA InformedStep ==
    ASSUME Types, AtWork, Members, Informed, HubProofs!IInv, [Next]_vars
    PROVE  Informed'
<1>1. /\ stage \in [Updaters -> Stages] /\ Download \in Updaters
      /\ Download \notin Jobs /\ Updaters = Jobs \cup {Download}
      /\ fwd \in [Monitors -> {"none", "starting", "waiting", "holding", "gone"}]
      /\ look \in [Monitors -> {"idle", "written", "progress", "ended"}]
      /\ out \in [Monitors -> 0..Cap] /\ Cap \in Nat
      /\ report \in [Monitors -> [written : Nat, progress : Pair]]
    BY DEF Types, Updaters, ProgressAssumption
<1> SUFFICES ASSUME NEW m \in Monitors, Due(m)' PROVE Told(m)'
    BY DEF Informed
<1>2. Due(m) => Told(m)
    BY DEF Informed
(* Whoever reports nothing new, to m or to another, leaves m as it is. *)
<1>3. ASSUME UNCHANGED <<stage, stored, written, progress, cancelled>>,
             UNCHANGED <<fwd[m], out[m], look[m], report[m], slot[m], born[m], replayed[m]>>,
             UNCHANGED <<pc, pending, published>>
      PROVE Told(m)'
    BY <1>2, <1>3 DEF Due, Told, AllIdle
<1>4. CASE WriteChunkFile \/ AskRead
    <2>1. stage'[Download] \in {"asking", "written"}
        BY <1>1, <1>4 DEF WriteChunkFile, AskRead
    <2> QED BY <2>1 DEF Due
<1>5. CASE WriteChunkError
    BY <1>3, <1>5 DEF WriteChunkError, hub, track, update, monitor
<1>6. CASE Publish
    <2>1. /\ Hub!Publish(Download, TKEY) /\ stage[Download] = "publish"
          /\ stage' = [stage EXCEPT ![Download] = "publishing"]
          /\ UNCHANGED <<fwd, stored, cancelled>>
        BY <1>6 DEF Publish, monitor
    <2>2. m \in subscribers[TKEY]
        BY <2>1 DEF Due, Members
    <2>3. pending'[Download] = subscribers[TKEY]
        BY <2>1, PublishEffect
    <2>4. stage'[Download] = "publishing"
        BY <1>1, <2>1
    <2> QED BY <2>2, <2>3, <2>4 DEF Due
<1>7. CASE Deliver
    <2>1. /\ Hub!Send(Download) \/ Hub!Panic(Download)
          /\ UNCHANGED <<stage, stored, written, progress, fwd, out, look, report, cancelled>>
        BY <1>7 DEF Deliver, track, update, monitor
    <2>2. CASE Hub!Panic(Download)
        <3>1. pc[Download] = "sending" /\ pc'[Download] = "panicked"
            BY <2>2, PanicEffect
        <3>2. stage[Download] = "publishing"
            BY <3>1 DEF Members
        <3> QED BY <2>1, <3>1, <3>2 DEF Due
    <2>3. CASE Hub!Send(Download)
        <3>1. /\ pc[Download] = "sending"
              /\ UNCHANGED <<born, replayed, published>>
            BY <2>3, SendEffect
        <3>2. PICK t \in Monitors :
                 /\ slot'[t] # HubProofs!NoParcel
                 /\ \A n \in Monitors \ {t} : slot'[n] = slot[n]
                 /\ pending'[Download] = pending[Download] \ {t}
            BY <2>3, SendEffect
        <3>3. CASE t = m
            BY <3>2, <3>3 DEF Told, Hub!NoParcel, HubProofs!NoParcel
        <3>4. CASE t # m
            <4>1. slot'[m] = slot[m] /\ (m \notin pending'[Download] => m \notin pending[Download])
                BY <3>2, <3>4
            <4>2. Due(m)
                BY <2>1, <3>1, <4>1 DEF Due, AllIdle
            <4> QED BY <1>2, <2>1, <4>1, <4>2 DEF Told
        <3> QED BY <3>3, <3>4
    <2> QED BY <2>1, <2>2, <2>3
<1>8. CASE Return
    <2>1. /\ stage[Download] = "publishing" /\ pc[Download] = "idle"
          /\ stage' = [stage EXCEPT ![Download] = "idle"]
          /\ UNCHANGED <<stored, written, progress, hub, monitor>>
        BY <1>8 DEF Return, track
    <2>2. \A j \in Jobs : stage'[j] = stage[j]
        BY <1>1, <2>1
    <2>3. pending[Download] = {}
        BY <2>1, HubTypes
    <2>4. Due(m)
        BY <2>1, <2>2, <2>3 DEF Due, AllIdle, hub, monitor
    <2> QED BY <1>2, <2>1, <2>4 DEF Told, hub, monitor
<1>9. ASSUME NEW j \in Jobs, stage'[j] # "idle" PROVE Told(m)'
    BY <1>9 DEF Due, AllIdle
<1>10. ASSUME NEW j \in Jobs, AskWritten(j) PROVE Told(m)'
    <2>1. stage'[j] # "idle"
        BY <1>1, <1>10 DEF AskWritten
    <2> QED BY <1>9, <2>1
<1>11. ASSUME NEW u \in Updaters, Update(u) PROVE Told(m)'
    <2>1. stage'[u] \notin {"idle", "publishing"}
        BY <1>1, <1>11 DEF Update, UpdateWritten, UpdateProgress, UpdateBytesLeft, CalcSpeed,
                           UpdateTimeToComplete
    <2>2. CASE u = Download
        BY <2>1, <2>2 DEF Due
    <2>3. CASE u \in Jobs
        BY <1>9, <2>1, <2>3
    <2> QED BY <1>1, <2>2, <2>3
<1>12. ASSUME NEW s \in Sockets, SocketAction(s) PROVE Told(m)'
    BY <1>3, <1>12 DEF SocketAction, Read, SetToComplete, hub, track, update, monitor
<1>13. ASSUME NEW n \in Monitors, n # m, MonitorAction(n) PROVE Told(m)'
    <2>1. UNCHANGED <<stage, stored, written, progress>>
        BY <1>13, Apart DEF track, update
    <2>2. UNCHANGED <<fwd[m], out[m], look[m], report[m]>>
        BY <1>1, <1>13 DEF MonitorAction, GoMonitor, Subscribe, Take, Hand, Cancel, Leave, Handle,
                           WorkerEnds, Document
    <2>3. UNCHANGED <<slot[m], born[m], replayed[m], pc, pending, published>>
        <3>1. \/ UNCHANGED hub \/ Hub!Subscribe(n, TKEY) \/ Hub!Receive(n) \/ Hub!Unsubscribe(n)
            BY <1>13 DEF MonitorAction, GoMonitor, Subscribe, Take, Hand, Cancel, Leave, Handle,
                         WorkerEnds, Document
        <3>2. CASE UNCHANGED hub
            BY <3>2 DEF hub
        <3> QED BY <1>13, <3>1, <3>2, SubscribeEffect, ReceiveEffect, UnsubscribeEffect
    <2>4. m \notin cancelled' => m \notin cancelled
        BY <1>13 DEF MonitorAction, GoMonitor, Subscribe, Take, Hand, Cancel, Leave, Handle,
                     WorkerEnds, Document
    <2>5. Due(m)
        BY <2>1, <2>2, <2>3, <2>4 DEF Due, AllIdle
    <2> QED BY <1>2, <2>1, <2>2, <2>3, <2>5 DEF Told
<1>14. CASE MonitorAction(m)
    <2>1. UNCHANGED <<stage, stored, written, progress>>
        BY <1>14, Apart DEF track, update
    <2>2. CASE GoMonitor(m) \/ Take(m) \/ Leave(m)
        BY <1>1, <2>2 DEF Due, GoMonitor, Take, Leave
    <2>3. CASE Cancel(m) \/ WorkerEnds(m)
        BY <2>3 DEF Due, Cancel, WorkerEnds
    <2>4. CASE Subscribe(m)
        <3>1. born'[m] = published /\ published' = published /\ slot'[m] = replayed'[m]
            BY <2>4, SubscribeEffect DEF Subscribe
        <3>2. ~(born'[m] < published')
            BY <3>1, HubTypes
        <3> QED BY <3>1, <3>2 DEF Due, Told
    <2>5. CASE Hand(m)
        <3>1. out'[m] = out[m] + 1 /\ out[m] \in Nat
            BY <1>1, <2>5 DEF Hand
        <3> QED BY <3>1 DEF Told
    <2>6. CASE Handle(m)
        <3>1. look'[m] = "written"
            BY <1>1, <2>6 DEF Handle
        <3> QED BY <3>1 DEF Told
    <2>7. CASE Document(m)
        <3>1. UNCHANGED <<hub, fwd, out, cancelled>>
            BY <2>7 DEF Document
        <3>2. Told(m)
            BY <1>2, <2>1, <3>1 DEF Due, AllIdle, hub
        <3>3. CASE look[m] = "written"
            <4>1. report'[m].written = written /\ look'[m] = "progress"
                BY <1>1, <2>7, <3>3 DEF Document
            <4> QED BY <2>1, <4>1 DEF Told
        <3>4. CASE look[m] = "progress"
            <4>1. /\ report'[m].written = report[m].written /\ report'[m].progress = progress
                  /\ look'[m] = "idle"
                BY <1>1, <2>7, <3>4 DEF Document
            <4> QED BY <2>1, <3>1, <3>2, <3>4, <4>1 DEF Told, hub
        <3> QED BY <2>7, <3>3, <3>4 DEF Document
    <2> QED BY <1>14, <2>2, <2>3, <2>4, <2>5, <2>6, <2>7 DEF MonitorAction
<1>15. CASE UNCHANGED vars
    BY <1>3, <1>15 DEF vars, hub, track, update, monitor
<1> QED BY <1>4, <1>5, <1>6, <1>7, <1>8, <1>10, <1>11, <1>12, <1>13, <1>14, <1>15, Steps
        DEF HandlerAction

----------------------------------------------------------------------------

(* The invariant holds at first. *)
LEMMA ProgressInit == Init => ProgressInv
<1> SUFFICES ASSUME Init PROVE ProgressInv
    OBVIOUS
<1>1. /\ stage = [u \in Updaters |-> "idle"] /\ Download \in Updaters /\ Jobs \subseteq Updaters
      /\ queue = <<>> /\ stored = <<>> /\ filed = {} /\ chunk = None /\ by = None
      /\ toComplete = 0 /\ written = 0 /\ bytesLeft = 0
      /\ progress = <<0, 1>> /\ timeToComplete = <<0, 1>>
    BY DEF Init, Updaters
<1>2. Types
    <2>1. /\ queue \in Seq(Messages) /\ stored \in Seq(Messages)
          /\ chunk \in Messages \cup {None} /\ by \in Sockets \cup Jobs \cup {None}
        BY <1>1
    <2>2. /\ bytesRead \in [Sockets -> Nat] /\ loop \in [Sockets -> Nat]
          /\ stage \in [Updaters -> Stages] /\ asked \in [Updaters -> Nat \X Nat]
          /\ speed \in [Updaters -> Nat] /\ lastRead \in Nat /\ timed \in BOOLEAN
        BY DEF Init, Stages
    <2>3. /\ fwd \in [Monitors -> {"none", "starting", "waiting", "holding", "gone"}]
          /\ look \in [Monitors -> {"idle", "written", "progress", "ended"}]
          /\ out \in [Monitors -> 0..Cap] /\ cancelled \subseteq Monitors
        BY DEF Init, ProgressAssumption
    <2>4. report \in [Monitors -> [written : Nat, progress : Pair]]
        BY DEF Init, NoReport, Pair
    <2>5. /\ progress \in Nat \X (Nat \ {0}) /\ timeToComplete \in Pair
          /\ toComplete \in Nat /\ written \in Nat /\ bytesLeft \in Int /\ filed \subseteq Sockets
        BY <1>1 DEF Pair
    <2> QED BY <2>1, <2>2, <2>3, <2>4, <2>5 DEF Types
<1>3. Counted
    <2>1. DOMAIN queue = {} /\ DOMAIN stored = {}
        BY <1>1
    <2>2. \A s \in Sockets : loop[s] = 0 /\ bytesRead[s] = 0
        BY DEF Init
    <2>3. \A s \in Sockets : 0 \in 0..Len(Ends[s])
        <3>1. \A s \in Sockets : Ends[s] \in Seq(Nat \ {0})
            BY DEF ProgressAssumption
        <3>2. \A s \in Sockets : Len(Ends[s]) \in Nat
            BY <3>1
        <3> QED BY <3>2
    <2> QED BY <2>1, <2>2, <2>3 DEF Counted
<1>4. AtWork /\ Asked
    BY <1>1 DEF AtWork, Asked
<1>5. Covers
    <2>1. by \notin Sockets
        BY <1>1 DEF ProgressAssumption
    <2> QED BY <2>1 DEF Covers
<1>6. Settled /\ Informed
    BY <1>1 DEF Settled, Informed, Due
<1>7. Members
    BY DEF Members, Init, Hub!Init
<1>8. Rest /\ TimeIsDefined
    BY <1>1 DEF Rest, TimeIsDefined, Undefined
<1> QED BY <1>2, <1>3, <1>4, <1>5, <1>6, <1>7, <1>8 DEF ProgressInv

(* Each step keeps it, part by part. *)
LEMMA ProgressStep == ProgressInv /\ HubProofs!IInv /\ [Next]_vars => ProgressInv'
<1> SUFFICES ASSUME ProgressInv, HubProofs!IInv, [Next]_vars PROVE ProgressInv'
    OBVIOUS
<1> USE DEF ProgressInv
<1>1. Types' /\ Counted' /\ AtWork'
    BY TypesStep, CountedStep, AtWorkStep
<1>2. Asked' /\ Covers' /\ Settled'
    BY AskedStep, CoversStep, SettledStep
<1>3. Members' /\ Informed'
    BY MembersStep, InformedStep
<1>4. Rest' /\ TimeIsDefined'
    BY RestStep
<1> QED BY <1>1, <1>2, <1>3, <1>4

(* The invariant of the numbers, beside that of the hub they are reported
   through. *)
THEOREM ProgressInvariance == Spec => []ProgressInv
<1> QED BY ProgressInit, ProgressStep, TrackkInvariance, PTL DEF Spec

(* The numbers, the goroutines and the hub always have the types declared for
   them. *)
THEOREM ProgressTypeCorrect == Spec => []TypeOK
<1>1. HubProofs!IInv => Hub!TypeOK
    <2>1. HubProofs!TypeOK => Hub!TypeOK
        BY DEF HubProofs!TypeOK, Hub!TypeOK, HubProofs!Parcels, Hub!Parcels,
               HubProofs!NoParcel, Hub!NoParcel
    <2> QED BY <2>1 DEF HubProofs!IInv, HubProofs!Shape
<1>2. ProgressInv /\ HubProofs!IInv => TypeOK
    BY <1>1 DEF ProgressInv, Types, TypeOK
<1> QED BY <1>2, ProgressInvariance, TrackkInvariance, PTL

(* Between two chunks Written covers what is stored of the file it is of,
   however many connections bring chunks and however many jobs send. *)
THEOREM WrittenCoversStoredAlways == Spec => []WrittenCoversStored
<1>1. ProgressInv => WrittenCoversStored
    BY DEF ProgressInv, Covers, WrittenCoversStored
<1> QED BY <1>1, ProgressInvariance, PTL

(* When all is quiet, the last report of every monitor that is owed one has the
   numbers of one update, and they cover the chunk stored last. *)
THEOREM LastReportIsCurrentAlways == Spec => []LastReportIsCurrent
<1>1. ProgressInv => LastReportIsCurrent
    <2> SUFFICES ASSUME ProgressInv, NEW m \in Monitors,
                        Quiet(m), stored # <<>>, \A j \in Jobs : stage[j] = "idle",
                        born[m] < published \/ replayed[m] # Hub!NoParcel
                 PROVE  /\ report[m].written >= Ends[stored[Len(stored)][1]][stored[Len(stored)][2]]
                        /\ report[m].progress[1] = report[m].written
        BY DEF LastReportIsCurrent
    <2>1. stage[Download] = "idle"
        BY DEF ProgressInv, AtWork, Quiet
    <2>2. Told(m)
        BY <2>1 DEF ProgressInv, Informed, Due, AllIdle, Quiet
    <2>3. report[m].written = written /\ report[m].progress = progress
        BY <2>2 DEF Told, Quiet, Hub!NoParcel
    <2>4. /\ written >= Ends[stored[Len(stored)][1]][stored[Len(stored)][2]]
          /\ progress[1] = written
        BY <2>1 DEF ProgressInv, Settled, AllIdle
    <2> QED BY <2>3, <2>4
<1> QED BY <1>1, ProgressInvariance, PTL

(* The time is a number until a second file is announced, or a job has sent
   nothing. *)
THEOREM TimeIsDefinedAlways == Spec => []TimeIsDefined
<1>1. ProgressInv => TimeIsDefined
    BY DEF ProgressInv
<1> QED BY <1>1, ProgressInvariance, PTL
============================================================================
