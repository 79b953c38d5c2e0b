----------------------------- MODULE StampProofs -----------------------------
(* Theorems about the HTTP client and about ReadStamp, its caller. *)
EXTENDS Stamp, TLAPS

SeqThms == INSTANCE SequenceTheorems

(* What CheetahProofs proves of every hub. *)
HubProofs == INSTANCE CheetahProofs WITH
                Keys <- Requests, Chans <- Waiters, Publishers <- Firings,
                MaxParcels <- MaxFirings

USE WebClientAssumption

(* A step of the client leaves its hub alone, or is one of these. *)
LEMMA HubStep ==
    ASSUME [Next]_vars
    PROVE  \/ UNCHANGED hub
           \/ \E f \in Firings : Hub!Publish(f, f[2]) \/ Hub!Send(f) \/ Hub!Panic(f)
           \/ \E w \in Waiters : Hub!Subscribe(w, w[2]) \/ Hub!Receive(w) \/ Hub!Unsubscribe(w)
<1>1. CASE Caller
    BY <1>1 DEF Caller, Add, Delete, Remove, Release, Go, GoMonitor
<1>2. ASSUME NEW f \in Firings, Doing(f)
      PROVE  UNCHANGED hub \/ Hub!Publish(f, f[2]) \/ Hub!Send(f) \/ Hub!Panic(f)
    BY <1>2 DEF Doing, Send, Answer, AnswerError, Publish, Deliver
<1>3. ASSUME NEW w \in Waiters, Waiting(w)
      PROVE  Hub!Subscribe(w, w[2]) \/ Hub!Receive(w) \/ Hub!Unsubscribe(w)
    BY <1>3 DEF Waiting, Subscribe, Take, Hand, Leave
<1>4. ASSUME NEW m \in Monitors, Cancel(m) \/ Handle(m) \/ WorkerEnds(m) PROVE UNCHANGED hub
    BY <1>4 DEF Cancel, Handle, WorkerEnds
<1>5. CASE UNCHANGED vars
    BY <1>5 DEF vars
<1> QED BY <1>1, <1>2, <1>3, <1>4, <1>5 DEF Next, Goroutine

(* The hub of the client and the one of HubProofs are the same. *)
LEMMA HubSame ==
    /\ \A c \in Waiters, k \in Requests :
          /\ Hub!Subscribe(c, k) <=> HubProofs!Subscribe(c, k)
          /\ Hub!Receive(c) <=> HubProofs!Receive(c)
          /\ Hub!Unsubscribe(c) <=> HubProofs!Unsubscribe(c)
    /\ \A f \in Firings, k \in Requests :
          /\ Hub!Publish(f, k) <=> HubProofs!Publish(f, k)
          /\ Hub!Send(f) <=> HubProofs!Send(f)
          /\ Hub!Panic(f) <=> HubProofs!Panic(f)
    /\ HubProofs!CheetahAssumption
<1>1. ASSUME NEW c \in Waiters, NEW k \in Requests
      PROVE  /\ Hub!Subscribe(c, k) <=> HubProofs!Subscribe(c, k)
             /\ Hub!Receive(c) <=> HubProofs!Receive(c)
             /\ Hub!Unsubscribe(c) <=> HubProofs!Unsubscribe(c)
    BY DEF Hub!Subscribe, HubProofs!Subscribe, Hub!Receive, HubProofs!Receive,
           Hub!Unsubscribe, HubProofs!Unsubscribe,
           Hub!Subscribed, HubProofs!Subscribed, Hub!history, HubProofs!history,
           Hub!NoParcel, HubProofs!NoParcel
<1>2. ASSUME NEW f \in Firings, NEW k \in Requests
      PROVE  /\ Hub!Publish(f, k) <=> HubProofs!Publish(f, k)
             /\ Hub!Send(f) <=> HubProofs!Send(f)
             /\ Hub!Panic(f) <=> HubProofs!Panic(f)
    BY DEF Hub!Publish, HubProofs!Publish, Hub!Send, HubProofs!Send, Hub!Panic, HubProofs!Panic,
           Hub!Advance, HubProofs!Advance, Hub!history, HubProofs!history,
           Hub!NoParcel, HubProofs!NoParcel
<1>3. HubProofs!CheetahAssumption
    BY DEF HubProofs!CheetahAssumption
<1> QED BY <1>1, <1>2, <1>3

(* So what holds of every hub holds of this one. *)
THEOREM ClientHubInvariance == Spec => []HubProofs!IInv
<1>1. Init => HubProofs!Init
    BY DEF Init, Hub!Init, HubProofs!Init, Hub!NoParcel, HubProofs!NoParcel,
           Hub!Parcels, HubProofs!Parcels
<1>2. [Next]_vars => [HubProofs!Next]_(HubProofs!vars)
    <2> SUFFICES ASSUME [Next]_vars PROVE [HubProofs!Next]_(HubProofs!vars)
        OBVIOUS
    <2>1. UNCHANGED hub => UNCHANGED HubProofs!vars
        BY DEF hub, HubProofs!vars, HubProofs!hub, HubProofs!history
    <2>2. \A f \in Firings : f[2] \in Requests
        BY DEF Firings
    <2>3. \A w \in Waiters : w[2] \in Requests
        BY DEF Waiters
    <2> QED BY <2>1, <2>2, <2>3, HubStep, HubSame DEF HubProofs!Next
<1>3. Spec => HubProofs!Spec
    BY <1>1, <1>2, PTL DEF Spec, HubProofs!Spec
<1> QED BY <1>3, HubSame, HubProofs!Invariance, PTL
----------------------------------------------------------------------------

ClientTypes ==
    /\ made \subseteq Requests
    /\ listed \subseteq made
    /\ ready \subseteq made /\ failed \subseteq made
    /\ fire \in [Firings -> {"none", "due", "sent", "answered", "publishing"}]
    /\ wait \in [Waiters -> {"none", "starting", "waiting", "holding", "gone"}]
    /\ out \in [Monitors -> Seq(Requests)]
    /\ worker \in [Monitors -> BOOLEAN]
    /\ handled \in [Monitors -> Seq(Requests)]
    /\ cancelled \subseteq Monitors

(* Every firing is of a request that was made and publishes it once, when its
   outcome is there. *)
Published ==
    /\ \A f \in Firings : fire[f] # "none" => f[2] \in made
    /\ \A f \in Firings : fire[f] \in {"answered", "publishing"} => f[2] \in ready \cup failed
    /\ \A n \in 1..published :
          /\ author[n] \in Firings
          /\ fire[author[n]] = "publishing"
          /\ topic[n] = author[n][2]
    /\ \A n, k \in 1..published : author[n] = author[k] => n = k

(* A goroutine waits for a request its own call fired, subscribed to that one,
   and does not leave without a parcel unless a context is done. *)
Waits ==
    \A w \in Waiters :
        /\ wait[w] # "none" => fire[w] # "none"
        /\ wait[w] \in {"none", "starting"} => home[w] = None
        /\ wait[w] \in {"waiting", "holding", "gone"} => home[w] = w[2]
        /\ wait[w] = "gone" <=> w \in closed
        /\ wait[w] = "holding" => got[w] # {}
        /\ wait[w] = "gone" => got[w] # {} \/ cancelled # {}

(* What the handler of m was called with and will be. *)
Met(m) == handled[m] \o out[m]

(* Each result came from the goroutine that waited for it, which is gone. *)
MetOnce ==
    \A m \in Monitors :
        /\ Len(out[m]) <= Cap
        /\ IsInjective(Met(m))
        /\ \A i \in DOMAIN Met(m) :
              wait[<<m, Met(m)[i]>>] = "gone" /\ Met(m)[i] \in ready \cup failed

ClientInv == ClientTypes /\ Published /\ Waits /\ MetOnce /\ CrashOnlyIfRepeated

(* A firing is a call and a request, and so is a goroutine that waits. *)
LEMMA Pairs ==
    /\ \A f \in Firings : f = <<f[1], f[2]>> /\ f[1] \in Calls /\ f[2] \in Requests
    /\ \A w \in Waiters : w \in Firings /\ w = <<w[1], w[2]>> /\ w[1] \in Monitors /\ w[2] \in Requests
    /\ \A m \in Monitors, r \in Requests : <<m, r>> \in Waiters
    /\ \A c \in Calls, r \in Requests : <<c, r>> \in Firings
BY DEF Firings, Waiters, Calls

(* A call fires what it never fired before. *)
LEMMA BeginEffect ==
    ASSUME ClientTypes, NEW c \in Calls, NEW state \in {"due", "sent"}, Begin(c, state)
    PROVE  /\ fire' \in [Firings -> {"none", "due", "sent", "answered", "publishing"}]
           /\ \A f \in Firings : f[1] = c => fire[f] = "none"
           /\ \A f \in Firings :
                 \/ fire'[f] = fire[f] /\ ~(f[1] = c /\ f[2] \in listed)
                 \/ f[1] = c /\ f[2] \in listed /\ fire[f] = "none" /\ fire'[f] = state
<1>1. ASSUME NEW f \in Firings, f[1] = c PROVE fire[f] = "none"
    BY <1>1, Pairs DEF Begin, FiredBy
<1>2. fire' = [f \in Firings |-> IF f[1] = c /\ f[2] \in listed THEN state ELSE fire[f]]
    BY DEF Begin
<1> QED BY <1>1, <1>2 DEF ClientTypes

(* Each step keeps the types of the client. *)
LEMMA TypesStep == ClientTypes /\ Published /\ [Next]_vars => ClientTypes'
<1> SUFFICES ASSUME ClientTypes, Published, [Next]_vars PROVE ClientTypes'
    OBVIOUS
<1> USE DEF ClientTypes
<1>1. ASSUME NEW r \in Requests, Add(r) PROVE ClientTypes'
    BY <1>1 DEF Add, results, monitor
<1>2. ASSUME NEW group, Remove(group) PROVE ClientTypes'
    BY <1>2 DEF Remove, results, monitor
<1>3. ASSUME NEW g \in Goes, Go(g) PROVE ClientTypes'
    <2>1. g \in Calls
        BY DEF Calls
    <2> QED BY <1>3, <2>1, BeginEffect DEF Go, table, monitor
<1>4. ASSUME NEW m \in Monitors, GoMonitor(m) PROVE ClientTypes'
    <2>1. m \in Calls
        BY DEF Calls
    <2>2. fire' \in [Firings -> {"none", "due", "sent", "answered", "publishing"}]
        BY <1>4, <2>1, BeginEffect DEF GoMonitor
    <2>3. /\ wait' \in [Waiters -> {"none", "starting", "waiting", "holding", "gone"}]
          /\ worker' \in [Monitors -> BOOLEAN]
        BY <1>4 DEF GoMonitor
    <2>4. UNCHANGED <<made, listed, ready, failed, out, handled, cancelled>>
        BY <1>4 DEF GoMonitor, table
    <2> QED BY <2>2, <2>3, <2>4
<1>5. ASSUME NEW f \in Firings, Doing(f) PROVE ClientTypes'
    <2>1. \/ UNCHANGED fire
          \/ \E state \in {"sent", "answered", "publishing"} : fire' = [fire EXCEPT ![f] = state]
        BY <1>5 DEF Doing, Send, Answer, AnswerError, Publish, Deliver, results
    <2>2. \/ UNCHANGED <<ready, failed>>
          \/ f[2] \in made /\ ready' = ready \cup {f[2]} /\ failed' = failed
          \/ f[2] \in made /\ ready' = ready /\ failed' = failed \cup {f[2]}
        BY <1>5 DEF Doing, Send, Answer, AnswerError, Publish, Deliver, results, Published
    <2>3. UNCHANGED <<table, monitor>>
        BY <1>5 DEF Doing, Send, Answer, AnswerError, Publish, Deliver
    <2> QED BY <2>1, <2>2, <2>3 DEF table, monitor
<1>6. ASSUME NEW w \in Waiters, Waiting(w) PROVE ClientTypes'
    <2>1. \E state \in {"waiting", "holding", "gone"} : wait' = [wait EXCEPT ![w] = state]
        BY <1>6 DEF Waiting, Subscribe, Take, Hand, Leave
    <2>2. UNCHANGED out \/ out' = [out EXCEPT ![w[1]] = Append(@, w[2])]
        BY <1>6 DEF Waiting, Subscribe, Take, Hand, Leave
    <2>3. out' \in [Monitors -> Seq(Requests)]
        <3>1. w[1] \in Monitors /\ w[2] \in Requests /\ out[w[1]] \in Seq(Requests)
            BY Pairs
        <3>2. Append(out[w[1]], w[2]) \in Seq(Requests)
            BY <3>1
        <3> QED BY <2>2, <3>1, <3>2
    <2>4. UNCHANGED <<worker, handled, cancelled, table, results>>
        BY <1>6 DEF Waiting, Subscribe, Take, Hand, Leave
    <2> QED BY <2>1, <2>3, <2>4 DEF table, results
<1>7. ASSUME NEW m \in Monitors, Cancel(m) \/ WorkerEnds(m) PROVE ClientTypes'
    BY <1>7 DEF Cancel, WorkerEnds, table, results
<1>8. ASSUME NEW m \in Monitors, Handle(m) PROVE ClientTypes'
    <2>1. out[m] \in Seq(Requests) /\ out[m] # <<>> /\ handled[m] \in Seq(Requests)
        BY <1>8 DEF Handle
    <2>2. Head(out[m]) \in Requests /\ Tail(out[m]) \in Seq(Requests)
        BY <2>1
    <2>3. Append(handled[m], Head(out[m])) \in Seq(Requests)
        BY <2>1, <2>2
    <2> QED BY <1>8, <2>2, <2>3 DEF Handle, table, results
<1>9. CASE UNCHANGED vars
    BY <1>9 DEF vars, table, results, monitor
<1> QED BY <1>1, <1>2, <1>3, <1>4, <1>5, <1>6, <1>7, <1>8, <1>9
        DEF Next, Caller, Delete, Release, Goroutine

(* Each step keeps every parcel the one of its firing. *)
LEMMA PublishedStep == HubProofs!IInv /\ ClientTypes /\ Published /\ [Next]_vars => Published'
<1> SUFFICES ASSUME HubProofs!IInv, ClientTypes, Published, [Next]_vars PROVE Published'
    OBVIOUS
<1>0. HubProofs!TypeOK
    BY DEF HubProofs!IInv, HubProofs!Shape
<1> USE DEF ClientTypes, Published
<1>1. ASSUME UNCHANGED <<fire, published, author, topic>>,
             made \subseteq made', ready \subseteq ready', failed \subseteq failed'
      PROVE  Published'
    BY <1>1
<1>2. ASSUME NEW c \in Calls, NEW state \in {"due", "sent"}, Begin(c, state),
             UNCHANGED <<made, ready, failed, published, author, topic>>
      PROVE  Published'
    BY <1>2, BeginEffect
<1>3. ASSUME NEW r \in Requests, Add(r) PROVE Published'
    BY <1>1, <1>3 DEF Add, hub, results
<1>4. ASSUME NEW group, Remove(group) PROVE Published'
    BY <1>1, <1>4 DEF Remove, hub, results
<1>5. ASSUME NEW g \in Goes, Go(g) PROVE Published'
    BY <1>2, <1>5 DEF Go, hub, table, Calls
<1>6. ASSUME NEW m \in Monitors, GoMonitor(m) PROVE Published'
    BY <1>2, <1>6 DEF GoMonitor, hub, table, Calls
<1>7. ASSUME NEW f \in Firings, Send(f) PROVE Published'
    BY <1>7 DEF Send, hub, table
<1>8. ASSUME NEW f \in Firings, Answer(f) \/ AnswerError(f) PROVE Published'
    BY <1>8 DEF Answer, AnswerError, hub, table
<1>9. ASSUME NEW f \in Firings, Publish(f) PROVE Published'
    <2>1. /\ fire[f] = "answered" /\ fire' = [fire EXCEPT ![f] = "publishing"]
          /\ UNCHANGED <<ready, failed, made>>
        BY <1>9 DEF Publish, table
    <2>2. HubProofs!Publish(f, f[2]) /\ f[2] \in Requests
        BY <1>9, Pairs, HubSame DEF Publish
    <2>3. /\ published + 1 \in 1..MaxFirings /\ published \in Nat /\ published' = published + 1
          /\ topic'[published + 1] = f[2]
          /\ \A n \in 1..published : topic'[n] = topic[n] /\ author'[n] = author[n]
        BY <1>0, <2>2, HubSame, HubProofs!PublishEffect DEF HubProofs!Parcels
    <2>4. author'[published + 1] = f
        BY <1>0, <2>2, <2>3 DEF HubProofs!Publish, HubProofs!TypeOK, HubProofs!Parcels
    <2>5. \A n \in 1..published' : n = published + 1 \/ n \in 1..published
        BY <2>3
    <2>6. \A n \in 1..published : author[n] # f
        BY <2>1
    <2>7. ASSUME NEW n \in 1..published'
          PROVE  author'[n] \in Firings /\ fire'[author'[n]] = "publishing" /\ topic'[n] = author'[n][2]
        <3>1. CASE n = published + 1
            BY <2>1, <2>3, <2>4, <3>1
        <3>2. CASE n \in 1..published
            BY <2>1, <2>3, <3>2
        <3> QED BY <2>5, <3>1, <3>2
    <2>8. ASSUME NEW n \in 1..published', NEW k \in 1..published', author'[n] = author'[k] PROVE n = k
        <3>1. \A j \in 1..published : author'[j] = author[j] /\ author'[j] # f
            BY <2>3, <2>6
        <3>2. CASE n \in 1..published /\ k \in 1..published
            BY <2>8, <3>1, <3>2
        <3>3. CASE n = published + 1 \/ k = published + 1
            BY <2>4, <2>5, <2>8, <3>1, <3>3
        <3> QED BY <2>5, <3>2, <3>3
    <2>9. \A h \in Firings : /\ fire'[h] # "none" => h[2] \in made
                             /\ fire'[h] \in {"answered", "publishing"} => h[2] \in ready \cup failed
        BY <2>1
    <2> QED BY <2>1, <2>7, <2>8, <2>9
<1>10. ASSUME NEW f \in Firings, Deliver(f) PROVE Published'
    BY <1>1, <1>10 DEF Deliver, table, results, Hub!Send, Hub!Panic, Hub!history
<1>11. ASSUME NEW w \in Waiters, Waiting(w) PROVE Published'
    BY <1>1, <1>11 DEF Waiting, Subscribe, Take, Hand, Leave, table, results,
                       Hub!Subscribe, Hub!Receive, Hub!Unsubscribe, Hub!history
<1>12. ASSUME NEW m \in Monitors, Cancel(m) \/ Handle(m) \/ WorkerEnds(m) PROVE Published'
    BY <1>1, <1>12 DEF Cancel, Handle, WorkerEnds, hub, table, results
<1>13. CASE UNCHANGED vars
    BY <1>1, <1>13 DEF vars, hub, table, results
<1> QED BY <1>3, <1>4, <1>5, <1>6, <1>7, <1>8, <1>9, <1>10, <1>11, <1>12, <1>13
        DEF Next, Caller, Delete, Release, Goroutine, Doing

(* Each step keeps who waits for what. *)
LEMMA WaitsStep ==
    HubProofs!IInv /\ ClientTypes /\ Waits /\ [Next]_vars => Waits'
<1> SUFFICES ASSUME HubProofs!IInv, ClientTypes, Waits, [Next]_vars PROVE Waits'
    OBVIOUS
<1>0. HubProofs!TypeOK /\ HubProofs!Registry
    BY DEF HubProofs!IInv, HubProofs!Shape
<1>a. \A w \in Waiters : w[2] # None
    BY Pairs
<1> USE DEF ClientTypes, Waits
<1>1. ASSUME UNCHANGED <<wait, home, closed, got>>, cancelled \subseteq cancelled',
             \A f \in Firings : fire[f] # "none" => fire'[f] # "none"
      PROVE  Waits'
    <2> SUFFICES ASSUME NEW w \in Waiters
                 PROVE  /\ wait[w] # "none" => fire'[w] # "none"
                        /\ wait[w] \in {"none", "starting"} => home[w] = None
                        /\ wait[w] \in {"waiting", "holding", "gone"} => home[w] = w[2]
                        /\ wait[w] = "gone" <=> w \in closed
                        /\ wait[w] = "holding" => got[w] # {}
                        /\ wait[w] = "gone" => got[w] # {} \/ cancelled' # {}
        BY <1>1
    <2>1. w \in Firings
        BY Pairs
    <2> QED BY <1>1, <2>1
<1>2. ASSUME NEW r \in Requests, Add(r) PROVE Waits'
    BY <1>1, <1>2 DEF Add, hub, results, monitor
<1>3. ASSUME NEW group, Remove(group) PROVE Waits'
    BY <1>1, <1>3 DEF Remove, hub, results, monitor
<1>4. ASSUME NEW g \in Goes, Go(g) PROVE Waits'
    <2>1. g \in Calls /\ Begin(g, "due") /\ UNCHANGED <<hub, monitor>>
        BY <1>4 DEF Go, Calls
    <2>2. \A f \in Firings : fire[f] # "none" => fire'[f] # "none"
        BY <2>1, BeginEffect
    <2> QED BY <1>1, <2>1, <2>2 DEF hub, monitor
<1>5. ASSUME NEW m \in Monitors, GoMonitor(m) PROVE Waits'
    <2>1. m \in Calls /\ Begin(m, "sent") /\ UNCHANGED <<hub, cancelled>>
        BY <1>5 DEF GoMonitor, Calls
    <2>2. \A f \in Firings :
              \/ fire'[f] = fire[f] /\ ~(f[1] = m /\ f[2] \in listed)
              \/ f[1] = m /\ f[2] \in listed /\ fire[f] = "none" /\ fire'[f] = "sent"
        BY <2>1, BeginEffect
    <2>3. wait' = [w \in Waiters |-> IF w[1] = m /\ w[2] \in listed THEN "starting" ELSE wait[w]]
        BY <1>5 DEF GoMonitor
    <2>4. UNCHANGED <<home, closed, got, cancelled>>
        BY <2>1 DEF hub
    <2> SUFFICES ASSUME NEW w \in Waiters
                 PROVE  /\ wait'[w] # "none" => fire'[w] # "none"
                        /\ wait'[w] \in {"none", "starting"} => home[w] = None
                        /\ wait'[w] \in {"waiting", "holding", "gone"} => home[w] = w[2]
                        /\ wait'[w] = "gone" <=> w \in closed
                        /\ wait'[w] = "holding" => got[w] # {}
                        /\ wait'[w] = "gone" => got[w] # {} \/ cancelled # {}
        BY <2>4
    <2>5. CASE w[1] = m /\ w[2] \in listed
        <3>1. fire[w] = "none" /\ fire'[w] = "sent" /\ wait'[w] = "starting"
            BY <2>2, <2>3, <2>5, Pairs
        <3> QED BY <3>1, Pairs
    <2>6. CASE ~(w[1] = m /\ w[2] \in listed)
        <3>1. fire'[w] = fire[w] /\ wait'[w] = wait[w]
            BY <2>2, <2>3, <2>6, Pairs
        <3> QED BY <3>1
    <2> QED BY <2>5, <2>6
<1>6. ASSUME NEW f \in Firings, Doing(f) PROVE Waits'
    <2>1. UNCHANGED <<wait, home, closed, got, cancelled>>
        BY <1>6 DEF Doing, Send, Answer, AnswerError, Publish, Deliver, hub, monitor,
                    Hub!Publish, Hub!Send, Hub!Panic, Hub!history
    <2>2. UNCHANGED fire \/ \E state \in {"sent", "answered", "publishing"} : fire' = [fire EXCEPT ![f] = state]
        BY <1>6 DEF Doing, Send, Answer, AnswerError, Publish, Deliver, results
    <2> QED BY <1>1, <2>1, <2>2
<1>7. ASSUME NEW v \in Waiters, Subscribe(v) PROVE Waits'
    <2>1. /\ wait[v] = "starting" /\ wait' = [wait EXCEPT ![v] = "waiting"]
          /\ home' = [home EXCEPT ![v] = v[2]]
          /\ UNCHANGED <<closed, got, cancelled, fire>>
        BY <1>7 DEF Subscribe, Hub!Subscribe, results
    <2>2. home'[v] = v[2] /\ \A w \in Waiters \ {v} : home'[w] = home[w]
        BY <1>0, <2>1 DEF HubProofs!TypeOK
    <2>3. ASSUME NEW w \in Waiters, w # v
          PROVE  wait'[w] = wait[w] /\ home'[w] = home[w]
        BY <2>1, <2>2, <2>3
    <2>4. v \in Firings /\ wait'[v] = "waiting" /\ fire[v] # "none" /\ v \notin closed
        BY <2>1, Pairs
    <2>5. ASSUME NEW w \in Waiters
          PROVE  /\ wait'[w] # "none" => fire'[w] # "none"
                 /\ wait'[w] \in {"none", "starting"} => home'[w] = None
                 /\ wait'[w] \in {"waiting", "holding", "gone"} => home'[w] = w[2]
                 /\ wait'[w] = "gone" <=> w \in closed'
                 /\ wait'[w] = "holding" => got'[w] # {}
                 /\ wait'[w] = "gone" => got'[w] # {} \/ cancelled' # {}
        <3>1. CASE w = v
            BY <2>1, <2>2, <2>4, <3>1
        <3>2. CASE w # v
            BY <2>1, <2>3, <3>2
        <3> QED BY <3>1, <3>2
    <2> QED BY <2>5
<1>8. ASSUME NEW v \in Waiters, Take(v) PROVE Waits'
    <2>1. /\ wait[v] = "waiting" /\ wait' = [wait EXCEPT ![v] = "holding"]
          /\ got' = [got EXCEPT ![v] = @ \cup {slot[v]}]
          /\ UNCHANGED <<closed, home, cancelled, fire>>
        BY <1>8 DEF Take, Hub!Receive, results
    <2>2. slot[v] \in got'[v] /\ \A w \in Waiters \ {v} : got'[w] = got[w]
        BY <1>0, <2>1 DEF HubProofs!TypeOK
    <2> QED BY <2>1, <2>2, Pairs, ZenonT(30)
<1>9. ASSUME NEW v \in Waiters, Hand(v) \/ Leave(v) PROVE Waits'
    <2>1. /\ wait[v] \in {"waiting", "holding"} /\ wait' = [wait EXCEPT ![v] = "gone"]
          /\ wait[v] = "holding" \/ cancelled # {}
          /\ closed' = closed \cup {v}
          /\ UNCHANGED <<home, got, cancelled, fire>>
        BY <1>9 DEF Hand, Leave, Hub!Unsubscribe, Hub!history, results
    <2> QED BY <2>1, Pairs, ZenonT(30)
<1>10. ASSUME NEW m \in Monitors, Cancel(m) \/ Handle(m) \/ WorkerEnds(m) PROVE Waits'
    BY <1>1, <1>10 DEF Cancel, Handle, WorkerEnds, hub, results
<1>11. CASE UNCHANGED vars
    BY <1>1, <1>11 DEF vars, hub, results, monitor
<1> QED BY <1>2, <1>3, <1>4, <1>5, <1>6, <1>7, <1>8, <1>9, <1>10, <1>11
        DEF Next, Caller, Delete, Release, Goroutine, Waiting

(* What a handler is given last is the last it meets, and taking it off the
   channel leaves what it meets the same. *)
LEMMA MetMoves ==
    ASSUME NEW S, NEW h \in Seq(S), NEW o \in Seq(S)
    PROVE  /\ \A x \in S : h \o Append(o, x) = Append(h \o o, x)
           /\ o # <<>> => Append(h, Head(o)) \o Tail(o) = h \o o
<1>1. ASSUME NEW x \in S PROVE h \o Append(o, x) = Append(h \o o, x)
    <2>1. Append(o, x) = o \o <<x>> /\ <<x>> \in Seq(S) /\ h \o o \in Seq(S)
        BY SeqThms!AppendIsConcat, SeqThms!ConcatProperties
    <2>2. Append(h \o o, x) = (h \o o) \o <<x>>
        BY <2>1, SeqThms!AppendIsConcat
    <2> QED BY <2>1, <2>2, SeqThms!ConcatAssociative
<1>2. ASSUME o # <<>> PROVE Append(h, Head(o)) \o Tail(o) = h \o o
    <2>1. Head(o) \in S /\ Tail(o) \in Seq(S)
        BY <1>2, SeqThms!HeadTailProperties
    <2>2. Append(h, Head(o)) = h \o <<Head(o)>> /\ <<Head(o)>> \in Seq(S)
        BY <2>1, SeqThms!AppendIsConcat
    <2>3. Append(h, Head(o)) \o Tail(o) = h \o (<<Head(o)>> \o Tail(o))
        BY <2>1, <2>2, SeqThms!ConcatAssociative
    <2>4. <<Head(o)>> \o Tail(o) = o
        <3>1. SubSeq(o, 1, Len(o)) = o /\ Len(o) \in Nat \ {0}
            BY <1>2, SeqThms!SubSeqFull, SeqThms!EmptySeq
        <3>2. SubSeq(o, 1, Len(o)) = <<o[1]>> \o SubSeq(o, 2, Len(o))
            BY <3>1, SeqThms!SubSeqRecursiveFirst
        <3>3. Tail(o) = SubSeq(o, 2, Len(o)) /\ Head(o) = o[1]
            BY <1>2, SeqThms!TailIsSubSeq
        <3> QED BY <3>1, <3>2, <3>3
    <2> QED BY <2>3, <2>4
<1> QED BY <1>1, <1>2

(* Each step keeps the results of a handler those of goroutines that left. *)
LEMMA MetStep ==
    HubProofs!IInv /\ ClientTypes /\ Published /\ Waits /\ MetOnce /\ [Next]_vars => MetOnce'
<1> SUFFICES ASSUME HubProofs!IInv, ClientTypes, Published, Waits, MetOnce, [Next]_vars PROVE MetOnce'
    OBVIOUS
<1>a. \A m \in Monitors : Met(m) \in Seq(Requests)
    BY DEF ClientTypes, Met
<1>1. ASSUME UNCHANGED <<handled, out>>, ready \subseteq ready', failed \subseteq failed',
             \A w \in Waiters : wait[w] = "gone" => wait'[w] = "gone"
      PROVE  MetOnce'
    <2>1. \A m \in Monitors : Met(m)' = Met(m)
        BY <1>1 DEF Met
    <2>2. \A m \in Monitors : \A i \in DOMAIN Met(m) : Met(m)[i] \in Requests
        BY <1>a
    <2>3. ASSUME NEW m \in Monitors, NEW i \in DOMAIN Met(m)
          PROVE  wait'[<<m, Met(m)[i]>>] = "gone" /\ Met(m)[i] \in ready' \cup failed'
        <3>1. <<m, Met(m)[i]>> \in Waiters
            BY <2>2, Pairs
        <3>2. wait[<<m, Met(m)[i]>>] = "gone" /\ Met(m)[i] \in ready \cup failed
            BY DEF MetOnce
        <3> QED BY <1>1, <3>1, <3>2
    <2> QED BY <1>1, <2>1, <2>3 DEF MetOnce
<1>2. ASSUME NEW r \in Requests, Add(r) PROVE MetOnce'
    BY <1>1, <1>2 DEF Add, results, monitor
<1>3. ASSUME NEW group, Remove(group) PROVE MetOnce'
    BY <1>1, <1>3 DEF Remove, results, monitor
<1>4. ASSUME NEW g \in Goes, Go(g) PROVE MetOnce'
    BY <1>1, <1>4 DEF Go, monitor
<1>5. ASSUME NEW m \in Monitors, GoMonitor(m) PROVE MetOnce'
    <2>1. m \in Calls /\ Begin(m, "sent")
        BY <1>5 DEF GoMonitor, Calls
    <2>2. \A w \in Waiters : w[1] = m => wait[w] = "none"
        BY <2>1, BeginEffect, Pairs DEF Waits
    <2>3. \A w \in Waiters : wait[w] = "gone" => wait'[w] = "gone"
        BY <1>5, <2>2 DEF GoMonitor
    <2> QED BY <1>1, <1>5, <2>3 DEF GoMonitor
<1>6. ASSUME NEW f \in Firings, Doing(f) PROVE MetOnce'
    BY <1>1, <1>6 DEF Doing, Send, Answer, AnswerError, Publish, Deliver, results, monitor
<1>7. ASSUME NEW v \in Waiters, Subscribe(v) \/ Take(v) \/ Leave(v) PROVE MetOnce'
    BY <1>1, <1>7 DEF Subscribe, Take, Leave, results, ClientTypes
<1>8. ASSUME NEW v \in Waiters, Hand(v) PROVE MetOnce'
    <2> DEFINE m == v[1]
               r == v[2]
               q == Met(m)
    <2>1. /\ wait[v] = "holding" /\ Len(out[m]) < Cap
          /\ out' = [out EXCEPT ![m] = Append(@, r)]
          /\ wait' = [wait EXCEPT ![v] = "gone"]
          /\ UNCHANGED <<handled, ready, failed>>
        BY <1>8 DEF Hand, results
    <2>2. m \in Monitors /\ r \in Requests /\ v = <<m, r>>
        BY Pairs
    <2>3. r \in ready \cup failed
        <3>1. got[v] # {} /\ home[v] = r
            BY <2>1 DEF Waits
        <3>2. PICK n \in got[v] : TRUE
            BY <3>1
        <3>3. topic[n] = r /\ n \in 1..published
            BY <3>1, <3>2 DEF HubProofs!IInv, HubProofs!Shape, HubProofs!Newer, HubProofs!Numbers,
                              HubProofs!TypeOK, HubProofs!Parcels
        <3> QED BY <3>3 DEF Published
    <2>4. /\ handled[m] \in Seq(Requests) /\ out[m] \in Seq(Requests)
          /\ out'[m] = Append(out[m], r) /\ handled'[m] = handled[m]
          /\ \A n \in Monitors \ {m} : out'[n] = out[n] /\ handled'[n] = handled[n]
        BY <2>1, <2>2 DEF ClientTypes
    <2>5. Met(m)' = Append(q, r)
        <3> DEFINE h == handled[m]
                   o == out[m]
        <3>1. Met(m)' = h \o Append(o, r) /\ q = h \o o
            BY <2>4 DEF Met
        <3>2. h \in Seq(Requests) /\ o \in Seq(Requests) /\ r \in Requests
            BY <2>2, <2>4
        <3> HIDE DEF h, o, r, q, m
        <3>3. h \o Append(o, r) = Append(h \o o, r)
            BY <3>2, MetMoves
        <3> QED BY <3>1, <3>3
    <2>6. \A i \in DOMAIN q : q[i] # r
        <3> SUFFICES ASSUME NEW i \in DOMAIN q, q[i] = r PROVE FALSE
            OBVIOUS
        <3>1. wait[<<m, r>>] = "gone"
            BY <2>2 DEF MetOnce
        <3> QED BY <2>1, <2>2, <3>1
    <2>7. \A w \in Waiters : wait[w] = "gone" => wait'[w] = "gone"
        BY <2>1 DEF ClientTypes
    <2>8. ASSUME NEW n \in Monitors, n # m
          PROVE  /\ Len(out'[n]) <= Cap /\ IsInjective(Met(n)')
                 /\ \A i \in DOMAIN Met(n)' :
                       wait'[<<n, Met(n)'[i]>>] = "gone" /\ Met(n)'[i] \in ready \cup failed
        <3>1. Met(n)' = Met(n) /\ out'[n] = out[n]
            BY <2>4, <2>8 DEF Met
        <3>2. \A i \in DOMAIN Met(n) : Met(n)[i] \in Requests
            BY <1>a
        <3> QED BY <2>7, <3>1, <3>2, Pairs DEF MetOnce
    <2>9. /\ Len(out'[m]) <= Cap /\ IsInjective(Met(m)')
          /\ \A i \in DOMAIN Met(m)' :
                wait'[<<m, Met(m)'[i]>>] = "gone" /\ Met(m)'[i] \in ready \cup failed
        <3>0. q \in Seq(Requests) /\ wait'[v] = "gone"
            BY <1>a, <2>1, <2>2 DEF ClientTypes
        <3>1. Len(out'[m]) <= Cap
            BY <2>1, <2>2, <2>4
        <3> HIDE DEF q, m, r
        <3>2. /\ Len(q) \in Nat /\ DOMAIN q = 1..Len(q) /\ DOMAIN Append(q, r) = 1..(Len(q) + 1)
              /\ \A i \in 1..Len(q) : Append(q, r)[i] = q[i] /\ q[i] \in Requests
              /\ Append(q, r)[Len(q) + 1] = r
            BY <3>0, <2>2
        <3>3. /\ IsInjective(q)
              /\ \A i \in DOMAIN q : wait[<<m, q[i]>>] = "gone" /\ q[i] \in ready \cup failed
            BY <2>2 DEF MetOnce, q
        <3>4. IsInjective(Append(q, r))
            BY <2>6, <3>2, <3>3 DEF IsInjective
        <3>5. \A i \in 1..(Len(q) + 1) : i = Len(q) + 1 \/ i \in 1..Len(q)
            BY <3>2
        <3>6. ASSUME NEW i \in DOMAIN Append(q, r)
              PROVE  wait'[<<m, Append(q, r)[i]>>] = "gone" /\ Append(q, r)[i] \in ready \cup failed
            <4>1. CASE i = Len(q) + 1
                BY <2>2, <2>3, <3>0, <3>2, <4>1
            <4>2. CASE i \in 1..Len(q)
                BY <2>2, <2>7, <3>2, <3>3, <4>2, Pairs
            <4> QED BY <3>2, <3>5, <4>1, <4>2
        <3> QED BY <2>5, <3>1, <3>4, <3>6
    <2> QED BY <2>1, <2>8, <2>9 DEF MetOnce
<1>9. ASSUME NEW m \in Monitors, Handle(m) PROVE MetOnce'
    <2>1. /\ out[m] # <<>> /\ out' = [out EXCEPT ![m] = Tail(@)]
          /\ handled' = [handled EXCEPT ![m] = Append(@, Head(out[m]))]
          /\ UNCHANGED <<wait, ready, failed>>
        BY <1>9 DEF Handle, results
    <2>2. /\ handled[m] \in Seq(Requests) /\ out[m] \in Seq(Requests)
          /\ out'[m] = Tail(out[m]) /\ handled'[m] = Append(handled[m], Head(out[m]))
          /\ \A n \in Monitors \ {m} : out'[n] = out[n] /\ handled'[n] = handled[n]
        BY <2>1 DEF ClientTypes
    <2>3. \A n \in Monitors : Met(n)' = Met(n)
        <3>1. Met(m)' = Met(m)
            <4> DEFINE h == handled[m]
                       o == out[m]
            <4>1. Met(m)' = Append(h, Head(o)) \o Tail(o) /\ Met(m) = h \o o
                BY <2>2 DEF Met
            <4>2. h \in Seq(Requests) /\ o \in Seq(Requests) /\ o # <<>>
                BY <2>1, <2>2
            <4> HIDE DEF h, o
            <4> QED BY <4>1, <4>2, MetMoves
        <3> QED BY <2>2, <3>1 DEF Met
    <2>4. Len(out'[m]) <= Len(out[m]) /\ Len(out[m]) \in Nat /\ Len(out'[m]) \in Nat
        BY <2>1, <2>2
    <2>5. ASSUME NEW n \in Monitors PROVE Len(out'[n]) <= Cap
        <3>1. Len(out[n]) <= Cap /\ Cap \in Nat
            BY DEF MetOnce
        <3>2. CASE n = m
            BY <2>4, <3>1, <3>2
        <3>3. CASE n # m
            BY <2>2, <3>1, <3>3
        <3> QED BY <3>2, <3>3
    <2> QED BY <2>1, <2>3, <2>5 DEF MetOnce
<1>10. ASSUME NEW m \in Monitors, Cancel(m) \/ WorkerEnds(m) PROVE MetOnce'
    BY <1>1, <1>10 DEF Cancel, WorkerEnds, results
<1>11. CASE UNCHANGED vars
    BY <1>1, <1>11 DEF vars, results, monitor
<1> QED BY <1>2, <1>3, <1>4, <1>5, <1>6, <1>7, <1>8, <1>9, <1>10, <1>11
        DEF Next, Caller, Delete, Release, Goroutine, Waiting

(* Only a send to a channel whose owner is gone ends the process, and it left
   before the result came only if its context was done or the result was not
   the first. *)
LEMMA CrashStep ==
    HubProofs!IInv /\ ClientTypes /\ Published /\ Waits /\ CrashOnlyIfRepeated /\ [Next]_vars
        => CrashOnlyIfRepeated'
<1> SUFFICES ASSUME HubProofs!IInv, ClientTypes, Published, Waits, CrashOnlyIfRepeated, [Next]_vars
             PROVE  CrashOnlyIfRepeated'
    OBVIOUS
<1>0. HubProofs!TypeOK /\ HubProofs!Senders /\ HubProofs!Once /\ HubProofs!Newer /\ HubProofs!Numbers
    BY DEF HubProofs!IInv, HubProofs!Shape
<1>1. ASSUME ~Crashed, \A f \in Firings : pc'[f] = "panicked" => pc[f] = "panicked"
      PROVE  CrashOnlyIfRepeated'
    BY <1>1 DEF Crashed, CrashOnlyIfRepeated
<1>2. ASSUME ~Crashed, UNCHANGED hub PROVE CrashOnlyIfRepeated'
    BY <1>1, <1>2 DEF hub
<1>3. ASSUME ~Crashed, Caller PROVE CrashOnlyIfRepeated'
    BY <1>2, <1>3 DEF Caller, Add, Delete, Remove, Release, Go, GoMonitor
<1>4. ASSUME ~Crashed, NEW m \in Monitors, Cancel(m) \/ Handle(m) \/ WorkerEnds(m)
      PROVE  CrashOnlyIfRepeated'
    BY <1>2, <1>4 DEF Cancel, Handle, WorkerEnds
<1>5. ASSUME ~Crashed, NEW w \in Waiters, Waiting(w) PROVE CrashOnlyIfRepeated'
    BY <1>1, <1>5 DEF Waiting, Subscribe, Take, Hand, Leave,
                      Hub!Subscribe, Hub!Receive, Hub!Unsubscribe
<1>6. ASSUME ~Crashed, NEW f \in Firings, Send(f) \/ Answer(f) \/ AnswerError(f)
      PROVE  CrashOnlyIfRepeated'
    BY <1>2, <1>6 DEF Send, Answer, AnswerError
<1>7. ASSUME ~Crashed, NEW f \in Firings, Publish(f) PROVE CrashOnlyIfRepeated'
    <2>1. HubProofs!Publish(f, f[2]) /\ f[2] \in Requests
        BY <1>7, Pairs, HubSame DEF Publish
    <2>2. pc'[f] # "panicked" /\ \A i \in Firings \ {f} : pc'[i] = pc[i]
        BY <1>0, <2>1, HubSame, HubProofs!PublishEffect
    <2> QED BY <1>1, <1>7, <2>2
<1>8. ASSUME ~Crashed, NEW f \in Firings, Hub!Send(f) PROVE CrashOnlyIfRepeated'
    <2>1. pc'[f] # "panicked" /\ \A i \in Firings \ {f} : pc'[i] = pc[i]
        <3>1. HubProofs!Send(f)
            BY <1>8, Pairs, HubSame
        <3> QED BY <1>0, <3>1, HubSame, HubProofs!SendEffect
    <2> QED BY <1>1, <1>8, <2>1
<1>9. ASSUME NEW f \in Firings, Hub!Panic(f), UNCHANGED <<table, results, monitor>>
      PROVE  CrashOnlyIfRepeated'
    <2>1. pc[f] = "sending" /\ target[f] \in closed
        BY <1>9 DEF Hub!Panic
    <2>2. target[f] \in pending[f] /\ target[f] \in Waiters
        BY <1>0, <2>1 DEF HubProofs!Senders, HubProofs!TypeOK
    <2>3. PICK w \in Waiters : w = target[f]
        BY <2>2
    <2>4. CASE cancelled # {}
        BY <1>9, <2>4 DEF CrashOnlyIfRepeated, monitor
    <2>5. CASE cancelled = {}
        <3>1. wait[w] = "gone" /\ got[w] # {} /\ home[w] = w[2]
            BY <2>1, <2>3, <2>5 DEF Waits
        <3>2. PICK n \in got[w] : TRUE
            BY <3>1
        <3>3. n \in 1..published /\ topic[n] = w[2]
            BY <1>0, <3>1, <3>2 DEF HubProofs!Newer, HubProofs!Numbers, HubProofs!TypeOK, HubProofs!Parcels
        <3>4. /\ parcel[f] # 0 /\ parcel[f] <= published /\ author[parcel[f]] = f
              /\ topic[parcel[f]] = w[2]
            BY <1>0, <2>1, <2>2, <2>3, <3>1 DEF HubProofs!Senders, HubProofs!NoParcel
        <3>5. parcel[f] \in 1..published
            BY <1>0, <3>4 DEF HubProofs!TypeOK, HubProofs!Parcels, HubProofs!NoParcel
        <3>6. n # parcel[f]
            BY <1>0, <2>2, <2>3, <3>2 DEF HubProofs!Once
        <3>a. PICK h \in Firings : h = author[n]
            BY <3>3 DEF Published
        <3>7. /\ h \in Firings /\ h # f /\ h[2] = w[2] /\ f[2] = w[2]
              /\ fire[h] = "publishing" /\ fire[f] = "publishing"
            BY <3>3, <3>4, <3>5, <3>6, <3>a DEF Published
        <3>8. /\ h = <<h[1], w[2]>> /\ f = <<f[1], w[2]>> /\ w[2] \in Requests
              /\ h[1] \in Calls /\ f[1] \in Calls
            BY <3>7, Pairs
        <3>9. h[1] # f[1]
            BY <3>7, <3>8
        <3>10. w[2] \in FiredBy(h[1]) /\ w[2] \in FiredBy(f[1])
            BY <3>7, <3>8 DEF FiredBy
        <3>11. FiredBy(h[1])' = FiredBy(h[1]) /\ FiredBy(f[1])' = FiredBy(f[1])
            BY <1>9 DEF FiredBy, results
        <3> QED BY <3>8, <3>9, <3>10, <3>11 DEF CrashOnlyIfRepeated
    <2> QED BY <2>4, <2>5
<1>10. CASE UNCHANGED vars
    BY <1>10 DEF vars, hub, results, monitor, Crashed, CrashOnlyIfRepeated, FiredBy
<1> QED BY <1>3, <1>4, <1>5, <1>6, <1>7, <1>8, <1>9, <1>10
        DEF Next, Goroutine, Doing, Deliver

(* The invariant of the HTTP client holds always: who fires, who waits, and
   what the handlers met. *)
THEOREM ClientInvariance == Spec => []ClientInv
<1>1. Init => ClientInv
    <2> SUFFICES ASSUME Init PROVE ClientInv
        OBVIOUS
    <2>1. /\ listed = {} /\ made = {} /\ ready = {} /\ failed = {} /\ cancelled = {}
          /\ fire = [f \in Firings |-> "none"] /\ wait = [w \in Waiters |-> "none"]
          /\ out = [m \in Monitors |-> <<>>] /\ handled = [m \in Monitors |-> <<>>]
          /\ worker = [m \in Monitors |-> FALSE]
        BY DEF Init
    <2>2. /\ published = 0 /\ closed = {} /\ home = [c \in Waiters |-> None]
          /\ pc = [g \in Firings |-> "idle"]
        BY DEF Init, Hub!Init
    <2>3. <<>> \in Seq(Requests)
        OBVIOUS
    <2>4. ClientTypes
        BY <2>1, <2>3 DEF ClientTypes
    <2>5. Published
        BY <2>1, <2>2 DEF Published
    <2>6. Waits
        BY <2>1, <2>2, Pairs DEF Waits
    <2>7. MetOnce
        <3> SUFFICES ASSUME NEW m \in Monitors
                     PROVE  /\ Len(out[m]) <= Cap /\ IsInjective(Met(m))
                            /\ \A i \in DOMAIN Met(m) : FALSE
            BY DEF MetOnce
        <3>1. out[m] = <<>> /\ Met(m) = <<>> \o <<>>
            BY <2>1 DEF Met
        <3>2. Met(m) = <<>> /\ Len(out[m]) = 0
            BY <3>1
        <3>3. DOMAIN Met(m) = {}
            BY <3>2
        <3> QED BY <3>2, <3>3 DEF IsInjective
    <2>8. CrashOnlyIfRepeated
        BY <2>2 DEF CrashOnlyIfRepeated, Crashed
    <2> QED BY <2>4, <2>5, <2>6, <2>7, <2>8 DEF ClientInv
<1>2. HubProofs!IInv /\ ClientInv /\ [Next]_vars => ClientInv'
    BY TypesStep, PublishedStep, WaitsStep, MetStep, CrashStep DEF ClientInv
<1> QED BY <1>1, <1>2, ClientHubInvariance, PTL DEF Spec

(* Every variable of the client keeps its type; no more results wait for the
   worker than there is room for. *)
THEOREM ClientTypeCorrect == Spec => []TypeOK
<1>1. HubProofs!IInv /\ ClientInv => TypeOK
    <2>1. HubProofs!IInv => Hub!TypeOK
        BY DEF HubProofs!IInv, HubProofs!Shape, HubProofs!TypeOK, Hub!TypeOK,
               HubProofs!Parcels, Hub!Parcels, HubProofs!NoParcel, Hub!NoParcel
    <2>2. ClientInv => \A m \in Monitors : Len(out[m]) <= Cap
        BY DEF ClientInv, MetOnce
    <2> QED BY <2>1, <2>2 DEF ClientInv, ClientTypes, TypeOK
<1> QED BY <1>1, ClientHubInvariance, ClientInvariance, PTL

(* However many calls fire a request, a handler is called once at most for it,
   and only with a result that is there. *)
THEOREM ResultOnceAlways == Spec => []ResultOnce
<1>1. ClientInv => ResultOnce
    <2> SUFFICES ASSUME ClientInv, NEW m \in Monitors
                 PROVE  /\ IsInjective(Met(m))
                        /\ Seqs!ToSet(Met(m)) \subseteq FiredBy(m) \cap (ready \cup failed)
        BY DEF ResultOnce, Met
    <2>1. IsInjective(Met(m))
        BY DEF ClientInv, MetOnce
    <2>2. ASSUME NEW i \in DOMAIN Met(m) PROVE Met(m)[i] \in FiredBy(m) \cap (ready \cup failed)
        <3>1. Met(m)[i] \in Requests
            <4>1. Met(m) \in Seq(Requests)
                BY DEF ClientInv, ClientTypes, Met
            <4> QED BY <4>1
        <3>2. wait[<<m, Met(m)[i]>>] = "gone" /\ Met(m)[i] \in ready \cup failed
            BY DEF ClientInv, MetOnce
        <3>3. fire[<<m, Met(m)[i]>>] # "none"
            BY <3>1, <3>2, Pairs DEF ClientInv, Waits
        <3> QED BY <3>1, <3>2, <3>3 DEF FiredBy
    <2> QED BY <2>1, <2>2 DEF Seqs!ToSet
<1> QED BY <1>1, ClientInvariance, PTL

(* The process ends in a Publish only after a context was done, or when two
   calls have fired the same request. *)
THEOREM CrashOnlyIfRepeatedAlways == Spec => []CrashOnlyIfRepeated
<1>1. ClientInv => CrashOnlyIfRepeated
    BY DEF ClientInv
<1> QED BY <1>1, ClientInvariance, PTL
----------------------------------------------------------------------------
(* ReadStamp. *)

(* It does nothing to the client that another caller could not do. *)
THEOREM StampUsesClient == StampSpec => Spec
<1>1. [StampNext]_StampVars => [Next]_vars
    <2> SUFFICES ASSUME [StampNext]_StampVars PROVE [Next]_vars
        OBVIOUS
    <2>1. CASE ReadStamp
        <3>1. ~Crashed \/ UNCHANGED vars
            BY DEF StampNext, StampVars
        <3> QED BY <2>1, <3>1 DEF ReadStamp, StampAdd, StampGo, StampMonitor, StampWake, StampTake,
                          StampCancelled, StampSees, StampDefault, Next, Caller
    <2>2. CASE UNCHANGED StampVars
        BY <2>2 DEF StampVars
    <2> QED BY <2>1, <2>2 DEF StampNext, HandleStamp, SendVerdict, Next
<1>2. StampInit => Init
    BY DEF StampInit
<1> QED BY <1>1, <1>2, PTL DEF StampSpec, Spec

OwnTypes ==
    /\ stamp \in {"none", "added", "fired", "waiting", "choosing", "back",
                  "failed", "seen", "default"}
    /\ wg \in 0..1
    /\ done \in Seq(BOOLEAN) /\ Len(done) <= 2
    /\ verdicts \in Seq(BOOLEAN)
    /\ told \in Seq(BOOLEAN)

Before == {"none", "added", "fired"}

(* The client of a ReadStamp has one request and one goroutine that waits. *)
Alone ==
    /\ stamp # "none" => \E r \in Requests : made = {r}
    /\ stamp \in {"added", "fired"} => \A w \in Waiters : wait[w] = "none"
    /\ stamp # "none" => \A w, v \in Waiters : wait[w] # "none" /\ wait[v] # "none" => w = v

(* The wait group is released by the one call of the handler that finds a
   response, and nothing is said before. *)
Released ==
    /\ stamp \in Before => wg = 0
    /\ wg = 0 /\ stamp # "none" =>
          \A w \in Waiters : wait[w] # "none" => w[2] \in Seqs!ToSet(handled[w[1]])
    /\ wg = 1 \/ stamp \in Before => told = <<>> /\ verdicts = <<>> /\ done = <<>>
    /\ wg = 0 /\ stamp \notin Before => ready # {}
    /\ stamp \notin Before \cup {"waiting"} => wg = 0

StampInv == OwnTypes /\ Alone /\ Released

(* What the goroutines of the client leave alone. *)
LEMMA GoroutineFrame ==
    ASSUME ClientTypes, Goroutine \/ \E m \in Monitors : WorkerEnds(m)
    PROVE  /\ UNCHANGED <<made, handled>>
           /\ ready \subseteq ready' /\ cancelled \subseteq cancelled'
           /\ \A w \in Waiters : wait'[w] # "none" => wait[w] # "none"
<1>1. ASSUME NEW f \in Firings, Doing(f)
      PROVE  UNCHANGED <<made, handled, cancelled, wait>> /\ ready \subseteq ready'
    BY <1>1 DEF Doing, Send, Answer, AnswerError, Publish, Deliver, table, results, monitor
<1>2. ASSUME NEW v \in Waiters, Waiting(v)
      PROVE  /\ UNCHANGED <<made, handled, cancelled, ready>>
             /\ \A w \in Waiters : wait'[w] # "none" => wait[w] # "none"
    BY <1>2 DEF Waiting, Subscribe, Take, Hand, Leave, table, results, ClientTypes
<1>3. ASSUME NEW m \in Monitors, Cancel(m) \/ WorkerEnds(m)
      PROVE  UNCHANGED <<made, handled, wait, ready>> /\ cancelled \subseteq cancelled'
    BY <1>3 DEF Cancel, WorkerEnds, table, results
<1> QED BY <1>1, <1>2, <1>3 DEF Goroutine

(* What a call of the handler says are verdicts. *)
LEMMA VerdictTypes ==
    ASSUME NEW r, NEW said \in Verdicts(r)
    PROVE  said \in Seq(BOOLEAN)
<1> DEFINE first == IF r \in failed THEN <<FALSE>> ELSE <<>>
<1>1. PICK bad \in {<<>>, <<FALSE>>, <<FALSE, FALSE>>} : said = first \o bad \o <<TRUE>>
    BY DEF Verdicts
<1>2. /\ <<>> \in Seq(BOOLEAN) /\ <<TRUE>> \in Seq(BOOLEAN)
      /\ <<FALSE>> \in Seq(BOOLEAN) /\ <<FALSE, FALSE>> \in Seq(BOOLEAN)
    OBVIOUS
<1>3. first \in Seq(BOOLEAN) /\ bad \in Seq(BOOLEAN)
    BY <1>2
<1> HIDE DEF first
<1> QED BY <1>1, <1>2, <1>3

(* The handler is called for a response while the wait group still counts. *)
LEMMA ReleaseOnce ==
    ASSUME ClientInv, OwnTypes, Released, stamp # "none", NEW m \in Monitors, Handle(m)
    PROVE  wg = 1 /\ wait[<<m, Head(out[m])>>] = "gone" /\ Head(out[m]) \in Requests
<1> DEFINE r == Head(out[m])
<1>1. out[m] \in Seq(Requests) /\ handled[m] \in Seq(Requests) /\ out[m] # <<>>
    BY DEF ClientInv, ClientTypes, Handle
<1>2. /\ Len(handled[m]) \in Nat /\ DOMAIN handled[m] = 1..Len(handled[m])
      /\ Len(handled[m]) + 1 \in DOMAIN Met(m) /\ Met(m)[Len(handled[m]) + 1] = r
      /\ \A i \in 1..Len(handled[m]) : i \in DOMAIN Met(m) /\ Met(m)[i] = handled[m][i]
      /\ r \in Requests
    <2> DEFINE h == handled[m]
               o == out[m]
    <2>1. h \in Seq(Requests) /\ o \in Seq(Requests) /\ o # <<>>
        BY <1>1
    <2>2. Met(m) = h \o o /\ r = Head(o)
        BY DEF Met
    <2> HIDE DEF h, o, r
    <2>3. /\ Len(h) \in Nat /\ Len(o) \in Nat \ {0} /\ Head(o) = o[1]
          /\ DOMAIN h = 1..Len(h) /\ DOMAIN (h \o o) = 1..(Len(h) + Len(o))
          /\ \A i \in 1..Len(h) : (h \o o)[i] = h[i]
          /\ (h \o o)[Len(h) + 1] = o[1]
          /\ o[1] \in Requests
        BY <2>1
    <2> QED BY <2>2, <2>3 DEF h
<1>3. wait[<<m, r>>] = "gone"
    BY <1>2 DEF ClientInv, MetOnce
<1>4. wg # 0
    <2> SUFFICES ASSUME wg = 0 PROVE FALSE
        OBVIOUS
    <2>1. <<m, r>> \in Waiters /\ <<m, r>>[1] = m /\ <<m, r>>[2] = r
        BY <1>2, Pairs
    <2> DEFINE w == <<m, r>>
    <2> HIDE DEF w, r
    <2>2. r \in Seqs!ToSet(handled[m])
        BY <1>3, <2>1 DEF Released, w
    <2>3. PICK i \in DOMAIN handled[m] : handled[m][i] = r
        BY <2>2 DEF Seqs!ToSet
    <2>4. i = Len(handled[m]) + 1
        BY <1>2, <2>3 DEF ClientInv, MetOnce, IsInjective
    <2> QED BY <1>2, <2>3, <2>4
<1> QED BY <1>2, <1>3, <1>4 DEF OwnTypes

(* Each step keeps the types of ReadStamp. *)
LEMMA OwnTypesStep ==
    ASSUME ClientInv, StampInv, StampNext
    PROVE  OwnTypes'
<1> USE DEF OwnTypes
<1>1. OwnTypes
    BY DEF StampInv
<1>2. CASE UNCHANGED own
    BY <1>1, <1>2 DEF own
<1>3. CASE ReadStamp
    <2>1. done' = done \/ (done # <<>> /\ done' = Tail(done))
        BY <1>3 DEF ReadStamp, StampAdd, StampGo, StampMonitor, StampWake, StampTake,
                    StampCancelled, StampSees, StampDefault
    <2>2. done' \in Seq(BOOLEAN) /\ Len(done') <= 2
        <3>1. CASE done # <<>>
            <4>1. Tail(done) \in Seq(BOOLEAN) /\ Len(Tail(done)) = Len(done) - 1 /\ Len(done) \in Nat
                BY <1>1, <3>1
            <4> QED BY <1>1, <2>1, <4>1
        <3> QED BY <1>1, <2>1, <3>1
    <2>3. /\ UNCHANGED <<verdicts, told>> /\ wg' \in {wg, 1}
          /\ stamp' \in {"added", "fired", "waiting", "choosing", "back", "failed", "seen", "default"}
        BY <1>3 DEF ReadStamp, StampAdd, StampGo, StampMonitor, StampWake, StampTake,
                    StampCancelled, StampSees, StampDefault
    <2> QED BY <1>1, <2>2, <2>3
<1>4. CASE stamp # "none" /\ HandleStamp
    <2>1. PICK m \in Monitors :
              /\ Handle(m)
              /\ IF Head(out[m]) \in ready
                 THEN wg' = wg - 1 /\ verdicts' \in Verdicts(Head(out[m]))
                 ELSE UNCHANGED <<wg, verdicts>>
        BY <1>4 DEF HandleStamp
    <2>2. UNCHANGED <<stamp, done, told>>
        BY <1>4 DEF HandleStamp
    <2>3. CASE Head(out[m]) \in ready
        <3>1. verdicts' \in Seq(BOOLEAN)
            BY <2>1, <2>3, VerdictTypes
        <3>2. wg = 1 /\ wg' = 0
            <4>1. Released
                BY DEF StampInv
            <4>2. wg = 1
                BY <1>1, <1>4, <2>1, <4>1, ReleaseOnce
            <4> QED BY <2>1, <2>3, <4>2
        <3> QED BY <1>1, <2>2, <3>1, <3>2
    <2>4. CASE Head(out[m]) \notin ready
        BY <1>1, <2>1, <2>2, <2>4
    <2> QED BY <2>3, <2>4
<1>5. CASE SendVerdict
    <2>1. Append(done, Head(verdicts)) \in Seq(BOOLEAN) /\ Append(told, Head(verdicts)) \in Seq(BOOLEAN)
          /\ Tail(verdicts) \in Seq(BOOLEAN)
        BY <1>1, <1>5 DEF SendVerdict
    <2>2. Len(done') <= 2
        BY <1>1, <1>5 DEF SendVerdict
    <2> QED BY <1>1, <1>5, <2>1, <2>2 DEF SendVerdict
<1> QED BY <1>2, <1>3, <1>4, <1>5 DEF StampNext
(* Each step keeps the one request of ReadStamp, and its one goroutine. *)
LEMMA AloneStep ==
    ASSUME ClientInv, Alone, StampNext
    PROVE  Alone'
<1>0. ClientTypes /\ Published /\ Waits
    BY DEF ClientInv
<1> USE DEF Alone
<1>1. CASE stamp = "none" /\ UNCHANGED own
    BY <1>1 DEF own
<1>2. CASE (Goroutine \/ \E m \in Monitors : WorkerEnds(m)) /\ UNCHANGED own
    BY <1>0, <1>2, GoroutineFrame DEF own
<1>3. CASE StampAdd
    <2>1. PICK r \in Requests : Add(r)
        BY <1>3 DEF StampAdd
    <2>2. made = {} /\ made' = {r} /\ wait' = wait /\ stamp' = "added"
        BY <1>3, <2>1 DEF StampAdd, Add, monitor
    <2>3. \A w \in Waiters : wait[w] = "none"
        BY <1>0, <2>2, Pairs DEF Waits, Published
    <2> QED BY <2>2, <2>3
<1>4. CASE StampGo
    <2>1. stamp = "added" /\ stamp' = "fired" /\ UNCHANGED <<made, wait>>
        BY <1>4 DEF StampGo, Go, table, monitor
    <2> QED BY <2>1
<1>5. CASE StampMonitor
    <2>1. PICK m \in Monitors : GoMonitor(m)
        BY <1>5 DEF StampMonitor
    <2>2. /\ stamp = "fired" /\ stamp' = "waiting" /\ made' = made
          /\ wait' = [w \in Waiters |-> IF w[1] = m /\ w[2] \in listed THEN "starting" ELSE wait[w]]
        BY <1>5, <2>1 DEF StampMonitor, GoMonitor, table
    <2>3. PICK r \in Requests : made = {r}
        BY <2>2
    <2>4. ASSUME NEW w \in Waiters, wait'[w] # "none" PROVE w = <<m, r>>
        <3>1. w[1] = m /\ w[2] = r
            BY <1>0, <2>2, <2>3, <2>4 DEF ClientTypes
        <3> QED BY <3>1, Pairs
    <2> QED BY <2>2, <2>3, <2>4
<1>6. CASE StampWake \/ StampTake \/ StampCancelled \/ StampSees \/ StampDefault
    BY <1>6 DEF StampWake, StampTake, StampCancelled, StampSees, StampDefault,
                vars, table, monitor
<1>7. CASE stamp # "none" /\ HandleStamp
    BY <1>7 DEF HandleStamp, Handle, table
<1>8. CASE SendVerdict
    BY <1>8 DEF SendVerdict, vars, table, monitor
<1> QED BY <1>1, <1>2, <1>3, <1>4, <1>5, <1>6, <1>7, <1>8 DEF StampNext, ReadStamp

(* Each step keeps the wait group shut until the handler finds a response. *)
LEMMA ReleasedStep ==
    ASSUME ClientInv, StampInv, StampNext
    PROVE  Released'
<1>0. ClientTypes /\ Published /\ Waits /\ OwnTypes /\ Alone /\ Released
    BY DEF ClientInv, StampInv
<1> USE DEF Released, Before
<1>1. CASE stamp = "none" /\ UNCHANGED own
    BY <1>0, <1>1 DEF own
<1>2. CASE (Goroutine \/ \E m \in Monitors : WorkerEnds(m)) /\ UNCHANGED own
    <2>1. /\ UNCHANGED <<stamp, wg, told, verdicts, done, handled>>
          /\ ready \subseteq ready'
          /\ \A w \in Waiters : wait'[w] # "none" => wait[w] # "none"
        BY <1>0, <1>2, GoroutineFrame DEF own
    <2> QED BY <1>0, <2>1
<1>3. CASE StampAdd
    <2>1. /\ stamp = "none" /\ stamp' = "added" /\ UNCHANGED <<wg, told, verdicts, done, wait>>
          /\ made = {}
        BY <1>3 DEF StampAdd, Add, monitor
    <2>2. \A w \in Waiters : wait[w] = "none"
        BY <1>0, <2>1, Pairs DEF Waits, Published
    <2> QED BY <1>0, <2>1, <2>2
<1>4. CASE StampGo
    <2>1. stamp = "added" /\ stamp' = "fired" /\ UNCHANGED <<wg, told, verdicts, done, wait>>
        BY <1>4 DEF StampGo, Go, monitor
    <2> QED BY <1>0, <2>1 DEF Alone
<1>5. CASE StampMonitor
    <2>1. stamp = "fired" /\ stamp' = "waiting" /\ wg' = 1 /\ UNCHANGED <<told, verdicts, done>>
        BY <1>5 DEF StampMonitor
    <2> QED BY <1>0, <2>1
<1>6. CASE StampWake
    <2>1. stamp = "waiting" /\ wg = 0 /\ stamp' = "choosing"
          /\ UNCHANGED <<wg, told, verdicts, done, wait, handled, ready>>
        BY <1>6 DEF StampWake, vars, monitor, results
    <2> QED BY <1>0, <2>1
<1>7. CASE StampTake \/ StampCancelled \/ StampSees \/ StampDefault
    <2>1. /\ stamp \in {"choosing", "back", "failed"}
          /\ stamp' \in {"back", "failed", "seen", "default"}
          /\ UNCHANGED <<wg, told, verdicts, wait, handled, ready>>
        BY <1>7 DEF StampTake, StampCancelled, StampSees, StampDefault, vars, monitor, results
    <2> QED BY <1>0, <2>1
<1>8. CASE stamp # "none" /\ HandleStamp
    <2>1. PICK m \in Monitors :
              /\ Handle(m)
              /\ IF Head(out[m]) \in ready
                 THEN wg' = wg - 1 /\ verdicts' \in Verdicts(Head(out[m]))
                 ELSE UNCHANGED <<wg, verdicts>>
        BY <1>8 DEF HandleStamp
    <2> DEFINE r == Head(out[m])
               w == <<m, r>>
    <2>2. /\ UNCHANGED <<stamp, done, told, wait, ready>>
          /\ handled' = [handled EXCEPT ![m] = Append(@, r)]
        BY <1>8, <2>1 DEF HandleStamp, Handle, results
    <2>3. wg = 1 /\ wait[w] = "gone" /\ r \in Requests
        BY <1>0, <1>8, <2>1, ReleaseOnce
    <2>4. /\ handled[m] \in Seq(Requests) /\ handled'[m] = Append(handled[m], r)
          /\ stamp \notin Before
        BY <1>0, <2>2, <2>3 DEF ClientTypes
    <2>5. CASE r \notin ready
        <3>1. UNCHANGED <<wg, verdicts, stamp, done, told, ready>>
            BY <2>1, <2>2, <2>5
        <3> QED BY <1>0, <2>3, <3>1
    <2>6. CASE r \in ready
        <3>1. wg' = 0
            BY <2>1, <2>3, <2>6
        <3>2. r \in Seqs!ToSet(handled'[m])
            <4>1. Len(handled[m]) + 1 \in DOMAIN handled'[m] /\ handled'[m][Len(handled[m]) + 1] = r
                <5> DEFINE h == handled[m]
                <5>1. h \in Seq(Requests) /\ r \in Requests
                    BY <2>3, <2>4
                <5> HIDE DEF h, r
                <5>2. Len(h) + 1 \in DOMAIN Append(h, r) /\ Append(h, r)[Len(h) + 1] = r
                    BY <5>1
                <5> QED BY <2>4, <5>2 DEF h
            <4> QED BY <4>1 DEF Seqs!ToSet
        <3>3. ASSUME NEW v \in Waiters, wait'[v] # "none"
              PROVE  v[2] \in Seqs!ToSet(handled'[v[1]])
            <4>1. w \in Waiters /\ w[1] = m /\ w[2] = r
                BY <2>3, Pairs
            <4> HIDE DEF w, r
            <4>2. v = w
                BY <1>0, <1>8, <2>2, <2>3, <3>3, <4>1 DEF Alone
            <4> QED BY <3>2, <4>1, <4>2
        <3>4. ready' # {}
            BY <2>2, <2>6
        <3> HIDE DEF r
        <3> QED BY <2>2, <2>4, <3>1, <3>3, <3>4
    <2> QED BY <2>5, <2>6
<1>9. CASE SendVerdict
    <2>1. verdicts # <<>> /\ UNCHANGED <<stamp, wg, wait, handled, ready>>
        BY <1>9 DEF SendVerdict, vars, monitor, results
    <2> QED BY <1>0, <2>1
<1> QED BY <1>1, <1>2, <1>3, <1>4, <1>5, <1>6, <1>7, <1>8, <1>9 DEF StampNext, ReadStamp

(* The invariant of ReadStamp holds always: its one request and its wait group. *)
THEOREM StampInvariance == StampSpec => []StampInv
<1>1. StampInit => StampInv
    <2> SUFFICES ASSUME StampInit PROVE StampInv
        OBVIOUS
    <2>1. stamp = "none" /\ wg = 0 /\ done = <<>> /\ verdicts = <<>> /\ told = <<>>
        BY DEF StampInit
    <2>2. <<>> \in Seq(BOOLEAN) /\ Len(<<>>) = 0
        OBVIOUS
    <2> QED BY <2>1, <2>2 DEF StampInv, OwnTypes, Alone, Released, Before
<1>2. ClientInv /\ StampInv /\ [StampNext]_StampVars => StampInv'
    <2> SUFFICES ASSUME ClientInv, StampInv, [StampNext]_StampVars PROVE StampInv'
        OBVIOUS
    <2>1. CASE StampNext
        BY <2>1, OwnTypesStep, AloneStep, ReleasedStep DEF StampInv
    <2>2. CASE UNCHANGED StampVars
        BY <2>2 DEF StampVars, own, vars, table, results, monitor, StampInv, OwnTypes, Alone, Released
    <2> QED BY <2>1, <2>2
<1> QED BY <1>1, <1>2, StampUsesClient, ClientInvariance, PTL DEF StampSpec

(* The state of ReadStamp has the types declared for it: its wait group, too,
   which would panic below zero. *)
THEOREM StampTypeCorrect == StampSpec => []StampTypeOK
<1>1. TypeOK /\ StampInv => StampTypeOK
    BY DEF StampInv, OwnTypes, StampTypeOK
<1> QED BY <1>1, StampInvariance, StampUsesClient, ClientTypeCorrect, PTL

(* ReadStamp does not get past its wait group without a response. *)
THEOREM WaitsForResponse ==
    StampSpec => [](stamp \notin {"none", "added", "fired", "waiting"} => ready # {})
<1>1. StampInv => (stamp \notin {"none", "added", "fired", "waiting"} => ready # {})
    BY DEF StampInv, Released, Before
<1> QED BY <1>1, StampInvariance, PTL
=============================================================================
