----------------------------- MODULE WebClient -----------------------------
(***************************************************************************)
(* The HTTP client of golang/web-address/http.go: a table of requests, Go, *)
(* which fires all of them one after the other, and GoMonitor, which fires *)
(* them side by side and hands their results to a handler.  Between a      *)
(* firing and the goroutine that waits for its result lies a hub of        *)
(* Cheetah, keyed by request.                                              *)
(*                                                                         *)
(* Of the table it matters which requests are in it.  The groups they were *)
(* added in are for Remove, which may take any of them; the stack of keys  *)
(* is read for headers only, which are payload, and the ids by nobody.     *)
(*                                                                         *)
(* A request has one Result: every firing of it writes into the same one   *)
(* and publishes a pointer to it, so a parcel of the hub says which        *)
(* request it is of, and what is in it is what is in there when somebody   *)
(* looks.  Error and IsReady are set and never cleared.                    *)
(*                                                                         *)
(* The caller is one goroutine.  Go and GoMonitor fire what the table      *)
(* holds when they are called; their goroutines keep the entries, whatever *)
(* becomes of the table.                                                   *)
(***************************************************************************)
EXTENDS Naturals, Sequences, FiniteSets, Functions

Seqs == INSTANCE SequencesExt  \* whose Remove is another one

CONSTANTS
    Requests,   \* the ids genID can make: bounds the Adds
    Goes,       \* calls of Go
    Monitors,   \* calls of GoMonitor, each with a context and a handler
    MaxFirings, \* bounds the calls of doRequest
    Cap,        \* capacity of out
    None

Calls == Goes \cup Monitors
Firings == Calls \X Requests
Waiters == Monitors \X Requests

ASSUME WebClientAssumption ==
    /\ IsFiniteSet(Requests) /\ IsFiniteSet(Calls)
    /\ Goes \cap Monitors = {}
    /\ MaxFirings \in Nat
    /\ Cap \in Nat \ {0}
    /\ None \notin Requests \cup Waiters \cup Firings

(* The hub of the client: the firings publish, the waiters subscribe. *)
VARIABLES subscribers, last, slot, closed, pc, parcel, pending, target,
          published, topic, author, home, born, replayed, got

hub == <<subscribers, last, slot, closed, pc, parcel, pending, target,
         published, topic, author, home, born, replayed, got>>

Hub == INSTANCE Cheetah WITH
          Keys <- Requests, Chans <- Waiters, Publishers <- Firings,
          MaxParcels <- MaxFirings

VARIABLES
    listed,    \* the requests in c.reqs
    made       \* ids that were made

table == <<listed, made>>

VARIABLES
    ready,     \* requests whose Result has IsReady set
    failed,    \* requests whose Result has an Error
    fire       \* fire[f]: where the doRequest f is

results == <<ready, failed, fire>>

VARIABLES
    wait,      \* wait[w]: where the goroutine is that waits for a result
    out,       \* out[m]: the channel between these and the worker of m
    worker,    \* worker[m]: the goroutine that calls the handler runs
    handled,   \* handled[m]: the results the handler was called with
    cancelled  \* the calls of GoMonitor whose context is done

monitor == <<wait, out, worker, handled, cancelled>>

vars == <<hub, table, results, monitor>>

Init ==
    /\ Hub!Init
    /\ listed = {}
    /\ made = {}
    /\ ready = {}
    /\ failed = {}
    /\ fire = [f \in Firings |-> "none"]
    /\ wait = [w \in Waiters |-> "none"]
    /\ out = [m \in Monitors |-> <<>>]
    /\ worker = [m \in Monitors |-> FALSE]
    /\ handled = [m \in Monitors |-> <<>>]
    /\ cancelled = {}

----------------------------------------------------------------------------
(* The table. *)

(* doRequest is back. *)
Done(f) == fire[f] = "publishing" /\ pc[f] = "idle"

Idle(f) == fire[f] = "none" \/ Done(f)

(* The caller is not in Go. *)
CallerFree == \A g \in Goes, r \in Requests : Idle(<<g, r>>)

Add(r) ==
    /\ CallerFree
    /\ r \notin made
    /\ made' = made \cup {r}
    /\ listed' = listed \cup {r}
    /\ UNCHANGED <<hub, results, monitor>>

(* A group, whichever requests it has. *)
Remove(group) ==
    /\ CallerFree
    /\ listed' = listed \ group
    /\ UNCHANGED <<made, hub, results, monitor>>

Delete(r) == Remove({r})

Release == Remove(listed)

FiredBy(c) == {r \in Requests : fire[<<c, r>>] # "none"}
Fired == {f \in Firings : fire[f] # "none"}

(* What the table holds is fired by call c, at once or when its turn comes. *)
Begin(c, state) ==
    /\ CallerFree
    /\ FiredBy(c) = {}
    /\ Cardinality(Fired) + Cardinality(listed) <= MaxFirings
    /\ fire' = [f \in Firings |-> IF f[1] = c /\ f[2] \in listed THEN state ELSE fire[f]]

(* The caller fires them itself, in the order of the map iteration. *)
Go(g) ==
    /\ Begin(g, "due")
    /\ UNCHANGED <<ready, failed, hub, table, monitor>>

(* A goroutine that fires and one that waits for each of them, and the worker;
   the caller is back before any of these has done anything. *)
GoMonitor(m) ==
    /\ Begin(m, "sent")
    /\ ~worker[m] /\ m \notin cancelled
    /\ worker' = [worker EXCEPT ![m] = TRUE]
    /\ wait' = [w \in Waiters |-> IF w[1] = m /\ w[2] \in listed THEN "starting" ELSE wait[w]]
    /\ UNCHANGED <<ready, failed, out, handled, cancelled, hub, table>>

----------------------------------------------------------------------------
(* doRequest. *)

(* Go sends a request when the one before is done. *)
Send(f) ==
    /\ fire[f] = "due"
    /\ \A r \in Requests : fire[<<f[1], r>>] = "due" \/ Idle(<<f[1], r>>)
    /\ fire' = [fire EXCEPT ![f] = "sent"]
    /\ UNCHANGED <<ready, failed, hub, table, monitor>>

Answer(f) ==
    /\ fire[f] = "sent"
    /\ ready' = ready \cup {f[2]}
    /\ fire' = [fire EXCEPT ![f] = "answered"]
    /\ UNCHANGED <<failed, hub, table, monitor>>

(* No address, no connection, or a body that an earlier firing has read to its
   end. *)
AnswerError(f) ==
    /\ fire[f] = "sent"
    /\ failed' = failed \cup {f[2]}
    /\ fire' = [fire EXCEPT ![f] = "answered"]
    /\ UNCHANGED <<ready, hub, table, monitor>>

(* Mutant: the result is published before it is there. *)
PublishEarly(f) ==
    /\ fire[f] \in {"sent", "answered"}
    /\ Hub!Publish(f, f[2])
    /\ fire' = [fire EXCEPT ![f] = "publishing"]
    /\ UNCHANGED <<ready, failed, table, monitor>>

Publish(f) ==
    /\ fire[f] = "answered"
    /\ Hub!Publish(f, f[2])
    /\ fire' = [fire EXCEPT ![f] = "publishing"]
    /\ UNCHANGED <<ready, failed, table, monitor>>

(* The rest of Publish; its panic ends the process. *)
Deliver(f) ==
    /\ Hub!Send(f) \/ Hub!Panic(f)
    /\ UNCHANGED <<table, results, monitor>>

----------------------------------------------------------------------------
(* The goroutines of GoMonitor. *)

Subscribe(w) ==
    /\ wait[w] = "starting"
    /\ Hub!Subscribe(w, w[2])
    /\ wait' = [wait EXCEPT ![w] = "waiting"]
    /\ UNCHANGED <<out, worker, handled, cancelled, table, results>>

Take(w) ==
    /\ wait[w] = "waiting"
    /\ Hub!Receive(w)
    /\ wait' = [wait EXCEPT ![w] = "holding"]
    /\ UNCHANGED <<out, worker, handled, cancelled, table, results>>

(* One result is handed to the worker and that is all: the deferred
   Unsubscribe closes the channel. *)
Hand(w) ==
    /\ wait[w] = "holding"
    /\ Len(out[w[1]]) < Cap
    /\ out' = [out EXCEPT ![w[1]] = Append(@, w[2])]
    /\ Hub!Unsubscribe(w)
    /\ wait' = [wait EXCEPT ![w] = "gone"]
    /\ UNCHANGED <<worker, handled, cancelled, table, results>>

(* Mutant: nobody waits longer than it likes. *)
LeaveEarly(w) ==
    /\ wait[w] \in {"waiting", "holding"}
    /\ Hub!Unsubscribe(w)
    /\ wait' = [wait EXCEPT ![w] = "gone"]
    /\ UNCHANGED <<out, worker, handled, cancelled, table, results>>

(* ctx.Done in either select. *)
Leave(w) ==
    /\ w[1] \in cancelled
    /\ wait[w] \in {"waiting", "holding"}
    /\ Hub!Unsubscribe(w)
    /\ wait' = [wait EXCEPT ![w] = "gone"]
    /\ UNCHANGED <<out, worker, handled, cancelled, table, results>>

(* The worker calls the handler with a result. *)
Handle(m) ==
    /\ worker[m]
    /\ out[m] # <<>>
    /\ out' = [out EXCEPT ![m] = Tail(@)]
    /\ handled' = [handled EXCEPT ![m] = Append(@, Head(out[m]))]
    /\ UNCHANGED <<wait, worker, cancelled, hub, table, results>>

WorkerEnds(m) ==
    /\ m \in cancelled
    /\ worker[m]
    /\ worker' = [worker EXCEPT ![m] = FALSE]
    /\ UNCHANGED <<wait, out, handled, cancelled, hub, table, results>>

Cancel(m) ==
    /\ worker[m]
    /\ m \notin cancelled
    /\ cancelled' = cancelled \cup {m}
    /\ UNCHANGED <<wait, out, worker, handled, hub, table, results>>

----------------------------------------------------------------------------

Crashed == \E f \in Firings : pc[f] = "panicked"

Caller ==
    \/ \E r \in Requests : Add(r) \/ Delete(r)
    \/ \E group \in SUBSET listed : Remove(group)
    \/ Release
    \/ \E g \in Goes : Go(g)
    \/ \E m \in Monitors : GoMonitor(m)

Doing(f) == Send(f) \/ Answer(f) \/ AnswerError(f) \/ Publish(f) \/ Deliver(f)
Waiting(w) == Subscribe(w) \/ Take(w) \/ Hand(w) \/ Leave(w)

Goroutine ==
    \/ \E f \in Firings : Doing(f)
    \/ \E w \in Waiters : Waiting(w)
    \/ \E m \in Monitors : Cancel(m)

Next ==
    /\ ~Crashed
    /\ \/ Caller
       \/ Goroutine
       \/ \E m \in Monitors : Handle(m) \/ WorkerEnds(m)

Spec == Init /\ [][Next]_vars

(* Goroutines are scheduled, a request comes to an end, and a send that finds
   room again and again gets its turn.  Handlers come back. *)
Fairness ==
    /\ \A f \in Firings : SF_vars(~Crashed /\ Doing(f))
    /\ \A w \in Waiters : WF_vars(~Crashed /\ Waiting(w))

FairSpec == Spec /\ Fairness /\ \A m \in Monitors : WF_vars(~Crashed /\ Handle(m))

----------------------------------------------------------------------------
(* Properties. *)

TypeOK ==
    /\ Hub!TypeOK
    /\ made \subseteq Requests
    /\ listed \subseteq made
    /\ ready \subseteq made /\ failed \subseteq made
    /\ fire \in [Firings -> {"none", "due", "sent", "answered", "publishing"}]
    /\ wait \in [Waiters -> {"none", "starting", "waiting", "holding", "gone"}]
    /\ out \in [Monitors -> Seq(Requests)]
    /\ \A m \in Monitors : Len(out[m]) <= Cap
    /\ worker \in [Monitors -> BOOLEAN]
    /\ handled \in [Monitors -> Seq(Requests)]
    /\ cancelled \subseteq Monitors

(* A handler is called once at most for a request, only for those its own
   GoMonitor fired, and never before a response or an error is there. *)
ResultOnce ==
    \A m \in Monitors :
        LET met == handled[m] \o out[m] IN
        /\ IsInjective(met)
        /\ Seqs!ToSet(met) \subseteq FiredBy(m) \cap (ready \cup failed)

(* The panic of a send on a closed channel takes two firings of one request,
   or a context that is done: the goroutine that waits leaves after the first
   result, and a second doRequest may be on its way to it. *)
CrashOnlyIfRepeated ==
    Crashed => \/ cancelled # {}
               \/ \E c, d \in Calls : c # d /\ FiredBy(c) \cap FiredBy(d) # {}

(* GoMonitor "streams results to handler" (http.go:177): every request it
   fires comes to its handler, in spite of the firing that may be over before
   anybody waits for it.  Not so where another GoMonitor fires it too, and
   whose waiter takes the latched result. *)
ResultHandled ==
    \A m \in Monitors, r \in Requests :
        fire[<<m, r>>] = "sent" ~>
            \/ r \in Seqs!ToSet(handled[m])
            \/ m \in cancelled \/ Crashed
            \/ \E n \in Monitors \ {m} : r \in FiredBy(n)
============================================================================
