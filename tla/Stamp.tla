------------------------------- MODULE Stamp -------------------------------
(***************************************************************************)
(* Stamp and ReadStamp of golang/core/stamp.go, which ask a service where  *)
(* the peer is: a caller of the HTTP client that fires its one request     *)
(* with Go and once more with GoMonitor and waits, on a wait group and     *)
(* then on a channel, for its handler.  Until ReadStamp begins the client  *)
(* may be in the hands of any other caller, whose handlers come back.      *)
(*                                                                         *)
(* The address of the request is what SplitHostPort finds in the name of   *)
(* the peer's network, so it depends on the net.Addr whether the request   *)
(* has one; "udp" has none, and doRequest then takes AnswerError.          *)
(***************************************************************************)
EXTENDS WebClient, Integers

VARIABLES
    stamp,     \* where ReadStamp, and Stamp after it, is
    wg,        \* the counter of the wait group
    done,      \* the channel done
    verdicts,  \* what the handler has still to send to it
    told       \* what it has sent (history)

own == <<stamp, wg, done, verdicts, told>>

StampInit ==
    /\ Init
    /\ stamp = "none"
    /\ wg = 0
    /\ done = <<>>
    /\ verdicts = <<>>
    /\ told = <<>>

StampAdd ==
    /\ stamp = "none" /\ made = {}
    /\ \E r \in Requests : Add(r)
    /\ stamp' = "added"
    /\ UNCHANGED <<wg, done, verdicts, told>>

StampGo ==
    /\ stamp = "added"
    /\ \E g \in Goes : Go(g)
    /\ stamp' = "fired"
    /\ UNCHANGED <<wg, done, verdicts, told>>

(* Go is back. *)
StampMonitor ==
    /\ stamp = "fired"
    /\ \E m \in Monitors : GoMonitor(m)
    /\ wg' = 1
    /\ stamp' = "waiting"
    /\ UNCHANGED <<done, verdicts, told>>

(* wg.Wait is back; it knows nothing of the context. *)
StampWake ==
    /\ stamp = "waiting"
    /\ wg = 0
    /\ stamp' = "choosing"
    /\ UNCHANGED <<wg, done, verdicts, told, vars>>

(* <-done: the first verdict is gone when done is returned. *)
StampTake ==
    /\ stamp = "choosing"
    /\ done # <<>>
    /\ done' = Tail(done)
    /\ stamp' = "back"
    /\ UNCHANGED <<wg, verdicts, told, vars>>

(* ctx.Done: a channel of its own is returned, with false in it. *)
StampCancelled ==
    /\ stamp = "choosing"
    /\ cancelled # {}
    /\ stamp' = "failed"
    /\ UNCHANGED <<wg, done, verdicts, told, vars>>

(* The select of Stamp, which does not wait. *)
StampSees ==
    /\ \/ stamp = "back" /\ done # <<>> /\ done' = Tail(done)
       \/ stamp = "failed" /\ UNCHANGED done
    /\ stamp' = "seen"
    /\ UNCHANGED <<wg, verdicts, told, vars>>

StampDefault ==
    /\ stamp = "back"
    /\ done = <<>>
    /\ stamp' = "default"
    /\ UNCHANGED <<wg, done, verdicts, told, vars>>

----------------------------------------------------------------------------
(* The handler. *)

(* A response that is no point and a local address without an interface add a
   false each, and so does an Error that an earlier firing left. *)
Verdicts(r) ==
    {(IF r \in failed THEN <<FALSE>> ELSE <<>>) \o bad \o <<TRUE>> :
        bad \in {<<>>, <<FALSE>>, <<FALSE, FALSE>>}}

(* Mutant: the wait group is not released. *)
HandleStampHeld ==
    /\ verdicts = <<>>
    /\ \E m \in Monitors :
          /\ Handle(m)
          /\ IF Head(out[m]) \in ready
             THEN verdicts' \in Verdicts(Head(out[m]))
             ELSE UNCHANGED verdicts
    /\ UNCHANGED <<stamp, wg, done, told>>

(* Nothing is done about a result that is not ready. *)
HandleStamp ==
    /\ verdicts = <<>>
    /\ \E m \in Monitors :
          /\ Handle(m)
          /\ IF Head(out[m]) \in ready
             THEN wg' = wg - 1 /\ verdicts' \in Verdicts(Head(out[m]))
             ELSE UNCHANGED <<wg, verdicts>>
    /\ UNCHANGED <<stamp, done, told>>

(* Mutant: the channel has room for one. *)
SendVerdictToOne ==
    /\ verdicts # <<>>
    /\ Len(done) < 1
    /\ done' = Append(done, Head(verdicts))
    /\ told' = Append(told, Head(verdicts))
    /\ verdicts' = Tail(verdicts)
    /\ UNCHANGED <<stamp, wg, vars>>

(* done <- verdict *)
SendVerdict ==
    /\ verdicts # <<>>
    /\ Len(done) < 2
    /\ done' = Append(done, Head(verdicts))
    /\ told' = Append(told, Head(verdicts))
    /\ verdicts' = Tail(verdicts)
    /\ UNCHANGED <<stamp, wg, vars>>

----------------------------------------------------------------------------

ReadStamp ==
    \/ StampAdd \/ StampGo \/ StampMonitor \/ StampWake \/ StampTake \/ StampCancelled
    \/ StampSees \/ StampDefault

StampNext ==
    /\ ~Crashed
    /\ \/ /\ stamp = "none"
          /\ Caller \/ \E m \in Monitors : Handle(m)
          /\ UNCHANGED own
       \/ /\ Goroutine \/ (verdicts = <<>> /\ \E m \in Monitors : WorkerEnds(m))
          /\ UNCHANGED own
       \/ ReadStamp
       \/ stamp # "none" /\ HandleStamp
       \/ SendVerdict

StampVars == <<vars, own>>

StampSpec == StampInit /\ [][StampNext]_StampVars

(* What the goroutines of the client owe, and ReadStamp and its handler. *)
StampFairness ==
    /\ \A f \in Firings : SF_StampVars(~Crashed /\ Doing(f) /\ UNCHANGED own)
    /\ \A w \in Waiters : WF_StampVars(~Crashed /\ Waiting(w) /\ UNCHANGED own)
    /\ WF_StampVars(~Crashed /\ stamp # "none" /\ ReadStamp)
    /\ WF_StampVars(~Crashed /\ stamp # "none" /\ HandleStamp)
    /\ WF_StampVars(~Crashed /\ SendVerdict)
    /\ \A m \in Monitors :
          WF_StampVars(~Crashed /\ stamp = "none" /\ Handle(m) /\ UNCHANGED own)

FairStampSpec == StampSpec /\ StampFairness

----------------------------------------------------------------------------
(* Properties. *)

StampTypeOK ==
    /\ TypeOK
    /\ stamp \in {"none", "added", "fired", "waiting", "choosing", "back",
                  "failed", "seen", "default"}
    /\ wg \in 0..1
    /\ done \in Seq(BOOLEAN) /\ Len(done) <= 2
    /\ verdicts \in Seq(BOOLEAN)
    /\ told \in Seq(BOOLEAN)

(* core/stamp.go:27-68: the handler sends up to four verdicts into a channel
   for two, which ReadStamp reads once, unless the context is done, and Stamp
   once at most, without waiting.  It comes back from what it sends if that is
   no more than there is sure to be room for. *)
HandlerEnds ==
    verdicts # <<>> ~>
       \/ verdicts = <<>> \/ Crashed
       \/ Len(told) + Len(verdicts) > IF cancelled = {} THEN 3 ELSE 2

(* ReadStamp comes back once it waits, unless its request failed, the context
   was done or the second firing ended the process; and it gets past its wait
   group only by a response, so one that never has any waits for ever. *)
StampReturns ==
    /\ [](stamp \notin {"none", "added", "fired", "waiting"} => ready # {})
    /\ stamp = "waiting" ~>
          stamp \in {"back", "failed"} \/ failed # {} \/ cancelled # {} \/ Crashed
============================================================================
