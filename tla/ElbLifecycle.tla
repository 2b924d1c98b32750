---------------------------- MODULE ElbLifecycle ----------------------------
(***************************************************************************)
(* The elb process from its start to its exit (src/src/elb/app.go): the    *)
(* handlers of its load balancers leave a metric and then an access-log    *)
(* document behind, two flushers carry each kind to Elasticsearch, and on  *)
(* a signal App.Run shuts the servers down one after the other under one   *)
(* shared deadline, cancels the flushers and waits for them.               *)
(*                                                                         *)
(* What a request leaves behind is modelled by the request itself, so a    *)
(* buffer is a set of requests.  ElbMetrics.tla has the steps inside one   *)
(* metric snapshot, which is one step here.                                *)
(***************************************************************************)
EXTENDS Naturals

CONSTANTS
  L,         (* number of load balancers, shut down in the order 1 .. L      *)
  Requests,  (* the requests that arrive                                     *)
  LbOf       (* the load balancer each request arrives at                    *)

LBs   == 1 .. L
Kinds == {"metrics", "logs"}

ASSUME LifecycleAssumption == L \in Nat \ {0} /\ LbOf \in [Requests -> LBs]

VARIABLES
  handler,   (* where each request's handler stands                          *)
  buffered,  (* per kind and load balancer: lb.agg and lb.logBuf             *)
  flusher,   (* per kind: its stage, the next load balancer to drain, what   *)
             (* it holds, and whether this is its final flush                *)
  indexed,   (* per kind: what Elasticsearch has accepted                    *)
  lost,      (* per kind: what went down with a failed bulk request          *)
  open,      (* load balancers whose listener is open                        *)
  main,      (* where App.Run stands                                         *)
  stopping,  (* the load balancer being shut down                            *)
  expired    (* the 15 s of the shutdown context are over                    *)

flushVars == <<flusher, indexed, lost>>
appVars   == <<open, main, stopping, expired>>
vars == <<handler, buffered, flushVars, appVars>>

Stages == {"none", "accepted", "counted", "logged", "done"}
Asleep == [stage |-> "asleep", lb |-> 1, held |-> {}, final |-> FALSE]

Init ==
  /\ handler = [r \in Requests |-> "none"]
  /\ buffered = [k \in Kinds |-> [lb \in LBs |-> {}]]
  /\ flusher = [k \in Kinds |-> Asleep]
  /\ indexed = [k \in Kinds |-> {}] /\ lost = [k \in Kinds |-> {}]
  /\ open = LBs /\ main = "running" /\ stopping = 1 /\ expired = FALSE

-----------------------------------------------------------------------------
(* A handler counts its request, appends the access-log document and then  *)
(* answers, whether the answer is a backend's, a 502 or a 503.             *)

Alive == main # "exited"

Put(k, r) == buffered' = [buffered EXCEPT ![k][LbOf[r]] = @ \cup {r}]

Step(r, from, to) ==
  /\ Alive
  /\ handler[r] = from
  /\ handler' = [handler EXCEPT ![r] = to]

Accept(r) ==
  /\ Step(r, "none", "accepted")
  /\ LbOf[r] \in open
  /\ UNCHANGED <<buffered, flushVars, appVars>>

RecordRequest(r) ==
  /\ Step(r, "accepted", "counted")
  /\ Put("metrics", r)
  /\ UNCHANGED <<flushVars, appVars>>

AppendLog(r) ==
  /\ Step(r, "counted", "logged")
  /\ Put("logs", r)
  /\ UNCHANGED <<flushVars, appVars>>

Answer(r) ==
  /\ Step(r, "logged", "done")
  /\ UNCHANGED <<buffered, flushVars, appVars>>

-----------------------------------------------------------------------------
(* Faulty variants of actions below, for the mutation checks only.         *)

(* Drain returns the documents and leaves them in the buffer. *)
MutDrainKeeps(k) ==
  /\ Alive /\ flusher[k].stage = "drain"
  /\ LET lb == flusher[k].lb IN
       flusher' = [flusher EXCEPT ![k].held  = @ \cup buffered[k][lb],
                                  ![k].lb    = lb + 1,
                                  ![k].stage = IF lb = L THEN "bulk" ELSE "drain"]
  /\ UNCHANGED <<handler, buffered, indexed, lost, appVars>>

(* The flusher's goroutine returns when a bulk request fails. *)
MutBulkReturnsOnError(k) ==
  /\ Alive /\ flusher[k].stage = "bulk"
  /\ \E ok \in SUBSET flusher[k].held :
       /\ indexed' = [indexed EXCEPT ![k] = @ \cup ok]
       /\ lost' = [lost EXCEPT ![k] = @ \cup (flusher[k].held \ ok)]
       /\ flusher' = [flusher EXCEPT
            ![k] = IF @.final \/ ok # @.held
                   THEN [Asleep EXCEPT !.stage = "returned"] ELSE Asleep]
  /\ UNCHANGED <<handler, buffered, appVars>>

(* The loop over the servers runs past the last one. *)
MutDrainedPastLast ==
  /\ main = "draining"
  /\ expired \/ \A r \in Requests :
       LbOf[r] = stopping => handler[r] \in {"none", "done"}
  /\ main' = "closing" /\ stopping' = stopping + 1
  /\ UNCHANGED <<handler, buffered, flushVars, open, expired>>

(* The servers are shut down under a context without a deadline. *)
MutExpireNever == FALSE

(* flushWG counts one flusher only. *)
MutExitAfterOne ==
  /\ main = "waiting"
  /\ \E k \in Kinds : flusher[k].stage = "returned"
  /\ main' = "exited"
  /\ UNCHANGED <<handler, buffered, flushVars, open, stopping, expired>>

-----------------------------------------------------------------------------
(* RunMetricFlusher and RunLogFlusher.                                     *)

Cancelled == main \in {"waiting", "exited"}

(* The ticker fires; it may win the select against a cancelled context. *)
Tick(k) ==
  /\ Alive /\ flusher[k].stage = "asleep"
  /\ flusher' = [flusher EXCEPT ![k].stage = "drain"]
  /\ UNCHANGED <<handler, buffered, indexed, lost, appVars>>

FinalFlush(k) ==
  /\ Alive /\ flusher[k].stage = "asleep" /\ Cancelled
  /\ flusher' = [flusher EXCEPT ![k].stage = "drain", ![k].final = TRUE]
  /\ UNCHANGED <<handler, buffered, indexed, lost, appVars>>

Drain(k) ==
  /\ Alive /\ flusher[k].stage = "drain"
  /\ LET lb == flusher[k].lb IN
       /\ flusher' = [flusher EXCEPT ![k].held  = @ \cup buffered[k][lb],
                                     ![k].lb    = lb + 1,
                                     ![k].stage = IF lb = L THEN "bulk" ELSE "drain"]
       /\ buffered' = [buffered EXCEPT ![k][lb] = {}]
  /\ UNCHANGED <<handler, indexed, lost, appVars>>

(* Bulk returns: the documents are indexed, or some of them are, the error *)
(* is logged and the rest is forgotten.  After the final flush the         *)
(* goroutine returns.                                                      *)
Bulk(k) ==
  /\ Alive /\ flusher[k].stage = "bulk"
  /\ \E ok \in SUBSET flusher[k].held :
       /\ indexed' = [indexed EXCEPT ![k] = @ \cup ok]
       /\ lost' = [lost EXCEPT ![k] = @ \cup (flusher[k].held \ ok)]
  /\ flusher' = [flusher EXCEPT
       ![k] = IF @.final THEN [Asleep EXCEPT !.stage = "returned"] ELSE Asleep]
  /\ UNCHANGED <<handler, buffered, appVars>>

-----------------------------------------------------------------------------
(* App.Run after <-ctx.Done().                                             *)

Signal ==
  /\ main = "running"
  /\ main' = "closing"
  /\ UNCHANGED <<handler, buffered, flushVars, open, stopping, expired>>

(* lb.Shutdown closes the listener first ... *)
CloseListener ==
  /\ main = "closing"
  /\ open' = open \ {stopping}
  /\ main' = "draining"
  /\ UNCHANGED <<handler, buffered, flushVars, stopping, expired>>

(* ... and returns when no request is in flight, or with the deadline's    *)
(* error, which is only logged.  The next server comes after it.           *)
InFlight(lb) ==
  {r \in Requests : LbOf[r] = lb /\ handler[r] \in {"accepted", "counted", "logged"}}

Drained ==
  /\ main = "draining"
  /\ InFlight(stopping) = {} \/ expired
  /\ IF stopping = L
     THEN main' = "cancelling" /\ UNCHANGED stopping
     ELSE main' = "closing" /\ stopping' = stopping + 1
  /\ UNCHANGED <<handler, buffered, flushVars, open, expired>>

Expire ==
  /\ main \in {"closing", "draining"} /\ ~expired
  /\ expired' = TRUE
  /\ UNCHANGED <<handler, buffered, flushVars, open, main, stopping>>

FlushCancel ==
  /\ main = "cancelling"
  /\ main' = "waiting"
  /\ UNCHANGED <<handler, buffered, flushVars, open, stopping, expired>>

(* flushWG.Wait() returns, and so does Run: the process ends. *)
Exit ==
  /\ main = "waiting"
  /\ \A k \in Kinds : flusher[k].stage = "returned"
  /\ main' = "exited"
  /\ UNCHANGED <<handler, buffered, flushVars, open, stopping, expired>>

-----------------------------------------------------------------------------
Handler(r) == RecordRequest(r) \/ AppendLog(r) \/ Answer(r)
Flush(k)   == Tick(k) \/ FinalFlush(k) \/ Drain(k) \/ Bulk(k)
Run        == CloseListener \/ Drained \/ Expire \/ FlushCancel \/ Exit

Next ==
  \/ \E r \in Requests : Accept(r) \/ Handler(r)
  \/ \E k \in Kinds : Flush(k)
  \/ Signal \/ Run

Spec == Init /\ [][Next]_vars

(* App.Run and the flushers' goroutines run, the shutdown's timer fires, a *)
(* bulk request ends (its client has a timeout), and a cancelled flusher's *)
(* select does not prefer the ticker for ever.  No request has to end.     *)
Fairness ==
  /\ WF_vars(Run)
  /\ \A k \in Kinds : WF_vars(Flush(k)) /\ SF_vars(FinalFlush(k))

FairSpec == Spec /\ Fairness

-----------------------------------------------------------------------------
(* Every variable keeps the range the code gives it. *)
TypeOK ==
  /\ handler \in [Requests -> Stages]
  /\ buffered \in [Kinds -> [LBs -> SUBSET Requests]]
  /\ flusher \in
       [Kinds -> [stage : {"asleep", "drain", "bulk", "returned"}, lb : 1 .. L + 1,
                  held : SUBSET Requests, final : BOOLEAN]]
  /\ indexed \in [Kinds -> SUBSET Requests]
  /\ lost \in [Kinds -> SUBSET Requests]
  /\ open \subseteq LBs
  /\ main \in {"running", "closing", "draining", "cancelling", "waiting", "exited"}
  /\ stopping \in LBs
  /\ expired \in BOOLEAN

(* What a handler has left behind so far. *)
Left(k) ==
  {r \in Requests :
     handler[r] \in (IF k = "metrics" THEN {"counted"} ELSE {}) \cup {"logged", "done"}}

InBuffers(k) == UNION {buffered[k][lb] : lb \in LBs}

(* logbuffer.go:18-31, flusher.go:31-46: handlers append while the flusher *)
(* drains server after server, and every document is in one place: a       *)
(* buffer, the flusher's hands, Elasticsearch, or a failed bulk request.   *)
(* None is dropped between two of them and none is sent twice.             *)
EachInOnePlace ==
  \A k \in Kinds :
    /\ Left(k) = InBuffers(k) \cup flusher[k].held \cup indexed[k] \cup lost[k]
    /\ InBuffers(k) \cap flusher[k].held = {}
    /\ (InBuffers(k) \cup flusher[k].held) \cap (indexed[k] \cup lost[k]) = {}
    /\ indexed[k] \cap lost[k] = {}

(* app.go:84-99: if the servers drained within the deadline, the order of  *)
(* Run's steps leaves nothing behind: when the process ends, each accepted *)
(* request has been answered, and both its metric and its access-log       *)
(* document have been through a bulk request.                              *)
DrainedMeansFlushed ==
  main = "exited" /\ ~expired =>
    \A r \in Requests :
      handler[r] # "none" =>
        handler[r] = "done" /\ \A k \in Kinds : r \in indexed[k] \cup lost[k]

(* app.go:85-99: whatever the requests in flight do, a signalled elb ends. *)
SignalledEnds == main = "closing" ~> main = "exited"

(* flusher.go:16-29: what was logged is flushed, or the process ends. *)
LoggedIsFlushed ==
  \A r \in Requests :
    handler[r] = "logged" ~> r \in indexed["logs"] \cup lost["logs"] \/ main = "exited"
=============================================================================
