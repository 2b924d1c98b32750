----------------------------- MODULE ElbMetrics -----------------------------
(***************************************************************************)
(* The metric accumulator of one load balancer (src/src/elb/metrics.go):   *)
(* request handlers add to several atomic counters and to one section      *)
(* under a mutex, in this order and without a common lock, while the       *)
(* metric flusher reads and zeroes them one after the other.               *)
(*                                                                         *)
(* A handler adds to a counter at most once, so a counter is modelled by   *)
(* the set of the requests it has counted; its value is that set's size.   *)
(* "target" stands for everything under the mutex: perBackend and the      *)
(* response-time sum, count and maximum.                                   *)
(***************************************************************************)
EXTENDS Naturals, Sequences

CONSTANT Arrivals  (* the requests that arrive *)

(* What becomes of a request: no healthy backend, a failed connection, or  *)
(* a backend answer by its class.                                          *)
Outcomes == {"noBackend", "proxyError", "1xx", "2xx", "3xx", "4xx", "5xx"}
Unknown  == "unknown"

(* The switch of RecordRequest: the outcomes each class counter counts.    *)
(* Its callers pass isProxyError only with 503 and 502, so elb3xx and      *)
(* elb4xx stay at zero.                                                    *)
Switch ==
  [elb3xx |-> {}, elb4xx |-> {}, elb5xx |-> {"proxyError", "5xx"},
   elb503 |-> {"noBackend"}, tgt2xx |-> {"2xx"}, tgt3xx |-> {"3xx"},
   tgt4xx |-> {"4xx"}]
Classes == DOMAIN Switch

(* targetSec >= 0 && backendURL != "": a backend answered. *)
HasTarget(o) == o \in {"1xx", "2xx", "3xx", "4xx", "5xx"}

(* The order in which Snapshot swaps the atomic counters. *)
SwapOrder ==
  <<"requestCount", "processedBytes", "elb3xx", "elb4xx", "elb5xx", "elb503",
    "tgt2xx", "tgt3xx", "tgt4xx">>
Counters == {"target", "requestCount", "processedBytes"} \cup Classes

VARIABLES
  pc,        (* where each request's handler stands                         *)
  outcome,   (* what became of it                                           *)
  acc,       (* the accumulator: what each counter has counted              *)
  at,        (* the flusher: 0 idle, i before the swap of SwapOrder[i]      *)
  snap,      (* the WindowSnapshot being filled                             *)
  flushed,   (* what Elasticsearch has been told, over all windows          *)
  lost       (* what went down with failed bulk requests                    *)

handlerVars == <<pc, outcome>>
flusherVars == <<at, snap, flushed, lost>>
metricsVars == <<handlerVars, acc, flusherVars>>

Stages == {"idle", "count", "bytes", "class", "target", "done"}
Empty  == [k \in Counters |-> {}]

MetricsInit ==
  /\ pc = [r \in Arrivals |-> "idle"]
  /\ outcome = [r \in Arrivals |-> Unknown]
  /\ acc = Empty
  /\ at = 0
  /\ snap = Empty /\ flushed = Empty /\ lost = Empty

-----------------------------------------------------------------------------
(* RecordRequest, one shared access at a time. *)

Add(r, k) == acc' = [acc EXCEPT ![k] = @ \cup {r}]
Go(r, from, to) == pc[r] = from /\ pc' = [pc EXCEPT ![r] = to]

Call(r) ==
  /\ Go(r, "idle", "count")
  /\ \E o \in Outcomes : outcome' = [outcome EXCEPT ![r] = o]
  /\ UNCHANGED <<acc, flusherVars>>

AddRequest(r) ==
  /\ Go(r, "count", "bytes")
  /\ Add(r, "requestCount")
  /\ UNCHANGED <<outcome, flusherVars>>

AddBytes(r) ==
  /\ Go(r, "bytes", "class")
  /\ Add(r, "processedBytes")
  /\ UNCHANGED <<outcome, flusherVars>>

AddClass(r) ==
  /\ Go(r, "class", IF HasTarget(outcome[r]) THEN "target" ELSE "done")
  /\ acc' = [k \in Counters |->
                IF k \in Classes /\ outcome[r] \in Switch[k]
                THEN acc[k] \cup {r} ELSE acc[k]]
  /\ UNCHANGED <<outcome, flusherVars>>

AddTarget(r) ==
  /\ Go(r, "target", "done")
  /\ Add(r, "target")
  /\ UNCHANGED <<outcome, flusherVars>>

Handler(r) ==
  \/ Call(r) \/ AddRequest(r) \/ AddBytes(r) \/ AddClass(r) \/ AddTarget(r)

-----------------------------------------------------------------------------
(* Snapshot, one shared access at a time, and the bulk request. *)

(* Faulty variants of definitions below, for the mutation checks only.     *)

(* Load instead of Swap(0). *)
MutTakeWithoutReset(k) ==
  /\ snap' = [snap EXCEPT ![k] = acc[k]]
  /\ UNCHANGED acc

(* The section under the mutex is read after the atomics. *)
MutTakeTargetLast ==
  /\ \/ /\ at = 0 /\ at' = 1
        /\ UNCHANGED <<acc, snap>>
     \/ /\ at = Len(SwapOrder) + 1 /\ at' = at
        /\ snap' = [snap EXCEPT !["target"] = @ \cup acc["target"]]
        /\ acc' = [acc EXCEPT !["target"] = {}]
  /\ UNCHANGED <<handlerVars, flushed, lost>>

(* A delivered window does not start the next one. *)
MutDeliverRunsOn ==
  /\ at = Len(SwapOrder) + 1
  /\ flushed' = [k \in Counters |-> flushed[k] \cup snap[k]]
  /\ snap' = Empty
  /\ at' = at + 1
  /\ UNCHANGED <<handlerVars, acc, lost>>

(* One read of the snapshot. *)
Take(k) ==
  /\ snap' = [snap EXCEPT ![k] = acc[k]]
  /\ acc' = [acc EXCEPT ![k] = {}]

TakeTarget ==
  /\ at = 0
  /\ Take("target")
  /\ at' = 1
  /\ UNCHANGED <<handlerVars, flushed, lost>>

Swap ==
  /\ at \in 1 .. Len(SwapOrder)
  /\ Take(SwapOrder[at])
  /\ at' = at + 1
  /\ UNCHANGED <<handlerVars, flushed, lost>>

AllWith(total) == [k \in Counters |-> total[k] \cup snap[k]]

(* Bulk succeeds, or flushMetrics logs its error and forgets the window. *)
Deliver ==
  /\ at = Len(SwapOrder) + 1
  /\ flushed' = AllWith(flushed)
  /\ snap' = Empty
  /\ at' = 0
  /\ UNCHANGED <<handlerVars, acc, lost>>

Lose ==
  /\ at = Len(SwapOrder) + 1
  /\ lost' = AllWith(lost)
  /\ snap' = Empty
  /\ at' = 0
  /\ UNCHANGED <<handlerVars, acc, flushed>>

Flusher == TakeTarget \/ Swap \/ Deliver \/ Lose

MetricsNext == (\E r \in Arrivals : Handler(r)) \/ Flusher

MetricsSpec == MetricsInit /\ [][MetricsNext]_metricsVars

-----------------------------------------------------------------------------
(* Every variable keeps the range the code gives it. *)
MetricsTypeOK ==
  /\ pc \in [Arrivals -> Stages]
  /\ outcome \in [Arrivals -> Outcomes \cup {Unknown}]
  /\ acc \in [Counters -> SUBSET Arrivals]
  /\ at \in 0 .. Len(SwapOrder) + 1
  /\ snap \in [Counters -> SUBSET Arrivals]
  /\ flushed \in [Counters -> SUBSET Arrivals]
  /\ lost \in [Counters -> SUBSET Arrivals]

(* What a handler has added to so far. *)
Counted(r, k) ==
  \/ k = "requestCount"   /\ pc[r] \in {"bytes", "class", "target", "done"}
  \/ k = "processedBytes" /\ pc[r] \in {"class", "target", "done"}
  \/ k \in Classes        /\ pc[r] \in {"target", "done"} /\ outcome[r] \in Switch[k]
  \/ k = "target"         /\ pc[r] = "done" /\ HasTarget(outcome[r])

Taken(k) == snap[k] \cup flushed[k] \cup lost[k]

(* metrics.go:76-145: whatever way handlers and flusher interleave, each   *)
(* counter has counted exactly the requests that reached it, each once,    *)
(* and reports each in one window only.                                    *)
EachCountedOnce ==
  \A k \in Counters :
    /\ acc[k] \cup Taken(k) = {r \in Arrivals : Counted(r, k)}
    /\ acc[k] \cap Taken(k) = {}
    /\ snap[k] \cap (flushed[k] \cup lost[k]) = {}
    /\ flushed[k] \cap lost[k] = {}

(* metrics.go:77,101-110 against 117-129: RecordRequest counts a request   *)
(* before its target and Snapshot takes the targets before the requests,   *)
(* so the per-target counts handed out up to any window never exceed the   *)
(* request counts handed out: RequestCountPerTarget <= RequestCount.       *)
TargetsNeverAhead == at # 1 => Taken("target") \subseteq Taken("requestCount")
=============================================================================
