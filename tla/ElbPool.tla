------------------------------- MODULE ElbPool -------------------------------
(***************************************************************************)
(* The backend pool of one load balancer (src/src/elb/backend.go), its     *)
(* health checker (health.go), the request handlers that pick a backend    *)
(* from it and the metric flusher that counts its healthy members.  The    *)
(* flags are separate atomics: every loop over the pool reads them one by  *)
(* one while the checker stores them one by one.                           *)
(***************************************************************************)
EXTENDS Naturals, Sequences, FiniteSets

CONSTANTS
  N,           (* number of configured backends                             *)
  Requests,    (* requests that pick a backend                              *)
  MaxChanges   (* bound: backends going up or down, probes timing out       *)

ASSUME PoolAssumption == N \in Nat \ {0} /\ MaxChanges \in Nat /\ IsFiniteSet(Requests)

Backends == 1 .. N

VARIABLES
  up,         (* backends that would answer a probe below 500               *)
  healthy,    (* the flags                                                  *)
  counter,    (* the round-robin counter                                    *)
  checker,    (* the backend being probed; 0 asleep, N + 1 returned         *)
  verdict,    (* the probe's result, before it is stored                    *)
  cancelled,  (* hcCancel() was called                                      *)
  pick,       (* each request's call of Next                                *)
  count,      (* the flusher's calls of HealthyCount and UnhealthyCount     *)
  changes,    (* changes of the environment so far                          *)
  everUp,     (* history: backends healthy at some time during r's Next     *)
  everDown,   (* history: backends not healthy at some time during r's Next *)
  steady      (* history: no flag has ever been cleared                     *)

poolVars    == <<up, healthy>>
checkerVars == <<checker, verdict, cancelled>>
history     == <<everUp, everDown, steady>>
vars == <<poolVars, counter, checkerVars, pick, count, changes, history>>

Verdicts == {"none", "ok", "bad"}
Change   == changes < MaxChanges /\ changes' = changes + 1

(* A call of Next: how far Healthy() has read, what it has collected. *)
NotYet == [at |-> "idle", read |-> 0, seen |-> <<>>, backend |-> 0]

Init ==
  /\ up \in SUBSET Backends
  /\ healthy = Backends
  /\ counter = 0
  /\ checker = 1 /\ verdict = "none" /\ cancelled = FALSE
  /\ pick = [r \in Requests |-> NotYet]
  /\ count = [at |-> "idle", read |-> 0, up |-> 0, down |-> 0]
  /\ changes = 0
  /\ everUp = [r \in Requests |-> {}]
  /\ everDown = [r \in Requests |-> {}]
  /\ steady = TRUE

-----------------------------------------------------------------------------
(* The checker: probe one backend after the other, sleep, start over.      *)

(* The answer arrives, or the timeout does; under a cancelled context Do   *)
(* returns an error for every backend that is left.                        *)
Probe ==
  /\ checker \in Backends /\ verdict = "none"
  /\ \/ /\ ~cancelled
        /\ verdict' = IF checker \in up THEN "ok" ELSE "bad"
        /\ UNCHANGED changes
     \/ /\ ~cancelled /\ checker \in up
        /\ Change
        /\ verdict' = "bad"
     \/ /\ cancelled
        /\ verdict' = "bad"
        /\ UNCHANGED changes
  /\ UNCHANGED <<poolVars, counter, checker, cancelled, pick, count, history>>

(* The history of a Next under way sees every change of a flag. *)
Selecting(r) == pick[r].at = "scan"
Watch ==
  /\ everUp' = [r \in Requests |->
                  IF Selecting(r) THEN everUp[r] \cup healthy' ELSE everUp[r]]
  /\ everDown' = [r \in Requests |->
                    IF Selecting(r) THEN everDown[r] \cup (Backends \ healthy')
                    ELSE everDown[r]]
  /\ steady' = (steady /\ healthy' = Backends)

(* Faulty variants, for the mutation checks only: a backend that has        *)
(* recovered is never put back, ...                                         *)
MutStoreNeverSets ==
  /\ verdict # "none"
  /\ healthy' = IF verdict = "ok" THEN healthy ELSE healthy \ {checker}
  /\ verdict' = "none"
  /\ checker' = IF checker = N THEN 0 ELSE checker + 1
  /\ Watch
  /\ UNCHANGED <<up, counter, cancelled, pick, count, changes>>

(* ... Healthy() does not look at the flags, ... *)
MutLoadUnchecked(r) ==
  /\ Selecting(r) /\ pick[r].read < N
  /\ pick' = [pick EXCEPT ![r].read = @ + 1, ![r].seen = Append(@, pick[r].read + 1)]
  /\ UNCHANGED <<poolVars, counter, checkerVars, count, changes, history>>

(* ... Next gives up when the first backend is down, ...                    *)
MutRefuseEarly(r) ==
  /\ Selecting(r) /\ pick[r].read > 0 /\ pick[r].seen = <<>>
  /\ pick' = [pick EXCEPT ![r].at = "refused"]
  /\ UNCHANGED <<poolVars, counter, checkerVars, count, changes, history>>

(* ... the counter is read but not bumped, ... *)
MutChooseWithoutAdd(r) ==
  /\ Selecting(r) /\ pick[r].read = N /\ pick[r].seen # <<>>
  /\ pick' = [pick EXCEPT ![r].at = "picked",
                          ![r].backend = pick[r].seen[(counter % Len(pick[r].seen)) + 1]]
  /\ UNCHANGED <<poolVars, counter, checkerVars, count, changes, history>>

(* ... UnhealthyCount forgets the size of the pool. *)
MutCountBeginAtZero ==
  /\ count.at = "idle"
  /\ count' = [at |-> "up", read |-> 0, up |-> 0, down |-> 0]
  /\ UNCHANGED <<poolVars, counter, checkerVars, pick, changes, history>>

(* healthy.Store; after the last backend the checker goes to sleep. *)
Store ==
  /\ verdict # "none"
  /\ healthy' = IF verdict = "ok" THEN healthy \cup {checker} ELSE healthy \ {checker}
  /\ verdict' = "none"
  /\ checker' = IF checker = N THEN 0 ELSE checker + 1
  /\ Watch
  /\ UNCHANGED <<up, counter, cancelled, pick, count, changes>>

(* select: the ticker, or the cancelled context; both may be ready. *)
Tick ==
  /\ checker = 0
  /\ checker' = 1
  /\ UNCHANGED <<poolVars, counter, verdict, cancelled, pick, count, changes, history>>

Return ==
  /\ checker = 0 /\ cancelled
  /\ checker' = N + 1
  /\ UNCHANGED <<poolVars, counter, verdict, cancelled, pick, count, changes, history>>

Cancel ==
  /\ ~cancelled
  /\ cancelled' = TRUE
  /\ UNCHANGED <<poolVars, counter, checker, verdict, pick, count, changes, history>>

(* A backend dies or comes back. *)
Flip ==
  /\ Change
  /\ \E b \in Backends : up' = IF b \in up THEN up \ {b} ELSE up \cup {b}
  /\ UNCHANGED <<healthy, counter, checkerVars, pick, count, history>>

-----------------------------------------------------------------------------
(* Next: Healthy() loads the flags in order, then the counter is bumped.   *)

Enter(r) ==
  /\ pick[r].at = "idle"
  /\ pick' = [pick EXCEPT ![r].at = "scan"]
  /\ everUp' = [everUp EXCEPT ![r] = healthy]
  /\ everDown' = [everDown EXCEPT ![r] = Backends \ healthy]
  /\ UNCHANGED <<poolVars, counter, checkerVars, count, changes, steady>>

Load(r) ==
  /\ Selecting(r) /\ pick[r].read < N
  /\ LET b == pick[r].read + 1 IN
       pick' = [pick EXCEPT ![r].read = b,
                            ![r].seen = IF b \in healthy THEN Append(@, b) ELSE @]
  /\ UNCHANGED <<poolVars, counter, checkerVars, count, changes, history>>

Refuse(r) ==
  /\ Selecting(r) /\ pick[r].read = N /\ pick[r].seen = <<>>
  /\ pick' = [pick EXCEPT ![r].at = "refused"]
  /\ UNCHANGED <<poolVars, counter, checkerVars, count, changes, history>>

Choose(r) ==
  /\ Selecting(r) /\ pick[r].read = N /\ pick[r].seen # <<>>
  /\ counter' = counter + 1
  /\ pick' = [pick EXCEPT ![r].at = "picked",
                          ![r].backend = pick[r].seen[(counter % Len(pick[r].seen)) + 1]]
  /\ UNCHANGED <<poolVars, checkerVars, count, changes, history>>

-----------------------------------------------------------------------------
(* The end of Snapshot: HealthyCount, then UnhealthyCount, which counts    *)
(* the healthy ones again.                                                 *)
CountBegin ==
  /\ count.at = "idle"
  /\ count' = [at |-> "up", read |-> 0, up |-> 0, down |-> N]
  /\ UNCHANGED <<poolVars, counter, checkerVars, pick, changes, history>>

CountLoad ==
  /\ count.at \in {"up", "down"}
  /\ LET b   == count.read + 1
         one == IF b \in healthy THEN 1 ELSE 0
     IN  count' = [at   |-> IF b < N THEN count.at
                            ELSE IF count.at = "up" THEN "down" ELSE "done",
                   read |-> IF b < N THEN b ELSE 0,
                   up   |-> IF count.at = "up" THEN count.up + one ELSE count.up,
                   down |-> IF count.at = "down" THEN count.down - one ELSE count.down]
  /\ UNCHANGED <<poolVars, counter, checkerVars, pick, changes, history>>

CountReport ==
  /\ count.at = "done"
  /\ count' = [count EXCEPT !.at = "idle", !.up = 0, !.down = 0]
  /\ UNCHANGED <<poolVars, counter, checkerVars, pick, changes, history>>

-----------------------------------------------------------------------------
Checker == Probe \/ Store \/ Tick \/ Return

Next ==
  \/ Checker \/ Cancel \/ Flip
  \/ \E r \in Requests : Enter(r) \/ Load(r) \/ Refuse(r) \/ Choose(r)
  \/ CountBegin \/ CountLoad \/ CountReport

Spec == Init /\ [][Next]_vars

(* The checker's goroutine runs and every probe ends: it has a timeout. *)
FairSpec == Spec /\ WF_vars(Checker)

-----------------------------------------------------------------------------
(* Every variable keeps the range the code gives it. *)
TypeOK ==
  /\ up \subseteq Backends /\ healthy \subseteq Backends
  /\ counter \in 0 .. Cardinality(Requests)
  /\ checker \in 0 .. N + 1
  /\ verdict \in Verdicts
  /\ cancelled \in BOOLEAN
  /\ \A r \in Requests :
       /\ pick[r].at \in {"idle", "scan", "picked", "refused"}
       /\ pick[r].read \in 0 .. N
       /\ pick[r].seen \in Seq(Backends)
       /\ pick[r].backend \in 0 .. N
  /\ count.up \in 0 .. N /\ count.down \in 0 .. N
  /\ changes \in 0 .. MaxChanges

(* backend.go:38-45: whatever the checker does meanwhile, a request is     *)
(* sent to a backend whose flag was set at some time during its own Next:  *)
(* the pick is stale by no more than that call.                            *)
PickedWasHealthy ==
  \A r \in Requests : pick[r].at = "picked" => pick[r].backend \in everUp[r]

(* backend.go:37-41: a request is refused only if each backend's flag was  *)
(* clear at some time during its own Next.  They need not have been clear  *)
(* together: Healthy() reads them one by one.                              *)
RefusedSawEachDown ==
  \A r \in Requests : pick[r].at = "refused" => everDown[r] = Backends

Picks(b) == Cardinality({r \in Requests : pick[r].backend = b})

(* backend.go:43-44: concurrent handlers share the counter, so while no    *)
(* flag changes the backends' shares differ by at most one request.        *)
RoundRobinIsEven ==
  steady => \A b, c \in Backends : Picks(b) <= Picks(c) + 1

(* health.go:36-92: a backend that stays up is put back into rotation, and *)
(* one that stays down is taken out, as long as the checker runs.          *)
FlagsConverge ==
  \A b \in Backends :
    /\ <>[](b \in up /\ ~cancelled) => <>[](b \in healthy)
    /\ <>[](b \notin up /\ ~cancelled) => <>[](b \notin healthy)
=============================================================================
