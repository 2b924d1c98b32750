------------------------------ MODULE ElbProofs ------------------------------
(***************************************************************************)
(* What the two models of one load balancer say, proved for any constants: *)
(* ElbPool.tla of the backend a request is sent to, for any number of      *)
(* backends, any finite set of requests and any changes of the backends;   *)
(* then ElbMetrics.tla of its accumulator, for every set of requests.      *)
(***************************************************************************)
EXTENDS ElbPool, ElbMetrics, FiniteSetTheorems, TLAPS

(* Where a call of Next may stand. *)
PickStates ==
  [at : {"idle", "scan", "picked", "refused"}, read : 0 .. N, seen : Seq(Backends),
   backend : 0 .. N]
(* Where the flusher's count may stand. *)
CountStates ==
  [at : {"idle", "up", "down", "done"}, read : 0 .. N - 1, up : 0 .. N, down : 0 .. N]

(* The requests that have picked, and those sent to backend b. *)
Picked    == {r \in Requests : pick[r].at = "picked"}
SentTo(b) == {r \in Requests : pick[r].backend = b}

(* Every variable's range, but for the counter's bound. *)
Typed ==
  /\ up \subseteq Backends /\ healthy \subseteq Backends
  /\ checker \in 0 .. N + 1 /\ verdict \in Verdicts /\ cancelled \in BOOLEAN
  /\ pick \in [Requests -> PickStates] /\ count \in CountStates
  /\ changes \in 0 .. MaxChanges
  /\ everUp \in [Requests -> SUBSET Backends]
  /\ everDown \in [Requests -> SUBSET Backends]
  /\ steady \in BOOLEAN

(* A verdict is about the backend being probed. *)
CheckerIsGood == verdict # "none" => checker \in Backends

(* The count never leaves 0 .. N, since each flag is counted once. *)
CountIsGood ==
  /\ count.at = "up" => count.up <= count.read /\ count.down = N
  /\ count.at = "down" => count.down >= N - count.read

(* What a call of Next may rely on at each of its stages: while it scans,  *)
(* its history covers the flags as they are; what it has seen was healthy, *)
(* and as long as it has seen nothing, what it has read was down.          *)
Good(p, h, ups, downs) ==
  /\ p.at = "idle" => p.read = 0 /\ p.seen = <<>>
  /\ p.at = "scan" =>
       /\ h \subseteq ups /\ (Backends \ h) \subseteq downs
       /\ \A i \in 1 .. Len(p.seen) : p.seen[i] \in ups
       /\ p.seen = <<>> => 1 .. p.read \subseteq downs
  /\ IF p.at = "picked" THEN p.backend \in ups ELSE p.backend = 0
  /\ p.at = "refused" => downs = Backends

PicksAreGood == \A r \in Requests : Good(pick[r], healthy, everUp[r], everDown[r])

(* While no flag changes, a scan collects the backends in order.           *)
InOrder(p) == Len(p.seen) = p.read /\ \A i \in 1 .. p.read : p.seen[i] = i

(* So a steady pool's scans have seen what they have read. *)
SteadyIsGood ==
  steady => /\ healthy = Backends
            /\ \A r \in Requests : pick[r].at = "scan" => InOrder(pick[r])

(* The counter counts the picks, ... *)
CounterIsPicks == counter = Cardinality(Picked)

(* ... and its remainder tells how far the current round has come.         *)
RoundIs(q) ==
  \A b \in Backends : Cardinality(SentTo(b)) = q + (IF b <= (counter % N) THEN 1 ELSE 0)

(* In a steady pool the rounds are complete but for the last. *)
RoundsAreEven == steady => \E q \in Nat : RoundIs(q)

(* The inductive invariant. *)
IInv == /\ Typed /\ CheckerIsGood /\ CountIsGood /\ PicksAreGood /\ SteadyIsGood
        /\ CounterIsPicks /\ RoundsAreEven

-----------------------------------------------------------------------------
(* The division the counter's remainder comes from. *)
LEMMA Division ==
  ASSUME NEW c \in Nat
  PROVE  c \div N \in Nat /\ c % N \in 0 .. N - 1 /\ c = N * (c \div N) + (c % N)
  BY PoolAssumption, Z3

(* Quotient and remainder are unique. *)
LEMMA RemainderIs ==
  ASSUME NEW c \in Nat, NEW q \in Nat, NEW m \in Nat, c = q * N + m, m < N
  PROVE  c % N = m
  BY PoolAssumption, Z3

(* The remainder of a counter that is bumped goes round. *)
LEMMA RemainderNext ==
  ASSUME NEW c \in Nat
  PROVE  (c + 1) % N = IF (c % N) < N - 1 THEN (c % N) + 1 ELSE 0
<1> DEFINE q == c \div N
           m == c % N
<1>1. q \in Nat /\ m \in 0 .. N - 1 /\ c = q * N + m
  BY Division, PoolAssumption
<1> HIDE DEF q, m
<1>2. CASE m < N - 1
  <2>1. c + 1 = q * N + (m + 1) /\ m + 1 < N /\ m + 1 \in Nat
    BY <1>1, <1>2, PoolAssumption
  <2>2. (c + 1) % N = m + 1
    BY <1>1, <2>1, RemainderIs
  <2> QED BY <2>2, <1>2 DEF m
<1>3. CASE ~(m < N - 1)
  <2>1. c + 1 = (q + 1) * N + 0 /\ 0 < N /\ q + 1 \in Nat
    BY <1>1, <1>3, PoolAssumption
  <2>2. (c + 1) % N = 0
    BY <1>1, <2>1, RemainderIs
  <2> QED BY <2>2, <1>3 DEF m
<1> QED BY <1>2, <1>3

(* One call of Next changes. *)
LEMMA OnePickChanges ==
  ASSUME Typed, NEW r \in Requests, NEW p \in PickStates, pick' = [pick EXCEPT ![r] = p]
  PROVE  /\ pick' \in [Requests -> PickStates] /\ pick'[r] = p
         /\ \A q \in Requests : q # r => pick'[q] = pick[q]
  BY DEF Typed

(* Sets of requests are finite. *)
LEMMA PicksFinite ==
  /\ IsFiniteSet(Picked) /\ Cardinality(Picked) \in Nat
  /\ \A b \in Backends : IsFiniteSet(SentTo(b)) /\ Cardinality(SentTo(b)) \in Nat
<1>1. IsFiniteSet(Picked) /\ \A b \in Backends : IsFiniteSet(SentTo(b))
  BY FS_Subset, PoolAssumption DEF Picked, SentTo
<1> QED BY <1>1, FS_CardinalityType

(* So the counter is a number. *)
LEMMA CounterTyped == CounterIsPicks => counter \in Nat
  BY PicksFinite DEF CounterIsPicks

-----------------------------------------------------------------------------
(* The flags are set and nobody has picked. *)
LEMMA InitInv == Init => IInv
<1> SUFFICES ASSUME Init PROVE IInv
  OBVIOUS
<1>1. N \in Nat /\ N > 0 /\ MaxChanges \in Nat
  BY PoolAssumption
<1>2. NotYet \in PickStates /\ NotYet.at = "idle" /\ NotYet.read = 0
      /\ NotYet.seen = <<>> /\ NotYet.backend = 0
  BY <1>1 DEF NotYet, PickStates
<1>3. Typed
  <2>1. count \in CountStates
    BY <1>1 DEF Init, CountStates
  <2>2. pick \in [Requests -> PickStates]
    BY <1>2 DEF Init
  <2>3. 1 \in 0 .. N + 1
    BY <1>1
  <2>4. /\ everUp \in [Requests -> SUBSET Backends]
        /\ everDown \in [Requests -> SUBSET Backends]
    BY DEF Init
  <2>5. /\ up \subseteq Backends /\ healthy \subseteq Backends /\ checker \in 0 .. N + 1
        /\ verdict \in Verdicts /\ changes \in 0 .. MaxChanges
    BY <1>1, <2>3 DEF Init, Verdicts
  <2>6. cancelled \in BOOLEAN /\ steady \in BOOLEAN
    BY Zenon DEF Init
  <2> QED BY <2>1, <2>2, <2>4, <2>5, <2>6 DEF Typed
<1>4. CheckerIsGood /\ CountIsGood /\ PicksAreGood /\ SteadyIsGood
  BY <1>2 DEF Init, CheckerIsGood, CountIsGood, PicksAreGood, Good, SteadyIsGood
<1>5. Picked = {} /\ \A b \in Backends : SentTo(b) = {}
  BY <1>2 DEF Init, Picked, SentTo, Backends
<1>6. Cardinality({}) = 0
  BY FS_EmptySet
<1>7. counter % N = 0
  BY <1>1, RemainderIs DEF Init
<1>8. RoundIs(0)
  BY <1>5, <1>6, <1>7 DEF RoundIs, Backends
<1> QED
  BY <1>3, <1>4, <1>5, <1>6, <1>8 DEF IInv, CounterIsPicks, RoundsAreEven, Init

-----------------------------------------------------------------------------
(* The flusher's count stays within the pool's size.                       *)
LEMMA CountStep ==
  ASSUME IInv, CountBegin \/ CountLoad \/ CountReport
  PROVE  count' \in CountStates /\ CountIsGood'
<1>1. N \in Nat /\ N > 0
  BY PoolAssumption
<1>2. count \in CountStates /\ CountIsGood
  BY DEF IInv, Typed
<1>3. CASE CountBegin
  BY <1>1, <1>3 DEF CountBegin, CountStates, CountIsGood
<1>4. CASE CountLoad
  <2>1. PICK one \in {0, 1} :
          LET b == count.read + 1 IN
          count' = [at   |-> IF b < N THEN count.at
                             ELSE IF count.at = "up" THEN "down" ELSE "done",
                    read |-> IF b < N THEN b ELSE 0,
                    up   |-> IF count.at = "up" THEN count.up + one ELSE count.up,
                    down |-> IF count.at = "down" THEN count.down - one ELSE count.down]
    BY <1>4 DEF CountLoad
  <2>2. count.at \in {"up", "down"}
    BY <1>4 DEF CountLoad
  <2> QED BY <1>1, <1>2, <2>1, <2>2 DEF CountStates, CountIsGood
<1>5. CASE CountReport
  <2> DEFINE k == [count EXCEPT !.at = "idle"]
             j == [k EXCEPT !.up = 0]
  <2>1. k \in CountStates /\ k.at = "idle"
    BY <1>2 DEF CountStates
  <2> HIDE DEF k
  <2>2. j \in CountStates /\ j.at = "idle"
    BY <1>1, <2>1 DEF CountStates
  <2> HIDE DEF j
  <2>3. [j EXCEPT !.down = 0] \in CountStates /\ [j EXCEPT !.down = 0].at = "idle"
    BY <1>1, <2>2 DEF CountStates
  <2>4. count' = [j EXCEPT !.down = 0]
    BY <1>5 DEF CountReport, j, k
  <2> QED BY <2>3, <2>4 DEF CountIsGood
<1> QED BY <1>3, <1>4, <1>5

(* Steps that leave flags and picks alone: the checker between two stores, *)
(* the backends themselves, the flusher's count.                           *)
LEMMA QuietStep ==
  ASSUME IInv, Probe \/ Tick \/ Return \/ Cancel \/ Flip
               \/ CountBegin \/ CountLoad \/ CountReport
  PROVE  IInv'
<1>1. N \in Nat /\ N > 0 /\ MaxChanges \in Nat
  BY PoolAssumption
<1>2. UNCHANGED <<healthy, counter, pick, history>>
  BY DEF Probe, Tick, Return, Cancel, Flip, CountBegin, CountLoad, CountReport, poolVars,
         checkerVars
<1>3. count' \in CountStates /\ CountIsGood'
  <2>1. CASE UNCHANGED count
    BY <2>1 DEF IInv, Typed, CountIsGood
  <2> QED BY <2>1, CountStep DEF Probe, Tick, Return, Cancel, Flip
<1>4. changes' \in 0 .. MaxChanges
  BY <1>1
  DEF Probe, Tick, Return, Cancel, Flip, CountBegin, CountLoad, CountReport, Change,
      IInv, Typed
<1>5. /\ up' \subseteq Backends /\ checker' \in 0 .. N + 1
      /\ verdict' \in Verdicts /\ cancelled' \in BOOLEAN /\ CheckerIsGood'
  <2> USE <1>1 DEF IInv, Typed, CheckerIsGood, poolVars, checkerVars
  <2>1. CASE Probe
    BY <2>1 DEF Probe, Verdicts
  <2>2. CASE Tick
    BY <2>2 DEF Tick, Backends
  <2>3. CASE Return
    BY <2>3 DEF Return, Backends
  <2>4. CASE Cancel
    BY <2>4 DEF Cancel
  <2>5. CASE Flip
    BY <2>5 DEF Flip
  <2>6. CASE CountBegin \/ CountLoad \/ CountReport
    BY <2>6 DEF CountBegin, CountLoad, CountReport
  <2> QED BY <2>1, <2>2, <2>3, <2>4, <2>5, <2>6
<1>6. Typed'
  BY <1>2, <1>3, <1>4, <1>5 DEF IInv, Typed, history
<1>7. PicksAreGood' /\ SteadyIsGood' /\ CounterIsPicks' /\ RoundsAreEven'
  BY <1>2
  DEF IInv, PicksAreGood, SteadyIsGood, CounterIsPicks, RoundsAreEven, RoundIs, Picked,
      SentTo, history
<1> QED BY <1>3, <1>5, <1>6, <1>7 DEF IInv

(* A flag is stored: the histories of the scans under way take it up.      *)
LEMMA StoreStep ==
  ASSUME IInv, Store
  PROVE  IInv'
<1>1. N \in Nat /\ N > 0
  BY PoolAssumption
<1>2. checker \in Backends
  BY DEF IInv, CheckerIsGood, Store
<1>3. UNCHANGED <<up, counter, cancelled, pick, count, changes>> /\ Watch
  BY DEF Store
<1>4. healthy' \subseteq Backends /\ checker' \in 0 .. N + 1 /\ verdict' = "none"
  BY <1>1, <1>2 DEF Store, IInv, Typed, Backends
<1>5. Typed'
  BY <1>3, <1>4 DEF Watch, IInv, Typed, Verdicts
<1>6. ASSUME NEW r \in Requests
      PROVE  Good(pick[r], healthy', everUp'[r], everDown'[r])
  <2>1. Good(pick[r], healthy, everUp[r], everDown[r])
    BY DEF IInv, PicksAreGood
  <2>2. CASE Selecting(r)
    <3>1. /\ everUp'[r] = everUp[r] \cup healthy'
          /\ everDown'[r] = everDown[r] \cup (Backends \ healthy')
      BY <2>2, <1>3 DEF Watch
    <3> QED BY <3>1, <2>1, <2>2 DEF Good, Selecting
  <2>3. CASE ~Selecting(r)
    <3>1. everUp'[r] = everUp[r] /\ everDown'[r] = everDown[r]
      BY <2>3, <1>3 DEF Watch
    <3> QED BY <3>1, <2>1, <2>3 DEF Good, Selecting
  <2> QED BY <2>2, <2>3
<1>7. PicksAreGood' /\ CountIsGood' /\ CheckerIsGood'
  BY <1>3, <1>4, <1>6 DEF IInv, PicksAreGood, CountIsGood, CheckerIsGood
<1>8. SteadyIsGood' /\ CounterIsPicks' /\ RoundsAreEven'
  BY <1>3
  DEF Watch, IInv, SteadyIsGood, CounterIsPicks, RoundsAreEven, RoundIs, Picked, SentTo
<1> QED BY <1>5, <1>7, <1>8 DEF IInv

-----------------------------------------------------------------------------
(* What is left to show of a step of Next that does not pick.              *)
LEMMA InvFromScan ==
  ASSUME IInv, NEW r \in Requests, NEW p \in PickStates, pick' = [pick EXCEPT ![r] = p],
         pick[r].at \in {"idle", "scan"}, p.at # "picked",
         UNCHANGED <<poolVars, counter, checkerVars, count, changes, steady>>,
         everUp' \in [Requests -> SUBSET Backends],
         everDown' \in [Requests -> SUBSET Backends],
         \A q \in Requests : q # r => /\ everUp'[q] = everUp[q]
                                      /\ everDown'[q] = everDown[q],
         Good(p, healthy, everUp'[r], everDown'[r]),
         steady /\ p.at = "scan" => InOrder(p)
  PROVE  IInv'
<1>1. /\ pick' \in [Requests -> PickStates] /\ pick'[r] = p
      /\ \A q \in Requests : q # r => pick'[q] = pick[q]
  BY OnePickChanges DEF IInv
<1>2. p.backend = 0 /\ pick[r].backend = 0
  BY DEF Good, IInv, PicksAreGood
<1>3. Typed'
  BY <1>1 DEF IInv, Typed, poolVars, checkerVars
<1>4. CheckerIsGood' /\ CountIsGood'
  BY DEF IInv, CheckerIsGood, CountIsGood, checkerVars
<1>5. PicksAreGood'
  <2> SUFFICES ASSUME NEW q \in Requests
               PROVE  Good(pick'[q], healthy', everUp'[q], everDown'[q])
    BY DEF PicksAreGood
  <2>1. healthy' = healthy
    BY DEF poolVars
  <2>2. CASE q = r
    BY <2>1, <2>2, <1>1
  <2>3. CASE q # r
    BY <2>1, <2>3, <1>1 DEF IInv, PicksAreGood
  <2> QED BY <2>2, <2>3
<1>6. SteadyIsGood'
  BY <1>1 DEF IInv, SteadyIsGood, poolVars
<1>7. Picked' = Picked /\ \A b \in Backends : SentTo(b)' = SentTo(b)
  BY <1>1, <1>2 DEF Picked, SentTo
<1>8. CounterIsPicks' /\ RoundsAreEven'
  BY <1>7 DEF IInv, CounterIsPicks, RoundsAreEven, RoundIs
<1> QED BY <1>3, <1>4, <1>5, <1>6, <1>8 DEF IInv

(* A call of Next begins: its history starts with the flags as they are.   *)
LEMMA EnterStep ==
  ASSUME IInv, NEW r \in Requests, Enter(r)
  PROVE  IInv'
<1> DEFINE p == [pick[r] EXCEPT !.at = "scan"]
<1>1. pick[r] \in PickStates /\ Good(pick[r], healthy, everUp[r], everDown[r])
      /\ pick[r].at = "idle" /\ N \in Nat
  BY PoolAssumption DEF IInv, Typed, PicksAreGood, Enter
<1>2. /\ p \in PickStates /\ p.at = "scan" /\ p.read = 0 /\ p.seen = <<>>
      /\ p.backend = 0
  BY <1>1 DEF PickStates, Good
<1>3. pick' = [pick EXCEPT ![r] = p]
  BY DEF Enter
<1> HIDE DEF p
<1>4. /\ everUp' \in [Requests -> SUBSET Backends] /\ everUp'[r] = healthy
      /\ everDown' \in [Requests -> SUBSET Backends] /\ everDown'[r] = Backends \ healthy
      /\ \A q \in Requests : q # r => /\ everUp'[q] = everUp[q]
                                      /\ everDown'[q] = everDown[q]
  BY DEF Enter, IInv, Typed
<1>5. Good(p, healthy, everUp'[r], everDown'[r])
  BY <1>2, <1>4 DEF Good
<1>6. InOrder(p)
  BY <1>2 DEF InOrder
<1>7. UNCHANGED <<poolVars, counter, checkerVars, count, changes, steady>>
  BY DEF Enter
<1> QED
  BY <1>1, <1>2, <1>3, <1>4, <1>5, <1>6, <1>7, InvFromScan

(* The scan reads one flag.                                                *)
LEMMA LoadStep ==
  ASSUME IInv, NEW r \in Requests, Load(r)
  PROVE  IInv'
<1> DEFINE b   == pick[r].read + 1
           see == IF b \in healthy THEN Append(pick[r].seen, b) ELSE pick[r].seen
           p   == [pick[r] EXCEPT !.read = b, !.seen = see]
<1>1. /\ pick[r] \in PickStates /\ Good(pick[r], healthy, everUp[r], everDown[r])
      /\ pick[r].at = "scan" /\ N \in Nat /\ pick[r].read \in 0 .. N - 1
      /\ pick[r].seen \in Seq(Backends) /\ b \in Backends
  BY PoolAssumption DEF IInv, Typed, PicksAreGood, Load, Selecting, PickStates, Backends
<1>2. /\ see \in Seq(Backends)
      /\ \A i \in 1 .. Len(see) : see[i] \in everUp[r]
      /\ see = <<>> => 1 .. b \subseteq everDown[r]
  <2>1. CASE b \in healthy
    BY <2>1, <1>1 DEF Good
  <2>2. CASE b \notin healthy
    <3>1. 1 .. b = (1 .. pick[r].read) \cup {b}
      BY <1>1
    <3> QED BY <2>2, <3>1, <1>1 DEF Good
  <2> QED BY <2>1, <2>2
<1>3. steady => Len(see) = b /\ \A i \in 1 .. b : see[i] = i
  <2> SUFFICES ASSUME steady PROVE Len(see) = b /\ \A i \in 1 .. b : see[i] = i
    OBVIOUS
  <2>1. healthy = Backends /\ InOrder(pick[r])
    BY <1>1 DEF IInv, SteadyIsGood
  <2> QED BY <2>1, <1>1 DEF InOrder
<1>4. pick' = [pick EXCEPT ![r] = p]
  BY DEF Load
<1> HIDE DEF see
<1>5. /\ p \in PickStates /\ p.at = "scan" /\ p.read = b /\ p.seen = see
      /\ p.backend = pick[r].backend
  <2> DEFINE o == [pick[r] EXCEPT !.read = b]
  <2>1. o \in PickStates /\ o.at = "scan" /\ o.read = b /\ o.backend = pick[r].backend
    BY <1>1 DEF PickStates, Backends
  <2>2. p = [o EXCEPT !.seen = see]
    OBVIOUS
  <2> HIDE DEF o, p, b
  <2> QED BY <1>2, <2>1, <2>2 DEF PickStates
<1> HIDE DEF p, b
<1>6. Good(p, healthy, everUp[r], everDown[r])
  BY <1>1, <1>2, <1>5 DEF Good
<1>7. steady => InOrder(p)
  BY <1>3, <1>5 DEF InOrder
<1>8. UNCHANGED <<poolVars, counter, checkerVars, count, changes, history>>
  BY DEF Load
<1> QED
  BY <1>1, <1>4, <1>5, <1>6, <1>7, <1>8, InvFromScan DEF history, IInv, Typed

(* Nothing was healthy when it was read. *)
LEMMA RefuseStep ==
  ASSUME IInv, NEW r \in Requests, Refuse(r)
  PROVE  IInv'
<1> DEFINE p == [pick[r] EXCEPT !.at = "refused"]
<1>1. /\ pick[r] \in PickStates /\ Good(pick[r], healthy, everUp[r], everDown[r])
      /\ pick[r].at = "scan" /\ pick[r].read = N /\ pick[r].seen = <<>>
      /\ everDown[r] \subseteq Backends
  BY DEF IInv, Typed, PicksAreGood, Refuse, Selecting
<1>2. everDown[r] = Backends
  BY <1>1 DEF Good, Backends
<1>3. pick' = [pick EXCEPT ![r] = p]
  BY DEF Refuse
<1>4. p \in PickStates /\ p.at = "refused" /\ p.backend = pick[r].backend
  BY <1>1 DEF PickStates
<1> HIDE DEF p
<1>5. Good(p, healthy, everUp[r], everDown[r])
  BY <1>1, <1>2, <1>4 DEF Good
<1>6. UNCHANGED <<poolVars, counter, checkerVars, count, changes, history>>
  BY DEF Refuse
<1> QED
  BY <1>1, <1>3, <1>4, <1>5, <1>6, InvFromScan DEF history, IInv, Typed

-----------------------------------------------------------------------------
(* The pick is an element of what the scan has seen; in a steady pool it   *)
(* is the backend whose turn it is.                                        *)
LEMMA PickIs ==
  ASSUME IInv, NEW r \in Requests, Choose(r)
  PROVE  LET s == pick[r].seen
             b == s[(counter % Len(s)) + 1]
         IN  /\ b \in Backends /\ b \in everUp[r]
             /\ steady => b = (counter % N) + 1
<1> DEFINE s == pick[r].seen
           i == (counter % Len(s)) + 1
<1>1. /\ pick[r] \in PickStates /\ Good(pick[r], healthy, everUp[r], everDown[r])
      /\ pick[r].at = "scan" /\ pick[r].read = N /\ s # <<>> /\ s \in Seq(Backends)
      /\ counter \in Nat
  BY CounterTyped DEF IInv, Typed, PicksAreGood, Choose, Selecting, PickStates
<1>2. Len(s) \in Nat /\ Len(s) > 0
  BY <1>1
<1>3. i \in 1 .. Len(s)
  <2> DEFINE c == counter
             l == Len(s)
  <2>1. c \in Nat /\ l \in Nat /\ l > 0
    BY <1>1, <1>2
  <2> HIDE DEF c, l
  <2>2. (c % l) \in 0 .. l - 1
    BY <2>1
  <2>3. (c % l) + 1 \in 1 .. l
    BY <2>1, <2>2
  <2> QED BY <2>3 DEF c, l
<1>4. s[i] \in Backends /\ s[i] \in everUp[r]
  BY <1>1, <1>3 DEF Good
<1>5. steady => Len(s) = N /\ s[i] = i
  BY <1>1, <1>3 DEF IInv, SteadyIsGood, InOrder
<1> QED BY <1>4, <1>5

(* A pick: the round goes on, or the last backend closes it.               *)
LEMMA ChooseStep ==
  ASSUME IInv, NEW r \in Requests, Choose(r)
  PROVE  IInv'
<1> DEFINE b == pick[r].seen[(counter % Len(pick[r].seen)) + 1]
           p == [pick[r] EXCEPT !.at = "picked", !.backend = b]
<1>1. /\ b \in Backends /\ b \in everUp[r] /\ (steady => b = (counter % N) + 1)
      /\ counter \in Nat /\ N \in Nat
  BY PickIs, CounterTyped, PoolAssumption DEF IInv
<1>2. /\ pick[r] \in PickStates /\ Good(pick[r], healthy, everUp[r], everDown[r])
      /\ pick[r].at = "scan"
  BY DEF IInv, Typed, PicksAreGood, Choose, Selecting
<1>3. pick' = [pick EXCEPT ![r] = p] /\ counter' = counter + 1
  BY DEF Choose
<1>4. UNCHANGED <<poolVars, checkerVars, count, changes, history>>
  BY DEF Choose
<1> HIDE DEF b
<1>5. p \in PickStates /\ p.at = "picked" /\ p.backend = b
  <2> DEFINE o == [pick[r] EXCEPT !.at = "picked"]
  <2>1. o \in PickStates /\ o.at = "picked"
    BY <1>2 DEF PickStates
  <2>2. p = [o EXCEPT !.backend = b]
    OBVIOUS
  <2> HIDE DEF o, p
  <2> QED BY <1>1, <2>1, <2>2 DEF PickStates, Backends
<1> HIDE DEF p
<1>6. /\ pick' \in [Requests -> PickStates] /\ pick'[r] = p
      /\ \A q \in Requests : q # r => pick'[q] = pick[q]
  BY <1>3, <1>5, OnePickChanges DEF IInv
<1>7. Typed' /\ CheckerIsGood' /\ CountIsGood'
  BY <1>4, <1>6
  DEF IInv, Typed, CheckerIsGood, CountIsGood, poolVars, checkerVars, history
<1>8. PicksAreGood'
  <2> SUFFICES ASSUME NEW q \in Requests
               PROVE  Good(pick'[q], healthy, everUp[q], everDown[q])
    BY <1>4 DEF PicksAreGood, poolVars, history
  <2>1. CASE q = r
    BY <2>1, <1>1, <1>5, <1>6 DEF Good
  <2>2. CASE q # r
    BY <2>2, <1>6 DEF IInv, PicksAreGood
  <2> QED BY <2>1, <2>2
<1>9. SteadyIsGood'
  BY <1>4, <1>5, <1>6 DEF IInv, SteadyIsGood, poolVars, history
<1>10. CounterIsPicks'
  <2>1. Picked' = Picked \cup {r} /\ r \notin Picked
    BY <1>2, <1>5, <1>6 DEF Picked
  <2> QED BY <2>1, <1>3, PicksFinite, FS_AddElement DEF IInv, CounterIsPicks
<1>11. RoundsAreEven'
  <2> SUFFICES ASSUME steady PROVE \E q \in Nat : RoundIs(q)'
    BY <1>4 DEF RoundsAreEven, history
  <2>1. PICK q \in Nat : RoundIs(q)
    BY DEF IInv, RoundsAreEven
  <2>2. ASSUME NEW d \in Backends
        PROVE  Cardinality(SentTo(d)') = Cardinality(SentTo(d)) + (IF d = b THEN 1 ELSE 0)
    <3>1. pick[r].backend = 0 /\ d # 0
      BY <1>2 DEF Good, Backends
    <3>2. CASE d = b
      <4>1. SentTo(d)' = SentTo(d) \cup {r} /\ r \notin SentTo(d)
        BY <3>1, <3>2, <1>5, <1>6 DEF SentTo
      <4> QED BY <4>1, <3>2, PicksFinite, FS_AddElement
    <3>3. CASE d # b
      <4>1. SentTo(d)' = SentTo(d)
        BY <3>1, <3>3, <1>5, <1>6 DEF SentTo
      <4> QED BY <4>1, <3>3, PicksFinite
    <3> QED BY <3>2, <3>3
  <2> DEFINE m  == counter % N
             m2 == (counter + 1) % N
  <2>3. m \in 0 .. N - 1 /\ m2 = (IF m < N - 1 THEN m + 1 ELSE 0)
    BY <1>1, Division, RemainderNext
  <2>4. \A d \in Backends : Cardinality(SentTo(d)) = q + (IF d <= m THEN 1 ELSE 0)
    BY <2>1 DEF RoundIs
  <2>5. counter' % N = m2 /\ b = m + 1
    BY <1>1, <1>3
  <2> HIDE DEF m, m2
  <2>6. CASE m < N - 1
    <3>1. RoundIs(q)'
      BY <1>1, <2>2, <2>3, <2>4, <2>5, <2>6 DEF RoundIs, Backends
    <3> QED BY <3>1
  <2>7. CASE ~(m < N - 1)
    <3>1. RoundIs(q + 1)'
      BY <1>1, <2>2, <2>3, <2>4, <2>5, <2>7 DEF RoundIs, Backends
    <3> QED BY <3>1
  <2> QED BY <2>6, <2>7
<1> QED BY <1>7, <1>8, <1>9, <1>10, <1>11 DEF IInv

(* Every step keeps the invariant. *)
LEMMA InvStep == IInv /\ [Next]_vars => IInv'
<1> SUFFICES ASSUME IInv, [Next]_vars PROVE IInv'
  OBVIOUS
<1>1. CASE Checker \/ Cancel \/ Flip \/ CountBegin \/ CountLoad \/ CountReport
  BY <1>1, StoreStep, QuietStep DEF Checker
<1>2. ASSUME NEW r \in Requests, Enter(r) \/ Load(r) \/ Refuse(r) \/ Choose(r) PROVE IInv'
  BY <1>2, EnterStep, LoadStep, RefuseStep, ChooseStep
<1>3. CASE UNCHANGED vars
  BY <1>3
  DEF vars, poolVars, checkerVars, history, IInv, Typed, CheckerIsGood, CountIsGood,
      PicksAreGood, SteadyIsGood, CounterIsPicks, RoundsAreEven, RoundIs, Picked, SentTo
<1> QED BY <1>1, <1>2, <1>3 DEF Next

(* The invariant holds in every reachable state. *)
LEMMA Invariance == Spec => []IInv
  BY InitInv, InvStep, PTL DEF Spec

(* Every variable keeps its range; the counter is at most the number of    *)
(* requests, since each request bumps it once.                             *)
THEOREM TypeCorrect == Spec => []TypeOK
<1>1. IInv => TypeOK
  <2> SUFFICES ASSUME IInv PROVE TypeOK
    OBVIOUS
  <2>1. counter \in 0 .. Cardinality(Requests)
    BY FS_Subset, FS_CardinalityType, PoolAssumption, CounterTyped
    DEF IInv, CounterIsPicks, Picked
  <2>2. \A r \in Requests : pick[r] \in PickStates
    BY DEF IInv, Typed
  <2> QED BY <2>1, <2>2 DEF IInv, Typed, TypeOK, PickStates, CountStates
<1> QED BY <1>1, Invariance, PTL

(* However the checker and the scans interleave, a request goes to a       *)
(* backend that was healthy at some time during its own Next.              *)
THEOREM PickIsFresh == Spec => []PickedWasHealthy
<1>1. IInv => PickedWasHealthy
  BY DEF IInv, PicksAreGood, Good, PickedWasHealthy
<1> QED BY <1>1, Invariance, PTL

(* A refused request has read each flag clear during its own Next.         *)
THEOREM RefusalIsFresh == Spec => []RefusedSawEachDown
<1>1. IInv => RefusedSawEachDown
  BY DEF IInv, PicksAreGood, Good, RefusedSawEachDown
<1> QED BY <1>1, Invariance, PTL

(* While no flag changes, no backend is ever more than one request ahead   *)
(* of another, however the handlers interleave.                            *)
THEOREM RoundRobin == Spec => []RoundRobinIsEven
<1>1. IInv => RoundRobinIsEven
  <2> SUFFICES ASSUME IInv, steady, NEW b \in Backends, NEW c \in Backends
               PROVE  Picks(b) <= Picks(c) + 1
    BY DEF RoundRobinIsEven
  <2>1. PICK q \in Nat : RoundIs(q)
    BY DEF IInv, RoundsAreEven
  <2>2. Picks(b) = Cardinality(SentTo(b)) /\ Picks(c) = Cardinality(SentTo(c))
    BY DEF Picks, SentTo
  <2> QED BY <2>1, <2>2 DEF RoundIs
<1> QED BY <1>1, Invariance, PTL

-----------------------------------------------------------------------------
(* The accumulator.  The strengthening that makes its properties inductive *)
(* says which entries of the snapshot are still empty, and what holds      *)
(* between the two reads that TargetsNeverAhead skips.                     *)

(* The snapshot holds nothing for the counters that are still to be read.  *)
NotYetTaken ==
  /\ at = 0 => \A k \in Counters : snap[k] = {}
  /\ \A i \in 1 .. 9 : at <= i => snap[SwapOrder[i]] = {}

(* Between the targets' read and the requests' one, the requests that have *)
(* been handed out by target are counted, though perhaps not handed out.   *)
TargetsCovered ==
  at = 1 => Taken("target") \subseteq acc["requestCount"] \cup Taken("requestCount")

(* Only a request that a backend answered gets to the mutex. *)
OnlyAnsweredAddTarget ==
  \A r \in Arrivals : pc[r] = "target" => HasTarget(outcome[r])

MetricsInv ==
  /\ MetricsTypeOK
  /\ EachCountedOnce
  /\ OnlyAnsweredAddTarget
  /\ NotYetTaken
  /\ TargetsCovered
  /\ TargetsNeverAhead

-----------------------------------------------------------------------------
(* metrics.go:129-137: nine atomics, each swapped once, requestCount first. *)
LEMMA SwapOrderIsInjective ==
  /\ Len(SwapOrder) = 9
  /\ \A i \in 1 .. 9 : SwapOrder[i] \in Counters \ {"target"}
  /\ \A i, j \in 1 .. 9 : SwapOrder[i] = SwapOrder[j] => i = j
  /\ SwapOrder[1] = "requestCount"
<1>1. Len(SwapOrder) = 9
      BY DEF SwapOrder
<1>2. ASSUME NEW i \in 1 .. 9
      PROVE  SwapOrder[i] \in Counters \ {"target"}
      BY DEF SwapOrder, Counters, Classes, Switch
<1>3. \A i, j \in 1 .. 9 : SwapOrder[i] = SwapOrder[j] => i = j
      BY DEF SwapOrder
<1>4. SwapOrder[1] = "requestCount"
      BY DEF SwapOrder
<1> QED BY <1>1, <1>2, <1>3, <1>4

(* The class counters are none of the other counters. *)
LEMMA ClassesAreApart ==
  /\ Classes \subseteq Counters
  /\ "target" \notin Classes /\ "requestCount" \notin Classes
  /\ "processedBytes" \notin Classes
  /\ {"target", "requestCount", "processedBytes"} \subseteq Counters
  BY DEF Counters, Classes, Switch

-----------------------------------------------------------------------------
(* The initial state. *)
LEMMA MetricsInitInv == MetricsInit => MetricsInv
<1> SUFFICES ASSUME MetricsInit PROVE MetricsInv
    OBVIOUS
<1>1. MetricsTypeOK
      BY SwapOrderIsInjective DEF MetricsInit, MetricsTypeOK, Empty, Stages
<1>2. EachCountedOnce
      BY DEF MetricsInit, EachCountedOnce, Empty, Taken, Counted
<1>3. NotYetTaken /\ TargetsCovered /\ TargetsNeverAhead
      BY SwapOrderIsInjective, ClassesAreApart
      DEF MetricsInit, NotYetTaken, TargetsCovered, TargetsNeverAhead, Taken, Empty
<1>4. OnlyAnsweredAddTarget
      BY DEF MetricsInit, OnlyAnsweredAddTarget
<1> QED BY <1>1, <1>2, <1>3, <1>4 DEF MetricsInv
-----------------------------------------------------------------------------
(* One step of a handler that counts r in the counters of K: what it has   *)
(* counted grows by r in these, and nothing that was taken changes.        *)
LEMMA CountingKeepsEachOnce ==
  ASSUME MetricsTypeOK, EachCountedOnce, NEW r \in Arrivals, NEW K,
         acc' = [k \in Counters |-> IF k \in K THEN acc[k] \cup {r} ELSE acc[k]],
         UNCHANGED flusherVars,
         \A k \in Counters : \A q \in Arrivals :
           Counted(q, k)' <=> Counted(q, k) \/ (q = r /\ k \in K),
         \A k \in K : ~ Counted(r, k)
  PROVE  EachCountedOnce'
<1> SUFFICES ASSUME NEW k \in Counters
             PROVE  /\ acc'[k] \cup Taken(k)' = {q \in Arrivals : Counted(q, k)'}
                    /\ acc'[k] \cap Taken(k)' = {}
                    /\ (snap[k] \cap (flushed[k] \cup lost[k]))' = {}
                    /\ (flushed[k] \cap lost[k])' = {}
    BY DEF EachCountedOnce
<1>1. Taken(k)' = Taken(k)
      BY DEF Taken, flusherVars
<1>2. /\ acc[k] \cup Taken(k) = {q \in Arrivals : Counted(q, k)}
      /\ acc[k] \cap Taken(k) = {}
      /\ snap[k] \cap (flushed[k] \cup lost[k]) = {}
      /\ flushed[k] \cap lost[k] = {}
      BY DEF EachCountedOnce
<1>3. acc'[k] = IF k \in K THEN acc[k] \cup {r} ELSE acc[k]
      OBVIOUS
<1>4. k \in K => r \notin acc[k] \cup Taken(k)
      BY <1>2
<1>5. {q \in Arrivals : Counted(q, k)'}
        = {q \in Arrivals : Counted(q, k)} \cup (IF k \in K THEN {r} ELSE {})
      OBVIOUS
<1> QED BY <1>1, <1>2, <1>3, <1>4, <1>5 DEF flusherVars

(* The counters never forget while the flusher rests. *)
LEMMA CountingKeepsOrder ==
  ASSUME NotYetTaken, TargetsCovered, TargetsNeverAhead,
         UNCHANGED flusherVars,
         acc["requestCount"] \subseteq acc'["requestCount"]
  PROVE  NotYetTaken' /\ TargetsCovered' /\ TargetsNeverAhead'
  BY DEF NotYetTaken, TargetsCovered, TargetsNeverAhead, Taken, flusherVars

(* The five accesses of a handler. *)
LEMMA HandlerKeepsMetrics ==
  ASSUME MetricsInv, NEW r \in Arrivals, Handler(r)
  PROVE  MetricsInv'
<1> USE ClassesAreApart DEF MetricsInv
<1>1. CASE Call(r)
  <2> DEFINE K == {}
  <2>1. acc' = [k \in Counters |-> IF k \in K THEN acc[k] \cup {r} ELSE acc[k]]
        BY <1>1 DEF Call, MetricsTypeOK
  <2>2. MetricsTypeOK'
        BY <1>1 DEF Call, Go, MetricsTypeOK, Stages, flusherVars
  <2>3. /\ \A k \in Counters : \A q \in Arrivals :
             Counted(q, k)' <=> Counted(q, k) \/ (q = r /\ k \in K)
        /\ \A k \in K : ~ Counted(r, k)
        BY <1>1 DEF Call, Go, MetricsTypeOK, Counted
  <2> HIDE DEF K
  <2>4. EachCountedOnce'
        BY <1>1, <2>1, <2>3, CountingKeepsEachOnce DEF Call
  <2>5. OnlyAnsweredAddTarget'
        BY <1>1 DEF Call, Go, MetricsTypeOK, OnlyAnsweredAddTarget
  <2> QED BY <1>1, <2>1, <2>2, <2>4, <2>5, CountingKeepsOrder DEF Call
<1>2. CASE AddRequest(r)
  <2>1. acc' = [k \in Counters |->
                  IF k \in {"requestCount"} THEN acc[k] \cup {r} ELSE acc[k]]
        BY <1>2 DEF AddRequest, Add, MetricsTypeOK
  <2>2. MetricsTypeOK'
        BY <1>2, <2>1 DEF AddRequest, Go, MetricsTypeOK, Stages, flusherVars
  <2>3. /\ \A k \in Counters : \A q \in Arrivals :
             Counted(q, k)' <=> Counted(q, k) \/ (q = r /\ k \in {"requestCount"})
        /\ \A k \in {"requestCount"} : ~ Counted(r, k)
        BY <1>2 DEF AddRequest, Go, MetricsTypeOK, Counted
  <2>4. EachCountedOnce'
        BY <1>2, <2>1, <2>3, CountingKeepsEachOnce DEF AddRequest
  <2>5. OnlyAnsweredAddTarget'
        BY <1>2 DEF AddRequest, Go, MetricsTypeOK, OnlyAnsweredAddTarget
  <2> QED BY <1>2, <2>1, <2>2, <2>4, <2>5, CountingKeepsOrder DEF AddRequest
<1>3. CASE AddBytes(r)
  <2>1. acc' = [k \in Counters |->
                  IF k \in {"processedBytes"} THEN acc[k] \cup {r} ELSE acc[k]]
        BY <1>3 DEF AddBytes, Add, MetricsTypeOK
  <2>2. MetricsTypeOK'
        BY <1>3, <2>1 DEF AddBytes, Go, MetricsTypeOK, Stages, flusherVars
  <2>3. /\ \A k \in Counters : \A q \in Arrivals :
             Counted(q, k)' <=> Counted(q, k) \/ (q = r /\ k \in {"processedBytes"})
        /\ \A k \in {"processedBytes"} : ~ Counted(r, k)
        BY <1>3 DEF AddBytes, Go, MetricsTypeOK, Counted
  <2>4. EachCountedOnce'
        BY <1>3, <2>1, <2>3, CountingKeepsEachOnce DEF AddBytes
  <2>5. OnlyAnsweredAddTarget'
        BY <1>3 DEF AddBytes, Go, MetricsTypeOK, OnlyAnsweredAddTarget
  <2> QED BY <1>3, <2>1, <2>2, <2>4, <2>5, CountingKeepsOrder DEF AddBytes
<1>4. CASE AddClass(r)
  <2> DEFINE K == {k \in Classes : outcome[r] \in Switch[k]}
  <2>1. acc' = [k \in Counters |-> IF k \in K THEN acc[k] \cup {r} ELSE acc[k]]
        BY <1>4 DEF AddClass
  <2>2. MetricsTypeOK'
        BY <1>4, <2>1 DEF AddClass, Go, MetricsTypeOK, Stages, flusherVars
  <2>3. /\ \A k \in Counters : \A q \in Arrivals :
             Counted(q, k)' <=> Counted(q, k) \/ (q = r /\ k \in K)
        /\ \A k \in K : ~ Counted(r, k)
        BY <1>4 DEF AddClass, Go, MetricsTypeOK, Counted
  <2> HIDE DEF K
  <2>4. EachCountedOnce'
        BY <1>4, <2>1, <2>3, CountingKeepsEachOnce DEF AddClass
  <2>5. OnlyAnsweredAddTarget'
        BY <1>4 DEF AddClass, Go, MetricsTypeOK, OnlyAnsweredAddTarget
  <2> QED BY <1>4, <2>1, <2>2, <2>4, <2>5, CountingKeepsOrder DEF AddClass
<1>5. CASE AddTarget(r)
  <2>1. acc' = [k \in Counters |->
                  IF k \in {"target"} THEN acc[k] \cup {r} ELSE acc[k]]
        BY <1>5 DEF AddTarget, Add, MetricsTypeOK
  <2>2. MetricsTypeOK'
        BY <1>5, <2>1 DEF AddTarget, Go, MetricsTypeOK, Stages, flusherVars
  <2>3. /\ \A k \in Counters : \A q \in Arrivals :
             Counted(q, k)' <=> Counted(q, k) \/ (q = r /\ k \in {"target"})
        /\ \A k \in {"target"} : ~ Counted(r, k)
        BY <1>5 DEF AddTarget, Go, MetricsTypeOK, Counted, OnlyAnsweredAddTarget
  <2>4. EachCountedOnce'
        BY <1>5, <2>1, <2>3, CountingKeepsEachOnce DEF AddTarget
  <2>5. OnlyAnsweredAddTarget'
        BY <1>5 DEF AddTarget, Go, MetricsTypeOK, OnlyAnsweredAddTarget
  <2> QED BY <1>5, <2>1, <2>2, <2>4, <2>5, CountingKeepsOrder DEF AddTarget
<1> QED BY <1>1, <1>2, <1>3, <1>4, <1>5 DEF Handler

-----------------------------------------------------------------------------
(* The flusher moves one counter to its empty entry of the snapshot.       *)
LEMMA TakingKeepsEachOnce ==
  ASSUME MetricsTypeOK, EachCountedOnce, NEW k \in Counters, snap[k] = {}, Take(k),
         UNCHANGED <<handlerVars, flushed, lost>>
  PROVE  /\ EachCountedOnce'
         /\ Taken(k)' = Taken(k) \cup acc[k]
         /\ \A j \in Counters \ {k} :
              Taken(j)' = Taken(j) /\ acc'[j] = acc[j] /\ snap'[j] = snap[j]
         /\ acc' \in [Counters -> SUBSET Arrivals]
         /\ snap' \in [Counters -> SUBSET Arrivals]
<1>1. /\ acc'[k] = {} /\ snap'[k] = acc[k]
      /\ \A j \in Counters \ {k} : acc'[j] = acc[j] /\ snap'[j] = snap[j]
      /\ acc' \in [Counters -> SUBSET Arrivals]
      /\ snap' \in [Counters -> SUBSET Arrivals]
      BY DEF Take, MetricsTypeOK
<1>2. \A j \in Counters : \A q \in Arrivals : Counted(q, j)' <=> Counted(q, j)
      BY DEF Counted, handlerVars
<1>3. Taken(k)' = Taken(k) \cup acc[k]
      BY <1>1 DEF Taken
<1>4. \A j \in Counters \ {k} : Taken(j)' = Taken(j)
      BY <1>1 DEF Taken
<1>5. ASSUME NEW j \in Counters
      PROVE  /\ acc'[j] \cup Taken(j)' = {q \in Arrivals : Counted(q, j)'}
             /\ acc'[j] \cap Taken(j)' = {}
             /\ (snap[j] \cap (flushed[j] \cup lost[j]))' = {}
             /\ (flushed[j] \cap lost[j])' = {}
  <2>1. /\ acc[j] \cup Taken(j) = {q \in Arrivals : Counted(q, j)}
        /\ acc[j] \cap Taken(j) = {}
        /\ snap[j] \cap (flushed[j] \cup lost[j]) = {}
        /\ flushed[j] \cap lost[j] = {}
        BY DEF EachCountedOnce
  <2>2. {q \in Arrivals : Counted(q, j)'} = {q \in Arrivals : Counted(q, j)}
        BY <1>2
  <2>3. CASE j = k
        BY <1>1, <1>3, <2>1, <2>2, <2>3 DEF Taken
  <2>4. CASE j # k
        BY <1>1, <1>4, <2>1, <2>2, <2>4
  <2> QED BY <2>3, <2>4
<1> QED BY <1>1, <1>3, <1>4, <1>5 DEF EachCountedOnce

(* The reads of a snapshot, and the end of a window. *)
LEMMA FlusherKeepsMetrics ==
  ASSUME MetricsInv, Flusher
  PROVE  MetricsInv'
<1> USE ClassesAreApart, SwapOrderIsInjective DEF MetricsInv
<1>1. CASE TakeTarget
  <2>1. snap["target"] = {}
        BY <1>1 DEF TakeTarget, NotYetTaken
  <2>2. /\ EachCountedOnce'
        /\ Taken("target")' = Taken("target") \cup acc["target"]
        /\ \A j \in Counters \ {"target"} :
             Taken(j)' = Taken(j) /\ acc'[j] = acc[j] /\ snap'[j] = snap[j]
        /\ acc' \in [Counters -> SUBSET Arrivals]
        /\ snap' \in [Counters -> SUBSET Arrivals]
        BY <1>1, <2>1, TakingKeepsEachOnce DEF TakeTarget
  <2>3. MetricsTypeOK'
        BY <1>1, <2>2 DEF TakeTarget, MetricsTypeOK, handlerVars
  <2>4. OnlyAnsweredAddTarget'
        BY <1>1 DEF TakeTarget, OnlyAnsweredAddTarget, handlerVars
  <2>5. NotYetTaken'
        BY <1>1, <2>2 DEF TakeTarget, NotYetTaken
  <2>6. Taken("target") \cup acc["target"]
           \subseteq acc["requestCount"] \cup Taken("requestCount")
        BY DEF EachCountedOnce, Counted
  <2>7. TargetsCovered' /\ TargetsNeverAhead'
        BY <1>1, <2>2, <2>6 DEF TakeTarget, TargetsCovered, TargetsNeverAhead
  <2> QED BY <2>2, <2>3, <2>4, <2>5, <2>7
<1>2. CASE Swap
  <2>0. PICK k \in Counters \ {"target"} : k = SwapOrder[at]
        BY <1>2 DEF Swap
  <2>1. at \in 1 .. 9 /\ snap[k] = {} /\ Take(k) /\ at' = at + 1
        BY <1>2, <2>0 DEF Swap, NotYetTaken
  <2>2. /\ EachCountedOnce'
        /\ Taken(k)' = Taken(k) \cup acc[k]
        /\ \A j \in Counters \ {k} :
             Taken(j)' = Taken(j) /\ acc'[j] = acc[j] /\ snap'[j] = snap[j]
        /\ acc' \in [Counters -> SUBSET Arrivals]
        /\ snap' \in [Counters -> SUBSET Arrivals]
        BY <1>2, <2>1, TakingKeepsEachOnce DEF Swap
  <2>3. MetricsTypeOK'
        BY <1>2, <2>1, <2>2 DEF Swap, MetricsTypeOK, handlerVars
  <2>4. OnlyAnsweredAddTarget'
        BY <1>2 DEF Swap, OnlyAnsweredAddTarget, handlerVars
  <2>5. NotYetTaken'
    <3>1. ASSUME NEW i \in 1 .. 9, at + 1 <= i
          PROVE  snap'[SwapOrder[i]] = {}
      <4>1. SwapOrder[i] \in Counters \ {k}
            BY <2>0, <2>1, <3>1
      <4> QED BY <2>1, <2>2, <3>1, <4>1 DEF NotYetTaken
    <3> QED BY <2>1, <3>1 DEF NotYetTaken
  <2>6. Taken("target")' = Taken("target")
        BY <2>1, <2>2
  <2>7. Taken("requestCount") \subseteq Taken("requestCount")'
        BY <2>1, <2>2
  <2>8. at = 1 => Taken("requestCount")' = Taken("requestCount") \cup acc["requestCount"]
        BY <2>0, <2>2
  <2>9. TargetsCovered' /\ TargetsNeverAhead'
        BY <2>1, <2>6, <2>7, <2>8 DEF TargetsCovered, TargetsNeverAhead
  <2> QED BY <2>2, <2>3, <2>4, <2>5, <2>9
<1>3. CASE Deliver \/ Lose
  <2>1. /\ at = 10 /\ at' = 0 /\ snap' = Empty
        /\ UNCHANGED <<handlerVars, acc>>
        /\ \/ flushed' = AllWith(flushed) /\ lost' = lost
           \/ lost' = AllWith(lost) /\ flushed' = flushed
        BY <1>3 DEF Deliver, Lose
  <2>2. MetricsTypeOK'
        BY <2>1 DEF MetricsTypeOK, Empty, AllWith, handlerVars
  <2>3. \A k \in Counters : Taken(k)' = Taken(k)
        BY <2>1 DEF Taken, MetricsTypeOK, Empty, AllWith
  <2>4. EachCountedOnce'
    <3> SUFFICES ASSUME NEW k \in Counters
                 PROVE  /\ acc'[k] \cup Taken(k)' = {q \in Arrivals : Counted(q, k)'}
                        /\ acc'[k] \cap Taken(k)' = {}
                        /\ (snap[k] \cap (flushed[k] \cup lost[k]))' = {}
                        /\ (flushed[k] \cap lost[k])' = {}
        BY DEF EachCountedOnce
    <3>1. /\ acc[k] \cup Taken(k) = {q \in Arrivals : Counted(q, k)}
          /\ acc[k] \cap Taken(k) = {}
          /\ snap[k] \cap (flushed[k] \cup lost[k]) = {}
          /\ flushed[k] \cap lost[k] = {}
          BY DEF EachCountedOnce
    <3>2. {q \in Arrivals : Counted(q, k)'} = {q \in Arrivals : Counted(q, k)}
          BY <2>1 DEF Counted, handlerVars
    <3>3. (flushed[k] \cap lost[k])' = {} /\ snap'[k] = {}
          BY <2>1, <3>1 DEF AllWith, Empty
    <3> QED BY <2>1, <2>3, <3>1, <3>2, <3>3
  <2>5. OnlyAnsweredAddTarget'
        BY <2>1 DEF OnlyAnsweredAddTarget, handlerVars
  <2>6. NotYetTaken'
        BY <2>1 DEF NotYetTaken, Empty
  <2>7. TargetsCovered' /\ TargetsNeverAhead'
        BY <2>1, <2>3 DEF TargetsCovered, TargetsNeverAhead
  <2> QED BY <2>2, <2>4, <2>5, <2>6, <2>7
<1> QED BY <1>1, <1>2, <1>3 DEF Flusher

(* Nothing changes in a stuttering step. *)
LEMMA StutterKeepsMetrics == MetricsInv /\ UNCHANGED metricsVars => MetricsInv'
  BY DEF MetricsInv, metricsVars, handlerVars, flusherVars, MetricsTypeOK, EachCountedOnce, Counted, Taken,
         OnlyAnsweredAddTarget, NotYetTaken, TargetsCovered, TargetsNeverAhead

(* The invariant is inductive, and so it holds. *)
LEMMA MetricsInductive == MetricsInv /\ [MetricsNext]_metricsVars => MetricsInv'
  BY HandlerKeepsMetrics, FlusherKeepsMetrics, StutterKeepsMetrics DEF MetricsNext

(* Every reachable state satisfies the invariant. *)
LEMMA MetricsInvariance == MetricsSpec => []MetricsInv
<1> QED BY MetricsInitInv, MetricsInductive, PTL DEF MetricsSpec

-----------------------------------------------------------------------------
(* Every variable keeps the range the code gives it, for every Requests.   *)
THEOREM MetricsTypeCorrect == MetricsSpec => []MetricsTypeOK
<1>1. MetricsInv => MetricsTypeOK
      BY DEF MetricsInv
<1> QED BY <1>1, MetricsInvariance, PTL

(* metrics.go:76-145: handlers and flusher share no lock, and still every  *)
(* counter accounts for each request that reached it once, in one window.  *)
THEOREM CountedOnce == MetricsSpec => []EachCountedOnce
<1>1. MetricsInv => EachCountedOnce
      BY DEF MetricsInv
<1> QED BY <1>1, MetricsInvariance, PTL

(* metrics.go:77,101-110 against 117-129: the order of the additions and   *)
(* the order of the reads keep the per-target counts behind the requests.  *)
THEOREM TargetsBehindRequests == MetricsSpec => []TargetsNeverAhead
<1>1. MetricsInv => TargetsNeverAhead
      BY DEF MetricsInv
<1> QED BY <1>1, MetricsInvariance, PTL
==============================================================================
