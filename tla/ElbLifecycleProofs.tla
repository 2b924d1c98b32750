------------------------- MODULE ElbLifecycleProofs -------------------------
(***************************************************************************)
(* What ElbLifecycle.tla says of documents and of the shutdown, proved for *)
(* any number of load balancers and any requests.                          *)
(***************************************************************************)
EXTENDS ElbLifecycle, TLAPS

(* Where a flusher may stand. *)
FlusherStates ==
  [stage : {"asleep", "drain", "bulk", "returned"}, lb : 1 .. L + 1,
   held : SUBSET Requests, final : BOOLEAN]

(* What a request leaves behind stays with the server it arrived at. *)
Sorted == \A k \in Kinds : \A lb \in LBs : \A r \in buffered[k][lb] : LbOf[r] = lb

(* A flusher holds nothing between two flushes, and goes through the       *)
(* servers in order; it makes its final flush after the cancel only.       *)
FlusherGood(f) ==
  /\ f.stage \in {"asleep", "returned"} => f.lb = 1 /\ f.held = {} /\ ~f.final
  /\ f.stage = "drain" => f.lb \in LBs
  /\ f.stage = "bulk" => f.lb = L + 1
  /\ (f.final \/ f.stage = "returned") => Cancelled

(* Both flushers. *)
FlushersAreGood == \A k \in Kinds : FlusherGood(flusher[k])

(* The listeners are closed in order, and none is open after the last one. *)
ClosedInOrder ==
  /\ main = "running" => stopping = 1
  /\ main \in {"running", "closing"} => open = stopping .. L
  /\ main = "draining" => open = stopping + 1 .. L
  /\ main \in {"cancelling", "waiting", "exited"} => open = {}

(* Run is past the server lb. *)
Passed(lb) == lb \notin open /\ ~(main = "draining" /\ lb = stopping)

(* Within the deadline, Run leaves a server when its requests are over.    *)
ClosedAreDrained ==
  ~expired => \A r \in Requests : Passed(LbOf[r]) => handler[r] \in {"none", "done"}

(* So nobody fills the buffers behind the final flush.                     *)
FinalFlushEmpties ==
  ~expired => \A k \in Kinds : \A lb \in LBs :
    ((flusher[k].final /\ lb < flusher[k].lb) \/ flusher[k].stage = "returned")
      => buffered[k][lb] = {}

(* A flusher has returned by the time the process ends. *)
ExitAfterFlush == main = "exited" => \A k \in Kinds : flusher[k].stage = "returned"

(* The inductive invariant. *)
IInv == /\ TypeOK /\ Sorted /\ FlushersAreGood /\ ClosedInOrder /\ ClosedAreDrained
        /\ FinalFlushEmpties /\ ExitAfterFlush /\ EachInOnePlace

(* Where the document of kind k of request r is, one request at a time.    *)
OnePlace(k, r) ==
  LET buf == r \in buffered[k][LbOf[r]]
      has == r \in flusher[k].held
      idx == r \in indexed[k]
      los == r \in lost[k]
  IN  /\ r \in Left(k) <=> (buf \/ has \/ idx \/ los)
      /\ ~(buf /\ has) /\ ~(buf /\ idx) /\ ~(buf /\ los)
      /\ ~(has /\ idx) /\ ~(has /\ los) /\ ~(idx /\ los)

(* All documents. *)
AllInOnePlace == \A k \in Kinds : \A r \in Requests : OnePlace(k, r)

-----------------------------------------------------------------------------
(* A sorted document is in its own server's buffer or in none.             *)
LEMMA InBuffersIff ==
  ASSUME TypeOK, Sorted, NEW k \in Kinds, NEW r \in Requests
  PROVE  r \in InBuffers(k) <=> r \in buffered[k][LbOf[r]]
<1>1. r \in InBuffers(k) <=> \E lb \in LBs : r \in buffered[k][lb]
  BY DEF InBuffers
<1>2. LbOf[r] \in LBs
  BY LifecycleAssumption
<1> QED BY <1>1, <1>2 DEF Sorted

(* EachInOnePlace, one request at a time.                                  *)
LEMMA PointWise ==
  TypeOK /\ Sorted => (EachInOnePlace <=> AllInOnePlace)
<1> SUFFICES ASSUME TypeOK, Sorted
             PROVE  EachInOnePlace <=> AllInOnePlace
  OBVIOUS
<1>1. ASSUME NEW k \in Kinds
      PROVE  /\ Left(k) \subseteq Requests /\ flusher[k].held \subseteq Requests
             /\ indexed[k] \subseteq Requests /\ lost[k] \subseteq Requests
             /\ InBuffers(k) \subseteq Requests
  <2>1. InBuffers(k) \subseteq Requests
    BY DEF InBuffers, TypeOK
  <2> QED BY <2>1 DEF Left, TypeOK
<1>2. ASSUME EachInOnePlace, NEW k \in Kinds, NEW r \in Requests PROVE OnePlace(k, r)
  BY <1>2, InBuffersIff DEF EachInOnePlace, OnePlace
<1>3. ASSUME AllInOnePlace PROVE EachInOnePlace
  <2> SUFFICES ASSUME NEW k \in Kinds
      PROVE  /\ Left(k) = InBuffers(k) \cup flusher[k].held \cup indexed[k] \cup lost[k]
             /\ InBuffers(k) \cap flusher[k].held = {}
             /\ (InBuffers(k) \cup flusher[k].held) \cap (indexed[k] \cup lost[k]) = {}
             /\ indexed[k] \cap lost[k] = {}
    BY DEF EachInOnePlace
  <2>1. \A r \in Requests : r \in InBuffers(k) <=> r \in buffered[k][LbOf[r]]
    BY InBuffersIff
  <2> HIDE DEF InBuffers
  <2> QED BY <1>1, <1>3, <2>1 DEF OnePlace, AllInOnePlace
<1> QED BY <1>2, <1>3 DEF AllInOnePlace

(* One flusher changes. *)
LEMMA OneFlusherChanges ==
  ASSUME TypeOK, NEW k \in Kinds, NEW f \in FlusherStates,
         flusher' = [flusher EXCEPT ![k] = f]
  PROVE  /\ flusher' \in [Kinds -> FlusherStates] /\ flusher'[k] = f
         /\ \A j \in Kinds : j # k => flusher'[j] = flusher[j]
  BY DEF TypeOK, FlusherStates

(* One buffer changes. *)
LEMMA OneBufferChanges ==
  ASSUME TypeOK, NEW k \in Kinds, NEW lb \in LBs, NEW X \in SUBSET Requests,
         buffered' = [buffered EXCEPT ![k][lb] = X]
  PROVE  /\ buffered' \in [Kinds -> [LBs -> SUBSET Requests]] /\ buffered'[k][lb] = X
         /\ \A j \in Kinds, m \in LBs :
              j # k \/ m # lb => buffered'[j][m] = buffered[j][m]
  BY DEF TypeOK

(* A request is put into its server's buffer.                              *)
LEMMA PutOne ==
  ASSUME TypeOK, NEW k \in Kinds, NEW r \in Requests, Put(k, r)
  PROVE  /\ buffered' \in [Kinds -> [LBs -> SUBSET Requests]]
         /\ buffered'[k][LbOf[r]] = buffered[k][LbOf[r]] \cup {r}
         /\ \A j \in Kinds, m \in LBs :
              j # k \/ m # LbOf[r] => buffered'[j][m] = buffered[j][m]
<1> DEFINE X == buffered[k][LbOf[r]] \cup {r}
<1>1. LbOf[r] \in LBs
  BY LifecycleAssumption
<1>2. X \in SUBSET Requests
  BY <1>1 DEF TypeOK
<1>3. buffered' = [buffered EXCEPT ![k][LbOf[r]] = X]
  BY DEF Put
<1> HIDE DEF X
<1>4. /\ buffered' \in [Kinds -> [LBs -> SUBSET Requests]] /\ buffered'[k][LbOf[r]] = X
      /\ \A j \in Kinds, m \in LBs :
           j # k \/ m # LbOf[r] => buffered'[j][m] = buffered[j][m]
  BY <1>1, <1>2, <1>3, OneBufferChanges
<1> QED BY <1>4 DEF X

(* At the start nothing has been accepted. *)
LEMMA InitInv == Init => IInv
<1> SUFFICES ASSUME Init PROVE IInv
  OBVIOUS
<1>1. L \in Nat /\ 1 \in LBs /\ LbOf \in [Requests -> LBs]
  BY LifecycleAssumption DEF LBs
<1>2. TypeOK /\ Sorted
  <2>1. \A k \in Kinds : flusher[k] \in FlusherStates
    BY <1>1 DEF Init, Asleep, FlusherStates
  <2> QED BY <1>1, <2>1 DEF Init, TypeOK, FlusherStates, Sorted, Stages
<1>3. FlushersAreGood
  BY DEF Init, Asleep, FlushersAreGood, FlusherGood
<1>4. ClosedInOrder /\ ClosedAreDrained /\ FinalFlushEmpties /\ ExitAfterFlush
  BY DEF Init, ClosedInOrder, ClosedAreDrained, FinalFlushEmpties, ExitAfterFlush, LBs
<1>5. AllInOnePlace
  BY <1>1 DEF Init, AllInOnePlace, OnePlace, Left, Asleep
<1> QED BY <1>2, <1>3, <1>4, <1>5, PointWise DEF IInv

-----------------------------------------------------------------------------
(* A request in flight keeps its server from being passed, unless the      *)
(* deadline is over.                                                       *)
LEMMA InFlightHolds ==
  ASSUME IInv, NEW r \in Requests, handler[r] \notin {"none", "done"}, ~expired
  PROVE  ~Cancelled /\ ~Passed(LbOf[r])
<1>1. ~Passed(LbOf[r])
  BY DEF IInv, ClosedAreDrained
<1> QED BY <1>1 DEF IInv, ClosedInOrder, Passed, Cancelled

(* A handler's step: a document appears in its server's buffer, where no   *)
(* flush has been final unless the deadline is over.                       *)
LEMMA HandlerStep ==
  ASSUME IInv, NEW r \in Requests, Accept(r) \/ Handler(r)
  PROVE  IInv'
<1>1. PICK to \in {"accepted", "counted", "logged", "done"} :
        handler' = [handler EXCEPT ![r] = to]
  BY DEF Accept, Handler, RecordRequest, AppendLog, Answer, Step
<1>2. \/ UNCHANGED buffered
      \/ /\ handler[r] \in {"accepted", "counted"}
         /\ \E k \in Kinds : Put(k, r)
  BY DEF Accept, Handler, RecordRequest, AppendLog, Answer, Step, Kinds
<1>3. UNCHANGED <<flushVars, appVars>> /\ main # "exited"
  BY DEF Accept, Handler, RecordRequest, AppendLog, Answer, Step, Alive
<1>4. LbOf[r] \in LBs
  BY LifecycleAssumption
<1>5. ASSUME NEW k \in Kinds, NEW lb \in LBs
      PROVE  /\ buffered'[k][lb] \subseteq buffered[k][lb] \cup {r}
             /\ buffered'[k][lb] # buffered[k][lb] =>
                  lb = LbOf[r] /\ handler[r] \in {"accepted", "counted"}
  BY <1>2, <1>4, PutOne DEF IInv
<1>6. TypeOK'
  <2>1. handler' \in [Requests -> Stages]
    BY <1>1 DEF IInv, TypeOK, Stages
  <2>2. buffered' \in [Kinds -> [LBs -> SUBSET Requests]]
    BY <1>2, PutOne DEF IInv, TypeOK
  <2> QED BY <2>1, <2>2, <1>3 DEF IInv, TypeOK, flushVars, appVars
<1>7. Sorted'
  BY <1>5 DEF IInv, Sorted
<1>8. FlushersAreGood' /\ ClosedInOrder' /\ ExitAfterFlush'
  BY <1>3
  DEF IInv, FlushersAreGood, FlusherGood, ClosedInOrder, ExitAfterFlush, Cancelled,
      flushVars, appVars
<1>9. ClosedAreDrained'
  <2> SUFFICES ASSUME ~expired, NEW q \in Requests, Passed(LbOf[q])
               PROVE  handler'[q] \in {"none", "done"}
    BY <1>3 DEF ClosedAreDrained, Passed, appVars
  <2>1. handler[q] \in {"none", "done"}
    BY DEF IInv, ClosedAreDrained
  <2>2. CASE q # r
    BY <2>1, <2>2, <1>1 DEF IInv, TypeOK
  <2>3. CASE q = r
    BY <2>1, <2>3 DEF Accept, Handler, RecordRequest, AppendLog, Answer, Step, Passed
  <2> QED BY <2>2, <2>3
<1>10. FinalFlushEmpties'
  <2> SUFFICES ASSUME ~expired, NEW k \in Kinds, NEW lb \in LBs,
                      (flusher[k].final /\ lb < flusher[k].lb) \/ flusher[k].stage = "returned"
               PROVE  buffered'[k][lb] = {}
    BY <1>3 DEF FinalFlushEmpties, flushVars, appVars
  <2>1. Cancelled
    BY DEF IInv, FlushersAreGood, FlusherGood
  <2>2. handler[r] \notin {"accepted", "counted"}
    BY <2>1, InFlightHolds
  <2> QED BY <2>2, <1>5 DEF IInv, FinalFlushEmpties
<1>11. AllInOnePlace'
  <2> SUFFICES ASSUME NEW k \in Kinds, NEW q \in Requests PROVE OnePlace(k, q)'
    BY DEF AllInOnePlace
  <2>0. OnePlace(k, q) /\ handler \in [Requests -> Stages] /\ LbOf[q] \in LBs
    BY PointWise, LifecycleAssumption DEF IInv, TypeOK, AllInOnePlace
  <2>1. CASE q # r
    <3>1. handler'[q] = handler[q]
      BY <2>1, <1>1 DEF IInv, TypeOK
    <3>2. q \in buffered'[k][LbOf[q]] <=> q \in buffered[k][LbOf[q]]
      BY <2>1, <1>2, <1>4, <2>0, PutOne DEF IInv
    <3> QED BY <3>1, <3>2, <2>0, <1>3 DEF OnePlace, Left, flushVars
  <2>2. CASE q = r
    <3>1. CASE Accept(r) \/ Answer(r)
      BY <3>1, <2>0, <2>2, <1>3 DEF Accept, Answer, Step, OnePlace, Left, flushVars
    <3>2. CASE RecordRequest(r)
      BY <3>2, <2>0, <2>2, <1>3, PutOne
      DEF RecordRequest, Step, OnePlace, Left, flushVars, IInv, TypeOK, Kinds
    <3>3. CASE AppendLog(r)
      BY <3>3, <2>0, <2>2, <1>3, PutOne
      DEF AppendLog, Step, OnePlace, Left, flushVars, IInv, TypeOK, Kinds
    <3> QED BY <3>1, <3>2, <3>3 DEF Handler
  <2> QED BY <2>1, <2>2
<1>12. EachInOnePlace'
  BY <1>6, <1>7, <1>11, PointWise, PTL
<1> QED BY <1>6, <1>7, <1>8, <1>9, <1>10, <1>12 DEF IInv

-----------------------------------------------------------------------------
(* What is left to show of a step of flusher k.                            *)
LEMMA InvFromFlusher ==
  ASSUME IInv, NEW k \in Kinds, NEW f \in FlusherStates,
         flusher' = [flusher EXCEPT ![k] = f], FlusherGood(f), main # "exited",
         UNCHANGED <<handler, appVars>>,
         buffered' \in [Kinds -> [LBs -> SUBSET Requests]],
         indexed' \in [Kinds -> SUBSET Requests], lost' \in [Kinds -> SUBSET Requests],
         \A j \in Kinds, lb \in LBs : buffered'[j][lb] \subseteq buffered[j][lb],
         ~expired => \A lb \in LBs :
           ((f.final /\ lb < f.lb) \/ f.stage = "returned") => buffered'[k][lb] = {},
         AllInOnePlace'
  PROVE  IInv'
<1>1. /\ flusher' \in [Kinds -> FlusherStates] /\ flusher'[k] = f
      /\ \A j \in Kinds : j # k => flusher'[j] = flusher[j]
  BY OneFlusherChanges DEF IInv
<1>2. TypeOK'
  BY <1>1 DEF IInv, TypeOK, FlusherStates, appVars
<1>3. Sorted'
  BY DEF IInv, Sorted
<1>4. FlushersAreGood'
  BY <1>1 DEF IInv, FlushersAreGood, FlusherGood, Cancelled, appVars
<1>5. ClosedInOrder' /\ ClosedAreDrained' /\ ExitAfterFlush'
  BY DEF IInv, ClosedInOrder, ClosedAreDrained, Passed, ExitAfterFlush, appVars
<1>6. FinalFlushEmpties'
  <2> SUFFICES ASSUME ~expired, NEW j \in Kinds, NEW lb \in LBs,
        (flusher'[j].final /\ lb < flusher'[j].lb) \/ flusher'[j].stage = "returned"
               PROVE  buffered'[j][lb] = {}
    BY DEF FinalFlushEmpties, appVars
  <2>1. CASE j = k
    BY <2>1, <1>1
  <2>2. CASE j # k
    BY <2>2, <1>1 DEF IInv, FinalFlushEmpties
  <2> QED BY <2>1, <2>2
<1>7. EachInOnePlace'
  BY <1>2, <1>3, PointWise, PTL
<1> QED BY <1>2, <1>3, <1>4, <1>5, <1>6, <1>7 DEF IInv

(* A flush begins: a tick, or the final one. *)
LEMMA BeginStep ==
  ASSUME IInv, NEW k \in Kinds, Tick(k) \/ FinalFlush(k)
  PROVE  IInv'
<1> PICK fin \in BOOLEAN :
      /\ flusher' = [flusher EXCEPT ![k].stage = "drain", ![k].final = fin]
      /\ fin => Cancelled
  <2>1. CASE Tick(k)
    <3>1. flusher[k].final = FALSE /\ flusher[k] \in FlusherStates
      BY <2>1 DEF Tick, IInv, TypeOK, FlushersAreGood, FlusherGood, FlusherStates
    <3>2. flusher' = [flusher EXCEPT ![k].stage = "drain", ![k].final = FALSE]
      BY <2>1, <3>1 DEF Tick, FlusherStates, IInv, TypeOK
    <3> QED BY <3>2
  <2>2. CASE FinalFlush(k)
    BY <2>2 DEF FinalFlush
  <2> QED BY <2>1, <2>2
<1> DEFINE f == [flusher[k] EXCEPT !.stage = "drain", !.final = fin]
<1>1. /\ f \in FlusherStates /\ f.stage = "drain" /\ f.lb = 1 /\ f.held = {}
      /\ f.final = fin /\ flusher[k].held = {}
  BY DEF Tick, FinalFlush, IInv, TypeOK, FlushersAreGood, FlusherGood, FlusherStates
<1>2. flusher' = [flusher EXCEPT ![k] = f]
  OBVIOUS
<1> HIDE DEF f
<1>3. FlusherGood(f)
  BY <1>1, LifecycleAssumption DEF FlusherGood, LBs
<1>4. UNCHANGED <<handler, buffered, indexed, lost, appVars>> /\ main # "exited"
  BY DEF Tick, FinalFlush, Alive
<1>5. AllInOnePlace'
  <2>1. \A j \in Kinds : flusher'[j].held = flusher[j].held
    BY <1>1, <1>2, OneFlusherChanges DEF IInv
  <2>2. AllInOnePlace
    BY PointWise DEF IInv
  <2> QED BY <2>1, <2>2, <1>4 DEF AllInOnePlace, OnePlace, Left
<1>6. \A lb \in LBs : ~(lb < f.lb)
  BY <1>1 DEF LBs
<1> QED
  BY <1>1, <1>2, <1>3, <1>4, <1>5, <1>6, InvFromFlusher DEF IInv, TypeOK

(* The documents of one server pass from the buffer to the flusher.        *)
LEMMA DrainStep ==
  ASSUME IInv, NEW k \in Kinds, Drain(k)
  PROVE  IInv'
<1> DEFINE lb == flusher[k].lb
           f  == [flusher[k] EXCEPT !.held  = @ \cup buffered[k][lb],
                                    !.lb    = lb + 1,
                                    !.stage = IF lb = L THEN "bulk" ELSE "drain"]
<1>1. lb \in LBs /\ flusher[k] \in FlusherStates /\ L \in Nat /\ lb \in Nat
  BY LifecycleAssumption
  DEF Drain, IInv, TypeOK, FlusherStates, FlushersAreGood, FlusherGood, LBs
<1>2. /\ buffered' \in [Kinds -> [LBs -> SUBSET Requests]] /\ buffered'[k][lb] = {}
      /\ \A j \in Kinds, m \in LBs : j # k \/ m # lb => buffered'[j][m] = buffered[j][m]
  <2>1. buffered' = [buffered EXCEPT ![k][lb] = {}] /\ {} \in SUBSET Requests
    BY DEF Drain
  <2>2. TypeOK
    BY DEF IInv
  <2> HIDE DEF lb
  <2> QED BY <2>1, <2>2, <1>1, OneBufferChanges
<1>3. f \in FlusherStates
  <2>1. flusher[k].held \cup buffered[k][lb] \in SUBSET Requests /\ lb + 1 \in 1 .. L + 1
    BY <1>1 DEF FlusherStates, IInv, TypeOK, LBs
  <2> QED BY <1>1, <2>1 DEF FlusherStates
<1>4. /\ f.held = flusher[k].held \cup buffered[k][lb] /\ f.lb = lb + 1
      /\ f.stage = (IF lb = L THEN "bulk" ELSE "drain") /\ f.final = flusher[k].final
  BY <1>1 DEF FlusherStates
<1>5. flusher' = [flusher EXCEPT ![k] = f]
  BY DEF Drain
<1>6. flusher[k].stage = "drain" /\ FlusherGood(flusher[k]) /\ main # "exited"
  BY DEF Drain, Alive, IInv, FlushersAreGood
<1>7. UNCHANGED <<handler, indexed, lost, appVars>>
  BY DEF Drain
<1> HIDE DEF f
<1>8. FlusherGood(f)
  BY <1>1, <1>4, <1>6 DEF FlusherGood, LBs
<1>9. AllInOnePlace'
  <2> SUFFICES ASSUME NEW j \in Kinds, NEW r \in Requests PROVE OnePlace(j, r)'
    BY DEF AllInOnePlace
  <2>1. OnePlace(j, r) /\ LbOf[r] \in LBs
    BY PointWise, LifecycleAssumption DEF IInv, AllInOnePlace
  <2>2. flusher'[k] = f /\ (j # k => flusher'[j] = flusher[j])
    BY <1>3, <1>5, OneFlusherChanges DEF IInv
  <2>3. CASE j = k /\ LbOf[r] = lb
    BY <2>1, <2>2, <2>3, <1>2, <1>4, <1>7 DEF OnePlace, Left
  <2>4. CASE j = k /\ LbOf[r] # lb
    <3>1. r \notin buffered[k][lb]
      BY <2>4, <1>1 DEF IInv, Sorted
    <3> QED BY <3>1, <2>1, <2>2, <2>4, <1>2, <1>4, <1>7 DEF OnePlace, Left
  <2>5. CASE j # k
    BY <2>1, <2>2, <2>5, <1>2, <1>7 DEF OnePlace, Left
  <2> QED BY <2>3, <2>4, <2>5
<1>10. ASSUME ~expired, NEW m \in LBs, f.final, m < f.lb PROVE buffered'[k][m] = {}
  <2>1. m = lb \/ m < lb
    BY <1>1, <1>4, <1>10 DEF LBs
  <2>2. m < lb => buffered[k][m] = {}
    BY <1>4, <1>10 DEF IInv, FinalFlushEmpties
  <2> QED BY <2>1, <2>2, <1>2, <1>10
<1>11. \A j \in Kinds, m \in LBs : buffered'[j][m] \subseteq buffered[j][m]
  BY <1>2
<1>12. f.stage # "returned"
  BY <1>4
<1>13. indexed' \in [Kinds -> SUBSET Requests] /\ lost' \in [Kinds -> SUBSET Requests]
  BY <1>7 DEF IInv, TypeOK
<1>14. ~expired => \A m \in LBs :
         ((f.final /\ m < f.lb) \/ f.stage = "returned") => buffered'[k][m] = {}
  BY <1>10, <1>12
<1> HIDE DEF lb
<1> QED
  BY <1>2, <1>3, <1>5, <1>6, <1>7, <1>8, <1>9, <1>11, <1>13, <1>14, InvFromFlusher

(* What a flusher holds is accepted or lost, and it holds nothing then.    *)
LEMMA BulkStep ==
  ASSUME IInv, NEW k \in Kinds, Bulk(k)
  PROVE  IInv'
<1> PICK ok \in SUBSET flusher[k].held :
      /\ indexed' = [indexed EXCEPT ![k] = @ \cup ok]
      /\ lost' = [lost EXCEPT ![k] = @ \cup (flusher[k].held \ ok)]
  BY DEF Bulk
<1> DEFINE f == IF flusher[k].final THEN [Asleep EXCEPT !.stage = "returned"] ELSE Asleep
<1>1. flusher[k] \in FlusherStates /\ FlusherGood(flusher[k]) /\ L \in Nat
  BY LifecycleAssumption DEF IInv, TypeOK, FlusherStates, FlushersAreGood
<1>2. /\ f \in FlusherStates /\ f.lb = 1 /\ f.held = {} /\ f.final = FALSE
      /\ f.stage = (IF flusher[k].final THEN "returned" ELSE "asleep")
  <2>1. /\ Asleep \in FlusherStates /\ Asleep.stage = "asleep"
        /\ Asleep.lb = 1 /\ Asleep.held = {} /\ Asleep.final = FALSE
    BY <1>1 DEF FlusherStates, Asleep
  <2> DEFINE g == [Asleep EXCEPT !.stage = "returned"]
  <2>2. /\ g \in FlusherStates /\ g.stage = "returned"
        /\ g.lb = 1 /\ g.held = {} /\ g.final = FALSE
    BY <2>1 DEF FlusherStates
  <2>3. f = IF flusher[k].final THEN g ELSE Asleep
    OBVIOUS
  <2> HIDE DEF f, g
  <2> QED BY <2>1, <2>2, <2>3
<1>3. flusher' = [flusher EXCEPT ![k] = f]
  BY DEF Bulk
<1>4. /\ UNCHANGED <<handler, buffered, appVars>> /\ main # "exited"
      /\ flusher[k].stage = "bulk"
  BY DEF Bulk, Alive
<1> HIDE DEF f
<1>5. FlusherGood(f)
  BY <1>1, <1>2 DEF FlusherGood
<1>6. indexed' \in [Kinds -> SUBSET Requests] /\ lost' \in [Kinds -> SUBSET Requests]
  BY <1>1 DEF IInv, TypeOK, FlusherStates
<1>7. AllInOnePlace'
  <2> SUFFICES ASSUME NEW j \in Kinds, NEW r \in Requests PROVE OnePlace(j, r)'
    BY DEF AllInOnePlace
  <2>1. OnePlace(j, r)
    BY PointWise DEF IInv, AllInOnePlace
  <2>2. flusher'[k] = f /\ (j # k => flusher'[j] = flusher[j])
    BY <1>2, <1>3, OneFlusherChanges DEF IInv
  <2>3. CASE j = k
    <3>1. /\ indexed'[k] = indexed[k] \cup ok
          /\ lost'[k] = lost[k] \cup (flusher[k].held \ ok)
      BY DEF IInv, TypeOK
    <3> QED BY <3>1, <2>1, <2>2, <2>3, <1>2, <1>4 DEF OnePlace, Left
  <2>4. CASE j # k
    <3>1. indexed'[j] = indexed[j] /\ lost'[j] = lost[j]
      BY <2>4 DEF IInv, TypeOK
    <3> QED BY <3>1, <2>1, <2>2, <2>4, <1>4 DEF OnePlace, Left
  <2> QED BY <2>3, <2>4
<1>8. ASSUME ~expired, NEW m \in LBs, flusher[k].final PROVE buffered[k][m] = {}
  <2>1. m < flusher[k].lb
    BY <1>1, <1>4 DEF FlusherGood, LBs
  <2> QED BY <2>1, <1>8 DEF IInv, FinalFlushEmpties
<1> QED
  BY <1>2, <1>3, <1>4, <1>5, <1>6, <1>7, <1>8, InvFromFlusher DEF IInv, TypeOK

-----------------------------------------------------------------------------
(* The steps of Run leave requests and flushers alone.                     *)
LEMMA RunStep ==
  ASSUME IInv, Signal \/ Run
  PROVE  IInv'
<1>1. UNCHANGED <<handler, buffered, flushVars>> /\ stopping \in LBs /\ L \in Nat
  BY LifecycleAssumption
  DEF Signal, Run, CloseListener, Drained, Expire, FlushCancel, Exit, IInv, TypeOK
<1>2. TypeOK'
  <2>1. /\ open' \subseteq LBs /\ stopping' \in LBs /\ expired' \in BOOLEAN
        /\ main' \in {"running", "closing", "draining", "cancelling", "waiting", "exited"}
    <3>1. CASE Drained
      BY <1>1, <3>1 DEF Drained, IInv, TypeOK, LBs
    <3>2. CASE Signal \/ CloseListener \/ Expire \/ FlushCancel \/ Exit
      BY <3>2 DEF Signal, CloseListener, Expire, FlushCancel, Exit, IInv, TypeOK
    <3> QED BY <3>1, <3>2 DEF Run
  <2> QED BY <1>1, <2>1 DEF IInv, TypeOK, flushVars
<1>3. Sorted' /\ EachInOnePlace'
  BY <1>1 DEF IInv, Sorted, EachInOnePlace, InBuffers, Left, flushVars
<1>4. FlushersAreGood'
  BY <1>1
  DEF Signal, Run, CloseListener, Drained, Expire, FlushCancel, Exit, IInv,
      FlushersAreGood, FlusherGood, Cancelled, flushVars
<1>5. ClosedInOrder'
  <2> USE <1>1 DEF IInv, ClosedInOrder, LBs
  <2>1. CASE Signal
    BY <2>1 DEF Signal
  <2>2. CASE CloseListener
    BY <2>2 DEF CloseListener
  <2>3. CASE Drained
    <3>1. stopping = L => stopping + 1 .. L = {}
      OBVIOUS
    <3> QED BY <2>3, <3>1 DEF Drained
  <2>4. CASE Expire \/ FlushCancel \/ Exit
    BY <2>4 DEF Expire, FlushCancel, Exit
  <2> QED BY <2>1, <2>2, <2>3, <2>4 DEF Run
<1>6. ClosedAreDrained'
  <2> SUFFICES ASSUME ~expired', NEW r \in Requests, Passed(LbOf[r])'
               PROVE  handler[r] \in {"none", "done"}
    BY <1>1 DEF ClosedAreDrained
  <2>1. ~expired
    BY DEF Signal, Run, CloseListener, Drained, Expire, FlushCancel, Exit
  <2>2. CASE Passed(LbOf[r])
    BY <2>1, <2>2 DEF IInv, ClosedAreDrained
  <2>3. CASE ~Passed(LbOf[r])
    <3>1. Drained /\ LbOf[r] = stopping
      BY <2>3
      DEF Signal, Run, CloseListener, Drained, Expire, FlushCancel, Exit, Passed
    <3> QED BY <3>1, <2>1 DEF Drained, InFlight, IInv, TypeOK, Stages
  <2> QED BY <2>2, <2>3
<1>7. FinalFlushEmpties'
  <2>1. ~expired' => ~expired
    BY DEF Signal, Run, CloseListener, Drained, Expire, FlushCancel, Exit
  <2> QED BY <2>1, <1>1 DEF IInv, FinalFlushEmpties, flushVars
<1>8. ExitAfterFlush'
  BY <1>1
  DEF Signal, Run, CloseListener, Drained, Expire, FlushCancel, Exit, IInv,
      ExitAfterFlush, flushVars
<1> QED BY <1>2, <1>3, <1>4, <1>5, <1>6, <1>7, <1>8 DEF IInv

(* Every step keeps the invariant. *)
LEMMA InvStep == IInv /\ [Next]_vars => IInv'
<1> SUFFICES ASSUME IInv, [Next]_vars PROVE IInv'
  OBVIOUS
<1>1. ASSUME NEW r \in Requests, Accept(r) \/ Handler(r) PROVE IInv'
  BY <1>1, HandlerStep
<1>2. ASSUME NEW k \in Kinds, Flush(k) PROVE IInv'
  BY <1>2, BeginStep, DrainStep, BulkStep DEF Flush
<1>3. CASE Signal \/ Run
  BY <1>3, RunStep
<1>4. CASE UNCHANGED vars
  BY <1>4
  DEF vars, flushVars, appVars, IInv, TypeOK, Sorted, FlushersAreGood, FlusherGood,
      Cancelled, ClosedInOrder, ClosedAreDrained, Passed, FinalFlushEmpties,
      ExitAfterFlush, EachInOnePlace, InBuffers, Left
<1> QED BY <1>1, <1>2, <1>3, <1>4 DEF Next

(* The invariant holds in every reachable state. *)
LEMMA Invariance == Spec => []IInv
  BY InitInv, InvStep, PTL DEF Spec

(* Every variable keeps its range. *)
THEOREM TypeCorrect == Spec => []TypeOK
<1>1. IInv => TypeOK
  BY DEF IInv
<1> QED BY <1>1, Invariance, PTL

(* While handlers append and flushers drain, whatever happens to a bulk    *)
(* request, no document is dropped on the way and none is sent twice.      *)
THEOREM NoneDroppedOrDoubled == Spec => []EachInOnePlace
<1>1. IInv => EachInOnePlace
  BY DEF IInv
<1> QED BY <1>1, Invariance, PTL

(* A shutdown within the deadline leaves nothing behind, whatever the      *)
(* number of servers and the requests they still have.                     *)
THEOREM ShutdownFlushes == Spec => []DrainedMeansFlushed
<1>1. IInv => DrainedMeansFlushed
  <2> SUFFICES ASSUME IInv, main = "exited", ~expired, NEW r \in Requests,
                      handler[r] # "none"
               PROVE  /\ handler[r] = "done"
                      /\ \A k \in Kinds : r \in indexed[k] \cup lost[k]
    BY DEF DrainedMeansFlushed
  <2>1. handler[r] = "done"
    BY DEF IInv, ClosedAreDrained, ClosedInOrder, Passed
  <2>2. ASSUME NEW k \in Kinds PROVE r \in indexed[k] \cup lost[k]
    <3>1. flusher[k].stage = "returned" /\ LbOf[r] \in LBs
      BY LifecycleAssumption DEF IInv, ExitAfterFlush
    <3>2. buffered[k][LbOf[r]] = {} /\ flusher[k].held = {}
      BY <3>1 DEF IInv, FinalFlushEmpties, FlushersAreGood, FlusherGood
    <3>3. OnePlace(k, r) /\ r \in Left(k)
      BY <2>1, PointWise DEF IInv, AllInOnePlace, Left
    <3> QED BY <3>2, <3>3 DEF OnePlace
  <2> QED BY <2>1, <2>2
<1> QED BY <1>1, Invariance, PTL
=============================================================================
