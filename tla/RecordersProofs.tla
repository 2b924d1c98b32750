--------------------------- MODULE RecordersProofs ---------------------------
(***************************************************************************)
(* What Recorders.tla says of answers, rows and announcements, proved for  *)
(* any trades, routes, calls under way and failures.                       *)
(***************************************************************************)
EXTENDS Recorders, TLAPS

(* Where a call may stand: not yet routed, or with its record. *)
CallStates == CallRecords \cup {NoCall}

(* The trade of a call is in the database of its recorder. *)
InTable(k, tables) == k.trade \in tables[DbOf(k.svc)]

(* What a call may rely on at each of its stages, whatever other calls do: *)
(* a merge that found a row finds it again, and only a merge looks; the    *)
(* notifier is called for a recorded trade, unless a Go recorder has kept  *)
(* an error; a 200 is sent for a recorded trade.                           *)
Good(k, tables) ==
  k # NoCall =>
    /\ k.found => k.svc = "recorder-java"
    /\ k.stage = "write" /\ k.found => InTable(k, tables)
    /\ k.stage = "notify" /\ (k.svc = "recorder-java" \/ ~k.err) => InTable(k, tables)
    /\ k.stage = "reply" /\ k.status = 200 => InTable(k, tables)

CallsAreGood == \A c \in Calls : Good(call[c], rows)

(* The tables' CHECKs hold. *)
RowsAreAllowed == \A d \in Databases : rows[d] \cap Refused = {}

(* The inductive invariant. *)
IInv ==
  RecordersAssumption /\ TypeOK /\ RowsAreAllowed /\ CallsAreGood /\ NotifierFindsTrade

(* The tables only grow, and by allowed trades.                            *)
RowsGrow ==
  /\ rows' \in [Databases -> SUBSET Trades]
  /\ \A d \in Databases : rows[d] \subseteq rows'[d] /\ rows'[d] \cap Refused = {}

-----------------------------------------------------------------------------
(* A call under way has all its fields. *)
LEMMA UnderWay ==
  ASSUME TypeOK, NEW c \in Calls, ~At(c, "free")
  PROVE  /\ call[c] \in CallRecords /\ call[c] # NoCall
         /\ call[c].trade \in Trades /\ call[c].svc \in Services
         /\ DbOf(call[c].svc) \in Databases
  BY DEF TypeOK, At, NoCall, CallRecords, Services, Databases, DbOf

(* A record of a call is not NoCall. *)
LEMMA RecordIsCall ==
  ASSUME NEW k \in CallRecords
  PROVE  k # NoCall /\ k.svc \in Services /\ DbOf(k.svc) \in Databases
<1>1. k.stage # "free"
  BY DEF CallRecords, Stages
<1> QED
  BY <1>1 DEF CallRecords, NoCall, Services, DbOf, Databases

(* Writing a field of a call's record keeps its type. *)
LEMMA RecordTyped ==
  \A k \in CallRecords :
    /\ \A stage \in Stages : [k EXCEPT !.stage = stage] \in CallRecords
    /\ \A found \in BOOLEAN : [k EXCEPT !.found = found] \in CallRecords
    /\ \A err \in BOOLEAN : [k EXCEPT !.err = err] \in CallRecords
    /\ \A status \in {0, 200, 500, 504} : [k EXCEPT !.status = status] \in CallRecords
  BY DEF CallRecords

(* What a call relies on stays while the tables grow. *)
LEMMA GoodStays ==
  ASSUME RowsGrow, NEW k \in CallStates, Good(k, rows)
  PROVE  Good(k, rows')
<1>1. CASE k = NoCall
  BY <1>1 DEF Good
<1>2. CASE k \in CallRecords
  BY <1>2, RecordIsCall DEF Good, InTable, RowsGrow
<1> QED
  BY <1>1, <1>2 DEF CallStates

(* One call changes: if its new state is good, all are. *)
LEMMA OneCallChanges ==
  ASSUME TypeOK, CallsAreGood, RowsGrow, NEW c \in Calls, NEW k \in CallStates,
         call' = [call EXCEPT ![c] = k], Good(k, rows')
  PROVE  /\ call' \in [Calls -> CallStates]
         /\ CallsAreGood'
<1>1. call \in [Calls -> CallStates]
  BY DEF TypeOK, CallStates
<1>2. call' \in [Calls -> CallStates]
  BY <1>1
<1>3. ASSUME NEW d \in Calls PROVE Good(call'[d], rows')
  <2>1. CASE d = c
    BY <2>1, <1>1
  <2>2. CASE d # c
    BY <2>2, <1>1, GoodStays DEF CallsAreGood
  <2> QED BY <2>1, <2>2
<1> QED
  BY <1>2, <1>3 DEF CallsAreGood

(* Tables that stay do not shrink. *)
LEMMA SameRows == IInv /\ UNCHANGED rows => RowsGrow
  BY DEF IInv, TypeOK, RowsAreAllowed, RowsGrow

(* The tables take up the trade of a call that may insert it, or whose     *)
(* merge has found it.                                                     *)
LEMMA InsertGrows ==
  ASSUME IInv, NEW c \in Calls, ~At(c, "free"), InsertRow(c),
         Insertable(c) \/ InTable(call[c], rows)
  PROVE  RowsGrow /\ InTable(call[c], rows')
<1>1. DbOf(call[c].svc) \in Databases /\ call[c].trade \in Trades
  BY UnderWay DEF IInv
<1>2. call[c].trade \notin Refused
  BY <1>1 DEF Insertable, InTable, IInv, RowsAreAllowed
<1>3. rows \in [Databases -> SUBSET Trades]
  BY DEF IInv, TypeOK
<1> QED
  BY <1>1, <1>2, <1>3 DEF InsertRow, RowsGrow, InTable, IInv, RowsAreAllowed

(* What is left to show of a step of one call.                             *)
LEMMA InvFrom ==
  ASSUME IInv, RowsGrow, NEW c \in Calls, NEW k \in CallStates,
         call' = [call EXCEPT ![c] = k], Good(k, rows'),
         routed' \in [Trades -> 0 .. MaxRoutes],
         notified' \subseteq Services \X Trades,
         sold' \subseteq Trades, missed' \subseteq Trades, faults' \in 0 .. MaxFaults,
         NotifierFindsTrade'
  PROVE  IInv'
<1>1. call' \in [Calls -> CallStates] /\ CallsAreGood'
  BY OneCallChanges DEF IInv
<1> QED
  BY <1>1 DEF IInv, TypeOK, CallStates, RowsGrow, RowsAreAllowed

(* The bound on the failures is kept. *)
LEMMA FaultTyped == IInv /\ Fault => faults' \in 0 .. MaxFaults
  BY DEF IInv, RecordersAssumption, TypeOK, Fault

(* Nothing is under way at the start. *)
LEMMA InitInv == RecordersAssumption /\ Init => IInv
  BY SMTT(30)
  DEF Init, IInv, RecordersAssumption, TypeOK, RowsAreAllowed, CallsAreGood, Good, NotifierFindsTrade, NoCall,
      Databases

-----------------------------------------------------------------------------
(* The router opens a call to one of the services of the trade's route.     *)
LEMMA RouteStep ==
  ASSUME IInv, NEW c \in Calls, NEW t \in Trades, Route(c, t)
  PROVE  IInv'
<1> PICK svc \in Routes[t] : call' = [call EXCEPT ![c] = CallOf(t, svc)]
  BY DEF Route
<1>1. svc \in Services
  BY DEF IInv, RecordersAssumption
<1>2. CallOf(t, svc) \in CallStates
  BY <1>1 DEF CallOf, CallStates, CallRecords, Stages
<1>3. Good(CallOf(t, svc), rows')
  BY DEF Good, CallOf
<1>4. RowsGrow
  BY SameRows DEF Route
<1>5. routed' \in [Trades -> 0 .. MaxRoutes]
  BY DEF Route, IInv, RecordersAssumption, TypeOK
<1> QED
  BY <1>2, <1>3, <1>4, <1>5, InvFrom DEF Route, IInv, TypeOK, NotifierFindsTrade

(* The router stops waiting: nothing else about the call changes.          *)
LEMMA DisconnectStep ==
  ASSUME IInv, NEW c \in Calls, Timeout(c) \/ CallerGone(c)
  PROVE  IInv'
<1> DEFINE k == [call[c] EXCEPT !.waiting = FALSE]
<1>1. call[c] \in CallRecords /\ call[c] # NoCall
  BY UnderWay DEF IInv, Timeout, CallerGone, Disconnect
<1>2. call' = [call EXCEPT ![c] = k]
  BY DEF Timeout, CallerGone, Disconnect
<1>3. k \in CallRecords
  BY <1>1, ZenonT(60) DEF CallRecords
<1>4. Good(k, rows')
  BY <1>1
  DEF Good, InTable, IInv, CallsAreGood, Timeout, CallerGone, Disconnect, CallRecords
<1>5. faults' \in 0 .. MaxFaults
  BY FaultTyped DEF Timeout, CallerGone, IInv, TypeOK
<1>6. RowsGrow
  BY SameRows DEF Timeout, CallerGone, Disconnect
<1> HIDE DEF k
<1> QED
  BY <1>2, <1>3, <1>4, <1>5, <1>6, InvFrom
  DEF Timeout, CallerGone, Disconnect, IInv, TypeOK, NotifierFindsTrade, CallStates

(* The answer is read, or nobody waits for it: the call is over.           *)
LEMMA ReplyStep ==
  ASSUME IInv, NEW c \in Calls, Reply(c) \/ ReplyUnheard(c)
  PROVE  IInv'
<1>1. NoCall \in CallStates /\ Good(NoCall, rows')
  BY DEF CallStates, Good
<1>2. RowsGrow
  BY SameRows DEF Reply, ReplyUnheard
<1> QED
  BY <1>1, <1>2, InvFrom DEF Reply, ReplyUnheard, IInv, TypeOK, NotifierFindsTrade

(* The merge of recorder-java looks for the row.                           *)
LEMMA FindStep ==
  ASSUME IInv, NEW c \in Calls, JavaFind(c)
  PROVE  IInv'
<1> DEFINE k == [call[c] EXCEPT !.stage = "write",
                                !.found = call[c].trade \in rows["postgresql"]]
<1>1. call[c] \in CallRecords /\ call[c].svc = "recorder-java"
  BY UnderWay DEF IInv, JavaFind, Serves
<1>2. call' = [call EXCEPT ![c] = k]
  BY DEF JavaFind
<1>3. k \in CallRecords
  <2>1. "write" \in Stages /\ (call[c].trade \in rows["postgresql"]) \in BOOLEAN
    BY DEF Stages
  <2> QED BY <1>1, <2>1, RecordTyped, ZenonT(60)
<1>4. Good(k, rows')
  BY <1>1 DEF Good, InTable, DbOf, JavaFind, CallRecords
<1>5. RowsGrow
  BY SameRows DEF JavaFind
<1> HIDE DEF k
<1> QED
  BY <1>2, <1>3, <1>4, <1>5, InvFrom
  DEF JavaFind, IInv, TypeOK, NotifierFindsTrade, CallStates

(* The write of recorder-java: done, or refused.                           *)
LEMMA JavaWriteStep ==
  ASSUME IInv, NEW c \in Calls, JavaWrite(c) \/ JavaWriteFails(c)
  PROVE  IInv'
<1> DEFINE done   == [call[c] EXCEPT !.stage = "notify"]
           failed == [call[c] EXCEPT !.stage = "reply", !.err = TRUE, !.status = 500]
<1>1. /\ call[c] \in CallRecords /\ ~At(c, "free") /\ Good(call[c], rows)
      /\ call[c] # NoCall /\ At(c, "write") /\ call[c].svc = "recorder-java"
  BY UnderWay DEF IInv, JavaWrite, JavaWriteFails, Serves, CallsAreGood
<1>2. done \in CallRecords /\ failed \in CallRecords
  <2>1. done \in CallRecords
    BY <1>1 DEF CallRecords, Stages
  <2>2. "reply" \in Stages /\ TRUE \in BOOLEAN /\ 500 \in {0, 200, 500, 504}
    BY DEF Stages
  <2>3. [call[c] EXCEPT !.stage = "reply", !.err = TRUE] \in CallRecords
    BY <1>1, <2>2, RecordTyped, ZenonT(60)
  <2>4. failed = [[call[c] EXCEPT !.stage = "reply", !.err = TRUE] EXCEPT !.status = 500]
    OBVIOUS
  <2>5. \A k \in CallRecords : [k EXCEPT !.status = 500] \in CallRecords
    BY DEF CallRecords
  <2>6. failed \in CallRecords
    BY <2>3, <2>4, <2>5, ZenonT(60)
  <2> QED BY <2>1, <2>6
<1>3. \A tables : Good(failed, tables)
  BY <1>1 DEF Good, CallRecords
<1>4. InTable(call[c], rows') => Good(done, rows')
  BY <1>1 DEF Good, InTable, CallRecords
<1>5. call[c].found => InTable(call[c], rows)
  BY <1>1 DEF Good, At
<1>6. \/ RowsGrow /\ InTable(call[c], rows') /\ call' = [call EXCEPT ![c] = done]
      \/ RowsGrow /\ call' = [call EXCEPT ![c] = failed]
  <2>1. CASE JavaWriteFails(c)
    <3>1. call' = [call EXCEPT ![c] = failed]
      BY <2>1, ZenonT(60) DEF JavaWriteFails
    <3>2. RowsGrow
      BY <2>1, <1>1, SameRows, InsertGrows DEF JavaWriteFails
    <3> QED BY <3>1, <3>2
  <2>2. CASE JavaWrite(c) /\ (call[c].found \/ Insertable(c))
    BY <2>2, <1>1, <1>5, InsertGrows DEF JavaWrite
  <2>3. CASE JavaWrite(c) /\ ~(call[c].found \/ Insertable(c))
    <3>1. call' = [call EXCEPT ![c] = failed]
      BY <2>3, ZenonT(60) DEF JavaWrite
    <3>2. RowsGrow
      BY <2>3, SameRows DEF JavaWrite
    <3> QED BY <3>1, <3>2
  <2> QED BY <2>1, <2>2, <2>3
<1>7. faults' \in 0 .. MaxFaults
  BY FaultTyped DEF JavaWrite, JavaWriteFails, IInv, TypeOK
<1> HIDE DEF done, failed
<1> QED
  BY <1>2, <1>3, <1>4, <1>6, <1>7, InvFrom
  DEF JavaWrite, JavaWriteFails, IInv, TypeOK, NotifierFindsTrade, CallStates

(* The INSERT of the Go recorders: done, or its error is kept.             *)
LEMMA GoWriteStep ==
  ASSUME IInv, NEW c \in Calls, GoInsert(c) \/ GoInsertFails(c)
  PROVE  IInv'
<1> DEFINE After(err) == [call[c] EXCEPT !.stage = "notify", !.err = err]
<1>1. /\ call[c] \in CallRecords /\ ~At(c, "free") /\ Good(call[c], rows)
      /\ call[c] # NoCall /\ At(c, "write") /\ call[c].svc # "recorder-java"
  BY UnderWay DEF IInv, GoInsert, GoInsertFails, Serves, CallsAreGood
<1>2. \A err \in BOOLEAN : After(err) \in CallRecords
  BY <1>1, ZenonT(60) DEF CallRecords, Stages
<1>3. Good(After(TRUE), rows')
  BY <1>1 DEF Good, CallRecords
<1>4. InTable(call[c], rows') => Good(After(FALSE), rows')
  BY <1>1 DEF Good, InTable, CallRecords
<1>5. \/ /\ RowsGrow /\ InTable(call[c], rows')
         /\ call' = [call EXCEPT ![c] = After(FALSE)]
      \/ RowsGrow /\ call' = [call EXCEPT ![c] = After(TRUE)]
  BY <1>1, SameRows, InsertGrows DEF GoInsert, GoInsertFails
<1>6. faults' \in 0 .. MaxFaults
  BY FaultTyped DEF GoInsert, GoInsertFails, IInv, TypeOK
<1> HIDE DEF After
<1> QED
  BY <1>2, <1>3, <1>4, <1>5, <1>6, InvFrom
  DEF GoInsert, GoInsertFails, IInv, TypeOK, NotifierFindsTrade, CallStates

(* The call of the notifier and the answer after it.                       *)
LEMMA NotifyStep ==
  ASSUME IInv, NEW c \in Calls,
         JavaNotify(c) \/ ZeroNotify(c) \/ GoNotify(c) \/ GoNotifyPanics(c)
  PROVE  IInv'
<1> DEFINE After(status) == [call[c] EXCEPT !.stage = "reply", !.status = status]
<1>1. /\ call[c] \in CallRecords /\ Good(call[c], rows)
      /\ call[c] # NoCall /\ At(c, "notify") /\ call[c].trade \in Trades
      /\ call[c].svc \in Services
  BY UnderWay DEF IInv, JavaNotify, ZeroNotify, GoNotify, GoNotifyPanics, Serves,
                  CallsAreGood
<1>2. After(200) \in CallRecords /\ After(500) \in CallRecords
  <2>1. "reply" \in Stages /\ 200 \in {0, 200, 500, 504} /\ 500 \in {0, 200, 500, 504}
    BY DEF Stages
  <2>2. call[c] \in CallRecords
    BY <1>1
  <2> DEFINE asked == [call[c] EXCEPT !.stage = "reply"]
  <2>3. asked \in CallRecords
    BY <2>1, <2>2, RecordTyped, ZenonT(60)
  <2>4. /\ After(200) = [asked EXCEPT !.status = 200]
        /\ After(500) = [asked EXCEPT !.status = 500]
    OBVIOUS
  <2> HIDE DEF asked
  <2>5. \A k \in CallRecords :
          /\ [k EXCEPT !.status = 200] \in CallRecords
          /\ [k EXCEPT !.status = 500] \in CallRecords
    BY DEF CallRecords
  <2>6. /\ [asked EXCEPT !.status = 200] \in CallRecords
        /\ [asked EXCEPT !.status = 500] \in CallRecords
    BY <2>3, <2>5, ZenonT(60)
  <2> QED BY <2>4, <2>5, <2>6
<1>3. Good(After(500), rows)
  BY <1>1 DEF Good, CallRecords
<1>4. call[c].svc = "recorder-java" \/ ~call[c].err => Good(After(200), rows)
  BY <1>1 DEF Good, InTable, At, CallRecords
<1>5. \/ /\ call' = [call EXCEPT ![c] = After(200)]
         /\ call[c].svc = "recorder-java" \/ ~call[c].err
      \/ call' = [call EXCEPT ![c] = After(500)]
  <2>1. CASE JavaNotify(c)
    <3>1. call' = [call EXCEPT ![c] = After(200)]
      BY <2>1 DEF JavaNotify
    <3> QED BY <2>1, <3>1 DEF JavaNotify, Serves
  <2>2. CASE GoNotifyPanics(c)
    BY <2>2, ZenonT(60) DEF GoNotifyPanics
  <2>3. CASE ZeroNotify(c) \/ GoNotify(c)
    <3>1. call' = [call EXCEPT ![c] = After(StatusOf(c))]
      BY <2>3 DEF ZeroNotify, GoNotify
    <3>2. StatusOf(c) = 500 \/ (StatusOf(c) = 200 /\ ~call[c].err)
      BY <1>1 DEF StatusOf, CallRecords
    <3> QED BY <3>1, <3>2
  <2> QED BY <2>1, <2>2, <2>3
<1>6. UNCHANGED <<rows, routed>> /\ (Notified(c) \/ NotifyFailed(c))
  BY DEF JavaNotify, ZeroNotify, GoNotify, GoNotifyPanics
<1>7. Asks(c) => Sees(c)
  BY <1>1 DEF Asks, Sees, Good, At, InTable, DbOf
<1>8. Sees(c) => call[c].trade \notin Refused
  BY DEF Sees, IInv, RowsAreAllowed, Databases
<1>9. /\ faults' \in 0 .. MaxFaults /\ notified' \subseteq Services \X Trades
      /\ sold' \subseteq Trades /\ missed' \subseteq Trades /\ NotifierFindsTrade'
  <2>1. CASE Notified(c)
    BY <2>1, <1>1, <1>7, <1>8, FaultTyped DEF Notified, IInv, TypeOK, NotifierFindsTrade
  <2>2. CASE NotifyFailed(c)
    BY <2>2, FaultTyped DEF NotifyFailed, IInv, TypeOK, NotifierFindsTrade
  <2> QED BY <1>6, <2>1, <2>2
<1>10. RowsGrow /\ rows' = rows
  BY <1>6, SameRows
<1>11. routed' \in [Trades -> 0 .. MaxRoutes]
  BY <1>6 DEF IInv, TypeOK
<1> HIDE DEF After
<1> QED
  BY <1>2, <1>3, <1>4, <1>5, <1>9, <1>10, <1>11, InvFrom DEF CallStates

(* A crash turns every call of the recorder into a 504 or drops it.        *)
LEMMA CrashStep ==
  ASSUME IInv, NEW svc \in Services, RecorderCrash(svc)
  PROVE  IInv'
<1> DEFINE cut(c) == [call[c] EXCEPT !.stage = "reply", !.status = 504]
<1>1. ASSUME NEW c \in Calls
      PROVE  call'[c] \in CallStates /\ Good(call'[c], rows)
  <2>1. call'[c] = call[c] \/ call'[c] = NoCall \/ (~At(c, "free") /\ call'[c] = cut(c))
    BY DEF RecorderCrash, Serves
  <2>2. CASE call'[c] = call[c]
    BY <2>2 DEF IInv, TypeOK, CallStates, CallsAreGood
  <2>3. CASE call'[c] = NoCall
    BY <2>3 DEF CallStates, Good
  <2>4. CASE ~At(c, "free") /\ call'[c] = cut(c)
    <3>1. call[c] \in CallRecords /\ Good(call[c], rows) /\ call[c] # NoCall
      BY <2>4, UnderWay DEF IInv, CallsAreGood
    <3>2. cut(c) \in CallRecords
      <4>1. "reply" \in Stages /\ 504 \in {0, 200, 500, 504}
        BY DEF Stages
      <4> QED BY <3>1, <4>1, RecordTyped, ZenonT(60)
    <3>3. Good(cut(c), rows)
      BY <3>1 DEF Good, CallRecords
    <3> QED BY <2>4, <3>2, <3>3 DEF CallStates
  <2> QED BY <2>1, <2>2, <2>3, <2>4
<1>2. call' \in [Calls -> CallStates]
  <2>1. call' = [c \in Calls |-> call'[c]]
    BY DEF RecorderCrash
  <2> QED BY <2>1, <1>1
<1>3. CallsAreGood'
  BY <1>1 DEF CallsAreGood, RecorderCrash
<1>4. faults' \in 0 .. MaxFaults
  BY FaultTyped DEF RecorderCrash
<1> QED
  BY <1>2, <1>3, <1>4
  DEF RecorderCrash, IInv, TypeOK, CallStates, RowsAreAllowed, NotifierFindsTrade

-----------------------------------------------------------------------------
(* Every step keeps the invariant. *)
LEMMA InvStep == IInv /\ [Next]_vars => IInv'
<1> SUFFICES ASSUME IInv, [Next]_vars PROVE IInv'
  OBVIOUS
<1>1. CASE Work
  BY <1>1, FindStep, JavaWriteStep, GoWriteStep, NotifyStep, ReplyStep, CrashStep DEF Work
<1>2. ASSUME NEW c \in Calls, Reply(c) \/ Timeout(c) \/ CallerGone(c) PROVE IInv'
  BY <1>2, ReplyStep, DisconnectStep
<1>3. ASSUME NEW c \in Calls, NEW t \in Trades, Route(c, t) PROVE IInv'
  BY <1>3, RouteStep
<1>4. CASE UNCHANGED vars
  BY <1>4 DEF vars, IInv, TypeOK, RowsAreAllowed, CallsAreGood, NotifierFindsTrade
<1> QED
  BY <1>1, <1>2, <1>3, <1>4 DEF Next

(* The invariant holds in every reachable state. *)
LEMMA Invariance == RecordersAssumption /\ Spec => []IInv
  BY InitInv, InvStep, PTL DEF Spec

(* Every variable keeps its range. *)
THEOREM TypeCorrect == RecordersAssumption /\ Spec => []TypeOK
<1>1. IInv => TypeOK
  BY DEF IInv
<1> QED BY <1>1, Invariance, PTL

(* All three recorders answer 200 only for a trade that is in the table,   *)
(* whatever other calls, timeouts and crashes happen around the write.     *)
THEOREM OkIsRecorded == RecordersAssumption /\ Spec => []OkMeansRecorded
<1>1. IInv => OkMeansRecorded
  <2> SUFFICES ASSUME IInv, NEW c \in Calls, At(c, "reply"), call[c].status = 200
               PROVE  InTable(call[c], rows)
    BY DEF OkMeansRecorded, InTable
  <2>1. Good(call[c], rows) /\ call[c] # NoCall
    BY UnderWay DEF IInv, CallsAreGood, At
  <2> QED BY <2>1 DEF Good, At
<1> QED BY <1>1, Invariance, PTL

(* The notifier finds every trade it is asked about, and announces none    *)
(* that the tables refuse.                                                 *)
THEOREM NotifierFinds == RecordersAssumption /\ Spec => []NotifierFindsTrade
<1>1. IInv => NotifierFindsTrade
  BY DEF IInv
<1> QED BY <1>1, Invariance, PTL

-----------------------------------------------------------------------------
(* What is known of a trade that was routed at most once: the second       *)
(* invariant, about the number of calls behind a row and behind an answer. *)

For(c, t) == ~At(c, "free") /\ call[c].trade = t

(* A trade that was never routed has left no trace; one that was routed    *)
(* once has at most one call, which writes to one database only.           *)
Traced ==
  \A t \in Trades :
    /\ routed[t] = 0 =>
         (\A c \in Calls : ~For(c, t)) /\ \A d \in Databases : t \notin rows[d]
    /\ routed[t] = 1 =>
         /\ \A b, c \in Calls : For(b, t) /\ For(c, t) => b = c
         /\ \A c \in Calls, d \in Databases :
              For(c, t) /\ t \in rows[d] => d = DbOf(call[c].svc)
         /\ t \notin rows["postgresql"] \cap rows["mysql"]

(* A call that its caller waits for goes well, if the tables allow the     *)
(* trade.                                                                  *)
GoesWell(k, tables) ==
  k.waiting /\ k.trade \notin Refused =>
    /\ ~k.err
    /\ k.stage \in {"find", "write"} => ~k.found /\ ~InTable(k, tables)
    /\ k.stage = "reply" => k.status = 200

(* As long as nothing has failed, the only call for a trade does.          *)
Smooth ==
  faults = 0 =>
    \A c \in Calls :
      ~At(c, "free") /\ routed[call[c].trade] = 1 => GoesWell(call[c], rows)

(* An answer has a status. *)
Answered == \A c \in Calls : At(c, "reply") => call[c].status # 0

(* The invariant. *)
RouteInv == Traced /\ Smooth /\ Answered

(* What a step does to one call: it ends it or keeps its trade and its     *)
(* service.                                                                *)
Keeps(c) ==
  \/ call'[c] = NoCall
  \/ /\ call'[c].trade = call[c].trade /\ call'[c].svc = call[c].svc
     /\ ~At(c, "free") /\ ~At(c, "free")'
     /\ call'[c].stage = "reply" => call'[c].status # 0

(* A step of one call c.                                                   *)
Moves(c) ==
  /\ ~At(c, "free") /\ UNCHANGED routed
  /\ UNCHANGED rows \/ InsertRow(c)
  /\ \A d \in Calls : d # c => call'[d] = call[d]
  /\ Keeps(c)
  /\ faults' = 0 => faults = 0
  /\ faults' = 0 /\ GoesWell(call[c], rows) /\ call'[c] # NoCall
       => GoesWell(call'[c], rows')

(* Each step of a call's recorder or caller is such a step.                *)
LEMMA CallMoves ==
  ASSUME IInv, IInv', Answered, NEW c \in Calls,
         \/ JavaFind(c) \/ JavaWrite(c) \/ JavaWriteFails(c) \/ JavaNotify(c)
         \/ GoInsert(c) \/ GoInsertFails(c) \/ ZeroNotify(c)
         \/ GoNotify(c) \/ GoNotifyPanics(c) \/ ReplyUnheard(c)
         \/ Reply(c) \/ Timeout(c) \/ CallerGone(c)
  PROVE  Moves(c)
<1>1. ~At(c, "free")
  BY UnderWay
  DEF IInv, JavaFind, JavaWrite, JavaWriteFails, JavaNotify, GoInsert, GoInsertFails,
      ZeroNotify, GoNotify, GoNotifyPanics, ReplyUnheard, Reply, Timeout, CallerGone,
      Disconnect, Serves, At
<1>2. /\ call[c] \in CallRecords /\ faults \in Nat
      /\ call \in [Calls -> CallRecords \cup {NoCall}]
  BY <1>1, UnderWay DEF IInv, RecordersAssumption, TypeOK
<1>3. UNCHANGED routed /\ \A d \in Calls : d # c => call'[d] = call[d]
  BY <1>2
  DEF JavaFind, JavaWrite, JavaWriteFails, JavaNotify, GoInsert, GoInsertFails,
      ZeroNotify, GoNotify, GoNotifyPanics, ReplyUnheard, Reply, Timeout, CallerGone,
      Disconnect
<1>4. UNCHANGED rows \/ InsertRow(c)
  BY DEF JavaFind, JavaWrite, JavaWriteFails, JavaNotify, GoInsert, GoInsertFails,
      ZeroNotify, GoNotify, GoNotifyPanics, ReplyUnheard, Reply, Timeout, CallerGone,
      Disconnect
<1>5. faults' = 0 => faults = 0
  BY <1>2
  DEF JavaFind, JavaWrite, JavaWriteFails, JavaNotify, GoInsert, GoInsertFails,
      ZeroNotify, GoNotify, GoNotifyPanics, ReplyUnheard, Reply, Timeout, CallerGone,
      Disconnect, Notified, NotifyFailed, Fault
<1>6. Keeps(c) /\ (faults' = 0 /\ GoesWell(call[c], rows) /\ call'[c] # NoCall
                     => GoesWell(call'[c], rows'))
  <2> USE <1>1, <1>2 DEF CallRecords, Stages, Keeps, GoesWell, At
  <2>1. CASE JavaFind(c)
    BY <2>1 DEF JavaFind, Serves, InTable, DbOf
  <2>2. CASE JavaWrite(c)
    BY <2>2 DEF JavaWrite, Serves, Insertable, InTable
  <2>3. CASE JavaWriteFails(c)
    BY <2>3 DEF JavaWriteFails, Fault
  <2>4. CASE JavaNotify(c)
    BY <2>4 DEF JavaNotify
  <2>5. CASE GoInsert(c)
    BY <2>5 DEF GoInsert, Insertable, InTable
  <2>6. CASE GoInsertFails(c)
    BY <2>6 DEF GoInsertFails, Fault
  <2>7. CASE ZeroNotify(c) \/ GoNotify(c)
    BY <2>7 DEF ZeroNotify, GoNotify, StatusOf
  <2>8. CASE GoNotifyPanics(c)
    BY <2>8 DEF GoNotifyPanics, NotifyFailed, Fault
  <2>9. CASE ReplyUnheard(c) \/ Reply(c)
    BY <2>9 DEF ReplyUnheard, Reply
  <2>10. CASE Timeout(c) \/ CallerGone(c)
    BY <2>10 DEF Timeout, CallerGone, Disconnect, Answered
  <2> QED BY <2>1, <2>2, <2>3, <2>4, <2>5, <2>6, <2>7, <2>8, <2>9, <2>10
<1> QED BY <1>1, <1>3, <1>4, <1>5, <1>6 DEF Moves

(* A step of one call keeps the invariant.                                 *)
LEMMA MovesKeeps ==
  ASSUME IInv, IInv', RouteInv, NEW c \in Calls, Moves(c)
  PROVE  RouteInv'
<1>1. /\ call[c].trade \in Trades /\ DbOf(call[c].svc) \in Databases
      /\ rows \in [Databases -> SUBSET Trades] /\ UNCHANGED routed
  BY UnderWay DEF IInv, TypeOK, Moves
<1>2. /\ \A d \in Calls, t \in Trades : For(d, t)' => For(d, t)
      /\ \A d \in Calls, t \in Trades : For(d, t)' => call'[d].svc = call[d].svc
  BY DEF Moves, Keeps, For, At, NoCall
<1>3. \A d \in Databases, t \in Trades :
        t \in rows'[d] => \/ t \in rows[d]
                          \/ t = call[c].trade /\ d = DbOf(call[c].svc)
  BY <1>1 DEF Moves, InsertRow
<1>4. For(c, call[c].trade)
  BY DEF Moves, For
<1>5. Traced'
  <2> SUFFICES ASSUME NEW t \in Trades
        PROVE
          /\ routed[t] = 0 =>
               (\A b \in Calls : ~For(b, t)') /\ \A d \in Databases : t \notin rows'[d]
          /\ routed[t] = 1 =>
               /\ \A b, e \in Calls : For(b, t)' /\ For(e, t)' => b = e
               /\ \A b \in Calls, d \in Databases :
                    For(b, t)' /\ t \in rows'[d] => d = DbOf(call'[b].svc)
               /\ t \notin rows'["postgresql"] \cap rows'["mysql"]
    BY <1>1 DEF Traced
  <2>1. /\ routed[t] = 0 =>
             (\A b \in Calls : ~For(b, t)) /\ \A d \in Databases : t \notin rows[d]
        /\ routed[t] = 1 =>
             /\ \A b, e \in Calls : For(b, t) /\ For(e, t) => b = e
             /\ \A b \in Calls, d \in Databases :
                  For(b, t) /\ t \in rows[d] => d = DbOf(call[b].svc)
             /\ t \notin rows["postgresql"] \cap rows["mysql"]
    BY DEF RouteInv, Traced
  <2>2. CASE t # call[c].trade
    BY <2>1, <2>2, <1>2, <1>3 DEF Databases
  <2>3. CASE t = call[c].trade
    BY <2>1, <2>3, <1>2, <1>3, <1>4 DEF Databases
  <2> QED BY <2>2, <2>3
<1>6. Smooth'
  <2> SUFFICES ASSUME faults' = 0, NEW b \in Calls, ~At(b, "free")',
                      routed[call'[b].trade] = 1
               PROVE  GoesWell(call'[b], rows')
    BY <1>1 DEF Smooth
  <2>1. CASE b = c
    <3>1. call'[c] # NoCall /\ call'[c].trade = call[c].trade
      BY <2>1 DEF Moves, Keeps, At, NoCall
    <3>2. GoesWell(call[c], rows)
      BY <3>1, <2>1 DEF Moves, RouteInv, Smooth
    <3> QED BY <3>1, <3>2, <2>1 DEF Moves
  <2>2. CASE b # c
    <3>1. call'[b] = call[b]
      BY <2>2 DEF Moves
    <3>2. GoesWell(call[b], rows) /\ ~At(b, "free")
      BY <3>1 DEF Moves, RouteInv, Smooth, At
    <3>3. call[b].trade \in Trades /\ DbOf(call[b].svc) \in Databases
      BY <3>2, UnderWay DEF IInv
    <3>4. call[b].trade # call[c].trade
      BY <3>1, <3>2, <3>3, <2>2, <1>4 DEF RouteInv, Traced, For
    <3>5. InTable(call[b], rows') => InTable(call[b], rows)
      BY <3>3, <3>4, <1>3 DEF InTable
    <3> QED BY <3>1, <3>2, <3>5 DEF GoesWell
  <2> QED BY <2>1, <2>2
<1>7. Answered'
  BY DEF Moves, Keeps, RouteInv, Answered, At, NoCall
<1> QED BY <1>5, <1>6, <1>7 DEF RouteInv

(* A crash fails, so nothing is promised of the answers any more.          *)
LEMMA CrashKeeps ==
  ASSUME IInv, IInv', RouteInv, NEW svc \in Services, RecorderCrash(svc)
  PROVE  RouteInv'
<1>1. UNCHANGED <<rows, routed>> /\ faults' # 0
  <2>1. faults \in Nat
    BY DEF IInv, RecordersAssumption, TypeOK
  <2>2. UNCHANGED <<rows, routed>> /\ faults' = faults + 1
    BY Zenon DEF RecorderCrash, Fault
  <2> QED BY <2>1, <2>2
<1>2. ASSUME NEW c \in Calls
      PROVE  call'[c] = call[c] \/ Keeps(c)
  <2>1. CASE ~Serves(c, svc)
    BY <2>1 DEF RecorderCrash
  <2>2. CASE Serves(c, svc) /\ ~call[c].waiting
    BY <2>2 DEF RecorderCrash, Keeps
  <2>3. CASE Serves(c, svc) /\ call[c].waiting
    <3>1. call[c] \in CallRecords /\ ~At(c, "free")
      BY <2>3, UnderWay DEF IInv, Serves
    <3>2. call'[c] = [call[c] EXCEPT !.stage = "reply", !.status = 504]
      BY <2>3 DEF RecorderCrash
    <3> QED BY <3>1, <3>2 DEF Keeps, CallRecords, At
  <2> QED BY <2>1, <2>2, <2>3
<1>3. /\ \A d \in Calls, t \in Trades : For(d, t)' => For(d, t)
      /\ \A d \in Calls, t \in Trades : For(d, t)' => call'[d].svc = call[d].svc
  BY <1>2 DEF Keeps, For, At, NoCall
<1>4. Traced'
  BY <1>1, <1>3 DEF RouteInv, Traced
<1>5. Smooth'
  BY <1>1 DEF Smooth
<1>6. Answered'
  BY <1>2 DEF Keeps, RouteInv, Answered, At, NoCall
<1> QED BY <1>4, <1>5, <1>6 DEF RouteInv

(* The router counts the call before it opens it.                          *)
LEMMA RouteKeeps ==
  ASSUME IInv, IInv', RouteInv, NEW c \in Calls, NEW t \in Trades, Route(c, t)
  PROVE  RouteInv'
<1> PICK svc \in Routes[t] : call' = [call EXCEPT ![c] = CallOf(t, svc)]
  BY DEF Route
<1> DEFINE k == CallOf(t, svc)
<1>1. /\ k.trade = t /\ k.svc = svc /\ ~k.err /\ ~k.found
      /\ k.stage \in {"find", "write"} /\ k # NoCall
  BY DEF CallOf, NoCall
<1>2. /\ At(c, "free") /\ UNCHANGED <<rows, faults>> /\ routed'[t] = routed[t] + 1
      /\ \A u \in Trades : u # t => routed'[u] = routed[u]
      /\ \A u \in Trades : routed[u] \in Nat
  BY DEF Route, IInv, RecordersAssumption, TypeOK
<1>3. call'[c] = k /\ \A d \in Calls : d # c => call'[d] = call[d]
  BY DEF IInv, TypeOK
<1> HIDE DEF k
<1>4. \A d \in Calls, u \in Trades : d # c \/ u # t => (For(d, u)' => For(d, u))
  BY <1>1, <1>3 DEF For, At
<1>5. Traced'
  <2> SUFFICES ASSUME NEW u \in Trades
        PROVE
          /\ routed'[u] = 0 =>
               (\A b \in Calls : ~For(b, u)') /\ \A d \in Databases : u \notin rows[d]
          /\ routed'[u] = 1 =>
               /\ \A b, e \in Calls : For(b, u)' /\ For(e, u)' => b = e
               /\ \A b \in Calls, d \in Databases :
                    For(b, u)' /\ u \in rows[d] => d = DbOf(call'[b].svc)
               /\ u \notin rows["postgresql"] \cap rows["mysql"]
    BY <1>2 DEF Traced
  <2>1. /\ routed[u] = 0 =>
             (\A b \in Calls : ~For(b, u)) /\ \A d \in Databases : u \notin rows[d]
        /\ routed[u] = 1 =>
             /\ \A b, e \in Calls : For(b, u) /\ For(e, u) => b = e
             /\ \A b \in Calls, d \in Databases :
                  For(b, u) /\ u \in rows[d] => d = DbOf(call[b].svc)
             /\ u \notin rows["postgresql"] \cap rows["mysql"]
    BY DEF RouteInv, Traced
  <2>2. CASE u # t
    <3>1. \A b \in Calls : For(b, u)' => b # c /\ For(b, u) /\ call'[b] = call[b]
      BY <2>2, <1>1, <1>3, <1>4 DEF For
    <3> QED BY <3>1, <2>1, <2>2, <1>2
  <2>3. CASE u = t
    BY <2>1, <2>3, <1>2, <1>4 DEF Databases
  <2> QED BY <2>2, <2>3
<1>6. Smooth'
  <2> SUFFICES ASSUME faults = 0, NEW b \in Calls, ~At(b, "free")',
                      routed'[call'[b].trade] = 1
               PROVE  GoesWell(call'[b], rows)
    BY <1>2 DEF Smooth
  <2>1. CASE b = c
    <3>1. routed[t] = 0
      BY <2>1, <1>1, <1>2, <1>3
    <3>2. \A d \in Databases : t \notin rows[d]
      BY <3>1 DEF RouteInv, Traced
    <3>3. ~InTable(k, rows)
      BY <3>2, <1>1 DEF InTable, DbOf, Databases
    <3> QED BY <3>3, <2>1, <1>1, <1>3 DEF GoesWell
  <2>2. CASE b # c
    <3>1. call'[b] = call[b] /\ ~At(b, "free")
      BY <2>2, <1>3 DEF At
    <3>2. call[b].trade \in Trades
      BY <3>1, UnderWay DEF IInv
    <3>3. call[b].trade # t
      BY <3>1, <3>2, <1>2 DEF RouteInv, Traced, For
    <3> QED BY <3>1, <3>2, <3>3, <1>2 DEF RouteInv, Smooth
  <2> QED BY <2>1, <2>2
<1>7. Answered'
  BY <1>1, <1>3 DEF RouteInv, Answered, At
<1> QED BY <1>5, <1>6, <1>7 DEF RouteInv

(* The second invariant holds initially and is kept by every step.         *)
LEMMA InitRouteInv == Init => RouteInv
  BY DEF Init, RouteInv, Traced, Smooth, Answered, For, At, NoCall, Databases

(* Every step keeps it, given the first.                                   *)
LEMMA RouteInvStep == IInv /\ IInv' /\ RouteInv /\ [Next]_vars => RouteInv'
<1> SUFFICES ASSUME IInv, IInv', RouteInv, [Next]_vars PROVE RouteInv'
  OBVIOUS
<1>1. CASE Work
  BY <1>1, CallMoves, MovesKeeps, CrashKeeps DEF Work, RouteInv
<1>2. ASSUME NEW c \in Calls, Reply(c) \/ Timeout(c) \/ CallerGone(c) PROVE RouteInv'
  BY <1>2, CallMoves, MovesKeeps DEF RouteInv
<1>3. ASSUME NEW c \in Calls, NEW t \in Trades, Route(c, t) PROVE RouteInv'
  BY <1>3, RouteKeeps
<1>4. CASE UNCHANGED vars
  BY <1>4 DEF vars, RouteInv, Traced, Smooth, Answered, For, At, GoesWell, InTable
<1> QED BY <1>1, <1>2, <1>3, <1>4 DEF Next

(* So it holds in every reachable state. *)
LEMMA RouteInvariance == RecordersAssumption /\ Spec => []RouteInv
  BY InitRouteInv, RouteInvStep, Invariance, PTL DEF Spec

(* A trade that the router has seen once is in one database at most.       *)
THEOREM OneRouteOneDatabase ==
  RecordersAssumption /\ Spec =>
    [](\A t \in rows["postgresql"] \cap rows["mysql"] : routed[t] >= 2)
<1>1. IInv /\ RouteInv => \A t \in rows["postgresql"] \cap rows["mysql"] : routed[t] >= 2
  <2> SUFFICES ASSUME IInv, RouteInv, NEW t \in rows["postgresql"] \cap rows["mysql"]
               PROVE  routed[t] >= 2
    OBVIOUS
  <2>1. t \in Trades /\ routed[t] \in Nat
    BY DEF IInv, RecordersAssumption, TypeOK, Databases
  <2> QED BY <2>1 DEF RouteInv, Traced, Databases
<1> QED BY <1>1, Invariance, RouteInvariance, PTL
=============================================================================
