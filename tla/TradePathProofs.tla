--------------------------- MODULE TradePathProofs ---------------------------
(***************************************************************************)
(* What TradePath.tla says of the whole path, proved for any trades, any   *)
(* routes and any failures.  The path implements both of its parts, so     *)
(* their invariants hold of it; what is proved here by induction is what   *)
(* ties them together: the call that is awaited, the records of the log,   *)
(* and the number of times the router has seen each of them.               *)
(***************************************************************************)
EXTENDS TradePath, FiniteSetTheorems, TLAPS

PP == INSTANCE ProcessorProofs
RR == INSTANCE RecordersProofs

-----------------------------------------------------------------------------
(* The two parts.                                                          *)

(* Every step of the path is a step of the processor or none ...           *)
LEMMA StepOfProcessor == [Next]_vars => [P!Next]_(P!vars)
<1> SUFFICES ASSUME [Next]_vars PROVE P!Next \/ UNCHANGED P!vars
  OBVIOUS
<1>1. CASE Send
  BY <1>1 DEF Send, P!Next, P!Thread
<1>2. CASE Answered
  <2>1. P!RelayReturn(TRUE) \/ P!RelayReturn(FALSE)
    BY <1>2 DEF Answered, P!RelayReturn
  <2> QED BY <2>1 DEF P!Next
<1>3. CASE TimedOut
  BY <1>3 DEF TimedOut, P!Next
<1>4. CASE Kill
  BY <1>4 DEF Kill, P!Next
<1>5. CASE ProcessorStep
  BY <1>5 DEF ProcessorStep, P!Next, P!Thread
<1>6. CASE RecorderStep \/ UNCHANGED vars
  BY <1>6
  DEF RecorderStep, vars, processorVars, P!vars, P!brokerVars, P!threadVars, P!histVars
<1> QED BY <1>1, <1>2, <1>3, <1>4, <1>5, <1>6 DEF Next

(* The assumptions of the parts are the path's, and the operators they     *)
(* take from FiniteSets are the same.                                      *)
LEMMA SameSets ==
  /\ PP!IsFiniteSet(Trades) /\ R!Services = RR!Services
  /\ P!Cardinality(Trades) = PP!Cardinality(Trades)
  /\ P!Cardinality(Trades) = Cardinality(Trades)
<1>1. PP!IsFiniteSet(Trades)
  BY TradePathAssumption DEF IsFiniteSet, PP!IsFiniteSet
<1>2. /\ P!Cardinality(Trades) = PP!Cardinality(Trades)
      /\ P!Cardinality(Trades) = Cardinality(Trades)
  BY Zenon DEF P!Cardinality, PP!Cardinality, Cardinality
<1>3. R!Services = RR!Services
  BY DEF R!Services, RR!Services
<1> QED BY <1>1, <1>2, <1>3

(* The processor that the path is made of is the one ProcessorProofs.tla   *)
(* proves about, ...                                                       *)
LEMMA SameProcessor == P!Spec => PP!Spec
<1>1. P!Init => PP!Init
  BY SameSets DEF P!Init, PP!Init, P!NoOffset, PP!NoOffset, P!Offsets, PP!Offsets
<1>2. ASSUME [P!Next]_(P!vars) PROVE [PP!Next]_(PP!vars)
  <2> USE DEF P!brokerVars, P!histVars, P!threadVars, P!End, P!NoOffset, P!Upset,
              PP!brokerVars, PP!histVars, PP!threadVars, PP!End, PP!NoOffset, PP!Upset
  <2>1. P!Loop => PP!Loop
    BY DEF P!Loop, P!Start, P!PollJoin, P!PollOutOfRange, P!PollRecords, P!PollEmpty,
           P!PollWakeup, P!CommitDone, P!CommitWakeup, P!CommitEvicted, P!Close,
           P!Exit, P!FreshThread,
           PP!Loop, PP!Start, PP!PollJoin, PP!PollOutOfRange, PP!PollRecords,
           PP!PollEmpty, PP!PollWakeup, PP!CommitDone, PP!CommitWakeup,
           PP!CommitEvicted, PP!Close, PP!Exit, PP!FreshThread
  <2>2. P!Environment => PP!Environment
    BY DEF P!Environment, P!Notify, P!NotifySwallowed, P!Acknowledge, P!GiveUpSend,
           P!CrashOut, P!Retain, P!PollError, P!CommitTimeout, P!Shutdown, P!Evict,
           PP!Environment, PP!Notify, PP!NotifySwallowed, PP!Acknowledge,
           PP!GiveUpSend, PP!CrashOut, PP!Retain, PP!PollError, PP!CommitTimeout,
           PP!Shutdown, PP!Evict
  <2>3. P!RelayStart \/ P!Kill => PP!RelayStart \/ PP!Kill
    BY DEF P!RelayStart, P!Kill, P!FreshThread, PP!RelayStart, PP!Kill, PP!FreshThread
  <2>4. (\E ok \in BOOLEAN : P!RelayReturn(ok)) => \E ok \in BOOLEAN : PP!RelayReturn(ok)
    BY DEF P!RelayReturn, PP!RelayReturn, P!Batch, PP!Batch
  <2>5. UNCHANGED P!vars => UNCHANGED PP!vars
    BY DEF P!vars, PP!vars
  <2> QED
    BY <1>2, <2>1, <2>2, <2>3, <2>4, <2>5 DEF P!Next, P!Thread, PP!Next, PP!Thread
<1> QED BY <1>1, <1>2, PTL DEF P!Spec, PP!Spec

(* ... and so are the recorders that of RecordersProofs.tla.               *)
LEMMA SameRecorders == R!Spec => RR!Spec
<1>1. R!Init => RR!Init
  BY DEF R!Init, RR!Init, R!Databases, RR!Databases, R!NoCall, RR!NoCall
<1>2. ASSUME [R!Next]_(R!vars) PROVE [RR!Next]_(RR!vars)
  <2> USE DEF R!Serves, R!At, R!DbOf, R!NoCall, R!Fault, R!Services,
              RR!Serves, RR!At, RR!DbOf, RR!NoCall, RR!Fault, RR!Services
  <2>1. R!Work => RR!Work
    BY DEF R!Work, R!JavaFind, R!JavaWrite, R!JavaWriteFails, R!JavaNotify, R!GoInsert,
           R!GoInsertFails, R!ZeroNotify, R!GoNotify, R!GoNotifyPanics, R!ReplyUnheard,
           R!RecorderCrash, R!Insertable, R!InsertRow, R!Notified, R!NotifyFailed,
           R!Asks, R!Sees, R!StatusOf,
           RR!Work, RR!JavaFind, RR!JavaWrite, RR!JavaWriteFails, RR!JavaNotify,
           RR!GoInsert, RR!GoInsertFails, RR!ZeroNotify, RR!GoNotify,
           RR!GoNotifyPanics, RR!ReplyUnheard, RR!RecorderCrash, RR!Insertable,
           RR!InsertRow, RR!Notified, RR!NotifyFailed, RR!Asks, RR!Sees, RR!StatusOf
  <2>2. ASSUME NEW c \in Calls, R!Reply(c) \/ R!Timeout(c) \/ R!CallerGone(c)
        PROVE  RR!Reply(c) \/ RR!Timeout(c) \/ RR!CallerGone(c)
    BY <2>2 DEF R!Reply, R!Timeout, R!CallerGone, R!Disconnect,
                RR!Reply, RR!Timeout, RR!CallerGone, RR!Disconnect
  <2>3. ASSUME NEW c \in Calls, NEW t \in Trades, R!Route(c, t)
        PROVE  RR!Route(c, t)
    BY <2>3 DEF R!Route, R!CallOf, RR!Route, RR!CallOf
  <2>4. UNCHANGED R!vars => UNCHANGED RR!vars
    BY DEF R!vars, RR!vars
  <2> QED BY <1>2, <2>1, <2>2, <2>3, <2>4 DEF R!Next, RR!Next
<1> QED BY <1>1, <1>2, PTL DEF R!Spec, RR!Spec

-----------------------------------------------------------------------------
(* What the parts' own invariants say, in the words of the path.           *)
ProcessorFacts ==
  /\ P!TypeOK
  /\ pc \in {"relay", "wait"} => next <= last /\ last = position - 1
  /\ 0 .. committed - 1 \subseteq relayed \cup abandoned \cup skipped
  /\ \A o \in P!Offsets : sent[o] <= joins

(* An answer has a status, and 200 means recorded; a trade with a call has *)
(* been routed; one routed once is in one database at most, and its answer *)
(* is 200 if nothing has failed and the tables allow it.                   *)
RecorderFacts ==
  /\ R!TypeOK
  /\ \A c \in Calls : R!At(c, "reply") =>
       /\ call[c].status \in {200, 500, 504}
       /\ call[c].status = 200 => Recorded(call[c].trade)
       /\ faults = 0 /\ call[c].waiting /\ routed[call[c].trade] = 1
            /\ call[c].trade \notin Refused => call[c].status = 200
  /\ \A c \in Calls : ~R!At(c, "free") => routed[call[c].trade] # 0
  /\ \A t \in rows["postgresql"] \cap rows["mysql"] : routed[t] >= 2

(* Both follow from the invariants proved of the parts.                    *)
LEMMA ProcessorKnown == PP!IInv => ProcessorFacts
  BY SameSets
  DEF PP!IInv, PP!TypeOK, PP!BatchShape, PP!Relaying, PP!CommitCoversAccounted,
      PP!Accounted, PP!OncePerJoin, PP!End, PP!Places, PP!Offsets,
      ProcessorFacts, P!TypeOK, P!End, P!Places, P!Offsets

(* The two instances give the recorders' variables the same types.         *)
LEMMA SameTypes == RR!TypeOK => R!TypeOK
  BY DEF RR!TypeOK, RR!Databases, RR!CallRecords, RR!NoCall, RR!Services, RR!Stages,
         R!TypeOK, R!Databases, R!CallRecords, R!NoCall, R!Services, R!Stages

(* The recorders' facts follow from both of their invariants.              *)
LEMMA RecordersKnown == RR!IInv /\ RR!RouteInv => RecorderFacts
<1> SUFFICES ASSUME RR!IInv, RR!RouteInv PROVE RecorderFacts
  OBVIOUS
<1>1. R!TypeOK
  BY SameTypes DEF RR!IInv
<1>2. /\ \A t \in Trades : routed[t] \in Nat
      /\ rows["postgresql"] \subseteq Trades
  BY TradePathAssumption DEF RR!IInv, RR!TypeOK, RR!Databases
<1>3. ASSUME NEW c \in Calls, ~R!At(c, "free")
      PROVE  /\ call[c] \in RR!CallRecords /\ call[c].trade \in Trades
             /\ routed[call[c].trade] # 0
  <2>1. call[c] \in RR!CallRecords /\ call[c].trade \in Trades
    BY <1>3 DEF RR!IInv, RR!TypeOK, R!At, RR!NoCall, RR!CallRecords
  <2>2. RR!For(c, call[c].trade)
    BY <1>3 DEF RR!For, RR!At, R!At
  <2> QED BY <2>1, <2>2 DEF RR!RouteInv, RR!Traced
<1>4. ASSUME NEW c \in Calls, R!At(c, "reply")
      PROVE  /\ call[c].status \in {200, 500, 504}
             /\ call[c].status = 200 => Recorded(call[c].trade)
             /\ faults = 0 /\ call[c].waiting /\ routed[call[c].trade] = 1
                  /\ call[c].trade \notin Refused => call[c].status = 200
  <2>1. ~R!At(c, "free") /\ call[c].stage = "reply" /\ call[c].stage # "free"
    BY <1>4 DEF R!At
  <2>2. call[c] \in RR!CallRecords /\ call[c] # RR!NoCall
    BY <2>1, <1>3 DEF RR!NoCall
  <2>3. call[c].status \in {200, 500, 504}
    BY <2>1, <2>2 DEF RR!CallRecords, RR!RouteInv, RR!Answered, RR!At
  <2>4. call[c].status = 200 => Recorded(call[c].trade)
    BY <2>1, <2>2
    DEF RR!IInv, RR!CallsAreGood, RR!Good, RR!InTable, RR!DbOf, RR!CallRecords,
        RR!Services, Recorded, R!Databases
  <2>5. faults = 0 /\ call[c].waiting /\ routed[call[c].trade] = 1
          /\ call[c].trade \notin Refused => call[c].status = 200
    BY <2>1 DEF RR!RouteInv, RR!Smooth, RR!GoesWell, RR!At
  <2> QED BY <2>3, <2>4, <2>5
<1>5. ASSUME NEW t \in rows["postgresql"] \cap rows["mysql"] PROVE routed[t] >= 2
  <2>1. t \in Trades /\ routed[t] \in Nat
    BY <1>2
  <2> QED BY <2>1 DEF RR!RouteInv, RR!Traced, RR!Databases
<1> QED BY <1>1, <1>3, <1>4, <1>5 DEF RecorderFacts

(* The awaited call is one of the calls. *)
LEMMA CurrentIsCall == Spec => [](current \in Calls \cup {None})
<1>1. Init => current \in Calls \cup {None}
  BY DEF Init
<1>2. current \in Calls \cup {None} /\ [Next]_vars => (current \in Calls \cup {None})'
  BY DEF Next, Send, Answered, TimedOut, Kill, ProcessorStep, RecorderStep, vars
<1> QED BY <1>1, <1>2, PTL DEF Spec

(* A step of the path is one of router and recorders or none: what is sent *)
(* is a trade of the log.                                                  *)
LEMMA StepOfRecorders ==
  PP!IInv /\ current \in Calls \cup {None} /\ [Next]_vars => [R!Next]_(R!vars)
<1> SUFFICES ASSUME PP!IInv, current \in Calls \cup {None}, [Next]_vars
             PROVE  R!Next \/ UNCHANGED R!vars
  OBVIOUS
<1>1. CASE Send
  <2>1. PICK c \in Calls : R!Route(c, log[next + 1])
    BY <1>1 DEF Send
  <2>2. pc = "relay"
    BY <1>1 DEF Send, P!RelayStart
  <2>3. log \in Seq(Trades) /\ next + 1 \in 1 .. Len(log)
    BY <2>2
    DEF PP!IInv, PP!TypeOK, PP!BatchShape, PP!Relaying, PP!End
  <2> QED BY <2>1, <2>3 DEF R!Next
<1>2. CASE Answered \/ TimedOut
  BY <1>2 DEF Answered, TimedOut, R!Next
<1>3. CASE Kill
  BY <1>3 DEF Kill, R!Next, R!vars, recorderVars
<1>4. CASE ProcessorStep \/ UNCHANGED vars
  BY <1>4 DEF ProcessorStep, vars, recorderVars, R!vars
<1>5. CASE RecorderStep
  BY <1>5 DEF RecorderStep, R!Next
<1> QED BY <1>1, <1>2, <1>3, <1>4, <1>5 DEF Next

(* The path implements the processor and the recorders, each with its      *)
(* environment: no step of one does what the other could not see.          *)
THEOREM ImplementsParts == Spec => P!Spec /\ R!Spec
<1>1. Init => P!Init /\ R!Init
  BY DEF Init
<1>2. Spec => P!Spec
  BY <1>1, StepOfProcessor, PTL DEF Spec, P!Spec
<1>3. PP!Spec => []PP!IInv
  BY TradePathAssumption, SameSets, PP!Invariance
<1> QED
  BY <1>1, <1>2, <1>3, SameProcessor, CurrentIsCall, StepOfRecorders, PTL
  DEF Spec, R!Spec

(* What the recorders assume of their constants holds on the path.         *)
LEMMA ConstantsFit == RR!RecordersAssumption
  BY TradePathAssumption, SameSets DEF RR!RecordersAssumption

(* So what is known of the parts is known of the path.                     *)
LEMMA PartsKnown == Spec => [](ProcessorFacts /\ RecorderFacts)
<1>1. PP!Spec => []PP!IInv
  BY TradePathAssumption, SameSets, PP!Invariance
<1>2. RR!Spec => []RR!IInv
  BY ConstantsFit, RR!Invariance, PTL
<1>3. RR!Spec => []RR!RouteInv
  BY ConstantsFit, RR!RouteInvariance, PTL
<1> QED
  BY <1>1, <1>2, <1>3, ImplementsParts, SameProcessor, SameRecorders, ProcessorKnown,
     RecordersKnown, PTL

-----------------------------------------------------------------------------
(* What ties the parts together.                                           *)

(* httpNotify waits for one call, which carries the record it is sending.  *)
AwaitsOne ==
  /\ current \in Calls \cup {None}
  /\ (current # None) <=> (pc = "wait")
  /\ \A c \in Calls : ~R!At(c, "free") => (call[c].waiting <=> c = current)
  /\ current # None => ~R!At(current, "free") /\ call[current].trade = log[next + 1]

(* What httpNotify returned for is in a database. *)
RelayedIsRecorded == \A o \in relayed : Recorded(TradeAt(o))

(* Each trade is POSTed once, so the log holds no trade twice, nor one     *)
(* that the producer still has.                                            *)
NoTradeTwice ==
  /\ \A i, j \in 1 .. Len(log) : log[i] = log[j] => i = j
  /\ \A i, j \in 1 .. Len(buffer) : buffer[i] = buffer[j] => i = j
  /\ \A i \in 1 .. Len(log), j \in 1 .. Len(buffer) : log[i] # buffer[j]
  /\ \A i \in 1 .. Len(log) : log[i] \in accepted
  /\ \A j \in 1 .. Len(buffer) : buffer[j] \in accepted

(* The router sees a trade only when its record is sent.                   *)
RoutedIsSent ==
  /\ \A i \in 1 .. Len(log) : routed[log[i]] <= sent[i - 1]
  /\ \A t \in Trades : (\A i \in 1 .. Len(log) : log[i] # t) => routed[t] = 0

(* A batch is a poll's. *)
ShortBatch == pc \in {"relay", "wait"} => last - next < MaxPoll

(* The inductive invariant, relative to what is known of the parts. *)
Own == /\ AwaitsOne /\ RelayedIsRecorded /\ NoTradeTwice /\ RoutedIsSent /\ ShortBatch
       /\ CollateralStaysInBatch

(* What a step of the processor on its own leaves alone, ...               *)
ProcessorMoves ==
  /\ relayed' = relayed /\ abandoned' = abandoned /\ sent' = sent /\ joins' >= joins
  /\ (pc' = "wait") <=> (pc = "wait")
  /\ pc = "wait" => next' = next
  /\ pc' \in {"relay", "wait"} =>
       (pc' = pc /\ next' = next /\ last' = last) \/ last' - next' < MaxPoll

(* ... and what it does to the records: none, one POSTed, one appended to  *)
(* the log, or some lost.                                                  *)
RecordsMove ==
  \/ accepted' = accepted /\ buffer' = buffer /\ log' = log
  \/ /\ log' = log
     /\ \E t \in Trades \ accepted :
          accepted' = accepted \cup {t} /\ buffer' \in {buffer, Append(buffer, t)}
  \/ /\ buffer # <<>> /\ buffer' = Tail(buffer) /\ accepted' = accepted
     /\ log' \in {log, Append(log, Head(buffer))}
  \/ buffer' = <<>> /\ log' = log /\ accepted' = accepted

(* Every action of the processor's loop and environment does only that.    *)
LEMMA ProcessorStepMoves ==
  ProcessorFacts /\ (P!Loop \/ P!Environment) => ProcessorMoves /\ RecordsMove
<1> SUFFICES ASSUME ProcessorFacts, P!Loop \/ P!Environment
             PROVE  ProcessorMoves /\ RecordsMove
  OBVIOUS
<1> USE DEF P!brokerVars, P!histVars, P!threadVars
<1>1. joins \in Nat /\ MaxPoll \in Nat /\ position \in Int
  BY TradePathAssumption DEF ProcessorFacts, P!TypeOK
<1>2. CASE P!Loop
  <2>1. CASE P!PollRecords
    BY <1>1, <2>1 DEF P!PollRecords, ProcessorMoves, RecordsMove
  <2>2. CASE P!PollJoin
    BY <1>1, <2>2 DEF P!PollJoin, ProcessorMoves, RecordsMove
  <2>3. CASE P!Start \/ P!PollOutOfRange \/ P!PollEmpty \/ P!PollWakeup
    BY <1>1, <2>3
    DEF P!Start, P!PollOutOfRange, P!PollEmpty, P!PollWakeup, ProcessorMoves, RecordsMove
  <2>4. CASE P!CommitDone \/ P!CommitWakeup \/ P!CommitEvicted
    BY <1>1, <2>4
    DEF P!CommitDone, P!CommitWakeup, P!CommitEvicted, ProcessorMoves, RecordsMove
  <2>5. CASE P!Close \/ P!Exit
    BY <1>1, <2>5 DEF P!Close, P!Exit, P!FreshThread, ProcessorMoves, RecordsMove
  <2> QED BY <1>2, <2>1, <2>2, <2>3, <2>4, <2>5 DEF P!Loop
<1>3. CASE P!Environment
  <2>1. ASSUME NEW t \in Trades, P!Notify(t) \/ P!NotifySwallowed(t)
        PROVE  ProcessorMoves /\ RecordsMove
    BY <1>1, <2>1 DEF P!Notify, P!NotifySwallowed, ProcessorMoves, RecordsMove
  <2>2. CASE P!Acknowledge \/ P!GiveUpSend \/ P!CrashOut \/ P!Retain
    BY <1>1, <2>2
    DEF P!Acknowledge, P!GiveUpSend, P!CrashOut, P!Retain, ProcessorMoves, RecordsMove
  <2>3. CASE P!PollError \/ P!CommitTimeout \/ P!Shutdown \/ P!Evict
    BY <1>1, <2>3
    DEF P!PollError, P!CommitTimeout, P!Shutdown, P!Evict, ProcessorMoves, RecordsMove
  <2> QED BY <1>3, <2>1, <2>2, <2>3 DEF P!Environment
<1> QED BY <1>2, <1>3

(* A call at work keeps its trade and its caller, or ends unheard.         *)
CallMoves(c) ==
  \/ call'[c] = call[c]
  \/ /\ ~R!At(c, "free") /\ call'[c].stage # "free"
     /\ call'[c].trade = call[c].trade /\ call'[c].waiting = call[c].waiting
  \/ ~R!At(c, "free") /\ ~call[c].waiting /\ call'[c] = R!NoCall

(* No row is deleted, no trade routed by the recorders themselves.         *)
RecordersMove ==
  /\ routed' = routed /\ faults' \in Nat /\ faults' >= faults
  /\ \A d \in R!Databases : rows[d] \subseteq rows'[d]
  /\ \A c \in Calls : CallMoves(c)

(* Every action of router and recorders on their own does only that.       *)
LEMMA RecorderStepMoves == RecorderFacts /\ R!Work => RecordersMove
<1> SUFFICES ASSUME RecorderFacts, R!Work PROVE RecordersMove
  OBVIOUS
<1>1. /\ faults \in Nat /\ rows = [d \in R!Databases |-> rows[d]]
      /\ call = [c \in Calls |-> call[c]]
      /\ \A c \in Calls : call[c] \in R!CallRecords \cup {R!NoCall}
  BY TradePathAssumption DEF RecorderFacts, R!TypeOK
<1>2. \A c \in Calls : ~R!At(c, "free") =>
        call[c] \in R!CallRecords /\ R!DbOf(call[c].svc) \in R!Databases
  BY <1>1 DEF R!At, R!NoCall, R!DbOf, R!Databases
<1>3. ASSUME NEW c \in Calls, ~R!At(c, "free"), rows' = rows \/ R!InsertRow(c)
      PROVE  \A d \in R!Databases : rows[d] \subseteq rows'[d]
  BY <1>1, <1>2, <1>3 DEF R!InsertRow
<1>4. routed' = routed /\ faults' \in Nat /\ faults' >= faults
  <2>1. routed' = routed /\ (faults' = faults \/ R!Fault)
    BY Zenon
    DEF R!Work, R!JavaFind, R!JavaWrite, R!JavaWriteFails, R!JavaNotify, R!GoInsert,
        R!GoInsertFails, R!ZeroNotify, R!GoNotify, R!GoNotifyPanics, R!ReplyUnheard,
        R!RecorderCrash, R!Notified, R!NotifyFailed
  <2> QED BY <1>1, <2>1 DEF R!Fault
<1>5. \A d \in R!Databases : rows[d] \subseteq rows'[d]
  BY <1>3
  DEF R!Work, R!JavaFind, R!JavaWrite, R!JavaWriteFails, R!JavaNotify, R!GoInsert,
      R!GoInsertFails, R!ZeroNotify, R!GoNotify, R!GoNotifyPanics, R!ReplyUnheard,
      R!RecorderCrash, R!Serves, R!At
<1>6. ASSUME NEW c \in Calls PROVE CallMoves(c)
  <2>1. ASSUME NEW d \in Calls, ~R!At(d, "free"),
               \E st \in R!Stages : call' = [call EXCEPT ![d].stage = st]
        PROVE  CallMoves(c)
    BY <1>1, <1>2, <2>1 DEF CallMoves, R!At, R!CallRecords, R!Stages
  <2>2. ASSUME NEW d \in Calls, ~R!At(d, "free"), NEW v, NEW st \in R!Stages,
               \/ call' = [call EXCEPT ![d].stage = st, ![d].found = v]
               \/ call' = [call EXCEPT ![d].stage = st, ![d].err = v]
               \/ call' = [call EXCEPT ![d].stage = st, ![d].status = v]
        PROVE  CallMoves(c)
    BY <1>1, <1>2, <2>2 DEF CallMoves, R!At, R!CallRecords, R!Stages
  <2>3. ASSUME NEW d \in Calls, ~R!At(d, "free"),
               call' = [call EXCEPT ![d].stage = "reply", ![d].err = TRUE,
                                    ![d].status = 500]
        PROVE  CallMoves(c)
    BY <1>1, <1>2, <2>3 DEF CallMoves, R!At, R!CallRecords
  <2>4. ASSUME NEW d \in Calls, R!ReplyUnheard(d)
        PROVE  CallMoves(c)
    BY <1>1, <2>4 DEF CallMoves, R!ReplyUnheard, R!At
  <2>5. ASSUME NEW svc \in R!Services, R!RecorderCrash(svc)
        PROVE  CallMoves(c)
    <3>1. CASE ~R!Serves(c, svc)
      BY <2>5, <3>1 DEF CallMoves, R!RecorderCrash
    <3>2. CASE R!Serves(c, svc) /\ call[c].waiting
      <4> DEFINE answer == [[call[c] EXCEPT !.stage = "reply"] EXCEPT !.status = 504]
      <4>1. call'[c] = answer
        BY <2>5, <3>2 DEF R!RecorderCrash
      <4>2. ~R!At(c, "free")
        BY <3>2 DEF R!Serves
      <4>3. /\ answer.stage = "reply" /\ answer.trade = call[c].trade
            /\ answer.waiting = call[c].waiting
        BY <1>2, <4>2 DEF R!CallRecords
      <4> HIDE DEF answer
      <4> QED BY <4>1, <4>2, <4>3 DEF CallMoves
    <3>3. CASE R!Serves(c, svc) /\ ~call[c].waiting
      BY <2>5, <3>3 DEF CallMoves, R!RecorderCrash, R!Serves
    <3> QED BY <3>1, <3>2, <3>3
  <2>6. ASSUME NEW d \in Calls,
               \/ R!JavaFind(d) \/ R!JavaWrite(d) \/ R!JavaWriteFails(d)
               \/ R!JavaNotify(d)
        PROVE  CallMoves(c)
    <3>1. ~R!At(d, "free")
      BY <2>6 DEF R!JavaFind, R!JavaWrite, R!JavaWriteFails, R!JavaNotify, R!Serves
    <3>2. CASE R!JavaFind(d) \/ R!JavaNotify(d)
      BY <2>2, <3>1, <3>2 DEF R!JavaFind, R!JavaNotify, R!Stages
    <3>3. CASE R!JavaWriteFails(d)
      BY <2>3, <3>1, <3>3 DEF R!JavaWriteFails
    <3>4. CASE R!JavaWrite(d)
      <4>1. \/ call' = [call EXCEPT ![d].stage = "notify"]
            \/ call' = [call EXCEPT ![d].stage = "reply", ![d].err = TRUE,
                                    ![d].status = 500]
        BY <3>4 DEF R!JavaWrite
      <4> QED BY <2>1, <2>3, <3>1, <4>1 DEF R!Stages
    <3> QED BY <2>6, <3>2, <3>3, <3>4
  <2>7. ASSUME NEW d \in Calls,
               \/ R!GoInsert(d) \/ R!GoInsertFails(d) \/ R!ZeroNotify(d)
               \/ R!GoNotify(d) \/ R!GoNotifyPanics(d)
        PROVE  CallMoves(c)
    <3>1. ~R!At(d, "free")
      BY <2>7
      DEF R!GoInsert, R!GoInsertFails, R!ZeroNotify, R!GoNotify, R!GoNotifyPanics,
          R!Serves
    <3> QED
      BY <2>2, <2>7, <3>1
      DEF R!GoInsert, R!GoInsertFails, R!ZeroNotify, R!GoNotify, R!GoNotifyPanics,
          R!Stages
  <2> QED
    BY <2>4, <2>5, <2>6, <2>7 DEF R!Work
<1> QED BY <1>4, <1>5, <1>6 DEF RecordersMove

-----------------------------------------------------------------------------
(* The log holds one record of each trade at most, so it has no more       *)
(* records than there are trades, and each has its count of sends.         *)
LEMMA LogFits ==
  ProcessorFacts /\ NoTradeTwice =>
    /\ \A i \in 1 .. Len(log) : i - 1 \in P!Offsets /\ sent[i - 1] \in Nat
    /\ log \in Seq(Trades)
<1> SUFFICES ASSUME ProcessorFacts, NoTradeTwice
             PROVE  \A i \in 1 .. Len(log) : i - 1 \in P!Offsets /\ sent[i - 1] \in Nat
  BY DEF ProcessorFacts, P!TypeOK
<1>1. log \in Seq(Trades) /\ sent \in [P!Offsets -> Nat]
  BY DEF ProcessorFacts, P!TypeOK
<1>2. Len(log) \in Nat /\ \A i \in 1 .. Len(log) : log[i] \in Trades
  BY <1>1
<1> DEFINE f == [i \in 1 .. Len(log) |-> log[i]]
<1>3. f \in Injection(1 .. Len(log), Trades)
  BY <1>2 DEF Injection, IsInjective, NoTradeTwice
<1>4. Cardinality(1 .. Len(log)) = Len(log)
  <2>1. ASSUME NEW n \in Nat PROVE Cardinality(1 .. n) = n
    BY FS_Interval, SMT
  <2> QED BY <1>2, <2>1
<1>5. Cardinality(Trades) \in Nat /\ Len(log) <= Cardinality(Trades)
  BY <1>3, <1>4, TradePathAssumption, FS_Injection, FS_CardinalityType
<1> QED BY <1>1, <1>2, <1>5, SameSets DEF P!Offsets

(* The records move and stay distinct.                                     *)
LEMMA RecordsStayDistinct ==
  ProcessorFacts /\ NoTradeTwice /\ RecordsMove => NoTradeTwice'
<1> SUFFICES ASSUME ProcessorFacts, NoTradeTwice, RecordsMove PROVE NoTradeTwice'
  OBVIOUS
<1>1. log \in Seq(Trades) /\ buffer \in Seq(Trades) /\ accepted \subseteq Trades
  BY DEF ProcessorFacts, P!TypeOK
<1>2. CASE accepted' = accepted /\ buffer' = buffer /\ log' = log
  BY <1>2 DEF NoTradeTwice
<1>3. ASSUME log' = log, NEW t \in Trades \ accepted,
             accepted' = accepted \cup {t}, buffer' \in {buffer, Append(buffer, t)}
      PROVE  NoTradeTwice'
  <2>1. CASE buffer' = buffer
    BY <1>3, <2>1 DEF NoTradeTwice
  <2>2. CASE buffer' = Append(buffer, t)
    <3>1. /\ Len(buffer) \in Nat /\ Len(buffer') = Len(buffer) + 1
          /\ \A j \in 1 .. Len(buffer) : buffer'[j] = buffer[j]
          /\ buffer'[Len(buffer) + 1] = t
      BY <1>1, <2>2
    <3>2. \A j \in 1 .. Len(buffer) : buffer'[j] # t
      BY <3>1 DEF NoTradeTwice
    <3>3. \A i \in 1 .. Len(log) : log'[i] # t
      BY <1>3 DEF NoTradeTwice
    <3>4. \A j \in 1 .. Len(buffer') : j \in 1 .. Len(buffer) \/ j = Len(buffer) + 1
      BY <3>1
    <3>5. \A i, j \in 1 .. Len(buffer') : buffer'[i] = buffer'[j] => i = j
      BY <3>1, <3>2, <3>4 DEF NoTradeTwice
    <3>6. \A i \in 1 .. Len(log'), j \in 1 .. Len(buffer') : log'[i] # buffer'[j]
      BY <1>3, <3>1, <3>3, <3>4 DEF NoTradeTwice
    <3>7. \A j \in 1 .. Len(buffer') : buffer'[j] \in accepted'
      BY <1>3, <3>1, <3>4 DEF NoTradeTwice
    <3>8. \A i \in 1 .. Len(log') : log'[i] \in accepted'
      BY <1>3 DEF NoTradeTwice
    <3>9. \A i, j \in 1 .. Len(log') : log'[i] = log'[j] => i = j
      BY <1>3 DEF NoTradeTwice
    <3> QED BY <3>5, <3>6, <3>7, <3>8, <3>9 DEF NoTradeTwice
  <2> QED BY <1>3, <2>1, <2>2
<1>4. CASE /\ buffer # <<>> /\ buffer' = Tail(buffer) /\ accepted' = accepted
           /\ log' \in {log, Append(log, Head(buffer))}
  <2>1. /\ Len(buffer) \in Nat /\ Len(buffer') = Len(buffer) - 1
        /\ \A j \in 1 .. Len(buffer') : buffer'[j] = buffer[j + 1]
        /\ 1 \in 1 .. Len(buffer) /\ Head(buffer) = buffer[1]
    BY <1>1, <1>4
  <2>2. \A j \in 1 .. Len(buffer') : j + 1 \in 1 .. Len(buffer) /\ j + 1 # 1
    BY <2>1
  <2>3. /\ \A i, j \in 1 .. Len(buffer') : buffer'[i] = buffer'[j] => i + 1 = j + 1
        /\ \A j \in 1 .. Len(buffer') : buffer'[j] \in accepted'
        /\ \A i \in 1 .. Len(log), j \in 1 .. Len(buffer') : log[i] # buffer'[j]
    BY <1>4, <2>1, <2>2 DEF NoTradeTwice
  <2>4. \A i, j \in 1 .. Len(buffer') : i + 1 = j + 1 => i = j
    OBVIOUS
  <2>5. CASE log' = log
    BY <1>4, <2>3, <2>4, <2>5 DEF NoTradeTwice
  <2>6. CASE log' = Append(log, Head(buffer))
    <3>1. /\ Len(log) \in Nat /\ Len(log') = Len(log) + 1
          /\ \A i \in 1 .. Len(log) : log'[i] = log[i]
          /\ log'[Len(log) + 1] = buffer[1]
      BY <1>1, <2>1, <2>6
    <3>2. \A i \in 1 .. Len(log') : i \in 1 .. Len(log) \/ i = Len(log) + 1
      BY <3>1
    <3>3. \A i \in 1 .. Len(log) : log[i] # buffer[1]
      BY <2>1 DEF NoTradeTwice
    <3>4. \A j \in 1 .. Len(buffer') : buffer'[j] # buffer[1]
      BY <2>1, <2>2 DEF NoTradeTwice
    <3>5. \A i, j \in 1 .. Len(log') : log'[i] = log'[j] => i = j
      BY <3>1, <3>2, <3>3 DEF NoTradeTwice
    <3>6. \A i \in 1 .. Len(log'), j \in 1 .. Len(buffer') : log'[i] # buffer'[j]
      BY <2>3, <3>1, <3>2, <3>4
    <3>7. \A i \in 1 .. Len(log') : log'[i] \in accepted'
      BY <1>4, <2>1, <3>1, <3>2 DEF NoTradeTwice
    <3> QED BY <2>3, <2>4, <3>5, <3>6, <3>7 DEF NoTradeTwice
  <2> QED BY <1>4, <2>5, <2>6
<1>5. CASE buffer' = <<>> /\ log' = log /\ accepted' = accepted
  BY <1>1, <1>5 DEF NoTradeTwice
<1> QED BY <1>2, <1>3, <1>4, <1>5 DEF RecordsMove

(* The log only grows, by records it did not have.                         *)
LEMMA LogGrows ==
  ProcessorFacts /\ NoTradeTwice /\ RecordsMove =>
    /\ \A i \in 1 .. Len(log) : i \in 1 .. Len(log') /\ log'[i] = log[i]
    /\ \A i \in 1 .. Len(log'), j \in 1 .. Len(log) :
         i \notin 1 .. Len(log) => log'[i] # log[j]
    /\ \A i \in 1 .. Len(log') : log'[i] \in Trades
<1> SUFFICES ASSUME ProcessorFacts, NoTradeTwice, RecordsMove
             PROVE  /\ \A i \in 1 .. Len(log) : i \in 1 .. Len(log') /\ log'[i] = log[i]
                    /\ \A i \in 1 .. Len(log'), j \in 1 .. Len(log) :
                         i \notin 1 .. Len(log) => log'[i] # log[j]
                    /\ \A i \in 1 .. Len(log') : log'[i] \in Trades
  OBVIOUS
<1>1. log \in Seq(Trades) /\ buffer \in Seq(Trades)
  BY DEF ProcessorFacts, P!TypeOK
<1>2. log' = log \/ (buffer # <<>> /\ log' = Append(log, Head(buffer)))
  BY DEF RecordsMove
<1>3. CASE log' = log
  BY <1>1, <1>3
<1>4. CASE buffer # <<>> /\ log' = Append(log, Head(buffer))
  <2>1. Head(buffer) = buffer[1] /\ 1 \in 1 .. Len(buffer) /\ Head(buffer) \in Trades
    BY <1>1, <1>4
  <2>2. \A j \in 1 .. Len(log) : Head(buffer) # log[j]
    BY <2>1 DEF NoTradeTwice
  <2> QED BY <1>1, <1>4, <2>1, <2>2
<1> QED BY <1>2, <1>3, <1>4

-----------------------------------------------------------------------------
(* What ties the parts together is kept: one lemma for each kind of step.  *)

(* What the parts are known to be, in the words the steps below need.      *)
LEMMA Typed ==
  ProcessorFacts /\ RecorderFacts /\ Own =>
    /\ log \in Seq(Trades) /\ Len(log) \in Nat /\ sent \in [P!Offsets -> Nat]
    /\ routed \in [Trades -> Nat] /\ faults \in Nat /\ joins \in Nat
    /\ next \in Nat /\ last \in Int /\ last < Len(log)
    /\ relayed \subseteq 0 .. Len(log) - 1 /\ abandoned \subseteq 0 .. Len(log) - 1
    /\ call = [c \in Calls |-> call[c]] /\ rows = [d \in R!Databases |-> rows[d]]
    /\ \A c \in Calls : ~R!At(c, "free") => call[c] \in R!CallRecords
    /\ pc \in {"relay", "wait"} =>
         next + 1 \in 1 .. Len(log) /\ log[next + 1] \in Trades
<1> SUFFICES ASSUME ProcessorFacts, RecorderFacts
             PROVE  /\ log \in Seq(Trades) /\ Len(log) \in Nat
                    /\ sent \in [P!Offsets -> Nat]
                    /\ routed \in [Trades -> Nat] /\ faults \in Nat /\ joins \in Nat
                    /\ next \in Nat /\ last \in Int /\ last < Len(log)
                    /\ relayed \subseteq 0 .. Len(log) - 1
                    /\ abandoned \subseteq 0 .. Len(log) - 1
                    /\ call = [c \in Calls |-> call[c]]
                    /\ rows = [d \in R!Databases |-> rows[d]]
                    /\ \A c \in Calls : ~R!At(c, "free") => call[c] \in R!CallRecords
                    /\ pc \in {"relay", "wait"} =>
                         next + 1 \in 1 .. Len(log) /\ log[next + 1] \in Trades
  OBVIOUS
<1>1. /\ log \in Seq(Trades) /\ Len(log) \in Nat /\ sent \in [P!Offsets -> Nat]
      /\ joins \in Nat /\ next \in Nat /\ last \in Int /\ last < Len(log)
      /\ relayed \subseteq 0 .. Len(log) - 1 /\ abandoned \subseteq 0 .. Len(log) - 1
  BY DEF ProcessorFacts, P!TypeOK, P!End
<1>2. pc \in {"relay", "wait"} =>
        next + 1 \in 1 .. Len(log) /\ log[next + 1] \in Trades
  BY <1>1 DEF ProcessorFacts
<1>3. /\ routed \in [Trades -> Nat] /\ faults \in Nat
      /\ call = [c \in Calls |-> call[c]] /\ rows = [d \in R!Databases |-> rows[d]]
  BY TradePathAssumption DEF RecorderFacts, R!TypeOK
<1>4. \A c \in Calls : ~R!At(c, "free") => call[c] \in R!CallRecords
  BY DEF RecorderFacts, R!TypeOK, R!At, R!NoCall
<1> QED BY <1>1, <1>2, <1>3, <1>4

(* Recorders: rows are only added and calls keep what they carry.          *)
LEMMA RecorderStepKeeps ==
  ProcessorFacts /\ RecorderFacts /\ Own /\ RecorderStep => Own'
<1> SUFFICES ASSUME ProcessorFacts, RecorderFacts, Own, RecorderStep PROVE Own'
  OBVIOUS
<1>1. RecordersMove
  BY RecorderStepMoves DEF RecorderStep
<1>2. UNCHANGED <<processorVars, current>>
  BY DEF RecorderStep
<1> USE Typed
<1>3. AwaitsOne'
  <2>1. /\ AwaitsOne /\ current' = current /\ pc' = pc /\ log' = log /\ next' = next
        /\ current \in Calls \cup {None}
    BY <1>2 DEF processorVars, Own, AwaitsOne
  <2>2. ASSUME NEW c \in Calls, ~R!At(c, "free")'
        PROVE  call'[c].waiting <=> c = current
    BY <1>1, <2>1, <2>2 DEF RecordersMove, CallMoves, AwaitsOne, R!At, R!NoCall
  <2>3. current # None => ~R!At(current, "free")' /\ call'[current].trade = log[next + 1]
    BY <1>1, <2>1 DEF RecordersMove, CallMoves, AwaitsOne, R!At
  <2> QED BY <2>1, <2>2, <2>3 DEF AwaitsOne
<1>4. RelayedIsRecorded'
  BY <1>1, <1>2
  DEF processorVars, Own, RelayedIsRecorded, Recorded, TradeAt, RecordersMove
<1>5. NoTradeTwice' /\ RoutedIsSent' /\ ShortBatch'
  BY <1>1, <1>2
  DEF processorVars, Own, NoTradeTwice, RoutedIsSent, ShortBatch, RecordersMove
<1>6. CollateralStaysInBatch'
  BY <1>1, <1>2
  DEF processorVars, Own, CollateralStaysInBatch, TradeAt, RecordersMove
<1> QED BY <1>3, <1>4, <1>5, <1>6 DEF Own

(* Processor: the log only grows, and a record it gains was never sent.    *)
LEMMA ProcessorStepKeeps ==
  /\ ProcessorFacts /\ ProcessorFacts' /\ RecorderFacts
  /\ Own /\ ProcessorStep
  => Own'
<1> SUFFICES ASSUME ProcessorFacts, ProcessorFacts', RecorderFacts, Own, ProcessorStep
             PROVE  Own'
  OBVIOUS
<1>1. ProcessorMoves /\ RecordsMove
  BY ProcessorStepMoves DEF ProcessorStep
<1>2. UNCHANGED <<recorderVars, current>>
  BY DEF ProcessorStep
<1>3. /\ \A i \in 1 .. Len(log) : i \in 1 .. Len(log') /\ log'[i] = log[i]
      /\ \A i \in 1 .. Len(log'), j \in 1 .. Len(log) :
           i \notin 1 .. Len(log) => log'[i] # log[j]
      /\ \A i \in 1 .. Len(log') : log'[i] \in Trades
  BY <1>1, LogGrows DEF Own
<1>4. NoTradeTwice'
  BY <1>1, RecordsStayDistinct DEF Own
<1>5. \A o \in 0 .. Len(log) - 1 : TradeAt(o)' = TradeAt(o)
  BY <1>3, Typed DEF TradeAt
<1>6. AwaitsOne'
  <2>1. /\ AwaitsOne /\ current' = current /\ call' = call
        /\ pc' = "wait" <=> pc = "wait"
    BY <1>1, <1>2 DEF recorderVars, Own, ProcessorMoves
  <2>2. pc = "wait" => log'[next' + 1] = log[next + 1]
    BY <1>1, <1>3, Typed DEF ProcessorMoves
  <2> QED BY <2>1, <2>2 DEF AwaitsOne, R!At
<1>7. RelayedIsRecorded'
  BY <1>1, <1>2, <1>5, Typed
  DEF recorderVars, Own, RelayedIsRecorded, Recorded, ProcessorMoves
<1>8. RoutedIsSent'
  <2>1. sent' = sent /\ routed' = routed /\ RoutedIsSent
    BY <1>1, <1>2 DEF recorderVars, Own, ProcessorMoves
  <2>2. \A i \in 1 .. Len(log') : sent[i - 1] \in Nat
    <3>1. (\A i \in 1 .. Len(log) : i - 1 \in P!Offsets /\ sent[i - 1] \in Nat)'
      BY <1>4, LogFits, PTL
    <3> QED BY <2>1, <3>1
  <2>3. ASSUME NEW i \in 1 .. Len(log') PROVE routed[log'[i]] <= sent[i - 1]
    <3>1. CASE i \in 1 .. Len(log)
      BY <1>3, <2>1, <3>1 DEF RoutedIsSent
    <3>2. CASE i \notin 1 .. Len(log)
      <4>1. log'[i] \in Trades /\ \A j \in 1 .. Len(log) : log[j] # log'[i]
        BY <1>3, <3>2
      <4>2. routed[log'[i]] = 0
        BY <2>1, <4>1 DEF RoutedIsSent
      <4> QED BY <2>2, <4>2
    <3> QED BY <3>1, <3>2
  <2>4. ASSUME NEW t \in Trades, \A i \in 1 .. Len(log') : log'[i] # t
        PROVE  routed[t] = 0
    BY <1>3, <2>1, <2>4 DEF RoutedIsSent
  <2> QED BY <2>1, <2>3, <2>4 DEF RoutedIsSent
<1>9. ShortBatch'
  BY <1>1 DEF Own, ShortBatch, ProcessorMoves
<1>10. CollateralStaysInBatch'
  <2>1. faults' = faults /\ abandoned' = abandoned /\ joins \in Nat /\ joins' >= joins
    BY <1>1, <1>2, Typed DEF recorderVars, ProcessorMoves
  <2>2. joins' \in Nat
    BY DEF ProcessorFacts, P!TypeOK
  <2>3. ASSUME NEW o \in abandoned, NEW bad \in 0 .. o
        PROVE  TradeAt(bad)' = TradeAt(bad)
    BY <1>5, Typed
  <2> QED BY <2>1, <2>2, <2>3 DEF Own, CollateralStaysInBatch
<1> QED BY <1>4, <1>6, <1>7, <1>8, <1>9, <1>10 DEF Own

(* Send: one more call, one more send and one more route of one trade.     *)
LEMMA SendKeeps == ProcessorFacts /\ RecorderFacts /\ Own /\ Send => Own'
<1> SUFFICES ASSUME ProcessorFacts, RecorderFacts, Own, Send PROVE Own'
  OBVIOUS
<1> DEFINE t == log[next + 1]
<1>1. PICK c \in Calls : R!Route(c, t) /\ current' = c
  BY DEF Send
<1>2. /\ pc = "relay" /\ pc' = "wait" /\ sent' = [sent EXCEPT ![next] = @ + 1]
      /\ log' = log /\ buffer' = buffer /\ accepted' = accepted /\ joins' = joins
      /\ next' = next /\ last' = last /\ relayed' = relayed /\ abandoned' = abandoned
  BY DEF Send, P!RelayStart, P!brokerVars
<1>3. PICK svc \in Routes[t] : call' = [call EXCEPT ![c] = R!CallOf(t, svc)]
  BY <1>1 DEF R!Route
<1>4. /\ routed' = [routed EXCEPT ![t] = @ + 1] /\ rows' = rows /\ faults' = faults
  BY <1>1 DEF R!Route
<1>5. t \in Trades /\ next + 1 \in 1 .. Len(log)
  BY <1>2, Typed
<1>6. /\ \A i \in 1 .. Len(log) : i - 1 \in P!Offsets
      /\ \A i, j \in 1 .. Len(log) : log[i] = log[j] => i = j
  BY LogFits DEF Own, NoTradeTwice
<1> HIDE DEF t
<1>7. AwaitsOne'
  <2>1. /\ R!CallOf(t, svc).stage # "free" /\ R!CallOf(t, svc).trade = t
        /\ R!CallOf(t, svc).waiting = TRUE
    BY DEF R!CallOf
  <2>2. current = None /\ None \notin Calls
    BY <1>2, TradePathAssumption DEF Own, AwaitsOne
  <2>3. ASSUME NEW d \in Calls, ~R!At(d, "free")'
        PROVE  call'[d].waiting <=> d = c
    BY <1>3, <2>1, <2>2, <2>3, Typed DEF Own, AwaitsOne, R!At
  <2>4. ~R!At(c, "free")' /\ call'[c].trade = t
    BY <1>3, <2>1, Typed DEF R!At
  <2>5. t = log'[next' + 1]
    BY <1>2 DEF t
  <2> QED BY <1>1, <1>2, <2>2, <2>3, <2>4, <2>5 DEF AwaitsOne
<1>8. RelayedIsRecorded' /\ NoTradeTwice' /\ CollateralStaysInBatch'
  BY <1>2, <1>4
  DEF Own, RelayedIsRecorded, Recorded, TradeAt, NoTradeTwice, CollateralStaysInBatch
<1>9. RoutedIsSent'
  <2>1. ASSUME NEW i \in 1 .. Len(log) PROVE routed'[log[i]] <= sent'[i - 1]
    <3>1. /\ log[i] \in Trades /\ i - 1 \in P!Offsets /\ next \in P!Offsets
          /\ sent[i - 1] \in Nat /\ routed[log[i]] \in Nat
      BY <1>5, <1>6, Typed
    <3>2. routed[log[i]] <= sent[i - 1]
      BY DEF Own, RoutedIsSent
    <3>3. CASE i = next + 1
      BY <1>2, <1>4, <3>1, <3>2, <3>3, Typed DEF t
    <3>4. CASE i # next + 1
      <4>1. log[i] # t /\ i - 1 # next
        BY <1>5, <1>6, <3>4, Typed DEF t
      <4> QED BY <1>2, <1>4, <3>1, <3>2, <4>1, Typed
    <3> QED BY <3>3, <3>4
  <2>2. ASSUME NEW s \in Trades, \A i \in 1 .. Len(log) : log[i] # s
        PROVE  routed'[s] = 0
    <3>1. s # t
      BY <1>5, <2>2 DEF t
    <3> QED BY <1>4, <2>2, <3>1, Typed DEF Own, RoutedIsSent
  <2> QED BY <1>2, <2>1, <2>2 DEF RoutedIsSent
<1>10. ShortBatch'
  BY <1>2 DEF Own, ShortBatch
<1> QED BY <1>7, <1>8, <1>9, <1>10 DEF Own

(* What every end of a call leaves alone.                                  *)
CallEnds ==
  /\ log' = log /\ buffer' = buffer /\ accepted' = accepted /\ joins' = joins
  /\ sent' = sent /\ routed' = routed /\ rows' = rows
  /\ current' = None /\ pc' # "wait"
  /\ \A c \in Calls : c # current => call'[c] = call[c]
  /\ current # None /\ call'[current].stage # "free" => ~call'[current].waiting

(* Whichever way it ends, call, records and counts stay tied together.     *)
LEMMA CallEndKeeps ==
  ProcessorFacts /\ RecorderFacts /\ Own /\ CallEnds
    => AwaitsOne' /\ NoTradeTwice' /\ RoutedIsSent'
<1> SUFFICES ASSUME ProcessorFacts, RecorderFacts, Own, CallEnds
             PROVE  AwaitsOne' /\ NoTradeTwice' /\ RoutedIsSent'
  OBVIOUS
<1>1. AwaitsOne'
  <2>1. None \notin Calls
    BY TradePathAssumption
  <2>2. ASSUME NEW c \in Calls, ~R!At(c, "free")' PROVE ~call'[c].waiting
    <3>1. CASE c = current
      BY <2>1, <2>2, <3>1 DEF CallEnds, R!At
    <3>2. CASE c # current
      <4>1. call'[c] = call[c] /\ ~R!At(c, "free")
        BY <2>2, <3>2 DEF CallEnds, R!At
      <4> QED BY <3>2, <4>1 DEF Own, AwaitsOne
    <3> QED BY <3>1, <3>2
  <2> QED BY <2>1, <2>2 DEF CallEnds, AwaitsOne
<1>2. NoTradeTwice' /\ RoutedIsSent'
  BY DEF CallEnds, Own, NoTradeTwice, RoutedIsSent
<1> QED BY <1>1, <1>2

(* Answered: below 400 is 200, so the trade is in a database; and when     *)
(* nothing has failed, any other answer is a refused trade's.              *)
LEMMA AnsweredKeeps == ProcessorFacts /\ RecorderFacts /\ Own /\ Answered => Own'
<1> SUFFICES ASSUME ProcessorFacts, RecorderFacts, Own, Answered PROVE Own'
  OBVIOUS
<1>1. /\ current \in Calls /\ R!At(current, "reply") /\ call[current].waiting
      /\ call' = [call EXCEPT ![current] = R!NoCall]
      /\ rows' = rows /\ routed' = routed /\ faults' = faults /\ current' = None
  BY DEF Answered, R!Reply, Own, AwaitsOne
<1>2. /\ pc = "wait" /\ pc' # "wait" /\ log' = log /\ buffer' = buffer
      /\ accepted' = accepted /\ sent' = sent /\ joins' = joins
  BY DEF Answered, P!RelayReturn, P!brokerVars
<1>3. call[current].trade = TradeAt(next)
  BY <1>1, <1>2, TradePathAssumption DEF Own, AwaitsOne, TradeAt
<1>4. CallEnds
  <2>1. call'[current].stage = "free" /\ \A c \in Calls \ {current} : call'[c] = call[c]
    BY <1>1, Typed DEF R!NoCall
  <2> QED BY <1>1, <1>2, <2>1 DEF CallEnds, R!At
<1>5. AwaitsOne' /\ NoTradeTwice' /\ RoutedIsSent'
  BY <1>4, CallEndKeeps
<1>6. call[current].status \in {200, 500, 504}
  BY <1>1 DEF RecorderFacts
<1>7. CASE call[current].status = 200
  <2>1. Recorded(TradeAt(next))
    BY <1>1, <1>3, <1>7 DEF RecorderFacts
  <2>2. /\ relayed' = relayed \cup {next} /\ abandoned' = abandoned
        /\ next' = next + 1 /\ last' = last
    BY <1>7 DEF Answered, P!RelayReturn
  <2>3. RelayedIsRecorded' /\ CollateralStaysInBatch'
    BY <1>1, <1>2, <2>1, <2>2
    DEF Own, RelayedIsRecorded, Recorded, TradeAt, CollateralStaysInBatch
  <2>4. ShortBatch'
    BY <1>2, <2>2, Typed, TradePathAssumption DEF Own, ShortBatch
  <2> QED BY <1>5, <2>3, <2>4 DEF Own
<1>8. CASE call[current].status # 200
  <2>1. /\ relayed' = relayed /\ abandoned' = abandoned \cup next .. last
        /\ pc' = "poll"
    BY <1>6, <1>8 DEF Answered, P!RelayReturn, P!Batch
  <2>2. RelayedIsRecorded' /\ ShortBatch'
    BY <1>1, <1>2, <2>1
    DEF Own, RelayedIsRecorded, Recorded, TradeAt, ShortBatch
  <2>3. CollateralStaysInBatch'
    <3> SUFFICES ASSUME faults = 0, joins <= 1, NEW o \in abandoned'
                 PROVE  \E bad \in 0 .. o : TradeAt(bad) \in Refused /\ o - bad < MaxPoll
      BY <1>1, <1>2 DEF CollateralStaysInBatch, TradeAt
    <3>1. CASE o \in abandoned
      BY <3>1 DEF Own, CollateralStaysInBatch
    <3>2. CASE o \in next .. last
      <4>1. TradeAt(next) \in Trades /\ next + 1 \in 1 .. Len(log) /\ next \in Nat
        BY <1>2, Typed DEF TradeAt
      <4>2. routed[TradeAt(next)] <= sent[next] /\ sent[next] \in Nat
        BY <4>1, LogFits DEF Own, RoutedIsSent, TradeAt
      <4>3. sent[next] <= joins
        BY <4>1, LogFits DEF Own, ProcessorFacts
      <4>4. routed[TradeAt(next)] # 0 /\ routed[TradeAt(next)] \in Nat
        BY <1>1, <1>3, <4>1, Typed DEF RecorderFacts, R!At
      <4>5. routed[TradeAt(next)] = 1
        BY <4>2, <4>3, <4>4, Typed
      <4>6. TradeAt(next) \in Refused
        BY <1>1, <1>3, <1>8, <4>5 DEF RecorderFacts
      <4>7. o - next < MaxPoll /\ next \in 0 .. o
        BY <1>2, <3>2, <4>1, Typed, TradePathAssumption DEF Own, ShortBatch
      <4> QED BY <4>6, <4>7
    <3> QED BY <2>1, <3>1, <3>2
  <2> QED BY <1>5, <2>2, <2>3 DEF Own
<1> QED BY <1>7, <1>8

(* TimedOut: the call is nobody's any more, and a fault is counted.        *)
LEMMA TimedOutKeeps == ProcessorFacts /\ RecorderFacts /\ Own /\ TimedOut => Own'
<1> SUFFICES ASSUME ProcessorFacts, RecorderFacts, Own, TimedOut PROVE Own'
  OBVIOUS
<1>1. /\ current \in Calls /\ call' = [call EXCEPT ![current].waiting = FALSE]
      /\ rows' = rows /\ routed' = routed /\ current' = None
      /\ ~R!At(current, "free") /\ faults' = faults + 1
  BY DEF TimedOut, R!Timeout, R!Disconnect, R!Fault, Own, AwaitsOne
<1>2. /\ pc' = "poll" /\ log' = log /\ buffer' = buffer
      /\ accepted' = accepted /\ sent' = sent /\ joins' = joins /\ relayed' = relayed
  BY DEF TimedOut, P!RelayReturn, P!brokerVars
<1>3. CallEnds
  BY <1>1, <1>2, Typed DEF CallEnds, R!At, R!CallRecords
<1>4. AwaitsOne' /\ NoTradeTwice' /\ RoutedIsSent'
  BY <1>3, CallEndKeeps
<1>5. RelayedIsRecorded' /\ ShortBatch'
  BY <1>1, <1>2
  DEF Own, RelayedIsRecorded, Recorded, TradeAt, ShortBatch
<1>6. CollateralStaysInBatch'
  BY <1>1, Typed DEF CollateralStaysInBatch
<1> QED BY <1>4, <1>5, <1>6 DEF Own

(* Kill: the call, if there is one, is nobody's any more.                  *)
LEMMA KillKeeps == ProcessorFacts /\ RecorderFacts /\ Own /\ Kill => Own'
<1> SUFFICES ASSUME ProcessorFacts, RecorderFacts, Own, Kill PROVE Own'
  OBVIOUS
<1>1. /\ pc' = "down" /\ log' = log /\ buffer' = buffer /\ current' = None
      /\ accepted' = accepted /\ sent' = sent /\ joins' = joins /\ relayed' = relayed
      /\ abandoned' = abandoned
  BY DEF Kill, P!Kill, P!FreshThread, P!brokerVars, P!histVars
<1>2. rows' = rows /\ routed' = routed /\ faults' = faults
  BY DEF Kill, R!CallerGone, R!Disconnect, recorderVars
<1>3. CallEnds
  <2>1. CASE current = None
    BY <1>1, <1>2, <2>1 DEF Kill, recorderVars, CallEnds
  <2>2. CASE current # None
    <3>1. /\ current \in Calls /\ call' = [call EXCEPT ![current].waiting = FALSE]
          /\ ~R!At(current, "free")
      BY <2>2 DEF Kill, R!CallerGone, R!Disconnect, Own, AwaitsOne
    <3> QED BY <1>1, <1>2, <3>1, Typed DEF CallEnds, R!At, R!CallRecords
  <2> QED BY <2>1, <2>2
<1>4. AwaitsOne' /\ NoTradeTwice' /\ RoutedIsSent'
  BY <1>3, CallEndKeeps
<1>5. RelayedIsRecorded' /\ ShortBatch' /\ CollateralStaysInBatch'
  BY <1>1, <1>2
  DEF Own, RelayedIsRecorded, Recorded, TradeAt, ShortBatch, CollateralStaysInBatch
<1> QED BY <1>4, <1>5 DEF Own

-----------------------------------------------------------------------------
(* The path starts with nothing sent, ...                                  *)
LEMMA InitialOwn == Init => Own
<1> SUFFICES ASSUME Init PROVE Own
  OBVIOUS
<1>1. /\ log = <<>> /\ buffer = <<>> /\ relayed = {} /\ abandoned = {} /\ pc = "down"
      /\ current = None /\ routed = [t \in Trades |-> 0]
      /\ \A c \in Calls : call[c].stage = "free"
  BY DEF Init, P!Init, R!Init, R!NoCall
<1>2. AwaitsOne
  BY <1>1 DEF AwaitsOne, R!At
<1>3. RelayedIsRecorded /\ CollateralStaysInBatch /\ ShortBatch
  BY <1>1 DEF RelayedIsRecorded, CollateralStaysInBatch, ShortBatch
<1>4. NoTradeTwice /\ RoutedIsSent
  BY <1>1 DEF NoTradeTwice, RoutedIsSent
<1> QED BY <1>2, <1>3, <1>4 DEF Own

(* ... and every step keeps what ties the parts together.                  *)
LEMMA NextKeeps ==
  /\ ProcessorFacts /\ ProcessorFacts' /\ RecorderFacts
  /\ Own /\ [Next]_vars
  => Own'
<1> SUFFICES ASSUME ProcessorFacts, ProcessorFacts', RecorderFacts, Own, UNCHANGED vars
             PROVE  Own'
  BY SendKeeps, AnsweredKeeps, TimedOutKeeps, KillKeeps, ProcessorStepKeeps,
     RecorderStepKeeps DEF Next
<1> QED
  BY DEF vars, processorVars, recorderVars, Own, AwaitsOne, RelayedIsRecorded, Recorded,
         TradeAt, NoTradeTwice, RoutedIsSent, ShortBatch, CollateralStaysInBatch, R!At

(* So the parts stay tied together for ever.                               *)
LEMMA Invariance == Spec => []Own
  BY PartsKnown, InitialOwn, NextKeeps, PTL DEF Spec

-----------------------------------------------------------------------------
(* Every variable keeps the range the code gives it, and a call is awaited *)
(* exactly while httpNotify waits for it.                                  *)
THEOREM TypeCorrect == Spec => []TypeOK
<1>1. ProcessorFacts /\ RecorderFacts /\ Own => TypeOK
  BY DEF ProcessorFacts, RecorderFacts, Own, AwaitsOne, TypeOK
<1> QED BY <1>1, PartsKnown, Invariance, PTL

(* Consumer.java with the recorders behind it: a trade below the committed *)
(* offset is in a database, unless a failed relay or a reset to "latest"   *)
(* is on record as having passed it over.                                  *)
THEOREM CommittedIsRecorded == Spec => []CommittedIsRecordedOrGivenUp
<1>1. ProcessorFacts /\ Own => CommittedIsRecordedOrGivenUp
  <2> SUFFICES ASSUME ProcessorFacts, Own, NEW o \in Offsets,
                      o < committed, o \notin abandoned \cup skipped
               PROVE  Recorded(TradeAt(o))
    BY DEF CommittedIsRecordedOrGivenUp
  <2>1. committed \in Int /\ o \in Int /\ o >= 0
    BY DEF ProcessorFacts, P!TypeOK, P!End, Offsets
  <2>2. o \in relayed
    BY <2>1 DEF ProcessorFacts
  <2> QED BY <2>2 DEF Own, RelayedIsRecorded
<1> QED BY <1>1, PartsKnown, Invariance, PTL

(* What the recorders answer and announce is right on the path as well.    *)
THEOREM AnswersHold == Spec => [](OkMeansRecorded /\ NotifierFindsTrade)
<1>1. R!Spec => RR!RecordersAssumption /\ RR!Spec
  BY ConstantsFit, SameRecorders
<1>2. RR!OkMeansRecorded /\ RR!NotifierFindsTrade => OkMeansRecorded /\ NotifierFindsTrade
  BY DEF RR!OkMeansRecorded, RR!NotifierFindsTrade, RR!At, RR!DbOf, OkMeansRecorded,
         NotifierFindsTrade, R!OkMeansRecorded, R!NotifierFindsTrade, R!At, R!DbOf
<1> QED
  BY <1>1, <1>2, ImplementsParts, RR!OkIsRecorded, RR!NotifierFinds, PTL

(* A trade is in both databases only after processor-in lost the partition *)
(* between two relays of it: router and recorders never cause it alone.    *)
THEOREM TwoRowsNeedTwoJoins == Spec => []DuplicateRowsNeedRejoin
<1>1. ProcessorFacts /\ RecorderFacts /\ Own => DuplicateRowsNeedRejoin
  <2> SUFFICES ASSUME ProcessorFacts, RecorderFacts, Own,
                      NEW t \in rows["postgresql"] \cap rows["mysql"]
               PROVE  joins >= 2
    BY DEF DuplicateRowsNeedRejoin
  <2>1. t \in Trades /\ routed[t] \in Nat /\ routed[t] >= 2
    BY Typed DEF RecorderFacts, R!TypeOK, R!Databases
  <2>2. PICK i \in 1 .. Len(log) : log[i] = t
    BY <2>1 DEF Own, RoutedIsSent
  <2>3. i - 1 \in P!Offsets /\ sent[i - 1] \in Nat
    BY LogFits DEF Own
  <2>4. routed[t] <= sent[i - 1] /\ sent[i - 1] <= joins
    BY <2>2, <2>3 DEF Own, RoutedIsSent, ProcessorFacts
  <2> QED BY <2>1, <2>3, <2>4, Typed
<1> QED BY <1>1, PartsKnown, Invariance, PTL

(* Consumer.java:124-139: while nothing has failed around it, a trade the  *)
(* tables refuse takes down with it at most the rest of its own poll.      *)
THEOREM CollateralIsBounded == Spec => []CollateralStaysInBatch
<1>1. Own => CollateralStaysInBatch
  BY DEF Own
<1> QED BY <1>1, Invariance, PTL
=============================================================================
