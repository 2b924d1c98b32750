-------------------------- MODULE ProcessorProofs --------------------------
(***************************************************************************)
(* What Processor.tla promises, proved for every set of trades and every   *)
(* bound.  CommitCoversAccounted is not inductive: commitSync commits the  *)
(* consumer's position, so the position's own history has to be carried    *)
(* through the batch (BatchShape, PositionAccounted), and so has the count *)
(* of sends that OncePerJoin needs (UnsentAhead).                          *)
(***************************************************************************)
EXTENDS Processor, TLAPS

Relaying == pc \in {"relay", "wait"}

(* The open batch ends right before the position, above the commit; a      *)
(* member's position is an offset, never below the commit.                 *)
BatchShape ==
  /\ Relaying => committed <= next /\ next <= last /\ last = position - 1
  /\ pc = "commit" => 0 <= position
  /\ member => 0 <= position /\ committed <= position

(* Below the position, only the offsets of the open batch are undecided. *)
PositionAccounted ==
  \A o \in 0 .. position - 1 :
    o \in Accounted \/ (Relaying /\ next <= o /\ o <= last)

(* What this membership has still to send was sent in earlier ones only. *)
UnsentAhead ==
  \A o \in Offsets :
    /\ member /\ position <= o => sent[o] < joins
    /\ pc = "relay" /\ next <= o /\ o <= last => sent[o] < joins
    /\ pc = "wait" /\ next < o /\ o <= last => sent[o] < joins

IInv ==
  /\ TypeOK
  /\ BatchShape
  /\ CommitCoversAccounted
  /\ PositionAccounted
  /\ OncePerJoin
  /\ UnsentAhead

-----------------------------------------------------------------------------
(* The initial state. *)
LEMMA InitIInv == Init => IInv
<1> SUFFICES ASSUME Init PROVE IInv
    OBVIOUS
<1> USE ProcessorAssumption DEF Init, NoOffset
<1>1. TypeOK
  <2>1. log \in Seq(Trades) /\ buffer \in Seq(Trades) /\ End = 0
        BY DEF End
  <2>2. upsets \in 0 .. MaxUpsets /\ sent \in [Offsets -> Nat] /\ 0 .. -1 = {}
        OBVIOUS
  <2>3. /\ position \in -1 .. End /\ committed \in -1 .. End /\ logStart \in 0 .. End
        /\ next \in 0 .. End /\ last \in -1 .. End - 1
        BY <2>1
  <2> QED BY <2>1, <2>2, <2>3 DEF TypeOK, Places
<1>2. BatchShape
      BY DEF BatchShape, Relaying
<1>3. CommitCoversAccounted /\ PositionAccounted
      BY DEF CommitCoversAccounted, PositionAccounted
<1>4. OncePerJoin /\ UnsentAhead
      BY DEF OncePerJoin, UnsentAhead
<1> QED BY <1>1, <1>2, <1>3, <1>4 DEF IInv

(* The part of TypeOK that speaks of the consumer's thread. *)
ThreadTypeOK ==
  /\ pc \in Places
  /\ member \in BOOLEAN
  /\ position \in -1 .. End
  /\ next \in 0 .. End
  /\ last \in -1 .. End - 1
  /\ wakeup \in BOOLEAN
  /\ stopping \in BOOLEAN

(* A restart brings every variable of the thread back into range. *)
LEMMA FreshThreadType ==
  ASSUME TypeOK, FreshThread, UNCHANGED log
  PROVE  ThreadTypeOK'
<1>1. End \in Nat /\ End' = End
      BY DEF TypeOK, End
<1>2. /\ (pc \in Places)' /\ (member \in BOOLEAN)'
      /\ (wakeup \in BOOLEAN)' /\ (stopping \in BOOLEAN)'
      BY DEF FreshThread, Places
<1>3. (position \in -1 .. End)'
      BY <1>1 DEF FreshThread, NoOffset
<1>4. (next \in 0 .. End)'
      BY <1>1 DEF FreshThread
<1>5. (last \in -1 .. End - 1)'
      BY <1>1 DEF FreshThread
<1> QED BY <1>2, <1>3, <1>4, <1>5 DEF ThreadTypeOK

(* Counting one more send, of whatever offset, leaves a count per offset. *)
LEMMA OneMoreIsCounted ==
  ASSUME NEW S, NEW f \in [S -> Nat], NEW o
  PROVE  [f EXCEPT ![o] = f[o] + 1] \in [S -> Nat]
<1> DEFINE g == [f EXCEPT ![o] = f[o] + 1]
<1>1. CASE o \in S
      BY <1>1
<1>2. CASE o \notin S
  <2>1. g = f
        BY <1>2
  <2> QED BY <2>1
<1> QED BY <1>1, <1>2

(* No step of the processor or of its environment leaves the ranges. *)
LEMMA TypeStep ==
  ASSUME TypeOK, BatchShape, Next
  PROVE  TypeOK'
<1> USE ProcessorAssumption DEF brokerVars, threadVars, histVars
<1>1. CASE Start
       BY <1>1 DEF Start, TypeOK, Places, End
<1>2. CASE PollJoin
  <2>1. /\ (position \in -1 .. End)' /\ (member \in BOOLEAN)' /\ (joins \in Nat)'
        BY <1>2 DEF PollJoin, TypeOK, End, NoOffset
  <2>2. (skipped \subseteq 0 .. End - 1)'
        BY <1>2 DEF PollJoin, TypeOK, End
  <2> QED BY <1>2, <2>1, <2>2 DEF PollJoin, TypeOK, End
<1>3. CASE PollOutOfRange
  <2>1. (position \in -1 .. End)'
        BY <1>3 DEF PollOutOfRange, TypeOK, End
  <2>2. position \in Nat /\ End \in Nat /\ End' = End /\ skipped \subseteq 0 .. End - 1
        BY <1>3 DEF PollOutOfRange, TypeOK, BatchShape, End
  <2>3. skipped' = skipped \cup position .. End - 1
        BY <1>3 DEF PollOutOfRange
  <2>4. (skipped \subseteq 0 .. End - 1)'
        BY <2>2, <2>3
  <2> QED BY <1>3, <2>1, <2>4 DEF PollOutOfRange, TypeOK, End
<1>4. CASE PollRecords
       BY <1>4 DEF PollRecords, TypeOK, Places, End, BatchShape
<1>5. CASE PollEmpty
       BY <1>5 DEF PollEmpty, TypeOK, Places, End
<1>6. CASE PollWakeup
       BY <1>6 DEF PollWakeup, TypeOK, Places, End
<1>7. CASE CommitDone
       BY <1>7 DEF CommitDone, TypeOK, Places, End
<1>8. CASE CommitWakeup
       BY <1>8 DEF CommitWakeup, TypeOK, Places, End
<1>9. CASE CommitEvicted
       BY <1>9 DEF CommitEvicted, TypeOK, Places, End
<1>10. CASE Close
       BY <1>10 DEF Close, TypeOK, Places, End
<1>11. CASE Exit
       BY <1>11, FreshThreadType DEF Exit, ThreadTypeOK, TypeOK, End
<1>12. CASE RelayStart
  <2>1. sent \in [Offsets -> Nat]
        BY DEF TypeOK
  <2>2. sent' = [sent EXCEPT ![next] = sent[next] + 1]
        BY <1>12 DEF RelayStart
  <2>3. (sent \in [Offsets -> Nat])'
        BY <2>1, <2>2, OneMoreIsCounted DEF Offsets
  <2> QED BY <1>12, <2>3 DEF RelayStart, TypeOK, Places, End
<1>13. CASE Acknowledge
       BY <1>13 DEF Acknowledge, TypeOK, Places, End
<1>14. CASE GiveUpSend
       BY <1>14 DEF GiveUpSend, TypeOK, Places, End, Upset
<1>15. CASE CrashOut
       BY <1>15 DEF CrashOut, TypeOK, Places, End, Upset
<1>16. CASE Retain
       BY <1>16 DEF Retain, TypeOK, Places, End, Upset
<1>17. CASE PollError
       BY <1>17 DEF PollError, TypeOK, Places, End, Upset
<1>18. CASE CommitTimeout
       BY <1>18 DEF CommitTimeout, TypeOK, Places, End, Upset
<1>19. CASE Shutdown
       BY <1>19 DEF Shutdown, TypeOK, Places, End, Upset
<1>20. CASE Evict
  <2>1. (upsets \in 0 .. MaxUpsets)'
        BY <1>20 DEF Evict, Upset, TypeOK
  <2> QED BY <1>20, <2>1 DEF Evict, TypeOK, End
<1>21. CASE Kill
  <2>1. (upsets \in 0 .. MaxUpsets)'
        BY <1>21 DEF Kill, Upset, TypeOK
  <2> QED BY <1>21, <2>1, FreshThreadType DEF Kill, ThreadTypeOK, TypeOK, End
<1>22. ASSUME NEW t \in Trades, Notify(t)
       PROVE  TypeOK'
       BY <1>22 DEF Notify, TypeOK, End, Upset
<1>23. ASSUME NEW t \in Trades, NotifySwallowed(t)
       PROVE  TypeOK'
       BY <1>23 DEF NotifySwallowed, TypeOK, End, Upset
<1>24. ASSUME NEW ok \in BOOLEAN, RelayReturn(ok)
       PROVE  TypeOK'
  <2>1. (End \in Nat)' /\ End' = End
        BY <1>24 DEF RelayReturn, TypeOK, End
  <2>2. pc = "wait" /\ next \in 0 .. End - 1 /\ last \in 0 .. End - 1
        BY <1>24 DEF RelayReturn, TypeOK, BatchShape, Relaying, End
  <2>3. (next \in 0 .. End)' /\ (last \in -1 .. End - 1)' /\ (pc \in Places)'
        BY <1>24, <2>1, <2>2 DEF RelayReturn, Places
  <2>4. (relayed \subseteq 0 .. End - 1)' /\ (abandoned \subseteq 0 .. End - 1)'
    <3>1. relayed \subseteq 0 .. End - 1 /\ abandoned \subseteq 0 .. End - 1
          BY DEF TypeOK
    <3>2. CASE ok
          BY <1>24, <2>1, <2>2, <3>1, <3>2 DEF RelayReturn
    <3>3. CASE ~ ok
      <4>1. abandoned' = abandoned \cup next .. last /\ relayed' = relayed
            BY <1>24, <3>3 DEF RelayReturn, Batch
      <4> QED BY <2>1, <2>2, <3>1, <4>1
    <3> QED BY <3>2, <3>3
  <2> QED BY <1>24, <2>1, <2>3, <2>4 DEF RelayReturn, TypeOK
<1> QED
  BY <1>1, <1>2, <1>3, <1>4, <1>5, <1>6, <1>7, <1>8, <1>9, <1>10, <1>11, <1>12, <1>13, <1>14, <1>15, <1>16, <1>17, <1>18, <1>19, <1>20, <1>21, <1>22, <1>23, <1>24
  DEF Next, Thread, Loop, Environment

(* The batch and the position move together; the commit stays behind. *)
LEMMA BatchStep ==
  ASSUME TypeOK, BatchShape, Next
  PROVE  BatchShape'
<1> USE DEF TypeOK, BatchShape, Relaying, End, NoOffset, Upset,
       brokerVars, threadVars, histVars
<1>1. CASE Start
       BY <1>1 DEF Start
<1>2. CASE PollJoin
       BY <1>2 DEF PollJoin
<1>3. CASE PollOutOfRange
       BY <1>3 DEF PollOutOfRange
<1>4. CASE PollRecords
       BY <1>4 DEF PollRecords
<1>5. CASE PollEmpty
       BY <1>5 DEF PollEmpty
<1>6. CASE PollWakeup
       BY <1>6 DEF PollWakeup
<1>7. CASE CommitDone
       BY <1>7 DEF CommitDone
<1>8. CASE CommitWakeup
       BY <1>8 DEF CommitWakeup
<1>9. CASE CommitEvicted
       BY <1>9 DEF CommitEvicted
<1>10. CASE Close
       BY <1>10 DEF Close
<1>11. CASE Exit
       BY <1>11 DEF Exit, FreshThread
<1>12. CASE RelayStart
       BY <1>12 DEF RelayStart
<1>13. CASE Acknowledge
       BY <1>13 DEF Acknowledge
<1>14. CASE GiveUpSend
       BY <1>14 DEF GiveUpSend
<1>15. CASE CrashOut
       BY <1>15 DEF CrashOut
<1>16. CASE Retain
       BY <1>16 DEF Retain
<1>17. CASE PollError
       BY <1>17 DEF PollError
<1>18. CASE CommitTimeout
       BY <1>18 DEF CommitTimeout
<1>19. CASE Shutdown
       BY <1>19 DEF Shutdown
<1>20. CASE Evict
       BY <1>20 DEF Evict
<1>21. CASE Kill
       BY <1>21 DEF Kill, FreshThread
<1>22. ASSUME NEW t \in Trades, Notify(t)
       PROVE  BatchShape'
       BY <1>22 DEF Notify
<1>23. ASSUME NEW t \in Trades, NotifySwallowed(t)
       PROVE  BatchShape'
       BY <1>23 DEF NotifySwallowed
<1>24. ASSUME NEW ok \in BOOLEAN, RelayReturn(ok)
       PROVE  BatchShape'
  <2>1. CASE ok
        BY <1>24, <2>1 DEF RelayReturn
  <2>2. CASE ~ ok
        BY <1>24, <2>2 DEF RelayReturn
  <2> QED BY <2>1, <2>2
<1> QED
  BY <1>1, <1>2, <1>3, <1>4, <1>5, <1>6, <1>7, <1>8, <1>9, <1>10, <1>11, <1>12, <1>13, <1>14, <1>15, <1>16, <1>17, <1>18, <1>19, <1>20, <1>21, <1>22, <1>23, <1>24
  DEF Next, Thread, Loop, Environment

(* What the position leaves behind was relayed, abandoned or skipped. *)
LEMMA AccountedStep ==
  ASSUME TypeOK, BatchShape, CommitCoversAccounted, PositionAccounted, Next
  PROVE  CommitCoversAccounted' /\ PositionAccounted'
<1> USE DEF TypeOK, BatchShape, CommitCoversAccounted, PositionAccounted, Accounted,
       Relaying, End, NoOffset, Upset, brokerVars, threadVars, histVars
<1>1. CASE Start
       BY <1>1 DEF Start
<1>2. CASE PollJoin
       BY <1>2 DEF PollJoin
<1>3. CASE PollOutOfRange
       BY <1>3 DEF PollOutOfRange
<1>4. CASE PollRecords
       BY <1>4 DEF PollRecords
<1>5. CASE PollEmpty
       BY <1>5 DEF PollEmpty
<1>6. CASE PollWakeup
       BY <1>6 DEF PollWakeup
<1>7. CASE CommitDone
       BY <1>7 DEF CommitDone
<1>8. CASE CommitWakeup
       BY <1>8 DEF CommitWakeup
<1>9. CASE CommitEvicted
       BY <1>9 DEF CommitEvicted
<1>10. CASE Close
       BY <1>10 DEF Close
<1>11. CASE Exit
       BY <1>11 DEF Exit, FreshThread
<1>12. CASE RelayStart
       BY <1>12 DEF RelayStart
<1>13. CASE Acknowledge
       BY <1>13 DEF Acknowledge
<1>14. CASE GiveUpSend
       BY <1>14 DEF GiveUpSend
<1>15. CASE CrashOut
       BY <1>15 DEF CrashOut
<1>16. CASE Retain
       BY <1>16 DEF Retain
<1>17. CASE PollError
       BY <1>17 DEF PollError
<1>18. CASE CommitTimeout
       BY <1>18 DEF CommitTimeout
<1>19. CASE Shutdown
       BY <1>19 DEF Shutdown
<1>20. CASE Evict
       BY <1>20 DEF Evict
<1>21. CASE Kill
       BY <1>21 DEF Kill, FreshThread
<1>22. ASSUME NEW t \in Trades, Notify(t)
       PROVE  CommitCoversAccounted' /\ PositionAccounted'
       BY <1>22 DEF Notify
<1>23. ASSUME NEW t \in Trades, NotifySwallowed(t)
       PROVE  CommitCoversAccounted' /\ PositionAccounted'
       BY <1>23 DEF NotifySwallowed
<1>24. ASSUME NEW ok \in BOOLEAN, RelayReturn(ok)
       PROVE  CommitCoversAccounted' /\ PositionAccounted'
  <2>1. CASE ok
        BY <1>24, <2>1 DEF RelayReturn
  <2>2. CASE ~ ok
    <3>1. /\ abandoned' = abandoned \cup next .. last /\ relayed' = relayed
          /\ skipped' = skipped /\ committed' = committed /\ position' = position
          BY <1>24, <2>2 DEF RelayReturn, Batch
    <3>2. next \in Nat /\ last \in Int /\ position \in Int /\ committed \in Int
          OBVIOUS
    <3>3. Accounted' = Accounted \cup next .. last
          BY <3>1
    <3> QED BY <3>1, <3>2, <3>3 DEF Batch
  <2> QED BY <2>1, <2>2
<1> QED
  BY <1>1, <1>2, <1>3, <1>4, <1>5, <1>6, <1>7, <1>8, <1>9, <1>10, <1>11, <1>12, <1>13, <1>14, <1>15, <1>16, <1>17, <1>18, <1>19, <1>20, <1>21, <1>22, <1>23, <1>24
  DEF Next, Thread, Loop, Environment

(* A record is sent from the open batch, and a batch is never reopened. *)
LEMMA SentStep ==
  ASSUME TypeOK, BatchShape, OncePerJoin, UnsentAhead, Next
  PROVE  OncePerJoin' /\ UnsentAhead'
<1> USE DEF TypeOK, BatchShape, OncePerJoin, UnsentAhead, Relaying, End, NoOffset,
       Offsets, Upset, brokerVars, threadVars, histVars
<1>1. CASE Start
       BY <1>1 DEF Start
<1>2. CASE PollJoin
       BY <1>2, SMTT(30) DEF PollJoin
<1>3. CASE PollOutOfRange
       BY <1>3 DEF PollOutOfRange
<1>4. CASE PollRecords
       BY <1>4 DEF PollRecords
<1>5. CASE PollEmpty
       BY <1>5 DEF PollEmpty
<1>6. CASE PollWakeup
       BY <1>6 DEF PollWakeup
<1>7. CASE CommitDone
       BY <1>7 DEF CommitDone
<1>8. CASE CommitWakeup
       BY <1>8 DEF CommitWakeup
<1>9. CASE CommitEvicted
       BY <1>9 DEF CommitEvicted
<1>10. CASE Close
       BY <1>10 DEF Close
<1>11. CASE Exit
       BY <1>11 DEF Exit, FreshThread
<1>12. CASE RelayStart
  <2>1. /\ sent \in [Offsets -> Nat] /\ joins \in Nat /\ joins' = joins
        /\ pc = "relay" /\ pc' = "wait" /\ next' = next /\ last' = last
        /\ next \in Nat /\ next <= last /\ last = position - 1
        /\ position' = position /\ member' = member
        BY <1>12 DEF RelayStart
  <2>2. \A o \in Offsets :
          sent'[o] = IF o = next THEN sent[o] + 1 ELSE sent[o]
        BY <1>12, <2>1 DEF RelayStart
  <2> QED BY <2>1, <2>2
<1>13. CASE Acknowledge
       BY <1>13 DEF Acknowledge
<1>14. CASE GiveUpSend
       BY <1>14 DEF GiveUpSend
<1>15. CASE CrashOut
       BY <1>15 DEF CrashOut
<1>16. CASE Retain
       BY <1>16 DEF Retain
<1>17. CASE PollError
       BY <1>17 DEF PollError
<1>18. CASE CommitTimeout
       BY <1>18 DEF CommitTimeout
<1>19. CASE Shutdown
       BY <1>19 DEF Shutdown
<1>20. CASE Evict
       BY <1>20 DEF Evict
<1>21. CASE Kill
       BY <1>21 DEF Kill, FreshThread
<1>22. ASSUME NEW t \in Trades, Notify(t)
       PROVE  OncePerJoin' /\ UnsentAhead'
       BY <1>22 DEF Notify
<1>23. ASSUME NEW t \in Trades, NotifySwallowed(t)
       PROVE  OncePerJoin' /\ UnsentAhead'
       BY <1>23 DEF NotifySwallowed
<1>24. ASSUME NEW ok \in BOOLEAN, RelayReturn(ok)
       PROVE  OncePerJoin' /\ UnsentAhead'
       BY <1>24 DEF RelayReturn, Batch
<1> QED
  BY <1>1, <1>2, <1>3, <1>4, <1>5, <1>6, <1>7, <1>8, <1>9, <1>10, <1>11, <1>12, <1>13, <1>14, <1>15, <1>16, <1>17, <1>18, <1>19, <1>20, <1>21, <1>22, <1>23, <1>24
  DEF Next, Thread, Loop, Environment

(* Nothing changes in a stuttering step. *)
LEMMA StutterKeepsIInv == IInv /\ UNCHANGED vars => IInv'
<1> SUFFICES ASSUME IInv, UNCHANGED vars PROVE IInv'
    OBVIOUS
<1> USE DEF vars, brokerVars, threadVars, histVars
<1>1. TypeOK'
      BY DEF IInv, TypeOK, End
<1>2. BatchShape'
      BY DEF IInv, BatchShape, Relaying
<1>3. CommitCoversAccounted' /\ PositionAccounted'
      BY DEF IInv, CommitCoversAccounted, PositionAccounted, Accounted, Relaying
<1>4. OncePerJoin' /\ UnsentAhead'
      BY DEF IInv, OncePerJoin, UnsentAhead
<1> QED BY <1>1, <1>2, <1>3, <1>4 DEF IInv

(* The invariant is inductive, and so it holds. *)
LEMMA Inductive == IInv /\ [Next]_vars => IInv'
<1> SUFFICES ASSUME IInv, [Next]_vars PROVE IInv'
    OBVIOUS
<1>1. CASE Next
      BY <1>1, TypeStep, BatchStep, AccountedStep, SentStep DEF IInv
<1>2. CASE UNCHANGED vars
      BY <1>2, StutterKeepsIInv
<1> QED BY <1>1, <1>2

(* Every reachable state satisfies the invariant. *)
LEMMA Invariance == Spec => []IInv
  BY InitIInv, Inductive, PTL DEF Spec

-----------------------------------------------------------------------------
(* Every variable keeps the range the code gives it. *)
THEOREM TypeCorrect == Spec => []TypeOK
<1>1. IInv => TypeOK
      BY DEF IInv
<1> QED BY <1>1, Invariance, PTL

(* Consumer.java:122-139: the committed offset covers no record that was   *)
(* neither relayed nor given up, for any log, poll size and failure count. *)
THEOREM CommitIsHonest == Spec => []CommitCoversAccounted
<1>1. IInv => CommitCoversAccounted
      BY DEF IInv
<1> QED BY <1>1, Invariance, PTL

(* Consumer.java:124-136: one membership sends a record at most once. *)
THEOREM NoRepeatWithoutRejoin == Spec => []OncePerJoin
<1>1. IInv => OncePerJoin
      BY DEF IInv
<1> QED BY <1>1, Invariance, PTL

-----------------------------------------------------------------------------
(* Only a member's commitSync moves the committed offset, to its position. *)
LEMMA CommitStep ==
  ASSUME TypeOK, BatchShape, Next
  PROVE  \/ committed' = committed
         \/ /\ pc = "commit" /\ committed' = position /\ committed <= position
            /\ UNCHANGED <<log, relayed, abandoned, skipped>>
<1> USE DEF TypeOK, BatchShape, threadVars, brokerVars, histVars
<1>1. CASE Loop
      BY <1>1 DEF Loop, Start, PollJoin, PollOutOfRange, PollRecords, PollEmpty,
                  PollWakeup, CommitDone, CommitWakeup, CommitEvicted, Close, Exit
<1>2. CASE Environment
      BY <1>2 DEF Environment, Notify, NotifySwallowed, Acknowledge, GiveUpSend,
                  CrashOut, Retain, PollError, CommitTimeout, Shutdown, Evict
<1>3. CASE RelayStart \/ Kill \/ \E ok \in BOOLEAN : RelayReturn(ok)
      BY <1>3 DEF RelayStart, Kill, RelayReturn
<1> QED BY <1>1, <1>2, <1>3 DEF Next, Thread

(* Consumer.java:122,135: the committed offset never moves back. *)
THEOREM CommitMovesForward == Spec => CommitNeverRetreats
<1>1. IInv /\ [Next]_vars => [committed' >= committed]_vars
  <2> SUFFICES ASSUME IInv, Next PROVE committed' >= committed
      OBVIOUS
  <2>1. committed \in Int /\ position \in Int
        BY DEF IInv, TypeOK
  <2> QED BY <2>1, CommitStep DEF IInv
<1> QED BY <1>1, Invariance, PTL DEF Spec, CommitNeverRetreats

-----------------------------------------------------------------------------
(* The refinement of Delivery.tla, kind of step by kind of step.           *)

(* Steps that touch neither the log nor the fate of any record stutter. *)
LEMMA QuietSteps ==
  ASSUME UNCHANGED <<log, committed, relayed, abandoned, skipped>>
  PROVE  UNCHANGED D!vars
  BY DEF D!vars, Settled, End

(* The broker's append is the abstract log's. *)
LEMMA AcknowledgePublishes ==
  ASSUME TypeOK, Acknowledge
  PROVE  D!Publish
<1>1. End' = End + 1
      BY DEF Acknowledge, TypeOK, End
<1> QED BY <1>1 DEF Acknowledge, D!Publish, Settled, histVars

(* commitSync settles what the position has left behind; committing the    *)
(* same offset again is no step of the abstract log.                       *)
LEMMA CommitSettles ==
  ASSUME IInv, pc = "commit", committed' = position, committed <= position,
         UNCHANGED <<log, relayed, abandoned, skipped>>
  PROVE  (\E n \in 0 .. End : D!Settle(n)) \/ UNCHANGED D!vars
<1>1. /\ position \in 0 .. End /\ committed \in -1 .. End /\ End \in Nat
      /\ 0 .. position - 1 \subseteq Accounted
  <2>1. position \in 0 .. End /\ committed \in -1 .. End /\ End \in Nat
        BY DEF IInv, TypeOK, BatchShape, End
  <2> QED BY <2>1 DEF IInv, PositionAccounted, Relaying
<1>2. Settled' = position /\ Settled \in Nat /\ Settled <= position
      BY <1>1 DEF Settled, NoOffset
<1>3. CASE Settled = position
      BY <1>2, <1>3 DEF D!vars, End
<1>4. CASE Settled < position
  <2>1. D!Settle(position)
        BY <1>1, <1>2, <1>4 DEF D!Settle, Accounted, End
  <2> QED BY <1>1, <2>1
<1> QED BY <1>1, <1>2, <1>3, <1>4

(* A relay that returned delivers; one that failed drops its batch's rest. *)
LEMMA RelayDeliversOrDrops ==
  ASSUME IInv, NEW ok \in BOOLEAN, RelayReturn(ok)
  PROVE  \/ \E o \in 0 .. End - 1 : D!Deliver(o)
         \/ \E from, to \in 0 .. End - 1 : D!Drop(from, to)
<1>1. /\ next \in 0 .. End - 1 /\ last \in 0 .. End - 1 /\ Settled <= next
      /\ UNCHANGED <<log, committed, skipped>> /\ End \in Nat
  <2>1. End \in Nat /\ UNCHANGED <<log, committed, skipped>> /\ pc = "wait"
        BY DEF RelayReturn, IInv, TypeOK, End, brokerVars
  <2>2. /\ position \in -1 .. End /\ next \in 0 .. End
        /\ committed <= next /\ next <= last /\ last = position - 1
        /\ committed \in -1 .. End
        BY <2>1 DEF IInv, TypeOK, BatchShape, Relaying
  <2> QED BY <2>1, <2>2 DEF Settled, NoOffset
<1>2. UNCHANGED <<End, Settled>>
      BY <1>1 DEF End, Settled
<1>3. CASE ok
  <2>1. D!Deliver(next)
        BY <1>1, <1>2, <1>3 DEF RelayReturn, D!Deliver
  <2> QED BY <1>1, <2>1
<1>4. CASE ~ ok
  <2>1. abandoned' = abandoned \cup next .. last /\ relayed' = relayed
        BY <1>4 DEF RelayReturn, Batch
  <2>2. D!Drop(next, last)
        BY <1>1, <1>2, <2>1 DEF D!Drop
  <2> QED BY <1>1, <2>2
<1> QED BY <1>3, <1>4

(* A reset to "latest" drops the rest of the log. *)
LEMMA ResetDrops ==
  ASSUME IInv, PollJoin \/ PollOutOfRange
  PROVE  (\E from, to \in 0 .. End - 1 : D!Drop(from, to)) \/ UNCHANGED D!vars
<1>1. /\ End \in Nat /\ committed \in -1 .. End
      /\ UNCHANGED <<End, Settled, relayed, abandoned>>
  <2>1. UNCHANGED <<log, committed, relayed, abandoned>>
        BY DEF PollJoin, PollOutOfRange, brokerVars
  <2>2. UNCHANGED <<End, Settled>>
        BY <2>1 DEF End, Settled
  <2>3. End \in Nat /\ committed \in -1 .. End
        BY DEF IInv, TypeOK, End
  <2> QED BY <2>1, <2>2, <2>3
<1>2. CASE UNCHANGED skipped
      BY <1>1, <1>2 DEF D!vars
<1>3. CASE PollJoin /\ skipped' # skipped
  <2>1. /\ committed = NoOffset /\ Settled = 0
        /\ skipped' = skipped \cup 0 .. End - 1
        BY <1>3 DEF PollJoin, Settled
  <2>2. End # 0
        BY <1>1, <1>3, <2>1
  <2>3. D!Drop(0, End - 1)
        BY <1>1, <2>1, <2>2 DEF D!Drop
  <2> QED BY <1>1, <2>2, <2>3
<1>4. CASE PollOutOfRange
  <2>1. /\ position \in 0 .. End - 1 /\ Settled <= position
        /\ skipped' = skipped \cup position .. End - 1
    <3>1. /\ position \in 0 .. End /\ committed <= position /\ logStart \in 0 .. End
          /\ position < logStart
          BY <1>4 DEF PollOutOfRange, IInv, TypeOK, BatchShape
    <3>2. skipped' = skipped \cup position .. End - 1
          BY <1>4 DEF PollOutOfRange
    <3> QED BY <1>1, <3>1, <3>2 DEF Settled, NoOffset
  <2>2. D!Drop(position, End - 1)
        BY <1>1, <2>1 DEF D!Drop
  <2> QED BY <1>1, <2>1, <2>2
<1> QED BY <1>2, <1>3, <1>4

(* Every step is a step of the abstract log, or none. *)
LEMMA StepRefines ==
  ASSUME IInv, Next
  PROVE  D!Next \/ UNCHANGED D!vars
<1> USE DEF brokerVars, threadVars, histVars
<1>1. CASE Acknowledge
      BY <1>1, AcknowledgePublishes DEF IInv, D!Next
<1>2. CASE PollJoin \/ PollOutOfRange
      BY <1>2, ResetDrops DEF D!Next
<1>3. CASE \E ok \in BOOLEAN : RelayReturn(ok)
      BY <1>3, RelayDeliversOrDrops DEF D!Next
<1>4. CASE CommitDone \/ CommitWakeup \/ CommitTimeout
  <2>1. UNCHANGED <<log, relayed, abandoned, skipped>>
        BY <1>4 DEF CommitDone, CommitWakeup, CommitTimeout
  <2>2. CASE committed' = committed
        BY <2>1, <2>2, QuietSteps
  <2>3. CASE committed' # committed
        BY <2>1, <2>3, CommitStep, CommitSettles DEF IInv, D!Next
  <2> QED BY <2>2, <2>3
<1>5. CASE \/ Start \/ PollRecords \/ PollEmpty \/ PollWakeup \/ CommitEvicted
           \/ Close \/ Exit \/ RelayStart \/ Kill
           \/ \E t \in Trades : Notify(t) \/ NotifySwallowed(t)
           \/ GiveUpSend \/ CrashOut \/ Retain \/ PollError \/ Shutdown \/ Evict
  <2>1. UNCHANGED <<log, committed, relayed, abandoned, skipped>>
        BY <1>5 DEF Start, PollRecords, PollEmpty, PollWakeup, CommitEvicted, Close,
                    Exit, RelayStart, Kill, Notify, NotifySwallowed, GiveUpSend,
                    CrashOut, Retain, PollError, Shutdown, Evict
  <2> QED BY <2>1, QuietSteps
<1> QED BY <1>1, <1>2, <1>3, <1>4, <1>5 DEF Next, Thread, Loop, Environment

(* The consumer and its broker implement Delivery.tla: nothing is settled  *)
(* that was not delivered or visibly given up, and nothing settled is      *)
(* delivered again.                                                        *)
THEOREM ConsumerImplementsDelivery == Spec => ImplementsDelivery
<1>1. Init => D!Init
      BY DEF Init, D!Init, Settled, End
<1>2. IInv /\ [Next]_vars => [D!Next]_(D!vars)
  <2> SUFFICES ASSUME IInv, [Next]_vars PROVE D!Next \/ UNCHANGED D!vars
      OBVIOUS
  <2>1. CASE UNCHANGED vars
        BY <2>1, QuietSteps DEF vars, brokerVars, histVars
  <2> QED BY <2>1, StepRefines
<1> QED BY <1>1, <1>2, Invariance, PTL DEF Spec, ImplementsDelivery, D!Spec
=============================================================================
