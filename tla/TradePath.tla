------------------------------ MODULE TradePath ------------------------------
(***************************************************************************)
(* The path of a trade from the POST at processor-out to a database row:   *)
(* Processor.tla, whose HTTP callee is the router of Recorders.tla         *)
(* (NOTIFIER_ENDPOINT of processor-in is http://router:9000/record).       *)
(* httpNotify is synchronous, so processor-in waits for one call at a      *)
(* time; calls it no longer waits for may still be at work.                *)
(***************************************************************************)
EXTENDS Integers, Sequences, FiniteSets

CONSTANTS Trades, MaxPoll, MaxUpsets, Refused, Routes, Calls, MaxRoutes, MaxFaults

VARIABLES
  accepted, buffer, log, logStart, committed, pc, member, position, next, last,
  wakeup, stopping, relayed, abandoned, skipped, sent, joins, upsets,
  rows, call, routed, notified, sold, missed, faults,
  current  (* the call httpNotify waits for, or None *)

CONSTANT None

P == INSTANCE Processor
R == INSTANCE Recorders

(* The assumptions of the two parts, and that None is no call. *)
ASSUME TradePathAssumption ==
  /\ None \notin Calls
  /\ IsFiniteSet(Trades) /\ MaxPoll \in Nat \ {0} /\ MaxUpsets \in Nat
  /\ Refused \subseteq Trades /\ Routes \in [Trades -> (SUBSET R!Services) \ {{}}]
  /\ MaxRoutes \in Nat /\ MaxFaults \in Nat

processorVars ==
  <<accepted, buffer, log, logStart, committed, pc, member, position, next, last,
    wakeup, stopping, relayed, abandoned, skipped, sent, joins, upsets>>
recorderVars == <<rows, call, routed, notified, sold, missed, faults>>
vars == <<processorVars, recorderVars, current>>

Init == P!Init /\ R!Init /\ current = None

(* Faulty variants, for the mutation checks only: httpNotify without its   *)
(* check of the status, and a killed process whose call is still awaited.  *)
MutAnsweredAnyStatus ==
  /\ current # None
  /\ P!RelayReturn(TRUE)
  /\ R!Reply(current)
  /\ current' = None

MutKillStillAwaited ==
  /\ P!Kill
  /\ UNCHANGED <<recorderVars, current>>

(* httpNotify sends the record to the router, ... *)
Send ==
  /\ P!RelayStart
  /\ \E c \in Calls : R!Route(c, log[next + 1]) /\ current' = c

(* ... gets the recorder's answer, ... *)
Answered ==
  /\ current # None
  /\ P!RelayReturn(call[current].status < 400)
  /\ R!Reply(current)
  /\ current' = None

(* ... or the router's 504. *)
TimedOut ==
  /\ current # None
  /\ P!RelayReturn(FALSE)
  /\ R!Timeout(current)
  /\ current' = None

(* A killed processor-in leaves its call behind. *)
Kill ==
  /\ P!Kill
  /\ IF current = None THEN UNCHANGED recorderVars ELSE R!CallerGone(current)
  /\ current' = None

ProcessorStep == (P!Loop \/ P!Environment) /\ UNCHANGED <<recorderVars, current>>

RecorderStep == R!Work /\ UNCHANGED <<processorVars, current>>

Next == Send \/ Answered \/ TimedOut \/ Kill \/ ProcessorStep \/ RecorderStep

Spec == Init /\ [][Next]_vars

-----------------------------------------------------------------------------
Recorded(t) == \E d \in R!Databases : t \in rows[d]
Offsets     == 0 .. Len(log) - 1
TradeAt(o)  == log[o + 1]

(* Every variable keeps the range the code gives it; a call is awaited     *)
(* exactly while httpNotify waits for it.                                  *)
TypeOK ==
  /\ P!TypeOK /\ R!TypeOK
  /\ current \in Calls \cup {None}
  /\ (current # None) <=> (pc = "wait")
  /\ \A c \in Calls : ~R!At(c, "free") => (call[c].waiting <=> c = current)

(* Recorders.tla's properties, with processor-in for the caller.           *)
OkMeansRecorded    == R!OkMeansRecorded
NotifierFindsTrade == R!NotifierFindsTrade

(* Consumer.java with the recorders behind it: a trade below the committed *)
(* offset is in a database, unless a failed relay or a reset to "latest"   *)
(* is on record as having passed it over.  No timeout, crash, eviction or  *)
(* late write makes the group commit past a trade that is merely missing.  *)
CommittedIsRecordedOrGivenUp ==
  \A o \in Offsets :
    o < committed /\ o \notin abandoned \cup skipped => Recorded(TradeAt(o))

(* A trade is in both databases only after processor-in lost the partition *)
(* between two relays of it: router and recorders never cause it alone.    *)
DuplicateRowsNeedRejoin ==
  \A t \in rows["postgresql"] \cap rows["mysql"] : joins >= 2

(* Consumer.java:124-139: while nothing has failed around it, a trade the  *)
(* tables refuse takes down with it at most the rest of its own poll: a    *)
(* good trade is left behind only within MaxPoll of a refused one before.  *)
CollateralStaysInBatch ==
  faults = 0 /\ joins <= 1 =>
    \A o \in abandoned :
      \E bad \in 0 .. o : TradeAt(bad) \in Refused /\ o - bad < MaxPoll
=============================================================================
