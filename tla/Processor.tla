------------------------------ MODULE Processor ------------------------------
(***************************************************************************)
(* The processor program (src/src/processor) in its two deployed roles and *)
(* the Kafka partition between them.  processor-out takes a trade from the *)
(* trader on POST and hands it to an asynchronous KafkaProducer;           *)
(* processor-in polls the partition, relays each record over HTTP and then *)
(* commits.  The HTTP callee is the environment here: RelayReturn(ok) lets *)
(* it answer below 400 or fail.  TradePath.tla puts the router and the     *)
(* recorders in its place.                                                 *)
(*                                                                         *)
(* Offsets count from 0: the record at offset o is log[o + 1].             *)
(***************************************************************************)
EXTENDS Integers, Sequences, FiniteSets

CONSTANTS
  Trades,    (* the trades that are POSTed, each at most once (a fresh uuid) *)
  MaxPoll,   (* bound: records one poll returns                              *)
  MaxUpsets  (* bound: crashes, evictions, broker errors and SIGTERMs        *)

ASSUME ProcessorAssumption ==
  /\ IsFiniteSet(Trades)
  /\ MaxPoll \in Nat \ {0}
  /\ MaxUpsets \in Nat

NoOffset == -1

VARIABLES
  (* processor-out and the broker *)
  accepted,   (* trades answered 200 "NOTIFIED"                             *)
  buffer,     (* records in the KafkaProducer, not yet acknowledged         *)
  log,        (* the partition, oldest record first                         *)
  logStart,   (* first offset that retention has left in the partition      *)
  committed,  (* the group's committed offset, or NoOffset                  *)
  (* processor-in: the thread in Consumer.run and its KafkaConsumer *)
  pc,         (* where the thread stands                                    *)
  member,     (* it holds the partition for its group                       *)
  position,   (* next offset its poll will fetch                            *)
  next,       (* next offset of the polled batch to relay                   *)
  last,       (* last offset of the polled batch                            *)
  wakeup,     (* wakeup() was called and no call has thrown for it yet      *)
  stopping,   (* the shutdown hook ran and waits in mainThread.join()       *)
  (* history *)
  relayed,    (* offsets whose httpNotify returned                          *)
  abandoned,  (* offsets a failed httpNotify left behind in its batch       *)
  skipped,    (* offsets passed over by a reset to "latest"                 *)
  sent,       (* how often each offset was sent                             *)
  joins,      (* how often the partition was assigned                       *)
  upsets      (* environment failures so far                                *)

brokerVars == <<accepted, buffer, log, logStart>>
threadVars == <<pc, member, position, next, last, wakeup, stopping>>
histVars   == <<relayed, abandoned, skipped, sent, joins>>
vars       == <<brokerVars, committed, threadVars, histVars, upsets>>

Offsets   == 0 .. Cardinality(Trades) - 1
Places    == {"down", "poll", "relay", "wait", "commit", "closing", "closed"}
Batch     == next .. last
End       == Len(log)

(* The environment may upset the system while the bound lasts. *)
Upset == upsets < MaxUpsets /\ upsets' = upsets + 1

Init ==
  /\ accepted = {} /\ buffer = <<>> /\ log = <<>> /\ logStart = 0
  /\ committed = NoOffset
  /\ pc = "down" /\ member = FALSE /\ position = NoOffset
  /\ next = 0 /\ last = -1
  /\ wakeup = FALSE /\ stopping = FALSE
  /\ relayed = {} /\ abandoned = {} /\ skipped = {}
  /\ sent = [o \in Offsets |-> 0] /\ joins = 0 /\ upsets = 0

-----------------------------------------------------------------------------
(* Faulty variants of actions below, for the mutation checks only.         *)

(* auto.offset.reset wins over the committed offset. *)
MutPollJoinFromStart ==
  /\ pc = "poll" /\ ~wakeup /\ ~member
  /\ member' = TRUE
  /\ joins' = joins + 1
  /\ position' = 0
  /\ UNCHANGED <<brokerVars, committed, pc, next, last, wakeup, stopping,
                 relayed, abandoned, skipped, sent, upsets>>

(* The end of the log is missed by one. *)
MutPollRecordsPastEnd ==
  /\ pc = "poll" /\ ~wakeup /\ member
  /\ position >= logStart
  /\ \E n \in 1 .. MaxPoll :
       /\ position + n <= End + 1
       /\ next' = position
       /\ last' = position + n - 1
       /\ position' = position + n
  /\ pc' = "relay"
  /\ UNCHANGED <<brokerVars, committed, member, wakeup, stopping, histVars, upsets>>

(* commitSync stands before the loop. *)
MutRelayStartCommitted ==
  /\ pc = "relay"
  /\ sent' = [sent EXCEPT ![next] = @ + 1]
  /\ pc' = "wait"
  /\ committed' = IF member THEN position ELSE committed
  /\ UNCHANGED <<brokerVars, member, position, next, last, wakeup,
                 stopping, relayed, abandoned, skipped, joins, upsets>>

(* A failed record is sent again at once. *)
MutRelayReturnRetrying(ok) ==
  /\ pc = "wait"
  /\ pc' = IF ok /\ next = last THEN "commit" ELSE "relay"
  /\ next' = IF ok THEN next + 1 ELSE next
  /\ relayed' = IF ok THEN relayed \cup {next} ELSE relayed
  /\ UNCHANGED <<brokerVars, committed, member, position, last, wakeup, stopping,
                 abandoned, skipped, sent, joins, upsets>>

(* The offset of the last record is committed, not the one after it. *)
MutCommitDoneLast ==
  /\ pc = "commit" /\ ~wakeup /\ member
  /\ committed' = IF position - 1 > committed THEN position - 1 ELSE committed
  /\ pc' = "poll"
  /\ UNCHANGED <<brokerVars, member, position, next, last, wakeup, stopping,
                 histVars, upsets>>

(* A failed record makes the consumer seek to the end of the log. *)
MutRelayReturnSeeking(ok) ==
  /\ pc = "wait"
  /\ IF ok
     THEN /\ relayed' = relayed \cup {next}
          /\ next' = next + 1
          /\ pc' = IF next = last THEN "commit" ELSE "relay"
          /\ UNCHANGED <<last, abandoned, position>>
     ELSE /\ abandoned' = abandoned \cup next .. End - 1
          /\ position' = End
          /\ next' = 0 /\ last' = -1
          /\ pc' = "poll"
          /\ UNCHANGED relayed
  /\ UNCHANGED <<brokerVars, committed, member, wakeup, stopping,
                 skipped, sent, joins, upsets>>

-----------------------------------------------------------------------------
(* processor-out.  The controller answers 200 as soon as Producer.notify   *)
(* returns: before the broker has the record, and also when send() itself  *)
(* threw, because notify swallows the exception.                           *)

Notify(t) ==
  /\ t \notin accepted
  /\ accepted' = accepted \cup {t}
  /\ buffer' = Append(buffer, t)
  /\ UNCHANGED <<log, logStart, committed, threadVars, histVars, upsets>>

NotifySwallowed(t) ==
  /\ t \notin accepted
  /\ Upset
  /\ accepted' = accepted \cup {t}
  /\ UNCHANGED <<buffer, log, logStart, committed, threadVars, histVars>>

(* The broker appends the oldest pending record, or the producer gives it  *)
(* up: onCompletion only logs, so the record is gone.                      *)
Acknowledge ==
  /\ buffer # <<>>
  /\ log' = Append(log, Head(buffer))
  /\ buffer' = Tail(buffer)
  /\ UNCHANGED <<accepted, logStart, committed, threadVars, histVars, upsets>>

GiveUpSend ==
  /\ buffer # <<>>
  /\ Upset
  /\ buffer' = Tail(buffer)
  /\ UNCHANGED <<accepted, log, logStart, committed, threadVars, histVars>>

CrashOut ==
  /\ buffer # <<>>
  /\ Upset
  /\ buffer' = <<>>
  /\ UNCHANGED <<accepted, log, logStart, committed, threadVars, histVars>>

(* The topic keeps a record for five minutes only. *)
Retain ==
  /\ logStart < End
  /\ Upset
  /\ logStart' \in logStart + 1 .. End
  /\ UNCHANGED <<accepted, buffer, log, committed, threadVars, histVars>>

-----------------------------------------------------------------------------
(* processor-in: Consumer.run, between its calls into the KafkaConsumer.   *)

Start ==
  /\ pc = "down"
  /\ pc' = "poll"
  /\ UNCHANGED <<brokerVars, committed, member, position, next, last, wakeup,
                 stopping, histVars, upsets>>

(* poll() rejoins the group when it has no partition: it resumes at the    *)
(* committed offset or, where there is none, at the end of the log.        *)
PollJoin ==
  /\ pc = "poll" /\ ~wakeup /\ ~member
  /\ member' = TRUE
  /\ joins' = joins + 1
  /\ position' = IF committed = NoOffset THEN End ELSE committed
  /\ skipped' = IF committed = NoOffset THEN skipped \cup 0 .. End - 1 ELSE skipped
  /\ UNCHANGED <<brokerVars, committed, pc, next, last, wakeup, stopping,
                 relayed, abandoned, sent, upsets>>

(* The position fell out of the retained log: reset to "latest". *)
PollOutOfRange ==
  /\ pc = "poll" /\ ~wakeup /\ member
  /\ position < logStart
  /\ position' = End
  /\ skipped' = skipped \cup position .. End - 1
  /\ UNCHANGED <<brokerVars, committed, pc, member, next, last, wakeup, stopping,
                 relayed, abandoned, sent, joins, upsets>>

PollRecords ==
  /\ pc = "poll" /\ ~wakeup /\ member
  /\ position >= logStart
  /\ \E n \in 1 .. MaxPoll :
       /\ position + n <= End
       /\ next' = position
       /\ last' = position + n - 1
       /\ position' = position + n
  /\ pc' = "relay"
  /\ UNCHANGED <<brokerVars, committed, member, wakeup, stopping, histVars, upsets>>

(* 100 ms passed without a record: the for loop is empty and commitSync    *)
(* runs all the same.                                                      *)
PollEmpty ==
  /\ pc = "poll" /\ ~wakeup /\ member
  /\ position >= logStart
  /\ pc' = "commit"
  /\ UNCHANGED <<brokerVars, committed, member, position, next, last, wakeup,
                 stopping, histVars, upsets>>

(* WakeupException out of poll() leaves the loop; so does any other        *)
(* exception poll() throws.                                                *)
PollWakeup ==
  /\ pc = "poll" /\ wakeup
  /\ wakeup' = FALSE
  /\ pc' = "closing"
  /\ UNCHANGED <<brokerVars, committed, member, position, next, last, stopping,
                 histVars, upsets>>

PollError ==
  /\ pc = "poll"
  /\ Upset
  /\ pc' = "closing"
  /\ UNCHANGED <<brokerVars, committed, member, position, next, last, wakeup,
                 stopping, histVars>>

RelayStart ==
  /\ pc = "relay"
  /\ sent' = [sent EXCEPT ![next] = @ + 1]
  /\ pc' = "wait"
  /\ UNCHANGED <<brokerVars, committed, member, position, next, last, wakeup,
                 stopping, relayed, abandoned, skipped, joins, upsets>>

(* httpNotify returns, or throws (connection error or status >= 400): the  *)
(* exception leaves the for loop, so the rest of the batch is not relayed  *)
(* and commitSync is not reached.                                          *)
RelayReturn(ok) ==
  /\ pc = "wait"
  /\ IF ok
     THEN /\ relayed' = relayed \cup {next}
          /\ next' = next + 1
          /\ pc' = IF next = last THEN "commit" ELSE "relay"
          /\ UNCHANGED <<last, abandoned>>
     ELSE /\ abandoned' = abandoned \cup Batch
          /\ next' = 0 /\ last' = -1
          /\ pc' = "poll"
          /\ UNCHANGED relayed
  /\ UNCHANGED <<brokerVars, committed, member, position, wakeup, stopping,
                 skipped, sent, joins, upsets>>

(* commitSync commits the position, that is: everything ever polled. *)
CommitDone ==
  /\ pc = "commit" /\ ~wakeup /\ member
  /\ committed' = position
  /\ pc' = "poll"
  /\ UNCHANGED <<brokerVars, member, position, next, last, wakeup, stopping,
                 histVars, upsets>>

(* A wakeup during commitSync is thrown there, and the inner catch takes   *)
(* it; the request may have reached the broker.                            *)
CommitWakeup ==
  /\ pc = "commit" /\ wakeup
  /\ wakeup' = FALSE
  /\ pc' = "poll"
  /\ committed' \in {committed} \cup (IF member THEN {position} ELSE {})
  /\ UNCHANGED <<brokerVars, member, position, next, last, stopping, histVars,
                 upsets>>

(* The broker refuses a commit of a consumer it has evicted. *)
CommitEvicted ==
  /\ pc = "commit" /\ ~wakeup /\ ~member
  /\ pc' = "poll"
  /\ UNCHANGED <<brokerVars, committed, member, position, next, last, wakeup,
                 stopping, histVars, upsets>>

(* commitSync times out; the broker may have done it or not. *)
CommitTimeout ==
  /\ pc = "commit" /\ member
  /\ Upset
  /\ pc' = "poll"
  /\ committed' \in {committed, position}
  /\ UNCHANGED <<brokerVars, member, position, next, last, wakeup, stopping,
                 histVars>>

(* close() leaves the group; with auto-commit off it commits nothing. *)
Close ==
  /\ pc = "closing"
  /\ member' = FALSE
  /\ pc' = "closed"
  /\ UNCHANGED <<brokerVars, committed, position, next, last, wakeup, stopping,
                 histVars, upsets>>

-----------------------------------------------------------------------------
(* The process around the thread.                                          *)

(* SIGTERM: the hook calls consumer.wakeup() and joins the main thread. *)
Shutdown ==
  /\ pc # "down" /\ ~stopping
  /\ Upset
  /\ stopping' = TRUE
  /\ wakeup' = TRUE
  /\ UNCHANGED <<brokerVars, committed, pc, member, position, next, last, histVars>>

(* What a new process starts from. *)
FreshThread ==
  /\ pc' = "down" /\ member' = FALSE /\ position' = NoOffset
  /\ next' = 0 /\ last' = -1
  /\ wakeup' = FALSE /\ stopping' = FALSE

(* The main thread has ended, so the hook's join returns. *)
Exit ==
  /\ stopping /\ pc = "closed"
  /\ FreshThread
  /\ UNCHANGED <<brokerVars, committed, histVars, upsets>>

Kill ==
  /\ pc # "down"
  /\ Upset
  /\ FreshThread
  /\ UNCHANGED <<brokerVars, committed, histVars>>

(* max.poll.interval.ms passes while a batch is being relayed. *)
Evict ==
  /\ pc \in {"relay", "wait", "commit"} /\ member
  /\ Upset
  /\ member' = FALSE
  /\ UNCHANGED <<brokerVars, committed, pc, position, next, last, wakeup,
                 stopping, histVars>>

-----------------------------------------------------------------------------
Loop ==
  \/ Start \/ PollJoin \/ PollOutOfRange \/ PollRecords \/ PollEmpty
  \/ PollWakeup \/ CommitDone \/ CommitWakeup \/ CommitEvicted \/ Close \/ Exit

Thread == Loop \/ RelayStart

Environment ==
  \/ \E t \in Trades : Notify(t) \/ NotifySwallowed(t)
  \/ Acknowledge \/ GiveUpSend \/ CrashOut \/ Retain
  \/ PollError \/ CommitTimeout \/ Shutdown \/ Evict

Next ==
  \/ Thread
  \/ \E ok \in BOOLEAN : RelayReturn(ok)
  \/ Kill
  \/ Environment

Spec == Init /\ [][Next]_vars

(* The thread keeps running, the pod is restarted, the broker answers, an  *)
(* HTTP call ends (the router's proxyTimeout, or a broken connection), and *)
(* a poll does not come back empty for ever while records are waiting.     *)
Fairness ==
  /\ WF_vars(Thread)
  /\ WF_vars(\E ok \in BOOLEAN : RelayReturn(ok))
  /\ SF_vars(PollRecords)

FairSpec == Spec /\ Fairness

-----------------------------------------------------------------------------
(* Every variable keeps the range the code gives it. *)
TypeOK ==
  /\ accepted \subseteq Trades
  /\ buffer \in Seq(Trades)
  /\ log \in Seq(Trades)
  /\ logStart \in 0 .. End
  /\ committed \in -1 .. End
  /\ pc \in Places
  /\ member \in BOOLEAN
  /\ position \in -1 .. End
  /\ next \in 0 .. End
  /\ last \in -1 .. End - 1
  /\ wakeup \in BOOLEAN
  /\ stopping \in BOOLEAN
  /\ relayed \subseteq 0 .. End - 1
  /\ abandoned \subseteq 0 .. End - 1
  /\ skipped \subseteq 0 .. End - 1
  /\ sent \in [Offsets -> Nat]
  /\ joins \in Nat
  /\ upsets \in 0 .. MaxUpsets

(* What became of an offset: its relay returned, a failed relay left it    *)
(* behind with a logged warning, or a reset to "latest" passed over it.    *)
Accounted == relayed \cup abandoned \cup skipped

(* Consumer.java:122-139: the committed offset covers no record whose fate *)
(* is still open.  A crash, an eviction or a lost commit may repeat work,  *)
(* but nothing below the committed offset was silently left out.           *)
CommitCoversAccounted == 0 .. committed - 1 \subseteq Accounted

(* Consumer.java:124-136: a record is sent at most once for each time the  *)
(* group assigned the partition: neither a failed batch nor a failed       *)
(* commit makes the same membership repeat a record.                       *)
OncePerJoin == \A o \in Offsets : sent[o] <= joins

(* Consumer.java:122,135: the committed offset never moves back, over      *)
(* restarts, evictions and resets to "latest".                             *)
CommitNeverRetreats == [][committed' >= committed]_vars

(* The consumer implements the promise of Delivery.tla: what is committed  *)
(* is settled, what httpNotify returned for is delivered, and what a       *)
(* failed batch or a reset to "latest" passed over is dropped.             *)
Settled == IF committed = NoOffset THEN 0 ELSE committed

D == INSTANCE Delivery WITH
       published <- End, settled <- Settled,
       delivered <- relayed, dropped <- abandoned \cup skipped

ImplementsDelivery == D!Spec

(* Consumer.java:120-140: as long as the consumer thread has not died in   *)
(* poll, every record that reaches the partition is eventually settled:    *)
(* the group commits past it.                                              *)
EveryRecordSettles ==
  \A o \in Offsets : End > o ~> (committed > o \/ pc = "closed")

(* Main.java:62 announces "Detected a shutdown, let's exit by calling      *)
(* consumer.wakeup()...": a process asked to stop stops.                   *)
ShutdownExits == stopping ~> ~stopping
=============================================================================
