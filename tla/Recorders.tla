------------------------------ MODULE Recorders ------------------------------
(***************************************************************************)
(* From the router to the databases: the router (src/src/router) proxies   *)
(* one call for a trade to recorder-java, recorder-go or recorder-go-zero; *)
(* the recorder writes the trade to its database, calls the notifier and   *)
(* answers.  The router stops waiting after proxyTimeout, and its caller   *)
(* may go away, while the recorder goes on.                                *)
(***************************************************************************)
EXTENDS Naturals, FiniteSets

CONSTANTS
  Trades,    (* trade ids                                                   *)
  Refused,   (* trades whose negative price or shares the tables' CHECKs    *)
             (* refuse                                                      *)
  Routes,    (* the services customRouter may pick for each trade           *)
  Calls,     (* proxied calls that may be under way together                *)
  MaxRoutes, (* bound: how often the caller sends one trade                 *)
  MaxFaults  (* bound: database errors, slow answers and crashed recorders  *)

Services  == {"recorder-java", "recorder-go", "recorder-go-zero"}
Databases == {"postgresql", "mysql"}

(* What is assumed of the constants; TradePathAssumption implies it.       *)
RecordersAssumption ==
  /\ Refused \subseteq Trades
  /\ Routes \in [Trades -> (SUBSET Services) \ {{}}]
  /\ MaxRoutes \in Nat
  /\ MaxFaults \in Nat

VARIABLES
  rows,      (* the primary keys of table trades in each database           *)
  call,      (* what each proxied call is doing                             *)
  routed,    (* how often each trade was routed: the router's transactions  *)
             (* counter and its redis counter                               *)
  notified,  (* <<service, trade>> that reached the notifier                *)
  sold,      (* trades the notifier found in PostgreSQL and logged as sold  *)
  missed,    (* trades it looked up there and did not find                  *)
  faults     (* failures so far                                             *)

vars == <<rows, call, routed, notified, sold, missed, faults>>

DbOf(svc) == IF svc = "recorder-go" THEN "mysql" ELSE "postgresql"

Stages == {"find", "write", "notify", "reply"}

(* A call: its stage, its trade and service, what JPA's merge found, the   *)
(* error the write returned, the status to be sent, and whether the router *)
(* still waits for it.                                                     *)
NoCall == [stage |-> "free"]
CallOf(t, svc) ==
  [stage |-> IF svc = "recorder-java" THEN "find" ELSE "write", trade |-> t,
   svc |-> svc, found |-> FALSE, err |-> FALSE, status |-> 0, waiting |-> TRUE]

At(c, stage)   == call[c].stage = stage
Serves(c, svc) == ~At(c, "free") /\ call[c].svc = svc
Fault          == faults < MaxFaults /\ faults' = faults + 1

Init ==
  /\ rows = [d \in Databases |-> {}]
  /\ call = [c \in Calls |-> NoCall]
  /\ routed = [t \in Trades |-> 0]
  /\ notified = {} /\ sold = {} /\ missed = {} /\ faults = 0

-----------------------------------------------------------------------------
(* Faulty variants of definitions below, for the mutation checks only.     *)

(* processTrade catches recordTrade's exception and goes on. *)
MutJavaWriteFailsQuietly(c) ==
  /\ Serves(c, "recorder-java") /\ At(c, "write")
  /\ Fault
  /\ call' = [call EXCEPT ![c].stage = "notify"]
  /\ UNCHANGED <<rows, routed, notified, sold, missed>>

(* The handler does not look at RecordTrade's error. *)
MutStatusIgnoresError(c) == 200

-----------------------------------------------------------------------------
(* customRouter counts the transaction and picks the host. *)
Route(c, t) ==
  /\ At(c, "free")
  /\ routed[t] < MaxRoutes
  /\ routed' = [routed EXCEPT ![t] = @ + 1]
  /\ \E svc \in Routes[t] : call' = [call EXCEPT ![c] = CallOf(t, svc)]
  /\ UNCHANGED <<rows, notified, sold, missed, faults>>

(* The router gives up on a call: proxyTimeout, or its own caller left. *)
Disconnect(c) ==
  /\ ~At(c, "free") /\ call[c].waiting
  /\ call' = [call EXCEPT ![c].waiting = FALSE]
  /\ UNCHANGED <<rows, routed, notified, sold, missed>>

Timeout(c) == Disconnect(c) /\ Fault
CallerGone(c) == Disconnect(c) /\ UNCHANGED faults

(* The answer reaches the router and its caller. *)
Reply(c) ==
  /\ At(c, "reply") /\ call[c].waiting
  /\ call' = [call EXCEPT ![c] = NoCall]
  /\ UNCHANGED <<rows, routed, notified, sold, missed, faults>>

(* The answer finds nobody waiting. *)
ReplyUnheard(c) ==
  /\ At(c, "reply") /\ ~call[c].waiting
  /\ call' = [call EXCEPT ![c] = NoCall]
  /\ UNCHANGED <<rows, routed, notified, sold, missed, faults>>

-----------------------------------------------------------------------------
(* The database.  INSERT is refused by a CHECK or by the primary key; any  *)
(* write may fail, and may then have been committed all the same.          *)

Insertable(c) ==
  /\ call[c].trade \notin Refused
  /\ call[c].trade \notin rows[DbOf(call[c].svc)]

InsertRow(c) == rows' = [rows EXCEPT ![DbOf(call[c].svc)] = @ \cup {call[c].trade}]

(* recorder-java: TradeRepo.save on an entity with an assigned key is a    *)
(* merge: SELECT, then INSERT when there was no row and UPDATE, to the     *)
(* same values, when there was.  A failed transaction throws: 500, and     *)
(* processTrade does not reach the notifier.                               *)
JavaFind(c) ==
  /\ Serves(c, "recorder-java") /\ At(c, "find")
  /\ call' = [call EXCEPT ![c].stage = "write",
                          ![c].found = call[c].trade \in rows["postgresql"]]
  /\ UNCHANGED <<rows, routed, notified, sold, missed, faults>>

JavaWrite(c) ==
  /\ Serves(c, "recorder-java") /\ At(c, "write")
  /\ IF call[c].found \/ Insertable(c)
     THEN /\ InsertRow(c)
          /\ call' = [call EXCEPT ![c].stage = "notify"]
     ELSE /\ call' = [call EXCEPT ![c].stage = "reply", ![c].err = TRUE,
                                  ![c].status = 500]
          /\ UNCHANGED rows
  /\ UNCHANGED <<routed, notified, sold, missed, faults>>

JavaWriteFails(c) ==
  /\ Serves(c, "recorder-java") /\ At(c, "write")
  /\ Fault
  /\ call' = [call EXCEPT ![c].stage = "reply", ![c].err = TRUE, ![c].status = 500]
  /\ \/ UNCHANGED rows
     \/ Insertable(c) /\ InsertRow(c)
  /\ UNCHANGED <<routed, notified, sold, missed>>

(* recorder-go and recorder-go-zero: one INSERT, run under the request's   *)
(* context, which is cancelled when the router has hung up; its error is   *)
(* kept and the notifier is called in any case.                            *)
GoInsert(c) ==
  /\ Serves(c, "recorder-go") \/ Serves(c, "recorder-go-zero")
  /\ At(c, "write")
  /\ IF Insertable(c) THEN InsertRow(c) ELSE UNCHANGED rows
  /\ call' = [call EXCEPT ![c].stage = "notify", ![c].err = ~Insertable(c)]
  /\ UNCHANGED <<routed, notified, sold, missed, faults>>

GoInsertFails(c) ==
  /\ Serves(c, "recorder-go") \/ Serves(c, "recorder-go-zero")
  /\ At(c, "write")
  /\ call' = [call EXCEPT ![c].stage = "notify", ![c].err = TRUE]
  /\ \/ UNCHANGED rows
     \/ Insertable(c) /\ InsertRow(c)
  /\ IF call[c].waiting THEN Fault ELSE UNCHANGED faults
  /\ UNCHANGED <<routed, notified, sold, missed>>

-----------------------------------------------------------------------------
(* The notifier.  Only recorder-java tells it trade and database: it looks *)
(* the trade up and logs it as sold if it is there.  A query that fails,   *)
(* for want of a connection say, is caught, and answered like any other.   *)

Asks(c) == call[c].svc = "recorder-java"
Sees(c) == call[c].trade \in rows["postgresql"]

Notified(c) ==
  /\ notified' = notified \cup {<<call[c].svc, call[c].trade>>}
  /\ \/ /\ sold' = IF Asks(c) /\ Sees(c) THEN sold \cup {call[c].trade} ELSE sold
        /\ missed' = IF Asks(c) /\ ~Sees(c) THEN missed \cup {call[c].trade} ELSE missed
        /\ UNCHANGED faults
     \/ Asks(c) /\ Fault /\ UNCHANGED <<sold, missed>>

(* The Go recorders call it under the request's context, which is          *)
(* cancelled when the router has hung up.                                  *)
NotifyFailed(c) ==
  /\ IF call[c].waiting \/ Asks(c) THEN Fault ELSE UNCHANGED faults
  /\ UNCHANGED <<notified, sold, missed>>

StatusOf(c) == IF call[c].err THEN 500 ELSE 200

(* TradeNotifier.notify catches everything. *)
JavaNotify(c) ==
  /\ Serves(c, "recorder-java") /\ At(c, "notify")
  /\ Notified(c) \/ NotifyFailed(c)
  /\ call' = [call EXCEPT ![c].stage = "reply", ![c].status = 200]
  /\ UNCHANGED <<rows, routed>>

(* notify of recorder-go-zero looks at the error before the response. *)
ZeroNotify(c) ==
  /\ Serves(c, "recorder-go-zero") /\ At(c, "notify")
  /\ Notified(c) \/ NotifyFailed(c)
  /\ call' = [call EXCEPT ![c].stage = "reply", ![c].status = StatusOf(c)]
  /\ UNCHANGED <<rows, routed>>

(* notify of recorder-go defers res.Body.Close() before it looks at the    *)
(* error: without a response that is a nil dereference, and gin's recovery *)
(* answers 500.                                                            *)
GoNotify(c) ==
  /\ Serves(c, "recorder-go") /\ At(c, "notify")
  /\ Notified(c)
  /\ call' = [call EXCEPT ![c].stage = "reply", ![c].status = StatusOf(c)]
  /\ UNCHANGED <<rows, routed>>

GoNotifyPanics(c) ==
  /\ Serves(c, "recorder-go") /\ At(c, "notify")
  /\ NotifyFailed(c)
  /\ call' = [call EXCEPT ![c].stage = "reply", ![c].status = 500]
  /\ UNCHANGED <<rows, routed>>

(* A recorder dies: the router answers 504 for the calls it waits for. *)
RecorderCrash(svc) ==
  /\ \E c \in Calls : Serves(c, svc) /\ ~At(c, "reply")
  /\ Fault
  /\ call' = [c \in Calls |->
                IF ~Serves(c, svc) THEN call[c]
                ELSE IF call[c].waiting
                THEN [call[c] EXCEPT !.stage = "reply", !.status = 504]
                ELSE NoCall]
  /\ UNCHANGED <<rows, routed, notified, sold, missed>>

-----------------------------------------------------------------------------
(* What the recorders do without their caller. *)
Work ==
  \/ \E c \in Calls :
       \/ JavaFind(c) \/ JavaWrite(c) \/ JavaWriteFails(c) \/ JavaNotify(c)
       \/ GoInsert(c) \/ GoInsertFails(c) \/ ZeroNotify(c)
       \/ GoNotify(c) \/ GoNotifyPanics(c) \/ ReplyUnheard(c)
  \/ \E svc \in Services : RecorderCrash(svc)

Next ==
  \/ Work
  \/ \E c \in Calls : Reply(c) \/ Timeout(c) \/ CallerGone(c)
  \/ \E c \in Calls, t \in Trades : Route(c, t)

Spec == Init /\ [][Next]_vars

-----------------------------------------------------------------------------
CallRecords ==
  [stage : Stages, trade : Trades, svc : Services, found : BOOLEAN,
   err : BOOLEAN, status : {0, 200, 500, 504}, waiting : BOOLEAN]

(* Every variable keeps the range the code gives it. *)
TypeOK ==
  /\ rows \in [Databases -> SUBSET Trades]
  /\ call \in [Calls -> CallRecords \cup {NoCall}]
  /\ routed \in [Trades -> 0 .. MaxRoutes]
  /\ notified \subseteq Services \X Trades
  /\ sold \subseteq Trades /\ missed \subseteq Trades
  /\ faults \in 0 .. MaxFaults

(* All three recorders: a 200 is only sent for a trade that is in the      *)
(* recorder's database, whatever other calls for it did meanwhile.         *)
OkMeansRecorded ==
  \A c \in Calls :
    At(c, "reply") /\ call[c].status = 200 => call[c].trade \in rows[DbOf(call[c].svc)]

(* TradeService.processTrade: recordTrade's transaction has committed when *)
(* the notifier is called, so every lookup of the notifier finds its       *)
(* trade, and no trade the tables refuse is ever logged as sold.           *)
NotifierFindsTrade == missed = {} /\ sold \cap Refused = {}

(* tradeNotifier.go:41-43 of recorder-go logs "notification error" as a    *)
(* warning and returns: a failed notification does not turn the answer for *)
(* a recorded trade into an error.                                         *)
NotifyErrorOnlyWarns ==
  \A c \in Calls :
    At(c, "reply") /\ call[c].svc = "recorder-go" /\ ~call[c].err
      => call[c].status # 500
=============================================================================
