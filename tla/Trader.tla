------------------------------- MODULE Trader -------------------------------
(***************************************************************************)
(* trader (src/src/trader): the threads of the Flask server that answer    *)
(* /trade/request, and the moving average of one symbol's price that they  *)
(* share without a lock.                                                   *)
(*                                                                         *)
(* CPython 3.12 lets another thread run when a function is called or       *)
(* entered, and not between a read and a write of one statement, so a step *)
(* goes from one call to the next.  In "self.sum -= self.values.pop(0)"    *)
(* the call stands between the read of sum and its write.                  *)
(*                                                                         *)
(* Objects live in a heap, because a reset drops the average from          *)
(* market_data while threads still hold it.                                *)
(***************************************************************************)
EXTENDS Integers, Sequences, FiniteSets

CONSTANTS
  Handlers,     (* threads of the server                                    *)
  Prices,       (* share prices                                             *)
  W,            (* MARKET_WINDOW_SIZE                                       *)
  Gate,         (* transactions before an old frontend is let in: 100       *)
  MaxRequests,  (* bound: calls of /trade/request                           *)
  MaxResets     (* bound: calls of /reset                                   *)

ASSUME TraderAssumption ==
  /\ IsFiniteSet(Handlers)
  /\ Prices # {} /\ Prices \subseteq Nat \ {0}
  /\ W \in Nat \ {0} /\ Gate \in Nat
  /\ MaxRequests \in Nat /\ MaxResets \in Nat

VARIABLES
  market,        (* market_data[symbol]: an object of the heap, 0 for none  *)
  heap,          (* the averages made so far                                *)
  transactions,  (* transactions                                            *)
  pc,            (* where each handler is                                   *)
  mine,          (* the average it works on                                 *)
  price,         (* share_price                                             *)
  saved,         (* self.sum less the popped value, about to be stored      *)
  resets,        (* resets so far                                           *)
  answer,        (* how its last request ended                              *)
  met            (* history: who else ran while it was in the model         *)

handler == <<pc, mine, price, saved, answer, met>>
vars == <<market, heap, transactions, handler, resets>>

InProcess == {"append", "add", "pop", "store", "divide"}
InModel   == {"look", "create", "get", "enter"} \cup InProcess
Places    == {"idle", "gate", "trade"} \cup InModel
Answers   == {"none", "traded", "blocked", "KeyError", "ZeroDivisionError", "other"}

(* An average: values and sum, and two histories: the prices it was given  *)
(* and how many handlers were inside process() at once.                    *)
Average == [values : Seq(Prices), sum : Int, given : Seq(Prices), crowd : Nat]
NewAverage == [values |-> <<>>, sum |-> 0, given |-> <<>>, crowd |-> 0]

Objects == DOMAIN heap
In(o, places) == {h \in Handlers : mine[h] = o /\ pc[h] \in places}

Init ==
  /\ market = 0 /\ heap = <<>> /\ transactions = 0 /\ resets = 0
  /\ pc = [h \in Handlers |-> "idle"]
  /\ mine = [h \in Handlers |-> 0]
  /\ price = [h \in Handlers |-> 0]
  /\ saved = [h \in Handlers |-> 0]
  /\ answer = [h \in Handlers |-> "none"]
  /\ met = [h \in Handlers |-> {}]

-----------------------------------------------------------------------------
Busy == {h \in Handlers : pc[h] \in InModel}

(* From one place to the next; an exception is Flask's answer 500.  A      *)
(* handler that is done with one of its variables has it at its Init value.*)
Go(h, from, to) ==
  /\ pc[h] = from
  /\ pc' = [pc EXCEPT ![h] = to]
  /\ UNCHANGED <<transactions, resets, met>>

End(h, from, how) ==
  /\ Go(h, from, "idle")
  /\ answer' = [answer EXCEPT ![h] = how]
  /\ mine' = [mine EXCEPT ![h] = 0]
  /\ price' = [price EXCEPT ![h] = 0]
  /\ UNCHANGED <<market, heap, saved>>

Request(h) ==
  /\ pc[h] = "idle" /\ transactions < MaxRequests
  /\ transactions' = transactions + 1
  /\ pc' = [pc EXCEPT ![h] = "gate"]
  /\ answer' = [answer EXCEPT ![h] = "none"]
  /\ UNCHANGED <<market, heap, mine, price, saved, met, resets>>

(* Frontends before version 1 are turned away for a while; the counter is  *)
(* read again for that.                                                    *)
TurnAway(h) ==
  /\ transactions < Gate
  /\ End(h, "gate", "blocked")

LetIn(h) ==
  /\ pc[h] = "gate"
  /\ pc' = [pc EXCEPT ![h] = "look"]
  /\ met' = [g \in Handlers |->
               IF g = h THEN IF Busy = {} THEN {} ELSE {"request"}
               ELSE IF g \in Busy THEN met[g] \cup {"request"} ELSE met[g]]
  /\ UNCHANGED <<market, heap, transactions, mine, price, saved, answer, resets>>

(* Faulty variant, for the mutation checks only: a reset empties the       *)
(* averages where they are.                                                *)
MutResetClears ==
  /\ resets < MaxResets
  /\ resets' = resets + 1
  /\ heap' = [o \in Objects |-> [heap[o] EXCEPT !.values = <<>>, !.sum = 0]]
  /\ met' = [g \in Handlers |-> IF g \in Busy THEN met[g] \cup {"reset"} ELSE met[g]]
  /\ UNCHANGED <<market, transactions, pc, mine, price, saved, answer>>

Reset ==
  /\ resets < MaxResets
  /\ resets' = resets + 1
  /\ market' = 0
  /\ met' = [g \in Handlers |-> IF g \in Busy THEN met[g] \cup {"reset"} ELSE met[g]]
  /\ UNCHANGED <<heap, transactions, pc, mine, price, saved, answer>>

(* "if symbol not in market_data"; the faulty variant, for the mutation    *)
(* checks only, has the branches the wrong way round.                      *)
MutLookAbsentGets(h) ==
  /\ market = 0
  /\ Go(h, "look", "get")
  /\ UNCHANGED <<market, heap, mine, price, saved, answer>>

LookAbsent(h) ==
  /\ market = 0
  /\ Go(h, "look", "create")
  /\ UNCHANGED <<market, heap, mine, price, saved, answer>>

Create(h) ==
  /\ Go(h, "create", "enter")
  /\ heap' = Append(heap, NewAverage)
  /\ market' = Len(heap')
  /\ \E p \in Prices : price' = [price EXCEPT ![h] = p]
  /\ UNCHANGED <<mine, saved, answer>>

LookPresent(h) ==
  /\ market # 0
  /\ Go(h, "look", "get")
  /\ mine' = [mine EXCEPT ![h] = market]
  /\ UNCHANGED <<market, heap, price, saved, answer>>

(* get() and the clamped random step from it. *)
Get(h) ==
  /\ Go(h, "get", "enter")
  /\ heap[mine[h]].values # <<>>
  /\ \E p \in Prices : price' = [price EXCEPT ![h] = p]
  /\ mine' = [mine EXCEPT ![h] = 0]
  /\ UNCHANGED <<market, heap, saved, answer>>

GetFails(h) ==
  /\ End(h, "get", "ZeroDivisionError")
  /\ heap[mine[h]].values = <<>>

(* market_data[symbol] is looked up again to call process(). *)
Enter(h) ==
  /\ market # 0
  /\ Go(h, "enter", "append")
  /\ mine' = [mine EXCEPT ![h] = market]
  /\ LET inside == Cardinality(In(market, InProcess) \cup {h})
     IN  heap' = [heap EXCEPT ![market].crowd = IF inside > @ THEN inside ELSE @]
  /\ UNCHANGED <<market, price, saved, answer>>

EnterFails(h) ==
  /\ market = 0
  /\ End(h, "enter", "KeyError")

(* self.values.append(value) *)
AppendValue(h) ==
  /\ Go(h, "append", "add")
  /\ heap' = [heap EXCEPT ![mine[h]].values = Append(@, price[h]),
                          ![mine[h]].given  = Append(@, price[h])]
  /\ UNCHANGED <<market, mine, price, saved, answer>>

(* Faulty variants, for the mutation checks only: the window is checked    *)
(* with ">=", ...                                                          *)
MutAddOffByOne(h) ==
  /\ Go(h, "add", IF Len(heap[mine[h]].values) >= W THEN "pop" ELSE "divide")
  /\ heap' = [heap EXCEPT ![mine[h]].sum = @ + price[h]]
  /\ price' = [price EXCEPT ![h] = 0]
  /\ UNCHANGED <<market, mine, saved, answer>>

(* ... the last value is popped instead of the first, ...                  *)
MutPopLast(h) ==
  /\ Go(h, "pop", "store")
  /\ LET a == heap[mine[h]]
     IN  /\ saved' = [saved EXCEPT ![h] = a.sum - a.values[Len(a.values)]]
         /\ heap' = [heap EXCEPT ![mine[h]].values = SubSeq(@, 1, Len(@) - 1)]
  /\ UNCHANGED <<market, mine, price, answer>>

(* ... the window is not checked at all.                                   *)
MutAddUnchecked(h) ==
  /\ Go(h, "add", "divide")
  /\ heap' = [heap EXCEPT ![mine[h]].sum = @ + price[h]]
  /\ price' = [price EXCEPT ![h] = 0]
  /\ UNCHANGED <<market, mine, saved, answer>>

(* self.sum += value; if len(self.values) > self.window_size *)
Add(h) ==
  /\ Go(h, "add", IF Len(heap[mine[h]].values) > W THEN "pop" ELSE "divide")
  /\ heap' = [heap EXCEPT ![mine[h]].sum = @ + price[h]]
  /\ price' = [price EXCEPT ![h] = 0]
  /\ UNCHANGED <<market, mine, saved, answer>>

(* self.sum -= self.values.pop(0), as far as the call; WindowHolds says     *)
(* that there is a value to pop ...                                        *)
Pop(h) ==
  /\ Go(h, "pop", "store")
  /\ LET a == heap[mine[h]]
     IN  saved' = [saved EXCEPT ![h] = a.sum - Head(a.values)]
  /\ heap' = [heap EXCEPT ![mine[h]].values = Tail(@)]
  /\ UNCHANGED <<market, mine, price, answer>>

(* ... and the rest of it, which loses what was added meanwhile. *)
Store(h) ==
  /\ Go(h, "store", "divide")
  /\ heap' = [heap EXCEPT ![mine[h]].sum = saved[h]]
  /\ saved' = [saved EXCEPT ![h] = 0]
  /\ UNCHANGED <<market, mine, price, answer>>

(* return float(self.sum) / len(self.values) *)
Divide(h) ==
  /\ Go(h, "divide", "trade")
  /\ heap[mine[h]].values # <<>>
  /\ mine' = [mine EXCEPT ![h] = 0]
  /\ UNCHANGED <<market, heap, price, saved, answer>>

DivideFails(h) ==
  /\ End(h, "divide", "ZeroDivisionError")
  /\ heap[mine[h]].values = <<>>

(* sim_decide may be told to raise; the POST of the trade may fail or time *)
(* out; what it answers is passed on.                                      *)
Trade(h) == \E how \in {"traded", "other"} : End(h, "trade", how)

Handle(h) ==
  \/ Request(h) \/ TurnAway(h) \/ LetIn(h)
  \/ LookAbsent(h) \/ Create(h) \/ LookPresent(h) \/ Get(h) \/ GetFails(h)
  \/ Enter(h) \/ EnterFails(h)
  \/ AppendValue(h) \/ Add(h) \/ Pop(h) \/ Store(h)
  \/ Divide(h) \/ DivideFails(h)
  \/ Trade(h)

Next == Reset \/ \E h \in Handlers : Handle(h)

Spec == Init /\ [][Next]_vars

-----------------------------------------------------------------------------
(* Every variable keeps the range the code gives it. *)
TypeOK ==
  /\ heap \in Seq(Average)
  /\ market \in {0} \cup Objects
  /\ transactions \in 0 .. MaxRequests /\ resets \in 0 .. MaxResets
  /\ pc \in [Handlers -> Places]
  /\ mine \in [Handlers -> {0} \cup Objects]
  /\ \A h \in Handlers : pc[h] \in {"get"} \cup InProcess => mine[h] # 0
  /\ price \in [Handlers -> {0} \cup Prices]
  /\ \A h \in Handlers : pc[h] \in {"enter", "append", "add"} => price[h] # 0
  /\ saved \in [Handlers -> Int]
  /\ answer \in [Handlers -> Answers]
  /\ met \in [Handlers -> SUBSET {"request", "reset"}]

(* model.py:21-24: however the handlers interleave, a window is over its   *)
(* size by no more values than there are handlers between their append and *)
(* their pop, and there is a value for each of those that are to pop: the  *)
(* window never grows for good, and pop(0) never fails.                    *)
WindowHolds ==
  \A o \in Objects :
    /\ Len(heap[o].values) <= W + Cardinality(In(o, {"add", "pop"}))
    /\ Len(heap[o].values) >= Cardinality(In(o, {"add", "pop"}))

(* model.py:20-25: an average that was given a price is empty again, which *)
(* makes every later request for the symbol fail, only if more handlers    *)
(* than the window has places were in process() at once.                   *)
EmptiedByCrowd ==
  \A o \in Objects :
    heap[o].given # <<>> /\ heap[o].values = <<>> => heap[o].crowd > W

(* The sum of a sequence of numbers. *)
SumOf(s) ==
  LET S[i \in 0 .. Len(s)] == IF i = 0 THEN 0 ELSE S[i - 1] + s[i]
  IN  S[Len(s)]

(* model.py:20-25: an average that one handler at a time worked on is the  *)
(* average of the last prices it was given, as many as the window holds.   *)
AloneIsAverage ==
  \A o \in Objects :
    heap[o].crowd <= 1 /\ In(o, InProcess) = {} =>
      LET n == Len(heap[o].given)
      IN  /\ heap[o].values = SubSeq(heap[o].given, IF n > W THEN n - W + 1 ELSE 1, n)
          /\ heap[o].sum = SumOf(heap[o].values)

(* model.py:57-67: the lookups fail only if the market was reset meanwhile *)
(* and the divisions only if another request was in the model meanwhile or *)
(* had emptied the window before.                                          *)
FailureHasACause ==
  \A h \in Handlers :
    /\ answer[h] = "KeyError" => "reset" \in met[h]
    /\ answer[h] = "ZeroDivisionError" =>
         "request" \in met[h] \/ \E o \in Objects : heap[o].crowd > W
=============================================================================
