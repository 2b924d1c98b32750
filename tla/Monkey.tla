------------------------------- MODULE Monkey -------------------------------
(***************************************************************************)
(* monkey (src/src/monkey/app.py) in one region: the REST switches that    *)
(* put errors, skews, flags and high throughput on and off, and the        *)
(* generator thread that draws a trade at a time and asks every table of   *)
(* switches about it.  Nothing is locked: a handler changes its tables one *)
(* access at a time, and the thread looks into a table and comes back to   *)
(* it later, while they change or are rebound to new ones.  What the       *)
(* thread does not catch ends it, and nothing starts it again.             *)
(*                                                                         *)
(* A switch is modelled by what the thread reads of it: its "oneshot" and  *)
(* whether "start" is ERROR_TIMEOUT_S ago; "bare" is a record without the  *)
(* key "oneshot".                                                          *)
(***************************************************************************)
EXTENDS Naturals, Sequences, FiniteSets

CONSTANTS
  Customers,  (* CUSTOMERS_PER_REGION[region]                               *)
  Strangers,  (* other names a call may carry                               *)
  MaxCalls    (* bound: REST calls                                          *)

Region == "region"
Nobody == "nobody"
Symbol == "symbol"
Names  == Customers \cup Strangers

ASSUME MonkeyAssumption ==
  /\ Customers # {} /\ IsFiniteSet(Customers) /\ Customers \cap Strangers = {}
  /\ {Region, Nobody, Symbol} \cap Names = {}
  /\ MaxCalls \in Nat

(* The tables a trade is asked for, in this order, and those of high_tput; *)
(* a switch is a table with one of its keys.                               *)
Kinds    == {"latency", "model", "flags", "request", "dbOf", "db", "skew"}
Levels   == {"region", "customer", "symbol"}
KeysOf(t) ==
  IF t = "request" THEN Customers
  ELSE IF t \in {"dbOf", "customer"} THEN Names
  ELSE IF t \in {"skew", "symbol"} THEN {Symbol} ELSE {Region}
Switches == {s \in (Kinds \cup Levels) \X (Names \cup {Region, Symbol}) : s[2] \in KeysOf(s[1])}

VARIABLES
  table,     (* all tables: each switch's setting                           *)
  todo,      (* what each handler has still to do; 0 is the DELETE handler  *)
             (* that the thread calls itself                                *)
  calls,     (* REST calls so far                                           *)
  at,        (* what the generator is about: a kind, a level, or one of the *)
             (* places between                                              *)
  doing,     (* how far it is with that                                     *)
  using,     (* the table and key it has found                              *)
  dict,      (* request_error_per_customer as the thread iterates over it:  *)
             (* still the "same", "grown", or an "old" one                  *)
  customer,  (* the customer of the trade it is drawing                     *)
  next,      (* next_customer                                               *)
  trade,     (* what the trade has of Kinds                                 *)
  armed,     (* history: what was on at some time during the drawing        *)
  touched    (* history: what handlers have added or taken away of what the *)
             (* thread is using, since it looked last                       *)

generator  == <<at, doing, using, dict, customer, next, trade>>
history    == <<armed, touched>>
monkeyVars == <<table, todo, calls, generator, history>>

Unused == <<"none", Nobody>>

MonkeyInit ==
  /\ table = [s \in Switches |-> "off"]
  /\ todo = [h \in 0 .. MaxCalls |-> <<>>] /\ calls = 0
  /\ at = "asleep" /\ doing = "look" /\ using = Unused /\ dict = "same"
  /\ customer = Nobody /\ next = Nobody /\ trade = {}
  /\ armed = {} /\ touched = {}

-----------------------------------------------------------------------------
(* What a handler does to its tables, one access after the other.  "if key *)
(* in table: del table[key]" is a test and, if the key was there, a "del". *)

Put(s, setting) == [act |-> "put", on |-> s, to |-> setting]
Remove(s)       == [act |-> "test", on |-> s, to |-> "off"]
Rebind(t)       == [act |-> "rebind", on |-> <<t, Nobody>>, to |-> "off"]

(* "for key in table: del table[key]" over a table of one key: after the   *)
(* first key the loop finds a changed size, and its RuntimeError or the    *)
(* del's KeyError ends the handler.                                        *)
RemoveEach(s)   == [act |-> "loop", on |-> s, to |-> "off"]

Fast(level, k)  == Put(<<level, k>>, "on")

(* Faulty variants of the next two, for the mutation checks only: the      *)
(* region is slowed down without a look whether it is fast, and the error  *)
(* is left on.                                                             *)
MutDeleteRegion(kind) ==
  <<Remove(<<kind, Region>>), [Remove(<<"region", Region>>) EXCEPT !.act = "del"]>>
MutDeleteCustomer(c) == <<Remove(<<"customer", c>>)>>

(* DELETE of a region's or a customer's switch also slows it down, whoever *)
(* made it fast.                                                           *)
DeleteRegion(kind) == <<Remove(<<kind, Region>>), Remove(<<"region", Region>>)>>
DeleteCustomer(c)  == <<Remove(<<"dbOf", c>>), Remove(<<"customer", c>>)>>

(* POST /err/browser: each customer with that browser, in some order, is   *)
(* given the error and, if it is a oneshot, made fast.                     *)
InOrder(C) ==
  {q \in [1 .. Cardinality(C) -> C] : \A i, j \in DOMAIN q : q[i] = q[j] => i = j}
Orders == UNION {InOrder(C) : C \in SUBSET Customers \ {{}}}

PostRequest(q, o) ==
  IF o = "oneshot"
  THEN [n \in 1 .. 2 * Len(q) |->
          IF n % 2 = 1 THEN Put(<<"request", q[(n + 1) \div 2]>>, o)
          ELSE Fast("customer", q[n \div 2])]
  ELSE [n \in 1 .. Len(q) |-> Put(<<"request", q[n]>>, o)]

(* Switches with a POST and a DELETE that touch nothing else.              *)
Plain == {<<"skew", Symbol>>} \cup {s \in Switches : s[1] \in Levels}

Asked == {"on", "oneshot"}

(* The handlers, by their accesses.  DELETE /flags takes a flag out of the *)
(* region's list, which stays.                                             *)
Programs ==
  {<<Put(<<"latency", Region>>, "on")>>,
   <<Put(<<"latency", Region>>, "oneshot"), Fast("region", Region)>>,
   <<Put(<<"model", Region>>, "bare"), Fast("region", Region)>>,
   <<Put(<<"flags", Region>>, "on")>>,
   <<RemoveEach(<<"db", Region>>), RemoveEach(<<"region", Region>>)>>,
   <<Rebind("customer"), Rebind("symbol"), Rebind("region"), Rebind("skew")>>,
   <<Rebind("latency"), Rebind("db"), Rebind("model"), Rebind("dbOf"), Rebind("request")>>,
   <<Rebind("flags")>>}
  \cup {<<Put(<<"db", Region>>, o)>> : o \in Asked}
  \cup {<<Put(<<"dbOf", c>>, "on")>> : c \in Names}
  \cup {<<Put(<<"dbOf", c>>, "oneshot"), Fast("customer", c)>> : c \in Names}
  \cup {PostRequest(q, "on") : q \in Orders} \cup {PostRequest(q, "oneshot") : q \in Orders}
  \cup {<<Put(s, "on")>> : s \in Plain}
  \cup {<<Remove(s)>> : s \in Plain}
  \cup {DeleteRegion(kind) : kind \in {"latency", "model", "db"}}
  \cup {DeleteCustomer(c) : c \in Names}

-----------------------------------------------------------------------------
(* The switch the thread asks about, and the part of a trade it is for.    *)
Asking(kind) ==
  <<kind, IF kind \in {"request", "dbOf"} THEN customer
          ELSE IF kind = "skew" THEN Symbol ELSE Region>>

Effect(kind) == IF kind = "dbOf" THEN "db" ELSE kind

(* What is switched on in t for a trade of customer c.                     *)
ArmedIn(t, c) ==
  {Effect(s[1]) : s \in {s \in Switches : s[1] \in Kinds /\ s[2] \in {c, Region, Symbol}
                                          /\ t[s] # "off"}}

(* A handler h that has ops still to do makes the first access of them.    *)
Doing(ops, act) == ops # <<>> /\ Head(ops).act = act
On(ops)         == Head(ops).on
Remain(h, ops)    == todo' = [todo EXCEPT ![h] = ops]

Puts(h, ops) ==
  /\ Doing(ops, "put")
  /\ table' = [table EXCEPT ![On(ops)] = Head(ops).to]
  /\ Remain(h, Tail(ops))

Tests(h, ops) ==
  /\ Doing(ops, "test")
  /\ Remain(h, IF table[On(ops)] = "off" THEN Tail(ops)
             ELSE <<[Head(ops) EXCEPT !.act = "del"]>> \o Tail(ops))
  /\ UNCHANGED table

Deletes(h, ops) ==
  /\ Doing(ops, "del") /\ table[On(ops)] # "off"
  /\ table' = [table EXCEPT ![On(ops)] = "off"]
  /\ Remain(h, Tail(ops))

(* del of a missing key is a KeyError; flask answers it with a 500. *)
DeleteFails(h, ops) ==
  /\ Doing(ops, "del") /\ table[On(ops)] = "off"
  /\ Remain(h, <<>>)
  /\ UNCHANGED table

Loops(h, ops) ==
  /\ Doing(ops, "loop")
  /\ Remain(h, IF table[On(ops)] = "off" THEN Tail(ops)
             ELSE <<[Head(ops) EXCEPT !.act = "last"]>>)
  /\ UNCHANGED table

DeletesLast(h, ops) ==
  /\ Doing(ops, "last")
  /\ table' = [table EXCEPT ![On(ops)] = "off"]
  /\ Remain(h, <<>>)

Rebinds(h, ops) ==
  /\ Doing(ops, "rebind")
  /\ table' = [s \in Switches |-> IF s[1] = On(ops)[1] THEN "off" ELSE table[s]]
  /\ Remain(h, Tail(ops))

(* A step of a handler, and what it means to the thread: what it adds or   *)
(* takes away may be the very entry the thread has found, or one of the    *)
(* table that it has found keys in or iterates over.                       *)
Changed     == {s \in Switches : (table[s] = "off") # (table'[s] = "off")}
Concerns(s) == s = using \/ (doing \in {"choose", "iterate"} /\ s[1] = using[1])

Handler(h, ops) ==
  /\ \/ Puts(h, ops) \/ Tests(h, ops) \/ Deletes(h, ops) \/ DeleteFails(h, ops)
     \/ Loops(h, ops) \/ DeletesLast(h, ops) \/ Rebinds(h, ops)
  /\ dict' = IF doing # "iterate" \/ dict # "same" THEN dict
             ELSE IF Doing(ops, "rebind") /\ On(ops)[1] = "request" THEN "old"
             ELSE IF \E s \in Changed : s[1] = "request" THEN "grown" ELSE dict
  /\ armed' = IF customer = Nobody THEN {} ELSE armed \cup ArmedIn(table', customer)
  /\ touched' = touched \cup {s \in Changed : Concerns(s)}
  /\ UNCHANGED <<at, doing, using, customer, next, trade>>

(* A REST call arrives with its first access; or one goes on. *)
Call(ops) ==
  /\ calls < MaxCalls /\ calls' = calls + 1
  /\ Handler(calls + 1, ops)

GoesOn(h) == Handler(h, todo[h]) /\ UNCHANGED calls

(* ERROR_TIMEOUT_S pass. *)
Age(s) ==
  /\ table[s] = "oneshot"
  /\ table' = [table EXCEPT ![s] = "expired"]
  /\ UNCHANGED <<todo, calls, generator, history>>

-----------------------------------------------------------------------------
(* The generator thread.                                                   *)

After ==
  [latency |-> "model", model |-> "flags", flags |-> "request", request |-> "dbOf",
   dbOf |-> "db", db |-> "skew", skew |-> "submit", submit |-> "region",
   region |-> "customer", customer |-> "symbol", symbol |-> "asleep"]

(* A customer's own db error hides the region's. *)
AfterUse(kind) == IF kind = "dbOf" THEN "skew" ELSE After[kind]

(* From one step to another within a place, to another place, or out. *)
Step(p, from, to) ==
  /\ at = p /\ doing = from
  /\ at' = at /\ doing' = to
  /\ UNCHANGED calls

Leave(p, from, to) ==
  /\ at = p /\ doing = from
  /\ at' = to /\ doing' = "look"
  /\ UNCHANGED calls

Die(p, from) ==
  /\ at = p /\ doing = from
  /\ at' = "dead"
  /\ UNCHANGED <<table, todo, calls, doing, using, dict, customer, next, trade, history>>

(* The thread looks at the tables: what happened before concerns it no     *)
(* more.                                                                   *)
Looks == touched' = {} /\ UNCHANGED armed

(* It wakes up and draws a trade; SUBSCRIPTION_PER_USER knows customers    *)
(* only.                                                                   *)
Draw(c) ==
  /\ at = "asleep"
  /\ IF next = Nobody THEN c \in Customers ELSE c = next
  /\ at' = IF c \in Customers THEN "latency" ELSE "dead"
  /\ customer' = c
  /\ armed' = ArmedIn(table, c) /\ touched' = {}
  /\ UNCHANGED <<table, todo, calls, doing, using, dict, next, trade>>

(* Faulty variant of Skip, for the mutation checks only: a table without   *)
(* the key leaves the last trade's error in place.                         *)
MutSkip(kind) ==
  /\ Leave(kind, "look", After[kind])
  /\ table[Asking(kind)] = "off"
  /\ Looks
  /\ UNCHANGED <<table, todo, using, dict, customer, next, trade>>

(* "if key in table": the other branch sets the trade's value to none.     *)
(* The trade may be for another symbol than the skewed one.                *)
Skip(kind) ==
  /\ Leave(kind, "look", After[kind])
  /\ table[Asking(kind)] = "off" \/ kind = "skew"
  /\ trade' = trade \ {kind}
  /\ Looks
  /\ UNCHANGED <<table, todo, using, dict, customer, next>>

Find(kind) ==
  /\ Step(kind, "look", "use")
  /\ table[Asking(kind)] # "off"
  /\ using' = Asking(kind)
  /\ Looks
  /\ UNCHANGED <<table, todo, dict, customer, next, trade>>

(* It reads the record it has found, amount, oneshot and start; by chance  *)
(* the trade is hit or spared.  An expired one is logged, and the DELETE   *)
(* handler called.                                                         *)
Timeout(kind) ==
  IF kind = "dbOf" THEN DeleteCustomer(customer)
  ELSE IF kind \in {"latency", "model", "db"} THEN DeleteRegion(kind) ELSE <<>>

Use(kind) ==
  /\ at = kind /\ doing = "use"
  /\ table[using] \in {"on", "oneshot", "expired"}
  /\ trade' \in {trade \ {Effect(kind)}, trade \cup {Effect(kind)}}
  /\ IF table[using] = "expired"
     THEN Step(kind, "use", "expire") /\ Remain(0, Timeout(kind)) /\ UNCHANGED using
     ELSE Leave(kind, "use", AfterUse(kind)) /\ using' = Unused /\ UNCHANGED todo
  /\ Looks
  /\ UNCHANGED <<table, dict, customer, next>>

(* The record is gone, or has no "oneshot": a KeyError. *)
UseFails(kind) ==
  /\ Die(kind, "use")
  /\ table[using] \in {"off", "bare"}

(* The handler of the DELETE, run by the thread, ... *)
Expire(kind) ==
  /\ Step(kind, "expire", "expire")
  /\ \/ Tests(0, todo[0]) /\ using' = On(todo[0]) /\ Looks
     \/ Deletes(0, todo[0]) /\ UNCHANGED using /\ Looks
  /\ UNCHANGED <<dict, customer, next, trade>>

ExpireFails(kind) ==
  /\ Die(kind, "expire")
  /\ Doing(todo[0], "del") /\ table[On(todo[0])] = "off"

Expired(kind) ==
  /\ kind # "request" /\ todo[0] = <<>>
  /\ Leave(kind, "expire", AfterUse(kind))
  /\ using' = Unused /\ Looks
  /\ UNCHANGED <<table, todo, dict, customer, next, trade>>

(* ... but that of a request error is called with the customer where it    *)
(* expects a browser: it goes through the whole table and takes nothing    *)
(* away.  The iterator notices that its table has grown, and has a table   *)
(* of its own once the name was rebound.                                   *)
Iterate ==
  /\ Step("request", "expire", "iterate")
  /\ dict' = "same"
  /\ Looks
  /\ UNCHANGED <<table, todo, using, customer, next, trade>>

Iterated ==
  /\ Leave("request", "iterate", After["request"])
  /\ dict # "grown"
  /\ using' = Unused /\ dict' = "same"
  /\ Looks
  /\ UNCHANGED <<table, todo, customer, next, trade>>

IterateFails ==
  /\ Die("request", "iterate")
  /\ dict = "grown"

(* executor.submit: the pool's queue takes every trade. *)
Submit ==
  /\ Leave("submit", "look", After["submit"])
  /\ customer' = Nobody /\ armed' = {}
  /\ UNCHANGED <<table, todo, using, dict, next, trade, touched>>

(* The next trade's region, customer and symbol: is the table empty, which *)
(* of its keys, and does chance want it?                                   *)
FastOn(level)      == {k \in KeysOf(level) : table[<<level, k>>] # "off"}
Remember(level, k) == next' = IF level = "customer" THEN k ELSE next

NoneFast(level) ==
  /\ FastOn(level) = {}
  /\ Leave(level, "look", After[level])
  /\ Remember(level, Nobody)
  /\ Looks
  /\ UNCHANGED <<table, todo, using, dict, customer, trade>>

SomeFast(level) ==
  /\ FastOn(level) # {}
  /\ Step(level, "look", "choose")
  /\ using' = <<level, Nobody>>
  /\ Looks
  /\ UNCHANGED <<table, todo, dict, customer, next, trade>>

Choose(level) ==
  /\ Step(level, "choose", "draw")
  /\ using' \in {level} \X FastOn(level)
  /\ Looks
  /\ UNCHANGED <<table, todo, dict, customer, next, trade>>

ChooseFails(level) ==
  /\ FastOn(level) = {}
  /\ Die(level, "choose")

Chance(level) ==
  /\ Leave(level, "draw", After[level])
  /\ table[using] # "off"
  /\ Remember(level, Nobody) \/ Remember(level, using[2])
  /\ using' = Unused /\ Looks
  /\ UNCHANGED <<table, todo, dict, customer, trade>>

ChanceFails(level) ==
  /\ Die(level, "draw")
  /\ table[using] = "off"

-----------------------------------------------------------------------------
Rest ==
  \/ \E ops \in Programs : Call(ops)
  \/ \E h \in 1 .. MaxCalls : GoesOn(h)

Ask(kind) ==
  \/ Skip(kind) \/ Find(kind) \/ Use(kind) \/ UseFails(kind)
  \/ Expire(kind) \/ ExpireFails(kind) \/ Expired(kind)

Plan(level) ==
  \/ NoneFast(level) \/ SomeFast(level) \/ Choose(level) \/ ChooseFails(level)
  \/ Chance(level) \/ ChanceFails(level)

Generator ==
  \/ \E c \in Names : Draw(c)
  \/ \E kind \in Kinds : Ask(kind)
  \/ Iterate \/ Iterated \/ IterateFails \/ Submit
  \/ \E level \in Levels : Plan(level)

MonkeyNext == Rest \/ Generator \/ \E s \in Switches : Age(s)

MonkeySpec == MonkeyInit /\ [][MonkeyNext]_monkeyVars

(* The thread keeps running, and a draw that can come out in favour of a   *)
(* customer again and again sometimes does.                                *)
Fairness ==
  /\ WF_monkeyVars(Generator)
  /\ \A c \in Customers : SF_monkeyVars(next = Nobody /\ Draw(c))
  /\ SF_monkeyVars(next' = Nobody /\ (NoneFast("customer") \/ Chance("customer")))

FairSpec == MonkeySpec /\ Fairness

-----------------------------------------------------------------------------
(* app.py:285-342: a trade is sent with an error, a flag or a skew only if *)
(* that was switched on for it at some time while it was drawn: nothing is *)
(* carried over from an earlier trade, whatever was deleted meanwhile.     *)
ErrorsAreSwitchedOn == at = "submit" => trade \subseteq armed

(* app.py:284-373: the thread ends in three ways only.  It draws a name    *)
(* that is no customer's; it reads the record of a model error; or a       *)
(* handler adds or takes away an entry of the table it is in, between two  *)
(* accesses that follow each other.  Nothing else that is called, at any   *)
(* other moment, ends it, and nothing it deletes itself does.              *)
DeathHasACause ==
  at = "dead" =>
    \/ customer \in Strangers
    \/ using = <<"model", Region>>
    \/ touched # {}

(* app.py:285-290,325-340: an expired oneshot latency or db error of a     *)
(* customer is removed, unless the thread has ended.  (One of a request    *)
(* error is not: line 313 hands the customer to a handler that expects a   *)
(* browser.)                                                               *)
OneshotEnds ==
  \A s \in {<<"latency", Region>>} \cup ({"dbOf"} \X Customers) :
    table[s] = "expired" ~> table[s] # "expired" \/ at = "dead"
=============================================================================
