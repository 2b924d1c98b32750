---------------------------- MODULE TraderProofs ----------------------------
(***************************************************************************)
(* What Trader.tla says of the shared moving average, proved for every     *)
(* finite set of handlers, every window and every set of prices: the       *)
(* window's bounds are inductive together with the types, because every    *)
(* append of a handler is followed by at most one pop of its own; and one  *)
(* handler at a time keeps the average right, by what is missing of it at  *)
(* each place and the laws of sums.  At the end, what Monkey.tla says of   *)
(* the trader's client.                                                    *)
(***************************************************************************)
EXTENDS Trader, Monkey, FiniteSetTheorems, TLAPS

(* The handlers between append and pop of average o. *)
Open(o) == In(o, {"add", "pop"})

Size(o) == Len(heap[o].values)

WindowOf(o) ==
  Size(o) <= W + Cardinality(Open(o)) /\ Size(o) >= Cardinality(Open(o))

IInv == TypeOK /\ WindowHolds

-----------------------------------------------------------------------------
(* What the heap is, object by object. *)
LEMMA HeapTypes ==
  ASSUME TypeOK
  PROVE  /\ heap \in Seq(Average)
         /\ Objects = 1 .. Len(heap) /\ Len(heap) \in Nat
         /\ \A o \in Objects :
              /\ heap[o] \in Average
              /\ heap[o].values \in Seq(Prices) /\ heap[o].given \in Seq(Prices)
              /\ heap[o].sum \in Int /\ heap[o].crowd \in Nat
              /\ Size(o) \in Nat
<1>1. heap \in Seq(Average)
      BY DEF TypeOK
<1>2. Objects = 1 .. Len(heap) /\ Len(heap) \in Nat
      BY <1>1 DEF Objects
<1>3. ASSUME NEW o \in Objects
      PROVE  heap[o] \in Average
      BY <1>1, <1>2
<1>4. ASSUME NEW o \in Objects
      PROVE  /\ heap[o].values \in Seq(Prices) /\ heap[o].given \in Seq(Prices)
             /\ heap[o].sum \in Int /\ heap[o].crowd \in Nat
      BY <1>3 DEF Average
<1>5. ASSUME NEW o \in Objects
      PROVE  Size(o) \in Nat
      BY <1>4 DEF Size
<1> QED BY <1>1, <1>2, <1>3, <1>4, <1>5

(* Prices are numbers. *)
LEMMA PricesAreIntegers ==
  ASSUME NEW p \in Prices, NEW n \in Int
  PROVE  n + p \in Int /\ n - p \in Int
<1>1. p \in Nat
      BY TraderAssumption
<1> QED BY <1>1

(* Putting an average in place of another keeps the heap's type. *)
LEMMA PutTyped ==
  ASSUME NEW hp \in Seq(Average), NEW o \in DOMAIN hp, NEW a \in Average
  PROVE  /\ [hp EXCEPT ![o] = a] \in Seq(Average)
         /\ DOMAIN [hp EXCEPT ![o] = a] = DOMAIN hp
  OBVIOUS

(* Sets of handlers are finite. *)
LEMMA OpenIsFinite ==
  ASSUME NEW o
  PROVE  IsFiniteSet(Open(o)) /\ Cardinality(Open(o)) \in Nat
<1>1. Open(o) \in SUBSET Handlers
      BY DEF Open, In
<1> QED BY <1>1, TraderAssumption, FS_Subset, FS_CardinalityType

(* One handler more. *)
LEMMA OneMore ==
  ASSUME NEW S, IsFiniteSet(S), NEW h, h \notin S, NEW T, T = S \cup {h}
  PROVE  Cardinality(T) = Cardinality(S) + 1 /\ Cardinality(S) \in Nat
  BY FS_AddElement, FS_CardinalityType

(* And one handler less. *)
LEMMA OneLess ==
  ASSUME NEW S, IsFiniteSet(S), NEW h \in S, NEW T, T = S \ {h}
  PROVE  Cardinality(T) = Cardinality(S) - 1 /\ Cardinality(S) \in Nat
  BY FS_RemoveElement, FS_CardinalityType

-----------------------------------------------------------------------------
(* The initial state. *)
LEMMA InitIInv == Init => IInv
<1> SUFFICES ASSUME Init PROVE IInv
    OBVIOUS
<1>1. TypeOK
      BY TraderAssumption DEF Init, TypeOK, Objects, Places, Answers, InModel, InProcess
<1>2. WindowHolds
      BY DEF Init, WindowHolds, Objects
<1> QED BY <1>1, <1>2 DEF IInv

-----------------------------------------------------------------------------
(* The variables of the handlers keep their types in a step of handler h.  *)
LEMMA TypeOfRest ==
  ASSUME TypeOK, NEW h \in Handlers, Handle(h)
  PROVE  /\ transactions' \in 0 .. MaxRequests /\ resets' \in 0 .. MaxResets
         /\ pc' \in [Handlers -> Places]
         /\ answer' \in [Handlers -> Answers]
         /\ met' \in [Handlers -> SUBSET {"request", "reset"}]
<1> USE DEF Go, End, Places, InModel, InProcess, Answers
<1>1. CASE Request(h)
      BY <1>1, TraderAssumption DEF TypeOK, Request
<1>2. CASE TurnAway(h)
      BY <1>2 DEF TypeOK, TurnAway
<1>3. CASE LetIn(h)
      BY <1>3 DEF TypeOK, LetIn
<1>4. CASE LookAbsent(h) \/ Create(h) \/ LookPresent(h) \/ Get(h) \/ GetFails(h)
      BY <1>4 DEF TypeOK, LookAbsent, Create, LookPresent, Get, GetFails
<1>5. CASE Enter(h) \/ EnterFails(h) \/ AppendValue(h) \/ Add(h)
      BY <1>5 DEF TypeOK, Enter, EnterFails, AppendValue, Add
<1>6. CASE Pop(h) \/ Store(h) \/ Divide(h) \/ DivideFails(h) \/ Trade(h)
      BY <1>6 DEF TypeOK, Pop, Store, Divide, DivideFails, Trade
<1> QED BY <1>1, <1>2, <1>3, <1>4, <1>5, <1>6 DEF Handle

(* What a step of process() does to the average that handler h works on.   *)
Changes(o, a) ==
  /\ heap' = [heap EXCEPT ![o] = a]
  /\ o \in Objects /\ a \in Average

(* What a change of one average leaves as it was. *)
LEMMA ChangedHeap ==
  ASSUME TypeOK, NEW o, NEW a, Changes(o, a)
  PROVE  /\ heap' \in Seq(Average) /\ Objects' = Objects
         /\ Size(o)' = Len(a.values)
         /\ heap'[o] = a
         /\ \A p \in Objects : p # o => heap'[p] = heap[p] /\ Size(p)' = Size(p)
  BY HeapTypes, PutTyped DEF Changes, Objects, Size

(* append() makes the window one longer. *)
LEMMA Appended ==
  ASSUME TypeOK, NEW h \in Handlers, AppendValue(h)
  PROVE  \E a : /\ Changes(mine[h], a) /\ Len(a.values) = Size(mine[h]) + 1
               /\ a.crowd = heap[mine[h]].crowd /\ a.given # <<>>
<1> DEFINE o == mine[h]
           a == [heap[o] EXCEPT !.values = Append(@, price[h]),
                                !.given = Append(@, price[h])]
<1>1. pc[h] = "append" /\ o \in Objects /\ price[h] \in Prices
      BY DEF AppendValue, Go, TypeOK, InProcess
<1>2. /\ heap[o] \in Average /\ Size(o) = Len(heap[o].values)
      /\ heap[o].values \in Seq(Prices) /\ heap[o].given \in Seq(Prices)
      BY <1>1, HeapTypes DEF Size
<1>3. /\ Append(heap[o].values, price[h]) \in Seq(Prices)
      /\ Append(heap[o].given, price[h]) \in Seq(Prices)
      /\ Len(Append(heap[o].values, price[h])) = Size(o) + 1
      /\ Append(heap[o].given, price[h]) # <<>>
      BY <1>1, <1>2
<1>4. /\ a \in Average /\ a.values = Append(heap[o].values, price[h])
      /\ a.crowd = heap[o].crowd /\ a.given # <<>>
  <2> DEFINE v == Append(heap[o].values, price[h])
             g == Append(heap[o].given, price[h])
             b == [heap[o] EXCEPT !.values = v, !.given = g]
  <2>1. v \in Seq(Prices) /\ g \in Seq(Prices) /\ g # <<>>
        BY <1>3
  <2> HIDE DEF v, g
  <2>2. b \in Average /\ b.values = v /\ b.crowd = heap[o].crowd /\ b.given # <<>>
        BY <1>2, <2>1 DEF Average
  <2> USE DEF v, g
  <2> QED BY <2>2
<1>5. heap' = [heap EXCEPT ![o] = a]
      BY <1>1, HeapTypes DEF AppendValue
<1> QED BY <1>1, <1>3, <1>4, <1>5 DEF Changes

(* Adding to the sum leaves the window alone. *)
LEMMA Added ==
  ASSUME TypeOK, NEW h \in Handlers, Add(h)
  PROVE  \E a : /\ Changes(mine[h], a) /\ Len(a.values) = Size(mine[h])
               /\ a.crowd = heap[mine[h]].crowd /\ a.given = heap[mine[h]].given
<1> DEFINE o == mine[h]
           a == [heap[o] EXCEPT !.sum = @ + price[h]]
<1>1. pc[h] = "add" /\ o \in Objects /\ price[h] \in Prices
      BY DEF Add, Go, TypeOK, InProcess
<1>2. heap[o] \in Average /\ heap[o].sum \in Int /\ Size(o) = Len(heap[o].values)
      BY <1>1, HeapTypes DEF Size
<1>3. heap[o].sum + price[h] \in Int
      BY <1>1, <1>2, PricesAreIntegers
<1>4. /\ a \in Average /\ a.values = heap[o].values
      /\ a.crowd = heap[o].crowd /\ a.given = heap[o].given
  <2> DEFINE sum == heap[o].sum + price[h]
             b == [heap[o] EXCEPT !.sum = sum]
  <2>1. sum \in Int
        BY <1>3
  <2> HIDE DEF sum
  <2>2. /\ b \in Average /\ b.values = heap[o].values
        /\ b.crowd = heap[o].crowd /\ b.given = heap[o].given
        BY <1>2, <2>1 DEF Average
  <2> USE DEF sum
  <2> QED BY <2>2
<1>5. heap' = [heap EXCEPT ![o] = a]
      BY <1>1, HeapTypes DEF Add
<1> QED BY <1>1, <1>2, <1>4, <1>5 DEF Changes

(* pop(0) finds a value, because the window's lower bound counts h. *)
LEMMA Popped ==
  ASSUME TypeOK, WindowHolds, NEW h \in Handlers, Pop(h)
  PROVE  /\ \E a : /\ Changes(mine[h], a) /\ Len(a.values) = Size(mine[h]) - 1
                  /\ a.crowd = heap[mine[h]].crowd /\ a.given = heap[mine[h]].given
         /\ saved' \in [Handlers -> Int]
<1> DEFINE o == mine[h]
           a == [heap[o] EXCEPT !.values = Tail(@)]
<1>1. pc[h] = "pop" /\ o \in Objects /\ h \in Open(o)
      BY DEF Pop, Go, TypeOK, InProcess, Open, In
<1>2. /\ heap[o] \in Average /\ Size(o) = Len(heap[o].values) /\ Size(o) \in Nat
      /\ heap[o].values \in Seq(Prices) /\ heap[o].sum \in Int
      BY <1>1, HeapTypes DEF Size
<1>3. Size(o) >= 1
  <2>1. Cardinality(Open(o)) # 0 /\ Cardinality(Open(o)) \in Nat
        BY <1>1, OpenIsFinite, FS_EmptySet
  <2>2. Size(o) >= Cardinality(Open(o))
        BY <1>1 DEF WindowHolds, Size, Open
  <2> QED BY <1>2, <2>1, <2>2
<1>4. /\ Tail(heap[o].values) \in Seq(Prices)
      /\ Len(Tail(heap[o].values)) = Size(o) - 1
      /\ Head(heap[o].values) \in Prices
      BY <1>2, <1>3
<1>5. /\ a \in Average /\ a.values = Tail(heap[o].values)
      /\ a.crowd = heap[o].crowd /\ a.given = heap[o].given
  <2> DEFINE v == Tail(heap[o].values)
             b == [heap[o] EXCEPT !.values = v]
  <2>1. v \in Seq(Prices)
        BY <1>4
  <2> HIDE DEF v
  <2>2. /\ b \in Average /\ b.values = v
        /\ b.crowd = heap[o].crowd /\ b.given = heap[o].given
        BY <1>2, <2>1 DEF Average
  <2> USE DEF v
  <2> QED BY <2>2
<1>6. heap' = [heap EXCEPT ![o] = a]
      BY <1>1, HeapTypes DEF Pop
<1>7. heap[o].sum - Head(heap[o].values) \in Int
      BY <1>2, <1>4, PricesAreIntegers
<1>8. saved' = [saved EXCEPT ![h] = heap[o].sum - Head(heap[o].values)]
      BY DEF Pop
<1>9. saved' \in [Handlers -> Int]
      BY <1>7, <1>8 DEF TypeOK
<1> QED BY <1>1, <1>4, <1>5, <1>6, <1>9 DEF Changes

(* So does storing it. *)
LEMMA Stored ==
  ASSUME TypeOK, NEW h \in Handlers, Store(h)
  PROVE  \E a : /\ Changes(mine[h], a) /\ Len(a.values) = Size(mine[h])
               /\ a.crowd = heap[mine[h]].crowd /\ a.given = heap[mine[h]].given
<1> DEFINE o == mine[h]
           a == [heap[o] EXCEPT !.sum = saved[h]]
<1>1. o \in Objects /\ saved[h] \in Int
      BY DEF Store, Go, TypeOK, InProcess
<1>2. heap[o] \in Average /\ Size(o) = Len(heap[o].values)
      BY <1>1, HeapTypes DEF Size
<1>3. /\ a \in Average /\ a.values = heap[o].values
      /\ a.crowd = heap[o].crowd /\ a.given = heap[o].given
      BY <1>1, <1>2 DEF Average
<1>4. heap' = [heap EXCEPT ![o] = a]
      BY <1>1, HeapTypes DEF Store
<1> QED BY <1>1, <1>2, <1>3, <1>4 DEF Changes

(* Entering process() only counts the handlers inside. *)
LEMMA Entered ==
  ASSUME TypeOK, NEW h \in Handlers, Enter(h)
  PROVE  \E a : /\ Changes(market, a) /\ Len(a.values) = Size(market)
               /\ a.given = heap[market].given
               /\ a.crowd >= heap[market].crowd
               /\ a.crowd >= Cardinality(In(market, InProcess) \cup {h})
<1> DEFINE inside == Cardinality(In(market, InProcess) \cup {h})
           crowd == IF inside > heap[market].crowd THEN inside ELSE heap[market].crowd
           a == [heap[market] EXCEPT !.crowd = crowd]
<1>1. market \in Objects
      BY DEF Enter, TypeOK
<1>2. /\ heap[market] \in Average /\ heap[market].crowd \in Nat
      /\ Size(market) = Len(heap[market].values)
      BY <1>1, HeapTypes DEF Size
<1>3. crowd \in Nat /\ crowd >= heap[market].crowd /\ crowd >= inside
  <2>1. In(market, InProcess) \cup {h} \in SUBSET Handlers
        BY DEF In
  <2>2. inside \in Nat
        BY <2>1, TraderAssumption, FS_Subset, FS_CardinalityType
  <2> QED BY <1>2, <2>2
<1>4. /\ a \in Average /\ a.values = heap[market].values
      /\ a.given = heap[market].given /\ a.crowd = crowd
      BY <1>2, <1>3 DEF Average
<1>5. heap' = [heap EXCEPT ![market] = a]
      BY <1>1, HeapTypes DEF Enter
<1> QED BY <1>1, <1>2, <1>3, <1>4, <1>5 DEF Changes

(* A new average is the last of the heap, and nobody works on it yet. *)
LEMMA Created ==
  ASSUME TypeOK, NEW h \in Handlers, Create(h)
  PROVE  /\ heap' \in Seq(Average)
         /\ \E n : /\ market' = n /\ n # 0 /\ n \notin Objects
                   /\ Objects' = Objects \cup {n} /\ Size(n)' = 0
                   /\ heap'[n] = NewAverage
         /\ \A o \in Objects : heap'[o] = heap[o] /\ Size(o)' = Size(o)
<1>1. NewAverage \in Average /\ Len(NewAverage.values) = 0
      BY DEF NewAverage, Average
<1>2. heap' = Append(heap, NewAverage) /\ market' = Len(heap')
      BY DEF Create
<1>3. heap \in Seq(Average) /\ Len(heap) \in Nat /\ Objects = 1 .. Len(heap)
      BY HeapTypes
<1>4. /\ heap' \in Seq(Average) /\ Len(heap') = Len(heap) + 1
      /\ Objects' = 1 .. Len(heap) + 1
      BY <1>1, <1>2, <1>3 DEF Objects
<1>5. heap'[market'] = NewAverage
      BY <1>1, <1>2, <1>3, <1>4
<1>6. \A o \in Objects : heap'[o] = heap[o]
      BY <1>1, <1>2, <1>3
<1>7. PICK n : n = Len(heap) + 1
      OBVIOUS
<1>8. /\ Objects' = Objects \cup {n} /\ n \notin Objects /\ n # 0 /\ market' = n
      BY <1>2, <1>3, <1>4, <1>7
<1>9. Size(n)' = 0
      BY <1>1, <1>5, <1>8 DEF Size
<1>10. \A o \in Objects : Size(o)' = Size(o)
      BY <1>6 DEF Size
<1> QED BY <1>4, <1>5, <1>6, <1>8, <1>9, <1>10

-----------------------------------------------------------------------------
(* Every step of a handler keeps the types; Pop needs the window's bounds. *)
LEMMA TypeStep ==
  ASSUME IInv, NEW h \in Handlers, Handle(h)
  PROVE  TypeOK'
<1> USE DEF Go, End, InProcess
<1>1. TypeOK /\ WindowHolds
      BY DEF IInv
<1>2. /\ transactions' \in 0 .. MaxRequests /\ resets' \in 0 .. MaxResets
      /\ pc' \in [Handlers -> Places]
      /\ answer' \in [Handlers -> Answers]
      /\ met' \in [Handlers -> SUBSET {"request", "reset"}]
      BY <1>1, TypeOfRest
<1>3. CASE Request(h) \/ TurnAway(h) \/ LetIn(h)
  <2>1. UNCHANGED <<market, heap, saved>>
        BY <1>3 DEF Request, TurnAway, LetIn
  <2> QED BY <1>1, <1>2, <1>3, <2>1 DEF TypeOK, Objects, Request, TurnAway, LetIn
<1>4. CASE LookAbsent(h) \/ LookPresent(h) \/ Get(h) \/ GetFails(h)
  <2>1. UNCHANGED <<market, heap, saved>>
        BY <1>4 DEF LookAbsent, LookPresent, Get, GetFails
  <2>2. mine' \in [Handlers -> {0} \cup Objects]
        BY <1>1, <1>4 DEF TypeOK, LookAbsent, LookPresent, Get, GetFails
  <2>3. \A g \in Handlers : pc'[g] \in {"get"} \cup InProcess => mine'[g] # 0
        BY <1>1, <1>4 DEF TypeOK, LookAbsent, LookPresent, Get, GetFails
  <2>4. price' \in [Handlers -> {0} \cup Prices]
        BY <1>1, <1>4 DEF TypeOK, LookAbsent, LookPresent, Get, GetFails
  <2>5. \A g \in Handlers : pc'[g] \in {"enter", "append", "add"} => price'[g] # 0
        BY <1>1, <1>4, TraderAssumption
           DEF TypeOK, LookAbsent, LookPresent, Get, GetFails
  <2> QED BY <1>1, <1>2, <2>1, <2>2, <2>3, <2>4, <2>5 DEF TypeOK, Objects
<1>5. CASE EnterFails(h) \/ Divide(h) \/ DivideFails(h) \/ Trade(h)
  <2>1. UNCHANGED <<market, heap, saved>>
        BY <1>5 DEF EnterFails, Divide, DivideFails, Trade
  <2> QED BY <1>1, <1>2, <1>5, <2>1
             DEF TypeOK, Objects, EnterFails, Divide, DivideFails, Trade
<1>6. CASE Create(h)
  <2>1. /\ UNCHANGED <<mine, saved>> /\ pc' = [pc EXCEPT ![h] = "enter"]
        /\ \E p \in Prices : price' = [price EXCEPT ![h] = p]
        BY <1>6 DEF Create
  <2>2. \A g \in Handlers : pc'[g] \in {"get"} \cup InProcess => mine'[g] # 0
        BY <1>1, <2>1 DEF TypeOK
  <2>3. /\ price' \in [Handlers -> {0} \cup Prices]
        /\ \A g \in Handlers : pc'[g] \in {"enter", "append", "add"} => price'[g] # 0
        BY <1>1, <2>1, TraderAssumption DEF TypeOK
  <2>4. /\ heap' \in Seq(Average) /\ market' \in Objects'
        /\ Objects \subseteq Objects'
        BY <1>1, <1>6, Created
  <2> QED BY <1>1, <1>2, <2>1, <2>2, <2>3, <2>4 DEF TypeOK
<1>7. CASE Enter(h)
  <2>1. market \in Objects /\ heap' \in Seq(Average) /\ Objects' = Objects
        BY <1>1, <1>7, Entered, ChangedHeap DEF Changes
  <2>2. /\ UNCHANGED <<market, price, saved>> /\ pc' = [pc EXCEPT ![h] = "append"]
        /\ mine' = [mine EXCEPT ![h] = market] /\ pc[h] = "enter" /\ market # 0
        BY <1>7 DEF Enter
  <2> QED BY <1>1, <1>2, <2>1, <2>2 DEF TypeOK
<1>8. CASE AppendValue(h)
  <2>1. heap' \in Seq(Average) /\ Objects' = Objects
        BY <1>1, <1>8, Appended, ChangedHeap
  <2> QED BY <1>1, <1>2, <1>8, <2>1 DEF TypeOK, AppendValue
<1>9. CASE Add(h)
  <2>1. heap' \in Seq(Average) /\ Objects' = Objects
        BY <1>1, <1>9, Added, ChangedHeap
  <2>2. /\ UNCHANGED <<market, mine, saved>> /\ price' = [price EXCEPT ![h] = 0]
        /\ pc[h] = "add"
        /\ pc' = [pc EXCEPT ![h] = "pop"] \/ pc' = [pc EXCEPT ![h] = "divide"]
        BY <1>9 DEF Add
  <2> QED BY <1>1, <1>2, <2>1, <2>2 DEF TypeOK
<1>10. CASE Pop(h)
  <2>1. heap' \in Seq(Average) /\ Objects' = Objects /\ saved' \in [Handlers -> Int]
        BY <1>1, <1>10, Popped, ChangedHeap
  <2>2. /\ UNCHANGED <<market, mine, price>>
        /\ pc[h] = "pop" /\ pc' = [pc EXCEPT ![h] = "store"]
        BY <1>10 DEF Pop
  <2> QED BY <1>1, <1>2, <2>1, <2>2 DEF TypeOK
<1>11. CASE Store(h)
  <2>1. heap' \in Seq(Average) /\ Objects' = Objects
        BY <1>1, <1>11, Stored, ChangedHeap
  <2> QED BY <1>1, <1>2, <1>11, <2>1 DEF TypeOK, Store
<1> QED BY <1>3, <1>4, <1>5, <1>6, <1>7, <1>8, <1>9, <1>10, <1>11 DEF Handle

-----------------------------------------------------------------------------
(* The window's bounds, object by object. *)
LEMMA WindowByObject ==
  /\ WindowHolds <=> \A o \in Objects : WindowOf(o)
  /\ WindowHolds' <=> \A o \in Objects' : WindowOf(o)'
  BY DEF WindowHolds, WindowOf, Open, Size

(* A step of h moves no other handler. *)
LEMMA OneMoves ==
  ASSUME TypeOK, NEW h \in Handlers, Handle(h)
  PROVE  \A g \in Handlers : g # h => pc'[g] = pc[g] /\ mine'[g] = mine[g]
<1> USE DEF Go, End
<1>1. CASE Request(h) \/ TurnAway(h) \/ LetIn(h)
      BY <1>1 DEF TypeOK, Request, TurnAway, LetIn
<1>2. CASE LookAbsent(h) \/ Create(h) \/ LookPresent(h) \/ Get(h) \/ GetFails(h)
      BY <1>2 DEF TypeOK, LookAbsent, Create, LookPresent, Get, GetFails
<1>3. CASE Enter(h) \/ EnterFails(h) \/ AppendValue(h) \/ Add(h)
      BY <1>3 DEF TypeOK, Enter, EnterFails, AppendValue, Add
<1>4. CASE Pop(h) \/ Store(h) \/ Divide(h) \/ DivideFails(h) \/ Trade(h)
      BY <1>4 DEF TypeOK, Pop, Store, Divide, DivideFails, Trade
<1> QED BY <1>1, <1>2, <1>3, <1>4 DEF Handle

(* A step that moves h neither into nor out of the places between append   *)
(* and pop leaves the open handlers alone, if h keeps its average or is    *)
(* outside before and after.                                               *)
LEMMA OpenStays ==
  ASSUME TypeOK, NEW h \in Handlers, NEW o,
         pc[h] \notin {"add", "pop"}, pc'[h] \notin {"add", "pop"},
         \A g \in Handlers : g # h => pc'[g] = pc[g] /\ mine'[g] = mine[g]
  PROVE  Open(o)' = Open(o)
  BY DEF Open, In

(* Every step of a handler keeps the window's bounds. *)
LEMMA WindowStep ==
  ASSUME IInv, NEW h \in Handlers, Handle(h)
  PROVE  WindowHolds'
<1> USE DEF Go, End
<1>1. TypeOK /\ WindowHolds
      BY DEF IInv
<1>2. \A o \in Objects : WindowOf(o) /\ Size(o) \in Nat
      BY <1>1, WindowByObject, HeapTypes
<1>3. \A g \in Handlers : g # h => pc'[g] = pc[g] /\ mine'[g] = mine[g]
      BY <1>1, OneMoves
<1>4. ASSUME UNCHANGED heap,
             pc[h] \notin {"add", "pop"}, pc'[h] \notin {"add", "pop"}
      PROVE  WindowHolds'
  <2>1. \A o : Open(o)' = Open(o)
        BY <1>1, <1>3, <1>4, OpenStays
  <2>2. Objects' = Objects /\ \A o : Size(o)' = Size(o)
        BY <1>4 DEF Objects, Size
  <2> QED BY <1>2, <2>1, <2>2, WindowByObject DEF WindowOf
<1>5. CASE Request(h) \/ TurnAway(h) \/ LetIn(h)
      BY <1>1, <1>4, <1>5 DEF TypeOK, Request, TurnAway, LetIn
<1>6. CASE LookAbsent(h) \/ LookPresent(h) \/ Get(h) \/ GetFails(h)
      BY <1>1, <1>4, <1>6 DEF TypeOK, LookAbsent, LookPresent, Get, GetFails
<1>7. CASE EnterFails(h) \/ Divide(h) \/ DivideFails(h) \/ Trade(h)
      BY <1>1, <1>4, <1>7 DEF TypeOK, EnterFails, Divide, DivideFails, Trade
<1>8. CASE Create(h)
  <2>1. pc[h] \notin {"add", "pop"} /\ pc'[h] \notin {"add", "pop"}
        BY <1>1, <1>8 DEF TypeOK, Create
  <2>2. \A o : Open(o)' = Open(o)
        BY <1>1, <1>3, <2>1, OpenStays
  <2>3. PICK n : /\ market' = n /\ n # 0 /\ n \notin Objects
                 /\ Objects' = Objects \cup {n} /\ Size(n)' = 0
        BY <1>1, <1>8, Created
  <2>4. Cardinality(Open(n)) = 0
    <3>1. Open(n) = {}
          BY <1>1, <2>3 DEF TypeOK, Open, In
    <3> QED BY <3>1, FS_EmptySet
  <2>5. WindowOf(n)'
        BY <2>2, <2>3, <2>4, TraderAssumption DEF WindowOf
  <2>6. \A o \in Objects : WindowOf(o)'
        BY <1>1, <1>2, <1>8, <2>2, Created DEF WindowOf
  <2> QED BY <2>3, <2>5, <2>6, WindowByObject
<1>9. CASE Enter(h) \/ Store(h)
  <2>1. pc[h] \notin {"add", "pop"} /\ pc'[h] \notin {"add", "pop"}
        BY <1>1, <1>9 DEF TypeOK, Enter, Store
  <2>2. \A o : Open(o)' = Open(o)
        BY <1>1, <1>3, <2>1, OpenStays
  <2>3. Objects' = Objects /\ \A o \in Objects : Size(o)' = Size(o)
    <3>1. CASE Enter(h)
          BY <1>1, <3>1, Entered, ChangedHeap
    <3>2. CASE Store(h)
          BY <1>1, <3>2, Stored, ChangedHeap
    <3> QED BY <1>9, <3>1, <3>2
  <2> QED BY <1>2, <2>2, <2>3, WindowByObject DEF WindowOf
<1>10. ASSUME NEW m \in Objects, NEW a, Changes(m, a),
              \A o \in Objects : o # m => Open(o)' = Open(o),
              NEW S, Open(m)' = S,
              Len(a.values) <= W + Cardinality(S), Len(a.values) >= Cardinality(S)
       PROVE  WindowHolds'
  <2>1. /\ Objects' = Objects /\ Size(m)' = Len(a.values)
        /\ \A o \in Objects : o # m => Size(o)' = Size(o)
        BY <1>1, <1>10, ChangedHeap
  <2>2. \A o \in Objects : o # m => WindowOf(o)'
        BY <1>2, <1>10, <2>1 DEF WindowOf
  <2>3. WindowOf(m)'
        BY <1>10, <2>1 DEF WindowOf
  <2> QED BY <2>1, <2>2, <2>3, WindowByObject
<1>11. CASE AppendValue(h)
  <2> DEFINE m == mine[h]
  <2>1. /\ pc[h] = "append" /\ pc' = [pc EXCEPT ![h] = "add"]
        /\ mine' = mine /\ m \in Objects
        BY <1>1, <1>11 DEF AppendValue, TypeOK, InProcess
  <2>2. h \notin Open(m) /\ \A o \in Objects : o # m => Open(o)' = Open(o)
        BY <1>1, <2>1 DEF Open, In, TypeOK
  <2>3. PICK a : Changes(m, a) /\ Len(a.values) = Size(m) + 1
        BY <1>1, <1>11, Appended
  <2>4. PICK k : k = m
        OBVIOUS
  <2>5. Open(k)' = Open(m) \cup {h}
        BY <1>1, <2>1, <2>4 DEF Open, In, TypeOK
  <2>6. Cardinality(Open(m) \cup {h}) = Cardinality(Open(m)) + 1
        BY <2>2, OpenIsFinite, OneMore
  <2>7. /\ Len(a.values) <= W + Cardinality(Open(m) \cup {h})
        /\ Len(a.values) >= Cardinality(Open(m) \cup {h})
        BY <1>2, <2>1, <2>3, <2>6, OpenIsFinite, TraderAssumption DEF WindowOf
  <2> QED BY <1>10, <2>1, <2>2, <2>3, <2>4, <2>5, <2>7
<1>12. CASE Add(h)
  <2> DEFINE m == mine[h]
  <2>1. /\ pc[h] = "add" /\ mine' = mine /\ m \in Objects /\ h \in Open(m)
        /\ pc' = [pc EXCEPT ![h] = IF Size(m) > W THEN "pop" ELSE "divide"]
        BY <1>1, <1>12 DEF Add, TypeOK, InProcess, Open, In, Size
  <2>2. \A o \in Objects : o # m => Open(o)' = Open(o)
        BY <1>1, <2>1 DEF Open, In, TypeOK
  <2>3. PICK a : Changes(m, a) /\ Len(a.values) = Size(m)
        BY <1>1, <1>12, Added
  <2>4. PICK k : k = m
        OBVIOUS
  <2>5. CASE Size(m) > W
    <3>1. pc' = [pc EXCEPT ![h] = "pop"]
          BY <2>1, <2>5
    <3>2. Open(k)' = Open(m)
          BY <1>1, <2>1, <2>4, <3>1 DEF Open, In, TypeOK
    <3> QED BY <1>2, <1>10, <2>1, <2>2, <2>3, <2>4, <3>2 DEF WindowOf
  <2>6. CASE ~(Size(m) > W)
    <3>1. pc' = [pc EXCEPT ![h] = "divide"]
          BY <2>1, <2>6
    <3>2. Open(k)' = Open(m) \ {h}
          BY <1>1, <2>1, <2>4, <3>1 DEF Open, In, TypeOK
    <3>3. /\ Cardinality(Open(m) \ {h}) = Cardinality(Open(m)) - 1
          /\ Cardinality(Open(m)) \in Nat /\ Cardinality(Open(m) \ {h}) \in Nat
          BY <2>1, OpenIsFinite, OneLess, FS_RemoveElement, FS_CardinalityType
    <3>4. /\ Len(a.values) <= W + Cardinality(Open(m) \ {h})
          /\ Len(a.values) >= Cardinality(Open(m) \ {h})
          BY <1>2, <2>1, <2>3, <2>6, <3>3, TraderAssumption DEF WindowOf
    <3> QED BY <1>10, <2>1, <2>2, <2>3, <2>4, <3>2, <3>4
  <2> QED BY <2>5, <2>6
<1>13. CASE Pop(h)
  <2> DEFINE m == mine[h]
  <2>1. /\ pc[h] = "pop" /\ mine' = mine /\ m \in Objects /\ h \in Open(m)
        /\ pc' = [pc EXCEPT ![h] = "store"]
        BY <1>1, <1>13 DEF Pop, TypeOK, InProcess, Open, In
  <2>2. \A o \in Objects : o # m => Open(o)' = Open(o)
        BY <1>1, <2>1 DEF Open, In, TypeOK
  <2>3. PICK a : Changes(m, a) /\ Len(a.values) = Size(m) - 1
        BY <1>1, <1>13, Popped
  <2>4. PICK k : k = m
        OBVIOUS
  <2>5. Open(k)' = Open(m) \ {h}
        BY <1>1, <2>1, <2>4 DEF Open, In, TypeOK
  <2>6. /\ Cardinality(Open(m) \ {h}) = Cardinality(Open(m)) - 1
        /\ Cardinality(Open(m)) \in Nat
        BY <2>1, OpenIsFinite, OneLess
  <2>7. /\ Len(a.values) <= W + Cardinality(Open(m) \ {h})
        /\ Len(a.values) >= Cardinality(Open(m) \ {h})
        BY <1>2, <2>1, <2>3, <2>6, TraderAssumption DEF WindowOf
  <2> QED BY <1>10, <2>1, <2>2, <2>3, <2>4, <2>5, <2>7
<1> QED BY <1>5, <1>6, <1>7, <1>8, <1>9, <1>11, <1>12, <1>13 DEF Handle

-----------------------------------------------------------------------------
(* A reset, or nothing at all. *)
LEMMA OtherStep ==
  ASSUME IInv, Reset \/ UNCHANGED vars
  PROVE  IInv'
<1>1. UNCHANGED <<heap, pc, mine, price, saved, answer>>
      BY DEF Reset, vars, handler
<1>2. TypeOK'
  <2>1. CASE Reset
    <3>1. /\ market' \in {0} \cup Objects /\ transactions' \in 0 .. MaxRequests
          /\ resets' \in 0 .. MaxResets
          BY <2>1, TraderAssumption DEF IInv, TypeOK, Reset
    <3>2. met' \in [Handlers -> SUBSET {"request", "reset"}]
          BY <2>1 DEF IInv, TypeOK, Reset
    <3> QED BY <1>1, <3>1, <3>2 DEF IInv, TypeOK, Objects
  <2>2. CASE UNCHANGED vars
        BY <2>2 DEF IInv, TypeOK, Objects, vars, handler
  <2> QED BY <2>1, <2>2
<1>3. WindowHolds'
      BY <1>1 DEF IInv, WindowHolds, Objects, In
<1> QED BY <1>2, <1>3 DEF IInv

(* Types and bounds together are inductive. *)
LEMMA Inductive == IInv /\ [Next]_vars => IInv'
  BY TypeStep, WindowStep, OtherStep DEF Next, IInv

(* They hold in every behaviour. *)
LEMMA Invariant == Spec => []IInv
  BY InitIInv, Inductive, PTL DEF Spec

(* Every variable of the trader keeps its range, for any finite set of     *)
(* handlers, any prices and any window.                                    *)
THEOREM TypeCorrect == Spec => []TypeOK
<1>1. IInv => TypeOK
      BY DEF IInv
<1> QED BY <1>1, Invariant, PTL

(* model.py:21-24: pop(0) never finds the window empty, and the window is  *)
(* too long by at most the handlers that are about to pop.                 *)
THEOREM WindowIsBounded == Spec => []WindowHolds
<1>1. IInv => WindowHolds
      BY DEF IInv
<1> QED BY <1>1, Invariant, PTL

-----------------------------------------------------------------------------
(* Only a crowd empties the window.  While some handler is about to pop,   *)
(* there are values for all that may pop and for W + 1 - crowd more.       *)
Inside(o)  == In(o, InProcess)
Popping(o) == In(o, {"pop"})

CrowdOf(o) ==
  /\ Cardinality(Inside(o)) <= heap[o].crowd
  /\ Popping(o) # {} => Size(o) + heap[o].crowd >= W + 1 + Cardinality(Open(o))
  /\ heap[o].given # <<>> /\ heap[o].values = <<>> => heap[o].crowd > W

CrowdCounted == \A o \in Objects : CrowdOf(o)

(* The sets of handlers that are counted. *)
LEMMA SetsAreFinite ==
  ASSUME NEW o
  PROVE  /\ IsFiniteSet(Open(o)) /\ Cardinality(Open(o)) \in Nat
         /\ IsFiniteSet(Inside(o)) /\ Cardinality(Inside(o)) \in Nat
         /\ Cardinality(Open(o)) <= Cardinality(Inside(o))
<1>1. Inside(o) \in SUBSET Handlers /\ Open(o) \in SUBSET Inside(o)
      BY DEF Inside, Open, In, InProcess
<1>2. IsFiniteSet(Inside(o))
      BY <1>1, TraderAssumption, FS_Subset
<1> QED BY <1>1, <1>2, FS_Subset, FS_CardinalityType

(* What is known of the numbers of an average. *)
LEMMA Numbers ==
  ASSUME TypeOK, NEW m \in Objects, NEW a \in Average
  PROVE  /\ Size(m) \in Nat /\ heap[m].crowd \in Nat
         /\ Len(a.values) \in Nat /\ a.crowd \in Nat
         /\ Cardinality(Open(m)) \in Nat /\ Cardinality(Inside(m)) \in Nat
         /\ Cardinality(Open(m)) <= Cardinality(Inside(m))
         /\ a.values = <<>> <=> Len(a.values) = 0
         /\ heap[m].values = <<>> <=> Size(m) = 0
         /\ W \in Nat \ {0}
<1>1. /\ heap[m].values \in Seq(Prices) /\ heap[m].crowd \in Nat
      /\ a.values \in Seq(Prices) /\ a.crowd \in Nat
      BY HeapTypes DEF Average
<1> QED BY <1>1, SetsAreFinite, TraderAssumption DEF Size

(* An average that is not touched, and whose handlers are still the same,  *)
(* or fewer and none of them open, is as it was.                           *)
LEMMA CrowdStays ==
  ASSUME TypeOK, NEW o \in Objects, CrowdOf(o), heap'[o] = heap[o],
         NEW I, I \subseteq Inside(o), Inside(o)' = I,
         Open(o)' = Open(o), Popping(o)' = Popping(o)
  PROVE  CrowdOf(o)'
<1>1. heap[o].crowd \in Nat /\ Cardinality(Inside(o)) <= heap[o].crowd
      BY HeapTypes DEF CrowdOf
<1>2. IsFiniteSet(Inside(o)) /\ Cardinality(Inside(o)) \in Nat
      BY SetsAreFinite
<1>3. Cardinality(I) <= Cardinality(Inside(o)) /\ Cardinality(I) \in Nat
      BY <1>2, FS_Subset, FS_CardinalityType
<1>4. Cardinality(I) <= heap[o].crowd
      BY <1>1, <1>2, <1>3
<1> QED BY <1>4 DEF CrowdOf, Size

(* The handlers of other averages than the one h works on before and       *)
(* after a step.                                                           *)
LEMMA OthersStay ==
  ASSUME NEW h \in Handlers, NEW o,
         \A g \in Handlers : g # h => pc'[g] = pc[g] /\ mine'[g] = mine[g],
         mine[h] # o \/ pc[h] \notin InProcess,
         mine'[h] # o \/ pc'[h] \notin InProcess
  PROVE  /\ Inside(o)' = Inside(o) /\ Open(o)' = Open(o)
         /\ Popping(o)' = Popping(o)
<1>1. Inside(o)' = Inside(o)
      BY DEF Inside, In
<1>2. Open(o)' = Open(o)
      BY DEF Open, In, InProcess
<1>3. Popping(o)' = Popping(o)
      BY DEF Popping, In, InProcess
<1> QED BY <1>1, <1>2, <1>3

(* Every step of a handler keeps what is counted. *)
LEMMA CrowdStep ==
  ASSUME IInv, CrowdCounted, NEW h \in Handlers, Handle(h)
  PROVE  CrowdCounted'
<1> USE DEF Go, End
<1>1. TypeOK /\ WindowHolds
      BY DEF IInv
<1>2. \A g \in Handlers : g # h => pc'[g] = pc[g] /\ mine'[g] = mine[g]
      BY <1>1, OneMoves
<1>3. \A o \in Objects : CrowdOf(o)
      BY DEF CrowdCounted
<1>4. ASSUME UNCHANGED heap,
             pc[h] \notin {"add", "pop"}, pc'[h] \notin InProcess
      PROVE  CrowdCounted'
  <2>1. ASSUME NEW o \in Objects
        PROVE  CrowdOf(o)'
    <3>1. Inside(o)' = Inside(o) \ {h}
          BY <1>2, <1>4 DEF Inside, In
    <3>2. Open(o)' = Open(o) /\ Popping(o)' = Popping(o)
          BY <1>2, <1>4 DEF Open, Popping, In, InProcess
    <3> QED BY <1>1, <1>3, <1>4, <3>1, <3>2, CrowdStays
  <2> QED BY <1>4, <2>1 DEF CrowdCounted, Objects
<1>5. CASE Request(h) \/ TurnAway(h) \/ LetIn(h)
      BY <1>1, <1>4, <1>5 DEF TypeOK, Request, TurnAway, LetIn, InProcess
<1>6. CASE LookAbsent(h) \/ LookPresent(h) \/ Get(h) \/ GetFails(h)
      BY <1>1, <1>4, <1>6 DEF TypeOK, LookAbsent, LookPresent, Get, GetFails, InProcess
<1>7. CASE EnterFails(h) \/ Divide(h) \/ DivideFails(h) \/ Trade(h)
      BY <1>1, <1>4, <1>7 DEF TypeOK, EnterFails, Divide, DivideFails, Trade, InProcess
<1>8. CASE Create(h)
  <2>1. pc[h] \notin InProcess /\ pc'[h] \notin InProcess
        BY <1>1, <1>8 DEF TypeOK, Create, InProcess
  <2>2. \A o : /\ Inside(o)' = Inside(o) /\ Open(o)' = Open(o)
               /\ Popping(o)' = Popping(o)
        BY <1>2, <2>1, OthersStay
  <2>3. PICK n : /\ n # 0 /\ n \notin Objects /\ heap'[n] = NewAverage
                 /\ Objects' = Objects \cup {n}
        BY <1>1, <1>8, Created
  <2>4. CrowdOf(n)'
    <3>1. Inside(n) = {} /\ Popping(n) = {}
          BY <1>1, <2>3 DEF TypeOK, Inside, Popping, In
    <3>2. Cardinality(Inside(n)') = 0
          BY <2>2, <3>1, FS_EmptySet
    <3> QED BY <2>2, <2>3, <3>1, <3>2 DEF CrowdOf, NewAverage
  <2>5. \A o \in Objects : CrowdOf(o)'
        BY <1>1, <1>3, <1>8, <2>2, Created, CrowdStays
  <2> QED BY <2>3, <2>4, <2>5 DEF CrowdCounted
<1>9. ASSUME NEW m \in Objects, NEW a, Changes(m, a),
             \A o \in Objects : o # m => mine[h] # o \/ pc[h] \notin InProcess,
             \A o \in Objects : o # m => mine'[h] # o \/ pc'[h] \notin InProcess,
             NEW I, Inside(m)' = I, Cardinality(I) <= a.crowd,
             NEW S, Open(m)' = S,
             NEW P, Popping(m)' = P,
             P # {} => Len(a.values) + a.crowd >= W + 1 + Cardinality(S),
             a.given # <<>> /\ a.values = <<>> => a.crowd > W
      PROVE  CrowdCounted'
  <2>1. /\ Objects' = Objects /\ heap'[m] = a
        /\ \A o \in Objects : o # m => heap'[o] = heap[o]
        BY <1>1, <1>9, ChangedHeap
  <2>2. \A o \in Objects : o # m => CrowdOf(o)'
        BY <1>1, <1>2, <1>3, <1>9, <2>1, OthersStay, CrowdStays
  <2>3. CrowdOf(m)'
        BY <1>9, <2>1 DEF CrowdOf, Size
  <2> QED BY <2>1, <2>2, <2>3 DEF CrowdCounted
<1>10. CASE Enter(h)
  <2>1. PICK m : m = market
        OBVIOUS
  <2>2. /\ m \in Objects /\ pc[h] = "enter" /\ pc' = [pc EXCEPT ![h] = "append"]
        /\ mine' = [mine EXCEPT ![h] = m]
        BY <1>1, <1>10, <2>1 DEF TypeOK, Enter
  <2>3. PICK a : /\ Changes(m, a) /\ Len(a.values) = Size(m)
                 /\ a.given = heap[m].given /\ a.crowd >= heap[m].crowd
                 /\ a.crowd >= Cardinality(Inside(m) \cup {h})
        BY <1>1, <1>10, <2>1, Entered DEF Inside
  <2>4. Inside(m)' = Inside(m) \cup {h}
        BY <1>1, <2>2 DEF Inside, In, InProcess, TypeOK
  <2>5. Open(m)' = Open(m) /\ Popping(m)' = Popping(m)
        BY <1>1, <2>2 DEF Open, Popping, In, TypeOK
  <2>6. /\ \A o \in Objects : o # m => mine[h] # o \/ pc[h] \notin InProcess
        /\ \A o \in Objects : o # m => mine'[h] # o \/ pc'[h] \notin InProcess
        BY <1>1, <2>2 DEF InProcess, TypeOK
  <2>7. Cardinality(Inside(m) \cup {h}) \in Nat
        BY SetsAreFinite, FS_AddElement, FS_CardinalityType
  <2>8. /\ Cardinality(Inside(m) \cup {h}) <= a.crowd
        /\ Popping(m) # {} =>
             Len(a.values) + a.crowd >= W + 1 + Cardinality(Open(m))
        /\ a.given # <<>> /\ a.values = <<>> => a.crowd > W
        BY <1>1, <1>3, <2>2, <2>3, <2>7, Numbers DEF CrowdOf, Changes
  <2> QED BY <1>9, <2>2, <2>3, <2>4, <2>5, <2>6, <2>8
<1>11. CASE AppendValue(h)
  <2>1. PICK m : m = mine[h]
        OBVIOUS
  <2>2. /\ m \in Objects /\ pc[h] = "append" /\ pc' = [pc EXCEPT ![h] = "add"]
        /\ mine' = mine
        BY <1>1, <1>11, <2>1 DEF TypeOK, AppendValue, InProcess
  <2>3. PICK a : /\ Changes(m, a) /\ Len(a.values) = Size(m) + 1
                 /\ a.crowd = heap[m].crowd
        BY <1>1, <1>11, <2>1, Appended
  <2>4. Inside(m)' = Inside(m)
        BY <1>1, <2>1, <2>2 DEF Inside, In, InProcess, TypeOK
  <2>5. /\ Open(m)' = Open(m) \cup {h} /\ h \notin Open(m)
        /\ Popping(m)' = Popping(m)
        BY <1>1, <2>1, <2>2 DEF Open, Popping, In, TypeOK
  <2>6. Cardinality(Open(m) \cup {h}) = Cardinality(Open(m)) + 1
        BY <2>5, OpenIsFinite, OneMore
  <2>7. /\ Cardinality(Inside(m)) <= a.crowd
        /\ Popping(m) # {} =>
             Len(a.values) + a.crowd >= W + 1 + Cardinality(Open(m) \cup {h})
        /\ a.given # <<>> /\ a.values = <<>> => a.crowd > W
        BY <1>1, <1>3, <2>2, <2>3, <2>6, Numbers DEF CrowdOf, Changes
  <2> QED BY <1>9, <2>1, <2>2, <2>3, <2>4, <2>5, <2>7
<1>12. CASE Add(h)
  <2>1. PICK m : m = mine[h]
        OBVIOUS
  <2>2. /\ m \in Objects /\ pc[h] = "add" /\ mine' = mine
        /\ pc' = [pc EXCEPT ![h] = IF Size(m) > W THEN "pop" ELSE "divide"]
        BY <1>1, <1>12, <2>1 DEF TypeOK, Add, InProcess, Size
  <2>3. PICK a : /\ Changes(m, a) /\ Len(a.values) = Size(m)
                 /\ a.crowd = heap[m].crowd /\ a.given = heap[m].given
        BY <1>1, <1>12, <2>1, Added
  <2>4. Inside(m)' = Inside(m)
        BY <1>1, <2>1, <2>2 DEF Inside, In, InProcess, TypeOK
  <2>5. /\ Cardinality(Inside(m)) <= a.crowd
        /\ a.given # <<>> /\ a.values = <<>> => a.crowd > W
        BY <1>1, <1>3, <2>2, <2>3, Numbers DEF CrowdOf, Changes
  <2>6. CASE Size(m) > W
    <3>1. pc' = [pc EXCEPT ![h] = "pop"]
          BY <2>2, <2>6
    <3>2. PICK P : P = Popping(m)'
          OBVIOUS
    <3>3. Open(m)' = Open(m)
          BY <1>1, <2>1, <2>2, <3>1 DEF Open, In, TypeOK
    <3>4. Len(a.values) + a.crowd >= W + 1 + Cardinality(Open(m))
          BY <1>1, <1>3, <2>2, <2>3, <2>6, Numbers DEF CrowdOf, Changes
    <3> QED BY <1>9, <2>1, <2>2, <2>3, <2>4, <2>5, <3>2, <3>3, <3>4
  <2>7. CASE ~(Size(m) > W)
    <3>1. pc' = [pc EXCEPT ![h] = "divide"]
          BY <2>2, <2>7
    <3>2. Popping(m)' = Popping(m)
          BY <1>1, <2>1, <2>2, <3>1 DEF Popping, In, TypeOK
    <3>3. Open(m)' = Open(m) \ {h} /\ h \in Open(m)
          BY <1>1, <2>1, <2>2, <3>1 DEF Open, In, TypeOK
    <3>4. Cardinality(Open(m) \ {h}) = Cardinality(Open(m)) - 1
          BY <3>3, OpenIsFinite, OneLess
    <3>5. Popping(m) # {} =>
            Len(a.values) + a.crowd >= W + 1 + Cardinality(Open(m) \ {h})
          BY <1>1, <1>3, <2>2, <2>3, <3>4, Numbers DEF CrowdOf, Changes
    <3> QED BY <1>9, <2>1, <2>2, <2>3, <2>4, <2>5, <3>2, <3>3, <3>5
  <2> QED BY <2>6, <2>7
<1>13. CASE Pop(h)
  <2>1. PICK m : m = mine[h]
        OBVIOUS
  <2>2. /\ m \in Objects /\ pc[h] = "pop" /\ pc' = [pc EXCEPT ![h] = "store"]
        /\ mine' = mine
        BY <1>1, <1>13, <2>1 DEF TypeOK, Pop, InProcess
  <2>3. PICK a : /\ Changes(m, a) /\ Len(a.values) = Size(m) - 1
                 /\ a.crowd = heap[m].crowd /\ a.given = heap[m].given
        BY <1>1, <1>13, <2>1, Popped
  <2>4. Inside(m)' = Inside(m)
        BY <1>1, <2>1, <2>2 DEF Inside, In, InProcess, TypeOK
  <2>5. /\ Open(m)' = Open(m) \ {h} /\ h \in Open(m)
        /\ Popping(m)' = Popping(m) \ {h} /\ h \in Popping(m)
        BY <1>1, <2>1, <2>2 DEF Open, Popping, In, TypeOK
  <2>6. /\ Cardinality(Open(m) \ {h}) = Cardinality(Open(m)) - 1
        /\ Cardinality(Open(m) \ {h}) \in Nat
        BY <2>5, OpenIsFinite, OneLess, FS_RemoveElement, FS_CardinalityType
  <2>7. Size(m) + heap[m].crowd >= W + 1 + Cardinality(Open(m))
        BY <1>3, <2>2, <2>5 DEF CrowdOf
  <2>8. /\ Cardinality(Inside(m)) <= a.crowd
        /\ Len(a.values) + a.crowd >= W + 1 + Cardinality(Open(m) \ {h})
        /\ a.given # <<>> /\ a.values = <<>> => a.crowd > W
        BY <1>1, <1>3, <2>2, <2>3, <2>6, <2>7, Numbers DEF CrowdOf, Changes
  <2> QED BY <1>9, <2>1, <2>2, <2>3, <2>4, <2>5, <2>8
<1>14. CASE Store(h)
  <2>1. PICK m : m = mine[h]
        OBVIOUS
  <2>2. /\ m \in Objects /\ pc[h] = "store" /\ pc' = [pc EXCEPT ![h] = "divide"]
        /\ mine' = mine
        BY <1>1, <1>14, <2>1 DEF TypeOK, Store, InProcess
  <2>3. PICK a : /\ Changes(m, a) /\ Len(a.values) = Size(m)
                 /\ a.crowd = heap[m].crowd /\ a.given = heap[m].given
        BY <1>1, <1>14, <2>1, Stored
  <2>4. Inside(m)' = Inside(m)
        BY <1>1, <2>1, <2>2 DEF Inside, In, InProcess, TypeOK
  <2>5. Open(m)' = Open(m) /\ Popping(m)' = Popping(m)
        BY <1>1, <2>1, <2>2 DEF Open, Popping, In, TypeOK
  <2>6. /\ Cardinality(Inside(m)) <= a.crowd
        /\ Popping(m) # {} =>
             Len(a.values) + a.crowd >= W + 1 + Cardinality(Open(m))
        /\ a.given # <<>> /\ a.values = <<>> => a.crowd > W
        BY <1>1, <1>3, <2>2, <2>3, Numbers DEF CrowdOf, Changes
  <2> QED BY <1>9, <2>1, <2>2, <2>3, <2>4, <2>5, <2>6
<1> QED BY <1>5, <1>6, <1>7, <1>8, <1>10, <1>11, <1>12, <1>13, <1>14 DEF Handle

(* So do a reset and stuttering. *)
LEMMA CrowdOtherStep ==
  ASSUME CrowdCounted, Reset \/ UNCHANGED vars
  PROVE  CrowdCounted'
<1>1. UNCHANGED <<heap, pc, mine>>
      BY DEF Reset, vars, handler
<1> QED BY <1>1
           DEF CrowdCounted, CrowdOf, Inside, Open, Popping, In, Size, Objects

(* There is no average at first. *)
LEMMA CrowdInitially == Init => CrowdCounted
  BY DEF Init, CrowdCounted, Objects

(* What is counted holds in every behaviour. *)
LEMMA CrowdInvariant == Spec => []CrowdCounted
<1>1. IInv /\ CrowdCounted /\ [Next]_vars => CrowdCounted'
      BY CrowdStep, CrowdOtherStep DEF Next
<1> QED BY <1>1, CrowdInitially, Invariant, PTL DEF Spec

(* model.py:20-25: whatever the window's size and the number of handlers,  *)
(* an average that was given a price is empty again only if more handlers  *)
(* than the window has places were in process() at once.                   *)
THEOREM OnlyACrowdEmpties == Spec => []EmptiedByCrowd
<1>1. CrowdCounted => EmptiedByCrowd
      BY DEF CrowdCounted, CrowdOf, EmptiedByCrowd
<1> QED BY <1>1, CrowdInvariant, PTL

-----------------------------------------------------------------------------
(* Induction over the numbers, for a set: were some number not in it, the *)
(* least one that is not would end the shortest interval 0 .. n of those. *)
LEMMA SetInduction ==
  ASSUME NEW S, 0 \in S, \A n \in Nat : n \in S => n + 1 \in S
  PROVE  Nat \subseteq S
<1> DEFINE Missing == Nat \ S
           Intervals == {0 .. n : n \in Missing}
           R == StrictSubsetOrdering(Nat)
<1> SUFFICES ASSUME Missing # {} PROVE FALSE
    OBVIOUS
<1>1. Intervals \subseteq FiniteSubsetsOf(Nat)
  <2>1. \A n \in Nat : IsFiniteSet(0 .. n)
        BY FS_Interval
  <2> QED BY <2>1 DEF FiniteSubsetsOf
<1>2. Intervals # {}
      OBVIOUS
<1>3. \E x \in Intervals : \A y \in Intervals : ~(<<y, x>> \in R)
  <2>1. IsWellFoundedOn(R, FiniteSubsetsOf(Nat))
        BY FS_StrictSubsetOrderingWellFounded
  <2> HIDE DEF R, Intervals
  <2> QED BY <1>1, <1>2, <2>1, WFMin
<1>4. PICK n \in Missing : \A y \in Intervals : ~(<<y, 0 .. n>> \in R)
      BY <1>3
<1>5. n \in Nat /\ n - 1 \in Missing
      BY <1>4
<1>6. <<0 .. n - 1, 0 .. n>> \in R
  <2>1. 0 .. n - 1 \in SUBSET Nat /\ 0 .. n \in SUBSET Nat /\ 0 .. n - 1 \subseteq 0 .. n
        BY <1>5
  <2>2. n \in 0 .. n /\ n \notin 0 .. n - 1
        BY <1>5
  <2> QED BY <2>1, <2>2 DEF StrictSubsetOrdering
<1> QED BY <1>4, <1>5, <1>6

(* The sums of the first values of s, one after the other. *)
AreSums(f, s) == f = [i \in 0 .. Len(s) |-> IF i = 0 THEN 0 ELSE f[i - 1] + s[i]]

(* What a function of running sums is, index by index. *)
LEMMA SumsByIndex ==
  ASSUME NEW s \in Seq(Int), NEW f, AreSums(f, s)
  PROVE  /\ DOMAIN f = 0 .. Len(s) /\ f[0] = 0
         /\ \A i \in 1 .. Len(s) : f[i] = f[i - 1] + s[i]
<1>1. \A i \in 0 .. Len(s) : f[i] = IF i = 0 THEN 0 ELSE f[i - 1] + s[i]
      BY DEF AreSums
<1>2. Len(s) \in Nat /\ 0 \in 0 .. Len(s) /\ 1 .. Len(s) \subseteq 0 .. Len(s)
      OBVIOUS
<1>3. \A i \in 1 .. Len(s) : i # 0
      OBVIOUS
<1> QED BY <1>1, <1>2, <1>3 DEF AreSums

(* Two functions of running sums agree as far as their sequences do. *)
LEMMA SumsAgree ==
  ASSUME NEW s \in Seq(Int), NEW t \in Seq(Int), NEW f, NEW g,
         AreSums(f, s), AreSums(g, t),
         NEW n \in Nat, n <= Len(s), n <= Len(t),
         \A i \in 1 .. n : s[i] = t[i]
  PROVE  f[n] = g[n] /\ f[n] \in Int
<1> DEFINE Agreed == {i \in Nat : i <= n => f[i] = g[i] /\ f[i] \in Int}
<1>1. 0 \in Agreed
      BY SumsByIndex
<1>2. ASSUME NEW i \in Nat, i \in Agreed PROVE i + 1 \in Agreed
  <2> SUFFICES ASSUME i + 1 <= n
               PROVE  f[i + 1] = g[i + 1] /\ f[i + 1] \in Int
      OBVIOUS
  <2>1. i + 1 \in 1 .. n /\ i + 1 \in 1 .. Len(s) /\ i + 1 \in 1 .. Len(t)
        OBVIOUS
  <2>2. f[i] = g[i] /\ f[i] \in Int
        BY <1>2
  <2>3. s[i + 1] = t[i + 1] /\ s[i + 1] \in Int
        BY <2>1
  <2>4. f[i + 1] = f[(i + 1) - 1] + s[i + 1] /\ g[i + 1] = g[(i + 1) - 1] + t[i + 1]
        BY <2>1, SumsByIndex
  <2>5. (i + 1) - 1 = i
        OBVIOUS
  <2> QED BY <2>2, <2>3, <2>4, <2>5
<1> HIDE DEF Agreed
<1>3. n \in Agreed
      BY <1>1, <1>2, SetInduction
<1> QED BY <1>3 DEF Agreed

(* There are running sums of every sequence. *)
LEMMA SumsExist ==
  ASSUME NEW s \in Seq(Int)
  PROVE  \E f : AreSums(f, s)
<1> DEFINE Goes(f, n) == /\ f \in [0 .. n -> Int] /\ f[0] = 0
                         /\ \A i \in 1 .. n : f[i] = f[i - 1] + s[i]
           Far == {n \in Nat : n <= Len(s) => \E f : Goes(f, n)}
<1>1. 0 \in Far
  <2>1. Goes([i \in 0 .. 0 |-> 0], 0)
        OBVIOUS
  <2> QED BY <2>1
<1>2. ASSUME NEW n \in Nat, n \in Far PROVE n + 1 \in Far
  <2> HIDE DEF Goes
  <2> SUFFICES ASSUME n + 1 <= Len(s) PROVE \E f : Goes(f, n + 1)
      OBVIOUS
  <2>1. PICK f : Goes(f, n)
    <3>1. n <= Len(s)
          OBVIOUS
    <3> QED BY <1>2, <3>1
  <2> USE DEF Goes
  <2>2. s[n + 1] \in Int /\ f[n] \in Int
        BY <2>1
  <2> DEFINE g == [i \in 0 .. n + 1 |-> IF i = n + 1 THEN f[n] + s[n + 1] ELSE f[i]]
  <2>3. g \in [0 .. n + 1 -> Int] /\ g[0] = 0
        BY <2>1, <2>2
  <2>4. ASSUME NEW i \in 1 .. n + 1 PROVE g[i] = g[i - 1] + s[i]
    <3>1. i \in 0 .. n + 1 /\ i - 1 \in 0 .. n + 1 /\ i - 1 # n + 1
          OBVIOUS
    <3>2. CASE i = n + 1
          BY <3>1, <3>2
    <3>3. CASE i # n + 1
      <4>1. i \in 1 .. n
            BY <3>3
      <4> QED BY <2>1, <3>1, <3>3, <4>1
    <3> QED BY <3>2, <3>3
  <2> HIDE DEF g
  <2> QED BY <2>3, <2>4
<1> HIDE DEF Far
<1>3. Len(s) \in Far
  <2>1. Len(s) \in Nat
        OBVIOUS
  <2> QED BY <1>1, <1>2, <2>1, SetInduction
<1>4. PICK f : Goes(f, Len(s))
      BY <1>3 DEF Far
<1>5. AreSums(f, s)
  <2>1. ASSUME NEW i \in 0 .. Len(s)
        PROVE  f[i] = IF i = 0 THEN 0 ELSE f[i - 1] + s[i]
        BY <1>4
  <2> QED BY <1>4, <2>1 DEF AreSums
<1> QED BY <1>5

(* The sum of a sequence is the last of its running sums, ...              *)
LEMMA SumIsLast ==
  ASSUME NEW s \in Seq(Int)
  PROVE  \E f : AreSums(f, s) /\ SumOf(s) = f[Len(s)]
<1> DEFINE f == CHOOSE f : AreSums(f, s)
<1>1. AreSums(f, s)
      BY SumsExist
<1>2. SumOf(s) = f[Len(s)]
      BY DEF SumOf, AreSums
<1> QED BY <1>1, <1>2

(* ... whichever they are.                                                 *)
LEMMA SumIs ==
  ASSUME NEW s \in Seq(Int), NEW f, AreSums(f, s)
  PROVE  SumOf(s) = f[Len(s)] /\ SumOf(s) \in Int
<1>1. PICK g : AreSums(g, s) /\ SumOf(s) = g[Len(s)]
      BY SumIsLast
<1>2. Len(s) \in Nat
      OBVIOUS
<1> QED BY <1>1, <1>2, SumsAgree

(* Nothing sums up to 0. *)
LEMMA SumOfNothing == SumOf(<<>>) = 0
<1> <<>> \in Seq(Int) /\ Len(<<>>) = 0
    OBVIOUS
<1> QED BY SumIsLast, SumsByIndex

(* One value more adds itself. *)
LEMMA SumOfAppend ==
  ASSUME NEW s \in Seq(Int), NEW x \in Int
  PROVE  SumOf(Append(s, x)) = SumOf(s) + x /\ SumOf(s) \in Int
<1>1. PICK t : t = Append(s, x)
      OBVIOUS
<1>2. /\ t \in Seq(Int) /\ Len(t) = Len(s) + 1 /\ t[Len(s) + 1] = x
      /\ \A i \in 1 .. Len(s) : t[i] = s[i]
      BY <1>1
<1>3. PICK f : AreSums(f, s) /\ SumOf(s) = f[Len(s)]
      BY SumIsLast
<1>4. PICK g : AreSums(g, t) /\ SumOf(t) = g[Len(t)]
      BY <1>2, SumIsLast
<1>5. f[Len(s)] = g[Len(s)] /\ f[Len(s)] \in Int
  <2>1. PICK n : n = Len(s)
        OBVIOUS
  <2>2. n \in Nat /\ n <= Len(s) /\ n <= Len(t) /\ \A i \in 1 .. n : s[i] = t[i]
        BY <1>2, <2>1
  <2>3. f[n] = g[n] /\ f[n] \in Int
        BY <1>2, <1>3, <1>4, <2>2, SumsAgree
  <2> QED BY <2>1, <2>3
<1>6. g[Len(s) + 1] = g[(Len(s) + 1) - 1] + t[Len(s) + 1]
      BY <1>2, <1>4, SumsByIndex
<1>7. (Len(s) + 1) - 1 = Len(s)
      OBVIOUS
<1> QED BY <1>1, <1>2, <1>3, <1>4, <1>5, <1>6, <1>7

(* The first value, popped, takes itself away. *)
LEMMA SumOfTail ==
  ASSUME NEW s \in Seq(Int), s # <<>>
  PROVE  SumOf(Tail(s)) = SumOf(s) - Head(s) /\ SumOf(s) \in Int
<1>1. PICK t : t = Tail(s)
      OBVIOUS
<1>2. /\ t \in Seq(Int) /\ Len(s) = Len(t) + 1 /\ s[1] \in Int /\ Head(s) = s[1]
      /\ \A i \in 1 .. Len(t) : t[i] = s[i + 1] /\ t[i] \in Int
      BY <1>1
<1>3. PICK f : AreSums(f, s) /\ SumOf(s) = f[Len(s)]
      BY SumIsLast
<1>4. PICK g : AreSums(g, t) /\ SumOf(t) = g[Len(t)]
      BY <1>2, SumIsLast
<1> DEFINE Apart == {i \in Nat : i <= Len(t) => g[i] \in Int /\ f[i + 1] = g[i] + s[1]}
<1>5. 0 \in Apart
  <2>1. 1 \in 1 .. Len(s) /\ 1 - 1 = 0
        BY <1>2
  <2>2. f[1] = f[0] + s[1] /\ f[0] = 0 /\ g[0] = 0
        BY <1>2, <1>3, <1>4, <2>1, SumsByIndex
  <2> QED BY <1>2, <2>2
<1>6. ASSUME NEW i \in Nat, i \in Apart PROVE i + 1 \in Apart
  <2> SUFFICES ASSUME i + 1 <= Len(t)
               PROVE  g[i + 1] \in Int /\ f[(i + 1) + 1] = g[i + 1] + s[1]
      OBVIOUS
  <2>1. g[i] \in Int /\ f[i + 1] = g[i] + s[1]
        BY <1>6
  <2>2. /\ i + 1 \in 1 .. Len(t) /\ (i + 1) + 1 \in 1 .. Len(s)
        /\ (i + 1) - 1 = i /\ ((i + 1) + 1) - 1 = i + 1
        BY <1>2
  <2>3. t[i + 1] = s[(i + 1) + 1] /\ t[i + 1] \in Int
        BY <1>2, <2>2
  <2>4. g[i + 1] = g[i] + t[i + 1]
        BY <1>2, <1>4, <2>2, SumsByIndex
  <2>5. f[(i + 1) + 1] = f[i + 1] + s[(i + 1) + 1]
        BY <1>3, <2>2, SumsByIndex
  <2>6. PICK a \in Int, b \in Int, c \in Int : a = g[i] /\ b = t[i + 1] /\ c = s[1]
        BY <1>2, <2>1, <2>3
  <2>7. g[i + 1] = a + b /\ f[(i + 1) + 1] = (a + c) + b
        BY <2>1, <2>3, <2>4, <2>5, <2>6
  <2>8. a + b \in Int /\ (a + c) + b = (a + b) + c
        OBVIOUS
  <2> QED BY <2>6, <2>7, <2>8
<1> HIDE DEF Apart
<1>7. Len(t) \in Nat /\ Len(t) \in Apart
  <2>1. Len(t) \in Nat
        BY <1>2
  <2> QED BY <1>5, <1>6, <2>1, SetInduction
<1>8. g[Len(t)] \in Int /\ f[Len(t) + 1] = g[Len(t)] + s[1]
      BY <1>7 DEF Apart
<1> QED BY <1>1, <1>2, <1>3, <1>4, <1>8
-----------------------------------------------------------------------------
(* An average of one handler at a time.  Its window is the end of what it  *)
(* was given, n values or all there are, and has this sum.                 *)
Stands(a, n, sum) ==
  /\ Len(a.values) = IF Len(a.given) > n THEN n ELSE Len(a.given)
  /\ \A i \in 1 .. Len(a.values) :
       a.values[i] = a.given[Len(a.given) - Len(a.values) + i]
  /\ sum = SumOf(a.values)

(* The places between the first and the last change process() makes.       *)
Between == {"add", "pop", "store"}

(* Nobody in between, the average is right; otherwise the one who is has   *)
(* what is missing: the price to add, the value to pop, the sum to store.  *)
AloneOf(o) ==
  heap[o].crowd <= 1 =>
    /\ In(o, Between) = {} => Stands(heap[o], W, heap[o].sum)
    /\ \A h \in In(o, {"add"}) : Stands(heap[o], W + 1, heap[o].sum + price[h])
    /\ \A h \in In(o, {"pop"}) :
         Len(heap[o].values) > W /\ Stands(heap[o], W + 1, heap[o].sum)
    /\ \A h \in In(o, {"store"}) : Stands(heap[o], W, saved[h])

AloneStands == \A o \in Objects : AloneOf(o)

(* A sequence of a set is one of a larger set. *)
LEMMA SeqWider ==
  ASSUME NEW S, NEW T, S \subseteq T, NEW s \in Seq(S)
  PROVE  s \in Seq(T)
<1>1. /\ Len(s) \in Nat /\ s = [i \in 1 .. Len(s) |-> s[i]]
      /\ \A i \in 1 .. Len(s) : s[i] \in S
      OBVIOUS
<1>2. \A i \in 1 .. Len(s) : s[i] \in T
      BY <1>1
<1> QED BY <1>1, <1>2

(* The windows are sequences of numbers. *)
LEMMA WindowTypes ==
  ASSUME NEW a \in Average
  PROVE  /\ a.values \in Seq(Int) /\ a.given \in Seq(Int)
         /\ a.values \in Seq(Prices) /\ a.given \in Seq(Prices)
         /\ Len(a.values) \in Nat /\ Len(a.given) \in Nat
<1>1. a.values \in Seq(Prices) /\ a.given \in Seq(Prices)
      BY DEF Average
<1>2. Prices \subseteq Int
      BY TraderAssumption
<1>3. a.values \in Seq(Int) /\ a.given \in Seq(Int)
      BY <1>1, <1>2, SeqWider
<1> QED BY <1>1, <1>3

(* Only the window and what was given count. *)
LEMMA StandsAlike ==
  ASSUME NEW a, NEW b, NEW n, NEW sum, Stands(a, n, sum),
         b.values = a.values, b.given = a.given
  PROVE  Stands(b, n, sum)
  BY DEF Stands

(* A new average is right. *)
LEMMA NewStands == Stands(NewAverage, W, NewAverage.sum)
<1>1. Len(NewAverage.values) = 0 /\ Len(NewAverage.given) = 0
      BY DEF NewAverage
<1>2. NewAverage.sum = SumOf(NewAverage.values)
      BY SumOfNothing DEF NewAverage
<1> QED BY <1>1, <1>2, TraderAssumption DEF Stands

(* A price more, the window is one longer. *)
LEMMA StandsAppended ==
  ASSUME NEW a \in Average, NEW b \in Average, NEW p \in Prices, NEW sum \in Int,
         b.values = Append(a.values, p), b.given = Append(a.given, p),
         Stands(a, W, sum)
  PROVE  Stands(b, W + 1, sum + p)
<1> DEFINE v == a.values
           g == a.given
<1>1. /\ v \in Seq(Int) /\ g \in Seq(Int) /\ p \in Int /\ W \in Nat
      /\ Len(v) \in Nat /\ Len(g) \in Nat
      BY WindowTypes, TraderAssumption
<1>2. /\ Len(v) = IF Len(g) > W THEN W ELSE Len(g)
      /\ \A i \in 1 .. Len(v) : v[i] = g[Len(g) - Len(v) + i]
      /\ sum = SumOf(v)
      BY DEF Stands
<1>3. /\ Len(b.values) = Len(v) + 1 /\ Len(b.given) = Len(g) + 1
      /\ b.values[Len(v) + 1] = p /\ b.given[Len(g) + 1] = p
      /\ \A i \in 1 .. Len(v) : b.values[i] = v[i]
      /\ \A i \in 1 .. Len(g) : b.given[i] = g[i]
      BY <1>1
<1>4. sum + p = SumOf(b.values)
      BY <1>1, <1>2, SumOfAppend
<1> HIDE DEF v, g
<1>5. Len(b.values) = IF Len(b.given) > W + 1 THEN W + 1 ELSE Len(b.given)
      BY <1>1, <1>2, <1>3
<1>6. ASSUME NEW i \in 1 .. Len(b.values)
      PROVE  b.values[i] = b.given[Len(b.given) - Len(b.values) + i]
  <2>1. PICK j : j = Len(b.given) - Len(b.values) + i
        OBVIOUS
  <2>2. j = Len(g) - Len(v) + i
        BY <1>1, <1>3, <2>1
  <2>3. CASE i \in 1 .. Len(v)
    <3>1. PICK k \in Nat, n \in Nat : k = Len(v) /\ n = Len(g)
          BY <1>1
    <3>2. k <= n
          BY <1>1, <1>2, <3>1
    <3>3. j = n - k + i /\ i \in 1 .. k
          BY <2>2, <2>3, <3>1
    <3>4. j \in 1 .. n
          BY <3>2, <3>3
    <3>5. j \in 1 .. Len(g)
          BY <3>1, <3>4
    <3> QED BY <1>2, <1>3, <2>1, <2>2, <2>3, <3>5
  <2>4. CASE i = Len(v) + 1
    <3>1. j = Len(g) + 1
          BY <1>1, <2>2, <2>4
    <3> QED BY <1>3, <2>1, <2>4, <3>1
  <2>5. PICK k \in Nat : k = Len(v)
        BY <1>1
  <2>6. i \in 1 .. k + 1
        BY <1>3, <2>5
  <2>7. i \in 1 .. k \/ i = k + 1
        BY <2>6
  <2> QED BY <2>3, <2>4, <2>5, <2>7
<1> QED BY <1>4, <1>5, <1>6 DEF Stands

(* A window that is not over its size was not cut. *)
LEMMA StandsUncut ==
  ASSUME NEW a \in Average, NEW sum, Stands(a, W + 1, sum), ~(Len(a.values) > W)
  PROVE  Stands(a, W, sum)
<1>1. Len(a.values) \in Nat /\ Len(a.given) \in Nat /\ W \in Nat
      BY WindowTypes, TraderAssumption
<1>2. Len(a.values) = IF Len(a.given) > W THEN W ELSE Len(a.given)
      BY <1>1 DEF Stands
<1> QED BY <1>2 DEF Stands

(* The first value less, an overfull window is right again. *)
LEMMA StandsPopped ==
  ASSUME NEW a \in Average, NEW b \in Average, NEW sum \in Int,
         b.values = Tail(a.values), b.given = a.given,
         Len(a.values) > W, Stands(a, W + 1, sum)
  PROVE  Stands(b, W, sum - Head(a.values))
<1> DEFINE v == a.values
           g == a.given
<1>1. /\ v \in Seq(Int) /\ g \in Seq(Int) /\ W \in Nat
      /\ Len(v) \in Nat /\ Len(g) \in Nat
      BY WindowTypes, TraderAssumption
<1>2. /\ Len(v) = IF Len(g) > W + 1 THEN W + 1 ELSE Len(g)
      /\ \A i \in 1 .. Len(v) : v[i] = g[Len(g) - Len(v) + i]
      /\ sum = SumOf(v)
      BY DEF Stands
<1>3. v # <<>> /\ Len(v) > W
      BY <1>1
<1>4. /\ Len(b.values) = Len(v) - 1
      /\ \A i \in 1 .. Len(b.values) : b.values[i] = v[i + 1]
      BY <1>1, <1>3
<1>5. sum - Head(v) = SumOf(b.values)
      BY <1>1, <1>2, <1>3, SumOfTail
<1> HIDE DEF v
<1>6. Len(b.values) = IF Len(b.given) > W THEN W ELSE Len(b.given)
  <2>1. PICK k \in Nat, n \in Nat : k = Len(v) /\ n = Len(g)
        BY <1>1
  <2>2. k > W /\ k = IF n > W + 1 THEN W + 1 ELSE n
        BY <1>2, <1>3, <2>1
  <2>3. W \in Nat /\ (k - 1 = IF n > W THEN W ELSE n)
        BY <1>1, <2>2
  <2>4. Len(b.values) = k - 1 /\ Len(b.given) = n
        BY <1>4, <2>1
  <2> QED BY <2>3, <2>4
<1>7. ASSUME NEW i \in 1 .. Len(b.values)
      PROVE  b.values[i] = b.given[Len(b.given) - Len(b.values) + i]
  <2>1. i + 1 \in 1 .. Len(v)
        BY <1>1, <1>4
  <2>2. b.values[i] = g[Len(g) - Len(v) + (i + 1)]
        BY <1>2, <1>4, <2>1
  <2>3. PICK k \in Nat, n \in Nat : k = Len(v) /\ n = Len(g)
        BY <1>1
  <2>4. n - k + (i + 1) = n - (k - 1) + i
        OBVIOUS
  <2> QED BY <1>4, <2>2, <2>3, <2>4
<1> USE DEF v
<1> QED BY <1>5, <1>6, <1>7 DEF Stands

(* What the steps of process() do to the average, exactly.                 *)
LEMMA ProcessDoes ==
  ASSUME TypeOK, WindowHolds, NEW h \in Handlers, NEW m, m = mine[h],
         AppendValue(h) \/ Add(h) \/ Pop(h) \/ Store(h)
  PROVE  /\ m \in Objects /\ Objects' = Objects
         /\ heap[m] \in Average /\ heap'[m] \in Average
         /\ \A o \in Objects : o # m => heap'[o] = heap[o]
         /\ heap'[m].crowd = heap[m].crowd
         /\ AppendValue(h) =>
              /\ heap'[m].values = Append(heap[m].values, price[h])
              /\ heap'[m].given = Append(heap[m].given, price[h])
              /\ heap'[m].sum = heap[m].sum
         /\ Add(h) =>
              /\ heap'[m].values = heap[m].values /\ heap'[m].given = heap[m].given
              /\ heap'[m].sum = heap[m].sum + price[h]
         /\ Pop(h) =>
              /\ heap'[m].values = Tail(heap[m].values)
              /\ heap'[m].given = heap[m].given /\ heap'[m].sum = heap[m].sum
         /\ Store(h) =>
              /\ heap'[m].values = heap[m].values /\ heap'[m].given = heap[m].given
              /\ heap'[m].sum = saved[h]
<1>1. m \in Objects /\ heap[m] \in Average
  <2>1. m \in Objects
        BY DEF AppendValue, Add, Pop, Store, Go, TypeOK, InProcess
  <2> QED BY <2>1, HeapTypes
<1>2. PICK a : Changes(m, a) /\ a.crowd = heap[m].crowd
      BY Appended, Added, Popped, Stored
<1>3. /\ Objects' = Objects /\ heap'[m] = a /\ a \in Average
      /\ \A o \in Objects : o # m => heap'[o] = heap[o]
  <2>1. a \in Average
        BY <1>2 DEF Changes
  <2> QED BY <1>2, <2>1, ChangedHeap
<1> DEFINE with(b) == heap' = [heap EXCEPT ![m] = b]
<1>4. ASSUME NEW b, with(b) PROVE heap'[m] = b
      BY <1>1, <1>4, HeapTypes
<1>5. ASSUME AppendValue(h)
      PROVE  /\ heap'[m].values = Append(heap[m].values, price[h])
             /\ heap'[m].given = Append(heap[m].given, price[h])
             /\ heap'[m].sum = heap[m].sum
  <2> DEFINE v == Append(heap[m].values, price[h])
             g == Append(heap[m].given, price[h])
             b == [heap[m] EXCEPT !.values = v, !.given = g]
  <2>1. with(b)
        BY <1>1, <1>5, HeapTypes DEF AppendValue
  <2>2. heap'[m] = b
        BY <1>4, <2>1
  <2> HIDE DEF v, g
  <2>3. b.values = v /\ b.given = g /\ b.sum = heap[m].sum
        BY <1>1 DEF Average
  <2> USE DEF v, g
  <2> QED BY <2>2, <2>3
<1>6. ASSUME Add(h)
      PROVE  /\ heap'[m].values = heap[m].values /\ heap'[m].given = heap[m].given
             /\ heap'[m].sum = heap[m].sum + price[h]
  <2> DEFINE s == heap[m].sum + price[h]
             b == [heap[m] EXCEPT !.sum = s]
  <2>1. with(b)
        BY <1>1, <1>6, HeapTypes DEF Add
  <2>2. heap'[m] = b
        BY <1>4, <2>1
  <2> HIDE DEF s
  <2>3. b.values = heap[m].values /\ b.given = heap[m].given /\ b.sum = s
        BY <1>1 DEF Average
  <2> USE DEF s
  <2> QED BY <2>2, <2>3
<1>7. ASSUME Pop(h)
      PROVE  /\ heap'[m].values = Tail(heap[m].values)
             /\ heap'[m].given = heap[m].given /\ heap'[m].sum = heap[m].sum
  <2> DEFINE v == Tail(heap[m].values)
             b == [heap[m] EXCEPT !.values = v]
  <2>1. with(b)
        BY <1>1, <1>7, HeapTypes DEF Pop
  <2>2. heap'[m] = b
        BY <1>4, <2>1
  <2> HIDE DEF v
  <2>3. b.values = v /\ b.given = heap[m].given /\ b.sum = heap[m].sum
        BY <1>1 DEF Average
  <2> USE DEF v
  <2> QED BY <2>2, <2>3
<1>8. ASSUME Store(h)
      PROVE  /\ heap'[m].values = heap[m].values /\ heap'[m].given = heap[m].given
             /\ heap'[m].sum = saved[h]
  <2> DEFINE b == [heap[m] EXCEPT !.sum = saved[h]]
  <2>1. with(b)
        BY <1>1, <1>8, HeapTypes DEF Store
  <2>2. heap'[m] = b
        BY <1>4, <2>1
  <2>3. b.values = heap[m].values /\ b.given = heap[m].given /\ b.sum = saved[h]
        BY <1>1 DEF Average
  <2> QED BY <2>2, <2>3
<1> QED BY <1>1, <1>2, <1>3, <1>5, <1>6, <1>7, <1>8

(* A step of h leaves the prices and the savings of the others alone.      *)
LEMMA OthersHold ==
  ASSUME TypeOK, NEW h \in Handlers, Handle(h)
  PROVE  \A g \in Handlers : g # h => price'[g] = price[g] /\ saved'[g] = saved[g]
<1> USE DEF Go, End
<1>1. CASE Request(h) \/ TurnAway(h) \/ LetIn(h)
      BY <1>1 DEF TypeOK, Request, TurnAway, LetIn
<1>2. CASE LookAbsent(h) \/ Create(h) \/ LookPresent(h) \/ Get(h) \/ GetFails(h)
      BY <1>2 DEF TypeOK, LookAbsent, Create, LookPresent, Get, GetFails
<1>3. CASE Enter(h) \/ EnterFails(h) \/ AppendValue(h) \/ Add(h)
      BY <1>3 DEF TypeOK, Enter, EnterFails, AppendValue, Add
<1>4. CASE Pop(h) \/ Store(h) \/ Divide(h) \/ DivideFails(h) \/ Trade(h)
      BY <1>4 DEF TypeOK, Pop, Store, Divide, DivideFails, Trade
<1> QED BY <1>1, <1>2, <1>3, <1>4 DEF Handle

(* An average that h is not in between of, before or after its step, and   *)
(* that keeps its values, stays as it was if its crowd only grows.         *)
LEMMA AloneKept ==
  ASSUME TypeOK, NEW h \in Handlers, Handle(h), NEW o \in Objects, AloneOf(o),
         mine[h] # o \/ pc[h] \notin Between,
         mine'[h] # o \/ pc'[h] \notin Between,
         heap'[o].values = heap[o].values, heap'[o].given = heap[o].given,
         heap'[o].sum = heap[o].sum, heap'[o].crowd <= 1 => heap[o].crowd <= 1
  PROVE  AloneOf(o)'
<1>1. \A g \in Handlers :
        g # h => /\ pc'[g] = pc[g] /\ mine'[g] = mine[g]
                 /\ price'[g] = price[g] /\ saved'[g] = saved[g]
      BY OneMoves, OthersHold
<1>2. PICK a : a = heap'[o]
      OBVIOUS
<1> SUFFICES ASSUME a.crowd <= 1
             PROVE  /\ In(o, Between)' = {} => Stands(a, W, a.sum)
                    /\ \A g \in In(o, {"add"})' : Stands(a, W + 1, a.sum + price'[g])
                    /\ \A g \in In(o, {"pop"})' :
                         Len(a.values) > W /\ Stands(a, W + 1, a.sum)
                    /\ \A g \in In(o, {"store"})' : Stands(a, W, saved'[g])
    BY <1>2 DEF AloneOf, Stands
<1>3. /\ In(o, Between) = {} => Stands(heap[o], W, heap[o].sum)
      /\ \A g \in In(o, {"add"}) : Stands(heap[o], W + 1, heap[o].sum + price[g])
      /\ \A g \in In(o, {"pop"}) :
           Len(heap[o].values) > W /\ Stands(heap[o], W + 1, heap[o].sum)
      /\ \A g \in In(o, {"store"}) : Stands(heap[o], W, saved[g])
      BY <1>2 DEF AloneOf
<1>4. /\ In(o, Between)' = In(o, Between)
      /\ \A g \in In(o, {"add"})' : g \in In(o, {"add"}) /\ price'[g] = price[g]
      /\ \A g \in In(o, {"pop"})' : g \in In(o, {"pop"})
      /\ \A g \in In(o, {"store"})' : g \in In(o, {"store"}) /\ saved'[g] = saved[g]
      BY <1>1 DEF In, Between
<1>5. a.values = heap[o].values /\ a.given = heap[o].given /\ a.sum = heap[o].sum
      BY <1>2
<1> QED BY <1>3, <1>4, <1>5, StandsAlike

(* With one handler at most, whoever is inside is alone.                   *)
LEMMA AloneInside ==
  ASSUME TypeOK, CrowdCounted, NEW h \in Handlers, NEW m \in Objects,
         mine[h] = m, pc[h] \in InProcess, heap[m].crowd <= 1
  PROVE  Inside(m) = {h}
<1>1. h \in Inside(m)
      BY DEF Inside, In
<1>2. /\ IsFiniteSet(Inside(m)) /\ Cardinality(Inside(m)) \in Nat
      /\ Cardinality(Inside(m)) <= heap[m].crowd /\ heap[m].crowd \in Nat
      BY SetsAreFinite, HeapTypes DEF CrowdCounted, CrowdOf
<1>3. /\ IsFiniteSet(Inside(m) \ {h})
      /\ Cardinality(Inside(m) \ {h}) = Cardinality(Inside(m)) - 1
      BY <1>1, <1>2, FS_RemoveElement
<1>4. Cardinality(Inside(m) \ {h}) = 0
      BY <1>2, <1>3, FS_CardinalityType
<1>5. Inside(m) \ {h} = {}
      BY <1>3, <1>4, FS_EmptySet
<1> QED BY <1>1, <1>5

(* What has to be shown of the average h works on.                         *)
LEMMA AloneAt ==
  ASSUME TypeOK, CrowdCounted, NEW h \in Handlers, Handle(h),
         NEW m \in Objects, mine[h] = m, pc[h] \in InProcess,
         heap'[m].crowd = heap[m].crowd, mine' = mine,
         heap[m].crowd <= 1 =>
           /\ pc'[h] \notin Between => Stands(heap'[m], W, heap'[m].sum)
           /\ pc'[h] = "add" => Stands(heap'[m], W + 1, heap'[m].sum + price'[h])
           /\ pc'[h] = "pop" =>
                Len(heap'[m].values) > W /\ Stands(heap'[m], W + 1, heap'[m].sum)
           /\ pc'[h] = "store" => Stands(heap'[m], W, saved'[h])
  PROVE  AloneOf(m)'
<1>1. PICK a : a = heap'[m]
      OBVIOUS
<1> SUFFICES ASSUME a.crowd <= 1
             PROVE  /\ In(m, Between)' = {} => Stands(a, W, a.sum)
                    /\ \A g \in In(m, {"add"})' : Stands(a, W + 1, a.sum + price'[g])
                    /\ \A g \in In(m, {"pop"})' :
                         Len(a.values) > W /\ Stands(a, W + 1, a.sum)
                    /\ \A g \in In(m, {"store"})' : Stands(a, W, saved'[g])
    BY <1>1 DEF AloneOf, Stands
<1>2. heap[m].crowd <= 1 /\ Inside(m) = {h}
      BY <1>1, AloneInside
<1>3. \A g \in Handlers : g # h => pc'[g] = pc[g] /\ mine'[g] = mine[g]
      BY OneMoves
<1>4. \A g \in Handlers : mine'[g] = m /\ pc'[g] \in Between => g = h
      BY <1>2, <1>3 DEF Inside, In, InProcess, Between
<1>5. /\ In(m, Between)' = {} => pc'[h] \notin Between
      /\ \A g \in In(m, {"add"})' : g = h /\ pc'[h] = "add"
      /\ \A g \in In(m, {"pop"})' : g = h /\ pc'[h] = "pop"
      /\ \A g \in In(m, {"store"})' : g = h /\ pc'[h] = "store"
      BY <1>4 DEF In, Between
<1> QED BY <1>1, <1>2, <1>5

(* Every step of a handler leaves the lone averages right. *)
LEMMA AloneStep ==
  ASSUME IInv, CrowdCounted, AloneStands, NEW h \in Handlers, Handle(h)
  PROVE  AloneStands'
<1> USE DEF Go, End
<1>1. TypeOK /\ WindowHolds
      BY DEF IInv
<1>2. \A o \in Objects : AloneOf(o)
      BY DEF AloneStands
<1>3. ASSUME UNCHANGED heap, pc[h] \notin Between, pc'[h] \notin Between
      PROVE  AloneStands'
  <2>1. \A o \in Objects : AloneOf(o)'
        BY <1>1, <1>2, <1>3, AloneKept
  <2> QED BY <1>3, <2>1 DEF AloneStands, Objects
<1>4. CASE Request(h) \/ TurnAway(h) \/ LetIn(h)
      BY <1>1, <1>3, <1>4 DEF TypeOK, Request, TurnAway, LetIn, Between
<1>5. CASE LookAbsent(h) \/ LookPresent(h) \/ Get(h) \/ GetFails(h)
      BY <1>1, <1>3, <1>5 DEF TypeOK, LookAbsent, LookPresent, Get, GetFails, Between
<1>6. CASE EnterFails(h) \/ Divide(h) \/ DivideFails(h) \/ Trade(h)
      BY <1>1, <1>3, <1>6 DEF TypeOK, EnterFails, Divide, DivideFails, Trade, Between
<1>7. CASE Create(h)
  <2>1. pc[h] \notin Between /\ pc'[h] \notin Between
        BY <1>1, <1>7 DEF TypeOK, Create, Between
  <2>2. PICK n : /\ n # 0 /\ n \notin Objects /\ heap'[n] = NewAverage
                 /\ Objects' = Objects \cup {n}
        BY <1>1, <1>7, Created
  <2>3. \A o \in Objects : heap'[o] = heap[o]
        BY <1>1, <1>7, Created
  <2>4. \A o \in Objects : AloneOf(o)'
        BY <1>1, <1>2, <2>1, <2>3, AloneKept
  <2>5. \A g \in Handlers : mine'[g] # n
        BY <1>1, <1>7, <2>2 DEF TypeOK, Create
  <2>6. AloneOf(n)'
    <3>1. \A S : In(n, S)' = {}
          BY <2>5 DEF In
    <3>2. Stands(heap[n], W, heap[n].sum)'
          BY <2>2, NewStands DEF Stands
    <3> QED BY <3>1, <3>2 DEF AloneOf
  <2> QED BY <2>2, <2>4, <2>6 DEF AloneStands
<1>8. CASE Enter(h)
  <2>1. pc[h] \notin Between /\ pc'[h] \notin Between
        BY <1>1, <1>8 DEF TypeOK, Enter, Between
  <2>2. PICK m : m = market
        OBVIOUS
  <2>3. m \in Objects /\ heap[m] \in Average /\ heap[m].crowd \in Nat
        BY <1>1, <1>8, <2>2, HeapTypes DEF TypeOK, Enter
  <2>4. PICK c : heap' = [heap EXCEPT ![m].crowd = c]
        BY <1>8, <2>2 DEF Enter
  <2>5. Objects' = Objects /\ \A o \in Objects : o # m => heap'[o] = heap[o]
        BY <1>1, <2>4, HeapTypes DEF Objects
  <2>6. /\ heap'[m].values = heap[m].values /\ heap'[m].given = heap[m].given
        /\ heap'[m].sum = heap[m].sum
    <3>1. heap'[m] = [heap[m] EXCEPT !.crowd = c]
          BY <1>1, <2>3, <2>4, HeapTypes
    <3> QED BY <2>3, <3>1 DEF Average
  <2>7. heap'[m].crowd >= heap[m].crowd /\ heap'[m].crowd \in Nat
    <3>1. PICK a : /\ Changes(m, a) /\ a.crowd >= heap[m].crowd
          BY <1>1, <1>8, <2>2, Entered
    <3>2. a \in Average
          BY <3>1 DEF Changes
    <3>3. heap'[m] = a /\ a.crowd \in Nat
          BY <1>1, <3>1, <3>2, ChangedHeap DEF Average
    <3> QED BY <3>1, <3>3
  <2>8. heap'[m].crowd <= 1 => heap[m].crowd <= 1
        BY <2>3, <2>7
  <2>9. ASSUME NEW o \in Objects PROVE AloneOf(o)'
    <3>1. /\ heap'[o].values = heap[o].values /\ heap'[o].given = heap[o].given
          /\ heap'[o].sum = heap[o].sum
          /\ heap'[o].crowd <= 1 => heap[o].crowd <= 1
          BY <2>5, <2>6, <2>8
    <3> QED BY <1>1, <1>2, <2>1, <3>1, AloneKept
  <2> QED BY <2>5, <2>9 DEF AloneStands
<1>9. ASSUME NEW m, m = mine[h], AppendValue(h) \/ Add(h) \/ Pop(h) \/ Store(h),
             heap[m].crowd <= 1 =>
               /\ pc'[h] \notin Between => Stands(heap'[m], W, heap'[m].sum)
               /\ pc'[h] = "add" => Stands(heap'[m], W + 1, heap'[m].sum + price'[h])
               /\ pc'[h] = "pop" =>
                    Len(heap'[m].values) > W /\ Stands(heap'[m], W + 1, heap'[m].sum)
               /\ pc'[h] = "store" => Stands(heap'[m], W, saved'[h])
      PROVE  AloneStands'
  <2>1. /\ m \in Objects /\ Objects' = Objects /\ heap'[m].crowd = heap[m].crowd
        /\ \A o \in Objects : o # m => heap'[o] = heap[o]
        BY <1>1, <1>9, ProcessDoes
  <2>2. pc[h] \in InProcess /\ mine' = mine
        BY <1>9 DEF AppendValue, Add, Pop, Store, InProcess
  <2>3. AloneOf(m)'
        BY <1>1, <1>9, <2>1, <2>2, AloneAt
  <2>4. ASSUME NEW o \in Objects, o # m PROVE AloneOf(o)'
    <3>1. mine[h] # o /\ mine'[h] # o
          BY <1>9, <2>2, <2>4
    <3> QED BY <1>1, <1>2, <2>1, <2>4, <3>1, AloneKept
  <2> QED BY <2>1, <2>3, <2>4 DEF AloneStands
<1>10. ASSUME NEW m \in Objects, m = mine[h], pc[h] \in InProcess, heap[m].crowd <= 1
       PROVE  /\ pc[h] = "append" => Stands(heap[m], W, heap[m].sum)
              /\ pc[h] = "add" => Stands(heap[m], W + 1, heap[m].sum + price[h])
              /\ pc[h] = "pop" =>
                   Len(heap[m].values) > W /\ Stands(heap[m], W + 1, heap[m].sum)
              /\ pc[h] = "store" => Stands(heap[m], W, saved[h])
  <2>1. Inside(m) = {h}
        BY <1>1, <1>10, AloneInside
  <2>2. pc[h] = "append" => In(m, Between) = {}
        BY <2>1 DEF Inside, In, InProcess, Between
  <2>3. \A p : pc[h] = p => h \in In(m, {p})
        BY <1>10 DEF In
  <2> QED BY <1>2, <1>10, <2>2, <2>3 DEF AloneOf
<1>11. CASE AppendValue(h)
  <2>1. PICK m : m = mine[h]
        OBVIOUS
  <2>2. /\ m \in Objects /\ heap[m] \in Average /\ heap'[m] \in Average
        /\ heap'[m].values = Append(heap[m].values, price[h])
        /\ heap'[m].given = Append(heap[m].given, price[h])
        /\ heap'[m].sum = heap[m].sum
        BY <1>1, <1>11, <2>1, ProcessDoes
  <2>3. /\ pc[h] = "append" /\ pc'[h] = "add" /\ price' = price /\ price[h] \in Prices
        BY <1>1, <1>11 DEF AppendValue, TypeOK
  <2>4. heap[m].sum \in Int
        BY <1>1, <2>2, HeapTypes
  <2>5. heap[m].crowd <= 1 => Stands(heap'[m], W + 1, heap'[m].sum + price'[h])
        BY <1>10, <2>1, <2>2, <2>3, <2>4, StandsAppended DEF InProcess
  <2> QED BY <1>9, <1>11, <2>1, <2>3, <2>5 DEF Between
<1>12. CASE Add(h)
  <2>1. PICK m : m = mine[h]
        OBVIOUS
  <2>2. /\ m \in Objects /\ heap[m] \in Average /\ heap'[m] \in Average
        /\ heap'[m].values = heap[m].values /\ heap'[m].given = heap[m].given
        /\ heap'[m].sum = heap[m].sum + price[h]
        BY <1>1, <1>12, <2>1, ProcessDoes
  <2>3. /\ pc[h] = "add"
        /\ pc'[h] = IF Len(heap[m].values) > W THEN "pop" ELSE "divide"
        BY <1>1, <1>12, <2>1 DEF Add, TypeOK
  <2>4. heap[m].crowd <= 1 => Stands(heap'[m], W + 1, heap'[m].sum)
        BY <1>10, <2>1, <2>2, <2>3, StandsAlike DEF InProcess
  <2>5. CASE Len(heap[m].values) > W
        BY <1>9, <1>12, <2>1, <2>2, <2>3, <2>4, <2>5 DEF Between
  <2>6. CASE ~(Len(heap[m].values) > W)
    <3>1. heap[m].crowd <= 1 => Stands(heap'[m], W, heap'[m].sum)
          BY <2>2, <2>4, <2>6, StandsUncut
    <3> QED BY <1>9, <1>12, <2>1, <2>3, <2>6, <3>1
  <2> QED BY <2>5, <2>6
<1>13. CASE Pop(h)
  <2>1. PICK m : m = mine[h]
        OBVIOUS
  <2>2. /\ m \in Objects /\ heap[m] \in Average /\ heap'[m] \in Average
        /\ heap'[m].values = Tail(heap[m].values) /\ heap'[m].given = heap[m].given
        BY <1>1, <1>13, <2>1, ProcessDoes
  <2>3. /\ pc[h] = "pop" /\ pc'[h] = "store"
        /\ saved'[h] = heap[m].sum - Head(heap[m].values)
        BY <1>1, <1>13, <2>1 DEF Pop, TypeOK
  <2>4. heap[m].sum \in Int
        BY <1>1, <2>2, HeapTypes
  <2>5. heap[m].crowd <= 1 => Stands(heap'[m], W, saved'[h])
        BY <1>10, <2>1, <2>2, <2>3, <2>4, StandsPopped DEF InProcess
  <2> QED BY <1>9, <1>13, <2>1, <2>3, <2>5 DEF Between
<1>14. CASE Store(h)
  <2>1. PICK m : m = mine[h]
        OBVIOUS
  <2>2. /\ m \in Objects
        /\ heap'[m].values = heap[m].values /\ heap'[m].given = heap[m].given
        /\ heap'[m].sum = saved[h]
        BY <1>1, <1>14, <2>1, ProcessDoes
  <2>3. pc[h] = "store" /\ pc'[h] = "divide"
        BY <1>1, <1>14 DEF Store, TypeOK
  <2>4. heap[m].crowd <= 1 => Stands(heap'[m], W, heap'[m].sum)
        BY <1>10, <2>1, <2>2, <2>3, StandsAlike DEF InProcess
  <2> QED BY <1>9, <1>14, <2>1, <2>3, <2>4
<1> QED BY <1>4, <1>5, <1>6, <1>7, <1>8, <1>11, <1>12, <1>13, <1>14 DEF Handle

(* So do a reset and stuttering. *)
LEMMA AloneOtherStep ==
  ASSUME AloneStands, Reset \/ UNCHANGED vars
  PROVE  AloneStands'
<1>1. UNCHANGED <<heap, pc, mine, price, saved>>
      BY DEF Reset, vars, handler
<1> QED BY <1>1 DEF AloneStands, AloneOf, In, Stands, Objects

(* The lone averages are right in every behaviour. *)
LEMMA AloneInvariant == Spec => []AloneStands
<1>1. IInv /\ CrowdCounted /\ AloneStands /\ [Next]_vars => AloneStands'
      BY AloneStep, AloneOtherStep DEF Next
<1>2. Init => AloneStands
      BY DEF Init, AloneStands, Objects
<1> QED BY <1>1, <1>2, Invariant, CrowdInvariant, PTL DEF Spec

(* A window that is the end of what was given is that subsequence.         *)
LEMMA EndIsSubSeq ==
  ASSUME NEW a \in Average, NEW sum, Stands(a, W, sum), NEW n, n = Len(a.given)
  PROVE  a.values = SubSeq(a.given, IF n > W THEN n - W + 1 ELSE 1, n)
<1> DEFINE k == IF n > W THEN n - W + 1 ELSE 1
           t == SubSeq(a.given, k, n)
<1>1. /\ a.values \in Seq(Int) /\ a.given \in Seq(Int) /\ n \in Nat
      /\ Len(a.values) \in Nat /\ W \in Nat
      BY WindowTypes, TraderAssumption
<1>2. Len(a.values) = n - k + 1 /\ k \in Int /\ k >= 1
      BY <1>1 DEF Stands
<1> HIDE DEF k
<1>3. t = [i \in 1 .. n - k + 1 |-> a.given[k + i - 1]]
      BY <1>1, <1>2
<1>4. a.values = [i \in 1 .. Len(a.values) |-> a.values[i]]
      BY <1>1
<1>5. ASSUME NEW i \in 1 .. n - k + 1
      PROVE  a.values[i] = a.given[k + i - 1]
  <2>1. a.values[i] = a.given[n - Len(a.values) + i]
        BY <1>2 DEF Stands
  <2>2. n - (n - k + 1) + i = k + i - 1
        BY <1>1, <1>2
  <2> QED BY <1>2, <2>1, <2>2
<1>6. a.values = t
      BY <1>2, <1>3, <1>4, <1>5
<1> USE DEF k
<1> QED BY <1>6

(* model.py:20-25: an average that one handler at a time worked on is the  *)
(* average of the last prices it was given, as many as the window holds,   *)
(* whatever the window's size and however long it is used.                 *)
THEOREM AloneTheAverageIsRight == Spec => []AloneIsAverage
<1>1. ASSUME IInv, AloneStands PROVE AloneIsAverage
  <2>1. TypeOK
        BY <1>1 DEF IInv
  <2>2. ASSUME NEW o \in Objects, heap[o].crowd <= 1, In(o, InProcess) = {}
        PROVE  /\ heap[o].values =
                    SubSeq(heap[o].given,
                           IF Len(heap[o].given) > W THEN Len(heap[o].given) - W + 1
                           ELSE 1,
                           Len(heap[o].given))
               /\ heap[o].sum = SumOf(heap[o].values)
    <3>1. In(o, Between) = {}
          BY <2>2 DEF In, InProcess, Between
    <3>2. Stands(heap[o], W, heap[o].sum) /\ heap[o] \in Average
          BY <1>1, <2>1, <2>2, <3>1, HeapTypes DEF AloneStands, AloneOf
    <3>3. heap[o].sum = SumOf(heap[o].values)
          BY <3>2 DEF Stands
    <3> QED BY <3>2, <3>3, EndIsSubSeq
  <2> QED BY <2>2 DEF AloneIsAverage
<1> QED BY <1>1, Invariant, AloneInvariant, PTL

-----------------------------------------------------------------------------
(* An exception has a cause.  Requests that are in the model together have *)
(* met, ...                                                                *)
Overlap ==
  \A g, h \in Handlers :
    g # h /\ pc[g] \in InModel /\ pc[h] \in InModel => "request" \in met[h]

(* ... a request under way has no answer yet, ...                          *)
Unanswered == \A h \in Handlers : pc[h] # "idle" => answer[h] = "none"

(* ... one that is past its first lookup knows of the reset that took the  *)
(* average away, ...                                                       *)
ResetSeen ==
  \A h \in Handlers : pc[h] \in {"get", "enter"} /\ market = 0 => "reset" \in met[h]

(* ... an average in the market that was given nothing has a handler on    *)
(* its way to it, whom everyone that gets it has met, ...                  *)
FirstIsOnItsWay ==
  market # 0 /\ heap[market].given = <<>> =>
    \E g \in Handlers : pc[g] = "enter" \/ (pc[g] = "append" /\ mine[g] = market)

FirstIsMet ==
  \A h \in Handlers :
    pc[h] = "get" /\ heap[mine[h]].given = <<>> => "request" \in met[h]

(* ... and whoever appended has given its average something.               *)
OwnIsGiven ==
  \A h \in Handlers :
    pc[h] \in {"add", "pop", "store", "divide"} => heap[mine[h]].given # <<>>

Causes == /\ Overlap /\ Unanswered /\ ResetSeen /\ FirstIsOnItsWay /\ FirstIsMet
          /\ OwnIsGiven /\ FailureHasACause

(* Averages stay, keep what they were given and lose no crowd.             *)
HeapGrows ==
  \A o \in Objects :
    /\ o \in Objects' /\ heap'[o].crowd >= heap[o].crowd
    /\ heap[o].given # <<>> => heap'[o].given # <<>>

LEMMA ChangeGrows ==
  ASSUME TypeOK, NEW o, NEW a, Changes(o, a), a.crowd >= heap[o].crowd,
         a.given = heap[o].given \/ a.given # <<>>
  PROVE  HeapGrows
<1>1. \A p \in Objects : heap[p].crowd \in Nat
      BY HeapTypes
<1> QED BY <1>1, ChangedHeap DEF HeapGrows

(* Every step of a handler lets the heap grow, and puts at most a new      *)
(* average into the market.                                                *)
LEMMA HandlerGrows ==
  ASSUME TypeOK, WindowHolds, NEW h \in Handlers, Handle(h)
  PROVE  HeapGrows /\ (market' = market \/ market' # 0)
<1> USE DEF Go, End
<1>0. \A p \in Objects : heap[p].crowd \in Nat
      BY HeapTypes
<1>1. CASE Create(h)
      BY <1>0, <1>1, Created DEF HeapGrows
<1>2. CASE Enter(h)
      BY <1>2, Entered, ChangeGrows DEF Enter
<1>3. CASE AppendValue(h)
  <2>1. mine[h] \in Objects
        BY <1>3 DEF AppendValue, TypeOK, InProcess
  <2>2. PICK a : /\ Changes(mine[h], a)
                 /\ a.crowd = heap[mine[h]].crowd /\ a.given # <<>>
        BY <1>3, Appended
  <2>3. a.crowd >= heap[mine[h]].crowd
        BY <1>0, <2>1, <2>2
  <2>4. HeapGrows
        BY <2>2, <2>3, ChangeGrows
  <2> QED BY <1>3, <2>4 DEF AppendValue
<1>4. CASE Add(h) \/ Pop(h) \/ Store(h)
  <2>1. mine[h] \in Objects
        BY <1>4 DEF Add, Pop, Store, TypeOK, InProcess
  <2>2. PICK a : /\ Changes(mine[h], a) /\ a.crowd = heap[mine[h]].crowd
                 /\ a.given = heap[mine[h]].given
        BY <1>4, Added, Popped, Stored
  <2>3. a.crowd >= heap[mine[h]].crowd
        BY <1>0, <2>1, <2>2
  <2>4. HeapGrows
        BY <2>2, <2>3, ChangeGrows
  <2> QED BY <1>4, <2>4 DEF Add, Pop, Store
<1>5. ASSUME UNCHANGED <<market, heap>> PROVE HeapGrows /\ market' = market
      BY <1>0, <1>5 DEF HeapGrows, Objects
<1>6. CASE \/ Request(h) \/ TurnAway(h) \/ LetIn(h) \/ LookAbsent(h) \/ LookPresent(h)
           \/ Get(h) \/ GetFails(h)
      BY <1>5, <1>6
      DEF Request, TurnAway, LetIn, LookAbsent, LookPresent, Get, GetFails
<1>7. CASE EnterFails(h) \/ Divide(h) \/ DivideFails(h) \/ Trade(h)
      BY <1>5, <1>7 DEF EnterFails, Divide, DivideFails, Trade
<1> QED BY <1>1, <1>2, <1>3, <1>4, <1>6, <1>7 DEF Handle

(* What the other handlers have met only grows, their answers stay.        *)
LEMMA OthersKeep ==
  ASSUME TypeOK, NEW h \in Handlers, Handle(h)
  PROVE  /\ \A g \in Handlers \ {h} : met[g] \subseteq met'[g] /\ answer'[g] = answer[g]
         /\ LetIn(h) \/ met' = met
<1> USE DEF Go, End
<1>1. CASE Request(h) \/ TurnAway(h) \/ LetIn(h)
      BY <1>1 DEF TypeOK, Request, TurnAway, LetIn
<1>2. CASE LookAbsent(h) \/ Create(h) \/ LookPresent(h) \/ Get(h) \/ GetFails(h)
      BY <1>2 DEF TypeOK, LookAbsent, Create, LookPresent, Get, GetFails
<1>3. CASE Enter(h) \/ EnterFails(h) \/ AppendValue(h) \/ Add(h)
      BY <1>3 DEF TypeOK, Enter, EnterFails, AppendValue, Add
<1>4. CASE Pop(h) \/ Store(h) \/ Divide(h) \/ DivideFails(h) \/ Trade(h)
      BY <1>4 DEF TypeOK, Pop, Store, Divide, DivideFails, Trade
<1> QED BY <1>1, <1>2, <1>3, <1>4 DEF Handle

(* Where a handler goes: it enters the model at one place, and leaves each *)
(* place for the next one or for an answer.                                *)
LEMMA WhereTo ==
  ASSUME TypeOK, NEW h \in Handlers, Handle(h)
  PROVE  /\ pc'[h] \in InModel => LetIn(h) \/ pc[h] \in InModel
         /\ pc'[h] = "get" => LookPresent(h)
         /\ pc'[h] = "enter" => Create(h) \/ Get(h)
         /\ pc'[h] = "append" => Enter(h)
         /\ pc'[h] \in {"add", "pop", "store", "divide"} =>
              AppendValue(h) \/ ((Add(h) \/ Pop(h) \/ Store(h)) /\ mine' = mine)
         /\ pc[h] = "enter" => Enter(h) \/ EnterFails(h)
         /\ pc[h] = "append" => AppendValue(h)
<1> USE DEF Go, End, InModel, InProcess
<1>1. CASE Request(h) \/ TurnAway(h) \/ LetIn(h)
      BY <1>1 DEF TypeOK, Request, TurnAway, LetIn
<1>2. CASE LookAbsent(h) \/ Create(h) \/ LookPresent(h) \/ Get(h) \/ GetFails(h)
      BY <1>2 DEF TypeOK, LookAbsent, Create, LookPresent, Get, GetFails
<1>3. CASE Enter(h) \/ EnterFails(h) \/ AppendValue(h) \/ Add(h)
      BY <1>3 DEF TypeOK, Enter, EnterFails, AppendValue, Add
<1>4. CASE Pop(h) \/ Store(h) \/ Divide(h) \/ DivideFails(h) \/ Trade(h)
      BY <1>4 DEF TypeOK, Pop, Store, Divide, DivideFails, Trade
<1> QED BY <1>1, <1>2, <1>3, <1>4 DEF Handle

(* A request that found an average nobody gave anything has met the one    *)
(* who was to give it.                                                     *)
LEMMA LookMeets ==
  ASSUME TypeOK, Causes, NEW h \in Handlers, LookPresent(h), heap[market].given = <<>>
  PROVE  "request" \in met[h]
<1> USE DEF InModel, InProcess
<1>1. pc[h] = "look" /\ market # 0
      BY DEF LookPresent, Go
<1>2. PICK g \in Handlers : pc[g] \in {"enter", "append"}
      BY <1>1 DEF Causes, FirstIsOnItsWay
<1>3. g # h /\ pc[g] \in InModel /\ pc[h] \in InModel
      BY <1>1, <1>2
<1> QED BY <1>3 DEF Causes, Overlap

(* Who fails, and where.                                                   *)
LEMMA WhoFails ==
  ASSUME TypeOK, Causes, NEW h \in Handlers, Handle(h)
  PROVE  /\ pc'[h] # "idle" => answer'[h] = "none"
         /\ answer'[h] = "KeyError" => EnterFails(h)
         /\ answer'[h] = "ZeroDivisionError" => GetFails(h) \/ DivideFails(h)
<1> USE DEF Go, End
<1>1. pc[h] # "idle" => answer[h] = "none"
      BY DEF Causes, Unanswered
<1>2. CASE Request(h) \/ TurnAway(h) \/ LetIn(h)
      BY <1>1, <1>2 DEF TypeOK, Request, TurnAway, LetIn
<1>3. CASE LookAbsent(h) \/ Create(h) \/ LookPresent(h) \/ Get(h) \/ GetFails(h)
      BY <1>1, <1>3 DEF TypeOK, LookAbsent, Create, LookPresent, Get, GetFails
<1>4. CASE Enter(h) \/ EnterFails(h) \/ AppendValue(h) \/ Add(h)
      BY <1>1, <1>4 DEF TypeOK, Enter, EnterFails, AppendValue, Add
<1>5. CASE Pop(h) \/ Store(h) \/ Divide(h) \/ DivideFails(h) \/ Trade(h)
      BY <1>1, <1>5 DEF TypeOK, Pop, Store, Divide, DivideFails, Trade
<1> QED BY <1>2, <1>3, <1>4, <1>5 DEF Handle

(* When it fails, its cause is there.                                      *)
LEMMA FailsWithCause ==
  ASSUME TypeOK, CrowdCounted, Causes, NEW h \in Handlers, Handle(h)
  PROVE  /\ answer'[h] = "KeyError" => "reset" \in met'[h]
         /\ answer'[h] = "ZeroDivisionError" =>
              "request" \in met'[h] \/ \E o \in Objects : heap[o].crowd > W
<1>1. ASSUME EnterFails(h) PROVE "reset" \in met'[h]
      BY <1>1 DEF EnterFails, End, Go, Causes, ResetSeen
<1>2. ASSUME NEW o \in Objects, heap[o].values = <<>>, heap[o].given # <<>>
      PROVE  heap[o].crowd > W
      BY <1>2 DEF CrowdCounted, CrowdOf
<1>3. ASSUME GetFails(h)
      PROVE  "request" \in met'[h] \/ \E o \in Objects : heap[o].crowd > W
  <2>1. /\ pc[h] = "get" /\ met' = met /\ heap[mine[h]].values = <<>>
        /\ mine[h] \in Objects
        BY <1>3 DEF GetFails, End, Go, TypeOK
  <2>2. CASE heap[mine[h]].given = <<>>
        BY <2>1, <2>2 DEF Causes, FirstIsMet
  <2>3. CASE heap[mine[h]].given # <<>>
        BY <1>2, <2>1, <2>3
  <2> QED BY <2>2, <2>3
<1>4. ASSUME DivideFails(h)
      PROVE  \E o \in Objects : heap[o].crowd > W
  <2>1. /\ pc[h] = "divide" /\ heap[mine[h]].values = <<>> /\ mine[h] \in Objects
        BY <1>4 DEF DivideFails, End, Go, TypeOK, InProcess
  <2>2. heap[mine[h]].given # <<>>
        BY <2>1 DEF Causes, OwnIsGiven
  <2> QED BY <1>2, <2>1, <2>2
<1> QED BY <1>1, <1>3, <1>4, WhoFails

(* Every step of a handler keeps the causes and what they rest on, ...     *)
LEMMA CausesStep ==
  ASSUME IInv, CrowdCounted, Causes, NEW h \in Handlers, Handle(h)
  PROVE  Causes'
<1>1. TypeOK /\ WindowHolds
      BY DEF IInv
<1>2. /\ \A g \in Handlers \ {h} : /\ pc'[g] = pc[g] /\ mine'[g] = mine[g]
                                   /\ met[g] \subseteq met'[g] /\ answer'[g] = answer[g]
      /\ LetIn(h) \/ met' = met
      BY <1>1, OneMoves, OthersKeep
<1>3. HeapGrows /\ (market' = market \/ market' # 0)
      BY <1>1, HandlerGrows
<1>4. \A g \in Handlers : pc[g] \in {"get"} \cup InProcess => mine[g] \in Objects
      BY <1>1 DEF TypeOK
<1>5. market # 0 => market \in Objects
      BY <1>1 DEF TypeOK
<1>6. LetIn(h) => pc'[h] = "look" /\ pc[h] = "gate"
      BY <1>1 DEF LetIn, TypeOK
<1>7. Overlap'
  <2> SUFFICES ASSUME NEW f \in Handlers, NEW g \in Handlers, f # g,
                      pc'[f] \in InModel, pc'[g] \in InModel
               PROVE  "request" \in met'[g]
    BY DEF Overlap
  <2>1. CASE LetIn(h)
    <3>1. CASE g = h
      <4>1. f \in Busy
        BY <1>2, <3>1 DEF Busy
      <4> QED BY <2>1, <3>1, <4>1 DEF LetIn
    <3>2. CASE g # h
      <4>1. g \in Busy
        BY <1>2, <3>2 DEF Busy
      <4> QED BY <2>1, <3>2, <4>1 DEF LetIn
    <3> QED BY <3>1, <3>2
  <2>2. CASE ~LetIn(h)
    <3>1. pc[f] \in InModel /\ pc[g] \in InModel
      BY <1>1, <1>2, <2>2, WhereTo
    <3> QED BY <1>2, <2>2, <3>1 DEF Causes, Overlap
  <2> QED BY <2>1, <2>2
<1>8. Unanswered'
      BY <1>1, <1>2, WhoFails DEF Causes, Unanswered
<1>9. FailureHasACause'
  <2>1. ASSUME NEW o \in Objects, heap[o].crowd > W
        PROVE  o \in Objects' /\ heap'[o].crowd > W
    <3>1. /\ heap[o].crowd \in Nat /\ heap'[o].crowd \in Nat /\ W \in Nat
          /\ heap'[o].crowd >= heap[o].crowd /\ o \in Objects'
      <4>1. TypeOK'
        BY TypeStep
      <4>2. o \in Objects' /\ heap'[o].crowd >= heap[o].crowd
        BY <1>3 DEF HeapGrows
      <4>3. heap' \in Seq(Average) /\ heap'[o] \in Average
        BY <4>1, <4>2 DEF TypeOK, Objects
      <4> QED BY <1>1, <4>2, <4>3, HeapTypes, TraderAssumption DEF Average
    <3> QED BY <2>1, <3>1
  <2>2. ASSUME NEW g \in Handlers
        PROVE  /\ answer'[g] = "KeyError" => "reset" \in met'[g]
               /\ answer'[g] = "ZeroDivisionError" =>
                    \/ "request" \in met'[g]
                    \/ \E o \in Objects : heap[o].crowd > W
    <3>1. CASE g = h
      BY <1>1, <3>1, FailsWithCause
    <3>2. CASE g # h
      BY <1>2, <3>2 DEF Causes, FailureHasACause
    <3> QED BY <3>1, <3>2
  <2> QED BY <2>1, <2>2 DEF FailureHasACause
<1>10. ResetSeen'
  <2> SUFFICES ASSUME NEW g \in Handlers, pc'[g] \in {"get", "enter"}, market' = 0
               PROVE  "reset" \in met'[g]
    BY DEF ResetSeen
  <2>1. market = 0
    BY <1>3
  <2>2. CASE g # h
    BY <1>2, <2>1, <2>2 DEF Causes, ResetSeen
  <2>3. CASE g = h
    <3>1. ~LookPresent(h) /\ ~LetIn(h)
      BY <1>6, <2>1, <2>3 DEF LookPresent
    <3>2. ~Create(h)
      BY <1>1, Created
    <3>3. Get(h)
      BY <1>1, <2>3, <3>1, <3>2, WhereTo
    <3>4. pc[h] = "get" /\ met' = met
      BY <3>3 DEF Get, Go
    <3> QED BY <2>1, <2>3, <3>4 DEF Causes, ResetSeen
  <2> QED BY <2>2, <2>3
<1>11. FirstIsOnItsWay'
  <2> SUFFICES ASSUME market' # 0, heap'[market'].given = <<>>
               PROVE  \E g \in Handlers :
                        pc'[g] = "enter" \/ (pc'[g] = "append" /\ mine'[g] = market')
    BY DEF FirstIsOnItsWay
  <2>1. CASE Create(h)
    BY <1>1, <2>1 DEF Create, Go, TypeOK
  <2>2. CASE Enter(h)
    BY <1>1, <2>2 DEF Enter, Go, TypeOK
  <2>3. CASE ~Create(h) /\ ~Enter(h)
    <3>1. market' = market
      BY <2>3
      DEF Handle, Request, TurnAway, LetIn, LookAbsent, LookPresent, Get, GetFails,
          EnterFails, AppendValue, Add, Pop, Store, Divide, DivideFails, Trade, End
    <3>2. heap[market].given = <<>> /\ market # 0
      BY <1>3, <1>5, <3>1 DEF HeapGrows
    <3>3. PICK g \in Handlers : pc[g] = "enter" \/ (pc[g] = "append" /\ mine[g] = market)
      BY <3>2 DEF Causes, FirstIsOnItsWay
    <3>4. CASE g = h
      <4>1. ~EnterFails(h)
        BY <3>2 DEF EnterFails
      <4>2. AppendValue(h) /\ mine[h] = market
        BY <1>1, <2>3, <3>3, <3>4, <4>1, WhereTo
      <4>3. heap'[market].given # <<>>
        BY <1>1, <4>2, Appended, ChangedHeap
      <4> QED BY <3>1, <4>3
    <3>5. CASE g # h
      BY <1>2, <3>1, <3>3, <3>5
    <3> QED BY <3>4, <3>5
  <2> QED BY <2>1, <2>2, <2>3
<1>12. FirstIsMet'
  <2> SUFFICES ASSUME NEW g \in Handlers, pc'[g] = "get", heap'[mine'[g]].given = <<>>
               PROVE  "request" \in met'[g]
    BY DEF FirstIsMet
  <2>1. CASE g # h
    <3>1. pc[g] = "get" /\ mine'[g] = mine[g] /\ mine[g] \in Objects
      BY <1>2, <1>4, <2>1
    <3>2. heap[mine[g]].given = <<>>
      BY <1>3, <3>1 DEF HeapGrows
    <3> QED BY <1>2, <2>1, <3>1, <3>2 DEF Causes, FirstIsMet
  <2>2. CASE g = h
    <3>1. LookPresent(h)
      BY <1>1, <2>2, WhereTo
    <3>2. mine'[h] = market /\ heap' = heap /\ met' = met
      BY <1>1, <3>1 DEF LookPresent, Go, TypeOK
    <3> QED BY <1>1, <2>2, <3>1, <3>2, LookMeets
  <2> QED BY <2>1, <2>2
<1>13. OwnIsGiven'
  <2> SUFFICES ASSUME NEW g \in Handlers, pc'[g] \in {"add", "pop", "store", "divide"}
               PROVE  heap'[mine'[g]].given # <<>>
    BY DEF OwnIsGiven
  <2>1. CASE g # h
    <3>1. /\ pc[g] \in {"add", "pop", "store", "divide"}
          /\ mine'[g] = mine[g] /\ mine[g] \in Objects
      BY <1>2, <1>4, <2>1 DEF InProcess
    <3> QED BY <1>3, <3>1 DEF Causes, OwnIsGiven, HeapGrows
  <2>2. CASE g = h /\ AppendValue(h)
    <3>1. mine' = mine
      BY <2>2 DEF AppendValue
    <3> QED BY <1>1, <2>2, <3>1, Appended, ChangedHeap
  <2>3. CASE g = h /\ ~AppendValue(h)
    <3>1. mine' = mine /\ (Add(h) \/ Pop(h) \/ Store(h))
      BY <1>1, <2>3, WhereTo
    <3>2. pc[h] \in {"add", "pop", "store"}
      BY <3>1 DEF Add, Pop, Store, Go
    <3>3. mine[h] \in Objects
      BY <1>4, <3>2 DEF InProcess
    <3> QED BY <1>3, <2>3, <3>1, <3>2, <3>3 DEF Causes, OwnIsGiven, HeapGrows
  <2> QED BY <2>1, <2>2, <2>3
<1> QED BY <1>7, <1>8, <1>9, <1>10, <1>11, <1>12, <1>13 DEF Causes

(* ... and so does a reset: everyone in the model has met it.              *)
LEMMA CausesOtherStep ==
  ASSUME IInv, Causes, Reset \/ UNCHANGED vars
  PROVE  Causes'
<1>1. CASE UNCHANGED vars
      BY <1>1
      DEF vars, handler, Causes, Overlap, Unanswered, ResetSeen, FirstIsOnItsWay,
          FirstIsMet, OwnIsGiven, FailureHasACause, Objects
<1>2. CASE Reset
  <2>1. /\ market' = 0 /\ UNCHANGED <<heap, pc, mine, answer>>
        /\ \A g \in Handlers : met[g] \subseteq met'[g]
        /\ \A g \in Busy : "reset" \in met'[g]
        BY <1>2 DEF Reset, Busy, IInv, TypeOK
  <2>2. \A g \in Handlers : pc[g] \in {"get", "enter"} => g \in Busy
        BY DEF Busy, InModel
  <2>3. ResetSeen' /\ FirstIsOnItsWay'
        BY <2>1, <2>2 DEF ResetSeen, FirstIsOnItsWay
  <2>4. Overlap' /\ Unanswered' /\ FirstIsMet' /\ OwnIsGiven'
        BY <2>1 DEF Causes, Overlap, Unanswered, FirstIsMet, OwnIsGiven
  <2>5. FailureHasACause'
        BY <2>1 DEF Causes, FailureHasACause, Objects
  <2> QED BY <2>3, <2>4, <2>5 DEF Causes
<1> QED BY <1>1, <1>2

(* Nobody is in the model at first. *)
LEMMA CausesInitially == Init => Causes
  BY DEF Init, Causes, Overlap, Unanswered, ResetSeen, FirstIsOnItsWay, FirstIsMet,
         OwnIsGiven, FailureHasACause, InModel, InProcess

(* model.py:57-67: whatever the window's size and the number of threads,   *)
(* the lookups fail only if the market was reset meanwhile, the divisions  *)
(* only if another request was in the model meanwhile or a crowd of more   *)
(* than the window's size had emptied the window.                          *)
THEOREM ExceptionsHaveACause == Spec => []FailureHasACause
<1>1. IInv /\ CrowdCounted /\ Causes /\ [Next]_vars => Causes'
      BY CausesStep, CausesOtherStep DEF Next
<1>2. Causes => FailureHasACause
      BY DEF Causes
<1> QED BY <1>1, <1>2, CausesInitially, Invariant, CrowdInvariant, PTL DEF Spec

-----------------------------------------------------------------------------
(* The trader's client: what Monkey.tla says of the generator thread, for  *)
(* any customers, any other names and any number of REST calls.            *)

Settings == {"off", "on", "oneshot", "expired", "bare"}
Stations == Kinds \cup Levels \cup {"asleep", "submit", "dead"}
Effects  == {"latency", "model", "flags", "request", "db", "skew"}

(* The accesses of handlers: only a model error's record is bare.          *)
PutOps    == [act : {"put"}, on : Switches, to : {"on", "oneshot"}]
             \cup {Put(<<"model", Region>>, "bare")}
DropOps   == [act : {"test", "del", "loop", "last"}, on : Switches, to : {"off"}]
RebindOps == [act : {"rebind"}, on : (Kinds \cup Levels) \X {Nobody}, to : {"off"}]
Ops       == PutOps \cup DropOps \cup RebindOps

(* Every variable's range. *)
Typed ==
  /\ table \in [Switches -> Settings]
  /\ todo \in [0 .. MaxCalls -> Seq(Ops)] /\ calls \in 0 .. MaxCalls
  /\ at \in Stations
  /\ doing \in {"look", "use", "expire", "iterate", "choose", "draw"}
  /\ dict \in {"same", "grown", "old"}
  /\ customer \in Names \cup {Nobody} /\ next \in Names \cup {Nobody}
  /\ trade \subseteq Effects /\ armed \subseteq Effects

(* A record without "oneshot" is a model error's. *)
BareIsModel == \A s \in Switches : table[s] = "bare" => s = <<"model", Region>>

(* What the thread is doing fits the place where it is; it asks about a    *)
(* trade of a customer, and a switch that it has found was on.             *)
PlaceIsGood ==
  /\ at \in Kinds =>
       /\ customer \in Customers /\ doing \in {"look", "use", "expire", "iterate"}
       /\ doing # "look" => using \in Switches /\ Effect(at) \in armed
       /\ doing = "iterate" => at = "request"
       /\ doing # "look" /\ at = "request" => using[1] = "request"
  /\ at \in Levels =>
       /\ doing \in {"look", "choose", "draw"}
       /\ doing = "choose" => using[1] = at
       /\ doing = "draw" => using \in Switches /\ using[1] = at
  /\ at = "submit" => customer \in Customers
  /\ at \in {"asleep", "submit"} => doing = "look"

(* In its own call of a DELETE handler at most the next access is a del.   *)
OwnIsGood ==
  at \in Kinds /\ doing = "expire" =>
    /\ at = "request" => todo[0] = <<>>
    /\ \A i \in 2 .. Len(todo[0]) : todo[0][i].act = "test"

(* What is on in the tables has been noted for the trade being drawn.      *)
ArmedIsNoted == customer # Nobody => ArmedIn(table, customer) \subseteq armed

(* What of the trade the thread has dealt with when it comes to a place.   *)
Before ==
  [latency |-> {}, model |-> {"latency"}, flags |-> {"latency", "model"},
   request |-> {"latency", "model", "flags"},
   dbOf |-> {"latency", "model", "flags", "request"},
   db |-> {"latency", "model", "flags", "request"},
   skew |-> {"latency", "model", "flags", "request", "db"}, submit |-> Effects]

(* An error left over from the last trade is gone once its kind was asked. *)
SettledAreArmed ==
  at \in Kinds \cup {"submit"} => trade \cap Before[at] \subseteq armed

(* What the thread has found is still there, unless a handler touched it.  *)
FoundIsThere ==
  touched = {} =>
    /\ at \in Kinds /\ doing = "use" => table[using] # "off"
    /\ at \in Kinds /\ doing = "expire" /\ Doing(todo[0], "del") => table[using] # "off"
    /\ at \in Kinds /\ doing = "iterate" => dict # "grown"
    /\ at \in Levels /\ doing = "choose" => FastOn(at) # {}
    /\ at \in Levels /\ doing = "draw" => table[using] # "off"

(* In a DELETE handler of its own it uses what it is about to delete.      *)
UsingIsNext ==
  at \in Kinds /\ doing = "expire" /\ Doing(todo[0], "del") => using = On(todo[0])

(* The inductive invariant of Monkey. *)
MonkeyInv ==
  /\ Typed /\ BareIsModel /\ PlaceIsGood /\ OwnIsGood /\ ArmedIsNoted /\ SettledAreArmed
  /\ UsingIsNext /\ FoundIsThere /\ DeathHasACause

-----------------------------------------------------------------------------
(* The names are apart. *)
LEMMA NamesAreApart ==
  /\ Region \notin Names /\ Nobody \notin Names /\ Symbol \notin Names
  /\ Customers \subseteq Names /\ Names \ Customers \subseteq Strangers
  /\ Kinds \cap Levels = {}
  /\ \A p \in {"asleep", "submit", "dead"} : p \notin Kinds /\ p \notin Levels
  BY MonkeyAssumption DEF Names, Region, Nobody, Symbol, Kinds, Levels

(* The switches there are. *)
LEMMA TheSwitches ==
  /\ \A t \in {"latency", "model", "flags", "db", "region"} : <<t, Region>> \in Switches
  /\ \A c \in Customers : <<"request", c>> \in Switches
  /\ \A c \in Names : <<"dbOf", c>> \in Switches /\ <<"customer", c>> \in Switches
  /\ <<"skew", Symbol>> \in Switches /\ <<"symbol", Symbol>> \in Switches
  /\ \A s \in Switches : s = <<s[1], s[2]>> /\ s[1] \in Kinds \cup Levels
  /\ \A level \in Levels : \A k \in KeysOf(level) : <<level, k>> \in Switches
  /\ \A s \in Switches : s[1] \in Levels => s[2] \in KeysOf(s[1])
<1> USE NamesAreApart DEF Switches, KeysOf
<1>1. \A t \in {"latency", "model", "flags", "db", "region"} : <<t, Region>> \in Switches
  BY SMT DEF Kinds, Levels
<1>2. \A c \in Customers : <<"request", c>> \in Switches
  BY SMT DEF Kinds
<1>3. \A c \in Names : <<"dbOf", c>> \in Switches /\ <<"customer", c>> \in Switches
  BY SMT DEF Kinds, Levels
<1>4. <<"skew", Symbol>> \in Switches /\ <<"symbol", Symbol>> \in Switches
  BY SMT DEF Kinds, Levels
<1>5. \A s \in Switches : s = <<s[1], s[2]>> /\ s[1] \in Kinds \cup Levels
  BY SMT
<1>6. \A level \in Levels : \A k \in KeysOf(level) : <<level, k>> \in Switches
  BY SMT DEF Levels
<1>7. \A s \in Switches : s[1] \in Levels => s[2] \in KeysOf(s[1])
  BY SMT
<1> QED BY <1>1, <1>2, <1>3, <1>4, <1>5, <1>6, <1>7

(* What an access is about, and what it becomes. *)
LEMMA AnOp ==
  ASSUME NEW op \in Ops
  PROVE  /\ op.act = "put" => /\ op.on \in Switches /\ op.to \in {"on", "oneshot", "bare"}
                              /\ op.to = "bare" => op.on = <<"model", Region>>
         /\ op.act \in {"test", "del", "loop", "last"} => op.on \in Switches
         /\ op.act = "rebind" => op.on \in (Kinds \cup Levels) \X {Nobody}
         /\ op.act = "test" => /\ [op EXCEPT !.act = "del"] \in Ops
                               /\ [op EXCEPT !.act = "del"].act = "del"
                               /\ [op EXCEPT !.act = "del"].on = op.on
         /\ op.act = "loop" => [op EXCEPT !.act = "last"] \in Ops
<1>1. CASE op \in PutOps
  BY <1>1, TheSwitches, SMT DEF PutOps, Put
<1>2. CASE op \in DropOps
  BY <1>2, SMT DEF DropOps, Ops
<1>3. CASE op \in RebindOps
  BY <1>3, SMT DEF RebindOps
<1> QED BY <1>1, <1>2, <1>3 DEF Ops

(* The accesses that programs are made of. *)
LEMMA TheOps ==
  /\ \A s \in Switches : \A o \in {"on", "oneshot"} : Put(s, o) \in Ops
  /\ Put(<<"model", Region>>, "bare") \in Ops
  /\ \A s \in Switches : Remove(s) \in Ops /\ RemoveEach(s) \in Ops
  /\ \A t \in Kinds \cup Levels : Rebind(t) \in Ops
<1>1. \A s \in Switches : \A o \in {"on", "oneshot"} : Put(s, o) \in Ops
  BY SMT DEF Put, Ops, PutOps
<1>2. Put(<<"model", Region>>, "bare") \in Ops
  BY DEF Ops, PutOps
<1>3. \A s \in Switches : Remove(s) \in Ops /\ RemoveEach(s) \in Ops
  BY SMT DEF Remove, RemoveEach, Ops, DropOps
<1>4. \A t \in Kinds \cup Levels : Rebind(t) \in Ops
  BY SMT DEF Rebind, Ops, RebindOps
<1> QED BY <1>1, <1>2, <1>3, <1>4

(* Programs are sequences of accesses. *)
LEMMA PostsAreGood ==
  ASSUME NEW C \in SUBSET Customers, NEW q \in InOrder(C), NEW o \in Asked
  PROVE  PostRequest(q, o) \in Seq(Ops)
<1>1. IsFiniteSet(C) /\ Cardinality(C) \in Nat
  BY MonkeyAssumption, FS_Subset, FS_CardinalityType
<1>2. q \in [1 .. Cardinality(C) -> Customers]
  BY DEF InOrder
<1>3. q \in Seq(Customers) /\ Len(q) = Cardinality(C)
  BY <1>1, <1>2
<1>4. CASE o = "oneshot"
  <2> DEFINE op(n) == IF n % 2 = 1 THEN Put(<<"request", q[(n + 1) \div 2]>>, o)
                      ELSE Fast("customer", q[n \div 2])
  <2>1. ASSUME NEW n \in 1 .. 2 * Len(q) PROVE op(n) \in Ops
    <3>1. CASE n % 2 = 1
      <4>1. (n + 1) \div 2 \in 1 .. Len(q)
        BY <1>1, <1>3, <3>1
      <4>2. q[(n + 1) \div 2] \in Customers
        BY <4>1, <1>2, <1>3
      <4>3. <<"request", q[(n + 1) \div 2]>> \in Switches
        BY <4>2, TheSwitches
      <4> QED BY <4>3, <1>4, <3>1, TheOps
    <3>2. CASE n % 2 # 1
      <4>1. n \div 2 \in 1 .. Len(q)
        BY <1>1, <1>3, <3>2
      <4>2. q[n \div 2] \in Customers
        BY <4>1, <1>2, <1>3
      <4>3. <<"customer", q[n \div 2]>> \in Switches
        BY <4>2, TheSwitches, NamesAreApart
      <4> QED BY <4>3, <3>2, TheOps DEF Fast
    <3> QED BY <3>1, <3>2
  <2>2. 2 * Len(q) \in Nat
    BY <1>1, <1>3
  <2> HIDE DEF op
  <2>3. [n \in 1 .. 2 * Len(q) |-> op(n)] \in Seq(Ops)
    BY <2>1, <2>2
  <2> QED BY <2>3, <1>4 DEF PostRequest, op
<1>5. CASE o # "oneshot"
  <2>1. ASSUME NEW n \in 1 .. Len(q) PROVE Put(<<"request", q[n]>>, o) \in Ops
    BY <1>2, <1>3, TheSwitches, TheOps DEF Asked
  <2>2. Len(q) \in Nat
    BY <1>1, <1>3
  <2> DEFINE op(n) == Put(<<"request", q[n]>>, o)
  <2> HIDE DEF op
  <2>3. [n \in 1 .. Len(q) |-> op(n)] \in Seq(Ops)
    BY <2>1, <2>2 DEF op
  <2> QED BY <2>3, <1>5 DEF PostRequest, op
<1> QED BY <1>4, <1>5

LEMMA DeletesAreGood ==
  /\ \A kind \in {"latency", "model", "db"} : DeleteRegion(kind) \in Seq(Ops)
  /\ \A c \in Names : DeleteCustomer(c) \in Seq(Ops)
  BY TheSwitches, TheOps DEF DeleteRegion, DeleteCustomer

LEMMA ProgramsAreGood == Programs \subseteq Seq(Ops)
<1> SUFFICES ASSUME NEW ops \in Programs PROVE ops \in Seq(Ops)
  OBVIOUS
<1> USE TheSwitches, TheOps
<1>1. /\ \A r \in {"region"} : Fast(r, Region) \in Ops
      /\ \A c \in Names : Fast("customer", c) \in Ops
      /\ \A s \in Plain : s \in Switches
  BY DEF Fast, Plain
<1>2. /\ <<Put(<<"latency", Region>>, "on")>> \in Seq(Ops)
      /\ <<Put(<<"latency", Region>>, "oneshot"), Fast("region", Region)>> \in Seq(Ops)
      /\ <<Put(<<"model", Region>>, "bare"), Fast("region", Region)>> \in Seq(Ops)
      /\ <<Put(<<"flags", Region>>, "on")>> \in Seq(Ops)
  BY <1>1
<1>3. <<RemoveEach(<<"db", Region>>), RemoveEach(<<"region", Region>>)>> \in Seq(Ops)
  OBVIOUS
<1>4. /\ {"customer", "symbol", "region", "skew", "latency", "db", "model", "dbOf",
          "request", "flags"} \subseteq Kinds \cup Levels
  BY DEF Kinds, Levels
<1>5. /\ <<Rebind("customer"), Rebind("symbol"), Rebind("region"), Rebind("skew")>>
            \in Seq(Ops)
      /\ <<Rebind("latency"), Rebind("db"), Rebind("model"), Rebind("dbOf"),
           Rebind("request")>> \in Seq(Ops)
      /\ <<Rebind("flags")>> \in Seq(Ops)
  <2>1. /\ Rebind("customer") \in Ops /\ Rebind("symbol") \in Ops /\ Rebind("region") \in Ops
        /\ Rebind("skew") \in Ops /\ Rebind("latency") \in Ops /\ Rebind("db") \in Ops
        /\ Rebind("model") \in Ops /\ Rebind("dbOf") \in Ops /\ Rebind("request") \in Ops
        /\ Rebind("flags") \in Ops
    BY <1>4
  <2> HIDE TheSwitches, TheOps
  <2> QED BY <2>1
<1>6. \A o \in Asked : <<Put(<<"db", Region>>, o)>> \in Seq(Ops)
  <2>1. PICK s \in Switches : s = <<"db", Region>>
    OBVIOUS
  <2>2. ASSUME NEW o \in Asked PROVE <<Put(s, o)>> \in Seq(Ops)
    BY DEF Asked
  <2> HIDE TheSwitches, TheOps
  <2> QED BY <2>1, <2>2
<1>14. ASSUME NEW c \in Names
       PROVE  /\ <<Put(<<"dbOf", c>>, "on")>> \in Seq(Ops)
              /\ <<Put(<<"dbOf", c>>, "oneshot"), Fast("customer", c)>> \in Seq(Ops)
  <2>1. PICK s \in Switches : s = <<"dbOf", c>>
    OBVIOUS
  <2>2. PICK f \in Ops : f = Fast("customer", c)
    BY <1>1
  <2>3. <<Put(s, "on")>> \in Seq(Ops) /\ <<Put(s, "oneshot"), f>> \in Seq(Ops)
    OBVIOUS
  <2> HIDE TheSwitches, TheOps
  <2> QED BY <2>1, <2>2, <2>3
<1>7. /\ \A s \in Plain : <<Put(s, "on")>> \in Seq(Ops)
      /\ \A s \in Plain : <<Remove(s)>> \in Seq(Ops)
  BY <1>1
<1>8. ASSUME NEW q \in Orders, NEW o \in Asked
      PROVE  PostRequest(q, o) \in Seq(Ops)
  BY PostsAreGood DEF Orders
<1> HIDE TheSwitches, TheOps
<1>9. CASE \E q \in Orders : ops = PostRequest(q, "on") \/ ops = PostRequest(q, "oneshot")
  BY <1>8, <1>9 DEF Asked
<1>10. CASE \/ \E kind \in {"latency", "model", "db"} : ops = DeleteRegion(kind)
            \/ \E c \in Names : ops = DeleteCustomer(c)
  BY <1>10, DeletesAreGood
<1>11. CASE \E s \in Plain : ops = <<Put(s, "on")>> \/ ops = <<Remove(s)>>
  BY <1>7, <1>11
<1>12. CASE \/ \E o \in Asked : ops = <<Put(<<"db", Region>>, o)>>
            \/ \E c \in Names : \/ ops = <<Put(<<"dbOf", c>>, "on")>>
                               \/ ops = <<Put(<<"dbOf", c>>, "oneshot"), Fast("customer", c)>>
  BY <1>6, <1>12, <1>14
<1>13. \/ ops \in {<<Put(<<"latency", Region>>, "on")>>,
                 <<Put(<<"latency", Region>>, "oneshot"), Fast("region", Region)>>,
                 <<Put(<<"model", Region>>, "bare"), Fast("region", Region)>>,
                 <<Put(<<"flags", Region>>, "on")>>,
                 <<RemoveEach(<<"db", Region>>), RemoveEach(<<"region", Region>>)>>,
                 <<Rebind("customer"), Rebind("symbol"), Rebind("region"), Rebind("skew")>>,
                 <<Rebind("latency"), Rebind("db"), Rebind("model"), Rebind("dbOf"),
                   Rebind("request")>>,
                 <<Rebind("flags")>>}
       \/ \E q \in Orders : ops = PostRequest(q, "on") \/ ops = PostRequest(q, "oneshot")
       \/ \E kind \in {"latency", "model", "db"} : ops = DeleteRegion(kind)
       \/ \E c \in Names : ops = DeleteCustomer(c)
       \/ \E s \in Plain : ops = <<Put(s, "on")>> \/ ops = <<Remove(s)>>
       \/ \E o \in Asked : ops = <<Put(<<"db", Region>>, o)>>
       \/ \E c \in Names : \/ ops = <<Put(<<"dbOf", c>>, "on")>>
                          \/ ops = <<Put(<<"dbOf", c>>, "oneshot"), Fast("customer", c)>>
  BY DEF Programs
<1> QED BY <1>2, <1>3, <1>5, <1>9, <1>10, <1>11, <1>12, <1>13, Zenon

(* The switch the thread asks about exists, and is on for the trade it     *)
(* draws if it is on at all.                                               *)
LEMMA AskingIsASwitch ==
  ASSUME NEW kind \in Kinds, customer \in Customers
  PROVE  /\ Asking(kind) \in Switches /\ Asking(kind)[1] = kind
         /\ Effect(kind) \in Effects
         /\ table[Asking(kind)] # "off" => Effect(kind) \in ArmedIn(table, customer)
<1>1. /\ Asking(kind) \in Switches
      /\ Asking(kind)[1] = kind /\ Asking(kind)[2] \in {customer, Region, Symbol}
  <2>1. CASE kind \in {"request", "dbOf"}
    <3>1. Asking(kind) = <<kind, customer>>
      BY <2>1 DEF Asking
    <3>2. <<kind, customer>> \in Switches
      BY <2>1, TheSwitches, NamesAreApart
    <3> QED BY <3>1, <3>2
  <2>2. CASE kind = "skew"
    BY <2>2, TheSwitches, SMT DEF Asking
  <2>3. CASE kind \in {"latency", "model", "flags", "db"}
    BY <2>3, TheSwitches, SMT DEF Asking
  <2> QED BY <2>1, <2>2, <2>3 DEF Kinds
<1>2. Effect(kind) \in Effects
  BY DEF Effect, Effects, Kinds
<1>3. ASSUME table[Asking(kind)] # "off" PROVE Effect(kind) \in ArmedIn(table, customer)
  <2> DEFINE s == Asking(kind)
  <2> HIDE DEF s
  <2>1. s \in Switches /\ s[1] = kind /\ s[2] \in {customer, Region, Symbol} /\ table[s] # "off"
    BY <1>1, <1>3 DEF s
  <2> QED BY <2>1 DEF ArmedIn
<1> QED BY <1>1, <1>2, <1>3

(* What is off arms nothing. *)
LEMMA FewerAreArmed ==
  ASSUME NEW t, NEW u, NEW c, \A s \in Switches : u[s] # "off" => t[s] # "off"
  PROVE  ArmedIn(u, c) \subseteq ArmedIn(t, c)
  BY DEF ArmedIn

LEMMA ArmedAreEffects ==
  ASSUME NEW t, NEW c PROVE ArmedIn(t, c) \subseteq Effects
  BY DEF ArmedIn, Effect, Effects, Kinds

(* The initial state. *)
LEMMA MonkeyInitInv == MonkeyInit => MonkeyInv
<1> SUFFICES ASSUME MonkeyInit PROVE MonkeyInv
  OBVIOUS
<1> USE NamesAreApart DEF MonkeyInit
<1>1. Typed
  <2>1. <<>> \in Seq(Ops) /\ 0 \in 0 .. MaxCalls
    BY MonkeyAssumption
  <2>2. todo \in [0 .. MaxCalls -> Seq(Ops)]
    BY <2>1
  <2> QED BY <2>1, <2>2 DEF Typed, Settings, Stations
<1>2. PlaceIsGood /\ OwnIsGood /\ UsingIsNext /\ FoundIsThere /\ DeathHasACause
  BY DEF PlaceIsGood, OwnIsGood, UsingIsNext, FoundIsThere, DeathHasACause
<1>3. ArmedIsNoted /\ SettledAreArmed /\ BareIsModel
  BY DEF ArmedIsNoted, SettledAreArmed, BareIsModel
<1> QED BY <1>1, <1>2, <1>3 DEF MonkeyInv

-----------------------------------------------------------------------------
(* What is left of a program is one. *)
LEMMA RestOfOps ==
  ASSUME NEW ops \in Seq(Ops), ops # <<>>
  PROVE  /\ Head(ops) \in Ops /\ Tail(ops) \in Seq(Ops) /\ <<>> \in Seq(Ops)
         /\ \A op \in Ops : <<op>> \in Seq(Ops) /\ <<op>> \o Tail(ops) \in Seq(Ops)
<1>1. Head(ops) \in Ops /\ Tail(ops) \in Seq(Ops)
  OBVIOUS
<1> QED BY <1>1

LEMMA RemainIs ==
  ASSUME Typed, NEW h \in 0 .. MaxCalls, NEW ops \in Seq(Ops), Remain(h, ops)
  PROVE  /\ todo' \in [0 .. MaxCalls -> Seq(Ops)] /\ todo'[h] = ops
         /\ h # 0 => todo'[0] = todo[0]
<1>1. 0 \in 0 .. MaxCalls
  BY MonkeyAssumption
<1> QED BY <1>1 DEF Typed, Remain

(* What an access makes of the tables and of the handler. *)
Access(h, ops) ==
  \/ Puts(h, ops) \/ Tests(h, ops) \/ Deletes(h, ops) \/ DeleteFails(h, ops)
  \/ Loops(h, ops) \/ DeletesLast(h, ops) \/ Rebinds(h, ops)

LEMMA AccessStep ==
  ASSUME Typed, BareIsModel, NEW h \in 0 .. MaxCalls, NEW ops \in Seq(Ops), Access(h, ops)
  PROVE  /\ table' \in [Switches -> Settings] /\ todo' \in [0 .. MaxCalls -> Seq(Ops)]
         /\ h # 0 => todo'[0] = todo[0]
         /\ BareIsModel'
<1> DEFINE Good == todo' \in [0 .. MaxCalls -> Seq(Ops)] /\ (h # 0 => todo'[0] = todo[0])
           GoodTable == table' \in [Switches -> Settings] /\ BareIsModel'
<1>0. ops # <<>>
  BY DEF Access, Puts, Tests, Deletes, DeleteFails, Loops, DeletesLast, Rebinds, Doing
<1> DEFINE op == Head(ops)
<1>1. op \in Ops /\ Tail(ops) \in Seq(Ops) /\ <<>> \in Seq(Ops)
  BY <1>0, RestOfOps
<1>2. /\ op.act = "test" => <<[op EXCEPT !.act = "del"]>> \o Tail(ops) \in Seq(Ops)
      /\ op.act = "loop" => <<[op EXCEPT !.act = "last"]>> \in Seq(Ops)
  BY <1>0, <1>1, AnOp, RestOfOps
<1>3. table \in [Switches -> Settings] /\ \A s \in Switches : table[s] = "bare" => s = <<"model", Region>>
  BY DEF Typed, BareIsModel
<1>4. /\ op.act = "put" => /\ op.on \in Switches /\ op.to \in {"on", "oneshot", "bare"}
                           /\ op.to = "bare" => op.on = <<"model", Region>>
      /\ op.act \in {"test", "del", "loop", "last"} => op.on \in Switches
  BY <1>1, AnOp
<1>5. Good
  <2>1. PICK left \in Seq(Ops) : Remain(h, left)
    <3>1. CASE Puts(h, ops) \/ Deletes(h, ops) \/ Rebinds(h, ops)
      BY <1>1, <3>1 DEF Puts, Deletes, Rebinds
    <3>2. CASE Tests(h, ops)
      <4>1. op.act = "test"
        BY <3>2 DEF Tests, Doing
      <4> QED BY <1>1, <1>2, <3>2, <4>1 DEF Tests
    <3>3. CASE DeleteFails(h, ops) \/ DeletesLast(h, ops)
      BY <1>1, <3>3 DEF DeleteFails, DeletesLast
    <3>4. CASE Loops(h, ops)
      <4>1. op.act = "loop"
        BY <3>4 DEF Loops, Doing
      <4> QED BY <1>1, <1>2, <3>4, <4>1 DEF Loops
    <3> QED BY <3>1, <3>2, <3>3, <3>4 DEF Access
  <2> QED BY <2>1, RemainIs
<1>6. GoodTable
  <2>1. CASE Puts(h, ops)
    <3>1. op.act = "put" /\ table' = [table EXCEPT ![op.on] = op.to]
      BY <2>1 DEF Puts, Doing, On
    <3> HIDE DEF op
    <3> QED BY <1>3, <1>4, <3>1 DEF BareIsModel, Settings
  <2>2. CASE Deletes(h, ops) \/ DeletesLast(h, ops)
    <3>1. table' = [table EXCEPT ![op.on] = "off"]
      BY <2>2 DEF Deletes, DeletesLast, On
    <3> HIDE DEF op
    <3> QED BY <1>3, <3>1 DEF BareIsModel, Settings
  <2>3. CASE Rebinds(h, ops)
    <3>1. table' = [s \in Switches |-> IF s[1] = op.on[1] THEN "off" ELSE table[s]]
      BY <2>3 DEF Rebinds, On
    <3> HIDE DEF op
    <3> QED BY <1>3, <3>1 DEF BareIsModel, Settings
  <2>4. CASE UNCHANGED table
    BY <1>3, <2>4 DEF BareIsModel
  <2> QED BY <2>1, <2>2, <2>3, <2>4 DEF Access, Tests, DeleteFails, Loops
<1> QED BY <1>5, <1>6

(* What a handler changes that does not concern the thread leaves there    *)
(* what the thread has found.                                              *)
LEMMA HandlerLeavesFound ==
  ASSUME MonkeyInv, NEW h \in 1 .. MaxCalls, NEW ops \in Seq(Ops), Handler(h, ops),
         todo'[0] = todo[0]
  PROVE  FoundIsThere'
<1> SUFFICES ASSUME touched' = {} PROVE FoundIsThere'
  BY DEF FoundIsThere
<1>1. touched = {} /\ \A s \in Changed : ~Concerns(s)
  BY DEF Handler
<1>2. /\ UNCHANGED <<at, doing, using>>
      /\ \A s \in Switches : Concerns(s) => (table'[s] = "off" <=> table[s] = "off")
  BY <1>1 DEF Handler, Changed
<1>3. FoundIsThere /\ PlaceIsGood
  BY DEF MonkeyInv
<1>4. at \in Kinds /\ doing = "use" => table'[using] # "off"
  BY <1>1, <1>2, <1>3 DEF FoundIsThere, PlaceIsGood, Concerns
<1>5. at \in Kinds /\ doing = "expire" /\ Doing(todo[0], "del") => table'[using] # "off"
  BY <1>1, <1>2, <1>3 DEF FoundIsThere, PlaceIsGood, Concerns
<1>6. at \in Kinds /\ doing = "iterate" => dict' # "grown"
  <2> SUFFICES ASSUME at \in Kinds, doing = "iterate" PROVE dict' # "grown"
    OBVIOUS
  <2>1. dict # "grown" /\ using[1] = "request"
    BY <1>1, <1>3 DEF FoundIsThere, PlaceIsGood
  <2>2. ~\E s \in Changed : s[1] = "request"
    BY <1>1, <2>1 DEF Concerns
  <2> QED BY <2>1, <2>2 DEF Handler
<1>7. at \in Levels /\ doing = "choose" => FastOn(at)' # {}
  <2> SUFFICES ASSUME at \in Levels, doing = "choose" PROVE FastOn(at)' # {}
    OBVIOUS
  <2>1. FastOn(at) # {} /\ using[1] = at
    BY <1>1, <1>3 DEF FoundIsThere, PlaceIsGood
  <2>2. PICK k \in KeysOf(at) : table[<<at, k>>] # "off"
    BY <2>1 DEF FastOn
  <2>3. <<at, k>> \in Switches /\ Concerns(<<at, k>>)
    BY <2>1, TheSwitches DEF Concerns
  <2>4. table'[<<at, k>>] # "off"
    BY <1>2, <2>2, <2>3
  <2> QED BY <1>2, <2>4 DEF FastOn
<1>8. at \in Levels /\ doing = "draw" => table'[using] # "off"
  BY <1>1, <1>2, <1>3, NamesAreApart DEF FoundIsThere, PlaceIsGood, Concerns
<1> QED BY <1>2, <1>4, <1>5, <1>6, <1>7, <1>8 DEF FoundIsThere, Doing

(* A handler's access preserves the invariant. *)
LEMMA HandlerStep ==
  ASSUME MonkeyInv, NEW h \in 1 .. MaxCalls, NEW ops \in Seq(Ops), Handler(h, ops),
         calls' \in 0 .. MaxCalls
  PROVE  MonkeyInv'
<1>1. /\ Typed /\ BareIsModel /\ PlaceIsGood /\ OwnIsGood /\ ArmedIsNoted
      /\ SettledAreArmed /\ UsingIsNext /\ DeathHasACause
  BY DEF MonkeyInv
<1>2. h \in 0 .. MaxCalls /\ h # 0
  BY MonkeyAssumption
<1>3. Access(h, ops)
  BY DEF Handler, Access
<1>4. /\ table' \in [Switches -> Settings] /\ todo' \in [0 .. MaxCalls -> Seq(Ops)]
      /\ todo'[0] = todo[0]
      /\ BareIsModel'
  BY <1>1, <1>2, <1>3, AccessStep
<1>5. /\ UNCHANGED <<at, doing, using, customer, next, trade>>
      /\ dict' \in {dict, "old", "grown"}
      /\ armed' = IF customer = Nobody THEN {} ELSE armed \cup ArmedIn(table', customer)
      /\ touched \subseteq touched'
  BY DEF Handler
<1>6. Typed'
  BY <1>1, <1>4, <1>5, ArmedAreEffects DEF Typed
<1>7. customer \in Customers => armed \subseteq armed'
  BY <1>5, NamesAreApart
<1>8. PlaceIsGood'
  BY <1>1, <1>5, <1>7 DEF PlaceIsGood
<1>9. OwnIsGood' /\ UsingIsNext'
  BY <1>1, <1>4, <1>5 DEF OwnIsGood, UsingIsNext, Doing, On
<1>10. ArmedIsNoted'
  BY <1>5 DEF ArmedIsNoted
<1>11. SettledAreArmed'
  BY <1>1, <1>5, <1>7 DEF SettledAreArmed, PlaceIsGood
<1>12. DeathHasACause'
  BY <1>1, <1>5 DEF DeathHasACause
<1>13. FoundIsThere'
  BY <1>4, HandlerLeavesFound
<1> QED BY <1>4, <1>6, <1>8, <1>9, <1>10, <1>11, <1>12, <1>13 DEF MonkeyInv

LEMMA RestStep ==
  ASSUME MonkeyInv, Rest PROVE MonkeyInv'
<1>0. todo \in [0 .. MaxCalls -> Seq(Ops)] /\ calls \in 0 .. MaxCalls
  BY DEF MonkeyInv, Typed
<1>1. ASSUME NEW ops \in Programs, Call(ops) PROVE MonkeyInv'
  <2>1. calls + 1 \in 1 .. MaxCalls /\ calls' \in 0 .. MaxCalls /\ Handler(calls + 1, ops)
    BY <1>0, <1>1, MonkeyAssumption DEF Call
  <2> QED BY <2>1, ProgramsAreGood, HandlerStep
<1>2. ASSUME NEW h \in 1 .. MaxCalls, GoesOn(h) PROVE MonkeyInv'
  <2>1. h \in 0 .. MaxCalls
    BY MonkeyAssumption
  <2>2. todo[h] \in Seq(Ops) /\ calls' \in 0 .. MaxCalls /\ Handler(h, todo[h])
    BY <1>0, <1>2, <2>1 DEF GoesOn
  <2> QED BY <2>2, HandlerStep
<1> QED BY <1>1, <1>2 DEF Rest

(* Time that passes takes nothing away. *)
LEMMA AgeStep ==
  ASSUME MonkeyInv, NEW a \in Switches, Age(a) PROVE MonkeyInv'
<1>1. /\ table[a] = "oneshot" /\ table' = [table EXCEPT ![a] = "expired"]
      /\ UNCHANGED <<todo, calls, generator, history>>
  BY DEF Age
<1>2. table \in [Switches -> Settings]
  BY DEF MonkeyInv, Typed
<1>3. /\ table' \in [Switches -> Settings]
      /\ \A s \in Switches : (table'[s] = "off") <=> (table[s] = "off")
      /\ \A s \in Switches : table'[s] = "bare" => table[s] = "bare"
  BY <1>1, <1>2 DEF Settings
<1>4. Typed' /\ BareIsModel'
  BY <1>1, <1>3 DEF MonkeyInv, Typed, BareIsModel, generator, history
<1>5. PlaceIsGood' /\ OwnIsGood' /\ UsingIsNext' /\ SettledAreArmed' /\ DeathHasACause'
  BY <1>1 DEF MonkeyInv, PlaceIsGood, OwnIsGood, UsingIsNext, SettledAreArmed,
              DeathHasACause, generator, history, Doing, On
<1>6. ArmedIsNoted'
  <2>1. ArmedIn(table', customer) \subseteq ArmedIn(table, customer)
    BY <1>3, FewerAreArmed
  <2> QED BY <1>1, <2>1 DEF MonkeyInv, ArmedIsNoted, generator, history
<1>7. FoundIsThere'
  <2> SUFFICES ASSUME touched = {} PROVE FoundIsThere'
    BY <1>1 DEF FoundIsThere, history
  <2>1. UNCHANGED <<todo, at, doing, using, dict>>
    BY <1>1 DEF generator
  <2>2. FoundIsThere /\ PlaceIsGood
    BY DEF MonkeyInv
  <2>3. at \in Levels /\ doing = "choose" => FastOn(at)' # {}
    <3> SUFFICES ASSUME at \in Levels, doing = "choose" PROVE FastOn(at)' # {}
      OBVIOUS
    <3>1. PICK k \in KeysOf(at) : table[<<at, k>>] # "off"
      BY <2>2 DEF FoundIsThere, FastOn
    <3>2. table'[<<at, k>>] # "off"
      BY <1>3, <3>1, TheSwitches
    <3> QED BY <2>1, <3>2 DEF FastOn
  <2>4. /\ at \in Kinds /\ doing # "look" => using \in Switches
        /\ at \in Levels /\ doing = "draw" => using \in Switches
    BY <2>2 DEF PlaceIsGood
  <2> QED BY <1>3, <2>1, <2>2, <2>3, <2>4 DEF FoundIsThere, Doing
<1> QED BY <1>4, <1>5, <1>6, <1>7 DEF MonkeyInv

-----------------------------------------------------------------------------
(* The generator.  What every step that leaves the tables alone keeps.     *)
LEMMA QuietTables ==
  ASSUME MonkeyInv, UNCHANGED <<table, calls>>
  PROVE  /\ table' \in [Switches -> Settings] /\ calls' \in 0 .. MaxCalls
         /\ BareIsModel'
         /\ armed' = armed /\ customer' = customer => ArmedIsNoted'
  BY DEF MonkeyInv, Typed, BareIsModel, ArmedIsNoted

(* Where the thread goes next. *)
LEMMA AfterIs ==
  /\ \A kind \in Kinds : /\ After[kind] \in Kinds \cup {"submit"}
                         /\ AfterUse(kind) \in Kinds \cup {"submit"}
                         /\ Before[After[kind]] \ {kind} \subseteq Before[kind]
                         /\ Before[AfterUse(kind)] \ {Effect(kind)} \subseteq Before[kind]
  /\ \A level \in Levels : After[level] \in Levels \cup {"asleep"}
  /\ After["submit"] \in Levels
  BY DEF Kinds, Levels, After, AfterUse, Before, Effect, Effects

(* The start of a place. *)
LEMMA Arrives ==
  ASSUME MonkeyInv, UNCHANGED <<table, todo, calls, customer>>, armed' = armed,
         doing' = "look", at' \in Stations \ {"dead"},
         at' \in Kinds \cup {"submit"} => customer \in Customers,
         dict' \in {dict, "same"}, next' \in Names \cup {Nobody}, trade' \subseteq Effects,
         SettledAreArmed'
  PROVE  MonkeyInv'
<1>1. Typed'
  BY DEF MonkeyInv, Typed
<1>2. BareIsModel' /\ ArmedIsNoted'
  BY QuietTables
<1>3. PlaceIsGood' /\ OwnIsGood' /\ UsingIsNext' /\ FoundIsThere' /\ DeathHasACause'
  BY NamesAreApart
  DEF PlaceIsGood, OwnIsGood, UsingIsNext, FoundIsThere, DeathHasACause
<1> QED BY <1>1, <1>2, <1>3 DEF MonkeyInv

(* The thread ends, for a cause. *)
LEMMA DieStep ==
  ASSUME MonkeyInv, NEW p, NEW from, Die(p, from),
         \/ customer \in Strangers \/ using = <<"model", Region>> \/ touched # {}
  PROVE  MonkeyInv'
<1>1. /\ at' = "dead"
      /\ UNCHANGED <<table, todo, calls, doing, using, dict, customer, next, trade, armed, touched>>
  BY DEF Die, history
<1>2. Typed'
  BY <1>1 DEF MonkeyInv, Typed, Stations
<1>3. BareIsModel' /\ ArmedIsNoted'
  BY <1>1, QuietTables
<1>4. PlaceIsGood' /\ OwnIsGood' /\ UsingIsNext' /\ FoundIsThere' /\ SettledAreArmed'
  BY <1>1, NamesAreApart
  DEF PlaceIsGood, OwnIsGood, UsingIsNext, FoundIsThere, SettledAreArmed
<1>5. DeathHasACause'
  BY <1>1 DEF DeathHasACause
<1> QED BY <1>2, <1>3, <1>4, <1>5 DEF MonkeyInv

LEMMA DrawStep ==
  ASSUME MonkeyInv, NEW c \in Names, Draw(c) PROVE MonkeyInv'
<1>1. /\ at = "asleep" /\ at' = IF c \in Customers THEN "latency" ELSE "dead"
      /\ customer' = c /\ armed' = ArmedIn(table, c) /\ touched' = {}
      /\ UNCHANGED <<table, todo, calls, doing, using, dict, next, trade>>
  BY DEF Draw
<1>2. Typed'
  BY <1>1, ArmedAreEffects DEF MonkeyInv, Typed, Stations, Kinds
<1>3. doing' = "look"
  BY <1>1 DEF MonkeyInv, PlaceIsGood
<1>4. BareIsModel'
  BY <1>1, QuietTables
<1>5. ArmedIsNoted'
  BY <1>1 DEF ArmedIsNoted
<1>6. PlaceIsGood' /\ OwnIsGood' /\ UsingIsNext' /\ FoundIsThere'
  BY <1>1, <1>3, NamesAreApart
  DEF PlaceIsGood, OwnIsGood, UsingIsNext, FoundIsThere, Kinds, Levels
<1>7. SettledAreArmed' /\ DeathHasACause'
  BY <1>1, NamesAreApart DEF SettledAreArmed, Before, DeathHasACause, Kinds
<1> QED BY <1>2, <1>4, <1>5, <1>6, <1>7 DEF MonkeyInv

LEMMA SkipStep ==
  ASSUME MonkeyInv, NEW kind \in Kinds, Skip(kind) PROVE MonkeyInv'
<1>1. /\ at = kind /\ at' = After[kind] /\ doing' = "look" /\ trade' = trade \ {kind}
      /\ UNCHANGED <<table, todo, calls, dict, customer, next>> /\ armed' = armed
  BY DEF Skip, Leave, Looks
<1>2. customer \in Customers /\ trade' \subseteq Effects /\ next \in Names \cup {Nobody}
  BY <1>1 DEF MonkeyInv, PlaceIsGood, Typed
<1>3. SettledAreArmed'
  BY <1>1, AfterIs DEF MonkeyInv, SettledAreArmed
<1>4. at' \in Stations \ {"dead"}
  BY <1>1, AfterIs, NamesAreApart DEF Stations
<1> QED BY <1>1, <1>2, <1>3, <1>4, Arrives

LEMMA FindStep ==
  ASSUME MonkeyInv, NEW kind \in Kinds, Find(kind) PROVE MonkeyInv'
<1>1. /\ at = kind /\ at' = at /\ doing' = "use" /\ using' = Asking(kind)
      /\ table[Asking(kind)] # "off" /\ touched' = {} /\ armed' = armed
      /\ UNCHANGED <<table, todo, calls, dict, customer, next, trade>>
  BY DEF Find, Step, Looks
<1>2. customer \in Customers
  BY <1>1 DEF MonkeyInv, PlaceIsGood
<1>3. Asking(kind) \in Switches /\ Asking(kind)[1] = kind /\ Effect(kind) \in armed
  BY <1>1, <1>2, AskingIsASwitch, NamesAreApart DEF MonkeyInv, ArmedIsNoted
<1>4. Typed'
  BY <1>1 DEF MonkeyInv, Typed
<1>5. BareIsModel' /\ ArmedIsNoted'
  BY <1>1, QuietTables
<1>6. PlaceIsGood' /\ OwnIsGood' /\ UsingIsNext'
  BY <1>1, <1>2, <1>3, NamesAreApart DEF PlaceIsGood, OwnIsGood, UsingIsNext
<1>7. FoundIsThere' /\ SettledAreArmed' /\ DeathHasACause'
  BY <1>1, NamesAreApart
  DEF MonkeyInv, FoundIsThere, SettledAreArmed, DeathHasACause
<1> QED BY <1>4, <1>5, <1>6, <1>7 DEF MonkeyInv

(* The handler that the thread calls for an expired switch looks first. *)
LEMMA TimeoutIsGood ==
  ASSUME NEW kind \in Kinds, customer \in Customers
  PROVE  /\ Timeout(kind) \in Seq(Ops)
         /\ kind = "request" => Timeout(kind) = <<>>
         /\ \A i \in 1 .. Len(Timeout(kind)) : Timeout(kind)[i].act = "test"
         /\ ~Doing(Timeout(kind), "del")
<1>1. CASE kind \in {"request", "flags", "skew"}
  BY <1>1 DEF Timeout, Doing
<1>2. CASE kind = "dbOf"
  <2>1. Timeout(kind) = DeleteCustomer(customer)
    BY <1>2 DEF Timeout
  <2>2. DeleteCustomer(customer) \in Seq(Ops)
    BY DeletesAreGood, NamesAreApart
  <2>3. /\ \A i \in 1 .. Len(DeleteCustomer(customer)) : DeleteCustomer(customer)[i].act = "test"
        /\ ~Doing(DeleteCustomer(customer), "del")
    BY DEF DeleteCustomer, Remove, Doing
  <2> QED BY <1>2, <2>1, <2>2, <2>3
<1>3. CASE kind \in {"latency", "model", "db"}
  <2>1. Timeout(kind) = DeleteRegion(kind)
    BY <1>3 DEF Timeout
  <2> QED BY <1>3, <2>1, DeletesAreGood DEF DeleteRegion, Remove, Doing
<1> QED BY <1>1, <1>2, <1>3 DEF Kinds

LEMMA UseStep ==
  ASSUME MonkeyInv, NEW kind \in Kinds, Use(kind) PROVE MonkeyInv'
<1>1. /\ at = kind /\ doing = "use" /\ touched' = {} /\ armed' = armed
      /\ UNCHANGED <<table, calls, dict, customer, next>>
      /\ trade' \in {trade \ {Effect(kind)}, trade \cup {Effect(kind)}}
  BY DEF Use, Step, Leave, Looks
<1>2. /\ customer \in Customers /\ next \in Names \cup {Nobody} /\ trade \subseteq Effects
      /\ using \in Switches /\ Effect(kind) \in armed /\ trade \cap Before[kind] \subseteq armed
  BY <1>1 DEF MonkeyInv, PlaceIsGood, Typed, SettledAreArmed
<1>3. Effect(kind) \in Effects
  BY <1>2, AskingIsASwitch
<1>4. trade' \subseteq Effects
  BY <1>1, <1>2, <1>3
<1>5. CASE table[using] = "expired"
  <2>1. /\ at' = at /\ doing' = "expire" /\ using' = using
        /\ Remain(0, Timeout(kind))
    BY <1>5 DEF Use, Step
  <2>2. 0 \in 0 .. MaxCalls /\ Typed
    BY MonkeyAssumption DEF MonkeyInv
  <2>3. todo' \in [0 .. MaxCalls -> Seq(Ops)] /\ todo'[0] = Timeout(kind)
    BY <1>2, <2>1, <2>2, TimeoutIsGood, RemainIs
  <2>4. Typed'
    BY <1>1, <1>4, <2>1, <2>2, <2>3 DEF Typed
  <2>5. BareIsModel' /\ ArmedIsNoted'
    BY <1>1, QuietTables
  <2>6. PlaceIsGood'
    <3>1. kind = "request" => using[1] = "request"
      BY <1>1 DEF MonkeyInv, PlaceIsGood
    <3> QED BY <1>1, <1>2, <2>1, <3>1, NamesAreApart DEF PlaceIsGood
  <2>7. OwnIsGood' /\ UsingIsNext'
    <3>1. /\ kind = "request" => Timeout(kind) = <<>>
          /\ \A i \in 1 .. Len(Timeout(kind)) : Timeout(kind)[i].act = "test"
          /\ ~Doing(Timeout(kind), "del") /\ Timeout(kind) \in Seq(Ops)
      BY <1>2, TimeoutIsGood
    <3>2. \A i \in 2 .. Len(Timeout(kind)) : Timeout(kind)[i].act = "test"
      BY <3>1
    <3>3. OwnIsGood'
      BY <1>1, <2>1, <2>3, <3>1, <3>2 DEF OwnIsGood
    <3>4. ~Doing(todo[0], "del")'
      BY <2>3, <3>1 DEF Doing
    <3> QED BY <3>3, <3>4 DEF UsingIsNext
  <2>8. FoundIsThere'
    <3>1. ~Doing(todo[0], "del")'
      BY <1>2, <2>3, TimeoutIsGood DEF Doing
    <3> QED BY <1>1, <2>1, <3>1, NamesAreApart DEF FoundIsThere
  <2>9. SettledAreArmed'
    BY <1>1, <1>2, <2>1 DEF SettledAreArmed
  <2>10. DeathHasACause'
    BY <1>1, <2>1, NamesAreApart DEF DeathHasACause
  <2> QED BY <2>4, <2>5, <2>6, <2>7, <2>8, <2>9, <2>10 DEF MonkeyInv
<1>6. CASE table[using] # "expired"
  <2>1. at' = AfterUse(kind) /\ doing' = "look" /\ todo' = todo
    BY <1>6 DEF Use, Leave
  <2>2. SettledAreArmed'
    BY <1>1, <1>2, <2>1, AfterIs DEF SettledAreArmed
  <2>3. at' \in Stations \ {"dead"}
    BY <2>1, AfterIs, NamesAreApart DEF Stations
  <2> QED BY <1>1, <1>2, <1>4, <2>1, <2>2, <2>3, Arrives
<1> QED BY <1>5, <1>6

LEMMA UseFailsStep ==
  ASSUME MonkeyInv, NEW kind \in Kinds, UseFails(kind) PROVE MonkeyInv'
<1>1. at = kind /\ doing = "use" /\ table[using] \in {"off", "bare"} /\ Die(kind, "use")
  BY DEF UseFails, Die
<1>2. using \in Switches /\ (touched = {} => table[using] # "off")
  BY <1>1 DEF MonkeyInv, PlaceIsGood, FoundIsThere
<1>3. table[using] = "bare" => using = <<"model", Region>>
  BY <1>2 DEF MonkeyInv, BareIsModel
<1> QED BY <1>1, <1>2, <1>3, DieStep

(* Its own DELETE handler, one access at a time. *)
LEMMA ExpireStep ==
  ASSUME MonkeyInv, NEW kind \in Kinds, Expire(kind) PROVE MonkeyInv'
<1> DEFINE own == todo[0]
<1>1. /\ at = kind /\ doing = "expire" /\ at' = at /\ doing' = doing /\ touched' = {}
      /\ armed' = armed /\ UNCHANGED <<calls, dict, customer, next, trade>>
      /\ own # <<>>
      /\ \/ Tests(0, own) /\ Head(own).act = "test" /\ using' = Head(own).on
         \/ Deletes(0, own) /\ Head(own).act = "del" /\ using' = using
  BY DEF Expire, Step, Looks, Tests, Deletes, Doing, On
<1>2. Typed /\ BareIsModel /\ 0 \in 0 .. MaxCalls
  BY MonkeyAssumption DEF MonkeyInv
<1>3. own \in Seq(Ops)
  BY <1>2 DEF Typed
<1>4. kind # "request" /\ \A i \in 2 .. Len(own) : own[i].act = "test"
  BY <1>1 DEF MonkeyInv, OwnIsGood
<1>5. Head(own) \in Ops /\ Tail(own) \in Seq(Ops)
  BY <1>1, <1>3, RestOfOps
<1>6. /\ table' \in [Switches -> Settings] /\ todo' \in [0 .. MaxCalls -> Seq(Ops)]
      /\ BareIsModel'
  <2>1. Access(0, own)
    BY <1>1 DEF Access
  <2> HIDE DEF own
  <2> QED BY <1>2, <1>3, <2>1, AccessStep
<1>7. \A s \in Switches : table'[s] # "off" => table[s] # "off"
  <2>1. table \in [Switches -> Settings]
    BY <1>2 DEF Typed
  <2>2. UNCHANGED table \/ table' = [table EXCEPT ![Head(own).on] = "off"]
    BY <1>1 DEF Tests, Deletes, On
  <2> HIDE DEF own
  <2> QED BY <2>1, <2>2
<1>8. using \in Switches /\ using' \in Switches /\ customer \in Customers /\ Effect(kind) \in armed
  <2>1. using \in Switches /\ customer \in Customers /\ Effect(kind) \in armed
    BY <1>1 DEF MonkeyInv, PlaceIsGood
  <2> QED BY <1>1, <1>5, <2>1, AnOp
<1>9. /\ \A i \in 2 .. Len(todo'[0]) : todo'[0][i].act = "test"
      /\ Doing(todo'[0], "del") => using' = On(todo'[0]) /\ table'[using'] # "off"
  <2>1. CASE Tests(0, own) /\ table[Head(own).on] # "off"
    <3> DEFINE x == [Head(own) EXCEPT !.act = "del"]
    <3>1. Head(own).act = "test" /\ using' = Head(own).on /\ UNCHANGED table
      BY <1>1, <2>1 DEF Tests, Doing, Deletes
    <3>2. x \in Ops /\ x.act = "del" /\ x.on = Head(own).on
      BY <1>5, <3>1, AnOp
    <3>3. todo'[0] = <<x>> \o Tail(own)
      BY <1>2, <2>1 DEF Tests, Remain, On, Typed
    <3> HIDE DEF x
    <3>4. Head(<<x>> \o Tail(own)) = x
      BY <1>5, <3>2
    <3>5. ASSUME NEW i \in 2 .. Len(<<x>> \o Tail(own)) PROVE (<<x>> \o Tail(own))[i].act = "test"
      <4>1. (<<x>> \o Tail(own))[i] = own[i] /\ i \in 2 .. Len(own)
        BY <1>1, <1>3, <1>5, <3>2
      <4> QED BY <1>4, <4>1
    <3> QED BY <2>1, <3>1, <3>2, <3>3, <3>4, <3>5 DEF Doing, On
  <2>2. CASE ~(Tests(0, own) /\ table[Head(own).on] # "off")
    <3>1. todo'[0] = Tail(own)
      BY <1>1, <1>2, <2>2 DEF Tests, Deletes, Remain, On, Typed
    <3>2. \A i \in 1 .. Len(Tail(own)) : Tail(own)[i].act = "test"
      <4> SUFFICES ASSUME NEW i \in 1 .. Len(Tail(own)) PROVE Tail(own)[i].act = "test"
        OBVIOUS
      <4>1. Tail(own)[i] = own[i + 1] /\ i + 1 \in 2 .. Len(own)
        BY <1>1, <1>3
      <4> QED BY <1>4, <4>1
    <3>3. ~Doing(Tail(own), "del")
      <4> SUFFICES ASSUME Tail(own) # <<>> PROVE Head(Tail(own)).act = "test"
        BY DEF Doing
      <4>1. Head(Tail(own)) = Tail(own)[1] /\ 1 \in 1 .. Len(Tail(own))
        BY <1>5
      <4> QED BY <3>2, <4>1
    <3>4. \A i \in 2 .. Len(Tail(own)) : Tail(own)[i].act = "test"
      BY <1>5, <3>2
    <3> QED BY <3>1, <3>3, <3>4
  <2> QED BY <2>1, <2>2
<1>10. Typed'
  BY <1>1, <1>2, <1>6 DEF Typed
<1>11. PlaceIsGood'
  BY <1>1, <1>4, <1>8, NamesAreApart DEF PlaceIsGood
<1>12. OwnIsGood' /\ UsingIsNext'
  BY <1>1, <1>4, <1>9 DEF OwnIsGood, UsingIsNext, Doing, On
<1>13. FoundIsThere'
  BY <1>1, <1>9, NamesAreApart DEF FoundIsThere, Doing
<1>14. ArmedIsNoted'
  <2>1. ArmedIn(table', customer) \subseteq ArmedIn(table, customer)
    BY <1>7, FewerAreArmed
  <2> QED BY <1>1, <2>1 DEF MonkeyInv, ArmedIsNoted
<1>15. SettledAreArmed' /\ DeathHasACause'
  BY <1>1, NamesAreApart DEF MonkeyInv, SettledAreArmed, DeathHasACause
<1> QED BY <1>6, <1>10, <1>11, <1>12, <1>13, <1>14, <1>15 DEF MonkeyInv

LEMMA ExpireFailsStep ==
  ASSUME MonkeyInv, NEW kind \in Kinds, ExpireFails(kind) PROVE MonkeyInv'
<1>1. /\ at = kind /\ doing = "expire" /\ Die(kind, "expire")
      /\ Doing(todo[0], "del") /\ table[On(todo[0])] = "off"
  BY DEF ExpireFails, Die
<1>2. using = On(todo[0]) /\ (touched = {} => table[using] # "off")
  BY <1>1 DEF MonkeyInv, UsingIsNext, FoundIsThere
<1> QED BY <1>1, <1>2, DieStep

LEMMA ExpiredStep ==
  ASSUME MonkeyInv, NEW kind \in Kinds, Expired(kind) PROVE MonkeyInv'
<1>1. /\ at = kind /\ doing = "expire" /\ at' = AfterUse(kind) /\ doing' = "look"
      /\ UNCHANGED <<table, todo, calls, dict, customer, next, trade>> /\ armed' = armed
  BY DEF Expired, Leave, Looks
<1>2. /\ customer \in Customers /\ next \in Names \cup {Nobody} /\ trade \subseteq Effects
      /\ Effect(kind) \in armed /\ trade \cap Before[kind] \subseteq armed
  BY <1>1 DEF MonkeyInv, PlaceIsGood, Typed, SettledAreArmed
<1>3. SettledAreArmed'
  BY <1>1, <1>2, AfterIs DEF SettledAreArmed
<1>4. at' \in Stations \ {"dead"}
  BY <1>1, AfterIs, NamesAreApart DEF Stations
<1> QED BY <1>1, <1>2, <1>3, <1>4, Arrives

LEMMA IterateStep ==
  ASSUME MonkeyInv, Iterate PROVE MonkeyInv'
<1>1. /\ at = "request" /\ at' = at /\ doing = "expire" /\ doing' = "iterate" /\ dict' = "same"
      /\ touched' = {} /\ armed' = armed
      /\ UNCHANGED <<table, todo, calls, using, customer, next, trade>>
  BY DEF Iterate, Step, Looks
<1>2. Typed'
  BY <1>1 DEF MonkeyInv, Typed
<1>3. BareIsModel' /\ ArmedIsNoted'
  BY <1>1, QuietTables
<1>4. "request" \in Kinds
  BY DEF Kinds
<1>5. PlaceIsGood' /\ OwnIsGood' /\ UsingIsNext'
  BY <1>1, <1>4, NamesAreApart DEF MonkeyInv, PlaceIsGood, OwnIsGood, UsingIsNext
<1>6. FoundIsThere' /\ SettledAreArmed' /\ DeathHasACause'
  BY <1>1, <1>4, NamesAreApart DEF MonkeyInv, FoundIsThere, SettledAreArmed, DeathHasACause
<1> QED BY <1>2, <1>3, <1>5, <1>6 DEF MonkeyInv

LEMMA IteratedStep ==
  ASSUME MonkeyInv, Iterated PROVE MonkeyInv'
<1>1. /\ at = "request" /\ doing = "iterate" /\ at' = After["request"] /\ doing' = "look"
      /\ UNCHANGED <<table, todo, calls, customer, next, trade>> /\ dict' = "same"
      /\ armed' = armed
  BY DEF Iterated, Leave, Looks
<1>2. "request" \in Kinds /\ AfterUse("request") = After["request"]
  BY DEF Kinds, AfterUse
<1>3. /\ customer \in Customers /\ next \in Names \cup {Nobody} /\ trade \subseteq Effects
      /\ Effect("request") \in armed /\ trade \cap Before["request"] \subseteq armed
  BY <1>1, <1>2 DEF MonkeyInv, PlaceIsGood, Typed, SettledAreArmed
<1>4. SettledAreArmed'
  BY <1>1, <1>2, <1>3, AfterIs DEF SettledAreArmed
<1>5. at' \in Stations \ {"dead"}
  BY <1>1, <1>2, AfterIs, NamesAreApart DEF Stations
<1> QED BY <1>1, <1>3, <1>4, <1>5, Arrives

LEMMA IterateFailsStep ==
  ASSUME MonkeyInv, IterateFails PROVE MonkeyInv'
<1>1. at = "request" /\ doing = "iterate" /\ dict = "grown" /\ Die("request", "iterate")
  BY DEF IterateFails, Die
<1>2. touched # {}
  BY <1>1 DEF MonkeyInv, FoundIsThere, Kinds
<1> QED BY <1>1, <1>2, DieStep

LEMMA SubmitStep ==
  ASSUME MonkeyInv, Submit PROVE MonkeyInv'
<1>1. /\ at = "submit" /\ at' = After["submit"] /\ doing' = "look"
      /\ customer' = Nobody /\ armed' = {}
      /\ UNCHANGED <<table, todo, calls, using, dict, next, trade, touched>>
  BY DEF Submit, Leave
<1>2. at' \in Levels /\ at' # "dead" /\ at' \notin Kinds \cup {"submit"}
  BY <1>1, AfterIs, NamesAreApart
<1>3. Typed'
  BY <1>1, <1>2 DEF MonkeyInv, Typed, Stations
<1>4. BareIsModel' /\ ArmedIsNoted'
  BY <1>1, QuietTables DEF ArmedIsNoted
<1>5. PlaceIsGood' /\ OwnIsGood' /\ UsingIsNext' /\ FoundIsThere'
  BY <1>1, <1>2, NamesAreApart DEF PlaceIsGood, OwnIsGood, UsingIsNext, FoundIsThere
<1>6. SettledAreArmed' /\ DeathHasACause'
  BY <1>2 DEF SettledAreArmed, DeathHasACause
<1> QED BY <1>3, <1>4, <1>5, <1>6 DEF MonkeyInv

(* A step within a level. *)
LEMMA WithinLevel ==
  ASSUME MonkeyInv, NEW level \in Levels, at = level, at' = at,
         doing' \in {"choose", "draw"}, UNCHANGED <<table, todo, calls, dict, customer, next, trade>>,
         armed' = armed, touched' = {},
         doing' = "choose" => using' = <<level, Nobody>> /\ FastOn(level) # {},
         doing' = "draw" => using' \in {level} \X FastOn(level)
  PROVE  MonkeyInv'
<1>1. at \notin Kinds \cup {"asleep", "submit", "dead"}
  BY NamesAreApart
<1>2. doing' = "draw" => using' \in Switches /\ using'[1] = level /\ table[using'] # "off"
  BY TheSwitches DEF FastOn
<1>3. Typed'
  BY DEF MonkeyInv, Typed
<1>4. BareIsModel' /\ ArmedIsNoted'
  BY QuietTables
<1>5. PlaceIsGood' /\ OwnIsGood' /\ UsingIsNext'
  BY <1>1, <1>2 DEF PlaceIsGood, OwnIsGood, UsingIsNext
<1>6. FoundIsThere'
  BY <1>1, <1>2 DEF FoundIsThere, FastOn
<1>7. SettledAreArmed' /\ DeathHasACause'
  BY <1>1 DEF SettledAreArmed, DeathHasACause
<1> QED BY <1>3, <1>4, <1>5, <1>6, <1>7 DEF MonkeyInv

(* The next trade's region, customer and symbol. *)
LEMMA PlanStep ==
  ASSUME MonkeyInv, NEW level \in Levels, Plan(level) PROVE MonkeyInv'
<1>1. ASSUME NEW from, Leave(level, from, After[level]), UNCHANGED <<table, todo, dict, customer, trade>>,
             armed' = armed, next' \in Names \cup {Nobody}
      PROVE  MonkeyInv'
  <2>1. at' \in Stations \ {"dead"} /\ at' \notin Kinds \cup {"submit"}
    BY <1>1, AfterIs, NamesAreApart DEF Leave, Stations
  <2>2. trade \subseteq Effects /\ SettledAreArmed'
    BY <2>1 DEF MonkeyInv, Typed, SettledAreArmed
  <2>3. doing' = "look" /\ UNCHANGED calls
    BY <1>1 DEF Leave
  <2> QED BY <1>1, <2>1, <2>2, <2>3, Arrives
<1>2. next \in Names \cup {Nobody}
  BY DEF MonkeyInv, Typed
<1>3. CASE NoneFast(level)
  <2>1. next' \in Names \cup {Nobody}
    BY <1>2, <1>3 DEF NoneFast, Remember
  <2> QED BY <1>1, <1>3, <2>1 DEF NoneFast, Looks
<1>4. CASE SomeFast(level)
  BY <1>4, WithinLevel DEF SomeFast, Step, Looks
<1>5. CASE Choose(level)
  BY <1>5, WithinLevel DEF Choose, Step, Looks
<1>6. CASE ChooseFails(level)
  <2>1. at = level /\ doing = "choose" /\ FastOn(level) = {} /\ Die(level, "choose")
    BY <1>6 DEF ChooseFails, Die
  <2>2. touched # {}
    BY <2>1 DEF MonkeyInv, FoundIsThere
  <2> QED BY <2>1, <2>2, DieStep
<1>7. CASE Chance(level)
  <2>1. at = level /\ doing = "draw"
    BY <1>7 DEF Chance, Leave
  <2>2. using \in Switches /\ using[1] = level
    BY <2>1 DEF MonkeyInv, PlaceIsGood
  <2>3. next' \in Names \cup {Nobody}
    <3>1. level = "customer" => using[2] \in Names
      BY <2>2, TheSwitches DEF KeysOf
    <3> QED BY <1>2, <1>7, <3>1 DEF Chance, Remember
  <2> QED BY <1>1, <1>7, <2>3 DEF Chance, Looks
<1>8. CASE ChanceFails(level)
  <2>1. at = level /\ doing = "draw" /\ table[using] = "off" /\ Die(level, "draw")
    BY <1>8 DEF ChanceFails, Die
  <2>2. touched # {}
    BY <2>1 DEF MonkeyInv, FoundIsThere
  <2> QED BY <2>1, <2>2, DieStep
<1> QED BY <1>3, <1>4, <1>5, <1>6, <1>7, <1>8 DEF Plan

LEMMA GeneratorStep ==
  ASSUME MonkeyInv, Generator PROVE MonkeyInv'
<1>1. ASSUME NEW kind \in Kinds, Ask(kind) PROVE MonkeyInv'
  BY <1>1, SkipStep, FindStep, UseStep, UseFailsStep, ExpireStep, ExpireFailsStep, ExpiredStep
  DEF Ask
<1> QED BY <1>1, DrawStep, IterateStep, IteratedStep, IterateFailsStep, SubmitStep, PlanStep
        DEF Generator

-----------------------------------------------------------------------------
LEMMA MonkeyInvariance == MonkeySpec => []MonkeyInv
<1>1. MonkeyInv /\ [MonkeyNext]_monkeyVars => MonkeyInv'
  <2> SUFFICES ASSUME MonkeyInv, [MonkeyNext]_monkeyVars PROVE MonkeyInv'
    OBVIOUS
  <2>1. CASE Rest
    BY <2>1, RestStep
  <2>2. CASE Generator
    BY <2>2, GeneratorStep
  <2>3. ASSUME NEW s \in Switches, Age(s) PROVE MonkeyInv'
    BY <2>3, AgeStep
  <2>4. CASE UNCHANGED monkeyVars
    <3>1. UNCHANGED <<table, todo, calls, at, doing, using, dict, customer, next, trade, armed, touched>>
      BY <2>4 DEF monkeyVars, generator, history
    <3> QED BY <3>1
        DEF MonkeyInv, Typed, BareIsModel, PlaceIsGood, OwnIsGood, ArmedIsNoted, SettledAreArmed,
            UsingIsNext, FoundIsThere, DeathHasACause, FastOn, Doing, On
  <2> QED BY <2>1, <2>2, <2>3, <2>4 DEF MonkeyNext
<1> QED BY <1>1, MonkeyInitInv, PTL DEF MonkeySpec

(* app.py:285-342: whatever is called and in whatever order its handlers'  *)
(* accesses and the thread's fall, a trade is sent with an error, a flag   *)
(* or a skew only if that was switched on for it at some time while it was *)
(* drawn.                                                                  *)
THEOREM ErrorsAreOn == MonkeySpec => []ErrorsAreSwitchedOn
<1>1. MonkeyInv => ErrorsAreSwitchedOn
  BY DEF MonkeyInv, SettledAreArmed, ErrorsAreSwitchedOn, Before, Effects, Typed
<1> QED BY <1>1, MonkeyInvariance, PTL

(* app.py:284-373: whatever is called, for any customers and any number of *)
(* calls, the thread ends only at a name that is no customer's, at the     *)
(* record of a model error, or because a handler changed what the thread   *)
(* had found or was iterating over, since the thread's last look at it.    *)
THEOREM DeathIsCaused == MonkeySpec => []DeathHasACause
<1>1. MonkeyInv => DeathHasACause
  BY DEF MonkeyInv
<1> QED BY <1>1, MonkeyInvariance, PTL

=============================================================================
