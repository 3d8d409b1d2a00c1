-------------------------- MODULE TradeExecutionProofs --------------------------
(***************************************************************************)
(* For any number of orders, any sizes and any combination of faults: the  *)
(* types, the sums in the positions table and in the copies about to be    *)
(* written to it, and the agreement of booked trades with the exchange.    *)
(* The invariant that every step preserves is IndInv of TradeExecution.    *)
(* With one order under way at a time, also: positions are only used up;   *)
(* and while every order executes something and is answered for, the books *)
(* are those of HeldPosition, and the bot sells only what it bought.       *)
(***************************************************************************)
EXTENDS TradeExecution, PositionBookProofs

\* Writing a well-formed plan leaves the table well formed.
LEMMA WrittenFits ==
  ASSUME TypeOK, RowsAddUp, NEW o \in Orders
  PROVE  /\ Written(mon[o].plan) \in [Orders -> Row]
         /\ \A p \in Orders : RowAdds(Written(mon[o].plan)[p])
BY DEF TypeOK, MonState, RowsAddUp, Written

\* What GetBalance answers has the cache's type.
LEMMA ReplyFits ==
  ASSUME TypeOK, NEW b \in BalanceReplies
  PROVE  /\ b.amt \in Nat
         /\ b.cache \in [st : {"none", "fresh", "stale"}, amt : Nat]
BY DEF TypeOK, BalanceReplies

\* A monitor that sleeps, or has just been started, has the monitors' type.
LEMMA AsleepFits ==
  ASSUME NEW pc \in MonPcs
  PROVE  /\ Asleep(pc) \in MonState
         /\ \A p \in Orders : RowAdds(Asleep(pc).plan[p])
         /\ NoPlan \in [Orders -> Row] /\ \A p \in Orders : RowAdds(NoPlan[p])
<1>1. NoRow \in Row /\ RowAdds(NoRow)
  BY BookAssumption DEF NoRow, Row, RowAdds, RowStatuses, Sizes
<1>2. 0 \in Sizes
  BY BookAssumption DEF Sizes
<1>3. QED BY <1>1, <1>2 DEF Asleep, MonState, NoPlan, OrderStates

-----------------------------------------------------------------------------
\* The initial state, with or without an earlier position, satisfies IndInv.
LEMMA InitEstablishes == Init => IndInv
<1> SUFFICES ASSUME Init PROVE IndInv
  OBVIOUS
<1>1. 0 \in Sizes /\ MaxSize \in Sizes
  BY BookAssumption DEF Sizes
<1>2. NoRow \in Row /\ RowAdds(NoRow) /\ NewRow(MaxSize) \in Row /\ RowAdds(NewRow(MaxSize))
  BY <1>1, NewRowFits, BookAssumption DEF NoRow, Row, RowAdds, RowStatuses, Sizes
<1>3. /\ Asleep("none") \in MonState
      /\ \A p \in Orders : RowAdds(Asleep("none").plan[p])
  BY AsleepFits DEF MonPcs
<1>4. TypeOK
  BY <1>1, <1>2, <1>3, TradeAssumption, BookAssumption
  DEF Init, TypeOK, NoOrder, NoTrade, Idle, Working, Invalidated, OrderStates, Terminal, Sides
<1>5. RowsAddUp
  BY <1>2, <1>3 DEF Init, RowsAddUp
<1>6. TradesAgree /\ OrdersInRange /\ NotBookedYet
  BY BookAssumption, <1>1
  DEF Init, TradesAgree, OrdersInRange, NotBookedYet, NoOrder, NoTrade, Terminal,
      Asleep, Saving, Sizes
<1>7. WorkerInRange /\ CopiesAgree
  BY DEF Init, WorkerInRange, CopiesAgree, Idle, Working, Asleep, Saving
<1>8. QED BY <1>4, <1>5, <1>6, <1>7 DEF IndInv

\* The parts of IndInv that read only exchange, monitors and trades.
Books == <<ex, mon, trades>>
\* What the books say depends on the tables and the orders only.
LEMMA BooksUnchanged ==
  ASSUME IndInv, UNCHANGED Books
  PROVE  TradesAgree' /\ OrdersInRange' /\ CopiesAgree' /\ NotBookedYet'
BY DEF IndInv, Books, TradesAgree, OrdersInRange, CopiesAgree, NotBookedYet

\* A step of the signal worker that leaves orders, monitors and tables alone.
LEMMA WorkerStep ==
  ASSUME IndInv,
         TakeBuySignal \/ TakeSellSignal \/ ReadHoldings \/ SizeSell
           \/ CheckBalance \/ OrderRefused \/ RequestLost
  PROVE  IndInv'
<1>1. UNCHANGED <<ex, wallet, mon, rows, trades>>
  BY DEF TakeBuySignal, TakeSellSignal, ReadHoldings, SizeSell, CheckBalance,
         OrderRefused, RequestLost
<1>2. TradesAgree' /\ OrdersInRange' /\ CopiesAgree' /\ NotBookedYet'
  BY <1>1, BooksUnchanged DEF Books
<1>3. RowsAddUp'
  BY <1>1 DEF IndInv, RowsAddUp
<1>4. TypeOK' /\ WorkerInRange'
  <2> USE BookAssumption, TradeAssumption
  <2>0. TypeOK /\ WorkerInRange
    BY DEF IndInv
  <2>1. /\ sw' \in [pc : {"idle", "holdings", "size", "skip", "order", "send"},
                   side : Sides, size : Nat, avail : Nat, tries : 0 .. MaxRetries]
        /\ cache' \in [st : {"none", "fresh", "stale"}, amt : Nat]
        /\ WorkerInRange'
    <3>0. ASSUME NEW b \in BalanceReplies
          PROVE  /\ b.amt \in Nat
                 /\ b.cache \in [st : {"none", "fresh", "stale"}, amt : Nat]
      BY <2>0, ReplyFits
    <3>1. CASE TakeBuySignal
      <4>1. PICK b \in BalanceReplies, size \in Sizes \ {0} :
              /\ cache' = b.cache
              /\ sw' = Working("order", "BUY", size)
        BY <3>1 DEF TakeBuySignal
      <4>2. QED BY <3>0, <4>1 DEF Idle, Working, Sides, Sizes, WorkerInRange
    <3>2. CASE TakeSellSignal
      <4>1. PICK q \in SellQuantities, b \in BalanceReplies :
              /\ cache' = b.cache
              /\ sw' = Working("holdings", "SELL", q)
        BY <3>2 DEF TakeSellSignal
      <4>2. q \in Nat
        OBVIOUS
      <4>3. QED BY <3>0, <4>1, <4>2 DEF Working, Sides, Sizes, WorkerInRange
    <3>3. CASE ReadHoldings
      <4>1. PICK b \in BalanceReplies :
              /\ cache' = b.cache
              /\ sw' = [sw EXCEPT !.pc = IF b.ok /\ b.amt > 0 THEN "size" ELSE "skip",
                                 !.avail = IF b.ok THEN b.amt ELSE 0]
        BY <3>3 DEF ReadHoldings
      <4>2. QED BY <2>0, <3>0, <4>1 DEF TypeOK, WorkerInRange
    <3>4. CASE SizeSell
      BY <2>0, <3>4 DEF SizeSell, TypeOK, Idle, Working, Sides, Sizes, WorkerInRange
    <3>5. CASE CheckBalance
      <4>1. PICK b \in BalanceReplies :
              /\ cache' = b.cache
              /\ sw' = [sw EXCEPT !.pc = "send"] \/ sw' = Idle
        BY <3>5 DEF CheckBalance
      <4>2. QED BY <2>0, <3>0, <3>5, <4>1
                DEF CheckBalance, TypeOK, Idle, Working, Sides, WorkerInRange
    <3>6. CASE OrderRefused
      BY <2>0, <3>6 DEF OrderRefused, TypeOK, Idle, Working, Sides, WorkerInRange
    <3>7. CASE RequestLost
      BY <2>0, <3>7 DEF RequestLost, TryAgain, TypeOK, Idle, Working, Sides, WorkerInRange
    <3>8. QED BY <3>1, <3>2, <3>3, <3>4, <3>5, <3>6, <3>7
  <2>2. QED BY <1>1, <2>0, <2>1 DEF TypeOK
<1>5. QED BY <1>2, <1>3, <1>4 DEF IndInv

\* The cache ages, is read through the web API, or units leave the account.
LEMMA BystanderStep ==
  ASSUME IndInv, CacheAges \/ ReadBalance \/ Transfer
  PROVE  IndInv'
<1>0. TypeOK
  BY DEF IndInv
<1>1. UNCHANGED <<ex, sw, mon, rows, trades>>
  BY DEF CacheAges, ReadBalance, Transfer
<1>2. TradesAgree' /\ OrdersInRange' /\ CopiesAgree' /\ NotBookedYet'
  BY <1>1, BooksUnchanged DEF Books
<1>3. RowsAddUp' /\ WorkerInRange'
  BY <1>1 DEF IndInv, RowsAddUp, WorkerInRange
<1>4. wallet' \in Nat /\ cache' \in [st : {"none", "fresh", "stale"}, amt : Nat]
  <2>1. CASE CacheAges
    BY <1>0, <2>1 DEF CacheAges, TypeOK, Invalidated
  <2>2. CASE ReadBalance
    BY <1>0, <2>2, ReplyFits DEF ReadBalance, TypeOK
  <2>3. CASE Transfer
    BY <1>0, <2>3 DEF Transfer, TypeOK
  <2>4. QED BY <2>1, <2>2, <2>3
<1>5. QED BY <1>0, <1>1, <1>2, <1>3, <1>4 DEF IndInv, TypeOK

\* Closing the open positions.
LEMMA GhostStep == ASSUME IndInv, CloseGhostPositions PROVE IndInv'
<1>0. TypeOK /\ RowsAddUp
  BY DEF IndInv
<1>1. UNCHANGED <<ex, wallet, mon, cache, trades>> /\ sw' = Idle
  BY DEF CloseGhostPositions
<1>2. TradesAgree' /\ OrdersInRange' /\ CopiesAgree' /\ NotBookedYet'
  BY <1>1, BooksUnchanged DEF Books
<1>3. rows' \in [Orders -> Row] /\ \A o \in Orders : RowAdds(rows'[o])
  <2>1. rows \in [Orders -> Row] /\ \A o \in Orders : RowAdds(rows[o])
    BY <1>0 DEF TypeOK, RowsAddUp
  <2>2. rows' = CloseAll(rows) \/ rows' = rows
    BY DEF CloseGhostPositions
  <2>3. QED BY <2>1, <2>2, CloseFits
<1>4. /\ sw' \in [pc : {"idle", "holdings", "size", "skip", "order", "send"}, side : Sides,
                 size : Nat, avail : Nat, tries : 0 .. MaxRetries]
      /\ WorkerInRange'
  BY <1>1, TradeAssumption DEF Idle, Working, Sides, WorkerInRange
<1>5. QED BY <1>0, <1>1, <1>2, <1>3, <1>4 DEF IndInv, TypeOK, RowsAddUp

\* The exchange accepts an order: its number was free, so nothing refers to it.
LEMMA AcceptFits ==
  ASSUME IndInv, NEW o \in Orders, Accept(o)
  PROVE  /\ ex' \in [Orders -> [st : OrderStates, side : Sides, size : Sizes, filled : Sizes]]
         /\ wallet' \in Nat
         /\ OrdersInRange'
         /\ \A p \in Orders \ {o} : ex'[p] = ex[p]
         /\ ex[o].st = "none" /\ ex'[o].st = "ACTIVE"
         /\ mon[o].pc = "none" /\ trades[o] = NoTrade
<1>0. TypeOK /\ OrdersInRange /\ WorkerInRange /\ CopiesAgree /\ NotBookedYet
  BY DEF IndInv
<1>1. ex[o].st = "none" /\ sw.size \in Sizes \ {0} /\ sw.side \in Sides
  BY <1>0 DEF Accept, Request, FreeOrders, Placed, WorkerInRange, TypeOK
<1>2. ex' = [ex EXCEPT ![o] = [st |-> "ACTIVE", side |-> sw.side,
                               size |-> sw.size, filled |-> 0]]
  BY DEF Accept, Request
<1>3. ex' \in [Orders -> [st : OrderStates, side : Sides, size : Sizes, filled : Sizes]]
  BY <1>0, <1>1, <1>2, BookAssumption DEF TypeOK, OrderStates, Sizes
<1>4. wallet' \in Nat
  BY <1>0, <1>1 DEF Accept, Request, TypeOK, Sizes
<1>5. OrdersInRange'
  BY <1>0, <1>1, <1>2, BookAssumption DEF TypeOK, OrdersInRange, Sizes
<1>6. /\ \A p \in Orders \ {o} : ex'[p] = ex[p]
      /\ ex'[o].st = "ACTIVE"
  BY <1>0, <1>2 DEF TypeOK
<1>7. mon[o].pc = "none" /\ trades[o] = NoTrade
  BY <1>0, <1>1 DEF CopiesAgree, NotBookedYet
<1>8. QED BY <1>1, <1>3, <1>4, <1>5, <1>6, <1>7

\* The order is placed and a monitor started, or placed without an answer.
LEMMA PlaceStep ==
  ASSUME IndInv, NEW o \in Orders, PlaceOrder(o) \/ ReplyLost(o)
  PROVE  IndInv'
<1>0. /\ TypeOK /\ RowsAddUp /\ TradesAgree
      /\ WorkerInRange /\ CopiesAgree /\ NotBookedYet
  BY DEF IndInv
<1>1. Accept(o) /\ UNCHANGED <<rows, trades>>
  BY DEF PlaceOrder, Result, ReplyLost
<1>2. /\ sw' \in [pc : {"idle", "holdings", "size", "skip", "order", "send"}, side : Sides,
                 size : Nat, avail : Nat, tries : 0 .. MaxRetries]
      /\ cache' \in [st : {"none", "fresh", "stale"}, amt : Nat]
      /\ WorkerInRange'
  BY <1>0, TradeAssumption
  DEF PlaceOrder, Result, ReplyLost, TryAgain, TypeOK, Idle, Working, Sides, WorkerInRange,
      Invalidated
<1>3. mon' = mon \/ mon' = [mon EXCEPT ![o] = [Asleep("watch") EXCEPT !.st = "ACTIVE"]]
  BY DEF PlaceOrder, Result, ReplyLost
<1>4. /\ [Asleep("watch") EXCEPT !.st = "ACTIVE"] \in MonState
      /\ \A p \in Orders : RowAdds([Asleep("watch") EXCEPT !.st = "ACTIVE"].plan[p])
  BY AsleepFits DEF MonPcs, Busy, MonState, OrderStates, Asleep
<1>5. mon' \in [Orders -> MonState]
  BY <1>0, <1>3, <1>4 DEF TypeOK
<1>6. RowsAddUp'
  BY <1>0, <1>1, <1>3, <1>4 DEF TypeOK, RowsAddUp
<1>7. TypeOK'
  BY <1>0, <1>1, <1>2, <1>5, AcceptFits DEF TypeOK
<1>8. TradesAgree'
  BY <1>0, <1>1, AcceptFits DEF TradesAgree, NoTrade, Terminal
<1>9. CopiesAgree' /\ NotBookedYet'
  <2>1. \A p \in Orders \ {o} : ex'[p] = ex[p] /\ mon'[p] = mon[p] /\ trades'[p] = trades[p]
    BY <1>0, <1>1, <1>3, AcceptFits DEF TypeOK
  <2>2. /\ mon'[o].pc \in {"none", "watch"}
        /\ mon'[o].pc = "watch" => mon'[o].st = "ACTIVE"
    BY <1>0, <1>1, <1>3, AcceptFits DEF TypeOK, Asleep
  <2>3. ex'[o].st = "ACTIVE" /\ trades'[o] = NoTrade
    BY <1>1, AcceptFits
  <2>4. QED BY <1>0, <2>1, <2>2, <2>3 DEF CopiesAgree, NotBookedYet, Saving
<1>10. QED BY <1>1, <1>2, <1>6, <1>7, <1>8, <1>9, AcceptFits DEF IndInv

\* The exchange executes a unit or ends the order: only an active order changes.
LEMMA ExchangeStep ==
  ASSUME IndInv, NEW o \in Orders, Execute(o) \/ Kill(o)
  PROVE  IndInv'
<1>0. /\ TypeOK /\ RowsAddUp /\ TradesAgree /\ OrdersInRange
      /\ WorkerInRange /\ CopiesAgree /\ NotBookedYet
  BY DEF IndInv
<1>1. ex[o].st = "ACTIVE" /\ UNCHANGED <<sw, mon, cache, rows, trades>>
  BY DEF Execute, Kill
<1>2. ex[o].filled \in Sizes /\ ex[o].size \in Sizes /\ ex[o].filled < ex[o].size
  BY <1>0, <1>1 DEF TypeOK, OrdersInRange
<1>3. /\ ex' \in [Orders -> [st : OrderStates, side : Sides, size : Sizes, filled : Sizes]]
      /\ wallet' \in Nat
      /\ \A p \in Orders \ {o} : ex'[p] = ex[p]
      /\ ex'[o].st # "none"
      /\ ex'[o].filled <= ex'[o].size
      /\ ex'[o].st = "ACTIVE" => ex'[o].filled < ex'[o].size
  <2>1. CASE Execute(o)
    <3>1. ex[o].filled + 1 \in Sizes /\ ex[o].filled + 1 <= ex[o].size
      BY <1>2, BookAssumption DEF Sizes
    <3>2. QED BY <1>0, <1>2, <2>1, <3>1, BookAssumption
              DEF Execute, TypeOK, Sizes, OrderStates, Terminal
  <2>2. CASE Kill(o)
    BY <1>0, <1>1, <1>2, <2>2, BookAssumption DEF Kill, TypeOK, Sizes, OrderStates, Terminal
  <2>3. QED BY <2>1, <2>2
<1>4. TypeOK'
  BY <1>0, <1>1, <1>3 DEF TypeOK
<1>5. OrdersInRange'
  BY <1>0, <1>3 DEF OrdersInRange
<1>6. RowsAddUp' /\ WorkerInRange'
  BY <1>0, <1>1 DEF RowsAddUp, WorkerInRange
<1>7. TradesAgree'
  BY <1>0, <1>1, <1>3 DEF TradesAgree, Terminal
<1>8. CopiesAgree' /\ NotBookedYet'
  BY <1>0, <1>1, <1>3 DEF CopiesAgree, NotBookedYet, Terminal
<1>9. QED BY <1>4, <1>5, <1>6, <1>7, <1>8 DEF IndInv

-----------------------------------------------------------------------------
\* Monitor o takes a step to state M with trade t: what the step must show of
\* M, t and the tables.
Moves(o, M, t) ==
  /\ M \in MonState /\ \A p \in Orders : RowAdds(M.plan[p])
  /\ mon' = [mon EXCEPT ![o] = M]
  /\ UNCHANGED <<ex, wallet, sw>>
  /\ cache' \in [st : {"none", "fresh", "stale"}, amt : Nat]
  /\ rows' \in [Orders -> Row] /\ \A p \in Orders : RowAdds(rows'[p])
  /\ t \in [st : OrderStates, side : Sides, size : Sizes]
  /\ trades' = [trades EXCEPT ![o] = t]
  /\ mon[o].pc # "none" /\ M.pc # "none"
  /\ M.pc = "watch" => M.st = "ACTIVE"
  /\ M.pc \in Saving \cup {"watch"} => t = NoTrade
  /\ M.pc \in Saving /\ M.st \in Terminal => ex[o].st = M.st /\ ex[o].filled = M.filled
  /\ t.st \in Terminal => /\ ex[o].st = t.st /\ ex[o].side = t.side
                          /\ ex[o].filled > 0 => t.size = ex[o].filled

\* Every step of a monitor that moves so preserves the invariant.
LEMMA MonitorFrame ==
  ASSUME IndInv, NEW o \in Orders, NEW M, NEW t, Moves(o, M, t)
  PROVE  IndInv'
<1>0. /\ TypeOK /\ RowsAddUp /\ TradesAgree /\ OrdersInRange
      /\ WorkerInRange /\ CopiesAgree /\ NotBookedYet
  BY DEF IndInv
<1>1. /\ mon'[o] = M /\ trades'[o] = t
      /\ \A p \in Orders \ {o} : mon'[p] = mon[p] /\ trades'[p] = trades[p]
  BY <1>0 DEF TypeOK, Moves
<1>2. TypeOK'
  BY <1>0 DEF TypeOK, Moves
<1>3. RowsAddUp'
  BY <1>0, <1>1 DEF RowsAddUp, Moves
<1>4. TradesAgree'
  BY <1>0, <1>1 DEF TradesAgree, Moves
<1>5. OrdersInRange' /\ WorkerInRange'
  BY <1>0 DEF OrdersInRange, WorkerInRange, Moves
<1>6. CopiesAgree'
  BY <1>0, <1>1 DEF CopiesAgree, Moves
<1>7. NotBookedYet'
  BY <1>0, <1>1 DEF NotBookedYet, CopiesAgree, Moves
<1>8. QED BY <1>2, <1>3, <1>4, <1>5, <1>6, <1>7 DEF IndInv

\* A monitor's state with some fields replaced keeps the type.
LEMMA MonitorFields ==
  ASSUME TypeOK, RowsAddUp, NEW o \in Orders
  PROVE  /\ mon[o] \in MonState
         /\ \A p \in Orders : RowAdds(mon[o].plan[p])
         /\ ex[o].st \in OrderStates /\ ex[o].filled \in Sizes
         /\ ex[o].size \in Sizes /\ ex[o].side \in Sides
         /\ trades[o] \in [st : OrderStates, side : Sides, size : Sizes]
         /\ trades = [trades EXCEPT ![o] = trades[o]]
         /\ rows \in [Orders -> Row] /\ \A p \in Orders : RowAdds(rows[p])
         /\ cache \in [st : {"none", "fresh", "stale"}, amt : Nat]
BY DEF TypeOK, MonState, RowsAddUp

\* Looking at the exchange, every 15 seconds or for the last time.
LEMMA LookStep ==
  ASSUME IndInv, NEW o \in Orders, Poll(o) \/ TimeOut(o)
  PROVE  IndInv'
<1>0. TypeOK /\ RowsAddUp /\ OrdersInRange /\ CopiesAgree /\ NotBookedYet
  BY DEF IndInv
<1>1. mon[o].pc = "watch" /\ UNCHANGED <<ex, wallet, sw, cache, rows, trades>>
  BY DEF Poll, TimeOut
<1>2. trades[o] = NoTrade /\ mon[o].st = "ACTIVE" /\ ex[o].st # "none"
  BY <1>0, <1>1 DEF NotBookedYet, CopiesAgree
<1>3. ASSUME NEW M \in MonState, \A p \in Orders : RowAdds(M.plan[p]),
             mon' = [mon EXCEPT ![o] = M],
             M.pc \in {"watch", "save", "done"},
             M.pc = "watch" => M.st = "ACTIVE",
             M.pc = "save" /\ M.st \in Terminal =>
               ex[o].st = M.st /\ ex[o].filled = M.filled
      PROVE  IndInv'
  <2>1. /\ trades[o] \in [st : OrderStates, side : Sides, size : Sizes]
        /\ trades' = [trades EXCEPT ![o] = trades[o]]
        /\ rows' \in [Orders -> Row] /\ \A p \in Orders : RowAdds(rows'[p])
        /\ cache' \in [st : {"none", "fresh", "stale"}, amt : Nat]
    BY <1>0, <1>1, MonitorFields
  <2>2. trades[o].st \notin Terminal
    BY <1>2 DEF NoTrade, Terminal
  <2>3. M.pc # "none" /\ mon[o].pc # "none"
    BY <1>1, <1>3
  <2>4. M.pc \in Saving => M.pc = "save"
    BY <1>3 DEF Saving
  <2>5. Moves(o, M, trades[o])
    BY <1>1, <1>2, <1>3, <2>1, <2>2, <2>3, <2>4 DEF Moves
  <2>6. QED BY <2>5, MonitorFrame
<1>4. CASE Poll(o)
  <2> DEFINE M == Seen(o, IF Listed(o).st \in Terminal THEN "save" ELSE "watch", FALSE)
  <2>1. M \in MonState /\ \A p \in Orders : RowAdds(M.plan[p])
    BY <1>0, MonitorFields DEF Seen, Listed, MonState, MonPcs, Busy
  <2>2. /\ M.pc \in {"watch", "save"}
        /\ M.pc = "watch" => M.st = "ACTIVE"
        /\ M.st = ex[o].st /\ M.filled = ex[o].filled
    BY <1>0, <1>2, MonitorFields DEF Seen, Listed, MonState, OrderStates
  <2>3. mon' = [mon EXCEPT ![o] = M]
    BY <1>4 DEF Poll
  <2> HIDE DEF M
  <2>4. QED BY <1>3, <2>1, <2>2, <2>3
<1>5. CASE TimeOut(o)
  <2>1. CASE mon' = [mon EXCEPT ![o] = Seen(o, "save", TRUE)]
    <3> DEFINE M == Seen(o, "save", TRUE)
    <3>1. M \in MonState /\ \A p \in Orders : RowAdds(M.plan[p])
      BY <1>0, MonitorFields DEF Seen, Listed, MonState, MonPcs, Busy
    <3>2. M.pc = "save" /\ M.st = ex[o].st /\ M.filled = ex[o].filled
      BY <1>0, MonitorFields DEF Seen, Listed, MonState
    <3> HIDE DEF M
    <3>3. QED BY <1>3, <2>1, <3>1, <3>2 DEF M
  <2>2. CASE mon' = [mon EXCEPT ![o] = [mon[o] EXCEPT !.pc = "save", !.last = TRUE]]
    <3> DEFINE M == [mon[o] EXCEPT !.pc = "save", !.last = TRUE]
    <3>1. M \in MonState /\ \A p \in Orders : RowAdds(M.plan[p])
      BY <1>0, MonitorFields DEF MonState, MonPcs, Busy
    <3>2. M.pc = "save" /\ M.st = "ACTIVE"
      BY <1>0, <1>2, MonitorFields DEF MonState
    <3>3. mon' = [mon EXCEPT ![o] = M]
      BY <2>2
    <3> HIDE DEF M
    <3>4. QED BY <1>3, <3>1, <3>2, <3>3 DEF Terminal
  <2>3. CASE mon' = [mon EXCEPT ![o] = Asleep("done")]
    <3>1. /\ Asleep("done") \in MonState
          /\ \A p \in Orders : RowAdds(Asleep("done").plan[p])
      BY AsleepFits DEF MonPcs
    <3>2. Asleep("done").pc = "done"
      BY DEF Asleep
    <3>3. QED BY <1>3, <2>3, <3>1, <3>2
  <2>4. QED BY <1>5, <2>1, <2>2, <2>3 DEF TimeOut
<1>6. QED BY <1>4, <1>5

\* A write that leaves the booking unfinished.
LEMMA UnfinishedStep ==
  ASSUME IndInv, NEW o \in Orders, mon[o].pc \in Saving, NEW M \in MonState,
         M.pc \in Saving, M.st = mon[o].st, M.filled = mon[o].filled,
         \A p \in Orders : RowAdds(M.plan[p]),
         mon' = [mon EXCEPT ![o] = M],
         rows' \in [Orders -> Row], \A p \in Orders : RowAdds(rows'[p]),
         UNCHANGED <<ex, wallet, sw, cache, trades>>
  PROVE  IndInv'
<1>0. TypeOK /\ RowsAddUp /\ CopiesAgree /\ NotBookedYet
  BY DEF IndInv
<1>1. /\ trades[o] \in [st : OrderStates, side : Sides, size : Sizes]
      /\ trades' = [trades EXCEPT ![o] = trades[o]]
      /\ cache' \in [st : {"none", "fresh", "stale"}, amt : Nat]
  BY <1>0, MonitorFields
<1>2. trades[o] = NoTrade
  BY <1>0 DEF NotBookedYet
<1>3. trades[o].st \notin Terminal
  BY <1>2 DEF NoTrade, Terminal
<1>4. M.st \in Terminal => ex[o].st = M.st /\ ex[o].filled = M.filled
  BY <1>0 DEF CopiesAgree
<1>5. M.pc # "none" /\ mon[o].pc # "none" /\ M.pc # "watch"
  BY DEF Saving
<1>6. Moves(o, M, trades[o])
  BY <1>1, <1>2, <1>3, <1>4, <1>5 DEF Moves
<1>7. QED BY <1>6, MonitorFrame

\* What a monitor carries along keeps its type and its copy of the order.
LEMMA PreparedFits ==
  ASSUME IndInv, NEW o \in Orders, NEW pc \in Saving, NEW plan \in [Orders -> Row],
         \A p \in Orders : RowAdds(plan[p])
  PROVE  /\ Prepared(o, pc, plan) \in MonState
         /\ Prepared(o, pc, plan).pc \in Saving
         /\ Prepared(o, pc, plan).st = mon[o].st
         /\ Prepared(o, pc, plan).filled = mon[o].filled
         /\ \A p \in Orders : RowAdds(Prepared(o, pc, plan).plan[p])
BY MonitorFields DEF IndInv, Prepared, MonState, MonPcs, Busy, Saving

\* What is booked of an order agrees with the exchange.
LEMMA BookingFits ==
  ASSUME IndInv, NEW o \in Orders, mon[o].pc \in Saving
  PROVE  /\ Booked(o) \in MonState /\ Booked(o).pc \in {"after", "done"}
         /\ \A p \in Orders : RowAdds(Booked(o).plan[p])
         /\ EffectiveSize(o) \in Sizes
         /\ TradeOf(o) \in [st : OrderStates, side : Sides, size : Sizes]
         /\ TradeOf(o).st \in Terminal =>
              /\ ex[o].st = TradeOf(o).st /\ ex[o].side = TradeOf(o).side
              /\ ex[o].filled > 0 => TradeOf(o).size = ex[o].filled
<1>0. TypeOK /\ RowsAddUp /\ CopiesAgree
  BY DEF IndInv
<1>1. /\ mon[o].st \in OrderStates /\ mon[o].filled \in Sizes
      /\ ex[o].side \in Sides /\ ex[o].size \in Sizes /\ ex[o].filled \in Sizes
  BY <1>0, MonitorFields DEF MonState
<1>2. mon[o].st \in Terminal => ex[o].st = mon[o].st /\ ex[o].filled = mon[o].filled
  BY <1>0 DEF CopiesAgree
<1>3. EffectiveSize(o) \in Sizes
  BY <1>1 DEF EffectiveSize
<1>4. ex[o].filled > 0 /\ mon[o].st \in Terminal => EffectiveSize(o) = ex[o].filled
  BY <1>1, <1>2, BookAssumption DEF EffectiveSize, Sizes
<1>5. /\ TradeOf(o) \in [st : OrderStates, side : Sides, size : Sizes]
      /\ TradeOf(o).st = mon[o].st /\ TradeOf(o).side = ex[o].side
      /\ TradeOf(o).size = EffectiveSize(o)
  BY <1>1, <1>3 DEF TradeOf
<1>6. /\ Booked(o) \in MonState /\ Booked(o).pc \in {"after", "done"}
      /\ \A p \in Orders : RowAdds(Booked(o).plan[p])
  <2>1. CASE mon[o].st = "COMPLETED" /\ ~mon[o].last
    <3>1. Booked(o) = [Asleep("after") EXCEPT !.st = "COMPLETED"]
      BY <2>1 DEF Booked
    <3>2. /\ [Asleep("after") EXCEPT !.st = "COMPLETED"] \in MonState
          /\ [Asleep("after") EXCEPT !.st = "COMPLETED"].pc = "after"
          /\ \A p \in Orders :
               RowAdds([Asleep("after") EXCEPT !.st = "COMPLETED"].plan[p])
      BY AsleepFits DEF MonPcs, Busy, MonState, OrderStates, Terminal, Asleep
    <3>3. QED BY <3>1, <3>2
  <2>2. CASE ~(mon[o].st = "COMPLETED" /\ ~mon[o].last)
    <3>1. Booked(o) = Asleep("done")
      BY <2>2 DEF Booked
    <3>2. Asleep("done").pc = "done"
      BY DEF Asleep
    <3>3. QED BY <3>1, <3>2, AsleepFits DEF MonPcs
  <2>3. QED BY <2>1, <2>2
<1>7. QED BY <1>2, <1>3, <1>4, <1>5, <1>6

\* The write that finishes the booking, with a trade or without.
LEMMA FinishedStep ==
  ASSUME IndInv, NEW o \in Orders, mon[o].pc \in Saving,
         mon' = [mon EXCEPT ![o] = Booked(o)],
         rows' \in [Orders -> Row], \A p \in Orders : RowAdds(rows'[p]),
         trades' = trades \/ trades' = [trades EXCEPT ![o] = TradeOf(o)],
         UNCHANGED <<ex, wallet, sw, cache>>
  PROVE  IndInv'
<1>0. TypeOK /\ RowsAddUp /\ NotBookedYet
  BY DEF IndInv
<1> DEFINE M == Booked(o)
<1>1. /\ M \in MonState /\ M.pc \in {"after", "done"}
      /\ \A p \in Orders : RowAdds(M.plan[p])
      /\ mon' = [mon EXCEPT ![o] = M]
  BY BookingFits
<1> HIDE DEF M
<1>2. cache' \in [st : {"none", "fresh", "stale"}, amt : Nat]
  BY <1>0, MonitorFields
<1>3. mon[o].pc # "none" /\ M.pc # "none" /\ M.pc \notin Saving \cup {"watch"}
  BY <1>1 DEF Saving
<1>4. CASE trades' = trades
  <2>1. /\ trades[o] \in [st : OrderStates, side : Sides, size : Sizes]
        /\ trades' = [trades EXCEPT ![o] = trades[o]]
    BY <1>0, <1>4, MonitorFields
  <2>2. trades[o].st \notin Terminal
    BY <1>0 DEF NotBookedYet, NoTrade, Terminal
  <2>3. Moves(o, M, trades[o])
    BY <1>1, <1>2, <1>3, <2>1, <2>2 DEF Moves
  <2>4. QED BY <2>3, MonitorFrame
<1>5. CASE trades' = [trades EXCEPT ![o] = TradeOf(o)]
  <2> DEFINE t == TradeOf(o)
  <2>1. /\ t \in [st : OrderStates, side : Sides, size : Sizes]
        /\ trades' = [trades EXCEPT ![o] = t]
        /\ t.st \in Terminal => /\ ex[o].st = t.st /\ ex[o].side = t.side
                                /\ ex[o].filled > 0 => t.size = ex[o].filled
    BY <1>5, BookingFits
  <2> HIDE DEF t
  <2>2. Moves(o, M, t)
    BY <1>1, <1>2, <1>3, <2>1 DEF Moves
  <2>3. QED BY <2>2, MonitorFrame
<1>6. QED BY <1>4, <1>5

\* Whatever of a well-formed table a monitor rewrites stays well formed.
LEMMA RewritesFit ==
  ASSUME IndInv, NEW o \in Orders, mon[o].pc \in Saving
  PROVE  /\ [rows EXCEPT ![o] = NewRow(EffectiveSize(o))] \in [Orders -> Row]
         /\ \A p \in Orders : RowAdds([rows EXCEPT ![o] = NewRow(EffectiveSize(o))][p])
         /\ Written(mon[o].plan) \in [Orders -> Row]
         /\ \A p \in Orders : RowAdds(Written(mon[o].plan)[p])
<1>0. TypeOK /\ RowsAddUp
  BY DEF IndInv
<1>1. rows \in [Orders -> Row] /\ \A p \in Orders : RowAdds(rows[p])
  BY <1>0, MonitorFields
<1>2. EffectiveSize(o) \in Sizes
  BY BookingFits
<1>3. NewRow(EffectiveSize(o)) \in Row /\ RowAdds(NewRow(EffectiveSize(o)))
  BY <1>2, NewRowFits
<1>4. QED BY <1>0, <1>1, <1>3, WrittenFits

\* Booking in the ordinary way: each of these steps ends the monitor's work on
\* the order, or prepares the rows of a SELL.
LEMMA SaveStep ==
  ASSUME IndInv, NEW o \in Orders, Save(o) \/ PrepareFails(o)
  PROVE  IndInv'
<1>0. TypeOK /\ RowsAddUp
  BY DEF IndInv
<1>1. mon[o].pc \in Saving
  BY DEF Save, SaveBuy, PrepareSell, CommitSell, PrepareFails, Saving
<1>2. rows \in [Orders -> Row] /\ \A p \in Orders : RowAdds(rows[p])
  BY <1>0, MonitorFields
<1>3. CASE SaveBuy(o)
  <2>1. /\ mon' = [mon EXCEPT ![o] = Booked(o)]
        /\ trades' = [trades EXCEPT ![o] = TradeOf(o)]
        /\ UNCHANGED <<ex, wallet, sw, cache>>
        /\ rows' = [rows EXCEPT ![o] = NewRow(EffectiveSize(o))]
    BY <1>3 DEF SaveBuy
  <2>2. rows' \in [Orders -> Row] /\ \A p \in Orders : RowAdds(rows'[p])
    BY <1>1, <2>1, RewritesFit
  <2>3. QED BY <1>1, <2>1, <2>2, FinishedStep
<1>4. CASE PrepareSell(o)
  <2>1. PICK m \in FifoMatches(rows, mon[o].filled) :
          mon' = [mon EXCEPT ![o] = Prepared(o, "commit", MatchedRows(rows, m))]
    BY <1>4 DEF PrepareSell
  <2>2. UNCHANGED <<ex, wallet, sw, cache, rows, trades>>
    BY <1>4 DEF PrepareSell
  <2>3. /\ MatchedRows(rows, m) \in [Orders -> Row]
        /\ \A p \in Orders : RowAdds(MatchedRows(rows, m)[p])
    BY <1>2, PlanFits
  <2> DEFINE M == Prepared(o, "commit", MatchedRows(rows, m))
  <2>4. /\ M \in MonState /\ M.pc \in Saving
        /\ M.st = mon[o].st /\ M.filled = mon[o].filled
        /\ \A p \in Orders : RowAdds(M.plan[p])
    BY <2>3, PreparedFits DEF Saving
  <2> HIDE DEF M
  <2>5. mon' = [mon EXCEPT ![o] = M]
    BY <2>1 DEF M
  <2>6. QED BY <1>1, <1>2, <2>2, <2>4, <2>5, UnfinishedStep
<1>5. CASE CommitSell(o)
  <2>1. /\ mon' = [mon EXCEPT ![o] = Booked(o)]
        /\ trades' = [trades EXCEPT ![o] = TradeOf(o)]
        /\ UNCHANGED <<ex, wallet, sw, cache>>
        /\ rows' = Written(mon[o].plan)
    BY <1>5 DEF CommitSell
  <2>2. rows' \in [Orders -> Row] /\ \A p \in Orders : RowAdds(rows'[p])
    BY <1>1, <2>1, RewritesFit
  <2>3. QED BY <1>1, <2>1, <2>2, FinishedStep
<1>6. CASE PrepareFails(o)
  <2>1. /\ mon' = [mon EXCEPT ![o] = Booked(o)]
        /\ UNCHANGED <<ex, wallet, sw, cache, rows, trades>>
    BY <1>6 DEF PrepareFails
  <2>2. QED BY <1>1, <1>2, <2>1, FinishedStep
<1>7. QED BY <1>3, <1>4, <1>5, <1>6 DEF Save

\* The transaction fails and each write is tried on its own.
LEMMA FallbackStep ==
  ASSUME IndInv, NEW o \in Orders, Fallback(o) \/ TransactionFails(o)
  PROVE  IndInv'
<1>0. TypeOK /\ RowsAddUp
  BY DEF IndInv
<1>1. mon[o].pc \in Saving
  BY DEF Fallback, FallbackBuy, FallbackPrepareSell, FallbackRewrite,
         FallbackRewritten, FallbackTrade, TransactionFails, Saving
<1>2. rows \in [Orders -> Row] /\ \A p \in Orders : RowAdds(rows[p])
  BY <1>0, MonitorFields
<1>3. ASSUME NEW pc \in Saving, NEW plan \in [Orders -> Row],
             \A p \in Orders : RowAdds(plan[p]),
             mon' = [mon EXCEPT ![o] = Prepared(o, pc, plan)],
             rows' \in [Orders -> Row], \A p \in Orders : RowAdds(rows'[p]),
             UNCHANGED <<ex, wallet, sw, cache, trades>>
      PROVE  IndInv'
  <2> DEFINE M == Prepared(o, pc, plan)
  <2>1. /\ M \in MonState /\ M.pc \in Saving
        /\ M.st = mon[o].st /\ M.filled = mon[o].filled
        /\ \A p \in Orders : RowAdds(M.plan[p])
    BY <1>3, PreparedFits
  <2>2. mon' = [mon EXCEPT ![o] = M]
    BY <1>3
  <2> HIDE DEF M
  <2>3. QED BY <1>1, <1>3, <2>1, <2>2, UnfinishedStep
<1>4. NoPlan \in [Orders -> Row] /\ \A p \in Orders : RowAdds(NoPlan[p])
  BY AsleepFits DEF MonPcs
<1>5. {"trade", "rewrite", "fallback"} \subseteq Saving
  BY DEF Saving
<1>6. CASE TransactionFails(o)
  <2>1. /\ mon' = [mon EXCEPT ![o] = Prepared(o, "fallback", NoPlan)]
        /\ UNCHANGED <<ex, wallet, sw, cache, rows, trades>>
    BY <1>6 DEF TransactionFails
  <2>2. QED BY <1>2, <1>3, <1>4, <1>5, <2>1
<1>7. CASE FallbackBuy(o)
  <2>1. /\ mon' = [mon EXCEPT ![o] = Prepared(o, "trade", NoPlan)]
        /\ UNCHANGED <<ex, wallet, sw, cache, trades>>
        /\ rows' = rows \/ rows' = [rows EXCEPT ![o] = NewRow(EffectiveSize(o))]
    BY <1>7 DEF FallbackBuy
  <2>2. rows' \in [Orders -> Row] /\ \A p \in Orders : RowAdds(rows'[p])
    BY <1>1, <1>2, <2>1, RewritesFit
  <2>3. QED BY <1>3, <1>4, <1>5, <2>1, <2>2
<1>8. CASE FallbackPrepareSell(o)
  <2>1. UNCHANGED <<ex, wallet, sw, cache, rows, trades>>
    BY <1>8 DEF FallbackPrepareSell
  <2>2. CASE mon' = [mon EXCEPT ![o] = Prepared(o, "trade", NoPlan)]
    BY <1>2, <1>3, <1>4, <1>5, <2>1, <2>2
  <2>3. ASSUME NEW m \in FifoMatches(rows, mon[o].filled),
               mon' = [mon EXCEPT ![o] = Prepared(o, "rewrite", MatchedRows(rows, m))]
        PROVE  IndInv'
    <3>1. /\ MatchedRows(rows, m) \in [Orders -> Row]
          /\ \A p \in Orders : RowAdds(MatchedRows(rows, m)[p])
      BY <1>2, PlanFits
    <3>2. QED BY <1>2, <1>3, <1>5, <2>1, <2>3, <3>1
  <2>4. QED BY <1>8, <2>2, <2>3 DEF FallbackPrepareSell
<1>9. CASE FallbackRewrite(o)
  <2>1. PICK p \in Orders :
          /\ rows' \in {rows, [rows EXCEPT ![p] = mon[o].plan[p]]}
          /\ mon' = [mon EXCEPT ![o].plan[p] = NoRow]
          /\ UNCHANGED <<ex, wallet, sw, cache, trades>>
    BY <1>9 DEF FallbackRewrite, ToRewrite
  <2>2. mon[o].pc = "rewrite"
    BY <1>9 DEF FallbackRewrite
  <2> DEFINE P == [mon[o].plan EXCEPT ![p] = NoRow]
  <2>3. mon[o].plan \in [Orders -> Row] /\ \A q \in Orders : RowAdds(mon[o].plan[q])
    BY <1>0 DEF RowsAddUp, TypeOK, MonState
  <2>4. P \in [Orders -> Row] /\ \A q \in Orders : RowAdds(P[q])
    BY <1>4, <2>3 DEF NoPlan
  <2>5. mon' = [mon EXCEPT ![o] = Prepared(o, "rewrite", P)]
    BY <1>0, <2>1, <2>2, <2>3 DEF Prepared, TypeOK, MonState
  <2>6. rows' \in [Orders -> Row] /\ \A q \in Orders : RowAdds(rows'[q])
    BY <1>2, <2>1, <2>3
  <2> HIDE DEF P
  <2>7. QED BY <1>3, <1>5, <2>1, <2>4, <2>5, <2>6
<1>10. CASE FallbackRewritten(o)
  <2>1. /\ mon' = [mon EXCEPT ![o] = Prepared(o, "trade", NoPlan)]
        /\ UNCHANGED <<ex, wallet, sw, cache, rows, trades>>
    BY <1>10 DEF FallbackRewritten
  <2>2. QED BY <1>2, <1>3, <1>4, <1>5, <2>1
<1>11. CASE FallbackTrade(o)
  <2>1. /\ mon' = [mon EXCEPT ![o] = Booked(o)]
        /\ UNCHANGED <<ex, wallet, sw, cache, rows>>
        /\ trades' = trades \/ trades' = [trades EXCEPT ![o] = TradeOf(o)]
    BY <1>11 DEF FallbackTrade
  <2>2. QED BY <1>1, <1>2, <2>1, FinishedStep
<1>12. QED BY <1>6, <1>7, <1>8, <1>9, <1>10, <1>11 DEF Fallback

\* The balance is refreshed after a completed order.
LEMMA RefreshStep ==
  ASSUME IndInv, NEW o \in Orders, RefreshBalance(o)
  PROVE  IndInv'
<1>0. TypeOK /\ RowsAddUp /\ TradesAgree
  BY DEF IndInv
<1>1. /\ mon[o].pc = "after" /\ mon' = [mon EXCEPT ![o] = Asleep("done")]
      /\ UNCHANGED <<ex, wallet, sw, rows, trades>>
      /\ cache' \in {[st |-> "fresh", amt |-> wallet], Invalidated}
  BY DEF RefreshBalance
<1>2. cache' \in [st : {"none", "fresh", "stale"}, amt : Nat]
  BY <1>0, <1>1 DEF TypeOK, Invalidated
<1>3. /\ Asleep("done") \in MonState /\ Asleep("done").pc = "done"
      /\ \A p \in Orders : RowAdds(Asleep("done").plan[p])
  <2>1. Asleep("done").pc = "done"
    BY DEF Asleep
  <2>2. QED BY <2>1, AsleepFits DEF MonPcs
<1>4. /\ trades[o] \in [st : OrderStates, side : Sides, size : Sizes]
      /\ trades' = [trades EXCEPT ![o] = trades[o]]
      /\ rows' \in [Orders -> Row] /\ \A p \in Orders : RowAdds(rows'[p])
  BY <1>0, <1>1, MonitorFields
<1>5. trades[o].st \in Terminal =>
        /\ ex[o].st = trades[o].st /\ ex[o].side = trades[o].side
        /\ ex[o].filled > 0 => trades[o].size = ex[o].filled
  BY <1>0 DEF TradesAgree
<1>6. Moves(o, Asleep("done"), trades[o])
  BY <1>1, <1>2, <1>3, <1>4, <1>5 DEF Moves, Saving
<1>7. QED BY <1>6, MonitorFrame

\* The process stops: monitors that were at work end, nothing is written.
LEMMA CrashStep == ASSUME IndInv, Crash PROVE IndInv'
<1>0. /\ TypeOK /\ RowsAddUp /\ TradesAgree /\ OrdersInRange
      /\ CopiesAgree /\ NotBookedYet
  BY DEF IndInv
<1>1. /\ sw' = Idle /\ cache' = Invalidated
      /\ mon' = [o \in Orders |-> IF mon[o].pc \in Busy THEN Asleep("done") ELSE mon[o]]
      /\ UNCHANGED <<ex, wallet, rows, trades>>
  BY DEF Crash
<1>2. /\ Asleep("done") \in MonState /\ Asleep("done").pc = "done"
      /\ \A p \in Orders : RowAdds(Asleep("done").plan[p])
  <2>1. Asleep("done").pc = "done"
    BY DEF Asleep
  <2>2. QED BY <2>1, AsleepFits DEF MonPcs
<1>3. \A o \in Orders :
        /\ mon'[o] \in MonState
        /\ \A p \in Orders : RowAdds(mon'[o].plan[p])
        /\ mon'[o].pc \in {"none", "done"}
        /\ mon'[o].pc # "none" => mon[o].pc # "none"
  BY <1>0, <1>1, <1>2 DEF TypeOK, MonState, MonPcs, RowsAddUp, Busy
<1>4. mon' \in [Orders -> MonState]
  BY <1>1, <1>3
<1>5. TypeOK' /\ WorkerInRange'
  BY <1>0, <1>1, <1>4, TradeAssumption
  DEF TypeOK, WorkerInRange, Idle, Working, Sides, Invalidated
<1>6. RowsAddUp'
  BY <1>0, <1>1, <1>3 DEF RowsAddUp
<1>7. TradesAgree' /\ OrdersInRange'
  BY <1>0, <1>1 DEF TradesAgree, OrdersInRange
<1>8. CopiesAgree'
  BY <1>0, <1>1, <1>3 DEF CopiesAgree, Saving
<1>9. NotBookedYet'
  BY <1>0, <1>1, <1>3 DEF NotBookedYet, Saving
<1>10. QED BY <1>5, <1>6, <1>7, <1>8, <1>9 DEF IndInv

\* Every step of the program, and every step that changes nothing here, takes
\* states that satisfy IndInv to states that satisfy it.
LEMMA NextPreserves == IndInv /\ [Next]_vars => IndInv'
<1> SUFFICES ASSUME IndInv, [Next]_vars PROVE IndInv'
  OBVIOUS
<1>1. CASE Worker
  BY <1>1, WorkerStep, GhostStep, PlaceStep DEF Worker
<1>2. CASE Exchange
  BY <1>2, BystanderStep, ExchangeStep DEF Exchange
<1>3. CASE CacheAges \/ ReadBalance
  BY <1>3, BystanderStep
<1>4. CASE Crash
  BY <1>4, CrashStep
<1>5. ASSUME NEW o \in Orders, Monitor(o) PROVE IndInv'
  BY <1>5, LookStep, SaveStep, FallbackStep, RefreshStep DEF Monitor, Failure
<1>6. CASE UNCHANGED vars
  <2>1. UNCHANGED <<ex, wallet, sw, mon, cache, rows, trades>>
    BY <1>6 DEF vars
  <2>2. TradesAgree' /\ OrdersInRange' /\ CopiesAgree' /\ NotBookedYet'
    BY <2>1, BooksUnchanged DEF Books
  <2>3. QED BY <2>1, <2>2 DEF IndInv, TypeOK, RowsAddUp, WorkerInRange
<1>7. QED BY <1>1, <1>2, <1>3, <1>4, <1>5, <1>6 DEF Next

\* A trade that is saved is never overwritten: only a monitor that has not yet
\* booked its order writes one, and a monitor never goes back to that.
LEMMA TradesStay ==
  IndInv /\ [Next]_vars =>
    [\A o \in Orders : trades[o] # NoTrade => trades'[o] = trades[o]]_vars
<1> SUFFICES ASSUME IndInv, [Next]_vars, NEW o \in Orders, trades[o] # NoTrade
             PROVE  trades'[o] = trades[o]
  OBVIOUS
<1>0. TypeOK /\ NotBookedYet
  BY DEF IndInv
<1>1. CASE UNCHANGED trades
  BY <1>1
<1>2. ASSUME NEW p \in Orders, mon[p].pc \in Saving, NEW t,
             trades' = [trades EXCEPT ![p] = t]
      PROVE  trades'[o] = trades[o]
  <2>1. p # o
    BY <1>0, <1>2 DEF NotBookedYet
  <2>2. QED BY <1>0, <1>2, <2>1 DEF TypeOK
<1>3. ASSUME NEW p \in Orders, Monitor(p)
      PROVE  \/ UNCHANGED trades
             \/ /\ mon[p].pc \in Saving
                /\ trades' = [trades EXCEPT ![p] = TradeOf(p)]
  BY <1>3
  DEF Monitor, Poll, TimeOut, Save, SaveBuy, PrepareSell, CommitSell, Failure,
      PrepareFails, TransactionFails, Fallback, FallbackBuy, FallbackPrepareSell,
      FallbackRewrite, FallbackRewritten, FallbackTrade, RefreshBalance, Saving
<1>4. ASSUME NEW p \in Orders, Monitor(p) PROVE trades'[o] = trades[o]
  BY <1>1, <1>2, <1>3, <1>4
<1>5. CASE ~\E p \in Orders : Monitor(p)
  <2>1. UNCHANGED trades
    BY <1>5
    DEF Next, vars, Worker, TakeBuySignal, TakeSellSignal, ReadHoldings, SizeSell,
        CloseGhostPositions, CheckBalance, OrderRefused, RequestLost, PlaceOrder,
        ReplyLost, Exchange, Transfer, Execute, Kill, CacheAges, ReadBalance, Crash
  <2>2. QED BY <1>1, <2>1
<1>6. QED BY <1>4, <1>5

-----------------------------------------------------------------------------
\* IndInv holds in every reachable state.
THEOREM AlwaysIndInv == Spec => []IndInv
<1>1. QED BY InitEstablishes, NextPreserves, PTL DEF Spec

\* No order, monitor, cache or row ever leaves its type.
THEOREM TypeCorrect == Spec => []TypeOK
<1>1. IndInv => TypeOK
  BY DEF IndInv
<1>2. QED BY <1>1, AlwaysIndInv, PTL

\* Used and remaining units make up every position's size, in the table and in
\* the copies of SELLs under way, whatever interleaving of SELLs writes them.
THEOREM RowsAlwaysAddUp == Spec => []RowsAddUp
<1>1. IndInv => RowsAddUp
  BY DEF IndInv
<1>2. QED BY <1>1, AlwaysIndInv, PTL

\* A trade with a final status says what the exchange executed.
THEOREM TradesAlwaysAgree == Spec => []TradesAgree
<1>1. IndInv => TradesAgree
  BY DEF IndInv
<1>2. QED BY <1>1, AlwaysIndInv, PTL

\* An order is booked at most once, through any failure, time-out and fallback.
THEOREM OrdersBookedForGood == Spec => BookedForGood
<1>1. QED BY AlwaysIndInv, TradesStay, PTL DEF Spec, BookedForGood

-----------------------------------------------------------------------------
(* One order under way at a time: positions are only used up, whatever     *)
(* fails.  (With two, the run double_match shows that they are not.)       *)

\* The row r may become s.
AgesTo(r, s) == s.used >= r.used /\ s.rem <= r.rem /\ Rank[s.st] >= Rank[r.st]

RowsAge == \A o \in Orders : rows[o] # NoRow => AgesTo(rows[o], rows'[o])

\* The monitor is not past the write of its order's row.
Unbooked == {"watch", "save", "commit", "fallback", "rewrite"}

\* What a SELL is about to write over a row is a later state of it.
PlansAge ==
  \A o, p \in Orders :
    mon[o].pc \in {"commit", "rewrite"} /\ mon[o].plan[p] # NoRow =>
      rows[p] # NoRow /\ AgesTo(rows[p], mon[o].plan[p])

\* An order that is not booked has no row.
NoRowYet == \A o \in Orders : ex[o].st = "none" \/ mon[o].pc \in Unbooked => rows[o] = NoRow

SerialInv ==
  /\ \A o, p \in InFlight : o = p
  /\ sw.pc # "idle" => InFlight = {}
  /\ PlansAge /\ NoRowYet

\* A row may stay as it is.
LEMMA AgesToItself == ASSUME NEW r \in Row PROVE AgesTo(r, r)
BY BookAssumption DEF Row, RowStatuses, Sizes, AgesTo, Rank

\* The plan of a SELL uses up the rows that it was made from.
LEMMA PlanAges ==
  ASSUME NEW R \in [Orders -> Row], NEW f, NEW m \in FifoMatches(R, f), NEW p \in Orders,
         MatchedRows(R, m)[p] # NoRow
  PROVE  R[p] # NoRow /\ AgesTo(R[p], MatchedRows(R, m)[p])
<1>1. m[p] \in Sizes /\ m[p] <= R[p].rem /\ R[p] \in Row
  BY MatchFits
<1>2. m[p] > 0 /\ MatchedRows(R, m)[p] = Consume(R[p], m[p])
  BY DEF MatchedRows
<1>3. IsOpen(R[p])
  <2>1. m[p] <= (IF p \in OpenPositions(R) THEN R[p].rem ELSE 0)
    BY DEF FifoMatches
  <2>2. p \in OpenPositions(R)
    BY <1>1, <1>2, <2>1, BookAssumption DEF Sizes
  <2>3. QED BY <2>2 DEF OpenPositions
<1>4. R[p] # NoRow
  BY <1>3 DEF IsOpen, NoRow
<1>5. /\ R[p].used \in Nat /\ R[p].rem \in Nat /\ m[p] \in Nat
      /\ R[p].st \in {"OPEN", "PARTIAL"}
  BY <1>1, <1>3, BookAssumption DEF Row, Sizes, IsOpen
<1>6. UpdateStatus(R[p].used + m[p], R[p].rem - m[p]) \in {"PARTIAL", "CLOSED"}
  BY <1>2, <1>5 DEF UpdateStatus
<1>7. AgesTo(R[p], Consume(R[p], m[p]))
  BY <1>2, <1>5, <1>6 DEF AgesTo, Consume, Rank
<1>8. QED BY <1>2, <1>4, <1>7

\* With a limit of one, a signal is taken only when no order is under way.
LEMMA NoneInFlight ==
  ASSUME MaxInFlight = 1, Cardinality(InFlight) < MaxInFlight
  PROVE  InFlight = {}
<1>1. IsFiniteSet(Orders)
  BY FS_Interval, BookAssumption DEF Orders
<1>2. IsFiniteSet(InFlight)
  BY <1>1, FS_Subset DEF InFlight
<1>3. Cardinality(InFlight) \in Nat
  BY <1>2, FS_CardinalityType
<1>4. Cardinality(InFlight) = 0
  BY <1>3
<1>5. QED BY <1>2, <1>4, FS_EmptySet

\* No order is under way at the start.
LEMMA SerialInit == Init => SerialInv
<1> SUFFICES ASSUME Init PROVE SerialInv
  OBVIOUS
<1>1. \A o \in Orders : mon[o].pc = "none" /\ (ex[o].st = "none" => rows[o] = NoRow)
  BY DEF Init, Asleep
<1>2. InFlight = {}
  BY <1>1 DEF InFlight, Busy
<1>3. QED BY <1>1, <1>2 DEF SerialInv, PlansAge, NoRowYet, Unbooked, Idle, Working

\* Steps that write no row and move no monitor.
LEMMA SerialQuiet ==
  ASSUME IndInv, SerialInv, UNCHANGED <<mon, rows>>,
         \A o \in Orders : ex'[o].st = "none" => ex[o].st = "none",
         sw'.pc # "idle" => InFlight = {}
  PROVE  SerialInv' /\ RowsAge
<1>1. InFlight' = InFlight
  BY DEF InFlight
<1>2. SerialInv'
  BY <1>1 DEF SerialInv, PlansAge, NoRowYet
<1>3. RowsAge
  BY AgesToItself DEF RowsAge, IndInv, TypeOK
<1>4. QED BY <1>2, <1>3

\* A step of the signal worker keeps one order under way, and the older rows.
LEMMA SerialWorker ==
  ASSUME MaxInFlight = 1, IndInv, SerialInv, Worker
  PROVE  SerialInv' /\ RowsAge
<1>0. TypeOK
  BY DEF IndInv
<1>1. CASE TakeBuySignal \/ TakeSellSignal
  <2>1. UNCHANGED <<ex, mon, rows>> /\ Cardinality(InFlight) < MaxInFlight
    BY <1>1 DEF TakeBuySignal, TakeSellSignal
  <2>2. InFlight = {}
    BY <2>1, NoneInFlight
  <2>3. QED BY <2>1, <2>2, SerialQuiet
<1>2. CASE ReadHoldings \/ SizeSell \/ CheckBalance \/ OrderRefused \/ RequestLost
  <2>1. UNCHANGED <<ex, mon, rows>> /\ sw.pc # "idle"
    BY <1>2 DEF ReadHoldings, SizeSell, CheckBalance, OrderRefused, RequestLost
  <2>2. InFlight = {}
    BY <2>1 DEF SerialInv
  <2>3. QED BY <2>1, <2>2, SerialQuiet
<1>3. CASE CloseGhostPositions
  <2>1. /\ InFlight = {} /\ sw'.pc = "idle" /\ UNCHANGED <<ex, mon>>
        /\ rows' = CloseAll(rows) \/ rows' = rows
    BY <1>3 DEF CloseGhostPositions, SerialInv, Idle, Working
  <2>2. CASE rows' = rows
    BY <2>1, <2>2, SerialQuiet
  <2>3. CASE rows' = CloseAll(rows)
    <3>1. \A o \in Orders : rows[o] = NoRow => rows'[o] = NoRow
      BY <2>3 DEF CloseAll, IsOpen, NoRow
    <3>2. \A o \in Orders : mon[o].pc \notin {"commit", "rewrite"}
      BY <2>1 DEF InFlight, Busy
    <3>3. InFlight' = {}
      BY <2>1 DEF InFlight
    <3>4. SerialInv'
      BY <2>1, <3>1, <3>2, <3>3 DEF SerialInv, PlansAge, NoRowYet
    <3>5. ASSUME NEW o \in Orders PROVE AgesTo(rows[o], rows'[o])
      <4>1. rows[o] \in Row
        BY <1>0 DEF TypeOK
      <4>2. rows'[o] = IF IsOpen(rows[o]) THEN [rows[o] EXCEPT !.st = "CLOSED"] ELSE rows[o]
        BY <2>3 DEF CloseAll
      <4>3. CASE IsOpen(rows[o])
        BY <4>1, <4>2, <4>3, BookAssumption DEF Row, Sizes, IsOpen, AgesTo, Rank
      <4>4. CASE ~IsOpen(rows[o])
        BY <4>1, <4>2, <4>4, AgesToItself
      <4>5. QED BY <4>3, <4>4
    <3>6. QED BY <3>4, <3>5 DEF RowsAge
  <2>4. QED BY <2>1, <2>2, <2>3
<1>4. ASSUME NEW o \in Orders, PlaceOrder(o)
      PROVE  SerialInv' /\ RowsAge
  <2>1. /\ sw.pc = "send" /\ ex[o].st = "none" /\ sw'.pc = "idle"
        /\ ex' = [ex EXCEPT ![o] = Request] /\ mon' = [mon EXCEPT ![o] = Result]
        /\ UNCHANGED rows
    BY <1>4 DEF PlaceOrder, Accept, FreeOrders, Placed, Idle, Working
  <2>2. InFlight = {} /\ rows[o] = NoRow
    BY <2>1 DEF SerialInv, NoRowYet
  <2>3. /\ mon'[o].pc = "watch" /\ \A p \in Orders \ {o} : mon'[p] = mon[p]
        /\ ex'[o].st = "ACTIVE" /\ \A p \in Orders \ {o} : ex'[p] = ex[p]
    BY <1>0, <2>1 DEF TypeOK, Result, Asleep, Request
  <2>4. InFlight' = {o}
    BY <2>2, <2>3 DEF InFlight, Busy
  <2>5. PlansAge'
    BY <2>1, <2>2, <2>3 DEF PlansAge, InFlight, Busy
  <2>6. NoRowYet'
    BY <2>1, <2>2, <2>3 DEF SerialInv, NoRowYet
  <2>7. RowsAge
    BY <1>0, <2>1, AgesToItself DEF RowsAge, TypeOK
  <2>8. QED BY <2>1, <2>4, <2>5, <2>6, <2>7 DEF SerialInv
<1>5. ASSUME NEW o \in Orders, ReplyLost(o)
      PROVE  SerialInv' /\ RowsAge
  <2>1. sw.pc = "send" /\ ex' = [ex EXCEPT ![o] = Request] /\ UNCHANGED <<mon, rows>>
    BY <1>5 DEF ReplyLost, Accept
  <2>2. InFlight = {}
    BY <2>1 DEF SerialInv
  <2>3. \A p \in Orders : ex'[p].st = "none" => ex[p].st = "none"
    BY <1>0, <2>1 DEF TypeOK, Request
  <2>4. QED BY <2>1, <2>2, <2>3, SerialQuiet
<1>6. QED BY <1>1, <1>2, <1>3, <1>4, <1>5 DEF Worker

\* The one monitor at work goes to x, and may write rows that have a state before.
LEMMA SerialMove ==
  ASSUME IndInv, SerialInv, NEW o \in Orders, mon[o].pc \in Busy, NEW x,
         mon' = [mon EXCEPT ![o] = x], UNCHANGED <<ex, sw>>,
         \A p \in Orders \ {o} : rows[p] = NoRow => rows'[p] = NoRow,
         x.pc \in Unbooked => rows'[o] = NoRow,
         x.pc \in {"commit", "rewrite"} =>
           \A p \in Orders : x.plan[p] # NoRow =>
             rows'[p] # NoRow /\ AgesTo(rows'[p], x.plan[p])
  PROVE  SerialInv'
<1>1. TypeOK /\ ex[o].st # "none"
  BY DEF IndInv, CopiesAgree, Busy
<1>2. mon'[o] = x /\ \A p \in Orders \ {o} : mon'[p] = mon[p]
  BY <1>1 DEF TypeOK
<1>3. InFlight \subseteq {o}
  BY DEF SerialInv, InFlight
<1>4. \A p \in Orders \ {o} : mon[p].pc \notin Busy
  BY <1>3 DEF InFlight
<1>5. InFlight' \subseteq {o}
  BY <1>2, <1>4 DEF InFlight
<1>6. sw'.pc = "idle"
  BY DEF SerialInv, InFlight
<1>7. PlansAge'
  BY <1>2, <1>4 DEF PlansAge, Busy
<1>8. NoRowYet'
  BY <1>1, <1>2 DEF SerialInv, NoRowYet
<1>9. QED BY <1>5, <1>6, <1>7, <1>8 DEF SerialInv

\* Steps of a monitor that write no row.
LEMMA SerialLook ==
  ASSUME IndInv, SerialInv, NEW o \in Orders,
         Poll(o) \/ TimeOut(o) \/ PrepareSell(o) \/ PrepareFails(o) \/ TransactionFails(o)
           \/ FallbackPrepareSell(o) \/ FallbackRewritten(o) \/ FallbackTrade(o)
           \/ RefreshBalance(o)
  PROVE  SerialInv' /\ RowsAge
<1>0. TypeOK /\ rows \in [Orders -> Row]
  BY DEF IndInv, TypeOK
<1>1. UNCHANGED <<ex, sw, rows>> /\ mon[o].pc \in Busy
  BY DEF Poll, TimeOut, PrepareSell, PrepareFails, TransactionFails, FallbackPrepareSell,
         FallbackRewritten, FallbackTrade, RefreshBalance, Busy
<1>2. RowsAge
  BY <1>0, <1>1, AgesToItself DEF RowsAge
<1>3. mon[o].pc \in Unbooked => rows[o] = NoRow
  BY DEF SerialInv, NoRowYet
<1>4. ASSUME NEW x, mon' = [mon EXCEPT ![o] = x],
             x.pc \in {"watch", "save", "fallback", "trade", "after", "done"},
             x.pc \in Unbooked => mon[o].pc \in Unbooked
      PROVE  SerialInv'
  BY <1>1, <1>3, <1>4, SerialMove
<1>5. ASSUME NEW pc \in {"commit", "rewrite"}, NEW m \in FifoMatches(rows, mon[o].filled),
             mon' = [mon EXCEPT ![o] = Prepared(o, pc, MatchedRows(rows, m))],
             mon[o].pc \in Unbooked
      PROVE  SerialInv'
  <2> DEFINE x == Prepared(o, pc, MatchedRows(rows, m))
  <2>1. x.pc = pc /\ x.plan = MatchedRows(rows, m)
    BY <1>0 DEF Prepared, TypeOK, MonState
  <2>2. mon' = [mon EXCEPT ![o] = x]
    BY <1>5
  <2> HIDE DEF x
  <2>3. \A p \in Orders : x.plan[p] # NoRow => rows[p] # NoRow /\ AgesTo(rows[p], x.plan[p])
    BY <1>0, <2>1, PlanAges
  <2>4. QED BY <1>1, <1>3, <1>5, <2>1, <2>2, <2>3, SerialMove
<1>6. /\ Booked(o).pc \in {"after", "done"} /\ Asleep("done").pc = "done"
      /\ \A pc : Prepared(o, pc, NoPlan).pc = pc
      /\ \A pc, last : Seen(o, pc, last).pc = pc
      /\ [mon[o] EXCEPT !.pc = "save", !.last = TRUE].pc = "save"
  BY <1>0 DEF Booked, Asleep, Prepared, Seen, TypeOK, MonState
<1>7. CASE Poll(o)
  <2>1. PICK pc \in {"save", "watch"} : mon' = [mon EXCEPT ![o] = Seen(o, pc, FALSE)]
    BY <1>7 DEF Poll
  <2>2. mon[o].pc \in Unbooked
    BY <1>7 DEF Poll, Unbooked
  <2>3. QED BY <1>2, <1>4, <1>6, <2>1, <2>2
<1>8. CASE TimeOut(o)
  <2>1. mon[o].pc \in Unbooked
    BY <1>8 DEF TimeOut, Unbooked
  <2>2. \/ mon' = [mon EXCEPT ![o] = Seen(o, "save", TRUE)]
        \/ mon' = [mon EXCEPT ![o] = [mon[o] EXCEPT !.pc = "save", !.last = TRUE]]
        \/ mon' = [mon EXCEPT ![o] = Asleep("done")]
    BY <1>8 DEF TimeOut
  <2>3. QED BY <1>2, <1>4, <1>6, <2>1, <2>2
<1>9. CASE PrepareSell(o)
  BY <1>2, <1>5, <1>9 DEF PrepareSell, Unbooked
<1>10. CASE PrepareFails(o) \/ FallbackTrade(o)
  <2>1. mon' = [mon EXCEPT ![o] = Booked(o)]
    BY <1>10 DEF PrepareFails, FallbackTrade
  <2>2. Booked(o).pc \notin Unbooked
    BY <1>6 DEF Unbooked
  <2>3. QED BY <1>2, <1>4, <1>6, <2>1, <2>2
<1>11. CASE TransactionFails(o)
  <2>1. mon' = [mon EXCEPT ![o] = Prepared(o, "fallback", NoPlan)] /\ mon[o].pc \in Unbooked
    BY <1>11 DEF TransactionFails, Unbooked
  <2>2. QED BY <1>2, <1>4, <1>6, <2>1
<1>12. CASE FallbackPrepareSell(o)
  <2>1. mon[o].pc \in Unbooked
    BY <1>12 DEF FallbackPrepareSell, Unbooked
  <2>2. \/ \E m \in FifoMatches(rows, mon[o].filled) :
             mon' = [mon EXCEPT ![o] = Prepared(o, "rewrite", MatchedRows(rows, m))]
        \/ mon' = [mon EXCEPT ![o] = Prepared(o, "trade", NoPlan)]
    BY <1>12 DEF FallbackPrepareSell
  <2>3. QED BY <1>2, <1>4, <1>5, <1>6, <2>1, <2>2
<1>13. CASE RefreshBalance(o)
  <2>1. mon' = [mon EXCEPT ![o] = Asleep("done")] /\ Asleep("done").pc \notin Unbooked
    BY <1>6, <1>13 DEF RefreshBalance, Unbooked
  <2>2. QED BY <1>2, <1>4, <1>6, <2>1
<1>14. CASE FallbackRewritten(o)
  <2>1. mon[o].pc \in Unbooked
    BY <1>14 DEF FallbackRewritten, Unbooked
  <2>2. mon' = [mon EXCEPT ![o] = Prepared(o, "trade", NoPlan)]
    BY <1>14 DEF FallbackRewritten
  <2>3. QED BY <1>2, <1>4, <1>6, <2>1, <2>2
<1>15. QED BY <1>7, <1>8, <1>9, <1>10, <1>11, <1>12, <1>13, <1>14

\* Steps of a monitor that book an order: the row of a BUY is new, and those of a
\* SELL were planned from the rows that are still there.
LEMMA SerialWrite ==
  ASSUME IndInv, SerialInv, NEW o \in Orders,
         SaveBuy(o) \/ CommitSell(o) \/ FallbackBuy(o)
  PROVE  SerialInv' /\ RowsAge
<1>0. TypeOK /\ rows \in [Orders -> Row]
  BY DEF IndInv, TypeOK
<1>1. UNCHANGED <<ex, sw>> /\ mon[o].pc \in Busy /\ mon[o].pc \in Unbooked
  BY DEF SaveBuy, CommitSell, FallbackBuy, Busy, Unbooked
<1>2. rows[o] = NoRow
  BY <1>1 DEF SerialInv, NoRowYet
<1>3. /\ Booked(o).pc \notin Unbooked
      /\ Prepared(o, "trade", NoPlan).pc \notin Unbooked
  BY <1>0 DEF Booked, Asleep, Prepared, TypeOK, MonState, Unbooked
<1>4. PICK x \in {Booked(o), Prepared(o, "trade", NoPlan)} : mon' = [mon EXCEPT ![o] = x]
  BY DEF SaveBuy, CommitSell, FallbackBuy
<1>5. x.pc \notin Unbooked /\ x.pc \notin {"commit", "rewrite"}
  BY <1>3 DEF Unbooked
<1>6. CASE SaveBuy(o) \/ FallbackBuy(o)
  <2>1. \A p \in Orders \ {o} : rows'[p] = rows[p]
    BY <1>0, <1>6 DEF SaveBuy, FallbackBuy
  <2>2. SerialInv'
    BY <1>1, <1>4, <1>5, <2>1, SerialMove
  <2>3. RowsAge
    BY <1>0, <1>2, <2>1, AgesToItself DEF RowsAge
  <2>4. QED BY <2>2, <2>3
<1>7. CASE CommitSell(o)
  <2>1. rows' = Written(mon[o].plan) /\ mon[o].pc = "commit"
    BY <1>7 DEF CommitSell
  <2>2. \A p \in Orders : mon[o].plan[p] # NoRow =>
          rows[p] # NoRow /\ AgesTo(rows[p], mon[o].plan[p])
    BY <2>1 DEF SerialInv, PlansAge
  <2>3. \A p \in Orders : rows[p] = NoRow => rows'[p] = NoRow
    BY <2>1, <2>2 DEF Written
  <2>4. SerialInv'
    BY <1>1, <1>4, <1>5, <2>3, SerialMove
  <2>5. \A p \in Orders : AgesTo(rows[p], rows'[p])
    BY <1>0, <2>1, <2>2, AgesToItself DEF Written
  <2>6. QED BY <2>4, <2>5 DEF RowsAge
<1>8. QED BY <1>6, <1>7

\* A write of the fallback takes one row of the plan; the others are still later
\* states of theirs.
LEMMA SerialRewrite ==
  ASSUME IndInv, SerialInv, NEW o \in Orders, FallbackRewrite(o)
  PROVE  SerialInv' /\ RowsAge
<1>0. TypeOK /\ rows \in [Orders -> Row] /\ mon \in [Orders -> MonState]
  BY DEF IndInv, TypeOK
<1>1. PICK p \in Orders :
        /\ mon[o].plan[p] # NoRow
        /\ rows' \in {rows, [rows EXCEPT ![p] = mon[o].plan[p]]}
        /\ mon' = [mon EXCEPT ![o].plan[p] = NoRow]
  BY DEF FallbackRewrite, ToRewrite
<1>2. UNCHANGED <<ex, sw>> /\ mon[o].pc = "rewrite"
  BY DEF FallbackRewrite
<1>3. mon[o].pc \in Busy /\ mon[o].pc \in Unbooked
  BY <1>2 DEF Busy, Unbooked
<1>4. rows[o] = NoRow
  BY <1>3 DEF SerialInv, NoRowYet
<1>5. \A q \in Orders : mon[o].plan[q] # NoRow =>
        rows[q] # NoRow /\ AgesTo(rows[q], mon[o].plan[q])
  BY <1>2 DEF SerialInv, PlansAge
<1>6. \A q \in Orders : rows'[q] = rows[q] \/ (q = p /\ rows'[q] = mon[o].plan[q])
  <2>1. CASE rows' = rows
    BY <2>1
  <2>2. CASE rows' = [rows EXCEPT ![p] = mon[o].plan[p]]
    BY <1>0, <2>2
  <2>3. QED BY <1>1, <2>1, <2>2
<1>7. \A q \in Orders : rows[q] = NoRow => rows'[q] = NoRow
  BY <1>1, <1>5, <1>6
<1>8. \A q \in Orders : AgesTo(rows[q], rows'[q])
  BY <1>0, <1>5, <1>6, <1>1, AgesToItself
<1> DEFINE x == [mon[o] EXCEPT !.plan = [mon[o].plan EXCEPT ![p] = NoRow]]
<1>9. mon[o].plan \in [Orders -> Row]
  BY <1>0 DEF MonState
<1>10. mon' = [mon EXCEPT ![o] = x] /\ x.pc = "rewrite"
  BY <1>0, <1>1, <1>2 DEF MonState
<1>11. \A q \in Orders : x.plan[q] # NoRow => q # p /\ x.plan[q] = mon[o].plan[q]
  BY <1>0, <1>9 DEF MonState
<1> HIDE DEF x
<1>12. \A q \in Orders : x.plan[q] # NoRow => rows'[q] # NoRow /\ AgesTo(rows'[q], x.plan[q])
  BY <1>5, <1>6, <1>11
<1>13. SerialInv'
  BY <1>2, <1>3, <1>4, <1>7, <1>10, <1>12, SerialMove
<1>14. QED BY <1>8, <1>13 DEF RowsAge

\* Every step does.
LEMMA SerialNext ==
  ASSUME MaxInFlight = 1, IndInv, SerialInv, [Next]_vars
  PROVE  SerialInv' /\ RowsAge
<1>0. TypeOK
  BY DEF IndInv
<1>1. CASE Worker
  BY <1>1, SerialWorker
<1>2. CASE Exchange \/ CacheAges \/ ReadBalance \/ UNCHANGED vars
  <2>1. UNCHANGED <<mon, rows, sw>>
    BY <1>2 DEF Exchange, Transfer, Execute, Kill, CacheAges, ReadBalance, vars
  <2>2. \A p \in Orders : ex'[p].st = "none" => ex[p].st = "none"
    BY <1>0, <1>2 DEF Exchange, Transfer, Execute, Kill, CacheAges, ReadBalance, vars, TypeOK
  <2>3. QED BY <2>1, <2>2, SerialQuiet DEF SerialInv
<1>3. CASE Crash
  <2>1. /\ sw'.pc = "idle" /\ UNCHANGED <<ex, rows>>
        /\ mon' = [o \in Orders |-> IF mon[o].pc \in Busy THEN Asleep("done") ELSE mon[o]]
    BY <1>3 DEF Crash, Idle, Working
  <2>2. \A o \in Orders : mon'[o].pc \notin Busy
    BY <2>1 DEF Asleep, Busy
  <2>3. InFlight' = {}
    BY <2>2 DEF InFlight
  <2>4. PlansAge' /\ NoRowYet'
    BY <2>1, <2>2 DEF SerialInv, PlansAge, NoRowYet, Busy, Unbooked
  <2>5. RowsAge
    BY <1>0, <2>1, AgesToItself DEF RowsAge, TypeOK
  <2>6. QED BY <2>1, <2>3, <2>4, <2>5 DEF SerialInv
<1>4. ASSUME NEW o \in Orders, Monitor(o) PROVE SerialInv' /\ RowsAge
  BY <1>4, SerialLook, SerialWrite, SerialRewrite DEF Monitor, Save, Failure, Fallback
<1>5. QED BY <1>1, <1>2, <1>3, <1>4 DEF Next

\* With one order under way at a time a position is only ever used up, whatever fails:
\* no fallback, repetition, closing of ghost positions or restart brings units back.
THEOREM RowsAgeSerially ==
  ASSUME MaxInFlight = 1
  PROVE  Spec => RowsOnlyAge
<1>1. Init => SerialInv
  BY SerialInit
<1>2. IndInv /\ SerialInv /\ [Next]_vars => SerialInv'
  BY SerialNext
<1>3. IndInv /\ SerialInv /\ [Next]_vars =>
        [\A o \in Orders :
           rows[o] # NoRow =>
             /\ rows'[o].used >= rows[o].used
             /\ rows'[o].rem <= rows[o].rem
             /\ Rank[rows'[o].st] >= Rank[rows[o].st]]_vars
  BY SerialNext DEF RowsAge, AgesTo
<1>4. QED BY <1>1, <1>2, <1>3, AlwaysIndInv, PTL DEF Spec, RowsOnlyAge

-----------------------------------------------------------------------------
(* One order under way at a time, and a database that answers: the limit   *)
(* on open positions holds from the signal that is checked against it      *)
(* until its position is booked.                                           *)

OpenNow == OpenPositions(rows)

\* There is room for the position of a BUY that is not booked yet, with the worker or
\* with its monitor; a SELL is about to write open positions only.
LimitInv ==
  /\ Cardinality(OpenNow) <= PositionLimit
  /\ sw.pc \in {"order", "send"} /\ sw.side = "BUY" => Cardinality(OpenNow) < PositionLimit
  /\ \A o \in Orders :
       mon[o].pc \in Unbooked /\ ex[o].side = "BUY" => Cardinality(OpenNow) < PositionLimit
  /\ \A o, p \in Orders : mon[o].pc = "commit" /\ mon[o].plan[p] # NoRow => p \in OpenNow
  /\ \A o \in Orders : mon[o].pc \notin {"fallback", "rewrite", "trade"}

\* Open positions can be counted.
LEMMA OpenFinite == IsFiniteSet(OpenNow) /\ Cardinality(OpenNow) \in Nat
<1>1. IsFiniteSet(Orders)
  BY FS_Interval, BookAssumption DEF Orders
<1>2. QED BY <1>1, FS_Subset, FS_CardinalityType DEF OpenNow, OpenPositions

\* Positions that stay open are no more than before.
LEMMA NoMoreOpen ==
  ASSUME OpenNow' \subseteq OpenNow
  PROVE  Cardinality(OpenNow') \in Nat /\ Cardinality(OpenNow') <= Cardinality(OpenNow)
BY OpenFinite, FS_Subset, FS_CardinalityType

\* Steps that open no position and move no monitor.
LEMMA LimitQuiet ==
  ASSUME IndInv, LimitInv, PositionLimit > 0, UNCHANGED mon, OpenNow' \subseteq OpenNow,
         \A o \in Orders : mon[o].pc # "none" => ex'[o].side = ex[o].side,
         \A o \in Orders : mon[o].pc = "commit" => UNCHANGED rows,
         sw'.pc \in {"order", "send"} /\ sw'.side = "BUY" =>
           Cardinality(OpenNow) < PositionLimit
  PROVE  LimitInv'
<1>1. /\ Cardinality(OpenNow') \in Nat /\ Cardinality(OpenNow') <= Cardinality(OpenNow)
      /\ Cardinality(OpenNow) \in Nat /\ PositionLimit \in Nat
  BY NoMoreOpen, OpenFinite, TradeAssumption
<1>2. \A o, p \in Orders : mon'[o].pc = "commit" /\ mon'[o].plan[p] # NoRow => p \in OpenNow'
  BY DEF LimitInv, OpenNow
<1>3. \A o \in Orders :
        mon'[o].pc \in Unbooked /\ ex'[o].side = "BUY" => Cardinality(OpenNow') < PositionLimit
  BY <1>1 DEF LimitInv, Unbooked
<1>4. QED BY <1>1, <1>2, <1>3 DEF LimitInv

\* An order of the signal worker respects the limit on open positions.
LEMMA LimitWorker ==
  ASSUME MaxInFlight = 1, "db" \notin Faults, PositionLimit > 0,
         IndInv, SerialInv, LimitInv, Worker
  PROVE  LimitInv'
<1>0. TypeOK
  BY DEF IndInv
<1>1. CASE TakeBuySignal
  <2>1. UNCHANGED <<ex, mon, rows>> /\ BelowPositionLimit
    BY <1>1 DEF TakeBuySignal
  <2>2. Cardinality(OpenNow) < PositionLimit
    BY <2>1, TradeAssumption DEF BelowPositionLimit, OpenNow
  <2>3. QED BY <2>1, <2>2, LimitQuiet DEF OpenNow
<1>2. CASE TakeSellSignal \/ ReadHoldings \/ SizeSell \/ CheckBalance \/ OrderRefused \/ RequestLost
  <2>1. UNCHANGED <<ex, mon, rows>>
    BY <1>2 DEF TakeSellSignal, ReadHoldings, SizeSell, CheckBalance, OrderRefused, RequestLost
  <2>2. sw'.pc \in {"order", "send"} /\ sw'.side = "BUY" =>
          sw.pc \in {"order", "send"} /\ sw.side = "BUY"
    <3>1. CASE TakeSellSignal
      <4>1. PICK q : sw' = Working("holdings", "SELL", q)
        BY <3>1 DEF TakeSellSignal
      <4>2. QED BY <4>1 DEF Working
    <3>2. CASE ReadHoldings
      <4>1. PICK pc \in {"size", "skip"} : \E n : sw' = [sw EXCEPT !.pc = pc, !.avail = n]
        BY <3>2 DEF ReadHoldings
      <4>2. sw'.pc = pc
        BY <1>0, <4>1 DEF TypeOK
      <4>3. QED BY <4>2
    <3>3. CASE SizeSell
      BY <3>3 DEF SizeSell, Working
    <3>4. CASE CheckBalance
      <4>1. sw.pc = "order" /\ (sw' = [sw EXCEPT !.pc = "send"] \/ sw' = Idle)
        BY <3>4 DEF CheckBalance
      <4>2. QED BY <1>0, <4>1 DEF TypeOK, Idle, Working
    <3>5. CASE OrderRefused \/ RequestLost
      BY <1>0, <3>5 DEF TypeOK, OrderRefused, RequestLost, TryAgain, Idle, Working
    <3>6. QED BY <1>2, <3>1, <3>2, <3>3, <3>4, <3>5
  <2>3. QED BY <2>1, <2>2, LimitQuiet DEF OpenNow, LimitInv
<1>3. CASE CloseGhostPositions
  <2>1. /\ sw.pc = "skip" /\ sw'.pc = "idle" /\ UNCHANGED <<ex, mon>>
        /\ rows' = CloseAll(rows) \/ rows' = rows
    BY <1>3 DEF CloseGhostPositions, Idle, Working
  <2>2. OpenNow' \subseteq OpenNow
    BY <1>0, <2>1 DEF OpenNow, OpenPositions, CloseAll, IsOpen, TypeOK, Row
  <2>3. \A o \in Orders : mon[o].pc # "commit"
    BY <2>1 DEF SerialInv, InFlight, Busy
  <2>4. QED BY <2>1, <2>2, <2>3, LimitQuiet
<1>4. ASSUME NEW o \in Orders, PlaceOrder(o) PROVE LimitInv'
  <2>1. /\ sw.pc = "send" /\ sw'.pc = "idle" /\ UNCHANGED rows
        /\ ex' = [ex EXCEPT ![o] = Request] /\ mon' = [mon EXCEPT ![o] = Result]
    BY <1>4 DEF PlaceOrder, Accept, Idle, Working
  <2>2. /\ mon'[o].pc = "watch" /\ \A p \in Orders \ {o} : mon'[p] = mon[p]
        /\ ex'[o].side = sw.side /\ \A p \in Orders \ {o} : ex'[p] = ex[p]
    BY <1>0, <2>1 DEF TypeOK, Result, Asleep, Request
  <2>3. OpenNow' = OpenNow
    BY <2>1 DEF OpenNow
  <2>4. QED BY <2>1, <2>2, <2>3 DEF LimitInv
<1>5. ASSUME NEW o \in Orders, ReplyLost(o) PROVE LimitInv'
  <2>1. /\ sw.pc = "send" /\ ex[o].st = "none" /\ UNCHANGED <<mon, rows>>
        /\ ex' = [ex EXCEPT ![o] = Request] /\ TryAgain
    BY <1>5 DEF ReplyLost, Accept, FreeOrders, Placed
  <2>2. sw'.pc \in {"order", "send"} /\ sw'.side = "BUY" => sw.side = "BUY"
    BY <1>0, <2>1 DEF TryAgain, TypeOK, Idle, Working
  <2>3. mon[o].pc = "none" /\ \A p \in Orders \ {o} : ex'[p] = ex[p]
    BY <1>0, <2>1 DEF IndInv, CopiesAgree, TypeOK
  <2>4. QED BY <2>1, <2>2, <2>3, LimitQuiet DEF LimitInv, OpenNow
<1>6. QED BY <1>1, <1>2, <1>3, <1>4, <1>5 DEF Worker

\* The one monitor at work goes to x.  If it goes on without having booked its order,
\* no position was opened; a BUY it has booked took the room there was for it.
LEMMA LimitMove ==
  ASSUME PositionLimit > 0, IndInv, SerialInv, LimitInv, NEW o \in Orders,
         mon[o].pc \in Busy, NEW x, mon' = [mon EXCEPT ![o] = x], UNCHANGED <<ex, sw>>,
         x.pc \notin {"fallback", "rewrite", "trade"},
         x.pc \in Unbooked => mon[o].pc \in Unbooked /\ UNCHANGED rows,
         x.pc = "commit" => \A p \in Orders : x.plan[p] # NoRow => p \in OpenNow,
         Cardinality(OpenNow') <= PositionLimit
  PROVE  LimitInv'
<1>1. mon'[o] = x /\ \A p \in Orders \ {o} : mon'[p] = mon[p]
  BY DEF IndInv, TypeOK
<1>2. \A p \in Orders \ {o} : mon[p].pc \notin Busy
  BY DEF SerialInv, InFlight
<1>3. sw'.pc = "idle"
  BY DEF SerialInv, InFlight
<1>4. ASSUME NEW p \in Orders, mon'[p].pc \in Unbooked
      PROVE  p = o /\ OpenNow' = OpenNow
  BY <1>1, <1>2, <1>4 DEF Unbooked, Busy, OpenNow
<1>5. \A p \in Orders :
        mon'[p].pc \in Unbooked /\ ex'[p].side = "BUY" => Cardinality(OpenNow') < PositionLimit
  BY <1>1, <1>4 DEF LimitInv
<1>6. \A p, q \in Orders : mon'[p].pc = "commit" /\ mon'[p].plan[q] # NoRow => q \in OpenNow'
  BY <1>1, <1>4 DEF Unbooked
<1>7. \A p \in Orders : mon'[p].pc \notin {"fallback", "rewrite", "trade"}
  BY <1>1 DEF LimitInv
<1>8. QED BY <1>3, <1>5, <1>6, <1>7 DEF LimitInv

\* A monitor opens the position its order was counted for.
LEMMA LimitMonitor ==
  ASSUME PositionLimit > 0, "db" \notin Faults, IndInv, SerialInv, LimitInv,
         NEW o \in Orders, Monitor(o)
  PROVE  LimitInv'
<1>0. TypeOK /\ rows \in [Orders -> Row] /\ mon[o] \in MonState
  BY DEF IndInv, TypeOK
<1>1. mon[o].pc \notin {"fallback", "rewrite", "trade"}
  BY DEF LimitInv
<1>2. /\ Cardinality(OpenNow) \in Nat /\ PositionLimit \in Nat
      /\ Cardinality(OpenNow) <= PositionLimit
  BY OpenFinite, TradeAssumption DEF LimitInv
<1>3. Booked(o).pc \in {"after", "done"} /\ Asleep("done").pc = "done"
  BY DEF Booked, Asleep
<1>4. CASE Poll(o) \/ TimeOut(o) \/ RefreshBalance(o)
  <2>1. UNCHANGED <<ex, sw, rows>> /\ mon[o].pc \in Busy
    BY <1>4 DEF Poll, TimeOut, RefreshBalance, Busy
  <2>2. PICK x : /\ mon' = [mon EXCEPT ![o] = x]
                 /\ x.pc \in {"watch", "save", "done"}
                 /\ x.pc \in Unbooked => mon[o].pc = "watch"
    <3>1. CASE Poll(o)
      <4>1. PICK pc \in {"save", "watch"} : mon' = [mon EXCEPT ![o] = Seen(o, pc, FALSE)]
        BY <3>1 DEF Poll
      <4>2. Seen(o, pc, FALSE).pc = pc /\ mon[o].pc = "watch"
        BY <1>0, <3>1 DEF Seen, MonState, Poll
      <4>3. QED BY <4>1, <4>2
    <3>2. CASE TimeOut(o)
      <4>1. PICK x \in {Seen(o, "save", TRUE), [mon[o] EXCEPT !.pc = "save", !.last = TRUE],
                        Asleep("done")} : mon' = [mon EXCEPT ![o] = x]
        BY <3>2 DEF TimeOut
      <4>2. x.pc \in {"save", "done"} /\ mon[o].pc = "watch"
        BY <1>0, <1>3, <3>2 DEF Seen, MonState, TimeOut
      <4>3. QED BY <4>1, <4>2
    <3>3. CASE RefreshBalance(o)
      BY <1>3, <3>3 DEF RefreshBalance, Unbooked
    <3>4. QED BY <1>4, <3>1, <3>2, <3>3
  <2>3. OpenNow' = OpenNow
    BY <2>1 DEF OpenNow
  <2>4. QED BY <1>2, <2>1, <2>2, <2>3, LimitMove DEF Unbooked
<1>5. CASE PrepareSell(o)
  <2>1. PICK m \in FifoMatches(rows, mon[o].filled) :
          mon' = [mon EXCEPT ![o] = Prepared(o, "commit", MatchedRows(rows, m))]
    BY <1>5 DEF PrepareSell
  <2>2. UNCHANGED <<ex, sw, rows>> /\ mon[o].pc = "save"
    BY <1>5 DEF PrepareSell
  <2> DEFINE x == Prepared(o, "commit", MatchedRows(rows, m))
  <2>3. x.pc = "commit" /\ x.plan = MatchedRows(rows, m)
    BY <1>0 DEF Prepared, MonState
  <2>4. mon' = [mon EXCEPT ![o] = x]
    BY <2>1
  <2> HIDE DEF x
  <2>5. ASSUME NEW p \in Orders, x.plan[p] # NoRow PROVE p \in OpenNow
    <3>1. m[p] > 0 /\ m[p] \in Sizes
      BY <1>0, <2>3, <2>5, MatchFits DEF MatchedRows
    <3>2. m[p] <= (IF p \in OpenNow THEN rows[p].rem ELSE 0)
      BY DEF FifoMatches, OpenNow
    <3>3. QED BY <3>1, <3>2, BookAssumption DEF Sizes
  <2>6. OpenNow' = OpenNow
    BY <2>2 DEF OpenNow
  <2>7. QED BY <1>2, <2>2, <2>3, <2>4, <2>5, <2>6, LimitMove DEF Unbooked, Busy
<1>6. CASE SaveBuy(o)
  <2>1. /\ UNCHANGED <<ex, sw>> /\ mon[o].pc = "save" /\ ex[o].side = "BUY"
        /\ mon' = [mon EXCEPT ![o] = Booked(o)]
        /\ rows' = [rows EXCEPT ![o] = NewRow(EffectiveSize(o))]
    BY <1>6 DEF SaveBuy
  <2>2. Cardinality(OpenNow) < PositionLimit
    BY <2>1 DEF LimitInv, Unbooked
  <2>3. OpenNow' \subseteq OpenNow \cup {o}
    BY <1>0, <2>1 DEF OpenNow, OpenPositions
  <2>4. /\ IsFiniteSet(OpenNow \cup {o})
        /\ Cardinality(OpenNow \cup {o}) \in {Cardinality(OpenNow), Cardinality(OpenNow) + 1}
    BY OpenFinite, FS_AddElement
  <2>5. Cardinality(OpenNow') <= Cardinality(OpenNow \cup {o}) /\ Cardinality(OpenNow') \in Nat
    BY <2>3, <2>4, FS_Subset, FS_CardinalityType
  <2>6. Cardinality(OpenNow') <= PositionLimit
    BY <1>2, <2>2, <2>4, <2>5
  <2>7. QED BY <1>3, <2>1, <2>6, LimitMove DEF Unbooked, Busy
<1>7. CASE CommitSell(o)
  <2>1. /\ UNCHANGED <<ex, sw>> /\ mon[o].pc = "commit"
        /\ mon' = [mon EXCEPT ![o] = Booked(o)]
        /\ rows' = Written(mon[o].plan)
    BY <1>7 DEF CommitSell
  <2>2. \A p \in Orders : mon[o].plan[p] # NoRow => p \in OpenNow
    BY <2>1 DEF LimitInv
  <2>3. OpenNow' \subseteq OpenNow
    BY <2>1, <2>2 DEF OpenNow, OpenPositions, Written
  <2>4. Cardinality(OpenNow') <= PositionLimit
    BY <1>2, <2>3, NoMoreOpen
  <2>5. QED BY <1>3, <2>1, <2>4, LimitMove DEF Unbooked, Busy
<1>8. QED BY <1>1, <1>4, <1>5, <1>6, <1>7
      DEF Monitor, Save, Failure, Fallback, PrepareFails, TransactionFails, FallbackBuy,
          FallbackPrepareSell, FallbackRewrite, FallbackRewritten, FallbackTrade

\* Every step respects the limit.
LEMMA LimitNext ==
  ASSUME MaxInFlight = 1, "db" \notin Faults, PositionLimit > 0,
         IndInv, SerialInv, LimitInv, [Next]_vars
  PROVE  LimitInv'
<1>0. TypeOK
  BY DEF IndInv
<1>1. CASE Worker
  BY <1>1, LimitWorker
<1>2. CASE Exchange \/ CacheAges \/ ReadBalance \/ UNCHANGED vars
  <2>1. UNCHANGED <<mon, rows, sw>>
    BY <1>2 DEF Exchange, Transfer, Execute, Kill, CacheAges, ReadBalance, vars
  <2>2. \A p \in Orders : ex'[p].side = ex[p].side
    BY <1>0, <1>2 DEF Exchange, Transfer, Execute, Kill, CacheAges, ReadBalance, vars, TypeOK
  <2>3. QED BY <2>1, <2>2, LimitQuiet DEF LimitInv, OpenNow
<1>3. CASE Crash
  <2>1. /\ sw'.pc = "idle" /\ UNCHANGED <<ex, rows>>
        /\ mon' = [o \in Orders |-> IF mon[o].pc \in Busy THEN Asleep("done") ELSE mon[o]]
    BY <1>3 DEF Crash, Idle, Working
  <2>2. \A o \in Orders : mon'[o].pc \notin Busy
    BY <2>1 DEF Asleep, Busy
  <2>3. OpenNow' = OpenNow
    BY <2>1 DEF OpenNow
  <2>4. QED BY <2>1, <2>2, <2>3 DEF LimitInv, Unbooked, Busy
<1>4. ASSUME NEW o \in Orders, Monitor(o) PROVE LimitInv'
  BY <1>4, LimitMonitor
<1>5. QED BY <1>1, <1>2, <1>3, <1>4 DEF Next

\* With one order under way at a time and a database that answers, no more positions
\* are open than allowed: lost answers, time-outs and restarts do not matter.
THEOREM LimitHoldsSerially ==
  ASSUME MaxInFlight = 1, "db" \notin Faults
  PROVE  Spec => []WithinPositionLimit
<1>1. ASSUME PositionLimit > 0 PROVE Init => LimitInv
  <2> SUFFICES ASSUME Init PROVE LimitInv
    OBVIOUS
  <2>1. /\ sw.pc = "idle" /\ \A o \in Orders : mon[o].pc = "none"
        /\ rows = [o \in Orders |-> IF o \in Earlier THEN NewRow(MaxSize) ELSE NoRow]
    BY DEF Init, Idle, Working, Asleep
  <2>2. OpenNow \subseteq {1}
    BY <2>1 DEF OpenNow, OpenPositions, Earlier, NoRow, IsOpen
  <2>3. IsFiniteSet({1}) /\ Cardinality({1}) = 1
    BY FS_Singleton
  <2>4. Cardinality(OpenNow) <= PositionLimit
    <3>1. Cardinality(OpenNow) <= Cardinality({1})
      BY <2>2, <2>3, FS_Subset
    <3>2. QED BY <1>1, <2>3, <3>1, OpenFinite, TradeAssumption
  <2>5. QED BY <2>1, <2>4 DEF LimitInv, Unbooked
<1>2. Init => SerialInv
  BY SerialInit
<1>3. IndInv /\ SerialInv /\ [Next]_vars => SerialInv'
  BY SerialNext
<1>4. CASE PositionLimit > 0
  <2>1. Init => LimitInv
    BY <1>1, <1>4
  <2>2. IndInv /\ SerialInv /\ LimitInv /\ [Next]_vars => LimitInv'
    BY <1>4, LimitNext
  <2>3. LimitInv => WithinPositionLimit
    BY DEF LimitInv, WithinPositionLimit, OpenNow
  <2>4. QED BY <1>2, <1>3, <2>1, <2>2, <2>3, AlwaysIndInv, PTL DEF Spec
<1>5. CASE ~(PositionLimit > 0)
  <2>1. WithinPositionLimit
    BY <1>5 DEF WithinPositionLimit
  <2>2. QED BY <2>1, PTL
<1>6. QED BY <1>4, <1>5

-----------------------------------------------------------------------------
(* One order under way at a time, every order executed at least in part,   *)
(* every answer received: the orders, the trades and the positions keep    *)
(* the books of HeldPosition, and the bot sells only what it bought.       *)
(* (With two orders under way, a lost answer, an order that nothing filled *)
(* or a restart it does not: the runs oversell, double_match and phantom.) *)

\* The database answers, no order outlives its monitor or ends without execution, and
\* the process runs on.  Balances may be unreadable or old, units may be moved out.
MildFaults == {"balance", "old", "transfer"}

\* What the booked orders of one side executed.
BookedOf(side) ==
  [o \in Orders |-> IF ex[o].side = side /\ trades[o] # NoTrade THEN ex[o].filled ELSE 0]
ExecutedOf(side) == [o \in Orders |-> IF ex[o].side = side THEN ex[o].filled ELSE 0]
BookedUnits(side) == SumFunctionOnSet(BookedOf(side), Orders)

\* An order has executed something when it ends, and is booked when it has ended or
\* still with its monitor.
OrdersEnd ==
  \A o \in Orders :
    /\ ex[o].st = "none" => ex[o].filled = 0
    /\ ex[o].st \in Terminal => ex[o].filled > 0
    /\ trades[o] # NoTrade => ex[o].st \in Terminal
    /\ ex[o].st # "none" /\ trades[o] = NoTrade => mon[o].pc \in {"watch", "save", "commit"}

\* A monitor that books has seen the order's end, and what it is about to write uses up
\* the positions as they are.
MonitorsBook ==
  \A o \in Orders :
    /\ mon[o].pc \notin {"fallback", "rewrite", "trade"}
    /\ mon[o].pc \in {"save", "commit"} => mon[o].st \in Terminal
    /\ mon[o].pc = "commit" =>
         /\ ex[o].side = "SELL"
         /\ \E m \in FifoMatches(rows, mon[o].filled) : mon[o].plan = MatchedRows(rows, m)

\* A SELL, with the worker or with its monitor, is covered by the open positions.
SellsCovered ==
  /\ sw.pc \in {"order", "send"} /\ sw.side = "SELL" => sw.size <= OpenSize(rows)
  /\ \A o \in Orders :
       mon[o].pc \in {"watch", "save", "commit"} /\ ex[o].side = "SELL" =>
         ex[o].size <= OpenSize(rows)

\* The open positions and the booked SELLs together are covered by the booked BUYs.
Balanced == OpenSize(rows) + BookedUnits("SELL") <= BookedUnits("BUY")

HeldInv == OrdersEnd /\ MonitorsBook /\ SellsCovered /\ Balanced

-----------------------------------------------------------------------------
(* The size of a SELL                                                      *)

\* A whole number of lots is no more than what it was cut down from.
LEMMA FloorAtMost ==
  ASSUME NEW q \in Nat
  PROVE  FloorToLot(q) \in Nat /\ FloorToLot(q) <= q
<1>1. LotSize \in Nat /\ LotSize > 0
  BY TradeAssumption
<1>2. \A l \in Nat \ {0} : (q \div l) * l <= q /\ (q \div l) * l \in Nat
  OBVIOUS
<1>3. QED BY <1>1, <1>2 DEF FloorToLot

\* The configured share of a quantity is no more than the quantity.
LEMMA ShareAtMost ==
  ASSUME NEW q \in Nat
  PROVE  (q * SellPct) \div 100 \in Nat /\ (q * SellPct) \div 100 <= q
<1>1. SellPct \in Nat /\ SellPct <= 100
  BY TradeAssumption
<1>2. \A p \in Nat : p <= 100 => q * p \in Nat /\ q * p <= q * 100
  <2> SUFFICES ASSUME NEW p \in Nat, p <= 100 PROVE q * p \in Nat /\ q * p <= q * 100
    OBVIOUS
  <2>1. q * (100 - p) >= 0
    OBVIOUS
  <2>2. QED BY <2>1
<1>3. \A n \in Nat : n <= q * 100 => n \div 100 \in Nat /\ n \div 100 <= q
  OBVIOUS
<1>4. QED BY <1>1, <1>2, <1>3

\* A SELL is never sized larger than what may be sold.
LEMMA SellSizeAtMost ==
  ASSUME NEW asked \in Nat, NEW sellable \in Nat
  PROVE  SellSize(asked, sellable) \in Nat /\ SellSize(asked, sellable) <= sellable
<1> DEFINE share == FloorToLot((sellable * SellPct) \div 100)
<1>1. share \in Nat /\ share <= sellable
  <2> DEFINE n == (sellable * SellPct) \div 100
  <2>1. n \in Nat /\ n <= sellable
    BY ShareAtMost
  <2> HIDE DEF n
  <2>2. FloorToLot(n) \in Nat /\ FloorToLot(n) <= n
    BY <2>1, FloorAtMost
  <2>3. QED BY <2>1, <2>2 DEF n
<1>2. SellSize(asked, sellable) = IF asked > 0 /\ asked < sellable THEN asked
                                 ELSE IF share > 0 THEN share
                                 ELSE IF sellable >= LotSize THEN LotSize ELSE 0
  BY DEF SellSize
<1> HIDE DEF share
<1>3. LotSize \in Nat
  BY TradeAssumption
<1>4. QED BY <1>1, <1>2, <1>3

-----------------------------------------------------------------------------
(* Steps                                                                   *)

\* The booked units are sums of natural numbers.
LEMMA BookedSum ==
  ASSUME IndInv, NEW side
  PROVE  /\ Summable(BookedOf(side), Orders) /\ Summable(ExecutedOf(side), Orders)
         /\ BookedUnits(side) \in Nat
         /\ \A o \in Orders : BookedOf(side)[o] \in Nat /\ ExecutedOf(side)[o] \in Nat
<1>1. \A o \in Orders : ex[o].filled \in Nat
  BY BookAssumption DEF IndInv, TypeOK, Sizes
<1>2. \A o \in Orders : BookedOf(side)[o] \in Nat /\ ExecutedOf(side)[o] \in Nat
  BY <1>1 DEF BookedOf, ExecutedOf
<1>3. Summable(BookedOf(side), Orders) /\ Summable(ExecutedOf(side), Orders)
  BY <1>2, OrdersFinite DEF Summable
<1>4. \A o \in Orders : BookedOf(side)[o] >= 0
  BY <1>2
<1>5. BookedUnits(side) \in Nat
  BY <1>3, <1>4, SumNat DEF BookedUnits
<1>6. QED BY <1>2, <1>3, <1>5

\* What HeldPosition does not see.
LEMMA HeldStutter ==
  ASSUME UNCHANGED <<rows, trades>>,
         \A o \in Orders : /\ ex'[o].st = "none" <=> ex[o].st = "none"
                          /\ ex'[o].side = ex[o].side /\ ex'[o].filled = ex[o].filled
  PROVE  UNCHANGED Held!vars
<1>1. OpenSize(rows') = OpenSize(rows)
  OBVIOUS
<1>2. /\ [o \in Orders |-> IF ex'[o].st = "none" THEN "none" ELSE ex'[o].side]
           = [o \in Orders |-> IF ex[o].st = "none" THEN "none" ELSE ex[o].side]
      /\ [o \in Orders |-> ex'[o].filled] = [o \in Orders |-> ex[o].filled]
  OBVIOUS
<1>3. {o \in Orders : trades'[o] # NoTrade} = {o \in Orders : trades[o] # NoTrade}
  OBVIOUS
<1>4. QED BY <1>1, <1>2, <1>3 DEF Held!vars

\* A step that touches neither orders, monitors nor tables.
LEMMA HeldQuiet ==
  ASSUME HeldInv, UNCHANGED <<ex, mon, rows, trades>>,
         sw'.pc \in {"order", "send"} /\ sw'.side = "SELL" => sw'.size <= OpenSize(rows)
  PROVE  HeldInv' /\ UNCHANGED Held!vars
<1>1. UNCHANGED Held!vars
  BY HeldStutter
<1>2. OpenSize(rows') = OpenSize(rows) /\ \A s : BookedUnits(s)' = BookedUnits(s)
  BY DEF BookedUnits, BookedOf
<1>3. OrdersEnd' /\ MonitorsBook'
  BY DEF HeldInv, OrdersEnd, MonitorsBook
<1>4. SellsCovered' /\ Balanced'
  BY <1>2 DEF HeldInv, SellsCovered, Balanced
<1>5. QED BY <1>1, <1>3, <1>4 DEF HeldInv

\* The signal worker sizes an order, never a SELL larger than the open positions.
LEMMA HeldWorker ==
  ASSUME Faults \subseteq MildFaults, IndInv, HeldInv,
         TakeBuySignal \/ TakeSellSignal \/ ReadHoldings \/ SizeSell
           \/ CheckBalance \/ OrderRefused \/ RequestLost
  PROVE  HeldInv' /\ UNCHANGED Held!vars
<1>0. TypeOK
  BY DEF IndInv
<1>1. UNCHANGED <<ex, mon, rows, trades>>
  BY DEF TakeBuySignal, TakeSellSignal, ReadHoldings, SizeSell, CheckBalance,
         OrderRefused, RequestLost
<1>2. sw'.pc \in {"order", "send"} /\ sw'.side = "SELL" => sw'.size <= OpenSize(rows)
  <2>1. CASE TakeBuySignal
    BY <2>1 DEF TakeBuySignal, Working
  <2>2. CASE TakeSellSignal
    BY <2>2 DEF TakeSellSignal, Working
  <2>3. CASE ReadHoldings
    <3>1. PICK pc \in {"size", "skip"} : \E n : sw' = [sw EXCEPT !.pc = pc, !.avail = n]
      BY <2>3 DEF ReadHoldings
    <3>2. sw'.pc = pc
      BY <1>0, <3>1 DEF TypeOK
    <3>3. QED BY <3>2
  <2>4. CASE SizeSell
    <3> DEFINE sellable == Sellable(sw.avail, TRUE)
               size == SellSize(sw.size, sellable)
    <3>1. "db" \notin Faults
      BY DEF MildFaults
    <3>2. sw' = Working("order", "SELL", size) \/ sw' = Working("skip", "SELL", 0)
      BY <2>4, <3>1 DEF SizeSell
    <3>3. sw.avail \in Nat /\ sw.size \in Nat /\ OpenSize(rows) \in Nat
      BY <1>0, OpenSizeSum DEF TypeOK
    <3>4. sellable = Min({sw.avail, OpenSize(rows)})
      BY DEF Sellable
    <3>5. sellable \in Nat /\ sellable <= OpenSize(rows)
      <4>1. sw.avail \in Int /\ OpenSize(rows) \in Int
        BY <3>3
      <4>2. sellable = IF sw.avail <= OpenSize(rows) THEN sw.avail ELSE OpenSize(rows)
        BY <3>4, <4>1, MinOfTwo
      <4> HIDE DEF sellable
      <4>3. QED BY <3>3, <4>2
    <3> HIDE DEF sellable
    <3>6. size \in Nat /\ size <= sellable
      BY <3>3, <3>5, SellSizeAtMost
    <3> HIDE DEF size
    <3>7. QED BY <3>2, <3>3, <3>5, <3>6 DEF Working
  <2>5. CASE CheckBalance
    <3>1. sw.pc = "order" /\ (sw' = [sw EXCEPT !.pc = "send"] \/ sw' = Idle)
      BY <2>5 DEF CheckBalance
    <3>2. sw'.pc \in {"order", "send"} => sw'.side = sw.side /\ sw'.size = sw.size
      BY <1>0, <3>1 DEF TypeOK, Idle, Working
    <3>3. QED BY <3>1, <3>2 DEF HeldInv, SellsCovered
  <2>6. CASE OrderRefused
    BY <2>6 DEF OrderRefused, Idle, Working
  <2>7. CASE RequestLost
    BY <2>7 DEF RequestLost, MildFaults
  <2>8. QED BY <2>1, <2>2, <2>3, <2>4, <2>5, <2>6, <2>7
<1>3. QED BY <1>1, <1>2, HeldQuiet

\* The open positions are written off.
LEMMA HeldGhosts ==
  ASSUME Faults \subseteq MildFaults, IndInv, SerialInv, HeldInv, CloseGhostPositions
  PROVE  HeldInv' /\ Held!WriteOff
<1>0. rows \in [Orders -> Row] /\ OpenSize(rows) \in Nat
  BY OpenSizeSum DEF IndInv, TypeOK
<1>1. /\ sw.pc = "skip" /\ sw' = Idle /\ rows' = CloseAll(rows) /\ UNCHANGED <<ex, mon, trades>>
  BY DEF CloseGhostPositions, MildFaults
<1>2. \A o \in Orders : mon[o].pc \notin Busy
  BY <1>1 DEF SerialInv, InFlight
<1>3. OpenSize(rows') = 0
  BY <1>0, <1>1, OpenSizeClosed
<1>4. BookedUnits("SELL")' = BookedUnits("SELL") /\ BookedUnits("BUY")' = BookedUnits("BUY")
  BY <1>1 DEF BookedUnits, BookedOf
<1>5. BookedUnits("SELL") \in Nat /\ BookedUnits("BUY") \in Nat
  BY BookedSum
<1>6. Balanced'
  BY <1>0, <1>3, <1>4, <1>5 DEF HeldInv, Balanced
<1>7. OrdersEnd' /\ MonitorsBook' /\ SellsCovered'
  BY <1>1, <1>2 DEF HeldInv, OrdersEnd, MonitorsBook, SellsCovered, Busy, Idle, Working
<1>8. Held!WriteOff
  BY <1>1, <1>3 DEF Held!WriteOff
<1>9. QED BY <1>6, <1>7, <1>8 DEF HeldInv

\* The exchange accepts the order, the only one under way.
LEMMA HeldPlace ==
  ASSUME IndInv, SerialInv, HeldInv, NEW o \in Orders, PlaceOrder(o)
  PROVE  HeldInv' /\ Held!Place(o)
<1>0. TypeOK
  BY DEF IndInv
<1>1. /\ sw.pc = "send" /\ ex[o].st = "none" /\ sw' = Idle
      /\ ex' = [ex EXCEPT ![o] = Request] /\ mon' = [mon EXCEPT ![o] = Result]
      /\ UNCHANGED <<rows, trades>>
  BY DEF PlaceOrder, Accept, FreeOrders, Placed
<1>2. /\ ex'[o] = Request /\ \A p \in Orders \ {o} : ex'[p] = ex[p]
      /\ mon'[o].pc = "watch" /\ \A p \in Orders \ {o} : mon'[p] = mon[p]
  BY <1>0, <1>1 DEF TypeOK, Result, Asleep
<1>3. \A p \in Orders : mon[p].pc \notin Busy
  BY <1>1 DEF SerialInv, InFlight
<1>4. trades[o] = NoTrade /\ ex[o].filled = 0 /\ sw.side \in {"BUY", "SELL"}
  BY <1>0, <1>1 DEF IndInv, NotBookedYet, HeldInv, OrdersEnd, TypeOK, Sides
<1>5. OrdersEnd'
  BY <1>1, <1>2, <1>4 DEF HeldInv, OrdersEnd, Request, Terminal
<1>6. MonitorsBook'
  BY <1>1, <1>2 DEF HeldInv, MonitorsBook
<1>7. SellsCovered'
  <2>1. OpenSize(rows') = OpenSize(rows)
    BY <1>1
  <2>2. sw.side = "SELL" => sw.size <= OpenSize(rows)
    BY <1>1 DEF HeldInv, SellsCovered
  <2>3. QED BY <1>1, <1>2, <1>3, <2>1, <2>2 DEF SellsCovered, Request, Idle, Working, Busy
<1>8. \A side : BookedUnits(side)' = BookedUnits(side)
  <2> SUFFICES ASSUME NEW side PROVE BookedUnits(side)' = BookedUnits(side)
    OBVIOUS
  <2>1. \A p \in Orders : BookedOf(side)'[p] = BookedOf(side)[p]
    BY <1>1, <1>2, <1>4 DEF BookedOf
  <2>2. BookedOf(side)' = BookedOf(side)
    BY <2>1 DEF BookedOf
  <2>3. QED BY <2>2 DEF BookedUnits
<1>9. Balanced'
  BY <1>1, <1>8 DEF HeldInv, Balanced
<1>10. Held!Place(o)
  <2>1. [p \in Orders |-> IF ex'[p].st = "none" THEN "none" ELSE ex'[p].side]
          = [[p \in Orders |-> IF ex[p].st = "none" THEN "none" ELSE ex[p].side]
               EXCEPT ![o] = sw.side]
    <3>1. ex'[o].st # "none" /\ ex'[o].side = sw.side
      BY <1>2 DEF Request
    <3>2. QED BY <1>2, <3>1
  <2>2. [p \in Orders |-> ex'[p].filled] = [p \in Orders |-> ex[p].filled]
    BY <1>2, <1>4 DEF Request
  <2>3. QED BY <1>1, <1>4, <2>1, <2>2 DEF Held!Place
<1>11. QED BY <1>5, <1>6, <1>7, <1>9, <1>10 DEF HeldInv

\* The exchange executes a unit, or ends an order it has executed in part.
LEMMA HeldExchange ==
  ASSUME Faults \subseteq MildFaults, IndInv, HeldInv, NEW o \in Orders, Execute(o) \/ Kill(o)
  PROVE  HeldInv' /\ (Held!Execute(o) \/ UNCHANGED Held!vars)
<1>0. TypeOK /\ ex[o].filled \in Nat
  BY BookAssumption DEF IndInv, TypeOK, Sizes
<1>1. ex[o].st = "ACTIVE" /\ UNCHANGED <<sw, mon, rows, trades>>
  BY DEF Execute, Kill
<1>2. trades[o] = NoTrade /\ mon[o].pc = "watch"
  BY <1>1 DEF HeldInv, OrdersEnd, MonitorsBook, IndInv, CopiesAgree, Saving, Terminal
<1>3. /\ ex'[o].side = ex[o].side /\ ex'[o].size = ex[o].size /\ ex'[o].st # "none"
      /\ ex'[o].st \in Terminal => ex'[o].filled > 0
      /\ \A p \in Orders \ {o} : ex'[p] = ex[p]
      /\ \/ Execute(o) /\ ex'[o].filled = ex[o].filled + 1
         \/ Kill(o) /\ ex'[o].filled = ex[o].filled
  <2>1. CASE Execute(o)
    BY <1>0, <2>1 DEF Execute, TypeOK, Terminal
  <2>2. CASE Kill(o)
    BY <1>0, <2>2 DEF Kill, TypeOK, Terminal, MildFaults
  <2>3. QED BY <2>1, <2>2
<1>4. OrdersEnd'
  BY <1>1, <1>2, <1>3 DEF HeldInv, OrdersEnd
<1>5. MonitorsBook'
  BY <1>1, <1>2, <1>3 DEF HeldInv, MonitorsBook
<1>6. SellsCovered'
  <2>1. \A p \in Orders : ex'[p].side = ex[p].side /\ ex'[p].size = ex[p].size
    BY <1>3
  <2>2. OpenSize(rows') = OpenSize(rows)
    BY <1>1
  <2>3. QED BY <1>1, <2>1, <2>2 DEF HeldInv, SellsCovered
<1>7. \A side : BookedUnits(side)' = BookedUnits(side)
  <2> SUFFICES ASSUME NEW side PROVE BookedUnits(side)' = BookedUnits(side)
    OBVIOUS
  <2>1. \A p \in Orders : BookedOf(side)'[p] = BookedOf(side)[p]
    BY <1>1, <1>2, <1>3 DEF BookedOf
  <2>2. BookedOf(side)' = BookedOf(side)
    BY <2>1 DEF BookedOf
  <2>3. QED BY <2>2 DEF BookedUnits
<1>8. Balanced'
  BY <1>1, <1>7 DEF HeldInv, Balanced
<1>9. CASE Kill(o) /\ ex'[o].filled = ex[o].filled
  <2>1. UNCHANGED Held!vars
    BY <1>1, <1>3, <1>9, HeldStutter
  <2>2. QED BY <1>4, <1>5, <1>6, <1>8, <2>1 DEF HeldInv
<1>10. CASE ex'[o].filled = ex[o].filled + 1
  <2>1. [p \in Orders |-> IF ex'[p].st = "none" THEN "none" ELSE ex'[p].side]
          = [p \in Orders |-> IF ex[p].st = "none" THEN "none" ELSE ex[p].side]
    BY <1>1, <1>3
  <2>2. [p \in Orders |-> ex'[p].filled]
          = [[p \in Orders |-> ex[p].filled] EXCEPT ![o] = @ + 1]
    BY <1>3, <1>10
  <2>3. ex[o].side # "none"
    BY <1>0 DEF TypeOK, Sides
  <2>4. Held!Execute(o)
    BY <1>1, <1>2, <2>1, <2>2, <2>3 DEF Held!Execute
  <2>5. QED BY <1>4, <1>5, <1>6, <1>8, <2>4 DEF HeldInv
<1>11. QED BY <1>3, <1>9, <1>10

\* The one monitor at work looks or prepares: it goes to x and writes nothing.
LEMMA HeldMove ==
  ASSUME IndInv, HeldInv, NEW o \in Orders, NEW x,
         mon' = [mon EXCEPT ![o] = x], UNCHANGED <<ex, sw, rows, trades>>,
         \/ x.pc \in {"watch", "save", "commit"} /\ mon[o].pc \in {"watch", "save"}
         \/ x.pc = "done" /\ mon[o].pc = "after",
         x.pc \in {"save", "commit"} => x.st \in Terminal,
         x.pc = "commit" =>
           /\ ex[o].side = "SELL"
           /\ \E m \in FifoMatches(rows, x.filled) : x.plan = MatchedRows(rows, m)
  PROVE  HeldInv' /\ UNCHANGED Held!vars
<1>1. mon'[o] = x /\ \A p \in Orders \ {o} : mon'[p] = mon[p]
  BY DEF IndInv, TypeOK
<1>2. UNCHANGED Held!vars
  BY HeldStutter
<1>3. OpenSize(rows') = OpenSize(rows) /\ \A s : BookedUnits(s)' = BookedUnits(s)
  BY DEF BookedUnits, BookedOf
<1>4. OrdersEnd'
  BY <1>1 DEF HeldInv, OrdersEnd
<1>5. MonitorsBook'
  <2> SUFFICES ASSUME NEW p \in Orders
               PROVE  /\ mon'[p].pc \notin {"fallback", "rewrite", "trade"}
                      /\ mon'[p].pc \in {"save", "commit"} => mon'[p].st \in Terminal
                      /\ mon'[p].pc = "commit" =>
                           /\ ex'[p].side = "SELL"
                           /\ \E m \in FifoMatches(rows', mon'[p].filled) :
                                mon'[p].plan = MatchedRows(rows', m)
    BY DEF MonitorsBook
  <2>1. CASE p = o
    BY <1>1, <2>1
  <2>2. CASE p # o
    BY <1>1, <2>2 DEF HeldInv, MonitorsBook
  <2>3. QED BY <2>1, <2>2
<1>6. SellsCovered' /\ Balanced'
  BY <1>1, <1>3 DEF HeldInv, SellsCovered, Balanced
<1>7. QED BY <1>2, <1>4, <1>5, <1>6 DEF HeldInv

\* The monitor looks at its order, or prepares what it will write.
LEMMA HeldLook ==
  ASSUME Faults \subseteq MildFaults, IndInv, HeldInv, NEW o \in Orders,
         Poll(o) \/ TimeOut(o) \/ PrepareSell(o) \/ RefreshBalance(o)
  PROVE  HeldInv' /\ UNCHANGED Held!vars
<1>0. mon[o] \in MonState
  BY DEF IndInv, TypeOK
<1>1. UNCHANGED <<ex, sw, rows, trades>>
  BY DEF Poll, TimeOut, PrepareSell, RefreshBalance
<1>2. CASE Poll(o)
  <2> DEFINE pc == IF ex[o].st \in Terminal THEN "save" ELSE "watch"
             x == Seen(o, pc, FALSE)
  <2>1. x.pc = pc /\ x.st = ex[o].st
    BY <1>0 DEF Seen, Listed, MonState
  <2>2. mon' = [mon EXCEPT ![o] = x] /\ mon[o].pc = "watch"
    BY <1>2 DEF Poll, Listed
  <2> HIDE DEF x
  <2>3. QED BY <1>1, <2>1, <2>2, HeldMove
<1>3. CASE TimeOut(o)
  <2> DEFINE x == Seen(o, "save", TRUE)
  <2>1. x.pc = "save" /\ x.st = ex[o].st
    BY <1>0 DEF Seen, Listed, MonState
  <2>2. mon' = [mon EXCEPT ![o] = x] /\ mon[o].pc = "watch" /\ ex[o].st \in Terminal
    BY <1>3 DEF TimeOut, MildFaults
  <2> HIDE DEF x
  <2>3. QED BY <1>1, <2>1, <2>2, HeldMove
<1>4. CASE PrepareSell(o)
  <2>1. PICK m \in FifoMatches(rows, mon[o].filled) :
          mon' = [mon EXCEPT ![o] = Prepared(o, "commit", MatchedRows(rows, m))]
    BY <1>4 DEF PrepareSell
  <2> DEFINE x == Prepared(o, "commit", MatchedRows(rows, m))
  <2>2. /\ x.pc = "commit" /\ x.plan = MatchedRows(rows, m)
        /\ x.st = mon[o].st /\ x.filled = mon[o].filled
    BY <1>0 DEF Prepared, MonState
  <2>3. mon[o].pc = "save" /\ ex[o].side = "SELL" /\ mon[o].st \in Terminal
    BY <1>4 DEF PrepareSell, HeldInv, MonitorsBook
  <2>4. mon' = [mon EXCEPT ![o] = x]
    BY <2>1
  <2> HIDE DEF x
  <2>5. QED BY <1>1, <2>2, <2>3, <2>4, HeldMove
<1>5. CASE RefreshBalance(o)
  <2>1. mon' = [mon EXCEPT ![o] = Asleep("done")] /\ mon[o].pc = "after"
    BY <1>5 DEF RefreshBalance
  <2>2. Asleep("done").pc = "done"
    BY DEF Asleep
  <2>3. QED BY <1>1, <2>1, <2>2, HeldMove
<1>6. QED BY <1>2, <1>3, <1>4, <1>5

\* The one monitor at work books its order, and the open positions change by what the
\* order executed.
LEMMA HeldBook ==
  ASSUME IndInv, SerialInv, HeldInv, rows' \in [Orders -> Row],
         NEW o \in Orders, mon[o].pc \in {"save", "commit"},
         mon' = [mon EXCEPT ![o] = Booked(o)], trades' = [trades EXCEPT ![o] = TradeOf(o)],
         UNCHANGED <<ex, sw>>,
         \/ ex[o].side = "BUY" /\ OpenSize(rows') = OpenSize(rows) + ex[o].filled
         \/ /\ ex[o].side = "SELL" /\ ex[o].filled <= OpenSize(rows)
            /\ OpenSize(rows') = OpenSize(rows) - ex[o].filled
  PROVE  HeldInv' /\ Held!Book(o)
<1>0. TypeOK /\ ex[o].filled \in Nat /\ OpenSize(rows) \in Nat
  BY BookAssumption, OpenSizeSum DEF IndInv, TypeOK, Sizes
<1>1. /\ mon[o].st \in Terminal /\ ex[o].st = mon[o].st /\ ex[o].filled > 0
      /\ trades[o] = NoTrade
  BY DEF HeldInv, MonitorsBook, OrdersEnd, IndInv, CopiesAgree, NotBookedYet, Saving, Terminal
<1>2. /\ mon'[o] = Booked(o) /\ \A p \in Orders \ {o} : mon'[p] = mon[p]
      /\ trades'[o] = TradeOf(o) /\ \A p \in Orders \ {o} : trades'[p] = trades[p]
  BY <1>0 DEF TypeOK
<1>3. Booked(o).pc \in {"after", "done"} /\ TradeOf(o) # NoTrade
  BY <1>1 DEF Booked, Asleep, TradeOf, NoTrade, Terminal
<1>4. \A p \in Orders \ {o} : mon[p].pc \notin Busy
  BY DEF SerialInv, InFlight, Busy
<1>5. sw.pc = "idle"
  BY DEF SerialInv, InFlight, Busy
<1>6. OrdersEnd'
  BY <1>1, <1>2, <1>3 DEF HeldInv, OrdersEnd
<1>7. MonitorsBook'
  BY <1>2, <1>3, <1>4 DEF MonitorsBook, Busy
<1>8. SellsCovered'
  BY <1>2, <1>3, <1>4, <1>5 DEF SellsCovered, Busy
<1>9. ASSUME NEW side, side # ex[o].side
      PROVE  BookedUnits(side)' = BookedUnits(side)
  <2>1. \A p \in Orders : BookedOf(side)'[p] = BookedOf(side)[p]
    BY <1>2, <1>9 DEF BookedOf
  <2>2. BookedOf(side)' = BookedOf(side)
    BY <2>1 DEF BookedOf
  <2>3. QED BY <2>2 DEF BookedUnits
<1>10. BookedUnits(ex[o].side)' = BookedUnits(ex[o].side) + ex[o].filled
  <2> DEFINE f == BookedOf(ex[o].side)
             g == BookedOf(ex[o].side)'
  <2>1. Summable(f, Orders) /\ \A p \in Orders : f[p] \in Nat
    BY BookedSum
  <2>2. \A p \in Orders \ {o} : f[p] = g[p]
    BY <1>2 DEF BookedOf
  <2>3. f[o] = 0 /\ g[o] = ex[o].filled
    BY <1>1, <1>2, <1>3 DEF BookedOf
  <2>4. BookedUnits(ex[o].side) = SumFunctionOnSet(f, Orders)
        /\ BookedUnits(ex[o].side)' = SumFunctionOnSet(g, Orders)
    BY DEF BookedUnits
  <2> HIDE DEF f, g
  <2>5. Summable(g, Orders)
    BY <1>0, <2>1, <2>2, <2>3, OrdersFinite DEF Summable
  <2>6. SumFunctionOnSet(g, Orders) = SumFunctionOnSet(f, Orders) + (g[o] - f[o])
    BY <2>1, <2>2, <2>5, SumUpdate
  <2>7. QED BY <1>0, <2>3, <2>4, <2>6
<1>11. /\ BookedUnits("BUY") \in Nat /\ BookedUnits("SELL") \in Nat
       /\ OpenSize(rows) + BookedUnits("SELL") <= BookedUnits("BUY")
  BY BookedSum DEF HeldInv, Balanced
<1>12. Balanced'
  <2>1. CASE ex[o].side = "BUY" /\ OpenSize(rows') = OpenSize(rows) + ex[o].filled
    <3>1. BookedUnits("SELL")' = BookedUnits("SELL")
      BY <1>9, <2>1
    <3>2. BookedUnits("BUY")' = BookedUnits("BUY") + ex[o].filled
      BY <1>10, <2>1
    <3>3. QED BY <1>0, <1>11, <2>1, <3>1, <3>2 DEF Balanced
  <2>2. CASE ex[o].side = "SELL" /\ OpenSize(rows') = OpenSize(rows) - ex[o].filled
    <3>1. BookedUnits("BUY")' = BookedUnits("BUY")
      BY <1>9, <2>2
    <3>2. BookedUnits("SELL")' = BookedUnits("SELL") + ex[o].filled
      BY <1>10, <2>2
    <3>3. QED BY <1>0, <1>11, <2>2, <3>1, <3>2 DEF Balanced
  <2>3. QED BY <2>1, <2>2
<1>13. Held!Book(o)
  <2>1. {p \in Orders : trades'[p] # NoTrade} = {p \in Orders : trades[p] # NoTrade} \cup {o}
    BY <1>2, <1>3
  <2>2. ex[o].st # "none"
    BY <1>1 DEF Terminal
  <2>3. QED BY <1>0, <1>1, <2>1, <2>2 DEF Held!Book
<1>14. QED BY <1>6, <1>7, <1>8, <1>12, <1>13 DEF HeldInv

\* The monitor books its order in one transaction.
LEMMA HeldSave ==
  ASSUME IndInv, SerialInv, HeldInv, IndInv', NEW o \in Orders, SaveBuy(o) \/ CommitSell(o)
  PROVE  HeldInv' /\ Held!Book(o)
<1>0. /\ rows \in [Orders -> Row] /\ rows' \in [Orders -> Row] /\ OpenSize(rows) \in Nat
      /\ ex[o].filled \in Sizes /\ ex[o].filled \in Nat /\ ex[o].size \in Nat
  BY BookAssumption, OpenSizeSum DEF IndInv, TypeOK, Sizes
<1>1. /\ mon[o].pc \in {"save", "commit"}
      /\ mon' = [mon EXCEPT ![o] = Booked(o)] /\ trades' = [trades EXCEPT ![o] = TradeOf(o)]
      /\ UNCHANGED <<ex, sw>>
  BY DEF SaveBuy, CommitSell
<1>2. ex[o].filled = mon[o].filled /\ ex[o].filled > 0 /\ ex[o].filled <= ex[o].size
  BY <1>1 DEF HeldInv, MonitorsBook, OrdersEnd, IndInv, CopiesAgree, OrdersInRange, Saving
<1>3. CASE SaveBuy(o)
  <2>0. mon[o].filled # 0
    BY <1>0, <1>2
  <2>1. rows' = [rows EXCEPT ![o] = NewRow(ex[o].filled)] /\ ex[o].side = "BUY"
    <3>1. EffectiveSize(o) = ex[o].filled
      BY <1>2, <2>0 DEF EffectiveSize
    <3>2. QED BY <1>3, <3>1 DEF SaveBuy
  <2>2. rows[o] = NoRow
    BY <1>3 DEF SaveBuy, SerialInv, NoRowYet, Unbooked
  <2>3. ex[o].filled \in Sizes \ {0}
    BY <1>0, <1>2
  <2>4. OpenSize(rows') = OpenSize(rows) + ex[o].filled
    BY <1>0, <2>1, <2>2, <2>3, OpenSizeAfterBuy
  <2>5. QED BY <1>0, <1>1, <2>1, <2>4, HeldBook
<1>4. CASE CommitSell(o)
  <2>1. mon[o].pc = "commit" /\ rows' = Written(mon[o].plan)
    BY <1>4 DEF CommitSell
  <2>2. /\ ex[o].side = "SELL"
        /\ \E m \in FifoMatches(rows, mon[o].filled) : mon[o].plan = MatchedRows(rows, m)
    BY <2>1 DEF HeldInv, MonitorsBook
  <2>3. PICK m \in FifoMatches(rows, ex[o].filled) : mon[o].plan = MatchedRows(rows, m)
    BY <1>2, <2>2
  <2>4. rows' = AfterSell(rows, m)
    BY <2>1, <2>3 DEF Written, AfterSell
  <2>5. OpenSize(rows') = OpenSize(rows) - Min({ex[o].filled, OpenSize(rows)})
    BY <1>0, <2>4, OpenSizeAfterSell
  <2>6. ex[o].size <= OpenSize(rows)
    BY <2>1, <2>2 DEF HeldInv, SellsCovered
  <2>7. ex[o].filled <= OpenSize(rows)
    BY <1>0, <1>2, <2>6
  <2>8. Min({ex[o].filled, OpenSize(rows)}) = ex[o].filled
    <3>1. ex[o].filled \in Int /\ OpenSize(rows) \in Int
      BY <1>0
    <3>2. QED BY <2>7, <3>1, MinOfTwo
  <2>9. QED BY <1>0, <1>1, <2>2, <2>5, <2>7, <2>8, HeldBook
<1>5. QED BY <1>3, <1>4

-----------------------------------------------------------------------------
(* The whole specification                                                 *)

\* Before the first signal: nothing, or one position that is booked.
LEMMA HeldInit == Init => HeldInv
<1> SUFFICES ASSUME Init PROVE HeldInv
  OBVIOUS
<1>0. IndInv
  BY InitEstablishes
<1>1. \A o \in Orders :
        /\ o \in Earlier => /\ ex[o] = [st |-> "COMPLETED", side |-> "BUY",
                                       size |-> MaxSize, filled |-> MaxSize]
                           /\ trades[o] = [st |-> "COMPLETED", side |-> "BUY", size |-> MaxSize]
                           /\ rows[o] = NewRow(MaxSize)
        /\ o \notin Earlier => ex[o] = NoOrder /\ trades[o] = NoTrade /\ rows[o] = NoRow
        /\ mon[o].pc = "none"
  BY DEF Init, Asleep
<1>2. MaxSize \in Nat /\ MaxSize > 0
  BY BookAssumption
<1>3. OrdersEnd
  BY <1>1, <1>2 DEF OrdersEnd, NoOrder, NoTrade, Terminal
<1>4. MonitorsBook /\ SellsCovered
  BY <1>1 DEF MonitorsBook, SellsCovered, Init, Idle, Working
<1>5. Balanced
  <2>1. BookedUnits("SELL") = 0
    <3>1. \A o \in Orders : BookedOf("SELL")[o] = 0
      BY <1>1 DEF BookedOf, NoOrder
    <3>2. QED BY <3>1, OrdersFinite, SumZero DEF BookedUnits
  <2>2. OpenSize(rows) <= BookedUnits("BUY")
    <3>1. /\ Summable(Remaining(rows), Orders)
          /\ OpenSize(rows) = SumFunctionOnSet(Remaining(rows), Orders)
      BY <1>0, OpenSizeSum DEF IndInv, TypeOK
    <3>2. \A o \in Orders : Remaining(rows)[o] <= BookedOf("BUY")[o]
      <4> SUFFICES ASSUME NEW o \in Orders PROVE Remaining(rows)[o] <= BookedOf("BUY")[o]
        OBVIOUS
      <4>1. CASE o \in Earlier
        <5>1. trades[o] # NoTrade
          BY <1>1, <4>1 DEF NoTrade
        <5>2. BookedOf("BUY")[o] = MaxSize
          BY <1>1, <4>1, <5>1 DEF BookedOf
        <5>3. Remaining(rows)[o] \in {MaxSize, 0}
          BY <1>1, <4>1 DEF Remaining, NewRow
        <5>4. QED BY <1>2, <5>2, <5>3
      <4>2. CASE o \notin Earlier
        BY <1>1, <4>2 DEF BookedOf, Remaining, OpenPositions, IsOpen, NoRow
      <4>3. QED BY <4>1, <4>2
    <3>3. Summable(BookedOf("BUY"), Orders)
      BY <1>0, BookedSum
    <3>4. QED BY <3>1, <3>2, <3>3, SumAtMost DEF BookedUnits
  <2>3. OpenSize(rows) \in Nat /\ BookedUnits("BUY") \in Nat
    BY <1>0, OpenSizeSum, BookedSum DEF IndInv, TypeOK
  <2>4. QED BY <2>1, <2>2, <2>3 DEF Balanced
<1>6. QED BY <1>3, <1>4, <1>5 DEF HeldInv

\* A step of a monitor writes nothing HeldPosition sees, or books its order.
LEMMA HeldMonitor ==
  ASSUME Faults \subseteq MildFaults, IndInv, SerialInv, HeldInv, IndInv',
         NEW o \in Orders, Monitor(o)
  PROVE  HeldInv' /\ (Held!Book(o) \/ UNCHANGED Held!vars)
<1>1. ~Failure(o)
  BY DEF Failure, PrepareFails, TransactionFails, MildFaults
<1>2. ~Fallback(o)
  BY DEF Fallback, FallbackBuy, FallbackPrepareSell, FallbackRewrite,
         FallbackRewritten, FallbackTrade, HeldInv, MonitorsBook
<1>3. QED BY <1>1, <1>2, HeldLook, HeldSave DEF Monitor, Save

\* Every step keeps the books of HeldPosition.
LEMMA HeldNext ==
  ASSUME Faults \subseteq MildFaults, IndInv, SerialInv, HeldInv, IndInv', [Next]_vars
  PROVE  HeldInv' /\ (Held!Next \/ UNCHANGED Held!vars)
<1>1. CASE Worker
  <2>1. ASSUME NEW o \in Orders, PlaceOrder(o) PROVE HeldInv' /\ Held!Next
    BY <2>1, HeldPlace DEF Held!Next
  <2>2. ASSUME NEW o \in Orders, ReplyLost(o) PROVE FALSE
    BY <2>2 DEF ReplyLost, MildFaults
  <2>3. CASE CloseGhostPositions
    BY <2>3, HeldGhosts DEF Held!Next
  <2>4. QED BY <1>1, <2>1, <2>2, <2>3, HeldWorker DEF Worker
<1>2. CASE Transfer \/ CacheAges \/ ReadBalance \/ UNCHANGED vars
  <2>1. UNCHANGED <<ex, mon, rows, trades, sw>>
    BY <1>2 DEF Transfer, CacheAges, ReadBalance, vars
  <2>2. QED BY <2>1, HeldQuiet DEF HeldInv, SellsCovered
<1>3. ASSUME NEW o \in Orders, Execute(o) \/ Kill(o)
      PROVE  HeldInv' /\ (Held!Next \/ UNCHANGED Held!vars)
  BY <1>3, HeldExchange DEF Held!Next
<1>4. CASE Crash
  BY <1>4 DEF Crash, MildFaults
<1>5. ASSUME NEW o \in Orders, Monitor(o)
      PROVE  HeldInv' /\ (Held!Next \/ UNCHANGED Held!vars)
  BY <1>5, HeldMonitor DEF Held!Next
<1>6. QED BY <1>1, <1>2, <1>3, <1>4, <1>5 DEF Next, Exchange

\* What SELLs executed is booked, but for the one order under way, and that one is
\* covered by the open positions.
LEMMA SellsCovers ==
  ASSUME IndInv, SerialInv, HeldInv
  PROVE  SellsOnlyItsOwn
<1>0. OpenSize(rows) \in Nat /\ \A o \in Orders : ex[o].filled \in Nat /\ ex[o].size \in Nat
  BY BookAssumption, OpenSizeSum DEF IndInv, TypeOK, Sizes
<1>1. \A s : /\ Summable(BookedOf(s), Orders) /\ Summable(ExecutedOf(s), Orders)
            /\ BookedUnits(s) = SumFunctionOnSet(BookedOf(s), Orders) /\ BookedUnits(s) \in Nat
            /\ Executed(s) = SumFunctionOnSet(ExecutedOf(s), Orders)
            /\ \A o \in Orders : BookedOf(s)[o] <= ExecutedOf(s)[o]
  <2> SUFFICES ASSUME NEW s
      PROVE  /\ Summable(BookedOf(s), Orders) /\ Summable(ExecutedOf(s), Orders)
             /\ BookedUnits(s) = SumFunctionOnSet(BookedOf(s), Orders) /\ BookedUnits(s) \in Nat
             /\ Executed(s) = SumFunctionOnSet(ExecutedOf(s), Orders)
             /\ \A o \in Orders : BookedOf(s)[o] <= ExecutedOf(s)[o]
    OBVIOUS
  <2>1. \A o \in Orders : BookedOf(s)[o] <= ExecutedOf(s)[o]
    BY <1>0 DEF BookedOf, ExecutedOf
  <2>2. QED BY <2>1, BookedSum DEF BookedUnits, Executed, ExecutedOf
<1>2. BookedUnits("BUY") <= Executed("BUY")
  BY <1>1, SumAtMost
<1>3. Executed("BUY") \in Int /\ Executed("SELL") \in Int
  BY <1>1, SumInt
<1>4. CASE \A o \in Orders : ex[o].side = "SELL" /\ trades[o] = NoTrade => ex[o].filled = 0
  <2>1. ExecutedOf("SELL") = BookedOf("SELL")
    BY <1>4 DEF ExecutedOf, BookedOf
  <2>2. Executed("SELL") = BookedUnits("SELL")
    BY <1>1, <2>1
  <2>3. QED BY <1>0, <1>1, <1>2, <1>3, <2>2 DEF HeldInv, Balanced, SellsOnlyItsOwn
<1>5. ASSUME NEW o \in Orders, ex[o].side = "SELL", trades[o] = NoTrade, ex[o].filled # 0
      PROVE  SellsOnlyItsOwn
  <2>1. mon[o].pc \in {"watch", "save", "commit"}
    BY <1>5 DEF HeldInv, OrdersEnd
  <2>2. ex[o].filled <= OpenSize(rows)
    <3>1. ex[o].size <= OpenSize(rows) /\ ex[o].filled <= ex[o].size
      BY <1>5, <2>1 DEF HeldInv, SellsCovered, IndInv, OrdersInRange
    <3>2. QED BY <1>0, <3>1
  <2>3. \A p \in Orders \ {o} : mon[p].pc \notin Busy
    BY <2>1 DEF SerialInv, InFlight, Busy
  <2>4. \A p \in Orders \ {o} : trades[p] = NoTrade => ex[p].filled = 0
    BY <2>3 DEF HeldInv, OrdersEnd, Busy
  <2>5. \A p \in Orders \ {o} : BookedOf("SELL")[p] = ExecutedOf("SELL")[p]
    BY <2>4 DEF BookedOf, ExecutedOf
  <2>6. BookedOf("SELL")[o] = 0 /\ ExecutedOf("SELL")[o] = ex[o].filled
    BY <1>5 DEF BookedOf, ExecutedOf
  <2>7. Executed("SELL")
          = BookedUnits("SELL") + (ExecutedOf("SELL")[o] - BookedOf("SELL")[o])
    BY <1>1, <2>5, SumUpdate
  <2>8. Executed("SELL") = BookedUnits("SELL") + ex[o].filled
    BY <1>0, <1>1, <2>6, <2>7
  <2>9. QED BY <1>0, <1>1, <1>2, <1>3, <2>2, <2>8 DEF HeldInv, Balanced, SellsOnlyItsOwn
<1>6. QED BY <1>4, <1>5

\* One order under way at a time, no order that ends unexecuted and no failure of the
\* database: the bot never sells units it did not buy, whatever else the account holds,
\* however old the balance it sizes from, and whatever the owner moves out.
THEOREM SellsOnlyOwnSerially ==
  ASSUME MaxInFlight = 1, Faults \subseteq MildFaults
  PROVE  Spec => []SellsOnlyItsOwn
<1>1. Init => SerialInv /\ HeldInv
  BY SerialInit, HeldInit
<1>2. IndInv /\ SerialInv /\ HeldInv /\ [Next]_vars => SerialInv' /\ HeldInv'
  BY NextPreserves, SerialNext, HeldNext
<1>3. IndInv /\ SerialInv /\ HeldInv => SellsOnlyItsOwn
  BY SellsCovers
<1>4. QED BY <1>1, <1>2, <1>3, AlwaysIndInv, PTL DEF Spec

\* Under the same conditions, sizing, monitoring and first-in-first-out booking keep the
\* books of HeldPosition: every order is booked once, for the units it executed, and a
\* SELL never for more than is held.  (The safety part of ImplementsHeldPosition, whose
\* fairness only TLC checks.)
THEOREM KeepsBooksSerially ==
  ASSUME MaxInFlight = 1, Faults \subseteq MildFaults, OpenAtStart = FALSE
  PROVE  Spec => Held!Init /\ [][Held!Next]_(Held!vars)
<1>1. Init => SerialInv /\ HeldInv
  BY SerialInit, HeldInit
<1>2. IndInv /\ SerialInv /\ HeldInv /\ [Next]_vars => SerialInv' /\ HeldInv'
  BY NextPreserves, SerialNext, HeldNext
<1>3. IndInv /\ SerialInv /\ HeldInv /\ [Next]_vars => [Held!Next]_(Held!vars)
  BY NextPreserves, HeldNext
<1>4. Init => Held!Init
  <2> SUFFICES ASSUME Init PROVE Held!Init
    OBVIOUS
  <2>1. \A o \in Orders : ex[o] = NoOrder /\ trades[o] = NoTrade /\ rows[o] = NoRow
    BY DEF Init, Earlier
  <2>2. OpenPositions(rows) = {}
    BY <2>1 DEF OpenPositions, IsOpen, NoRow
  <2>3. OpenSize(rows) = 0
    BY <2>2, SumEmpty DEF OpenSize
  <2>4. QED BY <2>1, <2>3 DEF Held!Init, NoOrder
<1>5. QED BY <1>1, <1>2, <1>3, <1>4, AlwaysIndInv, PTL DEF Spec

\* Under the same conditions a SELL, when it is booked, takes from the open positions
\* exactly what it executed.  (With two monitors at work, the run double_match shows, it
\* need not: both match against the same rows.)
THEOREM SellsTakeSerially ==
  ASSUME MaxInFlight = 1, Faults \subseteq MildFaults
  PROVE  Spec => SellTakesWhatItFilled
<1>1. Init => SerialInv /\ HeldInv
  BY SerialInit, HeldInit
<1>2. IndInv /\ SerialInv /\ HeldInv /\ [Next]_vars => SerialInv' /\ HeldInv'
  BY NextPreserves, SerialNext, HeldNext
<1>3. IndInv /\ SerialInv /\ HeldInv /\ [Next]_vars =>
        [\A o \in Orders :
           trades[o] = NoTrade /\ trades'[o] # NoTrade /\ ex[o].side = "SELL" =>
             OpenSize(rows') = OpenSize(rows) - Min({ex[o].filled, OpenSize(rows)})]_vars
  <2> SUFFICES ASSUME IndInv, SerialInv, HeldInv, [Next]_vars, NEW o \in Orders,
                      trades[o] = NoTrade, trades'[o] # NoTrade, ex[o].side = "SELL"
      PROVE  OpenSize(rows') = OpenSize(rows) - Min({ex[o].filled, OpenSize(rows)})
    OBVIOUS
  <2>1. Held!Next \/ UNCHANGED Held!vars
    BY NextPreserves, HeldNext
  <2>2. /\ o \notin {p \in Orders : trades[p] # NoTrade}
        /\ o \in {p \in Orders : trades'[p] # NoTrade}
    OBVIOUS
  <2>3. ~UNCHANGED Held!vars /\ ~Held!WriteOff
        /\ \A p \in Orders : ~Held!Place(p) /\ ~Held!Execute(p)
    BY <2>2 DEF Held!vars, Held!WriteOff, Held!Place, Held!Execute
  <2>4. PICK p \in Orders : Held!Book(p)
    BY <2>1, <2>3 DEF Held!Next
  <2>5. p = o
    BY <2>2, <2>4 DEF Held!Book
  <2>6. /\ ex[o].filled > 0 /\ ex[o].filled \in Nat /\ OpenSize(rows) \in Nat
        /\ ex[o].st # "none" => ex[o].filled <= OpenSize(rows)
        /\ ex[o].st # "none" => OpenSize(rows') = OpenSize(rows) - ex[o].filled
    BY <2>4, <2>5, BookAssumption, OpenSizeSum DEF Held!Book, IndInv, TypeOK, Sizes
  <2>7. ex[o].st # "none"
    BY <2>6 DEF HeldInv, OrdersEnd
  <2>8. Min({ex[o].filled, OpenSize(rows)}) = ex[o].filled
    <3>1. ex[o].filled \in Int /\ OpenSize(rows) \in Int
      BY <2>6
    <3>2. QED BY <2>6, <2>7, <3>1, MinOfTwo
  <2>9. QED BY <2>6, <2>7, <2>8
<1>4. QED BY <1>1, <1>2, <1>3, AlwaysIndInv, PTL DEF Spec, SellTakesWhatItFilled
=============================================================================
