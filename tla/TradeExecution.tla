----------------------------- MODULE TradeExecution -----------------------------
(***************************************************************************)
(* How a trading signal becomes rows of the database, for one symbol: the  *)
(* signal worker sizes an order and the trader places it; the exchange     *)
(* executes it; one monitor per order polls the exchange and has the       *)
(* profit-and-loss calculator book the outcome.  The signal worker is one  *)
(* goroutine, every monitor is another; they share the positions table,    *)
(* the balance cache and the wallet on the exchange.                       *)
(*                                                                         *)
(* Prices, fees and profits are the subject of PnlCalculator.  JPY is      *)
(* assumed to suffice or the signal to be rejected, which changes nothing. *)
(***************************************************************************)
EXTENDS PositionBook

CONSTANTS
  LotSize,          \* minimum order size of the symbol, in units
  SellPct,          \* sell_size_percentage, in percent
  PositionLimit,    \* max_open_positions_per_symbol, 0 = off
  SharedWallet,     \* the account also holds assets of others
  MaxRetries,       \* RetryPolicy.MaxRetries
  BuyQuantities,    \* quantities of BUY signals, before and after auto-scaling
  SellQuantities,   \* quantities of SELL signals, 0 = everything
  InitialWallet,    \* units in the account the bot did not buy
  OpenAtStart,      \* bound: a position of MaxSize units exists from the start
  MaxInFlight,      \* bound: orders under way when a signal is taken
  Faults            \* what may go wrong

AllFaults ==
  {"unfilled",  \* an order ends without any execution
   "slow",      \* an order outlives its 90 seconds of monitoring
   "lookup",    \* the exchange does not answer the last status request
   "missing",   \* the exchange's answer does not list the order
   "reply",     \* the answer to an order request is lost
   "balance",   \* the exchange does not answer a balance request
   "db",        \* a database call fails
   "old",       \* the cached balance ages
   "transfer",  \* the owner of the account moves units out of it
   "crash"}     \* the process stops and is started again

ASSUME TradeAssumption ==
  /\ LotSize \in Nat \ {0}
  /\ SellPct \in 1 .. 100
  /\ PositionLimit \in Nat
  /\ SharedWallet \in BOOLEAN
  /\ MaxRetries \in Nat
  /\ BuyQuantities \subseteq Nat
  /\ SellQuantities \subseteq Nat
  /\ InitialWallet \in Nat
  /\ OpenAtStart \in BOOLEAN
  /\ MaxInFlight \in Nat \ {0}
  /\ Faults \subseteq AllFaults

VARIABLES
  ex,       \* exchange: the orders it has accepted
  wallet,   \* exchange: units available, those reserved by open SELLs excluded
  sw,       \* signal worker: where it is and the order it works on
  mon,      \* order monitors and the local copy of the order each keeps
  cache,    \* balance cache: [st, amt]
  rows,     \* database: positions
  trades    \* database: trades

vars == <<ex, wallet, sw, mon, cache, rows, trades>>

Terminal == {"COMPLETED", "CANCELED"}      \* CANCELED: also EXPIRED and REJECTED
OrderStates == {"none", "ACTIVE"} \cup Terminal
Sides == {"BUY", "SELL"}

NoOrder == [st |-> "none", side |-> "BUY", size |-> 0, filled |-> 0]
NoTrade == [st |-> "none", side |-> "BUY", size |-> 0]
NoPlan == [o \in Orders |-> NoRow]

Working(pc, side, size) ==
  [pc |-> pc, side |-> side, size |-> size, avail |-> 0, tries |-> 0]
Idle == Working("idle", "BUY", 0)
Asleep(pc) == [pc |-> pc, st |-> "none", filled |-> 0, last |-> FALSE, plan |-> NoPlan]

Busy == {"watch", "save", "commit", "fallback", "rewrite", "trade", "after"}
MonPcs == Busy \cup {"none", "done"}

InFlight == {o \in Orders : mon[o].pc \in Busy}
Placed == {o \in Orders : ex[o].st # "none"}

\* A balance cache without a timestamp.
Invalidated == [st |-> "none", amt |-> 0]

\* Orders get their numbers from the exchange, one after the other.
FreeOrders == Orders \ Placed

\* The orders booked before the behaviour begins: none, or a BUY of MaxSize.
Earlier == IF OpenAtStart THEN {1} ELSE {}

Init ==
  /\ ex = [o \in Orders |->
             IF o \in Earlier THEN [st |-> "COMPLETED", side |-> "BUY",
                                   size |-> MaxSize, filled |-> MaxSize]
             ELSE NoOrder]
  /\ wallet = InitialWallet + (IF OpenAtStart THEN MaxSize ELSE 0)
  /\ sw = Idle
  /\ mon = [o \in Orders |-> Asleep("none")]
  /\ cache = Invalidated
  /\ rows = [o \in Orders |-> IF o \in Earlier THEN NewRow(MaxSize) ELSE NoRow]
  /\ trades = [o \in Orders |->
                 IF o \in Earlier
                 THEN [st |-> "COMPLETED", side |-> "BUY", size |-> MaxSize]
                 ELSE NoTrade]

-----------------------------------------------------------------------------
(* Balance cache.  "fresh": younger than 60 seconds; "stale": younger than *)
(* 10 minutes; "none": older, never filled, or invalidated, which resets   *)
(* the timestamp and so rules the stale answer out as well.                *)

\* What BalanceService.GetBalance may answer and leave in the cache.
BalanceReplies ==
  IF cache.st = "fresh" THEN {[ok |-> TRUE, amt |-> cache.amt, cache |-> cache]}
  ELSE {[ok |-> TRUE, amt |-> wallet, cache |-> [st |-> "fresh", amt |-> wallet]]}
       \cup {[ok |-> cache.st = "stale", amt |-> cache.amt, cache |-> cache] :
               f \in Faults \cap {"balance"}}

CacheAges ==
  /\ "old" \in Faults
  /\ cache.st # "none"
  /\ cache' = IF cache.st = "fresh" THEN [cache EXCEPT !.st = "stale"] ELSE Invalidated
  /\ UNCHANGED <<ex, wallet, sw, mon, rows, trades>>

\* The web API asks for the balance.
ReadBalance ==
  /\ cache.st # "fresh"
  /\ \E b \in BalanceReplies : cache' = b.cache
  /\ UNCHANGED <<ex, wallet, sw, mon, rows, trades>>

-----------------------------------------------------------------------------
(* Signal worker                                                           *)

FloorToLot(q) == (q \div LotSize) * LotSize

\* Slip: off by one.
UpToPositionLimit ==
  PositionLimit = 0 \/ Cardinality(OpenPositions(rows)) <= PositionLimit

BelowPositionLimit ==
  PositionLimit = 0 \/ Cardinality(OpenPositions(rows)) < PositionLimit

\* applyAutoScaleToBuySignal: the quantity is raised, as far as the JPY balance, the
\* cap and the fee allow, and rounded down to lots.  Where they would have it lowered,
\* the signal is dropped.
BuySizes(q) == {FloorToLot(scaled) : scaled \in {p \in BuyQuantities : p >= q}}

\* A BUY signal that passes the risk checks.
\* Bound: purchases of more than MaxSize units are not followed.
TakeBuySignal ==
  /\ sw.pc = "idle"
  /\ FreeOrders # {} /\ Cardinality(InFlight) < MaxInFlight
  /\ \E q \in BuyQuantities, b \in BalanceReplies :
        /\ b.ok
        /\ BelowPositionLimit \/ "db" \in Faults   \* unreadable: no limit
        /\ cache' = b.cache
        /\ \E size \in BuySizes(q) \cap (Sizes \ {0}) : sw' = Working("order", "BUY", size)
  /\ UNCHANGED <<ex, wallet, mon, rows, trades>>

\* A SELL signal that passes the risk checks; sw.size is what it asks for.
TakeSellSignal ==
  /\ sw.pc = "idle"
  /\ FreeOrders # {} /\ Cardinality(InFlight) < MaxInFlight
  /\ \E q \in SellQuantities, b \in BalanceReplies :
        /\ b.ok
        /\ cache' = b.cache
        /\ sw' = Working("holdings", "SELL", q)
  /\ UNCHANGED <<ex, wallet, mon, rows, trades>>

\* getAvailableSellSize, up to the wallet balance.
ReadHoldings ==
  /\ sw.pc = "holdings"
  /\ \E b \in BalanceReplies :
        /\ cache' = b.cache
        /\ sw' = [sw EXCEPT !.pc = IF b.ok /\ b.amt > 0 THEN "size" ELSE "skip",
                            !.avail = IF b.ok THEN b.amt ELSE 0]
  /\ UNCHANGED <<ex, wallet, mon, rows, trades>>

\* Slip: exits sized from the wallet, as they once were.
WalletSellable(avail, readable) == avail

\* What may be sold, by whether the open positions can be read.
Sellable(avail, readable) ==
  IF readable THEN Min({avail, OpenSize(rows)})
  ELSE IF SharedWallet THEN 0 ELSE avail

\* The quantity asked for if the holdings cover it, else the configured share of
\* them in whole lots, else one lot, else nothing.
SellSize(asked, sellable) ==
  LET share == FloorToLot((sellable * SellPct) \div 100)
  IN IF asked > 0 /\ asked < sellable THEN asked
     ELSE IF share > 0 THEN share
     ELSE IF sellable >= LotSize THEN LotSize ELSE 0

\* Bound: sales of more than MaxSize units are not followed.
SizeSell ==
  /\ sw.pc = "size"
  /\ \E readable \in {TRUE} \cup {FALSE : f \in Faults \cap {"db"}} :
        LET size == SellSize(sw.size, Sellable(sw.avail, readable))
        IN /\ size \in Sizes
           /\ sw' = IF size > 0 THEN Working("order", "SELL", size)
                    ELSE Working("skip", "SELL", 0)
  /\ UNCHANGED <<ex, wallet, mon, cache, rows, trades>>

\* closeGhostPositions: a SELL that cannot be sized closes what is open.
CloseGhostPositions ==
  /\ sw.pc = "skip"
  /\ sw' = Idle
  /\ \/ rows' = CloseAll(rows)
     \/ "db" \in Faults /\ UNCHANGED rows
  /\ UNCHANGED <<ex, wallet, mon, cache, trades>>

\* The balance check of PlaceOrder; a MARKET BUY needs no more than some JPY.
CheckBalance ==
  /\ sw.pc = "order"
  /\ \E b \in BalanceReplies :
        /\ cache' = b.cache
        /\ sw' = IF b.ok /\ (sw.side = "SELL" => sw.size <= b.amt)
                 THEN [sw EXCEPT !.pc = "send"]
                 ELSE Idle
  /\ UNCHANGED <<ex, wallet, mon, rows, trades>>

\* What buildOrderRequest asks for, as the exchange keeps it.
Request == [st |-> "ACTIVE", side |-> sw.side, size |-> sw.size, filled |-> 0]

\* What buildOrderResult makes of the answer: an order of which nothing is executed,
\* whatever the exchange did since.  The monitor keeps it as its copy.
Result == [Asleep("watch") EXCEPT !.st = "ACTIVE"]

\* The exchange accepts the order the worker sends and gives it number o.
Accept(o) ==
  /\ sw.pc = "send"
  /\ o \in FreeOrders /\ \A p \in FreeOrders : o <= p
  /\ sw.side = "SELL" => sw.size <= wallet
  /\ ex' = [ex EXCEPT ![o] = Request]
  /\ wallet' = IF sw.side = "SELL" THEN wallet - sw.size ELSE wallet

\* PlaceOrder succeeds: the cache is invalidated and a monitor started.
PlaceOrder(o) ==
  /\ Accept(o)
  /\ cache' = Invalidated
  /\ mon' = [mon EXCEPT ![o] = Result]
  /\ sw' = Idle
  /\ UNCHANGED <<rows, trades>>

\* The exchange answers with an error, which is not retried.
OrderRefused ==
  /\ sw.pc = "send"
  /\ sw' = Idle
  /\ UNCHANGED <<ex, wallet, mon, cache, rows, trades>>

\* A network error: the request is sent again, whether or not the exchange
\* accepted it, unless the retries are used up or the error is not among those
\* that are retried.
TryAgain ==
  \/ sw.tries < MaxRetries /\ sw' = [sw EXCEPT !.tries = @ + 1]
  \/ sw' = Idle

RequestLost ==
  /\ "reply" \in Faults
  /\ sw.pc = "send"
  /\ TryAgain
  /\ UNCHANGED <<ex, wallet, mon, cache, rows, trades>>

ReplyLost(o) ==
  /\ "reply" \in Faults
  /\ Accept(o)
  /\ TryAgain
  /\ UNCHANGED <<mon, cache, rows, trades>>

-----------------------------------------------------------------------------
(* Exchange                                                                *)

\* One unit of the order is executed; the last one completes it.
Execute(o) ==
  /\ ex[o].st = "ACTIVE"
  /\ ex' = [ex EXCEPT ![o] =
               [st |-> IF ex[o].filled + 1 = ex[o].size THEN "COMPLETED" ELSE "ACTIVE",
                side |-> ex[o].side, size |-> ex[o].size, filled |-> ex[o].filled + 1]]
  /\ wallet' = IF ex[o].side = "BUY" THEN wallet + 1 ELSE wallet
  /\ UNCHANGED <<sw, mon, cache, rows, trades>>

\* Immediate-or-cancel: what cannot be executed is given back.
Kill(o) ==
  /\ ex[o].st = "ACTIVE"
  /\ ex[o].filled > 0 \/ "unfilled" \in Faults
  /\ ex' = [ex EXCEPT ![o].st = "CANCELED"]
  /\ wallet' = IF ex[o].side = "SELL" THEN wallet + (ex[o].size - ex[o].filled)
               ELSE wallet
  /\ UNCHANGED <<sw, mon, cache, rows, trades>>

Transfer ==
  /\ "transfer" \in Faults
  /\ wallet > 0
  /\ wallet' = wallet - 1
  /\ UNCHANGED <<ex, sw, mon, cache, rows, trades>>

-----------------------------------------------------------------------------
(* Order monitor                                                           *)

\* What getOrdersForSymbol returns of an order.
Listed(o) == [st |-> ex[o].st, filled |-> ex[o].filled]

\* Slip: only the status is taken over.
StatusSeen(o, pc, last) == [mon[o] EXCEPT !.pc = pc, !.st = ex[o].st, !.last = last]

\* The local copy takes over what the exchange says of the order.
Seen(o, pc, last) ==
  [mon[o] EXCEPT !.pc = pc, !.st = Listed(o).st, !.filled = Listed(o).filled, !.last = last]

\* checkOrderStatus, called every 15 seconds.
Poll(o) ==
  /\ mon[o].pc = "watch"
  /\ mon' = [mon EXCEPT ![o] =
               Seen(o, IF Listed(o).st \in Terminal THEN "save" ELSE "watch", FALSE)]
  /\ UNCHANGED <<ex, wallet, sw, cache, rows, trades>>

\* Slip: the time-out is served only for an order that has ended.
TimeOutOfEnded(o) ==
  /\ mon[o].pc = "watch"
  /\ ex[o].st \in Terminal
  /\ mon' = [mon EXCEPT ![o] = Seen(o, "save", TRUE)]
  /\ UNCHANGED <<ex, wallet, sw, cache, rows, trades>>

\* saveFinalOrderState, after 90 seconds or at shutdown: what the exchange
\* says, the old copy if it does not answer, nothing if it lists no such order.
TimeOut(o) ==
  /\ mon[o].pc = "watch"
  /\ \/ /\ "slow" \in Faults \/ ex[o].st \in Terminal
        /\ mon' = [mon EXCEPT ![o] = Seen(o, "save", TRUE)]
     \/ /\ "lookup" \in Faults
        /\ mon' = [mon EXCEPT ![o] = [mon[o] EXCEPT !.pc = "save", !.last = TRUE]]
     \/ /\ "missing" \in Faults
        /\ mon' = [mon EXCEPT ![o] = Asleep("done")]
  /\ UNCHANGED <<ex, wallet, sw, cache, rows, trades>>

\* Slip: the requested size is booked for a partly executed order.
RequestedSize(o) == ex[o].size

\* The size booked: what was executed, or what was asked for if nothing was.
EffectiveSize(o) == IF mon[o].filled = 0 THEN ex[o].size ELSE mon[o].filled

\* Slip: the monitor goes on watching an order it booked before its end.
BookedAndWatched(o) ==
  IF mon[o].st = "ACTIVE" THEN [Asleep("watch") EXCEPT !.st = "ACTIVE"]
  ELSE Asleep("done")

\* Once the trade is saved, or cannot be: only a poll that found the order
\* completed goes on to refresh the balance.
Booked(o) ==
  IF mon[o].st = "COMPLETED" /\ ~mon[o].last
  THEN [Asleep("after") EXCEPT !.st = "COMPLETED"] ELSE Asleep("done")

\* SaveTrade with the calculator's values.
TradeOf(o) == [st |-> mon[o].st, side |-> ex[o].side, size |-> EffectiveSize(o)]

\* BUY: the position and the trade in one transaction.
SaveBuy(o) ==
  /\ mon[o].pc = "save" /\ ex[o].side = "BUY"
  /\ rows' = [rows EXCEPT ![o] = NewRow(EffectiveSize(o))]
  /\ trades' = [trades EXCEPT ![o] = TradeOf(o)]
  /\ mon' = [mon EXCEPT ![o] = Booked(o)]
  /\ UNCHANGED <<ex, wallet, sw, cache>>

\* What the monitor carries from one of its writes to the next.
Prepared(o, pc, plan) == [mon[o] EXCEPT !.pc = pc, !.plan = plan]

\* SELL: prepareSellData reads the open positions before the transaction.
PrepareSell(o) ==
  /\ mon[o].pc = "save" /\ ex[o].side = "SELL"
  /\ \E m \in FifoMatches(rows, mon[o].filled) :
        mon' = [mon EXCEPT ![o] = Prepared(o, "commit", MatchedRows(rows, m))]
  /\ UNCHANGED <<ex, wallet, sw, cache, rows, trades>>

\* The rows with those of the plan written over them.
Written(plan) == [p \in Orders |-> IF plan[p] # NoRow THEN plan[p] ELSE rows[p]]

\* SELL: the prepared rows and the trade in one transaction.
CommitSell(o) ==
  /\ mon[o].pc = "commit"
  /\ rows' = Written(mon[o].plan)
  /\ trades' = [trades EXCEPT ![o] = TradeOf(o)]
  /\ mon' = [mon EXCEPT ![o] = Booked(o)]
  /\ UNCHANGED <<ex, wallet, sw, cache>>

\* The positions cannot be read: the SELL is not booked at all.
PrepareFails(o) ==
  /\ "db" \in Faults
  /\ mon[o].pc = "save" /\ ex[o].side = "SELL"
  /\ mon' = [mon EXCEPT ![o] = Booked(o)]
  /\ UNCHANGED <<ex, wallet, sw, cache, rows, trades>>

\* The transaction is rolled back; calculateAndSaveWithoutTx takes over.
TransactionFails(o) ==
  /\ "db" \in Faults
  /\ \/ mon[o].pc = "save" /\ ex[o].side = "BUY"
     \/ mon[o].pc = "commit"
  /\ mon' = [mon EXCEPT ![o] = Prepared(o, "fallback", NoPlan)]
  /\ UNCHANGED <<ex, wallet, sw, cache, rows, trades>>

\* Without a transaction, each write may fail and the next is tried anyway.
FallbackBuy(o) ==
  /\ mon[o].pc = "fallback" /\ ex[o].side = "BUY"
  /\ rows' \in {rows, [rows EXCEPT ![o] = NewRow(EffectiveSize(o))]}
  /\ mon' = [mon EXCEPT ![o] = Prepared(o, "trade", NoPlan)]
  /\ UNCHANGED <<ex, wallet, sw, cache, trades>>

FallbackPrepareSell(o) ==
  /\ mon[o].pc = "fallback" /\ ex[o].side = "SELL"
  /\ \/ \E m \in FifoMatches(rows, mon[o].filled) :
          mon' = [mon EXCEPT ![o] = Prepared(o, "rewrite", MatchedRows(rows, m))]
     \/ mon' = [mon EXCEPT ![o] = Prepared(o, "trade", NoPlan)]
  /\ UNCHANGED <<ex, wallet, sw, cache, rows, trades>>

\* The positions of the plan that are still to be written.
ToRewrite(o) == {p \in Orders : mon[o].plan[p] # NoRow}

\* UpdatePosition of the oldest of them.
FallbackRewrite(o) ==
  /\ mon[o].pc = "rewrite"
  /\ \E p \in ToRewrite(o) :
       /\ \A q \in ToRewrite(o) : p <= q
       /\ rows' \in {rows, [rows EXCEPT ![p] = mon[o].plan[p]]}
       /\ mon' = [mon EXCEPT ![o].plan[p] = NoRow]
  /\ UNCHANGED <<ex, wallet, sw, cache, trades>>

FallbackRewritten(o) ==
  /\ mon[o].pc = "rewrite" /\ ToRewrite(o) = {}
  /\ mon' = [mon EXCEPT ![o] = Prepared(o, "trade", NoPlan)]
  /\ UNCHANGED <<ex, wallet, sw, cache, rows, trades>>

FallbackTrade(o) ==
  /\ mon[o].pc = "trade"
  /\ trades' \in {trades, [trades EXCEPT ![o] = TradeOf(o)]}
  /\ mon' = [mon EXCEPT ![o] = Booked(o)]
  /\ UNCHANGED <<ex, wallet, sw, cache, rows>>

\* The cache is invalidated and filled again; the completion callback runs.
RefreshBalance(o) ==
  /\ mon[o].pc = "after"
  /\ cache' \in {[st |-> "fresh", amt |-> wallet]}
               \cup {Invalidated : f \in Faults \cap {"balance"}}
  /\ mon' = [mon EXCEPT ![o] = Asleep("done")]
  /\ UNCHANGED <<ex, wallet, sw, rows, trades>>

\* The monitors, the worker's order and the cache are in memory only; nothing
\* looks for unfinished orders when the process starts again.
Crash ==
  /\ "crash" \in Faults
  /\ \E o \in Orders : mon[o].pc \in Busy
  /\ sw' = Idle
  /\ mon' = [o \in Orders |-> IF mon[o].pc \in Busy THEN Asleep("done") ELSE mon[o]]
  /\ cache' = Invalidated
  /\ UNCHANGED <<ex, wallet, rows, trades>>

-----------------------------------------------------------------------------
Worker == \/ TakeBuySignal \/ TakeSellSignal \/ ReadHoldings \/ SizeSell
          \/ CloseGhostPositions \/ CheckBalance \/ OrderRefused \/ RequestLost
          \/ \E o \in Orders : PlaceOrder(o) \/ ReplyLost(o)

Save(o) == SaveBuy(o) \/ PrepareSell(o) \/ CommitSell(o)

Fallback(o) == \/ FallbackBuy(o) \/ FallbackPrepareSell(o) \/ FallbackRewrite(o)
               \/ FallbackRewritten(o) \/ FallbackTrade(o)

Failure(o) == PrepareFails(o) \/ TransactionFails(o)

Monitor(o) == Poll(o) \/ TimeOut(o) \/ Save(o) \/ Failure(o) \/ Fallback(o) \/ RefreshBalance(o)

Exchange == Transfer \/ \E o \in Orders : Execute(o) \/ Kill(o)

Next == \/ Worker \/ Exchange \/ CacheAges \/ ReadBalance \/ Crash
        \/ \E o \in Orders : Monitor(o)

\* Tickers, timers and goroutines of a running process run on; a busy worker
\* or an exchange that never ends an order are possible.
MonitorFairness == \A o \in Orders : WF_vars(Monitor(o))

\* In ordinary operation the exchange ends every order it accepts.
ExchangeFairness == \A o \in Orders : WF_vars(Execute(o) \/ Kill(o))

Spec == Init /\ [][Next]_vars
MonitorSpec == Spec /\ MonitorFairness
FairSpec == MonitorSpec /\ ExchangeFairness

-----------------------------------------------------------------------------
MonState == [pc : MonPcs, st : OrderStates, filled : Sizes, last : BOOLEAN,
             plan : [Orders -> Row]]

\* Orders, monitors, cache and tables stay within their types: no order fills
\* beyond its size and no row's size leaves the range of order sizes.
TypeOK ==
  /\ ex \in [Orders -> [st : OrderStates, side : Sides, size : Sizes, filled : Sizes]]
  /\ wallet \in Nat
  /\ sw \in [pc : {"idle", "holdings", "size", "skip", "order", "send"}, side : Sides,
            size : Nat, avail : Nat, tries : 0 .. MaxRetries]
  /\ mon \in [Orders -> MonState]
  /\ cache \in [st : {"none", "fresh", "stale"}, amt : Nat]
  /\ rows \in [Orders -> Row]
  /\ trades \in [Orders -> [st : OrderStates, side : Sides, size : Sizes]]

\* In every position the used and the remaining units make up its size, in the
\* table and in the copies that SELLs under way are about to write.
RowsAddUp ==
  \A o \in Orders : RowAdds(rows[o]) /\ \A p \in Orders : RowAdds(mon[o].plan[p])

\* A trade booked with a final status says what the exchange executed, however
\* the monitor came by it (poll, last look, fallback), unless nothing was.
TradesAgree ==
  \A o \in Orders :
    trades[o].st \in Terminal =>
      /\ ex[o].st = trades[o].st /\ ex[o].side = trades[o].side
      /\ ex[o].filled > 0 => trades[o].size = ex[o].filled

\* A trade, once saved, is never overwritten: neither a fallback nor a second
\* look books an order again ("immutable", DESIGN_DOC 8.3).
BookedForGood ==
  [][\A o \in Orders : trades[o] # NoTrade => trades'[o] = trades[o]]_vars

\* Every monitor ends, whatever fails and even if the exchange never answers.
MonitorsEnd == \A o \in Orders : [](mon[o].pc \in Busy => <>(mon[o].pc = "done"))

\* The monitor is between its last look at the exchange and its last write.
Saving == {"save", "commit", "fallback", "rewrite", "trade"}

\* No order executes more than its size, and an active one has units left.
OrdersInRange ==
  \A o \in Orders :
    /\ ex[o].filled <= ex[o].size
    /\ ex[o].st = "ACTIVE" => ex[o].filled < ex[o].size

\* What the worker sends has a size.
WorkerInRange == sw.pc \in {"order", "send"} => sw.size \in Sizes \ {0}

\* A monitor watches an order of the exchange, which has ended if and as the
\* monitor's copy says it has.
CopiesAgree ==
  \A o \in Orders :
    /\ mon[o].pc # "none" => ex[o].st # "none"
    /\ mon[o].pc = "watch" => mon[o].st = "ACTIVE"
    /\ mon[o].pc \in Saving /\ mon[o].st \in Terminal =>
         ex[o].st = mon[o].st /\ ex[o].filled = mon[o].filled

\* Before a monitor's last write its order is not booked.
NotBookedYet ==
  \A o \in Orders : ex[o].st = "none" \/ mon[o].pc \in Saving \cup {"watch"}
                     => trades[o] = NoTrade

\* All of it together is preserved by every step, whatever fails: the monitors'
\* private copies and the half-done bookings never come apart from the
\* exchange's orders and the tables.
IndInv == /\ TypeOK /\ RowsAddUp /\ TradesAgree
          /\ OrdersInRange /\ WorkerInRange /\ CopiesAgree /\ NotBookedYet

Rank == [none |-> 0, OPEN |-> 1, PARTIAL |-> 2, CLOSED |-> 3]

\* A position is only ever used up: used_size grows, remaining_size shrinks and
\* the status moves from OPEN over PARTIAL to CLOSED, never back.
RowsOnlyAge ==
  [][\A o \in Orders :
       rows[o] # NoRow =>
         /\ rows'[o].used >= rows[o].used
         /\ rows'[o].rem <= rows[o].rem
         /\ Rank[rows'[o].st] >= Rank[rows[o].st]]_vars

\* Units executed over all orders of one side.
Executed(side) ==
  SumFunctionOnSet([o \in Orders |-> IF ex[o].side = side THEN ex[o].filled ELSE 0], Orders)

\* The bot never sells units it did not buy: what SELLs executed is covered by
\* what BUYs executed before.
SellsOnlyItsOwn == Executed("SELL") <= Executed("BUY")

\* No more than PositionLimit positions of a symbol are open at any time.
WithinPositionLimit ==
  PositionLimit > 0 => Cardinality(OpenPositions(rows)) <= PositionLimit

\* When a SELL is booked, the open positions shrink by what it executed.
SellTakesWhatItFilled ==
  [][\A o \in Orders :
       trades[o] = NoTrade /\ trades'[o] # NoTrade /\ ex[o].side = "SELL" =>
         OpenSize(rows') = OpenSize(rows) - Min({ex[o].filled, OpenSize(rows)})]_vars

\* A position stands for units the exchange executed.
PositionsWereExecuted ==
  \A o \in Orders : rows[o] # NoRow => rows[o].size <= ex[o].filled

Held == INSTANCE HeldPosition WITH
          side <- [o \in Orders |-> IF ex[o].st = "none" THEN "none" ELSE ex[o].side],
          executed <- [o \in Orders |-> ex[o].filled],
          booked <- {o \in Orders : trades[o] # NoTrade},
          held <- OpenSize(rows)

\* Sizing, monitoring and first-in-first-out booking together keep the books of
\* HeldPosition, and book whatever was executed in the end.
ImplementsHeldPosition == Held!Spec
=============================================================================
