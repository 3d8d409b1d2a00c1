------------------------------ MODULE PnlCalculator ------------------------------
(***************************************************************************)
(* pnl.Calculator.CalculateAndSave for one symbol, one order at a time: a  *)
(* BUY opens a position, a SELL is matched against the open positions      *)
(* first in, first out, and the trade is booked with its profit.  Orders   *)
(* reach the calculator when their monitors see them finish, so not in the *)
(* order they were placed.  (Two orders at once, failing transactions and  *)
(* orders that filled nothing are the subject of TradeExecution.)          *)
(***************************************************************************)
EXTENDS PositionBook, SequencesExt

CONSTANTS Prices,    \* average execution prices, JPY per unit
          Fees       \* commissions

ASSUME PriceAssumption == Prices \subseteq Nat \ {0} /\ Fees \subseteq Nat

VARIABLES rows,      \* positions table: Orders -> Row
          entry,     \* entry_price of each row (0 while there is none)
          trades,    \* orders with a row in the trades table
          realised   \* sum of trades.pnl

vars == <<rows, entry, trades, realised>>

\* Slip: the last position is used up even if less is left to match.
GreedyMatchStep(st, o) ==
  IF st.left <= 0 THEN st
  ELSE [left  |-> st.left - rows[o].rem,
        cost  |-> st.cost + entry[o] * rows[o].rem,
        match |-> [st.match EXCEPT ![o] = rows[o].rem]]

(***************************************************************************)
(* The loop of prepareSellData: walks the open positions oldest first with *)
(* the units still to match and the cost of the matched ones.              *)
(***************************************************************************)
MatchStep(st, o) ==
  LET k == Min({st.left, rows[o].rem})
  IN IF st.left <= 0 THEN st
     ELSE [left  |-> st.left - k,
           cost  |-> st.cost + entry[o] * k,
           match |-> [st.match EXCEPT ![o] = k]]

MatchLoop(f) ==
  LET st[o \in 0 .. MaxOrders] ==
        IF o = 0 THEN [left |-> f, cost |-> 0, match |-> NoMatch]
        ELSE IF o \in OpenPositions(rows) THEN MatchStep(st[o - 1], o) ELSE st[o - 1]
  IN st[MaxOrders]

\* Slip: revenue of the whole fill, as the calculator once had it.
WholeFillPnl(f, price, fee) ==
  LET end == MatchLoop(f)
  IN IF f - end.left > 0 THEN price * f - end.cost - fee ELSE -fee

\* Revenue counts the matched units only; without any the fee is all there is.
SellPnl(f, price, fee) ==
  LET end == MatchLoop(f)
      matched == f - end.left
  IN IF matched > 0 THEN price * matched - end.cost - fee ELSE -fee

Init == /\ rows = [o \in Orders |-> NoRow]
        /\ entry = [o \in Orders |-> 0]
        /\ trades = {}
        /\ realised = 0

RecordBuy(o, n, price, fee) ==
  /\ o \notin trades
  /\ rows' = [rows EXCEPT ![o] = NewRow(n)]
  /\ entry' = [entry EXCEPT ![o] = price]
  /\ trades' = trades \cup {o}
  /\ realised' = realised - fee

RecordSell(o, f, price, fee) ==
  /\ o \notin trades
  /\ LET upd == MatchedRows(rows, MatchLoop(f).match)
     IN rows' = [p \in Orders |-> IF upd[p] # NoRow THEN upd[p] ELSE rows[p]]
  /\ trades' = trades \cup {o}
  /\ realised' = realised + SellPnl(f, price, fee)
  /\ UNCHANGED entry

\* The signal worker closes the positions it cannot sell.
CloseGhostPositions ==
  /\ OpenPositions(rows) # {}
  /\ rows' = CloseAll(rows)
  /\ UNCHANGED <<entry, trades, realised>>

Next ==
  \/ \E o \in Orders, n \in Sizes \ {0}, price \in Prices, fee \in Fees :
        RecordBuy(o, n, price, fee)
  \/ \E o \in Orders, f \in Sizes, price \in Prices, fee \in Fees :
        RecordSell(o, f, price, fee)
  \/ CloseGhostPositions

Spec == Init /\ [][Next]_vars

-----------------------------------------------------------------------------
\* Every row's sizes and every booked order stay within the tables' types.
TypeOK == /\ rows \in [Orders -> Row]
          /\ entry \in [Orders -> Prices \cup {0}]
          /\ trades \subseteq Orders
          /\ realised \in Int

\* The matching loop takes from the positions exactly what first-in-first-out
\* matching asks for, whatever the positions and the fill.
LoopIsFifo == \A f \in Sizes : FifoMatches(rows, f) = {MatchLoop(f).match}

\* The units the open positions stand for, oldest first.
HeldUnits ==
  FlattenSeq([o \in Orders |->
                [i \in 1 .. (IF IsOpen(rows[o]) THEN rows[o].rem ELSE 0) |->
                   [age |-> o, price |-> entry[o]]]])

Ledger == INSTANCE FifoLedger WITH
            Ages <- Orders, Amounts <- Sizes \ {0}, queue <- HeldUnits

\* Booking positions and trades row by row realises the same profit as a queue
\* of single units from which every SELL takes the oldest.
ImplementsFifoLedger == Ledger!Spec
=============================================================================
