------------------------------- MODULE FifoLedger -------------------------------
(***************************************************************************)
(* What profit-and-loss accounting promises: a queue of the units held,    *)
(* oldest first, each with the price paid for it, and the profit realised  *)
(* so far.  A sale takes units from the front of the queue and realises    *)
(* the difference for those units only; what is sold beyond the queue has  *)
(* no known cost and earns nothing.  Every order also pays its fee.        *)
(***************************************************************************)
EXTENDS Integers, Sequences, Functions

CONSTANTS Ages,     \* placement order of the BUYs (a set of naturals)
          Amounts,  \* units one order may fill
          Prices,   \* prices in JPY per unit
          Fees      \* commissions

VARIABLES queue,    \* units held: sequence of [age, price], sorted by age
          realised  \* profit booked so far

vars == <<queue, realised>>

Lesser(a, b) == IF a < b THEN a ELSE b

\* n units bought at price by the order placed at age a.
Lot(a, n, price) == [i \in 1 .. n |-> [age |-> a, price |-> price]]

Init == queue = <<>> /\ realised = 0

\* A lot goes after the units that are older and before those that are younger.
Buy(a, n, price, fee) ==
  /\ \E older \in 0 .. Len(queue) :
       /\ \A i \in 1 .. Len(queue) : IF i <= older THEN queue[i].age < a ELSE queue[i].age > a
       /\ queue' = SubSeq(queue, 1, older) \o Lot(a, n, price)
                     \o SubSeq(queue, older + 1, Len(queue))
  /\ realised' = realised - fee

Sell(n, price, fee) ==
  LET k == Lesser(n, Len(queue))
      gain == SumFunctionOnSet([i \in 1 .. k |-> price - queue[i].price], 1 .. k)
  IN /\ queue' = SubSeq(queue, k + 1, Len(queue))
     /\ realised' = realised + gain - fee

\* The units left are written off without booking a profit or a loss.
WriteOff == queue' = <<>> /\ UNCHANGED realised

Next ==
  \/ \E a \in Ages, n \in Amounts, price \in Prices, fee \in Fees : Buy(a, n, price, fee)
  \/ \E n \in Amounts \cup {0}, price \in Prices, fee \in Fees : Sell(n, price, fee)
  \/ WriteOff

Spec == Init /\ [][Next]_vars
=============================================================================
