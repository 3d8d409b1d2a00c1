--------------------------- MODULE PnlCalculatorProofs ---------------------------
(***************************************************************************)
(* What booking one order at a time does to positions and profits, for     *)
(* every number of orders and all sizes, prices and fees.                  *)
(*                                                                         *)
(* The matching loop of prepareSellData computes the first-in-first-out    *)
(* match, and no booking leaves the types of the tables.  The argument is  *)
(* the loop's invariant: after the positions up to order n, the units      *)
(* matched and those left to match make up the fill, and units are left    *)
(* only if all positions so far are used up.                               *)
(*                                                                         *)
(* The tables implement the queue of FifoLedger.  Counting the units of    *)
(* the positions up to order n tells which position the i-th unit of the   *)
(* queue belongs to; a BUY shifts the counts from its order on, a SELL     *)
(* lowers them by what it matched, and the cost the loop adds up position  *)
(* by position is what was paid for as many units at the front.            *)
(***************************************************************************)
EXTENDS PnlCalculator, PositionBookProofs, SequenceTheorems

Start(f) == [left |-> f, cost |-> 0, match |-> NoMatch]

\* The loop after position o, from the states before it.
After(f, st, o) ==
  IF o = 0 THEN Start(f)
  ELSE IF o \in OpenPositions(rows) THEN MatchStep(st[o - 1], o) ELSE st[o - 1]

\* The states of the loop exist.
LEMMA LoopDefined ==
  ASSUME NEW f, NEW N \in Nat
  PROVE  \E st : st = [o \in 0 .. N |-> After(f, st, o)]
<1> DEFINE Defined(n) == \E st : st = [o \in 0 .. n |-> After(f, st, o)]
           A == {n \in Nat : Defined(n)}
<1>1. 0 \in A
  <2> DEFINE st == [o \in 0 .. 0 |-> Start(f)]
  <2>1. st = [o \in 0 .. 0 |-> After(f, st, o)]
    BY DEF After
  <2> HIDE DEF st
  <2>2. Defined(0)
    BY <2>1
  <2> HIDE DEF Defined
  <2>3. QED BY <2>2
<1>2. ASSUME NEW n \in Nat, n \in A
      PROVE  n + 1 \in A
  <2>1. PICK g : g = [o \in 0 .. n |-> After(f, g, o)]
    BY <1>2
  <2> DEFINE h == [o \in 0 .. n + 1 |-> IF o <= n THEN g[o] ELSE After(f, g, o)]
  <2>2. \A o \in 0 .. n : h[o] = g[o] /\ g[o] = After(f, g, o)
    BY <2>1
  <2>3. \A o \in 0 .. n + 1 : After(f, h, o) = After(f, g, o)
    <3> SUFFICES ASSUME NEW o \in 0 .. n + 1 PROVE After(f, h, o) = After(f, g, o)
      OBVIOUS
    <3>1. CASE o = 0
      BY <3>1 DEF After
    <3>2. CASE o # 0
      <4>1. o - 1 \in 0 .. n
        BY <3>2
      <4>2. h[o - 1] = g[o - 1]
        BY <2>2, <4>1
      <4> HIDE DEF h
      <4>3. QED BY <4>2 DEF After
    <3>3. QED BY <3>1, <3>2
  <2>4. \A o \in 0 .. n + 1 : h[o] = After(f, g, o)
    <3> SUFFICES ASSUME NEW o \in 0 .. n + 1 PROVE h[o] = After(f, g, o)
      OBVIOUS
    <3>1. CASE o <= n
      <4>1. o \in 0 .. n
        BY <3>1
      <4> HIDE DEF h
      <4>2. QED BY <2>2, <4>1
    <3>2. CASE ~(o <= n)
      BY <3>2
    <3>3. QED BY <3>1, <3>2
  <2>5. h = [o \in 0 .. n + 1 |-> After(f, h, o)]
    <3>1. h = [o \in 0 .. n + 1 |-> h[o]]
      OBVIOUS
    <3> HIDE DEF h
    <3>2. QED BY <2>3, <2>4, <3>1
  <2> HIDE DEF h
  <2>6. Defined(n + 1)
    BY <2>5
  <2> HIDE DEF Defined
  <2>7. QED BY <2>6
<1>3. N \in A
  <2> HIDE DEF A
  <2>1. Nat \subseteq A
    BY <1>1, <1>2, NumberInduction
  <2>2. QED BY <2>1
<1>4. QED BY <1>3

\* The result of the loop is the last of its states.
LEMMA LoopStates ==
  ASSUME NEW f
  PROVE  \E st : /\ st = [o \in 0 .. MaxOrders |-> After(f, st, o)]
                 /\ MatchLoop(f) = st[MaxOrders]
<1> DEFINE st == CHOOSE s : s = [o \in 0 .. MaxOrders |-> After(f, s, o)]
<1>1. st = [o \in 0 .. MaxOrders |-> After(f, st, o)]
  BY LoopDefined, BookAssumption
<1>2. MatchLoop(f) = st[MaxOrders]
  BY DEF MatchLoop, After, Start
<1>3. QED BY <1>1, <1>2

-----------------------------------------------------------------------------
(* The invariant of the loop                                               *)

LoopState == [left : Nat, cost : Int, match : [Orders -> Nat]]

\* What holds of the state s after the positions up to n.
LoopInv(f, s, n) ==
  /\ s \in LoopState
  /\ s.left + SumFunctionOnSet(s.match, Orders) = f
  /\ \A o \in Orders : s.match[o] <= Remaining(rows)[o] /\ (o > n => s.match[o] = 0)
  /\ s.left > 0 => \A o \in OpenPositions(rows) : o <= n => s.match[o] = rows[o].rem
  /\ \A old, young \in OpenPositions(rows) :
       old < young /\ s.match[young] > 0 => s.match[old] = rows[old].rem

\* What the units matched so far add up to.
LEMMA MatchSummable ==
  ASSUME NEW m \in [Orders -> Nat]
  PROVE  Summable(m, Orders) /\ SumFunctionOnSet(m, Orders) \in Nat
<1>1. \A o \in Orders : m[o] \in Int /\ m[o] >= 0
  OBVIOUS
<1>2. Summable(m, Orders)
  BY <1>1, OrdersFinite DEF Summable
<1>3. QED BY <1>1, <1>2, SumNat

\* The invariant holds before the first position.
LEMMA LoopBegins ==
  ASSUME NEW f \in Nat, rows \in [Orders -> Row]
  PROVE  LoopInv(f, Start(f), 0)
<1>1. Start(f) \in LoopState /\ NoMatch \in [Orders -> Nat] /\ \A o \in Orders : NoMatch[o] = 0
  BY DEF Start, LoopState, NoMatch
<1>2. SumFunctionOnSet(NoMatch, Orders) = 0
  BY <1>1, OrdersFinite, SumZero
<1>3. \A o \in Orders : rows[o].rem \in Nat /\ o > 0
  BY BookAssumption DEF Row, Sizes, Orders
<1>4. \A o \in Orders : NoMatch[o] <= Remaining(rows)[o]
  BY <1>1, <1>3 DEF Remaining
<1>5. \A o \in OpenPositions(rows) : o \in Orders
  BY DEF OpenPositions
<1>6. Start(f).left = f /\ Start(f).match = NoMatch
  BY DEF Start
<1>7. Start(f).left + SumFunctionOnSet(Start(f).match, Orders) = f
  BY <1>2, <1>6
<1>8. /\ \A o \in Orders : ~(Start(f).match[o] > 0)
      /\ \A o \in OpenPositions(rows) : ~(o <= 0) /\ ~(Start(f).match[o] > 0)
  <2>1. \A o \in Orders : Start(f).match[o] = 0
    BY <1>1, <1>6
  <2>2. \A o \in Orders : ~(o <= 0)
    BY <1>3, OrdersFinite
  <2> HIDE DEF Start
  <2>3. QED BY <1>5, <2>1, <2>2
<1> HIDE DEF Start
<1>9. QED BY <1>1, <1>4, <1>6, <1>7, <1>8 DEF LoopInv

\* A position of the walk keeps the invariant.
LEMMA LoopContinues ==
  ASSUME NEW f \in Nat, rows \in [Orders -> Row], \A p \in Orders : entry[p] \in Int,
         NEW o \in OpenPositions(rows), NEW s, LoopInv(f, s, o - 1)
  PROVE  LoopInv(f, MatchStep(s, o), o)
<1>0. /\ o \in Orders /\ o \in Nat /\ rows[o].rem \in Nat /\ Remaining(rows)[o] = rows[o].rem
      /\ \A p \in Orders : p \in Nat
      /\ OpenPositions(rows) \subseteq Orders
  BY OrdersFinite, BookAssumption DEF OpenPositions, Row, Sizes, Remaining
<1>1. /\ s \in LoopState /\ s.left \in Nat /\ s.match \in [Orders -> Nat] /\ s.match[o] = 0
  BY <1>0 DEF LoopInv, LoopState
<1>2. CASE s.left <= 0
  <2>1. MatchStep(s, o) = s
    BY <1>2 DEF MatchStep
  <2>2. s.left = 0
    BY <1>1, <1>2
  <2>3. \A p \in Orders : p > o => p > o - 1
    BY <1>0
  <2>4. QED BY <2>1, <2>2, <2>3 DEF LoopInv
<1>3. CASE s.left > 0
  <2> DEFINE k == Min({s.left, rows[o].rem})
             t == [s.match EXCEPT ![o] = k]
  <2>1. k = IF s.left <= rows[o].rem THEN s.left ELSE rows[o].rem
    <3>1. s.left \in Int /\ rows[o].rem \in Int
      BY <1>0, <1>1
    <3>2. QED BY <3>1, MinOfTwo
  <2>2. MatchStep(s, o) = [left |-> s.left - k, cost |-> s.cost + entry[o] * k, match |-> t]
    BY <1>1, <1>3 DEF MatchStep
  <2> HIDE DEF k
  <2>3. k \in Nat /\ k <= s.left /\ k <= rows[o].rem /\ (s.left - k > 0 => k = rows[o].rem)
    BY <1>0, <1>1, <2>1
  <2>4. t \in [Orders -> Nat] /\ t[o] = k /\ \A p \in Orders \ {o} : t[p] = s.match[p]
    BY <1>0, <1>1, <2>3
  <2>5. s.cost + entry[o] * k \in Int /\ s.left - k \in Nat
    BY <1>0, <1>1, <2>3 DEF LoopState
  <2>6. MatchStep(s, o) \in LoopState /\ MatchStep(s, o).left = s.left - k
        /\ MatchStep(s, o).match = t
    BY <2>2, <2>4, <2>5 DEF LoopState
  <2> HIDE DEF t
  <2>7. SumFunctionOnSet(t, Orders) = SumFunctionOnSet(s.match, Orders) + (t[o] - s.match[o])
    <3> DEFINE m == s.match
    <3>1. Summable(t, Orders) /\ Summable(m, Orders)
      BY <1>1, <2>4, MatchSummable
    <3>2. \A p \in Orders \ {o} : m[p] = t[p]
      BY <2>4
    <3> HIDE DEF m
    <3>3. SumFunctionOnSet(t, Orders) = SumFunctionOnSet(m, Orders) + (t[o] - m[o])
      <4>1. o \in Orders
        BY <1>0
      <4>2. QED BY <3>1, <3>2, <4>1, SumUpdate
    <3>4. QED BY <3>3 DEF m
  <2>8. SumFunctionOnSet(s.match, Orders) \in Nat
    BY <1>1, MatchSummable
  <2>9. (s.left - k) + SumFunctionOnSet(t, Orders) = f
    BY <1>1, <2>3, <2>4, <2>7, <2>8 DEF LoopInv
  <2>10. \A p \in Orders : t[p] <= Remaining(rows)[p] /\ (p > o => t[p] = 0)
    <3> SUFFICES ASSUME NEW p \in Orders
                 PROVE  t[p] <= Remaining(rows)[p] /\ (p > o => t[p] = 0)
      OBVIOUS
    <3>1. CASE p = o
      BY <1>0, <2>3, <2>4, <3>1
    <3>2. CASE p # o
      BY <1>0, <2>4, <3>2 DEF LoopInv
    <3>3. QED BY <3>1, <3>2
  <2>11. \A p \in OpenPositions(rows) : p < o => t[p] = rows[p].rem
    BY <1>0, <1>3, <2>4 DEF LoopInv
  <2>12. s.left - k > 0 => \A p \in OpenPositions(rows) : p <= o => t[p] = rows[p].rem
    <3> SUFFICES ASSUME s.left - k > 0, NEW p \in OpenPositions(rows), p <= o
                 PROVE  t[p] = rows[p].rem
      OBVIOUS
    <3>1. CASE p = o
      BY <2>3, <2>4, <3>1
    <3>2. CASE p # o
      <4>1. p < o
        BY <1>0, <3>2
      <4>2. QED BY <2>11, <4>1
    <3>3. QED BY <3>1, <3>2
  <2>13. \A old, young \in OpenPositions(rows) :
           old < young /\ t[young] > 0 => t[old] = rows[old].rem
    <3> SUFFICES ASSUME NEW old \in OpenPositions(rows), NEW young \in OpenPositions(rows),
                        old < young, t[young] > 0
                 PROVE  t[old] = rows[old].rem
      OBVIOUS
    <3>1. young <= o
      BY <1>0, <2>10
    <3>2. QED BY <1>0, <2>11, <3>1
  <2>14. QED BY <2>6, <2>9, <2>10, <2>12, <2>13 DEF LoopInv
<1>4. QED BY <1>1, <1>2, <1>3

\* A closed or missing position is not walked over.
LEMMA LoopSkips ==
  ASSUME NEW f \in Nat, NEW o \in Nat, o \notin OpenPositions(rows), NEW s, LoopInv(f, s, o - 1)
  PROVE  LoopInv(f, s, o)
<1>1. \A p \in Orders : p \in Nat
  BY OrdersFinite
<1>2. \A p \in OpenPositions(rows) : p \in Orders /\ (p <= o => p <= o - 1)
  BY <1>1 DEF OpenPositions
<1>3. QED BY <1>1, <1>2 DEF LoopInv

\* The invariant holds at the end of the loop.
LEMMA LoopEnds ==
  ASSUME NEW f \in Nat, rows \in [Orders -> Row], \A p \in Orders : entry[p] \in Int
  PROVE  LoopInv(f, MatchLoop(f), MaxOrders)
<1>1. PICK st : st = [o \in 0 .. MaxOrders |-> After(f, st, o)] /\ MatchLoop(f) = st[MaxOrders]
  BY LoopStates
<1> DEFINE A == {n \in Nat : n <= MaxOrders => LoopInv(f, st[n], n)}
<1>2. MaxOrders \in Nat
  BY BookAssumption
<1>3. \A n \in 0 .. MaxOrders : st[n] = After(f, st, n)
  BY <1>1
<1>4. 0 \in A
  BY <1>2, <1>3, LoopBegins DEF After
<1>5. ASSUME NEW n \in Nat, n \in A
      PROVE  n + 1 \in A
  <2> SUFFICES ASSUME n + 1 <= MaxOrders PROVE LoopInv(f, st[n + 1], n + 1)
    OBVIOUS
  <2>1. LoopInv(f, st[n], n) /\ n + 1 \in 0 .. MaxOrders /\ (n + 1) - 1 = n /\ n + 1 # 0
    BY <1>2, <1>5
  <2>2. st[n + 1] = IF n + 1 \in OpenPositions(rows) THEN MatchStep(st[n], n + 1) ELSE st[n]
    BY <1>3, <2>1 DEF After
  <2>3. CASE n + 1 \in OpenPositions(rows)
    BY <2>1, <2>2, <2>3, LoopContinues
  <2>4. CASE n + 1 \notin OpenPositions(rows)
    BY <2>1, <2>2, <2>4, LoopSkips
  <2>5. QED BY <2>3, <2>4
<1>6. MaxOrders \in A
  <2> HIDE DEF A
  <2>1. Nat \subseteq A
    BY <1>4, <1>5, NumberInduction
  <2>2. QED BY <1>2, <2>1
<1>7. QED BY <1>1, <1>2, <1>6

-----------------------------------------------------------------------------
(* The loop is first in, first out                                         *)

\* The loop's match is a first-in-first-out match: whatever is left of the fill at the
\* end finds nothing more in the open positions.
LEMMA LoopMatches ==
  ASSUME NEW f \in Sizes, rows \in [Orders -> Row], \A p \in Orders : entry[p] \in Int
  PROVE  MatchLoop(f).match \in FifoMatches(rows, f)
<1>0. f \in Nat /\ f <= MaxSize /\ MaxSize \in Nat /\ MaxOrders \in Nat
  BY BookAssumption DEF Sizes
<1> DEFINE s == MatchLoop(f)
           m == s.match
<1>1. LoopInv(f, s, MaxOrders)
  BY <1>0, LoopEnds
<1> HIDE DEF s
<1>2. s.left \in Nat /\ m \in [Orders -> Nat]
  BY <1>1 DEF LoopInv, LoopState
<1>3. s.left + SumFunctionOnSet(m, Orders) = f
  BY <1>1 DEF LoopInv
<1>4. \A o \in Orders : m[o] <= Remaining(rows)[o]
  BY <1>1 DEF LoopInv
<1>5. s.left > 0 => \A o \in OpenPositions(rows) : m[o] = rows[o].rem
  <2>1. \A o \in OpenPositions(rows) : o <= MaxOrders
    BY <1>0 DEF OpenPositions, Orders
  <2>2. QED BY <1>1, <2>1 DEF LoopInv
<1>6. \A old, young \in OpenPositions(rows) :
        old < young /\ m[young] > 0 => m[old] = rows[old].rem
  BY <1>1 DEF LoopInv
<1> HIDE DEF m
<1>7. /\ Summable(m, Orders) /\ SumFunctionOnSet(m, Orders) \in Nat
      /\ Summable(Remaining(rows), Orders) /\ OpenSize(rows) \in Nat
      /\ OpenSize(rows) = SumFunctionOnSet(Remaining(rows), Orders)
  BY <1>2, MatchSummable, OpenSizeSum
<1>8. \A o \in Orders : rows[o].rem \in Nat
  BY BookAssumption DEF Row, Sizes
<1>9. SumFunctionOnSet(m, Orders) <= OpenSize(rows)
  BY <1>4, <1>7, SumAtMost
<1>10. s.left > 0 => SumFunctionOnSet(m, Orders) = OpenSize(rows)
  <2> SUFFICES ASSUME s.left > 0 PROVE SumFunctionOnSet(m, Orders) = OpenSize(rows)
    OBVIOUS
  <2>1. \A o \in Orders : m[o] = Remaining(rows)[o]
    <3> SUFFICES ASSUME NEW o \in Orders PROVE m[o] = Remaining(rows)[o]
      OBVIOUS
    <3>1. CASE o \in OpenPositions(rows)
      BY <1>5, <3>1 DEF Remaining
    <3>2. CASE o \notin OpenPositions(rows)
      <4>1. Remaining(rows)[o] = 0 /\ m[o] \in Nat /\ m[o] <= Remaining(rows)[o]
        BY <1>2, <1>4, <3>2 DEF Remaining
      <4>2. QED BY <4>1
    <3>3. QED BY <3>1, <3>2
  <2>2. QED BY <1>7, <2>1, SumSame
<1>11. Matched(m) = Min({f, OpenSize(rows)})
  <2>1. f \in Int /\ OpenSize(rows) \in Int
    BY <1>0, <1>7
  <2>2. Min({f, OpenSize(rows)}) = IF f <= OpenSize(rows) THEN f ELSE OpenSize(rows)
    BY <2>1, MinOfTwo
  <2>3. SumFunctionOnSet(m, Orders) = IF f <= OpenSize(rows) THEN f ELSE OpenSize(rows)
    BY <1>0, <1>2, <1>3, <1>7, <1>9, <1>10
  <2>4. QED BY <2>2, <2>3 DEF Matched
<1>12. m \in [Orders -> Sizes]
  <2>1. \A o \in Orders : m[o] \in Sizes
    <3> SUFFICES ASSUME NEW o \in Orders PROVE m[o] \in Sizes
      OBVIOUS
    <3>1. rows[o].rem \in Sizes /\ m[o] \in Nat /\ m[o] <= Remaining(rows)[o]
      BY <1>2, <1>4 DEF Row
    <3>2. Remaining(rows)[o] \in Sizes
      BY <3>1, <1>0 DEF Remaining, Sizes
    <3>3. QED BY <1>0, <3>1, <3>2 DEF Sizes
  <2>2. QED BY <1>2, <2>1
<1>13. \A o \in Orders : m[o] <= (IF o \in OpenPositions(rows) THEN rows[o].rem ELSE 0)
  BY <1>4 DEF Remaining
<1>14. m \in FifoMatches(rows, f)
  BY <1>6, <1>11, <1>12, <1>13 DEF FifoMatches
<1>15. QED BY <1>14 DEF m, s

\* The tables keep their types, and in every row the units used and left add up.
BookInv == TypeOK /\ \A o \in Orders : RowAdds(rows[o])

\* Entry prices are integers.
LEMMA EntryInt == ASSUME TypeOK PROVE \A o \in Orders : entry[o] \in Int
<1> SUFFICES ASSUME NEW o \in Orders PROVE entry[o] \in Int
  OBVIOUS
<1>1. entry[o] \in Prices \cup {0}
  BY DEF TypeOK
<1>2. \A x \in Prices : x \in Int
  BY PriceAssumption
<1>3. QED BY <1>1, <1>2

\* The empty tables have these.
LEMMA BookInit == Init => BookInv
<1> SUFFICES ASSUME Init PROVE BookInv
  OBVIOUS
<1>1. NoRow \in Row /\ RowAdds(NoRow)
  BY BookAssumption DEF NoRow, Row, RowAdds, RowStatuses, Sizes
<1>2. QED BY <1>1 DEF Init, BookInv, TypeOK

\* A BUY.
LEMMA BookBuy ==
  ASSUME BookInv, NEW o \in Orders, NEW n \in Sizes \ {0}, NEW price \in Prices,
         NEW fee \in Fees, RecordBuy(o, n, price, fee)
  PROVE  BookInv'
<1>1. NewRow(n) \in Row /\ RowAdds(NewRow(n))
  BY NewRowFits
<1>2. realised' \in Int
  BY PriceAssumption DEF RecordBuy, BookInv, TypeOK
<1>3. rows' \in [Orders -> Row] /\ \A p \in Orders : RowAdds(rows'[p])
  BY <1>1 DEF RecordBuy, BookInv, TypeOK
<1>4. entry' \in [Orders -> Prices \cup {0}] /\ trades' \subseteq Orders
  BY DEF RecordBuy, BookInv, TypeOK
<1>5. QED BY <1>2, <1>3, <1>4 DEF BookInv, TypeOK

\* A SELL.
LEMMA BookSell ==
  ASSUME BookInv, NEW o \in Orders, NEW f \in Sizes, NEW price \in Prices,
         NEW fee \in Fees, RecordSell(o, f, price, fee)
  PROVE  BookInv'
<1>0. f \in Nat /\ price \in Int /\ fee \in Int /\ rows \in [Orders -> Row]
      /\ \A p \in Orders : entry[p] \in Int /\ RowAdds(rows[p])
  BY BookAssumption, PriceAssumption, EntryInt DEF Sizes, BookInv, TypeOK
<1>1. realised' \in Int
  <2> DEFINE s == MatchLoop(f)
  <2>1. s.left \in Int /\ s.cost \in Int
    BY <1>0, LoopEnds DEF LoopInv, LoopState
  <2>2. SellPnl(f, price, fee) = IF f - s.left > 0 THEN price * (f - s.left) - s.cost - fee
                                 ELSE -fee
    BY DEF SellPnl
  <2> HIDE DEF s
  <2>3. price * (f - s.left) \in Int
    BY <1>0, <2>1
  <2>4. SellPnl(f, price, fee) \in Int
    BY <1>0, <2>1, <2>2, <2>3
  <2>5. QED BY <2>4 DEF RecordSell, BookInv, TypeOK
<1>2. rows' \in [Orders -> Row] /\ \A p \in Orders : RowAdds(rows'[p])
  <2> DEFINE upd == MatchedRows(rows, MatchLoop(f).match)
  <2>1. MatchLoop(f).match \in FifoMatches(rows, f)
    BY <1>0, LoopMatches
  <2>2. upd \in [Orders -> Row] /\ \A p \in Orders : RowAdds(upd[p])
    BY <1>0, <2>1, PlanFits
  <2>3. rows' = [p \in Orders |-> IF upd[p] # NoRow THEN upd[p] ELSE rows[p]]
    BY DEF RecordSell
  <2> HIDE DEF upd
  <2>4. QED BY <1>0, <2>2, <2>3
<1>3. entry' = entry /\ trades' = trades \cup {o}
  BY DEF RecordSell
<1>4. QED BY <1>1, <1>2, <1>3 DEF BookInv, TypeOK

\* Every booking keeps them.
LEMMA BookNext == BookInv /\ [Next]_vars => BookInv'
<1> SUFFICES ASSUME BookInv, [Next]_vars PROVE BookInv'
  OBVIOUS
<1>1. CASE CloseGhostPositions
  BY <1>1, CloseFits DEF CloseGhostPositions, BookInv, TypeOK
<1>2. CASE UNCHANGED vars
  BY <1>2 DEF vars, BookInv, TypeOK
<1>3. QED BY <1>1, <1>2, BookBuy, BookSell DEF Next

\* Whatever is booked, every row's sizes, prices and profits stay within the tables' types.
THEOREM BookTypeCorrect == Spec => []TypeOK
<1>1. BookInv => TypeOK
  BY DEF BookInv
<1>2. QED BY <1>1, BookInit, BookNext, PTL DEF Spec

\* For every number of orders, all sizes and prices: the loop of prepareSellData takes from
\* the open positions exactly what first-in-first-out matching asks for, and there is
\* nothing else it could take.
THEOREM LoopAlwaysFifo == Spec => []LoopIsFifo
<1>1. BookInv => LoopIsFifo
  <2> SUFFICES ASSUME BookInv, NEW f \in Sizes
               PROVE  FifoMatches(rows, f) = {MatchLoop(f).match}
    BY DEF LoopIsFifo
  <2>1. rows \in [Orders -> Row]
    BY DEF BookInv, TypeOK
  <2>2. MatchLoop(f).match \in FifoMatches(rows, f)
    BY <2>1, EntryInt, LoopMatches DEF BookInv
  <2>3. \A m \in FifoMatches(rows, f) : m = MatchLoop(f).match
    BY <2>1, <2>2, OneFifoMatch
  <2>4. QED BY <2>2, <2>3
<1>2. QED BY <1>1, BookInit, BookNext, PTL DEF Spec

-----------------------------------------------------------------------------
(* The units of the open positions as a queue                              *)

Unit == [age : Orders, price : Prices \cup {0}]

\* The units of one position, and of all: HeldUnits of a table R with entry prices e.
LotOf(R, e, n) == [i \in 1 .. Remaining(R)[n] |-> [age |-> n, price |-> e[n]]]
UnitsOf(R, e) == FlattenSeq([o \in Orders |-> LotOf(R, e, o)])

\* How many units the positions up to order n have left.
UpTo(R, n) == SumFunctionOnSet(Remaining(R), 1 .. n)

\* Q is that queue: after the units of the positions before it, each has its own.
QueueOf(Q, R, e) ==
  /\ Q \in Seq(Unit) /\ Len(Q) = UpTo(R, MaxOrders)
  /\ \A n \in Orders : \A i \in UpTo(R, n - 1) + 1 .. UpTo(R, n) :
       Q[i] = [age |-> n, price |-> e[n]]

\* The counts, position by position.
LEMMA CountStep ==
  ASSUME NEW R \in [Orders -> Row]
  PROVE  /\ UpTo(R, 0) = 0 /\ UpTo(R, MaxOrders) = OpenSize(R) /\ OpenSize(R) \in Nat
         /\ \A n \in Orders : /\ UpTo(R, n) = UpTo(R, n - 1) + Remaining(R)[n]
                              /\ Remaining(R)[n] \in Nat
         /\ \A n \in 0 .. MaxOrders : UpTo(R, n) \in Nat
<1>0. MaxOrders \in Nat
  BY BookAssumption
<1>1. /\ Summable(Remaining(R), Orders) /\ OpenSize(R) \in Nat
      /\ OpenSize(R) = SumFunctionOnSet(Remaining(R), Orders)
  BY OpenSizeSum
<1>2. \A n \in Orders : Remaining(R)[n] \in Nat
  BY BookAssumption DEF Remaining, Row, Sizes
<1>3. \A n \in 0 .. MaxOrders : Summable(Remaining(R), 1 .. n)
  <2> SUFFICES ASSUME NEW n \in 0 .. MaxOrders PROVE Summable(Remaining(R), 1 .. n)
    OBVIOUS
  <2>1. IsFiniteSet(1 .. n) /\ \A i \in 1 .. n : i \in Orders
    BY <1>0, FS_Interval DEF Orders
  <2>2. QED BY <1>2, <2>1 DEF Summable
<1>4. UpTo(R, 0) = 0
  <2>1. 1 .. 0 = {}
    OBVIOUS
  <2>2. QED BY <2>1, SumEmpty DEF UpTo
<1>5. UpTo(R, MaxOrders) = OpenSize(R)
  BY <1>1 DEF UpTo, Orders
<1>6. ASSUME NEW n \in Orders PROVE UpTo(R, n) = UpTo(R, n - 1) + Remaining(R)[n]
  <2>1. n \in Nat /\ 1 \in Nat /\ 1 <= n /\ n \in 0 .. MaxOrders
    BY <1>0 DEF Orders
  <2>2. Summable(Remaining(R), 1 .. n)
    BY <1>3, <2>1
  <2>3. QED BY <2>1, <2>2, SumLast DEF UpTo
<1>7. ASSUME NEW n \in 0 .. MaxOrders PROVE UpTo(R, n) \in Nat
  <2>1. Summable(Remaining(R), 1 .. n)
    BY <1>3
  <2>2. \A i \in 1 .. n : Remaining(R)[i] >= 0
    <3>1. \A i \in 1 .. n : i \in Orders
      BY <1>0 DEF Orders
    <3>2. QED BY <1>2, <3>1
  <2>3. QED BY <2>1, <2>2, SumNat DEF UpTo
<1>8. QED BY <1>1, <1>2, <1>4, <1>5, <1>6, <1>7

\* They grow.
LEMMA CountsGrow ==
  ASSUME NEW R \in [Orders -> Row]
  PROVE  \A m, n \in 0 .. MaxOrders : m <= n => UpTo(R, m) <= UpTo(R, n)
<1> DEFINE N == MaxOrders
           F == [n \in 0 .. N |-> UpTo(R, n)]
<1>1. N \in Nat /\ Orders = 1 .. N
  BY BookAssumption DEF Orders
<1>2. \A n \in 0 .. N : F[n] = UpTo(R, n) /\ F[n] \in Int
  BY CountStep
<1>3. \A n \in 1 .. N : n \in 0 .. N /\ n - 1 \in 0 .. N
  BY <1>1
<1>4. F \in [0 .. N -> Int]
  BY <1>2
<1> HIDE DEF F
<1>5. ASSUME NEW n \in 1 .. N PROVE F[n - 1] <= F[n]
  <2>1. UpTo(R, n) = UpTo(R, n - 1) + Remaining(R)[n] /\ Remaining(R)[n] \in Nat
    BY <1>1, CountStep
  <2>2. QED BY <1>2, <1>3, <2>1
<1> HIDE DEF N
<1>6. \A m, n \in 0 .. N : m <= n => F[m] <= F[n]
  BY <1>1, <1>4, <1>5, Growing
<1>7. QED BY <1>2, <1>6 DEF N

\* Every unit belongs to a position.
LEMMA Owner ==
  ASSUME NEW R \in [Orders -> Row], NEW i \in 1 .. UpTo(R, MaxOrders)
  PROVE  \E n \in Orders : UpTo(R, n - 1) < i /\ i <= UpTo(R, n)
<1> DEFINE A == {n \in Nat : n <= MaxOrders /\ i <= UpTo(R, n)}
<1>1. MaxOrders \in Nat /\ \A n \in 0 .. MaxOrders : UpTo(R, n) \in Nat
  BY BookAssumption, CountStep
<1>2. MaxOrders \in A /\ i >= 1
  BY <1>1
<1>3. PICK n \in A : \A m \in A : n <= m
  <2>1. A \in SUBSET Nat /\ A # {}
    BY <1>2
  <2> HIDE DEF A
  <2>2. QED BY <2>1, LeastNumber
<1>4. n # 0
  BY <1>2, <1>3, CountStep
<1>5. n \in Orders /\ n - 1 \in 0 .. MaxOrders /\ ~(n <= n - 1)
  BY <1>1, <1>3, <1>4 DEF Orders
<1>6. n - 1 \notin A
  BY <1>3, <1>5
<1>7. ~(i <= UpTo(R, n - 1))
  BY <1>5, <1>6
<1>8. UpTo(R, n - 1) < i
  BY <1>1, <1>5, <1>7
<1>9. QED BY <1>3, <1>5, <1>8

\* The queue exists and is the concatenation of the lots.
LEMMA Lots ==
  ASSUME NEW R \in [Orders -> Row], NEW e \in [Orders -> Prices \cup {0}], NEW n \in Orders
  PROVE  /\ LotOf(R, e, n) \in Seq(Unit) /\ Len(LotOf(R, e, n)) = Remaining(R)[n]
         /\ \A i \in 1 .. Remaining(R)[n] : LotOf(R, e, n)[i] = [age |-> n, price |-> e[n]]
<1>1. Remaining(R)[n] \in Nat
  BY CountStep
<1>2. [age |-> n, price |-> e[n]] \in Unit
  BY DEF Unit
<1>3. QED BY <1>1, <1>2 DEF LotOf

\* The queue is built lot by lot.
LEMMA LotByLot ==
  ASSUME NEW R \in [Orders -> Row], NEW e \in [Orders -> Prices \cup {0}]
  PROVE  \E g : /\ g \in [0 .. MaxOrders -> Seq(Unit)] /\ g[0] = <<>>
                /\ \A n \in Orders : g[n] = g[n - 1] \o LotOf(R, e, n)
                /\ UnitsOf(R, e) = g[MaxOrders]
<1> DEFINE N == MaxOrders
           V == Seq(Unit)
           zero == <<>>
           lot == [n \in Orders |-> LotOf(R, e, n)]
           next == [n \in 1 .. N |-> [s \in V |-> s \o lot[n]]]
           Part(of, n) == IF n = 1 THEN lot[n] ELSE of[n - 1] \o lot[n]
           flatten == CHOOSE h : h = [n \in 1 .. N |-> Part(h, n)]
<1>1. N \in Nat /\ N # 0 /\ Orders = 1 .. N /\ zero \in V
  BY BookAssumption DEF Orders
<1>2. \A n \in Orders : lot[n] = LotOf(R, e, n) /\ lot[n] \in V
  BY Lots
<1>3. Len(lot) = N
  BY <1>1
<1>4. UnitsOf(R, e) = flatten[N]
  BY <1>1, <1>3 DEF UnitsOf, FlattenSeq
<1> HIDE DEF lot
<1>5. next \in StepsIn(N, V) /\ \A n \in 1 .. N : \A s \in V : next[n][s] = s \o lot[n]
  BY <1>1, <1>2 DEF StepsIn
<1> HIDE DEF N, V, zero, next
<1>6. PICK g : g \in Paths(N, V, zero, next)
  BY <1>1, <1>5, StepByStep
<1>7. /\ g \in [0 .. N -> V] /\ g[0] = zero
      /\ \A n \in 1 .. N : g[n] = next[n][g[n - 1]]
  BY <1>6 DEF Paths
<1>8. \A n \in 1 .. N : g[n] = g[n - 1] \o lot[n] /\ g[n - 1] \in V
  <2> SUFFICES ASSUME NEW n \in 1 .. N PROVE g[n] = g[n - 1] \o lot[n] /\ g[n - 1] \in V
    OBVIOUS
  <2>1. n - 1 \in 0 .. N
    BY <1>1
  <2>2. QED BY <1>5, <1>7, <2>1
<1> DEFINE h == [n \in 1 .. N |-> g[n]]
<1>9. h = [n \in 1 .. N |-> Part(h, n)]
  <2>1. ASSUME NEW n \in 1 .. N PROVE g[n] = Part(h, n)
    <3>1. CASE n = 1
      <4>1. 1 \in 1 .. N /\ 1 - 1 = 0 /\ 1 \in Orders
        BY <1>1
      <4>2. g[1] = g[0] \o lot[1]
        <5>1. g[1] = g[1 - 1] \o lot[1]
          BY <1>8, <4>1
        <5>2. QED BY <4>1, <5>1
      <4>3. g[1] = lot[1]
        BY <1>2, <1>7, <4>1, <4>2, ConcatEmptySeq DEF V, zero
      <4>4. QED BY <3>1, <4>3
    <3>2. CASE n # 1
      <4>1. n - 1 \in 1 .. N
        BY <1>1, <3>2
      <4>2. h[n - 1] = g[n - 1]
        BY <4>1
      <4> HIDE DEF h
      <4>3. QED BY <1>8, <3>2, <4>2
    <3>3. QED BY <3>1, <3>2
  <2> HIDE DEF Part
  <2>2. QED BY <2>1
<1>10. flatten = [n \in 1 .. N |-> Part(flatten, n)]
  <2> HIDE DEF h, Part
  <2>1. QED BY <1>9
<1> HIDE DEF flatten
<1>11. \A n \in 1 .. N : flatten[n] = Part(flatten, n)
  <2> HIDE DEF Part
  <2>1. QED BY <1>10
<1> DEFINE A == {n \in Nat : n <= N /\ n # 0 => flatten[n] = g[n]}
<1>12. 0 \in A
  OBVIOUS
<1>13. ASSUME NEW n \in Nat, n \in A PROVE n + 1 \in A
  <2>1. ASSUME n + 1 <= N PROVE flatten[n + 1] = g[n + 1]
    <3>1. n + 1 \in 1 .. N /\ (n + 1) - 1 = n
      BY <1>1, <2>1
    <3>2. g[n + 1] = g[n] \o lot[n + 1]
      BY <1>8, <3>1
    <3>3. flatten[n + 1] = IF n + 1 = 1 THEN lot[n + 1] ELSE flatten[n] \o lot[n + 1]
      BY <1>11, <3>1
    <3>4. CASE n = 0
      <4>1. n + 1 \in Orders /\ g[n] = <<>> /\ n + 1 = 1
        BY <1>1, <1>7, <3>1, <3>4 DEF zero
      <4>2. g[n + 1] = <<>> \o lot[n + 1]
        BY <3>2, <4>1
      <4>3. g[n + 1] = lot[n + 1]
        BY <1>2, <4>1, <4>2, ConcatEmptySeq DEF V
      <4>4. QED BY <3>3, <4>1, <4>3
    <3>5. CASE n # 0
      <4>1. flatten[n] = g[n]
        BY <1>1, <1>13, <2>1, <3>5
      <4>2. n + 1 # 1
        BY <3>5
      <4>3. QED BY <3>2, <3>3, <4>1, <4>2
    <3>6. QED BY <3>4, <3>5
  <2>2. QED BY <2>1
<1>14. flatten[N] = g[N]
  <2> HIDE DEF A
  <2>1. Nat \subseteq A
    BY <1>12, <1>13, NumberInduction
  <2>2. N \in A
    BY <1>1, <2>1
  <2>3. QED BY <1>1, <2>2 DEF A
<1>15. QED BY <1>1, <1>2, <1>4, <1>7, <1>8, <1>14 DEF N, V, zero

\* Flattening the lots makes such a queue.
LEMMA UnitsQueue ==
  ASSUME NEW R \in [Orders -> Row], NEW e \in [Orders -> Prices \cup {0}]
  PROVE  QueueOf(UnitsOf(R, e), R, e)
<1> DEFINE C(n) == UpTo(R, n)
           Unit1(k) == [age |-> k, price |-> e[k]]
<1>1. PICK g : /\ g \in [0 .. MaxOrders -> Seq(Unit)] /\ g[0] = <<>>
               /\ \A n \in Orders : g[n] = g[n - 1] \o LotOf(R, e, n)
               /\ UnitsOf(R, e) = g[MaxOrders]
  BY LotByLot
<1>2. /\ MaxOrders \in Nat /\ \A n \in 0 .. MaxOrders : C(n) \in Nat
      /\ C(0) = 0
      /\ \A n \in Orders : C(n) = C(n - 1) + Remaining(R)[n] /\ Remaining(R)[n] \in Nat
  BY BookAssumption, CountStep
<1> HIDE DEF C, Unit1
<1> DEFINE Owned(s, n) == /\ Len(s) = C(n)
                          /\ \A k \in 1 .. n : \A i \in C(k - 1) + 1 .. C(k) : s[i] = Unit1(k)
           A == {n \in Nat : n <= MaxOrders => Owned(g[n], n)}
<1>3. 0 \in A
  BY <1>1, <1>2
<1>4. ASSUME NEW n \in Nat, n \in A PROVE n + 1 \in A
  <2>1. ASSUME n + 1 <= MaxOrders PROVE Owned(g[n + 1], n + 1)
    <3> DEFINE lot == LotOf(R, e, n + 1)
               r == Remaining(R)[n + 1]
    <3>1. n + 1 \in Orders /\ (n + 1) - 1 = n /\ n \in 0 .. MaxOrders /\ n + 1 \in 0 .. MaxOrders
      BY <1>2, <2>1 DEF Orders
    <3>2. g[n] \in Seq(Unit) /\ g[n + 1] = g[n] \o lot /\ Owned(g[n], n)
      <4>1. g[n] \in Seq(Unit)
        BY <1>1, <3>1
      <4>2. g[n + 1] = g[n] \o lot
        BY <1>1, <3>1
      <4>3. n <= MaxOrders
        BY <3>1
      <4> HIDE DEF Owned
      <4>4. Owned(g[n], n)
        BY <1>4, <4>3
      <4>5. QED BY <4>1, <4>2, <4>4
    <3>3. /\ lot \in Seq(Unit) /\ Len(lot) = r
          /\ \A i \in 1 .. r : lot[i] = Unit1(n + 1)
      BY <3>1, Lots DEF Unit1
    <3>4. C(n + 1) = C(n) + r /\ C(n) \in Nat /\ r \in Nat
      BY <1>2, <3>1
    <3> HIDE DEF lot, r
    <3>5. /\ Len(g[n + 1]) = C(n) + r
          /\ \A i \in 1 .. C(n) + r : g[n + 1][i] = IF i <= C(n) THEN g[n][i] ELSE lot[i - C(n)]
      <4> DEFINE s == g[n]
      <4>1. s \in Seq(Unit) /\ lot \in Seq(Unit) /\ Len(s) = C(n) /\ Len(lot) = r
            /\ g[n + 1] = s \o lot
        BY <3>2, <3>3
      <4> HIDE DEF s
      <4>2. /\ Len(s \o lot) = Len(s) + Len(lot)
            /\ \A i \in 1 .. Len(s) + Len(lot) :
                 (s \o lot)[i] = IF i <= Len(s) THEN s[i] ELSE lot[i - Len(s)]
        BY <4>1, ConcatProperties
      <4>3. QED BY <4>1, <4>2 DEF s
    <3>6. ASSUME NEW k \in 1 .. n + 1, NEW i \in C(k - 1) + 1 .. C(k)
          PROVE  g[n + 1][i] = Unit1(k)
      <4>1. CASE k = n + 1
        <5>1. i \in C(n) + 1 .. C(n) + r
          BY <3>1, <3>4, <4>1
        <5>2. i \in 1 .. C(n) + r /\ ~(i <= C(n)) /\ i - C(n) \in 1 .. r
          BY <3>4, <5>1
        <5>3. QED BY <3>3, <3>5, <4>1, <5>2
      <4>2. CASE k # n + 1
        <5>1. k \in 1 .. n /\ k - 1 \in 0 .. n /\ k \in 0 .. MaxOrders /\ k - 1 \in 0 .. MaxOrders
          BY <1>2, <3>1, <4>2
        <5>2. C(k) <= C(n) /\ C(k) \in Nat /\ C(k - 1) \in Nat
          BY <1>2, <3>1, <5>1, CountsGrow DEF C
        <5>3. i \in 1 .. C(n) + r /\ i <= C(n)
          BY <3>4, <5>2
        <5>4. g[n][i] = Unit1(k)
          BY <3>2, <5>1
        <5>5. QED BY <3>5, <5>3, <5>4
      <4>3. QED BY <4>1, <4>2
    <3>7. Len(g[n + 1]) = C(n + 1)
      BY <3>4, <3>5
    <3>8. QED BY <3>6, <3>7
  <2>2. QED BY <2>1
<1>5. Owned(g[MaxOrders], MaxOrders)
  <2> HIDE DEF Owned
  <2>1. 0 \in A /\ \A n \in Nat : n \in A => n + 1 \in A
    BY <1>3, <1>4
  <2> HIDE DEF A
  <2>2. Nat \subseteq A
    BY <2>1, NumberInduction
  <2>3. MaxOrders \in A
    BY <1>2, <2>2
  <2>4. QED BY <1>2, <2>3 DEF A
<1>6. UnitsOf(R, e) \in Seq(Unit)
  <2>1. MaxOrders \in 0 .. MaxOrders
    BY <1>2
  <2>2. QED BY <1>1, <2>1
<1>7. QED BY <1>1, <1>5, <1>6 DEF QueueOf, Orders, C, Unit1

-----------------------------------------------------------------------------
(* A BUY in the queue                                                      *)

\* The rows after a BUY of n units.
AfterBuy(R, o, n) == [R EXCEPT ![o] = NewRow(n)]

\* A BUY of n units shifts the counts from its order on.
LEMMA CountsAfterBuy ==
  ASSUME NEW R \in [Orders -> Row], NEW o \in Orders, R[o] = NoRow, NEW n \in Sizes \ {0}
  PROVE  /\ AfterBuy(R, o, n) \in [Orders -> Row] /\ n \in Nat
         /\ UpTo(R, o) = UpTo(R, o - 1)
         /\ \A k \in 0 .. MaxOrders :
              UpTo(AfterBuy(R, o, n), k) = UpTo(R, k) + (IF k < o THEN 0 ELSE n)
<1> DEFINE W == AfterBuy(R, o, n)
           C(k) == UpTo(R, k)
           D(k) == UpTo(W, k)
           A == {k \in Nat : k <= MaxOrders => D(k) = C(k) + (IF k < o THEN 0 ELSE n)}
<1>1. W \in [Orders -> Row] /\ W[o] = NewRow(n) /\ \A p \in Orders \ {o} : W[p] = R[p]
  BY NewRowFits DEF AfterBuy
<1>2. n \in Nat /\ n > 0 /\ MaxOrders \in Nat /\ o \in Nat /\ o > 0
  BY BookAssumption DEF Sizes, Orders
<1> HIDE DEF W
<1>3. \A p \in Orders \ {o} : Remaining(W)[p] = Remaining(R)[p]
  BY <1>1 DEF Remaining, OpenPositions
<1>4. Remaining(W)[o] = n /\ Remaining(R)[o] = 0
  BY <1>1, <1>2 DEF Remaining, OpenPositions, IsOpen, NewRow, NoRow
<1>5. /\ C(0) = 0 /\ D(0) = 0
      /\ \A k \in 0 .. MaxOrders : C(k) \in Nat /\ D(k) \in Nat
      /\ \A p \in Orders : /\ C(p) = C(p - 1) + Remaining(R)[p]
                           /\ D(p) = D(p - 1) + Remaining(W)[p]
                           /\ Remaining(R)[p] \in Nat
  BY <1>1, CountStep
<1> HIDE DEF C, D
<1>6. 0 \in A
  BY <1>2, <1>5
<1>7. ASSUME NEW k \in Nat, k \in A PROVE k + 1 \in A
  <2>1. ASSUME k + 1 <= MaxOrders PROVE D(k + 1) = C(k + 1) + (IF k + 1 < o THEN 0 ELSE n)
    <3>1. /\ k + 1 \in Orders /\ (k + 1) - 1 = k /\ k \in 0 .. MaxOrders
          /\ k + 1 \in 0 .. MaxOrders
      BY <1>2, <2>1 DEF Orders
    <3>2. D(k) = C(k) + (IF k < o THEN 0 ELSE n)
      BY <1>2, <1>7, <2>1
    <3>3. /\ C(k + 1) = C(k) + Remaining(R)[k + 1] /\ D(k + 1) = D(k) + Remaining(W)[k + 1]
          /\ C(k) \in Nat /\ D(k) \in Nat /\ Remaining(R)[k + 1] \in Nat
      BY <1>5, <3>1
    <3>4. CASE k + 1 = o
      BY <1>2, <1>4, <3>2, <3>3, <3>4
    <3>5. CASE k + 1 # o
      <4>1. Remaining(W)[k + 1] = Remaining(R)[k + 1]
        BY <1>3, <3>1, <3>5
      <4>2. k < o <=> k + 1 < o
        BY <1>2, <3>5
      <4>3. QED BY <1>2, <3>2, <3>3, <4>1, <4>2
    <3>6. QED BY <3>4, <3>5
  <2>2. QED BY <2>1
<1>8. \A k \in 0 .. MaxOrders : D(k) = C(k) + (IF k < o THEN 0 ELSE n)
  <2>1. 0 \in A /\ \A k \in Nat : k \in A => k + 1 \in A
    BY <1>6, <1>7
  <2> HIDE DEF A
  <2>2. Nat \subseteq A
    BY <2>1, NumberInduction
  <2>3. QED BY <1>2, <2>2 DEF A
<1>9. C(o) = C(o - 1)
  <2>1. o \in 0 .. MaxOrders /\ o - 1 \in 0 .. MaxOrders
    BY <1>2 DEF Orders
  <2>2. QED BY <1>4, <1>5, <2>1
<1>10. QED BY <1>1, <1>2, <1>8, <1>9 DEF W, C, D

\* The entry prices after a BUY.
PricedAt(e, o, price) == [e EXCEPT ![o] = price]

\* P is Q with n units put in between those of the older and those of the younger orders.
Inserted(P, Q, o, n, price) ==
  \E older \in 0 .. Len(Q) :
    /\ \A i \in 1 .. Len(Q) : IF i <= older THEN Q[i].age < o ELSE Q[i].age > o
    /\ P = SubSeq(Q, 1, older) \o [i \in 1 .. n |-> [age |-> o, price |-> price]]
             \o SubSeq(Q, older + 1, Len(Q))

\* Units bought go between those of the older and those of the younger orders.
LEMMA QueueAfterBuy ==
  ASSUME NEW R \in [Orders -> Row], NEW e \in [Orders -> Prices \cup {0}],
         NEW o \in Orders, R[o] = NoRow, NEW n \in Sizes \ {0}, NEW price \in Prices,
         NEW Q, QueueOf(Q, R, e),
         NEW P, QueueOf(P, AfterBuy(R, o, n), PricedAt(e, o, price))
  PROVE  Inserted(P, Q, o, n, price)
<1> DEFINE W == AfterBuy(R, o, n)
           d == PricedAt(e, o, price)
           lot == [i \in 1 .. n |-> [age |-> o, price |-> price]]
           C(k) == UpTo(R, k)
           D(k) == UpTo(W, k)
           N == MaxOrders
           L == C(o - 1)
<1>0. N \in Nat /\ o \in 1 .. N /\ o - 1 \in 0 .. N /\ o \in 0 .. N /\ Orders = 1 .. N
      /\ N \in 0 .. N /\ \A k \in Orders : k \in 0 .. N /\ k - 1 \in 0 .. N
  BY BookAssumption DEF Orders
<1>1. /\ W \in [Orders -> Row] /\ n \in Nat /\ C(o) = C(o - 1)
      /\ \A k \in 0 .. N : D(k) = C(k) + (IF k < o THEN 0 ELSE n)
  BY CountsAfterBuy
<1>2. /\ Q \in Seq(Unit) /\ Len(Q) = C(N)
      /\ \A k \in Orders : \A i \in C(k - 1) + 1 .. C(k) : Q[i] = [age |-> k, price |-> e[k]]
  BY DEF QueueOf
<1>3. /\ P \in Seq(Unit) /\ Len(P) = D(N)
      /\ \A k \in Orders : \A i \in D(k - 1) + 1 .. D(k) : P[i] = [age |-> k, price |-> d[k]]
  BY DEF QueueOf
<1>4. d[o] = price /\ \A k \in Orders \ {o} : d[k] = e[k]
  BY DEF PricedAt
<1>5. \A k \in 0 .. N : C(k) \in Nat /\ D(k) \in Nat
  BY <1>1, CountStep
<1>6. \A k, m \in 0 .. N : k <= m => C(k) <= C(m)
  BY CountsGrow
<1>7. \A i \in 1 .. C(N) : \E k \in Orders : C(k - 1) < i /\ i <= C(k)
  BY Owner
<1>8. \A i \in 1 .. D(N) : \E k \in Orders : D(k - 1) < i /\ i <= D(k)
  BY <1>1, Owner
<1>9. lot \in Seq(Unit) /\ Len(lot) = n /\ \A i \in 1 .. n : lot[i] = [age |-> o, price |-> price]
  <2>1. [age |-> o, price |-> price] \in Unit
    BY DEF Unit
  <2>2. QED BY <1>1, <2>1
<1> HIDE DEF W, d, lot, C, D
<1>10. L \in Nat /\ L <= Len(Q) /\ Len(Q) \in Nat
  BY <1>0, <1>2, <1>5, <1>6
<1>11. ASSUME NEW i \in 1 .. Len(Q)
       PROVE  IF i <= L THEN Q[i].age < o ELSE Q[i].age > o
  <2>1. PICK k \in Orders : C(k - 1) < i /\ i <= C(k)
    BY <1>2, <1>7
  <2>2. Q[i] = [age |-> k, price |-> e[k]]
    <3>1. C(k) \in Nat /\ C(k - 1) \in Nat
      BY <1>0, <1>5
    <3>2. i \in C(k - 1) + 1 .. C(k)
      BY <2>1, <3>1
    <3>3. QED BY <1>2, <3>2
  <2>3. k \in Nat /\ o \in Nat /\ C(k) \in Nat /\ C(k - 1) \in Nat /\ C(o - 1) \in Nat
        /\ C(o) \in Nat
    BY <1>0, <1>5
  <2>4. CASE i <= L
    <3>1. ~(o - 1 <= k - 1)
      BY <1>0, <1>6, <2>1, <2>3, <2>4
    <3>2. QED BY <2>2, <2>3, <2>4, <3>1
  <2>5. CASE ~(i <= L)
    <3>1. ~(k <= o)
      BY <1>0, <1>1, <1>6, <2>1, <2>3, <2>5
    <3>2. QED BY <2>2, <2>3, <2>5, <3>1
  <2>6. QED BY <2>4, <2>5
<1> DEFINE front == SubSeq(Q, 1, L)
           back == SubSeq(Q, L + 1, Len(Q))
<1>12. /\ front \in Seq(Unit) /\ Len(front) = L /\ \A i \in 1 .. L : front[i] = Q[i]
       /\ back \in Seq(Unit) /\ Len(back) = Len(Q) - L
       /\ \A i \in 1 .. Len(Q) - L : back[i] = Q[L + i]
  BY <1>2, <1>10
<1> HIDE DEF L, front, back
<1> DEFINE T == front \o lot \o back
<1>13. /\ T \in Seq(Unit) /\ Len(T) = L + n + (Len(Q) - L)
       /\ \A i \in 1 .. L + n + (Len(Q) - L) :
            T[i] = IF i <= L + n THEN IF i <= L THEN front[i] ELSE lot[i - L]
                   ELSE back[i - (L + n)]
  <2> DEFINE s == front \o lot
  <2>1. /\ s \in Seq(Unit) /\ Len(s) = L + n
        /\ \A i \in 1 .. L + n : s[i] = IF i <= L THEN front[i] ELSE lot[i - L]
    <3>1. /\ s \in Seq(Unit) /\ Len(s) = Len(front) + Len(lot)
          /\ \A i \in 1 .. Len(front) + Len(lot) :
               s[i] = IF i <= Len(front) THEN front[i] ELSE lot[i - Len(front)]
      BY <1>9, <1>12, ConcatProperties
    <3> HIDE DEF s
    <3>2. QED BY <1>9, <1>12, <3>1
  <2> HIDE DEF s
  <2>2. /\ s \o back \in Seq(Unit) /\ Len(s \o back) = L + n + (Len(Q) - L)
        /\ \A i \in 1 .. L + n + (Len(Q) - L) :
             (s \o back)[i] = IF i <= L + n THEN s[i] ELSE back[i - (L + n)]
    <3> DEFINE t == s \o back
    <3>1. /\ t \in Seq(Unit) /\ Len(t) = Len(s) + Len(back)
          /\ \A i \in 1 .. Len(s) + Len(back) :
               t[i] = IF i <= Len(s) THEN s[i] ELSE back[i - Len(s)]
      BY <1>12, <2>1, ConcatProperties
    <3> HIDE DEF t
    <3>2. Len(s) = L + n /\ Len(back) = Len(Q) - L
      BY <1>12, <2>1
    <3>3. /\ t \in Seq(Unit) /\ Len(t) = L + n + (Len(Q) - L)
          /\ \A i \in 1 .. L + n + (Len(Q) - L) :
               t[i] = IF i <= L + n THEN s[i] ELSE back[i - (L + n)]
      BY <3>1, <3>2
    <3>4. QED BY <3>3 DEF t
  <2>3. \A i \in 1 .. L + n + (Len(Q) - L) : i <= L + n => i \in 1 .. L + n
    BY <1>1, <1>10
  <2>4. QED BY <2>1, <2>2, <2>3 DEF s
<1> HIDE DEF T
<1>14. Len(P) = Len(T)
  <2>1. D(N) = C(N) + n
    <3>1. ~(N < o) /\ N \in 0 .. N
      BY <1>0
    <3>2. QED BY <1>1, <3>1
  <2>2. QED BY <1>1, <1>2, <1>3, <1>10, <1>13, <2>1
<1>15. ASSUME NEW i \in 1 .. Len(P) PROVE P[i] = T[i]
  <2>0. i \in 1 .. L + n + (Len(Q) - L) /\ i \in 1 .. Len(Q) + n
    BY <1>1, <1>10, <1>13, <1>14
  <2>1. PICK k \in Orders : D(k - 1) < i /\ i <= D(k)
    BY <1>3, <1>8
  <2>2. k \in Nat /\ o \in Nat /\ k \in 0 .. N /\ k - 1 \in 0 .. N
        /\ C(k) \in Nat /\ C(k - 1) \in Nat /\ D(k) \in Nat /\ D(k - 1) \in Nat
    BY <1>0, <1>5
  <2>3. P[i] = [age |-> k, price |-> d[k]]
    <3>1. i \in D(k - 1) + 1 .. D(k)
      BY <2>1, <2>2
    <3>2. QED BY <1>3, <3>1
  <2>4. CASE k < o
    <3>1. D(k) = C(k) /\ D(k - 1) = C(k - 1) /\ C(k) <= C(o - 1)
      BY <1>0, <1>1, <1>6, <2>2, <2>4
    <3>2. i <= L /\ i \in C(k - 1) + 1 .. C(k) /\ k # o /\ i \in 1 .. L
      <4>1. C(o - 1) = L /\ L \in Nat
        BY <1>10 DEF L
      <4>2. QED BY <2>1, <2>2, <2>4, <3>1, <4>1
    <3>3. T[i] = Q[i]
      BY <1>1, <1>10, <1>12, <1>13, <2>0, <3>2
    <3>4. Q[i] = [age |-> k, price |-> e[k]]
      BY <1>2, <3>2
    <3>5. QED BY <1>4, <2>3, <3>2, <3>3, <3>4
  <2>5. CASE k = o
    <3>1. D(k) = L + n /\ D(k - 1) = L
      BY <1>0, <1>1, <2>2, <2>5 DEF L
    <3>2. i <= L + n /\ ~(i <= L) /\ i - L \in 1 .. n
      BY <1>1, <1>10, <2>1, <3>1
    <3>3. T[i] = lot[i - L]
      BY <1>13, <2>0, <3>2
    <3>4. QED BY <1>4, <1>9, <2>3, <2>5, <3>2, <3>3
  <2>6. CASE k > o
    <3>1. D(k) = C(k) + n /\ D(k - 1) = C(k - 1) + n /\ C(o) <= C(k - 1)
      BY <1>0, <1>1, <1>6, <2>2, <2>6
    <3>2. L <= C(k - 1)
      BY <1>1, <3>1 DEF L
    <3>3. /\ ~(i <= L + n) /\ i - n \in C(k - 1) + 1 .. C(k) /\ k # o
          /\ i - (L + n) \in 1 .. Len(Q) - L /\ L + (i - (L + n)) = i - n
      BY <1>1, <1>10, <2>0, <2>1, <2>2, <2>6, <3>1, <3>2
    <3>4. T[i] = back[i - (L + n)]
      BY <1>13, <2>0, <3>3
    <3>5. T[i] = Q[i - n]
      BY <1>12, <3>3, <3>4
    <3>6. Q[i - n] = [age |-> k, price |-> e[k]]
      BY <1>2, <3>3
    <3>7. QED BY <1>4, <2>3, <3>3, <3>5, <3>6
  <2>7. QED BY <2>2, <2>4, <2>5, <2>6
<1>16. P = T
  BY <1>3, <1>13, <1>14, <1>15, SeqEqual
<1>17. L \in 0 .. Len(Q)
  BY <1>10
<1>18. QED BY <1>11, <1>16, <1>17 DEF T, front, back, lot, Inserted

-----------------------------------------------------------------------------
(* A SELL in the queue                                                     *)

\* A SELL takes q units from the positions up to any that keeps some, and no more from
\* those up to another.
LEMMA CountsAfterSell ==
  ASSUME NEW R \in [Orders -> Row], NEW f \in Nat, NEW m \in FifoMatches(R, f),
         NEW W \in [Orders -> Row], W = AfterSell(R, m)
  PROVE  /\ UpTo(R, MaxOrders) - UpTo(W, MaxOrders) = Min({f, OpenSize(R)})
         /\ \A n \in 0 .. MaxOrders :
              /\ UpTo(R, n) - UpTo(W, n) <= Min({f, OpenSize(R)})
              /\ UpTo(W, n) > 0 => UpTo(R, n) - UpTo(W, n) = Min({f, OpenSize(R)})
<1> DEFINE N == MaxOrders
           q == Min({f, OpenSize(R)})
           M == [n \in 0 .. N |-> UpTo(R, n) - UpTo(W, n)]
           D(n) == UpTo(W, n)
           r(n) == Remaining(W)[n]
<1>1. N \in Nat /\ Orders = 1 .. N /\ \A n \in 1 .. N : n \in 0 .. N /\ n - 1 \in 0 .. N
  BY BookAssumption DEF Orders
<1>2. /\ \A n \in 0 .. N : UpTo(R, n) \in Nat /\ D(n) \in Nat
      /\ D(0) = 0 /\ UpTo(R, 0) = 0
      /\ \A n \in 1 .. N : UpTo(R, n) = UpTo(R, n - 1) + Remaining(R)[n]
                           /\ D(n) = D(n - 1) + r(n)
  BY <1>1, CountStep
<1>3. \A n \in 1 .. N : Remaining(R)[n] = r(n) + m[n] /\ m[n] \in Nat /\ r(n) \in Nat
  BY <1>1, MatchTaken
<1>4. M \in [0 .. N -> Int] /\ \A n \in 0 .. N : M[n] = UpTo(R, n) - D(n)
  BY <1>2
<1> HIDE DEF M, D, r
<1>5. ASSUME NEW n \in 1 .. N
      PROVE  M[n] = M[n - 1] + m[n] /\ M[n] \in Int /\ M[n - 1] \in Int
  <2>1. n \in 0 .. N /\ n - 1 \in 0 .. N
    BY <1>1
  <2>2. /\ UpTo(R, n) = UpTo(R, n - 1) + Remaining(R)[n] /\ D(n) = D(n - 1) + r(n)
        /\ UpTo(R, n - 1) \in Nat /\ D(n - 1) \in Nat
    BY <1>2, <2>1
  <2>3. Remaining(R)[n] = r(n) + m[n] /\ m[n] \in Nat /\ r(n) \in Nat
    BY <1>3
  <2>4. M[n] = UpTo(R, n) - D(n) /\ M[n - 1] = UpTo(R, n - 1) - D(n - 1)
    BY <1>4, <2>1
  <2>5. QED BY <2>2, <2>3, <2>4
<1>6. M[N] = q
  <2>1. OpenSize(W) = OpenSize(R) - q /\ OpenSize(R) \in Nat /\ OpenSize(W) \in Nat
    BY OpenSizeAfterSell, CountStep
  <2>2. q \in Int
    BY <2>1, MinOfTwo
  <2>3. UpTo(R, N) = OpenSize(R) /\ D(N) = OpenSize(W) /\ N \in 0 .. N
    BY <1>1, CountStep DEF D
  <2> HIDE DEF q
  <2>4. QED BY <1>4, <2>1, <2>2, <2>3
<1> HIDE DEF q
<1>7. \A k, n \in 0 .. N : k <= n => M[k] <= M[n]
  <2>1. \A n \in 1 .. N : M[n - 1] <= M[n]
    BY <1>3, <1>5
  <2> HIDE DEF N
  <2>2. QED BY <1>1, <1>4, <2>1, Growing
<1> DEFINE Untouched(n) == \A y \in 1 .. N : y > n => m[y] = 0
           A == {n \in Nat : n <= N /\ D(n) > 0 => Untouched(n)}
<1>8. 0 \in A
  BY <1>2
<1>9. ASSUME NEW n \in Nat, n \in A PROVE n + 1 \in A
  <2>1. ASSUME n + 1 <= N, D(n + 1) > 0 PROVE Untouched(n + 1)
    <3>1. n + 1 \in 1 .. N /\ (n + 1) - 1 = n /\ n \in 0 .. N /\ n <= N
      BY <1>1, <2>1
    <3>2. D(n + 1) = D(n) + r(n + 1) /\ D(n) \in Nat /\ r(n + 1) \in Nat
      BY <1>2, <1>3, <3>1
    <3>3. CASE D(n) > 0
      <4>1. Untouched(n)
        BY <1>9, <3>1, <3>3
      <4>2. \A y \in 1 .. N : y > n + 1 => y > n
        OBVIOUS
      <4>3. QED BY <4>1, <4>2
    <3>4. CASE ~(D(n) > 0)
      <4>1. r(n + 1) > 0
        BY <2>1, <3>2, <3>4
      <4>2. Remaining(R)[n + 1] > 0 /\ m[n + 1] # Remaining(R)[n + 1]
        BY <1>3, <3>1, <4>1
      <4>3. n + 1 \in OpenPositions(R) /\ m[n + 1] # R[n + 1].rem
        BY <1>1, <3>1, <4>2 DEF Remaining
      <4>4. ASSUME NEW y \in 1 .. N, y > n + 1 PROVE m[y] = 0
        <5>1. CASE y \in OpenPositions(R)
          <6>1. ~(m[y] > 0)
            BY <4>3, <4>4, <5>1 DEF FifoMatches
          <6>2. QED BY <1>3, <6>1
        <5>2. CASE y \notin OpenPositions(R)
          <6>1. Remaining(R)[y] = 0
            BY <1>1, <5>2 DEF Remaining
          <6>2. QED BY <1>3, <6>1
        <5>3. QED BY <5>1, <5>2
      <4>5. QED BY <4>4
    <3>5. QED BY <3>3, <3>4
  <2> HIDE DEF Untouched
  <2>2. QED BY <2>1
<1>10. \A n \in 0 .. N : n \in A
  <2>1. 0 \in A /\ \A n \in Nat : n \in A => n + 1 \in A
    BY <1>8, <1>9
  <2> HIDE DEF A
  <2>2. Nat \subseteq A
    BY <2>1, NumberInduction
  <2>3. QED BY <1>1, <2>2
<1>11. ASSUME NEW n \in 0 .. N, D(n) > 0 PROVE M[n] = q
  <2>1. Untouched(n)
    BY <1>1, <1>10, <1>11
  <2> DEFINE F == [k \in 0 .. N |-> IF k <= n THEN 0 - M[n] ELSE 0 - M[k]]
  <2>2. M[n] \in Int /\ \A k \in 0 .. N : M[k] \in Int
    BY <1>4
  <2>3. F \in [0 .. N -> Int] /\ \A k \in 0 .. N : F[k] = IF k <= n THEN 0 - M[n] ELSE 0 - M[k]
    BY <2>2
  <2> HIDE DEF F
  <2>4. ASSUME NEW k \in 1 .. N PROVE F[k - 1] <= F[k]
    <3>1. k \in 0 .. N /\ k - 1 \in 0 .. N /\ n \in Nat /\ k \in Nat
      BY <1>1
    <3>2. F[k] = (IF k <= n THEN 0 - M[n] ELSE 0 - M[k])
          /\ F[k - 1] = (IF k - 1 <= n THEN 0 - M[n] ELSE 0 - M[k - 1])
      BY <2>3, <3>1
    <3>3. CASE k <= n
      <4>1. k - 1 <= n
        BY <3>1, <3>3
      <4>2. QED BY <2>2, <3>2, <3>3, <4>1
    <3>4. CASE k > n
      <4>1. M[k] = M[k - 1] /\ M[k] \in Int
        BY <1>5, <2>1, <3>4
      <4>2. CASE k - 1 <= n
        <5>1. k - 1 = n
          BY <3>1, <3>4, <4>2
        <5>2. QED BY <2>2, <3>1, <3>2, <3>4, <4>1, <5>1
      <4>3. CASE ~(k - 1 <= n)
        BY <3>1, <3>2, <3>4, <4>1, <4>3
      <4>4. QED BY <4>2, <4>3
    <3>5. QED BY <3>1, <3>3, <3>4
  <2>5. F[n] <= F[N]
    <3>1. N \in Nat /\ F \in [0 .. N -> Int] /\ n \in 0 .. N /\ N \in 0 .. N /\ n <= N
      BY <1>1, <2>3
    <3>2. \A k \in 1 .. N : F[k - 1] <= F[k]
      BY <2>4
    <3> HIDE DEF N
    <3>3. QED BY <3>1, <3>2, Growing
  <2>6. F[n] = 0 - M[n] /\ F[N] = 0 - M[N]
    BY <1>1, <2>3
  <2>7. M[n] <= M[N] /\ M[N] \in Int
    BY <1>1, <1>4, <1>7
  <2>8. M[N] <= M[n]
    BY <2>2, <2>5, <2>6, <2>7
  <2>9. QED BY <1>6, <2>2, <2>7, <2>8
<1>12. \A n \in 0 .. N : M[n] <= q
  BY <1>1, <1>6, <1>7
<1>13. N \in 0 .. N
  BY <1>1
<1>14. /\ UpTo(R, N) - D(N) = q
       /\ \A n \in 0 .. N : UpTo(R, n) - D(n) <= q /\ (D(n) > 0 => UpTo(R, n) - D(n) = q)
  BY <1>4, <1>6, <1>11, <1>12, <1>13
<1>15. QED BY <1>14 DEF D, q

\* P is Q without its first q units.
Shortened(P, Q, q) == q \in 0 .. Len(Q) /\ P = SubSeq(Q, q + 1, Len(Q))

\* Units are taken from the front of the queue.
LEMMA QueueAfterSell ==
  ASSUME NEW R \in [Orders -> Row], NEW e \in [Orders -> Prices \cup {0}],
         NEW f \in Nat, NEW m \in FifoMatches(R, f),
         NEW W \in [Orders -> Row], W = AfterSell(R, m),
         NEW Q, QueueOf(Q, R, e), NEW P, QueueOf(P, W, e), NEW q, q = Min({f, OpenSize(R)})
  PROVE  Shortened(P, Q, q)
<1> DEFINE N == MaxOrders
           C(n) == UpTo(R, n)
           D(n) == UpTo(W, n)
<1>1. N \in Nat /\ Orders = 1 .. N /\ \A n \in 1 .. N : n \in 0 .. N /\ n - 1 \in 0 .. N
      /\ N \in 0 .. N
  BY BookAssumption DEF Orders
<1>2. /\ Q \in Seq(Unit) /\ Len(Q) = C(N)
      /\ \A n \in Orders : \A i \in C(n - 1) + 1 .. C(n) : Q[i] = [age |-> n, price |-> e[n]]
  BY DEF QueueOf
<1>3. /\ P \in Seq(Unit) /\ Len(P) = D(N)
      /\ \A n \in Orders : \A i \in D(n - 1) + 1 .. D(n) : P[i] = [age |-> n, price |-> e[n]]
  BY DEF QueueOf
<1>4. \A n \in 0 .. N : C(n) \in Nat /\ D(n) \in Nat
  BY CountStep
<1>5. /\ C(N) - D(N) = q
      /\ \A n \in 0 .. N : C(n) - D(n) <= q /\ (D(n) > 0 => C(n) - D(n) = q)
  BY CountsAfterSell
<1>6. \A i \in 1 .. D(N) : \E n \in Orders : D(n - 1) < i /\ i <= D(n)
  BY Owner
<1>7. q \in Nat /\ q <= C(N)
  <2>1. f \in Int /\ OpenSize(R) \in Nat /\ C(N) = OpenSize(R)
    BY CountStep
  <2>2. q = IF f <= OpenSize(R) THEN f ELSE OpenSize(R)
    BY <2>1, MinOfTwo
  <2>3. QED BY <2>1, <2>2
<1> HIDE DEF C, D
<1> DEFINE T == SubSeq(Q, q + 1, Len(Q))
<1>8. /\ T \in Seq(Unit) /\ Len(T) = Len(Q) - q
      /\ \A i \in 1 .. Len(Q) - q : T[i] = Q[q + i]
  <2>1. Len(Q) \in Nat /\ q \in Nat /\ q <= Len(Q)
    BY <1>1, <1>2, <1>4, <1>7
  <2>2. Q \in Seq(Unit)
    BY <1>2
  <2> DEFINE a == q + 1
             z == Len(Q)
  <2>3. a \in Int /\ z \in Int /\ (a <= z => z - a + 1 = z - q) /\ (~(a <= z) => z - q = 0)
        /\ z - a + 1 = z - q
    BY <2>1
  <2>4. \A i \in a .. z : Q[i] \in Unit
    <3>1. \A i \in a .. z : i \in 1 .. Len(Q)
      BY <2>1
    <3>2. QED BY <2>2, <3>1, ElementOfSeq
  <2>5. T = SubSeq(Q, a, z)
    OBVIOUS
  <2> HIDE DEF a, T
  <2>6. /\ T \in Seq(Unit) /\ Len(T) = IF a <= z THEN z - a + 1 ELSE 0
        /\ \A i \in 1 .. z - a + 1 : T[i] = Q[a + i - 1]
    BY <2>3, <2>4, <2>5, SubSeqProperties
  <2>7. ASSUME NEW i \in 1 .. Len(Q) - q PROVE T[i] = Q[q + i]
    <3>1. a + i - 1 = q + i /\ i \in 1 .. z - a + 1
      BY <2>1 DEF a
    <3>2. T[i] = Q[a + i - 1]
      BY <2>6, <3>1
    <3>3. QED BY <3>1, <3>2
  <2>8. T \in Seq(Unit) /\ Len(T) = Len(Q) - q
    BY <2>3, <2>6
  <2>9. QED BY <2>7, <2>8
<1> HIDE DEF T
<1>9. Len(P) = Len(T)
  BY <1>1, <1>2, <1>3, <1>4, <1>5, <1>7, <1>8
<1>10. ASSUME NEW i \in 1 .. Len(P) PROVE P[i] = T[i]
  <2>1. PICK n \in Orders : D(n - 1) < i /\ i <= D(n)
    BY <1>3, <1>6
  <2>2. /\ C(n) \in Nat /\ C(n - 1) \in Nat /\ D(n) \in Nat /\ D(n - 1) \in Nat /\ i \in Nat
        /\ C(n) - D(n) <= q /\ (D(n) > 0 => C(n) - D(n) = q) /\ C(n - 1) - D(n - 1) <= q
    <3>1. n \in 0 .. N /\ n - 1 \in 0 .. N
      BY <1>1
    <3>2. C(n) - D(n) <= q /\ (D(n) > 0 => C(n) - D(n) = q)
      BY <1>5, <3>1
    <3>3. C(n - 1) - D(n - 1) <= q
      BY <1>5, <3>1
    <3>4. /\ C(n) \in Nat /\ C(n - 1) \in Nat /\ D(n) \in Nat /\ D(n - 1) \in Nat
          /\ i \in Nat
      BY <1>4, <3>1
    <3>5. QED BY <3>2, <3>3, <3>4
  <2>3. P[i] = [age |-> n, price |-> e[n]]
    <3>1. i \in D(n - 1) + 1 .. D(n)
      BY <2>1, <2>2
    <3>2. QED BY <1>3, <3>1
  <2>4. q + i \in C(n - 1) + 1 .. C(n)
    BY <1>7, <2>1, <2>2
  <2>5. Q[q + i] = [age |-> n, price |-> e[n]]
    BY <1>2, <2>4
  <2>6. i \in 1 .. Len(Q) - q
    BY <1>8, <1>9
  <2>7. QED BY <1>8, <2>3, <2>5, <2>6
<1>11. P = T
  BY <1>3, <1>8, <1>9, <1>10, SeqEqual
<1>12. QED BY <1>1, <1>2, <1>4, <1>7, <1>11 DEF T, Shortened

-----------------------------------------------------------------------------
(* What a SELL earns                                                       *)

\* What was paid for the first j units of the queue.
Paid(Q, j) == SumFunctionOnSet([i \in 1 .. Len(Q) |-> Q[i].price], 1 .. j)

\* Prices are integers.
LEMMA PriceOfUnit ==
  /\ \A x \in Prices \cup {0} : x \in Int
  /\ \A Q \in Seq(Unit) : \A i \in 1 .. Len(Q) : Q[i].price \in Int
<1>1. \A x \in Prices : x \in Int
  BY PriceAssumption
<1>2. \A x \in Prices \cup {0} : x \in Int
  BY <1>1
<1>3. \A u \in Unit : u.price \in Prices \cup {0}
  BY DEF Unit
<1>4. ASSUME NEW Q \in Seq(Unit), NEW i \in 1 .. Len(Q) PROVE Q[i] \in Unit
  BY ElementOfSeq
<1>5. QED BY <1>2, <1>3, <1>4

\* Unit by unit.
LEMMA PaidStep ==
  ASSUME NEW Q \in Seq(Unit)
  PROVE  /\ Paid(Q, 0) = 0 /\ \A j \in 0 .. Len(Q) : Paid(Q, j) \in Int
         /\ \A j \in 1 .. Len(Q) : Paid(Q, j) = Paid(Q, j - 1) + Q[j].price
<1> DEFINE F == [i \in 1 .. Len(Q) |-> Q[i].price]
<1>1. \A i \in 1 .. Len(Q) : F[i] = Q[i].price /\ F[i] \in Int
  <2> SUFFICES ASSUME NEW i \in 1 .. Len(Q) PROVE Q[i].price \in Int
    OBVIOUS
  <2>1. QED BY PriceOfUnit
<1>2. \A j : Paid(Q, j) = SumFunctionOnSet(F, 1 .. j)
  BY DEF Paid
<1>3. Len(Q) \in Nat
  OBVIOUS
<1> HIDE DEF F
<1>4. \A j \in 0 .. Len(Q) : Summable(F, 1 .. j)
  BY <1>1, <1>3, FS_Interval DEF Summable
<1>5. Paid(Q, 0) = 0
  <2>1. 1 .. 0 = {}
    OBVIOUS
  <2>2. QED BY <1>2, <2>1, SumEmpty
<1>6. \A j \in 0 .. Len(Q) : Paid(Q, j) \in Int
  BY <1>2, <1>4, SumInt
<1>7. ASSUME NEW j \in 1 .. Len(Q) PROVE Paid(Q, j) = Paid(Q, j - 1) + Q[j].price
  <2>1. 1 \in Nat /\ j \in Nat /\ 1 <= j /\ j \in 0 .. Len(Q)
    BY <1>3
  <2>2. Summable(F, 1 .. j)
    BY <1>4, <2>1
  <2>3. SumFunctionOnSet(F, 1 .. j) = SumFunctionOnSet(F, 1 .. j - 1) + F[j]
    BY <2>1, <2>2, SumLast
  <2>4. QED BY <1>1, <1>2, <2>3
<1>8. QED BY <1>5, <1>6, <1>7

\* Units of one price.
LEMMA PaidMore ==
  ASSUME NEW Q \in Seq(Unit), NEW a \in Nat, NEW k \in Nat, a + k <= Len(Q), NEW p \in Int,
         \A i \in a + 1 .. a + k : Q[i].price = p
  PROVE  Paid(Q, a + k) = Paid(Q, a) + p * k
<1> DEFINE A == {j \in Nat : j <= k => Paid(Q, a + j) = Paid(Q, a) + p * j}
<1>1. a \in 0 .. Len(Q) /\ Paid(Q, a) \in Int /\ Len(Q) \in Nat
  <2>1. a \in 0 .. Len(Q) /\ Len(Q) \in Nat
    OBVIOUS
  <2>2. QED BY <2>1, PaidStep
<1>2. 0 \in A
  BY <1>1
<1>3. ASSUME NEW j \in Nat, j \in A PROVE j + 1 \in A
  <2>1. ASSUME j + 1 <= k PROVE Paid(Q, a + (j + 1)) = Paid(Q, a) + p * (j + 1)
    <3> DEFINE b == a + (j + 1)
    <3>1. b \in 1 .. Len(Q) /\ b - 1 = a + j /\ b \in a + 1 .. a + k
      BY <1>1, <2>1
    <3>2. Paid(Q, a + j) = Paid(Q, a) + p * j
      BY <1>3, <2>1
    <3> HIDE DEF b
    <3>3. Paid(Q, b) = Paid(Q, b - 1) + Q[b].price
      BY <3>1, PaidStep
    <3>4. Q[b].price = p
      BY <3>1
    <3>5. Paid(Q, b) = Paid(Q, a) + p * j + p
      BY <3>1, <3>2, <3>3, <3>4
    <3>6. p * (j + 1) = p * j + p /\ p * j \in Int
      OBVIOUS
    <3>7. Paid(Q, b) = Paid(Q, a) + p * (j + 1)
      BY <1>1, <3>5, <3>6
    <3>8. QED BY <3>7 DEF b
  <2>2. QED BY <2>1
<1>4. k \in A
  <2>1. 0 \in A /\ \A j \in Nat : j \in A => j + 1 \in A
    BY <1>2, <1>3
  <2> HIDE DEF A
  <2>2. QED BY <2>1, NumberInduction
<1>5. QED BY <1>4

\* A SELL of the first q units at one price earns the difference.
LEMMA GainIs ==
  ASSUME NEW Q \in Seq(Unit), NEW q \in 0 .. Len(Q), NEW price \in Int
  PROVE  SumFunctionOnSet([i \in 1 .. q |-> price - Q[i].price], 1 .. q)
           = price * q - Paid(Q, q)
<1> DEFINE G == [i \in 1 .. q |-> price - Q[i].price]
           A == {j \in Nat : j <= q => SumFunctionOnSet(G, 1 .. j) = price * j - Paid(Q, j)}
<1>0. q \in Nat /\ Len(Q) \in Nat /\ q <= Len(Q)
  OBVIOUS
<1>1. \A i \in 1 .. q : G[i] = price - Q[i].price /\ G[i] \in Int /\ Q[i].price \in Int
  <2> SUFFICES ASSUME NEW i \in 1 .. q PROVE Q[i].price \in Int
    OBVIOUS
  <2>1. i \in 1 .. Len(Q)
    BY <1>0
  <2>2. QED BY <2>1, PriceOfUnit
<1> HIDE DEF G
<1>2. 0 \in A
  <2>1. 1 .. 0 = {} /\ price * 0 = 0
    OBVIOUS
  <2>2. SumFunctionOnSet(G, 1 .. 0) = 0
    BY <2>1, SumEmpty
  <2>3. QED BY <2>1, <2>2, PaidStep
<1>3. ASSUME NEW j \in Nat, j \in A PROVE j + 1 \in A
  <2>1. ASSUME j + 1 <= q
        PROVE  SumFunctionOnSet(G, 1 .. j + 1) = price * (j + 1) - Paid(Q, j + 1)
    <3> DEFINE b == j + 1
    <3>1. /\ 1 \in Nat /\ b \in Nat /\ 1 <= b /\ b - 1 = j /\ b \in 1 .. Len(Q) /\ b \in 1 .. q
          /\ j \in 0 .. Len(Q) /\ \A i \in 1 .. b : i \in 1 .. q
      BY <1>0, <2>1
    <3>2. SumFunctionOnSet(G, 1 .. j) = price * j - Paid(Q, j)
      BY <1>0, <1>3, <2>1
    <3>3. price * (j + 1) = price * j + price /\ price * j \in Int
      OBVIOUS
    <3> HIDE DEF b
    <3>4. Summable(G, 1 .. b)
      BY <1>1, <3>1, FS_Interval DEF Summable
    <3>5. SumFunctionOnSet(G, 1 .. b) = SumFunctionOnSet(G, 1 .. b - 1) + G[b]
      BY <3>1, <3>4, SumLast
    <3>6. Paid(Q, b) = Paid(Q, b - 1) + Q[b].price
      BY <3>1, PaidStep
    <3>7. Paid(Q, j) \in Int /\ G[b] = price - Q[b].price /\ Q[b].price \in Int
      BY <1>1, <3>1, PaidStep
    <3>8. SumFunctionOnSet(G, 1 .. b) = price * j - Paid(Q, j) + (price - Q[b].price)
      BY <3>1, <3>2, <3>5, <3>7
    <3>9. Paid(Q, b) = Paid(Q, j) + Q[b].price
      BY <3>1, <3>6
    <3>10. SumFunctionOnSet(G, 1 .. b) = price * (j + 1) - Paid(Q, b)
      BY <3>3, <3>7, <3>8, <3>9
    <3>11. QED BY <3>10 DEF b
  <2>2. QED BY <2>1
<1>4. q \in A
  <2>1. 0 \in A /\ \A j \in Nat : j \in A => j + 1 \in A
    BY <1>2, <1>3
  <2> HIDE DEF A
  <2>2. QED BY <1>0, <2>1, NumberInduction
<1>5. QED BY <1>0, <1>4 DEF G

\* The loop's cost is what was paid for the units it matched.
LEMMA LoopPays ==
  ASSUME NEW f \in Nat, rows \in [Orders -> Row], entry \in [Orders -> Prices \cup {0}],
         NEW Q, QueueOf(Q, rows, entry)
  PROVE  /\ MatchLoop(f).left \in Int /\ f - MatchLoop(f).left = Min({f, OpenSize(rows)})
         /\ MatchLoop(f).cost = Paid(Q, Min({f, OpenSize(rows)}))
<1> DEFINE N == MaxOrders
           C(n) == UpTo(rows, n)
           Pays(s, n) == /\ s.left \in Nat /\ s.left <= f /\ f - s.left <= C(n)
                         /\ s.left > 0 => f - s.left = C(n)
                         /\ s.cost = Paid(Q, f - s.left)
<1>1. PICK st : st = [o \in 0 .. N |-> After(f, st, o)] /\ MatchLoop(f) = st[N]
  BY LoopStates
<1>2. \A n \in 0 .. N : st[n] = After(f, st, n)
  BY <1>1
<1>3. N \in Nat /\ Orders = 1 .. N /\ N \in 0 .. N
  BY BookAssumption DEF Orders
<1>4. /\ Q \in Seq(Unit) /\ Len(Q) = C(N)
      /\ \A n \in Orders : \A i \in C(n - 1) + 1 .. C(n) : Q[i] = [age |-> n, price |-> entry[n]]
  BY DEF QueueOf
<1>5. /\ C(0) = 0 /\ C(N) = OpenSize(rows) /\ OpenSize(rows) \in Nat
      /\ \A n \in 0 .. N : C(n) \in Nat
      /\ \A n \in 1 .. N : C(n) = C(n - 1) + Remaining(rows)[n] /\ Remaining(rows)[n] \in Nat
  BY <1>3, CountStep
<1>6. \A n \in 0 .. N : C(n) <= C(N)
  BY <1>3, CountsGrow
<1> HIDE DEF C
<1>7. Pays(st[0], 0)
  <2>1. st[0] = Start(f)
    BY <1>2, <1>3 DEF After
  <2>2. st[0].left = f /\ st[0].cost = 0
    BY <2>1 DEF Start
  <2>3. Paid(Q, 0) = 0 /\ f - f = 0
    BY <1>4, PaidStep
  <2>4. QED BY <1>5, <2>2, <2>3
<1>8. ASSUME NEW n \in Nat, n + 1 <= N, Pays(st[n], n) PROVE Pays(st[n + 1], n + 1)
  <2> DEFINE o == n + 1
             s == st[n]
             r == Remaining(rows)[o]
             t == f - s.left
  <2>1. o \in 1 .. N /\ o - 1 = n /\ o \in 0 .. N /\ o # 0 /\ n \in 0 .. N
    BY <1>3, <1>8
  <2>2. st[o] = IF o \in OpenPositions(rows) THEN MatchStep(s, o) ELSE s
    BY <1>2, <2>1 DEF After
  <2>3. C(o) = C(n) + r /\ r \in Nat /\ C(n) \in Nat /\ C(o) \in Nat /\ C(o) <= C(N)
        /\ C(N) \in Nat
    BY <1>3, <1>5, <1>6, <2>1
  <2>4. Pays(s, n)
    BY <1>8
  <2>5. CASE o \notin OpenPositions(rows)
    <3>1. r = 0
      BY <1>3, <2>1, <2>5 DEF Remaining
    <3>2. st[o] = s /\ C(o) = C(n)
      BY <2>2, <2>3, <2>5, <3>1
    <3>3. QED BY <2>4, <3>2
  <2>6. CASE o \in OpenPositions(rows) /\ s.left <= 0
    <3>1. st[o] = s
      BY <2>2, <2>6 DEF MatchStep
    <3> HIDE DEF o, s, r
    <3>2. Pays(s, o)
      BY <2>3, <2>4, <2>6
    <3>3. Pays(st[o], o)
      BY <3>1, <3>2
    <3>4. QED BY <3>3 DEF o
  <2>7. CASE o \in OpenPositions(rows) /\ s.left > 0
    <3> DEFINE k == Min({s.left, rows[o].rem})
    <3>1. r = rows[o].rem /\ entry[o] \in Int
      <4>1. entry[o] \in Prices \cup {0}
        BY <1>3, <2>1
      <4>2. r = rows[o].rem
        BY <1>3, <2>1, <2>7 DEF Remaining
      <4>3. QED BY <4>1, <4>2, PriceOfUnit
    <3>2. st[o] = [left |-> s.left - k, cost |-> s.cost + entry[o] * k,
                   match |-> [s.match EXCEPT ![o] = k]]
      BY <2>2, <2>4, <2>7 DEF MatchStep
    <3>3. st[o].left = s.left - k /\ st[o].cost = s.cost + entry[o] * k
      BY <3>2
    <3>4. s.left \in Int /\ r \in Int /\ s.left \in Nat /\ r \in Nat
      BY <2>3, <2>4
    <3>5. k = IF s.left <= r THEN s.left ELSE r
      BY <3>1, <3>4, MinOfTwo
    <3> HIDE DEF k
    <3>6. k \in Nat /\ k <= s.left /\ k <= r /\ (s.left - k > 0 => k = r)
      BY <3>4, <3>5
    <3>7. t = C(n) /\ s.cost = Paid(Q, t) /\ s.left <= f
      BY <2>4, <2>7
    <3>8. \A i \in C(n) + 1 .. C(n) + k : Q[i].price = entry[o]
      <4> SUFFICES ASSUME NEW i \in C(n) + 1 .. C(n) + k PROVE Q[i].price = entry[o]
        OBVIOUS
      <4>1. i \in C(o - 1) + 1 .. C(o) /\ o \in Orders
        BY <1>3, <2>1, <2>3, <3>6
      <4>2. Q[i] = [age |-> o, price |-> entry[o]]
        BY <1>4, <4>1
      <4>3. QED BY <4>2
    <3>9. C(n) + k <= Len(Q)
      BY <1>4, <2>3, <3>6
    <3> HIDE DEF o, s, r, t
    <3>10. Paid(Q, C(n) + k) = Paid(Q, C(n)) + entry[o] * k
      BY <1>4, <2>3, <3>1, <3>6, <3>8, <3>9, PaidMore
    <3>11. f - st[o].left = C(n) + k /\ st[o].left \in Nat /\ st[o].left <= f
      BY <2>3, <3>3, <3>4, <3>6, <3>7 DEF t
    <3>12. st[o].cost = Paid(Q, f - st[o].left)
      BY <3>3, <3>7, <3>10, <3>11
    <3>13. f - st[o].left <= C(o) /\ (st[o].left > 0 => f - st[o].left = C(o))
      BY <2>3, <3>3, <3>6, <3>11
    <3>14. Pays(st[o], o)
      BY <3>11, <3>12, <3>13
    <3>15. QED BY <3>14 DEF o
  <2>8. s.left \in Nat
    BY <2>4
  <2>9. QED BY <2>5, <2>6, <2>7, <2>8
<1> DEFINE A == {n \in Nat : n <= N => Pays(st[n], n)}
<1>9. N \in A
  <2> HIDE DEF Pays
  <2>1. 0 \in A
    BY <1>7
  <2>2. ASSUME NEW n \in Nat, n \in A PROVE n + 1 \in A
    <3>1. ASSUME n + 1 <= N PROVE Pays(st[n + 1], n + 1)
      <4>1. n <= N
        BY <1>3, <3>1
      <4>2. QED BY <1>8, <2>2, <3>1, <4>1
    <3>2. QED BY <3>1
  <2> HIDE DEF A
  <2>3. QED BY <1>3, <2>1, <2>2, NumberInduction
<1>10. Pays(st[N], N)
  <2> HIDE DEF Pays
  <2>1. QED BY <1>3, <1>9
<1> DEFINE s == MatchLoop(f)
<1>11. /\ s.left \in Nat /\ s.left <= f /\ f - s.left <= OpenSize(rows)
       /\ s.left > 0 => f - s.left = OpenSize(rows)
       /\ s.cost = Paid(Q, f - s.left)
  BY <1>1, <1>5, <1>10
<1> HIDE DEF s
<1>12. f - s.left = Min({f, OpenSize(rows)})
  <2>1. f \in Int /\ OpenSize(rows) \in Int
    BY <1>5
  <2>2. Min({f, OpenSize(rows)}) = IF f <= OpenSize(rows) THEN f ELSE OpenSize(rows)
    BY <2>1, MinOfTwo
  <2>3. QED BY <1>5, <1>11, <2>2
<1>13. QED BY <1>11, <1>12 DEF s

-----------------------------------------------------------------------------
(* The refinement                                                          *)

\* The invariant, and that an order has no row before it is booked.
LedgerInv == BookInv /\ \A o \in Orders : o \notin trades => rows[o] = NoRow

\* What the abstract queue is.
LEMMA HeldIs ==
  ASSUME TypeOK
  PROVE  QueueOf(HeldUnits, rows, entry) /\ Len(HeldUnits) = OpenSize(rows)
<1>1. rows \in [Orders -> Row] /\ entry \in [Orders -> Prices \cup {0}]
  BY DEF TypeOK
<1>2. \A o \in Orders :
        Remaining(rows)[o] = IF IsOpen(rows[o]) THEN rows[o].rem ELSE 0
  <2> SUFFICES ASSUME NEW o \in Orders
               PROVE  Remaining(rows)[o] = IF IsOpen(rows[o]) THEN rows[o].rem ELSE 0
    OBVIOUS
  <2>1. rows[o].rem \in Nat
    BY <1>1, BookAssumption DEF Row, Sizes
  <2>2. QED BY <2>1 DEF Remaining, OpenPositions
<1>3. HeldUnits = UnitsOf(rows, entry)
  <2>1. \A o \in Orders :
          LotOf(rows, entry, o) = [i \in 1 .. (IF IsOpen(rows[o]) THEN rows[o].rem ELSE 0) |->
                                     [age |-> o, price |-> entry[o]]]
    BY <1>2 DEF LotOf
  <2>2. [o \in Orders |-> LotOf(rows, entry, o)]
          = [o \in Orders |-> [i \in 1 .. (IF IsOpen(rows[o]) THEN rows[o].rem ELSE 0) |->
                                 [age |-> o, price |-> entry[o]]]]
    BY <2>1
  <2>3. QED BY <2>2 DEF HeldUnits, UnitsOf
<1>4. QueueOf(HeldUnits, rows, entry)
  BY <1>1, <1>3, UnitsQueue
<1>5. QED BY <1>1, <1>4, CountStep DEF QueueOf

\* A queue of no units.
LEMMA NoneHeld ==
  ASSUME NEW R \in [Orders -> Row], NEW e, NEW Q, QueueOf(Q, R, e), OpenSize(R) = 0
  PROVE  Q = <<>>
<1>1. Q \in Seq(Unit) /\ Len(Q) = 0
  BY CountStep DEF QueueOf
<1>2. QED BY <1>1, EmptySeq

\* The empty tables are the empty queue.
LEMMA LedgerStarts == Init => LedgerInv /\ Ledger!Init
<1> SUFFICES ASSUME Init PROVE LedgerInv /\ Ledger!Init
  OBVIOUS
<1>1. BookInv /\ \A o \in Orders : rows[o] = NoRow
  BY BookInit DEF Init
<1>2. rows \in [Orders -> Row] /\ QueueOf(HeldUnits, rows, entry)
  BY <1>1, HeldIs DEF BookInv, TypeOK
<1>3. OpenSize(rows) = 0
  <2>1. OpenPositions(rows) = {}
    BY <1>1 DEF OpenPositions, IsOpen, NoRow
  <2>2. QED BY <2>1, SumEmpty DEF OpenSize
<1>4. HeldUnits = <<>>
  BY <1>2, <1>3, NoneHeld
<1>5. QED BY <1>1, <1>4 DEF LedgerInv, Ledger!Init, Init

\* A BUY puts its units into the queue.
LEMMA LedgerBuys ==
  ASSUME LedgerInv, LedgerInv', NEW o \in Orders, NEW n \in Sizes \ {0}, NEW price \in Prices,
         NEW fee \in Fees, RecordBuy(o, n, price, fee)
  PROVE  Ledger!Buy(o, n, price, fee)
<1>1. rows \in [Orders -> Row] /\ entry \in [Orders -> Prices \cup {0}] /\ rows[o] = NoRow
  BY DEF LedgerInv, BookInv, TypeOK, RecordBuy
<1>2. rows' = AfterBuy(rows, o, n) /\ entry' = [entry EXCEPT ![o] = price]
  BY DEF RecordBuy, AfterBuy
<1>3. QueueOf(HeldUnits, rows, entry)
  BY HeldIs DEF LedgerInv, BookInv
<1>4. QueueOf(HeldUnits, rows, entry)'
  BY HeldIs, PTL DEF LedgerInv, BookInv
<1>5. QueueOf(HeldUnits', AfterBuy(rows, o, n), PricedAt(entry, o, price))
  BY <1>2, <1>4 DEF QueueOf, PricedAt
<1>6. Inserted(HeldUnits', HeldUnits, o, n, price)
  <2> DEFINE Q == HeldUnits
             P == HeldUnits'
  <2>1. QueueOf(Q, rows, entry) /\ QueueOf(P, AfterBuy(rows, o, n), PricedAt(entry, o, price))
    BY <1>3, <1>5
  <2> HIDE DEF P, Q
  <2>2. Inserted(P, Q, o, n, price)
    BY <1>1, <2>1, QueueAfterBuy
  <2>3. QED BY <2>2 DEF P, Q
<1>7. realised' = realised - fee
  BY DEF RecordBuy
<1>8. QED BY <1>6, <1>7 DEF Ledger!Buy, Ledger!Lot, Inserted

\* The abstract queue adds up as the tables do.
LEMMA LedgerSums == \A F, S : Ledger!SumFunctionOnSet(F, S) = SumFunctionOnSet(F, S)
BY DEF Ledger!SumFunctionOnSet, Ledger!FoldFunctionOnSet, Ledger!MapThenFoldSet,
       SumFunctionOnSet, FoldFunctionOnSet, MapThenFoldSet

\* A SELL takes its units from the front of the queue and earns the difference for them.
LEMMA LedgerSells ==
  ASSUME LedgerInv, LedgerInv', NEW o \in Orders, NEW f \in Sizes, NEW price \in Prices,
         NEW fee \in Fees, RecordSell(o, f, price, fee)
  PROVE  Ledger!Sell(f, price, fee)
<1> DEFINE Q == HeldUnits
           P == HeldUnits'
           m == MatchLoop(f).match
           q == Min({f, OpenSize(rows)})
<1>1. /\ rows \in [Orders -> Row] /\ rows' \in [Orders -> Row]
      /\ entry \in [Orders -> Prices \cup {0}] /\ realised \in Int
      /\ \A p \in Orders : entry[p] \in Int
  BY EntryInt DEF LedgerInv, BookInv, TypeOK
<1>2. f \in Nat /\ price \in Int /\ fee \in Int
  BY BookAssumption, PriceAssumption DEF Sizes
<1>3. m \in FifoMatches(rows, f)
  BY <1>1, LoopMatches
<1>4. rows' = AfterSell(rows, m) /\ entry' = entry
      /\ realised' = realised + SellPnl(f, price, fee)
  BY DEF RecordSell, AfterSell
<1>5. QueueOf(Q, rows, entry) /\ Len(Q) = OpenSize(rows)
  BY HeldIs DEF LedgerInv, BookInv
<1>6. QueueOf(HeldUnits, rows, entry)'
  BY HeldIs, PTL DEF LedgerInv, BookInv
<1>7. QueueOf(P, rows', entry)
  BY <1>4, <1>6 DEF QueueOf
<1>8. Q \in Seq(Unit)
  BY <1>5 DEF QueueOf
<1>9. q = Ledger!Lesser(f, Len(Q))
  <2>1. f \in Int /\ OpenSize(rows) \in Nat
    BY <1>1, <1>2, CountStep
  <2>2. q = IF f <= OpenSize(rows) THEN f ELSE OpenSize(rows)
    BY <2>1, MinOfTwo
  <2>3. QED BY <1>5, <2>1, <2>2 DEF Ledger!Lesser
<1>10. /\ MatchLoop(f).left \in Int /\ f - MatchLoop(f).left = q
       /\ MatchLoop(f).cost = Paid(Q, q)
  <2> HIDE DEF Q
  <2>1. QED BY <1>1, <1>2, <1>5, LoopPays
<1> DEFINE W == rows'
<1> HIDE DEF Q, P, m, q, W
<1>11. q \in 0 .. Len(Q) /\ P = SubSeq(Q, q + 1, Len(Q))
  <2>1. W \in [Orders -> Row] /\ W = AfterSell(rows, m) /\ QueueOf(P, W, entry)
    BY <1>1, <1>4, <1>7 DEF W
  <2>2. q = Min({f, OpenSize(rows)})
    BY DEF q
  <2>3. /\ rows \in [Orders -> Row] /\ entry \in [Orders -> Prices \cup {0}] /\ f \in Nat
        /\ m \in FifoMatches(rows, f) /\ QueueOf(Q, rows, entry)
    BY <1>1, <1>2, <1>3, <1>5
  <2>4. Shortened(P, Q, q)
    BY <2>1, <2>2, <2>3, QueueAfterSell
  <2>5. QED BY <2>4 DEF Shortened
<1> DEFINE gain == SumFunctionOnSet([i \in 1 .. q |-> price - Q[i].price], 1 .. q)
<1>12. gain = price * q - Paid(Q, q)
  BY <1>2, <1>8, <1>11, GainIs
<1>13. /\ q \in Nat /\ Paid(Q, q) \in Int /\ price * q \in Int
       /\ q = 0 => price * q = 0 /\ Paid(Q, q) = 0
  <2>1. q \in Nat /\ q \in 0 .. Len(Q)
    BY <1>8, <1>11
  <2>2. Paid(Q, q) \in Int /\ Paid(Q, 0) = 0
    BY <1>8, <2>1, PaidStep
  <2>3. price * q \in Int /\ price * 0 = 0
    BY <1>2, <2>1
  <2>4. QED BY <2>1, <2>2, <2>3
<1> HIDE DEF gain
<1>14. SellPnl(f, price, fee) = gain - fee
  <2>1. SellPnl(f, price, fee) = IF q > 0 THEN price * q - Paid(Q, q) - fee ELSE -fee
    BY <1>10 DEF SellPnl
  <2>2. CASE q > 0
    BY <1>2, <1>12, <1>13, <2>1, <2>2
  <2>3. CASE ~(q > 0)
    <3>1. q = 0
      BY <1>13, <2>3
    <3>2. gain = 0
      BY <1>12, <1>13, <3>1
    <3>3. QED BY <1>2, <2>1, <2>3, <3>2
  <2>4. QED BY <2>2, <2>3
<1>15. gain \in Int
  BY <1>12, <1>13
<1>16. realised' = realised + gain - fee
  BY <1>1, <1>2, <1>4, <1>14, <1>15
<1>17. gain = Ledger!SumFunctionOnSet([i \in 1 .. q |-> price - Q[i].price], 1 .. q)
  BY LedgerSums DEF gain
<1>18. QED BY <1>9, <1>11, <1>16, <1>17 DEF Ledger!Sell, Q, P

\* Closing the positions that cannot be sold writes the units off.
LEMMA LedgerCloses ==
  ASSUME LedgerInv, LedgerInv', CloseGhostPositions
  PROVE  Ledger!WriteOff
<1>1. rows \in [Orders -> Row] /\ rows' = CloseAll(rows)
  BY DEF LedgerInv, BookInv, TypeOK, CloseGhostPositions
<1>2. OpenSize(rows') = 0
  BY <1>1, OpenSizeClosed
<1>3. (QueueOf(HeldUnits, rows, entry) /\ Len(HeldUnits) = OpenSize(rows))'
  BY HeldIs, PTL DEF LedgerInv, BookInv
<1>4. HeldUnits' = <<>>
  <2> DEFINE P == HeldUnits'
  <2>1. P \in Seq(Unit) /\ Len(P) = 0
    BY <1>2, <1>3 DEF QueueOf
  <2> HIDE DEF P
  <2>2. P = <<>>
    BY <2>1, EmptySeq
  <2>3. QED BY <2>2 DEF P
<1>5. QED BY <1>4 DEF Ledger!WriteOff, CloseGhostPositions

\* Orders that are not booked stay without a row.
LEMMA LedgerKept == LedgerInv /\ [Next]_vars => LedgerInv'
<1> SUFFICES ASSUME LedgerInv, [Next]_vars PROVE LedgerInv'
  OBVIOUS
<1>1. BookInv'
  BY BookNext DEF LedgerInv
<1>2. /\ rows \in [Orders -> Row] /\ \A p \in Orders : entry[p] \in Int
      /\ \A p \in Orders : p \notin trades => rows[p] = NoRow
  BY EntryInt DEF LedgerInv, BookInv, TypeOK
<1>3. ASSUME NEW p \in Orders, p \notin trades' PROVE rows'[p] = NoRow
  <2>1. ASSUME NEW o \in Orders, NEW n \in Sizes \ {0}, NEW price \in Prices, NEW fee \in Fees,
               RecordBuy(o, n, price, fee)
        PROVE  rows'[p] = NoRow
    BY <1>2, <1>3, <2>1 DEF RecordBuy
  <2>2. ASSUME NEW o \in Orders, NEW f \in Sizes, NEW price \in Prices, NEW fee \in Fees,
               RecordSell(o, f, price, fee)
        PROVE  rows'[p] = NoRow
    <3> DEFINE m == MatchLoop(f).match
               upd == MatchedRows(rows, m)
    <3>1. p \notin trades /\ rows[p] = NoRow
      BY <1>2, <1>3, <2>2 DEF RecordSell
    <3>2. m \in FifoMatches(rows, f)
      BY <1>2, LoopMatches
    <3>3. rows' = [x \in Orders |-> IF upd[x] # NoRow THEN upd[x] ELSE rows[x]]
      BY <2>2 DEF RecordSell
    <3> HIDE DEF m
    <3>4. ~(m[p] > 0)
      <4>1. p \notin OpenPositions(rows)
        BY <3>1 DEF OpenPositions, IsOpen, NoRow
      <4>2. m[p] <= 0 /\ m[p] \in Nat
        BY <3>2, <4>1, BookAssumption DEF FifoMatches, Sizes
      <4>3. QED BY <4>2
    <3>5. upd[p] = NoRow
      BY <3>4 DEF MatchedRows
    <3> HIDE DEF upd
    <3>6. QED BY <3>1, <3>3, <3>5
  <2>3. CASE CloseGhostPositions
    <3>1. rows' = CloseAll(rows) /\ rows[p] = NoRow
      BY <1>2, <1>3, <2>3 DEF CloseGhostPositions
    <3>2. QED BY <3>1 DEF CloseAll, IsOpen, NoRow
  <2>4. CASE UNCHANGED vars
    BY <1>2, <1>3, <2>4 DEF vars
  <2>5. QED BY <2>1, <2>2, <2>3, <2>4 DEF Next
<1>4. QED BY <1>1, <1>3 DEF LedgerInv

\* Every booking is a step of the queue.
LEMMA LedgerNext ==
  ASSUME LedgerInv, LedgerInv', [Next]_vars
  PROVE  [Ledger!Next]_(Ledger!vars)
<1>1. ASSUME NEW o \in Orders, NEW n \in Sizes \ {0}, NEW price \in Prices, NEW fee \in Fees,
             RecordBuy(o, n, price, fee)
      PROVE  Ledger!Next
  <2>1. Ledger!Buy(o, n, price, fee)
    BY <1>1, LedgerBuys
  <2>2. QED BY <2>1 DEF Ledger!Next
<1>2. ASSUME NEW o \in Orders, NEW f \in Sizes, NEW price \in Prices, NEW fee \in Fees,
             RecordSell(o, f, price, fee)
      PROVE  Ledger!Next
  <2>1. Ledger!Sell(f, price, fee)
    BY <1>2, LedgerSells
  <2>2. f \in (Sizes \ {0}) \cup {0}
    OBVIOUS
  <2>3. QED BY <2>1, <2>2 DEF Ledger!Next
<1>3. CASE CloseGhostPositions
  <2>1. Ledger!WriteOff
    BY <1>3, LedgerCloses
  <2>2. QED BY <2>1 DEF Ledger!Next
<1>4. CASE UNCHANGED vars
  <2>1. HeldUnits' = HeldUnits /\ realised' = realised
    BY <1>4 DEF vars, HeldUnits
  <2>2. QED BY <2>1 DEF Ledger!vars
<1>5. QED BY <1>1, <1>2, <1>3, <1>4 DEF Next

\* For every number of orders, all sizes, prices and fees: booking positions and trades row
\* by row realises the same profit as a queue of single units, oldest first, from which
\* every SELL takes its units and which a BUY enters behind the older orders.
THEOREM BookingsAreFifoLedger == Spec => ImplementsFifoLedger
<1>1. Init => LedgerInv /\ Ledger!Init
  BY LedgerStarts
<1>2. LedgerInv /\ [Next]_vars => LedgerInv'
  BY LedgerKept
<1>3. LedgerInv /\ LedgerInv' /\ [Next]_vars => [Ledger!Next]_(Ledger!vars)
  BY LedgerNext
<1>4. QED BY <1>1, <1>2, <1>3, PTL DEF Spec, ImplementsFifoLedger, Ledger!Spec
=============================================================================
