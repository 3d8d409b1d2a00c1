---------------------------- MODULE PositionBookProofs ----------------------------
(***************************************************************************)
(* Lemmas about the operators of PositionBook, for every table of          *)
(* positions: what a first-in-first-out match takes from each row, that    *)
(* there is no more than one match, and what becomes of the units of the   *)
(* open positions when a BUY, a SELL or a closing is booked.               *)
(***************************************************************************)
EXTENDS PositionBook, SumTheorems

\* A match takes from each row at most what remains in it.
LEMMA MatchFits ==
  ASSUME NEW R \in [Orders -> Row], NEW f, NEW m \in FifoMatches(R, f)
  PROVE  m \in [Orders -> Sizes] /\ \A o \in Orders : m[o] <= R[o].rem
<1>1. m \in [Orders -> Sizes]
  BY DEF FifoMatches
<1>2. ASSUME NEW o \in Orders PROVE m[o] <= R[o].rem
  <2>1. R[o] \in Row /\ m[o] \in Sizes
    BY <1>1
  <2>2. m[o] <= (IF o \in OpenPositions(R) THEN R[o].rem ELSE 0)
    BY DEF FifoMatches
  <2>3. QED BY <2>1, <2>2, BookAssumption DEF Row, Sizes
<1>3. QED BY <1>1, <1>2

\* The rows a SELL prepares are well formed and add up if those it read do.
LEMMA PlanFits ==
  ASSUME NEW R \in [Orders -> Row], \A o \in Orders : RowAdds(R[o]),
         NEW f, NEW m \in FifoMatches(R, f)
  PROVE  /\ MatchedRows(R, m) \in [Orders -> Row]
         /\ \A o \in Orders : RowAdds(MatchedRows(R, m)[o])
<1>1. ASSUME NEW o \in Orders
      PROVE  MatchedRows(R, m)[o] \in Row /\ RowAdds(MatchedRows(R, m)[o])
  <2>1. m[o] \in Sizes /\ m[o] <= R[o].rem /\ R[o] \in Row /\ RowAdds(R[o])
    BY MatchFits
  <2>2. NoRow \in Row /\ RowAdds(NoRow)
    BY BookAssumption DEF NoRow, Row, RowAdds, RowStatuses, Sizes
  <2>3. ASSUME m[o] > 0
        PROVE  Consume(R[o], m[o]) \in Row /\ RowAdds(Consume(R[o], m[o]))
    BY <2>1, BookAssumption
    DEF Consume, Row, RowAdds, UpdateStatus, RowStatuses, Sizes
  <2>4. QED BY <2>2, <2>3 DEF MatchedRows
<1>2. QED BY <1>1 DEF MatchedRows

\* Closing positions changes no size.
LEMMA CloseFits ==
  ASSUME NEW R \in [Orders -> Row], \A o \in Orders : RowAdds(R[o])
  PROVE  /\ CloseAll(R) \in [Orders -> Row]
         /\ \A o \in Orders : RowAdds(CloseAll(R)[o])
BY DEF CloseAll, RowAdds, Row, RowStatuses

\* The row of a BUY adds up.
LEMMA NewRowFits ==
  ASSUME NEW n \in Sizes PROVE NewRow(n) \in Row /\ RowAdds(NewRow(n))
BY BookAssumption DEF NewRow, Row, RowAdds, RowStatuses, Sizes

\* There are finitely many orders.
LEMMA OrdersFinite == IsFiniteSet(Orders) /\ Orders \subseteq Nat
BY FS_Interval, BookAssumption DEF Orders

\* The smaller of two.
LEMMA MinOfTwo ==
  ASSUME NEW a \in Int, NEW b \in Int
  PROVE  Min({a, b}) = IF a <= b THEN a ELSE b
<1> DEFINE P(x) == x \in {a, b} /\ \A y \in {a, b} : x <= y
<1>1. P(IF a <= b THEN a ELSE b)
  OBVIOUS
<1>2. \A x : P(x) => x = IF a <= b THEN a ELSE b
  OBVIOUS
<1>3. Min({a, b}) = CHOOSE x : P(x)
  BY DEF Min
<1>4. P(CHOOSE x : P(x))
  <2> HIDE DEF P
  <2>1. QED BY <1>1
<1>5. QED BY <1>2, <1>3, <1>4

\* What is left of the open positions, position by position.
Remaining(R) == [o \in Orders |-> IF o \in OpenPositions(R) THEN R[o].rem ELSE 0]

\* OpenSize as a sum over all orders; it is a natural number.
LEMMA OpenSizeSum ==
  ASSUME NEW R \in [Orders -> Row]
  PROVE  /\ Summable(Remaining(R), Orders)
         /\ OpenSize(R) = SumFunctionOnSet(Remaining(R), Orders)
         /\ OpenSize(R) \in Nat
<1> DEFINE f == [o \in Orders |-> R[o].rem]
           g == Remaining(R)
           T == OpenPositions(R)
<1>1. T \in SUBSET Orders
  BY DEF OpenPositions
<1>2. \A o \in Orders : R[o].rem \in Nat
  BY BookAssumption DEF Row, Sizes
<1>3. Summable(f, Orders)
  BY <1>2, OrdersFinite DEF Summable
<1>4. \A o \in Orders : g[o] = IF o \in T THEN f[o] ELSE 0
  BY DEF Remaining
<1>5. \A o \in Orders : g[o] \in Nat
  BY <1>2, <1>4
<1>6. OpenSize(R) = SumFunctionOnSet(f, T)
  BY DEF OpenSize
<1> HIDE DEF f, g, T
<1>7. SumFunctionOnSet(f, T) = SumFunctionOnSet(g, Orders)
  BY <1>1, <1>3, <1>4, SumWithin
<1>8. Summable(g, Orders) /\ \A o \in Orders : g[o] >= 0
  BY <1>5, OrdersFinite DEF Summable
<1>9. SumFunctionOnSet(g, Orders) \in Nat
  BY <1>8, SumNat
<1>10. QED BY <1>6, <1>7, <1>8, <1>9 DEF g

\* The rows after a SELL of f units was matched against R.
AfterSell(R, m) ==
  [p \in Orders |-> IF MatchedRows(R, m)[p] # NoRow THEN MatchedRows(R, m)[p] ELSE R[p]]

\* What the match takes from a position is what is missing from it afterwards.
LEMMA MatchTaken ==
  ASSUME NEW R \in [Orders -> Row], NEW f, NEW m \in FifoMatches(R, f), NEW o \in Orders
  PROVE  /\ Remaining(R)[o] = Remaining(AfterSell(R, m))[o] + m[o]
         /\ m[o] \in Nat /\ Remaining(AfterSell(R, m))[o] \in Nat
<1>1. R[o] \in Row /\ m[o] \in Sizes /\ m[o] <= R[o].rem
  BY MatchFits
<1>2. m[o] <= (IF o \in OpenPositions(R) THEN R[o].rem ELSE 0)
  BY DEF FifoMatches
<1>3. R[o].rem \in Nat /\ R[o].used \in Nat /\ m[o] \in Nat
  BY <1>1, BookAssumption DEF Row, Sizes
<1>4. CASE m[o] = 0
  <2>1. AfterSell(R, m)[o] = R[o]
    BY <1>4 DEF AfterSell, MatchedRows
  <2>2. o \in OpenPositions(AfterSell(R, m)) <=> o \in OpenPositions(R)
    BY <2>1 DEF OpenPositions
  <2>3. Remaining(AfterSell(R, m))[o] = Remaining(R)[o]
    BY <2>1, <2>2 DEF Remaining
  <2>4. Remaining(R)[o] \in Nat
    BY <1>3 DEF Remaining
  <2>5. QED BY <1>3, <1>4, <2>3, <2>4
<1>5. CASE m[o] > 0
  <2>1. o \in OpenPositions(R)
    BY <1>2, <1>3, <1>5
  <2>2. MatchedRows(R, m)[o] = Consume(R[o], m[o])
    BY <1>5 DEF MatchedRows
  <2>3. UpdateStatus(R[o].used + m[o], R[o].rem - m[o])
          = IF R[o].rem = m[o] THEN "CLOSED" ELSE "PARTIAL"
    BY <1>1, <1>3, <1>5 DEF UpdateStatus
  <2>4. MatchedRows(R, m)[o] # NoRow
    BY <2>2, <2>3 DEF Consume, NoRow
  <2>5. AfterSell(R, m)[o] = Consume(R[o], m[o])
    BY <2>2, <2>4 DEF AfterSell
  <2>6. /\ AfterSell(R, m)[o].st = IF R[o].rem = m[o] THEN "CLOSED" ELSE "PARTIAL"
        /\ AfterSell(R, m)[o].rem = R[o].rem - m[o]
    BY <2>3, <2>5 DEF Consume
  <2>7. o \in OpenPositions(AfterSell(R, m)) <=> R[o].rem - m[o] > 0
    BY <1>3, <2>6 DEF OpenPositions, IsOpen
  <2>8. Remaining(AfterSell(R, m))[o] = R[o].rem - m[o]
    BY <1>1, <1>3, <2>6, <2>7 DEF Remaining
  <2>9. Remaining(R)[o] = R[o].rem
    BY <2>1 DEF Remaining
  <2>10. QED BY <1>1, <1>3, <2>8, <2>9
<1>6. QED BY <1>3, <1>4, <1>5

\* A SELL takes from the open positions what it filled, or all there is.
LEMMA OpenSizeAfterSell ==
  ASSUME NEW R \in [Orders -> Row], NEW f \in Nat, NEW m \in FifoMatches(R, f),
         AfterSell(R, m) \in [Orders -> Row]
  PROVE  OpenSize(AfterSell(R, m)) = OpenSize(R) - Min({f, OpenSize(R)})
<1> DEFINE W == AfterSell(R, m)
<1>1. /\ Summable(Remaining(W), Orders) /\ OpenSize(R) \in Nat /\ OpenSize(W) \in Nat
      /\ OpenSize(R) = SumFunctionOnSet(Remaining(R), Orders)
      /\ OpenSize(W) = SumFunctionOnSet(Remaining(W), Orders)
  BY OpenSizeSum
<1>2. \A o \in Orders : Remaining(R)[o] = Remaining(W)[o] + m[o] /\ m[o] \in Int
  BY MatchTaken
<1>3. Summable(m, Orders)
  BY <1>2, OrdersFinite DEF Summable
<1> HIDE DEF W
<1>4. SumFunctionOnSet(Remaining(R), Orders)
        = SumFunctionOnSet(Remaining(W), Orders) + SumFunctionOnSet(m, Orders)
  BY <1>1, <1>2, <1>3, SumPlus
<1>5. SumFunctionOnSet(m, Orders) = Min({f, OpenSize(R)})
  BY DEF FifoMatches, Matched
<1>6. Min({f, OpenSize(R)}) \in Int
  BY <1>1, MinOfTwo
<1>7. OpenSize(R) = OpenSize(W) + Min({f, OpenSize(R)})
  BY <1>1, <1>4, <1>5
<1>8. OpenSize(W) = OpenSize(R) - Min({f, OpenSize(R)})
  BY <1>1, <1>6, <1>7
<1>9. QED BY <1>8 DEF W

\* A BUY adds what it filled.
LEMMA OpenSizeAfterBuy ==
  ASSUME NEW R \in [Orders -> Row], NEW o \in Orders, R[o] = NoRow, NEW n \in Sizes \ {0}
  PROVE  OpenSize([R EXCEPT ![o] = NewRow(n)]) = OpenSize(R) + n
<1> DEFINE W == [R EXCEPT ![o] = NewRow(n)]
<1>1. W \in [Orders -> Row] /\ W[o] = NewRow(n) /\ \A p \in Orders \ {o} : W[p] = R[p]
  BY NewRowFits
<1>2. n \in Nat /\ n > 0
  BY BookAssumption DEF Sizes
<1> HIDE DEF W
<1>3. /\ Summable(Remaining(W), Orders) /\ Summable(Remaining(R), Orders)
      /\ OpenSize(R) = SumFunctionOnSet(Remaining(R), Orders)
      /\ OpenSize(W) = SumFunctionOnSet(Remaining(W), Orders)
      /\ OpenSize(R) \in Nat
  BY <1>1, OpenSizeSum
<1>4. \A p \in Orders \ {o} : Remaining(R)[p] = Remaining(W)[p]
  BY <1>1 DEF Remaining, OpenPositions
<1>5. Remaining(W)[o] = n /\ Remaining(R)[o] = 0
  BY <1>1, <1>2 DEF Remaining, OpenPositions, IsOpen, NewRow, NoRow
<1>6. SumFunctionOnSet(Remaining(W), Orders)
        = SumFunctionOnSet(Remaining(R), Orders) + (Remaining(W)[o] - Remaining(R)[o])
  BY <1>3, <1>4, SumUpdate
<1>7. OpenSize(W) = OpenSize(R) + n
  BY <1>2, <1>3, <1>5, <1>6
<1>8. QED BY <1>7 DEF W

\* Closing the open positions leaves none.
LEMMA OpenSizeClosed ==
  ASSUME NEW R \in [Orders -> Row]
  PROVE  OpenSize(CloseAll(R)) = 0
<1>1. OpenPositions(CloseAll(R)) = {}
  BY DEF OpenPositions, CloseAll, IsOpen, Row
<1>2. QED BY <1>1, SumEmpty DEF OpenSize

-----------------------------------------------------------------------------
(* No more than one match                                                  *)

\* Of two matches, neither takes less from the first position on which they differ:
\* it would take nothing from the younger ones, and so less in total.
LEMMA FirstDifference ==
  ASSUME NEW R \in [Orders -> Row], NEW f,
         NEW m \in FifoMatches(R, f), NEW n \in FifoMatches(R, f),
         NEW o \in Orders, m[o] < n[o], \A p \in Orders : p < o => m[p] = n[p]
  PROVE  FALSE
<1>0. \A p \in Orders : m[p] \in Nat /\ n[p] \in Nat /\ R[p].rem \in Nat /\ p \in Nat
  BY MatchFits, OrdersFinite, BookAssumption DEF Row, Sizes
<1>1. \A p \in Orders : /\ m[p] <= (IF p \in OpenPositions(R) THEN R[p].rem ELSE 0)
                       /\ n[p] <= (IF p \in OpenPositions(R) THEN R[p].rem ELSE 0)
  BY DEF FifoMatches
<1>2. o \in OpenPositions(R) /\ m[o] # R[o].rem
  BY <1>0, <1>1
<1>3. \A p \in Orders : p > o => m[p] = 0
  <2> SUFFICES ASSUME NEW p \in Orders, p > o PROVE m[p] = 0
    OBVIOUS
  <2>1. CASE p \in OpenPositions(R)
    <3>1. ~(m[p] > 0)
      BY <1>2, <2>1 DEF FifoMatches
    <3>2. QED BY <1>0, <3>1
  <2>2. CASE p \notin OpenPositions(R)
    BY <1>0, <1>1, <2>2
  <2>3. QED BY <2>1, <2>2
<1> DEFINE k == [m EXCEPT ![o] = n[o]]
<1>4. m \in [Orders -> Sizes] /\ n \in [Orders -> Sizes]
  BY MatchFits
<1>5. k[o] = n[o] /\ \A p \in Orders \ {o} : m[p] = k[p]
  BY <1>4
<1>6. \A p \in Orders : k[p] \in Nat /\ k[p] <= n[p]
  <2> SUFFICES ASSUME NEW p \in Orders PROVE k[p] \in Nat /\ k[p] <= n[p]
    OBVIOUS
  <2>1. p = o \/ p < o \/ p > o
    BY <1>0
  <2>2. QED BY <1>0, <1>3, <1>5, <2>1
<1> HIDE DEF k
<1>7. Summable(m, Orders) /\ Summable(n, Orders) /\ Summable(k, Orders)
  BY <1>0, <1>6, OrdersFinite DEF Summable
<1>8. SumFunctionOnSet(k, Orders) = SumFunctionOnSet(m, Orders) + (k[o] - m[o])
  BY <1>5, <1>7, SumUpdate
<1>9. SumFunctionOnSet(k, Orders) <= SumFunctionOnSet(n, Orders)
  BY <1>6, <1>7, SumAtMost
<1>10. SumFunctionOnSet(m, Orders) = SumFunctionOnSet(n, Orders)
  BY DEF FifoMatches, Matched
<1>11. SumFunctionOnSet(m, Orders) \in Int
  BY <1>7, SumInt
<1>12. QED BY <1>0, <1>5, <1>8, <1>9, <1>10, <1>11

\* First in, first out leaves no choice.
LEMMA OneFifoMatch ==
  ASSUME NEW R \in [Orders -> Row], NEW f,
         NEW m \in FifoMatches(R, f), NEW n \in FifoMatches(R, f)
  PROVE  m = n
<1>0. m \in [Orders -> Sizes] /\ n \in [Orders -> Sizes]
  BY MatchFits
<1>1. SUFFICES ASSUME {o \in Orders : m[o] # n[o]} # {} PROVE FALSE
  BY <1>0
<1> DEFINE D == {o \in Orders : m[o] # n[o]}
<1>2. D \in SUBSET Nat /\ D # {}
  BY <1>1, OrdersFinite
<1>3. PICK o \in D : \A p \in D : o <= p
  <2> HIDE DEF D
  <2>1. QED BY <1>2, LeastNumber
<1>4. \A p \in Orders : p < o => m[p] = n[p]
  BY <1>2, <1>3, OrdersFinite
<1>5. m[o] < n[o] \/ n[o] < m[o]
  BY <1>0, <1>3, BookAssumption DEF Sizes
<1>6. QED BY <1>3, <1>4, <1>5, FirstDifference
=============================================================================
