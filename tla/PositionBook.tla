------------------------------ MODULE PositionBook ------------------------------
(***************************************************************************)
(* The positions table for one symbol (internal/domain/position.go,        *)
(* internal/infra/persistence/position_repo.go) and the FIFO matching of a *)
(* SELL against it (internal/usecase/trading/pnl/calculator.go).           *)
(*                                                                         *)
(* Orders are numbered in the order they were placed.  A BUY creates one   *)
(* row, keyed by its order id, whose created_at is the placement time, so  *)
(* "oldest first" is "smallest order number first".  Amounts are integers: *)
(* a unit is the smallest quantity the model tells apart.                  *)
(***************************************************************************)
EXTENDS Integers, FiniteSets, FiniteSetsExt

CONSTANTS MaxOrders,   \* how many orders a behaviour may place
          MaxSize      \* the largest order size, in units

ASSUME BookAssumption == /\ MaxOrders \in Nat \ {0}
                         /\ MaxSize \in Nat \ {0}

Orders == 1 .. MaxOrders
Sizes == 0 .. MaxSize

RowStatuses == {"none", "OPEN", "PARTIAL", "CLOSED"}
Row == [st : RowStatuses, size : Sizes, used : Sizes, rem : Sizes]

NoRow == [st |-> "none", size |-> 0, used |-> 0, rem |-> 0]

\* SavePosition for a BUY of n units.
NewRow(n) == [st |-> "OPEN", size |-> n, used |-> 0, rem |-> n]

\* Position.UpdateStatus
UpdateStatus(used, rem) == IF rem <= 0 THEN "CLOSED"
                           ELSE IF used > 0 THEN "PARTIAL" ELSE "OPEN"

\* status IN ('OPEN', 'PARTIAL')
IsOpen(row) == row.st \in {"OPEN", "PARTIAL"}

\* Slip: a query that filters by remaining size only.
AnyRemaining(rows) == {o \in Orders : rows[o].rem > 0}

\* The order ids GetOpenPositions returns.
OpenPositions(rows) == {o \in Orders : IsOpen(rows[o]) /\ rows[o].rem > 0}

\* openPositionSize: the units of the open positions no SELL has used.
OpenSize(rows) == SumFunctionOnSet([o \in Orders |-> rows[o].rem], OpenPositions(rows))

\* The units of the match m taken from all positions together.
Matched(m) == SumFunctionOnSet(m, Orders)

NoMatch == [o \in Orders |-> 0]

(***************************************************************************)
(* What the matching loop of prepareSellData takes from each position for  *)
(* a fill of f units: never more than is left, nothing from a position     *)
(* while an older one has units left, and as much as the fill and the open *)
(* positions allow.  Module PnlCalculator checks that the loop computes    *)
(* this and nothing else.                                                  *)
(***************************************************************************)
FifoMatches(rows, f) ==
  LET open == OpenPositions(rows)
  IN {m \in [Orders -> Sizes] :
        /\ \A o \in Orders : m[o] <= (IF o \in open THEN rows[o].rem ELSE 0)
        /\ \A old, young \in open :
              old < young /\ m[young] > 0 => m[old] = rows[old].rem
        /\ Matched(m) = Min({f, OpenSize(rows)})}

\* Slips: the match counted twice, or not at all, in used_size.
ConsumeTwice(row, k) == [row EXCEPT !.used = @ + k + k, !.rem = @ - k]
ConsumeRemaining(row, k) ==
  [row EXCEPT !.st = UpdateStatus(row.used + k, row.rem - k), !.rem = @ - k]

\* One position after k > 0 of its units were matched.
Consume(row, k) == [st   |-> UpdateStatus(row.used + k, row.rem - k),
                    size |-> row.size,
                    used |-> row.used + k,
                    rem  |-> row.rem - k]

\* The rows as prepareSellData leaves its in-memory copies; a row the match
\* does not touch is not among the positions to update.
MatchedRows(rows, m) ==
  [o \in Orders |-> IF m[o] > 0 THEN Consume(rows[o], m[o]) ELSE NoRow]

\* CloseOpenPositions: only the status changes.
CloseAll(rows) ==
  [o \in Orders |-> IF IsOpen(rows[o]) THEN [rows[o] EXCEPT !.st = "CLOSED"]
                    ELSE rows[o]]

\* Two accounts of the same units in one row agree.
RowAdds(row) == row.used + row.rem = row.size
=============================================================================
