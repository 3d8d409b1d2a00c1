------------------------------ MODULE HeldPosition ------------------------------
(***************************************************************************)
(* What booking promises for one symbol: every order is booked once, for   *)
(* exactly the units that were executed, and a SELL never takes more than  *)
(* the units held.  Units that cannot be sold may be written off.          *)
(***************************************************************************)
EXTENDS Integers

CONSTANT Orders

VARIABLES side,      \* of each order placed
          executed,  \* units executed of each order
          booked,    \* the orders booked
          held       \* units held

vars == <<side, executed, booked, held>>

Init == /\ side = [o \in Orders |-> "none"]
        /\ executed = [o \in Orders |-> 0]
        /\ booked = {}
        /\ held = 0

Place(o) ==
  /\ side[o] = "none"
  /\ \E s \in {"BUY", "SELL"} : side' = [side EXCEPT ![o] = s]
  /\ UNCHANGED <<executed, booked, held>>

Execute(o) ==
  /\ side[o] # "none" /\ o \notin booked
  /\ executed' = [executed EXCEPT ![o] = @ + 1]
  /\ UNCHANGED <<side, booked, held>>

Book(o) ==
  /\ o \notin booked
  /\ executed[o] > 0
  /\ side[o] = "SELL" => executed[o] <= held
  /\ booked' = booked \cup {o}
  /\ held' = IF side[o] = "BUY" THEN held + executed[o] ELSE held - executed[o]
  /\ UNCHANGED <<side, executed>>

WriteOff == held' = 0 /\ UNCHANGED <<side, executed, booked>>

Next == WriteOff \/ \E o \in Orders : Place(o) \/ Execute(o) \/ Book(o)

\* What was executed is booked in the end.
Spec == Init /\ [][Next]_vars /\ \A o \in Orders : WF_vars(Book(o))
=============================================================================
