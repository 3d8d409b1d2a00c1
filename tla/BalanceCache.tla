------------------------------ MODULE BalanceCache ------------------------------
(***************************************************************************)
(* The balance cache shared by everything that asks for the balance        *)
(* (internal/usecase/trading/balance/balance_service.go), with the lock of *)
(* the trader through which most callers reach it (bitflyer_trader.go).    *)
(* A balance is the number of changes the account has seen: what an answer *)
(* says is how far the exchange had come when it gave it.                  *)
(***************************************************************************)
EXTENDS Integers, FiniteSets

CONSTANTS
  Readers,      \* risk checks, SELL sizing, the web API: BitflyerTrader.GetBalance
  Placers,      \* callers of PlaceOrder
  Monitors,     \* order monitors whose orders complete
  Nobody,       \* no caller
  MaxVersion,   \* bound: changes of the account
  Faults        \* "api": a request may fail; "old": the cache ages

Procs == Readers \cup Placers \cup Monitors

ASSUME CacheAssumption ==
  /\ Readers \cap Placers = {} /\ Readers \cap Monitors = {} /\ Placers \cap Monitors = {}
  /\ Nobody \notin Procs
  /\ MaxVersion \in Nat \ {0}
  /\ Faults \subseteq {"api", "old"}

VARIABLES
  ver,      \* exchange: changes the account has seen
  age,      \* cache: "fresh" (60 seconds), "stale" (10 minutes) or "none"
  val,      \* cache: the balance it holds
  fetcher,  \* who holds fetchMu
  pc,       \* of each caller: where it is
  got,      \* of each caller: the answer it holds
  seen,     \* history: changes there had been at the last invalidation
  since,    \* history, of each caller: seen, when it asked
  torn,     \* history: the cache was filled by an answer an invalidation had overtaken
  passed    \* history, of each caller: so was the answer it holds

history == <<seen, since, torn, passed>>
vars == <<ver, age, val, fetcher, pc, got, history>>

\* Slip: the lock is taken a second time further down, so that a caller that
\* waits for it holds it already.
SharingTwice == {p \in Readers : pc[p] # "idle"}

\* Callers inside BitflyerTrader.GetBalance hold the trader's lock, shared;
\* PlaceOrder waits for it alone before it starts a monitor.
Sharing == {p \in Readers : pc[p] \notin {"idle", "enter"}}
Waiting == {p \in Placers : pc[p] = "start"}

Init ==
  /\ ver = 1
  /\ age = "none" /\ val = 0
  /\ fetcher = Nobody
  /\ pc = [p \in Procs |-> "idle"]
  /\ got = [p \in Procs |-> 0]
  /\ seen = 0 /\ since = [p \in Procs |-> 0]
  /\ torn = FALSE /\ passed = [p \in Procs |-> FALSE]

Move(p, from, to) == pc[p] = from /\ pc' = [pc EXCEPT ![p] = to]

-----------------------------------------------------------------------------
(* The exchange and the clock                                              *)

\* An order is executed or ends, or the owner moves money.
Change ==
  /\ ver < MaxVersion
  /\ ver' = ver + 1
  /\ UNCHANGED <<age, val, fetcher, pc, got, history>>

Grow ==
  /\ "old" \in Faults
  /\ age # "none"
  /\ age' = IF age = "fresh" THEN "stale" ELSE "none"
  /\ UNCHANGED <<ver, val, fetcher, pc, got, history>>

-----------------------------------------------------------------------------
(* BalanceService.GetBalance                                               *)

\* Answer with what the cache holds.
Serve(p) ==
  /\ got' = [got EXCEPT ![p] = val]
  /\ passed' = [passed EXCEPT ![p] = torn]
  /\ UNCHANGED <<ver, age, val, seen, since, torn>>

Hit(p) ==
  /\ age = "fresh"
  /\ Move(p, "check", "return")
  /\ Serve(p)
  /\ UNCHANGED fetcher

Miss(p) ==
  /\ age # "fresh"
  /\ Move(p, "check", "lock")
  /\ UNCHANGED <<ver, age, val, fetcher, got, history>>

LockFetch(p) ==
  /\ fetcher = Nobody
  /\ Move(p, "lock", "recheck")
  /\ fetcher' = p
  /\ UNCHANGED <<ver, age, val, got, history>>

\* Somebody else has fetched in the meantime.
HitLocked(p) ==
  /\ age = "fresh"
  /\ Move(p, "recheck", "return")
  /\ Serve(p)
  /\ fetcher' = Nobody

\* Slip: no second look at the cache once the lock is held.
RequestAnyway(p) ==
  /\ Move(p, "recheck", "request")
  /\ UNCHANGED <<ver, age, val, fetcher, got, history>>

Request(p) ==
  /\ age # "fresh"
  /\ Move(p, "recheck", "request")
  /\ UNCHANGED <<ver, age, val, fetcher, got, history>>

\* The caller's time ends while it waits for the rate limiter: an error, with
\* no look at what the cache still holds.
GiveUp(p) ==
  /\ "api" \in Faults
  /\ age # "fresh"
  /\ Move(p, "recheck", "error")
  /\ fetcher' = Nobody
  /\ UNCHANGED <<ver, age, val, got, history>>

\* Slip: the lock covers the request only.
AnswerUnlocks(p) ==
  /\ Move(p, "request", "store")
  /\ got' = [got EXCEPT ![p] = ver]
  /\ passed' = [passed EXCEPT ![p] = FALSE]
  /\ fetcher' = Nobody
  /\ UNCHANGED <<ver, age, val, seen, since, torn>>

\* The exchange has answered; the answer is not in the cache yet.
Answer(p) ==
  /\ Move(p, "request", "store")
  /\ got' = [got EXCEPT ![p] = ver]
  /\ passed' = [passed EXCEPT ![p] = FALSE]
  /\ UNCHANGED <<ver, age, val, fetcher, seen, since, torn>>

Store(p) ==
  /\ Move(p, "store", "return")
  /\ age' = "fresh" /\ val' = got[p] /\ torn' = passed[p]
  /\ fetcher' = Nobody
  /\ UNCHANGED <<ver, got, seen, since, passed>>

\* No good answer, retries included.
Fail(p) ==
  /\ "api" \in Faults
  /\ Move(p, "request", "failed")
  /\ UNCHANGED <<ver, age, val, fetcher, got, history>>

FallBack(p) ==
  /\ Move(p, "failed", IF age = "none" THEN "error" ELSE "return")
  /\ Serve(p)
  /\ fetcher' = Nobody

GetBalance(p) == \/ Hit(p) \/ Miss(p) \/ LockFetch(p) \/ HitLocked(p) \/ Request(p)
                 \/ GiveUp(p) \/ Answer(p) \/ Store(p) \/ Fail(p) \/ FallBack(p)

-----------------------------------------------------------------------------
(* InvalidateCache                                                         *)

Overtake ==
  /\ seen' = ver
  /\ torn' = FALSE
  /\ passed' = [p \in Procs |-> passed[p] \/ pc[p] = "store"]

\* Slip: what the cache holds stays good enough for a fallback.
MarkStale ==
  /\ age' = IF age = "fresh" THEN "stale" ELSE age
  /\ Overtake
  /\ UNCHANGED val

\* The timestamp is reset to zero, which is older than every limit.
Invalidate ==
  /\ age' = "none"
  /\ Overtake
  /\ UNCHANGED val

-----------------------------------------------------------------------------
(* The callers                                                             *)

\* A reader finds a placer waiting for the trader's lock, and waits behind it.
Enter(p) ==
  /\ p \in Readers /\ Waiting # {}
  /\ Move(p, "idle", "enter")
  /\ UNCHANGED <<ver, age, val, fetcher, got, history>>

Ask(p) ==
  /\ \/ p \in Readers /\ Waiting = {} /\ (Move(p, "idle", "check") \/ Move(p, "enter", "check"))
     \/ p \in Placers /\ Move(p, "idle", "check")
  /\ since' = [since EXCEPT ![p] = seen]
  /\ UNCHANGED <<ver, age, val, fetcher, got, seen, torn, passed>>

\* What the caller knew of its call goes with it.
Leave(p) ==
  /\ got' = [got EXCEPT ![p] = 0]
  /\ since' = [since EXCEPT ![p] = 0]
  /\ passed' = [passed EXCEPT ![p] = FALSE]
  /\ UNCHANGED <<seen, torn>>

\* An error goes to the caller; a reader has its answer and releases the lock;
\* a monitor saves its answer to the database.
Return(p) ==
  /\ pc[p] = "error" \/ (pc[p] = "return" /\ p \notin Placers)
  /\ pc' = [pc EXCEPT ![p] = "idle"]
  /\ Leave(p)
  /\ UNCHANGED <<ver, age, val, fetcher>>

\* PlaceOrder with a balance at hand: the order is placed, or is not, or is
\* although the answer is lost. Only the first goes on to the cache.
Place(p) ==
  /\ p \in Placers
  /\ \/ ver < MaxVersion /\ ver' = ver + 1 /\ Move(p, "return", "placed")
     \/ ver' \in {ver, ver + 1} /\ ver' <= MaxVersion /\ Move(p, "return", "idle")
  /\ Leave(p)
  /\ UNCHANGED <<age, val, fetcher>>

InvalidatePlaced(p) ==
  /\ p \in Placers
  /\ Move(p, "placed", "start")
  /\ Invalidate
  /\ UNCHANGED <<ver, fetcher, got, since>>

StartMonitor(p) ==
  /\ Sharing = {}
  /\ Move(p, "start", "idle")
  /\ UNCHANGED <<ver, age, val, fetcher, got, history>>

\* A monitor sees its order complete: it invalidates the cache, then asks.
InvalidateCompleted(p) ==
  /\ p \in Monitors
  /\ Move(p, "idle", "check")
  /\ Invalidate
  /\ since' = [since EXCEPT ![p] = ver]
  /\ UNCHANGED <<ver, fetcher, got>>

Caller(p) == \/ Enter(p) \/ Ask(p) \/ Return(p) \/ Place(p) \/ InvalidatePlaced(p)
             \/ StartMonitor(p) \/ InvalidateCompleted(p)

Next == Change \/ Grow \/ \E p \in Procs : GetBalance(p) \/ Caller(p)

\* A call under way goes on: requests end in an answer or a time-out, and Go's
\* locks let every waiting goroutine in (hence SF: a lock may be taken and freed
\* many times while a caller waits). Nobody has to start a call.
GoesOn(p) == \/ GetBalance(p) \/ Return(p) \/ Place(p) \/ InvalidatePlaced(p)
             \/ StartMonitor(p) \/ (pc[p] = "enter" /\ Ask(p))

Fairness == \A p \in Procs : SF_vars(GoesOn(p))

Spec == Init /\ [][Next]_vars /\ Fairness

-----------------------------------------------------------------------------
(* Properties                                                              *)

Places == {"idle", "enter", "check", "lock", "recheck", "request", "store", "failed",
           "return", "error", "placed", "start"}

\* Every variable has its type.
TypeOK ==
  /\ ver \in 1..MaxVersion
  /\ age \in {"fresh", "stale", "none"} /\ val \in 0..MaxVersion
  /\ fetcher \in Procs \cup {Nobody}
  /\ pc \in [Procs -> Places] /\ got \in [Procs -> 0..MaxVersion]
  /\ seen \in 0..MaxVersion /\ since \in [Procs -> 0..MaxVersion]
  /\ torn \in BOOLEAN /\ passed \in [Procs -> BOOLEAN]

\* However many callers find the cache empty at once, one of them asks the
\* exchange and the rest take its answer: no request is made while the cache is
\* good (fetchMu and the second look at the cache).
NoRedundantFetch == \A p \in Procs : pc[p] \in {"request", "store"} => age # "fresh"

\* A caller never gets a balance from before the invalidation that preceded its
\* call, not even as a fallback when the exchange does not answer. The one
\* exception is an answer that was on its way to the cache at the invalidation:
\* storing it makes the cache good again (balance_service.go:170-175).
BalanceSinceInvalidation ==
  \A p \in Procs : pc[p] = "return" => got[p] >= since[p] \/ passed[p]

\* The cache never goes back to an older balance: requests and the stores of
\* their answers happen in the same order.
CacheNeverGoesBack == [][val' >= val]_val

\* Every call returns: the trader's lock and fetchMu, which a reader holds
\* together while PlaceOrder waits for the first, block nobody for good.
CallsReturn == \A p \in Procs : pc[p] # "idle" ~> pc[p] = "idle"

-----------------------------------------------------------------------------
(* The inductive invariant                                                 *)

Fetching == {"recheck", "request", "store", "failed"}

\* fetchMu is held exactly by the caller between taking and releasing it.
OneFetcher == \A p \in Procs : pc[p] \in Fetching <=> fetcher = p

\* Nothing is older than what it is compared with.
HistoryOrdered ==
  /\ val <= ver /\ seen <= ver
  /\ \A p \in Procs : since[p] <= seen /\ got[p] <= ver

\* What the cache may answer, and what is about to be stored there, is as
\* recent as the last invalidation unless the latter overtook it.
CacheRecent ==
  /\ age # "none" => val >= seen \/ torn
  /\ \A p \in Procs : pc[p] = "store" =>
       /\ got[p] >= val /\ got[p] >= since[p]
       /\ got[p] >= seen \/ passed[p]

\* The invariant that the proofs of this module's properties need.
IndInv ==
  /\ TypeOK
  /\ OneFetcher
  /\ HistoryOrdered
  /\ CacheRecent
  /\ NoRedundantFetch
  /\ BalanceSinceInvalidation
=============================================================================
