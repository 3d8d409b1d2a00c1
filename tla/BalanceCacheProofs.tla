--------------------------- MODULE BalanceCacheProofs ---------------------------
(***************************************************************************)
(* What holds of the balance cache for any number of callers, changes of   *)
(* the account and faults. The argument: fetchMu lets one caller at a time *)
(* between its second look at the cache and the store (OneFetcher), so     *)
(* answers are stored in the order of their requests; and what the cache   *)
(* holds is from after the last invalidation, unless it was on its way     *)
(* then (CacheRecent).                                                     *)
(***************************************************************************)
EXTENDS BalanceCache, TLAPS

\* Nothing has been asked, stored or invalidated yet.
LEMMA InitIndInv == Init => IndInv
<1> SUFFICES ASSUME Init PROVE IndInv
  OBVIOUS
<1>1. TypeOK
  <2>1. passed \in [Procs -> BOOLEAN]
    BY Zenon DEF Init
  <2>2. /\ ver = 1 /\ age = "none" /\ val = 0 /\ fetcher = Nobody
        /\ pc = [p \in Procs |-> "idle"] /\ got = [p \in Procs |-> 0]
        /\ seen = 0 /\ since = [p \in Procs |-> 0] /\ torn = FALSE
    BY DEF Init
  <2>3. ver \in 1..MaxVersion
    BY <2>2, CacheAssumption
  <2>4. age \in {"fresh", "stale", "none"} /\ val \in 0..MaxVersion /\ seen \in 0..MaxVersion
    BY <2>2, CacheAssumption
  <2>5. fetcher \in Procs \cup {Nobody} /\ torn \in BOOLEAN
    BY <2>2
  <2>6. pc \in [Procs -> Places]
    BY <2>2 DEF Places
  <2>7. got \in [Procs -> 0..MaxVersion] /\ since \in [Procs -> 0..MaxVersion]
    BY <2>2, CacheAssumption
  <2> QED BY <2>1, <2>3, <2>4, <2>5, <2>6, <2>7 DEF TypeOK
<1>2. OneFetcher
  BY CacheAssumption DEF Init, OneFetcher, Fetching
<1>3. HistoryOrdered /\ CacheRecent
  BY DEF Init, HistoryOrdered, CacheRecent
<1>4. NoRedundantFetch /\ BalanceSinceInvalidation
  BY DEF Init, NoRedundantFetch, BalanceSinceInvalidation
<1> QED BY <1>1, <1>2, <1>3, <1>4 DEF IndInv

\* The exchange and the clock: the account runs ahead of everything, and the
\* cache gets older.
LEMMA OutsideIndInv == IndInv /\ (Change \/ Grow) => IndInv'
<1> SUFFICES ASSUME IndInv, Change \/ Grow PROVE IndInv'
  OBVIOUS
<1> USE DEF IndInv, TypeOK, OneFetcher, HistoryOrdered, CacheRecent, NoRedundantFetch,
            BalanceSinceInvalidation, history
<1>1. CASE Change
  BY <1>1, CacheAssumption DEF Change
<1>2. CASE Grow
  BY <1>2 DEF Grow
<1> QED BY <1>1, <1>2

\* A caller inside GetBalance.
LEMMA GetBalanceIndInv ==
  ASSUME IndInv, NEW p \in Procs, GetBalance(p)
  PROVE  IndInv'
<1> USE CacheAssumption
        DEF IndInv, TypeOK, OneFetcher, HistoryOrdered, CacheRecent, NoRedundantFetch,
            BalanceSinceInvalidation, history, Move, Fetching, Places
<1>1. CASE Hit(p)
  BY <1>1 DEF Hit, Serve
<1>2. CASE Miss(p)
  BY <1>2 DEF Miss
<1>3. CASE LockFetch(p)
  BY <1>3 DEF LockFetch
<1>4. CASE HitLocked(p)
  BY <1>4 DEF HitLocked, Serve
<1>5. CASE Request(p)
  BY <1>5 DEF Request
<1>6. CASE GiveUp(p)
  BY <1>6 DEF GiveUp
<1>7. CASE Answer(p)
  BY <1>7 DEF Answer
<1>8. CASE Store(p)
  <2>1. TypeOK'
    BY <1>8 DEF Store
  <2>2. OneFetcher'
    BY <1>8 DEF Store
  <2>3. HistoryOrdered'
    BY <1>8 DEF Store
  <2>4. CacheRecent'
    BY <1>8 DEF Store
  <2>5. NoRedundantFetch'
    BY <1>8 DEF Store
  <2>6. BalanceSinceInvalidation'
    BY <1>8 DEF Store
  <2> QED BY <2>1, <2>2, <2>3, <2>4, <2>5, <2>6
<1>9. CASE Fail(p)
  BY <1>9 DEF Fail
<1>10. CASE FallBack(p)
  BY <1>10 DEF FallBack, Serve
<1> QED BY <1>1, <1>2, <1>3, <1>4, <1>5, <1>6, <1>7, <1>8, <1>9, <1>10 DEF GetBalance

\* What an invalidation does to the history (a fact of its own, for the
\* Boolean-valued function in it).
LEMMA OvertakenFlags ==
  ASSUME Overtake
  PROVE  seen' = ver /\ torn' = FALSE /\ passed' \in [Procs -> BOOLEAN]
<1> DEFINE F == [p \in Procs |-> passed[p] \/ pc[p] = "store"]
<1>1. \A p \in Procs : (passed[p] \/ pc[p] = "store") \in BOOLEAN
  OBVIOUS
<1>2. F \in [Procs -> BOOLEAN]
  BY <1>1
<1> QED BY <1>2 DEF Overtake

\* A caller outside it.
LEMMA CallerIndInv ==
  ASSUME IndInv, NEW p \in Procs, Caller(p)
  PROVE  IndInv'
<1> USE CacheAssumption
        DEF IndInv, TypeOK, OneFetcher, HistoryOrdered, CacheRecent, NoRedundantFetch,
            BalanceSinceInvalidation, history, Move, Fetching, Places
<1>1. CASE Enter(p)
  BY <1>1 DEF Enter
<1>2. CASE Ask(p)
  BY <1>2 DEF Ask
<1>3. CASE Return(p)
  BY <1>3 DEF Return, Leave
<1>4. CASE Place(p)
  BY <1>4 DEF Place, Leave
<1>5. CASE InvalidatePlaced(p)
  <2>1. TypeOK'
    <3>1. passed' \in [Procs -> BOOLEAN] /\ torn' \in BOOLEAN
      BY <1>5, OvertakenFlags DEF InvalidatePlaced, Invalidate
    <3>2. pc' \in [Procs -> Places]
      BY <1>5 DEF InvalidatePlaced
    <3>3. since' \in [Procs -> 0..MaxVersion] /\ got' \in [Procs -> 0..MaxVersion]
      BY <1>5 DEF InvalidatePlaced
    <3>4. /\ ver' \in 1..MaxVersion /\ val' \in 0..MaxVersion /\ seen' \in 0..MaxVersion
          /\ age' \in {"fresh", "stale", "none"} /\ fetcher' \in Procs \cup {Nobody}
      BY <1>5, OvertakenFlags DEF InvalidatePlaced, Invalidate
    <3> QED BY <3>1, <3>2, <3>3, <3>4 DEF TypeOK
  <2>2. OneFetcher'
    BY <1>5 DEF InvalidatePlaced, Invalidate, Overtake
  <2>3. HistoryOrdered'
    BY <1>5 DEF InvalidatePlaced, Invalidate, Overtake
  <2>4. CacheRecent'
    BY <1>5 DEF InvalidatePlaced, Invalidate, Overtake
  <2>5. NoRedundantFetch'
    BY <1>5 DEF InvalidatePlaced, Invalidate, Overtake
  <2>6. BalanceSinceInvalidation'
    BY <1>5 DEF InvalidatePlaced, Invalidate, Overtake
  <2> QED BY <2>1, <2>2, <2>3, <2>4, <2>5, <2>6
<1>6. CASE StartMonitor(p)
  BY <1>6 DEF StartMonitor
<1>7. CASE InvalidateCompleted(p)
  <2>1. TypeOK'
    <3>1. passed' \in [Procs -> BOOLEAN] /\ torn' \in BOOLEAN
      BY <1>7, OvertakenFlags DEF InvalidateCompleted, Invalidate
    <3>2. pc' \in [Procs -> Places]
      BY <1>7 DEF InvalidateCompleted
    <3>3. since' \in [Procs -> 0..MaxVersion] /\ got' \in [Procs -> 0..MaxVersion]
      BY <1>7 DEF InvalidateCompleted
    <3>4. /\ ver' \in 1..MaxVersion /\ val' \in 0..MaxVersion /\ seen' \in 0..MaxVersion
          /\ age' \in {"fresh", "stale", "none"} /\ fetcher' \in Procs \cup {Nobody}
      BY <1>7, OvertakenFlags DEF InvalidateCompleted, Invalidate
    <3> QED BY <3>1, <3>2, <3>3, <3>4 DEF TypeOK
  <2>2. OneFetcher'
    BY <1>7 DEF InvalidateCompleted, Invalidate, Overtake
  <2>3. HistoryOrdered'
    BY <1>7 DEF InvalidateCompleted, Invalidate, Overtake
  <2>4. CacheRecent'
    BY <1>7 DEF InvalidateCompleted, Invalidate, Overtake
  <2>5. NoRedundantFetch'
    BY <1>7 DEF InvalidateCompleted, Invalidate, Overtake
  <2>6. BalanceSinceInvalidation'
    BY <1>7 DEF InvalidateCompleted, Invalidate, Overtake
  <2> QED BY <2>1, <2>2, <2>3, <2>4, <2>5, <2>6
<1> QED BY <1>1, <1>2, <1>3, <1>4, <1>5, <1>6, <1>7 DEF Caller

\* Every step preserves the invariant.
LEMMA NextIndInv == IndInv /\ [Next]_vars => IndInv'
<1> SUFFICES ASSUME IndInv, [Next]_vars PROVE IndInv'
  OBVIOUS
<1>1. CASE Change \/ Grow
  BY <1>1, OutsideIndInv
<1>2. ASSUME NEW p \in Procs, GetBalance(p) PROVE IndInv'
  BY <1>2, GetBalanceIndInv
<1>3. ASSUME NEW p \in Procs, Caller(p) PROVE IndInv'
  BY <1>3, CallerIndInv
<1>4. CASE UNCHANGED vars
  BY <1>4 DEF vars, history, IndInv, TypeOK, OneFetcher, HistoryOrdered, CacheRecent,
              NoRedundantFetch, BalanceSinceInvalidation
<1> QED BY <1>1, <1>2, <1>3, <1>4 DEF Next

\* The inductive invariant holds of every behaviour.
THEOREM AlwaysIndInv == Spec => []IndInv
<1>1. Init => IndInv
  BY InitIndInv
<1>2. IndInv /\ [Next]_vars => IndInv'
  BY NextIndInv
<1> QED BY <1>1, <1>2, PTL DEF Spec

\* Callers that find the cache empty together make one request.
THEOREM OneRequestAtATime == Spec => []NoRedundantFetch
<1>1. IndInv => NoRedundantFetch
  BY DEF IndInv
<1> QED BY <1>1, AlwaysIndInv, PTL

\* No caller gets a balance from before the invalidation that preceded its
\* call, except one that an answer under way put back.
THEOREM BalancesAreRecent == Spec => []BalanceSinceInvalidation
<1>1. IndInv => BalanceSinceInvalidation
  BY DEF IndInv
<1> QED BY <1>1, AlwaysIndInv, PTL

\* Only a store changes what the cache holds, and it stores nothing older.
LEMMA StoresAreNewer == IndInv /\ [Next]_vars => val' >= val
<1> SUFFICES ASSUME IndInv, [Next]_vars PROVE val' >= val
  OBVIOUS
<1>1. val \in Int
  BY CacheAssumption DEF IndInv, TypeOK
<1>2. CASE val' = val
  BY <1>1, <1>2
<1>3. ASSUME NEW p \in Procs, Store(p) PROVE val' >= val
  BY <1>3 DEF Store, Move, IndInv, CacheRecent
<1> QED
  BY <1>2, <1>3
  DEF Next, vars, history, Change, Grow, GetBalance, Hit, Miss, LockFetch, HitLocked, Request, GiveUp,
      Answer, Fail, FallBack, Serve, Caller, Enter, Ask, Return, Place,
      InvalidatePlaced, Invalidate, StartMonitor, InvalidateCompleted

\* The cache never goes back to an older balance.
THEOREM CacheOnlyAdvances == Spec => CacheNeverGoesBack
<1>1. IndInv /\ [Next]_vars => [val' >= val]_val
  BY StoresAreNewer
<1> QED BY <1>1, AlwaysIndInv, PTL DEF Spec, CacheNeverGoesBack
=============================================================================
