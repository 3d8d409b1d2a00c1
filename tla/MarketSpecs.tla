-------------------------------- MODULE MarketSpecs --------------------------------
(***************************************************************************)
(* The cache of trading limits: infra/exchange/bitflyer/market_specs.go.   *)
(* The signal worker and the order validator ask for a symbol's minimum;   *)
(* the values are constants of the program, the exchange is asked only     *)
(* which products it has.                                                  *)
(***************************************************************************)
EXTENDS Integers, FiniteSets

CONSTANTS
  Readers,      \* goroutines that ask
  Products,     \* symbols with a hardcoded specification
  Others        \* symbols without one

NoProduct == "no product"
ASSUME SpecsAssumption == NoProduct \notin Products \cup Others

VARIABLES
  reader,     \* each reader: where in GetSpecification it is, and its symbol
  cache,      \* symbols in the cache
  fresh       \* less than ttl since lastFetch

specsVars == <<reader, cache, fresh>>

Away == [pc |-> "away", symbol |-> NoProduct]
Cached(s) == s \in cache /\ fresh
Locked == \E r \in Readers : reader[r].pc = "refresh"

SpecsInit == reader = [r \in Readers |-> Away] /\ cache = {} /\ fresh = FALSE

-----------------------------------------------------------------------------

\* Under the read lock: most calls end here.
LookInCache(r) ==
  /\ reader[r].pc = "away" /\ ~Locked
  /\ \E s \in Products \cup Others :
       reader' = [reader EXCEPT ![r] = IF Cached(s) THEN Away ELSE [pc |-> "missed", symbol |-> s]]
  /\ UNCHANGED <<cache, fresh>>

\* Slip: a reader that waited for the lock does not look again.
NoSecondLook(r) ==
  /\ reader[r].pc = "missed" /\ ~Locked
  /\ reader' = [reader EXCEPT ![r].pc = "refresh"]
  /\ UNCHANGED <<cache, fresh>>

\* The lock is taken, and the cache looked at again.
LookAgain(r) ==
  /\ reader[r].pc = "missed" /\ ~Locked
  /\ reader' = [reader EXCEPT ![r] = IF Cached(reader[r].symbol) THEN Away
                                     ELSE [@ EXCEPT !.pc = "refresh"]]
  /\ UNCHANGED <<cache, fresh>>

\* refreshCacheUnsafe, with GetMarkets, under the lock: products the exchange lists, or
\* all if it does not answer.  A symbol that is not there gets a fallback, or an error.
RefreshCache(r) ==
  /\ reader[r].pc = "refresh"
  /\ \E listed \in SUBSET Products : cache' = cache \cup listed
  /\ fresh' = TRUE
  /\ reader' = [reader EXCEPT ![r] = Away]

\* An hour is over.
CacheExpires ==
  /\ fresh /\ fresh' = FALSE
  /\ UNCHANGED <<reader, cache>>

SpecsNext ==
  \/ CacheExpires
  \/ \E r \in Readers : LookInCache(r) \/ LookAgain(r) \/ RefreshCache(r)
SpecsSpec == SpecsInit /\ [][SpecsNext]_specsVars

-----------------------------------------------------------------------------
(* Properties                                                              *)

\* Every variable has its type.
SpecsTypeOK ==
  /\ reader \in [Readers -> [pc : {"away", "missed", "refresh"},
                             symbol : Products \cup Others \cup {NoProduct}]]
  /\ cache \subseteq Products /\ fresh \in BOOLEAN

\* The exchange is asked by one reader at a time, and only for a symbol that the cache
\* does not have, or not any more: also when several readers missed it at once
\* (market_specs.go:72-75).  A refresh costs no token of the rate limiter.
RefreshedOnlyIfNeeded ==
  \A r \in Readers : reader[r].pc = "refresh" =>
    /\ ~Cached(reader[r].symbol)
    /\ \A q \in Readers \ {r} : reader[q].pc # "refresh"
=============================================================================
