-------------------------------- MODULE RateLimiter --------------------------------
(***************************************************************************)
(* Private calls to the exchange: RateLimiter, RetryPolicy and WithRetry   *)
(* of infra/exchange/bitflyer/client.go.  Each call of GetBalance,         *)
(* PlaceOrder and GetOrders waits for one token, then tries until it       *)
(* succeeds.  Time passes in intervals of the ticker: Rate of them are the *)
(* period of requests_per_minute.                                          *)
(***************************************************************************)
EXTENDS Integers, FiniteSetsExt

CONSTANTS
  Calls,         \* calls that can be under way at once
  Rate,          \* requestsPerPeriod
  MaxRetries     \* RetryPolicy.MaxRetries

ASSUME RateAssumption ==
  IsFiniteSet(Calls) /\ Rate \in Nat \ {0} /\ MaxRetries \in Nat

VARIABLES
  tokens,     \* in the channel requests
  fired,      \* the ticker has fired and nobody has received from it yet
  received,   \* the goroutine has received a tick and not put the token yet
  stopped,    \* Stop was called
  call,       \* each call: where it is, and its attempt
  taken       \* history: tokens taken in this interval and each of the Rate before

rateVars == <<tokens, fired, received, stopped, call, taken>>

\* The intervals that a stretch of time as long as the period can touch.
Intervals == 0 .. Rate
NoCall == [pc |-> "idle", attempt |-> 0]
Taken == SumFunctionOnSet(taken, Intervals)

\* NewRateLimiter: the bucket is full.
RateInit ==
  /\ tokens = Rate /\ fired = FALSE /\ received = FALSE /\ stopped = FALSE
  /\ call = [c \in Calls |-> NoCall]
  /\ taken = [i \in Intervals |-> 0]

-----------------------------------------------------------------------------

\* A tick is dropped if the one before has not been received.
TickerFires ==
  /\ fired' = (fired \/ ~stopped)
  /\ taken' = [i \in Intervals |-> IF i = 0 THEN 0 ELSE taken[i - 1]]
  /\ UNCHANGED <<tokens, received, stopped, call>>

\* The goroutine of the limiter; once stopped, it may still receive a last tick or not.
ReceiveTick ==
  /\ fired /\ ~received
  /\ fired' = FALSE /\ received' = TRUE
  /\ UNCHANGED <<tokens, stopped, call, taken>>

\* Slip: a full bucket grows.
ReplenishAlways ==
  /\ received /\ received' = FALSE
  /\ tokens' = tokens + 1
  /\ UNCHANGED <<fired, stopped, call, taken>>

\* The token for the tick it holds, if there is room when it comes to send it.
Replenish ==
  /\ received /\ received' = FALSE
  /\ tokens' = IF tokens < Rate THEN tokens + 1 ELSE tokens
  /\ UNCHANGED <<fired, stopped, call, taken>>

\* Stop, from Client.Close: the tokens that are left can be taken.
StopLimiter ==
  /\ ~stopped
  /\ stopped' = TRUE
  /\ UNCHANGED <<tokens, fired, received, call, taken>>

CallGoto(c, pc) == call' = [call EXCEPT ![c].pc = pc]

BeginCall(c) ==
  /\ call[c].pc = "idle"
  /\ CallGoto(c, "wait")
  /\ UNCHANGED <<tokens, fired, received, stopped, taken>>

\* WaitForRateLimit.
Wait(c) ==
  /\ call[c].pc = "wait" /\ tokens > 0
  /\ tokens' = tokens - 1
  /\ taken' = [taken EXCEPT ![0] = @ + 1]
  /\ CallGoto(c, "request")
  /\ UNCHANGED <<fired, received, stopped>>

EndCall(c) == call' = [call EXCEPT ![c] = NoCall]

\* The context ends while a call waits, for a token or to try again.
GiveUp(c) ==
  /\ call[c].pc \in {"wait", "backoff"}
  /\ EndCall(c)
  /\ UNCHANGED <<tokens, fired, received, stopped, taken>>

\* Success, or an error that is not to be retried.
Answered(c) ==
  /\ call[c].pc = "request"
  /\ EndCall(c)
  /\ UNCHANGED <<tokens, fired, received, stopped, taken>>

\* ShouldRetry.  The next attempt waits for its delay, and for no token.
NetworkError(c) ==
  /\ call[c].pc = "request"
  /\ IF call[c].attempt < MaxRetries
     THEN call' = [call EXCEPT ![c].pc = "backoff", ![c].attempt = @ + 1]
     ELSE EndCall(c)
  /\ UNCHANGED <<tokens, fired, received, stopped, taken>>

Retry(c) ==
  /\ call[c].pc = "backoff"
  /\ CallGoto(c, "request")
  /\ UNCHANGED <<tokens, fired, received, stopped, taken>>

RateNext ==
  \/ TickerFires \/ ReceiveTick \/ Replenish \/ StopLimiter
  \/ \E c \in Calls : \/ BeginCall(c) \/ Wait(c) \/ GiveUp(c) \/ Answered(c)
                      \/ NetworkError(c) \/ Retry(c)
RateSpec == RateInit /\ [][RateNext]_rateVars

-----------------------------------------------------------------------------
(* Properties                                                              *)

\* Every variable has its type.
RateTypeOK ==
  /\ tokens \in 0 .. Rate
  /\ fired \in BOOLEAN /\ received \in BOOLEAN /\ stopped \in BOOLEAN
  /\ call \in [Calls -> [pc : {"idle", "wait", "request", "backoff"}, attempt : 0 .. MaxRetries]]
  /\ taken \in [Intervals -> Nat]

\* What the limiter keeps to (client.go:344-361): in a stretch as long as the period, wherever
\* it begins, no more calls start than the full bucket, the ticks of the period, the one the
\* goroutine holds and the one the ticker holds allow.  CONFIG.md:33 has it that the Rate is
\* the most.
CallsAreMetered == Taken <= 2 * Rate + 2
=============================================================================
