------------------------------ MODULE EngineLifecycle ------------------------------
(***************************************************************************)
(* The life of the process: what run of pkg/engine/engine.go starts and,   *)
(* in which order, ends; the trading switch with its row in app_state; the *)
(* requests of the web UI that turn it; and orders under way meanwhile,    *)
(* with the wait group of the trader (usecase/trading/bitflyer_trader.go). *)
(* The process may crash anywhere and is started again.                    *)
(***************************************************************************)
EXTENDS Integers, FiniteSets

CONSTANTS
  Requests,     \* requests of the web UI that can be served at once
  Orders,       \* orders that can be sent
  MaxStarts     \* bound on starts of the process

ASSUME LifeAssumption ==
  /\ IsFiniteSet(Requests) /\ IsFiniteSet(Orders)
  /\ MaxStarts \in Nat

NoOrder == "no order"
ASSUME NoOrderAssumption == NoOrder \notin Orders

VARIABLES
  phase,      \* where run is; "down" when there is no process
  starts,     \* how often the process was started
  saved,      \* value of trading_enabled in app_state, "unset" if there is none
  enabled,    \* tradingController.enabled
  req,        \* each request: where in SetTradingEnabled it is, and its argument
  http,       \* the HTTP server: about to be started, serving, closed
  sw,         \* the signal worker: where in processSignal it is, and its order
  order,      \* each order: sent or not, watched by a monitor ("late" if that was
              \* counted after Shutdown began to wait), booked
  gaveUp,     \* history: the trader's wait for its monitors timed out
  answered,   \* history: what the last request with a success answer asked for
  dirty       \* history: a save or read failed, or two requests overlapped

switch == <<saved, enabled, req, answered, dirty>>
trading == <<sw, order>>
lifeVars == <<phase, starts, http, gaveUp, switch, trading>>

Idle == [pc |-> "idle", want |-> FALSE]
Waiting == [pc |-> "idle", id |-> NoOrder]

\* The parts of run's shutdown, in order; each names what is done next.
Shutdown == {"http", "requests", "cancel", "monitors", "client", "workers", "channels", "db", "exit"}
Cancelled == phase \in Shutdown
Up == phase # "down"
DbOpen == phase \notin {"down", "exit"}
MonitorsCancelled == phase \in Shutdown \ {"http", "requests", "cancel"}
MonitorsRunning == {o \in Orders : order[o] \in {"watched", "late"}}

LifeInit ==
  /\ phase = "down" /\ starts = 0
  /\ saved = "unset" /\ enabled = FALSE /\ req = [r \in Requests |-> Idle]
  /\ http = "closed" /\ sw = [Waiting EXCEPT !.pc = "done"]
  /\ order = [o \in Orders |-> "none"]
  /\ gaveUp = FALSE /\ answered = FALSE /\ dirty = FALSE

-----------------------------------------------------------------------------
(* Start                                                                   *)

\* Slip: trading unless it was disabled.
DefaultOn(readable) ==
  /\ enabled' = (readable /\ saved # "false")
  /\ saved' \in {saved, IF readable /\ saved = "unset" THEN "false" ELSE saved}
  /\ dirty' = (dirty \/ ~readable)

\* newTradingController; the row is created if there is none, if that works.
ReadSwitch(readable) ==
  /\ enabled' = (readable /\ saved = "true")
  /\ saved' \in {saved, IF readable /\ saved = "unset" THEN "false" ELSE saved}
  /\ dirty' = (dirty \/ ~readable)

Start ==
  /\ phase = "down" /\ starts < MaxStarts
  /\ starts' = starts + 1
  /\ \E readable \in BOOLEAN : ReadSwitch(readable)
  /\ phase' = "running" /\ http' = "starting"
  /\ sw' = Waiting
  /\ UNCHANGED <<req, order, gaveUp, answered>>

\* NewClient or a later step fails; the row may have been created by then.
StartFails ==
  /\ phase = "down" /\ starts < MaxStarts
  /\ starts' = starts + 1
  /\ saved' \in {saved, IF saved = "unset" THEN "false" ELSE saved}
  /\ UNCHANGED <<phase, http, gaveUp, enabled, req, answered, dirty, trading>>

\* Server.Start, in a goroutine of its own, at any time.
Serve ==
  /\ Up /\ http = "starting"
  /\ http' = "serving"
  /\ UNCHANGED <<phase, starts, gaveUp, switch, trading>>

-----------------------------------------------------------------------------
(* The trading switch                                                      *)

Ask(r) ==
  /\ http = "serving" /\ req[r].pc = "idle"
  /\ \E want \in BOOLEAN : req' = [req EXCEPT ![r] = [pc |-> "set", want |-> want]]
  /\ UNCHANGED <<phase, starts, http, gaveUp, saved, enabled, answered, dirty, trading>>

Answer(r, success) ==
  /\ req' = [req EXCEPT ![r] = Idle]
  /\ answered' = IF success THEN req[r].want ELSE answered

\* Whether another request is between memory and database.
Overlap(r) == \E q \in Requests \ {r} : req[q].pc = "save"

\* SetTradingEnabled, under its lock: nothing to do is a success.
SetInMemory(r) ==
  /\ Up /\ req[r].pc = "set"
  /\ IF enabled = req[r].want
     THEN Answer(r, TRUE) /\ UNCHANGED enabled
     ELSE /\ enabled' = req[r].want
          /\ req' = [req EXCEPT ![r].pc = "save"]
          /\ UNCHANGED answered
  /\ dirty' = (dirty \/ Overlap(r))
  /\ UNCHANGED <<phase, starts, http, gaveUp, saved, trading>>

Value(b) == IF b THEN "true" ELSE "false"

\* SaveAppState, outside the lock.
Save(r) ==
  /\ Up /\ req[r].pc = "save" /\ DbOpen
  /\ saved' = Value(req[r].want)
  /\ Answer(r, TRUE)
  /\ dirty' = (Overlap(r) \/ enabled # req[r].want)
  /\ UNCHANGED <<phase, starts, http, gaveUp, enabled, trading>>

\* Memory keeps what was asked, the answer is an error.
SaveFails(r) ==
  /\ Up /\ req[r].pc = "save"
  /\ Answer(r, FALSE)
  /\ dirty' = TRUE
  /\ UNCHANGED <<phase, starts, http, gaveUp, saved, enabled, trading>>

-----------------------------------------------------------------------------
(* Orders                                                                  *)

SwGoto(pc) == sw' = [sw EXCEPT !.pc = pc]

\* A signal taken from the channel: go on only if trading is enabled.
TakeSignal ==
  /\ sw.pc = "idle"
  /\ enabled /\ SwGoto("checked")
  /\ UNCHANGED <<phase, starts, http, gaveUp, switch, order>>

\* Risk, size, balance: no order.  The signal worker ends with the context.
Reject ==
  /\ sw.pc = "checked" /\ SwGoto("idle")
  /\ UNCHANGED <<phase, starts, http, gaveUp, switch, order>>

EndSignals ==
  /\ sw.pc = "idle" /\ Cancelled /\ SwGoto("done")
  /\ UNCHANGED <<phase, starts, http, gaveUp, switch, order>>

\* OrderService.PlaceOrder: the request needs a context that is not cancelled.
SendOrder ==
  /\ sw.pc = "checked" /\ ~Cancelled
  /\ \E o \in Orders :
       /\ order[o] = "none"
       /\ order' = [order EXCEPT ![o] = "sent"]
       /\ sw' = [pc |-> "sending", id |-> o]
  /\ UNCHANGED <<phase, starts, http, gaveUp, switch>>

NoReply ==
  /\ sw.pc = "sending" /\ sw' = Waiting
  /\ UNCHANGED <<phase, starts, http, gaveUp, switch, order>>

\* The reply, and the look at the shutdown context.
Reply ==
  /\ sw.pc = "sending"
  /\ sw' = IF MonitorsCancelled THEN Waiting ELSE [sw EXCEPT !.pc = "adding"]
  /\ UNCHANGED <<phase, starts, http, gaveUp, switch, order>>

\* wg.Add and the monitor's goroutine.  Shutdown cancels and waits without the lock
\* under which PlaceOrder looked.
AddMonitor ==
  /\ sw.pc = "adding"
  /\ order' = [order EXCEPT ![sw.id] = IF MonitorsCancelled THEN "late" ELSE "watched"]
  /\ sw' = Waiting
  /\ UNCHANGED <<phase, starts, http, gaveUp, switch>>

\* A monitor ends with its order or its context, after a last look and a save.
EndMonitor(o) ==
  /\ o \in MonitorsRunning
  /\ order' = [order EXCEPT ![o] = IF DbOpen THEN "booked" ELSE "lost"]
  /\ UNCHANGED <<phase, starts, http, gaveUp, switch, sw>>

\* The exchange does not list it, or the database fails.
MonitorFails(o) ==
  /\ o \in MonitorsRunning
  /\ order' = [order EXCEPT ![o] = "lost"]
  /\ UNCHANGED <<phase, starts, http, gaveUp, switch, sw>>

-----------------------------------------------------------------------------
(* Shutdown                                                                *)

Advance(from, to) == phase = from /\ phase' = to

Interrupt ==
  /\ Advance("running", "http")
  /\ UNCHANGED <<starts, http, gaveUp, switch, trading>>

\* Server.Shutdown: nothing if Start has not come as far, and Start comes later.
CloseListener ==
  /\ phase = "http"
  /\ IF http = "starting" THEN phase' = "cancel" /\ UNCHANGED http
     ELSE phase' = "requests" /\ http' = "closed"
  /\ UNCHANGED <<starts, gaveUp, switch, trading>>

\* No request is under way any more, or ten seconds are over.
AwaitRequests ==
  /\ Advance("requests", "cancel")
  /\ UNCHANGED <<starts, http, gaveUp, switch, trading>>

CancelMonitors ==
  /\ Advance("cancel", "monitors")
  /\ UNCHANGED <<starts, http, gaveUp, switch, trading>>

\* Slip: the trader's wait has no time-out.
AwaitForEver ==
  /\ Advance("monitors", "client") /\ MonitorsRunning = {}
  /\ UNCHANGED <<starts, http, gaveUp, switch, trading>>

\* Slip: Shutdown cancels and goes on.
AwaitNothing ==
  /\ Advance("monitors", "client")
  /\ UNCHANGED <<starts, http, gaveUp, switch, trading>>

\* BitflyerTrader.Shutdown: all monitors have ended, or 30 seconds are over.
AwaitMonitors ==
  /\ Advance("monitors", "client")
  /\ gaveUp' = (MonitorsRunning # {})
  /\ UNCHANGED <<starts, http, switch, trading>>

CloseWebSocket ==
  /\ Advance("client", "workers")
  /\ UNCHANGED <<starts, http, gaveUp, switch, trading>>

\* WorkerManager.StopAll: all workers have ended, or ten seconds are over; no worker is
\* Stoppable, so nothing else is done.
AwaitWorkers ==
  /\ Advance("workers", "channels")
  /\ UNCHANGED <<starts, http, gaveUp, switch, trading>>

CloseChannels ==
  /\ Advance("channels", "db")
  /\ UNCHANGED <<starts, http, gaveUp, switch, trading>>

CloseDatabase ==
  /\ Advance("db", "exit")
  /\ UNCHANGED <<starts, http, gaveUp, switch, trading>>

\* Nothing of the process is left.  No monitor is restored when it starts again.
Die ==
  /\ phase' = "down" /\ http' = "closed"
  /\ enabled' = FALSE /\ req' = [r \in Requests |-> Idle]
  /\ sw' = [Waiting EXCEPT !.pc = "done"]
  /\ order' = [o \in Orders |-> IF o \in MonitorsRunning THEN "lost" ELSE order[o]]
  /\ gaveUp' = FALSE
  /\ dirty' = (dirty \/ \E r \in Requests : req[r].pc = "save")
  /\ UNCHANGED <<starts, saved, answered>>

Exit == phase = "exit" /\ Die
Crash == phase \notin {"down", "exit"} /\ Die

-----------------------------------------------------------------------------
ShutdownSteps ==
  \/ CloseListener \/ AwaitRequests \/ CancelMonitors \/ AwaitMonitors \/ CloseWebSocket
  \/ AwaitWorkers \/ CloseChannels \/ CloseDatabase \/ Exit

LifeNext ==
  \/ Start \/ StartFails \/ Serve \/ Interrupt \/ ShutdownSteps \/ Crash
  \/ \E r \in Requests : Ask(r) \/ SetInMemory(r) \/ Save(r) \/ SaveFails(r)
  \/ TakeSignal \/ Reject \/ EndSignals \/ SendOrder \/ NoReply \/ Reply \/ AddMonitor
  \/ \E o \in Orders : EndMonitor(o) \/ MonitorFails(o)

\* The goroutine of run goes on; every wait in it has a time-out.
LifeFairness == WF_lifeVars(ShutdownSteps)
LifeSpec == LifeInit /\ [][LifeNext]_lifeVars /\ LifeFairness

-----------------------------------------------------------------------------
(* Properties                                                              *)

\* Every variable has its type.
LifeTypeOK ==
  /\ phase \in {"down", "running"} \cup Shutdown /\ starts \in 0 .. MaxStarts
  /\ saved \in {"unset", "true", "false"} /\ enabled \in BOOLEAN
  /\ req \in [Requests -> [pc : {"idle", "set", "save"}, want : BOOLEAN]]
  /\ http \in {"starting", "serving", "closed"}
  /\ sw \in [pc : {"idle", "checked", "sending", "adding", "done"}, id : Orders \cup {NoOrder}]
  /\ order \in [Orders -> {"none", "sent", "watched", "late", "booked", "lost"}]
  /\ gaveUp \in BOOLEAN
  /\ answered \in BOOLEAN /\ dirty \in BOOLEAN

\* The trading state survives restarts (DESIGN_DOC.md:309): what the last successful
\* answer said is what app_state holds and, while the process is up, what the signal
\* worker sees.  Not while a request is between the two, and not after a failed
\* save or read, or two requests at once: until a request again changes both alone.
SwitchIsAsAnswered ==
  ~dirty /\ (\A r \in Requests : req[r].pc # "save") =>
    /\ (saved = "true") = answered
    /\ Up => enabled = answered

\* When the database is closed, no monitor that was counted before the trader began
\* to wait is still at work, unless the wait timed out (bitflyer_trader.go:207): the
\* trade of an acknowledged order is saved before.
MonitorsBeforeDatabase ==
  phase = "exit" /\ ~gaveUp => \A o \in Orders : order[o] # "watched"

\* Shutdown ends, whatever requests, monitors and workers do (engine.go:247-275).
ShutdownEnds == phase = "http" ~> phase = "down"
=============================================================================
