-------------------------------- MODULE MarketFeed --------------------------------
(***************************************************************************)
(* How ticks reach the bot, and how they come back: the WebSocket part of  *)
(* the bitFlyer client (infra/exchange/bitflyer/client.go), the ticker     *)
(* subscriptions of the market data service (bitflyer/market_data.go), the *)
(* market data worker (adapter/worker/market_data.go), and the steps of    *)
(* the engine's shutdown that concern them (pkg/engine/engine.go).  A      *)
(* connection may die without a word.  The library calls the handler of a  *)
(* connection for one message at a time, and its Close returns when the    *)
(* handler has.                                                            *)
(***************************************************************************)
EXTENDS Integers, FiniteSets

CONSTANTS
  Symbols,      \* trade and observe-only symbols
  Conns,        \* identities of connections, used again once closed
  Capacity,     \* of marketDataCh
  MaxSaves      \* capacity of saveSemaphore

ASSUME FeedAssumption ==
  /\ IsFiniteSet(Symbols) /\ Symbols # {}
  /\ Capacity \in Nat \ {0} /\ MaxSaves \in Nat \ {0}

None == "none"
ASSUME NoneAssumption == None \notin Conns \cup Symbols

VARIABLES
  conn,           \* of each connection: life, OnTicker installed, subscribed symbols
  tick,           \* of each connection: the message its handler works on
  wsClient,       \* Client.wsClient, or None
  isConnected,    \* Client.isConnected
  clientClosed,   \* Client.closed
  callbacksInit,  \* MarketDataService.callbacksInit
  callbacks,      \* symbols in MarketDataService.tickerCallbacks
  worker,         \* the market data worker: where it is, and its local variables
  overdue,        \* more than staleDataTimeout since lastDataReceivedNs
  queued,         \* ticks in marketDataCh
  saves,          \* ticks that goroutines are writing to the database
  engine,         \* how far the engine's shutdown is
  gaveUp,         \* history: StopAll timed out
  crashed         \* a handler sent on the closed channel

client == <<wsClient, isConnected, clientClosed>>
service == <<callbacksInit, callbacks>>
process == <<queued, saves, engine, gaveUp, crashed>>
vars == <<conn, tick, client, service, worker, overdue, process>>

NoConn == [life |-> "none", handler |-> FALSE, subs |-> {}]
NoTick == [sym |-> None, pc |-> "idle"]
NewConn == [NoConn EXCEPT !.life = "open"]

\* Cancelled: the context of the workers and of the subscriptions.
Cancelled == engine # "running"
ChannelClosed == engine = "stopped"

\* NewClient connects, or the engine does not start at all.
Init ==
  \E c \in Conns :
    /\ conn = [d \in Conns |-> IF d = c THEN NewConn ELSE NoConn]
    /\ tick = [d \in Conns |-> NoTick]
    /\ wsClient = c /\ isConnected = TRUE /\ clientClosed = FALSE
    /\ callbacksInit = FALSE /\ callbacks = {}
    /\ worker = [pc |-> "check", conn |-> None, sym |-> None, todo |-> {}, failed |-> FALSE]
    /\ overdue = FALSE
    /\ queued = 0 /\ saves = 0 /\ engine = "running" /\ gaveUp = FALSE /\ crashed = FALSE

-----------------------------------------------------------------------------
(* The worker's loop                                                       *)

Goto(pc) == worker' = [worker EXCEPT !.pc = pc]

\* All symbols are to be subscribed.
StartSubscribing ==
  worker' = [worker EXCEPT !.pc = "subscribe", !.todo = Symbols, !.failed = FALSE,
                           !.conn = None]

\* The top of the loop in Run.
Check ==
  /\ worker.pc = "check"
  /\ IF Cancelled THEN Goto("done") ELSE IF isConnected THEN StartSubscribing ELSE Goto("reconnect")
  /\ UNCHANGED <<conn, tick, client, service, overdue, process>>

\* Slip: the client counts as connected while it has no connection.
TakeOldConnected ==
  /\ worker.pc = "reconnect"
  /\ worker' = [worker EXCEPT !.pc = "closeOld", !.conn = wsClient]
  /\ conn' = [c \in Conns |-> IF c = wsClient THEN [conn[c] EXCEPT !.life = "closing"] ELSE conn[c]]
  /\ wsClient' = None
  /\ isConnected' \in BOOLEAN
  /\ UNCHANGED <<tick, clientClosed, service, overdue, process>>

\* Client.Reconnect takes the old connection under the lock and closes it outside.
TakeOld ==
  /\ worker.pc = "reconnect"
  /\ worker' = [worker EXCEPT !.pc = "closeOld", !.conn = wsClient]
  /\ conn' = [c \in Conns |-> IF c = wsClient THEN [conn[c] EXCEPT !.life = "closing"] ELSE conn[c]]
  /\ wsClient' = None /\ isConnected' = FALSE
  /\ UNCHANGED <<tick, clientClosed, service, overdue, process>>

CloseOld ==
  /\ worker.pc = "closeOld"
  /\ worker.conn \in Conns => tick[worker.conn] = NoTick
  /\ conn' = [c \in Conns |-> IF c = worker.conn THEN NoConn ELSE conn[c]]
  /\ Goto("dial")
  /\ UNCHANGED <<tick, client, service, overdue, process>>

\* A connection that failed costs a wait (that doubles with each attempt in a row).
Failed == worker' = [worker EXCEPT !.pc = "wait", !.conn = None]

\* websocket.NewClient and Auth, without a lock.
Dial ==
  /\ worker.pc = "dial"
  /\ \E c \in Conns :
       /\ conn[c] = NoConn
       /\ conn' = [conn EXCEPT ![c] = NewConn]
       /\ worker' = [worker EXCEPT !.pc = "adopt", !.conn = c]
  /\ UNCHANGED <<tick, client, service, overdue, process>>

DialFails ==
  /\ worker.pc = "dial"
  /\ Failed
  /\ UNCHANGED <<conn, tick, client, service, overdue, process>>

\* Slip: the connection is adopted by a client that was closed in the meantime.
AdoptAnyway ==
  /\ worker.pc = "adopt"
  /\ wsClient' = worker.conn /\ isConnected' = TRUE
  /\ Goto("reset")
  /\ UNCHANGED <<conn, tick, clientClosed, service, overdue, process>>

\* The end of initWebSocketClient.
Adopt ==
  /\ worker.pc = "adopt"
  /\ IF clientClosed
     THEN /\ conn' = [conn EXCEPT ![worker.conn] = NoConn]
          /\ Failed
          /\ UNCHANGED <<wsClient, isConnected>>
     ELSE /\ wsClient' = worker.conn /\ isConnected' = TRUE
          /\ Goto("reset")
          /\ UNCHANGED conn
  /\ UNCHANGED <<tick, clientClosed, service, overdue, process>>

\* Slip: the callbacks of the old connection are kept.
KeepCallbacks ==
  /\ worker.pc = "reset"
  /\ StartSubscribing
  /\ UNCHANGED <<conn, tick, client, service, overdue, process>>

ResetCallbacks ==
  /\ worker.pc = "reset"
  /\ callbacksInit' = FALSE /\ callbacks' = {}
  /\ StartSubscribing
  /\ UNCHANGED <<conn, tick, client, overdue, process>>

\* A wait is over, or cut short.
EndWait ==
  /\ worker.pc = "wait"
  /\ \/ Goto("check")
     \/ Cancelled /\ Goto("done")
  /\ UNCHANGED <<conn, tick, client, service, overdue, process>>

-----------------------------------------------------------------------------
(* SubscribeToTicker, for one symbol after the other                       *)

\* Outcome of the subscription of worker.sym.
Subscribed(ok) ==
  worker' = [worker EXCEPT !.pc = "subscribe", !.sym = None, !.failed = @ \/ ~ok]

StartSubscription ==
  /\ worker.pc = "subscribe"
  /\ \E s \in worker.todo :
       IF isConnected
       THEN /\ worker' = [worker EXCEPT !.todo = @ \ {s}, !.sym = s,
                                        !.pc = IF callbacksInit THEN "register" ELSE "install"]
            /\ callbacksInit' = TRUE
            /\ callbacks' = IF callbacksInit THEN callbacks ELSE {}
       ELSE /\ worker' = [worker EXCEPT !.todo = @ \ {s}, !.failed = TRUE]
            /\ UNCHANGED service
  /\ UNCHANGED <<conn, tick, client, overdue, process>>

\* wsClient is read without the client's lock: the engine may have taken it away.
\* The worker manager recovers the panic, and does not start the worker again.
Panic == worker' = [worker EXCEPT !.pc = "panicked"]

InstallHandler ==
  /\ worker.pc = "install"
  /\ IF wsClient = None THEN Panic /\ UNCHANGED conn
     ELSE conn' = [conn EXCEPT ![wsClient].handler = TRUE] /\ Goto("register")
  /\ UNCHANGED <<tick, client, service, overdue, process>>

RegisterCallback ==
  /\ worker.pc = "register"
  /\ callbacks' = callbacks \cup {worker.sym}
  /\ Goto("request")
  /\ UNCHANGED <<conn, tick, client, callbacksInit, overdue, process>>

\* The request goes out; it reaches the exchange if the connection is alive.
RequestSubscription ==
  /\ worker.pc = "request"
  /\ IF wsClient = None THEN Panic /\ UNCHANGED conn
     ELSE /\ conn' = IF conn[wsClient].life = "open"
                     THEN [conn EXCEPT ![wsClient].subs = @ \cup {worker.sym}] ELSE conn
          /\ Subscribed(TRUE)
  /\ UNCHANGED <<tick, client, service, overdue, process>>

RequestFails ==
  /\ worker.pc = "request"
  /\ wsClient # None
  /\ Subscribed(FALSE)
  /\ UNCHANGED <<conn, tick, client, service, overdue, process>>

\* Slip: some of the symbols are enough.
TallyAny ==
  /\ worker.pc = "subscribe" /\ worker.todo = {}
  /\ overdue' = FALSE /\ Goto("monitor")
  /\ UNCHANGED <<conn, tick, client, service, process>>

\* All symbols, or another connection.
Tally ==
  /\ worker.pc = "subscribe" /\ worker.todo = {}
  /\ IF worker.failed
     THEN isConnected' = FALSE /\ Goto("wait") /\ UNCHANGED overdue
     ELSE overdue' = FALSE /\ Goto("monitor") /\ UNCHANGED isConnected
  /\ UNCHANGED <<conn, tick, wsClient, clientClosed, service, process>>

\* Slip: only a flag that somebody set ends the watch.
MonitorFlag ==
  /\ worker.pc = "monitor"
  /\ \/ Cancelled /\ Goto("done") /\ UNCHANGED isConnected
     \/ ~isConnected /\ Goto("check") /\ UNCHANGED isConnected
  /\ UNCHANGED <<conn, tick, wsClient, clientClosed, service, overdue, process>>

\* The monitor loop: a look at the connection every connectionCheckInterval.
Monitor ==
  /\ worker.pc = "monitor"
  /\ \/ Cancelled /\ Goto("done") /\ UNCHANGED isConnected
     \/ ~isConnected /\ Goto("check") /\ UNCHANGED isConnected
     \/ isConnected /\ overdue /\ isConnected' = FALSE /\ Goto("check")
  /\ UNCHANGED <<conn, tick, wsClient, clientClosed, service, overdue, process>>

-----------------------------------------------------------------------------
(* Connections, ticks and time                                             *)

Arrives(c) ==
  /\ conn[c].life = "open" /\ conn[c].handler /\ tick[c] = NoTick
  /\ \E s \in conn[c].subs : tick' = [tick EXCEPT ![c] = [sym |-> s, pc |-> "lookup"]]
  /\ UNCHANGED <<conn, client, service, worker, overdue, process>>

\* saveMarketDataToDB: nothing within a minute of the symbol's last save, at shutdown,
\* or when too many writes are under way; the handler never waits for one.
SaveMarketData ==
  \/ UNCHANGED saves
  \/ ~Cancelled /\ saves < MaxSaves /\ saves' = saves + 1

SaveEnds ==
  /\ saves > 0
  /\ saves' = saves - 1
  /\ UNCHANGED <<conn, tick, client, service, worker, overdue, queued, engine, gaveUp, crashed>>

\* The global handler looks the callback up, in the map of the newest connection.
\* A tick without one, or with impossible values, is dropped.
LookUp(c) ==
  /\ tick[c].pc = "lookup"
  /\ \/ tick[c].sym \in callbacks /\ tick' = [tick EXCEPT ![c].pc = "send"] /\ SaveMarketData
     \/ tick' = [tick EXCEPT ![c] = NoTick] /\ UNCHANGED saves
  /\ UNCHANGED <<conn, client, service, worker, overdue, queued, engine, gaveUp, crashed>>

\* The worker's callback.  Go's select takes any branch that is ready; a send on a
\* closed channel is ready, and panics in a goroutine that nobody guards.
Send(c) ==
  /\ tick[c].pc = "send"
  /\ tick' = [tick EXCEPT ![c] = NoTick]
  /\ overdue' = FALSE
  /\ \/ ChannelClosed /\ crashed' = TRUE /\ UNCHANGED queued
     \/ ~ChannelClosed /\ queued < Capacity /\ queued' = queued + 1 /\ UNCHANGED crashed
     \/ (Cancelled \/ queued = Capacity) /\ UNCHANGED <<queued, crashed>>
  /\ UNCHANGED <<conn, client, service, worker, saves, engine, gaveUp>>

Consume ==
  /\ queued > 0
  /\ queued' = queued - 1
  /\ UNCHANGED <<conn, tick, client, service, worker, overdue, saves, engine, gaveUp, crashed>>

Dies(c) ==
  /\ conn[c].life = "open"
  /\ conn' = [conn EXCEPT ![c].life = "dead"]
  /\ UNCHANGED <<tick, client, service, worker, overdue, process>>

\* staleDataTimeout has passed since the last tick; nobody asks but the monitor.
BecomesOverdue ==
  /\ worker.pc = "monitor" /\ ~overdue
  /\ overdue' = TRUE
  /\ UNCHANGED <<conn, tick, client, service, worker, process>>

-----------------------------------------------------------------------------
(* Shutdown                                                                *)

Cancel ==
  /\ engine = "running"
  /\ engine' = "cancelled"
  /\ UNCHANGED <<conn, tick, client, service, worker, overdue, queued, saves, gaveUp, crashed>>

\* Client.Close, until it waits for the handler of the connection, with the lock.
CloseClient ==
  /\ engine = "cancelled"
  /\ engine' = "closing"
  /\ clientClosed' = TRUE
  /\ conn' = [c \in Conns |-> IF c = wsClient THEN [conn[c] EXCEPT !.life = "closing"] ELSE conn[c]]
  /\ UNCHANGED <<tick, wsClient, isConnected, service, worker, overdue, queued, saves, gaveUp, crashed>>

ClientIsClosed ==
  /\ engine = "closing"
  /\ wsClient \in Conns => tick[wsClient] = NoTick
  /\ conn' = [c \in Conns |-> IF c = wsClient THEN NoConn ELSE conn[c]]
  /\ wsClient' = None /\ isConnected' = FALSE
  /\ engine' = "closed"
  /\ UNCHANGED <<tick, clientClosed, service, worker, overdue, queued, saves, gaveUp, crashed>>

Finished == worker.pc \in {"done", "panicked"}

\* Slip: the channels are closed before the client.
ChannelsFirst ==
  /\ engine = "cancelled"
  /\ Finished
  /\ engine' = "stopped"
  /\ UNCHANGED <<conn, tick, client, service, worker, overdue, queued, saves, gaveUp, crashed>>

\* WorkerManager.StopAll, then close(marketDataCh): the worker has finished, or ten
\* seconds are over.
StopAll ==
  /\ engine = "closed"
  /\ engine' = "stopped"
  /\ gaveUp' = ~Finished
  /\ UNCHANGED <<conn, tick, client, service, worker, overdue, queued, saves, crashed>>

-----------------------------------------------------------------------------
\* While Close holds the client's lock, the worker's steps that need it wait.
Unlocked == engine # "closing"

WorkerStep ==
  \/ Unlocked /\ (Check \/ TakeOld \/ Adopt \/ StartSubscription \/ Tally \/ Monitor)
  \/ CloseOld \/ Dial \/ DialFails \/ ResetCallbacks \/ EndWait
  \/ InstallHandler \/ RegisterCallback \/ RequestSubscription \/ RequestFails

HandlerStep(c) == LookUp(c) \/ Send(c)
ShutdownStep == CloseClient \/ ClientIsClosed \/ StopAll

\* Nothing runs on once a goroutine has panicked.
Next ==
  /\ ~crashed
  /\ \/ WorkerStep \/ Consume \/ SaveEnds \/ BecomesOverdue \/ Cancel \/ ShutdownStep
     \/ \E c \in Conns : Arrives(c) \/ HandlerStep(c) \/ Dies(c)

\* The connection in use delivers, so no time-out is due.
Delivering ==
  wsClient \in Conns /\ conn[wsClient].life = "open" /\ conn[wsClient].handler
  /\ conn[wsClient].subs \cap callbacks # {}

\* Goroutines run on, calls return, time passes where no data does.
Fairness ==
  /\ WF_vars(~crashed /\ WorkerStep)
  /\ \A c \in Conns : WF_vars(~crashed /\ HandlerStep(c))
  /\ WF_vars(~crashed /\ ShutdownStep)
  /\ WF_vars(~crashed /\ ~Delivering /\ BecomesOverdue)

Spec == Init /\ [][Next]_vars /\ Fairness

-----------------------------------------------------------------------------
(* Properties                                                              *)

Worker ==
  [pc : {"check", "reconnect", "closeOld", "dial", "adopt", "reset", "wait", "subscribe", "install",
         "register", "request", "monitor", "done", "panicked"},
   conn : Conns \cup {None}, sym : Symbols \cup {None}, todo : SUBSET Symbols,
   failed : BOOLEAN]

\* Every variable has its type.
TypeOK ==
  /\ conn \in [Conns -> [life : {"none", "open", "dead", "closing"}, handler : BOOLEAN,
                          subs : SUBSET Symbols]]
  /\ tick \in [Conns -> [sym : Symbols \cup {None}, pc : {"idle", "lookup", "send"}]]
  /\ wsClient \in Conns \cup {None} /\ isConnected \in BOOLEAN /\ clientClosed \in BOOLEAN
  /\ callbacksInit \in BOOLEAN /\ callbacks \subseteq Symbols
  /\ worker \in Worker /\ overdue \in BOOLEAN
  /\ queued \in 0 .. Capacity /\ saves \in 0 .. MaxSaves
  /\ engine \in {"running", "cancelled", "closing", "closed", "stopped"}
  /\ gaveUp \in BOOLEAN /\ crashed \in BOOLEAN

\* When the worker trusts a connection, ticks of every symbol can come through it:
\* the handler is installed on this connection, not on an earlier one, every symbol
\* has a callback, and is subscribed unless the connection died in between
\* (market_data.go:706, "should be called when recreating the WebSocket client").
FeedComplete ==
  worker.pc = "monitor" /\ isConnected /\ engine \in {"running", "cancelled"} =>
    /\ wsClient \in Conns /\ conn[wsClient].handler
    /\ callbacks = Symbols
    /\ conn[wsClient].life = "open" => conn[wsClient].subs = Symbols

\* Connections are not leaked: besides the one in use there is at most the one that
\* the worker is closing or has just made, and none once client and worker are done
\* (client.go:142-144).
Known == {wsClient} \cup (IF worker.pc \in {"closeOld", "adopt"} THEN {worker.conn} ELSE {})
NoLeakedConnection ==
  /\ {c \in Conns : conn[c] # NoConn} \subseteq Known
  /\ engine \in {"closed", "stopped"} /\ Finished => \A c \in Conns : conn[c] = NoConn

\* No handler sends on the closed channel if StopAll waited until the worker was done
\* (engine.go:262-265).
ClosedChannelUnused == crashed => gaveUp

\* The worker, which nobody would start again, loses its footing at shutdown only.
PanicsAtShutdownOnly == worker.pc = "panicked" => clientClosed

\* From some time on the network is well: connections hold, can be made and used.
StableNetwork ==
  <>[][/\ \A c \in Conns : ~Dies(c)
       /\ ~DialFails /\ ~RequestFails
       /\ ~(Delivering /\ BecomesOverdue)]_vars

Healthy ==
  /\ worker.pc = "monitor" /\ isConnected /\ Delivering
  /\ conn[wsClient].subs = Symbols /\ callbacks = Symbols

\* Whatever happened before, the feed comes back for every symbol once the network
\* is well, if nobody stops the engine: silent deaths, failed and partial
\* subscriptions included.
FeedComesBack == StableNetwork /\ [](engine = "running") => <>[]Healthy

-----------------------------------------------------------------------------
(* The inductive invariant                                                 *)

Subscribing == {"subscribe", "install", "register", "request"}

\* Who holds which connection.  What is connected is there; the worker has taken it
\* out of the client while it makes another; a closed client has none.
Ownership ==
  /\ {c \in Conns : conn[c] # NoConn} \subseteq Known
  /\ wsClient # None => conn[wsClient] # NoConn
  /\ isConnected => wsClient # None
  /\ worker.pc \in {"closeOld", "dial", "adopt"} => wsClient = None
  /\ worker.pc = "adopt" => /\ worker.conn \in Conns /\ conn[worker.conn] # NoConn
                            /\ ~conn[worker.conn].handler /\ tick[worker.conn] = NoTick
  /\ worker.pc = "closeOld" /\ worker.conn \in Conns => conn[worker.conn].life = "closing"
  /\ \A c \in Conns : tick[c] # NoTick => conn[c] # NoConn /\ tick[c].sym \in Symbols
  /\ clientClosed = (engine \in {"closing", "closed", "stopped"})
  /\ engine \in {"closed", "stopped"} => wsClient = None
  /\ engine = "stopped" /\ ~gaveUp => Finished

\* How far the subscription of all symbols on the client's connection is.
Progress ==
  /\ worker.pc \in {"reset", "install", "register", "request"} /\ ~clientClosed => wsClient # None
  /\ worker.pc \in {"install", "register", "request"} => worker.sym \in Symbols
  /\ worker.pc \notin {"install", "register", "request", "panicked"} => worker.sym = None
  /\ worker.pc \in {"check", "wait"} /\ isConnected => ~callbacksInit
  /\ worker.pc \in {"install", "register", "request"} => callbacksInit
  /\ worker.pc \in Subscribing \ {"install"} /\ wsClient # None /\ callbacksInit =>
       conn[wsClient].handler
  /\ worker.pc \in Subscribing /\ ~worker.failed /\ ~clientClosed =>
       LET done == Symbols \ (worker.todo \cup {worker.sym})
       IN /\ done \subseteq callbacks
          /\ worker.pc = "request" => worker.sym \in callbacks
          /\ isConnected /\ (done # {} \/ worker.pc # "subscribe") => callbacksInit
          /\ isConnected /\ conn[wsClient].life = "open" => done \subseteq conn[wsClient].subs

\* The invariant that the proofs of this module's safety properties need.
IndInv == TypeOK /\ Ownership /\ Progress /\ FeedComplete /\ ClosedChannelUnused
=============================================================================
