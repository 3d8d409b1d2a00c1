---------------------------- MODULE MarketFeedProofs ----------------------------
(***************************************************************************)
(* Theorems on MarketFeed, for every set of symbols and of connections and *)
(* every capacity: the worker trusts complete connections only, leaks none *)
(* and sends on no closed channel if StopAll waited for it.  One lemma for *)
(* each action says that it keeps IndInv.                                  *)
(***************************************************************************)
EXTENDS MarketFeed, TLAPS

USE FeedAssumption, NoneAssumption

Connection == [life : {"none", "open", "dead", "closing"}, handler : BOOLEAN, subs : SUBSET Symbols]
Message == [sym : Symbols \cup {None}, pc : {"idle", "lookup", "send"}]

\* At first the client has the one connection there is, and the worker looks at it.
LEMMA InitIndInv ==
  ASSUME Init
  PROVE  IndInv
<1>1. PICK c \in Conns :
        /\ conn = [d \in Conns |-> IF d = c THEN NewConn ELSE NoConn]
        /\ wsClient = c
  BY DEF Init
<1>2. /\ tick = [d \in Conns |-> NoTick]
      /\ isConnected = TRUE /\ clientClosed = FALSE /\ callbacksInit = FALSE /\ callbacks = {}
      /\ worker = [pc |-> "check", conn |-> None, sym |-> None, todo |-> {}, failed |-> FALSE]
      /\ overdue = FALSE /\ queued = 0 /\ saves = 0 /\ engine = "running"
      /\ gaveUp = FALSE /\ crashed = FALSE
  BY DEF Init
<1>3. NewConn \in Connection /\ NoConn \in Connection /\ NewConn # NoConn
  BY DEF NewConn, NoConn, Connection
<1>4. TypeOK
  <2>1. worker \in Worker
    BY <1>2 DEF Worker
  <2>2. NoTick \in Message
    BY DEF NoTick, Message
  <2>3. conn \in [Conns -> Connection]
    BY <1>1, <1>3
  <2>4. tick \in [Conns -> Message]
    BY <1>2, <2>2
  <2>5. queued \in 0 .. Capacity /\ saves \in 0 .. MaxSaves
    BY <1>2
  <2>6. wsClient \in Conns \cup {None} /\ callbacks \subseteq Symbols
    BY <1>1, <1>2
  <2>7. QED BY <1>2, <2>1, <2>3, <2>4, <2>5, <2>6 DEF TypeOK, Connection, Message
<1>5. Ownership
  <2>1. /\ wsClient \in Conns /\ wsClient # None /\ conn[wsClient] = NewConn
        /\ \A d \in Conns : conn[d] # NoConn => d = wsClient
    BY <1>1
  <2>2. \A d \in Conns : tick[d] = NoTick
    BY <1>2
  <2>3. {d \in Conns : conn[d] # NoConn} \subseteq Known
    BY <2>1 DEF Known
  <2>4. worker.pc = "check" /\ engine = "running" /\ clientClosed = FALSE
    BY <1>2
  <2>5. clientClosed = (engine \in {"closing", "closed", "stopped"})
    <3>1. engine \notin {"closing", "closed", "stopped"}
      BY <2>4
    <3>2. (engine \in {"closing", "closed", "stopped"}) = FALSE
      BY <3>1
    <3>3. QED BY <2>4, <3>2
  <2>6. /\ worker.pc \notin {"closeOld", "dial", "adopt"}
        /\ engine \notin {"closed", "stopped"}
        /\ conn[wsClient] # NoConn
    BY <1>3, <2>1, <2>4
  <2>7. worker.pc # "adopt" /\ worker.pc # "closeOld" /\ engine # "stopped"
    BY <2>4
  <2>8. QED BY <2>1, <2>2, <2>3, <2>5, <2>6, <2>7, Zenon DEF Ownership
<1>6. Progress
  BY <1>2 DEF Progress, Subscribing
<1>7. FeedComplete /\ ClosedChannelUnused
  BY <1>2 DEF FeedComplete, ClosedChannelUnused
<1>8. QED BY <1>4, <1>5, <1>6, <1>7 DEF IndInv

-----------------------------------------------------------------------------
(* The worker's loop                                                       *)

Pcs == {"check", "reconnect", "closeOld", "dial", "adopt", "reset", "wait", "subscribe",
        "install", "register", "request", "monitor", "done", "panicked"}

\* The worker moves on, with its local variables as they are.
LEMMA Moved ==
  ASSUME TypeOK, NEW pc \in Pcs, Goto(pc)
  PROVE  /\ worker' \in Worker
         /\ worker'.pc = pc /\ worker'.conn = worker.conn /\ worker'.sym = worker.sym
         /\ worker'.todo = worker.todo /\ worker'.failed = worker.failed
BY DEF TypeOK, Worker, Goto, Pcs

\* The worker turns to the subscriptions.
LEMMA Started ==
  ASSUME TypeOK, StartSubscribing
  PROVE  /\ worker' \in Worker
         /\ worker'.pc = "subscribe" /\ worker'.sym = worker.sym
         /\ worker'.todo = Symbols /\ worker'.failed = FALSE
BY DEF TypeOK, Worker, StartSubscribing


\* A connection begins to close, or none does.
LEMMA Closing ==
  ASSUME TypeOK, NEW d,
         conn' = [c \in Conns |-> IF c = d THEN [conn[c] EXCEPT !.life = "closing"] ELSE conn[c]]
  PROVE  /\ conn' \in [Conns -> Connection]
         /\ \A c \in Conns : c # d => conn'[c] = conn[c]
         /\ \A c \in Conns : c = d => conn'[c].life = "closing" /\ conn'[c].handler = conn[c].handler
                                      /\ conn'[c].subs = conn[c].subs
BY DEF TypeOK, Connection

LEMMA CheckStep ==
  ASSUME IndInv, engine # "closing", Check
  PROVE  IndInv'
<1>0. TypeOK /\ worker.pc = "check" /\ UNCHANGED <<conn, tick, client, service, overdue, process>>
  BY DEF IndInv, Check
<1> USE DEF client, service, process
<1>1. \/ Goto("done") \/ Goto("reconnect") \/ (isConnected /\ StartSubscribing)
  BY DEF Check
<1>2. CASE Goto("done")
  <2>1. worker' \in Worker /\ worker'.pc = "done" /\ worker'.sym = worker.sym
    BY <1>0, <1>2, Moved DEF Pcs
  <2>2. TypeOK'
    BY <1>0, <2>1 DEF TypeOK
  <2>3. Ownership'
    BY <1>0, <2>1 DEF IndInv, Ownership, Known, Finished, NoConn, NoTick
  <2>4. Progress'
    BY <1>0, <2>1 DEF IndInv, Progress, Subscribing
  <2>5. FeedComplete' /\ ClosedChannelUnused'
    BY <1>0, <2>1 DEF IndInv, FeedComplete, ClosedChannelUnused
  <2>6. QED BY <2>2, <2>3, <2>4, <2>5 DEF IndInv
<1>3. CASE Goto("reconnect")
  <2>1. worker' \in Worker /\ worker'.pc = "reconnect" /\ worker'.sym = worker.sym
    BY <1>0, <1>3, Moved DEF Pcs
  <2>2. TypeOK'
    BY <1>0, <2>1 DEF TypeOK
  <2>3. Ownership'
    BY <1>0, <2>1 DEF IndInv, Ownership, Known, Finished, NoConn, NoTick
  <2>4. Progress'
    BY <1>0, <2>1 DEF IndInv, Progress, Subscribing
  <2>5. FeedComplete' /\ ClosedChannelUnused'
    BY <1>0, <2>1 DEF IndInv, FeedComplete, ClosedChannelUnused
  <2>6. QED BY <2>2, <2>3, <2>4, <2>5 DEF IndInv
<1>4. CASE isConnected /\ StartSubscribing
  <2>1. worker' \in Worker /\ worker'.pc = "subscribe" /\ worker'.sym = worker.sym
        /\ worker'.todo = Symbols /\ worker'.failed = FALSE
    BY <1>0, <1>4, Started
  <2>2. TypeOK'
    BY <1>0, <2>1 DEF TypeOK
  <2>3. Ownership'
    BY <1>0, <2>1 DEF IndInv, Ownership, Known, Finished, NoConn, NoTick
  <2>4. Progress'
    BY <1>0, <1>4, <2>1 DEF IndInv, Progress, Subscribing, Ownership
  <2>5. FeedComplete' /\ ClosedChannelUnused'
    BY <1>0, <2>1 DEF IndInv, FeedComplete, ClosedChannelUnused
  <2>6. QED BY <2>2, <2>3, <2>4, <2>5 DEF IndInv
<1>5. QED BY <1>1, <1>2, <1>3, <1>4

LEMMA TakeOldStep ==
  ASSUME IndInv, engine # "closing", TakeOld
  PROVE  IndInv'
<1>0. TypeOK /\ UNCHANGED <<tick, clientClosed, service, overdue, process>>
  BY DEF IndInv, TakeOld
<1>1. /\ worker.pc = "reconnect" /\ wsClient' = None /\ isConnected' = FALSE
      /\ worker' \in Worker /\ worker'.pc = "closeOld" /\ worker'.conn = wsClient
      /\ worker'.sym = worker.sym
  BY <1>0 DEF TakeOld, TypeOK, Worker
<1>2. /\ conn' \in [Conns -> Connection]
      /\ \A c \in Conns : c # wsClient => conn'[c] = conn[c]
      /\ \A c \in Conns : c = wsClient => conn'[c].life = "closing"
  BY <1>0, Closing DEF TakeOld
<1> USE DEF service, process
<1>3. TypeOK'
  BY <1>0, <1>1, <1>2 DEF TypeOK, Connection
<1>4. Ownership'
  <2>1. \A c \in Conns : conn'[c] # NoConn => c = wsClient
    BY <1>1, <1>2 DEF IndInv, Ownership, Known
  <2>2. \A c \in Conns : conn[c] # NoConn => conn'[c] # NoConn
    <3> SUFFICES ASSUME NEW c \in Conns, conn[c] # NoConn, conn'[c] = NoConn PROVE FALSE
      OBVIOUS
    <3>1. conn'[c].life = "none"
      BY DEF NoConn
    <3>2. c # wsClient
      BY <1>2, <3>1
    <3>3. QED BY <1>2, <3>2
  <2>3. QED BY <1>0, <1>1, <1>2, <2>1, <2>2 DEF IndInv, Ownership, Known, Finished, NoTick
<1>5. Progress'
  BY <1>0, <1>1 DEF IndInv, Progress, Subscribing
<1>6. FeedComplete' /\ ClosedChannelUnused'
  BY <1>0, <1>1 DEF IndInv, FeedComplete, ClosedChannelUnused
<1>7. QED BY <1>3, <1>4, <1>5, <1>6 DEF IndInv

LEMMA AdoptStep ==
  ASSUME IndInv, engine # "closing", Adopt
  PROVE  IndInv'
<1>0. TypeOK /\ UNCHANGED <<tick, clientClosed, service, overdue, process>>
  BY DEF IndInv, Adopt
<1>1. /\ worker.pc = "adopt" /\ worker.conn \in Conns /\ conn[worker.conn] # NoConn
      /\ tick[worker.conn] = NoTick /\ wsClient = None
  BY DEF Adopt, IndInv, Ownership
<1> USE DEF service, process
<1>2. CASE clientClosed
  <2>1. /\ conn' = [conn EXCEPT ![worker.conn] = NoConn] /\ UNCHANGED <<wsClient, isConnected>>
        /\ worker' \in Worker /\ worker'.pc = "wait" /\ worker'.sym = worker.sym
    BY <1>0, <1>2 DEF Adopt, Failed, TypeOK, Worker
  <2>2. conn' \in [Conns -> Connection]
    BY <1>0, <2>1 DEF TypeOK, Connection, NoConn
  <2>3. TypeOK'
    BY <1>0, <2>1, <2>2 DEF TypeOK, Connection
  <2>4. Ownership'
    <3>1. \A c \in Conns : conn'[c] = NoConn
      BY <1>0, <1>1, <2>1 DEF IndInv, TypeOK, Ownership, Known
    <3>2. \A c \in Conns : tick[c] = NoTick
      BY <1>1, <1>0 DEF IndInv, Ownership, Known
    <3>3. QED BY <1>0, <1>1, <2>1, <3>1, <3>2 DEF IndInv, Ownership, Known, Finished
  <2>5. Progress'
    BY <1>0, <1>1, <1>2, <2>1 DEF IndInv, Ownership, Progress, Subscribing
  <2>6. FeedComplete' /\ ClosedChannelUnused'
    BY <1>0, <2>1 DEF IndInv, FeedComplete, ClosedChannelUnused
  <2>7. QED BY <2>3, <2>4, <2>5, <2>6 DEF IndInv
<1>3. CASE ~clientClosed
  <2>1. /\ wsClient' = worker.conn /\ isConnected' = TRUE /\ conn' = conn
        /\ Goto("reset")
    BY <1>3 DEF Adopt
  <2>2. worker' \in Worker /\ worker'.pc = "reset" /\ worker'.sym = worker.sym
    BY <1>0, <2>1, Moved DEF Pcs
  <2>3. TypeOK'
    BY <1>0, <1>1, <2>1, <2>2 DEF TypeOK
  <2>4. Ownership'
    BY <1>0, <1>1, <1>3, <2>1, <2>2 DEF IndInv, Ownership, Known, Finished, NoTick
  <2>5. Progress'
    BY <1>0, <1>1, <2>1, <2>2 DEF IndInv, Progress, Subscribing
  <2>6. FeedComplete' /\ ClosedChannelUnused'
    BY <1>0, <2>2 DEF IndInv, FeedComplete, ClosedChannelUnused
  <2>7. QED BY <2>3, <2>4, <2>5, <2>6 DEF IndInv
<1>4. QED BY <1>2, <1>3

LEMMA CloseOldStep ==
  ASSUME IndInv, CloseOld
  PROVE  IndInv'
<1>0. /\ TypeOK /\ worker.pc = "closeOld" /\ wsClient = None
      /\ UNCHANGED <<tick, client, service, overdue, process>>
      /\ worker.conn \in Conns => tick[worker.conn] = NoTick
      /\ \A c \in Conns : conn'[c] = IF c = worker.conn THEN NoConn ELSE conn[c]
  BY DEF IndInv, CloseOld, Ownership
<1> USE DEF client, service, process
<1>1. worker' \in Worker /\ worker'.pc = "dial" /\ worker'.sym = worker.sym
  BY <1>0, Moved DEF CloseOld, Pcs
<1>2. \A c \in Conns : conn'[c] = NoConn /\ tick[c] = NoTick
  BY <1>0 DEF IndInv, Ownership, Known
<1>3. conn' \in [Conns -> Connection]
  <2>1. NoConn \in Connection
    BY DEF NoConn, Connection
  <2>2. QED BY <1>0, <2>1 DEF CloseOld, TypeOK, Connection
<1>4. TypeOK'
  BY <1>0, <1>1, <1>3 DEF TypeOK, Connection
<1>5. Ownership'
  BY <1>0, <1>1, <1>2 DEF IndInv, Ownership, Known, Finished
<1>6. Progress'
  BY <1>0, <1>1 DEF IndInv, Progress, Subscribing
<1>7. FeedComplete' /\ ClosedChannelUnused'
  BY <1>0, <1>1 DEF IndInv, FeedComplete, ClosedChannelUnused
<1>8. QED BY <1>4, <1>5, <1>6, <1>7 DEF IndInv

LEMMA DialStep ==
  ASSUME IndInv, Dial
  PROVE  IndInv'
<1>0. /\ TypeOK /\ worker.pc = "dial" /\ wsClient = None
      /\ UNCHANGED <<tick, client, service, overdue, process>>
  BY DEF IndInv, Dial, Ownership
<1>1. PICK c \in Conns :
        /\ conn[c] = NoConn /\ conn' = [conn EXCEPT ![c] = NewConn]
        /\ worker' = [worker EXCEPT !.pc = "adopt", !.conn = c]
  BY DEF Dial
<1> USE DEF client, service, process
<1>2. /\ worker' \in Worker /\ worker'.pc = "adopt" /\ worker'.conn = c
      /\ worker'.sym = worker.sym
  BY <1>0, <1>1 DEF TypeOK, Worker
<1>3. NewConn \in Connection /\ NewConn # NoConn /\ NewConn.handler = FALSE
  BY DEF NewConn, NoConn, Connection
<1>4. TypeOK'
  BY <1>0, <1>1, <1>2, <1>3 DEF TypeOK, Connection
<1>5. Ownership'
  <2>1. \A d \in Conns : conn[d] = NoConn
    BY <1>0 DEF IndInv, Ownership, Known
  <2>2. \A d \in Conns : tick[d] = NoTick
    BY <2>1 DEF IndInv, Ownership
  <2>3. \A d \in Conns : conn'[d] = IF d = c THEN NewConn ELSE NoConn
    BY <1>0, <1>1, <2>1 DEF TypeOK
  <2>4. QED BY <1>0, <1>1, <1>2, <1>3, <2>2, <2>3 DEF IndInv, Ownership, Known, Finished
<1>6. Progress'
  BY <1>0, <1>2 DEF IndInv, Progress, Subscribing
<1>7. FeedComplete' /\ ClosedChannelUnused'
  BY <1>0, <1>2 DEF IndInv, FeedComplete, ClosedChannelUnused
<1>8. QED BY <1>4, <1>5, <1>6, <1>7 DEF IndInv

LEMMA ResetCallbacksStep ==
  ASSUME IndInv, ResetCallbacks
  PROVE  IndInv'
<1>0. /\ TypeOK /\ worker.pc = "reset" /\ worker.sym = None
      /\ UNCHANGED <<conn, tick, client, overdue, process>>
      /\ callbacksInit' = FALSE /\ callbacks' = {}
  BY DEF IndInv, ResetCallbacks, Progress
<1> USE DEF client, process
<1>1. /\ worker' \in Worker /\ worker'.pc = "subscribe" /\ worker'.sym = None
      /\ worker'.todo = Symbols /\ worker'.failed = FALSE
  BY <1>0, Started DEF ResetCallbacks
<1>2. TypeOK'
  BY <1>0, <1>1 DEF TypeOK
<1>3. Ownership'
  BY <1>0, <1>1 DEF IndInv, Ownership, Known, Finished
<1>4. Progress'
  <2>1. Symbols \ (worker'.todo \cup {worker'.sym}) = {}
    BY <1>1
  <2>2. QED BY <1>0, <1>1, <2>1 DEF IndInv, Progress, Subscribing
<1>5. FeedComplete' /\ ClosedChannelUnused'
  BY <1>0, <1>1 DEF IndInv, FeedComplete, ClosedChannelUnused
<1>6. QED BY <1>2, <1>3, <1>4, <1>5 DEF IndInv

\* A failed connection, or the end of a wait.
LEMMA WaitStep ==
  ASSUME IndInv, DialFails \/ EndWait
  PROVE  IndInv'
<1>0. /\ TypeOK /\ worker.pc \in {"dial", "wait"}
      /\ UNCHANGED <<conn, tick, client, service, overdue, process>>
  BY DEF IndInv, DialFails, EndWait
<1> USE DEF client, service, process
<1>1. /\ worker' \in Worker /\ worker'.sym = worker.sym
      /\ \/ worker.pc = "dial" /\ worker'.pc = "wait"
         \/ worker.pc = "wait" /\ worker'.pc \in {"check", "done"}
  <2>1. CASE DialFails
    BY <1>0, <2>1 DEF DialFails, Failed, TypeOK, Worker
  <2>2. CASE EndWait
    BY <1>0, <2>2, Moved DEF EndWait, Pcs
  <2>3. QED BY <2>1, <2>2
<1>2. TypeOK'
  BY <1>0, <1>1 DEF TypeOK
<1>3. Ownership'
  BY <1>0, <1>1 DEF IndInv, Ownership, Known, Finished
<1>4. Progress'
  BY <1>0, <1>1 DEF IndInv, Progress, Subscribing, Ownership
<1>5. FeedComplete' /\ ClosedChannelUnused'
  BY <1>0, <1>1 DEF IndInv, FeedComplete, ClosedChannelUnused
<1>6. QED BY <1>2, <1>3, <1>4, <1>5 DEF IndInv

-----------------------------------------------------------------------------
(* The subscriptions                                                       *)

LEMMA StartSubscriptionStep ==
  ASSUME IndInv, engine # "closing", StartSubscription
  PROVE  IndInv'
<1>0. /\ TypeOK /\ worker.pc = "subscribe"
      /\ UNCHANGED <<conn, tick, client, overdue, process>>
  BY DEF IndInv, StartSubscription
<1>1. PICK s \in worker.todo :
        IF isConnected
        THEN /\ worker' = [worker EXCEPT !.todo = @ \ {s}, !.sym = s,
                                         !.pc = IF callbacksInit THEN "register" ELSE "install"]
             /\ callbacksInit' = TRUE
             /\ callbacks' = IF callbacksInit THEN callbacks ELSE {}
        ELSE /\ worker' = [worker EXCEPT !.todo = @ \ {s}, !.failed = TRUE]
             /\ UNCHANGED service
  BY DEF StartSubscription
<1>2. s \in Symbols /\ worker \in Worker
  BY <1>0, <1>1 DEF TypeOK, Worker
<1> USE DEF client, service, process
<1>3. CASE isConnected
  <2>1. /\ worker' \in Worker /\ worker'.sym = s /\ worker'.todo = worker.todo \ {s}
        /\ worker'.failed = worker.failed
        /\ worker'.pc = IF callbacksInit THEN "register" ELSE "install"
    <3>1. CASE callbacksInit
      <4>1. worker' = [worker EXCEPT !.todo = @ \ {s}, !.sym = s, !.pc = "register"]
        BY <1>1, <1>3, <3>1
      <4>2. QED BY <1>2, <3>1, <4>1 DEF Worker
    <3>2. CASE ~callbacksInit
      <4>1. worker' = [worker EXCEPT !.todo = @ \ {s}, !.sym = s, !.pc = "install"]
        BY <1>1, <1>3, <3>2
      <4>2. QED BY <1>2, <3>2, <4>1 DEF Worker
    <3>3. QED BY <3>1, <3>2
  <2>2. callbacksInit' = TRUE /\ callbacks' \subseteq Symbols
        /\ (callbacksInit => callbacks' = callbacks)
    BY <1>0, <1>1, <1>3 DEF TypeOK
  <2>3. TypeOK'
    BY <1>0, <2>1, <2>2 DEF TypeOK
  <2>4. Ownership'
    BY <1>0, <2>1 DEF IndInv, Ownership, Known, Finished
  <2>5. worker.sym = None /\ wsClient # None
    BY <1>0, <1>3 DEF IndInv, Progress, Ownership
  <2>6. ~callbacksInit /\ ~worker.failed /\ ~clientClosed => Symbols \ worker.todo = {}
    BY <1>0, <1>3, <2>5 DEF IndInv, Progress, Subscribing
  <2>7. Progress'
    <3>1. CASE callbacksInit
      BY <1>0, <1>2, <1>3, <2>1, <2>2, <2>5, <3>1 DEF IndInv, Progress, Subscribing
    <3>2. CASE ~callbacksInit
      BY <1>0, <1>2, <1>3, <2>1, <2>2, <2>5, <2>6, <3>2 DEF IndInv, Progress, Subscribing
    <3>3. QED BY <3>1, <3>2
  <2>8. FeedComplete' /\ ClosedChannelUnused'
    BY <1>0, <2>1 DEF IndInv, FeedComplete, ClosedChannelUnused
  <2>9. QED BY <2>3, <2>4, <2>7, <2>8 DEF IndInv
<1>4. CASE ~isConnected
  <2>1. /\ worker' \in Worker /\ worker'.pc = "subscribe" /\ worker'.failed = TRUE
        /\ worker'.sym = worker.sym /\ UNCHANGED service
    BY <1>0, <1>1, <1>2, <1>4 DEF Worker
  <2>2. TypeOK'
    BY <1>0, <2>1 DEF TypeOK
  <2>3. Ownership'
    BY <1>0, <2>1 DEF IndInv, Ownership, Known, Finished
  <2>4. Progress'
    BY <1>0, <2>1 DEF IndInv, Progress, Subscribing
  <2>5. FeedComplete' /\ ClosedChannelUnused'
    BY <1>0, <2>1 DEF IndInv, FeedComplete, ClosedChannelUnused
  <2>6. QED BY <2>2, <2>3, <2>4, <2>5 DEF IndInv
<1>5. QED BY <1>3, <1>4

LEMMA TallyStep ==
  ASSUME IndInv, engine # "closing", Tally
  PROVE  IndInv'
<1>0. /\ TypeOK /\ worker.pc = "subscribe" /\ worker.todo = {}
      /\ UNCHANGED <<conn, tick, wsClient, clientClosed, service, process>>
  BY DEF IndInv, Tally
<1> USE DEF service, process
<1>1. CASE worker.failed
  <2>1. isConnected' = FALSE /\ overdue' = overdue /\ Goto("wait")
    BY <1>1 DEF Tally
  <2>2. worker' \in Worker /\ worker'.pc = "wait" /\ worker'.sym = worker.sym
    BY <1>0, <2>1, Moved DEF Pcs
  <2>3. TypeOK'
    BY <1>0, <2>1, <2>2 DEF TypeOK
  <2>4. Ownership'
    BY <1>0, <2>1, <2>2 DEF IndInv, Ownership, Known, Finished
  <2>5. Progress'
    BY <1>0, <2>1, <2>2 DEF IndInv, Progress, Subscribing
  <2>6. FeedComplete' /\ ClosedChannelUnused'
    BY <1>0, <2>2 DEF IndInv, FeedComplete, ClosedChannelUnused
  <2>7. QED BY <2>3, <2>4, <2>5, <2>6 DEF IndInv
<1>2. CASE ~worker.failed
  <2>1. isConnected' = isConnected /\ overdue' = FALSE /\ Goto("monitor")
    BY <1>2 DEF Tally
  <2>2. worker' \in Worker /\ worker'.pc = "monitor" /\ worker'.sym = worker.sym
    BY <1>0, <2>1, Moved DEF Pcs
  <2>3. TypeOK'
    BY <1>0, <2>1, <2>2 DEF TypeOK
  <2>4. Ownership'
    BY <1>0, <2>1, <2>2 DEF IndInv, Ownership, Known, Finished
  <2>5. Progress'
    BY <1>0, <2>1, <2>2 DEF IndInv, Progress, Subscribing
  <2>6. ASSUME isConnected, engine \in {"running", "cancelled"}
        PROVE  /\ wsClient \in Conns /\ conn[wsClient].handler
               /\ callbacks = Symbols
               /\ conn[wsClient].life = "open" => conn[wsClient].subs = Symbols
    <3>1. ~clientClosed /\ wsClient \in Conns /\ wsClient # None
      BY <1>0, <2>6 DEF IndInv, Ownership, TypeOK
    <3>2. Symbols \ (worker.todo \cup {worker.sym}) = Symbols
      BY <1>0 DEF IndInv, Progress
    <3>3. /\ Symbols \subseteq callbacks /\ callbacksInit
          /\ conn[wsClient].life = "open" => Symbols \subseteq conn[wsClient].subs
      BY <1>0, <1>2, <2>6, <3>1, <3>2 DEF IndInv, Progress, Subscribing
    <3>4. conn[wsClient].handler
      BY <1>0, <3>1, <3>3 DEF IndInv, Progress, Subscribing
    <3>5. callbacks \subseteq Symbols /\ conn[wsClient].subs \subseteq Symbols
      BY <1>0, <3>1 DEF TypeOK
    <3>6. QED BY <3>1, <3>3, <3>4, <3>5
  <2>7. FeedComplete' /\ ClosedChannelUnused'
    BY <1>0, <2>1, <2>6 DEF IndInv, FeedComplete, ClosedChannelUnused
  <2>8. QED BY <2>3, <2>4, <2>5, <2>7 DEF IndInv
<1>3. QED BY <1>1, <1>2

LEMMA MonitorStep ==
  ASSUME IndInv, engine # "closing", Monitor
  PROVE  IndInv'
<1>0. /\ TypeOK /\ worker.pc = "monitor"
      /\ UNCHANGED <<conn, tick, wsClient, clientClosed, service, overdue, process>>
  BY DEF IndInv, Monitor
<1> USE DEF service, process
<1>1. /\ Goto("done") \/ Goto("check")
      /\ isConnected' \in BOOLEAN /\ (isConnected' => isConnected)
      /\ Goto("done") \/ ~isConnected'
  <2>1. isConnected \in BOOLEAN
    BY <1>0 DEF TypeOK
  <2>2. CASE Goto("done") /\ UNCHANGED isConnected
    BY <2>1, <2>2
  <2>3. CASE Goto("check") /\ ~isConnected /\ UNCHANGED isConnected
    BY <2>1, <2>3
  <2>4. CASE Goto("check") /\ isConnected' = FALSE
    BY <2>4
  <2>5. QED BY <2>2, <2>3, <2>4 DEF Monitor
<1>2. /\ worker' \in Worker /\ worker'.pc \in {"done", "check"} /\ worker'.sym = worker.sym
      /\ worker'.pc = "done" \/ ~isConnected'
  <2>1. CASE Goto("done")
    BY <1>0, <2>1, Moved DEF Pcs
  <2>2. CASE Goto("check") /\ ~isConnected'
    BY <1>0, <2>2, Moved DEF Pcs
  <2>3. QED BY <1>1, <2>1, <2>2
<1>3. TypeOK'
  BY <1>0, <1>1, <1>2 DEF TypeOK
<1>4. Ownership'
  BY <1>0, <1>1, <1>2 DEF IndInv, Ownership, Known, Finished
<1>5. Progress'
  BY <1>0, <1>2 DEF IndInv, Progress, Subscribing
<1>6. FeedComplete' /\ ClosedChannelUnused'
  BY <1>0, <1>2 DEF IndInv, FeedComplete, ClosedChannelUnused
<1>7. QED BY <1>3, <1>4, <1>5, <1>6 DEF IndInv

LEMMA InstallHandlerStep ==
  ASSUME IndInv, InstallHandler
  PROVE  IndInv'
<1>0. /\ TypeOK /\ worker.pc = "install"
      /\ UNCHANGED <<tick, client, service, overdue, process>>
  BY DEF IndInv, InstallHandler
<1> USE DEF client, service, process
<1>1. CASE wsClient = None
  <2>1. conn' = conn /\ worker' = [worker EXCEPT !.pc = "panicked"]
    BY <1>1 DEF InstallHandler, Panic
  <2>2. worker' \in Worker /\ worker'.pc = "panicked"
    BY <1>0, <2>1 DEF TypeOK, Worker
  <2>3. TypeOK'
    BY <1>0, <2>1, <2>2 DEF TypeOK
  <2>4. Ownership'
    BY <1>0, <2>1, <2>2 DEF IndInv, Ownership, Known, Finished
  <2>5. Progress'
    BY <1>0, <2>2 DEF IndInv, Progress, Subscribing
  <2>6. FeedComplete' /\ ClosedChannelUnused'
    BY <1>0, <2>2 DEF IndInv, FeedComplete, ClosedChannelUnused
  <2>7. QED BY <2>3, <2>4, <2>5, <2>6 DEF IndInv
<1>2. CASE wsClient # None
  <2>1. wsClient \in Conns /\ conn[wsClient] # NoConn
    BY <1>0, <1>2 DEF IndInv, Ownership, TypeOK
  <2>2. conn' = [conn EXCEPT ![wsClient].handler = TRUE] /\ Goto("register")
    BY <1>2 DEF InstallHandler
  <2>3. /\ worker' \in Worker /\ worker'.pc = "register" /\ worker'.sym = worker.sym
        /\ worker'.conn = worker.conn /\ worker'.todo = worker.todo /\ worker'.failed = worker.failed
    BY <1>0, <2>2, Moved DEF Pcs
  <2>4. /\ conn' \in [Conns -> Connection] /\ conn'[wsClient].handler = TRUE
        /\ conn'[wsClient].life = conn[wsClient].life /\ conn'[wsClient].subs = conn[wsClient].subs
        /\ \A c \in Conns : c # wsClient => conn'[c] = conn[c]
    <3> DEFINE new == [conn[wsClient] EXCEPT !.handler = TRUE]
    <3>1. conn \in [Conns -> Connection] /\ conn[wsClient] \in Connection
      BY <1>0, <2>1 DEF TypeOK, Connection
    <3>2. /\ new \in Connection /\ new.handler = TRUE
          /\ new.life = conn[wsClient].life /\ new.subs = conn[wsClient].subs
      BY <3>1 DEF Connection
    <3>3. conn' = [conn EXCEPT ![wsClient] = new]
      BY <2>2
    <3> HIDE DEF new
    <3>4. QED BY <2>1, <3>1, <3>2, <3>3
  <2>5. TypeOK'
    BY <1>0, <2>3, <2>4 DEF TypeOK, Connection
  <2>6. Ownership'
    <3>1. conn'[wsClient] # NoConn
      BY <1>0, <2>1, <2>4 DEF NoConn
    <3>2. QED BY <1>0, <1>2, <2>1, <2>3, <2>4, <3>1 DEF IndInv, Ownership, Known, Finished
  <2>7. callbacksInit
    BY <1>0 DEF IndInv, Progress
  <2>8. Progress'
    BY <1>0, <1>2, <2>1, <2>3, <2>4, <2>7 DEF IndInv, Progress, Subscribing
  <2>9. FeedComplete' /\ ClosedChannelUnused'
    BY <1>0, <2>3 DEF IndInv, FeedComplete, ClosedChannelUnused
  <2>10. QED BY <2>5, <2>6, <2>8, <2>9 DEF IndInv
<1>3. QED BY <1>1, <1>2

LEMMA RegisterCallbackStep ==
  ASSUME IndInv, RegisterCallback
  PROVE  IndInv'
<1>0. /\ TypeOK /\ worker.pc = "register" /\ worker.sym \in Symbols
      /\ UNCHANGED <<conn, tick, client, callbacksInit, overdue, process>>
      /\ callbacks' = callbacks \cup {worker.sym}
  BY DEF IndInv, RegisterCallback, Progress
<1>1. /\ worker' \in Worker /\ worker'.pc = "request" /\ worker'.sym = worker.sym
      /\ worker'.conn = worker.conn /\ worker'.todo = worker.todo /\ worker'.failed = worker.failed
  BY <1>0, Moved DEF RegisterCallback, Pcs
<1> USE DEF client, process
<1>2. TypeOK'
  BY <1>0, <1>1 DEF TypeOK
<1>3. Ownership'
  BY <1>0, <1>1 DEF IndInv, Ownership, Known, Finished
<1>4. Progress'
  BY <1>0, <1>1 DEF IndInv, Progress, Subscribing
<1>5. FeedComplete' /\ ClosedChannelUnused'
  BY <1>0, <1>1 DEF IndInv, FeedComplete, ClosedChannelUnused
<1>6. QED BY <1>2, <1>3, <1>4, <1>5 DEF IndInv

LEMMA RequestSubscriptionStep ==
  ASSUME IndInv, RequestSubscription
  PROVE  IndInv'
<1>0. /\ TypeOK /\ worker.pc = "request" /\ worker.sym \in Symbols
      /\ UNCHANGED <<tick, client, service, overdue, process>>
  BY DEF IndInv, RequestSubscription, Progress
<1> USE DEF client, service, process
<1>1. CASE wsClient = None
  <2>1. conn' = conn /\ worker' = [worker EXCEPT !.pc = "panicked"]
    BY <1>1 DEF RequestSubscription, Panic
  <2>2. worker' \in Worker /\ worker'.pc = "panicked"
    BY <1>0, <2>1 DEF TypeOK, Worker
  <2>3. TypeOK'
    BY <1>0, <2>1, <2>2 DEF TypeOK
  <2>4. Ownership'
    BY <1>0, <2>1, <2>2 DEF IndInv, Ownership, Known, Finished
  <2>5. Progress'
    BY <1>0, <2>2 DEF IndInv, Progress, Subscribing
  <2>6. FeedComplete' /\ ClosedChannelUnused'
    BY <1>0, <2>2 DEF IndInv, FeedComplete, ClosedChannelUnused
  <2>7. QED BY <2>3, <2>4, <2>5, <2>6 DEF IndInv
<1>2. CASE wsClient # None
  <2>1. wsClient \in Conns /\ conn[wsClient] # NoConn
    BY <1>0, <1>2 DEF IndInv, Ownership, TypeOK
  <2>2. /\ conn' = IF conn[wsClient].life = "open"
                   THEN [conn EXCEPT ![wsClient].subs = @ \cup {worker.sym}] ELSE conn
        /\ worker' = [worker EXCEPT !.pc = "subscribe", !.sym = None, !.failed = @ \/ ~TRUE]
    BY <1>2 DEF RequestSubscription, Subscribed
  <2>3. /\ worker' \in Worker /\ worker'.pc = "subscribe" /\ worker'.sym = None
        /\ worker'.todo = worker.todo /\ worker'.failed = worker.failed
    BY <1>0, <2>2 DEF TypeOK, Worker
  <2>4. /\ conn' \in [Conns -> Connection] /\ conn'[wsClient].handler = conn[wsClient].handler
        /\ conn'[wsClient].life = conn[wsClient].life
        /\ conn[wsClient].life = "open" =>
             conn'[wsClient].subs = conn[wsClient].subs \cup {worker.sym}
        /\ \A c \in Conns : c # wsClient => conn'[c] = conn[c]
    <3> DEFINE new == [conn[wsClient] EXCEPT !.subs = @ \cup {worker.sym}]
    <3>1. conn \in [Conns -> Connection] /\ conn[wsClient] \in Connection
      BY <1>0, <2>1 DEF TypeOK, Connection
    <3>2. /\ new \in Connection /\ new.handler = conn[wsClient].handler
          /\ new.life = conn[wsClient].life /\ new.subs = conn[wsClient].subs \cup {worker.sym}
      BY <1>0, <3>1 DEF Connection
    <3>3. conn' = IF conn[wsClient].life = "open" THEN [conn EXCEPT ![wsClient] = new] ELSE conn
      BY <2>2
    <3> HIDE DEF new
    <3>4. QED BY <2>1, <3>1, <3>2, <3>3
  <2>5. TypeOK'
    BY <1>0, <2>3, <2>4 DEF TypeOK, Connection
  <2>6. Ownership'
    <3>1. conn'[wsClient] # NoConn
      <4>1. conn[wsClient].life = "open" => conn'[wsClient].life = "open"
        BY <2>4
      <4>2. conn[wsClient].life # "open" => conn' = conn
        BY <2>2
      <4>3. QED BY <2>1, <4>1, <4>2 DEF NoConn
    <3>2. QED BY <1>0, <1>2, <2>1, <2>3, <2>4, <3>1 DEF IndInv, Ownership, Known, Finished
  <2>7. Progress'
    BY <1>0, <1>2, <2>1, <2>3, <2>4 DEF IndInv, Progress, Subscribing
  <2>8. FeedComplete' /\ ClosedChannelUnused'
    BY <1>0, <2>3 DEF IndInv, FeedComplete, ClosedChannelUnused
  <2>9. QED BY <2>5, <2>6, <2>7, <2>8 DEF IndInv
<1>3. QED BY <1>1, <1>2

LEMMA RequestFailsStep ==
  ASSUME IndInv, RequestFails
  PROVE  IndInv'
<1>0. /\ TypeOK /\ worker.pc = "request"
      /\ UNCHANGED <<conn, tick, client, service, overdue, process>>
  BY DEF IndInv, RequestFails
<1> USE DEF client, service, process
<1>1. /\ worker' \in Worker /\ worker'.pc = "subscribe" /\ worker'.sym = None
      /\ worker'.failed = TRUE
  BY <1>0 DEF RequestFails, Subscribed, TypeOK, Worker
<1>2. TypeOK'
  BY <1>0, <1>1 DEF TypeOK
<1>3. Ownership'
  BY <1>0, <1>1 DEF IndInv, Ownership, Known, Finished
<1>4. Progress'
  BY <1>0, <1>1 DEF IndInv, Progress, Subscribing
<1>5. FeedComplete' /\ ClosedChannelUnused'
  BY <1>0, <1>1 DEF IndInv, FeedComplete, ClosedChannelUnused
<1>6. QED BY <1>2, <1>3, <1>4, <1>5 DEF IndInv

-----------------------------------------------------------------------------
(* Ticks, connections and time                                             *)

\* Time, the consumer of the ticks, and the goroutines that save them.
LEMMA QuietStep ==
  ASSUME IndInv, Consume \/ SaveEnds \/ BecomesOverdue
  PROVE  IndInv'
<1>0. TypeOK /\ UNCHANGED <<conn, tick, client, service, worker, engine, gaveUp, crashed>>
  BY DEF IndInv, Consume, SaveEnds, BecomesOverdue, process
<1> USE DEF client, service
<1>1. queued' \in 0 .. Capacity /\ saves' \in 0 .. MaxSaves /\ overdue' \in BOOLEAN
  <2>1. CASE Consume
    BY <1>0, <2>1 DEF TypeOK, Consume
  <2>2. CASE SaveEnds
    BY <1>0, <2>2 DEF TypeOK, SaveEnds
  <2>3. CASE BecomesOverdue
    BY <1>0, <2>3 DEF TypeOK, BecomesOverdue, process
  <2>4. QED BY <2>1, <2>2, <2>3
<1>2. TypeOK'
  BY <1>0, <1>1 DEF TypeOK
<1>3. Ownership' /\ Progress'
  BY <1>0 DEF IndInv, Ownership, Known, Finished, Progress, Subscribing
<1>4. FeedComplete' /\ ClosedChannelUnused'
  BY <1>0 DEF IndInv, FeedComplete, ClosedChannelUnused
<1>5. QED BY <1>2, <1>3, <1>4 DEF IndInv

\* The handler of one connection takes or drops a message, or looks it up.
LEMMA TickStep ==
  ASSUME IndInv, NEW c \in Conns, NEW t \in Message,
         tick' = [tick EXCEPT ![c] = t],
         t = NoTick \/ (conn[c] # NoConn /\ t.sym \in Symbols
                        /\ (worker.pc = "adopt" => c # worker.conn)),
         UNCHANGED <<conn, client, service, worker>>
  PROVE  /\ tick' \in [Conns -> Message]
         /\ UNCHANGED <<engine, gaveUp>> => Ownership'
         /\ UNCHANGED engine => Progress' /\ FeedComplete'
<1> USE DEF client, service
<1>1. tick' \in [Conns -> Message]
  BY DEF IndInv, TypeOK, Message
<1>2. /\ tick'[c] = t
      /\ \A d \in Conns \ {c} : tick'[d] = tick[d]
  BY DEF IndInv, TypeOK
<1>3. worker.pc = "adopt" => tick'[worker.conn] = NoTick
  BY <1>2 DEF IndInv, Ownership
<1>4. UNCHANGED <<engine, gaveUp>> => Ownership'
  BY <1>2, <1>3 DEF IndInv, Ownership, Known, Finished
<1>5. UNCHANGED engine => Progress' /\ FeedComplete'
  BY DEF IndInv, Progress, Subscribing, FeedComplete
<1>6. QED BY <1>1, <1>4, <1>5

LEMMA ArrivesStep ==
  ASSUME IndInv, NEW c \in Conns, Arrives(c)
  PROVE  IndInv'
<1>0. /\ TypeOK /\ conn[c].life = "open" /\ conn[c].handler
      /\ UNCHANGED <<conn, client, service, worker, overdue, process>>
  BY DEF IndInv, Arrives
<1>1. PICK s \in conn[c].subs : tick' = [tick EXCEPT ![c] = [sym |-> s, pc |-> "lookup"]]
  BY DEF Arrives
<1>2. s \in Symbols
  BY <1>0, <1>1 DEF TypeOK
<1>3. conn[c] # NoConn
  BY <1>0 DEF NoConn
<1>4. worker.pc = "adopt" => c # worker.conn
  BY <1>0 DEF IndInv, Ownership
<1>5. [sym |-> s, pc |-> "lookup"] \in Message
  BY <1>2 DEF Message
<1> USE DEF client, service, process
<1>6. tick' \in [Conns -> Message] /\ Ownership' /\ Progress' /\ FeedComplete'
  BY <1>0, <1>1, <1>2, <1>3, <1>4, <1>5, TickStep
<1>7. TypeOK'
  BY <1>0, <1>6 DEF TypeOK, Message
<1>8. ClosedChannelUnused'
  BY <1>0 DEF IndInv, ClosedChannelUnused
<1>9. QED BY <1>6, <1>7, <1>8 DEF IndInv

LEMMA LookUpStep ==
  ASSUME IndInv, NEW c \in Conns, LookUp(c)
  PROVE  IndInv'
<1>0. /\ TypeOK /\ tick[c].pc = "lookup" /\ tick[c] \in Message
      /\ UNCHANGED <<conn, client, service, worker, overdue, queued, engine, gaveUp, crashed>>
  BY DEF IndInv, LookUp, TypeOK, Message
<1> DEFINE kept == [tick[c] EXCEPT !.pc = "send"]
<1>1. tick' = [tick EXCEPT ![c] = kept] \/ tick' = [tick EXCEPT ![c] = NoTick]
  BY DEF LookUp
<1>2. tick[c] # NoTick
  BY <1>0 DEF NoTick
<1>3. conn[c] # NoConn /\ tick[c].sym \in Symbols /\ (worker.pc = "adopt" => c # worker.conn)
  BY <1>2 DEF IndInv, Ownership
<1>4. kept \in Message /\ kept.sym = tick[c].sym /\ NoTick \in Message
  BY <1>0 DEF Message, NoTick
<1>5. saves' \in 0 .. MaxSaves
  BY <1>0 DEF LookUp, SaveMarketData, TypeOK
<1> USE DEF client, service
<1> HIDE DEF kept
<1>6. tick' \in [Conns -> Message] /\ Ownership' /\ Progress' /\ FeedComplete'
  <2>1. CASE tick' = [tick EXCEPT ![c] = kept]
    BY <1>0, <1>3, <1>4, <2>1, TickStep
  <2>2. CASE tick' = [tick EXCEPT ![c] = NoTick]
    BY <1>0, <1>4, <2>2, TickStep
  <2>3. QED BY <1>1, <2>1, <2>2
<1>7. TypeOK'
  BY <1>0, <1>5, <1>6 DEF TypeOK, Message
<1>8. ClosedChannelUnused'
  BY <1>0 DEF IndInv, ClosedChannelUnused
<1>9. QED BY <1>6, <1>7, <1>8 DEF IndInv

\* A connection with a message to send is still held by somebody: at the end only a
\* worker for which StopAll did not wait can hold one.
LEMMA SendStep ==
  ASSUME IndInv, NEW c \in Conns, Send(c)
  PROVE  IndInv'
<1>0. /\ TypeOK /\ tick[c].pc = "send" /\ tick' = [tick EXCEPT ![c] = NoTick] /\ overdue' = FALSE
      /\ UNCHANGED <<conn, client, service, worker, saves, engine, gaveUp>>
  BY DEF IndInv, Send
<1>1. NoTick \in Message
  BY DEF Message, NoTick
<1> USE DEF client, service
<1>2. tick' \in [Conns -> Message] /\ Ownership' /\ Progress' /\ FeedComplete'
  BY <1>0, <1>1, TickStep
<1>3. queued' \in 0 .. Capacity /\ crashed' \in BOOLEAN /\ (crashed' => crashed \/ ChannelClosed)
  <2>1. queued' \in 0 .. Capacity
    BY <1>0 DEF Send, TypeOK
  <2>2. crashed' = crashed \/ (crashed' = TRUE /\ ChannelClosed)
    BY DEF Send
  <2>3. crashed \in BOOLEAN
    BY <1>0 DEF TypeOK
  <2>4. CASE crashed' = crashed
    BY <2>1, <2>3, <2>4
  <2>5. CASE crashed' = TRUE /\ ChannelClosed
    BY <2>1, <2>5
  <2>6. QED BY <2>2, <2>4, <2>5
<1>4. TypeOK'
  BY <1>0, <1>2, <1>3 DEF TypeOK, Message
<1>5. ASSUME ChannelClosed PROVE gaveUp
  <2>1. tick[c] # NoTick
    BY <1>0 DEF NoTick
  <2>2. c \in Known /\ wsClient = None /\ c # None
    BY <1>5, <2>1 DEF IndInv, Ownership, ChannelClosed
  <2>3. ~Finished
    BY <2>2 DEF Known, Finished
  <2>4. QED BY <1>5, <2>3 DEF IndInv, Ownership, ChannelClosed
<1>6. ClosedChannelUnused'
  BY <1>0, <1>3, <1>5 DEF IndInv, ClosedChannelUnused
<1>7. QED BY <1>2, <1>4, <1>6 DEF IndInv

LEMMA DiesStep ==
  ASSUME IndInv, NEW c \in Conns, Dies(c)
  PROVE  IndInv'
<1>0. /\ TypeOK /\ conn[c].life = "open" /\ conn[c] # NoConn
      /\ UNCHANGED <<tick, client, service, worker, overdue, process>>
  BY DEF IndInv, Dies, NoConn
<1> DEFINE dead == [conn[c] EXCEPT !.life = "dead"]
<1>1. conn \in [Conns -> Connection] /\ conn[c] \in Connection
  BY <1>0 DEF TypeOK, Connection
<1>2. /\ dead \in Connection /\ dead.life = "dead"
      /\ dead.handler = conn[c].handler /\ dead.subs = conn[c].subs
  BY <1>1 DEF Connection
<1>3. conn' = [conn EXCEPT ![c] = dead]
  BY DEF Dies
<1> HIDE DEF dead
<1>4. /\ conn' \in [Conns -> Connection] /\ conn'[c] = dead
      /\ \A d \in Conns : d # c => conn'[d] = conn[d]
  BY <1>1, <1>2, <1>3
<1>5. dead # NoConn
  BY <1>2 DEF NoConn
<1> USE DEF client, service, process
<1>6. TypeOK'
  BY <1>0, <1>4 DEF TypeOK, Connection
<1>7. Ownership'
  <2>1. \A d \in Conns : conn[d] = NoConn <=> conn'[d] = NoConn
    BY <1>0, <1>4, <1>5
  <2>2. \A d \in Conns : conn'[d].handler = conn[d].handler
                         /\ (conn[d].life = "closing" => conn'[d].life = "closing")
    BY <1>0, <1>2, <1>4
  <2>3. wsClient # None => wsClient \in Conns
    BY <1>0 DEF TypeOK
  <2>4. QED BY <1>0, <2>1, <2>2, <2>3 DEF IndInv, Ownership, Known, Finished
<1>8. \A d \in Conns : /\ conn'[d].handler = conn[d].handler /\ conn'[d].subs = conn[d].subs
                       /\ conn'[d].life = "open" => conn[d].life = "open"
  BY <1>0, <1>2, <1>4
<1>9. Progress'
  <2>1. wsClient # None => wsClient \in Conns
    BY <1>0 DEF TypeOK
  <2>2. isConnected => wsClient # None
    BY DEF IndInv, Ownership
  <2>3. QED BY <1>0, <1>8, <2>1, <2>2 DEF IndInv, Progress, Subscribing
<1>10. FeedComplete' /\ ClosedChannelUnused'
  BY <1>0, <1>8 DEF IndInv, FeedComplete, ClosedChannelUnused
<1>11. QED BY <1>6, <1>7, <1>9, <1>10 DEF IndInv

-----------------------------------------------------------------------------
(* The shutdown                                                            *)

LEMMA CancelStep ==
  ASSUME IndInv, Cancel
  PROVE  IndInv'
<1>0. /\ TypeOK /\ engine = "running" /\ engine' = "cancelled"
      /\ UNCHANGED <<conn, tick, client, service, worker, overdue, queued, saves, gaveUp, crashed>>
  BY DEF IndInv, Cancel
<1> USE DEF client, service
<1>1. TypeOK'
  BY <1>0 DEF TypeOK
<1>2. Ownership' /\ Progress'
  BY <1>0 DEF IndInv, Ownership, Known, Finished, Progress, Subscribing
<1>3. FeedComplete' /\ ClosedChannelUnused'
  BY <1>0 DEF IndInv, FeedComplete, ClosedChannelUnused
<1>4. QED BY <1>1, <1>2, <1>3 DEF IndInv

LEMMA CloseClientStep ==
  ASSUME IndInv, CloseClient
  PROVE  IndInv'
<1>0. /\ TypeOK /\ engine = "cancelled" /\ engine' = "closing" /\ clientClosed' = TRUE
      /\ UNCHANGED <<tick, wsClient, isConnected, service, worker, overdue, queued, saves,
                     gaveUp, crashed>>
  BY DEF IndInv, CloseClient
<1> USE DEF service
<1>1. /\ conn' \in [Conns -> Connection]
      /\ \A c \in Conns : c # wsClient => conn'[c] = conn[c]
      /\ \A c \in Conns : c = wsClient => conn'[c].life = "closing"
                                          /\ conn'[c].handler = conn[c].handler
  BY <1>0, Closing DEF CloseClient
<1>2. TypeOK'
  BY <1>0, <1>1 DEF TypeOK, Connection
<1>3. Ownership'
  <2>1. \A c \in Conns : c = wsClient => conn[c] # NoConn /\ conn'[c] # NoConn
    BY <1>1 DEF IndInv, Ownership, NoConn
  <2>2. \A c \in Conns : conn[c] = NoConn <=> conn'[c] = NoConn
    BY <1>1, <2>1
  <2>3. worker.pc \in {"closeOld", "adopt"} => wsClient = None
    BY DEF IndInv, Ownership
  <2>4. wsClient # None => wsClient \in Conns
    BY <1>0 DEF TypeOK
  <2>5. QED BY <1>0, <1>1, <2>2, <2>3, <2>4 DEF IndInv, Ownership, Known, Finished
<1>4. Progress'
  BY <1>0, <1>1 DEF IndInv, Progress, Subscribing, TypeOK
<1>5. FeedComplete' /\ ClosedChannelUnused'
  BY <1>0 DEF IndInv, FeedComplete, ClosedChannelUnused
<1>6. QED BY <1>2, <1>3, <1>4, <1>5 DEF IndInv

LEMMA ClientIsClosedStep ==
  ASSUME IndInv, ClientIsClosed
  PROVE  IndInv'
<1>0. /\ TypeOK /\ engine = "closing" /\ engine' = "closed" /\ clientClosed
      /\ wsClient' = None /\ isConnected' = FALSE
      /\ wsClient \in Conns => tick[wsClient] = NoTick
      /\ UNCHANGED <<tick, clientClosed, service, worker, overdue, queued, saves, gaveUp, crashed>>
  BY DEF IndInv, ClientIsClosed, Ownership
<1> USE DEF service
<1>1. /\ \A c \in Conns : conn'[c] = IF c = wsClient THEN NoConn ELSE conn[c]
      /\ conn' \in [Conns -> Connection]
  <2>1. NoConn \in Connection
    BY DEF NoConn, Connection
  <2>2. QED BY <1>0, <2>1 DEF ClientIsClosed, TypeOK, Connection
<1>2. TypeOK'
  BY <1>0, <1>1 DEF TypeOK, Connection
<1>3. Ownership'
  BY <1>0, <1>1 DEF IndInv, Ownership, Known, Finished
<1>4. Progress'
  BY <1>0 DEF IndInv, Progress, Subscribing
<1>5. FeedComplete' /\ ClosedChannelUnused'
  BY <1>0 DEF IndInv, FeedComplete, ClosedChannelUnused
<1>6. QED BY <1>2, <1>3, <1>4, <1>5 DEF IndInv

LEMMA StopAllStep ==
  ASSUME IndInv, ~crashed, StopAll
  PROVE  IndInv'
<1>0. /\ TypeOK /\ engine = "closed" /\ engine' = "stopped" /\ gaveUp' = ~Finished
      /\ UNCHANGED <<conn, tick, client, service, worker, overdue, queued, saves, crashed>>
  BY DEF IndInv, StopAll
<1> USE DEF client, service
<1>1. TypeOK'
  BY <1>0 DEF TypeOK, Finished
<1>2. Ownership'
  <2>1. Finished' = Finished
    BY <1>0 DEF Finished
  <2>2. ~gaveUp' => Finished'
    BY <1>0, <2>1
  <2>3. wsClient = None
    BY <1>0 DEF IndInv, Ownership
  <2>4. QED BY <1>0, <2>2, <2>3 DEF IndInv, Ownership, Known
<1>3. Progress'
  BY <1>0 DEF IndInv, Progress, Subscribing
<1>4. FeedComplete' /\ ClosedChannelUnused'
  BY <1>0 DEF FeedComplete, ClosedChannelUnused
<1>5. QED BY <1>1, <1>2, <1>3, <1>4 DEF IndInv

-----------------------------------------------------------------------------
LEMMA IndInvStep ==
  ASSUME IndInv, [Next]_vars
  PROVE  IndInv'
<1>1. CASE UNCHANGED vars
  BY <1>1 DEF vars, client, service, process, IndInv, TypeOK, Worker, Ownership, Known, Finished,
              Progress, Subscribing, FeedComplete, ClosedChannelUnused
<1>2. CASE ~crashed /\ WorkerStep
  BY <1>2, CheckStep, TakeOldStep, AdoptStep, StartSubscriptionStep, TallyStep, MonitorStep,
     CloseOldStep, DialStep, ResetCallbacksStep, WaitStep, InstallHandlerStep,
     RegisterCallbackStep, RequestSubscriptionStep, RequestFailsStep
  DEF WorkerStep, Unlocked
<1>3. CASE ~crashed /\ (Consume \/ SaveEnds \/ BecomesOverdue \/ Cancel \/ ShutdownStep)
  BY <1>3, QuietStep, CancelStep, CloseClientStep, ClientIsClosedStep, StopAllStep
  DEF ShutdownStep
<1>4. CASE ~crashed /\ \E c \in Conns : Arrives(c) \/ HandlerStep(c) \/ Dies(c)
  BY <1>4, ArrivesStep, LookUpStep, SendStep, DiesStep DEF HandlerStep
<1>5. QED BY <1>1, <1>2, <1>3, <1>4 DEF Next

-----------------------------------------------------------------------------
\* In every reachable state the types, the ownership of connections and the progress of
\* the subscriptions are as IndInv says, for any number of symbols and connections.
THEOREM AlwaysIndInv == Spec => []IndInv
<1>1. Init => IndInv
  BY InitIndInv
<1>2. IndInv /\ [Next]_vars => IndInv'
  BY IndInvStep
<1>3. QED BY <1>1, <1>2, PTL DEF Spec

\* A connection that the worker trusts delivers every symbol, after whatever sequence of
\* losses, failed attempts and partial subscriptions (market_data.go:706).
THEOREM FeedAlwaysComplete == Spec => []FeedComplete
<1>1. IndInv => FeedComplete
  BY DEF IndInv
<1>2. QED BY <1>1, AlwaysIndInv, PTL

\* No connection is left open that nobody will close (client.go:142-144).
THEOREM NoConnectionLeaks == Spec => []NoLeakedConnection
<1>1. IndInv => NoLeakedConnection
  <2> SUFFICES ASSUME IndInv PROVE NoLeakedConnection
    OBVIOUS
  <2>1. {c \in Conns : conn[c] # NoConn} \subseteq Known
    BY DEF IndInv, Ownership
  <2>2. ASSUME engine \in {"closed", "stopped"}, Finished PROVE Known = {None}
    BY <2>2 DEF IndInv, Ownership, Known, Finished
  <2>3. QED BY <2>1, <2>2 DEF NoLeakedConnection
<1>2. QED BY <1>1, AlwaysIndInv, PTL

\* A send on the closed channel needs a StopAll that gave up (engine.go:262-265).
THEOREM ClosedChannelNeverUsed == Spec => []ClosedChannelUnused
<1>1. IndInv => ClosedChannelUnused
  BY DEF IndInv
<1>2. QED BY <1>1, AlwaysIndInv, PTL

\* The worker is lost, which nobody starts again, only when the client has been closed:
\* in operation it holds a connection wherever it uses one without the lock.
THEOREM WorkerLostAtShutdownOnly == Spec => []PanicsAtShutdownOnly
<1>1. Init => PanicsAtShutdownOnly
  BY DEF Init, PanicsAtShutdownOnly
<1>2. IndInv /\ PanicsAtShutdownOnly /\ [Next]_vars => PanicsAtShutdownOnly'
  <2> SUFFICES ASSUME IndInv, PanicsAtShutdownOnly, [Next]_vars, worker'.pc = "panicked"
               PROVE  clientClosed'
    BY DEF PanicsAtShutdownOnly
  <2>1. clientClosed => clientClosed'
    BY DEF Next, vars, client, WorkerStep, ShutdownStep, HandlerStep, process,
           Check, TakeOld, Adopt, StartSubscription, Tally, Monitor, CloseOld, Dial, DialFails,
           ResetCallbacks, EndWait, InstallHandler, RegisterCallback, RequestSubscription,
           RequestFails, Consume, SaveEnds, BecomesOverdue, Cancel, CloseClient,
           ClientIsClosed, StopAll, Arrives, LookUp, Send, Dies
  <2>2. CASE InstallHandler \/ RequestSubscription
    <3>1. worker.pc \in {"install", "request"}
      BY <2>2 DEF InstallHandler, RequestSubscription
    <3>2. CASE wsClient = None
      BY <2>1, <3>1, <3>2 DEF IndInv, Progress
    <3>3. CASE wsClient # None
      <4>1. worker \in Worker
        BY DEF IndInv, TypeOK
      <4>2. worker'.pc \in {"register", "subscribe"}
        BY <2>2, <3>3, <4>1 DEF InstallHandler, RequestSubscription, Goto, Subscribed, Worker
      <4>3. QED BY <4>2
    <3>4. QED BY <3>2, <3>3
  <2>3. CASE ~(InstallHandler \/ RequestSubscription)
    <3>1. worker.pc = "panicked"
      BY <2>3 DEF IndInv, TypeOK, Worker, Next, vars, client, service, process, WorkerStep, ShutdownStep,
           HandlerStep, Check, TakeOld, Adopt, StartSubscription, Tally, Monitor, CloseOld, Dial,
           DialFails, ResetCallbacks, EndWait, RegisterCallback, RequestFails, Goto, Failed,
           StartSubscribing, Subscribed, Consume, SaveEnds, BecomesOverdue, Cancel, CloseClient,
           ClientIsClosed, StopAll, Arrives, LookUp, Send, Dies
    <3>2. QED BY <2>1, <3>1 DEF PanicsAtShutdownOnly
  <2>4. QED BY <2>2, <2>3
<1>3. QED BY <1>1, <1>2, AlwaysIndInv, PTL DEF Spec
=============================================================================
