----------------------------- MODULE BleLifecycle -----------------------------
(***************************************************************************)
(* The life of the BLE link below the channels of RelayChannel             *)
(* (src/src/connectivity/ble_relay.cpp): the coordinator's begin, stop and *)
(* shutdown, the worker task, the callbacks of the NimBLE host task and    *)
(* the callers that queue frames.                                          *)
(*                                                                         *)
(* Four kinds of task meet here.  StateLock (a spinlock) guards `st'; the  *)
(* radio calls are made outside of it, by the holder of ioMutex.  A step   *)
(* is one StateLock section or one NimBLE call.  NimBLE runs its callbacks *)
(* one at a time in its host task.  A handle is a small number that the    *)
(* controller gives to the next connection once it is free.                *)
(***************************************************************************)
EXTENDS Naturals, Sequences, FiniteSets

CONSTANTS
  Handles,    \* connection handles
  None,       \* BLE_HS_CONN_HANDLE_NONE
  QueueSize,  \* kQueueSize
  MaxConns,   \* bound: connections
  MaxGen      \* bound: no new fault and no call once linkGeneration is there

ASSUME LifecycleAssumption ==
  /\ None \notin Handles
  /\ QueueSize \in Nat \ {0} /\ MaxConns \in Nat /\ MaxGen \in Nat

VARIABLES
  st,      \* what StateLock guards, see Fresh
  radio,   \* NimBLE: [adv, conn, closing]: advertising, the connection behind
           \* each handle (0: none), handles whose disconnection was requested
  conns,   \* connections so far
  stack,   \* [init, failed, final, exit]: initialized, initializationFailed,
           \* finalShutdown, workerExit
  io,      \* holder of ioMutex: "free" | "worker" | "life"
  pc,      \* where the worker, the lifecycle call and the host task are
  reg      \* their local variables

vars == <<st, radio, conns, stack, io, pc, reg>>

Tasks  == {"worker", "life"}
Nobody == [link |-> 0, conn |-> 0]
Empty  == <<>>

\* ++linkGeneration
Bump(n) == n + 1

\* The state before the first begin().
Fresh ==
  [enabled |-> FALSE, phone |-> None, authenticated |-> FALSE,
   subscribed |-> FALSE, mtu |-> FALSE, disconnectPending |-> FALSE,
   radioStopPending |-> FALSE, link |-> 0, queue |-> Empty]

Ready(s) ==
  /\ s.enabled /\ ~s.disconnectPending /\ s.phone # None
  /\ s.authenticated /\ s.subscribed /\ s.mtu

FailLink(s) ==
  [s EXCEPT !.authenticated = FALSE, !.subscribed = FALSE,
            !.disconnectPending = TRUE, !.radioStopPending = TRUE,
            !.link = Bump(@), !.queue = Empty]

StopState(s) ==
  [s EXCEPT !.enabled = FALSE, !.authenticated = FALSE, !.subscribed = FALSE,
            !.disconnectPending = s.phone # None,
            !.radioStopPending = stack.init,
            !.link = Bump(@), !.queue = Empty]

Linked(h) == radio.conn[h] # 0

Init ==
  /\ st = Fresh
  /\ radio = [adv |-> FALSE, conn |-> [h \in Handles |-> 0], closing |-> {}]
  /\ conns = 0
  /\ stack = [init |-> FALSE, failed |-> FALSE, final |-> FALSE, exit |-> FALSE]
  /\ io = "free"
  /\ pc = [worker |-> "none", life |-> "idle", host |-> "idle"]
  /\ reg = [worker |-> [stopping |-> FALSE, stopped |-> FALSE, handle |-> None,
                        item |-> Nobody],
            life   |-> [op |-> "stop", stopped |-> FALSE, handle |-> None],
            host   |-> None]

Goto(t, label) == pc' = [pc EXCEPT ![t] = label]

-----------------------------------------------------------------------------
(* stopRadio, run by the worker or by a lifecycle call that holds ioMutex.   *)
(* `next' is where its caller goes on.                                       *)

StopAdvertising(t, ok) ==
  /\ pc[t] = "stopAdv"
  /\ radio' = IF ok THEN [radio EXCEPT !.adv = FALSE] ELSE radio
  /\ reg' = [reg EXCEPT ![t].stopped = ok \/ ~radio.adv]
  /\ Goto(t, "handle")
  /\ UNCHANGED <<st, conns, stack, io>>

ReadHandle(t) ==
  /\ pc[t] = "handle"
  /\ reg' = [reg EXCEPT ![t].handle = st.phone]
  /\ Goto(t, "disconnect")
  /\ UNCHANGED <<st, radio, conns, stack, io>>

ToDisconnect(t) == reg[t].handle

\* server->disconnect: NimBLE reports the end of the connection later.
Disconnect(t) ==
  /\ pc[t] = "disconnect"
  /\ LET h == ToDisconnect(t)
     IN radio' = IF h # None /\ Linked(h)
                 THEN [radio EXCEPT !.closing = @ \cup {h}] ELSE radio
  /\ Goto(t, "settle")
  /\ UNCHANGED <<st, conns, stack, io, reg>>

\* Mutants: the pending stop is forgotten before the phone is gone; it is kept
\* unless there was a phone to disconnect.
SettledEarly(t) == reg[t].stopped
SettledByPhone(t) == reg[t].stopped /\ reg[t].handle # None

Settled(t) == reg[t].stopped /\ st.phone = None

Settle(t, next) ==
  /\ pc[t] = "settle"
  /\ st' = [st EXCEPT !.radioStopPending = ~Settled(t)]
  /\ Goto(t, next)
  /\ UNCHANGED <<radio, conns, stack, io, reg>>

-----------------------------------------------------------------------------
(* The worker task.                                                          *)

\* The top of the loop: what there is to do is read under the lock.
WorkerLook ==
  /\ pc["worker"] = "look"
  /\ IF stack.exit
     THEN Goto("worker", "exited") /\ UNCHANGED reg
     ELSE /\ st.radioStopPending \/ st.queue # <<>>
          /\ reg' = [reg EXCEPT !.worker.stopping = st.radioStopPending]
          /\ Goto("worker", "take")
  /\ UNCHANGED <<st, radio, conns, stack, io>>

WorkerTake ==
  /\ pc["worker"] = "take" /\ io = "free"
  /\ io' = "worker"
  /\ Goto("worker", IF reg.worker.stopping THEN "stopAdv" ELSE "pop")
  /\ UNCHANGED <<st, radio, conns, stack, reg>>

\* 20 ms have passed without ioMutex.
WorkerTakeTimeout ==
  /\ pc["worker"] = "take" /\ io # "free"
  /\ Goto("worker", "look")
  /\ UNCHANGED <<st, radio, conns, stack, io, reg>>

WorkerSettle == Settle("worker", "pop")

FreshItem(item) == Ready(st) /\ item.link = st.link

\* Take the oldest frame and, under the same lock, the handle to send it to.
WorkerPop ==
  /\ pc["worker"] = "pop"
  /\ ~st.radioStopPending /\ st.queue # <<>>
  /\ LET item == Head(st.queue)
     IN /\ st' = [st EXCEPT !.queue = Tail(@)]
        /\ IF FreshItem(item)
           THEN /\ reg' = [reg EXCEPT !.worker.item = item,
                                      !.worker.handle = st.phone]
                /\ Goto("worker", "notify")
           ELSE UNCHANGED <<reg, pc>>
  /\ UNCHANGED <<radio, conns, stack, io>>

\* Nothing to send, or the end of a batch of 8: release ioMutex.
WorkerGive ==
  /\ pc["worker"] = "pop"
  /\ io' = "free"
  /\ Goto("worker", "look")
  /\ UNCHANGED <<st, radio, conns, stack, reg>>

\* notify(), and the lock section after a failure.
WorkerNotify(ok) ==
  /\ pc["worker"] = "notify"
  /\ ok => Linked(reg.worker.handle)
  /\ ~ok => st.link < MaxGen \/ ~Linked(reg.worker.handle)
  /\ st' = IF ~ok /\ reg.worker.item.link = st.link THEN FailLink(st) ELSE st
  /\ reg' = [reg EXCEPT !.worker.item = Nobody]
  /\ Goto("worker", "pop")
  /\ UNCHANGED <<radio, conns, stack, io>>

-----------------------------------------------------------------------------
(* Lifecycle calls, one at a time (lifecycleBusy and the coordinator).       *)

CallBegin ==
  /\ pc["life"] = "idle" /\ ~stack.final /\ ~stack.failed /\ st.link < MaxGen
  /\ Goto("life", "begin")
  /\ UNCHANGED <<st, radio, conns, stack, io, reg>>

\* begin(): take ioMutex; the first time, initialize NimBLE, which may fail
\* before (~init) or after the stack is up, and start the worker last.
BeginTake(ok, init) ==
  /\ pc["life"] = "begin" /\ io = "free"
  /\ io' = "life"
  /\ stack.init \/ ok => init
  /\ stack.init => ok
  /\ stack' = [stack EXCEPT !.init = init, !.failed = ~ok]
  /\ pc' = [pc EXCEPT !["life"] = IF ok THEN "enable" ELSE "give",
                      !["worker"] = IF ok /\ @ = "none" THEN "look" ELSE @]
  /\ UNCHANGED <<st, radio, conns, reg>>

BeginTimeout ==
  /\ pc["life"] = "begin" /\ io # "free"
  /\ Goto("life", "idle")
  /\ UNCHANGED <<st, radio, conns, stack, io, reg>>

MayEnable(s) == ~s.disconnectPending /\ ~s.radioStopPending

\* begin(): refused while an earlier stop is still going on.
BeginEnable ==
  /\ pc["life"] = "enable"
  /\ IF MayEnable(st)
     THEN /\ st' = [st EXCEPT !.enabled = TRUE]
          /\ Goto("life", IF st.phone = None THEN "advertise" ELSE "give")
     ELSE /\ st' = StopState(st)
          /\ Goto("life", "give")
  /\ UNCHANGED <<radio, conns, stack, io, reg>>

\* begin(): startAdvertising outside the lock; a failure undoes the session.
BeginAdvertise(ok) ==
  /\ pc["life"] = "advertise"
  /\ radio' = [radio EXCEPT !.adv = @ \/ ok]
  /\ Goto("life", IF ok THEN "give" ELSE "undo")
  /\ UNCHANGED <<st, conns, stack, io, reg>>

BeginUndo ==
  /\ pc["life"] = "undo"
  /\ st' = StopState(st)
  /\ Goto("life", "give")
  /\ UNCHANGED <<radio, conns, stack, io, reg>>

BeginGive ==
  /\ pc["life"] = "give"
  /\ io' = "free"
  /\ Goto("life", "idle")
  /\ UNCHANGED <<st, radio, conns, stack, reg>>

\* stop() and shutdown() begin with stopState.
CallStop(op) ==
  /\ pc["life"] = "idle" /\ st.link < MaxGen
  /\ st' = StopState(st)
  /\ reg' = [reg EXCEPT !.life.op = op]
  /\ stack' = [stack EXCEPT !.final = @ \/ op = "shutdown"]
  /\ Goto("life", IF stack.init THEN "stopTake"
                  ELSE IF op = "shutdown" THEN "stopped" ELSE "idle")
  /\ UNCHANGED <<radio, conns, io>>

StopTake ==
  /\ pc["life"] = "stopTake" /\ io = "free"
  /\ io' = "life"
  /\ Goto("life", "stopAdv")
  /\ UNCHANGED <<st, radio, conns, stack, reg>>

StopTakeTimeout ==
  /\ pc["life"] = "stopTake" /\ io # "free"
  /\ Goto("life", "idle")
  /\ UNCHANGED <<st, radio, conns, stack, io, reg>>

StopSettle == Settle("life", "stopGive")

StopGive ==
  /\ pc["life"] = "stopGive"
  /\ io' = "free"
  /\ Goto("life", "poll")
  /\ UNCHANGED <<st, radio, conns, stack, reg>>

\* stopImpl returns true; stop() is over.
StopDone ==
  /\ pc["life"] = "poll"
  /\ st.phone = None /\ ~st.radioStopPending
  /\ Goto("life", IF reg.life.op = "shutdown" THEN "stopped" ELSE "idle")
  /\ UNCHANGED <<st, radio, conns, stack, io, reg>>

\* "Timeout desconectando BLE": the worker goes on with the stop.
StopTimeout ==
  /\ pc["life"] = "poll"
  /\ st.phone # None \/ st.radioStopPending
  /\ Goto("life", "idle")
  /\ UNCHANGED <<st, radio, conns, stack, io, reg>>

\* shutdown(): join the worker, then take ioMutex and free the NimBLE objects.
ShutdownAsk ==
  /\ pc["life"] = "stopped"
  /\ stack' = [stack EXCEPT !.exit = pc["worker"] # "none"]
  /\ Goto("life", "join")
  /\ UNCHANGED <<st, radio, conns, io, reg>>

\* Mutant: the objects are freed without waiting for the worker.
JoinedAtOnce == TRUE

Joined == pc["worker"] \in {"none", "exited"}

ShutdownJoin ==
  /\ pc["life"] = "join" /\ Joined
  /\ pc' = [pc EXCEPT !["life"] = IF stack.init \/ stack.failed
                                      THEN "deinit" ELSE "idle",
                      !["worker"] = "none"]
  /\ UNCHANGED <<st, radio, conns, stack, io, reg>>

\* A deadline of shutdown(): everything stays valid and it may be called again.
ShutdownTimeout ==
  /\ \/ pc["life"] = "join" /\ ~Joined
     \/ pc["life"] = "deinit" /\ io # "free"
  /\ Goto("life", "idle")
  /\ UNCHANGED <<st, radio, conns, stack, io, reg>>

\* deinit(false) may refuse; deinit(true) frees server and tx.
ShutdownDeinit(ok) ==
  /\ pc["life"] = "deinit" /\ io = "free" /\ pc["host"] = "idle"
  /\ stack' = [stack EXCEPT !.init = @ /\ ~ok, !.failed = @ /\ ~ok]
  /\ radio' = IF ok THEN [adv |-> FALSE, conn |-> [h \in Handles |-> 0],
                          closing |-> {}] ELSE radio
  /\ Goto("life", "idle")
  /\ UNCHANGED <<st, conns, io, reg>>

-----------------------------------------------------------------------------
(* Callbacks of the NimBLE host task.                                        *)

HostIdle == pc["host"] = "idle" /\ stack.init

\* A phone connects while the recorder advertises, which ends the advertising;
\* onConnect takes it or has it disconnected.
Accepts == st.enabled /\ ~st.disconnectPending /\ st.phone = None

OnConnect(h, mtu) ==
  /\ HostIdle /\ radio.adv /\ ~Linked(h) /\ conns < MaxConns
  /\ conns' = Bump(conns)
  /\ LET linked == [radio EXCEPT !.adv = FALSE, !.conn[h] = Bump(conns)]
     IN IF Accepts
        THEN /\ st' = [st EXCEPT !.phone = h, !.mtu = mtu,
                                 !.authenticated = FALSE,
                                 !.subscribed = FALSE, !.link = Bump(@)]
             /\ radio' = linked
             /\ reg' = [reg EXCEPT !.host = h]
             /\ Goto("host", "stopAdv")
        ELSE /\ radio' = [linked EXCEPT !.closing = @ \cup {h}]
             /\ UNCHANGED <<st, reg, pc>>
  /\ UNCHANGED <<stack, io>>

OnConnectStopAdv ==
  /\ pc["host"] = "stopAdv"
  /\ radio' = [radio EXCEPT !.adv = FALSE]
  /\ Goto("host", "secure")
  /\ UNCHANGED <<st, conns, stack, io, reg>>

\* startSecurity for a bonded phone.
OnConnectSecure(ok) ==
  /\ pc["host"] = "secure"
  /\ ok \/ st.link < MaxGen
  /\ st' = IF ~ok /\ st.phone = reg.host THEN FailLink(st) ELSE st
  /\ Goto("host", "idle")
  /\ UNCHANGED <<radio, conns, stack, io, reg>>

\* Mutant: the queue of the lost link is kept.
DroppedKeepsQueue(s) ==
  [s EXCEPT !.phone = None, !.mtu = FALSE, !.authenticated = FALSE,
            !.subscribed = FALSE, !.disconnectPending = FALSE, !.link = Bump(@)]

Dropped(s) ==
  [s EXCEPT !.phone = None, !.mtu = FALSE, !.authenticated = FALSE,
            !.subscribed = FALSE, !.disconnectPending = FALSE, !.link = Bump(@),
            !.queue = Empty]

\* A connection ends, on request or by itself.
OnDisconnect(h) ==
  /\ HostIdle /\ Linked(h)
  /\ radio' = [radio EXCEPT !.conn[h] = 0, !.closing = @ \ {h}]
  /\ st' = IF st.phone = h THEN Dropped(st) ELSE st
  /\ UNCHANGED <<conns, stack, io, pc, reg>>

OnMtuChange(h, mtu) ==
  /\ HostIdle /\ Linked(h) /\ st.phone = h
  /\ LET s == [st EXCEPT !.mtu = mtu]
     IN st' = IF Ready(st) /\ ~mtu THEN FailLink(s) ELSE s
  /\ UNCHANGED <<radio, conns, stack, io, pc, reg>>

OnAuthenticationComplete(h, trusted) ==
  /\ HostIdle /\ Linked(h) /\ st.phone = h
  /\ trusted \/ st.link < MaxGen
  /\ st' = IF trusted THEN [st EXCEPT !.authenticated = TRUE] ELSE FailLink(st)
  /\ UNCHANGED <<radio, conns, stack, io, pc, reg>>

OnSubscribe(h, on) ==
  /\ HostIdle /\ Linked(h) /\ st.phone = h
  /\ LET s == [st EXCEPT !.subscribed = on]
     IN st' = IF Ready(st) /\ ~on THEN FailLink(s) ELSE s
  /\ UNCHANGED <<radio, conns, stack, io, pc, reg>>

\* A failed notification, or a write of a session that is not ready; neither
\* looks at which link it was meant for beyond the handle.
OnFault ==
  /\ HostIdle /\ st.phone # None /\ st.link < MaxGen
  /\ st' = FailLink(st)
  /\ UNCHANGED <<radio, conns, stack, io, pc, reg>>

-----------------------------------------------------------------------------
(* open, write, read, close and the callbacks queue frames; RelayChannel     *)
(* says which.  A frame is known by the connection it is meant for.          *)

Enqueue ==
  /\ Ready(st)
  /\ st' = IF Len(st.queue) = QueueSize THEN FailLink(st)
           ELSE [st EXCEPT !.queue =
                   Append(@, [link |-> st.link, conn |-> radio.conn[st.phone]])]
  /\ UNCHANGED <<radio, conns, stack, io, pc, reg>>

-----------------------------------------------------------------------------
StopRadio ==
  \E t \in Tasks :
    \/ \E ok \in BOOLEAN : StopAdvertising(t, ok)
    \/ ReadHandle(t) \/ Disconnect(t)

Worker ==
  \/ WorkerLook \/ WorkerTake \/ WorkerTakeTimeout \/ WorkerSettle
  \/ WorkerPop \/ WorkerGive \/ \E ok \in BOOLEAN : WorkerNotify(ok)

Lifecycle ==
  \/ CallBegin \/ \E ok, init \in BOOLEAN : BeginTake(ok, init)
  \/ BeginTimeout \/ BeginEnable \/ \E ok \in BOOLEAN : BeginAdvertise(ok)
  \/ BeginUndo \/ BeginGive
  \/ \E op \in {"stop", "shutdown"} : CallStop(op)
  \/ StopTake \/ StopTakeTimeout \/ StopSettle \/ StopGive
  \/ StopDone \/ StopTimeout
  \/ ShutdownAsk \/ ShutdownJoin \/ ShutdownTimeout
  \/ \E ok \in BOOLEAN : ShutdownDeinit(ok)

Host ==
  \/ \E h \in Handles, b \in BOOLEAN :
       \/ OnConnect(h, b) \/ OnMtuChange(h, b)
       \/ OnAuthenticationComplete(h, b) \/ OnSubscribe(h, b)
  \/ OnConnectStopAdv \/ \E ok \in BOOLEAN : OnConnectSecure(ok)
  \/ \E h \in Handles : OnDisconnect(h)
  \/ OnFault

Next == StopRadio \/ Worker \/ Lifecycle \/ Host \/ Enqueue

Spec == Init /\ [][Next]_vars

\* Every task of a ready step runs; a disconnection that was asked for happens;
\* NimBLE does not refuse to stop advertising for ever, and a task that waits
\* for ioMutex again and again gets it (FreeRTOS queues the waiting tasks).
\* Nothing makes a coordinator call begin() or stop(), nor a phone connect.
Fairness ==
  /\ WF_vars(WorkerLook) /\ SF_vars(WorkerTake) /\ WF_vars(WorkerSettle)
  /\ WF_vars(WorkerGive) /\ WF_vars(\E ok \in BOOLEAN : WorkerNotify(ok))
  /\ \A t \in Tasks :
       /\ SF_vars(StopAdvertising(t, TRUE))
       /\ WF_vars(\E ok \in BOOLEAN : StopAdvertising(t, ok))
       /\ WF_vars(ReadHandle(t)) /\ WF_vars(Disconnect(t))
  /\ WF_vars(Lifecycle /\ pc["life"] # "idle")
  /\ WF_vars(OnConnectStopAdv) /\ WF_vars(\E ok \in BOOLEAN : OnConnectSecure(ok))
  /\ \A h \in Handles : WF_vars(h \in radio.closing /\ OnDisconnect(h))

FairSpec == Spec /\ Fairness

-----------------------------------------------------------------------------
(* Properties.                                                               *)

HandleOrNone == Handles \cup {None}
Frames       == [link : Nat, conn : Nat]

States ==
  [enabled : BOOLEAN, phone : HandleOrNone, authenticated : BOOLEAN,
   subscribed : BOOLEAN, mtu : BOOLEAN, disconnectPending : BOOLEAN,
   radioStopPending : BOOLEAN, link : Nat, queue : Seq(Frames)]
Radios == [adv : BOOLEAN, conn : [Handles -> Nat], closing : SUBSET Handles]
Stacks == [init : BOOLEAN, failed : BOOLEAN, final : BOOLEAN, exit : BOOLEAN]
Places ==
  [worker : {"none", "look", "take", "stopAdv", "handle", "disconnect",
             "settle", "pop", "notify", "exited"},
   life : {"idle", "begin", "enable", "advertise", "undo", "give", "stopTake",
           "stopAdv", "handle", "disconnect", "settle", "stopGive", "poll",
           "stopped", "join", "deinit"},
   host : {"idle", "stopAdv", "secure"}]
Locals ==
  [worker : [stopping : BOOLEAN, stopped : BOOLEAN, handle : HandleOrNone,
             item : Frames],
   life : [op : {"stop", "shutdown"}, stopped : BOOLEAN, handle : HandleOrNone],
   host : HandleOrNone]

\* The types of the state behind StateLock, of NimBLE and of every local.
TypeOK ==
  /\ st \in States /\ radio \in Radios /\ conns \in Nat /\ stack \in Stacks
  /\ io \in {"free", "worker", "life"} /\ pc \in Places /\ reg \in Locals

\* A disconnection that is waited for has a live connection to end, and the
\* worker knows of it.  Otherwise no onDisconnect would come, and begin() would
\* be refused for ever.
PendingInv ==
  /\ st.disconnectPending => st.phone # None /\ st.radioStopPending
  /\ st.phone # None => Linked(st.phone)

\* Whatever waits in the queue belongs to the link of today, which is ready:
\* no interleaving of callbacks, stop() and callers leaves a frame of a lost
\* link behind, or readiness without a phone.
QueueInv ==
  /\ st.queue # <<>> => Ready(st)
  /\ \A i \in DOMAIN st.queue :
       st.queue[i] = [link |-> st.link, conn |-> radio.conn[st.phone]]
  /\ st.phone = None => ~st.authenticated /\ ~st.subscribed

\* What holds of the link whenever StateLock is free.
LinkInv == PendingInv /\ QueueInv

\* A session that is over and not waiting for its radio to stop is silent: no
\* advertising, no phone, whichever of stop(), worker and a failed begin()
\* stopped the radio.
RadioQuiet ==
  (~st.enabled /\ ~st.radioStopPending) => ~radio.adv /\ st.phone = None

\* The steps made between taking and giving ioMutex, and those of them that use
\* NimBLE objects.
UsesRadio(t) ==
  pc[t] \in {"stopAdv", "handle", "disconnect", "settle", "pop", "notify",
             "enable", "advertise"}
Holds(t) == UsesRadio(t) \/ pc[t] \in {"undo", "give", "stopGive"}

\* NimBLE is used by the holder of ioMutex alone and only while its objects
\* exist, and no task is deleted with ioMutex in its hand, whatever deadline
\* cuts shutdown() short and however often it is called again.
RadioOwned ==
  /\ \A t \in Tasks : (io = t <=> Holds(t)) /\ (UsesRadio(t) => stack.init)
  /\ pc["host"] # "idle" => stack.init

\* A pending stop of the radio comes to its end, so begin() is not refused for
\* ever, whether stop() timed out, the link failed or NimBLE refused; only a
\* shutdown() that has dismissed the worker is left to its caller to repeat.
StopSettles == st.radioStopPending ~> (~st.radioStopPending \/ stack.exit)

\* begin() "anuncia sob demanda" (README.md:14): a session that was requested
\* and is not being stopped goes on announcing until a phone has connected.
AnnouncesUntilConnected ==
  [][st.enabled /\ ~st.radioStopPending /\ radio.adv /\ ~radio'.adv
       => st'.phone # None]_vars
================================================================================
