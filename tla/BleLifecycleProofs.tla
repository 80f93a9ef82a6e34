-------------------------- MODULE BleLifecycleProofs --------------------------
(***************************************************************************)
(* The safety of the BLE link for any number of handles, connections and   *)
(* queued frames: TypeOK, LinkInv, RadioOwned and RadioQuiet of            *)
(* BleLifecycle are invariants of its specification.                       *)
(*                                                                         *)
(* They hold together only: RadioQuiet because ioMutex keeps begin() from  *)
(* advertising while a stopRadio is between its steps (RadioOwned), LinkInv *)
(* because a stopRadio that forgets the pending stop has seen that no      *)
(* phone is left, and all of them because of where each task is (PlaceInv).*)
(***************************************************************************)
EXTENDS BleLifecycle, TLAPS

\* A lifecycle call between stopState and its return, and past its stopImpl.
Stopping == {"stopTake", "stopAdv", "handle", "disconnect", "settle",
             "stopGive", "poll", "stopped", "join", "deinit"}
Stopped  == {"stopped", "join", "deinit"}

\* What the place of a task says about the shared state.
PlaceInv ==
  /\ pc["worker"] # "none" => stack.init
  /\ pc["life"] \in {"stopTake", "advertise", "undo"} => stack.init
  /\ ~stack.init => ~radio.adv /\ st.phone = None
  /\ pc["life"] \in {"advertise", "undo"} => st.enabled
  /\ pc["life"] \in Stopping => ~st.enabled
  /\ pc["life"] \in Stopped => st.phone = None
  /\ pc["life"] = "deinit" => pc["worker"] = "none"
  /\ pc["host"] # "idle" => reg.host \in Handles

\* Half-way through stopRadio nobody advertises any more.
HalfStoppedInv ==
  \A t \in Tasks :
    pc[t] \in {"handle", "disconnect", "settle"} /\ reg[t].stopped => ~radio.adv

\* The frame in the worker's hand is of a past link, or its phone is still there.
HandInv ==
  pc["worker"] = "notify" =>
    /\ reg.worker.item.link <= st.link
    /\ reg.worker.item.link = st.link => st.phone # None

\* The inductive invariant.
IInv ==
  /\ TypeOK /\ PendingInv /\ QueueInv /\ RadioOwned /\ RadioQuiet
  /\ PlaceInv /\ HalfStoppedInv /\ HandInv

-----------------------------------------------------------------------------
(* Types.                                                                    *)

LEMMA BumpType == ASSUME NEW n \in Nat PROVE Bump(n) \in Nat /\ Bump(n) > n
BY DEF Bump

LEMMA EmptyType == ASSUME NEW S PROVE Empty \in Seq(S)
BY DEF Empty

\* The ways a link ends keep the type of what StateLock guards.
LEMMA FailLinkType ==
  ASSUME NEW s \in States PROVE FailLink(s) \in States
BY BumpType, EmptyType DEF States, FailLink

LEMMA StopStateType ==
  ASSUME TypeOK, NEW s \in States PROVE StopState(s) \in States
<1>1. stack.init \in BOOLEAN /\ (s.phone # None) \in BOOLEAN
  BY DEF TypeOK, Stacks
<1> QED BY <1>1, BumpType, EmptyType DEF States, StopState

LEMMA DroppedType ==
  ASSUME NEW s \in States PROVE Dropped(s) \in States
BY BumpType, EmptyType DEF States, Dropped, HandleOrNone

LEMMA TypeInit == Init => TypeOK
<1> SUFFICES ASSUME Init PROVE TypeOK
  OBVIOUS
<1> USE EmptyType DEF Init, HandleOrNone
<1>1. st \in States BY DEF States, Fresh
<1>2. radio \in Radios /\ conns \in Nat /\ stack \in Stacks
  BY DEF Radios, Stacks
<1>3. pc \in Places /\ io \in {"free", "worker", "life"} BY DEF Places
<1>4. reg \in Locals BY DEF Locals, Nobody, Frames
<1> QED BY <1>1, <1>2, <1>3, <1>4 DEF TypeOK

LEMMA TypeStep == TypeOK /\ [Next]_vars => TypeOK'
<1> SUFFICES ASSUME TypeOK, [Next]_vars PROVE TypeOK'
  OBVIOUS
<1> USE DEF TypeOK, Goto
<1>1. CASE StopRadio
  <2>1. ASSUME NEW t \in Tasks, NEW ok \in BOOLEAN, StopAdvertising(t, ok)
        PROVE TypeOK'
    BY <2>1 DEF StopAdvertising, Tasks, Places, Locals, Radios
  <2>2. ASSUME NEW t \in Tasks, ReadHandle(t)
        PROVE TypeOK'
    BY <2>2 DEF ReadHandle, Tasks, Places, Locals, States
  <2>3. ASSUME NEW t \in Tasks, Disconnect(t)
        PROVE TypeOK'
    BY <2>3 DEF Disconnect, ToDisconnect, Tasks, Places, Locals, Radios, HandleOrNone
  <2> QED BY <1>1, <2>1, <2>2, <2>3 DEF StopRadio
<1>2. CASE Worker
  <2>1. CASE WorkerLook
    BY <2>1 DEF WorkerLook, Places, Locals, States
  <2>2. CASE WorkerTake
    BY <2>2 DEF WorkerTake, Places
  <2>3. CASE WorkerTakeTimeout
    BY <2>3 DEF WorkerTakeTimeout, Places
  <2>4. CASE WorkerSettle
    BY <2>4 DEF WorkerSettle, Settle, Settled, Places, States
  <2>5. CASE WorkerPop
    <3>1. Head(st.queue) \in Frames /\ Tail(st.queue) \in Seq(Frames)
      BY <2>5 DEF WorkerPop, States
    <3>2. st' = [st EXCEPT !.queue = Tail(@)]
      BY <2>5 DEF WorkerPop
    <3>3. st' \in States
      BY <3>1, <3>2 DEF States
    <3>4. ASSUME NEW i \in Frames, NEW h \in HandleOrNone
          PROVE [reg EXCEPT !.worker.item = i, !.worker.handle = h] \in Locals
      BY DEF Locals
    <3>5. st.phone \in HandleOrNone
      BY DEF States
    <3>6. reg' \in Locals
      BY <2>5, <3>1, <3>4, <3>5 DEF WorkerPop
    <3>7. pc' \in Places
      BY <2>5 DEF WorkerPop, Places
    <3> QED BY <2>5, <3>3, <3>6, <3>7 DEF WorkerPop
  <2>6. CASE WorkerGive
    BY <2>6 DEF WorkerGive, Places
  <2>7. ASSUME NEW ok \in BOOLEAN, WorkerNotify(ok)
        PROVE TypeOK'
    BY <2>7, FailLinkType DEF WorkerNotify, Nobody, Frames, Places, Locals
  <2> QED BY <1>2, <2>1, <2>2, <2>3, <2>4, <2>5, <2>6, <2>7 DEF Worker
<1>3. CASE Lifecycle
  <2>1. CASE CallBegin
    BY <2>1 DEF CallBegin, Places
  <2>2. ASSUME NEW ok \in BOOLEAN, NEW init \in BOOLEAN, BeginTake(ok, init)
        PROVE TypeOK'
    BY <2>2 DEF BeginTake, Places, Stacks
  <2>3. CASE BeginTimeout
    BY <2>3 DEF BeginTimeout, Places
  <2>4. CASE BeginEnable
    BY <2>4, StopStateType DEF BeginEnable, Places, States
  <2>5. ASSUME NEW ok \in BOOLEAN, BeginAdvertise(ok)
        PROVE TypeOK'
    BY <2>5 DEF BeginAdvertise, Places, Radios
  <2>6. CASE BeginUndo
    BY <2>6, StopStateType DEF BeginUndo, Places
  <2>7. CASE BeginGive
    BY <2>7 DEF BeginGive, Places
  <2>8. ASSUME NEW op \in {"stop", "shutdown"}, CallStop(op)
        PROVE TypeOK'
    BY <2>8, StopStateType DEF CallStop, Places, Stacks, Locals
  <2>9. CASE StopTake
    BY <2>9 DEF StopTake, Places
  <2>10. CASE StopTakeTimeout
    BY <2>10 DEF StopTakeTimeout, Places
  <2>11. CASE StopSettle
    BY <2>11 DEF StopSettle, Settle, Settled, Places, States
  <2>12. CASE StopGive
    BY <2>12 DEF StopGive, Places
  <2>13. CASE StopDone
    BY <2>13 DEF StopDone, Places
  <2>14. CASE StopTimeout
    BY <2>14 DEF StopTimeout, Places
  <2>15. CASE ShutdownAsk
    BY <2>15 DEF ShutdownAsk, Places, Stacks
  <2>16. CASE ShutdownJoin
    BY <2>16 DEF ShutdownJoin, Places
  <2>17. CASE ShutdownTimeout
    BY <2>17 DEF ShutdownTimeout, Places
  <2>18. ASSUME NEW ok \in BOOLEAN, ShutdownDeinit(ok)
        PROVE TypeOK'
    BY <2>18 DEF ShutdownDeinit, Places, Stacks, Radios
  <2> QED BY <1>3, <2>1, <2>2, <2>3, <2>4, <2>5, <2>6, <2>7, <2>8, <2>9, <2>10, <2>11, <2>12, <2>13, <2>14, <2>15, <2>16, <2>17, <2>18 DEF Lifecycle
<1>4. CASE Host
  <2>1. ASSUME NEW h \in Handles, NEW b \in BOOLEAN, OnConnect(h, b)
        PROVE TypeOK'
    <3>1. Bump(conns) \in Nat /\ Bump(st.link) \in Nat
      BY BumpType DEF States
    <3>2. st' \in States
      BY <2>1, <3>1 DEF OnConnect, States, HandleOrNone
    <3> DEFINE linked == [radio EXCEPT !.adv = FALSE, !.conn[h] = Bump(conns)]
    <3>3. linked \in Radios
      BY <3>1 DEF Radios
    <3>4. [linked EXCEPT !.closing = @ \cup {h}] \in Radios
      BY <3>3 DEF Radios
    <3>5. radio' \in Radios
      BY <2>1, <3>3, <3>4 DEF OnConnect
    <3>6. reg' \in Locals /\ pc' \in Places
      BY <2>1 DEF OnConnect, Locals, Places, HandleOrNone
    <3> QED BY <2>1, <3>1, <3>2, <3>5, <3>6 DEF OnConnect
  <2>2. ASSUME NEW h \in Handles, NEW b \in BOOLEAN, OnMtuChange(h, b)
        PROVE TypeOK'
    BY <2>2, BumpType, EmptyType DEF OnMtuChange, FailLink, States
  <2>3. ASSUME NEW h \in Handles, NEW b \in BOOLEAN, OnAuthenticationComplete(h, b)
        PROVE TypeOK'
    BY <2>3, FailLinkType DEF OnAuthenticationComplete, States
  <2>4. ASSUME NEW h \in Handles, NEW b \in BOOLEAN, OnSubscribe(h, b)
        PROVE TypeOK'
    BY <2>4, BumpType, EmptyType DEF OnSubscribe, FailLink, States
  <2>5. CASE OnConnectStopAdv
    BY <2>5 DEF OnConnectStopAdv, Places, Radios
  <2>6. ASSUME NEW ok \in BOOLEAN, OnConnectSecure(ok)
        PROVE TypeOK'
    BY <2>6, FailLinkType DEF OnConnectSecure, Places
  <2>7. ASSUME NEW h \in Handles, OnDisconnect(h)
        PROVE TypeOK'
    BY <2>7, DroppedType DEF OnDisconnect, Radios
  <2>8. CASE OnFault
    BY <2>8, FailLinkType DEF OnFault
  <2> QED BY <1>4, <2>1, <2>2, <2>3, <2>4, <2>5, <2>6, <2>7, <2>8 DEF Host
<1>5. CASE Enqueue
  <2>1. st.phone \in Handles
    BY <1>5 DEF Enqueue, Ready, States, HandleOrNone
  <2>2. radio.conn[st.phone] \in Nat
    BY <2>1 DEF Radios
  <2>3. CASE Len(st.queue) = QueueSize
    BY <1>5, <2>3, FailLinkType DEF Enqueue
  <2>4. CASE Len(st.queue) # QueueSize
    <3> DEFINE item == [link |-> st.link, conn |-> radio.conn[st.phone]]
    <3>1. item \in Frames
      BY <2>2 DEF Frames, States
    <3>2. Append(st.queue, item) \in Seq(Frames)
      BY <3>1 DEF States
    <3>3. st' = [st EXCEPT !.queue = Append(st.queue, item)]
      BY <1>5, <2>4 DEF Enqueue
    <3> HIDE DEF item
    <3>4. st' \in States
      BY <3>2, <3>3 DEF States
    <3> QED BY <1>5, <3>4 DEF Enqueue
  <2> QED BY <2>3, <2>4
<1>6. CASE UNCHANGED vars
  BY <1>6 DEF vars
<1> QED BY <1>1, <1>2, <1>3, <1>4, <1>5, <1>6 DEF Next

\* Every variable keeps its type, whatever the number of handles, connections
\* and queue places.
THEOREM TypeCorrect == Spec => []TypeOK
BY TypeInit, TypeStep, PTL DEF Spec

-----------------------------------------------------------------------------
(* What the ends of a link leave behind.                                     *)

LEMMA EmptyQueue == Empty = <<>> /\ DOMAIN Empty = {}
BY DEF Empty

LEMMA FailLinkFacts ==
  ASSUME NEW s \in States
  PROVE  LET f == FailLink(s)
         IN /\ f.enabled = s.enabled /\ f.phone = s.phone /\ f.mtu = s.mtu
            /\ ~f.authenticated /\ ~f.subscribed
            /\ f.disconnectPending /\ f.radioStopPending
            /\ f.link = Bump(s.link) /\ f.queue = Empty
BY DEF States, FailLink

LEMMA StopStateFacts ==
  ASSUME NEW s \in States
  PROVE  LET f == StopState(s)
         IN /\ ~f.enabled /\ f.phone = s.phone
            /\ ~f.authenticated /\ ~f.subscribed
            /\ f.disconnectPending <=> (s.phone # None)
            /\ f.radioStopPending = stack.init
            /\ f.link = Bump(s.link) /\ f.queue = Empty
BY DEF States, StopState

LEMMA DroppedFacts ==
  ASSUME NEW s \in States
  PROVE  LET f == Dropped(s)
         IN /\ f.enabled = s.enabled /\ f.phone = None
            /\ ~f.authenticated /\ ~f.subscribed
            /\ ~f.disconnectPending /\ f.radioStopPending = s.radioStopPending
            /\ f.link = Bump(s.link) /\ f.queue = Empty
BY DEF States, Dropped

\* A phone that is taken has a connection of its own; one that is not leaves the
\* guarded state alone.
LEMMA OnConnectFacts ==
  ASSUME TypeOK, NEW h \in Handles, NEW b \in BOOLEAN, OnConnect(h, b)
  PROVE  /\ ~Linked(h) /\ stack.init /\ radio.adv /\ ~radio'.adv
         /\ radio'.conn = [radio.conn EXCEPT ![h] = Bump(conns)]
         /\ radio.conn \in [Handles -> Nat] /\ Bump(conns) # 0
         /\ UNCHANGED <<stack, io>>
         /\ \/ /\ st.enabled /\ ~st.disconnectPending /\ st.phone = None
               /\ st'.phone = h /\ ~st'.authenticated /\ ~st'.subscribed
               /\ st'.link = Bump(st.link)
               /\ st'.enabled = st.enabled /\ st'.queue = st.queue
               /\ st'.disconnectPending = st.disconnectPending
               /\ st'.radioStopPending = st.radioStopPending
               /\ reg' = [reg EXCEPT !.host = h]
               /\ pc' = [pc EXCEPT !["host"] = "stopAdv"]
            \/ UNCHANGED <<st, reg, pc>>
<1> USE DEF TypeOK
<1> DEFINE linked == [radio EXCEPT !.adv = FALSE, !.conn[h] = Bump(conns)]
<1>1. /\ ~linked.adv /\ linked.conn = [radio.conn EXCEPT ![h] = Bump(conns)]
      /\ linked \in Radios
  BY BumpType DEF Radios
<1>2. LET closed == [linked EXCEPT !.closing = @ \cup {h}]
      IN closed.adv = linked.adv /\ closed.conn = linked.conn
  BY <1>1 DEF Radios
<1>3. /\ ~radio'.adv /\ radio'.conn = [radio.conn EXCEPT ![h] = Bump(conns)]
  BY <1>1, <1>2 DEF OnConnect
<1>4. /\ ~Linked(h) /\ stack.init /\ radio.adv /\ UNCHANGED <<stack, io>>
  BY DEF OnConnect, HostIdle
<1>5. radio.conn \in [Handles -> Nat] /\ Bump(conns) # 0
  BY BumpType DEF Radios
<1>6. CASE Accepts
  BY <1>3, <1>4, <1>5, <1>6, BumpType DEF OnConnect, Accepts, States, Goto
<1>7. CASE ~Accepts
  BY <1>3, <1>4, <1>5, <1>7 DEF OnConnect
<1> QED BY <1>6, <1>7

\* The callbacks that lose readiness fail the link, the others change one flag.
LEMMA OnMtuChangeFacts ==
  ASSUME TypeOK, NEW h \in Handles, NEW b \in BOOLEAN, OnMtuChange(h, b)
  PROVE  /\ UNCHANGED <<radio, conns, stack, io, pc, reg>>
         /\ st.phone # None /\ Linked(st.phone)
         /\ st'.phone = st.phone /\ st'.enabled = st.enabled
         /\ \/ /\ Ready(st) /\ ~st'.authenticated /\ ~st'.subscribed
               /\ st'.disconnectPending /\ st'.radioStopPending
               /\ st'.link = Bump(st.link) /\ st'.queue = Empty
            \/ /\ st'.authenticated = st.authenticated
               /\ st'.subscribed = st.subscribed
               /\ st'.disconnectPending = st.disconnectPending
               /\ st'.radioStopPending = st.radioStopPending
               /\ st'.link = st.link /\ st'.queue = st.queue
               /\ Ready(st) => Ready(st')
<1> USE LifecycleAssumption DEF TypeOK
<1> DEFINE s == [st EXCEPT !.mtu = b]
<1>1. /\ s \in States /\ s.mtu = b /\ s.phone = st.phone /\ s.enabled = st.enabled
      /\ s.authenticated = st.authenticated /\ s.subscribed = st.subscribed
      /\ s.disconnectPending = st.disconnectPending
      /\ s.radioStopPending = st.radioStopPending
      /\ s.link = st.link /\ s.queue = st.queue
  BY DEF States
<1>2. st' = IF Ready(st) /\ ~b THEN FailLink(s) ELSE s
  BY DEF OnMtuChange
<1>3. /\ UNCHANGED <<radio, conns, stack, io, pc, reg>>
      /\ st.phone = h /\ Linked(h)
  BY DEF OnMtuChange
<1> HIDE DEF s
<1>4. CASE Ready(st) /\ ~b
  BY <1>1, <1>2, <1>3, <1>4, FailLinkFacts
<1>5. CASE ~(Ready(st) /\ ~b)
  BY <1>1, <1>2, <1>3, <1>5 DEF Ready
<1> QED BY <1>4, <1>5

LEMMA OnSubscribeFacts ==
  ASSUME TypeOK, NEW h \in Handles, NEW b \in BOOLEAN, OnSubscribe(h, b)
  PROVE  /\ UNCHANGED <<radio, conns, stack, io, pc, reg>>
         /\ st.phone # None /\ Linked(st.phone)
         /\ st'.phone = st.phone /\ st'.enabled = st.enabled
         /\ \/ /\ Ready(st) /\ ~st'.authenticated /\ ~st'.subscribed
               /\ st'.disconnectPending /\ st'.radioStopPending
               /\ st'.link = Bump(st.link) /\ st'.queue = Empty
            \/ /\ st'.authenticated = st.authenticated
               /\ st'.disconnectPending = st.disconnectPending
               /\ st'.radioStopPending = st.radioStopPending
               /\ st'.link = st.link /\ st'.queue = st.queue
               /\ Ready(st) => Ready(st')
<1> USE LifecycleAssumption DEF TypeOK
<1> DEFINE s == [st EXCEPT !.subscribed = b]
<1>1. /\ s \in States /\ s.mtu = st.mtu /\ s.phone = st.phone
      /\ s.enabled = st.enabled
      /\ s.authenticated = st.authenticated /\ s.subscribed = b
      /\ s.disconnectPending = st.disconnectPending
      /\ s.radioStopPending = st.radioStopPending
      /\ s.link = st.link /\ s.queue = st.queue
  BY DEF States
<1>2. st' = IF Ready(st) /\ ~b THEN FailLink(s) ELSE s
  BY DEF OnSubscribe
<1>3. /\ UNCHANGED <<radio, conns, stack, io, pc, reg>>
      /\ st.phone = h /\ Linked(h)
  BY DEF OnSubscribe
<1> HIDE DEF s
<1>4. CASE Ready(st) /\ ~b
  BY <1>1, <1>2, <1>3, <1>4, FailLinkFacts
<1>5. CASE ~(Ready(st) /\ ~b)
  BY <1>1, <1>2, <1>3, <1>5 DEF Ready
<1> QED BY <1>4, <1>5

\* The worker takes the head of the queue and nothing else changes in `st'.
LEMMA WorkerPopFacts ==
  ASSUME TypeOK, WorkerPop
  PROVE  /\ UNCHANGED <<radio, conns, stack, io>>
         /\ st.queue # <<>> /\ st'.queue = Tail(st.queue)
         /\ st'.enabled = st.enabled /\ st'.phone = st.phone
         /\ st'.authenticated = st.authenticated
         /\ st'.subscribed = st.subscribed /\ st'.mtu = st.mtu
         /\ st'.disconnectPending = st.disconnectPending
         /\ st'.radioStopPending = st.radioStopPending /\ st'.link = st.link
         /\ reg'.host = reg.host /\ reg'.life = reg.life
         /\ reg'.worker.stopped = reg.worker.stopped
         /\ pc["worker"] = "pop"
         /\ \/ UNCHANGED <<reg, pc>>
            \/ /\ pc' = [pc EXCEPT !["worker"] = "notify"]
               /\ Ready(st) /\ reg'.worker.item.link = st.link
<1> USE DEF TypeOK
<1>1. /\ UNCHANGED <<radio, conns, stack, io>> /\ pc["worker"] = "pop"
      /\ st.queue # <<>> /\ st' = [st EXCEPT !.queue = Tail(@)]
  BY DEF WorkerPop
<1>2. /\ st'.queue = Tail(st.queue)
      /\ st'.enabled = st.enabled /\ st'.phone = st.phone
      /\ st'.authenticated = st.authenticated
      /\ st'.subscribed = st.subscribed /\ st'.mtu = st.mtu
      /\ st'.disconnectPending = st.disconnectPending
      /\ st'.radioStopPending = st.radioStopPending /\ st'.link = st.link
  BY <1>1 DEF States
<1>3. CASE ~FreshItem(Head(st.queue))
  BY <1>1, <1>2, <1>3 DEF WorkerPop
<1>4. CASE FreshItem(Head(st.queue))
  <2>1. ASSUME NEW i, NEW p
        PROVE  LET r == [reg EXCEPT !.worker.item = i, !.worker.handle = p]
               IN /\ r.host = reg.host /\ r.life = reg.life
                  /\ r.worker.stopped = reg.worker.stopped
                  /\ r.worker.item = i
    BY DEF Locals
  <2> DEFINE i == Head(st.queue)
             r == [reg EXCEPT !.worker.item = i, !.worker.handle = st.phone]
  <2>2. /\ reg' = r
        /\ pc' = [pc EXCEPT !["worker"] = "notify"]
        /\ Ready(st) /\ i.link = st.link
    BY <1>4 DEF WorkerPop, FreshItem, Goto
  <2>3. /\ r.host = reg.host /\ r.life = reg.life
        /\ r.worker.stopped = reg.worker.stopped /\ r.worker.item = i
    BY <2>1
  <2> HIDE DEF i, r
  <2> QED BY <1>1, <1>2, <2>2, <2>3
<1> QED BY <1>3, <1>4

LEMMA TailFacts ==
  ASSUME NEW q \in Seq(Frames), q # <<>>, NEW x, \A i \in DOMAIN q : q[i] = x
  PROVE  \A i \in DOMAIN Tail(q) : Tail(q)[i] = x
OBVIOUS

\* The frame in the worker's hand is of a past link once the link is bumped.
LEMMA HandBumped ==
  ASSUME TypeOK, HandInv, st'.link = Bump(st.link),
         pc'["worker"] = pc["worker"], reg'.worker = reg.worker
  PROVE  HandInv'
<1>1. st.link \in Nat /\ reg.worker.item.link \in Nat
  BY DEF TypeOK, States, Locals, Frames
<1>2. st'.link \in Nat /\ st'.link > st.link
  BY <1>1, BumpType
<1> QED BY <1>1, <1>2 DEF HandInv

LEMMA OnConnectPending ==
  ASSUME TypeOK, PendingInv, QueueInv, NEW h \in Handles, NEW b \in BOOLEAN,
         OnConnect(h, b)
  PROVE  PendingInv' /\ QueueInv'
<1>1. st.phone # None => st.phone # h
  BY OnConnectFacts DEF PendingInv
<1>2. st.phone \in HandleOrNone
  BY DEF TypeOK, States
<1>3. CASE UNCHANGED st
  <2>1. st.phone # None => radio'.conn[st.phone] = radio.conn[st.phone]
    BY <1>1, <1>2, OnConnectFacts DEF HandleOrNone
  <2> QED BY <1>3, <2>1, EmptyQueue DEF PendingInv, QueueInv, Linked, Ready
<1>4. CASE st.phone = None /\ st'.phone = h
  <2>1. st.queue = <<>> /\ st'.queue = <<>> /\ ~st'.disconnectPending
    BY <1>4, OnConnectFacts, LifecycleAssumption DEF QueueInv, Ready, PendingInv
  <2>2. radio'.conn[h] # 0
    BY OnConnectFacts
  <2> QED BY <1>4, <2>1, <2>2, EmptyQueue, LifecycleAssumption
        DEF PendingInv, QueueInv, Linked
<1> QED BY <1>3, <1>4, OnConnectFacts

LEMMA WorkerPopQueue ==
  ASSUME TypeOK, QueueInv, WorkerPop PROVE QueueInv'
<1> DEFINE x == [link |-> st.link, conn |-> radio.conn[st.phone]]
<1>1. st.queue \in Seq(Frames) /\ st.queue # <<>>
  BY WorkerPopFacts DEF TypeOK, States
<1>2. \A i \in DOMAIN st.queue : st.queue[i] = x
  BY DEF QueueInv
<1>3. \A i \in DOMAIN Tail(st.queue) : Tail(st.queue)[i] = x
  <2> HIDE DEF x
  <2> QED BY <1>1, <1>2, TailFacts
<1>4. \A i \in DOMAIN st'.queue :
        st'.queue[i] = [link |-> st'.link, conn |-> radio'.conn[st'.phone]]
  BY <1>3, WorkerPopFacts
<1>5. Ready(st')
  BY <1>1, WorkerPopFacts DEF QueueInv, Ready
<1> QED BY <1>4, <1>5, WorkerPopFacts DEF QueueInv

-----------------------------------------------------------------------------
(* The inductive invariant, conjunct by conjunct.                            *)

\* A disconnection is waited for only while there is one to come.
LEMMA PendingInvStep == IInv /\ TypeOK' /\ [Next]_vars => PendingInv'
<1> SUFFICES ASSUME IInv, TypeOK', [Next]_vars PROVE PendingInv'
  OBVIOUS
<1> USE LifecycleAssumption DEF IInv, TypeOK, Goto, Tasks, Places, PendingInv,
  QueueInv, Ready, PlaceInv, HandInv, Linked, Stopped
<1>1. CASE StopRadio
  <2>1. ASSUME NEW t \in Tasks, NEW ok \in BOOLEAN, StopAdvertising(t, ok)
        PROVE PendingInv'
    BY <2>1 DEF StopAdvertising
  <2>2. ASSUME NEW t \in Tasks, ReadHandle(t)
        PROVE PendingInv'
    BY <2>2 DEF ReadHandle
  <2>3. ASSUME NEW t \in Tasks, Disconnect(t)
        PROVE PendingInv'
    BY <2>3 DEF Disconnect
  <2> QED BY <1>1, <2>1, <2>2, <2>3 DEF StopRadio
<1>2. CASE Worker
  <2>1. CASE WorkerLook
    BY <2>1 DEF WorkerLook
  <2>2. CASE WorkerTake
    BY <2>2 DEF WorkerTake
  <2>3. CASE WorkerTakeTimeout
    BY <2>3 DEF WorkerTakeTimeout
  <2>4. CASE WorkerSettle
    BY <2>4 DEF WorkerSettle, Settle, Settled, States
  <2>5. CASE WorkerPop
    BY <2>5, WorkerPopFacts
  <2>6. CASE WorkerGive
    BY <2>6 DEF WorkerGive
  <2>7. ASSUME NEW ok \in BOOLEAN, WorkerNotify(ok)
        PROVE PendingInv'
    BY <2>7, FailLinkFacts DEF WorkerNotify
  <2> QED BY <1>2, <2>1, <2>2, <2>3, <2>4, <2>5, <2>6, <2>7 DEF Worker
<1>3. CASE Lifecycle
  <2>1. CASE CallBegin
    BY <2>1 DEF CallBegin
  <2>2. ASSUME NEW ok \in BOOLEAN, NEW init \in BOOLEAN, BeginTake(ok, init)
        PROVE PendingInv'
    BY <2>2 DEF BeginTake
  <2>3. CASE BeginTimeout
    BY <2>3 DEF BeginTimeout
  <2>4. CASE BeginEnable
    BY <2>4, StopStateFacts DEF BeginEnable, States
  <2>5. ASSUME NEW ok \in BOOLEAN, BeginAdvertise(ok)
        PROVE PendingInv'
    BY <2>5 DEF BeginAdvertise
  <2>6. CASE BeginUndo
    BY <2>6, StopStateFacts DEF BeginUndo
  <2>7. CASE BeginGive
    BY <2>7 DEF BeginGive
  <2>8. ASSUME NEW op \in {"stop", "shutdown"}, CallStop(op)
        PROVE PendingInv'
    BY <2>8, StopStateFacts DEF CallStop
  <2>9. CASE StopTake
    BY <2>9 DEF StopTake
  <2>10. CASE StopTakeTimeout
    BY <2>10 DEF StopTakeTimeout
  <2>11. CASE StopSettle
    BY <2>11 DEF StopSettle, Settle, Settled, States
  <2>12. CASE StopGive
    BY <2>12 DEF StopGive
  <2>13. CASE StopDone
    BY <2>13 DEF StopDone
  <2>14. CASE StopTimeout
    BY <2>14 DEF StopTimeout
  <2>15. CASE ShutdownAsk
    BY <2>15 DEF ShutdownAsk
  <2>16. CASE ShutdownJoin
    BY <2>16 DEF ShutdownJoin
  <2>17. CASE ShutdownTimeout
    BY <2>17 DEF ShutdownTimeout
  <2>18. ASSUME NEW ok \in BOOLEAN, ShutdownDeinit(ok)
        PROVE PendingInv'
    BY <2>18 DEF ShutdownDeinit
  <2> QED BY <1>3, <2>1, <2>2, <2>3, <2>4, <2>5, <2>6, <2>7, <2>8, <2>9, <2>10,
    <2>11, <2>12, <2>13, <2>14, <2>15, <2>16, <2>17, <2>18 DEF Lifecycle
<1>4. CASE Host
  <2>1. ASSUME NEW h \in Handles, NEW b \in BOOLEAN, OnConnect(h, b)
        PROVE PendingInv'
    BY <2>1, OnConnectPending
  <2>2. ASSUME NEW h \in Handles, NEW b \in BOOLEAN, OnMtuChange(h, b)
        PROVE PendingInv'
    BY <2>2, OnMtuChangeFacts
  <2>3. ASSUME NEW h \in Handles, NEW b \in BOOLEAN,
    OnAuthenticationComplete(h, b)
        PROVE PendingInv'
    BY <2>3, FailLinkFacts DEF OnAuthenticationComplete
  <2>4. ASSUME NEW h \in Handles, NEW b \in BOOLEAN, OnSubscribe(h, b)
        PROVE PendingInv'
    BY <2>4, OnSubscribeFacts
  <2>5. CASE OnConnectStopAdv
    BY <2>5 DEF OnConnectStopAdv
  <2>6. ASSUME NEW ok \in BOOLEAN, OnConnectSecure(ok)
        PROVE PendingInv'
    BY <2>6, FailLinkFacts DEF OnConnectSecure
  <2>7. ASSUME NEW h \in Handles, OnDisconnect(h)
        PROVE PendingInv'
    BY <2>7, DroppedFacts DEF OnDisconnect
  <2>8. CASE OnFault
    BY <2>8, FailLinkFacts DEF OnFault
  <2> QED BY <1>4, <2>1, <2>2, <2>3, <2>4, <2>5, <2>6, <2>7, <2>8 DEF Host
<1>5. CASE Enqueue
  BY <1>5, FailLinkFacts DEF Enqueue, Ready
<1>6. CASE UNCHANGED vars
  BY <1>6 DEF vars
<1> QED BY <1>1, <1>2, <1>3, <1>4, <1>5, <1>6 DEF Next

\* Every change of `link' or of readiness empties the queue, or finds it empty.
LEMMA QueueInvStep == IInv /\ TypeOK' /\ [Next]_vars => QueueInv'
<1> SUFFICES ASSUME IInv, TypeOK', [Next]_vars PROVE QueueInv'
  OBVIOUS
<1> USE LifecycleAssumption DEF IInv, TypeOK, Goto, Tasks, Places, PendingInv,
  QueueInv, Ready, Linked, PlaceInv, Stopped
<1>1. CASE StopRadio
  <2>1. ASSUME NEW t \in Tasks, NEW ok \in BOOLEAN, StopAdvertising(t, ok)
        PROVE QueueInv'
    BY <2>1 DEF StopAdvertising
  <2>2. ASSUME NEW t \in Tasks, ReadHandle(t)
        PROVE QueueInv'
    BY <2>2 DEF ReadHandle
  <2>3. ASSUME NEW t \in Tasks, Disconnect(t)
        PROVE QueueInv'
    BY <2>3 DEF Disconnect
  <2> QED BY <1>1, <2>1, <2>2, <2>3 DEF StopRadio
<1>2. CASE Worker
  <2>1. CASE WorkerLook
    BY <2>1 DEF WorkerLook
  <2>2. CASE WorkerTake
    BY <2>2 DEF WorkerTake
  <2>3. CASE WorkerTakeTimeout
    BY <2>3 DEF WorkerTakeTimeout
  <2>4. CASE WorkerSettle
    BY <2>4 DEF WorkerSettle, Settle
  <2>5. CASE WorkerPop
    BY <2>5, WorkerPopQueue
  <2>6. CASE WorkerGive
    BY <2>6 DEF WorkerGive
  <2>7. ASSUME NEW ok \in BOOLEAN, WorkerNotify(ok)
        PROVE QueueInv'
    BY <2>7, FailLinkFacts, EmptyQueue DEF WorkerNotify
  <2> QED BY <1>2, <2>1, <2>2, <2>3, <2>4, <2>5, <2>6, <2>7 DEF Worker
<1>3. CASE Lifecycle
  <2>1. CASE CallBegin
    BY <2>1 DEF CallBegin
  <2>2. ASSUME NEW ok \in BOOLEAN, NEW init \in BOOLEAN, BeginTake(ok, init)
        PROVE QueueInv'
    BY <2>2 DEF BeginTake
  <2>3. CASE BeginTimeout
    BY <2>3 DEF BeginTimeout
  <2>4. CASE BeginEnable
    BY <2>4, StopStateFacts, EmptyQueue DEF BeginEnable, States
  <2>5. ASSUME NEW ok \in BOOLEAN, BeginAdvertise(ok)
        PROVE QueueInv'
    BY <2>5 DEF BeginAdvertise
  <2>6. CASE BeginUndo
    BY <2>6, StopStateFacts, EmptyQueue DEF BeginUndo
  <2>7. CASE BeginGive
    BY <2>7 DEF BeginGive
  <2>8. ASSUME NEW op \in {"stop", "shutdown"}, CallStop(op)
        PROVE QueueInv'
    BY <2>8, StopStateFacts, EmptyQueue DEF CallStop
  <2>9. CASE StopTake
    BY <2>9 DEF StopTake
  <2>10. CASE StopTakeTimeout
    BY <2>10 DEF StopTakeTimeout
  <2>11. CASE StopSettle
    BY <2>11 DEF StopSettle, Settle
  <2>12. CASE StopGive
    BY <2>12 DEF StopGive
  <2>13. CASE StopDone
    BY <2>13 DEF StopDone
  <2>14. CASE StopTimeout
    BY <2>14 DEF StopTimeout
  <2>15. CASE ShutdownAsk
    BY <2>15 DEF ShutdownAsk
  <2>16. CASE ShutdownJoin
    BY <2>16 DEF ShutdownJoin
  <2>17. CASE ShutdownTimeout
    BY <2>17 DEF ShutdownTimeout
  <2>18. ASSUME NEW ok \in BOOLEAN, ShutdownDeinit(ok)
        PROVE QueueInv'
    BY <2>18 DEF ShutdownDeinit
  <2> QED BY <1>3, <2>1, <2>2, <2>3, <2>4, <2>5, <2>6, <2>7, <2>8, <2>9, <2>10,
    <2>11, <2>12, <2>13, <2>14, <2>15, <2>16, <2>17, <2>18 DEF Lifecycle
<1>4. CASE Host
  <2>1. ASSUME NEW h \in Handles, NEW b \in BOOLEAN, OnConnect(h, b)
        PROVE QueueInv'
    BY <2>1, OnConnectPending
  <2>2. ASSUME NEW h \in Handles, NEW b \in BOOLEAN, OnMtuChange(h, b)
        PROVE QueueInv'
    BY <2>2, OnMtuChangeFacts, EmptyQueue
  <2>3. ASSUME NEW h \in Handles, NEW b \in BOOLEAN,
    OnAuthenticationComplete(h, b)
        PROVE QueueInv'
    BY <2>3, FailLinkFacts, EmptyQueue DEF OnAuthenticationComplete
  <2>4. ASSUME NEW h \in Handles, NEW b \in BOOLEAN, OnSubscribe(h, b)
        PROVE QueueInv'
    BY <2>4, OnSubscribeFacts, EmptyQueue
  <2>5. CASE OnConnectStopAdv
    BY <2>5 DEF OnConnectStopAdv
  <2>6. ASSUME NEW ok \in BOOLEAN, OnConnectSecure(ok)
        PROVE QueueInv'
    BY <2>6, FailLinkFacts, EmptyQueue DEF OnConnectSecure
  <2>7. ASSUME NEW h \in Handles, OnDisconnect(h)
        PROVE QueueInv'
    BY <2>7, DroppedFacts, EmptyQueue DEF OnDisconnect
  <2>8. CASE OnFault
    BY <2>8, FailLinkFacts, EmptyQueue DEF OnFault
  <2> QED BY <1>4, <2>1, <2>2, <2>3, <2>4, <2>5, <2>6, <2>7, <2>8 DEF Host
<1>5. CASE Enqueue
  BY <1>5, FailLinkFacts, EmptyQueue DEF Enqueue, Ready
<1>6. CASE UNCHANGED vars
  BY <1>6 DEF vars
<1> QED BY <1>1, <1>2, <1>3, <1>4, <1>5, <1>6 DEF Next

\* ioMutex changes hands only where a task enters or leaves its section.
LEMMA RadioOwnedStep == IInv /\ TypeOK' /\ [Next]_vars => RadioOwned'
<1> SUFFICES ASSUME IInv, TypeOK', [Next]_vars PROVE RadioOwned'
  OBVIOUS
<1> USE LifecycleAssumption DEF IInv, TypeOK, Goto, Tasks, Places, RadioOwned,
  UsesRadio, Holds, PlaceInv
<1>1. CASE StopRadio
  <2>1. ASSUME NEW t \in Tasks, NEW ok \in BOOLEAN, StopAdvertising(t, ok)
        PROVE RadioOwned'
    BY <2>1 DEF StopAdvertising
  <2>2. ASSUME NEW t \in Tasks, ReadHandle(t)
        PROVE RadioOwned'
    BY <2>2 DEF ReadHandle
  <2>3. ASSUME NEW t \in Tasks, Disconnect(t)
        PROVE RadioOwned'
    BY <2>3 DEF Disconnect
  <2> QED BY <1>1, <2>1, <2>2, <2>3 DEF StopRadio
<1>2. CASE Worker
  <2>1. CASE WorkerLook
    BY <2>1 DEF WorkerLook
  <2>2. CASE WorkerTake
    BY <2>2 DEF WorkerTake
  <2>3. CASE WorkerTakeTimeout
    BY <2>3 DEF WorkerTakeTimeout
  <2>4. CASE WorkerSettle
    BY <2>4 DEF WorkerSettle, Settle
  <2>5. CASE WorkerPop
    BY <2>5, WorkerPopFacts
  <2>6. CASE WorkerGive
    BY <2>6 DEF WorkerGive
  <2>7. ASSUME NEW ok \in BOOLEAN, WorkerNotify(ok)
        PROVE RadioOwned'
    BY <2>7 DEF WorkerNotify
  <2> QED BY <1>2, <2>1, <2>2, <2>3, <2>4, <2>5, <2>6, <2>7 DEF Worker
<1>3. CASE Lifecycle
  <2>1. CASE CallBegin
    BY <2>1 DEF CallBegin
  <2>2. ASSUME NEW ok \in BOOLEAN, NEW init \in BOOLEAN, BeginTake(ok, init)
        PROVE RadioOwned'
    BY <2>2 DEF BeginTake
  <2>3. CASE BeginTimeout
    BY <2>3 DEF BeginTimeout
  <2>4. CASE BeginEnable
    BY <2>4 DEF BeginEnable
  <2>5. ASSUME NEW ok \in BOOLEAN, BeginAdvertise(ok)
        PROVE RadioOwned'
    BY <2>5 DEF BeginAdvertise
  <2>6. CASE BeginUndo
    BY <2>6 DEF BeginUndo
  <2>7. CASE BeginGive
    BY <2>7 DEF BeginGive
  <2>8. ASSUME NEW op \in {"stop", "shutdown"}, CallStop(op)
        PROVE RadioOwned'
    BY <2>8 DEF CallStop
  <2>9. CASE StopTake
    BY <2>9 DEF StopTake
  <2>10. CASE StopTakeTimeout
    BY <2>10 DEF StopTakeTimeout
  <2>11. CASE StopSettle
    BY <2>11 DEF StopSettle, Settle
  <2>12. CASE StopGive
    BY <2>12 DEF StopGive
  <2>13. CASE StopDone
    BY <2>13 DEF StopDone
  <2>14. CASE StopTimeout
    BY <2>14 DEF StopTimeout
  <2>15. CASE ShutdownAsk
    BY <2>15 DEF ShutdownAsk
  <2>16. CASE ShutdownJoin
    BY <2>16 DEF ShutdownJoin, Joined
  <2>17. CASE ShutdownTimeout
    BY <2>17 DEF ShutdownTimeout
  <2>18. ASSUME NEW ok \in BOOLEAN, ShutdownDeinit(ok)
        PROVE RadioOwned'
    BY <2>18 DEF ShutdownDeinit
  <2> QED BY <1>3, <2>1, <2>2, <2>3, <2>4, <2>5, <2>6, <2>7, <2>8, <2>9, <2>10,
    <2>11, <2>12, <2>13, <2>14, <2>15, <2>16, <2>17, <2>18 DEF Lifecycle
<1>4. CASE Host
  <2>1. ASSUME NEW h \in Handles, NEW b \in BOOLEAN, OnConnect(h, b)
        PROVE RadioOwned'
    BY <2>1, OnConnectFacts DEF Radios
  <2>2. ASSUME NEW h \in Handles, NEW b \in BOOLEAN, OnMtuChange(h, b)
        PROVE RadioOwned'
    BY <2>2, OnMtuChangeFacts
  <2>3. ASSUME NEW h \in Handles, NEW b \in BOOLEAN,
    OnAuthenticationComplete(h, b)
        PROVE RadioOwned'
    BY <2>3 DEF OnAuthenticationComplete
  <2>4. ASSUME NEW h \in Handles, NEW b \in BOOLEAN, OnSubscribe(h, b)
        PROVE RadioOwned'
    BY <2>4, OnSubscribeFacts
  <2>5. CASE OnConnectStopAdv
    BY <2>5 DEF OnConnectStopAdv
  <2>6. ASSUME NEW ok \in BOOLEAN, OnConnectSecure(ok)
        PROVE RadioOwned'
    BY <2>6 DEF OnConnectSecure
  <2>7. ASSUME NEW h \in Handles, OnDisconnect(h)
        PROVE RadioOwned'
    BY <2>7 DEF OnDisconnect
  <2>8. CASE OnFault
    BY <2>8 DEF OnFault
  <2> QED BY <1>4, <2>1, <2>2, <2>3, <2>4, <2>5, <2>6, <2>7, <2>8 DEF Host
<1>5. CASE Enqueue
  BY <1>5 DEF Enqueue, Ready
<1>6. CASE UNCHANGED vars
  BY <1>6 DEF vars
<1> QED BY <1>1, <1>2, <1>3, <1>4, <1>5, <1>6 DEF Next

\* Advertising begins in a session only; a stop that gives up its mark has
\* stopped it and seen the phone leave.
LEMMA RadioQuietStep == IInv /\ TypeOK' /\ [Next]_vars => RadioQuiet'
<1> SUFFICES ASSUME IInv, TypeOK', [Next]_vars PROVE RadioQuiet'
  OBVIOUS
<1> USE LifecycleAssumption DEF IInv, TypeOK, Goto, Tasks, Places, RadioQuiet,
  RadioOwned, UsesRadio, Holds, PlaceInv, HalfStoppedInv, PendingInv
<1>1. CASE StopRadio
  <2>1. ASSUME NEW t \in Tasks, NEW ok \in BOOLEAN, StopAdvertising(t, ok)
        PROVE RadioQuiet'
    BY <2>1 DEF StopAdvertising
  <2>2. ASSUME NEW t \in Tasks, ReadHandle(t)
        PROVE RadioQuiet'
    BY <2>2 DEF ReadHandle
  <2>3. ASSUME NEW t \in Tasks, Disconnect(t)
        PROVE RadioQuiet'
    BY <2>3 DEF Disconnect
  <2> QED BY <1>1, <2>1, <2>2, <2>3 DEF StopRadio
<1>2. CASE Worker
  <2>1. CASE WorkerLook
    BY <2>1 DEF WorkerLook
  <2>2. CASE WorkerTake
    BY <2>2 DEF WorkerTake
  <2>3. CASE WorkerTakeTimeout
    BY <2>3 DEF WorkerTakeTimeout
  <2>4. CASE WorkerSettle
    BY <2>4 DEF WorkerSettle, Settle, Settled, States
  <2>5. CASE WorkerPop
    BY <2>5, WorkerPopFacts
  <2>6. CASE WorkerGive
    BY <2>6 DEF WorkerGive
  <2>7. ASSUME NEW ok \in BOOLEAN, WorkerNotify(ok)
        PROVE RadioQuiet'
    BY <2>7, FailLinkFacts DEF WorkerNotify
  <2> QED BY <1>2, <2>1, <2>2, <2>3, <2>4, <2>5, <2>6, <2>7 DEF Worker
<1>3. CASE Lifecycle
  <2>1. CASE CallBegin
    BY <2>1 DEF CallBegin
  <2>2. ASSUME NEW ok \in BOOLEAN, NEW init \in BOOLEAN, BeginTake(ok, init)
        PROVE RadioQuiet'
    BY <2>2 DEF BeginTake
  <2>3. CASE BeginTimeout
    BY <2>3 DEF BeginTimeout
  <2>4. CASE BeginEnable
    BY <2>4, StopStateFacts DEF BeginEnable, States
  <2>5. ASSUME NEW ok \in BOOLEAN, BeginAdvertise(ok)
        PROVE RadioQuiet'
    BY <2>5 DEF BeginAdvertise
  <2>6. CASE BeginUndo
    BY <2>6, StopStateFacts DEF BeginUndo
  <2>7. CASE BeginGive
    BY <2>7 DEF BeginGive
  <2>8. ASSUME NEW op \in {"stop", "shutdown"}, CallStop(op)
        PROVE RadioQuiet'
    BY <2>8, StopStateFacts DEF CallStop
  <2>9. CASE StopTake
    BY <2>9 DEF StopTake
  <2>10. CASE StopTakeTimeout
    BY <2>10 DEF StopTakeTimeout
  <2>11. CASE StopSettle
    BY <2>11 DEF StopSettle, Settle, Settled, States
  <2>12. CASE StopGive
    BY <2>12 DEF StopGive
  <2>13. CASE StopDone
    BY <2>13 DEF StopDone
  <2>14. CASE StopTimeout
    BY <2>14 DEF StopTimeout
  <2>15. CASE ShutdownAsk
    BY <2>15 DEF ShutdownAsk
  <2>16. CASE ShutdownJoin
    BY <2>16 DEF ShutdownJoin
  <2>17. CASE ShutdownTimeout
    BY <2>17 DEF ShutdownTimeout
  <2>18. ASSUME NEW ok \in BOOLEAN, ShutdownDeinit(ok)
        PROVE RadioQuiet'
    BY <2>18 DEF ShutdownDeinit
  <2> QED BY <1>3, <2>1, <2>2, <2>3, <2>4, <2>5, <2>6, <2>7, <2>8, <2>9, <2>10,
    <2>11, <2>12, <2>13, <2>14, <2>15, <2>16, <2>17, <2>18 DEF Lifecycle
<1>4. CASE Host
  <2>1. ASSUME NEW h \in Handles, NEW b \in BOOLEAN, OnConnect(h, b)
        PROVE RadioQuiet'
    BY <2>1, OnConnectFacts DEF Radios
  <2>2. ASSUME NEW h \in Handles, NEW b \in BOOLEAN, OnMtuChange(h, b)
        PROVE RadioQuiet'
    BY <2>2, OnMtuChangeFacts
  <2>3. ASSUME NEW h \in Handles, NEW b \in BOOLEAN,
    OnAuthenticationComplete(h, b)
        PROVE RadioQuiet'
    BY <2>3, FailLinkFacts DEF OnAuthenticationComplete
  <2>4. ASSUME NEW h \in Handles, NEW b \in BOOLEAN, OnSubscribe(h, b)
        PROVE RadioQuiet'
    BY <2>4, OnSubscribeFacts
  <2>5. CASE OnConnectStopAdv
    BY <2>5 DEF OnConnectStopAdv
  <2>6. ASSUME NEW ok \in BOOLEAN, OnConnectSecure(ok)
        PROVE RadioQuiet'
    BY <2>6, FailLinkFacts DEF OnConnectSecure
  <2>7. ASSUME NEW h \in Handles, OnDisconnect(h)
        PROVE RadioQuiet'
    BY <2>7, DroppedFacts DEF OnDisconnect
  <2>8. CASE OnFault
    BY <2>8, FailLinkFacts DEF OnFault
  <2> QED BY <1>4, <2>1, <2>2, <2>3, <2>4, <2>5, <2>6, <2>7, <2>8 DEF Host
<1>5. CASE Enqueue
  BY <1>5, FailLinkFacts DEF Enqueue, Ready
<1>6. CASE UNCHANGED vars
  BY <1>6 DEF vars
<1> QED BY <1>1, <1>2, <1>3, <1>4, <1>5, <1>6 DEF Next

\* Each task knows what it has done so far.
LEMMA PlaceInvStep == IInv /\ TypeOK' /\ [Next]_vars => PlaceInv'
<1> SUFFICES ASSUME IInv, TypeOK', [Next]_vars PROVE PlaceInv'
  OBVIOUS
<1> USE LifecycleAssumption DEF IInv, TypeOK, Goto, Tasks, Places, PlaceInv,
  RadioOwned, UsesRadio, Holds, Stopping, Stopped
<1>1. CASE StopRadio
  <2>1. ASSUME NEW t \in Tasks, NEW ok \in BOOLEAN, StopAdvertising(t, ok)
        PROVE PlaceInv'
    BY <2>1 DEF StopAdvertising
  <2>2. ASSUME NEW t \in Tasks, ReadHandle(t)
        PROVE PlaceInv'
    BY <2>2 DEF ReadHandle
  <2>3. ASSUME NEW t \in Tasks, Disconnect(t)
        PROVE PlaceInv'
    BY <2>3 DEF Disconnect
  <2> QED BY <1>1, <2>1, <2>2, <2>3 DEF StopRadio
<1>2. CASE Worker
  <2>1. CASE WorkerLook
    BY <2>1 DEF WorkerLook, Locals
  <2>2. CASE WorkerTake
    BY <2>2 DEF WorkerTake
  <2>3. CASE WorkerTakeTimeout
    BY <2>3 DEF WorkerTakeTimeout
  <2>4. CASE WorkerSettle
    BY <2>4 DEF WorkerSettle, Settle
  <2>5. CASE WorkerPop
    BY <2>5, WorkerPopFacts
  <2>6. CASE WorkerGive
    BY <2>6 DEF WorkerGive
  <2>7. ASSUME NEW ok \in BOOLEAN, WorkerNotify(ok)
        PROVE PlaceInv'
    BY <2>7, FailLinkFacts DEF WorkerNotify
  <2> QED BY <1>2, <2>1, <2>2, <2>3, <2>4, <2>5, <2>6, <2>7 DEF Worker
<1>3. CASE Lifecycle
  <2>1. CASE CallBegin
    BY <2>1 DEF CallBegin
  <2>2. ASSUME NEW ok \in BOOLEAN, NEW init \in BOOLEAN, BeginTake(ok, init)
        PROVE PlaceInv'
    <3>1. /\ pc["life"] = "begin" /\ pc'["life"] \in {"enable", "give"}
          /\ pc'["worker"] \in {pc["worker"], "look"} /\ pc'["host"] =
            pc["host"]
          /\ pc'["worker"] # pc["worker"] => ok
      BY <2>2 DEF BeginTake
    <3>2. /\ UNCHANGED <<st, radio, conns, reg>>
          /\ stack' = [stack EXCEPT !.init = init, !.failed = ~ok]
          /\ stack.init \/ ok => init
      BY <2>2 DEF BeginTake
    <3>3. stack'.init = init
      BY <3>2
    <3> QED BY <3>1, <3>2, <3>3 DEF Stacks
  <2>3. CASE BeginTimeout
    BY <2>3 DEF BeginTimeout
  <2>4. CASE BeginEnable
    BY <2>4 DEF BeginEnable, States
  <2>5. ASSUME NEW ok \in BOOLEAN, BeginAdvertise(ok)
        PROVE PlaceInv'
    BY <2>5 DEF BeginAdvertise
  <2>6. CASE BeginUndo
    BY <2>6 DEF BeginUndo
  <2>7. CASE BeginGive
    BY <2>7 DEF BeginGive
  <2>8. ASSUME NEW op \in {"stop", "shutdown"}, CallStop(op)
        PROVE PlaceInv'
    BY <2>8, StopStateFacts DEF CallStop
  <2>9. CASE StopTake
    BY <2>9 DEF StopTake
  <2>10. CASE StopTakeTimeout
    BY <2>10 DEF StopTakeTimeout
  <2>11. CASE StopSettle
    BY <2>11 DEF StopSettle, Settle
  <2>12. CASE StopGive
    BY <2>12 DEF StopGive
  <2>13. CASE StopDone
    BY <2>13 DEF StopDone
  <2>14. CASE StopTimeout
    BY <2>14 DEF StopTimeout
  <2>15. CASE ShutdownAsk
    BY <2>15 DEF ShutdownAsk
  <2>16. CASE ShutdownJoin
    <3>1. /\ pc["life"] = "join" /\ pc'["life"] \in {"deinit", "idle"}
          /\ pc'["worker"] = "none" /\ pc'["host"] = pc["host"]
      BY <2>16 DEF ShutdownJoin
    <3>2. UNCHANGED <<st, radio, conns, stack, io, reg>>
      BY <2>16 DEF ShutdownJoin
    <3> QED BY <3>1, <3>2
  <2>17. CASE ShutdownTimeout
    BY <2>17 DEF ShutdownTimeout
  <2>18. ASSUME NEW ok \in BOOLEAN, ShutdownDeinit(ok)
        PROVE PlaceInv'
    BY <2>18 DEF ShutdownDeinit, Radios
  <2> QED BY <1>3, <2>1, <2>2, <2>3, <2>4, <2>5, <2>6, <2>7, <2>8, <2>9, <2>10,
    <2>11, <2>12, <2>13, <2>14, <2>15, <2>16, <2>17, <2>18 DEF Lifecycle
<1>4. CASE Host
  <2>1. ASSUME NEW h \in Handles, NEW b \in BOOLEAN, OnConnect(h, b)
        PROVE PlaceInv'
    BY <2>1, OnConnectFacts DEF Radios, Locals
  <2>2. ASSUME NEW h \in Handles, NEW b \in BOOLEAN, OnMtuChange(h, b)
        PROVE PlaceInv'
    BY <2>2, OnMtuChangeFacts
  <2>3. ASSUME NEW h \in Handles, NEW b \in BOOLEAN,
    OnAuthenticationComplete(h, b)
        PROVE PlaceInv'
    BY <2>3, FailLinkFacts DEF OnAuthenticationComplete
  <2>4. ASSUME NEW h \in Handles, NEW b \in BOOLEAN, OnSubscribe(h, b)
        PROVE PlaceInv'
    BY <2>4, OnSubscribeFacts
  <2>5. CASE OnConnectStopAdv
    BY <2>5 DEF OnConnectStopAdv
  <2>6. ASSUME NEW ok \in BOOLEAN, OnConnectSecure(ok)
        PROVE PlaceInv'
    BY <2>6, FailLinkFacts DEF OnConnectSecure
  <2>7. ASSUME NEW h \in Handles, OnDisconnect(h)
        PROVE PlaceInv'
    BY <2>7, DroppedFacts DEF OnDisconnect
  <2>8. CASE OnFault
    BY <2>8, FailLinkFacts DEF OnFault
  <2> QED BY <1>4, <2>1, <2>2, <2>3, <2>4, <2>5, <2>6, <2>7, <2>8 DEF Host
<1>5. CASE Enqueue
  BY <1>5, FailLinkFacts DEF Enqueue, Ready
<1>6. CASE UNCHANGED vars
  BY <1>6 DEF vars
<1> QED BY <1>1, <1>2, <1>3, <1>4, <1>5, <1>6 DEF Next

\* Nobody starts advertising while another task is inside stopRadio.
LEMMA HalfStoppedInvStep == IInv /\ TypeOK' /\ [Next]_vars => HalfStoppedInv'
<1> SUFFICES ASSUME IInv, TypeOK', [Next]_vars PROVE HalfStoppedInv'
  OBVIOUS
<1> USE LifecycleAssumption DEF IInv, TypeOK, Goto, Tasks, Places,
  HalfStoppedInv, RadioOwned, UsesRadio, Holds
<1>1. CASE StopRadio
  <2>1. ASSUME NEW t \in Tasks, NEW ok \in BOOLEAN, StopAdvertising(t, ok)
        PROVE HalfStoppedInv'
    BY <2>1 DEF StopAdvertising, Locals
  <2>2. ASSUME NEW t \in Tasks, ReadHandle(t)
        PROVE HalfStoppedInv'
    BY <2>2 DEF ReadHandle
  <2>3. ASSUME NEW t \in Tasks, Disconnect(t)
        PROVE HalfStoppedInv'
    BY <2>3 DEF Disconnect
  <2> QED BY <1>1, <2>1, <2>2, <2>3 DEF StopRadio
<1>2. CASE Worker
  <2>1. CASE WorkerLook
    BY <2>1 DEF WorkerLook, Locals
  <2>2. CASE WorkerTake
    BY <2>2 DEF WorkerTake
  <2>3. CASE WorkerTakeTimeout
    BY <2>3 DEF WorkerTakeTimeout
  <2>4. CASE WorkerSettle
    BY <2>4 DEF WorkerSettle, Settle
  <2>5. CASE WorkerPop
    BY <2>5, WorkerPopFacts
  <2>6. CASE WorkerGive
    BY <2>6 DEF WorkerGive
  <2>7. ASSUME NEW ok \in BOOLEAN, WorkerNotify(ok)
        PROVE HalfStoppedInv'
    BY <2>7 DEF WorkerNotify
  <2> QED BY <1>2, <2>1, <2>2, <2>3, <2>4, <2>5, <2>6, <2>7 DEF Worker
<1>3. CASE Lifecycle
  <2>1. CASE CallBegin
    BY <2>1 DEF CallBegin
  <2>2. ASSUME NEW ok \in BOOLEAN, NEW init \in BOOLEAN, BeginTake(ok, init)
        PROVE HalfStoppedInv'
    BY <2>2 DEF BeginTake
  <2>3. CASE BeginTimeout
    BY <2>3 DEF BeginTimeout
  <2>4. CASE BeginEnable
    BY <2>4 DEF BeginEnable
  <2>5. ASSUME NEW ok \in BOOLEAN, BeginAdvertise(ok)
        PROVE HalfStoppedInv'
    BY <2>5 DEF BeginAdvertise
  <2>6. CASE BeginUndo
    BY <2>6 DEF BeginUndo
  <2>7. CASE BeginGive
    BY <2>7 DEF BeginGive
  <2>8. ASSUME NEW op \in {"stop", "shutdown"}, CallStop(op)
        PROVE HalfStoppedInv'
    BY <2>8 DEF CallStop, Locals
  <2>9. CASE StopTake
    BY <2>9 DEF StopTake
  <2>10. CASE StopTakeTimeout
    BY <2>10 DEF StopTakeTimeout
  <2>11. CASE StopSettle
    BY <2>11 DEF StopSettle, Settle
  <2>12. CASE StopGive
    BY <2>12 DEF StopGive
  <2>13. CASE StopDone
    BY <2>13 DEF StopDone
  <2>14. CASE StopTimeout
    BY <2>14 DEF StopTimeout
  <2>15. CASE ShutdownAsk
    BY <2>15 DEF ShutdownAsk
  <2>16. CASE ShutdownJoin
    BY <2>16 DEF ShutdownJoin
  <2>17. CASE ShutdownTimeout
    BY <2>17 DEF ShutdownTimeout
  <2>18. ASSUME NEW ok \in BOOLEAN, ShutdownDeinit(ok)
        PROVE HalfStoppedInv'
    BY <2>18 DEF ShutdownDeinit
  <2> QED BY <1>3, <2>1, <2>2, <2>3, <2>4, <2>5, <2>6, <2>7, <2>8, <2>9, <2>10,
    <2>11, <2>12, <2>13, <2>14, <2>15, <2>16, <2>17, <2>18 DEF Lifecycle
<1>4. CASE Host
  <2>1. ASSUME NEW h \in Handles, NEW b \in BOOLEAN, OnConnect(h, b)
        PROVE HalfStoppedInv'
    BY <2>1, OnConnectFacts DEF Radios
  <2>2. ASSUME NEW h \in Handles, NEW b \in BOOLEAN, OnMtuChange(h, b)
        PROVE HalfStoppedInv'
    BY <2>2, OnMtuChangeFacts
  <2>3. ASSUME NEW h \in Handles, NEW b \in BOOLEAN,
    OnAuthenticationComplete(h, b)
        PROVE HalfStoppedInv'
    BY <2>3 DEF OnAuthenticationComplete
  <2>4. ASSUME NEW h \in Handles, NEW b \in BOOLEAN, OnSubscribe(h, b)
        PROVE HalfStoppedInv'
    BY <2>4, OnSubscribeFacts
  <2>5. CASE OnConnectStopAdv
    BY <2>5 DEF OnConnectStopAdv
  <2>6. ASSUME NEW ok \in BOOLEAN, OnConnectSecure(ok)
        PROVE HalfStoppedInv'
    BY <2>6 DEF OnConnectSecure
  <2>7. ASSUME NEW h \in Handles, OnDisconnect(h)
        PROVE HalfStoppedInv'
    BY <2>7 DEF OnDisconnect
  <2>8. CASE OnFault
    BY <2>8 DEF OnFault
  <2> QED BY <1>4, <2>1, <2>2, <2>3, <2>4, <2>5, <2>6, <2>7, <2>8 DEF Host
<1>5. CASE Enqueue
  BY <1>5 DEF Enqueue, Ready
<1>6. CASE UNCHANGED vars
  BY <1>6 DEF vars
<1> QED BY <1>1, <1>2, <1>3, <1>4, <1>5, <1>6 DEF Next

\* Between WorkerPop and WorkerNotify the phone may leave; the link is then new.
LEMMA HandInvStep == IInv /\ TypeOK' /\ [Next]_vars => HandInv'
<1> SUFFICES ASSUME IInv, TypeOK', [Next]_vars PROVE HandInv'
  OBVIOUS
<1> USE LifecycleAssumption DEF IInv, TypeOK, Goto, Tasks, Places, HandInv,
  QueueInv, Ready, Frames, Nobody
<1>1. CASE StopRadio
  <2>1. ASSUME NEW t \in Tasks, NEW ok \in BOOLEAN, StopAdvertising(t, ok)
        PROVE HandInv'
    BY <2>1 DEF StopAdvertising
  <2>2. ASSUME NEW t \in Tasks, ReadHandle(t)
        PROVE HandInv'
    BY <2>2 DEF ReadHandle
  <2>3. ASSUME NEW t \in Tasks, Disconnect(t)
        PROVE HandInv'
    BY <2>3 DEF Disconnect
  <2> QED BY <1>1, <2>1, <2>2, <2>3 DEF StopRadio
<1>2. CASE Worker
  <2>1. CASE WorkerLook
    BY <2>1 DEF WorkerLook
  <2>2. CASE WorkerTake
    BY <2>2 DEF WorkerTake
  <2>3. CASE WorkerTakeTimeout
    BY <2>3 DEF WorkerTakeTimeout
  <2>4. CASE WorkerSettle
    BY <2>4 DEF WorkerSettle, Settle
  <2>5. CASE WorkerPop
    <3>1. st.link \in Nat /\ st'.link = st.link /\ st'.phone = st.phone
      BY <2>5, WorkerPopFacts DEF States
    <3>2. CASE UNCHANGED <<reg, pc>>
      BY <3>1, <3>2
    <3>3. CASE Ready(st) /\ reg'.worker.item.link = st.link
      BY <3>1, <3>3
    <3> QED BY <2>5, <3>2, <3>3, WorkerPopFacts
  <2>6. CASE WorkerGive
    BY <2>6 DEF WorkerGive
  <2>7. ASSUME NEW ok \in BOOLEAN, WorkerNotify(ok)
        PROVE HandInv'
    BY <2>7 DEF WorkerNotify
  <2> QED BY <1>2, <2>1, <2>2, <2>3, <2>4, <2>5, <2>6, <2>7 DEF Worker
<1>3. CASE Lifecycle
  <2>1. CASE CallBegin
    BY <2>1 DEF CallBegin
  <2>2. ASSUME NEW ok \in BOOLEAN, NEW init \in BOOLEAN, BeginTake(ok, init)
        PROVE HandInv'
    BY <2>2 DEF BeginTake
  <2>3. CASE BeginTimeout
    BY <2>3 DEF BeginTimeout
  <2>4. CASE BeginEnable
    <3>1. CASE st'.link = st.link
      BY <2>4, <3>1, StopStateFacts DEF BeginEnable, States
    <3>2. CASE st'.link = Bump(st.link)
      BY <2>4, <3>2, HandBumped DEF BeginEnable
    <3> QED BY <2>4, <3>1, <3>2, StopStateFacts DEF BeginEnable, States
  <2>5. ASSUME NEW ok \in BOOLEAN, BeginAdvertise(ok)
        PROVE HandInv'
    BY <2>5 DEF BeginAdvertise
  <2>6. CASE BeginUndo
    <3>1. CASE st'.link = st.link
      BY <2>6, <3>1, StopStateFacts DEF BeginUndo
    <3>2. CASE st'.link = Bump(st.link)
      BY <2>6, <3>2, HandBumped DEF BeginUndo
    <3> QED BY <2>6, <3>1, <3>2, StopStateFacts DEF BeginUndo, States
  <2>7. CASE BeginGive
    BY <2>7 DEF BeginGive
  <2>8. ASSUME NEW op \in {"stop", "shutdown"}, CallStop(op)
        PROVE HandInv'
    <3>1. CASE st'.link = st.link
      BY <2>8, <3>1, StopStateFacts DEF CallStop
    <3>2. CASE st'.link = Bump(st.link)
      BY <2>8, <3>2, HandBumped DEF CallStop
    <3> QED BY <2>8, <3>1, <3>2, StopStateFacts DEF CallStop, States
  <2>9. CASE StopTake
    BY <2>9 DEF StopTake
  <2>10. CASE StopTakeTimeout
    BY <2>10 DEF StopTakeTimeout
  <2>11. CASE StopSettle
    BY <2>11 DEF StopSettle, Settle
  <2>12. CASE StopGive
    BY <2>12 DEF StopGive
  <2>13. CASE StopDone
    BY <2>13 DEF StopDone
  <2>14. CASE StopTimeout
    BY <2>14 DEF StopTimeout
  <2>15. CASE ShutdownAsk
    BY <2>15 DEF ShutdownAsk
  <2>16. CASE ShutdownJoin
    BY <2>16 DEF ShutdownJoin
  <2>17. CASE ShutdownTimeout
    BY <2>17 DEF ShutdownTimeout
  <2>18. ASSUME NEW ok \in BOOLEAN, ShutdownDeinit(ok)
        PROVE HandInv'
    BY <2>18 DEF ShutdownDeinit
  <2> QED BY <1>3, <2>1, <2>2, <2>3, <2>4, <2>5, <2>6, <2>7, <2>8, <2>9, <2>10,
    <2>11, <2>12, <2>13, <2>14, <2>15, <2>16, <2>17, <2>18 DEF Lifecycle
<1>4. CASE Host
  <2>1. ASSUME NEW h \in Handles, NEW b \in BOOLEAN, OnConnect(h, b)
        PROVE HandInv'
    BY <2>1, OnConnectFacts, BumpType DEF States, Radios, Locals
  <2>2. ASSUME NEW h \in Handles, NEW b \in BOOLEAN, OnMtuChange(h, b)
        PROVE HandInv'
    <3>1. CASE st'.link = st.link
      BY <2>2, <3>1, OnMtuChangeFacts DEF OnMtuChange
    <3>2. CASE st'.link = Bump(st.link)
      BY <2>2, <3>2, HandBumped DEF OnMtuChange
    <3> QED BY <2>2, <3>1, <3>2, OnMtuChangeFacts DEF OnMtuChange, States
  <2>3. ASSUME NEW h \in Handles, NEW b \in BOOLEAN,
    OnAuthenticationComplete(h, b)
        PROVE HandInv'
    <3>1. CASE st'.link = st.link
      BY <2>3, <3>1, FailLinkFacts DEF OnAuthenticationComplete
    <3>2. CASE st'.link = Bump(st.link)
      BY <2>3, <3>2, HandBumped DEF OnAuthenticationComplete
    <3> QED BY <2>3, <3>1, <3>2, FailLinkFacts DEF OnAuthenticationComplete,
      States
  <2>4. ASSUME NEW h \in Handles, NEW b \in BOOLEAN, OnSubscribe(h, b)
        PROVE HandInv'
    <3>1. CASE st'.link = st.link
      BY <2>4, <3>1, OnSubscribeFacts DEF OnSubscribe
    <3>2. CASE st'.link = Bump(st.link)
      BY <2>4, <3>2, HandBumped DEF OnSubscribe
    <3> QED BY <2>4, <3>1, <3>2, OnSubscribeFacts DEF OnSubscribe, States
  <2>5. CASE OnConnectStopAdv
    BY <2>5 DEF OnConnectStopAdv
  <2>6. ASSUME NEW ok \in BOOLEAN, OnConnectSecure(ok)
        PROVE HandInv'
    <3>1. CASE st'.link = st.link
      BY <2>6, <3>1, FailLinkFacts DEF OnConnectSecure
    <3>2. CASE st'.link = Bump(st.link)
      BY <2>6, <3>2, HandBumped DEF OnConnectSecure
    <3> QED BY <2>6, <3>1, <3>2, FailLinkFacts DEF OnConnectSecure, States
  <2>7. ASSUME NEW h \in Handles, OnDisconnect(h)
        PROVE HandInv'
    BY <2>7, DroppedFacts, BumpType DEF OnDisconnect, States, Locals
  <2>8. CASE OnFault
    <3>1. CASE st'.link = st.link
      BY <2>8, <3>1, FailLinkFacts DEF OnFault
    <3>2. CASE st'.link = Bump(st.link)
      BY <2>8, <3>2, HandBumped DEF OnFault
    <3> QED BY <2>8, <3>1, <3>2, FailLinkFacts DEF OnFault, States
  <2> QED BY <1>4, <2>1, <2>2, <2>3, <2>4, <2>5, <2>6, <2>7, <2>8 DEF Host
<1>5. CASE Enqueue
  BY <1>5, FailLinkFacts, BumpType DEF Enqueue, Ready, States, Locals
<1>6. CASE UNCHANGED vars
  BY <1>6 DEF vars
<1> QED BY <1>1, <1>2, <1>3, <1>4, <1>5, <1>6 DEF Next

LEMMA InitIInv == Init => IInv
<1> SUFFICES ASSUME Init PROVE IInv
  OBVIOUS
<1>1. TypeOK
  BY TypeInit
<1> USE DEF Init, Fresh
<1>2. PendingInv /\ QueueInv
  BY EmptyQueue DEF PendingInv, QueueInv
<1>3. RadioOwned /\ RadioQuiet
  BY DEF RadioOwned, RadioQuiet, Holds, UsesRadio, Tasks
<1>4. PlaceInv
  BY DEF PlaceInv, Stopping, Stopped
<1>5. HalfStoppedInv /\ HandInv
  BY DEF HalfStoppedInv, HandInv, Tasks
<1> QED BY <1>1, <1>2, <1>3, <1>4, <1>5 DEF IInv

LEMMA StepIInv == IInv /\ [Next]_vars => IInv'
<1> SUFFICES ASSUME IInv, [Next]_vars PROVE IInv'
  OBVIOUS
<1>1. TypeOK'
  BY TypeStep DEF IInv
<1> QED BY <1>1, PendingInvStep, QueueInvStep, RadioOwnedStep, RadioQuietStep,
           PlaceInvStep, HalfStoppedInvStep, HandInvStep DEF IInv

\* The inductive invariant holds in every reachable state.
THEOREM Inductive == Spec => []IInv
BY InitIInv, StepIInv, PTL DEF Spec

-----------------------------------------------------------------------------
(* What the runs check on small instances.                                   *)

\* The queue holds frames of the link of today only, and a disconnection that
\* is waited for has a connection to end: for any number of phones and frames.
THEOREM LinkSafe == Spec => []LinkInv
<1>1. IInv => LinkInv
  BY DEF IInv, LinkInv
<1> QED BY <1>1, Inductive, PTL

\* NimBLE is used by the holder of ioMutex alone, while its objects exist.
THEOREM RadioExclusive == Spec => []RadioOwned
<1>1. IInv => RadioOwned
  BY DEF IInv
<1> QED BY <1>1, Inductive, PTL

\* A session that is over and has nothing left to stop is silent.
THEOREM QuietWhenStopped == Spec => []RadioQuiet
<1>1. IInv => RadioQuiet
  BY DEF IInv
<1> QED BY <1>1, Inductive, PTL
================================================================================
