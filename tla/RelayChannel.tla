----------------------------- MODULE RelayChannel -----------------------------
(***************************************************************************)
(* One of the four socket channels that the recorder tunnels through a     *)
(* phone over BLE: the firmware end (src/src/connectivity: class Channel,  *)
(* its TxWindow and RxWindow, the outgoing queue, the worker task and the  *)
(* calls open, write, read, close) and the phone end (RelayEngine,         *)
(* SendWindow and the serial GATT operation queue of GattTransport).       *)
(*                                                                         *)
(* Two streams of bytes run through it.  Every thread is modelled with the *)
(* grain of its critical sections: a firmware call is one step per         *)
(* StateLock, a phone worker one step per synchronized block and one per   *)
(* blocking socket call.  Time is abstracted: a deadline may pass at any   *)
(* moment when Timeouts is TRUE and never when it is FALSE.                *)
(*                                                                         *)
(* Abstractions.  A payload is a sequence of bytes <<session, position>>,  *)
(* so that a byte of another session or place is told apart; validation of *)
(* host names and of UTF-8 is the choice `allowed'.  The Handler.post queue *)
(* of the phone and its GATT queue are one FIFO (pq).  Pairing, MTU and    *)
(* the radio are in BleLifecycle; here a link is up or down.               *)
(***************************************************************************)
EXTENDS Integers, Sequences, SequencesExt, FiniteSets

CONSTANTS
  Window,      \* kWindow = SendWindow.CAPACITY: unacknowledged DATA per direction
  SeqNos,      \* number of sequence numbers, 65536 on the wire
  EpochNos,    \* number of epochs, 65536 on the wire
  MaxPayload,  \* bytes in a full DATA frame
  ReqLen,      \* bound: bytes the firmware writes in one session
  RespLen,     \* bound: bytes the server sends in one session
  MaxOpens,    \* bound: sessions
  MaxLinks,    \* bound: BLE links
  Timeouts     \* BOOLEAN: whether deadlines may expire

ASSUME RelayAssumption ==
  /\ Window \in Nat \ {0} /\ SeqNos \in Nat /\ SeqNos > Window
  /\ EpochNos \in Nat /\ EpochNos > 1
  /\ MaxPayload \in Nat \ {0}
  /\ ReqLen \in Nat /\ RespLen \in Nat
  /\ MaxOpens \in Nat \ {0} /\ MaxLinks \in Nat \ {0}
  /\ Timeouts \in BOOLEAN

\* The sessions of one behaviour do not turn the 16-bit epoch counter round.
ASSUME EpochsAssumption == MaxOpens <= EpochNos

VARIABLES
  esp,      \* firmware: [up, q, ch]: link ready, outgoing queue, class Channel
  client,   \* the caller of open(): [pc, gen, epoch]
  writer,   \* the loop of write(): [on, gen, left]
  inHand,   \* what the worker took from the queue and is about to notify
  toPhone,  \* notifications on their way to the phone
  toEsp,    \* characteristic writes on their way to the recorder
  phoneUp,  \* the phone's engine and GATT session are alive
  used,     \* usedEpochs of the phone's engine
  ph,       \* the phone's Channel object
  pq,       \* the phone's queue of GATT writes
  active,   \* the GATT write whose callback is awaited
  link,     \* BLE links so far
  sess,     \* sessions so far (the last one is the current one)
  phase, written, served, fetched, got   \* history, see RelayPipe

espVars   == <<esp, client, writer, inHand>>
phoneVars == <<phoneUp, used, ph, pq, active>>
airVars   == <<toPhone, toEsp>>
history   == <<sess, phase, written, served, fetched, got>>
vars      == <<esp, client, writer, inHand, toPhone, toEsp, phoneUp, used, ph,
               pq, active, link, sess, phase, written, served, fetched, got>>

Sessions  == 1..MaxOpens
Byte(s, i) == <<s, i>>
QueueSize == 2 * Window + 4      \* kQueueSize: the share of one channel
Nothing   == <<>>                \* an empty hand, an idle GATT

Least(a, b) == IF a < b THEN a ELSE b
NextSeq(n)  == (n + 1) % SeqNos

\* An OPEN carries its session where the wire has seq = 0: the receiver copies
\* it into its history and decides nothing by it.
Frame(type, epoch, seq, data) ==
  [type |-> type, epoch |-> epoch, seq |-> seq, data |-> data]

\* n bytes of session s starting after position from.
Payload(s, from, n) == [k \in 1..n |-> Byte(s, from + k)]

-----------------------------------------------------------------------------
(* The firmware's class Channel, with its TxWindow (next, oldest, count) and *)
(* its RxWindow (expected, rx).                                              *)

NewChannel ==
  [state |-> "Idle", epoch |-> 0, gen |-> 0, next |-> 0, oldest |-> 0,
   count |-> 0, expected |-> 0, rx |-> <<>>]

\* Mutant of start(): the windows keep their numbers.
StartKeepsWindows(c) ==
  [c EXCEPT !.state = "Opening", !.epoch = (@ + 1) % EpochNos, !.gen = @ + 1,
            !.count = 0, !.rx = <<>>]

Start(c) ==
  [c EXCEPT !.state = "Opening", !.epoch = (@ + 1) % EpochNos, !.gen = @ + 1,
            !.next = 0, !.oldest = 0, !.count = 0, !.expected = 0, !.rx = <<>>]

Abort(c) ==
  [c EXCEPT !.state = "Aborted", !.gen = @ + 1, !.count = 0, !.rx = <<>>]

Release(c) == [Abort(c) EXCEPT !.state = "Idle"]

\* TxWindow::reserve, k times in a row: the sequence numbers handed out are
\* next, next + 1, ...
Reserve(c, k) == [c EXCEPT !.next = (@ + k) % SeqNos, !.count = @ + k]

\* Mutant of acknowledge(): the credit is not given back.
AcknowledgeKeepsCount(c) == [c EXCEPT !.oldest = NextSeq(@)]

Acknowledge(c) == [c EXCEPT !.oldest = NextSeq(@), !.count = @ - 1]

Push(c, f) ==
  [c EXCEPT !.expected = NextSeq(@),
            !.rx = Append(@, [seq |-> f.seq, data |-> f.data])]

\* The frames Channel::receive takes as legal in the state it is in.
Acceptable(c, f) ==
  \/ f.type = "OPENED" /\ c.state = "Opening"
  \/ f.type = "DATA" /\ c.state = "Open" /\ Len(c.rx) < Window
                     /\ f.seq = c.expected
  \/ f.type = "ACK" /\ c.state = "Open" /\ c.count > 0 /\ f.seq = c.oldest
  \/ f.type = "CLOSE" /\ c.state # "PeerClosed" /\ c.count = 0

\* The channel after a legal frame.
Received(c, f) ==
  CASE f.type = "OPENED" -> [c EXCEPT !.state = "Open"]
    [] f.type = "DATA"   -> Push(c, f)
    [] f.type = "ACK"    -> Acknowledge(c)
    [] f.type = "CLOSE"  -> [c EXCEPT !.state = "PeerClosed"]

-----------------------------------------------------------------------------
(* Helpers of ble_relay.cpp that run under StateLock, on e = esp.            *)

FailLink(e) ==
  [e EXCEPT !.up = FALSE, !.q = <<>>,
            !.ch = IF @.state = "Idle" THEN @ ELSE Abort(@)]

\* Queued frames carry the generation of the channel at that moment.
EnqueueAll(e, frames) ==
  IF ~e.up THEN e
  ELSE IF Len(e.q) + Len(frames) > QueueSize THEN FailLink(e)
  ELSE [e EXCEPT !.q = @ \o [i \in DOMAIN frames |->
                              [frame |-> frames[i], gen |-> e.ch.gen]]]

Enqueue(e, type, seq) == EnqueueAll(e, <<Frame(type, e.ch.epoch, seq, <<>>)>>)

\* abortChannelLocked: abort first, so that ERROR carries the new generation.
AbortChannel(e) ==
  IF e.ch.state = "Idle" THEN e
  ELSE Enqueue([e EXCEPT !.ch = Abort(@)], "ERROR", 0)

-----------------------------------------------------------------------------
Init ==
  /\ esp     = [up |-> TRUE, q |-> <<>>, ch |-> NewChannel]
  /\ client  = [pc |-> "none", gen |-> 0, epoch |-> 0]
  /\ writer  = [on |-> FALSE, gen |-> 0, left |-> 0]
  /\ inHand  = Nothing
  /\ toPhone = <<>> /\ toEsp = <<>>
  /\ phoneUp = TRUE /\ used = {} /\ pq = <<>> /\ active = Nothing
  /\ ph = [st |-> "none", epoch |-> 0, sess |-> 0, rd |-> "off", held |-> <<>>,
           eof |-> FALSE, next |-> 0, oldest |-> 0, count |-> 0,
           expected |-> 0, rx |-> <<>>, wr |-> "off", batch |-> 0]
  /\ link = 1 /\ sess = 0
  /\ phase   = [s \in Sessions |-> "none"]
  /\ written = [s \in Sessions |-> 0]
  /\ served  = [s \in Sessions |-> <<>>]
  /\ fetched = [s \in Sessions |-> 0]
  /\ got     = [s \in Sessions |-> <<>>]

-----------------------------------------------------------------------------
(* The firmware's calls.  A client is the task that called open(); once it   *)
(* holds the channel it writes, reads and closes it.                         *)

\* The client gives the channel back; what it saw of the session is recorded.
Leave(how) ==
  /\ client' = [client EXCEPT !.pc = "none"]
  /\ phase' = [phase EXCEPT ![sess] = how]

\* open(): take the idle channel and queue OPEN with the new epoch.  A full
\* queue brings the link down and gives the channel back at once.
Open ==
  /\ client.pc = "none" /\ sess < MaxOpens
  /\ esp.up /\ esp.ch.state = "Idle"
  /\ LET started == [esp EXCEPT !.ch = Start(@)]
         queued  == Enqueue(started, "OPEN", sess + 1)
     IN IF queued.up
        THEN /\ esp' = queued
             /\ client' = [pc |-> "opening", gen |-> queued.ch.gen,
                           epoch |-> queued.ch.epoch]
             /\ phase' = [phase EXCEPT ![sess + 1] = "open"]
             /\ sess' = sess + 1
        ELSE /\ esp' = [queued EXCEPT !.ch = Release(@)]
             /\ UNCHANGED <<client, phase, sess>>
  /\ UNCHANGED <<writer, inHand, airVars, phoneVars, link, written, served,
                 fetched, got>>

\* open(), an iteration of its wait: the token was invalidated.
OpenInvalid ==
  /\ client.pc = "opening"
  /\ esp.ch.gen # client.gen \/ ~esp.up
  /\ esp' = IF esp.ch.state = "Aborted" /\ esp.ch.epoch = client.epoch
            THEN [esp EXCEPT !.ch = Release(@)] ELSE esp
  /\ Leave("dead")
  /\ UNCHANGED <<writer, inHand, airVars, phoneVars, link, sess, written,
                 served, fetched, got>>

OpenWaiting == client.pc = "opening" /\ esp.ch.gen = client.gen /\ esp.up

\* open() returns the channel.
OpenDone ==
  /\ OpenWaiting /\ esp.ch.state = "Open"
  /\ client' = [client EXCEPT !.pc = "using"]
  /\ UNCHANGED <<esp, writer, inHand, airVars, phoneVars, link, history>>

\* open() gives up: the peer closed or the deadline passed.
OpenTimeout ==
  /\ OpenWaiting /\ esp.ch.state # "Open"
  /\ esp.ch.state # "Opening" \/ Timeouts
  /\ esp' = Enqueue([esp EXCEPT !.ch = Release(@)], "CLOSE", 0)
  /\ Leave("dead")
  /\ UNCHANGED <<writer, inHand, airVars, phoneVars, link, sess, written,
                 served, fetched, got>>

\* write(): the call takes the writing flag.
WriteCall(n) ==
  /\ client.pc = "using" /\ ~writer.on
  /\ esp.up /\ esp.ch.state = "Open"
  /\ n \in 1..(ReqLen - written[sess])
  /\ writer' = [on |-> TRUE, gen |-> esp.ch.gen, left |-> n]
  /\ UNCHANGED <<esp, client, inHand, airVars, phoneVars, link, history>>

\* The DATA frames one pass of write() cuts from what is left of the request.
WriteFrames(k) ==
  [i \in 1..k |->
     LET from == written[sess] + (i - 1) * MaxPayload
         left == writer.left - (i - 1) * MaxPayload
     IN Frame("DATA", esp.ch.epoch, (esp.ch.next + i - 1) % SeqNos,
              Payload(sess, from, Least(left, MaxPayload)))]

\* write(), one pass under the lock: queue as many frames as there are credits;
\* then done, out of time, or waiting for credit.
WritePass ==
  /\ writer.on /\ writer.gen = esp.ch.gen
  /\ esp.up /\ esp.ch.state = "Open"
  /\ LET need  == (writer.left + MaxPayload - 1) \div MaxPayload
         k     == Least(need, Window - esp.ch.count)
         bytes == Least(writer.left, k * MaxPayload)
         sent  == EnqueueAll([esp EXCEPT !.ch = Reserve(@, k)], WriteFrames(k))
     IN /\ k > 0 \/ Timeouts
        /\ IF sent.up
           THEN /\ written' = [written EXCEPT ![sess] = @ + bytes]
                /\ \/ /\ esp' = sent
                      /\ writer' = [writer EXCEPT !.left = @ - bytes,
                                                  !.on = bytes < writer.left]
                   \/ /\ Timeouts /\ bytes < writer.left
                      /\ esp' = AbortChannel(sent)
                      /\ writer' = [writer EXCEPT !.on = FALSE]
           ELSE /\ esp' = AbortChannel(sent)
                /\ writer' = [writer EXCEPT !.on = FALSE]
                /\ UNCHANGED written
  /\ UNCHANGED <<client, inHand, airVars, phoneVars, link, sess, phase, served,
                 fetched, got>>

\* write() finds that its channel is gone, or no longer open.
WriteBroken ==
  /\ writer.on
  /\ \/ writer.gen # esp.ch.gen /\ esp' = esp
     \/ /\ writer.gen = esp.ch.gen
        /\ ~esp.up \/ esp.ch.state # "Open"
        /\ esp' = AbortChannel(esp)
  /\ writer' = [writer EXCEPT !.on = FALSE]
  /\ UNCHANGED <<client, inHand, airVars, phoneVars, link, history>>

\* read(): at most n bytes of the oldest slot; ACK when the slot is drained.
Read(n) ==
  /\ client.pc = "using" /\ esp.up
  /\ esp.ch.state \in {"Open", "PeerClosed"} /\ esp.ch.rx # <<>>
  /\ LET slot    == Head(esp.ch.rx)
         taken   == SubSeq(slot.data, 1, n)
         rest    == SubSeq(slot.data, n + 1, Len(slot.data))
         drained == rest = <<>>
         after   == [esp EXCEPT !.ch.rx =
                       IF drained THEN Tail(@)
                       ELSE <<[slot EXCEPT !.data = rest]>> \o Tail(@)]
         acked   == IF drained THEN Enqueue(after, "ACK", slot.seq) ELSE after
     IN /\ n \in 1..Len(slot.data)
        /\ esp' = acked
        /\ got' = IF acked.up THEN [got EXCEPT ![sess] = @ \o taken] ELSE got
  /\ UNCHANGED <<client, writer, inHand, airVars, phoneVars, link, sess, phase,
                 written, served, fetched>>

\* What the client can tell at that point: an orderly end, or a dead channel.
SawEndOfFile == esp.up /\ esp.ch.state = "PeerClosed" /\ esp.ch.rx = <<>>

\* close(): an explicit cancellation, at any moment.
Close ==
  /\ client.pc = "using"
  /\ esp' = Enqueue([esp EXCEPT !.ch = Release(@)], "CLOSE", 0)
  /\ Leave(IF SawEndOfFile THEN "eof" ELSE "dead")
  /\ UNCHANGED <<writer, inHand, airVars, phoneVars, link, sess, written,
                 served, fetched, got>>

-----------------------------------------------------------------------------
(* The worker task: the 30 s deadline of an ACK, and the queue.              *)

AckTimeout ==
  /\ Timeouts /\ esp.up /\ esp.ch.count > 0
  /\ esp' = AbortChannel(esp)
  /\ UNCHANGED <<client, writer, inHand, airVars, phoneVars, link, history>>

\* Take the oldest frame; one of an older generation or epoch is discarded.
WorkerPop ==
  /\ inHand = Nothing /\ esp.up /\ esp.q # <<>>
  /\ LET item == Head(esp.q)
         send == item.gen = esp.ch.gen /\ item.frame.epoch = esp.ch.epoch
     IN inHand' = IF send THEN <<item.frame>> ELSE Nothing
  /\ esp' = [esp EXCEPT !.q = Tail(@)]
  /\ UNCHANGED <<client, writer, airVars, phoneVars, link, history>>

\* notify() outside the lock; on a link that is gone it fails, which is known.
WorkerNotify ==
  /\ inHand # Nothing
  /\ toPhone' = IF esp.up /\ phoneUp THEN toPhone \o inHand ELSE toPhone
  /\ inHand' = Nothing
  /\ UNCHANGED <<esp, client, writer, toEsp, phoneVars, link, history>>

\* onWrite: a frame from the phone reaches the recorder.
EspReceive ==
  /\ toEsp # <<>>
  /\ toEsp' = Tail(toEsp)
  /\ LET f == Head(toEsp)
         c == esp.ch
     IN esp' =
        IF ~esp.up THEN FailLink(esp)
        ELSE IF f.epoch # c.epoch \/ c.state \in {"Idle", "Aborted"} THEN esp
        ELSE IF f.type = "ERROR" THEN [esp EXCEPT !.ch = Abort(@)]
        ELSE IF Acceptable(c, f) THEN [esp EXCEPT !.ch = Received(c, f)]
        ELSE AbortChannel([esp EXCEPT !.ch = Abort(@)])
  /\ UNCHANGED <<client, writer, inHand, toPhone, phoneVars, link, history>>

-----------------------------------------------------------------------------
(* The phone.  ph.st: "none" | "connecting" | "ready" | "closed".            *)
(* ph.rd, the reader: off, gate (waits for credit), read (in the socket),    *)
(* hold (has bytes, about to reserve).  ph.wr, the writer: off, take, write  *)
(* (in the socket), ack.                                                     *)

Live(p) == p.st \in {"connecting", "ready"}

\* emit(): the frame is queued with the object it belongs to.
Emit(queue, p, type, seq, data, terminal) ==
  Append(queue, [frame |-> Frame(type, p.epoch, seq, data), sess |-> p.sess,
                 terminal |-> terminal])

\* closeChannel: workers find the object closed and stop.
Closed(p) == [p EXCEPT !.st = "closed", !.rx = <<>>, !.rd = "off",
                       !.wr = "off", !.held = <<>>, !.batch = 0]

CloseChannel(type) ==
  /\ ph' = Closed(ph)
  /\ pq' = Emit(pq, ph, type, 0, <<>>, TRUE)

\* Mutant: a refused OPEN is not answered.
RefuseInSilence(queue, p) == queue

Refuse(queue, p) == Emit(queue, p, "ERROR", 0, <<>>, TRUE)

\* receive(OPEN): an epoch seen before on this link is ignored; a live channel
\* of another epoch is closed in silence; a host off the list is refused.
PhoneOpen(f, allowed) ==
  IF f.epoch \in used THEN UNCHANGED <<used, ph, pq>>
  ELSE LET fresh == [st |-> "connecting", epoch |-> f.epoch, sess |-> f.seq,
                     rd |-> "off", held |-> <<>>, eof |-> FALSE, next |-> 0,
                     oldest |-> 0, count |-> 0, expected |-> 0, rx |-> <<>>,
                     wr |-> "off", batch |-> 0]
       IN /\ used' = used \cup {f.epoch}
          /\ IF allowed
             THEN ph' = fresh /\ UNCHANGED pq
             ELSE /\ ph' = Closed(fresh)
                  /\ pq' = Refuse(pq, fresh)

PhoneAccepts(f) ==
  /\ ph.st = "ready" /\ f.seq = ph.expected /\ Len(ph.rx) < Window

\* c.writer: a writer is started unless one is at work.
Schedule(wr) == IF wr = "off" THEN "take" ELSE wr

\* Mutant: the end-of-file does not wait for the ACKs.
DrainedAlways(p) == TRUE

Drained(p) == p.count = 0
AckEnds(p) == p.eof /\ Drained(p)

\* receive(DATA, ACK, CLOSE, ERROR) for the live channel of that epoch.
PhoneFrame(f) ==
  CASE f.type = "DATA" /\ PhoneAccepts(f) ->
         /\ ph' = [ph EXCEPT !.expected = NextSeq(@), !.rx = Append(@, f),
                             !.wr = Schedule(@)]
         /\ UNCHANGED pq
    [] f.type = "ACK" /\ ph.count > 0 /\ f.seq = ph.oldest ->
         LET p == [ph EXCEPT !.oldest = NextSeq(@), !.count = @ - 1]
         IN IF AckEnds(p)
            THEN ph' = Closed(p) /\ pq' = Emit(pq, p, "CLOSE", 0, <<>>, TRUE)
            ELSE ph' = p /\ UNCHANGED pq
    [] f.type \in {"CLOSE", "ERROR"} -> CloseChannel("CLOSE")
    [] OTHER -> CloseChannel("ERROR")

PhoneReceive(allowed) ==
  /\ toPhone # <<>> /\ phoneUp
  /\ toPhone' = Tail(toPhone)
  /\ LET f == Head(toPhone)
     IN IF f.type = "OPEN" THEN PhoneOpen(f, allowed)
        ELSE /\ IF Live(ph) /\ ph.epoch = f.epoch THEN PhoneFrame(f)
                ELSE UNCHANGED <<ph, pq>>
             /\ UNCHANGED used
  /\ UNCHANGED <<espVars, toEsp, phoneUp, active, link, history>>

\* open(): the TLS handshake ended.
PhoneConnected ==
  /\ phoneUp /\ ph.st = "connecting"
  /\ ph' = [ph EXCEPT !.st = "ready"]
  /\ pq' = Emit(pq, ph, "OPENED", 0, <<>>, FALSE)
  /\ UNCHANGED <<espVars, airVars, phoneUp, used, active, link, history>>

\* pump(): start the next write whose channel still wants it.
StillValid(op) == op.sess = ph.sess /\ (op.terminal \/ ph.st # "closed")

GattStart ==
  /\ phoneUp /\ active = Nothing /\ pq # <<>>
  /\ LET op == Head(pq)
     IN IF StillValid(op)
        THEN active' = <<op>> /\ toEsp' = Append(toEsp, op.frame)
        ELSE UNCHANGED <<active, toEsp>>
  /\ pq' = Tail(pq)
  /\ UNCHANGED <<espVars, toPhone, phoneUp, used, ph, link, history>>

\* finish(): the reader starts when the write of OPENED has completed.
GattDone ==
  /\ phoneUp /\ active # Nothing
  /\ LET op == Head(active)
     IN ph' = IF op.frame.type = "OPENED" /\ op.sess = ph.sess /\ Live(ph)
              THEN [ph EXCEPT !.rd = "gate"] ELSE ph
  /\ active' = Nothing
  /\ UNCHANGED <<espVars, airVars, phoneUp, used, pq, link, history>>

\* readLoop: wait for credit, read the socket, reserve and emit.
ReaderGate ==
  /\ phoneUp /\ ph.rd = "gate" /\ ph.count < Window
  /\ ph' = [ph EXCEPT !.rd = "read"]
  /\ UNCHANGED <<espVars, airVars, phoneUp, used, pq, active, link, history>>

ReaderBytes(n) ==
  /\ phoneUp /\ ph.rd = "read"
  /\ n \in 1..Least(MaxPayload, RespLen - fetched[ph.sess])
  /\ ph' = [ph EXCEPT !.rd = "hold",
                      !.held = Payload(ph.sess, fetched[ph.sess], n)]
  /\ fetched' = [fetched EXCEPT ![ph.sess] = @ + n]
  /\ UNCHANGED <<espVars, airVars, phoneUp, used, pq, active, link, sess, phase,
                 written, served, got>>

ReaderEof ==
  /\ phoneUp /\ ph.rd = "read"
  /\ LET p == [ph EXCEPT !.eof = TRUE, !.rd = "off"]
     IN IF Drained(p)
        THEN ph' = Closed(p) /\ pq' = Emit(pq, p, "CLOSE", 0, <<>>, TRUE)
        ELSE ph' = p /\ UNCHANGED pq
  /\ UNCHANGED <<espVars, airVars, phoneUp, used, active, link, history>>

ReaderEmit ==
  /\ phoneUp /\ ph.rd = "hold"
  /\ pq' = Emit(pq, ph, "DATA", ph.next, ph.held, FALSE)
  /\ ph' = [ph EXCEPT !.next = NextSeq(@), !.count = @ + 1, !.rd = "gate",
                      !.held = <<>>]
  /\ UNCHANGED <<espVars, airVars, phoneUp, used, active, link, history>>

\* writeLoop: snapshot the inbound frames, write them, then acknowledge each.
WriterTake ==
  /\ phoneUp /\ ph.wr = "take"
  /\ ph' = IF ph.rx = <<>> THEN [ph EXCEPT !.wr = "off"]
           ELSE [ph EXCEPT !.wr = "write", !.batch = Len(ph.rx)]
  /\ UNCHANGED <<espVars, airVars, phoneUp, used, pq, active, link, history>>

WriterWrite ==
  /\ phoneUp /\ ph.wr = "write"
  /\ served' = [served EXCEPT ![ph.sess] =
                  @ \o FlattenSeq([i \in 1..ph.batch |-> ph.rx[i].data])]
  /\ ph' = [ph EXCEPT !.wr = "ack"]
  /\ UNCHANGED <<espVars, airVars, phoneUp, used, pq, active, link, sess, phase,
                 written, fetched, got>>

WriterAck ==
  /\ phoneUp /\ ph.wr = "ack"
  /\ ph' = [ph EXCEPT !.rx = SubSeq(@, ph.batch + 1, Len(@)), !.wr = "take",
                      !.batch = 0]
  /\ pq' = pq \o [i \in 1..ph.batch |->
                    [frame |-> Frame("ACK", ph.epoch, ph.rx[i].seq, <<>>),
                     sess |-> ph.sess, terminal |-> FALSE]]
  /\ UNCHANGED <<espVars, airVars, phoneUp, used, active, link, history>>

\* tick() past a deadline, or an IOException of a worker: ERROR and close.
PhoneFail ==
  /\ Timeouts /\ phoneUp /\ Live(ph)
  /\ CloseChannel("ERROR")
  /\ UNCHANGED <<espVars, airVars, phoneUp, used, active, link, history>>

-----------------------------------------------------------------------------
(* The link.  It can be lost from either side first; the other side learns   *)
(* of it later.  A new link needs begin(), which needs ioMutex, so the       *)
(* worker has nothing in its hand.                                           *)

EspLinkLost ==
  /\ link < MaxLinks /\ esp.up
  /\ esp' = FailLink(esp)
  /\ UNCHANGED <<client, writer, inHand, airVars, phoneVars, link, history>>

\* The phone closes its engine and its GATT session for good.
PhoneLinkLost ==
  /\ link < MaxLinks \/ ~esp.up
  /\ phoneUp
  /\ phoneUp' = FALSE
  /\ ph' = Closed(ph)
  /\ pq' = <<>> /\ active' = Nothing
  /\ toPhone' = <<>>
  /\ UNCHANGED <<espVars, toEsp, used, link, history>>

\* onDisconnect on the recorder after the phone went away.
EspDisconnected ==
  /\ ~phoneUp /\ esp.up
  /\ esp' = FailLink(esp)
  /\ toEsp' = <<>>
  /\ UNCHANGED <<client, writer, inHand, toPhone, phoneVars, link, history>>

Reconnect ==
  /\ ~phoneUp /\ ~esp.up /\ inHand = Nothing /\ link < MaxLinks
  /\ link' = link + 1
  /\ esp' = [esp EXCEPT !.up = TRUE]
  /\ toPhone' = <<>> /\ toEsp' = <<>>
  /\ phoneUp' = TRUE /\ used' = {}
  /\ ph' = [Closed(ph) EXCEPT !.st = "none", !.sess = 0, !.eof = FALSE,
                              !.next = 0, !.oldest = 0, !.count = 0,
                              !.expected = 0, !.epoch = 0]
  /\ UNCHANGED <<client, writer, inHand, pq, active, history>>

-----------------------------------------------------------------------------
Firmware ==
  \/ Open \/ OpenInvalid \/ OpenDone \/ OpenTimeout
  \/ \E n \in 1..ReqLen : WriteCall(n)
  \/ WritePass \/ WriteBroken
  \/ \E n \in 1..MaxPayload : Read(n)
  \/ Close
  \/ AckTimeout \/ WorkerPop \/ WorkerNotify \/ EspReceive

Phone ==
  \/ \E allowed \in BOOLEAN : PhoneReceive(allowed)
  \/ PhoneConnected \/ GattStart \/ GattDone
  \/ ReaderGate \/ ReaderEof \/ ReaderEmit
  \/ \E n \in 1..MaxPayload : ReaderBytes(n)
  \/ WriterTake \/ WriterWrite \/ WriterAck
  \/ PhoneFail

LinkChange == EspLinkLost \/ PhoneLinkLost \/ EspDisconnected \/ Reconnect

Next == Firmware \/ Phone \/ LinkChange

Spec == Init /\ [][Next]_vars

\* Tasks that are ready do run (FreeRTOS and the phone's executor and handler
\* are preemptive), frames in the air arrive, a handshake ends, and a client
\* that holds a channel keeps reading it until it closes it.  One condition per
\* thread, whose steps are never enabled together.  Nothing is
\* assumed of the server or of when a client opens, writes or closes.
Fairness ==
  /\ WF_vars(OpenInvalid \/ OpenDone \/ OpenTimeout)
  /\ WF_vars(WritePass \/ WriteBroken)
  /\ WF_vars(\E n \in 1..MaxPayload : Read(n))
  /\ WF_vars(WorkerPop \/ WorkerNotify)
  /\ WF_vars(EspReceive)
  /\ WF_vars(\E allowed \in BOOLEAN : PhoneReceive(allowed))
  /\ WF_vars(PhoneConnected)
  /\ WF_vars(GattStart \/ GattDone)
  /\ WF_vars(ReaderGate \/ ReaderEmit)
  /\ WF_vars(WriterTake \/ WriterWrite \/ WriterAck)

FairSpec == Spec /\ Fairness

-----------------------------------------------------------------------------
(* Properties.                                                               *)

FrameTypes  == {"OPEN", "OPENED", "DATA", "ACK", "CLOSE", "ERROR"}
Bytes       == Sessions \X Nat
Frames      == [type : FrameTypes, epoch : 0..(EpochNos - 1), seq : Nat,
                data : Seq(Bytes)]
SeqNo       == 0..(SeqNos - 1)
Slots       == [seq : SeqNo, data : Seq(Bytes)]
EspChannels == [state : {"Idle", "Opening", "Open", "PeerClosed", "Aborted"},
                epoch : 0..(EpochNos - 1), gen : Nat, next : SeqNo,
                oldest : SeqNo, count : 0..Window, expected : SeqNo,
                rx : Seq(Slots)]
PhChannels  == [st : {"none", "connecting", "ready", "closed"},
                epoch : 0..(EpochNos - 1), sess : 0..MaxOpens,
                rd : {"off", "gate", "read", "hold"}, held : Seq(Bytes),
                eof : BOOLEAN, next : SeqNo, oldest : SeqNo,
                count : 0..Window, expected : SeqNo, rx : Seq(Frames),
                wr : {"off", "take", "write", "ack"}, batch : Nat]
GattOps     == [frame : Frames, sess : 0..MaxOpens, terminal : BOOLEAN]

\* The types of both ends, of the queues and of the counters; in particular
\* sequence numbers wrap at 16 bits and neither TxWindow nor SendWindow ever
\* counts more than kWindow frames.
TypeOK ==
  /\ esp \in [up : BOOLEAN, q : Seq([frame : Frames, gen : Nat]),
              ch : EspChannels]
  /\ client \in [pc : {"none", "opening", "using"}, gen : Nat,
                 epoch : 0..(EpochNos - 1)]
  /\ writer \in [on : BOOLEAN, gen : Nat, left : Nat]
  /\ inHand \in Seq(Frames)
  /\ toPhone \in Seq(Frames) /\ toEsp \in Seq(Frames)
  /\ phoneUp \in BOOLEAN /\ used \subseteq 0..(EpochNos - 1)
  /\ ph \in PhChannels
  /\ pq \in Seq(GattOps) /\ active \in Seq(GattOps)
  /\ link \in Nat /\ sess \in 0..MaxOpens
  /\ phase \in [Sessions -> {"none", "open", "eof", "dead"}]
  /\ written \in [Sessions -> Nat] /\ fetched \in [Sessions -> Nat]

\* No interleaving of the two ends, of cancelled sessions and of broken links
\* brings a live channel a frame out of turn: Reception::Fault ("Sequencia ou
\* janela BLE invalida", ble_relay.cpp:371) and the ERROR of RelayEngine.receive
\* for DATA or ACK, among them DATA before the phone's socket is ready, are left
\* to peers that break the protocol.
EspInSequence(f) ==
  (/\ esp.up /\ f.epoch = esp.ch.epoch
   /\ esp.ch.state \notin {"Idle", "Aborted"}
   /\ f.type \in {"OPENED", "DATA", "ACK"}) => Acceptable(esp.ch, f)

PhoneInSequence(f) ==
  (phoneUp /\ Live(ph) /\ f.epoch = ph.epoch) =>
    /\ f.type = "DATA" => PhoneAccepts(f)
    /\ f.type = "ACK" => ph.count > 0 /\ f.seq = ph.oldest

InSequence ==
  /\ toEsp # <<>> => EspInSequence(Head(toEsp))
  /\ toPhone # <<>> => PhoneInSequence(Head(toPhone))

HowMany(seq, type, Mine(_)) ==
  Cardinality({i \in DOMAIN seq : seq[i].frame.type = type /\ Mine(seq[i])})

FramesOf(seq, type, epoch) ==
  Cardinality({i \in DOMAIN seq : seq[i].type = type /\ seq[i].epoch = epoch})

\* Credit is conserved while both ends hold the session: what a sender counts
\* as pending is, frame by frame, queued, in the air, in a receive slot or
\* acknowledged by a frame on its way back.  A lost credit would stall the
\* stream until the 30 s deadline; an invented one would overrun the window.
CreditConserved ==
  (/\ esp.up /\ phoneUp /\ esp.ch.state = "Open" /\ ph.st = "ready"
   /\ ph.epoch = esp.ch.epoch) =>
    LET ours(item) == item.gen = esp.ch.gen
        his(op)    == op.sess = ph.sess
        sentOut(type) == HowMany(esp.q, type, ours)
                         + FramesOf(inHand, type, ph.epoch)
                         + FramesOf(toPhone, type, ph.epoch)
        sentBack(type) == HowMany(pq, type, his) + FramesOf(toEsp, type, ph.epoch)
    IN /\ esp.ch.count = sentOut("DATA") + Len(ph.rx) + sentBack("ACK")
       /\ ph.count = sentBack("DATA") + Len(esp.ch.rx) + sentOut("ACK")

\* The token of a queued frame tells its session: no entry is newer than the
\* channel, and an entry of the present generation has the present epoch.  So
\* nothing queued before an abort, release or reopening is ever sent.
TokenInv ==
  \A i \in DOMAIN esp.q :
    /\ esp.q[i].gen <= esp.ch.gen
    /\ esp.q[i].gen = esp.ch.gen => esp.q[i].frame.epoch = esp.ch.epoch

\* SendWindow.reserve never throws "Janela cheia" and writeLoop always finds
\* the batch it wrote at the head of rx (RelayEngine.java:172, 207), although
\* the window and rx change between the lock sections of the two workers.
WorkersInv ==
  /\ ph.rd \in {"read", "hold"} => ph.count < Window
  /\ ph.wr \in {"write", "ack"} => ph.batch \in 1..Len(ph.rx)
  /\ ph.rd = "off" => ph.held = <<>>

\* TxWindow and SendWindow: the pending frames are numbered oldest .. next - 1.
WindowInv ==
  /\ esp.ch.count > 0 => esp.ch.next = (esp.ch.oldest + esp.ch.count) % SeqNos
  /\ ph.next = (ph.oldest + ph.count) % SeqNos
  /\ Len(esp.ch.rx) <= Window /\ Len(ph.rx) <= Window

\* Together: what the two ends rely on between their lock sections.
RelayInv == TypeOK /\ CreditConserved /\ TokenInv /\ WorkersInv /\ WindowInv

\* open() returns, on a link that stays up, without the help of any deadline:
\* a refused or closed session is always answered.
OpenReturns == client.pc = "opening" ~> client.pc # "opening"

\* Whatever write() counted as written reaches the TLS socket without the help
\* of any deadline, unless one of the ends closes the session.
AllServed ==
  \A s \in Sessions, n \in 1..ReqLen :
    (written[s] >= n) ~>
      (Len(served[s]) >= n \/ ph.st = "closed" \/ phase[s] # "open")

\* Whatever the phone took from the socket reaches the client, even when the
\* server closes meanwhile, unless the client closes the channel first.
AllDelivered ==
  \A s \in Sessions, n \in 1..RespLen :
    (fetched[s] >= n) ~> (Len(got[s]) >= n \/ phase[s] # "open")

\* The end-of-file of the server is eventually known to the firmware.
EofArrives ==
  ph.eof ~> (esp.ch.state \in {"PeerClosed", "Aborted", "Idle"})

\* No stage of the relay waits for ever for another: neither open(), nor the two
\* streams with all their windows and queues full, nor the end of the answer.
Progress == OpenReturns /\ AllServed /\ AllDelivered /\ EofArrives
================================================================================
