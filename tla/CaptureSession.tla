--------------------------- MODULE CaptureSession ----------------------------
(***************************************************************************)
(* The microphone session of src/src/audio/capture_session.cpp: a producer *)
(* task that moves I2S blocks into a stream buffer, one consumer (the      *)
(* writer task of Recorder, recorder.cpp:200-241) that reads through a     *)
(* sample-rate converter until drained(), and an owner that may request a  *)
(* stop or end() the session at any moment.  There are no locks: only the  *)
(* order of the atomic flags keeps the parts alive while they are used.    *)
(*                                                                         *)
(* Samples are numbered as the microphone delivers them, so `got` can be   *)
(* compared with what was sent.  The converter is a delay line: it holds   *)
(* back `delay` samples until finish() asks for them.                      *)
(***************************************************************************)
EXTENDS Naturals, Sequences

CONSTANTS
  BlockMax,   \* samples of one I2S read
  RingSize,   \* samples the stream buffer holds
  PendingMax, \* samples of pending_
  Capacity,   \* samples the consumer asks for
  DelayMax,   \* samples the converter may hold back; 0 is bypass
  MaxSamples, \* bound: samples of one session
  MaxStarts   \* bound: sessions

ASSUME SizesAssumption ==
  /\ {BlockMax, RingSize, PendingMax, Capacity} \subseteq Nat \ {0}
  /\ {DelayMax, MaxSamples, MaxStarts} \subseteq Nat

VARIABLES
  ses,   \* the atomics of CaptureSession
  alive, \* ring, converter and codec exist
  ring,  \* the stream buffer
  piece, \* pending_: what the consumer took from the ring and has not pushed
  line,  \* samples inside the converter
  delay, \* how many it holds back
  block, \* the producer's block on its way to the ring
  taken, \* samples the microphone has delivered
  sent,  \* samples accepted by the ring
  got,   \* samples the consumer was given
  n,     \* samples read by the present call of read()
  pc,    \* where producer, consumer and owner are
  starts

buffers == <<ring, piece, line>>
counts == <<taken, sent, got>>
vars == <<ses, alive, buffers, delay, block, counts, n, pc, starts>>

Goto(t, place) == pc' = [pc EXCEPT ![t] = place]

Stored == [active |-> FALSE, stop |-> FALSE, done |-> TRUE, failed |-> FALSE,
           drained |-> TRUE, closing |-> FALSE, reading |-> FALSE]

Init ==
  /\ ses = Stored /\ alive = FALSE
  /\ ring = <<>> /\ piece = <<>> /\ line = <<>> /\ delay = 0 /\ block = 0
  /\ taken = 0 /\ sent = 0 /\ got = <<>> /\ n = 0 /\ starts = 0
  /\ pc = [producer |-> "none", consumer |-> "none", owner |-> "idle"]

-----------------------------------------------------------------------------
(* The owner.                                                                *)

\* A consumer must have stopped before the object is used again.
Start ==
  /\ pc["owner"] = "idle" /\ ~ses.active /\ pc["consumer"] = "none"
  /\ starts < MaxStarts
  /\ ses' = [Stored EXCEPT !.active = TRUE, !.done = FALSE, !.drained = FALSE]
  /\ alive' = TRUE
  /\ ring' = <<>> /\ piece' = <<>> /\ line' = <<>> /\ delay' = 0
  /\ taken' = 0 /\ sent' = 0 /\ got' = <<>>
  /\ Goto("producer", "look")
  /\ starts' = starts + 1
  /\ UNCHANGED <<block, n>>

\* start() fails after it has taken the session: no memory, codec or task.
StartFails ==
  /\ pc["owner"] = "idle" /\ ~ses.active /\ pc["consumer"] = "none"
  /\ starts < MaxStarts
  /\ ses' = [Stored EXCEPT !.failed = TRUE, !.stop = TRUE, !.closing = TRUE]
  /\ starts' = starts + 1
  /\ UNCHANGED <<alive, buffers, delay, block, counts, n, pc>>

\* setOutputRate() and the launch of the consumer, Recorder::startImpl().
Adopt(d) ==
  /\ pc["owner"] = "idle" /\ ses.active /\ pc["consumer"] = "none"
  /\ ~ses.drained
  /\ delay' = d
  /\ Goto("consumer", "call")
  /\ UNCHANGED <<ses, alive, buffers, block, counts, n, starts>>

RequestStop ==
  /\ pc["owner"] = "idle" /\ ses.active /\ ~ses.stop
  /\ ses' = [ses EXCEPT !.stop = TRUE]
  /\ UNCHANGED <<alive, buffers, delay, block, counts, n, pc, starts>>

\* end(): closing_, requestStop(), then the wait for the other two.
EndCalled ==
  /\ pc["owner"] = "idle" /\ ses.active
  /\ ses' = [ses EXCEPT !.closing = TRUE]
  /\ Goto("owner", "stop")
  /\ UNCHANGED <<alive, buffers, delay, block, counts, n, starts>>

EndStop ==
  /\ pc["owner"] = "stop"
  /\ ses' = [ses EXCEPT !.stop = TRUE]
  /\ Goto("owner", "join")
  /\ UNCHANGED <<alive, buffers, delay, block, counts, n, starts>>

\* Mutant: the reader is not waited for.
OthersOutProducer == ses.done

OthersOut == ses.done /\ ~ses.reading

EndJoin ==
  /\ pc["owner"] = "join" /\ OthersOut
  /\ Goto("owner", "free")
  /\ UNCHANGED <<ses, alive, buffers, delay, block, counts, n, starts>>

EndFree ==
  /\ pc["owner"] = "free"
  /\ alive' = FALSE
  /\ ring' = <<>> /\ piece' = <<>> /\ line' = <<>>
  /\ Goto("owner", "clear")
  /\ UNCHANGED <<ses, delay, block, counts, n, starts>>

EndClear ==
  /\ pc["owner"] = "clear"
  /\ ses' = [ses EXCEPT !.drained = TRUE, !.active = FALSE]
  /\ Goto("owner", "idle")
  /\ UNCHANGED <<alive, buffers, delay, block, counts, n, starts>>

-----------------------------------------------------------------------------
(* producerFn().                                                             *)

ProducerLook ==
  /\ pc["producer"] = "look"
  /\ Goto("producer", IF ses.stop THEN "exit" ELSE "read")
  /\ UNCHANGED <<ses, alive, buffers, delay, block, counts, n, starts>>

\* codec_->read(): a block, nothing yet, or an error (two seconds of nothing
\* count as one).
ProducerRead ==
  /\ pc["producer"] = "read"
  /\ \/ \E k \in 1..BlockMax :
          /\ taken + k <= MaxSamples
          /\ block' = k /\ taken' = taken + k
          /\ Goto("producer", "send") /\ UNCHANGED ses
     \/ /\ Goto("producer", "look") /\ UNCHANGED <<ses, block, taken>>
     \/ /\ ses' = [ses EXCEPT !.failed = TRUE, !.stop = TRUE]
        /\ Goto("producer", "exit") /\ UNCHANGED <<block, taken>>
  /\ UNCHANGED <<alive, buffers, delay, sent, got, n, starts>>

\* Mutant: a full ring takes what fits.
ProducerSendFitting ==
  /\ pc["producer"] = "send"
  /\ LET k == IF Len(ring) + block <= RingSize THEN block ELSE RingSize - Len(ring)
     IN /\ ring' = ring \o [i \in 1..k |-> taken - block + i]
        /\ sent' = sent + k
  /\ Goto("producer", "look")
  /\ block' = 0
  /\ UNCHANGED <<ses, alive, piece, line, delay, taken, got, n, starts>>

\* A block that does not fit is dropped whole and ends the session.
ProducerSend ==
  /\ pc["producer"] = "send"
  /\ IF Len(ring) + block <= RingSize
     THEN /\ ring' = ring \o [i \in 1..block |-> taken - block + i]
          /\ sent' = sent + block
          /\ Goto("producer", "look") /\ UNCHANGED ses
     ELSE /\ ses' = [ses EXCEPT !.failed = TRUE, !.stop = TRUE]
          /\ Goto("producer", "exit") /\ UNCHANGED <<ring, sent>>
  /\ block' = 0
  /\ UNCHANGED <<alive, piece, line, delay, taken, got, n, starts>>

\* The last access to the session.
ProducerExit ==
  /\ pc["producer"] = "exit"
  /\ ses' = [ses EXCEPT !.done = TRUE]
  /\ Goto("producer", "none")
  /\ UNCHANGED <<alive, buffers, delay, block, counts, n, starts>>

-----------------------------------------------------------------------------
(* read(), called by the consumer until the session is drained.              *)

ReadCalled ==
  /\ pc["consumer"] = "call"
  /\ Goto("consumer", IF ses.active /\ ~ses.closing THEN "claim" ELSE "back")
  /\ n' = 0
  /\ UNCHANGED <<ses, alive, buffers, delay, block, counts, starts>>

ReadClaim ==
  /\ pc["consumer"] = "claim"
  /\ ses' = [ses EXCEPT !.reading = TRUE]
  /\ Goto("consumer", "recheck")
  /\ UNCHANGED <<alive, buffers, delay, block, counts, n, starts>>

ReadRecheck ==
  /\ pc["consumer"] = "recheck"
  /\ IF ses.closing
     THEN ses' = [ses EXCEPT !.reading = FALSE] /\ Goto("consumer", "back")
     ELSE Goto("consumer", "fill") /\ UNCHANGED ses
  /\ UNCHANGED <<alive, buffers, delay, block, counts, n, starts>>

Least(a, b) == IF a < b THEN a ELSE b

\* Receive a piece; an empty ring is a timeout.
ReadReceive ==
  /\ pc["consumer"] = "fill" /\ n < Capacity /\ piece = <<>>
  /\ IF ring = <<>>
     THEN Goto("consumer", "ended") /\ UNCHANGED <<ring, piece>>
     ELSE LET k == Least(PendingMax, Len(ring))
          IN /\ piece' = SubSeq(ring, 1, k)
             /\ ring' = SubSeq(ring, k + 1, Len(ring))
             /\ UNCHANGED pc
  /\ UNCHANGED <<ses, alive, line, delay, block, counts, n, starts>>

\* push(): one sample in, at most one out.
ReadPush ==
  /\ pc["consumer"] = "fill" /\ n < Capacity /\ piece # <<>>
  /\ piece' = Tail(piece)
  /\ LET full == Append(line, Head(piece))
     IN IF Len(full) > delay
        THEN got' = Append(got, Head(full)) /\ line' = Tail(full) /\ n' = n + 1
        ELSE line' = full /\ UNCHANGED <<got, n>>
  /\ UNCHANGED <<ses, alive, ring, delay, block, taken, sent, pc, starts>>

ReadFull ==
  /\ pc["consumer"] = "fill" /\ n = Capacity
  /\ Goto("consumer", "leave")
  /\ UNCHANGED <<ses, alive, buffers, delay, block, counts, n, starts>>

ReadEnded ==
  /\ pc["consumer"] = "ended"
  /\ Goto("consumer", IF ses.done THEN "empty" ELSE "leave")
  /\ UNCHANGED <<ses, alive, buffers, delay, block, counts, n, starts>>

\* Mutant: the emptiness seen before finished() is believed.
ReadEmptyBelieved ==
  /\ pc["consumer"] = "empty"
  /\ Goto("consumer", "tail")
  /\ UNCHANGED <<ses, alive, buffers, delay, block, counts, n, starts>>

\* "Reavaliar fila apos observar o estado terminal do produtor."
ReadEmpty ==
  /\ pc["consumer"] = "empty"
  /\ Goto("consumer", IF ring = <<>> THEN "tail" ELSE "leave")
  /\ UNCHANGED <<ses, alive, buffers, delay, block, counts, n, starts>>

\* Mutant: a failed session is never marked as drained.
ReadTailUnlessFailed ==
  /\ pc["consumer"] = "tail"
  /\ IF line # <<>>
     THEN /\ got' = Append(got, Head(line)) /\ line' = Tail(line)
          /\ n' = n + 1
          /\ Goto("consumer", "fill") /\ UNCHANGED ses
     ELSE /\ ses' = [ses EXCEPT !.drained = ~ses.failed]
          /\ Goto("consumer", "leave") /\ UNCHANGED <<got, line, n>>
  /\ UNCHANGED <<alive, ring, piece, delay, block, taken, sent, starts>>

\* The tail of the converter, then the end of the stream.
ReadTail ==
  /\ pc["consumer"] = "tail"
  /\ IF line # <<>>
     THEN /\ got' = Append(got, Head(line)) /\ line' = Tail(line)
          /\ n' = n + 1
          /\ Goto("consumer", "fill") /\ UNCHANGED ses
     ELSE /\ ses' = [ses EXCEPT !.drained = TRUE]
          /\ Goto("consumer", "leave") /\ UNCHANGED <<got, line, n>>
  /\ UNCHANGED <<alive, ring, piece, delay, block, taken, sent, starts>>

\* What read() returns.
Result == n > 0 \/ ~ses.failed

ReadReturns ==
  /\ pc["consumer"] = "leave"
  /\ ses' = [ses EXCEPT !.reading = FALSE]
  /\ Goto("consumer", "back")
  /\ UNCHANGED <<alive, buffers, delay, block, counts, n, starts>>

\* The loop of the writer task.
ConsumerBack ==
  /\ pc["consumer"] = "back"
  /\ Goto("consumer", IF ses.drained THEN "none" ELSE "call")
  /\ UNCHANGED <<ses, alive, buffers, delay, block, counts, n, starts>>

-----------------------------------------------------------------------------

Ending == EndStop \/ EndJoin \/ EndFree \/ EndClear
Owner == Start \/ StartFails \/ RequestStop \/ EndCalled \/ Ending
         \/ \E d \in 0..DelayMax : Adopt(d)
Producer == ProducerLook \/ ProducerRead \/ ProducerSend \/ ProducerExit
Consumer ==
  \/ ReadCalled \/ ReadClaim \/ ReadRecheck \/ ReadReceive \/ ReadPush
  \/ ReadFull \/ ReadEnded \/ ReadEmpty \/ ReadTail \/ ReadReturns
  \/ ConsumerBack

Next == Owner \/ Producer \/ Consumer

Spec == Init /\ [][Next]_vars

\* The tasks run: a read of the codec and one of the ring have timeouts, and
\* end() is not left in the middle.
FairSpec == Spec /\ WF_vars(Producer) /\ WF_vars(Consumer) /\ WF_vars(Ending)

-----------------------------------------------------------------------------
(* Properties.                                                               *)

Flags == {"active", "stop", "done", "failed", "drained", "closing", "reading"}
Places ==
  [producer : {"none", "look", "read", "send", "exit"},
   consumer : {"none", "call", "claim", "recheck", "fill", "ended", "empty",
               "tail", "leave", "back"},
   owner : {"idle", "stop", "join", "free", "clear"}]

\* The types of the session; the ring never holds more than was allocated.
TypeOK ==
  /\ ses \in [Flags -> BOOLEAN] /\ alive \in BOOLEAN /\ pc \in Places
  /\ {ring, piece, line, got} \subseteq Seq(Nat)
  /\ Len(ring) <= RingSize /\ Len(piece) <= PendingMax /\ Len(line) <= delay
  /\ {delay, block, taken, sent, n, starts} \subseteq Nat

\* end() frees ring, converter and codec only when no task can touch them any
\* more, wherever it meets the producer and a read() under way.
UsedAlive ==
  /\ pc["producer"] # "none" => alive
  /\ pc["consumer"] \in {"fill", "ended", "empty", "tail"} => alive

\* No sample is lost, doubled or reordered on its way to the consumer, and what
\* it gets has no gap, although a full ring drops a block.
InOrder ==
  alive => got \o line \o piece \o ring = [i \in 1..sent |-> i]

\* A session that was drained, and not cut off by end(), has given everything
\* the ring accepted: also the block sent while the consumer found it empty,
\* and the tail of the converter.
DrainedIsAll ==
  (ses.drained /\ ~ses.closing /\ ses.active) => Len(got) = sent

\* A stop comes to its end: the consumer is released, so saving a recording or
\* a turn of the assistant does not hang.
StopDrains == (ses.stop /\ pc["consumer"] # "none") ~> pc["consumer"] = "none"

\* end() returns.
EndReturns == pc["owner"] # "idle" ~> pc["owner"] = "idle"

\* Neither the consumer nor the owner is left behind by the end of a session.
Ends == StopDrains /\ EndReturns
=============================================================================
