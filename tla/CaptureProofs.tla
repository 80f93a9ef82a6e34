---------------------------- MODULE CaptureProofs ----------------------------
(***************************************************************************)
(* The microphone session of CaptureSession, for every size of blocks and  *)
(* rings and any number of sessions: it is torn down safely (UsedAlive),   *)
(* and no sample is lost, doubled or reordered on its way (InOrder,        *)
(* DrainedIsAll).                                                          *)
(*                                                                         *)
(* What end() relies on is a handshake of flags without a lock: `done'     *)
(* tells that the producer is out, `reading' that the consumer is inside,  *)
(* and a consumer that claims the session after `closing' was set sees it  *)
(* in its second look.                                                     *)
(***************************************************************************)
EXTENDS CaptureSession, TLAPS

\* The flags, as a set of records, and the places have their types.
Sessions ==
  [active : BOOLEAN, stop : BOOLEAN, done : BOOLEAN, failed : BOOLEAN,
   drained : BOOLEAN, closing : BOOLEAN, reading : BOOLEAN]
Typed == ses \in Sessions /\ alive \in BOOLEAN /\ pc \in Places

\* The places of a read() between its claim and its end, and those of them that
\* touch ring, converter or storage.
Claimed == {"recheck", "fill", "ended", "empty", "tail", "leave"}
Inside  == {"fill", "ended", "empty", "tail"}

\* What each flag tells of the place of the task that sets it.
Flagged ==
  /\ ses.done <=> pc["producer"] = "none"
  /\ ses.reading <=> pc["consumer"] \in Claimed
  /\ ses.active /\ pc["owner"] # "idle" => ses.closing
  /\ pc["owner"] # "idle" => ses.active
  /\ alive <=> ses.active /\ pc["owner"] # "clear"

\* What end() has seen before it frees anything, and whom a session outlives.
Joined ==
  /\ pc["owner"] \in {"free", "clear"} =>
       pc["producer"] = "none" /\ pc["consumer"] \notin Inside
  /\ pc["producer"] # "none" => ses.active
  /\ pc["consumer"] \in Inside => ses.active
  /\ pc["consumer"] # "none" => ses.active \/ ses.closing

\* The inductive invariant of the handshake.
Handshake == Typed /\ Flagged /\ Joined

-----------------------------------------------------------------------------
(* Runs of consecutive samples.                                              *)

\* s holds the samples that follow the first k.
Consecutive(s, k) == s \in Seq(Nat) /\ \A i \in 1..Len(s) : s[i] = k + i

LEMMA ConsecutiveEmpty == ASSUME NEW k \in Nat PROVE Consecutive(<<>>, k) /\ Len(<<>>) = 0
BY DEF Consecutive

LEMMA ConsecutiveBlock ==
  ASSUME NEW k \in Nat, NEW b \in Nat
  PROVE  LET s == [i \in 1..b |-> k + i] IN Consecutive(s, k) /\ Len(s) = b
BY DEF Consecutive

LEMMA ConsecutiveAppend ==
  ASSUME NEW k \in Nat, NEW s, Consecutive(s, k), NEW x, x = k + Len(s) + 1
  PROVE  Consecutive(Append(s, x), k) /\ Len(Append(s, x)) = Len(s) + 1
BY DEF Consecutive

LEMMA ConsecutiveTail ==
  ASSUME NEW k \in Nat, NEW s, Consecutive(s, k), s # <<>>
  PROVE  /\ Consecutive(Tail(s), k + 1) /\ Len(Tail(s)) + 1 = Len(s)
         /\ Head(s) = k + 1 /\ Len(s) > 0
BY DEF Consecutive

LEMMA ConsecutiveConcat ==
  ASSUME NEW k \in Nat, NEW s, Consecutive(s, k), NEW t, Consecutive(t, k + Len(s))
  PROVE  Consecutive(s \o t, k) /\ Len(s \o t) = Len(s) + Len(t)
BY DEF Consecutive

LEMMA ConsecutiveSplit ==
  ASSUME NEW k \in Nat, NEW s, Consecutive(s, k), NEW j \in 0..Len(s)
  PROVE  /\ Consecutive(SubSeq(s, 1, j), k) /\ Len(SubSeq(s, 1, j)) = j
         /\ Consecutive(SubSeq(s, j + 1, Len(s)), k + j)
         /\ Len(SubSeq(s, j + 1, Len(s))) = Len(s) - j
BY DEF Consecutive

LEMMA ConsecutiveAll ==
  ASSUME NEW s, Consecutive(s, 0) PROVE s = [i \in 1..Len(s) |-> i]
BY DEF Consecutive

LEMMA ConsecutiveType == ASSUME NEW s, NEW k, Consecutive(s, k) PROVE s \in Seq(Nat) /\ Len(s) \in Nat
BY DEF Consecutive

-----------------------------------------------------------------------------
(* The samples.                                                              *)

\* The buffers hold samples, and what counts them are numbers.
Counted ==
  /\ got \in Seq(Nat) /\ line \in Seq(Nat) /\ piece \in Seq(Nat) /\ ring \in Seq(Nat)
  /\ delay \in Nat /\ block \in Nat /\ taken \in Nat /\ sent \in Nat
  /\ n \in Nat /\ starts \in Nat

\* What the consumer got, the converter, the piece and the ring hold the samples
\* that were sent, one after the other.
Chained ==
  /\ Consecutive(got, 0) /\ Consecutive(line, Len(got))
  /\ Consecutive(piece, Len(got) + Len(line))
  /\ Consecutive(ring, Len(got) + Len(line) + Len(piece))
  /\ sent = Len(got) + Len(line) + Len(piece) + Len(ring)
Lined == alive => Chained

\* The block in the producer's hand is the one that comes next: a block that was
\* dropped was the last.
Ahead ==
  /\ pc["producer"] \in {"look", "read"} => taken = sent
  /\ pc["producer"] = "send" => taken = sent + block

\* Nothing outgrows its room; a session that waits for its consumer has nothing
\* in the converter, so its delay may be chosen.
Sized ==
  /\ Len(ring) <= RingSize /\ Len(piece) <= PendingMax /\ Len(line) <= delay
  /\ pc["consumer"] = "none" /\ ses.active /\ ~ses.drained => line = <<>>

\* What the consumer has seen on its way to the end of the stream stays so.
Emptied ==
  /\ pc["consumer"] \in {"ended", "empty", "tail"} => piece = <<>>
  /\ pc["consumer"] \in {"empty", "tail"} => ses.done
  /\ pc["consumer"] = "tail" => ring = <<>>
  /\ ses.drained /\ ses.active /\ ~ses.closing =>
       /\ ses.done /\ ring = <<>> /\ piece = <<>> /\ line = <<>>
       /\ pc["consumer"] \in {"leave", "back", "none"}

Data == Counted /\ Lined /\ Ahead /\ Sized /\ Emptied

\* The inductive invariant.
IInv == Handshake /\ Data

LEMMA InitHolds == Init => IInv
<1> SUFFICES ASSUME Init PROVE IInv
  OBVIOUS
<1>1. Typed
  BY DEF Init, Typed, Stored, Sessions, Places
<1>2. ~ses.active /\ ses.done /\ ~ses.closing /\ ~ses.reading /\ ~alive
  BY DEF Init, Stored
<1>3. Flagged /\ Joined
  BY <1>1, <1>2 DEF Init, Flagged, Joined, Claimed, Inside
<1>4. Counted /\ Lined /\ Ahead /\ Emptied
  BY <1>2 DEF Init, Counted, Lined, Ahead, Emptied
<1>5. Sized
  BY <1>2, SizesAssumption DEF Init, Sized
<1> QED BY <1>1, <1>3, <1>4, <1>5 DEF IInv, Handshake, Data

-----------------------------------------------------------------------------
(* One lemma for each step.                                                  *)

LEMMA StartKeeps == IInv /\ Start => IInv'
<1> SUFFICES ASSUME IInv, Start PROVE IInv'
  OBVIOUS
<1> USE DEF IInv, Handshake, Data
<1>1. ses' \in Sessions
  BY DEF Start, Stored, Typed, Sessions
<1>2. /\ ses'.active /\ ~ses'.drained
      /\ ~ses'.done /\ ~ses'.closing /\ ~ses'.reading
  BY DEF Start, Stored, Typed, Sessions
<1>3. Typed'
  BY <1>1 DEF Start, Goto, Typed, Places
<1>4. Flagged' /\ Joined'
  BY <1>1, <1>2 DEF Start, Goto, Typed, Flagged, Joined, Sessions, Places, Claimed, Inside
<1>5. Counted' /\ Ahead' /\ Emptied'
  BY <1>2 DEF Start, Goto, Counted, Ahead, Emptied, Typed, Places
<1>6. Lined'
  BY ConsecutiveEmpty DEF Start, Lined, Chained
<1>7. Sized'
  BY SizesAssumption DEF Start, Sized
<1>8. Emptied'
  BY <1>5
<1> QED BY <1>3, <1>4, <1>5, <1>6, <1>7, <1>8

LEMMA StartFailsKeeps == IInv /\ StartFails => IInv'
<1> SUFFICES ASSUME IInv, StartFails PROVE IInv'
  OBVIOUS
<1> USE DEF IInv, Handshake, Data
<1>1. ses' \in Sessions
  BY DEF StartFails, Stored, Typed, Sessions
<1>2. /\ ~ses'.active /\ ses'.drained
      /\ ses'.done /\ ses'.closing /\ ~ses'.reading
  BY DEF StartFails, Stored, Typed, Sessions
<1>3. Typed'
  BY <1>1 DEF StartFails, Goto, Typed, Places
<1>4. Flagged' /\ Joined'
  BY <1>1, <1>2 DEF StartFails, Goto, Typed, Flagged, Joined, Sessions, Places, Claimed, Inside
<1>5. Counted' /\ Lined'
  BY DEF StartFails, buffers, counts, Counted, Lined, Chained
<1>6. Ahead'
  BY DEF StartFails, Goto, buffers, counts, Ahead, Typed, Places
<1>7. Sized'
  BY <1>1, <1>2 DEF StartFails, Goto, buffers, counts, Sized, Typed, Places, Flagged, Joined
<1>8. Emptied'
  BY <1>1, <1>2 DEF StartFails, Goto, buffers, counts, Emptied, Typed, Places, Flagged, Joined, Sessions
<1> QED BY <1>3, <1>4, <1>5, <1>6, <1>7, <1>8

LEMMA AdoptKeeps == ASSUME NEW d \in 0..DelayMax, IInv, Adopt(d) PROVE IInv'
<1> USE DEF IInv, Handshake, Data
<1>1. ses' = ses
  BY DEF Adopt
<1>3. Typed'
  BY <1>1 DEF Adopt, Goto, Typed, Places
<1>4. Flagged' /\ Joined'
  BY <1>1 DEF Adopt, Goto, Typed, Flagged, Joined, Sessions, Places, Claimed, Inside
<1>5. Counted' /\ Lined'
  BY SizesAssumption DEF Adopt, buffers, counts, Counted, Lined, Chained
<1>6. Ahead'
  BY DEF Adopt, Goto, buffers, counts, Ahead, Typed, Places
<1>7. Sized'
  BY <1>1 DEF Adopt, Goto, buffers, counts, Sized, Typed, Places
<1>8. Emptied'
  BY <1>1 DEF Adopt, Goto, buffers, counts, Emptied, Typed, Places
<1> QED BY <1>3, <1>4, <1>5, <1>6, <1>7, <1>8

LEMMA RequestStopKeeps == IInv /\ RequestStop => IInv'
<1> SUFFICES ASSUME IInv, RequestStop PROVE IInv'
  OBVIOUS
<1> USE DEF IInv, Handshake, Data
<1>1. ses' \in Sessions
  BY DEF RequestStop, Typed, Sessions
<1>2. /\ ses'.active = ses.active /\ ses'.drained = ses.drained
      /\ ses'.done = ses.done /\ ses'.closing = ses.closing /\ ses'.reading = ses.reading
  BY DEF RequestStop, Typed, Sessions
<1>3. Typed'
  BY <1>1 DEF RequestStop, Goto, Typed, Places
<1>4. Flagged' /\ Joined'
  BY <1>1, <1>2 DEF RequestStop, Goto, Typed, Flagged, Joined, Sessions, Places, Claimed, Inside
<1>5. Counted' /\ Lined'
  BY DEF RequestStop, buffers, counts, Counted, Lined, Chained
<1>6. Ahead'
  BY DEF RequestStop, Goto, buffers, counts, Ahead, Typed, Places
<1>7. Sized'
  BY <1>1, <1>2 DEF RequestStop, Goto, buffers, counts, Sized, Typed, Places, Flagged, Joined
<1>8. Emptied'
  BY <1>1, <1>2 DEF RequestStop, Goto, buffers, counts, Emptied, Typed, Places, Flagged, Joined, Sessions
<1> QED BY <1>3, <1>4, <1>5, <1>6, <1>7, <1>8

LEMMA EndCalledKeeps == IInv /\ EndCalled => IInv'
<1> SUFFICES ASSUME IInv, EndCalled PROVE IInv'
  OBVIOUS
<1> USE DEF IInv, Handshake, Data
<1>1. ses' \in Sessions
  BY DEF EndCalled, Typed, Sessions
<1>2. /\ ses'.active = ses.active /\ ses'.drained = ses.drained
      /\ ses'.done = ses.done /\ ses'.closing /\ ses'.reading = ses.reading
  BY DEF EndCalled, Typed, Sessions
<1>3. Typed'
  BY <1>1 DEF EndCalled, Goto, Typed, Places
<1>4. Flagged' /\ Joined'
  BY <1>1, <1>2 DEF EndCalled, Goto, Typed, Flagged, Joined, Sessions, Places, Claimed, Inside
<1>5. Counted' /\ Lined'
  BY DEF EndCalled, buffers, counts, Counted, Lined, Chained
<1>6. Ahead'
  BY DEF EndCalled, Goto, buffers, counts, Ahead, Typed, Places
<1>7. Sized'
  BY <1>1, <1>2 DEF EndCalled, Goto, buffers, counts, Sized, Typed, Places, Flagged, Joined
<1>8. Emptied'
  BY <1>1, <1>2 DEF EndCalled, Goto, buffers, counts, Emptied, Typed, Places, Flagged, Joined, Sessions
<1> QED BY <1>3, <1>4, <1>5, <1>6, <1>7, <1>8

LEMMA EndStopKeeps == IInv /\ EndStop => IInv'
<1> SUFFICES ASSUME IInv, EndStop PROVE IInv'
  OBVIOUS
<1> USE DEF IInv, Handshake, Data
<1>1. ses' \in Sessions
  BY DEF EndStop, Typed, Sessions
<1>2. /\ ses'.active = ses.active /\ ses'.drained = ses.drained
      /\ ses'.done = ses.done /\ ses'.closing = ses.closing /\ ses'.reading = ses.reading
  BY DEF EndStop, Typed, Sessions
<1>3. Typed'
  BY <1>1 DEF EndStop, Goto, Typed, Places
<1>4. Flagged' /\ Joined'
  BY <1>1, <1>2 DEF EndStop, Goto, Typed, Flagged, Joined, Sessions, Places, Claimed, Inside
<1>5. Counted' /\ Lined'
  BY DEF EndStop, buffers, counts, Counted, Lined, Chained
<1>6. Ahead'
  BY DEF EndStop, Goto, buffers, counts, Ahead, Typed, Places
<1>7. Sized'
  BY <1>1, <1>2 DEF EndStop, Goto, buffers, counts, Sized, Typed, Places, Flagged, Joined
<1>8. Emptied'
  BY <1>1, <1>2 DEF EndStop, Goto, buffers, counts, Emptied, Typed, Places, Flagged, Joined, Sessions
<1> QED BY <1>3, <1>4, <1>5, <1>6, <1>7, <1>8

LEMMA EndJoinKeeps == IInv /\ EndJoin => IInv'
<1> SUFFICES ASSUME IInv, EndJoin PROVE IInv'
  OBVIOUS
<1> USE DEF IInv, Handshake, Data
<1>1. ses' = ses
  BY DEF EndJoin
<1>3. Typed'
  BY <1>1 DEF EndJoin, Goto, OthersOut, Typed, Places
<1>4. Flagged' /\ Joined'
  BY <1>1 DEF EndJoin, Goto, OthersOut, Typed, Flagged, Joined, Sessions, Places, Claimed, Inside
<1>5. Counted' /\ Lined'
  BY DEF EndJoin, buffers, counts, Counted, Lined, Chained
<1>6. Ahead'
  BY DEF EndJoin, Goto, OthersOut, buffers, counts, Ahead, Typed, Places
<1>7. Sized'
  BY <1>1 DEF EndJoin, Goto, OthersOut, buffers, counts, Sized, Typed, Places, Flagged, Joined
<1>8. Emptied'
  BY <1>1 DEF EndJoin, Goto, OthersOut, buffers, counts, Emptied, Typed, Places, Flagged, Joined, Sessions
<1> QED BY <1>3, <1>4, <1>5, <1>6, <1>7, <1>8

LEMMA EndFreeKeeps == IInv /\ EndFree => IInv'
<1> SUFFICES ASSUME IInv, EndFree PROVE IInv'
  OBVIOUS
<1> USE DEF IInv, Handshake, Data
<1>1. ses' = ses
  BY DEF EndFree
<1>3. Typed'
  BY <1>1 DEF EndFree, Goto, Typed, Places
<1>4. Flagged' /\ Joined'
  BY <1>1 DEF EndFree, Goto, Typed, Flagged, Joined, Sessions, Places, Claimed, Inside
<1>5. Counted' /\ Lined'
  BY DEF EndFree, counts, Counted, Lined
<1>6. Ahead'
  BY DEF EndFree, Goto, counts, Ahead, Typed, Places
<1>7. Sized'
  BY <1>1, SizesAssumption DEF EndFree, counts, Counted, Sized
<1>8. Emptied'
  BY <1>1 DEF EndFree, Goto, counts, Emptied, Typed, Places, Flagged, Joined
<1> QED BY <1>3, <1>4, <1>5, <1>6, <1>7, <1>8

LEMMA EndClearKeeps == IInv /\ EndClear => IInv'
<1> SUFFICES ASSUME IInv, EndClear PROVE IInv'
  OBVIOUS
<1> USE DEF IInv, Handshake, Data
<1>1. ses' \in Sessions
  BY DEF EndClear, Typed, Sessions
<1>2. /\ ~ses'.active /\ ses'.drained
      /\ ses'.done = ses.done /\ ses'.closing = ses.closing /\ ses'.reading = ses.reading
  BY DEF EndClear, Typed, Sessions
<1>3. Typed'
  BY <1>1 DEF EndClear, Goto, Typed, Places
<1>4. Flagged' /\ Joined'
  BY <1>1, <1>2 DEF EndClear, Goto, Typed, Flagged, Joined, Sessions, Places, Claimed, Inside
<1>5. Counted' /\ Lined'
  BY DEF EndClear, buffers, counts, Counted, Lined, Chained
<1>6. Ahead'
  BY DEF EndClear, Goto, buffers, counts, Ahead, Typed, Places
<1>7. Sized'
  BY <1>1, <1>2 DEF EndClear, Goto, buffers, counts, Sized, Typed, Places, Flagged, Joined
<1>8. Emptied'
  BY <1>1, <1>2 DEF EndClear, Goto, buffers, counts, Emptied, Typed, Places, Flagged, Joined, Sessions
<1> QED BY <1>3, <1>4, <1>5, <1>6, <1>7, <1>8

LEMMA ProducerLookKeeps == IInv /\ ProducerLook => IInv'
<1> SUFFICES ASSUME IInv, ProducerLook PROVE IInv'
  OBVIOUS
<1> USE DEF IInv, Handshake, Data
<1>1. ses' = ses
  BY DEF ProducerLook
<1>3. Typed'
  BY <1>1 DEF ProducerLook, Goto, Typed, Places
<1>4. Flagged' /\ Joined'
  BY <1>1 DEF ProducerLook, Goto, Typed, Flagged, Joined, Sessions, Places, Claimed, Inside
<1>5. Counted' /\ Lined'
  BY DEF ProducerLook, buffers, counts, Counted, Lined, Chained
<1>6. Ahead'
  BY DEF ProducerLook, Goto, buffers, counts, Ahead, Typed, Places
<1>7. Sized'
  BY <1>1 DEF ProducerLook, Goto, buffers, counts, Sized, Typed, Places, Flagged, Joined
<1>8. Emptied'
  BY <1>1 DEF ProducerLook, Goto, buffers, counts, Emptied, Typed, Places, Flagged, Joined, Sessions
<1> QED BY <1>3, <1>4, <1>5, <1>6, <1>7, <1>8

LEMMA ProducerReadKeeps == IInv /\ ProducerRead => IInv'
<1> SUFFICES ASSUME IInv, ProducerRead PROVE IInv'
  OBVIOUS
<1> USE DEF IInv, Handshake, Data
<1>1. ses' \in Sessions
  BY DEF ProducerRead, Typed, Sessions
<1>2. /\ ses'.active = ses.active /\ ses'.drained = ses.drained
      /\ ses'.done = ses.done /\ ses'.closing = ses.closing /\ ses'.reading = ses.reading
  BY DEF ProducerRead, Typed, Sessions
<1>3. Typed'
  BY <1>1 DEF ProducerRead, Goto, Typed, Places
<1>4. Flagged' /\ Joined'
  BY <1>1, <1>2 DEF ProducerRead, Goto, Typed, Flagged, Joined, Sessions, Places, Claimed, Inside
<1>5. Counted' /\ Lined'
  BY SizesAssumption DEF ProducerRead, buffers, Counted, Lined, Chained
<1>6. Ahead'
  BY SizesAssumption DEF ProducerRead, Goto, Ahead, Counted, Typed, Places
<1>7. Sized'
  BY <1>2 DEF ProducerRead, Goto, buffers, Sized, Typed, Places
<1>8. Emptied'
  BY <1>2 DEF ProducerRead, Goto, buffers, Emptied, Typed, Places
<1> QED BY <1>3, <1>4, <1>5, <1>6, <1>7, <1>8

LEMMA ProducerSendKeeps == IInv /\ ProducerSend => IInv'
<1> SUFFICES ASSUME IInv, ProducerSend PROVE IInv'
  OBVIOUS
<1> USE DEF IInv, Handshake, Data
<1>1. ses' \in Sessions
  BY DEF ProducerSend, Typed, Sessions
<1>2. /\ ses'.active = ses.active /\ ses'.drained = ses.drained
      /\ ses'.done = ses.done /\ ses'.closing = ses.closing /\ ses'.reading = ses.reading
  BY DEF ProducerSend, Typed, Sessions
<1>3. Typed'
  BY <1>1 DEF ProducerSend, Goto, Typed, Places
<1>4. Flagged' /\ Joined'
  BY <1>1, <1>2 DEF ProducerSend, Goto, Typed, Flagged, Joined, Sessions, Places, Claimed, Inside
<1>5. Counted' /\ Lined'
  <2>1. Chained /\ alive
    BY DEF ProducerSend, Lined, Flagged, Joined
  <2>2. CASE Len(ring) + block <= RingSize
    <3> DEFINE more == [i \in 1..block |-> taken - block + i]
    <3>1. taken - block = sent /\ block \in Nat /\ sent \in Nat
      BY DEF ProducerSend, Ahead, Counted
    <3>2. more = [i \in 1..block |-> sent + i]
      BY <3>1
    <3>3. Consecutive(more, sent) /\ Len(more) = block
      BY <3>1, <3>2, ConsecutiveBlock
    <3>4. ring' = ring \o more /\ sent' = sent + block
      BY <2>2 DEF ProducerSend
    <3> HIDE DEF more
    <3>5. /\ got \in Seq(Nat) /\ line \in Seq(Nat) /\ piece \in Seq(Nat)
          /\ Len(got) + Len(line) + Len(piece) \in Nat
          /\ sent = Len(got) + Len(line) + Len(piece) + Len(ring)
      BY <2>1 DEF Chained, Counted
    <3>6. Consecutive(ring, Len(got) + Len(line) + Len(piece))
      BY <2>1 DEF Chained
    <3>7. /\ Consecutive(ring', Len(got) + Len(line) + Len(piece))
          /\ Len(ring') = Len(ring) + block
      BY <3>3, <3>4, <3>5, <3>6, ConsecutiveConcat
    <3>8. ring' \in Seq(Nat) /\ Len(ring) \in Nat
      BY <3>7, ConsecutiveType DEF Counted
    <3>9. Chained'
      BY <2>1, <3>1, <3>4, <3>5, <3>7, <3>8 DEF ProducerSend, Chained
    <3> QED BY <3>1, <3>4, <3>8, <3>9 DEF ProducerSend, Counted, Lined
  <2>3. CASE ~(Len(ring) + block <= RingSize)
    BY <2>1, <2>3 DEF ProducerSend, Counted, Lined, Chained
  <2> QED BY <2>2, <2>3
<1>6. Ahead'
  BY DEF ProducerSend, Goto, Ahead, Counted, Typed, Places
<1>7. Sized'
  <2>1. CASE Len(ring) + block <= RingSize
    <3>1. Len([i \in 1..block |-> taken - block + i]) = block
      BY DEF Counted
    <3>2. Len(ring') = Len(ring) + block
      BY <2>1, <3>1 DEF ProducerSend, Ahead, Counted
    <3> QED BY <1>2, <2>1, <3>2 DEF ProducerSend, Goto, Sized, Typed, Places
  <2>2. CASE ~(Len(ring) + block <= RingSize)
    BY <1>2, <2>2 DEF ProducerSend, Goto, Sized, Typed, Places
  <2> QED BY <2>1, <2>2
<1>8. Emptied'
  <2>1. ~ses.done
    BY DEF ProducerSend, Flagged
  <2> QED BY <1>2, <2>1 DEF ProducerSend, Goto, Emptied, Typed, Places
<1> QED BY <1>3, <1>4, <1>5, <1>6, <1>7, <1>8

LEMMA ProducerExitKeeps == IInv /\ ProducerExit => IInv'
<1> SUFFICES ASSUME IInv, ProducerExit PROVE IInv'
  OBVIOUS
<1> USE DEF IInv, Handshake, Data
<1>1. ses' \in Sessions
  BY DEF ProducerExit, Typed, Sessions
<1>2. /\ ses'.active = ses.active /\ ses'.drained = ses.drained
      /\ ses'.done /\ ses'.closing = ses.closing /\ ses'.reading = ses.reading
  BY DEF ProducerExit, Typed, Sessions
<1>3. Typed'
  BY <1>1 DEF ProducerExit, Goto, Typed, Places
<1>4. Flagged' /\ Joined'
  BY <1>1, <1>2 DEF ProducerExit, Goto, Typed, Flagged, Joined, Sessions, Places, Claimed, Inside
<1>5. Counted' /\ Lined'
  BY DEF ProducerExit, buffers, counts, Counted, Lined, Chained
<1>6. Ahead'
  BY DEF ProducerExit, Goto, buffers, counts, Ahead, Typed, Places
<1>7. Sized'
  BY <1>1, <1>2 DEF ProducerExit, Goto, buffers, counts, Sized, Typed, Places, Flagged, Joined
<1>8. Emptied'
  BY <1>1, <1>2 DEF ProducerExit, Goto, buffers, counts, Emptied, Typed, Places, Flagged, Joined, Sessions
<1> QED BY <1>3, <1>4, <1>5, <1>6, <1>7, <1>8

LEMMA ReadCalledKeeps == IInv /\ ReadCalled => IInv'
<1> SUFFICES ASSUME IInv, ReadCalled PROVE IInv'
  OBVIOUS
<1> USE DEF IInv, Handshake, Data
<1>1. ses' = ses
  BY DEF ReadCalled
<1>3. Typed'
  BY <1>1 DEF ReadCalled, Goto, Typed, Places
<1>4. Flagged' /\ Joined'
  BY <1>1 DEF ReadCalled, Goto, Typed, Flagged, Joined, Sessions, Places, Claimed, Inside
<1>5. Counted' /\ Lined'
  BY DEF ReadCalled, buffers, counts, Counted, Lined, Chained
<1>6. Ahead'
  BY DEF ReadCalled, Goto, buffers, counts, Ahead, Typed, Places
<1>7. Sized'
  BY <1>1 DEF ReadCalled, Goto, buffers, counts, Sized, Typed, Places, Flagged, Joined
<1>8. Emptied'
  BY <1>1 DEF ReadCalled, Goto, buffers, counts, Emptied, Typed, Places, Flagged, Joined, Sessions
<1> QED BY <1>3, <1>4, <1>5, <1>6, <1>7, <1>8

LEMMA ReadClaimKeeps == IInv /\ ReadClaim => IInv'
<1> SUFFICES ASSUME IInv, ReadClaim PROVE IInv'
  OBVIOUS
<1> USE DEF IInv, Handshake, Data
<1>1. ses' \in Sessions
  BY DEF ReadClaim, Typed, Sessions
<1>2. /\ ses'.active = ses.active /\ ses'.drained = ses.drained
      /\ ses'.done = ses.done /\ ses'.closing = ses.closing /\ ses'.reading
  BY DEF ReadClaim, Typed, Sessions
<1>3. Typed'
  BY <1>1 DEF ReadClaim, Goto, Typed, Places
<1>4. Flagged' /\ Joined'
  BY <1>1, <1>2 DEF ReadClaim, Goto, Typed, Flagged, Joined, Sessions, Places, Claimed, Inside
<1>5. Counted' /\ Lined'
  BY DEF ReadClaim, buffers, counts, Counted, Lined, Chained
<1>6. Ahead'
  BY DEF ReadClaim, Goto, buffers, counts, Ahead, Typed, Places
<1>7. Sized'
  BY <1>1, <1>2 DEF ReadClaim, Goto, buffers, counts, Sized, Typed, Places, Flagged, Joined
<1>8. Emptied'
  BY <1>1, <1>2 DEF ReadClaim, Goto, buffers, counts, Emptied, Typed, Places, Flagged, Joined, Sessions
<1> QED BY <1>3, <1>4, <1>5, <1>6, <1>7, <1>8

LEMMA ReadRecheckKeeps == IInv /\ ReadRecheck => IInv'
<1> SUFFICES ASSUME IInv, ReadRecheck PROVE IInv'
  OBVIOUS
<1> USE DEF IInv, Handshake, Data
<1>1. ses' \in Sessions
  BY DEF ReadRecheck, Typed, Sessions
<1>2. /\ ses'.active = ses.active /\ ses'.drained = ses.drained
      /\ ses'.done = ses.done /\ ses'.closing = ses.closing /\ (IF ses.closing THEN ~ses'.reading ELSE ses'.reading = ses.reading)
  BY DEF ReadRecheck, Typed, Sessions
<1>3. Typed'
  BY <1>1 DEF ReadRecheck, Goto, Typed, Places
<1>4. Flagged' /\ Joined'
  BY <1>1, <1>2 DEF ReadRecheck, Goto, Typed, Flagged, Joined, Sessions, Places, Claimed, Inside
<1>5. Counted' /\ Lined'
  BY DEF ReadRecheck, buffers, counts, Counted, Lined, Chained
<1>6. Ahead'
  BY DEF ReadRecheck, Goto, buffers, counts, Ahead, Typed, Places
<1>7. Sized'
  BY <1>1, <1>2 DEF ReadRecheck, Goto, buffers, counts, Sized, Typed, Places, Flagged, Joined
<1>8. Emptied'
  BY <1>1, <1>2 DEF ReadRecheck, Goto, buffers, counts, Emptied, Typed, Places, Flagged, Joined, Sessions
<1> QED BY <1>3, <1>4, <1>5, <1>6, <1>7, <1>8

LEMMA ReadReceiveKeeps == IInv /\ ReadReceive => IInv'
<1> SUFFICES ASSUME IInv, ReadReceive PROVE IInv'
  OBVIOUS
<1> USE DEF IInv, Handshake, Data
<1>1. ses' = ses
  BY DEF ReadReceive
<1>3. Typed'
  BY <1>1 DEF ReadReceive, Goto, Typed, Places
<1>4. Flagged' /\ Joined'
  BY <1>1 DEF ReadReceive, Goto, Typed, Flagged, Joined, Sessions, Places, Claimed, Inside
<1>5. Counted' /\ Lined' /\ Len(ring') <= Len(ring) /\ Len(piece') <= PendingMax
  <2>1. Chained /\ alive
    BY DEF ReadReceive, Lined, Flagged, Joined, Inside
  <2>2. CASE ring = <<>>
    <3>1. ring' = ring /\ piece' = piece
      BY <2>2 DEF ReadReceive
    <3>2. Counted' /\ Lined'
      BY <2>1, <3>1 DEF ReadReceive, counts, Counted, Lined, Chained
    <3> QED BY <3>1, <3>2 DEF Sized, Counted
  <2>3. CASE ring # <<>>
    <3> DEFINE k == Least(PendingMax, Len(ring))
    <3>1. k \in 0..Len(ring) /\ k <= PendingMax
      BY SizesAssumption DEF Least, Counted
    <3>2. piece' = SubSeq(ring, 1, k) /\ ring' = SubSeq(ring, k + 1, Len(ring))
      BY <2>3 DEF ReadReceive
    <3> HIDE DEF k
    <3>3. /\ Len(piece) = 0 /\ Len(got) + Len(line) \in Nat
          /\ Len(ring) \in Nat /\ Len(got) \in Nat /\ Len(line) \in Nat
      BY DEF ReadReceive, Counted
    <3>4. Consecutive(ring, Len(got) + Len(line))
      BY <2>1, <3>3 DEF Chained
    <3>5. /\ Consecutive(piece', Len(got) + Len(line)) /\ Len(piece') = k
          /\ Consecutive(ring', Len(got) + Len(line) + k) /\ Len(ring') = Len(ring) - k
      BY <3>1, <3>2, <3>3, <3>4, ConsecutiveSplit
    <3>6. Chained'
      BY <2>1, <3>1, <3>3, <3>5 DEF ReadReceive, counts, Chained
    <3>7. ring' \in Seq(Nat) /\ piece' \in Seq(Nat)
      BY <3>5, ConsecutiveType
    <3>8. Counted' /\ Lined'
      BY <3>6, <3>7 DEF ReadReceive, counts, Counted, Lined
    <3> QED BY <3>1, <3>3, <3>5, <3>8
  <2> QED BY <2>2, <2>3
<1>6. Ahead'
  BY DEF ReadReceive, Goto, counts, Ahead, Typed, Places
<1>7. Sized'
  <2>1. pc'["consumer"] # "none"
    BY DEF ReadReceive, Goto, Typed, Places
  <2>2. Len(ring) \in Nat /\ Len(ring') \in Nat
    BY <1>5 DEF Counted
  <2> QED BY <1>5, <2>1, <2>2, SizesAssumption DEF ReadReceive, Sized
<1>8. Emptied'
  BY <1>1 DEF ReadReceive, Goto, counts, Emptied, Typed, Places
<1> QED BY <1>3, <1>4, <1>5, <1>6, <1>7, <1>8

LEMMA ReadPushKeeps == IInv /\ ReadPush => IInv'
<1> SUFFICES ASSUME IInv, ReadPush PROVE IInv'
  OBVIOUS
<1> USE DEF IInv, Handshake, Data
<1>1. ses' = ses
  BY DEF ReadPush
<1>3. Typed'
  BY <1>1 DEF ReadPush, Goto, Typed, Places
<1>4. Flagged' /\ Joined'
  BY <1>1 DEF ReadPush, Goto, Typed, Flagged, Joined, Sessions, Places, Claimed, Inside
<1>5. Counted' /\ Lined' /\ Len(line') <= delay'
  <2>1. Chained /\ alive
    BY DEF ReadPush, Lined, Flagged, Joined, Inside
  <2> DEFINE full == Append(line, Head(piece))
  <2>2. Len(got) \in Nat /\ Len(line) \in Nat /\ Len(got) + Len(line) \in Nat
    BY DEF Counted
  <2>3. /\ Consecutive(piece', Len(got) + Len(line) + 1) /\ Len(piece') + 1 = Len(piece)
        /\ Head(piece) = Len(got) + Len(line) + 1
    BY <2>1, <2>2, ConsecutiveTail DEF ReadPush, Chained
  <2>4. Consecutive(full, Len(got)) /\ Len(full) = Len(line) + 1
    BY <2>1, <2>2, <2>3, ConsecutiveAppend DEF Chained
  <2>5. CASE Len(full) > delay
    <3>1. got' = Append(got, Head(full)) /\ line' = Tail(full) /\ n' = n + 1
      BY <2>5 DEF ReadPush
    <3> HIDE DEF full
    <3>2. full # <<>>
      BY <2>2, <2>4
    <3>3. /\ Consecutive(line', Len(got) + 1) /\ Len(line') = Len(line)
          /\ Head(full) = Len(got) + 1
      BY <2>2, <2>4, <3>1, <3>2, ConsecutiveTail
    <3>4. Consecutive(got', 0) /\ Len(got') = Len(got) + 1
      BY <2>1, <2>2, <3>1, <3>3, ConsecutiveAppend DEF Chained
    <3>5. Len(ring) \in Nat /\ Len(piece) \in Nat /\ Len(piece') \in Nat
      BY <2>3, ConsecutiveType DEF Counted
    <3>6. Chained'
      <4>1. Len(got') + Len(line') = Len(got) + Len(line) + 1
        BY <2>2, <3>3, <3>4
      <4>2. Len(got') + Len(line') + Len(piece') = Len(got) + Len(line) + Len(piece)
        BY <2>2, <2>3, <3>5, <4>1
      <4>3. ring' = ring /\ sent' = sent
        BY DEF ReadPush
      <4> QED BY <2>1, <2>3, <3>3, <3>4, <4>1, <4>2, <4>3 DEF Chained
    <3>7. Counted'
      <4>1. got' \in Seq(Nat) /\ line' \in Seq(Nat) /\ piece' \in Seq(Nat)
        BY <2>3, <3>3, <3>4, ConsecutiveType
      <4>2. n' \in Nat
        BY <3>1 DEF Counted
      <4> QED BY <4>1, <4>2 DEF ReadPush, Counted
    <3>8. Len(line') <= delay'
      BY <3>3 DEF ReadPush, Sized
    <3> QED BY <3>6, <3>7, <3>8 DEF Lined
  <2>6. CASE ~(Len(full) > delay)
    <3>1. line' = full /\ got' = got /\ n' = n
      BY <2>6 DEF ReadPush
    <3> HIDE DEF full
    <3>2. Len(ring) \in Nat /\ Len(piece) \in Nat /\ Len(piece') \in Nat
      BY <2>3, ConsecutiveType DEF Counted
    <3>3. Chained'
      <4>1. Len(got') + Len(line') = Len(got) + Len(line) + 1
        BY <2>2, <2>4, <3>1
      <4>2. Len(got') + Len(line') + Len(piece') = Len(got) + Len(line) + Len(piece)
        BY <2>2, <2>3, <3>2, <4>1
      <4>3. ring' = ring /\ sent' = sent
        BY DEF ReadPush
      <4> QED BY <2>1, <2>3, <2>4, <3>1, <4>1, <4>2, <4>3 DEF Chained
    <3>4. Counted'
      BY <2>3, <2>4, <3>1, ConsecutiveType DEF ReadPush, Counted
    <3>5. Len(line') <= delay'
      BY <2>2, <2>4, <2>6, <3>1 DEF ReadPush, Counted
    <3> QED BY <3>3, <3>4, <3>5 DEF Lined
  <2> QED BY <2>5, <2>6
<1>6. Ahead'
  BY DEF ReadPush, Ahead
<1>7. Sized'
  <2>1. Len(piece') <= Len(piece) /\ Len(piece) \in Nat /\ Len(piece') \in Nat
    BY DEF ReadPush, Counted
  <2> QED BY <1>1, <1>5, <2>1, SizesAssumption DEF ReadPush, Sized
<1>8. Emptied'
  BY <1>1 DEF ReadPush, Emptied
<1> QED BY <1>3, <1>4, <1>5, <1>6, <1>7, <1>8

LEMMA ReadFullKeeps == IInv /\ ReadFull => IInv'
<1> SUFFICES ASSUME IInv, ReadFull PROVE IInv'
  OBVIOUS
<1> USE DEF IInv, Handshake, Data
<1>1. ses' = ses
  BY DEF ReadFull
<1>3. Typed'
  BY <1>1 DEF ReadFull, Goto, Typed, Places
<1>4. Flagged' /\ Joined'
  BY <1>1 DEF ReadFull, Goto, Typed, Flagged, Joined, Sessions, Places, Claimed, Inside
<1>5. Counted' /\ Lined'
  BY DEF ReadFull, buffers, counts, Counted, Lined, Chained
<1>6. Ahead'
  BY DEF ReadFull, Goto, buffers, counts, Ahead, Typed, Places
<1>7. Sized'
  BY <1>1 DEF ReadFull, Goto, buffers, counts, Sized, Typed, Places, Flagged, Joined
<1>8. Emptied'
  BY <1>1 DEF ReadFull, Goto, buffers, counts, Emptied, Typed, Places, Flagged, Joined, Sessions
<1> QED BY <1>3, <1>4, <1>5, <1>6, <1>7, <1>8

LEMMA ReadEndedKeeps == IInv /\ ReadEnded => IInv'
<1> SUFFICES ASSUME IInv, ReadEnded PROVE IInv'
  OBVIOUS
<1> USE DEF IInv, Handshake, Data
<1>1. ses' = ses
  BY DEF ReadEnded
<1>3. Typed'
  BY <1>1 DEF ReadEnded, Goto, Typed, Places
<1>4. Flagged' /\ Joined'
  BY <1>1 DEF ReadEnded, Goto, Typed, Flagged, Joined, Sessions, Places, Claimed, Inside
<1>5. Counted' /\ Lined'
  BY DEF ReadEnded, buffers, counts, Counted, Lined, Chained
<1>6. Ahead'
  BY DEF ReadEnded, Goto, buffers, counts, Ahead, Typed, Places
<1>7. Sized'
  BY <1>1 DEF ReadEnded, Goto, buffers, counts, Sized, Typed, Places, Flagged, Joined
<1>8. Emptied'
  BY <1>1 DEF ReadEnded, Goto, buffers, counts, Emptied, Typed, Places, Flagged, Joined, Sessions
<1> QED BY <1>3, <1>4, <1>5, <1>6, <1>7, <1>8

LEMMA ReadEmptyKeeps == IInv /\ ReadEmpty => IInv'
<1> SUFFICES ASSUME IInv, ReadEmpty PROVE IInv'
  OBVIOUS
<1> USE DEF IInv, Handshake, Data
<1>1. ses' = ses
  BY DEF ReadEmpty
<1>3. Typed'
  BY <1>1 DEF ReadEmpty, Goto, Typed, Places
<1>4. Flagged' /\ Joined'
  BY <1>1 DEF ReadEmpty, Goto, Typed, Flagged, Joined, Sessions, Places, Claimed, Inside
<1>5. Counted' /\ Lined'
  BY DEF ReadEmpty, buffers, counts, Counted, Lined, Chained
<1>6. Ahead'
  BY DEF ReadEmpty, Goto, buffers, counts, Ahead, Typed, Places
<1>7. Sized'
  BY <1>1 DEF ReadEmpty, Goto, buffers, counts, Sized, Typed, Places, Flagged, Joined
<1>8. Emptied'
  BY <1>1 DEF ReadEmpty, Goto, buffers, counts, Emptied, Typed, Places, Flagged, Joined, Sessions
<1> QED BY <1>3, <1>4, <1>5, <1>6, <1>7, <1>8

LEMMA ReadTailKeeps == IInv /\ ReadTail => IInv'
<1> SUFFICES ASSUME IInv, ReadTail PROVE IInv'
  OBVIOUS
<1> USE DEF IInv, Handshake, Data
<1>1. ses' \in Sessions
  BY DEF ReadTail, Typed, Sessions
<1>2. /\ ses'.active = ses.active /\ (ses'.drained <=> ses.drained \/ line = <<>>)
      /\ ses'.done = ses.done /\ ses'.closing = ses.closing /\ ses'.reading = ses.reading
  BY DEF ReadTail, Typed, Sessions
<1>3. Typed'
  BY <1>1 DEF ReadTail, Goto, Typed, Places
<1>4. Flagged' /\ Joined'
  BY <1>1, <1>2 DEF ReadTail, Goto, Typed, Flagged, Joined, Sessions, Places, Claimed, Inside
<1>5. Counted' /\ Lined' /\ Len(line') <= delay'
  <2>1. Chained /\ alive /\ piece = <<>> /\ ring = <<>>
    BY DEF ReadTail, Lined, Flagged, Joined, Inside, Emptied
  <2>2. CASE line # <<>>
    <3>1. got' = Append(got, Head(line)) /\ line' = Tail(line) /\ n' = n + 1
      BY <2>2 DEF ReadTail
    <3>2. Len(got) \in Nat /\ Len(line) \in Nat
      BY DEF Counted
    <3>3. /\ Consecutive(line', Len(got) + 1) /\ Len(line') + 1 = Len(line)
          /\ Head(line) = Len(got) + 1
      BY <2>1, <2>2, <3>1, <3>2, ConsecutiveTail DEF Chained
    <3>4. Consecutive(got', 0) /\ Len(got') = Len(got) + 1
      BY <2>1, <3>1, <3>2, <3>3, ConsecutiveAppend DEF Chained
    <3>5. Len(line') \in Nat /\ Len(got') \in Nat
      BY <3>3, <3>4, ConsecutiveType
    <3>6. Len(got') + Len(line') = Len(got) + Len(line)
      BY <3>2, <3>3, <3>4, <3>5
    <3>7. piece' = piece /\ ring' = ring /\ sent' = sent
      BY DEF ReadTail
    <3>8. Chained'
      BY <2>1, <3>3, <3>4, <3>6, <3>7 DEF Chained
    <3>9. Counted'
      BY <3>1, <3>3, <3>4, ConsecutiveType DEF ReadTail, Counted
    <3>10. Len(line') <= delay'
      BY <3>2, <3>3, <3>5 DEF ReadTail, Sized, Counted
    <3> QED BY <3>8, <3>9, <3>10 DEF Lined
  <2>3. CASE line = <<>>
    BY <2>1, <2>3 DEF ReadTail, Counted, Lined, Chained, Sized
  <2> QED BY <2>2, <2>3
<1>6. Ahead'
  BY DEF ReadTail, Goto, Ahead, Typed, Places
<1>7. Sized'
  BY <1>2, <1>5 DEF ReadTail, Goto, Sized, Typed, Places
<1>8. Emptied'
  BY <1>2 DEF ReadTail, Goto, Emptied, Typed, Places, Sessions
<1> QED BY <1>3, <1>4, <1>5, <1>6, <1>7, <1>8

LEMMA ReadReturnsKeeps == IInv /\ ReadReturns => IInv'
<1> SUFFICES ASSUME IInv, ReadReturns PROVE IInv'
  OBVIOUS
<1> USE DEF IInv, Handshake, Data
<1>1. ses' \in Sessions
  BY DEF ReadReturns, Typed, Sessions
<1>2. /\ ses'.active = ses.active /\ ses'.drained = ses.drained
      /\ ses'.done = ses.done /\ ses'.closing = ses.closing /\ ~ses'.reading
  BY DEF ReadReturns, Typed, Sessions
<1>3. Typed'
  BY <1>1 DEF ReadReturns, Goto, Typed, Places
<1>4. Flagged' /\ Joined'
  BY <1>1, <1>2 DEF ReadReturns, Goto, Typed, Flagged, Joined, Sessions, Places, Claimed, Inside
<1>5. Counted' /\ Lined'
  BY DEF ReadReturns, buffers, counts, Counted, Lined, Chained
<1>6. Ahead'
  BY DEF ReadReturns, Goto, buffers, counts, Ahead, Typed, Places
<1>7. Sized'
  BY <1>1, <1>2 DEF ReadReturns, Goto, buffers, counts, Sized, Typed, Places, Flagged, Joined
<1>8. Emptied'
  BY <1>1, <1>2 DEF ReadReturns, Goto, buffers, counts, Emptied, Typed, Places, Flagged, Joined, Sessions
<1> QED BY <1>3, <1>4, <1>5, <1>6, <1>7, <1>8

LEMMA ConsumerBackKeeps == IInv /\ ConsumerBack => IInv'
<1> SUFFICES ASSUME IInv, ConsumerBack PROVE IInv'
  OBVIOUS
<1> USE DEF IInv, Handshake, Data
<1>1. ses' = ses
  BY DEF ConsumerBack
<1>3. Typed'
  BY <1>1 DEF ConsumerBack, Goto, Typed, Places
<1>4. Flagged' /\ Joined'
  BY <1>1 DEF ConsumerBack, Goto, Typed, Flagged, Joined, Sessions, Places, Claimed, Inside
<1>5. Counted' /\ Lined'
  BY DEF ConsumerBack, buffers, counts, Counted, Lined, Chained
<1>6. Ahead'
  BY DEF ConsumerBack, Goto, buffers, counts, Ahead, Typed, Places
<1>7. Sized'
  BY <1>1 DEF ConsumerBack, Goto, buffers, counts, Sized, Typed, Places, Flagged, Joined
<1>8. Emptied'
  BY <1>1 DEF ConsumerBack, Goto, buffers, counts, Emptied, Typed, Places, Flagged, Joined, Sessions
<1> QED BY <1>3, <1>4, <1>5, <1>6, <1>7, <1>8

-----------------------------------------------------------------------------
(* The theorems.                                                             *)

\* Every step of the session keeps the inductive invariant.
LEMMA NextKeeps == IInv /\ [Next]_vars => IInv'
<1> SUFFICES ASSUME IInv, [Next]_vars PROVE IInv'
  OBVIOUS
<1>1. CASE Owner
  BY <1>1, StartKeeps, StartFailsKeeps, AdoptKeeps, RequestStopKeeps, EndCalledKeeps,
     EndStopKeeps, EndJoinKeeps, EndFreeKeeps, EndClearKeeps DEF Owner, Ending
<1>2. CASE Producer
  BY <1>2, ProducerLookKeeps, ProducerReadKeeps, ProducerSendKeeps, ProducerExitKeeps
     DEF Producer
<1>3. CASE Consumer
  BY <1>3, ReadCalledKeeps, ReadClaimKeeps, ReadRecheckKeeps, ReadReceiveKeeps,
     ReadPushKeeps, ReadFullKeeps, ReadEndedKeeps, ReadEmptyKeeps, ReadTailKeeps,
     ReadReturnsKeeps, ConsumerBackKeeps DEF Consumer
<1>4. CASE UNCHANGED vars
  BY <1>4 DEF vars, buffers, counts, IInv, Handshake, Typed, Flagged, Joined, Data,
     Counted, Lined, Chained, Ahead, Sized, Emptied
<1> QED BY <1>1, <1>2, <1>3, <1>4 DEF Next

\* The handshake of the flags and the run of the samples hold together in every
\* reachable state.
THEOREM Inductive == Spec => []IInv
BY InitHolds, NextKeeps, PTL DEF Spec

\* The types of the session hold for every size; ring, piece and converter never
\* outgrow their room.
THEOREM TypeCorrect == Spec => []TypeOK
<1>1. IInv => TypeOK
  <2> SUFFICES ASSUME IInv PROVE TypeOK
    OBVIOUS
  <2>1. ses \in [Flags -> BOOLEAN]
    BY DEF IInv, Handshake, Typed, Sessions, Flags
  <2>2. alive \in BOOLEAN /\ pc \in Places
    BY DEF IInv, Handshake, Typed
  <2> QED BY <2>1, <2>2 DEF IInv, Data, Counted, Sized, TypeOK
<1> QED BY <1>1, Inductive, PTL

\* end() frees ring, converter and codec only when neither the producer nor a
\* read() that is under way can touch them any more.
THEOREM NeverFreedInUse == Spec => []UsedAlive
<1>1. IInv => UsedAlive
  BY DEF IInv, Handshake, Flagged, Joined, Inside, UsedAlive
<1> QED BY <1>1, Inductive, PTL

\* No sample is lost, doubled or reordered between the microphone and the
\* consumer, whatever the sizes of block, ring, piece and delay.
THEOREM SamplesInOrder == Spec => []InOrder
<1>1. IInv => InOrder
  <2> SUFFICES ASSUME IInv, alive PROVE got \o line \o piece \o ring = [i \in 1..sent |-> i]
    BY DEF InOrder
  <2>1. Chained
    BY DEF IInv, Data, Lined
  <2>2. /\ Len(got) \in Nat /\ Len(line) \in Nat /\ Len(piece) \in Nat /\ Len(ring) \in Nat
    BY DEF IInv, Data, Counted
  <2> DEFINE gl == got \o line
  <2> DEFINE glp == gl \o piece
  <2>3. Consecutive(gl, 0) /\ Len(gl) = Len(got) + Len(line)
    BY <2>1, <2>2, ConsecutiveConcat DEF Chained
  <2> HIDE DEF gl
  <2>4. Consecutive(glp, 0) /\ Len(glp) = Len(got) + Len(line) + Len(piece)
    <3>1. Consecutive(piece, 0 + Len(gl))
      BY <2>1, <2>2, <2>3 DEF Chained
    <3>2. Consecutive(gl \o piece, 0) /\ Len(gl \o piece) = Len(gl) + Len(piece)
      BY <2>3, <3>1, ConsecutiveConcat
    <3> QED BY <2>3, <3>2
  <2> HIDE DEF glp
  <2>5. Consecutive(glp \o ring, 0) /\ Len(glp \o ring) = sent
    <3>1. Consecutive(ring, 0 + Len(glp))
      BY <2>1, <2>2, <2>4 DEF Chained
    <3>2. Consecutive(glp \o ring, 0) /\ Len(glp \o ring) = Len(glp) + Len(ring)
      BY <2>4, <3>1, ConsecutiveConcat
    <3> QED BY <2>1, <2>4, <3>2 DEF Chained
  <2> QED BY <2>5, ConsecutiveAll DEF gl, glp
<1> QED BY <1>1, Inductive, PTL

\* A session that was drained has given the consumer all that the ring accepted.
THEOREM DrainedComplete == Spec => []DrainedIsAll
<1>1. IInv => DrainedIsAll
  <2> SUFFICES ASSUME IInv, ses.drained, ~ses.closing, ses.active PROVE Len(got) = sent
    BY DEF DrainedIsAll
  <2>1. alive
    BY DEF IInv, Handshake, Flagged
  <2>2. ring = <<>> /\ piece = <<>> /\ line = <<>>
    BY DEF IInv, Data, Emptied
  <2> QED BY <2>1, <2>2 DEF IInv, Data, Lined, Chained, Counted
<1> QED BY <1>1, Inductive, PTL

=============================================================================
