---------------------------- MODULE AssistantJob ----------------------------
(***************************************************************************)
(* One spoken turn of the assistant (src/src/assistant/assistant_job.cpp): *)
(* an audio task records the speech and plays the answer, a network task   *)
(* talks to Gemini Live, a gateway task executes the tools Gemini calls,   *)
(* and the owner, the Arduino loop, starts, releases, cancels, reaps and   *)
(* acknowledges.  The three tasks share flags, two byte counters each way  *)
(* and one slot of work; nothing but the owner's view has a lock.          *)
(*                                                                         *)
(* Audio is counted in blocks.  The socket is an inbox of events of the    *)
(* server; a send succeeds or fails at once (transport.cpp gives each one  *)
(* a deadline of its own).                                                 *)
(***************************************************************************)
EXTENDS Naturals, Sequences, FiniteSets, SequencesExt

CONSTANTS
  CaptureLimit, \* kCaptureBytes in blocks
  Output,       \* kOutputBytes in blocks
  Prebuffer,    \* blocks the player waits for before it starts
  MaxCalls,     \* bound: calls of tools in a turn (16 in the code)
  MaxSpeech,    \* bound: blocks the microphone gives
  MaxAnswer,    \* bound: blocks of audio Gemini sends
  MaxInbox      \* bound: events under way

ASSUME BlocksAssumption ==
  /\ CaptureLimit \in Nat \ {0} /\ Output \in Nat /\ MaxCalls \in Nat
  /\ MaxSpeech \in Nat /\ MaxAnswer \in Nat /\ MaxInbox \in Nat
\* A prebuffer leaves room for one more message (kOutputBytes - kMaxAudioBytes).
ASSUME PrebufferAssumption == Prebuffer \in 1..(Output - 1)

VARIABLES
  impl,    \* impl_: none, new (start() is in it), or on (tasks launched)
  handles, \* the tasks that exist
  f,       \* the atomic flags of Impl
  mic,     \* the CaptureSession (or the codec) the turn records from
  captured, produced, consumed, \* blocks recorded, received, played
  audio,   \* audioTask: place and locals
  net,     \* networkTask: place and locals
  calls,   \* Impl::calls
  work,    \* the slot of work between network and gateway task
  gw,      \* gatewayTask: place and locals
  inbox,   \* events received by the socket and not yet polled
  server,  \* Gemini
  posts,   \* POSTs begun for each call
  view     \* view_: state and finished

vars == <<impl, handles, f, mic, captured, produced, consumed, audio, net,
          calls, work, gw, inbox, server, posts, view>>

Tasks == {"audio", "net", "gateway"}
Ids == 1..MaxCalls
NoFlags == [released |-> FALSE, cancelled |-> FALSE, failed |-> FALSE,
            late |-> FALSE, captureDone |-> FALSE, networkDone |-> FALSE,
            workerStop |-> FALSE, responseReady |-> FALSE]
Result(code, id) == [code |-> code, id |-> id]
NoResult == Result("none", 0)
NoCall == [known |-> FALSE, cancelled |-> FALSE, submitted |-> FALSE,
           sent |-> FALSE, result |-> NoResult]
NoWork == [state |-> "empty", index |-> 0, cancelled |-> FALSE, result |-> NoResult]

NoMic == [adopted |-> FALSE, on |-> FALSE, stop |-> FALSE, ring |-> 0]
AudioOff == [pc |-> "off", done |-> FALSE, feeding |-> FALSE]
NetOff == [pc |-> "off", ended |-> FALSE, complete |-> FALSE, response |-> FALSE, sent |-> 0]
GatewayOff == [pc |-> "off", attempt |-> 0, id |-> 0]
NoServer == [audio |-> 0, calls |-> 0, repeated |-> FALSE, closed |-> FALSE]

Init ==
  /\ impl = "none" /\ handles = {} /\ f = NoFlags /\ mic = NoMic
  /\ captured = 0 /\ produced = 0 /\ consumed = 0
  /\ audio = AudioOff /\ net = NetOff /\ gw = GatewayOff
  /\ calls = [i \in Ids |-> NoCall] /\ work = NoWork
  /\ inbox = <<>> /\ server = NoServer /\ posts = [i \in Ids |-> 0]
  /\ view = [state |-> "idle", finished |-> FALSE]

\* A new Impl and a new view.
Fresh ==
  /\ f' = NoFlags /\ mic' = NoMic
  /\ captured' = 0 /\ produced' = 0 /\ consumed' = 0
  /\ audio' = AudioOff /\ net' = NetOff /\ gw' = GatewayOff
  /\ calls' = [i \in Ids |-> NoCall] /\ work' = NoWork
  /\ inbox' = <<>> /\ server' = NoServer /\ posts' = [i \in Ids |-> 0]
  /\ view' = [state |-> "idle", finished |-> FALSE]

-----------------------------------------------------------------------------
(* Shared by the tasks.                                                      *)

\* Mutant: a turn is stopped by hand or by a failure.
StoppedByHand == f.cancelled \/ f.failed

\* Impl::stopped().
Stopped == f.cancelled \/ f.failed \/ f.late

\* fail() with the flags fs already chosen: the state Failed sticks.
FailWith(fs) ==
  /\ f' = [fs EXCEPT !.failed = TRUE, !.released = TRUE]
  /\ mic' = [mic EXCEPT !.stop = @ \/ (mic.adopted /\ ~f.captureDone)]
  /\ view' = [view EXCEPT !.state = "failed"]
Fail == FailWith(f)

-----------------------------------------------------------------------------
(* The owner.                                                                *)

\* start() with its buffers and its microphone: an adopted session may have
\* recorded already, and start() is responsible for ending it from here on.
Start ==
  /\ impl = "none"
  /\ \E adopted \in BOOLEAN : mic' = [mic EXCEPT !.adopted = adopted, !.on = TRUE]
  /\ impl' = "new"
  /\ view' = [state |-> "busy", finished |-> FALSE]
  /\ UNCHANGED <<handles, f, captured, produced, consumed, audio, net, calls,
                 work, gw, inbox, server, posts>>

\* start() fails before there is a task: configuration, memory, microphone.
StartRefused ==
  /\ impl = "new"
  /\ impl' = "none" /\ f' = NoFlags /\ mic' = NoMic
  /\ view' = [state |-> "failed", finished |-> TRUE]
  /\ UNCHANGED <<handles, captured, produced, consumed, audio, net, calls,
                 work, gw, inbox, server, posts>>

\* The orders in which tasks are created: the network task first when it needs
\* the large stack of the voice codec, last otherwise.
Orders == {<<"audio", "gateway", "net">>, <<"net", "audio", "gateway">>}

Launched(tasks) ==
  /\ impl' = "on" /\ handles' = tasks
  /\ audio' = [audio EXCEPT !.pc = IF "audio" \in tasks THEN "capture" ELSE @]
  /\ net' = [net EXCEPT !.pc = IF "net" \in tasks THEN "connect" ELSE @]
  /\ gw' = [gw EXCEPT !.pc = IF "gateway" \in tasks THEN "idle" ELSE @]
  /\ UNCHANGED <<captured, produced, consumed, calls, work, inbox, server, posts>>

Launch ==
  /\ impl = "new"
  /\ Launched(Tasks)
  /\ UNCHANGED <<f, mic, view>>

\* A task cannot be created: those that wait behind the gate are let through
\* to find everything over.  Without an audio task start() ends the session.
LaunchFails ==
  /\ impl = "new"
  /\ \E order \in Orders, n \in 0..2 :
       LET created == ToSet(SubSeq(order, 1, n)) IN
         /\ Launched(created)
         /\ f' = [f EXCEPT !.failed = TRUE, !.released = TRUE, !.cancelled = TRUE,
                           !.workerStop = TRUE, !.networkDone = TRUE,
                           !.captureDone = "audio" \notin created]
         /\ mic' = [mic EXCEPT !.stop = @ \/ mic.adopted, !.on = "audio" \in created]
  /\ view' = [view EXCEPT !.state = "failed"]

\* release(): the finger is off the button.
Release ==
  /\ impl \in {"new", "on"} /\ ~view.finished /\ ~f.released
  /\ f' = [f EXCEPT !.released = TRUE]
  /\ mic' = [mic EXCEPT !.stop = @ \/ (mic.adopted /\ ~f.captureDone)]
  /\ UNCHANGED <<impl, handles, captured, produced, consumed, audio, net, calls,
                 work, gw, inbox, server, posts, view>>

\* cancel().  (A turn that is stopped already fails with it or without.)
Cancel ==
  /\ impl \in {"new", "on"} /\ ~view.finished /\ ~Stopped
  /\ f' = [f EXCEPT !.cancelled = TRUE, !.released = TRUE]
  /\ mic' = [mic EXCEPT !.stop = @ \/ (mic.adopted /\ ~f.captureDone)]
  /\ UNCHANGED <<impl, handles, captured, produced, consumed, audio, net, calls,
                 work, gw, inbox, server, posts, view>>

\* The 180 s of a turn are over.  (A turn that is stopped does not look.)
TurnExpires ==
  /\ impl = "on" /\ ~view.finished /\ ~Stopped
  /\ f' = [f EXCEPT !.late = TRUE]
  /\ UNCHANGED <<impl, handles, mic, captured, produced, consumed, audio, net,
                 calls, work, gw, inbox, server, posts, view>>

Place(task) ==
  CASE task = "audio" -> audio.pc [] task = "net" -> net.pc [] task = "gateway" -> gw.pc

\* Mutant: the task that talks to the owner is the one to wait for.
SuspendedNetwork == "net" \in handles => net.pc = "suspended"

Suspended == \A task \in handles : Place(task) = "suspended"

\* reap(), in start(), active(), snapshot() and acknowledgeFinished().
Reap ==
  /\ impl = "on" /\ ~view.finished /\ Suspended
  /\ handles' = {}
  /\ view' = [state |-> IF view.state = "failed" \/ f.cancelled THEN "failed" ELSE "done",
              finished |-> TRUE]
  /\ UNCHANGED <<impl, f, mic, captured, produced, consumed, audio, net, calls,
                 work, gw, inbox, server, posts>>

\* acknowledgeFinished(): Impl is freed, the next turn gets a new one.
Acknowledge ==
  /\ view.finished
  /\ impl' = "none" /\ handles' = {}
  /\ Fresh

Owner ==
  \/ Start \/ StartRefused \/ Launch \/ LaunchFails \/ Release \/ Cancel
  \/ TurnExpires \/ Reap \/ Acknowledge

-----------------------------------------------------------------------------
(* The microphone.                                                           *)

\* CaptureSession accepts a block until it is stopped; the codec of a turn
\* without one is read directly.  Nobody reads what comes once the turn is
\* stopped.
Speak ==
  /\ mic.on /\ ~mic.stop /\ ~Stopped /\ captured + mic.ring < MaxSpeech
  /\ mic' = [mic EXCEPT !.ring = @ + 1]
  /\ UNCHANGED <<impl, handles, f, captured, produced, consumed, audio, net,
                 calls, work, gw, inbox, server, posts, view>>

-----------------------------------------------------------------------------
(* audioTask.                                                                *)

\* The recorder is done: a borrowed session when it is drained, the codec as
\* soon as the button is released.
Recorded ==
  IF mic.adopted THEN mic.stop /\ mic.ring = 0 ELSE f.released

AudioStop == audio' = [audio EXCEPT !.pc = "join"]

\* One turn of the recording loop: it is over, or it passes a release on to a
\* borrowed session and reads a block (the last one the buffer takes ends it).
AudioCapture ==
  /\ audio.pc = "capture"
  /\ \/ (Stopped \/ Recorded) /\ AudioStop /\ UNCHANGED <<f, mic, captured, view>>
     \/ /\ ~Stopped /\ ~Recorded /\ mic.ring > 0
        /\ mic' = [mic EXCEPT !.ring = @ - 1, !.stop = @ \/ (mic.adopted /\ f.released)]
        /\ captured' = captured + 1
        /\ IF captured + 1 = CaptureLimit
           THEN AudioStop /\ f' = [f EXCEPT !.released = TRUE]
           ELSE UNCHANGED <<audio, f>>
        /\ UNCHANGED view
  /\ UNCHANGED <<impl, handles, produced, consumed, net, calls, work, gw,
                 inbox, server, posts>>

\* 30 s have passed: a borrowed session is still drained.
AudioLimit ==
  /\ audio.pc = "capture" /\ ~f.released
  /\ f' = [f EXCEPT !.released = TRUE]
  /\ mic' = [mic EXCEPT !.stop = @ \/ mic.adopted]
  /\ UNCHANGED <<impl, handles, captured, produced, consumed, audio, net, calls,
                 work, gw, inbox, server, posts, view>>

\* The microphone fails, overflows or stays silent for 2 s, or ends badly.
AudioCaptureFails ==
  /\ \/ audio.pc = "capture" /\ ~Stopped
     \/ audio.pc = "join" /\ ~Stopped
  /\ Fail /\ AudioStop
  /\ UNCHANGED <<impl, handles, captured, produced, consumed, net, calls, work,
                 gw, inbox, server, posts>>

\* end() of the session, or of the codec, before anyone hears of captureDone.
AudioJoin ==
  /\ audio.pc = "join"
  /\ mic' = [mic EXCEPT !.stop = TRUE, !.on = FALSE]
  /\ f' = [f EXCEPT !.captureDone = TRUE]
  /\ audio' = [audio EXCEPT !.pc = "look"]
  /\ UNCHANGED <<impl, handles, captured, produced, consumed, net, calls, work,
                 gw, inbox, server, posts, view>>

\* The player looks at networkDone before it counts what there is to play.
AudioLook ==
  /\ audio.pc = "look"
  /\ audio' = IF Stopped THEN [audio EXCEPT !.pc = "tail"]
              ELSE [audio EXCEPT !.pc = "play", !.done = f.networkDone]
  /\ UNCHANGED <<impl, handles, f, mic, captured, produced, consumed, net, calls,
                 work, gw, inbox, server, posts, view>>

Available == produced - consumed

\* Nothing is left and nothing will come.
PlayEnds == Available = 0 /\ audio.done

\* Speech once begun goes on; at first, and after the buffer ran dry, the player
\* waits for some of it, or for its end (on the phone's route responseReady is
\* enough).
MayPlay ==
  /\ Available > 0
  /\ audio.feeding \/ audio.done \/ f.responseReady \/ Available >= Prebuffer

AudioPlay ==
  /\ audio.pc = "play"
  /\ \/ PlayEnds /\ audio' = [audio EXCEPT !.pc = "tail"] /\ UNCHANGED consumed
     \/ ~PlayEnds /\ ~MayPlay /\ UNCHANGED consumed
        /\ audio' = [audio EXCEPT !.pc = "look", !.feeding = @ /\ Available > 0]
     \/ ~PlayEnds /\ MayPlay /\ consumed' = consumed + 1
        /\ audio' = [audio EXCEPT !.pc = "look", !.feeding = TRUE]
  /\ UNCHANGED <<impl, handles, f, mic, captured, produced, net, calls, work, gw,
                 inbox, server, posts, view>>

\* The codec refuses 24 kHz, or a block takes more than 2 s.
AudioPlayFails ==
  /\ audio.pc = "play" /\ MayPlay /\ ~Stopped
  /\ Fail /\ audio' = [audio EXCEPT !.pc = "tail"]
  /\ UNCHANGED <<impl, handles, captured, produced, consumed, net, calls, work,
                 gw, inbox, server, posts>>

\* The last samples leave the amplifier, unless the turn is over already.
AudioTail ==
  /\ audio.pc = "tail"
  /\ audio' = [audio EXCEPT !.pc = "suspended"]
  /\ IF f.late /\ ~f.cancelled /\ ~f.failed THEN Fail
     ELSE f' = [f EXCEPT !.released = TRUE] /\ UNCHANGED <<mic, view>>
  /\ UNCHANGED <<impl, handles, captured, produced, consumed, net, calls, work,
                 gw, inbox, server, posts>>

Audio ==
  \/ AudioCapture \/ AudioLimit \/ AudioCaptureFails
  \/ AudioJoin \/ AudioLook \/ AudioPlay \/ AudioPlayFails \/ AudioTail

-----------------------------------------------------------------------------
(* Gemini.                                                                   *)

Event(type, id) == [type |-> type, id |-> id]
Talking == net.pc \in {"poll", "queue", "rest"} /\ ~Stopped

ServerSends(event) ==
  /\ Talking /\ ~server.closed /\ Len(inbox) < MaxInbox
  /\ inbox' = Append(inbox, event)
  /\ UNCHANGED <<impl, handles, f, mic, captured, produced, consumed, audio, net,
                 calls, work, gw, posts, view>>

ServerAudio ==
  /\ server.audio < MaxAnswer
  /\ ServerSends(Event("audio", 0)) /\ server' = [server EXCEPT !.audio = @ + 1]

\* A transcription alone is an answer, too.
ServerText ==
  /\ server.audio < MaxAnswer
  /\ ServerSends(Event("text", 0)) /\ server' = [server EXCEPT !.audio = @ + 1]

\* A call of a tool, or one that was made before once more.
ServerCall ==
  \/ /\ server.calls < MaxCalls
     /\ ServerSends(Event("call", server.calls + 1))
     /\ server' = [server EXCEPT !.calls = @ + 1]
  \/ /\ ~server.repeated
     /\ \E i \in 1..server.calls : ServerSends(Event("call", i))
     /\ server' = [server EXCEPT !.repeated = TRUE]

\* A cancellation may be heard of before its call.
ServerCancel ==
  \E i \in Ids :
    /\ ~calls[i].cancelled /\ Event("cancel", i) \notin ToSet(inbox)
    /\ ServerSends(Event("cancel", i)) /\ UNCHANGED server

ServerComplete ==
  /\ ~net.complete /\ Event("complete", 0) \notin ToSet(inbox)
  /\ ServerSends(Event("complete", 0)) /\ UNCHANGED server

ServerClose ==
  ServerSends(Event("close", 0)) /\ server' = [server EXCEPT !.closed = TRUE]

Server ==
  ServerAudio \/ ServerText \/ ServerCall \/ ServerCancel
  \/ ServerComplete \/ ServerClose

-----------------------------------------------------------------------------
(* networkTask.                                                              *)

NetGoto(place) == net' = [net EXCEPT !.pc = place]
NetFails == Fail /\ NetGoto("leave")

\* Route, TLS, WebSocket, the first message and Gemini's setupComplete.
NetConnect ==
  /\ net.pc = "connect"
  /\ \/ ~Stopped /\ NetGoto("poll") /\ UNCHANGED <<f, mic, view>>
     \/ ~Stopped /\ NetFails
     \/ Stopped /\ NetGoto("leave") /\ UNCHANGED <<f, mic, view>>
  /\ UNCHANGED <<impl, handles, captured, produced, consumed, audio, calls, work,
                 gw, inbox, server, posts>>

Pending == \E i \in Ids : calls[i].known /\ ~calls[i].sent

\* A normal close in the place of the end: nothing may be missing.
ClosedWhole ==
  /\ net.ended /\ net.sent > 0
  /\ net.complete /\ net.response /\ ~Pending /\ work.state = "empty"
  /\ f.captureDone /\ net.sent = captured /\ Tail(inbox) = <<>>

\* A call that is new, is known to be cancelled, is not acceptable, or is heard
\* of again and answered again.
Called(i) ==
  \/ /\ calls[i].known
     /\ calls' = [calls EXCEPT ![i].sent = FALSE]
  \/ /\ ~calls[i].known
     /\ \E result \in {NoResult, Result("rejected", 0)} :
          calls' = [calls EXCEPT ![i].known = TRUE, ![i].result = result]

\* Impl::message() and the events of the socket.
NetReceive ==
  /\ net.pc = "poll" /\ ~Stopped /\ inbox # <<>>
  /\ inbox' = Tail(inbox)
  /\ LET event == Head(inbox) IN
     \/ /\ event.type = "audio"
        /\ net' = [net EXCEPT !.complete = FALSE, !.pc = "queue"]
        /\ UNCHANGED <<f, mic, view, calls, work>>
     \/ /\ event.type = "text"
        /\ net' = [net EXCEPT !.complete = FALSE, !.response = TRUE]
        /\ UNCHANGED <<f, mic, view, calls, work>>
     \/ /\ event.type = "complete"
        /\ net' = [net EXCEPT !.complete = TRUE]
        /\ UNCHANGED <<f, mic, view, calls, work>>
     \/ /\ event.type = "call"
        /\ Called(event.id)
        /\ UNCHANGED <<f, mic, view, net, work>>
     \/ /\ event.type = "cancel"
        /\ calls' = [calls EXCEPT ![event.id].cancelled = TRUE]
        /\ work' = [work EXCEPT !.cancelled =
                      @ \/ (calls[event.id].submitted /\ work.state # "empty"
                            /\ work.index = event.id)]
        /\ UNCHANGED <<f, mic, view, net>>
     \/ /\ event.type = "close" /\ ClosedWhole
        /\ f' = [f EXCEPT !.responseReady = TRUE]
        /\ NetGoto("leave")
        /\ UNCHANGED <<mic, view, calls, work>>
     \/ /\ event.type = "close"
        /\ NetFails \* truncated, or closed with another code
        /\ UNCHANGED <<calls, work>>
  /\ UNCHANGED <<impl, handles, captured, produced, consumed, audio, gw, server, posts>>

Room == Available < Output

\* queuePcm(): a full buffer is an answer that came too early, or has to wait.
NetQueue ==
  /\ net.pc = "queue"
  /\ \/ Stopped /\ NetGoto("poll") /\ UNCHANGED <<f, mic, view, produced>>
     \/ /\ ~Stopped /\ Room
        /\ produced' = produced + 1
        /\ net' = [net EXCEPT !.pc = "poll", !.response = TRUE]
        /\ UNCHANGED <<f, mic, view>>
     \/ /\ ~Stopped /\ ~Room /\ ~f.captureDone
        /\ NetFails /\ UNCHANGED produced
  /\ UNCHANGED <<impl, handles, captured, consumed, audio, calls, work, gw, inbox,
                 server, posts>>

\* The slice is over: 16 messages, or no whole one under way.  Audio that was
\* recorded is sent, a block at a time; a short block waits for more of it until
\* the recording is over.
NetSend ==
  /\ net.pc = "poll"
  /\ \/ Stopped /\ NetGoto("leave")
     \/ /\ ~Stopped
        /\ \E n \in 0..1 :
             /\ n <= captured - net.sent
             /\ n = 0 => captured = net.sent \/ ~f.captureDone
             /\ net' = [net EXCEPT !.pc = "rest", !.sent = @ + n]
  /\ UNCHANGED <<impl, handles, f, mic, captured, produced, consumed, audio, calls,
                 work, gw, inbox, server, posts, view>>

\* Mutant: what has been recorded so far has been sent.
EndOfInputSoFar == net.sent = captured /\ net.sent > 0

EndOfInput == f.captureDone /\ net.sent = captured

\* Input ends, or nothing was recorded at all.
Ended == net.ended \/ EndOfInput

NetEmpty ==
  /\ net.pc = "rest" /\ ~net.ended /\ EndOfInput /\ net.sent = 0
  /\ NetFails
  /\ UNCHANGED <<impl, handles, captured, produced, consumed, audio, calls, work,
                 gw, inbox, server, posts>>

\* The result of the slot is taken out.
Collected ==
  IF work.state = "complete" THEN [calls EXCEPT ![work.index].result = work.result] ELSE calls

\* Mutant: a cancelled call is answered, whoever works on it.
RefusedAnyway(call) ==
  IF call.known /\ call.cancelled /\ call.result = NoResult
  THEN [call EXCEPT !.result = Result("never", 0)] ELSE call

\* A call cancelled before it was submitted has no effect.
Refused(call) ==
  IF call.known /\ call.cancelled /\ ~call.submitted /\ call.result = NoResult
  THEN [call EXCEPT !.result = Result("never", 0)] ELSE call

\* The worker gets one call at a time, and only after the events under way.
Submittable(cs, i) ==
  /\ cs[i].known /\ ~cs[i].submitted /\ cs[i].result = NoResult
  /\ work.state \in {"empty", "complete"} /\ inbox = <<>>

\* Every call that has a result is answered; Gemini has more to say then.
Answered(cs) == [i \in Ids |-> [cs[i] EXCEPT !.sent = @ \/ cs[i].result # NoResult]]

\* The turn is over: Gemini has said so and everything it asked for is done.
Whole(complete, pending, state) ==
  /\ Ended /\ complete /\ net.response
  /\ ~pending /\ state = "empty" /\ inbox = <<>>

\* The rest of the loop: results are collected and sent, the next call is
\* submitted, and the turn may be over, or over without an answer (Gemini says
\* so, or is silent for 45 s).
NetTools ==
  /\ net.pc = "rest" /\ (net.ended \/ ~EndOfInput \/ net.sent > 0)
  /\ LET refused  == [i \in Ids |-> Refused(Collected[i])]
         answered == Answered(refused)
         next     == {i \in Ids : Submittable(refused, i)
                                    /\ \A j \in 1..(i - 1) : ~Submittable(refused, j)}
         complete == net.complete /\ \A i \in Ids : answered[i].sent => calls[i].sent
         pending  == \E i \in Ids : answered[i].known /\ ~answered[i].sent
         mute     == Ended /\ ~net.response /\ ~pending
     IN /\ calls' = [i \in Ids |-> [answered[i] EXCEPT !.submitted = @ \/ i \in next]]
        /\ work' = CASE next # {} ->
                         [NoWork EXCEPT !.state = "pending", !.index = CHOOSE i \in next : TRUE]
                     [] next = {} /\ work.state = "complete" -> NoWork
                     [] OTHER -> work
        /\ \/ /\ Whole(complete, pending, work'.state)
              /\ net' = [net EXCEPT !.pc = "leave", !.ended = Ended, !.complete = complete]
              /\ f' = [f EXCEPT !.responseReady = TRUE]
              /\ UNCHANGED <<mic, view>>
           \/ /\ mute
              /\ Fail /\ net' = [net EXCEPT !.pc = "leave", !.ended = Ended, !.complete = complete]
           \/ /\ ~Whole(complete, pending, work'.state) /\ ~(mute /\ complete)
              /\ net' = [net EXCEPT !.pc = "poll", !.ended = Ended, !.complete = complete]
              /\ UNCHANGED <<f, mic, view>>
  /\ UNCHANGED <<impl, handles, captured, produced, consumed, audio, gw, inbox,
                 server, posts>>

\* A deadline of the task (setup 15 s, buffer 6 s), an error of Gemini, a frame
\* that is not valid, a send that fails.
NetBreaks ==
  /\ Talking
  /\ NetFails
  /\ UNCHANGED <<impl, handles, captured, produced, consumed, audio, calls, work,
                 gw, inbox, server, posts>>

NetLeave ==
  /\ net.pc = "leave"
  /\ net' = [net EXCEPT !.pc = "close"]
  /\ IF f.late /\ ~f.failed /\ ~f.cancelled
     THEN FailWith([f EXCEPT !.workerStop = TRUE])
     ELSE /\ f' = [f EXCEPT !.released = TRUE, !.workerStop = TRUE]
          /\ UNCHANGED <<mic, view>>
  /\ UNCHANGED <<impl, handles, captured, produced, consumed, audio, calls, work,
                 gw, inbox, server, posts>>

\* The socket is closed, whatever it still held.
NetClose ==
  /\ net.pc = "close"
  /\ f' = [f EXCEPT !.networkDone = TRUE]
  /\ NetGoto("suspended")
  /\ inbox' = <<>> /\ server' = NoServer
  /\ UNCHANGED <<impl, handles, mic, captured, produced, consumed, audio, calls,
                 work, gw, posts, view>>

\* The steps the task takes by itself.
NetSteps ==
  \/ NetConnect \/ NetQueue \/ NetSend \/ NetEmpty \/ NetTools
  \/ NetLeave \/ NetClose

-----------------------------------------------------------------------------
(* gatewayTask and ToolGateway::execute().                                   *)

\* Mutant: the worker looks at the turn only.
ToolStoppedByTurn == Stopped \/ f.workerStop

\* toolStopped().
ToolStopped == Stopped \/ f.workerStop \/ work.cancelled

GatewayTake ==
  /\ gw.pc = "idle"
  /\ IF f.workerStop \/ Stopped
     THEN gw' = [gw EXCEPT !.pc = "suspended"] /\ UNCHANGED work
     ELSE /\ work.state = "pending"
          /\ work' = [work EXCEPT !.state = "running"]
          /\ gw' = [pc |-> "execute", attempt |-> 1, id |-> work.index]
  /\ UNCHANGED <<impl, handles, f, mic, captured, produced, consumed, audio, net,
                 calls, inbox, server, posts, view>>

\* What execute() answers, by what it says of the tool: "unsent" is CANCELLED,
\* GATEWAY_CONNECT or GATEWAY_IO before the body (uncertain = false), "unknown"
\* is OUTCOME_UNKNOWN or the gateway's own REMOTE_UNCERTAIN, "answered" an answer
\* or an error that is not retried (HTTP, JSON, redirect).

\* execute() is over with a code: exactly one more attempt when the outcome is
\* uncertain and nobody has cancelled.
Executed(code) ==
  IF gw.attempt = 1 /\ code = "unknown" /\ ~ToolStopped
  THEN gw' = [gw EXCEPT !.pc = "execute", !.attempt = 2] /\ UNCHANGED work
  ELSE /\ gw' = [GatewayOff EXCEPT !.pc = "idle"]
       /\ work' = [work EXCEPT !.state = "complete", !.result = Result(code, gw.id)]

\* Stopped, out of time or not connected before the body is sent.
GatewayUnsent ==
  /\ gw.pc = "execute" /\ Executed("unsent")
  /\ UNCHANGED <<impl, handles, f, mic, captured, produced, consumed, audio, net,
                 calls, inbox, server, posts, view>>

\* From here on the tool may have done its work.
GatewayPost ==
  /\ gw.pc = "execute" /\ ~ToolStopped
  /\ posts' = [posts EXCEPT ![gw.id] = @ + 1]
  /\ gw' = [gw EXCEPT !.pc = "posted"]
  /\ UNCHANGED <<impl, handles, f, mic, captured, produced, consumed, audio, net,
                 calls, work, inbox, server, view>>

GatewayReply ==
  /\ gw.pc = "posted"
  /\ \E code \in {"answered", "unknown"} : Executed(code)
  /\ UNCHANGED <<impl, handles, f, mic, captured, produced, consumed, audio, net,
                 calls, inbox, server, posts, view>>

Gateway == GatewayTake \/ GatewayUnsent \/ GatewayPost \/ GatewayReply

-----------------------------------------------------------------------------

Next == Owner \/ Speak \/ Audio \/ Server \/ NetReceive \/ NetBreaks \/ NetSteps \/ Gateway

Spec == Init /\ [][Next]_vars

\* The steps the audio task takes by itself.
AudioSteps ==
  AudioCapture \/ AudioJoin \/ AudioLook \/ AudioPlay \/ AudioTail

\* FreeRTOS runs every task that can run, the clock reaches 180 s, the loop
\* comes round.  Nothing is expected of Gemini, the microphone or the user.
Fairness ==
  /\ WF_vars(AudioSteps) /\ WF_vars(NetSteps) /\ WF_vars(Gateway)
  /\ WF_vars(TurnExpires)
  /\ WF_vars(StartRefused \/ Launch \/ LaunchFails) /\ WF_vars(Reap) /\ WF_vars(Acknowledge)

FairSpec == Spec /\ Fairness

-----------------------------------------------------------------------------
(* Properties.                                                               *)

\* Every variable keeps its type; the ring buffer is never written past its
\* room, and no counter overtakes the one it follows.
TypeOK ==
  /\ impl \in {"none", "new", "on"} /\ handles \subseteq Tasks
  /\ f \in [DOMAIN NoFlags -> BOOLEAN]
  /\ captured \in 0..CaptureLimit /\ net.sent \in 0..captured
  /\ consumed \in 0..produced /\ Available <= Output
  /\ audio.pc \in {"off", "capture", "join", "look", "play", "tail", "suspended"}
  /\ net.pc \in {"off", "connect", "poll", "queue", "rest", "leave", "close", "suspended"}
  /\ gw.pc \in {"off", "idle", "execute", "posted", "suspended"}
  /\ work.state \in {"empty", "pending", "running", "complete"}
  /\ view.state \in {"idle", "busy", "failed", "done"} /\ view.finished \in BOOLEAN

\* A turn that the owner is told is done was done to the end: everything that was
\* recorded was sent, the whole of an adopted recording unless the 30 s were
\* over; the whole answer was played; every call was answered and no
\* work is left.
DoneIsWhole ==
  view.state = "done" =>
    /\ net.sent = captured /\ captured > 0
    /\ mic.adopted /\ captured < CaptureLimit => mic.ring = 0
    /\ consumed = produced
    /\ net.complete /\ net.response /\ ~Pending /\ work.state = "empty"

\* Gemini hears the truth of a tool: a call that it is told was cancelled before
\* any effect, or was refused, was never posted and is not in the worker's hands;
\* and no call is posted more than twice.
ToolsHonest ==
  \A i \in Ids :
    /\ calls[i].result.code \in {"never", "rejected"} =>
         posts[i] = 0 /\ ~(work.state # "empty" /\ work.index = i)
    /\ posts[i] <= 2

\* No POST begins, not even the one that reconciles an uncertain outcome, when
\* the network task has heard that the call is cancelled or the turn is stopped.
CancelForbidsPost ==
  [][\A i \in Ids : posts'[i] > posts[i] => ~calls[i].cancelled /\ ~Stopped]_vars

\* The owner hears of the end when nobody can touch the turn any more: no task
\* runs and the microphone is off.
Reaped ==
  view.finished =>
    ~mic.on /\ \A task \in Tasks : Place(task) \in {"off", "suspended"}

\* With the types: what the owner relies on when it frees the turn.
ImplInv == TypeOK /\ Reaped

\* A turn ends, whatever Gemini, the gateway, the microphone and the user do.
TurnEnds == impl # "none" ~> impl = "none"
=============================================================================
