--------------------------- MODULE AssistantProofs ---------------------------
(***************************************************************************)
(* A spoken turn, for every length of speech and answer, every size of the *)
(* buffers and any number of tools: what Gemini is told of a tool is true  *)
(* (ToolsHonest), no POST begins after a cancellation was heard            *)
(* (CancelForbidsPost), Impl is freed when nobody uses it (ImplInv), and a *)
(* turn that is "done" was done to the end (DoneIsWhole).                  *)
(*                                                                         *)
(* The tasks share flags without a lock.  What makes it work is that a     *)
(* flag is never taken back and that each place of a task implies what the *)
(* task has seen; a deadline may fall between any two of its looks, so the *)
(* places before the last look promise something only while nothing has    *)
(* stopped the turn, and the last one makes a late turn fail.              *)
(***************************************************************************)
EXTENDS AssistantJob, TLAPS

Flags ==
  [released : BOOLEAN, cancelled : BOOLEAN, failed : BOOLEAN, late : BOOLEAN,
   captureDone : BOOLEAN, networkDone : BOOLEAN, workerStop : BOOLEAN, responseReady : BOOLEAN]
Mics == [adopted : BOOLEAN, on : BOOLEAN, stop : BOOLEAN, ring : Nat]
Players ==
  [pc : {"off", "capture", "join", "look", "play", "tail", "suspended"},
   done : BOOLEAN, feeding : BOOLEAN]
Nets ==
  [pc : {"off", "connect", "poll", "queue", "rest", "leave", "close", "suspended"},
   ended : BOOLEAN, complete : BOOLEAN, response : BOOLEAN, sent : Nat]
Gateways ==
  [pc : {"off", "idle", "execute", "posted", "suspended"}, attempt : 0..2, id : Nat]
Views == [state : {"idle", "busy", "failed", "done"}, finished : BOOLEAN]
Servers == [audio : Nat, calls : 0..MaxCalls, repeated : BOOLEAN, closed : BOOLEAN]
Results == [code : {"none", "never", "rejected", "unsent", "unknown", "answered"}, id : Nat]
Calls ==
  [known : BOOLEAN, cancelled : BOOLEAN, submitted : BOOLEAN, sent : BOOLEAN, result : Results]
Works ==
  [state : {"empty", "pending", "running", "complete"}, index : Nat, cancelled : BOOLEAN,
   result : Results]
Events ==
  [type : {"audio", "text", "complete", "close"}, id : {0}]
  \cup [type : {"call", "cancel"}, id : Ids]

Typed ==
  /\ impl \in {"none", "new", "on"} /\ handles \subseteq Tasks
  /\ f \in Flags /\ mic \in Mics /\ audio \in Players /\ net \in Nets /\ gw \in Gateways
  /\ view \in Views /\ server \in Servers /\ work \in Works
  /\ calls \in [Ids -> Calls] /\ posts \in [Ids -> Nat] /\ inbox \in Seq(Events)
  /\ captured \in Nat /\ produced \in Nat /\ consumed \in Nat

\* No counter overtakes the one it follows, and no buffer its room.
Counted ==
  /\ captured <= CaptureLimit /\ net.sent <= captured
  /\ consumed <= produced /\ produced - consumed <= Output
  /\ audio.pc = "capture" => captured < CaptureLimit

\* Before its tasks are launched a turn has done nothing.
Unborn ==
  impl # "on" =>
    /\ audio.pc = "off" /\ net.pc = "off" /\ gw.pc = "off" /\ handles = {}
    /\ captured = 0 /\ ~net.ended /\ ~audio.done /\ work.state = "empty"
    /\ ~f.captureDone /\ ~f.networkDone /\ ~f.failed
    /\ impl = "none" => ~mic.on
    /\ impl = "new" => ~view.finished

\* Which tasks there are, and who has the microphone.  A turn that lacks a task
\* was cancelled by start() itself.
Manned ==
  /\ impl = "on" /\ ~view.finished =>
       /\ "audio" \notin handles => audio.pc = "off"
       /\ "net" \notin handles => net.pc = "off"
       /\ "gateway" \notin handles => gw.pc = "off"
  /\ impl = "on" => /\ audio.pc = "off" => ~mic.on /\ f.cancelled
                    /\ net.pc = "off" => f.cancelled
  /\ audio.pc \in {"look", "play", "tail", "suspended"} => ~mic.on
  /\ f.captureDone => audio.pc \notin {"capture", "join"}
  /\ f.failed => view.state = "failed"

\* The whole of an adopted recording was read, unless the buffer was full.
Drained == mic.adopted /\ captured < CaptureLimit => mic.ring = 0

\* What the audio task has seen, as long as nothing stopped the turn.
Sounded ==
  /\ audio.pc \in {"join", "look", "play", "tail"} /\ ~Stopped => Drained
  /\ audio.pc = "join" /\ ~Stopped /\ mic.adopted /\ captured < CaptureLimit => mic.stop
  /\ audio.pc = "tail" /\ ~Stopped => consumed = produced /\ f.networkDone
  /\ audio.pc = "suspended" /\ ~f.failed /\ ~f.cancelled =>
       Drained /\ consumed = produced /\ f.networkDone
  /\ audio.done => f.networkDone
  /\ f.networkDone /\ ~f.cancelled => net.pc = "suspended"

\* What the network task has seen when it leaves with a whole turn.
LeftWhole ==
  /\ net.sent = captured /\ captured > 0 /\ f.captureDone
  /\ net.complete /\ net.response /\ ~Pending /\ work.state = "empty"

Heard ==
  /\ net.ended => f.captureDone /\ net.sent = captured /\ captured > 0
  /\ net.pc = "leave" /\ ~Stopped => LeftWhole
  /\ net.pc \in {"close", "suspended"} /\ ~f.failed /\ ~f.cancelled => LeftWhole

\* What the owner has been told.
Owned ==
  /\ view.finished =>
       /\ ~mic.on /\ audio.pc \in {"off", "suspended"}
       /\ net.pc \in {"off", "suspended"} /\ gw.pc \in {"off", "suspended"}
  /\ view.state = "done" =>
       /\ view.finished /\ impl = "on" /\ ~f.failed /\ ~f.cancelled
       /\ audio.pc = "suspended" /\ net.pc = "suspended"

\* A call goes to the worker once, after it was known and before it has a result;
\* the slot and the worker agree on it, and the slot knows of its cancellation.
Tooled ==
  /\ \A i \in Ids :
       /\ ~calls[i].known => ~calls[i].submitted
       /\ calls[i].result.code \in {"never", "rejected"} => ~calls[i].submitted
       /\ ~calls[i].submitted => posts[i] = 0
       /\ posts[i] <= 2
  /\ work.state # "empty" =>
       /\ work.index \in Ids /\ calls[work.index].submitted
       /\ calls[work.index].cancelled => work.cancelled
  /\ work.state = "pending" => posts[work.index] = 0
  /\ work.state = "complete" => work.result.code \in {"unsent", "unknown", "answered"}
  /\ gw.pc \in {"execute", "posted"} =>
       /\ work.state = "running" /\ work.index = gw.id /\ gw.attempt \in 1..2
       /\ posts[gw.id] <= (IF gw.pc = "posted" THEN gw.attempt ELSE gw.attempt - 1)

\* The inductive invariant.
IInv == Typed /\ Counted /\ Unborn /\ Manned /\ Sounded /\ Heard /\ Owned /\ Tooled

-----------------------------------------------------------------------------
(* Types.                                                                    *)

LEMMA NoneTypes ==
  /\ NoFlags \in Flags /\ NoMic \in Mics /\ AudioOff \in Players /\ NetOff \in Nets
  /\ GatewayOff \in Gateways /\ NoServer \in Servers
<1>1. NoFlags \in Flags BY Zenon DEF NoFlags, Flags
<1>2. NoMic \in Mics BY Zenon DEF NoMic, Mics
<1>3. AudioOff \in Players BY Zenon DEF AudioOff, Players
<1>4. NetOff \in Nets BY Zenon DEF NetOff, Nets
<1>5. GatewayOff \in Gateways BY DEF GatewayOff, Gateways
<1>6. 0 \in 0..MaxCalls BY BlocksAssumption
<1>7. NoServer \in Servers BY <1>6, Zenon DEF NoServer, Servers
<1> QED BY <1>1, <1>2, <1>3, <1>4, <1>5, <1>7

LEMMA WorkTypes ==
  /\ NoResult \in Results /\ NoCall \in Calls /\ NoWork \in Works
  /\ \A code \in {"none", "never", "rejected", "unsent", "unknown", "answered"}, id \in Nat :
       Result(code, id) \in Results /\ Result(code, id).code = code
<1>1. \A code \in {"none", "never", "rejected", "unsent", "unknown", "answered"}, id \in Nat :
        Result(code, id) \in Results /\ Result(code, id).code = code
  BY DEF Result, Results
<1>2. NoResult \in Results BY <1>1 DEF NoResult
<1>3. NoCall \in Calls BY <1>2, Zenon DEF NoCall, Calls
<1>4. NoWork \in Works BY <1>2, Zenon DEF NoWork, Works
<1> QED BY <1>1, <1>2, <1>3, <1>4

LEMMA NoneFields ==
  /\ NoFlags.captureDone = FALSE /\ NoFlags.networkDone = FALSE /\ NoFlags.failed = FALSE
  /\ NoMic.on = FALSE /\ AudioOff.pc = "off" /\ AudioOff.done = FALSE
  /\ NetOff.pc = "off" /\ NetOff.ended = FALSE /\ NetOff.sent = 0
  /\ GatewayOff.pc = "off" /\ NoWork.state = "empty"
  /\ NoCall.known = FALSE /\ NoCall.submitted = FALSE /\ NoCall.cancelled = FALSE
  /\ NoCall.result.code = "none" /\ NoWork.cancelled = FALSE
BY DEF NoFlags, NoMic, AudioOff, NetOff, GatewayOff, NoWork, NoCall, NoResult, Result

LEMMA EventTypes ==
  /\ \A type \in {"audio", "text", "complete", "close"} : Event(type, 0) \in Events
  /\ \A type \in {"call", "cancel"}, id \in Ids : Event(type, id) \in Events
BY DEF Event, Events

\* The flags that a step leaves alone, whatever it says of the button and the answer.
FlagsKept ==
  /\ f' \in Flags /\ f'.failed = f.failed /\ f'.cancelled = f.cancelled /\ f'.late = f.late
  /\ f'.captureDone = f.captureDone /\ f'.networkDone = f.networkDone

\* What a failure of the turn changes.
TurnFailed ==
  /\ f' \in Flags /\ f'.failed /\ f'.cancelled = f.cancelled /\ f'.late = f.late
  /\ f'.captureDone = f.captureDone /\ f'.networkDone = f.networkDone
  /\ mic' \in Mics /\ mic'.on = mic.on /\ mic'.ring = mic.ring /\ mic'.adopted = mic.adopted
  /\ view' \in Views /\ view'.state = "failed" /\ view'.finished = view.finished

\* A failure leaves every other flag, the microphone and the samples in it alone.
LEMMA FailFacts ==
  ASSUME Typed, NEW fs \in Flags, FailWith(fs), fs.cancelled = f.cancelled, fs.late = f.late,
         fs.captureDone = f.captureDone, fs.networkDone = f.networkDone
  PROVE  TurnFailed
<1>1. f' = [fs EXCEPT !.failed = TRUE, !.released = TRUE] BY DEF FailWith
<1>2. f' \in Flags /\ f'.failed /\ f'.cancelled = fs.cancelled /\ f'.late = fs.late
      /\ f'.captureDone = fs.captureDone /\ f'.networkDone = fs.networkDone
  BY <1>1 DEF Flags
<1>3. (mic.stop \/ (mic.adopted /\ ~f.captureDone)) \in BOOLEAN OBVIOUS
<1>4. PICK stop \in BOOLEAN : mic' = [mic EXCEPT !.stop = stop] BY <1>3, Zenon DEF FailWith
<1>5. mic' \in Mics /\ mic'.on = mic.on /\ mic'.ring = mic.ring /\ mic'.adopted = mic.adopted
  BY <1>4 DEF Typed, Mics
<1>6. view' \in Views /\ view'.state = "failed" /\ view'.finished = view.finished
  BY DEF FailWith, Typed, Views
<1> QED BY <1>2, <1>5, <1>6 DEF TurnFailed

LEMMA CreatedTasks ==
  \A order \in Orders, n \in 0..2 : ToSet(SubSeq(order, 1, n)) \in SUBSET Tasks
<1> SUFFICES ASSUME NEW order \in Orders, NEW n \in 0..2
             PROVE  ToSet(SubSeq(order, 1, n)) \in SUBSET Tasks
  OBVIOUS
<1>1. order \in Seq(Tasks) /\ Len(order) = 3
  <2>1. CASE order = <<"audio", "gateway", "net">>
    BY <2>1 DEF Tasks
  <2>2. CASE order = <<"net", "audio", "gateway">>
    BY <2>2 DEF Tasks
  <2> QED BY <2>1, <2>2 DEF Orders
<1>2. \A i \in 1..n : SubSeq(order, 1, n)[i] \in Tasks
  BY <1>1
<1>3. DOMAIN SubSeq(order, 1, n) = 1..n
  BY <1>1
<1> QED BY <1>2, <1>3 DEF ToSet

-----------------------------------------------------------------------------
(* The owner.                                                                *)

LEMMA StartGood ==
  ASSUME IInv, Start PROVE IInv'
<1>1. UNCHANGED <<handles, f, captured, produced, consumed, audio, net, calls, work, gw, inbox,
                  server, posts>>
  BY DEF Start
<1>2. impl = "none" /\ impl' = "new"
  BY DEF Start
<1>3. audio.pc = "off" /\ net.pc = "off" /\ gw.pc = "off" /\ captured = 0 /\ handles = {}
      /\ ~net.ended /\ ~audio.done /\ work.state = "empty" /\ ~f.captureDone
      /\ ~f.networkDone /\ ~f.failed
  BY <1>2 DEF IInv, Unborn
<1>4. PICK adopted \in BOOLEAN : mic' = [mic EXCEPT !.adopted = adopted, !.on = TRUE]
  BY DEF Start
<1>5. mic' \in Mics BY <1>4 DEF IInv, Typed, Mics
<1>6. view' \in Views /\ view'.state = "busy" /\ view'.finished = FALSE
  BY Zenon DEF Start, Views
<1>7. Typed' BY <1>1, <1>2, <1>5, <1>6 DEF IInv, Typed
<1>8. Counted' BY <1>1 DEF IInv, Counted
<1>9. Unborn' BY <1>1, <1>2, <1>6 DEF IInv, Unborn
<1>10. Manned' BY <1>1, <1>2, <1>3 DEF IInv, Manned
<1>11. Sounded' BY <1>1, <1>3 DEF IInv, Sounded
<1>12. Heard' BY <1>1, <1>3 DEF IInv, Heard
<1>13. Owned' BY <1>6 DEF IInv, Owned
<1>14. Tooled' BY <1>1 DEF IInv, Tooled
<1> QED BY <1>7, <1>8, <1>9, <1>10, <1>11, <1>12, <1>13, <1>14 DEF IInv

LEMMA StartRefusedGood ==
  ASSUME IInv, StartRefused PROVE IInv'
<1>1. UNCHANGED <<handles, captured, produced, consumed, audio, net, calls, work, gw, inbox,
                  server, posts>>
  BY DEF StartRefused
<1>2. impl = "new" /\ impl' = "none" /\ f' = NoFlags /\ mic' = NoMic
  BY DEF StartRefused
<1>3. audio.pc = "off" /\ net.pc = "off" /\ gw.pc = "off" /\ captured = 0 /\ handles = {}
      /\ ~net.ended /\ ~audio.done /\ work.state = "empty" /\ ~f.captureDone
      /\ ~f.networkDone /\ ~f.failed
  BY <1>2 DEF IInv, Unborn
<1>4. f' \in Flags /\ mic' \in Mics BY <1>2, NoneTypes
<1>5. ~f'.captureDone /\ ~f'.networkDone /\ ~f'.failed /\ ~mic'.on BY <1>2, NoneFields
<1>6. view' \in Views /\ view'.state = "failed" /\ view'.finished = TRUE
  BY Zenon DEF StartRefused, Views
<1>7. Typed' BY <1>1, <1>2, <1>4, <1>6 DEF IInv, Typed
<1>8. Counted' BY <1>1 DEF IInv, Counted
<1>9. Unborn' BY <1>1, <1>2, <1>5 DEF IInv, Unborn
<1>10. Manned' BY <1>2, <1>5 DEF IInv, Manned
<1>11. Sounded' BY <1>1, <1>3, <1>5 DEF IInv, Sounded
<1>12. Heard' BY <1>1, <1>3 DEF IInv, Heard
<1>13. Owned' BY <1>1, <1>3, <1>5, <1>6 DEF IInv, Owned
<1>14. Tooled' BY <1>1 DEF IInv, Tooled
<1> QED BY <1>7, <1>8, <1>9, <1>10, <1>11, <1>12, <1>13, <1>14 DEF IInv

LEMMA LaunchGood ==
  ASSUME IInv, Launch PROVE IInv'
<1>1. UNCHANGED <<f, mic, captured, produced, consumed, calls, work, inbox, server, posts, view>>
  BY DEF Launch, Launched
<1>2. impl = "new" /\ impl' = "on" /\ handles' = Tasks
  BY DEF Launch, Launched
<1>3. audio.pc = "off" /\ net.pc = "off" /\ gw.pc = "off" /\ captured = 0 /\ handles = {}
      /\ ~net.ended /\ ~audio.done /\ work.state = "empty" /\ ~f.captureDone
      /\ ~f.networkDone /\ ~f.failed /\ ~view.finished
  BY <1>2 DEF IInv, Unborn
<1>4. audio' \in Players /\ net' \in Nets /\ gw' \in Gateways
      /\ audio'.done = audio.done /\ net'.ended = net.ended /\ net'.sent = net.sent
      /\ audio'.pc = (IF "audio" \in Tasks THEN "capture" ELSE "off")
      /\ net'.pc = (IF "net" \in Tasks THEN "connect" ELSE "off")
      /\ gw'.pc = (IF "gateway" \in Tasks THEN "idle" ELSE "off")
  BY <1>3 DEF Launch, Launched, IInv, Typed, Players, Nets, Gateways, Tasks
<1>5. "audio" \in Tasks /\ "net" \in Tasks /\ "gateway" \in Tasks BY DEF Tasks
<1>6. Typed' BY <1>1, <1>2, <1>4 DEF IInv, Typed
<1>7. Counted' BY <1>1, <1>3, <1>4, BlocksAssumption DEF IInv, Counted
<1>8. Unborn' BY <1>2 DEF IInv, Unborn
<1>9. Manned' BY <1>1, <1>2, <1>3, <1>4, <1>5 DEF IInv, Manned
<1>10. Sounded' BY <1>1, <1>3, <1>4 DEF IInv, Sounded
<1>11. Heard' BY <1>1, <1>4 DEF IInv, Heard
<1>12. Owned' BY <1>1, <1>3 DEF IInv, Owned
<1>13. Tooled' BY <1>1, <1>4 DEF IInv, Tooled
<1> QED BY <1>6, <1>7, <1>8, <1>9, <1>10, <1>11, <1>12, <1>13 DEF IInv

LEMMA LaunchFailsGood ==
  ASSUME IInv, LaunchFails PROVE IInv'
<1>1. UNCHANGED <<captured, produced, consumed, calls, work, inbox, server, posts>>
  BY DEF LaunchFails, Launched
<1>2. impl = "new" /\ impl' = "on"
  BY DEF LaunchFails, Launched
<1>3. audio.pc = "off" /\ net.pc = "off" /\ gw.pc = "off" /\ captured = 0 /\ handles = {}
      /\ ~net.ended /\ ~audio.done /\ work.state = "empty" /\ ~f.captureDone
      /\ ~f.networkDone /\ ~f.failed /\ ~view.finished
  BY <1>2 DEF IInv, Unborn
<1>4. PICK created \in SUBSET Tasks :
        /\ Launched(created)
        /\ f' = [f EXCEPT !.failed = TRUE, !.released = TRUE, !.cancelled = TRUE,
                          !.workerStop = TRUE, !.networkDone = TRUE,
                          !.captureDone = "audio" \notin created]
        /\ mic' = [mic EXCEPT !.stop = @ \/ mic.adopted, !.on = "audio" \in created]
  BY CreatedTasks DEF LaunchFails
<1>5. handles' = created /\ created \subseteq Tasks
  BY <1>4 DEF Launched
<1>6. audio' \in Players /\ net' \in Nets /\ gw' \in Gateways
      /\ audio'.done = audio.done /\ net'.ended = net.ended /\ net'.sent = net.sent
      /\ audio'.pc = (IF "audio" \in created THEN "capture" ELSE "off")
      /\ net'.pc = (IF "net" \in created THEN "connect" ELSE "off")
      /\ gw'.pc = (IF "gateway" \in created THEN "idle" ELSE "off")
  BY <1>3, <1>4 DEF Launched, IInv, Typed, Players, Nets, Gateways, Tasks
<1>7. /\ (mic.stop \/ mic.adopted) \in BOOLEAN
      /\ ("audio" \in created) \in BOOLEAN /\ ("audio" \notin created) \in BOOLEAN
  OBVIOUS
<1>8. PICK stop \in BOOLEAN, on \in BOOLEAN, ended \in BOOLEAN :
        /\ mic' = [mic EXCEPT !.stop = stop, !.on = on]
        /\ f' = [f EXCEPT !.failed = TRUE, !.released = TRUE, !.cancelled = TRUE,
                          !.workerStop = TRUE, !.networkDone = TRUE, !.captureDone = ended]
        /\ on <=> "audio" \in created
        /\ ended <=> "audio" \notin created
  BY <1>4, <1>7, Zenon
<1>9. mic' \in Mics /\ f' \in Flags /\ (mic'.on <=> "audio" \in created)
      /\ (f'.captureDone <=> "audio" \notin created)
      /\ f'.failed /\ f'.cancelled
  BY <1>8 DEF IInv, Typed, Mics, Flags
<1>10. view' \in Views /\ view'.state = "failed" /\ view'.finished = view.finished
  BY DEF LaunchFails, IInv, Typed, Views
<1>11. Typed' BY <1>1, <1>2, <1>5, <1>6, <1>9, <1>10 DEF IInv, Typed
<1>12. Counted' BY <1>1, <1>3, <1>6, BlocksAssumption DEF IInv, Counted
<1>13. Unborn' BY <1>2 DEF IInv, Unborn
<1>14. Manned' BY <1>5, <1>6, <1>9, <1>10 DEF IInv, Manned
<1>15. Sounded' BY <1>3, <1>6, <1>9 DEF IInv, Sounded
<1>16. Heard' BY <1>3, <1>6 DEF IInv, Heard
<1>17. Owned' BY <1>3, <1>10 DEF IInv, Owned
<1>18. Tooled' BY <1>1, <1>6 DEF IInv, Tooled
<1> QED BY <1>11, <1>12, <1>13, <1>14, <1>15, <1>16, <1>17, <1>18 DEF IInv

LEMMA ReleaseGood ==
  ASSUME IInv, Release PROVE IInv'
<1>1. UNCHANGED <<impl, handles, captured, produced, consumed, audio, net, calls, work, gw,
                  inbox, server, posts, view>>
  BY DEF Release
<1>2. (mic.stop \/ (mic.adopted /\ ~f.captureDone)) \in BOOLEAN OBVIOUS
<1>3. PICK stop \in BOOLEAN : mic' = [mic EXCEPT !.stop = stop]
        /\ (mic.stop => stop)
  BY <1>2, Zenon DEF Release
<1>4. mic' \in Mics /\ mic'.on = mic.on /\ mic'.ring = mic.ring /\ mic'.adopted = mic.adopted
      /\ (mic.stop => mic'.stop)
  BY <1>3 DEF IInv, Typed, Mics
<1>5. FlagsKept BY DEF FlagsKept, Release, IInv, Typed, Flags
<1>6. Typed' BY <1>1, <1>4, <1>5 DEF IInv, Typed, FlagsKept
<1>7. Counted' BY <1>1 DEF IInv, Counted, FlagsKept
<1>8. Unborn' BY <1>1, <1>3, <1>5 DEF IInv, Unborn, FlagsKept
<1>9. Manned' BY <1>1, <1>3, <1>5 DEF IInv, Manned, FlagsKept
<1>10. Sounded' BY <1>1, <1>3, <1>5 DEF IInv, Sounded, Stopped, Drained, FlagsKept
<1>11. Heard' BY <1>1, <1>5 DEF IInv, Heard, Stopped, LeftWhole, Pending, FlagsKept
<1>12. Owned' BY <1>1, <1>3, <1>5 DEF IInv, Owned, FlagsKept
<1>13. Tooled' BY <1>1 DEF IInv, Tooled, FlagsKept
<1> QED BY <1>6, <1>7, <1>8, <1>9, <1>10, <1>11, <1>12, <1>13 DEF IInv

LEMMA CancelGood ==
  ASSUME IInv, Cancel PROVE IInv'
<1>1. UNCHANGED <<impl, handles, captured, produced, consumed, audio, net, calls, work, gw,
                  inbox, server, posts, view>>
  BY DEF Cancel
<1>2. (mic.stop \/ (mic.adopted /\ ~f.captureDone)) \in BOOLEAN OBVIOUS
<1>3. PICK stop \in BOOLEAN : mic' = [mic EXCEPT !.stop = stop]
        /\ (mic.stop => stop)
  BY <1>2, Zenon DEF Cancel
<1>4. mic' \in Mics /\ mic'.on = mic.on /\ mic'.ring = mic.ring /\ mic'.adopted = mic.adopted
      /\ (mic.stop => mic'.stop)
  BY <1>3 DEF IInv, Typed, Mics
<1>5. f' \in Flags /\ f'.failed = f.failed /\ f'.cancelled /\ f'.late = f.late
      /\ f'.captureDone = f.captureDone /\ f'.networkDone = f.networkDone
  BY DEF Cancel, IInv, Typed, Flags
<1>6. ~view.finished BY DEF Cancel
<1>7. Typed' BY <1>1, <1>4, <1>5 DEF IInv, Typed
<1>8. Counted' BY <1>1 DEF IInv, Counted
<1>9. Unborn' BY <1>1, <1>3, <1>5 DEF IInv, Unborn
<1>10. Manned' BY <1>1, <1>3, <1>5 DEF IInv, Manned
<1>11. Sounded' BY <1>1, <1>5 DEF IInv, Sounded, Stopped
<1>12. Heard' BY <1>1, <1>5 DEF IInv, Heard, Stopped
<1>13. Owned' BY <1>1, <1>6 DEF IInv, Owned
<1>14. Tooled' BY <1>1 DEF IInv, Tooled
<1> QED BY <1>7, <1>8, <1>9, <1>10, <1>11, <1>12, <1>13, <1>14 DEF IInv

LEMMA TurnExpiresGood ==
  ASSUME IInv, TurnExpires PROVE IInv'
<1>1. UNCHANGED <<impl, handles, mic, captured, produced, consumed, audio, net, calls, work, gw,
                  inbox, server, posts, view>>
  BY DEF TurnExpires
<1>2. f' \in Flags /\ f'.failed = f.failed /\ f'.cancelled = f.cancelled /\ f'.late
      /\ f'.captureDone = f.captureDone /\ f'.networkDone = f.networkDone
  BY DEF TurnExpires, IInv, Typed, Flags
<1>3. Typed' BY <1>1, <1>2 DEF IInv, Typed
<1>4. Counted' BY <1>1 DEF IInv, Counted
<1>5. Unborn' BY <1>1, <1>2 DEF IInv, Unborn
<1>6. Manned' BY <1>1, <1>2 DEF IInv, Manned
<1>7. Sounded' BY <1>1, <1>2 DEF IInv, Sounded, Stopped, Drained
<1>8. Heard' BY <1>1, <1>2 DEF IInv, Heard, Stopped, LeftWhole, Pending
<1>9. Owned' BY <1>1, <1>2 DEF IInv, Owned
<1>10. Tooled' BY <1>1 DEF IInv, Tooled
<1> QED BY <1>3, <1>4, <1>5, <1>6, <1>7, <1>8, <1>9, <1>10 DEF IInv

LEMMA ReapGood ==
  ASSUME IInv, Reap PROVE IInv'
<1>1. UNCHANGED <<impl, f, mic, captured, produced, consumed, audio, net, calls, work, gw, inbox,
                  server, posts>>
  BY DEF Reap
<1>2. impl = "on" /\ ~view.finished /\ handles' = {}
  BY DEF Reap
<1>3. \A task \in Tasks : Place(task) \in {"off", "suspended"}
  BY <1>2 DEF Reap, Suspended, Place, Tasks, IInv, Manned
<1>4. audio.pc \in {"off", "suspended"} /\ net.pc \in {"off", "suspended"}
      /\ gw.pc \in {"off", "suspended"}
  BY <1>3 DEF Place, Tasks
<1>5. view' \in Views /\ view'.finished /\ (view.state = "failed" => view'.state = "failed")
      /\ (view'.state = "done" => view.state # "failed" /\ ~f.cancelled)
  BY DEF Reap, Views
<1>6. Typed' BY <1>1, <1>2, <1>5 DEF IInv, Typed
<1>7. Counted' BY <1>1 DEF IInv, Counted
<1>8. Unborn' BY <1>1, <1>2 DEF IInv, Unborn
<1>9. Manned' BY <1>1, <1>5 DEF IInv, Manned
<1>10. Sounded' BY <1>1, <1>4 DEF IInv, Sounded, Drained
<1>11. Heard' BY <1>1, <1>4 DEF IInv, Heard, LeftWhole, Pending
<1>12. Owned' BY <1>1, <1>2, <1>4, <1>5 DEF IInv, Owned, Manned
<1>13. Tooled' BY <1>1 DEF IInv, Tooled
<1> QED BY <1>6, <1>7, <1>8, <1>9, <1>10, <1>11, <1>12, <1>13 DEF IInv

LEMMA AcknowledgeGood ==
  ASSUME IInv, Acknowledge PROVE IInv'
<1>1. impl' = "none" /\ handles' = {} /\ f' = NoFlags /\ mic' = NoMic /\ audio' = AudioOff
      /\ net' = NetOff /\ gw' = GatewayOff /\ work' = NoWork /\ inbox' = <<>> /\ server' = NoServer
      /\ captured' = 0 /\ produced' = 0 /\ consumed' = 0
  BY DEF Acknowledge, Fresh
<1>2. calls' \in [Ids -> Calls] /\ posts' \in [Ids -> Nat]
      /\ \A i \in Ids : calls'[i] = NoCall /\ posts'[i] = 0
  BY WorkTypes, Zenon DEF Acknowledge, Fresh
<1>3. view' \in Views /\ view'.state = "idle" /\ view'.finished = FALSE
  BY Zenon DEF Acknowledge, Fresh, Views
<1>4. Typed' BY <1>1, <1>2, <1>3, NoneTypes, WorkTypes DEF IInv, Typed
<1>5. Counted' BY <1>1, NoneFields, BlocksAssumption DEF IInv, Counted
<1>6. Unborn' BY <1>1, NoneFields DEF IInv, Unborn
<1>7. Manned' BY <1>1, NoneFields DEF IInv, Manned
<1>8. Sounded' BY <1>1, NoneFields DEF IInv, Sounded
<1>9. Heard' BY <1>1, NoneFields DEF IInv, Heard
<1>10. Owned' BY <1>3 DEF IInv, Owned
<1>11. Tooled' BY <1>1, <1>2, NoneFields DEF IInv, Tooled
<1> QED BY <1>4, <1>5, <1>6, <1>7, <1>8, <1>9, <1>10, <1>11 DEF IInv

-----------------------------------------------------------------------------
(* The microphone and the audio task.                                        *)

LEMMA SpeakGood ==
  ASSUME IInv, Speak PROVE IInv'
<1>1. UNCHANGED <<impl, handles, f, captured, produced, consumed, audio, net, calls, work, gw,
                  inbox, server, posts, view>>
  BY DEF Speak
<1>2. mic.on /\ ~mic.stop /\ ~Stopped BY DEF Speak
<1>3. mic' \in Mics /\ mic'.on /\ mic'.adopted = mic.adopted /\ ~mic'.stop
  BY DEF Speak, IInv, Typed, Mics
<1>4. Typed' BY <1>1, <1>3 DEF IInv, Typed
<1>5. Counted' BY <1>1 DEF IInv, Counted
<1>6. Unborn' BY <1>1, <1>2 DEF IInv, Unborn
<1>7. Manned' BY <1>1, <1>2 DEF IInv, Manned
<1>8. Sounded' BY <1>1, <1>2, <1>3 DEF IInv, Sounded, Manned, Drained
<1>9. Heard' BY <1>1, <1>2 DEF IInv, Heard, LeftWhole, Pending
<1>10. Owned' BY <1>1, <1>2 DEF IInv, Owned
<1>11. Tooled' BY <1>1 DEF IInv, Tooled
<1> QED BY <1>4, <1>5, <1>6, <1>7, <1>8, <1>9, <1>10, <1>11 DEF IInv

LEMMA CaptureStopsGood ==
  ASSUME IInv, AudioCapture,
         Stopped \/ Recorded, audio' = [audio EXCEPT !.pc = "join"],
         UNCHANGED <<f, mic, captured, view>>
  PROVE IInv'
<1>1. UNCHANGED <<impl, handles, produced, consumed, net, calls, work, gw, inbox, server, posts,
                  view>>
  BY DEF AudioCapture
<1>2. audio.pc = "capture" /\ (mic.adopted /\ ~Stopped => mic.stop /\ mic.ring = 0)
  BY DEF AudioCapture, Recorded
<1>3. audio' \in Players /\ audio'.done = audio.done /\ audio'.pc = "join"
  BY DEF IInv, Typed, Players
<1>4. Typed' BY <1>1, <1>3 DEF IInv, Typed
<1>5. Counted' BY <1>1 DEF IInv, Counted
<1>6. Unborn' BY <1>1, <1>2 DEF IInv, Unborn
<1>7. Manned' BY <1>1, <1>2 DEF IInv, Manned
<1>8. Sounded' BY <1>1, <1>2 DEF IInv, Sounded, Stopped, Drained
<1>9. Heard' BY <1>1 DEF IInv, Heard, Stopped, LeftWhole, Pending
<1>10. Owned' BY <1>2 DEF IInv, Owned
<1>11. Tooled' BY <1>1 DEF IInv, Tooled
<1> QED BY <1>4, <1>5, <1>6, <1>7, <1>8, <1>9, <1>10, <1>11 DEF IInv

LEMMA CaptureReadsGood ==
  ASSUME IInv, AudioCapture, mic.ring > 0, ~Stopped, ~Recorded, captured' = captured + 1,
         NEW stop \in BOOLEAN, mic' = [mic EXCEPT !.ring = @ - 1, !.stop = stop] PROVE IInv'
<1>1. UNCHANGED <<impl, handles, produced, consumed, net, calls, work, gw, inbox, server, posts,
                  view>>
  BY DEF AudioCapture
<1>2. audio.pc = "capture" BY DEF AudioCapture
<1>3. audio' \in Players /\ audio'.done = audio.done /\ audio'.pc \in {"capture", "join"}
  BY DEF AudioCapture, AudioStop, IInv, Typed, Players
<1>4. FlagsKept
  <2>1. f' = f \/ f' = [f EXCEPT !.released = TRUE] BY Zenon DEF AudioCapture
  <2> QED BY <2>1 DEF FlagsKept, IInv, Typed, Flags
<1>5. mic \in Mics /\ mic.ring - 1 \in Nat
  BY DEF IInv, Typed, Mics
<1>6. mic' \in Mics /\ mic'.on = mic.on /\ mic'.adopted = mic.adopted BY <1>5 DEF Mics
<1>7. captured \in Nat /\ captured < CaptureLimit BY <1>2 DEF IInv, Typed, Counted
<1>8. captured + 1 # captured BY <1>7
<1>9. IF captured + 1 = CaptureLimit THEN audio'.pc = "join" ELSE audio' = audio
  BY <1>3, <1>8 DEF AudioCapture, AudioStop, IInv, Typed, Players
<1>10. Typed' BY <1>1, <1>3, <1>4, <1>6 DEF IInv, Typed, FlagsKept
<1>11. Counted' BY <1>1, <1>2, <1>9, BlocksAssumption DEF IInv, Typed, Counted, Nets, FlagsKept
<1>12. Unborn' BY <1>1, <1>2 DEF IInv, Unborn, FlagsKept
<1>13. Manned' BY <1>1, <1>2, <1>3, <1>4 DEF IInv, Manned, FlagsKept
<1>14. Sounded' BY <1>1, <1>3, <1>4, <1>7, <1>9 DEF IInv, Sounded, Drained, FlagsKept
<1>15. Heard' BY <1>1, <1>2, <1>4 DEF IInv, Heard, Manned, LeftWhole, FlagsKept
<1>16. Owned' BY <1>1, <1>2 DEF IInv, Owned, FlagsKept
<1>17. Tooled' BY <1>1 DEF IInv, Tooled, FlagsKept
<1> QED BY <1>10, <1>11, <1>12, <1>13, <1>14, <1>15, <1>16, <1>17 DEF IInv

LEMMA AudioCaptureGood ==
  ASSUME IInv, AudioCapture PROVE IInv'
<1>1. CASE (Stopped \/ Recorded) /\ AudioStop /\ UNCHANGED <<f, mic, captured, view>>
  BY <1>1, CaptureStopsGood DEF AudioStop
<1>2. CASE /\ ~Stopped /\ ~Recorded /\ mic.ring > 0 /\ captured' = captured + 1
           /\ mic' = [mic EXCEPT !.ring = @ - 1, !.stop = @ \/ (mic.adopted /\ f.released)]
  <2>1. (mic.stop \/ (mic.adopted /\ f.released)) \in BOOLEAN OBVIOUS
  <2> QED BY <1>2, <2>1, CaptureReadsGood, Zenon
<1> QED BY <1>1, <1>2, Zenon DEF AudioCapture

LEMMA AudioLimitGood ==
  ASSUME IInv, AudioLimit PROVE IInv'
<1>1. UNCHANGED <<impl, handles, captured, produced, consumed, audio, net, calls, work, gw,
                  inbox, server, posts, view>>
  BY DEF AudioLimit
<1>2. audio.pc = "capture" BY DEF AudioLimit
<1>3. FlagsKept BY DEF FlagsKept, AudioLimit, IInv, Typed, Flags
<1>4. (mic.stop \/ mic.adopted) \in BOOLEAN OBVIOUS
<1>5. PICK stop \in BOOLEAN : mic' = [mic EXCEPT !.stop = stop]
  BY <1>4, Zenon DEF AudioLimit
<1>6. mic' \in Mics /\ mic'.on = mic.on /\ mic'.adopted = mic.adopted /\ mic'.ring = mic.ring
  BY <1>5 DEF IInv, Typed, Mics
<1>7. Typed' BY <1>1, <1>3, <1>6 DEF IInv, Typed, FlagsKept
<1>8. Counted' BY <1>1 DEF IInv, Counted, FlagsKept
<1>9. Unborn' BY <1>1, <1>2 DEF IInv, Unborn, FlagsKept
<1>10. Manned' BY <1>1, <1>2, <1>3 DEF IInv, Manned, FlagsKept
<1>11. Sounded' BY <1>1, <1>2, <1>3 DEF IInv, Sounded, FlagsKept
<1>12. Heard' BY <1>1, <1>3 DEF IInv, Heard, Stopped, LeftWhole, Pending, FlagsKept
<1>13. Owned' BY <1>1, <1>2 DEF IInv, Owned, FlagsKept
<1>14. Tooled' BY <1>1 DEF IInv, Tooled, FlagsKept
<1> QED BY <1>7, <1>8, <1>9, <1>10, <1>11, <1>12, <1>13, <1>14 DEF IInv

LEMMA AudioCaptureFailsGood ==
  ASSUME IInv, AudioCaptureFails PROVE IInv'
<1>1. UNCHANGED <<impl, handles, captured, produced, consumed, net, calls, work, gw, inbox,
                  server, posts>>
  BY DEF AudioCaptureFails
<1>2. audio.pc \in {"capture", "join"} /\ ~f.failed BY DEF AudioCaptureFails, Stopped, AudioStop
<1>3. Typed /\ f \in Flags /\ FailWith(f) BY DEF AudioCaptureFails, IInv, Typed, Fail, AudioStop
<1>4. TurnFailed BY <1>3, FailFacts, Zenon
<1>5. audio' \in Players /\ audio'.pc = "join" /\ audio'.done = audio.done
  BY DEF AudioCaptureFails, AudioStop, IInv, Typed, Players
<1>6. Typed' BY <1>1, <1>4, <1>5 DEF IInv, Typed, TurnFailed
<1>7. Counted' BY <1>1, <1>5 DEF IInv, Counted, TurnFailed
<1>8. Unborn' BY <1>1, <1>2 DEF IInv, Unborn, TurnFailed
<1>9. Manned' BY <1>1, <1>2, <1>4, <1>5 DEF IInv, Manned, TurnFailed
<1>10. Sounded' BY <1>1, <1>4, <1>5 DEF IInv, Sounded, Stopped, TurnFailed
<1>11. Heard' BY <1>1, <1>4 DEF IInv, Heard, Stopped, TurnFailed
<1>12. Owned' BY <1>2, <1>4 DEF IInv, Owned, TurnFailed
<1>13. Tooled' BY <1>1 DEF IInv, Tooled, TurnFailed
<1> QED BY <1>6, <1>7, <1>8, <1>9, <1>10, <1>11, <1>12, <1>13 DEF IInv

LEMMA AudioJoinGood ==
  ASSUME IInv, AudioJoin PROVE IInv'
<1>1. UNCHANGED <<impl, handles, captured, produced, consumed, net, calls, work, gw, inbox,
                  server, posts, view>>
  BY DEF AudioJoin
<1>2. audio.pc = "join" BY DEF AudioJoin
<1>3. mic' \in Mics /\ ~mic'.on /\ mic'.adopted = mic.adopted /\ mic'.ring = mic.ring
  BY DEF AudioJoin, IInv, Typed, Mics
<1>4. f' \in Flags /\ f'.failed = f.failed /\ f'.cancelled = f.cancelled /\ f'.late = f.late
      /\ f'.captureDone /\ f'.networkDone = f.networkDone
  BY DEF AudioJoin, IInv, Typed, Flags
<1>5. audio' \in Players /\ audio'.pc = "look" /\ audio'.done = audio.done
  BY DEF AudioJoin, IInv, Typed, Players
<1>6. Typed' BY <1>1, <1>3, <1>4, <1>5 DEF IInv, Typed
<1>7. Counted' BY <1>1, <1>5 DEF IInv, Counted
<1>8. Unborn' BY <1>1, <1>2 DEF IInv, Unborn
<1>9. Manned' BY <1>1, <1>2, <1>3, <1>4, <1>5 DEF IInv, Manned
<1>10. Sounded' BY <1>1, <1>2, <1>3, <1>4, <1>5 DEF IInv, Sounded, Stopped, Drained
<1>11. Heard' BY <1>1, <1>4 DEF IInv, Heard, Stopped, LeftWhole, Pending
<1>12. Owned' BY <1>1, <1>2 DEF IInv, Owned
<1>13. Tooled' BY <1>1 DEF IInv, Tooled
<1> QED BY <1>6, <1>7, <1>8, <1>9, <1>10, <1>11, <1>12, <1>13 DEF IInv

LEMMA AudioLookGood ==
  ASSUME IInv, AudioLook PROVE IInv'
<1>1. UNCHANGED <<impl, handles, f, mic, captured, produced, consumed, net, calls, work, gw,
                  inbox, server, posts, view>>
  BY DEF AudioLook
<1>2. audio.pc = "look" BY DEF AudioLook
<1>3. f.networkDone \in BOOLEAN /\ audio \in Players BY DEF IInv, Typed, Flags
<1>4. PICK done \in BOOLEAN :
        /\ done = f.networkDone
        /\ Stopped => audio' = [audio EXCEPT !.pc = "tail"]
        /\ ~Stopped => audio' = [audio EXCEPT !.pc = "play", !.done = done]
  BY <1>3, Zenon DEF AudioLook
<1>5. Stopped => audio' \in Players /\ audio'.pc = "tail" /\ audio'.done = audio.done
  BY <1>3, <1>4 DEF Players
<1>6. ~Stopped => audio' \in Players /\ audio'.pc = "play" /\ audio'.done = f.networkDone
  BY <1>3, <1>4 DEF Players
<1>7. Typed' BY <1>1, <1>5, <1>6 DEF IInv, Typed
<1>8. Counted' BY <1>1, <1>5, <1>6 DEF IInv, Counted
<1>9. Unborn' BY <1>1, <1>2 DEF IInv, Unborn
<1>10. Manned' BY <1>1, <1>2, <1>5, <1>6 DEF IInv, Manned
<1>11. Sounded' BY <1>1, <1>2, <1>5, <1>6 DEF IInv, Sounded, Stopped, Drained
<1>12. Heard' BY <1>1 DEF IInv, Heard, Stopped, LeftWhole, Pending
<1>13. Owned' BY <1>1, <1>2 DEF IInv, Owned
<1>14. Tooled' BY <1>1 DEF IInv, Tooled
<1> QED BY <1>7, <1>8, <1>9, <1>10, <1>11, <1>12, <1>13, <1>14 DEF IInv

LEMMA AudioPlayGood ==
  ASSUME IInv, AudioPlay PROVE IInv'
<1>1. UNCHANGED <<impl, handles, f, mic, captured, produced, net, calls, work, gw, inbox, server,
                  posts, view>>
  BY DEF AudioPlay
<1>2. audio.pc = "play" BY DEF AudioPlay
<1>3. (audio.feeding /\ Available > 0) \in BOOLEAN OBVIOUS
<1>4. PICK feeding \in BOOLEAN :
        \/ PlayEnds /\ audio' = [audio EXCEPT !.pc = "tail"] /\ consumed' = consumed
        \/ audio' = [audio EXCEPT !.pc = "look", !.feeding = feeding] /\ consumed' = consumed
        \/ audio' = [audio EXCEPT !.pc = "look", !.feeding = TRUE] /\ MayPlay
           /\ consumed' = consumed + 1
  BY <1>3, Zenon DEF AudioPlay
<1>5. audio' \in Players /\ audio'.done = audio.done /\ audio'.pc \in {"tail", "look"}
  BY <1>4 DEF IInv, Typed, Players
<1>6. produced \in Nat /\ consumed \in Nat /\ consumed <= produced /\ produced - consumed <= Output
  BY DEF IInv, Typed, Counted
<1>7. (PlayEnds => audio.done /\ consumed = produced) /\ (MayPlay => consumed < produced)
  BY <1>6 DEF PlayEnds, MayPlay, Available
<1>8. audio'.pc = "tail" => audio.done /\ consumed' = produced
  BY <1>4, <1>7 DEF IInv, Typed, Players
<1>9. consumed' \in Nat /\ consumed' <= produced /\ produced - consumed' <= Output
  BY <1>4, <1>6, <1>7, BlocksAssumption
<1>10. Typed' BY <1>1, <1>5, <1>9 DEF IInv, Typed
<1>11. Counted' BY <1>1, <1>5, <1>9 DEF IInv, Counted
<1>12. Unborn' BY <1>1, <1>2 DEF IInv, Unborn
<1>13. Manned' BY <1>1, <1>2, <1>5 DEF IInv, Manned
<1>14. Sounded' BY <1>1, <1>2, <1>5, <1>8 DEF IInv, Sounded, Stopped, Drained
<1>15. Heard' BY <1>1 DEF IInv, Heard, Stopped, LeftWhole, Pending
<1>16. Owned' BY <1>1, <1>2 DEF IInv, Owned
<1>17. Tooled' BY <1>1 DEF IInv, Tooled
<1> QED BY <1>10, <1>11, <1>12, <1>13, <1>14, <1>15, <1>16, <1>17 DEF IInv

LEMMA AudioPlayFailsGood ==
  ASSUME IInv, AudioPlayFails PROVE IInv'
<1>1. UNCHANGED <<impl, handles, captured, produced, consumed, net, calls, work, gw, inbox,
                  server, posts>>
  BY DEF AudioPlayFails
<1>2. audio.pc = "play" /\ ~f.failed BY DEF AudioPlayFails, Stopped
<1>3. Typed /\ f \in Flags /\ FailWith(f) BY DEF AudioPlayFails, IInv, Typed, Fail
<1>4. TurnFailed BY <1>3, FailFacts, Zenon
<1>5. audio' \in Players /\ audio'.pc = "tail" /\ audio'.done = audio.done
  BY DEF AudioPlayFails, IInv, Typed, Players
<1>6. Typed' BY <1>1, <1>4, <1>5 DEF IInv, Typed, TurnFailed
<1>7. Counted' BY <1>1, <1>5 DEF IInv, Counted, TurnFailed
<1>8. Unborn' BY <1>1, <1>2 DEF IInv, Unborn, TurnFailed
<1>9. Manned' BY <1>1, <1>2, <1>4, <1>5 DEF IInv, Manned, TurnFailed
<1>10. Sounded' BY <1>1, <1>4, <1>5 DEF IInv, Sounded, Stopped, TurnFailed
<1>11. Heard' BY <1>1, <1>4 DEF IInv, Heard, Stopped, TurnFailed
<1>12. Owned' BY <1>2, <1>4 DEF IInv, Owned, TurnFailed
<1>13. Tooled' BY <1>1 DEF IInv, Tooled, TurnFailed
<1> QED BY <1>6, <1>7, <1>8, <1>9, <1>10, <1>11, <1>12, <1>13 DEF IInv

LEMMA AudioTailGood ==
  ASSUME IInv, AudioTail PROVE IInv'
<1>1. UNCHANGED <<impl, handles, captured, produced, consumed, net, calls, work, gw, inbox,
                  server, posts>>
  BY DEF AudioTail
<1>2. audio.pc = "tail" BY DEF AudioTail
<1>3. audio' \in Players /\ audio'.pc = "suspended" /\ audio'.done = audio.done
  BY DEF AudioTail, IInv, Typed, Players
<1>4. IF f.late /\ ~f.cancelled /\ ~f.failed THEN TurnFailed
      ELSE FlagsKept /\ UNCHANGED <<mic, view>>
  <2>1. CASE f.late /\ ~f.cancelled /\ ~f.failed
    <3>1. Typed /\ f \in Flags /\ FailWith(f) BY <2>1 DEF AudioTail, IInv, Typed, Fail
    <3> QED BY <2>1, <3>1, FailFacts, Zenon
  <2>2. CASE ~(f.late /\ ~f.cancelled /\ ~f.failed)
    BY <2>2 DEF AudioTail, FlagsKept, IInv, Typed, Flags
  <2> QED BY <2>1, <2>2
<1>5. Typed' BY <1>1, <1>3, <1>4 DEF IInv, Typed, FlagsKept, TurnFailed
<1>6. Counted' BY <1>1, <1>3 DEF IInv, Counted, FlagsKept, TurnFailed
<1>7. Unborn' BY <1>1, <1>2 DEF IInv, Unborn, FlagsKept, TurnFailed
<1>8. Manned' BY <1>1, <1>2, <1>3, <1>4 DEF IInv, Manned, FlagsKept, TurnFailed
<1>9. Sounded' BY <1>1, <1>2, <1>3, <1>4 DEF IInv, Sounded, Stopped, Drained, FlagsKept, TurnFailed
<1>10. Heard' BY <1>1, <1>4 DEF IInv, Heard, Stopped, LeftWhole, Pending, FlagsKept, TurnFailed
<1>11. Owned' BY <1>2, <1>4 DEF IInv, Owned, FlagsKept, TurnFailed
<1>12. Tooled' BY <1>1 DEF IInv, Tooled, FlagsKept, TurnFailed
<1> QED BY <1>5, <1>6, <1>7, <1>8, <1>9, <1>10, <1>11, <1>12 DEF IInv

-----------------------------------------------------------------------------
(* Gemini.                                                                   *)

LEMMA ServerSendsGood ==
  ASSUME IInv, NEW event \in Events, ServerSends(event), server' \in Servers PROVE IInv'
<1>1. UNCHANGED <<impl, handles, f, mic, captured, produced, consumed, audio, net, calls, work,
                  gw, posts, view>>
  BY DEF ServerSends
<1>2. inbox' \in Seq(Events) BY DEF ServerSends, IInv, Typed
<1>3. Typed' BY <1>1, <1>2 DEF IInv, Typed
<1>4. Counted' BY <1>1 DEF IInv, Counted
<1>5. Unborn' BY <1>1 DEF IInv, Unborn
<1>6. Manned' BY <1>1 DEF IInv, Manned
<1>7. Sounded' BY <1>1 DEF IInv, Sounded, Stopped, Drained
<1>8. Heard' BY <1>1 DEF IInv, Heard, Stopped, LeftWhole, Pending
<1>9. Owned' BY <1>1 DEF IInv, Owned
<1>10. Tooled' BY <1>1 DEF IInv, Tooled
<1> QED BY <1>3, <1>4, <1>5, <1>6, <1>7, <1>8, <1>9, <1>10 DEF IInv

LEMMA ServerGood == ASSUME IInv, Server PROVE IInv'
<1>1. server \in Servers /\ server.calls \in 0..MaxCalls BY DEF IInv, Typed, Servers
<1>2. CASE ServerAudio \/ ServerText
  <2>1. server' \in Servers BY <1>1, <1>2 DEF ServerAudio, ServerText, Servers
  <2>2. ServerSends(Event("audio", 0)) \/ ServerSends(Event("text", 0))
    BY <1>2 DEF ServerAudio, ServerText
  <2> QED BY <2>1, <2>2, EventTypes, ServerSendsGood, Zenon
<1>3. CASE ServerCall
  <2>1. \E i \in Ids : ServerSends(Event("call", i))
    BY <1>1, <1>3, BlocksAssumption DEF ServerCall, Ids
  <2>2. server' \in Servers
    <3>1. CASE server.calls < MaxCalls /\ server' = [server EXCEPT !.calls = @ + 1]
      <4>1. PICK n \in 0..MaxCalls : server' = [server EXCEPT !.calls = n]
        BY <1>1, <3>1, BlocksAssumption
      <4> QED BY <1>1, <4>1 DEF Servers
    <3>2. CASE server' = [server EXCEPT !.repeated = TRUE]
      BY <1>1, <3>2 DEF Servers
    <3> QED BY <1>3, <3>1, <3>2, Zenon DEF ServerCall
  <2> QED BY <2>1, <2>2, EventTypes, ServerSendsGood, Zenon
<1>4. CASE ServerCancel
  <2>1. \E i \in Ids : ServerSends(Event("cancel", i)) /\ server' = server
    BY <1>4, Zenon DEF ServerCancel
  <2> QED BY <1>1, <2>1, EventTypes, ServerSendsGood, Zenon
<1>5. CASE ServerComplete
  BY <1>1, <1>5, EventTypes, ServerSendsGood, Zenon DEF ServerComplete
<1>6. CASE ServerClose
  <2>1. server' \in Servers BY <1>1, <1>6 DEF ServerClose, Servers
  <2> QED BY <1>6, <2>1, EventTypes, ServerSendsGood, Zenon DEF ServerClose
<1> QED BY <1>2, <1>3, <1>4, <1>5, <1>6 DEF Server

-----------------------------------------------------------------------------
(* The network task.                                                         *)

LEMMA NetFailsGood ==
  ASSUME IInv, NetFails, net.pc \in {"connect", "poll", "queue", "rest"}, inbox' \in Seq(Events),
         UNCHANGED <<impl, handles, captured, produced, consumed, audio, calls,
                     work, gw, server, posts>>
  PROVE IInv'
<1>1. UNCHANGED <<impl, handles, captured, produced, consumed, audio, calls, work, gw, server,
                  posts>>
  OBVIOUS
<1>2. Typed /\ f \in Flags /\ FailWith(f) BY DEF NetFails, Fail, IInv, Typed
<1>3. TurnFailed BY <1>2, FailFacts, Zenon
<1>4. net' \in Nets /\ net'.pc = "leave" /\ net'.ended = net.ended /\ net'.sent = net.sent
      /\ net'.complete = net.complete /\ net'.response = net.response
  BY DEF NetFails, NetGoto, IInv, Typed, Nets
<1>5. Typed' BY <1>3, <1>4 DEF IInv, Typed, TurnFailed
<1>6. Counted' BY <1>4 DEF IInv, Counted, TurnFailed
<1>7. Unborn' BY <1>1 DEF IInv, Unborn, TurnFailed
<1>8. Manned' BY <1>3, <1>4 DEF IInv, Manned, TurnFailed
<1>9. Sounded' BY <1>3 DEF IInv, Sounded, Stopped, TurnFailed
<1>10. Heard' BY <1>3, <1>4 DEF IInv, Heard, Stopped, TurnFailed
<1>11. Owned' BY <1>3 DEF IInv, Owned, TurnFailed
<1>12. Tooled' BY <1>1 DEF IInv, Tooled, TurnFailed
<1> QED BY <1>5, <1>6, <1>7, <1>8, <1>9, <1>10, <1>11, <1>12 DEF IInv

LEMMA NetMovesGood ==
  ASSUME IInv, NEW place \in {"poll", "leave"}, NetGoto(place),
         net.pc \in {"connect", "queue", "poll"}, place = "leave" => Stopped,
         UNCHANGED <<f, mic, inbox, view, impl, handles, captured, produced, consumed, audio, calls,
                     work, gw, server, posts>>
  PROVE IInv'
<1>1. UNCHANGED <<impl, handles, f, mic, captured, produced, consumed, audio, calls, work, gw,
                  inbox, server, posts, view>>
  OBVIOUS
<1>2. net' \in Nets /\ net'.pc = place /\ net'.ended = net.ended /\ net'.sent = net.sent
  BY DEF NetGoto, IInv, Typed, Nets
<1>3. Typed' BY <1>2 DEF IInv, Typed
<1>4. Counted' BY <1>2 DEF IInv, Counted
<1>5. Unborn' BY <1>1 DEF IInv, Unborn
<1>6. Manned' BY <1>2 DEF IInv, Manned
<1>7. Sounded' BY <1>1 DEF IInv, Sounded, Stopped, Drained
<1>8. Heard' BY <1>2 DEF IInv, Heard, Stopped
<1>9. Owned' BY <1>1 DEF IInv, Owned
<1>10. Tooled' BY <1>1 DEF IInv, Tooled
<1> QED BY <1>3, <1>4, <1>5, <1>6, <1>7, <1>8, <1>9, <1>10 DEF IInv

LEMMA NetConnectGood == ASSUME IInv, NetConnect PROVE IInv'
<1>1. net.pc = "connect" /\ UNCHANGED <<impl, handles, captured, produced, consumed, audio, calls,
                                        work, gw, inbox, server, posts>>
  BY DEF NetConnect
<1>2. inbox \in Seq(Events) BY DEF IInv, Typed
<1>3. CASE NetFails BY <1>1, <1>2, <1>3, NetFailsGood
<1>4. CASE NetGoto("poll") /\ UNCHANGED <<f, mic, view>>
  BY <1>1, <1>4, NetMovesGood
<1>5. CASE NetGoto("leave") /\ Stopped /\ UNCHANGED <<f, mic, view>>
  BY <1>1, <1>5, NetMovesGood
<1> QED BY <1>3, <1>4, <1>5 DEF NetConnect

LEMMA NetEmptyGood == ASSUME IInv, NetEmpty PROVE IInv'
<1>1. inbox \in Seq(Events) BY DEF IInv, Typed
<1> QED BY <1>1, NetFailsGood DEF NetEmpty

LEMMA NetBreaksGood == ASSUME IInv, NetBreaks PROVE IInv'
<1>1. inbox \in Seq(Events) BY DEF IInv, Typed
<1> QED BY <1>1, NetFailsGood DEF NetBreaks, Talking

LEMMA QueueRoomGood ==
  ASSUME IInv, NetQueue, Room, produced' = produced + 1,
         net' = [net EXCEPT !.pc = "poll", !.response = TRUE], UNCHANGED <<f, mic, view>>
  PROVE IInv'
<1>1. UNCHANGED <<impl, handles, f, mic, captured, consumed, audio, calls, work, gw, inbox,
                  server, posts, view>>
  BY DEF NetQueue
<1>2. net.pc = "queue" BY DEF NetQueue
<1>3. net' \in Nets /\ net'.pc = "poll" /\ net'.ended = net.ended /\ net'.sent = net.sent
  BY DEF IInv, Typed, Nets
<1>4. produced' \in Nat /\ consumed <= produced' /\ produced' - consumed <= Output
  BY BlocksAssumption DEF Room, Available, IInv, Typed, Counted
<1>5. Typed' BY <1>1, <1>3 DEF IInv, Typed
<1>6. Counted' BY <1>1, <1>4 DEF IInv, Counted
<1>7. Unborn' BY <1>1, <1>2 DEF IInv, Unborn
<1>8. Manned' BY <1>1, <1>2 DEF IInv, Manned
<1>9. Sounded' BY <1>1, <1>2 DEF IInv, Sounded, Stopped, Drained
<1>10. Heard' BY <1>1 DEF IInv, Heard
<1>11. Owned' BY <1>2 DEF IInv, Owned
<1>12. Tooled' BY <1>1 DEF IInv, Tooled
<1> QED BY <1>5, <1>6, <1>7, <1>8, <1>9, <1>10, <1>11, <1>12 DEF IInv

LEMMA NetQueueGood == ASSUME IInv, NetQueue PROVE IInv'
<1>1. net.pc = "queue" /\ UNCHANGED <<impl, handles, captured, consumed, audio, calls, work, gw,
                                      inbox, server, posts>>
  BY DEF NetQueue
<1>2. inbox \in Seq(Events) BY DEF IInv, Typed
<1>3. CASE NetGoto("poll") /\ UNCHANGED <<f, mic, view, produced>>
  BY <1>1, <1>3, NetMovesGood
<1>4. CASE NetFails /\ UNCHANGED produced
  BY <1>1, <1>2, <1>4, NetFailsGood
<1>5. CASE /\ Room /\ produced' = produced + 1
           /\ net' = [net EXCEPT !.pc = "poll", !.response = TRUE] /\ UNCHANGED <<f, mic, view>>
  BY <1>5, QueueRoomGood
<1> QED BY <1>3, <1>4, <1>5 DEF NetQueue

LEMMA SendBlockGood ==
  ASSUME IInv, NetSend, ~Stopped, NEW n \in 0..1, n <= captured - net.sent,
         net' = [net EXCEPT !.pc = "rest", !.sent = @ + n] PROVE IInv'
<1>1. UNCHANGED <<impl, handles, f, mic, captured, produced, consumed, audio, calls, work, gw,
                  inbox, server, posts, view>>
  BY DEF NetSend
<1>2. net.pc = "poll" /\ ~Stopped BY DEF NetSend
<1>3. net \in Nets /\ net.sent + n \in Nat BY DEF IInv, Typed, Nets
<1>4. net' \in Nets /\ net'.pc = "rest" /\ net'.ended = net.ended /\ net'.sent = net.sent + n
  BY <1>3 DEF Nets
<1>5. net.sent \in Nat /\ captured \in Nat /\ net.sent + n <= captured /\ (net.ended => n = 0)
  BY <1>3 DEF IInv, Typed, Nets, Counted, Heard
<1>6. Typed' BY <1>1, <1>4 DEF IInv, Typed
<1>7. Counted' BY <1>1, <1>5 DEF IInv, Counted
<1>8. Unborn' BY <1>1, <1>2 DEF IInv, Unborn
<1>9. Manned' BY <1>1, <1>2 DEF IInv, Manned
<1>10. Sounded' BY <1>1, <1>2 DEF IInv, Sounded, Drained
<1>11. Heard' BY <1>1, <1>5 DEF IInv, Heard
<1>12. Owned' BY <1>1, <1>2 DEF IInv, Owned
<1>13. Tooled' BY <1>1 DEF IInv, Tooled
<1> QED BY <1>6, <1>7, <1>8, <1>9, <1>10, <1>11, <1>12, <1>13 DEF IInv

LEMMA NetSendGood == ASSUME IInv, NetSend PROVE IInv'
<1>1. CASE Stopped /\ NetGoto("leave")
  BY <1>1, NetMovesGood DEF NetSend
<1>2. CASE ~Stopped
  BY <1>2, SendBlockGood DEF NetSend
<1> QED BY <1>1, <1>2 DEF NetSend

LEMMA ReceiveAudioGood ==
  ASSUME IInv, NetReceive, net' = [net EXCEPT !.complete = FALSE, !.pc = "queue"],
         UNCHANGED <<f, mic, view, calls, work>> PROVE IInv'
<1>1. UNCHANGED <<impl, handles, f, mic, captured, produced, consumed, audio, calls, work, gw,
                  server, posts, view>>
  BY DEF NetReceive
<1>2. net.pc = "poll" /\ ~Stopped /\ inbox # <<>> /\ inbox' = Tail(inbox) BY DEF NetReceive
<1>3. net' \in Nets /\ net'.pc = "queue" /\ net'.ended = net.ended /\ net'.sent = net.sent
  BY <1>2 DEF IInv, Typed, Nets
<1>4. Typed' BY <1>1, <1>2, <1>3 DEF IInv, Typed
<1>5. Counted' BY <1>1 DEF IInv, Counted
<1>6. Unborn' BY <1>1, <1>2 DEF IInv, Unborn
<1>7. Manned' BY <1>1, <1>2 DEF IInv, Manned
<1>8. Sounded' BY <1>1, <1>2 DEF IInv, Sounded, Drained
<1>9. Heard' BY <1>1 DEF IInv, Heard
<1>10. Owned' BY <1>2 DEF IInv, Owned
<1>11. Tooled' BY <1>1 DEF IInv, Tooled
<1> QED BY <1>4, <1>5, <1>6, <1>7, <1>8, <1>9, <1>10, <1>11 DEF IInv

LEMMA ReceiveTextGood ==
  ASSUME IInv, NetReceive, net' = [net EXCEPT !.complete = FALSE, !.response = TRUE],
         UNCHANGED <<f, mic, view, calls, work>> PROVE IInv'
<1>1. UNCHANGED <<impl, handles, f, mic, captured, produced, consumed, audio, calls, work, gw,
                  server, posts, view>>
  BY DEF NetReceive
<1>2. net.pc = "poll" /\ ~Stopped /\ inbox # <<>> /\ inbox' = Tail(inbox) BY DEF NetReceive
<1>3. net' \in Nets /\ net'.pc = "poll" /\ net'.ended = net.ended /\ net'.sent = net.sent
  BY <1>2 DEF IInv, Typed, Nets
<1>4. Typed' BY <1>1, <1>2, <1>3 DEF IInv, Typed
<1>5. Counted' BY <1>1 DEF IInv, Counted
<1>6. Unborn' BY <1>1 DEF IInv, Unborn
<1>7. Manned' BY <1>1 DEF IInv, Manned
<1>8. Sounded' BY <1>1, <1>2 DEF IInv, Sounded, Drained
<1>9. Heard' BY <1>1, <1>2 DEF IInv, Heard
<1>10. Owned' BY <1>1 DEF IInv, Owned
<1>11. Tooled' BY <1>1 DEF IInv, Tooled
<1> QED BY <1>4, <1>5, <1>6, <1>7, <1>8, <1>9, <1>10, <1>11 DEF IInv

LEMMA ReceiveCompleteGood ==
  ASSUME IInv, NetReceive, net' = [net EXCEPT !.complete = TRUE],
         UNCHANGED <<f, mic, view, calls, work>> PROVE IInv'
<1>1. UNCHANGED <<impl, handles, f, mic, captured, produced, consumed, audio, calls, work, gw,
                  server, posts, view>>
  BY DEF NetReceive
<1>2. net.pc = "poll" /\ ~Stopped /\ inbox # <<>> /\ inbox' = Tail(inbox) BY DEF NetReceive
<1>3. net' \in Nets /\ net'.pc = "poll" /\ net'.ended = net.ended /\ net'.sent = net.sent
  BY <1>2 DEF IInv, Typed, Nets
<1>4. Typed' BY <1>1, <1>2, <1>3 DEF IInv, Typed
<1>5. Counted' BY <1>1 DEF IInv, Counted
<1>6. Unborn' BY <1>1 DEF IInv, Unborn
<1>7. Manned' BY <1>1 DEF IInv, Manned
<1>8. Sounded' BY <1>1, <1>2 DEF IInv, Sounded, Drained
<1>9. Heard' BY <1>1, <1>2 DEF IInv, Heard
<1>10. Owned' BY <1>1 DEF IInv, Owned
<1>11. Tooled' BY <1>1 DEF IInv, Tooled
<1> QED BY <1>4, <1>5, <1>6, <1>7, <1>8, <1>9, <1>10, <1>11 DEF IInv

LEMMA ReceiveCallGood ==
  ASSUME IInv, NetReceive, NEW id \in Ids, Called(id), UNCHANGED <<f, mic, view, net, work>>
  PROVE IInv'
<1>1. UNCHANGED <<impl, handles, f, mic, captured, produced, consumed, audio, net, work, gw,
                  server, posts, view>>
  BY DEF NetReceive
<1>2. net.pc = "poll" /\ ~Stopped /\ inbox # <<>> /\ inbox' = Tail(inbox) BY DEF NetReceive
<1>3. calls[id] \in Calls BY DEF IInv, Typed
<1>4. calls' \in [Ids -> Calls] /\ calls'[id].cancelled = calls[id].cancelled
      /\ calls'[id].submitted = calls[id].submitted
      /\ (~calls'[id].known => ~calls[id].known)
      /\ (calls'[id].result.code \in {"never", "rejected"} => ~calls[id].submitted)
      /\ \A i \in Ids \ {id} : calls'[i] = calls[i]
  <2>1. CASE calls[id].known /\ calls' = [calls EXCEPT ![id].sent = FALSE]
    <3>1. [calls[id] EXCEPT !.sent = FALSE] \in Calls BY <1>3 DEF Calls
    <3>2. calls' = [calls EXCEPT ![id] = [calls[id] EXCEPT !.sent = FALSE]] BY <2>1, Zenon
    <3> DEFINE new == [calls[id] EXCEPT !.sent = FALSE]
    <3>3. new.cancelled = calls[id].cancelled /\ new.submitted = calls[id].submitted
          /\ new.known = calls[id].known /\ new.result = calls[id].result
      BY <1>3 DEF Calls
    <3> HIDE DEF new
    <3> QED BY <3>1, <3>2, <3>3 DEF new, IInv, Typed, Tooled
  <2>2. CASE /\ ~calls[id].known
             /\ \E result \in {NoResult, Result("rejected", 0)} :
                  calls' = [calls EXCEPT ![id].known = TRUE, ![id].result = result]
    <3>1. PICK result \in {NoResult, Result("rejected", 0)} :
            calls' = [calls EXCEPT ![id].known = TRUE, ![id].result = result]
      BY <2>2
    <3>2. result \in Results BY <3>1, WorkTypes
    <3> DEFINE new == [calls[id] EXCEPT !.known = TRUE, !.result = result]
    <3>3. new \in Calls /\ new.cancelled = calls[id].cancelled
          /\ new.submitted = calls[id].submitted /\ new.known
      BY <1>3, <3>2 DEF Calls
    <3>4. calls' = [calls EXCEPT ![id] = new] BY <1>3, <3>1 DEF IInv, Typed, Calls
    <3> HIDE DEF new
    <3> QED BY <2>2, <3>3, <3>4 DEF IInv, Typed, Tooled
  <2> QED BY <2>1, <2>2, Zenon DEF Called
<1>5. Typed' BY <1>1, <1>2, <1>4 DEF IInv, Typed
<1>6. Counted' BY <1>1 DEF IInv, Counted
<1>7. Unborn' BY <1>1 DEF IInv, Unborn
<1>8. Manned' BY <1>1 DEF IInv, Manned
<1>9. Sounded' BY <1>1, <1>2 DEF IInv, Sounded, Drained
<1>10. Heard' BY <1>1, <1>2 DEF IInv, Heard
<1>11. Owned' BY <1>1 DEF IInv, Owned
<1>12. Tooled' BY <1>1, <1>4 DEF IInv, Tooled
<1> QED BY <1>5, <1>6, <1>7, <1>8, <1>9, <1>10, <1>11, <1>12 DEF IInv

LEMMA ReceiveCancelGood ==
  ASSUME IInv, NetReceive, NEW id \in Ids, calls' = [calls EXCEPT ![id].cancelled = TRUE],
         work' = [work EXCEPT !.cancelled =
                    @ \/ (calls[id].submitted /\ work.state # "empty" /\ work.index = id)],
         UNCHANGED <<f, mic, view, net>> PROVE IInv'
<1>1. UNCHANGED <<impl, handles, f, mic, captured, produced, consumed, audio, net, gw, server,
                  posts, view>>
  BY DEF NetReceive
<1>2. net.pc = "poll" /\ ~Stopped /\ inbox # <<>> /\ inbox' = Tail(inbox) BY DEF NetReceive
<1>3. calls' \in [Ids -> Calls] /\ calls'[id].submitted = calls[id].submitted
      /\ calls'[id].known = calls[id].known /\ calls'[id].result = calls[id].result
      /\ \A i \in Ids \ {id} : calls'[i] = calls[i]
  <2> DEFINE new == [calls[id] EXCEPT !.cancelled = TRUE]
  <2>1. calls[id] \in Calls BY DEF IInv, Typed
  <2>2. new \in Calls /\ new.submitted = calls[id].submitted /\ new.known = calls[id].known
        /\ new.result = calls[id].result
    BY <2>1 DEF Calls
  <2>3. calls' = [calls EXCEPT ![id] = new] BY Zenon
  <2> HIDE DEF new
  <2> QED BY <2>2, <2>3 DEF IInv, Typed
<1>4. (work.cancelled \/ (calls[id].submitted /\ work.state # "empty" /\ work.index = id))
        \in BOOLEAN
  OBVIOUS
<1>5. PICK told \in BOOLEAN :
        /\ work' = [work EXCEPT !.cancelled = told]
        /\ told <=> work.cancelled
                      \/ (calls[id].submitted /\ work.state # "empty" /\ work.index = id)
  BY <1>4, Zenon
<1>6. work' \in Works /\ work'.state = work.state /\ work'.index = work.index
      /\ work'.result = work.result /\ work'.cancelled = told
  BY <1>5 DEF IInv, Typed, Works
<1>7. Typed' BY <1>1, <1>2, <1>3, <1>6 DEF IInv, Typed
<1>8. Counted' BY <1>1 DEF IInv, Counted
<1>9. Unborn' BY <1>1 DEF IInv, Unborn
<1>10. Manned' BY <1>1 DEF IInv, Manned
<1>11. Sounded' BY <1>1, <1>2 DEF IInv, Sounded, Drained
<1>12. Heard' BY <1>1, <1>2 DEF IInv, Heard
<1>13. Owned' BY <1>1 DEF IInv, Owned
<1>14. Tooled' BY <1>1, <1>5 DEF IInv, Tooled
<1> QED BY <1>7, <1>8, <1>9, <1>10, <1>11, <1>12, <1>13, <1>14 DEF IInv

LEMMA ReceiveCloseGood ==
  ASSUME IInv, NetReceive, ClosedWhole, f' = [f EXCEPT !.responseReady = TRUE], NetGoto("leave"),
         UNCHANGED <<mic, view, calls, work>> PROVE IInv'
<1>1. UNCHANGED <<impl, handles, mic, captured, produced, consumed, audio, calls, work, gw,
                  server, posts, view>>
  BY DEF NetReceive
<1>2. net.pc = "poll" /\ ~Stopped /\ inbox # <<>> /\ inbox' = Tail(inbox) BY DEF NetReceive
<1>3. FlagsKept BY DEF FlagsKept, IInv, Typed, Flags
<1>4. net' \in Nets /\ net'.pc = "leave" /\ net'.ended = net.ended /\ net'.sent = net.sent
      /\ net'.complete = net.complete /\ net'.response = net.response
  BY DEF NetGoto, IInv, Typed, Nets
<1>5. Typed' BY <1>1, <1>2, <1>3, <1>4 DEF IInv, Typed, FlagsKept
<1>6. Counted' BY <1>1, <1>4 DEF IInv, Counted, FlagsKept
<1>7. Unborn' BY <1>1, <1>2 DEF IInv, Unborn, FlagsKept
<1>8. Manned' BY <1>1, <1>2, <1>4 DEF IInv, Manned, FlagsKept
<1>9. Sounded' BY <1>1, <1>2 DEF IInv, Sounded, Drained, FlagsKept
<1>10. Heard' BY <1>1, <1>4 DEF IInv, Heard, LeftWhole, Pending, ClosedWhole, FlagsKept
<1>11. Owned' BY <1>2 DEF IInv, Owned, FlagsKept
<1>12. Tooled' BY <1>1 DEF IInv, Tooled, FlagsKept
<1> QED BY <1>5, <1>6, <1>7, <1>8, <1>9, <1>10, <1>11, <1>12 DEF IInv

LEMMA NetReceiveGood == ASSUME IInv, NetReceive PROVE IInv'
<1> DEFINE event == Head(inbox)
<1>1. net.pc = "poll" /\ inbox # <<>> /\ inbox' = Tail(inbox)
      /\ UNCHANGED <<impl, handles, captured, produced, consumed, audio, gw, server, posts>>
  BY DEF NetReceive
<1>2. event \in Events /\ inbox' \in Seq(Events) BY <1>1 DEF IInv, Typed
<1>3. event.type \in {"call", "cancel"} => event.id \in Ids BY <1>2 DEF Events
<1>4. CASE event.type = "audio"
  BY <1>4, ReceiveAudioGood, Zenon DEF NetReceive
<1>5. CASE event.type = "text"
  BY <1>5, ReceiveTextGood, Zenon DEF NetReceive
<1>6. CASE event.type = "complete"
  BY <1>6, ReceiveCompleteGood, Zenon DEF NetReceive
<1>7. CASE event.type = "call"
  BY <1>3, <1>7, ReceiveCallGood, Zenon DEF NetReceive
<1>8. CASE event.type = "cancel"
  BY <1>3, <1>8, ReceiveCancelGood, Zenon DEF NetReceive
<1>9. CASE event.type = "close" /\ NetFails /\ UNCHANGED <<calls, work>>
  BY <1>1, <1>2, <1>9, NetFailsGood
<1>10. CASE event.type = "close" /\ ~NetFails
  BY <1>10, ReceiveCloseGood, Zenon DEF NetReceive
<1> QED BY <1>2, <1>4, <1>5, <1>6, <1>7, <1>8, <1>9, <1>10 DEF NetReceive, Events

LEMMA NetLeaveGood ==
  ASSUME IInv, NetLeave PROVE IInv'
<1>1. UNCHANGED <<impl, handles, captured, produced, consumed, audio, calls, work, gw, inbox,
                  server, posts>>
  BY DEF NetLeave
<1>2. net.pc = "leave" BY DEF NetLeave
<1>3. net' \in Nets /\ net'.pc = "close" /\ net'.ended = net.ended /\ net'.sent = net.sent
      /\ net'.complete = net.complete /\ net'.response = net.response
  BY DEF NetLeave, IInv, Typed, Nets
<1>4. IF f.late /\ ~f.failed /\ ~f.cancelled THEN TurnFailed
      ELSE FlagsKept /\ UNCHANGED <<mic, view>>
  <2> DEFINE fs == [f EXCEPT !.workerStop = TRUE]
  <2>1. Typed /\ fs \in Flags /\ fs.cancelled = f.cancelled /\ fs.late = f.late
        /\ fs.captureDone = f.captureDone /\ fs.networkDone = f.networkDone
    BY DEF IInv, Typed, Flags
  <2>2. CASE f.late /\ ~f.cancelled /\ ~f.failed
    <3>1. FailWith(fs) BY <2>2 DEF NetLeave
    <3> HIDE DEF fs
    <3> QED BY <2>1, <2>2, <3>1, FailFacts, Zenon
  <2>3. CASE ~(f.late /\ ~f.cancelled /\ ~f.failed)
    BY <2>3 DEF NetLeave, FlagsKept, IInv, Typed, Flags
  <2> QED BY <2>2, <2>3
<1>5. Typed' BY <1>1, <1>3, <1>4 DEF IInv, Typed, FlagsKept, TurnFailed
<1>6. Counted' BY <1>1, <1>3 DEF IInv, Counted, FlagsKept, TurnFailed
<1>7. Unborn' BY <1>1, <1>2 DEF IInv, Unborn, FlagsKept, TurnFailed
<1>8. Manned' BY <1>1, <1>2, <1>3, <1>4 DEF IInv, Manned, FlagsKept, TurnFailed
<1>9. Sounded' BY <1>1, <1>2, <1>4 DEF IInv, Sounded, Stopped, Drained, FlagsKept, TurnFailed
<1>10. Heard'
  BY <1>1, <1>2, <1>3, <1>4 DEF IInv, Heard, Stopped, LeftWhole, Pending, FlagsKept, TurnFailed
<1>11. Owned' BY <1>2, <1>4 DEF IInv, Owned, FlagsKept, TurnFailed
<1>12. Tooled' BY <1>1 DEF IInv, Tooled, FlagsKept, TurnFailed
<1> QED BY <1>5, <1>6, <1>7, <1>8, <1>9, <1>10, <1>11, <1>12 DEF IInv

LEMMA NetCloseGood ==
  ASSUME IInv, NetClose PROVE IInv'
<1>1. UNCHANGED <<impl, handles, mic, captured, produced, consumed, audio, calls, work, gw,
                  posts, view>>
  BY DEF NetClose
<1>2. net.pc = "close" BY DEF NetClose
<1>3. net' \in Nets /\ net'.pc = "suspended" /\ net'.ended = net.ended /\ net'.sent = net.sent
      /\ net'.complete = net.complete /\ net'.response = net.response
  BY DEF NetClose, NetGoto, IInv, Typed, Nets
<1>4. f' \in Flags /\ f'.failed = f.failed /\ f'.cancelled = f.cancelled /\ f'.late = f.late
      /\ f'.captureDone = f.captureDone /\ f'.networkDone
  BY DEF NetClose, IInv, Typed, Flags
<1>5. inbox' \in Seq(Events) /\ server' \in Servers BY NoneTypes DEF NetClose
<1>6. Typed' BY <1>1, <1>3, <1>4, <1>5 DEF IInv, Typed
<1>7. Counted' BY <1>1, <1>3 DEF IInv, Counted
<1>8. Unborn' BY <1>1, <1>2 DEF IInv, Unborn
<1>9. Manned' BY <1>1, <1>2, <1>3, <1>4 DEF IInv, Manned
<1>10. Sounded' BY <1>1, <1>3, <1>4 DEF IInv, Sounded, Stopped, Drained
<1>11. Heard' BY <1>1, <1>2, <1>3, <1>4 DEF IInv, Heard, LeftWhole, Pending
<1>12. Owned' BY <1>1, <1>2 DEF IInv, Owned
<1>13. Tooled' BY <1>1 DEF IInv, Tooled
<1> QED BY <1>6, <1>7, <1>8, <1>9, <1>10, <1>11, <1>12, <1>13 DEF IInv

\* What NetTools makes of the calls, for the proofs of its parts.
Kept(cs) ==
  /\ cs \in [Ids -> Calls]
  /\ \A i \in Ids : /\ cs[i].known = calls[i].known /\ cs[i].cancelled = calls[i].cancelled
                    /\ cs[i].submitted = calls[i].submitted /\ cs[i].sent = calls[i].sent

LEMMA CollectedKept ==
  ASSUME IInv
  PROVE  /\ Kept(Collected)
         /\ \A i \in Ids : Collected[i].result = calls[i].result
                           \/ Collected[i].result.code \in {"unsent", "unknown", "answered"}
<1>1. CASE work.state = "complete"
  <2> DEFINE new == [calls[work.index] EXCEPT !.result = work.result]
  <2>1. work.index \in Ids /\ work.result \in Results /\ calls[work.index] \in Calls
        /\ work.result.code \in {"unsent", "unknown", "answered"}
    BY <1>1 DEF IInv, Typed, Tooled, Works
  <2>2. Collected = [calls EXCEPT ![work.index] = new] BY <1>1, Zenon DEF Collected
  <2>3. /\ new \in Calls /\ new.known = calls[work.index].known
        /\ new.cancelled = calls[work.index].cancelled /\ new.sent = calls[work.index].sent
        /\ new.submitted = calls[work.index].submitted /\ new.result = work.result
    BY <2>1 DEF Calls
  <2> HIDE DEF new
  <2> QED BY <2>1, <2>2, <2>3 DEF Kept, IInv, Typed
<1>2. CASE work.state # "complete"
  BY <1>2 DEF Collected, Kept, IInv, Typed
<1> QED BY <1>1, <1>2

LEMMA RefusedCall ==
  ASSUME NEW call \in Calls
  PROVE  /\ Refused(call) \in Calls
         /\ Refused(call).known = call.known /\ Refused(call).cancelled = call.cancelled
         /\ Refused(call).submitted = call.submitted /\ Refused(call).sent = call.sent
         /\ \/ Refused(call).result = call.result
            \/ Refused(call).result.code = "never" /\ ~call.submitted
         /\ Refused(call).result = NoResult /\ call.known /\ call.cancelled => call.submitted
<1>1. Result("never", 0) \in Results /\ Result("never", 0).code = "never"
      /\ Result("never", 0) # NoResult
  BY WorkTypes DEF Result, NoResult
<1> DEFINE never == [call EXCEPT !.result = Result("never", 0)]
<1>2. never \in Calls /\ never.known = call.known /\ never.cancelled = call.cancelled
      /\ never.submitted = call.submitted /\ never.sent = call.sent
      /\ never.result = Result("never", 0)
  BY <1>1 DEF Calls
<1>3. CASE call.known /\ call.cancelled /\ ~call.submitted /\ call.result = NoResult
  <2>1. Refused(call) = never BY <1>3, Zenon DEF Refused
  <2> HIDE DEF never
  <2> QED BY <1>1, <1>2, <1>3, <2>1
<1>4. CASE ~(call.known /\ call.cancelled /\ ~call.submitted /\ call.result = NoResult)
  <2>1. Refused(call) = call BY <1>4, Zenon DEF Refused
  <2> QED BY <1>4, <2>1
<1> QED BY <1>3, <1>4

\* The calls after a round: each keeps what it was but for the result and the
\* answer, and the one that is submitted had none.
Round(next) ==
  LET refused  == [i \in Ids |-> Refused(Collected[i])]
      answered == Answered(refused)
  IN calls' = [i \in Ids |-> [answered[i] EXCEPT !.submitted = @ \/ i \in next]]

Untouched(i) ==
  /\ calls'[i].known = calls[i].known /\ calls'[i].cancelled = calls[i].cancelled
  /\ \/ calls'[i].result = calls[i].result
     \/ calls'[i].result.code \in {"unsent", "unknown", "answered"}
     \/ calls'[i].result.code = "never" /\ ~calls[i].submitted

LEMMA RoundFacts ==
  ASSUME IInv, NEW next \in SUBSET Ids, Round(next),
         \A i \in next : /\ calls[i].known /\ ~calls[i].submitted
                         /\ Refused(Collected[i]).result = NoResult
  PROVE  /\ calls' \in [Ids -> Calls]
         /\ \A i \in Ids : /\ Untouched(i)
                           /\ calls'[i].submitted <=> calls[i].submitted \/ i \in next
         /\ \A i \in next : calls'[i].result = NoResult /\ ~calls[i].cancelled
<1> DEFINE refused  == [i \in Ids |-> Refused(Collected[i])]
           answered == Answered(refused)
<1>1. ASSUME NEW i \in Ids
      PROVE  /\ calls'[i] \in Calls /\ Untouched(i)
             /\ calls'[i].submitted <=> calls[i].submitted \/ i \in next
             /\ calls'[i].result = Refused(Collected[i]).result
             /\ i \in next => ~calls[i].cancelled
  <2> DEFINE call == Collected[i]
  <2>1. /\ call \in Calls /\ call.known = calls[i].known /\ call.cancelled = calls[i].cancelled
        /\ call.submitted = calls[i].submitted
        /\ call.result = calls[i].result \/ call.result.code \in {"unsent", "unknown", "answered"}
    BY CollectedKept DEF Kept
  <2> HIDE DEF call
  <2> DEFINE ref == Refused(call)
  <2>2. /\ ref \in Calls /\ ref.known = call.known /\ ref.cancelled = call.cancelled
        /\ ref.submitted = call.submitted
        /\ ref.result = call.result \/ (ref.result.code = "never" /\ ~call.submitted)
        /\ ref.result = NoResult /\ call.known /\ call.cancelled => call.submitted
    BY <2>1, RefusedCall
  <2>3. answered[i] = [ref EXCEPT !.sent = ref.sent \/ ref.result # NoResult]
    BY Zenon DEF Answered, ref, call
  <2>4. calls'[i] = [answered[i] EXCEPT !.submitted = answered[i].submitted \/ i \in next]
    BY Zenon DEF Round
  <2> HIDE DEF ref, answered
  <2>5. (ref.sent \/ ref.result # NoResult) \in BOOLEAN /\ (i \in next) \in BOOLEAN OBVIOUS
  <2>6. PICK sent \in BOOLEAN : answered[i] = [ref EXCEPT !.sent = sent]
    BY <2>3, <2>5, Zenon
  <2>7. /\ answered[i] \in Calls /\ answered[i].known = ref.known
        /\ answered[i].cancelled = ref.cancelled /\ answered[i].submitted = ref.submitted
        /\ answered[i].result = ref.result
    BY <2>2, <2>6 DEF Calls
  <2>8. (answered[i].submitted \/ i \in next) \in BOOLEAN OBVIOUS
  <2>9. PICK submitted \in BOOLEAN :
          /\ calls'[i] = [answered[i] EXCEPT !.submitted = submitted]
          /\ submitted <=> answered[i].submitted \/ i \in next
    BY <2>4, <2>8, Zenon
  <2>10. /\ calls'[i] \in Calls /\ calls'[i].known = ref.known
         /\ calls'[i].cancelled = ref.cancelled /\ calls'[i].submitted = submitted
         /\ calls'[i].result = ref.result
    BY <2>7, <2>9 DEF Calls
  <2>11. ref.result = Refused(Collected[i]).result BY DEF ref, call
  <2>12. Untouched(i) BY <2>1, <2>2, <2>10 DEF Untouched
  <2>13. i \in next => ~calls[i].cancelled BY <2>1, <2>2, <2>11
  <2>14. calls'[i].submitted <=> calls[i].submitted \/ i \in next
    BY <2>1, <2>2, <2>7, <2>9, <2>10
  <2> QED BY <2>10, <2>11, <2>12, <2>13, <2>14
<1>2. calls' \in [Ids -> Calls]
  <2>1. calls' = [i \in Ids |-> calls'[i]] BY Zenon DEF Round
  <2> QED BY <1>1, <2>1
<1> QED BY <1>1, <1>2

LEMMA ToolsRound ==
  ASSUME IInv, NetTools
  PROVE  \E next \in SUBSET Ids, complete \in BOOLEAN :
        /\ Round(next)
        /\ \A i \in next : /\ calls[i].known /\ ~calls[i].submitted
                           /\ Refused(Collected[i]).result = NoResult
                           /\ work.state \in {"empty", "complete"}
        /\ work' = CASE next # {} ->
                          [NoWork EXCEPT !.state = "pending", !.index = CHOOSE i \in next : TRUE]
                     [] next = {} /\ work.state = "complete" -> NoWork
                     [] OTHER -> work
        /\ \/ /\ Ended /\ complete /\ net.response /\ ~Pending' /\ work'.state = "empty"
              /\ net' = [net EXCEPT !.pc = "leave", !.ended = Ended, !.complete = complete]
              /\ f' = [f EXCEPT !.responseReady = TRUE] /\ UNCHANGED <<mic, view>>
           \/ /\ Fail
              /\ net' = [net EXCEPT !.pc = "leave", !.ended = Ended, !.complete = complete]
           \/ /\ net' = [net EXCEPT !.pc = "poll", !.ended = Ended, !.complete = complete]
              /\ UNCHANGED <<f, mic, view>>
<1> DEFINE refused  == [i \in Ids |-> Refused(Collected[i])]
           answered == Answered(refused)
           next     == {i \in Ids : Submittable(refused, i)
                                      /\ \A j \in 1..(i - 1) : ~Submittable(refused, j)}
           complete == net.complete /\ \A i \in Ids : answered[i].sent => calls[i].sent
           pending  == \E i \in Ids : answered[i].known /\ ~answered[i].sent
<1>1. next \in SUBSET Ids /\ complete \in BOOLEAN OBVIOUS
<1>2. Round(next) BY Zenon DEF NetTools, Round
<1>3. ASSUME NEW i \in next
      PROVE  /\ calls[i].known /\ ~calls[i].submitted
             /\ Refused(Collected[i]).result = NoResult /\ work.state \in {"empty", "complete"}
  <2>1. i \in Ids /\ Submittable(refused, i) BY <1>3
  <2>2. Collected[i] \in Calls /\ Collected[i].known = calls[i].known
        /\ Collected[i].submitted = calls[i].submitted
    BY <2>1, CollectedKept DEF Kept
  <2>3. Refused(Collected[i]).known = calls[i].known
        /\ Refused(Collected[i]).submitted = calls[i].submitted
    BY <2>2, RefusedCall
  <2>4. refused[i] = Refused(Collected[i]) BY <2>1
  <2> QED BY <2>1, <2>3, <2>4 DEF Submittable
<1>4. ASSUME NEW i \in Ids
      PROVE  calls'[i].known = answered[i].known /\ calls'[i].sent = answered[i].sent
  <2>1. Collected[i] \in Calls BY CollectedKept DEF Kept
  <2>2. refused[i] \in Calls BY <2>1, RefusedCall
  <2>3. answered[i] = [refused[i] EXCEPT !.sent = refused[i].sent \/ refused[i].result # NoResult]
    BY Zenon DEF Answered
  <2>4. calls'[i] = [answered[i] EXCEPT !.submitted = answered[i].submitted \/ i \in next]
    BY <1>2, Zenon DEF Round
  <2> HIDE DEF refused, answered, next
  <2>5. (refused[i].sent \/ refused[i].result # NoResult) \in BOOLEAN
        /\ (answered[i].submitted \/ i \in next) \in BOOLEAN
    OBVIOUS
  <2>6. PICK sent \in BOOLEAN : answered[i] = [refused[i] EXCEPT !.sent = sent]
    BY <2>3, <2>5, Zenon
  <2>7. PICK submitted \in BOOLEAN : calls'[i] = [answered[i] EXCEPT !.submitted = submitted]
    BY <2>4, <2>5, Zenon
  <2> QED BY <2>2, <2>6, <2>7 DEF Calls
<1>5. Pending' <=> pending BY <1>4, Zenon DEF Pending
<1>6. work' = CASE next # {} ->
                    [NoWork EXCEPT !.state = "pending", !.index = CHOOSE i \in next : TRUE]
                [] next = {} /\ work.state = "complete" -> NoWork
                [] OTHER -> work
  BY Zenon DEF NetTools
<1>7. \/ /\ Whole(complete, pending, work'.state)
         /\ net' = [net EXCEPT !.pc = "leave", !.ended = Ended, !.complete = complete]
         /\ f' = [f EXCEPT !.responseReady = TRUE] /\ UNCHANGED <<mic, view>>
      \/ /\ Fail
         /\ net' = [net EXCEPT !.pc = "leave", !.ended = Ended, !.complete = complete]
      \/ /\ net' = [net EXCEPT !.pc = "poll", !.ended = Ended, !.complete = complete]
         /\ UNCHANGED <<f, mic, view>>
  BY Zenon DEF NetTools
<1> HIDE DEF next, complete, pending
<1>8. \/ /\ Ended /\ complete /\ net.response /\ ~Pending' /\ work'.state = "empty"
         /\ net' = [net EXCEPT !.pc = "leave", !.ended = Ended, !.complete = complete]
         /\ f' = [f EXCEPT !.responseReady = TRUE] /\ UNCHANGED <<mic, view>>
      \/ /\ Fail
         /\ net' = [net EXCEPT !.pc = "leave", !.ended = Ended, !.complete = complete]
      \/ /\ net' = [net EXCEPT !.pc = "poll", !.ended = Ended, !.complete = complete]
         /\ UNCHANGED <<f, mic, view>>
  BY <1>5, <1>7, Zenon DEF Whole
<1> QED BY <1>1, <1>2, <1>3, <1>6, <1>8, Zenon

LEMMA NetToolsGood ==
  ASSUME IInv, NetTools PROVE IInv'
<1>1. UNCHANGED <<impl, handles, captured, produced, consumed, audio, gw, inbox, server, posts>>
  BY DEF NetTools
<1>2. net.pc = "rest" /\ (net.ended \/ ~EndOfInput \/ net.sent > 0) BY DEF NetTools
<1>3. PICK next \in SUBSET Ids, complete \in BOOLEAN :
        /\ Round(next)
        /\ \A i \in next : /\ calls[i].known /\ ~calls[i].submitted
                           /\ Refused(Collected[i]).result = NoResult
                           /\ work.state \in {"empty", "complete"}
        /\ work' = CASE next # {} ->
                          [NoWork EXCEPT !.state = "pending", !.index = CHOOSE i \in next : TRUE]
                     [] next = {} /\ work.state = "complete" -> NoWork
                     [] OTHER -> work
        /\ \/ /\ Ended /\ complete /\ net.response /\ ~Pending' /\ work'.state = "empty"
              /\ net' = [net EXCEPT !.pc = "leave", !.ended = Ended, !.complete = complete]
              /\ f' = [f EXCEPT !.responseReady = TRUE] /\ UNCHANGED <<mic, view>>
           \/ /\ Fail
              /\ net' = [net EXCEPT !.pc = "leave", !.ended = Ended, !.complete = complete]
           \/ /\ net' = [net EXCEPT !.pc = "poll", !.ended = Ended, !.complete = complete]
              /\ UNCHANGED <<f, mic, view>>
  BY ToolsRound
<1>4.
      /\ calls' \in [Ids -> Calls]
      /\ \A i \in Ids : /\ Untouched(i)
                        /\ calls'[i].submitted <=> calls[i].submitted \/ i \in next
      /\ \A i \in next : calls'[i].result = NoResult /\ ~calls[i].cancelled
  BY <1>3, RoundFacts
<1>5. NoResult.code = "none" BY DEF NoResult, Result
<1>6.
      \/ \E i \in next : /\ work' \in Works /\ work'.state = "pending" /\ work'.index = i
                          /\ work.state \in {"empty", "complete"}
      \/ next = {} /\ work'.state = "empty" /\ work' \in Works /\ work.state = "complete"
      \/ next = {} /\ work' = work /\ work.state # "complete"
  <2>1. CASE next # {}
    <3>1. PICK i \in next : work' = [NoWork EXCEPT !.state = "pending", !.index = i]
      BY <1>3, <2>1
    <3>2. work' \in Works /\ work'.state = "pending" /\ work'.index = i
      <4>1. NoWork \in Works /\ i \in Nat BY WorkTypes DEF Ids
      <4> QED BY <3>1, <4>1 DEF Works
    <3> QED BY <1>3, <3>1, <3>2
  <2>2. CASE next = {} /\ work.state = "complete"
    <3>1. work' = NoWork BY <1>3, <2>2
    <3> QED BY <2>2, <3>1, WorkTypes, NoneFields
  <2>3. CASE next = {} /\ work.state # "complete"
    BY <1>3, <2>3
  <2> QED BY <2>1, <2>2, <2>3
<1>7. Ended \in BOOLEAN BY DEF Ended
<1>8. PICK ended \in BOOLEAN : ended <=> Ended BY <1>7
<1>9. ended => f.captureDone /\ net.sent = captured /\ captured > 0
  BY <1>2, <1>8 DEF Ended, EndOfInput, IInv, Typed, Nets, Heard
<1>10.
      \/ /\ Ended /\ complete /\ net.response /\ ~Pending' /\ work'.state = "empty"
         /\ net' = [net EXCEPT !.pc = "leave", !.ended = ended, !.complete = complete]
         /\ f' = [f EXCEPT !.responseReady = TRUE] /\ UNCHANGED <<mic, view>>
      \/ /\ Fail /\ net' = [net EXCEPT !.pc = "leave", !.ended = ended, !.complete = complete]
      \/ /\ net' = [net EXCEPT !.pc = "poll", !.ended = ended, !.complete = complete]
         /\ UNCHANGED <<f, mic, view>>
  BY <1>3, <1>7, <1>8, Zenon
<1>11. net' \in Nets /\ net'.sent = net.sent /\ net'.ended = ended /\ net'.response = net.response
      /\ net'.complete = complete /\ net'.pc \in {"leave", "poll"}
  BY <1>10 DEF IInv, Typed, Nets
<1>12.
      \/ /\ ended /\ complete /\ net.response /\ ~Pending' /\ work'.state = "empty"
         /\ FlagsKept /\ UNCHANGED <<mic, view>>
      \/ TurnFailed
      \/ net'.pc = "poll" /\ UNCHANGED <<f, mic, view>>
  <2>1. CASE /\ Ended /\ complete /\ net.response /\ ~Pending' /\ work'.state = "empty"
             /\ f' = [f EXCEPT !.responseReady = TRUE] /\ UNCHANGED <<mic, view>>
    <3>1. FlagsKept BY <2>1 DEF FlagsKept, IInv, Typed, Flags
    <3> QED BY <1>8, <2>1, <3>1, Zenon
  <2>2. CASE Fail
    <3>1. Typed /\ f \in Flags /\ FailWith(f) BY <2>2 DEF Fail, IInv, Typed
    <3>2. TurnFailed BY <3>1, FailFacts, Zenon
    <3> QED BY <3>2
  <2>3. CASE net' = [net EXCEPT !.pc = "poll", !.ended = ended, !.complete = complete]
             /\ UNCHANGED <<f, mic, view>>
    BY <2>3 DEF IInv, Typed, Nets
  <2> QED BY <1>10, <2>1, <2>2, <2>3, Zenon
<1>13. Typed' BY <1>1, <1>4, <1>6, <1>11, <1>12 DEF IInv, Typed, FlagsKept, TurnFailed
<1>14. Counted' BY <1>1, <1>11 DEF IInv, Counted, FlagsKept, TurnFailed
<1>15. Unborn' BY <1>1, <1>2 DEF IInv, Unborn, FlagsKept, TurnFailed
<1>16. Manned' BY <1>1, <1>2, <1>11, <1>12 DEF IInv, Manned, FlagsKept, TurnFailed
<1>17. Sounded' BY <1>1, <1>2, <1>12 DEF IInv, Sounded, Stopped, Drained, FlagsKept, TurnFailed
<1>18. Heard' BY <1>1, <1>9, <1>11, <1>12 DEF IInv, Heard, Stopped, LeftWhole, FlagsKept, TurnFailed
<1>19. Owned' BY <1>2, <1>12 DEF IInv, Owned, FlagsKept, TurnFailed
<1>20. Tooled'
  <2>1. \A i \in Ids : /\ ~calls'[i].known => ~calls'[i].submitted
                       /\ calls'[i].result.code \in {"never", "rejected"} => ~calls'[i].submitted
                       /\ ~calls'[i].submitted => posts'[i] = 0
                       /\ posts'[i] <= 2
    BY <1>1, <1>4, <1>5, <1>3 DEF IInv, Tooled, Untouched
  <2>2. CASE \E i \in next : /\ work'.state = "pending" /\ work'.index = i
                             /\ work.state \in {"empty", "complete"}
    <3>1. PICK i \in next : /\ work'.state = "pending" /\ work'.index = i
                            /\ work.state \in {"empty", "complete"}
      BY <2>2
    <3>2. i \in Ids /\ calls'[i].submitted /\ ~calls'[i].cancelled /\ posts'[i] = 0
      BY <1>1, <1>3, <1>4 DEF IInv, Tooled, Untouched
    <3>3. gw'.pc \notin {"execute", "posted"} BY <1>1, <3>1 DEF IInv, Tooled
    <3> QED BY <2>1, <3>1, <3>2, <3>3 DEF Tooled
  <2>3. CASE work'.state = "empty" /\ work.state = "complete"
    <3>1. gw'.pc \notin {"execute", "posted"} BY <1>1, <2>3 DEF IInv, Tooled
    <3> QED BY <2>1, <2>3, <3>1 DEF Tooled
  <2>4. CASE next = {} /\ work' = work
    BY <1>1, <1>4, <2>1, <2>4 DEF IInv, Tooled, Untouched
  <2> QED BY <1>6, <2>2, <2>3, <2>4
<1> QED BY <1>13, <1>14, <1>15, <1>16, <1>17, <1>18, <1>19, <1>20 DEF IInv

-----------------------------------------------------------------------------
(* The gateway task.                                                         *)

LEMMA GatewayTakeGood ==
  ASSUME IInv, GatewayTake PROVE IInv'
<1>1. UNCHANGED <<impl, handles, f, mic, captured, produced, consumed, audio, net, calls, inbox,
                  server, posts, view>>
  BY DEF GatewayTake
<1>2. gw.pc = "idle" BY DEF GatewayTake
<1>3. IF f.workerStop \/ Stopped
      THEN gw' \in Gateways /\ gw'.pc = "suspended" /\ work' = work
      ELSE /\ work.state = "pending"
           /\ work' \in Works /\ work'.state = "running" /\ work'.index = work.index
           /\ work'.cancelled = work.cancelled
           /\ work.index \in Ids /\ gw' \in Gateways /\ gw'.pc = "execute"
           /\ gw'.attempt = 1 /\ gw'.id = work.index
  <2>1. CASE f.workerStop \/ Stopped
    BY <2>1 DEF GatewayTake, IInv, Typed, Gateways
  <2>2. CASE ~(f.workerStop \/ Stopped)
    <3>1. work.state = "pending" /\ work.index \in Ids BY <2>2 DEF GatewayTake, IInv, Tooled
    <3>2. work' \in Works /\ work'.state = "running" /\ work'.index = work.index
          /\ work'.cancelled = work.cancelled
      BY <2>2 DEF GatewayTake, IInv, Typed, Works
    <3> QED BY <2>2, <3>1, <3>2 DEF GatewayTake, Gateways, Ids
  <2> QED BY <2>1, <2>2
<1>4. Typed' BY <1>1, <1>3 DEF IInv, Typed
<1>5. Counted' BY <1>1 DEF IInv, Counted
<1>6. Unborn' BY <1>1, <1>2 DEF IInv, Unborn
<1>7. Manned' BY <1>1, <1>2 DEF IInv, Manned
<1>8. Sounded' BY <1>1 DEF IInv, Sounded, Stopped, Drained
<1>9. Heard' BY <1>1, <1>3 DEF IInv, Heard, Stopped, LeftWhole, Pending
<1>10. Owned' BY <1>1, <1>2 DEF IInv, Owned
<1>11. Tooled' BY <1>1, <1>3 DEF IInv, Tooled
<1> QED BY <1>4, <1>5, <1>6, <1>7, <1>8, <1>9, <1>10, <1>11 DEF IInv

LEMMA GatewayPostGood ==
  ASSUME IInv, GatewayPost PROVE IInv'
<1>1. UNCHANGED <<impl, handles, f, mic, captured, produced, consumed, audio, net, calls, work,
                  inbox, server, view>>
  BY DEF GatewayPost
<1>2. gw.pc = "execute" /\ work.state = "running" /\ work.index = gw.id /\ gw.id \in Ids
      /\ gw.attempt \in 1..2 /\ posts[gw.id] <= gw.attempt - 1 /\ calls[gw.id].submitted
  BY DEF GatewayPost, IInv, Tooled
<1>3. gw' \in Gateways /\ gw'.pc = "posted" /\ gw'.attempt = gw.attempt /\ gw'.id = gw.id
  BY DEF GatewayPost, IInv, Typed, Gateways
<1>4. posts' \in [Ids -> Nat] /\ posts'[gw.id] = posts[gw.id] + 1 /\ posts[gw.id] \in Nat
      /\ \A i \in Ids \ {gw.id} : posts'[i] = posts[i]
  BY <1>2 DEF GatewayPost, IInv, Typed
<1>5. Typed' BY <1>1, <1>3, <1>4 DEF IInv, Typed
<1>6. Counted' BY <1>1 DEF IInv, Counted
<1>7. Unborn' BY <1>1, <1>2 DEF IInv, Unborn
<1>8. Manned' BY <1>1, <1>2 DEF IInv, Manned
<1>9. Sounded' BY <1>1 DEF IInv, Sounded, Stopped, Drained
<1>10. Heard' BY <1>1, <1>2 DEF IInv, Heard, Stopped, LeftWhole
<1>11. Owned' BY <1>1, <1>2 DEF IInv, Owned
<1>12. Tooled' BY <1>1, <1>2, <1>3, <1>4 DEF IInv, Tooled
<1> QED BY <1>5, <1>6, <1>7, <1>8, <1>9, <1>10, <1>11, <1>12 DEF IInv

LEMMA ExecutedGood ==
  ASSUME IInv, NEW code \in {"unsent", "unknown", "answered"}, Executed(code),
         gw.pc \in {"execute", "posted"},
         UNCHANGED <<impl, handles, f, mic, captured, produced, consumed, audio, net, calls,
                     inbox, server, posts, view>> PROVE IInv'
<1>1. UNCHANGED <<impl, handles, f, mic, captured, produced, consumed, audio, net, calls, inbox,
                  server, posts, view>>
  OBVIOUS
<1>2. work.state = "running" /\ work.index = gw.id /\ gw.id \in Ids /\ gw.attempt \in 1..2
      /\ posts[gw.id] <= gw.attempt /\ gw.id \in Nat
  BY DEF IInv, Tooled, Typed, Gateways
<1>3.
      \/ /\ gw.attempt = 1 /\ gw' \in Gateways /\ gw'.pc = "execute" /\ gw'.attempt = 2
         /\ gw'.id = gw.id /\ work' = work
      \/ /\ gw' \in Gateways /\ gw'.pc = "idle"
         /\ work' \in Works /\ work'.state = "complete" /\ work'.index = work.index
         /\ work'.cancelled = work.cancelled /\ work'.result.code = code
  <2>1. CASE /\ gw.attempt = 1 /\ gw' = [gw EXCEPT !.pc = "execute", !.attempt = 2]
             /\ UNCHANGED work
    <3>1. gw \in Gateways /\ work \in Works BY DEF IInv, Typed
    <3>2. PICK again \in 0..2 : again = 2 OBVIOUS
    <3>3. gw' = [gw EXCEPT !.pc = "execute", !.attempt = again] BY <2>1, <3>2, Zenon
    <3>4. gw' \in Gateways /\ gw'.pc = "execute" /\ gw'.attempt = again /\ gw'.id = gw.id
      BY <3>1, <3>3 DEF Gateways
    <3> QED BY <2>1, <3>2, <3>4, Zenon
  <2>2. CASE /\ gw' = [GatewayOff EXCEPT !.pc = "idle"]
             /\ work' = [work EXCEPT !.state = "complete", !.result = Result(code, gw.id)]
    <3>1. Result(code, gw.id) \in Results /\ Result(code, gw.id).code = code
      BY <1>2, WorkTypes
    <3>2. gw' \in Gateways /\ gw'.pc = "idle" BY <2>2, NoneTypes DEF Gateways
    <3>3. work' \in Works /\ work'.state = "complete" /\ work'.index = work.index
          /\ work'.cancelled = work.cancelled /\ work'.result = Result(code, gw.id)
      BY <2>2, <3>1 DEF IInv, Typed, Works
    <3> QED BY <3>1, <3>2, <3>3
  <2> QED BY <2>1, <2>2, Zenon DEF Executed
<1>4. Typed' BY <1>3 DEF IInv, Typed
<1>5. Counted' BY <1>1 DEF IInv, Counted
<1>6. Unborn' BY <1>1 DEF IInv, Unborn
<1>7. Manned' BY <1>1 DEF IInv, Manned
<1>8. Sounded' BY <1>1 DEF IInv, Sounded, Stopped, Drained
<1>9. Heard' BY <1>2 DEF IInv, Heard, Stopped, LeftWhole
<1>10. Owned' BY <1>1 DEF IInv, Owned
<1>11. Tooled' BY <1>2, <1>3 DEF IInv, Tooled
<1> QED BY <1>4, <1>5, <1>6, <1>7, <1>8, <1>9, <1>10, <1>11 DEF IInv

LEMMA GatewayGood == ASSUME IInv, Gateway PROVE IInv'
<1>1. CASE GatewayUnsent BY <1>1, ExecutedGood DEF GatewayUnsent
<1>2. CASE GatewayReply BY <1>2, ExecutedGood DEF GatewayReply
<1> QED BY <1>1, <1>2, GatewayTakeGood, GatewayPostGood DEF Gateway

-----------------------------------------------------------------------------
(* The specification.                                                        *)

LEMMA InitHolds == Init => IInv
<1> SUFFICES ASSUME Init PROVE IInv
  OBVIOUS
<1>1. /\ impl = "none" /\ handles = {} /\ f = NoFlags /\ mic = NoMic /\ audio = AudioOff
      /\ net = NetOff /\ gw = GatewayOff /\ work = NoWork /\ inbox = <<>> /\ server = NoServer
      /\ captured = 0 /\ produced = 0 /\ consumed = 0
  BY DEF Init
<1>2. /\ calls \in [Ids -> Calls] /\ posts \in [Ids -> Nat]
      /\ \A i \in Ids : calls[i] = NoCall /\ posts[i] = 0
  BY WorkTypes, Zenon DEF Init
<1>3. view \in Views /\ view.state = "idle" /\ view.finished = FALSE
  BY Zenon DEF Init, Views
<1>4. inbox \in Seq(Events) BY <1>1
<1>5. Typed BY <1>1, <1>2, <1>3, <1>4, NoneTypes, WorkTypes DEF Typed
<1>6. Counted BY <1>1, NoneFields, BlocksAssumption DEF Counted
<1>7. Unborn /\ Manned /\ Owned BY <1>1, <1>3, NoneFields DEF Unborn, Manned, Owned
<1>8. Sounded /\ Heard BY <1>1, NoneFields DEF Sounded, Heard
<1>9. Tooled BY <1>1, <1>2, NoneFields DEF Tooled
<1> QED BY <1>5, <1>6, <1>7, <1>8, <1>9 DEF IInv

LEMMA Stutters == IInv /\ UNCHANGED vars => IInv'
BY DEF vars, IInv, Typed, Counted, Unborn, Manned, Drained, Sounded, LeftWhole, Heard, Owned,
       Tooled, Stopped, Pending

LEMMA StepHolds == IInv /\ [Next]_vars => IInv'
<1>1. ASSUME IInv, Owner PROVE IInv'
  BY <1>1, StartGood, StartRefusedGood, LaunchGood, LaunchFailsGood, ReleaseGood, CancelGood,
     TurnExpiresGood, ReapGood, AcknowledgeGood DEF Owner
<1>2. ASSUME IInv, Audio PROVE IInv'
  BY <1>2, AudioCaptureGood, AudioLimitGood, AudioCaptureFailsGood, AudioJoinGood, AudioLookGood,
     AudioPlayGood, AudioPlayFailsGood, AudioTailGood DEF Audio
<1>3. ASSUME IInv, NetSteps PROVE IInv'
  BY <1>3, NetConnectGood, NetQueueGood, NetSendGood, NetEmptyGood, NetToolsGood, NetLeaveGood,
     NetCloseGood DEF NetSteps
<1> QED BY <1>1, <1>2, <1>3, SpeakGood, ServerGood, NetReceiveGood, NetBreaksGood, GatewayGood,
           Stutters DEF Next

\* Every reachable state of a turn satisfies the inductive invariant.
THEOREM Inductive == Spec => []IInv
BY InitHolds, StepHolds, PTL DEF Spec

\* What Gemini is told of a tool is true: a call that was "cancelled before any effect", or
\* refused, was never posted and nobody has it in hands; none is posted more than twice.
THEOREM ToolsToldTruly == Spec => []ToolsHonest
<1>1. IInv => ToolsHonest BY DEF IInv, Tooled, ToolsHonest
<1> QED BY <1>1, Inductive, PTL

\* The owner frees the turn when no task and no microphone touches it, and every variable
\* keeps its type and every buffer its room (snapshot(), acknowledgeFinished()).
THEOREM FreedWhenIdle == Spec => []ImplInv
<1>1. IInv => Reaped BY DEF IInv, Owned, Reaped, Tasks, Place
<1>2. IInv => TypeOK
  <2> SUFFICES ASSUME IInv PROVE TypeOK
    OBVIOUS
  <2>1. f \in [DOMAIN NoFlags -> BOOLEAN] BY DEF IInv, Typed, Flags, NoFlags
  <2>2. captured \in 0..CaptureLimit /\ net.sent \in 0..captured /\ consumed \in 0..produced
        /\ Available <= Output
    BY BlocksAssumption DEF IInv, Typed, Counted, Nets, Available
  <2>3. audio.pc \in {"off", "capture", "join", "look", "play", "tail", "suspended"}
    BY DEF IInv, Typed, Players
  <2>4. net.pc \in {"off", "connect", "poll", "queue", "rest", "leave", "close", "suspended"}
    BY DEF IInv, Typed, Nets
  <2>5. gw.pc \in {"off", "idle", "execute", "posted", "suspended"}
    BY DEF IInv, Typed, Gateways
  <2>6. work.state \in {"empty", "pending", "running", "complete"}
    BY DEF IInv, Typed, Works
  <2>7. view.state \in {"idle", "busy", "failed", "done"} /\ view.finished \in BOOLEAN
    BY DEF IInv, Typed, Views
  <2> QED BY <2>1, <2>2, <2>3, <2>4, <2>5, <2>6, <2>7 DEF IInv, Typed, TypeOK
<1> QED BY <1>1, <1>2, Inductive, PTL DEF ImplInv

\* A turn that the owner is told is done was done to the end: all that was recorded was sent,
\* all of the answer played, every call answered and no work left.
THEOREM DoneMeansWhole == Spec => []DoneIsWhole
<1>1. IInv => DoneIsWhole
  BY DEF IInv, Owned, Sounded, Drained, Heard, LeftWhole, DoneIsWhole
<1> QED BY <1>1, Inductive, PTL

-----------------------------------------------------------------------------
(* No POST after a cancellation.                                             *)

LEMMA PostsKept ==
  ASSUME IInv, [Next]_vars, ~GatewayPost, ~Acknowledge PROVE posts' = posts
<1>1. CASE Owner
  BY <1>1 DEF Owner, Start, StartRefused, Launch, LaunchFails, Launched, Release, Cancel,
              TurnExpires, Reap
<1>2. CASE Audio
  BY <1>2 DEF Audio, AudioCapture, AudioLimit, AudioCaptureFails, AudioJoin, AudioLook, AudioPlay,
              AudioPlayFails, AudioTail
<1>3. CASE Server
  BY <1>3 DEF Server, ServerAudio, ServerText, ServerCall, ServerCancel, ServerComplete,
              ServerClose, ServerSends
<1>4. CASE NetReceive \/ NetBreaks
  BY <1>4 DEF NetReceive, NetBreaks
<1>5. CASE NetSteps
  BY <1>5 DEF NetSteps, NetConnect, NetQueue, NetSend, NetEmpty, NetTools, NetLeave, NetClose
<1>6. CASE Gateway
  BY <1>6 DEF Gateway, GatewayTake, GatewayUnsent, GatewayReply
<1>7. CASE Speak \/ UNCHANGED vars
  BY <1>7 DEF Speak, vars
<1> QED BY <1>1, <1>2, <1>3, <1>4, <1>5, <1>6, <1>7 DEF Next

\* No POST begins, not even the one that reconciles an uncertain outcome, when the network
\* task has heard that the call is cancelled or the turn is stopped.
THEOREM CancelledNeverPosted == Spec => CancelForbidsPost
<1>1. ASSUME IInv, [Next]_vars, NEW i \in Ids, posts'[i] > posts[i]
      PROVE  ~calls[i].cancelled /\ ~Stopped
  <2>1. posts \in [Ids -> Nat] /\ posts[i] \in Nat BY <1>1 DEF IInv, Typed
  <2>2. CASE GatewayPost
    <3>1. posts' = [posts EXCEPT ![gw.id] = @ + 1] /\ ~Stopped /\ ~work.cancelled
      BY <2>2 DEF GatewayPost, ToolStopped
    <3>2. i = gw.id BY <1>1, <2>1, <3>1
    <3>3. calls[gw.id].cancelled => work.cancelled BY <1>1, <2>2 DEF GatewayPost, IInv, Tooled
    <3> QED BY <3>1, <3>2, <3>3
  <2>3. CASE Acknowledge
    <3>1. posts'[i] = 0 BY <2>3 DEF Acknowledge, Fresh
    <3> QED BY <1>1, <2>1, <3>1
  <2>4. CASE ~GatewayPost /\ ~Acknowledge
    <3>1. posts' = posts BY <1>1, <2>4, PostsKept
    <3> QED BY <1>1, <2>1, <3>1
  <2> QED BY <2>2, <2>3, <2>4
<1>2. IInv /\ [Next]_vars
      => [\A i \in Ids : posts'[i] > posts[i] => ~calls[i].cancelled /\ ~Stopped]_vars
  BY <1>1
<1> QED BY <1>2, Inductive, PTL DEF Spec, CancelForbidsPost

=============================================================================
