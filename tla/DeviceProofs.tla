---------------------------- MODULE DeviceProofs ----------------------------
(***************************************************************************)
(* The application of Device, for every number of snapshots: the four      *)
(* operations never meet and the canvas has one owner (OneOwner), a        *)
(* capture begun by a press has an event to come (CaptureOwned), the       *)
(* device sleeps with everything at rest (SleepsClean), a snapshot the     *)
(* loop accepts is one the worker published (SnapshotWhole), the radio is  *)
(* never stopped under a worker (RadioKept), and a gesture that met the    *)
(* other button starts nothing (GestureWhole).                             *)
(*                                                                         *)
(* What the code relies on without saying so is that the screen tells the  *)
(* operation: each of the four has screens of its own, which no handler    *)
(* leaves while the operation runs.  That, and not the guards of the       *)
(* handlers, is why the end of one never stops the radio of another.       *)
(***************************************************************************)
EXTENDS Device, TLAPS

Feedbacks == [want : BOOLEAN, pend : BOOLEAN, act : BOOLEAN]
Recorders == [stage : {"no", "on", "end", "done"}, discard : BOOLEAN]
Loop == [pc : {"loop", "expire", "portal", "a", "b", "check", "got"}, a : Nat, b : Nat]
Snapshots == [v : Nat, odd : BOOLEAN, a : Nat, b : Nat, moved : BOOLEAN]
Jobs == [Workers -> {"no", "start", "online", "done"}]
Gestures == {"up", "down", "long", "latched", "mute", "strange", "stranger"}

Typed ==
  /\ RouteTypeOK
  /\ screen \in Screens /\ forNote \in BOOLEAN /\ restore \in BOOLEAN /\ fb \in Feedbacks
  /\ cap \in {"no", "ok", "failed"} /\ rec \in Recorders /\ jobs \in Jobs
  /\ main \in Loop /\ view \in Snapshots
InputTyped ==
  /\ mixed \in BOOLEAN /\ stray \in BOOLEAN
  /\ btn \in [Buttons -> Gestures] /\ btn["Pwr"] # "latched"
  /\ chord \in [Boot : BOOLEAN, Pwr : BOOLEAN, on : BOOLEAN]
  /\ sleep \in {"no", "deferred", "pending", "timing", "asleep"}

\* The pieces of the snapshot, and what the loop has of them as long as nothing
\* was published since it began.
Published ==
  /\ ~view.odd => view.a = view.v /\ view.b = view.v
  /\ view.odd /\ view.b = view.v => view.a = view.v
  /\ ~view.odd /\ view.b = Last => jobs["sync"] = "done"
Copied ==
  /\ main.pc \in {"a", "b", "check"} /\ ~view.moved =>
       /\ ~view.odd
       /\ main.pc \in {"b", "check"} => main.a = view.v
       /\ main.pc = "check" => main.b = view.v
  /\ main.pc \in {"a", "b", "check", "got"} => Active("sync")
  /\ SnapshotWhole

\* Who holds the lock of the route is at work.
Locked ==
  /\ jobs["sync"] # "start"
  /\ selecting # "none" => jobs[selecting] \in {"start", "online"}

\* The screen tells the operation.
Told ==
  /\ Active("talk") => screen = "AssistantBusy"
  /\ Active("sync") => screen = "SyncBusy" /\ ~restore
  /\ Active("export") => screen = "ExportBusy" /\ ~restore
  /\ rec.stage # "no" => screen \in {"Recording", "Saving"}

\* A capture waits for its gesture alone; the portal has the device for itself.
Alone ==
  /\ cap # "no" => rec.stage = "no"
  /\ cap # "no" \/ main.pc = "portal" => \A j \in Workers : ~Active(j)

\* A retained radio is nobody's route.
Retained ==
  retain # "no" =>
    /\ ~wifi /\ ~phone /\ selecting = "none"
    /\ \A j \in Workers : jobs[j] # "online"

\* The invariant of the application, whatever the buttons do.
AppInv == Typed /\ Published /\ Copied /\ Locked /\ Told /\ Alone /\ CanvasOwned /\ Retained

\* On its way to sleep the device is at rest.
Resting ==
  /\ AtSleep \/ sleep = "asleep" =>
       /\ radio = "off" /\ ~wifi /\ retain = "no" /\ selecting = "none"
       /\ ~Busy /\ Free /\ main.pc = "loop"
  /\ sleep = "asleep" => btn = AllUp

\* The chord has heard of each button that is held, and is on since both were.
Heard ==
  /\ ~AtSleep => \A b \in Buttons : btn[b] \in {"down", "long"} => chord[b]
  /\ chord.Boot /\ chord.Pwr => chord.on
  /\ mixed => chord.on \/ (AtSleep /\ Held(btn) # {})

\* A capture whose gesture is to come, on the screens where a press begins one.
Awaited ==
  cap # "no" /\ ~stray =>
    /\ btn["Boot"] \in {"down", "latched"}
    /\ btn["Pwr"] \notin {"down", "long"}
    /\ screen \in {"Home", "AssistantResult"} /\ main.pc = "loop"

\* The inductive invariant.
IInv == AppInv /\ InputTyped /\ Resting /\ Heard /\ Awaited

-----------------------------------------------------------------------------
(* Facts that most steps need.                                               *)

\* No worker has an operation of the user.
JobsRest == \A j \in Workers : ~Active(j)

\* The radio is not stopped under a worker by this step.
RadioSafe == radio = "ready" /\ radio' = "off" => ~Owned

Good == AppInv' /\ RadioSafe

Canvas == Menus \cup {"SyncBusy", "ExportBusy", "PhonePairing", "SyncResult"}

\* The screen, the recorder and the route that a step leaves behind when no
\* worker is at work after it.
UiSettles ==
  /\ screen' \in Screens /\ forNote' \in BOOLEAN /\ restore' \in BOOLEAN /\ fb' \in Feedbacks
  /\ screen' \in Canvas => ~Busy'
RecSettles ==
  /\ cap' \in {"no", "ok", "failed"} /\ rec' \in Recorders
  /\ rec'.stage # "no" => cap' = "no" /\ screen' \in {"Recording", "Saving"}
RouteSettles ==
  /\ RouteTypeOK' /\ selecting' = "none"
  /\ retain' # "no" => ~wifi' /\ ~phone'

LEMMA ActiveIs ==
  /\ Active("sync") <=> jobs["sync"] \in {"online", "done"}
  /\ Active("talk") <=> jobs["talk"] \in {"start", "online"}
  /\ Active("export") <=> jobs["export"] \in {"start", "online"}
BY DEF Active

LEMMA ActiveIsNext ==
  /\ Active("sync")' <=> jobs'["sync"] \in {"online", "done"}
  /\ Active("talk")' <=> jobs'["talk"] \in {"start", "online"}
  /\ Active("export")' <=> jobs'["export"] \in {"start", "online"}
BY DEF Active

LEMMA RestIs == JobsRest <=> ~Active("sync") /\ ~Active("talk") /\ ~Active("export")
BY WorkersAssumption DEF JobsRest

LEMMA RestIsNext ==
  JobsRest' <=> ~Active("sync")' /\ ~Active("talk")' /\ ~Active("export")'
BY WorkersAssumption DEF JobsRest

\* Without an operation nobody selects a route or has one.
LEMMA RestOwnsNothing ==
  ASSUME AppInv, JobsRest
  PROVE  selecting = "none" /\ ~Owned
<1>1. selecting \in {"none", "sync", "talk", "export"}
  BY WorkersAssumption DEF AppInv, Typed, AppTypeOK, RouteTypeOK
<1>2. jobs["sync"] \notin {"start", "online"} /\ jobs["talk"] \notin {"start", "online"}
      /\ jobs["export"] \notin {"start", "online"}
  BY ActiveIs, RestIs DEF AppInv, Locked
<1>3. selecting = "none" BY <1>1, <1>2 DEF AppInv, Locked
<1> QED BY <1>2, <1>3, WorkersAssumption DEF Owned

\* One operation at a time: what the screen says.
LEMMA ScreenTells ==
  ASSUME AppInv
  PROVE  /\ screen \notin {"SyncBusy", "AssistantBusy", "ExportBusy"} => JobsRest
         /\ screen = "AssistantBusy" => ~Active("sync") /\ ~Active("export")
         /\ screen = "ExportBusy" => ~Active("sync") /\ ~Active("talk")
         /\ screen = "SyncBusy" => ~Active("talk") /\ ~Active("export")
         /\ screen \notin {"Recording", "Saving"} => rec.stage = "no"
BY RestIs DEF AppInv, Told

\* The step that leaves no operation of a worker behind.
LEMMA Settled ==
  ASSUME AppInv, UiSettles, RecSettles, RouteSettles, jobs' \in Jobs, JobsRest',
         jobs'["sync"] # "start", view' \in Snapshots, Published',
         main' \in Loop, main'.pc \in {"loop", "portal", "expire"},
         radio' # "off" \/ ~Owned
  PROVE  Good
<1>1. ~Active("sync")' /\ ~Active("talk")' /\ ~Active("export")' BY RestIsNext
<1>2. \A j \in Workers : jobs'[j] # "online"
  BY <1>1, ActiveIsNext, WorkersAssumption
<1>3. Typed' BY DEF Typed, UiSettles, RecSettles, RouteSettles
<1>4. Copied' BY DEF Copied, SnapshotWhole
<1>5. Locked' BY DEF Locked, RouteSettles
<1>6. Told' BY <1>1 DEF Told, RecSettles
<1>7. Alone' BY DEF Alone, RecSettles, JobsRest
<1>8. CanvasOwned' BY DEF CanvasOwned, UiSettles, Canvas
<1>9. Retained' BY <1>2 DEF Retained, RouteSettles
<1>10. RadioSafe BY DEF RadioSafe
<1> QED BY <1>3, <1>4, <1>5, <1>6, <1>7, <1>8, <1>9, <1>10 DEF Good, AppInv

\* And that began and ended none.
LEMMA SettledSame ==
  ASSUME AppInv, JobsRest, UiSettles, RecSettles, RouteSettles, UNCHANGED <<jobs, view>>,
         main' = main \/ main' = At("portal")
  PROVE  Good
<1>1. ~Owned BY RestOwnsNothing
<1>2. ~Active("sync") BY RestIs
<1>3. jobs' \in Jobs /\ jobs'["sync"] # "start" /\ view' \in Snapshots /\ Published'
  BY DEF AppInv, Typed, Locked, Published
<1>4. JobsRest' BY DEF JobsRest, Active
<1>5. main.pc \in {"loop", "portal", "expire"} /\ main \in Loop
  BY <1>2 DEF AppInv, Copied, Typed, Loop
<1>6. main' \in Loop /\ main'.pc \in {"loop", "portal", "expire"}
  BY <1>5 DEF At, Loop
<1> QED BY <1>1, <1>3, <1>4, <1>6, Settled

LEMMA RouteStays ==
  ASSUME AppInv, JobsRest, UNCHANGED routeVars PROVE RouteSettles
BY RestOwnsNothing DEF RouteSettles, RouteTypeOK, routeVars, AppInv, Typed, Retained

\* Nothing changes.
LEMMA Same ==
  ASSUME AppInv, UNCHANGED appVars PROVE Good
<1>1. AppInv'
  <2> USE DEF appVars, uiVars, audioVars, jobVars, routeVars, AppInv
  <2>1. Typed' /\ Published' /\ Locked' BY DEF Typed, RouteTypeOK, Published, Locked
  <2>2. Copied' /\ Told' /\ Alone' BY DEF Copied, SnapshotWhole, Told, Alone, Active
  <2>3. CanvasOwned' /\ Retained' BY DEF CanvasOwned, Busy, Retained
  <2> QED BY <2>1, <2>2, <2>3
<1> QED BY <1>1 DEF Good, RadioSafe, appVars, routeVars

-----------------------------------------------------------------------------
(* What the helpers leave behind.                                            *)

LEMMA QuietFacts == Quiet \in Feedbacks /\ ~Quiet.pend /\ ~Quiet.act
BY DEF Quiet, Feedbacks

LEMMA Ensures ==
  ASSUME EnsureUi PROVE ~fb.act /\ fb' \in Feedbacks /\ ~Busy' /\ restore' = FALSE
BY QuietFacts DEF EnsureUi, Busy

LEMMA Requests ==
  ASSUME Typed, Request PROVE fb' \in Feedbacks
BY DEF Request, Asks, Typed, Feedbacks

LEMMA Showing ==
  ASSUME NEW note \in BOOLEAN, Show(note)
  PROVE  UiSettles /\ screen' = "SyncResult" /\ restore' = FALSE
BY Ensures DEF Show, UiSettles, Screens

LEMMA Going ==
  ASSUME Typed, NEW next \in Screens, Go(next), next \in Preparing \/ next \notin Canvas \/ ~Busy
  PROVE  UiSettles /\ screen' = next /\ (next \in Preparing => ~restore')
<1>1. CASE next \in Preparing BY <1>1, Ensures DEF Go, UiSettles
<1>2. CASE next \notin Preparing BY <1>2 DEF Go, UiSettles, Typed, Busy
<1> QED BY <1>1, <1>2

LEMMA ViaPhoneRange ==
  ASSUME Typed, NEW p \in BOOLEAN, NEW w \in BOOLEAN, NEW r \in ViaPhone(p, w)
  PROVE  /\ r.ok \in BOOLEAN /\ r.phone \in BOOLEAN /\ r.wifi \in BOOLEAN
         /\ r.radio \in {"off", "on", "ready"} /\ (radio = "ready" => r.radio = "ready")
<1>1. radio \in {"off", "on", "ready"} BY DEF Typed, RouteTypeOK
<1>2. PICK ok \in BOOLEAN, q \in BOOLEAN, s \in {radio, "ready", "on"} :
        r = Route(ok, q, s, w) /\ (radio = "ready" => s = "ready")
  BY DEF ViaPhone
<1> QED BY <1>1, <1>2 DEF Route

\* A selection keeps the link it finds.
LEMMA RouteRange ==
  ASSUME Typed, NEW p \in BOOLEAN, NEW r \in Routes(p)
  PROVE  /\ r.ok \in BOOLEAN /\ r.phone \in BOOLEAN /\ r.wifi \in BOOLEAN
         /\ r.radio \in {"off", "on", "ready"} /\ (radio = "ready" => r.radio = "ready")
<1>1. radio \in {"off", "on", "ready"} /\ wifi \in BOOLEAN BY DEF Typed, RouteTypeOK
<1>2. CASE r = Route(TRUE, TRUE, radio, wifi) BY <1>1, <1>2 DEF Route
<1>3. ASSUME NEW w \in BOOLEAN, r = Route(TRUE, FALSE, radio, w)
      PROVE  /\ r.ok \in BOOLEAN /\ r.phone \in BOOLEAN /\ r.wifi \in BOOLEAN
             /\ r.radio \in {"off", "on", "ready"} /\ (radio = "ready" => r.radio = "ready")
  BY <1>1, <1>3 DEF Route
<1>4. \/ r = Route(TRUE, TRUE, radio, wifi)
      \/ \E w \in BOOLEAN : r = Route(TRUE, FALSE, radio, w) \/ r \in ViaPhone(p, w)
  BY <1>1, Zenon DEF Routes, Associated
<1> QED BY <1>2, <1>3, <1>4, ViaPhoneRange

LEMMA RecoveryRange ==
  ASSUME Typed, NEW r \in Recoveries
  PROVE  /\ r.ok \in BOOLEAN /\ r.phone \in BOOLEAN /\ r.wifi \in BOOLEAN
         /\ r.radio \in {"off", "on", "ready"} /\ (radio = "ready" => r.radio = "ready")
<1>1. phone \in BOOLEAN /\ wifi \in BOOLEAN /\ radio \in {"off", "on", "ready"}
  BY DEF Typed, RouteTypeOK
<1>2. CASE r = Route(TRUE, phone, radio, wifi) BY <1>1, <1>2 DEF Route
<1>3. r \in Routes(phone) \/ r \in ViaPhone(phone, wifi) \/ r = Route(TRUE, phone, radio, wifi)
  BY Zenon DEF Recoveries
<1> QED BY <1>1, <1>2, <1>3, RouteRange, ViaPhoneRange

LEMMA Finishing ==
  ASSUME Typed, NEW w \in BOOLEAN, Finish(w) PROVE RouteSettles
BY DEF Finish, RouteSettles, RouteTypeOK, Typed

LEMMA Retaining ==
  ASSUME Typed, FinishRetaining(FALSE) PROVE RouteSettles
BY DEF FinishRetaining, RouteSettles, RouteTypeOK, Typed

LEMMA Configuring ==
  ASSUME AppInv, JobsRest, Configure PROVE RouteSettles
BY RestOwnsNothing DEF Configure, RouteSettles, RouteTypeOK, Typed, AppInv, Retained

\* ensureOnline(): online, nothing is left of a retention.
LEMMA Reaching ==
  ASSUME AppInv, JobsRest, NEW r \in Routes(FALSE), Reached(r)
  PROVE  RouteSettles /\ retain' = "no"
<1>1. CASE Online /\ UNCHANGED routeVars
  <2>1. RouteSettles BY <1>1, RouteStays
  <2>2. retain = "no" BY <1>1 DEF Online, AppInv, Retained
  <2> QED BY <1>1, <2>1, <2>2 DEF routeVars
<1>2. CASE MainConnects(r)
  <2>1. /\ r.phone \in BOOLEAN /\ r.wifi \in BOOLEAN /\ r.radio \in {"off", "on", "ready"}
    BY RouteRange DEF AppInv
  <2> QED BY <1>2, <2>1 DEF MainConnects, Take, RouteSettles, RouteTypeOK, AppInv, Typed
<1> QED BY <1>1, <1>2 DEF Reached

-----------------------------------------------------------------------------
(* The operations of the main loop.                                          *)

\* Only the screen and its worker change, with nothing at work.
LEMMA UiStep ==
  ASSUME AppInv, JobsRest, rec.stage = "no", UiSettles, cap' \in {"no", "ok", "failed"},
         UNCHANGED <<rec, jobVars, main, routeVars>>
  PROVE  Good
<1>1. RecSettles BY DEF RecSettles, AppInv, Typed
<1> QED BY <1>1, RouteStays, SettledSame DEF jobVars

LEMMA NotDoneGood ==
  ASSUME AppInv, JobsRest, rec.stage = "no", NEW note \in BOOLEAN, NotDone(note)
  PROVE  Good
BY Showing, UiStep DEF NotDone, audioVars, AppInv, Typed

LEMMA PrepareGood ==
  ASSUME AppInv, JobsRest, rec.stage = "no", screen \notin Canvas, Prepare,
         UNCHANGED <<screen, forNote, rec, jobVars, main, routeVars>>
  PROVE  Good
<1>1. fb' \in Feedbacks /\ restore' \in BOOLEAN /\ cap' \in {"no", "ok", "failed"}
  BY Requests DEF Prepare, AppInv, Typed
<1>2. UiSettles BY <1>1 DEF UiSettles, AppInv, Typed
<1> QED BY <1>1, <1>2, UiStep

LEMMA CancelCaptureGood ==
  ASSUME AppInv, CancelCapture, UNCHANGED <<screen, forNote, fb, rec, jobVars, main, routeVars>>
  PROVE  Good
<1>1. CASE cap = "no" BY <1>1, Same DEF CancelCapture, appVars, uiVars, audioVars
<1>2. CASE cap # "no"
  <2>1. JobsRest /\ rec.stage = "no" BY <1>2 DEF AppInv, Alone, JobsRest
  <2>2. UiSettles BY <1>2 DEF CancelCapture, UiSettles, AppInv, Typed, CanvasOwned, Canvas, Busy
  <2> QED BY <1>2, <2>1, <2>2, UiStep DEF CancelCapture
<1> QED BY <1>1, <1>2

LEMMA NewRecorder == \A d \in BOOLEAN : [stage |-> "on", discard |-> d] \in Recorders
BY DEF Recorders

LEMMA StartRecordingGood ==
  ASSUME AppInv, JobsRest, rec.stage = "no", StartRecording PROVE Good
<1>1. RouteSettles /\ UNCHANGED <<jobs, view, main>> BY RouteStays DEF StartRecording, jobVars
<1>2. CASE Show(FALSE) /\ UNCHANGED rec
  <2>1. RecSettles BY <1>2 DEF StartRecording, RecSettles, AppInv, Typed
  <2> QED BY <1>1, <1>2, <2>1, Showing, SettledSame
<1>3. CASE /\ rec' = [stage |-> "on", discard |-> FALSE]
           /\ screen' = "Recording" /\ restore' = FALSE /\ UNCHANGED forNote
           /\ IF cap = "ok" THEN UNCHANGED fb ELSE Request
  <2>1. rec' \in Recorders BY <1>3, NewRecorder
  <2>2. RecSettles BY <1>3, <2>1 DEF StartRecording, RecSettles
  <2>3. fb' \in Feedbacks BY <1>3, Requests DEF AppInv, Typed
  <2>4. UiSettles BY <1>3, <2>3 DEF UiSettles, Screens, Canvas, Menus, AppInv, Typed
  <2> QED BY <1>1, <2>2, <2>4, SettledSame
<1> QED BY <1>2, <1>3, Zenon DEF StartRecording

\* A session of the synchronisation starts.
LEMMA SyncStartsGood ==
  ASSUME AppInv, JobsRest, main.pc # "portal", rec' \in Recorders, rec'.stage = "no",
         cap' = "no", EnsureUi, RouteSettles, retain' = "no",
         NEW note \in BOOLEAN, SyncStarts(note), radio' # "off" \/ ~Owned
  PROVE  Good
<1>1. jobs' = [jobs EXCEPT !["sync"] = "online"] /\ screen' = "SyncBusy" /\ forNote' = note
      /\ view' = FreshView /\ main' = main
  BY DEF SyncStarts
<1>2. jobs \in Jobs /\ main \in Loop /\ main.pc \notin {"a", "b", "check", "got"}
  BY RestIs DEF AppInv, Typed, Copied
<1>3. /\ jobs' \in Jobs /\ jobs'["sync"] = "online"
      /\ jobs'["talk"] = jobs["talk"] /\ jobs'["export"] = jobs["export"]
  BY <1>1, <1>2, WorkersAssumption DEF Jobs
<1>4. view' \in Snapshots /\ view'.v = 0 /\ ~view'.odd /\ view'.a = 0 /\ view'.b = 0
  BY <1>1 DEF FreshView, Snapshots
<1>5. ~Active("talk")' /\ ~Active("export")' BY <1>3, ActiveIs, ActiveIsNext, RestIs
<1>6. fb' \in Feedbacks /\ ~Busy' /\ restore' = FALSE BY Ensures
<1>7. Typed'
  BY <1>1, <1>2, <1>3, <1>4, <1>6 DEF Typed, RouteSettles, Screens, Waits
<1>8. Published' BY <1>4, LastAssumption DEF Published
<1>9. Copied' BY <1>1, <1>2 DEF Copied, SnapshotWhole
<1>10. Locked' BY <1>3 DEF Locked, RouteSettles
<1>11. Told' BY <1>1, <1>5, <1>6 DEF Told
<1>12. Alone' BY <1>1 DEF Alone
<1>13. CanvasOwned' BY <1>6 DEF CanvasOwned
<1>14. Retained' BY DEF Retained
<1>15. RadioSafe BY DEF RadioSafe
<1> QED BY <1>7, <1>8, <1>9, <1>10, <1>11, <1>12, <1>13, <1>14, <1>15 DEF Good, AppInv

LEMMA StartSyncGood ==
  ASSUME AppInv, JobsRest, main.pc # "portal", rec' \in Recorders, rec'.stage = "no",
         cap' = "no", NEW note \in BOOLEAN, StartSync(note)
  PROVE  Good
<1>0. RecSettles BY DEF RecSettles
<1>1. CASE Show(note) /\ NoSession /\ UNCHANGED routeVars
  BY <1>0, <1>1, Showing, RouteStays, SettledSame DEF NoSession, jobVars
<1>2. ASSUME NEW r \in Routes(FALSE), Go("Home"), NoSession, NEW w \in BOOLEAN, Finish(w)
      PROVE  Good
  <2>1. UiSettles BY <1>2, Going DEF Screens, Preparing, AppInv
  <2> QED BY <1>0, <1>2, <2>1, Finishing, SettledSame DEF NoSession, jobVars, AppInv
<1>3. ASSUME NEW w \in BOOLEAN, Show(note), NoSession, Finish(w) PROVE Good
  BY <1>0, <1>3, Showing, Finishing, SettledSame DEF NoSession, jobVars, AppInv
<1>4. ASSUME NEW r \in Routes(FALSE), Reached(r), EnsureUi, SyncStarts(note) PROVE Good
  BY <1>4, Reaching, RestOwnsNothing, SyncStartsGood
<1>5. wifi \in BOOLEAN /\ \A r \in Routes(FALSE) : r.wifi \in BOOLEAN
  BY RouteRange DEF AppInv, Typed, RouteTypeOK
<1> QED BY <1>1, <1>2, <1>3, <1>4, <1>5, Zenon DEF StartSync

LEMMA FinishRecordingGood ==
  ASSUME AppInv, JobsRest, main.pc # "portal", cap = "no", NEW r \in Recorders,
         FinishRecording(r)
  PROVE  Good
<1>1. rec' = NoRec /\ cap' = "no" BY DEF FinishRecording
<1>2. rec' \in Recorders /\ rec'.stage = "no" BY <1>1 DEF NoRec, Recorders
<1>3. RecSettles BY <1>1, <1>2 DEF RecSettles
<1>4. CASE Show(FALSE) /\ UNCHANGED <<jobVars, main, routeVars>>
  BY <1>3, <1>4, Showing, RouteStays, SettledSame DEF jobVars
<1>5. CASE Go("Home") /\ UNCHANGED <<jobVars, main, routeVars>>
  <2>1. UiSettles BY <1>5, Going DEF Screens, Preparing, AppInv
  <2> QED BY <1>3, <1>5, <2>1, RouteStays, SettledSame DEF jobVars
<1>6. CASE StartSync(FALSE) BY <1>1, <1>2, <1>6, StartSyncGood
<1> QED BY <1>4, <1>5, <1>6, Zenon DEF FinishRecording

LEMMA ServiceSaveGood ==
  ASSUME AppInv, JobsRest, main.pc # "portal", rec.stage # "no",
         NEW r \in Recorders, ServiceSave(r)
  PROVE  Good
<1>1. cap = "no" BY DEF AppInv, Alone
<1>2. CASE FinishRecording(r) BY <1>1, <1>2, FinishRecordingGood
<1>3. CASE /\ rec' = r /\ screen' = "Saving"
           /\ IF Busy THEN UNCHANGED <<fb, restore>> ELSE EnsureUi
           /\ UNCHANGED <<forNote, cap, jobVars, main, routeVars>>
  <2>1. fb' \in Feedbacks /\ restore' \in BOOLEAN BY <1>3, Ensures DEF AppInv, Typed
  <2>2. UiSettles BY <1>3, <2>1 DEF UiSettles, Screens, Waits, Canvas, Menus, AppInv, Typed
  <2>3. RecSettles BY <1>1, <1>3 DEF RecSettles
  <2> QED BY <1>3, <2>2, <2>3, RouteStays, SettledSame DEF jobVars
<1> QED BY <1>2, <1>3, Zenon DEF ServiceSave

\* stop() of the recorder, with the intent.
LEMMA StoppedRecorder ==
  ASSUME Typed, NEW d \in BOOLEAN
  PROVE  [rec EXCEPT !.stage = IF @ = "on" THEN "end" ELSE @, !.discard = d] \in Recorders
BY DEF Typed, Recorders

LEMMA StopRecordingGood ==
  ASSUME AppInv, main.pc # "portal", NEW d \in BOOLEAN, StopRecording(d) PROVE Good
<1>1. CASE rec.stage = "no" \/ screen = "Saving" BY <1>1, Same DEF StopRecording
<1>2. CASE ~(rec.stage = "no" \/ screen = "Saving")
  <2>1. JobsRest BY <1>2, ScreenTells DEF AppInv, Told
  <2>2. cap = "no" BY <1>2 DEF AppInv, Alone
  <2> QED BY <1>2, <2>1, <2>2, StoppedRecorder, ServiceSaveGood DEF StopRecording, AppInv
<1> QED BY <1>1, <1>2

LEMMA LaunchedJobs ==
  ASSUME AppInv, JobsRest, NEW j \in {"talk", "export"}, Launch(j)
  PROVE  /\ jobs' \in Jobs /\ jobs'["sync"] = jobs["sync"] /\ jobs'[j] \in {"start", "done"}
         /\ \A i \in {"talk", "export"} \ {j} : jobs'[i] = jobs[i]
         /\ ~Active("sync")'
         /\ \A i \in {"talk", "export"} \ {j} : ~Active(i)'
         /\ \A i \in Workers : jobs'[i] # "online"
<1>1. PICK s \in {"start", "done"} : jobs' = [jobs EXCEPT ![j] = s]
  BY DEF Launch
<1>2. /\ jobs' \in Jobs /\ jobs'["sync"] = jobs["sync"] /\ jobs'[j] \in {"start", "done"}
      /\ \A i \in {"talk", "export"} \ {j} : jobs'[i] = jobs[i]
  BY <1>1, WorkersAssumption DEF AppInv, Typed, Jobs
<1>3. ~Active("sync")' /\ \A i \in {"talk", "export"} \ {j} : ~Active(i)'
  BY <1>2, ActiveIs, ActiveIsNext, RestIs
<1>4. \A i \in Workers : jobs'[i] # "online"
  BY <1>2, ActiveIs, RestIs, WorkersAssumption
<1> QED BY <1>2, <1>3, <1>4

\* What a launched talk or export finds.
LEMMA LaunchGood ==
  ASSUME AppInv, JobsRest, main.pc # "portal", rec.stage = "no", cap' = "no",
         UNCHANGED <<forNote, rec, view, main>>, Configure,
         NEW j \in {"talk", "export"}, Launch(j),
         j = "talk" => screen' = "AssistantBusy" /\ UNCHANGED <<fb, restore>>,
         j = "export" => screen' = "ExportBusy" /\ EnsureUi
  PROVE  Good
<1>1. /\ jobs' \in Jobs /\ jobs'["sync"] = jobs["sync"] /\ jobs'[j] \in {"start", "done"}
      /\ ~Active("sync")' /\ \A i \in {"talk", "export"} \ {j} : ~Active(i)'
      /\ \A i \in Workers : jobs'[i] # "online"
  BY LaunchedJobs
<1>2. RouteSettles /\ ~Owned /\ ~Active("sync") BY Configuring, RestOwnsNothing, RestIs
<1>3. /\ screen' \in Screens /\ fb' \in Feedbacks /\ restore' \in BOOLEAN
      /\ screen' = "ExportBusy" => ~Busy' /\ ~restore'
  BY Ensures DEF AppInv, Typed, Screens, Waits
<1>4. Typed' BY <1>1, <1>2, <1>3 DEF Typed, RouteSettles, AppInv
<1>5. Published' BY <1>1 DEF Published, AppInv
<1>6. Copied' BY <1>2 DEF Copied, SnapshotWhole, AppInv
<1>7. Locked' BY <1>1, <1>2 DEF Locked, RouteSettles, AppInv
<1>8. Told' BY <1>1, <1>3 DEF Told
<1>9. Alone' BY DEF Alone
<1>10. CanvasOwned' BY <1>3 DEF CanvasOwned, Menus
<1>11. Retained' BY <1>1, <1>2 DEF Retained, RouteSettles
<1>12. RadioSafe BY <1>2 DEF RadioSafe
<1> QED BY <1>4, <1>5, <1>6, <1>7, <1>8, <1>9, <1>10, <1>11, <1>12 DEF Good, AppInv

LEMMA StartAssistantGood ==
  ASSUME AppInv, main.pc # "portal", StartAssistant PROVE Good
<1>1. CASE rec.stage # "no" \/ ~JobsRest
  BY <1>1, Same DEF StartAssistant, JobsRest
<1>2. CASE rec.stage = "no" /\ JobsRest
  <2>1. Configure /\ cap' = "no" /\ UNCHANGED <<rec, view, main>>
    BY <1>2 DEF StartAssistant, JobsRest
  <2>2. CASE Show(FALSE) /\ UNCHANGED jobs
    <3>1. RecSettles BY <1>2, <2>1 DEF RecSettles, AppInv, Typed
    <3> QED BY <1>2, <2>1, <2>2, <3>1, Showing, Configuring, SettledSame
  <2>3. CASE /\ Launch("talk")
             /\ screen' = "AssistantBusy" /\ UNCHANGED <<forNote, fb, restore>>
    BY <1>2, <2>1, <2>3, LaunchGood
  <2> QED BY <1>2, <2>2, <2>3, Zenon DEF StartAssistant, JobsRest
<1> QED BY <1>1, <1>2

LEMMA StartExportGood ==
  ASSUME AppInv, main.pc # "portal", StartExport PROVE Good
<1>1. CASE ~Free BY <1>1, Same DEF StartExport
<1>2. CASE Free
  <2>1. JobsRest /\ rec.stage = "no" /\ cap = "no" BY <1>2, RestIs DEF Free, AudioActive
  <2> QED BY <1>2, <2>1, LaunchGood DEF StartExport, audioVars
<1> QED BY <1>1, <1>2

LEMMA StartPairingGood ==
  ASSUME AppInv, StartPairing PROVE Good
<1>1. CASE ~Free BY <1>1, Same DEF StartPairing
<1>2. CASE Free
  <2>1. JobsRest /\ rec.stage = "no" /\ cap = "no" BY <1>2, RestIs DEF Free, AudioActive
  <2>2. UNCHANGED <<audioVars, jobVars, main>> BY <1>2 DEF StartPairing
  <2>3. RecSettles BY <2>1, <2>2 DEF RecSettles, AppInv, Typed, audioVars
  <2>4. CASE Show(FALSE) /\ UNCHANGED routeVars
    BY <2>1, <2>2, <2>3, <2>4, Showing, RouteStays, SettledSame DEF jobVars
  <2>5. CASE /\ enabled' = TRUE /\ phone' = FALSE /\ UNCHANGED <<retain, selecting, wifi>>
             /\ \/ Show(FALSE) /\ UNCHANGED radio
                \/ /\ radio' = IF radio = "off" THEN "on" ELSE radio
                   /\ screen' = "PhonePairing" /\ EnsureUi /\ UNCHANGED forNote
    <3>1. RouteSettles
      BY <2>1, <2>5, RestOwnsNothing
      DEF RouteSettles, RouteTypeOK, Typed, AppInv, Retained
    <3>2. UiSettles BY <2>5, Showing, Ensures DEF UiSettles, Screens, AppInv, Typed
    <3> QED BY <2>1, <2>2, <2>3, <3>1, <3>2, SettledSame DEF jobVars
  <2> QED BY <1>2, <2>4, <2>5, Zenon DEF StartPairing
<1> QED BY <1>1, <1>2

LEMMA StopPairingGood ==
  ASSUME AppInv, NEW next \in {"Home", "RootMenu"}, StopPairing(next) PROVE Good
<1>1. JobsRest /\ rec.stage = "no" BY ScreenTells DEF StopPairing
<1>2. RecSettles BY <1>1 DEF StopPairing, RecSettles, AppInv, Typed, audioVars
<1>3. UiSettles BY Going DEF StopPairing, Screens, Menus, Preparing, AppInv
<1>4. RouteSettles BY Finishing DEF StopPairing, AppInv, Typed, RouteTypeOK
<1> QED BY <1>1, <1>2, <1>3, <1>4, SettledSame DEF StopPairing, jobVars

LEMMA SyncGood ==
  ASSUME AppInv, main.pc # "portal", NEW note \in BOOLEAN, Sync(note) PROVE Good
<1>1. CASE ~Free BY <1>1, Same DEF Sync
<1>2. CASE Free
  <2>1. JobsRest /\ rec.stage = "no" /\ cap = "no" BY <1>2, RestIs DEF Free, AudioActive
  <2> QED BY <1>2, <2>1, StartSyncGood DEF Sync, audioVars, AppInv, Typed
<1> QED BY <1>1, <1>2

LEMMA ConnectNowGood ==
  ASSUME AppInv, JobsRest, rec.stage = "no", ConnectNow PROVE Good
<1>1. RecSettles BY DEF ConnectNow, RecSettles, AppInv, Typed, audioVars
<1>2. UiSettles BY Ensures DEF ConnectNow, UiSettles, AppInv, Typed
<1>3. RouteSettles BY Reaching DEF ConnectNow
<1> QED BY <1>1, <1>2, <1>3, SettledSame DEF ConnectNow, jobVars

LEMMA PortalGood ==
  ASSUME AppInv, JobsRest, rec.stage = "no", Portal PROVE Good
<1>1. RecSettles BY DEF Portal, RecSettles, AppInv, Typed, audioVars
<1>2. UiSettles BY Ensures DEF Portal, UiSettles, AppInv, Typed
<1>3. RouteSettles
  BY RestOwnsNothing DEF Portal, RouteSettles, RouteTypeOK, AppInv, Typed, Retained
<1> QED BY <1>1, <1>2, <1>3, SettledSame DEF Portal, jobVars

-----------------------------------------------------------------------------
(* The gestures.                                                             *)

\* A link leads from a menu, or from Home to the menus.
LEMMA LinkedScreens ==
  ASSUME NEW s, NEW b, NEW a, NEW next, <<s, b, a, next>> \in Links
  PROVE  (s \in Menus \/ next \in Preparing) /\ (s \in Menus \/ s = "Home")
<1> DEFINE Fine(l) == (l[1] \in Menus \/ l[4] \in Preparing) /\ (l[1] \in Menus \/ l[1] = "Home")
<1>1. \A l \in RootLinks : Fine(l) BY DEF RootLinks, Menus, Preparing
<1>2. \A l \in NoteLinks : Fine(l) BY DEF NoteLinks, Menus, Clicks
<1>3. \A l \in SettingsLinks : Fine(l) BY DEF SettingsLinks, Menus, Clicks, Buttons
<1>4. \A l \in WifiLinks : Fine(l) BY DEF WifiLinks, Menus, Clicks
<1>5. \A l \in KeyboardLinks : Fine(l) BY DEF KeyboardLinks, Menus
<1>6. Fine(<<s, b, a, next>>) BY <1>1, <1>2, <1>3, <1>4, <1>5, Zenon DEF Links
<1> QED BY <1>6

LEMMA NavigateGood ==
  ASSUME AppInv, JobsRest, NEW b, NEW a, Navigate(b, a) PROVE Good
<1>1. UNCHANGED <<audioVars, jobVars, main, routeVars>> BY DEF Navigate
<1>2. ASSUME NEW next \in Screens, <<screen, b, a, next>> \in Links, Go(next) PROVE Good
  <2>1. (screen \in Menus \/ next \in Preparing) /\ screen \notin {"Recording", "Saving"}
    BY <1>2, LinkedScreens DEF Menus
  <2>2. screen \in Menus => ~Busy BY DEF AppInv, CanvasOwned
  <2>3. UiSettles BY <1>2, <2>1, <2>2, Going DEF AppInv
  <2>4. rec.stage = "no" BY <2>1, ScreenTells
  <2> QED BY <1>1, <2>3, <2>4, UiStep DEF audioVars, AppInv, Typed
<1>3. CASE UNCHANGED uiVars BY <1>1, <1>3, Same DEF appVars
<1> QED BY <1>2, <1>3, Zenon DEF Navigate

LEMMA ChooseGood ==
  ASSUME AppInv, JobsRest, main.pc = "loop", Choose PROVE Good
<1>1. ASSUME screen \in Menus PROVE rec.stage = "no" BY <1>1, ScreenTells DEF Menus
<1>2. CASE screen = "RootMenu" /\ (StartRecording \/ Sync(FALSE) \/ StartPairing)
  BY <1>1, <1>2, StartRecordingGood, SyncGood, StartPairingGood DEF Menus
<1>3. CASE screen = "NoteDetail" /\ (Sync(TRUE) \/ StartExport \/ NotDone(TRUE))
  BY <1>1, <1>3, SyncGood, StartExportGood, NotDoneGood DEF Menus
<1>4. CASE screen = "ConfirmDeleteOne" /\ NotDone(FALSE)
  BY <1>1, <1>4, NotDoneGood DEF Menus
<1>5. CASE screen = "WifiMenu" /\ Portal BY <1>1, <1>5, PortalGood DEF Menus
<1>6. CASE screen = "WifiNetworkDetail" /\ ConnectNow BY <1>1, <1>6, ConnectNowGood DEF Menus
<1> QED BY <1>2, <1>3, <1>4, <1>5, <1>6 DEF Choose

LEMMA HandleGood ==
  ASSUME AppInv, JobsRest, main.pc = "loop", NEW b \in Buttons, NEW a, Handle(b, a) PROVE Good
<1>1. CASE Navigate(b, a) BY <1>1, NavigateGood
<1>2. CASE Choose BY <1>2, ChooseGood
<1>3. CASE UNCHANGED appVars BY <1>3, Same
<1>4. CASE /\ screen = "SyncResult" /\ Go(IF forNote THEN "NoteDetail" ELSE "Home")
           /\ UNCHANGED <<audioVars, jobVars, main, routeVars>>
  <2>1. ~Busy /\ rec.stage = "no" BY <1>4, ScreenTells DEF AppInv, CanvasOwned
  <2>2. PICK next \in {"NoteDetail", "Home"} : Go(next) BY <1>4
  <2>3. UiSettles BY <2>1, <2>2, Going DEF Screens, Menus, AppInv
  <2> QED BY <1>4, <2>1, <2>3, UiStep DEF audioVars, AppInv, Typed
<1>5. CASE StopPairing("RootMenu") BY <1>5, StopPairingGood
<1>6. CASE screen = "Home" /\ (StartRecording \/ StartAssistant)
  <2>1. rec.stage = "no" BY <1>6, ScreenTells
  <2> QED BY <1>6, <2>1, StartRecordingGood, StartAssistantGood
<1>7. CASE StopRecording(a = "long")
  <2>1. (a = "long") \in BOOLEAN OBVIOUS
  <2> QED BY <1>7, <2>1, StopRecordingGood
<1>8. CASE StartAssistant BY <1>8, StartAssistantGood
<1>9. CASE /\ screen = "AssistantResult" /\ Go("Home") /\ cap' = "no"
           /\ UNCHANGED <<rec, jobVars, main, routeVars>>
  <2>1. rec.stage = "no" BY <1>9, ScreenTells
  <2>2. UiSettles BY <1>9, Going DEF Screens, Preparing, AppInv
  <2> QED BY <1>9, <2>1, <2>2, UiStep
<1> QED BY <1>1, <1>2, <1>3, <1>4, <1>5, <1>6, <1>7, <1>8, <1>9, Zenon DEF Handle

LEMMA AbandonGood ==
  ASSUME AppInv, main.pc = "loop", Abandon PROVE Good
<1>1. CASE /\ rec.stage # "no" /\ screen # "Saving"
           /\ ServiceSave([rec EXCEPT !.stage = IF @ = "on" THEN "end" ELSE @,
                                      !.discard = FALSE])
  <2>1. JobsRest BY <1>1, ScreenTells DEF AppInv, Told
  <2> QED BY <1>1, <2>1, StoppedRecorder, ServiceSaveGood DEF AppInv
<1>2. CASE /\ cap' = "no" /\ restore' = (restore \/ cap # "no")
           /\ UNCHANGED <<screen, forNote, fb, rec, jobVars, main, routeVars>>
  <2>1. CASE cap = "no"
    <3>1. restore' = restore BY <1>2, <2>1 DEF AppInv, Typed
    <3> QED BY <1>2, <2>1, <3>1, Same DEF appVars, uiVars, audioVars
  <2>2. CASE cap # "no"
    <3>1. CancelCapture BY <1>2, <2>2 DEF CancelCapture
    <3> QED BY <1>2, <3>1, CancelCaptureGood
  <2> QED BY <2>1, <2>2
<1> QED BY <1>1, <1>2, Zenon DEF Abandon

LEMMA OnButtonGood ==
  ASSUME AppInv, main.pc = "loop", NEW b \in Buttons, NEW a, OnButton(b, a) PROVE Good
<1>1. CASE a = "press"
  <2>1. UNCHANGED <<screen, forNote, rec, jobVars, main, routeVars>>
    BY <1>1, Zenon DEF OnButton
  <2>2. CASE UNCHANGED <<cap, fb, restore>>
    BY <2>1, <2>2, Same DEF appVars, uiVars, audioVars
  <2>3. CASE CancelCapture /\ UNCHANGED fb BY <2>1, <2>3, CancelCaptureGood
  <2>4. CASE screen \in {"Home", "AssistantResult"} /\ Prepare
    <3>1. JobsRest /\ rec.stage = "no" /\ screen \notin Canvas
      BY <2>4, ScreenTells DEF Canvas, Menus
    <3> QED BY <2>1, <2>4, <3>1, PrepareGood
  <2> QED BY <1>1, <2>2, <2>3, <2>4, Zenon DEF OnButton
<1>2. CASE a # "press" /\ (a = "release" \/ ~JobsRest)
  BY <1>2, Same DEF OnButton, JobsRest
<1>3. CASE a # "press" /\ a # "release" /\ JobsRest
  BY <1>3, HandleGood, Zenon DEF OnButton, JobsRest
<1> QED BY <1>1, <1>2, <1>3

-----------------------------------------------------------------------------
(* The loop.                                                                 *)

\* Only the worker of the voice screen goes on.
LEMMA FeedbackStep ==
  ASSUME AppInv, fb' \in Feedbacks, screen \notin Canvas,
         UNCHANGED <<screen, forNote, restore, audioVars, jobVars, main, routeVars>>
  PROVE  Good
<1> USE DEF audioVars, jobVars, routeVars, AppInv
<1>1. Typed' /\ Published' /\ Locked' BY DEF Typed, RouteTypeOK, Published, Locked
<1>2. Copied' /\ Told' /\ Alone' BY DEF Copied, SnapshotWhole, Told, Alone, Active
<1>3. CanvasOwned' /\ Retained' BY DEF CanvasOwned, Canvas, Retained
<1> QED BY <1>1, <1>2, <1>3 DEF Good, RadioSafe

LEMMA DrawGood ==
  ASSUME AppInv, Draw PROVE Good
<1>1. fb' \in Feedbacks BY DEF Draw, Claim, Rendered, AppInv, Typed, Feedbacks
<1>2. screen \notin Canvas
  BY DEF Draw, Claim, Rendered, AppInv, CanvasOwned, Canvas, Busy
<1> QED BY <1>1, <1>2, FeedbackStep DEF Draw

LEMMA EndedJob ==
  ASSUME AppInv, NEW j \in Workers, jobs' = [jobs EXCEPT ![j] = "no"]
  PROVE  /\ jobs' \in Jobs /\ jobs'[j] = "no" /\ jobs'["sync"] # "start"
         /\ \A i \in Workers \ {j} : jobs'[i] = jobs[i]
BY WorkersAssumption DEF AppInv, Typed, Jobs, Locked

\* serviceAssistant() and serviceNoteExport() see the end of the worker.
LEMMA EndGood ==
  ASSUME AppInv, NEW j \in {"talk", "export"}, jobs[j] = "done",
         screen = (IF j = "talk" THEN "AssistantBusy" ELSE "ExportBusy"),
         jobs' = [jobs EXCEPT ![j] = "no"], main.pc = "loop",
         UiSettles, RouteSettles, UNCHANGED <<audioVars, view, main>>
  PROVE  Good
<1>1. JobsRest /\ rec.stage = "no" BY ActiveIs, RestIs, ScreenTells
<1>2. /\ jobs' \in Jobs /\ jobs'[j] = "no" /\ jobs'["sync"] # "start"
      /\ \A i \in Workers \ {j} : jobs'[i] = jobs[i]
  BY EndedJob, WorkersAssumption
<1>3. JobsRest' BY <1>1, <1>2, ActiveIs, ActiveIsNext, RestIs, RestIsNext, WorkersAssumption
<1>4. RecSettles BY <1>1 DEF RecSettles, AppInv, Typed, audioVars
<1>5. Published' BY <1>2, WorkersAssumption DEF AppInv, Published
<1>6. main' \in Loop /\ view' \in Snapshots BY DEF AppInv, Typed
<1> QED BY <1>1, <1>2, <1>3, <1>4, <1>5, <1>6, Settled, RestOwnsNothing

LEMMA ServiceAssistantGood ==
  ASSUME AppInv, main.pc = "loop", Talking, ServiceAssistant PROVE Good
<1>0. screen = "AssistantBusy" BY DEF Talking, AppInv, Told
<1>1. CASE jobs["talk"] = "done"
  <2>1. /\ jobs' = [jobs EXCEPT !["talk"] = "no"]
        /\ IF phone THEN FinishRetaining(FALSE) ELSE Finish(FALSE)
        /\ screen' = "AssistantResult" /\ EnsureUi
        /\ UNCHANGED <<forNote, audioVars, view, main>>
    BY <1>1 DEF ServiceAssistant
  <2>2. RouteSettles BY <2>1, Finishing, Retaining DEF AppInv
  <2>3. UiSettles BY <2>1, Ensures DEF UiSettles, Screens, AppInv, Typed
  <2> QED BY <1>0, <1>1, <2>1, <2>2, <2>3, EndGood
<1>2. CASE jobs["talk"] # "done"
  BY <1>0, <1>2, Requests, FeedbackStep DEF ServiceAssistant, Canvas, Menus, AppInv
<1> QED BY <1>1, <1>2

LEMMA ServiceExportGood ==
  ASSUME AppInv, main.pc = "loop", Exporting, ServiceExport PROVE Good
<1>1. /\ jobs["export"] = "done" /\ jobs' = [jobs EXCEPT !["export"] = "no"]
      /\ Finish(FALSE) /\ Show(TRUE) /\ UNCHANGED <<audioVars, view, main>>
  BY DEF ServiceExport
<1>2. screen = "ExportBusy" BY <1>1, ActiveIs DEF Exporting
<1>3. RouteSettles /\ UiSettles BY <1>1, Finishing, Showing DEF AppInv
<1> QED BY <1>1, <1>2, <1>3, EndGood

LEMMA ServeRecordingGood ==
  ASSUME AppInv, main.pc = "loop", screen = "Recording", ServeRecording PROVE Good
<1>1. CASE rec.stage = "done" BY <1>1, StopRecordingGood DEF ServeRecording
<1>2. CASE rec.stage # "done"
  BY <1>2, Requests, FeedbackStep DEF ServeRecording, Canvas, Menus, AppInv
<1> QED BY <1>1, <1>2

LEMMA SaveServed ==
  ASSUME AppInv, main.pc = "loop", cap = "no", screen = "Saving", ServiceSave(rec) PROVE Good
<1>1. JobsRest /\ rec \in Recorders BY ScreenTells DEF AppInv, Typed
<1>2. CASE rec.stage # "no" BY <1>1, <1>2, ServiceSaveGood
<1>3. CASE rec.stage = "no"
  <2>1. rec' = rec /\ screen' = "Saving" /\ UNCHANGED <<forNote, cap, jobVars, main, routeVars>>
        /\ IF Busy THEN UNCHANGED <<fb, restore>> ELSE EnsureUi
    BY <1>3 DEF ServiceSave, FinishRecording
  <2>2. UiSettles
    BY <2>1, Ensures DEF UiSettles, Screens, Waits, Canvas, Menus, AppInv, Typed
  <2> QED BY <1>1, <1>3, <2>1, <2>2, UiStep
<1> QED BY <1>2, <1>3

LEMMA SeeSyncGood ==
  ASSUME AppInv, main.pc = "loop", cap = "no", Active("sync"), EnsureUi, SeeSync,
         UNCHANGED rec
  PROVE  Good
<1>1. view \in Snapshots /\ ~view.odd /\ view' = [view EXCEPT !.moved = FALSE]
      /\ main \in Loop /\ main' = [main EXCEPT !.pc = "a"]
      /\ UNCHANGED <<screen, forNote, audioVars, jobs, routeVars>>
  BY DEF SeeSync, At, AppInv, Typed
<1>2. view' \in Snapshots /\ view'.odd = view.odd /\ view'.v = view.v /\ view'.a = view.a
      /\ view'.b = view.b
  BY <1>1 DEF Snapshots
<1>3. main' \in Loop /\ main'.pc = "a" BY <1>1 DEF Loop
<1>4. fb' \in Feedbacks /\ ~Busy' /\ restore' = FALSE BY Ensures
<1> USE DEF AppInv, audioVars, routeVars
<1>5. Typed' BY <1>1, <1>2, <1>3, <1>4 DEF Typed, RouteTypeOK
<1>6. Published' BY <1>1, <1>2 DEF Published
<1>7. Copied' BY <1>1, <1>2, <1>3 DEF Copied, SnapshotWhole, Active
<1>8. Locked' /\ Retained' BY <1>1 DEF Locked, Retained
<1>9. Told' BY <1>1, <1>4 DEF Told, Active
<1>10. Alone' BY <1>1, <1>3 DEF Alone
<1>11. CanvasOwned' BY <1>4 DEF CanvasOwned
<1>12. RadioSafe BY <1>1 DEF RadioSafe
<1> QED BY <1>5, <1>6, <1>7, <1>8, <1>9, <1>10, <1>11, <1>12 DEF Good

LEMMA RestoreGood ==
  ASSUME AppInv, restore, ~Talking, screen \notin {"Recording", "Saving"}, Go("Home"),
         UNCHANGED <<audioVars, jobVars, main, routeVars>>
  PROVE  Good
<1>1. JobsRest /\ rec.stage = "no" BY RestIs DEF AppInv, Told, Talking
<1>2. UiSettles BY Going DEF Screens, Preparing, AppInv
<1> QED BY <1>1, <1>2, UiStep DEF audioVars, AppInv, Typed

LEMMA AppLoopGood ==
  ASSUME AppInv, AppLoop PROVE Good
<1>1. main.pc = "loop" /\ cap = "no" /\ LoopServes BY DEF AppLoop, Loops
<1>2. CASE Talking /\ ServiceAssistant BY <1>1, <1>2, ServiceAssistantGood
<1>3. CASE screen = "Recording" /\ ServeRecording BY <1>1, <1>3, ServeRecordingGood
<1>4. CASE screen = "Saving" /\ ServiceSave(rec) BY <1>1, <1>4, SaveServed
<1>5. CASE /\ restore /\ ~Talking /\ screen \notin {"Recording", "Saving"}
           /\ Go("Home") /\ UNCHANGED <<audioVars, jobVars, main, routeVars>>
  BY <1>5, RestoreGood
<1>6. CASE EnsureUi /\ Serves
  <2>1. CASE Exporting /\ ServiceExport BY <1>1, <2>1, ServiceExportGood
  <2>2. CASE StopPairing("Home") BY <2>2, StopPairingGood
  <2>3. CASE Active("sync") /\ SeeSync
    BY <1>1, <1>6, <2>3, SeeSyncGood DEF SeeSync, audioVars
  <2> QED BY <1>6, <2>1, <2>2, <2>3 DEF Serves
<1> QED BY <1>1, <1>2, <1>3, <1>4, <1>5, <1>6, Zenon DEF LoopServes

-----------------------------------------------------------------------------
(* The snapshot.                                                             *)

\* The loop copies: only what it has of the snapshot changes.
LEMMA CopyStep ==
  ASSUME AppInv, main.pc # "portal", main' \in Loop, main'.pc # "portal", Copied',
         UNCHANGED <<screen, forNote, fb, restore, audioVars, jobVars, routeVars>>
  PROVE  Good
<1> USE DEF audioVars, jobVars, routeVars, AppInv
<1>1. Typed' /\ Published' /\ Locked' BY DEF Typed, RouteTypeOK, Published, Locked
<1>2. Told' /\ Alone' BY DEF Told, Alone, Active
<1>3. CanvasOwned' /\ Retained' BY DEF CanvasOwned, Busy, Retained
<1> QED BY <1>1, <1>2, <1>3 DEF Good, RadioSafe

LEMMA ReadAGood ==
  ASSUME AppInv, ReadA PROVE Good
<1>1. main \in Loop /\ view \in Snapshots /\ main.pc = "a"
      /\ main' = [main EXCEPT !.pc = "b", !.a = view.a]
      /\ UNCHANGED <<screen, forNote, fb, restore, audioVars, jobVars, routeVars>>
  BY DEF ReadA, Reads, AppInv, Typed
<1>2. view.a \in Nat BY <1>1 DEF Snapshots
<1>3. main' \in Loop /\ main'.pc = "b" /\ main'.a = view.a BY <1>1, <1>2 DEF Loop
<1>4. Copied'
  BY <1>1, <1>3 DEF Copied, SnapshotWhole, AppInv, Published, Active, jobVars
<1> QED BY <1>1, <1>3, <1>4, CopyStep

LEMMA ReadBGood ==
  ASSUME AppInv, ReadB PROVE Good
<1>1. main \in Loop /\ view \in Snapshots /\ main.pc = "b"
      /\ main' = [main EXCEPT !.pc = "check", !.b = view.b]
      /\ UNCHANGED <<screen, forNote, fb, restore, audioVars, jobVars, routeVars>>
  BY DEF ReadB, Reads, AppInv, Typed
<1>2. view.b \in Nat BY <1>1 DEF Snapshots
<1>3. main' \in Loop /\ main'.pc = "check" /\ main'.a = main.a /\ main'.b = view.b
  BY <1>1, <1>2 DEF Loop
<1>4. Copied'
  BY <1>1, <1>3 DEF Copied, SnapshotWhole, AppInv, Published, Active, jobVars
<1> QED BY <1>1, <1>3, <1>4, CopyStep

LEMMA LoopTypes == AtLoop \in Loop /\ AtLoop.pc = "loop"
BY DEF AtLoop, Loop

LEMMA CheckGood ==
  ASSUME AppInv, Check PROVE Good
<1>1. main \in Loop /\ main.pc = "check"
      /\ UNCHANGED <<screen, forNote, fb, restore, audioVars, jobVars, routeVars>>
  BY DEF Check, Reads, AppInv, Typed
<1>2. CASE ~Stable
  <2>1. main' = AtLoop BY <1>2 DEF Check
  <2>2. Copied' BY <2>1, LoopTypes DEF Copied, SnapshotWhole
  <2> QED BY <1>1, <2>1, <2>2, LoopTypes, CopyStep
<1>3. CASE Stable
  <2>1. main' = [main EXCEPT !.pc = "got"] BY <1>3 DEF Check, At
  <2>2. main' \in Loop /\ main'.pc = "got" /\ main'.a = main.a /\ main'.b = main.b
    BY <1>1, <2>1 DEF Loop
  <2>3. Copied'
    BY <1>1, <1>3, <2>2
    DEF Copied, SnapshotWhole, Stable, AppInv, Published, Active, jobVars
  <2> QED BY <1>1, <2>2, <2>3, CopyStep
<1> QED BY <1>2, <1>3

\* The end of the synchronisation is acknowledged.
LEMMA ServiceSyncGood ==
  ASSUME AppInv, ServiceSync PROVE Good
<1>1. main.pc = "got" /\ main' = AtLoop BY DEF ServiceSync
<1>2. CASE ~(main.b = Last /\ ~view.odd /\ view.b = Last)
  <2>1. UNCHANGED <<uiVars, audioVars, jobVars, routeVars>> BY <1>2 DEF ServiceSync
  <2>2. Copied' BY <1>1, LoopTypes DEF Copied, SnapshotWhole
  <2> QED BY <1>1, <2>1, <2>2, LoopTypes, CopyStep DEF uiVars
<1>3. CASE main.b = Last /\ ~view.odd /\ view.b = Last
  <2>1. /\ jobs' = [jobs EXCEPT !["sync"] = "no"] /\ view' = FreshView
        /\ Show(forNote) /\ UNCHANGED audioVars
        /\ \E w \in {FALSE, wifi} : Finish(w)
    BY <1>3 DEF ServiceSync
  <2>2. jobs["sync"] = "done" /\ screen = "SyncBusy"
    BY <1>1, <1>3, ActiveIs DEF AppInv, Copied, SnapshotWhole, Told
  <2>3. ~Active("talk") /\ ~Active("export") /\ rec.stage = "no" BY <2>2, ScreenTells
  <2>4. /\ jobs' \in Jobs /\ jobs'["sync"] = "no"
        /\ jobs'["talk"] = jobs["talk"] /\ jobs'["export"] = jobs["export"]
    BY <2>1, EndedJob, WorkersAssumption
  <2>5. JobsRest' BY <2>3, <2>4, ActiveIs, ActiveIsNext, RestIsNext
  <2>6. view' \in Snapshots /\ Published'
    <3>1. view' \in Snapshots /\ view'.v = 0 /\ ~view'.odd /\ view'.a = 0 /\ view'.b = 0
      BY <2>1 DEF FreshView, Snapshots
    <3> QED BY <3>1, LastAssumption DEF Published
  <2>7. RouteSettles BY <2>1, Finishing DEF AppInv, Typed, RouteTypeOK
  <2>8. UiSettles BY <2>1, Showing DEF AppInv, Typed
  <2>9. RecSettles BY <2>1, <2>3 DEF RecSettles, AppInv, Typed, audioVars
  <2>10. ~Owned
    <3>1. selecting = "none" BY <2>1 DEF Finish
    <3>2. \A j \in Workers : jobs[j] # "online" BY <2>2, <2>3, ActiveIs, WorkersAssumption
    <3> QED BY <3>1, <3>2 DEF Owned
  <2> QED BY <1>1, <2>4, <2>5, <2>6, <2>7, <2>8, <2>9, <2>10, LoopTypes, Settled
<1> QED BY <1>2, <1>3

LEMMA PublishGood ==
  ASSUME AppInv, Publish PROVE Good
<1>1. /\ jobs["sync"] = "online" /\ view \in Snapshots /\ jobs \in Jobs
      /\ jobs' = IF view.odd /\ view.b = Last THEN [jobs EXCEPT !["sync"] = "done"] ELSE jobs
      /\ UNCHANGED <<uiVars, audioVars, main, routeVars>>
  BY DEF Publish, AppInv, Typed
<1>2. /\ jobs' \in Jobs /\ jobs'["sync"] = (IF view.odd /\ view.b = Last THEN "done" ELSE "online")
      /\ jobs'["talk"] = jobs["talk"] /\ jobs'["export"] = jobs["export"]
  BY <1>1, WorkersAssumption DEF Jobs
<1>3. main.pc = "got" => main.b # Last
  BY <1>1 DEF AppInv, Copied, SnapshotWhole
<1>4. ~view.odd => view.a = view.v /\ view.b = view.v /\ view.b # Last
  BY <1>1 DEF AppInv, Published
<1>5. view.odd => view.moved \/ main.pc \notin {"a", "b", "check"}
  BY DEF AppInv, Copied
<1>6. view' \in Snapshots /\ Published' /\ (view'.moved \/ main.pc \notin {"a", "b", "check"})
  <2>1. CASE ~view.odd /\ view' = Changed([view EXCEPT !.odd = TRUE, !.v = @ + 1])
    <3>1. view.v + 1 \in Nat /\ view.v + 1 # view.v BY <1>1 DEF Snapshots
    <3>2. view' \in Snapshots /\ view'.odd /\ view'.moved /\ view'.v = view.v + 1
          /\ view'.b = view.b
      BY <1>1, <2>1, <3>1 DEF Changed, Snapshots
    <3> QED BY <1>4, <2>1, <3>1, <3>2 DEF Published
  <2>2. CASE view.odd /\ view.a # view.v /\ view' = [view EXCEPT !.a = view.v]
    <3>1. view' \in Snapshots /\ view'.odd /\ view'.moved = view.moved /\ view'.a = view'.v
      BY <1>1, <2>2 DEF Snapshots
    <3> QED BY <1>5, <2>2, <3>1 DEF Published
  <2>3. CASE view.odd /\ view.a = view.v /\ view.b # view.v /\ view' = [view EXCEPT !.b = view.v]
    <3>1. view' \in Snapshots /\ view'.odd /\ view'.moved = view.moved /\ view'.a = view'.v
      BY <1>1, <2>3 DEF Snapshots
    <3> QED BY <1>5, <2>3, <3>1 DEF Published
  <2>4. CASE view.odd /\ view.b = view.v /\ view' = Changed([view EXCEPT !.odd = FALSE])
    <3>1. view' \in Snapshots /\ ~view'.odd /\ view'.moved /\ view'.a = view.a
          /\ view'.b = view.b /\ view'.v = view.v
      BY <1>1, <2>4 DEF Changed, Snapshots
    <3>2. view.a = view.v BY <2>4 DEF AppInv, Published
    <3> QED BY <1>2, <2>4, <3>1, <3>2 DEF Published
  <2> QED BY <2>1, <2>2, <2>3, <2>4, Zenon DEF Publish
<1>7. /\ Active("sync") /\ Active("sync")' /\ (Active("talk")' <=> Active("talk"))
      /\ (Active("export")' <=> Active("export"))
  BY <1>1, <1>2, ActiveIs, ActiveIsNext
<1> USE <1>1 DEF AppInv, uiVars, audioVars, routeVars
<1>8. Typed' BY <1>2, <1>6 DEF Typed, RouteTypeOK
<1>9. Copied' BY <1>3, <1>6, <1>7 DEF Copied, SnapshotWhole
<1>10. Locked'
  <2>1. selecting \in {"none", "talk", "export"}
    BY WorkersAssumption DEF Publish, Typed, RouteTypeOK
  <2> QED BY <1>2, <2>1 DEF Locked
<1>11. Told' BY <1>7 DEF Told
<1>12. Alone'
  <2>1. cap = "no" /\ main.pc # "portal" BY <1>7, WorkersAssumption DEF Alone
  <2> QED BY <2>1 DEF Alone
<1>13. CanvasOwned' BY DEF CanvasOwned, Busy
<1>14. Retained'
  <2>1. retain = "no" BY WorkersAssumption DEF Retained
  <2> QED BY <2>1 DEF Retained
<1>15. RadioSafe BY DEF RadioSafe
<1> QED BY <1>6, <1>8, <1>9, <1>10, <1>11, <1>12, <1>13, <1>14, <1>15 DEF Good

-----------------------------------------------------------------------------
(* The workers and the route.                                                *)

LEMMA LocksGood ==
  ASSUME AppInv, NEW j \in Workers, Locks(j) PROVE Good
<1>1. /\ jobs[j] \in {"start", "online"} /\ selecting = "none" /\ selecting' = j
      /\ retain' \in {"no", retain} /\ (jobs[j] = "start" => retain' = "no")
      /\ UNCHANGED <<enabled, phone, radio, wifi, uiVars, audioVars, view, main, jobs>>
  BY DEF Locks, LockToConnect, LockToRecover, Working
<1>2. retain' = "no" BY <1>1 DEF AppInv, Retained
<1>3. j # "none" BY WorkersAssumption
<1> USE <1>1 DEF AppInv, uiVars, audioVars
<1>4. Typed' BY <1>2 DEF Typed, RouteTypeOK
<1>5. Published' /\ Copied' /\ Told' /\ Alone'
  BY DEF Published, Copied, SnapshotWhole, Told, Alone, Active
<1>6. Locked' BY <1>3 DEF Locked
<1>7. CanvasOwned' BY DEF CanvasOwned, Busy
<1>8. Retained' BY <1>2 DEF Retained
<1>9. RadioSafe BY DEF RadioSafe
<1> QED BY <1>4, <1>5, <1>6, <1>7, <1>8, <1>9 DEF Good

\* A worker that goes on, or ends, under the screen it has.
LEMMA WorkerStep ==
  ASSUME AppInv, NEW j \in Workers, jobs[j] \in {"start", "online"},
         NEW s \in {"online", "done"}, jobs' = [jobs EXCEPT ![j] = s],
         s = "online" \/ j # "sync",
         UNCHANGED Working, RouteTypeOK',
         \/ UNCHANGED <<routeVars>> /\ selecting # j /\ s = "done"
         \/ selecting = j /\ selecting' = "none" /\ UNCHANGED retain,
         radio' # "off" \/ radio # "ready"
  PROVE  Good
<1>1. UNCHANGED <<uiVars, audioVars, view, main>> /\ jobs \in Jobs /\ Locked
  BY DEF Working, AppInv, Typed
<1>2. /\ jobs' \in Jobs /\ jobs'[j] = s /\ \A i \in Workers \ {j} : jobs'[i] = jobs[i]
  BY <1>1 DEF Jobs
<1>3. \A i \in {"talk", "export"} : Active(i)' => Active(i)
  BY <1>2, ActiveIs, ActiveIsNext, WorkersAssumption
<1>4. Active("sync")' <=> Active("sync")
  BY <1>1, <1>2, ActiveIs, ActiveIsNext, WorkersAssumption DEF Locked
<1> USE <1>1 DEF AppInv, uiVars, audioVars
<1>5. Typed' BY <1>2 DEF Typed
<1>6. Published' BY <1>2, WorkersAssumption DEF Published, Locked
<1>7. Copied' BY <1>2, <1>4, WorkersAssumption DEF Copied, SnapshotWhole, Locked
<1>8. Locked'
  <2>1. jobs'["sync"] # "start" BY <1>2, WorkersAssumption DEF Locked
  <2>2. selecting' # "none" => selecting' = selecting /\ selecting # j
    BY DEF routeVars
  <2>3. selecting' # "none" => selecting \in Workers BY <2>2 DEF Typed, RouteTypeOK
  <2> QED BY <1>2, <2>1, <2>2, <2>3 DEF Locked
<1>9. Told' BY <1>3, <1>4 DEF Told
<1>10. Alone' BY <1>3, <1>4, WorkersAssumption DEF Alone
<1>11. CanvasOwned' BY DEF CanvasOwned, Busy
<1>12. Retained'
  <2>1. j # "none" BY WorkersAssumption
  <2> QED BY <1>2, <2>1 DEF Retained, routeVars
<1>13. RadioSafe BY DEF RadioSafe
<1> QED BY <1>5, <1>6, <1>7, <1>8, <1>9, <1>10, <1>11, <1>12, <1>13 DEF Good

LEMMA SelectedGood ==
  ASSUME AppInv, NEW j \in Workers, Selected(j) PROVE Good
<1>1. selecting = j /\ selecting # "none" BY WorkersAssumption DEF Selected
<1>2. jobs[j] \in {"start", "online"} BY <1>1 DEF AppInv, Locked
<1>3. PICK r \in Routes(phone) \cup Recoveries :
        /\ Take(r) /\ Unlock
        /\ jobs' = [jobs EXCEPT ![j] = IF @ = "online" \/ r.ok THEN "online" ELSE "done"]
  BY DEF Selected
<1>4. /\ r.phone \in BOOLEAN /\ r.wifi \in BOOLEAN /\ r.radio \in {"off", "on", "ready"}
      /\ radio = "ready" => r.radio = "ready"
  BY RouteRange, RecoveryRange DEF AppInv, Typed, RouteTypeOK
<1>5. PICK s \in {"online", "done"} :
        jobs' = [jobs EXCEPT ![j] = s] /\ (jobs[j] = "online" => s = "online")
  BY <1>3
<1>6. s = "online" \/ j # "sync" BY <1>2, <1>5 DEF AppInv, Locked
<1>7. RouteTypeOK' /\ selecting' = "none" /\ UNCHANGED retain /\ radio' = r.radio
  BY <1>3, <1>4 DEF Take, Unlock, AppInv, Typed, RouteTypeOK
<1> QED BY <1>1, <1>2, <1>4, <1>5, <1>6, <1>7, WorkerStep DEF Selected

LEMMA EndsGood ==
  ASSUME AppInv, NEW j \in Workers, Ends(j) PROVE Good
<1>1. RouteTypeOK' BY DEF Ends, routeVars, AppInv, Typed, RouteTypeOK
<1> QED BY <1>1, WorkerStep DEF Ends, routeVars

LEMMA RadioGood ==
  ASSUME AppInv, Radio PROVE Good
<1>1. UNCHANGED <<uiVars, audioVars, jobVars, main>> /\ UNCHANGED <<phone, selecting>>
  BY DEF Radio, LinkUp, LinkDown, WifiLost, RetentionEnds
<1> DEFINE Kept == /\ RouteTypeOK' /\ ~(radio = "ready" /\ radio' = "off")
                   /\ wifi' \in {wifi, FALSE} /\ (retain' # "no" => retain # "no")
<1>2. Kept
  <2> USE DEF AppInv, Typed, RouteTypeOK
  <2>1. CASE LinkUp BY <2>1 DEF LinkUp
  <2>2. CASE LinkDown BY <2>2 DEF LinkDown
  <2>3. CASE WifiLost BY <2>3 DEF WifiLost
  <2>4. CASE RetentionEnds BY <2>4 DEF RetentionEnds
  <2> QED BY <2>1, <2>2, <2>3, <2>4 DEF Radio
<1> USE <1>1 DEF AppInv, uiVars, audioVars, jobVars
<1>3. Typed' BY <1>2 DEF Typed
<1>4. Published' /\ Copied' /\ Told' /\ Alone' /\ Locked'
  BY DEF Published, Copied, SnapshotWhole, Told, Alone, Locked, Active
<1>5. CanvasOwned' BY DEF CanvasOwned, Busy
<1>6. Retained' BY <1>2 DEF Retained, Typed, RouteTypeOK
<1> QED BY <1>2, <1>3, <1>4, <1>5, <1>6 DEF Good, RadioSafe

LEMMA AudioGood ==
  ASSUME AppInv, Audio PROVE Good
<1>1. UNCHANGED <<uiVars, jobVars, main, routeVars>>
      /\ cap' \in {"no", "ok", "failed"} /\ (cap' = "no" <=> cap = "no")
  BY DEF Audio, AppInv, Typed
<1>2. rec' \in Recorders /\ (rec'.stage = "no" <=> rec.stage = "no")
  BY DEF Audio, AppInv, Typed, Recorders
<1> USE <1>1 DEF AppInv, uiVars, jobVars, routeVars
<1>3. Typed' BY <1>2 DEF Typed, RouteTypeOK
<1>4. Published' /\ Copied' /\ Locked'
  BY DEF Published, Copied, SnapshotWhole, Locked, Active
<1>5. Told' /\ Alone' BY <1>2 DEF Told, Alone, Active
<1>6. CanvasOwned' /\ Retained' BY DEF CanvasOwned, Busy, Retained
<1> QED BY <1>3, <1>4, <1>5, <1>6 DEF Good, RadioSafe

\* service(): a retention that is due, and its end.
LEMMA SeeRetentionDueGood ==
  ASSUME AppInv, SeeRetentionDue PROVE Good
<1>1. main \in Loop /\ main.pc = "loop" /\ main' = [main EXCEPT !.pc = "expire"]
      /\ UNCHANGED <<uiVars, audioVars, jobVars, routeVars>>
  BY DEF SeeRetentionDue, Loops, At, AppInv, Typed
<1>2. main' \in Loop /\ main'.pc = "expire" BY <1>1 DEF Loop
<1>3. Copied' BY <1>2 DEF Copied, SnapshotWhole
<1> QED BY <1>1, <1>2, <1>3, CopyStep DEF uiVars

LEMMA EndRetentionGood ==
  ASSUME AppInv, EndRetention PROVE Good
<1>1. /\ main' = AtLoop /\ UNCHANGED <<uiVars, audioVars, jobVars, enabled, phone, selecting, wifi>>
      /\ selecting = "none"
      /\ IF retain = "due" THEN retain' = "no" /\ radio' = "off" ELSE UNCHANGED <<retain, radio>>
  BY DEF EndRetention, Expire
<1> USE <1>1 DEF AppInv, uiVars, audioVars, jobVars
<1>2. Typed' BY LoopTypes DEF Typed, RouteTypeOK
<1>3. Copied' BY LoopTypes DEF Copied, SnapshotWhole
<1>4. Published' /\ Locked' BY DEF Published, Locked
<1>5. Told' /\ Alone' BY LoopTypes DEF Told, Alone, Active
<1>6. CanvasOwned' BY DEF CanvasOwned, Busy
<1>7. Retained' BY DEF Retained
<1>8. RadioSafe BY DEF RadioSafe, Owned, Retained
<1> QED BY <1>2, <1>3, <1>4, <1>5, <1>6, <1>7, <1>8 DEF Good

-----------------------------------------------------------------------------
(* The console, the way to sleep and back.                                   *)

LEMMA ProbeGood ==
  ASSUME AppInv, Probe PROVE Good
<1>1. CASE ~Free BY <1>1, Same DEF Probe
<1>2. CASE Free
  <2>1. JobsRest /\ rec.stage = "no" /\ cap = "no" BY <1>2, RestIs DEF Free, AudioActive
  <2>2. Finish(wifi) /\ UNCHANGED <<uiVars, audioVars, jobVars, main>> BY <1>2 DEF Probe
  <2>3. RouteSettles BY <2>2, Finishing DEF AppInv, Typed, RouteTypeOK
  <2>4. UiSettles
    BY <2>2 DEF uiVars, UiSettles, AppInv, Typed, CanvasOwned, Canvas, Busy
  <2>5. RecSettles BY <2>1, <2>2 DEF RecSettles, AppInv, Typed, audioVars
  <2> QED BY <2>1, <2>2, <2>3, <2>4, <2>5, SettledSame DEF jobVars
<1> QED BY <1>1, <1>2

LEMMA RepairDriveGood ==
  ASSUME AppInv, RepairDrive PROVE Good
<1>1. JobsRest /\ rec.stage = "no" /\ cap = "no"
  BY RestIs DEF RepairDrive, Free, AudioActive
<1>2. PICK r \in Routes(FALSE) :
        /\ selecting = "none" /\ phone' = r.phone /\ wifi' = r.wifi /\ retain' = "no"
        /\ radio' = IF r.radio = radio THEN "off" ELSE r.radio
  BY DEF RepairDrive
<1>3. r.phone \in BOOLEAN /\ r.wifi \in BOOLEAN /\ r.radio \in {"off", "on", "ready"}
  BY RouteRange DEF AppInv
<1>4. RouteSettles
  BY <1>2, <1>3 DEF RepairDrive, RouteSettles, RouteTypeOK, AppInv, Typed
<1>5. UiSettles BY Ensures DEF RepairDrive, UiSettles, AppInv, Typed
<1>6. RecSettles BY <1>1 DEF RepairDrive, RecSettles, AppInv, Typed, audioVars
<1> QED BY <1>1, <1>4, <1>5, <1>6, SettledSame DEF RepairDrive, jobVars

LEMMA ConsoleGood ==
  ASSUME AppInv, Console PROVE Good
<1>1. main.pc = "loop" BY DEF Console
<1>2. CASE CancelCapture /\ UNCHANGED <<screen, forNote, fb, rec, jobVars, main, routeVars>>
  BY <1>2, CancelCaptureGood
<1>3. CASE Probe BY <1>3, ProbeGood
<1>4. CASE StartPairing BY <1>4, StartPairingGood
<1>5. CASE StopPairing("Home") BY <1>5, StopPairingGood
<1>6. CASE StartAssistant BY <1>1, <1>6, StartAssistantGood
<1>7. CASE Sync(FALSE) \/ Sync(TRUE) BY <1>1, <1>7, SyncGood
<1>8. CASE Free /\ ConnectNow
  <2>1. JobsRest /\ rec.stage = "no" BY <1>8, RestIs DEF Free, AudioActive
  <2> QED BY <1>8, <2>1, ConnectNowGood
<1>9. CASE RepairDrive BY <1>9, RepairDriveGood
<1> QED BY <1>2, <1>3, <1>4, <1>5, <1>6, <1>7, <1>8, <1>9, Zenon DEF Console

LEMMA EnterSleepGood ==
  ASSUME AppInv, NEW g, EnterSleep(g) PROVE Good
<1>1. CASE ~CanSleep BY <1>1, Same DEF EnterSleep
<1>2. CASE CanSleep
  <2>1. JobsRest /\ rec.stage = "no" /\ cap = "no"
    BY <1>2, RestIs DEF CanSleep, Free, AudioActive
  <2>2. fb' = Quiet /\ Finish(FALSE)
        /\ UNCHANGED <<screen, forNote, restore, audioVars, jobVars, main>>
    BY <1>2 DEF EnterSleep
  <2>3. RouteSettles BY <2>2, Finishing DEF AppInv
  <2>4. UiSettles BY <2>2, QuietFacts DEF UiSettles, AppInv, Typed, Busy
  <2>5. RecSettles BY <2>1, <2>2 DEF RecSettles, AppInv, Typed, audioVars
  <2> QED BY <2>1, <2>2, <2>3, <2>4, <2>5, SettledSame DEF jobVars
<1> QED BY <1>1, <1>2

LEMMA SleepRefusedGood ==
  ASSUME AppInv, SleepRefused PROVE Good
<1>1. JobsRest /\ rec.stage = "no"
  BY RestIs DEF SleepRefused, Quiescent, CanSleep, Free, AudioActive
<1>2. UiSettles BY Going DEF SleepRefused, Screens, Preparing, AppInv
<1> QED BY <1>1, <1>2, UiStep DEF SleepRefused, audioVars, AppInv, Typed

LEMMA NoneAtWork ==
  /\ NoJobs \in Jobs /\ \A j \in Workers : NoJobs[j] = "no"
  /\ NoRec \in Recorders /\ NoRec.stage = "no"
  /\ FreshView \in Snapshots
  /\ FreshView.v = 0 /\ ~FreshView.odd /\ FreshView.a = 0 /\ FreshView.b = 0
  /\ Quiet \in Feedbacks /\ [Quiet EXCEPT !.want = TRUE, !.pend = TRUE] \in Feedbacks
<1>1. NoJobs \in Jobs /\ \A j \in Workers : NoJobs[j] = "no" BY DEF NoJobs, Jobs
<1>2. NoRec \in Recorders /\ NoRec.stage = "no" BY DEF NoRec, Recorders
<1>3. /\ FreshView \in Snapshots
      /\ FreshView.v = 0 /\ ~FreshView.odd /\ FreshView.a = 0 /\ FreshView.b = 0
  BY DEF FreshView, Snapshots
<1>4. Quiet \in Feedbacks /\ [Quiet EXCEPT !.want = TRUE, !.pend = TRUE] \in Feedbacks
  BY DEF Quiet, Feedbacks
<1> QED BY <1>1, <1>2, <1>3, <1>4

LEMMA BootsGood ==
  ASSUME AppInv, ~Owned, NEW b, NEW c \in {"no", "ok", "failed"}, NEW f \in Feedbacks,
         NEW e \in BOOLEAN, Boots(b, c, f, AtLoop, e)
  PROVE  Good
<1>1. UiSettles BY DEF Boots, UiSettles, Screens, Canvas, Menus
<1>2. RecSettles BY NoneAtWork DEF Boots, RecSettles
<1>3. RouteSettles BY DEF Boots, RouteSettles, RouteTypeOK
<1>4. /\ jobs' = NoJobs /\ view' = FreshView /\ main' = AtLoop BY DEF Boots
<1>5. jobs' \in Jobs /\ jobs'["sync"] = "no" /\ JobsRest'
  BY <1>4, NoneAtWork, ActiveIsNext, RestIsNext, WorkersAssumption
<1>6. view' \in Snapshots /\ Published' BY <1>4, NoneAtWork, LastAssumption DEF Published
<1> QED BY <1>1, <1>2, <1>3, <1>4, <1>5, <1>6, LoopTypes, Settled

\* A deep sleep has nothing to lose, nor has the portal.
LEMMA WakesGood ==
  ASSUME AppInv, Resting, Wakes PROVE Good
<1>1. JobsRest /\ enabled \in BOOLEAN
  BY RestIs DEF Wakes, Resting, Free, AudioActive, AppInv, Typed, RouteTypeOK
<1>2. ~Owned BY <1>1, RestOwnsNothing
<1>3. ASSUME NEW f \in {Quiet, [Quiet EXCEPT !.want = TRUE, !.pend = TRUE]}, NEW b,
             NEW c, c = (IF f = Quiet THEN "failed" ELSE "ok") \/ c = "no",
             Boots(b, c, f, AtLoop, enabled)
      PROVE  Good
  BY <1>1, <1>2, <1>3, NoneAtWork, BootsGood
<1> QED BY <1>3, Zenon DEF Wakes

LEMMA PortalSavesGood ==
  ASSUME AppInv, PortalSaves PROVE Good
<1>1. JobsRest BY DEF PortalSaves, AppInv, Alone, JobsRest
<1>2. ~Owned BY <1>1, RestOwnsNothing
<1> QED BY <1>2, NoneAtWork, BootsGood DEF PortalSaves

LEMMA InPortalGood ==
  ASSUME AppInv, NEW b, NEW a, InPortal(b, a) PROVE Good
<1>1. main.pc = "portal" /\ JobsRest BY DEF InPortal, AppInv, Alone, JobsRest
<1>2. /\ main' \in {main, AtLoop} /\ wifi' \in {wifi, FALSE}
      /\ UNCHANGED <<uiVars, audioVars, jobVars, enabled, phone, retain, selecting, radio>>
  BY DEF InPortal
<1> USE <1>2 DEF AppInv, uiVars, audioVars, jobVars
<1>3. Typed' BY LoopTypes DEF Typed, RouteTypeOK
<1>4. Copied' BY <1>1, LoopTypes DEF Copied, SnapshotWhole
<1>5. Published' /\ Locked' BY DEF Published, Locked
<1>6. Told' /\ Alone' BY LoopTypes DEF Told, Alone, Active
<1>7. CanvasOwned' BY DEF CanvasOwned, Busy
<1>8. Retained' BY DEF Retained, Typed, RouteTypeOK
<1> QED BY <1>3, <1>4, <1>5, <1>6, <1>7, <1>8 DEF Good, RadioSafe

-----------------------------------------------------------------------------
(* Inputs and sleep: the steps that leave them alone.                        *)

Awake == sleep \in {"no", "deferred"}

\* What keeps a device from sleeping.
LEMMA AwakeAtWork ==
  ASSUME IInv,
         \/ main.pc # "loop" \/ Busy \/ cap # "no" \/ rec.stage # "no" \/ ~JobsRest
         \/ radio # "off" \/ wifi \/ retain # "no" \/ selecting # "none"
  PROVE  Awake
BY RestIs DEF IInv, InputTyped, Resting, AtSleep, Free, AudioActive, Awake

LEMMA KeptInputs ==
  ASSUME IInv, AppInv', UNCHANGED outside, Awake,
         cap' # "no" /\ ~stray => cap # "no" /\ screen' = screen /\ main'.pc = "loop"
  PROVE  IInv'
<1>1. UNCHANGED <<btn, chord, mixed, stray, sleep>> BY DEF outside, inputVars
<1>2. InputTyped' BY <1>1 DEF IInv, InputTyped
<1>3. Resting' BY <1>1 DEF Resting, AtSleep, Awake
<1>4. Heard' BY <1>1 DEF IInv, Heard, AtSleep, Held
<1>5. Awaited' BY <1>1 DEF IInv, Awaited
<1> QED BY <1>2, <1>3, <1>4, <1>5 DEF IInv

LEMMA LoopKeeps ==
  ASSUME IInv, AppLoop PROVE IInv'
<1>1. Awake /\ main.pc = "loop" /\ cap = "no" /\ UNCHANGED outside /\ LoopServes
  BY DEF AppLoop, Loops, Awake
<1>2. cap' = "no"
  <2>1. CASE ServiceAssistant BY <1>1, <2>1 DEF ServiceAssistant, audioVars
  <2>2. CASE ServeRecording
    <3>1. CASE StopRecording(FALSE)
      BY <1>1, <3>1 DEF StopRecording, appVars, audioVars, ServiceSave, FinishRecording
    <3>2. CASE UNCHANGED audioVars BY <1>1, <3>2 DEF audioVars
    <3> QED BY <2>2, <3>1, <3>2 DEF ServeRecording
  <2>3. CASE ServiceSave(rec) BY <1>1, <2>3 DEF ServiceSave, FinishRecording
  <2>4. CASE UNCHANGED audioVars BY <1>1, <2>4 DEF audioVars
  <2>5. CASE Serves
    BY <1>1, <2>5 DEF Serves, ServiceExport, StopPairing, SeeSync, audioVars
  <2> QED BY <1>1, <2>1, <2>2, <2>3, <2>4, <2>5, Zenon DEF LoopServes
<1>3. AppInv' BY AppLoopGood DEF IInv, Good
<1> QED BY <1>1, <1>2, <1>3, KeptInputs

LEMMA RetentionKeeps ==
  ASSUME IInv, SeeRetentionDue \/ EndRetention PROVE IInv'
<1>1. AppInv' BY SeeRetentionDueGood, EndRetentionGood DEF IInv, Good
<1>2. CASE SeeRetentionDue
  BY <1>1, <1>2, KeptInputs DEF SeeRetentionDue, Loops, Awake, audioVars
<1>3. CASE EndRetention
  <2>1. Awake BY <1>3, AwakeAtWork DEF EndRetention
  <2> QED BY <1>1, <1>3, <2>1, KeptInputs, LoopTypes DEF EndRetention, audioVars, uiVars
<1> QED BY <1>2, <1>3

LEMMA ReadingKeeps ==
  ASSUME IInv, Reading PROVE IInv'
<1>1. AppInv' BY ReadAGood, ReadBGood, CheckGood, ServiceSyncGood DEF Reading, IInv, Good
<1>2. main.pc \in {"a", "b", "check", "got"} /\ UNCHANGED outside
  BY DEF Reading, ReadA, ReadB, Check, ServiceSync, Reads
<1>3. cap' = "no"
  <2>1. cap = "no" BY <1>2, WorkersAssumption DEF IInv, AppInv, Copied, Alone
  <2> QED BY <2>1 DEF Reading, ReadA, ReadB, Check, ServiceSync, Reads, audioVars
<1> QED BY <1>1, <1>2, <1>3, AwakeAtWork, KeptInputs

LEMMA ConsoleKeeps ==
  ASSUME IInv, Console PROVE IInv'
<1>1. AppInv' BY ConsoleGood DEF IInv, Good
<1>2. Awake /\ main.pc = "loop" /\ UNCHANGED outside BY DEF Console, Awake
<1>3. CASE cap = "no"
  <2>1. cap' = "no"
    <3>1. CASE CancelCapture BY <1>3, <3>1 DEF CancelCapture
    <3>2. CASE Probe BY <1>3, <3>2 DEF Probe, appVars, audioVars
    <3>3. CASE StartPairing BY <1>3, <3>3 DEF StartPairing, appVars, audioVars
    <3>4. CASE StopPairing("Home") BY <1>3, <3>4 DEF StopPairing, audioVars
    <3>5. CASE StartAssistant BY <1>3, <3>5 DEF StartAssistant, appVars, audioVars
    <3>6. CASE Sync(FALSE) \/ Sync(TRUE) BY <1>3, <3>6 DEF Sync, appVars, audioVars
    <3>7. CASE ConnectNow \/ RepairDrive BY <1>3, <3>7 DEF ConnectNow, RepairDrive, audioVars
    <3> QED BY <3>1, <3>2, <3>3, <3>4, <3>5, <3>6, <3>7, Zenon DEF Console
  <2> QED BY <1>1, <1>2, <2>1, KeptInputs
<1>4. CASE cap # "no"
  <2>1. ~Free /\ AudioActive BY <1>4 DEF Free, AudioActive
  <2>2. CASE cap' = "no" BY <1>1, <1>2, <2>2, KeptInputs
  <2>3. CASE UNCHANGED appVars
    <3>1. screen' = screen /\ main' = main BY <2>3 DEF appVars, uiVars
    <3> QED BY <1>1, <1>2, <1>4, <3>1, KeptInputs
  <2>4. CASE StopPairing("Home")
    <3>1. stray BY <1>4, <2>4 DEF StopPairing, IInv, Awaited
    <3> QED BY <1>1, <1>2, <3>1, KeptInputs
  <2> QED BY <1>4, <2>1, <2>2, <2>3, <2>4, Zenon
          DEF Console, CancelCapture, Probe, StartPairing, Sync, RepairDrive
<1> QED BY <1>3, <1>4

LEMMA WorldKeeps ==
  ASSUME IInv, Draw \/ Publish \/ Audio \/ Radio PROVE IInv'
<1>1. AppInv' BY DrawGood, PublishGood, AudioGood, RadioGood DEF IInv, Good
<1>2. Awake
  <2>1. CASE Draw BY <2>1, AwakeAtWork DEF Draw, Claim, Rendered, Busy
  <2>2. CASE Publish
    <3>1. ~JobsRest BY <2>2, ActiveIs, RestIs DEF Publish
    <3> QED BY <3>1, AwakeAtWork
  <2>3. CASE Audio BY <2>3, AwakeAtWork DEF Audio
  <2>4. CASE Radio
    BY <2>4, AwakeAtWork DEF Radio, LinkUp, LinkDown, WifiLost, RetentionEnds
  <2> QED BY <2>1, <2>2, <2>3, <2>4
<1>3. /\ UNCHANGED <<screen, main>> /\ UNCHANGED outside
      /\ cap' # "no" => cap # "no"
  BY DEF Draw, Publish, Audio, Radio, uiVars, audioVars, outside
<1>4. cap # "no" /\ ~stray => main.pc = "loop" BY DEF IInv, Awaited
<1> QED BY <1>1, <1>2, <1>3, <1>4, KeptInputs

LEMMA WorkKeeps ==
  ASSUME IInv, NEW j \in Workers, Work(j) PROVE IInv'
<1>1. AppInv' BY LocksGood, SelectedGood, EndsGood DEF Work, IInv, Good
<1>2. Awake
  <2>1. CASE Selected(j) BY <2>1, WorkersAssumption, AwakeAtWork DEF Selected
  <2>2. CASE Locks(j) \/ Ends(j)
    <3>1. jobs[j] \in {"start", "online"}
      BY <2>2 DEF Locks, Ends
    <3>2. ~JobsRest
      BY <3>1, ActiveIs, RestIs, WorkersAssumption DEF IInv, AppInv, Locked
    <3> QED BY <3>2, AwakeAtWork
  <2> QED BY <2>1, <2>2 DEF Work
<1>3. UNCHANGED <<screen, main, cap>> /\ UNCHANGED outside
  BY DEF Work, Locks, Selected, Ends, Working, uiVars, audioVars
<1>4. cap # "no" /\ ~stray => main.pc = "loop" BY DEF IInv, Awaited
<1> QED BY <1>1, <1>2, <1>3, <1>4, KeptInputs

-----------------------------------------------------------------------------
(* The gestures: what the chord has heard.                                   *)

\* What an event makes of the gesture of its button.
LEMMA AfterIs ==
  ASSUME InputTyped, NEW b \in Buttons, NEW a \in Actions, Possible(b, a)
  PROVE  /\ After(b, a) \in [Buttons -> Gestures] /\ After(b, a)["Pwr"] # "latched"
         /\ \A x \in Buttons \ {b} : After(b, a)[x] = btn[x]
         /\ a = "press" => After(b, a)[b] \in {"down", "strange"}
         /\ a = "press" /\ main.pc = "loop" => After(b, a)[b] = "down"
         /\ a = "long" => After(b, a)[b] = (IF btn[b] = "strange" THEN "stranger" ELSE "long")
         /\ a \in {"short", "release"} => After(b, a)[b] = "up"
         /\ a = "long" => btn[b] \in {"down", "strange"}
         /\ a = "short" => btn[b] \in {"down", "latched", "strange"}
         /\ a = "release" => btn[b] \in {"long", "stranger"}
<1>1. PICK x \in Gestures \ {"latched"} :
        /\ After(b, a) = [btn EXCEPT ![b] = x]
        /\ a = "press" => x \in {"down", "strange"}
        /\ a = "press" /\ main.pc = "loop" => x = "down"
        /\ a = "long" => x = (IF btn[b] = "strange" THEN "stranger" ELSE "long")
        /\ a \in {"short", "release"} => x = "up"
  BY DEF After, Actions, Gestures
<1>2. btn \in [Buttons -> Gestures] /\ btn["Pwr"] # "latched" BY DEF InputTyped
<1>3. /\ a = "long" => btn[b] \in {"down", "strange"}
      /\ a = "short" => btn[b] \in {"down", "latched", "strange"}
      /\ a = "release" => btn[b] \in {"long", "stranger"}
  BY <1>2 DEF Possible, Actions, Gestures
<1> QED BY <1>1, <1>2, <1>3 DEF Buttons

Chords == [Boot : BOOLEAN, Pwr : BOOLEAN, on : BOOLEAN]

\* A press joins: the other button counts as long as the chord holds it.
LEMMA JoinedIs ==
  ASSUME InputTyped, NEW b \in Buttons, NEW a
  PROVE  /\ Joined(b, a) \in Chords
         /\ Joined(b, a).Boot <=> chord.Boot \/ (b = "Boot" /\ a = "press")
         /\ Joined(b, a).Pwr <=> chord.Pwr \/ (b = "Pwr" /\ a = "press")
         /\ Joined(b, a).on <=> chord.on \/ (Joined(b, a).Boot /\ Joined(b, a).Pwr)
<1>1. chord \in Chords BY DEF InputTyped, Chords
<1>2. (chord[b] \/ a = "press") \in BOOLEAN OBVIOUS
<1>3. PICK p \in BOOLEAN : (p <=> chord[b] \/ a = "press") BY <1>2
<1> DEFINE c == [chord EXCEPT ![b] = p]
<1>4. /\ c \in Chords /\ c.on = chord.on
      /\ c.Boot <=> chord.Boot \/ (b = "Boot" /\ a = "press")
      /\ c.Pwr <=> chord.Pwr \/ (b = "Pwr" /\ a = "press")
  <2>1. CASE b = "Boot" BY <1>1, <1>3, <2>1 DEF Chords
  <2>2. CASE b = "Pwr" BY <1>1, <1>3, <2>2 DEF Chords
  <2> QED BY <2>1, <2>2 DEF Buttons
<1>5. (c.on \/ (c.Boot /\ c.Pwr)) \in BOOLEAN OBVIOUS
<1>6. PICK o \in BOOLEAN : (o <=> c.on \/ (c.Boot /\ c.Pwr)) BY <1>5
<1>7. Joined(b, a) = [c EXCEPT !.on = o] BY <1>3, <1>6, Zenon DEF Joined
<1> HIDE DEF c
<1> QED BY <1>4, <1>6, <1>7 DEF Chords

\* A release leaves; the chord goes on until both have.
LEMMA LeftIs ==
  ASSUME NEW c \in Chords, NEW b \in Buttons, NEW a
  PROVE  /\ Left(c, b, a) \in Chords
         /\ Left(c, b, a).Boot <=> c.Boot /\ ~(b = "Boot" /\ a \in {"short", "release"})
         /\ Left(c, b, a).Pwr <=> c.Pwr /\ ~(b = "Pwr" /\ a \in {"short", "release"})
         /\ Left(c, b, a).on <=> c.on /\ (Left(c, b, a).Boot \/ Left(c, b, a).Pwr)
<1>1. (c[b] /\ a \notin {"short", "release"}) \in BOOLEAN OBVIOUS
<1>2. PICK p \in BOOLEAN : (p <=> c[b] /\ a \notin {"short", "release"}) BY <1>1
<1> DEFINE d == [c EXCEPT ![b] = p]
<1>3. /\ d \in Chords /\ d.on = c.on
      /\ d.Boot <=> c.Boot /\ ~(b = "Boot" /\ a \in {"short", "release"})
      /\ d.Pwr <=> c.Pwr /\ ~(b = "Pwr" /\ a \in {"short", "release"})
  <2>1. CASE b = "Boot" BY <1>2, <2>1 DEF Chords
  <2>2. CASE b = "Pwr" BY <1>2, <2>2 DEF Chords
  <2> QED BY <2>1, <2>2 DEF Buttons
<1>4. (d.on /\ (d.Boot \/ d.Pwr)) \in BOOLEAN OBVIOUS
<1>5. PICK o \in BOOLEAN : (o <=> d.on /\ (d.Boot \/ d.Pwr)) BY <1>4
<1>6. Left(c, b, a) = [d EXCEPT !.on = o] BY <1>2, <1>5, Zenon DEF Left
<1> HIDE DEF d
<1> QED BY <1>3, <1>5, <1>6 DEF Chords

\* What the chord knows after an event: the buttons held, and that they were
\* held together.
LEMMA ChordHears ==
  ASSUME IInv, Polls, ~AtSleep, NEW b \in Buttons, NEW a \in Actions, Possible(b, a),
         Mixes(After(b, a)), chord' = Left(Joined(b, a), b, a)
  PROVE  /\ chord' \in Chords /\ mixed' \in BOOLEAN
         /\ chord'.Boot /\ chord'.Pwr => chord'.on
         /\ mixed' => chord'.on
         /\ \A x \in Buttons : After(b, a)[x] \in {"down", "long"} => chord'[x]
<1> DEFINE g == After(b, a)
           c == Joined(b, a)
<1>1. /\ c \in Chords /\ (c.Boot <=> chord.Boot \/ (b = "Boot" /\ a = "press"))
      /\ c.Pwr <=> chord.Pwr \/ (b = "Pwr" /\ a = "press")
      /\ c.on <=> chord.on \/ (c.Boot /\ c.Pwr)
  BY JoinedIs DEF IInv
<1> HIDE DEF c
<1>2. /\ chord' \in Chords /\ (chord'.Boot <=> c.Boot /\ ~(b = "Boot" /\ a \in {"short", "release"}))
      /\ chord'.Pwr <=> c.Pwr /\ ~(b = "Pwr" /\ a \in {"short", "release"})
      /\ chord'.on <=> c.on /\ (chord'.Boot \/ chord'.Pwr)
  BY <1>1, LeftIs DEF c
<1>3. /\ \A x \in Buttons \ {b} : g[x] = btn[x]
      /\ a = "press" => g[b] = "down"
      /\ a = "long" => g[b] = (IF btn[b] = "strange" THEN "stranger" ELSE "long")
      /\ a \in {"short", "release"} => g[b] = "up"
      /\ a = "long" => btn[b] \in {"down", "strange"}
  BY AfterIs DEF IInv, Polls
<1> HIDE DEF g
<1>4. /\ btn["Boot"] \in {"down", "long"} => chord.Boot
      /\ btn["Pwr"] \in {"down", "long"} => chord.Pwr
      /\ mixed => chord.on
  BY DEF IInv, Heard, Buttons
<1>5. /\ g["Boot"] \in {"down", "long"} => chord'.Boot
      /\ g["Pwr"] \in {"down", "long"} => chord'.Pwr
  <2>1. CASE b = "Boot" BY <1>1, <1>2, <1>3, <1>4, <2>1 DEF Actions, Buttons
  <2>2. CASE b = "Pwr" BY <1>1, <1>2, <1>3, <1>4, <2>2 DEF Actions, Buttons
  <2> QED BY <2>1, <2>2 DEF Buttons
<1>6. mixed' \in BOOLEAN /\ (mixed' => Held(g) # {} /\ (mixed \/ Held(g) = Buttons))
  <2>1. (mixed \/ Held(g) = Buttons) \in BOOLEAN OBVIOUS
  <2> QED BY <2>1 DEF Mixes, g
<1>7. mixed' => chord'.on
  <2>1. Held(g) # {} => chord'.Boot \/ chord'.Pwr BY <1>5 DEF Held, Buttons
  <2>2. Held(g) = Buttons => chord'.Boot /\ chord'.Pwr BY <1>5 DEF Held, Buttons
  <2> QED BY <1>1, <1>2, <1>4, <1>6, <2>1, <2>2
<1> QED BY <1>1, <1>2, <1>5, <1>6, <1>7 DEF Buttons, g

\* Without a chord, one button at most is held.
LEMMA AloneIsPure ==
  ASSUME IInv, Polls, ~AtSleep, NEW b \in Buttons, NEW a \in Actions, Possible(b, a),
         Mixes(After(b, a)), ~Joined(b, a).on
  PROVE  ~mixed' /\ ~mixed
<1>1. /\ Joined(b, a).on <=> chord.on \/ (Joined(b, a).Boot /\ Joined(b, a).Pwr)
      /\ Joined(b, a) \in Chords
  BY JoinedIs DEF IInv
<1>2. ~mixed BY <1>1 DEF IInv, Heard
<1>3. Left(Joined(b, a), b, a).on => Joined(b, a).on BY <1>1, LeftIs
<1>4. /\ Joined(b, a).Boot <=> chord.Boot \/ (b = "Boot" /\ a = "press")
      /\ Joined(b, a).Pwr <=> chord.Pwr \/ (b = "Pwr" /\ a = "press")
  BY JoinedIs DEF IInv
<1>5. Held(After(b, a)) # Buttons
  <2>1. /\ \A x \in Buttons \ {b} : After(b, a)[x] = btn[x]
        /\ After(b, a)[b] \in {"down", "long"} => a = "press" \/ btn[b] \in {"down", "long"}
    BY AfterIs DEF IInv, Polls, Actions
  <2>2. \A x \in Buttons : After(b, a)[x] \in {"down", "long"} =>
          btn[x] \in {"down", "long"} \/ (x = b /\ a = "press")
    BY <2>1
  <2>3. \A x \in Buttons : btn[x] \in {"down", "long"} => chord[x] BY DEF IInv, Heard
  <2>4. Held(After(b, a)) = Buttons => Joined(b, a).Boot /\ Joined(b, a).Pwr
    BY <1>4, <2>2, <2>3 DEF Held, Buttons
  <2> QED BY <1>1, <2>4
<1> QED BY <1>2, <1>5 DEF Mixes

LEMMA MutedIs ==
  ASSUME NEW g \in [Buttons -> Gestures]
  PROVE  /\ Muted(g) \in [Buttons -> Gestures] /\ Muted(g)["Pwr"] # "latched"
         /\ Held(Muted(g)) = {} /\ \A b \in Buttons : Muted(g)[b] \notin {"down", "long"}
<1>1. \A b \in Buttons : Muted(g)[b] \in {"up", "mute"} BY DEF Muted
<1> QED BY <1>1 DEF Muted, Held, Gestures, Buttons

\* What enterScreensaver() leaves behind.
LEMMA EnteredSleep ==
  ASSUME AppInv, NEW g, EnterSleep(g), CanSleep
  PROVE  /\ sleep' = "pending" /\ btn' = Muted(g) /\ cap' = "no"
         /\ radio' = "off" /\ ~wifi' /\ retain' = "no" /\ selecting' = "none" /\ main' = main
         /\ ~Busy' /\ Free'
<1>1. /\ sleep' = "pending" /\ btn' = Muted(g) /\ fb' = Quiet /\ Finish(FALSE)
      /\ UNCHANGED <<audioVars, jobVars, main>>
  BY DEF EnterSleep
<1>2. cap = "no" /\ Free BY DEF CanSleep, Free, AudioActive
<1>3. Free' BY <1>1, <1>2 DEF Free, AudioActive, Active, audioVars, jobVars
<1>4. ~Busy' BY <1>1, QuietFacts DEF Busy
<1>5. radio' = "off" /\ ~wifi' /\ retain' = "no" /\ selecting' = "none"
  BY <1>1 DEF Finish
<1> QED BY <1>1, <1>2, <1>3, <1>4, <1>5 DEF audioVars

-----------------------------------------------------------------------------
(* The capture of a press.                                                   *)

\* No operation begins a capture that waits for a gesture.
LEMMA HandleCaptures ==
  ASSUME cap = "no", NEW b, NEW a, Handle(b, a) PROVE cap' = "no"
<1> USE DEF audioVars, appVars
<1>1. CASE Navigate(b, a) BY <1>1 DEF Navigate
<1>2. CASE StartRecording BY <1>2 DEF StartRecording
<1>3. CASE StartAssistant BY <1>3 DEF StartAssistant
<1>4. ASSUME NEW d, StopRecording(d) PROVE cap' = "no"
  BY <1>4 DEF StopRecording, ServiceSave, FinishRecording
<1>5. CASE StopPairing("RootMenu") BY <1>5 DEF StopPairing
<1>6. CASE Choose
  <2>1. ASSUME NEW n, Sync(n) PROVE cap' = "no" BY <2>1 DEF Sync
  <2>2. CASE StartPairing BY <2>2 DEF StartPairing
  <2>3. CASE StartExport BY <2>3 DEF StartExport
  <2>4. ASSUME NEW n, NotDone(n) PROVE cap' = "no" BY <2>4 DEF NotDone
  <2>5. CASE Portal BY <2>5 DEF Portal
  <2>6. CASE ConnectNow BY <2>6 DEF ConnectNow
  <2> QED BY <1>2, <1>6, <2>1, <2>2, <2>3, <2>4, <2>5, <2>6, Zenon DEF Choose
<1>7. CASE UNCHANGED appVars BY <1>7
<1>8. CASE UNCHANGED audioVars BY <1>8
<1>9. CASE cap' = "no" BY <1>9
<1> QED BY <1>1, <1>2, <1>3, <1>4, <1>5, <1>6, <1>7, <1>8, <1>9, Zenon DEF Handle

\* On the screens where a press begins one, an event of BOOT takes or drops it.
LEMMA HandleTakes ==
  ASSUME IInv, cap # "no", screen \in {"Home", "AssistantResult"}, NEW a, Handle("Boot", a)
  PROVE  cap' = "no"
<1>1. rec.stage = "no" /\ JobsRest BY DEF IInv, AppInv, Alone, JobsRest
<1>2. CASE StartRecording BY <1>2 DEF StartRecording
<1>3. CASE StartAssistant BY <1>1, <1>3 DEF StartAssistant, JobsRest
<1>4. CASE cap' = "no" BY <1>4
<1>5. ~Navigate("Boot", a)
  <2>1. \A next : <<screen, "Boot", a, next>> \notin Links
    <3> SUFFICES ASSUME NEW next, <<screen, "Boot", a, next>> \in Links PROVE FALSE
      OBVIOUS
    <3>1. screen = "Home" BY LinkedScreens DEF Menus
    <3> DEFINE Other(l) == l[1] = "Home" => l[2] = "Pwr"
    <3>2. \A l \in RootLinks : Other(l) BY DEF RootLinks
    <3>3. \A l \in NoteLinks : Other(l) BY DEF NoteLinks, Clicks
    <3>4. \A l \in SettingsLinks : Other(l) BY DEF SettingsLinks, Clicks
    <3>5. \A l \in WifiLinks : Other(l) BY DEF WifiLinks, Clicks
    <3>6. \A l \in KeyboardLinks : Other(l) BY DEF KeyboardLinks
    <3>7. Other(<<screen, "Boot", a, next>>)
      BY <3>2, <3>3, <3>4, <3>5, <3>6, Zenon DEF Links
    <3> QED BY <3>1, <3>7
  <2>2. screen \notin Menus \ {"About"} BY DEF Menus
  <2> QED BY <2>1, <2>2, Zenon DEF Navigate
<1>6. ~Choose BY DEF Choose
<1>7. screen \notin Waits /\ screen \notin {"SyncResult", "PhonePairing", "Recording"} BY DEF Waits
<1> QED BY <1>2, <1>3, <1>4, <1>5, <1>6, <1>7 DEF Handle, StopPairing

-----------------------------------------------------------------------------
(* The events of the buttons.                                                *)

LEMMA DeliverAtSleep ==
  ASSUME IInv, NEW b \in Buttons, NEW a \in Actions, Polls, AtSleep, Possible(b, a),
         Mixes(After(b, a)), btn' = After(b, a), UNCHANGED <<chord, appVars, sleep>>,
         stray' = (cap' # "no" /\ (stray \/ btn[b] \in {"strange", "stranger"}))
  PROVE  IInv' /\ RadioSafe
<1>1. AppInv' /\ RadioSafe BY Same DEF IInv, Good
<1>2. cap = "no" /\ cap' = "no" /\ ~stray'
  BY DEF IInv, Resting, Free, AudioActive, appVars, audioVars
<1>3. btn' \in [Buttons -> Gestures] /\ btn'["Pwr"] # "latched" BY AfterIs DEF IInv
<1>4. mixed' \in BOOLEAN /\ (mixed' => Held(btn') # {})
  <2>1. (mixed \/ Held(btn') = Buttons) \in BOOLEAN OBVIOUS
  <2> QED BY <2>1 DEF Mixes
<1>5. InputTyped' BY <1>2, <1>3, <1>4 DEF IInv, InputTyped
<1>6. Resting'
  <2>1. sleep' # "asleep" BY DEF Polls
  <2> QED BY <2>1
      DEF IInv, Resting, AtSleep, Busy, Free, AudioActive, Active, appVars, uiVars, audioVars,
          jobVars, routeVars
<1>7. Heard' BY <1>4 DEF IInv, Heard, AtSleep
<1>8. Awaited' BY <1>2 DEF Awaited
<1> QED BY <1>1, <1>5, <1>6, <1>7, <1>8 DEF IInv

\* A delivered event, past the chord.
LEMMA Delivered ==
  ASSUME IInv, AppInv', NEW b \in Buttons, NEW a \in Actions, Polls, ~AtSleep, Possible(b, a),
         Mixes(After(b, a)), chord' = Left(Joined(b, a), b, a), btn' = After(b, a),
         stray' = (cap' # "no" /\ (stray \/ btn[b] \in {"strange", "stranger"})),
         sleep' \in {"no", "deferred"}, Awaited'
  PROVE  IInv'
<1>1. /\ chord' \in Chords /\ mixed' \in BOOLEAN
      /\ chord'.Boot /\ chord'.Pwr => chord'.on
      /\ mixed' => chord'.on
      /\ \A x \in Buttons : btn'[x] \in {"down", "long"} => chord'[x]
  BY ChordHears
<1>2. btn' \in [Buttons -> Gestures] /\ btn'["Pwr"] # "latched" BY AfterIs DEF IInv
<1>3. stray' \in BOOLEAN OBVIOUS
<1>4. InputTyped' BY <1>1, <1>2, <1>3 DEF InputTyped, Chords
<1>5. Resting' BY DEF Resting, AtSleep
<1>6. Heard' BY <1>1 DEF Heard
<1> QED BY <1>4, <1>5, <1>6 DEF IInv

LEMMA DeliverSleeps ==
  ASSUME IInv, NEW b \in Buttons, NEW a \in Actions, Polls, ~AtSleep, Possible(b, a),
         Mixes(After(b, a)), chord' = Left(Joined(b, a), b, a), ~Joined(b, a).on,
         Free, EnterSleep(After(b, a)),
         stray' = (cap' # "no" /\ (stray \/ btn[b] \in {"strange", "stranger"}))
  PROVE  IInv' /\ RadioSafe
<1>1. AppInv' /\ RadioSafe BY EnterSleepGood DEF IInv, Good
<1>2. cap = "no" BY DEF Free, AudioActive
<1>3. CASE ~CanSleep
  <2>1. btn' = After(b, a) /\ UNCHANGED appVars /\ sleep' \in {"deferred", sleep}
    BY <1>3 DEF EnterSleep
  <2>2. cap' = "no" BY <1>2, <2>1 DEF appVars, audioVars
  <2>3. sleep' \in {"no", "deferred"} BY <2>1 DEF IInv, InputTyped, Polls, AtSleep
  <2>4. Awaited' BY <2>2 DEF Awaited
  <2> QED BY <1>1, <2>1, <2>3, <2>4, Delivered
<1>4. CASE CanSleep
  <2>1. After(b, a) \in [Buttons -> Gestures] BY AfterIs DEF IInv
  <2>2. /\ sleep' = "pending" /\ btn' = Muted(After(b, a)) /\ cap' = "no"
        /\ radio' = "off" /\ ~wifi' /\ retain' = "no" /\ selecting' = "none" /\ main' = main
        /\ ~Busy' /\ Free'
    BY <1>4, EnteredSleep DEF IInv
  <2>3. ~mixed' BY AloneIsPure
  <2>4. /\ chord' \in Chords /\ mixed' \in BOOLEAN /\ (chord'.Boot /\ chord'.Pwr => chord'.on)
    BY ChordHears
  <2>5. InputTyped' BY <2>1, <2>2, <2>4, MutedIs DEF InputTyped, Chords
  <2>6. Resting' BY <2>2 DEF Resting, Polls
  <2>7. Heard' BY <2>2, <2>3, <2>4 DEF Heard, AtSleep
  <2>8. Awaited' BY <2>2 DEF Awaited
  <2> QED BY <1>1, <2>5, <2>6, <2>7, <2>8 DEF IInv
<1> QED BY <1>3, <1>4

\* onButton(), past the chord: a capture that remains has its gesture to come.
LEMMA DeliverAwaits ==
  ASSUME IInv, NEW b \in Buttons, NEW a \in Actions, Polls, ~AtSleep, Possible(b, a),
         btn' = After(b, a), ~Joined(b, a).on, OnButton(b, a), cap' # "no", ~stray,
         btn[b] \notin {"strange", "stranger"}
  PROVE  /\ btn'["Boot"] \in {"down", "latched"} /\ btn'["Pwr"] \notin {"down", "long"}
         /\ screen' \in {"Home", "AssistantResult"} /\ main'.pc = "loop"
<1>1. /\ \A x \in Buttons \ {b} : btn'[x] = btn[x]
      /\ a = "press" => btn'[b] = "down"
      /\ a = "long" => btn[b] \in {"down", "strange"}
      /\ a = "short" => btn[b] \in {"down", "latched", "strange"}
      /\ a = "release" => btn[b] \in {"long", "stranger"}
  BY AfterIs DEF IInv, Polls
<1>2. cap # "no" =>
        /\ btn["Boot"] \in {"down", "latched"} /\ btn["Pwr"] \notin {"down", "long"}
        /\ screen \in {"Home", "AssistantResult"} /\ main.pc = "loop"
        /\ JobsRest
  BY DEF IInv, Awaited, AppInv, Alone, JobsRest
<1>3. btn["Pwr"] # "latched" BY DEF IInv, InputTyped
<1>4. CASE a = "press"
  <2>1. UNCHANGED <<screen, main>> BY <1>4, Zenon DEF OnButton
  <2>2. CASE b = "Boot" /\ screen \in {"Home", "AssistantResult"}
    <3>1. btn["Pwr"] \notin {"down", "long"}
      <4>1. Joined(b, a).Boot /\ (chord.Pwr => Joined(b, a).Pwr)
            /\ (Joined(b, a).Boot /\ Joined(b, a).Pwr => Joined(b, a).on)
        BY <1>4, <2>2, JoinedIs DEF IInv
      <4> QED BY <4>1 DEF IInv, Heard, Buttons
    <3> QED BY <1>1, <1>4, <2>1, <2>2, <3>1 DEF Polls, Buttons
  <2>3. CASE b = "Pwr"
    <3>1. CancelCapture BY <1>4, <2>3, Zenon DEF OnButton
    <3> QED BY <3>1 DEF CancelCapture
  <2>4. CASE b = "Boot" /\ screen \notin {"Home", "AssistantResult"}
    <3>1. cap' = cap BY <1>4, <2>4, Zenon DEF OnButton
    <3> QED BY <1>2, <2>4, <3>1
  <2> QED BY <2>2, <2>3, <2>4 DEF Buttons
<1>5. CASE a # "press" /\ (a = "release" \/ ~JobsRest)
  <2>1. cap' = cap BY <1>5 DEF OnButton, JobsRest, appVars, audioVars
  <2> QED BY <1>1, <1>2, <1>5, <2>1 DEF Buttons
<1>6. CASE a # "press" /\ a # "release" /\ JobsRest
  <2>1. Handle(b, a) BY <1>6, Zenon DEF OnButton, JobsRest
  <2>2. cap # "no" BY <2>1, HandleCaptures
  <2>3. b = "Boot" BY <1>1, <1>2, <1>3, <1>6, <2>2 DEF Buttons, Actions
  <2> QED BY <1>2, <2>1, <2>2, <2>3, HandleTakes
<1> QED BY <1>4, <1>5, <1>6

LEMMA AbandonDrops == ASSUME Abandon PROVE cap' = "no"
BY DEF Abandon

LEMMA DeliverKeeps ==
  ASSUME IInv, NEW b \in Buttons, NEW a \in Actions, Deliver(b, a) PROVE IInv' /\ RadioSafe
<1>1. /\ Polls /\ Possible(b, a) /\ Mixes(After(b, a))
      /\ stray' = (cap' # "no" /\ (stray \/ btn[b] \in {"strange", "stranger"}))
  BY DEF Deliver
<1>2. CASE AtSleep BY <1>1, <1>2, DeliverAtSleep DEF Deliver
<1>3. CASE ~AtSleep
  <2>1. chord' = Left(Joined(b, a), b, a) BY <1>3 DEF Deliver
  <2>2. CASE ~Joined(b, a).on /\ Free /\ EnterSleep(After(b, a))
    BY <1>1, <1>3, <2>1, <2>2, DeliverSleeps
  <2>3. CASE /\ btn' = After(b, a) /\ sleep' = IF a = "press" THEN "no" ELSE sleep
             /\ IF Joined(b, a).on THEN Abandon ELSE OnButton(b, a)
    <3>1. sleep' \in {"no", "deferred"}
      BY <1>1, <1>3, <2>3 DEF Polls, AtSleep, IInv, InputTyped
    <3>2. Good
      BY <1>1, <2>3, AbandonGood, OnButtonGood DEF IInv, Polls
    <3>3. Awaited'
      <4>1. CASE Joined(b, a).on BY <2>3, <4>1, AbandonDrops DEF Awaited
      <4>2. CASE ~Joined(b, a).on /\ cap' # "no" /\ ~stray'
        <5>1. ~stray /\ btn[b] \notin {"strange", "stranger"} BY <1>1, <4>2
        <5> QED BY <1>1, <1>3, <2>3, <4>2, <5>1, DeliverAwaits DEF Awaited
      <4> QED BY <4>1, <4>2 DEF Awaited
    <3> QED BY <1>1, <1>3, <2>1, <2>3, <3>1, <3>2, <3>3, Delivered DEF Good
  <2> QED BY <1>3, <2>2, <2>3, Zenon DEF Deliver
<1> QED BY <1>2, <1>3

LEMMA UnheardKeeps ==
  ASSUME IInv, NEW b \in Buttons, Unheard(b) PROVE IInv' /\ RadioSafe
<1>1. /\ btn[b] = "mute" /\ btn' = [btn EXCEPT ![b] = "up"]
      /\ UNCHANGED <<appVars, chord, mixed, stray, sleep>>
  BY DEF Unheard
<1>2. AppInv' /\ RadioSafe BY <1>1, Same DEF IInv, Good
<1>3. btn \in [Buttons -> Gestures] /\ btn["Pwr"] # "latched" BY DEF IInv, InputTyped
<1>4. btn' \in [Buttons -> Gestures] /\ btn'["Pwr"] # "latched"
      /\ btn'[b] = "up" /\ \A x \in Buttons \ {b} : btn'[x] = btn[x]
  BY <1>1, <1>3 DEF Gestures, Buttons
<1>5. InputTyped' BY <1>1, <1>4 DEF IInv, InputTyped
<1>6. sleep # "asleep"
  <2>1. btn # AllUp BY <1>1 DEF AllUp
  <2> QED BY <2>1 DEF IInv, Resting
<1>7. Resting'
  BY <1>1, <1>6
  DEF IInv, Resting, AtSleep, Busy, Free, AudioActive, Active, appVars, uiVars, audioVars,
      jobVars, routeVars
<1>8. Held(btn') = Held(btn) BY <1>1, <1>4 DEF Held
<1>9. Heard' BY <1>1, <1>4, <1>8 DEF IInv, Heard, AtSleep
<1>10. Awaited'
  BY <1>1, <1>4 DEF IInv, Awaited, Buttons, appVars, uiVars, audioVars
<1> QED BY <1>2, <1>5, <1>7, <1>9, <1>10 DEF IInv

LEMMA OverflowKeeps ==
  ASSUME IInv, Overflow PROVE IInv' /\ RadioSafe
<1>1. /\ Polls /\ ~AtSleep /\ Abandon /\ chord' = NoChord /\ mixed' = FALSE /\ stray' = FALSE
      /\ btn' = Muted(btn) /\ sleep' = sleep
  BY DEF Overflow
<1>2. Good BY <1>1, AbandonGood DEF Polls, IInv
<1>3. cap' = "no" BY <1>1, AbandonDrops
<1>4. chord' \in Chords /\ ~chord'.Boot BY <1>1 DEF NoChord, Chords
<1>5. /\ btn' \in [Buttons -> Gestures] /\ btn'["Pwr"] # "latched"
      /\ \A b \in Buttons : btn'[b] \notin {"down", "long"}
  BY <1>1, MutedIs DEF IInv, InputTyped
<1>6. InputTyped' BY <1>1, <1>4, <1>5 DEF IInv, InputTyped, Chords
<1>7. Resting' BY <1>1 DEF Resting, AtSleep, Polls
<1>8. Heard' BY <1>1, <1>4, <1>5 DEF Heard
<1>9. Awaited' BY <1>3 DEF Awaited
<1> QED BY <1>2, <1>6, <1>7, <1>8, <1>9 DEF IInv, Good

LEMMA InPortalKeeps ==
  ASSUME IInv, NEW b \in Buttons, NEW a \in Actions, InPortal(b, a) PROVE IInv' /\ RadioSafe
<1>1. /\ main.pc = "portal" /\ Possible(b, a) /\ Mixes(After(b, a)) /\ btn' = After(b, a)
      /\ UNCHANGED <<screen, cap, chord, stray, sleep>>
  BY DEF InPortal, uiVars, audioVars
<1>2. AppInv' /\ RadioSafe BY InPortalGood DEF IInv, Good
<1>3. Awake BY <1>1, AwakeAtWork
<1>4. /\ btn' \in [Buttons -> Gestures] /\ btn'["Pwr"] # "latched"
      /\ \A x \in Buttons \ {b} : btn'[x] = btn[x]
      /\ btn'[b] \in {"down", "long"} => a = "press" \/ btn[b] \in {"down", "long"}
      /\ a = "press" => btn'[b] \in {"down", "strange"}
  BY <1>1, AfterIs DEF IInv, Actions
<1>5. a = "press" => btn'[b] = "strange"
  BY <1>1, <1>4 DEF After, IInv, InputTyped
<1>6. \A x \in Buttons : btn'[x] \in {"down", "long"} => btn[x] \in {"down", "long"}
  BY <1>4, <1>5
<1>7. \A x \in Buttons : btn'[x] \in {"down", "long"} => chord[x]
  BY <1>3, <1>6 DEF IInv, Heard, AtSleep, Awake
<1>8. mixed' \in BOOLEAN /\ (mixed' => mixed \/ Held(btn') = Buttons)
  <2>1. (mixed \/ Held(btn') = Buttons) \in BOOLEAN OBVIOUS
  <2> QED BY <1>1, <2>1 DEF Mixes
<1>9. mixed' => chord.on
  <2>1. Held(btn') = Buttons => chord.Boot /\ chord.Pwr BY <1>7 DEF Held, Buttons
  <2> QED BY <1>3, <1>8, <2>1 DEF IInv, Heard, AtSleep, Awake
<1>10. InputTyped' BY <1>1, <1>4, <1>8 DEF IInv, InputTyped
<1>11. Resting' BY <1>1, <1>3 DEF Resting, AtSleep, Awake
<1>12. Heard' BY <1>1, <1>7, <1>9 DEF IInv, Heard
<1>13. Awaited' BY <1>1 DEF IInv, Awaited
<1> QED BY <1>2, <1>10, <1>11, <1>12, <1>13 DEF IInv

-----------------------------------------------------------------------------
(* Sleep, and the start.                                                     *)

LEMMA RestsKeeps ==
  ASSUME IInv, Rests PROVE IInv' /\ RadioSafe
<1>1. /\ Awake /\ main.pc = "loop" /\ cap = "no" /\ EnterSleep(btn)
      /\ UNCHANGED <<chord, mixed, stray>>
  BY DEF Rests, Loops, Awake
<1>2. AppInv' /\ RadioSafe BY <1>1, EnterSleepGood DEF IInv, Good
<1>3. CASE ~CanSleep
  <2>1. btn' = btn /\ UNCHANGED appVars /\ sleep' \in {"deferred", sleep}
    BY <1>1, <1>3 DEF EnterSleep
  <2>2. cap' = "no" BY <1>1, <2>1 DEF appVars, audioVars
  <2>3. InputTyped' BY <1>1, <2>1 DEF IInv, InputTyped
  <2>4. Resting' BY <1>1, <2>1 DEF Resting, AtSleep, Awake
  <2>5. Heard' BY <1>1, <2>1 DEF IInv, Heard, AtSleep, Awake, Held
  <2>6. Awaited' BY <2>2 DEF Awaited
  <2> QED BY <1>2, <2>3, <2>4, <2>5, <2>6 DEF IInv
<1>4. CASE CanSleep
  <2>1. /\ sleep' = "pending" /\ btn' = Muted(btn) /\ cap' = "no"
        /\ radio' = "off" /\ ~wifi' /\ retain' = "no" /\ selecting' = "none" /\ main' = main
        /\ ~Busy' /\ Free'
    BY <1>1, <1>4, EnteredSleep DEF IInv
  <2>2. InputTyped' BY <1>1, <2>1, MutedIs DEF IInv, InputTyped
  <2>3. Resting' BY <1>1, <2>1 DEF Resting
  <2>4. Heard' BY <1>1, <2>1 DEF IInv, Heard, AtSleep, Awake
  <2>5. Awaited' BY <2>1 DEF Awaited
  <2> QED BY <1>2, <2>2, <2>3, <2>4, <2>5 DEF IInv
<1> QED BY <1>3, <1>4

LEMMA UpIs == Held(AllUp) = {} /\ \A b \in Buttons : AllUp[b] = "up"
BY DEF Held, AllUp

LEMMA GateOpensKeeps ==
  ASSUME IInv, GateOpens PROVE IInv' /\ RadioSafe
<1>1. /\ AtSleep /\ UNCHANGED <<appVars, inputVars>> /\ sleep' \in {"pending", "timing", "asleep"}
      /\ sleep' = "asleep" => Quiescent
  BY DEF GateOpens
<1>2. AppInv' /\ RadioSafe BY <1>1, Same DEF IInv, Good
<1>3. UNCHANGED <<btn, chord, mixed, stray>> BY <1>1 DEF inputVars
<1>4. InputTyped' BY <1>1, <1>3 DEF IInv, InputTyped
<1>5. Resting'
  BY <1>1, <1>3
  DEF IInv, Resting, Quiescent, AtSleep, Busy, Free, AudioActive, Active, appVars, uiVars,
      audioVars, jobVars, routeVars
<1>6. Heard'
  <2>1. sleep' = "asleep" => btn = AllUp BY <1>1 DEF Quiescent
  <2>2. Held(btn') = Held(btn) BY <1>3 DEF Held
  <2>3. mixed => chord.on \/ Held(btn) # {} BY DEF IInv, Heard
  <2> QED BY <1>1, <1>3, <2>1, <2>2, <2>3, UpIs DEF IInv, Heard, AtSleep
<1>7. Awaited' BY <1>1, <1>3 DEF IInv, Awaited, appVars, uiVars, audioVars
<1> QED BY <1>2, <1>4, <1>5, <1>6, <1>7 DEF IInv

LEMMA SleepRefusedKeeps ==
  ASSUME IInv, SleepRefused PROVE IInv' /\ RadioSafe
<1>1. /\ btn = AllUp /\ cap = "no" /\ sleep' = "no"
      /\ UNCHANGED <<audioVars, btn, chord, mixed, stray>>
  BY DEF SleepRefused, Quiescent, CanSleep, Free, AudioActive, inputVars
<1>2. AppInv' /\ RadioSafe BY SleepRefusedGood DEF IInv, Good
<1>3. InputTyped' BY <1>1 DEF IInv, InputTyped
<1>4. Resting' BY <1>1 DEF Resting, AtSleep
<1>5. Heard' BY <1>1, UpIs DEF IInv, Heard
<1>6. Awaited' BY <1>1 DEF Awaited, audioVars
<1> QED BY <1>2, <1>3, <1>4, <1>5, <1>6 DEF IInv

LEMMA BootsKeeps ==
  ASSUME AppInv', NEW b \in [Buttons -> {"up", "mute", "latched"}], b["Pwr"] # "latched",
         NEW c, NEW f, NEW e, c = "no" \/ b["Boot"] = "latched", Boots(b, c, f, AtLoop, e)
  PROVE  IInv'
<1>1. /\ screen' = "Home" /\ chord' = NoChord /\ mixed' = FALSE /\ stray' = FALSE
      /\ sleep' = "no" /\ btn' = b /\ cap' = c /\ main' = AtLoop
  BY DEF Boots
<1>2. chord' \in Chords /\ ~chord'.Boot BY <1>1 DEF NoChord, Chords
<1>3. \A x \in Buttons : b[x] \notin {"down", "long"} OBVIOUS
<1>4. InputTyped' BY <1>1, <1>2 DEF InputTyped, Chords, Gestures
<1>5. Resting' BY <1>1 DEF Resting, AtSleep
<1>6. Heard' BY <1>1, <1>2, <1>3 DEF Heard
<1>7. Awaited' BY <1>1, <1>3, LoopTypes DEF Awaited, Buttons
<1> QED BY <1>4, <1>5, <1>6, <1>7 DEF IInv

LEMMA RestartKeeps ==
  ASSUME IInv, Wakes \/ PortalSaves PROVE IInv' /\ RadioSafe
<1>1. AppInv' /\ RadioSafe BY WakesGood, PortalSavesGood DEF IInv, Good
<1>2. AllUp \in [Buttons -> {"up", "mute", "latched"}] /\ AllUp["Pwr"] # "latched"
  BY DEF AllUp, Buttons
<1> DEFINE held == [AllUp EXCEPT !["Boot"] = "latched"]
<1>3. /\ held \in [Buttons -> {"up", "mute", "latched"}] /\ held["Pwr"] # "latched"
      /\ held["Boot"] = "latched"
  BY DEF AllUp, Buttons
<1>4. ASSUME NEW g \in [Buttons -> {"up", "mute"}], Boots(g, "no", Quiet, AtLoop, enabled)
      PROVE  IInv'
  <2>1. g \in [Buttons -> {"up", "mute", "latched"}] /\ g["Pwr"] # "latched" BY DEF Buttons
  <2> QED BY <1>1, <1>4, <2>1, BootsKeeps
<1>5. ASSUME NEW f, NEW c, Boots(held, c, f, AtLoop, enabled) PROVE IInv'
  BY <1>1, <1>3, <1>5, BootsKeeps
<1>6. CASE Wakes BY <1>1, <1>4, <1>5, <1>6, Zenon DEF Wakes
<1>7. CASE PortalSaves
  <2>1. PICK e : Boots(AllUp, "no", Quiet, AtLoop, e) BY <1>7 DEF PortalSaves
  <2> QED BY <1>1, <1>2, <2>1, BootsKeeps
<1> QED BY <1>1, <1>6, <1>7

LEMMA Start == Init => IInv
<1> SUFFICES ASSUME Init PROVE IInv
  OBVIOUS
<1>1. /\ Fresh /\ btn = AllUp /\ cap = "no" /\ fb = Quiet /\ enabled \in BOOLEAN
      /\ main \in {AtLoop, [AtLoop EXCEPT !.pc = "portal"]}
  BY DEF Init, ColdBoot
<1>2. /\ screen = "Home" /\ forNote = FALSE /\ restore = FALSE /\ chord = NoChord
      /\ mixed = FALSE /\ stray = FALSE /\ rec = NoRec /\ jobs = NoJobs /\ view = FreshView
      /\ sleep = "no" /\ phone = FALSE /\ retain = "no" /\ selecting = "none"
      /\ radio = "off" /\ wifi = FALSE
  BY <1>1 DEF Fresh, RouteInit, FreshView
<1>3. main \in Loop /\ main.pc \in {"loop", "portal"}
  <2>1. [AtLoop EXCEPT !.pc = "portal"] \in Loop /\ [AtLoop EXCEPT !.pc = "portal"].pc = "portal"
    BY DEF AtLoop, Loop
  <2> QED BY <1>1, <2>1, LoopTypes
<1>4. JobsRest BY <1>2, NoneAtWork, ActiveIs, RestIs, WorkersAssumption
<1>5. Typed
  <2>1. RouteTypeOK BY <1>1, <1>2 DEF RouteTypeOK
  <2> QED BY <1>1, <1>2, <1>3, <2>1, NoneAtWork DEF Typed, Screens
<1>6. Published BY <1>2, NoneAtWork, LastAssumption DEF Published
<1>7. Copied BY <1>3 DEF Copied, SnapshotWhole
<1>8. Locked BY <1>2, NoneAtWork, WorkersAssumption DEF Locked
<1>9. Told BY <1>2, <1>4, NoneAtWork, RestIs DEF Told
<1>10. Alone BY <1>1, <1>4 DEF Alone, JobsRest
<1>11. CanvasOwned BY <1>1, QuietFacts DEF CanvasOwned, Busy
<1>12. Retained BY <1>2 DEF Retained
<1>13. AppInv BY <1>5, <1>6, <1>7, <1>8, <1>9, <1>10, <1>11, <1>12 DEF AppInv
<1>14. chord \in Chords /\ ~chord.Boot BY <1>2 DEF NoChord, Chords
<1>15. AllUp \in [Buttons -> Gestures] /\ \A b \in Buttons : AllUp[b] = "up"
  BY DEF AllUp, Gestures
<1>16. InputTyped BY <1>1, <1>2, <1>14, <1>15 DEF InputTyped, Chords, Buttons
<1>17. Resting BY <1>2 DEF Resting, AtSleep
<1>18. Heard BY <1>1, <1>2, <1>14, <1>15 DEF Heard
<1>19. Awaited BY <1>1 DEF Awaited
<1> QED BY <1>13, <1>16, <1>17, <1>18, <1>19 DEF IInv

\* The stutter.
LEMMA StutterKeeps ==
  ASSUME IInv, UNCHANGED vars PROVE IInv' /\ RadioSafe
<1>1. UNCHANGED appVars /\ UNCHANGED <<btn, chord, mixed, stray, sleep>>
  BY DEF vars, inputVars
<1>2. AppInv' /\ RadioSafe BY <1>1, Same DEF IInv, Good
<1>3. InputTyped' BY <1>1 DEF IInv, InputTyped
<1>4. Resting'
  BY <1>1
  DEF IInv, Resting, AtSleep, Busy, Free, AudioActive, Active, appVars, uiVars, audioVars,
      jobVars, routeVars
<1>5. Heard' BY <1>1 DEF IInv, Heard, AtSleep, Held
<1>6. Awaited' BY <1>1 DEF IInv, Awaited, appVars, uiVars, audioVars
<1> QED BY <1>2, <1>3, <1>4, <1>5, <1>6 DEF IInv

LEMMA StepGood ==
  ASSUME IInv, [Next]_vars PROVE IInv' /\ RadioSafe
<1> DEFINE Kept == IInv' /\ RadioSafe
<1>1. CASE AppLoop BY <1>1, LoopKeeps, AppLoopGood DEF IInv, Good
<1>2. CASE SeeRetentionDue \/ EndRetention
  BY <1>2, RetentionKeeps, SeeRetentionDueGood, EndRetentionGood DEF IInv, Good
<1>3. CASE Reading
  BY <1>3, ReadingKeeps, ReadAGood, ReadBGood, CheckGood, ServiceSyncGood
  DEF Reading, IInv, Good
<1>4. CASE Console BY <1>4, ConsoleKeeps, ConsoleGood DEF IInv, Good
<1>5. CASE Draw \/ Publish \/ Audio \/ Radio
  BY <1>5, WorldKeeps, DrawGood, PublishGood, AudioGood, RadioGood DEF IInv, Good
<1>6. ASSUME NEW j \in Workers, Work(j) PROVE Kept
  BY <1>6, WorkKeeps, LocksGood, SelectedGood, EndsGood DEF Work, IInv, Good
<1>7. ASSUME NEW b \in Buttons, NEW a \in Actions, Deliver(b, a) \/ InPortal(b, a) PROVE Kept
  BY <1>7, DeliverKeeps, InPortalKeeps
<1>8. ASSUME NEW b \in Buttons, Unheard(b) PROVE Kept BY <1>8, UnheardKeeps
<1>9. CASE Overflow BY <1>9, OverflowKeeps
<1>10. CASE Rests BY <1>10, RestsKeeps
<1>11. CASE GateOpens BY <1>11, GateOpensKeeps
<1>12. CASE SleepRefused BY <1>12, SleepRefusedKeeps
<1>13. CASE Wakes \/ PortalSaves BY <1>13, RestartKeeps
<1>14. CASE UNCHANGED vars BY <1>14, StutterKeeps
<1> QED
  BY <1>1, <1>2, <1>3, <1>4, <1>5, <1>6, <1>7, <1>8, <1>9, <1>10, <1>11, <1>12, <1>13, <1>14,
     Zenon
  DEF Next, MainSteps, Finger

-----------------------------------------------------------------------------
(* The results.                                                              *)

\* The invariant holds in every state of every execution.
THEOREM Inductive == Spec => []IInv
<1>1. IInv /\ [Next]_vars => IInv' BY StepGood
<1> QED BY Start, <1>1, PTL DEF Spec

\* One operation, and one owner of the canvas, whatever the buttons, the
\* workers, the console and the radio do.
THEOREM OneAtATime == Spec => []OneOwner
<1>1. IInv => OneOwner
  <2> SUFFICES ASSUME IInv PROVE OneOwner
    OBVIOUS
  <2>1. AppTypeOK
    <3>1. main.pc \in {"loop", "expire", "portal", "a", "b", "check", "got"}
      BY DEF IInv, AppInv, Typed, Loop
    <3> QED BY <3>1
        DEF IInv, AppInv, Typed, InputTyped, AppTypeOK, Feedbacks, Recorders, Jobs, Gestures
  <2>2. Exclusive
    <3>1. /\ (cap # "no" \/ rec.stage # "no") => JobsRest
          /\ ~(Active("talk") /\ Active("sync")) /\ ~(Active("talk") /\ Active("export"))
          /\ ~(Active("sync") /\ Active("export"))
      BY ScreenTells DEF IInv, AppInv, Told, Alone, JobsRest
    <3> QED BY <3>1, RestIs DEF Exclusive
  <2> QED BY <2>1, <2>2 DEF OneOwner, IInv, AppInv
<1> QED BY <1>1, Inductive, PTL

\* A capture begun by a press has an event of BOOT to come.
THEOREM CaptureAwaited == Spec => []CaptureOwned
<1>1. IInv => CaptureOwned BY DEF IInv, Awaited, CaptureOwned
<1> QED BY <1>1, Inductive, PTL

\* The device sleeps with everything at rest.
THEOREM AsleepAtRest == Spec => []SleepsClean
<1>1. IInv => SleepsClean
  BY RestIs DEF IInv, Resting, SleepsClean, Free, AudioActive, JobsRest
<1> QED BY <1>1, Inductive, PTL

\* The loop accepts no snapshot that was not published, and no early end.
THEOREM SnapshotPublished == Spec => []SnapshotWhole
<1>1. IInv => SnapshotWhole BY DEF IInv, AppInv, Copied
<1> QED BY <1>1, Inductive, PTL

\* Nobody stops the radio under a worker.
THEOREM RadioNeverStolen == Spec => RadioKept
<1>1. IInv /\ [Next]_vars => [radio = "ready" /\ radio' = "off" => ~Owned]_vars
  BY StepGood DEF RadioSafe
<1> QED BY <1>1, Inductive, PTL DEF Spec, RadioKept

\* A recording or a talk begins.
Begins == \/ rec.stage = "no" /\ rec'.stage = "on"
          \/ jobs["talk"] = "no" /\ jobs'["talk"] # "no"

LEMMA StillBegins == UNCHANGED <<rec, jobs>> => ~Begins
BY DEF Begins

\* What a chord or a lost event puts an end to begins nothing.
LEMMA AbandonBegins ==
  ASSUME IInv, Abandon PROVE ~Begins
<1>1. CASE UNCHANGED <<rec, jobVars>> BY <1>1, StillBegins DEF jobVars
<1>2. CASE rec.stage # "no" /\ \E r : ServiceSave(r)
  <2>1. jobs'["talk"] = jobs["talk"]
    <3>1. CASE UNCHANGED jobVars BY <3>1 DEF jobVars
    <3>2. CASE StartSync(FALSE)
      <4>1. CASE NoSession BY <4>1 DEF NoSession, jobVars
      <4>2. CASE SyncStarts(FALSE)
        BY <4>2, WorkersAssumption DEF SyncStarts, IInv, AppInv, Typed, Jobs
      <4> QED BY <3>2, <4>1, <4>2, Zenon DEF StartSync
    <3> QED BY <1>2, <3>1, <3>2, Zenon DEF ServiceSave, FinishRecording
  <2> QED BY <1>2, <2>1 DEF Begins
<1> QED BY <1>1, <1>2, Zenon DEF Abandon

\* A gesture that met the other button starts no recording and no talk: its
\* events go to the chord until both buttons are up.
THEOREM GesturesWhole == Spec => GestureWhole
<1> DEFINE Pure == btn' # btn /\ Begins => ~mixed
<1>1. ASSUME IInv, [Next]_vars PROVE Pure
  <2>1. CASE UNCHANGED btn BY <2>1
  <2>2. CASE UNCHANGED <<rec, jobs>> BY <2>2, StillBegins
  <2>3. CASE Abandon BY <1>1, <2>3, AbandonBegins
  <2>4. ASSUME NEW b \in Buttons, NEW a \in Actions, Deliver(b, a) PROVE Pure
    <3>1. Polls /\ Possible(b, a) /\ Mixes(After(b, a)) BY <2>4 DEF Deliver
    <3>2. CASE AtSleep
      BY <2>2, <2>4, <3>2 DEF Deliver, appVars, audioVars, jobVars
    <3>3. CASE ~AtSleep /\ ~Joined(b, a).on BY <1>1, <3>1, <3>3, AloneIsPure
    <3>4. CASE ~AtSleep /\ Joined(b, a).on BY <2>3, <2>4, <3>4, Zenon DEF Deliver
    <3> QED BY <3>2, <3>3, <3>4
  <2>5. ASSUME NEW b, NEW a, InPortal(b, a) \/ Unheard(b) PROVE UNCHANGED <<rec, jobs>>
    BY <2>5 DEF InPortal, Unheard, appVars, audioVars, jobVars
  <2>6. CASE Overflow BY <2>3, <2>6 DEF Overflow
  <2>7. CASE Rests
    <3>1. UNCHANGED <<rec, jobs>>
      BY <2>7 DEF Rests, EnterSleep, appVars, audioVars, jobVars
    <3> QED BY <2>2, <3>1
  <2>8. CASE GateOpens \/ SleepRefused \/ UNCHANGED vars
    BY <2>1, <2>8 DEF GateOpens, SleepRefused, vars, inputVars
  <2>9. CASE Wakes \/ PortalSaves
    <3>1. rec' = NoRec /\ jobs' = NoJobs BY <2>9, Zenon DEF Wakes, PortalSaves, Boots
    <3>2. NoRec.stage = "no" /\ NoJobs["talk"] = "no" BY NoneAtWork, WorkersAssumption
    <3> QED BY <3>1, <3>2 DEF Begins
  <2>10. CASE AppLoop \/ SeeRetentionDue \/ EndRetention \/ Reading \/ Console
    <3>1. UNCHANGED outside
      BY <2>10 DEF AppLoop, SeeRetentionDue, EndRetention, Reading, ReadA, ReadB, Check,
                   ServiceSync, Reads, Console
    <3> QED BY <2>1, <3>1 DEF outside, inputVars
  <2>11. CASE Draw \/ Publish \/ Audio \/ Radio
    <3>1. UNCHANGED inputVars BY <2>11 DEF Draw, Publish, Audio, Radio, outside
    <3> QED BY <2>1, <3>1 DEF inputVars
  <2>12. ASSUME NEW j \in Workers, Work(j) PROVE UNCHANGED btn
    BY <2>12 DEF Work, Locks, Selected, Ends, Working, outside, inputVars
  <2> QED
    BY <1>1, <2>1, <2>2, <2>4, <2>5, <2>6, <2>7, <2>8, <2>9, <2>10, <2>11, <2>12, Zenon
    DEF Next, MainSteps, Finger
<1>2. IInv /\ [Next]_vars => [btn' # btn /\ Begins => ~mixed]_vars
  BY <1>1
<1>3. IInv /\ [Next]_vars =>
        [btn' # btn /\ (\/ rec.stage = "no" /\ rec'.stage = "on"
                        \/ jobs["talk"] = "no" /\ jobs'["talk"] # "no") => ~mixed]_vars
  BY <1>2 DEF Begins
<1> QED BY <1>3, Inductive, PTL DEF Spec, GestureWhole

=============================================================================
