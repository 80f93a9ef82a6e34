------------------------------- MODULE Device -------------------------------
(***************************************************************************)
(* Device: the loop that drives AppSession (App::loop, and loop() and the  *)
(* way to sleep and back of src/src/main.cpp), with the workers, the       *)
(* console and the world around it.                                        *)
(***************************************************************************)
EXTENDS AppSession

outside == <<inputVars, sleep>>

-----------------------------------------------------------------------------
(* App::loop().                                                              *)

\* Does nothing until the gesture of a pending capture is known.
Loops == main.pc = "loop" /\ sleep \in {"no", "deferred"} /\ cap = "no"

\* NetworkRoute::service(): a look without the lock, then one with it.
SeeRetentionDue ==
    /\ Loops /\ retain = "due" /\ main' = At("expire")
    /\ UNCHANGED <<uiVars, audioVars, jobVars, routeVars, outside>>
EndRetention ==
    /\ main.pc = "expire" /\ Expire /\ main' = AtLoop
    /\ UNCHANGED <<uiVars, audioVars, jobVars, outside>>

Talking == Active("talk") \/ screen = "AssistantBusy"

\* Mutant: a result is seen only while the worker still runs.
ExportingNow == Active("export")

Exporting == Active("export") \/ screen = "ExportBusy"

ServeRecording ==
    IF rec.stage = "done" THEN StopRecording(FALSE)
    ELSE Request /\ UNCHANGED <<screen, forNote, restore, audioVars, jobVars, main, routeVars>>

\* serviceSync() begins to copy the snapshot unless it is being written.
SeeSync ==
    /\ ~view.odd /\ view' = [view EXCEPT !.moved = FALSE] /\ main' = At("a")
    /\ UNCHANGED <<screen, forNote, audioVars, jobs, routeVars>>

\* With the canvas: App::loop() past ensureUi().
Serves ==
    \/ Exporting /\ ServiceExport
    \/ ~Exporting /\ StopPairing("Home")
    \/ ~Exporting /\ screen # "PhonePairing" /\ Active("sync") /\ SeeSync

LoopServes ==
    CASE Talking -> ServiceAssistant
      [] ~Talking /\ screen = "Recording" -> ServeRecording
      [] ~Talking /\ screen = "Saving" -> ServiceSave(rec)
      [] OTHER ->
           IF restore THEN Go("Home") /\ UNCHANGED <<audioVars, jobVars, main, routeVars>>
                      ELSE EnsureUi /\ Serves

AppLoop == Loops /\ retain # "due" /\ LoopServes /\ UNCHANGED outside

\* Nobody touched the device for long, or it waited for the canvas to sleep.
Rests ==
    /\ Loops /\ retain # "due" /\ Free
    /\ IF sleep = "deferred" THEN CanSleep
       ELSE screen \notin {"Saving", "Recording", "PhonePairing", "AssistantBusy", "ExportBusy"}
            /\ ~restore /\ ~Busy
    /\ EnterSleep(btn) /\ UNCHANGED <<chord, mixed, stray>>

-----------------------------------------------------------------------------
(* The snapshot of the synchronisation: copied in pieces while it is written *)
(* in pieces; a revision counter, odd while it is written, tells.            *)

Reads == UNCHANGED <<screen, forNote, fb, restore, audioVars, jobVars, routeVars, outside>>
ReadA == main.pc = "a" /\ main' = [main EXCEPT !.pc = "b", !.a = view.a] /\ Reads
ReadB == main.pc = "b" /\ main' = [main EXCEPT !.pc = "check", !.b = view.b] /\ Reads

\* Mutant: looks whether it is being written now.
StableNow == ~view.odd

\* Four attempts, then the next turn of the loop: here each turn is one.
Stable == ~view.moved /\ ~view.odd

Check ==
    /\ main.pc = "check" /\ Reads
    /\ main' = IF Stable THEN At("got") ELSE AtLoop

\* acknowledgeFinished(), then what serviceSync() does with the result.
ServiceSync ==
    /\ main.pc = "got" /\ main' = AtLoop /\ UNCHANGED outside
    /\ IF main.b = Last /\ ~view.odd /\ view.b = Last
       THEN /\ jobs' = [jobs EXCEPT !["sync"] = "no"]
            /\ Show(forNote) /\ UNCHANGED audioVars
            /\ view' = FreshView \* dead until the next start() fills it
            /\ \E w \in {FALSE, wifi} : Finish(w)
       ELSE UNCHANGED <<uiVars, audioVars, jobVars, routeVars>>

Reading == ReadA \/ ReadB \/ Check \/ ServiceSync

\* publish(), by the worker; the last one says "finished" and ends it.
Changed(v) == [v EXCEPT !.moved = TRUE]
Publish ==
    /\ jobs["sync"] = "online" /\ selecting # "sync"
    /\ \/ ~view.odd /\ view' = Changed([view EXCEPT !.odd = TRUE, !.v = @ + 1])
       \/ view.odd /\ view.a # view.v /\ view' = [view EXCEPT !.a = view.v]
       \/ view.odd /\ view.a = view.v /\ view.b # view.v /\ view' = [view EXCEPT !.b = view.v]
       \/ view.odd /\ view.b = view.v /\ view' = Changed([view EXCEPT !.odd = FALSE])
    /\ jobs' = IF view.odd /\ view.b = Last THEN [jobs EXCEPT !["sync"] = "done"] ELSE jobs
    /\ UNCHANGED <<uiVars, audioVars, main, routeVars, outside>>

-----------------------------------------------------------------------------
(* The workers and the route.                                                *)

Working == <<uiVars, audioVars, view, main, outside>>

Locks(j) ==
    /\ \/ jobs[j] = "start" /\ LockToConnect(j)
       \/ jobs[j] = "online" /\ LockToRecover(j)
    /\ UNCHANGED <<Working, jobs>>

Selected(j) ==
    /\ selecting = j
    /\ \E r \in IF jobs[j] = "start" THEN Routes(phone) ELSE Recoveries :
        /\ Take(r) /\ Unlock
        /\ jobs' = [jobs EXCEPT ![j] = IF @ = "online" \/ r.ok THEN "online" ELSE "done"]
    /\ UNCHANGED Working

\* A talk or an export ends: well, badly, or cancelled.
Ends(j) ==
    /\ j # "sync" /\ jobs[j] \in {"start", "online"} /\ selecting # j
    /\ jobs' = [jobs EXCEPT ![j] = "done"] /\ UNCHANGED <<Working, routeVars>>

-----------------------------------------------------------------------------
(* The console: commands of the diagnostic port that reach these operations. *)

\* probeAssistantModels()
Probe ==
    IF ~Free THEN UNCHANGED appVars
    ELSE Finish(wifi) /\ UNCHANGED <<uiVars, audioVars, jobVars, main>>

RepairDrive ==
    /\ Free /\ EnsureUi
    /\ \E r \in Routes(FALSE) :
        /\ selecting = "none" /\ phone' = r.phone /\ wifi' = r.wifi /\ retain' = "no"
        /\ radio' = IF r.radio = radio THEN "off" ELSE r.radio
    /\ UNCHANGED <<screen, forNote, audioVars, jobVars, main, enabled, selecting>>

\* Bound: no command comes between the end of a job and the turn of the loop
\* that sees it.
Console ==
    /\ main.pc = "loop" /\ sleep \in {"no", "deferred"} /\ ~Active("export") /\ UNCHANGED outside
    /\ \A j \in Workers : jobs[j] # "done"
    /\ \/ CancelCapture /\ UNCHANGED <<screen, forNote, fb, rec, jobVars, main, routeVars>>
       \/ Probe
       \/ StartPairing
       \/ StopPairing("Home")
       \/ ~AudioActive /\ ~Active("sync") /\ StartAssistant
       \/ Sync(FALSE) \/ Sync(TRUE)
       \/ Free /\ ConnectNow
       \/ RepairDrive

-----------------------------------------------------------------------------
(* Sleep: both buttons up and nothing at work for 30 ms.                     *)

\* Mutant: a button may still be held.
QuiescentHeld == CanSleep

Quiescent == btn = AllUp /\ CanSleep
GateOpens ==
    /\ main.pc = "loop" /\ AtSleep
    /\ sleep' = IF ~Quiescent THEN "pending"
                ELSE IF sleep = "pending" THEN "timing" ELSE "asleep"
    /\ UNCHANGED <<appVars, inputVars>>

\* The hardware refuses: the panel is built again, Home is drawn.
SleepRefused ==
    /\ main.pc = "loop" /\ sleep = "timing" /\ Quiescent
    /\ sleep' = "no" /\ Go("Home")
    /\ UNCHANGED <<audioVars, jobVars, main, routeVars, inputVars>>

\* Power on, a wake, a restart by the portal.
Boots(b, c, f, m, e) ==
    /\ screen' = "Home" /\ forNote' = FALSE /\ restore' = FALSE
    /\ chord' = NoChord /\ mixed' = FALSE /\ stray' = FALSE /\ rec' = NoRec /\ jobs' = NoJobs
    /\ view' = FreshView /\ sleep' = "no"
    /\ phone' = FALSE /\ retain' = "no" /\ selecting' = "none" /\ radio' = "off" /\ wifi' = FALSE
    /\ btn' = b /\ cap' = c /\ fb' = f /\ main' = m /\ enabled' = e

Wakes ==
    /\ sleep = "asleep"
    /\ \/ \E f \in {Quiet, [Quiet EXCEPT !.want = TRUE, !.pend = TRUE]} :
            Boots([AllUp EXCEPT !["Boot"] = "latched"], IF f = Quiet THEN "failed" ELSE "ok",
                  f, AtLoop, enabled)
       \/ \E g \in [Buttons -> {"up", "mute"}] : Boots(g, "no", Quiet, AtLoop, enabled)

\* handleSave(): the settings are stored, the device starts again.
PortalSaves ==
    /\ main.pc = "portal"
    /\ \E e \in BOOLEAN : Boots(AllUp, "no", Quiet, AtLoop, e)

-----------------------------------------------------------------------------
(* Audio and radio.                                                          *)

Audio ==
    /\ \/ cap = "ok" /\ cap' = "failed" /\ UNCHANGED rec
       \/ rec.stage \in {"on", "end"} /\ rec' = [rec EXCEPT !.stage = "done"] /\ UNCHANGED cap
    /\ UNCHANGED <<uiVars, jobVars, main, routeVars, outside>>

Radio ==
    /\ LinkUp \/ LinkDown \/ WifiLost \/ RetentionEnds
    /\ UNCHANGED <<uiVars, audioVars, jobVars, main, outside>>

Actions == {"press", "short", "long", "release"}
Finger ==
    \E b \in Buttons : Unheard(b) \/ \E a \in Actions : Deliver(b, a) \/ InPortal(b, a)

MainSteps == AppLoop \/ SeeRetentionDue \/ EndRetention \/ Reading
Work(j) == Locks(j) \/ Selected(j) \/ Ends(j)

Next ==
    \/ MainSteps \/ Rests \/ GateOpens \/ SleepRefused \/ Wakes \/ PortalSaves
    \/ Finger \/ Overflow \/ Console
    \/ Draw \/ Publish \/ Audio \/ Radio
    \/ \E j \in Workers : Work(j)

\* Every task runs, every selection ends within its budget.
Fairness ==
    /\ WF_vars(MainSteps) /\ WF_vars(Draw) /\ WF_vars(rec.stage = "end" /\ Audio)
    /\ SF_vars(Publish) /\ WF_vars(\E j \in Workers : Selected(j))
    /\ SF_vars(\E j \in Workers : Ends(j))

Spec == Init /\ [][Next]_vars /\ Fairness
-----------------------------------------------------------------------------
(* A worker owns the radio from the lock of its connect() to its end.        *)
Owned == \/ selecting # "none" \/ \E j \in Workers : jobs[j] = "online"

(* The radio is never stopped under a worker that selects a route or has     *)
(* one, whoever stops it: the end of another operation, the end of the       *)
(* retention, the way to sleep.  ("finish(): precondition: workers ended".)  *)
RadioKept == [][radio = "ready" /\ radio' = "off" => ~Owned]_vars

(* Recording, talk, synchronisation and export never meet: each owns audio,  *)
(* flash or the network alone.                                               *)
Exclusive ==
    LET At1(on) == IF on THEN 1 ELSE 0
    IN  At1(cap # "no" \/ rec.stage # "no") + At1(Active("talk"))
        + At1(Active("sync")) + At1(Active("export")) <= 1

(* The worker of the voice screen never draws while the main loop shows a    *)
(* screen whose handlers draw without asking for the canvas.                 *)
CanvasOwned ==
    screen \in Menus \cup {"SyncBusy", "ExportBusy", "PhonePairing", "SyncResult"} => ~Busy

(* With the types: one operation, and one owner of the canvas.               *)
OneOwner == AppTypeOK /\ Exclusive /\ CanvasOwned

(* A capture begun by a press is always followed by an event of BOOT that    *)
(* takes or drops it: until then the loop serves nothing.  One case is       *)
(* excepted: the release of a PWR pressed in the portal, whose press the     *)
(* chord never heard, may leave Home under a held BOOT; the capture then     *)
(* waits for the next press of PWR.                                          *)
CaptureOwned == cap # "no" => btn["Boot"] \in {"down", "latched"} \/ stray

(* A gesture that met the other button starts no recording and no talk, not  *)
(* even when it is released last.                                            *)
GestureWhole ==
    [][btn' # btn /\ (\/ rec.stage = "no" /\ rec'.stage = "on"
                      \/ jobs["talk"] = "no" /\ jobs'["talk"] # "no") => ~mixed]_vars

(* The device sleeps with radio, Wi-Fi, audio and workers at rest and no     *)
(* button held: a held button would wake it at once.                         *)
SleepsClean ==
    sleep = "asleep" =>
        /\ radio = "off" /\ ~wifi /\ retain = "no" /\ btn = AllUp /\ ~Busy
        /\ cap = "no" /\ rec.stage = "no" /\ \A j \in Workers : ~Active(j)

(* A snapshot the loop accepts is one the worker published: its pieces       *)
(* belong together, and "finished" is not believed before the worker ended.  *)
SnapshotWhole ==
    /\ main.pc = "got" => main.a = main.b
    /\ main.pc = "got" /\ main.b = Last => jobs["sync"] = "done"

(* No busy screen stays for ever: the worker ends and the loop sees it, or   *)
(* the device goes to sleep, to wake at Home.                                *)
NeverStuck == screen \in Waits ~> screen \notin Waits \/ AtSleep \/ sleep = "asleep"
=============================================================================
