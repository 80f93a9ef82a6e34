----------------------------- MODULE AppSession -----------------------------
(***************************************************************************)
(* The application as its main loop sees it (src/src/app/app.cpp and the   *)
(* loop of src/src/main.cpp): screens, gestures of two buttons, the audio  *)
(* captured before a gesture is understood, the four operations that must  *)
(* not meet (recording, talk, synchronisation, export), the worker that    *)
(* draws the voice screens on the same canvas, sleep, and the route to the *)
(* internet that all of them use.                                          *)
(*                                                                         *)
(* A handler runs to its end in one step, except where the code lets       *)
(* another task in: reading the snapshot of the synchronisation, waiting   *)
(* for the lock of the route, the portal.  The workers themselves are in   *)
(* CaptureSession, AssistantJob and SyncJob; here they start, select a     *)
(* route, and end.                                                         *)
(***************************************************************************)
EXTENDS NetworkRoute, Naturals, FiniteSets

CONSTANT Last \* the number of the snapshot that says "finished"

ASSUME LastAssumption == Last \in Nat \ {0}

\* The jobs that use the network: SyncJob, AssistantJob, NoteExport.
ASSUME WorkersAssumption == Workers = {"sync", "talk", "export"}

VARIABLES
    screen,   \* screen_
    forNote,  \* syncForNote_, then syncResultForNote_
    fb,       \* the voice screen: its mailbox and its worker
    restore,  \* feedbackRestorePending_
    btn,      \* the gesture of each button, as far as it was delivered
    chord,    \* ButtonChord: boot_, pwr_ and chord_
    mixed,    \* history: both were held since both were last up
    stray,    \* history: a press made in the portal ended during this capture
    cap,      \* capturePending_: "no", "ok", or "failed"
    rec,      \* the recorder, and discardRecording_
    jobs,     \* the workers
    view,     \* the snapshot the synchronisation publishes
    sleep,    \* the way to deep sleep
    main      \* where the main loop waits, and the snapshot it copies

uiVars == <<screen, forNote, fb, restore>>
audioVars == <<cap, rec>>
jobVars == <<jobs, view>>
appVars == <<uiVars, audioVars, jobVars, main, routeVars>>
inputVars == <<btn, chord, mixed, stray>>
vars == <<appVars, inputVars, sleep>>

Buttons == {"Boot", "Pwr"}
Menus == {"RootMenu", "NotesList", "NoteDetail", "ConfirmDeleteOne", "TextViewer",
          "Settings", "ConfirmDeleteAll", "About", "WifiMenu", "WifiNetworkDetail",
          "WifiScanList", "KeyboardSsid", "KeyboardPassword"}
Waits == {"Saving", "SyncBusy", "AssistantBusy", "ExportBusy"}
Screens == Menus \cup Waits \cup
    {"Home", "Recording", "SyncResult", "AssistantResult", "PhonePairing"}

Quiet == [want |-> FALSE, pend |-> FALSE, act |-> FALSE]
NoChord == [Boot |-> FALSE, Pwr |-> FALSE, on |-> FALSE]
NoRec == [stage |-> "no", discard |-> FALSE]
NoJobs == [j \in Workers |-> "no"]
AtLoop == [pc |-> "loop", a |-> 0, b |-> 0]
At(pc) == [main EXCEPT !.pc = pc]

AppTypeOK ==
    /\ RouteTypeOK
    /\ screen \in Screens /\ forNote \in BOOLEAN /\ restore \in BOOLEAN
    /\ mixed \in BOOLEAN /\ stray \in BOOLEAN
    /\ fb \in [want : BOOLEAN, pend : BOOLEAN, act : BOOLEAN]
    /\ btn \in [Buttons -> {"up", "down", "long", "latched", "mute", "strange", "stranger"}]
    /\ chord \in [Boot : BOOLEAN, Pwr : BOOLEAN, on : BOOLEAN]
    /\ cap \in {"no", "ok", "failed"}
    /\ rec \in [stage : {"no", "on", "end", "done"}, discard : BOOLEAN]
    /\ jobs \in [Workers -> {"no", "start", "online", "done"}]
    /\ sleep \in {"no", "deferred", "pending", "timing", "asleep"}
    /\ main.pc \in {"loop", "expire", "portal", "a", "b", "check", "got"}

-----------------------------------------------------------------------------
(* setup(): after power on, after a restart, after a wake by one button.     *)

\* All but the buttons and a capture already begun.
Fresh ==
    /\ screen = "Home" /\ forNote = FALSE /\ restore = FALSE
    /\ chord = NoChord /\ mixed = FALSE /\ stray = FALSE /\ rec = NoRec /\ jobs = NoJobs
    /\ view = [v |-> 0, odd |-> FALSE, a |-> 0, b |-> 0, moved |-> FALSE]
    /\ sleep = "no" /\ RouteInit

AllUp == [b \in Buttons |-> "up"]

ColdBoot ==
    /\ Fresh /\ btn = AllUp /\ cap = "no" /\ fb = Quiet
    /\ main \in {AtLoop, [AtLoop EXCEPT !.pc = "portal"]} \* runWifiSetup()

\* BOOT alone: the audio starts at once, the press or the click is latched.
BootWake ==
    /\ Fresh /\ btn = [AllUp EXCEPT !["Boot"] = "latched"] /\ main = AtLoop
    /\ \/ cap = "ok" /\ fb = [Quiet EXCEPT !.want = TRUE, !.pend = TRUE]
       \/ cap = "failed" /\ fb = Quiet

PwrWake ==
    /\ Fresh /\ cap = "no" /\ fb = Quiet /\ main = AtLoop
    /\ btn \in [Buttons -> {"up", "mute"}]

Init == ColdBoot /\ enabled \in BOOLEAN

-----------------------------------------------------------------------------
(* The canvas belongs to the main loop or to the worker that draws           *)
(* "listening", "thinking", "speaking".                                      *)

Busy == fb.pend \/ fb.act
Asks == fb' = [fb EXCEPT !.want = TRUE, !.pend = TRUE]

\* request(): the state that is already there is not drawn again.
Request == Asks \/ (fb.want /\ UNCHANGED fb)

\* Mutant: does not wait.
EnsureNoUi == fb' = [fb EXCEPT !.want = FALSE] /\ restore' = FALSE

\* ensureUi(): withdraws the request and waits until the worker rests.
EnsureUi == ~fb.act /\ fb' = Quiet /\ restore' = FALSE

Claim == fb.pend /\ ~fb.act /\ fb' = [fb EXCEPT !.pend = FALSE, !.act = TRUE]
Rendered == fb.act /\ fb' = [fb EXCEPT !.act = FALSE]
Draw == (Claim \/ Rendered)
        /\ UNCHANGED <<screen, forNote, restore, audioVars, jobVars, main, routeVars,
                       inputVars, sleep>>

\* The screens that take the canvas before they draw.
Preparing == {"Home", "RootMenu", "SyncResult"}
Go(next) ==
    /\ screen' = next /\ forNote' = FALSE \* dead but on SyncBusy and SyncResult
    /\ IF next \in Preparing THEN EnsureUi ELSE UNCHANGED <<fb, restore>>
Show(note) == screen' = "SyncResult" /\ forNote' = note /\ EnsureUi

-----------------------------------------------------------------------------
(* What may run with what.                                                   *)

Active(j) == jobs[j] \in (IF j = "sync" THEN {"online", "done"} ELSE {"start", "online"})
AudioActive == cap # "no" \/ rec.stage # "no" \/ Active("talk")

Free == ~AudioActive /\ ~Active("sync") /\ ~Active("export")

CanSleep == Free /\ ~Busy /\ screen \notin {"Saving", "PhonePairing"}

\* prepareWakeCapture(): audio before it is known what the press becomes.
Prepare ==
    IF cap # "no" \/ ~Free THEN UNCHANGED <<cap, fb, restore>>
    ELSE /\ restore' = FALSE
         /\ \/ (cap' = "ok" /\ Request)
            \/ (cap' = "failed" /\ UNCHANGED fb)

\* cancelPendingCapture()
CancelCapture ==
    IF cap = "no" THEN UNCHANGED <<cap, restore>> ELSE cap' = "no" /\ restore' = TRUE

-----------------------------------------------------------------------------
(* Recording.                                                                *)

\* startRecording(), with the capture of the press or one of its own; a
\* failure (storage, capture, memory, recorder) is told on the screen.
StartRecording ==
    /\ \/ /\ cap # "failed" /\ (cap = "ok" \/ Free)
          /\ rec' = [stage |-> "on", discard |-> FALSE]
          /\ screen' = "Recording" /\ restore' = FALSE /\ UNCHANGED forNote
          /\ IF cap = "ok" THEN UNCHANGED fb ELSE Request
       \/ Show(FALSE) /\ UNCHANGED rec
    /\ cap' = "no" /\ UNCHANGED <<jobVars, main, routeVars>>

\* ensureOnline() by the main loop, what comes of it, and what startSync() does.
Reached(r) == (Online /\ UNCHANGED routeVars) \/ MainConnects(r)
NoSession == UNCHANGED <<jobVars, main>>

\* A worker starts publishing with snapshot 0.
FreshView == [v |-> 0, odd |-> FALSE, a |-> 0, b |-> 0, moved |-> FALSE]
SyncStarts(note) ==
    /\ jobs' = [jobs EXCEPT !["sync"] = "online"] /\ view' = FreshView
    /\ screen' = "SyncBusy" /\ forNote' = note /\ UNCHANGED main

StartSync(note) ==
    \/ Show(note) /\ NoSession /\ UNCHANGED routeVars \* nothing to do, or no storage
    \/ \E r \in Routes(FALSE) :
        \/ /\ ~r.ok /\ Go("Home") /\ NoSession
           /\ \E w \in {FALSE, r.wifi} : Finish(w)
        \/ /\ Online \/ r.ok \* but no authorisation, no memory, nothing pending
           /\ Show(note) /\ NoSession
           /\ \E w \in {FALSE, wifi, r.wifi} : Finish(w)
        \/ /\ Online \/ r.ok
           /\ Reached(r) /\ EnsureUi /\ SyncStarts(note)

\* finishRecording(): empty, failed, full, discarded; saved; saved and sent.
FinishRecording(r) ==
    /\ r.stage = "done" /\ rec' = NoRec /\ UNCHANGED cap
    /\ \/ Show(FALSE) /\ UNCHANGED <<jobVars, main, routeVars>>
       \/ ~r.discard /\ Go("Home") /\ UNCHANGED <<jobVars, main, routeVars>>
       \/ ~r.discard /\ StartSync(FALSE)

\* serviceRecordingSave()
ServiceSave(r) ==
    \/ FinishRecording(r)
    \/ /\ r.stage # "done" /\ rec' = r /\ screen' = "Saving"
       /\ IF Busy THEN UNCHANGED <<fb, restore>> ELSE EnsureUi
       /\ UNCHANGED <<forNote, cap, jobVars, main, routeVars>>

StopRecording(discard) ==
    IF rec.stage = "no" \/ screen = "Saving" THEN UNCHANGED appVars
    ELSE ServiceSave([rec EXCEPT !.stage = IF @ = "on" THEN "end" ELSE @,
                                 !.discard = discard])

-----------------------------------------------------------------------------
(* The other operations.                                                     *)

\* start() of a job: refused while the last result waits, or by the settings.
Launch(j) ==
    \E s \in IF jobs[j] = "done" THEN {"done"} ELSE {"start", "done"} :
        jobs' = [jobs EXCEPT ![j] = s]

\* startAssistant(): takes the capture over.
StartAssistant ==
    IF rec.stage # "no" \/ \E j \in Workers : Active(j) THEN UNCHANGED appVars
    ELSE /\ Configure /\ cap' = "no" /\ UNCHANGED <<rec, view, main>>
         /\ \/ cap = "failed" /\ Show(FALSE) /\ UNCHANGED jobs
            \/ /\ cap # "failed" /\ Launch("talk")
               /\ screen' = "AssistantBusy" /\ UNCHANGED <<forNote, fb, restore>>

\* serviceAssistant()
ServiceAssistant ==
    IF jobs["talk"] = "done"
    THEN /\ jobs' = [jobs EXCEPT !["talk"] = "no"]
         /\ IF phone THEN FinishRetaining(FALSE) ELSE Finish(FALSE)
         /\ screen' = "AssistantResult" /\ EnsureUi
         /\ UNCHANGED <<forNote, audioVars, view, main>>
    ELSE Request /\ UNCHANGED <<screen, forNote, restore, audioVars, jobVars, main, routeVars>>

\* startPhonePairing(): the radio is on for the phone to find.
StartPairing ==
    IF ~Free THEN UNCHANGED appVars
    ELSE /\ UNCHANGED <<audioVars, jobVars, main>>
         /\ \/ Show(FALSE) /\ UNCHANGED routeVars
            \/ /\ enabled' = TRUE /\ phone' = FALSE
               /\ UNCHANGED <<retain, selecting, wifi>>
               /\ \/ Show(FALSE) /\ UNCHANGED radio
                  \/ /\ radio' = IF radio = "off" THEN "on" ELSE radio
                     /\ screen' = "PhonePairing" /\ EnsureUi /\ UNCHANGED forNote

\* startNoteExport()
StartExport ==
    IF ~Free THEN UNCHANGED appVars
    ELSE /\ EnsureUi /\ Configure /\ UNCHANGED <<forNote, audioVars, view, main>>
         /\ Launch("export") /\ screen' = "ExportBusy"

ServiceExport ==
    /\ jobs["export"] = "done"
    /\ jobs' = [jobs EXCEPT !["export"] = "no"]
    /\ Finish(FALSE) /\ Show(TRUE) /\ UNCHANGED <<audioVars, view, main>>

StopPairing(next) ==
    /\ screen = "PhonePairing" /\ Finish(wifi) /\ Go(next)
    /\ UNCHANGED <<audioVars, jobVars, main>>
-----------------------------------------------------------------------------
(* Screens that only lead to one another: screen, button, gesture, next.     *)

Clicks == {"short", "long"}
NoteLinks ==
    {<<"NotesList", "Pwr", "long", "RootMenu">>, <<"NotesList", "Boot", "short", "RootMenu">>,
     <<"NotesList", "Boot", "short", "NoteDetail">>, <<"NoteDetail", "Pwr", "long", "NotesList">>}
    \cup {<<"NoteDetail", "Boot", "short", x>> : x \in {"TextViewer", "ConfirmDeleteOne", "NotesList"}}
    \cup {<<"ConfirmDeleteOne", "Pwr", c, "NoteDetail">> : c \in Clicks}
    \cup {<<"ConfirmDeleteOne", "Boot", "short", "NotesList">>}
    \cup {<<"TextViewer", "Pwr", c, "NoteDetail">> : c \in Clicks}
SettingsLinks ==
    {<<"Settings", "Pwr", "long", "RootMenu">>, <<"Settings", "Boot", "short", "RootMenu">>,
     <<"Settings", "Boot", "short", "ConfirmDeleteAll">>,
     <<"ConfirmDeleteAll", "Boot", "short", "Settings">>}
    \cup {<<"ConfirmDeleteAll", "Pwr", c, "Settings">> : c \in Clicks}
    \cup {<<"About", b, c, "RootMenu">> : b \in Buttons, c \in Clicks}
WifiLinks ==
    {<<"WifiMenu", "Pwr", "long", "RootMenu">>, <<"WifiNetworkDetail", "Pwr", "long", "WifiMenu">>,
     <<"WifiNetworkDetail", "Boot", "short", "WifiMenu">>,
     <<"WifiScanList", "Boot", "short", "WifiMenu">>,
     <<"WifiScanList", "Boot", "short", "KeyboardPassword">>}
    \cup {<<"WifiMenu", "Boot", "short", x>> :
            x \in {"WifiNetworkDetail", "WifiScanList", "KeyboardSsid", "RootMenu"}}
    \cup {<<"WifiScanList", "Pwr", c, "WifiMenu">> : c \in Clicks}
KeyboardLinks ==
    {<<"KeyboardSsid", "Boot", "short", "WifiMenu">>,
     <<"KeyboardSsid", "Boot", "short", "KeyboardPassword">>,
     <<"KeyboardPassword", "Boot", "short", "WifiMenu">>}
RootLinks ==
    {<<"Home", "Pwr", "short", "RootMenu">>, <<"RootMenu", "Pwr", "long", "Home">>}
    \cup {<<"RootMenu", "Boot", "short", x>> : x \in {"NotesList", "WifiMenu", "Settings", "About"}}
Links == RootLinks \cup NoteLinks \cup SettingsLinks \cup WifiLinks \cup KeyboardLinks

\* A menu may also only move its cursor, or change a setting.
Navigate(b, a) ==
    /\ \/ \E next \in Screens : <<screen, b, a, next>> \in Links /\ Go(next)
       \/ screen \in Menus \ {"About"} /\ UNCHANGED uiVars
    /\ UNCHANGED <<audioVars, jobVars, main, routeVars>>

-----------------------------------------------------------------------------
(* The items that do more.                                                   *)

Sync(note) == IF ~Free THEN UNCHANGED appVars ELSE StartSync(note) /\ UNCHANGED audioVars

\* ensureOnline(), or "connect now" of a network.
ConnectNow ==
    /\ EnsureUi /\ (\E r \in Routes(FALSE) : Reached(r))
    /\ UNCHANGED <<screen, forNote, audioVars, jobVars, main>>

\* The portal: an access point, and other callbacks for the buttons.
Portal ==
    /\ EnsureUi /\ main' = At("portal") /\ wifi' = FALSE
    /\ UNCHANGED <<screen, forNote, audioVars, jobVars, enabled, phone, retain, selecting, radio>>

NotDone(note) == Show(note) /\ UNCHANGED <<audioVars, jobVars, main, routeVars>>

Choose ==
    \/ screen = "RootMenu" /\ (StartRecording \/ Sync(FALSE) \/ StartPairing)
    \/ screen = "NoteDetail" /\ (Sync(TRUE) \/ StartExport \/ NotDone(TRUE))
    \/ screen = "ConfirmDeleteOne" /\ NotDone(FALSE)
    \/ screen = "WifiMenu" /\ Portal
    \/ screen = "WifiNetworkDetail" /\ ConnectNow

Handle(b, a) ==
    \/ Navigate(b, a)
    \/ b = "Boot" /\ a = "short" /\ Choose
    \/ screen \in Waits /\ UNCHANGED appVars
    \/ /\ screen = "SyncResult" /\ Go(IF forNote THEN "NoteDetail" ELSE "Home")
       /\ UNCHANGED <<audioVars, jobVars, main, routeVars>>
    \/ StopPairing("RootMenu")
    \/ screen = "Home" /\ b = "Boot" /\ IF a = "short" THEN StartRecording ELSE StartAssistant
    \/ /\ screen = "Recording"
       /\ IF b = "Boot" THEN StopRecording(a = "long") ELSE UNCHANGED appVars
    \/ /\ screen = "AssistantResult"
       /\ IF b = "Boot" /\ a = "long" THEN StartAssistant
          ELSE Go("Home") /\ cap' = "no" /\ UNCHANGED <<rec, jobVars, main, routeVars>>

-----------------------------------------------------------------------------
(* The buttons.                                                              *)

\* "latched": pressed, perhaps clicked, before the callbacks were there;
\* "strange", "stranger": pressed, then held, in the portal.
Possible(b, a) ==
    a \in CASE btn[b] = "up" -> {"press"}
            [] btn[b] = "down" -> {"short", "long"}
            [] btn[b] \in {"long", "stranger"} -> {"release"}
            [] btn[b] = "latched" -> {"press", "short"}
            [] btn[b] = "strange" -> {"short", "long"}
            [] OTHER -> {}

After(b, a) ==
    [btn EXCEPT ![b] = CASE a = "press" -> IF main.pc = "portal" THEN "strange" ELSE "down"
                         [] a = "long" -> IF @ = "strange" THEN "stranger" ELSE "long"
                         [] OTHER -> "up"]
Held(g) == {b \in Buttons : g[b] \in {"down", "long"}}
Mixes(g) == mixed' = IF Held(g) = {} THEN FALSE ELSE mixed \/ Held(g) = Buttons

\* suppressUntilRelease() of both.
Muted(g) == [b \in Buttons |-> IF g[b] = "up" THEN "up" ELSE "mute"]

\* Mutant: only the overlap itself is consumed.
LeftEarly(c, b, a) ==
    LET d == [c EXCEPT ![b] = @ /\ a \notin {"short", "release"}]
    IN  [d EXCEPT !.on = @ /\ d.Boot /\ d.Pwr]

\* ButtonChord::consume(): a press joins, a release leaves.
Joined(b, a) ==
    LET c == [chord EXCEPT ![b] = @ \/ a = "press"]
    IN  [c EXCEPT !.on = @ \/ (c.Boot /\ c.Pwr)]
Left(c, b, a) ==
    LET d == [c EXCEPT ![b] = @ /\ a \notin {"short", "release"}]
    IN  [d EXCEPT !.on = @ /\ (d.Boot \/ d.Pwr)]

\* Mutant: the capture goes on.
AbandonLess == UNCHANGED appVars

\* What a chord, and a lost event, put an end to.
Abandon ==
    /\ cap' = "no"
    /\ \/ /\ rec.stage # "no" /\ screen # "Saving"
          /\ ServiceSave([rec EXCEPT !.stage = IF @ = "on" THEN "end" ELSE @, !.discard = FALSE])
       \/ /\ rec.stage = "no" \/ screen = "Saving"
          /\ restore' = (restore \/ cap # "no")
          /\ UNCHANGED <<screen, forNote, fb, rec, jobVars, main, routeVars>>

\* onButton(), past the chord.
OnButton(b, a) ==
    CASE a = "press" ->
           /\ CASE b = "Boot" /\ screen \in {"Home", "AssistantResult"} -> Prepare
                [] b = "Pwr" -> CancelCapture /\ UNCHANGED fb
                [] OTHER -> UNCHANGED <<cap, fb, restore>>
           /\ UNCHANGED <<screen, forNote, rec, jobVars, main, routeVars>>
      [] a # "press" /\ (a = "release" \/ \E j \in Workers : Active(j)) -> UNCHANGED appVars
      [] OTHER -> Handle(b, a)

\* enterScreensaver(), with the buttons in state g.
EnterSleep(g) ==
    IF CanSleep
    THEN /\ sleep' = "pending" /\ btn' = Muted(g) /\ fb' = Quiet /\ Finish(FALSE)
         /\ UNCHANGED <<screen, forNote, restore, audioVars, jobVars, main>>
    ELSE /\ sleep' = IF Busy /\ Free THEN "deferred" ELSE sleep
         /\ btn' = g /\ UNCHANGED appVars

AtSleep == sleep \in {"pending", "timing"}
Polls == main.pc = "loop" /\ sleep # "asleep"

\* onButtonEvent()
Deliver(b, a) ==
    /\ Polls /\ Possible(b, a) /\ Mixes(After(b, a))
    /\ IF AtSleep THEN btn' = After(b, a) /\ UNCHANGED <<chord, appVars, sleep>>
       ELSE LET c == Joined(b, a) IN
            /\ chord' = Left(c, b, a)
            /\ IF ~c.on /\ screen = "Home" /\ b = "Pwr" /\ a = "long" /\ Free
               THEN EnterSleep(After(b, a))
               ELSE /\ btn' = After(b, a)
                    /\ sleep' = IF a = "press" THEN "no" ELSE sleep
                    /\ IF c.on THEN Abandon ELSE OnButton(b, a)
    /\ stray' = (cap' # "no" /\ (stray \/ btn[b] \in {"strange", "stranger"}))

\* A muted press ends without an event.
Unheard(b) ==
    /\ btn[b] = "mute" /\ btn' = [btn EXCEPT ![b] = "up"]
    /\ UNCHANGED <<appVars, chord, mixed, stray, sleep>>

\* Events were lost: no gesture goes on.
Overflow ==
    /\ Polls /\ ~AtSleep /\ Abandon
    /\ chord' = NoChord /\ mixed' = FALSE /\ stray' = FALSE
    /\ btn' = Muted(btn) /\ UNCHANGED sleep

\* Events of the portal; BOOT held leaves it.
InPortal(b, a) ==
    /\ main.pc = "portal" /\ Possible(b, a) /\ Mixes(After(b, a)) /\ btn' = After(b, a)
    /\ IF b = "Boot" /\ a = "long" THEN main' = AtLoop /\ wifi' = FALSE
                                  ELSE UNCHANGED <<main, wifi>>
    /\ UNCHANGED <<uiVars, audioVars, jobVars, enabled, phone, retain, selecting, radio>>
    /\ UNCHANGED <<chord, stray, sleep>>

=============================================================================
