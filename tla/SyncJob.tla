------------------------------- MODULE SyncJob -------------------------------
(***************************************************************************)
(* SyncJob: the worker that brings a note to its folder in Drive.  It buys *)
(* the transcript and the summary (GeminiClient), writes each to flash     *)
(* before it goes on, and uploads the three files (DriveClient).  One note *)
(* is taken again and again: as the user asks, after a pause, a failure or *)
(* a loss of power.                                                        *)
(*                                                                         *)
(* A batch holds one note: notes are independent, and what one leaves for  *)
(* the next (blocks, budgets, files to delete) is what it leaves for the   *)
(* next batch.                                                             *)
(***************************************************************************)
EXTENDS DriveClient

CONSTANTS
    wave, txt, md, \* the files of a note
    NModels, Slots, MaxTries, Total

\* The order in which uploadNote takes the files; the texts are made by AI.
ASSUME FilesAssumption ==
    /\ Order = <<wave, txt, md>>
    /\ Texts = {txt, md}

ASSUME SpeechAssumption ==
    /\ NModels \in Nat \ {0} /\ Slots \in Nat \ {0}
    /\ MaxTries \in Nat /\ Total \in Nat

VARIABLES
    tmp,    \* the whole text left in .tmp by a write whose rename failed, or 0
    meta,   \* the .ai file: "none", "pending" a stage, or "ready"
    sync,   \* the job: where it is, what start() and the notes' cache told it
    pause,  \* requestPause()
    whole,  \* history: texts that were whole on flash since they were last damaged
    key, cache, pend, retired, audio, made, expired, wav, ai, clean, told

AI == INSTANCE GeminiClient

aiVars == <<key, cache, pend, retired, audio, made, expired, wav, ai, clean, told>>
jobVars == <<tmp, meta, sync, pause, whole>>
syncVars == <<driveVars, jobVars, aiVars>>

NoteOrder == <<wave, txt, md>>
Stages == <<txt, md>>
Resting == [pc |-> "idle", k |-> 1, had |-> {}, upload |-> FALSE, ready |-> FALSE]

SyncInit ==
    /\ Init /\ AI!GeminiInit
    /\ local = [a \in Assets |-> IF a = wave THEN 1 ELSE 0]
    /\ tmp = [t \in Texts |-> 0] /\ meta = "none" /\ sync = Resting
    /\ pause = FALSE /\ whole = {}

SyncAt(pc) == sync.pc = pc
text == Stages[sync.k]
Step(pc) == [sync EXCEPT !.pc = pc]
NextText == [sync EXCEPT !.k = @ + 1, !.pc = IF sync.k < Len(Stages) THEN "text" ELSE "all"]
quiet == <<driveVars, aiVars>>

\* boundary(): a pause ends the job, so does a network that does not recover.
Leave == \/ pause /\ Spend(0)
         \/ ~pause /\ Spend(1)

(***************************************************************************)
(* start(): the cache of notes was marked dirty, so its reading recovers   *)
(* the texts left in .tmp (recoverText) and validates the others.          *)
(***************************************************************************)
LeftAlone == local \* the .tmp is deleted
Recovered == [a \in Assets |-> IF a \in Texts /\ local[a] = 0 THEN tmp[a] ELSE local[a]]

Start(force) ==
    /\ SyncAt("idle")
    /\ local' = Recovered
    /\ tmp' = [t \in Texts |-> 0]
    /\ UNCHANGED <<cfg, device, remote>>
    /\ LET had == {t \in Texts : local'[t] # 0}
           needs == had # Texts \/ (~cfg.paired /\ meta # "ready")
           upload == cfg.paired /\ (NeedsUpload(FALSE)' \/ needs)
       IN  IF force \/ needs \/ upload
           THEN /\ sync' = [Resting EXCEPT !.pc = "text", !.had = had, !.ready = meta = "ready",
                                           !.upload = upload \/ (force /\ cfg.paired)]
                /\ pause' = FALSE /\ AI!BeginBatch
           ELSE UNCHANGED <<sync, pause, clean>> \* NothingPending
    /\ UNCHANGED <<meta, whole, key, cache, pend, retired, audio, made, expired, wav, ai, told>>

\* The end of run(): the remote audio is cleaned up if the network is there.
End ==
    /\ SyncAt("end") /\ AI!Sweep /\ sync' = Step("sweep")
    /\ UNCHANGED <<local, cfg, disk, st, job, remote, tmp, meta, pause, whole>>

Rest ==
    /\ SyncAt("sweep") /\ AI!AiAt("idle") /\ sync' = Resting
    /\ UNCHANGED <<tmp, meta, pause, whole, quiet>>

(***************************************************************************)
(* prepareAi: for each text that is missing, buy, record, write, record.   *)
(***************************************************************************)
SkipText ==
    /\ SyncAt("text") /\ text \in sync.had
    /\ sync' = NextText
    /\ UNCHANGED <<tmp, meta, pause, whole, quiet>>

Buy ==
    /\ SyncAt("text") /\ text \notin sync.had /\ ~pause
    /\ AI!Call(IF text = txt THEN "stt" ELSE "sum")
    /\ sync' = Step("wait")
    /\ UNCHANGED <<driveVars, tmp, meta, pause, whole>>

\* The boundaries before a purchase and before the upload.
Stopped ==
    /\ sync.pc \in {"text", "drive"} /\ Leave
    /\ SyncAt("text") => text \notin sync.had
    /\ sync' = Step("end")
    /\ UNCHANGED <<local, cfg, disk, st, job, remote, aiVars, tmp, meta, pause, whole>>

\* recordAi(): the .ai file is replaced, or a fault leaves the old one or,
\* in its .tmp, the new one.
RecordAi(m, pc) ==
    \/ Spend(0) /\ meta' = m /\ sync' = pc
    \/ Spend(1) /\ meta' \in {meta, m} /\ sync' = Step("end")

Bought ==
    /\ SyncAt("wait") /\ AI!AiAt("done")
    /\ ai' = AI!NoCall
    /\ IF ai.ok THEN RecordAi("pending", Step("write"))
       ELSE \/ Spend(0) /\ meta' = "pending" /\ sync' = Step("end")
            \/ Spend(1) /\ meta' = meta /\ sync' = Step("end")
    /\ UNCHANGED <<local, cfg, disk, st, job, remote, tmp, pause, whole,
                   key, cache, pend, retired, audio, made, expired, wav, clean, told>>

\* writeAtomic(): the text, or what a fault leaves: nothing, or a whole .tmp.
\* Contents are interchangeable, so the first one of a text may be 1.
Answers == IF disk.of[text].want = 0 THEN {1} ELSE Contents

WriteText ==
    /\ SyncAt("write")
    /\ \E c \in Answers :
         \/ /\ Spend(0) /\ local' = [local EXCEPT ![text] = c] /\ tmp' = tmp
            /\ whole' = whole \cup {text} /\ sync' = Step("written")
         \/ /\ Spend(1) /\ local' = local /\ tmp' \in {tmp, [tmp EXCEPT ![text] = c]}
            /\ whole' = IF tmp' = tmp THEN whole ELSE whole \cup {text}
            /\ sync' = Step("end")
    /\ UNCHANGED <<cfg, disk, st, job, remote, meta, pause, aiVars>>

Written ==
    /\ SyncAt("written")
    /\ RecordAi("ready", [NextText EXCEPT !.had = @ \cup {text}, !.ready = FALSE])
    /\ UNCHANGED <<local, cfg, disk, st, job, remote, tmp, pause, whole, aiVars>>

\* The last recordAi, and the validation of what was prepared.
Prepared ==
    /\ SyncAt("all")
    /\ LET valid == \A t \in Texts : local[t] # 0
           next == Step(IF ~valid THEN "end" ELSE IF cfg.paired /\ sync.upload THEN "drive" ELSE "end")
       IN  IF sync.ready THEN Spend(0) /\ sync' = next /\ meta' = meta ELSE RecordAi("ready", next)
    /\ UNCHANGED <<local, cfg, disk, st, job, remote, tmp, pause, whole, aiVars>>

(***************************************************************************)
(* processNote: the upload and the last validation.                        *)
(***************************************************************************)
Deliver ==
    /\ SyncAt("drive") /\ ~pause
    /\ UploadNote /\ sync' = Step("driving")
    /\ UNCHANGED <<tmp, meta, pause, whole, aiVars>>

Drive ==
    /\ SyncAt("driving") /\ Steps
    /\ UNCHANGED <<jobVars, aiVars>>

Delivered ==
    /\ SyncAt("driving") /\ At("idle")
    /\ sync' = Step("end")
    /\ UNCHANGED <<tmp, meta, pause, whole, quiet>>

Gemini ==
    /\ sync.pc \in {"wait", "sweep"} /\ AI!AiSteps
    /\ UNCHANGED <<local, cfg, disk, st, job, remote, jobVars>>

(***************************************************************************)
(* The user, the flash and the power.                                      *)
(***************************************************************************)
RequestPause ==
    /\ ~SyncAt("idle") /\ ~pause /\ Spend(1) /\ pause' = TRUE
    /\ UNCHANGED <<local, cfg, disk, st, job, remote, tmp, meta, sync, whole, aiVars>>

\* A text on flash is no longer valid.
Damage ==
    /\ Spend(1)
    /\ \E t \in Texts : local[t] # 0 /\ local' = [local EXCEPT ![t] = 0] /\ whole' = whole \ {t}
    /\ UNCHANGED <<cfg, disk, st, job, remote, tmp, meta, sync, pause, aiVars>>

PowerLoss ==
    /\ Crash /\ sync' = Resting /\ pause' = FALSE
    /\ AI!AiForgets
    /\ UNCHANGED <<tmp, meta, whole, key, pend, retired, audio, made, expired, wav>>

Elsewhere == UNCHANGED <<jobVars, aiVars>>
AtRest == SyncAt("idle") /\ UNCHANGED <<local, cfg, disk, st, job, remote, jobVars>>

Pairing == SyncAt("idle") /\ Pair /\ Elsewhere
Waiting == AtRest /\ AI!TimePasses
NewKey == AtRest /\ AI!SaveKey

Ask == \E force \in BOOLEAN : Start(force)
Pending == ~cfg.paired \/ NeedsUpload(TRUE) \/ (\E t \in Texts : local[t] = 0)

Work == \/ SkipText \/ Buy \/ Bought \/ WriteText \/ Written \/ Prepared \/ Deliver
        \/ Drive \/ Delivered \/ Gemini \/ Stopped \/ End \/ Rest

World == \/ Arrive /\ Elsewhere
         \/ UserMoves /\ Elsewhere
         \/ Expire /\ Elsewhere
         \/ AtRest /\ AI!TwoDays
         \/ RequestPause \/ Damage \/ PowerLoss

SyncNext == Work \/ Ask \/ Pairing \/ Waiting \/ NewKey \/ World

\* The worker runs; the user asks again while something is pending, pairs
\* again, saves another key when told to; and time passes.
Fairness ==
    /\ WF_syncVars(Work) /\ WF_syncVars(Start(FALSE))
    /\ SF_syncVars(Pairing) /\ SF_syncVars(Waiting) /\ SF_syncVars(NewKey /\ told = "key")

SyncSpec == SyncInit /\ [][SyncNext]_syncVars /\ Fairness

(***************************************************************************)
(* Properties.                                                             *)
(***************************************************************************)
\* What the device calls delivered is on Drive, under the id it wrote down,
\* with the content it has here, in our folder, unless the user moved it
\* away: uploadNote says yes only after reading back size and MD5.
SyncedIsThere ==
    disk.full /\ disk.gen = cfg.gen =>
        \A a \in Assets :
            LET r == disk.of[a]
            IN  r.want # 0 => /\ r.id # 0
                              /\ \/ Away(r.id)
                                 \/ files[r.id].has = r.want /\ files[r.id].of = a /\ files[r.id].dir \in dirs

\* One authorization never leaves two files of the same kind of a note, nor
\* two folders, however requests and replies were lost, late or repeated.
OneCopy ==
    /\ Cardinality(dirs) =< 1
    /\ \A x, y \in {z \in 1..MaxId : files[z].has # 0 /\ ~Away(z)} :
         files[x].of = files[y].of /\ files[x].gen = files[y].gen => x = y

\* No file of this authorization is on Drive without its id in .sync, so the
\* device can always find what a lost reply or a loss of power left there.
NothingForgotten ==
    \A x \in 1..MaxId :
        files[x].has # 0 /\ ~Away(x) /\ files[x].gen = cfg.gen => \E a \in Assets : disk.of[a].id = x

\* Temporary audio on the API server is never out of reach of the cleanup.
RemoteTracked == AI!RemoteTracked

\* Both: nothing the device has put into either cloud is forgotten.
Accounted == NothingForgotten /\ RemoteTracked

\* The API is left alone when it asked to wait or refused the key.
WaitsWhenTold == AI!WaitsWhenTold

\* A text that was whole on flash, in its file or in the .tmp of a write whose
\* rename failed, is not bought again unless the flash lost it.
PaidOnce == [][Buy => text \notin whole]_syncVars

\* Once faults stop, and the user asks again, a note is delivered (and again
\* after each forced verification): no state left by a fault (a dead session,
\* a foreign id, a full list of files to delete, a folder in the bin) keeps
\* it from that for ever.
EventuallyDelivered == []<>(~Pending)
=============================================================================
