------------------------------ MODULE NoteFiles ------------------------------
(***************************************************************************)
(* The notes on flash (src/src/storage/note_files.cpp, notes.cpp), the     *)
(* recorder that writes them (src/src/audio/recorder.cpp) and the part of  *)
(* App that starts, saves, discards and deletes them, under power loss     *)
(* between any two file operations and the failure of any of them.         *)
(*                                                                         *)
(* A note n is the set of files that exist under its name.  ".wav" is a    *)
(* 44-byte header, ".pcm" the audio, appended and never rewritten, "txt"   *)
(* stands for every text or state sibling and "txt.tmp" for its            *)
(* replacement in progress.  LittleFS makes create, rename and remove      *)
(* atomic; what is written to a file is durable once it is flushed.        *)
(***************************************************************************)
EXTENDS Naturals, FiniteSets

CONSTANTS
  Notes,        \* names buildPath() can form
  None,         \* no note
  Chunk,        \* kWriteChunkBytes
  Second,       \* bytes between two checkpoints
  MaximumBytes, \* room for a recording
  MaxStarts,    \* bound: recordings started
  MaxTexts,     \* bound: texts written
  MaxCrashes    \* bound: power losses

ASSUME NotesAssumption == None \notin Notes
ASSUME SizesAssumption ==
  /\ Chunk \in Nat \ {0} /\ Second \in Nat \ {0}
  /\ MaximumBytes \in Nat \ {0} /\ {MaxStarts, MaxTexts, MaxCrashes} \subseteq Nat

VARIABLES
  files,  \* [Notes -> SUBSET Kinds]: the files of each note
  pcm,    \* [Notes -> Nat]: durable bytes of its ".pcm"
  text,   \* [Notes -> [Texts -> Contents]]: what its texts hold
  rec,    \* the Recorder and its writer task (RAM)
  main,   \* the Arduino loop: what App is doing (RAM)
  kept,   \* [Notes -> Nat]: audio the user was told is kept
  starts, texts, crashes

disk == <<files, pcm, text>>
bounds == <<starts, texts, crashes>>
vars == <<disk, rec, main, kept, bounds>>

Texts == {"txt", "txt.tmp"}
\* validText() refuses "bad" (missing, empty, broken UTF-8), not what was "cut".
Contents == {"bad", "cut", "whole"}
Kinds == {"wav", "wav.tmp", "wav.delete", "pcm"} \cup Texts

Off == [pc |-> "off", data |-> 0, held |-> 0, check |-> 0,
        stop |-> FALSE, rest |-> FALSE, io |-> FALSE, failed |-> FALSE]
Idle == [pc |-> "home", note |-> None, why |-> "none", ready |-> TRUE,
         todo |-> {}, discard |-> FALSE]

Init ==
  /\ files = [n \in Notes |-> {}]
  /\ pcm = [n \in Notes |-> 0]
  /\ text = [n \in Notes |-> [t \in Texts |-> "bad"]]
  /\ rec = Off
  /\ main = [Idle EXCEPT !.pc = "boot"]
  /\ kept = [n \in Notes |-> 0]
  /\ starts = 0 /\ texts = 0 /\ crashes = 0

-----------------------------------------------------------------------------
(* File operations.                                                          *)

Has(n, kind) == kind \in files[n]

\* Mutant: only the header is looked for.
NoteListed(n) == Has(n, "wav")

\* noteExists(): a name is taken as long as any file of it is left.
NoteExists(n) == files[n] # {}

Create(n, kind) == files' = [files EXCEPT ![n] = @ \cup {kind}]
Rename(n, from, to) == files' = [files EXCEPT ![n] = (@ \ {from}) \cup {to}]
Unlink(n, kind) == files' = [files EXCEPT ![n] = @ \ {kind}]

\* openRead() and validWav(): what a reader finds, whatever the header says.
Readable(n) == IF Has(n, "wav") /\ Has(n, "pcm") THEN pcm[n] ELSE 0

-----------------------------------------------------------------------------
(* Recorder::startImpl(), on the main task.                                  *)

Note == main.note

\* buildPath() takes a free name; the date may repeat (rtc failure).
StartRecording(n) ==
  /\ main.pc = "home" /\ main.ready /\ starts < MaxStarts
  /\ ~NoteExists(n)
  /\ main' = [main EXCEPT !.pc = "start", !.note = n, !.discard = FALSE]
  /\ rec' = [Off EXCEPT !.pc = "header"]
  /\ starts' = starts + 1
  /\ UNCHANGED <<disk, kept, texts, crashes>>

GoHome == main' = [main EXCEPT !.pc = "home", !.note = None, !.why = "none"]

\* Failure of writeWavHeader(): start() gives up, the writer task reports it.
HeaderFailed ==
  \/ /\ main.pc = "start" /\ rec' = Off /\ GoHome
  \/ /\ main.pc # "start"
     /\ rec' = [rec EXCEPT !.pc = "done", !.failed = TRUE]
     /\ UNCHANGED main

\* writeWavHeader(): ".wav.tmp" is written, flushed and read back ...
WriteHeader(ok, cleaned) ==
  /\ rec.pc = "header"
  /\ \/ /\ ok /\ Create(Note, "wav.tmp")
        /\ rec' = [rec EXCEPT !.pc = "rename"] /\ UNCHANGED main
     \/ /\ ~ok /\ HeaderFailed
        /\ IF cleaned THEN Unlink(Note, "wav.tmp") ELSE Create(Note, "wav.tmp")
  /\ UNCHANGED <<pcm, text, kept, bounds>>

\* ... and renamed over the ".wav".
RenameHeader(ok) ==
  /\ rec.pc = "rename"
  /\ \/ /\ ok /\ Rename(Note, "wav.tmp", "wav")
        /\ rec' = [rec EXCEPT !.pc = IF main.pc = "start" THEN "open" ELSE "done"]
        /\ UNCHANGED main
     \/ /\ ~ok /\ HeaderFailed /\ UNCHANGED files
  /\ UNCHANGED <<pcm, text, kept, bounds>>

Removing(n, why) == [main EXCEPT !.pc = "remove", !.note = n, !.why = why]

\* ".pcm" is opened for appending, the ring and the tasks are created; any
\* failure of these removes the note again.
OpenPcm(ok) ==
  /\ rec.pc = "open"
  /\ \/ Create(Note, "pcm")
     \/ ~ok /\ UNCHANGED files
  /\ \/ /\ ok /\ rec' = [rec EXCEPT !.pc = "run"]
        /\ main' = [main EXCEPT !.pc = "recording"]
     \/ /\ ~ok /\ rec' = Off /\ main' = Removing(Note, "start")
  /\ UNCHANGED <<pcm, text, kept, bounds>>

-----------------------------------------------------------------------------
(* The writer task, audio_wr.                                                *)

Least(a, b) == IF a < b THEN a ELSE b

\* flush() of `length` bytes: those that fit reach the file, not yet the flash.
Append(length, written) ==
  LET wanted == Least(length, MaximumBytes - rec.data)
      data   == rec.data + written
      short  == written # wanted
  IN /\ written <= wanted
     /\ rec' = [rec EXCEPT
          !.pc     = IF data - rec.check >= Second THEN "mark"
                     ELSE IF length < Chunk THEN "close" ELSE "run",
          !.data   = data,
          !.held   = @ + written,
          !.rest   = length < Chunk,
          !.stop   = @ \/ short \/ wanted < length \/ data >= MaximumBytes,
          !.io     = short,
          !.failed = @ \/ short]

\* A full chunk; after an I/O failure or in a full store nothing more is written.
WriteChunk ==
  /\ rec.pc = "run" /\ ~rec.io /\ rec.data < MaximumBytes
  /\ \E written \in 0..Chunk : Append(Chunk, written)
  /\ UNCHANGED <<disk, main, kept, bounds>>

\* Mutant: the loop goes on until everything has been written.
WriteRestIfSound ==
  /\ rec.pc = "run" /\ rec.stop /\ ~rec.io
  /\ rec' = [rec EXCEPT !.pc = "close"]
  /\ UNCHANGED <<disk, main, kept, bounds>>

\* The ring is drained after a stop: the incomplete chunk, unless it is empty.
WriteRest ==
  /\ rec.pc = "run" /\ rec.stop
  /\ \/ rec' = [rec EXCEPT !.pc = "close"]
     \/ /\ ~rec.io /\ rec.data < MaximumBytes
        /\ \E length \in 1..(Chunk - 1), written \in 0..Chunk :
             Append(length, written)
  /\ UNCHANGED <<disk, main, kept, bounds>>

\* What is held in RAM becomes durable; File::flush() cannot report a failure.
Commit(ok) ==
  pcm' = [pcm EXCEPT ![Note] = IF ok THEN @ + rec.held ELSE @]

\* One checkpoint per second of audio.
Checkpoint(ok) ==
  /\ rec.pc = "mark"
  /\ Commit(ok)
  /\ rec' = [rec EXCEPT !.pc = IF rec.rest THEN "close" ELSE "run",
                        !.check = rec.data, !.held = IF ok THEN 0 ELSE @]
  /\ UNCHANGED <<files, text, main, kept, bounds>>

\* Mutant: the size that is found on flash is not compared.
CommittedUnseen(ok, opened) == opened

\* The last flush and close; only a file of the expected size, seen through a
\* new open, gets its final header.
Committed(ok, opened) == opened /\ pcm'[Note] = rec.data

CloseFile(ok, opened) ==
  /\ rec.pc = "close"
  /\ Commit(ok)
  /\ rec' = IF Committed(ok, opened)
            THEN [rec EXCEPT !.pc = "header", !.check = rec.data, !.held = 0]
            ELSE [rec EXCEPT !.pc = "done", !.failed = TRUE, !.held = 0]
  /\ UNCHANGED <<files, text, main, kept, bounds>>

\* The capture fails (overflow, I2S, two seconds without samples).
CaptureFails ==
  /\ rec.pc \in {"run", "mark"} /\ ~rec.stop
  /\ rec' = [rec EXCEPT !.stop = TRUE, !.failed = TRUE]
  /\ UNCHANGED <<disk, main, kept, bounds>>

-----------------------------------------------------------------------------
(* App::stopRecording() and finishRecording().                               *)

\* A button or App.loop(), which has seen the recorder full, failed or ended.
StopRecording(discard) ==
  /\ main.pc = "recording"
  /\ main' = [main EXCEPT !.pc = "saving", !.discard = discard]
  /\ rec' = [rec EXCEPT !.stop = TRUE]
  /\ UNCHANGED <<disk, kept, bounds>>

\* An empty recording is removed only when its emptiness has been seen.
KnownEmpty(opened) == opened /\ Has(Note, "pcm") /\ pcm[Note] = 0

\* A saved note keeps all it recorded, an interrupted one what is durable.
FinishRecording(opened) ==
  /\ main.pc = "saving" /\ rec.pc = "done"
  /\ rec' = Off
  /\ \/ /\ main.discard
        /\ main' = Removing(Note, "discard") /\ UNCHANGED kept
     \/ /\ ~main.discard /\ KnownEmpty(opened)
        /\ main' = Removing(Note, "empty") /\ UNCHANGED kept
     \/ /\ ~main.discard /\ ~KnownEmpty(opened)
        /\ GoHome
        /\ kept' = [kept EXCEPT ![Note] =
             IF rec.failed \/ Readable(Note) = 0 THEN Readable(Note) ELSE rec.data]
  /\ UNCHANGED <<disk, bounds>>

-----------------------------------------------------------------------------
(* NoteFiles::removeWav() and its callers.                                   *)

\* deleteAt() and deleteAll(); the latter is offered even when the notes could
\* not be prepared.
Listed == {n \in Notes : Has(n, "wav")}

DeleteAt(n) ==
  /\ main.pc = "home" /\ main.ready /\ n \in Listed
  /\ main' = Removing(n, "user")
  /\ kept' = [kept EXCEPT ![n] = 0]
  /\ UNCHANGED <<disk, rec, bounds>>

DeleteAll ==
  /\ main.pc = "home" /\ Listed # {}
  /\ \E n \in Listed :
       main' = [Removing(n, "all") EXCEPT !.todo = Listed \ {n}]
  /\ kept' = [n \in Notes |-> 0]
  /\ UNCHANGED <<disk, rec, bounds>>

\* What the caller does with the result of removeWav().
Removed(ok) ==
  CASE main.why = "boot" ->
         main' = IF ok THEN [main EXCEPT !.pc = "boot", !.note = None]
                 ELSE [main EXCEPT !.pc = "home", !.note = None,
                                   !.why = "none", !.ready = FALSE]
    [] main.why = "all" /\ main.todo # {} ->
         \E n \in main.todo :
           main' = [Removing(n, "all") EXCEPT !.todo = @ \ {n}]
    [] OTHER -> GoHome

\* First the rename that hides the note and marks it for removal.
Hide(ok) ==
  /\ main.pc = "remove" /\ Has(Note, "wav")
  /\ \/ /\ ok /\ ~Has(Note, "wav.delete")
        /\ Rename(Note, "wav", "wav.delete") /\ UNCHANGED main
     \/ /\ ~ok \/ Has(Note, "wav.delete")
        /\ Removed(FALSE) /\ UNCHANGED files
  /\ UNCHANGED <<pcm, text, rec, kept, bounds>>

\* Mutant: the siblings are removed in any order.
BeforeNone(kind) == {}

\* Then one sibling after the other, in the order of the code ...
Before(kind) ==
  CASE kind = "pcm"        -> {}
    [] kind = "txt"        -> {"pcm"}
    [] kind = "txt.tmp"    -> {"pcm", "txt"}
    [] kind = "wav.tmp"    -> {"pcm"} \cup Texts
    [] kind = "wav.delete" -> {"pcm", "wav.tmp"} \cup Texts

RemoveSibling(kind, ok) ==
  /\ main.pc = "remove" /\ ~Has(Note, "wav")
  /\ Has(Note, kind) /\ files[Note] \cap Before(kind) = {}
  /\ \/ /\ ok /\ Unlink(Note, kind)
        /\ pcm' = [pcm EXCEPT ![Note] = IF kind = "pcm" THEN 0 ELSE @]
        /\ text' = [text EXCEPT ![Note] = [t \in Texts |-> IF t = kind THEN "bad" ELSE @[t]]]
        /\ UNCHANGED main
     \/ /\ ~ok /\ Removed(FALSE) /\ UNCHANGED disk
  /\ UNCHANGED <<rec, kept, bounds>>

\* ... until none is left.
RemoveDone ==
  /\ main.pc = "remove" /\ files[Note] = {}
  /\ Removed(TRUE)
  /\ UNCHANGED <<disk, rec, kept, bounds>>

-----------------------------------------------------------------------------
(* writeAtomic(), called by the sync worker, and recoverText().  App starts  *)
(* nothing on the notes while a sync is active.                              *)

StartText(n) ==
  /\ main.pc = "home" /\ main.ready /\ n \in Listed
  /\ texts < MaxTexts /\ texts' = texts + 1
  /\ Create(n, "txt.tmp")
  /\ main' = [main EXCEPT !.pc = "text", !.note = n]
  /\ UNCHANGED <<pcm, text, rec, kept, starts, crashes>>

Holds(n, file, content) == text' = [text EXCEPT ![n][file] = content]

\* Written, flushed and validated; or removed again, unless that fails too: then
\* whatever was written is left, as it is if the power goes in between.
WriteText(ok, cleaned) ==
  /\ main.pc = "text"
  /\ \/ /\ ok /\ Holds(Note, "txt.tmp", "whole")
        /\ main' = [main EXCEPT !.pc = "swap"] /\ UNCHANGED files
     \/ /\ ~ok /\ cleaned /\ GoHome
        /\ Unlink(Note, "txt.tmp") /\ Holds(Note, "txt.tmp", "bad")
     \/ /\ ~ok /\ ~cleaned /\ GoHome /\ UNCHANGED files
        /\ \E content \in Contents : Holds(Note, "txt.tmp", content)
  /\ UNCHANGED <<pcm, rec, kept, bounds>>

\* The rename of writeAtomic() and recoverText().
Replace(n) ==
  /\ Rename(n, "txt.tmp", "txt")
  /\ text' = [text EXCEPT ![n] =
                        [t \in Texts |-> IF t = "txt" THEN @["txt.tmp"] ELSE "bad"]]

SwapText(ok) ==
  /\ main.pc = "swap"
  /\ IF ok THEN Replace(Note) ELSE UNCHANGED <<files, text>>
  /\ GoHome
  /\ UNCHANGED <<pcm, rec, kept, bounds>>

ValidText(n, file) == text[n][file] # "bad"

\* Mutants of what recoverText() does: the replacement wins over the text it was
\* to replace.
ReplacesNewest(n) == ValidText(n, "txt.tmp")

\* A replacement is used only where there is no text.
Replaces(n) == ~ValidText(n, "txt") /\ ValidText(n, "txt.tmp")

\* recoverText(), run by rescan() on the main task for every listed note.
RecoverText(n) ==
  /\ main.pc = "home" /\ main.ready /\ n \in Listed /\ Has(n, "txt.tmp")
  /\ IF Replaces(n) THEN Replace(n)
     ELSE Unlink(n, "txt.tmp") /\ Holds(n, "txt.tmp", "bad")
  /\ UNCHANGED <<pcm, rec, main, kept, bounds>>

-----------------------------------------------------------------------------
(* Power loss, and NotesStore::begin() at boot.                              *)

PowerLoss ==
  /\ crashes < MaxCrashes
  /\ main' = [Idle EXCEPT !.pc = "boot"] /\ rec' = Off
  /\ crashes' = crashes + 1
  /\ UNCHANGED <<disk, kept, starts, texts>>

Hidden == {n \in Notes : Has(n, "wav.delete")}

ResumeRemoval(n) ==
  /\ main.pc = "boot" /\ n \in Hidden
  /\ main' = Removing(n, "boot")
  /\ UNCHANGED <<disk, rec, kept, bounds>>

BootDone ==
  /\ main.pc = "boot" /\ Hidden = {}
  /\ main' = Idle
  /\ UNCHANGED <<disk, rec, kept, bounds>>

-----------------------------------------------------------------------------

Writer ==
  \/ \E ok, seen \in BOOLEAN : WriteHeader(ok, seen) \/ CloseFile(ok, seen)
  \/ \E ok \in BOOLEAN : RenameHeader(ok) \/ OpenPcm(ok) \/ Checkpoint(ok)
  \/ WriteChunk \/ WriteRest

Removal ==
  \/ \E ok \in BOOLEAN : Hide(ok)
  \/ \E kind \in Kinds \ {"wav"}, ok \in BOOLEAN : RemoveSibling(kind, ok)
  \/ RemoveDone

Text ==
  \/ \E n \in Notes : StartText(n) \/ RecoverText(n)
  \/ \E ok, cleaned \in BOOLEAN : WriteText(ok, cleaned)
  \/ \E ok \in BOOLEAN : SwapText(ok)

Next ==
  \/ \E n \in Notes : StartRecording(n) \/ DeleteAt(n) \/ ResumeRemoval(n)
  \/ \E b \in BOOLEAN : StopRecording(b) \/ FinishRecording(b)
  \/ DeleteAll \/ CaptureFails \/ BootDone \/ PowerLoss
  \/ Writer \/ Removal \/ Text

Spec == Init /\ [][Next]_vars

\* The writer task runs and App.loop() looks at it; nothing is assumed of
\* buttons, of file operations or of the supply.
FairSpec ==
  /\ Spec /\ WF_vars(Writer) /\ WF_vars(\E b \in BOOLEAN : FinishRecording(b))
  /\ WF_vars(rec.stop /\ StopRecording(FALSE))

-----------------------------------------------------------------------------
(* Properties.                                                               *)

Recorders ==
  [pc : {"off", "header", "rename", "open", "run", "mark", "close", "done"},
   data : 0..MaximumBytes, held : 0..MaximumBytes, check : 0..MaximumBytes,
   stop : BOOLEAN, rest : BOOLEAN, io : BOOLEAN, failed : BOOLEAN]
Mains ==
  [pc : {"boot", "home", "start", "recording", "saving", "remove", "text",
         "swap"},
   note : Notes \cup {None}, ready : BOOLEAN, discard : BOOLEAN,
   why : {"none", "boot", "user", "all", "start", "discard", "empty"},
   todo : SUBSET Notes]

\* The types of the files, of the recorder and of the loop; a recording never
\* outgrows the room that was measured when it began.
TypeOK ==
  /\ files \in [Notes -> SUBSET Kinds]
  /\ pcm \in [Notes -> 0..MaximumBytes] /\ kept \in [Notes -> 0..MaximumBytes]
  /\ text \in [Notes -> [Texts -> Contents]]
  /\ rec \in Recorders /\ main \in Mains
  /\ {starts, texts, crashes} \subseteq Nat

\* What the user was told is kept stays readable, whatever fails and whenever
\* the power goes, until the user deletes the note.
KeptReadable == \A n \in Notes : Readable(n) >= kept[n]

\* "sem PCM orfao" (note_files.h:22): whatever is left of a note can be found
\* again, by its header or, if it is being removed, by its tombstone, and never
\* by both: removeWav() would then fail for ever.
Traceable ==
  \A n \in Notes :
    /\ files[n] \subseteq {"wav.tmp"} \/ Has(n, "wav") \/ Has(n, "wav.delete")
    /\ ~(Has(n, "wav") /\ Has(n, "wav.delete"))

\* The two together: what a scan of the directory relies on.
FilesInv == TypeOK /\ Traceable

\* A transcript that is whole is lost only with its note: neither a failed
\* replacement nor a reset puts a shorter one in its place, and no text that
\* cannot be read ever gets its name.
TextKept ==
  [][\A n \in Notes :
       main.pc # "remove" /\ text'[n]["txt"] # text[n]["txt"] =>
         text[n]["txt"] # "whole" /\ text'[n]["txt"] # "bad"]_vars

\* A new note inherits nothing: no audio, transcript or tombstone of a note
\* that had the same name, even if its removal was cut short.
StartsClean ==
  [][\A n \in Notes :
       ~Has(n, "wav") /\ Has(n, "wav")' => files[n] = {"wav.tmp"}]_vars

\* The Saving screen ends, also after an I/O failure or in a full store.
SavingEnds == main.pc = "saving" ~> main.pc # "saving"
=============================================================================
