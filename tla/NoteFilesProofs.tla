--------------------------- MODULE NoteFilesProofs ---------------------------
(***************************************************************************)
(* The notes on flash, for any number of names, recordings, texts and      *)
(* power losses and every size of a chunk: what the user was told is kept  *)
(* stays readable (KeptReadable), whatever is left of a note can be found  *)
(* again (FilesInv), no replacement tears a text (TextKept), and a new     *)
(* note inherits nothing (StartsClean).                                    *)
(*                                                                         *)
(* Any operation may fail and the power may go before any of them, so what *)
(* is proved of the disk cannot rest on what the RAM remembers: the        *)
(* invariant says for each place of the loop and of the writer what is on  *)
(* flash by then.                                                          *)
(***************************************************************************)
EXTENDS NoteFiles, TLAPS

\* The places of the loop while a recording has a name, and while its audio runs.
Running == {"recording", "saving"}
Naming  == Running \cup {"start"}

\* Where the loop and the writer can be together; only a loop at home, or one
\* that boots, holds no note.
Together ==
  /\ main.pc \notin Naming => rec.pc = "off"
  /\ main.pc = "start" => rec.pc \in {"header", "rename", "open"}
  /\ main.pc \in Running => rec.pc \in {"run", "mark", "close", "header", "rename", "done"}
  /\ main.pc \notin {"boot", "home"} => main.note \in Notes

\* What the note in hand consists of.
OnFlash ==
  /\ main.pc = "start" =>
       files[Note] = CASE rec.pc = "header" -> {}
                       [] rec.pc = "rename" -> {"wav.tmp"}
                       [] rec.pc = "open"   -> {"wav"}
  /\ main.pc \in Running =>
       /\ {"wav", "pcm"} \subseteq files[Note]
       /\ files[Note] \subseteq {"wav", "pcm", "wav.tmp"}
  /\ main.pc \in {"text", "swap"} => "wav" \in files[Note]
  /\ main.pc = "swap" => text[Note]["txt.tmp"] = "whole"

\* Audio is in a file.
Filed == \A n \in Notes : "pcm" \notin files[n] => pcm[n] = 0

\* Every byte that was written is durable or still held; a final header is
\* written over what was found on flash.
Counted ==
  /\ rec.check <= rec.data
  /\ main.pc = "start" => rec.data = 0 /\ rec.held = 0
  /\ rec.pc \in {"run", "mark", "close"} => pcm[Note] + rec.held = rec.data
  /\ main.pc \in Running =>
       (rec.pc \in {"header", "rename"} \/ (rec.pc = "done" /\ ~rec.failed)
          => pcm[Note] = rec.data)

\* Nothing was promised of a note that is being recorded or removed.
Told ==
  /\ KeptReadable
  /\ main.pc \in Naming \cup {"remove"} => kept[Note] = 0
  /\ main.pc = "remove" /\ main.why = "all" => \A n \in main.todo : kept[n] = 0

\* The inductive invariant.
IInv == TypeOK /\ Traceable /\ Filed /\ Together /\ OnFlash /\ Counted /\ Told

-----------------------------------------------------------------------------
(* The values at rest, and the files of one note.                            *)

LEMMA AtRest ==
  /\ Off \in Recorders /\ Off.pc = "off" /\ Off.data = 0 /\ Off.held = 0 /\ Off.check = 0
  /\ Idle \in Mains /\ Idle.pc = "home" /\ Idle.note = None
BY SizesAssumption DEF Off, Idle, Recorders, Mains

LEMMA NoBytes == 0 \in 0..MaximumBytes
BY SizesAssumption

\* The files that an operation leaves are files of a note.
LEMMA FileTypes ==
  ASSUME TypeOK, NEW n \in Notes, NEW a \in Kinds, NEW b \in Kinds,
         Create(n, a) \/ Rename(n, a, b) \/ Unlink(n, a) \/ UNCHANGED files
  PROVE  /\ files' \in [Notes -> SUBSET Kinds]
         /\ \A m \in Notes \ {n} : files'[m] = files[m]
BY DEF TypeOK, Create, Rename, Unlink

\* The disk alone: its types, and that every file of it can be found again.
Disk ==
  /\ files \in [Notes -> SUBSET Kinds] /\ pcm \in [Notes -> 0..MaximumBytes]
  /\ text \in [Notes -> [Texts -> Contents]]
  /\ Traceable /\ Filed

LEMMA DiskKept == ASSUME IInv, UNCHANGED disk PROVE Disk'
BY DEF IInv, TypeOK, disk, Disk, Traceable, Has, Filed

\* The loop rests, or boots: nobody holds a note, so only the disk matters.
LEMMA LoopRests ==
  ASSUME Disk', KeptReadable', kept' \in [Notes -> 0..MaximumBytes],
         {starts, texts, crashes}' \subseteq Nat,
         rec' \in Recorders, rec'.pc = "off", rec'.check <= rec'.data,
         main' \in Mains, main'.pc \in {"home", "boot"}
  PROVE  IInv'
<1>1. TypeOK' /\ Traceable' /\ Filed' BY DEF Disk, TypeOK
<1>2. Together' BY DEF Together, Naming, Running
<1>3. OnFlash' BY DEF OnFlash, Naming, Running
<1>4. Counted' BY DEF Counted, Naming, Running
<1>5. Told' BY DEF Told, Naming, Running
<1> QED BY <1>1, <1>2, <1>3, <1>4, <1>5 DEF IInv

\* The loop removes a note of which nothing is promised any more.
LEMMA LoopRemoves ==
  ASSUME Disk', KeptReadable', kept' \in [Notes -> 0..MaximumBytes],
         {starts, texts, crashes}' \subseteq Nat,
         rec' \in Recorders, rec'.pc = "off", rec'.check <= rec'.data,
         main' \in Mains, main'.pc = "remove", main'.note \in Notes,
         kept'[main'.note] = 0,
         main'.why = "all" => \A n \in main'.todo : kept'[n] = 0
  PROVE  IInv'
<1>1. TypeOK' /\ Traceable' /\ Filed' BY DEF Disk, TypeOK
<1>2. Together' BY DEF Together, Naming, Running
<1>3. OnFlash' BY DEF OnFlash, Naming, Running
<1>4. Counted' BY DEF Counted, Naming, Running
<1>5. Told' BY DEF Told, Naming, Running, Note
<1> QED BY <1>1, <1>2, <1>3, <1>4, <1>5 DEF IInv

\* removeWav() has returned: the loop goes home, boots on, or takes the next note.
LEMMA RemovalReturns ==
  ASSUME IInv, main.pc = "remove", NEW ok \in BOOLEAN, Removed(ok), Disk', KeptReadable',
         UNCHANGED <<rec, kept, bounds>>
  PROVE  IInv'
<1>1. /\ kept' \in [Notes -> 0..MaximumBytes] /\ {starts, texts, crashes}' \subseteq Nat
      /\ rec' \in Recorders /\ rec'.pc = "off" /\ rec'.check <= rec'.data
  BY DEF IInv, TypeOK, Together, Naming, Running, Counted, bounds
<1>2. main \in Mains BY DEF IInv, TypeOK
<1>3. CASE main.why = "boot"
  <2>1. main' \in Mains /\ main'.pc \in {"home", "boot"}
    BY <1>2, <1>3 DEF Removed, Mains
  <2> QED BY <1>1, <2>1, LoopRests
<1>4. CASE main.why = "all" /\ main.todo # {}
  <2>1. PICK n \in main.todo : main' = [Removing(n, "all") EXCEPT !.todo = @ \ {n}]
    BY <1>4 DEF Removed
  <2>2. n \in Notes BY <1>2 DEF Mains
  <2>3. main' \in Mains /\ main'.pc = "remove" /\ main'.note = n /\ main'.todo \subseteq main.todo
    BY <1>2, <2>1, <2>2 DEF Removing, Mains
  <2>4. \A m \in main.todo : kept'[m] = 0
    BY <1>4 DEF IInv, Told
  <2> QED BY <1>1, <2>2, <2>3, <2>4, LoopRemoves
<1>5. CASE main.why # "boot" /\ ~(main.why = "all" /\ main.todo # {})
  <2>1. main' \in Mains /\ main'.pc = "home"
    BY <1>2, <1>5 DEF Removed, GoHome, Mains
  <2> QED BY <1>1, <2>1, LoopRests
<1> QED BY <1>3, <1>4, <1>5

-----------------------------------------------------------------------------
(* Recorder::startImpl().                                                    *)

LEMMA StartRecordingGood == ASSUME IInv, NEW n \in Notes, StartRecording(n) PROVE IInv'
<1>1. Disk' /\ files'[n] = {} BY DiskKept DEF StartRecording, NoteExists, disk
<1>2. main' \in Mains /\ main'.pc = "start" /\ main'.note = n
  BY DEF IInv, TypeOK, StartRecording, Mains
<1>3. /\ rec' \in Recorders /\ rec'.pc = "header"
      /\ rec'.data = 0 /\ rec'.held = 0 /\ rec'.check = 0
  BY AtRest DEF StartRecording, Recorders
<1>4. TypeOK' BY <1>1, <1>2, <1>3 DEF IInv, TypeOK, Disk, StartRecording
<1>5. Together' /\ OnFlash' /\ Counted'
  BY <1>1, <1>2, <1>3 DEF Together, OnFlash, Counted, Note, Naming, Running
<1>6. Told'
  BY <1>1, <1>2 DEF IInv, TypeOK, Told, KeptReadable, Readable, Has, Note, StartRecording, disk,
                    Naming, Running, NoteExists
<1> QED BY <1>1, <1>4, <1>5, <1>6 DEF IInv, Disk

LEMMA WriteHeaderGood ==
  ASSUME IInv, NEW ok \in BOOLEAN, NEW cleaned \in BOOLEAN, WriteHeader(ok, cleaned)
  PROVE  IInv'
<1>1. /\ main.pc \in Naming /\ Note \in Notes /\ rec.pc = "header" /\ kept[Note] = 0
      /\ rec \in Recorders /\ main \in Mains /\ UNCHANGED <<pcm, text, kept, bounds>>
  BY DEF IInv, TypeOK, Together, Told, Naming, Running, WriteHeader, Note
<1>2. Create(Note, "wav.tmp") \/ Unlink(Note, "wav.tmp")
  BY DEF WriteHeader
<1>3. /\ files' \in [Notes -> SUBSET Kinds]
      /\ \A m \in Notes \ {Note} : files'[m] = files[m]
      /\ files'[Note] \subseteq files[Note] \cup {"wav.tmp"}
      /\ files[Note] \ {"wav.tmp"} \subseteq files'[Note]
  BY <1>1, <1>2, FileTypes DEF IInv, TypeOK, Create, Unlink, Kinds
<1>4. Disk' /\ KeptReadable'
  BY <1>1, <1>3 DEF IInv, TypeOK, Disk, Traceable, Has, Filed, Told, KeptReadable, Readable
<1>5. CASE main' = [main EXCEPT !.pc = "home", !.note = None, !.why = "none"] /\ rec' = Off
  <2>1. main' \in Mains /\ main'.pc = "home" BY <1>1, <1>5 DEF Mains
  <2> QED BY <1>1, <1>4, <1>5, <2>1, AtRest, LoopRests DEF IInv, TypeOK, bounds
<1>6. CASE UNCHANGED main
  <2>1. PICK p \in {"rename", "done"} :
          /\ p = "rename" => rec' = [rec EXCEPT !.pc = p] /\ Create(Note, "wav.tmp")
          /\ p = "done" => rec' = [rec EXCEPT !.pc = p, !.failed = TRUE] /\ main.pc # "start"
    BY <1>1, <1>6 DEF WriteHeader, HeaderFailed, GoHome, Naming, Running, Mains
  <2>2. /\ rec' \in Recorders /\ rec'.pc = p /\ UNCHANGED <<rec.data, rec.held, rec.check>>
        /\ p = "done" => rec'.failed
    BY <1>1, <2>1 DEF Recorders
  <2>3. TypeOK' BY <1>1, <1>4, <1>6, <2>2 DEF IInv, TypeOK, Disk, bounds
  <2>4. Together' BY <1>1, <1>6, <2>1, <2>2 DEF IInv, Together, Naming, Running
  <2>5. OnFlash'
    BY <1>1, <1>3, <1>6, <2>1, <2>2 DEF IInv, TypeOK, OnFlash, Naming, Running, Note, Create
  <2>6. Counted'
    BY <1>1, <1>6, <2>1, <2>2 DEF IInv, Counted, Naming, Running, Note
  <2>7. Told' BY <1>1, <1>4, <1>6 DEF IInv, Told, Naming, Running, Note
  <2> QED BY <1>4, <2>3, <2>4, <2>5, <2>6, <2>7 DEF IInv, Disk
<1> QED BY <1>5, <1>6 DEF WriteHeader, HeaderFailed, GoHome

LEMMA RenameHeaderGood == ASSUME IInv, NEW ok \in BOOLEAN, RenameHeader(ok) PROVE IInv'
<1>1. /\ main.pc \in Naming /\ Note \in Notes /\ rec.pc = "rename" /\ kept[Note] = 0
      /\ rec \in Recorders /\ main \in Mains /\ UNCHANGED <<pcm, text, kept, bounds>>
  BY DEF IInv, TypeOK, Together, Told, Naming, Running, RenameHeader, Note
<1>2. /\ files[Note] \subseteq {"wav", "pcm", "wav.tmp"}
      /\ main.pc = "start" => files[Note] = {"wav.tmp"}
      /\ main.pc \in Running => {"wav", "pcm"} \subseteq files[Note]
  BY <1>1 DEF IInv, OnFlash, Naming, Running
<1>3. Rename(Note, "wav.tmp", "wav") \/ UNCHANGED files
  BY DEF RenameHeader
<1>4. /\ files' \in [Notes -> SUBSET Kinds]
      /\ \A m \in Notes \ {Note} : files'[m] = files[m]
      /\ Rename(Note, "wav.tmp", "wav") => files'[Note] = (files[Note] \ {"wav.tmp"}) \cup {"wav"}
  BY <1>1, <1>3, FileTypes DEF IInv, TypeOK, Rename, Kinds
<1>5. Disk' /\ KeptReadable'
  BY <1>1, <1>2, <1>3, <1>4
     DEF IInv, TypeOK, Disk, Traceable, Has, Filed, Told, KeptReadable, Readable
<1>6. CASE main' = [main EXCEPT !.pc = "home", !.note = None, !.why = "none"] /\ rec' = Off
  <2>1. main' \in Mains /\ main'.pc = "home" BY <1>1, <1>6 DEF Mains
  <2> QED BY <1>1, <1>5, <1>6, <2>1, AtRest, LoopRests DEF IInv, TypeOK, bounds
<1>7. CASE UNCHANGED main
  <2>1. PICK p \in {"open", "done"} :
          /\ p = "open" => /\ rec' = [rec EXCEPT !.pc = p] /\ Rename(Note, "wav.tmp", "wav")
                           /\ main.pc = "start"
          /\ p = "done" => /\ main.pc # "start"
                           /\ \/ rec' = [rec EXCEPT !.pc = p] /\ Rename(Note, "wav.tmp", "wav")
                              \/ rec' = [rec EXCEPT !.pc = p, !.failed = TRUE] /\ UNCHANGED files
    BY <1>1, <1>7 DEF RenameHeader, HeaderFailed, GoHome, Naming, Running, Mains
  <2>2. rec' \in Recorders /\ rec'.pc = p /\ UNCHANGED <<rec.data, rec.held, rec.check>>
    BY <1>1, <2>1 DEF Recorders
  <2>3. TypeOK' BY <1>1, <1>5, <1>7, <2>2 DEF IInv, TypeOK, Disk, bounds
  <2>4. Together' BY <1>1, <1>7, <2>1, <2>2 DEF IInv, Together, Naming, Running
  <2>5. OnFlash'
    BY <1>1, <1>2, <1>4, <1>7, <2>1, <2>2 DEF IInv, TypeOK, OnFlash, Naming, Running, Note
  <2>6. Counted'
    BY <1>1, <1>7, <2>1, <2>2 DEF IInv, Counted, Naming, Running, Note
  <2>7. Told' BY <1>1, <1>5, <1>7 DEF IInv, Told, Naming, Running, Note
  <2> QED BY <1>5, <2>3, <2>4, <2>5, <2>6, <2>7 DEF IInv, Disk
<1> QED BY <1>6, <1>7 DEF RenameHeader, HeaderFailed, GoHome

LEMMA OpenPcmGood == ASSUME IInv, NEW ok \in BOOLEAN, OpenPcm(ok) PROVE IInv'
<1>1. /\ main.pc = "start" /\ Note \in Notes /\ rec.pc = "open" /\ kept[Note] = 0
      /\ rec \in Recorders /\ main \in Mains /\ UNCHANGED <<pcm, text, kept, bounds>>
      /\ files[Note] = {"wav"} /\ pcm[Note] = 0
      /\ rec.data = 0 /\ rec.held = 0 /\ rec.check <= 0
  BY DEF IInv, TypeOK, Together, OnFlash, Filed, Counted, Told, Naming, Running, OpenPcm, Note
<1>2. Create(Note, "pcm") \/ UNCHANGED files
  BY DEF OpenPcm
<1>3. /\ files' \in [Notes -> SUBSET Kinds]
      /\ \A m \in Notes \ {Note} : files'[m] = files[m]
      /\ Create(Note, "pcm") => files'[Note] = {"wav", "pcm"}
  BY <1>1, <1>2, FileTypes DEF IInv, TypeOK, Create, Kinds
<1>4. Disk' /\ KeptReadable'
  BY <1>1, <1>2, <1>3
     DEF IInv, TypeOK, Disk, Traceable, Has, Filed, Told, KeptReadable, Readable
<1>5. CASE ~ok /\ rec' = Off /\ main' = Removing(Note, "start")
  <2>1. main' \in Mains /\ main'.pc = "remove" /\ main'.note = Note /\ main'.why = "start"
    BY <1>1, <1>5 DEF Mains, Removing
  <2> QED BY <1>1, <1>4, <1>5, <2>1, AtRest, LoopRemoves DEF IInv, TypeOK, bounds
<1>6. CASE /\ Create(Note, "pcm") /\ rec' = [rec EXCEPT !.pc = "run"]
           /\ main' = [main EXCEPT !.pc = "recording"]
  <2>1. main' \in Mains /\ main'.pc = "recording" /\ main'.note = Note
    BY <1>1, <1>6 DEF Mains, Note
  <2>2. rec' \in Recorders /\ rec'.pc = "run" /\ UNCHANGED <<rec.data, rec.held, rec.check>>
    BY <1>1, <1>6 DEF Recorders
  <2>3. TypeOK' BY <1>1, <1>4, <2>1, <2>2 DEF IInv, TypeOK, Disk, bounds
  <2>4. Together' /\ OnFlash' /\ Counted'
    BY <1>1, <1>3, <1>6, <2>1, <2>2
       DEF IInv, Together, OnFlash, Counted, Naming, Running, Note
  <2>5. Told' BY <1>1, <1>4, <2>1 DEF IInv, Told, Naming, Running, Note
  <2> QED BY <1>4, <2>3, <2>4, <2>5 DEF IInv, Disk
<1> QED BY <1>5, <1>6 DEF OpenPcm

-----------------------------------------------------------------------------
(* The writer task, and App that stops it.                                   *)

\* A step of the writer or of the capture, which leaves the files and the loop
\* alone: what is left to show are the types of the recorder and its bytes.
LEMMA WriterStep ==
  ASSUME IInv, main.pc \in Running, UNCHANGED <<files, text, main, kept, bounds>>,
         rec' \in Recorders, rec'.pc \in {"run", "mark", "close", "header", "done"},
         pcm' \in [Notes -> 0..MaximumBytes], pcm'[Note] >= pcm[Note],
         \A m \in Notes \ {Note} : pcm'[m] = pcm[m],
         Counted'
  PROVE  IInv'
<1>1. Note \in Notes /\ "pcm" \in files[Note] /\ kept[Note] = 0
  BY DEF IInv, Together, OnFlash, Told, Naming, Running, Note
<1>2. TypeOK' /\ Traceable' /\ Filed'
  BY <1>1 DEF IInv, TypeOK, Traceable, Filed, Has, bounds
<1>3. Together' /\ OnFlash' BY DEF IInv, Together, OnFlash, Naming, Running, Note
<1>4. Told'
  BY <1>1 DEF IInv, TypeOK, Told, KeptReadable, Readable, Has, Naming, Running, Note
<1> QED BY <1>2, <1>3, <1>4 DEF IInv

\* What is true of the bytes whenever the writer is in its loop.
LEMMA WriterFacts ==
  ASSUME IInv, rec.pc \in {"run", "mark", "close"}
  PROVE  /\ main.pc \in Running /\ Note \in Notes /\ rec \in Recorders
         /\ pcm[Note] \in 0..MaximumBytes /\ pcm[Note] + rec.held = rec.data
         /\ rec.check <= rec.data
BY DEF IInv, TypeOK, Together, Counted, Naming, Running, Note

LEMMA AppendGood ==
  ASSUME IInv, rec.pc = "run", rec.data < MaximumBytes, UNCHANGED <<disk, main, kept, bounds>>,
         NEW length \in 0..Chunk, NEW written \in 0..Chunk, Append(length, written)
  PROVE  IInv'
<1>1. /\ main.pc \in Running /\ Note \in Notes /\ rec \in Recorders
      /\ pcm[Note] \in 0..MaximumBytes /\ pcm[Note] + rec.held = rec.data
      /\ rec.check <= rec.data
  BY WriterFacts
<1>2. rec.data + written \in 0..MaximumBytes /\ rec.held + written \in 0..MaximumBytes
  BY <1>1, SizesAssumption DEF Append, Least, Recorders
<1>3. PICK p \in {"run", "mark", "close"}, stop \in BOOLEAN, short \in BOOLEAN :
        rec' = [rec EXCEPT !.pc = p, !.data = rec.data + written, !.held = rec.held + written,
                           !.rest = length < Chunk, !.stop = rec.stop \/ stop, !.io = short,
                           !.failed = rec.failed \/ short]
  BY Zenon DEF Append
<1>4. /\ rec' \in Recorders /\ rec'.pc \in {"run", "mark", "close"}
      /\ rec'.data = rec.data + written /\ rec'.held = rec.held + written
      /\ rec'.check = rec.check
  <2>1. /\ (length < Chunk) \in BOOLEAN /\ (rec.stop \/ stop) \in BOOLEAN
        /\ (rec.failed \/ short) \in BOOLEAN
    OBVIOUS
  <2>2. PICK rest \in BOOLEAN, halt \in BOOLEAN, failed \in BOOLEAN :
          rec' = [rec EXCEPT !.pc = p, !.data = rec.data + written, !.held = rec.held + written,
                             !.rest = rest, !.stop = halt, !.io = short, !.failed = failed]
    BY <1>3, <2>1, Zenon
  <2> QED BY <1>1, <1>2, <2>2 DEF Recorders
<1>5. Counted' BY <1>1, <1>2, <1>4, SizesAssumption DEF Counted, Running, Note, disk, Recorders
<1> QED BY <1>1, <1>4, <1>5, WriterStep DEF disk, IInv, TypeOK

\* The writer goes on to another place with what it holds.
LEMMA WriterMoves ==
  ASSUME IInv, rec.pc \in {"run", "mark"}, UNCHANGED <<disk, main, kept, bounds>>,
         NEW p \in {"run", "mark", "close"}, NEW stop \in BOOLEAN, NEW failed \in BOOLEAN,
         rec' = [rec EXCEPT !.pc = p, !.stop = stop, !.failed = failed]
  PROVE  IInv'
<1>1. /\ main.pc \in Running /\ Note \in Notes /\ rec \in Recorders
      /\ pcm[Note] \in 0..MaximumBytes /\ pcm[Note] + rec.held = rec.data
      /\ rec.check <= rec.data
  BY WriterFacts
<1>2. rec' \in Recorders /\ rec'.pc = p /\ UNCHANGED <<rec.data, rec.held, rec.check>>
  BY <1>1 DEF Recorders
<1>3. Counted' BY <1>1, <1>2 DEF Counted, Running, Note, disk
<1> QED BY <1>1, <1>2, <1>3, WriterStep DEF disk, IInv, TypeOK

LEMMA WriteGood == ASSUME IInv, WriteChunk \/ WriteRest \/ CaptureFails PROVE IInv'
<1>1. rec \in Recorders BY DEF IInv, TypeOK
<1>2. CASE WriteChunk
  BY <1>2, SizesAssumption, AppendGood DEF WriteChunk
<1>3. CASE WriteRest
  <2>1. CASE rec' = [rec EXCEPT !.pc = "close"]
    <3>1. rec' = [rec EXCEPT !.pc = "close", !.stop = rec.stop, !.failed = rec.failed]
      BY <1>1, <2>1 DEF Recorders
    <3> QED BY <1>1, <1>3, <3>1, WriterMoves DEF WriteRest, Recorders
  <2>2. CASE /\ rec.data < MaximumBytes
             /\ \E length \in 1..(Chunk - 1), written \in 0..Chunk : Append(length, written)
    BY <1>3, <2>2, SizesAssumption, AppendGood DEF WriteRest
  <2> QED BY <1>3, <2>1, <2>2 DEF WriteRest
<1>4. CASE CaptureFails
  <2>1. rec' = [rec EXCEPT !.pc = rec.pc, !.stop = TRUE, !.failed = TRUE]
    BY <1>1, <1>4 DEF CaptureFails, Recorders
  <2> QED BY <1>4, <2>1, WriterMoves DEF CaptureFails
<1> QED BY <1>2, <1>3, <1>4

\* What a flush leaves on flash.
LEMMA CommitFacts ==
  ASSUME IInv, rec.pc \in {"mark", "close"}, NEW ok \in BOOLEAN, Commit(ok)
  PROVE  /\ pcm' \in [Notes -> 0..MaximumBytes]
         /\ pcm'[Note] = IF ok THEN rec.data ELSE pcm[Note]
         /\ pcm'[Note] >= pcm[Note]
         /\ \A m \in Notes \ {Note} : pcm'[m] = pcm[m]
<1>1. /\ Note \in Notes /\ rec \in Recorders /\ pcm \in [Notes -> 0..MaximumBytes]
      /\ pcm[Note] + rec.held = rec.data
  BY WriterFacts DEF IInv, TypeOK
<1> QED BY <1>1, SizesAssumption DEF Commit, Recorders

LEMMA CheckpointGood == ASSUME IInv, NEW ok \in BOOLEAN, Checkpoint(ok) PROVE IInv'
<1>1. /\ main.pc \in Running /\ Note \in Notes /\ rec \in Recorders
      /\ pcm[Note] \in 0..MaximumBytes /\ pcm[Note] + rec.held = rec.data
      /\ rec.check <= rec.data
  BY WriterFacts DEF Checkpoint
<1>2. /\ pcm' \in [Notes -> 0..MaximumBytes]
      /\ pcm'[Note] = IF ok THEN rec.data ELSE pcm[Note]
      /\ pcm'[Note] >= pcm[Note]
      /\ \A m \in Notes \ {Note} : pcm'[m] = pcm[m]
  BY CommitFacts DEF Checkpoint
<1>3. PICK p \in {"close", "run"}, h \in {0, rec.held} :
        /\ rec' = [rec EXCEPT !.pc = p, !.check = rec.data, !.held = h]
        /\ h = IF ok THEN 0 ELSE rec.held
  BY DEF Checkpoint
<1>4. /\ rec' \in Recorders /\ rec'.pc \in {"run", "close"}
      /\ rec'.data = rec.data /\ rec'.held = (IF ok THEN 0 ELSE rec.held)
      /\ rec'.check = rec.data
  BY <1>1, <1>3, NoBytes DEF Recorders
<1>5. UNCHANGED main BY DEF Checkpoint
<1>6. Counted' BY <1>1, <1>2, <1>4, <1>5 DEF Counted, Running, Note, Recorders
<1> QED BY <1>1, <1>2, <1>4, <1>6, WriterStep DEF Checkpoint

LEMMA CloseFileGood ==
  ASSUME IInv, NEW ok \in BOOLEAN, NEW opened \in BOOLEAN, CloseFile(ok, opened) PROVE IInv'
<1>1. /\ main.pc \in Running /\ Note \in Notes /\ rec \in Recorders
      /\ pcm[Note] \in 0..MaximumBytes /\ pcm[Note] + rec.held = rec.data
      /\ rec.check <= rec.data
  BY WriterFacts DEF CloseFile
<1>2. /\ pcm' \in [Notes -> 0..MaximumBytes] /\ pcm'[Note] >= pcm[Note]
      /\ \A m \in Notes \ {Note} : pcm'[m] = pcm[m]
  BY CommitFacts DEF CloseFile
<1>3. UNCHANGED main BY DEF CloseFile
<1>4. CASE Committed(ok, opened)
  <2>1. rec' = [rec EXCEPT !.pc = "header", !.check = rec.data, !.held = 0] /\ pcm'[Note] = rec.data
    BY <1>4 DEF CloseFile, Committed
  <2>2. /\ rec' \in Recorders /\ rec'.pc = "header" /\ rec'.data = rec.data
        /\ rec'.check = rec.data
    BY <1>1, <2>1, NoBytes DEF Recorders
  <2>3. Counted' BY <1>1, <1>3, <2>1, <2>2 DEF Counted, Running, Note, Recorders
  <2> QED BY <1>1, <1>2, <2>2, <2>3, WriterStep DEF CloseFile
<1>5. CASE ~Committed(ok, opened)
  <2>1. rec' = [rec EXCEPT !.pc = "done", !.failed = TRUE, !.held = 0]
    BY <1>5 DEF CloseFile
  <2>2. /\ rec' \in Recorders /\ rec'.pc = "done" /\ rec'.failed /\ rec'.data = rec.data
        /\ rec'.check = rec.check
    BY <1>1, <2>1, NoBytes DEF Recorders
  <2>3. Counted' BY <1>1, <1>3, <2>2 DEF Counted, Running, Note
  <2> QED BY <1>1, <1>2, <2>2, <2>3, WriterStep DEF CloseFile
<1> QED BY <1>4, <1>5

\* The finger, or the loop, stops the recording.
LEMMA StopRecordingGood == ASSUME IInv, NEW discard \in BOOLEAN, StopRecording(discard) PROVE IInv'
<1>1. /\ main.pc = "recording" /\ Note \in Notes /\ rec \in Recorders /\ main \in Mains
      /\ UNCHANGED <<files, pcm, text, kept, bounds>>
  BY DEF IInv, TypeOK, Together, Naming, Running, Note, StopRecording, disk
<1>2. main' \in Mains /\ main'.pc = "saving" /\ main'.note = Note
  BY <1>1 DEF StopRecording, Mains, Note
<1>3. rec' \in Recorders /\ UNCHANGED <<rec.pc, rec.data, rec.held, rec.check, rec.failed>>
  BY <1>1 DEF StopRecording, Recorders
<1>4. TypeOK' /\ Traceable' /\ Filed'
  BY <1>1, <1>2, <1>3 DEF IInv, TypeOK, Traceable, Filed, Has, bounds
<1>5. Together' /\ OnFlash' BY <1>1, <1>2, <1>3 DEF IInv, Together, OnFlash, Naming, Running, Note
<1>6. Counted' BY <1>1, <1>2, <1>3 DEF IInv, Counted, Naming, Running, Note
<1>7. Told' BY <1>1, <1>2 DEF IInv, Told, KeptReadable, Readable, Has, Naming, Running, Note
<1> QED BY <1>4, <1>5, <1>6, <1>7 DEF IInv

\* What the user is told is what a reader finds.
LEMMA FinishRecordingGood == ASSUME IInv, NEW opened \in BOOLEAN, FinishRecording(opened) PROVE IInv'
<1>1. /\ main.pc = "saving" /\ rec.pc = "done" /\ Note \in Notes /\ main \in Mains
      /\ rec' = Off /\ UNCHANGED <<files, pcm, text, bounds>> /\ kept[Note] = 0
      /\ rec \in Recorders /\ {"wav", "pcm"} \subseteq files[Note]
      /\ ~rec.failed => pcm[Note] = rec.data
      /\ pcm \in [Notes -> 0..MaximumBytes] /\ kept \in [Notes -> 0..MaximumBytes]
  BY DEF IInv, TypeOK, Together, OnFlash, Counted, Told, Naming, Running, Note, FinishRecording, disk
<1>2. Disk' BY <1>1, DiskKept DEF disk
<1>3. {starts, texts, crashes}' \subseteq Nat BY <1>1 DEF IInv, TypeOK, bounds
<1>4. ASSUME NEW why \in {"discard", "empty"}, main' = Removing(Note, why), UNCHANGED kept
      PROVE  IInv'
  <2>1. main' \in Mains /\ main'.pc = "remove" /\ main'.note = Note /\ main'.why # "all"
    BY <1>1, <1>4 DEF Removing, Mains
  <2>2. KeptReadable' BY <1>1, <1>4 DEF IInv, Told, KeptReadable, Readable, Has
  <2> QED BY <1>1, <1>2, <1>3, <1>4, <2>1, <2>2, AtRest, LoopRemoves
<1>5. CASE /\ GoHome
           /\ kept' = [kept EXCEPT ![Note] =
                         IF rec.failed \/ Readable(Note) = 0 THEN Readable(Note) ELSE rec.data]
  <2>1. main' \in Mains /\ main'.pc = "home" BY <1>1, <1>5 DEF GoHome, Mains
  <2>2. Readable(Note) = pcm[Note] BY <1>1 DEF Readable, Has
  <2>3. kept' = [kept EXCEPT ![Note] = pcm[Note]] BY <1>1, <1>5, <2>2
  <2>4. kept' \in [Notes -> 0..MaximumBytes] /\ KeptReadable'
    BY <1>1, <2>3 DEF IInv, Told, KeptReadable, Readable, Has
  <2> QED BY <1>1, <1>2, <1>3, <2>1, <2>4, AtRest, LoopRests
<1> QED BY <1>4, <1>5 DEF FinishRecording

-----------------------------------------------------------------------------
(* Removal.                                                                  *)

LEMMA DeleteGood ==
  ASSUME IInv, (\E n \in Notes : DeleteAt(n) \/ ResumeRemoval(n)) \/ DeleteAll PROVE IInv'
<1>1. /\ Disk' /\ UNCHANGED rec /\ rec \in Recorders /\ main \in Mains
      /\ main.pc \in {"home", "boot"} /\ {starts, texts, crashes}' \subseteq Nat
      /\ kept \in [Notes -> 0..MaximumBytes] /\ UNCHANGED <<files, pcm>>
  BY DiskKept DEF IInv, TypeOK, DeleteAt, ResumeRemoval, DeleteAll, disk, bounds
<1>2. rec.pc = "off" /\ rec.check <= rec.data /\ KeptReadable
  BY <1>1 DEF IInv, Together, Counted, Told, Naming, Running
<1>3. ASSUME NEW n \in Notes, DeleteAt(n) PROVE IInv'
  <2>1. main' \in Mains /\ main'.pc = "remove" /\ main'.note = n /\ main'.why = "user"
    BY <1>1, <1>3 DEF DeleteAt, Removing, Mains
  <2>2. kept' = [kept EXCEPT ![n] = 0] BY <1>3 DEF DeleteAt
  <2>3. kept' \in [Notes -> 0..MaximumBytes] /\ kept'[n] = 0 BY <1>1, <2>2, NoBytes
  <2>4. KeptReadable' BY <1>1, <1>2, <2>2, <2>3 DEF Disk, KeptReadable, Readable, Has
  <2> QED BY <1>1, <1>2, <2>1, <2>3, <2>4, LoopRemoves
<1>4. ASSUME NEW n \in Notes, ResumeRemoval(n) PROVE IInv'
  <2>1. main' \in Mains /\ main'.pc = "remove" /\ main'.note = n /\ main'.why = "boot"
    BY <1>1, <1>4 DEF ResumeRemoval, Removing, Mains
  <2>2. UNCHANGED kept /\ Has(n, "wav.delete") BY <1>4 DEF ResumeRemoval, Hidden
  <2>3. kept[n] = 0
    <3>1. ~Has(n, "wav") BY <2>2 DEF IInv, Traceable
    <3> QED BY <1>1, <1>2, <3>1 DEF KeptReadable, Readable
  <2>4. KeptReadable' BY <1>1, <1>2, <2>2 DEF KeptReadable, Readable, Has
  <2> QED BY <1>1, <1>2, <2>1, <2>2, <2>3, <2>4, LoopRemoves
<1>5. CASE DeleteAll
  <2>1. PICK n \in Listed : main' = [Removing(n, "all") EXCEPT !.todo = Listed \ {n}]
    BY <1>5 DEF DeleteAll
  <2>2. n \in Notes /\ Listed \ {n} \subseteq Notes BY DEF Listed
  <2>3. main' \in Mains /\ main'.pc = "remove" /\ main'.note = n /\ main'.todo \subseteq Notes
    BY <1>1, <2>1, <2>2 DEF Removing, Mains
  <2>4. kept' = [m \in Notes |-> 0] BY <1>5 DEF DeleteAll
  <2>5. kept' \in [Notes -> 0..MaximumBytes] /\ \A m \in Notes : kept'[m] = 0 BY <2>4, NoBytes
  <2>6. KeptReadable' BY <1>1, <2>5 DEF Disk, KeptReadable, Readable, Has
  <2> QED BY <1>1, <1>2, <2>2, <2>3, <2>5, <2>6, LoopRemoves
<1> QED BY <1>3, <1>4, <1>5

\* The disk while a note of which nothing is promised is taken apart.
LEMMA Apart ==
  ASSUME IInv, main.pc = "remove", UNCHANGED <<kept, bounds>>,
         files' \in [Notes -> SUBSET Kinds], pcm' \in [Notes -> 0..MaximumBytes],
         \A m \in Notes \ {Note} : files'[m] = files[m] /\ pcm'[m] = pcm[m]
  PROVE  Note \in Notes /\ KeptReadable'
<1>1. Note \in Notes /\ kept[Note] = 0
  BY DEF IInv, Together, Told, Naming, Running, Note
<1>2. \A n \in Notes \ {Note} : Readable(n)' = Readable(n)
  BY DEF Readable, Has
<1>3. \A n \in Notes : Readable(n)' \in Nat
  BY DEF Readable, Has
<1> QED BY <1>1, <1>2, <1>3 DEF IInv, TypeOK, Told, KeptReadable

LEMMA HideGood == ASSUME IInv, NEW ok \in BOOLEAN, Hide(ok) PROVE IInv'
<1>1. /\ main.pc = "remove" /\ UNCHANGED <<pcm, text, rec, kept, bounds>> /\ Note \in Notes
      /\ main \in Mains /\ rec \in Recorders /\ rec.pc = "off" /\ "wav" \in files[Note]
  BY DEF IInv, TypeOK, Together, Naming, Running, Note, Hide, Has
<1>2. CASE Removed(FALSE) /\ UNCHANGED files
  <2>1. Disk' BY <1>1, <1>2, DiskKept DEF disk
  <2>2. KeptReadable' BY <1>1, <1>2, Apart DEF IInv, TypeOK
  <2> QED BY <1>1, <1>2, <2>1, <2>2, RemovalReturns
<1>3. CASE ~Has(Note, "wav.delete") /\ Rename(Note, "wav", "wav.delete") /\ UNCHANGED main
  <2>1. /\ files' \in [Notes -> SUBSET Kinds]
        /\ \A m \in Notes \ {Note} : files'[m] = files[m]
        /\ files'[Note] = (files[Note] \ {"wav"}) \cup {"wav.delete"}
    BY <1>1, <1>3, FileTypes DEF IInv, TypeOK, Rename, Kinds
  <2>2. KeptReadable' BY <1>1, <2>1, Apart DEF IInv, TypeOK
  <2>3. Disk' BY <1>1, <2>1 DEF IInv, TypeOK, Disk, Traceable, Has, Filed
  <2> QED BY <1>1, <1>3, <2>2, <2>3, LoopRemoves DEF IInv, TypeOK, Counted, Told, Note, bounds
<1> QED BY <1>2, <1>3 DEF Hide

\* The tombstone goes last, so what a power loss leaves can be found by it.
LEMMA RemoveSiblingGood ==
  ASSUME IInv, NEW kind \in Kinds \ {"wav"}, NEW ok \in BOOLEAN, RemoveSibling(kind, ok)
  PROVE  IInv'
<1>1. /\ main.pc = "remove" /\ UNCHANGED <<rec, kept, bounds>> /\ Note \in Notes
      /\ main \in Mains /\ rec \in Recorders /\ rec.pc = "off" /\ "wav" \notin files[Note]
      /\ kind \in files[Note] /\ files[Note] \cap Before(kind) = {} /\ files[Note] \subseteq Kinds
  BY DEF IInv, TypeOK, Together, Naming, Running, Note, RemoveSibling, Has
<1>2. CASE Removed(FALSE) /\ UNCHANGED disk
  <2>1. Disk' BY <1>2, DiskKept
  <2>2. KeptReadable' BY <1>1, <1>2, Apart DEF IInv, TypeOK, disk
  <2> QED BY <1>1, <1>2, <2>1, <2>2, RemovalReturns
<1>3. CASE /\ Unlink(Note, kind) /\ UNCHANGED main
           /\ pcm' = [pcm EXCEPT ![Note] = IF kind = "pcm" THEN 0 ELSE @]
           /\ text' = [text EXCEPT ![Note] = [t \in Texts |-> IF t = kind THEN "bad" ELSE @[t]]]
  <2>1. /\ files' \in [Notes -> SUBSET Kinds]
        /\ \A m \in Notes \ {Note} : files'[m] = files[m]
        /\ files'[Note] = files[Note] \ {kind}
    BY <1>1, <1>3, FileTypes DEF IInv, TypeOK, Unlink
  <2>2. /\ pcm' \in [Notes -> 0..MaximumBytes]
        /\ \A m \in Notes \ {Note} : pcm'[m] = pcm[m]
        /\ pcm'[Note] = IF kind = "pcm" THEN 0 ELSE pcm[Note]
    BY <1>1, <1>3, NoBytes DEF IInv, TypeOK
  <2>3. text' \in [Notes -> [Texts -> Contents]]
    BY <1>1, <1>3 DEF IInv, TypeOK, Contents
  <2>4. KeptReadable' BY <1>1, <2>1, <2>2, Apart
  <2>5. kind = "wav.delete" => files'[Note] = {}
    BY <1>1, <2>1 DEF Before, Kinds, Texts
  <2>6. Disk'
    BY <1>1, <2>1, <2>2, <2>3, <2>5 DEF IInv, Disk, Traceable, Has, Filed
  <2> QED BY <1>1, <1>3, <2>4, <2>6, LoopRemoves DEF IInv, TypeOK, Counted, Told, Note, bounds
<1> QED BY <1>2, <1>3 DEF RemoveSibling

LEMMA RemoveDoneGood == ASSUME IInv, RemoveDone PROVE IInv'
<1>1. Disk' BY DiskKept DEF RemoveDone
<1>2. KeptReadable' BY Apart DEF IInv, TypeOK, RemoveDone, disk
<1> QED BY <1>1, <1>2, RemovalReturns DEF RemoveDone

-----------------------------------------------------------------------------
(* Texts, and the power.                                                     *)

\* The loop has a text of a listed note in hand.
LEMMA TextStep ==
  ASSUME IInv, main.pc \in {"home", "text"}, UNCHANGED <<pcm, rec, kept>>,
         {starts, texts, crashes}' \subseteq Nat, NEW n \in Notes,
         files' \in [Notes -> SUBSET Kinds], \A m \in Notes \ {n} : files'[m] = files[m],
         files'[n] \cap {"wav", "pcm", "wav.delete"} = files[n] \cap {"wav", "pcm", "wav.delete"},
         "wav" \in files[n], text' \in [Notes -> [Texts -> Contents]],
         main' \in Mains, main'.pc \in {"home", "text", "swap"},
         main'.pc # "home" => main'.note = n,
         main'.pc = "swap" => text'[n]["txt.tmp"] = "whole"
  PROVE  IInv'
<1>1. Disk' BY DEF IInv, TypeOK, Disk, Traceable, Has, Filed
<1>2. KeptReadable' BY DEF IInv, TypeOK, Told, KeptReadable, Readable, Has
<1>3. /\ TypeOK' /\ Traceable' /\ Filed' /\ rec.pc = "off"
  BY <1>1 DEF IInv, TypeOK, Disk, Together, Naming, Running
<1>4. Together' /\ OnFlash' /\ Counted' /\ Told'
  BY <1>2, <1>3 DEF IInv, Together, OnFlash, Counted, Told, Naming, Running, Note
<1> QED BY <1>3, <1>4 DEF IInv

LEMMA StartTextGood == ASSUME IInv, NEW n \in Notes, StartText(n) PROVE IInv'
<1>1. /\ main.pc = "home" /\ main \in Mains /\ UNCHANGED <<pcm, text, rec, kept>>
      /\ {starts, texts, crashes}' \subseteq Nat /\ "wav" \in files[n]
      /\ text' \in [Notes -> [Texts -> Contents]]
  BY DEF IInv, TypeOK, StartText, Listed, Has
<1>2. main' \in Mains /\ main'.pc = "text" /\ main'.note = n
  BY <1>1 DEF StartText, Mains
<1>3. /\ files' \in [Notes -> SUBSET Kinds] /\ \A m \in Notes \ {n} : files'[m] = files[m]
      /\ files'[n] = files[n] \cup {"txt.tmp"}
  BY FileTypes DEF IInv, TypeOK, StartText, Create, Kinds, Texts
<1> QED BY <1>1, <1>2, <1>3, TextStep

\* What the loop holds while it writes a text.
LEMMA TextFacts ==
  ASSUME IInv, main.pc \in {"text", "swap"}, UNCHANGED bounds
  PROVE  /\ Note \in Notes /\ "wav" \in files[Note] /\ main \in Mains
         /\ {starts, texts, crashes}' \subseteq Nat
BY DEF IInv, TypeOK, Together, OnFlash, Note, bounds

LEMMA WriteTextGood ==
  ASSUME IInv, NEW ok \in BOOLEAN, NEW cleaned \in BOOLEAN, WriteText(ok, cleaned) PROVE IInv'
<1>1. /\ main.pc = "text" /\ UNCHANGED <<pcm, rec, kept, bounds>>
      /\ Note \in Notes /\ "wav" \in files[Note] /\ main \in Mains
      /\ {starts, texts, crashes}' \subseteq Nat
  BY TextFacts DEF WriteText
<1>2. /\ files' \in [Notes -> SUBSET Kinds] /\ \A m \in Notes \ {Note} : files'[m] = files[m]
      /\ files'[Note] \in {files[Note], files[Note] \ {"txt.tmp"}}
  BY <1>1, FileTypes DEF IInv, TypeOK, WriteText, Unlink, Kinds, Texts
<1>3. PICK content \in Contents : Holds(Note, "txt.tmp", content) /\ (ok => content = "whole")
  BY DEF WriteText, Contents
<1>4. /\ text' \in [Notes -> [Texts -> Contents]] /\ text'[Note]["txt.tmp"] = content
  BY <1>1, <1>3 DEF IInv, TypeOK, Holds, Texts
<1>5. /\ main' \in Mains /\ main'.pc \in {"home", "swap"}
      /\ main'.pc = "swap" => main'.note = Note /\ ok
  BY <1>1 DEF WriteText, GoHome, Mains, Note
<1> QED BY <1>1, <1>2, <1>3, <1>4, <1>5, TextStep

\* The rename puts the text where it belongs.
LEMMA ReplaceFacts ==
  ASSUME TypeOK, NEW n \in Notes, Replace(n)
  PROVE  /\ files' \in [Notes -> SUBSET Kinds] /\ \A m \in Notes \ {n} : files'[m] = files[m]
         /\ files'[n] = (files[n] \ {"txt.tmp"}) \cup {"txt"}
         /\ text' \in [Notes -> [Texts -> Contents]]
         /\ \A m \in Notes \ {n} : text'[m] = text[m]
         /\ text'[n]["txt"] = text[n]["txt.tmp"]
<1>1. {"txt", "txt.tmp"} \subseteq Kinds BY DEF Kinds, Texts
<1>2. Rename(n, "txt.tmp", "txt") BY DEF Replace
<1>3. files' \in [Notes -> SUBSET Kinds] /\ \A m \in Notes \ {n} : files'[m] = files[m]
  BY <1>1, <1>2, FileTypes
<1>4. files'[n] = (files[n] \ {"txt.tmp"}) \cup {"txt"} BY <1>2 DEF Rename, TypeOK
<1>5. text' = [text EXCEPT ![n] = [t \in Texts |-> IF t = "txt" THEN @["txt.tmp"] ELSE "bad"]]
  BY DEF Replace
<1> QED BY <1>3, <1>4, <1>5 DEF TypeOK, Texts, Contents

LEMMA SwapTextGood == ASSUME IInv, NEW ok \in BOOLEAN, SwapText(ok) PROVE IInv'
<1>1. /\ main.pc = "swap" /\ UNCHANGED <<pcm, rec, kept, bounds>>
      /\ Note \in Notes /\ "wav" \in files[Note] /\ main \in Mains
      /\ {starts, texts, crashes}' \subseteq Nat
  BY TextFacts DEF SwapText
<1>2. main' \in Mains /\ main'.pc = "home" BY <1>1 DEF SwapText, GoHome, Mains
<1>3. Disk'
  <2>1. CASE UNCHANGED <<files, text>> BY <1>1, <2>1, DiskKept DEF disk
  <2>2. CASE Replace(Note)
    BY <1>1, <2>2, ReplaceFacts DEF IInv, TypeOK, Disk, Traceable, Has, Filed
  <2> QED BY <2>1, <2>2 DEF SwapText
<1>4. KeptReadable'
  <2>1. \A m \in Notes : files'[m] \cap {"wav", "pcm"} = files[m] \cap {"wav", "pcm"}
    BY <1>1, ReplaceFacts DEF IInv, SwapText
  <2> QED BY <1>1, <2>1 DEF IInv, Told, KeptReadable, Readable, Has
<1> QED BY <1>1, <1>2, <1>3, <1>4, LoopRests
        DEF IInv, TypeOK, Together, Counted, Naming, Running

LEMMA RecoverTextGood == ASSUME IInv, NEW n \in Notes, RecoverText(n) PROVE IInv'
<1>1. /\ main.pc = "home" /\ UNCHANGED <<pcm, rec, main, kept, bounds>> /\ main \in Mains
      /\ "wav" \in files[n] /\ {starts, texts, crashes}' \subseteq Nat
  BY DEF IInv, TypeOK, RecoverText, Listed, Has, bounds
<1>2. CASE Replace(n)
  BY <1>1, <1>2, ReplaceFacts, TextStep DEF IInv
<1>3. CASE Unlink(n, "txt.tmp") /\ Holds(n, "txt.tmp", "bad")
  <2>1. /\ files' \in [Notes -> SUBSET Kinds] /\ \A m \in Notes \ {n} : files'[m] = files[m]
        /\ files'[n] = files[n] \ {"txt.tmp"}
    BY <1>3, FileTypes DEF IInv, TypeOK, Unlink, Kinds, Texts
  <2>2. text' \in [Notes -> [Texts -> Contents]]
    BY <1>3 DEF IInv, TypeOK, Holds, Texts, Contents
  <2> QED BY <1>1, <2>1, <2>2, TextStep
<1> QED BY <1>2, <1>3 DEF RecoverText

\* What a power loss leaves, and a start that has removed what was to be removed.
LEMMA BootGood == ASSUME IInv, PowerLoss \/ BootDone PROVE IInv'
<1>1. /\ Disk' /\ KeptReadable' /\ kept' \in [Notes -> 0..MaximumBytes]
      /\ {starts, texts, crashes}' \subseteq Nat
  BY DiskKept DEF IInv, TypeOK, Told, KeptReadable, Readable, Has, PowerLoss, BootDone, disk, bounds
<1>2. CASE PowerLoss
  <2>1. main' \in Mains /\ main'.pc = "boot" BY <1>2, AtRest DEF PowerLoss, Mains
  <2> QED BY <1>1, <1>2, <2>1, AtRest, LoopRests DEF PowerLoss
<1>3. CASE BootDone
  BY <1>1, <1>3, AtRest, LoopRests DEF BootDone, IInv, TypeOK, Together, Counted, Naming, Running
<1> QED BY <1>2, <1>3

-----------------------------------------------------------------------------
(* The theorems.                                                             *)

LEMMA InitHolds == Init => IInv
<1> SUFFICES ASSUME Init PROVE IInv
  OBVIOUS
<1>1. main \in Mains /\ main.pc = "boot" BY AtRest DEF Init, Mains
<1>2. /\ rec = Off /\ rec \in Recorders
  BY AtRest DEF Init
<1>3. TypeOK
  BY <1>1, <1>2, NoBytes DEF Init, TypeOK, Kinds, Texts, Contents
<1>4. Traceable /\ Filed /\ KeptReadable
  BY DEF Init, Traceable, Filed, Has, KeptReadable, Readable
<1>5. Together /\ OnFlash /\ Counted /\ Told
  BY <1>1, <1>2, <1>4, AtRest DEF Together, OnFlash, Counted, Told, Naming, Running
<1> QED BY <1>3, <1>4, <1>5 DEF IInv

LEMMA StepHolds == IInv /\ [Next]_vars => IInv'
<1> SUFFICES ASSUME IInv, [Next]_vars PROVE IInv'
  OBVIOUS
<1>1. CASE UNCHANGED vars
  <2>1. UNCHANGED <<files, pcm, text, rec, main, kept, starts, texts, crashes>>
    BY <1>1 DEF vars, disk, bounds
  <2> QED BY <2>1 DEF IInv, TypeOK, Traceable, Filed, Together, OnFlash, Counted, Told,
                      KeptReadable, Readable, Has, Note
<1>2. CASE Writer
  BY <1>2, WriteHeaderGood, CloseFileGood, RenameHeaderGood, OpenPcmGood, CheckpointGood, WriteGood
     DEF Writer
<1>3. CASE Removal
  BY <1>3, HideGood, RemoveSiblingGood, RemoveDoneGood DEF Removal
<1>4. CASE Text
  BY <1>4, StartTextGood, RecoverTextGood, WriteTextGood, SwapTextGood DEF Text
<1>5. CASE \E n \in Notes : StartRecording(n) \/ DeleteAt(n) \/ ResumeRemoval(n)
  BY <1>5, StartRecordingGood, DeleteGood
<1>6. CASE \E b \in BOOLEAN : StopRecording(b) \/ FinishRecording(b)
  BY <1>6, StopRecordingGood, FinishRecordingGood
<1>7. CASE DeleteAll \/ CaptureFails \/ BootDone \/ PowerLoss
  BY <1>7, DeleteGood, WriteGood, BootGood
<1> QED BY <1>1, <1>2, <1>3, <1>4, <1>5, <1>6, <1>7 DEF Next

\* The audio of a kept note, its name and its texts never disagree with where the
\* loop and the writer are.
THEOREM Inductive == Spec => []IInv
BY InitHolds, StepHolds, PTL DEF Spec

\* Whatever operation fails and whenever the power goes, what finishRecording()
\* told the user is kept can be read until he deletes the note.
THEOREM KeptStaysReadable == Spec => []KeptReadable
<1>1. IInv => KeptReadable BY DEF IInv, Told
<1> QED BY <1>1, Inductive, PTL

\* Types, and no orphan: what removeWav() or a power loss leaves of a note has its
\* header or its tombstone, and never both.
THEOREM FilesFound == Spec => []FilesInv
<1>1. IInv => FilesInv BY DEF IInv, FilesInv
<1> QED BY <1>1, Inductive, PTL

-----------------------------------------------------------------------------
(* What a step may not do.                                                   *)

\* Only these touch a text that has its name.
LEMMA TextSteps ==
  ASSUME [Next]_vars, main.pc # "remove"
  PROVE  \/ UNCHANGED text
         \/ \E n, content : Holds(n, "txt.tmp", content)
         \/ main.pc = "swap" /\ Replace(Note)
         \/ \E n \in Notes : Replace(n) /\ Replaces(n)
<1>1. CASE UNCHANGED vars BY <1>1 DEF vars, disk
<1>2. CASE Writer
  BY <1>2 DEF Writer, WriteHeader, CloseFile, RenameHeader, OpenPcm, Checkpoint, WriteChunk,
              WriteRest, disk
<1>3. CASE Removal BY <1>3 DEF Removal, Hide, RemoveSibling, RemoveDone
<1>4. CASE Text
  BY <1>4 DEF Text, StartText, RecoverText, WriteText, SwapText, Contents
<1>5. CASE \E n \in Notes : StartRecording(n) \/ DeleteAt(n) \/ ResumeRemoval(n)
  BY <1>5 DEF StartRecording, DeleteAt, ResumeRemoval, disk
<1>6. CASE \E b \in BOOLEAN : StopRecording(b) \/ FinishRecording(b)
  BY <1>6 DEF StopRecording, FinishRecording, disk
<1>7. CASE DeleteAll \/ CaptureFails \/ BootDone \/ PowerLoss
  BY <1>7 DEF DeleteAll, CaptureFails, BootDone, PowerLoss, disk
<1> QED BY <1>1, <1>2, <1>3, <1>4, <1>5, <1>6, <1>7 DEF Next

\* writeAtomic() and recoverText() never put a torn text, or a shorter one than
\* it was, where a whole one is.
THEOREM TextNeverTorn == Spec => TextKept
<1>1. ASSUME IInv, [Next]_vars, NEW n \in Notes, main.pc # "remove",
             text'[n]["txt"] # text[n]["txt"]
      PROVE  text[n]["txt"] # "whole" /\ text'[n]["txt"] # "bad"
  <2>1. TypeOK BY <1>1 DEF IInv
  <2>2. ASSUME NEW m, NEW content, Holds(m, "txt.tmp", content) PROVE FALSE
    BY <1>1, <2>1, <2>2 DEF TypeOK, Holds, Texts
  <2>3. ASSUME NEW m \in Notes, Replace(m)
        PROVE  m = n /\ text'[n]["txt"] = text[n]["txt.tmp"]
    BY <1>1, <2>1, <2>3, ReplaceFacts
  <2>4. CASE main.pc = "swap" /\ Replace(Note)
    <3>1. Note \in Notes /\ text[Note]["txt.tmp"] = "whole"
      BY <1>1, <2>4 DEF IInv, Together, OnFlash, Note
    <3> QED BY <1>1, <2>3, <2>4, <3>1
  <2>5. ASSUME NEW m \in Notes, Replace(m), Replaces(m)
        PROVE  text[n]["txt"] # "whole" /\ text'[n]["txt"] # "bad"
    BY <2>3, <2>5 DEF Replaces, ValidText
  <2> QED BY <1>1, <2>2, <2>4, <2>5, TextSteps
<1>2. IInv /\ [Next]_vars =>
        [\A n \in Notes :
           main.pc # "remove" /\ text'[n]["txt"] # text[n]["txt"] =>
             text[n]["txt"] # "whole" /\ text'[n]["txt"] # "bad"]_vars
  BY <1>1
<1> QED BY <1>2, Inductive, PTL DEF Spec, TextKept

\* No other operation on a file gives a name its ".wav".
LEMMA OtherFiles ==
  ASSUME TypeOK, NEW n \in Notes, ~Has(n, "wav"), Has(n, "wav")'
  PROVE  /\ files' # files
         /\ \A m, kind : ~Unlink(m, kind)
         /\ \A m, kind : kind # "wav" => ~Create(m, kind)
         /\ \A m, from, to : to # "wav" => ~Rename(m, from, to)
BY DEF TypeOK, Has, Create, Rename, Unlink

LEMMA HeaderSteps ==
  ASSUME [Next]_vars, TypeOK, NEW n \in Notes, ~Has(n, "wav"), Has(n, "wav")'
  PROVE  rec.pc = "rename" /\ Rename(Note, "wav.tmp", "wav")
<1>0. files' # files BY OtherFiles
<1>1. CASE UNCHANGED vars BY <1>0, <1>1 DEF vars, disk
<1>2. CASE Writer
  <2>1. ASSUME NEW ok \in BOOLEAN, NEW seen \in BOOLEAN, WriteHeader(ok, seen) PROVE FALSE
    BY <2>1, OtherFiles DEF WriteHeader
  <2>2. ASSUME NEW ok \in BOOLEAN, RenameHeader(ok)
        PROVE  rec.pc = "rename" /\ Rename(Note, "wav.tmp", "wav")
    BY <1>0, <2>2 DEF RenameHeader
  <2>3. ASSUME NEW ok \in BOOLEAN, OpenPcm(ok) PROVE FALSE
    BY <2>3, OtherFiles DEF OpenPcm
  <2>4. ASSUME NEW ok \in BOOLEAN, NEW seen \in BOOLEAN,
               CloseFile(ok, seen) \/ Checkpoint(ok) \/ WriteChunk \/ WriteRest
        PROVE  FALSE
    BY <1>0, <2>4 DEF CloseFile, Checkpoint, WriteChunk, WriteRest, disk
  <2> QED BY <1>2, <2>1, <2>2, <2>3, <2>4 DEF Writer
<1>3. CASE Removal
  <2>1. ASSUME NEW ok \in BOOLEAN, Hide(ok) PROVE FALSE
    BY <2>1, OtherFiles DEF Hide
  <2>2. ASSUME NEW kind, NEW ok \in BOOLEAN, RemoveSibling(kind, ok) PROVE FALSE
    BY <1>0, <2>2, OtherFiles DEF RemoveSibling, disk
  <2> QED BY <1>0, <1>3, <2>1, <2>2 DEF Removal, RemoveDone, disk
<1>4. CASE Text
  <2>1. ASSUME NEW m \in Notes, StartText(m) PROVE FALSE
    BY <2>1, OtherFiles DEF StartText
  <2>2. ASSUME NEW m, Replace(m) PROVE FALSE
    BY <2>2, OtherFiles DEF Replace
  <2>3. ASSUME NEW m \in Notes, RecoverText(m) PROVE FALSE
    BY <2>2, <2>3, OtherFiles DEF RecoverText
  <2>4. ASSUME NEW ok \in BOOLEAN, NEW cleaned \in BOOLEAN, WriteText(ok, cleaned) PROVE FALSE
    BY <1>0, <2>4, OtherFiles DEF WriteText
  <2>5. ASSUME NEW ok \in BOOLEAN, SwapText(ok) PROVE FALSE
    BY <1>0, <2>2, <2>5 DEF SwapText
  <2> QED BY <1>4, <2>1, <2>3, <2>4, <2>5 DEF Text
<1>5. CASE \E m \in Notes : StartRecording(m) \/ DeleteAt(m) \/ ResumeRemoval(m)
  BY <1>0, <1>5 DEF StartRecording, DeleteAt, ResumeRemoval, disk
<1>6. CASE \E b \in BOOLEAN : StopRecording(b) \/ FinishRecording(b)
  BY <1>0, <1>6 DEF StopRecording, FinishRecording, disk
<1>7. CASE DeleteAll \/ CaptureFails \/ BootDone \/ PowerLoss
  BY <1>0, <1>7 DEF DeleteAll, CaptureFails, BootDone, PowerLoss, disk
<1> QED BY <1>1, <1>2, <1>3, <1>4, <1>5, <1>6, <1>7 DEF Next

\* A name gets its header when nothing else of it is left: a new note inherits no
\* audio, text or tombstone.
THEOREM NothingInherited == Spec => StartsClean
<1>1. ASSUME IInv, [Next]_vars, NEW n \in Notes, ~Has(n, "wav"), Has(n, "wav")'
      PROVE  files[n] = {"wav.tmp"}
  <2>1. rec.pc = "rename" /\ Rename(Note, "wav.tmp", "wav")
    BY <1>1, HeaderSteps DEF IInv
  <2>2. main.pc \in Naming /\ Note \in Notes
    BY <1>1, <2>1 DEF IInv, Together, Naming, Running, Note
  <2>3. n = Note BY <1>1, <2>1, <2>2 DEF Has, Rename, IInv, TypeOK
  <2>4. main.pc = "start" BY <1>1, <2>2, <2>3 DEF IInv, OnFlash, Has, Naming, Running
  <2> QED BY <1>1, <2>1, <2>3, <2>4 DEF IInv, OnFlash
<1>2. IInv /\ [Next]_vars =>
        [\A n \in Notes : ~Has(n, "wav") /\ Has(n, "wav")' => files[n] = {"wav.tmp"}]_vars
  BY <1>1
<1> QED BY <1>2, Inductive, PTL DEF Spec, StartsClean

=============================================================================
