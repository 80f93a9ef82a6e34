----------------------------- MODULE DriveClient -----------------------------
(***************************************************************************)
(* GDriveClient::uploadNote: one note's files (audio, transcript, summary) *)
(* are brought to a folder of Google Drive and verified there.             *)
(*                                                                         *)
(* The device keeps what it must not forget in the note's .sync file: the  *)
(* ids it reserved, the upload session, the bytes confirmed and what was   *)
(* verified.  A reply may be lost after the server obeyed, a request may   *)
(* never arrive or arrive late, a save may fail, the power may go between  *)
(* any two steps, and the user may move files in Drive.  Each of these     *)
(* costs one of MaxFaults faults.                                          *)
(*                                                                         *)
(* One action is one request with the handling of its answer.  A content   *)
(* is a number that stands for bytes, size and MD5; 0 is a file that is    *)
(* absent or not valid.  An id is a number; 0 is no id.                    *)
(***************************************************************************)
EXTENDS Naturals, Sequences, FiniteSets

CONSTANTS
    Order,      \* the files of a note in the order of the code: wav, txt, md
    Texts,      \* those made by AI, required when a speech service is set
    Big,        \* those above kMultipartBytes, sent in chunks
    Blocks,     \* chunks of a big file
    Attempts,   \* kMaxAttempts
    Contents,   \* contents a file may have
    MaxId,      \* ids Drive hands out (bound of the model)
    MaxFaults   \* faults of all kinds together (bound of the model)

Assets == {Order[k] : k \in DOMAIN Order}
Mixed  == 1 + Cardinality(Contents) \* bytes of two contents in one file

ASSUME DriveAssumption ==
    /\ Order \in Seq(Assets) /\ Order # <<>>
    /\ \A j, k \in DOMAIN Order : Order[j] = Order[k] => j = k
    /\ Texts \subseteq Assets /\ Big \subseteq Assets
    /\ IsFiniteSet(Contents) /\ Contents = 1..Cardinality(Contents) /\ 1 \in Contents
    /\ Blocks \in Nat \ {0} /\ Attempts \in Nat \ {0}
    /\ MaxId \in Nat /\ MaxFaults \in Nat

VARIABLES
    local,   \* the files of the note on the device
    disk,    \* its .sync file
    cfg,     \* NVS settings: paired, driveAuthGeneration, driveFolderId
    st,      \* the copy of .sync the job works on
    job,     \* struct Job: where it is and what it has seen
    files,   \* Drive: the file behind each id
    dirs,    \* Drive: the folders with our name, not in the bin
    sess,    \* Drive: the upload session of each file
    late,    \* create requests given up by the device and still on their way
    given,   \* Drive: ids handed out by generateIds
    moved,   \* ids the user moved, renamed or put in the bin
    faults

device == <<disk, st, job, faults>>
remote == <<files, dirs, sess, late, given, moved>>
driveVars == <<local, cfg, device, remote>>

NoFile == [of |-> Order[1], has |-> 0, dir |-> 0, gen |-> 0]
NoSession == [id |-> 0, got |-> 0, sent |-> {}, state |-> "dead"]
NoAsset == [id |-> 0, res |-> FALSE, up |-> FALSE, ses |-> FALSE, off |-> 0, want |-> 0]
Blank == [full |-> FALSE, gen |-> 0, dir |-> 0, pend |-> 0, of |-> [a \in Assets |-> NoAsset]]
Idle == [pc |-> "idle", i |-> 1, insp |-> [a \in Assets |-> "unknown"], fresh |-> {},
         renewed |-> FALSE, tries |-> 0, stall |-> 0, why |-> "start", ok |-> FALSE]

Init ==
    /\ local \in [Assets -> {0, 1}] /\ local[Order[1]] = 1
    /\ disk = Blank /\ st = Blank /\ job = Idle /\ faults = 0
    /\ cfg = [paired |-> TRUE, gen |-> 1, dir |-> 0]
    /\ files = [x \in 1..MaxId |-> NoFile] /\ dirs = {} /\ late = {}
    /\ sess = [a \in Assets |-> NoSession] /\ given = 0 /\ moved = {}

(***************************************************************************)
(* Saving and failing.                                                     *)
(***************************************************************************)
Spend(n) == faults + n =< MaxFaults /\ faults' = faults + n

\* The job is over and its memory is gone.
Stop == job' = Idle /\ st' = Blank

\* persist(): a save that fails stops every later mutation of the job.  A
\* .sync.tmp that is whole but was not renamed counts as saved: load() takes
\* it first.
Persist(s, j, cost) ==
    \/ Spend(cost) /\ st' = s /\ disk' = s /\ job' = j
    \/ Spend(cost + 1) /\ Stop /\ disk' \in {disk, s}

\* error(): the note stays pending, the reason is saved if it can be.
Error(s, cost) ==
    /\ Stop
    /\ \/ Spend(cost) /\ disk' = [s EXCEPT !.full = FALSE]
       \/ Spend(cost + 1) /\ disk' = disk

\* The job goes on without saving.
Goto(j, cost) == Spend(cost) /\ job' = j /\ UNCHANGED <<st, disk>>

At(pc) == job.pc = pc
here == Order[job.i]
mine == st.of[here]
With(a, r) == [st EXCEPT !.of[a] = r]
NotUp(r) == [r EXCEPT !.up = FALSE]
Restarted(r) == [r EXCEPT !.up = FALSE, !.ses = FALSE, !.off = 0]

(***************************************************************************)
(* What a GET says of the reserved id: metadata(), inspect().              *)
(***************************************************************************)
Away(x) == x \in moved \/ files[x].dir \in moved

\* Compares names only.
VerdictByName(a) ==
    LET f == files[st.of[a].id]
    IN  IF f.has = 0 THEN "missing"
        ELSE IF Away(st.of[a].id) \/ f.dir # st.dir \/ f.of # a THEN "foreign" ELSE "match"

Verdict(a) ==
    LET r == st.of[a]
        f == files[r.id]
    IN  IF f.has = 0 THEN "missing"
        ELSE IF Away(r.id) \/ f.dir # st.dir \/ f.of # a THEN "foreign"
        ELSE IF f.has = r.want THEN "match" ELSE "different"

\* A reserved id that is not on Drive may be created; any other absence or
\* a file that was moved may not.
LostWhenMissing(v, r) == v \in {"foreign", "missing"} \* even when the id is reserved
Lost(v, r) == v = "foreign" \/ (v = "missing" /\ ~r.res)

(***************************************************************************)
(* uploadNote up to the authorization.                                     *)
(***************************************************************************)
Loaded == IF disk.gen = cfg.gen THEN disk
          ELSE [disk EXCEPT !.gen = cfg.gen, !.pend = 0, !.full = FALSE,
                            !.of = [a \in Assets |-> [NoAsset EXCEPT !.want = disk.of[a].want]]]

\* Another content gets another file.
SnapshotAnew(r, c) ==
    IF c # r.want \/ c = 0 THEN [NoAsset EXCEPT !.want = c] ELSE [r EXCEPT !.up = r.up /\ r.id # 0]

Snapshot(r, c) ==
    IF c # r.want \/ c = 0 THEN [Restarted(r) EXCEPT !.want = c]
    ELSE [r EXCEPT !.up = r.up /\ r.id # 0]

UploadNote ==
    /\ At("idle")
    /\ LET s == [Loaded EXCEPT !.full = FALSE,
                    !.of = [a \in Assets |-> Snapshot(Loaded.of[a], local[a])]]
       IN  IF cfg.paired /\ \A a \in Texts \cup {Order[1]} : local[a] # 0
           THEN Persist(s, [Idle EXCEPT !.pc = "token"], 0)
           ELSE Error(s, 0)
    /\ UNCHANGED <<local, cfg, remote>>

\* refreshAccessToken: granted, failed, or the grant was revoked; then the
\* stored token is dropped, which starts another generation.
Token ==
    /\ At("token")
    /\ \/ Persist(st, [job EXCEPT !.pc = "folder"], 0) /\ UNCHANGED cfg
       \/ Error(st, 1) /\ UNCHANGED cfg
       \/ Error(st, 1) /\ cfg' = [cfg EXCEPT !.paired = FALSE, !.gen = @ + 1]
    /\ UNCHANGED <<local, remote>>

\* The user pairs again (pairDevice, saveDriveRefreshToken).
Pair ==
    /\ At("idle") /\ ~cfg.paired
    /\ cfg' = [cfg EXCEPT !.paired = TRUE, !.gen = @ + 1]
    /\ late' = {} \* a request does not survive the minutes of a pairing
    /\ UNCHANGED <<local, device, files, dirs, sess, given, moved>>

(***************************************************************************)
(* ensureFolder.                                                           *)
(***************************************************************************)
\* confirmFolder, and the reset of every asset when the folder is another.
ConfirmFolder(d, cost) ==
    LET same == d = st.dir
        s == [st EXCEPT !.pend = 0, !.dir = d,
                !.of = [a \in Assets |-> IF same THEN st.of[a] ELSE Restarted(st.of[a])]]
    IN  /\ cfg' = [cfg EXCEPT !.dir = d]
        /\ Persist(s, [job EXCEPT !.pc = "prepare"], cost)

CheckFolder ==
    /\ At("folder")
    /\ LET known == IF st.pend # 0 THEN st.pend ELSE cfg.dir
       IN  \/ known \in dirs /\ ConfirmFolder(known, 0)
           \/ known \notin dirs /\ Goto([job EXCEPT !.pc = "list"], 0) /\ UNCHANGED cfg
           \/ st.pend = 0 /\ known \in moved /\ ConfirmFolder(known, 1) \* a validation still cached
           \/ known # 0 /\ Error(st, 1) /\ UNCHANGED cfg
    /\ UNCHANGED <<local, remote>>

\* A reservation that was never seen on Drive is used again; otherwise a new
\* id is generated.  It is saved in .sync, then in NVS, before the POST.
ListFolders ==
    /\ At("list")
    /\ \/ Error(st, 1) /\ UNCHANGED <<cfg, given>>
       \/ \E d \in dirs : ConfirmFolder(d, 0) /\ UNCHANGED given
       \/ /\ dirs = {}
          /\ LET again == st.pend # 0 /\ st.pend \notin moved
                 id == IF again THEN st.pend ELSE given + 1
             IN  IF id > MaxId THEN Error(st, 0) /\ UNCHANGED <<cfg, given>>
                 ELSE /\ given' = IF again THEN given ELSE id
                      /\ Persist([st EXCEPT !.pend = id], [job EXCEPT !.pc = "mkdir"], 0)
                      /\ cfg' \in {cfg, [cfg EXCEPT !.dir = id]}
                      /\ job' # Idle => cfg'.dir = id
    /\ UNCHANGED <<local, files, dirs, sess, late, moved>>

\* The POST of the folder: obeyed (answered, or seen by the GET that follows a
\* lost answer), obeyed unseen, not obeyed, refused with a token that was
\* then renewed, or still on its way.
MakeFolder ==
    /\ At("mkdir")
    /\ \/ /\ st.pend \notin moved
          /\ dirs' = dirs \cup {st.pend} /\ late' = late
          /\ \/ \E cost \in {0, 1} : ConfirmFolder(st.pend, cost)
             \/ Error(st, 1) /\ UNCHANGED cfg
       \/ st.pend \in moved /\ Error(st, 0) /\ UNCHANGED <<cfg, dirs, late>>
       \/ /\ st.pend \notin dirs /\ UNCHANGED <<dirs, cfg>>
          /\ \/ Error(st, 1) /\ late' \in {late, late \cup {[id |-> st.pend, file |-> NoFile]}}
             \/ /\ ~job.renewed /\ UNCHANGED late
                /\ Persist(st, [job EXCEPT !.renewed = TRUE], 1)
    /\ UNCHANGED <<local, files, sess, given, moved>>

(***************************************************************************)
(* prepareAssets: inspect the known ids, look for a file of the same name  *)
(* and content where there is none, reserve the rest together.             *)
(***************************************************************************)
Advance(j, pc) == IF j.i < Len(Order) THEN [j EXCEPT !.i = @ + 1] ELSE [j EXCEPT !.i = 1, !.pc = pc]

Prepare ==
    /\ At("prepare") /\ mine.want = 0
    /\ Goto(Advance(job, "ids"), 0)
    /\ UNCHANGED <<local, cfg, remote>>

PrepareKnown ==
    /\ At("prepare") /\ mine.want # 0 /\ mine.id # 0
    /\ LET v == Verdict(here)
       IN  \/ Error(st, 1)
           \/ Lost(v, mine) /\ Persist(With(here, [NoAsset EXCEPT !.want = mine.want]), job, 0)
           \/ ~Lost(v, mine) /\ Goto(Advance([job EXCEPT !.insp[here] = v], "ids"), 0)
    /\ UNCHANGED <<local, cfg, remote>>

Matches(a) == {x \in 1..MaxId : /\ files[x].of = a /\ files[x].has = st.of[a].want
                                /\ files[x].dir = st.dir /\ ~Away(x)}

\* reconcile() with the GET that confirms what it found.
Reconcile ==
    /\ At("prepare") /\ mine.want # 0 /\ mine.id = 0
    /\ \/ Error(st, 1)
       \/ \E x \in Matches(here) :
            Persist(With(here, [NoAsset EXCEPT !.want = mine.want, !.id = x]),
                    Advance([job EXCEPT !.insp[here] = "match"], "ids"), 0)
       \/ Matches(here) = {} /\ Goto(Advance(job, "ids"), 0)
    /\ UNCHANGED <<local, cfg, remote>>

ReserveIds ==
    /\ At("ids")
    /\ LET new == {k \in DOMAIN Order : st.of[Order[k]].want # 0 /\ st.of[Order[k]].id = 0}
           id(k) == given + Cardinality({l \in new : l =< k})
           s == [st EXCEPT !.of = [a \in Assets |->
                    IF \E k \in new : Order[k] = a
                    THEN [NoAsset EXCEPT !.want = st.of[a].want, !.res = TRUE,
                                         !.id = id(CHOOSE k \in new : Order[k] = a)]
                    ELSE st.of[a]]]
       IN  \/ new = {} /\ Goto([job EXCEPT !.pc = "upload"], 0) /\ UNCHANGED given
           \/ new # {} /\ Error(st, 1) /\ UNCHANGED given
           \/ /\ new # {}
              /\ IF given + Cardinality(new) > MaxId THEN Error(st, 0) /\ UNCHANGED given
                 ELSE /\ given' = given + Cardinality(new)
                      /\ Persist(s, [job EXCEPT !.pc = "upload", !.fresh = {Order[k] : k \in new}], 0)
    /\ UNCHANGED <<local, cfg, files, dirs, sess, late, moved>>

(***************************************************************************)
(* upload(): verified already, a session to resume, one POST, or chunks.   *)
(***************************************************************************)
\* complete() before its verification: every byte is confirmed, no checksum.
Completing(s, cost) ==
    Persist([s EXCEPT !.of[here].up = FALSE, !.of[here].off = Blocks], [job EXCEPT !.pc = "verify"], cost)

Upload ==
    /\ At("upload")
    /\ LET s == With(here, NotUp(mine))
           go(pc) == Persist(s, [job EXCEPT !.pc = pc, !.tries = 1, !.stall = 0, !.why = "start"], 0)
       IN  IF mine.want = 0 THEN Goto(Advance(job, "final"), 0)
           ELSE IF job.insp[here] = "match" THEN Completing(s, 0)
           ELSE IF mine.ses THEN go("probe")
           ELSE IF here \notin Big THEN go("multipart") ELSE go("initiate")
    /\ UNCHANGED <<local, cfg, remote>>

\* What the device believes of the id when it sends the first mutation.
Belief == IF here \in job.fresh THEN "missing" ELSE job.insp[here]
Sent == [job EXCEPT !.fresh = @ \ {here}, !.insp[here] = "unknown"]
Body(c) == [of |-> here, has |-> c, dir |-> st.dir, gen |-> cfg.gen]

\* POST creates an id that is not there; PATCH replaces the bytes of one that is.
Obeys(create) == create <=> files[mine.id].has = 0
Stored(id, c, create) == [files EXCEPT ![id] = IF create THEN Body(c) ELSE [@ EXCEPT !.has = c]]

Multipart ==
    /\ At("multipart")
    /\ LET create == Belief = "missing"
           after == [Sent EXCEPT !.pc = "recover"]
       IN  IF local[here] # mine.want
           THEN Error(With(here, NotUp(mine)), 0) /\ UNCHANGED <<files, late>>
           ELSE \/ /\ Obeys(create) /\ files' = Stored(mine.id, mine.want, create) /\ UNCHANGED late
                   /\ Completing(st, 0) \/ Goto(after, 1)
                \/ /\ UNCHANGED files
                   /\ \/ ~Obeys(create) /\ Goto(after, 0) /\ UNCHANGED late
                      \/ Goto(after, 1) /\ late' = late
                      \/ /\ create /\ Goto(after, 1)
                         /\ late' = late \cup {[id |-> mine.id, file |-> Body(mine.want)]}
                      \/ Error(st, 1) /\ UNCHANGED late
    /\ UNCHANGED <<local, cfg, dirs, sess, given, moved>>

\* After a lost or refused multipart: never send again before the same id
\* was inspected.
Recover ==
    /\ At("recover")
    /\ LET v == Verdict(here)
       IN  \/ Error(st, 1)
           \/ v = "match" /\ Completing(st, 0)
           \/ /\ v # "match"
              /\ IF Lost(v, mine) \/ job.tries = Attempts THEN Error(st, 0)
                 ELSE Goto([job EXCEPT !.pc = "multipart", !.tries = @ + 1, !.insp[here] = v], 0)
    /\ UNCHANGED <<local, cfg, remote>>

\* initiate(): a session is saved before any byte is sent to it.
Initiate ==
    /\ At("initiate")
    /\ LET create == Belief = "missing"
           v == Verdict(here)
       IN  IF job.tries > Attempts THEN Error(st, 0) /\ UNCHANGED sess
           ELSE IF local[here] # mine.want
           THEN Error(With(here, NotUp(mine)), 0) /\ UNCHANGED sess
           ELSE \/ /\ Obeys(create)
                   /\ sess' = [sess EXCEPT ![here] = [id |-> mine.id, got |-> 0, sent |-> {}, state |-> "live"]]
                   /\ Persist(With(here, [Restarted(mine) EXCEPT !.ses = TRUE]),
                              [Sent EXCEPT !.pc = "chunk", !.stall = 0], 0)
                \/ /\ UNCHANGED sess
                   /\ \/ v = "match" /\ Completing(st, 1)
                      \/ ~Obeys(create) /\ v # "match" /\ Error(st, 0)
                      \/ Error(st, 1)
                      \/ /\ ~job.renewed /\ v \in {"different", "missing"} /\ ~Lost(v, mine)
                         /\ Goto([Sent EXCEPT !.renewed = TRUE, !.insp[here] = v], 1)
    /\ UNCHANGED <<local, cfg, files, dirs, late, given, moved>>

\* The server takes one chunk; with the last one the file exists.
Took(s, c) == [s EXCEPT !.got = @ + 1, !.sent = @ \cup {c},
                        !.state = IF s.got + 1 = Blocks THEN "done" ELSE "live"]
Made(s) == IF Cardinality(s.sent) = 1 THEN CHOOSE c \in s.sent : TRUE ELSE Mixed

Chunk ==
    /\ At("chunk")
    /\ LET s == sess[here]
           t == Took(s, local[here])
           ask(why) == [job EXCEPT !.pc = "probe", !.why = why]
           moves == s.state = "live" /\ s.got = mine.off
       IN  IF mine.off = Blocks THEN Completing(st, 0) /\ UNCHANGED <<sess, files>>
           ELSE IF local[here] = 0 THEN Error(st, 0) /\ UNCHANGED <<sess, files>>
           ELSE \/ /\ moves
                   /\ sess' = [sess EXCEPT ![here] = t]
                   /\ files' = IF t.state = "done"
                               THEN Stored(s.id, Made(t), files[s.id].has = 0) ELSE files
                   /\ \/ t.state = "done" /\ Completing(st, 0)
                      \/ /\ t.state = "live"
                         /\ Persist(With(here, [mine EXCEPT !.off = t.got]), [job EXCEPT !.stall = 0], 0)
                      \/ Goto(ask("chunk"), 1)
                \/ /\ UNCHANGED <<sess, files>>
                   /\ \/ ~moves /\ Goto(ask("chunk"), 0)
                      \/ \E why \in {"chunk", "refused"} : Goto(ask(why), 1)
                      \/ moves /\ IF job.stall + 1 >= Attempts THEN Error(st, 1)
                                  ELSE Persist(st, [job EXCEPT !.stall = @ + 1], 1)
    /\ UNCHANGED <<local, cfg, dirs, late, given, moved>>

\* probe(): what the session holds.  One that is gone may have finished.
Probe ==
    /\ At("probe")
    /\ LET s == sess[here]
           v == Verdict(here)
           on == [job EXCEPT !.pc = "chunk", !.stall = IF job.why = "start" \/ s.got > mine.off THEN 0 ELSE @ + 1]
           anew == IF job.why = "start" /\ here \notin Big
                   THEN [job EXCEPT !.pc = "multipart", !.insp[here] = v, !.tries = 1]
                   ELSE [job EXCEPT !.pc = "initiate", !.insp[here] = v, !.stall = 0,
                                    !.tries = IF job.why = "start" THEN @ ELSE @ + 1]
       IN  \/ Error(st, 1)
           \/ s.state = "done" /\ Completing(st, 0)
           \/ /\ s.state = "live"
              /\ LET r == With(here, [mine EXCEPT !.off = s.got])
                 IN  IF s.got < mine.off THEN Error(st, 0)
                     ELSE IF job.why = "refused" \/ on.stall >= Attempts THEN Error(r, 0)
                     ELSE Persist(r, on, 0)
           \/ /\ s.state = "dead"
              /\ IF v = "match" THEN Completing(st, 0)
                 ELSE IF Lost(v, mine) THEN Error(st, 0)
                 ELSE IF job.why = "refused" THEN Error(With(here, Restarted(mine)), 0)
                 ELSE Persist(With(here, Restarted(mine)), anew, 0)
    /\ UNCHANGED <<local, cfg, remote>>

\* The rest of complete(): the local file is still the one that was sent, and
\* the remote file has its size and MD5.
Verify ==
    /\ At("verify")
    /\ LET v == Verdict(here)
           done == [NoAsset EXCEPT !.id = mine.id, !.want = mine.want, !.up = TRUE, !.off = Blocks]
       IN  IF local[here] # mine.want THEN Error(With(here, NotUp(mine)), 0)
           ELSE \/ Error(st, 1)
                \/ v = "match" /\ Persist(With(here, done), Advance([job EXCEPT !.pc = "upload"], "final"), 0)
                \/ v = "different" /\ Error(With(here, [Restarted(mine) EXCEPT !.res = FALSE]), 0)
                \/ v \in {"missing", "foreign"} /\ Error(st, 0)
    /\ UNCHANGED <<local, cfg, remote>>

\* The end of uploadNote: nothing local changed meanwhile.
Finish ==
    /\ At("final")
    /\ LET changed == {a \in Assets : local[a] # st.of[a].want}
       IN  IF changed # {}
           THEN Error([st EXCEPT !.of = [a \in Assets |-> IF a \in changed THEN NotUp(st.of[a]) ELSE st.of[a]]], 0)
           ELSE \/ Spend(0) /\ disk' = [st EXCEPT !.full = TRUE] /\ st' = Blank /\ job' = [Idle EXCEPT !.ok = TRUE]
                \/ Spend(1) /\ Stop /\ disk' \in {disk, [st EXCEPT !.full = TRUE]}
    /\ UNCHANGED <<local, cfg, remote>>

(***************************************************************************)
(* The world around the job.                                               *)
(***************************************************************************)
\* A create request that the device gave up reaches Drive.
Arrive ==
    /\ \E r \in late :
         /\ late' = late \ {r}
         /\ IF r.file.has = 0 THEN dirs' = dirs \cup ({r.id} \ moved) /\ UNCHANGED files
            ELSE files' = (IF files[r.id].has = 0 THEN [files EXCEPT ![r.id] = r.file] ELSE files) /\ UNCHANGED dirs
    /\ UNCHANGED <<local, cfg, device, sess, given, moved>>

\* The user moves, renames or bins a file, or the folder with all it holds.
UserMoves ==
    /\ Spend(1)
    /\ \/ \E x \in 1..MaxId : files[x].has # 0 /\ moved' = moved \cup {x} /\ UNCHANGED dirs
       \/ \E d \in dirs : /\ dirs' = dirs \ {d}
                          /\ moved' = moved \cup {d}
    /\ UNCHANGED <<local, cfg, disk, st, job, files, sess, late, given>>

Expire ==
    /\ Spend(1)
    /\ \E a \in Assets : sess[a].state # "dead" /\ sess' = [sess EXCEPT ![a].state = "dead"]
    /\ UNCHANGED <<local, cfg, disk, st, job, files, dirs, late, given, moved>>

\* Power loss: what is in memory is gone.
Crash == Spend(1) /\ Stop /\ UNCHANGED <<local, cfg, disk, remote>>

Steps == \/ Token \/ CheckFolder \/ ListFolders \/ MakeFolder
         \/ Prepare \/ PrepareKnown \/ Reconcile \/ ReserveIds
         \/ Upload \/ Multipart \/ Recover \/ Initiate \/ Chunk \/ Probe \/ Verify \/ Finish

\* needsUpload() on the file as it is.
NeedsUpload(needText) ==
    \/ ~disk.full \/ disk.gen # cfg.gen
    \/ \E a \in Assets :
         \/ local[a] = 0 /\ (a = Order[1] \/ needText \/ disk.of[a].up)
         \/ local[a] # 0 /\ (~disk.of[a].up \/ disk.of[a].want # local[a])
=============================================================================
