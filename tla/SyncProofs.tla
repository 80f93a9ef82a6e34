------------------------------ MODULE SyncProofs ------------------------------
(***************************************************************************)
(* The delivery of a note, for every number of faults, of ids and of       *)
(* contents: what is called delivered is on Drive (SyncedIsThere), once    *)
(* (OneCopy), nothing put into either cloud is forgotten (Accounted), the  *)
(* API is left alone when it asked for it (WaitsWhenTold), and a text that *)
(* was whole on flash is not bought again (PaidOnce).                      *)
(*                                                                         *)
(* What the device may rely on after a lost answer is what it wrote down   *)
(* before the request: an id is in .sync before any file has it, a folder  *)
(* in the settings before it exists, a name in NVS before the server hears *)
(* of it.  So each file that is there, and each one that may still arrive, *)
(* is claimed by an id that the device holds.                              *)
(***************************************************************************)
EXTENDS SyncJob, FiniteSetTheorems, TLAPS

-----------------------------------------------------------------------------
(* The invariant: the delivery (DriveInv), the speech service (AiInv), and   *)
(* the job that uses both (JobInv).                                          *)
Ids == 1..MaxId
Has == Contents \cup {0, Mixed}

FileRecords == [of : Assets, has : Has, dir : 0..MaxId, gen : Nat]
Requests == [id : Ids, file : FileRecords]
Sessions ==
  [id : 0..MaxId, got : Nat, sent : SUBSET Contents, state : {"dead", "live", "done"}]
AssetRecords ==
  [id : 0..MaxId, res : BOOLEAN, up : BOOLEAN, ses : BOOLEAN, off : Nat,
   want : Contents \cup {0}]
Records ==
  [full : BOOLEAN, gen : Nat, dir : 0..MaxId, pend : 0..MaxId, of : [Assets -> AssetRecords]]
Settings == [paired : BOOLEAN, gen : Nat, dir : 0..MaxId]

\* Where the job is: before the folder, at the files, and at one file.
FolderSteps == {"token", "folder", "list", "mkdir"}
FileSteps == {"prepare", "ids"}
UploadSteps == {"upload", "multipart", "recover", "initiate", "chunk", "probe", "verify", "final"}
Verdicts == {"unknown", "missing", "foreign", "match", "different"}
JobStates ==
  [pc : {"idle"} \cup FolderSteps \cup FileSteps \cup UploadSteps, i : DOMAIN Order,
   insp : [Assets -> Verdicts], fresh : SUBSET Assets, renewed : BOOLEAN, tries : Nat,
   stall : Nat, why : {"start", "chunk", "refused"}, ok : BOOLEAN]

RemoteTyped ==
  /\ files \in [Ids -> FileRecords] /\ dirs \subseteq Ids /\ sess \in [Assets -> Sessions]
  /\ late \subseteq Requests /\ given \in 0..MaxId /\ moved \subseteq Ids
DriveTyped ==
  /\ local \in [Assets -> Contents \cup {0}] /\ cfg \in Settings /\ RemoteTyped
  /\ disk \in Records /\ st \in Records /\ job \in JobStates

There(x) == files[x].has # 0
Creates(r) == r.file.has # 0 \* a request for a file, not for a folder

\* Ids are handed out once, and a file never has the id of a folder.
Numbered(d) ==
  /\ dirs \subseteq 1..given /\ moved \subseteq 1..given
  /\ d.pend <= given /\ \A a \in Assets : d.of[a].id <= given
  /\ \A r \in late : r.id <= given
  /\ \A x \in Ids : There(x) => x <= given /\ x \notin dirs /\ x # d.pend
  /\ \A a \in Assets : d.of[a].id # 0 => d.of[a].id \notin dirs /\ d.of[a].id # d.pend
  /\ \A r \in late :
       IF Creates(r) THEN r.id \notin dirs /\ r.id # d.pend
       ELSE ~There(r.id) /\ \A a \in Assets : d.of[a].id # r.id
  /\ \A r, q \in late : Creates(r) /\ ~Creates(q) => r.id # q.id

\* There is one folder, the one of the settings; and a folder that may still
\* be made is it, unless the user has seen it.
Foldered(d) ==
  /\ dirs \subseteq {cfg.dir} /\ dirs \cap moved = {}
  /\ d.dir \in dirs \cup moved \cup {0}
  /\ \A r \in late :
       ~Creates(r) => /\ r.id \in moved \cup {cfg.dir}
                      /\ cfg.paired => r.id \in moved \cup dirs \cup {d.pend}
  /\ late # {} /\ cfg.paired => d.gen = cfg.gen
  /\ \A x \in Ids : files[x].dir \in IF There(x) THEN dirs \cup moved ELSE {0}
  /\ \A r \in late : Creates(r) => r.file.dir \in dirs \cup moved

\* An id belongs to one file of the note, on the device as on Drive.
Owned(d) ==
  /\ \A a, b \in Assets : d.of[a].id = d.of[b].id /\ d.of[a].id # 0 => a = b
  /\ \A a \in Assets :
       d.of[a].id # 0 =>
         /\ There(d.of[a].id) => files[d.of[a].id].of = a
         /\ \A r \in late : Creates(r) /\ r.id = d.of[a].id => r.file.of = a
         /\ ~d.of[a].res => There(d.of[a].id)
  /\ \A r \in late : Creates(r) /\ There(r.id) => files[r.id].of = r.file.of
  /\ \A r, q \in late : Creates(r) /\ Creates(q) /\ r.id = q.id => r.file.of = q.file.of
  /\ \A a \in Assets : d.of[a].ses => d.of[a].id # 0 /\ sess[a].id = d.of[a].id

\* A file a of authorization g that the user did not move is on Drive, or may
\* still arrive there, under the id x.
Claimed(x, a, g) ==
  \/ There(x) /\ ~Away(x) /\ files[x].of = a /\ files[x].gen = g
  \/ /\ ~There(x) /\ x \notin moved
     /\ \E r \in late : /\ Creates(r) /\ r.id = x /\ r.file.dir \notin moved
                        /\ r.file.of = a /\ r.file.gen = g

Tracked(d) ==
  /\ d.gen <= cfg.gen
  /\ \A x \in Ids, a \in Assets : Claimed(x, a, cfg.gen) => d.gen = cfg.gen /\ d.of[a].id = x
  /\ \A x, y \in Ids, a \in Assets, g \in Nat : Claimed(x, a, g) /\ Claimed(y, a, g) => x = y
  /\ \A x \in Ids, a \in Assets, g \in Nat : Claimed(x, a, g) => g <= cfg.gen

\* What the record d on flash and the two ends of the network agree on.
Kept(d) == Numbered(d) /\ Foldered(d) /\ Owned(d) /\ Tracked(d)

\* A place of the job implies what the job has seen, on the record s it works on.
Placed(s, j) ==
  /\ s.gen = cfg.gen /\ cfg.paired /\ ~s.full
  /\ j.pc = "mkdir" => s.pend = cfg.dir /\ s.pend # 0
  /\ j.pc = "ids" => j.i = 1
  /\ j.pc \in FileSteps \cup UploadSteps => s.dir = cfg.dir /\ s.dir # 0
  /\ j.pc \in UploadSteps => \A a \in Assets : s.of[a].want # 0 => s.of[a].id # 0
  /\ j.pc \in UploadSteps \ {"upload", "final"} => s.of[Order[j.i]].want # 0
  /\ j.pc \in {"chunk", "probe"} => s.of[Order[j.i]].ses

\* The job works on what is saved.
Working == job.pc # "idle" => st = disk /\ Placed(disk, job)

\* The file a of the record d is on Drive as it is here, or the user moved it.
Good(d, a) ==
  d.of[a].want # 0 =>
    LET x == d.of[a].id
    IN  /\ x # 0
        /\ \/ Away(x)
           \/ files[x].has = d.of[a].want /\ files[x].of = a /\ files[x].dir \in dirs

\* The files that the job has verified.
Passed(j) ==
  IF j.pc = "final" THEN DOMAIN Order
  ELSE IF j.pc \in UploadSteps THEN 1..(j.i - 1) ELSE {}

Verified ==
  /\ \A k \in Passed(job) : Good(disk, Order[k])
  /\ disk.full /\ disk.gen = cfg.gen => \A a \in Assets : Good(disk, a)

DriveInv == DriveTyped /\ Kept(disk) /\ Working /\ Verified

Verbs == {"no", "timed", "session"}
Names == [n : Nat, key : Nat]
Caches ==
  [key : Nat, acct : Verbs, disc : BOOLEAN, mute : SUBSET Nat, off : SUBSET Nat,
   blk : [AI!Models \X AI!Jobs -> Verbs]]
CallStates ==
  [pc : {"idle", "done", "discover", "model", "inline", "infer", "capacity", "reserve", "start",
         "finalize", "poll", "clean", "sweep"},
   job : AI!Jobs, m : Nat, tries : Nat, left : Nat, up : BOOLEAN, file : Nat,
   created : BOOLEAN, active : BOOLEAN, ok : BOOLEAN]
Budgets == [time : BOOLEAN, retry : BOOLEAN, deferred : BOOLEAN]

AiTyped ==
  /\ key \in Nat /\ cache \in Caches /\ ai \in CallStates /\ clean \in Budgets
  /\ pend \subseteq Names /\ retired \subseteq Names /\ audio \subseteq Names
  /\ made \in Nat /\ expired \in Nat /\ wav \in {"small", "large"}
  /\ told \in {"no", "wait", "key"}

\* The key that a call works with is the one of the settings; and what the
\* server asked of it is in the cache.
Told ==
  /\ ai.pc # "idle" => cache.key = key
  /\ told # "no" => /\ ai.pc \in {"idle", "done"} /\ cache.key = key /\ cache.acct # "no"
                    /\ told = "key" => cache.acct = "session"

\* A file that this key, or the one before it, may have made is among the
\* names; and a list of retired names gives way only when its files are older.
Listed ==
  /\ expired <= made
  /\ \A p \in pend : p.n <= made /\ p.key <= key
  /\ \A p \in retired : p.key < key
  /\ \A p \in audio : p.n <= made /\ p.n > expired
  /\ ai.pc = "start" => /\ AI!Name \in pend /\ ai.file > expired
                        /\ ~ai.created => AI!Name \notin audio
  /\ AI!Foreign # {} => \A p \in retired : p.key + 1 >= key => p \in AI!Foreign
  /\ AI!RemoteTracked

AiInv == AiTyped /\ Told /\ Listed

SyncStates ==
  [pc : {"idle", "text", "wait", "write", "written", "all", "drive", "driving", "end", "sweep"},
   k : 1..3, had : SUBSET Texts, upload : BOOLEAN, ready : BOOLEAN]
TextSteps == {"text", "wait", "write", "written"}

JobTyped ==
  /\ sync \in SyncStates /\ (sync.pc \in TextSteps => sync.k \in 1..2)
  /\ local \in [Assets -> Contents \cup {0}] /\ tmp \in [Texts -> Contents \cup {0}]
  /\ meta \in {"none", "pending", "ready"} /\ pause \in BOOLEAN /\ whole \subseteq Texts

\* A text that was whole is on flash, and the job that might buy it knows.
Flashed ==
  /\ \A t \in whole : local[t] # 0 \/ tmp[t] # 0
  /\ sync.pc \in {"text", "wait", "write"} => whole \subseteq sync.had
  /\ sync.pc = "written" => whole \subseteq sync.had \cup {text}

JobInv == JobTyped /\ Flashed

-----------------------------------------------------------------------------
(* The API.                                                                  *)

LEMMA AiTypes ==
  /\ AI!NoCache \in Caches /\ AI!NoCache.key = 0 /\ AI!NoCache.acct = "no"
  /\ AI!NoCall \in CallStates /\ AI!NoCall.pc = "idle" /\ ~AI!NoCall.created
  /\ AI!FullBudget \in Budgets
<1>1. 1 \in Nat /\ 0 \in Nat OBVIOUS
<1>2. AI!NoCall \in CallStates /\ AI!NoCall.pc = "idle" /\ ~AI!NoCall.created
  BY <1>1 DEF AI!NoCall, CallStates, AI!Jobs
<1>3. [x \in AI!Models \X AI!Jobs |-> "no"] \in [AI!Models \X AI!Jobs -> Verbs] BY DEF Verbs
<1>4. AI!NoCache \in Caches /\ AI!NoCache.key = 0 /\ AI!NoCache.acct = "no"
  BY <1>3 DEF AI!NoCache, Caches, Verbs
<1>5. AI!FullBudget \in Budgets BY DEF AI!FullBudget, Budgets
<1> QED BY <1>2, <1>4, <1>5

\* The operators that a call is made of.
LEMMA CallTypes ==
  ASSUME AiTyped
  PROVE  /\ \A pc \in {"model", "infer", "inline", "capacity", "reserve", "start", "finalize",
                       "poll", "clean", "sweep"} :
              /\ AI!AiGoto(pc) \in CallStates /\ AI!AiGoto(pc).pc = pc
              /\ AI!AiGoto(pc).file = ai.file /\ AI!AiGoto(pc).created = ai.created
         /\ \A ok \in BOOLEAN : AI!Return(ok) \in CallStates /\ AI!Return(ok).pc = "done"
         /\ AI!NextModel \in CallStates /\ AI!NextModel.pc = "model"
         /\ \A a : AI!CanRetry(a) =>
              /\ a \in {"lost", "busy"}
              /\ AI!Again \in CallStates /\ AI!Again.pc = ai.pc /\ AI!Again.file = ai.file
              /\ AI!Again.created = ai.created
<1>1. ai \in CallStates BY DEF AiTyped
<1>2. \A pc \in {"model", "infer", "inline", "capacity", "reserve", "start", "finalize",
                 "poll", "clean", "sweep", "done"} :
        /\ AI!AiGoto(pc) \in CallStates /\ AI!AiGoto(pc).pc = pc
        /\ AI!AiGoto(pc).file = ai.file /\ AI!AiGoto(pc).created = ai.created
  BY <1>1 DEF AI!AiGoto, CallStates
<1>3. \A ok \in BOOLEAN : AI!Return(ok) \in CallStates /\ AI!Return(ok).pc = "done"
  BY <1>2 DEF AI!Return, CallStates
<1>4. AI!NextModel \in CallStates /\ AI!NextModel.pc = "model"
  BY <1>2 DEF AI!NextModel, CallStates
<1>5. ASSUME NEW a, AI!CanRetry(a)
      PROVE  /\ a \in {"lost", "busy"}
             /\ AI!Again \in CallStates /\ AI!Again.pc = ai.pc /\ AI!Again.file = ai.file
             /\ AI!Again.created = ai.created
  <2>1. ai.left - 1 \in Nat /\ ai.tries + 1 \in Nat BY <1>1, <1>5 DEF AI!CanRetry, CallStates
  <2> QED BY <1>1, <1>5, <2>1 DEF AI!CanRetry, AI!Again, CallStates
<1> QED BY <1>2, <1>3, <1>4, <1>5

LEMMA BlockTypes ==
  ASSUME AiTyped
  PROVE  /\ \A a : /\ AI!BlockAccount(a) \in Caches /\ AI!BlockAccount(a).key = cache.key
                   /\ AI!BlockAccount(a).acct = IF a = "key" THEN "session" ELSE "timed"
         /\ \A how \in Verbs : AI!BlockModel(how) \in Caches
                               /\ AI!BlockModel(how).key = cache.key
         /\ AI!InlineOff \in Caches /\ AI!InlineOff.key = cache.key
<1>1. cache \in Caches BY DEF AiTyped
<1>2. \A a : /\ AI!BlockAccount(a) \in Caches /\ AI!BlockAccount(a).key = cache.key
             /\ AI!BlockAccount(a).acct = IF a = "key" THEN "session" ELSE "timed"
  BY <1>1 DEF AI!BlockAccount, Caches, Verbs
<1>3. ASSUME NEW how \in Verbs
      PROVE  AI!BlockModel(how) \in Caches /\ AI!BlockModel(how).key = cache.key
  BY <1>1 DEF AI!BlockModel, Caches
<1>4. AI!InlineOff \in Caches /\ AI!InlineOff.key = cache.key
  <2>1. cache.off \cup {ai.m} \in SUBSET Nat BY DEF AiTyped, Caches, CallStates
  <2> QED BY <1>1, <2>1 DEF AI!InlineOff, Caches
<1> QED BY <1>2, <1>3, <1>4

\* Of what a request leaves, this is enough: the key stays, and an answer that
\* asked to wait has ended the call and blocked the account.
Answered ==
  /\ cache' \in Caches /\ cache'.key = cache.key /\ ai' \in CallStates
  /\ told' = "no" \/ (told' \in {"wait", "key"} /\ ai'.pc \in {"done", "idle"}
                       /\ cache'.acct = IF told' = "key" THEN "session" ELSE "timed")

LEMMA AnsweredGood ==
  ASSUME AiInv, ai.pc # "idle", Answered, key' = key PROVE Told'
BY DEF AiInv, AiTyped, Told, Answered

LEMMA BusyToldNothing == ASSUME AiInv, ai.pc \notin {"idle", "done"} PROVE told = "no"
BY DEF AiInv, Told

LEMMA ListsSame ==
  ASSUME AiInv, UNCHANGED <<key, pend, retired, audio, made, expired>>, ai'.pc # "start"
  PROVE  Listed'
BY DEF AiInv, Listed, AI!Foreign, AI!RemoteTracked

\* A step that leaves the names alone.
LEMMA QuietGood ==
  ASSUME AiInv, ai.pc # "idle", Answered, clean' \in Budgets, ai'.pc # "start",
         UNCHANGED <<key, pend, retired, audio, made, expired, wav>>
  PROVE  AiInv'
<1>1. Told' BY AnsweredGood
<1>2. Listed' BY ListsSame
<1>3. AiTyped' BY DEF AiInv, AiTyped, Answered
<1> QED BY <1>1, <1>2, <1>3 DEF AiInv

LEMMA DiscoverGood ==
  ASSUME AiInv, AI!Discover PROVE AiInv'
<1>1. UNCHANGED <<key, pend, retired, audio, made, expired, wav, clean>> /\ ai.pc = "discover"
  BY DEF AI!Discover, AI!AiAt, AI!nvs
<1>2. AiTyped /\ told = "no" BY <1>1, BusyToldNothing DEF AiInv
<1>3. cache \in Caches /\ NModels \in Nat BY <1>2, SpeechAssumption DEF AiTyped
<1>4. PICK a \in {"ok", "short", "lost", "busy", "quota", "hint", "key", "bad"} :
        /\ AI!Ask(a)
        /\ \/ AI!CanRetry(a) /\ ai' = AI!Again /\ cache' = cache
           \/ /\ a \in {"busy", "quota", "hint", "key"} /\ ai' = AI!Return(FALSE)
              /\ cache' = [AI!BlockAccount(a) EXCEPT !.disc = TRUE, !.mute = {}]
           \/ /\ a \notin {"busy", "quota", "hint", "key"} /\ ai' = AI!AiGoto("model")
              /\ \E mute \in SUBSET Nat : cache' = [cache EXCEPT !.disc = TRUE, !.mute = mute]
  <2>1. {NModels} \in SUBSET Nat /\ {} \in SUBSET Nat BY <1>3
  <2>2. [[cache EXCEPT !.disc = TRUE, !.mute = {}] EXCEPT !.mute = {NModels}]
          = [cache EXCEPT !.disc = TRUE, !.mute = {NModels}]
    BY <1>3 DEF Caches
  <2> QED BY <2>1, <2>2 DEF AI!Discover
<1>5. told' = IF a = "key" THEN "key" ELSE IF a \in {"quota", "hint"} THEN "wait" ELSE "no"
  BY <1>2, <1>4 DEF AI!Ask
<1>6. Answered /\ ai'.pc # "start"
  <2>1. CASE AI!CanRetry(a) /\ ai' = AI!Again /\ cache' = cache
    BY <1>1, <1>2, <1>3, <1>5, <2>1, CallTypes DEF Answered
  <2>2. CASE /\ a \in {"busy", "quota", "hint", "key"} /\ ai' = AI!Return(FALSE)
             /\ cache' = [AI!BlockAccount(a) EXCEPT !.disc = TRUE, !.mute = {}]
    <3>1. cache' \in Caches /\ cache'.key = cache.key
          /\ cache'.acct = IF a = "key" THEN "session" ELSE "timed"
      BY <1>2, <2>2, BlockTypes DEF Caches
    <3>2. ai' \in CallStates /\ ai'.pc = "done" BY <1>2, <2>2, CallTypes
    <3> QED BY <1>5, <3>1, <3>2 DEF Answered
  <2>3. CASE /\ a \notin {"busy", "quota", "hint", "key"} /\ ai' = AI!AiGoto("model")
             /\ \E mute \in SUBSET Nat : cache' = [cache EXCEPT !.disc = TRUE, !.mute = mute]
    <3>1. cache' \in Caches /\ cache'.key = cache.key BY <1>3, <2>3 DEF Caches
    <3>2. ai' \in CallStates /\ ai'.pc = "model" BY <1>2, <2>3, CallTypes
    <3> QED BY <1>5, <2>3, <3>1, <3>2 DEF Answered
  <2> QED BY <1>4, <2>1, <2>2, <2>3
<1>7. clean \in Budgets BY <1>2 DEF AiTyped
<1> QED BY <1>1, <1>6, <1>7, QuietGood

LEMMA PickModelGood ==
  ASSUME AiInv, AI!PickModel PROVE AiInv'
<1>1. /\ UNCHANGED <<key, pend, retired, audio, made, expired, wav, clean, told>>
      /\ ai.pc = "model"
  BY DEF AI!PickModel, AI!AiAt, AI!nvs
<1>2. AiTyped /\ told = "no" /\ clean \in Budgets BY <1>1, BusyToldNothing DEF AiInv, AiTyped
<1>3. cache' \in Caches /\ cache'.key = cache.key
  <2>1. cache' = cache \/ cache' = AI!BlockModel("timed") BY Zenon DEF AI!PickModel
  <2> QED BY <1>2, <2>1, BlockTypes DEF AiTyped, Verbs
<1>4. ai' \in CallStates /\ ai'.pc # "start"
  <2>1. \/ ai' = AI!Return(FALSE) \/ ai' = AI!NextModel \/ ai' = AI!AiGoto("infer")
        \/ ai' = AI!AiGoto("inline") \/ ai' = [AI!AiGoto("capacity") EXCEPT !.up = TRUE]
    BY Zenon DEF AI!PickModel
  <2>2. [AI!AiGoto("capacity") EXCEPT !.up = TRUE] \in CallStates
        /\ [AI!AiGoto("capacity") EXCEPT !.up = TRUE].pc = "capacity"
    BY <1>2, CallTypes DEF CallStates
  <2> QED BY <1>2, <2>1, <2>2, CallTypes
<1> QED BY <1>1, <1>2, <1>3, <1>4, QuietGood DEF Answered

\* failureAction() after an answer of the model.
LEMMA FailureTypes ==
  ASSUME AiInv, ai.pc \in {"inline", "infer"}, NEW a, AI!Failure(a)
  PROVE  /\ cache' \in Caches /\ cache'.key = cache.key
         /\ ai' \in CallStates /\ ai'.pc # "start"
         /\ a \in {"key", "quota", "hint"} =>
              /\ ai'.pc = "done"
              /\ cache'.acct = IF a = "key" THEN "session" ELSE "timed"
<1>1. AiTyped BY DEF AiInv
<1>2. cache \in Caches /\ AI!BlockModel("timed") \in Caches
      /\ AI!BlockModel("timed").key = cache.key
  BY <1>1, BlockTypes DEF AiTyped, Verbs
<1>3. CASE a \in {"key", "quota", "hint"} /\ ai' = AI!Return(FALSE) /\ cache' = AI!BlockAccount(a)
  BY <1>1, <1>3, CallTypes, BlockTypes
<1>4. CASE /\ a = "gone" /\ ai' = AI!NextModel
           /\ cache' = [AI!BlockModel("timed") EXCEPT !.disc = FALSE]
  <2>1. cache' \in Caches /\ cache'.key = cache.key BY <1>2, <1>4 DEF Caches
  <2> QED BY <1>1, <1>4, <2>1, CallTypes
<1>5. CASE a \in {"model", "lost", "busy"} /\ ai' = AI!NextModel /\ cache' = AI!BlockModel("timed")
  BY <1>1, <1>2, <1>5, CallTypes
<1>6. CASE a = "bad" /\ ai' = AI!Return(FALSE) /\ cache' = cache
  BY <1>1, <1>2, <1>6, CallTypes
<1>7. CASE AI!CanRetry(a) /\ ai' = AI!Again /\ cache' = cache
  BY <1>1, <1>2, <1>7, CallTypes
<1>8. CASE a = "busy" /\ ai' = AI!Return(FALSE) /\ cache' = AI!BlockAccount(a)
  BY <1>1, <1>8, CallTypes, BlockTypes
<1> QED BY <1>3, <1>4, <1>5, <1>6, <1>7, <1>8, Zenon DEF AI!Failure

LEMMA InferGood ==
  ASSUME AiInv, AI!Infer PROVE AiInv'
<1>1. /\ UNCHANGED <<key, pend, retired, audio, made, expired, wav, clean>>
      /\ ai.pc \in {"inline", "infer"}
  BY DEF AI!Infer, AI!AiAt, AI!nvs
<1>2. AiTyped /\ told = "no" /\ clean \in Budgets BY <1>1, BusyToldNothing DEF AiInv, AiTyped
<1>3. PICK a : /\ AI!Ask(a)
               /\ \/ a = "ok" /\ ai' = AI!Return(TRUE) /\ cache' = cache
                  \/ /\ a \in {"empty", "unfit", "lost"}
                     /\ ai' = AI!Rejected /\ cache' = AI!InlineOff
                  \/ /\ a \in {"empty", "unfit"} /\ ai' = AI!NextModel
                     /\ \E how \in Verbs : cache' = AI!BlockModel(how)
                  \/ AI!Failure(a)
  BY DEF AI!Infer, Verbs
<1>4. told' = IF a = "key" THEN "key" ELSE IF a \in {"quota", "hint"} THEN "wait" ELSE "no"
  BY <1>2, <1>3 DEF AI!Ask
<1>5. CASE a = "ok" /\ ai' = AI!Return(TRUE) /\ cache' = cache
  <2>1. Answered /\ ai'.pc # "start" BY <1>2, <1>4, <1>5, CallTypes DEF Answered, AiTyped
  <2> QED BY <1>1, <1>2, <2>1, QuietGood
<1>6. CASE a \in {"empty", "unfit", "lost"} /\ ai' = AI!Rejected /\ cache' = AI!InlineOff
  <2>1. [AI!AiGoto("capacity") EXCEPT !.up = TRUE] \in CallStates
        /\ [AI!AiGoto("capacity") EXCEPT !.up = TRUE].pc = "capacity"
    BY <1>2, CallTypes DEF CallStates
  <2>2. ai' \in CallStates /\ ai'.pc # "start" BY <1>2, <1>6, <2>1, CallTypes DEF AI!Rejected
  <2>3. Answered BY <1>2, <1>4, <1>6, <2>2, BlockTypes DEF Answered
  <2> QED BY <1>1, <1>2, <2>2, <2>3, QuietGood
<1>7. CASE /\ a \in {"empty", "unfit"} /\ ai' = AI!NextModel
           /\ \E how \in Verbs : cache' = AI!BlockModel(how)
  <2>1. Answered /\ ai'.pc # "start" BY <1>2, <1>4, <1>7, CallTypes, BlockTypes DEF Answered
  <2> QED BY <1>1, <1>2, <2>1, QuietGood
<1>8. CASE AI!Failure(a)
  <2>1. Answered /\ ai'.pc # "start" BY <1>1, <1>4, <1>8, FailureTypes DEF Answered
  <2> QED BY <1>1, <1>2, <2>1, QuietGood
<1> QED BY <1>3, <1>5, <1>6, <1>7, <1>8

LEMMA DeferTypes ==
  ASSUME AiTyped, NEW a
  PROVE  /\ AI!Defer(a) \in Caches /\ AI!Defer(a).key = cache.key
         /\ a \in {"key", "quota", "hint"} =>
              AI!Defer(a).acct = IF a = "key" THEN "session" ELSE "timed"
BY BlockTypes DEF AI!Defer, AiTyped

LEMMA FinalizeGood ==
  ASSUME AiInv, AI!Finalize PROVE AiInv'
<1>1. UNCHANGED <<key, pend, retired, audio, made, expired, wav, clean>> /\ ai.pc = "finalize"
  BY DEF AI!Finalize, AI!AiAt, AI!nvs
<1>2. AiTyped /\ told = "no" /\ clean \in Budgets BY <1>1, BusyToldNothing DEF AiInv, AiTyped
<1>3. PICK a : /\ AI!Ask(a) /\ cache' = AI!Defer(a)
               /\ \/ a = "ok" /\ ai' = [AI!AiGoto("infer") EXCEPT !.active = TRUE]
                  \/ a \in {"lost", "slow"} /\ ai' = AI!AiGoto("poll")
                  \/ a \notin {"ok", "lost", "slow"} /\ ai' = AI!Return(FALSE)
  BY DEF AI!Finalize
<1>4. told' = IF a = "key" THEN "key" ELSE IF a \in {"quota", "hint"} THEN "wait" ELSE "no"
  BY <1>2, <1>3 DEF AI!Ask
<1>5. [AI!AiGoto("infer") EXCEPT !.active = TRUE] \in CallStates
      /\ [AI!AiGoto("infer") EXCEPT !.active = TRUE].pc = "infer"
  BY <1>2, CallTypes DEF CallStates
<1>6. /\ ai' \in CallStates /\ ai'.pc # "start"
      /\ a \in {"key", "quota", "hint"} => ai'.pc = "done"
  BY <1>2, <1>3, <1>5, CallTypes
<1>7. Answered BY <1>2, <1>3, <1>4, <1>6, DeferTypes DEF Answered
<1> QED BY <1>1, <1>2, <1>6, <1>7, QuietGood

LEMMA PollGood ==
  ASSUME AiInv, AI!Poll PROVE AiInv'
<1>1. UNCHANGED <<key, pend, retired, audio, made, expired, wav, clean>> /\ ai.pc = "poll"
  BY DEF AI!Poll, AI!AiAt, AI!nvs
<1>2. AiTyped /\ told = "no" /\ clean \in Budgets BY <1>1, BusyToldNothing DEF AiInv, AiTyped
<1>3. PICK a : /\ AI!Ask(a)
               /\ \/ /\ a = "ok" /\ ai' = [AI!AiGoto("infer") EXCEPT !.active = TRUE]
                     /\ cache' = cache
                  \/ a = "lost" /\ AI!CanRetry(a) /\ ai' = AI!Again /\ cache' = cache
                  \/ a = "slow" /\ ai' \in {ai, AI!Return(FALSE)} /\ cache' = cache
                  \/ ai' = AI!Return(FALSE) /\ cache' = AI!Defer(a)
  BY DEF AI!Poll
<1>4. told' = IF a = "key" THEN "key" ELSE IF a \in {"quota", "hint"} THEN "wait" ELSE "no"
  BY <1>2, <1>3 DEF AI!Ask
<1>5. [AI!AiGoto("infer") EXCEPT !.active = TRUE] \in CallStates
      /\ [AI!AiGoto("infer") EXCEPT !.active = TRUE].pc = "infer"
  BY <1>2, CallTypes DEF CallStates
<1>6. CASE ai' = AI!Return(FALSE) /\ cache' = AI!Defer(a)
  <2>1. Answered /\ ai'.pc # "start" BY <1>2, <1>4, <1>6, CallTypes, DeferTypes DEF Answered
  <2> QED BY <1>1, <1>2, <2>1, QuietGood
<1>7. CASE cache' = cache /\ a \in {"ok", "lost", "slow"}
  <2>1. ai' \in CallStates /\ ai'.pc # "start"
    BY <1>1, <1>2, <1>3, <1>5, CallTypes DEF AiTyped
  <2>2. Answered BY <1>2, <1>4, <1>7, <2>1 DEF Answered, AiTyped
  <2> QED BY <1>1, <1>2, <2>1, <2>2, QuietGood
<1> QED BY <1>3, <1>6, <1>7

LEMMA CleanEndsGood ==
  ASSUME AiInv, AI!CleanEnds PROVE AiInv'
<1>1. /\ UNCHANGED <<key, cache, pend, retired, audio, made, expired, wav, told>>
      /\ ai.pc \in {"clean", "sweep"}
  BY DEF AI!CleanEnds, AI!nvs
<1>2. AiTyped /\ told = "no" BY <1>1, BusyToldNothing DEF AiInv
<1>3. clean' \in Budgets BY <1>2 DEF AI!CleanEnds, AiTyped, Budgets
<1>4. ai' \in CallStates /\ ai'.pc # "start"
  <2>1. ai' = AI!Return(FALSE) \/ ai' = AI!NoCall BY Zenon DEF AI!CleanEnds
  <2> QED BY <1>2, <2>1, CallTypes, AiTypes
<1>5. Answered BY <1>1, <1>2, <1>4 DEF Answered, AiTyped
<1> QED BY <1>1, <1>3, <1>4, <1>5, QuietGood

\* The former key's names leave pending[] for the retired ones, the expired ones
\* leave it for good.
LEMMA RetireKeeps ==
  ASSUME AiInv, UNCHANGED <<key, audio, made, expired>>, AI!Retire,
         pend' \in {pend, AI!Live}, ai'.pc # "start"
  PROVE  Listed' /\ pend' \subseteq Names /\ retired' \subseteq Names
<1> USE DEF AI!Foreign
<1>1. AiTyped /\ Listed BY DEF AiInv
<1>2. \A p \in AI!Foreign : p.key \in Nat /\ p.key < key BY <1>1 DEF AiTyped, Listed, Names
<1>3. pend' \subseteq pend /\ \A p \in pend \ pend' : p \in AI!Foreign \/ p.n <= expired
  BY <1>1 DEF AI!Live, AiTyped, Names
<1>4. retired' \subseteq Names /\ \A p \in retired' : p.key < key
  BY <1>1, <1>2 DEF AI!Retire, AiTyped, Listed
<1>5. AI!Foreign' \subseteq AI!Foreign BY <1>3
<1>6. AI!Foreign' # {} => AI!Foreign' = AI!Foreign BY DEF AI!Live
<1>7. AI!Foreign # {} => retired' = AI!Foreign BY DEF AI!Retire
<1>8. \A x \in audio : x.key + 1 >= key => x \in pend' \cup retired'
  <2> SUFFICES ASSUME NEW x \in audio, x.key + 1 >= key PROVE x \in pend' \cup retired'
    OBVIOUS
  <2>1. x \in pend \cup retired /\ x.n \in Nat /\ x.n > expired
    BY <1>1 DEF Listed, AI!RemoteTracked, AiTyped, Names
  <2>2. CASE AI!Foreign = {}
    <3>1. retired' = retired BY <2>2 DEF AI!Retire
    <3> QED BY <1>1, <1>3, <2>1, <2>2, <3>1 DEF AiTyped
  <2>3. CASE AI!Foreign # {}
    <3>1. x \in retired => x \in AI!Foreign BY <1>1, <2>3 DEF Listed
    <3> QED BY <1>1, <1>3, <1>7, <2>1, <2>3, <3>1 DEF AiTyped
  <2> QED BY <2>2, <2>3
<1>9. \A p \in pend' : p.n <= made /\ p.key <= key BY <1>1, <1>3 DEF Listed
<1>10. AI!Foreign' # {} => \A p \in retired' : p.key + 1 >= key => p \in AI!Foreign'
  BY <1>5, <1>6, <1>7
<1> HIDE DEF AI!Foreign
<1>11. Listed' BY <1>1, <1>4, <1>8, <1>9, <1>10 DEF Listed, AI!RemoteTracked
<1> QED BY <1>1, <1>3, <1>4, <1>11 DEF AiTyped

LEMMA EnsureCapacityGood ==
  ASSUME AiInv, AI!EnsureCapacity PROVE AiInv'
<1>1. /\ UNCHANGED <<key, cache, audio, made, expired, wav, clean, told>>
      /\ ai.pc = "capacity"
  BY DEF AI!EnsureCapacity, AI!AiAt
<1>2. AiTyped /\ told = "no" BY <1>1, BusyToldNothing DEF AiInv
<1>3. ai' \in CallStates /\ ai'.pc # "start"
  <2>1. ai' = AI!AiGoto("reserve") \/ ai' = AI!AiGoto("clean") \/ ai' = AI!Return(FALSE)
    BY Zenon DEF AI!EnsureCapacity
  <2> QED BY <1>2, <2>1, CallTypes
<1>4. \/ pend' \in {pend, AI!Live} /\ AI!Retire
      \/ UNCHANGED <<pend, retired>>
  BY DEF AI!EnsureCapacity
<1>5. Listed' /\ pend' \subseteq Names /\ retired' \subseteq Names
  BY <1>1, <1>2, <1>3, <1>4, RetireKeeps, ListsSame DEF AiTyped
<1>6. Answered BY <1>1, <1>2, <1>3 DEF Answered, AiTyped
<1>7. Told' BY <1>1, <1>6, AnsweredGood
<1>8. AiTyped' BY <1>1, <1>2, <1>3, <1>5 DEF AiTyped
<1> QED BY <1>5, <1>7, <1>8 DEF AiInv

LEMMA ReserveGood ==
  ASSUME AiInv, AI!Reserve PROVE AiInv'
<1>1. /\ UNCHANGED <<key, cache, retired, audio, expired, wav, clean, told>> /\ made' = made + 1
      /\ ai.pc = "reserve"
  BY DEF AI!Reserve, AI!AiAt
<1>2. AiTyped /\ told = "no" /\ cache.key = key
  BY <1>1, BusyToldNothing DEF AiInv, Told
<1> DEFINE f == [n |-> made + 1, key |-> cache.key]
<1>3. f \in Names /\ f.n = made + 1 /\ f.key = key BY <1>2 DEF AiTyped, Names
<1>4. \/ pend' = pend \cup {f} /\ ai' = [AI!AiGoto("start") EXCEPT !.file = made + 1]
      \/ pend' = pend /\ ai' = AI!Return(FALSE)
  BY DEF AI!Reserve
<1>5. pend \subseteq pend' /\ pend' \subseteq pend \cup {f} BY <1>4
<1>6. ai' \in CallStates /\ ai'.pc \in {"start", "done"}
      /\ (ai'.pc = "start" => ai'.file = made + 1 /\ f \in pend')
  <2>1. /\ [AI!AiGoto("start") EXCEPT !.file = made + 1] \in CallStates
        /\ [AI!AiGoto("start") EXCEPT !.file = made + 1].pc = "start"
        /\ [AI!AiGoto("start") EXCEPT !.file = made + 1].file = made + 1
    BY <1>2, CallTypes DEF CallStates, AiTyped
  <2> QED BY <1>2, <1>4, <2>1, CallTypes
<1>7. made \in Nat /\ expired \in Nat /\ expired <= made BY <1>2 DEF AiInv, AiTyped, Listed
<1>8. \A p \in pend' : p.n <= made' /\ p.key <= key
  <2> SUFFICES ASSUME NEW p \in pend' PROVE p.n <= made' /\ p.key <= key
    OBVIOUS
  <2>1. CASE p \in pend BY <1>1, <1>2, <2>1 DEF AiInv, AiTyped, Listed, Names
  <2>2. CASE p = f BY <1>1, <1>2, <1>3, <2>2 DEF AiTyped
  <2> QED BY <1>5, <2>1, <2>2
<1>9. \A p \in audio : p.n <= made' /\ p.n > expired
  BY <1>1, <1>2 DEF AiInv, AiTyped, Listed, Names
<1>10. ai'.pc = "start" => AI!Name' \in pend' /\ ai'.file > expired /\ AI!Name' \notin audio
  <2> SUFFICES ASSUME ai'.pc = "start"
               PROVE  AI!Name' \in pend' /\ ai'.file > expired /\ AI!Name' \notin audio
    OBVIOUS
  <2>1. AI!Name' = f BY <1>1, <1>6 DEF AI!Name
  <2>2. f \notin audio BY <1>2, <1>3, <1>7 DEF AiInv, Listed
  <2> QED BY <1>6, <1>7, <2>1, <2>2
<1>11. AI!Foreign' = AI!Foreign BY <1>1, <1>3, <1>5 DEF AI!Foreign
<1>12. Listed'
  <2>1. expired <= made' BY <1>1, <1>7
  <2>2. AI!Foreign' # {} => \A p \in retired : p.key + 1 >= key => p \in AI!Foreign'
    BY <1>11 DEF AiInv, Listed
  <2>3. AI!RemoteTracked' BY <1>1, <1>5 DEF AiInv, Listed, AI!RemoteTracked
  <2>4. \A p \in retired : p.key < key BY DEF AiInv, Listed
  <2> QED BY <1>1, <1>8, <1>9, <1>10, <2>1, <2>2, <2>3, <2>4 DEF Listed
<1>13. Answered BY <1>1, <1>2, <1>6 DEF Answered, AiTyped
<1>14. Told' BY <1>1, <1>13, AnsweredGood
<1>15. pend' \subseteq Names /\ made' \in Nat BY <1>1, <1>2, <1>3, <1>5, <1>7 DEF AiTyped
<1>16. AiTyped' BY <1>1, <1>2, <1>6, <1>15 DEF AiTyped
<1> QED BY <1>12, <1>14, <1>16 DEF AiInv

\* The names that a step may take from pending[] are of this key and not on the
\* server; the file it may add is the one whose name is there.
LEMMA NamesKept ==
  ASSUME AiInv, UNCHANGED <<key, retired, made, expired>>, cache.key = key,
         pend' \subseteq pend, audio' \subseteq audio \cup {AI!Name},
         audio' # audio /\ ~(audio' \subseteq audio) => ai.pc = "start" /\ pend' = pend,
         \A p \in pend \ pend' : p.key = key /\ p \notin audio',
         ai'.pc = "start" => /\ ai.pc = "start" /\ ai'.file = ai.file /\ cache'.key = key
                             /\ AI!Name \in pend' /\ (~ai'.created => AI!Name \notin audio')
  PROVE  Listed'
<1>1. AiTyped /\ Listed BY DEF AiInv
<1>2. AI!Foreign' = AI!Foreign BY DEF AI!Foreign
<1>3. AI!Name \in audio' /\ AI!Name \notin audio =>
        /\ AI!Name \in pend' /\ AI!Name.n > expired
  BY <1>1 DEF Listed, AI!Name
<1>4. \A p \in audio' : p.n <= made /\ p.n > expired
  BY <1>1, <1>3 DEF Listed
<1>5. \A p \in audio' : p.key + 1 >= key => p \in pend' \cup retired
  BY <1>1, <1>3 DEF Listed, AI!RemoteTracked
<1>6. ai'.pc = "start" => AI!Name' = AI!Name BY DEF AI!Name
<1>7. ai'.pc = "start" => /\ AI!Name' \in pend' /\ ai'.file > expired
                          /\ ~ai'.created => AI!Name' \notin audio'
  BY <1>1, <1>6 DEF Listed
<1>8. \A p \in pend' : p.n <= made /\ p.key <= key BY <1>1 DEF Listed
<1> QED BY <1>1, <1>2, <1>4, <1>5, <1>7, <1>8 DEF Listed, AI!RemoteTracked

LEMMA StartUploadGood ==
  ASSUME AiInv, AI!StartUpload PROVE AiInv'
<1>1. UNCHANGED <<key, retired, made, expired, wav, clean>> /\ ai.pc = "start"
  BY DEF AI!StartUpload, AI!AiAt
<1>2. AiTyped /\ told = "no" /\ cache.key = key
  BY <1>1, BusyToldNothing DEF AiInv, Told
<1>3. ai.created \in BOOLEAN /\ cache \in Caches BY <1>2 DEF AiTyped, CallStates
<1> DEFINE may(a) == ai.created \/ a \in {"ok", "lost", "hint"}
<1>4. PICK a \in {"ok", "lost", "busy", "quota", "hint", "key", "bad"} :
        /\ AI!Ask(a)
        /\ audio' \in IF a = "ok" THEN {audio \cup {AI!Name}}
                      ELSE IF a \in {"lost", "hint"} THEN {audio, audio \cup {AI!Name}}
                      ELSE {audio}
        /\ IF a = "ok"
           THEN ai' = [AI!AiGoto("finalize") EXCEPT !.created = TRUE] /\ UNCHANGED <<cache, pend>>
           ELSE IF AI!CanRetry(a)
           THEN ai' = [AI!Again EXCEPT !.created = may(a)] /\ UNCHANGED <<cache, pend>>
           ELSE ai' = AI!Return(FALSE) /\ cache' = AI!Defer(a) /\ AI!Forget(may(a))
  BY Zenon DEF AI!StartUpload
<1>5. may(a) \in BOOLEAN OBVIOUS
<1>6. PICK created \in BOOLEAN : created = may(a) BY <1>5, Zenon
<1>7. audio' = audio \/ (audio' = audio \cup {AI!Name} /\ created) BY <1>4, <1>6
<1>8. \/ /\ a = "ok" /\ ai' = [AI!AiGoto("finalize") EXCEPT !.created = TRUE]
         /\ UNCHANGED <<cache, pend>>
      \/ /\ AI!CanRetry(a) /\ ai' = [AI!Again EXCEPT !.created = created]
         /\ UNCHANGED <<cache, pend>>
      \/ ai' = AI!Return(FALSE) /\ cache' = AI!Defer(a) /\ AI!Forget(created)
  <2>1. CASE a = "ok" BY <1>4, <2>1
  <2>2. CASE a # "ok" /\ AI!CanRetry(a) BY <1>4, <1>6, <2>2, Zenon
  <2>3. CASE a # "ok" /\ ~AI!CanRetry(a) BY <1>4, <1>6, <2>3, Zenon
  <2> QED BY <2>1, <2>2, <2>3
<1>9. pend' = pend \/ (pend' = pend \ {AI!Name} /\ ~created /\ ai' = AI!Return(FALSE))
  BY <1>8 DEF AI!Forget
<1>10. ai.created => created BY <1>6, Zenon
<1> HIDE DEF may
<1>11. told' = IF a = "key" THEN "key" ELSE IF a \in {"quota", "hint"} THEN "wait" ELSE "no"
  BY <1>2, <1>4 DEF AI!Ask
<1>12. AI!Name \in pend /\ AI!Name.key = key /\ (~ai.created => AI!Name \notin audio)
  BY <1>1, <1>2 DEF AiInv, Listed, AI!Name
<1>13. /\ [AI!AiGoto("finalize") EXCEPT !.created = TRUE] \in CallStates
       /\ [AI!AiGoto("finalize") EXCEPT !.created = TRUE].pc = "finalize"
  BY <1>2, CallTypes DEF CallStates
<1>14. AI!CanRetry(a) => /\ a \in {"lost", "busy"}
        /\ [AI!Again EXCEPT !.created = created] \in CallStates
        /\ [AI!Again EXCEPT !.created = created].pc = "start"
        /\ [AI!Again EXCEPT !.created = created].file = ai.file
        /\ [AI!Again EXCEPT !.created = created].created = created
  BY <1>1, <1>2, CallTypes DEF CallStates
<1>15. /\ Answered
       /\ ai'.pc = "start" => ai'.file = ai.file /\ ai'.created = created /\ pend' = pend
  <2>1. CASE a = "ok" /\ ai' = [AI!AiGoto("finalize") EXCEPT !.created = TRUE] /\ cache' = cache
    BY <1>2, <1>3, <1>11, <1>13, <2>1 DEF Answered
  <2>2. CASE AI!CanRetry(a) /\ ai' = [AI!Again EXCEPT !.created = created] /\ cache' = cache
             /\ pend' = pend
    BY <1>2, <1>3, <1>11, <1>14, <2>2 DEF Answered
  <2>3. CASE ai' = AI!Return(FALSE) /\ cache' = AI!Defer(a)
    BY <1>2, <1>11, <2>3, CallTypes, DeferTypes DEF Answered
  <2> QED BY <1>8, <2>1, <2>2, <2>3
<1>16. ~created => audio' = audio /\ AI!Name \notin audio BY <1>7, <1>10, <1>12
<1>17. Listed'
  <2>1. pend' \subseteq pend /\ audio' \subseteq audio \cup {AI!Name} BY <1>7, <1>9
  <2>2. ~(audio' \subseteq audio) => pend' = pend BY <1>7, <1>9, <1>16
  <2>3. \A p \in pend \ pend' : p.key = key /\ p \notin audio'
    <3>1. CASE pend' = pend BY <3>1
    <3>2. CASE pend' = pend \ {AI!Name} /\ ~created
      <4>1. \A p \in pend \ pend' : p = AI!Name BY <3>2
      <4> QED BY <1>12, <1>16, <3>2, <4>1
    <3> QED BY <1>9, <3>1, <3>2
  <2>4. ai'.pc = "start" => /\ ai'.file = ai.file /\ cache'.key = key
                            /\ AI!Name \in pend' /\ (~ai'.created => AI!Name \notin audio')
    BY <1>2, <1>12, <1>15, <1>16 DEF Answered
  <2> QED BY <1>1, <1>2, <2>1, <2>2, <2>3, <2>4, NamesKept
<1>18. Told' BY <1>1, <1>15, AnsweredGood
<1>19. AI!Name \in Names BY <1>12, <1>2 DEF AiTyped
<1>20. audio' \subseteq Names /\ pend' \subseteq Names BY <1>2, <1>7, <1>9, <1>19 DEF AiTyped
<1>21. AiTyped' BY <1>1, <1>2, <1>15, <1>20 DEF AiTyped, Answered
<1> QED BY <1>17, <1>18, <1>21 DEF AiInv

LEMMA DeleteGood ==
  ASSUME AiInv, AI!Delete PROVE AiInv'
<1>1. UNCHANGED <<key, retired, made, expired, wav>> /\ ai.pc \in {"clean", "sweep"}
  BY DEF AI!Delete
<1>2. AiTyped /\ told = "no" /\ cache.key = key
  BY <1>1, BusyToldNothing DEF AiInv, Told
<1>3. PICK p \in AI!Mine, a \in {"ok", "lost", "busy", "quota", "hint", "key", "bad"} :
        /\ told' = IF a = "key" THEN "key" ELSE IF a \in {"quota", "hint"} THEN "wait" ELSE told
        /\ audio' = audio \/ audio' = audio \ {p}
        /\ pend' = pend \/ (a = "ok" /\ audio' = audio \ {p} /\ pend' = pend \ {p})
        /\ \/ /\ a \in {"ok", "lost"} /\ cache' = cache
              /\ \/ ai' \in {AI!AiGoto("reserve"), AI!Return(FALSE), ai, AI!NoCall}
                 \/ ai' = [ai EXCEPT !.tries = 1]
           \/ /\ a # "ok" /\ ai' \in {AI!Return(FALSE), AI!NoCall}
              /\ cache' = AI!Defer(a)
        /\ \/ clean' = clean \/ clean' = [clean EXCEPT !.deferred = TRUE]
           \/ clean' = [clean EXCEPT !.retry = FALSE]
  BY DEF AI!Delete
<1>4. p \in pend /\ p.key = key BY <1>2 DEF AI!Mine
<1>5. /\ ai' \in CallStates /\ ai'.pc # "start"
      /\ a \in {"key", "quota", "hint"} => ai'.pc \in {"done", "idle"}
  <2>1. [ai EXCEPT !.tries = 1] \in CallStates /\ [ai EXCEPT !.tries = 1].pc = ai.pc
    BY <1>2 DEF AiTyped, CallStates
  <2> QED BY <1>1, <1>2, <1>3, <2>1, CallTypes, AiTypes DEF AiTyped
<1>6. Answered BY <1>2, <1>3, <1>5, DeferTypes DEF Answered, AiTyped
<1>7. Listed'
  <2>1. pend' \subseteq pend /\ audio' \subseteq audio BY <1>3
  <2>2. \A x \in pend \ pend' : x.key = key /\ x \notin audio' BY <1>3, <1>4
  <2> QED BY <1>1, <1>2, <1>5, <2>1, <2>2, NamesKept
<1>8. Told' BY <1>1, <1>6, AnsweredGood
<1>9. clean' \in Budgets BY <1>2, <1>3 DEF AiTyped, Budgets
<1>10. AiTyped' BY <1>1, <1>2, <1>3, <1>6, <1>9 DEF AiTyped, Answered
<1> QED BY <1>7, <1>8, <1>10 DEF AiInv

LEMMA AiStepsGood ==
  ASSUME AiInv, AI!AiSteps PROVE AiInv'
BY DiscoverGood, PickModelGood, InferGood, EnsureCapacityGood, ReserveGood, StartUploadGood,
   FinalizeGood, PollGood, DeleteGood, CleanEndsGood, Zenon DEF AI!AiSteps

\* activateKey() forgets what another key met, and only then.
LEMMA ActivateTypes ==
  ASSUME AiInv
  PROVE  /\ AI!ActivateKey \in Caches /\ AI!ActivateKey.key = key
         /\ told # "no" => AI!ActivateKey = cache
<1>1. key \in Nat /\ cache \in Caches BY DEF AiInv, AiTyped
<1>2. told # "no" => cache.key = key BY DEF AiInv, Told
<1>3. [AI!NoCache EXCEPT !.key = key] \in Caches /\ [AI!NoCache EXCEPT !.key = key].key = key
  BY <1>1, AiTypes DEF Caches
<1> QED BY <1>1, <1>2, <1>3 DEF AI!ActivateKey

LEMMA CallGood ==
  ASSUME AiInv, NEW kind \in AI!Jobs, AI!Call(kind) PROVE AiInv'
<1>1. /\ UNCHANGED <<key, pend, retired, audio, made, expired, wav, clean, told>>
      /\ ai.pc = "idle" /\ cache' = AI!ActivateKey
  BY DEF AI!Call, AI!AiAt, AI!nvs
<1>2. AiTyped /\ Told BY DEF AiInv
<1>3. cache' \in Caches /\ cache'.key = key /\ (told # "no" => cache' = cache)
  BY <1>1, ActivateTypes
<1>4. ai' \in CallStates /\ ai'.pc # "start" /\ (cache'.acct # "no" => ai'.pc = "done")
  <2>1. PICK m \in {1, 2}, pc \in {"done", "model", "discover"} :
          /\ ai' = [[AI!NoCall EXCEPT !.job = kind, !.left = Total, !.m = m] EXCEPT !.pc = pc]
          /\ cache'.acct # "no" => pc = "done"
    BY DEF AI!Call
  <2> DEFINE c == [AI!NoCall EXCEPT !.job = kind, !.left = Total, !.m = m]
  <2>2. c \in CallStates
    <3>1. Total \in Nat /\ m \in Nat BY SpeechAssumption
    <3>2. [AI!NoCall EXCEPT !.job = kind] \in CallStates BY AiTypes DEF CallStates
    <3>3. [[AI!NoCall EXCEPT !.job = kind] EXCEPT !.left = Total] \in CallStates
      BY <3>1, <3>2 DEF CallStates
    <3> QED BY <3>1, <3>3, AiTypes DEF CallStates
  <2>3. [c EXCEPT !.pc = pc] \in CallStates /\ [c EXCEPT !.pc = pc].pc = pc
    BY <2>2 DEF CallStates
  <2> QED BY <2>1, <2>3
<1>5. Told' BY <1>1, <1>2, <1>3, <1>4 DEF Told
<1>6. Listed' BY <1>1, <1>4, ListsSame
<1>7. AiTyped' BY <1>1, <1>2, <1>3, <1>4 DEF AiTyped
<1> QED BY <1>5, <1>6, <1>7 DEF AiInv

LEMMA SweepGood ==
  ASSUME AiInv, AI!Sweep PROVE AiInv'
<1>1. /\ UNCHANGED <<key, audio, made, expired, wav, clean, told>>
      /\ ai.pc = "idle" /\ cache' = AI!ActivateKey
  BY DEF AI!Sweep, AI!AiAt
<1>2. AiTyped /\ Told BY DEF AiInv
<1>3. cache' \in Caches /\ cache'.key = key /\ (told # "no" => cache' = cache)
  BY <1>1, ActivateTypes
<1>4. \/ /\ cache'.acct = "no" /\ AI!Retire /\ pend' = AI!Live
         /\ ai' = AI!NoCall \/ ai' = [AI!NoCall EXCEPT !.pc = "sweep"]
      \/ UNCHANGED <<pend, retired, ai>>
  BY DEF AI!Sweep, AI!nvs
<1>5. /\ ai' \in CallStates /\ ai'.pc \in {"idle", "sweep"}
      /\ cache'.acct # "no" => ai'.pc = "idle"
  <2>1. [AI!NoCall EXCEPT !.pc = "sweep"] \in CallStates
        /\ [AI!NoCall EXCEPT !.pc = "sweep"].pc = "sweep"
    BY AiTypes DEF CallStates
  <2> QED BY <1>1, <1>2, <1>4, <2>1, AiTypes DEF AiTyped
<1>6. Told' BY <1>1, <1>2, <1>3, <1>5 DEF Told
<1>7. Listed' /\ pend' \subseteq Names /\ retired' \subseteq Names
  BY <1>1, <1>2, <1>4, <1>5, RetireKeeps, ListsSame DEF AiTyped
<1>8. AiTyped' BY <1>1, <1>2, <1>3, <1>5, <1>7 DEF AiTyped
<1> QED BY <1>6, <1>7, <1>8 DEF AiInv

LEMMA TimePassesGood ==
  ASSUME AiInv, AI!TimePasses PROVE AiInv'
<1>1. UNCHANGED <<key, pend, retired, audio, made, expired, wav, ai, clean>> /\ ai.pc = "idle"
  BY DEF AI!TimePasses, AI!AiAt, AI!nvs
<1>2. AiTyped /\ Told BY DEF AiInv
<1>3. /\ cache' \in Caches /\ cache'.key = cache.key
      /\ cache.acct = "session" => cache'.acct = "session"
  <2>1. [x \in DOMAIN cache.blk |-> AI!Unblocked(cache.blk[x])]
          \in [AI!Models \X AI!Jobs -> Verbs]
    BY <1>2 DEF AiTyped, Caches, AI!Unblocked, Verbs
  <2>2. AI!Unblocked(cache.acct) \in Verbs
        /\ (cache.acct = "session" => AI!Unblocked(cache.acct) = "session")
    BY <1>2 DEF AiTyped, Caches, AI!Unblocked, Verbs
  <2> QED BY <1>2, <2>1, <2>2 DEF AI!TimePasses, AiTyped, Caches
<1>4. told' = IF told = "wait" THEN "no" ELSE told BY DEF AI!TimePasses
<1>5. Told' BY <1>1, <1>2, <1>3, <1>4 DEF Told, AiTyped
<1>6. Listed' BY <1>1, ListsSame
<1>7. AiTyped' BY <1>1, <1>2, <1>3, <1>4 DEF AiTyped
<1> QED BY <1>5, <1>6, <1>7 DEF AiInv

LEMMA TwoDaysGood ==
  ASSUME AiInv, AI!TwoDays PROVE AiInv'
<1>1. UNCHANGED <<key, cache, pend, retired, made, wav, ai, clean, told>> /\ ai.pc = "idle"
      /\ expired' = made /\ audio' = {}
  BY DEF AI!TwoDays, AI!AiAt, AI!nvs
<1>2. Listed' BY <1>1 DEF AiInv, AiTyped, Listed, AI!Foreign, AI!RemoteTracked
<1>3. Told' BY <1>1 DEF AiInv, Told
<1>4. AiTyped' BY <1>1 DEF AiInv, AiTyped
<1> QED BY <1>2, <1>3, <1>4 DEF AiInv

LEMMA SaveKeyGood ==
  ASSUME AiInv, AI!SaveKey PROVE AiInv'
<1>1. UNCHANGED <<cache, pend, retired, audio, made, expired, wav, ai, clean>> /\ ai.pc = "idle"
      /\ key' = key + 1 /\ told' = "no"
  BY DEF AI!SaveKey, AI!AiAt, AI!nvs
<1>2. AiTyped /\ Listed BY DEF AiInv
<1>3. AiTyped' BY <1>1, <1>2 DEF AiTyped
<1>4. Told' BY <1>1 DEF Told
<1>5. Listed' BY <1>1, <1>2 DEF AiTyped, Names, Listed, AI!Foreign, AI!RemoteTracked
<1> QED BY <1>3, <1>4, <1>5 DEF AiInv

LEMMA AiForgetsGood ==
  ASSUME AiInv, AI!AiForgets, UNCHANGED <<key, pend, retired, audio, made, expired, wav>>
  PROVE  AiInv'
<1>1. ai' = AI!NoCall /\ cache' = AI!NoCache /\ clean' = AI!FullBudget /\ told' = "no"
  BY DEF AI!AiForgets
<1>2. Listed' BY <1>1, ListsSame, AiTypes
<1>3. Told' BY <1>1, AiTypes DEF Told
<1>4. AiTyped' BY <1>1, AiTypes DEF AiInv, AiTyped
<1> QED BY <1>2, <1>3, <1>4 DEF AiInv

LEMMA AiInitHolds == AI!GeminiInit => AiInv
<1> SUFFICES ASSUME AI!GeminiInit PROVE AiInv
  OBVIOUS
<1> USE DEF AI!GeminiInit
<1>1. AiTyped BY AiTypes DEF AiTyped
<1>2. Told BY AiTypes DEF Told
<1>3. Listed BY AiTypes DEF Listed, AI!Foreign, AI!RemoteTracked
<1> QED BY <1>1, <1>2, <1>3 DEF AiInv
-----------------------------------------------------------------------------
(* The texts.                                                                *)

LEMMA NoteFacts ==
  /\ Assets = {wave, txt, md} /\ Texts \subseteq Assets /\ 1 \in Contents
  /\ Stages \in [1..2 -> Texts] /\ Len(Stages) = 2
  /\ Contents \subseteq Nat \ {0}
<1>1. Order = <<wave, txt, md>> /\ Texts = {txt, md} BY FilesAssumption
<1>2. Assets = {wave, txt, md} BY <1>1 DEF Assets
<1>3. Stages \in [1..2 -> Texts] /\ Len(Stages) = 2 BY <1>1 DEF Stages
<1>4. Cardinality(Contents) \in Nat BY DriveAssumption, FS_CardinalityType
<1>5. Contents \subseteq Nat \ {0} BY <1>4, DriveAssumption
<1> QED BY <1>1, <1>2, <1>3, <1>5, DriveAssumption

LEMMA StepTypes ==
  ASSUME JobTyped
  PROVE  /\ \A pc \in {"idle", "wait", "write", "written", "all", "drive", "driving", "end",
                       "sweep"} :
              /\ Step(pc) \in SyncStates /\ Step(pc).pc = pc /\ Step(pc).k = sync.k
              /\ Step(pc).had = sync.had
         /\ Resting \in SyncStates /\ Resting.pc = "idle"
         /\ sync.k \in 1..2 =>
              /\ NextText \in SyncStates /\ NextText.had = sync.had
              /\ NextText.pc \in {"text", "all"}
              /\ NextText.pc = "text" => NextText.k \in 1..2
<1>1. sync \in SyncStates BY DEF JobTyped
<1>2. Resting \in SyncStates /\ Resting.pc = "idle" BY DEF Resting, SyncStates
<1>3. ASSUME sync.k \in 1..2
      PROVE  /\ NextText \in SyncStates /\ NextText.had = sync.had
             /\ NextText.pc \in {"text", "all"}
             /\ NextText.pc = "text" => NextText.k \in 1..2
  <2>1. sync.k + 1 \in 1..3 /\ (sync.k < 2 => sync.k + 1 \in 1..2) BY <1>3
  <2> QED BY <1>1, <2>1, NoteFacts DEF NextText, SyncStates
<1>4. ASSUME NEW pc \in {"idle", "wait", "write", "written", "all", "drive", "driving", "end",
                         "sweep"}
      PROVE  /\ Step(pc) \in SyncStates /\ Step(pc).pc = pc /\ Step(pc).k = sync.k
             /\ Step(pc).had = sync.had
  BY <1>1 DEF Step, SyncStates
<1> QED BY <1>2, <1>3, <1>4

\* A step that leaves the texts alone keeps what is known of them, when the job
\* is no longer about to buy one or goes on with the same one.
LEMMA TextsSame ==
  ASSUME JobInv, UNCHANGED <<local, tmp, whole>>, sync' \in SyncStates,
         meta' \in {"none", "pending", "ready"}, pause' \in BOOLEAN,
         \/ sync'.pc \notin TextSteps
         \/ /\ sync.pc \in {"text", "wait", "write"} /\ sync'.pc \in {"text", "wait", "write"}
            /\ sync.had \subseteq sync'.had /\ sync'.k \in 1..2
  PROVE  JobInv'
<1>1. JobTyped' BY DEF JobInv, JobTyped
<1>2. Flashed' BY DEF JobInv, Flashed, TextSteps
<1> QED BY <1>1, <1>2 DEF JobInv

LEMMA JobSame ==
  ASSUME JobInv, UNCHANGED <<local, tmp, whole, sync, meta, pause>> PROVE JobInv'
BY DEF JobInv, JobTyped, Flashed, text

LEMMA BegunTypes ==
  ASSUME NEW had \in SUBSET Texts, NEW ready \in BOOLEAN, NEW upload \in BOOLEAN,
         sync' = [Resting EXCEPT !.pc = "text", !.had = had, !.ready = ready, !.upload = upload]
  PROVE  sync' \in SyncStates /\ sync'.pc = "text" /\ sync'.k = 1 /\ sync'.had = had
<1>1. Resting \in SyncStates BY DEF Resting, SyncStates
<1>2. Resting.k = 1 BY DEF Resting
<1> QED BY <1>1, <1>2 DEF SyncStates

LEMMA StartGood ==
  ASSUME JobInv, NEW force \in BOOLEAN, Start(force) PROVE JobInv'
<1>1. JobTyped /\ Flashed BY DEF JobInv
<1>2. local' = Recovered /\ tmp' = [t \in Texts |-> 0] /\ UNCHANGED <<meta, whole>>
      /\ sync.pc = "idle"
  BY DEF Start, SyncAt
<1>3. local' \in [Assets -> Contents \cup {0}] /\ \A t \in whole : local'[t] # 0
  <2>1. whole \subseteq Texts /\ Texts \subseteq Assets BY <1>1, NoteFacts DEF JobTyped
  <2> QED BY <1>1, <1>2, <2>1 DEF JobTyped, Flashed, Recovered
<1>4. tmp' \in [Texts -> Contents \cup {0}] BY <1>2
<1>5. \/ UNCHANGED <<sync, pause>>
      \/ /\ sync' \in SyncStates /\ sync'.pc = "text" /\ sync'.k = 1 /\ pause' \in BOOLEAN
         /\ sync'.had = {t \in Texts : local'[t] # 0}
  <2> DEFINE had == {t \in Texts : local'[t] # 0}
             needs == had # Texts \/ (~cfg.paired /\ meta # "ready")
             up == cfg.paired /\ (NeedsUpload(FALSE)' \/ needs)
             more == up \/ (force /\ cfg.paired)
             fine == meta = "ready"
  <2>1. \/ UNCHANGED <<sync, pause>>
        \/ /\ sync' = [Resting EXCEPT !.pc = "text", !.had = had, !.ready = fine, !.upload = more]
           /\ pause' = FALSE
    BY Zenon DEF Start
  <2>2. fine \in BOOLEAN /\ more \in BOOLEAN /\ had \in SUBSET Texts OBVIOUS
  <2> HIDE DEF had, needs, up, more, fine
  <2>3. ASSUME sync' = [Resting EXCEPT !.pc = "text", !.had = had, !.ready = fine, !.upload = more]
        PROVE  sync' \in SyncStates /\ sync'.pc = "text" /\ sync'.k = 1 /\ sync'.had = had
    BY <2>2, <2>3, BegunTypes
  <2> QED BY <2>1, <2>3 DEF had
<1>6. sync' \in SyncStates /\ pause' \in BOOLEAN /\ (sync'.pc \in TextSteps => sync'.k \in 1..2)
  <2>1. CASE UNCHANGED <<sync, pause>> BY <1>1, <2>1 DEF JobTyped
  <2>2. CASE sync' \in SyncStates /\ sync'.k = 1 /\ pause' \in BOOLEAN BY <2>2
  <2> QED BY <1>5, <2>1, <2>2
<1>7. JobTyped' BY <1>1, <1>2, <1>3, <1>4, <1>6 DEF JobTyped
<1>8. Flashed' BY <1>1, <1>2, <1>3, <1>5 DEF Flashed, JobTyped
<1> QED BY <1>7, <1>8 DEF JobInv

LEMMA SkipTextGood ==
  ASSUME JobInv, SkipText PROVE JobInv'
<1>1. sync.pc = "text" /\ UNCHANGED <<local, tmp, meta, pause, whole>> /\ sync' = NextText
  BY DEF SkipText, SyncAt, quiet, driveVars
<1>2. JobTyped /\ sync.k \in 1..2 BY <1>1 DEF JobInv, JobTyped, TextSteps
<1>3. /\ sync' \in SyncStates /\ sync'.had = sync.had /\ sync'.pc \in {"text", "all"}
      /\ sync'.pc = "text" => sync'.k \in 1..2
  BY <1>1, <1>2, StepTypes
<1> QED BY <1>1, <1>2, <1>3, TextsSame DEF JobTyped, TextSteps

\* The steps that leave the texts, and only move on.
LEMMA MovesGood ==
  ASSUME JobInv, End \/ Rest \/ Buy \/ Stopped \/ Bought \/ Prepared \/ Deliver \/ Delivered
  PROVE  JobInv'
<1>1. JobTyped BY DEF JobInv
<1>2. UNCHANGED <<local, tmp, whole, pause>>
  BY DEF End, Rest, Buy, Stopped, Bought, Prepared, Deliver, Delivered, UploadNote, quiet,
         driveVars
<1>3. meta' \in {"none", "pending", "ready"}
  BY <1>1 DEF End, Rest, Buy, Stopped, Bought, Prepared, Deliver, Delivered, RecordAi, JobTyped
<1>4. \/ sync' = Resting \/ sync' = Step("end") \/ sync' = Step("sweep")
      \/ sync' = Step("drive") \/ sync' = Step("driving")
      \/ sync.pc = "text" /\ sync' = Step("wait")
      \/ sync.pc = "wait" /\ sync' = Step("write")
  BY DEF End, Rest, Buy, Stopped, Bought, Prepared, Deliver, Delivered, RecordAi, SyncAt
<1>5. sync' \in SyncStates /\ sync'.pc \notin {"text", "written"}
      /\ (sync'.pc \in {"wait", "write"} =>
            sync.pc \in {"text", "wait"} /\ sync'.had = sync.had /\ sync'.k = sync.k)
  BY <1>1, <1>4, StepTypes
<1>6. sync'.pc \in {"wait", "write"} => sync'.k \in 1..2
  BY <1>1, <1>5 DEF JobTyped, TextSteps
<1> QED BY <1>1, <1>2, <1>3, <1>5, <1>6, TextsSame DEF JobTyped, TextSteps

LEMMA WriteTextGood ==
  ASSUME JobInv, WriteText PROVE JobInv'
<1>1. sync.pc = "write" /\ UNCHANGED <<meta, pause>> BY DEF WriteText, SyncAt
<1>2. JobTyped /\ Flashed BY DEF JobInv
<1>3. text \in Texts /\ text \in Assets
  BY <1>1, <1>2, NoteFacts DEF JobTyped, TextSteps, text
<1>4. PICK c \in Contents :
        \/ /\ local' = [local EXCEPT ![text] = c] /\ tmp' = tmp
           /\ whole' = whole \cup {text} /\ sync' = Step("written")
        \/ /\ local' = local /\ tmp' \in {tmp, [tmp EXCEPT ![text] = c]}
           /\ whole' = IF tmp' = tmp THEN whole ELSE whole \cup {text}
           /\ sync' = Step("end")
  BY NoteFacts DEF WriteText, Answers
<1>5. c # 0 /\ c \in Contents \cup {0} BY NoteFacts
<1>6. CASE /\ local' = [local EXCEPT ![text] = c] /\ tmp' = tmp
           /\ whole' = whole \cup {text} /\ sync' = Step("written")
  <2>1. /\ sync' \in SyncStates /\ sync'.pc = "written" /\ sync'.had = sync.had
        /\ sync'.k = sync.k
    BY <1>2, <1>6, StepTypes
  <2>2. text' = text BY <2>1 DEF text
  <2>3. local' \in [Assets -> Contents \cup {0}] BY <1>2, <1>3, <1>5, <1>6 DEF JobTyped
  <2>4. JobTyped' BY <1>1, <1>2, <1>3, <1>6, <2>1, <2>3 DEF JobTyped, TextSteps
  <2>5. \A t \in whole' : local'[t] # 0 \/ tmp'[t] # 0
    BY <1>2, <1>3, <1>5, <1>6, NoteFacts DEF JobTyped, Flashed
  <2>6. Flashed' BY <1>1, <1>2, <1>6, <2>1, <2>2, <2>5 DEF Flashed
  <2> QED BY <2>4, <2>6 DEF JobInv
<1>7. CASE /\ local' = local /\ tmp' \in {tmp, [tmp EXCEPT ![text] = c]}
           /\ whole' = IF tmp' = tmp THEN whole ELSE whole \cup {text}
           /\ sync' = Step("end")
  <2>1. sync' \in SyncStates /\ sync'.pc = "end" BY <1>2, <1>7, StepTypes
  <2>2. tmp' \in [Texts -> Contents \cup {0}] /\ whole' \subseteq Texts
    BY <1>2, <1>3, <1>5, <1>7 DEF JobTyped
  <2>3. JobTyped' BY <1>1, <1>2, <1>7, <2>1, <2>2 DEF JobTyped, TextSteps
  <2>4. \A t \in whole' : local'[t] # 0 \/ tmp'[t] # 0
    <3>1. CASE tmp' = tmp BY <1>2, <1>7, <3>1 DEF Flashed
    <3>2. CASE tmp' = [tmp EXCEPT ![text] = c] /\ whole' = whole \cup {text}
      BY <1>2, <1>3, <1>5, <1>7, <3>2 DEF JobTyped, Flashed
    <3> QED BY <1>7, <3>1, <3>2
  <2>5. Flashed' BY <2>1, <2>4 DEF Flashed
  <2> QED BY <2>3, <2>5 DEF JobInv
<1> QED BY <1>4, <1>6, <1>7

LEMMA WrittenGood ==
  ASSUME JobInv, Written PROVE JobInv'
<1>1. sync.pc = "written" /\ UNCHANGED <<local, tmp, pause, whole>> BY DEF Written, SyncAt
<1>2. JobTyped /\ Flashed /\ sync.k \in 1..2 BY <1>1 DEF JobInv, JobTyped, TextSteps
<1>3. text \in Texts BY <1>2, NoteFacts DEF text
<1>4. meta' \in {"none", "pending", "ready"} BY <1>2 DEF Written, RecordAi, JobTyped
<1>5. \/ sync' = Step("end")
      \/ sync' = [NextText EXCEPT !.had = @ \cup {text}, !.ready = FALSE]
  BY DEF Written, RecordAi
<1>6. CASE sync' = Step("end")
  <2>1. sync' \in SyncStates /\ sync'.pc = "end" BY <1>2, <1>6, StepTypes
  <2> QED BY <1>1, <1>2, <1>4, <2>1, TextsSame DEF JobTyped, TextSteps
<1>7. CASE sync' = [NextText EXCEPT !.had = @ \cup {text}, !.ready = FALSE]
  <2>1. /\ sync' \in SyncStates /\ sync'.pc \in {"text", "all"} /\ sync'.had = sync.had \cup {text}
        /\ sync'.pc = "text" => sync'.k \in 1..2
    <3>1. NextText.had \cup {text} \in SUBSET Texts BY <1>2, <1>3, StepTypes DEF SyncStates
    <3> QED BY <1>2, <1>7, <3>1, StepTypes DEF SyncStates
  <2>2. JobTyped' BY <1>1, <1>2, <1>4, <2>1 DEF JobTyped, TextSteps
  <2>3. Flashed' BY <1>1, <1>2, <2>1 DEF Flashed
  <2> QED BY <2>2, <2>3 DEF JobInv
<1> QED BY <1>5, <1>6, <1>7

LEMMA DamageGood ==
  ASSUME JobInv, Damage PROVE JobInv'
<1>1. UNCHANGED <<tmp, meta, sync, pause>> BY DEF Damage
<1>2. PICK t \in Texts : local' = [local EXCEPT ![t] = 0] /\ whole' = whole \ {t}
  BY DEF Damage
<1>3. JobTyped' BY <1>1, <1>2, NoteFacts DEF JobInv, JobTyped
<1>4. \A x \in whole' : local'[x] = local[x]
  BY <1>2, NoteFacts DEF JobInv, JobTyped
<1>5. Flashed' BY <1>1, <1>2, <1>4 DEF JobInv, Flashed, text
<1> QED BY <1>3, <1>5 DEF JobInv

LEMMA PowerLossGood ==
  ASSUME JobInv, PowerLoss PROVE JobInv'
<1>1. UNCHANGED <<local, tmp, meta, whole>> /\ sync' = Resting /\ pause' = FALSE
  BY DEF PowerLoss, Crash
<1>2. JobTyped BY DEF JobInv
<1> QED BY <1>1, <1>2, StepTypes, TextsSame DEF JobTyped, TextSteps
-----------------------------------------------------------------------------
(* The records of a job.                                                     *)

LEMMA OrderFacts ==
  /\ Len(Order) \in Nat \ {0} /\ DOMAIN Order = 1..Len(Order) /\ 1 \in DOMAIN Order
  /\ \A k \in DOMAIN Order : Order[k] \in Assets
  /\ \A a \in Assets : \E k \in DOMAIN Order : Order[k] = a
  /\ \A j, k \in DOMAIN Order : Order[j] = Order[k] => j = k
<1>1. Order \in Seq(Assets) /\ Order # <<>> BY DriveAssumption
<1>2. Len(Order) \in Nat \ {0} /\ DOMAIN Order = 1..Len(Order) BY <1>1
<1> QED BY <1>2, DriveAssumption DEF Assets

LEMMA ContentFacts ==
  /\ Contents \subseteq Nat \ {0} /\ Mixed \in Nat \ {0} /\ Has \subseteq Nat
<1>1. Cardinality(Contents) \in Nat BY DriveAssumption, FS_CardinalityType
<1> QED BY <1>1, DriveAssumption DEF Mixed, Has

LEMMA BlankTypes ==
  /\ NoAsset \in AssetRecords /\ Blank \in Records /\ Idle \in JobStates /\ Idle.pc = "idle"
  /\ NoSession \in Sessions /\ NoFile \in FileRecords
<1>1. 0 \in 0..MaxId /\ MaxId \in Nat BY DriveAssumption
<1>2. NoAsset \in AssetRecords BY <1>1 DEF NoAsset, AssetRecords
<1>3. [a \in Assets |-> NoAsset] \in [Assets -> AssetRecords] BY <1>2
<1>4. Blank \in Records BY <1>1, <1>3 DEF Blank, Records
<1>5. [a \in Assets |-> "unknown"] \in [Assets -> Verdicts] BY DEF Verdicts
<1>6. Idle \in JobStates /\ Idle.pc = "idle" BY <1>5, OrderFacts DEF Idle, JobStates
<1>7. NoSession \in Sessions BY <1>1 DEF NoSession, Sessions
<1>8. NoFile \in FileRecords BY <1>1, OrderFacts DEF NoFile, FileRecords, Has
<1> QED BY <1>2, <1>4, <1>6, <1>7, <1>8

-----------------------------------------------------------------------------
(* The record on flash is replaced.                                          *)

\* The file a keeps its id; or gives up one that nothing on Drive needs; or
\* takes one that nothing else has.
SameId(d, s, a) ==
  /\ s.of[a].id = d.of[a].id
  /\ s.of[a].ses => d.of[a].ses \/ (s.of[a].id # 0 /\ sess[a].id = s.of[a].id)
  /\ ~s.of[a].res => ~d.of[a].res \/ There(d.of[a].id)
NoId(s, a) ==
  s.of[a].id = 0 /\ ~s.of[a].ses /\ \A x \in Ids : ~Claimed(x, a, cfg.gen)
NewId(d, s, a) ==
  LET x == s.of[a].id
  IN  /\ d.of[a].id = 0 /\ x # 0 /\ x <= given /\ x \notin dirs /\ x # d.pend /\ ~s.of[a].ses
      /\ There(x) => files[x].of = a
      /\ \A r \in late : r.id = x => Creates(r) /\ r.file.of = a
      /\ ~s.of[a].res => There(x)
      /\ \A b \in Assets : s.of[b].id = x => a = b

\* The folder's id is one that nothing else has.
NewFolder(s) ==
  /\ s.pend <= given /\ \A x \in Ids : There(x) => x # s.pend
  /\ \A r \in late : Creates(r) => r.id # s.pend
  /\ \A a \in Assets : s.of[a].id # 0 => s.of[a].id # s.pend

\* The record s may follow d.
Fits(d, s) ==
  /\ s \in Records
  /\ \/ s.gen = d.gen
     \/ s.gen = cfg.gen /\ \A x \in Ids, a \in Assets : ~Claimed(x, a, cfg.gen)
  /\ s.dir \in dirs \cup moved \cup {0}
  /\ s.pend \in {0, d.pend} \/ NewFolder(s)
  /\ \A r \in late : ~Creates(r) /\ cfg.paired => r.id \in moved \cup dirs \cup {s.pend}
  /\ \A a \in Assets : SameId(d, s, a) \/ NoId(s, a) \/ NewId(d, s, a)

LEMMA KeptAnew ==
  ASSUME DriveTyped', NEW d \in Records, NEW s, Kept(d)', Fits(d, s)' PROVE Kept(s)'
<1>1. /\ cfg' \in Settings /\ files' \in [Ids -> FileRecords] /\ late' \subseteq Requests
      /\ dirs' \subseteq Ids /\ moved' \subseteq Ids /\ given' \in 0..MaxId /\ MaxId \in Nat
  BY DriveAssumption DEF DriveTyped, RemoteTyped
<1>2. s \in Records /\ s.of \in [Assets -> AssetRecords] /\ d.of \in [Assets -> AssetRecords]
  BY DEF Fits, Records
<1>3. /\ \A a \in Assets : s.of[a].id \in 0..MaxId /\ d.of[a].id \in 0..MaxId
      /\ s.pend \in 0..MaxId /\ d.pend \in 0..MaxId /\ s.gen \in Nat /\ d.gen \in Nat
  BY <1>2 DEF Records, AssetRecords
<1>4. Numbered(d)' /\ Foldered(d)' /\ Owned(d)' /\ Tracked(d)' BY DEF Kept
<1>5. \A r \in late' : r.id \in Ids BY <1>1 DEF Requests
<1>6. \A a \in Assets : \/ s.of[a].id = d.of[a].id
                        \/ s.of[a].id = 0
                        \/ NewId(d, s, a)'
  <2>1. \A a \in Assets : SameId(d, s, a)' \/ NoId(s, a)' \/ NewId(d, s, a)' BY DEF Fits
  <2>2. \A a \in Assets : SameId(d, s, a)' => s.of[a].id = d.of[a].id BY DEF SameId
  <2>3. \A a \in Assets : NoId(s, a)' => s.of[a].id = 0 BY DEF NoId
  <2> QED BY <2>1, <2>2, <2>3
<1>7. s.pend \in {0, d.pend} \/ NewFolder(s)' BY DEF Fits
<1>8. Numbered(s)'
  <2>1. \A a \in Assets : /\ s.of[a].id <= given'
                          /\ s.of[a].id # 0 => s.of[a].id \notin dirs' /\ s.of[a].id # s.pend
                          /\ \A r \in late' : ~Creates(r)' => s.of[a].id # r.id
    <3>1. \A a \in Assets : /\ s.of[a].id <= given'
                            /\ s.of[a].id # 0 => s.of[a].id \notin dirs' /\ s.of[a].id # d.pend
                            /\ \A r \in late' : ~Creates(r)' => s.of[a].id # r.id
      BY <1>1, <1>3, <1>4, <1>5, <1>6 DEF Numbered, NewId, Ids
    <3> QED BY <1>3, <1>7, <3>1 DEF NewFolder
  <2>2. /\ dirs' \subseteq 1..given' /\ moved' \subseteq 1..given' /\ s.pend <= given'
        /\ \A r \in late' : r.id <= given'
        /\ \A x \in Ids : There(x)' => x <= given' /\ x \notin dirs' /\ x # s.pend
        /\ \A r \in late' : IF Creates(r)' THEN r.id \notin dirs' /\ r.id # s.pend
                            ELSE ~There(r.id)'
        /\ \A r, q \in late' : Creates(r)' /\ ~Creates(q)' => r.id # q.id
    BY <1>1, <1>3, <1>4, <1>5, <1>7 DEF Numbered, NewFolder, Ids
  <2> QED BY <2>1, <2>2 DEF Numbered
<1>9. Foldered(s)'
  BY <1>3, <1>4 DEF Foldered, Fits
<1>10. Owned(s)'
  <2>1. ASSUME NEW a \in Assets, NEW b \in Assets, s.of[a].id = s.of[b].id, s.of[a].id # 0
        PROVE  a = b
    BY <1>4, <1>6, <2>1 DEF Owned, NewId
  <2>2. ASSUME NEW a \in Assets, s.of[a].id # 0
        PROVE  /\ There(s.of[a].id)' => files'[s.of[a].id].of = a
               /\ \A r \in late' : Creates(r)' /\ r.id = s.of[a].id => r.file.of = a
               /\ ~s.of[a].res => There(s.of[a].id)'
    <3>1. CASE SameId(d, s, a)'
      <4>1. s.of[a].id = d.of[a].id BY <3>1 DEF SameId
      <4>2. ~s.of[a].res => ~d.of[a].res \/ There(s.of[a].id)' BY <3>1, <4>1 DEF SameId
      <4>3. /\ There(s.of[a].id)' => files'[s.of[a].id].of = a
            /\ \A r \in late' : Creates(r)' /\ r.id = s.of[a].id => r.file.of = a
            /\ ~d.of[a].res => There(s.of[a].id)'
        BY <1>4, <2>2, <4>1 DEF Owned
      <4> QED BY <4>2, <4>3
    <3>2. CASE NewId(d, s, a)' BY <3>2 DEF NewId
    <3> QED BY <2>2, <3>1, <3>2 DEF Fits, NoId
  <2>3. ASSUME NEW a \in Assets, s.of[a].ses
        PROVE  s.of[a].id # 0 /\ sess'[a].id = s.of[a].id
    <3>1. SameId(d, s, a)' BY <2>3 DEF Fits, NoId, NewId
    <3>2. /\ s.of[a].id = d.of[a].id
          /\ d.of[a].ses \/ (s.of[a].id # 0 /\ sess'[a].id = s.of[a].id)
      BY <2>3, <3>1 DEF SameId
    <3> QED BY <1>4, <3>2 DEF Owned
  <2>4. /\ \A r \in late' : Creates(r)' /\ There(r.id)' => files'[r.id].of = r.file.of
        /\ \A r, q \in late' : Creates(r)' /\ Creates(q)' /\ r.id = q.id => r.file.of = q.file.of
    BY <1>4 DEF Owned
  <2> QED BY <2>1, <2>2, <2>3, <2>4 DEF Owned
<1>11. Tracked(s)'
  <2>1. ASSUME NEW x \in Ids, NEW a \in Assets, Claimed(x, a, cfg.gen)'
        PROVE  s.gen = cfg.gen' /\ s.of[a].id = x
    <3>1. d.gen = cfg'.gen /\ d.of[a].id = x /\ x # 0 BY <1>4, <2>1 DEF Tracked, Ids
    <3>2. s.gen = cfg'.gen BY <3>1 DEF Fits
    <3>3. ~NoId(s, a)' BY <2>1 DEF NoId
    <3>4. ~NewId(d, s, a)' BY <3>1 DEF NewId
    <3>5. SameId(d, s, a)' BY <3>3, <3>4 DEF Fits
    <3>6. s.of[a].id = x BY <3>1, <3>5 DEF SameId
    <3> QED BY <3>2, <3>6
  <2>2. /\ \A x, y \in Ids, a \in Assets, g \in Nat :
             Claimed(x, a, g)' /\ Claimed(y, a, g)' => x = y
        /\ \A x \in Ids, a \in Assets, g \in Nat : Claimed(x, a, g)' => g <= cfg'.gen
    BY <1>4 DEF Tracked
  <2>3. s.gen <= cfg'.gen BY <1>1, <1>4 DEF Fits, Tracked, Settings
  <2> QED BY <2>1, <2>2, <2>3 DEF Tracked
<1> QED BY <1>8, <1>9, <1>10, <1>11 DEF Kept

\* A step of the job in which the record d is replaced by s: the job goes on with
\* it in the place j, or ends and one of them is on flash.
LEMMA StepGood ==
  ASSUME local' \in [Assets -> Contents \cup {0}], cfg' \in Settings, RemoteTyped',
         NEW d \in Records, NEW s, Kept(d)', Fits(d, s)', ~s.full, NEW j \in JobStates,
         \/ /\ disk' = s /\ st' = s /\ job' = j /\ Placed(s, j)'
            /\ \A k \in Passed(j) : Good(s, Order[k])'
         \/ /\ job' = Idle /\ st' = Blank /\ disk' \in {d, s}
            /\ d.full /\ d.gen = cfg'.gen => \A a \in Assets : Good(d, a)'
  PROVE  DriveInv'
<1>1. s \in Records BY DEF Fits
<1>2. disk' \in {d, s} /\ st' \in Records /\ job' \in JobStates BY <1>1, BlankTypes
<1>3. DriveTyped' BY <1>1, <1>2 DEF DriveTyped
<1>4. Kept(s)' BY <1>3, KeptAnew
<1>5. Kept(disk)' BY <1>2, <1>4
<1>6. Working'
  <2>1. CASE job' = Idle BY <2>1, BlankTypes DEF Working
  <2>2. CASE disk' = s /\ st' = s /\ job' = j /\ Placed(s, j)' BY <2>2 DEF Working
  <2> QED BY <2>1, <2>2
<1>7. Verified'
  <2>1. CASE disk' = s /\ job' = j /\ \A k \in Passed(j) : Good(s, Order[k])'
    BY <2>1 DEF Verified, Passed
  <2>2. CASE /\ job' = Idle /\ disk' \in {d, s}
             /\ d.full /\ d.gen = cfg'.gen => \A a \in Assets : Good(d, a)'
    <3>1. Passed(job)' = {} BY <2>2, BlankTypes DEF Passed, UploadSteps
    <3>2. disk'.full /\ disk'.gen = cfg'.gen => \A a \in Assets : Good(disk, a)' BY <2>2
    <3> QED BY <3>1, <3>2 DEF Verified
  <2> QED BY <2>1, <2>2
<1> QED BY <1>3, <1>5, <1>6, <1>7 DEF DriveInv

\* What the job works on, as the steps use it.
LEMMA Facts ==
  ASSUME DriveInv, job.pc # "idle"
  PROVE  /\ st = disk /\ st \in Records /\ ~st.full /\ st.gen = cfg.gen /\ cfg.paired
         /\ job \in JobStates /\ job.i \in DOMAIN Order /\ here \in Assets
         /\ mine \in AssetRecords /\ mine = disk.of[here] /\ Placed(st, job) /\ Kept(st)
         /\ \A k \in Passed(job) : Good(st, Order[k])
<1>1. st = disk /\ st \in Records /\ Placed(st, job) /\ job \in JobStates
  BY DEF DriveInv, Working, DriveTyped
<1>2. job.i \in DOMAIN Order BY <1>1 DEF JobStates
<1>3. here \in Assets BY <1>2, OrderFacts DEF here
<1>4. mine \in AssetRecords /\ mine = disk.of[here] BY <1>1, <1>3 DEF mine, Records
<1> QED BY <1>1, <1>2, <1>3, <1>4 DEF Placed, DriveInv, Verified

\* The record s has the ids of d.
Keeps(d, s) ==
  /\ s \in Records /\ ~s.full /\ s.gen = d.gen /\ s.dir = d.dir /\ s.pend = d.pend
  /\ \A a \in Assets : SameId(d, s, a) /\ s.of[a].want = d.of[a].want

LEMMA KeepsFits ==
  ASSUME NEW d \in Records, NEW s, Kept(d)', Keeps(d, s)'
  PROVE  Fits(d, s)' /\ \A a \in Assets : Good(d, a)' => Good(s, a)'
<1>1. Fits(d, s)' BY DEF Keeps, Fits, Kept, Foldered
<1>2. ASSUME NEW a \in Assets, Good(d, a)' PROVE Good(s, a)'
  <2>1. s.of[a].id = d.of[a].id /\ s.of[a].want = d.of[a].want BY DEF Keeps, SameId
  <2> QED BY <1>2, <2>1 DEF Good
<1> QED BY <1>1, <1>2

LEMMA SameRemote ==
  ASSUME UNCHANGED <<cfg, remote>>, RemoteTyped, NEW d
  PROVE  /\ RemoteTyped'
         /\ Kept(d) => Kept(d)'
         /\ \A a : Good(d, a)' <=> Good(d, a)
<1>1. UNCHANGED <<cfg, files, dirs, sess, late, given, moved>> BY DEF remote
<1>2. \A x, a, g : Claimed(x, a, g)' <=> Claimed(x, a, g) BY <1>1 DEF Claimed, There, Away
<1>3. Kept(d) => Numbered(d)' /\ Foldered(d)' /\ Owned(d)'
  BY <1>1 DEF Kept, Numbered, Foldered, Owned, There
<1>4. Kept(d) => Tracked(d)' BY <1>1, <1>2 DEF Kept, Tracked
<1>5. RemoteTyped' BY <1>1 DEF RemoteTyped
<1>6. \A a : Good(d, a)' <=> Good(d, a) BY <1>1 DEF Good, Away
<1> QED BY <1>3, <1>4, <1>5, <1>6 DEF Kept

\* A step of the job that leaves Drive alone.
LEMMA LocalStep ==
  ASSUME DriveInv, job.pc # "idle", UNCHANGED <<local, cfg, remote>>,
         NEW s, Keeps(st, s), NEW j \in JobStates,
         \/ /\ disk' = s /\ st' = s /\ job' = j /\ Placed(s, j)
            /\ \A k \in Passed(j) : Good(s, Order[k])
         \/ job' = Idle /\ st' = Blank /\ disk' \in {disk, s}
  PROVE  DriveInv'
<1>1. UNCHANGED <<local, cfg, files, dirs, sess, late, given, moved>> BY DEF remote
<1>2. PICK d : d = disk OBVIOUS
<1>3. /\ d \in Records /\ ~d.full /\ st = d /\ local \in [Assets -> Contents \cup {0}]
      /\ cfg \in Settings /\ RemoteTyped /\ Kept(d)
  BY <1>2, Facts DEF DriveInv, DriveTyped
<1>4. RemoteTyped' /\ Kept(d)' BY <1>1, <1>3, SameRemote
<1>5. Keeps(d, s)' BY <1>1, <1>3 DEF Keeps, SameId, There
<1>6. Fits(d, s)' /\ ~s.full BY <1>3, <1>4, <1>5, KeepsFits DEF Keeps
<1>7. CASE /\ disk' = s /\ st' = s /\ job' = j /\ Placed(s, j)
           /\ \A k \in Passed(j) : Good(s, Order[k])
  <2>1. Placed(s, j)' BY <1>1, <1>7 DEF Placed
  <2>2. \A k \in Passed(j) : Good(s, Order[k])' BY <1>3, <1>7, SameRemote
  <2> QED BY <1>1, <1>3, <1>4, <1>6, <1>7, <2>1, <2>2, StepGood
<1>8. CASE job' = Idle /\ st' = Blank /\ disk' \in {disk, s}
  BY <1>1, <1>2, <1>3, <1>4, <1>6, <1>8, StepGood
<1> QED BY <1>7, <1>8

LEMMA PersistGood ==
  ASSUME DriveInv, job.pc # "idle", UNCHANGED <<local, cfg, remote>>,
         NEW s, Keeps(st, s), NEW j \in JobStates, NEW c, Persist(s, j, c),
         Placed(s, j), \A k \in Passed(j) : Good(s, Order[k])
  PROVE  DriveInv'
BY LocalStep DEF Persist, Stop

LEMMA GotoGood ==
  ASSUME DriveInv, job.pc # "idle", UNCHANGED <<local, cfg, remote>>,
         NEW j \in JobStates, NEW c, Goto(j, c), Placed(st, j),
         \A k \in Passed(j) : Good(st, Order[k])
  PROVE  DriveInv'
<1>1. st = disk /\ st \in Records /\ ~st.full BY Facts
<1>2. Keeps(st, st) BY <1>1 DEF Keeps, SameId
<1> QED BY <1>1, <1>2, LocalStep DEF Goto

\* The record s, not delivered.
Pended(s) == [s EXCEPT !.full = FALSE]

LEMMA PendedFacts ==
  ASSUME NEW s \in Records
  PROVE  /\ Pended(s) \in Records /\ Pended(s).full = FALSE /\ Pended(s).gen = s.gen
         /\ Pended(s).dir = s.dir /\ Pended(s).pend = s.pend /\ Pended(s).of = s.of
         /\ ~s.full => Pended(s) = s
<1>1. /\ Pended(s) \in Records /\ Pended(s).full = FALSE /\ Pended(s).gen = s.gen
      /\ Pended(s).dir = s.dir /\ Pended(s).pend = s.pend /\ Pended(s).of = s.of
  BY DEF Pended, Records
<1>2. ASSUME ~s.full PROVE Pended(s) = s
  <2>1. s.full = FALSE BY <1>2 DEF Records
  <2> QED BY <2>1 DEF Pended, Records
<1> QED BY <1>1, <1>2

LEMMA ErrorGood ==
  ASSUME DriveInv, job.pc # "idle", UNCHANGED <<local, cfg, remote>>,
         NEW s, Keeps(st, s), NEW c, Error(s, c)
  PROVE  DriveInv'
<1>1. Pended(s) = s BY PendedFacts DEF Keeps
<1>2. job' = Idle /\ st' = Blank /\ disk' \in {disk, s} BY <1>1 DEF Error, Stop, Pended
<1>3. Idle \in JobStates BY BlankTypes
<1> QED BY <1>2, <1>3, LocalStep

LEMMA StKeeps == ASSUME DriveInv, job.pc # "idle" PROVE Keeps(st, st)
<1>1. st \in Records /\ ~st.full BY Facts
<1> QED BY <1>1 DEF Keeps, SameId

\* The record of the job with another entry for the file a.
LEMMA WithFacts ==
  ASSUME DriveInv, job.pc # "idle", NEW a \in Assets, NEW r \in AssetRecords
  PROVE  /\ With(a, r) \in Records /\ With(a, r).of[a] = r /\ ~With(a, r).full
         /\ With(a, r).gen = st.gen /\ With(a, r).dir = st.dir /\ With(a, r).pend = st.pend
         /\ \A b \in Assets : b # a => With(a, r).of[b] = st.of[b]
<1>1. st \in Records /\ ~st.full BY Facts
<1>2. /\ st.of \in [Assets -> AssetRecords] BY <1>1 DEF Records
<1>3. With(a, r) \in Records BY <1>1, <1>2 DEF With, Records
<1>4. /\ With(a, r).of[a] = r /\ \A b \in Assets : b # a => With(a, r).of[b] = st.of[b]
      /\ With(a, r).gen = st.gen /\ With(a, r).dir = st.dir /\ With(a, r).pend = st.pend
      /\ With(a, r).full = st.full
  BY <1>1, <1>2 DEF With, Records
<1> QED BY <1>1, <1>3, <1>4

LEMMA WithKeeps ==
  ASSUME DriveInv, job.pc # "idle", NEW a \in Assets, NEW r \in AssetRecords,
         r.id = st.of[a].id, r.want = st.of[a].want, r.ses => st.of[a].ses,
         ~r.res => ~st.of[a].res \/ There(st.of[a].id)
  PROVE  Keeps(st, With(a, r))
<1>1. \A b \in Assets : SameId(st, With(a, r), b) /\ With(a, r).of[b].want = st.of[b].want
  BY WithFacts DEF SameId
<1> QED BY <1>1, WithFacts DEF Keeps

\* The entries that the job writes while it uploads a file.
LEMMA EntryFacts ==
  ASSUME NEW r \in AssetRecords, NEW n \in Nat
  PROVE  /\ NotUp(r) \in AssetRecords /\ Restarted(r) \in AssetRecords
         /\ NotUp(r).id = r.id /\ NotUp(r).want = r.want /\ NotUp(r).ses = r.ses
         /\ NotUp(r).res = r.res /\ Restarted(r).id = r.id /\ Restarted(r).want = r.want
         /\ ~Restarted(r).ses /\ Restarted(r).res = r.res
         /\ [r EXCEPT !.off = n] \in AssetRecords /\ [r EXCEPT !.off = n].id = r.id
         /\ [r EXCEPT !.off = n].want = r.want /\ [r EXCEPT !.off = n].ses = r.ses
         /\ [r EXCEPT !.off = n].res = r.res
BY DEF NotUp, Restarted, AssetRecords

LEMMA EntriesKeep ==
  ASSUME DriveInv, job.pc # "idle", NEW n \in Nat
  PROVE  /\ Keeps(st, With(here, NotUp(mine))) /\ Keeps(st, With(here, Restarted(mine)))
         /\ Keeps(st, With(here, [mine EXCEPT !.off = n]))
<1>1. here \in Assets /\ mine \in AssetRecords /\ mine = st.of[here] BY Facts DEF mine
<1>2. ASSUME NEW r \in AssetRecords, r.id = mine.id, r.want = mine.want, r.ses => mine.ses,
             r.res = mine.res
      PROVE  Keeps(st, With(here, r))
  BY <1>1, <1>2, WithKeeps
<1>3. Keeps(st, With(here, NotUp(mine))) BY <1>1, <1>2, EntryFacts
<1>4. Keeps(st, With(here, Restarted(mine)))
  <2>1. /\ Restarted(mine) \in AssetRecords /\ ~Restarted(mine).ses
        /\ Restarted(mine).id = mine.id /\ Restarted(mine).want = mine.want
        /\ Restarted(mine).res = mine.res
    BY <1>1, EntryFacts
  <2> QED BY <1>2, <2>1
<1>5. Keeps(st, With(here, [mine EXCEPT !.off = n]))
  <2> DEFINE r == [mine EXCEPT !.off = n]
  <2>1. /\ r \in AssetRecords /\ r.ses = mine.ses /\ r.id = mine.id /\ r.want = mine.want
        /\ r.res = mine.res
    BY <1>1, EntryFacts
  <2> HIDE DEF r
  <2>2. Keeps(st, With(here, r)) BY <1>2, <2>1
  <2> QED BY <2>2 DEF r
<1> QED BY <1>3, <1>4, <1>5

\* The file that is uploaded goes on to another place, with the record s, while
\* Drive takes it or not.
Onward == UploadSteps \ {"upload", "final"}

LEMMA OnwardStep ==
  ASSUME DriveInv, job.pc \in UploadSteps \ {"final"}, UNCHANGED <<local, cfg>>, RemoteTyped',
         NEW d, d = disk, Kept(d)', \A a \in Assets : a # here /\ Good(d, a) => Good(d, a)',
         NEW s, Keeps(d, s)', NEW j \in JobStates, j.pc \in Onward, j.i = job.i, NEW c,
         job.pc = "upload" => mine.want # 0, j.pc \in {"chunk", "probe"} => s.of[here].ses,
         Persist(s, j, c) \/ (s = st /\ Goto(j, c))
  PROVE  DriveInv'
<1>1. job.pc # "idle" BY DEF UploadSteps
<1>2. /\ Placed(st, job) /\ here \in Assets /\ job \in JobStates /\ job.i \in Nat
      /\ \A k \in Passed(job) : Good(st, Order[k])
      /\ d \in Records /\ ~d.full /\ st = d /\ cfg.paired /\ job.i \in DOMAIN Order
      /\ local \in [Assets -> Contents \cup {0}] /\ cfg \in Settings
  BY <1>1, Facts, OrderFacts DEF JobStates, DriveInv, DriveTyped
<1>3. \A a \in Assets : s.of[a].id = d.of[a].id /\ s.of[a].want = d.of[a].want
  BY DEF Keeps, SameId
<1>4. Placed(s, j)'
  <2>1. s.gen = cfg.gen /\ cfg.paired /\ ~s.full /\ s.dir = cfg.dir /\ s.dir # 0
    BY <1>2 DEF Placed, Keeps
  <2>2. \A a \in Assets : s.of[a].want # 0 => s.of[a].id # 0 BY <1>2, <1>3 DEF Placed
  <2>3. s.of[Order[j.i]].want # 0
    BY <1>2, <1>3 DEF Placed, here, mine
  <2>4. j.pc \in {"chunk", "probe"} => s.of[Order[j.i]].ses BY DEF here
  <2>5. j.pc \notin {"mkdir", "ids"} BY DEF Onward, UploadSteps
  <2> QED BY <2>1, <2>2, <2>3, <2>4, <2>5 DEF Placed
<1>5. Fits(d, s)' /\ ~s.full /\ \A a \in Assets : Good(d, a)' => Good(s, a)'
  BY <1>2, KeepsFits DEF Keeps
<1>6. \A k \in Passed(j) : Good(s, Order[k])'
  <2>1. Passed(j) = 1..(job.i - 1) /\ Passed(job) = 1..(job.i - 1)
    BY DEF Passed, Onward, UploadSteps
  <2>2. \A k \in 1..(job.i - 1) : k \in DOMAIN Order /\ Order[k] \in Assets /\ k # job.i
    BY <1>2, OrderFacts
  <2>3. \A k \in 1..(job.i - 1) : Order[k] # here BY <1>2, <2>2, OrderFacts DEF here
  <2> QED BY <1>2, <1>5, <2>1, <2>2, <2>3
<1>7. \/ disk' = s /\ st' = s /\ job' = j
      \/ job' = Idle /\ st' = Blank /\ disk' \in {d, s}
  BY <1>2 DEF Persist, Goto, Stop
<1> QED BY <1>2, <1>4, <1>5, <1>6, <1>7, StepGood

\* The same when Drive is not touched.
LEMMA OnwardGood ==
  ASSUME DriveInv, job.pc \in UploadSteps \ {"final"}, UNCHANGED <<local, cfg, remote>>,
         NEW s, Keeps(st, s), NEW j \in JobStates, j.pc \in Onward, j.i = job.i, NEW c,
         job.pc = "upload" => mine.want # 0, j.pc \in {"chunk", "probe"} => s.of[here].ses,
         Persist(s, j, c) \/ (s = st /\ Goto(j, c))
  PROVE  DriveInv'
<1>1. PICK d : d = disk OBVIOUS
<1>2. job.pc # "idle" BY DEF UploadSteps
<1>3. RemoteTyped /\ Kept(d) /\ st = d BY <1>1, <1>2, Facts DEF DriveInv, DriveTyped
<1>4. RemoteTyped' /\ Kept(d)' /\ \A a : Good(d, a)' <=> Good(d, a) BY <1>3, SameRemote
<1>5. Keeps(d, s)' BY <1>3 DEF Keeps, SameId, There, remote
<1> QED BY <1>1, <1>4, <1>5, OnwardStep

\* complete() before it asks: every byte is confirmed.
Completed(s) == [s EXCEPT !.of[here].up = FALSE, !.of[here].off = Blocks]

LEMMA CompletedKeeps ==
  ASSUME DriveInv, job.pc # "idle", NEW s, Keeps(st, s)
  PROVE  Keeps(st, Completed(s))
<1>1. s \in Records /\ s.of \in [Assets -> AssetRecords] /\ here \in Assets
  BY Facts DEF Keeps, Records
<1>2. PICK r : r = [[s.of[here] EXCEPT !.up = FALSE] EXCEPT !.off = Blocks] OBVIOUS
<1>3. s.of[here] \in AssetRecords /\ Blocks \in Nat BY <1>1, DriveAssumption
<1>4. /\ r \in AssetRecords /\ r.id = s.of[here].id /\ r.want = s.of[here].want
      /\ r.ses = s.of[here].ses /\ r.res = s.of[here].res
  BY <1>2, <1>3 DEF AssetRecords
<1>5. Completed(s) = [s EXCEPT !.of = [@ EXCEPT ![here] = r]]
  BY <1>1, <1>2 DEF Completed, Records
<1>6. /\ Completed(s) \in Records /\ Completed(s).of[here] = r
      /\ \A b \in Assets : b # here => Completed(s).of[b] = s.of[b]
      /\ Completed(s).full = s.full /\ Completed(s).gen = s.gen /\ Completed(s).dir = s.dir
      /\ Completed(s).pend = s.pend
  BY <1>1, <1>4, <1>5 DEF Records
<1>7. \A b \in Assets : SameId(st, s, b) /\ s.of[b].want = st.of[b].want BY DEF Keeps
<1>8. \A b \in Assets : SameId(st, Completed(s), b) /\ Completed(s).of[b].want = st.of[b].want
  <2> TAKE b \in Assets
  <2>1. CASE b = here BY <1>4, <1>6, <1>7, <2>1 DEF SameId
  <2>2. CASE b # here BY <1>6, <1>7, <2>2 DEF SameId
  <2> QED BY <2>1, <2>2
<1> QED BY <1>6, <1>8 DEF Keeps

LEMMA CompletingGood ==
  ASSUME DriveInv, job.pc \in UploadSteps \ {"final"}, UNCHANGED <<local, cfg, remote>>,
         NEW s, Keeps(st, s), NEW c, job.pc = "upload" => mine.want # 0, Completing(s, c)
  PROVE  DriveInv'
<1> DEFINE j == [job EXCEPT !.pc = "verify"]
<1>1. job.pc # "idle" BY DEF UploadSteps
<1>2. j \in JobStates /\ j.i = job.i /\ j.pc = "verify"
  BY <1>1, Facts DEF JobStates, UploadSteps
<1>3. Persist(Completed(s), j, c) BY DEF Completing, Completed
<1>4. Keeps(st, Completed(s)) BY <1>1, CompletedKeeps
<1> HIDE DEF j
<1> QED BY <1>2, <1>3, <1>4, OnwardGood DEF Onward, UploadSteps

LEMMA AdvanceFacts ==
  ASSUME NEW j \in JobStates, NEW pc \in {"ids", "final"}
  PROVE  /\ Advance(j, pc) \in JobStates
         /\ \/ j.i < Len(Order) /\ Advance(j, pc).i = j.i + 1 /\ Advance(j, pc).pc = j.pc
            \/ j.i = Len(Order) /\ Advance(j, pc).i = 1 /\ Advance(j, pc).pc = pc
<1>1. j.i \in DOMAIN Order /\ j.i \in 1..Len(Order) /\ Len(Order) \in Nat \ {0}
  BY OrderFacts DEF JobStates
<1>2. CASE j.i < Len(Order)
  <2>1. Advance(j, pc) = [j EXCEPT !.i = @ + 1] BY <1>2 DEF Advance
  <2>2. j.i + 1 \in DOMAIN Order BY <1>1, <1>2, OrderFacts
  <2> QED BY <1>2, <2>1, <2>2 DEF JobStates
<1>3. CASE j.i = Len(Order)
  <2>1. Advance(j, pc) = [[j EXCEPT !.i = 1] EXCEPT !.pc = pc] BY <1>1, <1>3 DEF Advance
  <2> QED BY <1>3, <2>1, OrderFacts DEF JobStates, FileSteps, UploadSteps
<1> QED BY <1>1, <1>2, <1>3

\* prepareAssets goes on to the next file, or to the reservation.
LEMMA PreparedGood ==
  ASSUME DriveInv, job.pc = "prepare", UNCHANGED <<local, cfg, remote>>, NEW c,
         NEW j \in JobStates, j.pc = "prepare", Goto(Advance(j, "ids"), c)
  PROVE  DriveInv'
<1>1. PICK k : k = Advance(j, "ids") OBVIOUS
<1>2. k \in JobStates /\ k.pc \in FileSteps /\ (k.pc = "ids" => k.i = 1)
  BY <1>1, AdvanceFacts DEF FileSteps
<1>3. Placed(st, job) /\ st.dir = cfg.dir /\ st.dir # 0 BY Facts DEF Placed, FileSteps
<1>4. Placed(st, k) BY <1>2, <1>3 DEF Placed, FileSteps, UploadSteps
<1>5. Passed(k) = {} BY <1>2 DEF Passed, FileSteps, UploadSteps
<1> QED BY <1>1, <1>2, <1>4, <1>5, GotoGood

LEMMA PrepareGood == ASSUME DriveInv, Prepare PROVE DriveInv'
<1>1. job.pc = "prepare" BY DEF Prepare, At
<1>2. job \in JobStates BY <1>1, Facts
<1> QED BY <1>1, <1>2, PreparedGood DEF Prepare

LEMMA UploadGood == ASSUME DriveInv, Upload PROVE DriveInv'
<1>1. job.pc = "upload" /\ job.pc \in UploadSteps \ {"final"} /\ UNCHANGED <<local, cfg, remote>>
  BY DEF Upload, At, UploadSteps
<1>2. job \in JobStates /\ Placed(st, job) /\ here \in Assets /\ job.i \in 1..Len(Order)
      /\ Len(Order) \in Nat /\ mine = st.of[here]
  BY <1>1, Facts, OrderFacts DEF mine
<1>3. CASE mine.want = 0
  <2>1. PICK k : k = Advance(job, "final") OBVIOUS
  <2>2. Goto(k, 0) BY <1>3, <2>1 DEF Upload
  <2>3. k \in JobStates
        /\ \/ job.i < Len(Order) /\ k.i = job.i + 1 /\ k.pc = "upload"
           \/ job.i = Len(Order) /\ k.i = 1 /\ k.pc = "final"
    BY <1>1, <1>2, <2>1, AdvanceFacts
  <2>4. Placed(st, k) BY <1>1, <1>2, <2>3 DEF Placed, UploadSteps, FileSteps
  <2>5. Passed(k) \subseteq Passed(job) \cup {job.i}
    BY <1>1, <1>2, <2>3, OrderFacts DEF Passed, UploadSteps
  <2>6. Good(st, Order[job.i]) BY <1>2, <1>3 DEF Good, here
  <2>7. \A n \in Passed(k) : Good(st, Order[n])
    BY <1>1, <2>5, <2>6, Facts
  <2> QED BY <1>1, <2>2, <2>3, <2>4, <2>7, GotoGood
<1>4. CASE mine.want # 0
  <2>1. PICK s : s = With(here, NotUp(mine)) OBVIOUS
  <2>2. Keeps(st, s) /\ s.of[here].ses = mine.ses
    <3>1. 0 \in Nat OBVIOUS
    <3>2. Keeps(st, s) BY <1>1, <2>1, <3>1, EntriesKeep
    <3>3. mine \in AssetRecords /\ NotUp(mine) \in AssetRecords /\ NotUp(mine).ses = mine.ses
      BY <1>1, <3>1, EntryFacts, Facts
    <3> QED BY <1>1, <1>2, <2>1, <3>2, <3>3, WithFacts
  <2>3. CASE Completing(s, 0) BY <1>1, <1>4, <2>2, <2>3, CompletingGood
  <2>4. ASSUME NEW pc \in {"probe", "multipart", "initiate"}, pc = "probe" => mine.ses,
               Persist(s, [job EXCEPT !.pc = pc, !.tries = 1, !.stall = 0, !.why = "start"], 0)
        PROVE  DriveInv'
    <3>1. PICK j : j = [job EXCEPT !.pc = pc, !.tries = 1, !.stall = 0, !.why = "start"] OBVIOUS
    <3>2. j \in JobStates /\ j.pc = pc /\ j.i = job.i
      BY <1>2, <3>1 DEF JobStates, UploadSteps
    <3>3. j.pc \in Onward BY <3>2 DEF Onward, UploadSteps
    <3> QED BY <1>1, <1>4, <2>2, <2>4, <3>1, <3>2, <3>3, OnwardGood
  <2> QED BY <1>4, <2>1, <2>3, <2>4 DEF Upload
<1> QED BY <1>3, <1>4

LEMMA SeenFacts ==
  ASSUME NEW j \in JobStates, NEW a \in Assets, NEW v \in Verdicts,
         NEW k, k = [j EXCEPT !.insp[a] = v]
  PROVE  k \in JobStates /\ k.pc = j.pc /\ k.i = j.i
<1>1. PICK f \in [Assets -> Verdicts] : f = [j.insp EXCEPT ![a] = v] BY DEF JobStates
<1>2. k = [j EXCEPT !.insp = f] BY <1>1
<1> QED BY <1>2 DEF JobStates

\* The places the job goes to after it saw the id of the file.
Again(j, a, v, n) == [j EXCEPT !.pc = "multipart", !.tries = n, !.insp[a] = v]
Single(j, a, v, n) == [j EXCEPT !.pc = "multipart", !.insp[a] = v, !.tries = n]
Anew(j, a, v, n) == [j EXCEPT !.pc = "initiate", !.insp[a] = v, !.stall = 0, !.tries = n]

LEMMA AgainFacts ==
  ASSUME NEW j \in JobStates, NEW a \in Assets, NEW v \in Verdicts, NEW n \in Nat
  PROVE  /\ Again(j, a, v, n) \in JobStates
         /\ Again(j, a, v, n).pc = "multipart" /\ Again(j, a, v, n).i = j.i
<1>1. PICK k1 : k1 = [j EXCEPT !.pc = "multipart"] OBVIOUS
<1>2. PICK k2 : k2 = [k1 EXCEPT !.tries = n] OBVIOUS
<1>3. PICK k3 : k3 = [k2 EXCEPT !.insp[a] = v] OBVIOUS
<1>4. k1 \in JobStates /\ k1.i = j.i /\ k1.pc = "multipart" BY <1>1 DEF JobStates, UploadSteps
<1>5. k2 \in JobStates /\ k2.i = j.i /\ k2.pc = "multipart" BY <1>2, <1>4 DEF JobStates, UploadSteps
<1>6. k3 \in JobStates /\ k3.i = j.i /\ k3.pc = "multipart" BY <1>3, <1>5, SeenFacts
<1>7. Again(j, a, v, n) = k3 BY <1>1, <1>2, <1>3 DEF Again
<1> QED BY <1>6, <1>7

LEMMA SingleFacts ==
  ASSUME NEW j \in JobStates, NEW a \in Assets, NEW v \in Verdicts, NEW n \in Nat
  PROVE  /\ Single(j, a, v, n) \in JobStates
         /\ Single(j, a, v, n).pc = "multipart" /\ Single(j, a, v, n).i = j.i
<1>1. PICK k1 : k1 = [j EXCEPT !.pc = "multipart"] OBVIOUS
<1>2. PICK k2 : k2 = [k1 EXCEPT !.insp[a] = v] OBVIOUS
<1>3. PICK k3 : k3 = [k2 EXCEPT !.tries = n] OBVIOUS
<1>4. k1 \in JobStates /\ k1.i = j.i /\ k1.pc = "multipart" BY <1>1 DEF JobStates, UploadSteps
<1>5. k2 \in JobStates /\ k2.i = j.i /\ k2.pc = "multipart" BY <1>2, <1>4, SeenFacts
<1>6. k3 \in JobStates /\ k3.i = j.i /\ k3.pc = "multipart" BY <1>3, <1>5 DEF JobStates, UploadSteps
<1>7. Single(j, a, v, n) = k3 BY <1>1, <1>2, <1>3 DEF Single
<1> QED BY <1>6, <1>7

LEMMA AnewFacts ==
  ASSUME NEW j \in JobStates, NEW a \in Assets, NEW v \in Verdicts, NEW n \in Nat
  PROVE  /\ Anew(j, a, v, n) \in JobStates
         /\ Anew(j, a, v, n).pc = "initiate" /\ Anew(j, a, v, n).i = j.i
<1>1. PICK k1 : k1 = [j EXCEPT !.pc = "initiate"] OBVIOUS
<1>2. PICK k2 : k2 = [k1 EXCEPT !.insp[a] = v] OBVIOUS
<1>3. PICK k3 : k3 = [k2 EXCEPT !.stall = 0] OBVIOUS
<1>4. PICK k4 : k4 = [k3 EXCEPT !.tries = n] OBVIOUS
<1>5. k1 \in JobStates /\ k1.i = j.i /\ k1.pc = "initiate" BY <1>1 DEF JobStates, UploadSteps
<1>6. k2 \in JobStates /\ k2.i = j.i /\ k2.pc = "initiate" BY <1>2, <1>5, SeenFacts
<1>7. k3 \in JobStates /\ k3.i = j.i /\ k3.pc = "initiate" BY <1>3, <1>6 DEF JobStates, UploadSteps
<1>8. k4 \in JobStates /\ k4.i = j.i /\ k4.pc = "initiate" BY <1>4, <1>7 DEF JobStates, UploadSteps
<1>9. Anew(j, a, v, n) = k4 BY <1>1, <1>2, <1>3, <1>4 DEF Anew
<1> QED BY <1>8, <1>9

LEMMA RecoverGood == ASSUME DriveInv, Recover PROVE DriveInv'
<1>1. job.pc = "recover" /\ job.pc \in Onward /\ UNCHANGED <<local, cfg, remote>>
  BY DEF Recover, At, Onward, UploadSteps
<1>2. job \in JobStates /\ Keeps(st, st) /\ here \in Assets BY <1>1, Facts, StKeeps
<1>3. PICK v : v = Verdict(here) OBVIOUS
<1>4. v \in Verdicts BY <1>3 DEF Verdict, Verdicts
<1>5. CASE Error(st, 1) \/ Error(st, 0) BY <1>1, <1>2, <1>5, ErrorGood
<1>6. CASE Completing(st, 0) BY <1>1, <1>2, <1>6, CompletingGood DEF Onward
<1>7. CASE Goto([job EXCEPT !.pc = "multipart", !.tries = @ + 1, !.insp[here] = v], 0)
  <2>1. PICK j : j = [job EXCEPT !.pc = "multipart", !.tries = @ + 1, !.insp[here] = v] OBVIOUS
  <2>2. PICK n \in Nat : n = job.tries + 1 BY <1>2 DEF JobStates
  <2>3. j = Again(job, here, v, n) BY <2>1, <2>2 DEF Again
  <2>4. j \in JobStates /\ j.pc = "multipart" /\ j.i = job.i
    BY <1>2, <1>4, <2>2, <2>3, AgainFacts
  <2> QED BY <1>1, <1>2, <1>7, <2>1, <2>4, OnwardGood DEF Onward, UploadSteps
<1> QED BY <1>3, <1>5, <1>6, <1>7 DEF Recover

LEMMA ProbeGood == ASSUME DriveInv, Probe PROVE DriveInv'
<1>1. job.pc = "probe" /\ job.pc \in Onward /\ UNCHANGED <<local, cfg, remote>>
  BY DEF Probe, At, Onward, UploadSteps
<1>2. job \in JobStates /\ Keeps(st, st) /\ here \in Assets /\ mine \in AssetRecords
      /\ mine = st.of[here] /\ Placed(st, job)
  BY <1>1, Facts, StKeeps DEF mine
<1>3. PICK v : v = Verdict(here) OBVIOUS
<1>4. v \in Verdicts BY <1>3 DEF Verdict, Verdicts
<1>5. PICK n : n = sess[here].got OBVIOUS
<1>6. n \in Nat /\ mine.off \in Nat
  BY <1>2, <1>5 DEF DriveInv, DriveTyped, RemoteTyped, Sessions, AssetRecords
<1>7. CASE Error(st, 1) \/ Error(st, 0) BY <1>1, <1>2, <1>7, ErrorGood
<1>8. CASE Completing(st, 0) BY <1>1, <1>2, <1>8, CompletingGood DEF Onward
<1>9. PICK r, t : r = With(here, [mine EXCEPT !.off = n]) /\ t = With(here, Restarted(mine))
  OBVIOUS
<1>10. Keeps(st, r) /\ Keeps(st, t) BY <1>1, <1>6, <1>9, EntriesKeep
<1>11. r.of[here].ses
  <2>1. [mine EXCEPT !.off = n] \in AssetRecords /\ [mine EXCEPT !.off = n].ses = mine.ses
    BY <1>2, <1>6, EntryFacts
  <2>2. mine.ses BY <1>1, <1>2 DEF Placed, here
  <2> QED BY <1>1, <1>2, <1>9, <2>1, <2>2, WithFacts
<1>12. CASE Error(r, 0) \/ Error(t, 0) BY <1>1, <1>10, <1>12, ErrorGood
<1>13. ASSUME NEW m \in Nat, Persist(r, [job EXCEPT !.pc = "chunk", !.stall = m], 0)
       PROVE  DriveInv'
  <2>1. PICK j : j = [job EXCEPT !.pc = "chunk", !.stall = m] OBVIOUS
  <2>2. j \in JobStates /\ j.pc = "chunk" /\ j.i = job.i
    BY <1>2, <2>1 DEF JobStates, UploadSteps
  <2> QED BY <1>1, <1>10, <1>11, <1>13, <2>1, <2>2, OnwardGood DEF Onward, UploadSteps
<1>14. ASSUME NEW m \in Nat,
              \/ Persist(t, [job EXCEPT !.pc = "multipart", !.insp[here] = v, !.tries = m], 0)
              \/ Persist(t, [job EXCEPT !.pc = "initiate", !.insp[here] = v, !.stall = 0,
                                        !.tries = m], 0)
       PROVE  DriveInv'
  <2>1. PICK j : /\ j \in {Single(job, here, v, m), Anew(job, here, v, m)}
                 /\ Persist(t, j, 0)
    BY <1>14 DEF Single, Anew
  <2>2. j \in JobStates /\ j.pc \in {"multipart", "initiate"} /\ j.i = job.i
    BY <1>2, <1>4, <2>1, SingleFacts, AnewFacts
  <2> QED BY <1>1, <1>10, <2>1, <2>2, OnwardGood DEF Onward, UploadSteps
<1>15. job.stall \in Nat /\ job.tries \in Nat BY <1>2 DEF JobStates
<1>16. PICK m \in Nat : m = IF job.why = "start" \/ n > mine.off THEN 0 ELSE job.stall + 1
  BY <1>15
<1>17. PICK q \in Nat : q = IF job.why = "start" THEN job.tries ELSE job.tries + 1 BY <1>15
<1>18. \/ Error(st, 1) \/ Error(st, 0) \/ Completing(st, 0) \/ Error(r, 0) \/ Error(t, 0)
       \/ Persist(r, [job EXCEPT !.pc = "chunk", !.stall = m], 0)
       \/ Persist(t, [job EXCEPT !.pc = "multipart", !.insp[here] = v, !.tries = 1], 0)
       \/ Persist(t, [job EXCEPT !.pc = "initiate", !.insp[here] = v, !.stall = 0,
                                 !.tries = q], 0)
  BY <1>3, <1>5, <1>9, <1>16, <1>17, Zenon DEF Probe
<1> QED BY <1>7, <1>8, <1>12, <1>13, <1>14, <1>18

LEMMA VerifyGood == ASSUME DriveInv, Verify PROVE DriveInv'
<1>1. job.pc = "verify" /\ job.pc # "idle" /\ UNCHANGED <<local, cfg, remote>>
  BY DEF Verify, At
<1>2. job \in JobStates /\ Keeps(st, st) /\ here \in Assets /\ mine \in AssetRecords
      /\ mine = st.of[here] /\ Placed(st, job) /\ mine.want # 0 /\ st = disk /\ Kept(st)
  BY <1>1, Facts, StKeeps DEF mine, Placed, UploadSteps, here
<1>3. PICK v : v = Verdict(here) OBVIOUS
<1>4. CASE Error(st, 1) \/ Error(st, 0) BY <1>1, <1>2, <1>4, ErrorGood
<1>5. CASE Error(With(here, NotUp(mine)), 0)
  BY <1>1, <1>5, EntriesKeep, ErrorGood
<1>6. CASE v = "different" /\ Error(With(here, [Restarted(mine) EXCEPT !.res = FALSE]), 0)
  <2>1. PICK r : r = [Restarted(mine) EXCEPT !.res = FALSE] OBVIOUS
  <2>2. /\ r \in AssetRecords /\ r.id = mine.id /\ r.want = mine.want /\ ~r.ses
    BY <1>2, <2>1, EntryFacts DEF AssetRecords, Restarted
  <2>3. There(mine.id) BY <1>2, <1>3, <1>6 DEF Verdict, There
  <2>4. Keeps(st, With(here, r)) BY <1>1, <1>2, <2>2, <2>3, WithKeeps
  <2> QED BY <1>1, <1>6, <2>1, <2>4, ErrorGood
<1>7. CASE /\ v = "match"
           /\ Persist(With(here, [NoAsset EXCEPT !.id = mine.id, !.want = mine.want, !.up = TRUE,
                                                 !.off = Blocks]),
                      Advance([job EXCEPT !.pc = "upload"], "final"), 0)
  <2>1. PICK r : r = [NoAsset EXCEPT !.id = mine.id, !.want = mine.want, !.up = TRUE,
                                     !.off = Blocks] OBVIOUS
  <2>2. Blocks \in Nat /\ mine.id \in 0..MaxId /\ mine.want \in Contents \cup {0}
    BY <1>2, DriveAssumption DEF AssetRecords
  <2>3. /\ r \in AssetRecords /\ r.id = mine.id /\ r.want = mine.want /\ ~r.ses
    BY <2>1, <2>2 DEF AssetRecords, NoAsset
  <2>4. /\ files[mine.id].has = mine.want /\ files[mine.id].of = here
        /\ files[mine.id].dir = cfg.dir /\ ~Away(mine.id) /\ There(mine.id)
    BY <1>1, <1>2, <1>3, <1>7 DEF Verdict, There, Placed, UploadSteps
  <2>5. mine.id # 0 /\ mine.id \in Ids
    BY <1>1, <1>2, <2>2 DEF Placed, UploadSteps, Ids
  <2>6. PICK s : s = With(here, r) OBVIOUS
  <2>7. Keeps(st, s) BY <1>1, <1>2, <2>3, <2>4, <2>6, WithKeeps
  <2>8. PICK j : j = [job EXCEPT !.pc = "upload"] OBVIOUS
  <2>9. j \in JobStates /\ j.pc = "upload" /\ j.i = job.i
    BY <1>2, <2>8 DEF JobStates, UploadSteps
  <2>10. PICK k : k = Advance(j, "final") OBVIOUS
  <2>11. /\ k \in JobStates
         /\ \/ job.i < Len(Order) /\ k.i = job.i + 1 /\ k.pc = "upload"
            \/ job.i = Len(Order) /\ k.i = 1 /\ k.pc = "final"
    BY <2>9, <2>10, AdvanceFacts
  <2>12. \A a \in Assets : s.of[a].id = st.of[a].id /\ s.of[a].want = st.of[a].want
    BY <2>7 DEF Keeps, SameId
  <2>13. Placed(s, k)
    BY <1>1, <1>2, <2>7, <2>11, <2>12 DEF Placed, Keeps, UploadSteps, FileSteps
  <2>14. Good(st, here)
    <3>1. files[mine.id].dir \in dirs
      BY <1>2, <2>4, <2>5 DEF Kept, Foldered, Away
    <3> QED BY <1>2, <2>4, <2>5, <3>1 DEF Good
  <2>15. \A n \in Passed(k) : n \in DOMAIN Order /\ Good(st, Order[n])
    <3>1. job.i \in 1..Len(Order) /\ DOMAIN Order = 1..Len(Order) /\ Len(Order) \in Nat
      BY <1>2, OrderFacts DEF JobStates
    <3>2. Passed(job) = 1..(job.i - 1) /\ \A n \in Passed(job) : Good(st, Order[n])
      BY <1>1, Facts DEF Passed, UploadSteps
    <3>3. Good(st, Order[job.i]) BY <2>14 DEF here
    <3>4. Passed(k) \subseteq 1..job.i
      BY <2>11, <3>1 DEF Passed, UploadSteps
    <3> QED BY <3>1, <3>2, <3>3, <3>4
  <2>16. \A n \in Passed(k) : Good(s, Order[n])
    BY <2>12, <2>15, OrderFacts DEF Good
  <2>17. Persist(s, k, 0) BY <1>7, <2>1, <2>6, <2>8, <2>10
  <2> QED BY <1>1, <2>7, <2>11, <2>13, <2>16, <2>17, PersistGood
<1> QED BY <1>3, <1>4, <1>5, <1>6, <1>7 DEF Verify

\* A step that leaves the record alone: the world's, or the loss of power.
LEMMA WorldGood ==
  ASSUME DriveInv, local' \in [Assets -> Contents \cup {0}], UNCHANGED <<cfg, disk>>,
         UNCHANGED <<st, job>> \/ (job' = Idle /\ st' = Blank), RemoteTyped',
         NEW d, d = disk, Kept(d)', \A a \in Assets : Good(d, a) => Good(d, a)'
  PROVE  DriveInv'
<1>1. DriveTyped' BY BlankTypes DEF DriveInv, DriveTyped
<1>2. Kept(disk)' OBVIOUS
<1>3. Working' BY BlankTypes DEF DriveInv, Working, Placed
<1>4. Verified'
  <2>1. \A k \in Passed(job)' : k \in DOMAIN Order /\ Good(disk, Order[k])
    <3>1. CASE UNCHANGED job
      <4>1. job.i \in 1..Len(Order) /\ DOMAIN Order = 1..Len(Order) /\ Len(Order) \in Nat
        BY OrderFacts DEF DriveInv, DriveTyped, JobStates
      <4>2. Passed(job)' = Passed(job) BY <3>1 DEF Passed
      <4>3. Passed(job) \subseteq DOMAIN Order BY <4>1 DEF Passed
      <4> QED BY <4>2, <4>3 DEF DriveInv, Verified
    <3>2. CASE job' = Idle BY <3>2, BlankTypes DEF Passed, UploadSteps
    <3> QED BY <3>1, <3>2
  <2>2. \A a \in Assets : Good(disk, a) => Good(disk, a)' OBVIOUS
  <2>3. disk'.full /\ disk'.gen = cfg'.gen => \A a \in Assets : Good(disk, a)'
    BY <2>2 DEF DriveInv, Verified
  <2> QED BY <2>1, <2>2, <2>3, OrderFacts DEF Verified
<1> QED BY <1>1, <1>2, <1>3, <1>4 DEF DriveInv

\* The files on the device change, or the power goes.
LEMMA LocalGood ==
  ASSUME DriveInv, local' \in [Assets -> Contents \cup {0}], UNCHANGED <<cfg, disk, remote>>,
         UNCHANGED <<st, job>> \/ (job' = Idle /\ st' = Blank)
  PROVE  DriveInv'
<1>1. PICK d : d = disk OBVIOUS
<1>2. RemoteTyped /\ Kept(d) BY <1>1 DEF DriveInv, DriveTyped
<1>3. RemoteTyped' /\ Kept(d)' /\ \A a : Good(d, a)' <=> Good(d, a) BY <1>2, SameRemote
<1> QED BY <1>1, <1>3, WorldGood

LEMMA CrashGood == ASSUME DriveInv, Crash PROVE DriveInv'
BY LocalGood DEF Crash, Stop, DriveInv, DriveTyped

LEMMA FinishGood == ASSUME DriveInv, Finish PROVE DriveInv'
<1>1. job.pc = "final" /\ job.pc # "idle" /\ UNCHANGED <<local, cfg, remote>>
  BY DEF Finish, At
<1>2. st = disk /\ st \in Records /\ Kept(st) /\ \A a \in Assets : Good(st, a)
  <2>1. Passed(job) = DOMAIN Order BY <1>1 DEF Passed
  <2> QED BY <1>1, <2>1, Facts, OrderFacts
<1>3. PICK d : d = disk OBVIOUS
<1>4. PICK changed : changed = {a \in Assets : local[a] # st.of[a].want} OBVIOUS
<1>5. PICK e : e = [a \in Assets |-> IF a \in changed THEN NotUp(st.of[a]) ELSE st.of[a]] OBVIOUS
<1>6. CASE Error([st EXCEPT !.of = e], 0)
  <2>1. \A a \in Assets : st.of[a] \in AssetRecords BY <1>2 DEF Records
  <2>2. ASSUME NEW a \in Assets
        PROVE  /\ e[a] \in AssetRecords /\ e[a].id = st.of[a].id /\ e[a].want = st.of[a].want
               /\ e[a].ses = st.of[a].ses /\ e[a].res = st.of[a].res
    <3>1. e[a] = NotUp(st.of[a]) \/ e[a] = st.of[a] BY <1>5
    <3>2. NotUp(st.of[a]) \in AssetRecords /\ NotUp(st.of[a]).id = st.of[a].id
          /\ NotUp(st.of[a]).want = st.of[a].want
          /\ NotUp(st.of[a]).ses = st.of[a].ses /\ NotUp(st.of[a]).res = st.of[a].res
      <4>1. 0 \in Nat OBVIOUS
      <4> QED BY <2>1, <4>1, EntryFacts
    <3> QED BY <2>1, <3>1, <3>2
  <2>3. e \in [Assets -> AssetRecords] BY <1>5, <2>2
  <2>4. PICK s : s = [st EXCEPT !.of = e] OBVIOUS
  <2>5. s \in Records /\ s.of = e /\ s.full = st.full /\ s.gen = st.gen /\ s.dir = st.dir
        /\ s.pend = st.pend
    BY <1>2, <2>3, <2>4 DEF Records
  <2>6. Keeps(st, s) BY <1>1, <2>2, <2>5, Facts DEF Keeps, SameId
  <2> QED BY <1>1, <1>6, <2>4, <2>6, ErrorGood
<1>7. CASE /\ disk' \in {disk, [st EXCEPT !.full = TRUE]} /\ st' = Blank
           /\ job' \in {Idle, [Idle EXCEPT !.ok = TRUE]}
  <2>1. PICK s : s = [st EXCEPT !.full = TRUE] OBVIOUS
  <2>2. s \in Records /\ s.of = st.of /\ s.gen = st.gen /\ s.dir = st.dir /\ s.pend = st.pend
    BY <1>2, <2>1 DEF Records
  <2>3. RemoteTyped' /\ Kept(d)' /\ \A a \in Assets : Good(d, a)'
    BY <1>1, <1>2, <1>3, SameRemote DEF DriveInv, DriveTyped
  <2>4. job' \in JobStates /\ job'.pc = "idle" BY <1>7, BlankTypes DEF Idle, JobStates
  <2>5. DriveTyped'
    BY <1>1, <1>2, <1>7, <2>1, <2>2, <2>3, <2>4, BlankTypes DEF DriveInv, DriveTyped
  <2>6. Fits(d, s)' BY <1>2, <1>3, <2>2, <2>3 DEF Fits, SameId, Kept, Foldered
  <2>7. Kept(s)' BY <1>2, <1>3, <2>3, <2>5, <2>6, KeptAnew
  <2>8. \A a \in Assets : Good(s, a)' BY <1>2, <1>3, <2>2, <2>3 DEF Good
  <2>9. disk' \in {d, s} BY <1>3, <1>7, <2>1
  <2>10. Kept(disk)' /\ \A a \in Assets : Good(disk, a)' BY <2>3, <2>7, <2>8, <2>9
  <2>11. Working' BY <2>4 DEF Working
  <2>12. Verified' BY <2>4, <2>10 DEF Verified, Passed, UploadSteps
  <2> QED BY <2>5, <2>10, <2>11, <2>12 DEF DriveInv
<1> QED BY <1>4, <1>5, <1>6, <1>7, Zenon DEF Finish, Stop

-----------------------------------------------------------------------------
(* The folder.                                                               *)

LEMMA FitsItself ==
  ASSUME NEW d \in Records, ~d.full, Kept(d)' PROVE Fits(d, d)'
<1>1. Keeps(d, d)' BY DEF Keeps, SameId
<1> QED BY <1>1, KeepsFits

\* The job fails after Drive obeyed, or while a request is on its way.
LEMMA FailedGood ==
  ASSUME DriveInv, job.pc # "idle", UNCHANGED <<local, cfg>>, RemoteTyped',
         NEW d, d = disk, Kept(d)', NEW c, Error(st, c)
  PROVE  DriveInv'
<1>1. d \in Records /\ ~d.full /\ st = d BY Facts
<1>2. job' = Idle /\ st' = Blank /\ disk' = d
  BY <1>1, PendedFacts DEF Error, Stop, Pended
<1>3. Fits(d, d)' BY <1>1, FitsItself
<1>4. local \in [Assets -> Contents \cup {0}] /\ cfg \in Settings BY DEF DriveInv, DriveTyped
<1> QED BY <1>1, <1>2, <1>3, <1>4, BlankTypes, StepGood

\* What the server keeps of a note is untouched.
LEMMA FailsGood ==
  ASSUME DriveInv, job.pc # "idle", UNCHANGED <<local, cfg, remote>>, NEW c, Error(st, c)
  PROVE  DriveInv'
BY StKeeps, ErrorGood

\* The places before the folder is known.
LEMMA FolderStepGood ==
  ASSUME DriveInv, job.pc \in FolderSteps, UNCHANGED <<local, cfg, remote>>, NEW c,
         NEW j \in JobStates, j.pc \in FolderSteps, j.pc = "mkdir" => job.pc = "mkdir",
         Persist(st, j, c) \/ Goto(j, c)
  PROVE  DriveInv'
<1>1. job.pc # "idle" BY DEF FolderSteps
<1>2. Placed(st, job) /\ Keeps(st, st) BY <1>1, Facts, StKeeps
<1>3. Placed(st, j) BY <1>2 DEF Placed, FolderSteps, FileSteps, UploadSteps
<1>4. Passed(j) = {} BY DEF Passed, FolderSteps, UploadSteps
<1> QED BY <1>1, <1>2, <1>3, <1>4, PersistGood, GotoGood

\* The record with the folder d, and every upload begun for another one undone.
Confirmed(d) ==
  [st EXCEPT !.pend = 0, !.dir = d,
             !.of = [a \in Assets |-> IF d = st.dir THEN st.of[a] ELSE Restarted(st.of[a])]]

LEMMA ConfirmedFacts ==
  ASSUME DriveInv, job.pc # "idle", NEW d \in 0..MaxId
  PROVE  /\ Confirmed(d) \in Records /\ ~Confirmed(d).full /\ Confirmed(d).gen = st.gen
         /\ Confirmed(d).pend = 0 /\ Confirmed(d).dir = d
         /\ \A a \in Assets : /\ Confirmed(d).of[a].id = st.of[a].id
                              /\ Confirmed(d).of[a].want = st.of[a].want
                              /\ Confirmed(d).of[a].res = st.of[a].res
                              /\ Confirmed(d).of[a].ses => st.of[a].ses
<1>1. st \in Records /\ ~st.full BY Facts
<1>2. PICK e : e = [a \in Assets |-> IF d = st.dir THEN st.of[a] ELSE Restarted(st.of[a])] OBVIOUS
<1>3. ASSUME NEW a \in Assets
      PROVE  /\ e[a] \in AssetRecords /\ e[a].id = st.of[a].id /\ e[a].want = st.of[a].want
             /\ e[a].res = st.of[a].res
             /\ e[a].ses => st.of[a].ses
  <2>1. e[a] = st.of[a] \/ e[a] = Restarted(st.of[a]) BY <1>2
  <2>2. st.of[a] \in AssetRecords BY <1>1 DEF Records
  <2>3. /\ Restarted(st.of[a]) \in AssetRecords /\ Restarted(st.of[a]).id = st.of[a].id
        /\ Restarted(st.of[a]).want = st.of[a].want /\ ~Restarted(st.of[a]).ses
        /\ Restarted(st.of[a]).res = st.of[a].res
    <3>1. 0 \in Nat OBVIOUS
    <3> QED BY <2>2, <3>1, EntryFacts
  <2> QED BY <2>1, <2>2, <2>3
<1>4. e \in [Assets -> AssetRecords] BY <1>2, <1>3
<1>5. Confirmed(d) = [st EXCEPT !.pend = 0, !.dir = d, !.of = e] BY <1>2 DEF Confirmed
<1>6. 0 \in 0..MaxId /\ MaxId \in Nat BY DriveAssumption
<1>7. /\ Confirmed(d) \in Records /\ ~Confirmed(d).full /\ Confirmed(d).gen = st.gen
      /\ Confirmed(d).pend = 0 /\ Confirmed(d).dir = d /\ Confirmed(d).of = e
  BY <1>1, <1>4, <1>5, <1>6 DEF Records
<1> QED BY <1>3, <1>7

LEMMA ConfirmGood ==
  ASSUME DriveInv, job.pc # "idle", local' = local, RemoteTyped',
         NEW f \in Ids, f = cfg.dir, f \in dirs' \cup moved', NEW c, ConfirmFolder(f, c),
         NEW d, d = disk, cfg' = cfg => Kept(d)'
  PROVE  DriveInv'
<1>1. cfg \in Settings /\ local \in [Assets -> Contents \cup {0}] BY DEF DriveInv, DriveTyped
<1>2. cfg' = cfg
  <2>1. cfg' = [cfg EXCEPT !.dir = f] BY DEF ConfirmFolder
  <2> QED BY <1>1, <2>1 DEF Settings
<1>3. PICK s : s = Confirmed(f) OBVIOUS
<1>4. f \in 0..MaxId /\ f # 0 BY DriveAssumption DEF Ids
<1>5. /\ s \in Records /\ ~s.full /\ s.gen = st.gen /\ s.pend = 0 /\ s.dir = f
      /\ \A a \in Assets : /\ s.of[a].id = st.of[a].id /\ s.of[a].want = st.of[a].want
                           /\ s.of[a].res = st.of[a].res
                           /\ s.of[a].ses => st.of[a].ses
  BY <1>3, <1>4, ConfirmedFacts
<1>6. PICK j : j = [job EXCEPT !.pc = "prepare"] OBVIOUS
<1>7. j \in JobStates /\ j.pc = "prepare" BY <1>6, Facts DEF JobStates, FileSteps
<1>8. Persist(s, j, c) BY <1>3, <1>6, Zenon DEF ConfirmFolder, Confirmed
<1>9. d \in Records /\ ~d.full /\ st = d /\ st.gen = cfg.gen /\ cfg.paired BY Facts
<1>10. Kept(d)' BY <1>2
<1>11. Fits(d, s)'
  <2>1. \A a \in Assets : SameId(d, s, a)' BY <1>5, <1>9 DEF SameId
  <2>2. \A r \in late' : ~Creates(r)' => r.id \in moved' \cup {f}
    BY <1>2, <1>10 DEF Kept, Foldered
  <2> QED BY <1>5, <1>9, <2>1, <2>2 DEF Fits
<1>12. Placed(s, j)' BY <1>2, <1>4, <1>5, <1>7, <1>9 DEF Placed, FileSteps, UploadSteps
<1>13. Passed(j) = {} BY <1>7 DEF Passed, UploadSteps
<1>14. \/ disk' = s /\ st' = s /\ job' = j
       \/ job' = Idle /\ st' = Blank /\ disk' \in {d, s}
  BY <1>8 DEF Persist, Stop
<1> QED BY <1>1, <1>2, <1>5, <1>7, <1>9, <1>10, <1>11, <1>12, <1>13, <1>14, StepGood

LEMMA TokenGood == ASSUME DriveInv, Token PROVE DriveInv'
<1>1. job.pc = "token" /\ job.pc \in FolderSteps /\ job.pc # "idle" /\ UNCHANGED <<local, remote>>
  BY DEF Token, At, FolderSteps
<1>2. CASE Persist(st, [job EXCEPT !.pc = "folder"], 0) /\ UNCHANGED cfg
  <2>1. PICK j : j = [job EXCEPT !.pc = "folder"] OBVIOUS
  <2>2. j \in JobStates /\ j.pc = "folder" BY <1>1, <2>1, Facts DEF JobStates, FolderSteps
  <2> QED BY <1>1, <1>2, <2>1, <2>2, FolderStepGood DEF FolderSteps
<1>3. CASE Error(st, 1) /\ UNCHANGED cfg BY <1>1, <1>3, FailsGood
<1>4. CASE Error(st, 1) /\ cfg' = [cfg EXCEPT !.paired = FALSE, !.gen = @ + 1]
  <2>1. PICK d : d = disk OBVIOUS
  <2>2. /\ d \in Records /\ ~d.full /\ st = d /\ Kept(d) /\ RemoteTyped /\ cfg \in Settings
        /\ local' \in [Assets -> Contents \cup {0}]
    BY <1>1, <2>1, Facts DEF DriveInv, DriveTyped
  <2>3. UNCHANGED <<files, dirs, sess, late, given, moved>> BY <1>1 DEF remote
  <2>4. cfg' \in Settings /\ ~cfg'.paired /\ cfg'.gen = cfg.gen + 1 /\ cfg'.dir = cfg.dir
        /\ cfg.gen \in Nat
    <3>1. cfg.gen \in Nat /\ cfg.gen + 1 \in Nat BY <2>2 DEF Settings
    <3>2. PICK n \in Nat : n = cfg.gen + 1 BY <3>1
    <3>3. cfg' = [cfg EXCEPT !.paired = FALSE, !.gen = n] BY <1>4, <3>2
    <3>4. cfg' \in Settings /\ cfg'.paired = FALSE /\ cfg'.gen = n /\ cfg'.dir = cfg.dir
      BY <2>2, <3>3 DEF Settings
    <3> QED BY <3>1, <3>2, <3>4
  <2>5. RemoteTyped' BY <2>2, <2>3 DEF RemoteTyped
  <2>6. \A x, a, g : Claimed(x, a, g)' <=> Claimed(x, a, g) BY <2>3 DEF Claimed, There, Away
  <2>7. Kept(d)'
    <3>1. Numbered(d)' /\ Owned(d)' BY <2>2, <2>3 DEF Kept, Numbered, Owned, There
    <3>2. Foldered(d)' BY <2>2, <2>3, <2>4 DEF Kept, Foldered, There
    <3>3. /\ \A x \in Ids, a \in Assets, g \in Nat : Claimed(x, a, g)' => g <= cfg.gen
          /\ \A x, y \in Ids, a \in Assets, g \in Nat :
               Claimed(x, a, g)' /\ Claimed(y, a, g)' => x = y
      BY <2>2, <2>6 DEF Kept, Tracked
    <3>4. \A x \in Ids, a \in Assets : ~Claimed(x, a, cfg.gen)' BY <2>4, <3>3
    <3>5. \A x \in Ids, a \in Assets, g \in Nat : Claimed(x, a, g)' => g <= cfg'.gen
      BY <2>4, <3>3
    <3>6. d.gen <= cfg'.gen
      <4>1. d.gen \in Nat /\ d.gen <= cfg.gen BY <2>2 DEF Records, Kept, Tracked
      <4> QED BY <2>4, <4>1
    <3>7. Tracked(d)' BY <3>3, <3>4, <3>5, <3>6 DEF Tracked
    <3> QED BY <3>1, <3>2, <3>7 DEF Kept
  <2>8. Fits(d, d)' BY <2>2, <2>7, FitsItself
  <2>9. job' = Idle /\ st' = Blank /\ disk' = d
    BY <1>4, <2>1, <2>2, PendedFacts DEF Error, Stop, Pended
  <2> QED BY <2>2, <2>4, <2>5, <2>7, <2>8, <2>9, BlankTypes, StepGood
<1> QED BY <1>2, <1>3, <1>4 DEF Token

LEMMA CheckFolderGood == ASSUME DriveInv, CheckFolder PROVE DriveInv'
<1>1. /\ job.pc = "folder" /\ job.pc \in FolderSteps /\ job.pc # "idle"
      /\ UNCHANGED <<local, remote>>
  BY DEF CheckFolder, At, FolderSteps
<1>2. PICK known : known = IF st.pend # 0 THEN st.pend ELSE cfg.dir OBVIOUS
<1>3. PICK d : d = disk OBVIOUS
<1>4. /\ RemoteTyped /\ Kept(d) /\ dirs \subseteq Ids /\ dirs \subseteq {cfg.dir}
      /\ moved \subseteq Ids
  BY <1>3 DEF DriveInv, DriveTyped, RemoteTyped, Kept, Foldered
<1>5. CASE known \in dirs \cup moved /\ known = cfg.dir /\ \E c \in {0, 1} : ConfirmFolder(known, c)
  <2>1. known \in Ids /\ known \in dirs' \cup moved' BY <1>1, <1>4, <1>5 DEF remote
  <2>2. RemoteTyped' /\ (cfg' = cfg => Kept(d)')
    BY <1>1, <1>4, SameRemote DEF remote, RemoteTyped
  <2> QED BY <1>1, <1>3, <1>5, <2>1, <2>2, ConfirmGood
<1>6. CASE Goto([job EXCEPT !.pc = "list"], 0) /\ UNCHANGED cfg
  <2>1. PICK j : j = [job EXCEPT !.pc = "list"] OBVIOUS
  <2>2. j \in JobStates /\ j.pc = "list" BY <1>1, <2>1, Facts DEF JobStates, FolderSteps
  <2> QED BY <1>1, <1>6, <2>1, <2>2, FolderStepGood DEF FolderSteps
<1>7. CASE Error(st, 1) /\ UNCHANGED cfg BY <1>1, <1>7, FailsGood
<1>8. \/ known \in dirs /\ ConfirmFolder(known, 0)
      \/ st.pend = 0 /\ known \in moved /\ ConfirmFolder(known, 1)
      \/ Goto([job EXCEPT !.pc = "list"], 0) /\ UNCHANGED cfg
      \/ Error(st, 1) /\ UNCHANGED cfg
  BY <1>2 DEF CheckFolder
<1> QED BY <1>2, <1>4, <1>5, <1>6, <1>7, <1>8

LEMMA ListFoldersGood == ASSUME DriveInv, ListFolders PROVE DriveInv'
<1>1. /\ job.pc = "list" /\ job.pc # "idle" /\ UNCHANGED <<local, files, dirs, sess, late, moved>>
  BY DEF ListFolders, At
<1>2. PICK d : d = disk OBVIOUS
<1>3. /\ RemoteTyped /\ Kept(d) /\ cfg \in Settings /\ d \in Records /\ ~d.full /\ st = d
      /\ dirs \subseteq Ids /\ dirs \subseteq {cfg.dir} /\ moved \subseteq Ids /\ given \in 0..MaxId
      /\ local' \in [Assets -> Contents \cup {0}] /\ MaxId \in Nat
  BY <1>1, <1>2, Facts, DriveAssumption DEF DriveInv, DriveTyped, RemoteTyped, Kept, Foldered
<1>4. CASE (Error(st, 1) \/ Error(st, 0)) /\ UNCHANGED <<cfg, given>>
  BY <1>1, <1>4, FailsGood DEF remote
<1>5. CASE (\E f \in dirs : ConfirmFolder(f, 0)) /\ UNCHANGED given
  <2>1. PICK f \in dirs : ConfirmFolder(f, 0) BY <1>5
  <2>2. UNCHANGED remote BY <1>1, <1>5 DEF remote
  <2>3. f \in Ids /\ f = cfg.dir /\ f \in dirs' \cup moved' BY <1>1, <1>3, <2>1
  <2>4. RemoteTyped' /\ (cfg' = cfg => Kept(d)')
    BY <1>3, <2>2, SameRemote DEF remote, RemoteTyped
  <2> QED BY <1>1, <1>2, <2>1, <2>3, <2>4, ConfirmGood
<1>6. PICK again : again = (st.pend # 0 /\ st.pend \notin moved) OBVIOUS
<1>7. PICK id : id = IF again THEN st.pend ELSE given + 1 OBVIOUS
<1>8. CASE /\ dirs = {} /\ id <= MaxId
           /\ given' = IF again THEN given ELSE id
           /\ Persist([st EXCEPT !.pend = id], [job EXCEPT !.pc = "mkdir"], 0)
           /\ cfg' \in {cfg, [cfg EXCEPT !.dir = id]}
           /\ job' # Idle => cfg'.dir = id
  <2>1. d.pend \in 0..MaxId /\ given \in Nat /\ d.pend <= given
    BY <1>3 DEF Records, Kept, Numbered
  <2>2. id \in Ids /\ given' \in 0..MaxId /\ id <= given' /\ given <= given'
    <3>1. CASE again
      <4>1. id = d.pend /\ given' = given /\ d.pend # 0 BY <1>3, <1>6, <1>7, <1>8, <3>1
      <4> QED BY <1>3, <2>1, <4>1 DEF Ids
    <3>2. CASE ~again
      <4>1. id = given + 1 /\ given' = id /\ id <= MaxId BY <1>7, <1>8, <3>2
      <4> QED BY <1>3, <2>1, <4>1 DEF Ids
    <3> QED BY <3>1, <3>2
  <2>3. /\ cfg' \in Settings /\ cfg'.dir \in {cfg.dir, id} /\ cfg'.gen = cfg.gen
        /\ cfg'.paired = cfg.paired
    BY <1>3, <1>8, <2>2, DriveAssumption DEF Settings, Ids
  <2>4. RemoteTyped' BY <1>1, <1>3, <2>2 DEF RemoteTyped
  <2>5. \A x, a, g : Claimed(x, a, g)' <=> Claimed(x, a, g) BY <1>1 DEF Claimed, There, Away
  <2>6. \A r \in late : ~Creates(r) => r.id \in moved \cup {cfg.dir} /\ r.id \in moved \cup {id}
    <3>1. cfg.paired BY <1>1, Facts
    <3>2. \A r \in late : r.id \in Ids BY <1>3 DEF RemoteTyped, Requests
    <3>3. \A r \in late : ~Creates(r) => /\ r.id \in moved \cup {cfg.dir}
                                         /\ r.id \in moved \cup {d.pend}
      BY <1>3, <1>8, <3>1 DEF Kept, Foldered
    <3>4. d.pend \in moved \cup {0, id} BY <1>3, <1>6, <1>7
    <3> QED BY <3>2, <3>3, <3>4 DEF Ids
  <2>7. Kept(d)'
    <3>1. Numbered(d)'
      <4>1. dirs' \subseteq 1..given' /\ moved' \subseteq 1..given'
        BY <1>1, <1>3, <1>8, <2>2 DEF Kept, Numbered
      <4>2. \A x \in 0..MaxId : x <= given => x <= given' BY <1>3, <2>2
      <4>3. /\ \A a \in Assets : d.of[a].id \in 0..MaxId
            /\ \A r \in late : r.id \in 0..MaxId
            /\ Ids \subseteq 0..MaxId
        BY <1>3 DEF Records, AssetRecords, RemoteTyped, Requests, Ids
      <4> QED BY <1>1, <1>3, <2>1, <4>1, <4>2, <4>3 DEF Kept, Numbered, There
    <3>2. Foldered(d)'
      <4>1. \A r \in late : ~Creates(r) => r.id \in moved \cup {cfg'.dir} BY <2>3, <2>6
      <4> QED BY <1>1, <1>3, <1>8, <2>3, <4>1 DEF Kept, Foldered, There
    <3>3. Owned(d)' BY <1>1, <1>3 DEF Kept, Owned, There
    <3>4. Tracked(d)' BY <1>3, <2>3, <2>5 DEF Kept, Tracked
    <3> QED BY <3>1, <3>2, <3>3, <3>4 DEF Kept
  <2>8. PICK s : s = [st EXCEPT !.pend = id] OBVIOUS
  <2>9. /\ s \in Records /\ ~s.full /\ s.gen = d.gen /\ s.dir = d.dir /\ s.pend = id
        /\ s.of = d.of
    BY <1>3, <2>2, <2>8 DEF Records, Ids
  <2>10. s.pend \in {0, d.pend} \/ NewFolder(s)'
    <3>1. CASE again BY <1>3, <1>7, <2>9, <3>1
    <3>2. CASE ~again
      <4>1. id = given + 1 BY <1>7, <3>2
      <4>2. /\ \A x \in Ids : There(x) => x <= given
            /\ \A r \in late : r.id <= given /\ \A a \in Assets : d.of[a].id <= given
        BY <1>3 DEF Kept, Numbered
      <4>3. \A x \in Nat : x <= given => x # id BY <1>3, <4>1
      <4>4. /\ \A a \in Assets : d.of[a].id \in Nat
            /\ \A r \in late : r.id \in Nat
            /\ Ids \subseteq Nat
        BY <1>3 DEF Records, AssetRecords, RemoteTyped, Requests, Ids
      <4>5. \A x \in Ids : There(x)' => x # id BY <1>1, <4>2, <4>3, <4>4 DEF There
      <4>6. \A r \in late' : r.id # id BY <1>1, <4>2, <4>3, <4>4
      <4>7. \A a \in Assets : s.of[a].id # id
        <5> TAKE a \in Assets
        <5>1. d.of[a].id <= given BY <1>3 DEF Kept, Numbered
        <5> QED BY <2>9, <4>3, <4>4, <5>1
      <4> QED BY <2>2, <2>9, <4>5, <4>6, <4>7 DEF NewFolder
    <3> QED BY <3>1, <3>2
  <2>11. Fits(d, s)'
    <3>1. \A a \in Assets : SameId(d, s, a)' BY <2>9 DEF SameId
    <3>2. s.dir \in dirs' \cup moved' \cup {0} BY <2>7, <2>9 DEF Kept, Foldered
    <3>3. \A r \in late' : ~Creates(r)' => r.id \in moved' \cup {s.pend}
      BY <1>1, <2>6, <2>9 DEF Creates
    <3> QED BY <2>9, <2>10, <3>1, <3>2, <3>3 DEF Fits
  <2>12. PICK j : j = [job EXCEPT !.pc = "mkdir"] OBVIOUS
  <2>13. j \in JobStates /\ j.pc = "mkdir" BY <1>1, <2>12, Facts DEF JobStates, FolderSteps
  <2>14. \/ disk' = s /\ st' = s /\ job' = j
         \/ job' = Idle /\ st' = Blank /\ disk' \in {d, s}
    BY <1>2, <1>8, <2>8, <2>12 DEF Persist, Stop
  <2>15. Passed(j) = {} BY <2>13 DEF Passed, UploadSteps
  <2>16. CASE disk' = s /\ st' = s /\ job' = j
    <3>1. j # Idle BY <2>13, BlankTypes
    <3>2. cfg'.dir = id BY <1>8, <2>16, <3>1
    <3>3. s.gen = cfg.gen /\ cfg.paired BY <1>1, <1>3, <2>9, Facts
    <3>4. Placed(s, j)'
      BY <2>2, <2>3, <2>9, <2>13, <3>2, <3>3 DEF Placed, FileSteps, UploadSteps, Ids
    <3> QED BY <1>3, <2>3, <2>4, <2>7, <2>9, <2>11, <2>13, <2>15, <2>16, <3>4, StepGood
  <2>17. CASE job' = Idle /\ st' = Blank /\ disk' \in {d, s}
    BY <1>3, <2>3, <2>4, <2>7, <2>9, <2>11, <2>13, <2>17, StepGood
  <2> QED BY <2>14, <2>16, <2>17
<1>9. given \in Nat /\ st.pend \in 0..MaxId /\ MaxId \in Nat BY <1>3 DEF Records
<1>10. \/ Error(st, 1) /\ UNCHANGED <<cfg, given>>
       \/ (\E f \in dirs : ConfirmFolder(f, 0)) /\ UNCHANGED given
       \/ /\ dirs = {}
          /\ IF id > MaxId THEN Error(st, 0) /\ UNCHANGED <<cfg, given>>
             ELSE /\ given' = IF again THEN given ELSE id
                  /\ Persist([st EXCEPT !.pend = id], [job EXCEPT !.pc = "mkdir"], 0)
                  /\ cfg' \in {cfg, [cfg EXCEPT !.dir = id]}
                  /\ job' # Idle => cfg'.dir = id
  BY <1>6, <1>7, Zenon DEF ListFolders
<1>11. id > MaxId \/ id <= MaxId BY <1>7, <1>9
<1> QED BY <1>4, <1>5, <1>8, <1>10, <1>11

LEMMA MakeFolderGood == ASSUME DriveInv, MakeFolder PROVE DriveInv'
<1>1. /\ job.pc = "mkdir" /\ job.pc # "idle" /\ UNCHANGED <<local, files, sess, given, moved>>
      /\ job.pc \in FolderSteps
  BY DEF MakeFolder, At, FolderSteps
<1>2. PICK d : d = disk OBVIOUS
<1>3. /\ RemoteTyped /\ Kept(d) /\ d \in Records /\ ~d.full /\ st = d /\ cfg \in Settings
      /\ local' \in [Assets -> Contents \cup {0}]
  BY <1>1, <1>2, Facts DEF DriveInv, DriveTyped
<1>4. st.pend = cfg.dir /\ d.pend = cfg.dir /\ st.pend \in Ids
  <2>1. st.pend = cfg.dir /\ st.pend # 0 BY <1>1, Facts DEF Placed
  <2>2. st.pend \in 0..MaxId /\ MaxId \in Nat BY <1>3, DriveAssumption DEF Records
  <2> QED BY <1>3, <2>1, <2>2 DEF Ids
\* Drive has the folder.
<1>5. ASSUME st.pend \notin moved, dirs' = dirs \cup {st.pend}, late' = late
      PROVE  RemoteTyped' /\ (cfg' = cfg => Kept(d)')
  <2>1. \A x, a, g : Claimed(x, a, g)' <=> Claimed(x, a, g)
    BY <1>1, <1>5 DEF Claimed, There, Away
  <2>2. RemoteTyped' BY <1>1, <1>3, <1>4, <1>5 DEF RemoteTyped
  <2>3. ASSUME cfg' = cfg PROVE Kept(d)'
    <3>1. Numbered(d)'
      <4>1. dirs' \subseteq 1..given'
        <5>1. d.pend <= given /\ dirs \subseteq 1..given BY <1>3 DEF Kept, Numbered
        <5>2. given \in Nat BY <1>3 DEF RemoteTyped
        <5>3. st.pend \in 1..given BY <1>3, <1>4, <5>1, <5>2, DriveAssumption DEF Ids
        <5> QED BY <1>1, <1>5, <5>1, <5>3
      <4>2. /\ \A x \in Ids : There(x) => x \notin dirs' /\ x # d.pend
            /\ \A a \in Assets : d.of[a].id # 0 => d.of[a].id \notin dirs'
            /\ \A r \in late : Creates(r) => r.id \notin dirs'
        BY <1>3, <1>5 DEF Kept, Numbered
      <4> QED BY <1>1, <1>3, <1>5, <4>1, <4>2 DEF Kept, Numbered, There
    <3>2. Foldered(d)' BY <1>1, <1>3, <1>4, <1>5, <2>3 DEF Kept, Foldered, There
    <3>3. Owned(d)' BY <1>1, <1>3, <1>5 DEF Kept, Owned, There
    <3>4. Tracked(d)' BY <1>3, <2>1, <2>3 DEF Kept, Tracked
    <3> QED BY <3>1, <3>2, <3>3, <3>4 DEF Kept
  <2> QED BY <2>2, <2>3
<1>6. CASE /\ st.pend \notin moved /\ dirs' = dirs \cup {st.pend} /\ late' = late
           /\ \E c \in {0, 1} : ConfirmFolder(st.pend, c)
  <2>1. PICK f : f = st.pend OBVIOUS
  <2>2. f \in Ids /\ f = cfg.dir /\ f \in dirs' \cup moved' BY <1>4, <1>6, <2>1
  <2> QED BY <1>1, <1>2, <1>5, <1>6, <2>1, <2>2, ConfirmGood
<1>7. CASE /\ st.pend \notin moved /\ dirs' = dirs \cup {st.pend} /\ late' = late
           /\ Error(st, 1) /\ UNCHANGED cfg
  BY <1>1, <1>2, <1>5, <1>7, FailedGood
<1>8. CASE Error(st, 0) /\ UNCHANGED <<cfg, dirs, late>>
  BY <1>1, <1>8, FailsGood DEF remote
\* The request is on its way.
<1>9. CASE /\ Error(st, 1) /\ late' \in {late, late \cup {[id |-> st.pend, file |-> NoFile]}}
           /\ UNCHANGED <<dirs, cfg>>
  <2>1. PICK q : q = [id |-> st.pend, file |-> NoFile] OBVIOUS
  <2>2. q \in Requests /\ q.id = d.pend /\ ~Creates(q)
    BY <1>3, <1>4, <2>1, BlankTypes DEF Requests, Creates, NoFile
  <2>3. RemoteTyped' BY <1>1, <1>3, <1>9, <2>1, <2>2 DEF RemoteTyped
  <2>4. \A r \in late' : r \in late \/ r = q BY <1>9, <2>1
  <2>5. \A r \in late : r \in late' BY <1>9
  <2>6. \A r : Creates(r)' <=> Creates(r) BY DEF Creates
  <2>7. \A x, a, g : Claimed(x, a, g)' <=> Claimed(x, a, g)
    BY <1>1, <1>9, <2>2, <2>4, <2>5, <2>6 DEF Claimed, There, Away
  <2>8. Kept(d)'
    <3>1. Numbered(d)'
      <4>1. \A r \in late' : r.id <= given BY <1>3, <2>2, <2>4 DEF Kept, Numbered
      <4>2. ASSUME NEW r \in late'
            PROVE  IF Creates(r) THEN r.id \notin dirs /\ r.id # d.pend
                   ELSE ~There(r.id) /\ \A a \in Assets : d.of[a].id # r.id
        <5>1. CASE r \in late BY <1>3, <5>1 DEF Kept, Numbered
        <5>2. CASE r = q
          <6>1. ~There(d.pend) /\ \A a \in Assets : d.of[a].id # d.pend
            BY <1>3, <1>4 DEF Kept, Numbered, Ids
          <6> QED BY <2>2, <5>2, <6>1
        <5> QED BY <2>4, <5>1, <5>2
      <4>3. ASSUME NEW r \in late', NEW p \in late', Creates(r), ~Creates(p) PROVE r.id # p.id
        BY <1>3, <2>2, <2>4, <4>3 DEF Kept, Numbered
      <4> QED BY <1>1, <1>3, <1>9, <2>6, <4>1, <4>2, <4>3 DEF Kept, Numbered, There
    <3>2. Foldered(d)'
      <4>1. d.gen = cfg.gen BY <1>1, <1>3, Facts
      <4>2. ASSUME NEW r \in late'
            PROVE  /\ ~Creates(r) => /\ r.id \in moved \cup {cfg.dir}
                                     /\ cfg.paired => r.id \in moved \cup dirs \cup {d.pend}
                   /\ Creates(r) => r.file.dir \in dirs \cup moved
        BY <1>3, <1>4, <2>2, <2>4 DEF Kept, Foldered
      <4> QED BY <1>1, <1>3, <1>9, <2>6, <4>1, <4>2 DEF Kept, Foldered, There
    <3>3. Owned(d)' BY <1>1, <1>3, <1>9, <2>2, <2>4, <2>6 DEF Kept, Owned, There
    <3>4. Tracked(d)' BY <1>3, <1>9, <2>7 DEF Kept, Tracked
    <3> QED BY <3>1, <3>2, <3>3, <3>4 DEF Kept
  <2> QED BY <1>1, <1>2, <1>9, <2>3, <2>8, FailedGood
<1>10. CASE Persist(st, [job EXCEPT !.renewed = TRUE], 1) /\ UNCHANGED <<dirs, cfg, late>>
  <2>1. PICK j : j = [job EXCEPT !.renewed = TRUE] OBVIOUS
  <2>2. j \in JobStates /\ j.pc = "mkdir" BY <1>1, <2>1, Facts DEF JobStates
  <2> QED BY <1>1, <1>10, <2>1, <2>2, FolderStepGood DEF FolderSteps, remote
<1> QED BY <1>6, <1>7, <1>8, <1>9, <1>10 DEF MakeFolder

-----------------------------------------------------------------------------
(* The ids of the files.                                                     *)

\* The record is replaced while Drive's files stay as they are.
LEMMA FitGood ==
  ASSUME DriveInv, job.pc # "idle", UNCHANGED <<local, cfg, files, dirs, sess, late, moved>>,
         RemoteTyped', NEW d, d = disk, Kept(d)', NEW s, Fits(d, s)', s.gen = d.gen, ~s.full,
         NEW j \in JobStates, Passed(j) = {}, Placed(s, j), NEW c, Persist(s, j, c)
  PROVE  DriveInv'
<1>1. d \in Records /\ ~d.full /\ st = d BY Facts
<1>2. local' \in [Assets -> Contents \cup {0}] /\ cfg' \in Settings BY DEF DriveInv, DriveTyped
<1>3. Placed(s, j)' BY DEF Placed
<1>4. \/ disk' = s /\ st' = s /\ job' = j
      \/ job' = Idle /\ st' = Blank /\ disk' \in {d, s}
  BY DEF Persist, Stop
<1> QED BY <1>1, <1>2, <1>3, <1>4, StepGood

\* The entries of a file without a session: no id, one found, one reserved.
Lone(w) == [NoAsset EXCEPT !.want = w]
Found(w, x) == [NoAsset EXCEPT !.want = w, !.id = x]
Booked(w, x) == [NoAsset EXCEPT !.want = w, !.res = TRUE, !.id = x]

LEMMA EntryTypes ==
  ASSUME NEW w \in Contents \cup {0}, NEW x \in 0..MaxId
  PROVE  /\ Lone(w) \in AssetRecords /\ Lone(w).id = 0 /\ Lone(w).want = w /\ ~Lone(w).ses
         /\ Found(w, x) \in AssetRecords /\ Found(w, x).id = x /\ Found(w, x).want = w
         /\ ~Found(w, x).ses
         /\ Booked(w, x) \in AssetRecords /\ Booked(w, x).id = x /\ Booked(w, x).want = w
         /\ ~Booked(w, x).ses /\ Booked(w, x).res
<1>1. PICK n : n = NoAsset OBVIOUS
<1>2. n \in AssetRecords /\ n.id = 0 /\ ~n.ses BY <1>1, BlankTypes DEF NoAsset
<1>3. /\ Lone(w) = [n EXCEPT !.want = w] /\ Found(w, x) = [n EXCEPT !.want = w, !.id = x]
      /\ Booked(w, x) = [n EXCEPT !.want = w, !.res = TRUE, !.id = x]
  BY <1>1 DEF Lone, Found, Booked
<1>4. Lone(w) \in AssetRecords /\ Lone(w).id = 0 /\ Lone(w).want = w /\ ~Lone(w).ses
  BY <1>2, <1>3 DEF AssetRecords
<1>5. /\ Found(w, x) \in AssetRecords /\ Found(w, x).id = x /\ Found(w, x).want = w
      /\ ~Found(w, x).ses
  BY <1>2, <1>3 DEF AssetRecords
<1>6. /\ Booked(w, x) \in AssetRecords /\ Booked(w, x).id = x /\ Booked(w, x).want = w
      /\ ~Booked(w, x).ses /\ Booked(w, x).res
  BY <1>2, <1>3 DEF AssetRecords
<1> QED BY <1>4, <1>5, <1>6

LEMMA PrepareKnownGood == ASSUME DriveInv, PrepareKnown PROVE DriveInv'
<1>1. /\ job.pc = "prepare" /\ job.pc # "idle" /\ UNCHANGED <<local, cfg, remote>>
      /\ mine.want # 0 /\ mine.id # 0
  BY DEF PrepareKnown, At
<1>2. PICK d : d = disk OBVIOUS
<1>3. /\ d \in Records /\ ~d.full /\ st = d /\ RemoteTyped /\ Kept(d) /\ job \in JobStates
      /\ here \in Assets /\ mine \in AssetRecords /\ mine = d.of[here]
      /\ st.dir = cfg.dir /\ st.dir # 0 /\ Placed(st, job)
  BY <1>1, <1>2, Facts DEF DriveInv, DriveTyped, Placed, FileSteps
<1>4. PICK v : v = Verdict(here) OBVIOUS
<1>5. CASE Error(st, 1) BY <1>1, <1>5, FailsGood
<1>6. CASE Goto(Advance([job EXCEPT !.insp[here] = v], "ids"), 0)
  <2>1. v \in Verdicts BY <1>4 DEF Verdict, Verdicts
  <2>2. PICK j : j = [job EXCEPT !.insp[here] = v] OBVIOUS
  <2>3. j \in JobStates /\ j.pc = "prepare" BY <1>1, <1>3, <2>1, <2>2, SeenFacts
  <2> QED BY <1>1, <1>6, <2>2, <2>3, PreparedGood
<1>7. CASE Lost(v, mine) /\ Persist(With(here, [NoAsset EXCEPT !.want = mine.want]), job, 0)
  <2>1. PICK r : r = [NoAsset EXCEPT !.want = mine.want] OBVIOUS
  <2>2. r \in AssetRecords /\ r.id = 0 /\ ~r.ses
    <3>1. mine.want \in Contents \cup {0} /\ mine.id \in 0..MaxId BY <1>3 DEF AssetRecords
    <3> QED BY <2>1, <3>1, EntryTypes DEF Lone
  <2>3. PICK s : s = With(here, r) OBVIOUS
  <2>4. /\ s \in Records /\ s.of[here] = r /\ ~s.full /\ s.gen = d.gen /\ s.dir = d.dir
        /\ s.pend = d.pend /\ \A b \in Assets : b # here => s.of[b] = d.of[b]
    BY <1>1, <1>3, <2>2, <2>3, WithFacts
  <2>5. \A x \in Ids : ~Claimed(x, here, cfg.gen)
    <3> SUFFICES ASSUME NEW x \in Ids, Claimed(x, here, cfg.gen) PROVE FALSE OBVIOUS
    <3>1. mine.id = x BY <1>3 DEF Kept, Tracked
    <3>2. CASE v = "foreign"
      <4>1. There(x) /\ (Away(x) \/ files[x].dir # st.dir \/ files[x].of # here)
        BY <1>3, <1>4, <3>1, <3>2 DEF Verdict, There, mine
      <4>2. ~Away(x) /\ files[x].of = here BY <4>1 DEF Claimed
      <4>3. files[x].dir \in dirs BY <1>3, <4>1, <4>2 DEF Kept, Foldered, Away
      <4> QED BY <1>3, <4>1, <4>2, <4>3 DEF Kept, Foldered
    <3>3. CASE v = "missing" /\ ~mine.res
      <4>1. ~There(x) BY <1>3, <1>4, <3>1, <3>3 DEF Verdict, There, mine
      <4> QED BY <1>1, <1>3, <3>1, <3>3, <4>1 DEF Kept, Owned
    <3> QED BY <1>7, <3>2, <3>3 DEF Lost
  <2>6. \A b \in Assets : SameId(d, s, b)' \/ NoId(s, b)'
    <3> TAKE b \in Assets
    <3>1. CASE b = here
      <4>1. \A x \in Ids : ~Claimed(x, b, cfg.gen) BY <2>5, <3>1
      <4>2. \A x \in Ids : ~Claimed(x, b, cfg.gen)'
        BY <1>1, <4>1 DEF Claimed, There, Away, remote
      <4> QED BY <2>2, <2>4, <3>1, <4>2 DEF NoId
    <3>2. CASE b # here BY <2>4, <3>2 DEF SameId
    <3> QED BY <3>1, <3>2
  <2>7. RemoteTyped' /\ Kept(d)' BY <1>1, <1>3, SameRemote
  <2>8. Fits(d, s)' BY <2>4, <2>6, <2>7 DEF Fits, Kept, Foldered
  <2>9. Passed(job) = {} BY <1>1 DEF Passed, UploadSteps
  <2>10. Placed(s, job) BY <1>1, <1>3, <2>4 DEF Placed, FileSteps, UploadSteps
  <2> QED BY <1>1, <1>2, <1>3, <1>7, <2>1, <2>3, <2>4, <2>7, <2>8, <2>9, <2>10, FitGood DEF remote
<1> QED BY <1>4, <1>5, <1>6, <1>7 DEF PrepareKnown

LEMMA ReconcileGood == ASSUME DriveInv, Reconcile PROVE DriveInv'
<1>1. /\ job.pc = "prepare" /\ job.pc # "idle" /\ UNCHANGED <<local, cfg, remote>>
      /\ mine.want # 0 /\ mine.id = 0
  BY DEF Reconcile, At
<1>2. PICK d : d = disk OBVIOUS
<1>3. /\ d \in Records /\ ~d.full /\ st = d /\ RemoteTyped /\ Kept(d) /\ job \in JobStates
      /\ here \in Assets /\ mine \in AssetRecords /\ mine = d.of[here]
      /\ st.dir = cfg.dir /\ st.dir # 0 /\ Placed(st, job)
  BY <1>1, <1>2, Facts DEF DriveInv, DriveTyped, Placed, FileSteps
<1>4. CASE Error(st, 1) BY <1>1, <1>4, FailsGood
<1>5. CASE Goto(Advance(job, "ids"), 0) BY <1>1, <1>3, <1>5, PreparedGood
<1>6. ASSUME NEW x \in Matches(here),
             Persist(With(here, [NoAsset EXCEPT !.want = mine.want, !.id = x]),
                     Advance([job EXCEPT !.insp[here] = "match"], "ids"), 0)
      PROVE  DriveInv'
  <2>1. /\ x \in Ids /\ x \in 0..MaxId /\ files[x].of = here /\ There(x)
        /\ mine.want \in Contents \cup {0}
    BY <1>1, <1>3, DriveAssumption DEF Matches, Ids, There, AssetRecords, mine
  <2>2. PICK r : r = [NoAsset EXCEPT !.want = mine.want, !.id = x] OBVIOUS
  <2>3. r \in AssetRecords /\ r.id = x /\ ~r.ses
    <3>1. PICK w \in Contents \cup {0} : w = mine.want BY <2>1
    <3>2. r = Found(w, x) BY <2>2, <3>1 DEF Found
    <3> QED BY <2>1, <3>1, <3>2, EntryTypes
  <2>4. PICK s : s = With(here, r) OBVIOUS
  <2>5. /\ s \in Records /\ s.of[here] = r /\ ~s.full /\ s.gen = d.gen /\ s.dir = d.dir
        /\ s.pend = d.pend /\ \A b \in Assets : b # here => s.of[b] = d.of[b]
    BY <1>1, <1>3, <2>3, <2>4, WithFacts
  <2>6. PICK e : e = here OBVIOUS
  <2>7. NewId(d, s, e)
    <3>1. d.of[e].id = 0 /\ s.of[e].id = x /\ ~s.of[e].ses BY <1>1, <1>3, <2>3, <2>5, <2>6
    <3>2. x # 0 /\ x <= given /\ x \notin dirs /\ x # d.pend
      BY <1>3, <2>1, DriveAssumption DEF Kept, Numbered, Ids
    <3>3. \A q \in late : q.id = x => Creates(q) /\ q.file.of = e
      BY <1>3, <2>1, <2>6 DEF Kept, Numbered, Owned
    <3>4. \A b \in Assets : s.of[b].id = x => e = b
      BY <1>3, <2>1, <2>5, <2>6, <3>2 DEF Kept, Owned
    <3> QED BY <2>1, <2>6, <3>1, <3>2, <3>3, <3>4 DEF NewId
  <2>8. NewId(d, s, e)' BY <1>1, <2>7 DEF NewId, There, remote, Creates
  <2>9. \A b \in Assets : SameId(d, s, b)' \/ NewId(d, s, b)'
    <3> TAKE b \in Assets
    <3>1. CASE b = e BY <2>8, <3>1
    <3>2. CASE b # e BY <2>5, <2>6, <3>2 DEF SameId
    <3> QED BY <3>1, <3>2
  <2>10. RemoteTyped' /\ Kept(d)' BY <1>1, <1>3, SameRemote
  <2>11. Fits(d, s)' BY <2>5, <2>9, <2>10 DEF Fits, Kept, Foldered
  <2>12. PICK k : k = [job EXCEPT !.insp[here] = "match"] OBVIOUS
  <2>13. k \in JobStates /\ k.pc = "prepare"
    <3>1. "match" \in Verdicts BY DEF Verdicts
    <3> QED BY <1>1, <1>3, <2>12, <3>1, SeenFacts
  <2>14. PICK j : j = Advance(k, "ids") OBVIOUS
  <2>15. j \in JobStates /\ j.pc \in FileSteps /\ (j.pc = "ids" => j.i = 1)
    BY <2>13, <2>14, AdvanceFacts DEF FileSteps
  <2>16. Passed(j) = {} BY <2>15 DEF Passed, FileSteps, UploadSteps
  <2>17. Placed(s, j) BY <1>1, <1>3, <2>5, <2>15 DEF Placed, FileSteps, UploadSteps
  <2>18. Persist(s, j, 0) BY <1>6, <2>2, <2>4, <2>12, <2>14
  <2> QED
    BY <1>1, <1>2, <2>5, <2>10, <2>11, <2>15, <2>16, <2>17, <2>18, FitGood DEF remote
<1> QED BY <1>4, <1>5, <1>6 DEF Reconcile

\* Numbered one after the other, the members of a set get different numbers.
LEMMA RankFacts ==
  ASSUME NEW n \in Nat, NEW S \in SUBSET (1..n)
  PROVE  /\ Cardinality(S) \in Nat
         /\ \A k \in S : Cardinality({l \in S : l <= k}) \in 1..Cardinality(S)
         /\ \A j, k \in S :
              Cardinality({l \in S : l <= j}) = Cardinality({l \in S : l <= k}) => j = k
<1> DEFINE Below(k) == {l \in S : l <= k}
<1>1. IsFiniteSet(S)
  <2>1. IsFiniteSet(1..n) BY FS_Interval
  <2> QED BY <2>1, FS_Subset
<1>2. \A T \in SUBSET S : IsFiniteSet(T) /\ Cardinality(T) \in Nat
  BY <1>1, FS_Subset, FS_CardinalityType
<1>3. ASSUME NEW k \in S PROVE Cardinality(Below(k)) \in 1..Cardinality(S)
  <2>1. Below(k) \in SUBSET S /\ k \in Below(k) OBVIOUS
  <2>2. Cardinality(Below(k)) <= Cardinality(S) BY <1>1, <2>1, FS_Subset
  <2>3. Cardinality(Below(k)) # 0 BY <1>2, <2>1, FS_EmptySet
  <2> QED BY <1>2, <2>1, <2>2, <2>3
<1>4. ASSUME NEW j \in S, NEW k \in S, j < k, Cardinality(Below(j)) = Cardinality(Below(k))
      PROVE  FALSE
  <2>1. Below(j) \in SUBSET Below(k)
    <3>1. j \in Nat /\ k \in Nat /\ \A l \in S : l \in Nat OBVIOUS
    <3>2. \A l \in S : l <= j => l <= k BY <1>4, <3>1
    <3> QED BY <3>2
  <2>2. IsFiniteSet(Below(k)) BY <1>2
  <2>3. Below(j) = Below(k) BY <1>4, <2>1, <2>2, FS_Subset
  <2>4. k \in Below(k) /\ k \notin Below(j) BY <1>4
  <2> QED BY <2>3, <2>4
<1>5. ASSUME NEW j \in S, NEW k \in S, Cardinality(Below(j)) = Cardinality(Below(k)) PROVE j = k
  <2>1. j < k \/ k < j \/ j = k OBVIOUS
  <2> QED BY <1>4, <1>5, <2>1
<1>6. Cardinality(S) \in Nat BY <1>2
<1> QED BY <1>3, <1>5, <1>6

LEMMA ReserveIdsGood == ASSUME DriveInv, ReserveIds PROVE DriveInv'
<1>1. /\ job.pc = "ids" /\ job.pc # "idle"
      /\ UNCHANGED <<local, cfg, files, dirs, sess, late, moved>>
  BY DEF ReserveIds, At
<1>2. PICK d : d = disk OBVIOUS
<1>3. /\ d \in Records /\ ~d.full /\ st = d /\ RemoteTyped /\ Kept(d) /\ job \in JobStates
      /\ st.dir = cfg.dir /\ st.dir # 0 /\ Placed(st, job) /\ job.i = 1 /\ given \in 0..MaxId
      /\ MaxId \in Nat
  BY <1>1, <1>2, Facts, DriveAssumption DEF DriveInv, DriveTyped, RemoteTyped, Placed, FileSteps
<1>4. PICK new : new = {k \in DOMAIN Order : st.of[Order[k]].want # 0 /\ st.of[Order[k]].id = 0}
  OBVIOUS
<1>5. CASE (Error(st, 0) \/ Error(st, 1)) /\ UNCHANGED given
  BY <1>1, <1>5, FailsGood DEF remote
<1>6. CASE new = {} /\ Goto([job EXCEPT !.pc = "upload"], 0) /\ UNCHANGED given
  <2>1. PICK j : j = [job EXCEPT !.pc = "upload"] OBVIOUS
  <2>2. j \in JobStates /\ j.pc = "upload" /\ j.i = 1 BY <1>3, <2>1 DEF JobStates, UploadSteps
  <2>3. \A a \in Assets : st.of[a].want # 0 => st.of[a].id # 0 BY <1>4, <1>6, OrderFacts
  <2>4. Placed(st, j) BY <1>1, <1>3, <2>2, <2>3 DEF Placed, FileSteps, UploadSteps
  <2>5. Passed(j) = {} BY <2>2 DEF Passed, UploadSteps
  <2> QED BY <1>1, <1>6, <2>1, <2>2, <2>4, <2>5, GotoGood DEF remote
<1>7. ASSUME NEW e, new # {}, given + Cardinality(new) <= MaxId,
             e = [a \in Assets |->
                    IF \E k \in new : Order[k] = a
                    THEN Booked(st.of[a].want,
                                given + Cardinality(
                                          {l \in new : l <= CHOOSE k \in new : Order[k] = a}))
                    ELSE st.of[a]],
             given' = given + Cardinality(new),
             Persist([st EXCEPT !.of = e],
                     [job EXCEPT !.pc = "upload", !.fresh = {Order[k] : k \in new}], 0)
      PROVE  DriveInv'
  <2>1. /\ new \in SUBSET (1..Len(Order)) /\ Len(Order) \in Nat
        /\ \A k \in new : Order[k] \in Assets
        /\ \A j, k \in new : Order[j] = Order[k] => j = k
    BY <1>4, OrderFacts
  <2> DEFINE rank(k) == Cardinality({l \in new : l <= k})
  <2>2. /\ Cardinality(new) \in Nat /\ \A k \in new : rank(k) \in 1..Cardinality(new)
        /\ \A j, k \in new : rank(j) = rank(k) => j = k
    BY <2>1, RankFacts
  <2>3. PICK id : \A k \in new : id[k] = given + rank(k)
    <3>1. PICK id : id = [k \in new |-> given + rank(k)] OBVIOUS
    <3> QED BY <3>1
  <2>4. /\ \A k \in new : given < id[k] /\ id[k] <= given' /\ id[k] \in Ids
        /\ \A j, k \in new : id[j] = id[k] => j = k
    <3>1. ASSUME NEW k \in new PROVE given < id[k] /\ id[k] <= given' /\ id[k] \in Ids
      <4>1. id[k] = given + rank(k) /\ rank(k) \in 1..Cardinality(new) BY <2>2, <2>3
      <4> HIDE DEF rank
      <4> QED BY <1>3, <1>7, <2>2, <4>1 DEF Ids
    <3>2. ASSUME NEW j \in new, NEW k \in new, id[j] = id[k] PROVE j = k
      <4>1. given + rank(j) = given + rank(k) /\ rank(j) \in Nat /\ rank(k) \in Nat
        BY <2>2, <2>3, <3>2
      <4>2. rank(j) = rank(k) BY <1>3, <4>1
      <4> QED BY <2>2, <4>2
    <3> QED BY <3>1, <3>2
  <2>5. ASSUME NEW a \in Assets
        PROVE  \/ ~(\E k \in new : Order[k] = a) /\ e[a] = st.of[a]
               \/ \E k \in new : Order[k] = a /\ e[a] = Booked(st.of[a].want, id[k])
    <3>1. CASE ~(\E k \in new : Order[k] = a) BY <1>7, <3>1
    <3>2. CASE \E k \in new : Order[k] = a
      <4>1. PICK k : k = CHOOSE m \in new : Order[m] = a OBVIOUS
      <4>2. k \in new /\ Order[k] = a BY <3>2, <4>1
      <4>3. e[a] = Booked(st.of[a].want, given + rank(k)) BY <1>7, <3>2, <4>1
      <4> QED BY <2>3, <4>2, <4>3
    <3> QED BY <3>1, <3>2
  <2> HIDE DEF rank
  <2>6. \A a \in Assets : st.of[a] \in AssetRecords /\ st.of[a].want \in Contents \cup {0}
    BY <1>3 DEF Records, AssetRecords
  <2>7. ASSUME NEW k \in new
        PROVE  /\ e[Order[k]] \in AssetRecords /\ e[Order[k]].id = id[k] /\ e[Order[k]].res
               /\ ~e[Order[k]].ses /\ e[Order[k]].want = st.of[Order[k]].want
               /\ st.of[Order[k]].id = 0
    <3>1. Order[k] \in Assets /\ id[k] \in 0..MaxId BY <1>3, <2>1, <2>4 DEF Ids
    <3>2. PICK m \in new : Order[m] = Order[k] /\ e[Order[k]] = Booked(st.of[Order[k]].want, id[m])
      BY <2>5, <3>1
    <3>3. e[Order[k]] = Booked(st.of[Order[k]].want, id[k]) BY <2>1, <3>2
    <3>4. st.of[Order[k]].id = 0 BY <1>4
    <3> QED BY <2>6, <3>1, <3>3, <3>4, EntryTypes
  <2>8. \A a \in Assets : \/ e[a] = st.of[a] /\ (st.of[a].want # 0 => st.of[a].id # 0)
                          \/ \E k \in new : a = Order[k]
    <3> TAKE a \in Assets
    <3>1. PICK m \in DOMAIN Order : Order[m] = a BY OrderFacts
    <3>2. CASE m \in new BY <3>1, <3>2
    <3>3. CASE ~(\E k \in new : Order[k] = a)
      <4>1. ~(st.of[a].want # 0 /\ st.of[a].id = 0) BY <1>4, <3>1, <3>3
      <4> QED BY <2>5, <3>3, <4>1
    <3> QED BY <3>1, <3>2, <3>3
  <2>9. e \in [Assets -> AssetRecords]
    <3>1. \A a \in Assets : e[a] \in AssetRecords BY <2>6, <2>7, <2>8
    <3> QED BY <1>7, <3>1
  <2>10. PICK s : s = [st EXCEPT !.of = e] OBVIOUS
  <2>11. /\ s \in Records /\ s.of = e /\ ~s.full
         /\ s.gen = d.gen /\ s.dir = d.dir /\ s.pend = d.pend
    BY <1>3, <2>9, <2>10 DEF Records
  <2>12. RemoteTyped'
    <3>1. given' \in 0..MaxId BY <1>3, <1>7, <2>2
    <3> QED BY <1>1, <1>3, <3>1 DEF RemoteTyped
  <2>13. \A x \in 0..MaxId : x <= given => x <= given' BY <1>3, <1>7, <2>2
  <2>14. \A x, a, g : Claimed(x, a, g)' <=> Claimed(x, a, g) BY <1>1 DEF Claimed, There, Away
  <2>15. /\ \A a \in Assets : d.of[a].id \in 0..MaxId
         /\ \A r \in late : r.id \in 0..MaxId
         /\ Ids \subseteq 0..MaxId /\ d.pend \in 0..MaxId
    BY <1>3 DEF Records, AssetRecords, RemoteTyped, Requests, Ids
  <2>16. Kept(d)'
    <3>1. Numbered(d)'
      <4>1. dirs' \subseteq 1..given' /\ moved' \subseteq 1..given'
        <5>1. \A x \in Nat : x <= given => x <= given' BY <1>3, <1>7, <2>2
        <5> QED BY <1>1, <1>3, <2>12, <5>1 DEF Kept, Numbered, RemoteTyped
      <4> QED BY <1>1, <1>3, <2>13, <2>15, <4>1 DEF Kept, Numbered, There
    <3>2. Foldered(d)' BY <1>1, <1>3 DEF Kept, Foldered, There
    <3>3. Owned(d)' BY <1>1, <1>3 DEF Kept, Owned, There
    <3>4. Tracked(d)' BY <1>1, <1>3, <2>14 DEF Kept, Tracked
    <3> QED BY <3>1, <3>2, <3>3, <3>4 DEF Kept
  <2>17. ASSUME NEW k \in new PROVE NewId(d, s, Order[k])'
    <3>1. PICK x \in Ids : x = id[k] BY <2>4
    <3>2. PICK a \in Assets : a = Order[k] BY <2>1
    <3>3. d.of[a].id = 0 /\ s.of[a].id = x /\ ~s.of[a].ses /\ s.of[a].res
      BY <1>3, <2>7, <2>11, <3>1, <3>2
    <3>4. given < x /\ x <= given' /\ x # 0 /\ x \in Nat BY <1>3, <2>4, <3>1 DEF Ids
    <3>5. \A y \in 0..MaxId : y <= given => y # x BY <1>3, <3>4
    <3>6. x \notin dirs /\ x # d.pend /\ ~There(x) /\ \A r \in late : r.id # x
      <4>1. x \notin dirs
        <5>1. dirs \subseteq 1..given BY <1>3 DEF Kept, Numbered
        <5> QED BY <1>3, <3>4, <5>1
      <4>2. x # d.pend /\ ~There(x) /\ \A r \in late : r.id # x
        BY <1>3, <2>15, <3>5 DEF Kept, Numbered
      <4> QED BY <4>1, <4>2
    <3>7. ASSUME NEW b \in Assets, s.of[b].id = x PROVE a = b
      <4>1. CASE s.of[b] = d.of[b]
        <5>1. d.of[b].id <= given BY <1>3 DEF Kept, Numbered
        <5> QED BY <2>15, <3>5, <3>7, <4>1, <5>1
      <4>2. CASE \E m \in new : b = Order[m]
        <5>1. PICK m \in new : b = Order[m] BY <4>2
        <5>2. id[m] = id[k] BY <2>7, <2>11, <3>1, <3>7, <5>1
        <5> QED BY <2>4, <3>2, <5>1, <5>2
      <4> QED BY <1>3, <2>8, <2>11, <4>1, <4>2
    <3>8. NewId(d, s, a)'
      <4>1. ~There(x)' BY <1>1, <3>6 DEF There
      <4> QED BY <1>1, <3>3, <3>4, <3>6, <3>7, <4>1 DEF NewId
    <3> QED BY <3>2, <3>8
  <2>18. \A a \in Assets : SameId(d, s, a)' \/ NewId(d, s, a)'
    <3> TAKE a \in Assets
    <3>1. CASE e[a] = st.of[a] BY <1>3, <2>11, <3>1 DEF SameId
    <3>2. CASE \E k \in new : a = Order[k]
      <4>1. PICK k \in new : a = Order[k] BY <3>2
      <4> QED BY <2>17, <4>1
    <3> QED BY <2>8, <3>1, <3>2
  <2>19. Fits(d, s)' BY <2>11, <2>16, <2>18 DEF Fits, Kept, Foldered
  <2>20. PICK j : j = [job EXCEPT !.pc = "upload", !.fresh = {Order[k] : k \in new}] OBVIOUS
  <2>21. PICK f \in SUBSET Assets : f = {Order[k] : k \in new} BY <2>1
  <2>22. j \in JobStates /\ j.pc = "upload" /\ j.i = 1
    <3>1. j = [job EXCEPT !.pc = "upload", !.fresh = f] BY <2>20, <2>21
    <3> QED BY <1>3, <3>1 DEF JobStates, UploadSteps
  <2>23. Placed(s, j)
    <3>1. \A a \in Assets : s.of[a].want # 0 => s.of[a].id # 0
      <4> TAKE a \in Assets
      <4>1. CASE e[a] = st.of[a] /\ (st.of[a].want # 0 => st.of[a].id # 0) BY <2>11, <4>1
      <4>2. CASE \E k \in new : a = Order[k]
        <5>1. PICK k \in new : a = Order[k] BY <4>2
        <5>2. s.of[a].id = id[k] /\ id[k] \in Ids BY <2>4, <2>7, <2>11, <5>1
        <5> QED BY <5>2 DEF Ids
      <4> QED BY <2>8, <4>1, <4>2
    <3> QED BY <1>1, <1>3, <2>11, <2>22, <3>1 DEF Placed, FileSteps, UploadSteps
  <2>24. Passed(j) = {} BY <2>22 DEF Passed, UploadSteps
  <2>25. Persist(s, j, 0) BY <1>7, <2>10, <2>20
  <2> QED BY <1>1, <1>2, <2>11, <2>12, <2>16, <2>19, <2>22, <2>23, <2>24, <2>25, FitGood
<1>8. PICK e : e = [a \in Assets |->
                      IF \E k \in new : Order[k] = a
                      THEN Booked(st.of[a].want,
                                  given + Cardinality(
                                            {l \in new : l <= CHOOSE k \in new : Order[k] = a}))
                      ELSE st.of[a]] OBVIOUS
<1>9. \/ (Error(st, 0) \/ Error(st, 1)) /\ UNCHANGED given
      \/ new = {} /\ Goto([job EXCEPT !.pc = "upload"], 0) /\ UNCHANGED given
      \/ /\ new # {} /\ ~(given + Cardinality(new) > MaxId) /\ given' = given + Cardinality(new)
         /\ Persist([st EXCEPT !.of = e],
                    [job EXCEPT !.pc = "upload", !.fresh = {Order[k] : k \in new}], 0)
  BY <1>4, <1>8, Zenon DEF ReserveIds, Booked
<1>10. given + Cardinality(new) > MaxId \/ given + Cardinality(new) <= MaxId
  <2>1. new \in SUBSET (1..Len(Order)) /\ Len(Order) \in Nat BY <1>4, OrderFacts
  <2>2. Cardinality(new) \in Nat BY <2>1, RankFacts
  <2> QED BY <1>3, <2>2
<1> QED BY <1>5, <1>6, <1>7, <1>8, <1>9, <1>10

-----------------------------------------------------------------------------
(* The world: late requests, the user, the server's sessions.                *)

LEMMA ExpireGood == ASSUME DriveInv, Expire PROVE DriveInv'
<1>1. UNCHANGED <<local, cfg, disk, st, job, files, dirs, late, given, moved>> BY DEF Expire
<1>2. PICK d : d = disk OBVIOUS
<1>3. RemoteTyped /\ Kept(d) /\ local \in [Assets -> Contents \cup {0}]
  BY <1>2 DEF DriveInv, DriveTyped
<1>4. PICK a \in Assets : sess' = [sess EXCEPT ![a].state = "dead"] BY DEF Expire
<1>5. sess' \in [Assets -> Sessions] /\ \A b \in Assets : sess'[b].id = sess[b].id
  <2>1. sess \in [Assets -> Sessions] BY <1>3 DEF RemoteTyped
  <2>2. PICK q : q = [sess[a] EXCEPT !.state = "dead"] OBVIOUS
  <2>3. q \in Sessions /\ q.id = sess[a].id BY <2>1, <2>2 DEF Sessions
  <2>4. sess' = [sess EXCEPT ![a] = q] BY <1>4, <2>2
  <2> QED BY <2>1, <2>3, <2>4
<1>6. RemoteTyped' BY <1>1, <1>3, <1>5 DEF RemoteTyped
<1>7. Kept(d)'
  <2>1. \A x, b, g : Claimed(x, b, g)' <=> Claimed(x, b, g) BY <1>1 DEF Claimed, There, Away
  <2>2. Numbered(d)' /\ Foldered(d)' /\ Owned(d)'
    BY <1>1, <1>3, <1>5 DEF Kept, Numbered, Foldered, Owned, There
  <2>3. Tracked(d)' BY <1>1, <1>3, <2>1 DEF Kept, Tracked
  <2> QED BY <2>2, <2>3 DEF Kept
<1>8. \A b \in Assets : Good(d, b) => Good(d, b)' BY <1>1 DEF Good, Away
<1> QED BY <1>1, <1>2, <1>3, <1>6, <1>7, <1>8, WorldGood

LEMMA UserMovesGood == ASSUME DriveInv, UserMoves PROVE DriveInv'
<1>1. UNCHANGED <<local, cfg, disk, st, job, files, sess, late, given>> BY DEF UserMoves
<1>2. PICK d : d = disk OBVIOUS
<1>3. RemoteTyped /\ Kept(d) /\ d \in Records /\ local \in [Assets -> Contents \cup {0}]
  BY <1>2 DEF DriveInv, DriveTyped
<1>4. PICK x \in Ids : /\ moved' = moved \cup {x} /\ dirs' = dirs \ {x}
                       /\ x <= given
  <2>1. CASE \E x \in 1..MaxId : files[x].has # 0 /\ moved' = moved \cup {x} /\ UNCHANGED dirs
    BY <1>3, <2>1 DEF Ids, There, Kept, Numbered
  <2>2. CASE \E x \in dirs : dirs' = dirs \ {x} /\ moved' = moved \cup {x}
    <3>1. dirs \subseteq Ids /\ dirs \subseteq 1..given BY <1>3 DEF RemoteTyped, Kept, Numbered
    <3> QED BY <2>2, <3>1
  <2> QED BY <2>1, <2>2 DEF UserMoves
<1>5. RemoteTyped' BY <1>1, <1>3, <1>4 DEF RemoteTyped
<1>6. \A y : Away(y) => Away(y)' BY <1>1, <1>4 DEF Away
<1>7. \A y, a, g : Claimed(y, a, g)' => Claimed(y, a, g)
  BY <1>1, <1>4 DEF Claimed, There, Away, Creates
<1>8. Kept(d)'
  <2>1. Numbered(d)'
    <3>1. x \in 1..given
      <4>1. given \in Nat /\ x \in Nat /\ x # 0 BY <1>3, DriveAssumption DEF RemoteTyped, Ids
      <4> QED BY <1>4, <4>1
    <3> QED BY <1>1, <1>3, <1>4, <3>1 DEF Kept, Numbered, There
  <2>2. Foldered(d)'
    <3>1. \A y : y \in dirs \cup moved => y \in dirs' \cup moved' BY <1>4
    <3>2. dirs' \subseteq {cfg.dir} /\ dirs' \cap moved' = {} BY <1>3, <1>4 DEF Kept, Foldered
    <3>3. /\ d.dir \in dirs' \cup moved' \cup {0}
          /\ \A r \in late : Creates(r) => r.file.dir \in dirs' \cup moved'
          /\ \A y \in Ids : files[y].dir \in IF There(y) THEN dirs' \cup moved' ELSE {0}
      BY <1>3, <3>1 DEF Kept, Foldered
    <3>4. \A r \in late :
            ~Creates(r) => /\ r.id \in moved' \cup {cfg.dir}
                           /\ cfg.paired => r.id \in moved' \cup dirs' \cup {d.pend}
      BY <1>3, <1>4 DEF Kept, Foldered
    <3>5. late # {} /\ cfg.paired => d.gen = cfg.gen BY <1>3 DEF Kept, Foldered
    <3> QED BY <1>1, <3>2, <3>3, <3>4, <3>5 DEF Foldered, There, Creates
  <2>3. Owned(d)' BY <1>1, <1>3 DEF Kept, Owned, There
  <2>4. Tracked(d)' BY <1>1, <1>3, <1>7 DEF Kept, Tracked
  <2> QED BY <2>1, <2>2, <2>3, <2>4 DEF Kept
<1>9. ASSUME NEW a \in Assets, Good(d, a) PROVE Good(d, a)'
  <2>1. CASE d.of[a].want = 0 BY <2>1 DEF Good
  <2>2. CASE d.of[a].want # 0
    <3>1. PICK y : y = d.of[a].id OBVIOUS
    <3>2. y # 0 BY <1>9, <2>2, <3>1 DEF Good
    <3>3. CASE Away(y)' BY <3>1, <3>2, <3>3 DEF Good
    <3>4. CASE ~Away(y)'
      <4>1. files[y].has = d.of[a].want /\ files[y].of = a /\ files[y].dir \in dirs
        BY <1>6, <1>9, <2>2, <3>1, <3>4 DEF Good
      <4>2. files[y].dir \in dirs' BY <1>1, <1>4, <3>4, <4>1 DEF Away
      <4> QED BY <1>1, <3>1, <3>2, <4>1, <4>2 DEF Good
    <3> QED BY <3>3, <3>4
  <2> QED BY <2>1, <2>2
<1> QED BY <1>1, <1>2, <1>3, <1>5, <1>8, <1>9, WorldGood

LEMMA ArriveGood == ASSUME DriveInv, Arrive PROVE DriveInv'
<1>1. UNCHANGED <<local, cfg, disk, st, job, sess, given, moved>> BY DEF Arrive, device
<1>2. PICK d : d = disk OBVIOUS
<1>3. RemoteTyped /\ Kept(d) /\ d \in Records /\ local \in [Assets -> Contents \cup {0}]
  BY <1>2 DEF DriveInv, DriveTyped
<1>4. PICK r \in late :
         /\ late' = late \ {r}
         /\ IF r.file.has = 0 THEN dirs' = dirs \cup ({r.id} \ moved) /\ UNCHANGED files
            ELSE /\ files' = IF files[r.id].has = 0 THEN [files EXCEPT ![r.id] = r.file] ELSE files
                 /\ UNCHANGED dirs
  BY Zenon DEF Arrive
<1>5. r \in Requests /\ r.id \in Ids /\ r.file \in FileRecords /\ \A q \in late' : q \in late
  BY <1>3, <1>4 DEF RemoteTyped, Requests
<1>6. \A q : Creates(q)' <=> Creates(q) BY DEF Creates
\* The folder is made.
<1>7. CASE ~Creates(r)
  <2>1. dirs' = dirs \cup ({r.id} \ moved) /\ UNCHANGED files BY <1>4, <1>7 DEF Creates
  <2>2. r.id <= given /\ ~There(r.id) /\ r.id \in moved \cup {cfg.dir}
        /\ \A a \in Assets : d.of[a].id # r.id
    BY <1>3, <1>7 DEF Kept, Numbered, Foldered
  <2>3. RemoteTyped' BY <1>1, <1>3, <1>5, <2>1, <1>4 DEF RemoteTyped
  <2>4. \A x, a, g : Claimed(x, a, g)' => Claimed(x, a, g)
    BY <1>1, <1>5, <2>1, <1>6 DEF Claimed, There, Away
  <2>5. Kept(d)'
    <3>1. Numbered(d)'
      <4>1. dirs' \subseteq 1..given
        <5>1. r.id \in 1..given
          <6>1. given \in Nat /\ r.id \in Nat /\ r.id # 0
            BY <1>3, <1>5, DriveAssumption DEF RemoteTyped, Ids
          <6> QED BY <2>2, <6>1
        <5> QED BY <1>3, <2>1, <5>1 DEF Kept, Numbered
      <4>2. /\ \A x \in Ids : There(x) => x \notin dirs'
            /\ \A a \in Assets : d.of[a].id # 0 => d.of[a].id \notin dirs'
            /\ \A q \in late : Creates(q) => q.id \notin dirs'
        BY <1>3, <1>7, <2>1, <2>2 DEF Kept, Numbered
      <4> QED BY <1>1, <1>3, <1>5, <1>6, <2>1, <4>1, <4>2 DEF Kept, Numbered, There
    <3>2. Foldered(d)'
      <4>1. dirs' \subseteq {cfg.dir} /\ dirs' \cap moved = {}
        BY <1>3, <2>1, <2>2 DEF Kept, Foldered
      <4> QED BY <1>1, <1>3, <1>5, <1>6, <2>1, <4>1 DEF Kept, Foldered, There
    <3>3. Owned(d)' BY <1>1, <1>3, <1>5, <1>6, <2>1 DEF Kept, Owned, There
    <3>4. Tracked(d)' BY <1>1, <1>3, <2>4 DEF Kept, Tracked
    <3> QED BY <3>1, <3>2, <3>3, <3>4 DEF Kept
  <2>6. \A a \in Assets : Good(d, a) => Good(d, a)' BY <1>1, <2>1 DEF Good, Away
  <2> QED BY <1>1, <1>2, <1>3, <2>3, <2>5, <2>6, WorldGood
\* The file was made by another request.
<1>8. CASE Creates(r) /\ There(r.id)
  <2>1. UNCHANGED <<files, dirs>> BY <1>4, <1>8 DEF Creates, There
  <2>2. RemoteTyped' BY <1>1, <1>3, <1>5, <2>1 DEF RemoteTyped
  <2>3. \A x, a, g : Claimed(x, a, g)' => Claimed(x, a, g)
    BY <1>1, <1>5, <1>6, <2>1 DEF Claimed, There, Away
  <2>4. Kept(d)'
    <3>1. Numbered(d)' /\ Owned(d)' BY <1>1, <1>3, <1>5, <1>6, <2>1 DEF Kept, Numbered, Owned, There
    <3>2. Foldered(d)' BY <1>1, <1>3, <1>5, <1>6, <2>1 DEF Kept, Foldered, There
    <3>3. Tracked(d)' BY <1>1, <1>3, <2>3 DEF Kept, Tracked
    <3> QED BY <3>1, <3>2, <3>3 DEF Kept
  <2>5. \A a \in Assets : Good(d, a) => Good(d, a)' BY <1>1, <2>1 DEF Good, Away
  <2> QED BY <1>1, <1>2, <1>3, <2>2, <2>4, <2>5, WorldGood
\* The file is made.
<1>9. CASE Creates(r) /\ ~There(r.id)
  <2>1. files' = [files EXCEPT ![r.id] = r.file] /\ UNCHANGED dirs
    BY <1>4, <1>9 DEF Creates, There
  <2>2. /\ files' \in [Ids -> FileRecords] /\ files'[r.id] = r.file
        /\ \A x \in Ids : x # r.id => files'[x] = files[x]
    BY <1>3, <1>5, <2>1 DEF RemoteTyped
  <2>3. RemoteTyped' BY <1>1, <1>3, <1>5, <2>1, <2>2 DEF RemoteTyped
  <2>4. There(r.id)' /\ \A x \in Ids : There(x)' <=> There(x) \/ x = r.id
    BY <1>5, <1>9, <2>2 DEF There, Creates
  <2>5. \A x \in Ids : x # r.id => (Away(x)' <=> Away(x)) BY <1>1, <2>2 DEF Away
  <2>6. ASSUME NEW x \in Ids, NEW a, NEW g, Claimed(x, a, g)' PROVE Claimed(x, a, g)
    <3>1. CASE x = r.id
      <4>1. ~Away(x)' /\ r.file.of = a /\ r.file.gen = g
        BY <2>2, <2>4, <2>6, <3>1 DEF Claimed
      <4>2. x \notin moved /\ r.file.dir \notin moved BY <1>1, <2>2, <3>1, <4>1 DEF Away
      <4> QED BY <1>9, <3>1, <4>1, <4>2 DEF Claimed
    <3>2. CASE x # r.id
      <4>1. (There(x)' <=> There(x)) /\ (Away(x)' <=> Away(x)) /\ files'[x] = files[x]
        BY <2>2, <2>4, <2>5, <3>2
      <4> QED BY <1>1, <1>5, <1>6, <2>6, <4>1 DEF Claimed
    <3> QED BY <3>1, <3>2
  <2>7. Kept(d)'
    <3>1. Numbered(d)'
      BY <1>1, <1>3, <1>5, <1>6, <1>9, <2>1, <2>4 DEF Kept, Numbered, RemoteTyped, Requests
    <3>2. Foldered(d)'
      <4>1. \A x \in Ids : files'[x].dir \in IF There(x)' THEN dirs \cup moved ELSE {0}
        BY <1>3, <1>9, <2>2, <2>4 DEF Kept, Foldered
      <4> QED BY <1>1, <1>3, <1>5, <1>6, <2>1, <4>1 DEF Kept, Foldered
    <3>3. Owned(d)'
      <4>1. \A a \in Assets : d.of[a].id \in 0..MaxId BY <1>3 DEF Records, AssetRecords
      <4>2. ASSUME NEW a \in Assets, d.of[a].id # 0
            PROVE  /\ There(d.of[a].id)' => files'[d.of[a].id].of = a
                   /\ \A q \in late' : Creates(q) /\ q.id = d.of[a].id => q.file.of = a
                   /\ ~d.of[a].res => There(d.of[a].id)'
        <5>1. d.of[a].id \in Ids BY <4>1, <4>2, DriveAssumption DEF Ids
        <5> QED BY <1>3, <1>5, <1>9, <2>2, <2>4, <4>2, <5>1 DEF Kept, Owned
      <4>3. \A q \in late' : Creates(q) /\ There(q.id)' => files'[q.id].of = q.file.of
        BY <1>3, <1>5, <1>9, <2>2, <2>4 DEF Kept, Owned, RemoteTyped, Requests
      <4> QED BY <1>1, <1>3, <1>5, <1>6, <4>2, <4>3 DEF Kept, Owned
    <3>4. Tracked(d)' BY <1>1, <1>3, <2>6 DEF Kept, Tracked
    <3> QED BY <3>1, <3>2, <3>3, <3>4 DEF Kept
  <2>8. ASSUME NEW a \in Assets, Good(d, a) PROVE Good(d, a)'
    <3>1. CASE d.of[a].want = 0 BY <3>1 DEF Good
    <3>2. CASE d.of[a].want # 0
      <4>1. PICK x \in Ids : x = d.of[a].id
        BY <1>3, <2>8, <3>2, DriveAssumption DEF Good, Records, AssetRecords, Ids
      <4>2. CASE x = r.id
        <5>1. files[x].has = 0 BY <1>9, <4>2 DEF There
        <5>2. Away(x) BY <2>8, <3>2, <4>1, <5>1 DEF Good
        <5>3. files[x].dir = 0 BY <1>3, <1>9, <4>2 DEF Kept, Foldered
        <5>4. x \in moved BY <1>3, <5>2, <5>3, DriveAssumption DEF Away, RemoteTyped, Ids
        <5>5. Away(x)' /\ x # 0 BY <1>1, <5>4, DriveAssumption DEF Away, Ids
        <5> QED BY <4>1, <5>5 DEF Good
      <4>3. CASE x # r.id
        <5>1. files'[x] = files[x] /\ (Away(x)' <=> Away(x)) BY <2>2, <2>5, <4>3
        <5> QED BY <2>1, <2>8, <3>2, <4>1, <5>1 DEF Good
      <4> QED BY <4>2, <4>3
    <3> QED BY <3>1, <3>2
  <2> QED BY <1>1, <1>2, <1>3, <2>3, <2>7, <2>8, WorldGood
<1> QED BY <1>7, <1>8, <1>9

-----------------------------------------------------------------------------
(* The upload of one file.                                                   *)

\* The file that is sent: its id is of this file alone, and it goes to our folder.
LEMMA SentFacts ==
  ASSUME DriveInv, job.pc \in Onward, NEW d, d = disk
  PROVE  /\ job.pc # "idle" /\ RemoteTyped /\ Kept(d) /\ d \in Records /\ ~d.full /\ st = d
         /\ here \in Assets /\ mine \in AssetRecords /\ mine = d.of[here] /\ mine = st.of[here]
         /\ mine.want # 0 /\ mine.want \in Contents /\ mine.id \in Ids
         /\ cfg \in Settings /\ d.gen = cfg.gen /\ cfg.gen \in Nat /\ st.dir \in dirs \cup moved
         /\ st.dir \in Ids /\ job \in JobStates
<1>1. job.pc # "idle" BY DEF Onward, UploadSteps
<1>2. /\ RemoteTyped /\ Kept(d) /\ d \in Records /\ ~d.full /\ st = d /\ here \in Assets
      /\ mine \in AssetRecords /\ mine = d.of[here] /\ cfg \in Settings /\ d.gen = cfg.gen
      /\ Placed(st, job) /\ job \in JobStates
  BY <1>1, Facts DEF DriveInv, DriveTyped
<1>3. mine.want # 0 /\ mine.id # 0 /\ st.dir # 0
  BY <1>2 DEF Placed, Onward, UploadSteps, here, mine
<1>4. mine.want \in Contents /\ mine.id \in Ids BY <1>2, <1>3, DriveAssumption DEF AssetRecords, Ids
<1>5. st.dir \in dirs \cup moved /\ dirs \subseteq Ids /\ moved \subseteq Ids
  BY <1>2, <1>3 DEF Kept, Foldered, RemoteTyped
<1> QED BY <1>1, <1>2, <1>3, <1>4, <1>5 DEF Settings

\* Its body has a record of its own.
LEMMA BodyFacts ==
  ASSUME DriveInv, job.pc \in Onward, NEW c \in Has
  PROVE  /\ Body(c) \in FileRecords /\ Body(c).of = here /\ Body(c).has = c
         /\ Body(c).dir = st.dir /\ Body(c).gen = cfg.gen
<1>1. PICK d : d = disk OBVIOUS
<1>2. here \in Assets /\ st.dir \in Ids /\ cfg.gen \in Nat BY <1>1, SentFacts
<1>3. st.dir \in 0..MaxId BY <1>2, DriveAssumption DEF Ids
<1> QED BY <1>2, <1>3 DEF Body, FileRecords

\* A claim may appear for the file that is sent, under the id that is on flash.
LEMMA ClaimedAnew ==
  ASSUME NEW d, Tracked(d), UNCHANGED cfg, cfg.gen \in Nat, NEW h \in Assets, NEW i \in Ids,
         d.gen = cfg.gen, d.of[h].id = i,
         \A x \in Ids, a \in Assets, g \in Nat :
            Claimed(x, a, g)' => Claimed(x, a, g) \/ (x = i /\ a = h /\ g = cfg.gen)
  PROVE  Tracked(d)'
<1>1. \A x \in Ids, a \in Assets : Claimed(x, a, cfg.gen)' => d.gen = cfg'.gen /\ d.of[a].id = x
  BY DEF Tracked
<1>2. ASSUME NEW x \in Ids, NEW y \in Ids, NEW a \in Assets, NEW g \in Nat,
             Claimed(x, a, g)', Claimed(y, a, g)'
      PROVE  x = y
  <2>1. CASE g = cfg.gen BY <1>1, <1>2, <2>1
  <2>2. CASE g # cfg.gen BY <1>2, <2>2 DEF Tracked
  <2> QED BY <2>1, <2>2
<1>3. \A x \in Ids, a \in Assets, g \in Nat : Claimed(x, a, g)' => g <= cfg'.gen
  BY DEF Tracked
<1>4. d.gen <= cfg'.gen BY DEF Tracked
<1> QED BY <1>1, <1>2, <1>3, <1>4 DEF Tracked

\* Drive stores the content c for the file that is sent.
LEMMA StoredGood ==
  ASSUME DriveInv, job.pc \in Onward, NEW d, d = disk, NEW c \in Has, c # 0,
         NEW create, create <=> files[mine.id].has = 0, files' = Stored(mine.id, c, create),
         UNCHANGED <<cfg, dirs, late, given, moved>>,
         sess' \in [Assets -> Sessions], \A a \in Assets : sess'[a].id = sess[a].id
  PROVE  RemoteTyped' /\ Kept(d)' /\ \A a \in Assets : a # here /\ Good(d, a) => Good(d, a)'
<1>1. PICK x \in Ids, h \in Assets : x = mine.id /\ h = here BY SentFacts
<1>2. /\ RemoteTyped /\ Kept(d) /\ d \in Records /\ st = d /\ d.of[h].id = x /\ d.gen = cfg.gen
      /\ cfg.gen \in Nat /\ st.dir \in dirs \cup moved
  BY <1>1, SentFacts
<1>3. PICK f \in FileRecords :
        /\ files' = [files EXCEPT ![x] = f] /\ f.has = c /\ f.of = h
        /\ ~There(x) => f.dir = st.dir /\ f.gen = cfg.gen
        /\ There(x) => f.dir = files[x].dir /\ f.gen = files[x].gen
  <2>1. CASE create
    <3>1. files' = [files EXCEPT ![x] = Body(c)] /\ ~There(x)
      BY <1>1, <2>1 DEF Stored, There
    <3>2. PICK f : f = Body(c) OBVIOUS
    <3>3. f \in FileRecords /\ f.has = c /\ f.of = h /\ f.dir = st.dir /\ f.gen = cfg.gen
      BY <1>1, <3>2, BodyFacts
    <3> QED BY <3>1, <3>2, <3>3
  <2>2. CASE ~create
    <3>1. PICK f : f = [files[x] EXCEPT !.has = c] OBVIOUS
    <3>2. files' = [files EXCEPT ![x] = f] /\ There(x)
      BY <1>1, <2>2, <3>1 DEF Stored, There
    <3>3. files[x] \in FileRecords BY <1>2 DEF RemoteTyped
    <3>4. /\ f \in FileRecords /\ f.has = c /\ f.of = files[x].of /\ f.dir = files[x].dir
          /\ f.gen = files[x].gen
      BY <3>1, <3>3 DEF FileRecords
    <3>5. files[x].of = h BY <1>1, <1>2, <3>2, DriveAssumption DEF Kept, Owned, Ids
    <3> QED BY <3>2, <3>4, <3>5
  <2> QED BY <2>1, <2>2
<1>4. /\ files' \in [Ids -> FileRecords] /\ files'[x] = f
      /\ \A y \in Ids : y # x => files'[y] = files[y]
  BY <1>2, <1>3 DEF RemoteTyped
<1>5. There(x)' /\ \A y \in Ids : There(y)' <=> There(y) \/ y = x BY <1>3, <1>4 DEF There
<1>6. \A y \in Ids : y # x => (Away(y)' <=> Away(y)) BY <1>4 DEF Away
<1>7. RemoteTyped' BY <1>2, <1>4 DEF RemoteTyped
<1>8. \A q : Creates(q)' <=> Creates(q) BY DEF Creates
<1>9. x # 0 BY DriveAssumption DEF Ids
<1>10. Numbered(d)'
  <2>1. x <= given /\ x \notin dirs /\ x # d.pend /\ \A r \in late : ~Creates(r) => r.id # x
    BY <1>2, <1>9, <1>1 DEF Kept, Numbered
  <2>2. \A r \in late : r.id \in Ids BY <1>2 DEF RemoteTyped, Requests
  <2> QED BY <1>2, <1>5, <1>8, <2>1, <2>2 DEF Kept, Numbered
<1>11. Foldered(d)'
  <2>1. f.dir \in dirs \cup moved BY <1>2, <1>3 DEF Kept, Foldered
  <2>2. \A y \in Ids : files'[y].dir \in IF There(y)' THEN dirs \cup moved ELSE {0}
    <3> TAKE y \in Ids
    <3>1. CASE y = x BY <1>4, <1>5, <2>1, <3>1
    <3>2. CASE y # x
      <4>1. files'[y] = files[y] /\ (There(y)' <=> There(y)) BY <1>4, <1>5, <3>2
      <4> QED BY <1>2, <4>1 DEF Kept, Foldered
    <3> QED BY <3>1, <3>2
  <2> QED BY <1>2, <1>8, <2>2 DEF Kept, Foldered
<1>12. Owned(d)'
  <2>1. \A a \in Assets : d.of[a].id \in 0..MaxId BY <1>2 DEF Records, AssetRecords
  <2>2. ASSUME NEW a \in Assets, d.of[a].id # 0
        PROVE  /\ There(d.of[a].id)' => files'[d.of[a].id].of = a
               /\ \A q \in late : Creates(q) /\ q.id = d.of[a].id => q.file.of = a
               /\ ~d.of[a].res => There(d.of[a].id)'
    <3>1. d.of[a].id \in Ids BY <2>1, <2>2, DriveAssumption DEF Ids
    <3>2. CASE d.of[a].id = x
      <4>1. a = h BY <1>2, <1>9, <3>2 DEF Kept, Owned
      <4> QED BY <1>2, <1>3, <1>4, <1>5, <2>2, <3>2, <4>1 DEF Kept, Owned
    <3>3. CASE d.of[a].id # x BY <1>2, <1>4, <1>5, <2>2, <3>1, <3>3 DEF Kept, Owned
    <3> QED BY <3>2, <3>3
  <2>3. ASSUME NEW q \in late, Creates(q), There(q.id)' PROVE files'[q.id].of = q.file.of
    <3>1. q.id \in Ids BY <1>2 DEF RemoteTyped, Requests
    <3>2. CASE q.id = x BY <1>2, <1>3, <1>4, <1>9, <2>3, <3>2 DEF Kept, Owned
    <3>3. CASE q.id # x BY <1>2, <1>4, <1>5, <2>3, <3>1, <3>3 DEF Kept, Owned
    <3> QED BY <3>2, <3>3
  <2> QED BY <1>2, <1>8, <2>2, <2>3 DEF Kept, Owned
<1>13. Tracked(d)'
  <2>1. ASSUME NEW y \in Ids, NEW a \in Assets, NEW g \in Nat, Claimed(y, a, g)'
        PROVE  Claimed(y, a, g) \/ (y = x /\ a = h /\ g = cfg.gen)
    <3>1. CASE y = x /\ There(x)
      <4>1. ~Away(x)' /\ f.of = a /\ f.gen = g BY <1>4, <1>5, <2>1, <3>1 DEF Claimed
      <4>2. ~Away(x) /\ files[x].of = h BY <1>2, <1>3, <1>4, <1>9, <3>1, <4>1 DEF Away, Kept, Owned
      <4> QED BY <1>3, <3>1, <4>1, <4>2 DEF Claimed
    <3>2. CASE y = x /\ ~There(x)
      <4>1. f.of = a /\ f.gen = g BY <1>4, <1>5, <2>1, <3>2 DEF Claimed
      <4> QED BY <1>3, <3>2, <4>1
    <3>3. CASE y # x
      <4>1. files'[y] = files[y] /\ (There(y)' <=> There(y)) /\ (Away(y)' <=> Away(y))
        BY <1>4, <1>5, <1>6, <3>3
      <4> QED BY <1>8, <2>1, <4>1 DEF Claimed
    <3> QED BY <3>1, <3>2, <3>3
  <2>2. Tracked(d) BY <1>2 DEF Kept
  <2> QED BY <1>2, <2>1, <2>2, ClaimedAnew
<1>14. ASSUME NEW a \in Assets, a # here, Good(d, a) PROVE Good(d, a)'
  <2>1. CASE d.of[a].want = 0 BY <2>1 DEF Good
  <2>2. CASE d.of[a].want # 0
    <3>1. PICK y \in Ids : y = d.of[a].id
      BY <1>2, <1>14, <2>2, DriveAssumption DEF Good, Records, AssetRecords, Ids
    <3>2. y # x BY <1>1, <1>2, <1>9, <1>14, <3>1 DEF Kept, Owned
    <3>3. files'[y] = files[y] /\ (Away(y)' <=> Away(y)) BY <1>4, <1>6, <3>2
    <3> QED BY <1>14, <2>2, <3>1, <3>3 DEF Good
  <2> QED BY <2>1, <2>2
<1> QED BY <1>7, <1>10, <1>11, <1>12, <1>13, <1>14 DEF Kept

\* The request that creates the file is on its way.
LEMMA DelayedGood ==
  ASSUME DriveInv, job.pc \in Onward, NEW d, d = disk,
         late' = late \cup {[id |-> mine.id, file |-> Body(mine.want)]},
         UNCHANGED <<cfg, files, dirs, sess, given, moved>>
  PROVE  RemoteTyped' /\ Kept(d)' /\ \A a \in Assets : Good(d, a) => Good(d, a)'
<1>1. PICK x \in Ids, h \in Assets : x = mine.id /\ h = here BY SentFacts
<1>2. /\ RemoteTyped /\ Kept(d) /\ d \in Records /\ st = d /\ d.of[h].id = x /\ d.gen = cfg.gen
      /\ cfg.gen \in Nat /\ st.dir \in dirs \cup moved /\ x # 0
  BY <1>1, SentFacts, DriveAssumption DEF Ids
<1>3. PICK q : q = [id |-> mine.id, file |-> Body(mine.want)] OBVIOUS
<1>4. /\ q \in Requests /\ q.id = x /\ Creates(q) /\ q.file.of = h /\ q.file.dir = st.dir
      /\ q.file.gen = cfg.gen
  <2>1. mine.want \in Has /\ mine.want # 0 BY SentFacts DEF Has
  <2>2. PICK f : f = Body(mine.want) OBVIOUS
  <2>3. /\ f \in FileRecords /\ f.of = h /\ f.has = mine.want /\ f.dir = st.dir
        /\ f.gen = cfg.gen
    BY <1>1, <2>1, <2>2, BodyFacts
  <2>4. q = [id |-> x, file |-> f] BY <1>1, <1>3, <2>2
  <2> QED BY <2>1, <2>3, <2>4 DEF Requests, Creates
<1>5. late' = late \cup {q} BY <1>3
<1>6. RemoteTyped' BY <1>2, <1>4, <1>5 DEF RemoteTyped
<1>7. \A r : Creates(r)' <=> Creates(r) BY DEF Creates
<1>8. Numbered(d)'
  <2>1. /\ x <= given /\ x \notin dirs /\ x # d.pend
        /\ \A r \in late : ~Creates(r) => r.id # x
    BY <1>2 DEF Kept, Numbered
  <2> QED BY <1>2, <1>4, <1>5, <1>7, <2>1 DEF Kept, Numbered, There
<1>9. Foldered(d)'
  <2>1. \A r \in late' :
          /\ ~Creates(r) => /\ r.id \in moved \cup {cfg.dir}
                            /\ cfg.paired => r.id \in moved \cup dirs \cup {d.pend}
          /\ Creates(r) => r.file.dir \in dirs \cup moved
    BY <1>2, <1>4, <1>5 DEF Kept, Foldered
  <2> QED BY <1>2, <1>7, <2>1 DEF Kept, Foldered, There
<1>10. Owned(d)'
  <2>1. \A r \in late : Creates(r) /\ r.id = x => r.file.of = h BY <1>2 DEF Kept, Owned
  <2>2. There(x) => files[x].of = h BY <1>2 DEF Kept, Owned
  <2>3. \A a \in Assets : d.of[a].id = x => a = h BY <1>2 DEF Kept, Owned
  <2> QED BY <1>2, <1>4, <1>5, <1>7, <2>1, <2>2, <2>3 DEF Kept, Owned, There
<1>11. Tracked(d)'
  <2>1. ASSUME NEW y \in Ids, NEW a \in Assets, NEW g \in Nat, Claimed(y, a, g)'
        PROVE  Claimed(y, a, g) \/ (y = x /\ a = h /\ g = cfg.gen)
    BY <1>4, <1>5, <1>7, <2>1 DEF Claimed, There, Away
  <2>2. Tracked(d) BY <1>2 DEF Kept
  <2> QED BY <1>2, <2>1, <2>2, ClaimedAnew
<1>12. \A a \in Assets : Good(d, a) => Good(d, a)' BY DEF Good, Away
<1> QED BY <1>6, <1>8, <1>9, <1>10, <1>11, <1>12 DEF Kept

LEMMA SentTypes ==
  ASSUME NEW j, j = Sent, job \in JobStates, here \in Assets
  PROVE  j \in JobStates /\ j.pc = job.pc /\ j.i = job.i
<1>1. PICK f : f = job.fresh \ {here} OBVIOUS
<1>2. f \in SUBSET Assets BY <1>1 DEF JobStates
<1>3. PICK k : k = [job EXCEPT !.fresh = f] OBVIOUS
<1>4. k \in JobStates /\ k.pc = job.pc /\ k.i = job.i BY <1>2, <1>3 DEF JobStates
<1>5. j = [k EXCEPT !.insp[here] = "unknown"] BY <1>1, <1>3 DEF Sent
<1>6. "unknown" \in Verdicts BY DEF Verdicts
<1> QED BY <1>4, <1>5, <1>6, SeenFacts

\* An entry of the file that is sent, written after Drive obeyed or not.
LEMMA HereKeeps ==
  ASSUME DriveInv, job.pc \in Onward, NEW d, d = disk, NEW r \in AssetRecords,
         NEW s, s = With(here, r), r.id = mine.id, r.want = mine.want, r.res = mine.res,
         r.ses => mine.ses \/ sess'[here].id = mine.id
  PROVE  Keeps(d, s)' /\ s.of[here] = r
<1>1. PICK h \in Assets : h = here BY SentFacts
<1>2. st = d /\ d.of[h] = mine /\ mine.id # 0 BY <1>1, SentFacts, DriveAssumption DEF Ids
<1>3. /\ s \in Records /\ s.of[h] = r /\ ~s.full
      /\ s.gen = d.gen /\ s.dir = d.dir /\ s.pend = d.pend
      /\ \A b \in Assets : b # h => s.of[b] = d.of[b]
  <2>1. job.pc # "idle" BY SentFacts
  <2> QED BY <1>1, <1>2, <2>1, WithFacts
<1>4. \A b \in Assets : SameId(d, s, b)' /\ s.of[b].want = d.of[b].want
  <2> TAKE b \in Assets
  <2>1. CASE b = h
    <3>1. /\ s.of[b].id = d.of[b].id /\ s.of[b].want = d.of[b].want
          /\ s.of[b].res = d.of[b].res /\ s.of[b].id # 0
          /\ s.of[b].ses => d.of[b].ses \/ sess'[b].id = s.of[b].id
      BY <1>1, <1>2, <1>3, <2>1
    <3> QED BY <3>1 DEF SameId
  <2>2. CASE b # h BY <1>3, <2>2 DEF SameId
  <2> QED BY <2>1, <2>2
<1> QED BY <1>1, <1>3, <1>4 DEF Keeps

LEMMA CompletedEntry ==
  ASSUME DriveInv, job.pc \in Onward
  PROVE  \E r \in AssetRecords :
           /\ Completed(st) = With(here, r) /\ r.id = mine.id /\ r.want = mine.want
           /\ r.res = mine.res /\ r.ses = mine.ses
<1>1. PICK d : d = disk OBVIOUS
<1>2. st \in Records /\ mine \in AssetRecords /\ here \in Assets /\ mine = st.of[here]
  BY <1>1, SentFacts
<1>3. PICK r : r = [[mine EXCEPT !.up = FALSE] EXCEPT !.off = Blocks] OBVIOUS
<1>4. /\ r \in AssetRecords /\ r.id = mine.id /\ r.want = mine.want
      /\ r.ses = mine.ses /\ r.res = mine.res
  BY <1>2, <1>3, DriveAssumption DEF AssetRecords
<1>5. Completed(st) = With(here, r) BY <1>2, <1>3 DEF Completed, With, Records
<1> QED BY <1>4, <1>5

\* After a request that Drive obeyed, or that is still on its way, the job goes
\* on with the same record, or knows that every byte is there.
LEMMA SentGood ==
  ASSUME DriveInv, job.pc \in Onward, UNCHANGED <<local, cfg>>, RemoteTyped',
         NEW d, d = disk, Kept(d)', \A a \in Assets : a # here /\ Good(d, a) => Good(d, a)',
         NEW c,
         \/ Completing(st, c)
         \/ \E j \in JobStates : /\ j.pc \in Onward /\ j.i = job.i /\ Goto(j, c)
                                 /\ j.pc \in {"chunk", "probe"} => mine.ses
  PROVE  DriveInv'
<1>1. job.pc \in UploadSteps \ {"final"} /\ job.pc # "upload" BY DEF Onward
<1>2. st = d /\ d \in Records /\ ~d.full /\ mine = d.of[here] /\ job \in JobStates
  BY SentFacts
<1>3. CASE Completing(st, c)
  <2>1. PICK j : j = [job EXCEPT !.pc = "verify"] OBVIOUS
  <2>2. j \in JobStates /\ j.i = job.i /\ j.pc = "verify"
    BY <1>2, <2>1 DEF JobStates, UploadSteps
  <2>3. PICK s : s = Completed(st) OBVIOUS
  <2>4. Keeps(d, s)' BY <2>3, CompletedEntry, HereKeeps
  <2>5. Persist(s, j, c) BY <1>3, <2>1, <2>3 DEF Completing, Completed
  <2>6. j.pc \in Onward /\ j.pc \notin {"chunk", "probe"} BY <2>2 DEF Onward, UploadSteps
  <2> QED BY <1>1, <2>2, <2>4, <2>5, <2>6, OnwardStep
<1>4. CASE \E j \in JobStates : /\ j.pc \in Onward /\ j.i = job.i /\ Goto(j, c)
                                /\ j.pc \in {"chunk", "probe"} => mine.ses
  <2>1. PICK j \in JobStates : /\ j.pc \in Onward /\ j.i = job.i /\ Goto(j, c)
                               /\ j.pc \in {"chunk", "probe"} => mine.ses
    BY <1>4
  <2>2. Keeps(d, d)' BY <1>2 DEF Keeps, SameId
  <2> QED BY <1>1, <1>2, <2>1, <2>2, OnwardStep
<1> QED BY <1>3, <1>4

\* The same when Drive was not reached, or refused.
LEMMA UnsentGood ==
  ASSUME DriveInv, job.pc \in Onward, UNCHANGED <<local, cfg, remote>>, NEW c,
         \/ Completing(st, c)
         \/ \E j \in JobStates : /\ j.pc \in Onward /\ j.i = job.i /\ Goto(j, c)
                                 /\ j.pc \in {"chunk", "probe"} => mine.ses
  PROVE  DriveInv'
<1>1. PICK d : d = disk OBVIOUS
<1>2. RemoteTyped /\ Kept(d) BY <1>1, SentFacts
<1>3. RemoteTyped' /\ Kept(d)' /\ \A a : Good(d, a)' <=> Good(d, a) BY <1>2, SameRemote
<1> QED BY <1>1, <1>3, SentGood

LEMMA MultipartGood == ASSUME DriveInv, Multipart PROVE DriveInv'
<1>1. /\ job.pc = "multipart" /\ job.pc \in Onward /\ job.pc # "idle"
      /\ UNCHANGED <<local, cfg, dirs, sess, given, moved>>
  BY DEF Multipart, At, Onward, UploadSteps
<1>2. PICK d : d = disk OBVIOUS
<1>3. /\ RemoteTyped /\ Kept(d) /\ here \in Assets /\ job \in JobStates
      /\ mine.want # 0 /\ mine.want \in Has
  BY <1>1, <1>2, SentFacts DEF Has
<1>4. PICK create : create = (Belief = "missing") OBVIOUS
<1>5. PICK after : after = [Sent EXCEPT !.pc = "recover"] OBVIOUS
<1>6. after \in JobStates /\ after.pc = "recover" /\ after.i = job.i
  <2>1. PICK j : j = Sent OBVIOUS
  <2>2. j \in JobStates /\ j.i = job.i BY <1>3, <2>1, SentTypes
  <2>3. after = [j EXCEPT !.pc = "recover"] BY <1>5, <2>1
  <2> QED BY <2>2, <2>3 DEF JobStates, UploadSteps
<1>7. after.pc \in Onward /\ after.pc \notin {"chunk", "probe"}
  BY <1>6 DEF Onward, UploadSteps
<1>8. CASE Error(With(here, NotUp(mine)), 0) /\ UNCHANGED <<files, late>>
  <2>1. UNCHANGED remote BY <1>1, <1>8 DEF remote
  <2>2. 0 \in Nat OBVIOUS
  <2>3. Keeps(st, With(here, NotUp(mine))) BY <1>1, <2>2, EntriesKeep
  <2> QED BY <1>1, <1>8, <2>1, <2>3, ErrorGood
<1>9. CASE /\ Obeys(create) /\ files' = Stored(mine.id, mine.want, create) /\ UNCHANGED late
           /\ Completing(st, 0) \/ Goto(after, 1)
  <2>1. create <=> files[mine.id].has = 0 BY <1>9 DEF Obeys
  <2>2. \A a \in Assets : sess'[a].id = sess[a].id BY <1>1
  <2>3. sess' \in [Assets -> Sessions] BY <1>1, <1>3 DEF RemoteTyped
  <2>4. RemoteTyped' /\ Kept(d)' /\ \A a \in Assets : a # here /\ Good(d, a) => Good(d, a)'
    BY <1>1, <1>2, <1>3, <1>9, <2>1, <2>2, <2>3, StoredGood
  <2> QED BY <1>1, <1>2, <1>6, <1>7, <1>9, <2>4, SentGood
<1>10. CASE UNCHANGED <<files, late>> /\ \E c \in {0, 1} : Goto(after, c)
  <2>1. UNCHANGED remote BY <1>1, <1>10 DEF remote
  <2> QED BY <1>1, <1>6, <1>7, <1>10, <2>1, UnsentGood
<1>11. CASE /\ UNCHANGED files /\ Goto(after, 1)
            /\ late' = late \cup {[id |-> mine.id, file |-> Body(mine.want)]}
  <2>1. RemoteTyped' /\ Kept(d)' /\ \A a \in Assets : Good(d, a) => Good(d, a)'
    BY <1>1, <1>2, <1>11, DelayedGood
  <2> QED BY <1>1, <1>2, <1>6, <1>7, <1>11, <2>1, SentGood
<1>12. CASE UNCHANGED <<files, late>> /\ Error(st, 1)
  <2>1. UNCHANGED remote BY <1>1, <1>12 DEF remote
  <2> QED BY <1>1, <1>12, <2>1, FailsGood
<1> QED BY <1>4, <1>5, <1>8, <1>9, <1>10, <1>11, <1>12, Zenon DEF Multipart

\* The upload session of the file that is sent is another, of the same id.
LEMMA SessionGood ==
  ASSUME DriveInv, job.pc \in Onward, NEW d, d = disk, NEW n \in Sessions, n.id = mine.id,
         sess' = [sess EXCEPT ![here] = n], UNCHANGED <<cfg, files, dirs, late, given, moved>>
  PROVE  RemoteTyped' /\ Kept(d)' /\ \A a \in Assets : Good(d, a) => Good(d, a)'
<1>1. PICK h \in Assets : h = here BY SentFacts
<1>2. RemoteTyped /\ Kept(d) /\ d.of[h].id = n.id BY <1>1, SentFacts
<1>3. /\ sess' \in [Assets -> Sessions] /\ sess'[h] = n
      /\ \A a \in Assets : a # h => sess'[a] = sess[a]
  BY <1>1, <1>2 DEF RemoteTyped
<1>4. RemoteTyped' BY <1>2, <1>3 DEF RemoteTyped
<1>5. Numbered(d)' /\ Foldered(d)' BY <1>2 DEF Kept, Numbered, Foldered, There, Creates
<1>6. Owned(d)'
  <2>1. \A a \in Assets : d.of[a].ses => d.of[a].id # 0 /\ sess'[a].id = d.of[a].id
    BY <1>2, <1>3 DEF Kept, Owned
  <2> QED BY <1>2, <2>1 DEF Kept, Owned, There, Creates
<1>7. \A x, a, g : Claimed(x, a, g)' <=> Claimed(x, a, g) BY DEF Claimed, There, Away, Creates
<1>8. Tracked(d)' BY <1>2, <1>7 DEF Kept, Tracked
<1>9. \A a \in Assets : Good(d, a) => Good(d, a)' BY DEF Good, Away
<1> QED BY <1>4, <1>5, <1>6, <1>8, <1>9 DEF Kept

LEMMA VerdictIs == \A a : Verdict(a) \in Verdicts
BY DEF Verdict, Verdicts

\* A save of an entry with the session, after the server changed it.
LEMMA OpenGood ==
  ASSUME DriveInv, job.pc \in Onward, UNCHANGED <<local, cfg>>, RemoteTyped',
         NEW d, d = disk, Kept(d)', \A a \in Assets : a # here /\ Good(d, a) => Good(d, a)',
         NEW r \in AssetRecords, r.id = mine.id, r.want = mine.want, r.res = mine.res, r.ses,
         sess'[here].id = mine.id, NEW j \in JobStates, j.pc = "chunk", j.i = job.i, NEW c,
         Persist(With(here, r), j, c)
  PROVE  DriveInv'
<1>1. job.pc \in UploadSteps \ {"final"} /\ job.pc # "upload" BY DEF Onward
<1>2. PICK s : s = With(here, r) OBVIOUS
<1>3. Keeps(d, s)' /\ s.of[here] = r BY <1>2, HereKeeps
<1>4. j.pc \in Onward BY DEF Onward, UploadSteps
<1> QED BY <1>1, <1>2, <1>3, <1>4, OnwardStep

LEMMA InitiateGood == ASSUME DriveInv, Initiate PROVE DriveInv'
<1>1. /\ job.pc = "initiate" /\ job.pc \in Onward /\ job.pc # "idle"
      /\ UNCHANGED <<local, cfg, files, dirs, late, given, moved>>
  BY DEF Initiate, At, Onward, UploadSteps
<1>2. PICK d : d = disk OBVIOUS
<1>3. /\ RemoteTyped /\ here \in Assets /\ job \in JobStates /\ mine \in AssetRecords
      /\ mine.id \in Ids
  BY <1>1, <1>2, SentFacts
<1>4. PICK v : v = Verdict(here) OBVIOUS
<1>5. PICK k : k = Sent OBVIOUS
<1>6. k \in JobStates /\ k.i = job.i /\ k.pc = "initiate" BY <1>1, <1>3, <1>5, SentTypes
<1>7. CASE Error(With(here, NotUp(mine)), 0) /\ UNCHANGED sess
  <2>1. UNCHANGED remote BY <1>1, <1>7 DEF remote
  <2>2. 0 \in Nat OBVIOUS
  <2>3. Keeps(st, With(here, NotUp(mine))) BY <1>1, <2>2, EntriesKeep
  <2> QED BY <1>1, <1>7, <2>1, <2>3, ErrorGood
<1>8. CASE UNCHANGED sess /\ \E c \in {0, 1} : Error(st, c)
  <2>1. UNCHANGED remote BY <1>1, <1>8 DEF remote
  <2> QED BY <1>1, <1>8, <2>1, FailsGood
<1>9. CASE /\ sess' = [sess EXCEPT ![here] =
                             [id |-> mine.id, got |-> 0, sent |-> {}, state |-> "live"]]
           /\ Persist(With(here, [Restarted(mine) EXCEPT !.ses = TRUE]),
                      [Sent EXCEPT !.pc = "chunk", !.stall = 0], 0)
  <2>1. PICK n : n = [id |-> mine.id, got |-> 0, sent |-> {}, state |-> "live"] OBVIOUS
  <2>2. n \in Sessions /\ n.id = mine.id BY <1>3, <2>1, DriveAssumption DEF Sessions, Ids
  <2>3. RemoteTyped' /\ Kept(d)' /\ \A a \in Assets : Good(d, a) => Good(d, a)'
    BY <1>1, <1>2, <1>9, <2>1, <2>2, SessionGood
  <2>4. PICK r : r = [Restarted(mine) EXCEPT !.ses = TRUE] OBVIOUS
  <2>5. r \in AssetRecords /\ r.id = mine.id /\ r.want = mine.want /\ r.res = mine.res /\ r.ses
    <3>1. 0 \in Nat OBVIOUS
    <3>2. PICK q : q = Restarted(mine) OBVIOUS
    <3>3. q \in AssetRecords /\ q.id = mine.id /\ q.want = mine.want /\ q.res = mine.res
      BY <1>3, <3>1, <3>2, EntryFacts
    <3>4. r = [q EXCEPT !.ses = TRUE] BY <2>4, <3>2
    <3>5. /\ r \in AssetRecords /\ r.id = q.id /\ r.want = q.want /\ r.res = q.res
          /\ r.ses = TRUE
      BY <3>3, <3>4 DEF AssetRecords
    <3> QED BY <3>3, <3>5
  <2>6. PICK j : j = [[k EXCEPT !.pc = "chunk"] EXCEPT !.stall = 0] OBVIOUS
  <2>7. j \in JobStates /\ j.pc = "chunk" /\ j.i = job.i
    BY <1>6, <2>6 DEF JobStates, UploadSteps
  <2>8. Persist(With(here, r), j, 0) BY <1>5, <1>9, <2>4, <2>6
  <2>9. sess'[here].id = mine.id BY <1>3, <1>9, <2>1, <2>2 DEF RemoteTyped
  <2> QED BY <1>1, <1>2, <2>3, <2>5, <2>7, <2>8, <2>9, OpenGood
<1>10. CASE UNCHANGED sess /\ Completing(st, 1)
  <2>1. UNCHANGED remote BY <1>1, <1>10 DEF remote
  <2> QED BY <1>1, <1>10, <2>1, UnsentGood
<1>11. CASE UNCHANGED sess /\ Goto([Sent EXCEPT !.renewed = TRUE, !.insp[here] = v], 1)
  <2>1. UNCHANGED remote BY <1>1, <1>11 DEF remote
  <2>2. PICK q : q = [k EXCEPT !.renewed = TRUE] OBVIOUS
  <2>3. q \in JobStates /\ q.i = job.i /\ q.pc = "initiate" BY <1>6, <2>2 DEF JobStates
  <2>4. PICK j : j = [q EXCEPT !.insp[here] = v] OBVIOUS
  <2>5. v \in Verdicts BY <1>4, VerdictIs
  <2>6. j \in JobStates /\ j.i = job.i /\ j.pc = "initiate" BY <1>3, <2>3, <2>4, <2>5, SeenFacts
  <2>7. Goto(j, 1) BY <1>5, <1>11, <2>2, <2>4
  <2>8. j.pc \in Onward BY <2>6 DEF Onward, UploadSteps
  <2> QED BY <1>1, <2>1, <2>6, <2>7, <2>8, UnsentGood
<1> QED BY <1>4, <1>7, <1>8, <1>9, <1>10, <1>11, Zenon DEF Initiate

\* A session that takes one more chunk; what it made of them.
LEMMA TookFacts ==
  ASSUME NEW s \in Sessions, NEW c \in Contents, NEW t, t = Took(s, c)
  PROVE  /\ t \in Sessions /\ t.id = s.id /\ t.got = s.got + 1
         /\ Made(t) \in Has /\ Made(t) # 0
<1>1. PICK n \in Nat : n = s.got + 1 BY DEF Sessions
<1>2. PICK S \in SUBSET Contents : S = s.sent \cup {c} BY DEF Sessions
<1>3. PICK w \in {"dead", "live", "done"} : w = IF s.got + 1 = Blocks THEN "done" ELSE "live"
  OBVIOUS
<1>4. t = [[[s EXCEPT !.got = n] EXCEPT !.sent = S] EXCEPT !.state = w]
  BY <1>1, <1>2, <1>3 DEF Took, Sessions
<1>5. t \in Sessions /\ t.id = s.id /\ t.got = n /\ t.sent = S BY <1>4 DEF Sessions
<1>6. Made(t) \in Contents \cup {Mixed}
  <2>1. c \in t.sent /\ t.sent \subseteq Contents BY <1>2, <1>5
  <2>2. (CHOOSE e \in t.sent : TRUE) \in t.sent BY <2>1
  <2> QED BY <2>1, <2>2 DEF Made
<1> QED BY <1>1, <1>5, <1>6, ContentFacts DEF Has

LEMMA ChunkGood == ASSUME DriveInv, Chunk PROVE DriveInv'
<1>1. /\ job.pc = "chunk" /\ job.pc \in Onward /\ job.pc # "idle"
      /\ job.pc \in UploadSteps \ {"final"} /\ job.pc # "upload"
      /\ UNCHANGED <<local, cfg, dirs, late, given, moved>>
  BY DEF Chunk, At, Onward, UploadSteps
<1>2. PICK d : d = disk OBVIOUS
<1>3. /\ RemoteTyped /\ Kept(d) /\ here \in Assets /\ job \in JobStates
      /\ mine \in AssetRecords /\ mine.id \in Ids /\ mine = d.of[here] /\ st = d
  BY <1>1, <1>2, SentFacts
<1>4. mine.ses BY <1>1, Facts DEF Placed, here, mine
<1>5. PICK s \in Sessions : s = sess[here] BY <1>3 DEF RemoteTyped
<1>6. s.id = mine.id BY <1>3, <1>4, <1>5 DEF Kept, Owned
<1>7. PICK t : t = Took(s, local[here]) OBVIOUS
<1>8. ASSUME NEW why \in {"chunk", "refused"}
      PROVE  /\ [job EXCEPT !.pc = "probe", !.why = why] \in JobStates
             /\ [job EXCEPT !.pc = "probe", !.why = why].pc \in Onward
             /\ [job EXCEPT !.pc = "probe", !.why = why].i = job.i
  BY <1>3 DEF JobStates, Onward, UploadSteps
<1>9. CASE Completing(st, 0) /\ UNCHANGED <<sess, files>>
  <2>1. UNCHANGED remote BY <1>1, <1>9 DEF remote
  <2> QED BY <1>1, <1>9, <2>1, UnsentGood
<1>10. CASE UNCHANGED <<sess, files>> /\ \E c \in {0, 1} : Error(st, c)
  <2>1. UNCHANGED remote BY <1>1, <1>10 DEF remote
  <2> QED BY <1>1, <1>10, <2>1, FailsGood
<1>11. CASE /\ UNCHANGED <<sess, files>>
            /\ \E why \in {"chunk", "refused"}, c \in {0, 1} :
                 Goto([job EXCEPT !.pc = "probe", !.why = why], c)
  <2>1. UNCHANGED remote BY <1>1, <1>11 DEF remote
  <2>2. PICK why \in {"chunk", "refused"}, c \in {0, 1} :
          Goto([job EXCEPT !.pc = "probe", !.why = why], c)
    BY <1>11
  <2>3. PICK j : j = [job EXCEPT !.pc = "probe", !.why = why] OBVIOUS
  <2>4. j \in JobStates /\ j.pc \in Onward /\ j.i = job.i BY <1>8, <2>3
  <2>5. Goto(j, c) BY <2>2, <2>3
  <2> QED BY <1>1, <1>4, <2>1, <2>4, <2>5, UnsentGood
<1>12. CASE UNCHANGED <<sess, files>> /\ Persist(st, [job EXCEPT !.stall = @ + 1], 1)
  <2>1. UNCHANGED remote BY <1>1, <1>12 DEF remote
  <2>2. PICK n \in Nat : n = job.stall + 1 BY <1>3 DEF JobStates
  <2>3. PICK j : j = [job EXCEPT !.stall = n] OBVIOUS
  <2>4. j \in JobStates /\ j.pc = "chunk" /\ j.i = job.i BY <1>1, <1>3, <2>3 DEF JobStates
  <2>5. Persist(st, j, 1) BY <1>12, <2>2, <2>3
  <2>6. Keeps(st, st) BY <1>1, StKeeps
  <2>7. st.of[here].ses /\ j.pc \in Onward BY <1>1, <1>4, <2>4 DEF mine
  <2> QED BY <1>1, <2>1, <2>4, <2>5, <2>6, <2>7, OnwardGood
<1>13. CASE /\ local[here] # 0 /\ sess' = [sess EXCEPT ![here] = t]
            /\ files' = IF t.state = "done"
                        THEN Stored(s.id, Made(t), files[s.id].has = 0) ELSE files
            /\ \/ Completing(st, 0)
               \/ Persist(With(here, [mine EXCEPT !.off = t.got]), [job EXCEPT !.stall = 0], 0)
               \/ Goto([job EXCEPT !.pc = "probe", !.why = "chunk"], 1)
  <2>1. local[here] \in Contents BY <1>3, <1>13 DEF DriveInv, DriveTyped
  <2>2. t \in Sessions /\ t.id = mine.id /\ Made(t) \in Has /\ Made(t) # 0 /\ t.got \in Nat
    BY <1>5, <1>6, <1>7, <2>1, TookFacts DEF Sessions
  <2>3. RemoteTyped' /\ Kept(d)' /\ \A a \in Assets : a # here /\ Good(d, a) => Good(d, a)'
    <3>1. CASE t.state = "done"
      <4>1. PICK create : create = (files[mine.id].has = 0) OBVIOUS
      <4>2. files' = Stored(mine.id, Made(t), create) BY <1>6, <1>13, <3>1, <4>1
      <4>3. sess' \in [Assets -> Sessions] /\ \A a \in Assets : sess'[a].id = sess[a].id
        BY <1>3, <1>5, <1>6, <1>13, <2>2 DEF RemoteTyped
      <4> QED BY <1>1, <1>2, <2>2, <4>1, <4>2, <4>3, StoredGood
    <3>2. CASE t.state # "done" BY <1>1, <1>2, <1>13, <2>2, <3>2, SessionGood
    <3> QED BY <3>1, <3>2
  <2>4. CASE Completing(st, 0) BY <1>1, <1>2, <2>3, <2>4, SentGood
  <2>5. CASE Goto([job EXCEPT !.pc = "probe", !.why = "chunk"], 1)
    <3>1. PICK j : j = [job EXCEPT !.pc = "probe", !.why = "chunk"] OBVIOUS
    <3>2. j \in JobStates /\ j.pc \in Onward /\ j.i = job.i BY <1>8, <3>1
    <3>3. Goto(j, 1) BY <2>5, <3>1
    <3> QED BY <1>1, <1>2, <1>4, <2>3, <3>2, <3>3, SentGood
  <2>6. CASE Persist(With(here, [mine EXCEPT !.off = t.got]), [job EXCEPT !.stall = 0], 0)
    <3>1. PICK r : r = [mine EXCEPT !.off = t.got] OBVIOUS
    <3>2. /\ r \in AssetRecords /\ r.id = mine.id /\ r.want = mine.want /\ r.res = mine.res
          /\ r.ses
      BY <1>3, <1>4, <2>2, <3>1, EntryFacts
    <3>3. PICK j : j = [job EXCEPT !.stall = 0] OBVIOUS
    <3>4. j \in JobStates /\ j.pc = "chunk" /\ j.i = job.i BY <1>1, <1>3, <3>3 DEF JobStates
    <3>5. Persist(With(here, r), j, 0) BY <2>6, <3>1, <3>3
    <3>6. sess'[here].id = mine.id BY <1>3, <1>13, <2>2 DEF RemoteTyped
    <3> QED BY <1>1, <1>2, <2>3, <3>2, <3>4, <3>5, <3>6, OpenGood
  <2> QED BY <1>13, <2>4, <2>5, <2>6
<1> QED BY <1>5, <1>7, <1>9, <1>10, <1>11, <1>12, <1>13, Zenon DEF Chunk

-----------------------------------------------------------------------------
(* The job starts.                                                           *)
LEMMA SnapshotFacts ==
  ASSUME NEW r \in AssetRecords, NEW c \in Contents \cup {0}
  PROVE  /\ Snapshot(r, c) \in AssetRecords /\ Snapshot(r, c).id = r.id
         /\ Snapshot(r, c).res = r.res /\ (Snapshot(r, c).ses => r.ses)
<1>1. CASE c # r.want \/ c = 0
  <2>1. PICK q : q = Restarted(r) OBVIOUS
  <2>2. 0 \in Nat OBVIOUS
  <2>3. q \in AssetRecords /\ q.id = r.id /\ q.res = r.res /\ ~q.ses BY <2>1, <2>2, EntryFacts
  <2>4. Snapshot(r, c) = [q EXCEPT !.want = c] BY <1>1, <2>1 DEF Snapshot
  <2>5. PICK e : e = [q EXCEPT !.want = c] OBVIOUS
  <2>6. e \in AssetRecords /\ e.id = q.id /\ e.res = q.res /\ e.ses = q.ses
    BY <2>3, <2>5 DEF AssetRecords
  <2> QED BY <2>3, <2>4, <2>5, <2>6
<1>2. CASE ~(c # r.want \/ c = 0)
  <2>1. PICK b \in BOOLEAN : b = (r.up /\ r.id # 0) BY DEF AssetRecords
  <2>2. Snapshot(r, c) = [r EXCEPT !.up = b] BY <1>2, <2>1 DEF Snapshot
  <2>3. PICK e : e = [r EXCEPT !.up = b] OBVIOUS
  <2>4. e \in AssetRecords /\ e.id = r.id /\ e.res = r.res /\ e.ses = r.ses
    BY <2>1, <2>3 DEF AssetRecords
  <2> QED BY <2>2, <2>3, <2>4
<1> QED BY <1>1, <1>2

\* What the job starts with: the record on flash, or one without ids when they
\* are of another authorization.
LEMMA LoadedFacts ==
  ASSUME DriveInv, NEW d, d = disk, NEW l, l = Loaded
  PROVE  /\ l \in Records /\ l.gen = cfg.gen /\ l.dir = d.dir
         /\ d.gen = cfg.gen => l = d
         /\ d.gen # cfg.gen => l.pend = 0 /\ \A a \in Assets : l.of[a].id = 0 /\ ~l.of[a].ses
<1>1. d \in Records /\ cfg.gen \in Nat BY DEF DriveInv, DriveTyped, Settings
<1>2. CASE d.gen = cfg.gen BY <1>1, <1>2 DEF Loaded
<1>3. CASE d.gen # cfg.gen
  <2>1. PICK e : e = [a \in Assets |-> [NoAsset EXCEPT !.want = d.of[a].want]] OBVIOUS
  <2>2. ASSUME NEW a \in Assets
        PROVE  e[a] \in AssetRecords /\ e[a].id = 0 /\ ~e[a].ses
    <3>1. PICK w \in Contents \cup {0} : w = d.of[a].want BY <1>1 DEF Records, AssetRecords
    <3>2. e[a] = Lone(w) BY <2>1, <3>1 DEF Lone
    <3>3. 0 \in 0..MaxId BY DriveAssumption
    <3> QED BY <3>2, <3>3, EntryTypes
  <2>3. e \in [Assets -> AssetRecords] BY <2>1, <2>2
  <2>4. PICK m : m = [[[d EXCEPT !.gen = cfg.gen] EXCEPT !.pend = 0] EXCEPT !.full = FALSE]
    OBVIOUS
  <2>5. m \in Records /\ m.gen = cfg.gen /\ m.pend = 0 /\ m.dir = d.dir
    <3>1. PICK g \in Nat, n \in 0..MaxId : g = cfg.gen /\ n = 0 BY <1>1, DriveAssumption
    <3>2. m = [[[d EXCEPT !.gen = g] EXCEPT !.pend = n] EXCEPT !.full = FALSE]
      BY <2>4, <3>1
    <3>3. m \in Records /\ m.gen = g /\ m.pend = n /\ m.dir = d.dir BY <1>1, <3>2 DEF Records
    <3> QED BY <3>1, <3>3
  <2>6. l = [m EXCEPT !.of = e] BY <1>3, <2>1, <2>4 DEF Loaded
  <2>7. l \in Records /\ l.gen = m.gen /\ l.pend = m.pend /\ l.dir = m.dir /\ l.of = e
    BY <2>3, <2>5, <2>6 DEF Records
  <2> QED BY <1>3, <2>2, <2>5, <2>7
<1> QED BY <1>2, <1>3

LEMMA UploadNoteGood == ASSUME DriveInv, UploadNote PROVE DriveInv'
<1>1. job.pc = "idle" /\ UNCHANGED <<local, cfg, remote>> BY DEF UploadNote, At
<1>2. PICK d : d = disk OBVIOUS
<1>3. /\ RemoteTyped /\ Kept(d) /\ d \in Records /\ cfg \in Settings
      /\ local \in [Assets -> Contents \cup {0}]
      /\ d.full /\ d.gen = cfg.gen => \A a \in Assets : Good(d, a)
  BY <1>2 DEF DriveInv, DriveTyped, Verified
<1>4. RemoteTyped' /\ Kept(d)' /\ \A a : Good(d, a)' <=> Good(d, a) BY <1>1, <1>3, SameRemote
<1>5. PICK l : l = Loaded OBVIOUS
<1>6. /\ l \in Records /\ l.gen = cfg.gen /\ l.dir = d.dir
      /\ d.gen = cfg.gen => l = d
      /\ d.gen # cfg.gen => l.pend = 0 /\ \A a \in Assets : l.of[a].id = 0 /\ ~l.of[a].ses
  BY <1>2, <1>5, LoadedFacts
<1>7. PICK e : e = [a \in Assets |-> Snapshot(l.of[a], local[a])] OBVIOUS
<1>8. ASSUME NEW a \in Assets
      PROVE  /\ e[a] \in AssetRecords /\ e[a].id = l.of[a].id /\ e[a].res = l.of[a].res
             /\ e[a].ses => l.of[a].ses
  <2>1. l.of[a] \in AssetRecords /\ local[a] \in Contents \cup {0} BY <1>3, <1>6 DEF Records
  <2>2. e[a] = Snapshot(l.of[a], local[a]) BY <1>7
  <2> QED BY <2>1, <2>2, SnapshotFacts
<1>9. PICK m : m = [l EXCEPT !.full = FALSE] OBVIOUS
<1>10. PICK s : s = [m EXCEPT !.of = e] OBVIOUS
<1>11. /\ s \in Records /\ s.full = FALSE /\ s.gen = cfg.gen /\ s.dir = d.dir
       /\ s.pend = l.pend /\ s.of = e
  <2>1. e \in [Assets -> AssetRecords] BY <1>7, <1>8
  <2>2. /\ m \in Records /\ m.full = FALSE /\ m.gen = l.gen /\ m.dir = l.dir
        /\ m.pend = l.pend
    BY <1>6, <1>9 DEF Records
  <2>3. /\ s \in Records /\ s.full = m.full /\ s.gen = m.gen /\ s.dir = m.dir
        /\ s.pend = m.pend /\ s.of = e
    BY <1>10, <2>1, <2>2 DEF Records
  <2> QED BY <1>6, <2>2, <2>3
<1>12. Fits(d, s)'
  <2>1. s.dir \in dirs' \cup moved' \cup {0} BY <1>4, <1>11 DEF Kept, Foldered
  <2>2. CASE d.gen = cfg.gen
    <3>1. \A a \in Assets : SameId(d, s, a)' BY <1>6, <1>8, <1>11, <2>2 DEF SameId
    <3>2. s.pend = d.pend /\ s.gen = d.gen BY <1>6, <1>11, <2>2
    <3> QED BY <1>4, <1>11, <2>1, <3>1, <3>2 DEF Fits, Kept, Foldered
  <2>3. CASE d.gen # cfg.gen
    <3>1. \A x \in Ids, a \in Assets : ~Claimed(x, a, cfg.gen)'
      BY <1>1, <1>4, <2>3 DEF Kept, Tracked
    <3>2. \A a \in Assets : NoId(s, a)' BY <1>1, <1>6, <1>8, <1>11, <2>3, <3>1 DEF NoId
    <3>3. cfg'.paired => late' = {} BY <1>1, <1>4, <2>3 DEF Kept, Foldered
    <3>4. s.pend = 0 /\ s.gen = cfg'.gen BY <1>1, <1>6, <1>11, <2>3
    <3> QED BY <1>1, <1>11, <2>1, <3>1, <3>2, <3>3, <3>4 DEF Fits
  <2> QED BY <2>2, <2>3
<1>13. PICK j : j = [Idle EXCEPT !.pc = "token"] OBVIOUS
<1>14. j \in JobStates /\ j.pc = "token" BY <1>13, BlankTypes DEF JobStates, FolderSteps
<1>15. \/ cfg.paired /\ Persist(s, j, 0)
       \/ Error(s, 0)
  BY <1>5, <1>7, <1>9, <1>10, <1>13 DEF UploadNote
<1>16. \/ disk' = s /\ st' = s /\ job' = j /\ cfg.paired
       \/ job' = Idle /\ st' = Blank /\ disk' \in {d, s}
  <2>1. CASE cfg.paired /\ Persist(s, j, 0) BY <1>2, <2>1 DEF Persist, Stop
  <2>2. CASE Error(s, 0)
    <3>1. [s EXCEPT !.full = FALSE] = s BY <1>11, PendedFacts DEF Pended
    <3> QED BY <1>2, <2>2, <3>1 DEF Error, Stop
  <2> QED BY <1>15, <2>1, <2>2
<1>17. Passed(j) = {} BY <1>14 DEF Passed, UploadSteps
<1>18. cfg.paired => Placed(s, j)'
  BY <1>1, <1>11, <1>14 DEF Placed, FileSteps, UploadSteps
<1>19. d.full /\ d.gen = cfg'.gen => \A a \in Assets : Good(d, a)' BY <1>1, <1>3, <1>4
<1>20. local' \in [Assets -> Contents \cup {0}] /\ cfg' \in Settings BY <1>1, <1>3
<1>21. CASE disk' = s /\ st' = s /\ job' = j /\ cfg.paired
  BY <1>3, <1>4, <1>11, <1>12, <1>14, <1>17, <1>18, <1>20, <1>21, StepGood
<1>22. CASE job' = Idle /\ st' = Blank /\ disk' \in {d, s}
  BY <1>3, <1>4, <1>11, <1>12, <1>14, <1>19, <1>20, <1>22, StepGood
<1> QED BY <1>16, <1>21, <1>22

\* A new authorization has no files, and no request of the last one survives it.
LEMMA PairGood == ASSUME DriveInv, Pair PROVE DriveInv'
<1>1. /\ job.pc = "idle" /\ late' = {}
      /\ UNCHANGED <<local, disk, st, job, faults, files, dirs, sess, given, moved>>
  BY DEF Pair, At, device
<1>2. PICK d : d = disk OBVIOUS
<1>3. RemoteTyped /\ Kept(d) /\ d \in Records /\ cfg \in Settings BY <1>2 DEF DriveInv, DriveTyped
<1>4. PICK n \in Nat : n = cfg.gen + 1 BY <1>3 DEF Settings
<1>5. cfg' \in Settings /\ cfg'.gen = n /\ cfg'.dir = cfg.dir
  <2>1. cfg' = [[cfg EXCEPT !.paired = TRUE] EXCEPT !.gen = n] BY <1>4 DEF Pair
  <2> QED BY <1>3, <2>1 DEF Settings
<1>6. RemoteTyped' BY <1>1, <1>3 DEF RemoteTyped
<1>7. \A x, a, g : Claimed(x, a, g)' => Claimed(x, a, g)
  BY <1>1 DEF Claimed, There, Away, Creates
<1>8. \A x \in Ids, a \in Assets, g \in Nat : Claimed(x, a, g)' => g <= cfg.gen
  BY <1>3, <1>7 DEF Kept, Tracked
<1>9. cfg.gen \in Nat /\ d.gen \in Nat /\ d.gen <= cfg.gen
  BY <1>3 DEF Settings, Records, Kept, Tracked
<1>10. \A x \in Ids, a \in Assets : ~Claimed(x, a, cfg.gen)' BY <1>4, <1>5, <1>8, <1>9
<1>11. Tracked(d)'
  <2>1. d.gen <= cfg'.gen BY <1>4, <1>5, <1>9
  <2>2. \A x \in Ids, a \in Assets, g \in Nat : Claimed(x, a, g)' => g <= cfg'.gen
    BY <1>4, <1>5, <1>8, <1>9
  <2>3. \A x, y \in Ids, a \in Assets, g \in Nat : Claimed(x, a, g)' /\ Claimed(y, a, g)' => x = y
    BY <1>3, <1>7 DEF Kept, Tracked
  <2> QED BY <1>10, <2>1, <2>2, <2>3 DEF Tracked
<1>12. Numbered(d)' /\ Foldered(d)' /\ Owned(d)'
  BY <1>1, <1>3, <1>5 DEF Kept, Numbered, Foldered, Owned, There
<1>13. Kept(disk)' BY <1>1, <1>2, <1>11, <1>12 DEF Kept
<1>14. DriveTyped' BY <1>1, <1>5, <1>6 DEF DriveInv, DriveTyped
<1>15. Working' BY <1>1 DEF Working
<1>16. disk'.gen # cfg'.gen BY <1>1, <1>2, <1>4, <1>5, <1>9
<1>17. Verified' BY <1>1, <1>16 DEF Verified, Passed, UploadSteps
<1> QED BY <1>13, <1>14, <1>15, <1>17 DEF DriveInv

\* Every request of the job.
LEMMA StepsGood == ASSUME DriveInv, Steps PROVE DriveInv'
BY TokenGood, CheckFolderGood, ListFoldersGood, MakeFolderGood, PrepareGood, PrepareKnownGood,
   ReconcileGood, ReserveIdsGood, UploadGood, MultipartGood, RecoverGood, InitiateGood,
   ChunkGood, ProbeGood, VerifyGood, FinishGood
   DEF Steps

-----------------------------------------------------------------------------
(* The whole: the job, Drive and the speech service.                         *)
SyncIInv == DriveInv /\ AiInv /\ JobInv

LEMMA DriveInitHolds == Init => DriveInv
<1> SUFFICES ASSUME Init PROVE DriveInv
  OBVIOUS
<1> USE DEF Init
<1>1. MaxId \in Nat /\ 1 \in Contents BY DriveAssumption
<1>2. files = [x \in Ids |-> NoFile] BY DEF Ids
<1>3. RemoteTyped BY <1>1, <1>2, BlankTypes DEF RemoteTyped
<1>4. cfg \in Settings BY <1>1 DEF Settings
<1>5. DriveTyped BY <1>1, <1>3, <1>4, BlankTypes DEF DriveTyped
<1>6. /\ disk.full = FALSE /\ disk.gen = 0 /\ disk.dir = 0 /\ disk.pend = 0
      /\ \A a \in Assets : disk.of[a] = NoAsset
  BY DEF Blank
<1>7. NoAsset.id = 0 /\ ~NoAsset.ses BY DEF NoAsset
<1>8. \A x \in Ids : ~There(x) /\ files[x].dir = 0
  <2>1. NoFile.has = 0 /\ NoFile.dir = 0 BY DEF NoFile
  <2> QED BY <1>2, <2>1 DEF There
<1>9. \A x \in Ids : \A a, g : ~Claimed(x, a, g) BY <1>8 DEF Claimed
<1>10. Numbered(disk) BY <1>6, <1>7, <1>8 DEF Numbered
<1>11. Foldered(disk)
  <2>1. dirs = {} /\ moved = {} /\ late = {} OBVIOUS
  <2>2. \A x \in Ids : files[x].dir \in IF There(x) THEN dirs \cup moved ELSE {0}
    <3> TAKE x \in Ids
    <3>1. ~There(x) /\ files[x].dir = 0 BY <1>8
    <3>2. (IF There(x) THEN dirs \cup moved ELSE {0}) = {0} BY <3>1, Zenon
    <3> QED BY <3>1, <3>2
  <2> QED BY <1>6, <2>1, <2>2 DEF Foldered
<1>12. Owned(disk) BY <1>6, <1>7 DEF Owned
<1>13. Tracked(disk) BY <1>6, <1>9 DEF Tracked
<1>14. Working /\ Verified BY <1>6, BlankTypes DEF Working, Verified, Passed, UploadSteps
<1> QED BY <1>5, <1>10, <1>11, <1>12, <1>13, <1>14 DEF DriveInv, Kept

LEMMA SyncInitHolds == SyncInit => SyncIInv
<1> SUFFICES ASSUME SyncInit PROVE SyncIInv
  OBVIOUS
<1>1. DriveInv /\ AiInv BY DriveInitHolds, AiInitHolds DEF SyncInit
<1>2. JobInv
  <2>1. local \in [Assets -> Contents \cup {0}] BY <1>1 DEF DriveInv, DriveTyped
  <2>2. sync \in SyncStates /\ sync.pc = "idle" BY DEF SyncInit, Resting, SyncStates
  <2>3. tmp \in [Texts -> Contents \cup {0}] BY DEF SyncInit
  <2> QED BY <2>1, <2>2, <2>3 DEF SyncInit, JobInv, JobTyped, Flashed, TextSteps
<1> QED BY <1>1, <1>2 DEF SyncIInv

\* The requests to Drive and the world's changes there leave the device's files alone.
LEMMA StepsLocal == ASSUME Steps PROVE local' = local
BY DEF Steps, Token, CheckFolder, ListFolders, MakeFolder, Prepare, PrepareKnown, Reconcile,
       ReserveIds, Upload, Multipart, Recover, Initiate, Chunk, Probe, Verify, Finish

\* What the speech service keeps is untouched, or a batch begins.
LEMMA AiSame ==
  ASSUME AiInv, clean' \in {clean, AI!FullBudget},
         UNCHANGED <<key, cache, pend, retired, audio, made, expired, wav, ai, told>>
  PROVE  AiInv'
<1>1. AiTyped' BY AiTypes DEF AiInv, AiTyped
<1>2. Told' BY DEF AiInv, Told
<1>3. Listed' BY DEF AiInv, Listed, AI!Name, AI!Foreign, AI!RemoteTracked
<1> QED BY <1>1, <1>2, <1>3 DEF AiInv

\* The call is over.
LEMMA AiReturnsGood ==
  ASSUME AiInv, ai' = AI!NoCall,
         UNCHANGED <<key, cache, pend, retired, audio, made, expired, wav, clean, told>>
  PROVE  AiInv'
<1>1. AiTyped' BY AiTypes DEF AiInv, AiTyped
<1>2. Told' BY AiTypes DEF AiInv, Told
<1>3. Listed' BY AiTypes DEF AiInv, Listed, AI!Foreign, AI!RemoteTracked
<1> QED BY <1>1, <1>2, <1>3 DEF AiInv

\* A step of the job that Drive does not see, nor the record of it.
LEMMA DriveSame ==
  ASSUME DriveInv, JobInv', UNCHANGED <<cfg, disk, st, job, remote>> PROVE DriveInv'
BY LocalGood DEF JobInv, JobTyped

LEMMA WorkGood == ASSUME SyncIInv, Work PROVE SyncIInv'
<1> USE DEF SyncIInv
<1>1. CASE SkipText \/ Rest \/ Delivered
  <2>1. UNCHANGED <<driveVars, aiVars>> BY <1>1 DEF SkipText, Rest, Delivered, quiet
  <2>2. JobInv' BY <1>1, SkipTextGood, MovesGood
  <2> QED BY <2>1, <2>2, DriveSame, AiSame DEF driveVars, device, aiVars
<1>2. CASE Buy
  <2>1. UNCHANGED driveVars BY <1>2 DEF Buy
  <2>2. JobInv' BY <1>2, MovesGood
  <2>3. AiInv' BY <1>2, CallGood DEF Buy, AI!Jobs
  <2> QED BY <2>1, <2>2, <2>3, DriveSame DEF driveVars, device
<1>3. CASE Bought
  <2>1. JobInv' BY <1>3, MovesGood
  <2>2. UNCHANGED <<cfg, disk, st, job, remote>> BY <1>3 DEF Bought
  <2>3. AiInv' BY <1>3, AiReturnsGood DEF Bought
  <2> QED BY <2>1, <2>2, <2>3, DriveSame
<1>4. CASE WriteText \/ Written \/ Prepared \/ Stopped
  <2>1. JobInv' BY <1>4, WriteTextGood, WrittenGood, MovesGood
  <2>2. UNCHANGED <<cfg, disk, st, job, remote, aiVars>>
    BY <1>4 DEF WriteText, Written, Prepared, Stopped
  <2> QED BY <2>1, <2>2, DriveSame, AiSame DEF aiVars
<1>5. CASE Deliver
  <2>1. JobInv' BY <1>5, MovesGood
  <2>2. UploadNote /\ UNCHANGED aiVars BY <1>5 DEF Deliver
  <2> QED BY <2>1, <2>2, UploadNoteGood, AiSame DEF aiVars
<1>6. CASE Drive
  <2>1. Steps /\ UNCHANGED <<jobVars, aiVars>> BY <1>6 DEF Drive
  <2>2. local' = local BY <2>1, StepsLocal
  <2> QED BY <2>1, <2>2, StepsGood, JobSame, AiSame DEF jobVars, aiVars
<1>7. CASE Gemini
  <2>1. UNCHANGED <<local, cfg, disk, st, job, remote, jobVars>> /\ AI!AiSteps
    BY <1>7 DEF Gemini
  <2>2. JobInv' BY <2>1, JobSame DEF jobVars
  <2> QED BY <2>1, <2>2, DriveSame, AiStepsGood
<1>8. CASE End
  <2>1. JobInv' BY <1>8, MovesGood
  <2>2. UNCHANGED <<cfg, disk, st, job, remote>> /\ AI!Sweep BY <1>8 DEF End
  <2> QED BY <2>1, <2>2, DriveSame, SweepGood
<1> QED BY <1>1, <1>2, <1>3, <1>4, <1>5, <1>6, <1>7, <1>8 DEF Work

LEMMA AskGood == ASSUME SyncIInv, Ask PROVE SyncIInv'
<1> USE DEF SyncIInv
<1>1. PICK force \in BOOLEAN : Start(force) BY DEF Ask
<1>2. JobInv' BY <1>1, StartGood
<1>3. UNCHANGED <<cfg, disk, st, job, remote>> BY <1>1 DEF Start, device
<1>4. AiInv'
  <2>1. /\ clean' \in {clean, AI!FullBudget}
        /\ UNCHANGED <<key, cache, pend, retired, audio, made, expired, wav, ai, told>>
    BY <1>1 DEF Start, AI!BeginBatch
  <2> QED BY <2>1, AiSame
<1> QED BY <1>2, <1>3, <1>4, DriveSame

\* The user pairs, waits or saves a key.
LEMMA RestGood == ASSUME SyncIInv, Pairing \/ Waiting \/ NewKey PROVE SyncIInv'
<1> USE DEF SyncIInv
<1>1. CASE Pairing
  <2>1. Pair /\ local' = local /\ UNCHANGED <<jobVars, aiVars>>
    BY <1>1 DEF Pairing, Pair, Elsewhere
  <2> QED BY <2>1, PairGood, JobSame, AiSame DEF jobVars, aiVars
<1>2. CASE Waiting \/ NewKey
  <2>1. AtRest /\ (AI!TimePasses \/ AI!SaveKey) BY <1>2 DEF Waiting, NewKey
  <2>2. UNCHANGED <<local, cfg, disk, st, job, remote, jobVars>> BY <2>1 DEF AtRest
  <2>3. JobInv' BY <2>2, JobSame DEF jobVars
  <2> QED BY <2>1, <2>2, <2>3, DriveSame, TimePassesGood, SaveKeyGood
<1> QED BY <1>1, <1>2

LEMMA WorldsGood == ASSUME SyncIInv, World PROVE SyncIInv'
<1> USE DEF SyncIInv
<1>1. CASE (Arrive \/ UserMoves \/ Expire) /\ Elsewhere
  <2>1. local' = local /\ UNCHANGED <<jobVars, aiVars>>
    BY <1>1 DEF Arrive, UserMoves, Expire, Elsewhere
  <2>2. DriveInv' BY <1>1, ArriveGood, UserMovesGood, ExpireGood
  <2> QED BY <2>1, <2>2, JobSame, AiSame DEF jobVars, aiVars
<1>2. CASE AtRest /\ AI!TwoDays
  <2>1. UNCHANGED <<local, cfg, disk, st, job, remote, jobVars>> BY <1>2 DEF AtRest
  <2>2. JobInv' BY <2>1, JobSame DEF jobVars
  <2> QED BY <1>2, <2>1, <2>2, DriveSame, TwoDaysGood
<1>3. CASE RequestPause
  <2>1. /\ UNCHANGED <<local, cfg, disk, st, job, remote, tmp, meta, sync, whole, aiVars>>
        /\ pause' = TRUE
    BY <1>3 DEF RequestPause
  <2>2. JobInv' BY <2>1 DEF JobInv, JobTyped, Flashed, text
  <2> QED BY <2>1, <2>2, DriveSame, AiSame DEF aiVars
<1>4. CASE Damage
  <2>1. JobInv' BY <1>4, DamageGood
  <2>2. UNCHANGED <<cfg, disk, st, job, remote, aiVars>> BY <1>4 DEF Damage
  <2> QED BY <2>1, <2>2, DriveSame, AiSame DEF aiVars
<1>5. CASE PowerLoss
  <2>1. JobInv' BY <1>5, PowerLossGood
  <2>2. /\ Crash /\ AI!AiForgets
        /\ UNCHANGED <<key, pend, retired, audio, made, expired, wav>>
    BY <1>5 DEF PowerLoss
  <2> QED BY <2>1, <2>2, CrashGood, AiForgetsGood
<1> QED BY <1>1, <1>2, <1>3, <1>4, <1>5 DEF World

\* The invariant is inductive.
THEOREM Inductive == SyncSpec => []SyncIInv
<1>1. SyncInit => SyncIInv BY SyncInitHolds
<1>2. SyncIInv /\ [SyncNext]_syncVars => SyncIInv'
  <2> SUFFICES ASSUME SyncIInv, [SyncNext]_syncVars PROVE SyncIInv'
    OBVIOUS
  <2>1. CASE SyncNext BY <2>1, WorkGood, AskGood, RestGood, WorldsGood DEF SyncNext
  <2>2. CASE UNCHANGED syncVars
    <3>1. UNCHANGED <<driveVars, jobVars, aiVars>> BY <2>2 DEF syncVars
    <3>2. JobInv' BY <3>1, JobSame DEF SyncIInv, jobVars, driveVars
    <3> QED BY <3>1, <3>2, DriveSame, AiSame DEF SyncIInv, driveVars, device, aiVars
  <2> QED BY <2>1, <2>2
<1> QED BY <1>1, <1>2, PTL DEF SyncSpec

\* What the device calls delivered is on Drive under the id it wrote down, with
\* the content it has here and in our folder, unless the user moved it away:
\* uploadNote says yes only after it read back size and MD5 (SyncedIsThere).
THEOREM DeliveredIsThere == SyncSpec => []SyncedIsThere
<1>1. SyncIInv => SyncedIsThere
  BY DEF SyncIInv, DriveInv, Verified, Good, SyncedIsThere
<1> QED BY <1>1, Inductive, PTL

\* However requests and replies were lost, late or repeated, an authorization
\* leaves one file of each kind of a note, in one folder (OneCopy): the id of a
\* file is on flash before the first request for it, and is given up only when
\* nothing with it can be there.
THEOREM NeverTwice == SyncSpec => []OneCopy
<1>1. SyncIInv => OneCopy
  <2> SUFFICES ASSUME SyncIInv PROVE OneCopy
    OBVIOUS
  <2>1. DriveTyped /\ RemoteTyped /\ Tracked(disk) /\ dirs \subseteq {cfg.dir}
    BY DEF SyncIInv, DriveInv, DriveTyped, Kept, Foldered
  <2>2. Cardinality(dirs) <= 1
    <3>1. CASE dirs = {} BY <3>1, FS_EmptySet
    <3>2. CASE dirs = {cfg.dir}
      <4>1. Cardinality({cfg.dir}) = 1 BY FS_Singleton
      <4> QED BY <3>2, <4>1
    <3> QED BY <2>1, <3>1, <3>2
  <2>3. ASSUME NEW x \in {z \in 1..MaxId : files[z].has # 0 /\ ~Away(z)},
               NEW y \in {z \in 1..MaxId : files[z].has # 0 /\ ~Away(z)},
               files[x].of = files[y].of, files[x].gen = files[y].gen
        PROVE  x = y
    <3>1. x \in Ids /\ y \in Ids /\ There(x) /\ There(y) /\ ~Away(x) /\ ~Away(y)
      BY DEF Ids, There
    <3>2. PICK a \in Assets, g \in Nat : files[x].of = a /\ files[x].gen = g
      BY <2>1, <3>1 DEF RemoteTyped, FileRecords
    <3>3. Claimed(x, a, g) /\ Claimed(y, a, g) BY <2>3, <3>1, <3>2 DEF Claimed
    <3> QED BY <2>1, <3>1, <3>3 DEF Tracked
  <2> QED BY <2>2, <2>3 DEF OneCopy
<1> QED BY <1>1, Inductive, PTL

\* Nothing the device has put into either cloud is forgotten (Accounted): a file
\* on Drive has its id in .sync, and temporary audio has its name in NVS.
THEOREM NothingLost == SyncSpec => []Accounted
<1>1. SyncIInv => Accounted
  <2> SUFFICES ASSUME SyncIInv PROVE Accounted
    OBVIOUS
  <2>1. RemoteTracked BY DEF SyncIInv, AiInv, Listed, RemoteTracked
  <2>2. ASSUME NEW x \in 1..MaxId, files[x].has # 0, ~Away(x), files[x].gen = cfg.gen
        PROVE  \E a \in Assets : disk.of[a].id = x
    <3>1. RemoteTyped /\ Tracked(disk) BY DEF SyncIInv, DriveInv, DriveTyped, Kept
    <3>2. PICK a \in Assets : files[x].of = a
      BY <3>1 DEF RemoteTyped, FileRecords, Ids
    <3>3. x \in Ids /\ Claimed(x, a, cfg.gen) BY <2>2, <3>2 DEF Claimed, There, Ids
    <3> QED BY <3>1, <3>3 DEF Tracked
  <2> QED BY <2>1, <2>2 DEF Accounted, NothingForgotten
<1> QED BY <1>1, Inductive, PTL

\* The speech API is left alone for as long as it asked, and after it refused the
\* key (WaitsWhenTold).
THEOREM ToldToWait == SyncSpec => []WaitsWhenTold
<1>1. SyncIInv => WaitsWhenTold
  BY DEF SyncIInv, AiInv, AiTyped, Told, WaitsWhenTold, AI!WaitsWhenTold
<1> QED BY <1>1, Inductive, PTL

\* A text that was whole on flash is bought again only when the flash lost it
\* (PaidOnce): the job that could buy it has found it, or its .tmp, in start().
THEOREM BoughtOnce == SyncSpec => PaidOnce
<1>1. SyncIInv /\ [SyncNext]_syncVars => [Buy => text \notin whole]_syncVars
  <2> SUFFICES ASSUME SyncIInv, Buy PROVE text \notin whole
    OBVIOUS
  <2>1. sync.pc = "text" /\ text \notin sync.had BY DEF Buy, SyncAt
  <2>2. whole \subseteq sync.had BY <2>1 DEF SyncIInv, JobInv, Flashed
  <2> QED BY <2>1, <2>2
<1> QED BY <1>1, Inductive, PTL DEF SyncSpec, PaidOnce

=============================================================================
