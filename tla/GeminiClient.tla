---------------------------- MODULE GeminiClient ----------------------------
(***************************************************************************)
(* GeminiClient: one transcription or one summary bought from the API, and *)
(* the temporary audio files it leaves on the server.                      *)
(*                                                                         *)
(* An answer is a class, by what the client does with it: "lost" is a      *)
(* transport error, a 5xx or 408; "busy" a 429 that may pass; "quota" a    *)
(* 429 of the day or of a zero quota; "hint" a Retry-After above one       *)
(* minute; "key" a refused key; "gone" 404; "bad" another refusal;         *)
(* "empty" a 200 without text.  Each answer but "ok" costs one of          *)
(* MaxFaults faults, like a failed write of NVS and a loss of power.       *)
(*                                                                         *)
(* The host of other providers (compatibleTranscribe, compatibleSummary)   *)
(* is not modelled: it has no state.                                       *)
(***************************************************************************)
EXTENDS Naturals, FiniteSets

CONSTANTS
    NModels,    \* models in the order they are tried; 1 is Transcribe
    Slots,      \* entries of pending[]
    MaxTries,   \* kMaxRetries: repetitions of one request
    Total,      \* kTotalRetries: repetitions of one call
    MaxFaults

VARIABLES
    key,      \* the key in the settings; each one the user saves is new
    cache,    \* SessionCache, with ModelState of each model
    pend,     \* pending[], kept in NVS: the files it must delete
    retired,  \* NVS: files of a former key, left to their expiry
    audio,    \* the server: audio files that exist
    made,     \* names generated
    expired,  \* names up to this one are older than 48 hours
    wav,      \* "small" fits in a request (kInlineWavLimit), "large" does not
    ai,       \* the call: where it is and what it has seen
    clean,    \* CleanupBudget
    told,     \* history: what the server asked of this key in this session
    faults

geminiVars == <<key, cache, pend, retired, audio, made, expired, wav, ai, clean, told>>
nvs == <<pend, retired>>

Models == 1..NModels
Jobs == {"stt", "sum"}
NoCache == [key |-> 0, acct |-> "no", disc |-> FALSE, mute |-> {}, off |-> {},
            blk |-> [x \in Models \X Jobs |-> "no"]]
NoCall == [pc |-> "idle", job |-> "stt", m |-> 1, tries |-> 0, left |-> 0, up |-> FALSE,
           file |-> 0, created |-> FALSE, active |-> FALSE, ok |-> FALSE]
FullBudget == [time |-> TRUE, retry |-> TRUE, deferred |-> FALSE]

GeminiInit ==
    /\ key = 1 /\ cache = NoCache /\ pend = {} /\ retired = {} /\ audio = {}
    /\ made = 0 /\ expired = 0 /\ wav \in {"small", "large"}
    /\ ai = NoCall /\ clean = FullBudget /\ told = "no"

AiAt(pc) == ai.pc = pc
Pay(n) == faults + n =< MaxFaults /\ faults' = faults + n

\* The answer of a request, and what it means for the history.
Ask(a) ==
    /\ Pay(IF a = "ok" THEN 0 ELSE 1)
    /\ told' = IF a = "key" THEN "key" ELSE IF a \in {"quota", "hint"} THEN "wait" ELSE told

AiGoto(pc) == [ai EXCEPT !.pc = pc, !.tries = 0]
Return(ok) == [AiGoto("done") EXCEPT !.ok = ok]
NextModel == [AiGoto("model") EXCEPT !.m = @ + 1]

\* consumeRetry() over retryable(): the budget is shared by the whole call.
CanRetry(a) == a \in {"lost", "busy"} /\ ai.tries < MaxTries /\ ai.left > 0
Again == [ai EXCEPT !.tries = @ + 1, !.left = @ - 1]

\* blockAccount(), blockAuthentication(), blockModel().
BlockAccount(a) == [cache EXCEPT !.acct = IF a = "key" THEN "session" ELSE "timed"]
BlockModel(how) == [cache EXCEPT !.blk[<<ai.m, ai.job>>] = how]
InlineOff == [cache EXCEPT !.off = @ \cup {ai.m}]

(***************************************************************************)
(* prepareModels: the key, the models it may use, discovery.               *)
(***************************************************************************)
KeepBlocks == [cache EXCEPT !.key = key] \* the new key inherits what the old one met
ActivateKey == IF cache.key = key THEN cache ELSE [NoCache EXCEPT !.key = key]

Call(job) ==
    /\ AiAt("idle")
    /\ cache' = ActivateKey
    /\ LET c == [NoCall EXCEPT !.job = job, !.left = Total, !.m = IF job = "sum" /\ NModels > 1 THEN 2 ELSE 1]
       IN  ai' = IF cache'.acct # "no" THEN [c EXCEPT !.pc = "done"]
                 ELSE IF cache'.disc THEN [c EXCEPT !.pc = "model"] ELSE [c EXCEPT !.pc = "discover"]
    /\ UNCHANGED <<key, nvs, audio, made, expired, wav, clean, told, faults>>

\* A list that fails without asking to wait keeps the known candidates;
\* "short" is a list where the last model does not generate.
Discover ==
    /\ AiAt("discover")
    /\ LET seen == [cache EXCEPT !.disc = TRUE, !.mute = {}]
       IN  \E a \in {"ok", "short", "lost", "busy", "quota", "hint", "key", "bad"} :
             /\ Ask(a)
             /\ IF CanRetry(a) THEN ai' = Again /\ cache' = cache
                ELSE IF a \in {"busy", "quota", "hint", "key"}
                THEN ai' = Return(FALSE) /\ cache' = [BlockAccount(a) EXCEPT !.disc = TRUE, !.mute = {}]
                ELSE /\ ai' = AiGoto("model")
                     /\ cache' = IF a = "short" THEN [seen EXCEPT !.mute = {NModels}] ELSE seen
    /\ UNCHANGED <<key, nvs, audio, made, expired, wav, clean>>

(***************************************************************************)
(* transcribe() and generateSummary(): the models in turn.                 *)
(***************************************************************************)
Usable == cache.blk[<<ai.m, ai.job>>] = "no" /\ (ai.m = 1 \/ ai.m \notin cache.mute)

PickModel ==
    /\ AiAt("model")
    /\ IF ai.m > NModels THEN ai' = Return(FALSE) /\ cache' = cache
       ELSE IF ~Usable
       THEN ai' = NextModel /\ cache' = IF cache.blk[<<ai.m, ai.job>>] = "no" THEN BlockModel("timed") ELSE cache
       ELSE /\ cache' = cache
            /\ ai' = IF ai.job = "sum" \/ ai.active THEN AiGoto("infer")
                     ELSE IF wav = "small" /\ ai.m \notin cache.off THEN AiGoto("inline")
                     ELSE IF ~ai.up THEN [AiGoto("capacity") EXCEPT !.up = TRUE] ELSE Return(FALSE)
    /\ UNCHANGED <<key, nvs, audio, made, expired, wav, clean, told, faults>>

\* The same model is tried through the Files API.
Rejected == IF ai.active THEN AiGoto("infer")
            ELSE IF ai.up THEN Return(FALSE) ELSE [AiGoto("capacity") EXCEPT !.up = TRUE]

\* failureAction()
Failure(a) ==
    \/ a \in {"key", "quota", "hint"} /\ ai' = Return(FALSE) /\ cache' = BlockAccount(a)
    \/ a = "gone" /\ ai' = NextModel /\ cache' = [BlockModel("timed") EXCEPT !.disc = FALSE]
    \/ a = "model" /\ ai' = NextModel /\ cache' = BlockModel("timed")
    \/ a = "bad" /\ ai' = Return(FALSE) /\ cache' = cache
    \/ CanRetry(a) /\ ai' = Again /\ cache' = cache
    \/ a = "lost" /\ ~CanRetry(a) /\ ai' = NextModel /\ cache' = BlockModel("timed")
    \/ /\ a = "busy" /\ ~CanRetry(a)
       /\ \/ ai' = NextModel /\ cache' = BlockModel("timed")
          \/ ai' = Return(FALSE) /\ cache' = BlockAccount(a)

\* infer(): "model" is a quota of this model alone, "unfit" an answer that
\* shows the model does not take the audio inline.
Infer ==
    /\ ai.pc \in {"inline", "infer"}
    /\ \E a \in {"ok", "empty", "unfit", "lost", "busy", "quota", "model", "hint", "key", "gone", "bad"} :
         /\ Ask(a)
         /\ CASE a = "ok" -> ai' = Return(TRUE) /\ cache' = cache
              [] AiAt("inline") /\ a \in {"empty", "unfit", "lost"} -> ai' = Rejected /\ cache' = InlineOff
              [] AiAt("infer") /\ a \in {"empty", "unfit"} ->
                   /\ ai' = NextModel
                   /\ cache' = BlockModel(IF ai.m = 1 /\ a = "empty" THEN "session" ELSE "timed")
              [] OTHER -> Failure(a)
    /\ UNCHANGED <<key, nvs, audio, made, expired, wav, clean>>

(***************************************************************************)
(* pending[]: every change is in NVS or is taken back.                     *)
(***************************************************************************)
Name == [n |-> ai.file, key |-> cache.key]
Foreign == {p \in pend : p.key # key}
\* retireForeignPending() and expirePending(), when NVS writes succeed.
Retire == retired' = IF Foreign = {} THEN retired ELSE Foreign
Live == {p \in pend \ Foreign : p.n > expired}

\* ensurePendingCapacity(), and cleanupPendingImpl() up to its first request.
EnsureCapacity ==
    /\ AiAt("capacity")
    /\ \/ /\ Pay(0) /\ Retire /\ pend' = Live
          /\ ai' = IF Cardinality(Live) < Slots THEN AiGoto("reserve")
                   ELSE IF clean.time /\ ~clean.deferred THEN AiGoto("clean") ELSE Return(FALSE)
       \/ \* one of the writes fails
          /\ Pay(1) /\ pend' = pend /\ ai' = Return(FALSE)
          /\ \/ retired' = retired
             \/ Foreign # {} /\ Retire
    /\ UNCHANGED <<key, cache, audio, made, expired, wav, clean, told>>

\* reservePending(): the name is durable before the server hears of it.
Reserve ==
    /\ AiAt("reserve")
    /\ made' = made + 1
    /\ LET f == [n |-> made + 1, key |-> cache.key]
       IN  \/ Pay(0) /\ pend' = pend \cup {f} /\ ai' = [AiGoto("start") EXCEPT !.file = f.n]
           \/ Pay(1) /\ pend' = pend /\ ai' = Return(FALSE)
    /\ UNCHANGED <<key, cache, retired, audio, expired, wav, clean, told>>

\* deferIfNeeded()
DeferKnown(a) == IF a \in {"key", "busy", "quota"} THEN BlockAccount(a) ELSE cache \* ignores Retry-After
Defer(a) == IF a \in {"key", "busy", "quota", "hint"} THEN BlockAccount(a) ELSE cache

\* ~RemoteAudio(): only a creation that certainly failed is forgotten.
Forget(created) == pend' \in IF created THEN {pend} ELSE {pend, pend \ {Name}}

\* The request that opens the upload.  The server may have made the file
\* whatever the client heard.
StartUpload ==
    /\ AiAt("start")
    /\ \E a \in {"ok", "lost", "busy", "quota", "hint", "key", "bad"} :
         LET created == ai.created \/ a \in {"ok", "lost", "hint"}
         IN  /\ Ask(a)
             /\ audio' \in IF a = "ok" THEN {audio \cup {Name}}
                           ELSE IF a \in {"lost", "hint"} THEN {audio, audio \cup {Name}} ELSE {audio}
             /\ IF a = "ok" THEN ai' = [AiGoto("finalize") EXCEPT !.created = TRUE] /\ UNCHANGED <<cache, pend>>
                ELSE IF CanRetry(a) THEN ai' = [Again EXCEPT !.created = created] /\ UNCHANGED <<cache, pend>>
                ELSE ai' = Return(FALSE) /\ cache' = Defer(a) /\ Forget(created)
    /\ UNCHANGED <<key, retired, made, expired, wav, clean>>

\* The bytes, then the state of the file; "busy" is still PROCESSING or an
\* uncertain answer: the bytes are not sent again, the file is polled.
Finalize ==
    /\ AiAt("finalize")
    /\ \E a \in {"ok", "lost", "slow", "failed", "quota", "hint", "key"} :
         /\ Ask(a)
         /\ cache' = Defer(a)
         /\ ai' = CASE a = "ok" -> [AiGoto("infer") EXCEPT !.active = TRUE]
                    [] a \in {"lost", "slow"} -> AiGoto("poll")
                    [] OTHER -> Return(FALSE)
    /\ UNCHANGED <<key, nvs, audio, made, expired, wav, clean>>

Poll ==
    /\ AiAt("poll")
    /\ \E a \in {"ok", "slow", "failed", "lost", "busy", "quota", "hint", "key", "bad"} :
         /\ Ask(a)
         /\ IF a = "ok" THEN ai' = [AiGoto("infer") EXCEPT !.active = TRUE] /\ cache' = cache
            ELSE IF a = "lost" /\ CanRetry(a) THEN ai' = Again /\ cache' = cache
            ELSE IF a = "slow" THEN ai' \in {ai, Return(FALSE)} /\ cache' = cache
            ELSE ai' = Return(FALSE) /\ cache' = Defer(a)
    /\ UNCHANGED <<key, nvs, audio, made, expired, wav, clean>>

(***************************************************************************)
(* cleanupPendingImpl(): DELETE of the files of this key, in the middle of *)
(* a call to free a slot ("clean") or at the end of a batch ("sweep").     *)
(***************************************************************************)
Mine == {p \in pend : p.key = cache.key}

Delete ==
    /\ ai.pc \in {"clean", "sweep"} /\ Mine # {}
    /\ \E p \in Mine, a \in {"ok", "lost", "busy", "quota", "hint", "key", "bad"} :
         LET after(free) == IF AiAt("clean") THEN IF free THEN AiGoto("reserve") ELSE Return(FALSE)
                            ELSE IF free THEN ai ELSE NoCall
         IN  /\ told' = IF a = "key" THEN "key" ELSE IF a \in {"quota", "hint"} THEN "wait" ELSE told
             /\ audio' \in IF a = "ok" THEN {audio \ {p}} ELSE IF a = "lost" THEN {audio, audio \ {p}} ELSE {audio}
             /\ \/ /\ a = "ok" /\ Pay(0) /\ pend' = pend \ {p} /\ ai' = after(TRUE)
                   /\ UNCHANGED <<cache, clean>>
                \/ \* deleted, but NVS still says it is pending
                   /\ a = "ok" /\ Pay(1) /\ pend' = pend /\ ai' = after(FALSE)
                   /\ clean' = [clean EXCEPT !.deferred = TRUE] /\ cache' = cache
                \/ /\ a # "ok" /\ Pay(1) /\ pend' = pend
                   /\ IF a = "lost" /\ clean.retry /\ ai.tries = 0
                      THEN clean' = [clean EXCEPT !.retry = FALSE] /\ ai' = [ai EXCEPT !.tries = 1] /\ cache' = cache
                      ELSE /\ clean' = [clean EXCEPT !.deferred = TRUE] /\ ai' = after(FALSE)
                           /\ cache' = Defer(a)
    /\ UNCHANGED <<key, retired, made, expired, wav>>

\* The time of the cleanup runs out, or nothing is left to delete.
CleanEnds ==
    /\ ai.pc \in {"clean", "sweep"}
    /\ \/ Mine = {} /\ Pay(0) /\ clean' = clean
       \/ Pay(1) /\ clean' = [clean EXCEPT !.time = FALSE]
    /\ ai' = IF AiAt("clean") THEN Return(FALSE) ELSE NoCall
    /\ UNCHANGED <<key, cache, nvs, audio, made, expired, wav, told>>

\* beginBatch() and, at the end of the batch, cleanupPending(): it goes on
\* only over a connection that is still open.
BeginBatch == clean' = FullBudget

Sweep ==
    /\ AiAt("idle")
    /\ cache' = ActivateKey
    /\ IF cache'.acct = "no" /\ clean.time
       THEN /\ Retire /\ pend' = Live
            /\ ai' \in IF clean.deferred \/ cache.key # key THEN {NoCall} ELSE {NoCall, [NoCall EXCEPT !.pc = "sweep"]}
       ELSE UNCHANGED <<nvs, ai>>
    /\ UNCHANGED <<key, audio, made, expired, wav, clean, told, faults>>

(***************************************************************************)
(* Time, the user and the power.                                           *)
(***************************************************************************)
Unblocked(b) == IF b = "timed" THEN "no" ELSE b

TimePasses ==
    /\ AiAt("idle")
    /\ cache' = [cache EXCEPT !.acct = Unblocked(@), !.disc = FALSE, !.off = {},
                              !.blk = [x \in DOMAIN @ |-> Unblocked(@[x])]]
    /\ told' = IF told = "wait" THEN "no" ELSE told
    /\ UNCHANGED <<key, nvs, audio, made, expired, wav, ai, clean, faults>>

TwoDays ==
    /\ AiAt("idle") /\ Pay(1)
    /\ expired' = made /\ audio' = {}
    /\ UNCHANGED <<key, cache, nvs, made, wav, ai, clean, told>>

\* The user saves another key, because the old one is refused or not.
SaveKey ==
    /\ AiAt("idle")
    /\ Pay(IF told = "key" THEN 0 ELSE 1)
    /\ key' = key + 1 /\ told' = "no"
    /\ UNCHANGED <<cache, nvs, audio, made, expired, wav, ai, clean>>

\* What a loss of power forgets.
AiForgets == cache' = NoCache /\ ai' = NoCall /\ clean' = FullBudget /\ told' = "no"

AiSteps == \/ Discover \/ PickModel \/ Infer \/ EnsureCapacity \/ Reserve \/ StartUpload
           \/ Finalize \/ Poll \/ Delete \/ CleanEnds

\* Every audio file of the key in use, or of the one before it, is among the
\* names that a restart would still know.
RemoteTracked == \A f \in audio : f.key + 1 >= key => f \in pend \cup retired

\* After the server asked to wait or refused the key, no request is made
\* with that key until the time has passed or the key was changed.
WaitsWhenTold ==
    told # "no" => ai.pc \notin {"discover", "inline", "infer", "start", "finalize", "poll", "clean", "sweep"}
=============================================================================
