---------------------------- MODULE GatewayLedger ----------------------------
(***************************************************************************)
(* The gateway (gateway/src): executions of one Apps Script project change *)
(* one note of a GitHub repository for requests that carry an identity.    *)
(* An execution may fail at every call of the network or of the properties *)
(* service and may be killed between any two of them.  A PUT that timed    *)
(* out may still take effect, much later.  The owner of the vault edits    *)
(* and moves the same note.                                                *)
(*                                                                         *)
(* Commits are numbered; the SHA of the note is the number of the commit   *)
(* that wrote it last, or Absent.  Bound, for the whole module: no edit    *)
(* brings an old text back, and the note is taken away only while the      *)
(* gateway rests: a SHA is never met twice by a PUT under way.             *)
(***************************************************************************)
EXTENDS Naturals, Sequences

CONSTANTS
    Ids,        \* identities: hash of tool and arguments
    Creates,    \* those that create the note; the others append to it
    Execs,      \* executions that may run at a time
    Tries,      \* attempts after conflicts (three)
    Pages,      \* commits a reconciliation looks back (300)
    MaxCommits  \* bound on the history

ASSUME GatewayAssumption ==
    /\ Creates \subseteq Ids /\ "owner" \notin Ids /\ "none" \notin Execs
    /\ Tries \in Nat \ {0} /\ Pages \in Nat \ {0} /\ MaxCommits \in Nat \ {0}

VARIABLES
    ledger,  \* script properties: status and frontier of every identity
    lock,    \* the script lock
    ex,      \* the executions
    history, \* of the branch: who made each commit
    note,    \* the note: its SHA, and whether the section is there once
    late     \* PUTs nobody waits for, still under way

gateVars == <<ledger, lock, ex, history, note, late>>
cloud == <<history, note, late>>

Absent == 0
Nobody == "none"
Rest == [pc |-> "rest", id |-> Nobody, base |-> 0, seen |-> Absent, fits |-> FALSE,
         tries |-> 0, res |-> "none"]
Fresh == [status |-> "none", base |-> 0]

GateTypeOK ==
    /\ ledger \in [Ids -> [status : {"none", "pending", "done"}, base : 0..MaxCommits]]
    /\ lock \in Execs \cup {Nobody}
    /\ history \in Seq(Ids \cup {"owner"}) /\ Len(history) \in 1..MaxCommits
    /\ note \in [sha : 0..MaxCommits, fits : BOOLEAN]
    /\ late \subseteq [id : Ids, sha : 0..MaxCommits]

GateInit ==
    /\ ledger = [id \in Ids |-> Fresh] /\ lock = Nobody
    /\ ex = [e \in Execs |-> Rest]
    /\ history = <<"owner">> /\ late = {}
    /\ note \in {[sha |-> Absent, fits |-> TRUE], [sha |-> 1, fits |-> TRUE]}

Tip == Len(history)
Commits(id) == {i \in 1..Tip : history[i] = id}

-----------------------------------------------------------------------------
(* One execution.  Under the lock it is the only writer of the ledger.       *)

At(e, pc) == [ex EXCEPT ![e].pc = pc]

\* doPost(), authenticated and valid.
Arrive(e, id) ==
    /\ ex[e].pc = "rest"
    /\ ex' = [ex EXCEPT ![e] = [Rest EXCEPT !.pc = "lock", !.id = id]]
    /\ UNCHANGED <<ledger, lock, cloud>>

\* The answer is on its way; "finally" gives the lock back.
Reply(e, res) ==
    /\ ex' = [ex EXCEPT ![e] = [Rest EXCEPT !.pc = "reply", !.id = ex[e].id, !.res = res]]
    /\ lock' = IF lock = e THEN Nobody ELSE lock

\* tryLock() gives up after five seconds.
Occupied(e) ==
    /\ ex[e].pc = "lock" /\ lock # Nobody
    /\ Reply(e, "error") /\ UNCHANGED <<ledger, cloud>>

\* A property is set and read back: it fails before or after it is stored.
Stores(e, entry) == ledger' = [ledger EXCEPT ![ex[e].id] = entry]

Replays(e) ==
    /\ ex[e].pc = "lock" /\ lock = Nobody
    /\ ledger[ex[e].id].status = "done"
    /\ Reply(e, "ok") /\ UNCHANGED <<ledger, cloud>>

Registers(e) ==
    /\ ex[e].pc = "lock" /\ lock = Nobody /\ ledger[ex[e].id].status = "none"
    /\ \/ Stores(e, [status |-> "pending", base |-> 0]) /\ lock' = e /\ ex' = At(e, "frontier")
       \/ Stores(e, [status |-> "pending", base |-> 0]) /\ Reply(e, "error")
       \/ UNCHANGED ledger /\ Reply(e, "error") \* or 400 identities are there
    /\ UNCHANGED cloud

Resumes(e) ==
    /\ ex[e].pc = "lock" /\ lock = Nobody /\ ledger[ex[e].id].status = "pending"
    /\ lock' = e /\ ex' = At(e, "frontier") /\ UNCHANGED <<ledger, cloud>>

-----------------------------------------------------------------------------
(* githubMutation()                                                          *)

Window == (Tip - Pages + 1)..Tip

\* reconcile(): newest first, until the trailer, the frontier, or 300 commits.
Found(id, base) == \E i \in Window : i > base /\ i \in Commits(id)
Reaches(base) == base \in Window
Blocked(id, base) == ~Found(id, base) /\ ~Reaches(base)

Recovered(e, base) == Found(ex[e].id, base) /\ ex' = At(e, "finish") /\ UNCHANGED lock
Gives(e, base) == Blocked(ex[e].id, base) /\ Reply(e, "error")

\* Mutant: every execution takes the head of the branch anew.
FrontierAnew(e) ==
    /\ ex[e].pc = "frontier"
    /\ ex' = [At(e, "keep") EXCEPT ![e].base = Tip] /\ UNCHANGED lock
    /\ UNCHANGED <<ledger, cloud>>

\* The first execution of an identity takes the head; a later one looks back.
Frontier(e) ==
    /\ ex[e].pc = "frontier"
    /\ LET base == ledger[ex[e].id].base IN
       \/ base = 0 /\ ex' = [At(e, "keep") EXCEPT ![e].base = Tip] /\ UNCHANGED lock
       \/ /\ base # 0
          /\ \/ Recovered(e, base)
             \/ Gives(e, base)
             \/ /\ ~Found(ex[e].id, base) /\ Reaches(base)
                /\ ex' = [At(e, "read") EXCEPT ![e].base = base] /\ UNCHANGED lock
    /\ UNCHANGED <<ledger, cloud>>

\* Mutant: the frontier is only kept in memory.
RemembersFrontier(e) ==
    /\ ex[e].pc = "keep"
    /\ UNCHANGED ledger /\ ex' = At(e, "read") /\ UNCHANGED lock
    /\ UNCHANGED cloud

\* The frontier is durable before the call that may write.
KeepsFrontier(e) ==
    /\ ex[e].pc = "keep"
    /\ \/ Stores(e, [status |-> "pending", base |-> ex[e].base])
          /\ (Reply(e, "error") \/ (ex' = At(e, "read") /\ UNCHANGED lock))
       \/ UNCHANGED ledger /\ Reply(e, "error")
    /\ UNCHANGED cloud

Reads(e) ==
    /\ ex[e].pc = "read"
    /\ ex' = [At(e, "look") EXCEPT ![e].seen = note.sha, ![e].fits = note.fits]
    /\ UNCHANGED <<ledger, lock, cloud>>

\* patch(): a note to create is absent, a note to append to has the section.
Applies(e) == IF ex[e].id \in Creates THEN ex[e].seen = Absent
                                      ELSE ex[e].seen # Absent /\ ex[e].fits

\* Mutant: the text is patched before the history is asked.
PatchesFirst(e) ==
    /\ ex[e].pc = "look"
    /\ \/ ~Applies(e) /\ Reply(e, "refused")
       \/ Applies(e) /\ Recovered(e, ex[e].base)
       \/ Applies(e) /\ Gives(e, ex[e].base)
       \/ /\ ~Found(ex[e].id, ex[e].base) /\ Reaches(ex[e].base) /\ Applies(e)
          /\ ex' = At(e, "put") /\ UNCHANGED lock
    /\ UNCHANGED <<ledger, cloud>>

\* After the read, so that a late PUT is either in the history or in conflict.
Looks(e) ==
    /\ ex[e].pc = "look"
    /\ \/ Recovered(e, ex[e].base)
       \/ Gives(e, ex[e].base)
       \/ /\ ~Found(ex[e].id, ex[e].base) /\ Reaches(ex[e].base)
          /\ IF Applies(e) THEN ex' = At(e, "put") /\ UNCHANGED lock
                           ELSE Reply(e, "refused")
    /\ UNCHANGED <<ledger, cloud>>

\* GitHub takes a PUT whose SHA is still that of the note.
Commit(id, sha) ==
    IF sha = note.sha
    THEN /\ Tip < MaxCommits
         /\ history' = Append(history, id)
         /\ note' = [sha |-> Tip + 1, fits |-> TRUE]
    ELSE UNCHANGED <<history, note>>

Puts(e) ==
    /\ ex[e].pc = "put" /\ Commit(ex[e].id, ex[e].seen)
    /\ \/ ex[e].seen = note.sha /\ ex' = At(e, "finish") /\ UNCHANGED lock
       \/ /\ ex[e].seen # note.sha /\ ex[e].tries + 1 < Tries
          /\ ex' = [At(e, "read") EXCEPT ![e].tries = @ + 1] /\ UNCHANGED lock
       \/ ex[e].seen # note.sha /\ ex[e].tries + 1 = Tries /\ Reply(e, "error")
    /\ UNCHANGED <<ledger, late>>

Under(e) == late \cup {[id |-> ex[e].id, sha |-> ex[e].seen]}

\* Twenty seconds are over.
GivesUp(e) ==
    /\ ex[e].pc = "put" /\ late' = Under(e)
    /\ Reply(e, "uncertain") /\ UNCHANGED <<ledger, history, note>>

\* save(): the result goes to the ledger.
Finishes(e) ==
    /\ ex[e].pc = "finish"
    /\ LET done == [ledger[ex[e].id] EXCEPT !.status = "done"] IN
       \/ Stores(e, done) /\ (Reply(e, "ok") \/ Reply(e, "error"))
       \/ UNCHANGED ledger /\ Reply(e, "error")
    /\ UNCHANGED cloud

\* request(): no answer in time, an overloaded provider, or the budget is spent.
Fails(e) ==
    /\ ex[e].pc \in {"frontier", "read", "look", "put"}
    /\ \E res \in {"uncertain", "error"} : Reply(e, res)
    /\ UNCHANGED <<ledger, cloud>>

\* The platform ends an execution; nobody answers.
Killed(e) ==
    /\ ex[e].pc \notin {"rest", "reply"}
    /\ late' = IF ex[e].pc = "put" THEN Under(e) ELSE late
    /\ Reply(e, "lost")
    /\ UNCHANGED <<ledger, history, note>>

Execution(e) ==
    \/ Occupied(e) \/ Replays(e) \/ Registers(e) \/ Resumes(e)
    \/ Frontier(e) \/ KeepsFrontier(e) \/ Reads(e) \/ Looks(e) \/ Puts(e) \/ GivesUp(e)
    \/ Finishes(e) \/ Fails(e) \/ Killed(e)

-----------------------------------------------------------------------------
(* GitHub and the owner of the vault.                                        *)

LateLands(w) ==
    /\ Commit(w.id, w.sha) /\ late' = late \ {w} /\ UNCHANGED <<ledger, lock, ex>>

LateDies(w) == late' = late \ {w} /\ UNCHANGED <<ledger, lock, ex, history, note>>

OwnerCommits == Tip < MaxCommits /\ history' = Append(history, "owner")
                /\ UNCHANGED <<ledger, lock, ex, late>>

OwnerEdits ==
    /\ OwnerCommits
    /\ \E fits \in BOOLEAN : note' = [sha |-> Tip + 1, fits |-> fits]

OwnerElsewhere == OwnerCommits /\ UNCHANGED note

OwnerMoves ==
    /\ note.sha # Absent /\ late = {} /\ \A e \in Execs : ex[e].pc \in {"rest", "reply"}
    /\ OwnerCommits /\ note' = [sha |-> Absent, fits |-> TRUE]

Cloud == (\E w \in late : LateLands(w) \/ LateDies(w))
         \/ OwnerEdits \/ OwnerElsewhere \/ OwnerMoves

-----------------------------------------------------------------------------
(* The frontier of an identity is on record before its commit and below it:  *)
(* whatever is killed in between, the next execution finds the commit, or    *)
(* finds that it cannot look that far back.                                  *)
FrontierFirst ==
    \A id \in Ids : \A i \in Commits(id) : ledger[id].base # 0 /\ ledger[id].base < i

(* With the types, what the executions of an identity rely on.               *)
GateInv == GateTypeOK /\ FrontierFirst

(* An execution that refuses a request for what the note says (it is there   *)
(* already, the section is gone) refuses nothing that was done.              *)
RefusalTrue ==
    [][\A e \in Execs : ex'[e].res = "refused" /\ ex[e].res # "refused"
                        => Commits(ex[e].id) = {}]_gateVars
=============================================================================
