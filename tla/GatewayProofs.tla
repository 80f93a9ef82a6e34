---------------------------- MODULE GatewayProofs ----------------------------
(***************************************************************************)
(* A mutation of the vault takes effect at most once, for any number of    *)
(* identities, executions, attempts and commits: NoteExport implements     *)
(* OnceOnly, and no refusal hides an effect.                               *)
(*                                                                         *)
(* Why: an execution asks for a commit only when the history above the     *)
(* frontier of its identity shows none, and it looks after it has read the *)
(* SHA of the note.  The frontier was on record before the first commit    *)
(* (FrontierFirst), so nothing can hide below it; and a PUT of the same    *)
(* identity that lands after the look changes the SHA (Sound, LateInv).    *)
(***************************************************************************)
EXTENDS NoteExport, FiniteSetTheorems, TLAPS

Served == {"frontier", "keep", "read", "look", "put", "finish"}
Results == {"none", "ok", "error", "refused", "uncertain", "lost"}
Records == [pc : Served \cup {"rest", "lock", "reply"}, id : Ids \cup {Nobody},
            base : 0..MaxCommits, seen : 0..MaxCommits, fits : BOOLEAN,
            tries : Nat, res : Results]
Entries == [status : {"none", "pending", "done"}, base : 0..MaxCommits]
Notes == [sha : 0..MaxCommits, fits : BOOLEAN]
Calls == [pc : {"idle", "send", "wait"}, id : Ids \cup {Nobody}, attempt : {0, 1},
          by : Execs \cup {Nobody}]

Typed ==
    /\ ledger \in [Ids -> Entries] /\ lock \in Execs \cup {Nobody}
    /\ ex \in [Execs -> Records]
    /\ history \in Seq(Ids \cup {"owner"}) /\ Tip \in 1..MaxCommits
    /\ note \in Notes /\ note.sha <= Tip
    /\ late \subseteq [id : Ids, sha : 0..MaxCommits]
    /\ call \in Calls /\ asked \subseteq Ids /\ told \subseteq Ids

\* Between tryLock() and its release an execution holds the lock.
LockInv == \A e \in Execs : ex[e].pc \in Served => lock = e

\* What the place of an execution says about ledger and branch.
Sound(r) ==
    /\ r.pc # "rest" => r.id \in asked
    /\ r.pc = "keep" => ledger[r.id].base = 0 /\ r.base \in 1..Tip
    /\ r.pc \in {"read", "look", "put"} => r.base # 0 /\ r.base = ledger[r.id].base
    /\ r.pc \in {"look", "put"} => r.seen <= Tip
    /\ r.pc = "put" /\ r.seen = note.sha => Commits(r.id) = {}
    /\ r.pc = "finish" => Commits(r.id) # {}
    /\ r.pc = "reply" /\ r.res = "ok" => Commits(r.id) # {}

ExInv == \A e \in Execs : Sound(ex[e])

\* A PUT nobody waits for is in conflict once its identity has its commit.
LateInv == \A w \in late :
    /\ w.id \in asked /\ ledger[w.id].base # 0 /\ w.sha <= Tip
    /\ w.sha = note.sha => Commits(w.id) = {}

Entered(id) ==
    /\ ledger[id].base <= Tip
    /\ ledger[id].status = "none" => ledger[id].base = 0
    /\ ledger[id].status = "done" => Commits(id) # {}
    /\ \A i, j \in Commits(id) : i = j
LedgerInv == \A id \in Ids : Entered(id)

\* The recorder waits for its own request, and believes what it was told.
CallInv ==
    /\ call.pc # "idle" => call.id \in Ids
    /\ call.by # Nobody => call.pc = "wait" /\ ex[call.by].pc # "rest" /\ ex[call.by].id = call.id
ToldInv == \A id \in told : Commits(id) # {}

\* The parts that are about the gateway, and all of them.
GateGood == Typed /\ LockInv /\ ExInv /\ LateInv /\ LedgerInv /\ FrontierFirst
IInv == GateGood /\ CallInv /\ ToldInv

-----------------------------------------------------------------------------
(* The history.                                                              *)

\* A commit is added on top: the tip moves, and only its author gains one.
LEMMA TopCommit ==
  ASSUME Typed, NEW x \in Ids \cup {"owner"}, history' = Append(history, x)
  PROVE  /\ history' \in Seq(Ids \cup {"owner"}) /\ Tip' = Tip + 1
         /\ \A id \in Ids : Commits(id)' = IF x = id THEN Commits(id) \cup {Tip + 1} ELSE Commits(id)
<1>1. history \in Seq(Ids \cup {"owner"}) /\ Len(history) \in Nat BY DEF Typed
<1>2. /\ history' \in Seq(Ids \cup {"owner"}) /\ Len(history') = Len(history) + 1
      /\ history'[Len(history) + 1] = x
      /\ \A i \in 1..Len(history) : history'[i] = history[i]
  BY <1>1
<1>3. ASSUME NEW id \in Ids
      PROVE  Commits(id)' = IF x = id THEN Commits(id) \cup {Tip + 1} ELSE Commits(id)
  BY <1>1, <1>2 DEF Commits, Tip
<1> QED BY <1>2, <1>3 DEF Tip

\* What a reconciliation that gives nothing has shown.
LEMMA NothingHidden ==
  ASSUME Typed, FrontierFirst, NEW id \in Ids,
         ~Found(id, ledger[id].base), Reaches(ledger[id].base)
  PROVE  Commits(id) = {}
<1> SUFFICES ASSUME NEW i \in Commits(id) PROVE FALSE OBVIOUS
<1>1. i \in 1..Tip /\ Tip \in Nat /\ ledger[id].base < i /\ ledger[id].base \in Nat
  BY GatewayAssumption DEF Typed, FrontierFirst, Commits, Tip, Entries
<1>2. i \in Window BY <1>1, GatewayAssumption DEF Reaches, Window
<1> QED BY <1>1, <1>2 DEF Found

-----------------------------------------------------------------------------
(* Steps of one execution e, whose record becomes r.                         *)

\* Neither ledger nor cloud change.
LEMMA QuietStep ==
  ASSUME GateGood, NEW e \in Execs, NEW r \in Records,
         ex' = [ex EXCEPT ![e] = r], UNCHANGED <<ledger, cloud>>,
         asked \subseteq asked', asked' \subseteq Ids, call' \in Calls, told' \subseteq Ids,
         Sound(r)', r.pc \in Served => lock' = e, lock' \in Execs \cup {Nobody},
         \A f \in Execs \ {e} : ex[f].pc \in Served => lock' = f
  PROVE  GateGood'
<1>1. Typed' BY DEF GateGood, Typed, cloud, Tip
<1>2. LockInv' BY DEF GateGood, Typed, LockInv
<1>3. ASSUME NEW f \in Execs PROVE Sound(ex[f])'
  <2>1. CASE f = e BY <2>1 DEF GateGood, Typed
  <2>2. CASE f # e
    <3>1. ex'[f] = ex[f] /\ Sound(ex[f]) BY <2>2 DEF GateGood, Typed, ExInv
    <3> QED BY <3>1 DEF Sound, Tip, Commits, cloud
  <2> QED BY <2>1, <2>2
<1>4. LateInv' BY DEF GateGood, LateInv, Commits, cloud, Tip
<1>5. LedgerInv' /\ FrontierFirst'
  BY DEF GateGood, LedgerInv, Entered, FrontierFirst, Commits, cloud, Tip
<1> QED BY <1>1, <1>2, <1>3, <1>4, <1>5 DEF GateGood, ExInv

\* The entry of its identity changes; nobody else is served.
LEMMA LedgerStep ==
  ASSUME GateGood, NEW e \in Execs, NEW r \in Records, NEW n \in Entries,
         ex' = [ex EXCEPT ![e] = r], ex[e].id \in Ids,
         ledger' = [ledger EXCEPT ![ex[e].id] = n],
         UNCHANGED <<cloud, devVars>>,
         Sound(r)', r.pc \in Served => lock' = e, lock' \in Execs \cup {Nobody},
         \A f \in Execs \ {e} : ex[f].pc \notin Served,
         n.status # "none", n.status = "done" => Commits(ex[e].id) # {},
         \/ n.base = ledger[ex[e].id].base
         \/ ledger[ex[e].id].base = 0 /\ n.base \in 1..Tip
  PROVE  GateGood'
<1> DEFINE id == ex[e].id
<1>1. Typed' BY DEF GateGood, Typed, cloud, Tip, devVars
<1>2. LockInv' BY DEF GateGood, Typed, LockInv
<1>3. ASSUME NEW f \in Execs PROVE Sound(ex[f])'
  <2>1. CASE f = e BY <2>1 DEF GateGood, Typed
  <2>2. CASE f # e
    <3>1. ex'[f] = ex[f] /\ Sound(ex[f]) /\ ex[f].pc \notin Served
      BY <2>2 DEF GateGood, Typed, ExInv
    <3> QED BY <3>1 DEF Sound, Tip, Commits, cloud, devVars, Served
  <2> QED BY <2>1, <2>2
<1>4. \A i \in Ids : ledger'[i] = IF i = id THEN n ELSE ledger[i]
  BY DEF GateGood, Typed
<1>5. \A i \in Ids : ledger[i].base # 0 => ledger'[i].base = ledger[i].base
  BY <1>4, GatewayAssumption DEF GateGood, Typed, Entries
<1>6. LateInv'
  BY <1>5 DEF GateGood, Typed, LateInv, Commits, cloud, Tip, devVars
<1>7. ASSUME NEW i \in Ids PROVE Entered(i)'
  <2>1. Entered(i) /\ Tip \in Nat BY DEF GateGood, LedgerInv, Typed
  <2>2. CASE i # id BY <1>4, <2>1, <2>2 DEF Entered, Commits, cloud, Tip
  <2>3. CASE i = id BY <1>4, <2>1, <2>3 DEF Entered, Commits, cloud, Tip
  <2> QED BY <2>2, <2>3
<1>8. FrontierFirst'
  BY <1>5 DEF GateGood, FrontierFirst, Commits, cloud, Tip
<1> QED BY <1>1, <1>2, <1>3, <1>6, <1>7, <1>8 DEF GateGood, ExInv, LedgerInv

LEMMA RestRecord == Rest \in Records
<1>1. 0 \in 0..MaxCommits /\ 0 \in Nat BY GatewayAssumption
<1>2. "rest" \in Served \cup {"rest", "lock", "reply"} /\ "none" \in Results
  BY DEF Results
<1>3. Nobody \in Ids \cup {Nobody} /\ FALSE \in BOOLEAN OBVIOUS
<1> QED BY <1>1, <1>2, <1>3, Zenon DEF Rest, Records, Absent

\* Init and Next of Arrive and Reply build a record from Rest.
LEMMA NewRecord ==
  ASSUME NEW p \in {"lock", "reply"}, NEW id \in Ids, NEW res \in Results
  PROVE  LET r == [Rest EXCEPT !.pc = p, !.id = id, !.res = res] IN
           r \in Records /\ r.pc = p /\ r.id = id /\ r.res = res
<1>1. Rest \in Records BY RestRecord
<1>2. p \in Served \cup {"rest", "lock", "reply"} /\ id \in Ids \cup {Nobody}
  OBVIOUS
<1> QED BY <1>1, <1>2 DEF Records

LEMMA ReplyRecord ==
  ASSUME NEW e \in Execs, ex[e].id \in Ids, NEW res \in Results, Reply(e, res)
  PROVE  \E r \in Records : /\ ex' = [ex EXCEPT ![e] = r]
                            /\ r.pc = "reply" /\ r.res = res /\ r.id = ex[e].id
<1> DEFINE s == [Rest EXCEPT !.pc = "reply", !.id = ex[e].id, !.res = res]
<1>1. s \in Records /\ s.pc = "reply" /\ s.id = ex[e].id /\ s.res = res
  BY NewRecord
<1>2. ex' = [ex EXCEPT ![e] = s] BY DEF Reply
<1> QED BY <1>1, <1>2

\* An answer says nothing of ledger and branch, unless it is "ok".
LEMMA ReplyStep ==
  ASSUME GateGood, NEW e \in Execs, NEW res \in Results, Reply(e, res),
         ex[e].id \in Ids, ex[e].id \in asked, UNCHANGED <<ledger, cloud, devVars>>,
         res = "ok" => Commits(ex[e].id) # {}
  PROVE  GateGood'
<1>1. PICK r \in Records : /\ ex' = [ex EXCEPT ![e] = r]
                           /\ r.pc = "reply" /\ r.res = res /\ r.id = ex[e].id
  BY ReplyRecord
<1>2. lock' = IF lock = e THEN Nobody ELSE lock BY DEF Reply
<1>3. UNCHANGED <<ledger, cloud, asked, told, call>> BY DEF devVars
<1>4. Sound(r)' BY <1>1, <1>3 DEF Sound, Commits, cloud, Tip, Served
<1>5. /\ r.pc \notin Served /\ lock' \in Execs \cup {Nobody}
      /\ asked' \subseteq Ids /\ call' \in Calls /\ told' \subseteq Ids
  BY <1>1, <1>2, <1>3 DEF Served, GateGood, Typed
<1>6. ASSUME NEW f \in Execs \ {e}, ex[f].pc \in Served PROVE lock' = f
  <2>1. lock = f BY <1>6 DEF GateGood, LockInv
  <2> QED BY <2>1, <1>2
<1> QED BY <1>1, <1>2, <1>3, <1>4, <1>5, <1>6, QuietStep

\* The record of an execution that goes on to another place.
LEMMA AtRecord ==
  ASSUME Typed, NEW e \in Execs, NEW p \in Served
  PROVE  \E r \in Records :
           /\ At(e, p) = [ex EXCEPT ![e] = r]
           /\ r.pc = p /\ r.id = ex[e].id /\ r.base = ex[e].base /\ r.seen = ex[e].seen
<1> DEFINE r == [ex[e] EXCEPT !.pc = p]
<1>1. ex[e] \in Records /\ p \in Served \cup {"rest", "lock", "reply"} BY DEF Typed
<1>2. r \in Records BY <1>1 DEF Records
<1>3. r.pc = p /\ r.id = ex[e].id /\ r.base = ex[e].base /\ r.seen = ex[e].seen
  BY <1>1 DEF Records
<1>4. At(e, p) = [ex EXCEPT ![e] = r] BY DEF At
<1> QED BY <1>2, <1>3, <1>4

\* Under the lock: it holds it and keeps it, nothing else changes.
LEMMA ServedStep ==
  ASSUME GateGood, NEW e \in Execs, NEW r \in Records, ex' = [ex EXCEPT ![e] = r],
         ex[e].pc \in Served, r.pc \in Served, UNCHANGED <<ledger, lock, cloud, devVars>>,
         Sound(r)'
  PROVE  GateGood'
<1>1. lock = e /\ \A f \in Execs \ {e} : ex[f].pc \notin Served
  BY GatewayAssumption DEF GateGood, LockInv
<1>2. lock' = e /\ UNCHANGED <<ledger, cloud, asked, told, call>> BY <1>1 DEF devVars
<1>3. asked' \subseteq Ids /\ call' \in Calls /\ told' \subseteq Ids
  BY <1>2 DEF GateGood, Typed
<1> QED BY <1>1, <1>2, <1>3, QuietStep DEF devVars

\* What GateGood says of one execution.
LEMMA OneSound ==
  ASSUME GateGood, NEW e \in Execs, ex[e].pc # "rest"
  PROVE  /\ ex[e] \in Records /\ Sound(ex[e]) /\ ex[e].id \in Ids /\ ex[e].id \in asked
         /\ ledger[ex[e].id] \in Entries /\ Entered(ex[e].id)
         /\ Tip \in Nat /\ Typed
BY DEF GateGood, Typed, ExInv, Sound, LedgerInv

LEMMA OccupiedGood ==
  ASSUME GateGood, NEW e \in Execs, Occupied(e), UNCHANGED devVars PROVE GateGood'
BY OneSound, ReplyStep DEF Occupied, Results

LEMMA ReplaysGood ==
  ASSUME GateGood, NEW e \in Execs, Replays(e), UNCHANGED devVars PROVE GateGood'
<1>1. Commits(ex[e].id) # {} BY OneSound DEF Replays, Entered
<1> QED BY <1>1, OneSound, ReplyStep DEF Replays, Results

LEMMA FailsGood ==
  ASSUME GateGood, NEW e \in Execs, Fails(e), UNCHANGED devVars PROVE GateGood'
BY OneSound, ReplyStep DEF Fails, Results

LEMMA ReadsGood ==
  ASSUME GateGood, NEW e \in Execs, Reads(e), UNCHANGED devVars PROVE GateGood'
<1>1. ex[e].pc = "read" /\ UNCHANGED <<ledger, lock, cloud, devVars>> BY DEF Reads
<1>2. PICK r \in Records : /\ ex' = [ex EXCEPT ![e] = r] /\ r.pc = "look" /\ r.id = ex[e].id
                           /\ r.base = ex[e].base /\ r.seen = note.sha
  <2> DEFINE s == [ex[e] EXCEPT !.pc = "look", !.seen = note.sha, !.fits = note.fits]
  <2>1. ex[e] \in Records /\ note.sha \in 0..MaxCommits /\ note.fits \in BOOLEAN
    BY DEF GateGood, Typed, Notes
  <2>2. "look" \in Served \cup {"rest", "lock", "reply"} BY DEF Served
  <2>3. s \in Records BY <2>1, <2>2 DEF Records
  <2>4. s.pc = "look" /\ s.id = ex[e].id /\ s.base = ex[e].base /\ s.seen = note.sha
    BY <2>1 DEF Records
  <2>5. ex' = [ex EXCEPT ![e] = s] BY DEF Reads, At, GateGood, Typed
  <2> QED BY <2>3, <2>4, <2>5
<1>3. Sound(ex[e]) /\ note.sha <= Tip BY <1>1, OneSound DEF GateGood, Typed
<1>4. Sound(r)' BY <1>1, <1>2, <1>3 DEF Sound, Commits, cloud, Tip, devVars
<1> QED BY <1>1, <1>2, <1>4, ServedStep DEF Served

\* To another place, with the facts that place asks for.
LEMMA MoveGood ==
  ASSUME GateGood, NEW e \in Execs, NEW p \in Served, ex[e].pc \in Served,
         ex' = At(e, p), UNCHANGED <<ledger, lock, cloud, devVars>>,
         p = "keep" => ledger[ex[e].id].base = 0 /\ ex[e].base \in 1..Tip,
         p \in {"read", "look", "put"} => ex[e].base # 0 /\ ex[e].base = ledger[ex[e].id].base,
         p \in {"look", "put"} => ex[e].seen <= Tip,
         p = "put" /\ ex[e].seen = note.sha => Commits(ex[e].id) = {},
         p = "finish" => Commits(ex[e].id) # {}
  PROVE  GateGood'
<1>1. PICK r \in Records : /\ ex' = [ex EXCEPT ![e] = r] /\ r.pc = p /\ r.id = ex[e].id
                           /\ r.base = ex[e].base /\ r.seen = ex[e].seen
  BY AtRecord DEF GateGood
<1>2. ex[e].pc # "rest" BY DEF Served
<1>3. ex[e].id \in asked BY <1>2, OneSound
<1>4. Sound(r)' BY <1>1, <1>3 DEF Sound, Commits, cloud, Tip, devVars, Served
<1> QED BY <1>1, <1>4, ServedStep

LEMMA FrontierGood ==
  ASSUME GateGood, NEW e \in Execs, Frontier(e), UNCHANGED devVars PROVE GateGood'
<1> DEFINE id == ex[e].id  base == ledger[id].base
<1>1. ex[e].pc = "frontier" /\ UNCHANGED <<ledger, cloud, devVars>> BY DEF Frontier
<1>2. ex[e].pc # "rest" /\ ex[e].pc \in Served BY <1>1 DEF Served
<1>3. Sound(ex[e]) /\ id \in Ids /\ Entered(id) /\ Tip \in Nat /\ Typed
  BY <1>2, OneSound
<1>4. CASE base = 0 /\ ex' = [At(e, "keep") EXCEPT ![e].base = Tip] /\ UNCHANGED lock
  <2>1. PICK r \in Records : /\ ex' = [ex EXCEPT ![e] = r] /\ r.pc = "keep" /\ r.id = id
                             /\ r.base = Tip
    <3> DEFINE s == [ex[e] EXCEPT !.pc = "keep", !.base = Tip]
    <3>1. ex[e] \in Records /\ Tip \in 0..MaxCommits BY <1>3 DEF Typed
    <3>2. "keep" \in Served \cup {"rest", "lock", "reply"} BY DEF Served
    <3>3. s \in Records BY <3>1, <3>2 DEF Records
    <3>4. s.pc = "keep" /\ s.id = ex[e].id /\ s.base = Tip BY <3>1 DEF Records
    <3>5. ex' = [ex EXCEPT ![e] = s] BY <1>3, <1>4 DEF At, Typed
    <3> QED BY <3>3, <3>4, <3>5
  <2>2. ex[e].id \in asked BY <1>2, OneSound
  <2>3. Tip \in 1..Tip BY <1>3 DEF Typed
  <2>4. Sound(r)' BY <1>1, <1>4, <2>1, <2>2, <2>3 DEF Sound, Commits, cloud, Tip, devVars
  <2> QED BY <1>1, <1>2, <1>4, <2>1, <2>4, ServedStep DEF Served
<1>5. CASE Recovered(e, base)
  <2>1. Commits(id) # {} BY <1>5 DEF Recovered, Found
  <2> QED BY <1>1, <1>2, <1>5, <2>1, MoveGood DEF Recovered, Served
<1>6. CASE Gives(e, base)
  BY <1>1, <1>2, <1>6, OneSound, ReplyStep DEF Gives, Results
<1>7. CASE /\ base # 0 /\ ~Found(id, base) /\ Reaches(base)
           /\ ex' = [At(e, "read") EXCEPT ![e].base = base] /\ UNCHANGED lock
  <2>1. PICK r \in Records : /\ ex' = [ex EXCEPT ![e] = r] /\ r.pc = "read" /\ r.id = id
                             /\ r.base = base
    <3> DEFINE s == [ex[e] EXCEPT !.pc = "read", !.base = base]
    <3>1. ex[e] \in Records /\ base \in 0..MaxCommits BY <1>3 DEF Typed, Entries
    <3>2. "read" \in Served \cup {"rest", "lock", "reply"} BY DEF Served
    <3>3. s \in Records BY <3>1, <3>2 DEF Records
    <3>4. s.pc = "read" /\ s.id = ex[e].id /\ s.base = base BY <3>1 DEF Records
    <3>5. ex' = [ex EXCEPT ![e] = s] BY <1>3, <1>7 DEF At, Typed
    <3> QED BY <3>3, <3>4, <3>5
  <2>2. ex[e].id \in asked BY <1>2, OneSound
  <2>4. Sound(r)' BY <1>1, <1>7, <2>1, <2>2 DEF Sound, Commits, cloud, Tip, devVars
  <2> QED BY <1>1, <1>2, <1>7, <2>1, <2>4, ServedStep DEF Served
<1> QED BY <1>4, <1>5, <1>6, <1>7 DEF Frontier

LEMMA LooksGood ==
  ASSUME GateGood, NEW e \in Execs, Looks(e), UNCHANGED devVars PROVE GateGood'
<1> DEFINE id == ex[e].id
<1>1. ex[e].pc = "look" /\ UNCHANGED <<ledger, cloud, devVars>> BY DEF Looks
<1>2. ex[e].pc # "rest" /\ ex[e].pc \in Served BY <1>1 DEF Served
<1>3. /\ Sound(ex[e]) /\ id \in Ids /\ id \in asked /\ ex[e].base = ledger[id].base
      /\ ex[e].base # 0 /\ ex[e].seen <= Tip
  BY <1>1, OneSound DEF Sound
<1>4. CASE Recovered(e, ex[e].base)
  <2>1. Commits(id) # {} BY <1>4 DEF Recovered, Found
  <2> QED BY <1>1, <1>2, <1>4, <2>1, MoveGood DEF Recovered, Served
<1>5. CASE Gives(e, ex[e].base)
  BY <1>1, <1>2, <1>3, <1>5, ReplyStep DEF Gives, Results
<1>6. CASE Reply(e, "refused")
  BY <1>1, <1>2, <1>3, <1>6, ReplyStep DEF Results
<1>7. CASE ~Found(id, ex[e].base) /\ Reaches(ex[e].base) /\ ex' = At(e, "put") /\ UNCHANGED lock
  <2>1. Commits(id) = {} BY <1>3, <1>7, NothingHidden DEF GateGood
  <2> QED BY <1>1, <1>2, <1>3, <1>7, <2>1, MoveGood DEF Served
<1> QED BY <1>4, <1>5, <1>6, <1>7 DEF Looks

\* Arrive, with the request that brings it.
LEMMA ArriveGood ==
  ASSUME GateGood, NEW e \in Execs, NEW id \in Ids, Arrive(e, id),
         asked' = asked \cup {id}, call' \in Calls, UNCHANGED told
  PROVE  GateGood'
<1>1. PICK r \in Records : /\ ex' = [ex EXCEPT ![e] = r]
                           /\ r.pc = "lock" /\ r.id = id
  <2> DEFINE s == [Rest EXCEPT !.pc = "lock", !.id = id]
  <2>1. Rest \in Records /\ "lock" \in Served \cup {"rest", "lock", "reply"} /\ id \in Ids \cup {Nobody}
    BY RestRecord
  <2>2. s \in Records BY <2>1 DEF Records
  <2>3. s.pc = "lock" /\ s.id = id BY <2>1 DEF Records
  <2>4. ex' = [ex EXCEPT ![e] = s] BY DEF Arrive
  <2> QED BY <2>2, <2>3, <2>4
<1>2. UNCHANGED <<ledger, lock, cloud>> BY DEF Arrive
<1>3. Sound(r)' BY <1>1, <1>2 DEF Sound, Commits, cloud, Tip
<1>4. /\ asked' \subseteq Ids /\ told' \subseteq Ids /\ r.pc \notin Served
      /\ lock' \in Execs \cup {Nobody}
      /\ \A f \in Execs \ {e} : ex[f].pc \in Served => lock' = f
  BY <1>1, <1>2 DEF Served, GateGood, Typed, LockInv
<1> QED BY <1>1, <1>2, <1>3, <1>4, QuietStep

-----------------------------------------------------------------------------
(* Steps that write the ledger.                                              *)

\* Who takes or holds the lock is alone.
LEMMA Alone ==
  ASSUME GateGood, NEW e \in Execs, lock = Nobody \/ ex[e].pc \in Served
  PROVE  /\ \A f \in Execs \ {e} : ex[f].pc \notin Served
         /\ lock \in {e, Nobody}
BY GatewayAssumption DEF GateGood, LockInv, Nobody

\* The entry is written, and the execution answers.
LEMMA WriteAndReply ==
  ASSUME GateGood, NEW e \in Execs, NEW res \in Results, NEW n \in Entries,
         lock = Nobody \/ ex[e].pc \in Served, ex[e].pc # "rest",
         Stores(e, n), Reply(e, res), UNCHANGED <<cloud, devVars>>,
         n.status # "none", n.status = "done" => Commits(ex[e].id) # {},
         \/ n.base = ledger[ex[e].id].base
         \/ ledger[ex[e].id].base = 0 /\ n.base \in 1..Tip,
         res = "ok" => Commits(ex[e].id) # {}
  PROVE  GateGood'
<1>1. PICK r \in Records : /\ ex' = [ex EXCEPT ![e] = r]
                           /\ r.pc = "reply" /\ r.res = res /\ r.id = ex[e].id
  BY ReplyRecord, OneSound
<1>2. ex[e].id \in asked /\ ex[e].id \in Ids BY OneSound
<1>3. UNCHANGED <<cloud, asked>> BY DEF devVars
<1>4. Sound(r)' BY <1>1, <1>2, <1>3 DEF Sound, Commits, cloud, Tip, Served
<1>5. r.pc \notin Served /\ lock' \in Execs \cup {Nobody} /\ \A f \in Execs \ {e} : ex[f].pc \notin Served
  BY <1>1, Alone DEF Served, Reply
<1> QED BY <1>1, <1>2, <1>4, <1>5, LedgerStep DEF Stores

\* The entry is written, and the execution goes on under the lock.
LEMMA WriteAndMove ==
  ASSUME GateGood, NEW e \in Execs, NEW p \in {"frontier", "read"}, NEW n \in Entries,
         lock = Nobody \/ ex[e].pc \in Served, ex[e].pc # "rest", lock' = e,
         Stores(e, n), ex' = At(e, p), UNCHANGED <<cloud, devVars>>,
         n.status = "pending",
         \/ n.base = ledger[ex[e].id].base
         \/ ledger[ex[e].id].base = 0 /\ n.base \in 1..Tip,
         p = "read" => n.base # 0 /\ n.base = ex[e].base
  PROVE  GateGood'
<1>1. p \in Served BY DEF Served
<1>2. PICK r \in Records : /\ ex' = [ex EXCEPT ![e] = r] /\ r.pc = p /\ r.id = ex[e].id
                           /\ r.base = ex[e].base /\ r.seen = ex[e].seen
  BY <1>1, AtRecord DEF GateGood
<1>3. ex[e].id \in asked /\ ex[e].id \in Ids /\ Typed BY OneSound
<1>4. UNCHANGED <<cloud, asked>> /\ ledger'[ex[e].id] = n BY <1>3 DEF devVars, Stores, Typed
<1>5. Sound(r)' BY <1>2, <1>3, <1>4 DEF Sound
<1>6. lock' \in Execs \cup {Nobody} /\ \A f \in Execs \ {e} : ex[f].pc \notin Served
  BY Alone
<1> QED BY <1>2, <1>3, <1>5, <1>6, LedgerStep DEF Stores

LEMMA RegistersGood ==
  ASSUME GateGood, NEW e \in Execs, Registers(e), UNCHANGED devVars PROVE GateGood'
<1> DEFINE n == [status |-> "pending", base |-> 0]
<1>1. ex[e].pc = "lock" /\ lock = Nobody /\ ledger[ex[e].id].status = "none" /\ UNCHANGED cloud
  BY DEF Registers
<1>2. ledger[ex[e].id].base = 0 BY <1>1, OneSound DEF Entered
<1>3. n \in Entries BY GatewayAssumption DEF Entries
<1>4. CASE Stores(e, n) /\ lock' = e /\ ex' = At(e, "frontier")
  BY <1>1, <1>2, <1>3, <1>4, WriteAndMove
<1>5. CASE Stores(e, n) /\ Reply(e, "error")
  BY <1>1, <1>2, <1>3, <1>5, WriteAndReply DEF Results
<1>6. CASE UNCHANGED ledger /\ Reply(e, "error")
  BY <1>1, <1>6, OneSound, ReplyStep DEF Results
<1> QED BY <1>4, <1>5, <1>6 DEF Registers

LEMMA ResumesGood ==
  ASSUME GateGood, NEW e \in Execs, Resumes(e), UNCHANGED devVars PROVE GateGood'
<1> DEFINE n == ledger[ex[e].id]
<1>1. /\ ex[e].pc = "lock" /\ lock = Nobody /\ lock' = e /\ n.status = "pending"
      /\ ex' = At(e, "frontier") /\ UNCHANGED <<ledger, cloud>>
  BY DEF Resumes
<1>2. n \in Entries /\ Typed /\ ex[e].id \in Ids BY <1>1, OneSound
<1>3. Stores(e, n) BY <1>1, <1>2 DEF Stores, Typed
<1> QED BY <1>1, <1>2, <1>3, WriteAndMove

LEMMA KeepsFrontierGood ==
  ASSUME GateGood, NEW e \in Execs, KeepsFrontier(e), UNCHANGED devVars PROVE GateGood'
<1> DEFINE n == [status |-> "pending", base |-> ex[e].base]
<1>1. ex[e].pc = "keep" /\ ex[e].pc \in Served /\ UNCHANGED cloud BY DEF KeepsFrontier, Served
<1>2. ledger[ex[e].id].base = 0 /\ ex[e].base \in 1..Tip /\ ex[e] \in Records
  BY <1>1, OneSound DEF Sound
<1>3. n \in Entries BY <1>2 DEF Entries, Records
<1>4. CASE Stores(e, n) /\ Reply(e, "error")
  BY <1>1, <1>2, <1>3, <1>4, WriteAndReply DEF Results
<1>5. CASE Stores(e, n) /\ ex' = At(e, "read") /\ UNCHANGED lock
  <2>1. lock' = e BY <1>1, <1>5 DEF GateGood, LockInv
  <2> QED BY <1>1, <1>2, <1>3, <1>5, <2>1, WriteAndMove
<1>6. CASE UNCHANGED ledger /\ Reply(e, "error")
  BY <1>1, <1>6, OneSound, ReplyStep DEF Results
<1> QED BY <1>4, <1>5, <1>6 DEF KeepsFrontier

LEMMA FinishesGood ==
  ASSUME GateGood, NEW e \in Execs, Finishes(e), UNCHANGED devVars PROVE GateGood'
<1> DEFINE n == [ledger[ex[e].id] EXCEPT !.status = "done"]
<1>1. ex[e].pc = "finish" /\ ex[e].pc \in Served /\ UNCHANGED cloud BY DEF Finishes, Served
<1>2. Commits(ex[e].id) # {} /\ ledger[ex[e].id] \in Entries BY <1>1, OneSound DEF Sound
<1>3. n \in Entries /\ n.status = "done" /\ n.base = ledger[ex[e].id].base
  BY <1>2 DEF Entries
<1>4. ASSUME NEW res \in {"ok", "error"}, Stores(e, n), Reply(e, res) PROVE GateGood'
  <2>1. res \in Results BY DEF Results
  <2> QED BY <1>1, <1>2, <1>3, <1>4, <2>1, WriteAndReply
<1>5. CASE UNCHANGED ledger /\ Reply(e, "error")
  BY <1>1, <1>5, OneSound, ReplyStep DEF Results
<1> QED BY <1>4, <1>5 DEF Finishes

-----------------------------------------------------------------------------
(* A PUT is given up, or lands.                                              *)

\* Given up: what Sound says of the place "put" becomes what LateInv says.
LEMMA PutBecomesLate ==
  ASSUME GateGood, NEW e \in Execs, ex[e].pc = "put", NEW res \in Results \ {"ok"},
         Reply(e, res), late' = Under(e), UNCHANGED <<ledger, history, note, devVars>>
  PROVE  GateGood'
<1>1. ex[e].pc \in Served /\ ex[e].pc # "rest" BY DEF Served
<1>2. /\ Sound(ex[e]) /\ ex[e] \in Records /\ ex[e].id \in Ids /\ ex[e].id \in asked /\ Typed
      /\ Entered(ex[e].id)
  BY <1>1, OneSound
<1>3. PICK r \in Records : /\ ex' = [ex EXCEPT ![e] = r]
                           /\ r.pc = "reply" /\ r.res = res /\ r.id = ex[e].id
  BY <1>2, ReplyRecord
<1>4. (\A f \in Execs \ {e} : ex[f].pc \notin Served) /\ lock' \in Execs \cup {Nobody}
  BY <1>1, <1>2, Alone DEF Reply, Typed
<1>5. UNCHANGED <<asked, told, call>> BY DEF devVars
<1> DEFINE w0 == [id |-> ex[e].id, sha |-> ex[e].seen]
<1>6. w0 \in [id : Ids, sha : 0..MaxCommits] /\ late' = late \cup {w0}
  BY <1>2 DEF Records, Under
<1>7. Typed' BY <1>2, <1>3, <1>4, <1>5, <1>6 DEF Typed, Tip
<1>8. LockInv' BY <1>2, <1>3, <1>4 DEF LockInv, Typed, Served
<1>9. ASSUME NEW f \in Execs PROVE Sound(ex[f])'
  <2>1. CASE f = e
    <3>1. ex'[f] = r BY <1>2, <1>3, <2>1 DEF Typed
    <3> QED BY <1>2, <1>3, <1>5, <3>1 DEF Sound
  <2>2. CASE f # e
    <3>1. ex'[f] = ex[f] /\ Sound(ex[f]) BY <1>2, <1>3, <2>2 DEF GateGood, Typed, ExInv
    <3> QED BY <1>5, <3>1 DEF Sound, Tip, Commits
  <2> QED BY <2>1, <2>2
<1>10. ASSUME NEW w \in late'
       PROVE  /\ w.id \in asked' /\ ledger'[w.id].base # 0 /\ w.sha <= Tip'
              /\ w.sha = note'.sha => Commits(w.id)' = {}
  <2>1. CASE w \in late BY <1>5, <2>1 DEF GateGood, LateInv, Tip, Commits
  <2>2. CASE w = w0
    <3>1. w.id = ex[e].id /\ w.sha = ex[e].seen BY <2>2
    <3> QED BY <1>2, <1>5, <3>1 DEF Sound, Tip, Commits
  <2> QED BY <1>6, <2>1, <2>2
<1>11. LedgerInv' /\ FrontierFirst'
  BY DEF GateGood, LedgerInv, Entered, FrontierFirst, Commits, Tip
<1> QED BY <1>7, <1>8, <1>9, <1>10, <1>11 DEF GateGood, ExInv, LateInv

\* The branch grows: by the owner, or by an identity that has no commit yet.
LEMMA BranchGrows ==
  ASSUME GateGood, NEW x \in Ids \cup {"owner"}, history' = Append(history, x),
         Tip < MaxCommits, ledger' = ledger, late' \subseteq late, note' \in Notes,
         UNCHANGED devVars,
         ex' \in [Execs -> Records], lock' \in Execs \cup {Nobody}, LockInv',
         x \in Ids => Commits(x) = {} /\ ledger[x].base # 0 /\ note'.sha = Tip + 1,
         \/ note'.sha = Tip + 1
         \/ x = "owner" /\ note' = note
         \/ /\ x = "owner" /\ note'.sha = 0 /\ late = {}
            /\ \A f \in Execs : ex[f].pc \in {"rest", "reply"},
         \A f \in Execs :
           \/ ex'[f] = ex[f]
           \/ ex'[f].pc = "finish" /\ ex'[f].id = x /\ x \in asked
  PROVE  GateGood'
<1>1. Typed /\ Tip \in Nat /\ "owner" \notin Ids /\ UNCHANGED <<asked, told, call>>
  BY GatewayAssumption DEF GateGood, Typed, devVars
<1>2. /\ history' \in Seq(Ids \cup {"owner"}) /\ Tip' = Tip + 1
      /\ \A id \in Ids : Commits(id)' = IF x = id THEN Commits(id) \cup {Tip + 1} ELSE Commits(id)
  BY <1>1, TopCommit
<1>3. note'.sha <= Tip + 1 /\ (x = "owner" /\ note' = note => note'.sha <= Tip)
  BY <1>1 DEF Typed, Notes
<1>4. Typed' BY <1>1, <1>2, <1>3, GatewayAssumption DEF Typed
<1>5. ASSUME NEW f \in Execs PROVE Sound(ex[f])'
  <2>1. CASE ex'[f].pc = "finish" /\ ex'[f].id = x /\ x \in asked
    <3>1. x \in Ids BY <1>1, <2>1 DEF Typed
    <3>2. Commits(x)' # {} BY <1>2, <3>1
    <3> QED BY <1>1, <2>1, <3>2 DEF Sound
  <2>2. CASE ex'[f] = ex[f]
    <3>1. PICK r \in Records : r = ex[f] /\ r = ex'[f] BY <1>1, <2>2 DEF Typed
    <3>2. Sound(r) /\ (r.pc # "rest" => r.id \in Ids)
      BY <1>1, <3>1 DEF GateGood, ExInv, Typed, Sound
    <3>3. r.base \in Nat /\ r.seen \in Nat BY DEF Records
    <3>4. r.pc # "rest" => Commits(r.id) \subseteq Commits(r.id)' BY <1>2, <3>2
    <3>5. ASSUME r.pc = "put", r.seen = note'.sha PROVE Commits(r.id)' = {}
      <4>1. r.seen <= Tip /\ r.id \in Ids BY <3>2, <3>5 DEF Sound
      <4>2. x = "owner" /\ note' = note BY <1>1, <3>1, <3>3, <3>5, <4>1
      <4>3. Commits(r.id) = {} BY <3>2, <3>5, <4>2 DEF Sound
      <4> QED BY <1>1, <1>2, <4>1, <4>2, <4>3
    <3>6. Sound(r)' BY <1>1, <1>2, <3>2, <3>3, <3>4, <3>5 DEF Sound
    <3> QED BY <3>1, <3>6
  <2> QED BY <2>1, <2>2
<1>6. ASSUME NEW w \in late
      PROVE  /\ w.id \in asked' /\ ledger'[w.id].base # 0 /\ w.sha <= Tip'
             /\ w.sha = note'.sha => Commits(w.id)' = {}
  <2>0. w \in [id : Ids, sha : 0..MaxCommits] BY <1>1 DEF Typed
  <2>1. /\ w.id \in Ids /\ w.sha \in Nat /\ w.sha <= Tip /\ w.id \in asked /\ ledger[w.id].base # 0
        /\ w.sha = note.sha => Commits(w.id) = {}
    BY <2>0 DEF GateGood, LateInv
  <2>2. ASSUME w.sha = note'.sha PROVE Commits(w.id)' = {}
    <3>1. x = "owner" /\ note' = note BY <1>1, <2>1, <2>2
    <3> QED BY <1>1, <1>2, <2>1, <2>2, <3>1
  <2> QED BY <1>1, <1>2, <2>1, <2>2
<1>7. ASSUME NEW id \in Ids PROVE Entered(id)'
  <2>1. Entered(id) /\ ledger[id] \in Entries BY <1>1 DEF GateGood, LedgerInv, Typed
  <2>2. ledger[id].base \in Nat BY <2>1 DEF Entries
  <2> QED BY <1>1, <1>2, <2>1, <2>2 DEF Entered
<1>8. ASSUME NEW id \in Ids, NEW i \in Commits(id)'
      PROVE  ledger'[id].base # 0 /\ ledger'[id].base < i
  <2>1. CASE i \in Commits(id) BY <2>1 DEF GateGood, FrontierFirst
  <2>2. CASE x = id /\ i = Tip + 1
    <3>1. Entered(id) /\ ledger[id].base \in Nat BY <1>1 DEF GateGood, LedgerInv, Typed, Entries
    <3> QED BY <1>1, <2>2, <3>1 DEF Entered
  <2> QED BY <1>2, <2>1, <2>2
<1> QED BY <1>4, <1>5, <1>6, <1>7, <1>8
        DEF GateGood, ExInv, LateInv, LedgerInv, FrontierFirst

LEMMA GivesUpGood ==
  ASSUME GateGood, NEW e \in Execs, GivesUp(e), UNCHANGED devVars PROVE GateGood'
<1>1. "uncertain" \in Results \ {"ok"} BY DEF Results
<1> QED BY <1>1, PutBecomesLate DEF GivesUp

LEMMA KilledGood ==
  ASSUME GateGood, NEW e \in Execs, Killed(e), UNCHANGED devVars PROVE GateGood'
<1>1. "lost" \in Results \ {"ok"} BY DEF Results
<1>2. CASE ex[e].pc = "put" BY <1>1, <1>2, PutBecomesLate DEF Killed
<1>3. CASE ex[e].pc # "put"
  <2>1. UNCHANGED <<ledger, cloud, devVars>> /\ Reply(e, "lost") /\ ex[e].pc # "rest"
    BY <1>3 DEF Killed, cloud
  <2> QED BY <1>1, <2>1, OneSound, ReplyStep
<1> QED BY <1>2, <1>3

LEMMA LateShrinks ==
  ASSUME GateGood, late' \subseteq late, UNCHANGED <<ledger, lock, ex, history, note, devVars>>
  PROVE  GateGood'
<1>1. Typed' BY DEF GateGood, Typed, Tip, devVars
<1>2. LockInv' /\ LateInv' /\ LedgerInv' /\ FrontierFirst'
  BY DEF GateGood, LockInv, LateInv, LedgerInv, Entered, FrontierFirst, Commits, Tip, devVars
<1>3. ExInv' BY DEF GateGood, ExInv, Sound, Commits, Tip, devVars
<1> QED BY <1>1, <1>2, <1>3 DEF GateGood

LEMMA PutsGood ==
  ASSUME GateGood, NEW e \in Execs, Puts(e), UNCHANGED devVars PROVE GateGood'
<1> DEFINE id == ex[e].id
<1>1. /\ ex[e].pc = "put" /\ ex[e].pc \in Served /\ ex[e].pc # "rest"
      /\ UNCHANGED <<ledger, late>> /\ Commit(id, ex[e].seen)
  BY DEF Puts, Served
<1>2. Sound(ex[e]) /\ ex[e] \in Records /\ id \in Ids /\ id \in asked /\ Typed BY <1>1, OneSound
<1>3. CASE ex[e].seen = note.sha /\ ex' = At(e, "finish") /\ UNCHANGED lock
  <2>1. /\ Tip < MaxCommits /\ history' = Append(history, id)
        /\ note' = [sha |-> Tip + 1, fits |-> TRUE]
    BY <1>1, <1>3 DEF Commit
  <2>2. Commits(id) = {} /\ ledger[id].base # 0 BY <1>1, <1>2, <1>3 DEF Sound
  <2>3. Tip + 1 \in 0..MaxCommits BY <1>2, <2>1, GatewayAssumption DEF Typed
  <2>4. note' \in Notes /\ note'.sha = Tip + 1 BY <2>1, <2>3, Zenon DEF Notes
  <2>5. PICK r \in Records : /\ ex' = [ex EXCEPT ![e] = r] /\ r.pc = "finish" /\ r.id = id
    BY <1>2, <1>3, AtRecord DEF Served
  <2>6. /\ ex' \in [Execs -> Records] /\ lock' \in Execs \cup {Nobody}
        /\ \A f \in Execs : \/ ex'[f] = ex[f]
                            \/ ex'[f].pc = "finish" /\ ex'[f].id = id /\ id \in asked
    BY <1>2, <1>3, <2>5 DEF Typed
  <2>7. LockInv' BY <1>1, <1>2, <1>3, <2>5 DEF GateGood, LockInv, Typed
  <2> QED BY <1>1, <1>2, <2>1, <2>2, <2>4, <2>6, <2>7, BranchGrows
<1>4. CASE ex[e].seen # note.sha /\ Reply(e, "error")
  <2>1. UNCHANGED cloud BY <1>1, <1>4 DEF Commit, cloud
  <2> QED BY <1>1, <1>2, <1>4, <2>1, ReplyStep DEF Results
<1>5. CASE /\ ex[e].seen # note.sha /\ UNCHANGED lock
           /\ ex' = [At(e, "read") EXCEPT ![e].tries = @ + 1]
  <2>1. UNCHANGED cloud BY <1>1, <1>5 DEF Commit, cloud
  <2>2. PICK r \in Records : /\ ex' = [ex EXCEPT ![e] = r] /\ r.pc = "read" /\ r.id = id
                             /\ r.base = ex[e].base
    <3> DEFINE s == [ex[e] EXCEPT !.pc = "read", !.tries = ex[e].tries + 1]
    <3>1. "read" \in Served \cup {"rest", "lock", "reply"} /\ ex[e].tries + 1 \in Nat
      BY <1>2 DEF Served, Records
    <3>2. s \in Records BY <1>2, <3>1 DEF Records
    <3>3. s.pc = "read" /\ s.id = ex[e].id /\ s.base = ex[e].base BY <1>2 DEF Records
    <3>4. ex' = [ex EXCEPT ![e] = s] BY <1>2, <1>5 DEF At, Typed
    <3> QED BY <3>2, <3>3, <3>4
  <2>3. Sound(r)' BY <1>1, <1>2, <2>1, <2>2 DEF Sound, Commits, cloud, Tip, devVars
  <2> QED BY <1>1, <1>5, <2>1, <2>2, <2>3, ServedStep DEF Served
<1> QED BY <1>3, <1>4, <1>5 DEF Puts

LEMMA CloudGood ==
  ASSUME GateGood, Cloud, UNCHANGED devVars PROVE GateGood'
<1>1. ASSUME NEW w \in late, LateLands(w) PROVE GateGood'
  <2>1. CASE w.sha # note.sha BY <1>1, <2>1, LateShrinks DEF LateLands, Commit
  <2>2. CASE w.sha = note.sha
    <3>1. /\ Tip < MaxCommits /\ history' = Append(history, w.id) /\ late' \subseteq late
          /\ note' = [sha |-> Tip + 1, fits |-> TRUE] /\ UNCHANGED <<ledger, lock, ex>>
      BY <1>1, <2>2 DEF LateLands, Commit
    <3>2. w.id \in Ids /\ Commits(w.id) = {} /\ ledger[w.id].base # 0
      <4>1. w \in [id : Ids, sha : 0..MaxCommits] BY DEF GateGood, Typed
      <4> QED BY <2>2, <4>1 DEF GateGood, LateInv
    <3>3. Tip + 1 \in 0..MaxCommits BY <3>1, GatewayAssumption DEF GateGood, Typed
    <3>4. note' \in Notes /\ note'.sha = Tip + 1 BY <3>1, <3>3, Zenon DEF Notes
    <3>5. ex' \in [Execs -> Records] /\ lock' \in Execs \cup {Nobody} /\ LockInv'
      BY <3>1 DEF GateGood, Typed, LockInv
    <3> QED BY <3>1, <3>2, <3>4, <3>5, BranchGrows
  <2> QED BY <2>1, <2>2
<1>2. ASSUME NEW w \in late, LateDies(w) PROVE GateGood'
  BY <1>2, LateShrinks DEF LateDies
<1>3. ASSUME OwnerCommits,
             \/ note' \in Notes /\ note'.sha = Tip + 1
             \/ note' = note
             \/ /\ note' \in Notes /\ note'.sha = 0 /\ late = {}
                /\ \A f \in Execs : ex[f].pc \in {"rest", "reply"}
      PROVE  GateGood'
  <2>1. /\ Tip < MaxCommits /\ history' = Append(history, "owner")
        /\ UNCHANGED <<ledger, lock, ex, late>>
    BY <1>3 DEF OwnerCommits
  <2>2. /\ ex' \in [Execs -> Records] /\ lock' \in Execs \cup {Nobody} /\ LockInv'
        /\ note' \in Notes /\ "owner" \notin Ids
    BY <1>3, <2>1, GatewayAssumption DEF GateGood, Typed, LockInv
  <2> DEFINE x == "owner"
  <2>3. x \in Ids \cup {"owner"} OBVIOUS
  <2> QED BY <1>3, <2>1, <2>2, <2>3, BranchGrows
<1>4. CASE OwnerEdits
  <2>1. PICK fits \in BOOLEAN : note' = [sha |-> Tip + 1, fits |-> fits] BY <1>4 DEF OwnerEdits
  <2>2. Tip + 1 \in 0..MaxCommits
    BY <1>4, GatewayAssumption DEF OwnerEdits, OwnerCommits, GateGood, Typed
  <2>3. note' \in Notes /\ note'.sha = Tip + 1 BY <2>1, <2>2, Zenon DEF Notes
  <2> QED BY <1>3, <1>4, <2>3 DEF OwnerEdits
<1>5. CASE OwnerElsewhere BY <1>3, <1>5 DEF OwnerElsewhere
<1>6. CASE OwnerMoves
  <2>1. note' = [sha |-> 0, fits |-> TRUE] /\ 0 \in 0..MaxCommits
    BY <1>6, GatewayAssumption DEF OwnerMoves, Absent
  <2>2. note' \in Notes /\ note'.sha = 0 BY <2>1, Zenon DEF Notes
  <2> QED BY <1>3, <1>6, <2>2 DEF OwnerMoves
<1> QED BY <1>1, <1>2, <1>4, <1>5, <1>6 DEF Cloud

-----------------------------------------------------------------------------
(* The whole: gateway, cloud and recorder.                                   *)

LEMMA ExecutionGood ==
  ASSUME GateGood, NEW e \in Execs, Execution(e), UNCHANGED devVars PROVE GateGood'
BY OccupiedGood, ReplaysGood, RegistersGood, ResumesGood, FrontierGood, KeepsFrontierGood,
   ReadsGood, LooksGood, PutsGood, GivesUpGood, FinishesGood, FailsGood, KilledGood
   DEF Execution

\* A commit of an identity is its first, and was asked for.
LEMMA Effects ==
  ASSUME GateGood, (\E e \in Execs : Execution(e)) \/ Cloud
  PROVE  \/ history' = history \/ history' = Append(history, "owner")
         \/ \E id \in Ids : history' = Append(history, id) /\ Commits(id) = {} /\ id \in asked
<1>1. ASSUME NEW e \in Execs, Puts(e)
      PROVE  \/ history' = history
             \/ \E id \in Ids : history' = Append(history, id) /\ Commits(id) = {} /\ id \in asked
  <2>1. ex[e].pc = "put" /\ ex[e].pc # "rest" /\ Commit(ex[e].id, ex[e].seen) BY <1>1 DEF Puts
  <2>2. Sound(ex[e]) /\ ex[e].id \in Ids /\ ex[e].id \in asked BY <2>1, OneSound
  <2>3. ex[e].seen = note.sha => Commits(ex[e].id) = {} BY <2>1, <2>2 DEF Sound
  <2> QED BY <2>1, <2>2, <2>3 DEF Commit
<1>2. ASSUME NEW w \in late, LateLands(w)
      PROVE  \/ history' = history
             \/ \E id \in Ids : history' = Append(history, id) /\ Commits(id) = {} /\ id \in asked
  <2>1. w \in [id : Ids, sha : 0..MaxCommits] BY DEF GateGood, Typed
  <2>2. w.id \in Ids /\ w.id \in asked /\ (w.sha = note.sha => Commits(w.id) = {})
    BY <2>1 DEF GateGood, LateInv
  <2> QED BY <1>2, <2>2 DEF LateLands, Commit
<1>3. ASSUME NEW e \in Execs, Execution(e), ~Puts(e) PROVE history' = history
  BY <1>3 DEF Execution, Occupied, Replays, Registers, Resumes, Frontier, KeepsFrontier, Reads,
       Looks, GivesUp, Finishes, Fails, Killed, cloud
<1>4. ASSUME Cloud, \A w \in late : ~LateLands(w)
      PROVE  history' = history \/ history' = Append(history, "owner")
  BY <1>4 DEF Cloud, LateDies, OwnerEdits, OwnerElsewhere, OwnerMoves, OwnerCommits
<1> QED BY <1>1, <1>2, <1>3, <1>4

\* Hence commits stay, and every identity has its own.
LEMMA CommitsStay ==
  ASSUME GateGood, (\E e \in Execs : Execution(e)) \/ Cloud, NEW id \in Ids
  PROVE  Commits(id) \subseteq Commits(id)'
<1>1. Typed BY DEF GateGood
<1>2. CASE history' = history BY <1>2 DEF Commits, Tip
<1>3. CASE \E x \in Ids \cup {"owner"} : history' = Append(history, x)
  BY <1>1, <1>3, TopCommit
<1> QED BY <1>2, <1>3, Effects

\* An execution keeps its request until it has answered.
LEMMA KeepsRequest ==
  ASSUME GateGood, NEW e \in Execs, Execution(e), NEW f \in Execs, ex[f].pc # "rest"
  PROVE  ex'[f].pc # "rest" /\ ex'[f].id = ex[f].id
<1>1. Typed /\ ex \in [Execs -> Records] BY DEF GateGood, Typed
<1>2. ASSUME NEW res, Reply(e, res) PROVE ex'[f].pc # "rest" /\ ex'[f].id = ex[f].id
  BY <1>1, <1>2 DEF Reply, Rest
<1>3. ASSUME NEW p \in Served, ex' = At(e, p) PROVE ex'[f].pc # "rest" /\ ex'[f].id = ex[f].id
  BY <1>1, <1>3 DEF At, Served
<1>4. CASE Reads(e) BY <1>1, <1>4 DEF Reads, At
<1>5. CASE Frontier(e)
  <2>1. ASSUME NEW b \in {"keep", "read"}, NEW n, ex' = [At(e, b) EXCEPT ![e].base = n]
        PROVE  ex'[f].pc # "rest" /\ ex'[f].id = ex[f].id
    BY <1>1, <2>1 DEF At
  <2> QED BY <1>2, <1>3, <1>5, <2>1 DEF Frontier, Recovered, Gives, Served
<1>6. CASE Puts(e)
  <2>1. CASE ex' = [At(e, "read") EXCEPT ![e].tries = @ + 1] BY <1>1, <2>1 DEF At
  <2> QED BY <1>2, <1>3, <1>6, <2>1 DEF Puts, Served
<1> QED BY <1>2, <1>3, <1>4, <1>5, <1>6
        DEF Execution, Occupied, Replays, Registers, Resumes, KeepsFrontier, Looks, GivesUp,
            Finishes, Fails, Killed, Recovered, Gives, Served

\* A record that is given up: its answer was heard, or nobody waits.
LEMMA LeaveGood ==
  ASSUME GateGood, NEW e \in Execs, Leave(e), ex[e].pc = "reply",
         asked' = asked, call' \in Calls, told' \subseteq Ids
  PROVE  GateGood'
<1>1. Rest \in Records BY RestRecord
<1>2. Rest.pc = "rest" BY DEF Rest
<1>3. Sound(Rest)' BY <1>2 DEF Sound
<1>4. UNCHANGED <<ledger, lock, cloud>> /\ ex' = [ex EXCEPT ![e] = Rest] BY DEF Leave
<1>5. asked' \subseteq Ids /\ Rest.pc \notin Served /\ lock' \in Execs \cup {Nobody}
      /\ \A f \in Execs \ {e} : ex[f].pc \in Served => lock' = f
  BY <1>2, <1>4 DEF GateGood, Typed, LockInv, Served
<1> QED BY <1>1, <1>3, <1>4, <1>5, QuietStep

LEMMA CallTypes ==
  /\ Idle \in Calls /\ Idle.pc = "idle" /\ Idle.by = Nobody
  /\ \A c \in Calls : /\ Idle \in Calls
                      /\ c.by \in Execs \cup {Nobody} /\ c.id \in Ids \cup {Nobody}
BY DEF Idle, Calls

LEMMA InitGood == Init => IInv
<1> SUFFICES ASSUME Init PROVE IInv OBVIOUS
<1>1. /\ ledger = [id \in Ids |-> Fresh] /\ lock = Nobody /\ ex = [e \in Execs |-> Rest]
      /\ history = <<"owner">> /\ late = {}
      /\ note \in {[sha |-> Absent, fits |-> TRUE], [sha |-> 1, fits |-> TRUE]}
      /\ call = Idle /\ asked = {} /\ told = {}
  BY DEF Init, GateInit
<1>2. Tip = 1 /\ history \in Seq(Ids \cup {"owner"}) /\ history[1] = "owner" BY <1>1 DEF Tip
<1>3. \A id \in Ids : Commits(id) = {} BY <1>2, GatewayAssumption DEF Commits
<1>4. Fresh \in Entries /\ Fresh.base = 0 /\ Fresh.status = "none"
  BY GatewayAssumption DEF Fresh, Entries
<1>5. Rest \in Records /\ Rest.pc = "rest" BY RestRecord DEF Rest
<1>6. note \in Notes /\ note.sha <= 1
  <2>1. 0 \in 0..MaxCommits /\ 1 \in 0..MaxCommits /\ TRUE \in BOOLEAN BY GatewayAssumption
  <2>2. CASE note = [sha |-> Absent, fits |-> TRUE]
    <3>1. note \in Notes BY <2>1, <2>2, Zenon DEF Notes, Absent
    <3>2. note.sha = 0 BY <2>2 DEF Absent
    <3> QED BY <3>1, <3>2
  <2>3. CASE note = [sha |-> 1, fits |-> TRUE]
    <3>1. note \in Notes BY <2>1, <2>3, Zenon DEF Notes
    <3>2. note.sha = 1 BY <2>3
    <3> QED BY <3>1, <3>2
  <2> QED BY <1>1, <2>2, <2>3
<1>7. Typed BY <1>1, <1>2, <1>4, <1>5, <1>6, CallTypes, GatewayAssumption DEF Typed
<1>8. LockInv /\ ExInv BY <1>1, <1>5 DEF LockInv, ExInv, Sound, Served
<1>9. LateInv /\ LedgerInv /\ FrontierFirst
  BY <1>1, <1>2, <1>3, <1>4 DEF LateInv, LedgerInv, Entered, FrontierFirst
<1>10. CallInv /\ ToldInv BY <1>1, CallTypes DEF CallInv, ToldInv
<1> QED BY <1>7, <1>8, <1>9, <1>10 DEF IInv, GateGood

\* The gateway rests while the recorder moves.
LEMMA RecorderStep ==
  ASSUME GateGood, UNCHANGED gateVars, asked \subseteq asked', asked' \subseteq Ids,
         call' \in Calls, told' \subseteq Ids
  PROVE  GateGood'
<1>1. Typed' BY DEF GateGood, Typed, gateVars, Tip
<1>2. LockInv' /\ LateInv' /\ LedgerInv' /\ FrontierFirst'
  BY DEF GateGood, LockInv, LateInv, LedgerInv, Entered, FrontierFirst, Commits, Tip, gateVars
<1>3. ExInv' BY DEF GateGood, ExInv, Sound, Commits, Tip, gateVars
<1> QED BY <1>1, <1>2, <1>3 DEF GateGood

\* A call that ends or is sent again waits for nobody.
LEMMA AgainCalls ==
  ASSUME call \in Calls, call.pc # "idle" => call.id \in Ids, call.pc = "wait", Again
  PROVE  call' \in Calls /\ call'.by = Nobody /\ (call'.pc # "idle" => call'.id \in Ids)
<1>1. CASE call' = Idle BY <1>1, CallTypes
<1>2. CASE call' = [call EXCEPT !.pc = "send", !.attempt = 1, !.by = Nobody]
  BY <1>2 DEF Calls
<1> QED BY <1>1, <1>2 DEF Again

\* Every step of the recorder preserves the invariant.
LEMMA PostGood == IInv /\ Post => IInv'
<1> SUFFICES ASSUME IInv, Post PROVE IInv' OBVIOUS
<1>1. /\ GateGood /\ CallInv /\ ToldInv /\ Typed /\ call \in Calls
      /\ call.pc = "send" /\ call.id \in Ids
  BY DEF IInv, GateGood, Typed, CallInv, Post
<1>2. asked' = asked \cup {call.id} /\ UNCHANGED told BY DEF Post
<1>3. asked \subseteq asked' /\ asked' \subseteq Ids /\ told' \subseteq Ids
  BY <1>1, <1>2 DEF Typed
<1>4. call.by = Nobody BY <1>1 DEF CallInv
<1>5. CASE call' = [call EXCEPT !.pc = "wait"] /\ UNCHANGED gateVars
  <2>1. call' \in Calls /\ call'.by = Nobody /\ call'.id \in Ids
    BY <1>1, <1>4, <1>5 DEF Calls
  <2>2. GateGood' BY <1>1, <1>3, <1>5, <2>1, RecorderStep
  <2>3. CallInv' BY <2>1 DEF CallInv
  <2>4. ToldInv' BY <1>1, <1>2, <1>5 DEF ToldInv, Commits, Tip, gateVars
  <2> QED BY <2>2, <2>3, <2>4 DEF IInv
<1>6. ASSUME NEW e \in Execs, Arrive(e, call.id), call' = [call EXCEPT !.pc = "wait", !.by = e]
      PROVE  IInv'
  <2>1. call' \in Calls /\ call'.by = e /\ call'.id = call.id /\ call'.pc = "wait"
    BY <1>1, <1>6 DEF Calls
  <2>2. GateGood' BY <1>1, <1>2, <1>6, <2>1, ArriveGood
  <2>3. ex'[e].pc = "lock" /\ ex'[e].id = call.id
    BY <1>1, <1>6 DEF Arrive, Rest, Typed
  <2>4. CallInv' BY <1>1, <2>1, <2>3 DEF CallInv
  <2>5. ToldInv' BY <1>1, <1>2, <1>6 DEF ToldInv, Commits, Tip, Arrive, cloud
  <2> QED BY <2>2, <2>4, <2>5 DEF IInv
<1> QED BY <1>5, <1>6 DEF Post

LEMMA AnsweredGood == IInv /\ Answered => IInv'
<1> SUFFICES ASSUME IInv, Answered PROVE IInv' OBVIOUS
<1> DEFINE e == call.by  res == ex[call.by].res
<1>1. /\ GateGood /\ CallInv /\ ToldInv /\ Typed /\ call \in Calls
      /\ call.pc = "wait" /\ call.id \in Ids /\ e # Nobody
      /\ ex[e].pc = "reply" /\ ex[e].id = call.id /\ UNCHANGED asked
      /\ Leave(e)
  BY DEF IInv, GateGood, Typed, CallInv, Answered
<1>2. e \in Execs BY <1>1, CallTypes
<1>3. UNCHANGED <<ledger, history, note, late>> BY <1>1 DEF Leave, cloud
<1>4. res = "ok" => Commits(call.id) # {}
  BY <1>1, <1>2 DEF GateGood, ExInv, Sound
<1>5. ASSUME call' \in Calls, call'.by = Nobody, call'.pc # "idle" => call'.id \in Ids,
             told' = told \/ (res = "ok" /\ told' = told \cup {call.id})
      PROVE  IInv'
  <2>1. told' \subseteq Ids BY <1>1, <1>5 DEF Typed
  <2>2. GateGood' BY <1>1, <1>2, <1>5, <2>1, LeaveGood
  <2>3. CallInv' BY <1>5 DEF CallInv
  <2>4. ToldInv' BY <1>1, <1>3, <1>4, <1>5 DEF ToldInv, Commits, Tip
  <2> QED BY <2>2, <2>3, <2>4 DEF IInv
<1>6. CASE res = "ok" /\ call' = Idle /\ told' = told \cup {call.id}
  BY <1>1, <1>5, <1>6, CallTypes
<1>7. CASE Again /\ UNCHANGED told BY <1>1, <1>5, <1>7, AgainCalls
<1>8. CASE call' = Idle /\ UNCHANGED told BY <1>1, <1>5, <1>8, CallTypes
<1> QED BY <1>6, <1>7, <1>8 DEF Answered

LEMMA DroppedGood == ASSUME IInv, NEW e \in Execs, Dropped(e) PROVE IInv'
<1>1. /\ GateGood /\ CallInv /\ ToldInv /\ Typed /\ call \in Calls
      /\ ex[e].pc = "reply" /\ UNCHANGED <<asked, told>> /\ Leave(e)
  BY DEF IInv, GateGood, Typed, Dropped
<1>2. PICK c \in Calls : call' = c /\ c.pc = call.pc /\ c.id = call.id
                         /\ c.by = IF call.by = e THEN Nobody ELSE call.by
  <2>1. CASE call.by = e BY <1>1, <2>1 DEF Dropped, Calls
  <2>2. CASE call.by # e BY <1>1, <2>2 DEF Dropped
  <2> QED BY <2>1, <2>2
<1>3. GateGood' BY <1>1, <1>2, LeaveGood DEF Typed
<1>4. CallInv'
  <2>1. \A f \in Execs \ {e} : ex'[f] = ex[f] BY <1>1 DEF Leave, Typed
  <2>2. c.by # Nobody => c.by \in Execs \ {e} BY <1>2, GatewayAssumption DEF Nobody, Calls
  <2> QED BY <1>1, <1>2, <2>1, <2>2 DEF CallInv
<1>5. ToldInv' BY <1>1 DEF ToldInv, Commits, Tip, Leave, cloud
<1> QED BY <1>3, <1>4, <1>5 DEF IInv

LEMMA RecorderGood ==
  IInv /\ ((\E id \in Ids : Start(id)) \/ NoConnection \/ Unknown \/ Cancel) => IInv'
<1> SUFFICES ASSUME IInv, (\E id \in Ids : Start(id)) \/ NoConnection \/ Unknown \/ Cancel
             PROVE  IInv'
  OBVIOUS
<1>1. GateGood /\ CallInv /\ ToldInv /\ Typed /\ call \in Calls
  BY DEF IInv, GateGood, Typed
<1>2. UNCHANGED <<gateVars, asked, told>> BY DEF Start, NoConnection, Unknown, Cancel, End
<1>3. call' \in Calls /\ call'.by = Nobody /\ (call'.pc # "idle" => call'.id \in Ids)
  <2>1. ASSUME NEW id \in Ids, Start(id)
        PROVE  call' \in Calls /\ call'.by = Nobody /\ call'.id \in Ids
    BY <2>1 DEF Start, Idle, Calls
  <2>2. CASE call' = Idle BY <2>2, CallTypes
  <2>3. CASE call.pc = "wait" /\ Again BY <1>1, <2>3, AgainCalls DEF CallInv
  <2> QED BY <2>1, <2>2, <2>3 DEF NoConnection, Unknown, Cancel, End
<1>4. GateGood' BY <1>1, <1>2, <1>3, RecorderStep DEF Typed
<1>5. CallInv' BY <1>3 DEF CallInv
<1>6. ToldInv' BY <1>1, <1>2 DEF ToldInv, Commits, Tip, gateVars
<1> QED BY <1>4, <1>5, <1>6 DEF IInv

LEMMA GatewayGood ==
  ASSUME IInv, (\E e \in Execs : Execution(e)) \/ Cloud, UNCHANGED devVars PROVE IInv'
<1>1. GateGood /\ CallInv /\ ToldInv /\ Typed /\ call \in Calls
  BY DEF IInv, GateGood, Typed
<1>2. GateGood' BY <1>1, ExecutionGood, CloudGood
<1>3. ToldInv'
  <2>1. \A id \in Ids : Commits(id) \subseteq Commits(id)' BY <1>1, CommitsStay
  <2> QED BY <1>1, <2>1 DEF ToldInv, Typed, devVars
<1>4. CallInv'
  <2>1. call' = call /\ (call.by # Nobody => call.by \in Execs)
    BY <1>1, CallTypes DEF devVars
  <2>2. CASE \E e \in Execs : Execution(e)
    <3>1. call.by # Nobody => ex'[call.by].pc # "rest" /\ ex'[call.by].id = call.id
      BY <1>1, <2>1, <2>2, KeepsRequest DEF CallInv
    <3> QED BY <1>1, <2>1, <3>1 DEF CallInv
  <2>3. CASE Cloud
    <3>1. ex' = ex
      BY <2>3 DEF Cloud, LateLands, LateDies, OwnerEdits, OwnerElsewhere, OwnerMoves, OwnerCommits
    <3> QED BY <1>1, <2>1, <3>1 DEF CallInv
  <2> QED BY <2>2, <2>3
<1> QED BY <1>2, <1>3, <1>4 DEF IInv

-----------------------------------------------------------------------------
(* Theorems.                                                                 *)

LEMMA NextGood == IInv /\ [Next]_vars => IInv'
<1> SUFFICES ASSUME IInv, [Next]_vars PROVE IInv' OBVIOUS
<1>1. CASE Next
  <2>1. ASSUME NEW e \in Execs, Dropped(e) PROVE IInv' BY <2>1, DroppedGood
  <2> QED BY <1>1, <2>1, PostGood, AnsweredGood, RecorderGood, GatewayGood DEF Next, Device
<1>2. CASE UNCHANGED vars
  <2>1. UNCHANGED gateVars /\ UNCHANGED <<call, asked, told>> BY <1>2 DEF vars, devVars
  <2>2. GateGood' BY <2>1, RecorderStep DEF IInv, GateGood, Typed
  <2>3. CallInv' /\ ToldInv'
    BY <2>1 DEF IInv, CallInv, ToldInv, Commits, Tip, gateVars
  <2> QED BY <2>2, <2>3 DEF IInv
<1> QED BY <1>1, <1>2

(* The inductive invariant: who holds the lock, what the place of an         *)
(* execution says of ledger and branch, what a PUT given up can still do.    *)
THEOREM Inductive == Spec => []IInv
<1> QED BY InitGood, NextGood, PTL DEF Spec

(* The frontier of an identity is on record before its commit and below it.  *)
THEOREM FrontierOnRecord == Spec => []GateInv
<1>1. IInv => GateInv
  <2> SUFFICES ASSUME IInv PROVE GateInv OBVIOUS
  <2>1. Typed /\ FrontierFirst BY DEF IInv, GateGood
  <2>2. GateTypeOK BY <2>1 DEF Typed, GateTypeOK, Entries, Notes, Tip
  <2> QED BY <2>1, <2>2 DEF GateInv
<1> QED BY <1>1, Inductive, PTL

(* A refusal for what the note says refuses nothing that was done.           *)
THEOREM RefusalsTrue == Spec => RefusalTrue
<1> DEFINE Refuses(e) == ex'[e].res = "refused" /\ ex[e].res # "refused"
<1>1. ASSUME IInv, Next, NEW e \in Execs, Refuses(e) PROVE Commits(ex[e].id) = {}
  <2>1. GateGood /\ Typed /\ ex \in [Execs -> Records] BY <1>1 DEF IInv, GateGood, Typed
  <2>2. ASSUME NEW f \in Execs, Execution(f), ~Looks(f) PROVE FALSE
    <3>1. ASSUME NEW res \in Results \ {"refused"}, Reply(f, res) PROVE FALSE
      BY <1>1, <2>1, <3>1 DEF Reply, Rest
    <3>2. ASSUME NEW p, ex' = At(f, p) PROVE FALSE BY <1>1, <2>1, <3>2 DEF At
    <3>3. ~Reads(f)
      <4>1. SUFFICES ASSUME Reads(f) PROVE ex'[e].res = ex[e].res BY <1>1
      <4> DEFINE s == [ex[f] EXCEPT !.pc = "look", !.seen = note.sha, !.fits = note.fits]
      <4>2. ex' = [ex EXCEPT ![f] = s] BY <2>1, <4>1 DEF Reads, At
      <4>3. s.res = ex[f].res BY <2>1 DEF Records
      <4> QED BY <2>1, <4>2, <4>3
    <3>4. ASSUME NEW p, NEW n, ex' = [At(f, p) EXCEPT ![f].base = n] PROVE FALSE
      BY <1>1, <2>1, <3>4 DEF At
    <3>5. ASSUME NEW p, ex' = [At(f, p) EXCEPT ![f].tries = @ + 1] PROVE FALSE
      BY <1>1, <2>1, <3>5 DEF At
    <3>6. ~Frontier(f) BY <3>1, <3>2, <3>4 DEF Frontier, Recovered, Gives, Results
    <3>7. ~Puts(f) BY <3>1, <3>2, <3>5 DEF Puts, Results
    <3>8. /\ ~Occupied(f) /\ ~Replays(f) /\ ~Registers(f) /\ ~Resumes(f) /\ ~KeepsFrontier(f)
          /\ ~GivesUp(f) /\ ~Finishes(f) /\ ~Fails(f) /\ ~Killed(f)
      BY <3>1, <3>2 DEF Occupied, Replays, Registers, Resumes, KeepsFrontier, GivesUp, Finishes,
                        Fails, Killed, Results
    <3> QED BY <2>2, <3>3, <3>6, <3>7, <3>8 DEF Execution
  <2>3. ASSUME ex' = ex PROVE FALSE BY <1>1, <2>3
  <2>4. ASSUME NEW f \in Execs, Leave(f) PROVE FALSE BY <1>1, <2>1, <2>4 DEF Leave, Rest
  <2>5. ASSUME NEW f \in Execs, NEW id, Arrive(f, id) PROVE FALSE
    BY <1>1, <2>1, <2>5 DEF Arrive, Rest
  <2>6. Answered => \E f \in Execs : Leave(f)
    BY <1>1, CallTypes DEF Answered, IInv, GateGood, Typed
  <2>7. ~Device
    BY <2>3, <2>4, <2>5, <2>6 DEF Device, Start, NoConnection, Post, Unknown, Cancel, gateVars
  <2>8. ~Cloud
    BY <2>3 DEF Cloud, LateLands, LateDies, OwnerEdits, OwnerElsewhere, OwnerMoves, OwnerCommits
  <2>9. PICK f \in Execs : Looks(f)
    BY <1>1, <2>2, <2>4, <2>7, <2>8 DEF Next, Dropped
  <2>10. ~Recovered(f, ex[f].base)
    <3>1. ASSUME ex' = At(f, "finish") PROVE FALSE BY <1>1, <2>1, <3>1 DEF At
    <3> QED BY <3>1 DEF Recovered
  <2>11. ~Gives(f, ex[f].base) BY <1>1, <2>1 DEF Gives, Reply, Rest
  <2>12. ~Found(ex[f].id, ex[f].base) /\ Reaches(ex[f].base) /\ ex[f].pc = "look"
    BY <2>9, <2>10, <2>11 DEF Looks
  <2>13. f = e
    <3>1. CASE ex' = At(f, "put") BY <1>1, <2>1, <3>1 DEF At
    <3>2. CASE Reply(f, "refused") BY <1>1, <2>1, <3>2 DEF Reply
    <3> QED BY <2>9, <2>10, <2>11, <3>1, <3>2 DEF Looks
  <2>14. ex[e].id \in Ids /\ ex[e].base = ledger[ex[e].id].base
    BY <2>1, <2>12, <2>13, OneSound DEF Sound
  <2> QED BY <2>1, <2>12, <2>13, <2>14, NothingHidden DEF GateGood
<1>2. IInv /\ [Next]_vars
      => [\A e \in Execs : ex'[e].res = "refused" /\ ex[e].res # "refused"
                           => Commits(ex[e].id) = {}]_gateVars
  BY <1>1 DEF vars
<1> QED BY <1>2, Inductive, PTL DEF Spec, RefusalTrue

-----------------------------------------------------------------------------
(* The gateway keeps the promise of OnceOnly.                                *)

\* How often an identity has taken effect: not at all, or once.
LEMMA TimesCounts ==
  ASSUME IInv, NEW id \in Ids
  PROVE  times[id] = IF Commits(id) = {} THEN 0 ELSE 1
<1>1. times[id] = Cardinality(Commits(id)) BY DEF times
<1>2. CASE Commits(id) = {} BY <1>1, <1>2, FS_EmptySet
<1>3. CASE Commits(id) # {}
  <2>1. PICK i \in Commits(id) : TRUE BY <1>3
  <2>2. Commits(id) = {i} BY <2>1 DEF IInv, GateGood, LedgerInv, Entered
  <2> QED BY <1>1, <1>3, <2>2, FS_Singleton
<1> QED BY <1>2, <1>3

\* No commit, no change.
LEMMA TimesStay ==
  ASSUME history' = history \/ (Typed /\ history' = Append(history, "owner"))
  PROVE  times' = times
<1>1. \A id \in Ids : Commits(id)' = Commits(id)
  <2>1. CASE history' = history BY <2>1 DEF Commits, Tip
  <2>2. CASE Typed /\ history' = Append(history, "owner")
    <3>1. "owner" \notin Ids BY GatewayAssumption
    <3> DEFINE x == "owner"
    <3>2. x \in Ids \cup {"owner"} OBVIOUS
    <3> QED BY <2>2, <3>1, <3>2, TopCommit
  <2> QED BY <2>1, <2>2
<1> QED BY <1>1 DEF times

LEMMA OnceStep ==
  IInv /\ IInv' /\ [Next]_vars
    => [\E id \in Ids : Once!Ask(id) \/ Once!Apply(id) \/ Once!Tell(id)]_(Once!promise)
<1> SUFFICES ASSUME IInv, IInv', [Next]_vars
             PROVE  \/ UNCHANGED <<asked, times, told>>
                    \/ \E id \in Ids : Once!Ask(id) \/ Once!Apply(id) \/ Once!Tell(id)
  BY DEF Once!promise
<1>0. GateGood /\ Typed /\ CallInv /\ call \in Calls BY DEF IInv, GateGood, Typed
<1>1. ASSUME history' = history, UNCHANGED <<asked, told>> PROVE UNCHANGED <<asked, times, told>>
  BY <1>1, TimesStay
<1>2. CASE UNCHANGED vars BY <1>1, <1>2 DEF vars, gateVars, devVars
<1>3. CASE (\E id \in Ids : Start(id)) \/ NoConnection \/ Unknown \/ Cancel
  BY <1>1, <1>3 DEF Start, NoConnection, Unknown, Cancel, End, gateVars
<1>4. CASE Post
  <2>1. call.id \in Ids /\ asked' = asked \cup {call.id} /\ UNCHANGED <<history, told>>
    BY <1>0, <1>4 DEF Post, CallInv, Arrive, cloud, gateVars
  <2>2. Once!Ask(call.id) BY <2>1, TimesStay DEF Once!Ask
  <2> QED BY <2>1, <2>2
<1>5. CASE Answered
  <2>1. UNCHANGED <<history, asked>> /\ call.id \in Ids BY <1>0, <1>5 DEF Answered, Leave, cloud, CallInv
  <2>2. CASE UNCHANGED told BY <1>1, <2>1, <2>2
  <2>3. CASE ex[call.by].res = "ok" /\ told' = told \cup {call.id}
    <3>1. call.by \in Execs /\ ex[call.by].id = call.id /\ ex[call.by].pc = "reply"
      BY <1>0, <1>5, CallTypes DEF Answered, CallInv
    <3>2. Commits(call.id) # {} BY <1>0, <2>3, <3>1 DEF GateGood, ExInv, Sound
    <3>3. times[call.id] = 1 BY <2>1, <3>2, TimesCounts
    <3>4. Once!Tell(call.id) BY <2>1, <2>3, <3>3, TimesStay DEF Once!Tell
    <3> QED BY <2>1, <3>4
  <2> QED BY <1>5, <2>2, <2>3 DEF Answered
<1>6. CASE \E e \in Execs : Dropped(e) BY <1>1, <1>6 DEF Dropped, Leave, cloud
<1>7. CASE ((\E e \in Execs : Execution(e)) \/ Cloud) /\ UNCHANGED devVars
  <2>1. UNCHANGED <<asked, told>> BY <1>7 DEF devVars
  <2>2. CASE history' = history \/ history' = Append(history, "owner")
    BY <1>0, <2>1, <2>2, TimesStay
  <2>3. ASSUME NEW id \in Ids, history' = Append(history, id), Commits(id) = {}, id \in asked
        PROVE  Once!Apply(id)
    <3>1. \A i \in Ids : Commits(i)' = IF i = id THEN Commits(i) \cup {Tip + 1} ELSE Commits(i)
      BY <1>0, <2>3, TopCommit
    <3>2. times[id] = 0 BY <2>3, TimesCounts
    <3>3. Commits(id)' = {Tip + 1} BY <2>3, <3>1
    <3>4. Cardinality(Commits(id)') = 1 BY <3>3, FS_Singleton
    <3>5. times' = [i \in Ids |-> Cardinality(Commits(i)')] BY DEF times
    <3>6. times' = [times EXCEPT ![id] = 1] BY <3>1, <3>4, <3>5 DEF times
    <3> QED BY <2>1, <2>3, <3>2, <3>6 DEF Once!Apply
  <2> QED BY <1>0, <1>7, <2>2, <2>3, Effects
<1> QED BY <1>2, <1>3, <1>4, <1>5, <1>6, <1>7 DEF Next, Device

(* At most one commit for each identity, and success told only of it.        *)
THEOREM Refines == Spec => AppliedOnce
<1>1. Init => Once!OnceInit
  <2> SUFFICES ASSUME Init PROVE Once!OnceInit OBVIOUS
  <2>1. IInv BY InitGood
  <2>2. history = <<"owner">> /\ asked = {} /\ told = {} BY DEF Init, GateInit
  <2>3. \A id \in Ids : Commits(id) = {} BY <2>2, GatewayAssumption DEF Commits, Tip
  <2>4. times = [id \in Ids |-> 0] BY <2>3, FS_EmptySet DEF times
  <2> QED BY <2>2, <2>4 DEF Once!OnceInit
<1> QED BY <1>1, OnceStep, Inductive, PTL DEF Spec, AppliedOnce, Once!OnceSpec
=============================================================================
