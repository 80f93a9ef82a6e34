----------------------------- MODULE NoteExport -----------------------------
(***************************************************************************)
(* The recorder's side of the gateway: the worker that exports a note      *)
(* (src/src/assistant/note_export.cpp) and ToolGateway::execute            *)
(* (src/src/assistant/transport.cpp).  A request whose outcome is unknown  *)
(* is repeated once, with the same identity and body; the user may ask     *)
(* again later, which gives the same identity while the text is the same.  *)
(* A tool call of a talk is repeated by the same rule (AssistantJob).      *)
(***************************************************************************)
EXTENDS GatewayLedger, FiniteSets

CONSTANT MaxStarts \* bound on the exports asked for

VARIABLES
    call,   \* the worker: what it asks for, which attempt, who serves it
    starts, \* exports begun so far
    asked,  \* history: identities that left the recorder
    told    \* history: identities the user was told are done

devVars == <<call, starts, asked, told>>
vars == <<gateVars, devVars>>

Idle == [pc |-> "idle", id |-> Nobody, attempt |-> 0, by |-> Nobody]

Init == GateInit /\ call = Idle /\ starts = 0 /\ asked = {} /\ told = {}

\* startNoteExport(), or a call of a tool.
Start(id) ==
    /\ call.pc = "idle" /\ starts < MaxStarts
    /\ call' = [Idle EXCEPT !.pc = "send", !.id = id] /\ starts' = starts + 1
    /\ UNCHANGED <<gateVars, asked, told>>

End == call' = Idle /\ UNCHANGED <<starts, asked>>

\* No connection: nothing was sent, and no second attempt is made.
NoConnection == call.pc = "send" /\ End /\ UNCHANGED <<gateVars, told>>

\* From the first byte of the body on the outcome is uncertain.
Post ==
    /\ call.pc = "send" /\ asked' = asked \cup {call.id}
    /\ \/ \E e \in Execs : Arrive(e, call.id) /\ call' = [call EXCEPT !.pc = "wait", !.by = e]
       \/ call' = [call EXCEPT !.pc = "wait"] /\ UNCHANGED gateVars \* lost on the way
    /\ UNCHANGED <<starts, told>>

Leave(e) == ex' = [ex EXCEPT ![e] = Rest] /\ UNCHANGED <<ledger, lock, cloud>>

\* OUTCOME_UNKNOWN or REMOTE_UNCERTAIN: the same request again, once.
Again == IF call.attempt = 0
         THEN call' = [call EXCEPT !.pc = "send", !.attempt = 1, !.by = Nobody]
         ELSE call' = Idle

\* The answer comes over two hops, and may be lost on each.
Answered ==
    /\ call.pc = "wait" /\ call.by # Nobody /\ ex[call.by].pc = "reply" /\ ex[call.by].res # "lost"
    /\ Leave(call.by)
    /\ LET res == ex[call.by].res IN
       \/ res = "ok" /\ call' = Idle /\ told' = told \cup {call.id}
       \/ res = "uncertain" /\ Again /\ UNCHANGED told
       \/ res \in {"error", "refused"} /\ call' = Idle /\ UNCHANGED told
    /\ UNCHANGED <<starts, asked>>

\* Twenty-five seconds are over or the connection broke: again.  An answer that
\* cannot be read ends the call.
Unknown ==
    /\ call.pc = "wait" /\ (Again \/ call' = Idle) /\ UNCHANGED <<gateVars, starts, asked, told>>

\* The user cancels: the loop ends at its next look.
Cancel == call.pc # "idle" /\ End /\ UNCHANGED <<gateVars, told>>

\* An answer for which nobody waits any more.
Dropped(e) ==
    /\ ex[e].pc = "reply" /\ (call.by # e \/ ex[e].res = "lost")
    /\ Leave(e)
    /\ call' = IF call.by = e THEN [call EXCEPT !.by = Nobody] ELSE call
    /\ UNCHANGED <<starts, asked, told>>

Device ==
    \/ \E id \in Ids : Start(id)
    \/ NoConnection \/ Post \/ Answered \/ Unknown \/ Cancel

Next ==
    \/ Device
    \/ (\E e \in Execs : Execution(e)) /\ UNCHANGED devVars
    \/ \E e \in Execs : Dropped(e)
    \/ Cloud /\ UNCHANGED devVars

Spec == Init /\ [][Next]_vars
-----------------------------------------------------------------------------
times == [id \in Ids |-> Cardinality(Commits(id))]

Once == INSTANCE OnceOnly WITH Ids <- Ids, asked <- asked, times <- times, told <- told

(* "Replay after a lost answer repeats the result and never duplicates":     *)
(* at most one commit for each identity, and success told of that commit.    *)
AppliedOnce == Once!OnceSpec
=============================================================================
