------------------------------ MODULE OnceOnly ------------------------------
(***************************************************************************)
(* What the gateway promises to the recorder for a mutation of the vault:  *)
(* asked for as often as it may be, with the same identity each time, it   *)
(* takes effect at most once, and success is told only of an effect that   *)
(* has happened.                                                           *)
(***************************************************************************)
EXTENDS Naturals

CONSTANT Ids \* identities of mutations

VARIABLES
    asked, \* the identities ever sent
    times, \* how often each has taken effect
    told   \* the identities reported as done

promise == <<asked, times, told>>

OnceInit ==
    /\ asked = {} /\ told = {}
    /\ times = [id \in Ids |-> 0]

Ask(id) == asked' = asked \cup {id} /\ UNCHANGED <<times, told>>

Apply(id) ==
    /\ id \in asked /\ times[id] = 0
    /\ times' = [times EXCEPT ![id] = 1]
    /\ UNCHANGED <<asked, told>>

Tell(id) ==
    /\ times[id] = 1
    /\ told' = told \cup {id}
    /\ UNCHANGED <<asked, times>>

OnceSpec == OnceInit /\ [][\E id \in Ids : Ask(id) \/ Apply(id) \/ Tell(id)]_promise
=============================================================================
