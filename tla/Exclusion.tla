------------------------------- MODULE Exclusion -------------------------------
(***************************************************************************)
(* What the operation registry of NearProd promises to the work it runs:   *)
(* jobs hold claims, and a job begins only when no job that is holding a   *)
(* claim conflicts with it.  A claim names targets, may be global, and may *)
(* be a heavy build (docs/SPEC-0.7.0.md: "Locks por objetivo, un build     *)
(* pesado concurrente, lock global para mantenimiento").                   *)
(***************************************************************************)
CONSTANTS
    Op,         \* identities of operations
    Target,     \* what an operation may claim: applications, "infra:..." names
    Claim       \* the claims that callers of Submit make

VARIABLE holds  \* holds[o]: the claim o's work runs under, or NoClaim

(* A job that holds nothing; no caller asks for this claim. *)
NoClaim == [targets |-> {}, global |-> FALSE, build |-> FALSE]

(* Two claims exclude each other: maintenance excludes everything, one     *)
(* build runs at a time, and a target has one operation.                   *)
Conflict(c, d) ==
    \/ c.global
    \/ d.global
    \/ c.build /\ d.build
    \/ c.targets \cap d.targets # {}

Init == holds = [o \in Op |-> NoClaim]

Acquire(o, c) ==
    /\ holds[o] = NoClaim
    /\ \A p \in Op \ {o} : holds[p] # NoClaim => ~Conflict(c, holds[p])
    /\ holds' = [holds EXCEPT ![o] = c]

Release(o) ==
    /\ holds[o] # NoClaim
    /\ holds' = [holds EXCEPT ![o] = NoClaim]

(* The process dies and every claim with it. *)
ReleaseAll == holds' = [o \in Op |-> NoClaim]

(* The claim that is taken is read off the next state, so that a step of   *)
(* an implementation names no witness in Claim.                            *)
Next ==
    \/ \E o \in Op : holds'[o] \in Claim /\ Acquire(o, holds'[o])
    \/ \E o \in Op : Release(o)
    \/ ReleaseAll

Spec == Init /\ [][Next]_holds
================================================================================
