------------------------------- MODULE Deletion -------------------------------
(***************************************************************************)
(* What PurgeStack promises to the owner of an application                 *)
(* (docs/APPLICATION_DELETION.md): a deletion is confirmed once, with one  *)
(* plan, and then only goes forward.  Whatever fails, dies or is retried,  *)
(* the plan stays, nothing outside it is taken, what is gone does not come *)
(* back, and the application is forgotten when nothing of the plan is left.*)
(***************************************************************************)
EXTENDS Naturals

CONSTANTS
    Item,       \* what an application may own
    Consumer,   \* items that use others: containers
    Data        \* items that consumers use: databases and volumes

VARIABLES
    phase,      \* "live", "pending" or "gone"
    plan,       \* plan[i]: the identity of i that was confirmed, 0 if not listed
    left,       \* the items of the plan that are still there
    taken       \* what the deletion removed: <<item, identity>>

vars == <<phase, plan, left, taken>>

Listed(p) == {i \in Item : p[i] # 0}

Init ==
    /\ phase = "live" /\ plan = [i \in Item |-> 0]
    /\ left = {} /\ taken = {}

(* The plan that was confirmed is saved. *)
Confirm ==
    /\ phase = "live" /\ phase' = "pending"
    /\ left' \subseteq Listed(plan')
    /\ UNCHANGED taken

(* One item is removed, data only when no consumer is left. *)
Take(i) ==
    /\ phase = "pending" /\ plan[i] # 0
    /\ i \in Data => left \cap Consumer = {}
    /\ taken' = taken \cup {<<i, plan[i]>>}
    /\ left' = left \ {i}
    /\ UNCHANGED <<phase, plan>>

(* Somebody else removes or replaces an item. *)
Lose(i) ==
    /\ i \in left /\ left' = left \ {i}
    /\ UNCHANGED <<phase, plan, taken>>

(* The application is forgotten. *)
Close ==
    /\ phase = "pending" /\ left = {}
    /\ phase' = "gone"
    /\ UNCHANGED <<plan, left, taken>>

Next ==
    \/ Confirm
    \/ \E i \in Item : Take(i) \/ Lose(i)
    \/ Close

Spec == Init /\ [][Next]_vars
================================================================================
