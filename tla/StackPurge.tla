------------------------------ MODULE StackPurge ------------------------------
(***************************************************************************)
(* PurgeStack (stack_purge.go): the irreversible deletion of one           *)
(* application with its containers, databases, volumes, networks, images   *)
(* and generated files, resumed from the plan saved in stackPurges after a *)
(* failure or the death of the agent, while other users of Docker create,  *)
(* replace and delete resources.                                           *)
(*                                                                         *)
(* The operation claims everything and holds Service.mutation, so no other *)
(* operation or handler of the service runs with it: Up, Bind and InfraRun *)
(* happen only while none is active (see Operations and Catalog).  The     *)
(* databases are those of one instance, which Docker's users may start and *)
(* stop and whose administrator may create and drop databases.             *)
(***************************************************************************)
EXTENDS Naturals

CONSTANTS
    Container,  \* containers of the application (networks and images, found and
                \* removed by id as well, add no case)
    Database,   \* databases of an infrastructure instance, records of the catalog
    Volume,     \* volumes, which Docker addresses by name
    File,       \* generated files
    MaxBorn,    \* bound: incarnations of one resource
    MaxFaults,  \* bound: failed steps and deaths of the agent
    MaxInfra    \* bound: requests to InfraAction

ASSUME ConstantsAssumption ==
    /\ MaxBorn \in Nat \ {0} /\ MaxFaults \in Nat /\ MaxInfra \in Nat
    /\ Container \cap (Database \cup Volume \cup File) = {}
    /\ Database \cap (Volume \cup File) = {} /\ Volume \cap File = {}

VARIABLES
    inc,        \* inc[r]: incarnation of r that exists, 0 if none
    born,       \* born[r]: incarnations of r so far
    stage,      \* stage[d]: how the record of a database and its data stand, see Stages
    engine,     \* the databases' instance: "running", "stopped" or "archived"
    record,     \* the stack is in stacks or archivedStacks
    pending,    \* stackPurges has a plan for it
    plan,       \* plan[r]: the reviewed incarnation of r, 0 if not listed
    bound,      \* the databases it has bindings to
    applied,    \* its record has proxyApplied
    routed,     \* the proxy's file routes to it
    reviewed,   \* the preview the client holds, as a set of at most one
    op,         \* step of the purge-stack operation
    todo,       \* resources the loop has left
    cur,        \* the one it is at, <<r, incarnation inspected>>
    destroyed,  \* what was removed: <<r, incarnation, the one inspected>>
    infra,      \* a request that passed InfraAction's test of stackPurges
    requests, faults

things == <<inc, born, stage, engine>>
work  == <<op, todo, cur>>
state == <<record, pending, plan, bound, applied>>
vars == <<inc, born, stage, engine, record, pending, plan, bound, applied, routed, reviewed,
          op, todo, cur, destroyed, infra, requests, faults>>

Resource == Container \cup Database \cup Volume \cup File
Named == Volume \cup File
Data == Database \cup Volume
None == [r \in Resource |-> 0]

(* The order of deletion. *)
Rank(r) == CASE r \in Container -> 1 [] r \in Database -> 2 [] r \in Volume -> 3 [] OTHER -> 4

(* The resources of the preview that the operation was confirmed with.     *)
Given == (CHOOSE p \in reviewed : TRUE).plan
Listed == {r \in Resource : Given[r] # 0}

(* "begun": its purge in the mode of PurgeStack has begun; "halfway": one   *)
(* in the other mode, or its creation, has stopped (which of them is not   *)
(* kept, so either request may go on with it); "archived": its record is   *)
(* put away; "altered": somebody dropped it under its record or made one   *)
(* of its name without a record.                                           *)
Stages == {"ready", "begun", "halfway", "archived", "altered"}

(* PurgeDatabasePreview and verifyPurgePhysical ask the running engine and *)
(* refuse a database that is anything but ready or begun; one that the     *)
(* catalog does not list must have left neither data nor a credential.     *)
Unable(r) ==
    r \in Database /\ (engine # "running" \/ stage[r] \in {"halfway", "archived", "altered"})

(* The databases of a preview: those bound and, in a retry, the planned.   *)
InScope(d) == d \in bound \/ (pending /\ plan[d] # 0)

(* Those of them with a record that cannot be purged now.                  *)
Refused ==
    {d \in Database : /\ InScope(d) /\ Unable(d)
                      /\ inc[d] # 0 /\ stage[d] # "archived" /\ engine # "archived"}

(* The inventory: what Docker and the disk hold, and those that can.       *)
Inventory ==
    [r \in Resource |->
        IF r \in Database /\ (~InScope(r) \/ Unable(r)) THEN 0 ELSE inc[r]]
--------------------------------------------------------------------------------
(* What an identifier finds: the container that has the id, or whatever    *)
(* bears the name; a database's id is a hash of its name.                  *)
Exists(r) == IF r \in Container THEN inc[r] = Given[r] ELSE inc[r] # 0

(* PurgeStackPreview.  Without a plan: the inventory.  With one: the plan, *)
(* blocked by every resource that is new or replaced.  Either names the    *)
(* instance of each database it can purge as preserved.                    *)
View(p, blockers) ==
    [plan |-> p, blockers |-> blockers, retry |-> pending, bound |-> bound, applied |-> applied,
     preserved |-> {d \in Database : Inventory[d] # 0}]

(* Mutant: a retry takes a new inventory for its plan, which lists no      *)
(* database: the bindings are gone.                                        *)
Preview_Fresh ==
    View([r \in Resource |-> IF r \in Database \ bound THEN 0 ELSE inc[r]], {})
Preview ==
    IF pending
    THEN View(plan, Refused \cup {r \in Resource : Inventory[r] \notin {0, plan[r]}})
    ELSE View(Inventory, Refused)

Init ==
    /\ inc \in [Resource -> {0, 1}] /\ born = inc
    /\ stage \in [Database -> Stages] /\ engine \in {"running", "stopped", "archived"}
    /\ \A d \in Database :
          /\ engine = "archived" => stage[d] # "archived"
          /\ inc[d] = 0 => stage[d] \in {"ready", "altered"}
    /\ record = TRUE /\ pending = FALSE /\ plan = None
    /\ bound \in SUBSET {d \in Database : inc[d] # 0 /\ stage[d] \in {"ready", "altered"}}
    /\ engine = "archived" => bound = {}
    /\ applied \in BOOLEAN /\ routed = applied
    /\ reviewed = {} /\ op = "idle" /\ todo = {} /\ cur = {}
    /\ destroyed = {} /\ infra = FALSE /\ requests = 0 /\ faults = 0

(* POST purge-preview: read-only, takes no lock. *)
Review ==
    /\ record /\ reviewed = {}
    /\ reviewed' = {Preview}
    /\ UNCHANGED <<things, state, routed, work, destroyed, infra, requests, faults>>

(* The client drops a review it will not confirm. *)
Dismiss ==
    /\ reviewed # {} /\ op = "idle"
    /\ reviewed' = {}
    /\ UNCHANGED <<things, state, routed, work, destroyed, infra, requests, faults>>

(* PurgeStack with the typed id and the fingerprint: Submit, then the work *)
(* takes Service.mutation.                                                 *)
Submit ==
    /\ op = "idle" /\ reviewed # {} /\ record
    /\ op' = "submitted"
    /\ UNCHANGED <<things, state, routed, reviewed, todo, cur, destroyed, infra,
                   requests, faults>>

Goto(step) == op' = step /\ UNCHANGED <<todo, cur>>
EndWork == op' = "idle" /\ todo' = {} /\ cur' = {} /\ reviewed' = {}

(* The preview is computed again and must have the fingerprint confirmed.  *)
Confirm ==
    /\ op = "submitted"
    /\ Preview \in reviewed /\ Preview.blockers = {}
    /\ Goto("journal")
    /\ UNCHANGED <<things, state, routed, reviewed, destroyed, infra, requests, faults>>

(* PREVIEW_CHANGED or PURGE_BLOCKED: review again. *)
Refuse ==
    /\ op = "submitted"
    /\ ~(Preview \in reviewed /\ Preview.blockers = {})
    /\ EndWork
    /\ UNCHANGED <<things, state, routed, destroyed, infra, requests, faults>>

(* Mutant: the plan stays in memory. *)
Journal_InMemory ==
    /\ op = "journal"
    /\ plan' = IF pending THEN plan ELSE Given
    /\ bound' = {} /\ applied' = FALSE
    /\ Goto("sync")
    /\ UNCHANGED <<things, record, pending, routed, reviewed, destroyed, infra, requests,
                   faults>>

(* One commit: save the plan, detach the bindings, withdraw the routes. *)
Journal ==
    /\ op = "journal"
    /\ pending' = TRUE
    /\ plan' = IF pending THEN plan ELSE Given
    /\ bound' = {} /\ applied' = FALSE
    /\ Goto("sync")
    /\ UNCHANGED <<things, record, routed, reviewed, destroyed, infra, requests, faults>>

SyncRoutes ==
    /\ op = "sync"
    /\ routed' = applied
    /\ op' = "delete" /\ todo' = Listed /\ cur' = {}
    /\ UNCHANGED <<things, state, reviewed, destroyed, infra, requests, faults>>

(* Mutant: the loop takes the resources in any order. *)
IsNext_AnyOrder(r) == r \in todo
IsNext(r) == r \in todo /\ \A q \in todo : Rank(r) <= Rank(q)

(* Purges in another mode than PurgeStack's do not begin here.             *)
Began(r) == [d \in Database |-> IF d = r THEN "begun" ELSE stage[d]]

(* Mutants of Inspect: any incarnation will do; absence is an error. *)
Inspect_AnyIdentity(r) ==
    /\ op = "delete" /\ IsNext(r)
    /\ IF Exists(r)
       THEN op' = "rm" /\ todo' = todo /\ cur' = {<<r, inc[r]>>}
       ELSE op' = op /\ todo' = todo \ {r} /\ cur' = {}
    /\ stage' = Began(r)
    /\ UNCHANGED <<inc, born, engine, state, routed, reviewed, destroyed, infra, requests, faults>>
Inspect_AbsentFails(r) ==
    /\ op = "delete" /\ IsNext(r)
    /\ IF inc[r] = Given[r]
       THEN op' = "rm" /\ todo' = todo /\ cur' = {<<r, inc[r]>>} /\ UNCHANGED reviewed
       ELSE EndWork
    /\ stage' = IF inc[r] = Given[r] THEN Began(r) ELSE stage
    /\ UNCHANGED <<inc, born, engine, state, routed, destroyed, infra, requests, faults>>

(* deleteStackResource: absent is fine, a replacement is refused, and so   *)
(* is a database that cannot be purged, or whose absence cannot be         *)
(* verified.  PurgeDatabase saves that its purge has begun.                *)
Inspect(r) ==
    /\ op = "delete" /\ IsNext(r)
    /\ \/ /\ ~Exists(r) /\ ~Unable(r)
          /\ op' = op /\ todo' = todo \ {r} /\ cur' = {} /\ UNCHANGED <<stage, reviewed>>
       \/ /\ Exists(r) /\ inc[r] = Given[r] /\ ~Unable(r)
          /\ op' = "rm" /\ todo' = todo /\ cur' = {<<r, inc[r]>>} /\ stage' = Began(r)
          /\ UNCHANGED reviewed
       \/ /\ Unable(r) \/ (Exists(r) /\ inc[r] # Given[r])
          /\ EndWork /\ UNCHANGED stage
    /\ UNCHANGED <<inc, born, engine, state, routed, destroyed, infra, requests, faults>>

(* The command; PurgeDatabase drops data, account and record.              *)
Destroy(x) ==
    /\ op = "rm" /\ x \in cur /\ Exists(x[1]) /\ ~Unable(x[1])
    /\ inc' = [inc EXCEPT ![x[1]] = 0]
    /\ stage' = [d \in Database |-> IF d = x[1] THEN "ready" ELSE stage[d]]
    /\ destroyed' = destroyed \cup {<<x[1], inc[x[1]], x[2]>>}

Remove ==
    /\ \E x \in cur : Destroy(x)
    /\ Goto("check")
    /\ UNCHANGED <<born, engine, state, routed, reviewed, infra, requests, faults>>

(* The resource went, or its engine stopped, between the inspection and    *)
(* the command.                                                            *)
RemoveMisses ==
    /\ op = "rm" /\ \E x \in cur : ~Exists(x[1]) \/ Unable(x[1])
    /\ EndWork
    /\ UNCHANGED <<things, state, routed, destroyed, infra, requests, faults>>

(* verifyStackResourceAbsent; a file is not looked up again here. *)
Check ==
    /\ op = "check"
    /\ \E x \in cur :
          IF ~Exists(x[1]) \/ x[1] \in File
          THEN op' = "delete" /\ todo' = todo \ {x[1]} /\ cur' = {} /\ UNCHANGED reviewed
          ELSE EndWork
    /\ UNCHANGED <<things, state, routed, destroyed, infra, requests, faults>>

(* A fresh inventory of Docker must be empty. *)
Remaining ==
    /\ op = "delete" /\ todo = {}
    /\ IF \A r \in Container \cup Volume : inc[r] = 0
       THEN op' = "verify" /\ todo' = Listed /\ cur' = {} /\ UNCHANGED reviewed
       ELSE EndWork
    /\ UNCHANGED <<things, state, routed, destroyed, infra, requests, faults>>

(* Then every listed resource is looked up once more; that a database left *)
(* nothing is asked of its engine.                                         *)
Verify(r) ==
    /\ op = "verify" /\ r \in todo
    /\ IF ~Exists(r) /\ ~Unable(r)
       THEN op' = op /\ todo' = todo \ {r} /\ UNCHANGED <<cur, reviewed>>
       ELSE EndWork
    /\ UNCHANGED <<things, state, routed, destroyed, infra, requests, faults>>

Verified ==
    /\ op = "verify" /\ todo = {}
    /\ Goto("final")
    /\ UNCHANGED <<things, state, routed, reviewed, destroyed, infra, requests, faults>>

(* The last commit drops the stack and its plan. *)
Final ==
    /\ op = "final" /\ bound = {}
    /\ record' = FALSE /\ pending' = FALSE
    /\ EndWork
    /\ UNCHANGED <<things, plan, bound, applied, routed, destroyed, infra, requests,
                   faults>>

(* Docker, the disk or the context fails: the operation ends, the plan     *)
(* stays.  The command may have had its effect.                            *)
Fail ==
    /\ op # "idle" /\ faults < MaxFaults
    /\ faults' = faults + 1
    /\ (UNCHANGED <<inc, stage, destroyed>> \/ \E x \in cur : Destroy(x))
    /\ EndWork
    /\ UNCHANGED <<born, engine, state, routed, infra, requests>>

(* The agent dies: catalog, file and Docker stay; so does the client. *)
Crash ==
    /\ faults < MaxFaults
    /\ faults' = faults + 1
    /\ op' = "idle" /\ todo' = {} /\ cur' = {} /\ infra' = FALSE
    /\ UNCHANGED <<things, state, routed, reviewed, destroyed, requests>>
--------------------------------------------------------------------------------
(* The rest of the service, and Docker's other users. *)

(* An operation starts the application: Store.Stack refuses a pending purge. *)
Up ==
    /\ op = "idle" /\ record /\ ~pending
    /\ \E r \in Resource \ Database :
          /\ inc[r] = 0 /\ born[r] < MaxBorn
          /\ inc' = [inc EXCEPT ![r] = born[r] + 1]
          /\ born' = [born EXCEPT ![r] = @ + 1]
    /\ applied' = TRUE /\ routed' = TRUE
    /\ UNCHANGED <<stage, engine, record, pending, plan, bound, reviewed, work, destroyed,
                   infra, requests, faults>>

(* Bind, to a database that the catalog lists as ready, and Unbind; the    *)
(* catalog knows nothing of what an administrator alters.                  *)
Bind(d) ==
    /\ op = "idle" /\ record /\ ~pending /\ inc[d] # 0
    /\ \/ /\ stage[d] \in {"ready", "altered"} /\ engine # "archived"
          /\ bound' = bound \cup {d}
       \/ bound' = bound \ {d}
    /\ UNCHANGED <<things, record, pending, plan, applied, routed, reviewed, work,
                   destroyed, infra, requests, faults>>

(* Someone else deletes a resource, or creates another in its place.       *)
Vanish(r) ==
    /\ inc[r] # 0
    /\ inc' = [inc EXCEPT ![r] = 0]
    /\ UNCHANGED <<born, stage, engine, state, routed, reviewed, work, destroyed, infra,
                   requests, faults>>

Replace(r) ==
    /\ born[r] < MaxBorn
    /\ inc' = [inc EXCEPT ![r] = born[r] + 1]
    /\ born' = [born EXCEPT ![r] = @ + 1]
    /\ UNCHANGED <<stage, engine, state, routed, reviewed, work, destroyed, infra, requests,
                   faults>>

(* An administrator drops a database, or its account, under its record, or *)
(* makes one of its name; or undoes that.  (Not while a purge of it has    *)
(* stopped halfway: see Databases.)                                        *)
Alter(d) ==
    /\ engine = "running" /\ stage[d] \in {"ready", "altered"}
    /\ stage' = [stage EXCEPT ![d] = IF @ = "ready" THEN "altered" ELSE "ready"]
    /\ UNCHANGED <<inc, born, engine, state, routed, reviewed, work, destroyed, infra,
                   requests, faults>>

(* The engine starts or stops: by Docker's users, or by InfraAction, which *)
(* admits "start" and "stop" with a plan pending.                          *)
Switch ==
    /\ engine # "archived"
    /\ engine' = IF engine = "running" THEN "stopped" ELSE "running"
    /\ UNCHANGED <<inc, born, stage, state, routed, reviewed, work, destroyed, infra,
                   requests, faults>>

(* InfraAction tests stackPurges before it takes Service.mutation ... *)
InfraCheck ==
    /\ ~pending /\ ~infra /\ requests < MaxInfra
    /\ infra' = TRUE /\ requests' = requests + 1
    /\ UNCHANGED <<things, state, routed, reviewed, work, destroyed, faults>>

(* purge-database, of a database that nothing is bound to: to the end, or  *)
(* halfway in the mode it was asked for.                                   *)
InfraPurge(d) ==
    /\ inc[d] # 0 /\ d \notin bound /\ engine = "running"
    /\ \/ /\ stage[d] \in {"ready", "begun", "halfway"}
          /\ inc' = [inc EXCEPT ![d] = 0] /\ stage' = [stage EXCEPT ![d] = "ready"]
       \/ /\ stage[d] = "ready" /\ UNCHANGED inc
          /\ \E s \in {"begun", "halfway"} : stage' = [stage EXCEPT ![d] = s]
    /\ UNCHANGED <<born, engine>>

(* database: starts the engine and creates it, to the end or halfway; goes *)
(* on with one that has stopped halfway.                                   *)
InfraCreate(d) ==
    /\ engine # "archived" /\ engine' = "running"
    /\ \/ /\ inc[d] = 0 /\ stage[d] = "ready" /\ born[d] < MaxBorn
          /\ inc' = [inc EXCEPT ![d] = born[d] + 1]
          /\ born' = [born EXCEPT ![d] = @ + 1]
          /\ \E s \in {"ready", "halfway"} : stage' = [stage EXCEPT ![d] = s]
       \/ /\ inc[d] # 0 /\ stage[d] = "halfway"
          /\ stage' = [stage EXCEPT ![d] = "ready"] /\ UNCHANGED <<inc, born>>

(* archive-database, of one that nothing is bound to, and restore-database:*)
(* the record only, whatever has become of the data.                       *)
InfraArchive(d) ==
    /\ inc[d] # 0 /\ engine # "archived"
    /\ \/ /\ d \notin bound /\ stage[d] \in {"ready", "altered"}
          /\ stage' = [stage EXCEPT ![d] = "archived"]
       \/ /\ stage[d] = "archived"
          /\ \E s \in {"ready", "altered"} : stage' = [stage EXCEPT ![d] = s]
    /\ UNCHANGED <<inc, born, engine>>

(* archive-instance, stopped and without bindings or databases archived on *)
(* their own, and restore-instance.                                        *)
InfraInstance ==
    /\ \/ /\ engine = "stopped" /\ bound = {} /\ \A d \in Database : stage[d] # "archived"
          /\ engine' = "archived"
       \/ engine = "archived" /\ engine' \in {"running", "stopped"}
    /\ UNCHANGED <<inc, born, stage>>

(* ... and the work runs once no operation is active; whatever the request *)
(* is, it may also fail.                                                   *)
InfraRun ==
    /\ infra /\ op = "idle"
    /\ infra' = FALSE
    /\ \/ UNCHANGED things
       \/ \E d \in Database : InfraPurge(d) \/ InfraCreate(d) \/ InfraArchive(d)
       \/ InfraInstance
    /\ UNCHANGED <<state, routed, reviewed, work, destroyed, requests, faults>>

Purge ==
    \/ Confirm \/ Refuse \/ Journal \/ SyncRoutes
    \/ \E r \in Resource : Inspect(r) \/ Verify(r)
    \/ Remove \/ RemoveMisses \/ Check \/ Remaining \/ Verified \/ Final

(* Nothing is left of the application. *)
Purged == ~record /\ UNCHANGED vars

Next ==
    \/ Review \/ Dismiss \/ Submit \/ Purge \/ Fail \/ Crash
    \/ Up \/ \E d \in Database : Bind(d) \/ Alter(d)
    \/ \E r \in Resource \ Database : Vanish(r) \/ Replace(r)
    \/ Switch \/ InfraCheck \/ InfraRun
    \/ Purged

Spec == Init /\ [][Next]_vars

(* The operation runs to its end; while a plan is pending the client keeps *)
(* reviewing and retrying ("exposes Reintentar eliminacion").              *)
Fairness == WF_vars(Purge) /\ WF_vars(pending /\ Review) /\ SF_vars(pending /\ Submit)
FairSpec == Spec /\ Fairness
--------------------------------------------------------------------------------
Steps == {"idle", "submitted", "journal", "sync", "delete", "rm", "check", "verify", "final"}

Incarnations == [Resource -> 0 .. MaxBorn]
Reviews == [plan : Incarnations, blockers : SUBSET Resource, retry : BOOLEAN,
            bound : SUBSET Database, applied : BOOLEAN, preserved : SUBSET Database]

TypeOK ==
    /\ inc \in Incarnations /\ born \in Incarnations /\ plan \in Incarnations
    /\ stage \in [Database -> Stages] /\ engine \in {"running", "stopped", "archived"}
    /\ record \in BOOLEAN /\ pending \in BOOLEAN
    /\ bound \subseteq Database /\ applied \in BOOLEAN /\ routed \in BOOLEAN
    /\ reviewed \subseteq Reviews /\ op \in Steps
    /\ todo \subseteq Resource /\ cur \subseteq Resource \X (1 .. MaxBorn)
    /\ \A x, y \in cur : x = y
    /\ (cur # {}) <=> (op \in {"rm", "check"})
    /\ destroyed \subseteq Resource \X (1 .. MaxBorn) \X (1 .. MaxBorn)
    /\ infra \in BOOLEAN /\ requests \in 0 .. MaxInfra /\ faults \in 0 .. MaxFaults

(* Across failures, deaths and retries only what the first review listed   *)
(* is removed ("It skips resources already absent and refuses replacements *)
(* or newly discovered" ones).  What Docker addresses by name may still be *)
(* replaced between its inspection, which found the reviewed one, and the  *)
(* command.                                                                *)
OnlyReviewed ==
    \A x \in destroyed : x[3] = plan[x[1]] /\ (x[2] = plan[x[1]] \/ x[1] \in Named)

(* When the record is gone so is every resource that was reviewed: a purge *)
(* that could not remove or verify one keeps the record and the plan.      *)
GoneIsComplete == ~record => bound = {} /\ \A r \in Resource : plan[r] # 0 => inc[r] # plan[r]

(* Nothing is removed before the plan is saved and the routes withdrawn:   *)
(* after a crash the retry finds what was reviewed.                        *)
PlanFirst == destroyed # {} => ~record \/ (pending /\ ~routed /\ ~applied)

(* A database or a volume goes only after the containers that use it.      *)
ConsumersFirst ==
    [][\A x \in destroyed' \ destroyed : x[1] \in Data =>
         \A c \in Container : plan[c] = 0 \/ inc[c] # plan[c]]_vars

(* The operation with its reviews, loops and retries, and whatever Docker's *)
(* other users do meanwhile, is one deletion as the owner sees it: one     *)
(* commit of a plan, removals from it in order, one last commit.           *)
Phase == IF ~record THEN "gone" ELSE IF pending THEN "pending" ELSE "live"
Left == IF Phase = "live" THEN {} ELSE {r \in Resource : plan[r] # 0 /\ inc[r] = plan[r]}
Taken == {<<x[1], x[3]>> : x \in destroyed}

Deleted == INSTANCE Deletion
    WITH Item <- Resource, Consumer <- Container, phase <- Phase, left <- Left, taken <- Taken

ImplementsDeletion == Deleted!Spec

(* What keeps an attempt from ending well: a resource that is new or took  *)
(* the place of one of the plan, or a database of the plan that cannot be  *)
(* purged or whose absence cannot be verified.                             *)
Obstructed ==
    \/ \E r \in Resource : Inventory[r] \notin {0, plan[r]}
    \/ \E d \in Database : plan[d] # 0 /\ Unable(d)

(* A pending purge ends, unless something obstructs it again and again: no *)
(* failure or death at any step makes by itself the plan impossible to     *)
(* finish.  An obstruction may last: after an archive or half a purge by   *)
(* InfraRun every request that would undo it is refused with STACK_PURGING *)
(* while the plan is pending, and the plan is pending until it is undone.  *)
PurgeFinishes == pending ~> (~record \/ Obstructed)

(* "Infrastructure mutations that could invalidate a pending plan are      *)
(* blocked" (docs/APPLICATION_DELETION.md): the test is made before the    *)
(* lock and never again.                                                   *)
InfraBlocked == [][infra /\ ~infra' /\ op = "idle" => ~pending]_vars
================================================================================
