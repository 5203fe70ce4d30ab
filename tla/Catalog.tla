------------------------------- MODULE Catalog -------------------------------
(***************************************************************************)
(* The service's handlers over the catalog (service.go,                    *)
(* service_lifecycle.go), the work of Action, Bind and Unbind, the         *)
(* registry's claims as they see them, the watches (streams.go) and the    *)
(* route file that the proxy reads (SyncRoutes, proxy.go).                 *)
(*                                                                         *)
(* A process is one HTTP request or one operation.  One action is what the *)
(* code does between two points where another goroutine may run: a read of *)
(* the catalog, a commit (Store.Update), an observation of Docker, a step  *)
(* under Proxy.mu.  Service.mutation is held over several actions only     *)
(* where the code keeps it over a commit and the SyncRoutes after it, or   *)
(* over an observation and the commit after it.                            *)
(***************************************************************************)
EXTENDS Naturals, FiniteSets

CONSTANTS
    Proc,       \* requests and operations in flight
    App,        \* registrations: the uids handed out by Normalize
    Group, Root,
    Config,     \* what an edit may change: modes, Compose files, routes
    Mode,       \* "dev" and "verify"
    Kind,       \* bound: the requests that clients make in this instance
    SlugOf,     \* SlugOf[a], ProjectOf[a]: the immutable identity of a
    ProjectOf,
    RootsOf,    \* RootsOf[a]: the roots that contain its checkout
    MaxCrashes, \* bound: times the agent dies
    None

ASSUME CrashAssumption == MaxCrashes \in Nat

VARIABLES
    place,      \* place[a]: "none", "active", "archived" or "removed"
    rec,        \* rec[a]: the stack record, in stacks or in its snapshot
    bindings,   \* infra.bindings, as pairs <<stackUid, mode>>
    kept,       \* the bindings inside the snapshots of archivedStacks
    groups, roots,
    pr,         \* pr[p]: the local state of process p
    mutation,   \* holder of Service.mutation: {} or {p}
    routing,    \* holder of Proxy.mu
    pending,    \* routes read by the holder of Proxy.mu
    file,       \* the routes in the dynamic file of Traefik
    torn,       \* a commit's SyncRoutes failed or died with the agent
    running,    \* applications with running containers
    outlived,   \* applications whose Compose command survived the agent
    unseen,     \* history: what a watch started after an observation of Docker
    watches,    \* Service.watches: the entries, at most one for an id
    followed,   \* the entries whose docker compose watch runs
    crashes

catalog == <<place, rec, bindings, kept, groups, roots>>
routes  == <<routing, pending, file, torn>>
docker  == <<running, outlived, unseen, watches, followed>>
vars == <<place, rec, bindings, kept, groups, roots, pr, mutation, routing, pending,
          file, torn, running, outlived, unseen, watches, followed, crashes>>

Trusted == {ProjectOf[a] : a \in App} \X Mode \X Config \X BOOLEAN
Stack == [group : Group \cup {None}, config : Config \cup {None},
          trust : SUBSET Trusted, mode : Mode \cup {None},
          applied : SUBSET (Mode \X Config)]

(* What Normalize returns for a new registration. *)
NewStack(g, c) ==
    [group |-> g, config |-> c, trust |-> {}, mode |-> None, applied |-> {}]

Blank == [at |-> "idle", op |-> None, id |-> None, app |-> None, group |-> None,
          root |-> None, config |-> None, mode |-> None, seen |-> None, links |-> {},
          ids |-> {}, todo |-> {}, watch |-> None, next |-> None]

(* An operation holds its claim from Submit to its end. *)
IsJob(p) == pr[p].op \in {"up", "stop", "restart", "bind", "unbind", "watch", "configure"}
Holds(p) == IsJob(p) /\ pr[p].at \notin {"idle", "select"}
IsGlobal(op) == op \in {"bind", "unbind", "configure"}
--------------------------------------------------------------------------------
(* Reading the catalog. *)

Id(a) == <<rec[a].group, SlugOf[a]>>

(* Mutant: an archived application reserves nothing. *)
AllStacks_Active == {a \in App : place[a] = "active"}
AllStacks == {a \in App : place[a] \in {"active", "archived"}}

(* Store.Stack and editStack: the active application with that id. *)
Lookup(id) == {a \in App : place[a] = "active" /\ Id(a) = id}

LinksOf(a) == {m \in Mode : <<a, m>> \in bindings}
Links(a, ms) == {a} \X ms

(* The part of Compose.Resolve's fingerprint that the catalog determines. *)
Fingerprint(a, c, m) == <<ProjectOf[a], m, c, m \in LinksOf(a)>>

(* canonical: the checkout is inside an authorized root. *)
InRoots(a) == RootsOf[a] \cap roots # {}

(* Docker.Containers filtered by project: nothing of a's project runs. *)
Stopped(a) == \A b \in running : ProjectOf[b] # ProjectOf[a]

(* dynamicConfig over the active stacks. *)
Wanted == UNION {Links(a, rec[a].applied) : a \in {b \in App : place[b] = "active"}}

(* The entry of an id, and HasWatch's question. *)
Watched(id) == {e \in watches : e.id = id}
(* Mutant: the caller goes on while the watch does. *)
Unwatched_Ignored(p) == TRUE
Unwatched(p) == Watched(pr[p].id) = {}

(* Operations.Busy: with no ids, any active operation is incompatible. *)
Busy(ids) ==
    \E q \in Proc : Holds(q) /\ (ids = {} \/ IsGlobal(pr[q].op) \/ ids \cap pr[q].ids # {})
--------------------------------------------------------------------------------
(* The agent opens a catalog without applications, whose roots an earlier  *)
(* agent may have added.                                                   *)
Init ==
    /\ place = [a \in App |-> "none"]
    /\ rec = [a \in App |-> NewStack(None, None)]
    /\ bindings = {} /\ kept = {}
    /\ groups = {} /\ roots \in SUBSET Root
    /\ pr = [p \in Proc |-> Blank]
    /\ mutation = {} /\ routing = {}
    /\ pending = {} /\ file = {} /\ torn = FALSE
    /\ running = {} /\ outlived = {} /\ unseen = {}
    /\ watches = {} /\ followed = {}
    /\ crashes = 0

(* A request of kind k arrives and becomes s after its first step. *)
Begin(p, k, s) ==
    /\ pr[p].at = "idle" /\ k \in Kind
    /\ pr' = [pr EXCEPT ![p] = [s EXCEPT !.op = k]]

Become(p, s) == pr' = [pr EXCEPT ![p] = s]
Free == mutation = {}

(* The commit is followed by SyncRoutes, still under Service.mutation. *)
ThenSync(p) ==
    /\ Become(p, [Blank EXCEPT !.at = "sync", !.op = pr[p].op, !.next = "done"])
    /\ mutation' = mutation \cup {p}
    /\ UNCHANGED <<routes, docker, crashes>>

(* The commit was the last effect of the request. *)
ThenDone(p) ==
    /\ Become(p, Blank)
    /\ UNCHANGED <<mutation, routes, docker, crashes>>

OnlyReads == UNCHANGED <<catalog, mutation, routes, docker, crashes>>

(* An error before the commit: conflict, missing or changed record, refused *)
(* write, cancelled request.  Nothing was changed.                         *)
Abandon(p) ==
    /\ pr[p].at \in {"register", "edit", "remove", "review", "archive", "restore",
                     "deletegroup", "removeroot", "trust", "select"}
    /\ Become(p, Blank)
    /\ mutation' = mutation \ {p}
    /\ UNCHANGED <<catalog, routes, docker, crashes>>
--------------------------------------------------------------------------------
(* Register. *)

(* Normalize, before the lock; the uid is new. *)
RegisterRead(p, a, g, c) ==
    /\ place[a] = "none" /\ \A q \in Proc : pr[q].app # a
    /\ InRoots(a)
    /\ Begin(p, "register", [Blank EXCEPT !.at = "register", !.app = a, !.group = g,
                                          !.config = c])
    /\ OnlyReads

RegisterCommit(p) ==
    LET a == pr[p].app
        id == <<pr[p].group, SlugOf[a]>>
    IN  /\ pr[p].at = "register" /\ Free /\ ~Busy({id})
        /\ \A b \in AllStacks : Id(b) # id /\ ProjectOf[b] # ProjectOf[a]
        /\ place' = [place EXCEPT ![a] = "active"]
        /\ rec' = [rec EXCEPT ![a] = NewStack(pr[p].group, pr[p].config)]
        /\ groups' = groups \cup {pr[p].group}
        /\ UNCHANGED <<bindings, kept, roots>>
        /\ ThenDone(p)
--------------------------------------------------------------------------------
(* StopWatch, of a client, of the handlers that hold the lock and of the   *)
(* operations: take the entry and cancel it, wait for its end, delete it.  *)

StopWatch(p, id) ==
    /\ \E e \in Watched(id) :
          Become(p, [pr[p] EXCEPT !.at = "stopping", !.watch = e, !.next = pr[p].at])
    /\ UNCHANGED <<catalog, routes, docker, crashes>>

HandlerStopsWatch(p) ==
    /\ pr[p].at \in {"remove", "archive", "up"}
    /\ StopWatch(p, pr[p].id) /\ UNCHANGED mutation

ClientStopsWatch(p, e) ==
    /\ Begin(p, "unwatch", [Blank EXCEPT !.at = "stopping", !.watch = e, !.next = "done"])
    /\ OnlyReads

(* Only the entry that was taken: another may have its id by now. *)
(* Mutant: whatever the id has now. *)
Unlisted_ById(e) == watches \ Watched(e.id)
Unlisted(e) == watches \ {e}

StopReturns(p) ==
    /\ pr[p].at = "stopping" /\ pr[p].watch \notin followed
    /\ watches' = Unlisted(pr[p].watch)
    /\ Become(p, IF pr[p].next = "done" THEN Blank
                 ELSE [pr[p] EXCEPT !.at = pr[p].next, !.watch = None, !.next = None])
    /\ UNCHANGED <<catalog, mutation, routes, running, outlived, unseen, followed, crashes>>
--------------------------------------------------------------------------------
(* Edit. *)

EditRead(p, a, g, c) ==
    /\ place[a] = "active" /\ InRoots(a)
    /\ Begin(p, "edit", [Blank EXCEPT !.at = "edit", !.id = Id(a), !.app = a,
                                      !.group = g, !.config = c, !.seen = rec[a]])
    /\ OnlyReads

(* Mutant: the routes applied before the edit stay. *)
Edited_KeepsRoutes(r, g, c) ==
    [r EXCEPT !.group = g, !.config = c, !.trust = IF c = r.config THEN @ ELSE {}]

Edited(r, g, c) ==
    [r EXCEPT !.group = g, !.config = c,
              !.trust = IF c = r.config THEN @ ELSE {},
              !.applied = IF c = r.config THEN @ ELSE {}]

(* Mutant: an operation on the application does not hold the edit back. *)
EditCommit_NotIdle(p) ==
    LET a == pr[p].app
    IN  /\ pr[p].at = "edit" /\ Free
        /\ a \in Lookup(pr[p].id) /\ rec[a] = pr[p].seen
        /\ rec' = [rec EXCEPT ![a] = Edited(@, pr[p].group, pr[p].config)]
        /\ groups' = groups \cup {pr[p].group}
        /\ UNCHANGED <<place, bindings, kept, roots>>
        /\ ThenSync(p)

(* Under the lock, which a wait for the watch to end keeps. *)
EditIdle(p) ==
    /\ pr[p].at = "edit" /\ mutation \subseteq {p}
    /\ ~Busy({pr[p].id, <<pr[p].group, SlugOf[pr[p].app]>>})

EditStopWatch(p) == EditIdle(p) /\ StopWatch(p, pr[p].id) /\ mutation' = mutation \cup {p}

EditCommit(p) ==
    LET a == pr[p].app
        id == <<pr[p].group, SlugOf[a]>>
    IN  /\ EditIdle(p) /\ Unwatched(p)
        /\ \A b \in AllStacks : Id(b) = id => Id(b) = pr[p].id
        /\ a \in Lookup(pr[p].id) /\ rec[a] = pr[p].seen
        /\ rec' = [rec EXCEPT ![a] = Edited(@, pr[p].group, pr[p].config)]
        /\ groups' = groups \cup {pr[p].group}
        /\ UNCHANGED <<place, bindings, kept, roots>>
        /\ ThenSync(p)
--------------------------------------------------------------------------------
(* Remove. *)

(* Mutant: Docker is observed while an operation works on it. *)
RemoveObserve_NotIdle(p, a) ==
    /\ Free /\ place[a] = "active"
    /\ Stopped(a) /\ LinksOf(a) = {}
    /\ Begin(p, "remove", [Blank EXCEPT !.at = "remove", !.id = Id(a), !.app = a])
    /\ mutation' = mutation \cup {p}
    /\ UNCHANGED <<catalog, routes, docker, crashes>>

(* Under the lock: no operation on it, nothing of its project runs. *)
RemoveObserve(p, a) ==
    /\ Free /\ place[a] = "active"
    /\ ~Busy({Id(a)})
    /\ Stopped(a) /\ LinksOf(a) = {}
    /\ Begin(p, "remove", [Blank EXCEPT !.at = "remove", !.id = Id(a), !.app = a])
    /\ mutation' = mutation \cup {p}
    /\ UNCHANGED <<catalog, routes, docker, crashes>>

(* Mutant: the routes of the application that leaves are not withdrawn. *)
RemoveCommit_NoSync(p) ==
    /\ pr[p].at = "remove"
    /\ ~Busy({pr[p].id})
    /\ LinksOf(pr[p].app) = {}
    /\ place' = [a \in App |-> IF a \in Lookup(pr[p].id) THEN "removed" ELSE place[a]]
    /\ UNCHANGED <<rec, bindings, kept, groups, roots>>
    /\ Become(p, Blank)
    /\ mutation' = mutation \ {p}
    /\ UNCHANGED <<routes, docker, crashes>>

RemoveCommit(p) ==
    /\ pr[p].at = "remove" /\ Unwatched(p)
    /\ ~Busy({pr[p].id})
    /\ LinksOf(pr[p].app) = {}
    /\ place' = [a \in App |-> IF a \in Lookup(pr[p].id) THEN "removed" ELSE place[a]]
    /\ UNCHANGED <<rec, bindings, kept, groups, roots>>
    /\ ThenSync(p)
--------------------------------------------------------------------------------
(* ArchiveStack and RestoreStack. *)

(* The review that the client confirms with its fingerprint. *)
ArchiveReview(p, a) ==
    /\ place[a] = "active" /\ Stopped(a)
    /\ Begin(p, "archive", [Blank EXCEPT !.at = "review", !.id = Id(a), !.app = a,
                                         !.seen = rec[a], !.links = LinksOf(a)])
    /\ OnlyReads

(* Mutant: the wait for operations on it is missing. *)
ArchiveObserve_NotIdle(p) ==
    LET a == pr[p].app
    IN  /\ pr[p].at = "review" /\ Free
        /\ a \in Lookup(pr[p].id) /\ Stopped(a)
        /\ rec[a] = pr[p].seen /\ LinksOf(a) = pr[p].links
        /\ Become(p, [pr[p] EXCEPT !.at = "archive"])
        /\ mutation' = mutation \cup {p}
        /\ UNCHANGED <<catalog, routes, docker, crashes>>

(* Under the lock: observe Docker again and compare with the review. *)
ArchiveObserve(p) ==
    LET a == pr[p].app
    IN  /\ pr[p].at = "review" /\ Free /\ ~Busy({pr[p].id})
        /\ a \in Lookup(pr[p].id) /\ Stopped(a)
        /\ rec[a] = pr[p].seen /\ LinksOf(a) = pr[p].links
        /\ Become(p, [pr[p] EXCEPT !.at = "archive"])
        /\ mutation' = mutation \cup {p}
        /\ UNCHANGED <<catalog, routes, docker, crashes>>

(* Mutant: the snapshot does not take the bindings along. *)
ArchiveCommit_DropsBindings(p) ==
    LET a == pr[p].app
    IN  /\ pr[p].at = "archive"
        /\ place[a] = "active"
        /\ rec[a] = pr[p].seen /\ LinksOf(a) = pr[p].links
        /\ place' = [place EXCEPT ![a] = "archived"]
        /\ bindings' = bindings \ Links(a, Mode)
        /\ UNCHANGED <<rec, kept, groups, roots>>
        /\ ThenSync(p)

ArchiveCommit(p) ==
    LET a == pr[p].app
    IN  /\ pr[p].at = "archive" /\ Unwatched(p)
        /\ place[a] = "active"
        /\ rec[a] = pr[p].seen /\ LinksOf(a) = pr[p].links
        /\ place' = [place EXCEPT ![a] = "archived"]
        /\ kept' = kept \cup Links(a, LinksOf(a))
        /\ bindings' = bindings \ Links(a, Mode)
        /\ UNCHANGED <<rec, groups, roots>>
        /\ ThenSync(p)

RestoreRead(p, a) ==
    /\ place[a] = "archived"
    /\ Begin(p, "restore", [Blank EXCEPT !.at = "restore", !.id = Id(a), !.app = a,
                                         !.seen = rec[a]])
    /\ OnlyReads

RestoreCommit(p) ==
    LET a == pr[p].app
    IN  /\ pr[p].at = "restore" /\ Free /\ ~Busy({pr[p].id})
        /\ place[a] = "archived" /\ rec[a] = pr[p].seen
        /\ place' = [place EXCEPT ![a] = "active"]
        /\ bindings' = bindings \cup (kept \cap Links(a, Mode))
        /\ kept' = kept \ Links(a, Mode)
        /\ UNCHANGED <<rec, groups, roots>>
        /\ ThenSync(p)
--------------------------------------------------------------------------------
(* Groups and roots: they exclude every operation (Idle with no ids). *)

CreateGroup(p, g) ==
    /\ Free /\ ~Busy({}) /\ g \notin groups
    /\ pr[p].at = "idle" /\ "group" \in Kind
    /\ groups' = groups \cup {g}
    /\ UNCHANGED <<place, rec, bindings, kept, roots>>
    /\ ThenDone(p)

IsEmpty(g) == \A a \in AllStacks : rec[a].group # g

DeleteGroupRead(p, g) ==
    /\ g \in groups /\ IsEmpty(g)
    /\ Begin(p, "deletegroup", [Blank EXCEPT !.at = "deletegroup", !.group = g])
    /\ OnlyReads

(* Mutant: the group is not looked at again under the lock. *)
DeleteGroupCommit_Stale(p) ==
    /\ pr[p].at = "deletegroup" /\ Free /\ ~Busy({})
    /\ groups' = groups \ {pr[p].group}
    /\ UNCHANGED <<place, rec, bindings, kept, roots>>
    /\ ThenDone(p)

DeleteGroupCommit(p) ==
    /\ pr[p].at = "deletegroup" /\ Free /\ ~Busy({})
    /\ IsEmpty(pr[p].group)
    /\ groups' = groups \ {pr[p].group}
    /\ UNCHANGED <<place, rec, bindings, kept, roots>>
    /\ ThenDone(p)

AddRoot(p, r) ==
    /\ Free /\ ~Busy({}) /\ r \notin roots
    /\ pr[p].at = "idle" /\ "root" \in Kind
    /\ roots' = roots \cup {r}
    /\ UNCHANGED <<place, rec, bindings, kept, groups>>
    /\ ThenDone(p)

IsUnused(r) == \A a \in AllStacks : r \notin RootsOf[a]

RemoveRootRead(p, r) ==
    /\ r \in roots /\ IsUnused(r)
    /\ Begin(p, "removeroot", [Blank EXCEPT !.at = "removeroot", !.root = r])
    /\ OnlyReads

RemoveRootCommit(p) ==
    /\ pr[p].at = "removeroot" /\ Free /\ ~Busy({})
    /\ pr[p].root \in roots /\ IsUnused(pr[p].root)
    /\ roots' = roots \ {pr[p].root}
    /\ UNCHANGED <<place, rec, bindings, kept, groups>>
    /\ ThenDone(p)
--------------------------------------------------------------------------------
(* Trust: the fingerprint is computed before the lock and written by id. *)

TrustRead(p, a, m) ==
    /\ place[a] = "active" /\ InRoots(a)
    /\ Begin(p, "trust", [Blank EXCEPT !.at = "trust", !.id = Id(a), !.mode = m,
                              !.seen = Fingerprint(a, rec[a].config, m)])
    /\ OnlyReads

Approve(r, m, fingerprint) ==
    [r EXCEPT !.trust = {t \in @ : t[2] # m} \cup {fingerprint}]

TrustCommit(p) ==
    /\ pr[p].at = "trust" /\ Free /\ ~Busy({pr[p].id})
    /\ \E a \in Lookup(pr[p].id) :
          rec' = [rec EXCEPT ![a] = Approve(@, pr[p].mode, pr[p].seen)]
    /\ UNCHANGED <<place, bindings, kept, groups, roots>>
    /\ ThenDone(p)
--------------------------------------------------------------------------------
(* Action: Targets before the lock, Submit under it, the work without it. *)

Select(p, k, ids, m) ==
    /\ ids # {}
    /\ Begin(p, k, [Blank EXCEPT !.at = "select", !.ids = ids, !.mode = m])
    /\ OnlyReads

(* One application, or all the active applications of a group. *)
SelectAction(p, k, m) ==
    \/ \E a \in App : place[a] = "active" /\ Select(p, k, {Id(a)}, m)
    \/ \E g \in Group :
          Select(p, k, {Id(a) : a \in {b \in App : place[b] = "active" /\ rec[b].group = g}}, m)

(* InfraAction: a binding is removed by its own id, <<a, m>>. *)
SelectBinding(p, k, a, m) ==
    /\ k = "unbind" => <<a, m>> \in bindings
    /\ place[a] = "active"
    /\ Begin(p, k, [Blank EXCEPT !.at = "select", !.ids = {Id(a)}, !.mode = m,
                                 !.app = IF k = "unbind" THEN a ELSE None])
    /\ OnlyReads

(* Mutant: heavy builds do not exclude each other. *)
Submit_NoBuild(p) ==
    /\ pr[p].at = "select" /\ Free
    /\ ~Busy(IF IsGlobal(pr[p].op) THEN {} ELSE pr[p].ids)
    /\ Become(p, IF pr[p].op = "unbind"
                 THEN [pr[p] EXCEPT !.at = "bind"]
                 ELSE [pr[p] EXCEPT !.at = "job", !.todo = pr[p].ids])
    /\ OnlyReads

(* busyLocked: builds exclude each other, a global claim excludes all. *)
Submit(p) ==
    /\ pr[p].at = "select" /\ Free
    /\ ~Busy(IF IsGlobal(pr[p].op) THEN {} ELSE pr[p].ids)
    /\ pr[p].op = "up" => \A q \in Proc : Holds(q) => pr[q].op # "up"
    /\ Become(p, IF pr[p].op = "unbind"
                 THEN [pr[p] EXCEPT !.at = "bind"]
                 ELSE [pr[p] EXCEPT !.at = "job", !.todo = pr[p].ids])
    /\ OnlyReads

(* The operation goes on with its next target, or ends and releases. *)
NextTarget(p) ==
    Become(p, [Blank EXCEPT !.at = "job", !.op = pr[p].op, !.mode = pr[p].mode,
                            !.ids = pr[p].ids, !.todo = pr[p].todo \ {pr[p].id}])

JobEnd(p) ==
    /\ pr[p].at = "job" /\ pr[p].todo = {}
    /\ Become(p, Blank)
    /\ OnlyReads

(* actOne fails before it starts anything, and the loop goes on. *)
JobFail(p) ==
    /\ \/ pr[p].at \in {"approved", "mode", "reapprove", "apply", "bind", "watch", "follow"}
       \/ pr[p].at = "up" /\ Unwatched(p)
    /\ NextTarget(p)
    /\ OnlyReads

(* actOne and BindingPreview look the target up by id; it may be gone. *)
JobTake(p) ==
    /\ pr[p].at = "job"
    /\ \E id \in pr[p].todo :
          \/ /\ Lookup(id) = {}
             /\ Become(p, [pr[p] EXCEPT !.todo = @ \ {id}])
          \/ \E a \in Lookup(id) :
                Become(p, [pr[p] EXCEPT !.id = id, !.app = a,
                                        !.seen = IF pr[p].op = "up" THEN rec[a] ELSE None,
                                        !.at = IF pr[p].op = "bind" THEN "bind" ELSE "up"])
    /\ OnlyReads

(* Docker.Existing stops or starts again the containers it has.  An error  *)
(* that leaves some of them changed ends here too.                         *)
ExistingRun(p) ==
    /\ pr[p].at = "up" /\ pr[p].op \in {"stop", "restart"} /\ Unwatched(p)
    /\ running' = IF pr[p].op = "stop" THEN running \ {pr[p].app}
                                       ELSE running \cup {pr[p].app}
    /\ unseen' = unseen \cap running'
    /\ NextTarget(p)
    /\ UNCHANGED <<catalog, mutation, routes, outlived, watches, followed, crashes>>

(* Compose.Approved over the record st, with the bindings of this moment. *)
Approved(a, st, m) == InRoots(a) /\ Fingerprint(a, st.config, m) \in st.trust

UpApproved(p) ==
    /\ pr[p].at = "up" /\ pr[p].op = "up" /\ Unwatched(p)
    /\ Approved(pr[p].app, pr[p].seen, pr[p].mode)
    /\ Become(p, [pr[p] EXCEPT !.config = pr[p].seen.config, !.seen = None,
           !.at = IF \A t \in pr[p].seen.applied : t[1] = pr[p].mode
                  THEN "mode" ELSE "approved"])
    /\ OnlyReads

(* The routes of the other mode are withdrawn before its containers go. *)
UpClear(p) ==
    /\ pr[p].at = "approved"
    /\ \E a \in Lookup(pr[p].id) : rec' = [rec EXCEPT ![a].applied = {}]
    /\ Become(p, [pr[p] EXCEPT !.at = "sync", !.next = "mode"])
    /\ UNCHANGED <<place, bindings, kept, groups, roots, mutation, routes, docker,
                   crashes>>

UpMode(p) ==
    /\ pr[p].at = "mode"
    /\ \E a \in Lookup(pr[p].id) : rec' = [rec EXCEPT ![a].mode = pr[p].mode]
    /\ Become(p, [pr[p] EXCEPT !.at = "reapprove"])
    /\ UNCHANGED <<place, bindings, kept, groups, roots, mutation, routes, docker,
                   crashes>>

(* Read the record again; Compose.Execute approves it again. *)
UpReapprove(p) ==
    /\ pr[p].at = "reapprove"
    /\ \E a \in Lookup(pr[p].id) :
          /\ Approved(a, rec[a], pr[p].mode)
          /\ Become(p, [pr[p] EXCEPT !.at = "run", !.app = a])
    /\ OnlyReads

(* docker compose up; when it fails, what did start is still routed. *)
UpRun(p) ==
    /\ pr[p].at = "run"
    /\ \/ /\ running' = running \cup {pr[p].app}
          /\ Become(p, [pr[p] EXCEPT !.at = "apply"])
       \/ /\ UNCHANGED running
          /\ IF pr[p].app \in running
             THEN Become(p, [pr[p] EXCEPT !.at = "apply"]) ELSE NextTarget(p)
    /\ UNCHANGED <<catalog, mutation, routes, outlived, unseen, watches, followed, crashes>>

(* Proxy.Apply with the routes of the first approval. *)
UpApply(p) ==
    /\ pr[p].at = "apply"
    /\ \E a \in Lookup(pr[p].id) :
          rec' = [rec EXCEPT ![a].applied = {<<pr[p].mode, pr[p].config>>}]
    /\ Become(p, [pr[p] EXCEPT !.at = "sync", !.next = "job"])
    /\ UNCHANGED <<place, bindings, kept, groups, roots, mutation, routes, docker,
                   crashes>>
--------------------------------------------------------------------------------
(* Infrastructure.Bind and Unbind, the work of a global operation. *)

BindCommit(p) ==
    /\ pr[p].at = "bind" /\ pr[p].op = "bind"
    /\ bindings' = bindings \cup {<<pr[p].app, pr[p].mode>>}
    /\ \E a \in Lookup(pr[p].id) : rec' = [rec EXCEPT ![a].trust = {}]
    /\ NextTarget(p)
    /\ UNCHANGED <<place, kept, groups, roots, mutation, routes, docker, crashes>>

UnbindCommit(p) ==
    /\ pr[p].at = "bind" /\ pr[p].op = "unbind"
    /\ <<pr[p].app, pr[p].mode>> \in bindings
    /\ bindings' = bindings \ {<<pr[p].app, pr[p].mode>>}
    /\ rec' = [rec EXCEPT ![pr[p].app].trust = {}]
    /\ NextTarget(p)
    /\ UNCHANGED <<place, kept, groups, roots, mutation, routes, docker, crashes>>
--------------------------------------------------------------------------------
(* StartWatch: under the lock nothing works on it and no entry is left.    *)

StartWatch(p, id) ==
    /\ Free /\ ~Busy({id}) /\ Watched(id) = {}
    /\ Begin(p, "watch", [Blank EXCEPT !.at = "watch", !.id = id, !.ids = {id}, !.todo = {id}])
    /\ OnlyReads

(* The work of the operation reads the record and takes its time. *)
WatchRead(p) ==
    /\ pr[p].at = "watch"
    /\ \E a \in Lookup(pr[p].id) :
          /\ rec[a].mode = "dev"
          /\ Become(p, [pr[p] EXCEPT !.at = "follow", !.app = a, !.seen = rec[a]])
    /\ OnlyReads

(* An entry is a pointer: two watches of one id are two entries. *)
Entry(p) ==
    LET used == watches \cup followed \cup {pr[q].watch : q \in {r \in Proc : pr[r].watch # None}}
    IN  [id |-> pr[p].id, app |-> pr[p].app, config |-> pr[p].seen.config,
         ref |-> CHOOSE n \in 1 .. Cardinality(used) + 1 : \A e \in used : e.ref # n]

(* The entry is listed, its goroutine runs and the operation ends. *)
WatchBegin(p) ==
    /\ pr[p].at = "follow" /\ Approved(pr[p].app, pr[p].seen, "dev")
    /\ watches' = watches \cup {Entry(p)} /\ followed' = followed \cup {Entry(p)}
    /\ NextTarget(p)
    /\ UNCHANGED <<catalog, mutation, routes, running, outlived, unseen, crashes>>

(* Remove or ArchiveStack has observed Docker and not committed: it stops  *)
(* the watch of a only in between.                                         *)
Leaving(p, a) ==
    /\ pr[p].app = a
    /\ \/ pr[p].at \in {"remove", "archive"}
       \/ pr[p].at = "stopping" /\ pr[p].next \in {"remove", "archive"}

(* docker compose watch builds a service anew and starts its containers,   *)
(* whatever an operation or a handler does meanwhile.                      *)
WatchRebuilds(e) ==
    /\ running' = running \cup {e.app}
    /\ unseen' = IF \E p \in Proc : Leaving(p, e.app) THEN unseen \cup {e.app} ELSE unseen
    /\ UNCHANGED <<catalog, pr, mutation, routes, outlived, watches, followed, crashes>>

(* docker compose watch ends, by itself or because it was cancelled; its   *)
(* entry stays until somebody stops it.                                    *)
WatchEnds(e) ==
    /\ followed' = followed \ {e}
    /\ UNCHANGED <<catalog, pr, mutation, routes, running, outlived, unseen, watches,
                   crashes>>

(* RuntimeAction configure: the work stops every watch, then changes the   *)
(* virtual machine.  Mutant: the watches go on.                            *)
Configure_Watched(p) ==
    /\ pr[p].at = "quiet"
    /\ Become(p, [pr[p] EXCEPT !.at = "configure"])
    /\ OnlyReads

ConfigureSubmit(p) ==
    /\ Free /\ ~Busy({})
    /\ Begin(p, "configure", [Blank EXCEPT !.at = "quiet"])
    /\ OnlyReads

ConfigureStopsWatch(p) ==
    /\ pr[p].at = "quiet"
    /\ \E e \in watches : StopWatch(p, e.id)
    /\ UNCHANGED mutation

Configure(p) ==
    /\ pr[p].at = "quiet" /\ watches = {}
    /\ Become(p, [pr[p] EXCEPT !.at = "configure"])
    /\ OnlyReads

ConfigureEnds(p) ==
    /\ pr[p].at = "configure"
    /\ Become(p, Blank)
    /\ OnlyReads
--------------------------------------------------------------------------------
(* SyncRoutes: read the catalog and write the file under Proxy.mu. *)

SyncRead(p) ==
    /\ pr[p].at = "sync" /\ routing = {}
    /\ routing' = routing \cup {p}
    /\ pending' = Wanted
    /\ Become(p, [pr[p] EXCEPT !.at = "write"])
    /\ UNCHANGED <<catalog, mutation, file, torn, docker, crashes>>

(* SyncRoutes returns: the request ends, the operation goes on. *)
Return(p, ok) ==
    /\ IF pr[p].next = "done" THEN Become(p, Blank)
       ELSE IF ok /\ pr[p].next = "mode" THEN Become(p, [pr[p] EXCEPT !.at = "mode"])
       ELSE NextTarget(p)
    /\ mutation' = mutation \ {p}
    /\ routing' = routing \ {p}
    /\ pending' = {}

SyncWrite(p) ==
    /\ pr[p].at = "write"
    /\ file' = pending /\ torn' = FALSE
    /\ Return(p, TRUE)
    /\ UNCHANGED <<catalog, docker, crashes>>

(* The directory or the file cannot be written: the commit stays. *)
SyncFail(p) ==
    /\ pr[p].at = "write"
    /\ torn' = TRUE
    /\ Return(p, FALSE)
    /\ UNCHANGED <<catalog, file, docker, crashes>>
--------------------------------------------------------------------------------
(* The environment. *)

(* A command of the operation may be starting containers. *)
Starting(p) == <<pr[p].at, pr[p].op>> \in {<<"run", "up">>, <<"up", "restart">>}

(* Containers end by themselves. *)
Exit(a) ==
    /\ a \in running
    /\ running' = running \ {a} /\ unseen' = unseen \ {a}
    /\ UNCHANGED <<catalog, pr, mutation, routes, outlived, watches, followed, crashes>>

(* The agent dies and starts again: the catalog, the file and Docker stay; *)
(* a Compose command in flight, a watch too, may go on without it.         *)
Crash ==
    /\ crashes < MaxCrashes
    /\ crashes' = crashes + 1
    /\ pr' = [p \in Proc |-> Blank]
    /\ mutation' = {} /\ routing' = {} /\ pending' = {}
    /\ torn' = (torn \/ \E p \in Proc : pr[p].at \in {"sync", "write"})
    /\ outlived' = outlived \cup {pr[p].app : p \in {q \in Proc : Starting(q)}}
                            \cup {e.app : e \in followed}
    /\ watches' = {} /\ followed' = {}
    /\ UNCHANGED <<catalog, file, running, unseen>>

LateStart(a) ==
    /\ a \in outlived \ running
    /\ running' = running \cup {a}
    /\ UNCHANGED <<catalog, pr, mutation, routes, outlived, unseen, watches, followed,
                   crashes>>

(* Every uid of this instance has left the active catalog.                 *)
Exhausted ==
    /\ \A a \in App : place[a] \in {"archived", "removed"}
    /\ UNCHANGED vars

Request(p) ==
    \/ \E a \in App, g \in Group, c \in Config :
          RegisterRead(p, a, g, c) \/ EditRead(p, a, g, c)
    \/ \E a \in App : RemoveObserve(p, a) \/ ArchiveReview(p, a) \/ RestoreRead(p, a)
    \/ \E g \in Group : CreateGroup(p, g) \/ DeleteGroupRead(p, g)
    \/ \E r \in Root : AddRoot(p, r) \/ RemoveRootRead(p, r)
    \/ \E a \in App, m \in Mode : TrustRead(p, a, m)
    \/ \E m \in Mode : SelectAction(p, "up", m)
    \/ SelectAction(p, "stop", None) \/ SelectAction(p, "restart", None)
    \/ \E a \in App, m \in Mode :
          SelectBinding(p, "bind", a, m) \/ SelectBinding(p, "unbind", a, m)
    \/ \E a \in App : place[a] = "active" /\ StartWatch(p, Id(a))
    \/ \E e \in watches : ClientStopsWatch(p, e)
    \/ ConfigureSubmit(p)

Commit(p) ==
    \/ RegisterCommit(p) \/ EditStopWatch(p) \/ EditCommit(p) \/ RemoveCommit(p)
    \/ ArchiveObserve(p) \/ ArchiveCommit(p) \/ RestoreCommit(p)
    \/ DeleteGroupCommit(p) \/ RemoveRootCommit(p) \/ TrustCommit(p)
    \/ Abandon(p)

Work(p) ==
    \/ Submit(p) \/ JobTake(p) \/ JobFail(p) \/ JobEnd(p)
    \/ ExistingRun(p)
    \/ UpApproved(p) \/ UpClear(p) \/ UpMode(p) \/ UpReapprove(p) \/ UpRun(p) \/ UpApply(p)
    \/ BindCommit(p) \/ UnbindCommit(p)
    \/ HandlerStopsWatch(p) \/ StopReturns(p) \/ WatchRead(p) \/ WatchBegin(p)
    \/ ConfigureStopsWatch(p) \/ Configure(p) \/ ConfigureEnds(p)
    \/ SyncRead(p) \/ SyncWrite(p) \/ SyncFail(p)

Next ==
    \/ \E p \in Proc : Request(p) \/ Commit(p) \/ Work(p)
    \/ \E a \in App : Exit(a) \/ LateStart(a)
    \/ \E e \in followed : WatchRebuilds(e) \/ WatchEnds(e)
    \/ Crash
    \/ Exhausted

Spec == Init /\ [][Next]_vars
--------------------------------------------------------------------------------
Step == {"idle", "register", "edit", "remove", "review", "archive", "restore",
         "deletegroup", "removeroot", "trust", "select", "job", "up", "approved",
         "mode", "reapprove", "run", "apply", "bind", "stopping", "watch", "follow",
         "quiet", "configure", "sync", "write"}

TypeOK ==
    /\ place \in [App -> {"none", "active", "archived", "removed"}]
    /\ rec \in [App -> Stack]
    /\ bindings \subseteq App \X Mode /\ kept \subseteq App \X Mode
    /\ groups \subseteq Group /\ roots \subseteq Root
    /\ DOMAIN pr = Proc
    /\ \A p \in Proc :
          /\ DOMAIN pr[p] = DOMAIN Blank
          /\ pr[p].at \in Step /\ pr[p].op \in Kind \cup {None}
          /\ pr[p].app \in App \cup {None} /\ pr[p].mode \in Mode \cup {None}
          /\ pr[p].group \in Group \cup {None} /\ pr[p].config \in Config \cup {None}
          /\ pr[p].todo \subseteq pr[p].ids
    /\ mutation \subseteq Proc /\ Cardinality(mutation) <= 1
    /\ routing \subseteq Proc /\ Cardinality(routing) <= 1
    /\ pending \subseteq App \X (Mode \X Config) /\ file \subseteq App \X (Mode \X Config)
    /\ torn \in BOOLEAN
    /\ running \subseteq App /\ outlived \subseteq App /\ unseen \subseteq App
    /\ \A e \in watches \cup followed : e.app \in App /\ e.config \in Config
    /\ crashes \in 0 .. MaxCrashes

(* A binding is where its application is.                                  *)
BindingsInPlace ==
    /\ \A x \in bindings : place[x[1]] = "active"
    /\ \A x \in kept : place[x[1]] = "archived"

(* What validateState demands of the stacks holds without it: no handler   *)
(* relies on the validation to refuse two applications with one identity   *)
(* or a binding whose application is not where the binding is.             *)
WellFormed ==
    /\ \A a, b \in {x \in App : place[x] \in {"active", "archived"}} :
          a # b => Id(a) # Id(b) /\ ProjectOf[a] # ProjectOf[b]
    /\ BindingsInPlace

(* An application, archived or not, has its group (docs/CICLO-DE-VIDA.md,  *)
(* "cuenta como dependencia del grupo"): Register, Edit and Restore race   *)
(* with DeleteGroup.                                                       *)
GroupKept == \A a \in App : place[a] \in {"active", "archived"} => rec[a].group \in groups

(* A binding goes only by Unbind, which has its claim; whatever archives,  *)
(* restores or removes an application in between moves its bindings whole  *)
(* (ArchiveStack: "dataPreserved") and leaves them where it is.            *)
BindingsConserved ==
    [][/\ \A x \in bindings \cup kept :
             x \notin (bindings \cup kept)' =>
                 \E p \in Proc : pr[p].op = "unbind" /\ Holds(p)
       /\ BindingsInPlace']_vars

(* While an operation works on an application that it claims, nobody else  *)
(* changes its record, its place or its bindings.                          *)
ClaimedIsStable ==
    [][\A p \in Proc :
         Holds(p) /\ pr[p].app # None /\ pr'[p] = pr[p] =>
             LET a == pr[p].app
             IN  /\ rec'[a] = rec[a] /\ place'[a] = place[a]
                 /\ bindings' \cap Links(a, Mode) = bindings \cap Links(a, Mode)]_vars

(* The routes an application has applied are those of its configuration    *)
(* and of its active mode: no edit leaves routes of the past behind it.    *)
AppliedIsCurrent ==
    \A a \in App : place[a] \in {"active", "archived"} =>
        \A t \in rec[a].applied : t = <<rec[a].mode, rec[a].config>>

(* Whatever runs is in the catalog: no archive or removal leaves running   *)
(* containers behind (ArchiveStack, "observe it as late as possible before *)
(* commit"; "para no dejar runtime fuera del catalogo"), but for           *)
(*   - a Compose command or a watch that outlived the agent, and           *)
(*   - what the application's own watch starts after Remove or             *)
(*     ArchiveStack observed Docker: both observe first, stop the watch    *)
(*     after that, and commit without another look.                        *)
NoOrphanRuntime == \A a \in running \ (outlived \cup unseen) : place[a] = "active"

(* While docker compose up runs, the configuration and bindings it runs    *)
(* are the ones in the catalog, and they are approved.                     *)
RunIsApproved ==
    \A p \in Proc : pr[p].at = "run" =>
        LET a == pr[p].app
        IN  /\ place[a] = "active" /\ Id(a) = pr[p].id
            /\ rec[a].mode = pr[p].mode
            /\ Fingerprint(a, rec[a].config, pr[p].mode) \in rec[a].trust

(* A watch that runs has its entry: StopWatch, HasWatch and the update of  *)
(* the agent see every one, also when it was started while somebody still  *)
(* waited for the one before it.                                           *)
WatchIsListed ==
    /\ followed \subseteq watches
    /\ \A e, f \in watches : e.id = f.id => e = f

(* A watch goes on, without a claim, after the operation that started it:  *)
(* it follows an application that is in the catalog under the same id, in  *)
(* development, with the configuration it was started with.                *)
WatchIsCurrent ==
    \A e \in followed :
        /\ place[e.app] = "active" /\ Id(e.app) = e.id
        /\ rec[e.app].mode = "dev" /\ rec[e.app].config = e.config

(* The virtual machine is configured with no watch at work and none that   *)
(* could begin.                                                            *)
QuietConfigure == \A p \in Proc : pr[p].at = "configure" => followed = {}

(* The claims as Operations.active has them, from Submit to the end of the *)
(* operation.                                                              *)
NoClaim == [targets |-> {}, global |-> FALSE, build |-> FALSE]
Claimable == Group \X {SlugOf[a] : a \in App}
MadeClaims == [targets : SUBSET Claimable, global : BOOLEAN, build : BOOLEAN] \ {NoClaim}
Claims == [p \in Proc |->
    IF Holds(p) THEN [targets |-> pr[p].ids, global |-> IsGlobal(pr[p].op),
                      build |-> pr[p].op = "up"]
    ELSE NoClaim]

Exclusive == INSTANCE Exclusion
    WITH Op <- Proc, Target <- Claimable, Claim <- MadeClaims, holds <- Claims

(* What the handlers and their operations make of the claims is what the   *)
(* registry promises: an operation takes its whole claim at once, when no  *)
(* one holds a claim that conflicts, keeps it unchanged while it goes from *)
(* target to target, and gives it back whole (Submit, Action, StartWatch). *)
ImplementsExclusion == Exclusive!Spec

(* Once every SyncRoutes has returned the proxy routes exactly what the    *)
(* catalog says, unless the last attempt failed or died.                   *)
RoutesFollow ==
    torn \/ (\E p \in Proc : pr[p].at \in {"sync", "write"}) \/ file = Wanted

(* "Una aplicacion archivada cuenta como dependencia del grupo y de la     *)
(* raiz para que ambos sigan disponibles al restaurarla": the code checks  *)
(* the root of a new application before the lock and never again.          *)
ArchivedKeepsRoot == \A a \in App : place[a] = "archived" => InRoots(a)
================================================================================
