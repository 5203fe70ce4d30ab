---------------------------- MODULE CatalogProofs ----------------------------
(***************************************************************************)
(* Theorems about Catalog for any sets of processes, applications, groups, *)
(* roots, configurations and modes and any number of crashes.              *)
(***************************************************************************)
EXTENDS Catalog, TLAPS

(* Records have their fields. *)
Fields == {"at", "op", "id", "app", "group", "root", "config", "mode", "seen", "links",
           "ids", "todo", "watch", "next"}
StackFields == {"group", "config", "trust", "mode", "applied"}

Shape ==
    /\ DOMAIN pr = Proc /\ \A p \in Proc : DOMAIN pr[p] = Fields
    /\ DOMAIN rec = App /\ \A a \in App : DOMAIN rec[a] = StackFields
    /\ DOMAIN place = App

Turn(p) == Request(p) \/ Commit(p) \/ Work(p)
--------------------------------------------------------------------------------
(* A step of a process changes its own state and none other's. *)
LEMMA BlankFields == DOMAIN Blank = Fields
  BY DEF Blank, Fields

(* A request touches no process but its own, and keeps the fields of the records. *)
LEMMA RequestShape ==
    ASSUME Shape, NEW p \in Proc, Request(p)
    PROVE  Shape' /\ \A q \in Proc \ {p} : pr'[q] = pr[q]
  <1> USE BlankFields DEF Shape, Begin, Become, OnlyReads, ThenDone, catalog, Fields
  <1>1. ASSUME NEW a \in App, NEW g \in Group, NEW c \in Config,
               RegisterRead(p, a, g, c) \/ EditRead(p, a, g, c)
        PROVE  Shape' /\ \A q \in Proc \ {p} : pr'[q] = pr[q]
    BY <1>1 DEF RegisterRead, EditRead
  <1>2. ASSUME NEW a \in App, RemoveObserve(p, a) \/ ArchiveReview(p, a) \/ RestoreRead(p, a)
        PROVE  Shape' /\ \A q \in Proc \ {p} : pr'[q] = pr[q]
    BY <1>2 DEF RemoveObserve, ArchiveReview, RestoreRead
  <1>3. ASSUME NEW g \in Group, CreateGroup(p, g) \/ DeleteGroupRead(p, g)
        PROVE  Shape' /\ \A q \in Proc \ {p} : pr'[q] = pr[q]
    BY <1>3 DEF CreateGroup, DeleteGroupRead
  <1>4. ASSUME NEW r \in Root, AddRoot(p, r) \/ RemoveRootRead(p, r)
        PROVE  Shape' /\ \A q \in Proc \ {p} : pr'[q] = pr[q]
    BY <1>4 DEF AddRoot, RemoveRootRead
  <1>5. ASSUME NEW a \in App, NEW m \in Mode, TrustRead(p, a, m)
        PROVE  Shape' /\ \A q \in Proc \ {p} : pr'[q] = pr[q]
    BY <1>5 DEF TrustRead
  <1>6. ASSUME NEW k, NEW m, SelectAction(p, k, m)
        PROVE  Shape' /\ \A q \in Proc \ {p} : pr'[q] = pr[q]
    BY <1>6 DEF SelectAction, Select
  <1>7. ASSUME NEW k, NEW m, NEW a, SelectBinding(p, k, a, m)
        PROVE  Shape' /\ \A q \in Proc \ {p} : pr'[q] = pr[q]
    BY <1>7 DEF SelectBinding
  <1>8. ASSUME NEW id, StartWatch(p, id)
        PROVE  Shape' /\ \A q \in Proc \ {p} : pr'[q] = pr[q]
    BY <1>8 DEF StartWatch
  <1>9. ASSUME NEW e, ClientStopsWatch(p, e)
        PROVE  Shape' /\ \A q \in Proc \ {p} : pr'[q] = pr[q]
    BY <1>9 DEF ClientStopsWatch
  <1>10. CASE ConfigureSubmit(p)
    BY <1>10 DEF ConfigureSubmit
  <1> HIDE DEF Shape
  <1> QED
    BY <1>1, <1>2, <1>3, <1>4, <1>5, <1>6, <1>7, <1>8, <1>9, <1>10 DEF Request

(* The same of a commit. *)
LEMMA CommitShape ==
    ASSUME Shape, NEW p \in Proc, Commit(p)
    PROVE  Shape' /\ \A q \in Proc \ {p} : pr'[q] = pr[q]
  <1> USE BlankFields DEF Shape, Become, OnlyReads, ThenDone, ThenSync, catalog, Fields
  <1>1. CASE RegisterCommit(p)
    BY <1>1 DEF RegisterCommit, NewStack, StackFields
  <1>2. CASE EditStopWatch(p)
    BY <1>2 DEF EditStopWatch, StopWatch
  <1>3. CASE EditCommit(p)
    BY <1>3 DEF EditCommit, Edited, StackFields
  <1>4. CASE RemoveCommit(p)
    BY <1>4 DEF RemoveCommit
  <1>5. CASE ArchiveObserve(p) \/ ArchiveCommit(p) \/ RestoreCommit(p)
    BY <1>5 DEF ArchiveObserve, ArchiveCommit, RestoreCommit
  <1>6. CASE DeleteGroupCommit(p) \/ RemoveRootCommit(p) \/ Abandon(p)
    BY <1>6 DEF DeleteGroupCommit, RemoveRootCommit, Abandon
  <1>7. CASE TrustCommit(p)
    BY <1>7 DEF TrustCommit, Approve, Lookup
  <1> HIDE DEF Shape
  <1> QED
    BY <1>1, <1>2, <1>3, <1>4, <1>5, <1>6, <1>7 DEF Commit

(* The same of a step of an operation. *)
LEMMA WorkShape ==
    ASSUME Shape, NEW p \in Proc, Work(p)
    PROVE  Shape' /\ \A q \in Proc \ {p} : pr'[q] = pr[q]
  <1> USE BlankFields DEF Shape, Become, OnlyReads, NextTarget, catalog, Fields
  <1>1. CASE Submit(p) \/ JobTake(p) \/ JobFail(p) \/ JobEnd(p) \/ ExistingRun(p)
    BY <1>1 DEF Submit, JobTake, JobFail, JobEnd, ExistingRun
  <1>2. CASE UpApproved(p) \/ UpReapprove(p) \/ UpRun(p)
    BY <1>2 DEF UpApproved, UpReapprove, UpRun
  <1>3. CASE UpClear(p) \/ UpMode(p) \/ UpApply(p)
    BY <1>3 DEF UpClear, UpMode, UpApply, Lookup
  <1>4. CASE BindCommit(p)
    BY <1>4 DEF BindCommit, Lookup
  <1>5. CASE UnbindCommit(p)
    BY <1>5 DEF UnbindCommit
  <1>6. CASE HandlerStopsWatch(p) \/ StopReturns(p) \/ ConfigureStopsWatch(p)
    BY <1>6 DEF HandlerStopsWatch, StopReturns, ConfigureStopsWatch, StopWatch
  <1>7. CASE WatchRead(p) \/ WatchBegin(p) \/ Configure(p) \/ ConfigureEnds(p)
    BY <1>7 DEF WatchRead, WatchBegin, Configure, ConfigureEnds
  <1>8. CASE SyncRead(p) \/ SyncWrite(p) \/ SyncFail(p)
    BY <1>8 DEF SyncRead, SyncWrite, SyncFail, Return
  <1> HIDE DEF Shape
  <1> QED
    BY <1>1, <1>2, <1>3, <1>4, <1>5, <1>6, <1>7, <1>8 DEF Work

(* The steps that are nobody's. *)
Elsewhere ==
    \/ \E a \in App : Exit(a) \/ LateStart(a)
    \/ \E e \in followed : WatchRebuilds(e) \/ WatchEnds(e)
    \/ Exhausted \/ UNCHANGED vars

(* Every step is a turn of a process, the death of the agent or nobody's. *)
LEMMA Steps ==
    ASSUME [Next]_vars
    PROVE  (\E p \in Proc : Turn(p)) \/ Crash \/ Elsewhere
  BY DEF Next, Turn, Elsewhere

(* The same of every turn of a process. *)
LEMMA TurnShape ==
    ASSUME Shape, NEW p \in Proc, Turn(p)
    PROVE  Shape' /\ \A q \in Proc \ {p} : pr'[q] = pr[q]
  BY RequestShape, CommitShape, WorkShape DEF Turn

(* What happens elsewhere leaves the catalog and the processes. *)
LEMMA ElsewhereKeeps ==
    ASSUME Elsewhere
    PROVE  UNCHANGED <<catalog, pr, mutation, routes>>
  BY DEF Elsewhere, Exit, LateStart, WatchRebuilds, WatchEnds, Exhausted, vars, catalog, routes

(* The fields stay through every step. *)
LEMMA ShapeStep ==
    ASSUME Shape, [Next]_vars
    PROVE  Shape'
  <1>1. CASE \E p \in Proc : Turn(p)
    BY <1>1, TurnShape
  <1>2. CASE Crash
    BY <1>2, BlankFields DEF Crash, Shape, catalog
  <1>3. CASE Elsewhere
    BY <1>3, ElsewhereKeeps DEF Shape, catalog
  <1> QED
    BY <1>1, <1>2, <1>3, Steps
--------------------------------------------------------------------------------
(* What each action makes of the state of its process. *)
Fresh(p, at, op) ==
    pr[p].at = "idle" /\ pr'[p].at = at /\ pr'[p].op = op
KeepsClaim(p) == pr'[p].op = pr[p].op /\ pr'[p].ids = pr[p].ids /\ pr'[p].mode = pr[p].mode
KeepsTarget(p) ==
    KeepsClaim(p) /\ pr'[p].id = pr[p].id /\ pr'[p].app = pr[p].app
    /\ pr'[p].config = pr[p].config
KeepsAll(p) ==
    /\ KeepsTarget(p) /\ pr'[p].seen = pr[p].seen /\ pr'[p].links = pr[p].links
    /\ pr'[p].group = pr[p].group /\ pr'[p].todo = pr[p].todo
OnToNext(p) ==
    /\ KeepsClaim(p) /\ pr'[p].at = "job" /\ pr'[p].app = None
    /\ pr'[p].todo = pr[p].todo \ {pr[p].id}
GoesTo(p, at, next) == pr'[p].at = at /\ pr'[p].next = next
Ends(p) == pr'[p] = Blank

(* Register before its lock. *)
LEMMA RegisterReads ==
    ASSUME Shape, NEW p \in Proc, NEW a \in App, NEW g, NEW c, RegisterRead(p, a, g, c)
    PROVE  /\ Fresh(p, "register", "register")
           /\ pr'[p].app = a
           /\ pr'[p].group = g
  BY DEF Shape, Fresh, Begin, Blank, RegisterRead

(* Edit before its lock. *)
LEMMA EditReads ==
    ASSUME Shape, NEW p \in Proc, NEW a \in App, NEW g, NEW c, EditRead(p, a, g, c)
    PROVE  /\ Fresh(p, "edit", "edit")
           /\ pr'[p].app = a
           /\ pr'[p].id = Id(a)
  BY DEF Shape, Fresh, Begin, Blank, EditRead

(* Remove, which takes the lock at once. *)
LEMMA RemoveBegins ==
    ASSUME Shape, NEW p \in Proc, NEW a \in App, RemoveObserve(p, a)
    PROVE  /\ Fresh(p, "remove", "remove")
           /\ pr'[p].app = a
           /\ pr'[p].id = Id(a)
  BY DEF Shape, Fresh, Begin, Blank, RemoveObserve

(* The review of ArchiveStack. *)
LEMMA ArchiveReads ==
    ASSUME Shape, NEW p \in Proc, NEW a \in App, ArchiveReview(p, a)
    PROVE  /\ Fresh(p, "review", "archive")
           /\ pr'[p].app = a
           /\ pr'[p].id = Id(a)
           /\ pr'[p].seen = rec[a]
  BY DEF Shape, Fresh, Begin, Blank, ArchiveReview

(* The reads of the other handlers. *)
LEMMA SmallReads ==
    ASSUME Shape, NEW p \in Proc, NEW a, NEW g, NEW r, NEW m
    PROVE  /\ RestoreRead(p, a) => Fresh(p, "restore", "restore")
           /\ DeleteGroupRead(p, g) => Fresh(p, "deletegroup", "deletegroup")
           /\ RemoveRootRead(p, r) => Fresh(p, "removeroot", "removeroot")
           /\ TrustRead(p, a, m) => Fresh(p, "trust", "trust")
  <1> USE DEF Shape, Fresh, Begin, Blank
  <1>1. RestoreRead(p, a) => Fresh(p, "restore", "restore")
    BY DEF RestoreRead
  <1>2. DeleteGroupRead(p, g) => Fresh(p, "deletegroup", "deletegroup")
    BY DEF DeleteGroupRead
  <1>3. RemoveRootRead(p, r) => Fresh(p, "removeroot", "removeroot")
    BY DEF RemoveRootRead
  <1>4. TrustRead(p, a, m) => Fresh(p, "trust", "trust")
    BY DEF TrustRead
  <1> QED
    BY <1>1, <1>2, <1>3, <1>4

(* The handlers that commit in their first step. *)
LEMMA SmallCommits ==
    ASSUME Shape, NEW p \in Proc, NEW g, NEW r
    PROVE  /\ CreateGroup(p, g) => pr[p].at = "idle" /\ Ends(p)
           /\ AddRoot(p, r) => pr[p].at = "idle" /\ Ends(p)
  BY DEF Shape, Become, ThenDone, Ends, CreateGroup, AddRoot

(* The targets of an action. *)
LEMMA ActionSelects ==
    ASSUME Shape, NEW p \in Proc, NEW k, NEW m, SelectAction(p, k, m)
    PROVE  /\ Fresh(p, "select", k)
           /\ pr'[p].ids # {}
           /\ pr'[p].app = None
  <1>1. ASSUME NEW ids, Select(p, k, ids, m)
        PROVE  Fresh(p, "select", k) /\ pr'[p].ids # {} /\ pr'[p].app = None
    BY <1>1 DEF Shape, Fresh, Begin, Blank, Select
  <1> QED
    BY <1>1 DEF SelectAction

(* The target of Bind or Unbind. *)
LEMMA BindingSelects ==
    ASSUME Shape, NEW p \in Proc, NEW k, NEW a, NEW m, SelectBinding(p, k, a, m)
    PROVE  /\ Fresh(p, "select", k)
           /\ pr'[p].ids # {}
           /\ pr'[p].mode = m
           /\ pr'[p].app = IF k = "unbind" THEN a ELSE None
  BY DEF Shape, Fresh, Begin, Blank, SelectBinding

(* StartWatch claims its application. *)
LEMMA WatchStarts ==
    ASSUME Shape, NEW p \in Proc, NEW id, StartWatch(p, id)
    PROVE  /\ Fresh(p, "watch", "watch")
           /\ pr'[p].id = id
           /\ pr'[p].ids = {id}
           /\ pr'[p].app = None
  BY DEF Shape, Fresh, Begin, Blank, StartWatch

(* A client stops a watch. *)
LEMMA ClientStops ==
    ASSUME Shape, NEW p \in Proc, NEW e, ClientStopsWatch(p, e)
    PROVE  /\ Fresh(p, "stopping", "unwatch")
           /\ pr'[p].next = "done"
  BY DEF Shape, Fresh, Begin, Blank, ClientStopsWatch

(* The configuration of the runtime claims everything. *)
LEMMA ConfigureStarts ==
    ASSUME Shape, NEW p \in Proc, ConfigureSubmit(p)
    PROVE  /\ Fresh(p, "quiet", "configure")
           /\ pr'[p].ids = {}
           /\ pr'[p].app = None
  BY DEF Shape, Fresh, Begin, Blank, ConfigureSubmit

(* The commits that end their request, and the errors before any commit. *)
LEMMA CommitsEnd ==
    ASSUME Shape, NEW p \in Proc
    PROVE  /\ RegisterCommit(p) => pr[p].at = "register" /\ Ends(p)
           /\ DeleteGroupCommit(p) => pr[p].at = "deletegroup" /\ Ends(p)
           /\ RemoveRootCommit(p) => pr[p].at = "removeroot" /\ Ends(p)
           /\ TrustCommit(p) => pr[p].at = "trust" /\ Ends(p)
           /\ Abandon(p) => /\ Ends(p)
                             /\ pr[p].at \in {"register", "edit", "remove", "review", "archive", "restore",
                                             "deletegroup", "removeroot", "trust", "select"}
  BY DEF Shape, Become, ThenDone, Ends, RegisterCommit, DeleteGroupCommit,
     RemoveRootCommit, TrustCommit, Abandon

(* EditCommit goes on with SyncRoutes. *)
LEMMA EditSyncs ==
    ASSUME Shape, NEW p \in Proc, EditCommit(p)
    PROVE  /\ pr[p].at = "edit"
           /\ GoesTo(p, "sync", "done")
           /\ pr'[p].op = pr[p].op
  BY DEF Shape, Become, ThenSync, Blank, GoesTo, EditCommit, EditIdle

(* RemoveCommit goes on with SyncRoutes. *)
LEMMA RemoveSyncs ==
    ASSUME Shape, NEW p \in Proc, RemoveCommit(p)
    PROVE  /\ pr[p].at = "remove"
           /\ GoesTo(p, "sync", "done")
           /\ pr'[p].op = pr[p].op
  BY DEF Shape, Become, ThenSync, Blank, GoesTo, RemoveCommit

(* ArchiveCommit goes on with SyncRoutes. *)
LEMMA ArchiveSyncs ==
    ASSUME Shape, NEW p \in Proc, ArchiveCommit(p)
    PROVE  /\ pr[p].at = "archive"
           /\ GoesTo(p, "sync", "done")
           /\ pr'[p].op = pr[p].op
  BY DEF Shape, Become, ThenSync, Blank, GoesTo, ArchiveCommit

(* RestoreCommit goes on with SyncRoutes. *)
LEMMA RestoreSyncs ==
    ASSUME Shape, NEW p \in Proc, RestoreCommit(p)
    PROVE  /\ pr[p].at = "restore"
           /\ GoesTo(p, "sync", "done")
           /\ pr'[p].op = pr[p].op
  BY DEF Shape, Become, ThenSync, Blank, GoesTo, RestoreCommit

(* The entry of a watch is taken and its end awaited. *)
LEMMA Stops ==
    ASSUME Shape, NEW p \in Proc, NEW id, StopWatch(p, id)
    PROVE  /\ GoesTo(p, "stopping", pr[p].at)
           /\ KeepsAll(p)
  BY DEF Shape, Fields, Become, GoesTo, KeepsAll, KeepsTarget, KeepsClaim, StopWatch

(* Edit stops the watch under its lock. *)
LEMMA EditStops ==
    ASSUME Shape, NEW p \in Proc, EditStopWatch(p)
    PROVE  /\ pr[p].at = "edit"
           /\ GoesTo(p, "stopping", "edit")
           /\ KeepsAll(p)
  BY Stops DEF EditStopWatch, EditIdle

(* ArchiveStack under its lock. *)
LEMMA ArchiveObserves ==
    ASSUME Shape, NEW p \in Proc, ArchiveObserve(p)
    PROVE  /\ pr[p].at = "review"
           /\ pr'[p].at = "archive"
           /\ KeepsAll(p)
  BY DEF Shape, Fields, Become, GoesTo, KeepsAll, KeepsTarget, KeepsClaim, ArchiveObserve

(* The operation goes on with its next target. *)
LEMMA NextTargets ==
    ASSUME Shape, NEW p \in Proc, NextTarget(p)
    PROVE  OnToNext(p)
  BY DEF Shape, NextTarget, Become, Blank, OnToNext, KeepsClaim

(* Submit accepts the operation. *)
LEMMA Submits ==
    ASSUME Shape, NEW p \in Proc, Submit(p)
    PROVE  /\ pr[p].at = "select"
           /\ KeepsTarget(p)
           /\ pr'[p].at = IF pr[p].op = "unbind" THEN "bind" ELSE "job"
  BY DEF Shape, Fields, Become, GoesTo, KeepsAll, KeepsTarget, KeepsClaim, Submit

(* The next target of an operation. *)
LEMMA JobTakes ==
    ASSUME Shape, NEW p \in Proc, JobTake(p)
    PROVE  /\ pr[p].at = "job"
           /\ KeepsClaim(p)
           /\ pr'[p].todo \subseteq pr[p].todo
           /\ \/ pr'[p].at = "job" /\ pr'[p].app = pr[p].app
              \/ \E id \in pr[p].todo : \E a \in Lookup(id) :
                    /\ pr'[p].id = id /\ pr'[p].app = a
                    /\ pr'[p].at = IF pr[p].op = "bind" THEN "bind" ELSE "up"
                    /\ pr[p].op = "up" => pr'[p].seen = rec[a]
  <1> USE DEF Shape, Fields, Become, KeepsClaim
  <1>1. ASSUME NEW id \in pr[p].todo, Become(p, [pr[p] EXCEPT !.todo = @ \ {id}])
        PROVE  /\ KeepsClaim(p) /\ pr'[p].at = pr[p].at /\ pr'[p].app = pr[p].app
               /\ pr'[p].todo \subseteq pr[p].todo
    BY <1>1
  <1>2. ASSUME NEW id \in pr[p].todo, NEW a \in Lookup(id),
               Become(p, [pr[p] EXCEPT !.id = id, !.app = a,
                                       !.seen = IF pr[p].op = "up" THEN rec[a] ELSE None,
                                       !.at = IF pr[p].op = "bind" THEN "bind" ELSE "up"])
        PROVE  /\ KeepsClaim(p) /\ pr'[p].id = id /\ pr'[p].app = a
               /\ pr'[p].todo = pr[p].todo
               /\ pr'[p].at = IF pr[p].op = "bind" THEN "bind" ELSE "up"
               /\ pr[p].op = "up" => pr'[p].seen = rec[a]
    BY <1>2
  <1> HIDE DEF Become, KeepsClaim
  <1> QED
    BY <1>1, <1>2 DEF JobTake

(* A target ends, with an error or not. *)
LEMMA JobsFail ==
    ASSUME Shape, NEW p \in Proc
    PROVE  /\ JobFail(p) => /\ OnToNext(p)
                            /\ pr[p].at \in {"approved", "mode", "reapprove", "apply", "bind", "watch",
                                            "follow", "up"}
           /\ JobEnd(p) => pr[p].at = "job" /\ Ends(p)
           /\ ExistingRun(p) => pr[p].at = "up" /\ OnToNext(p)
           /\ BindCommit(p) => pr[p].at = "bind" /\ pr[p].op = "bind" /\ OnToNext(p)
           /\ UnbindCommit(p) => pr[p].at = "bind" /\ pr[p].op = "unbind" /\ OnToNext(p)
           /\ WatchBegin(p) => pr[p].at = "follow" /\ OnToNext(p)
  BY NextTargets DEF Shape, Become, Ends, JobFail, JobEnd, ExistingRun, BindCommit,
     UnbindCommit, WatchBegin

(* Compose.Approved. *)
LEMMA UpsApprove ==
    ASSUME Shape, NEW p \in Proc, UpApproved(p)
    PROVE  /\ pr[p].at = "up"
           /\ pr[p].op = "up"
           /\ KeepsClaim(p)
           /\ pr'[p].id = pr[p].id /\ pr'[p].app = pr[p].app
           /\ pr'[p].config = pr[p].seen.config
           /\ \/ pr'[p].at = "approved"
              \/ pr'[p].at = "mode" /\ \A t \in pr[p].seen.applied : t[1] = pr[p].mode
  BY DEF Shape, Fields, Become, GoesTo, KeepsAll, KeepsTarget, KeepsClaim, UpApproved

(* The routes of the other mode go. *)
LEMMA UpsClear ==
    ASSUME Shape, NEW p \in Proc, UpClear(p)
    PROVE  /\ pr[p].at = "approved"
           /\ GoesTo(p, "sync", "mode")
           /\ KeepsTarget(p)
  BY DEF Shape, Fields, Become, GoesTo, KeepsAll, KeepsTarget, KeepsClaim, UpClear

(* The record has the mode of the action. *)
LEMMA UpsMode ==
    ASSUME Shape, NEW p \in Proc, UpMode(p)
    PROVE  /\ pr[p].at = "mode"
           /\ pr'[p].at = "reapprove"
           /\ KeepsTarget(p)
  BY DEF Shape, Fields, Become, GoesTo, KeepsAll, KeepsTarget, KeepsClaim, UpMode

(* Compose.Execute approves again. *)
LEMMA UpsReapprove ==
    ASSUME Shape, NEW p \in Proc, UpReapprove(p)
    PROVE  /\ pr[p].at = "reapprove"
           /\ pr'[p].at = "run"
           /\ KeepsClaim(p)
           /\ pr'[p].id = pr[p].id /\ pr'[p].config = pr[p].config
           /\ pr'[p].app \in Lookup(pr[p].id)
           /\ Approved(pr'[p].app, rec[pr'[p].app], pr[p].mode)
  BY DEF Shape, Fields, Become, GoesTo, KeepsAll, KeepsTarget, KeepsClaim, UpReapprove

(* docker compose up. *)
LEMMA UpsRun ==
    ASSUME Shape, NEW p \in Proc, UpRun(p)
    PROVE  /\ pr[p].at = "run"
           /\ OnToNext(p) \/ (pr'[p].at = "apply" /\ KeepsTarget(p))
  BY NextTargets DEF Shape, Fields, Become, GoesTo, KeepsAll, KeepsTarget, KeepsClaim,
     UpRun

(* The routes are applied. *)
LEMMA UpsApply ==
    ASSUME Shape, NEW p \in Proc, UpApply(p)
    PROVE  /\ pr[p].at = "apply"
           /\ GoesTo(p, "sync", "job")
           /\ KeepsTarget(p)
  BY DEF Shape, Fields, Become, GoesTo, KeepsAll, KeepsTarget, KeepsClaim, UpApply

(* A handler or an operation stops a watch. *)
LEMMA HandlersStop ==
    ASSUME Shape, NEW p \in Proc
    PROVE  /\ HandlerStopsWatch(p) => /\ pr[p].at \in {"remove", "archive", "up"}
                                      /\ GoesTo(p, "stopping", pr[p].at) /\ KeepsAll(p)
           /\ ConfigureStopsWatch(p) => /\ pr[p].at = "quiet"
                                        /\ GoesTo(p, "stopping", "quiet") /\ KeepsAll(p)
  BY Stops DEF HandlerStopsWatch, ConfigureStopsWatch

(* The watch has ended. *)
LEMMA StopsReturn ==
    ASSUME Shape, NEW p \in Proc, StopReturns(p)
    PROVE  /\ pr[p].at = "stopping"
           /\ IF pr[p].next = "done" THEN Ends(p)
              ELSE pr'[p].at = pr[p].next /\ KeepsAll(p)
  BY DEF Shape, Fields, Become, GoesTo, KeepsAll, KeepsTarget, KeepsClaim, Ends,
     StopReturns

(* The operation of a watch reads the record. *)
LEMMA WatchesRead ==
    ASSUME Shape, NEW p \in Proc, WatchRead(p)
    PROVE  /\ pr[p].at = "watch"
           /\ pr'[p].at = "follow"
           /\ KeepsClaim(p)
           /\ pr'[p].id = pr[p].id
           /\ pr'[p].app \in Lookup(pr[p].id)
           /\ pr'[p].seen = rec[pr'[p].app] /\ rec[pr'[p].app].mode = "dev"
  BY DEF Shape, Fields, Become, GoesTo, KeepsAll, KeepsTarget, KeepsClaim, WatchRead

(* The configuration of the runtime. *)
LEMMA Configures ==
    ASSUME Shape, NEW p \in Proc
    PROVE  /\ Configure(p) => pr[p].at = "quiet" /\ pr'[p].at = "configure" /\ KeepsAll(p)
           /\ ConfigureEnds(p) => pr[p].at = "configure" /\ Ends(p)
  BY DEF Shape, Fields, Become, GoesTo, KeepsAll, KeepsTarget, KeepsClaim, Ends, Configure,
     ConfigureEnds

(* SyncRoutes reads the catalog. *)
LEMMA SyncsRead ==
    ASSUME Shape, NEW p \in Proc, SyncRead(p)
    PROVE  /\ pr[p].at = "sync"
           /\ GoesTo(p, "write", pr[p].next)
           /\ KeepsAll(p)
  BY DEF Shape, Fields, Become, GoesTo, KeepsAll, KeepsTarget, KeepsClaim, SyncRead

(* SyncRoutes returns. *)
LEMMA SyncsReturn ==
    ASSUME Shape, NEW p \in Proc, SyncWrite(p) \/ SyncFail(p)
    PROVE  /\ pr[p].at = "write"
           /\ IF pr[p].next = "done" THEN Ends(p)
              ELSE \/ pr[p].next = "mode" /\ pr'[p].at = "mode" /\ KeepsAll(p)
                   \/ OnToNext(p)
  BY NextTargets DEF Shape, Fields, Become, GoesTo, KeepsAll, KeepsTarget, KeepsClaim,
     Ends, SyncWrite, SyncFail, Return
--------------------------------------------------------------------------------
(* What a process does, while it stops a watch or writes the routes too. *)
Stage(p) == IF pr[p].at \in {"stopping", "sync", "write"} THEN pr[p].next ELSE pr[p].at

HandlerStages == {"register", "edit", "remove", "review", "archive", "restore",
                  "deletegroup", "removeroot", "trust", "done"}
UpStages == {"approved", "mode", "reapprove", "run", "apply"}
JobStages == {"select", "job", "up", "bind", "watch", "follow", "quiet", "configure"}
                \cup UpStages

(* A handler is no operation; the steps of an operation are its own. *)
Staged(p) ==
    /\ pr[p].at = "stopping" =>
          pr[p].next \in {"done", "edit", "remove", "archive", "up", "quiet"}
    /\ pr[p].at \in {"sync", "write"} => pr[p].next \in {"done", "mode", "job"}
    /\ Stage(p) \in HandlerStages \cup JobStages \cup {"idle"}
    /\ Stage(p) \in HandlerStages => ~IsJob(p)
    /\ Stage(p) \in JobStages => IsJob(p)
    /\ Stage(p) \in UpStages => pr[p].op = "up"
    /\ Stage(p) \in {"watch", "follow"} => pr[p].op = "watch"
    /\ Stage(p) \in {"quiet", "configure"} => pr[p].op = "configure"

(* A request that ends is at no stage. *)
LEMMA EndStaged ==
    ASSUME NEW p \in Proc, Ends(p)
    PROVE  Staged(p)' /\ pr'[p].at = "idle"
  BY DEF Ends, Blank, Staged, Stage, HandlerStages, JobStages, UpStages

(* An operation that ends a target is still an operation. *)
LEMMA NextStaged ==
    ASSUME NEW p \in Proc, IsJob(p), OnToNext(p)
    PROVE  Staged(p)'
  BY DEF OnToNext, KeepsClaim, IsJob, Staged, Stage, HandlerStages, JobStages, UpStages

(* A request begins at a stage of its kind. *)
LEMMA RequestStaged ==
    ASSUME Shape, NEW p \in Proc, Request(p)
    PROVE  Staged(p)'
  <1> DEFINE Begun == \E x \in HandlerStages : Fresh(p, x, x)
  <1>1. ASSUME Begun PROVE Staged(p)'
    BY <1>1 DEF Fresh, IsJob, Staged, Stage, HandlerStages, JobStages, UpStages
  <1>2. ASSUME NEW a \in App, NEW g \in Group, NEW c \in Config,
               RegisterRead(p, a, g, c) \/ EditRead(p, a, g, c)
        PROVE  Staged(p)'
    BY <1>1, <1>2, RegisterReads, EditReads DEF HandlerStages
  <1>3. ASSUME NEW a \in App, RemoveObserve(p, a) \/ RestoreRead(p, a)
        PROVE  Staged(p)'
    BY <1>1, <1>3, RemoveBegins, SmallReads DEF HandlerStages
  <1>4. ASSUME NEW a \in App, ArchiveReview(p, a)
        PROVE  Staged(p)'
    BY <1>4, ArchiveReads DEF Fresh, IsJob, Staged, Stage, HandlerStages, JobStages, UpStages
  <1>5. ASSUME NEW g, NEW r, NEW a, NEW m,
               DeleteGroupRead(p, g) \/ RemoveRootRead(p, r) \/ TrustRead(p, a, m)
        PROVE  Staged(p)'
    BY <1>1, <1>5, SmallReads DEF HandlerStages
  <1>6. ASSUME NEW g, NEW r, CreateGroup(p, g) \/ AddRoot(p, r)
        PROVE  Staged(p)'
    BY <1>6, SmallCommits, EndStaged
  <1>7. ASSUME NEW k \in {"up", "stop", "restart", "bind", "unbind"}, NEW a, NEW m,
               SelectAction(p, k, m) \/ SelectBinding(p, k, a, m)
        PROVE  Staged(p)'
    <2>1. Fresh(p, "select", k)
      BY <1>7, ActionSelects, BindingSelects
    <2> QED
      BY <2>1 DEF Fresh, IsJob, Staged, Stage, HandlerStages, JobStages, UpStages
  <1>8. ASSUME NEW id, StartWatch(p, id)
        PROVE  Staged(p)'
    BY <1>8, WatchStarts DEF Fresh, IsJob, Staged, Stage, HandlerStages, JobStages, UpStages
  <1>9. ASSUME NEW e, ClientStopsWatch(p, e)
        PROVE  Staged(p)'
    BY <1>9, ClientStops DEF Fresh, IsJob, Staged, Stage, HandlerStages, JobStages, UpStages
  <1>10. CASE ConfigureSubmit(p)
    BY <1>10, ConfigureStarts
       DEF Fresh, IsJob, Staged, Stage, HandlerStages, JobStages, UpStages
  <1> QED
    BY <1>2, <1>3, <1>4, <1>5, <1>6, <1>7, <1>8, <1>9, <1>10 DEF Request

(* A commit leads to a stage of its kind. *)
LEMMA CommitStaged ==
    ASSUME Shape, NEW p \in Proc, Staged(p), Commit(p)
    PROVE  Staged(p)'
  <1>1. ASSUME Ends(p) PROVE Staged(p)'
    BY <1>1, EndStaged
  <1>2. ASSUME pr[p].at \in HandlerStages, GoesTo(p, "sync", "done"), pr'[p].op = pr[p].op
        PROVE  Staged(p)'
    BY <1>2 DEF GoesTo, IsJob, Staged, Stage, HandlerStages, JobStages, UpStages
  <1>3. CASE EditStopWatch(p)
    BY <1>3, EditStops DEF GoesTo, KeepsAll, KeepsTarget, KeepsClaim, IsJob, Staged, Stage,
       HandlerStages, JobStages, UpStages
  <1>4. CASE ArchiveObserve(p)
    BY <1>4, ArchiveObserves DEF KeepsAll, KeepsTarget, KeepsClaim, IsJob, Staged, Stage,
       HandlerStages, JobStages, UpStages
  <1> QED
    BY <1>1, <1>2, <1>3, <1>4, CommitsEnd, EditSyncs, RemoveSyncs, ArchiveSyncs, RestoreSyncs
       DEF Commit, HandlerStages

(* A step of an operation leads to a stage of its kind. *)
LEMMA WorkStaged ==
    ASSUME Shape, NEW p \in Proc, Staged(p), Work(p)
    PROVE  Staged(p)'
  <1> DEFINE Keeps == pr'[p].op = pr[p].op
  <1>0. Stage(p) \in JobStages => IsJob(p)
    BY DEF Staged
  <1>1. ASSUME Ends(p) PROVE Staged(p)'
    BY <1>1, EndStaged
  <1>2. ASSUME IsJob(p), OnToNext(p) PROVE Staged(p)'
    BY <1>2, NextStaged
  <1>3. CASE Submit(p) \/ JobTake(p)
    BY <1>3, Submits, JobTakes DEF KeepsTarget, KeepsClaim, IsJob, Staged, Stage,
       HandlerStages, JobStages, UpStages
  <1>4. CASE \/ JobFail(p) \/ JobEnd(p) \/ ExistingRun(p) \/ BindCommit(p) \/ UnbindCommit(p)
             \/ WatchBegin(p)
    BY <1>0, <1>1, <1>2, <1>4, JobsFail DEF Stage, JobStages, UpStages
  <1>5. CASE UpApproved(p) \/ UpMode(p) \/ UpReapprove(p) \/ UpRun(p)
    <2>1. pr[p].at \in {"up", "mode", "reapprove", "run"} /\ pr[p].op = "up"
      BY <1>5, UpsApprove, UpsMode, UpsReapprove, UpsRun DEF Staged, Stage, UpStages
    <2>2. OnToNext(p) \/ (KeepsClaim(p) /\ pr'[p].at \in UpStages)
      BY <1>5, UpsApprove, UpsMode, UpsReapprove, UpsRun DEF UpStages, KeepsTarget
    <2> QED
      BY <1>2, <2>1, <2>2 DEF KeepsClaim, IsJob, Staged, Stage, HandlerStages, JobStages,
         UpStages
  <1>6. CASE UpClear(p) \/ UpApply(p)
    <2>1. /\ pr[p].at \in {"approved", "apply"} /\ pr'[p].op = pr[p].op
          /\ pr'[p].at = "sync" /\ pr'[p].next \in {"mode", "job"}
      BY <1>6, UpsClear, UpsApply DEF KeepsTarget, KeepsClaim, GoesTo
    <2> QED
      BY <2>1 DEF IsJob, Staged, Stage, HandlerStages, JobStages, UpStages
  <1>7. CASE HandlerStopsWatch(p) \/ ConfigureStopsWatch(p)
    <2>1. /\ pr[p].at \in {"remove", "archive", "up", "quiet"} /\ pr'[p].op = pr[p].op
          /\ pr'[p].at = "stopping" /\ pr'[p].next = pr[p].at
      BY <1>7, HandlersStop DEF KeepsAll, KeepsTarget, KeepsClaim, GoesTo
    <2> QED
      BY <2>1 DEF IsJob, Staged, Stage, HandlerStages, JobStages, UpStages
  <1>8. CASE StopReturns(p)
    <2>1. CASE pr[p].next # "done"
      <3>1. /\ pr[p].at = "stopping" /\ pr'[p].op = pr[p].op /\ pr'[p].at = pr[p].next
            /\ pr[p].next \in {"edit", "remove", "archive", "up", "quiet"}
        BY <1>8, <2>1, StopsReturn DEF KeepsAll, KeepsTarget, KeepsClaim, Staged
      <3> QED
        BY <3>1 DEF IsJob, Staged, Stage, HandlerStages, JobStages, UpStages
    <2> QED
      BY <1>1, <1>8, <2>1, StopsReturn
  <1>9. CASE WatchRead(p) \/ Configure(p) \/ ConfigureEnds(p)
    <2>1. CASE WatchRead(p)
      BY <2>1, WatchesRead DEF KeepsClaim, IsJob, Staged, Stage, HandlerStages, JobStages,
         UpStages
    <2>2. CASE Configure(p)
      BY <2>2, Configures DEF KeepsAll, KeepsTarget, KeepsClaim, IsJob, Staged, Stage,
         HandlerStages, JobStages, UpStages
    <2> QED
      BY <1>1, <1>9, <2>1, <2>2, Configures
  <1>10. CASE SyncRead(p)
    <2>1. /\ pr[p].at = "sync" /\ pr'[p].op = pr[p].op /\ pr'[p].at = "write"
          /\ pr'[p].next = pr[p].next
      BY <1>10, SyncsRead DEF KeepsAll, KeepsTarget, KeepsClaim, GoesTo
    <2> QED
      BY <2>1 DEF IsJob, Staged, Stage
  <1>11. CASE SyncWrite(p) \/ SyncFail(p)
    <2>1. CASE pr[p].next # "done"
      <3>1. pr[p].at = "write" /\ pr[p].next \in {"mode", "job"}
        BY <1>11, <2>1, SyncsReturn DEF Staged
      <3>2. IsJob(p)
        BY <1>0, <3>1 DEF Stage, JobStages, UpStages
      <3>3. CASE pr[p].next = "mode" /\ pr'[p].at = "mode" /\ KeepsAll(p)
        BY <3>1, <3>3 DEF KeepsAll, KeepsTarget, KeepsClaim, IsJob, Staged, Stage,
           HandlerStages, JobStages, UpStages
      <3> QED
        BY <1>2, <1>11, <2>1, <3>2, <3>3, SyncsReturn
    <2> QED
      BY <1>1, <1>11, <2>1, SyncsReturn
  <1> QED
    BY <1>3, <1>4, <1>5, <1>6, <1>7, <1>8, <1>9, <1>10, <1>11 DEF Work

(* So does every turn. *)
LEMMA TurnStaged ==
    ASSUME Shape, NEW p \in Proc, Staged(p), Turn(p)
    PROVE  Staged(p)'
  BY RequestStaged, CommitStaged, WorkStaged DEF Turn
--------------------------------------------------------------------------------
(* The claims: operations that conflict never hold theirs together, and no *)
(* operation holds one on the application that a handler works on under    *)
(* Service.mutation.                                                       *)
Clear(id) == \A q \in Proc : Holds(q) => ~IsGlobal(pr[q].op) /\ id \notin pr[q].ids

Compatible ==
    \A p, q \in Proc : p # q /\ Holds(p) /\ Holds(q) =>
        /\ ~IsGlobal(pr[p].op) /\ pr[p].ids \cap pr[q].ids = {}
        /\ ~(pr[p].op = "up" /\ pr[q].op = "up")

Locked(p) ==
    /\ Stage(p) \in {"remove", "archive"} => p \in mutation
    /\ pr[p].at = "stopping" /\ pr[p].next = "edit" => p \in mutation
    /\ p \in mutation =>
          /\ mutation = {p}
          /\ \/ pr[p].at \in {"sync", "write"} /\ pr[p].next = "done"
             \/ Stage(p) \in {"edit", "remove", "archive"} /\ Clear(pr[p].id)

ClaimInv ==
    /\ Shape /\ Compatible
    /\ \A p \in Proc : Staged(p) /\ Locked(p)

(* What Busy finds idle, nobody claims. *)
LEMMA IdleIsClear ==
    ASSUME NEW ids, NEW id \in ids, ~Busy(ids)
    PROVE  Clear(id)
  BY DEF Busy, Clear

(* An operation has its claim from Submit to its end. *)
LEMMA HoldsByStage ==
    ASSUME NEW p \in Proc, Staged(p)
    PROVE  Holds(p) <=> Stage(p) \in JobStages \ {"select"}
  BY DEF Holds, Staged, Stage, HandlerStages, JobStages, UpStages

(* The same after a step. *)
LEMMA HoldsNext ==
    ASSUME NEW p \in Proc, Staged(p)'
    PROVE  Holds(p)' <=> Stage(p)' \in JobStages \ {"select"}
  BY DEF Holds, Staged, Stage, HandlerStages, JobStages, UpStages, IsJob

TakesClaim(p) ==
    /\ Free /\ UNCHANGED mutation /\ Holds(p)'
    /\ \A q \in Proc \ {p} : Holds(q) =>
          /\ ~IsGlobal(pr[q].op) /\ ~IsGlobal(pr'[p].op)
          /\ pr[q].ids \cap pr'[p].ids = {}
          /\ ~(pr'[p].op = "up" /\ pr[q].op = "up")
SameClaim(p) == Holds(p) /\ Holds(p)' /\ pr'[p].op = pr[p].op /\ pr'[p].ids = pr[p].ids

(* A request that begins takes a claim on what was idle, takes the free lock, or neither. *)
LEMMA RequestClaims ==
    ASSUME Shape, NEW p \in Proc, Request(p)
    PROVE  /\ pr[p].at = "idle" /\ ~Holds(p) /\ (~Holds(p)' \/ TakesClaim(p))
           /\ \/ UNCHANGED mutation /\ pr'[p].at \notin {"remove", "archive"}
                 /\ (pr'[p].at = "stopping" => pr'[p].next = "done")
              \/ /\ mutation = {} /\ mutation' = {p} /\ pr'[p].at = "remove"
                 /\ Clear(pr'[p].id)
  <1> DEFINE Quietly == UNCHANGED mutation /\ pr'[p].at \notin {"remove", "archive"}
                 /\ (pr'[p].at = "stopping" => pr'[p].next = "done")
             Begun == pr[p].at = "idle" /\ ~Holds(p)' /\ Quietly
  <1>0. ASSUME pr[p].at = "idle" PROVE ~Holds(p)
    BY <1>0 DEF Holds
  <1>1. ASSUME NEW x, NEW k,
               k \notin {"up", "stop", "restart", "bind", "unbind", "watch", "configure"},
               Fresh(p, x, k), x \notin {"remove", "archive", "stopping"}, UNCHANGED mutation
        PROVE  Begun
    BY <1>1 DEF Fresh, Holds, IsJob
  <1>2. ASSUME NEW a \in App, NEW g \in Group, NEW c \in Config,
               RegisterRead(p, a, g, c) \/ EditRead(p, a, g, c)
        PROVE  Begun
    <2>1. UNCHANGED mutation
      BY <1>2 DEF RegisterRead, EditRead, OnlyReads
    <2> QED
      BY <1>1, <1>2, <2>1, RegisterReads, EditReads
  <1>3. ASSUME NEW a \in App, RemoveObserve(p, a)
        PROVE  /\ pr[p].at = "idle" /\ ~Holds(p)'
               /\ mutation = {} /\ mutation' = {p} /\ pr'[p].at = "remove"
               /\ Clear(pr'[p].id)
    <2>1. mutation = {} /\ mutation' = {p} /\ ~Busy({Id(a)})
      BY <1>3 DEF RemoveObserve, Free
    <2> QED
      BY <1>3, <2>1, RemoveBegins, IdleIsClear DEF Fresh, Holds, IsJob
  <1>4. ASSUME NEW a \in App, ArchiveReview(p, a)
        PROVE  Begun
    <2>1. UNCHANGED mutation
      BY <1>4 DEF ArchiveReview, OnlyReads
    <2> QED
      BY <1>4, <2>1, ArchiveReads DEF Fresh, Holds, IsJob
  <1>5. ASSUME NEW g, NEW r, NEW a, NEW m,
               RestoreRead(p, a) \/ DeleteGroupRead(p, g) \/ RemoveRootRead(p, r)
               \/ TrustRead(p, a, m)
        PROVE  Begun
    <2>1. UNCHANGED mutation
      BY <1>5 DEF RestoreRead, DeleteGroupRead, RemoveRootRead, TrustRead, OnlyReads
    <2> QED
      BY <1>1, <1>5, <2>1, SmallReads
  <1>6. ASSUME NEW g, NEW r, CreateGroup(p, g) \/ AddRoot(p, r)
        PROVE  Begun
    <2>1. UNCHANGED mutation
      BY <1>6 DEF CreateGroup, AddRoot, ThenDone
    <2> QED
      BY <1>6, <2>1, SmallCommits DEF Ends, Blank, Holds
  <1>7. ASSUME NEW k, NEW a, NEW m, SelectAction(p, k, m) \/ SelectBinding(p, k, a, m)
        PROVE  Begun
    <2>1. UNCHANGED mutation
      BY <1>7 DEF SelectAction, Select, SelectBinding, OnlyReads
    <2> QED
      BY <1>7, <2>1, ActionSelects, BindingSelects DEF Fresh, Holds
  <1>8. ASSUME NEW id, StartWatch(p, id)
        PROVE  pr[p].at = "idle" /\ TakesClaim(p) /\ Quietly
    <2>1. UNCHANGED mutation /\ Free /\ ~Busy({id})
      BY <1>8 DEF StartWatch, OnlyReads
    <2>2. Fresh(p, "watch", "watch") /\ pr'[p].ids = {id}
      BY <1>8, WatchStarts
    <2> QED
      BY <2>1, <2>2, IdleIsClear DEF Clear, Fresh, TakesClaim, Holds, IsJob, IsGlobal
  <1>9. ASSUME NEW e, ClientStopsWatch(p, e)
        PROVE  Begun
    <2>1. UNCHANGED mutation
      BY <1>9 DEF ClientStopsWatch, OnlyReads
    <2> QED
      BY <1>9, <2>1, ClientStops DEF Fresh, Holds, IsJob
  <1>10. ASSUME ConfigureSubmit(p)
         PROVE  pr[p].at = "idle" /\ TakesClaim(p) /\ Quietly
    <2>1. UNCHANGED mutation /\ Free /\ \A q \in Proc : ~Holds(q)
      BY <1>10 DEF ConfigureSubmit, OnlyReads, Busy
    <2> QED
      BY <1>10, <2>1, ConfigureStarts DEF Fresh, TakesClaim, Holds, IsJob
  <1> QED
    BY <1>0, <1>2, <1>3, <1>4, <1>5, <1>6, <1>7, <1>8, <1>9, <1>10 DEF Request

(* A commit holds no claim, and lets go of the lock or keeps it on its application. *)
LEMMA CommitClaims ==
    ASSUME Shape, NEW p \in Proc, Staged(p), Locked(p), Commit(p)
    PROVE  /\ ~Holds(p) /\ ~Holds(p)'
           /\ \/ Ends(p) /\ mutation' = mutation \ {p}
              \/ /\ mutation \subseteq {p} /\ mutation' = {p}
                 /\ \/ GoesTo(p, "sync", "done")
                    \/ Stage(p)' \in {"edit", "archive"} /\ Clear(pr'[p].id)
  <1>1. ~Holds(p) /\ ~Holds(p)'
    <2>1. Stage(p) \in HandlerStages \cup {"select"}
      BY CommitsEnd, EditStops, EditSyncs, RemoveSyncs, ArchiveObserves, ArchiveSyncs,
         RestoreSyncs DEF Commit, Stage, HandlerStages
    <2>2. Ends(p) \/ Stage(p)' \in HandlerStages
      BY CommitsEnd, EditStops, EditSyncs, RemoveSyncs, ArchiveObserves, ArchiveSyncs,
         RestoreSyncs DEF Commit, Stage, HandlerStages, GoesTo
    <2> QED
      BY <2>1, <2>2, HoldsByStage, HoldsNext, CommitStaged, EndStaged
         DEF HandlerStages, JobStages, UpStages, Ends, Blank, Holds
  <1>2. CASE \/ RegisterCommit(p) \/ DeleteGroupCommit(p) \/ RemoveRootCommit(p)
             \/ TrustCommit(p) \/ Abandon(p)
    BY <1>1, <1>2, CommitsEnd DEF RegisterCommit, DeleteGroupCommit, RemoveRootCommit, TrustCommit,
       Abandon, ThenDone, Free
  <1>3. CASE EditStopWatch(p)
    BY <1>1, <1>3, EditStops, IdleIsClear DEF EditStopWatch, EditIdle, Stage, GoesTo, KeepsAll,
       KeepsTarget
  <1>4. CASE EditCommit(p)
    BY <1>1, <1>4, EditSyncs DEF EditCommit, EditIdle, ThenSync
  <1>5. CASE RemoveCommit(p) \/ ArchiveCommit(p)
    <2>1. pr[p].at \in {"remove", "archive"} /\ GoesTo(p, "sync", "done")
      BY <1>5, RemoveSyncs, ArchiveSyncs
    <2>2. mutation' = mutation \cup {p}
      BY <1>5 DEF RemoveCommit, ArchiveCommit, ThenSync
    <2> QED
      BY <1>1, <2>1, <2>2 DEF Locked, Stage
  <1>6. CASE ArchiveObserve(p)
    BY <1>1, <1>6, ArchiveObserves, IdleIsClear DEF ArchiveObserve, Free, Stage, KeepsAll,
       KeepsTarget
  <1>7. CASE RestoreCommit(p)
    BY <1>1, <1>7, RestoreSyncs DEF RestoreCommit, Free, ThenSync
  <1> QED
    BY <1>1, <1>2, <1>3, <1>4, <1>5, <1>6, <1>7 DEF Commit

(* An operation takes its claim when it is idle and keeps it unchanged to its end. *)
LEMMA WorkClaims ==
    ASSUME Shape, NEW p \in Proc, Staged(p), Locked(p), Work(p)
    PROVE  \/ TakesClaim(p) /\ ~Holds(p)
           \/ SameClaim(p) /\ UNCHANGED mutation
           \/ Ends(p) /\ mutation' = mutation \ {p}
           \/ /\ ~Holds(p) /\ ~Holds(p)' /\ UNCHANGED mutation
              /\ Stage(p)' = Stage(p) /\ pr'[p].id = pr[p].id
              /\ pr[p].at \in {"sync", "write"} => pr'[p].at \in {"sync", "write"}
              /\ pr'[p].at = "stopping" => pr'[p].next # "edit"
  <1>0. Staged(p)'
    BY WorkStaged
  <1>1. ASSUME Stage(p) \in JobStages \ {"select"}, KeepsClaim(p),
               Stage(p)' \in JobStages \ {"select"}
        PROVE  SameClaim(p) /\ p \notin mutation
    BY <1>0, <1>1, HoldsByStage, HoldsNext DEF SameClaim, KeepsClaim, Locked, Stage, JobStages,
       UpStages
  <1>2. ASSUME OnToNext(p)
        PROVE  Stage(p)' = "job" /\ KeepsClaim(p)
    BY <1>2 DEF OnToNext, Stage
  <1>3. CASE Submit(p)
    <2>1. /\ Free /\ UNCHANGED mutation
          /\ ~Busy(IF IsGlobal(pr[p].op) THEN {} ELSE pr[p].ids)
          /\ pr[p].op = "up" => \A q \in Proc : Holds(q) => pr[q].op # "up"
      BY <1>3 DEF Submit, OnlyReads
    <2>2. pr[p].at = "select" /\ KeepsClaim(p) /\ pr'[p].at \in {"bind", "job"}
      BY <1>3, Submits DEF KeepsTarget
    <2>3. ~Holds(p) /\ Holds(p)'
      BY <1>0, <2>2, HoldsNext DEF Holds, Stage, JobStages
    <2>4. ASSUME NEW q \in Proc \ {p}, Holds(q)
          PROVE  /\ ~IsGlobal(pr[q].op) /\ ~IsGlobal(pr'[p].op)
                 /\ pr[q].ids \cap pr'[p].ids = {}
                 /\ ~(pr'[p].op = "up" /\ pr[q].op = "up")
      BY <2>1, <2>2, <2>4 DEF Busy, KeepsClaim
    <2> QED
      BY <2>1, <2>3, <2>4 DEF TakesClaim
  <1>4. CASE JobTake(p)
    <2>1. pr[p].at = "job" /\ KeepsClaim(p) /\ pr'[p].at \in {"job", "bind", "up"}
      BY <1>4, JobTakes
    <2>2. UNCHANGED mutation
      BY <1>4 DEF JobTake, OnlyReads
    <2> QED
      BY <1>1, <2>1, <2>2 DEF Stage, JobStages
  <1>5. CASE \/ JobFail(p) \/ ExistingRun(p) \/ BindCommit(p) \/ UnbindCommit(p)
             \/ WatchBegin(p)
    <2>1. pr[p].at \in JobStages \ {"select"} /\ OnToNext(p)
      BY <1>5, JobsFail DEF JobStages, UpStages
    <2>2. UNCHANGED mutation
      BY <1>5 DEF JobFail, ExistingRun, BindCommit, UnbindCommit, WatchBegin, OnlyReads
    <2> QED
      BY <1>1, <1>2, <2>1, <2>2 DEF Stage, JobStages, UpStages
  <1>6. CASE UpApproved(p) \/ UpMode(p) \/ UpReapprove(p) \/ UpRun(p)
    <2>1. pr[p].at \in {"up", "mode", "reapprove", "run"}
      BY <1>6, UpsApprove, UpsMode, UpsReapprove, UpsRun
    <2>2. OnToNext(p) \/ (KeepsClaim(p) /\ pr'[p].at \in UpStages)
      BY <1>6, UpsApprove, UpsMode, UpsReapprove, UpsRun DEF UpStages, KeepsTarget
    <2>3. UNCHANGED mutation
      BY <1>6 DEF UpApproved, UpMode, UpReapprove, UpRun, OnlyReads
    <2> QED
      BY <1>1, <1>2, <2>1, <2>2, <2>3 DEF Stage, JobStages, UpStages
  <1>7. CASE UpClear(p) \/ UpApply(p)
    <2>1. /\ pr[p].at \in {"approved", "apply"} /\ KeepsClaim(p)
          /\ pr'[p].at = "sync" /\ pr'[p].next \in {"mode", "job"}
      BY <1>7, UpsClear, UpsApply DEF KeepsTarget, GoesTo
    <2>2. UNCHANGED mutation
      BY <1>7 DEF UpClear, UpApply
    <2> QED
      BY <1>1, <2>1, <2>2 DEF Stage, JobStages, UpStages
  <1>8. CASE HandlerStopsWatch(p) \/ ConfigureStopsWatch(p)
    <2>1. /\ pr[p].at \in {"remove", "archive", "up", "quiet"} /\ KeepsClaim(p)
          /\ pr'[p].at = "stopping" /\ pr'[p].next = pr[p].at /\ pr'[p].id = pr[p].id
      BY <1>8, HandlersStop DEF KeepsAll, KeepsTarget, GoesTo
    <2>2. UNCHANGED mutation
      BY <1>8 DEF HandlerStopsWatch, ConfigureStopsWatch
    <2>3. Stage(p)' = Stage(p)
      BY <2>1 DEF Stage
    <2>4. CASE pr[p].at \in {"up", "quiet"}
      BY <1>1, <2>1, <2>2, <2>3, <2>4 DEF Stage, JobStages
    <2>5. CASE pr[p].at \in {"remove", "archive"}
      <3>1. ~Holds(p) /\ ~Holds(p)'
        BY <1>0, <2>1, <2>3, <2>5, HoldsByStage, HoldsNext DEF Stage, JobStages, UpStages
      <3> QED
        BY <2>1, <2>2, <2>3, <2>5, <3>1
    <2> QED
      BY <2>1, <2>4, <2>5
  <1>9. CASE StopReturns(p)
    <2>0. UNCHANGED mutation /\ pr[p].at = "stopping"
      BY <1>9, StopsReturn DEF StopReturns
    <2>1. CASE pr[p].next = "done"
      BY <1>9, <2>0, <2>1, StopsReturn DEF Locked, Stage
    <2>2. CASE pr[p].next # "done"
      <3>1. /\ KeepsClaim(p) /\ pr'[p].id = pr[p].id /\ pr'[p].at = pr[p].next
            /\ pr[p].next \in {"edit", "remove", "archive", "up", "quiet"}
        BY <1>9, <2>0, <2>2, StopsReturn DEF KeepsAll, KeepsTarget, Staged
      <3>2. Stage(p)' = Stage(p) /\ Stage(p) = pr[p].next
        BY <2>0, <3>1 DEF Stage
      <3>3. CASE pr[p].next \in {"up", "quiet"}
        BY <1>1, <2>0, <3>1, <3>2, <3>3 DEF JobStages
      <3>4. CASE pr[p].next \in {"edit", "remove", "archive"}
        <4>1. ~Holds(p) /\ ~Holds(p)'
          BY <1>0, <3>2, <3>4, HoldsByStage, HoldsNext DEF JobStages, UpStages
        <4> QED
          BY <2>0, <3>1, <3>2, <4>1
      <3> QED
        BY <3>1, <3>3, <3>4
    <2> QED
      BY <2>1, <2>2
  <1>10. CASE WatchRead(p) \/ Configure(p)
    <2>1. /\ pr[p].at \in {"watch", "quiet"} /\ KeepsClaim(p)
          /\ pr'[p].at \in {"follow", "configure"}
      BY <1>10, WatchesRead, Configures DEF KeepsAll, KeepsTarget
    <2>2. UNCHANGED mutation
      BY <1>10 DEF WatchRead, Configure, OnlyReads
    <2> QED
      BY <1>1, <2>1, <2>2 DEF Stage, JobStages
  <1>11. CASE JobEnd(p) \/ ConfigureEnds(p)
    <2>1. Ends(p) /\ pr[p].at \in {"job", "configure"}
      BY <1>11, JobsFail, Configures
    <2>2. UNCHANGED mutation /\ p \notin mutation
      BY <1>11, <2>1 DEF JobEnd, ConfigureEnds, OnlyReads, Locked, Stage
    <2> QED
      BY <2>1, <2>2
  <1>12. CASE SyncRead(p)
    <2>1. /\ pr[p].at = "sync" /\ KeepsClaim(p) /\ pr'[p].at = "write"
          /\ pr'[p].next = pr[p].next /\ pr'[p].id = pr[p].id
          /\ pr[p].next \in {"done", "mode", "job"}
      BY <1>12, SyncsRead DEF KeepsAll, KeepsTarget, GoesTo, Staged
    <2>2. UNCHANGED mutation
      BY <1>12 DEF SyncRead
    <2>3. Stage(p)' = Stage(p) /\ Stage(p) = pr[p].next
      BY <2>1 DEF Stage
    <2>4. CASE pr[p].next \in {"mode", "job"}
      BY <1>1, <2>1, <2>2, <2>3, <2>4 DEF JobStages, UpStages
    <2>5. CASE pr[p].next = "done"
      <3>1. ~Holds(p) /\ ~Holds(p)'
        BY <1>0, <2>3, <2>5, HoldsByStage, HoldsNext DEF JobStages, UpStages
      <3> QED
        BY <2>1, <2>2, <2>3, <3>1
    <2> QED
      BY <2>1, <2>4, <2>5
  <1>13. CASE SyncWrite(p) \/ SyncFail(p)
    <2>1. pr[p].at = "write" /\ pr[p].next \in {"done", "mode", "job"}
      BY <1>13, SyncsReturn DEF Staged
    <2>2. mutation' = mutation \ {p}
      BY <1>13 DEF SyncWrite, SyncFail, Return
    <2>3. CASE pr[p].next = "done"
      BY <1>13, <2>2, <2>3, SyncsReturn
    <2>4. CASE pr[p].next # "done"
      <3>1. Stage(p) \in JobStages \ {"select"}
        BY <2>1, <2>4 DEF Stage, JobStages, UpStages
      <3>2. KeepsClaim(p) /\ pr'[p].at \in {"mode", "job"}
        BY <1>13, <2>4, SyncsReturn DEF KeepsAll, KeepsTarget, OnToNext
      <3> QED
        BY <1>1, <2>2, <3>1, <3>2 DEF Stage, JobStages, UpStages
    <2> QED
      BY <2>3, <2>4
  <1> QED
    BY <1>3, <1>4, <1>5, <1>6, <1>7, <1>8, <1>9, <1>10, <1>11, <1>12, <1>13 DEF Work

(* A process takes a claim nobody objects to, keeps its own or has none,   *)
(* and takes the lock only when it is free.                                *)
LEMMA TurnClaims ==
    ASSUME ClaimInv, NEW p \in Proc, Turn(p)
    PROVE  /\ (TakesClaim(p) /\ ~Holds(p)) \/ SameClaim(p) \/ ~Holds(p)'
           /\ \/ mutation' \in {mutation, mutation \ {p}}
              \/ mutation \subseteq {p} /\ mutation' = {p}
  <1>1. ASSUME Ends(p) PROVE ~Holds(p)'
    BY <1>1 DEF Ends, Blank, Holds
  <1>2. CASE Request(p)
    BY <1>2, RequestClaims DEF ClaimInv
  <1>3. CASE Commit(p)
    BY <1>3, CommitClaims DEF ClaimInv
  <1>4. CASE Work(p)
    BY <1>1, <1>4, WorkClaims DEF ClaimInv, TakesClaim
  <1> QED
    BY <1>2, <1>3, <1>4 DEF Turn

(* No turn of a process makes two claims conflict. *)
LEMMA TurnKeepsClaims ==
    ASSUME ClaimInv, NEW p \in Proc, Turn(p)
    PROVE  ClaimInv'
  <1>0. /\ Shape' /\ \A q \in Proc \ {p} : pr'[q] = pr[q]
        /\ \A q \in Proc \ {p} : Holds(q)' <=> Holds(q)
        /\ \A q \in Proc \ {p} : Stage(q)' = Stage(q)
    BY TurnShape DEF ClaimInv, Holds, IsJob, Stage
  <1>1. Compatible'
    <2>1. ASSUME NEW q \in Proc \ {p}, Holds(q), Holds(p)'
          PROVE  /\ ~IsGlobal(pr[q].op) /\ ~IsGlobal(pr'[p].op)
                 /\ pr[q].ids \cap pr'[p].ids = {}
                 /\ ~(pr'[p].op = "up" /\ pr[q].op = "up")
      BY <2>1, TurnClaims DEF ClaimInv, Compatible, TakesClaim, SameClaim
    <2>2. \A q, r \in Proc \ {p} : q # r /\ Holds(q)' /\ Holds(r)' =>
             /\ ~IsGlobal(pr'[q].op) /\ pr'[q].ids \cap pr'[r].ids = {}
             /\ ~(pr'[q].op = "up" /\ pr'[r].op = "up")
      BY <1>0 DEF ClaimInv, Compatible
    <2> QED
      BY <1>0, <2>1, <2>2 DEF Compatible
  <1>2. Staged(p)' /\ \A q \in Proc \ {p} : Staged(q)'
    BY <1>0, TurnStaged DEF ClaimInv, Staged, IsJob
  <1>3. ASSUME NEW id, Clear(id), ~Holds(p)' PROVE Clear(id)'
    BY <1>0, <1>3 DEF Clear
  <1>4. Locked(p)'
    <2>0. Staged(p) /\ Locked(p)
      BY DEF ClaimInv
    <2>1. ASSUME Ends(p), p \notin mutation' PROVE Locked(p)'
      BY <2>1 DEF Ends, Blank, Locked, Stage
    <2>2. CASE Request(p)
      <3>1. pr[p].at = "idle" /\ p \notin mutation
        BY <2>0, <2>2, RequestClaims DEF ClaimInv, Locked, Stage
      <3>2. CASE UNCHANGED mutation /\ pr'[p].at \notin {"remove", "archive"}
                 /\ (pr'[p].at = "stopping" => pr'[p].next = "done")
        BY <1>2, <3>1, <3>2 DEF Locked, Stage, Staged
      <3>3. CASE /\ mutation = {} /\ mutation' = {p} /\ pr'[p].at = "remove"
                 /\ Clear(pr'[p].id) /\ ~Holds(p)'
        BY <1>3, <3>3 DEF Locked, Stage
      <3> QED
        BY <1>2, <2>2, <3>2, <3>3, RequestClaims, HoldsNext DEF ClaimInv, Stage, JobStages,
           UpStages
    <2>3. CASE Commit(p)
      <3>1. CASE Ends(p) /\ mutation' = mutation \ {p}
        BY <2>1, <3>1
      <3>2. CASE mutation' = {p} /\ GoesTo(p, "sync", "done")
        BY <3>2 DEF Locked, Stage, GoesTo
      <3>3. CASE /\ mutation' = {p} /\ ~Holds(p)' /\ Clear(pr'[p].id)
                 /\ Stage(p)' \in {"edit", "archive"}
        BY <1>3, <3>3 DEF Locked
      <3> QED
        BY <2>0, <2>3, <3>1, <3>2, <3>3, CommitClaims DEF ClaimInv
    <2>4. CASE Work(p)
      <3>1. CASE Holds(p)' /\ UNCHANGED mutation
        <4>1. p \notin mutation
          BY <3>1, <2>0, <2>4, WorkClaims, HoldsByStage
             DEF ClaimInv, SameClaim, TakesClaim, Locked, Stage, JobStages, UpStages, Free
        <4> QED
          BY <1>2, <3>1, <4>1, HoldsNext DEF Locked, Stage, JobStages, UpStages
      <3>2. CASE Ends(p) /\ mutation' = mutation \ {p}
        BY <2>1, <3>2
      <3>3. CASE /\ ~Holds(p) /\ ~Holds(p)' /\ UNCHANGED mutation
                 /\ Stage(p)' = Stage(p) /\ pr'[p].id = pr[p].id
                 /\ pr[p].at \in {"sync", "write"} => pr'[p].at \in {"sync", "write"}
                 /\ pr'[p].at = "stopping" => pr'[p].next # "edit"
        <4>1. Stage(p)' \in {"remove", "archive"} => p \in mutation'
          BY <2>0, <3>3 DEF Locked
        <4>2. ASSUME p \in mutation'
              PROVE  \/ pr'[p].at \in {"sync", "write"} /\ pr'[p].next = "done"
                     \/ Stage(p)' \in {"edit", "remove", "archive"} /\ Clear(pr[p].id)'
          <5>1. CASE pr[p].at \in {"sync", "write"} /\ pr[p].next = "done"
            BY <3>3, <5>1 DEF Stage
          <5>2. CASE Stage(p) \in {"edit", "remove", "archive"} /\ Clear(pr[p].id)
            BY <1>3, <3>3, <5>2
          <5> QED
            BY <2>0, <3>3, <4>2, <5>1, <5>2 DEF Locked
        <4>3. p \in mutation' => mutation' = {p}
          BY <2>0, <3>3 DEF Locked
        <4> QED
          BY <3>3, <4>1, <4>2, <4>3 DEF Locked, Clear
      <3> QED
        BY <2>0, <2>4, <3>1, <3>2, <3>3, WorkClaims DEF ClaimInv, TakesClaim, SameClaim
    <2> QED
      BY <2>2, <2>3, <2>4 DEF Turn
  <1>5. ASSUME NEW q \in Proc \ {p} PROVE Locked(q)'
    <2>1. Locked(q) /\ pr'[q] = pr[q] /\ Stage(q)' = Stage(q)
      BY <1>0 DEF ClaimInv
    <2>2. CASE q \in mutation
      <3>1. mutation' = mutation /\ ~TakesClaim(p)
        BY <2>1, <2>2, TurnClaims DEF Locked, TakesClaim, Free
      <3>2. ASSUME NEW id, Clear(id) PROVE Clear(id)'
        BY <1>0, <1>3, <3>1, <3>2, TurnClaims DEF Clear, SameClaim
      <3> QED
        BY <2>1, <3>1, <3>2 DEF Locked
    <2>3. CASE q \notin mutation
      BY <2>1, <2>3, TurnClaims DEF Locked
    <2> QED
      BY <2>2, <2>3
  <1> QED
    BY <1>0, <1>1, <1>2, <1>4, <1>5 DEF ClaimInv

(* The death of the agent leaves no claim. *)
LEMMA CrashClaims ==
    ASSUME ClaimInv, Crash
    PROVE  ClaimInv' /\ \A p \in Proc : pr'[p] = Blank
  <1>1. (\A p \in Proc : pr'[p] = Blank) /\ mutation' = {}
    BY DEF Crash
  <1>2. Shape'
    BY ShapeStep DEF ClaimInv, Next
  <1> QED
    BY <1>1, <1>2 DEF ClaimInv, Blank, Compatible, Holds, Staged, Locked, Stage, HandlerStages,
       JobStages, UpStages

(* What happens elsewhere changes no claim. *)
LEMMA ElsewhereClaims ==
    ASSUME ClaimInv, Elsewhere
    PROVE  ClaimInv'
  BY ElsewhereKeeps DEF ClaimInv, Shape, Compatible, Holds, IsJob, Staged, Locked, Stage, Clear,
     catalog

(* The claims never conflict, whatever the step. *)
LEMMA ClaimStep ==
    ASSUME ClaimInv, [Next]_vars
    PROVE  ClaimInv'
  BY Steps, TurnKeepsClaims, CrashClaims, ElsewhereClaims
--------------------------------------------------------------------------------
(* The routes: the file follows the catalog whoever writes it.             *)

(* Each request that registers has an application of its own, and it is in *)
(* the catalog when that request commits, never before.                    *)
Registering ==
    /\ \A p \in Proc : pr[p].at = "register" => pr[p].app \in App /\ place[pr[p].app] = "none"
    /\ \A p, q \in Proc :
          p # q /\ pr[p].at = "register" /\ pr[q].at = "register" => pr[p].app # pr[q].app

(* Who writes the file holds Proxy.mu; what it read is old only when       *)
(* somebody else is about to write.                                        *)
Writing ==
    /\ \A p \in Proc : pr[p].at = "write" <=> p \in routing
    /\ \A p, q \in Proc : p \in routing /\ q \in routing => p = q
    /\ (\E p \in Proc : pr[p].at = "write") =>
          pending = Wanted \/ \E q \in Proc : pr[q].at = "sync"

RouteInv == Shape /\ Registering /\ Writing /\ RoutesFollow

Routed(a) == IF place[a] = "active" THEN rec[a].applied ELSE {}

(* The routes of the catalog are those of its applications. *)
LEMMA WantedSame ==
    ASSUME \A a \in App : Routed(a)' = Routed(a)
    PROVE  Wanted' = Wanted
  <1> DEFINE Has(x) == \E a \in App : x \in {a} \X Routed(a)
  <1>1. \A x : x \in Wanted <=> Has(x)
    BY DEF Wanted, Links, Routed
  <1>2. \A x : x \in Wanted' <=> Has(x)'
    BY DEF Wanted, Links, Routed
  <1>3. \A x : Has(x)' <=> Has(x)
    OBVIOUS
  <1> QED
    BY <1>1, <1>2, <1>3

(* What a request does before its lock changes neither. *)
LEMMA RequestCatalog ==
    ASSUME NEW p \in Proc, Request(p)
    PROVE  UNCHANGED <<place, rec, bindings, kept, routes, running, outlived, unseen, watches,
                       followed>>
  <1> USE DEF catalog, routes, docker, OnlyReads, ThenDone
  <1>1. ASSUME NEW a, NEW g, NEW c, RegisterRead(p, a, g, c) \/ EditRead(p, a, g, c)
        PROVE  UNCHANGED <<place, rec, bindings, kept, routes, running, outlived, unseen,
                           watches, followed>>
    BY <1>1 DEF RegisterRead, EditRead
  <1>2. ASSUME NEW a, RemoveObserve(p, a) \/ ArchiveReview(p, a) \/ RestoreRead(p, a)
        PROVE  UNCHANGED <<place, rec, bindings, kept, routes, running, outlived, unseen,
                           watches, followed>>
    BY <1>2 DEF RemoveObserve, ArchiveReview, RestoreRead
  <1>3. ASSUME NEW g, NEW r, \/ CreateGroup(p, g) \/ DeleteGroupRead(p, g)
                             \/ AddRoot(p, r) \/ RemoveRootRead(p, r)
        PROVE  UNCHANGED <<place, rec, bindings, kept, routes, running, outlived, unseen,
                           watches, followed>>
    BY <1>3 DEF CreateGroup, DeleteGroupRead, AddRoot, RemoveRootRead
  <1>4. ASSUME NEW k, NEW a, NEW m,
               TrustRead(p, a, m) \/ SelectAction(p, k, m) \/ SelectBinding(p, k, a, m)
        PROVE  UNCHANGED <<place, rec, bindings, kept, routes, running, outlived, unseen,
                           watches, followed>>
    BY <1>4 DEF TrustRead, SelectAction, Select, SelectBinding
  <1>5. ASSUME NEW id, NEW e, StartWatch(p, id) \/ ClientStopsWatch(p, e) \/ ConfigureSubmit(p)
        PROVE  UNCHANGED <<place, rec, bindings, kept, routes, running, outlived, unseen,
                           watches, followed>>
    BY <1>5 DEF StartWatch, ClientStopsWatch, ConfigureSubmit
  <1> HIDE DEF catalog, routes, docker, OnlyReads, ThenDone
  <1> QED
    BY <1>1, <1>2, <1>3, <1>4, <1>5 DEF Request

(* An application enters the catalog only by the request that registers it. *)
LEMMA TurnUnregistered ==
    ASSUME Shape, NEW p \in Proc, Turn(p), NEW b \in App, place[b] = "none"
    PROVE  place'[b] = "none" \/ (RegisterCommit(p) /\ b = pr[p].app)
  <1>1. CASE Request(p)
    BY <1>1, RequestCatalog
  <1>2. CASE Commit(p)
    BY <1>2 DEF Commit, Shape, RegisterCommit, EditStopWatch, StopWatch, EditCommit, RemoveCommit,
       Lookup, ArchiveObserve, ArchiveCommit, RestoreCommit, DeleteGroupCommit, RemoveRootCommit,
       TrustCommit, Abandon, catalog
  <1>3. CASE Work(p)
    BY <1>3 DEF Work, Submit, JobTake, JobFail, JobEnd, ExistingRun, UpApproved, UpClear, UpMode,
       UpReapprove, UpRun, UpApply, BindCommit, UnbindCommit, HandlerStopsWatch, StopWatch,
       StopReturns, WatchRead, WatchBegin, ConfigureStopsWatch, Configure, ConfigureEnds, SyncRead,
       SyncWrite, SyncFail, OnlyReads, catalog
  <1> QED
    BY <1>1, <1>2, <1>3 DEF Turn

(* A commit that changes the routes of the catalog goes on to write them. *)
LEMMA CommitRoutes ==
    ASSUME Shape, Registering, NEW p \in Proc, Commit(p)
    PROVE  Wanted' = Wanted \/ pr'[p].at = "sync"
  <1>1. CASE RegisterCommit(p)
    <2>1. /\ pr[p].app \in App /\ place[pr[p].app] = "none"
          /\ rec' = [rec EXCEPT ![pr[p].app] = NewStack(pr[p].group, pr[p].config)]
          /\ place' = [place EXCEPT ![pr[p].app] = "active"]
      BY <1>1 DEF RegisterCommit, Registering
    <2>2. \A a \in App : Routed(a)' = Routed(a)
      BY <2>1 DEF Shape, Routed, NewStack
    <2> QED
      BY <2>2, WantedSame
  <1>2. CASE EditCommit(p) \/ RemoveCommit(p) \/ ArchiveCommit(p) \/ RestoreCommit(p)
    BY <1>2, EditSyncs, RemoveSyncs, ArchiveSyncs, RestoreSyncs DEF GoesTo
  <1>3. CASE \/ EditStopWatch(p) \/ ArchiveObserve(p) \/ DeleteGroupCommit(p) \/ RemoveRootCommit(p)
             \/ Abandon(p)
    <2>1. UNCHANGED <<place, rec>>
      BY <1>3 DEF EditStopWatch, StopWatch, ArchiveObserve, DeleteGroupCommit, RemoveRootCommit,
         Abandon, catalog
    <2> QED
      BY <2>1, WantedSame DEF Routed
  <1>4. CASE TrustCommit(p)
    <2>1. place' = place /\ \E a \in App : rec' = [rec EXCEPT ![a] = Approve(@, pr[p].mode, pr[p].seen)]
      BY <1>4 DEF TrustCommit, Lookup
    <2>2. \A a \in App : Routed(a)' = Routed(a)
      BY <2>1 DEF Shape, StackFields, Routed, Approve
    <2> QED
      BY <2>2, WantedSame
  <1> QED
    BY <1>1, <1>2, <1>3, <1>4 DEF Commit

(* So does a step of an operation. *)
LEMMA WorkRoutes ==
    ASSUME Shape, NEW p \in Proc, Work(p)
    PROVE  Wanted' = Wanted \/ pr'[p].at = "sync"
  <1>1. CASE UpClear(p) \/ UpApply(p)
    BY <1>1, UpsClear, UpsApply DEF GoesTo
  <1>2. CASE UpMode(p)
    <2>1. place' = place /\ \E a \in App : rec' = [rec EXCEPT ![a].mode = pr[p].mode]
      BY <1>2 DEF UpMode, Lookup
    <2>2. \A a \in App : Routed(a)' = Routed(a)
      BY <2>1 DEF Shape, StackFields, Routed
    <2> QED
      BY <2>2, WantedSame
  <1>3. CASE BindCommit(p) \/ UnbindCommit(p)
    <2>1. place' = place /\ \E a : rec' = [rec EXCEPT ![a].trust = {}]
      BY <1>3 DEF BindCommit, UnbindCommit, Lookup
    <2>2. \A a \in App : Routed(a)' = Routed(a)
      BY <2>1 DEF Shape, StackFields, Routed
    <2> QED
      BY <2>2, WantedSame
  <1>4. CASE ~(UpClear(p) \/ UpApply(p) \/ UpMode(p) \/ BindCommit(p) \/ UnbindCommit(p))
    <2>1. UNCHANGED <<place, rec>>
      BY <1>4 DEF Work, Submit, JobTake, JobFail, JobEnd, ExistingRun, UpApproved,
         UpReapprove, UpRun, HandlerStopsWatch, StopWatch,
         StopReturns, WatchRead, WatchBegin, ConfigureStopsWatch, Configure, ConfigureEnds,
         SyncRead, SyncWrite, SyncFail, OnlyReads, catalog
    <2> QED
      BY <2>1, WantedSame DEF Routed
  <1> QED
    BY <1>1, <1>2, <1>3, <1>4

(* Where a request begins. *)
LEMMA RequestGoes ==
    ASSUME Shape, NEW p \in Proc, Request(p)
    PROVE  /\ pr[p].at = "idle" /\ pr'[p].at \notin {"sync", "write"}
           /\ pr'[p].at = "register" =>
                 /\ pr'[p].app \in App /\ place[pr'[p].app] = "none"
                 /\ \A q \in Proc : pr[q].app # pr'[p].app
  <1> DEFINE Quick == pr[p].at = "idle" /\ pr'[p].at \notin {"sync", "write", "register"}
  <1>0. ASSUME NEW x, NEW k, Fresh(p, x, k), x \notin {"sync", "write", "register"}
        PROVE  Quick
    BY <1>0 DEF Fresh
  <1>1. ASSUME NEW a \in App, NEW g, NEW c, RegisterRead(p, a, g, c)
        PROVE  /\ pr[p].at = "idle" /\ pr'[p].at = "register" /\ pr'[p].app = a
               /\ place[a] = "none" /\ \A q \in Proc : pr[q].app # a
    BY <1>1, RegisterReads DEF RegisterRead, Fresh
  <1>2. ASSUME NEW a \in App, NEW g, NEW c, EditRead(p, a, g, c) PROVE Quick
    BY <1>0, <1>2, EditReads
  <1>3. ASSUME NEW a \in App, RemoveObserve(p, a) \/ ArchiveReview(p, a) \/ RestoreRead(p, a)
        PROVE  Quick
    BY <1>0, <1>3, RemoveBegins, ArchiveReads, SmallReads
  <1>4. ASSUME NEW g, NEW r, NEW a, NEW m,
               DeleteGroupRead(p, g) \/ RemoveRootRead(p, r) \/ TrustRead(p, a, m)
        PROVE  Quick
    BY <1>0, <1>4, SmallReads
  <1>5. ASSUME NEW g, NEW r, CreateGroup(p, g) \/ AddRoot(p, r) PROVE Quick
    BY <1>5, SmallCommits DEF Ends, Blank
  <1>6. ASSUME NEW k, NEW a, NEW m, SelectAction(p, k, m) \/ SelectBinding(p, k, a, m)
        PROVE  Quick
    BY <1>0, <1>6, ActionSelects, BindingSelects
  <1>7. ASSUME NEW id, NEW e, StartWatch(p, id) \/ ClientStopsWatch(p, e) \/ ConfigureSubmit(p)
        PROVE  Quick
    BY <1>0, <1>7, WatchStarts, ClientStops, ConfigureStarts
  <1>8. Quick \/ \E a \in App, g \in Group, c \in Config : RegisterRead(p, a, g, c)
    BY <1>2, <1>3, <1>4, <1>5, <1>6, <1>7 DEF Request
  <1> QED
    BY <1>1, <1>8

(* A commit is no step of SyncRoutes, and leads to its beginning at most. *)
LEMMA CommitGoes ==
    ASSUME Shape, NEW p \in Proc, Commit(p)
    PROVE  pr[p].at \notin {"sync", "write"} /\ pr'[p].at \notin {"write", "register"}
  BY CommitsEnd, EditStops, EditSyncs, RemoveSyncs, ArchiveObserves, ArchiveSyncs, RestoreSyncs
     DEF Commit, GoesTo, Ends, Blank

(* A step of an operation leads into SyncRoutes by its beginning only. *)
LEMMA WorkGoes ==
    ASSUME Shape, NEW p \in Proc, Staged(p), Work(p)
    PROVE  /\ pr'[p].at # "register"
           /\ \/ SyncRead(p) \/ SyncWrite(p) \/ SyncFail(p)
              \/ pr[p].at \notin {"sync", "write"} /\ pr'[p].at # "write"
  <1>1. CASE Submit(p) \/ JobTake(p)
    BY <1>1, Submits, JobTakes
  <1>2. CASE \/ JobFail(p) \/ JobEnd(p) \/ ExistingRun(p) \/ BindCommit(p) \/ UnbindCommit(p)
             \/ WatchBegin(p)
    BY <1>2, JobsFail DEF OnToNext, Ends, Blank
  <1>3. CASE UpApproved(p) \/ UpClear(p) \/ UpMode(p) \/ UpReapprove(p) \/ UpRun(p) \/ UpApply(p)
    BY <1>3, UpsApprove, UpsClear, UpsMode, UpsReapprove, UpsRun, UpsApply DEF OnToNext, GoesTo
  <1>4. CASE HandlerStopsWatch(p) \/ ConfigureStopsWatch(p) \/ StopReturns(p)
    BY <1>4, HandlersStop, StopsReturn DEF GoesTo, Ends, Blank, Staged
  <1>5. CASE WatchRead(p) \/ Configure(p) \/ ConfigureEnds(p)
    BY <1>5, WatchesRead, Configures DEF Ends, Blank
  <1>6. CASE SyncRead(p) \/ SyncWrite(p) \/ SyncFail(p)
    BY <1>6, SyncsRead, SyncsReturn DEF GoesTo, OnToNext, Ends, Blank, Staged
  <1> QED
    BY <1>1, <1>2, <1>3, <1>4, <1>5, <1>6 DEF Work

(* Only SyncRoutes touches the file and what is about to be written. *)
LEMMA TurnFile ==
    ASSUME NEW p \in Proc, Turn(p), ~SyncRead(p), ~SyncWrite(p), ~SyncFail(p)
    PROVE  UNCHANGED <<routing, pending, file, torn>>
  <1>1. CASE Request(p)
    BY <1>1, RequestCatalog DEF routes
  <1>2. CASE Commit(p)
    BY <1>2 DEF Commit, RegisterCommit, EditStopWatch, StopWatch, EditCommit, RemoveCommit,
       ArchiveObserve, ArchiveCommit, RestoreCommit, DeleteGroupCommit, RemoveRootCommit,
       TrustCommit, Abandon, ThenSync, ThenDone, routes
  <1>3. CASE Work(p)
    BY <1>3 DEF Work, Submit, JobTake, JobFail, JobEnd, ExistingRun, UpApproved, UpClear, UpMode,
       UpReapprove, UpRun, UpApply, BindCommit, UnbindCommit, HandlerStopsWatch, StopWatch,
       StopReturns, WatchRead, WatchBegin, ConfigureStopsWatch, Configure, ConfigureEnds, OnlyReads,
       routes
  <1> QED
    BY <1>1, <1>2, <1>3 DEF Turn

(* A request that registers stays the only one for its application. *)
LEMMA TurnRegistering ==
    ASSUME Shape, Registering, NEW p \in Proc, Staged(p), Turn(p)
    PROVE  Registering'
  <1>0. \A q \in Proc \ {p} : pr'[q] = pr[q]
    BY TurnShape
  <1>1. ASSUME pr'[p].at = "register"
        PROVE  /\ pr'[p].app \in App /\ place'[pr'[p].app] = "none"
               /\ \A q \in Proc : pr[q].app # pr'[p].app
    <2>1. Request(p)
      BY <1>1, CommitGoes, WorkGoes DEF Turn
    <2> QED
      BY <1>1, <2>1, RequestGoes, RequestCatalog
  <1>2. ASSUME NEW q \in Proc \ {p}, pr[q].at = "register"
        PROVE  pr[q].app \in App /\ place'[pr[q].app] = "none"
    <2>1. RegisterCommit(p) => pr[p].app # pr[q].app
      BY <1>2, CommitsEnd DEF Registering
    <2> QED
      BY <1>2, <2>1, TurnUnregistered DEF Registering
  <1> QED
    BY <1>0, <1>1, <1>2 DEF Registering

(* The file follows the catalog, or somebody is about to write it, after every turn. *)
LEMMA TurnWriting ==
    ASSUME Shape, Registering, Writing, RoutesFollow, NEW p \in Proc, Staged(p), Turn(p)
    PROVE  Writing' /\ RoutesFollow'
  <1>0. \A q \in Proc \ {p} : pr'[q] = pr[q]
    BY TurnShape
  <1>1. CASE SyncRead(p)
    <2>1. /\ pr[p].at = "sync" /\ pr'[p].at = "write"
          /\ routing = {} /\ routing' = {p} /\ pending' = Wanted
      BY <1>1, SyncsRead DEF SyncRead, GoesTo
    <2>2. Wanted' = Wanted
      BY <1>1, WantedSame DEF SyncRead, catalog, Routed
    <2> QED
      BY <1>0, <2>1, <2>2 DEF Writing, RoutesFollow
  <1>2. CASE SyncWrite(p) \/ SyncFail(p)
    <2>1. pr[p].at = "write" /\ pr'[p].at \notin {"sync", "write"}
      BY <1>2, SyncsReturn DEF Staged, Ends, Blank, OnToNext
    <2>2. Wanted' = Wanted
      BY <1>2, WantedSame DEF SyncWrite, SyncFail, catalog, Routed
    <2>3. routing' = routing \ {p} /\ (torn' \/ file' = pending)
      BY <1>2 DEF SyncWrite, SyncFail, Return
    <2>4. \A q \in Proc : pr'[q].at # "write"
      BY <1>0, <2>1 DEF Writing
    <2>5. pending = Wanted \/ \E q \in Proc : pr'[q].at = "sync"
      BY <1>0, <2>1 DEF Writing
    <2> QED
      BY <1>0, <2>1, <2>2, <2>3, <2>4, <2>5 DEF Writing, RoutesFollow
  <1>3. CASE ~SyncRead(p) /\ ~SyncWrite(p) /\ ~SyncFail(p)
    <2>1. UNCHANGED <<routing, pending, file, torn>>
      BY <1>3, TurnFile
    <2>2. pr[p].at \notin {"sync", "write"} /\ pr'[p].at # "write"
      BY <1>3, RequestGoes, CommitGoes, WorkGoes DEF Turn
    <2>3. Wanted' = Wanted \/ pr'[p].at = "sync"
      <3>1. CASE Request(p)
        BY <3>1, RequestCatalog, WantedSame DEF Routed
      <3> QED
        BY <3>1, CommitRoutes, WorkRoutes DEF Turn
    <2>4. CASE pr'[p].at = "sync"
      BY <1>0, <2>1, <2>2, <2>4 DEF Writing, RoutesFollow
    <2>5. CASE Wanted' = Wanted
      BY <1>0, <2>1, <2>2, <2>5 DEF Writing, RoutesFollow
    <2> QED
      BY <2>3, <2>4, <2>5
  <1> QED
    BY <1>1, <1>2, <1>3

(* The file follows the catalog through every step. *)
LEMMA RouteStep ==
    ASSUME ClaimInv, RouteInv, [Next]_vars
    PROVE  RouteInv'
  <1>1. ASSUME NEW p \in Proc, Turn(p) PROVE RouteInv'
    BY <1>1, TurnShape, TurnRegistering, TurnWriting DEF ClaimInv, RouteInv
  <1>2. CASE Crash
    <2>1. /\ \A p \in Proc : pr'[p].at = "idle"
          /\ routing' = {} /\ Wanted' = Wanted /\ file' = file
          /\ torn' = (torn \/ \E p \in Proc : pr[p].at \in {"sync", "write"})
      BY <1>2, CrashClaims, WantedSame DEF Crash, catalog, Routed, Blank
    <2>2. Shape'
      BY <1>2, CrashClaims DEF ClaimInv
    <2> QED
      BY <2>1, <2>2 DEF RouteInv, Registering, Writing, RoutesFollow
  <1>3. CASE Elsewhere
    <2>1. UNCHANGED <<pr, routing, pending, file, torn, place, rec>>
      BY <1>3, ElsewhereKeeps DEF catalog, routes
    <2>2. Wanted' = Wanted
      BY <2>1, WantedSame DEF Routed
    <2> QED
      BY <2>1, <2>2 DEF RouteInv, Shape, Registering, Writing, RoutesFollow
  <1> QED
    BY <1>1, <1>2, <1>3, Steps

(* Nobody claims or writes anything at first. *)
LEMMA InitInv ==
    ASSUME Init
    PROVE  ClaimInv /\ RouteInv
  <1>1. Shape
    BY BlankFields DEF Init, Shape, NewStack, StackFields
  <1>2. ClaimInv
    BY <1>1 DEF Init, Blank, ClaimInv, Compatible, Holds, Staged, Locked, Stage, HandlerStages,
       JobStages, UpStages
  <1>3. RouteInv
    BY <1>1 DEF Init, Blank, RouteInv, Registering, Writing, RoutesFollow, Wanted
  <1> QED
    BY <1>2, <1>3
--------------------------------------------------------------------------------
(* The groups.  Register and Edit add the group they put an application    *)
(* in, and DeleteGroup looks again under the lock.                         *)

(* Neither an application enters nor changes its group, and no group goes. *)
SameGroups ==
    /\ \A a \in App : /\ rec'[a].group = rec[a].group
                      /\ place'[a] \in {"active", "archived"} => place[a] \in {"active", "archived"}
    /\ groups \subseteq groups'

(* Without a change of the applications or a group less, no group is missing. *)
LEMMA SameGroupsKeep ==
    ASSUME GroupKept, SameGroups
    PROVE  GroupKept'
  BY DEF GroupKept, SameGroups

(* Every commit leaves the groups that applications are in. *)
LEMMA CommitGroups ==
    ASSUME Shape, GroupKept, NEW p \in Proc, Commit(p)
    PROVE  GroupKept'
  <1>1. CASE RegisterCommit(p)
    BY <1>1 DEF Shape, GroupKept, RegisterCommit, NewStack
  <1>2. CASE EditCommit(p)
    BY <1>2 DEF Shape, StackFields, GroupKept, EditCommit, Edited
  <1>3. CASE RemoveCommit(p)
    BY <1>3, SameGroupsKeep DEF SameGroups, Shape, RemoveCommit, Lookup
  <1>4. CASE ArchiveCommit(p)
    BY <1>4, SameGroupsKeep DEF SameGroups, Shape, ArchiveCommit
  <1>5. CASE RestoreCommit(p)
    BY <1>5, SameGroupsKeep DEF SameGroups, Shape, RestoreCommit
  <1>6. CASE DeleteGroupCommit(p)
    BY <1>6 DEF GroupKept, DeleteGroupCommit, IsEmpty, AllStacks
  <1>7. CASE TrustCommit(p)
    <2>1. /\ place' = place /\ groups' = groups
          /\ \E a : rec' = [rec EXCEPT ![a] = Approve(@, pr[p].mode, pr[p].seen)]
      BY <1>7 DEF TrustCommit
    <2>2. \A a \in App : rec'[a].group = rec[a].group
      BY <2>1 DEF Shape, StackFields, Approve
    <2> QED
      BY <2>1, <2>2, SameGroupsKeep DEF SameGroups
  <1>8. CASE EditStopWatch(p) \/ ArchiveObserve(p) \/ RemoveRootCommit(p) \/ Abandon(p)
    <2>1. UNCHANGED <<place, rec, groups>>
      BY <1>8 DEF EditStopWatch, StopWatch, ArchiveObserve, RemoveRootCommit, Abandon, catalog
    <2> QED
      BY <2>1 DEF GroupKept
  <1> QED
    BY <1>1, <1>2, <1>3, <1>4, <1>5, <1>6, <1>7, <1>8 DEF Commit

(* What an operation does to the catalog: its records, but not the group   *)
(* of one, and no application enters it or leaves it.                      *)
LEMMA WorkCatalog ==
    ASSUME Shape, NEW p \in Proc, Work(p)
    PROVE  /\ UNCHANGED <<place, kept, groups, roots>>
           /\ \A a \in App : rec'[a].group = rec[a].group
  <1>1. CASE UpClear(p) \/ UpMode(p) \/ UpApply(p)
    <2>1. /\ UNCHANGED <<place, kept, groups, roots>>
          /\ \E a, v : \/ rec' = [rec EXCEPT ![a].applied = v]
                       \/ rec' = [rec EXCEPT ![a].mode = v]
      BY <1>1 DEF UpClear, UpMode, UpApply
    <2> QED
      BY <2>1 DEF Shape, StackFields
  <1>2. CASE BindCommit(p) \/ UnbindCommit(p)
    <2>1. /\ UNCHANGED <<place, kept, groups, roots>>
          /\ \E a : rec' = [rec EXCEPT ![a].trust = {}]
      BY <1>2 DEF BindCommit, UnbindCommit
    <2> QED
      BY <2>1 DEF Shape, StackFields
  <1>3. CASE ~(UpClear(p) \/ UpMode(p) \/ UpApply(p) \/ BindCommit(p) \/ UnbindCommit(p))
    <2>1. UNCHANGED catalog
      BY <1>3 DEF Work, Submit, JobTake, JobFail, JobEnd, ExistingRun, UpApproved,
         UpReapprove, UpRun, HandlerStopsWatch, StopWatch,
         StopReturns, WatchRead, WatchBegin, ConfigureStopsWatch, Configure, ConfigureEnds,
         SyncRead, SyncWrite, SyncFail, OnlyReads
    <2> QED
      BY <2>1 DEF catalog
  <1> QED
    BY <1>1, <1>2, <1>3

(* What a request does to the groups before its lock: CreateGroup.         *)
LEMMA RequestGroups ==
    ASSUME NEW p \in Proc, Request(p)
    PROVE  groups \subseteq groups'
  <1> USE DEF catalog, OnlyReads
  <1>1. ASSUME NEW a, NEW g, NEW c, RegisterRead(p, a, g, c) \/ EditRead(p, a, g, c)
        PROVE  groups \subseteq groups'
    BY <1>1 DEF RegisterRead, EditRead
  <1>2. ASSUME NEW a, RemoveObserve(p, a) \/ ArchiveReview(p, a) \/ RestoreRead(p, a)
        PROVE  groups \subseteq groups'
    BY <1>2 DEF RemoveObserve, ArchiveReview, RestoreRead
  <1>3. ASSUME NEW g, NEW r, \/ CreateGroup(p, g) \/ DeleteGroupRead(p, g)
                             \/ AddRoot(p, r) \/ RemoveRootRead(p, r)
        PROVE  groups \subseteq groups'
    BY <1>3 DEF CreateGroup, DeleteGroupRead, AddRoot, RemoveRootRead
  <1>4. ASSUME NEW k, NEW a, NEW m,
               TrustRead(p, a, m) \/ SelectAction(p, k, m) \/ SelectBinding(p, k, a, m)
        PROVE  groups \subseteq groups'
    BY <1>4 DEF TrustRead, SelectAction, Select, SelectBinding
  <1>5. ASSUME NEW id, NEW e, StartWatch(p, id) \/ ClientStopsWatch(p, e) \/ ConfigureSubmit(p)
        PROVE  groups \subseteq groups'
    BY <1>5 DEF StartWatch, ClientStopsWatch, ConfigureSubmit
  <1> HIDE DEF catalog, OnlyReads
  <1> QED
    BY <1>1, <1>2, <1>3, <1>4, <1>5 DEF Request

(* The groups stay through every step. *)
LEMMA GroupStep ==
    ASSUME ClaimInv, GroupKept, [Next]_vars
    PROVE  GroupKept'
  <1>1. ASSUME NEW p \in Proc, Turn(p) PROVE GroupKept'
    <2>1. CASE Request(p)
      BY <2>1, RequestCatalog, RequestGroups DEF GroupKept
    <2>2. CASE Work(p)
      BY <2>2, WorkCatalog DEF GroupKept, ClaimInv
    <2> QED
      BY <1>1, <2>1, <2>2, CommitGroups DEF Turn, ClaimInv
  <1>2. CASE Crash
    BY <1>2 DEF Crash, catalog, GroupKept
  <1>3. CASE Elsewhere
    BY <1>3, ElsewhereKeeps DEF catalog, GroupKept
  <1> QED
    BY <1>1, <1>2, <1>3, Steps
--------------------------------------------------------------------------------
(* The target of an operation, and the application of a handler.           *)

TodoInv == \A p \in Proc : pr[p].todo \subseteq pr[p].ids

(* What a handler read before its lock.                                    *)
Reviewed(p) ==
    /\ Stage(p) \in {"edit", "remove", "review", "archive"} => pr[p].app \in App
    /\ Stage(p) \in {"review", "archive"} => pr[p].id = <<pr[p].seen.group, SlugOf[pr[p].app]>>

(* The application that p works on is the one p claims.                    *)
OnTarget(p) ==
    /\ pr[p].app \in App /\ pr[p].id \in pr[p].ids
    /\ place[pr[p].app] = "active" /\ Id(pr[p].app) = pr[p].id

Target(p) ==
    /\ \/ Stage(p) \in UpStages \cup {"up", "follow"}
       \/ Stage(p) = "bind" /\ pr[p].op = "bind"
       \/ pr[p].at \in {"sync", "write"} /\ pr[p].next = "job"
       => OnTarget(p)
    /\ Stage(p) = "bind" => pr[p].op \in {"bind", "unbind"}
    /\ Stage(p) \in {"select", "bind"} /\ pr[p].op = "unbind" => pr[p].app \in App
    /\ Stage(p) = "watch" => pr[p].id \in pr[p].ids
    /\ \/ pr[p].at \in {"job", "watch", "configure"} \/ Stage(p) = "quiet"
       \/ pr[p].at = "select" /\ pr[p].op # "unbind"
       => pr[p].app = None

TargetInv == TodoInv /\ \A p \in Proc : Reviewed(p) /\ Target(p)

(* What nobody but its holder may touch: the application of an operation   *)
(* or of a handler under the lock, and all of them for a global operation. *)
Protected(p, a) ==
    \/ Holds(p) /\ (IsGlobal(pr[p].op) \/ (place[a] = "active" /\ Id(a) \in pr[p].ids))
    \/ /\ p \in mutation /\ Stage(p) \in {"edit", "remove", "archive"}
       /\ place[a] = "active" /\ Id(a) = pr[p].id

Untouched(a) ==
    /\ rec'[a] = rec[a] /\ place'[a] = place[a]
    /\ bindings' \cap Links(a, Mode) = bindings \cap Links(a, Mode)

(* A handler that found the lock free and nobody at work on id.            *)
LEMMA AloneWith ==
    ASSUME ClaimInv, NEW p \in Proc, NEW q \in Proc, p # q, NEW a, Protected(p, a),
           NEW id, mutation \subseteq {q}, Clear(id)
    PROVE  place[a] = "active" /\ Id(a) # id
  BY DEF Protected, Clear

(* An operation beside another, or beside a handler under the lock.        *)
LEMMA BesideWork ==
    ASSUME ClaimInv, NEW p \in Proc, NEW q \in Proc, p # q, NEW a, Protected(p, a), Holds(q)
    PROVE  /\ ~IsGlobal(pr[q].op) /\ place[a] = "active"
           /\ \A id \in pr[q].ids : Id(a) # id
  <1>1. CASE Holds(p) /\ (IsGlobal(pr[p].op) \/ (place[a] = "active" /\ Id(a) \in pr[p].ids))
    BY <1>1 DEF ClaimInv, Compatible
  <1>2. CASE /\ p \in mutation /\ Stage(p) \in {"edit", "remove", "archive"}
             /\ place[a] = "active" /\ Id(a) = pr[p].id
    <2>1. Clear(pr[p].id)
      BY <1>2 DEF ClaimInv, Locked, Stage
    <2> QED
      BY <1>2, <2>1 DEF Clear
  <1> QED
    BY <1>1, <1>2 DEF Protected

(* A handler that commits under the lock leaves what another one protects. *)
LEMMA CommitKeepsOff ==
    ASSUME ClaimInv, Registering, NEW p \in Proc, NEW q \in Proc, p # q, Reviewed(q),
           NEW a \in App, Protected(p, a), Commit(q)
    PROVE  Untouched(a)
  <1> DEFINE Other(b) == b # a
  <1>1. CASE RegisterCommit(q)
    <2>1. /\ pr[q].at = "register" /\ mutation \subseteq {q}
          /\ Clear(<<pr[q].group, SlugOf[pr[q].app]>>)
      BY <1>1, IdleIsClear DEF RegisterCommit, Free
    <2>2. pr[q].app # a
      BY <2>1, AloneWith DEF Registering
    <2> QED
      BY <1>1, <2>2 DEF RegisterCommit, Untouched, ClaimInv, Shape
  <1>2. CASE EditCommit(q)
    <2>1. /\ mutation \subseteq {q} /\ Clear(pr[q].id) /\ pr[q].app \in Lookup(pr[q].id)
      BY <1>2, IdleIsClear DEF EditCommit, EditIdle
    <2>2. pr[q].app # a
      BY <2>1, AloneWith DEF Lookup
    <2> QED
      BY <1>2, <2>2 DEF EditCommit, Untouched, ClaimInv, Shape
  <1>3. CASE RemoveCommit(q)
    <2>1. mutation \subseteq {q} /\ Clear(pr[q].id)
      BY <1>3, IdleIsClear, RemoveSyncs DEF RemoveCommit, ClaimInv, Locked, Stage
    <2>2. a \notin Lookup(pr[q].id)
      BY <2>1, AloneWith DEF Lookup
    <2> QED
      BY <1>3, <2>2 DEF RemoveCommit, Untouched
  <1>4. CASE ArchiveCommit(q)
    <2>1. pr[q].at = "archive" /\ mutation \subseteq {q} /\ Clear(pr[q].id)
      BY <1>4 DEF ArchiveCommit, ClaimInv, Locked, Stage
    <2>2. Id(pr[q].app) = pr[q].id
      BY <1>4, <2>1 DEF ArchiveCommit, Reviewed, Stage, Id
    <2>3. pr[q].app # a
      BY <2>1, <2>2, AloneWith
    <2> QED
      BY <1>4, <2>3 DEF ArchiveCommit, Untouched, Links, ClaimInv, Shape
  <1>5. CASE RestoreCommit(q)
    <2>1. /\ mutation \subseteq {q} /\ Clear(pr[q].id) /\ place[pr[q].app] = "archived"
      BY <1>5, IdleIsClear DEF RestoreCommit, Free
    <2>2. pr[q].app # a
      BY <2>1, AloneWith
    <2> QED
      BY <1>5, <2>2 DEF RestoreCommit, Untouched, Links, ClaimInv, Shape
  <1>6. CASE TrustCommit(q)
    <2>1. /\ mutation \subseteq {q} /\ Clear(pr[q].id)
      BY <1>6, IdleIsClear DEF TrustCommit, Free
    <2>2. a \notin Lookup(pr[q].id)
      BY <2>1, AloneWith DEF Lookup
    <2> QED
      BY <1>6, <2>2 DEF TrustCommit, Untouched
  <1>7. CASE \/ EditStopWatch(q) \/ ArchiveObserve(q) \/ DeleteGroupCommit(q)
             \/ RemoveRootCommit(q) \/ Abandon(q)
    BY <1>7 DEF EditStopWatch, StopWatch, ArchiveObserve, DeleteGroupCommit, RemoveRootCommit,
       Abandon, catalog, Untouched
  <1> QED
    BY <1>1, <1>2, <1>3, <1>4, <1>5, <1>6, <1>7 DEF Commit

(* An operation leaves what another process protects. *)
LEMMA WorkKeepsOff ==
    ASSUME ClaimInv, NEW p \in Proc, NEW q \in Proc, p # q, Target(q),
           NEW a \in App, Protected(p, a), Work(q)
    PROVE  Untouched(a)
  <1>1. CASE UpClear(q) \/ UpMode(q) \/ UpApply(q)
    <2>1. pr[q].at \in UpStages
      BY <1>1 DEF UpClear, UpMode, UpApply, UpStages
    <2>2. Holds(q) /\ pr[q].id \in pr[q].ids
      BY <2>1, HoldsByStage DEF ClaimInv, Stage, JobStages, UpStages, Target, OnTarget
    <2>3. a \notin Lookup(pr[q].id)
      BY <2>2, BesideWork DEF Lookup
    <2>4. /\ UNCHANGED <<place, bindings>>
          /\ \E b \in Lookup(pr[q].id) : \E v : \/ rec' = [rec EXCEPT ![b].applied = v]
                                              \/ rec' = [rec EXCEPT ![b].mode = v]
      BY <1>1 DEF UpClear, UpMode, UpApply
    <2>5. rec'[a] = rec[a]
      BY <2>3, <2>4 DEF ClaimInv, Shape
    <2> QED
      BY <2>4, <2>5 DEF Untouched
  <1>2. CASE BindCommit(q) \/ UnbindCommit(q)
    <2>1. Holds(q) /\ IsGlobal(pr[q].op)
      BY <1>2 DEF BindCommit, UnbindCommit, Holds, IsJob, IsGlobal
    <2> QED
      BY <2>1, BesideWork
  <1>3. CASE ~(UpClear(q) \/ UpMode(q) \/ UpApply(q) \/ BindCommit(q) \/ UnbindCommit(q))
    BY <1>3 DEF Work, Submit, JobTake, JobFail, JobEnd, ExistingRun, UpApproved,
         UpReapprove, UpRun, HandlerStopsWatch, StopWatch,
         StopReturns, WatchRead, WatchBegin, ConfigureStopsWatch, Configure, ConfigureEnds,
         SyncRead, SyncWrite, SyncFail, OnlyReads, catalog, Untouched
  <1> QED
    BY <1>1, <1>2, <1>3

(* No turn of a process touches what another one protects. *)
LEMMA OthersKeepOff ==
    ASSUME ClaimInv, Registering, NEW p \in Proc, NEW q \in Proc, p # q, Reviewed(q), Target(q),
           NEW a \in App, Protected(p, a), Turn(q)
    PROVE  Untouched(a)
  BY CommitKeepsOff, WorkKeepsOff, RequestCatalog DEF Turn, Untouched

(* What is left of the targets, in the steps that change them.             *)
LEMMA JobTodo ==
    ASSUME Shape, NEW p \in Proc, pr[p].todo \subseteq pr[p].ids
    PROVE  /\ Submit(p) => pr'[p].todo \subseteq pr'[p].ids
           /\ JobTake(p) => pr'[p].todo \subseteq pr'[p].ids
           /\ WatchRead(p) => pr'[p].todo \subseteq pr'[p].ids
  <1> USE DEF Shape, Fields, Become
  <1>1. CASE Submit(p)
    BY <1>1 DEF Submit
  <1>2. CASE JobTake(p)
    BY <1>2, JobTakes DEF KeepsClaim
  <1>3. CASE WatchRead(p)
    BY <1>3 DEF WatchRead
  <1> QED
    BY <1>1, <1>2, <1>3

(* The same in the steps of a start. *)
LEMMA UpTodo ==
    ASSUME Shape, NEW p \in Proc, pr[p].todo \subseteq pr[p].ids
    PROVE  /\ UpApproved(p) \/ UpClear(p) \/ UpMode(p) \/ UpReapprove(p) \/ UpApply(p) =>
                 pr'[p].todo \subseteq pr'[p].ids
           /\ UpRun(p) => pr'[p].todo \subseteq pr'[p].ids
  <1> USE DEF Shape, Fields, Become
  <1>1. CASE UpApproved(p)
    BY <1>1 DEF UpApproved
  <1>2. CASE UpClear(p)
    BY <1>2 DEF UpClear
  <1>3. CASE UpMode(p)
    BY <1>3 DEF UpMode
  <1>4. CASE UpReapprove(p)
    BY <1>4 DEF UpReapprove
  <1>5. CASE UpApply(p)
    BY <1>5 DEF UpApply
  <1>6. CASE UpRun(p)
    BY <1>6, NextTargets DEF UpRun, OnToNext, KeepsClaim
  <1> QED
    BY <1>1, <1>2, <1>3, <1>4, <1>5, <1>6

(* The same when a request begins. *)
LEMMA RequestTodo ==
    ASSUME Shape, NEW p \in Proc, Request(p)
    PROVE  pr'[p].todo \subseteq pr'[p].ids
  <1> DEFINE Fits == pr'[p].todo \subseteq pr'[p].ids
  <1> USE DEF Shape, Begin, Blank
  <1>1. ASSUME NEW a, NEW g, NEW c, RegisterRead(p, a, g, c) \/ EditRead(p, a, g, c)
        PROVE  Fits
    <2>1. CASE RegisterRead(p, a, g, c)
      BY <2>1 DEF RegisterRead
    <2>2. CASE EditRead(p, a, g, c)
      BY <2>2 DEF EditRead
    <2> QED
      BY <1>1, <2>1, <2>2
  <1>2. ASSUME NEW a, RemoveObserve(p, a) \/ ArchiveReview(p, a) \/ RestoreRead(p, a)
        PROVE  Fits
    <2>1. CASE RemoveObserve(p, a)
      BY <2>1 DEF RemoveObserve
    <2>2. CASE ArchiveReview(p, a)
      BY <2>2 DEF ArchiveReview
    <2>3. CASE RestoreRead(p, a)
      BY <2>3 DEF RestoreRead
    <2> QED
      BY <1>2, <2>1, <2>2, <2>3
  <1>3. ASSUME NEW g, NEW r, CreateGroup(p, g) \/ AddRoot(p, r)
        PROVE  Fits
    BY <1>3, SmallCommits DEF Ends
  <1>4. ASSUME NEW g, NEW r, NEW a, NEW m,
               DeleteGroupRead(p, g) \/ RemoveRootRead(p, r) \/ TrustRead(p, a, m)
        PROVE  Fits
    <2>1. CASE DeleteGroupRead(p, g)
      BY <2>1 DEF DeleteGroupRead
    <2>2. CASE RemoveRootRead(p, r)
      BY <2>2 DEF RemoveRootRead
    <2>3. CASE TrustRead(p, a, m)
      BY <2>3 DEF TrustRead
    <2> QED
      BY <1>4, <2>1, <2>2, <2>3
  <1>5. ASSUME NEW k, NEW ids, NEW m, Select(p, k, ids, m)
        PROVE  Fits
    BY <1>5 DEF Select
  <1>6. ASSUME NEW k, NEW a, NEW m, SelectBinding(p, k, a, m)
        PROVE  Fits
    BY <1>6 DEF SelectBinding
  <1>7. ASSUME NEW id, StartWatch(p, id)
        PROVE  Fits
    BY <1>7 DEF StartWatch
  <1>8. ASSUME NEW e, ClientStopsWatch(p, e)
        PROVE  Fits
    BY <1>8 DEF ClientStopsWatch
  <1>9. CASE ConfigureSubmit(p)
    BY <1>9 DEF ConfigureSubmit
  <1> HIDE DEF Shape, Begin, Blank
  <1>10. ASSUME NEW k, NEW m, SelectAction(p, k, m)
         PROVE  Fits
    BY <1>5, <1>10 DEF SelectAction
  <1> QED
    BY <1>1, <1>2, <1>3, <1>4, <1>6, <1>7, <1>8, <1>9, <1>10 DEF Request

(* The same through every step. *)
LEMMA TodoStep ==
    ASSUME ClaimInv, TodoInv, [Next]_vars
    PROVE  TodoInv'
  <1>1. ASSUME NEW p \in Proc, Turn(p) PROVE TodoInv'
    <2> DEFINE Fits == pr'[p].todo \subseteq pr'[p].ids
    <2>0. /\ Shape /\ Staged(p) /\ pr[p].todo \subseteq pr[p].ids
          /\ \A q \in Proc \ {p} : pr'[q] = pr[q]
      BY <1>1, TurnShape DEF ClaimInv, TodoInv
    <2>1. ASSUME Ends(p) PROVE Fits
      BY <2>1 DEF Ends, Blank
    <2>2. ASSUME OnToNext(p) PROVE Fits
      BY <2>0, <2>2 DEF OnToNext, KeepsClaim
    <2>3. ASSUME KeepsAll(p) PROVE Fits
      BY <2>0, <2>3 DEF KeepsAll, KeepsTarget, KeepsClaim
    <2>4. ASSUME ThenSync(p) PROVE Fits
      BY <2>0, <2>4 DEF ThenSync, Become, Blank, Shape
    <2> HIDE DEF Fits
    <2>5. ASSUME Request(p) PROVE Fits
      BY <2>0, <2>5, RequestTodo DEF Fits
    <2>6. ASSUME Commit(p) PROVE Fits
      BY <2>0, <2>1, <2>3, <2>4, <2>6, CommitsEnd, EditStops, ArchiveObserves
         DEF Commit, EditCommit, RemoveCommit, ArchiveCommit, RestoreCommit
    <2>7. ASSUME Work(p) PROVE Fits
      <3>1. CASE Submit(p) \/ JobTake(p) \/ WatchRead(p)
        BY <2>0, <3>1, JobTodo DEF Fits
      <3>2. CASE \/ JobFail(p) \/ JobEnd(p) \/ ExistingRun(p) \/ BindCommit(p) \/ UnbindCommit(p)
                 \/ WatchBegin(p)
        BY <2>0, <2>1, <2>2, <3>2, JobsFail
      <3>3. CASE \/ UpApproved(p) \/ UpClear(p) \/ UpMode(p) \/ UpReapprove(p) \/ UpRun(p)
                 \/ UpApply(p)
        BY <2>0, <3>3, UpTodo DEF Fits
      <3>4. CASE HandlerStopsWatch(p) \/ ConfigureStopsWatch(p) \/ StopReturns(p)
        BY <2>0, <2>1, <2>3, <3>4, HandlersStop, StopsReturn
      <3>5. CASE Configure(p) \/ ConfigureEnds(p)
        BY <2>0, <2>1, <2>3, <3>5, Configures
      <3>6. CASE SyncRead(p) \/ SyncWrite(p) \/ SyncFail(p)
        BY <2>0, <2>1, <2>2, <2>3, <3>6, SyncsRead, SyncsReturn
      <3> QED
        BY <2>7, <3>1, <3>2, <3>3, <3>4, <3>5, <3>6 DEF Work
    <2>8. Fits
      BY <1>1, <2>5, <2>6, <2>7 DEF Turn
    <2> QED
      BY <2>0, <2>8 DEF Fits, TodoInv
  <1>2. CASE Crash
    BY <1>2 DEF Crash, TodoInv, Blank
  <1>3. CASE Elsewhere
    BY <1>3, ElsewhereKeeps DEF TodoInv
  <1> QED
    BY <1>1, <1>2, <1>3, Steps

(* A handler has no target.                                                *)
LEMMA HandlerTarget ==
    ASSUME NEW p \in Proc, Stage(p)' \in HandlerStages \cup {"idle"}
    PROVE  Target(p)'
  BY DEF Target, Stage, HandlerStages, UpStages

(* After a commit the request is a handler still, or has ended. *)
LEMMA CommitStage ==
    ASSUME Shape, NEW p \in Proc, Commit(p)
    PROVE  Stage(p)' \in HandlerStages \cup {"idle"}
  BY CommitsEnd, EditStops, EditSyncs, RemoveSyncs, ArchiveObserves, ArchiveSyncs,
     RestoreSyncs DEF Commit, Stage, HandlerStages, GoesTo, Ends, Blank

(* A request that begins knows what it read. *)
LEMMA RequestTarget ==
    ASSUME Shape, NEW p \in Proc, Request(p)
    PROVE  Reviewed(p)' /\ Target(p)'
  <1>1. ASSUME NEW a \in App, NEW g, NEW c, EditRead(p, a, g, c)
        PROVE  Reviewed(p)' /\ Target(p)'
    BY <1>1, EditReads, HandlerTarget DEF Fresh, Reviewed, Stage, HandlerStages
  <1>2. ASSUME NEW a \in App, RemoveObserve(p, a)
        PROVE  Reviewed(p)' /\ Target(p)'
    BY <1>2, RemoveBegins, HandlerTarget DEF Fresh, Reviewed, Stage, HandlerStages
  <1>3. ASSUME NEW a \in App, ArchiveReview(p, a)
        PROVE  Reviewed(p)' /\ Target(p)'
    BY <1>3, ArchiveReads, HandlerTarget DEF Fresh, Reviewed, Stage, HandlerStages, Id
  <1>4. ASSUME NEW x, NEW k, Fresh(p, x, k),
               x \in {"register", "restore", "deletegroup", "removeroot", "trust", "idle"}
        PROVE  Reviewed(p)' /\ Target(p)'
    BY <1>4, HandlerTarget DEF Fresh, Reviewed, Stage, HandlerStages
  <1>5. ASSUME NEW a \in App, NEW g, NEW c, RegisterRead(p, a, g, c)
        PROVE  Reviewed(p)' /\ Target(p)'
    BY <1>4, <1>5, RegisterReads
  <1>6. ASSUME NEW g, NEW r, NEW a, NEW m, \/ RestoreRead(p, a) \/ DeleteGroupRead(p, g)
                                           \/ RemoveRootRead(p, r) \/ TrustRead(p, a, m)
        PROVE  Reviewed(p)' /\ Target(p)'
    BY <1>4, <1>6, SmallReads
  <1>7. ASSUME NEW g, NEW r, CreateGroup(p, g) \/ AddRoot(p, r)
        PROVE  Reviewed(p)' /\ Target(p)'
    BY <1>7, SmallCommits, HandlerTarget DEF Ends, Blank, Reviewed, Stage, HandlerStages
  <1>8. ASSUME NEW k \in {"up", "stop", "restart"}, NEW m, SelectAction(p, k, m)
        PROVE  Reviewed(p)' /\ Target(p)'
    BY <1>8, ActionSelects DEF Fresh, Reviewed, Target, Stage, UpStages
  <1>9. ASSUME NEW k, NEW a \in App, NEW m, SelectBinding(p, k, a, m)
        PROVE  Reviewed(p)' /\ Target(p)'
    BY <1>9, BindingSelects DEF Fresh, Reviewed, Target, Stage, UpStages
  <1>10. ASSUME NEW id, StartWatch(p, id)
         PROVE  Reviewed(p)' /\ Target(p)'
    BY <1>10, WatchStarts DEF Fresh, Reviewed, Target, Stage, UpStages
  <1>11. ASSUME NEW e, ClientStopsWatch(p, e)
         PROVE  Reviewed(p)' /\ Target(p)'
    BY <1>11, ClientStops, HandlerTarget DEF Fresh, Reviewed, Stage, HandlerStages
  <1>12. CASE ConfigureSubmit(p)
    BY <1>12, ConfigureStarts DEF Fresh, Reviewed, Target, Stage, UpStages
  <1> QED
    BY <1>1, <1>2, <1>3, <1>5, <1>6, <1>7, <1>8, <1>9, <1>10, <1>11, <1>12 DEF Request

(* A commit leaves the request with what it read. *)
LEMMA CommitTarget ==
    ASSUME Shape, NEW p \in Proc, Reviewed(p), Commit(p)
    PROVE  Reviewed(p)' /\ Target(p)'
  <1>1. Target(p)'
    BY CommitStage, HandlerTarget
  <1>2. ASSUME Stage(p)' \in {"idle", "done"} PROVE Reviewed(p)'
    BY <1>2 DEF Reviewed
  <1>3. CASE EditStopWatch(p)
    BY <1>1, <1>3, EditStops DEF GoesTo, KeepsAll, KeepsTarget, Reviewed, Stage
  <1>4. CASE ArchiveObserve(p)
    BY <1>1, <1>4, ArchiveObserves DEF KeepsAll, KeepsTarget, Reviewed, Stage
  <1>5. CASE ~EditStopWatch(p) /\ ~ArchiveObserve(p)
    <2>1. Stage(p)' \in {"idle", "done"}
      BY <1>5, CommitsEnd, EditSyncs, RemoveSyncs, ArchiveSyncs, RestoreSyncs
         DEF Commit, Stage, GoesTo, Ends, Blank
    <2> QED
      BY <1>1, <1>2, <2>1
  <1> QED
    BY <1>3, <1>4, <1>5

(* An operation keeps its target, or takes one from the catalog.           *)
LEMMA TargetKept ==
    ASSUME Shape, NEW p \in Proc, Work(p), pr'[p].ids = pr[p].ids,
           \/ OnTarget(p) /\ pr'[p].app = pr[p].app /\ pr'[p].id = pr[p].id
           \/ pr'[p].id \in pr[p].ids /\ pr'[p].app \in Lookup(pr'[p].id)
    PROVE  OnTarget(p)'
  <1>1. place' = place /\ \A a \in App : Id(a)' = Id(a)
    BY WorkCatalog DEF Id
  <1> QED
    BY <1>1 DEF OnTarget, Lookup

(* A step of an operation keeps its target in the catalog. *)
LEMMA WorkTarget ==
    ASSUME Shape, TodoInv, NEW p \in Proc, Staged(p), Reviewed(p), Target(p), Work(p)
    PROVE  Reviewed(p)' /\ Target(p)'
  <1>0. ASSUME pr'[p].at = "job", pr'[p].app = None PROVE Reviewed(p)' /\ Target(p)'
    BY <1>0 DEF Reviewed, Target, Stage, UpStages
  <1>1. ASSUME Ends(p) PROVE Reviewed(p)' /\ Target(p)'
    BY <1>1, HandlerTarget DEF Ends, Blank, Reviewed, Stage
  <1>2. CASE Submit(p)
    BY <1>2, Submits DEF KeepsTarget, KeepsClaim, Reviewed, Target, Stage, UpStages
  <1>3. CASE JobTake(p)
    <2>0. pr[p].at = "job" /\ KeepsClaim(p)
      BY <1>3, JobTakes
    <2>1. CASE pr'[p].at = "job" /\ pr'[p].app = pr[p].app
      BY <1>0, <2>0, <2>1 DEF Target
    <2>2. ASSUME NEW id \in pr[p].todo, NEW a \in Lookup(id), pr'[p].id = id, pr'[p].app = a,
                 pr'[p].at = IF pr[p].op = "bind" THEN "bind" ELSE "up"
          PROVE  Reviewed(p)' /\ Target(p)'
      <3>1. id \in pr[p].ids
        BY DEF TodoInv
      <3>2. OnTarget(p)'
        BY <2>0, <2>2, <3>1, TargetKept DEF KeepsClaim
      <3> QED
        BY <2>0, <2>2, <3>2 DEF KeepsClaim, Reviewed, Target, Stage, UpStages
    <2> QED
      BY <1>3, <2>1, <2>2, JobTakes
  <1>4. CASE \/ JobFail(p) \/ JobEnd(p) \/ ExistingRun(p) \/ BindCommit(p) \/ UnbindCommit(p)
             \/ WatchBegin(p)
    BY <1>0, <1>1, <1>4, JobsFail DEF OnToNext
  <1>5. CASE UpApproved(p) \/ UpMode(p) \/ UpReapprove(p) \/ UpRun(p)
    <2>1. pr[p].at \in {"up", "mode", "reapprove", "run"} /\ OnTarget(p)
      BY <1>5, UpsApprove, UpsMode, UpsReapprove, UpsRun DEF Target, Stage, UpStages
    <2>2. \/ OnToNext(p)
          \/ /\ pr'[p].at \in UpStages /\ KeepsClaim(p) /\ pr'[p].id = pr[p].id
             /\ pr'[p].app = pr[p].app \/ pr'[p].app \in Lookup(pr[p].id)
      BY <1>5, UpsApprove, UpsMode, UpsReapprove, UpsRun DEF UpStages, KeepsTarget
    <2>3. CASE /\ pr'[p].at \in UpStages /\ KeepsClaim(p) /\ pr'[p].id = pr[p].id
               /\ pr'[p].app = pr[p].app \/ pr'[p].app \in Lookup(pr[p].id)
      <3>1. OnTarget(p)'
        BY <2>1, <2>3, TargetKept DEF KeepsClaim, OnTarget
      <3> QED
        BY <2>3, <3>1 DEF Reviewed, Target, Stage, UpStages
    <2> QED
      BY <1>0, <2>2, <2>3 DEF OnToNext
  <1>6. CASE UpClear(p) \/ UpApply(p)
    <2>1. /\ pr[p].at \in {"approved", "apply"} /\ KeepsTarget(p)
          /\ pr'[p].at = "sync" /\ pr'[p].next \in {"mode", "job"}
      BY <1>6, UpsClear, UpsApply DEF GoesTo
    <2>2. OnTarget(p)'
      BY <2>1, TargetKept DEF KeepsTarget, KeepsClaim, Target, Stage, UpStages
    <2> QED
      BY <2>1, <2>2 DEF Reviewed, Target, Stage, UpStages
  <1>7. CASE HandlerStopsWatch(p) \/ ConfigureStopsWatch(p) \/ StopReturns(p)
    <2>1. CASE Ends(p)
      BY <1>1, <2>1
    <2>2. CASE ~Ends(p)
      <3>1. KeepsAll(p) /\ Stage(p)' = Stage(p)
            /\ Stage(p) \in {"edit", "remove", "archive", "up", "quiet"}
            /\ pr'[p].at \in {"stopping", "edit", "remove", "archive", "up", "quiet"}
        BY <1>7, <2>2, HandlersStop, StopsReturn DEF GoesTo, Stage, Staged
      <3>2. Stage(p) = "up" => OnTarget(p)'
        BY <3>1, TargetKept DEF KeepsAll, KeepsTarget, KeepsClaim, Target
      <3> QED
        BY <3>1, <3>2 DEF KeepsAll, KeepsTarget, KeepsClaim, Reviewed, Target, UpStages
    <2> QED
      BY <2>1, <2>2
  <1>8. CASE WatchRead(p)
    <2>1. /\ pr[p].at = "watch" /\ pr'[p].at = "follow" /\ KeepsClaim(p) /\ pr'[p].id = pr[p].id
          /\ pr'[p].app \in Lookup(pr[p].id)
      BY <1>8, WatchesRead
    <2>2. OnTarget(p)'
      BY <2>1, TargetKept DEF KeepsClaim, Target, Stage
    <2> QED
      BY <2>1, <2>2 DEF Reviewed, Target, Stage, UpStages
  <1>9. CASE Configure(p) \/ ConfigureEnds(p)
    BY <1>1, <1>9, Configures DEF KeepsAll, KeepsTarget, Reviewed, Target, Stage, UpStages
  <1>10. CASE SyncRead(p)
    <2>1. /\ pr[p].at = "sync" /\ pr'[p].at = "write" /\ pr'[p].next = pr[p].next /\ KeepsAll(p)
          /\ pr[p].next \in {"done", "mode", "job"}
      BY <1>10, SyncsRead DEF GoesTo, Staged
    <2>2. pr[p].next \in {"mode", "job"} => OnTarget(p)'
      BY <2>1, TargetKept DEF KeepsAll, KeepsTarget, KeepsClaim, Target, Stage, UpStages
    <2> QED
      BY <2>1, <2>2 DEF Reviewed, Target, Stage, UpStages
  <1>11. CASE SyncWrite(p) \/ SyncFail(p)
    <2>1. CASE pr[p].next = "mode" /\ pr'[p].at = "mode" /\ KeepsAll(p)
      <3>1. OnTarget(p)'
        BY <1>11, <2>1, SyncsReturn, TargetKept
           DEF KeepsAll, KeepsTarget, KeepsClaim, Target, Stage, UpStages
      <3> QED
        BY <2>1, <3>1 DEF Reviewed, Target, Stage, UpStages
    <2> QED
      BY <1>0, <1>1, <1>11, <2>1, SyncsReturn DEF OnToNext
  <1> QED
    BY <1>2, <1>3, <1>4, <1>5, <1>6, <1>7, <1>8, <1>9, <1>10, <1>11 DEF Work

(* What an operation is at, while it has a claim.                          *)
LEMMA OnTargetOrGlobal ==
    ASSUME NEW p \in Proc, Staged(p), Target(p), Holds(p), pr[p].app # None
    PROVE  pr[p].app \in App /\ (IsGlobal(pr[p].op) \/ OnTarget(p))
  <1>1. Stage(p) \in JobStages \ {"select"}
    BY HoldsByStage
  <1>2. CASE Stage(p) \in UpStages \cup {"up", "follow"}
    BY <1>2 DEF Target, OnTarget
  <1>3. CASE Stage(p) = "bind"
    BY <1>3 DEF Target, OnTarget, IsGlobal
  <1>4. CASE Stage(p) = "job"
    <2>1. pr[p].at \in {"sync", "write"} /\ pr[p].next = "job"
      BY <1>4 DEF Stage, Staged, Target
    <2> QED
      BY <2>1 DEF Target, OnTarget
  <1>5. CASE Stage(p) \in {"watch", "quiet", "configure"}
    BY <1>5 DEF Stage, Staged, Target
  <1> QED
    BY <1>1, <1>2, <1>3, <1>4, <1>5 DEF JobStages

(* The target of an operation stays in the catalog through every step. *)
LEMMA TargetStep ==
    ASSUME ClaimInv, Registering, TargetInv, [Next]_vars
    PROVE  TargetInv'
  <1>0. TodoInv'
    BY TodoStep DEF TargetInv
  <1>1. ASSUME NEW p \in Proc, Turn(p) PROVE TargetInv'
    <2>1. Reviewed(p)' /\ Target(p)'
      BY <1>1, RequestTarget, CommitTarget, WorkTarget DEF Turn, ClaimInv, TargetInv
    <2>2. ASSUME NEW q \in Proc \ {p} PROVE Reviewed(q)' /\ Target(q)'
      <3>1. pr'[q] = pr[q] /\ Stage(q)' = Stage(q)
        BY <1>1, TurnShape DEF ClaimInv, Stage
      <3>2. ASSUME OnTarget(q), Stage(q) \in UpStages \cup {"up", "follow", "bind", "job"}
            PROVE  OnTarget(q)'
        <4>1. Holds(q)
          BY <3>2, HoldsByStage DEF ClaimInv, JobStages, UpStages
        <4>2. Untouched(pr[q].app)
          BY <1>1, <3>2, <4>1, OthersKeepOff DEF TargetInv, Protected, OnTarget
        <4> QED
          BY <3>1, <3>2, <4>2 DEF Untouched, OnTarget, Id
      <3>3. pr[q].at \in {"sync", "write"} => Stage(q) = pr[q].next
        BY DEF Stage
      <3> QED
        BY <3>1, <3>2, <3>3 DEF TargetInv, Reviewed, Target
    <2> QED
      BY <1>0, <2>1, <2>2 DEF TargetInv
  <1>2. CASE Crash
    <2>1. \A p \in Proc : Stage(p)' = "idle"
      BY <1>2, CrashClaims DEF Stage, Blank
    <2> QED
      BY <1>0, <2>1, HandlerTarget DEF TargetInv, Reviewed
  <1>3. CASE Elsewhere
    <2>1. UNCHANGED <<pr, place, rec>>
      BY <1>3, ElsewhereKeeps DEF catalog
    <2>2. \A p \in Proc : Reviewed(p)' /\ Target(p)'
      BY <2>1 DEF TargetInv, Reviewed, Target, OnTarget, Stage, Id
    <2> QED
      BY <1>0, <2>2 DEF TargetInv
  <1> QED
    BY <1>1, <1>2, <1>3, Steps

(* Nobody has a target at first. *)
LEMMA InitTarget ==
    ASSUME Init
    PROVE  TargetInv
  BY DEF Init, Blank, TargetInv, TodoInv, Reviewed, Target, Stage, UpStages

(* A step of an operation that leaves its state leaves the catalog.        *)
LEMMA OwnStep ==
    ASSUME ClaimInv, NEW p \in Proc, Holds(p), pr'[p] = pr[p], Turn(p)
    PROVE  UNCHANGED <<place, rec, bindings>>
  <1>1. ~Request(p)
    BY RequestClaims DEF ClaimInv
  <1>2. ~Commit(p)
    BY CommitClaims DEF ClaimInv
  <1>3. CASE UpClear(p) \/ UpMode(p) \/ UpApply(p) \/ BindCommit(p) \/ UnbindCommit(p)
    BY <1>3, UpsClear, UpsMode, UpsApply, JobsFail DEF ClaimInv, GoesTo, OnToNext
  <1>4. CASE ~(UpClear(p) \/ UpMode(p) \/ UpApply(p) \/ BindCommit(p) \/ UnbindCommit(p))
    <2>1. Work(p)
      BY <1>1, <1>2 DEF Turn
    <2> QED
      BY <1>4, <2>1 DEF Work, Submit, JobTake, JobFail, JobEnd, ExistingRun, UpApproved,
         UpReapprove, UpRun, HandlerStopsWatch, StopWatch,
         StopReturns, WatchRead, WatchBegin, ConfigureStopsWatch, Configure, ConfigureEnds,
         SyncRead, SyncWrite, SyncFail, OnlyReads, catalog
  <1> QED
    BY <1>3, <1>4
--------------------------------------------------------------------------------
(* Identities and bindings: what validateState would refuse never arises.  *)

BindingsTyped == bindings \subseteq App \X Mode /\ kept \subseteq App \X Mode

(* Remove and ArchiveStack hold the lock on the application they observed. *)
LockedOn(p) ==
    Stage(p) \in {"remove", "archive"} =>
        pr[p].app \in App /\ place[pr[p].app] = "active" /\ Id(pr[p].app) = pr[p].id

Binds(p) ==
    pr[p].op = "bind" /\ Stage(p) \in JobStages => pr[p].mode \in Mode

NameInv ==
    /\ BindingsTyped /\ WellFormed
    /\ \A p \in Proc : LockedOn(p) /\ Binds(p)

Named(a) == place[a] \in {"active", "archived"}

(* No application enters the catalog or changes its identity.              *)
SameNames ==
    \A a \in App : rec'[a].group = rec[a].group /\ (Named(a)' => Named(a))

Unique ==
    \A a, b \in App : Named(a) /\ Named(b) /\ a # b => Id(a) # Id(b) /\ ProjectOf[a] # ProjectOf[b]

Placed ==
    /\ BindingsTyped
    /\ \A x \in bindings : place[x[1]] = "active"
    /\ \A x \in kept : place[x[1]] = "archived"

(* The parts of the invariant, as the steps below keep them. *)
LEMMA NameParts == NameInv <=> Unique /\ Placed /\ \A p \in Proc : LockedOn(p) /\ Binds(p)
  BY DEF NameInv, WellFormed, BindingsInPlace, Unique, Named, Placed

(* Without a new name, names stay unique. *)
LEMMA SameNamesKeep ==
    ASSUME Unique, SameNames
    PROVE  Unique'
  BY DEF Unique, SameNames, Named, Id

(* Bindings that nobody moves stay in their place. *)
LEMMA SamePlaced ==
    ASSUME Placed, UNCHANGED <<place, bindings, kept>>
    PROVE  Placed'
  BY DEF Placed, BindingsTyped

(* A commit gives no identity or project twice. *)
LEMMA CommitUnique ==
    ASSUME Shape, Unique, NEW p \in Proc, Commit(p)
    PROVE  Unique'
  <1>0. PICK app : app = pr[p].app
    OBVIOUS
  <1>1. CASE RegisterCommit(p)
    <2>1. /\ place' = [place EXCEPT ![app] = "active"]
          /\ rec' = [rec EXCEPT ![app] = NewStack(pr[p].group, pr[p].config)]
          /\ \A b \in AllStacks : /\ Id(b) # <<pr[p].group, SlugOf[app]>>
                                  /\ ProjectOf[b] # ProjectOf[app]
      BY <1>0, <1>1 DEF RegisterCommit
    <2>2. ASSUME NEW a \in App, a # app
          PROVE  Id(a)' = Id(a) /\ (Named(a)' <=> Named(a))
      BY <2>1, <2>2 DEF Shape, Named, Id
    <2>3. app \in App => Id(app)' = <<pr[p].group, SlugOf[app]>>
      BY <2>1 DEF Shape, Id, NewStack
    <2>4. \A a \in App : Named(a) => a \in AllStacks
      BY DEF Named, AllStacks
    <2>5. ASSUME NEW a \in App, a # app, Named(a), app \in App
          PROVE  Id(a)' # Id(app)' /\ ProjectOf[a] # ProjectOf[app]
      BY <2>1, <2>2, <2>3, <2>4, <2>5
    <2> QED
      BY <2>2, <2>5 DEF Unique
  <1>2. CASE EditCommit(p)
    <2>1. /\ place' = place /\ app \in Lookup(pr[p].id)
          /\ rec' = [rec EXCEPT ![app] = Edited(@, pr[p].group, pr[p].config)]
          /\ \A b \in AllStacks : Id(b) = <<pr[p].group, SlugOf[app]>> => Id(b) = pr[p].id
      BY <1>0, <1>2 DEF EditCommit
    <2>2. ASSUME NEW a \in App, a # app
          PROVE  Id(a)' = Id(a) /\ (Named(a)' <=> Named(a))
      BY <2>1, <2>2 DEF Shape, Named, Id
    <2>3. /\ app \in App /\ Named(app) /\ Id(app) = pr[p].id
          /\ Id(app)' = <<pr[p].group, SlugOf[app]>>
      BY <2>1 DEF Shape, StackFields, Id, Edited, Lookup, Named
    <2>4. \A a \in App : Named(a) => a \in AllStacks
      BY DEF Named, AllStacks
    <2>5. \A a \in App : Named(a)' => Named(a)
      BY <2>1 DEF Named
    <2>6. ASSUME NEW a \in App, a # app, Named(a)
          PROVE  Id(a)' # Id(app)' /\ ProjectOf[a] # ProjectOf[app]
      BY <2>1, <2>2, <2>3, <2>4, <2>6 DEF Unique
    <2> QED
      BY <2>2, <2>3, <2>5, <2>6 DEF Unique
  <1>3. CASE RemoveCommit(p) \/ ArchiveCommit(p) \/ RestoreCommit(p)
    <2>1. SameNames
      BY <1>3 DEF RemoveCommit, ArchiveCommit, RestoreCommit, SameNames, Named, Shape, Lookup
    <2> QED
      BY <2>1, SameNamesKeep
  <1>4. CASE TrustCommit(p)
    <2>1. place' = place /\ \E a : rec' = [rec EXCEPT ![a] = Approve(@, pr[p].mode, pr[p].seen)]
      BY <1>4 DEF TrustCommit
    <2>2. SameNames
      BY <2>1 DEF Shape, StackFields, Approve, SameNames, Named
    <2> QED
      BY <2>2, SameNamesKeep
  <1>5. CASE \/ EditStopWatch(p) \/ ArchiveObserve(p) \/ DeleteGroupCommit(p)
             \/ RemoveRootCommit(p) \/ Abandon(p)
    <2>1. UNCHANGED <<place, rec>>
      BY <1>5 DEF EditStopWatch, StopWatch, ArchiveObserve, DeleteGroupCommit, RemoveRootCommit,
         Abandon, catalog
    <2> QED
      BY <2>1, SameNamesKeep DEF SameNames, Named
  <1> QED
    BY <1>1, <1>2, <1>3, <1>4, <1>5 DEF Commit

(* A commit moves the bindings with their application. *)
LEMMA CommitPlaced ==
    ASSUME Shape, Registering, Unique, Placed, NEW p \in Proc, Reviewed(p), LockedOn(p), Commit(p)
    PROVE  Placed'
  <1>0. \A x \in bindings \cup kept : x[1] \in App /\ x[2] \in Mode /\ x = <<x[1], x[2]>>
    BY DEF Placed, BindingsTyped
  <1>1. CASE RegisterCommit(p)
    <2>1. /\ UNCHANGED <<bindings, kept>> /\ place[pr[p].app] = "none"
          /\ place' = [place EXCEPT ![pr[p].app] = "active"]
      BY <1>1 DEF RegisterCommit, Registering
    <2> QED
      BY <1>0, <2>1 DEF Shape, Placed, BindingsTyped
  <1>2. CASE RemoveCommit(p)
    <2>1. /\ UNCHANGED <<bindings, kept>> /\ LinksOf(pr[p].app) = {} /\ pr[p].at = "remove"
          /\ place' = [a \in App |-> IF a \in Lookup(pr[p].id) THEN "removed" ELSE place[a]]
      BY <1>2 DEF RemoveCommit
    <2>2. pr[p].app \in App /\ place[pr[p].app] = "active" /\ Id(pr[p].app) = pr[p].id
      BY <2>1 DEF LockedOn, Stage
    <2>3. \A a \in Lookup(pr[p].id) : a = pr[p].app
      BY <2>2 DEF Lookup, Unique, Named
    <2>4. \A x \in bindings : x[1] # pr[p].app
      BY <1>0, <2>1 DEF LinksOf
    <2>5. \A x \in kept : x[1] \notin Lookup(pr[p].id)
      BY DEF Placed, Lookup
    <2> QED
      BY <1>0, <2>1, <2>3, <2>4, <2>5 DEF Placed, BindingsTyped
  <1>3. CASE ArchiveCommit(p)
    <2>1. /\ pr[p].app \in App /\ place[pr[p].app] = "active"
          /\ kept' = kept \cup Links(pr[p].app, LinksOf(pr[p].app))
          /\ bindings' = bindings \ Links(pr[p].app, Mode)
          /\ place' = [place EXCEPT ![pr[p].app] = "archived"]
      BY <1>3 DEF ArchiveCommit, Reviewed, Stage
    <2>2. \A x \in bindings' : x \in bindings /\ x[1] # pr[p].app
      BY <1>0, <2>1 DEF Links
    <2>3. \A x \in kept' : x \in kept \/ (x[1] = pr[p].app /\ x[1] \in App /\ x \in App \X Mode)
      BY <2>1 DEF Links, LinksOf
    <2> QED
      BY <1>0, <2>1, <2>2, <2>3 DEF Shape, Placed, BindingsTyped
  <1>4. CASE RestoreCommit(p)
    <2>1. /\ place[pr[p].app] = "archived"
          /\ bindings' = bindings \cup (kept \cap Links(pr[p].app, Mode))
          /\ kept' = kept \ Links(pr[p].app, Mode)
          /\ place' = [place EXCEPT ![pr[p].app] = "active"]
      BY <1>4 DEF RestoreCommit
    <2>2. \A x \in kept' : x \in kept /\ x[1] # pr[p].app
      BY <1>0, <2>1 DEF Links
    <2>3. \A x \in bindings' : x \in bindings \/ (x \in kept /\ x[1] = pr[p].app)
      BY <2>1 DEF Links
    <2> QED
      BY <1>0, <2>1, <2>2, <2>3 DEF Shape, Placed, BindingsTyped
  <1>5. CASE ~(RegisterCommit(p) \/ RemoveCommit(p) \/ ArchiveCommit(p) \/ RestoreCommit(p))
    <2>1. UNCHANGED <<place, bindings, kept>>
      BY <1>5 DEF Commit, EditStopWatch, StopWatch, EditCommit, ArchiveObserve, DeleteGroupCommit,
         RemoveRootCommit, TrustCommit, Abandon, catalog
    <2> QED
      BY <2>1, SamePlaced
  <1> QED
    BY <1>1, <1>2, <1>3, <1>4, <1>5

(* An operation binds only what is in the catalog. *)
LEMMA WorkPlaced ==
    ASSUME Shape, Placed, NEW p \in Proc, Target(p), Binds(p), Work(p)
    PROVE  Placed'
  <1>0. UNCHANGED <<place, kept>>
    BY WorkCatalog
  <1>1. CASE BindCommit(p)
    <2>1. /\ pr[p].at = "bind" /\ pr[p].op = "bind"
          /\ bindings' = bindings \cup {<<pr[p].app, pr[p].mode>>}
      BY <1>1 DEF BindCommit
    <2>2. pr[p].app \in App /\ place[pr[p].app] = "active" /\ pr[p].mode \in Mode
      BY <2>1 DEF Target, OnTarget, Binds, Stage, JobStages
    <2> QED
      BY <1>0, <2>1, <2>2 DEF Placed, BindingsTyped
  <1>2. CASE UnbindCommit(p)
    BY <1>0, <1>2 DEF UnbindCommit, Placed, BindingsTyped
  <1>3. CASE ~BindCommit(p) /\ ~UnbindCommit(p)
    <2>1. UNCHANGED bindings
      BY <1>3 DEF Work, Submit, JobTake, JobFail, JobEnd, ExistingRun, UpApproved, UpClear, UpMode,
         UpReapprove, UpRun, UpApply, HandlerStopsWatch, StopWatch,
         StopReturns, WatchRead, WatchBegin, ConfigureStopsWatch, Configure, ConfigureEnds,
         SyncRead, SyncWrite, SyncFail, OnlyReads, catalog
    <2> QED
      BY <1>0, <2>1, SamePlaced
  <1> QED
    BY <1>1, <1>2, <1>3

(* What a process holds about its application, when it reads it.           *)
LEMMA RequestNames ==
    ASSUME Shape, NEW p \in Proc, Request(p)
    PROVE  LockedOn(p)' /\ Binds(p)'
  <1>0. \A a : place'[a] = place[a] /\ Id(a)' = Id(a)
    BY RequestCatalog DEF Id
  <1>1. ASSUME NEW x, NEW k, Fresh(p, x, k), k # "bind",
               x \in HandlerStages \cup {"idle", "watch", "quiet", "stopping"},
               x \notin {"remove", "archive"}, x = "stopping" => pr'[p].next = "done"
        PROVE  LockedOn(p)' /\ Binds(p)'
    BY <1>1 DEF Fresh, HandlerStages, LockedOn, Binds, Stage, JobStages, UpStages
  <1>2. ASSUME NEW a \in App, NEW g, NEW c, RegisterRead(p, a, g, c) \/ EditRead(p, a, g, c)
        PROVE  LockedOn(p)' /\ Binds(p)'
    BY <1>1, <1>2, RegisterReads, EditReads DEF HandlerStages
  <1>3. ASSUME NEW a \in App, RemoveObserve(p, a)
        PROVE  LockedOn(p)' /\ Binds(p)'
    <2>1. place[a] = "active"
      BY <1>3 DEF RemoveObserve
    <2> QED
      BY <1>0, <1>3, <2>1, RemoveBegins DEF Fresh, LockedOn, Binds, Stage, JobStages, UpStages
  <1>4. ASSUME NEW a \in App, ArchiveReview(p, a)
        PROVE  LockedOn(p)' /\ Binds(p)'
    BY <1>1, <1>4, ArchiveReads DEF HandlerStages
  <1>5. ASSUME NEW g, NEW r, NEW a, NEW m, \/ RestoreRead(p, a) \/ DeleteGroupRead(p, g)
                                           \/ RemoveRootRead(p, r) \/ TrustRead(p, a, m)
        PROVE  LockedOn(p)' /\ Binds(p)'
    BY <1>1, <1>5, SmallReads DEF HandlerStages
  <1>6. ASSUME NEW g, NEW r, CreateGroup(p, g) \/ AddRoot(p, r)
        PROVE  LockedOn(p)' /\ Binds(p)'
    BY <1>6, SmallCommits DEF Ends, Blank, LockedOn, Binds, Stage, JobStages, UpStages
  <1>7. ASSUME NEW k \in {"up", "stop", "restart"}, NEW m, SelectAction(p, k, m)
        PROVE  LockedOn(p)' /\ Binds(p)'
    BY <1>7, ActionSelects DEF Fresh, LockedOn, Binds, Stage
  <1>8. ASSUME NEW k, NEW a \in App, NEW m \in Mode, SelectBinding(p, k, a, m)
        PROVE  LockedOn(p)' /\ Binds(p)'
    BY <1>8, BindingSelects DEF Fresh, LockedOn, Binds, Stage
  <1>9. ASSUME NEW id, NEW e, StartWatch(p, id) \/ ClientStopsWatch(p, e) \/ ConfigureSubmit(p)
        PROVE  LockedOn(p)' /\ Binds(p)'
    BY <1>1, <1>9, WatchStarts, ClientStops, ConfigureStarts
  <1> QED
    BY <1>2, <1>3, <1>4, <1>5, <1>6, <1>7, <1>8, <1>9 DEF Request

(* A commit under the lock keeps its application, or lets go of it. *)
LEMMA CommitNames ==
    ASSUME Shape, NEW p \in Proc, Reviewed(p), LockedOn(p), Commit(p)
    PROVE  LockedOn(p)' /\ Binds(p)'
  <1>1. Binds(p)'
    BY CommitStage DEF Binds, HandlerStages, JobStages, UpStages
  <1>2. CASE EditStopWatch(p)
    BY <1>1, <1>2, EditStops DEF LockedOn, Stage, GoesTo
  <1>3. CASE ArchiveObserve(p)
    <2>1. pr[p].app \in Lookup(pr[p].id) /\ UNCHANGED <<place, rec>>
      BY <1>3 DEF ArchiveObserve, catalog
    <2>2. pr'[p].app = pr[p].app /\ pr'[p].id = pr[p].id
      BY <1>3, ArchiveObserves DEF KeepsAll, KeepsTarget
    <2> QED
      BY <1>1, <2>1, <2>2 DEF LockedOn, Lookup, Id
  <1>4. CASE ~EditStopWatch(p) /\ ~ArchiveObserve(p)
    <2>1. Stage(p)' \in {"idle", "done"}
      BY <1>4, CommitsEnd, EditSyncs, RemoveSyncs, ArchiveSyncs, RestoreSyncs
         DEF Commit, Stage, GoesTo, Ends, Blank
    <2> QED
      BY <1>1, <2>1 DEF LockedOn
  <1> QED
    BY <1>2, <1>3, <1>4

(* An operation keeps its claim to its end; a handler under the lock keeps *)
(* all it has.                                                             *)
LEMMA WorkKeeps ==
    ASSUME Shape, NEW p \in Proc, Staged(p), Work(p)
    PROVE  /\ Stage(p) # "idle"
           /\ Ends(p) \/ KeepsClaim(p)
           /\ Stage(p)' \in {"edit", "remove", "archive"} =>
                 KeepsAll(p) /\ Stage(p)' = Stage(p) /\ UNCHANGED catalog
  <1>0. ASSUME OnToNext(p) PROVE KeepsClaim(p) /\ Stage(p)' = "job"
    BY <1>0 DEF OnToNext, Stage
  <1>1. ASSUME Ends(p) PROVE Stage(p)' = "idle"
    BY <1>1 DEF Ends, Blank, Stage
  <1>2. ASSUME KeepsAll(p) PROVE KeepsClaim(p)
    BY <1>2 DEF KeepsAll, KeepsTarget
  <1>3. CASE Submit(p) \/ JobTake(p) \/ WatchRead(p)
    BY <1>3, Submits, JobTakes, WatchesRead DEF KeepsTarget, Stage
  <1>4. CASE \/ JobFail(p) \/ JobEnd(p) \/ ExistingRun(p) \/ BindCommit(p) \/ UnbindCommit(p)
             \/ WatchBegin(p)
    BY <1>0, <1>1, <1>4, JobsFail DEF Stage
  <1>5. CASE UpApproved(p) \/ UpMode(p) \/ UpReapprove(p) \/ UpRun(p)
    BY <1>0, <1>5, UpsApprove, UpsMode, UpsReapprove, UpsRun DEF KeepsTarget, Stage
  <1>6. CASE UpClear(p) \/ UpApply(p)
    BY <1>6, UpsClear, UpsApply DEF KeepsTarget, Stage, GoesTo
  <1>7. CASE HandlerStopsWatch(p) \/ ConfigureStopsWatch(p)
    <2>1. UNCHANGED catalog
      BY <1>7 DEF HandlerStopsWatch, ConfigureStopsWatch, StopWatch
    <2> QED
      BY <1>2, <1>7, <2>1, HandlersStop DEF Stage, GoesTo
  <1>8. CASE StopReturns(p)
    <2>1. UNCHANGED catalog
      BY <1>8 DEF StopReturns
    <2>2. pr[p].next # "idle"
      BY <1>8, StopsReturn DEF Staged
    <2> QED
      BY <1>1, <1>2, <1>8, <2>1, <2>2, StopsReturn DEF Stage, Staged
  <1>9. CASE Configure(p) \/ ConfigureEnds(p)
    BY <1>1, <1>2, <1>9, Configures DEF Stage
  <1>10. CASE SyncRead(p)
    BY <1>2, <1>10, SyncsRead DEF GoesTo, Stage, Staged
  <1>11. CASE SyncWrite(p) \/ SyncFail(p)
    BY <1>0, <1>1, <1>2, <1>11, SyncsReturn DEF Stage, Staged
  <1> QED
    BY <1>3, <1>4, <1>5, <1>6, <1>7, <1>8, <1>9, <1>10, <1>11 DEF Work

(* A step of an operation keeps its mode; a handler under the lock keeps its application. *)
LEMMA WorkNames ==
    ASSUME Shape, NEW p \in Proc, Staged(p), LockedOn(p), Binds(p), Work(p)
    PROVE  LockedOn(p)' /\ Binds(p)'
  <1>1. LockedOn(p)'
    BY WorkKeeps DEF KeepsAll, KeepsTarget, LockedOn, Id, catalog
  <1>2. CASE Ends(p)
    BY <1>1, <1>2 DEF Ends, Blank, Binds, Stage, JobStages, UpStages
  <1>3. CASE KeepsClaim(p)
    <2>1. pr[p].op = "bind" => Stage(p) \in JobStages
      BY WorkKeeps DEF Staged, IsJob
    <2> QED
      BY <1>1, <1>3, <2>1 DEF KeepsClaim, Binds
  <1> QED
    BY <1>2, <1>3, WorkKeeps

(* The identities and the bindings are in order after every step. *)
LEMMA NameStep ==
    ASSUME ClaimInv, Registering, TargetInv, NameInv, [Next]_vars
    PROVE  NameInv'
  <1>0. Unique /\ Placed /\ \A p \in Proc : LockedOn(p) /\ Binds(p)
    BY NameParts
  <1>1. ASSUME NEW p \in Proc, Turn(p) PROVE NameInv'
    <2>0. Shape /\ Staged(p) /\ Reviewed(p) /\ Target(p) /\ LockedOn(p) /\ Binds(p)
      BY <1>0 DEF ClaimInv, TargetInv
    <2>1. LockedOn(p)' /\ Binds(p)'
      BY <1>1, <2>0, RequestNames, CommitNames, WorkNames DEF Turn
    <2>2. ASSUME NEW q \in Proc \ {p} PROVE LockedOn(q)' /\ Binds(q)'
      <3>1. pr'[q] = pr[q] /\ Stage(q)' = Stage(q)
        BY <1>1, <2>0, TurnShape DEF Stage
      <3>2. CASE Stage(q) \in {"remove", "archive"}
        <4>1. Protected(q, pr[q].app) /\ pr[q].app \in App
          BY <1>0, <3>2 DEF LockedOn, Protected, ClaimInv, Locked
        <4>2. Untouched(pr[q].app)
          BY <1>1, <2>0, <4>1, OthersKeepOff
        <4> QED
          BY <1>0, <3>1, <4>2 DEF Untouched, LockedOn, Binds, Id
      <3>3. CASE Stage(q) \notin {"remove", "archive"}
        BY <1>0, <3>1, <3>3 DEF LockedOn, Binds
      <3> QED
        BY <3>2, <3>3
    <2>3. Unique' /\ Placed'
      <3>1. CASE Request(p)
        <4>1. UNCHANGED <<place, rec, bindings, kept>>
          BY <3>1, RequestCatalog
        <4> QED
          BY <1>0, <4>1, SamePlaced, SameNamesKeep DEF SameNames, Named
      <3>2. CASE Commit(p)
        BY <1>0, <2>0, <3>2, CommitUnique, CommitPlaced
      <3>3. CASE Work(p)
        <4>1. SameNames
          BY <2>0, <3>3, WorkCatalog DEF SameNames, Named
        <4> QED
          BY <1>0, <2>0, <3>3, <4>1, SameNamesKeep, WorkPlaced
      <3> QED
        BY <1>1, <3>1, <3>2, <3>3 DEF Turn
    <2>4. NameInv' <=> (Unique /\ Placed /\ \A q \in Proc : LockedOn(q) /\ Binds(q))'
      BY DEF NameInv, WellFormed, BindingsInPlace, Unique, Named, Placed
    <2> QED
      BY <2>1, <2>2, <2>3, <2>4
  <1>2. CASE Crash
    <2>1. UNCHANGED <<place, rec, bindings, kept>> /\ \A p \in Proc : Stage(p)' = "idle"
      BY <1>2, CrashClaims DEF Crash, catalog, Stage, Blank
    <2> QED
      BY <2>1 DEF NameInv, BindingsTyped, WellFormed, BindingsInPlace, Id, LockedOn, Binds,
         JobStages, UpStages
  <1>3. CASE Elsewhere
    <2>1. UNCHANGED <<place, rec, bindings, kept, pr>>
      BY <1>3, ElsewhereKeeps DEF catalog
    <2> QED
      BY <2>1 DEF NameInv, BindingsTyped, WellFormed, BindingsInPlace, Id, LockedOn, Binds, Stage
  <1> QED
    BY <1>1, <1>2, <1>3, Steps

(* They are in order at first. *)
LEMMA InitName ==
    ASSUME Init
    PROVE  NameInv
  BY DEF Init, Blank, NameInv, BindingsTyped, WellFormed, BindingsInPlace, LockedOn, Binds, Stage,
       JobStages, UpStages
--------------------------------------------------------------------------------
(* What an operation knows of the record it works on stays true, because   *)
(* nobody else changes that record.                                        *)
JobFacts(p) ==
    LET r == rec[pr[p].app]
    IN  /\ Stage(p) = "up" /\ pr[p].op = "up" => pr[p].seen = r
        /\ Stage(p) \in UpStages => pr[p].config = r.config
        /\ Stage(p) = "mode" => \A t \in r.applied : t[1] = pr[p].mode
        /\ Stage(p) \in {"reapprove", "run", "apply"} => r.mode = pr[p].mode
        /\ Stage(p) = "run" => Fingerprint(pr[p].app, r.config, pr[p].mode) \in r.trust
        /\ Stage(p) = "follow" => pr[p].seen = r /\ r.mode = "dev"

JobInv == AppliedIsCurrent /\ \A p \in Proc : JobFacts(p)

(* The id of a target is the id of one application only.                   *)
LEMMA OneTarget ==
    ASSUME Unique, NEW p \in Proc, OnTarget(p), NEW a \in Lookup(pr[p].id)
    PROVE  a = pr[p].app
  BY DEF Unique, OnTarget, Lookup, Named

(* Where a request can begin, and what it knows there. *)
LEMMA RequestStage ==
    ASSUME Shape, NEW p \in Proc, Request(p)
    PROVE  \/ Stage(p)' \in (HandlerStages \ {"remove", "archive"}) \cup {"idle", "select", "quiet"}
           \/ Stage(p)' = "remove" /\ \E a \in App : RemoveObserve(p, a)
           \/ Stage(p)' = "watch" /\ \E a \in App : StartWatch(p, Id(a))
  <1> DEFINE Fits ==
          Stage(p)' \in (HandlerStages \ {"remove", "archive"}) \cup {"idle", "select", "quiet"}
  <1>0. ASSUME NEW x \in (HandlerStages \ {"remove", "archive"}) \cup {"select", "quiet"}, NEW k,
               Fresh(p, x, k)
        PROVE  Fits
    BY <1>0 DEF Fresh, Stage, HandlerStages
  <1>1. ASSUME NEW a \in App, NEW g, NEW c, RegisterRead(p, a, g, c) \/ EditRead(p, a, g, c)
        PROVE  Fits
    BY <1>0, <1>1, RegisterReads, EditReads DEF HandlerStages
  <1>2. ASSUME NEW a \in App, ArchiveReview(p, a)
        PROVE  Fits
    BY <1>0, <1>2, ArchiveReads DEF HandlerStages
  <1>3. ASSUME NEW g, NEW r, NEW a, NEW m, \/ RestoreRead(p, a) \/ DeleteGroupRead(p, g)
                                           \/ RemoveRootRead(p, r) \/ TrustRead(p, a, m)
        PROVE  Fits
    BY <1>0, <1>3, SmallReads DEF HandlerStages
  <1>4. ASSUME NEW g, NEW r, CreateGroup(p, g) \/ AddRoot(p, r)
        PROVE  Fits
    BY <1>4, SmallCommits DEF Ends, Blank, Stage
  <1>5. ASSUME NEW k, NEW a, NEW m, SelectAction(p, k, m) \/ SelectBinding(p, k, a, m)
        PROVE  Fits
    BY <1>0, <1>5, ActionSelects, BindingSelects
  <1>6. ASSUME ConfigureSubmit(p)
        PROVE  Fits
    BY <1>0, <1>6, ConfigureStarts
  <1>7. ASSUME NEW e, ClientStopsWatch(p, e)
        PROVE  Fits
    BY <1>7, ClientStops DEF Fresh, Stage, HandlerStages
  <1>8. ASSUME NEW a \in App, RemoveObserve(p, a)
        PROVE  Stage(p)' = "remove"
    BY <1>8, RemoveBegins DEF Fresh, Stage
  <1>9. ASSUME NEW id, StartWatch(p, id)
        PROVE  Stage(p)' = "watch"
    BY <1>9, WatchStarts DEF Fresh, Stage
  <1> HIDE DEF Fits
  <1>10. \/ Fits \/ \E a \in App : RemoveObserve(p, a)
         \/ \E a \in App : StartWatch(p, Id(a))
    BY <1>1, <1>2, <1>3, <1>4, <1>5, <1>6, <1>7 DEF Request
  <1> QED
    BY <1>8, <1>9, <1>10 DEF Fits

(* A handler knows nothing of the kind. *)
LEMMA HandlerFacts ==
    ASSUME Shape, NEW p \in Proc, Request(p) \/ Commit(p)
    PROVE  JobFacts(p)'
  BY RequestStage, CommitStage DEF JobFacts, HandlerStages, UpStages

(* A step of an operation learns what it needs to know at the next. *)
LEMMA WorkFacts ==
    ASSUME Shape, Unique, NEW p \in Proc, Staged(p), Target(p), JobFacts(p), Work(p)
    PROVE  JobFacts(p)'
  <1> DEFINE Facts == JobFacts(p)'
  <1>0. ASSUME Stage(p)' \in {"idle", "job", "bind", "edit", "remove", "archive", "done", "quiet",
                              "configure"}
        PROVE  Facts
    BY <1>0 DEF JobFacts, UpStages
  <1>1. ASSUME OnToNext(p) \/ Ends(p) PROVE Facts
    BY <1>0, <1>1 DEF OnToNext, Ends, Blank, Stage
  <1>2. ASSUME KeepsAll(p), Stage(p)' = Stage(p), UNCHANGED catalog
        PROVE  Facts
    BY <1>2 DEF KeepsAll, KeepsTarget, KeepsClaim, JobFacts, Fingerprint, LinksOf, catalog
  <1>3. CASE Submit(p)
    BY <1>0, <1>3, Submits DEF Stage
  <1>4. CASE JobTake(p)
    <2>1. UNCHANGED catalog /\ KeepsClaim(p)
      BY <1>4, JobTakes DEF JobTake, OnlyReads
    <2>2. CASE pr'[p].at \in {"job", "bind"}
      BY <1>0, <2>2 DEF Stage
    <2>3. CASE pr'[p].at = "up"
      <3>1. pr[p].op = "up" => pr'[p].seen = rec[pr'[p].app]
        BY <1>4, <2>3, JobTakes
      <3> QED
        BY <2>1, <2>3, <3>1 DEF JobFacts, Stage, UpStages, KeepsClaim, catalog
    <2> QED
      BY <1>4, <2>2, <2>3, JobTakes
  <1>5. CASE \/ JobFail(p) \/ JobEnd(p) \/ ExistingRun(p) \/ BindCommit(p) \/ UnbindCommit(p)
             \/ WatchBegin(p)
    BY <1>1, <1>5, JobsFail
  <1>6. CASE UpApproved(p)
    <2>1. UNCHANGED catalog /\ pr[p].seen = rec[pr[p].app]
      BY <1>6, UpsApprove DEF UpApproved, OnlyReads, JobFacts, Stage
    <2> QED
      BY <1>6, <2>1, UpsApprove DEF KeepsClaim, JobFacts, Stage, UpStages, catalog
  <1>7. CASE UpClear(p)
    <2>1. pr[p].at = "approved" /\ OnTarget(p) /\ pr[p].config = rec[pr[p].app].config
      BY <1>7, UpsClear DEF JobFacts, Target, Stage, UpStages
    <2>2. rec' = [rec EXCEPT ![pr[p].app].applied = {}]
      BY <1>7, <2>1, OneTarget DEF UpClear
    <2>3. rec'[pr[p].app].applied = {} /\ rec'[pr[p].app].config = rec[pr[p].app].config
      BY <2>1, <2>2 DEF Shape, StackFields, OnTarget
    <2>4. Stage(p)' = "mode" /\ pr'[p].app = pr[p].app /\ pr'[p].config = pr[p].config
      BY <1>7, UpsClear DEF GoesTo, Stage, KeepsTarget
    <2> QED
      BY <2>1, <2>3, <2>4 DEF JobFacts
  <1>8. CASE UpMode(p)
    <2>1. pr[p].at = "mode" /\ OnTarget(p) /\ pr[p].config = rec[pr[p].app].config
      BY <1>8, UpsMode DEF JobFacts, Target, Stage, UpStages
    <2>2. rec' = [rec EXCEPT ![pr[p].app].mode = pr[p].mode]
      BY <1>8, <2>1, OneTarget DEF UpMode
    <2>3. rec'[pr[p].app].mode = pr[p].mode /\ rec'[pr[p].app].config = rec[pr[p].app].config
      BY <2>1, <2>2 DEF Shape, StackFields, OnTarget
    <2>4. /\ Stage(p)' = "reapprove" /\ pr'[p].app = pr[p].app /\ pr'[p].config = pr[p].config
          /\ pr'[p].mode = pr[p].mode
      BY <1>8, UpsMode DEF Stage, KeepsTarget, KeepsClaim
    <2> QED
      BY <2>1, <2>3, <2>4 DEF JobFacts
  <1>9. CASE UpReapprove(p)
    <2>1. pr[p].at = "reapprove" /\ OnTarget(p)
      BY <1>9, UpsReapprove DEF Target, Stage, UpStages
    <2>2. UNCHANGED catalog /\ pr'[p].app = pr[p].app
      BY <1>9, <2>1, UpsReapprove, OneTarget DEF UpReapprove, OnlyReads
    <2>3. pr'[p].at = "run" /\ pr'[p].mode = pr[p].mode /\ pr'[p].config = pr[p].config
      BY <1>9, UpsReapprove DEF KeepsClaim
    <2>4. Fingerprint(pr[p].app, rec[pr[p].app].config, pr[p].mode) \in rec[pr[p].app].trust
      BY <1>9, <2>2, UpsReapprove DEF Approved
    <2> QED
      BY <2>1, <2>2, <2>3, <2>4 DEF JobFacts, Stage, UpStages, Fingerprint, LinksOf, catalog
  <1>10. CASE UpRun(p)
    <2>1. CASE pr'[p].at = "apply" /\ KeepsTarget(p)
      <3>1. UNCHANGED catalog /\ pr[p].at = "run"
        BY <1>10 DEF UpRun
      <3> QED
        BY <2>1, <3>1 DEF KeepsTarget, KeepsClaim, JobFacts, Stage, UpStages, catalog
    <2> QED
      BY <1>1, <1>10, <2>1, UpsRun
  <1>11. CASE UpApply(p)
    BY <1>0, <1>11, UpsApply DEF GoesTo, Stage
  <1>12. CASE HandlerStopsWatch(p) \/ ConfigureStopsWatch(p) \/ StopReturns(p)
    <2>1. UNCHANGED catalog
      BY <1>12 DEF HandlerStopsWatch, ConfigureStopsWatch, StopReturns, StopWatch
    <2> QED
      BY <1>1, <1>2, <1>12, <2>1, HandlersStop, StopsReturn DEF GoesTo, Stage, Staged
  <1>13. CASE WatchRead(p)
    <2>1. UNCHANGED catalog
      BY <1>13 DEF WatchRead, OnlyReads
    <2> QED
      BY <1>13, <2>1, WatchesRead DEF JobFacts, Stage, UpStages, catalog
  <1>14. CASE Configure(p) \/ ConfigureEnds(p)
    BY <1>0, <1>1, <1>14, Configures DEF Stage
  <1>15. CASE SyncRead(p)
    <2>1. UNCHANGED catalog
      BY <1>15 DEF SyncRead
    <2> QED
      BY <1>2, <1>15, <2>1, SyncsRead DEF GoesTo, Stage
  <1>16. CASE SyncWrite(p) \/ SyncFail(p)
    <2>1. UNCHANGED catalog
      BY <1>16 DEF SyncWrite, SyncFail
    <2> QED
      BY <1>1, <1>2, <1>16, <2>1, SyncsReturn DEF Stage
  <1> HIDE DEF Facts
  <1> QED
    BY <1>3, <1>4, <1>5, <1>6, <1>7, <1>8, <1>9, <1>10, <1>11, <1>12, <1>13, <1>14, <1>15, <1>16
       DEF Work

(* A commit of another configuration or mode takes the applied routes away. *)
LEMMA CommitCurrent ==
    ASSUME Shape, AppliedIsCurrent, NEW p \in Proc, Commit(p)
    PROVE  AppliedIsCurrent'
  <1>0. PICK app : app = pr[p].app
    OBVIOUS
  <1>1. CASE RegisterCommit(p)
    BY <1>1 DEF RegisterCommit, AppliedIsCurrent, Shape, NewStack
  <1>2. CASE EditCommit(p)
    <2>1. /\ place' = place /\ app \in App /\ place[app] = "active"
          /\ rec' = [rec EXCEPT ![app] = Edited(@, pr[p].group, pr[p].config)]
      BY <1>0, <1>2 DEF EditCommit, Lookup
    <2>2. \/ rec'[app].applied = {}
          \/ /\ rec'[app].applied = rec[app].applied /\ rec'[app].mode = rec[app].mode
             /\ rec'[app].config = rec[app].config
      BY <2>1 DEF Shape, StackFields, Edited
    <2>3. \A a \in App : a # app => rec'[a] = rec[a]
      BY <2>1 DEF Shape
    <2> QED
      BY <2>1, <2>2, <2>3 DEF AppliedIsCurrent
  <1>3. CASE RemoveCommit(p) \/ ArchiveCommit(p) \/ RestoreCommit(p)
    <2>1. rec' = rec /\ \A a \in App : Named(a)' => Named(a)
      BY <1>3 DEF RemoveCommit, ArchiveCommit, RestoreCommit, Named, Shape, Lookup
    <2> QED
      BY <2>1 DEF AppliedIsCurrent, Named
  <1>4. CASE TrustCommit(p)
    <2>1. place' = place /\ \E a : rec' = [rec EXCEPT ![a] = Approve(@, pr[p].mode, pr[p].seen)]
      BY <1>4 DEF TrustCommit
    <2>2. \A a \in App : /\ rec'[a].applied = rec[a].applied /\ rec'[a].mode = rec[a].mode
                         /\ rec'[a].config = rec[a].config
      BY <2>1 DEF Shape, StackFields, Approve
    <2> QED
      BY <2>1, <2>2 DEF AppliedIsCurrent
  <1>5. CASE \/ EditStopWatch(p) \/ ArchiveObserve(p) \/ DeleteGroupCommit(p)
             \/ RemoveRootCommit(p) \/ Abandon(p)
    <2>1. UNCHANGED <<place, rec>>
      BY <1>5 DEF EditStopWatch, StopWatch, ArchiveObserve, DeleteGroupCommit, RemoveRootCommit,
         Abandon, catalog
    <2> QED
      BY <2>1 DEF AppliedIsCurrent
  <1> QED
    BY <1>1, <1>2, <1>3, <1>4, <1>5 DEF Commit

(* An operation applies the routes of the record it ran. *)
LEMMA WorkCurrent ==
    ASSUME Shape, Unique, AppliedIsCurrent, NEW p \in Proc, Target(p), JobFacts(p), Work(p)
    PROVE  AppliedIsCurrent'
  <1>0. place' = place
    BY WorkCatalog
  <1>1. PICK app : app = pr[p].app
    OBVIOUS
  <1>2. CASE UpClear(p)
    <2>1. \E a : rec' = [rec EXCEPT ![a].applied = {}]
      BY <1>2 DEF UpClear
    <2>2. \A a \in App : rec'[a] = rec[a] \/ rec'[a].applied = {}
      BY <2>1 DEF Shape, StackFields
    <2> QED
      BY <1>0, <2>2 DEF AppliedIsCurrent
  <1>3. CASE UpMode(p)
    <2>1. OnTarget(p) /\ \A t \in rec[app].applied : t[1] = pr[p].mode
      BY <1>1, <1>3, UpsMode DEF JobFacts, Target, Stage, UpStages
    <2>2. rec' = [rec EXCEPT ![app].mode = pr[p].mode]
      BY <1>1, <1>3, <2>1, OneTarget DEF UpMode
    <2>3. app \in App /\ place[app] = "active"
      BY <1>1, <2>1 DEF OnTarget
    <2>4. /\ rec'[app].mode = pr[p].mode /\ rec'[app].config = rec[app].config
          /\ rec'[app].applied = rec[app].applied
      BY <2>2, <2>3 DEF Shape, StackFields
    <2>5. \A t \in rec[app].applied : t = <<rec[app].mode, rec[app].config>> /\ rec[app].mode = pr[p].mode
      BY <2>1, <2>3 DEF AppliedIsCurrent
    <2>6. \A a \in App : a # app => rec'[a] = rec[a]
      BY <2>2 DEF Shape
    <2> QED
      BY <1>0, <2>4, <2>5, <2>6 DEF AppliedIsCurrent
  <1>4. CASE UpApply(p)
    <2>1. /\ OnTarget(p) /\ rec[app].mode = pr[p].mode /\ rec[app].config = pr[p].config
      BY <1>1, <1>4, UpsApply DEF JobFacts, Target, Stage, UpStages
    <2>2. rec' = [rec EXCEPT ![app].applied = {<<pr[p].mode, pr[p].config>>}]
      BY <1>1, <1>4, <2>1, OneTarget DEF UpApply
    <2>3. app \in App
      BY <1>1, <2>1 DEF OnTarget
    <2>4. /\ rec'[app].mode = pr[p].mode /\ rec'[app].config = pr[p].config
          /\ rec'[app].applied = {<<pr[p].mode, pr[p].config>>}
      BY <2>1, <2>2, <2>3 DEF Shape, StackFields
    <2>5. \A a \in App : a # app => rec'[a] = rec[a]
      BY <2>2 DEF Shape
    <2> QED
      BY <1>0, <2>4, <2>5 DEF AppliedIsCurrent
  <1>5. CASE BindCommit(p) \/ UnbindCommit(p)
    <2>1. \E a : rec' = [rec EXCEPT ![a].trust = {}]
      BY <1>5 DEF BindCommit, UnbindCommit
    <2>2. \A a \in App : /\ rec'[a].applied = rec[a].applied /\ rec'[a].mode = rec[a].mode
                         /\ rec'[a].config = rec[a].config
      BY <2>1 DEF Shape, StackFields
    <2> QED
      BY <1>0, <2>2 DEF AppliedIsCurrent
  <1>6. CASE ~(UpClear(p) \/ UpMode(p) \/ UpApply(p) \/ BindCommit(p) \/ UnbindCommit(p))
    <2>1. UNCHANGED rec
      BY <1>6 DEF Work, Submit, JobTake, JobFail, JobEnd, ExistingRun, UpApproved,
         UpReapprove, UpRun, HandlerStopsWatch, StopWatch,
         StopReturns, WatchRead, WatchBegin, ConfigureStopsWatch, Configure, ConfigureEnds,
         SyncRead, SyncWrite, SyncFail, OnlyReads, catalog
    <2> QED
      BY <1>0, <2>1 DEF AppliedIsCurrent
  <1> QED
    BY <1>2, <1>3, <1>4, <1>5, <1>6

(* What an operation knows stays true through every step. *)
LEMMA JobStep ==
    ASSUME ClaimInv, Registering, TargetInv, NameInv, JobInv, [Next]_vars
    PROVE  JobInv'
  <1>1. ASSUME NEW p \in Proc, Turn(p) PROVE JobInv'
    <2>0. Shape /\ Unique /\ Staged(p) /\ Target(p) /\ JobFacts(p) /\ AppliedIsCurrent
      BY NameParts DEF ClaimInv, TargetInv, JobInv
    <2>1. JobFacts(p)'
      BY <1>1, <2>0, HandlerFacts, WorkFacts DEF Turn
    <2>2. ASSUME NEW q \in Proc \ {p} PROVE JobFacts(q)'
      <3>0. pr'[q] = pr[q] /\ Stage(q)' = Stage(q) /\ JobFacts(q)
        BY <1>1, <2>0, TurnShape DEF Stage, JobInv
      <3>1. CASE Stage(q) \in UpStages \cup {"up", "follow"}
        <4>1. OnTarget(q) /\ Holds(q)
          BY <3>1, HoldsByStage DEF ClaimInv, TargetInv, Target, JobStages, UpStages
        <4>2. Untouched(pr[q].app)
          BY <1>1, <4>1, OthersKeepOff DEF TargetInv, Protected, OnTarget
        <4>3. rec'[pr[q].app] = rec[pr[q].app] /\ LinksOf(pr[q].app)' = LinksOf(pr[q].app)
          BY <3>0, <4>2 DEF Untouched, LinksOf, Links
        <4> QED
          BY <3>0, <4>3 DEF JobFacts, Fingerprint
      <3>2. CASE Stage(q) \notin UpStages \cup {"up", "follow"}
        BY <3>0, <3>2 DEF JobFacts, UpStages
      <3> QED
        BY <3>1, <3>2
    <2>3. AppliedIsCurrent'
      <3>1. CASE Request(p)
        BY <2>0, <3>1, RequestCatalog DEF AppliedIsCurrent
      <3> QED
        BY <1>1, <2>0, <3>1, CommitCurrent, WorkCurrent DEF Turn
    <2> QED
      BY <2>1, <2>2, <2>3 DEF JobInv
  <1>2. CASE Crash
    <2>1. UNCHANGED <<place, rec>> /\ \A p \in Proc : Stage(p)' = "idle"
      BY <1>2, CrashClaims DEF Crash, catalog, Stage, Blank
    <2> QED
      BY <2>1 DEF JobInv, AppliedIsCurrent, JobFacts, UpStages
  <1>3. CASE Elsewhere
    <2>1. UNCHANGED <<place, rec, bindings, pr>>
      BY <1>3, ElsewhereKeeps DEF catalog
    <2> QED
      BY <2>1 DEF JobInv, AppliedIsCurrent, JobFacts, Stage, Fingerprint, LinksOf
  <1> QED
    BY <1>1, <1>2, <1>3, Steps

(* Nothing is applied at first. *)
LEMMA InitJob ==
    ASSUME Init
    PROVE  JobInv
  BY DEF Init, Blank, JobInv, AppliedIsCurrent, JobFacts, Stage, UpStages
--------------------------------------------------------------------------------
(* The watches, which go on without a claim.                               *)

(* Nobody's watch runs under the id on which an operation acts or starts   *)
(* one, and none at all while the virtual machine is configured.           *)
WatchFree(p) ==
    /\ Stage(p) \in {"watch", "follow"} \cup UpStages => Watched(pr[p].id) = {}
    /\ pr[p].at = "configure" => watches = {}

WatchInv ==
    /\ WatchIsListed /\ WatchIsCurrent
    /\ \A e \in followed : e.app \in App
    /\ \A p \in Proc : WatchFree(p)

(* Only the operation of a watch adds an entry, only a stop removes one.   *)
LEMMA TurnWatches ==
    ASSUME NEW p \in Proc, Turn(p), ~WatchBegin(p), ~StopReturns(p)
    PROVE  UNCHANGED <<watches, followed>>
  <1>1. CASE Request(p)
    BY <1>1, RequestCatalog
  <1>2. CASE Commit(p)
    BY <1>2 DEF Commit, RegisterCommit, EditStopWatch, StopWatch, EditCommit, RemoveCommit,
       ArchiveObserve, ArchiveCommit, RestoreCommit, DeleteGroupCommit, RemoveRootCommit,
       TrustCommit, Abandon, ThenSync, ThenDone, docker
  <1>3. CASE Work(p)
    BY <1>3 DEF Work, Submit, JobTake, JobFail, JobEnd, ExistingRun, UpApproved, UpClear, UpMode,
       UpReapprove, UpRun, UpApply, BindCommit, UnbindCommit, HandlerStopsWatch, StopWatch,
       WatchRead, ConfigureStopsWatch, Configure, ConfigureEnds, SyncRead, SyncWrite, SyncFail,
       OnlyReads, docker
  <1> QED
    BY <1>1, <1>2, <1>3 DEF Turn

(* The entry of a watch has what its operation holds. *)
LEMMA EntryFields ==
    ASSUME NEW p \in Proc
    PROVE  /\ Entry(p).id = pr[p].id /\ Entry(p).app = pr[p].app
           /\ Entry(p).config = pr[p].seen.config
  BY DEF Entry

(* The watch begins on what its operation holds.                           *)
LEMMA WatchBegins ==
    ASSUME ClaimInv, TargetInv, JobInv, WatchInv, NEW p \in Proc, WatchBegin(p)
    PROVE  /\ Holds(p) /\ OnTarget(p) /\ Watched(pr[p].id) = {}
           /\ rec[pr[p].app].mode = "dev" /\ rec[pr[p].app].config = pr[p].seen.config
           /\ watches' = watches \cup {Entry(p)} /\ followed' = followed \cup {Entry(p)}
           /\ UNCHANGED catalog
  <1>1. Stage(p) = "follow"
    BY DEF WatchBegin, Stage
  <1>2. Holds(p)
    BY <1>1, HoldsByStage DEF ClaimInv, JobStages
  <1>3. OnTarget(p)
    BY <1>1 DEF TargetInv, Target
  <1>4. Watched(pr[p].id) = {}
    BY <1>1 DEF WatchInv, WatchFree
  <1>5. rec[pr[p].app].mode = "dev" /\ rec[pr[p].app].config = pr[p].seen.config
    BY <1>1 DEF JobInv, JobFacts
  <1> QED
    BY <1>2, <1>3, <1>4, <1>5 DEF WatchBegin

(* No commit touches what a watch follows.                                 *)
Follows(e) ==
    /\ place'[e.app] = place[e.app] /\ rec'[e.app].group = rec[e.app].group
    /\ rec'[e.app].mode = rec[e.app].mode /\ rec'[e.app].config = rec[e.app].config

(* A commit finds no watch on the application it changes. *)
LEMMA CommitFollows ==
    ASSUME Shape, Registering, WatchInv, NEW p \in Proc, LockedOn(p), Commit(p), NEW e \in followed
    PROVE  Follows(e)
  <1>0. /\ e.app \in App /\ place[e.app] = "active" /\ Id(e.app) = e.id
        /\ e \in watches
    BY DEF WatchInv, WatchIsListed, WatchIsCurrent
  <1>1. CASE RegisterCommit(p)
    BY <1>0, <1>1 DEF RegisterCommit, Registering, Shape, Follows
  <1>2. CASE EditCommit(p)
    <2>1. /\ Watched(pr[p].id) = {} /\ pr[p].app \in Lookup(pr[p].id) /\ place' = place
          /\ rec' = [rec EXCEPT ![pr[p].app] = Edited(@, pr[p].group, pr[p].config)]
      BY <1>2 DEF EditCommit, Unwatched
    <2>2. pr[p].app # e.app
      BY <1>0, <2>1 DEF Watched, Lookup
    <2> QED
      BY <1>0, <2>1, <2>2 DEF Shape, Follows
  <1>3. CASE RemoveCommit(p)
    <2>1. /\ Watched(pr[p].id) = {} /\ rec' = rec
          /\ place' = [a \in App |-> IF a \in Lookup(pr[p].id) THEN "removed" ELSE place[a]]
      BY <1>3 DEF RemoveCommit, Unwatched
    <2>2. e.app \notin Lookup(pr[p].id)
      BY <1>0, <2>1 DEF Watched, Lookup
    <2> QED
      BY <1>0, <2>1, <2>2 DEF Follows
  <1>4. CASE ArchiveCommit(p)
    <2>1. /\ Watched(pr[p].id) = {} /\ rec' = rec /\ Id(pr[p].app) = pr[p].id
          /\ place' = [place EXCEPT ![pr[p].app] = "archived"]
      BY <1>4 DEF ArchiveCommit, Unwatched, LockedOn, Stage
    <2>2. pr[p].app # e.app
      BY <1>0, <2>1 DEF Watched
    <2> QED
      BY <1>0, <2>1, <2>2 DEF Shape, Follows
  <1>5. CASE RestoreCommit(p)
    <2>1. /\ place[pr[p].app] = "archived" /\ rec' = rec
          /\ place' = [place EXCEPT ![pr[p].app] = "active"]
      BY <1>5 DEF RestoreCommit
    <2>2. pr[p].app # e.app
      BY <1>0, <2>1
    <2> QED
      BY <1>0, <2>1, <2>2 DEF Shape, Follows
  <1>6. CASE TrustCommit(p)
    <2>1. place' = place /\ \E a : rec' = [rec EXCEPT ![a] = Approve(@, pr[p].mode, pr[p].seen)]
      BY <1>6 DEF TrustCommit
    <2> QED
      BY <1>0, <2>1 DEF Shape, StackFields, Approve, Follows
  <1>7. CASE \/ EditStopWatch(p) \/ ArchiveObserve(p) \/ DeleteGroupCommit(p)
             \/ RemoveRootCommit(p) \/ Abandon(p)
    BY <1>7 DEF EditStopWatch, StopWatch, ArchiveObserve, DeleteGroupCommit, RemoveRootCommit,
       Abandon, catalog, Follows
  <1> QED
    BY <1>1, <1>2, <1>3, <1>4, <1>5, <1>6, <1>7 DEF Commit

(* An operation changes no application that a watch follows. *)
LEMMA WorkFollows ==
    ASSUME Shape, WatchInv, NEW p \in Proc, Work(p), NEW e \in followed
    PROVE  Follows(e)
  <1>0. /\ e.app \in App /\ place[e.app] = "active" /\ Id(e.app) = e.id
        /\ e \in watches
    BY DEF WatchInv, WatchIsListed, WatchIsCurrent
  <1>1. CASE UpMode(p)
    <2>1. /\ pr[p].at = "mode" /\ place' = place
          /\ \E a \in Lookup(pr[p].id) : rec' = [rec EXCEPT ![a].mode = pr[p].mode]
      BY <1>1 DEF UpMode
    <2>2. Watched(pr[p].id) = {}
      BY <2>1 DEF WatchInv, WatchFree, Stage, UpStages
    <2>3. e.app \notin Lookup(pr[p].id)
      BY <1>0, <2>2 DEF Watched, Lookup
    <2> QED
      BY <1>0, <2>1, <2>3 DEF Shape, Follows
  <1>2. CASE UpClear(p) \/ UpApply(p)
    <2>1. place' = place /\ \E a, v : rec' = [rec EXCEPT ![a].applied = v]
      BY <1>2 DEF UpClear, UpApply
    <2> QED
      BY <1>0, <2>1 DEF Shape, StackFields, Follows
  <1>3. CASE BindCommit(p) \/ UnbindCommit(p)
    <2>1. place' = place /\ \E a : rec' = [rec EXCEPT ![a].trust = {}]
      BY <1>3 DEF BindCommit, UnbindCommit
    <2> QED
      BY <1>0, <2>1 DEF Shape, StackFields, Follows
  <1>4. CASE ~(UpClear(p) \/ UpMode(p) \/ UpApply(p) \/ BindCommit(p) \/ UnbindCommit(p))
    BY <1>4 DEF Work, Submit, JobTake, JobFail, JobEnd, ExistingRun, UpApproved,
         UpReapprove, UpRun, HandlerStopsWatch, StopWatch,
         StopReturns, WatchRead, WatchBegin, ConfigureStopsWatch, Configure, ConfigureEnds,
         SyncRead, SyncWrite, SyncFail, OnlyReads, catalog, Follows
  <1> QED
    BY <1>1, <1>2, <1>3, <1>4

(* A step that follows nothing new leaves the watches as they should be.   *)
LEMMA FollowsKeeps ==
    ASSUME WatchInv, \A e \in followed : Follows(e),
           followed' \subseteq followed, followed' \subseteq watches', watches' \subseteq watches
    PROVE  WatchIsListed' /\ WatchIsCurrent' /\ \A e \in followed' : e.app \in App
  <1>1. WatchIsListed'
    BY DEF WatchInv, WatchIsListed
  <1>2. \A e \in followed : Id(e.app)' = Id(e.app)
    BY DEF Follows, Id
  <1> QED
    BY <1>1, <1>2 DEF WatchInv, WatchIsCurrent, Follows

(* An operation acts on an id that nobody watches, or found it unwatched.  *)
LEMMA WorkFree ==
    ASSUME Shape, NEW p \in Proc, Staged(p), WatchFree(p), Work(p), watches' \subseteq watches
    PROVE  WatchFree(p)'
  <1> DEFINE Watching == Stage(p)' \in {"watch", "follow"} \cup UpStages
  <1>2. ASSUME Watching
        PROVE  /\ pr'[p].id = pr[p].id
               /\ Stage(p) \in {"watch", "follow"} \cup UpStages \/ Watched(pr[p].id) = {}
    <2>1. ~Ends(p) /\ ~OnToNext(p)
      BY <1>2 DEF Ends, Blank, OnToNext, Stage, UpStages
    <2>2. ~(Submit(p) \/ JobTake(p) \/ JobFail(p) \/ JobEnd(p) \/ ExistingRun(p) \/ BindCommit(p)
            \/ UnbindCommit(p) \/ WatchBegin(p) \/ UpApply(p))
      BY <1>2, <2>1, Submits, JobTakes, JobsFail, UpsApply DEF Stage, UpStages, GoesTo
    <2>3. CASE UpApproved(p)
      BY <2>3, UpsApprove DEF UpApproved, Unwatched
    <2>4. CASE UpClear(p) \/ UpMode(p) \/ UpReapprove(p) \/ UpRun(p)
      BY <2>1, <2>4, UpsClear, UpsMode, UpsReapprove, UpsRun DEF KeepsTarget, Stage, UpStages
    <2>5. CASE HandlerStopsWatch(p) \/ ConfigureStopsWatch(p) \/ StopReturns(p)
      BY <1>2, <2>1, <2>5, HandlersStop, StopsReturn DEF GoesTo, Stage, Staged, UpStages
    <2>6. CASE WatchRead(p)
      BY <2>6, WatchesRead DEF Stage
    <2>7. CASE Configure(p) \/ ConfigureEnds(p)
      BY <1>2, <2>1, <2>7, Configures DEF Stage, UpStages
    <2>8. CASE SyncRead(p)
      BY <1>2, <2>8, SyncsRead DEF GoesTo, Stage, KeepsAll, KeepsTarget
    <2>9. CASE SyncWrite(p) \/ SyncFail(p)
      BY <2>1, <2>9, SyncsReturn DEF Stage, UpStages, KeepsAll, KeepsTarget
    <2> QED
      BY <2>2, <2>3, <2>4, <2>5, <2>6, <2>7, <2>8, <2>9 DEF Work
  <1>3. Watching => \A e \in watches' : e.id # pr'[p].id
    BY <1>2 DEF WatchFree, Watched
  <1>4. pr'[p].at = "configure" => watches' = {}
    <2> SUFFICES ASSUME pr'[p].at = "configure" PROVE watches' = {}
      OBVIOUS
    <2>1. Configure(p)
      BY Submits, JobTakes, JobsFail, UpsApprove, UpsClear, UpsMode, UpsReapprove, UpsRun, UpsApply,
         HandlersStop, StopsReturn, WatchesRead, Configures, SyncsRead, SyncsReturn
         DEF Work, OnToNext, Ends, Blank, GoesTo, Staged
    <2> QED
      BY <2>1 DEF Configure
  <1> QED
    BY <1>3, <1>4 DEF WatchFree, Watched

(* The watches are listed and current through every step. *)
LEMMA WatchStep ==
    ASSUME ClaimInv, Registering, TargetInv, NameInv, JobInv, WatchInv, [Next]_vars
    PROVE  WatchInv'
  <1>1. ASSUME NEW p \in Proc, Turn(p), ~WatchBegin(p) PROVE WatchInv'
    <2>0. Shape /\ Staged(p) /\ LockedOn(p) /\ WatchFree(p)
      BY NameParts DEF ClaimInv, NameInv, WatchInv
    <2>1. watches' \subseteq watches /\ followed' \subseteq followed /\ followed' \subseteq watches'
      <3>1. CASE StopReturns(p)
        BY <3>1 DEF StopReturns, Unlisted, WatchInv, WatchIsListed
      <3>2. CASE ~StopReturns(p)
        BY <1>1, <3>2, TurnWatches DEF WatchInv, WatchIsListed
      <3> QED
        BY <3>1, <3>2
    <2>2. \A e \in followed : Follows(e)
      BY <1>1, <2>0, CommitFollows, WorkFollows, RequestCatalog DEF Turn, Follows
    <2>3. WatchFree(p)'
      <3>1. CASE Work(p)
        BY <2>0, <2>1, <3>1, WorkFree
      <3>2. CASE Commit(p)
        <4>1. Stage(p)' \in HandlerStages \cup {"idle"} /\ pr'[p].at # "configure"
          BY <2>0, <3>2, CommitStage DEF Stage, HandlerStages
        <4> QED
          BY <4>1 DEF WatchFree, HandlerStages, UpStages
      <3>3. CASE \E a \in App : StartWatch(p, Id(a))
        <4>1. PICK a \in App : StartWatch(p, Id(a))
          BY <3>3
        <4>2. PICK id : id = Id(a)
          OBVIOUS
        <4>3. pr'[p].at = "watch" /\ pr'[p].id = id
          BY <2>0, <4>1, <4>2, WatchStarts DEF Fresh
        <4>4. Watched(id) = {}
          BY <4>1, <4>2 DEF StartWatch
        <4> QED
          BY <2>1, <4>3, <4>4 DEF WatchFree, Watched
      <3>4. CASE Request(p) /\ ~\E a \in App : StartWatch(p, Id(a))
        <4>1. Stage(p)' \in HandlerStages \cup {"idle", "select", "quiet"}
          BY <2>0, <3>4, RequestStage DEF HandlerStages
        <4>2. pr'[p].at # "configure"
          BY <4>1 DEF Stage, HandlerStages
        <4> QED
          BY <4>1, <4>2 DEF WatchFree, HandlerStages, UpStages
      <3> QED
        BY <1>1, <3>1, <3>2, <3>3, <3>4 DEF Turn
    <2>4. ASSUME NEW q \in Proc \ {p} PROVE WatchFree(q)'
      <3>1. pr'[q] = pr[q] /\ Stage(q)' = Stage(q) /\ WatchFree(q)
        BY <1>1, <2>0, TurnShape DEF Stage, WatchInv
      <3> QED
        BY <2>1, <3>1 DEF WatchFree, Watched
    <2> QED
      BY <2>1, <2>2, <2>3, <2>4, FollowsKeeps DEF WatchInv
  <1>2. ASSUME NEW p \in Proc, WatchBegin(p) PROVE WatchInv'
    <2>0. PICK new : new = Entry(p)
      OBVIOUS
    <2>1. /\ Holds(p) /\ OnTarget(p) /\ Watched(new.id) = {}
          /\ rec[new.app].mode = "dev" /\ rec[new.app].config = new.config
          /\ watches' = watches \cup {new} /\ followed' = followed \cup {new}
          /\ UNCHANGED catalog
          /\ new.id = pr[p].id /\ new.app = pr[p].app
      BY <1>2, <2>0, WatchBegins, EntryFields
    <2>2. WatchIsListed' /\ WatchIsCurrent' /\ \A e \in followed' : e.app \in App
      <3>1. WatchIsListed'
        BY <2>1 DEF WatchInv, WatchIsListed, Watched
      <3>2. /\ new.app \in App /\ place[new.app] = "active" /\ Id(new.app) = new.id
        BY <2>1 DEF OnTarget
      <3>3. UNCHANGED <<place, rec>>
        BY <2>1 DEF catalog
      <3> QED
        BY <2>1, <3>1, <3>2, <3>3 DEF WatchInv, WatchIsCurrent, Id
    <2>3. pr'[p].at = "job" /\ \A q \in Proc \ {p} : pr'[q] = pr[q]
      BY <1>2, JobsFail, TurnShape DEF ClaimInv, OnToNext, Turn, Work
    <2>4. WatchFree(p)'
      BY <2>3 DEF WatchFree, Stage, UpStages
    <2>5. ASSUME NEW q \in Proc \ {p} PROVE WatchFree(q)'
      <3>1. pr'[q] = pr[q] /\ Stage(q)' = Stage(q) /\ WatchFree(q)
        BY <2>3 DEF Stage, WatchInv
      <3>2. CASE Stage(q) \in {"watch", "follow", "configure"} \cup UpStages
        <4>1. Holds(q)
          BY <3>2, HoldsByStage DEF ClaimInv, JobStages, UpStages
        <4>2. /\ ~IsGlobal(pr[q].op) /\ pr[p].ids \cap pr[q].ids = {}
          BY <2>1, <4>1 DEF ClaimInv, Compatible
        <4>3. Stage(q) # "configure"
          BY <4>2 DEF ClaimInv, Staged, IsGlobal
        <4>4. pr[q].id \in pr[q].ids
          BY <3>2, <4>3 DEF TargetInv, Target, OnTarget
        <4>5. new.id # pr[q].id
          BY <2>1, <4>2, <4>4 DEF OnTarget
        <4>6. pr[q].at # "configure"
          BY <4>3 DEF Stage
        <4> QED
          BY <2>1, <3>1, <4>5, <4>6 DEF WatchFree, Watched
      <3>3. CASE Stage(q) \notin {"watch", "follow", "configure"} \cup UpStages
        BY <3>1, <3>3 DEF WatchFree, Stage
      <3> QED
        BY <3>2, <3>3
    <2> QED
      BY <2>2, <2>4, <2>5 DEF WatchInv
  <1>3. CASE Crash
    <2>1. /\ watches' = {} /\ followed' = {} /\ \A p \in Proc : pr'[p].at = "idle"
      BY <1>3, CrashClaims DEF Crash, Blank
    <2> QED
      BY <2>1 DEF WatchInv, WatchIsListed, WatchIsCurrent, WatchFree, Stage, UpStages
  <1>4. CASE Elsewhere
    <2>1. watches' = watches /\ followed' \subseteq followed
      BY <1>4 DEF Elsewhere, Exit, LateStart, WatchRebuilds, WatchEnds, Exhausted, vars
    <2>2. UNCHANGED <<place, rec, pr>>
      BY <1>4, ElsewhereKeeps DEF catalog
    <2>3. \A e \in followed : Follows(e)
      BY <2>2 DEF Follows
    <2>4. \A p \in Proc : WatchFree(p)'
      BY <2>1, <2>2 DEF WatchInv, WatchFree, Watched, Stage
    <2> QED
      BY <2>1, <2>3, <2>4, FollowsKeeps DEF WatchInv, WatchIsListed
  <1> QED
    BY <1>1, <1>2, <1>3, <1>4, Steps

(* Nothing is watched at first. *)
LEMMA InitWatch ==
    ASSUME Init
    PROVE  WatchInv
  BY DEF Init, Blank, WatchInv, WatchIsListed, WatchIsCurrent, WatchFree, Stage, UpStages
--------------------------------------------------------------------------------
(* What runs is in the catalog.                                            *)

(* What Remove and ArchiveStack saw under the lock stays so until they     *)
(* commit: nothing of the application runs but what its watch started.     *)
StoppedUnder(p) ==
    Stage(p) \in {"remove", "archive"} => pr[p].app \notin running \ (outlived \cup unseen)

RuntimeInv ==
    /\ NoOrphanRuntime /\ running \subseteq App
    /\ \A p \in Proc : StoppedUnder(p)

(* A commit neither starts nor stops a container. *)
LEMMA CommitDocker ==
    ASSUME NEW p \in Proc, Commit(p)
    PROVE  UNCHANGED <<running, outlived, unseen>>
  BY DEF Commit, RegisterCommit, EditStopWatch, StopWatch, EditCommit, RemoveCommit,
       ArchiveObserve, ArchiveCommit, RestoreCommit, DeleteGroupCommit, RemoveRootCommit,
       TrustCommit, Abandon, ThenSync, ThenDone, docker

(* Containers are started for the target of an operation only.             *)
LEMMA WorkRuns ==
    ASSUME ClaimInv, NEW p \in Proc, Target(p), Work(p)
    PROVE  /\ UNCHANGED <<place, outlived>> /\ unseen' \subseteq unseen
           /\ unseen \cap running' \subseteq unseen'
           /\ running' \subseteq running \/ (running' = running \cup {pr[p].app} /\ Holds(p) /\ OnTarget(p))
  <1>0. place' = place
    BY WorkCatalog DEF ClaimInv
  <1>1. CASE ExistingRun(p)
    <2>1. Holds(p) /\ OnTarget(p)
      BY <1>1 DEF ExistingRun, Holds, IsJob, Target, Stage
    <2> QED
      BY <1>0, <1>1, <2>1 DEF ExistingRun
  <1>2. CASE UpRun(p)
    <2>1. Stage(p) = "run"
      BY <1>2 DEF UpRun, Stage
    <2>2. Holds(p) /\ OnTarget(p)
      BY <2>1, HoldsByStage DEF ClaimInv, Target, JobStages, UpStages
    <2> QED
      BY <1>0, <1>2, <2>2 DEF UpRun
  <1>3. CASE ~ExistingRun(p) /\ ~UpRun(p)
    BY <1>0, <1>3 DEF Work, Submit, JobTake, JobFail, JobEnd, UpApproved, UpClear, UpMode,
       UpReapprove, UpApply, BindCommit, UnbindCommit, HandlerStopsWatch, StopWatch, StopReturns,
       WatchRead, WatchBegin, ConfigureStopsWatch, Configure, ConfigureEnds, SyncRead, SyncWrite,
       SyncFail, OnlyReads, docker
  <1> QED
    BY <1>1, <1>2, <1>3

(* No commit takes an application that runs out of the catalog.            *)
LEMMA CommitOrphans ==
    ASSUME Shape, Unique, RuntimeInv, NEW p \in Proc, LockedOn(p), Commit(p)
    PROVE  NoOrphanRuntime'
  <1>0. UNCHANGED <<running, outlived, unseen>>
    BY CommitDocker
  <1>1. ASSUME NEW a \in running \ (outlived \cup unseen) PROVE place'[a] = "active"
    <2>0. a \in App /\ place[a] = "active"
      BY <1>1 DEF RuntimeInv, NoOrphanRuntime
    <2>1. CASE RemoveCommit(p)
      <3>1. /\ pr[p].at = "remove"
            /\ place' = [b \in App |-> IF b \in Lookup(pr[p].id) THEN "removed" ELSE place[b]]
        BY <2>1 DEF RemoveCommit
      <3>2. a # pr[p].app
        BY <1>1, <3>1 DEF RuntimeInv, StoppedUnder, Stage
      <3>3. a \notin Lookup(pr[p].id)
        BY <2>0, <3>1, <3>2 DEF LockedOn, Stage, Lookup, Unique, Named
      <3> QED
        BY <2>0, <3>1, <3>3
    <2>2. CASE ArchiveCommit(p)
      <3>1. pr[p].at = "archive" /\ place' = [place EXCEPT ![pr[p].app] = "archived"]
        BY <2>2 DEF ArchiveCommit
      <3>2. a # pr[p].app
        BY <1>1, <3>1 DEF RuntimeInv, StoppedUnder, Stage
      <3> QED
        BY <2>0, <3>1, <3>2 DEF Shape
    <2>3. CASE RegisterCommit(p) \/ RestoreCommit(p)
      BY <2>0, <2>3 DEF RegisterCommit, RestoreCommit, Shape
    <2>4. CASE ~(RemoveCommit(p) \/ ArchiveCommit(p) \/ RegisterCommit(p) \/ RestoreCommit(p))
      BY <2>0, <2>4 DEF Commit, EditStopWatch, StopWatch, EditCommit, ArchiveObserve,
         DeleteGroupCommit, RemoveRootCommit, TrustCommit, Abandon, catalog
    <2> QED
      BY <2>1, <2>2, <2>3, <2>4
  <1> QED
    BY <1>0, <1>1 DEF NoOrphanRuntime

(* A request that takes the lock saw its application stopped. *)
LEMMA RequestStopped ==
    ASSUME Shape, RuntimeInv, NEW p \in Proc, Request(p)
    PROVE  StoppedUnder(p)'
  <1>0. UNCHANGED <<running, outlived, unseen>>
    BY RequestCatalog
  <1>1. ASSUME NEW a \in App, RemoveObserve(p, a)
        PROVE  StoppedUnder(p)'
    <2>1. a \notin running
      BY <1>1 DEF RemoveObserve, Stopped
    <2> QED
      BY <1>0, <1>1, <2>1, RemoveBegins DEF StoppedUnder
  <1>2. CASE ~\E a \in App : RemoveObserve(p, a)
    BY <1>2, RequestStage DEF StoppedUnder, HandlerStages
  <1> QED
    BY <1>1, <1>2

(* What a watch starts is in the catalog, or the handler that takes it out *)
(* of there has looked before.                                             *)
LEMMA RebuildsAreListed ==
    ASSUME ClaimInv, WatchInv, RuntimeInv, NEW e \in followed, WatchRebuilds(e)
    PROVE  RuntimeInv'
  <1>1. /\ UNCHANGED <<place, pr, outlived>> /\ running' = running \cup {e.app}
        /\ unseen \subseteq unseen'
        /\ (\E p \in Proc : Leaving(p, e.app)) => e.app \in unseen'
    BY DEF WatchRebuilds, catalog
  <1>2. e.app \in App /\ place[e.app] = "active"
    BY DEF WatchInv, WatchIsCurrent
  <1>3. running' \subseteq App /\ NoOrphanRuntime'
    BY <1>1, <1>2 DEF RuntimeInv, NoOrphanRuntime
  <1>4. ASSUME NEW p \in Proc PROVE StoppedUnder(p)'
    <2> SUFFICES ASSUME Stage(p) \in {"remove", "archive"}
                 PROVE  pr[p].app \notin running' \ (outlived' \cup unseen')
      BY <1>1 DEF StoppedUnder, Stage
    <2>1. Leaving(p, pr[p].app)
      BY DEF ClaimInv, Staged, Stage, Leaving
    <2>2. pr[p].app = e.app => e.app \in unseen'
      BY <1>1, <2>1
    <2> QED
      BY <1>1, <2>2 DEF RuntimeInv, StoppedUnder
  <1> QED
    BY <1>3, <1>4 DEF RuntimeInv

(* What runs is in the catalog after every step. *)
LEMMA RuntimeStep ==
    ASSUME ClaimInv, TargetInv, NameInv, WatchInv, RuntimeInv, [Next]_vars
    PROVE  RuntimeInv'
  <1>0. Shape /\ Unique
    BY NameParts DEF ClaimInv
  <1>1. ASSUME NEW p \in Proc, Request(p) \/ Commit(p) PROVE RuntimeInv'
    <2>1. UNCHANGED <<running, outlived, unseen>>
      BY <1>1, RequestCatalog, CommitDocker
    <2>2. NoOrphanRuntime'
      <3>1. CASE Request(p)
        BY <3>1, RequestCatalog DEF RuntimeInv, NoOrphanRuntime
      <3> QED
        BY <1>0, <1>1, <3>1, CommitOrphans DEF NameInv
    <2>3. ASSUME NEW q \in Proc \ {p} PROVE StoppedUnder(q)'
      <3>1. pr'[q] = pr[q] /\ Stage(q)' = Stage(q)
        BY <1>0, <1>1, TurnShape DEF Turn, Stage
      <3> QED
        BY <2>1, <3>1 DEF RuntimeInv, StoppedUnder
    <2>4. StoppedUnder(p)'
      <3>1. CASE ArchiveObserve(p)
        <4>1. pr[p].app \notin running
          BY <3>1 DEF ArchiveObserve, Stopped
        <4>2. pr'[p].app = pr[p].app
          BY <1>0, <3>1, ArchiveObserves DEF KeepsAll, KeepsTarget
        <4> QED
          BY <2>1, <4>1, <4>2 DEF StoppedUnder
      <3>2. CASE Commit(p) /\ ~ArchiveObserve(p)
        <4>1. Stage(p)' \in {"idle", "done", "edit"}
          BY <1>0, <3>2, CommitsEnd, EditStops, EditSyncs, RemoveSyncs, ArchiveSyncs, RestoreSyncs
             DEF Commit, Stage, GoesTo, Ends, Blank
        <4> QED
          BY <4>1 DEF StoppedUnder
      <3> QED
        BY <1>0, <1>1, <3>1, <3>2, RequestStopped
    <2> QED
      BY <2>1, <2>2, <2>3, <2>4 DEF RuntimeInv
  <1>2. ASSUME NEW p \in Proc, Work(p) PROVE RuntimeInv'
    <2>0. PICK app : app = pr[p].app
      OBVIOUS
    <2>1. /\ UNCHANGED <<place, outlived>> /\ unseen \cap running' \subseteq unseen'
          /\ running' \subseteq running \/ (running' = running \cup {app} /\ Holds(p) /\ OnTarget(p))
      BY <1>2, <2>0, WorkRuns DEF TargetInv
    <2>2. NoOrphanRuntime' /\ running' \subseteq App
      BY <2>0, <2>1 DEF RuntimeInv, NoOrphanRuntime, OnTarget
    <2>3. ASSUME NEW q \in Proc \ {p} PROVE StoppedUnder(q)'
      <3>1. pr'[q] = pr[q] /\ Stage(q)' = Stage(q) /\ StoppedUnder(q)
        BY <1>0, <1>2, TurnShape DEF Turn, Stage, RuntimeInv
      <3>2. CASE running' \subseteq running
        BY <2>1, <3>1, <3>2 DEF StoppedUnder
      <3>3. CASE running' = running \cup {app} /\ Holds(p) /\ OnTarget(p)
        <4>1. ASSUME Stage(q) \in {"remove", "archive"} PROVE pr[q].app # app
          <5>1. Clear(pr[q].id) /\ Id(pr[q].app) = pr[q].id
            BY <4>1 DEF ClaimInv, Locked, Stage, NameInv, LockedOn
          <5> QED
            BY <2>0, <3>3, <5>1 DEF Clear, OnTarget
        <4> QED
          BY <2>1, <3>1, <3>3, <4>1 DEF StoppedUnder
      <3> QED
        BY <2>1, <3>2, <3>3
    <2>4. StoppedUnder(p)'
      <3>1. CASE Stage(p)' \in {"remove", "archive"}
        <4>1. KeepsAll(p) /\ Stage(p)' = Stage(p)
          BY <1>0, <1>2, <3>1, WorkKeeps DEF ClaimInv
        <4>2. ~Holds(p)
          BY <3>1, <4>1, HoldsByStage DEF ClaimInv, JobStages, UpStages
        <4> QED
          BY <2>1, <4>1, <4>2 DEF KeepsAll, KeepsTarget, RuntimeInv, StoppedUnder
      <3> QED
        BY <3>1 DEF StoppedUnder
    <2> QED
      BY <2>2, <2>3, <2>4 DEF RuntimeInv
  <1>3. CASE Crash
    <2>1. /\ UNCHANGED <<place, running, unseen>> /\ outlived \subseteq outlived'
          /\ \A p \in Proc : Stage(p)' = "idle"
      BY <1>3, CrashClaims DEF Crash, catalog, Stage, Blank
    <2> QED
      BY <2>1 DEF RuntimeInv, NoOrphanRuntime, StoppedUnder
  <1>4. CASE Elsewhere
    <2>1. UNCHANGED <<place, pr>>
      BY <1>4, ElsewhereKeeps DEF catalog
    <2>2. CASE \E e \in followed : WatchRebuilds(e)
      BY <1>0, <2>1, <2>2, RebuildsAreListed
    <2>3. CASE ~\E e \in followed : WatchRebuilds(e)
      <3>1. /\ running' \subseteq App
            /\ running' \ (outlived' \cup unseen') \subseteq running \ (outlived \cup unseen)
        BY <1>4, <2>3 DEF Elsewhere, Exit, LateStart, WatchEnds, Exhausted, vars, RuntimeInv
      <3> QED
        BY <2>1, <3>1 DEF RuntimeInv, NoOrphanRuntime, StoppedUnder, Stage
    <2> QED
      BY <2>2, <2>3
  <1> QED
    BY <1>1, <1>2, <1>3, <1>4, Steps DEF Turn

(* Nothing runs at first. *)
LEMMA InitRuntime ==
    ASSUME Init
    PROVE  RuntimeInv
  BY DEF Init, Blank, RuntimeInv, NoOrphanRuntime, StoppedUnder, Stage
--------------------------------------------------------------------------------
(* All the invariants together. *)
CatalogInv ==
    ClaimInv /\ RouteInv /\ GroupKept /\ TargetInv /\ NameInv /\ JobInv /\ WatchInv /\ RuntimeInv

(* The invariants hold in every state. *)
LEMMA InvHolds == Spec => []CatalogInv
  <1>1. Init => CatalogInv
    BY InitInv, InitTarget, InitName, InitJob, InitWatch, InitRuntime
       DEF CatalogInv, Init, GroupKept
  <1>2. CatalogInv /\ [Next]_vars => CatalogInv'
    BY ClaimStep, RouteStep, GroupStep, TargetStep, NameStep, JobStep, WatchStep, RuntimeStep
       DEF CatalogInv, RouteInv
  <1> QED
    BY <1>1, <1>2, PTL DEF Spec

(* Service.mutation and the claims of the operations: whoever works on an  *)
(* application under the lock is alone with it, and no two operations that *)
(* conflict hold their claims together.                                    *)
THEOREM ClaimsExclude == Spec => []ClaimInv
  <1>1. CatalogInv => ClaimInv
    BY DEF CatalogInv
  <1> QED
    BY <1>1, InvHolds, PTL

(* The route file that Traefik reads is what the catalog says, unless the  *)
(* last SyncRoutes failed or died with the agent, or one is under way.     *)
THEOREM RoutesFollowCatalog == Spec => []RoutesFollow
  <1>1. CatalogInv => RoutesFollow
    BY DEF CatalogInv, RouteInv
  <1> QED
    BY <1>1, InvHolds, PTL

(* Every application of the catalog, archived or not, has its group.       *)
THEOREM GroupsStay == Spec => []GroupKept
  <1>1. CatalogInv => GroupKept
    BY DEF CatalogInv
  <1> QED
    BY <1>1, InvHolds, PTL

(* No two applications share an identity, and every binding is where its   *)
(* application is: what the catalog file refuses never has to be refused.  *)
THEOREM CatalogIsWellFormed == Spec => []WellFormed
  <1>1. CatalogInv => WellFormed
    BY DEF CatalogInv, NameInv
  <1> QED
    BY <1>1, InvHolds, PTL

(* What docker compose up runs is the configuration in the catalog, in the *)
(* mode of the action, and it is approved.                                 *)
THEOREM RunsAreApproved == Spec => []RunIsApproved
  <1>1. ASSUME TargetInv, JobInv, NEW p \in Proc, pr[p].at = "run"
        PROVE  /\ place[pr[p].app] = "active" /\ Id(pr[p].app) = pr[p].id
               /\ rec[pr[p].app].mode = pr[p].mode
               /\ Fingerprint(pr[p].app, rec[pr[p].app].config, pr[p].mode) \in rec[pr[p].app].trust
    BY <1>1 DEF TargetInv, JobInv, Target, OnTarget, JobFacts, Stage, UpStages
  <1>2. CatalogInv => RunIsApproved
    BY <1>1 DEF CatalogInv, RunIsApproved
  <1> QED
    BY <1>2, InvHolds, PTL

(* The routes an application has applied are those of its configuration    *)
(* and its mode.                                                           *)
THEOREM AppliedStaysCurrent == Spec => []AppliedIsCurrent
  <1>1. CatalogInv => AppliedIsCurrent
    BY DEF CatalogInv, JobInv
  <1> QED
    BY <1>1, InvHolds, PTL

(* A watch that runs has its entry, the only one of its id.                *)
THEOREM WatchesAreListed == Spec => []WatchIsListed
  <1>1. CatalogInv => WatchIsListed
    BY DEF CatalogInv, WatchInv
  <1> QED
    BY <1>1, InvHolds, PTL

(* What a watch follows is in the catalog as it was when the watch began.  *)
THEOREM WatchesAreCurrent == Spec => []WatchIsCurrent
  <1>1. CatalogInv => WatchIsCurrent
    BY DEF CatalogInv, WatchInv
  <1> QED
    BY <1>1, InvHolds, PTL

(* The virtual machine is configured with no watch at work.                *)
THEOREM ConfigureIsQuiet == Spec => []QuietConfigure
  <1>1. CatalogInv => QuietConfigure
    BY DEF CatalogInv, WatchInv, WatchFree, WatchIsListed, QuietConfigure
  <1> QED
    BY <1>1, InvHolds, PTL

(* Whatever runs is in the catalog, but for what a dead agent left         *)
(* starting and for what an application's watch started after Remove or    *)
(* ArchiveStack had observed it: no other archive or removal leaves        *)
(* running containers behind.                                              *)
THEOREM RuntimeIsListed == Spec => []NoOrphanRuntime
  <1>1. CatalogInv => NoOrphanRuntime
    BY DEF CatalogInv, RuntimeInv
  <1> QED
    BY <1>1, InvHolds, PTL

(* While an operation works on an application that it claims, nobody else  *)
(* changes its record, its place or its bindings.                          *)
THEOREM ClaimsProtect == Spec => ClaimedIsStable
  <1> DEFINE Stable == \A p \in Proc :
                 Holds(p) /\ pr[p].app # None /\ pr'[p] = pr[p] => Untouched(pr[p].app)
  <1>1. ASSUME CatalogInv, [Next]_vars PROVE Stable
    <2>0. ClaimInv /\ RouteInv /\ TargetInv
      BY <1>1 DEF CatalogInv
    <2> SUFFICES ASSUME NEW p \in Proc, Holds(p), pr[p].app # None, pr'[p] = pr[p]
                 PROVE  Untouched(pr[p].app)
      OBVIOUS
    <2>1. pr[p].app \in App /\ Protected(p, pr[p].app)
      BY <2>0, OnTargetOrGlobal DEF ClaimInv, TargetInv, Protected, OnTarget
    <2>2. ASSUME NEW q \in Proc, Turn(q) PROVE Untouched(pr[p].app)
      <3>1. CASE q = p
        BY <2>0, <2>2, <3>1, OwnStep DEF Untouched
      <3>2. CASE q # p
        BY <2>0, <2>1, <2>2, <3>2, OthersKeepOff DEF RouteInv, TargetInv
      <3> QED
        BY <3>1, <3>2
    <2>3. CASE Crash \/ Elsewhere
      BY <2>3, ElsewhereKeeps DEF Crash, catalog, Untouched
    <2> QED
      BY <1>1, <2>2, <2>3, Steps
  <1>2. ASSUME CatalogInv, [Next]_vars PROVE [Stable]_vars
    BY <1>1, <1>2
  <1> QED
    BY <1>2, InvHolds, PTL DEF Spec, ClaimedIsStable, Untouched

(* A binding goes only while an Unbind holds its claim: archiving and      *)
(* restoring an application move its bindings whole, and after every step  *)
(* they are where it is.                                                   *)
THEOREM BindingsGoByUnbind == Spec => BindingsConserved
  <1> DEFINE Conserved == \A x \in bindings \cup kept :
                 x \notin (bindings \cup kept)' => \E p \in Proc : pr[p].op = "unbind" /\ Holds(p)
  <1>1. ASSUME NEW p \in Proc, Commit(p) PROVE Conserved
    <2>1. CASE ArchiveCommit(p)
      <3>1. /\ kept' = kept \cup Links(pr[p].app, LinksOf(pr[p].app))
            /\ bindings' = bindings \ Links(pr[p].app, Mode)
        BY <2>1 DEF ArchiveCommit
      <3> QED
        BY <3>1 DEF Links, LinksOf
    <2>2. CASE RestoreCommit(p)
      BY <2>2 DEF RestoreCommit
    <2>3. CASE ~ArchiveCommit(p) /\ ~RestoreCommit(p)
      BY <1>1, <2>3 DEF Commit, RegisterCommit, EditStopWatch, StopWatch, EditCommit, RemoveCommit,
         ArchiveObserve, DeleteGroupCommit, RemoveRootCommit, TrustCommit, Abandon, catalog
    <2> QED
      BY <2>1, <2>2, <2>3
  <1>2. ASSUME NEW p \in Proc, Work(p) PROVE Conserved
    <2>1. CASE UnbindCommit(p)
      BY <2>1 DEF UnbindCommit, Holds, IsJob
    <2>2. CASE ~UnbindCommit(p)
      BY <1>2, <2>2 DEF Work, Submit, JobTake, JobFail, JobEnd, ExistingRun, UpApproved, UpClear,
         UpMode, UpReapprove, UpRun, UpApply, BindCommit, HandlerStopsWatch, StopWatch,
         StopReturns, WatchRead, WatchBegin, ConfigureStopsWatch, Configure, ConfigureEnds,
         SyncRead, SyncWrite, SyncFail, OnlyReads, catalog
    <2> QED
      BY <2>1, <2>2
  <1>3. ASSUME Crash \/ Elsewhere PROVE Conserved
    BY <1>3, ElsewhereKeeps DEF Crash, catalog
  <1>4. [Next]_vars => Conserved
    BY <1>1, <1>2, <1>3, Steps, RequestCatalog DEF Turn
  <1>5. CatalogInv => BindingsInPlace
    BY DEF CatalogInv, NameInv, WellFormed
  <1>6. [Next]_vars /\ BindingsInPlace' => [Conserved /\ BindingsInPlace']_vars
    BY <1>4
  <1> QED
    BY <1>5, <1>6, InvHolds, PTL DEF Spec, BindingsConserved
================================================================================
