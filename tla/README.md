# A verification development for NearProd

NearProd is a local agent that runs Docker Compose applications the way a
production host would: it keeps a catalog of applications, databases and routes,
and serves a web interface, a command line and an MCP server over one HTTP API.
This directory holds TLA+ specifications of its core (`src/internal/nearprod`), TLC
configurations that check them on small instances, and TLAPS proofs.

Contents: [1 the system](#1-the-system), [2 the modules](#2-the-modules),
[3 the runs](#3-the-runs), [4 the proofs](#4-the-proofs),
[5 what is not modelled](#5-what-is-not-modelled), [6 plan](#6-plan).

## 1 The system

One agent process owns a home directory. Every request is a goroutine of its HTTP
server; every long action is an *operation*, with a goroutine of its own. Three locks
order them, always taken in this order:

1. `Service.mutation`, held by a handler while it decides and submits, and by the
   work of `PurgeStack`; the work of the other operations runs without it.
2. `Store.mu`, inside `Store.Update`: copy, change, validate, write the file, adopt.
3. `Operations.mu`, for the registry of active operations.

`Proxy.mu` orders the writers of Traefik's file.

| component (source) | state | operations | hard behaviour | what makes it correct |
|---|---|---|---|---|
| Operation registry (`operations.go`) | active operations with their claims, `wg`, `closed`, recent results; the history in the catalog | Submit, Get, Cancel, PrepareStop, Stop | admission and the catalog write are two critical sections; any write may fail; the process may die; Stop waits for all | work under conflicting claims never overlaps; results are stable and published last; nothing runs after Stop or PrepareStop; Stop returns |
| Service (`service.go`, `service_lifecycle.go`) | applications, groups, roots, trust, bindings in the catalog | Register, Edit, Remove, Archive, Restore, Trust, Action, groups, roots, Bind, Unbind | decisions taken on a reading that is committed later; operations work without the lock | what runs is approved; identities stay unique; bindings are conserved; nothing runs outside the catalog |
| Proxy (`proxy.go`) | the applied routes of each application; Traefik's file | Apply, SyncRoutes, Start, Stop | the commit and the file are two writes | the file follows the catalog |
| Store (`store.go`) | `config/catalog.json`, the old `catalog.json`, `migration.json`, backups | OpenStore, Update | interrupted at any write; homes of earlier versions | no accepted change is lost, no two catalogs are in use, the original is saved before it is replaced |
| Deletion (`stack_purge.go`) | the plan in `stackPurges` | PurgeStackPreview, PurgeStack | partial failure, retry, resources replaced under the same name | only what was reviewed is deleted; consumers go first; the record goes last; it ends |
| Infrastructure (`infra*.go`) | instances, databases, bindings; the vault; volume and engine | Start, Stop, Create, Bind, Archive, Restore, Backup, Purge | catalog, vault, volume and engine are four stores that are never updated together | a record has its credential; bound databases exist; data go only after review; no empty volume replaces lost data |
| Watch (`streams.go`) | the entries of `watches`, each with a goroutine | StartWatch, StopWatch, StopAllWatches, HasWatch | a goroutine outlives the claim of its operation and starts containers when it likes; a stop waits for it without a lock | every watch is listed; it follows the record it was started with; none while the virtual machine is configured |
| Agent and update (`agent*.go`, `update.go`, `install.go`, `client.go`) | lock, `agent.json`, `agent-update.json`, the installed file | StartAgent, Close, prepareStop, Apply, activation, recovery, install | handoff between processes of different versions, any of which may die; a user starts agents meanwhile | one writer of the catalog; an update cuts no work; no damaged file stays; the agent that was stopped comes back |

They meet in few places. Handlers ask the registry (`Idle`) before they decide, and often
again inside `Store.Update`. Operations commit through `Store.Update`, then call
`SyncRoutes`. `InfraAction` submits *global* operations, which exclude every other. The
registry keeps its history in the same catalog file. `PROJECT.json` lists every
component, modelled or not, and under `hazards` the places where the code is hard to
test, each with the properties that guard it.

## 2 The modules

An action is what the code does between two points where another goroutine may run,
or the process may die with a visible effect. A failing write, a refused
request and a cancelled command are actions of their own, next to the successful one.

**`Exclusion`** is the abstract promise of the registry: jobs hold claims, and a claim is
acquired only if no conflicting one is held. Two modules implement it: `Operations` with the
mapping `Holds`, and `Catalog`, whose handlers choose the claims, with `Claims`.

**`Deletion`** is what an owner is promised who deletes an application: one confirmed
plan, removals from it alone with consumers before data, nothing that comes back, and a last
step when nothing of the plan is left.

**`Operations`** is `operations.go`. `pc[o]` follows `Submit` and the goroutine it starts:
`Admit` (under `o.mu`), `Persist` or `PersistFails` (`Store.Update`), `Conclude` (the work
returns), `RecordFinal` or `RecordFails`, `Retire` (under `o.mu`), `Publish`. `Cancel`,
`PrepareStop`, `CancelContext`, `StopAdmitting` and `Drain` are the calls around it; `Crash` and
`Restart` are the process and `OpenStore`. `history`, with the positions `stamp`, is the list of
records in the catalog; `BoundHistory` computes what the function of the same name
keeps. A record has a size, its lines are left out.

**`Catalog`** is the handlers and the work of Action, Bind and Unbind over the catalog. A
process `p` is one request or one operation; `pr[p].at` is its step, `pr[p].seen` what it
read. `mutation` and `routing` hold the process that has `Service.mutation` or `Proxy.mu` for
more than one action. The claim of an operation is `Holds`, `pr[p].ids` and `IsGlobal`; `Busy` is what the registry
answers; that the claims taken on its answer exclude each other is the refinement of `Exclusion`. A configuration stands for the modes,
Compose files and routes of an application: an edit replaces it. The fingerprint is
the tuple of what the catalog puts into it. `file` is Traefik's file and `Wanted` what `dynamicConfig` would
write. Docker is the set `running`; containers may end by themselves (`Exit`), and a Compose
command may outlive the agent (`outlived`, `LateStart`).
A watch starts containers whenever a file changes (`WatchRebuilds`). The history variable `unseen` keeps what it
started while `Remove` or `ArchiveStack` had already observed Docker and not yet committed (`Leaving`): the
two observe first and stop the watch after it.
`watches` is the map of the same name, an entry with the application's record in it,
and `followed` the goroutines that run: `StartWatch` has its two readings (`StartWatch`,
`WatchRead`), `WatchBegin` the entry and the goroutine, `StopWatch` the cancellation, the
wait (`Unwatched`) and the deletion that follows (`Unlisted`, `StopReturns`). Edit, Action, a
client and the operation that configures the runtime stop watches, each in its own place.

**`StackPurge`** is `PurgeStack`. Resources have incarnations, so that a resource replaced
under its name differs from the reviewed one. `op` is the step of the operation,
`todo` and `cur` the loop with the resource inspected but not yet removed; `plan` is the journal in the
catalog. Others may replace or delete resources at any step. Of a database `stage` says how its record and its
data stand, and `engine` what its instance does: `Unable` collects what `PurgeDatabasePreview` and
`verifyPurgePhysical` refuse. Administrators drop and make databases (`Alter`), the engine starts
and stops (`Switch`), and a late `InfraAction` (`InfraRun`) purges, creates, archives or restores a database or the
instance, to the end or halfway. A purge that has stopped halfway in another mode and a creation that has
are one stage, `halfway`: either refuses `PurgeStack`. The purge is a global
operation that holds `Service.mutation`, so the handlers of `Catalog` are idle
meanwhile and appear only between two attempts. It implements `Deletion`: `Phase` is read off the record
and the journal, `Left` is what of the plan still has its incarnation, `Taken` what a command of
this operation removed. Attempts, inspections, failures, deaths and retries are stutters there.

**`Databases`** is one PostgreSQL instance. The record `db`, the vault, the volume `vol` and
the engine's `data` and `role` are separate variables that separate actions change. `op`
is the single operation in progress: infrastructure operations are global. Administrators act
with the actions `Outside...`; `Fail` and `Crash` may come at any step.

**`StoreOpen`** is `OpenStore`. A file is its schema, the set of edits in it and the migration
that wrote it; two files are equal when their hashes are. `at` is the next write. The agents of 0.6 and of 0.7/0.8 appear as their
edits, and only while no agent of this version is up: the socket lock is the same. The migration of 0.7 from
schema 3 to 4 has its own journal and marker and is interrupted after any of its writes (`Journal07`, `Write07`,
`Marker07`, `Commit07`); this version opens whatever it left. The
owner of the home may delete the backup of a pending migration. Three history variables that the code does not
have say what happened to the files: `touched` (a pending migration's catalogs or backup were acted on), `competed`
(0.6 made a catalog beside the canonical one), `stranded` (a migration of 0.7 lost its journal before its marker).

**`AgentUpdate`** is the process of the agent and `nearprod update`. Agents and updaters are
processes with a step each, `ag[a].at` and `up[u].at`; the lock, the installed file, `agent.json`
(`meta`) and the handoff are what they share. An agent goes from `spawned` over `locked`,
`open` and `published` to `serving`, and back over `closing`. An updater looks for an agent, asks
it to stop, waits, takes the lock, rewrites the handoff, installs, verifies, records, releases
and starts the installed file, or recovers. Versions are numbers, of which some have no handoff (`Legacy`): the
releases before 0.9.4 that may still run when the update begins. A user starts any version, stops
an agent, begins operations and watches, and installs files by hand. `Bad` is an executable that
failed its verification.

`MC*` modules give constants a small instance and symmetry; the modules `...Proofs` hold
the theorems. Definitions whose name has a suffix (`Check_AnyLegacy`) are mutants: what a plausible
bug would make of the definition they precede. No specification uses them; for every
property that a run checks `PROJECT.json` names one that breaks it.

## 3 The runs

`tlc -workers 2 -config X.cfg M`. Deadlock is checked in every run: where a
specification may stop, it says so with an action (`Finish`, `Exhausted`).

| run | asks | bounds |
|---|---|---|
| `operations` | do exclusion, history, published results and shutdown survive every interleaving, one failing write, one crash or stop and a restart? | three operations over two targets with claims that conflict and that do not; a history of two records, one remembered result: the third operation makes both overflow |
| `operations_live` | does every admitted operation end, and does Stop return? | two operations, history of one |
| `operations_trim` | is an active operation always in the history? *No*, see below | three operations, history of two |
| `catalog` | is what runs approved and in the catalog, are bindings conserved, is what an operation claims left alone, is every watch listed and current? | two requests at a time, one application with two configurations, one mode |
| `catalog_groups` | are groups kept, does Traefik's file follow the catalog, do the claims of the handlers implement `Exclusion`? | two requests, two applications with identifiers of their own, two groups, one root |
| `catalog_crash` | are identities unique without `validateState`, do applied routes match mode and configuration? | two requests, two applications that ask for the same identifier, two modes and two configurations, one crash |
| `catalog_roots` | does an archived application keep its root? *No*, see below | one application, one root |
| `stack_purge` | is only the reviewed deleted, in order, all of it, is it one `Deletion` however often it is retried, and does it end? | one container, database and volume, each replaced at most once; one fault, one late InfraAction, any acts of administrators and the engine |
| `stack_purge_infra` | does a pending purge hold InfraAction back? *No*, see below | as above, one fault |
| `databases` | are credentials, bound databases and data safe, do purges end? | one database created up to three times, three faults, three acts of administrators |
| `store_open` | is anything lost, or blocked without cause, when OpenStore, or the migration of 0.7 before it, is interrupted anywhere? | three edits, four migrations begun, by either version |
| `agent_update` | has the catalog one writer, is work cut, is a damaged file left, does a handoff end? | two updaters, two agents alive at once, versions 1 (without handoff), 2 and 3 (the release), two faults, three acts of users |

Why the bounds are enough. Every hazard listed needs two actors, or one and a crash;
in each run there are two requests at a time, and the third operation of `operations` is what
overflows the history. A migration is interrupted any number of times, a purge once by a fault and as often
as something obstructs it, so that a retry is itself refused and repeated. Four migrations are one of 0.7,
the one of this version that resumes or overwrites it, and two that begin anew on what they leave. A database name is created three times, so that data and password of
one creation may meet the record of another. Counters appear only in guards that say so
(`MaxFailures`, `MaxRestarts`, `MaxCrashes`, `MaxBorn`, `MaxFaults`, `MaxInfra`, `MaxSecrets`,
`MaxOutside`, `MaxStamp`, `MaxActs`).

The three passing runs of `Catalog` share one specification; `Kind` selects the requests and thereby
splits a state space that is too large as a whole. Each run has the requests that can disturb
its properties: everything that changes the record of one application, starts and stops its work or its watch, or
takes it out of the catalog in `catalog`; what changes groups,
roots and routes of two applications in `catalog_groups` (with the configuration of the runtime, a global claim); the
modes, the race for an identifier and the death of the agent in `catalog_crash`. No run has watches and a death of the
agent together: a watch that outlives the agent is in the specification (`Crash`, `outlived`) and is covered by
the theorem `RuntimeIsListed`, for any number of deaths.
Applications, groups and configurations are symmetric where no constant tells them apart and no liveness is checked.
In `agent_update` two updaters are what it takes for one to install while the other waits or
recovers, and two agents for one to start while the other stops; two faults let a recovery
itself fail. The types of all modules are
proved (section 4), so no run spends its time on them.

What the properties say is stated above each in its module. The ones a reader should
know:

* `Operations!ImplementsExclusion`: a refinement. The work of an operation and the writing
  of its result happen under its claim, and `Holds` maps the registry to `Exclusion`.
* `Operations!PublishedIsReleased`, `StableAnswer`: whoever sees the terminal event may submit
  again and reads the same answer, also from the next agent.
* `Catalog!ClaimedIsStable`: while an operation works on an application, its record, place and
  bindings are changed by nobody else. `RunIsApproved` follows the approval from the
  review to `docker compose up` through edits and bindings.
* `Catalog!NoOrphanRuntime`: whatever runs is in the catalog, with the two exceptions the code has: a
  Compose command or a watch that outlives a crash, and what the application's own watch starts after `Remove` or
  `ArchiveStack` observed Docker and before they stop it.
* `Catalog!RoutesFollow`: Traefik's file against the catalog, except after a
  `SyncRoutes` that failed, which nothing repeats when the agent starts.
* `Catalog!WatchIsListed`, `WatchIsCurrent`, `QuietConfigure`: a watch runs without a claim, so edits,
  archives and removals must find and stop it, and a stop that is late must not drop the entry of
  the next watch.
* `Catalog!ImplementsExclusion`: an operation takes its whole claim at once and keeps it while it goes from
  target to target, whatever the request had read before it was admitted.
* `StackPurge!ImplementsDeletion`: however often it fails and is retried, the purge is one deletion.
* `StackPurge!PurgeFinishes`: no failure and no death makes the plan impossible to finish. Others can: while a new or
  replaced resource, a stopped engine, or a database that was dropped, archived or half purged stands in the
  way (`Obstructed`), every attempt is refused, and no request of NearProd undoes an archive or half a purge
  while the plan is pending.
* `StackPurge!OnlyReviewed`, `GoneIsComplete`: what is removed was in the confirmed review, and
  the record goes only when nothing is left.
* `Databases!CredentialKept`, `DropIsJustified`, `NoEmptyStart`.
* `AgentUpdate!OneOwner`: nobody replaces the binary or rewrites the handoff while an agent has the
  catalog. `ConsumesItsOwn` is why an agent may delete the handoff without looking at it again.
  `HandoffEnds`: whatever failed, repeating the command consumes the handoff, so that it does
  not lock every version out.
* `StoreOpen!NothingLost`, `RefusedWithCause`: an edit that any version acknowledged
  is in a catalog at every moment, and in the one in use; and a migration that
  nobody disturbed is never blocked, except that of 0.7 interrupted before its marker (`stranded`, below).
* `StoreOpen!BackupFirst`: the copy comes before the replacement; a resumed migration of schema 3 does not look for it,
  so there the property excepts a backup that was deleted between two runs.

**Fairness.** `operations_live` assumes weak fairness of each goroutine and of the two steps of
`Stop`: Go runs what can run, and the work of an operation returns because its commands
have timeouts and its context is cancelled. It assumes nothing of clients, crashes or restarts.
`stack_purge` and `databases` assume that an operation that has begun goes on,
and that an owner who wants the deletion retries it; both need it
for `PurgeFinishes` and `PurgeEnds`, where faults are finitely many. `agent_update` assumes that
each process takes the steps it can, that one user repeats `nearprod update` while a handoff
is left, as the command's message asks for (agent_update.go:183), and that a damaged file is
installed anew; nothing of starts, stops, work or deaths.

**Where code and documentation disagree** (`findings`):

* `ActiveIsKept`. `Submit` keeps the newest 100 records whatever their state; the
  comment on `boundHistory` and the audit promise that active operations are kept.
* `ArchivedKeepsRoot`. `Register` checks the root before it takes `Service.mutation`; a root
  retired in between leaves the application, and its archive, outside every root.
* `InfraBlocked`. `InfraAction` tests `stackPurges` before the lock and not under it. The request it lets through may
  archive a database of the plan, or its instance, or purge it halfway with a backup. After that the plan never ends:
  `PurgeStack` refuses the database as it is, and the request that would restore it or go on is refused
  with STACK_PURGING as long as the plan is pending.

More are noted as hazards, or as the exceptions of a property:

* A resumed migration of schema 3 does not verify its backup before it overwrites the original (`BackupFirst`).
* A migration of 0.7 that died between the canonical catalog and its marker is not resumed:
  `migrateCanonicalV4` (store.go:287) takes only journals from schema 4, overwrites this one and migrates to schema 5. The
  catalog of schema 3 that it leaves is then refused with DUAL_CATALOG at every start, though no edit is
  lost and no agent of 0.6 ran; docs/MIGRACION.md:47 promises to resume or to block on conflicts (`RefusedWithCause`).
* `Remove` and `ArchiveStack` observe Docker and stop the watch afterwards; what it starts in between keeps running
  outside the catalog, although service_lifecycle.go:103 observes Docker "as late as possible before commit" (`NoOrphanRuntime`).
* A pending purge whose database an administrator dropped is refused until somebody makes it anew with its account:
  the physical check demands that both exist before the purge of a database begins (`PurgeFinishes`).
* A new home that dies between catalog and marker never gets the marker; a retried `CreateDatabase` alters an account
  that an administrator created meanwhile. No property speaks of these two.

## 4 The proofs

`tlapm OperationsProofs.tla` proves, for every set of operations, targets and claims and every
bound, from three assumptions on constants only (`ClaimAssumption`: a caller's claim names a
target or is global; `SizeAssumption` and `BoundAssumption`: sizes and bounds are naturals,
two of them positive):

* `TypeCorrect`: `Spec => []TypeOK`.
* `RegistrySound`: `Spec => []RegistryInv`, the inductive invariant. `TypeOK` and the properties alone
  are not inductive: they do not say that an operation whose goroutine runs is
  active, counted in `wg` and holds the claim it was admitted with. `RegistryInv` ties `pc` to
  `active`, `wg` and `claim`, makes active claims pairwise compatible, and has `wg` empty once
  the agent is not up.
* `StopIsQuiet`, `PrepareIsQuiet`: the two shutdown properties, from `RegistryInv`.
* `EventsComeLast`, `RunningIsTrue`, `AnswersAreStable`: what clients see. `Answers(o)` says for each
  point of the goroutine what the record, the memory of the result and the event may be: the
  record agrees with the result, is trimmed, or stays "running" because its write failed.
  `AnswerInv` is inductive together with `RegistryInv`.
* `OperationsImplementExclusion`: `Spec => Exclusive!Spec`. `AdmittedIsCompatible` shows that
  `busyLocked` refuses every conflicting claim, `HoldsActive` that what `Holds` maps is among the
  active claims, `StepRefines` that each action is an `Acquire`, a `Release`, a `ReleaseAll`
  or a stutter.

* `HistoryStaysBounded` (`HistoryFits`), `HistoryForgetsOldest` and `HistoryForgetsWithCause`: the
  history stays within the number and the budget its reader accepts, it loses its oldest finished records
  first, and it loses one only when the records after it fill it (`Submit`) or, together
  with it, outweigh the budget (the write of a result). `HistoryInv` says why: positions are distinct, so
  that cutting by position leaves few enough, and what runs weighs nothing yet.
  `BoundHistory` searches the least number of records to drop with a `Min` and a sum over a set.
  Neither can be unfolded by induction here; the proofs take a smallest counterexample instead, since the
  strict subset order on a finite set is well founded (`Smallest`). So `LeastOf` gets the minimum, `AddsExists` and
  `AddsAlike` that the recursion of the fold has one solution, `WeightIsSum` that the order in which it takes
  the elements does not matter, and `WeightOfPart` that a part weighs no more than the whole.
* `MemoryStaysBounded`: `recent` holds at most `RecentMax` results.

`tlapm StoreOpenProofs.tla` proves every property of `StoreOpen` for any set of edits and any number
of migrations, from `StampAssumption` (`MaxStamp` is a natural) only: `StoreTypes`, `NoEditLost`,
`ResumesUnlessTouched`, `OldAgentFenced` and the action property `BackupComesFirst`. All follow from
one inductive invariant, `OpenInv`, in named parts:

* `BodyInv`: what is no catalog holds no edits, so a marker or an empty place loses nothing.
* `JournalInv`: a journal's target has the edits of its source, and a pending one has its backup
  unless somebody touched it.
* `UndisturbedInv`: while nobody touches it, a pending migration finds each file as it was or as it
  will be. This is why a resumed run succeeds, and without it `RefusedWithCause` is not
  inductive.
* `CompetedInv`: two catalogs stand side by side only during a migration from schema 3, after
  0.6 created one, or after a migration of 0.7 lost its journal; once committed, the marker stands.
* `StepInv`: what the earlier steps of the same run have established for the next.

`JournalInv` and `UndisturbedInv` speak of journals of either version, whose targets differ only in their schema, so
that what 0.7 left half done is in the invariant like this version's own. `ResumesUnlessTouched` and
`BackupComesFirst` have the exceptions of their properties, and no others. `NextOpen` has one case per action. `NextSaved` shows that the two steps that replace an original
(`V4Write`, `Marker`) find its copy.

`tlapm AgentUpdateProofs.tla` proves the four safety properties of `AgentUpdate` and its types for any
number of agents, updaters, versions, faults and acts, from `ConstantsAssumption`: versions are
naturals, the release has a handoff, and processes, versions and the two special values are apart.
The invariant `UpdateInv` adds to the properties `Holders` (who is at a step under the lock is the
holder of the lock, from which `HoldersAreOne` gets `OneOwner`) and `Planned` (an updater that has
begun knows its target, and one that installs over a damaged file came after a rollback that failed). `ConsumesItsOwn`
is inductive only with `Holders`: the handoff is rewritten under the lock, or by an agent that serves.
Four more theorems have no run of their own. `LockIsGivenBack` is the converse of `Holders`: the lock belongs only to who
works under it, or to a recovery about to release it. `HandoffNamesReader` and `HandoffStaysOwed` say that the
handoff is for a version that reads it, and that a standing one is removed only by the agent it
names, once it serves; others rewrite it under the lock, or while they stop for an updater. Both rest on `Named`: the
handoff and the versions of every update are versions with a handoff, and an agent that took one can read it.
`UpdatesAreFinite` is the half of `HandoffEnds` that can be proved: `Ahead(u)`, at
most sixteen, falls with every step of the updater and rises with nobody else's.

`tlapm DatabasesProofs.tla` proves the four safety properties of `Databases` and its types for any set of
databases, from bounds that are naturals and `None` that is no database. `DatabasesInv` has
`Sound(d)` for each database, which ties the record to the vault, the account, the volume and the
backup, and `Working`, which says of each step of the operation in progress what the earlier ones have
established: that a purge in `backup-purge` has its backup before it drops, that the phase `metadata` is
reached without the account, that the credential is in the vault before the record is written.
The theorems on steps (`DropsAreJustified`, `NoEmptyVolume`) follow from it action by action.
`NothingIsOrphaned` and `PurgesGoForward` say what no run checks: what NearProd made in the engine
has a record that would let a purge find it, and a purge keeps its mode and its direction. They need `Listed`, which speaks of the
two moments between a removal and the commit that says so; `WorkCommits` reduces the
sixteen steps of an operation to the nine that write.
`OperationsAreFinite` is the half of `PurgeEnds` that can be proved: each step of an operation decreases `Ahead`,
at most fifteen, in which the loop of a purge counts by the phase of its record, and no administrator increases it.

`tlapm StackPurgeProofs.tla` proves the safety properties of `StackPurge` and its types for any sets of
resources, from pairwise disjoint kinds and bounds that are naturals. `PurgeInv` adds three parts:
`Births` (an incarnation is never born twice, so what is gone stays gone though another resource may take its name),
`Confirmed` (the review that is carried out is the saved plan, the bindings and routes are withdrawn) and `Progress` (what
the loop has behind it is gone, and what it is at is next in the order). `ContainersGoFirst` follows
from the last: when a database or a volume is next, no container is left in `todo`.
`PurgeImplementsDeletion` is the refinement of `Deletion` (`CommandTakes` for the removals, `HiddenSteps` for
the rest): with `Births` an item that left `Left` is never in it again. `AttemptsAreFinite` is the half of `PurgeFinishes`
that can be proved: for finitely many resources each step of an attempt decreases `Effort`, a
natural number of at most four steps for each resource and six more, and nobody else increases it meanwhile.
What `InfraRun` may do is one lemma (`InfraEffects`): a database goes, comes or stays, and only records
change otherwise; the safety theorems hold whatever it does.

`tlapm CatalogProofs.tla` proves every safety property of `Catalog` for any sets of requests, applications,
groups, roots and configurations and any number of deaths of the agent, without an assumption on
the constants; `tlapm CatalogTypeProofs.tla` proves its types (`CatalogTypes`), for which `MaxCrashes` has to
be a natural. None of the properties is inductive alone, as each handler decides on what it read
before its lock and each operation works without the lock. `CatalogInv` says why that is safe, in parts
that build on each other:

* `Shape`, `Staged`: what a process is at, while it stops a watch or writes the routes too, and whether it is
  a handler or an operation. The lemmas on effects (`RegisterReads` to `SyncsReturn`) say once what each
  action makes of its process; the later parts cite them and not the actions.
* `ClaimInv` (`ClaimsExclude`): claims that conflict are never held together (`Compatible`), and who works under
  `Service.mutation` on an application is alone with it (`Locked`). It is what `Busy` and the lock are for.
* `RouteInv` (`RoutesFollowCatalog`): who writes the file holds `Proxy.mu` (`Writing`), and what it has read is old only
  if somebody is about to write again. It needs `Registering`: two requests never register one application.
* `TargetInv`: an operation works on the application it claims and finds it in the catalog. With
  `ClaimInv` it gives `OthersKeepOff`: no turn of another process touches that application, from which
  `ClaimsProtect` follows.
* `NameInv` (`CatalogIsWellFormed`): no identity or project twice and each binding where its application is (`BindingsInPlace`). An edit or a restore
  compares with what it read, a removal and an archive look under the lock (`LockedOn`).
* `JobInv` (`RunsAreApproved`, `AppliedStaysCurrent`): what an operation has read of its record, its approval included,
  is still so at each later step (`JobFacts`), since nobody else changes the record.
* `WatchInv` (`WatchesAreListed`, `WatchesAreCurrent`, `ConfigureIsQuiet`): a watch goes on without a claim, so nobody acts on
  an id before it found the id unwatched (`WatchFree`).
* `RuntimeInv` (`RuntimeIsListed`): what Remove and ArchiveStack saw stopped under the lock stays so until they commit,
  apart from what a watch starts meanwhile (`unseen`) or a dead agent's command (`outlived`).

`GroupsStay` is inductive with `ClaimInv`, and `BindingsGoByUnbind` follows action by action. The types
come last (`TypeInv`): a route, a watch or an approval has a configuration of the catalog only because
the record it comes from is still the one an operation works on. `CatalogImplementsExclusion` follows from
`ClaimInv`, where two builds are among the claims that never meet: `ClaimedStep` shows that what is claimed
comes from the catalog, `ClaimsRefine` that each step takes a claim, gives one back, loses them all with the agent, or keeps them.

Only model-checked: the five liveness properties (`AdmittedEnds`, `StopReturns`, `PurgeFinishes`, `PurgeEnds`,
`HandoffEnds`), which speak of fairness and of what is enabled and are out of the prover's reach, and the three
properties that the code violates. Every other property of a run is proved.

## 5 What is not modelled

* Pure functions over text: Compose files, Docker's output, names and domains,
  validation of requests; the interface, MCP, metrics, scripts, the self-test, and the commands
  of the command line that only call the API.
* `validateState`: no action relies on it to refuse. Where it would refuse a commit,
  `WellFormed` shows that the commit is not attempted.
* `Catalog` leaves out RenameGroup, Adopt and the engine's identity, SetRuntime, and the test
  for watches that ToolsAction makes before the lock; one `Config` stands for Compose files and
  routes together.
* `AgentUpdate` leaves out downloads and their verification, which precede every effect; Homebrew and unmanaged
  copies, which the updater refuses; the port and the browser sessions of the handoff; an update to a target
  without a handoff (agent_update.go:187), since no such release is newer; the shell's
  configuration; the login startup (`startup.go`), which starts an agent as a user does.
* The container of the proxy (`Proxy.Start`, `Ensure`, `Stop`), its network and its probes.
* `StackPurge`: at most `MaxInfra` late requests to InfraAction; administrators do not act on a database whose purge
  or creation has stopped halfway (`Databases` has them there). `Stages` does not keep which of the two it was, so
  either request may go on with it.
* `Databases` models one engine, with volume storage. A backup is a fact, not a file, and the restore of one is
  left out. `Create` of the instance itself is `Init`.
* `StoreOpen` leaves out corrupt files and permissions; the check that the catalog did not change
  during the backup can only fail without the lock.
* The window between the last check of a physical resource and the command that removes it: it
  lies inside one call of another program. `StackPurge` models the one of volumes, where the code addresses
  by name.
* Edits of Compose files outside NearProd between approval and run.

## 6 Plan

Done: the registry, the catalog with routes and watches, the deletion, the databases, the opening of
the store, the agent and its update, and the proofs of their safety. What would come next:

1. The life of the proxy's container (`Proxy.Start`, `Ensure`, `Stop`) in a module of its own, with the network
   it shares with the applications.
2. `Catalog`: RenameGroup, Adopt and the engine binding.
3. MySQL, MariaDB and Redis, where their statements differ from those of PostgreSQL in order.
