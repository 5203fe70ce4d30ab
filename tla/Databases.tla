------------------------------- MODULE Databases -------------------------------
(***************************************************************************)
(* One PostgreSQL instance and its databases (infra.go, infra_sql.go,      *)
(* infra_database_lifecycle.go): the catalog's records, the vault with the *)
(* passwords, the volume, and what the engine holds.  None of the four is  *)
(* updated together with another, the agent may die between any two steps, *)
(* and administrators of Docker and of the engine act on their own.        *)
(*                                                                         *)
(* Every operation here is exclusive (Service.InfraAction), so one runs at *)
(* a time; the catalog's commits of the others are single actions.         *)
(***************************************************************************)
EXTENDS Naturals

CONSTANTS
    Database,
    None,        \* no database
    MaxSecrets,  \* bound: passwords generated for one database
    MaxFaults,   \* bound: failed steps and deaths of the agent
    MaxOutside   \* bound: acts of administrators

ASSUME ConstantsAssumption ==
    /\ MaxSecrets \in Nat /\ MaxFaults \in Nat /\ MaxOutside \in Nat
    /\ None \notin Database

VARIABLES
    instance,     \* "active", or "archived" with its databases
    initialized,  \* its record says that the volume holds data
    db,           \* db[d]: the record of d
    vault,        \* vault[d]: the password kept for d, 0 if none
    issued,       \* issued[d]: passwords generated so far
    running,      \* the engine runs and is healthy
    vol,          \* the volume: "none", "ours", "foreign"
    data,         \* data[d]: the physical database, by its owner
    role,         \* role[d]: 0, the account's password, or Foreign
    saved,        \* saved[d]: a backup of the present database exists
    op,           \* the operation in progress
    faults, outside

engine == <<running, vol>>
sql    == <<data, role, saved>>
vars == <<instance, initialized, db, vault, issued, engine, sql, op, faults, outside>>

Password == 1 .. MaxSecrets
Foreign  == MaxSecrets + 1   \* an account with privileges of its own
Modes    == {"purge", "backup-purge"}

NoRecord == [state |-> "none", archived |-> FALSE, phase |-> "initial", mode |-> "purge",
             bound |-> "no"]
Idle == [at |-> "idle", db |-> None, goal |-> "start", mode |-> "purge", secret |-> 0]

Init ==
    /\ instance = "active" /\ initialized = FALSE
    /\ db = [d \in Database |-> NoRecord]
    /\ vault = [d \in Database |-> 0] /\ issued = vault
    /\ running = FALSE /\ vol = "none"
    /\ data = [d \in Database |-> "none"] /\ role = vault
    /\ saved = [d \in Database |-> FALSE]
    /\ op = Idle /\ faults = 0 /\ outside = 0

IsIdle == op.at = "idle"
At(step, d) == op.at = step /\ op.db = d
Goto(step) == op' = [op EXCEPT !.at = step]
End == op' = Idle
Same == UNCHANGED <<faults, outside>>

(* A step that only reads and decides. *)
Step(next) == Goto(next) /\ Same /\ UNCHANGED <<instance, initialized, db, vault, issued, engine, sql>>
Stop == End /\ Same /\ UNCHANGED <<instance, initialized, db, vault, issued, engine, sql>>
--------------------------------------------------------------------------------
(* Infrastructure.Start, by itself or on behalf of CreateDatabase. *)

Begin(d, goal, mode) ==
    /\ IsIdle /\ instance = "active"
    /\ op' = [at |-> IF goal = "purge" THEN "preview" ELSE "start", db |-> d, goal |-> goal,
              mode |-> mode, secret |-> 0]
    /\ Same /\ UNCHANGED <<instance, initialized, db, vault, issued, engine, sql>>

StartRequest == Begin(None, "start", "purge")

(* A database that is archived is reserved, one that is ready is a no-op,  *)
(* one that is being purged is refused.                                    *)
CreateRequest(d) ==
    /\ db[d].state \in {"none", "pending", "failed"} /\ ~db[d].archived
    /\ db[d].state = "none" => issued[d] < MaxSecrets
    /\ Begin(d, "create", "purge")

Started == IF op.goal = "create" THEN Step("check") ELSE Stop

(* Mutant: an engine that runs is taken for an initialized one. *)
StartCheck_AnyRunning ==
    /\ op.at = "start"
    /\ IF initialized /\ vol # "ours" THEN Stop
       ELSE IF running THEN Started ELSE Step("storage")

(* CheckStorageIdentity, then nothing to do if the engine runs. *)
StartCheck ==
    /\ op.at = "start"
    /\ IF initialized /\ vol # "ours" THEN Stop
       ELSE IF initialized /\ running THEN Started ELSE Step("storage")

(* EnsureStorage: a volume is created only for an instance without data. *)
EnsureStorage ==
    /\ op.at = "storage"
    /\ CASE vol = "ours" -> Step("up")
         [] vol = "none" /\ ~initialized ->
              /\ vol' = "ours" /\ Goto("up")
              /\ Same /\ UNCHANGED <<instance, initialized, db, vault, issued, running, sql>>
         [] OTHER -> Stop

(* docker compose up --wait; the volume is external to the file. *)
Up ==
    /\ op.at = "up"
    /\ IF vol = "ours"
       THEN /\ running' = TRUE /\ Goto("mark")
            /\ Same /\ UNCHANGED <<instance, initialized, db, vault, issued, vol, sql>>
       ELSE Stop

Mark ==
    /\ op.at = "mark"
    /\ initialized' = TRUE
    /\ IF op.goal = "create" THEN Goto("check") ELSE End
    /\ Same /\ UNCHANGED <<instance, db, vault, issued, engine, sql>>
--------------------------------------------------------------------------------
(* CreateDatabase, once the engine runs. *)

(* Mutant: a retry generates the password again. *)
CreateCheck_NewSecret(d) ==
    /\ At("check", d)
    /\ IF db[d].state # "none" \/ (data[d] = "none" /\ role[d] = 0)
       THEN Step("secret") ELSE Stop

(* What the engine already holds is not adopted. *)
CreateCheck(d) ==
    /\ At("check", d)
    /\ IF db[d].state # "none"
       THEN IF vault[d] # 0 THEN Step("role") ELSE Stop
       ELSE IF data[d] = "none" /\ role[d] = 0 THEN Step("secret") ELSE Stop

(* The password is saved before the record ... *)
NewSecret(d) ==
    /\ At("secret", d) /\ issued[d] < MaxSecrets
    /\ vault' = [vault EXCEPT ![d] = issued[d] + 1]
    /\ issued' = [issued EXCEPT ![d] = @ + 1]
    /\ Goto("record")
    /\ Same /\ UNCHANGED <<instance, initialized, db, engine, sql>>

(* ... and the record before anything exists in the engine. *)
NewRecord(d) ==
    /\ At("record", d)
    /\ db' = [db EXCEPT ![d] = [NoRecord EXCEPT !.state = "pending"]]
    /\ Goto("role")
    /\ Same /\ UNCHANGED <<instance, initialized, vault, issued, engine, sql>>

(* CREATE ROLE, or ALTER ROLE if one has the name. *)
CreateRole(d) ==
    /\ At("role", d)
    /\ role' = [role EXCEPT ![d] = vault[d]]
    /\ Goto("data")
    /\ Same /\ UNCHANGED <<instance, initialized, db, vault, issued, engine, data, saved>>

CreateData(d) ==
    /\ At("data", d)
    /\ IF data[d] = "foreign"
       THEN Step("failed")
       ELSE /\ data' = [data EXCEPT ![d] = "ours"]
            /\ saved' = [saved EXCEPT ![d] = @ /\ data[d] = "ours"]
            /\ Goto("probe")
            /\ Same /\ UNCHANGED <<instance, initialized, db, vault, issued, engine, role>>

(* Probe connects with the vault's password. *)
Probe(d) ==
    /\ At("probe", d)
    /\ Step(IF data[d] = "ours" /\ role[d] = vault[d] THEN "ready" ELSE "failed")

(* The result is saved in the record, with the error if there is one. *)
Settle(d) ==
    /\ op.at \in {"ready", "failed"} /\ op.db = d
    /\ db' = [db EXCEPT ![d].state = op.at]
    /\ End
    /\ Same /\ UNCHANGED <<instance, initialized, vault, issued, engine, sql>>
--------------------------------------------------------------------------------
(* PurgeDatabase. *)

(* verifyPurgePhysical(phase). *)
Verified(d, phase) ==
    /\ data[d] # "foreign" /\ role[d] # Foreign
    /\ phase = "initial" => data[d] # "none" /\ role[d] # 0
    /\ phase \in {"account", "metadata"} => data[d] = "none"
    /\ phase = "metadata" => role[d] = 0

(* Mutant: the resumption of a purge needs the credential in every phase. *)
Purgeable_NeedsVault(d, mode) ==
    /\ db[d].state \in {"ready", "purging"} /\ ~db[d].archived /\ db[d].bound = "no"
    /\ db[d].state = "purging" => db[d].mode = mode
    /\ running /\ vault[d] # 0
    /\ Verified(d, db[d].phase)

(* PurgeDatabasePreview: ready, or a purge to resume in the same mode. *)
Purgeable(d, mode) ==
    /\ db[d].state \in {"ready", "purging"} /\ ~db[d].archived /\ db[d].bound = "no"
    /\ db[d].state = "purging" => db[d].mode = mode
    /\ running /\ (db[d].phase = "metadata" \/ vault[d] # 0)
    /\ Verified(d, db[d].phase)

PurgeRequest(d, mode) == Purgeable(d, mode) /\ Begin(d, "purge", mode)

(* Mutant: the progress starts without the backup's turn. *)
PurgePreview_NoBackup(d) ==
    /\ At("preview", d)
    /\ IF ~Purgeable(d, op.mode) THEN Stop
       ELSE Step(IF db[d].state = "purging" THEN "verify" ELSE "begin")

PurgePreview(d) ==
    /\ At("preview", d)
    /\ IF ~Purgeable(d, op.mode) THEN Stop
       ELSE IF db[d].state = "purging" THEN Step("verify")
       ELSE IF op.mode = "backup-purge" THEN Step("backup") ELSE Step("begin")

PurgeBackup(d) ==
    /\ At("backup", d)
    /\ IF data[d] = "none" THEN Stop
       ELSE /\ saved' = [saved EXCEPT ![d] = TRUE] /\ Goto("again")
            /\ Same /\ UNCHANGED <<instance, initialized, db, vault, issued, engine, data, role>>

(* The preview is taken again after the backup, which may have been long. *)
PurgeAgain(d) ==
    /\ At("again", d)
    /\ IF Purgeable(d, op.mode) THEN Step("begin") ELSE Stop

PurgeBegin(d) ==
    /\ At("begin", d)
    /\ db' = [db EXCEPT ![d].state = "purging", ![d].phase = "database", ![d].mode = op.mode]
    /\ Goto("verify")
    /\ Same /\ UNCHANGED <<instance, initialized, vault, issued, engine, sql>>

(* Before each statement what the engine holds is verified again. *)
PurgeVerify(d) ==
    /\ At("verify", d)
    /\ IF Verified(d, db[d].phase)
       THEN Step(IF db[d].phase = "metadata" THEN "vault" ELSE "drop")
       ELSE Stop

(* DROP DATABASE / DROP ROLE IF EXISTS, according to the phase. *)
PurgeDrop(d) ==
    /\ At("drop", d)
    /\ IF db[d].phase = "database"
       THEN /\ data' = [data EXCEPT ![d] = "none"] /\ UNCHANGED role
       ELSE /\ role' = [role EXCEPT ![d] = 0] /\ UNCHANGED data
    /\ Goto("advance")
    /\ Same /\ UNCHANGED <<instance, initialized, db, vault, issued, engine, saved>>

PurgeAdvance(d) ==
    /\ At("advance", d)
    /\ db' = [db EXCEPT ![d].phase = IF @ = "database" THEN "account" ELSE "metadata"]
    /\ Goto("verify")
    /\ Same /\ UNCHANGED <<instance, initialized, vault, issued, engine, sql>>

(* The credential goes before the record. *)
PurgeVault(d) ==
    /\ At("vault", d)
    /\ vault' = [vault EXCEPT ![d] = 0]
    /\ op' = [op EXCEPT !.at = "forget", !.secret = vault[d]]
    /\ Same /\ UNCHANGED <<instance, initialized, db, issued, engine, sql>>

PurgeForget(d) ==
    /\ At("forget", d)
    /\ db' = [db EXCEPT ![d] = NoRecord]
    /\ End
    /\ Same /\ UNCHANGED <<instance, initialized, vault, issued, engine, sql>>
--------------------------------------------------------------------------------
(* Operations that commit once. *)

Commit == IsIdle /\ Same /\ UNCHANGED <<vault, issued, sql, op>>

(* Bind; BindingPreview looks for a ready database of the active catalog. *)
Bind(d) ==
    /\ instance = "active" /\ db[d].state = "ready" /\ ~db[d].archived
    /\ db' = [db EXCEPT ![d].bound = "active"]
    /\ Commit /\ UNCHANGED <<instance, initialized, engine>>

(* Unbind, and the archive and restoration of the bound application, which *)
(* keeps its bindings in its snapshot (Catalog).                           *)
Unbind(d) ==
    /\ db[d].bound = "active"
    /\ db' = [db EXCEPT ![d].bound = "no"]
    /\ Commit /\ UNCHANGED <<instance, initialized, engine>>
ArchiveStack(d) ==
    /\ db[d].bound # "no"
    /\ db' = [db EXCEPT ![d].bound = IF @ = "active" THEN "archived" ELSE "active"]
    /\ Commit /\ UNCHANGED <<instance, initialized, engine>>

ArchiveDatabase(d) ==
    /\ instance = "active" /\ db[d].state = "ready" /\ ~db[d].archived
    /\ db[d].bound = "no" /\ vault[d] # 0
    /\ db' = [db EXCEPT ![d].archived = TRUE]
    /\ Commit /\ UNCHANGED <<instance, initialized, engine>>

RestoreDatabase(d) ==
    /\ instance = "active" /\ db[d].archived /\ vault[d] # 0
    /\ db' = [db EXCEPT ![d].archived = FALSE]
    /\ Commit /\ UNCHANGED <<instance, initialized, engine>>

StopInstance ==
    /\ instance = "active" /\ running
    /\ running' = FALSE
    /\ Commit /\ UNCHANGED <<instance, initialized, db, vol>>

(* Mutant: only the bindings of active applications count. *)
NoConsumer_Active == \A d \in Database : db[d].bound # "active" /\ ~db[d].archived
NoConsumer == \A d \in Database : db[d].bound = "no" /\ ~db[d].archived

StorageFits == IF initialized THEN vol = "ours" ELSE vol # "foreign"

ArchiveInstance ==
    /\ instance = "active" /\ ~running /\ NoConsumer /\ StorageFits
    /\ instance' = "archived"
    /\ Commit /\ UNCHANGED <<initialized, db, engine>>

RestoreInstance ==
    /\ instance = "archived" /\ StorageFits
    /\ instance' = "active"
    /\ Commit /\ UNCHANGED <<initialized, db, engine>>

Backup(d) ==
    /\ IsIdle /\ instance = "active" /\ running
    /\ db[d].state # "none" /\ ~db[d].archived /\ data[d] # "none"
    /\ saved' = [saved EXCEPT ![d] = TRUE]
    /\ Same /\ UNCHANGED <<instance, initialized, db, vault, issued, engine, data, role, op>>
--------------------------------------------------------------------------------
Faulty == faults < MaxFaults /\ faults' = faults + 1 /\ UNCHANGED outside

(* A call of the operation fails.  In the provisioning the record says so; *)
(* after the vault's turn the credential is put back, or that fails too.   *)
Fail ==
    /\ ~IsIdle /\ Faulty
    /\ IF op.at \in {"role", "data", "probe"}
       THEN Goto("failed") ELSE End
    /\ IF op.at = "forget"
       THEN vault' \in {vault, [vault EXCEPT ![op.db] = op.secret]}
       ELSE UNCHANGED vault
    /\ UNCHANGED <<instance, initialized, db, issued, engine, sql>>

(* The agent dies; Docker and the engine go on. *)
Crash ==
    /\ ~IsIdle /\ Faulty
    /\ End
    /\ UNCHANGED <<instance, initialized, db, vault, issued, engine, sql>>

(* Administrators: the engine's, who create and drop, and Docker's.        *)
Outside == outside < MaxOutside /\ outside' = outside + 1 /\ UNCHANGED faults

OutsideData(d) ==
    /\ Outside /\ running
    /\ data' = [data EXCEPT ![d] = IF @ = "none" THEN "foreign" ELSE "none"]
    /\ saved' = [saved EXCEPT ![d] = FALSE]
    /\ UNCHANGED <<instance, initialized, db, vault, issued, engine, role, op>>

OutsideRole(d) ==
    /\ Outside /\ running
    /\ role' = [role EXCEPT ![d] = IF @ = 0 THEN Foreign ELSE 0]
    /\ UNCHANGED <<instance, initialized, db, vault, issued, engine, data, saved, op>>

OutsideVolume ==
    /\ Outside /\ ~running
    /\ vol' = IF vol = "none" THEN "foreign" ELSE "none"
    /\ data' = [d \in Database |-> "none"] /\ role' = [d \in Database |-> 0]
    /\ saved' = [d \in Database |-> FALSE]
    /\ UNCHANGED <<instance, initialized, db, vault, issued, running, op>>
--------------------------------------------------------------------------------
Requests ==
    \/ StartRequest \/ StopInstance \/ ArchiveInstance \/ RestoreInstance
    \/ \E d \in Database :
          \/ CreateRequest(d) \/ \E m \in Modes : PurgeRequest(d, m)
          \/ Bind(d) \/ Unbind(d) \/ ArchiveStack(d)
          \/ ArchiveDatabase(d) \/ RestoreDatabase(d) \/ Backup(d)

Work ==
    \/ StartCheck \/ EnsureStorage \/ Up \/ Mark
    \/ \E d \in Database :
          \/ CreateCheck(d) \/ NewSecret(d) \/ NewRecord(d) \/ CreateRole(d)
          \/ CreateData(d) \/ Probe(d) \/ Settle(d)
          \/ PurgePreview(d) \/ PurgeBackup(d) \/ PurgeAgain(d) \/ PurgeBegin(d)
          \/ PurgeVerify(d) \/ PurgeDrop(d) \/ PurgeAdvance(d)
          \/ PurgeVault(d) \/ PurgeForget(d)

(* An archived instance whose volume is gone: nothing brings it back. *)
Lost == IsIdle /\ instance = "archived" /\ ~StorageFits /\ UNCHANGED vars

Next ==
    \/ Requests \/ Work \/ Fail \/ Crash
    \/ \E d \in Database : OutsideData(d) \/ OutsideRole(d)
    \/ OutsideVolume \/ Lost

(* An operation runs to its end; whoever began a purge starts the engine   *)
(* and tries again.                                                        *)
Fairness ==
    /\ WF_vars(Work)
    /\ \A d \in Database :
          /\ WF_vars(db[d].state = "purging" /\ ~running /\ StartRequest)
          /\ \A m \in Modes : SF_vars(db[d].state = "purging" /\ PurgeRequest(d, m))

Spec == Init /\ [][Next]_vars /\ Fairness
--------------------------------------------------------------------------------
States == {"none", "pending", "ready", "failed", "purging"}
Phases == {"initial", "database", "account", "metadata"}

StartSteps  == {"start", "storage", "up", "mark"}
CreateSteps == {"check", "secret", "record", "role", "data", "probe", "ready", "failed"}
PurgeSteps  == {"preview", "backup", "again", "begin", "verify", "drop", "advance", "vault",
                "forget"}

Record == [state : States, archived : BOOLEAN, phase : Phases, mode : Modes,
           bound : {"no", "active", "archived"}]
Operation == [at : {"idle"} \cup StartSteps \cup CreateSteps \cup PurgeSteps,
              db : Database \cup {None}, goal : {"start", "create", "purge"}, mode : Modes,
              secret : 0 .. MaxSecrets]

TypeOK ==
    /\ instance \in {"active", "archived"} /\ initialized \in BOOLEAN
    /\ db \in [Database -> Record]
    /\ \A d \in Database : (db[d].state = "purging") <=> (db[d].phase # "initial")
    /\ vault \in [Database -> 0 .. MaxSecrets] /\ issued \in [Database -> 0 .. MaxSecrets]
    /\ running \in BOOLEAN /\ vol \in {"none", "ours", "foreign"}
    /\ data \in [Database -> {"none", "ours", "foreign"}]
    /\ role \in [Database -> 0 .. Foreign] /\ saved \in [Database -> BOOLEAN]
    /\ op \in Operation
    /\ faults \in 0 .. MaxFaults /\ outside \in 0 .. MaxOutside

(* An account that NearProd created has a record, and the vault holds its  *)
(* password: no step, crash or retry of the creation or of the purge loses *)
(* one or generates another ("La credencial registrada no existe; no se    *)
(* regenerara").                                                           *)
CredentialKept ==
    \A d \in Database :
       /\ role[d] \in Password => db[d].state # "none" /\ vault[d] = role[d]
       /\ db[d].state \in {"pending", "ready", "failed"} => vault[d] # 0

(* What consumes a database, and what is archived, can be served: the      *)
(* record is ready, of the active catalog, of an instance that is too.     *)
BoundIsServed ==
    \A d \in Database : db[d].bound # "no" \/ db[d].archived =>
       /\ db[d].state = "ready" /\ instance = "active"
       /\ ~(db[d].archived /\ db[d].bound # "no")

(* NearProd destroys a database only in a purge that was recorded, with no *)
(* binding left, and in backup-purge mode only if a backup of that very    *)
(* database exists, whatever failed and was resumed in between.            *)
DropIsJustified ==
    [][\A d \in Database : At("drop", d) /\ data[d] = "ours" /\ data'[d] = "none"
          /\ outside' = outside =>
             /\ db[d].state = "purging" /\ db[d].bound = "no"
             /\ db[d].mode = "backup-purge" => saved[d]]_vars

(* A volume that held databases is never replaced by an empty one          *)
(* (docs/INFRAESTRUCTURA.md:56).                                           *)
NoEmptyStart ==
    [][vol = "none" /\ vol' = "ours" => \A d \in Database : db[d].state = "none"]_vars

(* A purge that has begun ends, unless someone puts something in the way.  *)
Blocked(d) == data[d] = "foreign" \/ role[d] = Foreign \/ vol # "ours" \/ instance # "active"
PurgeEnds == \A d \in Database :
    db[d].state = "purging" ~> (db[d].state = "none" \/ Blocked(d))
================================================================================
