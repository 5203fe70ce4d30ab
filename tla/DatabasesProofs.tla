--------------------------- MODULE DatabasesProofs ---------------------------
(***************************************************************************)
(* Theorems about Databases for any set of databases and any bounds: no    *)
(* step, crash or retry loses a credential, takes a database away from its *)
(* consumers, drops one without cause or puts an empty volume in place of  *)
(* one with data; nothing made in the engine is forgotten, and every       *)
(* operation ends.                                                         *)
(***************************************************************************)
EXTENDS Databases, TLAPS

(* What the record of a database says of the vault, the engine and the     *)
(* volume.                                                                 *)
Sound(d) ==
    /\ role[d] \in Password => db[d].state # "none" /\ vault[d] = role[d]
    /\ db[d].state \in {"pending", "ready", "failed"} => vault[d] # 0
    /\ db[d].state # "none" => initialized
    /\ db[d].bound # "no" \/ db[d].archived =>
          /\ db[d].state = "ready" /\ instance = "active"
          /\ ~(db[d].archived /\ db[d].bound # "no")
    /\ db[d].phase = "metadata" => role[d] \notin Password
    /\ db[d].state = "purging" /\ db[d].mode = "backup-purge" /\ data[d] = "ours" => saved[d]

Provisioning ==
    op.at \in CreateSteps \/ (op.at \in StartSteps /\ op.goal = "create")
Served(r) == r.bound = "no" /\ ~r.archived

(* Where the operation in progress has its database: nobody else commits   *)
(* while it runs.                                                          *)
Working ==
    /\ ~IsIdle => instance = "active"
    /\ Provisioning \/ op.at \in PurgeSteps => op.db \in Database /\ Served(db[op.db])
    /\ Provisioning => op.goal = "create" /\ db[op.db].state \in {"none", "pending", "failed"}
    /\ op.at \in CreateSteps => initialized
    /\ op.at \in {"secret", "record"} => db[op.db].state = "none"
    /\ op.at = "record" => vault[op.db] # 0
    /\ op.at \in {"role", "data", "probe", "ready", "failed"} =>
          db[op.db].state \in {"pending", "failed"}
    /\ op.at \in PurgeSteps => db[op.db].state \in {"ready", "purging"}
    /\ op.at \in {"backup", "again", "begin"} => db[op.db].state = "ready"
    /\ op.at \in {"again", "begin"} /\ op.mode = "backup-purge" /\ data[op.db] = "ours" =>
          saved[op.db]
    /\ op.at \in {"verify", "drop", "advance", "vault", "forget"} =>
          db[op.db].state = "purging"
    /\ op.at \in {"drop", "advance"} => db[op.db].phase \in {"database", "account"}
    /\ op.at = "advance" /\ db[op.db].phase = "account" => role[op.db] \notin Password
    /\ op.at \in {"vault", "forget"} => db[op.db].phase = "metadata"

DatabasesInv == TypeOK /\ (\A d \in Database : Sound(d)) /\ Working
--------------------------------------------------------------------------------
(* An update of a function of databases. *)
LEMMA Updates ==
    ASSUME NEW S, NEW f \in [Database -> S], NEW d \in Database, NEW v \in S
    PROVE  [f EXCEPT ![d] = v] \in [Database -> S]
  OBVIOUS

(* A record that is archived or restored is a record. *)
LEMMA Archivals ==
    ASSUME NEW r \in Record, NEW b \in BOOLEAN
    PROVE  [r EXCEPT !.archived = b] \in Record
  BY DEF Record

(* The operation that keeps the credential it deletes is an operation. *)
LEMMA Secrets ==
    ASSUME NEW o \in Operation, NEW s \in 0 .. MaxSecrets
    PROVE  [o EXCEPT !.at = "forget", !.secret = s] \in Operation
  BY DEF Operation, StartSteps, CreateSteps, PurgeSteps

--------------------------------------------------------------------------------
(* A request begins an operation or commits at once. *)
LEMMA RequestStep ==
    ASSUME DatabasesInv, Requests
    PROVE  DatabasesInv'
  <1> USE ConstantsAssumption DEF DatabasesInv, TypeOK, Sound, Working, Provisioning, Served,
        Record, Operation, States, Phases, Modes, StartSteps, CreateSteps, PurgeSteps,
        Password, Foreign, engine, sql, IsIdle, At, Goto, End, Idle, Same, Step, Stop
  <1>1. CASE StartRequest
    BY <1>1 DEF StartRequest, Begin
  <1>2. CASE StopInstance
    <2>1. TypeOK'
      BY <1>2 DEF StopInstance, Commit
    <2>2. ASSUME NEW e \in Database PROVE Sound(e)'
      BY <1>2 DEF StopInstance, Commit
    <2>3. Working'
      BY <1>2 DEF StopInstance, Commit
    <2> QED
      BY <2>1, <2>2, <2>3
  <1>3. CASE ArchiveInstance
    BY <1>3 DEF ArchiveInstance, Commit, NoConsumer, StorageFits
  <1>4. CASE RestoreInstance
    BY <1>4 DEF RestoreInstance, Commit, StorageFits
  <1>5. ASSUME NEW d \in Database, CreateRequest(d) PROVE DatabasesInv'
    BY <1>5 DEF CreateRequest, Begin
  <1>6. ASSUME NEW d \in Database, NEW m \in Modes, PurgeRequest(d, m)
        PROVE  DatabasesInv'
    BY <1>6 DEF PurgeRequest, Begin, Purgeable, Verified
  <1>7. ASSUME NEW d \in Database, Bind(d) PROVE DatabasesInv'
    BY <1>7 DEF Bind, Commit
  <1>8. ASSUME NEW d \in Database, Unbind(d) PROVE DatabasesInv'
    BY <1>8 DEF Unbind, Commit
  <1>9. ASSUME NEW d \in Database, ArchiveStack(d) PROVE DatabasesInv'
    BY <1>9 DEF ArchiveStack, Commit
  <1>10. ASSUME NEW d \in Database, ArchiveDatabase(d) PROVE DatabasesInv'
    <2>1. db' \in [Database -> Record]
      <3>1. db \in [Database -> Record] /\ db[d] \in Record
        OBVIOUS
      <3>2. [db[d] EXCEPT !.archived = TRUE] \in Record
        BY <3>1, Archivals
      <3>3. db' = [db EXCEPT ![d] = [db[d] EXCEPT !.archived = TRUE]]
        BY <1>10 DEF ArchiveDatabase
      <3> HIDE DEF Record
      <3> QED
        BY <3>1, <3>2, <3>3, Updates
    <2>2. TypeOK'
      BY <1>10, <2>1 DEF ArchiveDatabase, Commit
    <2>3. ASSUME NEW e \in Database PROVE Sound(e)'
      BY <1>10, <2>1 DEF ArchiveDatabase, Commit
    <2>4. Working'
      BY <1>10, <2>1 DEF ArchiveDatabase, Commit
    <2> QED
      BY <2>2, <2>3, <2>4
  <1>11. ASSUME NEW d \in Database, RestoreDatabase(d) PROVE DatabasesInv'
    <2>1. db' \in [Database -> Record]
      <3>1. db \in [Database -> Record] /\ db[d] \in Record
        OBVIOUS
      <3>2. [db[d] EXCEPT !.archived = FALSE] \in Record
        BY <3>1, Archivals
      <3>3. db' = [db EXCEPT ![d] = [db[d] EXCEPT !.archived = FALSE]]
        BY <1>11 DEF RestoreDatabase
      <3> HIDE DEF Record
      <3> QED
        BY <3>1, <3>2, <3>3, Updates
    <2>2. TypeOK'
      BY <1>11, <2>1 DEF RestoreDatabase, Commit
    <2>3. ASSUME NEW e \in Database PROVE Sound(e)'
      BY <1>11, <2>1 DEF RestoreDatabase, Commit
    <2>4. Working'
      BY <1>11, <2>1 DEF RestoreDatabase, Commit
    <2> QED
      BY <2>2, <2>3, <2>4
  <1>12. ASSUME NEW d \in Database, Backup(d) PROVE DatabasesInv'
    BY <1>12 DEF Backup
  <1> HIDE DEF DatabasesInv
  <1> QED
    BY <1>1, <1>2, <1>3, <1>4, <1>5, <1>6, <1>7, <1>8, <1>9, <1>10, <1>11, <1>12 DEF Requests

(* Start and EnsureStorage. *)
LEMMA StartStep ==
    ASSUME DatabasesInv, StartCheck \/ EnsureStorage \/ Up \/ Mark
    PROVE  DatabasesInv'
  <1> USE ConstantsAssumption DEF DatabasesInv, TypeOK, Sound, Working, Provisioning, Served,
        Record, Operation, States, Phases, Modes, StartSteps, CreateSteps, PurgeSteps,
        Password, Foreign, engine, sql, IsIdle, At, Goto, End, Idle, Same, Step, Stop
  <1>1. CASE StartCheck
    BY <1>1 DEF StartCheck, Started
  <1>2. CASE EnsureStorage
    BY <1>2 DEF EnsureStorage
  <1>3. CASE Up
    <2>1. CASE vol = "ours"
      <3>1. TypeOK'
        BY <1>3, <2>1 DEF Up
      <3>2. ASSUME NEW e \in Database PROVE Sound(e)'
        BY <1>3, <2>1 DEF Up
      <3>3. Working'
        BY <1>3, <2>1 DEF Up
      <3> QED
        BY <3>1, <3>2, <3>3
    <2>2. CASE vol # "ours"
      BY <1>3, <2>2 DEF Up
    <2> QED
      BY <2>1, <2>2
  <1>4. CASE Mark
    BY <1>4 DEF Mark
  <1> HIDE DEF DatabasesInv
  <1> QED
    BY <1>1, <1>2, <1>3, <1>4

(* CreateDatabase. *)
LEMMA CreateStep ==
    ASSUME DatabasesInv,
           \E d \in Database :
              \/ CreateCheck(d) \/ NewSecret(d) \/ NewRecord(d) \/ CreateRole(d)
              \/ CreateData(d) \/ Probe(d) \/ Settle(d)
    PROVE  DatabasesInv'
  <1> USE ConstantsAssumption DEF DatabasesInv, TypeOK, Sound, Working, Provisioning, Served,
        Record, Operation, States, Phases, Modes, StartSteps, CreateSteps, PurgeSteps,
        Password, Foreign, engine, sql, IsIdle, At, Goto, End, Idle, Same, Step, Stop
  <1>1. ASSUME NEW d \in Database, CreateCheck(d) PROVE DatabasesInv'
    <2>1. CASE Stop
      BY <2>1
    <2>2. CASE Step("role") /\ At("check", d) /\ db[d].state # "none"
      BY <2>2
    <2>3. CASE Step("secret") /\ At("check", d) /\ db[d].state = "none"
      BY <2>3
    <2> QED
      BY <1>1, <2>1, <2>2, <2>3 DEF CreateCheck
  <1>2. ASSUME NEW d \in Database, NewSecret(d) PROVE DatabasesInv'
    BY <1>2 DEF NewSecret
  <1>3. ASSUME NEW d \in Database, NewRecord(d) PROVE DatabasesInv'
    <2>1. db' \in [Database -> Record]
      BY <1>3 DEF NewRecord, NoRecord
    <2>2. TypeOK'
      <3>1. op' \in Operation
        BY <1>3 DEF NewRecord
      <3>2. \A e \in Database :
               (db'[e].state = "purging") <=> (db'[e].phase # "initial")
        BY <1>3 DEF NewRecord, NoRecord
      <3> HIDE DEF Record, Operation, Goto, At
      <3> QED
        BY <1>3, <2>1, <3>1, <3>2 DEF NewRecord
    <2>3. ASSUME NEW e \in Database PROVE Sound(e)'
      BY <1>3, <2>1 DEF NewRecord, NoRecord
    <2>4. Working'
      BY <1>3, <2>1 DEF NewRecord, NoRecord
    <2> QED
      BY <2>2, <2>3, <2>4
  <1>4. ASSUME NEW d \in Database, CreateRole(d) PROVE DatabasesInv'
    <2>1. TypeOK'
      BY <1>4 DEF CreateRole
    <2>2. ASSUME NEW e \in Database PROVE Sound(e)'
      BY <1>4 DEF CreateRole
    <2>3. Working'
      BY <1>4 DEF CreateRole
    <2> QED
      BY <2>1, <2>2, <2>3
  <1>5. ASSUME NEW d \in Database, CreateData(d) PROVE DatabasesInv'
    <2>1. CASE data[d] = "foreign"
      BY <1>5, <2>1 DEF CreateData
    <2>2. CASE data[d] # "foreign"
      <3>1. /\ data' = [data EXCEPT ![d] = "ours"]
            /\ saved' = [saved EXCEPT ![d] = saved[d] /\ data[d] = "ours"]
            /\ op' = [op EXCEPT !.at = "probe"]
            /\ At("data", d)
            /\ UNCHANGED <<instance, initialized, db, vault, issued, running, vol, role,
                          faults, outside>>
        BY <1>5, <2>2 DEF CreateData
      <3>2. saved \in [Database -> BOOLEAN] /\ (saved[d] /\ data[d] = "ours") \in BOOLEAN
        OBVIOUS
      <3>3. saved' \in [Database -> BOOLEAN]
        BY <3>1, <3>2, Updates
      <3>4. data' \in [Database -> {"none", "ours", "foreign"}]
        BY <3>1
      <3>5. TypeOK'
        BY <3>1, <3>3, <3>4
      <3>6. ASSUME NEW e \in Database PROVE Sound(e)'
        BY <3>1
      <3>7. Working'
        BY <3>1
      <3> QED
        BY <3>5, <3>6, <3>7
    <2> QED
      BY <2>1, <2>2
  <1>6. ASSUME NEW d \in Database, Probe(d) PROVE DatabasesInv'
    BY <1>6 DEF Probe
  <1>7. ASSUME NEW d \in Database, Settle(d) PROVE DatabasesInv'
    BY <1>7 DEF Settle
  <1> HIDE DEF DatabasesInv
  <1> QED
    BY <1>1, <1>2, <1>3, <1>4, <1>5, <1>6, <1>7

(* PurgeDatabase. *)
LEMMA PurgeStep ==
    ASSUME DatabasesInv,
           \E d \in Database :
              \/ PurgePreview(d) \/ PurgeBackup(d) \/ PurgeAgain(d) \/ PurgeBegin(d)
              \/ PurgeVerify(d) \/ PurgeDrop(d) \/ PurgeAdvance(d)
              \/ PurgeVault(d) \/ PurgeForget(d)
    PROVE  DatabasesInv'
  <1> USE ConstantsAssumption DEF DatabasesInv, TypeOK, Sound, Working, Provisioning, Served,
        Record, Operation, States, Phases, Modes, StartSteps, CreateSteps, PurgeSteps,
        Password, Foreign, engine, sql, IsIdle, At, Goto, End, Idle, Same, Step, Stop
  <1>1. ASSUME NEW d \in Database, PurgePreview(d) PROVE DatabasesInv'
    BY <1>1 DEF PurgePreview, Purgeable
  <1>2. ASSUME NEW d \in Database, PurgeBackup(d) PROVE DatabasesInv'
    <2>1. CASE Stop
      BY <2>1
    <2>2. CASE ~Stop
      <3>1. saved' = [saved EXCEPT ![d] = TRUE]
        BY <1>2, <2>2 DEF PurgeBackup
      <3>2. saved \in [Database -> BOOLEAN] /\ TRUE \in BOOLEAN
        OBVIOUS
      <3>3. saved' \in [Database -> BOOLEAN]
        BY <3>1, <3>2, Updates
      <3>4. TypeOK'
        BY <1>2, <2>2, <3>3 DEF PurgeBackup
      <3>5. ASSUME NEW e \in Database PROVE Sound(e)'
        BY <1>2, <2>2 DEF PurgeBackup
      <3>6. Working'
        BY <1>2, <2>2 DEF PurgeBackup
      <3> QED
        BY <3>4, <3>5, <3>6
    <2> QED
      BY <2>1, <2>2
  <1>3. ASSUME NEW d \in Database, PurgeAgain(d) PROVE DatabasesInv'
    BY <1>3 DEF PurgeAgain, Purgeable
  <1>4. ASSUME NEW d \in Database, PurgeBegin(d) PROVE DatabasesInv'
    BY <1>4 DEF PurgeBegin
  <1>5. ASSUME NEW d \in Database, PurgeVerify(d) PROVE DatabasesInv'
    BY <1>5 DEF PurgeVerify, Verified
  <1>6. ASSUME NEW d \in Database, PurgeDrop(d) PROVE DatabasesInv'
    <2>1. TypeOK'
      BY <1>6 DEF PurgeDrop
    <2>2. ASSUME NEW e \in Database PROVE Sound(e)'
      BY <1>6 DEF PurgeDrop
    <2>3. Working'
      BY <1>6 DEF PurgeDrop
    <2> QED
      BY <2>1, <2>2, <2>3
  <1>7. ASSUME NEW d \in Database, PurgeAdvance(d) PROVE DatabasesInv'
    <2>1. db' \in [Database -> Record]
      BY <1>7 DEF PurgeAdvance
    <2>2. TypeOK'
      BY <1>7, <2>1 DEF PurgeAdvance
    <2>3. ASSUME NEW e \in Database PROVE Sound(e)'
      BY <1>7, <2>1 DEF PurgeAdvance
    <2>4. Working'
      BY <1>7, <2>1 DEF PurgeAdvance
    <2> QED
      BY <2>2, <2>3, <2>4
  <1>8. ASSUME NEW d \in Database, PurgeVault(d) PROVE DatabasesInv'
    <2>1. op' \in Operation
      <3>1. op \in Operation /\ vault[d] \in 0 .. MaxSecrets
        OBVIOUS
      <3>2. op' = [op EXCEPT !.at = "forget", !.secret = vault[d]]
        BY <1>8 DEF PurgeVault
      <3> HIDE DEF Operation
      <3> QED
        BY <3>1, <3>2, Secrets
    <2>2. TypeOK'
      BY <1>8, <2>1 DEF PurgeVault
    <2>3. (\A e \in Database : Sound(e)') /\ Working'
      BY <1>8 DEF PurgeVault
    <2> QED
      BY <2>2, <2>3
  <1>9. ASSUME NEW d \in Database, PurgeForget(d) PROVE DatabasesInv'
    BY <1>9 DEF PurgeForget, NoRecord
  <1> HIDE DEF DatabasesInv
  <1> QED
    BY <1>1, <1>2, <1>3, <1>4, <1>5, <1>6, <1>7, <1>8, <1>9

(* Failures, deaths of the agent, and administrators. *)
LEMMA OtherStep ==
    ASSUME DatabasesInv,
           \/ Fail \/ Crash \/ OutsideVolume
           \/ \E d \in Database : OutsideData(d) \/ OutsideRole(d)
    PROVE  DatabasesInv'
  <1> USE ConstantsAssumption DEF DatabasesInv, TypeOK, Sound, Working, Provisioning, Served,
        Record, Operation, States, Phases, Modes, StartSteps, CreateSteps, PurgeSteps,
        Password, Foreign, engine, sql, IsIdle, At, Goto, End, Idle, Same, Step, Stop
  <1>1. CASE Fail
    BY <1>1 DEF Fail, Faulty
  <1>2. CASE Crash
    BY <1>2 DEF Crash, Faulty
  <1>3. CASE OutsideVolume
    BY <1>3 DEF OutsideVolume, Outside
  <1>4. ASSUME NEW d \in Database, OutsideData(d) PROVE DatabasesInv'
    BY <1>4 DEF OutsideData, Outside
  <1>5. ASSUME NEW d \in Database, OutsideRole(d) PROVE DatabasesInv'
    BY <1>5 DEF OutsideRole, Outside
  <1> HIDE DEF DatabasesInv
  <1> QED
    BY <1>1, <1>2, <1>3, <1>4, <1>5
--------------------------------------------------------------------------------
(* At first there is no record, no volume and no operation. *)
LEMMA InitInv == Init => DatabasesInv
  <1> SUFFICES ASSUME Init PROVE DatabasesInv
    OBVIOUS
  <1>1. TypeOK
    <2>1. NoRecord \in Record /\ NoRecord.state = "none" /\ NoRecord.phase = "initial"
      BY DEF NoRecord, Record, States, Phases, Modes
    <2>2. Idle \in Operation
      BY ConstantsAssumption DEF Idle, Operation, Modes
    <2>3. 0 \in 0 .. MaxSecrets /\ 0 \in 0 .. Foreign /\ 0 \in 0 .. MaxFaults
          /\ 0 \in 0 .. MaxOutside
      BY ConstantsAssumption DEF Foreign
    <2>4. saved \in [Database -> BOOLEAN] /\ initialized \in BOOLEAN /\ running \in BOOLEAN
      BY DEF Init
    <2> QED
      BY <2>1, <2>2, <2>3, <2>4 DEF Init, TypeOK
  <1>2. ASSUME NEW d \in Database PROVE Sound(d)
    BY <1>1, ConstantsAssumption DEF Init, Sound, NoRecord, Password
  <1>3. Working
    BY DEF Init, Working, Provisioning, Idle, IsIdle, StartSteps, CreateSteps, PurgeSteps
  <1> QED
    BY <1>1, <1>2, <1>3 DEF DatabasesInv

(* A stutter, or the archived instance that nothing brings back. *)
LEMMA Stutter == DatabasesInv /\ UNCHANGED vars => DatabasesInv'
  BY DEF DatabasesInv, TypeOK, Sound, Working, Provisioning, Served, IsIdle, vars, engine, sql

LEMMA NextInv == DatabasesInv /\ [Next]_vars => DatabasesInv'
  <1> SUFFICES ASSUME DatabasesInv, [Next]_vars PROVE DatabasesInv'
    OBVIOUS
  <1>1. CASE Requests
    BY <1>1, RequestStep
  <1>2. CASE Work
    BY <1>2, StartStep, CreateStep, PurgeStep DEF Work
  <1>3. CASE \/ Fail \/ Crash \/ OutsideVolume
             \/ \E d \in Database : OutsideData(d) \/ OutsideRole(d)
    BY <1>3, OtherStep
  <1>4. CASE Lost \/ UNCHANGED vars
    BY <1>4, Stutter DEF Lost
  <1> QED
    BY <1>1, <1>2, <1>3, <1>4 DEF Next

LEMMA Invariance == Spec => []DatabasesInv
  BY InitInv, NextInv, PTL DEF Spec

(* Every variable keeps its type; a record says purging exactly while it   *)
(* has the phase of a purge.                                               *)
THEOREM DatabaseTypes == Spec => []TypeOK
  <1>1. DatabasesInv => TypeOK
    BY DEF DatabasesInv
  <1> QED
    BY <1>1, Invariance, PTL

(* No step, failure, death or retry of CreateDatabase or PurgeDatabase     *)
(* leaves an account of NearProd without its record or its password.       *)
THEOREM CredentialNeverLost == Spec => []CredentialKept
  <1>1. DatabasesInv => CredentialKept
    BY DEF DatabasesInv, Sound, CredentialKept
  <1> QED
    BY <1>1, Invariance, PTL

(* No archive or purge, of a database or of its instance, takes a database *)
(* away from an application that is bound to it, archived or not.          *)
THEOREM ConsumersAreServed == Spec => []BoundIsServed
  <1>1. DatabasesInv => BoundIsServed
    BY DEF DatabasesInv, Sound, BoundIsServed
  <1> QED
    BY <1>1, Invariance, PTL

(* PurgeDatabase drops a database only in a purge on record, without       *)
(* bindings, and with a backup of it if the mode promises one.             *)
THEOREM DropsAreJustified == Spec => DropIsJustified
  <1>1. ASSUME DatabasesInv, NEW d \in Database, At("drop", d), data[d] = "ours"
        PROVE  /\ db[d].state = "purging" /\ db[d].bound = "no"
               /\ db[d].mode = "backup-purge" => saved[d]
    BY <1>1 DEF DatabasesInv, Sound, Working, Served, At, PurgeSteps
  <1>2. DatabasesInv =>
          [\A d \in Database : At("drop", d) /\ data[d] = "ours" /\ data'[d] = "none"
              /\ outside' = outside =>
                 /\ db[d].state = "purging" /\ db[d].bound = "no"
                 /\ db[d].mode = "backup-purge" => saved[d]]_vars
    BY <1>1
  <1> QED
    BY <1>2, Invariance, PTL DEF DropIsJustified

(* Only EnsureStorage brings a volume, and only for an instance whose      *)
(* record never said that it holds data.                                   *)
THEOREM NoEmptyVolume == Spec => NoEmptyStart
  <1>1. ASSUME DatabasesInv, [Next]_vars, vol = "none", vol' = "ours"
        PROVE  ~initialized
    <2>1. CASE Requests
      BY <1>1, <2>1 DEF Requests, Begin, Commit, engine, StartRequest, StopInstance,
         ArchiveInstance, RestoreInstance, CreateRequest, PurgeRequest, Bind, Unbind,
         ArchiveStack, ArchiveDatabase, RestoreDatabase, Backup
    <2>2. CASE StartCheck \/ EnsureStorage \/ Up \/ Mark
      BY <1>1, <2>2 DEF StartCheck, EnsureStorage, Up, Mark, Started, Step, Stop, engine
    <2>3. ASSUME NEW d \in Database,
                 \/ CreateCheck(d) \/ NewSecret(d) \/ NewRecord(d) \/ CreateRole(d)
                 \/ CreateData(d) \/ Probe(d) \/ Settle(d)
          PROVE  FALSE
      BY <1>1, <2>3 DEF CreateCheck, NewSecret, NewRecord, CreateRole, CreateData, Probe,
         Settle, Step, Stop, engine
    <2>4. ASSUME NEW d \in Database,
                 \/ PurgePreview(d) \/ PurgeBackup(d) \/ PurgeAgain(d) \/ PurgeBegin(d)
                 \/ PurgeVerify(d) \/ PurgeDrop(d) \/ PurgeAdvance(d)
                 \/ PurgeVault(d) \/ PurgeForget(d)
          PROVE  FALSE
      BY <1>1, <2>4 DEF PurgePreview, PurgeBackup, PurgeAgain, PurgeBegin, PurgeVerify,
         PurgeDrop, PurgeAdvance, PurgeVault, PurgeForget, Step, Stop, engine
    <2>5. CASE \/ Fail \/ Crash \/ OutsideVolume \/ Lost \/ UNCHANGED vars
               \/ \E d \in Database : OutsideData(d) \/ OutsideRole(d)
      BY <1>1, <2>5 DEF Fail, Crash, OutsideVolume, OutsideData, OutsideRole, Lost, engine, vars
    <2> QED
      BY <1>1, <2>1, <2>2, <2>3, <2>4, <2>5 DEF Next, Work
  <1>2. ASSUME DatabasesInv, ~initialized
        PROVE  \A d \in Database : db[d].state = "none"
    BY <1>2 DEF DatabasesInv, Sound
  <1> QED
    BY <1>1, <1>2, Invariance, PTL DEF NoEmptyStart, Spec
--------------------------------------------------------------------------------
(* What NearProd made in the engine has a record that says so, until the   *)
(* purge that removed it says that too: an interrupted creation or purge   *)
(* leaves no database and no account that no command would find again.     *)
DatabaseListed ==
    \A d \in Database :
       /\ data[d] = "ours" => db[d].state # "none" /\ db[d].phase \in {"initial", "database"}
       /\ role[d] \in Password =>
             db[d].state # "none" /\ db[d].phase \in {"initial", "database", "account"}

(* A purge is never given up or begun anew: in the same mode it goes on to *)
(* the next phase, and ends with the record when the credential is gone.   *)
Later(phase) == CASE phase = "database" -> {"database", "account"}
                  [] phase = "account"  -> {"account", "metadata"}
                  [] OTHER              -> {"metadata"}
PurgeForward ==
    [][\A d \in Database : db[d].state = "purging" =>
         \/ \E p \in Later(db[d].phase) : db'[d] = [db[d] EXCEPT !.phase = p]
         \/ db[d].phase = "metadata" /\ db'[d] = NoRecord /\ vault[d] = 0]_vars

(* What the steps between a removal and the commit that says so rely on.   *)
Listed ==
    /\ \A d \in Database :
          data[d] = "ours" => db[d].state # "none" /\ db[d].phase \in {"initial", "database"}
    /\ op.at = "advance" /\ db[op.db].phase = "database" => data[op.db] # "ours"
    /\ op.at = "forget" => vault[op.db] = 0

(* A request commits to no record that is purging.                         *)
LEMMA RequestsKeepPurges ==
    ASSUME DatabasesInv, Requests, NEW d \in Database
    PROVE  /\ db'[d] = db[d] \/ /\ db[d].state = "ready" /\ db'[d].state = "ready"
                                /\ db'[d].phase = db[d].phase
           /\ UNCHANGED data
  <1> USE DEF DatabasesInv, TypeOK, Sound, Record, sql, engine, Commit, IsIdle
  <1>1. CASE StartRequest \/ \E e \in Database : CreateRequest(e)
                              \/ \E m \in Modes : PurgeRequest(e, m)
    BY <1>1 DEF StartRequest, CreateRequest, PurgeRequest, Begin
  <1>2. CASE StopInstance \/ ArchiveInstance \/ RestoreInstance
             \/ \E e \in Database : Backup(e)
    BY <1>2 DEF StopInstance, ArchiveInstance, RestoreInstance, Backup
  <1>3. ASSUME NEW e \in Database,
               \/ Bind(e) \/ Unbind(e) \/ ArchiveStack(e)
               \/ ArchiveDatabase(e) \/ RestoreDatabase(e)
        PROVE  /\ db'[d] = db[d] \/ /\ db[d].state = "ready" /\ db'[d].state = "ready"
                                    /\ db'[d].phase = db[d].phase
               /\ UNCHANGED data
    BY <1>3 DEF Bind, Unbind, ArchiveStack, ArchiveDatabase, RestoreDatabase
  <1> QED
    BY <1>1, <1>2, <1>3 DEF Requests

(* What the steps of an operation make of the record, the database and the *)
(* credential it is about.                                                 *)
LEMMA WorkCommits ==
    ASSUME DatabasesInv, Work
    PROVE  \/ UNCHANGED <<db, data, vault>> /\ op'.at \notin {"advance", "forget"}
           \/ \E d \in Database :
                \/ /\ At("secret", d) /\ op'.at = "record" /\ UNCHANGED <<db, data>>
                \/ /\ At("record", d) /\ op'.at = "role" /\ UNCHANGED <<data, vault>>
                   /\ db' = [db EXCEPT ![d] = [NoRecord EXCEPT !.state = "pending"]]
                \/ /\ At("data", d) /\ op'.at = "probe" /\ UNCHANGED <<db, vault>>
                   /\ data' = [data EXCEPT ![d] = "ours"]
                \/ /\ op.at \in {"ready", "failed"} /\ op.db = d /\ op'.at = "idle"
                   /\ db' = [db EXCEPT ![d].state = op.at] /\ UNCHANGED <<data, vault>>
                \/ /\ At("begin", d) /\ op'.at = "verify" /\ UNCHANGED <<data, vault>>
                   /\ db' = [db EXCEPT ![d].state = "purging", ![d].phase = "database",
                                       ![d].mode = op.mode]
                \/ /\ At("drop", d) /\ op'.at = "advance" /\ op'.db = d
                   /\ UNCHANGED <<db, vault>>
                   /\ \/ db[d].phase = "database" /\ data' = [data EXCEPT ![d] = "none"]
                      \/ db[d].phase # "database" /\ UNCHANGED data
                \/ /\ At("advance", d) /\ op'.at = "verify" /\ UNCHANGED <<data, vault>>
                   /\ db' = [db EXCEPT ![d].phase = IF @ = "database" THEN "account"
                                                    ELSE "metadata"]
                \/ /\ At("vault", d) /\ op'.at = "forget" /\ op'.db = d
                   /\ vault' = [vault EXCEPT ![d] = 0] /\ UNCHANGED <<db, data>>
                \/ /\ At("forget", d) /\ op'.at = "idle" /\ UNCHANGED <<data, vault>>
                   /\ db' = [db EXCEPT ![d] = NoRecord]
  <1>0. \A x : [op EXCEPT !.at = x].at = x /\ [op EXCEPT !.at = x].db = op.db
    BY DEF DatabasesInv, TypeOK, Operation
  <1> DEFINE Reads == UNCHANGED <<db, data, vault>> /\ op'.at \notin {"advance", "forget"}
  <1>13. /\ Step("check") => Reads
         /\ Step("storage") => Reads
         /\ Step("up") => Reads
         /\ Step("role") => Reads
         /\ Step("secret") => Reads
         /\ Step("ready") => Reads
         /\ Step("failed") => Reads
         /\ Step("verify") => Reads
         /\ Step("backup") => Reads
         /\ Step("begin") => Reads
         /\ Step("vault") => Reads
         /\ Step("drop") => Reads
    BY <1>0 DEF Step, Goto, sql
  <1>14. Stop => Reads
    BY DEF Stop, End, Idle, sql
  <1>15. ASSUME UNCHANGED <<db, data, vault>>,
               End \/ Goto("up") \/ Goto("mark") \/ Goto("check") \/ Goto("data") \/ Goto("again")
        PROVE  Reads
    <2>1. CASE End
      BY <1>15, <2>1 DEF End, Idle
    <2>2. CASE Goto("up") \/ Goto("mark") \/ Goto("check") \/ Goto("data") \/ Goto("again")
      BY <1>0, <1>15, <2>2 DEF Goto
    <2> QED
      BY <1>15, <2>1, <2>2
  <1>1. ASSUME StartCheck \/ EnsureStorage \/ Up \/ Mark PROVE Reads
    <2>1. CASE StartCheck
      <3>1. Stop \/ Step("check") \/ Step("storage")
        BY <2>1 DEF StartCheck, Started
      <3> HIDE DEF Reads
      <3> QED
        BY <3>1, <1>13, <1>14
    <2>2. CASE EnsureStorage
      <3>1. \/ Stop \/ Step("up")
            \/ UNCHANGED <<db, data, vault>> /\ Goto("up")
        BY <2>2 DEF EnsureStorage, sql
      <3> HIDE DEF Reads
      <3> QED
        BY <3>1, <1>13, <1>14, <1>15
    <2>3. CASE Up
      <3>1. Stop \/ (UNCHANGED <<db, data, vault>> /\ Goto("mark"))
        BY <2>3 DEF Up, sql
      <3> HIDE DEF Reads
      <3> QED
        BY <3>1, <1>14, <1>15
    <2>4. CASE Mark
      <3>1. UNCHANGED <<db, data, vault>> /\ (End \/ Goto("check"))
        BY <2>4 DEF Mark, sql
      <3> HIDE DEF Reads
      <3> QED
        BY <3>1, <1>15
    <2> QED
      BY <1>1, <2>1, <2>2, <2>3, <2>4
  <1>2. ASSUME NEW d \in Database, CreateCheck(d) \/ CreateRole(d) \/ Probe(d) PROVE Reads
    <2>1. CASE CreateCheck(d)
      <3>1. Stop \/ Step("role") \/ Step("secret")
        BY <2>1 DEF CreateCheck
      <3> HIDE DEF Reads
      <3> QED
        BY <3>1, <1>13, <1>14
    <2>2. CASE CreateRole(d)
      <3>1. UNCHANGED <<db, data, vault>> /\ Goto("data")
        BY <2>2 DEF CreateRole
      <3> HIDE DEF Reads
      <3> QED
        BY <3>1, <1>15
    <2>3. CASE Probe(d)
      <3>1. CASE data[d] = "ours" /\ role[d] = vault[d]
        <4>1. Step("ready")
          BY <2>3, <3>1 DEF Probe
        <4> QED
          BY <4>1, <1>13
      <3>2. CASE ~(data[d] = "ours" /\ role[d] = vault[d])
        <4>1. Step("failed")
          BY <2>3, <3>2 DEF Probe
        <4> QED
          BY <4>1, <1>13
      <3> QED
        BY <3>1, <3>2
    <2> QED
      BY <1>2, <2>1, <2>2, <2>3
  <1>3. ASSUME NEW d \in Database,
               PurgePreview(d) \/ PurgeBackup(d) \/ PurgeAgain(d) \/ PurgeVerify(d)
        PROVE  Reads
    <2>1. CASE PurgePreview(d)
      <3>1. Stop \/ Step("verify") \/ Step("backup") \/ Step("begin")
        BY <2>1 DEF PurgePreview
      <3> HIDE DEF Reads
      <3> QED
        BY <3>1, <1>13, <1>14
    <2>2. CASE PurgeBackup(d)
      <3>1. Stop \/ (UNCHANGED <<db, data, vault>> /\ Goto("again"))
        BY <2>2 DEF PurgeBackup
      <3> HIDE DEF Reads
      <3> QED
        BY <3>1, <1>14, <1>15
    <2>3. CASE PurgeAgain(d)
      <3>1. Stop \/ Step("begin")
        BY <2>3 DEF PurgeAgain
      <3> HIDE DEF Reads
      <3> QED
        BY <3>1, <1>13, <1>14
    <2>4. CASE PurgeVerify(d)
      <3>1. CASE ~Verified(d, db[d].phase)
        <4>1. Stop
          BY <2>4, <3>1 DEF PurgeVerify
        <4> QED
          BY <4>1, <1>14
      <3>2. CASE Verified(d, db[d].phase) /\ db[d].phase = "metadata"
        <4>1. Step("vault")
          BY <2>4, <3>2 DEF PurgeVerify
        <4> QED
          BY <4>1, <1>13
      <3>3. CASE Verified(d, db[d].phase) /\ db[d].phase # "metadata"
        <4>1. Step("drop")
          BY <2>4, <3>3 DEF PurgeVerify
        <4> QED
          BY <4>1, <1>13
      <3> QED
        BY <3>1, <3>2, <3>3
    <2> QED
      BY <1>3, <2>1, <2>2, <2>3, <2>4
  <1> USE DEF At, Step, Stop, Goto, End, Idle, Same, sql, engine
  <1>4. ASSUME NEW d \in Database, NewSecret(d)
        PROVE  At("secret", d) /\ op'.at = "record" /\ UNCHANGED <<db, data>>
    BY <1>0, <1>4 DEF NewSecret
  <1>5. ASSUME NEW d \in Database, NewRecord(d)
        PROVE  /\ At("record", d) /\ op'.at = "role" /\ UNCHANGED <<data, vault>>
               /\ db' = [db EXCEPT ![d] = [NoRecord EXCEPT !.state = "pending"]]
    BY <1>0, <1>5 DEF NewRecord
  <1>6. ASSUME NEW d \in Database, CreateData(d)
        PROVE  \/ Reads
               \/ /\ At("data", d) /\ op'.at = "probe" /\ UNCHANGED <<db, vault>>
                  /\ data' = [data EXCEPT ![d] = "ours"]
    BY <1>0, <1>6 DEF CreateData
  <1>7. ASSUME NEW d \in Database, Settle(d)
        PROVE  /\ op.at \in {"ready", "failed"} /\ op.db = d /\ op'.at = "idle"
               /\ db' = [db EXCEPT ![d].state = op.at] /\ UNCHANGED <<data, vault>>
    BY <1>0, <1>7 DEF Settle
  <1>8. ASSUME NEW d \in Database, PurgeBegin(d)
        PROVE  /\ At("begin", d) /\ op'.at = "verify" /\ UNCHANGED <<data, vault>>
               /\ db' = [db EXCEPT ![d].state = "purging", ![d].phase = "database",
                                   ![d].mode = op.mode]
    BY <1>0, <1>8 DEF PurgeBegin
  <1>9. ASSUME NEW d \in Database, PurgeDrop(d)
        PROVE  /\ At("drop", d) /\ op'.at = "advance" /\ op'.db = d
               /\ UNCHANGED <<db, vault>>
               /\ \/ db[d].phase = "database" /\ data' = [data EXCEPT ![d] = "none"]
                  \/ db[d].phase # "database" /\ UNCHANGED data
    BY <1>0, <1>9 DEF PurgeDrop
  <1>10. ASSUME NEW d \in Database, PurgeAdvance(d)
         PROVE  /\ At("advance", d) /\ op'.at = "verify" /\ UNCHANGED <<data, vault>>
                /\ db' = [db EXCEPT ![d].phase = IF @ = "database" THEN "account"
                                                 ELSE "metadata"]
    BY <1>0, <1>10 DEF PurgeAdvance
  <1>11. ASSUME NEW d \in Database, PurgeVault(d)
         PROVE  /\ At("vault", d) /\ op'.at = "forget" /\ op'.db = d
                /\ vault' = [vault EXCEPT ![d] = 0] /\ UNCHANGED <<db, data>>
    BY <1>11 DEF PurgeVault, DatabasesInv, TypeOK, Operation
  <1>12. ASSUME NEW d \in Database, PurgeForget(d)
         PROVE  /\ At("forget", d) /\ op'.at = "idle" /\ UNCHANGED <<data, vault>>
                /\ db' = [db EXCEPT ![d] = NoRecord]
    BY <1>0, <1>12 DEF PurgeForget
  <1> HIDE DEF At, Step, Stop, Goto, End, Idle, Same, sql, engine
  <1> QED
    BY <1>1, <1>2, <1>3, <1>4, <1>5, <1>6, <1>7, <1>8, <1>9, <1>10, <1>11, <1>12 DEF Work

(* The steps of an operation. *)
LEMMA WorkLists ==
    ASSUME DatabasesInv, Listed, Work
    PROVE  Listed'
  <1> USE DEF DatabasesInv, TypeOK, Working, Listed, At, Provisioning, CreateSteps, PurgeSteps
  <1>1. CASE UNCHANGED <<db, data, vault>> /\ op'.at \notin {"advance", "forget"}
    BY <1>1
  <1>2. ASSUME NEW d \in Database,
               At("secret", d) /\ op'.at = "record" /\ UNCHANGED <<db, data>>
        PROVE  Listed'
    BY <1>2
  <1>3. ASSUME NEW d \in Database,
               At("record", d), op'.at = "role", UNCHANGED <<data, vault>>,
               db' = [db EXCEPT ![d] = [NoRecord EXCEPT !.state = "pending"]]
        PROVE  Listed'
    BY <1>3 DEF NoRecord
  <1>4. ASSUME NEW d \in Database,
               At("data", d), op'.at = "probe", UNCHANGED <<db, vault>>,
               data' = [data EXCEPT ![d] = "ours"]
        PROVE  Listed'
    <2>1. db[d].state \in {"pending", "failed"} /\ db[d].phase = "initial"
      BY <1>4 DEF Record, Phases
    <2> QED
      BY <1>4, <2>1
  <1>5. ASSUME NEW d \in Database,
               op.at \in {"ready", "failed"}, op.db = d, op'.at = "idle",
               db' = [db EXCEPT ![d].state = op.at], UNCHANGED <<data, vault>>
        PROVE  Listed'
    BY <1>5 DEF Record
  <1>6. ASSUME NEW d \in Database,
               At("begin", d), op'.at = "verify", UNCHANGED <<data, vault>>,
               db' = [db EXCEPT ![d].state = "purging", ![d].phase = "database",
                                ![d].mode = op.mode]
        PROVE  Listed'
    BY <1>6 DEF Record
  <1>7. ASSUME NEW d \in Database,
               At("drop", d), op'.at = "advance", op'.db = d, UNCHANGED <<db, vault>>,
               \/ db[d].phase = "database" /\ data' = [data EXCEPT ![d] = "none"]
               \/ db[d].phase # "database" /\ UNCHANGED data
        PROVE  Listed'
    BY <1>7
  <1>8. ASSUME NEW d \in Database,
               At("advance", d), op'.at = "verify", UNCHANGED <<data, vault>>,
               db' = [db EXCEPT ![d].phase = IF @ = "database" THEN "account" ELSE "metadata"]
        PROVE  Listed'
    <2>1. data[d] # "ours"
      BY <1>8
    <2> QED
      BY <1>8, <2>1 DEF Record
  <1>9. ASSUME NEW d \in Database,
               At("vault", d), op'.at = "forget", op'.db = d,
               vault' = [vault EXCEPT ![d] = 0], UNCHANGED <<db, data>>
        PROVE  Listed'
    BY <1>9
  <1>10. ASSUME NEW d \in Database,
                At("forget", d), op'.at = "idle", UNCHANGED <<data, vault>>,
                db' = [db EXCEPT ![d] = NoRecord]
         PROVE  Listed'
    BY <1>10
  <1> HIDE DEF DatabasesInv, Listed, At
  <1> QED
    BY <1>1, <1>2, <1>3, <1>4, <1>5, <1>6, <1>7, <1>8, <1>9, <1>10, WorkCommits

(* Every step keeps it. *)
LEMMA NextListed == DatabasesInv /\ Listed /\ [Next]_vars => Listed'
  <1> SUFFICES ASSUME DatabasesInv, Listed, [Next]_vars PROVE Listed'
    OBVIOUS
  <1>1. CASE Requests
    <2>1. \A d \in Database :
             /\ db'[d] = db[d] \/ /\ db[d].state = "ready" /\ db'[d].state = "ready"
                                  /\ db'[d].phase = db[d].phase
             /\ UNCHANGED data
      BY <1>1, RequestsKeepPurges
    <2>2. op'.at \in {"idle", "start", "preview"}
      BY <1>1 DEF Requests, StartRequest, CreateRequest, PurgeRequest, Begin, StopInstance,
         ArchiveInstance, RestoreInstance, Backup, Bind, Unbind, ArchiveStack, ArchiveDatabase,
         RestoreDatabase, Commit, IsIdle
    <2> QED
      BY <2>1, <2>2 DEF Listed
  <1>2. CASE Work
    BY <1>2, WorkLists
  <1>3. CASE Fail \/ Crash
    <2>1. UNCHANGED <<db, data>> /\ op'.at \in {"idle", "failed"}
      BY <1>3 DEF Fail, Crash, Goto, End, Idle, sql, DatabasesInv, TypeOK, Operation
    <2> QED
      BY <2>1 DEF Listed
  <1>4. CASE OutsideVolume \/ \E d \in Database : OutsideData(d) \/ OutsideRole(d)
    <2>1. \A d \in Database : data'[d] = "ours" => data[d] = "ours"
      BY <1>4 DEF OutsideVolume, OutsideData, OutsideRole, DatabasesInv, TypeOK
    <2>2. UNCHANGED <<db, vault, op>>
      BY <1>4 DEF OutsideVolume, OutsideData, OutsideRole
    <2>3. op.at \in PurgeSteps => op.db \in Database
      BY DEF DatabasesInv, Working
    <2> QED
      BY <2>1, <2>2, <2>3 DEF Listed, PurgeSteps
  <1>5. CASE Lost \/ UNCHANGED vars
    BY <1>5 DEF Lost, vars, sql, Listed
  <1> QED
    BY <1>1, <1>2, <1>3, <1>4, <1>5 DEF Next

(* So it holds with the invariant. *)
LEMMA ListedHolds == Spec => [](DatabasesInv /\ Listed)
  <1>1. Init => Listed
    BY DEF Init, Listed, Idle
  <1> QED
    BY <1>1, NextListed, Invariance, PTL DEF Spec

(* No database or account of NearProd is without its record.               *)
THEOREM NothingIsOrphaned == Spec => []DatabaseListed
  <1>1. DatabasesInv /\ Listed => DatabaseListed
    BY DEF DatabasesInv, Listed, Sound, DatabaseListed, TypeOK, Record, Phases
  <1> QED
    BY <1>1, ListedHolds, PTL

(* Once PurgeDatabase has recorded that it destroys, there is one way on.  *)
THEOREM PurgesGoForward == Spec => PurgeForward
  <1> DEFINE on(d) == \/ \E p \in Later(db[d].phase) : db'[d] = [db[d] EXCEPT !.phase = p]
                      \/ db[d].phase = "metadata" /\ db'[d] = NoRecord /\ vault[d] = 0
  <1>1. ASSUME DatabasesInv, Listed, [Next]_vars, NEW d \in Database, db[d].state = "purging"
        PROVE  on(d)
    <2>0. db[d] \in Record /\ db[d].phase \in {"database", "account", "metadata"}
      BY <1>1 DEF DatabasesInv, TypeOK, Record, Phases
    <2>1. CASE db'[d] = db[d]
      <3>1. db[d].phase \in Later(db[d].phase) /\ db'[d] = [db[d] EXCEPT !.phase = db[d].phase]
        BY <2>0, <2>1 DEF Later, Record
      <3> QED
        BY <3>1
    <2>2. CASE Requests
      BY <1>1, <2>1, <2>2, RequestsKeepPurges
    <2>3. CASE Work
      <3>1. ASSUME NEW e \in Database, At("advance", e),
                   db' = [db EXCEPT ![e].phase = IF @ = "database" THEN "account"
                                                 ELSE "metadata"]
            PROVE  on(d)
        <4>1. CASE e # d
          <5>1. db'[d] = db[d]
            BY <1>1, <3>1, <4>1 DEF DatabasesInv, TypeOK
          <5> QED
            BY <2>1, <5>1
        <4>2. CASE e = d
          <5>1. db[d].phase \in {"database", "account"}
            BY <1>1, <3>1, <4>2 DEF DatabasesInv, Working, At
          <5>2. db'[d] = [db[d] EXCEPT !.phase = IF db[d].phase = "database" THEN "account"
                                                ELSE "metadata"]
            BY <1>1, <3>1, <4>2 DEF DatabasesInv, TypeOK
          <5>3. (IF db[d].phase = "database" THEN "account" ELSE "metadata")
                  \in Later(db[d].phase)
            BY <5>1 DEF Later
          <5> QED
            BY <5>2, <5>3
        <4> QED
          BY <4>1, <4>2
      <3>2. ASSUME NEW e \in Database, At("forget", e), db' = [db EXCEPT ![e] = NoRecord]
            PROVE  on(d)
        BY <1>1, <2>1, <3>2 DEF DatabasesInv, TypeOK, Working, Listed, At
      <3>3. ASSUME NEW e \in Database, db[e].state # "purging",
                   \A f \in Database \ {e} : db'[f] = db[f]
            PROVE  on(d)
        BY <1>1, <2>1, <3>3
      <3>4. \/ UNCHANGED db
            \/ \E e \in Database :
                 \/ /\ At("advance", e)
                    /\ db' = [db EXCEPT ![e].phase = IF @ = "database" THEN "account"
                                                     ELSE "metadata"]
                 \/ At("forget", e) /\ db' = [db EXCEPT ![e] = NoRecord]
                 \/ /\ op.at \in {"record", "ready", "failed", "begin"} /\ op.db = e
                    /\ \A f \in Database \ {e} : db'[f] = db[f]
        BY <1>1, <2>3, WorkCommits DEF At, DatabasesInv, TypeOK
      <3>5. op.at \in {"record", "ready", "failed", "begin"} => db[op.db].state # "purging"
        BY <1>1 DEF DatabasesInv, Working
      <3> HIDE DEF on
      <3> QED
        BY <2>1, <3>1, <3>2, <3>3, <3>4, <3>5 DEF on
    <2>4. CASE \/ Fail \/ Crash \/ OutsideVolume \/ Lost \/ UNCHANGED vars
               \/ \E e \in Database : OutsideData(e) \/ OutsideRole(e)
      BY <2>1, <2>4 DEF Fail, Crash, OutsideVolume, OutsideData, OutsideRole, Lost, vars
    <2> QED
      BY <1>1, <2>2, <2>3, <2>4 DEF Next
  <1>2. DatabasesInv /\ Listed /\ [Next]_vars =>
           [\A d \in Database : db[d].state = "purging" => on(d)]_vars
    BY <1>1
  <1> QED
    BY <1>2, ListedHolds, PTL DEF Spec, PurgeForward
--------------------------------------------------------------------------------
(* Why an operation ends.  How many steps it has before it at most: the    *)
(* creation passes through its steps once, the purge through three of them *)
(* for every phase that is left.                                           *)
Ahead ==
    CASE op.at = "preview" -> 15
      [] op.at = "backup"  -> 14
      [] op.at = "again"   -> 13
      [] op.at = "start"   -> 12
      [] op.at = "begin"   -> 12
      [] op.at = "storage" -> 11
      [] op.at = "up"      -> 10
      [] op.at = "mark"    -> 9
      [] op.at = "check"   -> 8
      [] op.at = "secret"  -> 7
      [] op.at = "record"  -> 6
      [] op.at = "role"    -> 5
      [] op.at = "data"    -> 4
      [] op.at = "probe"   -> 3
      [] op.at \in {"ready", "failed"} -> 2
      [] op.at = "verify"  -> IF db[op.db].phase = "database" THEN 11
                              ELSE IF db[op.db].phase = "account" THEN 8 ELSE 5
      [] op.at = "drop"    -> IF db[op.db].phase = "database" THEN 10 ELSE 7
      [] op.at = "advance" -> IF db[op.db].phase = "database" THEN 9 ELSE 6
      [] op.at = "vault"   -> 4
      [] op.at = "forget"  -> 3
      [] OTHER             -> 0

(* An operation takes at most fifteen steps, whatever fails and whatever   *)
(* administrators do meanwhile: no loop of Start, CreateDatabase or        *)
(* PurgeDatabase goes on for ever.                                         *)
OperationIsFinite ==
    [][/\ Work => Ahead' < Ahead
       /\ ~IsIdle => Ahead' <= Ahead
       /\ Ahead' <= 15]_vars

(* The steps that follow each other, and what the record says when the     *)
(* purge turns.                                                            *)
Follows(i, j) ==
    \/ i = "start" /\ j \in {"storage", "check"}
    \/ i = "storage" /\ j = "up"
    \/ i = "up" /\ j = "mark"
    \/ i = "mark" /\ j = "check"
    \/ i = "check" /\ j \in {"secret", "role"}
    \/ i = "secret" /\ j = "record"
    \/ i = "record" /\ j = "role"
    \/ i = "role" /\ j = "data"
    \/ i = "data" /\ j \in {"probe", "failed"}
    \/ i = "probe" /\ j \in {"ready", "failed"}
    \/ i = "preview" /\ j \in {"backup", "begin"}
    \/ i = "backup" /\ j = "again"
    \/ i = "again" /\ j = "begin"
    \/ i = "vault" /\ j = "forget"

Turns(i, j, before, after) ==
    \/ i \in {"preview", "begin"} /\ j = "verify"
    \/ i = "verify" /\ j = "drop" /\ before # "metadata" /\ after = before
    \/ i = "verify" /\ j = "vault" /\ before = "metadata"
    \/ i = "drop" /\ j = "advance" /\ after = before
    \/ i = "advance" /\ j = "verify" /\ before = "database" /\ after = "account"
    \/ i = "advance" /\ j = "verify" /\ before = "account" /\ after = "metadata"

(* Each of them leaves fewer steps. *)
LEMMA FewerAhead ==
    ASSUME DatabasesInv, op.at # "idle",
           \/ op'.at = "idle"
           \/ Follows(op.at, op'.at)
           \/ op'.db = op.db /\ Turns(op.at, op'.at, db[op.db].phase, db'[op.db].phase)
    PROVE  Ahead' < Ahead
  <1> DEFINE phase == db[op.db].phase
  <1>1. op.at \in PurgeSteps => phase \in {"initial", "database", "account", "metadata"}
    BY DEF DatabasesInv, TypeOK, Working, Record, Phases
  <1>2. op.at = "verify" => phase # "initial"
    BY DEF DatabasesInv, TypeOK, Working, PurgeSteps
  <1>3. op.at = "drop" => phase \in {"database", "account"}
    BY DEF DatabasesInv, Working
  <1>4. op.at \in StartSteps \cup CreateSteps \cup PurgeSteps
    BY DEF DatabasesInv, TypeOK, Operation
  <1>5. CASE op'.at = "idle"
    BY <1>4, <1>5 DEF Ahead, StartSteps, CreateSteps, PurgeSteps
  <1>6. CASE Follows(op.at, op'.at)
    BY <1>6 DEF Follows, Ahead
  <1>7. CASE op'.db = op.db /\ Turns(op.at, op'.at, db[op.db].phase, db'[op.db].phase)
    BY <1>1, <1>2, <1>3, <1>7 DEF Turns, Ahead, PurgeSteps
  <1> QED
    BY <1>5, <1>6, <1>7

(* The steps of Start and of CreateDatabase. *)
LEMMA CreateMoves ==
    ASSUME DatabasesInv,
           \/ StartCheck \/ EnsureStorage \/ Up \/ Mark
           \/ \E d \in Database :
                 \/ CreateCheck(d) \/ NewSecret(d) \/ NewRecord(d) \/ CreateRole(d)
                 \/ CreateData(d) \/ Probe(d) \/ Settle(d)
    PROVE  op.at # "idle" /\ (op'.at = "idle" \/ Follows(op.at, op'.at))
  <1>0. \A x : [op EXCEPT !.at = x].at = x
    BY DEF DatabasesInv, TypeOK, Operation
  <1>11. /\ Goto("check") => op'.at = "check"
         /\ Goto("storage") => op'.at = "storage"
         /\ Goto("up") => op'.at = "up"
         /\ Goto("mark") => op'.at = "mark"
         /\ Goto("secret") => op'.at = "secret"
         /\ Goto("record") => op'.at = "record"
         /\ Goto("role") => op'.at = "role"
         /\ Goto("data") => op'.at = "data"
         /\ Goto("probe") => op'.at = "probe"
         /\ Goto("ready") => op'.at = "ready"
         /\ Goto("failed") => op'.at = "failed"
    BY <1>0 DEF Goto
  <1>12. End => op'.at = "idle"
    BY DEF End, Idle
  <1> USE <1>11, <1>12 DEF At, Step, Stop
  <1>2. CASE StartCheck
    BY <1>2 DEF StartCheck, Started, Follows
  <1>3. CASE EnsureStorage
    BY <1>3 DEF EnsureStorage, Follows
  <1>4. CASE Up
    BY <1>4 DEF Up, Follows
  <1>5. CASE Mark
    BY <1>5 DEF Mark, Follows
  <1>6. ASSUME NEW d \in Database, CreateCheck(d)
        PROVE  op.at # "idle" /\ (op'.at = "idle" \/ Follows(op.at, op'.at))
    BY <1>6 DEF CreateCheck, Follows
  <1>7. ASSUME NEW d \in Database, NewSecret(d) \/ NewRecord(d) \/ CreateRole(d)
        PROVE  op.at # "idle" /\ Follows(op.at, op'.at)
    BY <1>7 DEF NewSecret, NewRecord, CreateRole, Follows
  <1>8. ASSUME NEW d \in Database, CreateData(d)
        PROVE  op.at # "idle" /\ Follows(op.at, op'.at)
    BY <1>8 DEF CreateData, Follows
  <1>9. ASSUME NEW d \in Database, Probe(d)
        PROVE  op.at # "idle" /\ Follows(op.at, op'.at)
    <2>1. Goto("ready") \/ Goto("failed")
      BY <1>9 DEF Probe
    <2> QED
      BY <1>9, <2>1 DEF Probe, Follows
  <1>10. ASSUME NEW d \in Database, Settle(d)
         PROVE  op.at # "idle" /\ op'.at = "idle"
    BY <1>10 DEF Settle
  <1> QED
    BY <1>2, <1>3, <1>4, <1>5, <1>6, <1>7, <1>8, <1>9, <1>10

(* The steps of PurgeDatabase. *)
LEMMA PurgeMoves ==
    ASSUME DatabasesInv, NEW d \in Database,
           \/ PurgePreview(d) \/ PurgeBackup(d) \/ PurgeAgain(d) \/ PurgeBegin(d)
           \/ PurgeVerify(d) \/ PurgeDrop(d) \/ PurgeAdvance(d)
           \/ PurgeVault(d) \/ PurgeForget(d)
    PROVE  /\ op.at # "idle"
           /\ \/ op'.at = "idle"
              \/ Follows(op.at, op'.at)
              \/ op'.db = op.db /\ Turns(op.at, op'.at, db[op.db].phase, db'[op.db].phase)
  <1>0. \A x : [op EXCEPT !.at = x].at = x /\ [op EXCEPT !.at = x].db = op.db
    BY DEF DatabasesInv, TypeOK, Operation
  <1>1. Idle.at = "idle"
    BY DEF Idle
  <1> USE <1>0, <1>1 DEF At, Step, Stop, Goto, End
  <1>2. ASSUME PurgePreview(d)
        PROVE  /\ op.at = "preview"
               /\ \/ op'.at = "idle"
                  \/ op'.at \in {"backup", "begin", "verify"} /\ op'.db = op.db
    <2>1. \/ Stop \/ Goto("backup") \/ Goto("begin") \/ Goto("verify")
      BY <1>2 DEF PurgePreview
    <2>2. op.at = "preview"
      BY <1>2 DEF PurgePreview
    <2>3. Stop => op'.at = "idle"
      OBVIOUS
    <2>4. Goto("backup") => op'.at = "backup" /\ op'.db = op.db
      OBVIOUS
    <2>5. Goto("begin") => op'.at = "begin" /\ op'.db = op.db
      OBVIOUS
    <2>6. Goto("verify") => op'.at = "verify" /\ op'.db = op.db
      OBVIOUS
    <2> HIDE DEF Stop, Goto
    <2> QED
      BY <2>1, <2>2, <2>3, <2>4, <2>5, <2>6
  <1>3. ASSUME PurgeBackup(d)
        PROVE  op.at = "backup" /\ op'.at \in {"idle", "again"}
    BY <1>3 DEF PurgeBackup
  <1>4. ASSUME PurgeAgain(d)
        PROVE  op.at = "again" /\ op'.at \in {"idle", "begin"}
    BY <1>4 DEF PurgeAgain
  <1>5. ASSUME PurgeBegin(d)
        PROVE  op.at = "begin" /\ op'.at = "verify" /\ op'.db = op.db
    BY <1>5 DEF PurgeBegin
  <1>6. ASSUME PurgeVerify(d)
        PROVE  /\ op.at = "verify"
               /\ \/ op'.at = "idle"
                  \/ op'.db = op.db /\ Turns("verify", op'.at, db[op.db].phase, db'[op.db].phase)
    <2>1. CASE Step("vault") /\ At("verify", d) /\ db[d].phase = "metadata"
      BY <2>1 DEF Turns
    <2>2. CASE Step("drop") /\ At("verify", d) /\ db[d].phase # "metadata"
      BY <2>2 DEF Turns
    <2>3. CASE Stop /\ At("verify", d)
      BY <2>3
    <2> HIDE DEF At, Step, Stop
    <2> QED
      BY <1>6, <2>1, <2>2, <2>3 DEF PurgeVerify
  <1>7. ASSUME PurgeDrop(d)
        PROVE  /\ op.at = "drop" /\ op'.db = op.db
               /\ Turns("drop", op'.at, db[op.db].phase, db'[op.db].phase)
    BY <1>7 DEF PurgeDrop, Turns
  <1>8. ASSUME PurgeAdvance(d)
        PROVE  /\ op.at = "advance" /\ op'.db = op.db
               /\ Turns("advance", op'.at, db[op.db].phase, db'[op.db].phase)
    <2>1. db[d] \in Record /\ db[d].phase \in {"database", "account"} /\ op.db = d
      BY <1>8 DEF PurgeAdvance, DatabasesInv, TypeOK, Working
    <2>2. db'[d].phase = IF db[d].phase = "database" THEN "account" ELSE "metadata"
      BY <1>8, <2>1 DEF PurgeAdvance, DatabasesInv, TypeOK, Record
    <2>3. op.at = "advance" /\ op'.at = "verify" /\ op'.db = d
      BY <1>8 DEF PurgeAdvance
    <2> QED
      BY <2>1, <2>2, <2>3 DEF Turns
  <1>9. ASSUME PurgeVault(d) PROVE op.at = "vault" /\ op'.at = "forget"
    BY <1>9 DEF PurgeVault, DatabasesInv, TypeOK, Operation
  <1>10. ASSUME PurgeForget(d) PROVE op.at = "forget" /\ op'.at = "idle"
    BY <1>10 DEF PurgeForget
  <1> HIDE <1>0, <1>1 DEF At, Step, Stop, Goto, End
  <1> QED
    BY <1>2, <1>3, <1>4, <1>5, <1>6, <1>7, <1>8, <1>9, <1>10 DEF Follows, Turns

(* Operations of the infrastructure end, for any number of databases. *)
THEOREM OperationsAreFinite == Spec => OperationIsFinite
  <1>1. ASSUME DatabasesInv, Work PROVE Ahead' < Ahead
    <2>1. /\ op.at # "idle"
          /\ \/ op'.at = "idle"
             \/ Follows(op.at, op'.at)
             \/ op'.db = op.db /\ Turns(op.at, op'.at, db[op.db].phase, db'[op.db].phase)
      BY <1>1, CreateMoves, PurgeMoves DEF Work
    <2> QED
      BY <1>1, <2>1, FewerAhead
  <1>2. ASSUME DatabasesInv, ~IsIdle, [Next]_vars, ~Work PROVE Ahead' <= Ahead
    <2>1. CASE Requests
      BY <1>2, <2>1 DEF Requests, StartRequest, CreateRequest, PurgeRequest, Begin, Commit,
         StopInstance, ArchiveInstance, RestoreInstance, Backup, Bind, Unbind, ArchiveStack,
         ArchiveDatabase, RestoreDatabase
    <2>2. CASE Crash \/ Fail
      <3>1. op'.at = "idle" \/ (op'.at = "failed" /\ op.at \in {"role", "data", "probe"})
        BY <1>2, <2>2 DEF Crash, Fail, Goto, End, Idle, DatabasesInv, TypeOK, Operation
      <3>2. Ahead \in Nat
        BY DEF Ahead
      <3> QED
        BY <3>1, <3>2 DEF Ahead
    <2>3. CASE \/ OutsideVolume \/ Lost \/ UNCHANGED vars
               \/ \E e \in Database : OutsideData(e) \/ OutsideRole(e)
      <3>1. UNCHANGED <<op, db>>
        BY <2>3 DEF OutsideVolume, Lost, vars, OutsideData, OutsideRole
      <3>2. Ahead' = Ahead /\ Ahead \in Nat
        BY <3>1 DEF Ahead
      <3> QED
        BY <3>2
    <2> QED
      BY <1>2, <2>1, <2>2, <2>3 DEF Next
  <1>3. Ahead \in Nat /\ Ahead' <= 15
    BY DEF Ahead
  <1>4. ASSUME DatabasesInv, [Next]_vars
        PROVE  /\ Work => Ahead' < Ahead
               /\ ~IsIdle => Ahead' <= Ahead
               /\ Ahead' <= 15
    <2>1. Ahead' \in Nat
      BY DEF Ahead
    <2> HIDE DEF Ahead
    <2> QED
      BY <1>1, <1>2, <1>3, <1>4, <2>1
  <1>5. DatabasesInv /\ [Next]_vars =>
          [/\ Work => Ahead' < Ahead
           /\ ~IsIdle => Ahead' <= Ahead
           /\ Ahead' <= 15]_vars
    BY <1>4
  <1> QED
    BY <1>5, Invariance, PTL DEF Spec, OperationIsFinite
================================================================================
