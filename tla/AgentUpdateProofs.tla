-------------------------- MODULE AgentUpdateProofs --------------------------
(***************************************************************************)
(* Theorems about AgentUpdate for any number of agents, updaters and       *)
(* versions, and any bounds: one writer of the catalog, no work cut by an  *)
(* update, a handoff consumed only by the version it names and not lost    *)
(* otherwise, no damaged executable left in place, no lock left behind and *)
(* an end to every update.                                                 *)
(***************************************************************************)
EXTENDS AgentUpdate, TLAPS

(* Whoever works under the agent lock holds it. *)
Holders ==
    /\ \A a \in Agent : OwnsCatalog(a) => lock = a
    /\ \A u \in Updater : OwnsUpdate(u) => lock = u

(* An updater knows its version, whom it stops and what it would put back. *)
Planned ==
    \A u \in Updater :
        /\ up[u].at # "idle" => up[u].target \in Version
        /\ up[u].at = "stop" => up[u].asked \in Agent
        /\ up[u].at \in {"rename", "verify", "record"} =>
              up[u].prior \in Version \cup {Bad} /\ (up[u].prior = Bad => damaged)

UpdateInv ==
    TypeOK /\ Holders /\ Planned /\ ConsumesItsOwn /\ UpdateCutsNothing /\ NoBadLeft
--------------------------------------------------------------------------------
(* What the steps make of the state of an agent is a state of an agent. *)
LEMMA AgentStates ==
    /\ Off \in AgentState
    /\ \A s \in AgentState :
          /\ \A x \in AgentAt : [s EXCEPT !.at = x] \in AgentState
          /\ \A w \in {"none", "op", "watch"} : [s EXCEPT !.work = w] \in AgentState
          /\ \A c \in {"no", "user", "update"} : [s EXCEPT !.closed = c] \in AgentState
          /\ \A x \in AgentAt, t \in BOOLEAN : [s EXCEPT !.at = x, !.took = t] \in AgentState
          /\ \A x \in AgentAt, v \in Version : [s EXCEPT !.at = x, !.version = v] \in AgentState
  <1>1. Off \in AgentState
    BY DEF Off, AgentState, AgentAt
  <1>2. ASSUME NEW s \in AgentState, NEW x \in AgentAt
        PROVE  /\ [s EXCEPT !.at = x] \in AgentState
               /\ \A t \in BOOLEAN : [s EXCEPT !.at = x, !.took = t] \in AgentState
               /\ \A v \in Version : [s EXCEPT !.at = x, !.version = v] \in AgentState
    BY <1>2 DEF AgentState
  <1>3. ASSUME NEW s \in AgentState
        PROVE  /\ \A w \in {"none", "op", "watch"} : [s EXCEPT !.work = w] \in AgentState
               /\ \A c \in {"no", "user", "update"} : [s EXCEPT !.closed = c] \in AgentState
    BY <1>3 DEF AgentState
  <1> QED
    BY <1>1, <1>2, <1>3

(* The agents after a turn of one of them. *)
LEMMA AgentTurns ==
    ASSUME ag \in [Agent -> AgentState], NEW a \in Agent, NEW s \in AgentState, Turn(a, s)
    PROVE  ag' \in [Agent -> AgentState]
  BY DEF Turn

(* A new process is a spawned one in a slot that was free. *)
LEMMA SpawnedAgent ==
    ASSUME NEW v, Spawn(v)
    PROVE  \/ UNCHANGED ag
           \/ \E a \in Agent : /\ ag[a].at = "off" /\ v # Bad
                               /\ ag' = [ag EXCEPT ![a] = [Off EXCEPT !.at = "spawned",
                                                                      !.version = v]]
  <1>1. CASE v = Bad
    BY <1>1 DEF Spawn
  <1>2. CASE v # Bad
    <2>1. (CHOOSE a \in Free : TRUE) \in Free
      BY <1>2 DEF Spawn
    <2> QED
      BY <1>2, <2>1 DEF Spawn, Turn, Free
  <1> QED
    BY <1>1, <1>2

(* At first nobody runs and the installed file is one of the versions. *)
LEMMA InitType == Init => TypeOK
  <1> SUFFICES ASSUME Init PROVE TypeOK
    OBVIOUS
  <1>1. ag \in [Agent -> AgentState]
    BY AgentStates DEF Init
  <1>2. up \in [Updater -> UpdaterState]
    BY DEF Init, Idle, UpdaterState, UpdaterAt
  <1>3. /\ installed \in Version \cup {Bad} /\ handoff \in Version \cup {None}
        /\ lock \in Agent \cup Updater \cup {None} /\ meta \in Agent \cup {None}
        /\ damaged \in BOOLEAN
    BY ConstantsAssumption DEF Init
  <1>4. faults \in 0 .. MaxFaults /\ acts \in 0 .. MaxActs
    BY ConstantsAssumption DEF Init
  <1> QED
    BY <1>1, <1>2, <1>3, <1>4 DEF TypeOK

(* What an agent does keeps the types. *)
LEMMA AgentType ==
    ASSUME TypeOK, NEW a \in Agent, AgentStep(a) \/ AgentEvent(a)
    PROVE  TypeOK'
  <1>1. ag' \in [Agent -> AgentState]
    <2> USE AgentStates, AgentTurns
    <2>1. CASE AgentLock(a) \/ AgentOpen(a) \/ AgentPublish(a)
      BY <2>1 DEF TypeOK, AgentLock, AgentOpen, AgentPublish, AgentAt
    <2>2. CASE AgentServe(a) \/ WorkEnds(a) \/ AgentClose(a) \/ AgentRelease(a)
      BY <2>2 DEF TypeOK, AgentServe, WorkEnds, AgentClose, AgentRelease, AgentAt
    <2>3. CASE AgentFail(a) \/ AgentDies(a) \/ UserStops(a) \/ Terminate(a)
      BY <2>3 DEF TypeOK, AgentFail, AgentDies, UserStops, Terminate, AgentAt
    <2>4. CASE \E w \in {"op", "watch"} : WorkBegins(a, w)
      BY <2>4 DEF TypeOK, WorkBegins
    <2> QED
      BY <2>1, <2>2, <2>3, <2>4 DEF AgentStep, AgentEvent
  <1>2. /\ up' = up /\ installed' = installed /\ damaged' = damaged
        /\ meta' \in {meta, a, None} /\ handoff' \in {handoff, None}
        /\ lock' \in {lock, a, None}
    BY DEF AgentStep, AgentEvent, disk, bounds, Released, AgentLock, AgentOpen, AgentPublish,
           AgentServe, WorkEnds, AgentClose, AgentRelease, AgentFail, AgentDies, UserStops,
           Terminate, WorkBegins
  <1>3. UNCHANGED bounds \/ Fault \/ Act
    BY DEF AgentStep, AgentEvent, AgentLock, AgentOpen, AgentPublish, AgentServe, WorkEnds,
           AgentClose, AgentRelease, AgentFail, AgentDies, UserStops, Terminate, WorkBegins
  <1>4. faults' \in 0 .. MaxFaults /\ acts' \in 0 .. MaxActs
    BY <1>3, ConstantsAssumption DEF bounds, Fault, Act, TypeOK
  <1> QED
    BY <1>1, <1>2, <1>4 DEF TypeOK

(* What the steps make of the state of an updater is one. *)
LEMMA UpdaterStates ==
    /\ Idle \in UpdaterState
    /\ \A x \in UpdaterAt, i \in Version, t \in Version :
          [Idle EXCEPT !.at = x, !.image = i, !.target = t] \in UpdaterState
    /\ \A s \in UpdaterState, x \in UpdaterAt :
          /\ [s EXCEPT !.at = x] \in UpdaterState
          /\ \A b \in Version \cup {Bad} : /\ [s EXCEPT !.at = x, !.prev = b] \in UpdaterState
                                           /\ [s EXCEPT !.at = x, !.prior = b] \in UpdaterState
          /\ \A a \in Agent : [s EXCEPT !.at = x, !.asked = a] \in UpdaterState
          /\ [s EXCEPT !.at = x, !.asked = None, !.running = TRUE] \in UpdaterState
          /\ \A r \in BOOLEAN : [s EXCEPT !.at = x, !.running = r] \in UpdaterState
  <1>1. Idle \in UpdaterState
    BY DEF Idle, UpdaterState, UpdaterAt
  <1>2. ASSUME NEW x \in UpdaterAt, NEW i \in Version, NEW t \in Version
        PROVE  [Idle EXCEPT !.at = x, !.image = i, !.target = t] \in UpdaterState
    BY <1>1 DEF UpdaterState
  <1>3. ASSUME NEW s \in UpdaterState, NEW x \in UpdaterAt
        PROVE  /\ [s EXCEPT !.at = x] \in UpdaterState
               /\ \A b \in Version \cup {Bad} : [s EXCEPT !.at = x, !.prev = b] \in UpdaterState
               /\ \A b \in Version \cup {Bad} : [s EXCEPT !.at = x, !.prior = b] \in UpdaterState
    BY DEF UpdaterState
  <1>4. ASSUME NEW s \in UpdaterState, NEW x \in UpdaterAt
        PROVE  /\ \A a \in Agent : [s EXCEPT !.at = x, !.asked = a] \in UpdaterState
               /\ [s EXCEPT !.at = x, !.asked = None, !.running = TRUE] \in UpdaterState
               /\ \A r \in BOOLEAN : [s EXCEPT !.at = x, !.running = r] \in UpdaterState
    BY DEF UpdaterState
  <1> QED
    BY <1>1, <1>2, <1>3, <1>4

(* The updaters after a step of one of them. *)
LEMMA UpdaterGoes ==
    ASSUME up \in [Updater -> UpdaterState], NEW u \in Updater, NEW s \in UpdaterState, Go(u, s)
    PROVE  up' \in [Updater -> UpdaterState]
  BY DEF Go

(* What an updater does keeps the type of its state. *)
LEMMA UpdaterType ==
    ASSUME TypeOK, NEW u \in Updater, UpdateBegin(u) \/ UpdateStep(u) \/ UpdateEvent(u)
    PROVE  up' \in [Updater -> UpdaterState]
  <1> USE UpdaterStates, UpdaterGoes
  <1>1. CASE UpdateBegin(u)
    <2>1. installed \in Version /\ Target(installed) \in Version
      BY <1>1, ConstantsAssumption DEF UpdateBegin, TypeOK, Target
    <2>2. (IF installed < Latest THEN "digest" ELSE "find") \in UpdaterAt
      BY DEF UpdaterAt
    <2> QED
      BY <1>1, <2>1, <2>2 DEF UpdateBegin, TypeOK
  <1>2. CASE UpdateDigest(u) \/ UpdateFind(u)
    BY <1>2 DEF UpdateDigest, UpdateFind, TypeOK, Step, Live, UpdaterAt
  <1>3. CASE UpdateStop(u)
    BY <1>3 DEF UpdateStop, TypeOK, UpdaterAt
  <1>4. CASE UpdateWait(u) \/ UpdateLock(u) \/ UpdateHandoffFails(u)
    BY <1>4 DEF UpdateWait, UpdateLock, UpdateHandoffFails, Fail, End, TypeOK, Step, UpdaterAt
  <1>5. CASE UpdateHandoff(u)
    <2>1. /\ (IF Replaces(u) THEN "install" ELSE "finish") \in UpdaterAt
          /\ (up[u].running \/ handoff # None) \in BOOLEAN
      BY DEF UpdaterAt
    <2> QED
      BY <1>5, <2>1 DEF UpdateHandoff, TypeOK
  <1>6. CASE InstallRead(u) \/ InstallRename(u) \/ InstallVerify(u) \/ InstallRecord(u)
             \/ InstallRecordFails(u)
    BY <1>6 DEF InstallRead, InstallRename, InstallVerify, InstallRecord, InstallRecordFails,
                TypeOK, Step, UpdaterAt
  <1>7. CASE UpdateFinish(u) \/ UpdateStart(u) \/ UpdatePoll(u) \/ UpdaterDies(u)
    BY <1>7 DEF UpdateFinish, UpdateStart, UpdatePoll, UpdaterDies, End, TypeOK, Step, UpdaterAt
  <1>8. CASE Recover(u) \/ RecoverLock(u) \/ RecoverRetarget(u)
    BY <1>8 DEF Recover, RecoverLock, RecoverRetarget, TypeOK, Step, UpdaterAt
  <1> QED
    BY <1>1, <1>2, <1>3, <1>4, <1>5, <1>6, <1>7, <1>8 DEF UpdateStep, UpdateEvent
--------------------------------------------------------------------------------
(* What each kind of step leaves alone. *)
LEMMA AgentFrame ==
    ASSUME TypeOK, NEW a \in Agent, AgentStep(a) \/ AgentEvent(a)
    PROVE  /\ up' = up /\ installed' = installed /\ damaged' = damaged
           /\ \A b \in Agent \ {a} : ag'[b] = ag[b]
           /\ lock' = lock \/ lock' = Released(a) \/ (lock = None /\ lock' = a)
  BY DEF AgentStep, AgentEvent, disk, bounds, TypeOK, Turn, AgentLock, AgentOpen, AgentPublish,
         AgentServe, WorkEnds, AgentClose, AgentRelease, AgentFail, AgentDies, UserStops,
         Terminate, WorkBegins

(* An updater changes agents in two ways only: it closes one, or starts a  *)
(* process.                                                                *)
LEMMA UpdaterFrame ==
    ASSUME TypeOK, NEW u \in Updater, UpdateBegin(u) \/ UpdateStep(u) \/ UpdateEvent(u)
    PROVE  /\ \A w \in Updater \ {u} : up'[w] = up[w]
           /\ lock' = lock \/ lock' = Released(u) \/ (lock = None /\ lock' = u)
           /\ ag' = ag \/ UpdateStop(u) \/ Spawn(installed)
  <1>1. \A w \in Updater \ {u} : up'[w] = up[w]
    BY DEF UpdateBegin, UpdateStep, UpdateEvent, TypeOK, Go, Step, End, Fail, UpdateDigest,
           UpdateFind, UpdateStop, UpdateWait, UpdateLock, UpdateHandoff, InstallRead,
           InstallRename, InstallVerify, InstallRecord, UpdateFinish, UpdateStart, UpdatePoll,
           Recover, RecoverLock, RecoverRetarget, UpdateHandoffFails, InstallRecordFails,
           UpdaterDies
  <1>2. lock' = lock \/ lock' = Released(u) \/ (lock = None /\ lock' = u)
    BY DEF UpdateBegin, UpdateStep, UpdateEvent, disk, End, Fail, UpdateDigest,
           UpdateFind, UpdateStop, UpdateWait, UpdateLock, UpdateHandoff, InstallRead,
           InstallRename, InstallVerify, InstallRecord, UpdateFinish, UpdateStart, UpdatePoll,
           Recover, RecoverLock, RecoverRetarget, UpdateHandoffFails, InstallRecordFails,
           UpdaterDies
  <1>3. ag' = ag \/ UpdateStop(u) \/ Spawn(installed)
    BY DEF UpdateBegin, UpdateStep, UpdateEvent, UpdateDigest,
           UpdateFind, UpdateWait, UpdateLock, UpdateHandoff, InstallRead,
           InstallRename, InstallVerify, InstallRecord, UpdateFinish, UpdateStart, UpdatePoll,
           Recover, RecoverLock, RecoverRetarget, UpdateHandoffFails, InstallRecordFails,
           UpdaterDies
  <1> QED
    BY <1>1, <1>2, <1>3

(* An update begins with a target and without the lock. *)
LEMMA Beginning ==
    ASSUME TypeOK, NEW u \in Updater, UpdateBegin(u)
    PROVE  up'[u].at \in {"digest", "find"} /\ up'[u].target \in Version
  <1> DEFINE s == [Idle EXCEPT !.at = IF installed < Latest THEN "digest" ELSE "find",
                               !.image = installed, !.target = Target(installed)]
  <1>1. s.at \in {"digest", "find"} /\ s.target = Target(installed)
    BY DEF Idle
  <1>2. up'[u] = s
    BY DEF UpdateBegin, TypeOK, Go
  <1>3. Target(installed) \in Version
    BY ConstantsAssumption DEF UpdateBegin, TypeOK, Target
  <1> QED
    BY <1>1, <1>2, <1>3

(* Looking for an agent leaves the plan as it is, or ends the update. *)
LEMMA Finding ==
    ASSUME TypeOK, NEW u \in Updater, UpdateFind(u)
    PROVE  /\ up[u].at = "find" /\ up'[u].at \in {"idle", "stop", "lock"}
           /\ up'[u].at # "idle" => up'[u].target = up[u].target
           /\ up'[u].at = "stop" => up'[u].asked \in Agent
  <1>1. CASE Live = {} /\ Step(u, "lock")
    BY <1>1 DEF TypeOK, UpdaterState, Step, Go, UpdateFind
  <1>2. ASSUME NEW a \in Live, ag[a].work = "watch", Go(u, Idle)
        PROVE  up'[u].at = "idle"
    BY <1>2 DEF TypeOK, Go, Idle
  <1>3. ASSUME NEW a \in Live, Go(u, [up[u] EXCEPT !.at = "stop", !.asked = a])
        PROVE  up'[u].at = "stop" /\ up'[u].target = up[u].target /\ up'[u].asked = a
    BY <1>3 DEF TypeOK, UpdaterState, Go
  <1> QED
    BY <1>1, <1>2, <1>3 DEF UpdateFind, Live

(* So does asking it to stop. *)
LEMMA Stopping ==
    ASSUME TypeOK, NEW u \in Updater, UpdateStop(u)
    PROVE  /\ up[u].at = "stop" /\ up'[u].at \in {"idle", "wait"} /\ UNCHANGED <<lock, damaged>>
           /\ up'[u].at # "idle" => up'[u].target = up[u].target
  <1>1. CASE Go(u, Idle)
    BY <1>1 DEF TypeOK, Go, Idle, UpdateStop
  <1>2. CASE Go(u, [up[u] EXCEPT !.at = "wait", !.asked = None, !.running = TRUE])
    BY <1>2 DEF TypeOK, UpdaterState, Go, UpdateStop
  <1> QED
    BY <1>1, <1>2 DEF UpdateStop

(* A process that is started owns nothing yet. *)
LEMMA SpawnFrame ==
    ASSUME TypeOK, NEW v, Spawn(v), NEW b \in Agent
    PROVE  ag'[b] = ag[b] \/ (ag'[b].at = "spawned" /\ ag'[b].closed = "no")
  <1>1. CASE UNCHANGED ag
    BY <1>1
  <1>2. ASSUME NEW a \in Agent,
               ag' = [ag EXCEPT ![a] = [Off EXCEPT !.at = "spawned", !.version = v]]
        PROVE  (ag'[b].at = "spawned" /\ ag'[b].closed = "no") \/ ag'[b] = ag[b]
    BY <1>2 DEF TypeOK, Off
  <1> QED
    BY <1>1, <1>2, SpawnedAgent

(* Who is not off goes on as it was. *)
LEMMA SpawnKeeps ==
    ASSUME TypeOK, NEW v, Spawn(v), NEW b \in Agent, ag[b].at # "off"
    PROVE  ag'[b] = ag[b]
  <1>1. ASSUME NEW a \in Agent, ag[a].at = "off",
               ag' = [ag EXCEPT ![a] = [Off EXCEPT !.at = "spawned", !.version = v]]
        PROVE  ag'[b] = ag[b]
    BY <1>1 DEF TypeOK
  <1> QED
    BY <1>1, SpawnedAgent

(* A process that is started has taken no handoff. *)
LEMMA SpawnTakes ==
    ASSUME TypeOK, NEW v, Spawn(v), NEW b \in Agent
    PROVE  ag'[b] = ag[b] \/ ~ag'[b].took
  <1>1. ASSUME NEW a \in Agent,
               ag' = [ag EXCEPT ![a] = [Off EXCEPT !.at = "spawned", !.version = v]]
        PROVE  ag'[b] = ag[b] \/ ~ag'[b].took
    BY <1>1 DEF TypeOK, Off
  <1> QED
    BY <1>1, SpawnedAgent

(* No step lets anyone work under the lock without holding it. *)
LEMMA HoldersStep ==
    ASSUME TypeOK, Holders, [Next]_vars
    PROVE  Holders'
  <1>1. ASSUME NEW a \in Agent, AgentStep(a) \/ AgentEvent(a)
        PROVE  Holders'
    <2>1. OwnsCatalog(a)' => lock' = a
      BY <1>1 DEF AgentStep, AgentEvent, TypeOK, AgentState, Holders, OwnsCatalog, Turn, Off,
             disk, AgentLock, AgentOpen, AgentPublish, AgentServe, WorkEnds, AgentClose,
             AgentRelease, AgentFail, AgentDies, UserStops, Terminate, WorkBegins
    <2> QED
      BY <1>1, <2>1, AgentFrame, ConstantsAssumption DEF Holders, OwnsCatalog, OwnsUpdate, Released
  <1>2. ASSUME NEW u \in Updater, UpdateBegin(u) \/ UpdateStep(u) \/ UpdateEvent(u)
        PROVE  Holders'
    <2>1. OwnsUpdate(u)' => lock' = u
      <3> USE DEF TypeOK, UpdaterState, Holders, OwnsUpdate, Go, Step, Idle, disk
      <3>1. CASE UpdateBegin(u) \/ UpdateFind(u) \/ UpdateStop(u)
        BY <3>1, Beginning, Finding, Stopping
      <3>7. CASE UpdateDigest(u)
        BY <3>7 DEF UpdateDigest
      <3>2. CASE UpdateWait(u) \/ UpdateLock(u) \/ UpdateHandoff(u) \/ UpdateHandoffFails(u)
        BY <3>2 DEF UpdateWait, UpdateLock, UpdateHandoff, UpdateHandoffFails, Fail, End
      <3>3. CASE InstallRead(u) \/ InstallRename(u) \/ InstallVerify(u)
        BY <3>3 DEF InstallRead, InstallRename, InstallVerify
      <3>4. CASE InstallRecord(u) \/ InstallRecordFails(u)
        BY <3>4 DEF InstallRecord, InstallRecordFails
      <3>5. CASE UpdateFinish(u) \/ UpdateStart(u) \/ UpdatePoll(u) \/ UpdaterDies(u)
        BY <3>5 DEF UpdateFinish, UpdateStart, UpdatePoll, UpdaterDies, End
      <3>6. CASE Recover(u) \/ RecoverLock(u) \/ RecoverRetarget(u)
        BY <3>6 DEF Recover, RecoverLock, RecoverRetarget
      <3> QED
        BY <1>2, <3>1, <3>2, <3>3, <3>4, <3>5, <3>6, <3>7 DEF UpdateStep, UpdateEvent
    <2>2. ASSUME NEW b \in Agent, OwnsCatalog(b)'
          PROVE  OwnsCatalog(b)
      <3>1. CASE UpdateStop(u)
        BY <2>2, <3>1 DEF UpdateStop, Turn, TypeOK, AgentState, OwnsCatalog
      <3>2. CASE ag' = ag
        BY <2>2, <3>2 DEF OwnsCatalog
      <3>3. CASE Spawn(installed)
        BY <2>2, <3>3, SpawnFrame DEF OwnsCatalog
      <3> QED
        BY <1>2, <3>1, <3>2, <3>3, UpdaterFrame
    <2> QED
      BY <1>2, <2>1, <2>2, UpdaterFrame, ConstantsAssumption DEF Holders, OwnsUpdate, Released
  <1>3. ASSUME NEW v \in Version, Launch(v) \/ Install(v)
        PROVE  Holders'
    <2>1. ASSUME NEW b \in Agent
          PROVE  OwnsCatalog(b)' => OwnsCatalog(b)
      BY <1>3, SpawnFrame DEF OwnsCatalog, Launch, Install
    <2> QED
      BY <1>3, <2>1 DEF Holders, OwnsUpdate, Launch, Install, disk
  <1>4. CASE UNCHANGED vars
    BY <1>4 DEF vars, Holders, OwnsCatalog, OwnsUpdate
  <1> QED
    BY <1>1, <1>2, <1>3, <1>4 DEF Next, Rest

(* The lock has one holder, and agents are not updaters. *)
LEMMA HoldersAreOne == ASSUME Holders PROVE OneOwner
  BY ConstantsAssumption DEF Holders, OneOwner
--------------------------------------------------------------------------------
(* An updater that has begun knows its target, and installs over a damaged *)
(* file only when somebody failed to put the previous one back.            *)
LEMMA PlannedStep ==
    ASSUME TypeOK, Holders, Planned, NoBadLeft, [Next]_vars
    PROVE  Planned'
  <1> DEFINE P(u) == /\ up[u].at # "idle" => up[u].target \in Version
                     /\ up[u].at = "stop" => up[u].asked \in Agent
                     /\ up[u].at \in {"rename", "verify", "record"} =>
                           up[u].prior \in Version \cup {Bad} /\ (up[u].prior = Bad => damaged)
  <1>1. ASSUME NEW u \in Updater, UpdateBegin(u) \/ UpdateStep(u) \/ UpdateEvent(u)
        PROVE  P(u)' /\ (damaged => damaged')
    <2> USE DEF TypeOK, UpdaterState, Planned, Go, Step, Idle, disk
    <2>1. CASE UpdateBegin(u)
      BY <2>1, Beginning DEF UpdateBegin
    <2>9. CASE UpdateFind(u) \/ UpdateStop(u)
      <3>1. up[u].target \in Version
        BY <2>9, Finding, Stopping
      <3> QED
        BY <2>9, <3>1, Finding, Stopping DEF UpdateFind
    <2>2. CASE UpdateDigest(u)
      BY <2>2 DEF UpdateDigest
    <2>10. CASE UpdateHandoff(u)
      <3>1. up'[u].at \in {"install", "finish"} /\ up'[u].target = up[u].target
        BY <2>10 DEF UpdateHandoff
      <3> QED
        BY <2>10, <3>1 DEF UpdateHandoff
    <2>3. CASE UpdateWait(u) \/ UpdateLock(u) \/ UpdateHandoffFails(u)
      BY <2>3 DEF UpdateWait, UpdateLock, UpdateHandoffFails, Fail, End
    <2>4. CASE InstallRead(u)
      <3>1. installed = Bad => damaged
        <4>1. \A w \in Updater : up[w].at # "verify"
          BY <2>4, HoldersAreOne DEF InstallRead, OneOwner, OwnsUpdate
        <4> QED
          BY <4>1 DEF NoBadLeft
      <3> QED
        BY <2>4, <3>1 DEF InstallRead
    <2>5. CASE InstallRename(u) \/ InstallVerify(u)
      BY <2>5 DEF InstallRename, InstallVerify, Rollback
    <2>6. CASE InstallRecord(u) \/ InstallRecordFails(u)
      BY <2>6 DEF InstallRecord, InstallRecordFails
    <2>7. CASE UpdateFinish(u) \/ UpdateStart(u) \/ UpdatePoll(u) \/ UpdaterDies(u)
      BY <2>7 DEF UpdateFinish, UpdateStart, UpdatePoll, UpdaterDies, End
    <2>8. CASE Recover(u) \/ RecoverLock(u) \/ RecoverRetarget(u)
      BY <2>8 DEF Recover, RecoverLock, RecoverRetarget
    <2> QED
      BY <1>1, <2>1, <2>2, <2>3, <2>4, <2>5, <2>6, <2>7, <2>8, <2>9, <2>10 DEF UpdateStep,
         UpdateEvent
  <1>2. ASSUME NEW u \in Updater, UpdateBegin(u) \/ UpdateStep(u) \/ UpdateEvent(u)
        PROVE  Planned'
    BY <1>1, <1>2, UpdaterFrame DEF Planned
  <1>3. ASSUME NEW a \in Agent, AgentStep(a) \/ AgentEvent(a)
        PROVE  Planned'
    BY <1>3, AgentFrame DEF Planned
  <1>4. ASSUME NEW v \in Version, Launch(v) \/ Install(v)
        PROVE  Planned'
    BY <1>4 DEF Planned, Launch, Install
  <1>5. CASE UNCHANGED vars
    BY <1>5 DEF vars, Planned
  <1> QED
    BY <1>2, <1>3, <1>4, <1>5 DEF Next, Rest
--------------------------------------------------------------------------------
(* A new process has the state of an agent. *)
LEMMA SpawnType ==
    ASSUME TypeOK, NEW v \in Version \cup {Bad}, Spawn(v)
    PROVE  ag' \in [Agent -> AgentState]
  <1>1. CASE UNCHANGED ag
    BY <1>1 DEF TypeOK
  <1>2. ASSUME NEW a \in Agent, v # Bad,
               ag' = [ag EXCEPT ![a] = [Off EXCEPT !.at = "spawned", !.version = v]]
        PROVE  ag' \in [Agent -> AgentState]
    <2>1. "spawned" \in AgentAt /\ v \in Version
      BY <1>2 DEF AgentAt
    <2>2. [Off EXCEPT !.at = "spawned", !.version = v] \in AgentState
      BY <2>1, AgentStates
    <2> QED
      BY <1>2, <2>2 DEF TypeOK
  <1> QED
    BY <1>1, <1>2, SpawnedAgent

(* What an updater does keeps the types of the rest of the state. *)
LEMMA UpdaterKeepsType ==
    ASSUME TypeOK, Planned, NEW u \in Updater, UpdateBegin(u) \/ UpdateStep(u) \/ UpdateEvent(u)
    PROVE  TypeOK'
  <1>1. up' \in [Updater -> UpdaterState]
    BY UpdaterType
  <1>2. ag' \in [Agent -> AgentState]
    <2>1. CASE UpdateStop(u)
      BY <2>1, AgentStates, AgentTurns DEF UpdateStop, TypeOK, Planned
    <2>2. CASE Spawn(installed)
      BY <2>2, SpawnType DEF TypeOK
    <2> QED
      BY <2>1, <2>2, UpdaterFrame DEF TypeOK
  <1>3. lock' \in Agent \cup Updater \cup {None}
    BY UpdaterFrame DEF TypeOK, Released
  <1>4. installed' \in Version \cup {Bad} /\ damaged' \in BOOLEAN
    BY DEF TypeOK, Planned, UpdateBegin, UpdateStep, UpdateEvent, disk, End, Fail, UpdateDigest,
           UpdateFind, UpdateStop, UpdateWait, UpdateLock, UpdateHandoff, InstallRead,
           InstallRename, InstallVerify, Rollback, InstallRecord, UpdateFinish, UpdateStart,
           UpdatePoll, Recover, RecoverLock, RecoverRetarget, UpdateHandoffFails,
           InstallRecordFails, UpdaterDies
  <1>5. meta' = meta /\ handoff' \in {handoff, None, up[u].target, up[u].image}
    BY DEF UpdateBegin, UpdateStep, UpdateEvent, disk, UpdateDigest,
           UpdateFind, UpdateStop, UpdateWait, UpdateLock, UpdateHandoff, InstallRead,
           InstallRename, InstallVerify, InstallRecord, UpdateFinish, UpdateStart,
           UpdatePoll, Recover, RecoverLock, RecoverRetarget, UpdateHandoffFails,
           InstallRecordFails, UpdaterDies
  <1>6. handoff' \in Version \cup {None} /\ meta' \in Agent \cup {None}
    BY <1>5 DEF TypeOK, UpdaterState
  <1>7. UNCHANGED bounds \/ Fault \/ Act
    BY DEF UpdateBegin, UpdateStep, UpdateEvent, UpdateDigest, GivesUp, bounds,
           UpdateFind, UpdateStop, UpdateWait, UpdateLock, UpdateHandoff, InstallRead,
           InstallRename, InstallVerify, Rollback, InstallRecord, UpdateFinish, UpdateStart,
           UpdatePoll, Recover, RecoverLock, RecoverRetarget, UpdateHandoffFails,
           InstallRecordFails, UpdaterDies
  <1>8. faults' \in 0 .. MaxFaults /\ acts' \in 0 .. MaxActs
    BY <1>7, ConstantsAssumption DEF bounds, Fault, Act, TypeOK
  <1> QED
    BY <1>1, <1>2, <1>3, <1>4, <1>6, <1>8 DEF TypeOK

(* Every step keeps the types. *)
LEMMA TypeStep ==
    ASSUME TypeOK, Planned, [Next]_vars
    PROVE  TypeOK'
  <1>1. ASSUME NEW v \in Version, Launch(v)
        PROVE  TypeOK'
    <2>1. ag' \in [Agent -> AgentState]
      BY <1>1, SpawnType DEF Launch
    <2>2. faults' \in 0 .. MaxFaults /\ acts' \in 0 .. MaxActs
      BY <1>1, ConstantsAssumption DEF Launch, Act, TypeOK
    <2> QED
      BY <1>1, <2>1, <2>2 DEF TypeOK, Launch, disk
  <1>2. ASSUME NEW v \in Version, Install(v)
        PROVE  TypeOK'
    <2>1. faults' \in 0 .. MaxFaults /\ acts' \in 0 .. MaxActs
      BY <1>2, ConstantsAssumption DEF Install, Act, bounds, TypeOK
    <2> QED
      BY <1>2, <2>1 DEF TypeOK, Install
  <1>3. CASE UNCHANGED vars
    BY <1>3 DEF vars, TypeOK
  <1> QED
    BY <1>1, <1>2, <1>3, AgentType, UpdaterKeepsType DEF Next, Rest
--------------------------------------------------------------------------------
(* Only who holds the lock changes a handoff that an agent has read. *)
LEMMA ConsumesStep ==
    ASSUME TypeOK, Holders, Planned, ConsumesItsOwn, [Next]_vars
    PROVE  ConsumesItsOwn'
  <1> DEFINE Reading(a) == ag[a].at \in {"open", "published"} /\ Handoffs(ag[a].version)
             Read(a) == handoff = IF ag[a].took THEN ag[a].version ELSE None
  <1>1. ASSUME NEW a \in Agent, AgentStep(a) \/ AgentEvent(a), NEW b \in Agent, Reading(b)'
        PROVE  Read(b)'
    <2>1. CASE b = a
      <3> USE <1>1, <2>1 DEF TypeOK, AgentState, Turn, Off, disk, ConsumesItsOwn
      <3>1. CASE AgentOpen(a)
        <4>1. ~Refused(a)
          BY <3>1 DEF AgentOpen
        <4>2. ag'[a] = [ag[a] EXCEPT !.at = "open",
                                     !.took = Handoffs(ag[a].version) /\ handoff # None]
          BY <3>1, <4>1 DEF AgentOpen
        <4>3. handoff' = handoff /\ ag'[a].version = ag[a].version
          BY <3>1, <4>1, <4>2 DEF AgentOpen
        <4>4. ag'[a].took = (Handoffs(ag[a].version) /\ handoff # None)
          BY <4>2
        <4> QED
          BY <4>1, <4>3, <4>4 DEF Refused, Handoffs
      <3>2. CASE AgentPublish(a)
        BY <3>2 DEF AgentPublish, Handoffs
      <3>3. CASE AgentLock(a) \/ AgentServe(a) \/ WorkEnds(a) \/ AgentClose(a) \/ AgentRelease(a)
        BY <3>3 DEF AgentLock, AgentServe, WorkEnds, AgentClose, AgentRelease
      <3>4. CASE AgentEvent(a)
        BY <3>4 DEF AgentEvent, AgentFail, AgentDies, UserStops, Stoppable, Terminate, WorkBegins
      <3> QED
        BY <1>1, <3>1, <3>2, <3>3, <3>4 DEF AgentStep
    <2>2. CASE b # a
      <3>1. ag'[b] = ag[b]
        BY <1>1, <2>2, AgentFrame
      <3>2. ~AgentServe(a)
        BY <1>1, <2>2, <3>1, HoldersAreOne DEF AgentServe, OneOwner, OwnsCatalog
      <3>3. handoff' = handoff
        BY <1>1, <3>2 DEF AgentStep, AgentEvent, disk, AgentLock, AgentOpen, AgentPublish,
              WorkEnds, AgentClose, AgentRelease, AgentFail, AgentDies, UserStops, Terminate,
              WorkBegins
      <3> QED
        BY <1>1, <3>1, <3>3 DEF ConsumesItsOwn, Handoffs
    <2> QED
      BY <2>1, <2>2
  <1>2. ASSUME NEW u \in Updater, UpdateBegin(u) \/ UpdateStep(u) \/ UpdateEvent(u),
               NEW b \in Agent, Reading(b)'
        PROVE  Read(b)'
    <2>1. ag'[b] = ag[b]
      <3>1. CASE UpdateStop(u)
        BY <1>2, <3>1 DEF UpdateStop, Turn, Stoppable, TypeOK, AgentState
      <3>2. CASE Spawn(installed)
        BY <1>2, <3>2, SpawnFrame
      <3> QED
        BY <1>2, <3>1, <3>2, UpdaterFrame
    <2>2. ~UpdateHandoff(u) /\ ~RecoverRetarget(u)
      BY <1>2, <2>1, HoldersAreOne
      DEF UpdateHandoff, RecoverRetarget, OneOwner, OwnsCatalog, OwnsUpdate
    <2>3. UpdateStop(u) => handoff' = handoff
      BY <1>2, <2>1, HoldersAreOne
      DEF UpdateStop, Stoppable, Planned, OneOwner, OwnsCatalog
    <2>4. handoff' = handoff
      BY <1>2, <2>2, <2>3
      DEF UpdateBegin, UpdateStep, UpdateEvent, disk, UpdateDigest, UpdateFind, UpdateWait,
          UpdateLock, InstallRead, InstallRename, InstallVerify, InstallRecord, UpdateFinish,
          UpdateStart, UpdatePoll, Recover, RecoverLock, UpdateHandoffFails,
          InstallRecordFails, UpdaterDies
    <2> QED
      BY <1>2, <2>1, <2>4 DEF ConsumesItsOwn, Handoffs
  <1>3. ASSUME NEW v \in Version, Launch(v) \/ Install(v), NEW b \in Agent, Reading(b)'
        PROVE  Read(b)'
    <2>1. ag'[b] = ag[b] /\ handoff' = handoff
      BY <1>3, SpawnFrame DEF Launch, Install, disk
    <2> QED
      BY <1>3, <2>1 DEF ConsumesItsOwn, Handoffs
  <1>4. CASE UNCHANGED vars
    BY <1>4 DEF vars, ConsumesItsOwn, Handoffs
  <1> QED
    BY <1>1, <1>2, <1>3, <1>4 DEF Next, Rest, ConsumesItsOwn
--------------------------------------------------------------------------------
(* Neither the request of an updater nor the work of an agent brings both  *)
(* together.                                                               *)
LEMMA CutsStep ==
    ASSUME TypeOK, Planned, UpdateCutsNothing, [Next]_vars
    PROVE  UpdateCutsNothing'
  <1> DEFINE Cut(a) == ag[a].closed = "update" /\ Handoffs(ag[a].version) /\ ag[a].work # "none"
  <1>1. ASSUME NEW a \in Agent, AgentStep(a) \/ AgentEvent(a)
        PROVE  UpdateCutsNothing'
    <2>1. ~Cut(a)'
      <3> USE <1>1 DEF TypeOK, AgentState, Turn, Off, Handoffs, UpdateCutsNothing
      <3>1. CASE AgentLock(a) \/ AgentPublish(a)
        BY <3>1 DEF AgentLock, AgentPublish
      <3>4. CASE AgentOpen(a)
        <4>1. \/ ag'[a] = Off
              \/ /\ ag'[a].closed = ag[a].closed /\ ag'[a].work = ag[a].work
                 /\ ag'[a].version = ag[a].version
          BY <3>4 DEF AgentOpen
        <4> QED
          BY <4>1
      <3>2. CASE AgentServe(a) \/ WorkEnds(a) \/ AgentClose(a) \/ AgentRelease(a)
        BY <3>2 DEF AgentServe, WorkEnds, AgentClose, AgentRelease
      <3>3. CASE AgentEvent(a)
        BY <3>3 DEF AgentEvent, AgentFail, AgentDies, UserStops, Terminate, WorkBegins
      <3> QED
        BY <1>1, <3>1, <3>2, <3>3, <3>4 DEF AgentStep
    <2> QED
      BY <1>1, <2>1, AgentFrame DEF UpdateCutsNothing, Handoffs
  <1>2. ASSUME NEW u \in Updater, UpdateBegin(u) \/ UpdateStep(u) \/ UpdateEvent(u)
        PROVE  UpdateCutsNothing'
    <2>1. CASE UpdateStop(u)
      BY <2>1 DEF UpdateStop, Stoppable, Turn, TypeOK, AgentState, Handoffs, UpdateCutsNothing
    <2>2. CASE Spawn(installed)
      BY <2>2, SpawnFrame DEF UpdateCutsNothing, Handoffs
    <2>3. CASE ag' = ag
      BY <2>3 DEF UpdateCutsNothing, Handoffs
    <2> QED
      BY <1>2, <2>1, <2>2, <2>3, UpdaterFrame
  <1>3. ASSUME NEW v \in Version, Launch(v) \/ Install(v)
        PROVE  UpdateCutsNothing'
    BY <1>3, SpawnFrame DEF Launch, Install, UpdateCutsNothing, Handoffs
  <1>4. CASE UNCHANGED vars
    BY <1>4 DEF vars, UpdateCutsNothing, Handoffs
  <1> QED
    BY <1>1, <1>2, <1>3, <1>4 DEF Next, Rest

(* Whoever puts a damaged file in place verifies it, and does not leave    *)
(* before it has put the previous one back or failed to.                   *)
LEMMA BadStep ==
    ASSUME TypeOK, Planned, NoBadLeft, [Next]_vars
    PROVE  NoBadLeft'
  <1>1. ASSUME NEW u \in Updater, UpdateBegin(u) \/ UpdateStep(u) \/ UpdateEvent(u),
               installed' = Bad, ~damaged'
        PROVE  \E w \in Updater : up'[w].at = "verify"
    <2> USE DEF TypeOK, UpdaterState, Go, Step, disk
    <2>1. CASE InstallRename(u)
      <3>1. CASE up[u].prior = Bad /\ installed = Bad
        BY <1>1, <2>1, <3>1 DEF InstallRename, Planned
      <3>2. CASE up'[u].at = "verify"
        BY <3>2
      <3>3. CASE installed # up[u].prior /\ installed' = installed
        <4>1. PICK w \in Updater : up[w].at = "verify"
          BY <1>1, <2>1, <3>3 DEF InstallRename, NoBadLeft
        <4>2. w # u
          BY <2>1, <4>1 DEF InstallRename
        <4> QED
          BY <1>1, <4>1, <4>2, UpdaterFrame
      <3> QED
        BY <2>1, <3>1, <3>2, <3>3 DEF InstallRename
    <2>2. CASE InstallVerify(u)
      BY <1>1, <2>2, ConstantsAssumption DEF InstallVerify, Rollback, Planned
    <2>3. CASE InstallRecordFails(u)
      BY <1>1, <2>3 DEF InstallRecordFails, Planned
    <2>4. CASE UpdaterDies(u)
      <3>1. installed = Bad /\ ~damaged /\ up[u].at # "verify"
        BY <1>1, <2>4 DEF UpdaterDies
      <3> QED
        BY <1>1, <3>1, UpdaterFrame DEF NoBadLeft
    <2>5. CASE ~InstallRename(u) /\ ~InstallVerify(u) /\ ~InstallRecordFails(u) /\ ~UpdaterDies(u)
      <3>1. installed' = installed /\ damaged' = damaged /\ up[u].at # "verify"
        BY <1>1, <2>5
        DEF UpdateBegin, UpdateStep, UpdateEvent, UpdateDigest, UpdateFind, UpdateStop,
            UpdateWait, UpdateLock, UpdateHandoff, InstallRead, InstallRecord, UpdateFinish,
            UpdateStart, UpdatePoll, Recover, RecoverLock, RecoverRetarget, UpdateHandoffFails
      <3> QED
        BY <1>1, <3>1, UpdaterFrame DEF NoBadLeft
    <2> QED
      BY <2>1, <2>2, <2>3, <2>4, <2>5
  <1>2. ASSUME NEW a \in Agent, AgentStep(a) \/ AgentEvent(a)
        PROVE  NoBadLeft'
    BY <1>2, AgentFrame DEF NoBadLeft
  <1>3. ASSUME NEW v \in Version, Launch(v) \/ Install(v)
        PROVE  NoBadLeft'
    BY <1>3, ConstantsAssumption DEF NoBadLeft, Launch, Install, disk
  <1>4. CASE UNCHANGED vars
    BY <1>4 DEF vars, NoBadLeft
  <1> QED
    BY <1>1, <1>2, <1>3, <1>4 DEF Next, Rest, NoBadLeft
--------------------------------------------------------------------------------
(* The invariant that all the theorems come from. *)
LEMMA UpdateSound == Spec => []UpdateInv
  <1>1. Init => UpdateInv
    <2>1. ASSUME Init
          PROVE  Holders /\ Planned /\ ConsumesItsOwn /\ UpdateCutsNothing /\ NoBadLeft
      BY <2>1, ConstantsAssumption
      DEF Init, Off, Idle, Holders, OwnsCatalog, OwnsUpdate, Planned, ConsumesItsOwn,
          UpdateCutsNothing, NoBadLeft, Handoffs
    <2> QED
      BY <2>1, InitType DEF UpdateInv
  <1>2. UpdateInv /\ [Next]_vars => UpdateInv'
    BY TypeStep, HoldersStep, PlannedStep, ConsumesStep, CutsStep, BadStep DEF UpdateInv
  <1> QED
    BY <1>1, <1>2, PTL DEF Spec

(* Every process of the agent and of the updates is where the model says.  *)
THEOREM UpdateTypes == Spec => []TypeOK
  <1>1. UpdateInv => TypeOK
    BY DEF UpdateInv
  <1> QED
    BY <1>1, UpdateSound, PTL

(* The catalog has one writer, whatever starts, dies or gives up waiting   *)
(* (AcquireAgentLock and everything done under it).                        *)
THEOREM OneWriter == Spec => []OneOwner
  <1>1. UpdateInv => OneOwner
    BY HoldersAreOne DEF UpdateInv
  <1> QED
    BY <1>1, UpdateSound, PTL

(* No agent with a handoff is closed by an update while it works           *)
(* (prepareStop and the admission of requests).                            *)
THEOREM NoWorkIsCut == Spec => []UpdateCutsNothing
  <1>1. UpdateInv => UpdateCutsNothing
    BY DEF UpdateInv
  <1> QED
    BY <1>1, UpdateSound, PTL

(* Between StartAgent's reading of the handoff and its removal nobody      *)
(* changes it, and it names that agent's version.                          *)
THEOREM HandoffIsItsOwn == Spec => []ConsumesItsOwn
  <1>1. UpdateInv => ConsumesItsOwn
    BY DEF UpdateInv
  <1> QED
    BY <1>1, UpdateSound, PTL

(* A damaged executable stays only if putting the previous one back failed *)
(* or died (installBinaryVersionVerified).                                 *)
THEOREM NothingBadIsLeft == Spec => []NoBadLeft
  <1>1. UpdateInv => NoBadLeft
    BY DEF UpdateInv
  <1> QED
    BY <1>1, UpdateSound, PTL
--------------------------------------------------------------------------------
(* Who changes a handoff that stands: the agent it names, which serves and *)
(* thereby pays what an update owes; an updater under the lock; or the     *)
(* agent that stops for an updater.  It is never dropped: whatever fails   *)
(* or dies, the agent that was stopped stays owed (agent_update.go).       *)
HandoffIsOwed ==
    [][handoff # None /\ handoff' # handoff =>
         \/ \E a \in Agent :
              /\ ag[a].version = handoff /\ lock = a
              /\ ag'[a].at = "serving" /\ handoff' = None
         \/ \E u \in Updater :
              /\ handoff' \in {up[u].target, up[u].image} \ {None}
              /\ \/ lock = u
                 \/ \E a \in Agent : lock = a /\ ag'[a].closed = "update"]_vars

(* How many steps an updater has before it at most.                        *)
Ahead(u) ==
    CASE up[u].at = "digest"   -> 16
      [] up[u].at = "find"     -> 15
      [] up[u].at = "stop"     -> 14
      [] up[u].at = "wait"     -> 13
      [] up[u].at = "lock"     -> 12
      [] up[u].at = "handoff"  -> 11
      [] up[u].at = "install"  -> 10
      [] up[u].at = "rename"   -> 9
      [] up[u].at = "verify"   -> 8
      [] up[u].at = "record"   -> 7
      [] up[u].at = "finish"   -> 6
      [] up[u].at = "recover"  -> 5
      [] up[u].at = "again"    -> 4
      [] up[u].at = "retarget" -> 3
      [] up[u].at = "start"    -> 2
      [] up[u].at = "poll"     -> 1
      [] OTHER                 -> 0

(* The recovery of an update is not itself recovered and nothing is tried  *)
(* twice: nearprod update takes at most sixteen steps, whatever agents and *)
(* other updaters do.                                                      *)
UpdateIsFinite ==
    [][\A u \in Updater :
         /\ UpdateStep(u) => Ahead(u)' < Ahead(u)
         /\ up[u].at # "idle" => Ahead(u)' <= Ahead(u)]_vars

(* The lock never outlives what it is for: who has it works under it, or   *)
(* gives it back with the next step.  A path of Apply, of the recovery or  *)
(* of StartAgent that forgot it would lock every later agent out.          *)
LockHasOwner ==
    /\ \A a \in Agent : lock = a => OwnsCatalog(a)
    /\ \A u \in Updater : lock = u => OwnsUpdate(u) \/ up[u].at = "recover"

(* The lock is taken and left with the step it is for. *)
LEMMA LockStep ==
    ASSUME TypeOK, Holders, LockHasOwner, [Next]_vars
    PROVE  LockHasOwner'
  <1>0. /\ \A a \in Agent : a # None
        /\ \A u \in Updater : u # None
        /\ \A a \in Agent, u \in Updater : a # u
    BY ConstantsAssumption
  <1>1. ASSUME NEW a \in Agent, AgentStep(a) \/ AgentEvent(a)
        PROVE  LockHasOwner'
    <2>1. lock' = a => OwnsCatalog(a)'
      <3> USE <1>0 DEF TypeOK, AgentState, LockHasOwner, OwnsCatalog, Turn, Off, disk, Released
      <3>1. CASE AgentLock(a)
        BY <3>1 DEF AgentLock
      <3>2. CASE AgentOpen(a)
        <4>1. CASE Refused(a)
          BY <3>2, <4>1 DEF AgentOpen
        <4>2. CASE ~Refused(a)
          <5>1. ag'[a] = [ag[a] EXCEPT !.at = "open",
                                       !.took = Handoffs(ag[a].version) /\ handoff # None]
            BY <3>2, <4>2 DEF AgentOpen
          <5> QED
            BY <5>1
        <4> QED
          BY <4>1, <4>2
      <3>3. CASE AgentPublish(a) \/ AgentServe(a) \/ WorkEnds(a) \/ AgentClose(a)
        BY <3>3 DEF AgentPublish, AgentServe, WorkEnds, AgentClose
      <3>4. CASE AgentRelease(a) \/ AgentFail(a) \/ AgentDies(a)
        BY <3>4 DEF AgentRelease, AgentFail, AgentDies
      <3>5. CASE UserStops(a) \/ Terminate(a)
        BY <3>5 DEF UserStops, Stoppable, Terminate
      <3>6. CASE \E w \in {"op", "watch"} : WorkBegins(a, w)
        BY <3>6 DEF WorkBegins
      <3> QED
        BY <1>1, <3>1, <3>2, <3>3, <3>4, <3>5, <3>6 DEF AgentStep, AgentEvent
    <2> QED
      BY <1>0, <1>1, <2>1, AgentFrame DEF LockHasOwner, OwnsCatalog, OwnsUpdate, Released
  <1>2. ASSUME NEW u \in Updater, UpdateBegin(u) \/ UpdateStep(u) \/ UpdateEvent(u)
        PROVE  LockHasOwner'
    <2>1. lock' = u => OwnsUpdate(u)' \/ up'[u].at = "recover"
      <3> USE <1>0 DEF TypeOK, UpdaterState, LockHasOwner, OwnsUpdate, Go, Step, Idle, disk,
         Released
      <3>1. CASE UpdateBegin(u) \/ UpdateFind(u) \/ UpdateStop(u)
        <4>1. lock' = lock /\ up[u].at \in {"idle", "find", "stop"}
          BY <3>1 DEF UpdateBegin, UpdateFind, UpdateStop
        <4> QED
          BY <4>1
      <3>2. CASE UpdateDigest(u)
        BY <3>2 DEF UpdateDigest
      <3>3. CASE UpdateWait(u) \/ UpdateLock(u)
        BY <3>3 DEF UpdateWait, UpdateLock, Fail, End
      <3>4. CASE UpdateHandoff(u)
        BY <3>4 DEF UpdateHandoff
      <3>5. CASE UpdateHandoffFails(u)
        BY <3>5 DEF UpdateHandoffFails, Fail, End
      <3>6. CASE InstallRead(u) \/ InstallRename(u) \/ InstallVerify(u)
        <4>1. ASSUME InstallRead(u) PROVE up'[u].at = "rename"
          BY <4>1 DEF InstallRead
        <4>2. ASSUME InstallRename(u) PROVE up'[u].at \in {"recover", "verify"}
          BY <4>2 DEF InstallRename
        <4>3. ASSUME InstallVerify(u) PROVE up'[u].at \in {"recover", "record"}
          BY <4>3 DEF InstallVerify
        <4> QED
          BY <3>6, <4>1, <4>2, <4>3
      <3>7. CASE InstallRecord(u) \/ InstallRecordFails(u)
        BY <3>7 DEF InstallRecord, InstallRecordFails
      <3>8. CASE UpdateFinish(u) \/ UpdateStart(u) \/ UpdatePoll(u) \/ UpdaterDies(u)
        BY <3>8 DEF UpdateFinish, UpdateStart, UpdatePoll, UpdaterDies, End
      <3>9. CASE Recover(u) \/ RecoverLock(u) \/ RecoverRetarget(u)
        BY <3>9 DEF Recover, RecoverLock, RecoverRetarget
      <3> QED
        BY <1>2, <3>1, <3>2, <3>3, <3>4, <3>5, <3>6, <3>7, <3>8, <3>9 DEF UpdateStep, UpdateEvent
    <2>2. ASSUME NEW b \in Agent, lock = b, OwnsCatalog(b)
          PROVE  OwnsCatalog(b)'
      <3>1. CASE UpdateStop(u)
        BY <2>2, <3>1 DEF UpdateStop, Turn, TypeOK, AgentState, OwnsCatalog
      <3>2. CASE ag' = ag
        BY <2>2, <3>2 DEF OwnsCatalog
      <3>3. CASE Spawn(installed)
        BY <2>2, <3>3, SpawnKeeps DEF OwnsCatalog
      <3> QED
        BY <1>2, <3>1, <3>2, <3>3, UpdaterFrame
    <2> QED
      BY <1>0, <1>2, <2>1, <2>2, UpdaterFrame DEF LockHasOwner, OwnsUpdate, Released
  <1>3. ASSUME NEW v \in Version, Launch(v) \/ Install(v)
        PROVE  LockHasOwner'
    <2>1. UNCHANGED <<lock, up>> /\ (ag' = ag \/ Spawn(v))
      BY <1>3 DEF Launch, Install, disk
    <2>2. ASSUME NEW b \in Agent, OwnsCatalog(b) PROVE OwnsCatalog(b)'
      BY <2>1, <2>2, SpawnKeeps DEF OwnsCatalog
    <2> QED
      BY <2>1, <2>2 DEF LockHasOwner, OwnsUpdate
  <1>4. CASE UNCHANGED vars
    BY <1>4 DEF vars, LockHasOwner, OwnsCatalog, OwnsUpdate
  <1> QED
    BY <1>1, <1>2, <1>3, <1>4 DEF Next, Rest

(* Nobody keeps the agent lock who does not work under it. *)
THEOREM LockIsGivenBack == Spec => []LockHasOwner
  <1>1. Init => LockHasOwner
    BY ConstantsAssumption DEF Init, LockHasOwner
  <1>2. UpdateInv /\ LockHasOwner /\ [Next]_vars => LockHasOwner'
    BY LockStep DEF UpdateInv
  <1> QED
    BY <1>1, <1>2, UpdateSound, PTL DEF Spec

(* A handoff and those who deal with it are of versions that have one.     *)
Named ==
    /\ handoff \notin Legacy
    /\ \A a \in Agent : ag[a].took => Handoffs(ag[a].version)
    /\ \A u \in Updater : up[u].at # "idle" =>
          up[u].image \in Version \ Legacy /\ up[u].target \in Version \ Legacy

(* An update keeps its versions until it ends. *)
LEMMA PlanKept ==
    ASSUME TypeOK, NEW u \in Updater, UpdateStep(u) \/ UpdateEvent(u)
    PROVE  \/ up'[u].at = "idle"
           \/ /\ up[u].at # "idle"
              /\ up'[u].image = up[u].image /\ up'[u].target = up[u].target
  <1> USE DEF TypeOK, UpdaterState, Go, Step, Idle
  <1>1. CASE UpdateFind(u)
    <2>1. CASE Live = {} /\ Step(u, "lock")
      BY <1>1, <2>1 DEF UpdateFind
    <2>2. CASE Go(u, Idle)
      BY <2>2
    <2>3. ASSUME NEW a \in Live, Go(u, [up[u] EXCEPT !.at = "stop", !.asked = a])
          PROVE  up'[u].image = up[u].image /\ up'[u].target = up[u].target
      BY <2>3
    <2> QED
      BY <1>1, <2>1, <2>2, <2>3 DEF UpdateFind
  <1>2. CASE UpdateStop(u)
    <2>1. CASE Go(u, Idle)
      BY <2>1
    <2>2. CASE Go(u, [up[u] EXCEPT !.at = "wait", !.asked = None, !.running = TRUE])
      BY <1>2, <2>2 DEF UpdateStop
    <2> QED
      BY <1>2, <2>1, <2>2 DEF UpdateStop
  <1>3. CASE UpdateDigest(u) \/ UpdateHandoff(u)
    <2>1. CASE UpdateDigest(u)
      BY <2>1 DEF UpdateDigest
    <2>2. CASE UpdateHandoff(u)
      BY <2>2 DEF UpdateHandoff
    <2> QED
      BY <1>3, <2>1, <2>2
  <1>4. CASE UpdateWait(u) \/ UpdateLock(u) \/ UpdateHandoffFails(u)
    BY <1>4 DEF UpdateWait, UpdateLock, UpdateHandoffFails, Fail, End
  <1>5. CASE InstallRead(u) \/ InstallRename(u) \/ InstallVerify(u)
    <2>1. CASE InstallRead(u)
      BY <2>1 DEF InstallRead
    <2>2. CASE InstallRename(u)
      BY <2>2 DEF InstallRename
    <2>3. CASE InstallVerify(u)
      BY <2>3 DEF InstallVerify
    <2> QED
      BY <1>5, <2>1, <2>2, <2>3
  <1>6. CASE InstallRecord(u) \/ InstallRecordFails(u)
    BY <1>6 DEF InstallRecord, InstallRecordFails
  <1>7. CASE UpdateFinish(u) \/ UpdateStart(u) \/ UpdatePoll(u) \/ UpdaterDies(u)
    BY <1>7 DEF UpdateFinish, UpdateStart, UpdatePoll, UpdaterDies, End
  <1>8. CASE Recover(u) \/ RecoverLock(u) \/ RecoverRetarget(u)
    BY <1>8 DEF Recover, RecoverLock, RecoverRetarget
  <1> QED
    BY <1>1, <1>2, <1>3, <1>4, <1>5, <1>6, <1>7, <1>8 DEF UpdateStep, UpdateEvent

(* An agent takes only a handoff that it can read. *)
LEMMA TakenKept ==
    ASSUME TypeOK, NEW a \in Agent, AgentStep(a) \/ AgentEvent(a),
           ag[a].took => Handoffs(ag[a].version)
    PROVE  /\ handoff' \in {handoff, None}
           /\ ag'[a].took => Handoffs(ag'[a].version)
  <1>1. handoff' \in {handoff, None}
    BY DEF AgentStep, AgentEvent, disk, AgentLock, AgentOpen, AgentPublish, AgentServe, WorkEnds,
           AgentClose, AgentRelease, AgentFail, AgentDies, UserStops, Terminate, WorkBegins
  <1> DEFINE kept == ag'[a].took = ag[a].took /\ ag'[a].version = ag[a].version
             none == ag'[a].took = FALSE
  <1>2. ASSUME AgentOpen(a)
        PROVE  \/ none
               \/ /\ ag'[a].took = (Handoffs(ag[a].version) /\ handoff # None)
                  /\ ag'[a].version = ag[a].version
    <2> USE DEF TypeOK, AgentState, Turn, Off
    <2>1. CASE Refused(a)
      BY <1>2, <2>1 DEF AgentOpen
    <2>2. CASE ~Refused(a)
      <3>1. ag'[a] = [ag[a] EXCEPT !.at = "open",
                                   !.took = Handoffs(ag[a].version) /\ handoff # None]
        BY <1>2, <2>2 DEF AgentOpen
      <3> QED
        BY <3>1
    <2> QED
      BY <2>1, <2>2
  <1>3. ASSUME ~AgentOpen(a) PROVE none \/ kept
    <2> USE DEF TypeOK, AgentState, Turn, Off
    <2>1. CASE AgentLock(a) \/ AgentPublish(a) \/ AgentServe(a)
      BY <2>1 DEF AgentLock, AgentPublish, AgentServe
    <2>2. CASE WorkEnds(a) \/ AgentClose(a) \/ AgentRelease(a)
      BY <2>2 DEF WorkEnds, AgentClose, AgentRelease
    <2>3. CASE AgentFail(a) \/ AgentDies(a) \/ UserStops(a) \/ Terminate(a)
      BY <2>3 DEF AgentFail, AgentDies, UserStops, Terminate
    <2>4. CASE \E w \in {"op", "watch"} : WorkBegins(a, w)
      BY <2>4 DEF WorkBegins
    <2> QED
      BY <1>3, <2>1, <2>2, <2>3, <2>4 DEF AgentStep, AgentEvent
  <1> QED
    BY <1>1, <1>2, <1>3 DEF Handoffs

(* No version without a handoff gets into one. *)
LEMMA NamedStep ==
    ASSUME TypeOK, Planned, Named, [Next]_vars
    PROVE  Named'
  <1>0. None \notin Legacy
    BY ConstantsAssumption
  <1>1. ASSUME NEW a \in Agent, AgentStep(a) \/ AgentEvent(a)
        PROVE  Named'
    BY <1>0, <1>1, TakenKept, AgentFrame DEF Named, Handoffs
  <1>2. ASSUME NEW u \in Updater, UpdateBegin(u) \/ UpdateStep(u) \/ UpdateEvent(u)
        PROVE  Named'
    <2>1. up'[u].at # "idle" =>
             up'[u].image \in Version \ Legacy /\ up'[u].target \in Version \ Legacy
      <3>1. CASE UpdateBegin(u)
        <4> DEFINE s == [Idle EXCEPT !.at = IF installed < Latest THEN "digest" ELSE "find",
                                     !.image = installed, !.target = Target(installed)]
        <4>1. s.image = installed /\ s.target = Target(installed)
          BY DEF Idle
        <4>2. up'[u] = s
          BY <3>1 DEF UpdateBegin, TypeOK, Go
        <4>3. installed \in Version \ Legacy
          BY <3>1 DEF UpdateBegin, TypeOK
        <4>4. Target(installed) \in Version \ Legacy
          BY <4>3, ConstantsAssumption DEF Target
        <4> QED
          BY <4>1, <4>2, <4>3, <4>4
      <3>2. CASE UpdateStep(u) \/ UpdateEvent(u)
        BY <3>2, PlanKept DEF Named
      <3> QED
        BY <1>2, <3>1, <3>2
    <2>2. \/ handoff' \in {handoff, None}
          \/ up[u].at # "idle" /\ handoff' \in {up[u].target, up[u].image}
      BY <1>2 DEF UpdateBegin, UpdateStep, UpdateEvent, disk, UpdateDigest, UpdateFind, UpdateStop,
            UpdateWait, UpdateLock, UpdateHandoff, InstallRead, InstallRename, InstallVerify,
            InstallRecord, UpdateFinish, UpdateStart, UpdatePoll, Recover, RecoverLock,
            RecoverRetarget, UpdateHandoffFails, InstallRecordFails, UpdaterDies
    <2>3. ASSUME NEW b \in Agent
          PROVE  ag'[b].took => Handoffs(ag'[b].version)
      <3>1. CASE UpdateStop(u)
        <4>1. ag'[b].took = ag[b].took /\ ag'[b].version = ag[b].version
          BY <3>1 DEF UpdateStop, Turn, TypeOK, AgentState
        <4> QED
          BY <4>1 DEF Named, Handoffs
      <3>2. CASE ag' = ag
        BY <3>2 DEF Named, Handoffs
      <3>3. CASE Spawn(installed)
        BY <3>3, SpawnTakes DEF Named, Handoffs
      <3> QED
        BY <1>2, <3>1, <3>2, <3>3, UpdaterFrame
    <2> QED
      BY <1>0, <1>2, <2>1, <2>2, <2>3, UpdaterFrame DEF Named
  <1>3. ASSUME NEW v \in Version, Launch(v) \/ Install(v)
        PROVE  Named'
    <2>1. UNCHANGED <<handoff, up>> /\ (ag' = ag \/ Spawn(v))
      BY <1>3 DEF Launch, Install, disk
    <2>2. ASSUME NEW b \in Agent
          PROVE  ag'[b].took => Handoffs(ag'[b].version)
      BY <2>1, SpawnTakes DEF Named, Handoffs
    <2> QED
      BY <2>1, <2>2 DEF Named
  <1>4. CASE UNCHANGED vars
    BY <1>4 DEF vars, Named, Handoffs
  <1> QED
    BY <1>1, <1>2, <1>3, <1>4 DEF Next, Rest

(* It holds with the invariant. *)
LEMMA NamedHolds == Spec => [](UpdateInv /\ Named)
  <1>1. Init => Named
    <2>1. ASSUME Init
          PROVE  /\ handoff = None
                 /\ \A a \in Agent : ~ag[a].took
                 /\ \A u \in Updater : up[u].at = "idle"
      BY <2>1 DEF Init, Off, Idle
    <2> QED
      BY <2>1, ConstantsAssumption DEF Named
  <1>2. UpdateInv /\ Named /\ [Next]_vars => Named'
    BY NamedStep DEF UpdateInv
  <1> QED
    BY <1>1, <1>2, UpdateSound, PTL DEF Spec

(* No handoff names a version that would not consume it. *)
THEOREM HandoffNamesReader == Spec => [](handoff \notin Legacy)
  <1>1. Named => handoff \notin Legacy
    BY DEF Named
  <1> QED
    BY <1>1, NamedHolds, PTL

(* What an update owes is paid by the agent it names. *)
THEOREM HandoffStaysOwed == Spec => HandoffIsOwed
  <1> DEFINE paid == \E a \in Agent :
                       /\ ag[a].version = handoff /\ lock = a
                       /\ ag'[a].at = "serving" /\ handoff' = None
             renamed == \E u \in Updater :
                          /\ handoff' \in {up[u].target, up[u].image} \ {None}
                          /\ \/ lock = u
                             \/ \E a \in Agent : lock = a /\ ag'[a].closed = "update"
  <1>1. ASSUME UpdateInv, Named, [Next]_vars, handoff # None, handoff' # handoff
        PROVE  paid \/ renamed
    <2> USE <1>1 DEF UpdateInv, TypeOK
    <2>1. ASSUME NEW a \in Agent, AgentStep(a) \/ AgentEvent(a)
          PROVE  paid
      <3>1. AgentServe(a)
        BY <1>1, <2>1 DEF AgentStep, AgentEvent, disk, AgentLock, AgentOpen, AgentPublish, WorkEnds,
               AgentClose, AgentRelease, AgentFail, AgentDies, UserStops, Terminate, WorkBegins
      <3>2. ag[a].took /\ handoff' = None /\ lock = a
        BY <1>1, <3>1 DEF AgentServe, Holders, OwnsCatalog
      <3>3. ag'[a].at = "serving"
        BY <1>1, <3>1 DEF AgentServe, Turn, AgentState
      <3>4. Handoffs(ag[a].version)
        BY <1>1, <3>2 DEF Named
      <3>5. ag[a].version = handoff
        BY <1>1, <3>1, <3>2, <3>4 DEF AgentServe, ConsumesItsOwn
      <3> QED
        BY <3>2, <3>3, <3>5
    <2>2. ASSUME NEW u \in Updater, UpdateBegin(u) \/ UpdateStep(u) \/ UpdateEvent(u)
          PROVE  renamed
      <3>1. UpdateStop(u) \/ UpdateHandoff(u) \/ RecoverRetarget(u)
        BY <1>1, <2>2
        DEF UpdateBegin, UpdateStep, UpdateEvent, disk, UpdateDigest, UpdateFind, UpdateWait,
            UpdateLock, InstallRead, InstallRename, InstallVerify, InstallRecord, UpdateFinish,
            UpdateStart, UpdatePoll, Recover, RecoverLock, UpdateHandoffFails,
            InstallRecordFails, UpdaterDies
      <3>2. CASE UpdateStop(u)
        <4> DEFINE a == up[u].asked
        <4>1. a \in Agent /\ Stoppable(a, "update") /\ handoff' = up[u].target
          BY <1>1, <3>2 DEF UpdateStop, Planned
        <4>2. lock = a
          BY <1>1, <4>1 DEF Stoppable, Holders, OwnsCatalog
        <4>3. ag'[a].closed = "update"
          BY <1>1, <3>2, <4>1 DEF UpdateStop, Turn, AgentState
        <4>4. handoff' # None
          BY <1>1, <3>2, <4>1, ConstantsAssumption DEF UpdateStop, Planned
        <4> QED
          BY <4>1, <4>2, <4>3, <4>4
      <3>3. CASE UpdateHandoff(u)
        <4>1. lock = u /\ handoff' = up[u].target /\ up[u].target \in Version
          BY <1>1, <3>3 DEF UpdateHandoff, Holders, OwnsUpdate, Planned
        <4> QED
          BY <4>1, ConstantsAssumption
      <3>4. CASE RecoverRetarget(u)
        <4>1. lock = u /\ handoff' = up[u].image /\ up[u].at # "idle"
          BY <1>1, <3>4 DEF RecoverRetarget, Holders, OwnsUpdate
        <4>2. handoff' # None
          BY <1>1, <4>1, ConstantsAssumption DEF Named
        <4> QED
          BY <4>1, <4>2
      <3> QED
        BY <3>1, <3>2, <3>3, <3>4
    <2>3. ASSUME NEW v \in Version, Launch(v) \/ Install(v)
          PROVE  FALSE
      BY <1>1, <2>3 DEF Launch, Install, disk
    <2>4. CASE UNCHANGED vars
      BY <1>1, <2>4 DEF vars
    <2> HIDE DEF paid, renamed, UpdateInv, TypeOK
    <2> QED
      BY <1>1, <2>1, <2>2, <2>3, <2>4 DEF Next, Rest
  <1>2. UpdateInv /\ Named /\ [Next]_vars =>
          [handoff # None /\ handoff' # handoff => paid \/ renamed]_vars
    BY <1>1
  <1> QED
    BY <1>2, NamedHolds, PTL DEF Spec, HandoffIsOwed

(* The steps that follow each other: forward, to the recovery, or out.     *)
Follows(i, j) ==
    \/ i # "idle" /\ j = "idle"
    \/ i = "digest" /\ j = "find"
    \/ i = "find" /\ j \in {"stop", "lock"}
    \/ i = "stop" /\ j = "wait"
    \/ i = "wait" /\ j \in {"lock", "recover"}
    \/ i = "lock" /\ j \in {"handoff", "recover"}
    \/ i = "handoff" /\ j \in {"install", "finish", "recover"}
    \/ i = "install" /\ j = "rename"
    \/ i = "rename" /\ j \in {"verify", "recover"}
    \/ i = "verify" /\ j \in {"record", "recover"}
    \/ i = "record" /\ j \in {"finish", "recover"}
    \/ i = "finish" /\ j = "start"
    \/ i = "recover" /\ j = "again"
    \/ i = "again" /\ j = "retarget"
    \/ i = "retarget" /\ j = "start"
    \/ i = "start" /\ j = "poll"

(* What an updater does follows what it did. *)
LEMMA UpdaterFollows ==
    ASSUME TypeOK, NEW u \in Updater, UpdateStep(u) \/ UpdateEvent(u)
    PROVE  Follows(up[u].at, up'[u].at)
  <1> USE DEF TypeOK, UpdaterState, Go, Step, Idle
  <1>1. ASSUME UpdateDigest(u) PROVE up[u].at = "digest" /\ up'[u].at = "find"
    BY <1>1 DEF UpdateDigest
  <1>2. ASSUME UpdateWait(u)
        PROVE  up[u].at = "wait" /\ up'[u].at \in {"lock", "recover", "idle"}
    BY <1>2 DEF UpdateWait, Fail, End
  <1>3. ASSUME UpdateLock(u)
        PROVE  up[u].at = "lock" /\ up'[u].at \in {"handoff", "recover", "idle"}
    BY <1>3 DEF UpdateLock, Fail, End
  <1>4. ASSUME UpdateHandoff(u)
        PROVE  up[u].at = "handoff" /\ up'[u].at \in {"install", "finish"}
    BY <1>4 DEF UpdateHandoff
  <1>5. ASSUME UpdateHandoffFails(u)
        PROVE  up[u].at = "handoff" /\ up'[u].at \in {"recover", "idle"}
    BY <1>5 DEF UpdateHandoffFails, Fail, End
  <1>6. ASSUME InstallRead(u) PROVE up[u].at = "install" /\ up'[u].at = "rename"
    BY <1>6 DEF InstallRead
  <1>7. ASSUME InstallRename(u)
        PROVE  up[u].at = "rename" /\ up'[u].at \in {"recover", "verify"}
    BY <1>7 DEF InstallRename
  <1>8. ASSUME InstallVerify(u)
        PROVE  up[u].at = "verify" /\ up'[u].at \in {"recover", "record"}
    BY <1>8 DEF InstallVerify
  <1>9. ASSUME InstallRecord(u) PROVE up[u].at = "record" /\ up'[u].at = "finish"
    BY <1>9 DEF InstallRecord
  <1>10. ASSUME InstallRecordFails(u) PROVE up[u].at = "record" /\ up'[u].at = "recover"
    BY <1>10 DEF InstallRecordFails
  <1>11. ASSUME UpdateFinish(u) PROVE up[u].at = "finish" /\ up'[u].at \in {"start", "idle"}
    BY <1>11 DEF UpdateFinish
  <1>12. ASSUME UpdateStart(u) PROVE up[u].at = "start" /\ up'[u].at \in {"poll", "idle"}
    BY <1>12 DEF UpdateStart
  <1>13. ASSUME UpdatePoll(u) PROVE up[u].at = "poll" /\ up'[u].at = "idle"
    BY <1>13 DEF UpdatePoll
  <1>14. ASSUME UpdaterDies(u) PROVE up[u].at # "idle" /\ up'[u].at = "idle"
    BY <1>14 DEF UpdaterDies, End
  <1>15. ASSUME Recover(u) PROVE up[u].at = "recover" /\ up'[u].at \in {"again", "idle"}
    BY <1>15 DEF Recover
  <1>16. ASSUME RecoverLock(u) PROVE up[u].at = "again" /\ up'[u].at \in {"retarget", "idle"}
    BY <1>16 DEF RecoverLock
  <1>17. ASSUME RecoverRetarget(u) PROVE up[u].at = "retarget" /\ up'[u].at = "start"
    BY <1>17 DEF RecoverRetarget
  <1>18. CASE \/ UpdateFind(u) \/ UpdateStop(u)
    BY <1>18, Finding, Stopping DEF Follows
  <1> HIDE DEF TypeOK, UpdaterState, Go, Step, Idle
  <1>19. CASE UpdateStep(u)
    BY <1>1, <1>2, <1>3, <1>4, <1>6, <1>7, <1>8, <1>9, <1>11, <1>12, <1>13, <1>15, <1>16,
       <1>17, <1>18, <1>19 DEF UpdateStep, Follows
  <1>20. CASE UpdateEvent(u)
    BY <1>5, <1>10, <1>14, <1>20 DEF UpdateEvent, Follows
  <1> QED
    BY <1>19, <1>20

(* So nearprod update ends, for any number of updaters and agents. *)
THEOREM UpdatesAreFinite == Spec => UpdateIsFinite
  <1>1. ASSUME TypeOK, NEW u \in Updater, Follows(up[u].at, up'[u].at)
        PROVE  Ahead(u)' < Ahead(u)
    <2>1. CASE up[u].at # "idle" /\ up'[u].at = "idle"
      <3>1. up[u].at \in UpdaterAt \ {"idle"}
        BY <1>1, <2>1 DEF TypeOK, UpdaterState
      <3>2. Ahead(u) \in 1 .. 16
        BY <3>1 DEF UpdaterAt, Ahead
      <3>3. Ahead(u)' = 0
        BY <2>1 DEF Ahead
      <3> QED
        BY <3>2, <3>3
    <2>2. CASE ~(up[u].at # "idle" /\ up'[u].at = "idle")
      BY <1>1, <2>2 DEF Follows, Ahead
    <2> QED
      BY <2>1, <2>2
  <1>2. \A u \in Updater : Ahead(u) \in Nat
    BY DEF Ahead
  <1>3. ASSUME TypeOK, [Next]_vars, NEW u \in Updater
        PROVE  /\ UpdateStep(u) => Ahead(u)' < Ahead(u)
               /\ up[u].at # "idle" => Ahead(u)' <= Ahead(u)
    <2>1. CASE UpdateStep(u) \/ UpdateEvent(u)
      <3>1. Ahead(u)' < Ahead(u)
        BY <1>1, <1>3, <2>1, UpdaterFollows
      <3>2. Ahead(u) \in Nat /\ Ahead(u)' \in Nat
        BY DEF Ahead
      <3> HIDE DEF Ahead
      <3> QED
        BY <3>1, <3>2
    <2>2. CASE ~UpdateStep(u) /\ ~UpdateEvent(u)
      <3>1. up[u].at = "idle" \/ up'[u] = up[u]
        BY <1>3, <2>2, AgentFrame, UpdaterFrame DEF Next, Rest, UpdateBegin, Launch, Install, vars
      <3>2. up'[u] = up[u] => Ahead(u)' = Ahead(u)
        BY DEF Ahead
      <3>3. Ahead(u) \in Nat
        BY <1>2
      <3> HIDE DEF Ahead
      <3> QED
        BY <2>2, <3>1, <3>2, <3>3
    <2> QED
      BY <2>1, <2>2
  <1>4. UpdateInv /\ [Next]_vars =>
          [\A u \in Updater : /\ UpdateStep(u) => Ahead(u)' < Ahead(u)
                              /\ up[u].at # "idle" => Ahead(u)' <= Ahead(u)]_vars
    BY <1>3 DEF UpdateInv
  <1> QED
    BY <1>4, UpdateSound, PTL DEF Spec, UpdateIsFinite
================================================================================
