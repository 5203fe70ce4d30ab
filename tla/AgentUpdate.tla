----------------------------- MODULE AgentUpdate -----------------------------
(***************************************************************************)
(* The agent's process and the update of its binary: AcquireAgentLock,     *)
(* StartAgent and Close (agent.go), the handoff agent-update.json and the  *)
(* updater (agent_update.go, Updater.Apply in update.go), the replacement  *)
(* of the installed file (install.go) and how a client finds and starts an *)
(* agent (client.go).                                                      *)
(*                                                                         *)
(* Agents and updaters are processes: any of them may die between two      *)
(* steps, and what they left on disk stays.  A lock dies with its holder   *)
(* (flock; a socket nobody listens on is removed).  The handoff is reduced *)
(* to the version it names: its port and browser sessions travel with it.  *)
(* A wait that times out, a file that cannot be written and a damaged copy *)
(* are faults; downloads and their verification precede every effect and   *)
(* are left out.                                                           *)
(***************************************************************************)
EXTENDS Naturals

CONSTANTS
    Agent,      \* bound: agent processes alive at once
    Updater,    \* processes of nearprod update
    Retrier,    \* the updater whose user repeats the command
    Version,    \* versions of NearProd, as naturals
    Legacy,     \* those without a handoff (before 0.9.4)
    Latest,     \* the published release
    MaxFaults,  \* bound: faults
    MaxActs,    \* bound: acts of users
    None, Bad   \* Bad: an executable that is not what it should be

ASSUME ConstantsAssumption ==
    /\ Version \subseteq Nat /\ Legacy \subseteq Version /\ Latest \in Version \ Legacy
    /\ None \notin Agent \cup Updater \cup Version \cup {Bad}
    /\ Bad \notin Version
    /\ Agent \cap Updater = {}
    /\ Retrier \in Updater
    /\ MaxFaults \in Nat /\ MaxActs \in Nat

VARIABLES
    installed,  \* the version of ~/.local/bin/nearprod, or Bad
    handoff,    \* the version named by agent-update.json, or None
    lock,       \* holder of the agent lock, or None
    meta,       \* the agent that agent.json describes, or None
    ag,         \* ag[a]: the local state of an agent process
    up,         \* up[u]: the local state of an updater
    damaged,    \* a rollback failed, or its updater died before it
    faults, acts

disk == <<installed, handoff, meta>>
bounds == <<faults, acts>>
vars == <<installed, handoff, lock, meta, ag, up, damaged, faults, acts>>

Off == [at |-> "off", version |-> None, took |-> FALSE, work |-> "none", closed |-> "no"]
Idle == [at |-> "idle", image |-> None, target |-> None, prev |-> None, prior |-> None,
         running |-> FALSE, asked |-> None]

Init ==
    /\ installed \in Version \ (Legacy \cup {Latest})
    /\ handoff = None /\ lock = None /\ meta = None
    /\ ag = [a \in Agent |-> Off]
    /\ up = [u \in Updater |-> Idle]
    /\ damaged = FALSE
    /\ faults = 0 /\ acts = 0

Fault == faults < MaxFaults /\ faults' = faults + 1 /\ UNCHANGED acts
Act == acts < MaxActs /\ acts' = acts + 1 /\ UNCHANGED faults

Turn(a, s) == ag' = [ag EXCEPT ![a] = s]
Go(u, s) == up' = [up EXCEPT ![u] = s]
Step(u, at) == Go(u, [up[u] EXCEPT !.at = at])
Released(p) == IF lock = p THEN None ELSE lock

(* readLive: the agent that agent.json describes and that answers. *)
Live == {a \in Agent : meta = a /\ ag[a].at = "serving"}
Handoffs(v) == v \notin Legacy
--------------------------------------------------------------------------------
(* An agent process. *)

(* exec of a binary of version v; a damaged one does not start.  Processes *)
(* have no identity until they publish one: the first free slot will do.   *)
Free == {a \in Agent : ag[a].at = "off"}
Spawn(v) ==
    IF v = Bad THEN UNCHANGED ag
    ELSE /\ Free # {}
         /\ Turn(CHOOSE a \in Free : TRUE, [Off EXCEPT !.at = "spawned", !.version = v])

(* AcquireAgentLock: AGENT_RUNNING when somebody holds it. *)
AgentLock(a) ==
    /\ ag[a].at = "spawned"
    /\ IF lock = None
       THEN lock' = a /\ Turn(a, [ag[a] EXCEPT !.at = "locked"])
       ELSE Turn(a, Off) /\ UNCHANGED lock
    /\ UNCHANGED <<disk, up, damaged, bounds>>

(* Mutant: the handoff of another version does not stop it. *)
Refused_Never(a) == FALSE

(* The handoff is for another version: UPDATE_AGENT_VERSION. *)
Refused(a) == Handoffs(ag[a].version) /\ handoff \notin {None, ag[a].version}

(* readAgentRestart and OpenStore; a legacy agent knows no handoff. *)
AgentOpen(a) ==
    /\ ag[a].at = "locked"
    /\ IF Refused(a)
       THEN Turn(a, Off) /\ lock' = Released(a)
       ELSE /\ Turn(a, [ag[a] EXCEPT !.at = "open",
                            !.took = Handoffs(ag[a].version) /\ handoff # None])
            /\ UNCHANGED lock
    /\ UNCHANGED <<disk, up, damaged, bounds>>

(* The port is taken, or agent.json cannot be written. *)
AgentFail(a) ==
    /\ ag[a].at = "open" /\ Fault
    /\ Turn(a, Off) /\ lock' = Released(a)
    /\ UNCHANGED <<disk, up, damaged>>

AgentPublish(a) ==
    /\ ag[a].at = "open"
    /\ meta' = a
    /\ Turn(a, [ag[a] EXCEPT !.at = "published"])
    /\ UNCHANGED <<installed, handoff, lock, up, damaged, bounds>>

(* The handoff goes once the server is up; then the agent serves. *)
AgentServe(a) ==
    /\ ag[a].at = "published"
    /\ handoff' = IF ag[a].took THEN None ELSE handoff
    /\ Turn(a, [ag[a] EXCEPT !.at = "serving"])
    /\ UNCHANGED <<installed, lock, meta, up, damaged, bounds>>

(* Operations and watches begin while the agent admits requests. *)
WorkBegins(a, w) ==
    /\ ag[a].at = "serving" /\ ag[a].work = "none" /\ ag[a].closed = "no" /\ Act
    /\ Turn(a, [ag[a] EXCEPT !.work = w])
    /\ UNCHANGED <<disk, lock, up, damaged>>

WorkEnds(a) ==
    /\ ag[a].at = "serving" /\ ag[a].work # "none"
    /\ Turn(a, [ag[a] EXCEPT !.work = "none"])
    /\ UNCHANGED <<disk, lock, up, damaged, bounds>>

(* Mutant: only the updater looks at the watches. *)
Stoppable_AnyWatch(a, cause) ==
    /\ ag[a].at = "serving" /\ ag[a].closed = "no"
    /\ Handoffs(ag[a].version) => ag[a].work # "op"

(* prepareStop: PrepareStop refuses active operations and, for an update,  *)
(* prepare refuses active watches.  A legacy agent checks nothing.         *)
Stoppable(a, cause) ==
    /\ ag[a].at = "serving" /\ ag[a].closed = "no"
    /\ Handoffs(ag[a].version) =>
          ag[a].work \notin (IF cause = "update" THEN {"op", "watch"} ELSE {"op"})

(* A user stops the agent, or its context ends (SIGTERM, logout). *)
UserStops(a) ==
    /\ Stoppable(a, "user") /\ Act
    /\ Turn(a, [ag[a] EXCEPT !.closed = "user"])
    /\ UNCHANGED <<disk, lock, up, damaged>>

Terminate(a) ==
    /\ ag[a].at = "serving" /\ ag[a].closed = "no" /\ Act
    /\ Turn(a, [ag[a] EXCEPT !.closed = "user"])
    /\ UNCHANGED <<disk, lock, up, damaged>>

(* Close: the network first, then the work, agent.json and the lock. *)
AgentClose(a) ==
    /\ ag[a].at = "serving" /\ ag[a].closed # "no"
    /\ Turn(a, [ag[a] EXCEPT !.at = "closing"])
    /\ UNCHANGED <<disk, lock, up, damaged, bounds>>

AgentRelease(a) ==
    /\ ag[a].at = "closing"
    /\ meta' = IF meta = a THEN None ELSE meta
    /\ lock' = Released(a)
    /\ Turn(a, Off)
    /\ UNCHANGED <<installed, handoff, up, damaged, bounds>>

AgentDies(a) ==
    /\ ag[a].at # "off" /\ Fault
    /\ lock' = Released(a)
    /\ Turn(a, Off)
    /\ UNCHANGED <<disk, up, damaged>>
--------------------------------------------------------------------------------
(* nearprod update.  A path that ends before it has a state to release     *)
(* ends here: the command reports and exits.                               *)

End(u) == Go(u, Idle) /\ lock' = Released(u)

Target(v) == IF v < Latest THEN Latest ELSE v
Replaces(u) == up[u].image < up[u].target

(* Mutant: without an agent there is nothing to activate. *)
Pending_LiveOnly(v) == \E a \in Live : ag[a].version # v

(* activateCurrentAgent: something runs or should run, and not this one. *)
Pending(v) ==
    \/ Live = {} /\ handoff # None
    \/ \E a \in Live : ag[a].version # v

(* Check with the installed binary, then Apply. *)
UpdateBegin(u) ==
    /\ up[u].at = "idle" /\ installed \notin Legacy \cup {Bad}
    /\ installed < Latest \/ Pending(installed)
    /\ IF u = Retrier THEN UNCHANGED bounds ELSE Act
    /\ Go(u, [Idle EXCEPT !.at = IF installed < Latest THEN "digest" ELSE "find",
                          !.image = installed, !.target = Target(installed)])
    /\ UNCHANGED <<disk, lock, ag, damaged>>

UpdateDigest(u) ==
    /\ up[u].at = "digest"
    /\ Go(u, [up[u] EXCEPT !.at = "find", !.prev = installed])
    /\ UNCHANGED <<disk, lock, ag, damaged, bounds>>

(* prepareAgentUpdate: the agent that answers, without active watches. *)
UpdateFind(u) ==
    /\ up[u].at = "find"
    /\ \/ Live = {} /\ Step(u, "lock")
       \/ \E a \in Live :
             Go(u, IF ag[a].work = "watch" THEN Idle
                   ELSE [up[u] EXCEPT !.at = "stop", !.asked = a])
    /\ UNCHANGED <<disk, lock, ag, damaged, bounds>>

(* POST /agent/stop: a refusal ends the update with nothing changed. *)
UpdateStop(u) ==
    LET a == up[u].asked
    IN  /\ up[u].at = "stop"
        /\ IF Stoppable(a, "update") /\ meta = a
           THEN /\ Turn(a, [ag[a] EXCEPT !.closed = "update"])
                /\ handoff' = IF Handoffs(ag[a].version) THEN up[u].target ELSE handoff
                /\ Go(u, [up[u] EXCEPT !.at = "wait", !.asked = None, !.running = TRUE])
           ELSE Go(u, Idle) /\ UNCHANGED <<ag, handoff>>
        /\ UNCHANGED <<installed, lock, meta, damaged, bounds>>

(* An error after the state exists: Apply recovers, activation gives up. *)
Fail(u) ==
    IF Replaces(u) THEN Step(u, "recover") /\ UNCHANGED lock ELSE End(u)

(* A new owner that stays makes a wait for the lock end with its 30        *)
(* seconds; without one they are a fault.                                  *)
GivesUp == IF \E a \in Agent : lock = a /\ ag[a].at = "serving" /\ ag[a].closed = "no"
           THEN UNCHANGED bounds ELSE Fault

(* waitAgentStopped: the lock can be had. *)
UpdateWait(u) ==
    /\ up[u].at = "wait"
    /\ \/ lock = None /\ Step(u, "lock") /\ UNCHANGED <<lock, bounds>>
       \/ GivesUp /\ Fail(u)
    /\ UNCHANGED <<disk, ag, damaged>>

(* Mutant: what the wait saw is taken for the lock. *)
UpdateLock_Waited(u) ==
    /\ up[u].at = "lock"
    /\ lock' = u /\ Step(u, "handoff")
    /\ UNCHANGED <<disk, ag, damaged, bounds>>

UpdateLock(u) ==
    /\ up[u].at = "lock"
    /\ IF lock = None THEN lock' = u /\ Step(u, "handoff") ELSE Fail(u)
    /\ UNCHANGED <<disk, ag, damaged, bounds>>

(* Under the lock: the handoff that is there, or one for a legacy agent. *)
UpdateHandoff(u) ==
    /\ up[u].at = "handoff"
    /\ handoff' = IF handoff # None \/ up[u].running THEN up[u].target ELSE None
    /\ Go(u, [up[u] EXCEPT !.at = IF Replaces(u) THEN "install" ELSE "finish",
                           !.running = @ \/ handoff # None])
    /\ UNCHANGED <<installed, lock, meta, ag, damaged, bounds>>

UpdateHandoffFails(u) ==
    /\ up[u].at = "handoff" /\ Fault
    /\ Fail(u)
    /\ UNCHANGED <<disk, ag, damaged>>
--------------------------------------------------------------------------------
(* installBinaryVersionVerified. *)

InstallRead(u) ==
    /\ up[u].at = "install"
    /\ Go(u, [up[u] EXCEPT !.at = "rename", !.prior = installed])
    /\ UNCHANGED <<disk, lock, ag, damaged, bounds>>

(* INSTALL_CHANGED, or the new file takes the place of the old one.  What  *)
(* arrives on the disk may not be what was verified.                       *)
InstallRename(u) ==
    /\ up[u].at = "rename"
    /\ \/ /\ installed # up[u].prior
          /\ Step(u, "recover") /\ UNCHANGED <<installed, bounds>>
       \/ /\ installed = up[u].prior
          /\ \/ installed' = up[u].target /\ UNCHANGED bounds
             \/ installed' = Bad /\ Fault
          /\ Step(u, "verify")
    /\ UNCHANGED <<handoff, lock, meta, ag, damaged>>

(* Mutant: a copy that fails its verification stays. *)
Rollback_Missing(u) == UNCHANGED <<installed, damaged, bounds>>

(* rollback: the bytes of before, unless they cannot be written. *)
Rollback(u) ==
    \/ installed' = up[u].prior /\ UNCHANGED <<damaged, bounds>>
    \/ Fault /\ damaged' = TRUE /\ UNCHANGED installed

InstallVerify(u) ==
    /\ up[u].at = "verify"
    /\ IF installed = up[u].target
       THEN Step(u, "record") /\ UNCHANGED <<installed, damaged, bounds>>
       ELSE Rollback(u) /\ Step(u, "recover")
    /\ UNCHANGED <<handoff, lock, meta, ag>>

(* installation.json ends the installation; without it, rollback. *)
InstallRecord(u) ==
    /\ up[u].at = "record"
    /\ Step(u, "finish")
    /\ UNCHANGED <<disk, lock, ag, damaged, bounds>>

InstallRecordFails(u) ==
    /\ up[u].at = "record" /\ Fault
    /\ installed' = up[u].prior
    /\ Step(u, "recover")
    /\ UNCHANGED <<handoff, lock, meta, ag, damaged>>
--------------------------------------------------------------------------------
(* finishAgentUpdate: release, start the installed file, wait for it. *)
UpdateFinish(u) ==
    /\ up[u].at = "finish"
    /\ lock' = Released(u)
    /\ Go(u, IF up[u].running THEN [up[u] EXCEPT !.at = "start"] ELSE Idle)
    /\ UNCHANGED <<disk, ag, damaged, bounds>>

(* startAgentBinary: whoever answers, or a new process. *)
UpdateStart(u) ==
    /\ up[u].at = "start"
    /\ IF Live = {} THEN Spawn(installed) /\ Step(u, "poll")
                    ELSE UNCHANGED ag /\ Go(u, Idle)
    /\ UNCHANGED <<disk, lock, damaged, bounds>>

(* It answers, with whatever version, or it is gone, or 10 seconds are. *)
Starting == \E a \in Agent : ag[a].at \in {"spawned", "locked", "open", "published"}
UpdatePoll(u) ==
    /\ up[u].at = "poll"
    /\ \/ (Live # {} \/ ~Starting) /\ UNCHANGED bounds
       \/ Live = {} /\ Starting /\ Fault
    /\ Go(u, Idle)
    /\ UNCHANGED <<disk, lock, ag, damaged>>

(* recoverUpdateAgent: only the file that was there is started again. *)
Recover(u) ==
    /\ up[u].at = "recover"
    /\ lock' = Released(u)
    /\ IF up[u].running /\ installed = up[u].prev
       THEN Step(u, "again") ELSE Go(u, Idle)
    /\ UNCHANGED <<disk, ag, damaged, bounds>>

(* waitAgentStopped and AcquireAgentLock. *)
RecoverLock(u) ==
    /\ up[u].at = "again"
    /\ \/ /\ lock = None /\ UNCHANGED bounds
          /\ lock' = u /\ Step(u, "retarget")
       \/ GivesUp /\ Go(u, Idle) /\ UNCHANGED lock
    /\ UNCHANGED <<disk, ag, damaged>>

(* The handoff goes back to the version of this updater. *)
RecoverRetarget(u) ==
    /\ up[u].at = "retarget"
    /\ handoff' = IF handoff # None THEN up[u].image ELSE None
    /\ lock' = Released(u)
    /\ Step(u, "start")
    /\ UNCHANGED <<installed, meta, ag, damaged, bounds>>

(* An updater may die at any point; its lock goes with it. *)
UpdaterDies(u) ==
    /\ up[u].at # "idle" /\ Fault
    /\ End(u)
    /\ damaged' = (damaged \/ up[u].at = "verify")
    /\ UNCHANGED <<disk, ag>>
--------------------------------------------------------------------------------
(* Users: nearprod ui with any copy they have, and nearprod install. *)

Launch(v) ==
    /\ Live = {} /\ Free # {} /\ Act
    /\ Spawn(v)
    /\ UNCHANGED <<disk, lock, up, damaged>>

Install(v) ==
    /\ v \notin Legacy /\ v # installed
    /\ IF installed = Bad THEN UNCHANGED bounds ELSE Act
    /\ installed' = v
    /\ UNCHANGED <<handoff, lock, meta, ag, up, damaged>>

(* Nobody is at work: a process that waits for ever would be a deadlock. *)
Rest ==
    /\ \A a \in Agent : ag[a].at \in {"off", "serving"}
    /\ \A u \in Updater : up[u].at = "idle"
    /\ UNCHANGED vars

AgentStep(a) ==
    \/ AgentLock(a) \/ AgentOpen(a) \/ AgentPublish(a) \/ AgentServe(a)
    \/ WorkEnds(a) \/ AgentClose(a) \/ AgentRelease(a)

UpdateStep(u) ==
    \/ UpdateDigest(u) \/ UpdateFind(u) \/ UpdateStop(u) \/ UpdateWait(u) \/ UpdateLock(u)
    \/ UpdateHandoff(u) \/ InstallRead(u) \/ InstallRename(u) \/ InstallVerify(u)
    \/ InstallRecord(u) \/ UpdateFinish(u) \/ UpdateStart(u) \/ UpdatePoll(u)
    \/ Recover(u) \/ RecoverLock(u) \/ RecoverRetarget(u)

AgentEvent(a) ==
    \/ AgentFail(a) \/ AgentDies(a) \/ UserStops(a) \/ Terminate(a)
    \/ \E w \in {"op", "watch"} : WorkBegins(a, w)

UpdateEvent(u) == UpdateHandoffFails(u) \/ InstallRecordFails(u) \/ UpdaterDies(u)

Next ==
    \/ \E a \in Agent : AgentStep(a) \/ AgentEvent(a)
    \/ \E u \in Updater : UpdateBegin(u) \/ UpdateStep(u) \/ UpdateEvent(u)
    \/ \E v \in Version : Launch(v) \/ Install(v)
    \/ Rest

Spec == Init /\ [][Next]_vars

(* Processes run, an act of a user is never owed, except that the user of  *)
(* an update that left its handoff repeats it and repairs a damaged file.  *)
Fairness ==
    /\ \A a \in Agent : WF_vars(AgentStep(a))
    /\ \A u \in Updater : WF_vars(UpdateStep(u))
    /\ WF_vars(handoff # None /\ UpdateBegin(Retrier))
    /\ WF_vars(installed = Bad /\ \E v \in Version : Install(v))

FairSpec == Spec /\ Fairness
--------------------------------------------------------------------------------
AgentAt == {"off", "spawned", "locked", "open", "published", "serving", "closing"}
UpdaterAt == {"idle", "digest", "find", "stop", "wait", "lock", "handoff", "install",
              "rename", "verify", "record", "finish", "start", "poll", "recover",
              "again", "retarget"}

AgentState == [at : AgentAt, version : Version \cup {None}, took : BOOLEAN,
               work : {"none", "op", "watch"}, closed : {"no", "user", "update"}]
UpdaterState == [at : UpdaterAt, image : Version \cup {None},
                 target : Version \cup {None}, prev : Version \cup {None, Bad},
                 prior : Version \cup {None, Bad}, running : BOOLEAN,
                 asked : Agent \cup {None}]

TypeOK ==
    /\ installed \in Version \cup {Bad}
    /\ handoff \in Version \cup {None}
    /\ lock \in Agent \cup Updater \cup {None}
    /\ meta \in Agent \cup {None}
    /\ ag \in [Agent -> AgentState] /\ up \in [Updater -> UpdaterState]
    /\ damaged \in BOOLEAN
    /\ faults \in 0 .. MaxFaults /\ acts \in 0 .. MaxActs

OwnsCatalog(a) == ag[a].at \in {"locked", "open", "published", "serving", "closing"}
OwnsUpdate(u) == up[u].at \in {"handoff", "install", "rename", "verify", "record",
                               "finish", "retarget"}

(* The catalog has one writer, and none while an updater replaces the      *)
(* binary or rewrites the handoff ("neither a stale PID nor new file       *)
(* layout can create two writers"; "never retarget the handoff while       *)
(* another process owns the catalog").                                     *)
OneOwner ==
    /\ \A a, b \in Agent : OwnsCatalog(a) /\ OwnsCatalog(b) => a = b
    /\ \A u, w \in Updater : OwnsUpdate(u) /\ OwnsUpdate(w) => u = w
    /\ \A a \in Agent, u \in Updater : ~(OwnsCatalog(a) /\ OwnsUpdate(u))

(* An update cuts no work: an agent that it is closing has neither an      *)
(* operation nor a watch, whatever began since the updater looked          *)
(* ("Si hay operaciones o seguimientos Watch activos, la actualización se  *)
(* rechaza").                                                              *)
UpdateCutsNothing ==
    \A a \in Agent :
        ag[a].closed = "update" /\ Handoffs(ag[a].version) => ag[a].work = "none"

(* Between its check of the handoff and its removal nobody changes it: an  *)
(* agent consumes only a handoff that names its own version.               *)
ConsumesItsOwn ==
    \A a \in Agent :
        ag[a].at \in {"open", "published"} /\ Handoffs(ag[a].version) =>
            handoff = IF ag[a].took THEN ag[a].version ELSE None

(* A damaged executable is in place only while its installer may still put *)
(* the previous one back, or when that failed.                             *)
NoBadLeft == installed = Bad => damaged \/ \E u \in Updater : up[u].at = "verify"

(* The agent that an update stopped comes back: whatever failed or died,   *)
(* repeating the command consumes the handoff ("repite nearprod update:    *)
(* también reintenta la activación").                                      *)
HandoffEnds == handoff # None ~> handoff = None
================================================================================
