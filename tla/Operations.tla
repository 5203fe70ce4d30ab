------------------------------ MODULE Operations ------------------------------
(***************************************************************************)
(* The operation registry (internal/nearprod/operations.go): Submit, the   *)
(* goroutine it starts, Get, Cancel, Stop and PrepareStop, with the catalog *)
(* file that keeps the history of operations and the agent process that    *)
(* may die and come back at any step.                                      *)
(*                                                                         *)
(* One action is one critical section of Operations.mu or one call of      *)
(* Store.Update; between two of them any other goroutine may run.          *)
(***************************************************************************)
EXTENDS Naturals, FiniteSets, FiniteSetsExt

CONSTANTS
    Op,             \* identities handed out by token(12)
    Target,         \* applications and "infra:..." names
    Claim,          \* the claims the callers of Submit make
    Size,           \* serialized sizes a final record may have
    HistoryBudget,  \* boundHistory's budget (4 MiB in the code)
    HistoryMax,     \* records kept by Submit (100 in the code)
    RecentMax,      \* final results kept in memory (100 in the code)
    MaxFailures,    \* bound: catalog writes that fail
    MaxRestarts     \* bound: times the agent is started again

VARIABLES
    pc,         \* pc[o]: how far the call of Submit and its goroutine have come
    claim,      \* claim[o]: activeOp.Targets, Global, Build
    active,     \* keys of Operations.active
    cancelled,  \* operations whose context is cancelled
    wg,         \* operations counted by Operations.wg
    recent,     \* Operations.recent
    final,      \* the record the goroutine computed when its work returned
    published,  \* published[o]: terminal state sent on the bus
    history,    \* history[o]: the record of o in the catalog file
    stamp,      \* stamp[o]: position at which o was appended to the history
    clock,      \* next position
    closed,     \* Operations.closed
    ctxDone,    \* Operations.ctx is cancelled (Agent.Close has begun)
    alive,      \* "up", "stopped" (Close returned) or "crashed"
    failures,   \* catalog writes that have failed
    restarts    \* starts of the agent after the first

registry == <<active, claim, closed, wg>>
catalog  == <<history, stamp, clock>>
bounds   == <<failures, restarts>>
vars == <<pc, claim, active, cancelled, wg, recent, final, published, history,
          stamp, clock, closed, ctxDone, alive, failures, restarts>>

ClaimType == [targets : SUBSET Target, global : BOOLEAN, build : BOOLEAN]

NoClaim == [targets |-> {}, global |-> FALSE, build |-> FALSE]

(* Every call of Submit names a target or is global. *)
ASSUME ClaimAssumption == Claim \subseteq ClaimType \ {NoClaim}
ASSUME SizeAssumption == Size \subseteq Nat
ASSUME BoundAssumption ==
    /\ HistoryBudget \in Nat /\ HistoryMax \in Nat \ {0}
    /\ RecentMax \in Nat \ {0}
    /\ MaxFailures \in Nat /\ MaxRestarts \in Nat

Terminal == {"succeeded", "failed", "cancelled", "interrupted"}
Record == [state : Terminal \cup {"running", "absent"}, size : Nat]
Absent  == [state |-> "absent", size |-> 0]
Running == [state |-> "running", size |-> 0]

(* The goroutine of the operation, or the Submit that will start it. *)
InFlight == {"admitted", "running", "concluded", "recorded", "retired"}
--------------------------------------------------------------------------------
(* The history of operations in the catalog. *)

Recorded(h) == {o \in Op : h[o].state # "absent"}
Finished(h) == {o \in Op : h[o].state \in Terminal}

(* The n oldest members of S. *)
Oldest(S, n) == {o \in S : Cardinality({p \in S : stamp[p] <= stamp[o]}) <= n}

(* The newest HistoryMax members of S, o being newer than all of them. *)
Newest(S, o) ==
    {p \in S : p = o \/ Cardinality({q \in S \ {o} : stamp[q] > stamp[p]}) < HistoryMax - 1}

Keep(h, S) == [o \in Op |-> IF o \in S THEN h[o] ELSE Absent]

Weight(h, S) == MapThenSumSet(LAMBDA o : h[o].size, S)

(* boundHistory: drop the oldest finished records until the rest fits; a   *)
(* record that is alone and still too large loses its lines and results.   *)
(* Unfinished records are never dropped: they carry no lines.              *)
BoundHistory(h) ==
    LET rest(n) == Recorded(h) \ Oldest(Finished(h), n)
        done(n) == \/ Weight(h, rest(n)) <= HistoryBudget
                   \/ rest(n) \cap Finished(h) = {}
                   \/ Cardinality(rest(n)) = 1
        drops == Min({n \in 0 .. Cardinality(Finished(h)) : done(n)})
        out == Keep(h, rest(drops))
    IN  IF Weight(h, rest(drops)) <= HistoryBudget
        THEN out
        ELSE [o \in Op |-> [out[o] EXCEPT !.size = 0]]

(* Operations.Get: memory first, then the catalog. *)
Get(o) ==
    IF recent[o] # "none" THEN recent[o]
    ELSE IF o \in active THEN "running"
    ELSE history[o].state
--------------------------------------------------------------------------------
Init ==
    /\ pc = [o \in Op |-> "new"]
    /\ claim = [o \in Op |-> NoClaim]
    /\ active = {}
    /\ cancelled = {}
    /\ wg = {}
    /\ recent = [o \in Op |-> "none"]
    /\ final = [o \in Op |-> Absent]
    /\ published = [o \in Op |-> "none"]
    /\ history = [o \in Op |-> Absent]
    /\ stamp = [o \in Op |-> 0]
    /\ clock = 1
    /\ closed = FALSE
    /\ ctxDone = FALSE
    /\ alive = "up"
    /\ failures = 0
    /\ restarts = 0

(* Mutant: heavy builds do not exclude each other. *)
busyLocked_NoBuild(c) ==
    \E a \in active :
        c.global \/ claim[a].global \/ c.targets = {} \/ c.targets \cap claim[a].targets # {}

(* busyLocked: some active operation is incompatible with the request. *)
busyLocked(c) ==
    \E a \in active :
        \/ c.global
        \/ claim[a].global
        \/ c.build /\ claim[a].build
        \/ c.targets = {}
        \/ c.targets \cap claim[a].targets # {}

(* Mutant: the goroutine counts itself in wg once it runs, not Submit. *)
Admit_NotCounted(o, c) ==
    /\ alive = "up" /\ pc[o] = "new" /\ ~closed /\ ~ctxDone /\ ~busyLocked(c)
    /\ claim' = [claim EXCEPT ![o] = c]
    /\ active' = active \cup {o}
    /\ pc' = [pc EXCEPT ![o] = "admitted"]
    /\ UNCHANGED <<wg, cancelled, recent, final, published, catalog, closed, ctxDone,
                   alive, bounds>>

(* Submit, the section under o.mu: refuse when closing or busy, else claim. *)
Admit(o, c) ==
    /\ alive = "up" /\ pc[o] = "new"
    /\ ~closed /\ ~ctxDone
    /\ ~busyLocked(c)
    /\ claim' = [claim EXCEPT ![o] = c]
    /\ active' = active \cup {o}
    /\ wg' = wg \cup {o}
    /\ pc' = [pc EXCEPT ![o] = "admitted"]
    /\ UNCHANGED <<cancelled, recent, final, published, catalog, closed, ctxDone,
                   alive, bounds>>

(* Submit, Store.Update: append the record, trim, bound; start the goroutine. *)
Persist(o) ==
    /\ alive = "up" /\ pc[o] = "admitted"
    /\ history' = BoundHistory(Keep([history EXCEPT ![o] = Running],
                                    Newest(Recorded(history) \cup {o}, o)))
    /\ stamp' = [stamp EXCEPT ![o] = clock]
    /\ clock' = clock + 1
    /\ pc' = [pc EXCEPT ![o] = "running"]
    /\ UNCHANGED <<registry, cancelled, recent, final, published, ctxDone, alive,
                   bounds>>

(* Mutant: the error path of Submit forgets wg.Done. *)
PersistFails_NoDone(o) ==
    /\ alive = "up" /\ pc[o] = "admitted" /\ failures < MaxFailures
    /\ failures' = failures + 1
    /\ active' = active \ {o}
    /\ claim' = [claim EXCEPT ![o] = NoClaim]
    /\ cancelled' = cancelled \ {o}
    /\ pc' = [pc EXCEPT ![o] = "refused"]
    /\ UNCHANGED <<wg, recent, final, published, catalog, closed, ctxDone, alive,
                   restarts>>

(* Submit, Store.Update failed: withdraw the claim and return the error. *)
PersistFails(o) ==
    /\ alive = "up" /\ pc[o] = "admitted"
    /\ failures < MaxFailures
    /\ failures' = failures + 1
    /\ active' = active \ {o}
    /\ claim' = [claim EXCEPT ![o] = NoClaim]
    /\ cancelled' = cancelled \ {o}
    /\ wg' = wg \ {o}
    /\ pc' = [pc EXCEPT ![o] = "refused"]
    /\ UNCHANGED <<recent, final, published, catalog, closed, ctxDone, alive,
                   restarts>>

(* The work returned; its result becomes the final record.  An error under  *)
(* a cancelled context is reported as a cancellation.                       *)
Conclude(o, failed, size) ==
    /\ alive = "up" /\ pc[o] = "running"
    /\ LET state == IF ~failed THEN "succeeded"
                    ELSE IF o \in cancelled THEN "cancelled" ELSE "failed"
       IN  final' = [final EXCEPT ![o] = [state |-> state, size |-> size]]
    /\ pc' = [pc EXCEPT ![o] = "concluded"]
    /\ UNCHANGED <<registry, cancelled, recent, published, catalog, ctxDone, alive,
                   bounds>>

WriteFinal(o, h) ==
    /\ alive = "up" /\ pc[o] = "concluded"
    /\ history' = h
    /\ pc' = [pc EXCEPT ![o] = "recorded"]
    /\ UNCHANGED <<registry, cancelled, recent, final, stamp, clock, ctxDone, alive,
                   bounds>>

(* Mutant: the result replaces the record without boundHistory. *)
RecordFinal_Unbounded(o) ==
    /\ WriteFinal(o, IF o \in Recorded(history)
                     THEN [history EXCEPT ![o] = final[o]] ELSE history)
    /\ UNCHANGED published

(* Mutant: the goroutine gives up when its record was trimmed. *)
RecordFinal_OnlyKept(o) ==
    /\ o \in Recorded(history)
    /\ WriteFinal(o, BoundHistory([history EXCEPT ![o] = final[o]]))
    /\ UNCHANGED published

(* Mutant: the terminal event goes out as soon as the result is written. *)
RecordFinal_Announces(o) ==
    /\ WriteFinal(o, IF o \in Recorded(history)
                     THEN BoundHistory([history EXCEPT ![o] = final[o]]) ELSE history)
    /\ published' = [published EXCEPT ![o] = final[o].state]

(* Store.Update with the final record; a record trimmed meanwhile stays so. *)
RecordFinal(o) ==
    /\ WriteFinal(o, IF o \in Recorded(history)
                     THEN BoundHistory([history EXCEPT ![o] = final[o]])
                     ELSE history)
    /\ UNCHANGED published

(* Store.Update failed: OPERATION_PERSIST, and the file keeps "running". *)
RecordFails(o) ==
    /\ alive = "up" /\ pc[o] = "concluded"
    /\ failures < MaxFailures
    /\ failures' = failures + 1
    /\ final' = [final EXCEPT ![o].state = "failed"]
    /\ pc' = [pc EXCEPT ![o] = "recorded"]
    /\ UNCHANGED <<registry, cancelled, recent, published, catalog, ctxDone, alive,
                   restarts>>

(* recent[id] = finished, then one other entry goes if there are too many. *)
Remember(o, state) ==
    LET all == [recent EXCEPT ![o] = state]
        known == {p \in Op : all[p] # "none"}
    IN  IF Cardinality(known) <= RecentMax
        THEN recent' = all
        ELSE \E p \in known \ {o} : recent' = [all EXCEPT ![p] = "none"]

(* The section under o.mu that releases the claim. *)
Retire(o) ==
    /\ alive = "up" /\ pc[o] = "recorded"
    /\ active' = active \ {o}
    /\ claim' = [claim EXCEPT ![o] = NoClaim]
    /\ cancelled' = cancelled \ {o}
    /\ Remember(o, final[o].state)
    /\ pc' = [pc EXCEPT ![o] = "retired"]
    /\ UNCHANGED <<wg, final, published, catalog, closed, ctxDone, alive, bounds>>

(* bus.Send of the finished record, then the deferred cancel and wg.Done. *)
Publish(o) ==
    /\ alive = "up" /\ pc[o] = "retired"
    /\ published' = [published EXCEPT ![o] = final[o].state]
    /\ wg' = wg \ {o}
    /\ final' = [final EXCEPT ![o] = Absent]
    /\ pc' = [pc EXCEPT ![o] = "done"]
    /\ UNCHANGED <<claim, active, cancelled, recent, catalog, closed, ctxDone, alive,
                   bounds>>

Cancel(o) ==
    /\ alive = "up" /\ o \in active
    /\ cancelled' = cancelled \cup {o}
    /\ UNCHANGED <<pc, registry, recent, final, published, catalog, ctxDone, alive,
                   bounds>>

(* Mutant: the idle check of PrepareStop is missing. *)
PrepareStop_Busy ==
    /\ alive = "up" /\ ~closed /\ ~ctxDone
    /\ closed' = TRUE
    /\ UNCHANGED <<pc, claim, active, cancelled, wg, recent, final, published,
                   catalog, ctxDone, alive, bounds>>

(* PrepareStop with a prepare that succeeds: refuse new work from here on. *)
PrepareStop ==
    /\ alive = "up"
    /\ ~closed /\ ~ctxDone
    /\ active = {}
    /\ closed' = TRUE
    /\ UNCHANGED <<pc, claim, active, cancelled, wg, recent, final, published,
                   catalog, ctxDone, alive, bounds>>

(* Agent.Close cancels the service's context, parent of every operation's. *)
CancelContext ==
    /\ alive = "up" /\ ~ctxDone
    /\ ctxDone' = TRUE
    /\ cancelled' = cancelled \cup active
    /\ UNCHANGED <<pc, registry, recent, final, published, catalog, alive, bounds>>

(* Stop, the section under o.mu. *)
StopAdmitting ==
    /\ alive = "up" /\ ctxDone /\ ~closed
    /\ closed' = TRUE
    /\ cancelled' = cancelled \cup active
    /\ UNCHANGED <<pc, claim, active, wg, recent, final, published, catalog, ctxDone,
                   alive, bounds>>

(* Stop, wg.Wait returns; Close goes on and releases the agent's lock. *)
Drain ==
    /\ alive = "up" /\ ctxDone /\ closed
    /\ wg = {}
    /\ alive' = "stopped"
    /\ UNCHANGED <<pc, registry, cancelled, recent, final, published, catalog,
                   ctxDone, bounds>>

(* Memory as NewOperations makes it. *)
Forget ==
    /\ claim' = [o \in Op |-> NoClaim]
    /\ active' = {} /\ cancelled' = {} /\ wg' = {}
    /\ recent' = [o \in Op |-> "none"]
    /\ final' = [o \in Op |-> Absent]
    /\ closed' = FALSE /\ ctxDone' = FALSE

(* The process dies: goroutines and memory go, the catalog file stays. *)
Crash ==
    /\ alive = "up"
    /\ alive' = "crashed"
    /\ pc' = [o \in Op |-> IF pc[o] \in InFlight THEN "lost" ELSE pc[o]]
    /\ Forget
    /\ UNCHANGED <<published, catalog, bounds>>

Reopen(h) ==
    /\ alive # "up"
    /\ restarts < MaxRestarts
    /\ restarts' = restarts + 1
    /\ history' = h
    /\ Forget
    /\ alive' = "up"
    /\ UNCHANGED <<pc, published, stamp, clock, failures>>

Interrupted == [state |-> "interrupted", size |-> 0]

(* Mutants: OpenStore leaves unfinished records, or marks finished ones too. *)
Restart_KeepsRunning == Reopen(history)
Restart_MarksAll ==
    Reopen([o \in Op |-> IF history[o] # Absent THEN Interrupted ELSE Absent])

(* StartAgent: OpenStore turns the unfinished records into "interrupted". *)
Restart ==
    Reopen([o \in Op |-> IF history[o].state = "running" THEN Interrupted
                         ELSE history[o]])

(* Nothing is left to do: no operation can start again and no restart is   *)
(* allowed by the bound.                                                   *)
Finish ==
    /\ alive # "up" /\ restarts = MaxRestarts
    /\ UNCHANGED vars

Goroutine(o) ==
    \/ Persist(o)
    \/ PersistFails(o)
    \/ \E failed \in BOOLEAN, size \in Size : Conclude(o, failed, size)
    \/ RecordFinal(o)
    \/ RecordFails(o)
    \/ Retire(o)
    \/ Publish(o)

Next ==
    \/ \E o \in Op, c \in Claim : Admit(o, c)
    \/ \E o \in Op : Goroutine(o) \/ Cancel(o)
    \/ PrepareStop
    \/ CancelContext
    \/ StopAdmitting
    \/ Drain
    \/ Crash
    \/ Restart
    \/ Finish

Spec == Init /\ [][Next]_vars

(* The Go scheduler runs every goroutine that can run; the work of an       *)
(* operation returns (its commands have timeouts or its context ends); a   *)
(* Close that has begun runs to its end.                                   *)
Fairness ==
    /\ \A o \in Op : WF_vars(Goroutine(o))
    /\ WF_vars(StopAdmitting)
    /\ WF_vars(Drain)

FairSpec == Spec /\ Fairness
--------------------------------------------------------------------------------
TypeOK ==
    /\ pc \in [Op -> InFlight \cup {"new", "refused", "done", "lost"}]
    /\ claim \in [Op -> Claim \cup {NoClaim}]
    /\ active \subseteq Op /\ cancelled \subseteq Op /\ wg \subseteq Op
    /\ recent \in [Op -> Terminal \cup {"none"}]
    /\ final \in [Op -> Record]
    /\ published \in [Op -> Terminal \cup {"none"}]
    /\ history \in [Op -> Record]
    /\ stamp \in [Op -> Nat] /\ clock \in Nat
    /\ closed \in BOOLEAN /\ ctxDone \in BOOLEAN
    /\ alive \in {"up", "stopped", "crashed"}
    /\ failures \in 0 .. MaxFailures
    /\ restarts \in 0 .. MaxRestarts

(* The work of an operation and the writing of its result run under its    *)
(* claim, and claims that conflict are never held together, whatever is    *)
(* admitted, cancelled, refused by the disk or lost in a crash (Submit and *)
(* busyLocked).                                                            *)
Holds == [o \in Op |-> IF pc[o] \in {"running", "concluded", "recorded"}
                       THEN claim[o] ELSE NoClaim]

Exclusive == INSTANCE Exclusion WITH holds <- Holds

ImplementsExclusion == Exclusive!Spec

(* A terminal event is sent only after the result was written (or its      *)
(* write failed) and the claim released: whoever sees it can submit again  *)
(* and can read a terminal answer or, once evicted and trimmed, none       *)
(* (docs/SPEC-0.7.0.md, "El estado terminal de una operación se publica    *)
(* después de persistir y liberar su exclusión").                          *)
PublishedIsReleased ==
    alive = "up" =>
        \A o \in Op : published[o] # "none" =>
            /\ o \notin active
            /\ history[o].state \in
                 {published[o], "absent"} \cup
                 (IF published[o] = "failed" THEN {"running", "interrupted"} ELSE {})

(* Get never takes a terminal answer back while the result is remembered   *)
(* or was written: it may only forget it.  A crash between the write and   *)
(* the release must not change the answer that the next agent gives.       *)
StableAnswer ==
    [][\A o \in Op :
         ( /\ Get(o) \in Terminal
           /\ history[o].state # "running" \/ recent'[o] # "none" )
         => Get(o)' \in {Get(o), "absent"}]_vars

(* A record says "running" only while its operation is active, or when the *)
(* write of its result failed: no restart leaves an operation of the dead  *)
(* agent running in the history (OpenStore).                               *)
NoGhostRunning ==
    alive = "up" =>
        \A o \in Op : history[o].state = "running" =>
            o \in active \/ "failed" \in {final[o].state, published[o]}

(* From a successful PrepareStop to the end of the agent no operation is   *)
(* active and the history is not written: the updater may replace the      *)
(* program without losing the result of an operation.                      *)
QuietAfterPrepare ==
    [][alive = "up" /\ closed /\ ~ctxDone => active' = {} /\ history' = history]_vars

(* When Stop returns no goroutine of an operation can still touch the      *)
(* catalog, which the next agent may already own.                          *)
StoppedIsQuiet == alive = "stopped" => \A o \in Op : pc[o] \notin InFlight

(* The serialized history always fits the reader's budget once no record   *)
(* can be dropped: it never keeps the agent from opening the catalog.      *)
HistoryFits ==
    /\ Weight(history, Recorded(history)) <= HistoryBudget
    /\ Cardinality(Recorded(history)) <= HistoryMax

(* Every operation admitted ends, and its end is announced, unless the     *)
(* process dies; a Stop that has begun returns.                            *)
AdmittedEnds ==
    \A o \in Op : pc[o] = "admitted" ~> pc[o] \in {"refused", "done", "lost"}
StopReturns == (alive = "up" /\ ctxDone) ~> alive # "up"

(* The comment on boundHistory says "Keep active operations.": the history *)
(* has the record of every operation whose work runs.                      *)
ActiveIsKept ==
    alive = "up" => \A o \in active : pc[o] = "running" => history[o].state = "running"
================================================================================
