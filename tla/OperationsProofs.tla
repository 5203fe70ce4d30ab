--------------------------- MODULE OperationsProofs ---------------------------
(***************************************************************************)
(* Theorems about Operations for any sets of operations, targets and       *)
(* claims and any bounds: type correctness, the registry invariant, that   *)
(* the registry implements Exclusion, and what the history keeps.          *)
(***************************************************************************)
EXTENDS Operations, FiniteSetTheorems, TLAPS

(* The registry while the agent runs: Operations.active and Operations.wg  *)
(* say exactly which calls are under way, an active operation holds the    *)
(* claim it asked for, and no two active claims conflict.                  *)
Holding == {"admitted", "running", "concluded", "recorded"}

ActiveInv ==
    /\ active = {o \in Op : pc[o] \in Holding}
    /\ \A o \in Op : claim[o] = NoClaim <=> o \notin active
    /\ \A o, p \in active : o # p => ~Exclusive!Conflict(claim[o], claim[p])
WaitInv == wg = {o \in Op : pc[o] \in InFlight}
ClosedInv == alive = "up" /\ closed /\ ~ctxDone => active = {}
DeadInv == alive # "up" => \A o \in Op : pc[o] \notin InFlight

(* A work that returned has a terminal record. *)
FinalInv ==
    \A o \in Op : pc[o] \in {"concluded", "recorded", "retired"} =>
                    final[o].state \in Terminal

FlightInv == FinalInv /\ WaitInv /\ DeadInv
RegistryInv == TypeOK /\ FlightInv /\ ActiveInv /\ ClosedInv
--------------------------------------------------------------------------------
(* Bounding, trimming or rewriting a history of records gives one. *)
LEMMA KeepType ==
    ASSUME NEW h \in [Op -> Record], NEW S
    PROVE  Keep(h, S) \in [Op -> Record]
  BY DEF Keep, Record, Absent, Terminal

LEMMA BoundHistoryType ==
    ASSUME NEW h \in [Op -> Record]
    PROVE  BoundHistory(h) \in [Op -> Record]
  <1> DEFINE rest(n) == Recorded(h) \ Oldest(Finished(h), n)
             done(n) == \/ Weight(h, rest(n)) <= HistoryBudget
                        \/ rest(n) \cap Finished(h) = {}
                        \/ Cardinality(rest(n)) = 1
             drops == Min({n \in 0 .. Cardinality(Finished(h)) : done(n)})
             out == Keep(h, rest(drops))
  <1>1. out \in [Op -> Record]
    BY KeepType
  <1>2. BoundHistory(h) = IF Weight(h, rest(drops)) <= HistoryBudget
                          THEN out
                          ELSE [o \in Op |-> [out[o] EXCEPT !.size = 0]]
    BY DEF BoundHistory
  <1> HIDE DEF out, drops
  <1>3. [o \in Op |-> [out[o] EXCEPT !.size = 0]] \in [Op -> Record]
    BY <1>1 DEF Record
  <1>4. QED
    BY <1>1, <1>2, <1>3

LEMMA NoClaimIsNoClaim == NoClaim \notin Claim
  BY ClaimAssumption

(***************************************************************************)
(* Type correctness: every variable of the registry and of the catalog's   *)
(* history keeps its type.                                                 *)
(***************************************************************************)
LEMMA InitType == Init => TypeOK /\ FlightInv
  <1> SUFFICES ASSUME Init PROVE TypeOK /\ FlightInv
    OBVIOUS
  <1>1. failures \in 0 .. MaxFailures /\ restarts \in 0 .. MaxRestarts
    BY BoundAssumption DEF Init
  <1>2. Absent \in Record
    BY DEF Absent, Record
  <1>3. QED
    BY <1>1, <1>2 DEF Init, TypeOK, FlightInv, FinalInv, WaitInv, DeadInv, InFlight,
       Terminal

LEMMA NextType == TypeOK /\ FlightInv /\ [Next]_vars => TypeOK' /\ FlightInv'
  <1> SUFFICES ASSUME TypeOK, FlightInv, [Next]_vars PROVE TypeOK' /\ FlightInv'
    OBVIOUS
  <1> USE DEF TypeOK, FlightInv, FinalInv, WaitInv, DeadInv, InFlight, registry, catalog, bounds
  <1>1. ASSUME NEW o \in Op, NEW c \in Claim, Admit(o, c) PROVE TypeOK' /\ FlightInv'
    BY <1>1 DEF Admit
  <1>2. ASSUME NEW o \in Op, Persist(o) PROVE TypeOK' /\ FlightInv'
    <2>1. [history EXCEPT ![o] = Running] \in [Op -> Record]
      BY DEF Running, Record
    <2>2. history' \in [Op -> Record]
      BY <1>2, <2>1, KeepType, BoundHistoryType DEF Persist
    <2>3. /\ stamp' \in [Op -> Nat] /\ clock' \in Nat
          /\ pc' = [pc EXCEPT ![o] = "running"] /\ pc[o] = "admitted"
          /\ alive = "up" /\ alive' = alive
          /\ UNCHANGED <<registry, cancelled, recent, final, published, ctxDone, bounds>>
      BY <1>2 DEF Persist
    <2>4. QED
      BY <2>2, <2>3
  <1>3. ASSUME NEW o \in Op, PersistFails(o) PROVE TypeOK' /\ FlightInv'
    <2>1. failures' \in 0 .. MaxFailures
      BY <1>3, BoundAssumption DEF PersistFails
    <2>2. QED
      BY <1>3, <2>1 DEF PersistFails
  <1>4. ASSUME NEW o \in Op, NEW failed \in BOOLEAN, NEW size \in Size,
               Conclude(o, failed, size)
        PROVE  TypeOK' /\ FlightInv'
    <2>1. PICK state \in {"succeeded", "cancelled", "failed"} :
                 final' = [final EXCEPT ![o] = [state |-> state, size |-> size]]
      BY <1>4 DEF Conclude
    <2>2. [state |-> state, size |-> size] \in Record /\ state \in Terminal
      BY SizeAssumption DEF Record, Terminal
    <2>3. QED
      BY <1>4, <2>1, <2>2 DEF Conclude
  <1>5. ASSUME NEW o \in Op, RecordFinal(o) PROVE TypeOK' /\ FlightInv'
    <2>1. [history EXCEPT ![o] = final[o]] \in [Op -> Record]
      OBVIOUS
    <2>2. history' \in [Op -> Record]
      BY <1>5, <2>1, BoundHistoryType DEF RecordFinal, WriteFinal
    <2>3. QED
      BY <1>5, <2>2 DEF RecordFinal, WriteFinal
  <1>6. ASSUME NEW o \in Op, RecordFails(o) PROVE TypeOK' /\ FlightInv'
    <2>1. failures' \in 0 .. MaxFailures
      BY <1>6, BoundAssumption DEF RecordFails
    <2>2. final' = [final EXCEPT ![o] = [final[o] EXCEPT !.state = "failed"]]
      BY <1>6 DEF RecordFails
    <2>3. /\ [final[o] EXCEPT !.state = "failed"] \in Record
          /\ [final[o] EXCEPT !.state = "failed"].state \in Terminal
      BY DEF Record, Terminal
    <2>4. QED
      BY <1>6, <2>1, <2>2, <2>3 DEF RecordFails, Terminal
  <1>7. ASSUME NEW o \in Op, Retire(o) PROVE TypeOK' /\ FlightInv'
    <2>1. final[o].state \in Terminal
      BY <1>7 DEF Retire
    <2>2. recent' \in [Op -> Terminal \cup {"none"}]
      BY <1>7, <2>1 DEF Retire, Remember
    <2>3. QED
      BY <1>7, <2>2 DEF Retire
  <1>8. ASSUME NEW o \in Op, Publish(o) PROVE TypeOK' /\ FlightInv'
    <2>1. final[o].state \in Terminal /\ Absent \in Record
      BY <1>8 DEF Publish, Absent, Record
    <2>2. QED
      BY <1>8, <2>1 DEF Publish
  <1>9. ASSUME NEW o \in Op, Cancel(o) PROVE TypeOK' /\ FlightInv'
    BY <1>9 DEF Cancel
  <1>10. CASE PrepareStop
    BY <1>10 DEF PrepareStop
  <1>11. CASE CancelContext
    BY <1>11 DEF CancelContext
  <1>12. CASE StopAdmitting
    BY <1>12 DEF StopAdmitting
  <1>13. CASE Drain
    BY <1>13 DEF Drain
  <1>14. CASE Crash
    <2>1. Absent \in Record
      BY DEF Absent, Record
    <2>2. QED
      BY <1>14, <2>1 DEF Crash, Forget
  <1>15. CASE Restart
    <2>1. Absent \in Record /\ Interrupted \in Record
      BY DEF Absent, Record, Interrupted, Terminal
    <2>2. history' \in [Op -> Record]
      BY <1>15, <2>1 DEF Restart, Reopen
    <2>3. restarts' \in 0 .. MaxRestarts
      BY <1>15, BoundAssumption DEF Restart, Reopen
    <2>4. pc' = pc /\ FlightInv'
      BY <1>15 DEF Restart, Reopen, Forget
    <2>5. QED
      BY <1>15, <2>1, <2>2, <2>3, <2>4 DEF Restart, Reopen, Forget
  <1>16. CASE Finish \/ UNCHANGED vars
    BY <1>16 DEF Finish, vars
  <1>17. QED
    BY <1>1, <1>2, <1>3, <1>4, <1>5, <1>6, <1>7, <1>8, <1>9, <1>10, <1>11, <1>12,
       <1>13, <1>14, <1>15, <1>16 DEF Next, Goroutine

LEMMA Typing == Spec => [](TypeOK /\ FlightInv)
  BY InitType, NextType, PTL DEF Spec

(* TypeOK of the run "operations", for any constants. *)
THEOREM TypeCorrect == Spec => []TypeOK
  BY Typing, PTL

(* When Stop has returned, no goroutine of an operation is left: wg counts  *)
(* every one of them from its admission to its last statement.             *)
THEOREM StopIsQuiet == Spec => []StoppedIsQuiet
  <1>1. TypeOK /\ FlightInv => StoppedIsQuiet
    BY DEF FlightInv, DeadInv, StoppedIsQuiet
  <1>2. QED
    BY <1>1, Typing, PTL
--------------------------------------------------------------------------------
(* The registry: its keys, its claims, and that it closes only when idle.   *)

(* busyLocked refuses every claim that conflicts with an active one.        *)
LEMMA AdmittedIsCompatible ==
    ASSUME NEW c, ~busyLocked(c), NEW a \in active
    PROVE  ~Exclusive!Conflict(c, claim[a]) /\ ~Exclusive!Conflict(claim[a], c)
  BY DEF busyLocked, Exclusive!Conflict

LEMMA InitRegistry == Init => ActiveInv /\ ClosedInv
  BY DEF Init, ActiveInv, ClosedInv, Holding

LEMMA NextRegistry == RegistryInv /\ [Next]_vars => ActiveInv' /\ ClosedInv'
  <1> SUFFICES ASSUME TypeOK, FlightInv, ActiveInv, ClosedInv, [Next]_vars
               PROVE  ActiveInv' /\ ClosedInv'
    BY DEF RegistryInv
  <1> USE DEF Holding, registry, catalog, bounds
  <1>0. pc \in [Op -> InFlight \cup {"new", "refused", "done", "lost"}]
        /\ claim \in [Op -> Claim \cup {NoClaim}] /\ active \subseteq Op
    BY DEF TypeOK
  <1>1. ASSUME NEW o \in Op, NEW c \in Claim, Admit(o, c)
        PROVE  ActiveInv' /\ ClosedInv'
    <2>1. o \notin active /\ ~closed /\ closed' = closed /\ active' = active \cup {o}
      BY <1>1 DEF Admit, ActiveInv
    <2>2. claim' = [claim EXCEPT ![o] = c] /\ pc' = [pc EXCEPT ![o] = "admitted"]
      BY <1>1 DEF Admit
    <2>3. active' = {p \in Op : pc'[p] \in Holding}
      BY <1>0, <2>1, <2>2 DEF ActiveInv
    <2>4. \A p \in Op : claim'[p] = NoClaim <=> p \notin active'
      BY <1>0, <2>1, <2>2, NoClaimIsNoClaim DEF ActiveInv
    <2>5. ASSUME NEW p \in active', NEW q \in active', p # q
          PROVE  ~Exclusive!Conflict(claim'[p], claim'[q])
      <3>1. CASE p = o
        BY <1>0, <1>1, <2>1, <2>2, <2>5, <3>1, AdmittedIsCompatible DEF Admit
      <3>2. CASE q = o
        BY <1>0, <1>1, <2>1, <2>2, <2>5, <3>2, AdmittedIsCompatible DEF Admit
      <3>3. CASE p # o /\ q # o
        BY <1>0, <2>1, <2>2, <2>5, <3>3 DEF ActiveInv
      <3>4. QED
        BY <3>1, <3>2, <3>3
    <2>6. QED
      BY <2>1, <2>3, <2>4, <2>5 DEF ActiveInv, ClosedInv
  <1>2. ASSUME NEW o \in Op, pc[o] \in Holding, pc'[o] \in Holding,
               pc' = [pc EXCEPT ![o] = pc'[o]], UNCHANGED <<registry, ctxDone, alive>>
        PROVE  ActiveInv' /\ ClosedInv'
    BY <1>0, <1>2 DEF ActiveInv, ClosedInv
  <1>3. ASSUME NEW o \in Op, pc[o] \in Holding, pc'[o] \notin Holding,
               pc' = [pc EXCEPT ![o] = pc'[o]], active' = active \ {o},
               claim' = [claim EXCEPT ![o] = NoClaim],
               UNCHANGED <<closed, ctxDone, alive>>
        PROVE  ActiveInv' /\ ClosedInv'
    <2>1. active' = {p \in Op : pc'[p] \in Holding}
      BY <1>0, <1>3 DEF ActiveInv
    <2>2. \A p \in Op : claim'[p] = NoClaim <=> p \notin active'
      BY <1>0, <1>3 DEF ActiveInv
    <2>3. \A p, q \in active' : p # q => ~Exclusive!Conflict(claim'[p], claim'[q])
      BY <1>0, <1>3 DEF ActiveInv
    <2>4. QED
      BY <1>3, <2>1, <2>2, <2>3 DEF ActiveInv, ClosedInv
  <1>4. ASSUME NEW o \in Op, Goroutine(o) PROVE ActiveInv' /\ ClosedInv'
    <2>1. CASE Persist(o)
      BY <1>0, <1>2, <2>1 DEF Persist
    <2>2. CASE PersistFails(o)
      BY <1>0, <1>3, <2>2 DEF PersistFails
    <2>3. CASE \E failed \in BOOLEAN, size \in Size : Conclude(o, failed, size)
      BY <1>0, <1>2, <2>3 DEF Conclude
    <2>4. CASE RecordFinal(o)
      BY <1>0, <1>2, <2>4 DEF RecordFinal, WriteFinal
    <2>5. CASE RecordFails(o)
      BY <1>0, <1>2, <2>5 DEF RecordFails
    <2>6. CASE Retire(o)
      BY <1>0, <1>3, <2>6 DEF Retire
    <2>7. CASE Publish(o)
      BY <1>0, <2>7 DEF Publish, ActiveInv, ClosedInv
    <2>8. QED
      BY <1>4, <2>1, <2>2, <2>3, <2>4, <2>5, <2>6, <2>7 DEF Goroutine
  <1>5. ASSUME NEW o \in Op, Cancel(o) PROVE ActiveInv' /\ ClosedInv'
    BY <1>5 DEF Cancel, ActiveInv, ClosedInv
  <1>6. CASE PrepareStop
    BY <1>6 DEF PrepareStop, ActiveInv, ClosedInv
  <1>7. CASE CancelContext \/ StopAdmitting \/ Drain
    BY <1>7 DEF CancelContext, StopAdmitting, Drain, ActiveInv, ClosedInv
  <1>8. CASE Crash
    BY <1>0, <1>8 DEF Crash, Forget, ActiveInv, ClosedInv, InFlight
  <1>9. CASE Restart
    BY <1>0, <1>9 DEF Restart, Reopen, Forget, ActiveInv, ClosedInv, FlightInv, DeadInv,
       InFlight
  <1>10. CASE Finish \/ UNCHANGED vars
    BY <1>10 DEF Finish, vars, ActiveInv, ClosedInv
  <1>11. QED
    BY <1>1, <1>4, <1>5, <1>6, <1>7, <1>8, <1>9, <1>10 DEF Next

(* The inductive invariant of the registry holds. *)
THEOREM RegistrySound == Spec => []RegistryInv
  <1>1. Init => RegistryInv
    BY InitType, InitRegistry DEF RegistryInv
  <1>2. RegistryInv /\ [Next]_vars => RegistryInv'
    BY NextType, NextRegistry DEF RegistryInv
  <1>3. QED
    BY <1>1, <1>2, PTL DEF Spec

(* QuietAfterPrepare of the run "operations", for any constants.            *)
THEOREM PrepareIsQuiet == Spec => QuietAfterPrepare
  <1>1. RegistryInv /\ RegistryInv' /\ [Next]_vars =>
          [alive = "up" /\ closed /\ ~ctxDone => active' = {} /\ history' = history]_vars
    <2> SUFFICES ASSUME RegistryInv, RegistryInv', [Next]_vars,
                        alive = "up", closed, ~ctxDone
                 PROVE  active' = {} /\ history' = history
      OBVIOUS
    <2>1. active = {} /\ \A o \in Op : pc[o] \notin Holding
      BY DEF RegistryInv, ActiveInv, ClosedInv
    <2>2. ASSUME NEW o \in Op, Goroutine(o) PROVE active' = {} /\ history' = history
      <3>1. Publish(o)
        BY <2>1, <2>2 DEF Goroutine, Holding, Persist, PersistFails, Conclude,
           RecordFinal, WriteFinal, RecordFails, Retire
      <3>2. QED
        BY <2>1, <3>1 DEF Publish, catalog
    <2>3. CASE UNCHANGED vars
      BY <2>1, <2>3 DEF vars
    <2>4. QED
      BY <2>1, <2>2, <2>3 DEF Next, Admit, Cancel, PrepareStop, CancelContext,
         StopAdmitting, Drain, Crash, Forget, Restart, Reopen, Finish, vars, registry,
         catalog
  <1>2. QED
    BY <1>1, RegistrySound, PTL DEF Spec, QuietAfterPrepare
--------------------------------------------------------------------------------
(***************************************************************************)
(* The answers of Get: what the record of an operation, the memory of its  *)
(* result and its terminal event say at each point of its goroutine.  The  *)
(* record agrees with the result, is trimmed, or stayed "running" because  *)
(* its write failed; a restart may only turn the latter to "interrupted".  *)
(***************************************************************************)
Kept(s, result) ==
    s \in {result, "absent"} \/ (result = "failed" /\ s = "running")

Answers(o) ==
    /\ pc[o] \in {"new", "admitted", "refused"} => history[o].state = "absent"
    /\ pc[o] \in {"running", "concluded"} => history[o].state \in {"running", "absent"}
    /\ pc[o] \in {"recorded", "retired"} => Kept(history[o].state, final[o].state)
    /\ pc[o] = "done" => \/ Kept(history[o].state, published[o])
                         \/ published[o] = "failed" /\ history[o].state = "interrupted"
    /\ pc[o] = "lost" /\ alive = "up" => history[o].state # "running"
    /\ published[o] # "none" <=> pc[o] = "done"
    /\ recent[o] # "none" => /\ \/ pc[o] = "retired" /\ recent[o] = final[o].state
                                \/ pc[o] = "done" /\ recent[o] = published[o]
                             /\ Kept(history[o].state, recent[o])

AnswerInv == \A o \in Op : Answers(o)

(* Trimming and bounding drop records; they never change a state. *)
LEMMA KeepStates ==
    ASSUME NEW h, NEW S, NEW o \in Op
    PROVE  Keep(h, S)[o].state \in {h[o].state, "absent"}
  BY DEF Keep, Absent

LEMMA BoundHistoryStates ==
    ASSUME NEW h \in [Op -> Record], NEW o \in Op
    PROVE  BoundHistory(h)[o].state \in {h[o].state, "absent"}
  <1> DEFINE rest(n) == Recorded(h) \ Oldest(Finished(h), n)
             done(n) == \/ Weight(h, rest(n)) <= HistoryBudget
                        \/ rest(n) \cap Finished(h) = {}
                        \/ Cardinality(rest(n)) = 1
             drops == Min({n \in 0 .. Cardinality(Finished(h)) : done(n)})
             out == Keep(h, rest(drops))
  <1>1. out \in [Op -> Record] /\ out[o].state \in {h[o].state, "absent"}
    BY KeepType, KeepStates
  <1>2. BoundHistory(h) = IF Weight(h, rest(drops)) <= HistoryBudget
                          THEN out
                          ELSE [p \in Op |-> [out[p] EXCEPT !.size = 0]]
    BY DEF BoundHistory
  <1> HIDE DEF out, drops
  <1>3. [p \in Op |-> [out[p] EXCEPT !.size = 0]][o].state = out[o].state
    BY <1>1 DEF Record
  <1>4. QED
    BY <1>1, <1>2, <1>3

(* What the two writes of the history do to each record. *)
LEMMA PersistStates ==
    ASSUME TypeOK, NEW o \in Op, Persist(o), NEW p \in Op
    PROVE  history'[p].state \in {IF p = o THEN "running" ELSE history[p].state, "absent"}
  <1> DEFINE h == [history EXCEPT ![o] = Running]
             S == Newest(Recorded(history) \cup {o}, o)
  <1>1. h \in [Op -> Record] /\ Keep(h, S) \in [Op -> Record]
    BY KeepType DEF TypeOK, Running, Record
  <1>2. h[p].state = IF p = o THEN "running" ELSE history[p].state
    BY DEF TypeOK, Running
  <1>3. history' = BoundHistory(Keep(h, S))
    BY DEF Persist
  <1> HIDE DEF h, S
  <1> QED
    BY <1>1, <1>2, <1>3, KeepStates, BoundHistoryStates

LEMMA RecordStates ==
    ASSUME TypeOK, NEW o \in Op, RecordFinal(o), NEW p \in Op
    PROVE  /\ p # o => history'[p].state \in {history[p].state, "absent"}
           /\ history'[o].state \in {final[o].state, "absent"}
  <1>1. CASE o \in Recorded(history)
    <2>1. [history EXCEPT ![o] = final[o]] \in [Op -> Record]
      BY DEF TypeOK
    <2>2. history' = BoundHistory([history EXCEPT ![o] = final[o]])
      BY <1>1 DEF RecordFinal, WriteFinal
    <2> QED
      BY <2>1, <2>2, BoundHistoryStates DEF TypeOK
  <1>2. CASE o \notin Recorded(history)
    BY <1>2 DEF RecordFinal, WriteFinal, Recorded
  <1> QED
    BY <1>1, <1>2

LEMMA InitAnswers == Init => AnswerInv
  BY DEF Init, AnswerInv, Answers, Absent

LEMMA NextAnswers == RegistryInv /\ AnswerInv /\ [Next]_vars => AnswerInv'
  <1> SUFFICES ASSUME RegistryInv, AnswerInv, [Next]_vars, NEW p \in Op
               PROVE  Answers(p)'
    BY DEF AnswerInv
  <1>0. TypeOK /\ FinalInv /\ Answers(p)
    BY DEF RegistryInv, FlightInv, AnswerInv
  <1> USE DEF registry, catalog, bounds
  <1>1. ASSUME NEW o \in Op, NEW c \in Claim, Admit(o, c) PROVE Answers(p)'
    BY <1>0, <1>1 DEF Admit, TypeOK, Answers
  <1>2. ASSUME NEW o \in Op, Persist(o) PROVE Answers(p)'
    <2>1. CASE p = o
      BY <1>0, <1>2, <2>1, PersistStates DEF Persist, TypeOK, Answers
    <2>2. CASE p # o
      BY <1>0, <1>2, <2>2, PersistStates DEF Persist, TypeOK, Answers, Kept
    <2> QED
      BY <2>1, <2>2
  <1>3. ASSUME NEW o \in Op, PersistFails(o) PROVE Answers(p)'
    BY <1>0, <1>3 DEF PersistFails, TypeOK, Answers
  <1>4. ASSUME NEW o \in Op, NEW failed \in BOOLEAN, NEW size \in Size,
               Conclude(o, failed, size)
        PROVE  Answers(p)'
    <2>1. CASE p = o
      BY <1>0, <1>4, <2>1 DEF Conclude, TypeOK, Answers
    <2>2. CASE p # o
      BY <1>0, <1>4, <2>2 DEF Conclude, TypeOK, Answers
    <2> QED
      BY <2>1, <2>2
  <1>5. ASSUME NEW o \in Op, RecordFinal(o) PROVE Answers(p)'
    <2>1. CASE p = o
      BY <1>0, <1>5, <2>1, RecordStates DEF RecordFinal, WriteFinal, TypeOK, Answers, Kept
    <2>2. CASE p # o
      BY <1>0, <1>5, <2>2, RecordStates DEF RecordFinal, WriteFinal, TypeOK, Answers, Kept
    <2> QED
      BY <2>1, <2>2
  <1>6. ASSUME NEW o \in Op, RecordFails(o) PROVE Answers(p)'
    <2>1. final' = [final EXCEPT ![o] = [final[o] EXCEPT !.state = "failed"]]
      BY <1>6 DEF RecordFails
    <2>2. final'[o].state = "failed" /\ (p # o => final'[p] = final[p])
      BY <1>0, <2>1 DEF TypeOK, Record
    <2> QED
      BY <1>0, <1>6, <2>2 DEF RecordFails, TypeOK, Answers, Kept
  <1>7. ASSUME NEW o \in Op, Retire(o) PROVE Answers(p)'
    <2>1. recent'[p] \in {"none", IF p = o THEN final[o].state ELSE recent[p]}
      BY <1>0, <1>7 DEF Retire, Remember, TypeOK
    <2>2. /\ pc' = [pc EXCEPT ![o] = "retired"] /\ pc[o] = "recorded"
          /\ UNCHANGED <<final, published, history, alive>>
      BY <1>7 DEF Retire
    <2> QED
      BY <1>0, <2>1, <2>2 DEF TypeOK, Answers
  <1>8. ASSUME NEW o \in Op, Publish(o) PROVE Answers(p)'
    <2>1. final[o].state \in Terminal
      BY <1>0, <1>8 DEF FinalInv, Publish
    <2> QED
      BY <1>0, <1>8, <2>1 DEF Publish, TypeOK, Answers, Terminal
  <1>9. ASSUME NEW o \in Op, Cancel(o) PROVE Answers(p)'
    BY <1>0, <1>9 DEF Cancel, Answers
  <1>10. CASE PrepareStop \/ CancelContext \/ StopAdmitting \/ Drain
    BY <1>0, <1>10 DEF PrepareStop, CancelContext, StopAdmitting, Drain, Answers
  <1>11. CASE Crash
    BY <1>0, <1>11 DEF Crash, Forget, TypeOK, Answers, InFlight
  <1>12. CASE Restart
    <2>1. pc[p] \notin InFlight
      BY <1>12 DEF Restart, Reopen, RegistryInv, FlightInv, DeadInv
    <2>2. history'[p].state =
             IF history[p].state = "running" THEN "interrupted" ELSE history[p].state
      BY <1>12 DEF Restart, Reopen, Interrupted
    <2>3. /\ pc' = pc /\ published' = published /\ recent'[p] = "none"
          /\ pc[p] \in {"new", "refused", "done", "lost"}
      BY <1>0, <1>12, <2>1 DEF Restart, Reopen, Forget, TypeOK
    <2>4. published[p] # "running"
      BY <1>0 DEF TypeOK, Terminal
    <2> QED
      BY <1>0, <2>2, <2>3, <2>4 DEF Answers, Kept
  <1>13. CASE Finish \/ UNCHANGED vars
    BY <1>0, <1>13 DEF Finish, vars, Answers
  <1> QED
    BY <1>1, <1>2, <1>3, <1>4, <1>5, <1>6, <1>7, <1>8, <1>9, <1>10, <1>11, <1>12, <1>13
       DEF Next, Goroutine

LEMMA AnswersHold == Spec => [](RegistryInv /\ AnswerInv)
  BY InitAnswers, NextAnswers, RegistrySound, PTL DEF Spec

(* PublishedIsReleased of the run "operations": who sees the terminal event *)
(* finds the claim released and no other answer in the history.            *)
THEOREM EventsComeLast == Spec => []PublishedIsReleased
  <1>1. RegistryInv /\ AnswerInv => PublishedIsReleased
    BY DEF RegistryInv, ActiveInv, Holding, AnswerInv, Answers, Kept, PublishedIsReleased
  <1> QED
    BY <1>1, AnswersHold, PTL

(* NoGhostRunning of the run "operations": "running" in the history is the *)
(* truth, or the trace of a write that failed and was announced as such.   *)
THEOREM RunningIsTrue == Spec => []NoGhostRunning
  <1>1. ASSUME RegistryInv, AnswerInv, alive = "up",
               NEW o \in Op, history[o].state = "running"
        PROVE  o \in active \/ "failed" \in {final[o].state, published[o]}
    <2>1. TypeOK /\ FinalInv /\ ActiveInv /\ Answers(o)
      BY <1>1 DEF RegistryInv, FlightInv, AnswerInv
    <2> QED
      BY <1>1, <2>1 DEF TypeOK, FinalInv, ActiveInv, Holding, Answers, Kept, Terminal, InFlight
  <1>2. RegistryInv /\ AnswerInv => NoGhostRunning
    BY <1>1 DEF NoGhostRunning
  <1> QED
    BY <1>2, AnswersHold, PTL

(* What may still happen to an operation whose claim is released. *)
LEMMA ReleasedStep ==
    ASSUME RegistryInv, [Next]_vars, NEW o \in Op, pc[o] \in {"retired", "done", "lost"}
    PROVE  /\ pc'[o] \in {"retired", "done", "lost"}
           /\ recent'[o] \in {"none", recent[o]}
           /\ history[o].state # "running" =>
                 history'[o].state \in {history[o].state, "absent"}
  <1>0. TypeOK
    BY DEF RegistryInv
  <1> USE DEF TypeOK, registry, catalog, bounds
  <1>1. ASSUME NEW p \in Op, Persist(p) \/ RecordFinal(p)
        PROVE  /\ pc'[o] = pc[o] /\ recent' = recent
               /\ history'[o].state \in {history[o].state, "absent"}
    <2>1. p # o
      BY <1>1 DEF Persist, RecordFinal, WriteFinal
    <2> QED
      BY <1>0, <1>1, <2>1, PersistStates, RecordStates DEF Persist, RecordFinal, WriteFinal
  <1>2. ASSUME NEW p \in Op, Retire(p)
        PROVE  pc'[o] = pc[o] /\ recent'[o] \in {"none", recent[o]} /\ history' = history
    <2>1. p # o
      BY <1>2 DEF Retire
    <2> QED
      BY <1>0, <1>2, <2>1 DEF Retire, Remember
  <1>3. ASSUME NEW p \in Op, NEW c \in Claim, Admit(p, c)
        PROVE  pc'[o] = pc[o] /\ recent' = recent /\ history' = history
    BY <1>0, <1>3 DEF Admit
  <1>4. ASSUME NEW p \in Op,
               \/ PersistFails(p) \/ RecordFails(p) \/ Publish(p) \/ Cancel(p)
               \/ \E failed \in BOOLEAN, size \in Size : Conclude(p, failed, size)
        PROVE  pc'[o] \in {pc[o], "done"} /\ recent' = recent /\ history' = history
    BY <1>0, <1>4 DEF PersistFails, RecordFails, Publish, Cancel, Conclude
  <1>5. ASSUME \/ PrepareStop \/ CancelContext \/ StopAdmitting \/ Drain
               \/ Finish \/ UNCHANGED vars
        PROVE  pc' = pc /\ recent' = recent /\ history' = history
    BY <1>5 DEF PrepareStop, CancelContext, StopAdmitting, Drain, Finish, vars
  <1>6. CASE Crash
    BY <1>0, <1>6 DEF Crash, Forget
  <1>7. CASE Restart
    BY <1>0, <1>7 DEF Restart, Reopen, Forget
  <1> QED
    BY <1>1, <1>2, <1>3, <1>4, <1>5, <1>6, <1>7 DEF Next, Goroutine

(* StableAnswer of the run "operations": eviction, trimming, a crash or a  *)
(* restart may make Get forget a terminal answer, never change it.         *)
THEOREM AnswersAreStable == Spec => StableAnswer
  <1>1. ASSUME RegistryInv, AnswerInv, RegistryInv', AnswerInv', [Next]_vars,
               NEW o \in Op, Get(o) \in Terminal,
               history[o].state # "running" \/ recent'[o] # "none"
        PROVE  Get(o)' \in {Get(o), "absent"}
    <2>1. TypeOK /\ ActiveInv /\ Answers(o) /\ ActiveInv' /\ Answers(o)'
      BY <1>1 DEF RegistryInv, AnswerInv
    <2>2. o \notin active /\ pc[o] \in {"retired", "done", "lost"}
      BY <1>1, <2>1 DEF Get, TypeOK, ActiveInv, Holding, Answers, Terminal, InFlight
    <2>3. /\ o \notin active'
          /\ recent'[o] \in {"none", recent[o]}
          /\ history[o].state # "running" =>
                history'[o].state \in {history[o].state, "absent"}
      BY <1>1, <2>1, <2>2, ReleasedStep DEF ActiveInv, Holding
    <2> QED
      BY <1>1, <2>1, <2>2, <2>3 DEF Get, Answers, Kept, Terminal
  <1>2. RegistryInv /\ AnswerInv /\ RegistryInv' /\ AnswerInv' /\ [Next]_vars =>
          [\A o \in Op :
             ( /\ Get(o) \in Terminal
               /\ history[o].state # "running" \/ recent'[o] # "none" )
             => Get(o)' \in {Get(o), "absent"}]_vars
    BY <1>1
  <1> QED
    BY <1>2, AnswersHold, PTL DEF StableAnswer, Spec
--------------------------------------------------------------------------------
(***************************************************************************)
(* Refinement: the work runs from the write of its record (Persist) to the *)
(* release of its claim (Retire).  The first step is Acquire: the claim is *)
(* active since Admit and conflicts with no other active one.              *)
(***************************************************************************)
LEMMA HoldsActive ==
    ASSUME TypeOK, ActiveInv
    PROVE  /\ Holds \in [Op -> Claim \cup {NoClaim}]
           /\ \A o \in Op : Holds[o] # NoClaim => o \in active /\ Holds[o] = claim[o]
           /\ \A o \in Op : pc[o] \in {"running", "concluded", "recorded"} =>
                             Holds[o] # NoClaim
  BY DEF Holds, TypeOK, ActiveInv, Holding

LEMMA StepRefines ==
    ASSUME RegistryInv, [Next]_vars
    PROVE  [Exclusive!Next]_Holds
  <1> USE DEF registry, catalog, bounds
  <1>0. /\ pc \in [Op -> InFlight \cup {"new", "refused", "done", "lost"}]
        /\ claim \in [Op -> Claim \cup {NoClaim}]
        /\ active = {o \in Op : pc[o] \in Holding}
    BY DEF RegistryInv, TypeOK, ActiveInv
  <1>1. ASSUME NEW o \in Op, Persist(o) PROVE [Exclusive!Next]_Holds
    <2>1. o \in active /\ claim[o] \in Claim
      BY <1>0, <1>1, NoClaimIsNoClaim DEF Persist, Holding, RegistryInv, ActiveInv
    <2>2. Holds[o] = NoClaim
      BY <1>1 DEF Persist, Holds
    <2>3. ASSUME NEW p \in Op \ {o}, Holds[p] # NoClaim
          PROVE  ~Exclusive!Conflict(claim[o], Holds[p])
      BY <2>1, <2>3, HoldsActive DEF RegistryInv, ActiveInv
    <2>4. Holds' = [Holds EXCEPT ![o] = claim[o]]
      BY <1>0, <1>1 DEF Persist, Holds
    <2>5. Exclusive!Acquire(o, claim[o])
      BY <2>2, <2>3, <2>4 DEF Exclusive!Acquire, Exclusive!NoClaim, NoClaim
    <2>6. Holds'[o] = claim[o]
      BY <2>4 DEF Holds
    <2>7. QED
      BY <2>1, <2>5, <2>6 DEF Exclusive!Next
  <1>2. ASSUME NEW o \in Op, Retire(o) PROVE [Exclusive!Next]_Holds
    <2>1. Holds[o] # NoClaim
      BY <1>2, HoldsActive DEF Retire, RegistryInv
    <2>2. Holds' = [Holds EXCEPT ![o] = NoClaim]
      BY <1>0, <1>2 DEF Retire, Holds
    <2>3. QED
      BY <2>1, <2>2 DEF Exclusive!Next, Exclusive!Release, Exclusive!NoClaim, NoClaim
  <1>3. CASE Crash
    <2>1. Holds' = [o \in Op |-> NoClaim]
      BY <1>0, <1>3 DEF Crash, Forget, Holds, InFlight
    <2>2. QED
      BY <2>1 DEF Exclusive!Next, Exclusive!ReleaseAll, Exclusive!NoClaim, NoClaim
  <1>4. ASSUME NEW o \in Op, NEW c \in Claim, Admit(o, c) PROVE UNCHANGED Holds
    BY <1>0, <1>4 DEF Admit, Holds
  <1>5. ASSUME NEW o \in Op,
               \/ PersistFails(o)
               \/ \E failed \in BOOLEAN, size \in Size : Conclude(o, failed, size)
               \/ RecordFinal(o) \/ RecordFails(o) \/ Publish(o) \/ Cancel(o)
        PROVE  UNCHANGED Holds
    BY <1>0, <1>5 DEF PersistFails, Conclude, RecordFinal, WriteFinal, RecordFails,
       Publish, Cancel, Holds
  <1>6. ASSUME \/ PrepareStop \/ CancelContext \/ StopAdmitting \/ Drain
               \/ Finish \/ UNCHANGED vars
        PROVE  UNCHANGED Holds
    BY <1>6 DEF PrepareStop, CancelContext, StopAdmitting, Drain, Finish, vars, Holds
  <1>7. CASE Restart
    <2>1. \A o \in Op : pc[o] \notin InFlight
      BY <1>7 DEF Restart, Reopen, RegistryInv, FlightInv, DeadInv
    <2>2. QED
      BY <1>7, <2>1 DEF Restart, Reopen, Forget, Holds, InFlight
  <1>8. QED
    BY <1>1, <1>2, <1>3, <1>4, <1>5, <1>6, <1>7 DEF Next, Goroutine

(* ImplementsExclusion of the run "operations", for any constants.          *)
THEOREM OperationsImplementExclusion == Spec => ImplementsExclusion
  <1>1. Init => Exclusive!Init
    BY DEF Init, Exclusive!Init, Holds, Exclusive!NoClaim, NoClaim
  <1>2. RegistryInv /\ [Next]_vars => [Exclusive!Next]_Holds
    BY StepRefines
  <1>3. QED
    BY <1>1, <1>2, RegistrySound, PTL DEF Spec, ImplementsExclusion, Exclusive!Spec
--------------------------------------------------------------------------------
(***************************************************************************)
(* The size of the history.  Weight is a fold over a set; what it computes *)
(* is reached by taking a smallest subset for which a claim about it would *)
(* fail, the strict subset ordering of a finite set being well founded.    *)
(***************************************************************************)

(* A family of subsets of a finite set has a smallest member. *)
LEMMA Smallest ==
    ASSUME NEW U, IsFiniteSet(U), NEW F \in SUBSET SUBSET U, F # {}
    PROVE  \E s \in F : \A t \in F : t \subseteq s => t = s
  <1>1. F \subseteq FiniteSubsetsOf(U)
    BY FS_FiniteSubsetsOfFinite
  <1>2. IsWellFoundedOn(StrictSubsetOrdering(U), FiniteSubsetsOf(U))
    BY FS_StrictSubsetOrderingWellFounded
  <1>3. PICK s \in F : \A t \in F : ~(<<t, s>> \in StrictSubsetOrdering(U))
    BY <1>1, <1>2, WFMin
  <1>4. QED
    BY <1>3 DEF StrictSubsetOrdering

(* Records of the same sizes weigh the same. *)
LEMMA SameWeight ==
    ASSUME NEW g, NEW h, NEW S, \A o \in S : g[o].size = h[o].size
    PROVE  Weight(g, S) = Weight(h, S)
  <1> DEFINE x(s) == CHOOSE o \in s : TRUE
             G(f) == [s \in SUBSET S |-> IF s = {} THEN 0
                                         ELSE g[x(s)].size + f[s \ {x(s)}]]
             H(f) == [s \in SUBSET S |-> IF s = {} THEN 0
                                         ELSE h[x(s)].size + f[s \ {x(s)}]]
  <1>1. \A s \in SUBSET S : s # {} => x(s) \in S
    OBVIOUS
  <1>2. \A f : G(f) = H(f)
    BY <1>1
  <1>3. Weight(g, S) = (CHOOSE f : f = G(f))[S]
    BY DEF Weight, MapThenSumSet, MapThenFoldSet
  <1>4. Weight(h, S) = (CHOOSE f : f = H(f))[S]
    BY DEF Weight, MapThenSumSet, MapThenFoldSet
  <1> HIDE DEF G, H
  <1>5. \A f : f = G(f) <=> f = H(f)
    BY <1>2, Zenon
  <1>6. (CHOOSE f : f = G(f)) = (CHOOSE f : f = H(f))
    BY <1>5, Zenon
  <1> QED
    BY <1>3, <1>4, <1>6

(* Records that carry nothing weigh nothing, however many they are. *)
LEMMA ZeroWeight ==
    ASSUME NEW h, NEW S, IsFiniteSet(S), \A o \in S : h[o].size = 0
    PROVE  Weight(h, S) = 0
  <1> DEFINE x(s) == CHOOSE o \in s : TRUE
             Sum(f) == [s \in SUBSET S |-> IF s = {} THEN 0
                                           ELSE h[x(s)].size + f[s \ {x(s)}]]
             sum == CHOOSE f : f = Sum(f)
             zero == [s \in SUBSET S |-> 0]
  <1>1. Weight(h, S) = sum[S]
    BY DEF Weight, MapThenSumSet, MapThenFoldSet
  <1>2. \A s \in SUBSET S : s # {} => x(s) \in s /\ s \ {x(s)} \in SUBSET S
    OBVIOUS
  <1>3. zero = Sum(zero)
    BY <1>2
  <1>4. sum = Sum(sum)
    <2> HIDE DEF Sum, zero
    <2> QED
      BY <1>3, Zenon
  <1>5. ASSUME sum[S] # 0 PROVE FALSE
    <2> HIDE DEF sum
    <2> DEFINE Wrong == {t \in SUBSET S : sum[t] # 0}
    <2>0. Wrong \in SUBSET SUBSET S /\ Wrong # {}
      BY <1>5
    <2> HIDE DEF Wrong
    <2>a. \E s \in Wrong : \A t \in Wrong : t \subseteq s => t = s
      BY <2>0, Smallest
    <2>1. PICK s \in SUBSET S : sum[s] # 0 /\ \A t \in Wrong : t \subseteq s => t = s
      BY <2>a DEF Wrong
    <2> USE DEF Wrong
    <2>2. sum[s] = IF s = {} THEN 0 ELSE h[x(s)].size + sum[s \ {x(s)}]
      BY <1>4, <2>1
    <2>3. s # {}
      BY <2>1, <2>2
    <2>4. x(s) \in s /\ h[x(s)].size = 0
      BY <1>2, <2>1, <2>3
    <2>5. sum[s \ {x(s)}] = 0
      BY <1>2, <2>1, <2>3
    <2> QED
      BY <2>1, <2>2, <2>3, <2>4, <2>5
  <1> QED
    BY <1>1, <1>5

(* g adds up the sizes of every subset of S, as the fold in Weight does.   *)
Adds(h, S, g) ==
    g = [s \in SUBSET S |->
           IF s = {} THEN 0
           ELSE LET o == CHOOSE p \in s : TRUE IN h[o].size + g[s \ {o}]]

(* What it adds up for a subset does not depend on the set around it.      *)
LEMMA AddsAlike ==
    ASSUME NEW h, NEW S, IsFiniteSet(S), NEW U \in SUBSET S,
           NEW f, Adds(h, S, f), NEW g, Adds(h, U, g)
    PROVE  \A s \in SUBSET U : f[s] = g[s]
  <1> DEFINE Wrong == {s \in SUBSET U : f[s] # g[s]}
  <1>1. ASSUME Wrong # {} PROVE FALSE
    <2>1. Wrong \in SUBSET SUBSET U /\ IsFiniteSet(U)
      BY FS_Subset
    <2>2. \E s \in Wrong : \A t \in Wrong : t \subseteq s => t = s
      <3> HIDE DEF Wrong
      <3> QED
        BY <1>1, <2>1, Smallest
    <2>3. PICK s \in SUBSET U : f[s] # g[s] /\ \A t \in Wrong : t \subseteq s => t = s
      BY <2>2
    <2> DEFINE o == CHOOSE p \in s : TRUE
    <2>4. f[s] = IF s = {} THEN 0 ELSE h[o].size + f[s \ {o}]
      BY DEF Adds
    <2>5. g[s] = IF s = {} THEN 0 ELSE h[o].size + g[s \ {o}]
      BY DEF Adds
    <2>6. s # {}
      BY <2>3, <2>4, <2>5
    <2>7. o \in s
      BY <2>6
    <2>8. f[s \ {o}] = g[s \ {o}]
      BY <2>3, <2>7
    <2> QED
      BY <2>3, <2>4, <2>5, <2>8
  <1> QED
    BY <1>1

(* The recursion has a solution: with one for each smaller set, the value  *)
(* for a set is that of the solution for the set without the element taken.*)
LEMMA AddsExists ==
    ASSUME NEW h, NEW S, IsFiniteSet(S)
    PROVE  \E f : Adds(h, S, f)
  <1> DEFINE Wrong == {s \in SUBSET S : ~ \E f : Adds(h, s, f)}
  <1>1. ASSUME Wrong # {} PROVE FALSE
    <2>1. \E s \in Wrong : \A t \in Wrong : t \subseteq s => t = s
      <3>1. Wrong \in SUBSET SUBSET S
        OBVIOUS
      <3> HIDE DEF Wrong
      <3> QED
        BY <1>1, <3>1, Smallest
    <2>2. PICK U \in SUBSET S : /\ ~ \E f : Adds(h, U, f)
                                /\ \A t \in Wrong : t \subseteq U => t = U
      BY <2>1
    <2> DEFINE o(s) == CHOOSE p \in s : TRUE
               less(s) == s \ {o(s)}
               sol(s) == CHOOSE f : Adds(h, s, f)
               sum == [s \in SUBSET U |-> IF s = {} THEN 0
                                          ELSE h[o(s)].size + sol(less(s))[less(s)]]
    <2>3. \A s \in SUBSET U : s # {} => less(s) \in SUBSET U /\ less(s) # U
      OBVIOUS
    <2>4. \A s \in SUBSET U : s # U => Adds(h, s, sol(s))
      <3> SUFFICES ASSUME NEW s \in SUBSET U, s # U PROVE Adds(h, s, sol(s))
        OBVIOUS
      <3>1. \E f : Adds(h, s, f)
        BY <2>2
      <3> HIDE DEF Adds
      <3> QED
        BY <3>1, Zenon
    <2>5. \A s \in SUBSET U : s # U => sum[s] = sol(s)[s]
      <3> SUFFICES ASSUME NEW s \in SUBSET U, s # U PROVE sum[s] = sol(s)[s]
        OBVIOUS
      <3>1. Adds(h, s, sol(s))
        BY <2>4
      <3>2. sol(s)[s] = IF s = {} THEN 0 ELSE h[o(s)].size + sol(s)[less(s)]
        <4> HIDE DEF sol
        <4> QED
          BY <3>1 DEF Adds
      <3>3. CASE s = {}
        BY <3>2, <3>3
      <3>4. CASE s # {}
        <4>1. less(s) \in SUBSET s /\ less(s) # U /\ less(s) \in SUBSET U
          BY <3>4
        <4>2. Adds(h, less(s), sol(less(s)))
          BY <2>4, <4>1
        <4>3. IsFiniteSet(s)
          BY FS_Subset
        <4> HIDE DEF less, sol
        <4>4. sol(s)[less(s)] = sol(less(s))[less(s)]
          BY <3>1, <4>1, <4>2, <4>3, AddsAlike
        <4> QED
          BY <3>2, <3>4, <4>4
      <3> QED
        BY <3>3, <3>4
    <2>6. sum = [s \in SUBSET U |-> IF s = {} THEN 0 ELSE h[o(s)].size + sum[less(s)]]
      <3>1. \A s \in SUBSET U : s # {} => sum[less(s)] = sol(less(s))[less(s)]
        BY <2>3, <2>5
      <3>2. \A s \in SUBSET U : sum[s] = IF s = {} THEN 0 ELSE h[o(s)].size + sum[less(s)]
        <4> HIDE DEF sol, less, o
        <4> QED
          BY <3>1
      <3>3. sum = [s \in SUBSET U |-> sum[s]]
        OBVIOUS
      <3> HIDE DEF sum, less, o
      <3> QED
        BY <3>2, <3>3
    <2>7. Adds(h, U, sum)
      <3> HIDE DEF sum
      <3> QED
        BY <2>6 DEF Adds
    <2> QED
      BY <2>2, <2>7
  <1> QED
    BY <1>1

(* Weight is a sum: one record more is its size more, whichever it is.     *)
LEMMA WeightIsSum ==
    ASSUME NEW h, NEW S, IsFiniteSet(S), \A o \in S : h[o].size \in Nat
    PROVE  /\ Weight(h, S) \in Nat
           /\ \A o \in S : Weight(h, S) = h[o].size + Weight(h, S \ {o})
  <1> DEFINE x(s) == CHOOSE p \in s : TRUE
  <1>1. \A s \in SUBSET S : \E f : Adds(h, s, f) /\ Weight(h, s) = f[s]
    <2> SUFFICES ASSUME NEW s \in SUBSET S PROVE \E f : Adds(h, s, f) /\ Weight(h, s) = f[s]
      OBVIOUS
    <2>1. \E f : Adds(h, s, f)
      BY FS_Subset, AddsExists
    <2>2. Weight(h, s) = (CHOOSE f : Adds(h, s, f))[s]
      BY DEF Adds, Weight, MapThenSumSet, MapThenFoldSet
    <2> HIDE DEF Adds
    <2> QED
      BY <2>1, <2>2, Zenon
  <1>2. \A s \in SUBSET S : s # {} => Weight(h, s) = h[x(s)].size + Weight(h, s \ {x(s)})
    <2> SUFFICES ASSUME NEW s \in SUBSET S, s # {}
                 PROVE  Weight(h, s) = h[x(s)].size + Weight(h, s \ {x(s)})
      OBVIOUS
    <2>1. PICK f : Adds(h, s, f) /\ Weight(h, s) = f[s]
      BY <1>1
    <2>2. x(s) \in s /\ s \ {x(s)} \in SUBSET s /\ s \ {x(s)} \in SUBSET S /\ IsFiniteSet(s)
      BY FS_Subset
    <2>3. PICK g : Adds(h, s \ {x(s)}, g) /\ Weight(h, s \ {x(s)}) = g[s \ {x(s)}]
      BY <1>1, <2>2
    <2>4. f[s] = h[x(s)].size + f[s \ {x(s)}]
      BY <2>1 DEF Adds
    <2> HIDE DEF x
    <2>5. f[s \ {x(s)}] = g[s \ {x(s)}]
      BY <2>1, <2>2, <2>3, AddsAlike
    <2> QED
      BY <2>1, <2>3, <2>4, <2>5
  <1>3. Weight(h, {}) = 0
    <2>1. PICK f : Adds(h, {}, f) /\ Weight(h, {}) = f[{}]
      BY <1>1
    <2> QED
      BY <2>1 DEF Adds
  <1> DEFINE W == [s \in SUBSET S |-> Weight(h, s)]
             Wrong == {s \in SUBSET S : ~ (/\ W[s] \in Nat
                                           /\ \A o \in s : W[s] = h[o].size + W[s \ {o}])}
  <1>4. W[{}] = 0 /\ \A s \in SUBSET S : s # {} => W[s] = h[x(s)].size + W[s \ {x(s)}]
    <2>1. \A s \in SUBSET S : s \ {x(s)} \in SUBSET S
      OBVIOUS
    <2> HIDE DEF x
    <2> QED
      BY <1>2, <1>3, <2>1
  <1> HIDE DEF W
  <1>5. ASSUME Wrong # {} PROVE FALSE
    <2>1. \E s \in Wrong : \A t \in Wrong : t \subseteq s => t = s
      <3>1. Wrong \in SUBSET SUBSET S
        OBVIOUS
      <3> HIDE DEF Wrong
      <3> QED
        BY <1>5, <3>1, Smallest
    <2>2. PICK s \in SUBSET S : s \in Wrong /\ \A t \in Wrong : t \subseteq s => t = s
      BY <2>1
    <2>3. \A t \in SUBSET s : t # s =>
             W[t] \in Nat /\ \A o \in t : W[t] = h[o].size + W[t \ {o}]
      BY <2>2
    <2>4. s # {}
      <3>1. CASE s = {}
        <4>1. W[s] \in Nat /\ \A o \in s : W[s] = h[o].size + W[s \ {o}]
          BY <1>4, <3>1
        <4> QED
          BY <2>2, <4>1
      <3> QED
        BY <3>1
    <2>5. x(s) \in s /\ x(s) \in S
      BY <2>4
    <2> DEFINE y == x(s)
    <2>6. W[s] = h[y].size + W[s \ {y}] /\ y \in s /\ y \in S
      BY <1>4, <2>4, <2>5
    <2> HIDE DEF y
    <2>7. W[s \ {y}] \in Nat /\ h[y].size \in Nat
      BY <2>3, <2>6
    <2>8. ASSUME NEW o \in s, o # y PROVE W[s] = h[o].size + W[s \ {o}]
      <3>1. W[s \ {y}] = h[o].size + W[(s \ {y}) \ {o}]
        BY <2>3, <2>6, <2>8
      <3>2. W[s \ {o}] = h[y].size + W[(s \ {o}) \ {y}]
        BY <2>3, <2>6, <2>8
      <3>3. (s \ {y}) \ {o} = (s \ {o}) \ {y}
        OBVIOUS
      <3> DEFINE rest == W[(s \ {o}) \ {y}]
      <3>4. h[o].size \in Nat /\ rest \in Nat
        BY <2>3, <2>8
      <3>5. W[s \ {y}] = h[o].size + rest /\ W[s \ {o}] = h[y].size + rest
        BY <3>1, <3>2, <3>3
      <3> HIDE DEF rest
      <3> QED
        BY <2>6, <2>7, <3>4, <3>5
    <2>9. W[s] \in Nat /\ \A o \in s : W[s] = h[o].size + W[s \ {o}]
      <3>1. W[s] \in Nat
        BY <2>6, <2>7
      <3>2. ASSUME NEW o \in s PROVE W[s] = h[o].size + W[s \ {o}]
        <4>1. CASE o = y
          BY <2>6, <4>1
        <4>2. CASE o # y
          BY <2>8, <4>2
        <4> QED
          BY <4>1, <4>2
      <3> QED
        BY <3>1, <3>2
    <2> QED
      BY <2>2, <2>9
  <1>6. W[S] \in Nat /\ \A o \in S : W[S] = h[o].size + W[S \ {o}]
    BY <1>5
  <1> QED
    BY <1>6 DEF W

(* A part weighs no more than the whole, and as much when the rest carries *)
(* nothing.                                                                *)
LEMMA WeightOfPart ==
    ASSUME NEW h, NEW S, IsFiniteSet(S), \A o \in S : h[o].size \in Nat, NEW T \in SUBSET S
    PROVE  /\ Weight(h, T) \in Nat /\ Weight(h, S) \in Nat
           /\ Weight(h, T) <= Weight(h, S)
           /\ (\A o \in S \ T : h[o].size = 0) => Weight(h, S) = Weight(h, T)
  <1> DEFINE W == [s \in SUBSET S |-> Weight(h, s)]
             light == \A o \in S \ T : h[o].size = 0
             Wrong == {s \in SUBSET S : /\ T \subseteq s
                                        /\ ~ (W[T] <= W[s] /\ (light => W[s] = W[T]))}
  <1>1. \A s \in SUBSET S : W[s] \in Nat /\ \A o \in s : W[s] = h[o].size + W[s \ {o}]
    <2> SUFFICES ASSUME NEW s \in SUBSET S
                 PROVE  W[s] \in Nat /\ \A o \in s : W[s] = h[o].size + W[s \ {o}]
      OBVIOUS
    <2>1. IsFiniteSet(s) /\ \A o \in s : h[o].size \in Nat
      BY FS_Subset
    <2>2. Weight(h, s) \in Nat /\ \A o \in s : Weight(h, s) = h[o].size + Weight(h, s \ {o})
      BY <2>1, WeightIsSum
    <2>3. W[s] = Weight(h, s) /\ \A o \in s : W[s \ {o}] = Weight(h, s \ {o})
      OBVIOUS
    <2> QED
      BY <2>2, <2>3
  <1> HIDE DEF W, light
  <1>2. ASSUME Wrong # {} PROVE FALSE
    <2>1. \E s \in Wrong : \A t \in Wrong : t \subseteq s => t = s
      <3>1. Wrong \in SUBSET SUBSET S
        OBVIOUS
      <3> HIDE DEF Wrong
      <3> QED
        BY <1>2, <3>1, Smallest
    <2>2. PICK s \in SUBSET S : s \in Wrong /\ \A t \in Wrong : t \subseteq s => t = s
      BY <2>1
    <2>3. s # T /\ T \subseteq s
      BY <1>1, <2>2
    <2>4. PICK o \in s : o \notin T
      BY <2>3
    <2>5. s \ {o} \notin Wrong /\ T \subseteq s \ {o} /\ s \ {o} \in SUBSET S
      BY <2>2, <2>3, <2>4
    <2>6. W[T] <= W[s \ {o}] /\ (light => W[s \ {o}] = W[T])
      BY <2>5
    <2>7. W[s] = h[o].size + W[s \ {o}] /\ W[s] \in Nat /\ W[T] \in Nat /\ W[s \ {o}] \in Nat
      BY <1>1, <2>5
    <2>8. h[o].size \in Nat /\ (light => h[o].size = 0)
      BY <2>4 DEF light
    <2> QED
      BY <2>2, <2>6, <2>7, <2>8
  <1>3. W[T] <= W[S] /\ (light => W[S] = W[T])
    BY <1>2
  <1> QED
    BY <1>1, <1>3 DEF W, light

(* Among finitely many records one was appended first. *)
LEMMA Earliest ==
    ASSUME NEW S \in SUBSET Op, IsFiniteSet(S), S # {}, stamp \in [Op -> Nat]
    PROVE  \E p \in S : \A q \in S : stamp[p] <= stamp[q]
  <1> DEFINE below(p) == {q \in S : stamp[q] <= stamp[p]}
             F == {below(p) : p \in S}
  <1>1. F \in SUBSET SUBSET S /\ F # {}
    OBVIOUS
  <1>2. \E s \in F : \A t \in F : t \subseteq s => t = s
    <2> HIDE DEF F
    <2> QED
      BY <1>1, Smallest
  <1>3. PICK p \in S : \A t \in F : t \subseteq below(p) => t = below(p)
    BY <1>2
  <1>4. ASSUME NEW q \in S, ~(stamp[p] <= stamp[q]) PROVE FALSE
    <2>1. stamp[q] < stamp[p] /\ stamp[p] \in Nat /\ stamp[q] \in Nat
      BY <1>4
    <2>2. below(q) \subseteq below(p)
      BY <2>1
    <2>3. p \in below(p) /\ p \notin below(q)
      BY <2>1
    <2>4. below(q) \in F
      OBVIOUS
    <2> QED
      BY <1>3, <2>2, <2>3, <2>4
  <1> QED
    BY <1>4

(* At most n records have fewer than n records after them. *)
LEMMA NewestAreFew ==
    ASSUME NEW T \in SUBSET Op, IsFiniteSet(T), NEW n \in Nat, stamp \in [Op -> Nat],
           \A p, q \in T : stamp[p] = stamp[q] => p = q,
           NEW few, few = {p \in T : Cardinality({q \in T : stamp[q] > stamp[p]}) < n}
    PROVE  IsFiniteSet(few) /\ Cardinality(few) <= n
  <1> DEFINE above(p) == {q \in T : stamp[q] > stamp[p]}
  <1>1. IsFiniteSet(few) /\ few \in SUBSET Op /\ few \subseteq T
    BY FS_Subset
  <1>2. CASE few = {}
    <2>1. Cardinality(few) = 0
      BY <1>2, FS_EmptySet
    <2> QED
      BY <1>1, <2>1
  <1>3. CASE few # {}
    <2>1. PICK p \in few : \A q \in few : stamp[p] <= stamp[q]
      BY <1>1, <1>3, Earliest
    <2>2. few \ {p} \subseteq above(p)
      <3> SUFFICES ASSUME NEW q \in few, q # p PROVE q \in above(p)
        OBVIOUS
      <3>1. stamp[p] <= stamp[q] /\ stamp[p] # stamp[q] /\ q \in T
        BY <1>1, <2>1
      <3>2. stamp[p] \in Nat /\ stamp[q] \in Nat
        BY <1>1
      <3> QED
        BY <3>1, <3>2
    <2>3. IsFiniteSet(above(p)) /\ Cardinality(above(p)) \in Nat
      BY FS_Subset, FS_CardinalityType
    <2>4. Cardinality(few \ {p}) <= Cardinality(above(p))
      BY <2>2, <2>3, FS_Subset
    <2>5. Cardinality(few \ {p}) = Cardinality(few) - 1 /\ Cardinality(few) \in Nat
      BY <1>1, FS_RemoveElement, FS_CardinalityType
    <2>6. Cardinality(above(p)) < n
      OBVIOUS
    <2> QED
      BY <1>1, <2>3, <2>4, <2>5, <2>6
  <1> QED
    BY <1>2, <1>3

(* boundHistory adds no record, and what it returns fits the budget: either *)
(* enough was dropped, or what is left loses its lines and its results.    *)
LEMMA BoundHistoryFits ==
    ASSUME NEW h \in [Op -> Record], IsFiniteSet(Recorded(h))
    PROVE  /\ Recorded(BoundHistory(h)) \subseteq Recorded(h)
           /\ Weight(BoundHistory(h), Recorded(BoundHistory(h))) <= HistoryBudget
           /\ \A o \in Op : BoundHistory(h)[o].size \in {h[o].size, 0}
  <1> DEFINE rest(n) == Recorded(h) \ Oldest(Finished(h), n)
             done(n) == \/ Weight(h, rest(n)) <= HistoryBudget
                        \/ rest(n) \cap Finished(h) = {}
                        \/ Cardinality(rest(n)) = 1
             drops == Min({n \in 0 .. Cardinality(Finished(h)) : done(n)})
             R == rest(drops)
             out == Keep(h, R)
             bare == [o \in Op |-> [out[o] EXCEPT !.size = 0]]
  <1>1. BoundHistory(h) = IF Weight(h, R) <= HistoryBudget THEN out ELSE bare
    BY DEF BoundHistory
  <1>2. R \subseteq Recorded(h)
    OBVIOUS
  <1> HIDE DEF R
  <1>3. IsFiniteSet(R)
    BY <1>2, FS_Subset
  <1>4. out \in [Op -> Record]
    BY KeepType
  <1>5. \A o \in R : out[o] = h[o]
    BY <1>2 DEF Keep, Recorded
  <1>6. Recorded(out) = R /\ Recorded(bare) = R
    BY <1>2, <1>4 DEF Keep, Recorded, Record, Absent
  <1>7. Weight(out, R) = Weight(h, R)
    BY <1>5, SameWeight
  <1>8. \A o \in Op : bare[o].size = 0 /\ out[o].size \in {h[o].size, 0}
    BY <1>4 DEF Keep, Record, Absent
  <1>9. Weight(bare, R) = 0
    <2>1. \A o \in R : bare[o].size = 0
      BY <1>2, <1>8 DEF Recorded
    <2> HIDE DEF bare
    <2> QED
      BY <1>3, <2>1, ZeroWeight
  <1> HIDE DEF out, bare
  <1>10. CASE Weight(h, R) <= HistoryBudget
    BY <1>1, <1>2, <1>6, <1>7, <1>8, <1>10
  <1>11. CASE ~(Weight(h, R) <= HistoryBudget)
    BY <1>1, <1>2, <1>6, <1>8, <1>9, <1>11, BoundAssumption
  <1> QED
    BY <1>10, <1>11

(* The records in the catalog have positions of their own, given out       *)
(* before the next one, and a record without a result weighs nothing.      *)
StampInv ==
    /\ \A o \in Recorded(history) : stamp[o] < clock
    /\ \A o, p \in Recorded(history) : stamp[o] = stamp[p] => o = p
UnwrittenInv == \A o \in Op : history[o].state = "running" => history[o].size = 0

HistoryInv ==
    IsFiniteSet(Recorded(history)) /\ StampInv /\ UnwrittenInv /\ HistoryFits

(* The inductive invariant of the history; the file of a catalog with no   *)
(* operation satisfies it.                                                 *)
LEMMA InitHistory == Init => HistoryInv
  <1> SUFFICES ASSUME Init PROVE HistoryInv
    OBVIOUS
  <1>1. Recorded(history) = {}
    BY DEF Init, Recorded, Absent
  <1>2. IsFiniteSet({}) /\ Cardinality({}) = 0
    BY FS_EmptySet
  <1>3. Weight(history, {}) = 0
    BY <1>2, ZeroWeight
  <1>4. HistoryFits
    BY <1>1, <1>2, <1>3, BoundAssumption DEF HistoryFits
  <1> QED
    BY <1>1, <1>2, <1>4 DEF HistoryInv, StampInv, UnwrittenInv, Init, Absent

(* Submit appends one record: the newest HistoryMax - 1 stay beside it, and *)
(* it takes the next position.                                             *)
LEMMA PersistHistory ==
    ASSUME TypeOK, HistoryInv, NEW o \in Op, Persist(o)
    PROVE  HistoryInv'
  <1> DEFINE T == Recorded(history) \ {o}
             S == Newest(Recorded(history) \cup {o}, o)
             few == {p \in T : Cardinality({q \in T : stamp[q] > stamp[p]}) < HistoryMax - 1}
             h == [history EXCEPT ![o] = Running]
             k == Keep(h, S)
  <1>1. T \in SUBSET Op /\ IsFiniteSet(T) /\ stamp \in [Op -> Nat] /\ HistoryMax - 1 \in Nat
    BY FS_RemoveElement, BoundAssumption DEF HistoryInv, Recorded, TypeOK
  <1>2. \A p, q \in T : stamp[p] = stamp[q] => p = q
    BY DEF HistoryInv, StampInv
  <1>3. IsFiniteSet(few) /\ Cardinality(few) <= HistoryMax - 1
    BY <1>1, <1>2, NewestAreFew
  <1>4. S = few \cup {o} /\ o \notin few
    BY DEF Newest
  <1>5. IsFiniteSet(S) /\ Cardinality(S) <= HistoryMax
    <2> HIDE DEF few, S
    <2>1. Cardinality(few) \in Nat
      BY <1>3, FS_CardinalityType
    <2>2. IsFiniteSet(few \cup {o}) /\ Cardinality(few \cup {o}) = Cardinality(few) + 1
      BY <1>3, <1>4, FS_AddElement
    <2> QED
      BY <1>3, <1>4, <2>1, <2>2, BoundAssumption
  <1>6. h \in [Op -> Record] /\ k \in [Op -> Record]
    BY KeepType DEF TypeOK, Running, Record
  <1>7. Recorded(k) \subseteq S /\ Recorded(k) \subseteq Recorded(history) \cup {o}
    BY <1>6 DEF Keep, Recorded, Absent, Newest
  <1>8. history' = BoundHistory(k) /\ stamp' = [stamp EXCEPT ![o] = clock] /\ clock' = clock + 1
    BY DEF Persist
  <1> HIDE DEF S, k
  <1>9. IsFiniteSet(Recorded(k)) /\ Cardinality(Recorded(k)) <= Cardinality(S)
    BY <1>5, <1>7, FS_Subset
  <1>10. Recorded(history)' = Recorded(BoundHistory(k))
    BY <1>8 DEF Recorded
  <1>11. /\ Recorded(history)' \subseteq Recorded(k)
         /\ Weight(history', Recorded(history)') <= HistoryBudget
         /\ \A p \in Op : history'[p].size \in {k[p].size, 0}
    BY <1>6, <1>8, <1>9, <1>10, BoundHistoryFits
  <1>12. HistoryFits' /\ IsFiniteSet(Recorded(history)')
    <2>1. /\ IsFiniteSet(Recorded(history)')
          /\ Cardinality(Recorded(history)') <= Cardinality(Recorded(k))
      BY <1>9, <1>11, FS_Subset
    <2>2. /\ Cardinality(Recorded(history)') \in Nat /\ Cardinality(Recorded(k)) \in Nat
          /\ Cardinality(S) \in Nat
      BY <1>5, <1>9, <2>1, FS_CardinalityType
    <2>3. Cardinality(Recorded(history)') <= HistoryMax
      BY <1>5, <1>9, <2>1, <2>2, BoundAssumption
    <2> QED
      BY <1>11, <2>1, <2>3 DEF HistoryFits
  <1>13. StampInv'
    <2>1. Recorded(history)' \subseteq Recorded(history) \cup {o}
      BY <1>7, <1>11
    <2> HIDE DEF k
    <2>2. \A p \in Recorded(history) : p \in Op /\ stamp[p] < clock /\ stamp[p] \in Nat
      BY DEF HistoryInv, StampInv, Recorded, TypeOK
    <2>3. \A p \in Op : stamp'[p] = IF p = o THEN clock ELSE stamp[p]
      BY <1>1, <1>8
    <2>4. clock \in Nat /\ clock' = clock + 1
      BY <1>8 DEF TypeOK
    <2>5. \A p \in Recorded(history)' : stamp'[p] < clock'
      BY <2>1, <2>2, <2>3, <2>4
    <2>6. \A p, q \in Recorded(history)' : stamp'[p] = stamp'[q] => p = q
      BY <2>1, <2>2, <2>3, <2>4 DEF HistoryInv, StampInv
    <2> QED
      BY <2>5, <2>6 DEF StampInv
  <1>14. UnwrittenInv'
    <2> SUFFICES ASSUME NEW p \in Op, history'[p].state = "running"
                 PROVE  history'[p].size = 0
      BY DEF UnwrittenInv
    <2>1. k[p].state = "running"
      BY <1>6, <1>8, BoundHistoryStates
    <2>2. k[p] = h[p]
      BY <2>1 DEF k, Keep, Absent
    <2>3. h[p].size = 0
      BY <2>1, <2>2 DEF Running, HistoryInv, UnwrittenInv, TypeOK
    <2> QED
      BY <1>11, <2>2, <2>3
  <1> QED
    BY <1>12, <1>13, <1>14 DEF HistoryInv

(* The result replaces the record it belongs to, or is not written at all. *)
LEMMA RecordHistory ==
    ASSUME RegistryInv, HistoryInv, NEW o \in Op, RecordFinal(o)
    PROVE  HistoryInv'
  <1>1. CASE o \notin Recorded(history)
    <2>1. UNCHANGED <<history, stamp, clock>>
      BY <1>1 DEF RecordFinal, WriteFinal
    <2> QED
      BY <2>1 DEF HistoryInv, StampInv, UnwrittenInv, HistoryFits, Recorded
  <1>2. CASE o \in Recorded(history)
    <2> DEFINE h == [history EXCEPT ![o] = final[o]]
    <2>1. h \in [Op -> Record] /\ h[o].state \in Terminal /\ h[o].state # "running"
      BY DEF RegistryInv, TypeOK, FlightInv, FinalInv, RecordFinal, WriteFinal, Terminal
    <2>2. history' = BoundHistory(h) /\ UNCHANGED <<stamp, clock>>
      BY <1>2 DEF RecordFinal, WriteFinal
    <2>3. Recorded(h) = Recorded(history)
      BY <1>2, <2>1 DEF Recorded, RegistryInv, TypeOK, Terminal
    <2> HIDE DEF h
    <2>4. /\ Recorded(history)' \subseteq Recorded(history)
          /\ Weight(history', Recorded(history)') <= HistoryBudget
          /\ \A p \in Op : history'[p].size \in {h[p].size, 0}
      <3>1. Recorded(history)' = Recorded(BoundHistory(h))
        BY <2>2 DEF Recorded
      <3> QED
        BY <2>1, <2>2, <2>3, <3>1, BoundHistoryFits DEF HistoryInv
    <2>5. HistoryFits' /\ IsFiniteSet(Recorded(history)')
      <3>1. /\ IsFiniteSet(Recorded(history)')
            /\ Cardinality(Recorded(history)') <= Cardinality(Recorded(history))
        BY <2>4, FS_Subset DEF HistoryInv
      <3>2. Cardinality(Recorded(history)') \in Nat /\ Cardinality(Recorded(history)) \in Nat
        BY <3>1, FS_CardinalityType DEF HistoryInv
      <3> QED
        BY <2>4, <3>1, <3>2, BoundAssumption DEF HistoryInv, HistoryFits
    <2>6. StampInv'
      BY <2>2, <2>4 DEF HistoryInv, StampInv
    <2>7. UnwrittenInv'
      <3> SUFFICES ASSUME NEW p \in Op, history'[p].state = "running"
                   PROVE  history'[p].size = 0
        BY DEF UnwrittenInv
      <3>1. h[p].state = "running"
        BY <2>1, <2>2, BoundHistoryStates
      <3>2. h[p].size = 0
        BY <2>1, <3>1 DEF h, HistoryInv, UnwrittenInv, RegistryInv, TypeOK
      <3> QED
        BY <2>4, <3>2
    <2> QED
      BY <2>5, <2>6, <2>7 DEF HistoryInv
  <1> QED
    BY <1>1, <1>2

(* A record that a restart marks as interrupted carried nothing before.    *)
LEMMA RestartHistory ==
    ASSUME TypeOK, HistoryInv, Restart
    PROVE  HistoryInv'
  <1>1. /\ history' = [o \in Op |-> IF history[o].state = "running" THEN Interrupted
                                    ELSE history[o]]
        /\ UNCHANGED <<stamp, clock>>
    BY DEF Restart, Reopen
  <1>2. Recorded(history)' = Recorded(history)
    BY <1>1 DEF Recorded, Interrupted, TypeOK
  <1>3. \A o \in Recorded(history) : history'[o].size = history[o].size
    BY <1>1 DEF Recorded, Interrupted, HistoryInv, UnwrittenInv
  <1>4. Weight(history', Recorded(history)) = Weight(history, Recorded(history))
    BY <1>3, SameWeight
  <1>5. HistoryFits'
    BY <1>2, <1>4 DEF HistoryFits, HistoryInv
  <1>6. UnwrittenInv'
    BY <1>1 DEF UnwrittenInv, Interrupted, HistoryInv
  <1> QED
    BY <1>1, <1>2, <1>5, <1>6 DEF HistoryInv, StampInv

(* The steps that write the history of operations.                         *)
LEMMA HistoryWrites ==
    ASSUME [Next]_vars
    PROVE  \/ \E o \in Op : Persist(o) \/ RecordFinal(o)
           \/ Restart
           \/ UNCHANGED <<history, stamp, clock>>
  BY DEF Next, Goroutine, Admit, PersistFails, Conclude, RecordFails, Retire, Publish,
         Cancel, PrepareStop, CancelContext, StopAdmitting, Drain, Crash, Finish,
         catalog, vars

(* Every step keeps the invariant.                                         *)
LEMMA NextHistory == RegistryInv /\ HistoryInv /\ [Next]_vars => HistoryInv'
  <1> SUFFICES ASSUME RegistryInv, HistoryInv, [Next]_vars PROVE HistoryInv'
    OBVIOUS
  <1>0. TypeOK
    BY DEF RegistryInv
  <1>1. ASSUME NEW o \in Op, Persist(o) PROVE HistoryInv'
    BY <1>0, <1>1, PersistHistory
  <1>2. ASSUME NEW o \in Op, RecordFinal(o) PROVE HistoryInv'
    BY <1>2, RecordHistory
  <1>3. CASE Restart
    BY <1>0, <1>3, RestartHistory
  <1>4. CASE UNCHANGED <<history, stamp, clock>>
    BY <1>4 DEF HistoryInv, StampInv, UnwrittenInv, HistoryFits, Recorded
  <1> QED
    BY <1>1, <1>2, <1>3, <1>4, HistoryWrites

(* HistoryFits of the run "operations", for any constants: boundHistory    *)
(* keeps the operations of the catalog within the reader's budget and      *)
(* their number, whatever size the results have.                           *)
THEOREM HistoryStaysBounded == Spec => []HistoryFits
  <1>1. Spec => []HistoryInv
    BY InitHistory, NextHistory, RegistrySound, PTL DEF Spec
  <1> QED
    BY <1>1, PTL DEF HistoryInv
--------------------------------------------------------------------------------
(* What the history forgets is its oldest part: when a finished record     *)
(* goes, by number or by size, every finished record appended before it is *)
(* gone too, so that GET /operations never shows a history with a hole.    *)
ForgetsOldest ==
    [][\A o, p \in Op :
         /\ history[o].state \in Terminal /\ history'[o].state = "absent"
         /\ history[p].state \in Terminal /\ stamp[p] <= stamp[o]
         => history'[p].state = "absent"]_vars

(* A set of naturals below a bound has a minimum. *)
LEMMA LeastOf ==
    ASSUME NEW n \in Nat, NEW S \in SUBSET (0 .. n), S # {}
    PROVE  Min(S) \in S /\ \A y \in S : Min(S) <= y
  <1> DEFINE F == {0 .. x : x \in S}
             U == 0 .. n
  <1>1. F \in SUBSET SUBSET U /\ F # {}
    <2>1. \A x \in S : 0 .. x \subseteq 0 .. n
      OBVIOUS
    <2> QED
      BY <2>1
  <1>2. IsFiniteSet(U)
    BY FS_Interval
  <1>3. \E s \in F : \A t \in F : t \subseteq s => t = s
    <2> HIDE DEF F, U
    <2> QED
      BY <1>1, <1>2, Smallest
  <1>4. PICK x \in S : \A t \in F : t \subseteq 0 .. x => t = 0 .. x
    BY <1>3
  <1>5. ASSUME NEW y \in S PROVE x <= y
    <2>1. CASE y < x
      <3>1. 0 .. y \in F /\ 0 .. y \subseteq 0 .. x
        BY <2>1
      <3>2. x \in 0 .. x /\ x \notin 0 .. y
        BY <2>1
      <3> QED
        BY <1>4, <3>1, <3>2
    <2> QED
      BY <2>1
  <1> QED
    BY <1>5 DEF Min

(* With a record, Oldest has the earlier ones. *)
LEMMA OldestIsClosed ==
    ASSUME NEW S \in SUBSET Op, IsFiniteSet(S), stamp \in [Op -> Nat], NEW n \in Nat,
           NEW o \in Oldest(S, n), NEW p \in S, stamp[p] <= stamp[o]
    PROVE  p \in Oldest(S, n)
  <1> DEFINE upto(r) == {q \in S : stamp[q] <= stamp[r]}
  <1>1. upto(p) \subseteq upto(o)
    BY DEF Oldest
  <1>2. /\ IsFiniteSet(upto(o)) /\ IsFiniteSet(upto(p))
        /\ Cardinality(upto(p)) <= Cardinality(upto(o))
    BY <1>1, FS_Subset
  <1>3. Cardinality(upto(o)) \in Nat /\ Cardinality(upto(p)) \in Nat
    BY <1>2, FS_CardinalityType
  <1>4. Cardinality(upto(o)) <= n
    BY DEF Oldest
  <1>5. Cardinality(upto(p)) <= n
    BY <1>2, <1>3, <1>4
  <1> QED
    BY <1>5 DEF Oldest

(* All the finished records are the oldest ones when there are no more.    *)
LEMMA OldestOfAll ==
    ASSUME NEW S, IsFiniteSet(S)
    PROVE  S \ Oldest(S, Cardinality(S)) = {}
  <1>1. ASSUME NEW o \in S
        PROVE  Cardinality({p \in S : stamp[p] <= stamp[o]}) <= Cardinality(S)
    BY FS_Subset
  <1> QED
    BY <1>1 DEF Oldest

(* boundHistory drops finished records only, and the earliest of them.     *)
LEMMA BoundDropsOldest ==
    ASSUME NEW h \in [Op -> Record], IsFiniteSet(Recorded(h)), stamp \in [Op -> Nat],
           NEW o \in Recorded(h), BoundHistory(h)[o].state = "absent"
    PROVE  /\ h[o].state \in Terminal
           /\ \A p \in Op : h[p].state \in Terminal /\ stamp[p] <= stamp[o]
                 => BoundHistory(h)[p].state = "absent"
  <1> DEFINE rest(n) == Recorded(h) \ Oldest(Finished(h), n)
             done(n) == \/ Weight(h, rest(n)) <= HistoryBudget
                        \/ rest(n) \cap Finished(h) = {}
                        \/ Cardinality(rest(n)) = 1
             N == {n \in 0 .. Cardinality(Finished(h)) : done(n)}
             drops == Min(N)
             out == Keep(h, rest(drops))
  <1>1. /\ IsFiniteSet(Finished(h)) /\ Finished(h) \in SUBSET Op
        /\ Finished(h) \subseteq Recorded(h) /\ Cardinality(Finished(h)) \in Nat
    <2>1. Finished(h) \subseteq Recorded(h)
      BY DEF Finished, Recorded, Terminal
    <2> QED
      BY <2>1, FS_Subset, FS_CardinalityType DEF Finished
  <1>2. drops \in Nat
    <2>1. done(Cardinality(Finished(h)))
      BY <1>1, OldestOfAll
    <2>2. Cardinality(Finished(h)) \in N
      BY <1>1, <2>1
    <2> HIDE DEF N
    <2>3. N \in SUBSET (0 .. Cardinality(Finished(h))) /\ N # {}
      BY <2>2 DEF N
    <2>4. drops \in N
      BY <1>1, <2>3, LeastOf
    <2> HIDE DEF drops
    <2>5. drops \in 0 .. Cardinality(Finished(h))
      BY <2>3, <2>4, Zenon
    <2> QED
      BY <1>1, <2>5
  <1>3. \A p \in Op : BoundHistory(h)[p].state = out[p].state
    <2>1. BoundHistory(h) = IF Weight(h, rest(drops)) <= HistoryBudget
                            THEN out
                            ELSE [p \in Op |-> [out[p] EXCEPT !.size = 0]]
      BY DEF BoundHistory
    <2>2. out \in [Op -> Record]
      BY KeepType
    <2> HIDE DEF out, drops
    <2>3. \A p \in Op : [q \in Op |-> [out[q] EXCEPT !.size = 0]][p].state = out[p].state
      BY <2>2 DEF Record
    <2> QED
      BY <2>1, <2>3
  <1> HIDE DEF drops
  <1>4. o \in Op /\ o \notin rest(drops)
    <2>1. o \in Op /\ h[o].state # "absent" /\ out[o].state = "absent"
      BY <1>3 DEF Recorded
    <2> QED
      BY <2>1 DEF Keep
  <1>5. o \in Oldest(Finished(h), drops) /\ o \in Finished(h)
    BY <1>4 DEF Oldest
  <1>6. ASSUME NEW p \in Op, h[p].state \in Terminal, stamp[p] <= stamp[o]
        PROVE  out[p].state = "absent"
    <2>1. p \in Finished(h)
      BY <1>6 DEF Finished
    <2>2. p \in Oldest(Finished(h), drops)
      BY <1>1, <1>2, <1>5, <1>6, <2>1, OldestIsClosed
    <2> QED
      BY <1>6, <2>2 DEF Keep, Absent
  <1> QED
    BY <1>3, <1>5, <1>6 DEF Finished

(* Submit: a finished record goes by number, with at least HistoryMax - 1  *)
(* records after it, or by size.  Both drop the earlier ones before it.    *)
LEMMA PersistForgets ==
    ASSUME RegistryInv, AnswerInv, HistoryInv, NEW n \in Op, Persist(n),
           NEW o \in Op, history[o].state \in Terminal, history'[o].state = "absent",
           NEW p \in Op, history[p].state \in Terminal, stamp[p] <= stamp[o]
    PROVE  history'[p].state = "absent"
  <1> DEFINE T == Recorded(history) \ {n}
             above(q) == {r \in T : stamp[r] > stamp[q]}
             S == Newest(Recorded(history) \cup {n}, n)
             h == [history EXCEPT ![n] = Running]
             k == Keep(h, S)
  <1>0. TypeOK /\ stamp \in [Op -> Nat] /\ HistoryMax - 1 \in Nat
    BY BoundAssumption DEF RegistryInv, TypeOK
  <1>1. o # n /\ p # n /\ o \in Recorded(history) /\ p \in Recorded(history)
    <2>1. history[n].state = "absent"
      BY DEF Persist, AnswerInv, Answers
    <2> QED
      BY <2>1 DEF Recorded, Terminal
  <1>2. h \in [Op -> Record] /\ k \in [Op -> Record]
    BY <1>0, KeepType DEF TypeOK, Running, Record
  <1>3. h[o] = history[o] /\ h[p] = history[p]
    BY <1>0, <1>1 DEF TypeOK
  <1>4. history' = BoundHistory(k)
    BY DEF Persist
  <1>5. \A q \in {o, p} : q \in S <=> Cardinality(above(q)) < HistoryMax - 1
    BY <1>1 DEF Newest
  <1>6. IsFiniteSet(Recorded(k))
    <2>1. Recorded(k) \subseteq Recorded(history) \cup {n}
      BY <1>2 DEF Keep, Recorded, Absent, Newest
    <2>2. IsFiniteSet(Recorded(history) \cup {n})
      BY FS_AddElement DEF HistoryInv
    <2> QED
      BY <2>1, <2>2, FS_Subset
  <1>7. k[o] = IF o \in S THEN h[o] ELSE Absent
    BY DEF Keep
  <1>8. k[p] = IF p \in S THEN h[p] ELSE Absent
    BY DEF Keep
  <1> HIDE DEF k, h, S
  <1>9. CASE o \notin S
    <2>1. above(o) \subseteq above(p)
      <3> SUFFICES ASSUME NEW r \in T, stamp[r] > stamp[o] PROVE stamp[r] > stamp[p]
        OBVIOUS
      <3>1. stamp[r] \in Nat /\ stamp[o] \in Nat /\ stamp[p] \in Nat
        BY <1>0 DEF Recorded
      <3> QED
        BY <3>1
    <2>2. IsFiniteSet(above(p)) /\ IsFiniteSet(above(o)) /\ IsFiniteSet(T)
      BY FS_Subset DEF HistoryInv
    <2>3. Cardinality(above(o)) <= Cardinality(above(p))
      BY <2>1, <2>2, FS_Subset
    <2>4. Cardinality(above(o)) \in Nat /\ Cardinality(above(p)) \in Nat
      BY <2>2, FS_CardinalityType
    <2>5. p \notin S
      BY <1>0, <1>5, <1>9, <2>3, <2>4
    <2>6. k[p].state = "absent"
      BY <1>8, <2>5 DEF Absent
    <2> QED
      BY <1>2, <1>4, <2>6, BoundHistoryStates
  <1>10. CASE o \in S
    <2>1. k[o] = history[o] /\ o \in Recorded(k)
      BY <1>3, <1>7, <1>10 DEF Recorded, Terminal
    <2>2. \A q \in Op : k[q].state \in Terminal /\ stamp[q] <= stamp[o]
                            => history'[q].state = "absent"
      BY <1>0, <1>2, <1>4, <1>6, <2>1, BoundDropsOldest
    <2>3. CASE p \in S
      BY <1>3, <1>8, <2>2, <2>3
    <2>4. CASE p \notin S
      <3>1. k[p].state = "absent"
        BY <1>8, <2>4 DEF Absent
      <3> QED
        BY <1>2, <1>4, <3>1, BoundHistoryStates
    <2> QED
      BY <2>3, <2>4
  <1> QED
    BY <1>9, <1>10

(* The result of an operation goes into the history: what makes room for   *)
(* it was finished before.                                                 *)
LEMMA RecordForgets ==
    ASSUME RegistryInv, HistoryInv, NEW n \in Op, RecordFinal(n),
           NEW o \in Op, history[o].state \in Terminal, history'[o].state = "absent",
           NEW p \in Op, history[p].state \in Terminal, stamp[p] <= stamp[o]
    PROVE  history'[p].state = "absent"
  <1> DEFINE h == [history EXCEPT ![n] = final[n]]
  <1>1. n \in Recorded(history)
    BY DEF RecordFinal, WriteFinal, Terminal
  <1>2. h \in [Op -> Record] /\ h[n].state \in Terminal /\ stamp \in [Op -> Nat]
    BY DEF RegistryInv, TypeOK, FlightInv, FinalInv, RecordFinal, WriteFinal
  <1>3. history' = BoundHistory(h)
    BY <1>1 DEF RecordFinal, WriteFinal
  <1>4. Recorded(h) = Recorded(history)
    BY <1>1, <1>2 DEF Recorded, RegistryInv, TypeOK, Terminal
  <1>5. h[o].state \in Terminal /\ h[p].state \in Terminal /\ o \in Recorded(h)
    BY <1>2 DEF Recorded, Terminal, RegistryInv, TypeOK
  <1> HIDE DEF h
  <1>6. IsFiniteSet(Recorded(h))
    BY <1>4 DEF HistoryInv
  <1> QED
    BY <1>2, <1>3, <1>5, <1>6, BoundDropsOldest

(* Nothing else takes a record away: a restart rewrites the unfinished     *)
(* ones, and no other step writes the catalog.                             *)
THEOREM HistoryForgetsOldest == Spec => ForgetsOldest
  <1> DEFINE A == \A o, p \in Op :
                     /\ history[o].state \in Terminal /\ history'[o].state = "absent"
                     /\ history[p].state \in Terminal /\ stamp[p] <= stamp[o]
                     => history'[p].state = "absent"
  <1>1. RegistryInv /\ AnswerInv /\ HistoryInv /\ [Next]_vars => A
    <2> SUFFICES ASSUME RegistryInv, AnswerInv, HistoryInv, [Next]_vars,
                        NEW o \in Op, history[o].state \in Terminal,
                        history'[o].state = "absent",
                        NEW p \in Op, history[p].state \in Terminal, stamp[p] <= stamp[o]
                 PROVE  history'[p].state = "absent"
      OBVIOUS
    <2>1. ASSUME NEW n \in Op, Persist(n) PROVE history'[p].state = "absent"
      BY <2>1, PersistForgets
    <2>2. ASSUME NEW n \in Op, RecordFinal(n) PROVE history'[p].state = "absent"
      BY <2>2, RecordForgets
    <2>3. CASE Restart
      BY <2>3 DEF Restart, Reopen, Interrupted, Terminal
    <2>4. CASE UNCHANGED <<history, stamp, clock>>
      BY <2>4 DEF Terminal
    <2> QED
      BY <2>1, <2>2, <2>3, <2>4, HistoryWrites
  <1>2. Spec => []HistoryInv
    BY InitHistory, NextHistory, RegistrySound, PTL DEF Spec
  <1> QED
    BY <1>1, <1>2, AnswersHold, PTL DEF Spec, ForgetsOldest
--------------------------------------------------------------------------------
(* And it forgets nothing without a cause: Submit takes away what has      *)
(* HistoryMax - 1 records after it, and nothing for its size; the writing  *)
(* of a result takes away what does not fit with the records after it.     *)
ForgetsWithCause ==
    [][\A o \in Recorded(history) : history'[o].state = "absent" =>
         \/ \E n \in Op :
              /\ Persist(n)
              /\ Cardinality({p \in Recorded(history) : stamp[p] > stamp[o]}) >= HistoryMax - 1
         \/ \E n \in Op :
              /\ RecordFinal(n)
              /\ Weight([history EXCEPT ![n] = final[n]],
                        {p \in Recorded(history) : stamp[p] >= stamp[o]}) > HistoryBudget]_vars

(* What boundHistory drops for its size would not fit with what is newer.  *)
LEMMA BoundDropsWithCause ==
    ASSUME NEW h \in [Op -> Record], IsFiniteSet(Recorded(h)), stamp \in [Op -> Nat],
           \A p \in Op : h[p].state = "running" => h[p].size = 0,
           NEW o \in Recorded(h), BoundHistory(h)[o].state = "absent"
    PROVE  Weight(h, {p \in Recorded(h) : stamp[p] >= stamp[o]}) > HistoryBudget
  <1> DEFINE rest(n) == Recorded(h) \ Oldest(Finished(h), n)
             done(n) == \/ Weight(h, rest(n)) <= HistoryBudget
                        \/ rest(n) \cap Finished(h) = {}
                        \/ Cardinality(rest(n)) = 1
             N == {n \in 0 .. Cardinality(Finished(h)) : done(n)}
             drops == Min(N)
             out == Keep(h, rest(drops))
             upto(r) == {q \in Finished(h) : stamp[q] <= stamp[r]}
             c == Cardinality(upto(o))
             newer == {p \in Recorded(h) : stamp[p] >= stamp[o]}
  <1>1. /\ IsFiniteSet(Finished(h)) /\ Finished(h) \subseteq Recorded(h)
        /\ Cardinality(Finished(h)) \in Nat
    <2>1. Finished(h) \subseteq Recorded(h)
      BY DEF Finished, Recorded, Terminal
    <2> QED
      BY <2>1, FS_Subset, FS_CardinalityType
  <1>2. drops \in N /\ \A n \in N : drops <= n
    <2>1. done(Cardinality(Finished(h)))
      BY <1>1, OldestOfAll
    <2>2. Cardinality(Finished(h)) \in N
      BY <1>1, <2>1
    <2> HIDE DEF N
    <2>3. N \in SUBSET (0 .. Cardinality(Finished(h))) /\ N # {}
      BY <2>2 DEF N
    <2> QED
      BY <1>1, <2>3, LeastOf
  <1>3. \A p \in Op : BoundHistory(h)[p].state = out[p].state
    <2>1. BoundHistory(h) = IF Weight(h, rest(drops)) <= HistoryBudget
                            THEN out
                            ELSE [p \in Op |-> [out[p] EXCEPT !.size = 0]]
      BY DEF BoundHistory
    <2>2. out \in [Op -> Record]
      BY KeepType
    <2> HIDE DEF out, drops
    <2>3. \A p \in Op : [q \in Op |-> [out[q] EXCEPT !.size = 0]][p].state = out[p].state
      BY <2>2 DEF Record
    <2> QED
      BY <2>1, <2>3
  <1>4. drops \in Nat /\ drops <= Cardinality(Finished(h))
    BY <1>1, <1>2
  <1> HIDE DEF drops, N
  <1>5. o \in Op /\ o \in Finished(h) /\ c <= drops
    <2>1. o \in Op /\ h[o].state # "absent" /\ out[o].state = "absent"
      BY <1>3 DEF Recorded
    <2>2. o \notin rest(drops)
      BY <2>1 DEF Keep
    <2> QED
      BY <2>1, <2>2 DEF Oldest
  <1>6. IsFiniteSet(upto(o)) /\ o \in upto(o) /\ c \in Nat /\ c >= 1
    <2>1. IsFiniteSet(upto(o)) /\ o \in upto(o) /\ c \in Nat
      BY <1>1, <1>5, FS_Subset, FS_CardinalityType
    <2>2. c # 0
      BY <2>1, FS_EmptySet
    <2> QED
      BY <2>1, <2>2
  <1>7. ~ done(c - 1)
    <2>1. c - 1 \in 0 .. Cardinality(Finished(h)) /\ ~ (drops <= c - 1)
      BY <1>1, <1>4, <1>5, <1>6
    <2>2. c - 1 \notin N
      BY <1>2, <2>1
    <2> QED
      BY <2>1, <2>2 DEF N
  <1>8. \A p \in Recorded(h) : h[p].size \in Nat
    BY DEF Recorded, Record
  <1>9. \A q \in rest(c - 1) : q \in newer \/ h[q].size = 0
    <2> SUFFICES ASSUME NEW q \in rest(c - 1), q \notin newer PROVE h[q].size = 0
      OBVIOUS
    <2>1. q \in Op /\ stamp[q] \in Nat /\ stamp[o] \in Nat /\ stamp[q] < stamp[o]
      BY <1>5 DEF Recorded
    <2>2. CASE q \in Finished(h)
      <3>1. upto(q) \subseteq upto(o) \ {o}
        BY <2>1 DEF Finished
      <3>2. IsFiniteSet(upto(o) \ {o}) /\ Cardinality(upto(o) \ {o}) = c - 1
        BY <1>6, FS_RemoveElement
      <3>3. Cardinality(upto(q)) <= c - 1
        BY <3>1, <3>2, FS_Subset
      <3> QED
        BY <2>2, <3>3 DEF Oldest
    <2>3. CASE q \notin Finished(h)
      <3>1. h[q].state = "running"
        BY <2>1, <2>3 DEF Finished, Recorded, Record
      <3> QED
        BY <2>1, <3>1
    <2> QED
      BY <2>2, <2>3
  <1> DEFINE R == rest(c - 1)
             T == R \cap newer
  <1>10. /\ IsFiniteSet(R) /\ IsFiniteSet(newer) /\ T \in SUBSET R /\ T \in SUBSET newer
         /\ \A q \in R : h[q].size \in Nat
         /\ \A q \in newer : h[q].size \in Nat
         /\ \A q \in R \ T : h[q].size = 0
    BY <1>8, <1>9, FS_Subset
  <1>11. ~ (Weight(h, R) <= HistoryBudget)
    BY <1>7
  <1> HIDE DEF R, T, newer
  <1>12. Weight(h, R) = Weight(h, T) /\ Weight(h, R) \in Nat
    BY <1>10, WeightOfPart
  <1>13. Weight(h, T) <= Weight(h, newer) /\ Weight(h, newer) \in Nat
    BY <1>10, WeightOfPart
  <1>14. Weight(h, newer) > HistoryBudget
    BY <1>11, <1>12, <1>13, BoundAssumption
  <1> QED
    BY <1>14 DEF newer

(* Submit: the new record weighs nothing, so what is kept beside it fits.  *)
LEMMA PersistHasCause ==
    ASSUME RegistryInv, AnswerInv, HistoryInv, NEW n \in Op, Persist(n),
           NEW o \in Recorded(history), history'[o].state = "absent"
    PROVE  Cardinality({p \in Recorded(history) : stamp[p] > stamp[o]}) >= HistoryMax - 1
  <1> DEFINE S == Newest(Recorded(history) \cup {n}, n)
             h == [history EXCEPT ![n] = Running]
             k == Keep(h, S)
             above == {p \in Recorded(history) : stamp[p] > stamp[o]}
  <1>0. TypeOK /\ stamp \in [Op -> Nat] /\ HistoryMax - 1 \in Nat
    BY BoundAssumption DEF RegistryInv, TypeOK
  <1>1. n \notin Recorded(history) /\ o # n /\ o \in Op
    BY DEF Persist, AnswerInv, Answers, Recorded
  <1>2. h \in [Op -> Record] /\ k \in [Op -> Record]
    BY <1>0, KeepType DEF TypeOK, Running, Record
  <1>3. history' = BoundHistory(k)
    BY DEF Persist
  <1>4. /\ Recorded(k) \subseteq Recorded(history) \cup {n}
        /\ \A p \in Recorded(k) : k[p] = h[p]
    BY <1>2 DEF Keep, Recorded, Absent, Newest
  <1>5. /\ IsFiniteSet(Recorded(history)) /\ IsFiniteSet(Recorded(history) \cup {n})
        /\ IsFiniteSet(Recorded(k))
    BY <1>4, FS_AddElement, FS_Subset DEF HistoryInv
  <1>6. \A p \in Recorded(history) \cup {n} : h[p].size \in Nat
    BY <1>2 DEF Recorded, Record
  <1>7. \A p \in Recorded(history) : h[p].size = history[p].size
    BY <1>1 DEF Recorded
  <1>8. h[n].size = 0
    BY <1>0 DEF TypeOK, Running
  <1>9. \A p \in Op : k[p].state = "running" => k[p].size = 0
    BY <1>0 DEF Keep, Running, Absent, TypeOK, HistoryInv, UnwrittenInv
  <1>10. o \notin S => Cardinality(above) >= HistoryMax - 1
    <2>1. o \notin S => ~ (Cardinality({p \in (Recorded(history) \cup {n}) \ {n} :
                                          stamp[p] > stamp[o]}) < HistoryMax - 1)
      BY <1>1 DEF Newest
    <2>2. {p \in (Recorded(history) \cup {n}) \ {n} : stamp[p] > stamp[o]} = above
      BY <1>1
    <2>3. Cardinality(above) \in Nat
      BY <1>5, FS_Subset, FS_CardinalityType
    <2>4. o \notin S => ~ (Cardinality(above) < HistoryMax - 1)
      <3> HIDE DEF above, S
      <3> QED
        BY <2>1, <2>2
    <2> QED
      BY <1>0, <2>3, <2>4
  <1>11. o \in S => k[o] = history[o]
    BY <1>1 DEF Keep
  <1> HIDE DEF k, h, S
  <1>12. Weight(k, Recorded(k)) = Weight(h, Recorded(k))
    BY <1>4, SameWeight
  <1>13. Weight(h, Recorded(history)) = Weight(history, Recorded(history))
    BY <1>7, SameWeight
  <1>14. /\ Weight(h, Recorded(k)) <= Weight(h, Recorded(history) \cup {n})
         /\ Weight(h, Recorded(k)) \in Nat /\ Weight(h, Recorded(history) \cup {n}) \in Nat
    BY <1>4, <1>5, <1>6, WeightOfPart
  <1>15. Weight(h, Recorded(history) \cup {n}) = Weight(h, Recorded(history))
    BY <1>5, <1>6, <1>8, WeightOfPart
  <1>16. Weight(k, Recorded(k)) <= HistoryBudget /\ Weight(k, Recorded(k)) \in Nat
    <2>1. Weight(history, Recorded(history)) <= HistoryBudget
      BY DEF HistoryInv, HistoryFits
    <2> QED
      BY <1>12, <1>13, <1>14, <1>15, <2>1, BoundAssumption
  <1>17. ASSUME o \in S PROVE FALSE
    <2>1. o \in Recorded(k)
      BY <1>1, <1>11, <1>17 DEF Recorded
    <2>2. Weight(k, {p \in Recorded(k) : stamp[p] >= stamp[o]}) > HistoryBudget
      BY <1>0, <1>2, <1>3, <1>5, <1>9, <2>1, BoundDropsWithCause
    <2>3. \A p \in Recorded(k) : k[p].size \in Nat
      BY <1>2 DEF Recorded, Record
    <2> DEFINE T == {p \in Recorded(k) : stamp[p] >= stamp[o]}
    <2>4. T \in SUBSET Recorded(k)
      OBVIOUS
    <2> HIDE DEF T
    <2>5. Weight(k, T) <= Weight(k, Recorded(k)) /\ Weight(k, T) \in Nat
      BY <1>5, <2>3, <2>4, WeightOfPart
    <2>6. Weight(k, T) > HistoryBudget
      BY <2>2 DEF T
    <2> QED
      BY <1>16, <2>5, <2>6, BoundAssumption
  <1> QED
    BY <1>10, <1>17

(* The writing of a result. *)
LEMMA RecordHasCause ==
    ASSUME RegistryInv, HistoryInv, NEW n \in Op, RecordFinal(n),
           NEW o \in Recorded(history), history'[o].state = "absent"
    PROVE  Weight([history EXCEPT ![n] = final[n]],
                  {p \in Recorded(history) : stamp[p] >= stamp[o]}) > HistoryBudget
  <1> DEFINE h == [history EXCEPT ![n] = final[n]]
  <1>1. n \in Recorded(history)
    BY DEF RecordFinal, WriteFinal, Recorded
  <1>2. h \in [Op -> Record] /\ h[n].state \in Terminal /\ stamp \in [Op -> Nat]
    BY DEF RegistryInv, TypeOK, FlightInv, FinalInv, RecordFinal, WriteFinal
  <1>3. history' = BoundHistory(h)
    BY <1>1 DEF RecordFinal, WriteFinal
  <1>4. Recorded(h) = Recorded(history)
    BY <1>1, <1>2 DEF Recorded, RegistryInv, TypeOK, Terminal
  <1>5. \A p \in Op : h[p].state = "running" => h[p].size = 0
    BY <1>2 DEF Terminal, RegistryInv, TypeOK, HistoryInv, UnwrittenInv
  <1> HIDE DEF h
  <1>6. Weight(h, {p \in Recorded(h) : stamp[p] >= stamp[o]}) > HistoryBudget
    BY <1>2, <1>3, <1>4, <1>5, BoundDropsWithCause DEF HistoryInv
  <1> QED
    BY <1>4, <1>6 DEF h

(* No record goes but for one of the two causes. *)
THEOREM HistoryForgetsWithCause == Spec => ForgetsWithCause
  <1> DEFINE cause(o) ==
         \/ \E n \in Op :
              /\ Persist(n)
              /\ Cardinality({p \in Recorded(history) : stamp[p] > stamp[o]}) >= HistoryMax - 1
         \/ \E n \in Op :
              /\ RecordFinal(n)
              /\ Weight([history EXCEPT ![n] = final[n]],
                        {p \in Recorded(history) : stamp[p] >= stamp[o]}) > HistoryBudget
             A == \A o \in Recorded(history) : history'[o].state = "absent" => cause(o)
  <1>1. RegistryInv /\ AnswerInv /\ HistoryInv /\ [Next]_vars => A
    <2> SUFFICES ASSUME RegistryInv, AnswerInv, HistoryInv, [Next]_vars,
                        NEW o \in Recorded(history), history'[o].state = "absent"
                 PROVE  cause(o)
      OBVIOUS
    <2>1. ASSUME NEW n \in Op, Persist(n) PROVE cause(o)
      BY <2>1, PersistHasCause
    <2>2. ASSUME NEW n \in Op, RecordFinal(n) PROVE cause(o)
      BY <2>2, RecordHasCause
    <2>3. CASE Restart
      BY <2>3 DEF Restart, Reopen, Interrupted, Recorded
    <2>4. CASE UNCHANGED <<history, stamp, clock>>
      BY <2>4 DEF Recorded
    <2> HIDE DEF cause
    <2> QED
      BY <2>1, <2>2, <2>3, <2>4, HistoryWrites
  <1>2. Spec => []HistoryInv
    BY InitHistory, NextHistory, RegistrySound, PTL DEF Spec
  <1> QED
    BY <1>1, <1>2, AnswersHold, PTL DEF Spec, ForgetsWithCause
--------------------------------------------------------------------------------
(* Operations.recent: the results in memory are never more than RecentMax, *)
(* so that an agent that runs for long does not grow with each operation.  *)
Remembered == {o \in Op : recent[o] # "none"}
RecentFits == IsFiniteSet(Remembered) /\ Cardinality(Remembered) <= RecentMax

(* One result more, and one fewer when there are too many. *)
LEMMA RetireFits ==
    ASSUME RegistryInv, RecentFits, NEW o \in Op, Retire(o)
    PROVE  RecentFits'
  <1> DEFINE all == [recent EXCEPT ![o] = final[o].state]
             known == {p \in Op : all[p] # "none"}
  <1>0. /\ recent \in [Op -> Terminal \cup {"none"}]
        /\ RecentMax \in Nat /\ final[o].state # "none"
    BY BoundAssumption DEF RegistryInv, TypeOK, FlightInv, FinalInv, Retire, Terminal, Record
  <1>1. known = Remembered \cup {o}
    BY <1>0 DEF Remembered
  <1>2. /\ IsFiniteSet(known) /\ Cardinality(known) \in Nat
        /\ Cardinality(known) <= RecentMax + 1
    <2>1. /\ IsFiniteSet(Remembered \cup {o}) /\ Cardinality(Remembered) \in Nat
          /\ \/ Cardinality(Remembered \cup {o}) = Cardinality(Remembered)
             \/ Cardinality(Remembered \cup {o}) = Cardinality(Remembered) + 1
      BY FS_AddElement, FS_CardinalityType DEF RecentFits
    <2>2. Cardinality(Remembered) <= RecentMax
      BY DEF RecentFits
    <2> HIDE DEF known
    <2> QED
      BY <1>0, <1>1, <2>1, <2>2
  <1>3. IF Cardinality(known) <= RecentMax
        THEN recent' = all
        ELSE \E p \in known \ {o} : recent' = [all EXCEPT ![p] = "none"]
    BY DEF Retire, Remember
  <1>4. CASE Cardinality(known) <= RecentMax
    <2>1. Remembered' = known
      BY <1>3, <1>4 DEF Remembered
    <2> QED
      BY <1>2, <1>4, <2>1 DEF RecentFits
  <1>5. CASE ~ (Cardinality(known) <= RecentMax)
    <2>1. PICK p \in known \ {o} : recent' = [all EXCEPT ![p] = "none"]
      BY <1>3, <1>5
    <2>2. Remembered' = known \ {p}
      BY <1>0, <2>1 DEF Remembered
    <2>3. IsFiniteSet(known \ {p}) /\ Cardinality(known \ {p}) = Cardinality(known) - 1
      BY <1>2, <2>1, FS_RemoveElement
    <2> QED
      BY <1>0, <1>2, <2>2, <2>3 DEF RecentFits
  <1> QED
    BY <1>4, <1>5

(* Only Retire adds a result; with the process all of them are forgotten. *)
THEOREM MemoryStaysBounded == Spec => []RecentFits
  <1>1. Init => RecentFits
    <2> SUFFICES ASSUME Init PROVE RecentFits
      OBVIOUS
    <2>1. Remembered = {}
      BY DEF Init, Remembered
    <2> QED
      BY <2>1, FS_EmptySet, BoundAssumption DEF RecentFits
  <1>2. RegistryInv /\ RecentFits /\ [Next]_vars => RecentFits'
    <2> SUFFICES ASSUME RegistryInv, RecentFits, [Next]_vars PROVE RecentFits'
      OBVIOUS
    <2>1. ASSUME NEW o \in Op, Retire(o) PROVE RecentFits'
      BY <2>1, RetireFits
    <2>2. CASE Crash \/ Restart
      <3>1. Remembered' = {}
        BY <2>2 DEF Crash, Restart, Reopen, Forget, Remembered
      <3> QED
        BY <3>1, FS_EmptySet, BoundAssumption DEF RecentFits
    <2>3. CASE UNCHANGED recent
      BY <2>3 DEF RecentFits, Remembered
    <2>4. (\E o \in Op : Retire(o)) \/ Crash \/ Restart \/ UNCHANGED recent
      BY DEF Next, Goroutine, Admit, Persist, PersistFails, Conclude, RecordFinal, WriteFinal,
             RecordFails, Publish, Cancel, PrepareStop, CancelContext, StopAdmitting, Drain,
             Finish, vars
    <2> QED
      BY <2>1, <2>2, <2>3, <2>4
  <1> QED
    BY <1>1, <1>2, RegistrySound, PTL DEF Spec
================================================================================
