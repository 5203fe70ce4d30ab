--------------------------- MODULE StackPurgeProofs ---------------------------
(***************************************************************************)
(* Theorems about StackPurge for any sets of resources and any bounds:     *)
(* across failures, deaths and retries only the reviewed resources are     *)
(* removed, none before the plan is saved, consumers first, and the record *)
(* goes only when nothing of the plan is left.                             *)
(***************************************************************************)
EXTENDS StackPurge, FiniteSetTheorems, TLAPS

Deleting == {"delete", "rm", "check", "verify", "final"}
Gone(r) == plan[r] = 0 \/ inc[r] # plan[r]

(* An incarnation is never born twice: what is gone cannot come back.      *)
Births ==
    \A r \in Resource :
        /\ inc[r] <= born[r] /\ plan[r] <= born[r]
        /\ \A p \in reviewed : p.plan[r] <= born[r]

(* The operation works on one review, which is the plan once it is saved.  *)
Confirmed ==
    /\ \A p, q \in reviewed : p = q
    /\ op # "idle" => record /\ reviewed # {}
    /\ pending => record
    /\ op = "journal" /\ pending => \A p \in reviewed : p.plan = plan
    /\ op \in Deleting \cup {"sync"} =>
          /\ pending /\ ~applied /\ bound = {}
          /\ \A p \in reviewed : p.plan = plan
    /\ op \in Deleting => ~routed

(* What the loops have behind them is gone, and what they are at is next.  *)
Progress ==
    /\ \A r \in todo : op \in Deleting /\ plan[r] # 0
    /\ op \in {"delete", "rm", "check"} => \A c \in Container \ todo : Gone(c)
    /\ \A x \in cur : IsNext(x[1]) /\ x[2] = plan[x[1]]
    /\ op = "rm" => \A x \in cur : x[1] \in Database => inc[x[1]] = plan[x[1]]
    /\ op = "verify" => \A r \in Resource \ todo : Gone(r)
    /\ op = "final" => \A r \in Resource : Gone(r)

PurgeInv ==
    /\ TypeOK /\ Births /\ Confirmed /\ Progress
    /\ PlanFirst /\ OnlyReviewed /\ GoneIsComplete
--------------------------------------------------------------------------------
(* What an operation was confirmed with is the plan of the review it has. *)
LEMMA GivenReviewed == ASSUME reviewed # {} PROVE \E p \in reviewed : Given = p.plan
  BY DEF Given

(* The client reviews and confirms; the operation begins or is refused. *)
LEMMA ReviewStep ==
    ASSUME PurgeInv, Review \/ Dismiss \/ Submit \/ Confirm \/ Refuse
    PROVE  PurgeInv'
  <1> USE ConstantsAssumption DEF PurgeInv, TypeOK, Births, Confirmed, Progress, PlanFirst,
        OnlyReviewed, GoneIsComplete, Gone, Deleting, Steps, Incarnations, Reviews, Resource,
        Named, Data, EndWork, Goto, work, state, things, Exists, Listed, None, IsNext, Stages
  <1>0. reviewed # {} => \E p \in reviewed : Given = p.plan
    BY GivenReviewed
  <1>1. CASE Review
    BY <1>0, <1>1 DEF Review, Preview, View, Inventory, Refused
  <1>2. CASE Dismiss
    BY <1>0, <1>2 DEF Dismiss
  <1>3. CASE Submit
    BY <1>0, <1>3 DEF Submit
  <1>4. CASE Confirm
    BY <1>0, <1>4 DEF Confirm, Preview, View, Inventory, Refused
  <1>5. CASE Refuse
    BY <1>0, <1>5 DEF Refuse
  <1> QED
    BY <1>1, <1>2, <1>3, <1>4, <1>5

(* The plan is saved and the routes are withdrawn. *)
LEMMA SaveStep ==
    ASSUME PurgeInv, Journal \/ SyncRoutes
    PROVE  PurgeInv'
  <1> USE ConstantsAssumption DEF PurgeInv, TypeOK, Births, Confirmed, Progress, PlanFirst,
        OnlyReviewed, GoneIsComplete, Gone, Deleting, Steps, Incarnations, Reviews, Resource,
        Named, Data, EndWork, Goto, work, state, things, Exists, Listed, None, IsNext, Stages
  <1>0. reviewed # {} => \E p \in reviewed : Given = p.plan
    BY GivenReviewed
  <1>1. CASE Journal
    <2>1. pending' \in BOOLEAN /\ applied' \in BOOLEAN
      BY <1>0, <1>1 DEF Journal
    <2>2. plan' \in Incarnations
      BY <1>0, <1>1 DEF Journal
    <2>3. TypeOK'
      BY <1>0, <1>1, <2>1, <2>2 DEF Journal
    <2>4. Births'
      BY <1>0, <1>1 DEF Journal
    <2>5. Confirmed'
      BY <1>0, <1>1 DEF Journal
    <2>6. Progress'
      BY <1>0, <1>1 DEF Journal
    <2>7. PlanFirst' /\ OnlyReviewed' /\ GoneIsComplete'
      BY <1>0, <1>1 DEF Journal
    <2> QED
      BY <2>3, <2>4, <2>5, <2>6, <2>7
  <1>2. CASE SyncRoutes
    BY <1>0, <1>2 DEF SyncRoutes
  <1> QED
    BY <1>1, <1>2

(* The loop over the resources. *)
LEMMA DeleteStep ==
    ASSUME PurgeInv,
           (\E r \in Resource : Inspect(r)) \/ Remove \/ RemoveMisses \/ Check \/ Remaining
    PROVE  PurgeInv'
  <1> USE ConstantsAssumption DEF PurgeInv, TypeOK, Births, Confirmed, Progress, PlanFirst,
        OnlyReviewed, GoneIsComplete, Gone, Deleting, Steps, Incarnations, Reviews, Resource,
        Named, Data, EndWork, Goto, work, state, things, Exists, Listed, None, IsNext, Stages
  <1>0. reviewed # {} => \E p \in reviewed : Given = p.plan
    BY GivenReviewed
  <1>1. ASSUME NEW r \in Resource, Inspect(r) PROVE PurgeInv'
    <2>1. \/ op' = "rm" /\ cur' = {<<r, inc[r]>>} /\ inc[r] # 0 /\ UNCHANGED <<todo, reviewed>>
          \/ /\ cur' = {} /\ op' \in {"delete", "idle"}
             /\ todo' \subseteq todo /\ reviewed' \subseteq reviewed
      BY <1>0, <1>1 DEF Inspect
    <2>2. inc[r] \in 0 .. MaxBorn
      OBVIOUS
    <2>3. cur' \subseteq Resource \X (1 .. MaxBorn) /\ \A x, y \in cur' : x = y
      BY <2>1, <2>2
    <2>4. (cur' # {}) <=> (op' \in {"rm", "check"})
      BY <2>1
    <2>5. stage' \in [Database -> Stages]
      BY <1>1 DEF Inspect, Began
    <2>6. TypeOK'
      BY <1>1, <2>1, <2>3, <2>4, <2>5 DEF Inspect
    <2> QED
      BY <1>0, <1>1, <2>6 DEF Inspect
  <1>2. CASE Remove
    BY <1>0, <1>2 DEF Remove, Destroy
  <1>3. CASE RemoveMisses
    BY <1>0, <1>3 DEF RemoveMisses
  <1>4. CASE Check
    BY <1>0, <1>4 DEF Check
  <1>5. CASE Remaining
    BY <1>0, <1>5 DEF Remaining
  <1> QED
    BY <1>1, <1>2, <1>3, <1>4, <1>5

(* The last look at every resource and the last commit. *)
LEMMA VerifyStep ==
    ASSUME PurgeInv, (\E r \in Resource : Verify(r)) \/ Verified \/ Final
    PROVE  PurgeInv'
  <1> USE ConstantsAssumption DEF PurgeInv, TypeOK, Births, Confirmed, Progress, PlanFirst,
        OnlyReviewed, GoneIsComplete, Gone, Deleting, Steps, Incarnations, Reviews, Resource,
        Named, Data, EndWork, Goto, work, state, things, Exists, Listed, None, IsNext, Stages
  <1>0. reviewed # {} => \E p \in reviewed : Given = p.plan
    BY GivenReviewed
  <1>1. ASSUME NEW r \in Resource, Verify(r) PROVE PurgeInv'
    BY <1>0, <1>1 DEF Verify
  <1>2. CASE Verified
    BY <1>0, <1>2 DEF Verified
  <1>3. CASE Final
    BY <1>0, <1>3 DEF Final
  <1> QED
    BY <1>1, <1>2, <1>3

(* A step fails or the agent dies. *)
LEMMA FaultStep ==
    ASSUME PurgeInv, Fail \/ Crash
    PROVE  PurgeInv'
  <1> USE ConstantsAssumption DEF PurgeInv, TypeOK, Births, Confirmed, Progress, PlanFirst,
        OnlyReviewed, GoneIsComplete, Gone, Deleting, Steps, Incarnations, Reviews, Resource,
        Named, Data, EndWork, Goto, work, state, things, Exists, Listed, None, IsNext, Stages
  <1>0. reviewed # {} => \E p \in reviewed : Given = p.plan
    BY GivenReviewed
  <1>1. CASE Fail
    BY <1>0, <1>1 DEF Fail, Destroy
  <1>2. CASE Crash
    <2>1. infra' \in BOOLEAN
      BY <1>0, <1>2 DEF Crash
    <2>2. cur' = {} /\ todo' = {} /\ op' \in Steps
      BY <1>0, <1>2 DEF Crash
    <2>3. TypeOK'
      BY <1>0, <1>2, <2>1, <2>2 DEF Crash
    <2> QED
      BY <1>0, <1>2, <2>3 DEF Crash
  <1> QED
    BY <1>1, <1>2

(* What a late InfraAction does: of the resources it touches one database. *)
LEMMA InfraEffects ==
    ASSUME PurgeInv, InfraRun
    PROVE  /\ op = "idle" /\ infra' = FALSE
           /\ UNCHANGED <<state, routed, reviewed, work, destroyed, requests, faults>>
           /\ stage' \in [Database -> Stages]
           /\ engine' \in {"running", "stopped", "archived"}
           /\ \/ UNCHANGED <<inc, born>>
              \/ \E d \in Database : inc' = [inc EXCEPT ![d] = 0] /\ UNCHANGED born
              \/ \E d \in Database :
                    /\ born[d] < MaxBorn /\ inc' = [inc EXCEPT ![d] = born[d] + 1]
                    /\ born' = [born EXCEPT ![d] = @ + 1]
  <1> DEFINE Typed == /\ stage' \in [Database -> Stages]
                      /\ engine' \in {"running", "stopped", "archived"}
             Moved == \/ UNCHANGED <<inc, born>>
                      \/ \E d \in Database : inc' = [inc EXCEPT ![d] = 0] /\ UNCHANGED born
                      \/ \E d \in Database :
                            /\ born[d] < MaxBorn /\ inc' = [inc EXCEPT ![d] = born[d] + 1]
                            /\ born' = [born EXCEPT ![d] = @ + 1]
  <1>0. stage \in [Database -> Stages] /\ engine \in {"running", "stopped", "archived"}
    BY DEF PurgeInv, TypeOK
  <1>1. ASSUME NEW d \in Database, InfraPurge(d) PROVE Typed /\ Moved
    BY <1>0, <1>1 DEF InfraPurge, Stages
  <1>2. ASSUME NEW d \in Database, InfraCreate(d) PROVE Typed /\ Moved
    BY <1>0, <1>2 DEF InfraCreate, Stages
  <1>3. ASSUME NEW d \in Database, InfraArchive(d) PROVE Typed /\ Moved
    BY <1>0, <1>3 DEF InfraArchive, Stages
  <1>4. ASSUME InfraInstance PROVE Typed /\ Moved
    <2>1. Typed
      BY <1>0, <1>4 DEF InfraInstance
    <2>2. Moved
      BY <1>4 DEF InfraInstance
    <2> QED
      BY <2>1, <2>2
  <1>5. ASSUME UNCHANGED things PROVE Typed /\ Moved
    <2>1. Typed
      BY <1>0, <1>5 DEF things
    <2>2. Moved
      BY <1>5 DEF things
    <2> QED
      BY <2>1, <2>2
  <1>6. Typed /\ Moved
    BY <1>1, <1>2, <1>3, <1>4, <1>5 DEF InfraRun
  <1> QED
    BY <1>6 DEF InfraRun

(* The rest of the service and the other users of Docker. *)
LEMMA OtherStep ==
    ASSUME PurgeInv,
           \/ Up \/ (\E d \in Database : Bind(d) \/ Alter(d)) \/ Switch
           \/ (\E r \in Resource \ Database : Vanish(r) \/ Replace(r))
           \/ InfraCheck \/ InfraRun
    PROVE  PurgeInv'
  <1> USE ConstantsAssumption DEF PurgeInv, TypeOK, Births, Confirmed, Progress, PlanFirst,
        OnlyReviewed, GoneIsComplete, Gone, Deleting, Steps, Incarnations, Reviews, Resource,
        Named, Data, EndWork, Goto, work, state, things, Exists, Listed, None, IsNext, Stages
  <1>0. reviewed # {} => \E p \in reviewed : Given = p.plan
    BY GivenReviewed
  <1>1. CASE Up
    BY <1>0, <1>1 DEF Up
  <1>2. ASSUME NEW d \in Database, Bind(d) PROVE PurgeInv'
    BY <1>0, <1>2 DEF Bind
  <1>3. ASSUME NEW r \in Resource \ Database, Vanish(r) PROVE PurgeInv'
    BY <1>0, <1>3 DEF Vanish
  <1>4. ASSUME NEW r \in Resource \ Database, Replace(r) PROVE PurgeInv'
    BY <1>0, <1>4 DEF Replace
  <1>5. CASE InfraCheck
    BY <1>0, <1>5 DEF InfraCheck
  <1>7. ASSUME NEW d \in Database, Alter(d) PROVE PurgeInv'
    BY <1>0, <1>7 DEF Alter
  <1>8. CASE Switch
    BY <1>0, <1>8 DEF Switch
  <1>6. CASE InfraRun
    <2>1. /\ UNCHANGED <<state, routed, reviewed, work, destroyed, requests, faults>>
          /\ infra' \in BOOLEAN /\ op = "idle"
          /\ stage' \in [Database -> Stages] /\ engine' \in {"running", "stopped", "archived"}
      BY <1>6, InfraEffects
    <2>2. CASE UNCHANGED <<inc, born>>
      <3>1. TypeOK'
        BY <2>1, <2>2
      <3> QED
        BY <2>1, <2>2, <3>1
    <2>3. ASSUME NEW d \in Database, inc' = [inc EXCEPT ![d] = 0], UNCHANGED born
          PROVE  PurgeInv'
      <3>1. TypeOK'
        BY <2>1, <2>3
      <3> QED
        BY <2>1, <2>3, <3>1
    <2>4. ASSUME NEW d \in Database, born[d] < MaxBorn, inc' = [inc EXCEPT ![d] = born[d] + 1],
                 born' = [born EXCEPT ![d] = @ + 1]
          PROVE  PurgeInv'
      <3>1. inc' \in Incarnations /\ born' \in Incarnations
        BY <2>4
      <3>2. TypeOK'
        BY <2>1, <3>1
      <3> QED
        BY <2>1, <2>4, <3>2
    <2> QED
      BY <1>6, <2>2, <2>3, <2>4, InfraEffects
  <1> QED
    BY <1>1, <1>2, <1>3, <1>4, <1>5, <1>6, <1>7, <1>8

(* The initial states. *)
LEMMA InitInv == Init => PurgeInv
  <1> SUFFICES ASSUME Init PROVE PurgeInv
    OBVIOUS
  <1> USE ConstantsAssumption DEF Init, Incarnations, Resource, None, Steps
  <1>1. inc \in Incarnations /\ born \in Incarnations /\ plan \in Incarnations
    OBVIOUS
  <1>2. applied \in BOOLEAN /\ routed \in BOOLEAN /\ record \in BOOLEAN /\ pending \in BOOLEAN
    OBVIOUS
  <1>3. bound \subseteq Database /\ reviewed = {} /\ todo = {} /\ cur = {} /\ destroyed = {}
    OBVIOUS
  <1>4. ~infra /\ requests \in 0 .. MaxInfra /\ faults \in 0 .. MaxFaults
    OBVIOUS
  <1>5. TypeOK
    BY <1>1, <1>2, <1>3, <1>4 DEF TypeOK
  <1> QED
    BY <1>1, <1>5 DEF PurgeInv, Births, Confirmed, Progress, PlanFirst, OnlyReviewed,
        GoneIsComplete, Deleting, Gone, IsNext

(* Steps that change nothing. *)
LEMMA Stutter == ASSUME PurgeInv, UNCHANGED vars PROVE PurgeInv'
  BY DEF PurgeInv, TypeOK, Births, Confirmed, Progress, PlanFirst, OnlyReviewed,
      GoneIsComplete, Gone, Deleting, IsNext, vars, state, work, things

(* Every step of the specification keeps the invariant. *)
LEMMA NextInv == PurgeInv /\ [Next]_vars => PurgeInv'
  <1> SUFFICES ASSUME PurgeInv, [Next]_vars PROVE PurgeInv'
    OBVIOUS
  <1>1. CASE Review \/ Dismiss \/ Submit \/ Confirm \/ Refuse
    BY <1>1, ReviewStep
  <1>2. CASE Journal \/ SyncRoutes
    BY <1>2, SaveStep
  <1>3. CASE (\E r \in Resource : Inspect(r)) \/ Remove \/ RemoveMisses \/ Check \/ Remaining
    BY <1>3, DeleteStep
  <1>4. CASE (\E r \in Resource : Verify(r)) \/ Verified \/ Final
    BY <1>4, VerifyStep
  <1>5. CASE Fail \/ Crash
    BY <1>5, FaultStep
  <1>6. CASE \/ Up \/ (\E d \in Database : Bind(d) \/ Alter(d)) \/ Switch
             \/ (\E r \in Resource \ Database : Vanish(r) \/ Replace(r))
             \/ InfraCheck \/ InfraRun
    BY <1>6, OtherStep
  <1>7. CASE UNCHANGED vars
    BY <1>7, Stutter
  <1> QED
    BY <1>1, <1>2, <1>3, <1>4, <1>5, <1>6, <1>7 DEF Next, Purge, Purged

(* So it holds throughout. *)
LEMMA Invariance == Spec => []PurgeInv
  BY InitInv, NextInv, PTL DEF Spec

(* An incarnation is removed by a command, and by no other step of the     *)
(* operation.                                                              *)
LEMMA RemovedByCommand ==
    ASSUME PurgeInv, [Next]_vars, destroyed' # destroyed
    PROVE  \E x \in cur : Destroy(x) /\ UNCHANGED plan
  BY DEF Next, Purge, Purged, vars, state, Review, Dismiss, Submit, Confirm, Refuse, Journal,
      SyncRoutes, Inspect, Verify, Remove, RemoveMisses, Check, Remaining, Verified, Final,
      Fail, Crash, Up, Bind, Vanish, Replace, Alter, Switch, InfraCheck, InfraRun
--------------------------------------------------------------------------------
(* Every variable keeps its type. *)
THEOREM PurgeTypes == Spec => []TypeOK
  BY Invariance, PTL DEF PurgeInv

(* Whatever fails, dies or is retried, only what the first review listed is *)
(* removed (deleteStackResource and the plan in stackPurges).               *)
THEOREM NothingElseIsRemoved == Spec => []OnlyReviewed
  BY Invariance, PTL DEF PurgeInv

(* The last commit of PurgeStack drops the record only when nothing that   *)
(* was reviewed is left.                                                   *)
THEOREM NoResidue == Spec => []GoneIsComplete
  BY Invariance, PTL DEF PurgeInv

(* The plan is on disk and the routes are withdrawn before the first       *)
(* resource goes.                                                          *)
THEOREM PlanIsSaved == Spec => []PlanFirst
  BY Invariance, PTL DEF PurgeInv

(* PurgeStack removes a database or a volume only after every container of *)
(* the plan.                                                               *)
THEOREM ContainersGoFirst == Spec => ConsumersFirst
  <1>1. ASSUME PurgeInv, [Next]_vars, NEW x \in destroyed' \ destroyed, x[1] \in Data,
               NEW c \in Container
        PROVE  plan[c] = 0 \/ inc[c] # plan[c]
    <2>1. PICK y \in cur : Destroy(y) /\ UNCHANGED plan
      BY <1>1, RemovedByCommand
    <2>2. x[1] = y[1] /\ op = "rm" /\ IsNext(y[1])
      BY <1>1, <2>1 DEF Destroy, PurgeInv, Progress
    <2>3. c \notin todo
      BY <1>1, <2>2, ConstantsAssumption DEF IsNext, Rank, Data
    <2> QED
      BY <1>1, <2>2, <2>3 DEF PurgeInv, Progress, Gone
  <1>2. PurgeInv /\ [Next]_vars =>
           [\A x \in destroyed' \ destroyed : x[1] \in Data =>
              \A c \in Container : plan[c] = 0 \/ inc[c] # plan[c]]_vars
    BY <1>1
  <1> QED
    BY <1>2, Invariance, PTL DEF Spec, ConsumersFirst
--------------------------------------------------------------------------------
(* The deletion as its owner sees it.                                      *)

Shown == <<record, pending, plan, inc, destroyed>>

(* What the operation does between its commits and its commands, and what  *)
(* the rest of the service does before, is not seen.                       *)
LEMMA HiddenSteps ==
    ASSUME \/ Review \/ Dismiss \/ Submit \/ Confirm \/ Refuse \/ SyncRoutes
           \/ (\E r \in Resource : Inspect(r) \/ Verify(r))
           \/ RemoveMisses \/ Check \/ Remaining \/ Verified \/ Crash \/ InfraCheck
           \/ (\E d \in Database : Bind(d) \/ Alter(d)) \/ Switch
           \/ UNCHANGED vars
    PROVE  UNCHANGED Shown
  BY DEF Shown, Review, Dismiss, Submit, Confirm, Refuse, SyncRoutes, Inspect, Verify,
         RemoveMisses, Check, Remaining, Verified, Crash, InfraCheck, Bind, Alter, Switch, vars,
         state, things

(* It stutters then.                                                       *)
LEMMA HiddenStutters == ASSUME UNCHANGED Shown PROVE UNCHANGED Deleted!vars
  BY DEF Shown, Deleted!vars, Phase, Left, Taken

(* An incarnation that goes, or gives way to one that is born now, is one  *)
(* fewer of the plan.                                                      *)
LEMMA OneFewer ==
    ASSUME PurgeInv, NEW r \in Resource, NEW v \in {0, born[r] + 1},
           inc' = [inc EXCEPT ![r] = v], UNCHANGED <<record, pending, plan>>
    PROVE  Phase' = Phase /\ Left' = Left \ {r}
  <1>1. Phase' = Phase
    BY DEF Phase
  <1>2. plan[r] \in Nat /\ born[r] \in Nat /\ plan[r] <= born[r]
    BY ConstantsAssumption DEF PurgeInv, TypeOK, Births, Incarnations
  <1>3. v = plan[r] => plan[r] = 0
    BY <1>2
  <1>4. \A q \in Resource : inc'[q] = IF q = r THEN v ELSE inc[q]
    BY DEF PurgeInv, TypeOK, Incarnations
  <1>5. \A q \in Resource : plan'[q] # 0 /\ inc'[q] = plan'[q]
                             <=> plan[q] # 0 /\ inc[q] = plan[q] /\ q # r
    BY <1>3, <1>4
  <1> QED
    BY <1>1, <1>5 DEF Left

(* The command removes an item of the plan; data when no container is left.*)
LEMMA CommandTakes ==
    ASSUME PurgeInv, NEW x \in cur, Destroy(x), UNCHANGED <<record, pending, plan>>
    PROVE  Deleted!Next
  <1> DEFINE r == x[1]
  <1>1. /\ r \in Resource /\ x[2] = plan[r] /\ IsNext(r) /\ op = "rm"
        /\ plan[r] # 0 /\ pending /\ record
    BY DEF PurgeInv, TypeOK, Progress, Confirmed, Deleting, Destroy, IsNext
  <1>2. Phase = "pending" /\ Left = {q \in Resource : plan[q] # 0 /\ inc[q] = plan[q]}
    BY <1>1 DEF Phase, Left
  <1>3. Phase' = Phase /\ Left' = Left \ {r}
    BY <1>1, OneFewer DEF Destroy
  <1>4. Taken' = Taken \cup {<<r, plan[r]>>}
    <2> DEFINE t == <<r, inc[r], x[2]>>
    <2>1. destroyed' = destroyed \cup {t}
      BY DEF Destroy
    <2>2. <<t[1], t[3]>> = <<r, plan[r]>>
      BY <1>1
    <2> HIDE DEF r, t
    <2> QED
      BY <2>1, <2>2 DEF Taken
  <1>5. ASSUME r \in Data PROVE Left \cap Container = {}
    <2>1. \A c \in Container : c \notin todo
      BY <1>1, <1>5, ConstantsAssumption DEF IsNext, Rank, Data
    <2> QED
      BY <1>1, <1>2, <2>1 DEF PurgeInv, Progress, Gone
  <1>6. Deleted!Take(r)
    BY <1>1, <1>2, <1>3, <1>4, <1>5 DEF Deleted!Take
  <1> QED
    BY <1>1, <1>6 DEF Deleted!Next

(* Every step is one of the deletion or none.                              *)
LEMMA StepDeletes ==
    ASSUME PurgeInv, [Next]_vars
    PROVE  [Deleted!Next]_(Deleted!vars)
  <1>1. CASE UNCHANGED Shown
    BY <1>1, HiddenStutters
  <1>2. CASE Journal
    <2>1. /\ record /\ record' /\ pending' /\ UNCHANGED <<inc, destroyed>>
          /\ plan' = IF pending THEN plan ELSE Given
      BY <1>2 DEF Journal, PurgeInv, Confirmed, things
    <2>2. CASE pending
      BY <2>1, <2>2, HiddenStutters DEF Shown, PurgeInv, TypeOK
    <2>3. CASE ~pending
      <3>1. Phase = "live" /\ Phase' = "pending" /\ UNCHANGED Taken
        BY <2>1, <2>3 DEF Phase, Taken
      <3>2. Left' \subseteq {r \in Resource : plan'[r] # 0}
        BY DEF Left
      <3>3. Deleted!Confirm
        BY <3>1, <3>2 DEF Deleted!Confirm, Deleted!Listed
      <3> QED
        BY <3>3 DEF Deleted!Next
    <2> QED
      BY <2>2, <2>3
  <1>3. CASE Remove \/ Fail
    <2>1. UNCHANGED <<record, pending, plan>>
      BY <1>3 DEF Remove, Fail, state
    <2>2. (\E x \in cur : Destroy(x)) \/ UNCHANGED <<inc, destroyed>>
      BY <1>3 DEF Remove, Fail
    <2> QED
      BY <2>1, <2>2, CommandTakes, HiddenStutters DEF Shown
  <1>4. CASE Final
    <2>1. /\ op = "final" /\ ~record' /\ UNCHANGED <<inc, plan, destroyed>>
          /\ record /\ pending
      BY <1>4 DEF Final, PurgeInv, Confirmed, Deleting, things
    <2>2. {r \in Resource : plan[r] # 0 /\ inc[r] = plan[r]} = {}
      BY <2>1 DEF PurgeInv, Progress, Gone
    <2>3. Phase = "pending" /\ Phase' = "gone" /\ Left = {} /\ Left' = {} /\ UNCHANGED Taken
      BY <2>1, <2>2 DEF Phase, Left, Taken
    <2>4. Deleted!Close
      BY <2>1, <2>3 DEF Deleted!Close
    <2> QED
      BY <2>4 DEF Deleted!Next
  <1>5. CASE Up \/ InfraRun \/ \E r \in Resource \ Database : Vanish(r) \/ Replace(r)
    <2>1. /\ UNCHANGED <<record, pending, plan, destroyed>>
          /\ \/ UNCHANGED inc
             \/ \E r \in Resource : \E v \in {0, born[r] + 1} : inc' = [inc EXCEPT ![r] = v]
      <3>1. CASE InfraRun
        BY <3>1, InfraEffects DEF Resource, state
      <3>2. CASE Up \/ \E r \in Resource \ Database : Vanish(r) \/ Replace(r)
        BY <3>2 DEF Up, Vanish, Replace, state, Resource
      <3> QED
        BY <1>5, <3>1, <3>2
    <2>2. CASE UNCHANGED inc
      BY <2>1, <2>2, HiddenStutters DEF Shown
    <2>3. ASSUME NEW r \in Resource, NEW v \in {0, born[r] + 1}, inc' = [inc EXCEPT ![r] = v]
          PROVE  [Deleted!Next]_(Deleted!vars)
      <3>1. Phase' = Phase /\ Left' = Left \ {r} /\ UNCHANGED <<plan, Taken>>
        BY <2>1, <2>3, OneFewer DEF Taken
      <3>2. CASE r \in Left
        BY <3>1, <3>2 DEF Deleted!Next, Deleted!Lose
      <3>3. CASE r \notin Left
        BY <3>1, <3>3 DEF Deleted!vars
      <3> QED
        BY <3>2, <3>3
    <2> QED
      BY <2>1, <2>2, <2>3
  <1> QED
    BY <1>1, <1>2, <1>3, <1>4, <1>5, HiddenSteps DEF Next, Purge, Purged

(* ImplementsDeletion of the run "stack_purge", for any resources and      *)
(* bounds: PurgeStack, its failures, deaths and retries and the other      *)
(* users of Docker together are one deletion.                              *)
THEOREM PurgeImplementsDeletion == Spec => ImplementsDeletion
  <1>1. Init => Deleted!Init
    BY DEF Init, None, Deleted!Init, Phase, Left, Taken
  <1>2. PurgeInv /\ [Next]_vars => [Deleted!Next]_(Deleted!vars)
    BY StepDeletes
  <1> QED
    BY <1>1, <1>2, Invariance, PTL DEF Spec, ImplementsDeletion, Deleted!Spec
--------------------------------------------------------------------------------
(* Why an attempt ends.  Every resource costs at most three steps of the   *)
(* loop that removes and one of the loop that verifies; Effort is what is  *)
(* left to do at most.                                                     *)
Size == Cardinality(Resource)

Effort ==
    CASE op = "submitted" -> 4 * Size + 6
      [] op = "journal"   -> 4 * Size + 5
      [] op = "sync"      -> 4 * Size + 4
      [] op = "delete"    -> Size + 3 + 3 * Cardinality(todo)
      [] op = "rm"        -> Size + 2 + 3 * Cardinality(todo)
      [] op = "check"     -> Size + 1 + 3 * Cardinality(todo)
      [] op = "verify"    -> 2 + Cardinality(todo)
      [] op = "final"     -> 1
      [] OTHER            -> 0

(* Each step of the operation leaves less to do, and while it runs nobody  *)
(* else makes it more, whatever is created or replaced meanwhile: one      *)
(* attempt of PurgeStack takes at most 4 * Size + 6 steps.                 *)
AttemptIsFinite ==
    [][/\ Purge => Effort' < Effort
       /\ op # "idle" => Effort' <= Effort
       /\ Effort' <= 4 * Size + 6]_vars

(* The loops go over parts of a finite set. *)
LEMMA TodoIsFinite ==
    ASSUME IsFiniteSet(Resource), NEW S \in SUBSET Resource
    PROVE  /\ IsFiniteSet(S) /\ Cardinality(S) \in Nat /\ Size \in Nat
           /\ Cardinality(S) <= Size
           /\ \A r \in S : Cardinality(S \ {r}) = Cardinality(S) - 1
           /\ \A r \in S : Cardinality(S) >= 1
  <1>1. IsFiniteSet(S) /\ Cardinality(S) \in Nat /\ Size \in Nat /\ Cardinality(S) <= Size
    BY FS_Subset, FS_CardinalityType DEF Size
  <1>2. \A r \in S : Cardinality(S \ {r}) = Cardinality(S) - 1
    BY <1>1, FS_RemoveElement
  <1>3. \A r \in S : Cardinality(S) # 0
    BY <1>1, FS_EmptySet
  <1> QED
    BY <1>1, <1>2, <1>3

(* What is left is a natural, no more than at the beginning. *)
LEMMA EffortIsBounded ==
    ASSUME IsFiniteSet(Resource), todo \subseteq Resource
    PROVE  Effort \in Nat /\ Effort <= 4 * Size + 6
  BY TodoIsFinite DEF Effort

(* What each step of the operation makes of op and todo.                   *)
LEMMA PurgeMoves ==
    ASSUME PurgeInv, Purge
    PROVE  \/ op # "idle" /\ op' = "idle"
           \/ op = "submitted" /\ op' = "journal"
           \/ op = "journal" /\ op' = "sync"
           \/ op = "sync" /\ op' = "delete"
           \/ op = "delete" /\ op' = "delete" /\ \E r \in todo : todo' = todo \ {r}
           \/ op = "delete" /\ op' = "rm" /\ todo' = todo
           \/ op = "rm" /\ op' = "check" /\ todo' = todo
           \/ op = "check" /\ op' = "delete" /\ \E r \in todo : todo' = todo \ {r}
           \/ op = "delete" /\ op' = "verify"
           \/ op = "verify" /\ op' = "verify" /\ \E r \in todo : todo' = todo \ {r}
           \/ op = "verify" /\ op' = "final"
  <1>1. CASE Confirm \/ Refuse \/ Journal \/ SyncRoutes
    BY <1>1 DEF Confirm, Refuse, Journal, SyncRoutes, Goto, EndWork
  <1>2. ASSUME NEW r \in Resource, Inspect(r) \/ Verify(r)
        PROVE  \/ op # "idle" /\ op' = "idle"
               \/ op \in {"delete", "verify"} /\ op' = op /\ r \in todo /\ todo' = todo \ {r}
               \/ op = "delete" /\ op' = "rm" /\ todo' = todo
    BY <1>2 DEF Inspect, Verify, IsNext, EndWork
  <1>3. CASE Check
    BY <1>3 DEF Check, EndWork, PurgeInv, Progress, IsNext
  <1>4. CASE Remove \/ RemoveMisses \/ Remaining \/ Verified \/ Final
    BY <1>4 DEF Remove, RemoveMisses, Remaining, Verified, Final, Destroy, Goto, EndWork
  <1> QED
    BY <1>1, <1>2, <1>3, <1>4 DEF Purge

(* Each of them leaves less to do.                                         *)
LEMMA PurgeIsLess ==
    ASSUME IsFiniteSet(Resource), PurgeInv, PurgeInv', Purge
    PROVE  Effort' < Effort
  <1>1. todo \subseteq Resource /\ todo' \subseteq Resource
    BY DEF PurgeInv, TypeOK
  <1> DEFINE m == Cardinality(todo)
             n == Cardinality(todo')
  <1>2. /\ m \in Nat /\ n \in Nat /\ Size \in Nat /\ m <= Size /\ n <= Size /\ Size' = Size
        /\ \A r \in todo : todo' = todo \ {r} => n = m - 1
        /\ todo' = todo => n = m
    BY <1>1, TodoIsFinite DEF Size
  <1>3. Cardinality(todo)' = n
    OBVIOUS
  <1> HIDE DEF m, n
  <1>4. Effort = CASE op = "submitted" -> 4 * Size + 6
                   [] op = "journal"   -> 4 * Size + 5
                   [] op = "sync"      -> 4 * Size + 4
                   [] op = "delete"    -> Size + 3 + 3 * m
                   [] op = "rm"        -> Size + 2 + 3 * m
                   [] op = "check"     -> Size + 1 + 3 * m
                   [] op = "verify"    -> 2 + m
                   [] op = "final"     -> 1
                   [] OTHER            -> 0
    BY DEF Effort, m
  <1>5. Effort' = CASE op' = "submitted" -> 4 * Size + 6
                   [] op' = "journal"   -> 4 * Size + 5
                   [] op' = "sync"      -> 4 * Size + 4
                   [] op' = "delete"    -> Size + 3 + 3 * n
                   [] op' = "rm"        -> Size + 2 + 3 * n
                   [] op' = "check"     -> Size + 1 + 3 * n
                   [] op' = "verify"    -> 2 + n
                   [] op' = "final"     -> 1
                   [] OTHER             -> 0
    BY <1>2 DEF Effort, n
  <1>6. op \in Steps
    BY DEF PurgeInv, TypeOK
  <1> QED
    BY <1>2, <1>4, <1>5, <1>6, PurgeMoves DEF Steps

(* A failure or a death ends the attempt; the others touch neither its     *)
(* step nor its loop.                                                      *)
LEMMA OthersWait ==
    ASSUME PurgeInv, [Next]_vars, ~Purge, op # "idle"
    PROVE  op' = "idle" \/ UNCHANGED <<op, todo>>
  BY DEF Next, Purged, Review, Dismiss, Submit, Fail, Crash, EndWork, Up, Bind, Vanish,
         Replace, Alter, Switch, InfraCheck, InfraRun, vars, work

(* For any finite set of resources. *)
THEOREM AttemptsAreFinite == ASSUME IsFiniteSet(Resource) PROVE Spec => AttemptIsFinite
  <1>1. PurgeInv /\ PurgeInv' /\ [Next]_vars =>
           [/\ Purge => Effort' < Effort
            /\ op # "idle" => Effort' <= Effort
            /\ Effort' <= 4 * Size + 6]_vars
    <2> SUFFICES ASSUME PurgeInv, PurgeInv', [Next]_vars
                 PROVE  /\ Purge => Effort' < Effort
                        /\ op # "idle" => Effort' <= Effort
                        /\ Effort' <= 4 * Size + 6
      OBVIOUS
    <2>1. Effort \in Nat /\ Effort' \in Nat /\ Effort' <= 4 * Size + 6
      <3>1. Effort \in Nat
        BY EffortIsBounded DEF PurgeInv, TypeOK
      <3>2. todo' \in SUBSET Resource
        BY DEF PurgeInv, TypeOK
      <3>3. Cardinality(todo') \in Nat /\ Cardinality(todo') <= Size /\ Size \in Nat
        BY <3>2, TodoIsFinite
      <3> QED
        BY <3>1, <3>3 DEF Effort, Size
    <2>2. Purge => Effort' < Effort
      BY PurgeIsLess
    <2>3. ASSUME ~Purge, op # "idle" PROVE Effort' <= Effort
      <3>1. CASE op' = "idle"
        <4>1. Effort' = 0
          BY <3>1 DEF Effort
        <4> QED
          BY <2>1, <4>1
      <3>2. CASE UNCHANGED <<op, todo>>
        <4>1. Effort' = Effort
          BY <3>2 DEF Effort, Size
        <4> QED
          BY <2>1, <4>1
      <3> QED
        BY <2>3, <3>1, <3>2, OthersWait
    <2> QED
      BY <2>1, <2>2, <2>3
  <1> QED
    BY <1>1, Invariance, PTL DEF Spec, AttemptIsFinite
================================================================================
