-------------------------- MODULE CatalogTypeProofs --------------------------
(***************************************************************************)
(* The types of Catalog.  They rest on its invariants: that what is routed *)
(* is a configuration follows from the record an operation works on.       *)
(***************************************************************************)
EXTENDS CatalogProofs, FiniteSetTheorems

Places == {"none", "active", "archived", "removed"}
Routes == App \X (Mode \X Config)

(* A record in the catalog has a group and a configuration.                *)
RecordsTyped ==
    /\ place \in [App -> Places] /\ rec \in [App -> Stack]
    /\ \A a \in App : Named(a) => rec[a].group \in Group /\ rec[a].config \in Config

(* What a process holds of it.                                             *)
Plain(p) ==
    /\ pr[p].at # "done" /\ pr[p].op \in Kind \cup {None}
    /\ pr[p].app \in App \cup {None} /\ pr[p].mode \in Mode \cup {None}
    /\ pr[p].group \in Group \cup {None} /\ pr[p].config \in Config \cup {None}

(* What it is about to write into the catalog.                             *)
Writes(p) ==
    /\ Stage(p) \in {"register", "edit"} => pr[p].group \in Group /\ pr[p].config \in Config
    /\ Stage(p) = "trust" => pr[p].mode \in Mode /\ pr[p].seen \in Trusted
    /\ Stage(p) \in JobStages /\ pr[p].op = "up" => pr[p].mode \in Mode

OthersTyped ==
    /\ groups \subseteq Group /\ roots \subseteq Root
    /\ mutation \subseteq Proc /\ routing \subseteq Proc
    /\ pending \subseteq Routes /\ file \subseteq Routes /\ torn \in BOOLEAN
    /\ running \subseteq App /\ outlived \subseteq App /\ unseen \subseteq App
    /\ \A e \in watches \cup followed : e.app \in App /\ e.config \in Config
    /\ crashes \in 0 .. MaxCrashes

TypeInv == RecordsTyped /\ OthersTyped /\ \A p \in Proc : Plain(p) /\ Writes(p)
--------------------------------------------------------------------------------
(* A process that is blank.                                                *)
LEMMA EndTyped ==
    ASSUME NEW p \in Proc, Ends(p)
    PROVE  Plain(p)' /\ Writes(p)'
  BY DEF Ends, Blank, Plain, Writes, Stage, JobStages, UpStages

(* An operation that goes on with its next target.                         *)
LEMMA NextTyped ==
    ASSUME Shape, NEW p \in Proc, NextTarget(p), Plain(p)
    PROVE  Plain(p)'
  BY DEF Shape, Fields, NextTarget, Become, Blank, Plain

(* A process that keeps all it holds.                                      *)
LEMMA KeepTyped ==
    ASSUME NEW p \in Proc, Plain(p), Writes(p), KeepsAll(p), Stage(p)' = Stage(p),
           Stage(p) # "trust", pr'[p].at # "done"
    PROVE  Plain(p)' /\ Writes(p)'
  BY DEF KeepsAll, KeepsTarget, KeepsClaim, Plain, Writes

(* What a request reads has the types.                                     *)
LEMMA RequestPlain ==
    ASSUME Shape, RecordsTyped, NEW p \in Proc, Request(p)
    PROVE  Plain(p)'
  <1> DEFINE Fits == Plain(p)'
  <1> USE DEF Shape, Begin, Blank, Plain
  <1>1. ASSUME NEW a \in App, NEW g \in Group, NEW c \in Config, RegisterRead(p, a, g, c)
        PROVE  Fits
    BY <1>1 DEF RegisterRead
  <1>2. ASSUME NEW a \in App, NEW g \in Group, NEW c \in Config, EditRead(p, a, g, c)
        PROVE  Fits
    BY <1>2 DEF EditRead
  <1>3. ASSUME NEW a \in App, RemoveObserve(p, a)
        PROVE  Fits
    BY <1>3 DEF RemoveObserve
  <1>4. ASSUME NEW a \in App, ArchiveReview(p, a)
        PROVE  Fits
    BY <1>4 DEF ArchiveReview
  <1>5. ASSUME NEW a \in App, RestoreRead(p, a)
        PROVE  Fits
    BY <1>5 DEF RestoreRead
  <1>6. ASSUME NEW g \in Group, DeleteGroupRead(p, g)
        PROVE  Fits
    BY <1>6 DEF DeleteGroupRead
  <1>7. ASSUME NEW r \in Root, RemoveRootRead(p, r)
        PROVE  Fits
    BY <1>7 DEF RemoveRootRead
  <1>8. ASSUME NEW a \in App, NEW m \in Mode, TrustRead(p, a, m)
        PROVE  Fits
    BY <1>8 DEF TrustRead
  <1>9. ASSUME NEW k, NEW ids, NEW m \in Mode \cup {None}, Select(p, k, ids, m)
        PROVE  Fits
    BY <1>9 DEF Select
  <1>10. ASSUME NEW k, NEW a \in App, NEW m \in Mode, SelectBinding(p, k, a, m)
         PROVE  Fits
    BY <1>10 DEF SelectBinding
  <1>11. ASSUME NEW id, StartWatch(p, id)
         PROVE  Fits
    BY <1>11 DEF StartWatch
  <1>12. ASSUME NEW e, ClientStopsWatch(p, e)
         PROVE  Fits
    BY <1>12 DEF ClientStopsWatch
  <1>13. CASE ConfigureSubmit(p)
    BY <1>13 DEF ConfigureSubmit
  <1> HIDE DEF Shape, Begin, Blank, Plain
  <1>14. ASSUME NEW g, NEW r, CreateGroup(p, g) \/ AddRoot(p, r)
         PROVE  Fits
    BY <1>14, SmallCommits, EndTyped
  <1>15. ASSUME NEW k, NEW m \in Mode \cup {None}, SelectAction(p, k, m)
         PROVE  Fits
    BY <1>9, <1>15 DEF SelectAction
  <1> QED
    BY <1>1, <1>2, <1>3, <1>4, <1>5, <1>6, <1>7, <1>8, <1>10, <1>11, <1>12, <1>13, <1>14, <1>15
       DEF Request

(* So has what it is to write.                                             *)
LEMMA RequestWrites ==
    ASSUME Shape, RecordsTyped, NEW p \in Proc, Request(p)
    PROVE  Writes(p)'
  <1>1. ASSUME NEW x, NEW k, Fresh(p, x, k), k # "up", x \notin {"register", "edit", "trust"},
               x \notin {"sync", "write"}, x = "stopping" => pr'[p].next = "done"
        PROVE  Writes(p)'
    BY <1>1 DEF Fresh, Writes, Stage
  <1>2. ASSUME NEW a \in App, NEW g \in Group, NEW c \in Config,
               RegisterRead(p, a, g, c) \/ EditRead(p, a, g, c)
        PROVE  Writes(p)'
    <2>1. pr'[p].group = g /\ pr'[p].config = c /\ pr'[p].at \in {"register", "edit"}
      <3>1. CASE RegisterRead(p, a, g, c)
        BY <3>1 DEF RegisterRead, Begin, Blank, Shape
      <3>2. CASE EditRead(p, a, g, c)
        BY <3>2 DEF EditRead, Begin, Blank, Shape
      <3> QED
        BY <1>2, <3>1, <3>2
    <2> QED
      BY <2>1 DEF Writes, Stage, JobStages, UpStages
  <1>3. ASSUME NEW a \in App, NEW m \in Mode, TrustRead(p, a, m)
        PROVE  Writes(p)'
    <2>1. /\ pr'[p].at = "trust" /\ pr'[p].mode = m
          /\ pr'[p].seen = Fingerprint(a, rec[a].config, m)
      BY <1>3 DEF TrustRead, Begin, Blank, Shape
    <2>2. rec[a].config \in Config
      BY <1>3 DEF TrustRead, RecordsTyped, Named
    <2>3. Fingerprint(a, rec[a].config, m) \in Trusted
      <3>1. ASSUME NEW b \in BOOLEAN PROVE <<ProjectOf[a], m, rec[a].config, b>> \in Trusted
        BY <2>2 DEF Trusted
      <3>2. (m \in LinksOf(a)) \in BOOLEAN
        OBVIOUS
      <3> QED
        BY <3>1, <3>2 DEF Fingerprint
    <2> QED
      BY <2>1, <2>3 DEF Writes, Stage, JobStages, UpStages
  <1>4. ASSUME NEW a \in App, RemoveObserve(p, a) \/ ArchiveReview(p, a) \/ RestoreRead(p, a)
        PROVE  Writes(p)'
    BY <1>1, <1>4, RemoveBegins, ArchiveReads, SmallReads
  <1>5. ASSUME NEW g, NEW r, DeleteGroupRead(p, g) \/ RemoveRootRead(p, r)
        PROVE  Writes(p)'
    BY <1>1, <1>5, SmallReads
  <1>6. ASSUME NEW g, NEW r, CreateGroup(p, g) \/ AddRoot(p, r)
        PROVE  Writes(p)'
    BY <1>6, SmallCommits, EndTyped
  <1>7. ASSUME NEW m \in Mode, SelectAction(p, "up", m)
        PROVE  Writes(p)'
    <2>1. ASSUME NEW ids, Select(p, "up", ids, m)
          PROVE  pr'[p].at = "select" /\ pr'[p].mode = m
      BY <2>1 DEF Select, Begin, Blank, Shape
    <2>2. pr'[p].at = "select" /\ pr'[p].mode = m
      BY <1>7, <2>1 DEF SelectAction
    <2> QED
      BY <2>2 DEF Writes, Stage
  <1>8. ASSUME NEW m, SelectAction(p, "stop", m) \/ SelectAction(p, "restart", m)
        PROVE  Writes(p)'
    BY <1>1, <1>8, ActionSelects
  <1>9. ASSUME NEW a \in App, NEW m \in Mode,
               SelectBinding(p, "bind", a, m) \/ SelectBinding(p, "unbind", a, m)
        PROVE  Writes(p)'
    BY <1>1, <1>9, BindingSelects
  <1>10. ASSUME NEW id, NEW e, StartWatch(p, id) \/ ClientStopsWatch(p, e) \/ ConfigureSubmit(p)
         PROVE  Writes(p)'
    BY <1>1, <1>10, WatchStarts, ClientStops, ConfigureStarts
  <1> QED
    BY <1>2, <1>3, <1>4, <1>5, <1>6, <1>7, <1>8, <1>9, <1>10 DEF Request

(* A commit leaves its process with what it had.                           *)
LEMMA CommitTyped ==
    ASSUME Shape, NEW p \in Proc, Plain(p), Writes(p), Commit(p)
    PROVE  Plain(p)' /\ Writes(p)'
  <1>1. CASE RegisterCommit(p) \/ DeleteGroupCommit(p) \/ RemoveRootCommit(p) \/ TrustCommit(p)
             \/ Abandon(p)
    BY <1>1, CommitsEnd, EndTyped
  <1>2. CASE EditStopWatch(p)
    BY <1>2, EditStops, KeepTyped DEF GoesTo, Stage
  <1>3. CASE ArchiveObserve(p)
    BY <1>3, ArchiveObserves
       DEF KeepsAll, KeepsTarget, KeepsClaim, Plain, Writes, Stage, JobStages, UpStages
  <1>4. CASE EditCommit(p) \/ RemoveCommit(p) \/ ArchiveCommit(p) \/ RestoreCommit(p)
    <2>1. ThenSync(p)
      BY <1>4 DEF EditCommit, RemoveCommit, ArchiveCommit, RestoreCommit
    <2>2. pr'[p] = [Blank EXCEPT !.at = "sync", !.op = pr[p].op, !.next = "done"]
      BY <2>1 DEF ThenSync, Become, Shape
    <2> QED
      BY <2>2 DEF Blank, Plain, Writes, Stage, JobStages, UpStages
  <1> QED
    BY <1>1, <1>2, <1>3, <1>4 DEF Commit

(* An operation holds a configuration that is in the catalog.              *)
LEMMA WorkPlain ==
    ASSUME Shape, RecordsTyped, NEW p \in Proc, Staged(p), Target(p), JobFacts(p),
           Plain(p), Writes(p), Work(p)
    PROVE  Plain(p)'
  <1>1. CASE \/ JobFail(p) \/ ExistingRun(p) \/ BindCommit(p) \/ UnbindCommit(p)
             \/ WatchBegin(p)
    BY <1>1, NextTyped DEF JobFail, ExistingRun, BindCommit, UnbindCommit, WatchBegin
  <1>2. CASE JobEnd(p) \/ ConfigureEnds(p)
    BY <1>2, EndTyped DEF JobEnd, ConfigureEnds, Become, Ends, Shape
  <1>3. ASSUME KeepsAll(p), pr'[p].at # "done"
        PROVE  Plain(p)'
    BY <1>3 DEF KeepsAll, KeepsTarget, KeepsClaim, Plain
  <1>4. CASE \/ HandlerStopsWatch(p) \/ ConfigureStopsWatch(p) \/ Configure(p) \/ SyncRead(p)
    BY <1>3, <1>4, HandlersStop, Configures, SyncsRead DEF GoesTo
  <1>5. CASE StopReturns(p)
    BY <1>3, <1>5, EndTyped, StopsReturn
  <1>6. CASE SyncWrite(p) \/ SyncFail(p)
    <2>1. \/ NextTarget(p) \/ Ends(p)
          \/ pr'[p] = [pr[p] EXCEPT !.at = "mode"]
      BY <1>6 DEF SyncWrite, SyncFail, Return, Become, Ends, Shape
    <2> QED
      BY <2>1, NextTyped, EndTyped DEF Shape, Fields, Plain
  <1>7. CASE Submit(p)
    BY <1>7 DEF Submit, Become, Shape, Fields, Plain
  <1>8. CASE JobTake(p)
    <2>1. PICK id \in pr[p].todo :
             \/ Become(p, [pr[p] EXCEPT !.todo = @ \ {id}])
             \/ \E a \in Lookup(id) :
                   Become(p, [pr[p] EXCEPT !.id = id, !.app = a,
                                           !.seen = IF pr[p].op = "up" THEN rec[a] ELSE None,
                                           !.at = IF pr[p].op = "bind" THEN "bind" ELSE "up"])
      BY <1>8 DEF JobTake
    <2>2. CASE Become(p, [pr[p] EXCEPT !.todo = @ \ {id}])
      BY <2>2 DEF Become, Shape, Fields, Plain
    <2>3. ASSUME NEW a \in Lookup(id),
                 Become(p, [pr[p] EXCEPT !.id = id, !.app = a,
                                         !.seen = IF pr[p].op = "up" THEN rec[a] ELSE None,
                                         !.at = IF pr[p].op = "bind" THEN "bind" ELSE "up"])
          PROVE  Plain(p)'
      <3>1. a \in App
        BY DEF Lookup
      <3> QED
        BY <2>3, <3>1 DEF Become, Shape, Fields, Plain
    <2> QED
      BY <2>1, <2>2, <2>3
  <1>9. CASE UpApproved(p)
    <2>1. pr[p].seen.config \in Config
      <3>1. Stage(p) = "up" /\ pr[p].op = "up"
        BY <1>9 DEF UpApproved, Stage
      <3>2. pr[p].seen = rec[pr[p].app] /\ OnTarget(p)
        BY <3>1 DEF JobFacts, Target
      <3> QED
        BY <3>2 DEF OnTarget, RecordsTyped, Named
    <2>2. /\ pr'[p].config = pr[p].seen.config /\ pr'[p].group = pr[p].group
          /\ pr'[p].app = pr[p].app /\ pr'[p].op = pr[p].op /\ pr'[p].mode = pr[p].mode
          /\ pr'[p].at \in {"mode", "approved"}
      BY <1>9 DEF UpApproved, Become, Shape, Fields
    <2> QED
      BY <2>1, <2>2 DEF Plain
  <1>10. CASE UpClear(p)
    BY <1>10 DEF UpClear, Become, Shape, Fields, Plain
  <1>11. CASE UpMode(p)
    BY <1>11 DEF UpMode, Become, Shape, Fields, Plain
  <1>12. CASE UpReapprove(p)
    BY <1>12 DEF UpReapprove, Become, Lookup, Shape, Fields, Plain
  <1>13. CASE UpRun(p)
    <2>1. NextTarget(p) \/ pr'[p] = [pr[p] EXCEPT !.at = "apply"]
      BY <1>13 DEF UpRun, Become, Shape
    <2> QED
      BY <2>1, NextTyped DEF Shape, Fields, Plain
  <1>14. CASE UpApply(p)
    BY <1>14 DEF UpApply, Become, Shape, Fields, Plain
  <1>15. CASE WatchRead(p)
    BY <1>15 DEF WatchRead, Become, Lookup, Shape, Fields, Plain
  <1> QED
    BY <1>1, <1>2, <1>4, <1>5, <1>6, <1>7, <1>8, <1>9, <1>10, <1>11, <1>12, <1>13, <1>14, <1>15
       DEF Work

(* Work goes on at the stage it is at, or as an operation.                 *)
LEMMA WorkStages ==
    ASSUME Shape, NEW p \in Proc, Staged(p), Work(p)
    PROVE  Stage(p)' \notin {"register", "trust"}
  <1>1. ASSUME OnToNext(p) \/ Ends(p) PROVE Stage(p)' \in {"job", "idle"}
    BY <1>1 DEF OnToNext, Ends, Blank, Stage
  <1>2. CASE Submit(p) \/ JobTake(p) \/ WatchRead(p)
    BY <1>2, Submits, JobTakes, WatchesRead DEF Stage
  <1>3. CASE \/ JobFail(p) \/ JobEnd(p) \/ ExistingRun(p) \/ BindCommit(p) \/ UnbindCommit(p)
             \/ WatchBegin(p)
    BY <1>1, <1>3, JobsFail
  <1>4. CASE UpApproved(p) \/ UpMode(p) \/ UpReapprove(p) \/ UpRun(p)
    BY <1>1, <1>4, UpsApprove, UpsMode, UpsReapprove, UpsRun DEF Stage
  <1>5. CASE UpClear(p) \/ UpApply(p)
    BY <1>5, UpsClear, UpsApply DEF GoesTo, Stage
  <1>6. CASE HandlerStopsWatch(p) \/ ConfigureStopsWatch(p) \/ StopReturns(p)
    BY <1>1, <1>6, HandlersStop, StopsReturn DEF GoesTo, Stage, Staged
  <1>7. CASE Configure(p) \/ ConfigureEnds(p)
    BY <1>1, <1>7, Configures DEF Stage
  <1>8. CASE SyncRead(p)
    BY <1>8, SyncsRead DEF GoesTo, Stage, Staged
  <1>9. CASE SyncWrite(p) \/ SyncFail(p)
    BY <1>1, <1>9, SyncsReturn DEF Stage
  <1> QED
    BY <1>2, <1>3, <1>4, <1>5, <1>6, <1>7, <1>8, <1>9 DEF Work

(* An operation keeps its mode, and a handler what it is to write.         *)
LEMMA WorkWrites ==
    ASSUME Shape, NEW p \in Proc, Staged(p), Writes(p), Work(p)
    PROVE  Writes(p)'
  <1>0. Stage(p)' \notin {"register", "trust"}
    BY WorkStages
  <1>1. Stage(p)' = "edit" => pr'[p].group \in Group /\ pr'[p].config \in Config
    BY WorkKeeps DEF KeepsAll, KeepsTarget, Writes
  <1>2. Stage(p)' \in JobStages /\ pr'[p].op = "up" => pr'[p].mode \in Mode
    <2>1. CASE Ends(p)
      BY <2>1, EndTyped DEF Writes
    <2>2. CASE KeepsClaim(p) /\ Stage(p)' \in JobStages /\ pr'[p].op = "up"
      <3>1. pr[p].op = "up" /\ IsJob(p) /\ Stage(p) # "idle"
        BY <2>2, WorkKeeps DEF KeepsClaim, IsJob
      <3>2. Stage(p) \in JobStages
        BY <3>1 DEF Staged
      <3> QED
        BY <2>2, <3>1, <3>2 DEF KeepsClaim, Writes
    <2> QED
      BY <2>1, <2>2, WorkKeeps
  <1> QED
    BY <1>0, <1>1, <1>2 DEF Writes
--------------------------------------------------------------------------------
(* What the handlers make of a record is a record.                         *)
LEMMA RecordForms ==
    ASSUME NEW r \in Stack
    PROVE  /\ \A g \in Group, c \in Config : Edited(r, g, c) \in Stack
           /\ \A m \in Mode, f \in Trusted : Approve(r, m, f) \in Stack
  <1>1. ASSUME NEW g \in Group, NEW c \in Config PROVE Edited(r, g, c) \in Stack
    BY DEF Edited, Stack
  <1>2. ASSUME NEW m \in Mode, NEW f \in Trusted PROVE Approve(r, m, f) \in Stack
    BY DEF Approve, Stack
  <1> QED
    BY <1>1, <1>2

(* One record changes, and has a group and a configuration if it is named. *)
LEMMA RecordChange ==
    ASSUME RecordsTyped, NEW a \in App, NEW r \in Stack, rec' = [rec EXCEPT ![a] = r],
           place' \in [App -> Places], \A b \in App \ {a} : Named(b)' => Named(b),
           Named(a)' => r.group \in Group /\ r.config \in Config
    PROVE  RecordsTyped'
  <1>1. rec' \in [App -> Stack]
    BY DEF RecordsTyped
  <1>2. rec'[a] = r /\ \A b \in App \ {a} : rec'[b] = rec[b]
    BY DEF RecordsTyped
  <1>3. ASSUME NEW b \in App, Named(b)' PROVE rec'[b].group \in Group /\ rec'[b].config \in Config
    <2>1. CASE b = a
      BY <1>2, <1>3, <2>1
    <2>2. CASE b # a
      BY <1>2, <1>3, <2>2 DEF RecordsTyped
    <2> QED
      BY <2>1, <2>2
  <1> QED
    BY <1>1, <1>3 DEF RecordsTyped

(* The records stay, and no application enters the catalog.                *)
LEMMA RecordsKept ==
    ASSUME RecordsTyped, rec' = rec, place' \in [App -> Places],
           \A b \in App : Named(b)' => Named(b)
    PROVE  RecordsTyped'
  BY DEF RecordsTyped

(* Every commit leaves records of their types.                             *)
LEMMA CommitRecords ==
    ASSUME RecordsTyped, Registering, NEW p \in Proc, Reviewed(p), Writes(p), Commit(p)
    PROVE  RecordsTyped'
  <1>1. CASE RegisterCommit(p)
    <2>1. pr[p].at = "register" /\ pr[p].app \in App
      BY <1>1 DEF RegisterCommit, Registering
    <2>2. pr[p].group \in Group /\ pr[p].config \in Config
      BY <2>1 DEF Writes, Stage
    <2>3. NewStack(pr[p].group, pr[p].config) \in Stack
      BY <2>2 DEF NewStack, Stack
    <2>4. /\ place' = [place EXCEPT ![pr[p].app] = "active"]
          /\ rec' = [rec EXCEPT ![pr[p].app] = NewStack(pr[p].group, pr[p].config)]
      BY <1>1 DEF RegisterCommit
    <2>5. /\ place' \in [App -> Places]
          /\ \A b \in App \ {pr[p].app} : Named(b)' => Named(b)
      BY <2>1, <2>4 DEF RecordsTyped, Places, Named
    <2> QED
      BY <2>1, <2>2, <2>3, <2>4, <2>5, RecordChange DEF NewStack
  <1>2. CASE EditCommit(p)
    <2>1. pr[p].at = "edit" /\ pr[p].app \in App
      BY <1>2 DEF EditCommit, EditIdle, Lookup
    <2>2. pr[p].group \in Group /\ pr[p].config \in Config
      BY <2>1 DEF Writes, Stage
    <2>3. /\ rec[pr[p].app] \in Stack
          /\ Edited(rec[pr[p].app], pr[p].group, pr[p].config) \in Stack
      BY <2>1, <2>2, RecordForms DEF RecordsTyped
    <2>4. /\ place' = place
          /\ rec' = [rec EXCEPT ![pr[p].app] = Edited(rec[pr[p].app], pr[p].group, pr[p].config)]
      BY <1>2, <2>1 DEF EditCommit, RecordsTyped
    <2>5. /\ Edited(rec[pr[p].app], pr[p].group, pr[p].config).group = pr[p].group
          /\ Edited(rec[pr[p].app], pr[p].group, pr[p].config).config = pr[p].config
      BY <2>3 DEF Edited, Stack
    <2>6. place' \in [App -> Places] /\ \A b \in App : Named(b)' => Named(b)
      BY <2>4 DEF RecordsTyped, Named
    <2> QED
      BY <2>1, <2>2, <2>3, <2>4, <2>5, <2>6, RecordChange
  <1>3. CASE RemoveCommit(p)
    <2>1. rec' = rec /\ place' = [a \in App |-> IF a \in Lookup(pr[p].id) THEN "removed" ELSE place[a]]
      BY <1>3 DEF RemoveCommit
    <2>2. place' \in [App -> Places] /\ \A b \in App : Named(b)' => Named(b)
      BY <2>1 DEF RecordsTyped, Places, Named
    <2> QED
      BY <2>1, <2>2, RecordsKept
  <1>4. CASE ArchiveCommit(p) \/ RestoreCommit(p)
    <2>1. /\ rec' = rec /\ place[pr[p].app] \in {"active", "archived"}
          /\ \E x \in {"active", "archived"} : place' = [place EXCEPT ![pr[p].app] = x]
      BY <1>4 DEF ArchiveCommit, RestoreCommit
    <2>2. place' \in [App -> Places] /\ \A b \in App : Named(b)' => Named(b)
      BY <2>1 DEF RecordsTyped, Places, Named
    <2> QED
      BY <2>1, <2>2, RecordsKept
  <1>5. CASE TrustCommit(p)
    <2>1. PICK a \in Lookup(pr[p].id) :
             rec' = [rec EXCEPT ![a] = Approve(rec[a], pr[p].mode, pr[p].seen)]
      BY <1>5 DEF TrustCommit, RecordsTyped, Lookup
    <2>2. a \in App /\ Named(a)
      BY <2>1 DEF Lookup, Named
    <2>3. pr[p].mode \in Mode /\ pr[p].seen \in Trusted
      BY <1>5 DEF TrustCommit, Writes, Stage
    <2>4. rec[a] \in Stack /\ rec[a].group \in Group /\ rec[a].config \in Config
      BY <2>2 DEF RecordsTyped
    <2>5. Approve(rec[a], pr[p].mode, pr[p].seen) \in Stack
      BY <2>3, <2>4, RecordForms
    <2>6. /\ Approve(rec[a], pr[p].mode, pr[p].seen).group \in Group
          /\ Approve(rec[a], pr[p].mode, pr[p].seen).config \in Config
      BY <2>4 DEF Approve, Stack
    <2>7. place' \in [App -> Places] /\ \A b \in App : Named(b)' => Named(b)
      BY <1>5 DEF TrustCommit, RecordsTyped, Named
    <2> QED
      BY <2>1, <2>2, <2>5, <2>6, <2>7, RecordChange
  <1>6. CASE \/ EditStopWatch(p) \/ ArchiveObserve(p) \/ DeleteGroupCommit(p)
             \/ RemoveRootCommit(p) \/ Abandon(p)
    <2>1. UNCHANGED <<place, rec>>
      BY <1>6 DEF EditStopWatch, StopWatch, ArchiveObserve, DeleteGroupCommit, RemoveRootCommit,
         Abandon, catalog
    <2> QED
      BY <2>1, RecordsKept DEF RecordsTyped, Named
  <1> QED
    BY <1>1, <1>2, <1>3, <1>4, <1>5, <1>6 DEF Commit

(* So does every step of an operation.                                     *)
LEMMA WorkRecords ==
    ASSUME Shape, RecordsTyped, NEW p \in Proc, Staged(p), Target(p), JobFacts(p), Plain(p),
           Writes(p), Work(p)
    PROVE  RecordsTyped'
  <1>0. ASSUME NEW a \in App, NEW r \in Stack, rec' = [rec EXCEPT ![a] = r], place' = place,
               r.group = rec[a].group, r.config = rec[a].config
        PROVE  RecordsTyped'
    <2>1. place' \in [App -> Places] /\ \A b \in App : Named(b)' => Named(b)
      BY <1>0 DEF RecordsTyped, Named
    <2>2. Named(a)' => r.group \in Group /\ r.config \in Config
      BY <1>0, <2>1 DEF RecordsTyped
    <2> QED
      BY <1>0, <2>1, <2>2, RecordChange
  <1>1. ASSUME NEW a \in App, NEW t \in SUBSET (Mode \X Config), place' = place,
               rec' = [rec EXCEPT ![a].applied = t]
        PROVE  RecordsTyped'
    <2>1. rec[a] \in Stack
      BY DEF RecordsTyped
    <2>2. /\ [rec[a] EXCEPT !.applied = t] \in Stack
          /\ [rec[a] EXCEPT !.applied = t].group = rec[a].group
          /\ [rec[a] EXCEPT !.applied = t].config = rec[a].config
      BY <2>1 DEF Stack
    <2>3. rec' = [rec EXCEPT ![a] = [rec[a] EXCEPT !.applied = t]]
      BY <1>1 DEF RecordsTyped
    <2> QED
      BY <1>0, <1>1, <2>2, <2>3
  <1>2. ASSUME NEW a \in App, NEW m \in Mode \cup {None}, place' = place,
               rec' = [rec EXCEPT ![a].mode = m]
        PROVE  RecordsTyped'
    <2>1. rec[a] \in Stack
      BY DEF RecordsTyped
    <2>2. /\ [rec[a] EXCEPT !.mode = m] \in Stack
          /\ [rec[a] EXCEPT !.mode = m].group = rec[a].group
          /\ [rec[a] EXCEPT !.mode = m].config = rec[a].config
      BY <2>1 DEF Stack
    <2>3. rec' = [rec EXCEPT ![a] = [rec[a] EXCEPT !.mode = m]]
      BY <1>2 DEF RecordsTyped
    <2> QED
      BY <1>0, <1>2, <2>2, <2>3
  <1>3. ASSUME NEW a \in App, place' = place, rec' = [rec EXCEPT ![a].trust = {}]
        PROVE  RecordsTyped'
    <2>1. rec[a] \in Stack
      BY DEF RecordsTyped
    <2>2. /\ [rec[a] EXCEPT !.trust = {}] \in Stack
          /\ [rec[a] EXCEPT !.trust = {}].group = rec[a].group
          /\ [rec[a] EXCEPT !.trust = {}].config = rec[a].config
      BY <2>1 DEF Stack
    <2>3. rec' = [rec EXCEPT ![a] = [rec[a] EXCEPT !.trust = {}]]
      BY <1>3 DEF RecordsTyped
    <2> QED
      BY <1>0, <1>3, <2>2, <2>3
  <1>4. CASE UpClear(p)
    <2>1. {} \in SUBSET (Mode \X Config)
      OBVIOUS
    <2> QED
      BY <1>1, <1>4, <2>1 DEF UpClear, Lookup
  <1>5. CASE UpMode(p)
    BY <1>2, <1>5 DEF UpMode, Lookup, Plain
  <1>6. CASE UpApply(p)
    <2>1. pr[p].at = "apply" /\ OnTarget(p) /\ pr[p].config = rec[pr[p].app].config
      BY <1>6, UpsApply DEF JobFacts, Target, Stage, UpStages
    <2>2. pr[p].config \in Config
      BY <2>1 DEF OnTarget, RecordsTyped, Named
    <2>3. pr[p].mode \in Mode
      BY <2>1 DEF Staged, Writes, Stage, JobStages, UpStages
    <2>4. {<<pr[p].mode, pr[p].config>>} \in SUBSET (Mode \X Config)
      BY <2>2, <2>3
    <2> QED
      BY <1>1, <1>6, <2>4 DEF UpApply, Lookup
  <1>7. CASE BindCommit(p)
    BY <1>3, <1>7 DEF BindCommit, Lookup
  <1>8. CASE UnbindCommit(p)
    <2>1. pr[p].app \in App
      BY <1>8 DEF UnbindCommit, Target, Stage
    <2> QED
      BY <1>3, <1>8, <2>1 DEF UnbindCommit
  <1>9. CASE ~(UpClear(p) \/ UpMode(p) \/ UpApply(p) \/ BindCommit(p) \/ UnbindCommit(p))
    <2>1. UNCHANGED <<place, rec>>
      BY <1>9 DEF Work, Submit, JobTake, JobFail, JobEnd, ExistingRun, UpApproved,
         UpReapprove, UpRun, HandlerStopsWatch, StopWatch,
         StopReturns, WatchRead, WatchBegin, ConfigureStopsWatch, Configure, ConfigureEnds,
         SyncRead, SyncWrite, SyncFail, OnlyReads, catalog
    <2> QED
      BY <2>1, RecordsKept DEF RecordsTyped, Named
  <1> QED
    BY <1>4, <1>5, <1>6, <1>7, <1>8, <1>9
--------------------------------------------------------------------------------
(* A request adds a group or a root that it was asked for.                 *)
LEMMA RequestAdds ==
    ASSUME NEW p \in Proc, Request(p)
    PROVE  groups' \subseteq groups \cup Group /\ roots' \subseteq roots \cup Root /\ crashes' = crashes
  <1> DEFINE Fits ==
        groups' \subseteq groups \cup Group /\ roots' \subseteq roots \cup Root /\ crashes' = crashes
  <1> USE DEF catalog, OnlyReads, ThenDone
  <1>1. ASSUME NEW a, NEW g, NEW c, RegisterRead(p, a, g, c) \/ EditRead(p, a, g, c)
        PROVE  Fits
    BY <1>1 DEF RegisterRead, EditRead
  <1>2. ASSUME NEW a, RemoveObserve(p, a) \/ ArchiveReview(p, a) \/ RestoreRead(p, a)
        PROVE  Fits
    BY <1>2 DEF RemoveObserve, ArchiveReview, RestoreRead
  <1>3. ASSUME NEW k, NEW a, NEW m,
               TrustRead(p, a, m) \/ SelectAction(p, k, m) \/ SelectBinding(p, k, a, m)
        PROVE  Fits
    BY <1>3 DEF TrustRead, SelectAction, Select, SelectBinding
  <1>4. ASSUME NEW id, NEW e, StartWatch(p, id) \/ ClientStopsWatch(p, e) \/ ConfigureSubmit(p)
        PROVE  Fits
    BY <1>4 DEF StartWatch, ClientStopsWatch, ConfigureSubmit
  <1>5. ASSUME NEW g \in Group, CreateGroup(p, g) \/ DeleteGroupRead(p, g)
        PROVE  Fits
    BY <1>5 DEF CreateGroup, DeleteGroupRead
  <1>6. ASSUME NEW r \in Root, AddRoot(p, r) \/ RemoveRootRead(p, r)
        PROVE  Fits
    BY <1>6 DEF AddRoot, RemoveRootRead
  <1> HIDE DEF catalog, OnlyReads, ThenDone
  <1> QED
    BY <1>1, <1>2, <1>3, <1>4, <1>5, <1>6 DEF Request

(* A commit adds the group of the application it registers or edits.       *)
LEMMA CommitAdds ==
    ASSUME NEW p \in Proc, Writes(p), Commit(p)
    PROVE  groups' \subseteq groups \cup Group /\ roots' \subseteq roots /\ crashes' = crashes
  <1>1. CASE RegisterCommit(p)
    <2>1. pr[p].group \in Group
      BY <1>1 DEF RegisterCommit, Writes, Stage
    <2> QED
      BY <1>1, <2>1 DEF RegisterCommit, ThenDone
  <1>2. CASE EditCommit(p)
    <2>1. pr[p].group \in Group
      BY <1>2 DEF EditCommit, EditIdle, Writes, Stage
    <2> QED
      BY <1>2, <2>1 DEF EditCommit, ThenSync
  <1>3. CASE ~RegisterCommit(p) /\ ~EditCommit(p)
    BY <1>3 DEF Commit, EditStopWatch, StopWatch, RemoveCommit, ArchiveObserve, ArchiveCommit,
       RestoreCommit, DeleteGroupCommit, RemoveRootCommit, TrustCommit, Abandon, ThenSync, ThenDone,
       catalog
  <1> QED
    BY <1>1, <1>2, <1>3

(* An operation adds neither.                                              *)
LEMMA WorkAdds ==
    ASSUME Shape, NEW p \in Proc, Work(p)
    PROVE  UNCHANGED <<groups, roots, crashes>>
  <1>1. UNCHANGED <<groups, roots>>
    BY WorkCatalog
  <1>2. crashes' = crashes
    BY DEF Work, Submit, JobTake, JobFail, JobEnd, ExistingRun, UpApproved, UpClear, UpMode,
       UpReapprove, UpRun, UpApply, BindCommit, UnbindCommit, HandlerStopsWatch, StopWatch,
       StopReturns, WatchRead, WatchBegin, ConfigureStopsWatch, Configure, ConfigureEnds, SyncRead,
       SyncWrite, SyncFail, OnlyReads
  <1> QED
    BY <1>1, <1>2

(* The routes of the catalog are routes of its applications.               *)
LEMMA WantedTyped ==
    ASSUME RecordsTyped
    PROVE  Wanted \subseteq Routes
  <1>1. ASSUME NEW a \in App PROVE Links(a, rec[a].applied) \subseteq Routes
    <2>1. rec[a].applied \subseteq Mode \X Config
      BY DEF RecordsTyped, Stack
    <2> QED
      BY <2>1 DEF Links, Routes
  <1>2. ASSUME NEW x \in Wanted PROVE x \in Routes
    <2>1. PICK a \in App : x \in Links(a, rec[a].applied)
      BY <1>2 DEF Wanted
    <2> QED
      BY <1>1, <2>1
  <1> QED
    BY <1>2

(* SyncRoutes writes what it read.                                         *)
LEMMA TurnRoutes ==
    ASSUME RecordsTyped, OthersTyped, NEW p \in Proc, Turn(p)
    PROVE  /\ routing' \subseteq Proc /\ torn' \in BOOLEAN
           /\ pending' \subseteq Routes /\ file' \subseteq Routes
  <1>1. CASE SyncRead(p)
    BY <1>1, WantedTyped DEF SyncRead, OthersTyped
  <1>2. CASE SyncWrite(p) \/ SyncFail(p)
    BY <1>2 DEF SyncWrite, SyncFail, Return, OthersTyped
  <1>3. CASE ~SyncRead(p) /\ ~SyncWrite(p) /\ ~SyncFail(p)
    BY <1>3, TurnFile DEF OthersTyped
  <1> QED
    BY <1>1, <1>2, <1>3

(* What is watched is a configuration in the catalog.                      *)
LEMMA TurnEntries ==
    ASSUME CatalogInv, RecordsTyped, OthersTyped, NEW p \in Proc, Turn(p)
    PROVE  \A e \in watches' \cup followed' : e.app \in App /\ e.config \in Config
  <1>1. CASE WatchBegin(p)
    <2>0. PICK new : new = Entry(p)
      OBVIOUS
    <2>1. /\ OnTarget(p) /\ rec[pr[p].app].config = new.config /\ new.app = pr[p].app
          /\ watches' = watches \cup {new} /\ followed' = followed \cup {new}
      BY <1>1, <2>0, WatchBegins, EntryFields DEF CatalogInv
    <2>2. new.app \in App /\ new.config \in Config
      BY <2>1 DEF OnTarget, RecordsTyped, Named
    <2> QED
      BY <2>1, <2>2 DEF OthersTyped
  <1>2. CASE StopReturns(p)
    BY <1>2 DEF StopReturns, Unlisted, OthersTyped
  <1>3. CASE ~WatchBegin(p) /\ ~StopReturns(p)
    BY <1>3, TurnWatches DEF OthersTyped
  <1> QED
    BY <1>1, <1>2, <1>3

(* Every turn of a process keeps the types.                                *)
LEMMA TurnTypes ==
    ASSUME CatalogInv, TypeInv, NEW p \in Proc, Turn(p)
    PROVE  TypeInv'
  <1>0. /\ Shape /\ Registering /\ Staged(p) /\ Reviewed(p) /\ Target(p) /\ JobFacts(p)
        /\ RecordsTyped /\ OthersTyped /\ Plain(p) /\ Writes(p)
    BY DEF CatalogInv, ClaimInv, RouteInv, TargetInv, JobInv, TypeInv
  <1>1. RecordsTyped' /\ Plain(p)' /\ Writes(p)'
    <2>1. CASE Request(p)
      <3>1. RecordsTyped'
        BY <1>0, <2>1, RequestCatalog, RecordsKept DEF RecordsTyped, Named
      <3> QED
        BY <1>0, <2>1, <3>1, RequestPlain, RequestWrites
    <2>2. CASE Commit(p)
      BY <1>0, <2>2, CommitRecords, CommitTyped
    <2>3. CASE Work(p)
      BY <1>0, <2>3, WorkRecords, WorkPlain, WorkWrites
    <2> QED
      BY <2>1, <2>2, <2>3 DEF Turn
  <1>2. ASSUME NEW q \in Proc \ {p} PROVE Plain(q)' /\ Writes(q)'
    <2>1. pr'[q] = pr[q] /\ Plain(q) /\ Writes(q)
      BY <1>0, TurnShape DEF TypeInv
    <2> QED
      BY <2>1 DEF Plain, Writes, Stage
  <1>3. groups' \subseteq Group /\ roots' \subseteq Root /\ crashes' = crashes
    BY <1>0, RequestAdds, CommitAdds, WorkAdds DEF Turn, OthersTyped
  <1>4. mutation' \subseteq Proc
    BY <1>0, TurnClaims DEF CatalogInv, OthersTyped
  <1>5. running' \subseteq App /\ outlived' = outlived /\ unseen' \subseteq App
    <2>1. CASE Request(p) \/ Commit(p)
      BY <1>0, <2>1, RequestCatalog, CommitDocker DEF OthersTyped
    <2>2. CASE Work(p)
      BY <1>0, <2>2, WorkRuns DEF CatalogInv, OnTarget, OthersTyped
    <2> QED
      BY <2>1, <2>2 DEF Turn
  <1>6. OthersTyped'
    <2>1. /\ routing' \subseteq Proc /\ torn' \in BOOLEAN
          /\ pending' \subseteq Routes /\ file' \subseteq Routes
      BY <1>0, TurnRoutes
    <2>2. \A e \in watches' \cup followed' : e.app \in App /\ e.config \in Config
      BY <1>0, TurnEntries
    <2> QED
      BY <1>0, <1>3, <1>4, <1>5, <2>1, <2>2 DEF OthersTyped, Routes
  <1> QED
    BY <1>1, <1>2, <1>6 DEF TypeInv

(* So does the death of the agent.                                         *)
LEMMA CrashTypes ==
    ASSUME CatalogInv, TypeInv, Crash
    PROVE  TypeInv'
  <1>1. \A p \in Proc : Ends(p)
    BY CrashClaims DEF CatalogInv, Ends
  <1>2. \A p \in Proc : Plain(p)' /\ Writes(p)'
    BY <1>1, EndTyped
  <1>3. UNCHANGED <<place, rec, groups, roots, file, running, unseen>>
    BY DEF Crash, catalog
  <1>4. RecordsTyped'
    BY <1>3 DEF TypeInv, RecordsTyped, Named
  <1>5. ASSUME NEW q \in Proc, Starting(q) PROVE pr[q].app \in App
    <2>1. Stage(q) \in {"run", "up"}
      BY <1>5 DEF Starting, Stage
    <2> QED
      BY <2>1 DEF CatalogInv, TargetInv, Target, OnTarget, UpStages
  <1>6. outlived' \subseteq App
    <2>1. outlived' = outlived \cup {pr[q].app : q \in {r \in Proc : Starting(r)}}
                               \cup {e.app : e \in followed}
      BY DEF Crash
    <2> QED
      BY <1>5, <2>1 DEF TypeInv, OthersTyped
  <1>7. crashes' \in 0 .. MaxCrashes
    BY CrashAssumption DEF Crash, TypeInv, OthersTyped
  <1>8. OthersTyped'
    BY <1>3, <1>6, <1>7 DEF Crash, TypeInv, OthersTyped, Routes
  <1> QED
    BY <1>2, <1>4, <1>8 DEF TypeInv

(* And what happens elsewhere.                                             *)
LEMMA ElsewhereTypes ==
    ASSUME TypeInv, Elsewhere
    PROVE  TypeInv'
  <1>1. UNCHANGED <<catalog, pr, mutation, routes>>
    BY ElsewhereKeeps
  <1>2. RecordsTyped' /\ \A p \in Proc : Plain(p)' /\ Writes(p)'
    BY <1>1 DEF TypeInv, RecordsTyped, Named, Plain, Writes, Stage, catalog
  <1>3. /\ running' \subseteq App /\ unseen' \subseteq App
        /\ UNCHANGED <<outlived, watches, crashes>> /\ followed' \subseteq followed
    BY DEF Elsewhere, Exit, LateStart, WatchRebuilds, WatchEnds, Exhausted, vars, TypeInv,
       OthersTyped
  <1>4. OthersTyped'
    BY <1>1, <1>3 DEF TypeInv, OthersTyped, catalog, routes, Routes
  <1> QED
    BY <1>2, <1>4 DEF TypeInv

(* The types hold at first.                                                *)
LEMMA InitTypes ==
    ASSUME Init
    PROVE  TypeInv
  <1>1. RecordsTyped
    BY DEF Init, NewStack, RecordsTyped, Places, Named, Stack
  <1>2. OthersTyped
    <2>1. 0 \in 0 .. MaxCrashes
      BY CrashAssumption
    <2> QED
      BY <2>1 DEF Init, OthersTyped
  <1>3. \A p \in Proc : Plain(p) /\ Writes(p)
    BY DEF Init, Blank, Plain, Writes, Stage, JobStages, UpStages
  <1> QED
    BY <1>1, <1>2, <1>3 DEF TypeInv

(* A set without two members.                                              *)
LEMMA OneAtMost ==
    ASSUME NEW S, \A x, y \in S : x = y
    PROVE  Cardinality(S) <= 1
  <1>1. CASE S = {}
    BY <1>1, FS_EmptySet
  <1>2. CASE S # {}
    <2>1. PICK x \in S : S = {x}
      BY <1>2
    <2>2. Cardinality({x}) = 1
      BY FS_Singleton
    <2> QED
      BY <2>1, <2>2
  <1> QED
    BY <1>1, <1>2

(* The types of the whole state, with at most one holder of each lock.     *)
LEMMA TypesHold ==
    ASSUME CatalogInv, TypeInv
    PROVE  TypeOK
  <1>1. ASSUME NEW p \in Proc PROVE pr[p].at \in Step
    <2>1. Stage(p) \in HandlerStages \cup JobStages \cup {"idle"}
      BY DEF CatalogInv, ClaimInv, Staged
    <2>2. CASE pr[p].at \in {"stopping", "sync", "write"}
      BY <2>2 DEF Step
    <2>3. CASE pr[p].at = Stage(p) /\ pr[p].at # "done"
      BY <2>1, <2>3 DEF HandlerStages, JobStages, UpStages, Step
    <2> QED
      BY <2>2, <2>3 DEF TypeInv, Plain, Stage
  <1>2. Cardinality(mutation) <= 1
    BY OneAtMost DEF CatalogInv, ClaimInv, Locked, TypeInv, OthersTyped
  <1>3. Cardinality(routing) <= 1
    BY OneAtMost DEF CatalogInv, RouteInv, Writing, TypeInv, OthersTyped
  <1>4. /\ DOMAIN pr = Proc
        /\ \A p \in Proc : DOMAIN pr[p] = DOMAIN Blank /\ pr[p].todo \subseteq pr[p].ids
    BY BlankFields DEF CatalogInv, ClaimInv, Shape, TargetInv, TodoInv
  <1>5. bindings \subseteq App \X Mode /\ kept \subseteq App \X Mode
    BY DEF CatalogInv, NameInv, BindingsTyped
  <1> QED
    BY <1>1, <1>2, <1>3, <1>4, <1>5
       DEF TypeInv, RecordsTyped, OthersTyped, Plain, Places, Routes, TypeOK

(* The state has its types in every behaviour, however often the agent     *)
(* dies: no step writes into the catalog, the routes or a claim what is    *)
(* not there.                                                              *)
THEOREM CatalogTypes == Spec => []TypeOK
  <1>1. Init => TypeInv
    BY InitTypes
  <1>2. CatalogInv /\ TypeInv /\ [Next]_vars => TypeInv'
    BY TurnTypes, CrashTypes, ElsewhereTypes, Steps
  <1>3. CatalogInv /\ TypeInv => TypeOK
    BY TypesHold
  <1> QED
    BY <1>1, <1>2, <1>3, InvHolds, PTL DEF Spec
--------------------------------------------------------------------------------
(* What an operation claims are identifiers of the catalog.                *)
Claimed(p) == pr[p].ids \subseteq Claimable

(* A request chooses identifiers of applications of the catalog.           *)
LEMMA RequestClaimed ==
    ASSUME Shape, RecordsTyped, NEW p \in Proc, Request(p)
    PROVE  Claimed(p)'
  <1>0. \A a \in App : place[a] = "active" => Id(a) \in Claimable
    BY DEF RecordsTyped, Named, Id, Claimable
  <1> USE DEF Shape, Begin, Blank, Claimed
  <1>1. ASSUME NEW ids \in SUBSET Claimable, NEW k, NEW m, Select(p, k, ids, m)
        PROVE  Claimed(p)'
    BY <1>1 DEF Select
  <1>2. ASSUME NEW k, NEW m, SelectAction(p, k, m)
        PROVE  Claimed(p)'
    BY <1>0, <1>1, <1>2 DEF SelectAction
  <1>3. ASSUME NEW k, NEW a \in App, NEW m, SelectBinding(p, k, a, m)
        PROVE  Claimed(p)'
    BY <1>0, <1>3 DEF SelectBinding
  <1>4. ASSUME NEW a \in App, place[a] = "active", StartWatch(p, Id(a))
        PROVE  Claimed(p)'
    BY <1>0, <1>4 DEF StartWatch
  <1>5. ASSUME NEW a \in App, NEW g, NEW c, RegisterRead(p, a, g, c)
        PROVE  Claimed(p)'
    BY <1>5 DEF RegisterRead
  <1>6. ASSUME NEW a \in App, NEW g, NEW c, EditRead(p, a, g, c)
        PROVE  Claimed(p)'
    BY <1>6 DEF EditRead
  <1>7. ASSUME NEW a, RemoveObserve(p, a) \/ RestoreRead(p, a)
        PROVE  Claimed(p)'
    BY <1>7 DEF RemoveObserve, RestoreRead
  <1>8. ASSUME NEW a, ArchiveReview(p, a)
        PROVE  Claimed(p)'
    BY <1>8 DEF ArchiveReview
  <1>9. ASSUME NEW a, NEW g, NEW r, NEW m,
               DeleteGroupRead(p, g) \/ RemoveRootRead(p, r) \/ TrustRead(p, a, m)
        PROVE  Claimed(p)'
    BY <1>9 DEF DeleteGroupRead, RemoveRootRead, TrustRead
  <1>10. ASSUME NEW e, ClientStopsWatch(p, e) \/ ConfigureSubmit(p)
         PROVE  Claimed(p)'
    BY <1>10 DEF ClientStopsWatch, ConfigureSubmit
  <1>11. ASSUME NEW g, NEW r, CreateGroup(p, g) \/ AddRoot(p, r)
         PROVE  Claimed(p)'
    BY <1>11 DEF CreateGroup, AddRoot, ThenDone, Become
  <1> HIDE DEF Shape, Begin, Blank, Claimed
  <1> QED
    BY <1>2, <1>3, <1>4, <1>5, <1>6, <1>7, <1>8, <1>9, <1>10, <1>11 DEF Request

(* Nothing later adds to them.                                             *)
LEMMA CommitClaimed ==
    ASSUME Shape, NEW p \in Proc, Commit(p)
    PROVE  pr'[p].ids \in {pr[p].ids, {}}
  <1>1. CASE RegisterCommit(p) \/ DeleteGroupCommit(p) \/ RemoveRootCommit(p)
             \/ TrustCommit(p) \/ Abandon(p)
    BY <1>1, CommitsEnd DEF Ends, Blank
  <1>2. CASE EditStopWatch(p) \/ ArchiveObserve(p)
    BY <1>2, EditStops, ArchiveObserves DEF KeepsAll, KeepsTarget, KeepsClaim
  <1>3. ASSUME ThenSync(p) PROVE pr'[p].ids = {}
    BY <1>3 DEF Shape, ThenSync, Become, Blank
  <1>4. CASE EditCommit(p) \/ RemoveCommit(p) \/ ArchiveCommit(p) \/ RestoreCommit(p)
    BY <1>3, <1>4 DEF EditCommit, RemoveCommit, ArchiveCommit, RestoreCommit
  <1> QED
    BY <1>1, <1>2, <1>4 DEF Commit

(* Nor does the work.                                                      *)
LEMMA WorkClaimed ==
    ASSUME Shape, NEW p \in Proc, Work(p)
    PROVE  pr'[p].ids \in {pr[p].ids, {}}
  <1>1. ASSUME Ends(p) \/ KeepsClaim(p) \/ OnToNext(p) \/ KeepsTarget(p) \/ KeepsAll(p)
        PROVE  pr'[p].ids \in {pr[p].ids, {}}
    BY <1>1 DEF Ends, Blank, KeepsClaim, OnToNext, KeepsTarget, KeepsAll
  <1>2. CASE Submit(p) \/ JobTake(p) \/ JobFail(p) \/ JobEnd(p) \/ ExistingRun(p)
    BY <1>1, <1>2, Submits, JobTakes, JobsFail
  <1>3. CASE UpApproved(p) \/ UpReapprove(p) \/ UpRun(p) \/ UpMode(p)
    BY <1>1, <1>3, UpsApprove, UpsReapprove, UpsRun, UpsMode
  <1>4. CASE UpClear(p) \/ UpApply(p) \/ BindCommit(p) \/ UnbindCommit(p) \/ WatchBegin(p)
    BY <1>1, <1>4, UpsClear, UpsApply, JobsFail
  <1>5. CASE HandlerStopsWatch(p) \/ StopReturns(p) \/ ConfigureStopsWatch(p)
    BY <1>1, <1>5, HandlersStop, StopsReturn
  <1>6. CASE WatchRead(p) \/ Configure(p) \/ ConfigureEnds(p)
    BY <1>1, <1>6, WatchesRead, Configures
  <1>7. CASE SyncRead(p) \/ SyncWrite(p) \/ SyncFail(p)
    BY <1>1, <1>7, SyncsRead, SyncsReturn
  <1> QED
    BY <1>2, <1>3, <1>4, <1>5, <1>6, <1>7 DEF Work

(* So no step claims anything else.                                        *)
LEMMA ClaimedStep ==
    ASSUME CatalogInv, TypeInv, \A p \in Proc : Claimed(p), [Next]_vars
    PROVE  \A p \in Proc : Claimed(p)'
  <1>0. Shape /\ RecordsTyped
    BY DEF CatalogInv, ClaimInv, TypeInv
  <1>1. ASSUME NEW p \in Proc, Turn(p), NEW q \in Proc PROVE Claimed(q)'
    <2>1. CASE q # p
      BY <1>0, <1>1, <2>1, TurnShape DEF Claimed
    <2>2. CASE q = p
      <3>1. CASE Request(p)
        BY <1>0, <2>2, <3>1, RequestClaimed
      <3>2. CASE Commit(p) \/ Work(p)
        BY <1>0, <2>2, <3>2, CommitClaimed, WorkClaimed DEF Claimed
      <3> QED
        BY <1>1, <3>1, <3>2 DEF Turn
    <2> QED
      BY <2>1, <2>2
  <1>2. ASSUME Crash, NEW q \in Proc PROVE Claimed(q)'
    BY <1>2, CrashClaims DEF CatalogInv, Blank, Claimed
  <1>3. ASSUME Elsewhere, NEW q \in Proc PROVE Claimed(q)'
    BY <1>3, ElsewhereKeeps DEF Claimed
  <1> QED
    BY <1>1, <1>2, <1>3, Steps

(* Every step acquires one claim, releases one, loses them all with the    *)
(* agent, or leaves them as they are.                                      *)
LEMMA ClaimsRefine ==
    ASSUME CatalogInv, TypeInv, \A p \in Proc : Claimed(p), [Next]_vars
    PROVE  [Exclusive!Next]_Claims
  <1> DEFINE Taken(p) == [targets |-> pr[p].ids, global |-> IsGlobal(pr[p].op),
                          build |-> pr[p].op = "up"]
  <1>0. /\ \A p \in Proc : Claims[p] = IF Holds(p) THEN Taken(p) ELSE NoClaim
        /\ \A p \in Proc : Claims'[p] = IF Holds(p)' THEN Taken(p)' ELSE NoClaim
        /\ Claims = [p \in Proc |-> Claims[p]] /\ Claims' = [p \in Proc |-> Claims'[p]]
    BY DEF Claims, Holds, IsJob
  <1>1. ASSUME NEW p \in Proc, Turn(p) PROVE [Exclusive!Next]_Claims
    <2>1. \A q \in Proc \ {p} : pr'[q] = pr[q]
      BY <1>1, TurnShape DEF CatalogInv, ClaimInv
    <2>2. \A q \in Proc \ {p} : (Holds(q)' <=> Holds(q)) /\ Taken(q)' = Taken(q)
      BY <2>1 DEF Holds, IsJob
    <2>3. ASSUME NEW q \in Proc \ {p} PROVE Claims'[q] = Claims[q]
      <3>1. (Holds(q)' <=> Holds(q)) /\ Taken(q)' = Taken(q)
        BY <2>2
      <3> HIDE DEF Taken
      <3> QED
        BY <1>0, <3>1
    <2>4. Claims' = [Claims EXCEPT ![p] = Claims'[p]]
      BY <1>0, <2>3
    <2>5. CASE Claims'[p] = Claims[p]
      BY <1>0, <2>3, <2>5
    <2>6. CASE TakesClaim(p) /\ ~Holds(p) /\ Claims'[p] # NoClaim
      <3>1. Claims[p] = NoClaim /\ Claims'[p] = Taken(p)'
        BY <1>0, <2>6
      <3>2. Claims'[p] \in MadeClaims
        <4>1. pr'[p].ids \in SUBSET Claimable
          BY ClaimedStep DEF Claimed
        <4>2. IsGlobal(pr'[p].op) \in BOOLEAN /\ (pr'[p].op = "up") \in BOOLEAN
          BY DEF IsGlobal
        <4> QED
          BY <2>6, <3>1, <4>1, <4>2 DEF MadeClaims
      <3>3. ASSUME NEW q \in Proc \ {p}, Claims[q] # NoClaim
            PROVE  ~Exclusive!Conflict(Claims'[p], Claims[q])
        <4>1. Holds(q) /\ Claims[q] = Taken(q)
          BY <1>0, <3>3
        <4>2. /\ ~IsGlobal(pr[q].op) /\ ~IsGlobal(pr'[p].op)
              /\ pr[q].ids \cap pr'[p].ids = {}
              /\ ~(pr'[p].op = "up" /\ pr[q].op = "up")
          BY <2>6, <4>1 DEF TakesClaim
        <4>3. /\ Claims'[p].targets = pr'[p].ids /\ Claims[q].targets = pr[q].ids
              /\ Claims'[p].global = IsGlobal(pr'[p].op) /\ Claims[q].global = IsGlobal(pr[q].op)
              /\ Claims'[p].build = (pr'[p].op = "up") /\ Claims[q].build = (pr[q].op = "up")
          BY <3>1, <4>1
        <4> QED
          BY <4>2, <4>3, Zenon DEF Exclusive!Conflict
      <3>4. Exclusive!Acquire(p, Claims'[p])
        BY <2>4, <3>1, <3>3 DEF Exclusive!Acquire, Exclusive!NoClaim, NoClaim
      <3> QED
        BY <3>2, <3>4 DEF Exclusive!Next
    <2>7. CASE Claims'[p] = NoClaim /\ Claims[p] # NoClaim
      BY <2>4, <2>7 DEF Exclusive!Next, Exclusive!Release, Exclusive!NoClaim, NoClaim
    <2>8. SameClaim(p) => Claims'[p] = Claims[p]
      BY <1>0 DEF SameClaim
    <2> QED
      BY <1>0, <1>1, <2>5, <2>6, <2>7, <2>8, TurnClaims DEF CatalogInv
  <1>2. CASE Crash
    <2>1. \A p \in Proc : Claims'[p] = NoClaim
      BY <1>0, <1>2, CrashClaims DEF CatalogInv, Blank, Holds
    <2>2. Claims' = [p \in Proc |-> NoClaim]
      BY <1>0, <2>1
    <2> QED
      BY <2>2 DEF Exclusive!Next, Exclusive!ReleaseAll, Exclusive!NoClaim, NoClaim
  <1>3. CASE Elsewhere
    BY <1>3, ElsewhereKeeps DEF Claims, Holds, IsJob
  <1> QED
    BY <1>1, <1>2, <1>3, Steps

(* ImplementsExclusion of the run "catalog_groups", for any constants: the *)
(* handlers and their operations keep what the registry promises.          *)
THEOREM CatalogImplementsExclusion == Spec => ImplementsExclusion
  <1> DEFINE Inv == TypeInv /\ \A p \in Proc : Claimed(p)
  <1>1. Init => Inv
    <2>1. Init => \A p \in Proc : Claimed(p)
      BY DEF Init, Blank, Claimed
    <2> QED
      BY <2>1, InitTypes
  <1>2. CatalogInv /\ Inv /\ [Next]_vars => Inv'
    BY TurnTypes, CrashTypes, ElsewhereTypes, Steps, ClaimedStep
  <1>3. CatalogInv /\ Inv /\ [Next]_vars => [Exclusive!Next]_Claims
    BY ClaimsRefine
  <1>4. Init => Exclusive!Init
    BY DEF Init, Exclusive!Init, Claims, Holds, IsJob, Blank, Exclusive!NoClaim, NoClaim
  <1> HIDE DEF Inv
  <1> QED
    BY <1>1, <1>2, <1>3, <1>4, InvHolds, PTL DEF Spec, ImplementsExclusion, Exclusive!Spec
================================================================================
