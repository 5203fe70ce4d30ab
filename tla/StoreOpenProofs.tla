--------------------------- MODULE StoreOpenProofs ---------------------------
(***************************************************************************)
(* Theorems about StoreOpen for any set of edits and any number of         *)
(* migrations: whatever interrupts OpenStore, nothing is lost, originals   *)
(* are saved before they are replaced, the marker stands, and a migration  *)
(* is refused only if somebody else acted on its files or it is one of 0.7 *)
(* whose journal was overwritten.                                          *)
(***************************************************************************)
EXTENDS StoreOpen, TLAPS

(* A file that is no catalog has no edits. *)
BodyInv ==
    /\ canonical.kind = "none" => canonical = Absent
    /\ legacy.kind # "v3" => legacy.body = {}

(* A journal leads from its source to the same edits in schema 5, or in 4  *)
(* if 0.7 wrote it, and names a backup, which may have been deleted.       *)
JournalInv ==
    /\ journal.target.body = journal.source.body
    /\ IsPending =>
          /\ journal.from \in {3, 4}
          /\ journal.from = 4 => journal.target = Target(journal.source, journal.stamp)
          /\ "backup" \in touched \/ HasBackup
    /\ journal.phase = "none" => journal.target.kind = "none"
    /\ journal.phase # "none" => journal.target.kind \in {"v4", "v5"}
    /\ journal.phase # "none" /\ journal.from = 4 => journal.target.kind = "v5"

(* As long as nobody else acts on it, a pending migration finds each file  *)
(* either as it was or as it will be.                                      *)
UndisturbedInv ==
    IsPending /\ touched = {} =>
        IF journal.from = 4
        THEN \/ canonical = journal.target
             \/ canonical = journal.source /\ canonical.kind = "v4"
        ELSE /\ canonical = journal.target \/ canonical.kind = "none"
             /\ legacy \in {journal.source, legacyMarker(journal.stamp)}

(* Two catalogs stand side by side only while one of schema 3 is migrated, *)
(* after an agent of 0.6 created one, or after the journal of 0.7 was      *)
(* overwritten.                                                            *)
CompetedInv ==
    /\ IsPending /\ journal.from = 3 =>
          /\ legacy.kind # "none"
          /\ canonical.kind \in {"none", journal.target.kind}
    /\ IsPending /\ journal.from = 4 => canonical.kind # "none"
    /\ journal.phase = "committed" /\ journal.from = 3 => legacy.kind = "marker"
    /\ canonical.kind # "none" /\ legacy.kind = "v3" =>
          competed \/ stranded \/ (IsPending /\ journal.from = 3)

(* What each step of OpenStore has established before it. *)
Saved == [stamp |-> stamp, file |-> src] \in backups
StepInv ==
    /\ at # "down" => refused = "no"
    /\ refused = "MIGRATION_CONFLICT" => canonical.kind # "none"
    /\ at \in {"v4", "v4journal"} => src = canonical /\ canonical.kind = "v4"
    /\ at \in {"v3", "v3journal"} => src = legacy
    /\ at \in {"v3", "v3journal", "v3write"} => canonical.kind = "none" /\ legacy.kind = "v3"
    /\ at \in {"v4journal", "v3journal"} => Saved
    /\ at = "v4write" => IsPending /\ journal.from = 4 /\ HasBackup
    /\ at = "v3write" => IsPending /\ journal.from = 3 /\ journal.target.kind = "v5"
    /\ at = "v4commit" => IsPending /\ journal.from = 4 /\ canonical.kind = "v5"
    /\ at \in {"check", "marker", "commit", "dual", "newmarker", "up"} => canonical.kind = "v5"
    /\ at = "marker" =>
          /\ IsPending /\ journal.from = 3
          /\ canonical = journal.target /\ legacy = journal.source
    /\ at = "commit" => IsPending /\ (journal.from = 3 => legacy.kind = "marker")
    /\ at \in {"dual", "newmarker"} => ~IsPending
    /\ at = "new" => canonical.kind = "none"
    /\ at \in {"new", "newmarker"} => legacy.kind = "none"
    /\ at = "up" => legacy.kind # "v3" /\ ~IsPending

OpenInv ==
    /\ TypeOK /\ BodyInv /\ JournalInv /\ UndisturbedInv /\ CompetedInv /\ StepInv
    /\ NothingLost /\ RefusedWithCause
--------------------------------------------------------------------------------
(* What Target, the marker and an edit make of files are files. *)
LEMMA Files ==
    /\ Absent \in File /\ Empty("v3") \in File /\ Empty("v4") \in File /\ Empty("v5") \in File
    /\ \A n \in 0 .. MaxStamp : legacyMarker(n) \in File
    /\ \A f \in File, n \in 0 .. MaxStamp : Target(f, n) \in File
  <1>1. 0 \in 0 .. MaxStamp
    BY StampAssumption
  <1>2. Absent \in File /\ Empty("v3") \in File /\ Empty("v4") \in File /\ Empty("v5") \in File
    BY <1>1 DEF Absent, Empty, File, Kind
  <1>3. \A n \in 0 .. MaxStamp : legacyMarker(n) \in File
    BY DEF legacyMarker, File, Kind
  <1>4. \A f \in File, n \in 0 .. MaxStamp : Target(f, n) \in File
    BY DEF Target, File, Kind
  <1> QED
    BY <1>2, <1>3, <1>4

(* The homes that OpenStore can find at first are of the declared types. *)
LEMMA InitType == Init => TypeOK
  <1> SUFFICES ASSUME Init PROVE TypeOK
    OBVIOUS
  <1>1. 0 \in 0 .. MaxStamp
    BY StampAssumption
  <1>2. /\ canonical \in File /\ legacy \in File
        /\ canonical.kind \in {"none", "v4", "v5"} /\ legacy.kind \in {"none", "v3", "marker"}
    <2>1. CASE canonical = Absent /\ legacy \in {Absent, Empty("v3")}
      BY <2>1, Files DEF Absent, Empty
    <2>2. CASE canonical = Empty("v4") /\ legacy \in {Absent, legacyMarker(0)}
      BY <2>2, <1>1, Files DEF Absent, Empty, legacyMarker
    <2> QED
      BY <2>1, <2>2 DEF Init
  <1>3. journal \in [phase : {"none", "prepared", "committed"}, from : {0, 3, 4},
                     source : File, target : File, stamp : 0 .. MaxStamp]
    BY <1>1, Files DEF Init, NoJournal
  <1>4. src \in File
    BY Files DEF Init
  <1> QED
    BY <1>1, <1>2, <1>3, <1>4 DEF Init, TypeOK

(* Every step of this agent, of older ones and of the owner keeps them. *)
LEMMA NextType ==
    ASSUME TypeOK, JournalInv, StepInv, [Next]_vars
    PROVE  TypeOK'
  <1> USE DEF files, others
  <1>1. CASE UNCHANGED vars
    BY <1>1 DEF TypeOK, vars
  <1>2. CASE Open \/ OpenMissing
    BY <1>2, Files DEF TypeOK, Open, OpenMissing, Refuse
  <1>3. CASE V4Begin \/ V3Backup
    <2>1. CASE Backup("v4journal") \/ Backup("v3journal")
      <3>1. stamp + 1 \in 0 .. MaxStamp
        BY <2>1, StampAssumption DEF TypeOK, Backup
      <3>2. backups' \subseteq [stamp : 0 .. MaxStamp, file : File]
        BY <2>1, <3>1 DEF TypeOK, Backup
      <3> QED
        BY <2>1, <3>1, <3>2 DEF TypeOK, Backup
    <2>2. CASE Goto("v4write") /\ UNCHANGED files
      BY <2>2 DEF TypeOK, Goto
    <2>3. CASE Refuse("MIGRATION_CONFLICT")
      BY <2>3 DEF TypeOK, Refuse
    <2> QED
      BY <1>3, <2>1, <2>2, <2>3 DEF V4Begin, V3Backup
  <1>4. CASE V4Journal \/ V3Journal
    <2>1. Target(src, stamp) \in File
      BY Files DEF TypeOK
    <2>2. /\ Prepared(3, src, stamp)
               \in [phase : {"none", "prepared", "committed"}, from : {0, 3, 4},
                    source : File, target : File, stamp : 0 .. MaxStamp]
          /\ Prepared(4, src, stamp)
               \in [phase : {"none", "prepared", "committed"}, from : {0, 3, 4},
                    source : File, target : File, stamp : 0 .. MaxStamp]
      BY <2>1 DEF TypeOK, Prepared
    <2> QED
      BY <1>4, <2>2 DEF TypeOK, V4Journal, V3Journal, Journal
  <1>5. CASE V4Write \/ V3Write
    BY <1>5 DEF TypeOK, JournalInv, V4Write, V3Write, WriteCanonical, Goto
  <1>6. CASE V4Commit \/ Commit
    BY <1>6 DEF TypeOK, V4Commit, Commit, WriteJournal, Goto
  <1>7. CASE Check \/ Dual
    BY <1>7 DEF TypeOK, Check, Dual, Goto, Refuse
  <1>8. CASE Marker \/ NewMarker
    <2>1. \A n \in 0 .. MaxStamp : legacyMarker(n) \in File /\ legacyMarker(n).kind = "marker"
      BY Files DEF legacyMarker
    <2>2. CASE Marker
      BY <2>1, <2>2 DEF TypeOK, Marker, WriteMarker, Goto
    <2>3. CASE NewMarker
      BY <2>1, <2>3, StampAssumption DEF TypeOK, NewMarker, WriteMarker, Goto
    <2> QED
      BY <1>8, <2>2, <2>3
  <1>9. CASE NewCatalog
    <2>1. Empty("v5") \in File /\ Empty("v5").kind = "v5"
      BY Files DEF Empty
    <2> QED
      BY <1>9, <2>1 DEF TypeOK, NewCatalog, WriteCanonical, Goto
  <1>10. ASSUME NEW e \in Edit, Update(e) \/ Agent07(e)
         PROVE  TypeOK'
    <2>1. canonical' \in File /\ canonical'.kind = canonical.kind
      BY <1>10 DEF TypeOK, Update, Agent07, File
    <2> QED
      BY <1>10, <2>1 DEF TypeOK, Update, Agent07, OnCatalog
  <1>11. ASSUME NEW e \in Edit, Agent06(e)
         PROVE  TypeOK'
    <2>1. legacy' \in File /\ legacy'.kind = "v3"
      BY <1>11 DEF TypeOK, Agent06, File, Kind
    <2> QED
      BY <1>11, <2>1 DEF TypeOK, Agent06, OnCatalog
  <1>12. CASE Crash \/ LoseBackup
    BY <1>12 DEF TypeOK, Crash, LoseBackup, Goto
  <1>13. CASE Journal07
    <2>1. stamp + 1 \in 0 .. MaxStamp
      BY <1>13, StampAssumption DEF TypeOK, Journal07
    <2>2. Prepared07(legacy, stamp + 1)
               \in [phase : {"none", "prepared", "committed"}, from : {0, 3, 4},
                    source : File, target : File, stamp : 0 .. MaxStamp]
      BY <2>1 DEF TypeOK, Prepared07, Prepared, Target, File, Kind
    <2> QED
      BY <1>13, <2>1, <2>2 DEF TypeOK, Journal07
  <1>14. CASE Write07 \/ Marker07 \/ Commit07
    <2>1. CASE Write07
      BY <2>1 DEF TypeOK, Write07, IsPending07
    <2>2. CASE Marker07
      <3>1. legacyMarker(journal.stamp) \in File /\ legacyMarker(journal.stamp).kind = "marker"
        BY Files DEF TypeOK, legacyMarker
      <3> QED
        BY <2>2, <3>1 DEF TypeOK, Marker07
    <2>3. CASE Commit07
      BY <2>3 DEF TypeOK, Commit07
    <2> QED
      BY <1>14, <2>1, <2>2, <2>3
  <1> QED
    BY <1>1, <1>2, <1>3, <1>4, <1>5, <1>6, <1>7, <1>8, <1>9, <1>10, <1>11, <1>12, <1>13, <1>14
    DEF Next, OpenStore

(* OpenInv is inductive: each step of OpenStore leaves the files as its    *)
(* next step, or the next run, expects them.                               *)
LEMMA NextOpen == OpenInv /\ [Next]_vars => OpenInv'
  <1> SUFFICES ASSUME OpenInv, [Next]_vars PROVE OpenInv'
    OBVIOUS
  <1> USE DEF files, others
  <1>0. TypeOK /\ TypeOK'
    BY NextType DEF OpenInv
  <1>1. CASE UNCHANGED vars
    BY <1>0, <1>1 DEF OpenInv, vars, BodyInv, JournalInv, UndisturbedInv, CompetedInv,
       StepInv, NothingLost, RefusedWithCause, IsPending, HasBackup, Saved
  <1>2. CASE Open \/ OpenMissing
    <2>1. BodyInv' /\ JournalInv' /\ UndisturbedInv' /\ CompetedInv' /\ NothingLost'
      BY <1>2 DEF OpenInv, Open, OpenMissing, Refuse, BodyInv, JournalInv, UndisturbedInv,
         CompetedInv, NothingLost, IsPending, HasBackup
    <2>2. StepInv' /\ RefusedWithCause'
      BY <1>2, <1>0 DEF OpenInv, TypeOK, Open, OpenMissing, Refuse, StepInv,
         RefusedWithCause
    <2> QED
      BY <1>0, <2>1, <2>2 DEF OpenInv
  <1>3. CASE V4Begin
    <2>1. BodyInv' /\ JournalInv' /\ UndisturbedInv' /\ CompetedInv' /\ NothingLost'
      BY <1>3, <1>0 DEF OpenInv, TypeOK, V4Begin, Backup, Refuse, Goto, BodyInv, JournalInv,
         UndisturbedInv, CompetedInv, NothingLost, IsPending, HasBackup
    <2>2. StepInv' /\ RefusedWithCause'
      BY <1>3, <1>0 DEF OpenInv, TypeOK, V4Begin, Backup, Refuse, Goto, StepInv, Saved,
         RefusedWithCause, JournalInv, UndisturbedInv, IsResume, IsPending, HasBackup,
         Target
    <2> QED
      BY <1>0, <2>1, <2>2 DEF OpenInv
  <1>4. CASE V3Backup
    <2>1. BodyInv' /\ JournalInv' /\ UndisturbedInv' /\ CompetedInv' /\ NothingLost'
      BY <1>4, <1>0 DEF OpenInv, TypeOK, V3Backup, Backup, BodyInv, JournalInv,
         UndisturbedInv, CompetedInv, NothingLost, IsPending, HasBackup
    <2>2. StepInv' /\ RefusedWithCause'
      BY <1>4, <1>0 DEF OpenInv, TypeOK, V3Backup, Backup, StepInv, Saved, RefusedWithCause
    <2> QED
      BY <1>0, <2>1, <2>2 DEF OpenInv
  <1>5. CASE V4Journal \/ V3Journal
    <2>1. BodyInv' /\ NothingLost' /\ RefusedWithCause'
      BY <1>5 DEF OpenInv, V4Journal, V3Journal, Journal, BodyInv, NothingLost, StepInv,
         RefusedWithCause
    <2>2. JournalInv'
      BY <1>5 DEF OpenInv, V4Journal, V3Journal, Journal, Prepared, Target, JournalInv,
         StepInv, Saved, IsPending, HasBackup
    <2>3. UndisturbedInv' /\ CompetedInv'
      <3>1. CASE V4Journal
        <4>1. /\ canonical = src /\ canonical.kind = "v4" /\ UNCHANGED <<canonical, legacy>>
              /\ journal'.from = 4 /\ journal'.phase = "prepared" /\ journal'.source = src
          BY <3>1 DEF OpenInv, V4Journal, Journal, Prepared, StepInv
        <4>2. legacy.kind = "v3" => competed' \/ stranded'
          BY <3>1, <4>1 DEF OpenInv, V4Journal, Journal, CompetedInv, IsPending
        <4> QED
          BY <4>1, <4>2 DEF UndisturbedInv, CompetedInv, IsPending
      <3>2. CASE V3Journal
        BY <3>2 DEF OpenInv, V3Journal, Journal, Prepared, UndisturbedInv, CompetedInv,
           StepInv, IsPending
      <3> QED
        BY <1>5, <3>1, <3>2
    <2>4. StepInv'
      <3>1. CASE V4Journal
        BY <3>1 DEF OpenInv, V4Journal, Journal, Prepared, StepInv, Saved, IsPending, HasBackup
      <3>2. CASE V3Journal
        BY <3>2 DEF OpenInv, V3Journal, Journal, Prepared, Target, StepInv, Saved, IsPending
      <3> QED
        BY <1>5, <3>1, <3>2
    <2> QED
      BY <1>0, <2>1, <2>2, <2>3, <2>4 DEF OpenInv
  <1>6. CASE V4Write \/ V3Write
    <2>1. BodyInv' /\ NothingLost'
      BY <1>6, <1>0 DEF OpenInv, TypeOK, V4Write, V3Write, WriteCanonical, Goto,
         BodyInv, NothingLost, JournalInv, StepInv, Absent, IsPending
    <2>2. JournalInv' /\ UndisturbedInv' /\ CompetedInv'
      BY <1>6, <1>0 DEF OpenInv, TypeOK, V4Write, V3Write, WriteCanonical, Goto, JournalInv,
         UndisturbedInv, CompetedInv, StepInv, IsPending, HasBackup
    <2>3. StepInv' /\ RefusedWithCause'
      BY <1>6, <1>0 DEF OpenInv, TypeOK, V4Write, V3Write, WriteCanonical, Goto, JournalInv,
         UndisturbedInv, CompetedInv, StepInv, Saved, RefusedWithCause, IsPending, HasBackup
    <2> QED
      BY <1>0, <2>1, <2>2, <2>3 DEF OpenInv
  <1>7. CASE V4Commit \/ Commit
    <2>1. BodyInv' /\ NothingLost'
      BY <1>7, <1>0 DEF OpenInv, TypeOK, V4Commit, Commit, WriteJournal, Goto, BodyInv,
         NothingLost, JournalInv, StepInv, IsPending
    <2>2. JournalInv' /\ UndisturbedInv' /\ CompetedInv'
      BY <1>7, <1>0 DEF OpenInv, TypeOK, V4Commit, Commit, WriteJournal, Goto, JournalInv,
         UndisturbedInv, CompetedInv, StepInv, IsPending, HasBackup
    <2>3. StepInv' /\ RefusedWithCause'
      BY <1>7, <1>0 DEF OpenInv, TypeOK, V4Commit, Commit, WriteJournal, Goto, JournalInv,
         UndisturbedInv, CompetedInv, StepInv, Saved, RefusedWithCause, IsPending, HasBackup
    <2> QED
      BY <1>0, <2>1, <2>2, <2>3 DEF OpenInv
  <1>8. CASE Check
    <2>1. BodyInv' /\ NothingLost'
      BY <1>8, <1>0 DEF OpenInv, TypeOK, Check, CanConfirm, legacyMarker, Refuse, Goto,
         BodyInv, NothingLost, JournalInv, StepInv, IsPending
    <2>2. JournalInv' /\ UndisturbedInv' /\ CompetedInv'
      BY <1>8, <1>0 DEF OpenInv, TypeOK, Check, CanConfirm, legacyMarker, Refuse, Goto,
         JournalInv, UndisturbedInv, CompetedInv, StepInv, IsPending, HasBackup
    <2>3. StepInv' /\ RefusedWithCause'
      BY <1>8, <1>0 DEF OpenInv, TypeOK, Check, CanConfirm, legacyMarker, Refuse, Goto,
         JournalInv, UndisturbedInv, CompetedInv, StepInv, Saved, RefusedWithCause,
         IsPending, HasBackup
    <2> QED
      BY <1>0, <2>1, <2>2, <2>3 DEF OpenInv
  <1>9. CASE Marker
    <2>1. BodyInv' /\ NothingLost'
      BY <1>9, <1>0 DEF OpenInv, TypeOK, Marker, WriteMarker, legacyMarker, Goto, BodyInv,
         NothingLost, JournalInv, StepInv, IsPending
    <2>2. JournalInv' /\ UndisturbedInv' /\ CompetedInv'
      BY <1>9, <1>0 DEF OpenInv, TypeOK, Marker, WriteMarker, legacyMarker, Goto,
         JournalInv, UndisturbedInv, CompetedInv, StepInv, IsPending, HasBackup
    <2>3. StepInv' /\ RefusedWithCause'
      BY <1>9, <1>0 DEF OpenInv, TypeOK, Marker, WriteMarker, legacyMarker, Goto,
         JournalInv, UndisturbedInv, CompetedInv, StepInv, Saved, RefusedWithCause,
         IsPending, HasBackup
    <2> QED
      BY <1>0, <2>1, <2>2, <2>3 DEF OpenInv
  <1>10. CASE Dual
    <2>0. NothingLost'
      BY <1>10, <1>0 DEF OpenInv, TypeOK, Dual, Refuse, Goto, BodyInv, NothingLost,
         JournalInv, StepInv, IsPending
    <2>1. BodyInv'
      BY <1>10, <1>0 DEF OpenInv, TypeOK, Dual, Refuse, Goto, BodyInv,
         JournalInv, StepInv, IsPending
    <2>2. JournalInv' /\ UndisturbedInv' /\ CompetedInv'
      BY <1>10, <1>0 DEF OpenInv, TypeOK, Dual, Refuse, Goto, JournalInv,
         UndisturbedInv, CompetedInv, StepInv, IsPending, HasBackup
    <2>3. StepInv' /\ RefusedWithCause'
      BY <1>10, <1>0 DEF OpenInv, TypeOK, Dual, Refuse, Goto, JournalInv,
         UndisturbedInv, CompetedInv, StepInv, Saved, RefusedWithCause, IsPending, HasBackup
    <2> QED
      BY <1>0, <2>0, <2>1, <2>2, <2>3 DEF OpenInv
  <1>11. CASE NewCatalog
    <2>1. BodyInv' /\ NothingLost'
      BY <1>11, <1>0 DEF OpenInv, TypeOK, NewCatalog, WriteCanonical, Empty, Absent, Goto,
         BodyInv, NothingLost, JournalInv, StepInv, IsPending
    <2>2. JournalInv' /\ UndisturbedInv' /\ CompetedInv'
      BY <1>11, <1>0 DEF OpenInv, TypeOK, NewCatalog, WriteCanonical, Empty, Absent, Goto,
         JournalInv, UndisturbedInv, CompetedInv, StepInv, IsPending, HasBackup
    <2>3. StepInv' /\ RefusedWithCause'
      BY <1>11, <1>0 DEF OpenInv, TypeOK, NewCatalog, WriteCanonical, Empty, Absent, Goto,
         JournalInv, UndisturbedInv, CompetedInv, StepInv, Saved, RefusedWithCause,
         IsPending, HasBackup
    <2> QED
      BY <1>0, <2>1, <2>2, <2>3 DEF OpenInv
  <1>12. CASE NewMarker
    <2>1. BodyInv' /\ NothingLost'
      BY <1>12, <1>0 DEF OpenInv, TypeOK, NewMarker, WriteMarker, legacyMarker, Goto,
         BodyInv, NothingLost, JournalInv, StepInv, IsPending
    <2>2. JournalInv' /\ UndisturbedInv' /\ CompetedInv'
      BY <1>12, <1>0 DEF OpenInv, TypeOK, NewMarker, WriteMarker, legacyMarker, Goto,
         JournalInv, UndisturbedInv, CompetedInv, StepInv, IsPending, HasBackup
    <2>3. StepInv' /\ RefusedWithCause'
      BY <1>12, <1>0 DEF OpenInv, TypeOK, NewMarker, WriteMarker, legacyMarker, Goto,
         JournalInv, UndisturbedInv, CompetedInv, StepInv, Saved, RefusedWithCause,
         IsPending, HasBackup
    <2> QED
      BY <1>0, <2>1, <2>2, <2>3 DEF OpenInv
  <1>13. ASSUME NEW e \in Edit, Update(e)
         PROVE  OpenInv'
    <2>1. BodyInv' /\ NothingLost'
      BY <1>13, <1>0 DEF OpenInv, TypeOK, Update, BodyInv, NothingLost,
         JournalInv, StepInv, IsPending
    <2>2. JournalInv' /\ UndisturbedInv' /\ CompetedInv'
      BY <1>13, <1>0 DEF OpenInv, TypeOK, Update, JournalInv,
         UndisturbedInv, CompetedInv, StepInv, IsPending, HasBackup
    <2>3. StepInv' /\ RefusedWithCause'
      BY <1>13, <1>0 DEF OpenInv, TypeOK, Update, JournalInv,
         UndisturbedInv, CompetedInv, StepInv, Saved, RefusedWithCause, IsPending, HasBackup
    <2> QED
      BY <1>0, <2>1, <2>2, <2>3 DEF OpenInv
  <1>14. ASSUME NEW e \in Edit, Agent06(e)
         PROVE  OpenInv'
    <2>1. BodyInv' /\ NothingLost'
      BY <1>14, <1>0 DEF OpenInv, TypeOK, Agent06, BodyInv, NothingLost,
         JournalInv, StepInv, IsPending
    <2>2. UNCHANGED <<journal, backups, canonical>> /\ legacy'.kind = "v3"
      BY <1>14, <1>0 DEF OpenInv, TypeOK, Agent06, File
    <2>3. /\ IsPending => touched' # {}
          /\ touched \subseteq touched' /\ (competed => competed') /\ stranded' = stranded
      BY <1>14 DEF Agent06, OnCatalog
    <2>4. JournalInv' /\ UndisturbedInv'
      BY <2>2, <2>3 DEF OpenInv, JournalInv, UndisturbedInv, IsPending, HasBackup
    <2>5. CompetedInv'
      <3>1. CASE legacy.kind = "v3"
        BY <2>2, <2>3, <3>1 DEF OpenInv, CompetedInv, IsPending
      <3>2. CASE legacy.kind = "none" /\ canonical.kind # "none"
        <4>1. competed'
          BY <1>14, <3>2 DEF Agent06
        <4> QED
          BY <2>2, <3>2, <4>1 DEF OpenInv, CompetedInv, IsPending
      <3>3. CASE legacy.kind = "none" /\ canonical.kind = "none"
        BY <2>2, <3>3 DEF OpenInv, CompetedInv, IsPending
      <3> QED
        BY <1>14, <3>1, <3>2, <3>3 DEF Agent06
    <2>6. StepInv' /\ RefusedWithCause'
      BY <1>14, <1>0 DEF OpenInv, TypeOK, Agent06, OnCatalog, JournalInv,
         UndisturbedInv, CompetedInv, StepInv, Saved, RefusedWithCause, IsPending, HasBackup
    <2> QED
      BY <1>0, <2>1, <2>4, <2>5, <2>6 DEF OpenInv
  <1>15. ASSUME NEW e \in Edit, Agent07(e)
         PROVE  OpenInv'
    <2>1. BodyInv' /\ NothingLost'
      BY <1>15, <1>0 DEF OpenInv, TypeOK, Agent07, BodyInv, NothingLost,
         JournalInv, StepInv, IsPending
    <2>2. UNCHANGED <<journal, backups, legacy>> /\ canonical'.kind = "v4"
      BY <1>15, <1>0 DEF OpenInv, TypeOK, Agent07, File
    <2>3. /\ IsPending => touched' # {}
          /\ touched \subseteq touched' /\ (competed => competed') /\ stranded' = stranded
      BY <1>15 DEF Agent07, OnCatalog
    <2>4. JournalInv' /\ UndisturbedInv'
      BY <2>2, <2>3 DEF OpenInv, JournalInv, UndisturbedInv, IsPending, HasBackup
    <2>5. CompetedInv'
      BY <1>15, <2>2, <2>3 DEF OpenInv, Agent07, CompetedInv, IsPending, IsPending07
    <2>6. StepInv' /\ RefusedWithCause'
      BY <1>15, <1>0 DEF OpenInv, TypeOK, Agent07, OnCatalog, JournalInv,
         UndisturbedInv, CompetedInv, StepInv, Saved, RefusedWithCause, IsPending, HasBackup
    <2> QED
      BY <1>0, <2>1, <2>4, <2>5, <2>6 DEF OpenInv
  <1>16. CASE Crash
    <2>1. BodyInv' /\ NothingLost'
      BY <1>16, <1>0 DEF OpenInv, TypeOK, Crash, Goto, BodyInv, NothingLost,
         JournalInv, StepInv, IsPending
    <2>2. JournalInv' /\ UndisturbedInv' /\ CompetedInv'
      BY <1>16, <1>0 DEF OpenInv, TypeOK, Crash, Goto, JournalInv,
         UndisturbedInv, CompetedInv, StepInv, IsPending, HasBackup
    <2>3. StepInv' /\ RefusedWithCause'
      BY <1>16, <1>0 DEF OpenInv, TypeOK, Crash, Goto, JournalInv,
         UndisturbedInv, CompetedInv, StepInv, Saved, RefusedWithCause, IsPending, HasBackup
    <2> QED
      BY <1>0, <2>1, <2>2, <2>3 DEF OpenInv
  <1>17. CASE LoseBackup
    <2>1. BodyInv' /\ NothingLost'
      BY <1>17, <1>0 DEF OpenInv, TypeOK, LoseBackup, BodyInv, NothingLost,
         JournalInv, StepInv, IsPending
    <2>2. JournalInv' /\ UndisturbedInv' /\ CompetedInv'
      BY <1>17, <1>0 DEF OpenInv, TypeOK, LoseBackup, JournalInv,
         UndisturbedInv, CompetedInv, StepInv, IsPending, HasBackup
    <2>3. StepInv' /\ RefusedWithCause'
      BY <1>17, <1>0 DEF OpenInv, TypeOK, LoseBackup, JournalInv,
         UndisturbedInv, CompetedInv, StepInv, Saved, RefusedWithCause, IsPending, HasBackup
    <2> QED
      BY <1>0, <2>1, <2>2, <2>3 DEF OpenInv
  <1>18. CASE Journal07
    <2>1. BodyInv' /\ NothingLost' /\ StepInv'
      BY <1>18 DEF OpenInv, Journal07, BodyInv, NothingLost, StepInv
    <2>4. RefusedWithCause'
      BY <1>18 DEF OpenInv, Journal07, StepInv, RefusedWithCause
    <2>2. JournalInv'
      BY <1>18 DEF OpenInv, TypeOK, Journal07, Prepared07, Prepared, Target, JournalInv,
         IsPending, HasBackup, File
    <2>3. UndisturbedInv' /\ CompetedInv'
      BY <1>18 DEF OpenInv, Journal07, Prepared07, Prepared, UndisturbedInv, CompetedInv,
         IsPending
    <2> QED
      BY <1>0, <2>1, <2>2, <2>3, <2>4 DEF OpenInv
  <1>19. CASE Write07
    <2>1. BodyInv' /\ NothingLost'
      BY <1>19, <1>0 DEF OpenInv, TypeOK, Write07, IsPending07, BodyInv, NothingLost,
         JournalInv, Absent
    <2>2. JournalInv' /\ UndisturbedInv' /\ CompetedInv'
      BY <1>19, <1>0 DEF OpenInv, TypeOK, Write07, IsPending07, JournalInv, UndisturbedInv,
         CompetedInv, IsPending, HasBackup
    <2>3. StepInv' /\ RefusedWithCause'
      BY <1>19 DEF OpenInv, Write07, StepInv, RefusedWithCause
    <2> QED
      BY <1>0, <2>1, <2>2, <2>3 DEF OpenInv
  <1>20. CASE Marker07
    <2>1. BodyInv' /\ NothingLost'
      BY <1>20, <1>0 DEF OpenInv, TypeOK, Marker07, IsPending07, legacyMarker, BodyInv,
         NothingLost, JournalInv
    <2>2. JournalInv' /\ UndisturbedInv' /\ CompetedInv'
      BY <1>20, <1>0 DEF OpenInv, TypeOK, Marker07, IsPending07, legacyMarker, JournalInv,
         UndisturbedInv, CompetedInv, IsPending, HasBackup
    <2>3. StepInv' /\ RefusedWithCause'
      BY <1>20 DEF OpenInv, Marker07, StepInv, RefusedWithCause
    <2> QED
      BY <1>0, <2>1, <2>2, <2>3 DEF OpenInv
  <1>21. CASE Commit07
    <2>1. BodyInv' /\ NothingLost'
      BY <1>21 DEF OpenInv, Commit07, BodyInv, NothingLost
    <2>2. JournalInv' /\ UndisturbedInv' /\ CompetedInv'
      BY <1>21, <1>0 DEF OpenInv, TypeOK, Commit07, IsPending07, legacyMarker, JournalInv,
         UndisturbedInv, CompetedInv, IsPending, HasBackup
    <2>3. StepInv' /\ RefusedWithCause'
      BY <1>21 DEF OpenInv, Commit07, StepInv, RefusedWithCause
    <2> QED
      BY <1>0, <2>1, <2>2, <2>3 DEF OpenInv
  <1> QED
    BY <1>1, <1>2, <1>3, <1>4, <1>5, <1>6, <1>7, <1>8, <1>9, <1>10, <1>11, <1>12, <1>13,
       <1>14, <1>15, <1>16, <1>17, <1>18, <1>19, <1>20, <1>21, <1>0 DEF OpenInv, Next, OpenStore

(* OpenInv holds of every home that OpenStore can find at first. *)
LEMMA InitOpen == Init => OpenInv
  <1> SUFFICES ASSUME Init PROVE OpenInv
    OBVIOUS
  <1>1. /\ canonical.kind = "none" => canonical = Absent
        /\ canonical.body = {} /\ legacy.body = {}
        /\ canonical.kind # "none" => legacy.kind # "v3"
    BY DEF Init, Absent, Empty, legacyMarker
  <1>2. BodyInv /\ NothingLost
    BY <1>1 DEF Init, BodyInv, NothingLost
  <1>3. JournalInv /\ UndisturbedInv /\ CompetedInv
    BY <1>1 DEF Init, NoJournal, Absent, JournalInv, UndisturbedInv, CompetedInv, IsPending
  <1>4. StepInv /\ RefusedWithCause
    BY DEF Init, StepInv, RefusedWithCause
  <1> QED
    BY <1>2, <1>3, <1>4, InitType DEF OpenInv

(* The invariant of the migration, for any edits and number of migrations. *)
THEOREM OpenSound == Spec => []OpenInv
  <1> QED
    BY InitOpen, NextOpen, PTL DEF Spec

(* The files, the journal and the steps keep their types. *)
THEOREM StoreTypes == Spec => []TypeOK
  <1>1. OpenInv => TypeOK
    BY DEF OpenInv
  <1> QED
    BY <1>1, OpenSound, PTL

(* No acknowledged edit is lost, whatever interrupts OpenStore and whoever *)
(* of the earlier agents writes between two runs.                          *)
THEOREM NoEditLost == Spec => []NothingLost
  <1>1. OpenInv => NothingLost
    BY DEF OpenInv
  <1> QED
    BY <1>1, OpenSound, PTL

(* MIGRATION_CONFLICT means that somebody else acted on the files of the   *)
(* migration, and DUAL_CATALOG that 0.6 created a second catalog or that   *)
(* migrateCanonicalV4 overwrote the journal of an interrupted migration of *)
(* 0.7: a migration to schema 5 is never blocked by interruptions alone,   *)
(* one of 0.7 may be.                                                      *)
THEOREM ResumesUnlessTouched == Spec => []RefusedWithCause
  <1>1. OpenInv => RefusedWithCause
    BY DEF OpenInv
  <1> QED
    BY <1>1, OpenSound, PTL

(* The agent serves only a home in which 0.6 has no catalog to write, and  *)
(* the marker of a migrated home stays.                                    *)
THEOREM OldAgentFenced == Spec => []Fenced
  <1>1. OpenInv => Fenced
    BY DEF OpenInv, CompetedInv, StepInv, Fenced
  <1> QED
    BY <1>1, OpenSound, PTL

(* What BackupFirst says of one step. *)
SavedFirst ==
    /\ canonical.kind = "v4" /\ canonical'.kind = "v5" =>
          \E b \in backups : b.file = canonical
    /\ legacy.kind = "v3" /\ legacy'.kind = "marker" =>
          "backup" \in touched \/ \E b \in backups : b.file = legacy

(* The step that replaces an original finds its copy in a backup. *)
LEMMA NextSaved == OpenInv /\ [Next]_vars => SavedFirst
  <1> SUFFICES ASSUME OpenInv, [Next]_vars PROVE SavedFirst
    OBVIOUS
  <1> USE DEF files, others
  <1>1. HasBackup => \E b \in backups : b.file = journal.source
    BY DEF HasBackup
  <1>2. CASE V4Write
    BY <1>1, <1>2 DEF OpenInv, StepInv, TypeOK, V4Write, WriteCanonical, SavedFirst
  <1>3. CASE V3Write \/ NewCatalog
    BY <1>3 DEF OpenInv, StepInv, V3Write, NewCatalog, WriteCanonical, SavedFirst
  <1>4. CASE Marker
    BY <1>1, <1>4 DEF OpenInv, StepInv, JournalInv, Marker, WriteMarker, SavedFirst
  <1>9. CASE Marker07
    BY <1>1, <1>9 DEF OpenInv, JournalInv, Marker07, IsPending07, SavedFirst
  <1>10. CASE Write07
    BY <1>10 DEF Write07, SavedFirst
  <1>5. CASE NewMarker
    BY <1>5 DEF OpenInv, StepInv, NewMarker, WriteMarker, SavedFirst
  <1>6. ASSUME NEW e \in Edit, Update(e) \/ Agent06(e) \/ Agent07(e)
        PROVE  SavedFirst
    BY <1>6 DEF OpenInv, StepInv, TypeOK, File, Update, Agent06, Agent07, SavedFirst
  <1>7. CASE UNCHANGED <<canonical, legacy>>
    BY <1>7 DEF SavedFirst
  <1>8. ASSUME \/ Open \/ OpenMissing \/ V4Begin \/ V4Journal \/ V4Commit \/ V3Backup
               \/ V3Journal \/ Check \/ Commit \/ Dual \/ Crash \/ LoseBackup
               \/ Journal07 \/ Commit07
               \/ UNCHANGED vars
        PROVE  UNCHANGED <<canonical, legacy>>
    BY <1>8 DEF Open, OpenMissing, V4Begin, V4Journal, V4Commit, V3Backup, V3Journal, Check,
       Commit, Dual, Crash, LoseBackup, Journal07, Commit07, Backup, Journal, WriteJournal,
       Goto, Refuse, vars
  <1> QED
    BY <1>2, <1>3, <1>4, <1>5, <1>6, <1>7, <1>8, <1>9, <1>10 DEF Next, OpenStore

(* An original is replaced only while its exact copy is in a backup, but   *)
(* for the marker that a resumed run writes over a catalog of schema 3     *)
(* whose backup was deleted between two runs.                              *)
THEOREM BackupComesFirst == Spec => BackupFirst
  <1>1. OpenInv /\ [Next]_vars => [SavedFirst]_vars
    BY NextSaved
  <1>2. Spec => [][SavedFirst]_vars
    BY <1>1, OpenSound, PTL DEF Spec
  <1> QED
    BY <1>2 DEF BackupFirst, SavedFirst
================================================================================
