------------------------------ MODULE StoreOpen ------------------------------
(***************************************************************************)
(* OpenStore (store.go): how the agent finds, migrates or creates its      *)
(* catalog.  The home may hold a catalog of 0.6 (schema 3, at the root), a *)
(* canonical one (config/catalog.json, schema 4 or 5), both or none, with  *)
(* the journal and the backups of a migration, its own or one of 0.7 from  *)
(* schema 3 to 4, that was interrupted at any write.  The socket lock      *)
(* keeps two agents apart, old ones included, so agents of earlier         *)
(* versions act only between two runs of this one.                         *)
(***************************************************************************)
EXTENDS Naturals

CONSTANTS
    Edit,     \* changes that some agent commits to a catalog
    MaxStamp  \* bound: migrations begun

ASSUME StampAssumption == MaxStamp \in Nat

VARIABLES
    canonical,  \* config/catalog.json
    legacy,     \* catalog.json, at the root of the home
    journal,    \* config/migration.json
    backups,    \* copies in backups/config, as [stamp, file]
    resources,  \* infra, secrets or generated files exist
    at,         \* step of OpenStore, or "down" or "up"
    src,        \* the catalog that this run found
    stamp,      \* migrations begun: names the backup and the time of one
    refused,    \* the code of the last refusal, or "no"
    accepted,   \* edits that some agent acknowledged
    (* What has happened, for the properties; the code keeps none of it.   *)
    touched,    \* what of the pending migration somebody else acted on: "catalog", "backup"
    competed,   \* an agent of 0.6 created a catalog beside the canonical one
    stranded    \* a migration of 0.7 lost its journal before it wrote the marker

files  == <<canonical, legacy, journal, backups>>
others == <<resources, accepted, touched, competed, stranded>>
vars == <<canonical, legacy, journal, backups, resources, at, src, stamp, refused,
          accepted, touched, competed, stranded>>

Kind == {"none", "v3", "v4", "v5", "marker"}
File == [kind : Kind, body : SUBSET Edit, stamp : 0 .. MaxStamp]

(* The content of a file determines its hash: files are compared whole.    *)
Absent == [kind |-> "none", body |-> {}, stamp |-> 0]
Empty(k) == [kind |-> k, body |-> {}, stamp |-> 0]
Target(f, n) == [kind |-> "v5", body |-> f.body, stamp |-> n]

legacyMarker(n) == [kind |-> "marker", body |-> {}, stamp |-> n]

NoJournal ==
    [phase |-> "none", from |-> 0, source |-> Absent, target |-> Absent, stamp |-> 0]
Prepared(k, f, n) ==
    [phase |-> "prepared", from |-> k, source |-> f, target |-> Target(f, n), stamp |-> n]
Prepared07(f, n) == [Prepared(3, f, n) EXCEPT !.target.kind = "v4"]

IsPending == journal.phase = "prepared"
HasBackup == [stamp |-> journal.stamp, file |-> journal.source] \in backups

(* A new home, one whose catalog was lost, one of 0.6, and one of schema 4 *)
(* whose first run may have died before it wrote the marker.  What earlier *)
(* agents make of them comes from their steps below.                       *)
Init ==
    /\ \/ canonical = Absent /\ legacy \in {Absent, Empty("v3")}
       \/ canonical = Empty("v4") /\ legacy \in {Absent, legacyMarker(0)}
    /\ resources \in BOOLEAN
    /\ journal = NoJournal /\ backups = {}
    /\ at = "down" /\ src = Absent /\ stamp = 0 /\ refused = "no"
    /\ accepted = {} /\ touched = {} /\ competed = FALSE /\ stranded = FALSE

Goto(step) == at' = step /\ UNCHANGED <<src, stamp, refused, others>>
Refuse(code) ==
    /\ at' = "down" /\ refused' = code
    /\ UNCHANGED <<files, src, stamp, others>>
--------------------------------------------------------------------------------
(* What the home holds decides (readJSON, MigrationPreview). *)
Open ==
    /\ at = "down"
    /\ \/ /\ canonical.kind \in {"v4", "v5"} /\ src' = canonical
          /\ at' = IF canonical.kind = "v4" THEN "v4" ELSE "check"
       \/ /\ canonical.kind = "none" /\ legacy.kind = "v3"
          /\ src' = legacy /\ at' = "v3"
       \/ /\ canonical.kind = "none" /\ legacy.kind = "none" /\ ~resources
          /\ src' = Absent /\ at' = "new"
    /\ refused' = "no"
    /\ UNCHANGED <<files, stamp, others>>

(* CATALOG_MISSING: no identity is generated over existing resources. *)
OpenMissing ==
    /\ at = "down" /\ canonical.kind = "none" /\ legacy.kind = "none" /\ resources
    /\ Refuse("CATALOG_MISSING")

(* The backup of a migration that begins, and its verification. *)
Backup(step) ==
    /\ stamp < MaxStamp
    /\ stamp' = stamp + 1
    /\ backups' = backups \cup {[stamp |-> stamp + 1, file |-> src]}
    /\ at' = step
    /\ UNCHANGED <<canonical, legacy, journal, src, refused, others>>

WriteJournal(j, step) ==
    /\ journal' = j
    /\ Goto(step)
    /\ UNCHANGED <<canonical, legacy, backups>>

(* A new journal: what was done to the catalogs before it no longer counts. *)
(* That of a canonical catalog takes the place of a pending one of 0.7.    *)
Journal(k, step) ==
    /\ journal' = Prepared(k, src, stamp)
    /\ at' = step /\ touched' = {}
    /\ stranded' = (stranded \/
         (k = 4 /\ IsPending /\ journal.from = 3 /\ legacy.kind = "v3"))
    /\ UNCHANGED <<canonical, legacy, backups, src, stamp, refused, resources, accepted,
                   competed>>

WriteCanonical(f, step) ==
    /\ canonical' = f
    /\ Goto(step)
    /\ UNCHANGED <<legacy, journal, backups>>

WriteMarker(f, step) ==
    /\ legacy' = f
    /\ Goto(step)
    /\ UNCHANGED <<canonical, journal, backups>>
--------------------------------------------------------------------------------
(* migrateCanonicalV4.  That the catalog has not changed since the backup  *)
(* (V4Write, V3Write) can only fail if the lock is broken.                 *)

IsResume == IsPending /\ journal.from = 4

(* Mutant: a resumed migration is stamped with the present time. *)
V4Begin_NewStamp ==
    /\ at = "v4"
    /\ \/ ~IsResume /\ Backup("v4journal")
       \/ /\ IsResume /\ journal.source = src /\ HasBackup
          /\ journal.target # Target(src, stamp + 1)
          /\ Refuse("MIGRATION_CONFLICT")

(* Mutant: a resumed migration does not look at its backup. *)
V4Begin_AnyBackup ==
    /\ at = "v4"
    /\ \/ ~IsResume /\ Backup("v4journal")
       \/ IsResume /\ journal.source = src /\ Goto("v4write") /\ UNCHANGED files

(* Resume the migration of the journal, or begin one with a backup. *)
V4Begin ==
    /\ at = "v4"
    /\ \/ ~IsResume /\ Backup("v4journal")
       \/ /\ IsResume /\ journal.source = src /\ HasBackup
          /\ journal.target = Target(src, journal.stamp)
          /\ Goto("v4write") /\ UNCHANGED files
       \/ /\ IsResume
          /\ \/ journal.source # src \/ ~HasBackup
             \/ journal.target # Target(src, journal.stamp)
          /\ Refuse("MIGRATION_CONFLICT")

V4Journal == at = "v4journal" /\ Journal(4, "v4write")

V4Write ==
    /\ at = "v4write" /\ canonical = journal.source
    /\ WriteCanonical(journal.target, "v4commit")

V4Commit ==
    /\ at = "v4commit"
    /\ WriteJournal([journal EXCEPT !.phase = "committed"], "check")
--------------------------------------------------------------------------------
(* Schema 3, from the root of the home. *)

V3Backup == at = "v3" /\ Backup("v3journal")

V3Journal == at = "v3journal" /\ Journal(3, "v3write")

V3Write ==
    /\ at = "v3write" /\ legacy = journal.source
    /\ WriteCanonical(journal.target, "marker")

(* Mutant: the catalog of 0.6 is overwritten whatever became of it. *)
Check_AnyLegacy ==
    /\ at = "check"
    /\ \/ /\ ~IsPending /\ Goto("dual") /\ UNCHANGED files
       \/ IsPending /\ Goto(IF journal.from = 3 THEN "marker" ELSE "commit") /\ UNCHANGED files

(* Mutant: a catalog that equals the target of its journal is taken as     *)
(* the end of its migration.                                               *)
Check_TargetIsEnd ==
    /\ at = "check"
    /\ \/ ~IsPending /\ Goto("dual") /\ UNCHANGED files
       \/ IsPending /\ canonical = journal.target /\ Goto("up") /\ UNCHANGED files
       \/ IsPending /\ canonical # journal.target /\ Refuse("MIGRATION_CONFLICT")

(* The journal's migration can be confirmed: its target is in place, and   *)
(* the original is still in its backup, or under its old name.             *)
CanConfirm ==
    /\ canonical = journal.target
    /\ journal.from = 4 => HasBackup
    /\ journal.from = 3 => legacy \in {journal.source, legacyMarker(journal.stamp)}

(* A canonical catalog: recover the migration that was interrupted. *)
Check ==
    /\ at = "check"
    /\ \/ ~IsPending /\ Goto("dual") /\ UNCHANGED files
       \/ /\ IsPending /\ CanConfirm
          /\ Goto(IF journal.from = 3 /\ legacy # legacyMarker(journal.stamp)
                  THEN "marker" ELSE "commit")
          /\ UNCHANGED files
       \/ IsPending /\ ~CanConfirm /\ Refuse("MIGRATION_CONFLICT")

(* The old path becomes a marker that 0.6 rejects. *)
Marker == at = "marker" /\ WriteMarker(legacyMarker(journal.stamp), "commit")

Commit ==
    /\ at = "commit"
    /\ WriteJournal([journal EXCEPT !.phase = "committed"], "dual")

(* Two active catalogs are not combined; else the store is in use. *)
Dual ==
    /\ at = "dual"
    /\ \/ legacy.kind = "v3" /\ Refuse("DUAL_CATALOG")
       \/ legacy.kind # "v3" /\ Goto("up") /\ UNCHANGED files
--------------------------------------------------------------------------------
(* A new catalog, then its marker. *)

NewCatalog == at = "new" /\ WriteCanonical(Empty("v5"), "newmarker")

NewMarker == at = "newmarker" /\ WriteMarker(legacyMarker(0), "up")

(* Store.Update in the agent that runs. *)
Update(e) ==
    /\ at = "up" /\ e \notin accepted
    /\ canonical' = [canonical EXCEPT !.body = @ \cup {e}]
    /\ accepted' = accepted \cup {e}
    /\ UNCHANGED <<legacy, journal, backups, resources, at, src, stamp, refused, touched,
                   competed, stranded>>

(* The agent stops or dies, or a write fails and OpenStore returns. *)
Crash ==
    /\ at # "down"
    /\ Goto("down")
    /\ UNCHANGED files
--------------------------------------------------------------------------------
(* Agents of earlier versions, and the owner of the home. *)

OnCatalog == touched' = IF IsPending THEN touched \cup {"catalog"} ELSE touched

(* 0.6 writes the catalog at the root, and creates one if there is none. *)
Agent06(e) ==
    /\ at = "down" /\ e \notin accepted /\ legacy.kind \in {"v3", "none"}
    /\ legacy' = [legacy EXCEPT !.kind = "v3", !.body = @ \cup {e}]
    /\ accepted' = accepted \cup {e}
    /\ OnCatalog
    /\ competed' = (competed \/ (legacy.kind = "none" /\ canonical.kind # "none"))
    /\ UNCHANGED <<canonical, journal, backups, resources, at, src, stamp, refused,
                   stranded>>

(* 0.7 and 0.8 migrate schema 3 to 4 with a journal as this version does   *)
(* to 5, and may die after each of these writes: the journal, ...          *)
IsPending07 == IsPending /\ journal.target.kind = "v4"

Journal07 ==
    /\ at = "down" /\ canonical.kind = "none" /\ legacy.kind = "v3" /\ stamp < MaxStamp
    /\ stamp' = stamp + 1
    /\ backups' = backups \cup {[stamp |-> stamp + 1, file |-> legacy]}
    /\ journal' = Prepared07(legacy, stamp + 1)
    /\ touched' = {}
    /\ UNCHANGED <<canonical, legacy, resources, at, src, refused, accepted, competed,
                   stranded>>

(* ... the canonical catalog, ... *)
Write07 ==
    /\ at = "down" /\ IsPending07 /\ canonical.kind = "none" /\ legacy = journal.source
    /\ canonical' = journal.target
    /\ UNCHANGED <<legacy, journal, backups, at, src, stamp, refused, others>>

(* ... the marker and the end of the journal. *)
Marker07 ==
    /\ at = "down" /\ IsPending07 /\ canonical = journal.target /\ legacy = journal.source
    /\ legacy' = legacyMarker(journal.stamp)
    /\ UNCHANGED <<canonical, journal, backups, at, src, stamp, refused, others>>

Commit07 ==
    /\ at = "down" /\ IsPending07 /\ canonical = journal.target
    /\ legacy = legacyMarker(journal.stamp)
    /\ journal' = [journal EXCEPT !.phase = "committed"]
    /\ UNCHANGED <<canonical, legacy, backups, at, src, stamp, refused, others>>

(* They write a canonical catalog of schema 4, once they have migrated it. *)
Agent07(e) ==
    /\ at = "down" /\ e \notin accepted /\ canonical.kind = "v4" /\ ~IsPending07
    /\ canonical' = [canonical EXCEPT !.body = @ \cup {e}]
    /\ accepted' = accepted \cup {e}
    /\ OnCatalog
    /\ UNCHANGED <<legacy, journal, backups, resources, at, src, stamp, refused, competed,
                   stranded>>

(* The backup that a pending migration names is deleted. *)
LoseBackup ==
    /\ at = "down" /\ IsPending /\ HasBackup
    /\ backups' = backups \ {[stamp |-> journal.stamp, file |-> journal.source]}
    /\ touched' = touched \cup {"backup"}
    /\ UNCHANGED <<canonical, legacy, journal, resources, at, src, stamp, refused,
                   accepted, competed, stranded>>

OpenStore ==
    \/ Open \/ OpenMissing
    \/ V4Begin \/ V4Journal \/ V4Write \/ V4Commit
    \/ V3Backup \/ V3Journal \/ V3Write
    \/ Check \/ Marker \/ Commit \/ Dual
    \/ NewCatalog \/ NewMarker

Next ==
    \/ OpenStore
    \/ \E e \in Edit : Update(e) \/ Agent06(e) \/ Agent07(e)
    \/ Crash
    \/ Journal07 \/ Write07 \/ Marker07 \/ Commit07
    \/ LoseBackup

Spec == Init /\ [][Next]_vars
--------------------------------------------------------------------------------
TypeOK ==
    /\ canonical \in File /\ legacy \in File
    /\ canonical.kind \in {"none", "v4", "v5"} /\ legacy.kind \in {"none", "v3", "marker"}
    /\ journal \in [phase : {"none", "prepared", "committed"}, from : {0, 3, 4},
                    source : File, target : File, stamp : 0 .. MaxStamp]
    /\ backups \subseteq [stamp : 0 .. MaxStamp, file : File]
    /\ resources \in BOOLEAN /\ touched \subseteq {"catalog", "backup"}
    /\ competed \in BOOLEAN /\ stranded \in BOOLEAN
    /\ at \in {"down", "up", "v4", "v4journal", "v4write", "v4commit", "v3", "v3journal",
               "v3write", "check", "marker", "commit", "dual", "new", "newmarker"}
    /\ src \in File /\ stamp \in 0 .. MaxStamp
    /\ refused \in {"no", "CATALOG_MISSING", "MIGRATION_CONFLICT", "DUAL_CATALOG"}
    /\ accepted \subseteq Edit

(* No edit that an agent of any version acknowledged is lost: it is in one *)
(* of the two catalogs at every moment, also between two writes of a       *)
(* migration, and the catalog that an agent serves has them all            *)
(* ("Cualquier copia divergente bloquea", docs/MIGRACION.md:47,54).        *)
NothingLost ==
    /\ accepted = canonical.body \cup legacy.body
    /\ at = "up" => canonical.body = accepted

(* An interrupted migration is resumed however often it is interrupted: it *)
(* is blocked only if somebody else acted on its files meanwhile, and two  *)
(* active catalogs come only from an agent of 0.6 that created its own     *)
(* ("si quedo interrumpida, verifica hashes y reanuda o bloquea ante       *)
(* conflictos", docs/MIGRACION.md:47), with one exception: a migration of  *)
(* 0.7 that was interrupted between the canonical catalog and the marker   *)
(* is not resumed.  migrateCanonicalV4 overwrites its journal and migrates *)
(* to schema 5, and the schema 3 left beside it then refuses DUAL_CATALOG  *)
(* for good.                                                               *)
RefusedWithCause ==
    /\ refused = "MIGRATION_CONFLICT" => touched # {}
    /\ refused = "DUAL_CATALOG" => competed \/ stranded

(* While this agent serves the home no catalog that 0.6 could write stands *)
(* beside its own, and a home migrated from schema 3 has the marker for    *)
(* good (comment of OpenStore: "The old path becomes a fail-closed         *)
(* marker").                                                               *)
Fenced ==
    /\ at = "up" => legacy.kind # "v3"
    /\ journal.phase = "committed" /\ journal.from = 3 => legacy.kind = "marker"

(* An original is replaced only while its exact copy is in a backup        *)
(* ("Nunca elimina el original sin el backup", docs/MIGRACION.md:58).      *)
(* Before it writes the marker over a catalog of schema 3 a resumed run    *)
(* does not look for the copy, so there it holds unless the copy was       *)
(* deleted between two runs; that catalogs were edited is no excuse.       *)
BackupFirst ==
    [][/\ canonical.kind = "v4" /\ canonical'.kind = "v5" =>
             \E b \in backups : b.file = canonical
       /\ legacy.kind = "v3" /\ legacy'.kind = "marker" =>
             "backup" \in touched \/ \E b \in backups : b.file = legacy]_vars
================================================================================
