----------------------------- MODULE Migrations -----------------------------
(***************************************************************************)
(* applyIncrementalMigrations and acceptManualTransition                   *)
(* (packages/generator-runtime/src/generate.ts): how a run turns the       *)
(* freshly rendered migration into an incremental history.  The operators  *)
(* say when each outcome is taken; `tracked' is the manifest the run has   *)
(* read, NoFiles when there is none.                                       *)
(***************************************************************************)
EXTENDS ProjectFiles

(* renderBackend: the initial migration always describes the whole schema. *)
Rendered(spec) ==
    [p \in Path |->
        CASE p = InitPath      -> InitSql(spec.schema)
          [] p \in CodePaths   -> IF spec.code[p.n] = Absent THEN Absent
                                                            ELSE Code(spec.code[p.n])
          [] p \in CustomPaths -> Scaffold
          [] OTHER             -> Absent]

WithSnapshot(files, s) == [files EXCEPT ![SnapshotPath] = SnapshotOf(s)]

-----------------------------------------------------------------------------
(* A clean first generation: no manifest, no snapshot and no migration     *)
(* directory.  A project that has any of them and no snapshot is refused.  *)
FirstGeneration(known, disk) ==
    /\ ~known
    /\ disk[SnapshotPath] = Absent
    /\ \A m \in HistoryPaths : disk[m] = Absent

(* Mutant of TrustedHistory: any snapshot will do, not only the manifest's.*)
TrustAnySnapshot(known, tracked, disk) ==
    /\ known
    /\ disk[SnapshotPath] # Absent /\ disk[SnapshotPath].type = "snapshot"
    /\ disk[InitPath] # Absent /\ disk[InitPath] = tracked[InitPath]
    /\ \A m \in IncrementalPaths : disk[m] = tracked[m]
    /\ \A m \in ManualPaths : tracked[m] # Absent => disk[m] = tracked[m]
    /\ disk[AcceptedPath] = tracked[AcceptedPath]
    /\ disk[AcceptedPath] # Absent => disk[AcceptedPath].type = "accepted"

(* Everything the run must be able to rely on before it derives a          *)
(* migration: the snapshot and the record of accepted migrations are the   *)
(* manifest's, and so is every migration the generator owns or has         *)
(* recorded, none missing.  Untracked hand-written migrations are free.    *)
TrustedHistory(known, tracked, disk) ==
    /\ known
    /\ disk[SnapshotPath] # Absent /\ disk[SnapshotPath].type = "snapshot"
    /\ tracked[SnapshotPath] = disk[SnapshotPath]
    /\ disk[InitPath] # Absent /\ disk[InitPath] = tracked[InitPath]
    /\ \A m \in IncrementalPaths : disk[m] = tracked[m]
    /\ \A m \in ManualPaths : tracked[m] # Absent => disk[m] = tracked[m]
    /\ disk[AcceptedPath] = tracked[AcceptedPath]
    /\ disk[AcceptedPath] # Absent => disk[AcceptedPath].type = "accepted"

(* Mutants of CarriedForward: the initial migration is rendered afresh; the*)
(* record of accepted migrations is left out.                              *)
CarryWithoutInit(files, tracked, disk) ==
    [p \in Path |-> IF p \in MigrationPaths \cup {AcceptedPath} /\ tracked[p] # Absent
                    THEN disk[p] ELSE files[p]]
CarryWithoutRecord(files, tracked, disk) ==
    [p \in Path |-> IF p \in HistoryPaths /\ tracked[p] # Absent
                    THEN disk[p] ELSE files[p]]

(* The frozen history is carried forward byte for byte; the rest is as     *)
(* rendered.                                                               *)
CarriedForward(files, tracked, disk) ==
    [p \in Path |-> IF p \in HistoryPaths \cup {AcceptedPath} /\ tracked[p] # Absent
                    THEN disk[p] ELSE files[p]]

-----------------------------------------------------------------------------
(* diffSchemas, down to which columns differ.                              *)
Changes(s, t) == {c \in Columns : s[c] # t[c]}

(* Changes no migration is generated for: a person has to write it.        *)
ManualOnly(s, t) == {c \in Changes(s, t) : t[c] = "required"}

(* Changes that lose data, emitted with --allow-destructive only.          *)
Destructive(s, t) == {c \in Changes(s, t) : t[c] = "none"}

Emittable(s, t, allowDestructive) ==
    /\ ManualOnly(s, t) = {}
    /\ allowDestructive \/ Destructive(s, t) = {}

(* Mutant of IsNextPrefix: only the generator's own directories count.     *)
IsNextOwnPrefix(n, disk) ==
    /\ n \in Prefix
    /\ \A m \in IncrementalPaths : disk[m] # Absent => m.n < n
    /\ n = 1 \/ \E m \in IncrementalPaths : disk[m] # Absent /\ m.n = n - 1

(* The number of the next migration: one more than the highest prefix on   *)
(* disk, hand-written migrations included.  There may be none left.        *)
IsNextPrefix(n, disk) ==
    /\ n \in Prefix
    /\ \A m \in MigrationPaths : disk[m] # Absent => m.n < n
    /\ n = 1 \/ \E m \in MigrationPaths : disk[m] # Absent /\ m.n = n - 1

(* Mutant of Acceptable: wherever the migration sorts.                     *)
AcceptableAnywhere(m, tracked, disk, s, t) ==
    /\ m \in ManualPaths
    /\ disk[m] # Absent /\ tracked[m] = Absent
    /\ disk[m].type = "manual" /\ Changes(s, t) \subseteq disk[m].mentions

(* A hand-written migration can be accepted when it is there, not recorded *)
(* yet, later than everything recorded, and mentions all that changes.     *)
Acceptable(m, tracked, disk, s, t) ==
    /\ m \in ManualPaths
    /\ disk[m] # Absent /\ tracked[m] = Absent
    /\ \A k \in MigrationPaths : tracked[k] # Absent => k.n < m.n
    /\ disk[m].type = "manual" /\ Changes(s, t) \subseteq disk[m].mentions

AcceptedEntries(tracked, disk) ==
    IF disk[AcceptedPath] = Absent THEN {} ELSE disk[AcceptedPath].entries

(* Mutant of Accepting: the migration's name is kept for its contents.     *)
AcceptingName(m, disk, s, t) == [at |-> m.n, sql |-> m, from |-> s, to |-> t]

Accepting(m, disk, s, t) == [at |-> m.n, sql |-> disk[m], from |-> s, to |-> t]
=============================================================================
