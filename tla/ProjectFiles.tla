---------------------------- MODULE ProjectFiles ----------------------------
(***************************************************************************)
(* The files of a generated project, as the generator runtime sees them:   *)
(* which paths it owns, what each can contain, and in which order they are *)
(* written.  Constants and operators only; Planner, Migrations and         *)
(* Generator build on it.                                                  *)
(*                                                                         *)
(* A hash (SHA-256 of the contents) is identified with the contents it is  *)
(* taken of.  A directory tree is a total function from Path to contents,  *)
(* Absent where there is no file.                                          *)
(***************************************************************************)
EXTENDS Naturals, FiniteSets

CONSTANTS Columns,      \* what a schema is made of: tables, columns, enums
          Versions,     \* the texts a rendered source file can have
          CodeFiles,    \* numbers of the generated source files
          CustomFiles,  \* numbers of the custom-scaffold files
          MaxPrefix,    \* the largest 14-digit migration prefix
          Absent        \* no file, no entry

ASSUME FilesAssumption == /\ MaxPrefix \in Nat
                          /\ CodeFiles \subseteq Nat
                          /\ CustomFiles \subseteq Nat

Prefix == 1 .. MaxPrefix

(* What the schema says of a column.  "required" stands for every change   *)
(* that only a person can migrate (NOT NULL without a default, a type or   *)
(* enum change); anything that disappears is a destructive change.         *)
Schema == [Columns -> {"none", "optional", "required"}]

-----------------------------------------------------------------------------
(* Paths.  The number of a migration is the prefix its directory is named  *)
(* with; "incremental" is a <prefix>_backendgen directory, "manual" any    *)
(* other timestamped one.                                                  *)
SnapshotPath == [kind |-> "snapshot", n |-> 0]
AcceptedPath == [kind |-> "accepted", n |-> 0]
InitPath     == [kind |-> "init", n |-> 0]
Incremental(n) == [kind |-> "incremental", n |-> n]
Manual(n)      == [kind |-> "manual", n |-> n]

IncrementalPaths == {Incremental(n) : n \in Prefix}
ManualPaths      == {Manual(n) : n \in Prefix}
CodePaths        == {[kind |-> "code", n |-> n] : n \in CodeFiles}
CustomPaths      == {[kind |-> "custom", n |-> n] : n \in CustomFiles}

MigrationPaths == IncrementalPaths \cup ManualPaths
HistoryPaths   == {InitPath} \cup MigrationPaths
Path == {SnapshotPath, AcceptedPath} \cup HistoryPaths \cup CodePaths \cup CustomPaths

(* The order a plan is written in: lexicographic on the path, that is      *)
(* .backendgen/, prisma/migrations/ by prefix, src/custom/, src/generated/.*)
Directory(p) == CASE p.kind = "accepted" -> 0
                  [] p.kind = "snapshot" -> 1
                  [] p.kind \in {"init", "incremental", "manual"} -> 2
                  [] p.kind = "custom"   -> 3
                  [] OTHER               -> 4

Precedes(p, q) == \/ Directory(p) < Directory(q)
                  \/ Directory(p) = Directory(q) /\ p.n < q.n
                  \/ Directory(p) = Directory(q) /\ p.n = q.n
                        /\ p.kind = "incremental" /\ q.kind = "manual"

-----------------------------------------------------------------------------
(* Contents.                                                               *)
SnapshotOf(s)     == [type |-> "snapshot", schema |-> s]
InitSql(s)        == [type |-> "init", to |-> s]
DiffSql(s, t)     == [type |-> "incremental", from |-> s, to |-> t]
ManualSql(cs)     == [type |-> "manual", mentions |-> cs]
Code(v)           == [type |-> "code", version |-> v]
Scaffold          == [type |-> "scaffold"]
Edited            == [type |-> "edited"]   \* what a developer made of a file
Torn              == [type |-> "torn"]     \* what an interrupted write left of it

(* One entry of .backendgen/accepted-migrations.json: the migration, the   *)
(* SQL it was accepted with, and the two snapshots it bridges.             *)
Acceptance == [at: Prefix, sql: {ManualSql(cs) : cs \in SUBSET Columns},
               from: Schema, to: Schema]
AcceptedRecord(entries) == [type |-> "accepted", entries |-> entries]

Contents == {SnapshotOf(s) : s \in Schema} \cup {InitSql(s) : s \in Schema}
       \cup [type: {"incremental"}, from: Schema, to: Schema]
       \cup {ManualSql(cs) : cs \in SUBSET Columns}
       \cup [type: {"accepted"}, entries: SUBSET Acceptance]
       \cup {Code(v) : v \in Versions}
       \cup {Scaffold, Edited, Torn}

ASSUME AbsentAssumption == Absent \notin Contents

File  == Contents \cup {Absent}
Files == [Path -> File]
NoFiles == [p \in Path |-> Absent]

Present(d) == {p \in Path : d[p] # Absent}

(* A specification, reduced to what the runtime derives from it: the       *)
(* schema and the generated sources (Absent when it does not render one).  *)
BackendSpec == [schema: Schema, code: [CodeFiles -> Versions \cup {Absent}]]
=============================================================================
