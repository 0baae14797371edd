-------------------------- MODULE GeneratorProofs --------------------------
(***************************************************************************)
(* Theorems about Generator, for any columns, files, prefixes, requests    *)
(* and amount of disturbance, and at the end about TestRun, that what is   *)
(* said of a run of the tests is earned.                                   *)
(*                                                                         *)
(* The first part holds for any number of concurrent runs: the types, and  *)
(* that a manifest is always backed by the history it tracks.  A run only  *)
(* ever goes on from a manifest it has read to be whole, and a manifest is *)
(* only ever what a run rendered, so it is enough that every adjustment of *)
(* migrations (first generation, kept history, emitted migration, accepted *)
(* migration) turns a backed set of files into a backed set of files.      *)
(* What is on disk meanwhile, and who else writes to it, does not enter: a *)
(* run trusts contents by hash.                                            *)
(*                                                                         *)
(* The second part is about one run at a time, with developers, crashes    *)
(* and restores at any moment: what a run may do to the files, and that    *)
(* the generator implements Ledger.  There the invariant says where the    *)
(* run is: in step with the manifest, its files history carried forward    *)
(* and the rest as asked, its plan up to date until somebody edits.        *)
(***************************************************************************)
EXTENDS Generator, TestRun, SequenceTheorems, TLAPS

-----------------------------------------------------------------------------
(* A chain can be continued at its top, after all its links.  This is what *)
(* appending one migration to history relies on.                           *)
LEMMA ChainExtends ==
    ASSUME NEW links, NEW base, NEW top, NEW next, NEW n \in Nat,
           \A l \in links : l.at \in Nat,
           Chain(links, base, top),
           \A l \in links : l.at < n
    PROVE  Chain(links \cup {[at |-> n, from |-> top, to |-> next]}, base, next)
<1> DEFINE new == [at |-> n, from |-> top, to |-> next]
           all == links \cup {new}
<1>0. new.at = n /\ new.from = top /\ new.to = next
  OBVIOUS
<1>1. \A l, k \in all : l.at = k.at => l = k
  BY <1>0 DEF Chain
<1>2. all # {}
  OBVIOUS
<1>3. ASSUME NEW l \in all, \A k \in all : l.at <= k.at
      PROVE  l.from = base
  <2>1. CASE links = {}
    BY <2>1, <1>0 DEF Chain
  <2>2. CASE links # {}
    <3>1. l \in links
      BY <2>2, <1>3, <1>0
    <3>2. QED
      BY <3>1, <1>3 DEF Chain
  <2>3. QED
    BY <2>1, <2>2
<1>4. ASSUME NEW l \in all, \A k \in all : k.at <= l.at
      PROVE  l.to = next
  <2>1. n <= l.at
    BY <1>4, <1>0
  <2>2. l \in links => l.at \in Nat /\ l.at < n
    OBVIOUS
  <2>3. l \notin links
    BY <2>1, <2>2
  <2>4. QED
    BY <2>3, <1>0
<1>5. ASSUME NEW l \in all, NEW k \in all, l.at < k.at,
             ~(\E j \in all : l.at < j.at /\ j.at < k.at)
      PROVE  l.to = k.from
  <2>1. l \in links
    BY <1>5, <1>0
  <2>2. CASE k \in links
    BY <2>1, <2>2, <1>5 DEF Chain
  <2>3. CASE k = new
    <3>1. \A j \in links : j.at <= l.at
      BY <2>1, <2>3, <1>5, <1>0
    <3>2. l.to = top
      BY <2>1, <3>1 DEF Chain
    <3>3. QED
      BY <3>2, <2>3, <1>0
  <2>4. QED
    BY <2>2, <2>3
<1> HIDE DEF new, all
<1>6. Chain(all, base, next)
  BY <1>1, <1>2, <1>3, <1>4, <1>5 DEF Chain
<1>7. QED
  BY <1>6 DEF all, new

-----------------------------------------------------------------------------
(* Where the paths a run decides by lie.                                   *)
LEMMA PathFacts ==
    /\ SnapshotPath \in Path /\ AcceptedPath \in Path /\ InitPath \in Path
    /\ IncrementalPaths \subseteq HistoryPaths /\ ManualPaths \subseteq HistoryPaths
    /\ HistoryPaths \subseteq Path /\ CustomPaths \subseteq Path /\ CodePaths \subseteq Path
    /\ AcceptedPath \notin HistoryPaths /\ SnapshotPath \notin HistoryPaths
    /\ AcceptedPath # SnapshotPath
    /\ InitPath \notin MigrationPaths
    /\ \A p \in {SnapshotPath, AcceptedPath} \cup HistoryPaths :
          p \notin CodePaths /\ p \notin CustomPaths
    /\ \A n \in Prefix : /\ Incremental(n) \in IncrementalPaths /\ Manual(n) \in ManualPaths
                         /\ Incremental(n).n = n /\ Manual(n).n = n
    /\ \A m \in IncrementalPaths : m.n \in Prefix /\ m = Incremental(m.n)
    /\ \A m \in ManualPaths : m.n \in Prefix /\ m = Manual(m.n)
    /\ IncrementalPaths \cap ManualPaths = {}
<1>1. /\ SnapshotPath \in Path /\ AcceptedPath \in Path /\ InitPath \in Path
      /\ IncrementalPaths \subseteq HistoryPaths /\ ManualPaths \subseteq HistoryPaths
      /\ HistoryPaths \subseteq Path /\ CustomPaths \subseteq Path /\ CodePaths \subseteq Path
  BY DEF MigrationPaths, HistoryPaths, Path
<1>2. /\ SnapshotPath.kind = "snapshot" /\ AcceptedPath.kind = "accepted"
      /\ InitPath.kind = "init"
      /\ \A m \in IncrementalPaths : m.kind = "incremental"
      /\ \A m \in ManualPaths : m.kind = "manual"
      /\ \A m \in CodePaths : m.kind = "code"
      /\ \A m \in CustomPaths : m.kind = "custom"
  BY DEF SnapshotPath, AcceptedPath, InitPath, Incremental, Manual, IncrementalPaths,
         ManualPaths, CodePaths, CustomPaths
<1>3. \A p \in HistoryPaths : p.kind \in {"init", "incremental", "manual"}
  BY <1>2 DEF HistoryPaths, MigrationPaths
<1>4. /\ AcceptedPath \notin HistoryPaths /\ SnapshotPath \notin HistoryPaths
      /\ AcceptedPath # SnapshotPath /\ IncrementalPaths \cap ManualPaths = {}
      /\ InitPath \notin MigrationPaths
  BY <1>2, <1>3 DEF MigrationPaths
<1>5. \A p \in {SnapshotPath, AcceptedPath} \cup HistoryPaths :
         p \notin CodePaths /\ p \notin CustomPaths
  BY <1>2, <1>3
<1>6. /\ \A n \in Prefix : /\ Incremental(n) \in IncrementalPaths /\ Manual(n) \in ManualPaths
                          /\ Incremental(n).n = n /\ Manual(n).n = n
      /\ \A m \in IncrementalPaths : m.n \in Prefix /\ m = Incremental(m.n)
      /\ \A m \in ManualPaths : m.n \in Prefix /\ m = Manual(m.n)
  BY DEF Incremental, Manual, IncrementalPaths, ManualPaths
<1>7. QED
  BY <1>1, <1>4, <1>5, <1>6

(* The acceptance record of well-typed files holds acceptances only.       *)
LEMMA RecordedType ==
    ASSUME NEW t \in Files, t[AcceptedPath] # Absent => t[AcceptedPath].type = "accepted"
    PROVE  /\ Recorded(t) \subseteq Acceptance
           /\ \A e \in Recorded(t) : e.at \in Prefix /\ e.sql # Absent
                                    /\ e.from \in Schema /\ e.to \in Schema
<1>1. Recorded(t) \subseteq Acceptance
  <2>1. CASE t[AcceptedPath] = Absent
    BY <2>1 DEF Recorded
  <2>2. CASE t[AcceptedPath] # Absent
    <3>1. t[AcceptedPath] \in Contents
      BY <2>2, PathFacts DEF Files, File
    <3>2. t[AcceptedPath] \in [type: {"accepted"}, entries: SUBSET Acceptance]
      BY <3>1, <2>2 DEF Contents, SnapshotOf, InitSql, ManualSql, Code, Scaffold, Edited, Torn
    <3>3. QED
      BY <3>2, <2>2 DEF Recorded
  <2>3. QED
    BY <2>1, <2>2
<1>2. \A e \in Acceptance : e.at \in Prefix /\ e.sql # Absent
                                    /\ e.from \in Schema /\ e.to \in Schema
  <2>1. \A e \in Acceptance : e.sql \in {ManualSql(cs) : cs \in SUBSET Columns}
    BY DEF Acceptance
  <2>2. {ManualSql(cs) : cs \in SUBSET Columns} \subseteq Contents
    BY DEF Contents
  <2>3. QED
    BY <2>1, <2>2, AbsentAssumption DEF Acceptance
<1>3. QED
  BY <1>1, <1>2

(* Files are backed as soon as their history, their acceptance record and  *)
(* their snapshot are those of backed files.                               *)
LEMMA AgreeingBacked ==
    ASSUME NEW t \in Files, Backed(t), NEW fs,
           \A p \in HistoryPaths \cup {AcceptedPath, SnapshotPath} : fs[p] = t[p]
    PROVE  Backed(fs)
<1>1. \A m \in IncrementalPaths \cup ManualPaths : fs[m] = t[m]
  BY PathFacts
<1>2. Emitted(fs) = Emitted(t)
  BY <1>1 DEF Emitted
<1>3. Recorded(fs) = Recorded(t) /\ Accepted(fs) = Accepted(t)
  BY DEF Recorded, Accepted
<1>4. Links(fs) = Links(t)
  BY <1>2, <1>3 DEF Links
<1>5. fs[SnapshotPath] = t[SnapshotPath] /\ fs[AcceptedPath] = t[AcceptedPath]
  OBVIOUS
<1>6. fs[InitPath] = t[InitPath]
  BY DEF HistoryPaths
<1>7. \A e \in Recorded(fs) : fs[Manual(e.at)] = e.sql
  <2>1. \A e \in Recorded(t) : Manual(e.at) \in ManualPaths
    BY RecordedType, PathFacts DEF Backed
  <2>2. QED
    BY <2>1, <1>1, <1>3 DEF Backed
<1>8. QED
  BY <1>1, <1>3, <1>4, <1>5, <1>6, <1>7 DEF Backed

(* The initial generation: one migration, no links, the snapshot it builds.*)
LEMMA FirstBacked ==
    ASSUME NEW spec \in BackendSpec
    PROVE  Backed(WithSnapshot(Rendered(spec), spec.schema))
<1> DEFINE fs == WithSnapshot(Rendered(spec), spec.schema)
<1>1. fs[SnapshotPath] = SnapshotOf(spec.schema)
  BY PathFacts DEF WithSnapshot, Rendered
<1>2. fs[InitPath] = InitSql(spec.schema)
  BY PathFacts DEF WithSnapshot, Rendered, HistoryPaths
<1>3. fs[AcceptedPath] = Absent /\ \A m \in MigrationPaths : fs[m] = Absent
  <2>1. \A p \in {AcceptedPath} \cup MigrationPaths :
           p \in Path /\ p # SnapshotPath /\ p # InitPath
              /\ p \notin CodePaths /\ p \notin CustomPaths
    BY PathFacts DEF MigrationPaths, HistoryPaths, AcceptedPath, InitPath
  <2>2. QED
    BY <2>1 DEF WithSnapshot, Rendered
<1>4. SnapshotOf(spec.schema) # Absent /\ InitSql(spec.schema) # Absent
  BY AbsentAssumption DEF Contents, BackendSpec
<1> HIDE DEF fs
<1>5. Recorded(fs) = {} /\ Links(fs) = {}
  BY <1>3 DEF Recorded, Accepted, Emitted, Links, MigrationPaths
<1>6. Chain({}, spec.schema, spec.schema)
  BY DEF Chain
<1>7. Backed(fs)
  BY <1>1, <1>2, <1>3, <1>4, <1>5, <1>6 DEF Backed, MigrationPaths, SnapshotOf, InitSql
<1>8. QED
  BY <1>7 DEF fs

-----------------------------------------------------------------------------
(* What KeepHistory, EmitMigration and AcceptManual render, from the       *)
(* tracked files t, the disk d and the specification.                      *)
KeptOf(t, d, spec) == WithSnapshot(CarriedForward(Rendered(spec), t, d), spec.schema)
EmittedOf(t, d, spec, n) ==
    WithSnapshot([CarriedForward(Rendered(spec), t, d) EXCEPT
                    ![Incremental(n)] = DiffSql(d[SnapshotPath].schema, spec.schema)],
                 spec.schema)
EntriesOf(t, d, spec, m) ==
    AcceptedEntries(t, d) \cup {Accepting(m, d, d[SnapshotPath].schema, spec.schema)}
AcceptedOf(t, d, spec, m) ==
    WithSnapshot([CarriedForward(Rendered(spec), t, d) EXCEPT
                    ![m] = d[m],
                    ![AcceptedPath] = AcceptedRecord(EntriesOf(t, d, spec, m))],
                 spec.schema)

(* What is to be known of them: which file is new, the rest of history as  *)
(* tracked, the remaining files as asked, and one more link.               *)
Appended(fs, t, d, spec, n) ==
    /\ t[SnapshotPath].schema = d[SnapshotPath].schema
    /\ \A p \in CodePaths \cup CustomPaths : fs[p] = Rendered(spec)[p]
    /\ fs[SnapshotPath] = SnapshotOf(spec.schema)
    /\ Links(fs) = Links(t) \cup {[at |-> n, from |-> t[SnapshotPath].schema, to |-> spec.schema]}
    /\ \A l \in Links(t) : l.at \in Nat /\ l.at < n
Emits(fs, t, d, spec, n) ==
    /\ Appended(fs, t, d, spec, n)
    /\ fs[Incremental(n)] = DiffSql(d[SnapshotPath].schema, spec.schema)
    /\ fs[Incremental(n)] # Absent /\ t[Incremental(n)] = Absent
    /\ \A p \in HistoryPaths \cup {AcceptedPath} : p # Incremental(n) => fs[p] = t[p]
Accepts(fs, t, d, spec, m) ==
    /\ Appended(fs, t, d, spec, m.n)
    /\ Backed(fs) /\ EntriesOf(t, d, spec, m) \subseteq Acceptance
    /\ fs[m] = d[m] /\ fs[AcceptedPath] = AcceptedRecord(EntriesOf(t, d, spec, m))
    /\ \A p \in HistoryPaths : p # m => fs[p] = t[p]

(* What a run that trusts the history renders before it looks at changes:  *)
(* the history and the acceptance record of the manifest it read.          *)
LEMMA CarriedHistory ==
    ASSUME NEW t \in Files, NEW d \in Files, NEW spec \in BackendSpec,
           Backed(t), TrustedHistory(TRUE, t, d)
    PROVE  LET b == CarriedForward(Rendered(spec), t, d)
           IN  /\ \A p \in HistoryPaths \cup {AcceptedPath} : b[p] = t[p]
               /\ \A p \in CodePaths \cup CustomPaths : b[p] = Rendered(spec)[p]
               /\ b \in Files
               /\ d[SnapshotPath] = t[SnapshotPath]
               /\ d[AcceptedPath] = t[AcceptedPath]
<1> DEFINE b == CarriedForward(Rendered(spec), t, d)
<1>1. Rendered(spec) \in Files
  <2>1. \A p \in Path : Rendered(spec)[p] \in File
    <3> SUFFICES ASSUME NEW p \in Path PROVE Rendered(spec)[p] \in File
      OBVIOUS
    <3>1. InitSql(spec.schema) \in File /\ Scaffold \in File /\ Absent \in File
      BY DEF File, Contents, BackendSpec
    <3>2. \A v \in Versions : Code(v) \in File
      BY DEF File, Contents
    <3>3. p \in CodePaths => p.n \in CodeFiles
      BY DEF CodePaths
    <3>4. p \in CodePaths => spec.code[p.n] \in Versions \cup {Absent}
      BY <3>3 DEF BackendSpec
    <3>5. QED
      BY <3>1, <3>2, <3>4 DEF Rendered
  <2>2. QED
    BY <2>1 DEF Files, Rendered
<1>2. b \in Files
  BY <1>1 DEF CarriedForward, Files
<1>3. \A m \in MigrationPaths \cup {AcceptedPath} : t[m] = Absent => Rendered(spec)[m] = Absent
  <2>1. \A p \in {AcceptedPath} \cup MigrationPaths :
           p \in Path /\ p # InitPath /\ p \notin CodePaths /\ p \notin CustomPaths
    BY PathFacts DEF MigrationPaths, HistoryPaths, AcceptedPath, InitPath
  <2>2. QED
    BY <2>1 DEF Rendered
<1>4. \A p \in HistoryPaths \cup {AcceptedPath} : t[p] # Absent => d[p] = t[p]
  BY DEF TrustedHistory, HistoryPaths, MigrationPaths
<1>5. t[InitPath] # Absent
  BY DEF Backed
<1>6. \A p \in HistoryPaths \cup {AcceptedPath} : b[p] = t[p]
  BY <1>3, <1>4, <1>5, PathFacts DEF CarriedForward, HistoryPaths
<1>7. \A p \in CodePaths \cup CustomPaths : b[p] = Rendered(spec)[p]
  BY PathFacts DEF CarriedForward
<1>8. QED
  BY <1>2, <1>6, <1>7 DEF TrustedHistory

(* Every link of backed files has a prefix that one of their tracked       *)
(* migrations has.                                                         *)
LEMMA LinksAreTracked ==
    ASSUME NEW t \in Files, Backed(t)
    PROVE  \A l \in Links(t) :
              \E m \in MigrationPaths : t[m] # Absent /\ m.n = l.at /\ m.n \in Prefix
<1>1. ASSUME NEW l \in Emitted(t)
      PROVE  \E m \in IncrementalPaths : t[m] # Absent /\ m.n = l.at /\ m.n \in Prefix
  BY PathFacts DEF Emitted
<1>2. ASSUME NEW l \in Accepted(t)
      PROVE  \E m \in ManualPaths : t[m] # Absent /\ m.n = l.at /\ m.n \in Prefix
  <2>1. PICK e \in Recorded(t) : l.at = e.at
    BY DEF Accepted
  <2>2. e.at \in Prefix /\ e.sql # Absent
    BY RecordedType DEF Backed
  <2>3. t[Manual(e.at)] = e.sql
    BY DEF Backed
  <2>4. QED
    BY <2>1, <2>2, <2>3, PathFacts
<1>3. QED
  BY <1>1, <1>2 DEF Links, MigrationPaths

(* Nothing changed: the history is kept and so is the snapshot.            *)
LEMMA KeptFiles ==
    ASSUME NEW t \in Files, NEW d \in Files, NEW spec \in BackendSpec,
           Backed(t), TrustedHistory(TRUE, t, d),
           Changes(d[SnapshotPath].schema, spec.schema) = {}
    PROVE  LET fs == KeptOf(t, d, spec)
           IN  /\ \A p \in HistoryPaths \cup {AcceptedPath, SnapshotPath} : fs[p] = t[p]
               /\ \A p \in CodePaths \cup CustomPaths : fs[p] = Rendered(spec)[p]
               /\ fs[SnapshotPath] = SnapshotOf(spec.schema)
<1> DEFINE b == CarriedForward(Rendered(spec), t, d)
           fs == WithSnapshot(b, spec.schema)
<1>1. t[SnapshotPath] \in {SnapshotOf(s) : s \in Schema}
  <2>1. t[SnapshotPath] \in Contents /\ t[SnapshotPath].type = "snapshot"
    BY PathFacts DEF Backed, Files, File
  <2>2. QED
    BY <2>1 DEF Contents, SnapshotOf, InitSql, ManualSql, Code, Scaffold, Edited, Torn
<1>2. t[SnapshotPath].schema \in Schema /\ t[SnapshotPath] = SnapshotOf(t[SnapshotPath].schema)
  BY <1>1 DEF SnapshotOf
<1>3. t[SnapshotPath].schema = spec.schema
  <2>1. \A c \in Columns : t[SnapshotPath].schema[c] = spec.schema[c]
    BY CarriedHistory DEF Changes
  <2>2. QED
    BY <2>1, <1>2 DEF Schema, BackendSpec
<1>4. /\ \A p \in HistoryPaths \cup {AcceptedPath} : b[p] = t[p]
      /\ \A p \in CodePaths \cup CustomPaths : b[p] = Rendered(spec)[p]
  BY CarriedHistory
<1>5. b \in Files
  BY CarriedHistory
<1> HIDE DEF b
<1>6. /\ \A p \in HistoryPaths \cup {AcceptedPath} : fs[p] = t[p]
      /\ \A p \in CodePaths \cup CustomPaths : fs[p] = Rendered(spec)[p]
  BY <1>4, <1>5, PathFacts DEF WithSnapshot, Files
<1>7. fs[SnapshotPath] = SnapshotOf(spec.schema)
  BY <1>5, PathFacts DEF WithSnapshot, Files
<1> HIDE DEF fs
<1>8. QED
  BY <1>2, <1>3, <1>6, <1>7 DEF fs, b, KeptOf

LEMMA KeptBacked ==
    ASSUME NEW t \in Files, NEW d \in Files, NEW spec \in BackendSpec,
           Backed(t), TrustedHistory(TRUE, t, d),
           Changes(d[SnapshotPath].schema, spec.schema) = {}
    PROVE  Backed(KeptOf(t, d, spec))
  BY KeptFiles, AgreeingBacked

(* A migration was emitted: history continues at its top, because the new  *)
(* number is higher than that of any migration the manifest tracks.        *)
LEMMA EmittedFiles ==
    ASSUME NEW t \in Files, NEW d \in Files, NEW spec \in BackendSpec, NEW n \in Prefix,
           Backed(t), TrustedHistory(TRUE, t, d), IsNextPrefix(n, d)
    PROVE  Emits(EmittedOf(t, d, spec, n), t, d, spec, n)
<1> DEFINE b == CarriedForward(Rendered(spec), t, d)
           cur == t[SnapshotPath].schema
           new == DiffSql(d[SnapshotPath].schema, spec.schema)
           fs == WithSnapshot([b EXCEPT ![Incremental(n)] = new], spec.schema)
<1>1. /\ \A p \in HistoryPaths \cup {AcceptedPath} : b[p] = t[p]
      /\ \A p \in CodePaths \cup CustomPaths : b[p] = Rendered(spec)[p]
      /\ d[SnapshotPath] = t[SnapshotPath]
      /\ b \in Files
      /\ new = DiffSql(cur, spec.schema)
  BY CarriedHistory
<1> HIDE DEF b
<1>2. Incremental(n) \in Path /\ Incremental(n) \in HistoryPaths /\ Incremental(n).n = n
  BY PathFacts
<1>3. fs[Incremental(n)] = new
  BY <1>1, <1>2, PathFacts DEF WithSnapshot, Files
<1>4. \A p \in HistoryPaths \cup {AcceptedPath} : p # Incremental(n) => fs[p] = t[p]
  BY <1>1, <1>2, PathFacts DEF WithSnapshot, Files
<1>5. /\ fs[SnapshotPath] = SnapshotOf(spec.schema)
      /\ \A p \in CodePaths \cup CustomPaths : fs[p] = Rendered(spec)[p]
  BY <1>1, <1>2, PathFacts DEF WithSnapshot, Files
<1>6. SnapshotOf(spec.schema) # Absent /\ new # Absent
  <2>1. cur \in Schema
    <3>1. t[SnapshotPath] \in Contents /\ t[SnapshotPath].type = "snapshot"
      BY PathFacts DEF Backed, Files, File
    <3>2. QED
      BY <3>1 DEF Contents, SnapshotOf, InitSql, ManualSql, Code, Scaffold, Edited, Torn
  <2>2. SnapshotOf(spec.schema) \in Contents /\ new \in Contents
    BY <2>1, <1>1 DEF Contents, DiffSql, BackendSpec
  <2>3. QED
    BY <2>2, AbsentAssumption
<1> HIDE DEF fs
<1>7. \A m \in MigrationPaths : t[m] # Absent => m.n < n
  BY DEF IsNextPrefix, TrustedHistory, MigrationPaths
<1>8. t[Incremental(n)] = Absent
  BY <1>7, PathFacts DEF MigrationPaths, Prefix
<1>9. Recorded(fs) = Recorded(t) /\ fs[AcceptedPath] = t[AcceptedPath]
      /\ fs[InitPath] = t[InitPath]
  <2>1. AcceptedPath # Incremental(n) /\ InitPath # Incremental(n)
    BY PathFacts, <1>2 DEF MigrationPaths
  <2>2. QED
    BY <2>1, <1>4 DEF Recorded, HistoryPaths
<1>10. Emitted(fs) = Emitted(t) \cup {[at |-> n, from |-> cur, to |-> spec.schema]}
  <2>1. {k \in IncrementalPaths : fs[k] # Absent}
           = {k \in IncrementalPaths : t[k] # Absent} \cup {Incremental(n)}
    BY <1>3, <1>4, <1>6, <1>8, PathFacts
  <2>2. \A k \in {j \in IncrementalPaths : t[j] # Absent} :
           fs[k].from = t[k].from /\ fs[k].to = t[k].to
    BY <1>4, <1>8, PathFacts
  <2>3. fs[Incremental(n)].from = cur /\ fs[Incremental(n)].to = spec.schema
    BY <1>3, <1>1 DEF DiffSql
  <2>4. QED
    BY <2>1, <2>2, <2>3, <1>2 DEF Emitted
<1>11. Links(fs) = Links(t) \cup {[at |-> n, from |-> cur, to |-> spec.schema]}
  BY <1>9, <1>10 DEF Links, Accepted
<1>12. \A l \in Links(t) : l.at \in Nat /\ l.at < n
  BY LinksAreTracked, <1>7 DEF Prefix
<1>13. Emits(fs, t, d, spec, n)
  BY <1>1, <1>3, <1>4, <1>5, <1>6, <1>8, <1>11, <1>12 DEF Emits, Appended
<1>14. QED
  BY <1>13 DEF fs, b, EmittedOf

LEMMA EmittedBacked ==
    ASSUME NEW t \in Files, NEW d \in Files, NEW spec \in BackendSpec, NEW n \in Prefix,
           Backed(t), TrustedHistory(TRUE, t, d), IsNextPrefix(n, d)
    PROVE  Backed(EmittedOf(t, d, spec, n))
<1> DEFINE cur == t[SnapshotPath].schema
           new == DiffSql(d[SnapshotPath].schema, spec.schema)
           fs == EmittedOf(t, d, spec, n)
<1>1. /\ fs[Incremental(n)] = new
      /\ \A p \in HistoryPaths \cup {AcceptedPath} : p # Incremental(n) => fs[p] = t[p]
      /\ fs[SnapshotPath] = SnapshotOf(spec.schema)
      /\ Links(fs) = Links(t) \cup {[at |-> n, from |-> cur, to |-> spec.schema]}
      /\ \A l \in Links(t) : l.at \in Nat /\ l.at < n
  <2>1. Emits(fs, t, d, spec, n)
    BY EmittedFiles
  <2> HIDE DEF fs
  <2>2. QED
    BY <2>1 DEF Emits, Appended
<1>2. SnapshotOf(spec.schema) # Absent
  BY AbsentAssumption DEF Contents, BackendSpec
<1> HIDE DEF fs
<1>3. Recorded(fs) = Recorded(t) /\ fs[AcceptedPath] = t[AcceptedPath]
      /\ fs[InitPath] = t[InitPath]
  <2>1. AcceptedPath # Incremental(n) /\ InitPath # Incremental(n)
    BY PathFacts DEF MigrationPaths
  <2>2. QED
    BY <2>1, <1>1 DEF Recorded, HistoryPaths
<1>4. Chain(Links(fs), t[InitPath].to, spec.schema)
  <2>1. n \in Nat
    BY DEF Prefix
  <2>2. QED
    BY <1>1, <2>1, ChainExtends DEF Backed
<1>5. \A m \in ManualPaths : fs[m] = t[m]
  BY <1>1, PathFacts
<1>6. \A e \in Recorded(fs) : fs[Manual(e.at)] = e.sql
  <2>1. \A e \in Recorded(t) : Manual(e.at) \in ManualPaths
    BY RecordedType, PathFacts DEF Backed
  <2>2. QED
    BY <2>1, <1>3, <1>5 DEF Backed
<1>7. \A m \in IncrementalPaths : fs[m] # Absent => fs[m].type = "incremental"
  <2>1. fs[Incremental(n)].type = "incremental"
    BY <1>1 DEF DiffSql
  <2>2. QED
    BY <2>1, <1>1, PathFacts DEF Backed
<1>8. fs[SnapshotPath].type = "snapshot" /\ fs[SnapshotPath].schema = spec.schema
  BY <1>1 DEF SnapshotOf
<1>9. Backed(fs)
  BY <1>1, <1>2, <1>3, <1>4, <1>5, <1>6, <1>7, <1>8 DEF Backed
<1>10. QED
  BY <1>9 DEF fs

(* A hand-written migration was accepted: history continues at its top by  *)
(* the transition the record binds the migration to.                       *)
LEMMA AcceptedBacked ==
    ASSUME NEW t \in Files, NEW d \in Files, NEW spec \in BackendSpec, NEW m \in ManualPaths,
           Backed(t), TrustedHistory(TRUE, t, d),
           Acceptable(m, t, d, d[SnapshotPath].schema, spec.schema)
    PROVE  Accepts(AcceptedOf(t, d, spec, m), t, d, spec, m)
<1> DEFINE b == CarriedForward(Rendered(spec), t, d)
           cur == t[SnapshotPath].schema
           entry == Accepting(m, d, d[SnapshotPath].schema, spec.schema)
           entries == AcceptedEntries(t, d) \cup {entry}
           record == AcceptedRecord(entries)
           fs == WithSnapshot([b EXCEPT ![m] = d[m], ![AcceptedPath] = record], spec.schema)
           n == m.n
           link == [at |-> n, from |-> cur, to |-> spec.schema]
<1>1. /\ \A p \in HistoryPaths \cup {AcceptedPath} : b[p] = t[p]
      /\ \A p \in CodePaths \cup CustomPaths : b[p] = Rendered(spec)[p]
      /\ b \in Files
      /\ d[SnapshotPath] = t[SnapshotPath] /\ d[AcceptedPath] = t[AcceptedPath]
  BY CarriedHistory
<1> HIDE DEF b
<1>2. /\ m \in Path /\ m \in HistoryPaths /\ m = Manual(n) /\ n \in Prefix
      /\ AcceptedPath \in Path /\ m # AcceptedPath /\ m # SnapshotPath /\ m # InitPath
      /\ m \notin IncrementalPaths
  BY PathFacts DEF MigrationPaths
<1>3. fs[m] = d[m] /\ fs[AcceptedPath] = record
  BY <1>1, <1>2, PathFacts DEF WithSnapshot, Files
<1>4. \A p \in HistoryPaths : p # m => fs[p] = t[p]
  BY <1>1, <1>2, PathFacts DEF WithSnapshot, Files
<1>5. fs[SnapshotPath] = SnapshotOf(spec.schema)
  BY <1>1, PathFacts DEF WithSnapshot, Files
<1>6. \A p \in CodePaths \cup CustomPaths : fs[p] = Rendered(spec)[p]
  BY <1>1, <1>2, PathFacts DEF WithSnapshot, Files
<1>7. cur \in Schema /\ spec.schema \in Schema
  <2>1. t[SnapshotPath] \in Contents /\ t[SnapshotPath].type = "snapshot"
    BY PathFacts DEF Backed, Files, File
  <2>2. QED
    BY <2>1 DEF Contents, SnapshotOf, InitSql, ManualSql, Code, Scaffold, Edited, Torn,
                BackendSpec
<1>8. d[m] \in {ManualSql(cs) : cs \in SUBSET Columns}
  <2>1. d[m] \in Contents /\ d[m].type = "manual"
    BY <1>2 DEF Acceptable, Files, File
  <2>2. QED
    BY <2>1 DEF Contents, SnapshotOf, InitSql, ManualSql, Code, Scaffold, Edited, Torn
<1>9. entry = [at |-> n, sql |-> d[m], from |-> cur, to |-> spec.schema]
  BY <1>1 DEF Accepting
<1>10. entry \in Acceptance
  BY <1>2, <1>7, <1>8, <1>9 DEF Acceptance
<1>11. AcceptedEntries(t, d) = Recorded(t)
  BY <1>1 DEF AcceptedEntries, Recorded
<1>12. entries \subseteq Acceptance
  BY <1>10, <1>11, RecordedType DEF Backed
<1>13. SnapshotOf(spec.schema) # Absent /\ record # Absent
  <2>1. SnapshotOf(spec.schema) \in Contents
    BY <1>7 DEF Contents
  <2>2. record \in Contents
    BY <1>12 DEF Contents, AcceptedRecord
  <2>3. QED
    BY <2>1, <2>2, AbsentAssumption
<1> HIDE DEF fs, entry
<1>14. Recorded(fs) = Recorded(t) \cup {entry}
  BY <1>3, <1>11, <1>13 DEF Recorded, AcceptedRecord
<1>15. Accepted(fs) = Accepted(t) \cup {link}
  <2>1. entry.at = n /\ entry.from = cur /\ entry.to = spec.schema
    BY <1>9
  <2>2. QED
    BY <1>14, <2>1 DEF Accepted
<1>16. Emitted(fs) = Emitted(t)
  <2>1. \A k \in IncrementalPaths : fs[k] = t[k]
    BY <1>2, <1>4, PathFacts
  <2>2. QED
    BY <2>1 DEF Emitted
<1>17. Links(fs) = Links(t) \cup {link}
  BY <1>15, <1>16 DEF Links
<1>18. \A k \in MigrationPaths : t[k] # Absent => k.n < n
  BY DEF Acceptable
<1>19. fs[InitPath] = t[InitPath]
  BY <1>2, <1>4 DEF HistoryPaths
<1>20. Chain(Links(fs), t[InitPath].to, spec.schema)
  <2>1. \A l \in Links(t) : l.at \in Nat /\ l.at < n
    BY LinksAreTracked, <1>18 DEF Prefix
  <2>2. n \in Nat
    BY <1>2 DEF Prefix
  <2> HIDE DEF n, cur
  <2>3. QED
    BY <1>17, <2>1, <2>2, ChainExtends DEF Backed, cur
<1>21. \A k \in ManualPaths : k # m => fs[k] = t[k]
  BY <1>4, PathFacts
<1>22. \A e \in Recorded(t) : Manual(e.at) \in ManualPaths /\ Manual(e.at) # m
  <2>1. \A e \in Recorded(t) : /\ Manual(e.at) \in ManualPaths /\ t[Manual(e.at)] = e.sql
                              /\ e.sql # Absent
    BY RecordedType, PathFacts DEF Backed
  <2>2. t[m] = Absent
    BY DEF Acceptable
  <2>3. QED
    BY <2>1, <2>2
<1>23. \A e \in Recorded(fs) : fs[Manual(e.at)] = e.sql
  <2>1. entry.at = n /\ entry.sql = d[m]
    BY <1>9
  <2>2. \A e \in Recorded(t) : fs[Manual(e.at)] = e.sql
    BY <1>21, <1>22 DEF Backed
  <2>3. QED
    BY <1>14, <2>1, <2>2, <1>2, <1>3
<1>24. \A k \in ManualPaths : fs[k] # Absent => \E e \in Recorded(fs) : e.at = k.n
  <2>1. entry \in Recorded(fs) /\ entry.at = m.n
    BY <1>9, <1>14
  <2>2. ASSUME NEW k \in ManualPaths, fs[k] # Absent, k # m
        PROVE  \E e \in Recorded(fs) : e.at = k.n
    BY <2>2, <1>14, <1>21 DEF Backed
  <2>3. QED
    BY <2>1, <2>2
<1>25. \A k \in IncrementalPaths : fs[k] # Absent => fs[k].type = "incremental"
  BY <1>2, <1>4, PathFacts DEF Backed
<1>26. /\ fs[SnapshotPath].type = "snapshot" /\ fs[SnapshotPath].schema = spec.schema
       /\ fs[AcceptedPath].type = "accepted"
  BY <1>3, <1>5 DEF SnapshotOf, AcceptedRecord
<1>27. Backed(fs)
  BY <1>5, <1>13, <1>19, <1>20, <1>23, <1>24, <1>25, <1>26 DEF Backed
<1>28. \A l \in Links(t) : l.at \in Nat /\ l.at < n
  BY LinksAreTracked, <1>18 DEF Prefix
<1>29. fs = AcceptedOf(t, d, spec, m) /\ entries = EntriesOf(t, d, spec, m)
  BY DEF fs, b, entry, AcceptedOf, EntriesOf
<1> HIDE DEF entries, cur
<1>30. Accepts(fs, t, d, spec, m)
  BY <1>1, <1>3, <1>4, <1>5, <1>12, <1>17, <1>27, <1>28, <1>29, <1>6 DEF Accepts, Appended, cur
<1>31. QED
  BY <1>29, <1>30

-----------------------------------------------------------------------------
(* Typing of what a run computes.                                          *)
LEMMA RenderedFiles ==
    ASSUME NEW spec \in BackendSpec
    PROVE  Rendered(spec) \in Files
<1>1. \A p \in Path : Rendered(spec)[p] \in File
  <2> SUFFICES ASSUME NEW p \in Path PROVE Rendered(spec)[p] \in File
    OBVIOUS
  <2>1. InitSql(spec.schema) \in File /\ Scaffold \in File /\ Absent \in File
    BY DEF File, Contents, BackendSpec
  <2>2. \A v \in Versions : Code(v) \in File
    BY DEF File, Contents
  <2>3. p \in CodePaths => p.n \in CodeFiles
    BY DEF CodePaths
  <2>4. p \in CodePaths => spec.code[p.n] \in Versions \cup {Absent}
    BY <2>3 DEF BackendSpec
  <2>5. QED
    BY <2>1, <2>2, <2>4 DEF Rendered
<1>2. QED
  BY <1>1 DEF Files, Rendered

LEMMA SnapshotFiles ==
    ASSUME NEW fs \in Files, NEW s \in Schema
    PROVE  WithSnapshot(fs, s) \in Files
<1>1. SnapshotOf(s) \in File
  BY DEF File, Contents
<1>2. QED
  BY <1>1 DEF WithSnapshot, Files

LEMMA CarriedFiles ==
    ASSUME NEW fs \in Files, NEW t \in Files, NEW d \in Files
    PROVE  CarriedForward(fs, t, d) \in Files
  BY DEF CarriedForward, Files

LEMMA SnapshotSchema ==
    ASSUME NEW t \in Files, t[SnapshotPath] # Absent, t[SnapshotPath].type = "snapshot"
    PROVE  t[SnapshotPath].schema \in Schema
<1>1. t[SnapshotPath] \in Contents
  BY PathFacts DEF Files, File
<1>2. QED
  BY <1>1 DEF Contents, SnapshotOf, InitSql, ManualSql, Code, Scaffold, Edited, Torn

LEMMA EditTypes ==
    ASSUME NEW p \in Path, NEW c \in EditsOf(p)
    PROVE  c \in File
<1>1. \A cs \in SUBSET Columns : ManualSql(cs) \in File
  BY DEF File, Contents
<1>2. \A q \in Specs : SnapshotOf(q.schema) \in File
  BY GeneratorAssumption DEF File, Contents, BackendSpec
<1>3. Edited \in File /\ Absent \in File
  BY DEF File, Contents
<1>4. QED
  BY <1>1, <1>2, <1>3 DEF EditsOf

-----------------------------------------------------------------------------
(* The inductive invariant.  A run that found a manifest read a backed     *)
(* one, one that found none read nothing, and what a run that will write   *)
(* has rendered is backed.  That last part is what makes the invariant     *)
(* inductive: Finish turns the files of the run into the manifest.         *)
RunsBacked ==
    \A r \in Runs :
        /\ pc[r] # "idle" => request[r] \in Request
        /\ pc[r] = "adjust" /\ known[r] => Backed(tracked[r])
        /\ pc[r] \in {"plan", "write"} /\ ~request[r].options.dryRun => Backed(files[r])
        /\ pc[r] = "write" => ~request[r].options.dryRun

IInv == TypeOK /\ HistoryBacksSnapshot /\ RunsBacked

LEMMA RequestTypes ==
    ASSUME NEW q \in Request
    PROVE  q.spec \in Specs /\ q.spec \in BackendSpec /\ q.spec.schema \in Schema
             /\ q.accept \in ManualPaths \cup {NoPath} /\ q.options.dryRun \in BOOLEAN
  BY GeneratorAssumption DEF Request, BackendSpec

LEMMA InitIInv == Init => IInv
<1> SUFFICES ASSUME Init PROVE IInv
  OBVIOUS
<1>1. NoFiles \in Files
  BY DEF NoFiles, Files, File
<1>2. TypeOK
  <2>1. NoManifest \in Manifest
    BY <1>1 DEF NoManifest, Manifest
  <2>2. disk \in Files /\ manifest \in Manifest
    BY <1>1, <2>1 DEF Init
  <2>3. vcs \in [disk: Files, manifest: Manifest, settled: Specs \cup {NoSpec}]
    BY <1>1, <2>1 DEF Init
  <2>4. /\ pc \in [Runs -> {"idle", "adjust", "plan", "write"}]
        /\ request \in [Runs -> Request \cup {NoRequest}]
        /\ known \in [Runs -> BOOLEAN] /\ tracked \in [Runs -> Files]
        /\ files \in [Runs -> Files] /\ todo \in [Runs -> SUBSET Path]
    BY <1>1 DEF Init
  <2>5. disturbances \in 0 .. MaxDisturbances
    BY GeneratorAssumption DEF Init
  <2>6. /\ verdict \in Verdicts /\ settled \in Specs \cup {NoSpec}
        /\ dirty \in BOOLEAN /\ stage \in Stages
    BY DEF Init, Verdicts, Stages
  <2>7. QED
    BY <2>2, <2>3, <2>4, <2>5, <2>6 DEF TypeOK
<1>3. HistoryBacksSnapshot /\ RunsBacked
  BY DEF Init, HistoryBacksSnapshot, RunsBacked, NoManifest
<1>4. QED
  BY <1>2, <1>3 DEF IInv

(* A run that stops leaves nothing that has to be backed.                  *)
LEMMA StopKeeps ==
    ASSUME NEW r \in Runs, IInv, Stop(r)
    PROVE  /\ RunsBacked'
           /\ pc' \in [Runs -> {"idle", "adjust", "plan", "write"}]
           /\ request' \in [Runs -> Request \cup {NoRequest}]
           /\ known' \in [Runs -> BOOLEAN] /\ tracked' \in [Runs -> Files]
           /\ files' \in [Runs -> Files] /\ todo' \in [Runs -> SUBSET Path]
<1>1. NoFiles \in Files
  BY DEF NoFiles, Files, File
<1>2. /\ pc' \in [Runs -> {"idle", "adjust", "plan", "write"}]
      /\ request' \in [Runs -> Request \cup {NoRequest}]
      /\ known' \in [Runs -> BOOLEAN] /\ tracked' \in [Runs -> Files]
      /\ files' \in [Runs -> Files] /\ todo' \in [Runs -> SUBSET Path]
  BY <1>1 DEF IInv, TypeOK, Stop
<1>3. RunsBacked'
  BY DEF IInv, TypeOK, RunsBacked, Stop
<1>4. QED
  BY <1>2, <1>3

LEMMA RefuseKeeps ==
    ASSUME NEW r \in Runs, NEW why \in Verdicts, IInv, Refuse(r, why)
    PROVE  IInv'
<1>1. RunsBacked' /\ TypeOK'
  BY StopKeeps DEF Refuse, IInv, TypeOK, projectVars
<1>2. HistoryBacksSnapshot'
  BY DEF Refuse, IInv, HistoryBacksSnapshot, projectVars
<1>3. QED
  BY <1>1, <1>2 DEF IInv

LEMMA AdjustedKeeps ==
    ASSUME NEW r \in Runs, NEW fs \in Files, IInv, pc[r] = "adjust", Backed(fs), Adjusted(r, fs)
    PROVE  IInv'
<1>1. TypeOK'
  BY DEF Adjusted, IInv, TypeOK, projectVars, ghostVars
<1>2. RunsBacked'
  BY DEF Adjusted, IInv, TypeOK, RunsBacked
<1>3. HistoryBacksSnapshot'
  BY DEF Adjusted, IInv, HistoryBacksSnapshot, projectVars
<1>4. QED
  BY <1>1, <1>2, <1>3 DEF IInv

-----------------------------------------------------------------------------
(* Every step of a run keeps the invariant.                                *)
LEMMA StartKeeps ==
    ASSUME NEW r \in Runs, NEW q \in Requests, IInv,
           Start(r, q) \/ StartRefused(r, q) \/ PreviewUntracked(r, q)
    PROVE  IInv'
<1>0. q \in Request
  BY GeneratorAssumption
<1>1. CASE Start(r, q)
  <2>1. manifest.files \in Files
    BY DEF IInv, TypeOK, Manifest
  <2>2. TypeOK'
    BY <1>0, <1>1, <2>1 DEF Start, IInv, TypeOK, projectVars, Verdicts
  <2>3. RunsBacked'
    BY <1>0, <1>1 DEF Start, IInv, TypeOK, RunsBacked, HistoryBacksSnapshot
  <2>4. HistoryBacksSnapshot'
    BY <1>1 DEF Start, IInv, HistoryBacksSnapshot, projectVars
  <2>5. QED
    BY <2>2, <2>3, <2>4 DEF IInv
<1>2. CASE StartRefused(r, q)
  <2>1. TypeOK'
    BY <1>2 DEF StartRefused, IInv, TypeOK, projectVars, runVars, Verdicts
  <2>2. RunsBacked' /\ HistoryBacksSnapshot'
    BY <1>2 DEF StartRefused, IInv, RunsBacked, HistoryBacksSnapshot, projectVars, runVars
  <2>3. QED
    BY <2>1, <2>2 DEF IInv
<1>3. CASE PreviewUntracked(r, q)
  <2>1. Rendered(q.spec) \in Files
    BY <1>0, RequestTypes, RenderedFiles
  <2>2. TypeOK'
    BY <1>0, <1>3, <2>1 DEF PreviewUntracked, IInv, TypeOK, projectVars, Verdicts
  <2>3. RunsBacked'
    BY <1>0, <1>3 DEF PreviewUntracked, IInv, TypeOK, RunsBacked
  <2>4. HistoryBacksSnapshot'
    BY <1>3 DEF PreviewUntracked, IInv, HistoryBacksSnapshot, projectVars
  <2>5. QED
    BY <2>2, <2>3, <2>4 DEF IInv
<1>4. QED
  BY <1>1, <1>2, <1>3

LEMMA AdjustKeeps ==
    ASSUME NEW r \in Runs, IInv, Adjust(r)
    PROVE  IInv'
<1> DEFINE spec == request[r].spec
           b == Base(r)
<1>1. pc[r] = "adjust"
  BY DEF Adjust, Begin, KeepHistory, AcceptManual, AdjustRefused, EmitMigration
<1>2. request[r] \in Request
  BY <1>1 DEF IInv, RunsBacked
<1>3. spec \in BackendSpec /\ spec.schema \in Schema
  BY <1>2, RequestTypes
<1>4. disk \in Files /\ tracked[r] \in Files
  BY DEF IInv, TypeOK
<1>5. Rendered(spec) \in Files
  BY <1>3, RenderedFiles
<1>6. b \in Files
  BY <1>4, <1>5, CarriedFiles DEF Base
<1>7. Trusted(r) => TrustedHistory(TRUE, tracked[r], disk) /\ Backed(tracked[r])
  BY <1>1 DEF Trusted, TrustedHistory, IInv, RunsBacked, TypeOK
<1>8. Trusted(r) => Current(r) \in Schema
  <2>1. Trusted(r) => disk[SnapshotPath] # Absent /\ disk[SnapshotPath].type = "snapshot"
    BY DEF Trusted, TrustedHistory
  <2>2. QED
    BY <2>1, <1>4, SnapshotSchema DEF Current
<1>9. CASE Begin(r)
  <2>1. Backed(WithSnapshot(Rendered(spec), spec.schema))
    BY <1>3, FirstBacked
  <2>2. WithSnapshot(Rendered(spec), spec.schema) \in Files
    BY <1>3, <1>5, SnapshotFiles
  <2>3. QED
    BY <1>9, <1>1, <2>1, <2>2, AdjustedKeeps DEF Begin, Wanted
<1>10. CASE KeepHistory(r)
  <2>1. Backed(WithSnapshot(b, spec.schema))
    BY <1>10, <1>3, <1>4, <1>7, KeptBacked DEF KeepHistory, CanKeep, Current, Wanted, Base, KeptOf
  <2>2. WithSnapshot(b, spec.schema) \in Files
    BY <1>3, <1>6, SnapshotFiles
  <2>3. QED
    BY <1>10, <1>1, <2>1, <2>2, AdjustedKeeps DEF KeepHistory, Wanted
<1>11. ASSUME NEW n \in Prefix, EmitMigration(r, n)
       PROVE  IInv'
  <2> DEFINE new == DiffSql(Current(r), Wanted(r))
             fs == WithSnapshot([b EXCEPT ![Incremental(n)] = new], Wanted(r))
  <2>1. Backed(fs)
    BY <1>11, <1>3, <1>4, <1>7, EmittedBacked
       DEF EmitMigration, CanEmit, Current, Wanted, Base, EmittedOf
  <2>2. new \in File
    BY <1>11, <1>3, <1>8 DEF EmitMigration, CanEmit, DiffSql, File, Contents, Wanted
  <2>3. [b EXCEPT ![Incremental(n)] = new] \in Files
    BY <1>6, <2>2 DEF Files
  <2>4. fs \in Files
    BY <2>3, <1>3, SnapshotFiles DEF Wanted
  <2>5. QED
    BY <1>11, <1>1, <2>1, <2>4, AdjustedKeeps DEF EmitMigration
<1>12. CASE AcceptManual(r)
  <2> DEFINE m == request[r].accept
             entries == AcceptedEntries(tracked[r], disk)
                          \cup {Accepting(m, disk, Current(r), Wanted(r))}
             record == AcceptedRecord(entries)
             edited == [b EXCEPT ![m] = disk[m], ![AcceptedPath] = record]
             fs == WithSnapshot(edited, Wanted(r))
  <2>1. m \in ManualPaths
    BY <1>12 DEF AcceptManual, CanAccept, Acceptable
  <2>2. Backed(fs) /\ entries \subseteq Acceptance
    <3>1. /\ Trusted(r) /\ Acceptable(m, tracked[r], disk, Current(r), Wanted(r))
      BY <1>12 DEF AcceptManual, CanAccept
    <3>2. Accepts(AcceptedOf(tracked[r], disk, spec, m), tracked[r], disk, spec, m)
      BY <3>1, <1>3, <1>4, <1>7, <2>1, AcceptedBacked DEF Current, Wanted
    <3>3. /\ fs = AcceptedOf(tracked[r], disk, spec, m)
          /\ entries = EntriesOf(tracked[r], disk, spec, m)
      BY DEF Current, Wanted, Base, AcceptedOf, EntriesOf
    <3>4. QED
      BY <3>2, <3>3 DEF Accepts
  <2>3. record \in File
    BY <2>2 DEF AcceptedRecord, File, Contents
  <2>4. disk[m] \in File
    BY <1>4, <2>1, PathFacts DEF Files
  <2>5. edited \in Files
    BY <1>6, <2>3, <2>4 DEF Files
  <2>6. fs \in Files
    BY <2>5, <1>3, SnapshotFiles DEF Wanted
  <2>7. Adjusted(r, fs)
    BY <1>12 DEF AcceptManual
  <2>8. QED
    BY <1>1, <2>2, <2>6, <2>7, AdjustedKeeps
<1>13. CASE AdjustRefused(r)
  BY <1>13, RefuseKeeps DEF AdjustRefused, Verdicts
<1>14. QED
  BY <1>9, <1>10, <1>11, <1>12, <1>13 DEF Adjust

LEMMA PlanKeeps ==
    ASSUME NEW r \in Runs, IInv, Preview(r) \/ PlanRefused(r) \/ Plan(r)
    PROVE  IInv'
<1>1. CASE Preview(r) \/ PlanRefused(r)
  BY <1>1, RefuseKeeps DEF Preview, PlanRefused, Verdicts
<1>2. CASE Plan(r)
  <2>1. Touched(files[r], disk, tracked[r], request[r].options.force) \subseteq Path
    BY DEF Touched, Creates, Updates, Deletes, Foreign, RenderedGenerated, Present
  <2>2. TypeOK'
    BY <1>2, <2>1 DEF Plan, IInv, TypeOK, projectVars, ghostVars
  <2>3. RunsBacked'
    BY <1>2 DEF Plan, IInv, TypeOK, RunsBacked
  <2>4. HistoryBacksSnapshot'
    BY <1>2 DEF Plan, IInv, HistoryBacksSnapshot, projectVars
  <2>5. QED
    BY <2>2, <2>3, <2>4 DEF IInv
<1>3. QED
  BY <1>1, <1>2

LEMMA WriteKeeps ==
    ASSUME NEW r \in Runs, NEW p \in Path, IInv, Write(r, p) \/ CrashWriting(r, p)
    PROVE  IInv'
<1>1. CASE Write(r, p)
  <2>1. files[r][p] \in File
    BY DEF IInv, TypeOK, Files
  <2>2. disk' \in Files
    BY <1>1, <2>1 DEF Write, IInv, TypeOK, Files
  <2>3. TypeOK'
    BY <1>1, <2>2 DEF Write, IInv, TypeOK
  <2>4. RunsBacked' /\ HistoryBacksSnapshot'
    BY <1>1 DEF Write, IInv, RunsBacked, HistoryBacksSnapshot
  <2>5. QED
    BY <2>3, <2>4 DEF IInv
<1>2. CASE CrashWriting(r, p)
  <2>1. Torn \in File
    BY DEF File, Contents
  <2>2. disk' \in Files
    BY <1>2, <2>1 DEF CrashWriting, IInv, TypeOK, Files
  <2>3. disturbances' \in 0 .. MaxDisturbances
    BY <1>2, GeneratorAssumption DEF CrashWriting, Disturb, IInv, TypeOK
  <2>4. RunsBacked' /\ TypeOK'
    BY <1>2, <2>2, <2>3, StopKeeps
       DEF CrashWriting, Interrupted, IInv, TypeOK, Verdicts, Stages
  <2>5. HistoryBacksSnapshot'
    BY <1>2 DEF CrashWriting, IInv, HistoryBacksSnapshot
  <2>6. QED
    BY <2>4, <2>5 DEF IInv
<1>3. QED
  BY <1>1, <1>2

LEMMA EndKeeps ==
    ASSUME NEW r \in Runs, IInv, Finish(r) \/ Crash(r) \/ CrashFinishing(r)
    PROVE  IInv'
<1>1. CASE Finish(r)
  <2>1. Backed(files[r]) /\ files[r] \in Files /\ request[r].spec \in Specs
    BY <1>1, RequestTypes DEF Finish, IInv, RunsBacked, TypeOK
  <2>2. manifest' \in Manifest
    BY <1>1, <2>1 DEF Finish, ManifestOf, Manifest
  <2>3. RunsBacked' /\ TypeOK'
    BY <1>1, <2>1, <2>2, StopKeeps DEF Finish, IInv, TypeOK, Verdicts, Stages
  <2>4. HistoryBacksSnapshot'
    BY <1>1, <2>1 DEF Finish, ManifestOf, IInv, HistoryBacksSnapshot
  <2>5. QED
    BY <2>3, <2>4 DEF IInv
<1>2. ASSUME Disturb
      PROVE  disturbances' \in 0 .. MaxDisturbances
  BY <1>2, GeneratorAssumption DEF Disturb, IInv, TypeOK
<1>3. CASE Crash(r)
  <2>1. RunsBacked' /\ TypeOK'
    BY <1>2, <1>3, StopKeeps DEF Crash, Interrupted, IInv, TypeOK, projectVars, Verdicts, Stages
  <2>2. HistoryBacksSnapshot'
    BY <1>3 DEF Crash, IInv, HistoryBacksSnapshot, projectVars
  <2>3. QED
    BY <2>1, <2>2 DEF IInv
<1>4. CASE CrashFinishing(r)
  <2>1. NoFiles \in Files
    BY DEF NoFiles, Files, File
  <2>2. BrokenManifest \in Manifest /\ BrokenManifest.status # "present"
    BY <2>1 DEF BrokenManifest, Manifest
  <2>3. RunsBacked' /\ TypeOK'
    BY <1>2, <1>4, <2>2, StopKeeps
       DEF CrashFinishing, Interrupted, IInv, TypeOK, Verdicts, Stages
  <2>4. HistoryBacksSnapshot'
    BY <1>4, <2>2 DEF CrashFinishing, IInv, HistoryBacksSnapshot
  <2>5. QED
    BY <2>3, <2>4 DEF IInv
<1>5. QED
  BY <1>1, <1>3, <1>4

(* The developer cannot break it either: no edit makes a manifest.         *)
LEMMA DeveloperKeeps ==
    ASSUME IInv, Developer
    PROVE  IInv'
<1>1. NoFiles \in Files
  BY DEF NoFiles, Files, File
<1>2. ASSUME Disturb PROVE disturbances' \in 0 .. MaxDisturbances
  BY <1>2, GeneratorAssumption DEF Disturb, IInv, TypeOK
<1>3. ASSUME UNCHANGED runVars PROVE RunsBacked'
  BY <1>3 DEF runVars, IInv, RunsBacked
<1>4. ASSUME NEW p \in Path, NEW c \in EditsOf(p), Edit(p, c)
      PROVE  IInv'
  <2>1. disk' \in Files
    BY <1>4, EditTypes DEF Edit, IInv, TypeOK, Files
  <2>2. TypeOK'
    BY <1>2, <1>4, <2>1 DEF Edit, IInv, TypeOK, runVars, Stages
  <2>3. RunsBacked' /\ HistoryBacksSnapshot'
    BY <1>3, <1>4 DEF Edit, IInv, HistoryBacksSnapshot
  <2>4. QED
    BY <2>2, <2>3 DEF IInv
<1>5. ASSUME NEW m \in {NoManifest, BrokenManifest}, DamageManifest(m)
      PROVE  IInv'
  <2>1. m \in Manifest /\ m.status # "present"
    BY <1>1 DEF NoManifest, BrokenManifest, Manifest
  <2>2. TypeOK'
    BY <1>2, <1>5, <2>1 DEF DamageManifest, IInv, TypeOK, runVars, Stages
  <2>3. RunsBacked' /\ HistoryBacksSnapshot'
    BY <1>3, <1>5, <2>1 DEF DamageManifest, IInv, HistoryBacksSnapshot
  <2>4. QED
    BY <2>2, <2>3 DEF IInv
<1>6. CASE Commit
  <2>1. TypeOK'
    BY <1>6 DEF Commit, IInv, TypeOK, projectVars, runVars, Stages
  <2>2. RunsBacked' /\ HistoryBacksSnapshot'
    BY <1>3, <1>6 DEF Commit, IInv, HistoryBacksSnapshot, projectVars
  <2>3. QED
    BY <2>1, <2>2 DEF IInv
<1>7. CASE Checkout
  <2>1. vcs.disk \in Files /\ vcs.manifest \in Manifest /\ disk \in Files
    BY DEF IInv, TypeOK
  <2>2. disk' \in Files
    BY <1>7, <2>1 DEF Checkout, Files
  <2>3. TypeOK'
    BY <1>2, <1>7, <2>1, <2>2 DEF Checkout, IInv, TypeOK, runVars, Stages
  <2>4. RunsBacked' /\ HistoryBacksSnapshot'
    BY <1>3, <1>7 DEF Checkout, IInv, HistoryBacksSnapshot
  <2>5. QED
    BY <2>3, <2>4 DEF IInv
<1>8. CASE RestoreAll
  <2>1. vcs.disk \in Files /\ vcs.manifest \in Manifest /\ vcs.settled \in Specs \cup {NoSpec}
    BY DEF IInv, TypeOK
  <2>2. TypeOK'
    BY <1>2, <1>8, <2>1 DEF RestoreAll, IInv, TypeOK, runVars, Stages
  <2>3. RunsBacked' /\ HistoryBacksSnapshot'
    BY <1>3, <1>8 DEF RestoreAll, IInv, HistoryBacksSnapshot
  <2>4. QED
    BY <2>2, <2>3 DEF IInv
<1>9. QED
  BY <1>4, <1>5, <1>6, <1>7, <1>8 DEF Developer

(* The invariant is inductive.                                             *)
LEMMA NextIInv == IInv /\ [Next]_vars => IInv'
<1> SUFFICES ASSUME IInv, [Next]_vars PROVE IInv'
  OBVIOUS
<1>1. CASE Developer
  BY <1>1, DeveloperKeeps
<1>2. ASSUME NEW r \in Runs, RunStep(r)
      PROVE  IInv'
  BY <1>2, StartKeeps, AdjustKeeps, PlanKeeps, WriteKeeps, EndKeeps DEF RunStep
<1>3. CASE UNCHANGED vars
  BY <1>3 DEF vars, projectVars, runVars, ghostVars, IInv, TypeOK, HistoryBacksSnapshot,
              RunsBacked
<1>4. QED
  BY <1>1, <1>2, <1>3 DEF Next

LEMMA AlwaysIInv == Spec => []IInv
  BY InitIInv, NextIInv, PTL DEF Spec

(* Every state of the generator, its files and its runs is well-typed:     *)
(* generateBackend and everything it calls.                                *)
THEOREM TypeCorrect == Spec => []TypeOK
<1>1. IInv => TypeOK
  BY DEF IInv
<1>2. QED
  BY <1>1, AlwaysIInv, PTL

(* Whatever is edited, torn, restored, deleted or generated by concurrent  *)
(* runs, the manifest on disk and the one in version control vouch for a   *)
(* schema snapshot that the migrations they track build, in order.         *)
(* applyIncrementalMigrations, acceptManualTransition, generateBackend.    *)
THEOREM HistoryIsBacked == Spec => []HistoryBacksSnapshot
<1>1. IInv => HistoryBacksSnapshot
  BY DEF IInv
<1>2. QED
  BY <1>1, AlwaysIInv, PTL

-----------------------------------------------------------------------------
(* One run at a time: the assumption of everything below.  Two concurrent  *)
(* runs do overwrite each other's files and each other's manifest.         *)
OneRun == \A r, s \in Runs : r = s

(* The second inductive invariant.  What a run renders or a manifest lists *)
(* is never something a developer made, hand-written migrations aside.     *)
Genuine(fs) == \A p \in Path : fs[p] # Absent =>
                  fs[p].type # "edited" /\ (fs[p].type = "manual" => p \in HistoryPaths)

(* A manifest that cannot be read tracks nothing.                          *)
Whole(m) == Genuine(m.files) /\ (m.status # "present" => m.files = NoFiles)

Real(r) == pc[r] \in {"plan", "write"} /\ ~request[r].options.dryRun
Known(r) == /\ pc[r] = "idle" => tracked[r] = NoFiles /\ ~known[r]
            /\ pc[r] # "write" => todo[r] = {}
            /\ Genuine(tracked[r]) /\ Genuine(files[r])

(* Between its start and its end a run has the manifest to itself.         *)
InStep(r) == pc[r] # "idle" => /\ manifest.files = tracked[r]
                               /\ known[r] <=> manifest.status = "present"
                               /\ ~request[r].options.dryRun => manifest.status # "invalid"
                               /\ verdict = "running"

(* Recorded history is rendered as it was, ...                             *)
Frozen(r) == pc[r] \in {"plan", "write"} =>
                \A m \in HistoryPaths : tracked[r][m] # Absent => files[r][m] = tracked[r][m]

(* ... the rest as the specification has it.                               *)
AsAsked(r) == Real(r) =>
    /\ files[r][SnapshotPath] = SnapshotOf(Wanted(r))
    /\ \A p \in CodePaths \cup CustomPaths : files[r][p] = Rendered(request[r].spec)[p]

(* A migration that is not there yet comes after all others.               *)
Appends(r) == Real(r) /\ ~dirty =>
    /\ \A m \in MigrationPaths : files[r][m] # Absent /\ disk[m] = Absent =>
          /\ m \in IncrementalPaths
          /\ \A k \in MigrationPaths :
                k # m /\ (disk[k] # Absent \/ files[r][k] # Absent) => k.n < m.n
    /\ \A m \in IncrementalPaths : files[r][m] = Absent => disk[m] = Absent

(* The plan of an undisturbed run is up to date: what is on it has to be   *)
(* done, and what is not is as rendered.                                   *)
Done(r, p) == IF p \in CustomPaths THEN disk[p] # Absent
              ELSE files[r][p] # Absent => disk[p] = files[r][p]
ToTouch(r) == Touched(files[r], disk, tracked[r], request[r].options.force)
Planned(r) == pc[r] = "write" /\ ~dirty =>
    /\ todo[r] \subseteq ToTouch(r)
    /\ \A p \in Path : p \in todo[r] \/ Done(r, p)

(* A complete generation of specification s.                               *)
Steady(d, m, s) ==
    s # NoSpec =>
        /\ m.status = "present"
        /\ m.files[SnapshotPath] = SnapshotOf(s.schema)
        /\ \A p \in CodePaths \cup CustomPaths : m.files[p] = Rendered(s)[p]
        /\ \A p \in CustomPaths : d[p] # Absent
        /\ \A p \in Path \ CustomPaths : m.files[p] # Absent => d[p] = m.files[p]
        /\ \A p \in IncrementalPaths : d[p] = m.files[p]

(* Generated once more, it is rendered as it is.                           *)
Again(r) == Regenerates(r) /\ pc[r] \in {"plan", "write"} =>
    /\ files[r] = manifest.files /\ disk[AcceptedPath] = manifest.files[AcceptedPath]
    /\ todo[r] = {}

(* The ledger a run is about to write: a new one, the old one, or the old  *)
(* one with one more transition.                                           *)
Grown(old, new, s) ==
    /\ old.top # s
    /\ \E n \in Prefix : /\ \A l \in old.links : l.at < n
                         /\ new = Abstract!Extended(old, n, s)
NextLedger(r) == Real(r) =>
    /\ ~known[r] => LedgerOf(ManifestOf(files[r])) = Abstract!Start(Wanted(r))
    /\ known[r] => \/ LedgerOf(ManifestOf(files[r])) = LedgerOf(manifest)
                   \/ Grown(LedgerOf(manifest), LedgerOf(ManifestOf(files[r])), Wanted(r))

RunInv(r) == /\ Known(r) /\ InStep(r) /\ Frozen(r) /\ AsAsked(r) /\ Appends(r) /\ Planned(r)
             /\ Again(r) /\ NextLedger(r)

(* What holds of the project, whatever runs on it.                         *)
World == /\ Whole(manifest) /\ Whole(vcs.manifest)
         /\ vcs.manifest # NoManifest => vcs.manifest.status = "present"
         /\ Steady(disk, manifest, settled) /\ Steady(vcs.disk, vcs.manifest, vcs.settled)

OneInv == World /\ \A r \in Runs : RunInv(r)
Inv == IInv /\ OneInv

-----------------------------------------------------------------------------
(* What an empty tree, a fresh rendering and the plan are.                 *)
LEMMA NothingIsGenuine == Genuine(NoFiles)
  BY DEF Genuine, NoFiles

LEMMA RenderedGenuine ==
    ASSUME NEW spec \in BackendSpec
    PROVE  /\ Genuine(WithSnapshot(Rendered(spec), spec.schema)) /\ Genuine(Rendered(spec))
           /\ \A p \in CustomPaths : Rendered(spec)[p] = Scaffold /\ Scaffold # Absent
           /\ \A p \in CodePaths \cup CustomPaths : Rendered(spec)[p] # Absent =>
                 Rendered(spec)[p].type \in {"code", "scaffold"}
<1>1. ASSUME NEW p \in Path, Rendered(spec)[p] # Absent
      PROVE  Rendered(spec)[p].type \in {"init", "code", "scaffold"}
  BY <1>1 DEF Rendered, InitSql, Code, Scaffold
<1>2. Genuine(Rendered(spec))
  BY <1>1 DEF Genuine
<1>3. Genuine(WithSnapshot(Rendered(spec), spec.schema))
  BY <1>1, PathFacts DEF Genuine, WithSnapshot, SnapshotOf, Rendered
<1>4. \A p \in CustomPaths : Rendered(spec)[p] = Scaffold /\ Scaffold # Absent
  <2>1. Scaffold # Absent
    BY AbsentAssumption DEF Contents
  <2>2. \A p \in CustomPaths : p # InitPath /\ p \notin CodePaths /\ p \in Path
    BY PathFacts DEF CodePaths, CustomPaths, InitPath
  <2>3. QED
    BY <2>1, <2>2 DEF Rendered
<1>5. \A p \in CodePaths \cup CustomPaths : Rendered(spec)[p] # Absent =>
         Rendered(spec)[p].type \in {"code", "scaffold"}
  <2>1. \A p \in CodePaths : Rendered(spec)[p] # Absent => Rendered(spec)[p].type = "code"
    <3>1. \A p \in CodePaths : p # InitPath /\ p \in Path /\ p \notin CustomPaths
      BY PathFacts DEF HistoryPaths, CodePaths, CustomPaths
    <3>2. \A p \in CodePaths : Rendered(spec)[p] \in {Absent, Code(spec.code[p.n])}
      BY <3>1 DEF Rendered
    <3>3. QED
      BY <3>2 DEF Code
  <2>2. QED
    BY <1>4, <2>1 DEF Scaffold
<1>6. QED
  BY <1>2, <1>3, <1>4, <1>5

(* A plan is made path by path.                                            *)
LEMMA TouchedLocal ==
    ASSUME NEW fs, NEW d, NEW e, NEW t, NEW force, NEW p, d[p] = e[p],
           p \in Touched(fs, d, t, force)
    PROVE  p \in Touched(fs, e, t, force)
  BY DEF Touched, Creates, Updates, Deletes, Foreign, Adopted, RenderedGenerated, Present

(* Files that are on disk as tracked and rendered are left alone.          *)
LEMMA UnchangedUntouched ==
    ASSUME NEW fs, NEW d, NEW t, NEW force, NEW p, fs[p] # Absent, d[p] = fs[p], t[p] = fs[p]
    PROVE  p \notin Touched(fs, d, t, force)
  BY DEF Touched, Creates, Updates, Deletes, Foreign, Adopted, RenderedGenerated, Present

(* A complete generation that is rendered as it is gives nothing to do.    *)
LEMMA NothingToTouch ==
    ASSUME NEW d, NEW m, NEW s, NEW force, s # NoSpec, Steady(d, m, s)
    PROVE  /\ Touched(m.files, d, m.files, force) = {}
           /\ Conflicts(m.files, d, m.files, force) = {}
<1>1. Foreign(m.files, d, m.files) = {}
  BY DEF Steady, Foreign, RenderedGenerated, Present
<1>2. Creates(m.files, d) = {}
  BY DEF Steady, Creates, Present
<1>3. Deletes(m.files, d, m.files, force) = {}
  BY DEF Deletes
<1>4. Updates(m.files, d, m.files, force) = {}
  BY <1>1 DEF Updates
<1>5. QED
  BY <1>1, <1>2, <1>3, <1>4 DEF Touched, Conflicts

(* What is not on a plan without conflicts is as rendered.                 *)
LEMMA UntouchedIsDone ==
    ASSUME NEW fs, NEW d, NEW t, NEW force \in BOOLEAN, NEW p \in Path, fs[p] # Absent,
           Conflicts(fs, d, t, force) = {}, p \notin Touched(fs, d, t, force)
    PROVE  IF p \in CustomPaths THEN d[p] # Absent ELSE d[p] = fs[p]
<1>1. d[p] # Absent
  BY DEF Touched, Creates, Present
<1>2. CASE p \notin CustomPaths /\ d[p] # fs[p]
  <2>1. p \in RenderedGenerated(fs) /\ d[p] # t[p]
    BY <1>1, <1>2 DEF RenderedGenerated, Present, Touched, Updates
  <2>2. p \in Foreign(fs, d, t)
    BY <1>1, <1>2, <2>1 DEF Foreign, Adopted
  <2>3. QED
    BY <2>2 DEF Conflicts, Touched, Updates
<1>3. QED
  BY <1>1, <1>2

(* What is rendered from genuine files is genuine.                         *)
LEMMA GenuineRendering ==
    ASSUME NEW spec \in BackendSpec, NEW t, Genuine(t), NEW fs,
           fs[SnapshotPath] = SnapshotOf(spec.schema),
           \A p \in CodePaths \cup CustomPaths : fs[p] = Rendered(spec)[p],
           \A p \in HistoryPaths \cup {AcceptedPath} :
              \/ fs[p] = t[p]
              \/ fs[p].type \in {"incremental", "accepted"}
              \/ p \in HistoryPaths /\ fs[p].type = "manual"
    PROVE  Genuine(fs)
<1> SUFFICES ASSUME NEW p \in Path, fs[p] # Absent
             PROVE  fs[p].type # "edited" /\ (fs[p].type = "manual" => p \in HistoryPaths)
  BY DEF Genuine
<1>1. CASE p = SnapshotPath
  BY <1>1 DEF SnapshotOf
<1>2. CASE p \in CodePaths \cup CustomPaths
  BY <1>2, RenderedGenuine
<1>3. CASE p \in HistoryPaths \cup {AcceptedPath}
  BY <1>3 DEF Genuine
<1>4. QED
  BY <1>1, <1>2, <1>3 DEF Path

-----------------------------------------------------------------------------
(* The ledger of what each adjustment renders.                             *)
LEMMA FirstLedger ==
    ASSUME NEW spec \in BackendSpec
    PROVE  LET fs == WithSnapshot(Rendered(spec), spec.schema)
           IN  /\ LedgerOf(ManifestOf(fs)) = Abstract!Start(spec.schema)
               /\ \A m \in MigrationPaths : fs[m] = Absent
               /\ fs[SnapshotPath] = SnapshotOf(spec.schema)
               /\ \A p \in CodePaths \cup CustomPaths : fs[p] = Rendered(spec)[p]
<1> DEFINE fs == WithSnapshot(Rendered(spec), spec.schema)
<1>1. /\ fs[SnapshotPath] = SnapshotOf(spec.schema)
      /\ fs[InitPath] = InitSql(spec.schema)
      /\ \A p \in CodePaths \cup CustomPaths : fs[p] = Rendered(spec)[p]
  BY PathFacts DEF WithSnapshot, Rendered, HistoryPaths
<1>2. fs[AcceptedPath] = Absent /\ \A m \in MigrationPaths : fs[m] = Absent
  <2>1. \A p \in {AcceptedPath} \cup MigrationPaths :
           p \in Path /\ p # SnapshotPath /\ p # InitPath
              /\ p \notin CodePaths /\ p \notin CustomPaths
    BY PathFacts DEF MigrationPaths, HistoryPaths, AcceptedPath, InitPath
  <2>2. QED
    BY <2>1 DEF WithSnapshot, Rendered
<1> HIDE DEF fs
<1>3. Links(fs) = {}
  BY <1>2 DEF Links, Accepted, Recorded, Emitted, MigrationPaths
<1>4. LedgerOf(ManifestOf(fs)) = Abstract!Start(spec.schema)
  BY <1>1, <1>3 DEF LedgerOf, ManifestOf, Abstract!Start, SnapshotOf, InitSql
<1>5. QED
  BY <1>1, <1>2, <1>4 DEF fs

LEMMA KeptLedger ==
    ASSUME NEW t \in Files, Backed(t), NEW fs,
           \A p \in HistoryPaths \cup {AcceptedPath, SnapshotPath} : fs[p] = t[p]
    PROVE  LedgerOf(ManifestOf(fs)) = LedgerOf(ManifestOf(t))
<1>1. \A m \in IncrementalPaths \cup ManualPaths : fs[m] = t[m]
  BY PathFacts
<1>2. Emitted(fs) = Emitted(t) /\ Accepted(fs) = Accepted(t)
  BY <1>1 DEF Emitted, Accepted, Recorded
<1>3. fs[InitPath] = t[InitPath] /\ fs[SnapshotPath] = t[SnapshotPath]
  BY DEF HistoryPaths
<1>4. QED
  BY <1>2, <1>3 DEF LedgerOf, ManifestOf, Links

LEMMA ExtendedLedger ==
    ASSUME NEW b, NEW links, NEW top, NEW n, NEW s
    PROVE  Abstract!Extended([base |-> b, links |-> links, top |-> top], n, s)
             = [base |-> b, links |-> links \cup {[at |-> n, from |-> top, to |-> s]}, top |-> s]
<1> DEFINE l == [base |-> b, links |-> links, top |-> top]
           more == [l EXCEPT !.links = l.links \cup {[at |-> n, from |-> l.top, to |-> s]}]
<1>1. more = [base |-> b, links |-> links \cup {[at |-> n, from |-> top, to |-> s]}, top |-> top]
  OBVIOUS
<1>2. Abstract!Extended(l, n, s) = [more EXCEPT !.top = s]
  BY DEF Abstract!Extended
<1> HIDE DEF more
<1>3. QED
  BY <1>1, <1>2

LEMMA GrownLedger ==
    ASSUME NEW t, NEW d, NEW spec, NEW fs, NEW n \in Prefix, Appended(fs, t, d, spec, n),
           fs[InitPath] = t[InitPath], Changes(d[SnapshotPath].schema, spec.schema) # {}
    PROVE  Grown(LedgerOf(ManifestOf(t)), LedgerOf(ManifestOf(fs)), spec.schema)
<1> DEFINE old == LedgerOf(ManifestOf(t))
<1>1. /\ old = [base |-> t[InitPath].to, links |-> Links(t), top |-> t[SnapshotPath].schema]
      /\ LedgerOf(ManifestOf(fs)) = [base |-> fs[InitPath].to, links |-> Links(fs),
                                     top |-> fs[SnapshotPath].schema]
  BY DEF LedgerOf, ManifestOf
<1> HIDE DEF old
<1>2. fs[SnapshotPath].schema = spec.schema
  BY DEF Appended, SnapshotOf
<1>3. old.top # spec.schema
  BY <1>1 DEF Appended, Changes
<1>4. \A l \in old.links : l.at < n
  BY <1>1 DEF Appended
<1>5. LedgerOf(ManifestOf(fs)) = Abstract!Extended(old, n, spec.schema)
  <2>1. LedgerOf(ManifestOf(fs))
           = [base |-> t[InitPath].to,
              links |-> Links(t)
                   \cup {[at |-> n, from |-> t[SnapshotPath].schema, to |-> spec.schema]},
              top |-> spec.schema]
    BY <1>1, <1>2 DEF Appended
  <2>2. QED
    BY <1>1, <2>1, ExtendedLedger
<1>6. QED
  BY <1>3, <1>4, <1>5 DEF Grown, old

-----------------------------------------------------------------------------
(* A run that is over, or has not begun, has nothing to keep.              *)
LEMMA IdleRun ==
    ASSUME NEW r \in Runs, pc'[r] = "idle", tracked'[r] = NoFiles, ~known'[r], todo'[r] = {},
           Genuine(files'[r])
    PROVE  RunInv(r)'
<1>1. Known(r)'
  BY NothingIsGenuine DEF Known
<1>2. InStep(r)' /\ Frozen(r)' /\ AsAsked(r)' /\ Appends(r)' /\ Planned(r)' /\ Again(r)'
        /\ NextLedger(r)'
  BY DEF InStep, Frozen, AsAsked, Appends, Planned, Again, NextLedger, Real, Regenerates
<1>3. QED
  BY <1>1, <1>2 DEF RunInv

LEMMA StoppedRun ==
    ASSUME OneRun, IInv, NEW r \in Runs, Stop(r)
    PROVE  \A s \in Runs : RunInv(s)'
<1>1. /\ pc'[r] = "idle" /\ tracked'[r] = NoFiles /\ ~known'[r] /\ todo'[r] = {}
      /\ files'[r] = NoFiles
  BY DEF Stop, IInv, TypeOK
<1>2. RunInv(r)'
  BY <1>1, IdleRun, NothingIsGenuine
<1>3. QED
  BY <1>2 DEF OneRun

LEMMA IdleSteps ==
    ASSUME Inv, UNCHANGED runVars, NEW r \in Runs, pc[r] = "idle"
    PROVE  RunInv(r)'
<1>1. Known(r)
  BY DEF Inv, OneInv, RunInv
<1>2. /\ pc'[r] = "idle" /\ tracked'[r] = NoFiles /\ ~known'[r] /\ todo'[r] = {}
      /\ Genuine(files'[r])
  BY <1>1 DEF runVars, Known
<1>3. QED
  BY <1>2, IdleRun

(* What steps that leave the project as it was, or unsettle it, keep.      *)
LEMMA WorldKept ==
    ASSUME World, UNCHANGED <<manifest, vcs>>, UNCHANGED <<disk, settled>> \/ settled' = NoSpec
    PROVE  World'
<1>1. Whole(manifest)' /\ Whole(vcs.manifest)'
        /\ (vcs.manifest # NoManifest => vcs.manifest.status = "present")'
        /\ Steady(vcs.disk, vcs.manifest, vcs.settled)'
  BY DEF World
<1>2. Steady(disk, manifest, settled)'
  BY DEF World, Steady
<1>3. QED
  BY <1>1, <1>2 DEF World

LEMMA InitOne == Init => OneInv
<1> SUFFICES ASSUME Init PROVE OneInv
  OBVIOUS
<1>1. Whole(manifest) /\ Whole(vcs.manifest) /\ vcs.manifest = NoManifest
        /\ settled = NoSpec /\ vcs.settled = NoSpec
  BY NothingIsGenuine DEF Init, Whole, NoManifest
<1>2. World
  BY <1>1 DEF World, Steady
<1>3. ASSUME NEW r \in Runs PROVE RunInv(r)
  <2>1. pc[r] = "idle" /\ tracked[r] = NoFiles /\ files[r] = NoFiles /\ todo[r] = {} /\ ~known[r]
    BY DEF Init
  <2>2. Known(r)
    BY <2>1, NothingIsGenuine DEF Known
  <2>3. InStep(r) /\ Frozen(r) /\ AsAsked(r) /\ Appends(r) /\ Planned(r) /\ Again(r)
          /\ NextLedger(r)
    BY <2>1 DEF InStep, Frozen, AsAsked, Appends, Planned, Again, NextLedger, Real, Regenerates
  <2>4. QED
    BY <2>2, <2>3 DEF RunInv
<1>4. QED
  BY <1>2, <1>3 DEF OneInv

-----------------------------------------------------------------------------
(* Every step of the one run keeps the invariant.                          *)
LEMMA RefusedOne ==
    ASSUME OneRun, Inv, NEW r \in Runs, NEW why, Refuse(r, why)
    PROVE  OneInv'
<1>1. \A s \in Runs : RunInv(s)'
  BY StoppedRun DEF Refuse, Inv
<1>2. World'
  BY WorldKept DEF Refuse, Inv, OneInv, projectVars
<1>3. QED
  BY <1>1, <1>2 DEF OneInv

LEMMA StartOne ==
    ASSUME OneRun, Inv, NEW r \in Runs, NEW q \in Requests,
           Start(r, q) \/ StartRefused(r, q) \/ PreviewUntracked(r, q)
    PROVE  OneInv'
<1>0. /\ q \in Request /\ q.spec \in BackendSpec
      /\ pc[r] = "idle" /\ tracked[r] = NoFiles /\ ~known[r] /\ todo[r] = {}
      /\ Genuine(files[r]) /\ Whole(manifest) /\ World
  BY GeneratorAssumption, RequestTypes
     DEF Start, StartRefused, PreviewUntracked, Inv, OneInv, World, RunInv, Known
<1>1. CASE Start(r, q)
  <2>1. /\ pc'[r] = "adjust" /\ tracked'[r] = manifest.files /\ todo'[r] = {}
        /\ files'[r] = files[r] /\ request'[r] = q /\ verdict' = "running"
        /\ known'[r] <=> manifest.status = "present"
        /\ UNCHANGED <<disk, manifest, settled, vcs>> /\ manifest.status # "invalid"
    BY <1>0, <1>1 DEF Start, Inv, IInv, TypeOK, projectVars
  <2>2. Known(r)' /\ InStep(r)'
    BY <1>0, <2>1 DEF Known, InStep, Whole
  <2>3. Frozen(r)' /\ AsAsked(r)' /\ Appends(r)' /\ Planned(r)' /\ Again(r)' /\ NextLedger(r)'
    BY <2>1 DEF Frozen, AsAsked, Appends, Planned, Again, NextLedger, Real
  <2>4. RunInv(r)'
    BY <2>2, <2>3 DEF RunInv
  <2>5. World'
    BY <1>0, <2>1, WorldKept
  <2>6. QED
    BY <2>4, <2>5 DEF OneInv, OneRun
<1>2. CASE StartRefused(r, q)
  <2>1. RunInv(r)'
    BY <1>0, <1>2, IdleSteps DEF StartRefused
  <2>2. World'
    BY <1>0, <1>2, WorldKept DEF StartRefused, projectVars
  <2>3. QED
    BY <2>1, <2>2 DEF OneInv, OneRun
<1>3. CASE PreviewUntracked(r, q)
  <2>1. /\ pc'[r] = "plan" /\ tracked'[r] = NoFiles /\ todo'[r] = {} /\ ~known'[r]
        /\ files'[r] = Rendered(q.spec) /\ request'[r] = q /\ verdict' = "running"
        /\ manifest.status = "invalid" /\ q.options.dryRun
        /\ UNCHANGED <<disk, manifest, settled, vcs>>
    BY <1>0, <1>3 DEF PreviewUntracked, Inv, IInv, TypeOK, projectVars
  <2>2. manifest.files = NoFiles /\ settled = NoSpec
    BY <1>0, <2>1 DEF Whole, World, Steady
  <2>3. Known(r)' /\ InStep(r)'
    BY <1>0, <2>1, <2>2, NothingIsGenuine, RenderedGenuine DEF Known, InStep
  <2>4. Frozen(r)'
    BY <2>1, PathFacts DEF Frozen, NoFiles
  <2>5. AsAsked(r)' /\ Appends(r)' /\ Planned(r)' /\ Again(r)' /\ NextLedger(r)'
    BY <2>1, <2>2 DEF AsAsked, Appends, Planned, Again, NextLedger, Real, Regenerates
  <2>6. RunInv(r)'
    BY <2>3, <2>4, <2>5 DEF RunInv
  <2>7. World'
    BY <1>0, <2>1, WorldKept
  <2>8. QED
    BY <2>6, <2>7 DEF OneInv, OneRun
<1>4. QED
  BY <1>1, <1>2, <1>3

(* What has to be shown of the files an adjustment renders.                *)
Continues(r, fs) ==
    /\ \A m \in HistoryPaths : tracked[r][m] # Absent => fs[m] = tracked[r][m]
    /\ fs[SnapshotPath] = SnapshotOf(Wanted(r))
    /\ \A p \in CodePaths \cup CustomPaths : fs[p] = Rendered(request[r].spec)[p]
    /\ \A m \in MigrationPaths : fs[m] # Absent /\ disk[m] = Absent =>
          /\ m \in IncrementalPaths
          /\ \A k \in MigrationPaths :
                k # m /\ (disk[k] # Absent \/ fs[k] # Absent) => k.n < m.n
    /\ \A m \in IncrementalPaths : fs[m] = Absent => disk[m] = Absent
    /\ Regenerates(r) =>
          fs = manifest.files /\ disk[AcceptedPath] = manifest.files[AcceptedPath]
    /\ ~known[r] => LedgerOf(ManifestOf(fs)) = Abstract!Start(Wanted(r))
    /\ known[r] => \/ LedgerOf(ManifestOf(fs)) = LedgerOf(manifest)
                   \/ Grown(LedgerOf(manifest), LedgerOf(ManifestOf(fs)), Wanted(r))

LEMMA AdjustedOne ==
    ASSUME OneRun, Inv, NEW r \in Runs, NEW fs, pc[r] = "adjust", Adjusted(r, fs),
           Genuine(fs), Continues(r, fs)
    PROVE  OneInv'
<1>1. /\ pc'[r] = "plan" /\ files'[r] = fs
      /\ UNCHANGED <<disk, manifest, request, known, tracked, todo, verdict, settled, dirty, vcs>>
  BY DEF Adjusted, Inv, IInv, TypeOK, projectVars, ghostVars
<1>2. Known(r) /\ InStep(r)
  BY DEF Inv, OneInv, RunInv
<1>3. Known(r)' /\ InStep(r)'
  BY <1>1, <1>2 DEF Known, InStep
<1>4. Frozen(r)' /\ AsAsked(r)'
  BY <1>1 DEF Frozen, AsAsked, Real, Continues, Wanted
<1>5. Appends(r)'
  BY <1>1 DEF Appends, Continues
<1>6. Planned(r)'
  BY <1>1 DEF Planned
<1>7. Again(r)'
  BY <1>1, <1>2 DEF Again, Continues, Regenerates, Known
<1>8. NextLedger(r)'
  BY <1>1 DEF NextLedger, Continues, Wanted
<1>9. RunInv(r)'
  BY <1>3, <1>4, <1>5, <1>6, <1>7, <1>8 DEF RunInv
<1>10. World'
  BY <1>1, WorldKept DEF Inv, OneInv
<1>11. QED
  BY <1>9, <1>10 DEF OneInv, OneRun

(* What a run in step finds that goes on from a trusted history.           *)
Follows(r) ==
    /\ known[r] = TRUE /\ tracked[r] = manifest.files /\ manifest.status = "present"
    /\ tracked[r] \in Files /\ disk \in Files /\ Backed(tracked[r])
    /\ TrustedHistory(TRUE, tracked[r], disk) /\ Genuine(tracked[r])
    /\ request[r].spec \in BackendSpec
    /\ LedgerOf(manifest) = LedgerOf(ManifestOf(tracked[r]))
    /\ \A m \in MigrationPaths : tracked[r][m] # Absent => disk[m] = tracked[r][m]
    /\ \A m \in IncrementalPaths : disk[m] = tracked[r][m]
    /\ disk[AcceptedPath] = tracked[r][AcceptedPath]
    /\ Current(r) = tracked[r][SnapshotPath].schema

LEMMA TrustedRun ==
    ASSUME Inv, NEW r \in Runs, pc[r] = "adjust", Trusted(r)
    PROVE  Follows(r)
<1>1. known[r] = TRUE /\ TrustedHistory(TRUE, tracked[r], disk)
  BY DEF Trusted, TrustedHistory, Inv, IInv, TypeOK
<1>2. /\ tracked[r] = manifest.files /\ manifest.status = "present" /\ Genuine(tracked[r])
  BY <1>1 DEF Inv, OneInv, RunInv, InStep, Known
<1>3. /\ tracked[r] \in Files /\ disk \in Files /\ Backed(tracked[r])
      /\ request[r].spec \in BackendSpec
  BY <1>1, RequestTypes DEF Inv, IInv, TypeOK, RunsBacked
<1>4. LedgerOf(manifest) = LedgerOf(ManifestOf(tracked[r]))
  BY <1>2 DEF LedgerOf, ManifestOf
<1>5. /\ \A m \in MigrationPaths : tracked[r][m] # Absent => disk[m] = tracked[r][m]
      /\ \A m \in IncrementalPaths : disk[m] = tracked[r][m]
      /\ disk[AcceptedPath] = tracked[r][AcceptedPath]
      /\ Current(r) = tracked[r][SnapshotPath].schema
  BY <1>1 DEF TrustedHistory, MigrationPaths, Current
<1>6. QED
  BY <1>1, <1>2, <1>3, <1>4, <1>5 DEF Follows

(* A project that is regenerated from its specification has no changes.    *)
LEMMA NoChangesAgain ==
    ASSUME Inv, NEW r \in Runs, pc[r] = "adjust", Regenerates(r), Trusted(r)
    PROVE  Changes(Current(r), Wanted(r)) = {}
<1>1. manifest.files[SnapshotPath] = SnapshotOf(Wanted(r))
  BY DEF Inv, OneInv, World, Steady, Regenerates, Wanted
<1>2. Current(r) = Wanted(r)
  <2>1. Follows(r)
    BY TrustedRun
  <2>2. Current(r) = SnapshotOf(Wanted(r)).schema
    BY <1>1, <2>1 DEF Follows
  <2>3. QED
    BY <2>2 DEF SnapshotOf
<1>3. QED
  BY <1>2 DEF Changes

LEMMA BeginOne ==
    ASSUME OneRun, Inv, NEW r \in Runs, Begin(r)
    PROVE  OneInv'
<1> DEFINE spec == request[r].spec
           fs == WithSnapshot(Rendered(spec), spec.schema)
<1>1. /\ pc[r] = "adjust" /\ ~known[r] /\ \A m \in HistoryPaths : disk[m] = Absent
      /\ Adjusted(r, fs) /\ spec \in BackendSpec
  BY RequestTypes DEF Begin, CanBegin, FirstGeneration, Wanted, Inv, IInv, RunsBacked
<1>2. tracked[r] = NoFiles /\ settled = NoSpec
  BY <1>1 DEF Inv, OneInv, RunInv, InStep, World, Whole, Steady
<1>3. /\ LedgerOf(ManifestOf(fs)) = Abstract!Start(spec.schema)
      /\ \A m \in MigrationPaths : fs[m] = Absent
      /\ fs[SnapshotPath] = SnapshotOf(spec.schema)
      /\ \A p \in CodePaths \cup CustomPaths : fs[p] = Rendered(spec)[p]
      /\ Genuine(fs)
  BY <1>1, FirstLedger, RenderedGenuine
<1> HIDE DEF fs
<1>4. \A m \in HistoryPaths : tracked[r][m] = Absent
  BY <1>2, PathFacts DEF NoFiles
<1>5. Continues(r, fs)
  BY <1>1, <1>2, <1>3, <1>4 DEF Continues, Wanted, Regenerates, HistoryPaths, MigrationPaths
<1>6. QED
  BY <1>1, <1>3, <1>5, AdjustedOne

LEMMA KeepOne ==
    ASSUME OneRun, Inv, NEW r \in Runs, KeepHistory(r)
    PROVE  OneInv'
<1> DEFINE spec == request[r].spec
           t == tracked[r]
           fs == KeptOf(t, disk, spec)
<1>1. pc[r] = "adjust" /\ Trusted(r) /\ Changes(Current(r), Wanted(r)) = {} /\ Adjusted(r, fs)
  BY DEF KeepHistory, CanKeep, KeptOf, Base, Wanted
<1>0. Follows(r)
  BY <1>1, TrustedRun
<1>2. /\ \A p \in HistoryPaths \cup {AcceptedPath, SnapshotPath} : fs[p] = t[p]
      /\ \A p \in CodePaths \cup CustomPaths : fs[p] = Rendered(spec)[p]
      /\ fs[SnapshotPath] = SnapshotOf(spec.schema)
  BY <1>1, <1>0, KeptFiles DEF Follows, Current, Wanted
<1>3. fs \in Files
  BY <1>1, <1>0, RenderedFiles, CarriedFiles, SnapshotFiles DEF Follows, KeptOf, BackendSpec
<1> HIDE DEF fs
<1>4. Genuine(fs)
  BY <1>1, <1>2, <1>0, GenuineRendering DEF Follows
<1>5. LedgerOf(ManifestOf(fs)) = LedgerOf(manifest)
  BY <1>1, <1>2, <1>0, KeptLedger DEF Follows
<1>6. ASSUME Regenerates(r) PROVE fs = manifest.files
  <2>1. manifest.files \in Files /\ manifest.files = t
    BY <1>1, <1>0 DEF Follows
  <2>2. \A p \in CodePaths \cup CustomPaths : manifest.files[p] = Rendered(spec)[p]
    BY <1>6 DEF Inv, OneInv, World, Steady, Regenerates
  <2>3. \A p \in Path : fs[p] = manifest.files[p]
    BY <2>1, <2>2, <1>2 DEF Path
  <2>4. QED
    BY <2>1, <2>3, <1>3 DEF Files
<1>7. Continues(r, fs)
  <2>1. \A m \in MigrationPaths : fs[m] = t[m]
    BY <1>2 DEF HistoryPaths
  <2>2. IncrementalPaths \subseteq MigrationPaths
    BY DEF MigrationPaths
  <2>3. QED
    BY <1>1, <1>2, <1>5, <1>6, <2>1, <2>2, <1>0 DEF Follows, Continues, Wanted
<1>8. QED
  BY <1>1, <1>4, <1>7, AdjustedOne

LEMMA EmitOne ==
    ASSUME OneRun, Inv, NEW r \in Runs, NEW n \in Prefix, EmitMigration(r, n)
    PROVE  OneInv'
<1> DEFINE spec == request[r].spec
           t == tracked[r]
           fs == EmittedOf(t, disk, spec, n)
           new == Incremental(n)
<1>1. /\ pc[r] = "adjust" /\ Trusted(r) /\ Changes(Current(r), Wanted(r)) # {}
      /\ IsNextPrefix(n, disk) /\ Adjusted(r, fs)
  BY DEF EmitMigration, CanEmit, EmittedOf, Base, Wanted, Current
<1>0. Follows(r)
  BY <1>1, TrustedRun
<1>2. Emits(fs, t, disk, spec, n)
  BY <1>1, <1>0, EmittedFiles DEF Follows
<1> HIDE DEF fs
<1>3. /\ \A p \in HistoryPaths \cup {AcceptedPath} : p # new => fs[p] = t[p]
      /\ fs[new] = DiffSql(Current(r), Wanted(r)) /\ t[new] = Absent
      /\ fs[SnapshotPath] = SnapshotOf(spec.schema)
      /\ \A p \in CodePaths \cup CustomPaths : fs[p] = Rendered(spec)[p]
      /\ new \in IncrementalPaths /\ new.n = n /\ new # InitPath
  BY <1>2, PathFacts DEF Emits, Appended, Current, Wanted, MigrationPaths
<1>4. Genuine(fs)
  <2>1. fs[new].type = "incremental"
    BY <1>3 DEF DiffSql
  <2>2. QED
    BY <1>1, <1>3, <2>1, <1>0, GenuineRendering DEF Follows
<1>5. Grown(LedgerOf(manifest), LedgerOf(ManifestOf(fs)), Wanted(r))
  <2>1. fs[InitPath] = t[InitPath]
    BY <1>3 DEF HistoryPaths
  <2>2. Grown(LedgerOf(ManifestOf(t)), LedgerOf(ManifestOf(fs)), spec.schema)
    BY <1>1, <1>2, <2>1, GrownLedger DEF Emits, Current, Wanted
  <2>3. QED
    BY <1>1, <2>2, <1>0 DEF Follows, Wanted
<1>6. \A m \in MigrationPaths : disk[m] # Absent => m.n < n
  BY <1>1 DEF IsNextPrefix
<1>7. ASSUME NEW m \in MigrationPaths, fs[m] # Absent, disk[m] = Absent
      PROVE  /\ m \in IncrementalPaths
             /\ \A k \in MigrationPaths :
                   k # m /\ (disk[k] # Absent \/ fs[k] # Absent) => k.n < m.n
  <2>1. \A k \in MigrationPaths : k # new /\ fs[k] # Absent => disk[k] # Absent
    BY <1>1, <1>3, <1>0 DEF Follows, HistoryPaths
  <2>2. m = new
    BY <1>7, <2>1
  <2>3. QED
    BY <1>3, <1>6, <2>1, <2>2
<1>8. \A m \in IncrementalPaths : fs[m] = Absent => disk[m] = Absent
  <2>1. fs[new] # Absent
    BY <1>2 DEF Emits
  <2>2. QED
    BY <1>1, <1>3, <2>1, <1>0, PathFacts DEF Follows
<1>9. Continues(r, fs)
  <2>1. ~Regenerates(r) /\ known[r]
    BY <1>1, NoChangesAgain, <1>0 DEF Follows
  <2>2. \A m \in HistoryPaths : t[m] # Absent => fs[m] = t[m]
    BY <1>3
  <2>3. QED
    BY <1>3, <1>5, <1>7, <1>8, <2>1, <2>2 DEF Continues, Wanted
<1>10. QED
  BY <1>1, <1>4, <1>9, AdjustedOne

LEMMA AcceptOne ==
    ASSUME OneRun, Inv, NEW r \in Runs, AcceptManual(r)
    PROVE  OneInv'
<1> DEFINE spec == request[r].spec
           t == tracked[r]
           new == request[r].accept
           fs == AcceptedOf(t, disk, spec, new)
<1>1. /\ pc[r] = "adjust" /\ Trusted(r) /\ Changes(Current(r), Wanted(r)) # {}
      /\ Acceptable(new, t, disk, Current(r), Wanted(r)) /\ Adjusted(r, fs)
  BY DEF AcceptManual, CanAccept, AcceptedOf, EntriesOf, Base, Wanted, Current
<1>0. Follows(r)
  BY <1>1, TrustedRun
<1>2. /\ new \in ManualPaths /\ disk[new] # Absent /\ t[new] = Absent
      /\ disk[new].type = "manual"
  BY <1>1 DEF Acceptable
<1>3. Accepts(fs, t, disk, spec, new)
  BY <1>1, <1>2, <1>0, AcceptedBacked DEF Follows, Current, Wanted
<1> HIDE DEF fs
<1>4. /\ \A p \in HistoryPaths : p # new => fs[p] = t[p]
      /\ fs[new] = disk[new] /\ fs[AcceptedPath].type = "accepted"
      /\ fs[SnapshotPath] = SnapshotOf(spec.schema)
      /\ \A p \in CodePaths \cup CustomPaths : fs[p] = Rendered(spec)[p]
      /\ new.n \in Prefix /\ new \in HistoryPaths /\ new \notin IncrementalPaths
      /\ new # InitPath
  BY <1>2, <1>3, PathFacts DEF Accepts, Appended, AcceptedRecord, MigrationPaths
<1>5. Genuine(fs)
  BY <1>1, <1>2, <1>4, <1>0, GenuineRendering DEF Follows
<1>6. Grown(LedgerOf(manifest), LedgerOf(ManifestOf(fs)), Wanted(r))
  <2>1. fs[InitPath] = t[InitPath]
    BY <1>4 DEF HistoryPaths
  <2>2. Grown(LedgerOf(ManifestOf(t)), LedgerOf(ManifestOf(fs)), spec.schema)
    BY <1>1, <1>3, <1>4, <2>1, GrownLedger DEF Accepts, Current, Wanted
  <2>3. QED
    BY <1>1, <2>2, <1>0 DEF Follows, Wanted
<1>7. \A m \in MigrationPaths : fs[m] # Absent => disk[m] # Absent
  BY <1>1, <1>2, <1>4, <1>0 DEF Follows, HistoryPaths
<1>8. \A m \in IncrementalPaths : fs[m] = Absent => disk[m] = Absent
  BY <1>1, <1>4, <1>0, PathFacts DEF Follows
<1>9. Continues(r, fs)
  <2>1. ~Regenerates(r) /\ known[r]
    BY <1>1, NoChangesAgain, <1>0 DEF Follows
  <2>2. QED
    BY <1>2, <1>4, <1>6, <1>7, <1>8, <2>1 DEF Continues, Wanted
<1>10. QED
  BY <1>1, <1>5, <1>9, AdjustedOne

LEMMA AdjustOne ==
    ASSUME OneRun, Inv, NEW r \in Runs, Adjust(r)
    PROVE  OneInv'
<1>1. CASE AdjustRefused(r)
  BY <1>1, RefusedOne DEF AdjustRefused
<1>2. QED
  BY <1>1, BeginOne, KeepOne, AcceptOne, EmitOne DEF Adjust

LEMMA PlanOne ==
    ASSUME OneRun, Inv, NEW r \in Runs, Preview(r) \/ PlanRefused(r) \/ Plan(r)
    PROVE  OneInv'
<1>1. CASE Preview(r) \/ PlanRefused(r)
  BY <1>1, RefusedOne DEF Preview, PlanRefused
<1>2. CASE Plan(r)
  <2>1. /\ pc[r] = "plan" /\ ~request[r].options.dryRun
        /\ Conflicts(files[r], disk, tracked[r], request[r].options.force) = {}
        /\ pc'[r] = "write" /\ todo'[r] = ToTouch(r)
        /\ UNCHANGED <<disk, manifest, request, known, tracked, files, verdict, settled, dirty,
                       vcs>>
    BY <1>2 DEF Plan, PlanConflicts, ToTouch, Inv, IInv, TypeOK, projectVars, ghostVars
  <2>2. Known(r) /\ InStep(r) /\ Frozen(r) /\ AsAsked(r) /\ Appends(r) /\ Again(r) /\ NextLedger(r)
    BY DEF Inv, OneInv, RunInv
  <2>3. request[r] \in Request /\ request[r].spec \in BackendSpec
          /\ request[r].options.force \in BOOLEAN
    BY <2>1, RequestTypes DEF Inv, IInv, RunsBacked, Request
  <2>4. Known(r)' /\ InStep(r)' /\ Frozen(r)'
    BY <2>1, <2>2 DEF Known, InStep, Frozen
  <2>5. AsAsked(r)' /\ Appends(r)' /\ NextLedger(r)'
    BY <2>1, <2>2 DEF AsAsked, Appends, NextLedger, Real, Wanted
  <2>6. Planned(r)'
    <3>1. ASSUME NEW p \in Path PROVE p \in ToTouch(r) \/ Done(r, p)
      <4>1. files[r][p] # Absent /\ p \notin ToTouch(r) => Done(r, p)
        BY <2>1, <2>3, UntouchedIsDone DEF ToTouch, Done
      <4>2. p \in CustomPaths => files[r][p] # Absent
        BY <2>1, <2>2, <2>3, RenderedGenuine DEF AsAsked, Real
      <4>3. QED
        BY <4>1, <4>2 DEF Done
    <3>2. ToTouch(r)' = ToTouch(r) /\ \A p \in Path : Done(r, p)' <=> Done(r, p)
      BY <2>1 DEF ToTouch, Done
    <3>3. QED
      BY <2>1, <3>1, <3>2 DEF Planned
  <2>7. Again(r)'
    <3>1. ASSUME Regenerates(r)'
          PROVE  /\ files[r] = manifest.files /\ ToTouch(r) = {}
                 /\ disk[AcceptedPath] = manifest.files[AcceptedPath]
      <4>1. Regenerates(r)
        BY <2>1, <3>1 DEF Regenerates
      <4>2. files[r] = manifest.files /\ disk[AcceptedPath] = manifest.files[AcceptedPath]
        BY <2>1, <2>2, <4>1 DEF Again
      <4>3. tracked[r] = manifest.files
        BY <2>1, <2>2 DEF InStep
      <4>4. settled # NoSpec /\ Steady(disk, manifest, settled)
        BY <4>1 DEF Regenerates, Inv, OneInv, World
      <4>5. QED
        BY <4>2, <4>3, <4>4, NothingToTouch DEF ToTouch
    <3>2. QED
      BY <2>1, <3>1 DEF Again
  <2>8. World'
    BY <2>1, WorldKept DEF Inv, OneInv
  <2>9. RunInv(r)'
    BY <2>4, <2>5, <2>6, <2>7 DEF RunInv
  <2>10. QED
    BY <2>8, <2>9 DEF OneInv, OneRun
<1>3. QED
  BY <1>1, <1>2

LEMMA WriteOne ==
    ASSUME OneRun, Inv, NEW r \in Runs, NEW p \in Path, Write(r, p)
    PROVE  OneInv'
<1>1. /\ pc[r] = "write" /\ p \in todo[r] /\ todo'[r] = todo[r] \ {p}
      /\ disk'[p] = files[r][p] /\ \A q \in Path : q # p => disk'[q] = disk[q]
      /\ settled' = NoSpec
      /\ UNCHANGED <<manifest, pc, request, known, tracked, files, verdict, dirty, vcs>>
  BY DEF Write, NextFile, Inv, IInv, TypeOK, Files
<1>2. Known(r) /\ InStep(r) /\ Frozen(r) /\ AsAsked(r) /\ Appends(r) /\ Planned(r) /\ NextLedger(r)
  BY DEF Inv, OneInv, RunInv
<1>3. Real(r) /\ request[r].spec \in BackendSpec
  BY <1>1, RequestTypes DEF Real, Inv, IInv, RunsBacked
<1>4. Known(r)' /\ InStep(r)' /\ Frozen(r)'
  BY <1>1, <1>2 DEF Known, InStep, Frozen
<1>5. AsAsked(r)' /\ NextLedger(r)' /\ Again(r)'
  BY <1>1, <1>2 DEF AsAsked, NextLedger, Again, Regenerates, Real, Wanted
<1>6. Appends(r)'
  <2> SUFFICES ASSUME ~dirty PROVE Appends(r)'
    BY <1>1 DEF Appends
  <2>1. \A m \in MigrationPaths \cup IncrementalPaths : m \in Path
    BY PathFacts DEF HistoryPaths
  <2>2. ASSUME NEW m \in MigrationPaths, files[r][m] # Absent, disk'[m] = Absent
        PROVE  /\ m \in IncrementalPaths
               /\ \A k \in MigrationPaths :
                     k # m /\ (disk'[k] # Absent \/ files[r][k] # Absent) => k.n < m.n
    <3>1. disk[m] = Absent
      BY <1>1, <2>1, <2>2
    <3>2. \A k \in MigrationPaths : disk'[k] # Absent \/ files[r][k] # Absent =>
             disk[k] # Absent \/ files[r][k] # Absent
      BY <1>1, <2>1
    <3>3. QED
      BY <1>2, <1>3, <2>2, <3>1, <3>2 DEF Appends
  <2>3. \A m \in IncrementalPaths : files[r][m] = Absent => disk'[m] = Absent
    BY <1>1, <1>2, <1>3, <2>1 DEF Appends
  <2>4. QED
    BY <1>1, <2>2, <2>3 DEF Appends
<1>7. Planned(r)'
  <2> SUFFICES ASSUME ~dirty PROVE Planned(r)'
    BY <1>1 DEF Planned
  <2>1. ASSUME NEW q \in todo'[r] PROVE q \in ToTouch(r)'
    <3>1. q \in ToTouch(r) /\ q # p /\ q \in Path
      BY <1>1, <1>2, <2>1 DEF Planned, Inv, IInv, TypeOK
    <3>2. disk[q] = disk'[q]
      BY <1>1, <3>1
    <3>3. QED
      BY <1>1, <3>1, <3>2, TouchedLocal DEF ToTouch
  <2>2. ASSUME NEW q \in Path, q \notin todo'[r] PROVE Done(r, q)'
    <3>1. CASE q = p
      BY <1>1, <1>2, <1>3, <3>1, RenderedGenuine DEF Done, AsAsked
    <3>2. CASE q # p
      BY <1>1, <1>2, <2>2, <3>2 DEF Done, Planned
    <3>3. QED
      BY <3>1, <3>2
  <2>3. QED
    BY <2>1, <2>2 DEF Planned
<1>8. World'
  BY <1>1, WorldKept DEF Inv, OneInv
<1>9. RunInv(r)'
  BY <1>4, <1>5, <1>6, <1>7 DEF RunInv
<1>10. QED
  BY <1>8, <1>9 DEF OneInv, OneRun

LEMMA EndOne ==
    ASSUME OneRun, Inv, NEW r \in Runs,
           Finish(r) \/ Crash(r) \/ CrashFinishing(r) \/ \E p \in Path : CrashWriting(r, p)
    PROVE  OneInv'
<1>1. \A s \in Runs : RunInv(s)'
  BY StoppedRun DEF Finish, Crash, CrashFinishing, CrashWriting, Inv
<1>2. CASE Crash(r) \/ \E p \in Path : CrashWriting(r, p)
  BY <1>1, <1>2, WorldKept DEF Crash, CrashWriting, projectVars, Inv, OneInv
<1>3. World
  BY DEF Inv, OneInv
<1>4. CASE CrashFinishing(r)
  <2>1. manifest' = BrokenManifest /\ settled' = NoSpec /\ UNCHANGED vcs
    BY <1>4 DEF CrashFinishing
  <2>2. Whole(manifest)' /\ Steady(disk, manifest, settled)'
    BY <2>1, NothingIsGenuine DEF Whole, Steady, BrokenManifest
  <2>3. World'
    BY <1>3, <2>1, <2>2 DEF World
  <2>4. QED
    BY <1>1, <2>3 DEF OneInv
<1>5. CASE Finish(r)
  <2>1. /\ pc[r] = "write" /\ todo[r] = {} /\ manifest' = ManifestOf(files[r])
        /\ settled' = (IF dirty THEN NoSpec ELSE request[r].spec)
        /\ UNCHANGED <<disk, vcs>>
    BY <1>5 DEF Finish
  <2>2. Known(r) /\ AsAsked(r) /\ Appends(r) /\ Planned(r)
    BY DEF Inv, OneInv, RunInv
  <2>3. Real(r)
    BY <2>1 DEF Real, Inv, IInv, RunsBacked
  <2>4. /\ manifest'.status = "present" /\ manifest'.files = files[r]
    BY <2>1 DEF ManifestOf
  <2>5. Whole(manifest)'
    BY <2>2, <2>4 DEF Whole, Known
  <2>6. ASSUME ~dirty PROVE Steady(disk, manifest', request[r].spec)
    <3>1. \A p \in Path : Done(r, p)
      BY <2>1, <2>2, <2>6 DEF Planned
    <3>2. \A p \in IncrementalPaths : files[r][p] = Absent => disk[p] = Absent
      BY <2>2, <2>3, <2>6 DEF Appends
    <3>3. \A p \in IncrementalPaths : p \in Path /\ p \notin CustomPaths
      BY PathFacts
    <3>4. CustomPaths \subseteq Path
      BY PathFacts
    <3>5. QED
      BY <2>2, <2>3, <2>4, <3>1, <3>2, <3>3, <3>4 DEF Steady, Done, AsAsked, Wanted
  <2>7. Steady(disk, manifest, settled)'
    <3>1. CASE dirty
      BY <2>1, <3>1 DEF Steady
    <3>2. CASE ~dirty
      BY <2>1, <2>6, <3>2
    <3>3. QED
      BY <3>1, <3>2
  <2>8. World'
    BY <1>3, <2>1, <2>5, <2>7 DEF World
  <2>9. QED
    BY <1>1, <2>8 DEF OneInv
<1>6. QED
  BY <1>2, <1>4, <1>5

(* So does what the developer does: an edit unsettles the project, and     *)
(* whatever replaces the manifest happens between runs.                    *)
LEMMA DeveloperOne ==
    ASSUME Inv, Developer
    PROVE  OneInv'
<1>1. World
  BY DEF Inv, OneInv
<1>2. ASSUME Idle, UNCHANGED runVars PROVE \A r \in Runs : RunInv(r)'
  BY <1>2, IdleSteps DEF Idle
<1>3. ASSUME NEW p \in Path, NEW c \in EditsOf(p), Edit(p, c)
      PROVE  OneInv'
  <2>1. /\ settled' = NoSpec /\ dirty' = TRUE
        /\ UNCHANGED <<manifest, pc, request, known, tracked, files, todo, verdict, vcs>>
    BY <1>3 DEF Edit, runVars
  <2>2. ASSUME NEW r \in Runs PROVE RunInv(r)'
    <3>1. Known(r) /\ InStep(r) /\ Frozen(r) /\ AsAsked(r) /\ NextLedger(r)
      BY DEF Inv, OneInv, RunInv
    <3>2. Known(r)' /\ InStep(r)' /\ Frozen(r)'
      BY <2>1, <3>1 DEF Known, InStep, Frozen
    <3>3. AsAsked(r)' /\ NextLedger(r)'
      BY <2>1, <3>1 DEF AsAsked, NextLedger, Real, Wanted
    <3>4. Appends(r)' /\ Planned(r)' /\ Again(r)'
      BY <2>1 DEF Appends, Planned, Again, Regenerates
    <3>5. QED
      BY <3>2, <3>3, <3>4 DEF RunInv
  <2>3. World'
    BY <1>1, <2>1, WorldKept
  <2>4. QED
    BY <2>2, <2>3 DEF OneInv
<1>4. ASSUME NEW m \in {NoManifest, BrokenManifest}, DamageManifest(m)
      PROVE  OneInv'
  <2>1. Whole(m)
    BY NothingIsGenuine DEF Whole, NoManifest, BrokenManifest
  <2>2. manifest' = m /\ settled' = NoSpec /\ UNCHANGED vcs
    BY <1>4 DEF DamageManifest
  <2>3. World'
    BY <1>1, <2>1, <2>2 DEF World, Steady
  <2>4. QED
    BY <1>2, <1>4, <2>3 DEF OneInv, DamageManifest
<1>5. CASE Commit
  <2>1. /\ settled # NoSpec /\ UNCHANGED <<disk, manifest, settled>>
        /\ vcs' = [disk |-> disk, manifest |-> manifest, settled |-> settled]
    BY <1>5 DEF Commit, projectVars
  <2>2. /\ vcs'.disk = disk /\ vcs'.manifest = manifest /\ vcs'.settled = settled
    BY <2>1
  <2>3. manifest.status = "present"
    BY <1>1, <2>1 DEF World, Steady
  <2>4. World'
    BY <1>1, <2>1, <2>2, <2>3 DEF World
  <2>5. QED
    BY <1>2, <1>5, <2>4 DEF OneInv, Commit
<1>6. CASE Checkout
  <2>1. manifest' = vcs.manifest /\ settled' = NoSpec /\ UNCHANGED vcs
    BY <1>6 DEF Checkout
  <2>2. World'
    BY <1>1, <2>1 DEF World, Steady
  <2>3. QED
    BY <1>2, <1>6, <2>2 DEF OneInv, Checkout
<1>7. CASE RestoreAll
  <2>1. manifest' = vcs.manifest /\ settled' = vcs.settled /\ disk' = vcs.disk /\ UNCHANGED vcs
    BY <1>7 DEF RestoreAll
  <2>2. World'
    BY <1>1, <2>1 DEF World
  <2>3. QED
    BY <1>2, <1>7, <2>2 DEF OneInv, RestoreAll
<1>8. QED
  BY <1>3, <1>4, <1>5, <1>6, <1>7 DEF Developer

LEMMA NextOne == OneRun /\ Inv /\ [Next]_vars => Inv'
<1> SUFFICES ASSUME OneRun, Inv, [Next]_vars PROVE Inv'
  OBVIOUS
<1>1. IInv'
  BY NextIInv DEF Inv
<1>2. CASE Developer
  BY <1>1, <1>2, DeveloperOne DEF Inv
<1>3. ASSUME NEW r \in Runs, RunStep(r) PROVE OneInv'
  BY <1>3, StartOne, AdjustOne, PlanOne, WriteOne, EndOne DEF RunStep
<1>4. CASE UNCHANGED vars
  <2>1. UNCHANGED <<disk, manifest, pc, request, known, tracked, files, todo, verdict, settled,
                    dirty, vcs>>
    BY <1>4 DEF vars, projectVars, runVars, ghostVars
  <2>2. World'
    BY <2>1, WorldKept DEF Inv, OneInv
  <2>3. ASSUME NEW r \in Runs PROVE RunInv(r)'
    <3>1. RunInv(r)
      BY DEF Inv, OneInv
    <3>2. QED
      BY <2>1, <3>1 DEF RunInv, Known, InStep, Frozen, AsAsked, Appends, Planned, ToTouch, Done,
                        Again, Regenerates, NextLedger, Real, Wanted
  <2>4. QED
    BY <1>1, <2>2, <2>3 DEF Inv, OneInv
<1>5. QED
  BY <1>1, <1>2, <1>3, <1>4 DEF Next, Inv

LEMMA AlwaysOne == ASSUME OneRun PROVE Spec => []Inv
<1>1. Init => Inv
  BY InitIInv, InitOne DEF Inv
<1>2. Inv /\ [Next]_vars => Inv'
  BY NextOne
<1>3. QED
  BY <1>1, <1>2, PTL DEF Spec

-----------------------------------------------------------------------------
(* A step that takes a path off a run's plan writes that path, or is the   *)
(* end of the run.                                                         *)
LEMMA WhatIsWritten ==
    ASSUME OneRun, Inv, [Next]_vars, NEW r \in Runs, Writing(r)
    PROVE  \/ UNCHANGED disk
           \/ \E p \in todo[r] : \/ Write(r, p)
                                 \/ CrashWriting(r, p)
<1>1. pc[r] = "write" /\ todo'[r] # todo[r]
  BY DEF Writing
<1>2. CASE Developer
  BY <1>1, <1>2 DEF Developer, Edit, DamageManifest, Commit, Checkout, RestoreAll, runVars
<1>3. CASE RunStep(r)
  <2>1. CASE \E q \in Requests : Start(r, q) \/ StartRefused(r, q) \/ PreviewUntracked(r, q)
    BY <1>1, <2>1 DEF Start, StartRefused, PreviewUntracked
  <2>2. CASE Adjust(r)
    BY <1>1, <2>2 DEF Adjust, Begin, KeepHistory, AcceptManual, AdjustRefused, EmitMigration
  <2>3. CASE Preview(r) \/ PlanRefused(r) \/ Plan(r)
    BY <1>1, <2>3 DEF Preview, PlanRefused, Plan
  <2>4. CASE \E p \in Path : Write(r, p) \/ CrashWriting(r, p)
    BY <2>4 DEF Write, CrashWriting, NextFile
  <2>5. CASE Finish(r) \/ Crash(r) \/ CrashFinishing(r)
    BY <2>5 DEF Finish, Crash, CrashFinishing, projectVars
  <2>6. QED
    BY <1>3, <2>1, <2>2, <2>3, <2>4, <2>5 DEF RunStep
<1>4. CASE UNCHANGED vars
  BY <1>4 DEF vars, projectVars
<1>5. QED
  BY <1>2, <1>3, <1>4 DEF Next, OneRun

(* What a write and a torn write do.                                       *)
LEMMA OneWrite ==
    ASSUME Inv, NEW r \in Runs, NEW p \in todo[r], Write(r, p) \/ CrashWriting(r, p)
    PROVE  /\ p \in Path /\ pc[r] = "write" /\ Real(r)
           /\ \A q \in Path : q # p => disk'[q] = disk[q]
           /\ \/ disk'[p] = files[r][p]
              \/ disk'[p] = Torn /\ files[r][p] # Absent
           /\ ~dirty => p \in ToTouch(r)
<1>1. p \in Path /\ disk \in Files
  BY DEF Inv, IInv, TypeOK
<1>2. pc[r] = "write" /\ Real(r)
  BY DEF Write, CrashWriting, NextFile, Real, Inv, IInv, RunsBacked
<1>3. /\ \A q \in Path : q # p => disk'[q] = disk[q]
      /\ \/ disk'[p] = files[r][p]
         \/ disk'[p] = Torn /\ files[r][p] # Absent
  BY <1>1 DEF Write, CrashWriting, Files
<1>4. ~dirty => p \in ToTouch(r)
  BY <1>2 DEF Inv, OneInv, RunInv, Planned
<1>5. QED
  BY <1>1, <1>2, <1>3, <1>4

LEMMA MigrationStep ==
    ASSUME OneRun, Inv, [Next]_vars, GeneratorStep, NEW m \in HistoryPaths,
           disk[m] # Absent, disk[m] = manifest.files[m]
    PROVE  disk'[m] = disk[m] \/ (dirty /\ disk'[m] = Torn)
<1>1. PICK r \in Runs : Writing(r)
  BY DEF GeneratorStep
<1>2. m \in Path
  BY PathFacts
<1>3. CASE UNCHANGED disk
  BY <1>3
<1>4. ASSUME NEW p \in todo[r], Write(r, p) \/ CrashWriting(r, p)
      PROVE  disk'[m] = disk[m] \/ (dirty /\ disk'[m] = Torn)
  <2>1. /\ pc[r] = "write" /\ \A q \in Path : q # p => disk'[q] = disk[q]
        /\ \/ disk'[p] = files[r][p]
           \/ disk'[p] = Torn
        /\ ~dirty => p \in ToTouch(r)
    BY <1>4, OneWrite
  <2>2. tracked[r][m] = disk[m] /\ files[r][m] = disk[m]
    BY <2>1 DEF Inv, OneInv, RunInv, InStep, Frozen
  <2>3. m \notin ToTouch(r)
    BY <2>2, UnchangedUntouched DEF ToTouch
  <2>4. QED
    BY <1>2, <2>1, <2>2, <2>3
<1>5. QED
  BY <1>1, <1>3, <1>4, WhatIsWritten

(* One run at a time, no step of the generator changes, deletes or tears a *)
(* migration that is as the manifest has it: --force, crashes and edits    *)
(* during the run included, up to the one exception the property names.    *)
(* applyIncrementalMigrations, planGeneration, writePlan.                  *)
THEOREM MigrationsStay == ASSUME OneRun PROVE Spec => MigrationsImmutable
<1>1. Inv /\ [Next]_vars =>
         [GeneratorStep =>
            \A m \in HistoryPaths :
               disk[m] # Absent /\ disk[m] = manifest.files[m] =>
                  disk'[m] = disk[m] \/ (dirty /\ disk'[m] = Torn)]_vars
  BY MigrationStep
<1>2. QED
  BY <1>1, AlwaysOne, PTL DEF Spec, MigrationsImmutable

LEMMA DeveloperWorkStep ==
    ASSUME OneRun, Inv, [Next]_vars, NEW r \in Runs, Writing(r), ~dirty, NEW p \in Path
    PROVE  /\ p \in CustomPaths /\ disk[p] # Absent => disk'[p] = disk[p]
           /\ /\ disk[p] # Absent /\ disk[p].type \in {"edited", "manual"}
              /\ ~request[r].options.force
              => disk'[p] = disk[p]
<1>1. CASE UNCHANGED disk
  BY <1>1
<1>2. ASSUME NEW q \in todo[r], Write(r, q) \/ CrashWriting(r, q)
      PROVE  \/ disk'[p] = disk[p]
             \/ p = q /\ pc[r] = "write" /\ p \in ToTouch(r)
  BY <1>2, OneWrite
<1>3. p \in CustomPaths /\ disk[p] # Absent => p \notin ToTouch(r)
  BY DEF ToTouch, Touched, Creates, Updates, Deletes, Foreign, RenderedGenerated
<1>4. ASSUME disk[p] # Absent, disk[p].type \in {"edited", "manual"},
             ~request[r].options.force, pc[r] = "write"
      PROVE  p \notin ToTouch(r)
  <2>1. Genuine(tracked[r]) /\ Frozen(r)
    BY DEF Inv, OneInv, RunInv, Known
  <2>2. tracked[r][p] = disk[p] => files[r][p] = disk[p]
    BY <1>4, <2>1 DEF Genuine, Frozen
  <2>3. QED
    BY <1>4, <2>2 DEF ToTouch, Touched, Creates, Updates, Deletes, Present
<1>5. QED
  BY <1>1, <1>2, <1>3, <1>4, WhatIsWritten

(* One run at a time, what a developer made of a file before the run is    *)
(* still there after every step of it, unless --force asks otherwise; a    *)
(* custom file is there whatever is asked.  planGeneration, writePlan.     *)
THEOREM DeveloperWorkStays == ASSUME OneRun PROVE Spec => KeepsDeveloperWork
<1>1. Inv /\ [Next]_vars =>
         [\A r \in Runs : Writing(r) /\ ~dirty =>
            \A p \in Path :
               /\ p \in CustomPaths /\ disk[p] # Absent => disk'[p] = disk[p]
               /\ /\ disk[p] # Absent /\ disk[p].type \in {"edited", "manual"}
                  /\ ~request[r].options.force
                  => disk'[p] = disk[p]]_vars
  BY DeveloperWorkStep
<1>2. QED
  BY <1>1, AlwaysOne, PTL DEF Spec, KeepsDeveloperWork

LEMMA LastStep ==
    ASSUME OneRun, Inv, [Next]_vars, NEW n \in Prefix, GeneratorStep, ~dirty,
           disk[Incremental(n)] = Absent, disk'[Incremental(n)] # Absent,
           NEW k \in MigrationPaths, disk[k] # Absent
    PROVE  k.n < n
<1> DEFINE m == Incremental(n)
<1>1. m \in Path /\ m \in MigrationPaths /\ m.n = n
  BY PathFacts DEF MigrationPaths
<1>2. PICK r \in Runs : Writing(r)
  BY DEF GeneratorStep
<1>3. PICK p \in todo[r] : Write(r, p) \/ CrashWriting(r, p)
  BY <1>2, WhatIsWritten
<1>4. Real(r) /\ files[r][m] # Absent
  BY <1>1, <1>3, OneWrite
<1>5. Appends(r)
  BY DEF Inv, OneInv, RunInv
<1>6. QED
  BY <1>1, <1>4, <1>5 DEF Appends

(* One run at a time, a migration directory that appears is numbered after *)
(* every migration on disk, hand-written ones included.                    *)
(* nextMigrationPrefix, acceptManualTransition.                            *)
THEOREM MigrationsAppend == ASSUME OneRun PROVE Spec => NewMigrationsDeployLast
<1>1. Inv /\ [Next]_vars =>
         [\A n \in Prefix : GeneratorStep /\ ~dirty /\ disk[Incremental(n)] = Absent
                              /\ disk'[Incremental(n)] # Absent
            => \A m \in MigrationPaths : disk[m] # Absent => m.n < n]_vars
  BY LastStep
<1>2. QED
  BY <1>1, AlwaysOne, PTL DEF Spec, NewMigrationsDeployLast

-----------------------------------------------------------------------------
(* Regenerating a complete generation.  Nothing to do is left at any step  *)
(* of the run, and none of the refusals applies.                           *)
LEMMA RegeneratingNow ==
    ASSUME Inv, NEW r \in Runs, Regenerates(r)
    PROVE  /\ verdict = "running" /\ todo[r] = {} /\ pc[r] # "idle"
           /\ tracked[r] = manifest.files /\ known[r] = TRUE
           /\ manifest.status = "present"
           /\ Steady(disk, manifest, settled) /\ settled # NoSpec
           /\ pc[r] \in {"plan", "write"} => files[r] = manifest.files
<1>1. Known(r) /\ InStep(r) /\ Again(r) /\ Steady(disk, manifest, settled)
  BY DEF Inv, OneInv, RunInv, World
<1>2. pc[r] \in {"idle", "adjust", "plan", "write"} /\ known[r] \in BOOLEAN
  BY DEF Inv, IInv, TypeOK
<1>3. QED
  BY <1>1, <1>2 DEF Known, InStep, Again, Steady, Regenerates

LEMMA RegeneratingKeeps ==
    ASSUME Inv, NEW r \in Runs, Regenerates(r), pc[r] = "adjust",
           disk[AcceptedPath] = manifest.files[AcceptedPath]
    PROVE  CanKeep(r)
<1> DEFINE t == tracked[r]
<1>1. /\ t = manifest.files /\ known[r] = TRUE /\ Steady(disk, manifest, settled)
      /\ settled # NoSpec /\ Backed(t)
  BY RegeneratingNow DEF Inv, IInv, HistoryBacksSnapshot
<1>2. \A p \in HistoryPaths \cup {SnapshotPath} : t[p] # Absent => disk[p] = t[p]
  <2>1. HistoryPaths \cup {SnapshotPath} \subseteq Path \ CustomPaths
    BY PathFacts
  <2>2. QED
    BY <1>1, <2>1 DEF Steady
<1>3. disk[SnapshotPath] = t[SnapshotPath] /\ disk[InitPath] = t[InitPath]
  BY <1>1, <1>2 DEF Backed, HistoryPaths
<1>4. \A m \in IncrementalPaths : disk[m] = t[m]
  BY <1>1 DEF Steady
<1>5. \A m \in ManualPaths : t[m] # Absent => disk[m] = t[m]
  BY <1>2, PathFacts
<1>6. Trusted(r)
  BY <1>1, <1>3, <1>4, <1>5 DEF Trusted, TrustedHistory, Backed
<1>7. Changes(Current(r), Wanted(r)) = {}
  BY <1>6, NoChangesAgain
<1>8. QED
  BY <1>6, <1>7 DEF CanKeep, Regenerates

LEMMA RegeneratingStep ==
    ASSUME OneRun, Inv, [Next]_vars, NEW r \in Runs, Regenerates(r),
           disk[AcceptedPath] = manifest.files[AcceptedPath]
    PROVE  NothingToDo(r)'
<1>1. verdict = "running" /\ todo[r] = {} /\ pc[r] # "idle"
  BY RegeneratingNow
<1> USE DEF NothingToDo
<1>2. CASE Developer
  BY <1>1, <1>2 DEF Developer, Edit, DamageManifest, Commit, Checkout, RestoreAll, runVars
<1>3. CASE RunStep(r)
  <2>1. CASE \E q \in Requests : Start(r, q) \/ StartRefused(r, q) \/ PreviewUntracked(r, q)
    BY <1>1, <2>1 DEF Start, StartRefused, PreviewUntracked
  <2>2. CASE Begin(r) \/ KeepHistory(r) \/ AcceptManual(r) \/ \E n \in Prefix : EmitMigration(r, n)
    <3>1. UNCHANGED <<verdict, todo>>
      BY <2>2 DEF Begin, KeepHistory, AcceptManual, EmitMigration, Adjusted, ghostVars
    <3>2. QED
      BY <1>1, <3>1
  <2>3. CASE AdjustRefused(r)
    BY <2>3, RegeneratingKeeps DEF AdjustRefused
  <2>4. CASE Preview(r)
    BY <2>4 DEF Preview, Refuse, Stop, Inv, IInv, TypeOK
  <2>5. CASE PlanRefused(r) \/ Plan(r)
    <3>1. pc[r] = "plan"
      BY <2>5 DEF PlanRefused, Plan
    <3>2. /\ files[r] = manifest.files /\ tracked[r] = manifest.files
          /\ settled # NoSpec /\ Steady(disk, manifest, settled)
      BY <3>1, RegeneratingNow
    <3>3. PlanConflicts(r) = {} /\ ToTouch(r) = {}
      BY <3>2, NothingToTouch DEF PlanConflicts, ToTouch
    <3>4. CASE PlanRefused(r)
      BY <3>3, <3>4 DEF PlanRefused
    <3>5. CASE Plan(r)
      BY <1>1, <3>3, <3>5 DEF Plan, ToTouch, ghostVars, Inv, IInv, TypeOK
    <3>6. QED
      BY <2>5, <3>4, <3>5
  <2>6. CASE \E p \in Path : Write(r, p) \/ CrashWriting(r, p)
    BY <1>1, <2>6 DEF Write, CrashWriting, NextFile
  <2>7. CASE Finish(r) \/ Crash(r) \/ CrashFinishing(r)
    BY <2>7 DEF Finish, Crash, CrashFinishing, Stop, Inv, IInv, TypeOK
  <2>8. QED
    BY <1>3, <2>1, <2>2, <2>3, <2>4, <2>5, <2>6, <2>7 DEF RunStep, Adjust
<1>4. CASE UNCHANGED vars
  BY <1>1, <1>4 DEF vars, runVars, ghostVars
<1>5. QED
  BY <1>2, <1>3, <1>4 DEF Next, OneRun

(* One run at a time, running the generator again on the specification of  *)
(* a complete, undisturbed generation is never refused and writes nothing. *)
(* applyIncrementalMigrations, planGeneration.                             *)
THEOREM RegenerationIsStable == ASSUME OneRun PROVE Spec => StableRegeneration
<1>1. Inv /\ [Next]_vars =>
         [\A r \in Runs :
            Regenerates(r) /\ disk[AcceptedPath] = manifest.files[AcceptedPath]
            => NothingToDo(r)']_vars
  BY RegeneratingStep
<1>2. QED
  BY <1>1, AlwaysOne, PTL DEF Spec, StableRegeneration

-----------------------------------------------------------------------------
(* The generator keeps a ledger.                                           *)
LEMMA LedgerIsThere ==
    ASSUME NEW m, m.status = "present"
    PROVE  LedgerOf(m) # NoLedger
<1> DEFINE l == [base |-> m.files[InitPath].to, links |-> Links(m.files),
                 top |-> m.files[SnapshotPath].schema]
<1>1. "base" \in DOMAIN l /\ "base" \notin DOMAIN NoLedger
  BY DEF NoLedger
<1>2. QED
  BY <1>1 DEF LedgerOf

LEMMA InitLedger == Init => Abstract!LedgerInit
  BY DEF Init, Abstract!LedgerInit, LedgerOf, NoManifest

LEMMA FinishLedger ==
    ASSUME Inv, NEW r \in Runs, Finish(r)
    PROVE  \/ UNCHANGED Abstract!ledgerVars
           \/ Abstract!LedgerNext
<1>1. /\ pc[r] = "write" /\ manifest' = ManifestOf(files[r]) /\ UNCHANGED vcs
  BY DEF Finish
<1>2. Real(r) /\ Wanted(r) \in Schema
  BY <1>1, RequestTypes DEF Real, Wanted, Inv, IInv, RunsBacked
<1>3. NextLedger(r) /\ InStep(r)
  BY DEF Inv, OneInv, RunInv
<1> DEFINE old == LedgerOf(manifest)
           new == LedgerOf(manifest)'
<1>4. UNCHANGED LedgerOf(vcs.manifest) /\ new = LedgerOf(ManifestOf(files[r]))
  BY <1>1
<1>5. CASE ~known[r]
  <2>1. old = NoLedger /\ new = Abstract!Start(Wanted(r))
    BY <1>1, <1>2, <1>3, <1>4, <1>5 DEF NextLedger, InStep, LedgerOf
  <2>2. Abstract!Open(Wanted(r))
    BY <1>4, <2>1 DEF Abstract!Open
  <2>3. QED
    BY <1>2, <2>2 DEF Abstract!LedgerNext
<1>6. CASE known[r] /\ new = old
  BY <1>4, <1>6 DEF Abstract!ledgerVars
<1>7. CASE known[r] /\ new # old
  <2>1. old # NoLedger
    BY <1>1, <1>3, <1>7, LedgerIsThere DEF InStep
  <2>2. Grown(old, new, Wanted(r))
    BY <1>2, <1>3, <1>4, <1>7 DEF NextLedger
  <2>3. PICK n \in Prefix : /\ \A l \in old.links : l.at < n
                            /\ new = Abstract!Extended(old, n, Wanted(r))
    BY <2>2 DEF Grown
  <2>4. Abstract!Advance(n, Wanted(r))
    BY <1>4, <2>1, <2>2, <2>3 DEF Grown, Abstract!Advance
  <2>5. QED
    BY <1>2, <2>4 DEF Abstract!LedgerNext
<1>8. QED
  BY <1>5, <1>6, <1>7

LEMMA LedgerStep == OneRun /\ Inv /\ [Next]_vars => [Abstract!LedgerNext]_(Abstract!ledgerVars)
<1> SUFFICES ASSUME OneRun, Inv, [Next]_vars
             PROVE  UNCHANGED Abstract!ledgerVars \/ Abstract!LedgerNext
  OBVIOUS
<1>1. ASSUME UNCHANGED <<manifest, vcs>> PROVE UNCHANGED Abstract!ledgerVars
  BY <1>1 DEF Abstract!ledgerVars
<1>2. ASSUME manifest' \in {NoManifest, BrokenManifest}, UNCHANGED vcs
      PROVE  Abstract!LedgerNext
  <2>1. LedgerOf(manifest)' = NoLedger /\ UNCHANGED LedgerOf(vcs.manifest)
    BY <1>2 DEF LedgerOf, NoManifest, BrokenManifest
  <2>2. QED
    BY <2>1 DEF Abstract!Lose, Abstract!LedgerNext
<1>3. ASSUME vcs.manifest # NoManifest, manifest' = vcs.manifest, UNCHANGED vcs
      PROVE  Abstract!LedgerNext
  <2>1. LedgerOf(vcs.manifest) # NoLedger
    BY <1>3, LedgerIsThere DEF Inv, OneInv, World
  <2>2. LedgerOf(manifest)' = LedgerOf(vcs.manifest) /\ UNCHANGED LedgerOf(vcs.manifest)
    BY <1>3
  <2>3. QED
    BY <2>1, <2>2 DEF Abstract!Rewind, Abstract!LedgerNext
<1>4. CASE Developer
  <2>1. ASSUME NEW p \in Path, NEW c \in EditsOf(p), Edit(p, c)
        PROVE  UNCHANGED Abstract!ledgerVars
    BY <1>1, <2>1 DEF Edit
  <2>2. ASSUME NEW m \in {NoManifest, BrokenManifest}, DamageManifest(m)
        PROVE  Abstract!LedgerNext
    BY <1>2, <2>2 DEF DamageManifest
  <2>3. CASE Commit
    <3>1. settled # NoSpec /\ UNCHANGED manifest /\ vcs'.manifest = manifest
      BY <2>3 DEF Commit, projectVars
    <3>2. LedgerOf(manifest) # NoLedger
      BY <3>1, LedgerIsThere DEF Inv, OneInv, World, Steady
    <3>3. UNCHANGED LedgerOf(manifest) /\ LedgerOf(vcs.manifest)' = LedgerOf(manifest)
      BY <3>1
    <3>4. QED
      BY <3>2, <3>3 DEF Abstract!Save, Abstract!LedgerNext
  <2>4. CASE Checkout \/ RestoreAll
    BY <1>3, <2>4 DEF Checkout, RestoreAll
  <2>5. QED
    BY <1>4, <2>1, <2>2, <2>3, <2>4 DEF Developer
<1>5. ASSUME NEW r \in Runs, RunStep(r)
      PROVE  UNCHANGED Abstract!ledgerVars \/ Abstract!LedgerNext
  <2>1. CASE \E q \in Requests : Start(r, q) \/ StartRefused(r, q) \/ PreviewUntracked(r, q)
    BY <1>1, <2>1 DEF Start, StartRefused, PreviewUntracked, projectVars
  <2>2. CASE Adjust(r)
    BY <1>1, <2>2 DEF Adjust, Begin, KeepHistory, AcceptManual, AdjustRefused, EmitMigration,
                      Adjusted, Refuse, projectVars
  <2>3. CASE Preview(r) \/ PlanRefused(r) \/ Plan(r)
    BY <1>1, <2>3 DEF Preview, PlanRefused, Plan, Refuse, projectVars
  <2>4. CASE Crash(r) \/ \E p \in Path : Write(r, p) \/ CrashWriting(r, p)
    BY <1>1, <2>4 DEF Crash, Write, CrashWriting, projectVars
  <2>5. CASE CrashFinishing(r)
    BY <1>2, <2>5 DEF CrashFinishing
  <2>6. CASE Finish(r)
    BY <2>6, FinishLedger
  <2>7. QED
    BY <1>5, <2>1, <2>2, <2>3, <2>4, <2>5, <2>6 DEF RunStep
<1>6. CASE UNCHANGED vars
  BY <1>1, <1>6 DEF vars, projectVars
<1>7. QED
  BY <1>4, <1>5, <1>6 DEF Next

(* One run at a time, the generator implements a ledger of schema          *)
(* transitions: whatever is edited, torn, committed or restored, a run     *)
(* that completes leaves the recorded history alone or adds to its end the *)
(* one transition it was asked for.  generateBackend.                      *)
THEOREM KeepsALedger == ASSUME OneRun PROVE Spec => KeepsLedger
<1>1. Init => Abstract!LedgerInit
  BY InitLedger
<1>2. Inv /\ [Next]_vars => [Abstract!LedgerNext]_(Abstract!ledgerVars)
  BY LedgerStep
<1>3. QED
  BY <1>1, <1>2, AlwaysOne, PTL DEF Spec, KeepsLedger, Abstract!LedgerSpec
-----------------------------------------------------------------------------
(* A run of the tests, of any generated files, with any options and any    *)
(* number of edits meanwhile.                                              *)
TestSpec(states, runs) == TestInit(states, runs) /\ [][TestNext]_testVars

(* A run with its options, whatever it has counted.                        *)
Names == {"ci", "install", "db:generate", "db:validate", "build", "test", "db:deploy",
          "test:integration"}
Command == [name: Names, result: Outcome]
RunsThatCounted(tests) ==
    [caller: {"cli", "mcp"}, install: BOOLEAN, integration: BOOLEAN, lock: BOOLEAN,
     database: BOOLEAN, dotenv: BOOLEAN, npm: BOOLEAN, manifest: {"none", "unowned", "valid"},
     read: SUBSET GeneratedFiles, commands: Seq(Command),
     state: {"verifying", "running", "passed", "failed"}, tests: {tests}]
TestTypes == /\ testrun \in RunsThatCounted(testrun.tests)
             /\ generated \in [GeneratedFiles -> {"asWritten", "edited", "missing"}]
             /\ edits \in Nat /\ untouched \subseteq GeneratedFiles

(* A file that was read was as written, and one that is not was edited, or *)
(* was so from the beginning.                                              *)
FilesWere == /\ testrun.read \subseteq untouched
             /\ {f \in GeneratedFiles : generated[f] = "asWritten"} \subseteq untouched
             /\ edits = 0 => untouched = {f \in GeneratedFiles : generated[f] = "asWritten"}

(* Nothing is run before every file was read.                              *)
NothingYet == testrun.state = "verifying" => testrun.commands = <<>>
Cleared == testrun.state = "running" \/ testrun.commands # <<>> =>
              testrun.manifest = "valid" /\ testrun.read = GeneratedFiles

(* The commands that were run are the first of the steps, each ended in a  *)
(* way it can, and all but the tests had to succeed for the next to run;   *)
(* nothing is counted before the end.                                      *)
Ran == /\ Len(testrun.commands) <= Len(Steps(testrun))
       /\ \A i \in DOMAIN testrun.commands :
             /\ testrun.commands[i].name = Steps(testrun)[i]
             /\ testrun.commands[i].result \in Ends(testrun, Steps(testrun)[i])
Goes == testrun.state \in {"verifying", "running"} =>
           /\ Len(testrun.commands) < Len(Steps(testrun))
           /\ \A i \in DOMAIN testrun.commands :
                 EndsRun(testrun.commands[i].name) => testrun.commands[i].result.exit = 0
           /\ testrun.tests = [passed |-> 0, failed |-> 0]
Passed == testrun.state = "passed" => /\ Len(testrun.commands) = Len(Steps(testrun))
                                      /\ Success(testrun)

TInv == /\ TestTypes /\ FilesWere /\ NothingYet /\ Cleared /\ Ran /\ Goes /\ Passed
        /\ FailureIsReal /\ CountsAreTrue

-----------------------------------------------------------------------------
LEMMA Joined ==
    ASSUME NEW S, NEW s \in Seq(S), NEW t \in Seq(S), NEW v, v = s \o t
    PROVE  /\ v \in Seq(S) /\ Len(v) = Len(s) + Len(t)
           /\ \A i \in 1 .. Len(s) : v[i] = s[i]
           /\ \A i \in 1 .. Len(t) : v[Len(s) + i] = t[i]
<1>1. Len(s) \in Nat /\ Len(t) \in Nat
  BY LenProperties
<1>2. /\ v \in Seq(S) /\ Len(v) = Len(s) + Len(t)
      /\ \A i \in 1 .. Len(s) + Len(t) : v[i] = IF i <= Len(s) THEN s[i] ELSE t[i - Len(s)]
  BY ConcatProperties
<1>3. ASSUME NEW i \in 1 .. Len(s) PROVE v[i] = s[i]
  BY <1>1, <1>2
<1>4. ASSUME NEW i \in 1 .. Len(t) PROVE v[Len(s) + i] = t[i]
  <2>1. Len(s) + i \in 1 .. Len(s) + Len(t) /\ ~(Len(s) + i <= Len(s)) /\ (Len(s) + i) - Len(s) = i
    BY <1>1
  <2> QED BY <1>2, <2>1
<1> QED BY <1>2, <1>3, <1>4

LEMMA JoinedTwice ==
    ASSUME NEW S, NEW s \in Seq(S), NEW t \in Seq(S), NEW u \in Seq(S), NEW w, w = s \o t \o u
    PROVE  /\ w \in Seq(S) /\ Len(w) = Len(s) + Len(t) + Len(u)
           /\ \A i \in 1 .. Len(s) : w[i] = s[i]
           /\ \A i \in 1 .. Len(t) : w[Len(s) + i] = t[i]
           /\ \A i \in 1 .. Len(u) : w[Len(s) + Len(t) + i] = u[i]
<1>0. PICK v : v = s \o t
  OBVIOUS
<1>1. /\ v \in Seq(S) /\ Len(v) = Len(s) + Len(t)
      /\ \A i \in 1 .. Len(s) : v[i] = s[i]
      /\ \A i \in 1 .. Len(t) : v[Len(s) + i] = t[i]
  BY <1>0, Joined
<1>2. /\ w \in Seq(S) /\ Len(w) = Len(v) + Len(u)
      /\ \A i \in 1 .. Len(v) : w[i] = v[i]
      /\ \A i \in 1 .. Len(u) : w[Len(v) + i] = u[i]
  <2>1. w = v \o u /\ v \in Seq(S)
    BY <1>0, <1>1
  <2> QED BY <2>1, Joined
<1>3. Len(s) \in Nat /\ Len(t) \in Nat /\ Len(u) \in Nat
  BY LenProperties
<1>4. ASSUME NEW i \in 1 .. Len(s) PROVE w[i] = s[i]
  BY <1>1, <1>2, <1>3
<1>5. ASSUME NEW i \in 1 .. Len(t) PROVE w[Len(s) + i] = t[i]
  BY <1>1, <1>2, <1>3
<1> QED BY <1>1, <1>2, <1>3, <1>4, <1>5

(* What is run: a sequence of commands, and which command is where.        *)
LEMMA StepsAre ==
    ASSUME NEW r, r.install \in BOOLEAN, r.integration \in BOOLEAN
    PROVE  \E k \in {0, 4}, n \in {0, 2} :
              /\ k = (IF r.install THEN 4 ELSE 0) /\ n = (IF r.integration THEN 2 ELSE 0)
              /\ Steps(r) \in Seq(Names) /\ Len(Steps(r)) = k + 1 + n
              /\ Steps(r)[k + 1] = "test"
              /\ r.install => /\ Steps(r)[1] \in {"ci", "install"} /\ Steps(r)[2] = "db:generate"
                              /\ Steps(r)[3] = "db:validate" /\ Steps(r)[4] = "build"
              /\ r.integration => /\ Steps(r)[k + 2] = "db:deploy"
                                  /\ Steps(r)[k + 3] = "test:integration"
<1>1. PICK k, a :
         /\ k = (IF r.install THEN 4 ELSE 0)
         /\ a = IF r.install THEN <<IF r.lock THEN "ci" ELSE "install",
                                    "db:generate", "db:validate", "build">> ELSE <<>>
  BY Zenon
<1>a. /\ k \in {0, 4} /\ a \in Seq(Names) /\ Len(a) = k
      /\ r.install => /\ a[1] \in {"ci", "install"} /\ a[2] = "db:generate"
                      /\ a[3] = "db:validate" /\ a[4] = "build"
  <2>1. CASE r.install
    <3>1. k = 4 /\ a = <<IF r.lock THEN "ci" ELSE "install", "db:generate", "db:validate", "build">>
      BY <1>1, <2>1
    <3> QED BY <3>1 DEF Names
  <2>2. CASE ~r.install
    <3>1. k = 0 /\ a = <<>>
      BY <1>1, <2>2
    <3> QED BY <2>2, <3>1
  <2> QED BY <2>1, <2>2
<1>2. PICK b : b = <<"test">>
  OBVIOUS
<1>b. b \in Seq(Names) /\ Len(b) = 1 /\ b[1] = "test"
  BY <1>2 DEF Names
<1>3. PICK n, c :
         /\ n = (IF r.integration THEN 2 ELSE 0)
         /\ c = IF r.integration THEN <<"db:deploy", "test:integration">> ELSE <<>>
  BY Zenon
<1>c. /\ n \in {0, 2} /\ c \in Seq(Names) /\ Len(c) = n
      /\ r.integration => c[1] = "db:deploy" /\ c[2] = "test:integration"
  <2>1. CASE r.integration
    <3>1. n = 2 /\ c = <<"db:deploy", "test:integration">>
      BY <1>3, <2>1
    <3> QED BY <3>1 DEF Names
  <2>2. CASE ~r.integration
    <3>1. n = 0 /\ c = <<>>
      BY <1>3, <2>2
    <3> QED BY <2>2, <3>1
  <2> QED BY <2>1, <2>2
<1>4. PICK w : w = Steps(r) /\ w = a \o b \o c
  BY <1>1, <1>2, <1>3 DEF Steps
<1>5. /\ Steps(r) \in Seq(Names) /\ Len(Steps(r)) = Len(a) + Len(b) + Len(c)
      /\ \A i \in 1 .. Len(a) : Steps(r)[i] = a[i]
      /\ \A i \in 1 .. Len(b) : Steps(r)[Len(a) + i] = b[i]
      /\ \A i \in 1 .. Len(c) : Steps(r)[Len(a) + Len(b) + i] = c[i]
  <2>1. a \in Seq(Names) /\ b \in Seq(Names) /\ c \in Seq(Names)
    BY <1>a, <1>b, <1>c
  <2>2. /\ w \in Seq(Names) /\ Len(w) = Len(a) + Len(b) + Len(c)
        /\ \A i \in 1 .. Len(a) : w[i] = a[i]
        /\ \A i \in 1 .. Len(b) : w[Len(a) + i] = b[i]
        /\ \A i \in 1 .. Len(c) : w[Len(a) + Len(b) + i] = c[i]
    BY <2>1, <1>4, JoinedTwice
  <2> QED BY <1>4, <2>2, Zenon
<1>6. Steps(r)[k + 1] = "test" /\ Len(Steps(r)) = k + 1 + n
  BY <1>a, <1>b, <1>c, <1>5
<1>7. r.install => /\ Steps(r)[1] \in {"ci", "install"} /\ Steps(r)[2] = "db:generate"
                   /\ Steps(r)[3] = "db:validate" /\ Steps(r)[4] = "build"
  BY <1>1, <1>a, <1>5
<1>8. r.integration => /\ Steps(r)[k + 2] = "db:deploy"
                       /\ Steps(r)[k + 3] = "test:integration"
  <2>1. ASSUME r.integration PROVE Steps(r)[k + 1 + 1] = c[1] /\ Steps(r)[k + 1 + 2] = c[2]
    BY <2>1, <1>a, <1>b, <1>c, <1>3, <1>5
  <2>2. k + 1 + 1 = k + 2 /\ k + 1 + 2 = k + 3
    BY <1>a
  <2> QED BY <1>c, <2>1, <2>2
<1> QED BY <1>1, <1>3, <1>a, <1>c, <1>5, <1>6, <1>7, <1>8

(* No tests are run before the project is installed.                       *)
LEMMA TestsComeLast ==
    ASSUME NEW r, r.install \in BOOLEAN, r.integration \in BOOLEAN,
           NEW i \in 1 .. Len(Steps(r)), NEW h \in 1 .. i,
           Steps(r)[i] \notin {"test", "db:deploy", "test:integration"}
    PROVE  Steps(r)[h] \notin Tests
<1>1. PICK k \in {0, 4}, n \in {0, 2} :
         /\ k = (IF r.install THEN 4 ELSE 0) /\ n = (IF r.integration THEN 2 ELSE 0)
         /\ Len(Steps(r)) = k + 1 + n
         /\ Steps(r)[k + 1] = "test"
         /\ r.install => /\ Steps(r)[1] \in {"ci", "install"} /\ Steps(r)[2] = "db:generate"
                         /\ Steps(r)[3] = "db:validate" /\ Steps(r)[4] = "build"
         /\ r.integration => /\ Steps(r)[k + 2] = "db:deploy"
                             /\ Steps(r)[k + 3] = "test:integration"
  BY StepsAre
<1>2. i <= k
  BY <1>1
<1> QED BY <1>1, <1>2 DEF Tests

(* The steps do not change while a run goes on.                            *)
LEMMA StepsStay ==
    ASSUME NEW r, NEW q, q.install = r.install, q.integration = r.integration, q.lock = r.lock
    PROVE  Steps(q) = Steps(r)
  BY DEF Steps
LEMMA EndsStay ==
    ASSUME NEW r, NEW q, NEW command, q.caller = r.caller, q.database = r.database,
           q.dotenv = r.dotenv
    PROVE  Ends(q, command) = Ends(r, command)
  BY DEF Ends, CanWork, ReachesDatabase

LEMMA EndsType ==
    ASSUME NEW r, NEW command, NEW e \in Ends(r, command)
    PROVE  /\ e \in Outcome /\ (e.exit = 0 => e.failed = 0)
           /\ command \in NeedsDatabase /\ e.exit = 0 => ReachesDatabase(r)
  BY DEF Ends, Outcome, Silent, CanWork

(* What was printed by commands of which none is counted is nothing.       *)
LEMMA TotalOfNone ==
    ASSUME NEW r, Len(r.commands) \in 0 .. 7
    PROVE  Totals(r, {}) = [passed |-> 0, failed |-> 0]
<1>1. ASSUME NEW tests \in {"passed", "failed"} PROVE Total(r, {}, tests) = 0
  <2> DEFINE n == Len(r.commands)
             Sums(f) == f = [i \in 0 .. n |->
                               IF i = 0 THEN 0
                               ELSE f[i - 1]
                                    + IF i \in {} THEN r.commands[i].result[tests] ELSE 0]
             sum == CHOOSE f : Sums(f)
  <2> HIDE DEF Sums, sum
  <2>1. n \in 0 .. 7
    OBVIOUS
  <2>2. Sums([i \in 0 .. n |-> 0])
    BY <2>1 DEF Sums
  <2>3. Sums(sum)
    BY <2>2, Zenon DEF sum
  <2>4. sum[n] = 0
    <3> HIDE DEF n
    <3>1. sum[0] = 0 /\ \A i \in 1 .. n : sum[i] = sum[i - 1] + 0
      BY <2>1, <2>3 DEF Sums
    <3>2. CASE n = 0
      BY <3>1, <3>2
    <3>3. CASE n > 0
      <4>1. sum[1] = 0
        BY <2>1, <3>1, <3>3
      <4>2. n >= 2 => sum[2] = 0
        BY <2>1, <3>1, <4>1
      <4>3. n >= 3 => sum[3] = 0
        BY <2>1, <3>1, <4>2
      <4>4. n >= 4 => sum[4] = 0
        BY <2>1, <3>1, <4>3
      <4>5. n >= 5 => sum[5] = 0
        BY <2>1, <3>1, <4>4
      <4>6. n >= 6 => sum[6] = 0
        BY <2>1, <3>1, <4>5
      <4>7. n >= 7 => sum[7] = 0
        BY <2>1, <3>1, <4>6
      <4> QED BY <2>1, <3>3, <4>1, <4>2, <4>3, <4>4, <4>5, <4>6, <4>7
    <3> QED BY <2>1, <3>2, <3>3
  <2> QED BY <2>4, Zenon DEF Total, sum, Sums
<1> QED BY <1>1 DEF Totals

LEMMA SameTotals ==
    ASSUME NEW r, NEW q, NEW some, r.commands = q.commands
    PROVE  Totals(r, some) = Totals(q, some)
  BY DEF Totals, Total

LEMMA FewCommands ==
    ASSUME TestTypes, Ran PROVE Len(testrun.commands) \in 0 .. 7
<1>1. testrun.install \in BOOLEAN /\ testrun.integration \in BOOLEAN
      /\ testrun.commands \in Seq(Command)
  BY DEF TestTypes, RunsThatCounted
<1>2. PICK k \in {0, 4}, n \in {0, 2} : Len(Steps(testrun)) = k + 1 + n
  BY <1>1, StepsAre
<1>3. Len(testrun.commands) \in Nat
  BY <1>1, LenProperties
<1>4. \A x, y \in Nat : x <= y /\ y <= 7 => x \in 0 .. 7
  OBVIOUS
<1>5. Len(Steps(testrun)) \in Nat /\ Len(Steps(testrun)) <= 7
  BY <1>2
<1> QED BY <1>3, <1>4, <1>5 DEF Ran

-----------------------------------------------------------------------------
LEMMA InitTested ==
    ASSUME NEW states, NEW runs, states \subseteq {"asWritten", "edited", "missing"},
           runs \subseteq NewRuns, TestInit(states, runs)
    PROVE  TInv
<1>1. testrun \in NewRuns
  BY DEF TestInit
<1>2. /\ testrun.commands = <<>> /\ testrun.state = "verifying" /\ testrun.read = {}
      /\ testrun.tests = [passed |-> 0, failed |-> 0]
      /\ testrun.install \in BOOLEAN /\ testrun.integration \in BOOLEAN
  BY <1>1 DEF NewRuns
<1>3. TestTypes
  <2>1. testrun \in RunsThatCounted(testrun.tests)
    <3>1. {} \in SUBSET GeneratedFiles /\ <<>> \in Seq(Command)
      BY EmptySeq
    <3>2. PICK t : testrun.tests = t
      OBVIOUS
    <3> QED BY <1>1, <3>1, <3>2 DEF NewRuns, RunsThatCounted
  <2> QED BY <2>1 DEF TestInit, TestTypes
<1>4. FilesWere
  BY <1>2 DEF TestInit, FilesWere
<1>5. Ran /\ Goes
  <2>1. Len(testrun.commands) = 0 /\ DOMAIN testrun.commands = {}
    BY <1>2
  <2>2. PICK k \in {0, 4}, n \in {0, 2} : Len(Steps(testrun)) = k + 1 + n
    BY <1>2, StepsAre
  <2> QED BY <1>2, <2>1, <2>2 DEF Ran, Goes
<1> QED BY <1>2, <1>3, <1>4, <1>5
        DEF TInv, NothingYet, Cleared, Passed, FailureIsReal, CountsAreTrue

(* A run that is refused has run nothing.                                  *)
LEMMA RefusedKeeps ==
    ASSUME TInv, testrun.state = "verifying", testrun' = Refused(testrun),
           UNCHANGED <<generated, untouched, edits>>,
           testrun.manifest # "valid" \/ edits > 0 \/ untouched # GeneratedFiles
    PROVE  TInv'
<1>1. /\ testrun' \in RunsThatCounted(testrun'.tests)
      /\ testrun'.state = "failed" /\ testrun'.read = testrun.read
      /\ testrun'.commands = <<>> /\ testrun.commands = <<>>
      /\ testrun'.manifest = testrun.manifest
      /\ testrun'.tests = [passed |-> 0, failed |-> 0]
      /\ testrun'.install = testrun.install /\ testrun'.integration = testrun.integration
      /\ testrun'.lock = testrun.lock
  BY DEF TInv, TestTypes, RunsThatCounted, Refused, NothingYet, Goes
<1>2. TestTypes' /\ FilesWere'
  BY <1>1 DEF TInv, TestTypes, FilesWere
<1>3. Ran'
  <2>1. Steps(testrun') = Steps(testrun)
    BY <1>1, StepsStay
  <2>2. Len(testrun'.commands) = Len(testrun.commands) /\ DOMAIN testrun'.commands = {}
    BY <1>1
  <2> QED BY <2>1, <2>2 DEF TInv, Ran
<1>4. CountsAreTrue'
  <2>1. Len(testrun'.commands) \in 0 .. 7
    BY <1>1
  <2>2. {i \in DOMAIN testrun'.commands : testrun'.commands[i].name \in Tests} = {}
    BY <1>1
  <2> QED BY <1>1, <2>1, <2>2, TotalOfNone DEF CountsAreTrue
<1> QED BY <1>1, <1>2, <1>3, <1>4
        DEF TInv, NothingYet, Cleared, Goes, Passed, FailureIsReal

LEMMA VerifyManifestKeeps == ASSUME TInv, VerifyManifest PROVE TInv'
  BY RefusedKeeps DEF VerifyManifest

LEMMA VerifyFileKeeps == ASSUME TInv, NEW f \in GeneratedFiles, VerifyFile(f) PROVE TInv'
<1>1. CASE generated[f] # "asWritten"
  <2>1. edits > 0 \/ untouched # GeneratedFiles
    BY <1>1 DEF TInv, TestTypes, FilesWere
  <2> QED BY <1>1, <2>1, RefusedKeeps DEF VerifyFile
<1>2. CASE generated[f] = "asWritten"
  <2>1. /\ testrun' \in RunsThatCounted(testrun'.tests)
        /\ testrun.state = "verifying" /\ testrun.manifest = "valid"
        /\ testrun'.state \in {"verifying", "running"}
        /\ testrun'.state = "running" => testrun'.read = GeneratedFiles
        /\ testrun'.read = testrun.read \cup {f}
        /\ testrun'.commands = <<>> /\ testrun.commands = <<>>
        /\ testrun'.manifest = testrun.manifest /\ testrun'.tests = testrun.tests
        /\ testrun'.install = testrun.install /\ testrun'.integration = testrun.integration
        /\ testrun'.lock = testrun.lock
    BY <1>2 DEF VerifyFile, TInv, TestTypes, RunsThatCounted, NothingYet
  <2>2. TestTypes' /\ FilesWere'
    BY <1>2, <2>1 DEF VerifyFile, TInv, TestTypes, FilesWere
  <2>3. Ran' /\ Goes'
    <3>1. Steps(testrun') = Steps(testrun)
      BY <2>1, StepsStay
    <3>2. Len(testrun'.commands) = Len(testrun.commands) /\ DOMAIN testrun'.commands = {}
      BY <2>1
    <3> QED BY <2>1, <3>1, <3>2 DEF TInv, Ran, Goes
  <2> QED BY <2>1, <2>2, <2>3
          DEF TInv, NothingYet, Cleared, Passed, FailureIsReal, CountsAreTrue
<1> QED BY <1>1, <1>2

LEMMA FileChangesKeeps == ASSUME TInv, NEW f \in GeneratedFiles, FileChanges(f) PROVE TInv'
<1>1. TestTypes' /\ FilesWere'
  <2>1. PICK s \in {"asWritten", "edited", "missing"} :
           /\ generated' = [generated EXCEPT ![f] = s]
           /\ untouched' = IF s = "asWritten" THEN untouched \cup {f} ELSE untouched
           /\ edits' = edits + 1 /\ UNCHANGED testrun
    BY DEF FileChanges
  <2> QED BY <2>1 DEF TInv, TestTypes, FilesWere
<1>2. UNCHANGED testrun /\ testrun.state \in {"verifying", "running"}
  BY DEF FileChanges
<1>3. untouched \subseteq untouched'
  BY DEF FileChanges
<1>4. Ran' /\ Goes' /\ Passed' /\ CountsAreTrue'
  BY <1>2 DEF TInv, Ran, Goes, Passed, Success, CountsAreTrue
<1> QED BY <1>1, <1>2, <1>4 DEF TInv, NothingYet, Cleared, FailureIsReal

-----------------------------------------------------------------------------
(* A command ends in one of the ways it can; the rest of the run, and its  *)
(* verdict.                                                                *)
LEMMA CommandEndsKeeps == ASSUME TInv, CommandEnds PROVE TInv'
<1> DEFINE n == Len(testrun.commands)
           step == Steps(testrun)[n + 1]
<1>1. PICK result \in Ends(testrun, step) :
        LET after == [testrun EXCEPT !.commands = Append(@, [name |-> step, result |-> result])]
            stop  == result.exit # 0 /\ EndsRun(step)
            early == stop /\ step \notin {"db:deploy", "test:integration"}
        IN  testrun' = IF ~stop /\ Len(after.commands) < Len(Steps(testrun)) THEN after
                       ELSE [after EXCEPT !.state = IF Success(after) THEN "passed" ELSE "failed",
                                          !.tests = IF early THEN @ ELSE summarizeTests(after)]
  BY DEF CommandEnds
<1> DEFINE command == [name |-> step, result |-> result]
           after == [testrun EXCEPT !.commands = Append(@, command)]
           stop  == result.exit # 0 /\ EndsRun(step)
           early == stop /\ step \notin {"db:deploy", "test:integration"}
           over == [after EXCEPT !.state = IF Success(after) THEN "passed" ELSE "failed",
                                 !.tests = IF early THEN @ ELSE summarizeTests(after)]
<1>2. /\ UNCHANGED <<generated, untouched, edits>> /\ testrun.state = "running"
      /\ testrun' = IF ~stop /\ Len(after.commands) < Len(Steps(testrun)) THEN after ELSE over
  BY <1>1 DEF CommandEnds
<1>3. /\ testrun.commands \in Seq(Command) /\ n \in Nat /\ n < Len(Steps(testrun))
      /\ testrun.install \in BOOLEAN /\ testrun.integration \in BOOLEAN
      /\ testrun.tests = [passed |-> 0, failed |-> 0]
      /\ testrun.manifest = "valid" /\ testrun.read = GeneratedFiles
  <2>1. testrun.commands \in Seq(Command)
    BY DEF TInv, TestTypes, RunsThatCounted
  <2>2. n \in Nat
    BY <2>1, LenProperties
  <2> QED BY <1>2, <2>1, <2>2 DEF TInv, TestTypes, RunsThatCounted, Goes, Cleared
<1>4. Steps(testrun) \in Seq(Names) /\ Len(Steps(testrun)) \in Nat /\ Len(Steps(testrun)) <= 7
  <2>1. PICK k \in {0, 4}, m \in {0, 2} : /\ Steps(testrun) \in Seq(Names)
                                         /\ Len(Steps(testrun)) = k + 1 + m
    BY <1>3, StepsAre
  <2> QED BY <2>1
<1>5. n + 1 \in 1 .. Len(Steps(testrun)) /\ step \in Names
  <2>1. n + 1 \in 1 .. Len(Steps(testrun))
    BY <1>3, <1>4
  <2> QED BY <1>4, <2>1, ElementOfSeq
<1>6. /\ result \in Outcome /\ command \in Command
      /\ command.name = step /\ command.result = result
  BY <1>5, EndsType DEF Command
<1> HIDE DEF command
<1>7. /\ Append(testrun.commands, command) \in Seq(Command)
      /\ Len(Append(testrun.commands, command)) = n + 1
      /\ \A i \in 1 .. n : Append(testrun.commands, command)[i] = testrun.commands[i]
      /\ Append(testrun.commands, command)[n + 1] = command
  BY <1>3, <1>6, AppendProperties
<1>8. /\ after \in RunsThatCounted(after.tests)
      /\ after.commands = Append(testrun.commands, command)
      /\ after.tests = testrun.tests /\ after.state = "running" /\ after.npm = testrun.npm
  BY <1>2, <1>7 DEF TInv, TestTypes, RunsThatCounted
<1>9. /\ testrun' \in RunsThatCounted(testrun'.tests)
      /\ testrun'.commands = Append(testrun.commands, command)
      /\ testrun'.manifest = "valid" /\ testrun'.read = GeneratedFiles
      /\ testrun'.install = testrun.install /\ testrun'.integration = testrun.integration
      /\ testrun'.lock = testrun.lock /\ testrun'.caller = testrun.caller
      /\ testrun'.database = testrun.database /\ testrun'.dotenv = testrun.dotenv
      /\ testrun'.npm = testrun.npm
  BY <1>2, <1>3, <1>7 DEF TInv, TestTypes, RunsThatCounted
<1>10. Steps(testrun') = Steps(testrun) /\ \A c : Ends(testrun', c) = Ends(testrun, c)
  BY <1>9, StepsStay, EndsStay
<1>11. DOMAIN testrun'.commands = 1 .. n + 1 /\ DOMAIN testrun.commands = 1 .. n
  BY <1>3, <1>7, <1>9, LenProperties
<1>12. \A i \in 1 .. n + 1 : i \in 1 .. n \/ i = n + 1
  BY <1>3
<1>13. Ran'
  <2>1. Len(testrun'.commands) <= Len(Steps(testrun'))
    BY <1>3, <1>4, <1>5, <1>7, <1>9, <1>10
  <2>2. ASSUME NEW i \in 1 .. n + 1
        PROVE  /\ testrun'.commands[i].name = Steps(testrun)[i]
               /\ testrun'.commands[i].result \in Ends(testrun, Steps(testrun)[i])
    <3>1. CASE i \in 1 .. n
      BY <3>1, <1>7, <1>9, <1>11 DEF TInv, Ran
    <3>2. CASE i = n + 1
      BY <3>2, <1>6, <1>7, <1>9
    <3> QED BY <1>12, <3>1, <3>2
  <2> QED BY <1>10, <1>11, <2>1, <2>2 DEF Ran
<1>14. TestTypes' /\ FilesWere'
  BY <1>2, <1>3, <1>9 DEF TInv, TestTypes, FilesWere
<1>15. NothingYet' /\ Cleared'
  <2>1. testrun'.state # "verifying"
    BY <1>2, <1>8 DEF TInv, TestTypes, RunsThatCounted
  <2> QED BY <1>9, <2>1 DEF NothingYet, Cleared

(* The run goes on, ...                                                    *)
<1>16. CASE ~stop /\ Len(after.commands) < Len(Steps(testrun))
  <2>1. testrun' = after
    BY <1>2, <1>16
  <2>2. Goes'
    <3>1. Len(testrun'.commands) < Len(Steps(testrun'))
      BY <1>10, <1>16, <2>1
    <3>2. ASSUME NEW i \in 1 .. n + 1, EndsRun(testrun'.commands[i].name)
          PROVE  testrun'.commands[i].result.exit = 0
      <4>1. CASE i \in 1 .. n
        BY <3>2, <4>1, <1>2, <1>7, <1>9, <1>11 DEF TInv, Goes
      <4>2. CASE i = n + 1
        BY <3>2, <4>2, <1>6, <1>7, <1>9, <1>16
      <4> QED BY <1>12, <4>1, <4>2
    <3> QED BY <1>3, <1>8, <1>11, <2>1, <3>1, <3>2 DEF Goes
  <2>3. testrun'.state = "running"
    BY <1>8, <2>1
  <2> QED BY <1>13, <1>14, <1>15, <2>2, <2>3 DEF TInv, Passed, FailureIsReal, CountsAreTrue

(* ... or it is over.                                                      *)
<1>17. CASE ~(~stop /\ Len(after.commands) < Len(Steps(testrun)))
  <2>1. /\ testrun' = over
        /\ testrun'.state = IF Success(after) THEN "passed" ELSE "failed"
        /\ testrun'.tests = IF early THEN testrun.tests ELSE summarizeTests(after)
    BY <1>2, <1>8, <1>17 DEF RunsThatCounted
  <2>2. Success(testrun') <=> Success(after)
    BY <1>8, <1>9 DEF Success
  <2>3. Passed'
    <3>1. ASSUME Success(after) PROVE Len(testrun'.commands) = Len(Steps(testrun'))
      <4>1. after.commands[n + 1].result.exit = 0
        BY <3>1, <1>5, <1>8, <1>9, <1>11 DEF Success
      <4>2. result.exit = 0
        BY <4>1, <1>6, <1>7, <1>8
      <4>3. ~(n + 1 < Len(Steps(testrun)))
        BY <4>2, <1>7, <1>8, <1>17
      <4> QED BY <4>3, <1>3, <1>4, <1>7, <1>9, <1>10
    <3> QED BY <2>1, <2>2, <3>1 DEF Passed
  <2>4. FailureIsReal'
    <3>1. ASSUME ~Success(after)
          PROVE  \E i \in DOMAIN testrun'.commands : testrun'.commands[i].result.exit = 1
      <4>1. PICK i \in DOMAIN testrun'.commands : testrun'.commands[i].result.exit # 0
        BY <3>1, <2>2 DEF Success
      <4>2. testrun'.commands[i].result \in Outcome
        BY <4>1, <1>13, EndsType DEF Ran
      <4> QED BY <4>1, <4>2 DEF Outcome
    <3> QED BY <2>1, <3>1 DEF FailureIsReal
  <2>5. CountsAreTrue'
    <3> DEFINE tests == {i \in DOMAIN testrun'.commands : testrun'.commands[i].name \in Tests}
    <3> SUFFICES ASSUME testrun'.npm,
                        \A i \in DOMAIN testrun'.commands : ~testrun'.commands[i].result.truncated
                 PROVE  testrun'.tests = Totals(testrun', tests)
      BY DEF CountsAreTrue
    <3>1. CASE early
      <4>1. step \notin {"test", "db:deploy", "test:integration"}
        BY <3>1 DEF EndsRun
      <4>2. ASSUME NEW i \in 1 .. n + 1 PROVE Steps(testrun)[i] \notin Tests
        BY <1>3, <1>5, <4>1, TestsComeLast
      <4>3. tests = {}
        BY <1>10, <1>11, <1>13, <4>2 DEF Ran
      <4>4. Len(testrun'.commands) \in 0 .. 7
        <5>1. \A x, y \in Nat : x < y /\ y <= 7 => x + 1 \in 0 .. 7
          OBVIOUS
        <5> QED BY <1>3, <1>4, <1>7, <1>9, <5>1
      <4>5. Totals(testrun', {}) = [passed |-> 0, failed |-> 0]
        BY <4>4, TotalOfNone
      <4> QED BY <1>3, <2>1, <3>1, <4>3, <4>5
    <3>2. CASE ~early
      <4>1. Counted(after) = tests
        BY <1>8, <1>9 DEF Counted
      <4>2. Totals(after, tests) = Totals(testrun', tests)
        <5>1. after.commands = testrun'.commands
          BY <1>8, <1>9
        <5> HIDE DEF tests, after
        <5> QED BY <5>1, SameTotals
      <4> QED BY <2>1, <3>2, <4>1, <4>2 DEF summarizeTests
    <3> QED BY <3>1, <3>2
  <2>6. Goes'
    BY <2>1 DEF Goes
  <2> QED BY <1>13, <1>14, <1>15, <2>3, <2>4, <2>5, <2>6 DEF TInv
<1> QED BY <1>16, <1>17

LEMMA NextTested == ASSUME TInv, [TestNext]_testVars PROVE TInv'
<1>1. CASE UNCHANGED testVars
  BY <1>1 DEF testVars, TInv, TestTypes, FilesWere, NothingYet, Cleared, Ran, Goes, Passed, Success,
              FailureIsReal, CountsAreTrue
<1>2. CASE TestNext
  BY <1>2, VerifyManifestKeeps, VerifyFileKeeps, CommandEndsKeeps, FileChangesKeeps DEF TestNext
<1> QED BY <1>1, <1>2

(* What the invariant says of the verdict.                                 *)
LEMMA VerdictFollows == ASSUME TInv PROVE VerdictEarned
<1>1. VerifiedBeforeRun
  BY DEF TInv, TestTypes, Cleared, FilesWere, VerifiedBeforeRun
<1>2. ASSUME testrun.state = "passed"
      PROVE  /\ \E i \in DOMAIN testrun.commands : testrun.commands[i].name = "test"
             /\ testrun.install =>
                   /\ \E i \in DOMAIN testrun.commands : testrun.commands[i].name = "build"
                   /\ ReachesDatabase(testrun)
             /\ testrun.integration =>
                   /\ \E i \in DOMAIN testrun.commands : testrun.commands[i].name = "test:integration"
                   /\ ReachesDatabase(testrun)
             /\ \A i \in DOMAIN testrun.commands : /\ testrun.commands[i].result.exit = 0
                                                   /\ testrun.commands[i].result.failed = 0
  <2>1. /\ testrun.install \in BOOLEAN /\ testrun.integration \in BOOLEAN
        /\ testrun.commands \in Seq(Command)
    BY DEF TInv, TestTypes, RunsThatCounted
  <2>2. PICK k \in {0, 4}, n \in {0, 2} :
           /\ k = (IF testrun.install THEN 4 ELSE 0)
           /\ n = (IF testrun.integration THEN 2 ELSE 0)
           /\ Len(Steps(testrun)) = k + 1 + n
           /\ Steps(testrun)[k + 1] = "test"
           /\ testrun.install => Steps(testrun)[3] = "db:validate" /\ Steps(testrun)[4] = "build"
           /\ testrun.integration => Steps(testrun)[k + 3] = "test:integration"
    BY <2>1, StepsAre
  <2>3. DOMAIN testrun.commands = 1 .. k + 1 + n
    BY <1>2, <2>1, <2>2, LenProperties DEF TInv, Passed
  <2>4. \A i \in DOMAIN testrun.commands :
           /\ testrun.commands[i].name = Steps(testrun)[i]
           /\ testrun.commands[i].result \in Ends(testrun, Steps(testrun)[i])
           /\ testrun.commands[i].result.exit = 0
    BY <1>2 DEF TInv, Ran, Passed, Success
  <2>5. \A i \in DOMAIN testrun.commands :
           /\ testrun.commands[i].result.failed = 0
           /\ Steps(testrun)[i] \in NeedsDatabase => ReachesDatabase(testrun)
    BY <2>4, EndsType
  <2>6. k + 1 \in 1 .. k + 1 + n
    BY <2>2
  <2>7. testrun.install => 3 \in 1 .. k + 1 + n /\ 4 \in 1 .. k + 1 + n
    BY <2>2
  <2>8. testrun.integration => k + 3 \in 1 .. k + 1 + n
    BY <2>2
  <2>9. "db:validate" \in NeedsDatabase /\ "test:integration" \in NeedsDatabase
    BY DEF NeedsDatabase
  <2> QED BY <2>2, <2>3, <2>4, <2>5, <2>6, <2>7, <2>8, <2>9
<1>3. PassIsEarned
  BY <1>2 DEF PassIsEarned
<1> QED BY <1>1, <1>3 DEF TInv, VerdictEarned

(* Whatever the commands do and whoever edits the project meanwhile:       *)
(* nothing is run before every generated file was seen as it was written,  *)
(* a run passes only if all it was asked for was run and passed, it fails  *)
(* for a reason, and its counts are those of the commands' output.         *)
(* packages/generator-runtime/src/run-tests.ts runGeneratedTests.          *)
THEOREM VerdictsAreEarned ==
    ASSUME NEW states, NEW runs, states \subseteq {"asWritten", "edited", "missing"},
           runs \subseteq NewRuns
    PROVE  TestSpec(states, runs) => []VerdictEarned
<1>1. TestInit(states, runs) => TInv
  BY InitTested
<1> QED BY <1>1, NextTested, VerdictFollows, PTL DEF TestSpec
=============================================================================
