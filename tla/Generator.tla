----------------------------- MODULE Generator -----------------------------
(***************************************************************************)
(* generateBackend (packages/generator-runtime/src/generate.ts) over the   *)
(* life of a generated project: runs of the generator, one at a time or    *)
(* several at once, each reading the manifest, deriving the migration,     *)
(* planning, writing file by file and the manifest last; crashes between   *)
(* and inside writes; developers who edit, delete and hand-write files     *)
(* before, after and during a run, and who commit and restore.             *)
(***************************************************************************)
EXTENDS Planner, Migrations

CONSTANTS Runs,             \* the generator processes
          Specs,            \* the specifications they are run on
          Requests,         \* the command lines they are run with
          MaxDisturbances   \* bound: edits, crashes and restores, together

NoPath == [kind |-> "none", n |-> 0]
Request == [spec: Specs, accept: ManualPaths \cup {NoPath},
            options: [force: BOOLEAN, allowDestructive: BOOLEAN, dryRun: BOOLEAN]]

ASSUME GeneratorAssumption == /\ Specs \subseteq BackendSpec
                              /\ Requests \subseteq Request
                              /\ MaxDisturbances \in Nat

VARIABLES
    disk,       \* what each path contains, the manifest aside
    manifest,   \* .backendgen/manifest.json: [status, files]
    pc,         \* of each run: "idle", "adjust", "plan" or "write"
    request,    \* the options it was started with
    known,      \* did it find a manifest?
    tracked,    \* the manifest it read, NoFiles if none
    files,      \* the files it renders, migrations adjusted
    todo,       \* the paths it has still to write or delete
    verdict,    \* how the latest run ended, or where it stands
    settled,    \* the spec the project is a complete, undisturbed generation of
    dirty,      \* edited since the latest run started
    stage,      \* how far the documented recovery is: see Commit, Crash, Checkout
    vcs,        \* the last commit: [disk, manifest, settled]
    disturbances

projectVars == <<disk, manifest>>
runVars     == <<pc, request, known, tracked, files, todo>>
ghostVars   == <<verdict, settled, dirty, stage>>
vars == <<projectVars, runVars, ghostVars, vcs, disturbances>>

NoManifest      == [status |-> "absent", files |-> NoFiles]
BrokenManifest  == [status |-> "invalid", files |-> NoFiles]
ManifestOf(fs)  == [status |-> "present", files |-> fs]
Manifest == [status: {"absent", "invalid", "present"}, files: Files]

NoSpec == Absent
NoRequest == Absent
Idle == \A r \in Runs : pc[r] = "idle"

Init == /\ disk = NoFiles /\ manifest = NoManifest
        /\ pc = [r \in Runs |-> "idle"]
        /\ request = [r \in Runs |-> NoRequest]
        /\ known = [r \in Runs |-> FALSE]
        /\ tracked = [r \in Runs |-> NoFiles]
        /\ files = [r \in Runs |-> NoFiles]
        /\ todo = [r \in Runs |-> {}]
        /\ verdict = "none" /\ settled = NoSpec /\ dirty = FALSE /\ stage = "open"
        /\ vcs = [disk |-> NoFiles, manifest |-> NoManifest, settled |-> NoSpec]
        /\ disturbances = 0

-----------------------------------------------------------------------------
(* The run is over: nothing of it is left but its verdict.                 *)
Stop(r) == /\ pc' = [pc EXCEPT ![r] = "idle"]
           /\ request' = [request EXCEPT ![r] = NoRequest]
           /\ known' = [known EXCEPT ![r] = FALSE]
           /\ tracked' = [tracked EXCEPT ![r] = NoFiles]
           /\ files' = [files EXCEPT ![r] = NoFiles]
           /\ todo' = [todo EXCEPT ![r] = {}]

Refuse(r, why) == /\ Stop(r)
                  /\ verdict' = why
                  /\ UNCHANGED <<projectVars, settled, dirty, stage, vcs, disturbances>>

(* readManifestState.  An invalid manifest stops all but a dry run, which  *)
(* goes on without it and without adjusting migrations.                    *)
Start(r, q) ==
    /\ pc[r] = "idle" /\ manifest.status # "invalid"
    /\ pc' = [pc EXCEPT ![r] = "adjust"]
    /\ request' = [request EXCEPT ![r] = q]
    /\ known' = [known EXCEPT ![r] = (manifest.status = "present")]
    /\ tracked' = [tracked EXCEPT ![r] = manifest.files]
    /\ verdict' = "running" /\ dirty' = FALSE
    /\ UNCHANGED <<projectVars, files, todo, settled, stage, vcs, disturbances>>

PreviewUntracked(r, q) ==
    /\ pc[r] = "idle" /\ manifest.status = "invalid" /\ q.options.dryRun
    /\ pc' = [pc EXCEPT ![r] = "plan"]
    /\ request' = [request EXCEPT ![r] = q]
    /\ files' = [files EXCEPT ![r] = Rendered(q.spec)]
    /\ verdict' = "running" /\ dirty' = FALSE
    /\ UNCHANGED <<projectVars, known, tracked, todo, settled, stage, vcs,
                   disturbances>>

StartRefused(r, q) ==
    /\ pc[r] = "idle"
    /\ manifest.status = "invalid" /\ ~q.options.dryRun
    /\ verdict' = "invalid-manifest" /\ dirty' = FALSE
    /\ UNCHANGED <<projectVars, runVars, settled, stage, vcs, disturbances>>

-----------------------------------------------------------------------------
(* applyIncrementalMigrations.  Its outcomes exclude each other; what none *)
(* of them covers is refused.                                              *)
Current(r) == disk[SnapshotPath].schema
Wanted(r)  == request[r].spec.schema
Trusted(r) == TrustedHistory(known[r], tracked[r], disk)

Adjusted(r, fs) == /\ pc' = [pc EXCEPT ![r] = "plan"]
                   /\ files' = [files EXCEPT ![r] = fs]
                   /\ UNCHANGED <<projectVars, request, known, tracked, todo,
                                  ghostVars, vcs, disturbances>>

CanBegin(r) == /\ FirstGeneration(known[r], disk)
               /\ request[r].accept = NoPath
CanKeep(r)  == /\ Trusted(r)
               /\ Changes(Current(r), Wanted(r)) = {}
               /\ request[r].accept = NoPath
CanEmit(r, n) == /\ Trusted(r)
                 /\ Changes(Current(r), Wanted(r)) # {}
                 /\ request[r].accept = NoPath
                 /\ Emittable(Current(r), Wanted(r), request[r].options.allowDestructive)
                 /\ IsNextPrefix(n, disk)
CanAccept(r) == /\ Trusted(r)
                /\ Changes(Current(r), Wanted(r)) # {}
                /\ Acceptable(request[r].accept, tracked[r], disk, Current(r), Wanted(r))

Base(r) == CarriedForward(Rendered(request[r].spec), tracked[r], disk)

Begin(r) == /\ pc[r] = "adjust" /\ CanBegin(r)
            /\ Adjusted(r, WithSnapshot(Rendered(request[r].spec), Wanted(r)))

KeepHistory(r) == /\ pc[r] = "adjust" /\ CanKeep(r)
                  /\ Adjusted(r, WithSnapshot(Base(r), Wanted(r)))

EmitMigration(r, n) ==
    /\ pc[r] = "adjust" /\ CanEmit(r, n)
    /\ Adjusted(r, WithSnapshot([Base(r) EXCEPT
                        ![Incremental(n)] = DiffSql(Current(r), Wanted(r))], Wanted(r)))

AcceptManual(r) ==
    /\ pc[r] = "adjust" /\ CanAccept(r)
    /\ LET m == request[r].accept
           entries == AcceptedEntries(tracked[r], disk)
                        \cup {Accepting(m, disk, Current(r), Wanted(r))}
       IN  Adjusted(r, WithSnapshot([Base(r) EXCEPT
                            ![m] = disk[m],
                            ![AcceptedPath] = AcceptedRecord(entries)], Wanted(r)))

AdjustRefused(r) ==
    /\ pc[r] = "adjust"
    /\ ~CanBegin(r) /\ ~CanKeep(r) /\ ~CanAccept(r) /\ ~(\E n \in Prefix : CanEmit(r, n))
    /\ Refuse(r, IF Trusted(r) THEN "transition-refused" ELSE "history-refused")

-----------------------------------------------------------------------------
(* planGeneration, and what generateBackend does with the plan: a dry run  *)
(* reports it, a conflict stops a real run before anything is written.     *)
PlanConflicts(r) == Conflicts(files[r], disk, tracked[r], request[r].options.force)

Preview(r) == /\ pc[r] = "plan" /\ request[r].options.dryRun
              /\ Refuse(r, "previewed")

PlanRefused(r) == /\ pc[r] = "plan" /\ ~request[r].options.dryRun
                  /\ PlanConflicts(r) # {}
                  /\ Refuse(r, "conflict")

Plan(r) == /\ pc[r] = "plan" /\ ~request[r].options.dryRun
           /\ PlanConflicts(r) = {}
           /\ pc' = [pc EXCEPT ![r] = "write"]
           /\ todo' = [todo EXCEPT ![r] =
                           Touched(files[r], disk, tracked[r], request[r].options.force)]
           /\ UNCHANGED <<projectVars, request, known, tracked, files,
                          ghostVars, vcs, disturbances>>

(* writePlan: in path order, each path created, replaced or deleted by     *)
(* what the plan holds for it, whatever is there by now.                   *)
NextFile(r, p) == /\ pc[r] = "write" /\ p \in todo[r]
                  /\ \A q \in todo[r] : q = p \/ Precedes(p, q)

Write(r, p) == /\ NextFile(r, p)
               /\ disk' = [disk EXCEPT ![p] = files[r][p]]
               /\ todo' = [todo EXCEPT ![r] = @ \ {p}]
               /\ settled' = NoSpec
               /\ UNCHANGED <<manifest, pc, request, known, tracked, files,
                              verdict, dirty, stage, vcs, disturbances>>

(* The manifest, last: it records what the run rendered, not what is there.*)
Finish(r) == /\ pc[r] = "write" /\ todo[r] = {}
             /\ manifest' = ManifestOf(files[r])
             /\ settled' = IF dirty THEN NoSpec ELSE request[r].spec
             /\ verdict' = "done" /\ stage' = "open"
             /\ Stop(r)
             /\ UNCHANGED <<disk, dirty, vcs, disturbances>>

-----------------------------------------------------------------------------
(* The run dies: between two steps, or inside a write, which leaves a      *)
(* truncated file, or a manifest that does not parse.                      *)
Disturb == /\ disturbances < MaxDisturbances
           /\ disturbances' = disturbances + 1

Interrupted == stage' = IF stage = "committed" THEN "interrupted" ELSE stage

Crash(r) == /\ pc[r] # "idle" /\ Disturb /\ Interrupted
            /\ Stop(r)
            /\ verdict' = "crashed"
            /\ UNCHANGED <<projectVars, settled, dirty, vcs>>

CrashWriting(r, p) == /\ NextFile(r, p) /\ files[r][p] # Absent
                      /\ Disturb /\ Interrupted
                      /\ disk' = [disk EXCEPT ![p] = Torn]
                      /\ Stop(r)
                      /\ verdict' = "crashed" /\ settled' = NoSpec
                      /\ UNCHANGED <<manifest, dirty, vcs>>

CrashFinishing(r) == /\ pc[r] = "write" /\ todo[r] = {} /\ Disturb /\ Interrupted
                     /\ manifest' = BrokenManifest
                     /\ Stop(r)
                     /\ verdict' = "crashed" /\ settled' = NoSpec
                     /\ UNCHANGED <<disk, dirty, vcs>>

-----------------------------------------------------------------------------
(* The developer.                                                          *)
EditsOf(p) == {Absent} \cup
    CASE p \in ManualPaths -> {ManualSql(cs) : cs \in SUBSET Columns}
      [] p = SnapshotPath   -> {Edited} \cup {SnapshotOf(q.schema) : q \in Specs}
      [] OTHER              -> {Edited}

Edit(p, c) == /\ Disturb
              /\ c # disk[p]
              /\ disk' = [disk EXCEPT ![p] = c]
              /\ settled' = NoSpec /\ dirty' = TRUE /\ stage' = "open"
              /\ UNCHANGED <<manifest, runVars, verdict, vcs>>

DamageManifest(m) == /\ Idle /\ Disturb
                     /\ m \in {NoManifest, BrokenManifest} /\ m # manifest
                     /\ manifest' = m
                     /\ settled' = NoSpec /\ dirty' = TRUE /\ stage' = "open"
                     /\ UNCHANGED <<disk, runVars, verdict, vcs>>

Commit == /\ Idle /\ settled # NoSpec
          /\ vcs' = [disk |-> disk, manifest |-> manifest, settled |-> settled]
          /\ stage' = "committed"
          /\ UNCHANGED <<projectVars, runVars, verdict, settled, dirty, disturbances>>

(* git checkout -- .backendgen prisma/migrations, as docs/MIGRATIONS.md    *)
(* has it: committed files come back, files git does not know stay.        *)
Checkout == /\ Idle /\ vcs.manifest # NoManifest /\ Disturb
            /\ disk' = [p \in Path |->
                          IF /\ p \in {SnapshotPath, AcceptedPath} \cup HistoryPaths
                             /\ vcs.disk[p] # Absent
                          THEN vcs.disk[p] ELSE disk[p]]
            /\ manifest' = vcs.manifest
            /\ settled' = NoSpec /\ dirty' = TRUE
            /\ stage' = IF stage = "interrupted" THEN "recovered" ELSE "open"
            /\ UNCHANGED <<runVars, verdict, vcs>>

(* The whole work tree, untracked files removed.                           *)
RestoreAll == /\ Idle /\ vcs.manifest # NoManifest /\ Disturb
              /\ disk' = vcs.disk /\ manifest' = vcs.manifest
              /\ settled' = vcs.settled /\ dirty' = TRUE /\ stage' = "open"
              /\ UNCHANGED <<runVars, verdict, vcs>>

-----------------------------------------------------------------------------
Adjust(r) == \/ Begin(r) \/ KeepHistory(r) \/ AcceptManual(r) \/ AdjustRefused(r)
             \/ \E n \in Prefix : EmitMigration(r, n)

(* The steps of a run, the ones that end it early included.                *)
RunStep(r) ==
    \/ \E q \in Requests : Start(r, q) \/ StartRefused(r, q) \/ PreviewUntracked(r, q)
    \/ Adjust(r)
    \/ Preview(r) \/ PlanRefused(r) \/ Plan(r)
    \/ \E p \in Path : Write(r, p) \/ CrashWriting(r, p)
    \/ Finish(r) \/ Crash(r) \/ CrashFinishing(r)

Developer == \/ \E p \in Path : \E c \in EditsOf(p) : Edit(p, c)
             \/ \E m \in {NoManifest, BrokenManifest} : DamageManifest(m)
             \/ Commit \/ Checkout \/ RestoreAll

Next == Developer \/ \E r \in Runs : RunStep(r)

Spec == Init /\ [][Next]_vars

-----------------------------------------------------------------------------
(* Types.                                                                  *)
Verdicts == {"none", "running", "done", "previewed", "conflict", "crashed",
             "invalid-manifest", "history-refused", "transition-refused"}
Stages == {"open", "committed", "interrupted", "recovered"}

TypeOK == /\ disk \in Files /\ manifest \in Manifest
          /\ pc \in [Runs -> {"idle", "adjust", "plan", "write"}]
          /\ request \in [Runs -> Request \cup {NoRequest}]
          /\ known \in [Runs -> BOOLEAN]
          /\ tracked \in [Runs -> Files]
          /\ files \in [Runs -> Files]
          /\ todo \in [Runs -> SUBSET Path]
          /\ verdict \in Verdicts /\ settled \in Specs \cup {NoSpec} /\ dirty \in BOOLEAN
          /\ stage \in Stages
          /\ vcs \in [disk: Files, manifest: Manifest, settled: Specs \cup {NoSpec}]
          /\ disturbances \in 0 .. MaxDisturbances

-----------------------------------------------------------------------------
(* The schema transitions a set of tracked files records: one per emitted  *)
(* migration, one per entry of the acceptance record.                      *)
Emitted(fs) == {[at |-> m.n, from |-> fs[m].from, to |-> fs[m].to] :
                   m \in {k \in IncrementalPaths : fs[k] # Absent}}
Recorded(fs) == IF fs[AcceptedPath] = Absent THEN {} ELSE fs[AcceptedPath].entries
Accepted(fs) == {[at |-> e.at, from |-> e.from, to |-> e.to] : e \in Recorded(fs)}
Links(fs) == Emitted(fs) \cup Accepted(fs)

(* Links form one chain from a schema to another, in the order of their    *)
(* prefixes, which is the order they are deployed in.                      *)
Chain(links, base, top) ==
    /\ \A l, k \in links : l.at = k.at => l = k
    /\ links = {} => base = top
    /\ \A l \in links : (\A k \in links : l.at <= k.at) => l.from = base
    /\ \A l \in links : (\A k \in links : k.at <= l.at) => l.to = top
    /\ \A l, k \in links :
          l.at < k.at /\ ~(\E j \in links : l.at < j.at /\ j.at < k.at) => l.to = k.from

(* Files whose migrations, deployed in order, build the schema that their  *)
(* snapshot claims, every hand-written one among them recorded exactly     *)
(* once and with the SQL it was accepted with.                             *)
Backed(fs) ==
    /\ fs[SnapshotPath] # Absent /\ fs[SnapshotPath].type = "snapshot"
    /\ fs[InitPath] # Absent /\ fs[InitPath].type = "init"
    /\ fs[AcceptedPath] # Absent => fs[AcceptedPath].type = "accepted"
    /\ \A m \in IncrementalPaths : fs[m] # Absent => fs[m].type = "incremental"
    /\ Chain(Links(fs), fs[InitPath].to, fs[SnapshotPath].schema)
    /\ \A e \in Recorded(fs) : fs[Manual(e.at)] = e.sql
    /\ \A m \in ManualPaths : fs[m] # Absent => \E e \in Recorded(fs) : e.at = m.n

(* A manifest on disk or in version control only ever vouches for a        *)
(* snapshot its own migration history builds, whatever was edited, torn,   *)
(* restored or generated concurrently.                                     *)
(* generate.ts applyIncrementalMigrations, acceptManualTransition.         *)
HistoryBacksSnapshot ==
    /\ manifest.status = "present" => Backed(manifest.files)
    /\ vcs.manifest.status = "present" => Backed(vcs.manifest.files)

-----------------------------------------------------------------------------
(* The step is one of run r's on the files: a write, a torn one, the end.  *)
Writing(r) == pc[r] = "write" /\ todo'[r] # todo[r]
GeneratorStep == \E r \in Runs : Writing(r)

(* A migration the manifest on disk vouches for is never changed or        *)
(* deleted by the generator, --force included, nor is it torn by a crash   *)
(* (one that was deleted and put back during the run is: the run, dying,   *)
(* was putting it back too).                                               *)
(* generate.ts:363-448 (frozen history), plan.ts (delete rule).            *)
MigrationsImmutable ==
    [][GeneratorStep =>
         \A m \in HistoryPaths :
            disk[m] # Absent /\ disk[m] = manifest.files[m] =>
               disk'[m] = disk[m] \/ (dirty /\ disk'[m] = Torn)]_vars

(* What a developer made of a file before the run survives every run but a *)
(* forced one, and a custom file survives those too.  (During the run the  *)
(* plan is already made: what appears then may be overwritten.)            *)
(* plan.ts:60-170.                                                         *)
KeepsDeveloperWork ==
    [][\A r \in Runs : Writing(r) /\ ~dirty =>
         \A p \in Path :
            /\ p \in CustomPaths /\ disk[p] # Absent => disk'[p] = disk[p]
            /\ /\ disk[p] # Absent /\ disk[p].type \in {"edited", "manual"}
               /\ ~request[r].options.force
               => disk'[p] = disk[p]]_vars

(* A migration the generator writes sorts after every migration directory  *)
(* on disk, accepted or not, that was there when the run began.            *)
(* generate.ts:376-385,617-626.                                            *)
NewMigrationsDeployLast ==
    [][\A n \in Prefix : GeneratorStep /\ ~dirty /\ disk[Incremental(n)] = Absent
                            /\ disk'[Incremental(n)] # Absent
         => \A m \in MigrationPaths : disk[m] # Absent => m.n < n]_vars

(* Run r regenerates a complete, undisturbed generation from the very      *)
(* specification it was generated from.                                    *)
Regenerates(r) == /\ settled # NoSpec /\ pc[r] # "idle"
                  /\ request[r].spec = settled /\ request[r].accept = NoPath

NothingToDo(r) ==
    /\ verdict \notin {"history-refused", "transition-refused", "conflict"}
    /\ todo[r] = {}

(* Such a run is never refused and has nothing to write, provided no       *)
(* acceptance record was lying around when the project began.              *)
(* generate.ts applyIncrementalMigrations, plan.ts; tests/regeneration.    *)
StableRegeneration ==
    [][\A r \in Runs :
         Regenerates(r) /\ disk[AcceptedPath] = manifest.files[AcceptedPath]
         => NothingToDo(r)']_vars

(* The comment at generate.ts:216-217 without that proviso: a first        *)
(* generation that was let through is a clean one.                         *)
FirstGenerationIsClean == [][\A r \in Runs : Regenerates(r) => NothingToDo(r)']_vars

(* docs/MIGRATIONS.md:122-130: when every completed generation was         *)
(* committed, an interrupted one is recovered from by restoring            *)
(* .backendgen/ and prisma/migrations/ and regenerating.                   *)
DocumentedRecovery == [][stage = "recovered" => verdict' # "history-refused"]_vars

-----------------------------------------------------------------------------
(* The ledger a manifest stands for.                                       *)
NoLedger == [links |-> {}]
LedgerOf(m) == IF m.status # "present" THEN NoLedger
               ELSE [base |-> m.files[InitPath].to, links |-> Links(m.files),
                     top |-> m.files[SnapshotPath].schema]

(* One run at a time, the generator keeps a ledger: every completed run    *)
(* leaves history alone or appends exactly the transition it was asked     *)
(* for, after everything recorded.  generate.ts:217-795.                   *)
Abstract == INSTANCE Ledger WITH Schemas <- Schema, Numbers <- Prefix, None <- NoLedger,
                                 ledger <- LedgerOf(manifest),
                                 saved <- LedgerOf(vcs.manifest)
KeepsLedger == Abstract!LedgerSpec
=============================================================================
