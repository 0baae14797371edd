------------------------------ MODULE TestRun ------------------------------
(***************************************************************************)
(* Running the tests of a generated project (packages/generator-runtime/   *)
(* src/run-tests.ts), for the command line (test-generated) or the MCP     *)
(* server (run_generated_tests), while somebody edits the project.         *)
(*                                                                         *)
(* What npm, prisma and jest do is external: a command ends in one of the  *)
(* ways they have, its time running out among them.                        *)
(***************************************************************************)
EXTENDS Integers, Sequences, FiniteSets

CONSTANTS GeneratedFiles,  \* those the manifest owns as generated
          MaxEdits         \* bound: edits made while the tests run

VARIABLES
    generated,      \* each generated file: "asWritten", "edited" or "missing"
    untouched,  \* those that were as written at some moment of the run
    edits,
    testrun     \* the options, what was verified, the commands run, the result

testVars == <<generated, untouched, edits, testrun>>

-----------------------------------------------------------------------------
(* What is run, and what goes on although it failed: only the tests.       *)
Steps(r) ==
    (IF r.install THEN <<IF r.lock THEN "ci" ELSE "install", "db:generate", "db:validate", "build">>
     ELSE <<>>)
    \o <<"test">>
    \o (IF r.integration THEN <<"db:deploy", "test:integration">> ELSE <<>>)

Tests == {"test", "test:integration"}
EndsRun(command) == command # "test"

(* The environment is rebuilt; only the command line passes the database   *)
(* on.  Otherwise prisma reads a .env file, which is the user's.           *)
ReachesDatabase(r) == (r.caller = "cli" /\ r.database) \/ r.dotenv
NeedsDatabase == {"db:validate", "db:deploy", "test:integration"}

(* How a command can end: jest prints its totals last, and exits with 0 if *)
(* no test failed; a command that is killed or cannot start prints none.   *)
Outcome == [exit: {0, 1}, passed: {0, 1}, failed: {0, 1}, truncated: BOOLEAN]
Silent(exit) == [exit |-> exit, passed |-> 0, failed |-> 0, truncated |-> FALSE]
CanWork(r, command) == command \in NeedsDatabase => ReachesDatabase(r)
Ends(r, command) ==
    {e \in Outcome :
        \/ e = Silent(1)
        \/ CanWork(r, command) /\ command \notin Tests /\ e = Silent(0)
        \/ /\ CanWork(r, command) /\ command \in Tests
           /\ e.passed = 1 /\ (e.exit = 0 <=> e.failed = 0)}

(* The totals are looked for in the part of the output that is kept, of    *)
(* the commands that look like npm's (npm_execpath may be another's).      *)
Counted(r) == {i \in DOMAIN r.commands : r.commands[i].name \in Tests /\ r.npm
                                             /\ ~r.commands[i].result.truncated}

(* What some commands printed of passed, or of failed, tests.              *)
Total(r, some, tests) ==
    LET sum[i \in 0 .. Len(r.commands)] ==
          IF i = 0 THEN 0
          ELSE sum[i - 1] + IF i \in some THEN r.commands[i].result[tests] ELSE 0
    IN  sum[Len(r.commands)]
Totals(r, some) ==
    [passed |-> Total(r, some, "passed"), failed |-> Total(r, some, "failed")]

summarizeTests(r) == Totals(r, Counted(r))

SuccessOfLast(r) == r.commands[Len(r.commands)].result.exit = 0
Success(r) == \A i \in DOMAIN r.commands : r.commands[i].result.exit = 0

-----------------------------------------------------------------------------
NewRuns ==
    [caller: {"cli", "mcp"}, install: BOOLEAN, integration: BOOLEAN, lock: BOOLEAN,
     database: BOOLEAN, dotenv: BOOLEAN, npm: BOOLEAN, manifest: {"none", "unowned", "valid"},
     read: {{}}, commands: {<<>>}, state: {"verifying"}, tests: {[passed |-> 0, failed |-> 0]}]

TestInit(states, runs) ==
    /\ generated \in [GeneratedFiles -> states]
    /\ untouched = {f \in GeneratedFiles : generated[f] = "asWritten"}
    /\ edits = 0
    /\ testrun \in runs

(* The manifest is not one of this generator, or does not own package.json *)
(* or a generated file is not as it was written: nothing is run.           *)
Refused(r) == [r EXCEPT !.state = "failed"]

VerifyManifest ==
    /\ testrun.state = "verifying" /\ testrun.manifest # "valid"
    /\ testrun' = Refused(testrun)
    /\ UNCHANGED <<generated, untouched, edits>>

VerifyFile(f) ==
    /\ testrun.state = "verifying" /\ testrun.manifest = "valid"
    /\ f \notin testrun.read
    /\ LET read == testrun.read \cup {f} IN
       testrun' = IF generated[f] # "asWritten" THEN Refused(testrun)
                  ELSE [testrun EXCEPT !.read = read,
                          !.state = IF read = GeneratedFiles THEN "running" ELSE @]
    /\ UNCHANGED <<generated, untouched, edits>>

(* A command ends: the next one is up, or the result is drawn.             *)
CommandEnds ==
    LET step == Steps(testrun)[Len(testrun.commands) + 1] IN
    /\ testrun.state = "running"
    /\ \E result \in Ends(testrun, step) :
         LET after == [testrun EXCEPT !.commands = Append(@, [name |-> step, result |-> result])]
             stop  == result.exit # 0 /\ EndsRun(step)
             early == stop /\ step \notin {"db:deploy", "test:integration"}
         IN  testrun' =
               IF ~stop /\ Len(after.commands) < Len(Steps(testrun)) THEN after
               ELSE [after EXCEPT !.state = IF Success(after) THEN "passed" ELSE "failed",
                                  !.tests = IF early THEN @ ELSE summarizeTests(after)]
    /\ UNCHANGED <<generated, untouched, edits>>

(* Somebody edits or removes a file, or generates anew.                    *)
FileChanges(f) ==
    /\ edits < MaxEdits /\ testrun.state \in {"verifying", "running"}
    /\ \E s \in {"asWritten", "edited", "missing"} \ {generated[f]} :
         /\ generated' = [generated EXCEPT ![f] = s]
         /\ untouched' = IF s = "asWritten" THEN untouched \cup {f} ELSE untouched
    /\ edits' = edits + 1
    /\ UNCHANGED testrun

TestNext ==
    \/ VerifyManifest \/ CommandEnds
    \/ \E f \in GeneratedFiles : VerifyFile(f) \/ FileChanges(f)

-----------------------------------------------------------------------------
TestTypeOK ==
    /\ generated \in [GeneratedFiles -> {"asWritten", "edited", "missing"}]
    /\ untouched \subseteq GeneratedFiles
    /\ edits \in 0 .. MaxEdits
    /\ testrun.state \in {"verifying", "running", "passed", "failed"}
    /\ testrun.read \subseteq GeneratedFiles
    /\ Len(testrun.commands) <= Len(Steps(testrun))

(* Nothing is run in a project that is not as it was generated: "hash      *)
(* verification of every compiler-owned file before any package command    *)
(* runs" (THREAT_MODEL.md:15).  The files are read one by one, so each was *)
(* at some moment, not all at one.                                         *)
VerifiedBeforeRun ==
    testrun.commands # <<>> => testrun.manifest = "valid" /\ untouched = GeneratedFiles

(* A run that passed has migrated and run what it was asked to, with every *)
(* test passing.                                                           *)
PassIsEarned ==
    testrun.state = "passed" =>
        LET Passes(name) == \E i \in DOMAIN testrun.commands :
                              testrun.commands[i].name = name /\ testrun.commands[i].result.exit = 0
        IN  /\ Passes("test")
            /\ testrun.install => Passes("build") /\ ReachesDatabase(testrun)
            /\ testrun.integration => Passes("test:integration") /\ ReachesDatabase(testrun)
            /\ \A i \in DOMAIN testrun.commands : testrun.commands[i].result.failed = 0

(* One that failed had a reason; and its counts are those printed, but for *)
(* output that was cut off before them ("agents get counts, not a wall of  *)
(* log output", run-tests.ts:200), or a package manager of another name.   *)
FailureIsReal ==
    testrun.state = "failed" =>
        \/ testrun.commands = <<>> /\ (testrun.manifest # "valid" \/ edits > 0 \/ untouched # GeneratedFiles)
        \/ \E i \in DOMAIN testrun.commands : testrun.commands[i].result.exit = 1

CountsAreTrue ==
    /\ testrun.state \in {"passed", "failed"}
    /\ testrun.npm /\ \A i \in DOMAIN testrun.commands : ~testrun.commands[i].result.truncated
    => testrun.tests =
         Totals(testrun, {i \in DOMAIN testrun.commands : testrun.commands[i].name \in Tests})

VerdictEarned == VerifiedBeforeRun /\ PassIsEarned /\ FailureIsReal /\ CountsAreTrue
=============================================================================
