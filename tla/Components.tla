------------------------------ MODULE Components ------------------------------
(***************************************************************************)
(* The packs and the stages of the compiler that share no state, side by   *)
(* side: each behaviour is about one of them, the others keep still.       *)
(* What each of them does is in its own module.                            *)
(***************************************************************************)
EXTENDS Notifications, Uploads, Sessions, Records, SchemaDiff, Compilation, Seeding,
        Endpoints, Cron, TestRun

CONSTANT Focuses  \* the parts to look at

VARIABLE focus    \* the one that moves

allVars == <<focus, mailVars, uploadVars, authVars, recordVars, schemaVars, compileVars,
             seedVars, endpointVars, cronVars, testVars>>

Moves(part, next) == focus = part /\ next /\ UNCHANGED focus

(* Of the generated backend, and of the generator.                         *)
packVars == <<mailVars, uploadVars, authVars, recordVars, endpointVars, cronVars>>
toolVars == <<schemaVars, compileVars, seedVars, testVars>>

ComponentsNext ==
    \/ /\ Moves("mail", MailNext)
       /\ UNCHANGED <<uploadVars, authVars, recordVars, endpointVars, cronVars, toolVars>>
    \/ /\ Moves("uploads", UploadNext)
       /\ UNCHANGED <<mailVars, authVars, recordVars, endpointVars, cronVars, toolVars>>
    \/ /\ Moves("sessions", AuthNext)
       /\ UNCHANGED <<mailVars, uploadVars, recordVars, endpointVars, cronVars, toolVars>>
    \/ /\ Moves("organizations", OrgNext)
       /\ UNCHANGED <<parents, children, request>>
       /\ UNCHANGED <<mailVars, uploadVars, authVars, endpointVars, cronVars, toolVars>>
    \/ /\ Moves("records", RecordNext)
       /\ UNCHANGED <<mailVars, uploadVars, authVars, endpointVars, cronVars, toolVars>>
    \/ /\ Moves("schema", SchemaNext)
       /\ UNCHANGED <<compileVars, seedVars, testVars, packVars>>
    \/ /\ Moves("compile", CompileNext)
       /\ UNCHANGED <<schemaVars, seedVars, testVars, packVars>>
    \/ /\ Moves("seed", SeedNext)
       /\ UNCHANGED <<schemaVars, compileVars, testVars, packVars>>
    \/ /\ Moves("endpoints", EndpointNext)
       /\ UNCHANGED <<mailVars, uploadVars, authVars, recordVars, cronVars, toolVars>>
    \/ /\ Moves("cron", CronNext)
       /\ UNCHANGED <<mailVars, uploadVars, authVars, recordVars, endpointVars, toolVars>>
    \/ /\ Moves("tests", TestNext)
       /\ UNCHANGED <<schemaVars, compileVars, seedVars, packVars>>

ComponentsTypeOK ==
    CASE focus = "mail"          -> MailTypeOK
      [] focus = "uploads"       -> UploadTypeOK
      [] focus = "sessions"      -> AuthTypeOK
      [] focus = "organizations" -> OrgTypeOK
      [] focus = "records"       -> RecordTypeOK
      [] focus = "schema"        -> SchemaTypeOK
      [] focus = "compile"       -> CompileTypeOK
      [] focus = "seed"          -> SeedTypeOK
      [] focus = "endpoints"     -> EndpointTypeOK
      [] focus = "cron"          -> CronTypeOK
      [] focus = "tests"         -> TestTypeOK
=============================================================================
