---------------------------- MODULE MCGenerator ----------------------------
(***************************************************************************)
(* Generator on one column, one generated source and one custom file, with *)
(* migration prefixes up to MaxPrefix and three specifications: without    *)
(* the column, with it optional, with it required.                         *)
(***************************************************************************)
EXTENDS Generator, TLC

CONSTANTS c1, v1, v2, r1, r2

MCColumns == {c1}
MCVersions == {v1, v2}
MCSpec(level, version) == [schema |-> [c \in MCColumns |-> level],
                           code   |-> [f \in CodeFiles |-> version]]

(* The source file changes with the schema and is not rendered at all for  *)
(* the smallest one.                                                       *)
MCSpecs == {MCSpec("none", Absent), MCSpec("optional", v1), MCSpec("required", v2)}
MCTwoSpecs == {MCSpec("none", v1), MCSpec("optional", v2)}

MCRequest(spec, accept, force, allowDestructive, dryRun) ==
    [spec |-> spec, accept |-> accept,
     options |-> [force |-> force, allowDestructive |-> allowDestructive, dryRun |-> dryRun]]

(* --force and --allow-destructive are consulted at different stages, so   *)
(* neither and both are enough; a dry run stops before either matters.     *)
MCRequests ==
    {MCRequest(s, m, FALSE, FALSE, FALSE) : s \in MCSpecs, m \in {NoPath} \cup ManualPaths}
    \cup {MCRequest(s, m, TRUE, TRUE, FALSE) : s \in MCSpecs, m \in {NoPath, Manual(MaxPrefix)}}
    \cup {MCRequest(s, NoPath, FALSE, FALSE, TRUE) : s \in MCSpecs}

MCRealRequests ==
    {MCRequest(s, NoPath, TRUE, TRUE, FALSE) : s \in MCTwoSpecs}
    \cup {MCRequest(s, Manual(1), FALSE, FALSE, FALSE) : s \in MCTwoSpecs}

MCSymmetry == Permutations(Runs)
=============================================================================
