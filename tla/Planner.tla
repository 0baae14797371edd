------------------------------ MODULE Planner ------------------------------
(***************************************************************************)
(* planGeneration (packages/generator-runtime/src/plan.ts): what a         *)
(* generation would do to every file, decided from four things only: the   *)
(* rendered files, the files on disk, the manifest the run has read, and   *)
(* force.  The plan is given as the sets of paths per action.              *)
(***************************************************************************)
EXTENDS ProjectFiles

(* Custom scaffolds and generated files that the run renders.              *)
RenderedCustom(files)    == Present(files) \cap CustomPaths
RenderedGenerated(files) == Present(files) \ CustomPaths

(* Created: nothing is there yet.  For a custom scaffold that is the only  *)
(* reason ever to write it.                                                *)
Creates(files, disk) == {p \in Present(files) : disk[p] = Absent}

(* Adopted: untracked, but byte-identical to what would be written.        *)
Adopted(files, disk, tracked) ==
    {p \in RenderedGenerated(files) : tracked[p] = Absent /\ disk[p] = files[p]}

(* Foreign: present, but not with the contents the generator last wrote    *)
(* there, whether it was edited or never tracked.                          *)
Foreign(files, disk, tracked) ==
    {p \in RenderedGenerated(files) : disk[p] # Absent /\ disk[p] # tracked[p]}
        \ Adopted(files, disk, tracked)

(* Without force a foreign file is a conflict and stops the run; with      *)
(* force it is overwritten.                                                *)
Conflicts(files, disk, tracked, force) ==
    IF force THEN {} ELSE Foreign(files, disk, tracked)

Updates(files, disk, tracked, force) ==
    (IF force THEN Foreign(files, disk, tracked) ELSE {})
    \cup {p \in RenderedGenerated(files) :
             disk[p] # Absent /\ disk[p] = tracked[p] /\ disk[p] # files[p]}

(* Mutant of Deletes: local modifications are not looked for.              *)
DeletesUnseen(files, disk, tracked, force) ==
    {p \in (Present(tracked) \ Present(files)) \ CustomPaths : disk[p] # Absent}

(* Deleted: the previous generation produced it, this one does not, and it *)
(* has no local modification (or force discards it).  Custom scaffolds are *)
(* never deleted.                                                          *)
Deletes(files, disk, tracked, force) ==
    {p \in (Present(tracked) \ Present(files)) \ CustomPaths :
        disk[p] # Absent /\ (force \/ disk[p] = tracked[p])}

(* The paths a run will touch.                                             *)
Touched(files, disk, tracked, force) ==
    Creates(files, disk) \cup Updates(files, disk, tracked, force)
                         \cup Deletes(files, disk, tracked, force)
=============================================================================
