------------------------------- MODULE Uploads -------------------------------
(***************************************************************************)
(* The uploads pack (features/uploads/src/render.ts): attachment rows in   *)
(* PostgreSQL, the objects they stand for in a store that knows nothing of *)
(* transactions, clients that upload with a presigned URL and complete or  *)
(* remove what they uploaded, and the sweepers that clean up after them.   *)
(*                                                                         *)
(* A call that is refused for its scope or its parent changes nothing and  *)
(* is no step here; nobody is obliged to call.                             *)
(***************************************************************************)
EXTENDS Integers, Sequences, FiniteSets

CONSTANTS Attachments,       \* rows, each with the one key of its object
          Unavailable,       \* those whose key the store answers no call for
          Uploaders,         \* clients, with one call in flight each
          Sweepers,          \* sweeps at the same time: UploadsSweeper instances, or
                             \* one sweep that outlasts its interval and the next
          PresignTtl,        \* PRESIGN_TTL_MS, in ticks
          StaleAfter,        \* UPLOADS_STALE_AFTER_MS, in ticks
          CleanupSize,       \* `take: 100' of sweepStale
          MaxStorageFaults   \* bound: failing stores and updates, crashes

(* validate: staleAfterMinutes is not shorter than presignTtlMinutes.      *)
ASSUME UploadsAssumption ==
    /\ Unavailable \subseteq Attachments /\ MaxStorageFaults \in Nat
    /\ PresignTtl \in Nat \ {0} /\ StaleAfter \in Nat /\ StaleAfter >= PresignTtl
    /\ CleanupSize \in Nat \ {0}

VARIABLES
    files,      \* the attachment table
    touched,    \* the rows in the order of their updatedAt
    tickets,    \* of each row: the presigned upload URL
    objects,    \* what the store holds under the key of each row
    mismatched, \* rows whose object was once found not to be the declared one
    upcall,     \* of each client: the call in flight
    cleanup,    \* of each sweeper: its sweep
    storageFaults

uploadVars == <<files, touched, tickets, objects, mismatched, upcall, cleanup, storageFaults>>

(* age: ticks since createdAt, as far as anyone asks.                      *)
File == [status: {"absent", "UPLOADING", "READY", "DELETING", "gone"}, age: 0 .. StaleAfter + 1]

(* left: ticks the URL is still good for; late: it was signed after the    *)
(* tick the row was created in.                                            *)
Ticket == [step: {"none", "created", "issued"}, left: 0 .. PresignTtl, late: BOOLEAN]

(* early: it has deleted the object while the URL was still good.          *)
Upcall == [row: Attachments \cup {"-"},
           step: {"away", "idle", "head", "discard", "ready", "mark", "delete", "drop"},
           early: BOOLEAN]
NoCall == [row |-> "-", step |-> "idle", early |-> FALSE]

(* A sweep: the rows it has selected, the first of which it is at, and     *)
(* those of them it has read as UPLOADING.                                 *)
Cleanup == [step: {"away", "idle", "next", "claim", "delete", "drop", "touch"},
            rows: Seq(Attachments), uploading: SUBSET Attachments]
NoSweep == [step |-> "idle", rows |-> <<>>, uploading |-> {}]

(* The rows that are still to come, the clients that call, the sweepers.   *)
UploadInit(A, C, W) ==
    /\ files = [a \in Attachments |->
                  [status |-> IF a \in A THEN "absent" ELSE "gone", age |-> 0]]
    /\ touched = <<>>
    /\ tickets = [a \in Attachments |-> [step |-> "none", left |-> 0, late |-> FALSE]]
    /\ objects = [a \in Attachments |-> "none"]
    /\ mismatched = {}
    /\ upcall = [c \in Uploaders |->
                   IF c \in C THEN NoCall ELSE [NoCall EXCEPT !.step = "away"]]
    /\ cleanup = [s \in Sweepers |->
                    IF s \in W THEN NoSweep ELSE [NoSweep EXCEPT !.step = "away"]]
    /\ storageFaults = 0

StorageFault == storageFaults < MaxStorageFaults /\ storageFaults' = storageFaults + 1

Exists(a) == files[a].status \in {"UPLOADING", "READY", "DELETING"}

Among(seq) == {seq[i] : i \in DOMAIN seq}

(* The rows in the order of their updatedAt, but for one.                  *)
TouchedBut(a) ==
    LET place == CHOOSE i \in DOMAIN touched : touched[i] = a
    IN  [i \in 1 .. Len(touched) - 1 |-> touched[IF i < place THEN i ELSE i + 1]]

(* updateMany where the row has one of these statuses: sets the status,    *)
(* and updatedAt with it.                                                  *)
SetStatus(a, from, to) ==
    IF files[a].status \in from
    THEN /\ files' = [files EXCEPT ![a].status = to]
         /\ touched' = Append(TouchedBut(a), a)
    ELSE UNCHANGED <<files, touched>>

(* deleteMany where the status is DELETING.                                *)
DropRow(a) == IF files[a].status = "DELETING"
              THEN /\ files' = [files EXCEPT ![a].status = "gone"]
                   /\ touched' = TouchedBut(a)
              ELSE UNCHANGED <<files, touched>>

(* StorageProvider.delete, which may fail; nothing to delete is fine.      *)
Deletes(a) == objects' = [objects EXCEPT ![a] = "none"]

-----------------------------------------------------------------------------
(* requestUpload: the row is created, and then the URL is signed; the      *)
(* request may die in between.                                             *)
RequestUpload(a) ==
    /\ files[a].status = "absent"
    /\ files' = [files EXCEPT ![a].status = "UPLOADING"]
    /\ touched' = Append(touched, a)
    /\ tickets' = [tickets EXCEPT ![a].step = "created"]
    /\ UNCHANGED <<objects, mismatched, upcall, cleanup, storageFaults>>

PresignPut(a) ==
    /\ tickets[a].step = "created"
    /\ tickets' = [tickets EXCEPT ![a] = [step |-> "issued", left |-> PresignTtl,
                                          late |-> files[a].age > 0]]
    /\ UNCHANGED <<files, touched, objects, mismatched, upcall, cleanup, storageFaults>>

(* The client's PUT, with if-none-match: "*".  The store may or may not    *)
(* hold it to the size and type that were signed.                          *)
Put(a, what) ==
    /\ tickets[a].left > 0 /\ objects[a] = "none" /\ a \notin Unavailable
    /\ what \in {"declared", "other"}
    /\ objects' = [objects EXCEPT ![a] = what]
    /\ UNCHANGED <<files, touched, tickets, mismatched, upcall, cleanup, storageFaults>>

-----------------------------------------------------------------------------
(* complete.                                                               *)
CallGoes(c, step) == upcall' = [upcall EXCEPT ![c].step = step]
CallEnds(c) == upcall' = [upcall EXCEPT ![c] = NoCall]

Complete(c, a) ==
    /\ upcall[c].step = "idle" /\ files[a].status = "UPLOADING"
    /\ upcall' = [upcall EXCEPT ![c] = [NoCall EXCEPT !.row = a, !.step = "head"]]
    /\ UNCHANGED <<files, touched, tickets, objects, mismatched, cleanup, storageFaults>>

HeadObject(c) ==
    /\ upcall[c].step = "head" /\ upcall[c].row \notin Unavailable
    /\ LET a == upcall[c].row
       IN  CASE objects[a] = "none"     -> CallEnds(c) /\ UNCHANGED mismatched
             [] objects[a] = "declared" -> CallGoes(c, "ready") /\ UNCHANGED mismatched
             [] OTHER -> CallGoes(c, "discard") /\ mismatched' = mismatched \cup {a}
    /\ UNCHANGED <<files, touched, tickets, objects, cleanup, storageFaults>>

(* An object that is not what was declared is deleted.                     *)
Discard(c) ==
    /\ upcall[c].step = "discard"
    /\ Deletes(upcall[c].row)
    /\ CallEnds(c)
    /\ UNCHANGED <<files, touched, tickets, mismatched, cleanup, storageFaults>>

(* Mutant of MarkReady: whatever has become of the row.                    *)
MarkReadyAnyway(c) ==
    /\ upcall[c].step = "ready"
    /\ SetStatus(upcall[c].row, {"UPLOADING", "DELETING"}, "READY")
    /\ CallEnds(c)
    /\ UNCHANGED <<tickets, objects, mismatched, cleanup, storageFaults>>

MarkReady(c) ==
    /\ upcall[c].step = "ready"
    /\ SetStatus(upcall[c].row, {"UPLOADING"}, "READY")
    /\ CallEnds(c)
    /\ UNCHANGED <<tickets, objects, mismatched, cleanup, storageFaults>>

-----------------------------------------------------------------------------
(* remove.                                                                 *)
RemoveUpload(c, a) ==
    /\ upcall[c].step = "idle" /\ Exists(a) /\ tickets[a].step = "issued"
    /\ upcall' = [upcall EXCEPT ![c] = [NoCall EXCEPT !.row = a, !.step = "mark"]]
    /\ UNCHANGED <<files, touched, tickets, objects, mismatched, cleanup, storageFaults>>

MarkDeleting(c) ==
    /\ upcall[c].step = "mark"
    /\ SetStatus(upcall[c].row, {"UPLOADING", "READY"}, "DELETING")
    /\ CallGoes(c, "delete")
    /\ UNCHANGED <<tickets, objects, mismatched, cleanup, storageFaults>>

DeleteObject(c) ==
    /\ upcall[c].step = "delete" /\ upcall[c].row \notin Unavailable
    /\ Deletes(upcall[c].row)
    /\ upcall' = [upcall EXCEPT ![c].step = "drop",
                                ![c].early = tickets[upcall[c].row].left > 0]
    /\ UNCHANGED <<files, touched, tickets, mismatched, cleanup, storageFaults>>

(* Mutant of DropRemoved: the row goes with its object, at once.           *)
DropRemovedAtOnce(c) ==
    /\ upcall[c].step = "drop"
    /\ DropRow(upcall[c].row)
    /\ CallEnds(c)
    /\ UNCHANGED <<tickets, objects, mismatched, cleanup, storageFaults>>

(* The row stays as a tombstone until PresignTtl after its creation.       *)
DropRemoved(c) ==
    /\ upcall[c].step = "drop"
    /\ IF files[upcall[c].row].age >= PresignTtl
       THEN DropRow(upcall[c].row) ELSE UNCHANGED <<files, touched>>
    /\ CallEnds(c)
    /\ UNCHANGED <<tickets, objects, mismatched, cleanup, storageFaults>>

(* A call dies, or the store or the database fails it.                     *)
CallFails(c) ==
    /\ upcall[c].step \notin {"away", "idle"}
    /\ IF upcall[c].step \in {"head", "delete"} /\ upcall[c].row \in Unavailable
       THEN UNCHANGED storageFaults ELSE StorageFault
    /\ CallEnds(c)
    /\ UNCHANGED <<files, touched, tickets, objects, mismatched, cleanup>>

-----------------------------------------------------------------------------
(* sweepStale: the first CleanupSize rows that are not READY and older     *)
(* than StaleAfter, those first that were not touched for the longest.     *)
Stale(a) == files[a].status \in {"UPLOADING", "DELETING"} /\ files[a].age > StaleAfter

Batches ==
    LET stale == {i \in DOMAIN touched : Stale(touched[i])}
        size  == IF Cardinality(stale) < CleanupSize THEN Cardinality(stale) ELSE CleanupSize
    IN  {[k \in 1 .. size |-> touched[place[k]]] :
            place \in {p \in [1 .. size -> stale] :
                         \A k \in 1 .. size : Cardinality({i \in stale : i <= p[k]}) = k}}

At(s) == cleanup[s].rows[1]
SweepGoes(s, step) == cleanup' = [cleanup EXCEPT ![s].step = step]

(* The sweep goes on with its next row.                                    *)
SweepOn(s) == cleanup' = [cleanup EXCEPT ![s].step = "next", ![s].rows = Tail(@)]

SelectStale(s) ==
    /\ cleanup[s].step = "idle"
    /\ \E batch \in Batches :
          /\ batch # <<>>
          /\ cleanup' = [cleanup EXCEPT ![s] =
                [step |-> "next", rows |-> batch,
                 uploading |-> {a \in Among(batch) : files[a].status = "UPLOADING"}]]
    /\ UNCHANGED <<files, touched, tickets, objects, mismatched, upcall, storageFaults>>

NextStale(s) ==
    /\ cleanup[s].step = "next"
    /\ IF cleanup[s].rows = <<>> THEN cleanup' = [cleanup EXCEPT ![s] = NoSweep]
       ELSE SweepGoes(s, IF At(s) \in cleanup[s].uploading THEN "claim" ELSE "delete")
    /\ UNCHANGED <<files, touched, tickets, objects, mismatched, upcall, storageFaults>>

(* A row that was completed since is left alone.                           *)
ClaimStale(s) ==
    /\ cleanup[s].step = "claim"
    /\ SetStatus(At(s), {"UPLOADING"}, "DELETING")
    /\ IF files[At(s)].status = "UPLOADING" THEN SweepGoes(s, "delete") ELSE SweepOn(s)
    /\ UNCHANGED <<tickets, objects, mismatched, upcall, storageFaults>>

(* Mutant of SweepObject: a row that cannot be deleted keeps its place.    *)
SweepObjectFailing(s) ==
    /\ cleanup[s].step = "delete"
    /\ IF At(s) \in Unavailable THEN SweepOn(s) /\ UNCHANGED <<objects, storageFaults>>
       ELSE \/ Deletes(At(s)) /\ SweepGoes(s, "drop") /\ UNCHANGED storageFaults
            \/ StorageFault /\ SweepOn(s) /\ UNCHANGED objects
    /\ UNCHANGED <<files, touched, tickets, mismatched, upcall>>

SweepObject(s) ==
    /\ cleanup[s].step = "delete"
    /\ IF At(s) \in Unavailable THEN SweepGoes(s, "touch") /\ UNCHANGED <<objects, storageFaults>>
       ELSE \/ Deletes(At(s)) /\ SweepGoes(s, "drop") /\ UNCHANGED storageFaults
            \/ StorageFault /\ SweepGoes(s, "touch") /\ UNCHANGED objects
    /\ UNCHANGED <<files, touched, tickets, mismatched, upcall>>

SweepRow(s) ==
    /\ cleanup[s].step = "drop"
    /\ \/ DropRow(At(s)) /\ SweepOn(s) /\ UNCHANGED storageFaults
       \/ StorageFault /\ SweepGoes(s, "touch") /\ UNCHANGED <<files, touched>>
    /\ UNCHANGED <<tickets, objects, mismatched, upcall>>

(* The catch: the row is updated to what it is, and so put behind the      *)
(* others.                                                                 *)
TouchRow(s) ==
    /\ cleanup[s].step = "touch"
    /\ SetStatus(At(s), {"DELETING"}, "DELETING")
    /\ SweepOn(s)
    /\ UNCHANGED <<tickets, objects, mismatched, upcall, storageFaults>>

(* The process dies, or an update outside of the try fails.                *)
SweepFails(s) ==
    /\ cleanup[s].step \notin {"away", "idle"}
    /\ StorageFault
    /\ cleanup' = [cleanup EXCEPT ![s] = NoSweep]
    /\ UNCHANGED <<files, touched, tickets, objects, mismatched, upcall>>

UploadClock ==
    /\ files' = [a \in Attachments |->
          IF Exists(a) /\ files[a].age <= StaleAfter
          THEN [files[a] EXCEPT !.age = @ + 1] ELSE files[a]]
    /\ tickets' = [a \in Attachments |->
          [tickets[a] EXCEPT !.left = IF @ > 0 THEN @ - 1 ELSE 0]]
    /\ UNCHANGED <<touched, objects, mismatched, upcall, cleanup, storageFaults>>

-----------------------------------------------------------------------------
UploadCall(c) == \/ \E a \in Attachments : Complete(c, a) \/ RemoveUpload(c, a)
                 \/ HeadObject(c) \/ Discard(c) \/ MarkReady(c)
                 \/ MarkDeleting(c) \/ DeleteObject(c) \/ DropRemoved(c)

SweepStep(s) == \/ SelectStale(s) \/ NextStale(s) \/ ClaimStale(s)
                \/ SweepObject(s) \/ SweepRow(s) \/ TouchRow(s)

UploadNext ==
    \/ \E a \in Attachments : RequestUpload(a) \/ PresignPut(a)
    \/ \E a \in Attachments, what \in {"declared", "other"} : Put(a, what)
    \/ \E c \in Uploaders : UploadCall(c) \/ CallFails(c)
    \/ \E s \in Sweepers : SweepStep(s) \/ SweepFails(s)
    \/ UploadClock

(* @Interval keeps the sweepers coming back, and time passes.              *)
UploadFairness == /\ \A s \in Sweepers : WF_uploadVars(SweepStep(s))
                  /\ WF_uploadVars(UploadClock)

-----------------------------------------------------------------------------
UploadTypeOK ==
    /\ files \in [Attachments -> File]
    /\ tickets \in [Attachments -> Ticket]
    /\ objects \in [Attachments -> {"none", "declared", "other"}]
    /\ mismatched \subseteq Attachments
    /\ upcall \in [Uploaders -> Upcall]
    /\ \A s \in Sweepers : /\ cleanup[s].step \in {"away", "idle", "next", "claim",
                                                   "delete", "drop", "touch"}
                           /\ Len(cleanup[s].rows) <= CleanupSize
                           /\ cleanup[s].uploading \subseteq Attachments
    /\ Among(touched) = {a \in Attachments : Exists(a)}
    /\ \A i, k \in DOMAIN touched : touched[i] = touched[k] => i = k
    /\ storageFaults \in 0 .. MaxStorageFaults

(* What is served is what was verified: a READY row has the object that    *)
(* was declared, whatever its removal, other completions and the sweepers  *)
(* do at the same time, unless some completion had found another object    *)
(* under its key before.  render.ts complete, remove, sweepStale.          *)
ReadyIsVerified ==
    \A a \in Attachments : files[a].status = "READY" /\ a \notin mismatched =>
        objects[a] = "declared"

(* No object outlives its row: when a row goes, the upload URL signed in   *)
(* the tick of its creation has expired, and an object that was uploaded   *)
(* again after its removal is gone as well.  Only a removal that deletes   *)
(* the object before the URL expires and asks for the time after that may  *)
(* drop the row too early.  render.ts remove ("Keep a tombstone until the  *)
(* upload URL has expired"), sweepStale.                                   *)
NoOrphan ==
    [][\A a \in Attachments :
         files[a].status = "DELETING" /\ files'[a].status = "gone"
           /\ tickets[a].step = "issued" /\ ~tickets[a].late =>
         /\ tickets[a].left = 0
         /\ \/ objects[a] = "none"
            \/ \E c \in Uploaders : upcall[c].row = a /\ upcall[c].early]_uploadVars

(* One object that cannot be deleted holds up no other: everything else    *)
(* that is stale or removed goes in the end.  render.ts sweepStale ("one   *)
(* unavailable object must not starve cleanup").                           *)
CleanedUp ==
    \A a \in Attachments \ Unavailable :
        files[a].status \in {"UPLOADING", "DELETING"} ~> files[a].status \in {"READY", "gone"}
=============================================================================
