---------------------------- MODULE Notifications ----------------------------
(***************************************************************************)
(* The notifications pack (features/notifications/src/render.ts).  A       *)
(* message of a domain change goes through an outbox, a WorkQueue table    *)
(* that any number of dispatchers claim from; an account-recovery message, *)
(* which carries a credential, is sent while its request waits and is      *)
(* never stored.                                                           *)
(***************************************************************************)
EXTENDS WorkQueue

CONSTANTS Dispatchers,      \* the NotificationOutboxDispatcher instances
          Messages,         \* NotificationOutbox rows
          Recoveries,       \* recovery messages
          DispatchBatches,  \* MAX_BATCHES_PER_TICK
          MaxMailFaults     \* bound: crashes, database errors, overrun leases,
                            \* answers of the provider that come too late

ASSUME NotificationsAssumption == /\ DispatchBatches \in Nat \ {0}
                                  /\ MaxMailFaults \in Nat
                                  /\ Messages \cap Recoveries = {}

VARIABLES
    outbox,     \* the NotificationOutbox table
    dispatch,   \* of each dispatcher: how far its dispatchPending() is
    mailing,    \* the processRow() calls in flight
    recovery,   \* of each recovery message: how far send() is
    provider,   \* of each message: the calls for it, and those accepted
    mailFaults

mailVars == <<outbox, dispatch, mailing, recovery, provider, mailFaults>>

(* running, the number of the batch, and whether it was a full one.        *)
Dispatching == [running: BOOLEAN, batch: 0 .. DispatchBatches, full: BOOLEAN]
Resting     == [running |-> FALSE, batch |-> 0, full |-> FALSE]

(* A processRow() call; its attempt stands for the leaseUntil of the claim.*)
Mailing == [row: Messages, attempt: 1 .. MaxAttempts, left: -1 .. Lease,
            by: Dispatchers, step: {"render", "send", "ok", "retry", "drop"},
            awaited: BOOLEAN]

Sending == [step: {"none", "send", "accepted", "failed", "delivered", "refused"},
            attempt: 0 .. MaxAttempts]

MailInit == /\ outbox = [m \in Messages |-> NoRow]
            /\ dispatch = [w \in Dispatchers |-> Resting]
            /\ mailing = {}
            /\ recovery = [m \in Recoveries |-> [step |-> "none", attempt |-> 0]]
            /\ provider = [m \in Messages \cup Recoveries |-> [calls |-> 0, accepted |-> 0]]
            /\ mailFaults = 0

MailFault == mailFaults < MaxMailFaults /\ mailFaults' = mailFaults + 1

-----------------------------------------------------------------------------
(* enqueueNotification, in the transaction of the domain change.           *)
Notify(m) == /\ outbox[m].status = "absent"
             /\ outbox' = [outbox EXCEPT ![m] = NewRow(0)]
             /\ UNCHANGED <<dispatch, mailing, recovery, provider, mailFaults>>

(* The answers of a provider: accepted, turned down for good, or neither   *)
(* (408, 425, 429, 5xx, no connection), and one that comes after           *)
(* deliverOnce has stopped waiting for it.                                 *)
Answers == {"accepted", "rejected", "neither", "late"}

Asked(m, answer) ==
    /\ provider' = [provider EXCEPT
          ![m].calls = @ + 1,
          ![m].accepted = IF answer \in {"accepted", "late"} THEN @ + 1 ELSE @]
    /\ IF answer = "late" THEN MailFault ELSE UNCHANGED mailFaults

-----------------------------------------------------------------------------
(* dispatchPending: batch after batch as long as they are full ones.       *)
BatchDone(w) == \A c \in mailing : c.by = w => ~c.awaited
AnotherBatch(w) == dispatch[w].full /\ dispatch[w].batch < DispatchBatches

(* Mutant of Exhausted: off by one, the last attempt is left out.          *)
ExhaustedLate(page) == {m \in page : outbox[m].attempts > MaxAttempts}

Exhausted(page) == {m \in page : outbox[m].attempts >= MaxAttempts}

(* claimBatch, one transaction: rows whose attempts are used up fail, the  *)
(* others are leased.  With nothing to run the tick is over.               *)
ClaimBatch(w) ==
    /\ ~dispatch[w].running \/ (BatchDone(w) /\ AnotherBatch(w))
    /\ \E page \in Pages(outbox) :
          LET runnable == page \ Exhausted(page)
          IN  /\ outbox' = [m \in Messages |->
                    IF m \in runnable THEN Leased(outbox[m])
                    ELSE IF m \in page THEN Settled(outbox[m], "FAILED")
                    ELSE outbox[m]]
              /\ mailing' = mailing \cup
                    {[row |-> m, attempt |-> outbox[m].attempts + 1, left |-> Lease,
                      by |-> w, step |-> "render", awaited |-> TRUE] : m \in runnable}
              /\ dispatch' = [dispatch EXCEPT ![w] =
                    IF runnable = {} THEN Resting
                    ELSE [running |-> TRUE, batch |-> @.batch + 1,
                          full |-> Cardinality(runnable) = BatchSize]]
    /\ UNCHANGED <<recovery, provider, mailFaults>>

EndDispatch(w) == /\ dispatch[w].running /\ BatchDone(w) /\ ~AnotherBatch(w)
                  /\ dispatch' = [dispatch EXCEPT ![w] = Resting]
                  /\ UNCHANGED <<outbox, mailing, recovery, provider, mailFaults>>

-----------------------------------------------------------------------------
(* processRow.                                                             *)
MailGoes(c, step) == mailing' = (mailing \ {c}) \cup {[c EXCEPT !.step = step]}
MailEnds(c) == mailing' = mailing \ {c}

(* where: { status: 'PENDING', lockedUntil: row.leaseUntil }               *)
MayRecord(c) == /\ outbox[c.row].status = "PENDING" /\ outbox[c.row].locked
                /\ outbox[c.row].attempts = c.attempt

(* renderMessage: the recipient is looked up now, and may be gone; an      *)
(* invalid payload or an event nobody renders is as final.                 *)
RenderMail(c, found) ==
    /\ c.step = "render"
    /\ MailGoes(c, IF found THEN "send" ELSE "drop")
    /\ UNCHANGED <<outbox, dispatch, recovery, provider, mailFaults>>

(* deliverOnce.                                                            *)
SendMail(c, answer) ==
    /\ c.step = "send"
    /\ Asked(c.row, answer)
    /\ MailGoes(c, CASE answer = "accepted" -> "ok"
                     [] answer = "rejected" -> "drop"
                     [] OTHER -> "retry")
    /\ UNCHANGED <<outbox, dispatch, recovery>>

(* Mutant of RecordDelivered: recorded once the call is started.           *)
RecordEarly(c) ==
    /\ c.step \in {"send", "ok"}
    /\ outbox' = IF MayRecord(c) THEN [outbox EXCEPT ![c.row] = Settled(@, "DONE")] ELSE outbox
    /\ MailEnds(c)
    /\ UNCHANGED <<dispatch, recovery, provider, mailFaults>>

RecordDelivered(c) ==
    /\ c.step = "ok"
    /\ outbox' = IF MayRecord(c) THEN [outbox EXCEPT ![c.row] = Settled(@, "DONE")] ELSE outbox
    /\ MailEnds(c)
    /\ UNCHANGED <<dispatch, recovery, provider, mailFaults>>

(* recordFailure: terminal, or another attempt later.                      *)
RecordFailure(c) ==
    /\ c.step \in {"retry", "drop"}
    /\ outbox' = IF ~MayRecord(c) THEN outbox
                 ELSE [outbox EXCEPT ![c.row] =
                         IF c.step = "drop" \/ c.attempt >= MaxAttempts
                         THEN Settled(@, "FAILED") ELSE Retried(@, RetryDelay(c.attempt))]
    /\ MailEnds(c)
    /\ UNCHANGED <<dispatch, recovery, provider, mailFaults>>

(* The database fails under the lookup of the recipient or under the       *)
(* update of an accepted message: a failure like any other, to be retried. *)
MailCaught(c) ==
    /\ c.step \in {"render", "ok"}
    /\ MailFault
    /\ MailGoes(c, "retry")
    /\ UNCHANGED <<outbox, dispatch, recovery, provider>>

(* It fails under recordFailure: the tick fails, and the other calls of    *)
(* the batch go on without it.                                             *)
MailRejects(c) ==
    /\ c.step \in {"retry", "drop"}
    /\ MailFault
    /\ mailing' = {IF x.by = c.by THEN [x EXCEPT !.awaited = FALSE] ELSE x :
                      x \in mailing \ {c}}
    /\ dispatch' = [dispatch EXCEPT ![c.by] = IF c.awaited THEN Resting ELSE @]
    /\ UNCHANGED <<outbox, recovery, provider>>

-----------------------------------------------------------------------------
(* NotificationService.send, awaited by the request that made the          *)
(* credential, which is told whether the provider has accepted it.         *)
Recover(m) == /\ recovery[m].step = "none"
              /\ recovery' = [recovery EXCEPT ![m] = [step |-> "send", attempt |-> 1]]
              /\ UNCHANGED <<outbox, dispatch, mailing, provider, mailFaults>>

SendRecovery(m, answer) ==
    /\ recovery[m].step = "send"
    /\ Asked(m, answer)
    /\ LET r == recovery[m]
       IN  recovery' = [recovery EXCEPT ![m] =
             IF answer = "accepted" THEN [r EXCEPT !.step = "accepted"]
             ELSE IF answer = "rejected" \/ r.attempt = MaxAttempts
             THEN [r EXCEPT !.step = "failed"]
             ELSE [r EXCEPT !.attempt = @ + 1]]
    /\ UNCHANGED <<outbox, dispatch, mailing>>

(* The listener returns, or throws: the request fails with it.             *)
AnswerRequest(m) ==
    /\ recovery[m].step \in {"accepted", "failed"}
    /\ recovery' = [recovery EXCEPT ![m].step =
                      IF @ = "accepted" THEN "delivered" ELSE "refused"]
    /\ UNCHANGED <<outbox, dispatch, mailing, provider, mailFaults>>

(* The process dies with the request.  Nothing is left to send.            *)
RequestDies(m) ==
    /\ recovery[m].step \in {"send", "accepted", "failed"}
    /\ MailFault
    /\ recovery' = [recovery EXCEPT ![m].step = "refused"]
    /\ UNCHANGED <<outbox, dispatch, mailing, provider>>

-----------------------------------------------------------------------------
DispatcherDies(w) ==
    /\ dispatch[w].running \/ \E c \in mailing : c.by = w
    /\ MailFault
    /\ dispatch' = [dispatch EXCEPT ![w] = Resting]
    /\ mailing' = {c \in mailing : c.by # w}
    /\ UNCHANGED <<outbox, recovery, provider>>

(* A tick of the clock.  Calls end before their lease does, except for     *)
(* MaxMailFaults times.                                                    *)
MailClock ==
    /\ IF \E c \in mailing : c.left = 1 THEN MailFault ELSE UNCHANGED mailFaults
    /\ outbox' = [m \in Messages |-> Later(outbox[m])]
    /\ mailing' = {[c EXCEPT !.left = Down(@, -1)] : c \in mailing}
    /\ UNCHANGED <<dispatch, recovery, provider>>

-----------------------------------------------------------------------------
ProcessRow(c) == \/ \E found \in BOOLEAN : RenderMail(c, found)
                 \/ \E answer \in Answers : SendMail(c, answer)
                 \/ RecordDelivered(c) \/ RecordFailure(c)

SendNow(m) == (\E answer \in Answers : SendRecovery(m, answer)) \/ AnswerRequest(m)

MailNext == \/ \E m \in Messages : Notify(m)
            \/ \E m \in Recoveries : Recover(m) \/ SendNow(m) \/ RequestDies(m)
            \/ \E w \in Dispatchers : ClaimBatch(w) \/ EndDispatch(w) \/ DispatcherDies(w)
            \/ \E c \in mailing : ProcessRow(c) \/ MailCaught(c) \/ MailRejects(c)
            \/ MailClock

(* @Interval keeps the dispatchers polling, the event loop keeps what was  *)
(* started going, a call has a timeout, and time passes.                   *)
MailFairness ==
    /\ \A w \in Dispatchers : WF_mailVars(ClaimBatch(w) \/ EndDispatch(w))
    /\ \A m \in Messages : \A w \in Dispatchers :
          WF_mailVars(\E c \in mailing : c.row = m /\ c.by = w /\ ProcessRow(c))
    /\ \A m \in Recoveries : WF_mailVars(SendNow(m))
    /\ WF_mailVars(MailClock)

-----------------------------------------------------------------------------
MailTypeOK == /\ outbox \in [Messages -> Row]
              /\ \A m \in Messages : outbox[m].attempts <= MaxAttempts
              /\ dispatch \in [Dispatchers -> Dispatching]
              /\ mailing \subseteq Mailing
              /\ recovery \in [Recoveries -> Sending]
              /\ mailFaults \in 0 .. MaxMailFaults

(* The mailbox a caller sees: whichever way a message takes and whatever   *)
(* crashes, it is delivered only after the provider has accepted it, is    *)
(* settled once and for good, and costs the provider at most MaxAttempts   *)
(* calls.  render.ts dispatcherFile, serviceFile; "delivery is             *)
(* intentionally at least once".                                           *)
Box == INSTANCE Mailbox WITH
          Letters  <- Messages \cup Recoveries,
          MaxCalls <- MaxAttempts,
          mail     <- [m \in Messages \cup Recoveries |->
                         IF m \in Messages
                         THEN CASE outbox[m].status = "absent"  -> "none"
                                [] outbox[m].status = "PENDING" -> "queued"
                                [] outbox[m].status = "DONE"    -> "delivered"
                                [] OTHER                        -> "dropped"
                         ELSE CASE recovery[m].step = "none"      -> "none"
                                [] recovery[m].step = "delivered" -> "delivered"
                                [] recovery[m].step = "refused"   -> "dropped"
                                [] OTHER                          -> "queued"],
          calls    <- [m \in Messages \cup Recoveries |-> provider[m].calls],
          accepted <- [m \in Messages \cup Recoveries |-> provider[m].accepted]

MailboxKept == Box!Spec

(* A recipient gets a message twice only after something went wrong: a     *)
(* crash, a late answer, a lost lease or a success that was not recorded,  *)
(* once for each time.  render.ts processRow, claimBatch.                  *)
NoNeedlessDuplicate ==
    \A m \in Messages \cup Recoveries : provider[m].accepted <= 1 + mailFaults
=============================================================================
