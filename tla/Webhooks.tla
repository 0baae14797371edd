------------------------------ MODULE Webhooks ------------------------------
(***************************************************************************)
(* The webhooks pack (features/webhooks/src/render.ts): endpoints that are *)
(* registered and removed, events captured with a domain change, and any   *)
(* number of dispatchers, each fanning events out to the endpoints and     *)
(* posting the deliveries.  Both stages claim under a lease on a WorkQueue *)
(* table of their own.  Any step can fail and any process can die.         *)
(*                                                                         *)
(* Every endpoint subscribes to every event; which ones an event is for is *)
(* decided by when they were registered and whether they are active.       *)
(***************************************************************************)
EXTENDS WorkQueue

CONSTANTS Workers,          \* the WebhookDispatcher instances
          Events,           \* WebhookEvent rows
          Endpoints,        \* WebhookEndpoint rows
          DisableAfter,     \* DISABLE_AFTER_FAILURES
          MaxBatches,       \* MAX_BATCHES_PER_TICK
          MaxDisturbances   \* bound: crashes, database errors, overrun leases

ASSUME WebhooksAssumption == /\ DisableAfter \in Nat \ {0} /\ MaxBatches \in Nat \ {0}
                             /\ MaxDisturbances \in Nat

VARIABLES
    endpoints,   \* [state, failures], failures being consecutiveFailures
    events,      \* the WebhookEvent table
    eligible,    \* of each event: the endpoints with createdAt <= its own
    deliveries,  \* the WebhookDelivery table, by (event, endpoint)
    tick,        \* of each dispatcher: where in tick() it is
    claimed,     \* of each dispatcher: the events it has still to fan out
    posts,       \* the deliver() calls in flight
    disturbances

tables == <<endpoints, events, eligible, deliveries>>
vars == <<tables, tick, claimed, posts, disturbances>>

Delivery == Events \X Endpoints

(* A dispatcher's tick: its stage, the batches claimed in that stage, and  *)
(* whether the last of them was a full one.                                *)
Ticking == [stage: {"idle", "fan-out", "deliver"}, batch: 0 .. MaxBatches, full: BOOLEAN]
Idle    == [stage |-> "idle", batch |-> 0, full |-> FALSE]

(* A claimed event and a deliver() call.  As in JobQueue the attempt       *)
(* stands for the lockedUntil of the claim.                                *)
Claim == [event: Events, attempt: Nat \ {0}, left: -1 .. Lease,
          read: BOOLEAN, matching: SUBSET Endpoints]
Call  == [row: Delivery, attempt: Nat \ {0}, left: -1 .. Lease, worker: Workers,
          step: {"check", "post", "cancel", "ok", "retry", "fail"},
          caught: BOOLEAN, awaited: BOOLEAN]

Init == /\ endpoints = [p \in Endpoints |-> [state |-> "absent", failures |-> 0]]
        /\ events = [e \in Events |-> NoRow]
        /\ eligible = [e \in Events |-> {}]
        /\ deliveries = [d \in Delivery |-> NoRow]
        /\ tick = [w \in Workers |-> Idle]
        /\ claimed = [w \in Workers |-> {}]
        /\ posts = {} /\ disturbances = 0

Disturb == /\ disturbances < MaxDisturbances
           /\ disturbances' = disturbances + 1

-----------------------------------------------------------------------------
(* WebhookService.create and remove; removing cascades to the deliveries.  *)
Register(p) == /\ endpoints[p].state = "absent"
               /\ endpoints' = [endpoints EXCEPT ![p].state = "active"]
               /\ UNCHANGED <<events, eligible, deliveries, tick, claimed, posts,
                              disturbances>>

Remove(p) == /\ endpoints[p].state \in {"active", "disabled"}
             /\ endpoints' = [endpoints EXCEPT ![p].state = "deleted"]
             /\ deliveries' = [d \in Delivery |->
                   IF d[2] = p /\ deliveries[d].status # "absent"
                   THEN Settled(deliveries[d], "deleted") ELSE deliveries[d]]
             /\ UNCHANGED <<events, eligible, tick, claimed, posts, disturbances>>

(* enqueueWebhookEvent, in the transaction of the domain change.           *)
Capture(e) == /\ events[e].status = "absent"
              /\ events' = [events EXCEPT ![e] = NewRow(0)]
              /\ eligible' = [eligible EXCEPT ![e] =
                    {p \in Endpoints : endpoints[p].state \in {"active", "disabled"}}]
              /\ UNCHANGED <<endpoints, deliveries, tick, claimed, posts, disturbances>>

-----------------------------------------------------------------------------
(* One tick() at a time per instance: batches of events as long as they    *)
(* are full ones, and then batches of deliveries.                          *)
More(w)     == tick[w].full /\ tick[w].batch < MaxBatches
FannedOut(w) == tick[w].stage = "fan-out" /\ claimed[w] = {}
Posted(w)   == tick[w].stage = "deliver" /\ \A c \in posts : c.worker = w => ~c.awaited

Claims(w, stage, page) ==
    tick' = [tick EXCEPT ![w] =
               [stage |-> stage,
                batch |-> IF @.stage = stage THEN @.batch + 1 ELSE 1,
                full  |-> Cardinality(page) = BatchSize]]

Lock(rows, page) == [r \in DOMAIN rows |-> IF r \in page THEN Leased(rows[r]) ELSE rows[r]]

(* fanOut, the claim.                                                      *)
ClaimEvents(w) ==
    /\ tick[w].stage = "idle" \/ (FannedOut(w) /\ More(w))
    /\ \E page \in Pages(events) :
          /\ events' = Lock(events, page)
          /\ claimed' = [claimed EXCEPT ![w] =
                {[event |-> e, attempt |-> events[e].attempts + 1, left |-> Lease,
                  read |-> FALSE, matching |-> {}] : e \in page}]
          /\ Claims(w, "fan-out", page)
    /\ UNCHANGED <<endpoints, eligible, deliveries, posts, disturbances>>

(* deliverBatch, the claim.                                                *)
ClaimDeliveries(w) ==
    /\ (FannedOut(w) /\ ~More(w)) \/ (Posted(w) /\ More(w))
    /\ \E page \in Pages(deliveries) :
          /\ deliveries' = Lock(deliveries, page)
          /\ posts' = posts \cup
                {[row |-> d, attempt |-> deliveries[d].attempts + 1, left |-> Lease,
                  worker |-> w, step |-> "check", caught |-> FALSE, awaited |-> TRUE] :
                    d \in page}
          /\ Claims(w, "deliver", page)
    /\ UNCHANGED <<endpoints, events, eligible, claimed, disturbances>>

EndTick(w) == /\ Posted(w) /\ ~More(w)
              /\ tick' = [tick EXCEPT ![w] = Idle]
              /\ UNCHANGED <<tables, claimed, posts, disturbances>>

-----------------------------------------------------------------------------
(* fanOutEvent, for one event after the other.                             *)

(* Mutant of Holds: rows are updated by their id alone.                    *)
HoldsById(row, c) == row.status \in {"PENDING", "DONE", "FAILED"}

(* where: { status: 'PENDING', lockedUntil: row.leaseUntil }               *)
Holds(row, c) == row.status = "PENDING" /\ row.locked /\ row.attempts = c.attempt

InHand(w, c) == /\ c \in claimed[w]
                /\ \A x \in claimed[w] : x.read => x = c

ReadEndpoints(w, c) ==
    /\ InHand(w, c) /\ ~c.read /\ c.attempt <= MaxAttempts
    /\ claimed' = [claimed EXCEPT ![w] = (@ \ {c}) \cup
          {[c EXCEPT !.read = TRUE,
                     !.matching = {p \in eligible[c.event] : endpoints[p].state = "active"}]}]
    /\ UNCHANGED <<tables, tick, posts, disturbances>>

SetAside(w, c) == claimed' = [claimed EXCEPT ![w] = @ \ {c}]

(* createMany refuses an endpoint that has been removed since.             *)
Refused(c) == \E p \in c.matching : endpoints[p].state = "deleted"

(* Mutant of FanOut: the event is settled outside of the transaction.      *)
FanOutInPieces(w, c) ==
    /\ InHand(w, c) /\ c.read
    /\ IF Holds(events[c.event], c)
       THEN /\ events' = [events EXCEPT ![c.event] = Settled(@, "DONE")]
            /\ deliveries' = [d \in Delivery |->
                  IF ~Refused(c) /\ d[1] = c.event /\ d[2] \in c.matching
                  THEN NewRow(0) ELSE deliveries[d]]
       ELSE UNCHANGED <<events, deliveries>>
    /\ SetAside(w, c)
    /\ UNCHANGED <<endpoints, eligible, tick, posts, disturbances>>

(* One transaction: the event is DONE and has a delivery per endpoint.     *)
FanOut(w, c) ==
    /\ InHand(w, c) /\ c.read
    /\ Holds(events[c.event], c) => ~Refused(c)
    /\ IF Holds(events[c.event], c)
       THEN /\ events' = [events EXCEPT ![c.event] = Settled(@, "DONE")]
            /\ deliveries' = [d \in Delivery |->
                  IF /\ d[1] = c.event /\ d[2] \in c.matching
                     /\ deliveries[d].status = "absent"
                  THEN NewRow(0) ELSE deliveries[d]]
       ELSE UNCHANGED <<events, deliveries>>
    /\ SetAside(w, c)
    /\ UNCHANGED <<endpoints, eligible, tick, posts, disturbances>>

(* settleEventFailure, after the retry limit, a refused createMany or a    *)
(* database error.                                                         *)
EventFails(w, c) ==
    /\ InHand(w, c)
    /\ IF c.attempt > MaxAttempts \/ (c.read /\ Holds(events[c.event], c) /\ Refused(c))
       THEN UNCHANGED disturbances
       ELSE Disturb
    /\ events' = IF Holds(events[c.event], c)
                 THEN [events EXCEPT ![c.event] =
                         IF c.attempt >= MaxAttempts THEN Settled(@, "FAILED")
                         ELSE Retried(@, RetryDelay(c.attempt))]
                 ELSE events
    /\ SetAside(w, c)
    /\ UNCHANGED <<endpoints, eligible, deliveries, tick, posts>>

(* A claim fails, or recording an event's failure does: the tick ends, and *)
(* what it had claimed is left to its lease.                               *)
TickFails(w) == /\ tick[w].stage = "fan-out" \/ (Posted(w) /\ More(w))
                /\ Disturb
                /\ tick' = [tick EXCEPT ![w] = Idle]
                /\ claimed' = [claimed EXCEPT ![w] = {}]
                /\ UNCHANGED <<tables, posts>>

-----------------------------------------------------------------------------
(* deliver.                                                                *)
Becomes(c, step) == posts' = (posts \ {c}) \cup {[c EXCEPT !.step = step]}
Ends(c) == posts' = posts \ {c}

(* The delivery and its endpoint are read; from here on the call knows     *)
(* them as they were now.                                                  *)
Check(c) ==
    /\ c.step = "check"
    /\ IF deliveries[c.row].status = "deleted" THEN Ends(c)
       ELSE Becomes(c, IF endpoints[c.row[2]].state # "active" THEN "cancel"
                       ELSE IF c.attempt > MaxAttempts THEN "fail" ELSE "post")
    /\ UNCHANGED <<tables, tick, claimed, disturbances>>

(* The endpoint accepts it, turns it down for good, or neither: 408, 425,  *)
(* 429 or 5xx, a timeout, no connection.                                   *)
Post(c, answer) ==
    /\ c.step = "post" /\ answer \in {"accepted", "rejected", "neither"}
    /\ Becomes(c, CASE answer = "accepted" -> "ok"
                    [] answer = "rejected" -> "fail"
                    [] OTHER -> IF c.attempt < MaxAttempts THEN "retry" ELSE "fail")
    /\ UNCHANGED <<tables, tick, claimed, disturbances>>

Succeed(c) ==
    /\ c.step = "ok"
    /\ IF Holds(deliveries[c.row], c)
       THEN /\ deliveries' = [deliveries EXCEPT ![c.row] = Settled(@, "DONE")]
            /\ endpoints' = [endpoints EXCEPT ![c.row[2]].failures = 0]
       ELSE UNCHANGED <<deliveries, endpoints>>
    /\ Ends(c)
    /\ UNCHANGED <<events, eligible, tick, claimed, disturbances>>

RetryOrCancel(c) ==
    /\ c.step \in {"retry", "cancel"}
    /\ deliveries' = IF Holds(deliveries[c.row], c)
                     THEN [deliveries EXCEPT ![c.row] =
                             IF c.step = "retry" THEN Retried(@, RetryDelay(c.attempt))
                             ELSE Settled(@, "FAILED")]
                     ELSE deliveries
    /\ Ends(c)
    /\ UNCHANGED <<endpoints, events, eligible, tick, claimed, disturbances>>

(* fail: DisableAfter failures in a row disable the endpoint and end all   *)
(* that is queued for it.                                                  *)
Fail(c) ==
    /\ c.step = "fail"
    /\ LET p        == c.row[2]
           disables == endpoints[p].failures + 1 >= DisableAfter
       IN  IF Holds(deliveries[c.row], c)
           THEN /\ endpoints' = [endpoints EXCEPT
                     ![p].failures = @ + 1,
                     ![p].state = IF disables THEN "disabled" ELSE @]
                /\ deliveries' = [d \in Delivery |->
                     IF \/ d = c.row
                        \/ disables /\ d[2] = p /\ deliveries[d].status = "PENDING"
                     THEN Settled(deliveries[d], "FAILED") ELSE deliveries[d]]
           ELSE UNCHANGED <<endpoints, deliveries>>
    /\ Ends(c)
    /\ UNCHANGED <<events, eligible, tick, claimed, disturbances>>

(* The database refuses an update inside the try, be it that of a 2xx      *)
(* answer: the post counts as failed.                                      *)
NotRecorded(c) ==
    /\ c.step \in {"ok", "retry", "fail"} /\ ~c.caught /\ c.attempt <= MaxAttempts
    /\ Disturb
    /\ posts' = (posts \ {c}) \cup
          {[c EXCEPT !.step = IF c.attempt < MaxAttempts THEN "retry" ELSE "fail",
                     !.caught = TRUE]}
    /\ UNCHANGED <<tables, tick, claimed>>

(* Outside of it, or in its catch: the tick fails, and the other calls of  *)
(* the batch go on without it.                                             *)
Rejects(c) ==
    /\ c.step \in {"check", "cancel"} \/ c.caught \/ (c.step = "fail" /\ c.attempt > MaxAttempts)
    /\ Disturb
    /\ posts' = {IF x.worker = c.worker THEN [x EXCEPT !.awaited = FALSE] ELSE x :
                    x \in posts \ {c}}
    /\ tick' = [tick EXCEPT ![c.worker] = IF c.awaited THEN Idle ELSE @]
    /\ UNCHANGED <<tables, claimed>>

-----------------------------------------------------------------------------
(* The process dies and is started again.                                  *)
Crash(w) == /\ tick[w] # Idle \/ \E c \in posts : c.worker = w
            /\ Disturb
            /\ tick' = [tick EXCEPT ![w] = Idle]
            /\ claimed' = [claimed EXCEPT ![w] = {}]
            /\ posts' = {c \in posts : c.worker # w}
            /\ UNCHANGED tables

(* A tick of the clock.  Claims end before their lease does, except for    *)
(* MaxDisturbances times.                                                  *)
Overruns == \/ \E w \in Workers : \E c \in claimed[w] : c.left = 1
            \/ \E c \in posts : c.left = 1

Aged(c) == [c EXCEPT !.left = Down(@, -1)]

Clock == /\ IF Overruns THEN Disturb ELSE UNCHANGED disturbances
         /\ events' = [e \in Events |-> Later(events[e])]
         /\ deliveries' = [d \in Delivery |-> Later(deliveries[d])]
         /\ claimed' = [w \in Workers |-> {Aged(c) : c \in claimed[w]}]
         /\ posts' = {Aged(c) : c \in posts}
         /\ UNCHANGED <<endpoints, eligible, tick>>

-----------------------------------------------------------------------------
Dispatch(w) == \/ ClaimEvents(w) \/ ClaimDeliveries(w) \/ EndTick(w)
               \/ \E c \in claimed[w] : ReadEndpoints(w, c) \/ FanOut(w, c)
               \/ \E c \in claimed[w] : EventFails(w, c)

Deliver(c) == \/ Check(c) \/ Succeed(c) \/ RetryOrCancel(c) \/ Fail(c)
              \/ \E answer \in {"accepted", "rejected", "neither"} : Post(c, answer)

Next == \/ \E p \in Endpoints : Register(p) \/ Remove(p)
        \/ \E e \in Events : Capture(e)
        \/ \E w \in Workers : Dispatch(w) \/ TickFails(w) \/ Crash(w)
        \/ \E c \in posts : Deliver(c) \/ NotRecorded(c) \/ Rejects(c)
        \/ Clock

(* @Interval keeps the dispatchers polling, the event loop keeps what they *)
(* have started going, a post has a timeout, and time passes; nobody has   *)
(* to register or capture anything and nothing has to fail.                *)
Fairness == /\ \A w \in Workers : WF_vars(Dispatch(w))
            /\ \A d \in Delivery : \A w \in Workers :
                  WF_vars(\E c \in posts : c.row = d /\ c.worker = w /\ Deliver(c))
            /\ WF_vars(Clock)

Spec == Init /\ [][Next]_vars /\ Fairness

-----------------------------------------------------------------------------
TypeOK == /\ endpoints \in [Endpoints -> [state: {"absent", "active", "disabled", "deleted"},
                                          failures: 0 .. DisableAfter]]
          /\ events \in [Events -> Row]
          /\ eligible \in [Events -> SUBSET Endpoints]
          /\ deliveries \in [Delivery -> Row]
          /\ tick \in [Workers -> Ticking]
          /\ claimed \in [Workers -> SUBSET Claim]
          /\ posts \subseteq Call
          /\ disturbances \in 0 .. MaxDisturbances

(* An event that was fanned out has a delivery for every endpoint that it  *)
(* is for and that is still active, whatever was registered or removed     *)
(* while it was.  render.ts fanOutEvent; the unique (event, endpoint) key. *)
EveryEndpointServed ==
    \A e \in Events : events[e].status = "DONE" =>
        \A p \in eligible[e] : endpoints[p].state = "active" =>
            deliveries[<<e, p>>].status # "absent"

(* An endpoint's consecutive failures change only with a delivery to it    *)
(* that leaves the queue in the same step: one that was overtaken, retired *)
(* with its endpoint or settled before counts nothing.                     *)
FailuresFollowDeliveries ==
    [][\A p \in Endpoints : endpoints'[p].failures # endpoints[p].failures =>
         \E d \in Delivery : /\ d[2] = p /\ deliveries[d].status = "PENDING"
                             /\ deliveries'[d].status \in {"DONE", "FAILED"}]_vars

(* An endpoint that is disabled has that many failed deliveries, and no    *)
(* failure was counted twice for one delivery.                             *)
DisabledForAReason ==
    \A p \in Endpoints :
        LET failed == Cardinality({e \in Events : deliveries[<<e, p>>].status = "FAILED"})
        IN  /\ endpoints[p].state # "deleted" => endpoints[p].failures <= failed
            /\ endpoints[p].state = "disabled" => failed >= DisableAfter

(* An endpoint is disabled for deliveries that failed, each counted once   *)
(* and in the step that ends it.  render.ts succeed, fail.                 *)
DisablingIsFair == []DisabledForAReason /\ FailuresFollowDeliveries

(* Events and deliveries all end, whatever crashes.                        *)
EveryRowEnds ==
    /\ \A e \in Events : events[e].status = "PENDING" ~> events[e].status # "PENDING"
    /\ \A d \in Delivery : deliveries[d].status = "PENDING" ~> deliveries[d].status # "PENDING"
=============================================================================
