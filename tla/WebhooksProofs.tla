---------------------------- MODULE WebhooksProofs ----------------------------
(***************************************************************************)
(* Proofs about Webhooks, for any number of dispatchers, events, endpoints *)
(* and disturbances: its type invariant, that an event which was fanned    *)
(* out has reached every endpoint it is for, and that endpoints are        *)
(* disabled for deliveries that failed.                                    *)
(*                                                                         *)
(* The argument.  fanOutEvent reads the endpoints in one step and writes   *)
(* the deliveries in a later one: Gathered says that what it has read      *)
(* still has every active endpoint the event is for, since an endpoint     *)
(* that is registered later is not, and none comes back once it is         *)
(* disabled or removed.  deliver looks at its endpoint in one step and     *)
(* counts a failure in a later one: Posting says that as long as the lease *)
(* of its row is its own, the endpoint is active still, since disabling    *)
(* and removing it end the rows of its queue in the same step.             *)
(***************************************************************************)
EXTENDS Webhooks, WorkQueueProofs

-----------------------------------------------------------------------------
(* Fanning out.  The endpoints an event is for were registered before it,  *)
Registered == \A e \in Events : \A p \in eligible[e] : endpoints[p].state # "absent"

(* a claim is of an event that is there, and once the endpoints are read   *)
(* it has those that are still active,                                     *)
Gathered(c) ==
    /\ events[c.event].status # "absent"
    /\ c.read => \A p \in eligible[c.event] : endpoints[p].state = "active" => p \in c.matching

(* and there is no delivery but of an event that is there.                 *)
Captured == {e \in Events : events[e].status # "absent"}
OfCaptured == \A e \in Events, p \in Endpoints :
                 deliveries[<<e, p>>].status # "absent" => e \in Captured

Fanning == /\ Registered /\ OfCaptured /\ IsFiniteSet(Captured)
           /\ \A w \in Workers : \A c \in claimed[w] : Gathered(c)
           /\ EveryEndpointServed

(* Posting.  An active endpoint is still short of DisableAfter failures,   *)
InService(p) == /\ endpoints[p].state = "absent" => endpoints[p].failures = 0
                /\ endpoints[p].state = "active" => endpoints[p].failures < DisableAfter

(* and a call that has found its endpoint active and holds its row's lease *)
(* may rely on it.                                                         *)
Posting(c) == /\ deliveries[c.row].status # "absent"
              /\ c.attempt <= deliveries[c.row].attempts
              /\ c.step \notin {"check", "cancel"} /\ Holds(deliveries[c.row], c)
                 => endpoints[c.row[2]].state = "active"

(* Its failures since the last success have all left a failed delivery.    *)
Failed(p) == {e \in Events : deliveries[<<e, p>>].status = "FAILED"}
Counted(p) ==
    /\ endpoints[p].state # "deleted" => endpoints[p].failures <= Cardinality(Failed(p))
    /\ endpoints[p].state = "disabled" => Cardinality(Failed(p)) >= DisableAfter

IInv == /\ TypeOK
        /\ Fanning
        /\ \A p \in Endpoints : InService(p) /\ Counted(p)
        /\ \A c \in posts : Posting(c)

-----------------------------------------------------------------------------
(* Deliveries, pages and endpoints.                                        *)
LEMMA DeliveryIs ==
    /\ \A d \in Delivery : d[1] \in Events /\ d[2] \in Endpoints /\ d = <<d[1], d[2]>>
    /\ \A e \in Events, p \in Endpoints : <<e, p>> \in Delivery
  BY DEF Delivery

LEMMA PageClaimable ==
    ASSUME NEW rows, NEW page \in Pages(rows)
    PROVE  page \subseteq DOMAIN rows /\ \A r \in page : Claimable(rows[r])
  BY DEF Pages

Endpoint == [state: {"absent", "active", "disabled", "deleted"}, failures: 0 .. DisableAfter]

LEMMA LockType ==
    ASSUME NEW S, NEW rows \in [S -> Row], NEW page
    PROVE  Lock(rows, page) \in [S -> Row]
  BY LeasedRow DEF Lock

LEMMA ClaimsType ==
    ASSUME TypeOK, NEW w \in Workers, NEW stage \in {"fan-out", "deliver"}, NEW page,
           tick[w].stage = stage => More(w), Claims(w, stage, page)
    PROVE  tick' \in [Workers -> Ticking]
<1> DEFINE n == IF tick[w].stage = stage THEN tick[w].batch + 1 ELSE 1
           q == [stage |-> stage, batch |-> n, full |-> Cardinality(page) = BatchSize]
<1>1. n \in 0 .. MaxBatches
  BY WebhooksAssumption DEF TypeOK, Ticking, More
<1>2. (Cardinality(page) = BatchSize) \in BOOLEAN
  OBVIOUS
<1> HIDE DEF n
<1>3. q \in Ticking
  BY <1>1, <1>2 DEF Ticking
<1>4. tick' = [tick EXCEPT ![w] = q]
  BY DEF Claims, n
<1> QED BY <1>3, <1>4 DEF TypeOK

LEMMA IdleType == Idle \in Ticking
  BY WebhooksAssumption DEF Idle, Ticking

LEMMA AgedLeft == ASSUME NEW n \in -1 .. Lease PROVE Down(n, -1) \in -1 .. Lease
  BY QueueAssumption DEF Down

(* The calls of deliver.                                                   *)
LEMMA CallGoes ==
    ASSUME NEW c \in Call, NEW step \in {"check", "post", "cancel", "ok", "retry", "fail"}
    PROVE  LET g == [c EXCEPT !.step = step]
           IN  /\ g \in Call /\ g.step = step
               /\ g.row = c.row /\ g.attempt = c.attempt /\ g.worker = c.worker
  BY DEF Call

LEMMA BecomesType ==
    ASSUME TypeOK, NEW c \in posts,
           NEW step \in {"check", "post", "cancel", "ok", "retry", "fail"}, Becomes(c, step)
    PROVE  posts' \subseteq Call
<1>1. c \in Call
  BY DEF TypeOK
<1>2. [c EXCEPT !.step = step] \in Call
  BY <1>1, CallGoes
<1> QED BY <1>2 DEF TypeOK, Becomes

LEMMA EndsType == ASSUME TypeOK, NEW c, Ends(c) PROVE posts' \subseteq Call
  BY DEF TypeOK, Ends

LEMMA DisturbType == ASSUME TypeOK, Disturb PROVE disturbances' \in 0 .. MaxDisturbances
  BY WebhooksAssumption DEF TypeOK, Disturb

LEMMA SetAsideType == ASSUME TypeOK, NEW w \in Workers, NEW c, SetAside(w, c)
                      PROVE  claimed' \in [Workers -> SUBSET Claim]
  BY DEF TypeOK, SetAside

-----------------------------------------------------------------------------
(* The type invariant, action by action.                                   *)
LEMMA RegisterTyped == ASSUME TypeOK, NEW p \in Endpoints, Register(p) PROVE TypeOK'
<1>1. endpoints' \in [Endpoints -> Endpoint]
  BY DEF Register, TypeOK, Endpoint
<1> QED BY <1>1 DEF Register, TypeOK, Endpoint

LEMMA RemoveTyped == ASSUME TypeOK, NEW p \in Endpoints, Remove(p) PROVE TypeOK'
<1>1. endpoints' \in [Endpoints -> Endpoint]
  BY DEF Remove, TypeOK, Endpoint
<1>2. \A d \in Delivery : Settled(deliveries[d], "deleted") \in Row /\ deliveries[d] \in Row
  BY SettledRow DEF TypeOK, Statuses
<1>3. deliveries' \in [Delivery -> Row]
  BY <1>2 DEF Remove
<1> QED BY <1>1, <1>3 DEF Remove, TypeOK, Endpoint

LEMMA CaptureTyped == ASSUME TypeOK, NEW e \in Events, Capture(e) PROVE TypeOK'
<1>1. NewRow(0) \in Row
  BY NewRowType, QueueAssumption
<1>2. events' \in [Events -> Row] /\ eligible' \in [Events -> SUBSET Endpoints]
  BY <1>1 DEF Capture, TypeOK
<1> QED BY <1>2 DEF Capture, TypeOK

LEMMA ClaimEventsTyped == ASSUME TypeOK, NEW w \in Workers, ClaimEvents(w) PROVE TypeOK'
<1> PICK page \in Pages(events) :
          /\ events' = Lock(events, page)
          /\ claimed' = [claimed EXCEPT ![w] =
                {[event |-> e, attempt |-> events[e].attempts + 1, left |-> Lease,
                  read |-> FALSE, matching |-> {}] : e \in page}]
          /\ Claims(w, "fan-out", page)
  BY DEF ClaimEvents
<1>1. tick' \in [Workers -> Ticking]
  BY ClaimsType DEF ClaimEvents
<1>2. events' \in [Events -> Row]
  BY LockType DEF TypeOK
<1>3. \A e \in page : e \in Events /\ events[e].attempts + 1 \in Nat \ {0}
  BY PageClaimable DEF TypeOK, Row
<1>4. \A e \in page : [event |-> e, attempt |-> events[e].attempts + 1, left |-> Lease,
                       read |-> FALSE, matching |-> {}] \in Claim
  BY <1>3, QueueAssumption DEF Claim
<1>5. claimed' \in [Workers -> SUBSET Claim]
  BY <1>4 DEF TypeOK
<1> QED BY <1>1, <1>2, <1>5 DEF ClaimEvents, TypeOK

LEMMA ClaimDeliveriesTyped ==
    ASSUME TypeOK, NEW w \in Workers, ClaimDeliveries(w) PROVE TypeOK'
<1> PICK page \in Pages(deliveries) :
          /\ deliveries' = Lock(deliveries, page)
          /\ posts' = posts \cup
                {[row |-> d, attempt |-> deliveries[d].attempts + 1, left |-> Lease,
                  worker |-> w, step |-> "check", caught |-> FALSE, awaited |-> TRUE] :
                    d \in page}
          /\ Claims(w, "deliver", page)
  BY DEF ClaimDeliveries
<1>1. tick' \in [Workers -> Ticking]
  BY ClaimsType DEF ClaimDeliveries, FannedOut
<1>2. deliveries' \in [Delivery -> Row]
  BY LockType DEF TypeOK
<1>3. \A d \in page : d \in Delivery /\ deliveries[d].attempts + 1 \in Nat \ {0}
  BY PageClaimable DEF TypeOK, Row
<1>4. \A d \in page : [row |-> d, attempt |-> deliveries[d].attempts + 1, left |-> Lease,
          worker |-> w, step |-> "check", caught |-> FALSE, awaited |-> TRUE] \in Call
  BY <1>3, QueueAssumption DEF Call
<1>5. posts' \subseteq Call
  BY <1>4 DEF TypeOK
<1> QED BY <1>1, <1>2, <1>5 DEF ClaimDeliveries, TypeOK

LEMMA EndTickTyped == ASSUME TypeOK, NEW w \in Workers, EndTick(w) PROVE TypeOK'
  BY IdleType DEF EndTick, TypeOK, tables

LEMMA ReadTyped ==
    ASSUME TypeOK, NEW w \in Workers, NEW c \in claimed[w], ReadEndpoints(w, c) PROVE TypeOK'
<1> DEFINE M == {p \in eligible[c.event] : endpoints[p].state = "active"}
           q == [c EXCEPT !.read = TRUE, !.matching = M]
<1>1. c \in Claim
  BY DEF TypeOK
<1>2. M \in SUBSET Endpoints
  BY <1>1 DEF TypeOK, Claim
<1> HIDE DEF M
<1>3. q \in Claim
  BY <1>1, <1>2 DEF Claim
<1>4. claimed' = [claimed EXCEPT ![w] = (claimed[w] \ {c}) \cup {q}]
  BY DEF ReadEndpoints, M
<1> HIDE DEF q
<1>5. claimed' \in [Workers -> SUBSET Claim]
  BY <1>3, <1>4 DEF TypeOK
<1> QED BY <1>5 DEF ReadEndpoints, TypeOK, tables

LEMMA FanOutTyped ==
    ASSUME TypeOK, NEW w \in Workers, NEW c \in claimed[w], FanOut(w, c) PROVE TypeOK'
<1>1. c.event \in Events
  BY DEF TypeOK, Claim
<1>2. NewRow(0) \in Row /\ Settled(events[c.event], "DONE") \in Row
  BY <1>1, NewRowType, SettledRow, QueueAssumption DEF TypeOK, Statuses
<1>3. events' \in [Events -> Row]
  BY <1>1, <1>2 DEF FanOut, TypeOK
<1>4. deliveries' \in [Delivery -> Row]
  BY <1>2 DEF FanOut, TypeOK
<1>5. claimed' \in [Workers -> SUBSET Claim]
  BY SetAsideType DEF FanOut
<1> QED BY <1>3, <1>4, <1>5 DEF FanOut, TypeOK

LEMMA EventFailsTyped ==
    ASSUME TypeOK, NEW w \in Workers, NEW c \in claimed[w], EventFails(w, c) PROVE TypeOK'
<1>1. c.event \in Events /\ c.attempt \in Nat \ {0}
  BY DEF TypeOK, Claim
<1>2. /\ Settled(events[c.event], "FAILED") \in Row
      /\ Retried(events[c.event], RetryDelay(c.attempt)) \in Row
  BY <1>1, SettledRow, RetriedRow, DelayType DEF TypeOK, Statuses
<1>3. events' \in [Events -> Row]
  BY <1>1, <1>2 DEF EventFails, TypeOK
<1>4. claimed' \in [Workers -> SUBSET Claim]
  BY SetAsideType DEF EventFails
<1>5. disturbances' \in 0 .. MaxDisturbances
  BY DisturbType DEF EventFails, TypeOK
<1> QED BY <1>3, <1>4, <1>5 DEF EventFails, TypeOK

LEMMA TickFailsTyped == ASSUME TypeOK, NEW w \in Workers, TickFails(w) PROVE TypeOK'
  BY IdleType, DisturbType DEF TickFails, TypeOK, tables

LEMMA CrashTyped == ASSUME TypeOK, NEW w \in Workers, Crash(w) PROVE TypeOK'
  BY IdleType, DisturbType DEF Crash, TypeOK, tables

LEMMA CheckTyped == ASSUME TypeOK, NEW c \in posts, Check(c) PROVE TypeOK'
  BY BecomesType, EndsType DEF Check, TypeOK, tables

LEMMA PostTyped == ASSUME TypeOK, NEW c \in posts, NEW answer, Post(c, answer) PROVE TypeOK'
  BY BecomesType DEF Post, TypeOK, tables

LEMMA SucceedTyped == ASSUME TypeOK, NEW c \in posts, Succeed(c) PROVE TypeOK'
<1>1. c.row \in Delivery /\ c.row[2] \in Endpoints
  BY DeliveryIs DEF TypeOK, Call
<1>2. Settled(deliveries[c.row], "DONE") \in Row
  BY <1>1, SettledRow DEF TypeOK, Statuses
<1>3. deliveries' \in [Delivery -> Row]
  BY <1>1, <1>2 DEF Succeed, TypeOK
<1>4. endpoints' \in [Endpoints -> Endpoint]
  BY <1>1, WebhooksAssumption DEF Succeed, TypeOK, Endpoint
<1> QED BY <1>3, <1>4, EndsType DEF Succeed, TypeOK, Endpoint

LEMMA RetryOrCancelTyped == ASSUME TypeOK, NEW c \in posts, RetryOrCancel(c) PROVE TypeOK'
<1>1. c.row \in Delivery /\ c.attempt \in Nat \ {0}
  BY DEF TypeOK, Call
<1>2. /\ Settled(deliveries[c.row], "FAILED") \in Row
      /\ Retried(deliveries[c.row], RetryDelay(c.attempt)) \in Row
  BY <1>1, SettledRow, RetriedRow, DelayType DEF TypeOK, Statuses
<1>3. deliveries' \in [Delivery -> Row]
  BY <1>1, <1>2 DEF RetryOrCancel, TypeOK
<1> QED BY <1>3, EndsType DEF RetryOrCancel, TypeOK

LEMMA FailTyped ==
    ASSUME TypeOK, NEW c \in posts, Fail(c), Posting(c), \A p \in Endpoints : InService(p)
    PROVE  TypeOK'
<1> DEFINE p == c.row[2]
<1>1. c.row \in Delivery /\ p \in Endpoints
  BY DeliveryIs DEF TypeOK, Call
<1>2. \A d \in Delivery : Settled(deliveries[d], "FAILED") \in Row
  BY SettledRow DEF TypeOK, Statuses
<1>3. deliveries' \in [Delivery -> Row]
  BY <1>2 DEF Fail, TypeOK
<1>4. Holds(deliveries[c.row], c) => endpoints[p].failures + 1 \in 0 .. DisableAfter
  BY <1>1, WebhooksAssumption DEF Fail, Posting, InService, TypeOK
<1>5. endpoints' \in [Endpoints -> Endpoint]
  BY <1>1, <1>4 DEF Fail, TypeOK, Endpoint
<1> QED BY <1>3, <1>5, EndsType DEF Fail, TypeOK, Endpoint

LEMMA NotRecordedTyped == ASSUME TypeOK, NEW c \in posts, NotRecorded(c) PROVE TypeOK'
<1> DEFINE s == IF c.attempt < MaxAttempts THEN "retry" ELSE "fail"
           g == [c EXCEPT !.step = s, !.caught = TRUE]
<1>1. s \in {"retry", "fail"} /\ c \in Call
  BY DEF TypeOK
<1> HIDE DEF s
<1>2. g \in Call
  BY <1>1 DEF Call
<1>3. posts' = (posts \ {c}) \cup {g}
  BY DEF NotRecorded, s
<1> HIDE DEF g
<1> QED BY <1>2, <1>3, DisturbType DEF NotRecorded, TypeOK, tables

LEMMA RejectsTyped == ASSUME TypeOK, NEW c \in posts, Rejects(c) PROVE TypeOK'
<1>1. c.worker \in Workers
  BY DEF TypeOK, Call
<1>2. tick' \in [Workers -> Ticking]
  BY <1>1, IdleType DEF Rejects, TypeOK
<1>3. \A x \in posts : x \in Call /\ [x EXCEPT !.awaited = FALSE] \in Call
  BY DEF TypeOK, Call
<1>4. posts' \subseteq Call
  BY <1>3 DEF Rejects
<1> QED BY <1>2, <1>4, DisturbType DEF Rejects, TypeOK, tables

LEMMA ClockTyped == ASSUME TypeOK, Clock PROVE TypeOK'
<1>1. events' \in [Events -> Row] /\ deliveries' \in [Delivery -> Row]
  BY LaterRow DEF Clock, TypeOK
<1>2. \A w \in Workers : \A c \in claimed[w] : Aged(c) \in Claim
  BY AgedLeft DEF TypeOK, Claim, Aged
<1>3. \A c \in posts : Aged(c) \in Call
  BY AgedLeft DEF TypeOK, Call, Aged
<1>4. claimed' \in [Workers -> SUBSET Claim] /\ posts' \subseteq Call
  BY <1>2, <1>3 DEF Clock
<1>5. disturbances' \in 0 .. MaxDisturbances
  BY DisturbType DEF Clock, TypeOK
<1> QED BY <1>1, <1>4, <1>5 DEF Clock, TypeOK

-----------------------------------------------------------------------------
(* Fanning out is disturbed by nothing but Capture, ReadEndpoints, FanOut  *)
(* and the claim of new events: all else keeps which rows there are, ends  *)
(* no event as DONE, puts no endpoint into service and only drops claims   *)
(* or lets them age.                                                       *)
Like(c, b) == c.event = b.event /\ c.read = b.read /\ c.matching = b.matching

ClaimsKept == \A w \in Workers : \A c \in claimed'[w] : \E b \in claimed[w] : Like(c, b)

RowsThere == /\ \A e \in Events :
                   /\ events'[e].status = "absent" <=> events[e].status = "absent"
                   /\ events'[e].status = "DONE" => events[e].status = "DONE"
             /\ \A d \in Delivery :
                   deliveries'[d].status = "absent" <=> deliveries[d].status = "absent"

NoneEnters == \A p \in Endpoints :
                 /\ endpoints'[p].state = "active" => endpoints[p].state = "active"
                 /\ endpoints'[p].state = "absent" => endpoints[p].state = "absent"

LEMMA FanningKept ==
    ASSUME TypeOK, Fanning, ClaimsKept, RowsThere, NoneEnters, UNCHANGED eligible
    PROVE  Fanning'
<1>1. Captured' = Captured
  BY DEF Captured, RowsThere
<1>2. Registered' /\ OfCaptured'
  BY <1>1, DeliveryIs DEF Fanning, Registered, OfCaptured, RowsThere, NoneEnters, TypeOK
<1>3. ASSUME NEW w \in Workers, NEW c \in claimed'[w] PROVE Gathered(c)'
  <2> PICK b \in claimed[w] : Like(c, b)
    BY <1>3 DEF ClaimsKept
  <2>1. Gathered(b) /\ b.event \in Events
    BY DEF Fanning, TypeOK, Claim
  <2> QED BY <2>1 DEF Gathered, Like, RowsThere, NoneEnters, TypeOK
<1>4. EveryEndpointServed'
  BY DeliveryIs DEF Fanning, EveryEndpointServed, RowsThere, NoneEnters, TypeOK
<1> QED BY <1>1, <1>2, <1>3, <1>4 DEF Fanning

LEMMA RegisterFanning ==
    ASSUME TypeOK, Fanning, NEW p \in Endpoints, Register(p) PROVE Fanning'
<1>1. \A q \in Endpoints : q # p => endpoints'[q] = endpoints[q]
  BY DEF Register, TypeOK
<1>2. endpoints[p].state = "absent" /\ endpoints'[p].state = "active"
  BY DEF Register, TypeOK
<1>3. \A e \in Events : \A q \in eligible[e] : q \in Endpoints /\ q # p
  BY <1>2 DEF Fanning, Registered, TypeOK
<1>4. Captured' = Captured /\ OfCaptured' /\ Registered'
  BY <1>1, <1>3 DEF Register, Fanning, Captured, OfCaptured, Registered
<1>5. ASSUME NEW w \in Workers, NEW c \in claimed[w] PROVE Gathered(c)'
  <2>1. Gathered(c) /\ c.event \in Events
    BY DEF Fanning, TypeOK, Claim
  <2> QED BY <1>1, <1>3, <2>1 DEF Gathered, Register
<1>6. EveryEndpointServed'
  BY <1>1, <1>3 DEF Fanning, EveryEndpointServed, Register
<1> QED BY <1>4, <1>5, <1>6 DEF Fanning, Register

LEMMA CaptureFanning ==
    ASSUME TypeOK, Fanning, NEW e \in Events, Capture(e) PROVE Fanning'
<1>1. /\ \A f \in Events : f # e => events'[f] = events[f] /\ eligible'[f] = eligible[f]
      /\ events'[e].status = "PENDING" /\ events[e].status = "absent"
      /\ eligible'[e] = {p \in Endpoints : endpoints[p].state \in {"active", "disabled"}}
  BY DEF Capture, TypeOK, NewRow, NoRow
<1>2. Captured' = Captured \cup {e}
  BY <1>1 DEF Captured
<1>3. IsFiniteSet(Captured')
  BY <1>2, FS_AddElement DEF Fanning
<1>4. Registered' /\ OfCaptured'
  BY <1>1, <1>2 DEF Fanning, Registered, OfCaptured, Capture
<1>5. ASSUME NEW w \in Workers, NEW c \in claimed[w] PROVE Gathered(c)'
  <2>1. Gathered(c) /\ c.event \in Events
    BY DEF Fanning, TypeOK, Claim
  <2>2. c.event # e
    BY <2>1, <1>1 DEF Gathered
  <2> QED BY <1>1, <2>1, <2>2 DEF Gathered, Capture
<1>6. EveryEndpointServed'
  BY <1>1 DEF Fanning, EveryEndpointServed, Capture
<1> QED BY <1>3, <1>4, <1>5, <1>6 DEF Fanning, Capture

LEMMA LockThere ==
    ASSUME NEW S, NEW rows \in [S -> Row], NEW page, NEW d \in S
    PROVE  Lock(rows, page)[d].status = rows[d].status
  BY LeasedRow DEF Lock

LEMMA ClaimEventsFanning ==
    ASSUME TypeOK, Fanning, NEW w \in Workers, ClaimEvents(w) PROVE Fanning'
<1> PICK page \in Pages(events) :
          /\ events' = Lock(events, page)
          /\ claimed' = [claimed EXCEPT ![w] =
                {[event |-> e, attempt |-> events[e].attempts + 1, left |-> Lease,
                  read |-> FALSE, matching |-> {}] : e \in page}]
          /\ Claims(w, "fan-out", page)
  BY DEF ClaimEvents
<1>1. \A e \in Events : events'[e].status = events[e].status
  BY LockThere DEF TypeOK
<1>2. Captured' = Captured /\ OfCaptured' /\ Registered' /\ EveryEndpointServed'
  BY <1>1 DEF Captured, Fanning, OfCaptured, Registered, EveryEndpointServed, ClaimEvents
<1>3. ASSUME NEW v \in Workers, NEW c \in claimed'[v] PROVE Gathered(c)'
  <2>1. CASE v # w
    <3>1. c \in claimed[v] /\ Gathered(c) /\ c.event \in Events
      BY <2>1, <1>3 DEF TypeOK, Fanning, Claim
    <3> QED BY <3>1, <1>1 DEF Gathered, ClaimEvents
  <2>2. CASE v = w
    <3> PICK e \in page : c = [event |-> e, attempt |-> events[e].attempts + 1, left |-> Lease,
                               read |-> FALSE, matching |-> {}]
      BY <1>3, <2>2 DEF TypeOK
    <3>1. e \in Events /\ events[e].status = "PENDING"
      BY PageClaimable DEF TypeOK, Claimable
    <3> QED BY <3>1, <1>1 DEF Gathered
  <2> QED BY <2>1, <2>2
<1> QED BY <1>2, <1>3 DEF Fanning

LEMMA ReadFanning ==
    ASSUME TypeOK, Fanning, NEW w \in Workers, NEW c \in claimed[w], ReadEndpoints(w, c)
    PROVE  Fanning'
<1> DEFINE M == {p \in eligible[c.event] : endpoints[p].state = "active"}
           q == [c EXCEPT !.read = TRUE, !.matching = M]
<1>1. c \in Claim /\ Gathered(c)
  BY DEF TypeOK, Fanning
<1>2. q.event = c.event /\ q.matching = M
  BY <1>1 DEF Claim
<1>3. claimed' = [claimed EXCEPT ![w] = (claimed[w] \ {c}) \cup {q}]
  BY DEF ReadEndpoints
<1>4. Gathered(q)
  BY <1>1, <1>2 DEF Gathered
<1> HIDE DEF q
<1>5. \A v \in Workers : \A b \in claimed'[v] : Gathered(b)
  BY <1>3, <1>4 DEF TypeOK, Fanning
<1> QED BY <1>5 DEF ReadEndpoints, tables, Fanning, Registered, OfCaptured, Captured,
                    EveryEndpointServed, Gathered

LEMMA FanOutFanning ==
    ASSUME TypeOK, Fanning, NEW w \in Workers, NEW c \in claimed[w], FanOut(w, c) PROVE Fanning'
<1>1. c.event \in Events /\ Gathered(c)
  BY DEF TypeOK, Claim, Fanning
<1>2. ClaimsKept /\ \A v \in Workers : claimed'[v] \subseteq claimed[v]
  BY DEF FanOut, SetAside, TypeOK, ClaimsKept, Like
<1>3. CASE ~Holds(events[c.event], c)
  <2>1. RowsThere /\ NoneEnters /\ UNCHANGED eligible
    BY <1>3 DEF FanOut, RowsThere, NoneEnters
  <2> QED BY <1>2, <2>1, FanningKept
<1>4. CASE Holds(events[c.event], c)
  <2>1. /\ \A e \in Events : e # c.event => events'[e] = events[e]
        /\ events'[c.event].status = "DONE" /\ events[c.event].status = "PENDING"
    BY <1>1, <1>4, SettledRow DEF FanOut, TypeOK, Statuses, Holds
  <2>2. /\ Captured' = Captured /\ c.event \in Captured
        /\ \A e \in Events : events'[e].status = "absent" <=> events[e].status = "absent"
    BY <1>1, <2>1 DEF Captured
  <2>3. \A d \in Delivery :
           deliveries'[d] = IF /\ d[1] = c.event /\ d[2] \in c.matching
                               /\ deliveries[d].status = "absent"
                            THEN NewRow(0) ELSE deliveries[d]
    BY <1>4 DEF FanOut
  <2>4. NewRow(0).status = "PENDING"
    BY DEF NewRow, NoRow
  <2>5. OfCaptured'
    <3> SUFFICES ASSUME NEW e \in Events, NEW p \in Endpoints,
                        deliveries'[<<e, p>>].status # "absent"
                 PROVE  e \in Captured
      BY <2>2 DEF OfCaptured
    <3>1. CASE e = c.event
      BY <3>1, <2>2
    <3>2. CASE e # c.event
      BY <3>2, <2>3, DeliveryIs DEF Fanning, OfCaptured
    <3> QED BY <3>1, <3>2
  <2>6. Registered' /\ \A v \in Workers : \A b \in claimed'[v] : Gathered(b)'
    <3>1. \A v \in Workers : \A b \in claimed'[v] : Gathered(b) /\ b.event \in Events
      BY <1>2 DEF Fanning, TypeOK, Claim
    <3> QED BY <3>1, <2>2 DEF Fanning, Registered, Gathered, FanOut
  <2>7. EveryEndpointServed'
    <3> SUFFICES ASSUME NEW e \in Events, events'[e].status = "DONE", NEW p \in eligible[e],
                        endpoints[p].state = "active"
                 PROVE  deliveries'[<<e, p>>].status # "absent"
      BY DEF FanOut, EveryEndpointServed
    <3>1. <<e, p>> \in Delivery /\ <<e, p>>[1] = e /\ <<e, p>>[2] = p
      BY DeliveryIs DEF TypeOK
    <3>2. CASE e = c.event
      <4>1. p \in c.matching
        BY <3>2, <1>1 DEF Gathered, FanOut
      <4> QED BY <3>1, <3>2, <4>1, <2>3, <2>4
    <3>3. CASE e # c.event
      BY <3>1, <3>3, <2>1, <2>3 DEF Fanning, EveryEndpointServed
    <3> QED BY <3>2, <3>3
  <2> QED BY <2>2, <2>5, <2>6, <2>7 DEF Fanning
<1> QED BY <1>3, <1>4

(* What is left of the claims when a dispatcher drops one or all of them.  *)
LEMMA SetAsideClaims == ASSUME TypeOK, NEW w \in Workers, NEW c, SetAside(w, c) PROVE ClaimsKept
  BY DEF SetAside, TypeOK, ClaimsKept, Like

LEMMA SameClaims == ASSUME UNCHANGED claimed PROVE ClaimsKept
  BY DEF ClaimsKept, Like

LEMMA DroppedClaims == ASSUME TypeOK, NEW w \in Workers, claimed' = [claimed EXCEPT ![w] = {}]
                       PROVE  ClaimsKept
  BY DEF TypeOK, ClaimsKept, Like

LEMMA SameTables == ASSUME UNCHANGED tables
                    PROVE  RowsThere /\ NoneEnters /\ UNCHANGED eligible
  BY DEF tables, RowsThere, NoneEnters

LEMMA RemoveFanning ==
    ASSUME TypeOK, Fanning, NEW p \in Endpoints, Remove(p) PROVE Fanning'
<1>1. \A d \in Delivery : Settled(deliveries[d], "deleted").status = "deleted"
  BY SettledRow DEF TypeOK, Statuses
<1>2. RowsThere
  BY <1>1 DEF Remove, RowsThere
<1>3. NoneEnters
  BY DEF Remove, NoneEnters, TypeOK
<1> QED BY <1>2, <1>3, SameClaims, FanningKept DEF Remove

LEMMA ClaimDeliveriesFanning ==
    ASSUME TypeOK, Fanning, NEW w \in Workers, ClaimDeliveries(w) PROVE Fanning'
<1>1. \A d \in Delivery : deliveries'[d].status = deliveries[d].status
  BY LockThere DEF ClaimDeliveries, TypeOK
<1>2. RowsThere /\ NoneEnters
  BY <1>1 DEF ClaimDeliveries, RowsThere, NoneEnters
<1> QED BY <1>2, SameClaims, FanningKept DEF ClaimDeliveries

LEMMA EventFailsFanning ==
    ASSUME TypeOK, Fanning, NEW w \in Workers, NEW c \in claimed[w], EventFails(w, c)
    PROVE  Fanning'
<1>1. c.event \in Events /\ c.attempt \in Nat \ {0}
  BY DEF TypeOK, Claim
<1>2. /\ Settled(events[c.event], "FAILED").status = "FAILED"
      /\ Retried(events[c.event], RetryDelay(c.attempt)).status = events[c.event].status
  BY <1>1, SettledRow, RetriedRow, DelayType DEF TypeOK, Statuses
<1>3. /\ \A e \in Events : e # c.event => events'[e] = events[e]
      /\ events'[c.event].status \in {events[c.event].status, "FAILED"}
      /\ events'[c.event].status = "FAILED" => events[c.event].status \in {"PENDING", "FAILED"}
  BY <1>1, <1>2 DEF EventFails, TypeOK, Holds
<1>4. RowsThere /\ NoneEnters
  BY <1>1, <1>3 DEF EventFails, RowsThere, NoneEnters
<1> QED BY <1>4, SetAsideClaims, FanningKept DEF EventFails

LEMMA SucceedFanning == ASSUME TypeOK, Fanning, NEW c \in posts, Succeed(c) PROVE Fanning'
<1>1. c.row \in Delivery
  BY DEF TypeOK, Call
<1>2. Settled(deliveries[c.row], "DONE").status = "DONE"
  BY <1>1, SettledRow DEF TypeOK, Statuses
<1>3. RowsThere
  BY <1>1, <1>2 DEF Succeed, RowsThere, TypeOK, Holds
<1>4. NoneEnters
  BY DEF Succeed, NoneEnters, TypeOK
<1> QED BY <1>3, <1>4, SameClaims, FanningKept DEF Succeed

LEMMA RetryOrCancelFanning ==
    ASSUME TypeOK, Fanning, NEW c \in posts, RetryOrCancel(c) PROVE Fanning'
<1>1. c.row \in Delivery /\ c.attempt \in Nat \ {0}
  BY DEF TypeOK, Call
<1>2. /\ Settled(deliveries[c.row], "FAILED").status = "FAILED"
      /\ Retried(deliveries[c.row], RetryDelay(c.attempt)).status = deliveries[c.row].status
  BY <1>1, SettledRow, RetriedRow, DelayType DEF TypeOK, Statuses
<1>3. RowsThere /\ NoneEnters
  BY <1>1, <1>2 DEF RetryOrCancel, RowsThere, NoneEnters, TypeOK, Holds
<1> QED BY <1>3, SameClaims, FanningKept DEF RetryOrCancel

LEMMA FailFanning == ASSUME TypeOK, Fanning, NEW c \in posts, Fail(c) PROVE Fanning'
<1>1. c.row \in Delivery /\ c.row[2] \in Endpoints
  BY DeliveryIs DEF TypeOK, Call
<1>2. \A d \in Delivery : Settled(deliveries[d], "FAILED").status = "FAILED"
  BY SettledRow DEF TypeOK, Statuses
<1>3. RowsThere
  BY <1>1, <1>2 DEF Fail, RowsThere, Holds
<1>4. Holds(deliveries[c.row], c) => deliveries[c.row].status = "PENDING"
  BY DEF Holds
<1>5. NoneEnters
  BY <1>1 DEF Fail, NoneEnters, TypeOK
<1> QED BY <1>3, <1>5, SameClaims, FanningKept DEF Fail

LEMMA ClockFanning == ASSUME TypeOK, Fanning, Clock PROVE Fanning'
<1>1. RowsThere /\ NoneEnters
  BY LaterRow DEF Clock, TypeOK, RowsThere, NoneEnters
<1>2. \A w \in Workers : \A c \in claimed[w] : Like(Aged(c), c)
  BY DEF TypeOK, Claim, Aged, Like
<1>3. ClaimsKept
  BY <1>2 DEF Clock, ClaimsKept
<1> QED BY <1>1, <1>3, FanningKept DEF Clock

-----------------------------------------------------------------------------
(* Posting.  All but Check and the claim of new deliveries keep the calls  *)
(* that there are or drop some; a lease that was given up never comes      *)
(* back, and an endpoint that goes out of service takes its queue along.   *)
LooksOnly(c) == c.step \in {"check", "cancel"}

CallsKept == \A c \in posts' : \E b \in posts :
                /\ c.row = b.row /\ c.attempt = b.attempt
                /\ LooksOnly(b) => LooksOnly(c)

LeasesKept == \A d \in Delivery :
                 /\ deliveries[d].status # "absent" => deliveries'[d].status # "absent"
                 /\ deliveries[d].attempts <= deliveries'[d].attempts
                 /\ /\ deliveries'[d].status = "PENDING" /\ deliveries'[d].locked
                    /\ deliveries'[d].attempts = deliveries[d].attempts
                    => deliveries[d].status = "PENDING" /\ deliveries[d].locked

StaysInService == \A d \in Delivery :
                     deliveries'[d].status = "PENDING" /\ endpoints[d[2]].state = "active"
                     => endpoints'[d[2]].state = "active"

LEMMA PostingKept ==
    ASSUME TypeOK, TypeOK', \A c \in posts : Posting(c), CallsKept, LeasesKept, StaysInService
    PROVE  \A c \in posts' : Posting(c)'
<1> SUFFICES ASSUME NEW c \in posts' PROVE Posting(c)'
  OBVIOUS
<1> PICK b \in posts : /\ c.row = b.row /\ c.attempt = b.attempt
                       /\ LooksOnly(b) => LooksOnly(c)
  BY DEF CallsKept
<1>1. Posting(b) /\ b.row \in Delivery /\ b.attempt \in Nat
  BY DEF TypeOK, Call
<1>2. deliveries[c.row] \in Row /\ deliveries'[c.row] \in Row
  BY <1>1 DEF TypeOK
<1>3. deliveries[c.row].attempts \in Nat /\ deliveries'[c.row].attempts \in Nat
  BY <1>2 DEF Row
<1>4. /\ deliveries'[c.row].status # "absent"
      /\ c.attempt <= deliveries[c.row].attempts
      /\ c.attempt <= deliveries'[c.row].attempts
  BY <1>1, <1>3 DEF LeasesKept, Posting
<1>5. ASSUME ~LooksOnly(c), Holds(deliveries'[c.row], c)
      PROVE  endpoints'[c.row[2]].state = "active"
  <2>1. deliveries'[c.row].attempts = deliveries[c.row].attempts
    BY <1>1, <1>3, <1>4, <1>5 DEF Holds, LeasesKept
  <2>2. Holds(deliveries[b.row], b)
    BY <1>1, <1>5, <2>1 DEF Holds, LeasesKept
  <2>3. endpoints[c.row[2]].state = "active"
    BY <1>1, <1>5, <2>2 DEF Posting, LooksOnly
  <2> QED BY <1>1, <1>5, <2>3 DEF StaysInService, Holds
<1> QED BY <1>4, <1>5 DEF Posting, LooksOnly

LEMMA SameLeases == ASSUME UNCHANGED <<deliveries, endpoints>>, TypeOK
                    PROVE  LeasesKept /\ StaysInService
  BY DEF LeasesKept, StaysInService, TypeOK, Row

LEMMA SameCalls == ASSUME posts' \subseteq posts PROVE CallsKept
  BY DEF CallsKept

LEMMA NextCall == ASSUME TypeOK, NEW c \in posts, ~LooksOnly(c),
                         NEW step \in {"check", "post", "cancel", "ok", "retry", "fail"},
                         Becomes(c, step)
                  PROVE  CallsKept
<1>1. c \in Call
  BY DEF TypeOK
<1> DEFINE g == [c EXCEPT !.step = step]
<1>2. g.row = c.row /\ g.attempt = c.attempt
  BY <1>1, CallGoes
<1>3. posts' = (posts \ {c}) \cup {g}
  BY DEF Becomes
<1> HIDE DEF g
<1> QED BY <1>2, <1>3 DEF CallsKept

(* The counters follow.                                                    *)
LEMMA CountKept ==
    ASSUME TypeOK, TypeOK', Fanning', NEW p \in Endpoints, Counted(p),
           endpoints'[p].state # "deleted" => /\ endpoints[p].state # "deleted"
                                              /\ Failed(p) \subseteq Failed(p)',
           endpoints'[p].failures <= endpoints[p].failures,
           endpoints'[p].state = "disabled" => endpoints[p].state = "disabled"
    PROVE  Counted(p)'
<1>1. Failed(p)' \subseteq Captured'
  BY DEF Failed, Fanning, OfCaptured
<1>2. IsFiniteSet(Failed(p)')
  BY <1>1, FS_Subset DEF Fanning
<1>3. CASE endpoints'[p].state = "deleted"
  BY <1>3 DEF Counted
<1>4. CASE endpoints'[p].state # "deleted"
  <2>1. IsFiniteSet(Failed(p)) /\ Cardinality(Failed(p)) <= Cardinality(Failed(p)')
    BY <1>2, <1>4, FS_Subset
  <2>2. Cardinality(Failed(p)) \in Nat /\ Cardinality(Failed(p)') \in Nat
    BY <1>2, <2>1, FS_CardinalityType
  <2>3. endpoints'[p].failures \in Nat /\ endpoints[p].failures \in Nat
    BY DEF TypeOK
  <2> QED BY <1>4, <2>1, <2>2, <2>3, WebhooksAssumption DEF Counted
<1> QED BY <1>3, <1>4

Rest == /\ \A p \in Endpoints : InService(p) /\ Counted(p)
        /\ \A c \in posts : Posting(c)

LEMMA ServiceKept ==
    ASSUME IInv, TypeOK', Fanning', UNCHANGED endpoints,
           \A d \in Delivery : deliveries[d].status = "FAILED" => deliveries'[d].status = "FAILED"
    PROVE  \A p \in Endpoints : InService(p)' /\ Counted(p)'
<1> SUFFICES ASSUME NEW p \in Endpoints PROVE InService(p)' /\ Counted(p)'
  OBVIOUS
<1>1. Failed(p) \subseteq Failed(p)'
  BY DeliveryIs DEF Failed
<1>2. endpoints[p].failures <= endpoints[p].failures
  BY DEF IInv, TypeOK
<1>3. Counted(p)'
  BY <1>1, <1>2, CountKept DEF IInv
<1> QED BY <1>3 DEF IInv, InService

(* What leaves the deliveries and the endpoints alone.                     *)
LEMMA RestKept ==
    ASSUME IInv, TypeOK', Fanning', UNCHANGED <<deliveries, endpoints>>, CallsKept PROVE Rest'
<1>1. \A p \in Endpoints : InService(p)' /\ Counted(p)'
  BY ServiceKept
<1>2. \A c \in posts' : Posting(c)'
  BY SameLeases, PostingKept DEF IInv
<1> QED BY <1>1, <1>2 DEF Rest

LEMMA RegisterRest ==
    ASSUME IInv, TypeOK', Fanning', NEW p \in Endpoints, Register(p) PROVE Rest'
<1>1. /\ \A q \in Endpoints : endpoints'[q].failures = endpoints[q].failures
      /\ \A q \in Endpoints : q # p => endpoints'[q] = endpoints[q]
      /\ endpoints[p].state = "absent" /\ endpoints'[p].state = "active"
  BY DEF Register, IInv, TypeOK
<1>2. ASSUME NEW q \in Endpoints PROVE InService(q)' /\ Counted(q)'
  <2>1. Failed(q)' = Failed(q)
    BY DEF Failed, Register
  <2> QED BY <1>1, <2>1, WebhooksAssumption DEF IInv, InService, Counted
<1>3. LeasesKept /\ StaysInService
  BY <1>1, DeliveryIs DEF Register, LeasesKept, StaysInService, IInv, TypeOK, Row
<1>4. \A c \in posts' : Posting(c)'
  BY <1>3, SameCalls, PostingKept DEF IInv, Register
<1> QED BY <1>2, <1>4 DEF Rest

LEMMA RemoveRest ==
    ASSUME IInv, TypeOK', Fanning', NEW p \in Endpoints, Remove(p) PROVE Rest'
<1>1. /\ \A q \in Endpoints : endpoints'[q].failures = endpoints[q].failures
      /\ \A q \in Endpoints : q # p => endpoints'[q] = endpoints[q]
      /\ endpoints'[p].state = "deleted"
  BY DEF Remove, IInv, TypeOK
<1>2. \A d \in Delivery : /\ Settled(deliveries[d], "deleted").status = "deleted"
                          /\ Settled(deliveries[d], "deleted").attempts = deliveries[d].attempts
                          /\ deliveries[d].attempts \in Nat
  BY SettledRow DEF IInv, TypeOK, Statuses, Row
<1>3. \A d \in Delivery : /\ deliveries'[d].attempts = deliveries[d].attempts
                          /\ d[2] # p => deliveries'[d] = deliveries[d]
                          /\ d[2] = p => deliveries'[d].status \in {"absent", "deleted"}
                          /\ deliveries[d].status # "absent" => deliveries'[d].status # "absent"
  BY <1>2 DEF Remove
<1>4. ASSUME NEW q \in Endpoints PROVE InService(q)' /\ Counted(q)'
  <2>1. CASE q = p
    BY <1>1, <2>1 DEF InService, Counted
  <2>2. CASE q # p
    <3>1. \A e \in Events : deliveries'[<<e, q>>] = deliveries[<<e, q>>]
      BY <1>3, <2>2, DeliveryIs
    <3>2. Failed(q)' = Failed(q)
      BY <3>1 DEF Failed
    <3> QED BY <1>1, <2>2, <3>2 DEF IInv, InService, Counted
  <2> QED BY <2>1, <2>2
<1>5. LeasesKept
  BY <1>2, <1>3 DEF LeasesKept
<1>6. StaysInService
  BY <1>1, <1>3, DeliveryIs DEF StaysInService
<1>7. \A c \in posts' : Posting(c)'
  BY <1>5, <1>6, SameCalls, PostingKept DEF IInv, Remove
<1> QED BY <1>4, <1>7 DEF Rest

LEMMA ClaimDeliveriesRest ==
    ASSUME IInv, TypeOK', Fanning', NEW w \in Workers, ClaimDeliveries(w) PROVE Rest'
<1> DEFINE G(d) == [row |-> d, attempt |-> deliveries[d].attempts + 1, left |-> Lease,
                    worker |-> w, step |-> "check", caught |-> FALSE, awaited |-> TRUE]
<1> PICK page \in Pages(deliveries) :
          /\ deliveries' = Lock(deliveries, page)
          /\ posts' = posts \cup {G(d) : d \in page}
  BY DEF ClaimDeliveries
<1>1. page \subseteq Delivery /\ \A d \in page : deliveries[d].status = "PENDING"
  BY PageClaimable DEF IInv, TypeOK, Claimable
<1>2. \A d \in Delivery :
         /\ deliveries[d] \in Row
         /\ deliveries'[d] = IF d \in page THEN Leased(deliveries[d]) ELSE deliveries[d]
  BY DEF IInv, TypeOK, Lock
<1>3. \A d \in Delivery :
         /\ deliveries'[d].status = deliveries[d].status
         /\ d \in page => deliveries'[d].attempts = deliveries[d].attempts + 1
         /\ d \notin page => deliveries'[d] = deliveries[d]
         /\ deliveries[d].attempts \in Nat
  BY <1>2, LeasedRow DEF Row
<1>4. LeasesKept
  BY <1>3 DEF LeasesKept
<1>5. \A p \in Endpoints : InService(p)' /\ Counted(p)'
  BY <1>3, ServiceKept DEF ClaimDeliveries
<1>6. ASSUME NEW c \in posts PROVE Posting(c)'
  <2>1. Posting(c) /\ c.row \in Delivery /\ c.attempt \in Nat
    BY DEF IInv, TypeOK, Call
  <2>2. CASE c.row \in page
    BY <1>3, <2>1, <2>2 DEF Posting, Holds
  <2>3. CASE c.row \notin page
    BY <1>3, <2>1, <2>3 DEF Posting, Holds, ClaimDeliveries
  <2> QED BY <2>2, <2>3
<1>7. ASSUME NEW g \in posts', g \notin posts PROVE Posting(g)'
  <2> PICK d \in page : g = G(d)
    BY <1>7
  <2>1. g.step = "check" /\ g.row = d /\ g.attempt = deliveries[d].attempts + 1
    OBVIOUS
  <2> HIDE DEF G
  <2> QED BY <1>1, <1>3, <2>1 DEF Posting
<1> QED BY <1>5, <1>6, <1>7 DEF Rest

LEMMA FanOutRest ==
    ASSUME IInv, TypeOK', Fanning', NEW w \in Workers, NEW c \in claimed[w], FanOut(w, c)
    PROVE  Rest'
<1>1. NewRow(0).status = "PENDING" /\ NewRow(0).attempts = 0 /\ ~NewRow(0).locked
  BY DEF NewRow, NoRow
<1>2. \A d \in Delivery : \/ deliveries'[d] = deliveries[d]
                          \/ deliveries[d].status = "absent" /\ deliveries'[d] = NewRow(0)
  BY DEF FanOut
<1>3. \A d \in Delivery : deliveries[d].attempts \in Nat
  BY DEF IInv, TypeOK, Row
<1>4. \A p \in Endpoints : InService(p)' /\ Counted(p)'
  BY <1>2, ServiceKept DEF FanOut
<1>5. ASSUME NEW b \in posts PROVE Posting(b)'
  <2>1. Posting(b) /\ b.row \in Delivery
    BY DEF IInv, TypeOK, Call
  <2>2. deliveries'[b.row] = deliveries[b.row]
    BY <1>2, <2>1 DEF Posting
  <2> QED BY <2>1, <2>2 DEF Posting, FanOut
<1> QED BY <1>4, <1>5 DEF Rest, FanOut

LEMMA CheckRest ==
    ASSUME IInv, TypeOK', Fanning', NEW c \in posts, Check(c) PROVE Rest'
<1>1. UNCHANGED <<deliveries, endpoints>>
  BY DEF Check, tables
<1>2. c \in Call /\ Posting(c)
  BY DEF IInv, TypeOK
<1>3. CASE Ends(c)
  <2>1. CallsKept
    BY <1>3, SameCalls DEF Ends
  <2> QED BY <1>1, <2>1, RestKept
<1>4. ASSUME NEW step \in {"post", "cancel", "fail"}, Becomes(c, step),
             step = "cancel" \/ endpoints[c.row[2]].state = "active"
      PROVE  Rest'
  <2> DEFINE g == [c EXCEPT !.step = step]
  <2>1. g.row = c.row /\ g.attempt = c.attempt /\ g.step = step
    BY <1>2, CallGoes
  <2>2. posts' = (posts \ {c}) \cup {g}
    BY <1>4 DEF Becomes
  <2> HIDE DEF g
  <2>3. Posting(g)
    BY <1>2, <1>4, <2>1 DEF Posting, Holds
  <2>4. \A b \in posts' : Posting(b)'
    BY <1>1, <2>2, <2>3 DEF IInv, Posting
  <2> QED BY <1>1, <2>4, ServiceKept DEF Rest
<1>5. \/ Ends(c)
      \/ Becomes(c, "cancel")
      \/ Becomes(c, "fail") /\ endpoints[c.row[2]].state = "active"
      \/ Becomes(c, "post") /\ endpoints[c.row[2]].state = "active"
  BY DEF Check
<1> QED BY <1>3, <1>4, <1>5

LEMMA SucceedRest ==
    ASSUME IInv, TypeOK', Fanning', NEW c \in posts, Succeed(c) PROVE Rest'
<1> DEFINE p == c.row[2]
<1>1. c.row \in Delivery /\ p \in Endpoints
  BY DeliveryIs DEF IInv, TypeOK, Call
<1>2. CASE ~Holds(deliveries[c.row], c)
  BY <1>2, SameCalls, RestKept DEF Succeed, Ends
<1>3. CASE Holds(deliveries[c.row], c)
  <2>1. /\ Settled(deliveries[c.row], "DONE").status = "DONE"
        /\ Settled(deliveries[c.row], "DONE").attempts = deliveries[c.row].attempts
        /\ deliveries[c.row].status = "PENDING"
    BY <1>1, <1>3, SettledRow DEF IInv, TypeOK, Statuses, Holds
  <2>2. /\ \A d \in Delivery : d # c.row => deliveries'[d] = deliveries[d]
        /\ deliveries'[c.row].status = "DONE"
        /\ deliveries'[c.row].attempts = deliveries[c.row].attempts
    BY <1>1, <1>3, <2>1 DEF Succeed, IInv, TypeOK
  <2>3. /\ \A q \in Endpoints : endpoints'[q].state = endpoints[q].state
        /\ \A q \in Endpoints : q # p => endpoints'[q] = endpoints[q]
        /\ endpoints'[p].failures = 0
    BY <1>1, <1>3 DEF Succeed, IInv, TypeOK
  <2>4. ASSUME NEW q \in Endpoints PROVE InService(q)' /\ Counted(q)'
    <3>1. endpoints'[q].failures <= endpoints[q].failures
      BY <2>3 DEF IInv, TypeOK
    <3>2. \A e \in Events : deliveries[<<e, q>>].status = "FAILED"
                            => deliveries'[<<e, q>>].status = "FAILED"
      BY <2>1, <2>2, DeliveryIs
    <3>3. Failed(q) \subseteq Failed(q)'
      BY <3>2 DEF Failed
    <3>4. Counted(q)'
      BY <2>3, <3>1, <3>3, CountKept DEF IInv
    <3>5. InService(q)'
      BY <2>3, <3>1, WebhooksAssumption DEF IInv, InService
    <3> QED BY <3>4, <3>5
  <2>5. LeasesKept
    BY <2>2 DEF LeasesKept, IInv, TypeOK, Row
  <2>6. StaysInService
    BY <2>3, DeliveryIs DEF StaysInService
  <2>7. \A b \in posts' : Posting(b)'
    BY <2>5, <2>6, SameCalls, PostingKept DEF IInv, Succeed, Ends
  <2> QED BY <2>4, <2>7 DEF Rest
<1> QED BY <1>2, <1>3

LEMMA RetryOrCancelRest ==
    ASSUME IInv, TypeOK', Fanning', NEW c \in posts, RetryOrCancel(c) PROVE Rest'
<1>1. c.row \in Delivery /\ c.attempt \in Nat \ {0}
  BY DEF IInv, TypeOK, Call
<1>2. CASE ~Holds(deliveries[c.row], c)
  BY <1>2, SameCalls, RestKept DEF RetryOrCancel, Ends
<1>3. CASE Holds(deliveries[c.row], c)
  <2>1. LET s == Settled(deliveries[c.row], "FAILED")
            r == Retried(deliveries[c.row], RetryDelay(c.attempt))
        IN  /\ s.status = "FAILED" /\ s.attempts = deliveries[c.row].attempts
            /\ r.status = "PENDING" /\ r.attempts = deliveries[c.row].attempts /\ ~r.locked
    BY <1>1, <1>3, SettledRow, RetriedRow, DelayType DEF IInv, TypeOK, Statuses, Holds
  <2>2. /\ \A d \in Delivery : d # c.row => deliveries'[d] = deliveries[d]
        /\ \/ deliveries'[c.row].status = "FAILED"
           \/ deliveries'[c.row].status = "PENDING" /\ ~deliveries'[c.row].locked
        /\ deliveries'[c.row].attempts = deliveries[c.row].attempts
        /\ deliveries[c.row].status = "PENDING"
    BY <1>1, <1>3, <2>1 DEF RetryOrCancel, IInv, TypeOK, Holds
  <2>3. LeasesKept
    BY <2>2 DEF LeasesKept, IInv, TypeOK, Row
  <2>4. StaysInService /\ UNCHANGED endpoints
    BY DEF StaysInService, RetryOrCancel
  <2>5. \A q \in Endpoints : InService(q)' /\ Counted(q)'
    BY <2>2, <2>4, ServiceKept
  <2>6. \A b \in posts' : Posting(b)'
    BY <2>3, <2>4, SameCalls, PostingKept DEF IInv, RetryOrCancel, Ends
  <2> QED BY <2>5, <2>6 DEF Rest
<1> QED BY <1>2, <1>3

LEMMA FailRest ==
    ASSUME IInv, TypeOK', Fanning', NEW c \in posts, Fail(c) PROVE Rest'
<1> DEFINE p == c.row[2]
           e == c.row[1]
           disables == endpoints[p].failures + 1 >= DisableAfter
<1>1. c.row \in Delivery /\ p \in Endpoints /\ e \in Events /\ c.row = <<e, p>>
  BY DeliveryIs DEF IInv, TypeOK, Call
<1>2. CASE ~Holds(deliveries[c.row], c)
  BY <1>2, SameCalls, RestKept DEF Fail, Ends
<1>3. CASE Holds(deliveries[c.row], c)
  <2>1. /\ endpoints[p].state = "active" /\ deliveries[c.row].status = "PENDING"
        /\ endpoints[p].failures < DisableAfter
    BY <1>1, <1>3 DEF Fail, IInv, Posting, InService, Holds
  <2>2. \A d \in Delivery :
           /\ Settled(deliveries[d], "FAILED").status = "FAILED"
           /\ Settled(deliveries[d], "FAILED").attempts = deliveries[d].attempts
           /\ deliveries[d].attempts \in Nat
    BY SettledRow DEF IInv, TypeOK, Statuses, Row
  <2>3. \A d \in Delivery :
           deliveries'[d] = IF \/ d = c.row
                               \/ disables /\ d[2] = p /\ deliveries[d].status = "PENDING"
                            THEN Settled(deliveries[d], "FAILED") ELSE deliveries[d]
    BY <1>3 DEF Fail
  <2>4. /\ \A q \in Endpoints : q # p => endpoints'[q] = endpoints[q]
        /\ endpoints'[p].failures = endpoints[p].failures + 1
        /\ endpoints'[p].state = IF disables THEN "disabled" ELSE "active"
    BY <1>1, <1>3, <2>1 DEF Fail, IInv, TypeOK
  <2> HIDE DEF p, e
  <2>5. \A d \in Delivery :
           /\ deliveries'[d].attempts = deliveries[d].attempts
           /\ deliveries[d].status = "FAILED" => deliveries'[d].status = "FAILED"
           /\ deliveries[d].status # "absent" => deliveries'[d].status # "absent"
           /\ deliveries'[d] = deliveries[d] \/ deliveries'[d].status = "FAILED"
    BY <2>2, <2>3
  <2>6. \A q \in Endpoints : Failed(q) \subseteq Failed(q)'
    BY <2>5, DeliveryIs DEF Failed
  <2>7. e \in Failed(p)' /\ e \notin Failed(p)
    BY <1>1, <2>1, <2>2, <2>3 DEF Failed
  <2>8. Counted(p)'
    <3>1. Failed(p)' \subseteq Captured'
      BY <1>1 DEF Failed, Fanning, OfCaptured
    <3>2. IsFiniteSet(Failed(p)')
      BY <1>1, <3>1, FS_Subset DEF Fanning
    <3>3. IsFiniteSet(Failed(p)) /\ Failed(p) \cup {e} \subseteq Failed(p)'
      BY <1>1, <3>2, <2>6, <2>7, FS_Subset
    <3>4. /\ IsFiniteSet(Failed(p) \cup {e})
          /\ Cardinality(Failed(p) \cup {e}) = Cardinality(Failed(p)) + 1
      BY <3>3, <2>7, FS_AddElement
    <3>5. Cardinality(Failed(p)) + 1 <= Cardinality(Failed(p)')
      BY <3>2, <3>3, <3>4, FS_Subset
    <3>6. Cardinality(Failed(p)) \in Nat /\ Cardinality(Failed(p)') \in Nat
      BY <3>2, <3>3, FS_CardinalityType
    <3>7. endpoints[p].failures \in Nat /\ endpoints[p].failures <= Cardinality(Failed(p))
      BY <1>1, <2>1 DEF IInv, TypeOK, Counted
    <3> HIDE DEF disables
    <3>8. endpoints'[p].failures <= Cardinality(Failed(p)')
      BY <2>4, <3>5, <3>6, <3>7
    <3>9. disables => Cardinality(Failed(p)') >= DisableAfter
      BY <3>5, <3>6, <3>7, WebhooksAssumption DEF disables
    <3> QED BY <2>4, <3>8, <3>9 DEF Counted
  <2>9. InService(p)'
    BY <1>1, <2>1, <2>4, WebhooksAssumption DEF InService, IInv, TypeOK
  <2>10. ASSUME NEW q \in Endpoints, q # p PROVE InService(q)' /\ Counted(q)'
    <3>1. endpoints'[q] = endpoints[q] /\ endpoints[q].failures <= endpoints[q].failures
      BY <2>4, <2>10 DEF IInv, TypeOK
    <3>2. Counted(q)'
      BY <2>6, <3>1, CountKept DEF IInv
    <3> QED BY <3>1, <3>2 DEF IInv, InService
  <2>11. LeasesKept
    BY <2>2, <2>5 DEF LeasesKept
  <2>12. StaysInService
    <3> SUFFICES ASSUME NEW d \in Delivery, deliveries'[d].status = "PENDING",
                        endpoints[d[2]].state = "active"
                 PROVE  endpoints'[d[2]].state = "active"
      BY DEF StaysInService
    <3>1. CASE d[2] # p
      BY <3>1, <2>4, DeliveryIs
    <3>2. CASE d[2] = p
      <4>1. ~disables
        BY <3>2, <2>2, <2>3
      <4> QED BY <3>2, <4>1, <2>4
    <3> QED BY <3>1, <3>2
  <2>13. \A b \in posts' : Posting(b)'
    BY <2>11, <2>12, SameCalls, PostingKept DEF IInv, Fail, Ends
  <2> QED BY <2>8, <2>9, <2>10, <2>13 DEF Rest
<1> QED BY <1>2, <1>3

LEMMA ClockRest == ASSUME IInv, TypeOK', Fanning', Clock PROVE Rest'
<1>1. \A d \in Delivery :
         /\ deliveries'[d].status = deliveries[d].status
         /\ deliveries'[d].attempts = deliveries[d].attempts
         /\ deliveries'[d].locked = deliveries[d].locked
         /\ deliveries[d].attempts \in Nat
  BY LaterRow DEF Clock, IInv, TypeOK, Row
<1>2. \A c \in posts : /\ Aged(c).row = c.row /\ Aged(c).attempt = c.attempt
                       /\ Aged(c).step = c.step
  BY DEF IInv, TypeOK, Call, Aged
<1>3. CallsKept
  BY <1>2 DEF Clock, CallsKept, LooksOnly
<1>4. LeasesKept /\ StaysInService
  BY <1>1 DEF LeasesKept, StaysInService, Clock
<1>5. \A c \in posts' : Posting(c)'
  BY <1>3, <1>4, PostingKept DEF IInv
<1> QED BY <1>1, <1>5, ServiceKept DEF Clock, Rest

-----------------------------------------------------------------------------
LEMMA InitHolds == Init => IInv
<1> SUFFICES ASSUME Init PROVE IInv
  OBVIOUS
<1>1. NoRow \in Row /\ NoRow.status = "absent"
  BY QueueAssumption DEF NoRow, Row, Statuses
<1>2. TypeOK
  BY <1>1, IdleType, WebhooksAssumption DEF Init, TypeOK
<1>3. \A e \in Events : events[e].status = "absent"
  BY <1>1 DEF Init
<1>4. \A d \in Delivery : deliveries[d].status = "absent"
  BY <1>1 DEF Init
<1>5. Captured = {}
  BY <1>3 DEF Captured
<1>6. Fanning
  BY <1>3, <1>4, <1>5, DeliveryIs, FS_EmptySet
     DEF Init, Fanning, Registered, OfCaptured, Gathered, EveryEndpointServed
<1>7. \A p \in Endpoints : Failed(p) = {}
  BY <1>4, DeliveryIs DEF Failed
<1>8. \A p \in Endpoints : InService(p) /\ Counted(p)
  <2>1. Cardinality({}) = 0
    BY FS_EmptySet
  <2>2. \A p \in Endpoints : endpoints[p].state = "absent" /\ endpoints[p].failures = 0
    BY DEF Init
  <2> QED BY <1>7, <2>1, <2>2 DEF InService, Counted
<1> QED BY <1>2, <1>6, <1>8 DEF Init, IInv

(* Step by step: types, fanning out, and then posting, which relies on     *)
(* both after the step.                                                    *)
LEMMA Together == ASSUME TypeOK', Fanning', Rest' PROVE IInv'
  BY DEF Rest, IInv

LEMMA DispatchKeeps == ASSUME IInv, NEW w \in Workers, Dispatch(w) PROVE IInv'
<1>0. TypeOK /\ Fanning
  BY DEF IInv
<1>1. CASE ClaimEvents(w)
  <2>1. TypeOK' /\ Fanning'
    BY <1>0, <1>1, ClaimEventsTyped, ClaimEventsFanning
  <2>2. Rest'
    BY <1>1, <2>1, SameCalls, RestKept DEF ClaimEvents
  <2> QED BY <2>1, <2>2, Together
<1>2. CASE ClaimDeliveries(w)
  BY <1>0, <1>2, ClaimDeliveriesTyped, ClaimDeliveriesFanning, ClaimDeliveriesRest, Together
<1>3. CASE EndTick(w)
  <2>1. TypeOK' /\ Fanning'
    BY <1>0, <1>3, EndTickTyped, SameTables, SameClaims, FanningKept DEF EndTick
  <2>2. Rest'
    BY <1>3, <2>1, SameCalls, RestKept DEF EndTick, tables
  <2> QED BY <2>1, <2>2, Together
<1>4. ASSUME NEW c \in claimed[w], ReadEndpoints(w, c) PROVE IInv'
  <2>1. TypeOK' /\ Fanning'
    BY <1>0, <1>4, ReadTyped, ReadFanning
  <2>2. Rest'
    BY <1>4, <2>1, SameCalls, RestKept DEF ReadEndpoints, tables
  <2> QED BY <2>1, <2>2, Together
<1>5. ASSUME NEW c \in claimed[w], FanOut(w, c) PROVE IInv'
  BY <1>0, <1>5, FanOutTyped, FanOutFanning, FanOutRest, Together
<1>6. ASSUME NEW c \in claimed[w], EventFails(w, c) PROVE IInv'
  <2>1. TypeOK' /\ Fanning'
    BY <1>0, <1>6, EventFailsTyped, EventFailsFanning
  <2>2. Rest'
    BY <1>6, <2>1, SameCalls, RestKept DEF EventFails
  <2> QED BY <2>1, <2>2, Together
<1> QED BY <1>1, <1>2, <1>3, <1>4, <1>5, <1>6 DEF Dispatch

LEMMA DeliverKeeps == ASSUME IInv, NEW c \in posts, Deliver(c) PROVE IInv'
<1>0. TypeOK /\ Fanning
  BY DEF IInv
<1>1. CASE Check(c)
  <2>1. TypeOK' /\ Fanning'
    BY <1>0, <1>1, CheckTyped, SameTables, SameClaims, FanningKept DEF Check
  <2> QED BY <1>1, <2>1, CheckRest, Together
<1>2. ASSUME NEW answer \in {"accepted", "rejected", "neither"}, Post(c, answer) PROVE IInv'
  <2>1. TypeOK' /\ Fanning'
    BY <1>0, <1>2, PostTyped, SameTables, SameClaims, FanningKept DEF Post
  <2>2. CallsKept
    BY <1>0, <1>2, NextCall DEF Post, LooksOnly
  <2>3. Rest'
    BY <1>2, <2>1, <2>2, RestKept DEF Post, tables
  <2> QED BY <2>1, <2>3, Together
<1>3. CASE Succeed(c)
  BY <1>0, <1>3, SucceedTyped, SucceedFanning, SucceedRest, Together
<1>4. CASE RetryOrCancel(c)
  BY <1>0, <1>4, RetryOrCancelTyped, RetryOrCancelFanning, RetryOrCancelRest, Together
<1>5. CASE Fail(c)
  <2>1. TypeOK'
    BY <1>5, FailTyped DEF IInv
  <2> QED BY <1>0, <1>5, <2>1, FailFanning, FailRest, Together
<1> QED BY <1>1, <1>2, <1>3, <1>4, <1>5 DEF Deliver

(* What goes wrong changes no row.                                         *)
LEMMA MishapKeeps ==
    ASSUME IInv, TypeOK', UNCHANGED tables, ClaimsKept, CallsKept PROVE IInv'
<1>1. Fanning'
  BY SameTables, FanningKept DEF IInv
<1>2. Rest'
  BY <1>1, RestKept DEF tables
<1> QED BY <1>1, <1>2, Together

LEMMA NotRecordedKeeps == ASSUME IInv, NEW c \in posts, NotRecorded(c) PROVE IInv'
<1> DEFINE s == IF c.attempt < MaxAttempts THEN "retry" ELSE "fail"
           g == [c EXCEPT !.step = s, !.caught = TRUE]
<1>1. c \in Call /\ ~LooksOnly(c)
  BY DEF IInv, TypeOK, NotRecorded, LooksOnly
<1>2. posts' = (posts \ {c}) \cup {g}
  BY DEF NotRecorded
<1> HIDE DEF s
<1>3. g.row = c.row /\ g.attempt = c.attempt
  BY <1>1 DEF Call
<1> HIDE DEF g
<1>4. CallsKept
  BY <1>1, <1>2, <1>3 DEF CallsKept
<1> QED BY <1>4, NotRecordedTyped, SameClaims, MishapKeeps DEF NotRecorded, IInv

LEMMA RejectsKeeps == ASSUME IInv, NEW c \in posts, Rejects(c) PROVE IInv'
<1> DEFINE g(x) == [x EXCEPT !.awaited = FALSE]
<1>1. \A x \in posts : g(x).row = x.row /\ g(x).attempt = x.attempt /\ g(x).step = x.step
  BY DEF IInv, TypeOK, Call
<1>2. \A y \in posts' : \E x \in posts : y = x \/ y = g(x)
  BY DEF Rejects
<1> HIDE DEF g
<1>3. CallsKept
  BY <1>1, <1>2 DEF CallsKept, LooksOnly
<1> QED BY <1>3, RejectsTyped, SameClaims, MishapKeeps DEF Rejects, IInv

LEMMA NextKeeps == IInv /\ [Next]_vars => IInv'
<1> SUFFICES ASSUME IInv, [Next]_vars PROVE IInv'
  OBVIOUS
<1>0. TypeOK /\ Fanning
  BY DEF IInv
<1>1. ASSUME NEW p \in Endpoints, Register(p) PROVE IInv'
  BY <1>0, <1>1, RegisterTyped, RegisterFanning, RegisterRest, Together
<1>2. ASSUME NEW p \in Endpoints, Remove(p) PROVE IInv'
  BY <1>0, <1>2, RemoveTyped, RemoveFanning, RemoveRest, Together
<1>3. ASSUME NEW e \in Events, Capture(e) PROVE IInv'
  <2>1. TypeOK' /\ Fanning'
    BY <1>0, <1>3, CaptureTyped, CaptureFanning
  <2>2. Rest'
    BY <1>3, <2>1, SameCalls, RestKept DEF Capture
  <2> QED BY <2>1, <2>2, Together
<1>4. ASSUME NEW w \in Workers, TickFails(w) PROVE IInv'
  BY <1>0, <1>4, TickFailsTyped, DroppedClaims, SameCalls, MishapKeeps DEF TickFails
<1>5. ASSUME NEW w \in Workers, Crash(w) PROVE IInv'
  BY <1>0, <1>5, CrashTyped, DroppedClaims, SameCalls, MishapKeeps DEF Crash
<1>6. CASE Clock
  BY <1>0, <1>6, ClockTyped, ClockFanning, ClockRest, Together
<1>7. CASE UNCHANGED vars
  <2>1. TypeOK'
    BY <1>7 DEF IInv, TypeOK, vars, tables
  <2> QED BY <1>7, <2>1, SameClaims, SameCalls, MishapKeeps DEF vars
<1> QED BY <1>1, <1>2, <1>3, <1>4, <1>5, <1>6, <1>7, DispatchKeeps, DeliverKeeps,
           NotRecordedKeeps, RejectsKeeps DEF Next

THEOREM Invariance == Spec => []IInv
  BY InitHolds, NextKeeps, PTL DEF Spec

(* Rows, claims and calls stay what they are, an endpoint never counts     *)
(* more than DisableAfter failures, and no tick claims more than its       *)
(* batches.  features/webhooks/src/render.ts, queueClaimSql.               *)
THEOREM TypeAlways == Spec => []TypeOK
<1>1. IInv => TypeOK
  BY DEF IInv
<1> QED BY <1>1, Invariance, PTL

(* However often its fan-out is claimed, overtaken, refused or cut off by  *)
(* a crash, an event that is DONE has a delivery for every endpoint it is  *)
(* for and that is still active.  render.ts fanOutEvent.                   *)
THEOREM EveryEndpointIsServed == Spec => []EveryEndpointServed
<1>1. IInv => EveryEndpointServed
  BY DEF IInv, Fanning
<1> QED BY <1>1, Invariance, PTL

-----------------------------------------------------------------------------
(* A step changes the failures of an endpoint with one of its deliveries.  *)
Follows(p) == endpoints'[p].failures # endpoints[p].failures =>
                 \E d \in Delivery : /\ d[2] = p /\ deliveries[d].status = "PENDING"
                                     /\ deliveries'[d].status \in {"DONE", "FAILED"}

LEMMA SettleFollows ==
    ASSUME IInv, NEW c \in posts, Succeed(c) \/ Fail(c), NEW p \in Endpoints PROVE Follows(p)
<1>1. c.row \in Delivery /\ c.row[2] \in Endpoints
  BY DeliveryIs DEF IInv, TypeOK, Call
<1>2. CASE ~Holds(deliveries[c.row], c) \/ p # c.row[2]
  BY <1>1, <1>2 DEF Follows, Succeed, Fail, IInv, TypeOK
<1>3. CASE Holds(deliveries[c.row], c) /\ p = c.row[2]
  <2>1. deliveries[c.row].status = "PENDING"
    BY <1>3 DEF Holds
  <2>2. /\ Settled(deliveries[c.row], "DONE").status = "DONE"
        /\ Settled(deliveries[c.row], "FAILED").status = "FAILED"
    BY <1>1, SettledRow DEF IInv, TypeOK, Statuses
  <2>3. Succeed(c) => deliveries'[c.row].status = "DONE"
    BY <1>1, <1>3, <2>2 DEF Succeed, IInv, TypeOK
  <2>4. Fail(c) => deliveries'[c.row].status = "FAILED"
    BY <1>1, <1>3, <2>2 DEF Fail
  <2> QED BY <1>1, <1>3, <2>1, <2>3, <2>4 DEF Follows
<1> QED BY <1>2, <1>3

LEMMA NextFollows == IInv /\ [Next]_vars => \A p \in Endpoints : Follows(p)
<1> SUFFICES ASSUME IInv, [Next]_vars, NEW p \in Endpoints PROVE Follows(p)
  OBVIOUS
<1>1. ASSUME NEW q \in Endpoints, Register(q) \/ Remove(q) PROVE Follows(p)
  BY <1>1 DEF Register, Remove, Follows, IInv, TypeOK
<1>2. ASSUME NEW c \in posts, Succeed(c) \/ Fail(c) PROVE Follows(p)
  BY <1>2, SettleFollows
<1>3. CASE UNCHANGED endpoints
  BY <1>3 DEF Follows
<1>4. ASSUME NEW e \in Events, Capture(e) PROVE UNCHANGED endpoints
  BY <1>4 DEF Capture
<1>5. ASSUME NEW w \in Workers, Dispatch(w) \/ TickFails(w) \/ Crash(w)
      PROVE  UNCHANGED endpoints
  BY <1>5 DEF Dispatch, ClaimEvents, ClaimDeliveries, EndTick, ReadEndpoints, FanOut,
              EventFails, TickFails, Crash, tables
<1>6. ASSUME NEW c \in posts,
             \/ Check(c) \/ RetryOrCancel(c) \/ NotRecorded(c) \/ Rejects(c)
             \/ \E answer \in {"accepted", "rejected", "neither"} : Post(c, answer)
      PROVE  UNCHANGED endpoints
  BY <1>6 DEF Check, RetryOrCancel, NotRecorded, Rejects, Post, tables
<1>7. CASE Clock \/ UNCHANGED vars
  BY <1>3, <1>7 DEF Clock, vars, tables
<1> QED BY <1>1, <1>2, <1>3, <1>4, <1>5, <1>6, <1>7 DEF Next, Deliver

(* An endpoint is disabled for DisableAfter deliveries that have failed,   *)
(* each of which was counted once and in the step that ended it, whichever *)
(* calls overtake each other.  render.ts succeed, fail.                    *)
THEOREM DisablingAlwaysFair == Spec => DisablingIsFair
<1>1. IInv => DisabledForAReason
  BY DEF IInv, DisabledForAReason, Counted, Failed
<1>2. IInv /\ [Next]_vars => [\A p \in Endpoints : Follows(p)]_vars
  BY NextFollows
<1>3. [][\A p \in Endpoints : Follows(p)]_vars => FailuresFollowDeliveries
  BY DEF FailuresFollowDeliveries, Follows
<1> QED BY <1>1, <1>2, <1>3, InitHolds, NextKeeps, PTL DEF Spec, DisablingIsFair
=============================================================================
