-------------------------------- MODULE Cron --------------------------------
(***************************************************************************)
(* The recurring jobs of the jobs pack (features/jobs/src/feature.ts, the  *)
(* validation of a schedule; render.ts, its matcher and the ticks of the   *)
(* JobRunner): every instance looks every 30 seconds which schedules the   *)
(* minute matches and enqueues a job for each, whose deduplication key is  *)
(* the minute.  What becomes of the job is in JobQueue.                    *)
(*                                                                         *)
(* A field is a wildcard, a step, or a list of ranges (a value is a range  *)
(* of one).  Time goes in steps of a fraction of the interval.             *)
(***************************************************************************)
EXTENDS Integers, Sequences, FiniteSets

CONSTANTS Runners,        \* instances
          TickEvery,      \* CRON_TICK_MS, in units of time
          MinuteUnits,    \* a minute in the same units
          CronHorizon,    \* bound: how long is looked at
          MaxTicks,       \* bound: ticks under way at a time
          MaxCronFaults   \* bound: failing inserts, dying and stalled instances

ASSUME CronAssumption ==
    /\ TickEvery \in Nat \ {0} /\ MinuteUnits \in Nat /\ TickEvery <= MinuteUnits
    /\ {CronHorizon, MaxTicks, MaxCronFaults} \subseteq Nat

VARIABLES
    crontab,    \* CRON_JOBS: a schedule for each name
    calendar,   \* the date of each minute so far
    cronNow,    \* the time
    runners,    \* of each instance: whether it is up, and since when it waits
    crons,      \* the ticks under way
    cronjobs,   \* JobRecord rows with a cron key, and when they were due
    cronFaults

cronVars == <<crontab, calendar, cronNow, runners, crons, cronjobs, cronFaults>>

Always == [kind |-> "any", step |-> 0, parts |-> {}]
Every(n) == [kind |-> "step", step |-> n, parts |-> {}]
Listed(parts) == [kind |-> "list", step |-> 0, parts |-> parts]

Positions == {"minute", "hour", "day", "month", "weekday"}
Lowest == [minute |-> 0, hour |-> 0, day |-> 1, month |-> 1, weekday |-> 0]
Highest == [minute |-> 59, hour |-> 23, day |-> 31, month |-> 12, weekday |-> 6]

-----------------------------------------------------------------------------
(* What the compiler accepts.                                              *)
validCronField(f, low, high) ==
    CASE f.kind = "any"  -> TRUE
      [] f.kind = "step" -> f.step \in 1 .. high
      [] f.kind = "list" -> \A p \in f.parts : low <= p[1] /\ p[1] <= p[2] /\ p[2] <= high

validateCronExpression(schedule) ==
    \A p \in Positions : validCronField(schedule[p], Lowest[p], Highest[p])

(* What the generated matcher makes of it.                                 *)
fieldMatches(f, value, low) ==
    CASE f.kind = "any"  -> TRUE
      [] f.kind = "step" -> (value - low) % f.step = 0
      [] f.kind = "list" -> \E p \in f.parts : p[1] <= value /\ value <= p[2]

DayMatches(schedule, date) ==
    LET domMatches == fieldMatches(schedule.day, date.day, 1)
        dowMatches == fieldMatches(schedule.weekday, date.weekday, 0)
    IN  IF schedule.day # Always /\ schedule.weekday # Always
        THEN domMatches \/ dowMatches ELSE domMatches /\ dowMatches

cronMatches(schedule, date) ==
    /\ fieldMatches(schedule.minute, date.minute, 0)
    /\ fieldMatches(schedule.hour, date.hour, 0)
    /\ fieldMatches(schedule.month, date.month, 1)
    /\ DayMatches(schedule, date)

(* The calendar.                                                           *)
DaysIn(month) == CASE month = 2 -> 28 [] month \in {4, 6, 9, 11} -> 30 [] OTHER -> 31

NextMinute(d) ==
    LET hourEnds  == d.minute = 59
        dayEnds   == hourEnds /\ d.hour = 23
        monthEnds == dayEnds /\ d.day = DaysIn(d.month)
    IN  [minute  |-> (d.minute + 1) % 60,
         hour    |-> IF hourEnds THEN (d.hour + 1) % 24 ELSE d.hour,
         day     |-> IF monthEnds THEN 1 ELSE IF dayEnds THEN d.day + 1 ELSE d.day,
         month   |-> IF monthEnds THEN (d.month % 12) + 1 ELSE d.month,
         weekday |-> IF dayEnds THEN (d.weekday + 1) % 7 ELSE d.weekday]

MinuteOf(time) == time \div MinuteUnits
DateOf(time) == calendar[MinuteOf(time)]

(* setUTCSeconds(0, 0); a key that keeps the seconds tells ticks apart.    *)
cronOccurrenceSecond(time) == time
cronOccurrenceKey(time) == MinuteOf(time) * MinuteUnits

-----------------------------------------------------------------------------
Runner == [up: BOOLEAN, wait: 0 .. MinuteUnits, stalled: BOOLEAN,
           excused: SUBSET (0 .. MinuteOf(CronHorizon))]

CronInit(tables, dates, up, now) ==
    /\ crontab \in tables
    /\ cronNow = now
    /\ calendar \in [{MinuteOf(now)} -> dates]
    /\ runners \in [Runners -> [up: up, wait: {0}, stalled: {FALSE},
                             excused: {0 .. MinuteOf(now)}]]
    /\ crons = {}
    /\ cronjobs = {}
    /\ cronFaults = 0

CronFault == cronFaults < MaxCronFaults /\ cronFaults' = cronFaults + 1
Started == \A n \in DOMAIN crontab : validateCronExpression(crontab[n])

CronTick(i) ==
    /\ Started /\ runners[i].up /\ runners[i].wait >= TickEvery
    /\ Cardinality(crons) < MaxTicks
    /\ crons' = crons \cup {[runner |-> i, at |-> cronNow, entry |-> 1]}
    /\ runners' = [runners EXCEPT ![i].wait = 0, ![i].stalled = FALSE]
    /\ UNCHANGED <<crontab, calendar, cronNow, cronjobs, cronFaults>>

Passed(t) ==
    crons' = (crons \ {t}) \cup (IF t.entry = Len(crontab) THEN {} ELSE {[t EXCEPT !.entry = @ + 1]})

(* One entry of the loop of a tick: a key that is there is no failure.     *)
CronEntry(t) ==
    LET key == cronOccurrenceKey(t.at) IN
    /\ cronjobs' = IF /\ cronMatches(crontab[t.entry], DateOf(t.at))
                      /\ ~\E j \in cronjobs : j.name = t.entry /\ j.key = key
                   THEN cronjobs \cup {[name |-> t.entry, key |-> key, at |-> t.at]}
                   ELSE cronjobs
    /\ Passed(t)
    /\ UNCHANGED <<crontab, calendar, cronNow, runners, cronFaults>>

Excuse(i, minutes) == runners[i].excused \cup minutes

(* An insert fails otherwise: the rest of the loop is left out.            *)
CronEntryFails(t) ==
    /\ CronFault
    /\ cronMatches(crontab[t.entry], DateOf(t.at))
    /\ crons' = crons \ {t}
    /\ runners' = [runners EXCEPT ![t.runner].excused = Excuse(t.runner, {MinuteOf(t.at)})]
    /\ UNCHANGED <<crontab, calendar, cronNow, cronjobs>>

RunnerDies(i) ==
    LET mine == {t \in crons : t.runner = i} IN
    /\ CronFault /\ runners[i].up
    /\ crons' = crons \ mine
    /\ runners' = [runners EXCEPT ![i].up = FALSE,
                     ![i].excused = Excuse(i, {MinuteOf(t.at) : t \in mine} \cup {MinuteOf(cronNow)})]
    /\ UNCHANGED <<crontab, calendar, cronNow, cronjobs>>

RunnerStarts(i) ==
    /\ ~runners[i].up
    /\ runners' = [runners EXCEPT ![i] = [up |-> TRUE, wait |-> 0, stalled |-> FALSE,
                                          excused |-> Excuse(i, {MinuteOf(cronNow)})]]
    /\ UNCHANGED <<crontab, calendar, cronNow, crons, cronjobs, cronFaults>>

(* The event loop is kept busy for more than a minute.                     *)
RunnerStalls(i) ==
    /\ CronFault
    /\ runners[i].up /\ runners[i].wait = MinuteUnits /\ ~runners[i].stalled
    /\ runners' = [runners EXCEPT ![i].stalled = TRUE]
    /\ UNCHANGED <<crontab, calendar, cronNow, crons, cronjobs>>

CronClock ==
    /\ Started /\ cronNow < CronHorizon
    /\ \A i \in Runners : runners[i].up => runners[i].wait < MinuteUnits \/ runners[i].stalled
    /\ cronNow' = cronNow + 1
    /\ calendar' = [m \in DOMAIN calendar \cup {MinuteOf(cronNow + 1)} |->
                      IF m \in DOMAIN calendar THEN calendar[m] ELSE NextMinute(calendar[m - 1])]
    /\ runners' = [i \in Runners |->
         LET r == runners[i]
             out == ~r.up \/ r.wait = MinuteUnits
         IN  [r EXCEPT !.wait = IF out THEN @ ELSE @ + 1,
                       !.excused = IF out THEN Excuse(i, {MinuteOf(cronNow)}) ELSE @]]
    /\ UNCHANGED <<crontab, crons, cronjobs, cronFaults>>

CronNext ==
    \/ \E i \in Runners : CronTick(i) \/ RunnerDies(i) \/ RunnerStarts(i) \/ RunnerStalls(i)
    \/ \E t \in crons : CronEntry(t) \/ CronEntryFails(t)
    \/ CronClock

-----------------------------------------------------------------------------
CronTypeOK ==
    /\ cronNow \in 0 .. CronHorizon
    /\ MinuteOf(cronNow) \in DOMAIN calendar /\ DOMAIN calendar \subseteq 0 .. MinuteOf(cronNow)
    /\ runners \in [Runners -> Runner]
    /\ crons \subseteq [runner: Runners, at: 0 .. cronNow, entry: DOMAIN crontab]
    /\ cronjobs \subseteq [name: DOMAIN crontab, key: 0 .. cronNow, at: 0 .. cronNow]
    /\ cronFaults \in 0 .. MaxCronFaults

(* The dates a field stands for, and those a schedule does.                *)
Denotes(f, p) ==
    CASE f.kind = "any"  -> Lowest[p] .. Highest[p]
      [] f.kind = "step" -> {v \in Lowest[p] .. Highest[p] :
                               \E k \in 0 .. Highest[p] : v = Lowest[p] + k * f.step}
      [] f.kind = "list" -> (UNION {q[1] .. q[2] : q \in f.parts}) \cap (Lowest[p] .. Highest[p])

Due(schedule, date) ==
    LET On(p) == date[p] \in Denotes(schedule[p], p) IN
    /\ On("minute") /\ On("hour") /\ On("month")
    /\ CASE schedule.weekday = Always -> On("day")
         [] schedule.day = Always     -> On("weekday")
         [] OTHER                  -> On("day") \/ On("weekday")

(* A schedule that is accepted fires: "accepting more here would generate  *)
(* schedules that silently never fire" (feature.ts:19-23).  But a day that *)
(* no month it names has is accepted as well.                              *)
AcceptedFires ==
    crons \cup cronjobs = {} => \A n \in DOMAIN crontab : LET s == crontab[n] IN
        validateCronExpression(s) =>
            /\ \A p \in Positions : \E v \in Lowest[p] .. Highest[p] : fieldMatches(s[p], v, Lowest[p])
            /\ \/ \E month \in Denotes(s.month, "month") : \E day \in 1 .. DaysIn(month) + 1, weekday \in 0 .. 6 :
                     /\ day = DaysIn(month) + 1 => month = 2
                     /\ DayMatches(s, [day |-> day, weekday |-> weekday])
               \/ s.weekday = Always /\ \A m \in Denotes(s.month, "month"), d \in Denotes(s.day, "day") :
                                        d > DaysIn(m)

(* No minute has two jobs of a name, and none that it is not due in.       *)
OncePerOccurrence ==
    \A j \in cronjobs :
        /\ Due(crontab[j.name], DateOf(j.at))
        /\ \A k \in cronjobs : j.name = k.name /\ MinuteOf(j.at) = MinuteOf(k.at) => j = k

(* A minute that has gone by has its jobs, if any one instance was up, did *)
(* not stall for a minute and had no insert of it fail.                    *)
NoneMissed ==
    \A n \in DOMAIN crontab, m \in DOMAIN calendar :
        /\ cronNow >= (m + 1) * MinuteUnits /\ Started
        /\ \E i \in Runners : m \notin runners[i].excused
        /\ \A t \in crons : MinuteOf(t.at) # m
        /\ Due(crontab[n], calendar[m])
        => \E j \in cronjobs : j.name = n /\ MinuteOf(j.at) = m

(* "However many instances (or ticks per minute) run, exactly one job      *)
(* exists per occurrence."  render.ts cronTickNow.                         *)
SchedulesKept == AcceptedFires /\ OncePerOccurrence /\ NoneMissed
=============================================================================
