------------------------------- MODULE Seeding -------------------------------
(***************************************************************************)
(* The development seed of a generated backend: which entities seed.ts of  *)
(* the CRUD pack plans rows for and in which order (features/crud/src/     *)
(* seed.ts), and what the program it renders does to a database.  The plan *)
(* is made from the entities alone; whether PostgreSQL takes the rows is   *)
(* seen when they are inserted.  The program may be interrupted and run    *)
(* again, and is meant to be run any number of times.                      *)
(*                                                                         *)
(* An entity has fields, required or not, with a default or not, unique or *)
(* not, of so many values; foreign keys it owns; and unique indexes.  A    *)
(* value is an ordinal, a row is <<entity, ordinal>>.                      *)
(***************************************************************************)
EXTENDS Naturals, Sequences, FiniteSets

CONSTANTS Accounts,        \* auth.userEntity; entities are numbers
          Tenants,         \* Organization
          Memberships,     \* Membership
          Bookings,        \* reservations.entity
          SeedRuns,        \* how often the seed is started
          Interruptions    \* the numbers of rows a block may be interrupted after

ASSUME SeedAssumption == /\ Cardinality({Accounts, Tenants, Memberships, Bookings}) = 4
                         /\ SeedRuns \in Nat
                         /\ Interruptions \subseteq Nat

VARIABLES seeded,    \* the specification: rows, organizations, auth, entities, reserved
          plan,      \* [seedable, ready, order]: orderEntities so far
          program,   \* [step, block, runs]
          database,  \* the rows
          first      \* the rows when a run first finished; {} before

seedVars == <<seeded, plan, program, database, first>>

-----------------------------------------------------------------------------
Field(required, default, unique, kind, values) ==
    [required |-> required, default |-> default, unique |-> unique, kind |-> kind, values |-> values]
ForeignKey(target, required, unique) == [target |-> target, required |-> required, unique |-> unique]

Implicit == {"id", "createdAt", "updatedAt"}
Members(index) == {index[i] : i \in DOMAIN index}

Described(entity) ==
    LET fields == DOMAIN entity.fields
        keys   == DOMAIN entity.keys
    IN  /\ entity.tenant \in BOOLEAN
        /\ entity.fields \in [fields -> [required : BOOLEAN, default : BOOLEAN, unique : BOOLEAN,
                                        kind : {"open", "wrapped", "ranged"}, values : Nat \ {0}]]
        /\ \A k \in keys : entity.keys[k].required \in BOOLEAN /\ entity.keys[k].unique \in BOOLEAN
        /\ fields \cap keys = {} /\ (fields \cup keys) \cap Implicit = {}
        /\ entity.indexes \subseteq Seq(fields \cup keys \cup Implicit)

(* What normalization and the schema of the settings leave: organizations  *)
(* and reservations depend on auth.                                        *)
SeedWellFormed(s) ==
    /\ s.rows \in Nat \ {0} /\ s.organizations \in Nat /\ s.auth \in BOOLEAN
    /\ s.organizations > 0 \/ s.reserved \in DOMAIN s.entities => s.auth
    /\ DOMAIN s.entities \subseteq Nat \ {Accounts, Tenants, Memberships, Bookings}
    /\ Described(s.accounts) /\ \A e \in DOMAIN s.entities : Described(s.entities[e])

EntityOf(e) == IF e = Accounts THEN seeded.accounts ELSE seeded.entities[e]

(* The members of an index that the seed leaves NULL.                      *)
LeftOut(entity, name) ==
    \/ /\ name \in DOMAIN entity.fields
       /\ ~entity.fields[name].required /\ ~entity.fields[name].default
    \/ name \in DOMAIN entity.keys /\ ~entity.keys[name].required

AlreadyUnique(entity, name) ==
    \/ name = "id"
    \/ name \in DOMAIN entity.fields /\ entity.fields[name].unique
    \/ name \in DOMAIN entity.keys /\ entity.keys[name].unique

FirstOf(index, S) ==
    {index[i] : i \in {j \in DOMAIN index : index[j] \in S /\ \A k \in 1 .. j - 1 : index[k] \notin S}}

(* Mutant of Driver: the index is thought to take care of itself.          *)
DriverNone(entity, index) == {}

(* What makes a unique index unique: a scalar first, else a foreign key.   *)
Driver(entity, index) ==
    LET scalar == FirstOf(index, DOMAIN entity.fields)
    IN  IF scalar # {} THEN scalar ELSE FirstOf(index, DOMAIN entity.keys)

uniqueDrivers(entity) ==
    LET open == {index \in entity.indexes :
                   ~\E name \in Members(index) : AlreadyUnique(entity, name) \/ LeftOut(entity, name)}
    IN  [names       |-> UNION {Driver(entity, index) : index \in open},
         unsupported |-> {index \in open : Members(index) \subseteq Implicit}]

UniqueField(entity, f) == entity.fields[f].unique \/ f \in uniqueDrivers(entity).names
UniqueKey(entity, k)   == entity.keys[k].unique \/ k \in uniqueDrivers(entity).names

seededFields(entity) ==
    {f \in DOMAIN entity.fields : \/ entity.fields[f].required /\ ~entity.fields[f].default
                                  \/ UniqueField(entity, f)}

RequiredKeys(entity) == {k \in DOMAIN entity.keys : entity.keys[k].required}

Scoped(entity) == entity.tenant /\ seeded.organizations > 0

seededUserCount == IF seeded.organizations = 0 THEN 3 ELSE seeded.organizations * 2

desiredEntityRows(entity) ==
    IF Scoped(entity) THEN seeded.rows * seeded.organizations ELSE seeded.rows

(* The rows of a finished block; only entities in "there" have one.        *)
relationCapacity(target, there) ==
    CASE seeded.auth /\ target = Accounts -> seededUserCount
      [] seeded.organizations > 0 /\ target = Tenants -> seeded.organizations
      [] OTHER -> IF target \in there THEN desiredEntityRows(seeded.entities[target]) ELSE 0

(* A field of limited values that must be unique has too few of them.      *)
TooFewValues(entity, rows) ==
    \E f \in seededFields(entity) : /\ UniqueField(entity, f)
                                    /\ entity.fields[f].kind # "open"
                                    /\ entity.fields[f].values < rows

unseedableReason(e, seedable) ==
    LET entity == seeded.entities[e]
        rows   == desiredEntityRows(entity)
    IN  \/ \E k \in RequiredKeys(entity) : entity.keys[k].target = e
        \/ uniqueDrivers(entity).unsupported # {}
        \/ TooFewValues(entity, rows)
        \/ \E k \in RequiredKeys(entity) :
              UniqueKey(entity, k) /\ relationCapacity(entity.keys[k].target, seedable) < rows

External == (IF seeded.auth THEN {Accounts} ELSE {})
            \cup (IF seeded.organizations > 0 THEN {Tenants} ELSE {})

NeedsMissing(e, seedable) ==
    \E k \in RequiredKeys(seeded.entities[e]) :
       seeded.entities[e].keys[k].target \notin seedable \cup External

(* orderEntities: what cannot be seeded is dropped until nothing changes.  *)
Excluded == {e \in plan.seedable : unseedableReason(e, plan.seedable) \/ NeedsMissing(e, plan.seedable)}

(* Then parents come before children, each round in the order of names;    *)
(* what is left is in a cycle or behind one.                               *)
Remaining == plan.seedable \ Members(plan.order)

Owners(e) == {seeded.entities[e].keys[k].target : k \in RequiredKeys(seeded.entities[e])}

Ready == {e \in Remaining : Owners(e) \cap Remaining = {}}

authSeedUnsupportedReason ==
    /\ seeded.auth
    /\ \/ RequiredKeys(seeded.accounts) # {}
       \/ uniqueDrivers(seeded.accounts).unsupported # {}
       \/ TooFewValues(seeded.accounts, seededUserCount)

-----------------------------------------------------------------------------
(* The blocks of the program in their order, and the rows each upserts.    *)
Blocks ==
    (IF seeded.auth THEN <<Accounts>> ELSE <<>>)
    \o (IF seeded.organizations > 0 THEN <<Tenants>> ELSE <<>>)
    \o plan.order
    \o (IF seeded.reserved \in Members(plan.order) THEN <<Bookings>> ELSE <<>>)

SeedRow(e, ordinal, values) == [entity |-> e, ordinal |-> ordinal, values |-> values]

(* Values count from 0; a unique one goes by the row's ordinal, any other  *)
(* by its index within the organization, and a closed set wraps around.    *)
valueExpression(field, unique, index, ordinal) ==
    LET counter == IF unique THEN ordinal - 1 ELSE index
    IN  IF field.kind = "wrapped" \/ (field.kind = "ranged" /\ ~unique)
        THEN counter % field.values ELSE counter

foreignKeyExpression(entity, k, org, index, ordinal) ==
    LET target == entity.keys[k].target
        turn   == IF UniqueKey(entity, k) THEN ordinal - 1 ELSE index
    IN  CASE target = Accounts ->
               <<Accounts, IF Scoped(entity) THEN 2 * (org - 1) + (index % 2) + 1
                           ELSE (turn % seededUserCount) + 1>>
          [] target = Tenants ->
               <<Tenants, IF Scoped(entity) THEN org ELSE (turn % seeded.organizations) + 1>>
          [] OTHER ->
               LET parent == seeded.entities[target]
               IN  <<target, IF Scoped(entity) /\ Scoped(parent)
                             THEN seeded.rows * (org - 1) + (index % seeded.rows) + 1
                             ELSE (turn % desiredEntityRows(parent)) + 1>>

SeededColumns(entity, org, index, ordinal) ==
    [name \in seededFields(entity) \cup RequiredKeys(entity) |->
       IF name \in DOMAIN entity.fields
       THEN valueExpression(entity.fields[name], UniqueField(entity, name), index, ordinal)
       ELSE foreignKeyExpression(entity, name, org, index, ordinal)]

entityRow(e, ordinal) ==
    SeededColumns(seeded.entities[e], ((ordinal - 1) \div seeded.rows) + 1, (ordinal - 1) % seeded.rows, ordinal)

userRow(ordinal) == SeededColumns(seeded.accounts, 0, ordinal - 1, ordinal)

(* The owner of an organization and its other member.                      *)
membershipRow(ordinal) ==
    [organizationId |-> <<Tenants, ((ordinal - 1) \div 2) + 1>>, userId |-> <<Accounts, ordinal>>]

(* Two reservations of the first row of the resource, in each organization *)
(* if there are any; the rows of the resource are then looked up by their  *)
(* organization, which only a scoped entity keeps.                         *)
ResourceIsListed == seeded.organizations = 0 \/ Scoped(seeded.entities[seeded.reserved])

reservationRow(ordinal) ==
    LET org == ((ordinal - 1) \div 2) + 1
    IN  [resourceId |-> <<seeded.reserved, IF seeded.organizations = 0 THEN 1 ELSE seeded.rows * (org - 1) + 1>>,
         ownerId    |-> <<Accounts, IF seeded.organizations = 0 THEN 1 ELSE 2 * org>>,
         startsAt   |-> ordinal % 2]

RowOf(e, ordinal) ==
    SeedRow(e, ordinal, CASE e = Accounts    -> userRow(ordinal)
                          [] e = Tenants     -> <<>>
                          [] e = Memberships -> membershipRow(ordinal)
                          [] e = Bookings    -> reservationRow(ordinal)
                          [] OTHER           -> entityRow(e, ordinal))

RowCount(block) ==
    CASE block = Accounts -> seededUserCount
      [] block = Tenants  -> 3 * seeded.organizations
      [] block = Bookings -> 2 * (IF seeded.organizations = 0 THEN 1 ELSE seeded.organizations)
      [] OTHER            -> desiredEntityRows(seeded.entities[block])

(* The i-th row a block upserts.  An organization comes before its two     *)
(* memberships.                                                            *)
BlockRow(block, i) ==
    LET org == (i - 1) \div 3
        own == (i - 1) % 3
    IN  IF block # Tenants THEN RowOf(block, i)
        ELSE IF own = 0 THEN RowOf(Tenants, org + 1) ELSE RowOf(Memberships, 2 * org + own)

-----------------------------------------------------------------------------
(* The database.  An index takes any number of rows with a NULL in it.     *)
UniqueOver(e) ==
    CASE e = Memberships  -> {<<"organizationId", "userId">>}
      [] e = Bookings -> {<<"resourceId", "startsAt">>}
      [] e = Tenants        -> {}
      [] OTHER -> EntityOf(e).indexes
                  \cup {<<f>> : f \in {g \in DOMAIN EntityOf(e).fields : EntityOf(e).fields[g].unique}}
                  \cup {<<k>> : k \in {j \in DOMAIN EntityOf(e).keys : EntityOf(e).keys[j].unique}}

(* A default and a time of creation are the same in every row.             *)
Same(row, other, name) ==
    IF name \in DOMAIN row.values THEN row.values[name] = other.values[name]
    ELSE name # "id" /\ ~LeftOut(EntityOf(row.entity), name)

Taken(row, rows) ==
    \E other \in rows : /\ other.entity = row.entity /\ other.ordinal # row.ordinal
                        /\ \E index \in UniqueOver(row.entity) :
                              \A name \in Members(index) : Same(row, other, name)

References(row) == {row.values[k] : k \in
                      CASE row.entity = Memberships  -> {"organizationId", "userId"}
                        [] row.entity = Bookings -> {"resourceId", "ownerId"}
                        [] row.entity = Tenants        -> {}
                        [] OTHER -> RequiredKeys(EntityOf(row.entity))}

InRange(row) ==
    row.entity \in DOMAIN seeded.entities \cup {Accounts} =>
      \A f \in seededFields(EntityOf(row.entity)) :
         LET field == EntityOf(row.entity).fields[f]
         IN  field.kind = "ranged" => row.values[f] < field.values

Takes(rows, row) ==
    /\ ~Taken(row, rows)
    /\ InRange(row)
    /\ \A id \in References(row) : \E r \in rows : <<r.entity, r.ordinal>> = id

-----------------------------------------------------------------------------
SeedInit(Specifications) ==
    /\ seeded \in Specifications
    /\ plan = [seedable |-> DOMAIN seeded.entities, ready |-> {}, order |-> <<>>]
    /\ program = [step |-> "exclude", block |-> 1, runs |-> 0]
    /\ database = {} /\ first = {}

Exclude(e) ==
    /\ program.step = "exclude" /\ e \in Excluded
    /\ plan' = [plan EXCEPT !.seedable = @ \ {e}]
    /\ UNCHANGED <<seeded, program, database, first>>

KeepRest ==
    /\ program.step = "exclude" /\ Excluded = {}
    /\ program' = [program EXCEPT !.step = "order"]
    /\ UNCHANGED <<seeded, plan, database, first>>

StartRound ==
    /\ program.step = "order" /\ plan.ready = {} /\ Ready # {}
    /\ plan' = [plan EXCEPT !.ready = Ready]
    /\ UNCHANGED <<seeded, program, database, first>>

Place(e) ==
    /\ program.step = "order" /\ e \in plan.ready /\ \A other \in plan.ready : e <= other
    /\ plan' = [plan EXCEPT !.ready = @ \ {e}, !.order = Append(@, e)]
    /\ UNCHANGED <<seeded, program, database, first>>

LeaveCycles ==
    /\ program.step = "order" /\ plan.ready = {} /\ Ready = {}
    /\ program' = [program EXCEPT !.step = "plan"]
    /\ UNCHANGED <<seeded, plan, database, first>>

(* renderSeedFile: no program without entities and accounts, or with       *)
(* accounts it cannot make.                                                *)
RenderNothing ==
    /\ program.step = "plan"
    /\ authSeedUnsupportedReason \/ (plan.order = <<>> /\ ~seeded.auth)
    /\ program' = [program EXCEPT !.step = "none"]
    /\ UNCHANGED <<seeded, plan, database, first>>

StartSeed ==
    /\ program.step \in {"plan", "stopped", "done"} /\ program.runs < SeedRuns
    /\ ~authSeedUnsupportedReason /\ (plan.order # <<>> \/ seeded.auth)
    /\ program' = [step |-> "seed", block |-> 1, runs |-> program.runs + 1]
    /\ UNCHANGED <<seeded, plan, database, first>>

(* What is there is left as it is.                                         *)
Upserted(block, n) ==
    {row \in {BlockRow(block, i) : i \in 1 .. n} :
       \A r \in database : r.entity # row.entity \/ r.ordinal # row.ordinal}

(* A block upserts its rows, or as many as it comes to.  What the database *)
(* does not take stops it, and so does a variable that is not declared.    *)
SeedBlock ==
    /\ program.step = "seed" /\ program.block \in DOMAIN Blocks
    /\ LET block == Blocks[program.block]
           rows  == RowCount(block)
       IN  IF block = Bookings /\ ~ResourceIsListed
           THEN program' = [program EXCEPT !.step = "failed"] /\ UNCHANGED database
           ELSE \E n \in {rows} \cup {i \in Interruptions : i < rows} :
                  LET after == database \cup Upserted(block, n)
                  IN  IF \A row \in after \ database : Takes(after, row)
                      THEN /\ database' = after
                           /\ program' = IF n = rows THEN [program EXCEPT !.block = @ + 1]
                                         ELSE [program EXCEPT !.step = "stopped"]
                      ELSE program' = [program EXCEPT !.step = "failed"] /\ UNCHANGED database
    /\ UNCHANGED <<seeded, plan, first>>

FinishSeed ==
    /\ program.step = "seed" /\ program.block \notin DOMAIN Blocks
    /\ program' = [program EXCEPT !.step = "done"]
    /\ first' = IF first = {} THEN database ELSE first
    /\ UNCHANGED <<seeded, plan, database>>

SeedNext ==
    \/ \E e \in plan.seedable : Exclude(e) \/ Place(e)
    \/ KeepRest \/ StartRound \/ LeaveCycles
    \/ RenderNothing \/ StartSeed \/ SeedBlock \/ FinishSeed

SeedSpec(Specifications) == SeedInit(Specifications) /\ [][SeedNext]_seedVars

-----------------------------------------------------------------------------
SeedTypeOK ==
    /\ SeedWellFormed(seeded)
    /\ plan.seedable \subseteq DOMAIN seeded.entities
    /\ plan.ready \cup Members(plan.order) \subseteq plan.seedable
    /\ program.step \in {"exclude", "order", "plan", "none", "seed", "stopped", "failed", "done"}
    /\ program.runs \in 0 .. SeedRuns
    /\ \A r, s \in database : (r.entity = s.entity /\ r.ordinal = s.ordinal) => r = s

(* The database takes every row the seed plans: each references rows that  *)
(* are there, and none has what another has in a unique column or index.   *)
(* Interrupted anywhere and run again, the seed ends with the same rows,   *)
(* as many as it should of each entity it has not excluded.  Only the      *)
(* reservations of a resource that belongs to no organization fail.        *)
SeedLands ==
    /\ program.step = "failed" => Blocks[program.block] = Bookings /\ ~ResourceIsListed
    /\ program.step = "done" =>
         /\ database = first
         /\ \A e \in Members(plan.order) :
               Cardinality({r \in database : r.entity = e}) = desiredEntityRows(seeded.entities[e])
=============================================================================
