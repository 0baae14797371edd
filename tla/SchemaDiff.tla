----------------------------- MODULE SchemaDiff -----------------------------
(***************************************************************************)
(* The physical schema and its migrations: what a specification's entities *)
(* become in PostgreSQL (prisma-ddl.ts, naming.ts, schema-snapshot.ts),    *)
(* how two snapshots are compared and the changes ordered                  *)
(* (schema-diff.ts), which changes are refused (generate.ts), and what the *)
(* database makes of the script that is emitted (prisma-ddl-diff.ts).      *)
(*                                                                         *)
(* A history begins with the initial migration.  Then the specification is *)
(* edited and a script generated, which is deployed statement by statement *)
(* in one transaction, again and again (a script that adds values to enums *)
(* has none, and is sent at once, which is one as well).  Tables, and the  *)
(* values of enums, are numbered in the order of their names; a table may  *)
(* have a text field, an enum field and one relation to another table.     *)
(* Rows are not modelled, except that a table that exists may have some.   *)
(***************************************************************************)
EXTENDS Naturals, Sequences, FiniteSets

CONSTANTS Tables,      \* numbers from 1 on
          Titled,      \* those that may have the text field
          Classified,  \* those that may have the enum field
          Referring,   \* those that may have a relation
          Relations,   \* what relations there are: "restrict", "cascade" and
                       \* "unique", a hasOne
          EnumLists    \* the lists of values an enum field may have; <<>> is
                       \* for no such field

ASSUME SchemaAssumption ==
    /\ Tables \subseteq Nat \ {0}
    /\ (Titled \cup Classified \cup Referring) \subseteq Tables
    /\ <<>> \in EnumLists /\ EnumLists \subseteq Seq(Nat)
    /\ \A list \in EnumLists : \A i, j \in DOMAIN list : list[i] = list[j] => i = j

VARIABLES schema,    \* the entities of the last generation, by table
          catalog,   \* what PostgreSQL has
          deployed,  \* "none", "running", or how the last deployment went:
                     \* "yes", "forced" with --allow-destructive, "refused"
          migration  \* the one that runs: [next, order, left, batch, db], of
                     \* each kind the changes that are left, the tables whose
                     \* keys are being added, and the catalog as it sees it

schemaVars == <<schema, catalog, deployed, migration>>

-----------------------------------------------------------------------------
(* The entities of the IR, as far as they concern the tables.              *)
(* title: required without a default, required with one, or optional;      *)
(* listed: there is an index on the relation's key and the title.          *)
Ref   == [to: Tables, how: Relations]
NoRef == [to |-> 0, how |-> "none"]

EntityRow(t) ==
    [title: IF t \in Titled THEN {"none", "required", "defaulted", "optional"}
            ELSE {"none"},
     kind: IF t \in Classified THEN EnumLists ELSE {<<>>},
     ref: IF t \in Referring THEN {r \in Ref : r.to # t} \cup {NoRef} ELSE {NoRef},
     listed: BOOLEAN]

Admissible(s) == \A t \in DOMAIN s :
    /\ s[t].ref = NoRef \/ s[t].ref.to \in DOMAIN s
    /\ s[t].listed => s[t].ref # NoRef /\ s[t].title # "none"

Schemas == LET Rowed == UNION {EntityRow(t) : t \in Tables}
           IN  {s \in UNION {[T -> Rowed] : T \in SUBSET Tables} :
                   Admissible(s) /\ \A t \in DOMAIN s : s[t] \in EntityRow(t)}

(* columnDescriptors.                                                      *)
DescribedColumn(e, name) ==
    CASE name = "id"    -> [type |-> "TEXT", nullable |-> FALSE, default |-> "-"]
      [] name = "title" -> [type |-> "TEXT", nullable |-> e.title = "optional",
                            default |-> IF e.title = "defaulted" THEN "untitled" ELSE "-"]
      [] name = "kind"  -> [type |-> "enum", nullable |-> TRUE, default |-> "-"]
      [] OTHER          -> [type |-> "TEXT", nullable |-> TRUE, default |-> "-"]

ColumnDescriptors(e) ==
    [name \in {"id"} \cup (IF e.title # "none" THEN {"title"} ELSE {})
                     \cup (IF e.kind # <<>> THEN {"kind"} ELSE {})
                     \cup (IF e.ref # NoRef THEN {"ref"} ELSE {}) |-> DescribedColumn(e, name)]

(* derivedIndexes: a key that is not unique gets an index, unless another  *)
(* begins with it.                                                         *)
IndexDescriptors(e) ==
    (IF e.listed THEN {[columns |-> <<"ref", "title">>, unique |-> FALSE]} ELSE {})
    \cup (IF e.ref.how = "unique" THEN {[columns |-> <<"ref">>, unique |-> TRUE]}
          ELSE IF e.ref # NoRef /\ ~e.listed THEN {[columns |-> <<"ref">>, unique |-> FALSE]}
          ELSE {})

ForeignKeyDescriptors(e) ==
    IF e.ref = NoRef THEN {}
    ELSE {[name |-> "ref", target |-> e.ref.to,
           onDelete |-> CASE e.ref.how = "restrict" -> "RESTRICT"
                          [] e.ref.how = "cascade"  -> "CASCADE"
                          [] OTHER -> "SET NULL"]}

(* buildSchemaSnapshot.  The name of an enum is made of those of its table *)
(* and field, that of an index of its table, columns and uniqueness.       *)
Snapshot(s) ==
    [tables  |-> [t \in DOMAIN s |-> ColumnDescriptors(s[t])],
     enums   |-> [t \in {u \in DOMAIN s : s[u].kind # <<>>} |-> s[t].kind],
     indexes |-> UNION {{[table |-> t, index |-> i] : i \in IndexDescriptors(s[t])} : t \in DOMAIN s},
     keys    |-> UNION {{[table |-> t, key |-> k] : k \in ForeignKeyDescriptors(s[t])} : t \in DOMAIN s}]

NoSchema == [t \in {} |-> NoRef]

Snapshots == [s \in Schemas |-> Snapshot(s)]

-----------------------------------------------------------------------------
(* diffSchemas: the changes of each kind.                                  *)
Common(p, n) == DOMAIN p.tables \cap DOMAIN n.tables
ColumnsOf(x, t) == DOMAIN x.tables[t]

(* Columns of both snapshots that differ in one of their attributes.       *)
Altered(p, n, attribute) ==
    UNION {{[table |-> t, column |-> c, to |-> n.tables[t][c][attribute]] :
              c \in {d \in ColumnsOf(p, t) \cap ColumnsOf(n, t) :
                       p.tables[t][d][attribute] # n.tables[t][d][attribute]}} : t \in Common(p, n)}

(* diffEnumValues: only values at the end are added.                       *)
Extended(p, n, t) ==
    /\ Len(p.enums[t]) <= Len(n.enums[t])
    /\ \A i \in 1 .. Len(p.enums[t]) : p.enums[t][i] = n.enums[t][i]
Swapped(p, n) == {t \in DOMAIN p.enums \cap DOMAIN n.enums : ~Extended(p, n, t)}

(* A key with the same name and all else the same: any other one of that   *)
(* name is dropped and added anew.                                         *)
SameKey(j, k) == j.table = k.table /\ j.key = k.key
Recreated(p, k) == \E j \in p.keys : j.table = k.table /\ j.key.name = k.key.name

Changes(p, n, kind) ==
    CASE kind = "drop-foreign-key" ->
           {j \in p.keys : j.table \in DOMAIN n.tables /\ ~\E k \in n.keys : SameKey(j, k)}
      [] kind = "drop-index" -> {i \in p.indexes \ n.indexes : i.table \in DOMAIN n.tables}
      [] kind = "drop-column" ->
           UNION {{[table |-> t, column |-> c] : c \in ColumnsOf(p, t) \ ColumnsOf(n, t)} : t \in Common(p, n)}
      [] kind = "drop-table" -> {[table |-> t] : t \in DOMAIN p.tables \ DOMAIN n.tables}
      [] kind = "drop-enum" -> {[table |-> t] : t \in (DOMAIN p.enums \ DOMAIN n.enums) \cup Swapped(p, n)}
      [] kind = "create-enum" -> {[table |-> t] : t \in (DOMAIN n.enums \ DOMAIN p.enums) \cup Swapped(p, n)}
      [] kind = "create-table" -> {[table |-> t] : t \in DOMAIN n.tables \ DOMAIN p.tables}
      [] kind = "alter-column-type" -> Altered(p, n, "type")
      [] kind = "alter-column-nullability" -> Altered(p, n, "nullable")
      [] kind = "alter-column-default" -> Altered(p, n, "default")
      [] kind = "add-column" ->
           UNION {{[table |-> t, column |-> c] : c \in ColumnsOf(n, t) \ ColumnsOf(p, t)} : t \in Common(p, n)}
      [] kind = "add-index" -> n.indexes \ p.indexes
      [] kind = "add-foreign-key" ->
           {k \in n.keys : ~\E j \in p.keys : SameKey(j, k)}
      [] kind = "add-enum-value" ->
           UNION {{[table |-> t, at |-> i] : i \in Len(p.enums[t]) + 1 .. Len(n.enums[t])} :
                     t \in {u \in DOMAIN p.enums \cap DOMAIN n.enums : Extended(p, n, u)}}

(* Mutant of KindOrder: a column is dropped before its indexes.            *)
KindOrderColumnsFirst ==
    <<"drop-foreign-key", "drop-column", "drop-index", "drop-table", "drop-enum", "create-enum",
      "create-table", "alter-column-type", "alter-column-nullability", "alter-column-default",
      "add-column", "add-index", "add-foreign-key", "add-enum-value">>

(* KIND_ORDER.                                                             *)
KindOrder ==
    <<"drop-foreign-key", "drop-index", "drop-column", "drop-table", "drop-enum", "create-enum",
      "create-table", "alter-column-type", "alter-column-nullability", "alter-column-default",
      "add-column", "add-index", "add-foreign-key", "add-enum-value">>

ChangeKinds == {KindOrder[i] : i \in DOMAIN KindOrder}

(* renderInitialMigration: enums, tables, indexes, keys.                   *)
InitialOrder == <<"create-enum", "create-table", "add-index", "add-foreign-key">>

-----------------------------------------------------------------------------
(* What generate.ts refuses to emit: what needs a backfill, a cast or a    *)
(* review, and enum values together with anything else; and what it emits  *)
(* with --allow-destructive only.                                          *)
Fillable(column) == column.nullable \/ column.default # "-"

NeedsReview(n, kind, c) ==
    \/ kind \in {"alter-column-type", "drop-enum"}
    \/ kind = "alter-column-nullability" /\ ~c.to
    \/ kind = "add-column" /\ ~Fillable(n.tables[c.table][c.column])

Emitted(p, n) ==
    /\ \A kind \in ChangeKinds : \A c \in Changes(p, n, kind) : ~NeedsReview(n, kind, c)
    /\ \/ Changes(p, n, "add-enum-value") = {}
       \/ \A kind \in ChangeKinds \ {"add-enum-value"} : Changes(p, n, kind) = {}

(* changeSafety.                                                           *)
DestructiveChange(p, n) ==
    \/ \E kind \in {"drop-table", "drop-column", "alter-column-type"} : Changes(p, n, kind) # {}
    \/ \E k \in Changes(p, n, "add-foreign-key") : Recreated(p, k) /\ k.key.onDelete = "CASCADE"

-----------------------------------------------------------------------------
(* PostgreSQL: does it accept the statement for a change, and what is the  *)
(* catalog then?  A column or a table takes its indexes and keys with it,  *)
(* but a table that another refers to is not dropped; and a table may have *)
(* rows, in which a new column must be filled and an old one may be null.  *)
IndexColumns(i) == {i.index.columns[k] : k \in DOMAIN i.index.columns}
ValuesOf(list)  == {list[i] : i \in DOMAIN list}

Accepts(db, n, kind, c) ==
    LET t == c.table
    IN  CASE kind = "create-table" -> /\ t \notin DOMAIN db.tables
                                      /\ "kind" \in ColumnsOf(n, t) => t \in DOMAIN db.enums
          [] kind = "create-enum" -> t \notin DOMAIN db.enums
          [] kind = "add-enum-value" -> /\ t \in DOMAIN db.enums
                                        /\ n.enums[t][c.at] \notin ValuesOf(db.enums[t])
                                        /\ n.enums[t][c.at - 1] \in ValuesOf(db.enums[t])
          [] OTHER ->
             /\ t \in DOMAIN db.tables
             /\ CASE kind = "drop-table" -> ~\E k \in db.keys : k.table # t /\ k.key.target = t
                  [] kind = "add-column" -> /\ c.column \notin ColumnsOf(db, t)
                                            /\ c.column = "kind" => t \in DOMAIN db.enums
                                            /\ Fillable(n.tables[t][c.column])
                  [] kind = "alter-column-nullability" -> c.column \in ColumnsOf(db, t) /\ c.to
                  [] kind = "add-index" -> IndexColumns(c) \subseteq ColumnsOf(db, t) /\ c \notin db.indexes
                  [] kind = "drop-index" -> c \in db.indexes
                  [] kind = "add-foreign-key" -> /\ "ref" \in ColumnsOf(db, t)
                                                 /\ c.key.target \in DOMAIN db.tables
                                                 /\ ~\E k \in db.keys : k.table = t
                  [] kind = "drop-foreign-key" -> c \in db.keys
                  [] OTHER -> c.column \in ColumnsOf(db, t)

Dropped(f, t) == [x \in DOMAIN f \ {t} |-> f[x]]
Added(f, t, v) == [x \in DOMAIN f \cup {t} |-> IF x = t THEN v ELSE f[x]]

(* ADD VALUE ... AFTER ...                                                 *)
AddedAfter(list, preceding, value) ==
    LET k == CHOOSE i \in DOMAIN list : list[i] = preceding
    IN  [i \in 1 .. Len(list) + 1 |->
           IF i <= k THEN list[i] ELSE IF i = k + 1 THEN value ELSE list[i - 1]]

Applied(db, n, kind, c) ==
    LET t == c.table
    IN  CASE kind = "create-table" -> [db EXCEPT !.tables = Added(@, t, n.tables[t])]
          [] kind = "drop-table" -> [db EXCEPT !.tables = Dropped(@, t),
                                               !.indexes = {i \in @ : i.table # t},
                                               !.keys = {k \in @ : k.table # t}]
          [] kind = "create-enum" -> [db EXCEPT !.enums = Added(@, t, n.enums[t])]
          [] kind = "add-enum-value" ->
               [db EXCEPT !.enums[t] = AddedAfter(@, n.enums[t][c.at - 1], n.enums[t][c.at])]
          [] kind = "add-column" -> [db EXCEPT !.tables[t] = Added(@, c.column, n.tables[t][c.column])]
          [] kind = "drop-column" ->
               [db EXCEPT !.tables[t] = Dropped(@, c.column),
                          !.indexes = {i \in @ : ~(i.table = t /\ c.column \in IndexColumns(i))},
                          !.keys = {k \in @ : ~(k.table = t /\ c.column = "ref")}]
          [] kind = "alter-column-nullability" -> [db EXCEPT !.tables[t][c.column].nullable = c.to]
          [] kind = "alter-column-default" -> [db EXCEPT !.tables[t][c.column].default = c.to]
          [] kind = "add-index" -> [db EXCEPT !.indexes = @ \cup {c}]
          [] kind = "drop-index" -> [db EXCEPT !.indexes = @ \ {c}]
          [] kind = "add-foreign-key" -> [db EXCEPT !.keys = @ \cup {c}]
          [] kind = "drop-foreign-key" -> [db EXCEPT !.keys = @ \ {c}]

-----------------------------------------------------------------------------
NoMigration ==
    [next |-> NoSchema, order |-> <<>>, batch |-> {}, db |-> Snapshots[NoSchema],
     left |-> [kind \in ChangeKinds |-> {}]]

SchemaInit ==
    /\ schema = NoSchema /\ catalog = Snapshots[NoSchema]
    /\ deployed = "none" /\ migration = NoMigration

Deploy(next, order) ==
    /\ deployed' = "running"
    /\ migration' =
         [next |-> next, order |-> order, batch |-> {}, db |-> catalog,
          left |-> [kind \in ChangeKinds |-> Changes(Snapshots[schema], Snapshots[next], kind)]]
    /\ UNCHANGED <<schema, catalog>>

InitialMigration == deployed = "none" /\ \E next \in Schemas : Deploy(next, InitialOrder)

(* An edit, and a generation, with the flag if it asks for it.             *)
IncrementalMigration ==
    /\ deployed \in {"yes", "forced"}
    /\ \E next \in Schemas \ {schema} :
         Emitted(Snapshots[schema], Snapshots[next]) /\ Deploy(next, KindOrder)

(* orderForeignKeyAdds: a table's keys come after those of the tables they *)
(* refer to, batch by batch, and all at once in a cycle.  What else there  *)
(* is comes by table.                                                      *)
Batch(kind, left) ==
    LET tables == {c.table : c \in left}
        ready  == {t \in tables : \A c \in left : c.table = t => c.key.target \notin tables \ {t}}
    IN  IF kind # "add-foreign-key" \/ migration.order # KindOrder THEN tables
        ELSE IF migration.batch \cap tables # {} THEN migration.batch
        ELSE IF ready # {} THEN ready ELSE tables

(* secondaryKey: by table, and the values of an enum by their names; what  *)
(* other order there is within a table is none of the database's business. *)
Precedes(kind, c, d) ==
    LET value(e) == Snapshots[migration.next].enums[e.table][e.at]
    IN  \/ c.table < d.table
        \/ c.table = d.table /\ kind = "add-enum-value" /\ value(c) < value(d)

IsDue(kind, c) ==
    LET order == migration.order
        left  == migration.left
        batch == Batch(kind, left[kind])
    IN  /\ deployed = "running"
        /\ \E i \in DOMAIN order : order[i] = kind /\ \A j \in 1 .. i - 1 : left[order[j]] = {}
        /\ c.table \in batch
        /\ \A d \in left[kind] : d.table \in batch => ~Precedes(kind, d, c)

RunStatement(kind, c) ==
    /\ IsDue(kind, c)
    /\ Accepts(migration.db, Snapshots[migration.next], kind, c)
    /\ migration' = [migration EXCEPT
         !.db    = Applied(@, Snapshots[migration.next], kind, c),
         !.left[kind] = @ \ {c},
         !.batch = IF kind = "add-foreign-key" THEN Batch(kind, migration.left[kind]) ELSE {}]
    /\ UNCHANGED <<schema, catalog, deployed>>

RollBack(kind, c) ==
    /\ IsDue(kind, c)
    /\ ~Accepts(migration.db, Snapshots[migration.next], kind, c)
    /\ schema' = migration.next /\ deployed' = "refused" /\ migration' = NoMigration
    /\ UNCHANGED catalog

CommitMigration ==
    /\ deployed = "running" /\ \A i \in DOMAIN migration.order : migration.left[migration.order[i]] = {}
    /\ schema' = migration.next /\ catalog' = migration.db /\ migration' = NoMigration
    /\ deployed' = IF DestructiveChange(Snapshots[schema], Snapshots[migration.next])
                   THEN "forced" ELSE "yes"

SchemaNext ==
    \/ InitialMigration \/ IncrementalMigration
    \/ \E kind \in ChangeKinds : \E c \in migration.left[kind] :
          RunStatement(kind, c) \/ RollBack(kind, c)
    \/ CommitMigration

SchemaSpec == SchemaInit /\ [][SchemaNext]_schemaVars

-----------------------------------------------------------------------------
SchemaTypeOK == /\ schema \in Schemas
                /\ catalog.enums \in UNION {[T -> EnumLists \ {<<>>}] : T \in SUBSET Tables}
                /\ deployed \in {"none", "running", "yes", "forced", "refused"}
                /\ deployed = "running" => migration.next \in Schemas

(* Of the tables that go, does one refer to another that goes before it?   *)
DropsRelated(s, n) ==
    \E t, u \in DOMAIN s \ DOMAIN n : t < u /\ s[u].ref.to = t

(* Is a value added to an enum after one that comes later in the alphabet? *)
AddsOutOfOrder(s, n) ==
    \E t \in DOMAIN s \cap DOMAIN n : \E i, j \in Len(s[t].kind) + 1 .. Len(n[t].kind) :
       i < j /\ n[t].kind[j] < n[t].kind[i]

(* Every migration that is emitted is accepted by PostgreSQL and leaves    *)
(* the database as the snapshot of the specification describes it, from    *)
(* the first through any sequence of edits, and with all of its columns    *)
(* and no new cascade unless the flag was given; but for tables dropped    *)
(* together before the ones that refer to them, and values of an enum that *)
(* are not added in the order of the alphabet.  A table may have rows, so  *)
(* that a new column has to be nullable or to have a default; whether the  *)
(* rows there are allow a unique index, or a key that now refers to        *)
(* another table, is not asked.  schema-diff.ts diffSchemas, changeSafety, *)
(* schema-snapshot.ts ("mirrors exactly what renderInitialMigration would  *)
(* write").                                                                *)
MigrationArrives ==
    [][deployed = "running" /\ deployed' # "running" =>
         IF deployed' = "refused"
         THEN DropsRelated(schema, schema') \/ AddsOutOfOrder(schema, schema')
         ELSE /\ catalog' = Snapshots[schema']
              /\ deployed' = "yes" =>
                   /\ \A t \in DOMAIN catalog.tables :
                        t \in DOMAIN catalog'.tables /\ ColumnsOf(catalog, t) \subseteq ColumnsOf(catalog', t)
                   /\ \A j \in catalog.keys, k \in catalog'.keys :
                        j.table = k.table /\ k.key.onDelete = "CASCADE" => j.key.onDelete = "CASCADE"
      ]_schemaVars
=============================================================================
