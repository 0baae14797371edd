------------------------------ MODULE Endpoints ------------------------------
(***************************************************************************)
(* The endpoints of a generated table, from the call of the generated      *)
(* client to the column and back (features/crud/src/render.ts,             *)
(* features/auth/src/render.ts, targets/nestjs-prisma: client.ts,          *)
(* validation.ts, naming.ts, project.ts), and a reader that walks the      *)
(* pages of its list while others write.                                   *)
(*                                                                         *)
(* The table has one field that may be declared in every way; who may see  *)
(* or touch a row is in Records.  A value is what tells the code apart:    *)
(* two good ones, a date without a time, one of the right JSON type that   *)
(* the declaration excludes, one that passes validation and has no place   *)
(* in the column (NUL in a text, a number beyond the column's, a week date *)
(* that no Date is), one of another JSON type, null, or no value.          *)
(***************************************************************************)
EXTENDS Integers, FiniteSets

CONSTANTS Callers,    \* one call each
          RowIds,     \* the identifiers rows may have, in their order
          SortKeys,   \* what a list is sorted by
          PageSize,   \* pageSize
          MaxPage     \* @Max(1000) of page

ASSUME EndpointAssumption == /\ IsFiniteSet(RowIds) /\ RowIds \subseteq Nat /\ SortKeys \subseteq Nat
                             /\ PageSize \in Nat \ {0} /\ MaxPage \in Nat \ {0}

VARIABLES
    field,     \* the declaration of the field
    table,     \* the rows
    apicall,   \* of each caller: its call, and the answer to it
    walk       \* of the reader: how far it is

endpointVars == <<field, table, apicall, walk>>

Good == {"v1", "v2"}
Values == Good \cup {"day", "outside", "unstorable", "wrong", "null", "absent"}

(* An enum is a type here; date is datetime to all of this code.           *)
FieldTypes == {"string", "text", "uuid", "enum", "integer", "decimal", "boolean", "datetime"}
Declaration(type, access, required, default, unique, soft) ==
    [type |-> type, access |-> access, required |-> required, default |-> default,
     unique |-> unique, soft |-> soft]

TableRow == [state: {"free", "live", "deleted"}, value: STRING, key: SortKeys \cup {0}]
NoTableRow == [state |-> "free", value |-> "-", key |-> 0]

(* raced: between its write and its reading back, another call has changed *)
(* the row.                                                                *)
ApiCall(op, sent, row) == [op |-> op, sent |-> sent, row |-> row, step |-> "new",
                           status |-> "-", shown |-> "-", raced |-> FALSE]
NoApiCall == [ApiCall("-", "absent", 0) EXCEPT !.step = "done"]

(* sort: createdAt stands for every field no update changes, updatedAt for *)
(* every one an update may change.  crossed: a row left the pages already  *)
(* read, by its removal or by an update, or came to them by an update;     *)
(* raced: one was created between the count and the rows of the last page. *)
Walk(by, sort, order, standing) ==
    [step |-> "count", by |-> by, sort |-> sort, order |-> order, page |-> 1, total |-> 0,
     seen |-> {}, standing |-> standing, crossed |-> FALSE, raced |-> FALSE]
NoWalk == [Walk("short", "createdAt", "asc", {}) EXCEPT !.step = "none"]

EndpointInit(fields, rows, calls, walks) ==
    /\ field \in fields
    /\ table \in rows
    /\ apicall \in calls
    /\ walk \in walks

Alive == {r \in RowIds : table[r].state = "live"}
FreeIds == {r \in RowIds : table[r].state = "free"}

-----------------------------------------------------------------------------
(* What the declaration of a field comes to, in the client and in the DTO. *)
Writable(f) == f.access = "open"
Readable(f) == f.access # "internal"
MayOmit(f) == ~f.required \/ f.default

inputFieldType(f) ==
    CASE f.type \in {"integer", "decimal"} -> "number"
      [] f.type = "boolean"                -> "boolean"
      [] OTHER                             -> "string"
outputType(f) ==
    CASE f.type = "integer" -> "number"
      [] f.type = "boolean" -> "boolean"
      [] OTHER              -> "string"

(* What the model value of a field is, and what it is turned into.         *)
modelType(f) ==
    CASE f.type = "integer"  -> "number"
      [] f.type = "decimal"  -> "Decimal"
      [] f.type = "boolean"  -> "boolean"
      [] f.type = "datetime" -> "Date"
      [] OTHER               -> "string"
toResponseValue(f) ==
    IF modelType(f) \in {"Decimal", "Date"} THEN "string" ELSE modelType(f)

FilteredTypes == {"string", "uuid", "boolean", "integer", "enum"}
clientFilters(f) == Writable(f) /\ f.type \in FilteredTypes
filterable(f)    == Writable(f) /\ f.type \in FilteredTypes
clientSorts(f)   == Readable(f) /\ f.type # "text"
sortable(f)      == Readable(f) /\ f.type # "text"

(* class-validator: IsOptional lets null pass as well as nothing.          *)
Validates(optional, sent) ==
    \/ sent \in Good \cup {"day", "unstorable"}
    \/ optional /\ sent \in {"null", "absent"}

(* Mutant of CreateDto: a default does not make a field optional.          *)
CreateDtoDemanding(f, sent) ==
    IF Writable(f) THEN Validates(~f.required, sent) ELSE sent = "absent"

(* The pipe refuses a member its DTO does not have.                        *)
CreateDto(f, sent) ==
    IF Writable(f) THEN Validates(MayOmit(f), sent) ELSE sent = "absent"
UpdateDto(f, sent) ==
    IF Writable(f) THEN Validates(TRUE, sent) ELSE sent = "absent"
RegisterDto(f, sent) ==
    IF Writable(f) THEN Validates(~f.required, sent) ELSE sent = "absent"
QueryDto(f, sent) ==
    IF filterable(f) THEN Validates(TRUE, sent) ELSE sent = "absent"

(* What the types of the client let a caller send.                         *)
OfType(f, sent) ==
    \/ sent \in Good \cup {"unstorable"}
    \/ sent = "day" /\ inputFieldType(f) = "string"
    \/ sent = "outside" /\ f.type # "enum"
CreateInput(f, sent) ==
    IF sent = "absent" THEN ~Writable(f) \/ MayOmit(f) ELSE Writable(f) /\ OfType(f, sent)
UpdateInput(f, sent) == sent = "absent" \/ (Writable(f) /\ OfType(f, sent))
RegisterInput(f, sent) ==
    IF sent = "absent" THEN ~Writable(f) \/ MayOmit(f) ELSE Writable(f) /\ OfType(f, sent)
QueryParams(f, sent) == sent = "absent" \/ (clientFilters(f) /\ OfType(f, sent))

Typed(op, sent) ==
    CASE op = "create"   -> CreateInput(field, sent)
      [] op = "patch"    -> UpdateInput(field, sent)
      [] op = "register" -> RegisterInput(field, sent)
      [] op = "list"     -> QueryParams(field, sent)
      [] op = "sort"     -> clientSorts(field)
      [] OTHER           -> TRUE

-----------------------------------------------------------------------------
(* Mutant of Before: nothing decides between equals.                       *)
BeforeByKey(rows, q, r) ==
    \/ walk.order = "asc" /\ rows[q].key <= rows[r].key
    \/ walk.order = "desc" /\ rows[q].key >= rows[r].key

(* The list in its order; the identifier decides between equals.           *)
Before(rows, q, r) ==
    \/ walk.order = "asc" /\ rows[q].key < rows[r].key
    \/ walk.order = "desc" /\ rows[q].key > rows[r].key
    \/ rows[q].key = rows[r].key /\ q < r
orderBy ==
    {list \in [1 .. Cardinality(Alive) -> Alive] :
       \A i, j \in DOMAIN list : i < j => list[i] # list[j] /\ Before(table, list[i], list[j])}
Ahead(rows, r) == {q \in Alive : q # r /\ Before(rows, q, r)}

(* Does the row stand on a page the reader has read?                       *)
WasPaged(rows, r) == Cardinality(Ahead(rows, r)) < (walk.page - 1) * PageSize

-----------------------------------------------------------------------------
(* What the service makes of a value, and what the column then has.  The   *)
(* column takes a Date, or a text with a time in it.                       *)
toPrismaValue(sent) == IF field.type = "datetime" /\ sent = "null" THEN "epoch" ELSE sent
Raw(sent) == IF field.type = "datetime" /\ sent = "day" THEN "unstorable" ELSE sent

Fits(value) == value # "unstorable" /\ (value = "null" => ~field.required)
Column(value, before) == IF value = "absent" THEN before ELSE value
Initially == IF field.default THEN "default" ELSE "null"
TakenBy(value) == {r \in RowIds : field.unique /\ table[r].value = value /\ value \in Good}

(* The exception filter: what no case names is an internal error.          *)
Answers200(c, shown) ==
    apicall' = [apicall EXCEPT ![c].step = "done", ![c].status = "ok", ![c].shown = shown]
Refuses(c, status) ==
    /\ apicall' = [apicall EXCEPT ![c].step = "done", ![c].status = status]
    /\ UNCHANGED <<table, walk>>

Begins(c, op) == apicall[c].op = op /\ apicall[c].step = "new"
Shown(value) == IF Readable(field) THEN value ELSE "-"

(* A row the reader is to see, or that has gone from under it.             *)
WalkGains == walk' = [walk EXCEPT !.raced = @ \/ walk.step = "rows"]

Insert(c, value) ==
    \/ /\ ~Fits(value)
       /\ Refuses(c, "internal")
    \/ /\ Fits(value) /\ TakenBy(value) # {}
       /\ Refuses(c, "conflict")
    \/ /\ Fits(value) /\ TakenBy(value) = {}
       /\ LET kept == Column(value, Initially) IN
          /\ \E r \in FreeIds, k \in SortKeys :
                table' = [table EXCEPT ![r] = [state |-> "live", value |-> kept, key |-> k]]
          /\ Answers200(c, Shown(kept))
       /\ WalkGains

CreateRow(c) ==
    LET sent == apicall[c].sent IN
    /\ Begins(c, "create")
    /\ \/ ~CreateDto(field, sent) /\ Refuses(c, "invalid")
       \/ CreateDto(field, sent) /\ Insert(c, toPrismaValue(sent))

(* The account of a registration: the same table, other conversions.       *)
RegisterRow(c) ==
    LET sent == apicall[c].sent IN
    /\ Begins(c, "register")
    /\ \/ ~RegisterDto(field, sent) /\ Refuses(c, "invalid")
       \/ RegisterDto(field, sent) /\ Insert(c, Raw(sent))

RacesWith(c, r) ==
    [d \in Callers |-> IF d # c /\ apicall[d].step = "written" /\ apicall[d].row = r
                       THEN [apicall[d] EXCEPT !.raced = TRUE] ELSE apicall[d]]

(* An update moves its row in a list that is sorted by what it changes.    *)
NewKeys(r) == IF walk.sort = "createdAt" THEN {table[r].key} ELSE SortKeys

(* updateMany, and then findOne in a statement of its own.                 *)
UpdateRow(c) ==
    LET sent == apicall[c].sent
        r    == apicall[c].row
        value == toPrismaValue(sent)
    IN  /\ Begins(c, "patch")
        /\ \/ ~UpdateDto(field, sent) /\ Refuses(c, "invalid")
           \/ UpdateDto(field, sent) /\ ~Fits(value) /\ Refuses(c, "internal")
           \/ UpdateDto(field, sent) /\ Fits(value) /\ r \notin Alive /\ Refuses(c, "missing")
           \/ /\ UpdateDto(field, sent) /\ Fits(value) /\ r \in Alive
              /\ TakenBy(value) \ {r} # {}
              /\ Refuses(c, "conflict")
           \/ /\ UpdateDto(field, sent) /\ Fits(value) /\ r \in Alive
              /\ TakenBy(value) \subseteq {r}
              /\ \E k \in NewKeys(r) :
                    LET rows == [table EXCEPT ![r].value = Column(value, @), ![r].key = k] IN
                    /\ table' = rows
                    /\ walk' = [walk EXCEPT !.crossed = @ \/ WasPaged(table, r) # WasPaged(rows, r)]
              /\ apicall' = [RacesWith(c, r) EXCEPT ![c].step = "written"]

FindOne(c) ==
    LET r == apicall[c].row IN
    /\ apicall[c].step = "written" \/ Begins(c, "get")
    /\ \/ /\ r \in Alive
          /\ Answers200(c, Shown(table[r].value))
          /\ UNCHANGED <<table, walk>>
       \/ r \notin Alive /\ Refuses(c, "missing")

-----------------------------------------------------------------------------
FilterRows(c) ==
    LET sent == apicall[c].sent IN
    /\ Begins(c, "list")
    /\ \/ ~QueryDto(field, sent) /\ Refuses(c, "invalid")
       \/ QueryDto(field, sent) /\ sent = "unstorable" /\ Refuses(c, "internal")
       \/ /\ QueryDto(field, sent) /\ sent # "unstorable"
          /\ Answers200(c, "-")
          /\ UNCHANGED <<table, walk>>

SortRows(c) ==
    /\ Begins(c, "sort")
    /\ \/ ~sortable(field) /\ Refuses(c, "invalid")
       \/ sortable(field) /\ Answers200(c, "-") /\ UNCHANGED <<table, walk>>

RemoveRow(c) ==
    LET r == apicall[c].row IN
    /\ Begins(c, "remove")
    /\ \/ r \notin Alive /\ Refuses(c, "missing")
       \/ /\ r \in Alive
          /\ table' = [table EXCEPT ![r] = IF field.soft THEN [@ EXCEPT !.state = "deleted"]
                                           ELSE NoTableRow]
          /\ apicall' = [RacesWith(c, r) EXCEPT ![c].step = "done", ![c].status = "ok"]
          /\ walk' = [walk EXCEPT !.standing = @ \ {r}, !.crossed = @ \/ WasPaged(table, r)]

(* A page is a count and a select, each of which sees what is committed    *)
(* when it starts.  The reader asks for the next one as long as pages are  *)
(* full, or as long as totalPages says there are more.                     *)
CountRows ==
    /\ walk.step = "count"
    /\ walk' = [walk EXCEPT !.step = "rows", !.total = Cardinality(Alive), !.raced = FALSE]
    /\ UNCHANGED <<field, table, apicall>>

totalPages == (walk.total + PageSize - 1) \div PageSize

Continues(rows) ==
    \/ walk.by = "short" /\ Cardinality(rows) = PageSize
    \/ walk.by = "total" /\ walk.page < totalPages

FindMany ==
    /\ walk.step = "rows"
    /\ \E list \in orderBy :
          LET last == walk.page * PageSize
              rows == {list[i] : i \in {i \in DOMAIN list : last - PageSize < i /\ i <= last}}
          IN  walk' = [walk EXCEPT
                 !.seen = @ \cup rows,
                 !.step = IF ~Continues(rows) THEN "done"
                          ELSE IF walk.page = MaxPage THEN "refused" ELSE "count",
                 !.page = IF Continues(rows) /\ walk.page < MaxPage THEN @ + 1 ELSE @]
    /\ UNCHANGED <<field, table, apicall>>

Serve(c) == \/ CreateRow(c) \/ RegisterRow(c) \/ UpdateRow(c) \/ FindOne(c)
            \/ FilterRows(c) \/ SortRows(c) \/ RemoveRow(c)

EndpointNext == \/ \E c \in Callers : Serve(c) /\ UNCHANGED field
                \/ CountRows
                \/ FindMany

-----------------------------------------------------------------------------
EndpointTypeOK ==
    /\ field.type \in FieldTypes /\ field.access \in {"open", "readOnly", "internal"}
    /\ \A r \in RowIds : table[r] \in TableRow /\ (table[r].state = "free" => table[r] = NoTableRow)
    /\ \A c \in Callers : /\ apicall[c].sent \in Values
                          /\ apicall[c].step \in {"new", "written", "done"}
                          /\ apicall[c].status \in {"-", "ok", "invalid", "missing", "conflict", "internal"}
    /\ walk.page \in 1 .. MaxPage /\ walk.seen \cup walk.standing \subseteq RowIds

Answered(c) == apicall[c].op # "-" /\ apicall[c].step = "done"

(* An answer that what the client's types admit should not get, unless the *)
(* declaration excludes it: refused as malformed, or an internal error.    *)
Drifts(call) ==
    /\ Typed(call.op, call.sent) /\ call.sent # "outside"
    /\ call.status \in {"invalid", "internal"}

(* "Server and client come from the same IR, so they cannot drift"         *)
(* (client.ts:13-14).  There are three ways in which they do: a            *)
(* registration must have a required field that has a default, and fails   *)
(* at a date that has no time; and a value that passes the validation and  *)
(* does not fit the column, a number beyond it, a NUL or a week date, is   *)
(* an internal error everywhere.                                           *)
Excused(call) ==
    \/ /\ call.op = "register" /\ call.sent = "absent" /\ call.status = "invalid"
       /\ field.required /\ field.default
    \/ /\ call.op = "register" /\ call.sent = "day" /\ call.status = "internal"
       /\ field.type = "datetime"
    \/ call.sent = "unstorable" /\ call.status = "internal"

(* Everything else that the types of the client admit is served.           *)
TypedIsServed == \A c \in Callers : Answered(c) /\ Drifts(apicall[c]) => Excused(apicall[c])

(* What a caller is shown is what it has sent, of the JSON type the client *)
(* declares, unless another call came between; and no required column is   *)
(* without a value.  But null in a date is the beginning of 1970.          *)
AppliedAsSent ==
    /\ toResponseValue(field) = outputType(field)
    /\ \A r \in RowIds : field.required => table[r].value # "null"
    /\ \A c \in Callers : LET call == apicall[c] IN
         /\ Answered(c) /\ call.status = "ok" /\ call.shown # "-"
         /\ call.op \in {"create", "register", "patch"} /\ call.sent # "absent"
         => \/ call.shown = call.sent
            \/ call.raced
            \/ field.type = "datetime" /\ call.sent = "null" /\ call.op # "register"

(* The endpoints do what the generated types, and the calls, say, but for  *)
(* the exceptions above.  client.ts:13-16; render.ts createDto, updateDto, *)
(* queryDto, responseDto.                                                  *)
ContractKept == TypedIsServed /\ AppliedAsSent

(* A reader that walks the pages of a list to a short one misses no row    *)
(* that stood all the time, whoever creates, updates and removes others,   *)
(* unless a row left the pages already read, removed or moved by an update *)
(* of what the list is sorted by, or such an update moved one to them; and *)
(* neither does one that believes totalPages, if moreover no row came      *)
(* between the count and the rows of its last page.  A list sorted by      *)
(* updatedAt, or by a field that may be patched, so loses rows that nobody *)
(* removes.  render.ts findMany, orderBy ("The unique id is always the     *)
(* final sort key").                                                       *)
WalkMissesNothing ==
    walk.step = "done" =>
        \/ walk.standing \subseteq walk.seen
        \/ walk.crossed
        \/ walk.by = "total" /\ walk.raced
=============================================================================
