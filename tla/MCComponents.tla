----------------------------- MODULE MCComponents -----------------------------
(***************************************************************************)
(* The scenes of the parts: how many of what each begins with.  A part     *)
(* that is not in focus has nothing to do.                                 *)
(***************************************************************************)
EXTENDS Components, TLC

(* Specifications and registries for the compiler: one entity and three    *)
(* packs that depend on each other in every way;                           *)
Brings(creates, patches, fields, relations, softDelete, rendered) ==
    [creates |-> creates, patches |-> patches, fields |-> fields,
     relations |-> relations, softDelete |-> softDelete, files |-> rendered]
File1(p, contents) == [path |-> p, contents |-> contents]
Alone(p) == Brings(0, 0, {}, <<>>, FALSE, {File1(p, p)})

f == Plain("f")
x == Plain("x")
y == Plain("y")
To(name, type, target) == Relation(name, type, target, "unset", "unset")

Registry(packs, needs, conflict, unfit) ==
    [packs |-> packs, dependsOn |-> needs, unfit |-> unfit,
     conflictsWith |-> [p \in Packs |-> IF p = 1 /\ conflict THEN {3} ELSE {}]]
Independent == Registry(Packs, [p \in Packs |-> {}], FALSE, {})

PackScenes ==
    {[spec |-> [e \in {1} |-> Entity({f}, <<>>, {})], requested |-> requested,
      registry |-> Registry(packs, needs, conflict, unfit), contributes |-> [p \in Packs |-> Alone(p)]] :
       packs \in {Packs, {1, 2}}, conflict \in BOOLEAN, unfit \in {{}, {2}}, requested \in SUBSET Packs,
       needs \in {(1 :> a @@ 2 :> b @@ 3 :> c) : a \in SUBSET Packs, b \in SUBSET {1, 3}, c \in SUBSET {2}}}
    \cup
    {[spec |-> [e \in {1} |-> Entity({f}, <<>>, {})], requested |-> {1, 3}, registry |-> Independent,
      contributes |-> [p \in Packs |-> [Alone(p) EXCEPT !.files = @ \cup {File1(9, IF p = 1 THEN 1 ELSE other)}]]] :
       other \in {1, 2}}

(* two entities with every pair of relations, or one with every option,    *)
(* and names that get in the way;                                          *)
Types == {"belongsTo", "hasOne", "hasMany", "manyToMany"}
Pairs == {<<To(x, t, 2), To(n, u, v)>> : t \in Types, n \in {x, y}, u \in Types, v \in {1, 2}}
Singles == {<<Relation(x, t, v, r, d)>> : t \in Types, v \in {2, 3}, r \in {"unset", "yes", "no"},
                                          d \in {"unset", "setNull", "cascade"}}
Partners == {<<>>} \cup {<<To(n, "belongsTo", 1)>> : n \in {Single(1), Via(Single(1), y)}}
(* Enums of a table: one value, one more, and one out of the alphabet.     *)
EnumLists1 == {<<>>, <<2>>, <<2, 3>>, <<2, 3, 1>>}

Names1 == <<Single(1), Via(Single(1), y), x, y>>

EntityScenes ==
    {[spec |-> (1 :> Entity({f}, relations, {}) @@ 2 :> Entity(fields, partner, index)),
      registry |-> Independent, requested |-> {}, contributes |-> [p \in Packs |-> Alone(p)]] :
       relations \in Pairs \cup Singles, fields \in {{}, {Single(1)}, {Collection(1), Key(x)}},
       partner \in Partners, index \in {{Key(Single(1))}, {Key(x)}, {Key(Via(Single(1), y))}}}

(* and a pack that creates an entity and one that extends another.         *)
ContributionScenes ==
    {[spec |-> (1 :> Entity({f}, <<To(x, "hasMany", 2)>>, {}) @@ 2 :> Entity({}, <<>>, index)),
      registry |-> Independent, requested |-> {1, 2},
      contributes |-> [p \in Packs |->
         CASE p = 1 -> Brings(created, 0, {}, <<>>, FALSE, {})
           [] p = 2 -> Brings(again, patched, fields, relations, softDelete, {})
           [] OTHER -> Alone(p)]] :
       created \in {0, 2, 3}, again \in {0, 3}, patched \in {0, 1, 3},
       fields \in {{}, {f}, {Plain("deletedAt")}},
       relations \in {<<>>, <<Relation(x, "belongsTo", 2, "yes", "unset")>>, <<To(y, "hasMany", 2)>>},
       softDelete \in BOOLEAN, index \in {{}, {Key(Via(Single(1), y))}}}

(* Entities for the seed: the first in many ways, the second as a partner. *)
None == [n \in {} |-> 0]
Thing(tenant, fields, keys, indexes) ==
    [tenant |-> tenant, fields |-> fields, indexes |-> indexes,
     keys |-> keys @@ IF tenant THEN "organizationId" :> ForeignKey(Tenants, TRUE, FALSE) ELSE None]

SeedFields == {None} \cup {"f" :> Field(TRUE, FALSE, FALSE, "open", 2), "f" :> Field(TRUE, FALSE, TRUE, "wrapped", 2),
                           "f" :> Field(FALSE, TRUE, FALSE, "ranged", 2), "f" :> Field(FALSE, FALSE, FALSE, "open", 2)}
SeedKeys == {None} \cup {"r" :> ForeignKey(t, TRUE, u) : t \in {2, Accounts, Tenants}, u \in BOOLEAN}
                   \cup {"r" :> ForeignKey(1, TRUE, FALSE), "r" :> ForeignKey(2, FALSE, TRUE)}
SeedIndexes == {{}, {<<"r">>}, {<<"r", "f">>}, {<<"organizationId", "r">>}, {<<"createdAt">>}}

Firsts == {t \in {Thing(s, fields, keys, i) : s \in BOOLEAN, fields \in SeedFields, keys \in SeedKeys, i \in SeedIndexes} :
             \A i \in t.indexes : Members(i) \subseteq Implicit \cup DOMAIN t.fields \cup DOMAIN t.keys}
Seconds == {Thing(s, None, keys, {}) : s \in BOOLEAN, keys \in {None, "r" :> ForeignKey(1, TRUE, FALSE)}}
User(fields, indexes) == Thing(FALSE, fields, None, indexes)

SeedScenes ==
    {[rows |-> 2, organizations |-> 2, auth |-> TRUE, accounts |-> User(None, {}),
      entities |-> <<a, b>>, reserved |-> 2] : a \in Firsts, b \in Seconds}
    \cup
    {[rows |-> 3, organizations |-> 0, auth |-> FALSE, accounts |-> User(None, {}),
      entities |-> <<Thing(FALSE, fields, keys, i), Thing(FALSE, None, None, {})>>, reserved |-> 0] :
        fields \in SeedFields \ {None}, keys \in {"r" :> ForeignKey(2, TRUE, u) : u \in BOOLEAN},
        i \in {{}, {<<"f", "r">>}}}
    \cup
    {[rows |-> 2, organizations |-> 0, auth |-> TRUE, accounts |-> User(fields, i),
      entities |-> <<Thing(FALSE, None, None, {})>>, reserved |-> 1] :
        fields \in SeedFields \ {None}, i \in {{}, {<<"f">>}, {<<"createdAt">>}}}

(* Fields declared in every way, and every call with every value for them; *)
Possible(d) ==
    Good \cup {"null", "absent", "wrong"} \cup
    CASE d.type \in {"string", "text", "integer", "decimal"} -> {"outside", "unstorable"}
      [] d.type = "datetime" -> {"outside", "unstorable", "day"}
      [] d.type \in {"uuid", "enum"} -> {"outside"}
      [] OTHER -> {}
Queried(d) == Possible(d) \ (IF d.type \in {"string", "text"} THEN {"null", "wrong"} ELSE {"null"})

OnlyCall(call) == {[c \in Callers |-> IF c = "c1" THEN call ELSE NoApiCall]}
Standing(ids, keys) == [r \in RowIds |-> IF r \in ids THEN [state |-> "live", value |-> "v1", key |-> keys[r]]
                                         ELSE NoTableRow]
OneRow == {Standing({1}, [r \in RowIds |-> 1])}

Declarations == {d \in [type: FieldTypes, access: {"open", "readOnly", "internal"}, required: BOOLEAN,
                        default: BOOLEAN, unique: {FALSE}, soft: {FALSE}] : Writable(d) \/ MayOmit(d)}
CallsFor(d) ==
    {ApiCall(op, sent, 1) : op \in {"create", "register", "patch"}, sent \in Possible(d)}
    \cup {ApiCall("list", sent, 0) : sent \in Queried(d)}
    \cup {ApiCall(op, "absent", 1) : op \in {"get", "remove", "sort"}}

(* two calls on one row with a text; a list of three rows and its reader,  *)
(* while two callers create, update and remove.                            *)
Texts == [type: {"string"}, access: {"open"}, required: BOOLEAN, default: {FALSE},
          unique: BOOLEAN, soft: BOOLEAN]
CallsAtOnce == {ApiCall(op, sent, 1) : op \in {"create", "register", "patch"}, sent \in Good \cup {"null"}}
               \cup {ApiCall(op, "absent", 1) : op \in {"get", "remove"}}
Ordinary == Declaration("integer", "open", FALSE, FALSE, FALSE, FALSE)
Turnover == {ApiCall("create", "v1", 0)}
            \cup {ApiCall(op, "absent", r) : op \in {"patch", "remove"}, r \in RowIds}

EndpointScene ==
    IF focus # "endpoints" THEN EndpointInit({Ordinary}, OneRow, OnlyCall(NoApiCall), {NoWalk})
    ELSE \/ \E d \in Declarations : \E call \in CallsFor(d) :
               EndpointInit({d}, OneRow, OnlyCall(call), {NoWalk})
         \/ EndpointInit(Texts, OneRow, [Callers -> CallsAtOnce], {NoWalk})
         \/ \E ids \in {{1, 2, 3}, {2, 3, 4}} :
               EndpointInit({Ordinary}, {Standing(ids, keys) : keys \in {k \in [RowIds -> SortKeys] : k[2] = 1}},
                            [Callers -> Turnover],
                            {Walk(by, sort, order, ids) : by \in {"short", "total"},
                               sort \in {"createdAt", "updatedAt"}, order \in {"asc", "desc"}})

(* Schedules in every form, which nobody runs; and two at the end of a     *)
(* month, with instances that are up or not.                               *)
Exactly(v) == Listed({<<v, v>>})
EachTime == [p \in Positions |-> Always]
Last31st == [minute |-> 59, hour |-> 23, day |-> 31, month |-> 1, weekday |-> 6]
Last28th == [minute |-> 59, hour |-> 23, day |-> 28, month |-> 2, weekday |-> 5]
Forms(p) ==
    {Every(n) : n \in {0, 1, 2, Highest[p] - 1, Highest[p], Highest[p] + 1}}
    \cup {Listed({<<a, b>>}) : a \in {Lowest[p], Lowest[p] + 1, Highest[p]},
                               b \in {Lowest[p], Highest[p] - 1, Highest[p], Highest[p] + 1}}
    \cup {Listed({<<Lowest[p], Lowest[p]>>, <<Highest[p] - 1, Highest[p]>>})}
Schedules ==
    {<<[EachTime EXCEPT ![p] = form]>> : p \in Positions, form \in UNION {Forms(q) : q \in Positions}}
    \cup {<<[EachTime EXCEPT !.day = d, !.month = m, !.weekday = w]>> :
            d \in {Always, Exactly(30), Exactly(31), Every(31)}, w \in {Always, Exactly(5)},
            m \in {Always, Exactly(2), Exactly(4), Listed({<<2, 2>>, <<4, 4>>})}}
Twice(minute, day, weekday) ==
    <<[EachTime EXCEPT !.minute = minute], [EachTime EXCEPT !.day = day, !.weekday = weekday]>>

CronScene ==
    IF focus # "cron" THEN CronInit({<<EachTime>>}, {Last31st}, {FALSE}, 0)
    ELSE \/ CronInit(Schedules, {Last31st}, {FALSE}, CronHorizon)
         \/ CronInit({Twice(Exactly(0), Exactly(1), Always)}, {Last31st}, BOOLEAN, 0)
         \/ CronInit({Twice(Always, Every(31), Exactly(6))}, {Last28th}, BOOLEAN, 0)

-----------------------------------------------------------------------------
Nothing == [spec |-> [e \in {} |-> Entity({}, <<>>, {})], requested |-> {},
            registry |-> Independent, contributes |-> [p \in Packs |-> Alone(p)]]
Compiles == PackScenes \cup EntityScenes \cup ContributionScenes

Init ==
    /\ focus \in Focuses
    /\ MailInit
    /\ IF focus = "uploads" THEN UploadInit({"a1"}, {"c1", "c2"}, {"w1"})
                                   \/ UploadInit({"a1", "a2"}, {}, Sweepers)
                                   \/ UploadInit({"a1"}, {"c1"}, Sweepers)
       ELSE UploadInit({}, {}, {})
    /\ IF focus = "sessions" THEN AuthInit({"s1", "s2", "s3"}, {}) \/ AuthInit({"s1", "s2"}, Codes)
       ELSE AuthInit({}, {})
    /\ CASE focus = "organizations" -> RecordInit(OrgCalls, {"o1"})
         [] focus = "records"       -> RecordInit({}, Organizations)
         [] OTHER                   -> RecordInit({}, {})
    /\ SchemaInit
    /\ CompileInit(IF focus = "compile" THEN Compiles ELSE {Nothing})
    /\ SeedInit(IF focus = "seed" THEN SeedScenes ELSE {CHOOSE s \in SeedScenes : TRUE})
    /\ EndpointScene
    /\ CronScene
    /\ IF focus = "tests" THEN TestInit({"asWritten", "edited"}, NewRuns)
       ELSE TestInit({"edited"}, {CHOOSE r \in NewRuns : TRUE})

Spec == Init /\ [][ComponentsNext]_allVars /\ MailFairness /\ UploadFairness
=============================================================================
