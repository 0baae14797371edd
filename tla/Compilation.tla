----------------------------- MODULE Compilation -----------------------------
(***************************************************************************)
(* From a specification to the backend's intermediate representation and   *)
(* its files: validateSpec (specification/src/validate.ts), the resolution *)
(* of the feature packs (feature-sdk/src/resolve.ts), the normalization of *)
(* entities and relations (compiler/src/compile.ts), and the pipeline that *)
(* runs them and merges what the packs render                              *)
(* (generator-runtime/src/compile.ts, render.ts, target-sdk/context.ts).   *)
(*                                                                         *)
(* Packs and entities are numbered in the order of their names.  A name in *)
(* an entity is a tuple: a plain one, or what the compiler makes of        *)
(* others.  What the code loops over is a step for each element.  Left     *)
(* out: what a field is made of, a foreign key or an inverse that a pack   *)
(* names itself, endpoints, permissions, events and secrets.               *)
(***************************************************************************)
EXTENDS Naturals, Sequences, FiniteSets

CONSTANTS Packs,          \* 1 .. n
          Entities,       \* 1 .. m, those of the specification and of the packs
          RelationNames   \* the names relations are declared with, in their order

ASSUME CompilationAssumption ==
    /\ IsFiniteSet(Packs) /\ Packs = 1 .. Cardinality(Packs)
    /\ IsFiniteSet(Entities) /\ Entities = 1 .. Cardinality(Entities)
    /\ RelationNames \in Seq({RelationNames[j] : j \in DOMAIN RelationNames})
    /\ \A j, k \in DOMAIN RelationNames : RelationNames[j] = RelationNames[k] => j = k

VARIABLES source,   \* specification, registry and what the packs contribute
          compiled, \* how far the pipeline is, and what it has
          visits,   \* the calls of visit under way, outermost first
          drafts,   \* the entities, as the packs shape them
          naming    \* the relations not yet expanded, and the names of inverses

compileVars == <<source, compiled, visits, drafts, naming>>

-----------------------------------------------------------------------------
(* Names.  No two of them become the same text here.                       *)
Plain(n)      == <<n>>
Collection(e) == <<"many", e>>        \* pluralize(camelCase(e))
Single(e)     == <<"one", e>>         \* camelCase(e)
Via(n, r)     == <<"via", n, r>>      \* `${n}Via${pascalCase(r)}`
Key(n)        == <<"key", n>>         \* `${camelCase(n)}Id`

Reserved == {Plain("id"), Plain("createdAt"), Plain("updatedAt")}

defaultInverseName(e, type) ==
    IF type \in {"belongsTo", "manyToMany"} THEN Collection(e) ELSE Single(e)

(* A relation as it is declared, and an entity.                            *)
Relation(name, type, target, required, onDelete) ==
    [name |-> name, type |-> type, target |-> target, required |-> required, onDelete |-> onDelete]

Entity(fields, relations, indexes) ==
    [fields |-> fields, relations |-> relations, indexes |-> indexes, softDelete |-> FALSE]

(* What can be compiled: packs and relations there are, which may or may   *)
(* not make sense; only a pack can ask for an entity's soft deletion.      *)
DeclaredRelation ==
    [name: {RelationNames[j] : j \in DOMAIN RelationNames},
     type: {"belongsTo", "hasOne", "hasMany", "manyToMany"}, target: Entities,
     required: {"unset", "yes", "no"}, onDelete: {"unset", "restrict", "cascade", "setNull"}]

WellFormed(s) ==
    /\ DOMAIN s.spec \subseteq Entities
    /\ \A e \in DOMAIN s.spec :
          /\ s.spec[e] = Entity(s.spec[e].fields, s.spec[e].relations, s.spec[e].indexes)
          /\ s.spec[e].relations \in Seq(DeclaredRelation)
    /\ s.requested \cup s.registry.packs \subseteq Packs
    /\ \A p \in Packs :
          /\ s.registry.dependsOn[p] \subseteq Packs
          /\ s.contributes[p].creates \in Entities \cup {0}
          /\ s.contributes[p].patches \in Entities \cup {0}
          /\ s.contributes[p].relations \in Seq(DeclaredRelation)

(* Every relation of the entities, by entity and position.                 *)
Declared(entities) == UNION {{e} \X DOMAIN entities[e].relations : e \in DOMAIN entities}
RelationAt(entities, d) == entities[d[1]].relations[d[2]]

(* The order in which they are expanded: of the entities, then of names.   *)
NameBefore(m, n) == \E j, k \in DOMAIN RelationNames :
                       j < k /\ RelationNames[j] = m /\ RelationNames[k] = n

ExpandedBefore(entities, d, c) ==
    LET m == RelationAt(entities, d).name
        n == RelationAt(entities, c).name
    IN  d[1] < c[1] \/ (d[1] = c[1] /\ (NameBefore(m, n) \/ (m = n /\ d[2] < c[2])))

IsNext(entities, left, d) == d \in left /\ \A c \in left \ {d} : ExpandedBefore(entities, d, c)

RelationNamesOf(entity) == {entity.relations[i].name : i \in DOMAIN entity.relations}

Names(entity) == entity.fields \cup RelationNamesOf(entity)

(* Mutant of TakenNames: two inverses of one name.                         *)
TakenAtFirst(entities, names, e) == Names(entities[e])

(* The inverse of a relation has its default name, or another if that is   *)
(* taken, and takes it.  "names" has the names given so far.               *)
TakenNames(entities, names, e) ==
    Names(entities[e]) \cup {names[d] : d \in {c \in DOMAIN names : RelationAt(entities, c).target = e}}

InverseName(entities, names, d) ==
    LET r == RelationAt(entities, d)
        default == defaultInverseName(d[1], r.type)
    IN  IF default \in TakenNames(entities, names, r.target) THEN Via(default, r.name) ELSE default

Unnamed(entities) == [left |-> Declared(entities), names |-> [d \in {} |-> <<>>]]

Named(d) ==
    [left  |-> naming.left \ {d},
     names |-> [c \in DOMAIN naming.names \cup {d} |->
                  IF c = d THEN InverseName(drafts, naming.names, d) ELSE naming.names[c]]]

Owns(type) == type \in {"belongsTo", "hasOne"}

-----------------------------------------------------------------------------
(* validateSpec.  deriveRelationForeignKeys mirrors the compiler.          *)
MirroredKeys(entities, names, e) ==
    {Key(RelationAt(entities, d).name) :
        d \in {c \in DOMAIN names : c[1] = e /\ Owns(RelationAt(entities, c).type)}}
    \cup {Key(names[d]) :
        d \in {c \in DOMAIN names : LET r == RelationAt(entities, c)
                                    IN  r.target = e /\ r.type = "hasMany"}}

(* What is wrong with a declared relation, whoever asks: the validation    *)
(* takes a required relation that is set to null only if it is no          *)
(* collection, the compiler only if it owns its key.                       *)
RelationIssues(r, known) ==
    (IF r.target \notin known THEN {"unknown-relation-target"} ELSE {})
    \cup (IF ~Owns(r.type) /\ r.required # "unset" THEN {"collection-relation-required-unsupported"}
          ELSE IF r.onDelete = "setNull" /\ r.required = "yes"
          THEN {"set-null-requires-optional-relation"} ELSE {})
    \cup (IF r.type = "manyToMany" /\ r.onDelete # "unset"
          THEN {"many-to-many-on-delete-unsupported"} ELSE {})

UnknownIndexes(entity, keys) == entity.indexes \ (entity.fields \cup keys \cup Reserved)

SpecificationIssues(entities, names) ==
    (UNION {RelationIssues(RelationAt(entities, d), DOMAIN entities) : d \in Declared(entities)})
    \cup (IF \E e \in DOMAIN entities : UnknownIndexes(entities[e], MirroredKeys(entities, names, e)) # {}
          THEN {"unknown-index-field"} ELSE {})

-----------------------------------------------------------------------------
(* resolveFeatures.                                                        *)
Selected == source.requested \cap source.registry.packs

(* Mutant of Call: dependencies do not come first.                         *)
CallWithout(p) == [pack |-> p, left |-> {}]

(* A call of visit: the pack, and the dependencies it has not looked at    *)
(* yet.  The outermost one is the loop over the selected packs.            *)
Call(p) == [pack |-> p, left |-> source.registry.dependsOn[p] \cap Selected]
AllPacks == [pack |-> 0, left |-> Selected]

Ordered == {compiled.order[i] : i \in DOMAIN compiled.order}
Innermost == visits[Len(visits)]
Visiting == {visits[k].pack : k \in DOMAIN visits}

SelectionIssues ==
    (IF source.requested # Selected THEN {"unknown"} ELSE {})
    \cup (IF \E p \in Selected : ~(source.registry.dependsOn[p] \subseteq Selected)
          THEN {"missing-dependency"} ELSE {})
    \cup (IF \E p \in Selected : source.registry.conflictsWith[p] \cap Selected # {}
          THEN {"conflict"} ELSE {})

-----------------------------------------------------------------------------
(* applyEntityContributions.  0 stands for no entity.                      *)
Contribution(p) == source.contributes[p]

(* No pack adds indexes; softDelete is set by one, so nothing unsets it.   *)
Patched(entity, patch) ==
    [entity EXCEPT !.fields = @ \cup patch.fields, !.relations = @ \o patch.relations,
                   !.softDelete = @ \/ patch.softDelete]

(* A field or a relation of a patch that is there, or is in it twice.      *)
IsReserved(entity, patch) ==
    \/ patch.fields \cap entity.fields # {}
    \/ RelationNamesOf(patch) \cap RelationNamesOf(entity) # {}
    \/ \E i, j \in DOMAIN patch.relations :
          i # j /\ patch.relations[i].name = patch.relations[j].name

-----------------------------------------------------------------------------
(* deriveRelationSides: each declared relation and its inverse, of which   *)
(* at most one has the foreign key.                                        *)
OnDelete(r) == IF r.onDelete # "unset" THEN r.onDelete
               ELSE IF Owns(r.type) /\ r.required = "yes" THEN "restrict" ELSE "setNull"

DeclaredSide(d, inverse) ==
    LET r == RelationAt(drafts, d)
    IN  [of |-> d, origin |-> "declared", relationName |-> <<d[1], r.name>>,
         name |-> r.name, target |-> r.target, inverseName |-> inverse, type |-> r.type,
         owner |-> Owns(r.type), foreignKey |-> IF Owns(r.type) THEN Key(r.name) ELSE <<>>,
         required |-> r.required = "yes", unique |-> r.type = "hasOne", onDelete |-> OnDelete(r)]

InverseSide(d, inverse) ==
    LET r == RelationAt(drafts, d)
        owner == r.type = "hasMany"
    IN  [of |-> d, origin |-> "derived", relationName |-> <<d[1], r.name>>,
         name |-> inverse, target |-> d[1], inverseName |-> r.name,
         type |-> CASE r.type = "belongsTo" -> "hasMany" [] owner -> "belongsTo" [] OTHER -> r.type,
         owner |-> owner, foreignKey |-> IF owner THEN Key(inverse) ELSE <<>>,
         required |-> FALSE, unique |-> r.type = "hasOne", onDelete |-> OnDelete(r)]

RelationsOf(names, e) ==
    {DeclaredSide(d, names[d]) : d \in {c \in DOMAIN names : c[1] = e}}
    \cup {InverseSide(d, names[d]) : d \in {c \in DOMAIN names : RelationAt(drafts, c).target = e}}

(* validateImplicitNames and the indexes of normalizeEntities.             *)
Implied(draft) == Reserved \cup (IF draft.softDelete THEN {Plain("deletedAt")} ELSE {})

Ambiguous(draft, relations) ==
    LET taken  == Implied(draft) \cup draft.fields
        names  == {r.name : r \in relations}
        owners == {r \in relations : r.owner}
    IN  (IF draft.fields \cap Implied(draft) # {} THEN {"reserved-field-name"} ELSE {})
        \cup (IF names \cap taken # {} THEN {"relation-field-name-conflict"} ELSE {})
        \cup (IF \E r \in owners : \/ r.foreignKey \in taken \cup names
                                   \/ \E s \in owners \ {r} : s.foreignKey = r.foreignKey
              THEN {"foreign-key-name-conflict"} ELSE {})

Unindexed(draft, relations) ==
    UnknownIndexes(draft, {r.foreignKey : r \in {s \in relations : s.owner}} \cup Implied(draft)) # {}

Normalized == [e \in DOMAIN drafts |->
                 [fields |-> drafts[e].fields, relations |-> RelationsOf(naming.names, e)]]

NormalIssues ==
    LET names == UNION {Ambiguous(drafts[e], Normalized[e].relations) : e \in DOMAIN drafts}
    IN  IF names # {} THEN names
        ELSE IF \E e \in DOMAIN drafts : Unindexed(drafts[e], Normalized[e].relations)
        THEN {"unknown-index-field"} ELSE {}

-----------------------------------------------------------------------------
(* The pipeline.                                                           *)
Start == [step |-> "validate", issues |-> {}, said |-> {}, order |-> <<>>, shaped |-> 0,
          entities |-> <<>>, files |-> {}]

CompileInit(Sources) ==
    /\ source \in Sources
    /\ compiled = Start
    /\ visits = <<>>
    /\ drafts = source.spec
    /\ naming = Unnamed(source.spec)

Refuse(issues) == compiled' = [compiled EXCEPT !.step = "refused", !.issues = issues]

(* A relation with an unknown target is passed over.                       *)
Mirror(d) ==
    /\ compiled.step = "validate" /\ IsNext(drafts, naming.left, d)
    /\ naming' = IF RelationAt(drafts, d).target \in DOMAIN drafts THEN Named(d)
                 ELSE [naming EXCEPT !.left = @ \ {d}]
    /\ UNCHANGED <<source, compiled, visits, drafts>>

(* compileBackend does not ask what validateSpec says: whoever loads a     *)
(* specification does, and whoever makes one calls compileBackend with it. *)
Validate ==
    /\ compiled.step = "validate" /\ naming.left = {}
    /\ LET issues == SpecificationIssues(drafts, naming.names)
       IN  \/ /\ issues # {}
              /\ compiled' = [compiled EXCEPT !.step = "refused", !.issues = issues, !.said = issues]
           \/ compiled' = [compiled EXCEPT !.step = "resolve", !.said = issues]
    /\ UNCHANGED <<source, visits, drafts, naming>>

Resolve ==
    /\ compiled.step = "resolve"
    /\ compiled' = [compiled EXCEPT !.step = "order"]
    /\ visits' = <<AllPacks>>
    /\ UNCHANGED <<source, drafts, naming>>

(* orderFeatures: depth first, dependencies and packs in the order of      *)
(* their names; a pack that is met while it is visited closes a cycle.     *)
Visit(p) ==
    /\ compiled.step = "order"
    /\ p \in Innermost.left /\ \A q \in Innermost.left : p <= q
    /\ LET rest == [visits EXCEPT ![Len(visits)].left = @ \ {p}]
       IN  \/ /\ p \in Visiting
              /\ Refuse(SelectionIssues \cup {"circular-dependency"})
              /\ UNCHANGED visits
           \/ /\ p \notin Visiting
              /\ visits' = IF p \in Ordered THEN rest ELSE Append(rest, Call(p))
              /\ UNCHANGED compiled
    /\ UNCHANGED <<source, drafts, naming>>

Leave ==
    /\ compiled.step = "order" /\ Len(visits) > 1 /\ Innermost.left = {}
    /\ compiled' = [compiled EXCEPT !.order = Append(@, Innermost.pack)]
    /\ visits' = SubSeq(visits, 1, Len(visits) - 1)
    /\ UNCHANGED <<source, drafts, naming>>

(* unfit: packs with an invalid configuration or a missing entity; they    *)
(* are looked at when there is no cycle.                                   *)
Resolved ==
    /\ compiled.step = "order" /\ Len(visits) = 1 /\ Innermost.left = {}
    /\ LET issues == SelectionIssues
                     \cup (IF Selected \cap source.registry.unfit # {} THEN {"unfit"} ELSE {})
       IN  IF issues # {} THEN Refuse(issues)
           ELSE compiled' = [compiled EXCEPT !.step = "create"]
    /\ UNCHANGED <<source, visits, drafts, naming>>

(* First the entities the packs create, then their patches.                *)
Create ==
    /\ compiled.step = "create" /\ compiled.shaped < Len(compiled.order)
    /\ LET new == Contribution(compiled.order[compiled.shaped + 1]).creates
       IN  IF new # 0 /\ new \in DOMAIN drafts THEN Refuse({"entity-conflict"}) /\ UNCHANGED drafts
           ELSE /\ compiled' = [compiled EXCEPT !.shaped = @ + 1]
                /\ drafts' = [e \in DOMAIN drafts \cup ({new} \ {0}) |->
                                IF e \in DOMAIN drafts THEN drafts[e] ELSE Entity({}, <<>>, {})]
    /\ UNCHANGED <<source, visits, naming>>

Created ==
    /\ compiled.step = "create" /\ compiled.shaped = Len(compiled.order)
    /\ compiled' = [compiled EXCEPT !.step = "patch", !.shaped = 0]
    /\ UNCHANGED <<source, visits, drafts, naming>>

Patch ==
    /\ compiled.step = "patch" /\ compiled.shaped < Len(compiled.order)
    /\ LET patch == Contribution(compiled.order[compiled.shaped + 1])
           e     == patch.patches
           goes  == compiled' = [compiled EXCEPT !.shaped = @ + 1]
       IN  CASE e = 0 -> goes /\ UNCHANGED drafts
             [] e # 0 /\ e \notin DOMAIN drafts -> Refuse({"missing-entity"}) /\ UNCHANGED drafts
             [] e \in DOMAIN drafts /\ IsReserved(drafts[e], patch) ->
                  Refuse({"reserved-by-feature"}) /\ UNCHANGED drafts
             [] OTHER -> goes /\ drafts' = [drafts EXCEPT ![e] = Patched(@, patch)]
    /\ UNCHANGED <<source, visits, naming>>

Shaped ==
    /\ compiled.step = "patch" /\ compiled.shaped = Len(compiled.order)
    /\ compiled' = [compiled EXCEPT !.step = "expand"]
    /\ naming' = Unnamed(drafts)
    /\ UNCHANGED <<source, visits, drafts>>

Expand(d) ==
    /\ compiled.step = "expand" /\ IsNext(drafts, naming.left, d)
    /\ LET issues == RelationIssues(RelationAt(drafts, d), DOMAIN drafts)
       IN  IF issues # {} THEN Refuse(issues) /\ UNCHANGED naming
           ELSE naming' = Named(d) /\ UNCHANGED compiled
    /\ UNCHANGED <<source, visits, drafts>>

(* The checks of normalizeEntities, and the target's validate.             *)
Normalize ==
    /\ compiled.step = "expand" /\ naming.left = {}
    /\ LET unsupported == \E d \in Declared(drafts) : RelationAt(drafts, d).type = "manyToMany"
           issues      == IF NormalIssues # {} THEN NormalIssues
                          ELSE IF unsupported THEN {"unsupported-relation"} ELSE {}
       IN  IF issues # {} THEN Refuse(issues)
           ELSE compiled' = [compiled EXCEPT !.step = "render", !.entities = Normalized]
    /\ UNCHANGED <<source, visits, drafts, naming>>

(* mergeRenderResults: every renderer's files, each once; the same path    *)
(* with other contents is an error.                                        *)
Render ==
    /\ compiled.step = "render"
    /\ LET files == UNION {Contribution(p).files : p \in Ordered}
       IN  IF \E f, g \in files : f.path = g.path /\ f # g THEN Refuse({"file-conflict"})
           ELSE compiled' = [compiled EXCEPT !.step = "done", !.files = files]
    /\ UNCHANGED <<source, visits, drafts, naming>>

CompileNext ==
    \/ \E d \in naming.left : Mirror(d) \/ Expand(d)
    \/ \E p \in Packs : Visit(p)
    \/ Validate \/ Resolve \/ Leave \/ Resolved \/ Create \/ Created \/ Patch \/ Shaped
    \/ Normalize \/ Render

CompileSpec(Sources) == CompileInit(Sources) /\ [][CompileNext]_compileVars

-----------------------------------------------------------------------------
CompileTypeOK ==
    /\ WellFormed(source)
    /\ compiled.step \in {"validate", "resolve", "order", "create", "patch", "expand", "render",
                          "done", "refused"}
    /\ (compiled.step = "refused") = (compiled.issues # {})
    /\ Ordered \subseteq Packs /\ compiled.shaped \in 0 .. Len(compiled.order)
    /\ \A k \in DOMAIN visits : visits[k].pack \in {0} \cup Packs /\ visits[k].left \subseteq Packs
    /\ DOMAIN source.spec \subseteq DOMAIN drafts
    /\ naming.left \cup DOMAIN naming.names \subseteq Declared(drafts)

Reached(step) ==
    CASE step = "create" -> compiled.step \in {"create", "patch", "expand", "render", "done"}
      [] step = "render" -> compiled.step \in {"render", "done"}
      [] step = "done"   -> compiled.step = "done"

(* A selection of packs is taken exactly when each of them is known, fits, *)
(* has what it depends on, conflicts with no other and no packs depend on  *)
(* each other in a circle.  Then every pack comes after its dependencies,  *)
(* and in the project it finds all its files as it rendered them.          *)
Needs(p) == source.registry.dependsOn[p]

Circular == \E C \in (SUBSET source.requested) \ {{}} : \A p \in C : Needs(p) \cap C # {}

Sound == /\ source.requested \subseteq source.registry.packs \ source.registry.unfit
         /\ ~Circular
         /\ \A p \in source.requested : /\ Needs(p) \subseteq source.requested
                                        /\ source.registry.conflictsWith[p] \cap source.requested = {}

PacksHonoured ==
    LET order == compiled.order
    IN  /\ Reached("create") =>
             /\ Sound
             /\ Ordered = source.requested /\ Len(order) = Cardinality(source.requested)
             /\ \A j, k \in DOMAIN order : order[j] \in Needs(order[k]) => j < k
        /\ compiled.issues \cap {"unknown", "missing-dependency", "conflict", "unfit",
                                 "circular-dependency"} # {} => ~Sound
        /\ Reached("done") =>
             \A p \in source.requested : \A f \in Contribution(p).files :
                {g \in compiled.files : g.path = f.path} = {f}

(* What the targets render from is consistent: every relation has its      *)
(* other side, which names it back, exactly one of the two has the foreign *)
(* key, and no two things in an entity have the same name.  Relations do   *)
(* when the specification declares a name twice, or when the second name   *)
(* an inverse is given is taken as well, which nothing looks at.           *)
DeclaredTwice(e, name) ==
    e \in DOMAIN source.spec
    /\ \E i, j \in DOMAIN source.spec[e].relations :
          i # j /\ name = source.spec[e].relations[i].name /\ name = source.spec[e].relations[j].name

RelationsPaired == Reached("render") =>
    LET E == compiled.entities
        Other(e, r) == {s \in E[r.target].relations :
                          /\ s.relationName = r.relationName /\ s.target = e
                          /\ s.name = r.inverseName /\ s.inverseName = r.name}
    IN  \A e \in DOMAIN E :
          /\ \A r \in E[e].relations : /\ r.target \in DOMAIN E
                                       /\ \E s \in Other(e, r) : s.owner # r.owner
          /\ \A r, s \in E[e].relations : r # s =>
                /\ r.owner /\ s.owner => r.foreignKey # s.foreignKey
                /\ r.name = s.name => DeclaredTwice(e, r.name) \/ r.name[1] = "via"
          /\ LET taken == E[e].fields \cup Reserved
                 names == {s.name : s \in E[e].relations}
             IN  /\ names \cap taken = {}
                 /\ \A r \in E[e].relations : r.owner => r.foreignKey \notin taken \cup names

(* Where packs change nothing, what compiles is valid, and a specification *)
(* with an index the compiler does not know is not.                        *)
IndexFieldsAgree ==
    drafts = source.spec =>
      /\ Reached("render") => compiled.said = {}
      /\ compiled.issues = {"unknown-index-field"} => "unknown-index-field" \in compiled.said

(* What the compiler hands on, and what it refuses, is consistent.  A name *)
(* is what it is derived from: the names that every object of JavaScript   *)
(* has, which the validator's `in` finds in any entity, are left out.      *)
(* compile.ts deriveRelationSides, validateImplicitNames; validate.ts      *)
(* deriveRelationForeignKeys.                                              *)
IrConsistent == RelationsPaired /\ IndexFieldsAgree
=============================================================================
