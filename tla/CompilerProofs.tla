---------------------------- MODULE CompilerProofs ----------------------------
(***************************************************************************)
(* Theorems about Compilation, Seeding and SchemaDiff, for any packs,      *)
(* entities, names and tables, and whatever a specification declares and   *)
(* its packs depend on and add: their type invariants, that a selection of *)
(* packs is taken exactly when it makes sense and is ordered and merged as *)
(* it must be, that the representation the targets render from is          *)
(* consistent, that the database takes what the seed plans, run as often   *)
(* as one likes, and that it takes the migrations from one specification   *)
(* to the next and is then as the last one says.                           *)
(*                                                                         *)
(* The argument.  Of the packs: Sorted says that the order so far has each *)
(* pack once and after what it needs, Walk that every call of visit is of  *)
(* a pack its caller needs, and what the call is past is ordered.  A pack  *)
(* met while it is visited then closes a circle of the calls in between,   *)
(* and in an order of all the packs there is no circle, since one of its   *)
(* packs would come first.  Of the names: relations are expanded in an     *)
(* order that is total, and an inverse is named by what was named before   *)
(* it, so the names are a function of the entities alone (ByRule), which   *)
(* the validator's mirror of the compiler shares as long as the packs      *)
(* leave the entities as they are.  Of the seed: the rows that are planned *)
(* are a function of the plan and each row of its ordinal, the database    *)
(* holds planned rows only and all those of the blocks a run is past       *)
(* (RowsInv), and in every unique index there is a column in which no two  *)
(* rows of an entity are the same (Distinguishes).  Of migrations: while   *)
(* one runs, the statements that are left are the differences between the  *)
(* database as it is by then and the snapshot it is led to (Underway); a   *)
(* statement that is accepted removes its own difference and makes no      *)
(* other (Lessens), whose turn it is has what it needs (DueIsReady), and a *)
(* catalog without differences is the snapshot (NothingLeft).              *)
(***************************************************************************)
EXTENDS Compilation, Seeding, SchemaDiff, FiniteSetTheorems, FunctionTheorems, SequenceTheorems, TLAPS

(* What the pipeline has, as one record.                                   *)
With(step, issues, said, order, shaped, entities, files) ==
    [step |-> step, issues |-> issues, said |-> said, order |-> order, shaped |-> shaped,
     entities |-> entities, files |-> files]

IsRecord(c) == c = With(c.step, c.issues, c.said, c.order, c.shaped, c.entities, c.files)

Steps == {"validate", "resolve", "order", "create", "patch", "expand", "render", "done", "refused"}

IsEntity(r) ==
    /\ DOMAIN r = {"fields", "relations", "indexes", "softDelete"}
    /\ r.relations \in Seq(DeclaredRelation)

Frame == [pack: Packs \cup {0}, left: SUBSET Packs]

TypeInv ==
    /\ WellFormed(source)
    /\ IsRecord(compiled)
    /\ compiled.step \in Steps
    /\ (compiled.step = "refused") <=> (compiled.issues # {})
    /\ compiled.order \in Seq(Packs)
    /\ compiled.shaped \in 0 .. Len(compiled.order)
    /\ visits \in Seq(Frame)
    /\ compiled.step = "order" => visits # <<>>
    /\ DOMAIN drafts \subseteq Entities
    /\ \A e \in DOMAIN drafts : IsEntity(drafts[e])
    /\ DOMAIN source.spec \subseteq DOMAIN drafts
    /\ naming = [left |-> naming.left, names |-> naming.names]
    /\ naming.left \cup DOMAIN naming.names \subseteq Declared(drafts)

LEMMA TypeInvOK == TypeInv => CompileTypeOK
<1> SUFFICES ASSUME TypeInv PROVE CompileTypeOK
  OBVIOUS
<1>1. Ordered \subseteq Packs
  BY DEF TypeInv, Ordered
<1>2. \A k \in DOMAIN visits : visits[k].pack \in {0} \cup Packs /\ visits[k].left \subseteq Packs
  <2>1. \A k \in DOMAIN visits : visits[k] \in Frame
    BY DEF TypeInv
  <2> QED BY <2>1 DEF Frame
<1> QED BY <1>1, <1>2 DEF TypeInv, CompileTypeOK, Steps

-----------------------------------------------------------------------------
(* What each action makes of the record.                                   *)
LEMMA WithFields ==
    ASSUME NEW a, NEW b, NEW c, NEW d, NEW e, NEW f, NEW g
    PROVE  LET w == With(a, b, c, d, e, f, g)
           IN  /\ w.step = a /\ w.issues = b /\ w.said = c /\ w.order = d /\ w.shaped = e
               /\ w.entities = f /\ w.files = g
               /\ IsRecord(w)
  BY DEF With, IsRecord

LEMMA RefuseFields ==
    ASSUME IsRecord(compiled), NEW issues, Refuse(issues)
    PROVE  /\ compiled'.step = "refused" /\ compiled'.issues = issues
           /\ compiled'.said = compiled.said /\ compiled'.order = compiled.order
           /\ compiled'.shaped = compiled.shaped /\ compiled'.entities = compiled.entities
           /\ compiled'.files = compiled.files
           /\ IsRecord(compiled')
<1> DEFINE w == With("refused", issues, compiled.said, compiled.order, compiled.shaped,
                     compiled.entities, compiled.files)
<1>1. compiled' = w
  BY DEF Refuse, IsRecord, With
<1> HIDE DEF w
<1> QED BY <1>1, WithFields DEF w

LEMMA StepFields ==
    ASSUME IsRecord(compiled), NEW step, compiled' = [compiled EXCEPT !.step = step]
    PROVE  /\ compiled'.step = step /\ compiled'.issues = compiled.issues
           /\ compiled'.said = compiled.said /\ compiled'.order = compiled.order
           /\ compiled'.shaped = compiled.shaped /\ compiled'.entities = compiled.entities
           /\ compiled'.files = compiled.files
           /\ IsRecord(compiled')
<1> DEFINE w == With(step, compiled.issues, compiled.said, compiled.order, compiled.shaped,
                     compiled.entities, compiled.files)
<1>1. compiled' = w
  BY DEF IsRecord, With
<1> HIDE DEF w
<1> QED BY <1>1, WithFields DEF w

LEMMA ShapedFields ==
    ASSUME IsRecord(compiled), NEW step, NEW shaped,
           \/ compiled' = [compiled EXCEPT !.step = step, !.shaped = shaped]
           \/ compiled' = [compiled EXCEPT !.shaped = shaped] /\ step = compiled.step
    PROVE  /\ compiled'.step = step /\ compiled'.issues = compiled.issues
           /\ compiled'.said = compiled.said /\ compiled'.order = compiled.order
           /\ compiled'.shaped = shaped /\ compiled'.entities = compiled.entities
           /\ compiled'.files = compiled.files
           /\ IsRecord(compiled')
<1> DEFINE w == With(step, compiled.issues, compiled.said, compiled.order, shaped,
                     compiled.entities, compiled.files)
<1>1. compiled' = w
  BY DEF IsRecord, With
<1> HIDE DEF w
<1> QED BY <1>1, WithFields DEF w

-----------------------------------------------------------------------------
(* Entities, and what packs make of them.                                  *)
LEMMA EntityIs ==
    ASSUME NEW fields, NEW relations \in Seq(DeclaredRelation), NEW indexes
    PROVE  /\ IsEntity(Entity(fields, relations, indexes))
           /\ Entity(fields, relations, indexes).fields = fields
           /\ Entity(fields, relations, indexes).relations = relations
           /\ Entity(fields, relations, indexes).indexes = indexes
           /\ Entity(fields, relations, indexes).softDelete = FALSE
  BY DEF IsEntity, Entity

LEMMA PatchedIs ==
    ASSUME NEW r, IsEntity(r), NEW patch, patch.relations \in Seq(DeclaredRelation)
    PROVE  /\ IsEntity(Patched(r, patch))
           /\ Patched(r, patch).fields = r.fields \cup patch.fields
           /\ Patched(r, patch).relations = r.relations \o patch.relations
           /\ Patched(r, patch).indexes = r.indexes
<1> DEFINE a == r.fields \cup patch.fields
           b == r.relations \o patch.relations
           c == r.softDelete \/ patch.softDelete
           w == [r EXCEPT !.fields = a, !.relations = b, !.softDelete = c]
<1>1. b \in Seq(DeclaredRelation)
  BY ConcatProperties DEF IsEntity
<1>2. Patched(r, patch) = w
  BY DEF Patched
<1> HIDE DEF a, b, c
<1>3. /\ DOMAIN w = {"fields", "relations", "indexes", "softDelete"}
      /\ w.fields = a /\ w.relations = b /\ w.indexes = r.indexes
  BY DEF IsEntity
<1> HIDE DEF w
<1> QED BY <1>1, <1>2, <1>3 DEF IsEntity, a, b

LEMMA NoRelations == <<>> \in Seq(DeclaredRelation)
  BY EmptySeq 

LEMMA PacksAre == Packs \subseteq Nat \ {0} /\ 0 \notin Packs
  BY FS_CardinalityType, CompilationAssumption

-----------------------------------------------------------------------------
(* The types.                                                              *)
NamingIs == /\ naming = [left |-> naming.left, names |-> naming.names]
            /\ naming.left \cup DOMAIN naming.names \subseteq Declared(drafts)

LEMMA NamedIs ==
    ASSUME NamingIs, NEW d \in naming.left, UNCHANGED drafts,
           naming' = Named(d) \/ naming' = [naming EXCEPT !.left = @ \ {d}]
    PROVE  /\ NamingIs'
           /\ naming'.left = naming.left \ {d}
           /\ naming' # Named(d) => naming'.names = naming.names
           /\ naming' = Named(d) =>
                naming'.names = [c \in DOMAIN naming.names \cup {d} |->
                                   IF c = d THEN InverseName(drafts, naming.names, d)
                                   ELSE naming.names[c]]
<1>1. CASE naming' = Named(d)
  <2> DEFINE n == [c \in DOMAIN naming.names \cup {d} |->
                     IF c = d THEN InverseName(drafts, naming.names, d) ELSE naming.names[c]]
  <2>1. naming' = [left |-> naming.left \ {d}, names |-> n]
    BY <1>1 DEF Named
  <2>2. DOMAIN n = DOMAIN naming.names \cup {d}
    OBVIOUS
  <2> HIDE DEF n
  <2>3. naming'.left = naming.left \ {d} /\ naming'.names = n
    BY <2>1
  <2>4. NamingIs'
    BY <2>1, <2>2, <2>3 DEF NamingIs
  <2> QED BY <1>1, <2>3, <2>4 DEF n
<1>2. CASE naming' # Named(d)
  <2>1. naming' = [left |-> naming.left \ {d}, names |-> naming.names]
    BY <1>2 DEF NamingIs
  <2> QED BY <1>2, <2>1 DEF NamingIs
<1> QED BY <1>1, <1>2

LEMMA UnnamedIs ==
    ASSUME NEW entities
    PROVE  /\ Unnamed(entities).left = Declared(entities)
           /\ Unnamed(entities).names = [c \in {} |-> <<>>]
           /\ DOMAIN Unnamed(entities).names = {}
           /\ Unnamed(entities) = [left |-> Unnamed(entities).left, names |-> Unnamed(entities).names]
  BY DEF Unnamed

(* Entities become more, and what they have does.                          *)
LEMMA DeclaredGrows ==
    ASSUME NEW old, NEW new, DOMAIN old \subseteq DOMAIN new,
           \A e \in DOMAIN old : DOMAIN old[e].relations \subseteq DOMAIN new[e].relations
    PROVE  Declared(old) \subseteq Declared(new)
  BY DEF Declared

LEMMA TypesInit == ASSUME WellFormed(source), CompileInit({source}) PROVE TypeInv
<1>1. compiled = With("validate", {}, {}, <<>>, 0, <<>>, {})
  BY DEF CompileInit, Start, With
<1>2. IsRecord(compiled) /\ compiled.step = "validate" /\ compiled.issues = {} /\ compiled.order = <<>>
      /\ compiled.shaped = 0
  BY <1>1, WithFields
<1>3. \A e \in DOMAIN drafts : IsEntity(drafts[e])
  <2> SUFFICES ASSUME NEW e \in DOMAIN drafts PROVE IsEntity(drafts[e])
    OBVIOUS
  <2>1. drafts = source.spec
    BY DEF CompileInit
  <2> DEFINE f == source.spec[e].fields
             r == source.spec[e].relations
             i == source.spec[e].indexes
  <2>2. drafts[e] = Entity(f, r, i) /\ r \in Seq(DeclaredRelation)
    BY <2>1 DEF WellFormed
  <2> HIDE DEF f, r, i
  <2>3. IsEntity(Entity(f, r, i))
    BY <2>2, EntityIs
  <2> QED BY <2>2, <2>3
<1>4. NamingIs
  BY UnnamedIs DEF CompileInit, NamingIs
<1>5. compiled.order \in Seq(Packs) /\ Len(compiled.order) = 0 /\ visits \in Seq(Frame)
  BY <1>2, EmptySeq DEF CompileInit
<1> QED BY <1>2, <1>3, <1>4, <1>5 DEF CompileInit, TypeInv, NamingIs, WellFormed, Steps

LEMMA MirrorTypes == ASSUME TypeInv, NEW d \in naming.left, Mirror(d) PROVE TypeInv'
<1>1. NamingIs /\ UNCHANGED <<source, compiled, visits, drafts>>
  BY DEF TypeInv, NamingIs, Mirror
<1>2. naming' = Named(d) \/ naming' = [naming EXCEPT !.left = @ \ {d}]
  BY DEF Mirror
<1>3. NamingIs'
  BY <1>1, <1>2, NamedIs
<1> QED BY <1>1, <1>3 DEF TypeInv, NamingIs

LEMMA RefuseTypes ==
    ASSUME TypeInv, NEW issues, issues # {}, Refuse(issues), UNCHANGED <<source, visits, drafts, naming>>
    PROVE  TypeInv'
<1>1. IsRecord(compiled)
  BY DEF TypeInv
<1> QED BY <1>1, RefuseFields DEF TypeInv, Steps

(* A step of the pipeline that goes on with the same packs and entities.   *)
LEMMA GoesOnTypes ==
    ASSUME TypeInv, UNCHANGED <<source, visits, drafts>>, NamingIs',
           IsRecord(compiled'), compiled'.step \in Steps \ {"refused", "order"},
           compiled.step # "refused",
           compiled'.issues = compiled.issues, compiled'.order = compiled.order,
           compiled'.shaped \in 0 .. Len(compiled.order)
    PROVE  TypeInv'
  BY DEF TypeInv, NamingIs

LEMMA ValidateTypes == ASSUME TypeInv, Validate PROVE TypeInv'
<1>1. IsRecord(compiled) /\ NamingIs' /\ UNCHANGED <<source, visits, drafts, naming>>
  BY DEF TypeInv, Validate, NamingIs
<1> DEFINE issues == SpecificationIssues(drafts, naming.names)
<1>2. CASE issues # {} /\ compiled' = [compiled EXCEPT !.step = "refused", !.issues = issues, !.said = issues]
  <2> DEFINE w == With("refused", issues, issues, compiled.order, compiled.shaped,
                       compiled.entities, compiled.files)
  <2> HIDE DEF issues
  <2>1. compiled' = w
    BY <1>1, <1>2 DEF IsRecord, With
  <2> QED BY <1>1, <1>2, <2>1, WithFields DEF TypeInv, Steps
<1>3. CASE compiled' = [compiled EXCEPT !.step = "resolve", !.said = issues]
  <2> HIDE DEF issues
  <2> DEFINE w == With("resolve", compiled.issues, issues, compiled.order, compiled.shaped,
                       compiled.entities, compiled.files)
  <2>1. compiled' = w
    BY <1>1, <1>3 DEF IsRecord, With
  <2> HIDE DEF w
  <2>2. IsRecord(compiled') /\ compiled'.step = "resolve" /\ compiled'.issues = compiled.issues
        /\ compiled'.order = compiled.order /\ compiled'.shaped = compiled.shaped
    BY <2>1, WithFields DEF w
  <2> QED BY <1>1, <2>2, GoesOnTypes DEF TypeInv, Validate, Steps
<1> QED BY <1>2, <1>3 DEF Validate

LEMMA ResolveTypes == ASSUME TypeInv, Resolve PROVE TypeInv'
<1>1. IsRecord(compiled) /\ UNCHANGED <<source, drafts, naming>> /\ visits' = <<AllPacks>>
  BY DEF TypeInv, Resolve
<1>2. IsRecord(compiled') /\ compiled'.step = "order" /\ compiled'.issues = compiled.issues
      /\ compiled'.order = compiled.order /\ compiled'.shaped = compiled.shaped
  BY <1>1, StepFields DEF Resolve
<1>3. AllPacks \in Frame
  BY DEF AllPacks, Frame, Selected, TypeInv, WellFormed
<1>4. visits' \in Seq(Frame) /\ visits' # <<>>
  BY <1>1, <1>3
<1> QED BY <1>1, <1>2, <1>4 DEF TypeInv, Resolve, Steps

LEMMA InnermostIs ==
    ASSUME TypeInv, compiled.step = "order"
    PROVE  /\ Len(visits) \in Nat \ {0} /\ DOMAIN visits = 1 .. Len(visits)
           /\ \A k \in 1 .. Len(visits) : visits[k] \in Frame
           /\ Innermost \in Frame /\ Innermost = visits[Len(visits)]
<1>1. visits \in Seq(Frame) /\ visits # <<>>
  BY DEF TypeInv
<1>2. Len(visits) \in Nat \ {0} /\ DOMAIN visits = 1 .. Len(visits)
      /\ \A k \in 1 .. Len(visits) : visits[k] \in Frame
  BY <1>1, LenProperties, EmptySeq, ElementOfSeq
<1> QED BY <1>2 DEF Innermost

LEMMA ReplaceLast ==
    ASSUME NEW S, NEW s \in Seq(S), s # <<>>, NEW v \in S, NEW t, t = [s EXCEPT ![Len(s)] = v]
    PROVE  t \in Seq(S) /\ Len(t) = Len(s) /\ t[Len(s)] = v /\ \A k \in 1 .. Len(s) - 1 : t[k] = s[k]
<1>1. Len(s) \in 1 .. Len(s) /\ \A k \in 1 .. Len(s) - 1 : k \in 1 .. Len(s) /\ k # Len(s)
  BY LenProperties, EmptySeq
<1>2. t \in Seq(S) /\ Len(t) = Len(s) /\ \A k \in 1 .. Len(s) : t[k] = IF k = Len(s) THEN v ELSE s[k]
  BY <1>1, ExceptSeq
<1> QED BY <1>1, <1>2

LEMMA VisitIs ==
    ASSUME TypeInv, NEW p \in Packs, Visit(p)
    PROVE  LET n    == Len(visits)
               rest == [visits EXCEPT ![n].left = @ \ {p}]
           IN  /\ rest \in Seq(Frame) /\ Len(rest) = n
               /\ rest[n].pack = visits[n].pack /\ rest[n].left = visits[n].left \ {p}
               /\ \A k \in 1 .. n - 1 : rest[k] = visits[k]
               /\ Call(p) \in Frame
<1> DEFINE n    == Len(visits)
           v    == [visits[n] EXCEPT !.left = @ \ {p}]
           rest == [visits EXCEPT ![n] = v]
<1>1. /\ n \in Nat \ {0} /\ visits[n] \in Frame /\ visits \in Seq(Frame) /\ DOMAIN visits = 1 .. n
  BY InnermostIs DEF Visit, TypeInv
<1>2. [visits EXCEPT ![n].left = @ \ {p}] = rest
  BY <1>1
<1>3. v \in Frame /\ v.pack = visits[n].pack /\ v.left = visits[n].left \ {p}
  BY <1>1 DEF Frame
<1> HIDE DEF v, rest
<1>4. rest \in Seq(Frame) /\ Len(rest) = n /\ rest[n] = v /\ \A k \in 1 .. n - 1 : rest[k] = visits[k]
  <2>1. rest = [visits EXCEPT ![Len(visits)] = v] /\ visits # <<>>
    BY <1>1 DEF rest
  <2>2. visits \in Seq(Frame) /\ v \in Frame
    BY <1>1, <1>3
  <2> QED BY <2>1, <2>2, ReplaceLast
<1>5. Call(p) \in Frame
  BY DEF Call, Frame, TypeInv, WellFormed
<1> QED BY <1>2, <1>3, <1>4, <1>5

LEMMA VisitTypes == ASSUME TypeInv, NEW p \in Packs, Visit(p) PROVE TypeInv'
<1> DEFINE rest == [visits EXCEPT ![Len(visits)].left = @ \ {p}]
<1>1. rest \in Seq(Frame) /\ Len(rest) = Len(visits) /\ Call(p) \in Frame
  BY VisitIs
<1>2. Len(visits) \in Nat \ {0}
  BY InnermostIs DEF Visit
<1>3. UNCHANGED <<source, drafts, naming>>
  BY DEF Visit
<1>4. CASE Refuse(SelectionIssues \cup {"circular-dependency"}) /\ UNCHANGED visits
  BY <1>3, <1>4, RefuseTypes
<1>5. CASE compiled' = compiled /\ (visits' = rest \/ visits' = Append(rest, Call(p)))
  <2> HIDE DEF rest
  <2>1. visits' \in Seq(Frame) /\ visits' # <<>>
    BY <1>1, <1>2, <1>5, AppendProperties
  <2> QED BY <1>3, <1>5, <2>1 DEF TypeInv
<1> QED BY <1>4, <1>5 DEF Visit

LEMMA LeaveIs ==
    ASSUME TypeInv, Leave
    PROVE  LET n == Len(visits) IN
           /\ n \in Nat /\ n > 1 /\ visits' = SubSeq(visits, 1, n - 1)
           /\ visits' \in Seq(Frame) /\ Len(visits') = n - 1
           /\ \A k \in 1 .. n - 1 : visits'[k] = visits[k]
           /\ compiled'.order = Append(compiled.order, visits[n].pack)
           /\ compiled'.step = compiled.step /\ compiled'.issues = compiled.issues
           /\ compiled'.shaped = compiled.shaped /\ IsRecord(compiled')
           /\ compiled'.said = compiled.said
<1> DEFINE n == Len(visits)
           order == Append(compiled.order, Innermost.pack)
           w == With(compiled.step, compiled.issues, compiled.said, order, compiled.shaped,
                     compiled.entities, compiled.files)
<1>1. n \in Nat /\ n > 1 /\ visits \in Seq(Frame) /\ Innermost = visits[n]
  BY InnermostIs DEF Leave, TypeInv
<1>2. visits' = SubSeq(visits, 1, n - 1)
  BY DEF Leave
<1>3. visits' \in Seq(Frame) /\ Len(visits') = n - 1 /\ \A k \in 1 .. n - 1 : visits'[k] = visits[k]
  BY <1>1, <1>2, SubSeqProperties
<1>4. compiled' = w
  BY DEF Leave, TypeInv, IsRecord, With
<1>5. order = Append(compiled.order, visits[n].pack)
  BY <1>1
<1> HIDE DEF w, order
<1>6. /\ compiled'.order = order
      /\ compiled'.step = compiled.step /\ compiled'.issues = compiled.issues
      /\ compiled'.shaped = compiled.shaped /\ IsRecord(compiled') /\ compiled'.said = compiled.said
  BY <1>4, WithFields DEF w
<1> QED BY <1>1, <1>2, <1>3, <1>5, <1>6

LEMMA LeaveTypes ==
    ASSUME TypeInv, Leave, visits[Len(visits)].pack \in Packs PROVE TypeInv'
<1> DEFINE p == visits[Len(visits)].pack
<1>1. /\ compiled'.order = Append(compiled.order, p) /\ compiled'.step = compiled.step
      /\ compiled'.issues = compiled.issues /\ compiled'.shaped = compiled.shaped /\ IsRecord(compiled')
      /\ visits' \in Seq(Frame) /\ Len(visits') > 0
  BY LeaveIs
<1> HIDE DEF p
<1>2. compiled'.order \in Seq(Packs) /\ Len(compiled'.order) = Len(compiled.order) + 1
  BY <1>1, AppendProperties DEF TypeInv, p
<1>3. compiled'.shaped \in 0 .. Len(compiled'.order)
  BY <1>1, <1>2, LenProperties DEF TypeInv
<1>4. UNCHANGED <<source, drafts, naming>> /\ visits' # <<>>
  BY <1>1 DEF Leave
<1> QED BY <1>1, <1>2, <1>3, <1>4 DEF TypeInv

LEMMA ResolvedTypes == ASSUME TypeInv, Resolved PROVE TypeInv'
<1> DEFINE issues == SelectionIssues \cup (IF Selected \cap source.registry.unfit # {} THEN {"unfit"} ELSE {})
<1>1. UNCHANGED <<source, visits, drafts, naming>> /\ compiled.step = "order"
  BY DEF Resolved
<1>2. CASE issues # {} /\ Refuse(issues)
  BY <1>1, <1>2, RefuseTypes
<1>3. CASE compiled' = [compiled EXCEPT !.step = "create"]
  <2>1. IsRecord(compiled') /\ compiled'.step = "create" /\ compiled'.issues = compiled.issues
        /\ compiled'.order = compiled.order /\ compiled'.shaped = compiled.shaped
    BY <1>3, StepFields DEF TypeInv
  <2> QED BY <1>1, <2>1, GoesOnTypes DEF TypeInv, NamingIs, Steps
<1> QED BY <1>2, <1>3 DEF Resolved

(* Entities that only grow keep the relations that are not yet expanded.   *)
LEMMA GrownTypes ==
    ASSUME TypeInv, UNCHANGED <<source, visits, naming>>,
           IsRecord(compiled'), compiled'.step = compiled.step, compiled.step \in {"create", "patch"},
           compiled'.issues = compiled.issues, compiled'.order = compiled.order,
           compiled'.shaped \in 0 .. Len(compiled.order),
           DOMAIN drafts \subseteq DOMAIN drafts', DOMAIN drafts' \subseteq Entities,
           \A e \in DOMAIN drafts' : IsEntity(drafts'[e]),
           \A e \in DOMAIN drafts : DOMAIN drafts[e].relations \subseteq DOMAIN drafts'[e].relations
    PROVE  TypeInv'
<1>1. Declared(drafts) \subseteq Declared(drafts')
  BY DeclaredGrows
<1> QED BY <1>1 DEF TypeInv

LEMMA ShapesOne ==
    ASSUME TypeInv, compiled.shaped < Len(compiled.order)
    PROVE  /\ compiled.order[compiled.shaped + 1] \in Packs
           /\ compiled.shaped + 1 \in 0 .. Len(compiled.order)
           /\ LET c == Contribution(compiled.order[compiled.shaped + 1])
              IN  c.creates \in Entities \cup {0} /\ c.patches \in Entities \cup {0}
                  /\ c.relations \in Seq(DeclaredRelation)
<1>1. compiled.order \in Seq(Packs) /\ Len(compiled.order) \in Nat /\ compiled.shaped + 1 \in 1 .. Len(compiled.order)
  BY LenProperties DEF TypeInv
<1>2. compiled.order[compiled.shaped + 1] \in Packs
  BY <1>1, ElementOfSeq
<1> QED BY <1>1, <1>2 DEF TypeInv, WellFormed, Contribution

(* What Create does to the entities, if it does not refuse.                *)
LEMMA CreateIs ==
    ASSUME TypeInv, Create
    PROVE  LET new == Contribution(compiled.order[compiled.shaped + 1]).creates
           IN  \/ Refuse({"entity-conflict"}) /\ UNCHANGED drafts
               \/ /\ compiled' = [compiled EXCEPT !.shaped = compiled.shaped + 1]
                  /\ new \in DOMAIN drafts => new = 0
                  /\ DOMAIN drafts' = DOMAIN drafts \cup ({new} \ {0})
                  /\ \A e \in DOMAIN drafts : drafts'[e] = drafts[e]
                  /\ \A e \in DOMAIN drafts' \ DOMAIN drafts : drafts'[e] = Entity({}, <<>>, {})
  BY DEF Create

LEMMA CreateTypes == ASSUME TypeInv, Create PROVE TypeInv'
<1> DEFINE new == Contribution(compiled.order[compiled.shaped + 1]).creates
<1>1. UNCHANGED <<source, visits, naming>> /\ compiled.step = "create" /\ compiled.shaped < Len(compiled.order)
  BY DEF Create
<1>2. CASE Refuse({"entity-conflict"}) /\ UNCHANGED drafts
  BY <1>1, <1>2, RefuseTypes
<1>3. CASE /\ compiled' = [compiled EXCEPT !.shaped = compiled.shaped + 1]
           /\ DOMAIN drafts' = DOMAIN drafts \cup ({new} \ {0})
           /\ \A e \in DOMAIN drafts : drafts'[e] = drafts[e]
           /\ \A e \in DOMAIN drafts' \ DOMAIN drafts : drafts'[e] = Entity({}, <<>>, {})
  <2>1. IsRecord(compiled') /\ compiled'.step = compiled.step /\ compiled'.issues = compiled.issues
        /\ compiled'.order = compiled.order /\ compiled'.shaped = compiled.shaped + 1
    BY <1>3, ShapedFields DEF TypeInv
  <2>2. new \in Entities \cup {0} /\ compiled.shaped + 1 \in 0 .. Len(compiled.order)
    BY <1>1, ShapesOne
  <2> HIDE DEF new
  <2>3. DOMAIN drafts' \subseteq Entities
    BY <1>3, <2>2 DEF TypeInv
  <2>4. \A e \in DOMAIN drafts' : IsEntity(drafts'[e])
    <3>1. IsEntity(Entity({}, <<>>, {}))
      BY EntityIs, NoRelations
    <3> QED BY <1>3, <3>1 DEF TypeInv
  <2> QED BY <1>1, <1>3, <2>1, <2>2, <2>3, <2>4, GrownTypes
<1> QED BY <1>1, <1>2, <1>3, CreateIs

LEMMA PatchIs ==
    ASSUME TypeInv, Patch
    PROVE  LET patch == Contribution(compiled.order[compiled.shaped + 1])
               e     == patch.patches
           IN  \/ /\ Refuse({"missing-entity"}) \/ Refuse({"reserved-by-feature"})
                  /\ UNCHANGED drafts
               \/ compiled' = [compiled EXCEPT !.shaped = compiled.shaped + 1] /\ UNCHANGED drafts
               \/ /\ compiled' = [compiled EXCEPT !.shaped = compiled.shaped + 1]
                  /\ e \in DOMAIN drafts /\ ~IsReserved(drafts[e], patch)
                  /\ drafts' = [drafts EXCEPT ![e] = Patched(drafts[e], patch)]
<1> DEFINE patch == Contribution(compiled.order[compiled.shaped + 1])
           e     == patch.patches
<1> HIDE DEF patch
<1>1. CASE e = 0
  BY <1>1 DEF Patch, patch
<1>2. CASE e # 0 /\ e \notin DOMAIN drafts
  BY <1>2 DEF Patch, patch
<1>3. CASE e # 0 /\ e \in DOMAIN drafts /\ IsReserved(drafts[e], patch)
  BY <1>3 DEF Patch, patch
<1>4. CASE e # 0 /\ e \in DOMAIN drafts /\ ~IsReserved(drafts[e], patch)
  BY <1>4 DEF Patch, patch
<1> QED BY <1>1, <1>2, <1>3, <1>4 DEF patch

LEMMA ConcatGrows ==
    ASSUME NEW S, NEW s \in Seq(S), NEW t \in Seq(S)
    PROVE  /\ DOMAIN s \subseteq DOMAIN (s \o t)
           /\ \A k \in DOMAIN s : (s \o t)[k] = s[k]
           /\ \A k \in DOMAIN (s \o t) \ DOMAIN s : k - Len(s) \in DOMAIN t /\ (s \o t)[k] = t[k - Len(s)]
<1> DEFINE u == s \o t
<1>1. /\ u \in Seq(S) /\ Len(u) = Len(s) + Len(t)
      /\ \A k \in 1 .. Len(s) + Len(t) : u[k] = IF k <= Len(s) THEN s[k] ELSE t[k - Len(s)]
  BY ConcatProperties
<1>2. /\ Len(s) \in Nat /\ DOMAIN s = 1 .. Len(s) /\ Len(t) \in Nat /\ DOMAIN t = 1 .. Len(t)
      /\ DOMAIN u = 1 .. Len(u)
  BY <1>1, LenProperties
<1> HIDE DEF u
<1>3. /\ DOMAIN s \subseteq DOMAIN u
      /\ \A k \in DOMAIN s : u[k] = s[k]
      /\ \A k \in DOMAIN u \ DOMAIN s : k - Len(s) \in DOMAIN t /\ u[k] = t[k - Len(s)]
  BY <1>1, <1>2
<1> QED BY <1>3 DEF u

LEMMA PatchTypes == ASSUME TypeInv, Patch PROVE TypeInv'
<1> DEFINE patch == Contribution(compiled.order[compiled.shaped + 1])
           e     == patch.patches
<1>1. UNCHANGED <<source, visits, naming>> /\ compiled.step = "patch" /\ compiled.shaped < Len(compiled.order)
  BY DEF Patch
<1>2. compiled.shaped + 1 \in 0 .. Len(compiled.order) /\ patch.relations \in Seq(DeclaredRelation)
  BY <1>1, ShapesOne
<1>3. CASE (Refuse({"missing-entity"}) \/ Refuse({"reserved-by-feature"})) /\ UNCHANGED drafts
  BY <1>1, <1>3, RefuseTypes
<1>4. CASE compiled' = [compiled EXCEPT !.shaped = compiled.shaped + 1]
  <2>1. IsRecord(compiled') /\ compiled'.step = compiled.step /\ compiled'.issues = compiled.issues
        /\ compiled'.order = compiled.order /\ compiled'.shaped = compiled.shaped + 1
    BY <1>4, ShapedFields DEF TypeInv
  <2>2. CASE UNCHANGED drafts
    BY <1>1, <1>2, <2>1, <2>2, GrownTypes DEF TypeInv
  <2>3. CASE e \in DOMAIN drafts /\ drafts' = [drafts EXCEPT ![e] = Patched(drafts[e], patch)]
    <3> HIDE DEF patch
    <3>1. IsEntity(drafts[e]) /\ DOMAIN drafts' = DOMAIN drafts
      BY <2>3 DEF TypeInv
    <3>2. /\ IsEntity(Patched(drafts[e], patch))
          /\ Patched(drafts[e], patch).relations = drafts[e].relations \o patch.relations
      BY <1>2, <3>1, PatchedIs
    <3>3. drafts[e].relations \in Seq(DeclaredRelation)
      BY <3>1 DEF IsEntity
    <3>4. DOMAIN drafts[e].relations \subseteq DOMAIN Patched(drafts[e], patch).relations
      <4> DEFINE a == drafts[e].relations
                 b == patch.relations
      <4>1. a \in Seq(DeclaredRelation) /\ b \in Seq(DeclaredRelation)
        BY <1>2, <3>3
      <4>2. Patched(drafts[e], patch).relations = a \o b
        BY <3>2
      <4> HIDE DEF a, b
      <4>3. DOMAIN a \subseteq DOMAIN (a \o b)
        BY <4>1, ConcatGrows
      <4> QED BY <4>2, <4>3 DEF a
    <3>5. \A c \in DOMAIN drafts : drafts'[c] = IF c = e THEN Patched(drafts[e], patch) ELSE drafts[c]
      BY <2>3
    <3>6. /\ \A c \in DOMAIN drafts' : IsEntity(drafts'[c])
          /\ \A c \in DOMAIN drafts : DOMAIN drafts[c].relations \subseteq DOMAIN drafts'[c].relations
      BY <3>1, <3>2, <3>4, <3>5 DEF TypeInv
    <3>7. DOMAIN drafts' \subseteq Entities
      BY <3>1 DEF TypeInv
    <3> QED BY <1>1, <1>2, <2>1, <3>1, <3>6, <3>7, GrownTypes
  <2> QED BY <1>1, <1>4, <2>2, <2>3, PatchIs, RefuseTypes
<1> QED BY <1>3, <1>4, PatchIs

LEMMA CreatedTypes == ASSUME TypeInv, Created PROVE TypeInv'
<1>1. IsRecord(compiled') /\ compiled'.step = "patch" /\ compiled'.issues = compiled.issues
      /\ compiled'.order = compiled.order /\ compiled'.shaped = 0
  BY ShapedFields DEF Created, TypeInv
<1> QED BY <1>1, GoesOnTypes, LenProperties DEF Created, TypeInv, NamingIs, Steps

LEMMA ShapedTypes == ASSUME TypeInv, Shaped PROVE TypeInv'
<1>1. IsRecord(compiled') /\ compiled'.step = "expand" /\ compiled'.issues = compiled.issues
      /\ compiled'.order = compiled.order /\ compiled'.shaped = compiled.shaped
  BY StepFields DEF Shaped, TypeInv
<1>2. NamingIs'
  BY UnnamedIs DEF Shaped, NamingIs
<1> QED BY <1>1, <1>2, GoesOnTypes DEF Shaped, TypeInv, Steps

LEMMA ExpandTypes == ASSUME TypeInv, NEW d \in naming.left, Expand(d) PROVE TypeInv'
<1> DEFINE issues == RelationIssues(RelationAt(drafts, d), DOMAIN drafts)
<1>1. UNCHANGED <<source, visits, drafts>>
  BY DEF Expand
<1>2. CASE issues # {} /\ Refuse(issues) /\ UNCHANGED naming
  BY <1>1, <1>2, RefuseTypes
<1>3. CASE naming' = Named(d) /\ UNCHANGED compiled
  <2>1. NamingIs'
    BY <1>1, <1>3, NamedIs DEF TypeInv, NamingIs
  <2> QED BY <1>1, <1>3, <2>1 DEF TypeInv, NamingIs
<1> QED BY <1>2, <1>3 DEF Expand

LEMMA NormalizeTypes == ASSUME TypeInv, Normalize PROVE TypeInv'
<1> DEFINE unsupported == \E d \in Declared(drafts) : RelationAt(drafts, d).type = "manyToMany"
           issues == IF NormalIssues # {} THEN NormalIssues
                     ELSE IF unsupported THEN {"unsupported-relation"} ELSE {}
           w == With("render", compiled.issues, compiled.said, compiled.order, compiled.shaped,
                     Normalized, compiled.files)
<1>1. UNCHANGED <<source, visits, drafts, naming>> /\ compiled.step = "expand" /\ IsRecord(compiled)
  BY DEF Normalize, TypeInv
<1>2. CASE issues # {} /\ Refuse(issues)
  BY <1>1, <1>2, RefuseTypes
<1>3. CASE compiled' = [compiled EXCEPT !.step = "render", !.entities = Normalized]
  <2>1. compiled' = w
    BY <1>1, <1>3 DEF IsRecord, With
  <2> HIDE DEF w
  <2>2. IsRecord(compiled') /\ compiled'.step = "render" /\ compiled'.issues = compiled.issues
        /\ compiled'.order = compiled.order /\ compiled'.shaped = compiled.shaped
    BY <2>1, WithFields DEF w
  <2> QED BY <1>1, <2>2, GoesOnTypes DEF TypeInv, NamingIs, Steps
<1> QED BY <1>2, <1>3 DEF Normalize

LEMMA RenderTypes == ASSUME TypeInv, Render PROVE TypeInv'
<1> DEFINE files == UNION {Contribution(p).files : p \in Ordered}
           w == With("done", compiled.issues, compiled.said, compiled.order, compiled.shaped,
                     compiled.entities, files)
<1>1. UNCHANGED <<source, visits, drafts, naming>> /\ compiled.step = "render" /\ IsRecord(compiled)
  BY DEF Render, TypeInv
<1>2. CASE Refuse({"file-conflict"})
  BY <1>1, <1>2, RefuseTypes
<1>3. CASE compiled' = [compiled EXCEPT !.step = "done", !.files = files]
  <2> HIDE DEF files
  <2>1. compiled' = w
    BY <1>1, <1>3 DEF IsRecord, With
  <2> HIDE DEF w
  <2>2. IsRecord(compiled') /\ compiled'.step = "done" /\ compiled'.issues = compiled.issues
        /\ compiled'.order = compiled.order /\ compiled'.shaped = compiled.shaped
    BY <2>1, WithFields DEF w
  <2> QED BY <1>1, <2>2, GoesOnTypes DEF TypeInv, NamingIs, Steps
<1> QED BY <1>2, <1>3 DEF Render

-----------------------------------------------------------------------------
(* The order of the packs.  What a call of visit has to look at, and what  *)
(* it has looked at is ordered or under way.                               *)
Wanted(p) == IF p = 0 THEN Selected ELSE Needs(p) \cap Selected

Sorted ==
    /\ Ordered \subseteq Selected
    /\ \A i, j \in DOMAIN compiled.order : compiled.order[i] = compiled.order[j] => i = j
    /\ \A j \in DOMAIN compiled.order : \A q \in Needs(compiled.order[j]) \cap Selected :
          \E i \in DOMAIN compiled.order : i < j /\ compiled.order[i] = q

Walk ==
    LET n == Len(visits)
    IN  /\ visits[1].pack = 0
        /\ \A k \in 2 .. n : visits[k].pack \in Selected \ Ordered
        /\ \A j, k \in 2 .. n : visits[j].pack = visits[k].pack => j = k
        /\ \A k \in 1 .. n : visits[k].left \subseteq Wanted(visits[k].pack)
        /\ \A k \in 1 .. n - 1 : /\ visits[k + 1].pack \in Wanted(visits[k].pack)
                                 /\ Wanted(visits[k].pack) \ visits[k].left
                                    \subseteq Ordered \cup {visits[k + 1].pack}
        /\ Wanted(visits[n].pack) \ visits[n].left \subseteq Ordered

LEMMA SelectionKept ==
    ASSUME UNCHANGED source
    PROVE  /\ Selected' = Selected /\ \A p : Wanted(p)' = Wanted(p) /\ Needs(p)' = Needs(p)
           /\ (Sound' <=> Sound) /\ SelectionIssues' = SelectionIssues
  BY DEF Selected, Wanted, Needs, Sound, Circular, SelectionIssues

LEMMA OrderKept ==
    ASSUME UNCHANGED source, compiled'.order = compiled.order
    PROVE  Ordered' = Ordered /\ (Sorted' <=> Sorted)
  BY SelectionKept DEF Ordered, Sorted

LEMMA WalkKept ==
    ASSUME UNCHANGED <<source, visits>>, compiled'.order = compiled.order
    PROVE  Walk' <=> Walk
<1>1. UNCHANGED visits /\ Selected' = Selected /\ Ordered' = Ordered /\ \A p : Wanted(p)' = Wanted(p)
  BY SelectionKept, OrderKept
<1>2. Walk => Walk'
  BY <1>1 DEF Walk
<1>3. Walk' => Walk
  BY <1>1 DEF Walk
<1> QED BY <1>2, <1>3

LEMMA ResolveWalk == ASSUME TypeInv, compiled.order = <<>>, Resolve PROVE (Sorted /\ Walk)'
<1>1. compiled'.order = <<>> /\ UNCHANGED source /\ visits' = <<AllPacks>>
  BY StepFields DEF Resolve, TypeInv
<1>2. Ordered' = {} /\ DOMAIN compiled'.order = {}
  BY <1>1 DEF Ordered
<1>3. Sorted'
  BY <1>1, <1>2 DEF Sorted
<1>4. Len(visits') = 1 /\ visits'[1].pack = 0 /\ visits'[1].left = Selected'
  BY <1>1, SelectionKept DEF AllPacks
<1>5. Wanted(0)' = Selected'
  BY DEF Wanted
<1> QED BY <1>2, <1>3, <1>4, <1>5 DEF Walk

LEMMA VisitWalk ==
    ASSUME TypeInv, Sorted, Walk, NEW p \in Packs, Visit(p), p \notin Visiting
    PROVE  UNCHANGED compiled /\ (Sorted /\ Walk)'
<1> DEFINE n    == Len(visits)
           rest == [visits EXCEPT ![n].left = @ \ {p}]
<1>1. /\ n \in Nat \ {0} /\ DOMAIN visits = 1 .. n /\ p \in visits[n].left
      /\ UNCHANGED <<source, compiled>> /\ p # 0
      /\ visits' = IF p \in Ordered THEN rest ELSE Append(rest, Call(p))
  BY InnermostIs, PacksAre DEF Visit, Refuse, TypeInv
<1>2. /\ rest \in Seq(Frame) /\ Len(rest) = n
      /\ rest[n].pack = visits[n].pack /\ rest[n].left = visits[n].left \ {p}
      /\ \A k \in 1 .. n - 1 : rest[k] = visits[k]
      /\ Call(p) \in Frame
  BY VisitIs
<1>0. n \in Nat /\ n >= 1
  BY <1>1
<1>3. /\ Ordered' = Ordered /\ Sorted' /\ Selected' = Selected /\ \A q : Wanted(q)' = Wanted(q)
  BY <1>1, OrderKept, SelectionKept
<1>4. p \in Wanted(visits[n].pack) /\ Wanted(visits[n].pack) \subseteq Selected
  BY <1>1 DEF Walk, Wanted
<1>5. \A k \in 1 .. n : /\ rest[k].pack = visits[k].pack
                        /\ rest[k].left \subseteq visits[k].left
                        /\ k < n => rest[k].left = visits[k].left
  <2> SUFFICES ASSUME NEW k \in 1 .. n PROVE /\ rest[k].pack = visits[k].pack
                        /\ rest[k].left \subseteq visits[k].left
                        /\ k < n => rest[k].left = visits[k].left
    OBVIOUS
  <2> HIDE DEF rest
  <2>1. CASE k = n
    BY <1>1, <1>2, <2>1
  <2>2. CASE k # n
    <3>1. k \in 1 .. n - 1
      BY <1>0, <2>2
    <3> QED BY <1>2, <3>1
  <2> QED BY <2>1, <2>2
<1> HIDE DEF rest
<1>6. CASE p \in Ordered
  <2>1. visits' = rest /\ Len(visits') = n
    BY <1>1, <1>2, <1>6
  <2>2. visits'[1].pack = 0
    <3>1. visits[1].pack = 0
      BY DEF Walk
    <3>2. 1 \in 1 .. n
      BY <1>0
    <3> QED BY <1>5, <2>1, <3>1, <3>2
  <2>3. \A k \in 2 .. n : visits'[k].pack \in Selected \ Ordered
    BY <1>0, <1>5, <2>1 DEF Walk
  <2>4. \A j, k \in 2 .. n : visits'[j].pack = visits'[k].pack => j = k
    BY <1>0, <1>5, <2>1 DEF Walk
  <2>5. \A k \in 1 .. n : visits'[k].left \subseteq Wanted(visits'[k].pack)
    BY <1>0, <1>5, <2>1 DEF Walk
  <2>6. \A k \in 1 .. n - 1 : /\ visits'[k + 1].pack \in Wanted(visits'[k].pack)
                              /\ Wanted(visits'[k].pack) \ visits'[k].left
                                 \subseteq Ordered \cup {visits'[k + 1].pack}
    <3> SUFFICES ASSUME NEW k \in 1 .. n - 1
                 PROVE  /\ visits'[k + 1].pack \in Wanted(visits'[k].pack)
                        /\ Wanted(visits'[k].pack) \ visits'[k].left
                           \subseteq Ordered \cup {visits'[k + 1].pack}
      OBVIOUS
    <3>1. k \in 1 .. n /\ k + 1 \in 1 .. n /\ k < n
      BY <1>0
    <3> QED BY <1>5, <2>1, <3>1 DEF Walk
  <2>7. Wanted(visits'[n].pack) \ visits'[n].left \subseteq Ordered
    <3>1. Wanted(visits[n].pack) \ visits[n].left \subseteq Ordered
      BY DEF Walk
    <3> QED BY <1>2, <1>6, <2>1, <3>1
  <2>8. Walk'
    BY <1>3, <2>1, <2>2, <2>3, <2>4, <2>5, <2>6, <2>7 DEF Walk
  <2> QED BY <1>1, <1>3, <2>8
<1>7. CASE p \notin Ordered
  <2>1. /\ visits' = Append(rest, Call(p)) /\ Len(visits') = n + 1 /\ visits'[n + 1] = Call(p)
        /\ \A k \in 1 .. n : visits'[k] = rest[k]
    BY <1>1, <1>2, <1>7, AppendProperties
  <2>2. Call(p).pack = p /\ Call(p).left = Wanted(p)
    BY <1>1 DEF Call, Wanted, Needs
  <2>3. \A k \in 2 .. n : visits[k].pack # p
    BY <1>1 DEF Visiting
  <2>4. visits'[1].pack = 0
    BY <1>1, <1>5, <2>1 DEF Walk
  <2>5. \A k \in 2 .. n + 1 : visits'[k].pack \in Selected \ Ordered
    BY <1>1, <1>4, <1>5, <1>7, <2>1, <2>2 DEF Walk
  <2>6. \A j, k \in 2 .. n + 1 : visits'[j].pack = visits'[k].pack => j = k
    BY <1>1, <1>5, <2>1, <2>2, <2>3 DEF Walk
  <2>7. \A k \in 1 .. n + 1 : visits'[k].left \subseteq Wanted(visits'[k].pack)
    BY <1>1, <1>5, <2>1, <2>2 DEF Walk
  <2>8. \A k \in 1 .. n : /\ visits'[k + 1].pack \in Wanted(visits'[k].pack)
                          /\ Wanted(visits'[k].pack) \ visits'[k].left
                             \subseteq Ordered \cup {visits'[k + 1].pack}
    <3> SUFFICES ASSUME NEW k \in 1 .. n
                 PROVE  /\ visits'[k + 1].pack \in Wanted(visits'[k].pack)
                        /\ Wanted(visits'[k].pack) \ visits'[k].left
                           \subseteq Ordered \cup {visits'[k + 1].pack}
      OBVIOUS
    <3>1. CASE k = n
      <4>1. /\ visits'[k + 1].pack = p
            /\ visits'[k].pack = visits[n].pack /\ visits'[k].left = visits[n].left \ {p}
        BY <1>2, <2>1, <2>2, <3>1
      <4>2. Wanted(visits[n].pack) \ visits[n].left \subseteq Ordered
        BY DEF Walk
      <4> QED BY <1>4, <4>1, <4>2
    <3>2. CASE k # n
      <4>1. k \in 1 .. n - 1 /\ k + 1 \in 1 .. n /\ k < n
        BY <1>0, <3>2
      <4> QED BY <1>5, <2>1, <4>1 DEF Walk
    <3> QED BY <3>1, <3>2
  <2>9. Wanted(visits'[n + 1].pack) \ visits'[n + 1].left \subseteq Ordered
    BY <2>1, <2>2
  <2>10. Len(visits') - 1 = n
    BY <1>1, <2>1
  <2> QED BY <1>1, <1>3, <2>1, <2>4, <2>5, <2>6, <2>7, <2>8, <2>9, <2>10 DEF Walk
<1> QED BY <1>6, <1>7

LEMMA VisitCycle ==
    ASSUME TypeInv, Walk, NEW p \in Packs, Visit(p), p \in Visiting
    PROVE  Circular
<1> DEFINE n == Len(visits)
<1>1. n \in Nat \ {0} /\ DOMAIN visits = 1 .. n /\ p \in visits[n].left /\ p # 0
  BY InnermostIs, PacksAre DEF Visit
<1>0. n \in Nat /\ n >= 1
  BY <1>1
<1>2. PICK j \in 1 .. n : visits[j].pack = p
  BY <1>1 DEF Visiting
<1>3. j \in 2 .. n
  <2>1. j # 1
    BY <1>1, <1>2 DEF Walk
  <2> QED BY <1>0, <2>1
<1> DEFINE C == {visits[k].pack : k \in j .. n}
<1>4. C \in SUBSET source.requested /\ C # {}
  BY <1>1, <1>3 DEF Walk, Selected
<1>5. ASSUME NEW k \in j .. n PROVE Needs(visits[k].pack) \cap C # {}
  <2>1. visits[k].pack # 0 /\ k \in 1 .. n
    BY <1>1, <1>3, PacksAre DEF Walk, Selected, TypeInv, WellFormed
  <2>2. CASE k = n
    BY <1>1, <1>2, <2>1, <2>2 DEF Walk, Wanted
  <2>3. CASE k # n
    <3>1. k \in 1 .. n - 1 /\ k + 1 \in j .. n
      BY <1>0, <1>3, <2>3
    <3>2. visits[k + 1].pack \in C
      BY <3>1
    <3>3. visits[k + 1].pack \in Wanted(visits[k].pack)
      BY <3>1 DEF Walk
    <3> QED BY <2>1, <3>2, <3>3 DEF Wanted
  <2> QED BY <2>2, <2>3
<1> HIDE DEF C
<1>6. \A q \in C : Needs(q) \cap C # {}
  BY <1>5 DEF C
<1> QED BY <1>4, <1>6 DEF Circular

LEMMA LeaveWalk ==
    ASSUME TypeInv, Sorted, Walk, Leave
    PROVE  visits[Len(visits)].pack \in Packs /\ (Sorted /\ Walk)'
<1> DEFINE n == Len(visits)
           m == Len(compiled.order)
           p == visits[n].pack
<1>1. /\ n \in Nat /\ n > 1 /\ Len(visits') = n - 1
      /\ \A k \in 1 .. n - 1 : visits'[k] = visits[k]
      /\ compiled'.order = Append(compiled.order, p)
  BY LeaveIs
<1>2. UNCHANGED source /\ visits[n].left = {}
  BY InnermostIs DEF Leave
<1>3. Selected' = Selected /\ (\A q : Wanted(q)' = Wanted(q) /\ Needs(q)' = Needs(q))
  BY <1>2, SelectionKept
<1>4. p \in Selected \ Ordered /\ Selected \subseteq Packs
  BY <1>1 DEF Walk, Selected, TypeInv, WellFormed
<1>5. Wanted(p) \subseteq Ordered /\ Wanted(p) = Needs(p) \cap Selected
  BY <1>2, <1>4, PacksAre DEF Walk, Wanted
<1> HIDE DEF p
<1>6. /\ m \in Nat /\ DOMAIN compiled.order = 1 .. m /\ DOMAIN compiled'.order = 1 .. m + 1
      /\ \A i \in 1 .. m : compiled'.order[i] = compiled.order[i]
      /\ compiled'.order[m + 1] = p
  BY <1>1, <1>4, AppendProperties, LenProperties DEF TypeInv
<1>7. Ordered' = Ordered \cup {p}
  BY <1>6 DEF Ordered
<1>8. Sorted'
  <2>1. \A i, j \in 1 .. m + 1 : compiled'.order[i] = compiled'.order[j] => i = j
    <3>1. \A i \in 1 .. m : compiled.order[i] # p
      BY <1>4, <1>6 DEF Ordered
    <3>2. \A i \in 1 .. m + 1 : i \in 1 .. m \/ i = m + 1
      BY <1>6
    <3> QED BY <1>6, <3>1, <3>2 DEF Sorted
  <2>2. ASSUME NEW j \in 1 .. m + 1, NEW q \in Needs(compiled'.order[j]) \cap Selected
        PROVE  \E i \in 1 .. m + 1 : i < j /\ compiled'.order[i] = q
    <3>1. CASE j = m + 1
      <4>1. q \in Ordered
        BY <1>5, <1>6, <2>2, <3>1
      <4>2. PICK i \in 1 .. m : compiled.order[i] = q
        BY <1>6, <4>1 DEF Ordered
      <4> QED BY <1>6, <3>1, <4>2
    <3>2. CASE j # m + 1
      <4>1. j \in 1 .. m
        BY <1>6, <3>2
      <4>2. PICK i \in 1 .. m : i < j /\ compiled.order[i] = q
        BY <1>6, <2>2, <4>1 DEF Sorted
      <4> QED BY <1>6, <4>2
    <3> QED BY <3>1, <3>2
  <2>3. Ordered' \subseteq Selected
    BY <1>4, <1>7 DEF Sorted
  <2> QED BY <1>3, <1>6, <2>1, <2>2, <2>3, SMTT(20) DEF Sorted
<1>9. Walk'
  <2>1. \A k \in 2 .. n - 1 : visits'[k].pack \in Selected \ Ordered'
    <3> SUFFICES ASSUME NEW k \in 2 .. n - 1 PROVE visits'[k].pack \in Selected \ Ordered'
      OBVIOUS
    <3>1. k \in 2 .. n /\ n \in 2 .. n /\ k # n /\ visits'[k] = visits[k]
      BY <1>1
    <3> QED BY <1>7, <3>1 DEF Walk, p
  <2>2. \A j, k \in 2 .. n - 1 : visits'[j].pack = visits'[k].pack => j = k
    <3>1. \A k \in 2 .. n - 1 : k \in 2 .. n /\ visits'[k] = visits[k]
      BY <1>1
    <3> QED BY <3>1 DEF Walk
  <2>3. \A k \in 1 .. n - 1 : visits'[k].left \subseteq Wanted(visits'[k].pack)
    <3>1. \A k \in 1 .. n - 1 : k \in 1 .. n /\ visits'[k] = visits[k]
      BY <1>1
    <3> QED BY <3>1 DEF Walk
  <2>4. \A k \in 1 .. n - 2 : /\ visits'[k + 1].pack \in Wanted(visits'[k].pack)
                              /\ Wanted(visits'[k].pack) \ visits'[k].left
                                 \subseteq Ordered' \cup {visits'[k + 1].pack}
    <3>1. \A k \in 1 .. n - 2 : k \in 1 .. n - 1 /\ visits'[k] = visits[k] /\ visits'[k + 1] = visits[k + 1]
      BY <1>1
    <3> QED BY <1>7, <3>1 DEF Walk
  <2>5. Wanted(visits'[n - 1].pack) \ visits'[n - 1].left \subseteq Ordered'
    <3>1. n - 1 \in 1 .. n - 1 /\ visits'[n - 1] = visits[n - 1] /\ (n - 1) + 1 = n
      BY <1>1
    <3>2. Wanted(visits[n - 1].pack) \ visits[n - 1].left \subseteq Ordered \cup {p}
      BY <3>1 DEF Walk, p
    <3> QED BY <1>7, <3>1, <3>2
  <2>6. visits'[1].pack = 0 /\ (n - 1) - 1 = n - 2
    BY <1>1 DEF Walk
  <2> QED BY <1>1, <1>3, <2>1, <2>2, <2>3, <2>4, <2>5, <2>6 DEF Walk
<1> QED BY <1>4, <1>8, <1>9 DEF p

(* A set of numbers from 1 on has a least one.                             *)
LEMMA LeastOf ==
    ASSUME NEW n \in Nat, NEW J \in SUBSET (1 .. n), J # {}
    PROVE  \E m \in J : \A j \in J : m <= j
<1> DEFINE T == {1 .. j : j \in J}
<1>1. IsFiniteSet(1 .. n)
  BY FS_Interval
<1>2. T \subseteq FiniteSubsetsOf(1 .. n) /\ T # {}
  <2>1. \A j \in J : 1 .. j \subseteq 1 .. n
    OBVIOUS
  <2>2. \A j \in J : IsFiniteSet(1 .. j)
    BY <1>1, <2>1, FS_Subset
  <2> QED BY <2>1, <2>2 DEF FiniteSubsetsOf
<1>3. IsWellFoundedOn(StrictSubsetOrdering(1 .. n), FiniteSubsetsOf(1 .. n))
  BY FS_StrictSubsetOrderingWellFounded
<1>4. PICK X \in T : \A Y \in T : <<Y, X>> \notin StrictSubsetOrdering(1 .. n)
  BY <1>2, <1>3, WFMin
<1>5. PICK m \in J : X = 1 .. m
  OBVIOUS
<1>6. ASSUME NEW j \in J PROVE m <= j
  <2> SUFFICES ASSUME ~(m <= j) PROVE FALSE
    OBVIOUS
  <2>1. m \in 1 .. n /\ j \in 1 .. n /\ j < m
    OBVIOUS
  <2>2. 1 .. j \subseteq 1 .. m /\ m \in 1 .. m /\ m \notin 1 .. j
    BY <2>1
  <2>3. 1 .. j \in SUBSET (1 .. n) /\ 1 .. m \in SUBSET (1 .. n)
    BY <2>1
  <2>4. <<1 .. j, 1 .. m>> \in StrictSubsetOrdering(1 .. n)
    BY <2>2, <2>3 DEF StrictSubsetOrdering
  <2> QED BY <1>4, <1>5, <2>4
<1> QED BY <1>6

LEMMA SortedIsAcyclic == ASSUME TypeInv, Sorted, Ordered = source.requested PROVE ~Circular
<1> SUFFICES ASSUME NEW C \in SUBSET source.requested, C # {}, \A p \in C : Needs(p) \cap C # {}
             PROVE  FALSE
  BY DEF Circular
<1> DEFINE n == Len(compiled.order)
           J == {j \in 1 .. n : compiled.order[j] \in C}
<1>1. n \in Nat /\ DOMAIN compiled.order = 1 .. n
  BY LenProperties DEF TypeInv
<1>2. J \in SUBSET (1 .. n) /\ J # {}
  BY <1>1 DEF Ordered
<1>3. PICK m \in J : \A j \in J : m <= j
  BY <1>1, <1>2, LeastOf
<1>4. PICK q \in Needs(compiled.order[m]) : q \in C
  OBVIOUS
<1>5. q \in Selected
  BY <1>4 DEF Sorted
<1>6. PICK i \in DOMAIN compiled.order : i < m /\ compiled.order[i] = q
  BY <1>1, <1>4, <1>5 DEF Sorted
<1>7. i \in J /\ i \in Nat /\ m \in Nat
  BY <1>1, <1>4, <1>6
<1> QED BY <1>3, <1>6, <1>7

-----------------------------------------------------------------------------
(* The packs of a project.                                                 *)
PackIssues == {"unknown", "missing-dependency", "conflict", "unfit", "circular-dependency"}

Begun == {"create", "patch", "expand", "render", "done"}

FilesKept == \A p \in source.requested : \A f \in Contribution(p).files :
                {g \in compiled.files : g.path = f.path} = {f}

PacksInv ==
    /\ compiled.step \in {"validate", "resolve"} => compiled.order = <<>>
    /\ compiled.step = "order" => Sorted /\ Walk
    /\ compiled.step \in Begun => Sound /\ Sorted /\ Ordered = source.requested
    /\ compiled.issues \cap PackIssues # {} => ~Sound
    /\ compiled.step = "done" => FilesKept

LEMMA ReachedIs ==
    /\ Reached("create") <=> compiled.step \in Begun
    /\ Reached("render") <=> compiled.step \in {"render", "done"}
    /\ Reached("done") <=> compiled.step = "done"
  BY DEF Reached, Begun

LEMMA PacksKeep ==
    ASSUME PacksInv, UNCHANGED source, compiled'.order = compiled.order,
           compiled'.step \in {"validate", "resolve"} => compiled.step \in {"validate", "resolve"},
           compiled'.step # "order",
           compiled'.step \in Begun => compiled.step \in Begun,
           compiled'.step # "done",
           compiled'.issues = compiled.issues \/ compiled'.issues \cap PackIssues = {}
    PROVE  PacksInv'
<1>1. Ordered' = Ordered /\ (Sorted' <=> Sorted) /\ (Sound' <=> Sound)
  BY OrderKept, SelectionKept
<1> QED BY <1>1 DEF PacksInv

LEMMA OtherIssues ==
    /\ \A entities, names : SpecificationIssues(entities, names) \cap PackIssues = {}
    /\ \A r, known : RelationIssues(r, known) \cap PackIssues = {}
    /\ NormalIssues \cap PackIssues = {}
<1>1. ASSUME NEW r, NEW known PROVE RelationIssues(r, known) \cap PackIssues = {}
  BY DEF RelationIssues, PackIssues
<1>2. ASSUME NEW entities, NEW names PROVE SpecificationIssues(entities, names) \cap PackIssues = {}
  BY <1>1 DEF SpecificationIssues, PackIssues
<1>3. ASSUME NEW draft, NEW relations PROVE Ambiguous(draft, relations) \cap PackIssues = {}
  BY DEF Ambiguous, PackIssues
<1>4. NormalIssues \cap PackIssues = {}
  BY <1>3 DEF NormalIssues, PackIssues
<1> QED BY <1>1, <1>2, <1>4

LEMMA SelectionIssuesMean ==
    /\ SelectionIssues # {} => ~Sound
    /\ SelectionIssues = {} =>
         /\ Selected = source.requested
         /\ \A p \in source.requested : /\ Needs(p) \subseteq source.requested
                                        /\ source.registry.conflictsWith[p] \cap source.requested = {}
<1>1. SelectionIssues # {} => ~Sound
  <2>1. source.requested # Selected => ~Sound
    BY DEF Sound, Selected
  <2>2. (\E p \in Selected : ~(source.registry.dependsOn[p] \subseteq Selected)) /\ source.requested = Selected => ~Sound
    BY DEF Sound, Needs
  <2>3. (\E p \in Selected : source.registry.conflictsWith[p] \cap Selected # {}) /\ source.requested = Selected => ~Sound
    BY DEF Sound
  <2> QED BY <2>1, <2>2, <2>3 DEF SelectionIssues
<1>2. ASSUME SelectionIssues = {}
      PROVE  /\ Selected = source.requested
             /\ \A p \in source.requested : /\ Needs(p) \subseteq source.requested
                                            /\ source.registry.conflictsWith[p] \cap source.requested = {}
  <2>1. Selected = source.requested
    BY <1>2 DEF SelectionIssues
  <2>2. \A p \in Selected : source.registry.dependsOn[p] \subseteq Selected
    BY <1>2 DEF SelectionIssues
  <2>3. \A p \in Selected : source.registry.conflictsWith[p] \cap Selected = {}
    BY <1>2 DEF SelectionIssues
  <2> QED BY <2>1, <2>2, <2>3 DEF Needs
<1> QED BY <1>1, <1>2

LEMMA VisitPacks == ASSUME TypeInv, PacksInv, NEW p \in Packs, Visit(p) PROVE PacksInv'
<1>1. Sorted /\ Walk /\ compiled.step = "order" /\ UNCHANGED source
  BY DEF PacksInv, Visit
<1>2. CASE p \notin Visiting
  <2>1. UNCHANGED compiled /\ Sorted' /\ Walk'
    BY <1>1, <1>2, VisitWalk
  <2>2. Sound' <=> Sound
    BY <1>1, SelectionKept
  <2> QED BY <1>1, <2>1, <2>2 DEF PacksInv, Begun
<1>3. CASE p \in Visiting
  <2>1. Refuse(SelectionIssues \cup {"circular-dependency"})
    BY <1>3 DEF Visit
  <2>2. compiled'.step = "refused"
    BY <2>1, RefuseFields DEF TypeInv
  <2>3. ~Sound
    BY <1>1, <1>3, VisitCycle DEF Sound
  <2>4. ~Sound'
    BY <1>1, <2>3, SelectionKept
  <2> QED BY <2>2, <2>4 DEF PacksInv, Begun
<1> QED BY <1>2, <1>3

LEMMA LeavePacks == ASSUME TypeInv, PacksInv, Leave PROVE PacksInv'
<1>1. Sorted /\ Walk /\ compiled.step = "order" /\ UNCHANGED source
  BY DEF PacksInv, Leave
<1>2. Sorted' /\ Walk' /\ compiled'.step = "order" /\ compiled'.issues = compiled.issues
  BY <1>1, LeaveWalk, LeaveIs
<1>3. Sound' <=> Sound
  BY <1>1, SelectionKept
<1> QED BY <1>1, <1>2, <1>3 DEF PacksInv, Begun

LEMMA ResolvedPacks == ASSUME TypeInv, PacksInv, Resolved PROVE PacksInv'
<1> DEFINE issues == SelectionIssues \cup (IF Selected \cap source.registry.unfit # {} THEN {"unfit"} ELSE {})
<1>1. Sorted /\ Walk /\ compiled.step = "order" /\ UNCHANGED source /\ Len(visits) = 1 /\ Innermost.left = {}
  BY DEF PacksInv, Resolved
<1>2. CASE issues # {} /\ Refuse(issues)
  <2>1. compiled'.step = "refused"
    BY <1>2, RefuseFields DEF TypeInv
  <2>2. Selected \cap source.registry.unfit # {} => ~Sound
    BY DEF Sound, Selected
  <2>3. ~Sound
    BY <1>2, <2>2, SelectionIssuesMean
  <2>4. ~Sound'
    BY <1>1, <2>3, SelectionKept
  <2> QED BY <2>1, <2>4 DEF PacksInv, Begun
<1>3. CASE issues = {} /\ compiled' = [compiled EXCEPT !.step = "create"]
  <2>1. compiled'.step = "create" /\ compiled'.issues = compiled.issues /\ compiled'.order = compiled.order
    BY <1>3, StepFields DEF TypeInv
  <2>2. SelectionIssues = {} /\ Selected \cap source.registry.unfit = {}
    BY <1>3
  <2>3. /\ Selected = source.requested
        /\ \A p \in source.requested : /\ Needs(p) \subseteq source.requested
                                       /\ source.registry.conflictsWith[p] \cap source.requested = {}
    BY <2>2, SelectionIssuesMean
  <2>4. Wanted(0) \subseteq Ordered
    BY <1>1 DEF Walk, Innermost
  <2>5. Ordered = source.requested
    BY <1>1, <2>3, <2>4 DEF Wanted, Sorted
  <2>6. ~Circular
    BY <1>1, <2>5, SortedIsAcyclic
  <2>7. Sound
    BY <2>2, <2>3, <2>6 DEF Sound, Selected
  <2>8. Ordered' = Ordered /\ Sorted' /\ Sound'
    BY <1>1, <2>1, <2>7, OrderKept, SelectionKept
  <2> QED BY <1>1, <2>1, <2>5, <2>8 DEF PacksInv, TypeInv
<1> QED BY <1>2, <1>3 DEF Resolved

LEMMA RenderPacks == ASSUME TypeInv, PacksInv, Render PROVE PacksInv'
<1> DEFINE files == UNION {Contribution(p).files : p \in Ordered}
           w == With("done", compiled.issues, compiled.said, compiled.order, compiled.shaped,
                     compiled.entities, files)
<1>1. UNCHANGED source /\ compiled.step = "render" /\ IsRecord(compiled) /\ Ordered = source.requested
  BY DEF Render, TypeInv, PacksInv, Begun
<1>2. CASE Refuse({"file-conflict"})
  <2>1. compiled'.step = "refused" /\ compiled'.issues = {"file-conflict"} /\ compiled'.order = compiled.order
    BY <1>1, <1>2, RefuseFields
  <2> QED BY <1>1, <2>1, PacksKeep DEF PackIssues, Begun
<1>3. CASE /\ ~\E f, g \in files : f.path = g.path /\ f # g
           /\ compiled' = [compiled EXCEPT !.step = "done", !.files = files]
  <2> HIDE DEF files
  <2>1. compiled' = w
    BY <1>1, <1>3 DEF IsRecord, With
  <2> HIDE DEF w
  <2>2. compiled'.step = "done" /\ compiled'.issues = compiled.issues
        /\ compiled'.order = compiled.order /\ compiled'.files = files
    BY <2>1, WithFields DEF w
  <2>3. Ordered' = Ordered /\ (Sorted' <=> Sorted) /\ (Sound' <=> Sound)
    BY <1>1, <2>2, OrderKept, SelectionKept
  <2>4. \A p \in source.requested : \A f \in Contribution(p).files : {g \in files : g.path = f.path} = {f}
    <3> SUFFICES ASSUME NEW p \in source.requested, NEW f \in Contribution(p).files
                 PROVE  {g \in files : g.path = f.path} = {f}
      OBVIOUS
    <3>1. f \in files
      BY <1>1 DEF files
    <3> QED BY <1>3, <3>1
  <2>5. FilesKept'
    BY <1>1, <2>2, <2>4 DEF FilesKept, Contribution
  <2> QED BY <1>1, <2>2, <2>3, <2>5 DEF PacksInv, Begun
<1> QED BY <1>2, <1>3 DEF Render

LEMMA OtherPacks ==
    ASSUME TypeInv, PacksInv,
           \/ \E d \in naming.left : Mirror(d) \/ Expand(d)
           \/ Validate \/ Resolve \/ Create \/ Created \/ Patch \/ Shaped \/ Normalize
    PROVE  PacksInv'
<1>1. ASSUME NEW d \in naming.left, Mirror(d) PROVE PacksInv'
  BY <1>1, OrderKept, SelectionKept DEF Mirror, PacksInv, Walk, FilesKept, Contribution
<1>2. ASSUME NEW d \in naming.left, Expand(d) PROVE PacksInv'
  <2>1. UNCHANGED source /\ compiled.step = "expand"
    BY <1>2 DEF Expand
  <2>2. CASE UNCHANGED compiled
    BY <2>1, <2>2, PacksKeep DEF Begun
  <2>3. CASE Refuse(RelationIssues(RelationAt(drafts, d), DOMAIN drafts))
    BY <2>1, <2>3, RefuseFields, OtherIssues, PacksKeep DEF TypeInv, Begun
  <2> QED BY <1>2, <2>2, <2>3 DEF Expand
<1>3. ASSUME Validate PROVE PacksInv'
  <2> DEFINE issues == SpecificationIssues(drafts, naming.names)
             v == With("refused", issues, issues, compiled.order, compiled.shaped,
                       compiled.entities, compiled.files)
             w == With("resolve", compiled.issues, issues, compiled.order, compiled.shaped,
                       compiled.entities, compiled.files)
  <2>1. UNCHANGED source /\ compiled.step = "validate" /\ issues \cap PackIssues = {}
    BY <1>3, OtherIssues DEF Validate
  <2> HIDE DEF issues
  <2>2. compiled' = v \/ compiled' = w
    BY <1>3 DEF Validate, TypeInv, IsRecord, With, issues
  <2> HIDE DEF v, w
  <2>3. CASE compiled' = v
    <3>1. compiled'.step = "refused" /\ compiled'.issues = issues /\ compiled'.order = compiled.order
      BY <2>3, WithFields DEF v
    <3> QED BY <2>1, <3>1, PacksKeep DEF Begun
  <2>4. CASE compiled' = w
    <3>1. compiled'.step = "resolve" /\ compiled'.issues = compiled.issues /\ compiled'.order = compiled.order
      BY <2>4, WithFields DEF w
    <3> QED BY <2>1, <3>1, PacksKeep DEF Begun
  <2> QED BY <2>2, <2>3, <2>4
<1>4. ASSUME Resolve PROVE PacksInv'
  <2>1. compiled'.step = "order" /\ compiled'.issues = compiled.issues /\ compiled.step = "resolve" /\ UNCHANGED source
    BY <1>4, StepFields DEF Resolve, TypeInv
  <2>2. Sorted' /\ Walk'
    BY <1>4, <2>1, ResolveWalk DEF PacksInv
  <2>3. Sound' <=> Sound
    BY <2>1, SelectionKept
  <2> QED BY <2>1, <2>2, <2>3 DEF PacksInv, Begun
<1>5. ASSUME Create PROVE PacksInv'
  <2>1. UNCHANGED source /\ compiled.step = "create" /\ IsRecord(compiled)
    BY <1>5 DEF Create, TypeInv
  <2>2. CASE Refuse({"entity-conflict"})
    BY <2>1, <2>2, RefuseFields, PacksKeep DEF Begun, PackIssues
  <2>3. CASE compiled' = [compiled EXCEPT !.shaped = compiled.shaped + 1]
    <3>1. compiled'.step = compiled.step /\ compiled'.issues = compiled.issues /\ compiled'.order = compiled.order
      BY <2>1, <2>3, ShapedFields
    <3> QED BY <2>1, <3>1, PacksKeep
  <2> QED BY <1>5, <2>2, <2>3, CreateIs
<1>6. ASSUME Created PROVE PacksInv'
  <2>1. compiled'.step = "patch" /\ compiled'.issues = compiled.issues /\ compiled'.order = compiled.order
    BY <1>6, ShapedFields DEF Created, TypeInv
  <2> QED BY <1>6, <2>1, PacksKeep DEF Created, Begun
<1>7. ASSUME Patch PROVE PacksInv'
  <2>1. UNCHANGED source /\ compiled.step = "patch" /\ IsRecord(compiled)
    BY <1>7 DEF Patch, TypeInv
  <2>2. CASE Refuse({"missing-entity"}) \/ Refuse({"reserved-by-feature"})
    BY <2>1, <2>2, RefuseFields, PacksKeep DEF Begun, PackIssues
  <2>3. CASE compiled' = [compiled EXCEPT !.shaped = compiled.shaped + 1]
    <3>1. compiled'.step = compiled.step /\ compiled'.issues = compiled.issues /\ compiled'.order = compiled.order
      BY <2>1, <2>3, ShapedFields
    <3> QED BY <2>1, <3>1, PacksKeep
  <2> QED BY <1>7, <2>2, <2>3, PatchIs
<1>8. ASSUME Shaped PROVE PacksInv'
  <2>1. compiled'.step = "expand" /\ compiled'.issues = compiled.issues /\ compiled'.order = compiled.order
    BY <1>8, StepFields DEF Shaped, TypeInv
  <2> QED BY <1>8, <2>1, PacksKeep DEF Shaped, Begun
<1>9. ASSUME Normalize PROVE PacksInv'
  <2> DEFINE w == With("render", compiled.issues, compiled.said, compiled.order, compiled.shaped,
                       Normalized, compiled.files)
  <2>1. UNCHANGED source /\ compiled.step = "expand" /\ IsRecord(compiled)
    BY <1>9 DEF Normalize, TypeInv
  <2>2. CASE Refuse(NormalIssues) \/ Refuse({"unsupported-relation"})
    BY <2>1, <2>2, RefuseFields, OtherIssues, PacksKeep DEF Begun, PackIssues
  <2>3. CASE compiled' = [compiled EXCEPT !.step = "render", !.entities = Normalized]
    <3>1. compiled' = w
      BY <2>1, <2>3 DEF IsRecord, With
    <3> HIDE DEF w
    <3>2. compiled'.step = "render" /\ compiled'.issues = compiled.issues /\ compiled'.order = compiled.order
      BY <3>1, WithFields DEF w
    <3> QED BY <2>1, <3>2, PacksKeep DEF Begun
  <2> QED BY <1>9, <2>2, <2>3 DEF Normalize
<1> QED BY <1>1, <1>2, <1>3, <1>4, <1>5, <1>6, <1>7, <1>8, <1>9

LEMMA PacksInvOK == ASSUME TypeInv, PacksInv PROVE PacksHonoured
<1> DEFINE order == compiled.order
           n == Len(order)
<1>1. ASSUME Reached("create")
      PROVE  /\ Sound
             /\ Ordered = source.requested /\ Len(order) = Cardinality(source.requested)
             /\ \A j, k \in DOMAIN order : order[j] \in Needs(order[k]) => j < k
  <2>1. Sound /\ Sorted /\ Ordered = source.requested
    BY <1>1, ReachedIs DEF PacksInv
  <2>2. order \in Seq(Packs) /\ n \in Nat /\ DOMAIN order = 1 .. n /\ order \in [1 .. n -> Packs]
    BY LenProperties, SeqDef DEF TypeInv
  <2>3. order \in Bijection(1 .. n, source.requested)
    BY <2>1, <2>2, Fun_IsBij DEF Sorted, Ordered
  <2>4. Cardinality(1 .. n) = n /\ IsFiniteSet(1 .. n)
    BY <2>2, FS_Interval
  <2>5. Cardinality(source.requested) = n
    BY <2>3, <2>4, FS_Bijection DEF ExistsBijection
  <2>6. ASSUME NEW j \in DOMAIN order, NEW k \in DOMAIN order, order[j] \in Needs(order[k]) PROVE j < k
    <3>1. order[j] \in Selected
      BY <2>1 DEF Sorted, Ordered
    <3>2. PICK i \in DOMAIN order : i < k /\ order[i] = order[j]
      BY <2>1, <2>6, <3>1 DEF Sorted
    <3> QED BY <2>1, <3>2 DEF Sorted
  <2> QED BY <2>1, <2>5, <2>6
<1>2. Reached("done") => FilesKept
  BY ReachedIs DEF PacksInv
<1> QED BY <1>1, <1>2 DEF PacksHonoured, PacksInv, PackIssues, FilesKept

-----------------------------------------------------------------------------
(* The order in which relations are expanded.                              *)
AreEntities(E) == /\ DOMAIN E \subseteq Entities
                  /\ \A e \in DOMAIN E : E[e].relations \in Seq(DeclaredRelation)

LEMMA DeclaredIs ==
    ASSUME NEW E, AreEntities(E), NEW d \in Declared(E)
    PROVE  /\ d[1] \in DOMAIN E /\ d[1] \in Nat /\ d[2] \in DOMAIN E[d[1]].relations /\ d[2] \in Nat
           /\ d = <<d[1], d[2]>> /\ RelationAt(E, d) = E[d[1]].relations[d[2]]
           /\ RelationAt(E, d) \in DeclaredRelation
<1>1. PICK e \in DOMAIN E : d \in {e} \X DOMAIN E[e].relations
  BY DEF Declared
<1>2. d = <<d[1], d[2]>> /\ d[1] = e /\ d[2] \in DOMAIN E[e].relations
  BY <1>1
<1>3. E[e].relations \in Seq(DeclaredRelation)
  BY DEF AreEntities
<1>4. DOMAIN E[e].relations = 1 .. Len(E[e].relations) /\ Len(E[e].relations) \in Nat
      /\ \A i \in DOMAIN E[e].relations : E[e].relations[i] \in DeclaredRelation
  BY <1>3, LenProperties, ElementOfSeq
<1>5. e \in Nat
  BY CompilationAssumption, FS_CardinalityType DEF AreEntities
<1> QED BY <1>2, <1>4, <1>5 DEF RelationAt

LEMMA DeclaredBack ==
    ASSUME NEW E, NEW e \in DOMAIN E, NEW i \in DOMAIN E[e].relations
    PROVE  /\ <<e, i>> \in Declared(E) /\ <<e, i>>[1] = e /\ <<e, i>>[2] = i
           /\ RelationAt(E, <<e, i>>) = E[e].relations[i]
  BY DEF Declared, RelationAt

LEMMA NamesInOrder ==
    ASSUME NEW m \in {RelationNames[j] : j \in DOMAIN RelationNames},
           NEW n \in {RelationNames[j] : j \in DOMAIN RelationNames}
    PROVE  /\ m = n \/ NameBefore(m, n) \/ NameBefore(n, m)
           /\ ~(NameBefore(m, n) /\ NameBefore(n, m))
           /\ ~NameBefore(m, m)
<1>1. DOMAIN RelationNames \subseteq Nat
  BY CompilationAssumption, LenProperties
<1>2. PICK j \in DOMAIN RelationNames : RelationNames[j] = m
  OBVIOUS
<1>3. PICK k \in DOMAIN RelationNames : RelationNames[k] = n
  OBVIOUS
<1>4. j \in Nat /\ k \in Nat
  BY <1>1
<1>5. /\ \A i \in DOMAIN RelationNames : RelationNames[i] = m => i = j
      /\ \A i \in DOMAIN RelationNames : RelationNames[i] = n => i = k
  BY <1>2, <1>3, CompilationAssumption
<1>6. NameBefore(m, n) <=> j < k
  BY <1>2, <1>3, <1>5 DEF NameBefore
<1>7. NameBefore(n, m) <=> k < j
  BY <1>2, <1>3, <1>5 DEF NameBefore
<1>8. ~NameBefore(m, m)
  BY <1>4, <1>5 DEF NameBefore
<1>9. j = k => m = n
  BY <1>2, <1>3
<1> QED BY <1>4, <1>6, <1>7, <1>8, <1>9

LEMMA ExpandedInOrder ==
    ASSUME NEW E, AreEntities(E), NEW c \in Declared(E), NEW d \in Declared(E)
    PROVE  /\ c = d \/ ExpandedBefore(E, c, d) \/ ExpandedBefore(E, d, c)
           /\ ~(ExpandedBefore(E, c, d) /\ ExpandedBefore(E, d, c))
           /\ ~ExpandedBefore(E, d, d)
<1> DEFINE m == RelationAt(E, c).name
           n == RelationAt(E, d).name
           R == {RelationNames[j] : j \in DOMAIN RelationNames}
<1>1. c[1] \in Nat /\ c[2] \in Nat /\ c = <<c[1], c[2]>> /\ RelationAt(E, c) \in DeclaredRelation
  BY DeclaredIs
<1>2. d[1] \in Nat /\ d[2] \in Nat /\ d = <<d[1], d[2]>> /\ RelationAt(E, d) \in DeclaredRelation
  BY DeclaredIs
<1>3. m \in R /\ n \in R
  BY <1>1, <1>2 DEF DeclaredRelation
<1>4. ExpandedBefore(E, c, d) <=> c[1] < d[1] \/ (c[1] = d[1] /\ (NameBefore(m, n) \/ (m = n /\ c[2] < d[2])))
  BY DEF ExpandedBefore
<1>5. ExpandedBefore(E, d, c) <=> d[1] < c[1] \/ (d[1] = c[1] /\ (NameBefore(n, m) \/ (n = m /\ d[2] < c[2])))
  BY DEF ExpandedBefore
<1>6. ExpandedBefore(E, d, d) <=> d[1] < d[1] \/ (d[1] = d[1] /\ (NameBefore(n, n) \/ (n = n /\ d[2] < d[2])))
  BY DEF ExpandedBefore
<1> HIDE DEF m, n
<1>7. /\ m = n \/ NameBefore(m, n) \/ NameBefore(n, m)
      /\ ~(NameBefore(m, n) /\ NameBefore(n, m)) /\ ~NameBefore(m, m) /\ ~NameBefore(n, n)
  BY <1>3, NamesInOrder
<1>8. c[1] = d[1] /\ c[2] = d[2] => c = d
  BY <1>1, <1>2
<1>9. c = d \/ ExpandedBefore(E, c, d) \/ ExpandedBefore(E, d, c)
  BY <1>1, <1>2, <1>4, <1>5, <1>7, <1>8
<1>10. ~(ExpandedBefore(E, c, d) /\ ExpandedBefore(E, d, c))
  BY <1>1, <1>2, <1>4, <1>5, <1>7
<1>11. ~ExpandedBefore(E, d, d)
  BY <1>2, <1>6, <1>7
<1> QED BY <1>9, <1>10, <1>11

-----------------------------------------------------------------------------
(* The names of inverses.  Each is what the rule gives it after those that *)
(* come before it, which leaves one way to name them all.                  *)
Earlier(E, names, d) == [c \in {b \in DOMAIN names : ExpandedBefore(E, b, d)} |-> names[c]]

ByRule(E, names) == \A d \in DOMAIN names : names[d] = InverseName(E, Earlier(E, names, d), d)

Expansion(E, left, names) ==
    /\ DOMAIN names \subseteq Declared(E) /\ left \subseteq Declared(E)
    /\ \A c \in DOMAIN names : \A d \in left : ExpandedBefore(E, c, d)
    /\ ByRule(E, names)

LEMMA SameNames ==
    ASSUME NEW E, NEW f, NEW g, DOMAIN f = DOMAIN g, \A c \in DOMAIN f : f[c] = g[c], NEW d
    PROVE  InverseName(E, f, d) = InverseName(E, g, d)
<1>1. \A e : TakenNames(E, f, e) = TakenNames(E, g, e)
  BY DEF TakenNames
<1> QED BY <1>1 DEF InverseName

LEMMA NoneNamed == ASSUME NEW E PROVE Expansion(E, Unnamed(E).left, Unnamed(E).names)
  BY UnnamedIs DEF Expansion, ByRule

LEMMA ExpansionSkips ==
    ASSUME NEW E, NEW left, NEW names, Expansion(E, left, names), NEW d
    PROVE  Expansion(E, left \ {d}, names)
  BY DEF Expansion

LEMMA ExpansionGoesOn ==
    ASSUME NEW E, AreEntities(E), NEW left, NEW names, Expansion(E, left, names),
           NEW d, IsNext(E, left, d), NEW named,
           named = [c \in DOMAIN names \cup {d} |-> IF c = d THEN InverseName(E, names, d) ELSE names[c]]
    PROVE  Expansion(E, left \ {d}, named)
<1>1. d \in Declared(E) /\ d \notin DOMAIN names
  <2>1. d \in left /\ d \in Declared(E)
    BY DEF IsNext, Expansion
  <2> QED BY <2>1, ExpandedInOrder DEF Expansion
<1>2. DOMAIN named = DOMAIN names \cup {d} /\ named[d] = InverseName(E, names, d)
      /\ \A c \in DOMAIN names : named[c] = names[c]
  BY <1>1
<1>3. DOMAIN named \subseteq Declared(E) /\ left \ {d} \subseteq Declared(E)
  BY <1>1, <1>2 DEF Expansion
<1>4. \A c \in DOMAIN named : \A b \in left \ {d} : ExpandedBefore(E, c, b)
  BY <1>2 DEF Expansion, IsNext
<1>5. ASSUME NEW c \in DOMAIN named PROVE named[c] = InverseName(E, Earlier(E, named, c), c)
  <2>1. CASE c = d
    <3>1. {b \in DOMAIN named : ExpandedBefore(E, b, d)} = DOMAIN names
      <4>1. ~ExpandedBefore(E, d, d)
        BY <1>1, ExpandedInOrder
      <4>2. \A b \in DOMAIN names : ExpandedBefore(E, b, d)
        BY DEF Expansion, IsNext
      <4> QED BY <1>2, <4>1, <4>2
    <3>2. DOMAIN Earlier(E, named, d) = DOMAIN names
          /\ \A b \in DOMAIN names : Earlier(E, named, d)[b] = names[b]
      BY <1>2, <3>1 DEF Earlier
    <3>3. InverseName(E, Earlier(E, named, d), d) = InverseName(E, names, d)
      BY <3>2, SameNames
    <3> QED BY <1>2, <2>1, <3>3
  <2>2. CASE c # d
    <3>1. c \in DOMAIN names /\ c \in Declared(E) /\ ExpandedBefore(E, c, d)
      BY <1>2, <2>2 DEF Expansion, IsNext
    <3>2. ~ExpandedBefore(E, d, c)
      BY <1>1, <3>1, ExpandedInOrder
    <3>3. {b \in DOMAIN named : ExpandedBefore(E, b, c)} = {b \in DOMAIN names : ExpandedBefore(E, b, c)}
      BY <1>2, <3>2
    <3>4. DOMAIN Earlier(E, named, c) = DOMAIN Earlier(E, names, c)
          /\ \A b \in DOMAIN Earlier(E, names, c) : Earlier(E, named, c)[b] = Earlier(E, names, c)[b]
      BY <1>2, <3>3 DEF Earlier
    <3>5. InverseName(E, Earlier(E, named, c), c) = InverseName(E, Earlier(E, names, c), c)
      BY <3>4, SameNames
    <3> QED BY <1>2, <3>1, <3>5 DEF Expansion, ByRule
  <2> QED BY <2>1, <2>2
<1> QED BY <1>3, <1>4, <1>5 DEF Expansion, ByRule

(* Two that name by the rule, and have named the same before, go on alike. *)
LEMMA NamedAlike ==
    ASSUME NEW E, AreEntities(E), NEW left, NEW names, Expansion(E, left, names),
           DOMAIN names = Declared(E) \ left, NEW d, IsNext(E, left, d),
           NEW mirror, ByRule(E, mirror), d \in DOMAIN mirror, DOMAIN mirror \subseteq Declared(E),
           \A c \in DOMAIN names : c \in DOMAIN mirror /\ mirror[c] = names[c]
    PROVE  mirror[d] = InverseName(E, names, d)
<1>1. d \in left /\ d \in Declared(E)
  BY DEF IsNext, Expansion
<1>2. \A c \in DOMAIN names : ExpandedBefore(E, c, d)
  BY <1>1 DEF Expansion
<1>3. ASSUME NEW c \in DOMAIN mirror, ExpandedBefore(E, c, d) PROVE c \in DOMAIN names
  <2>1. c \in Declared(E) /\ c # d
    BY <1>1, <1>3, ExpandedInOrder
  <2>2. ~ExpandedBefore(E, d, c)
    BY <1>1, <1>3, <2>1, ExpandedInOrder
  <2> QED BY <2>1, <2>2 DEF IsNext
<1>4. {c \in DOMAIN mirror : ExpandedBefore(E, c, d)} = DOMAIN names
  BY <1>2, <1>3
<1>5. DOMAIN Earlier(E, mirror, d) = DOMAIN names /\ \A c \in DOMAIN names : Earlier(E, mirror, d)[c] = names[c]
  BY <1>4 DEF Earlier
<1>6. InverseName(E, Earlier(E, mirror, d), d) = InverseName(E, names, d)
  BY <1>5, SameNames
<1> QED BY <1>6 DEF ByRule

(* A name that is there twice is the second one an inverse was given.      *)
LEMMA RuleIs ==
    ASSUME NEW E, NEW names, ByRule(E, names), NEW d \in DOMAIN names
    PROVE  \/ names[d][1] = "via"
           \/ /\ names[d] \notin Names(E[RelationAt(E, d).target])
              /\ \A c \in DOMAIN names :
                    /\ ExpandedBefore(E, c, d)
                    /\ RelationAt(E, c).target = RelationAt(E, d).target
                    => names[c] # names[d]
<1> DEFINE r == RelationAt(E, d)
           default == defaultInverseName(d[1], r.type)
           before == Earlier(E, names, d)
<1>1. names[d] = IF default \in TakenNames(E, before, r.target) THEN Via(default, r.name) ELSE default
  BY DEF ByRule, InverseName
<1> HIDE DEF default
<1>2. CASE default \in TakenNames(E, before, r.target)
  BY <1>1, <1>2 DEF Via
<1>3. CASE default \notin TakenNames(E, before, r.target)
  <2>1. names[d] = default /\ default \notin Names(E[r.target])
    BY <1>1, <1>3 DEF TakenNames
  <2>2. ASSUME NEW c \in DOMAIN names, ExpandedBefore(E, c, d), RelationAt(E, c).target = r.target
        PROVE  names[c] # default
    <3>1. c \in DOMAIN before /\ before[c] = names[c]
      BY <2>2 DEF Earlier
    <3> QED BY <1>3, <2>2, <3>1 DEF TakenNames
  <2> QED BY <2>1, <2>2
<1> QED BY <1>2, <1>3

LEMMA InversesDiffer ==
    ASSUME NEW E, AreEntities(E), NEW names, ByRule(E, names), DOMAIN names \subseteq Declared(E),
           NEW c \in DOMAIN names, NEW d \in DOMAIN names, c # d,
           RelationAt(E, c).target = RelationAt(E, d).target, names[c] = names[d]
    PROVE  names[d][1] = "via"
<1>1. ExpandedBefore(E, c, d) \/ ExpandedBefore(E, d, c)
  BY ExpandedInOrder
<1>2. CASE ExpandedBefore(E, c, d)
  BY <1>2, RuleIs
<1>3. CASE ExpandedBefore(E, d, c)
  BY <1>3, RuleIs
<1> QED BY <1>1, <1>2, <1>3

-----------------------------------------------------------------------------
(* The entities and their relations.  Packs only add to what is specified, *)
(* and no name twice.  The validator names inverses by the rule, for the   *)
(* relations whose target it knows, and so does the compiler.              *)
Known(E) == {d \in Declared(E) : RelationAt(E, d).target \in DOMAIN E}

DraftsInv ==
    /\ \A e \in DOMAIN source.spec : \A i \in DOMAIN source.spec[e].relations :
          /\ i \in DOMAIN drafts[e].relations
          /\ drafts[e].relations[i] = source.spec[e].relations[i]
    /\ \A e \in DOMAIN drafts : \A i, j \in DOMAIN drafts[e].relations :
          i # j /\ drafts[e].relations[i].name = drafts[e].relations[j].name =>
             /\ e \in DOMAIN source.spec
             /\ {i, j} \subseteq DOMAIN source.spec[e].relations

ValidateInv == compiled.step = "validate" =>
    /\ drafts = source.spec
    /\ Expansion(drafts, naming.left, naming.names)
    /\ DOMAIN naming.names = Known(drafts) \ naming.left

ExpandInv == compiled.step \in {"expand", "render", "done"} =>
    /\ Expansion(drafts, naming.left, naming.names)
    /\ DOMAIN naming.names = Declared(drafts) \ naming.left
    /\ \A d \in DOMAIN naming.names : RelationIssues(RelationAt(drafts, d), DOMAIN drafts) = {}

RenderInv == compiled.step \in {"render", "done"} =>
    /\ naming.left = {} /\ compiled.entities = Normalized /\ NormalIssues = {}
    /\ \A d \in Declared(drafts) : RelationAt(drafts, d).type # "manyToMany"

Mirrors(mirror) ==
    /\ DOMAIN mirror = Known(source.spec) /\ ByRule(source.spec, mirror)
    /\ compiled.said = SpecificationIssues(source.spec, mirror)
    /\ compiled.step \in {"expand", "render", "done"} /\ drafts = source.spec =>
          \A c \in DOMAIN naming.names : c \in DOMAIN mirror /\ mirror[c] = naming.names[c]

MirrorInv == compiled.step # "validate" => \E mirror : Mirrors(mirror)

IndexInv == "unknown-index-field" \in compiled.issues /\ drafts = source.spec =>
               "unknown-index-field" \in compiled.said

IrInv == DraftsInv /\ ValidateInv /\ ExpandInv /\ RenderInv /\ MirrorInv /\ IndexInv

LEMMA DraftsAre == ASSUME TypeInv PROVE AreEntities(drafts) /\ AreEntities(source.spec)
  BY DEF TypeInv, IsEntity, AreEntities, WellFormed

LEMMA IrInit == ASSUME WellFormed(source), CompileInit({source}) PROVE IrInv
<1>1. /\ compiled.step = "validate" /\ compiled.issues = {}
      /\ drafts = source.spec /\ naming = Unnamed(source.spec)
  BY DEF CompileInit, Start
<1>2. DOMAIN naming.names = {} /\ naming.left = Declared(drafts)
  BY <1>1, UnnamedIs
<1>3. ValidateInv
  BY <1>1, <1>2, NoneNamed DEF ValidateInv, Known
<1> QED BY <1>1, <1>3 DEF IrInv, DraftsInv, ExpandInv, RenderInv, MirrorInv, IndexInv

LEMMA MirrorIr == ASSUME TypeInv, IrInv, NEW d \in naming.left, Mirror(d) PROVE IrInv'
<1> DEFINE r == RelationAt(drafts, d)
           named == [c \in DOMAIN naming.names \cup {d} |->
                       IF c = d THEN InverseName(drafts, naming.names, d) ELSE naming.names[c]]
<1>1. /\ compiled.step = "validate" /\ IsNext(drafts, naming.left, d) /\ AreEntities(drafts)
      /\ UNCHANGED <<source, compiled, visits, drafts>> /\ NamingIs
      /\ drafts = source.spec /\ Expansion(drafts, naming.left, naming.names)
      /\ DOMAIN naming.names = Known(drafts) \ naming.left
  BY DraftsAre DEF Mirror, IrInv, ValidateInv, TypeInv, NamingIs
<1>2. d \in Declared(drafts)
  BY <1>1 DEF Expansion
<1>3. CASE r.target \in DOMAIN drafts
  <2>1. naming' = Named(d)
    BY <1>3 DEF Mirror
  <2>2. naming'.left = naming.left \ {d} /\ naming'.names = named
    BY <1>1, <2>1, NamedIs
  <2> HIDE DEF named
  <2>3. Expansion(drafts, naming.left \ {d}, named)
    BY <1>1, ExpansionGoesOn DEF named
  <2>4. DOMAIN named = Known(drafts) \ (naming.left \ {d})
    BY <1>1, <1>2, <1>3 DEF named, Known
  <2> QED BY <1>1, <2>2, <2>3, <2>4
          DEF IrInv, DraftsInv, ValidateInv, ExpandInv, RenderInv, MirrorInv, IndexInv, Known
<1>4. CASE r.target \notin DOMAIN drafts
  <2>1. naming' = [naming EXCEPT !.left = @ \ {d}]
    BY <1>4 DEF Mirror
  <2>2. naming'.left = naming.left \ {d} /\ naming'.names = naming.names
    BY <1>1, <2>1 DEF NamingIs
  <2>3. Expansion(drafts, naming.left \ {d}, naming.names)
    BY <1>1, ExpansionSkips
  <2>4. DOMAIN naming.names = Known(drafts) \ (naming.left \ {d})
    BY <1>1, <1>4 DEF Known
  <2> QED BY <1>1, <2>2, <2>3, <2>4
          DEF IrInv, DraftsInv, ValidateInv, ExpandInv, RenderInv, MirrorInv, IndexInv, Known
<1> QED BY <1>3, <1>4

LEMMA ValidateIr == ASSUME TypeInv, IrInv, Validate PROVE IrInv'
<1> DEFINE issues == SpecificationIssues(drafts, naming.names)
           v == With("refused", issues, issues, compiled.order, compiled.shaped,
                     compiled.entities, compiled.files)
           w == With("resolve", compiled.issues, issues, compiled.order, compiled.shaped,
                     compiled.entities, compiled.files)
<1>1. /\ UNCHANGED <<source, visits, drafts, naming>> /\ compiled.step = "validate" /\ compiled.issues = {}
      /\ drafts = source.spec /\ Expansion(drafts, naming.left, naming.names)
      /\ DOMAIN naming.names = Known(drafts)
  BY DEF Validate, IrInv, ValidateInv, TypeInv
<1>2. compiled' = v \/ compiled' = w
  <2> HIDE DEF issues
  <2> QED BY DEF Validate, TypeInv, IsRecord, With, issues
<1>3. /\ compiled'.said = issues /\ compiled'.step \in {"refused", "resolve"}
      /\ compiled'.issues = issues \/ compiled'.issues = {}
  <2> HIDE DEF issues, v, w
  <2>1. CASE compiled' = v
    BY <2>1, WithFields DEF v
  <2>2. CASE compiled' = w
    BY <1>1, <2>2, WithFields DEF w
  <2> QED BY <1>2, <2>1, <2>2
<1>4. Mirrors(naming.names)'
  BY <1>1, <1>3 DEF Mirrors, Expansion
<1> QED BY <1>1, <1>3, <1>4 DEF IrInv, DraftsInv, ValidateInv, ExpandInv, RenderInv, MirrorInv, IndexInv

(* Steps between the validation and the relations, and refusals.           *)
LEMMA OtherIr ==
    ASSUME TypeInv, IrInv, UNCHANGED source, DraftsInv', compiled.step # "validate",
           compiled'.said = compiled.said, compiled'.step \notin {"validate", "expand", "render", "done"},
           "unknown-index-field" \notin compiled'.issues
    PROVE  IrInv'
<1>1. PICK mirror : Mirrors(mirror)
  BY DEF IrInv, MirrorInv
<1>2. Mirrors(mirror)'
  BY <1>1 DEF Mirrors
<1> QED BY <1>2 DEF IrInv, ValidateInv, ExpandInv, RenderInv, MirrorInv, IndexInv

LEMMA NotIndexIssues ==
    /\ "unknown-index-field" \notin SelectionIssues
    /\ \A r, known : "unknown-index-field" \notin RelationIssues(r, known)
<1>1. ASSUME NEW r, NEW known PROVE "unknown-index-field" \notin RelationIssues(r, known)
  BY DEF RelationIssues
<1>2. "unknown-index-field" \notin SelectionIssues
  BY DEF SelectionIssues
<1> QED BY <1>1, <1>2

LEMMA NoIssuesYet == ASSUME TypeInv, compiled.step # "refused" PROVE compiled.issues = {}
  BY DEF TypeInv

LEMMA ResolutionIr ==
    ASSUME TypeInv, IrInv, Resolve \/ Leave \/ Resolved \/ \E p \in Packs : Visit(p)
    PROVE  IrInv'
<1>1. UNCHANGED <<source, drafts>> /\ compiled.step \in {"resolve", "order"} /\ IsRecord(compiled) /\ compiled.issues = {}
  BY NoIssuesYet DEF Resolve, Leave, Resolved, Visit, TypeInv
<1>2. DraftsInv'
  BY <1>1 DEF IrInv, DraftsInv
<1>3. ASSUME Resolve PROVE IrInv'
  <2>1. compiled'.said = compiled.said /\ compiled'.step = "order" /\ compiled'.issues = {}
    BY <1>1, <1>3, StepFields DEF Resolve
  <2> QED BY <1>1, <1>2, <2>1, OtherIr
<1>4. ASSUME Leave PROVE IrInv'
  <2>1. compiled'.said = compiled.said /\ compiled'.step = compiled.step /\ compiled'.issues = {}
    BY <1>1, <1>4, LeaveIs
  <2> QED BY <1>1, <1>2, <2>1, OtherIr
<1>5. ASSUME Resolved PROVE IrInv'
  <2> DEFINE issues == SelectionIssues \cup (IF Selected \cap source.registry.unfit # {} THEN {"unfit"} ELSE {})
  <2>1. "unknown-index-field" \notin issues
    BY NotIndexIssues
  <2> HIDE DEF issues
  <2>2. CASE Refuse(issues)
    <3>1. compiled'.said = compiled.said /\ compiled'.step = "refused" /\ compiled'.issues = issues
      BY <1>1, <2>2, RefuseFields
    <3> QED BY <1>1, <1>2, <2>1, <3>1, OtherIr
  <2>3. CASE compiled' = [compiled EXCEPT !.step = "create"]
    <3>1. compiled'.said = compiled.said /\ compiled'.step = "create" /\ compiled'.issues = {}
      BY <1>1, <2>3, StepFields
    <3> QED BY <1>1, <1>2, <3>1, OtherIr
  <2> QED BY <1>5, <2>2, <2>3 DEF Resolved, issues
<1>6. ASSUME NEW p \in Packs, Visit(p) PROVE IrInv'
  <2>1. CASE Refuse(SelectionIssues \cup {"circular-dependency"})
    <3>1. compiled'.said = compiled.said /\ compiled'.step = "refused"
          /\ compiled'.issues = SelectionIssues \cup {"circular-dependency"}
      BY <1>1, <2>1, RefuseFields
    <3>2. "unknown-index-field" \notin compiled'.issues
      BY <3>1, NotIndexIssues
    <3> QED BY <1>1, <1>2, <3>1, <3>2, OtherIr
  <2>2. CASE UNCHANGED compiled
    BY <1>1, <1>2, <2>2, OtherIr
  <2> QED BY <1>6, <2>1, <2>2 DEF Visit
<1> QED BY <1>3, <1>4, <1>5, <1>6

LEMMA CreateIr == ASSUME TypeInv, IrInv, Create PROVE IrInv'
<1> DEFINE new == Contribution(compiled.order[compiled.shaped + 1]).creates
<1>1. UNCHANGED source /\ compiled.step = "create" /\ IsRecord(compiled) /\ compiled.issues = {}
  BY NoIssuesYet DEF Create, TypeInv
<1>2. CASE Refuse({"entity-conflict"}) /\ UNCHANGED drafts
  <2>1. compiled'.said = compiled.said /\ compiled'.step = "refused" /\ compiled'.issues = {"entity-conflict"}
    BY <1>1, <1>2, RefuseFields
  <2>2. DraftsInv'
    BY <1>1, <1>2 DEF IrInv, DraftsInv
  <2> QED BY <1>1, <2>1, <2>2, OtherIr
<1>3. CASE /\ compiled' = [compiled EXCEPT !.shaped = compiled.shaped + 1]
           /\ DOMAIN drafts' = DOMAIN drafts \cup ({new} \ {0})
           /\ \A e \in DOMAIN drafts : drafts'[e] = drafts[e]
           /\ \A e \in DOMAIN drafts' \ DOMAIN drafts : drafts'[e] = Entity({}, <<>>, {})
  <2>1. compiled'.said = compiled.said /\ compiled'.step = compiled.step /\ compiled'.issues = {}
    BY <1>1, <1>3, ShapedFields
  <2>2. \A e \in DOMAIN drafts' \ DOMAIN drafts : DOMAIN drafts'[e].relations = {}
    BY <1>3 DEF Entity
  <2>3. DraftsInv'
    <3>1. \A e \in DOMAIN source.spec : \A i \in DOMAIN source.spec[e].relations :
             /\ i \in DOMAIN drafts'[e].relations
             /\ drafts'[e].relations[i] = source.spec[e].relations[i]
      BY <1>3 DEF IrInv, DraftsInv, TypeInv
    <3>2. \A e \in DOMAIN drafts' : \A i, j \in DOMAIN drafts'[e].relations :
             i # j /\ drafts'[e].relations[i].name = drafts'[e].relations[j].name =>
                /\ e \in DOMAIN source.spec
                /\ {i, j} \subseteq DOMAIN source.spec[e].relations
      BY <1>3, <2>2 DEF IrInv, DraftsInv
    <3> QED BY <1>1, <3>1, <3>2 DEF DraftsInv
  <2> QED BY <1>1, <2>1, <2>3, OtherIr
<1> QED BY <1>2, <1>3, CreateIs

LEMMA PatchDrafts ==
    ASSUME TypeInv, DraftsInv, UNCHANGED source, NEW e \in DOMAIN drafts, NEW patch,
           patch.relations \in Seq(DeclaredRelation), ~IsReserved(drafts[e], patch),
           drafts' = [drafts EXCEPT ![e] = Patched(drafts[e], patch)]
    PROVE  DraftsInv'
<1> DEFINE a == drafts[e].relations
           b == patch.relations
           u == a \o b
<1>1. IsEntity(drafts[e]) /\ a \in Seq(DeclaredRelation)
  BY DEF TypeInv, IsEntity
<1>2. /\ DOMAIN drafts' = DOMAIN drafts /\ drafts'[e].relations = u
      /\ \A c \in DOMAIN drafts \ {e} : drafts'[c] = drafts[c]
  BY <1>1, PatchedIs
<1>5. /\ \A i \in DOMAIN a : \A j \in DOMAIN b : a[i].name # b[j].name
      /\ \A i, j \in DOMAIN b : i # j => b[i].name # b[j].name
  BY DEF IsReserved, RelationNamesOf
<1>9. b \in Seq(DeclaredRelation)
  OBVIOUS
<1> HIDE DEF a, b
<1>3. /\ DOMAIN a \subseteq DOMAIN u
      /\ \A k \in DOMAIN a : u[k] = a[k]
      /\ \A k \in DOMAIN u \ DOMAIN a : k - Len(a) \in DOMAIN b /\ u[k] = b[k - Len(a)]
  BY <1>1, <1>9, ConcatGrows
<1>4. DOMAIN u \subseteq Nat /\ Len(a) \in Nat
  BY <1>1, <1>9, ConcatProperties, LenProperties
<1> HIDE DEF u
<1>6. ASSUME NEW i \in DOMAIN u, NEW j \in DOMAIN u, i # j, u[i].name = u[j].name
      PROVE  i \in DOMAIN a /\ j \in DOMAIN a
  <2>1. CASE i \in DOMAIN a /\ j \notin DOMAIN a
    BY <1>3, <1>5, <1>6, <2>1
  <2>2. CASE i \notin DOMAIN a /\ j \in DOMAIN a
    BY <1>3, <1>5, <1>6, <2>2
  <2>3. CASE i \notin DOMAIN a /\ j \notin DOMAIN a
    <3>1. i - Len(a) # j - Len(a)
      BY <1>4, <1>6
    <3> QED BY <1>3, <1>5, <1>6, <2>3, <3>1
  <2> QED BY <2>1, <2>2, <2>3
<1>7. \A c \in DOMAIN source.spec : \A i \in DOMAIN source.spec[c].relations :
         /\ i \in DOMAIN drafts'[c].relations
         /\ drafts'[c].relations[i] = source.spec[c].relations[i]
  <2> SUFFICES ASSUME NEW c \in DOMAIN source.spec, NEW i \in DOMAIN source.spec[c].relations
               PROVE  /\ i \in DOMAIN drafts'[c].relations
                      /\ drafts'[c].relations[i] = source.spec[c].relations[i]
    OBVIOUS
  <2>1. i \in DOMAIN drafts[c].relations /\ drafts[c].relations[i] = source.spec[c].relations[i] /\ c \in DOMAIN drafts
    BY DEF DraftsInv, TypeInv
  <2>2. CASE c = e
    BY <1>2, <1>3, <2>1, <2>2 DEF a
  <2>3. CASE c # e
    BY <1>2, <2>1, <2>3
  <2> QED BY <2>2, <2>3
<1>8. \A c \in DOMAIN drafts' : \A i, j \in DOMAIN drafts'[c].relations :
         i # j /\ drafts'[c].relations[i].name = drafts'[c].relations[j].name =>
            /\ c \in DOMAIN source.spec
            /\ {i, j} \subseteq DOMAIN source.spec[c].relations
  <2> SUFFICES ASSUME NEW c \in DOMAIN drafts', NEW i \in DOMAIN drafts'[c].relations,
                      NEW j \in DOMAIN drafts'[c].relations, i # j,
                      drafts'[c].relations[i].name = drafts'[c].relations[j].name
               PROVE  c \in DOMAIN source.spec /\ {i, j} \subseteq DOMAIN source.spec[c].relations
    OBVIOUS
  <2>1. CASE c = e
    <3>1. i \in DOMAIN a /\ j \in DOMAIN a
      BY <1>2, <1>6, <2>1
    <3>2. a[i].name = a[j].name
      BY <1>2, <1>3, <2>1, <3>1
    <3> QED BY <2>1, <3>1, <3>2 DEF DraftsInv, a
  <2>2. CASE c # e
    BY <1>2, <2>2 DEF DraftsInv
  <2> QED BY <2>1, <2>2
<1> QED BY <1>7, <1>8 DEF DraftsInv

LEMMA PatchIr == ASSUME TypeInv, IrInv, Patch PROVE IrInv'
<1> DEFINE patch == Contribution(compiled.order[compiled.shaped + 1])
           e     == patch.patches
<1>1. /\ UNCHANGED source /\ compiled.step = "patch" /\ IsRecord(compiled) /\ compiled.issues = {}
      /\ compiled.shaped < Len(compiled.order)
  BY NoIssuesYet DEF Patch, TypeInv
<1>2. patch.relations \in Seq(DeclaredRelation)
  BY <1>1, ShapesOne
<1>3. UNCHANGED drafts => DraftsInv'
  BY <1>1 DEF IrInv, DraftsInv
<1>4. CASE (Refuse({"missing-entity"}) \/ Refuse({"reserved-by-feature"})) /\ UNCHANGED drafts
  <2>1. compiled'.said = compiled.said /\ compiled'.step = "refused"
        /\ compiled'.issues \in {{"missing-entity"}, {"reserved-by-feature"}}
    BY <1>1, <1>4, RefuseFields
  <2> QED BY <1>1, <1>3, <1>4, <2>1, OtherIr
<1>5. CASE compiled' = [compiled EXCEPT !.shaped = compiled.shaped + 1]
  <2>1. compiled'.said = compiled.said /\ compiled'.step = compiled.step /\ compiled'.issues = {}
    BY <1>1, <1>5, ShapedFields
  <2>2. CASE UNCHANGED drafts
    BY <1>1, <1>3, <2>1, <2>2, OtherIr
  <2>3. CASE /\ e \in DOMAIN drafts /\ ~IsReserved(drafts[e], patch)
             /\ drafts' = [drafts EXCEPT ![e] = Patched(drafts[e], patch)]
    <3> HIDE DEF patch
    <3>1. DraftsInv'
      BY <1>1, <1>2, <2>3, PatchDrafts DEF IrInv
    <3> QED BY <1>1, <2>1, <3>1, OtherIr
  <2>4. \/ (Refuse({"missing-entity"}) \/ Refuse({"reserved-by-feature"})) /\ UNCHANGED drafts
        \/ UNCHANGED drafts
        \/ /\ e \in DOMAIN drafts /\ ~IsReserved(drafts[e], patch)
           /\ drafts' = [drafts EXCEPT ![e] = Patched(drafts[e], patch)]
    BY PatchIs
  <2> QED BY <1>4, <2>2, <2>3, <2>4
<1> QED BY <1>4, <1>5, PatchIs

LEMMA CreatedIr == ASSUME TypeInv, IrInv, Created PROVE IrInv'
<1>1. /\ compiled'.step = "patch" /\ compiled'.issues = compiled.issues /\ compiled'.said = compiled.said
      /\ UNCHANGED <<source, drafts>> /\ compiled.step = "create"
  BY ShapedFields DEF Created, TypeInv
<1>2. DraftsInv' /\ compiled.issues = {}
  BY <1>1, NoIssuesYet DEF IrInv, DraftsInv
<1> QED BY <1>1, <1>2, OtherIr

LEMMA ShapedIr == ASSUME TypeInv, IrInv, Shaped PROVE IrInv'
<1>1. /\ compiled'.step = "expand" /\ compiled'.issues = compiled.issues /\ compiled'.said = compiled.said
      /\ UNCHANGED <<source, drafts>> /\ naming' = Unnamed(drafts) /\ compiled.issues = {}
      /\ compiled.step = "patch"
  BY StepFields, NoIssuesYet DEF Shaped, TypeInv
<1>2. /\ naming'.left = Declared(drafts) /\ DOMAIN naming'.names = {}
      /\ Expansion(drafts, naming'.left, naming'.names)
  BY <1>1, UnnamedIs, NoneNamed
<1>3. PICK mirror : Mirrors(mirror)
  BY <1>1 DEF IrInv, MirrorInv
<1>4. Mirrors(mirror)'
  BY <1>1, <1>2, <1>3 DEF Mirrors
<1>5. DraftsInv' /\ ExpandInv'
  BY <1>1, <1>2 DEF IrInv, DraftsInv, ExpandInv
<1> QED BY <1>1, <1>4, <1>5 DEF IrInv, ValidateInv, RenderInv, MirrorInv, IndexInv

(* A relation the compiler takes has a target the validator knows too.     *)
LEMMA NoIssuesMean ==
    ASSUME NEW r, NEW known, RelationIssues(r, known) = {} PROVE r.target \in known
  BY DEF RelationIssues

LEMMA ExpandIr == ASSUME TypeInv, IrInv, NEW d \in naming.left, Expand(d) PROVE IrInv'
<1> DEFINE issues == RelationIssues(RelationAt(drafts, d), DOMAIN drafts)
           named == [c \in DOMAIN naming.names \cup {d} |->
                       IF c = d THEN InverseName(drafts, naming.names, d) ELSE naming.names[c]]
<1>1. /\ compiled.step = "expand" /\ IsNext(drafts, naming.left, d) /\ AreEntities(drafts)
      /\ UNCHANGED <<source, visits, drafts>> /\ NamingIs /\ IsRecord(compiled) /\ compiled.issues = {}
      /\ Expansion(drafts, naming.left, naming.names)
      /\ DOMAIN naming.names = Declared(drafts) \ naming.left
      /\ \A c \in DOMAIN naming.names : RelationIssues(RelationAt(drafts, c), DOMAIN drafts) = {}
  BY DraftsAre, NoIssuesYet DEF Expand, IrInv, ExpandInv, TypeInv, NamingIs
<1>2. DraftsInv'
  BY <1>1 DEF IrInv, DraftsInv
<1>3. CASE Refuse(issues)
  <2>1. "unknown-index-field" \notin issues
    BY NotIndexIssues
  <2> HIDE DEF issues
  <2>2. compiled'.said = compiled.said /\ compiled'.step = "refused" /\ compiled'.issues = issues
    BY <1>1, <1>3, RefuseFields
  <2> QED BY <1>1, <1>2, <2>1, <2>2, OtherIr
<1>4. CASE issues = {} /\ naming' = Named(d) /\ UNCHANGED compiled
  <2>1. naming'.left = naming.left \ {d} /\ naming'.names = named
    BY <1>1, <1>4, NamedIs
  <2>2. d \in Declared(drafts) /\ d \notin DOMAIN naming.names
    BY <1>1 DEF Expansion, IsNext
  <2>3. DOMAIN named = DOMAIN naming.names \cup {d} /\ named[d] = InverseName(drafts, naming.names, d)
        /\ \A c \in DOMAIN naming.names : named[c] = naming.names[c]
    BY <2>2
  <2>4. Expansion(drafts, naming.left \ {d}, named)
    BY <1>1, ExpansionGoesOn
  <2> HIDE DEF named, issues
  <2>5. DOMAIN named = Declared(drafts) \ (naming.left \ {d})
    BY <1>1, <2>2, <2>3
  <2>6. \A c \in DOMAIN named : RelationIssues(RelationAt(drafts, c), DOMAIN drafts) = {}
    BY <1>1, <1>4, <2>3 DEF issues
  <2>7. ExpandInv'
    BY <1>1, <2>1, <2>4, <2>5, <2>6 DEF ExpandInv
  <2>8. PICK mirror : Mirrors(mirror)
    BY <1>1 DEF IrInv, MirrorInv
  <2>9. ASSUME drafts = source.spec PROVE \A c \in DOMAIN named : c \in DOMAIN mirror /\ mirror[c] = named[c]
    <3>1. DOMAIN mirror = Known(drafts) /\ ByRule(drafts, mirror) /\ DOMAIN mirror \subseteq Declared(drafts)
      BY <2>8, <2>9 DEF Mirrors, Known
    <3>2. \A c \in DOMAIN naming.names : c \in DOMAIN mirror /\ mirror[c] = naming.names[c]
      BY <1>1, <2>8, <2>9 DEF Mirrors
    <3>3. d \in DOMAIN mirror
      BY <1>4, <2>2, <3>1, NoIssuesMean DEF Known, issues
    <3> DEFINE left == naming.left
               names == naming.names
    <3>4. /\ AreEntities(drafts) /\ Expansion(drafts, left, names)
          /\ DOMAIN names = Declared(drafts) \ left /\ IsNext(drafts, left, d)
          /\ \A c \in DOMAIN names : c \in DOMAIN mirror /\ mirror[c] = names[c]
      BY <1>1, <3>2
    <3> HIDE DEF left, names
    <3>5. mirror[d] = InverseName(drafts, names, d)
      BY <3>1, <3>3, <3>4, NamedAlike
    <3> QED BY <2>3, <3>2, <3>3, <3>5 DEF names
  <2>10. Mirrors(mirror)'
    BY <1>1, <1>4, <2>1, <2>8, <2>9 DEF Mirrors
  <2> QED BY <1>1, <1>2, <1>4, <2>7, <2>10 DEF IrInv, ValidateInv, RenderInv, MirrorInv, IndexInv
<1> QED BY <1>3, <1>4 DEF Expand

(* The keys that the validator thinks there are, and those there are.      *)
LEMMA OwnerKeys ==
    ASSUME NEW names, NEW e
    PROVE  {r.foreignKey : r \in {s \in RelationsOf(names, e) : s.owner}} = MirroredKeys(drafts, names, e)
<1> DEFINE C == {c \in DOMAIN names : c[1] = e}
           T == {c \in DOMAIN names : RelationAt(drafts, c).target = e}
           owners == {s \in RelationsOf(names, e) : s.owner}
<1>1. \A d : /\ DeclaredSide(d, names[d]).owner = Owns(RelationAt(drafts, d).type)
             /\ Owns(RelationAt(drafts, d).type) =>
                  DeclaredSide(d, names[d]).foreignKey = Key(RelationAt(drafts, d).name)
  BY DEF DeclaredSide
<1>2. \A d : /\ InverseSide(d, names[d]).owner = (RelationAt(drafts, d).type = "hasMany")
             /\ RelationAt(drafts, d).type = "hasMany" =>
                  InverseSide(d, names[d]).foreignKey = Key(names[d])
  BY DEF InverseSide
<1>3. owners = {DeclaredSide(d, names[d]) : d \in {c \in C : Owns(RelationAt(drafts, c).type)}}
               \cup {InverseSide(d, names[d]) : d \in {c \in T : RelationAt(drafts, c).type = "hasMany"}}
  BY <1>1, <1>2 DEF RelationsOf
<1>4. MirroredKeys(drafts, names, e)
      = {Key(RelationAt(drafts, d).name) : d \in {c \in C : Owns(RelationAt(drafts, c).type)}}
        \cup {Key(names[d]) : d \in {c \in T : RelationAt(drafts, c).type = "hasMany"}}
  BY DEF MirroredKeys
<1> HIDE DEF C, T, owners
<1>5. {r.foreignKey : r \in owners} = MirroredKeys(drafts, names, e)
  BY <1>1, <1>2, <1>3, <1>4
<1> QED BY <1>5 DEF owners

LEMMA KeysAlike ==
    ASSUME NEW E, NEW f, NEW g, DOMAIN f = DOMAIN g, \A c \in DOMAIN f : f[c] = g[c], NEW e
    PROVE  MirroredKeys(E, f, e) = MirroredKeys(E, g, e)
<1> DEFINE D(h) == {c \in DOMAIN h : c[1] = e /\ Owns(RelationAt(E, c).type)}
           M(h) == {c \in DOMAIN h : LET r == RelationAt(E, c) IN r.target = e /\ r.type = "hasMany"}
<1>1. D(f) = D(g) /\ M(f) = M(g) /\ \A c \in M(f) : f[c] = g[c]
  OBVIOUS
<1>2. \A h : MirroredKeys(E, h, e) = {Key(RelationAt(E, c).name) : c \in D(h)} \cup {Key(h[c]) : c \in M(h)}
  BY DEF MirroredKeys
<1> HIDE DEF D, M
<1>3. {Key(f[c]) : c \in M(f)} = {Key(g[c]) : c \in M(g)}
  BY <1>1
<1> QED BY <1>1, <1>2, <1>3

(* Of a specification that packs leave as it is, the validator says what   *)
(* the compiler finds in its indexes, and nothing else.                    *)
LEMMA SaidIs ==
    ASSUME TypeInv, IrInv, compiled.step \in {"expand", "render", "done"}, naming.left = {},
           drafts = source.spec
    PROVE  compiled.said = IF \E e \in DOMAIN drafts : Unindexed(drafts[e], RelationsOf(naming.names, e))
                           THEN {"unknown-index-field"} ELSE {}
<1> DEFINE names == naming.names
<1>1. PICK mirror : Mirrors(mirror)
  BY DEF IrInv, MirrorInv
<1>2. /\ DOMAIN names = Declared(drafts)
      /\ \A d \in DOMAIN names : RelationIssues(RelationAt(drafts, d), DOMAIN drafts) = {}
  BY DEF IrInv, ExpandInv
<1>3. Known(drafts) = Declared(drafts)
  BY <1>2, NoIssuesMean DEF Known
<1>4. /\ DOMAIN mirror = DOMAIN names /\ \A c \in DOMAIN mirror : mirror[c] = names[c]
      /\ compiled.said = SpecificationIssues(drafts, mirror)
  BY <1>1, <1>2, <1>3 DEF Mirrors
<1> HIDE DEF names
<1>5. UNION {RelationIssues(RelationAt(drafts, d), DOMAIN drafts) : d \in Declared(drafts)} = {}
  BY <1>2
<1>6. ASSUME NEW e \in DOMAIN drafts
      PROVE  (UnknownIndexes(drafts[e], MirroredKeys(drafts, mirror, e)) # {})
             <=> Unindexed(drafts[e], RelationsOf(names, e))
  <2>1. drafts[e] = Entity(drafts[e].fields, drafts[e].relations, drafts[e].indexes)
    BY DEF TypeInv, WellFormed
  <2>2. Implied(drafts[e]) = Reserved
    <3>1. drafts[e].softDelete = FALSE
      BY <2>1 DEF Entity
    <3> QED BY <3>1 DEF Implied
  <2>3. MirroredKeys(drafts, mirror, e) = MirroredKeys(drafts, names, e)
    BY <1>4, KeysAlike
  <2>4. {r.foreignKey : r \in {s \in RelationsOf(names, e) : s.owner}} = MirroredKeys(drafts, names, e)
    BY OwnerKeys
  <2> QED BY <2>2, <2>3, <2>4 DEF Unindexed, UnknownIndexes
<1> QED BY <1>4, <1>5, <1>6 DEF SpecificationIssues, names

LEMMA AmbiguousNames == \A draft, relations : "unknown-index-field" \notin Ambiguous(draft, relations)
  BY DEF Ambiguous

LEMMA NormalIs ==
    /\ "unknown-index-field" \in NormalIssues =>
          \E e \in DOMAIN drafts : Unindexed(drafts[e], RelationsOf(naming.names, e))
    /\ NormalIssues = {} =>
          \A e \in DOMAIN drafts : /\ Ambiguous(drafts[e], RelationsOf(naming.names, e)) = {}
                                   /\ ~Unindexed(drafts[e], RelationsOf(naming.names, e))
<1> DEFINE R(e) == RelationsOf(naming.names, e)
           names == UNION {Ambiguous(drafts[e], R(e)) : e \in DOMAIN drafts}
<1>1. \A e \in DOMAIN drafts : Normalized[e].relations = R(e)
  BY DEF Normalized
<1> HIDE DEF R
<1>2. names = UNION {Ambiguous(drafts[e], Normalized[e].relations) : e \in DOMAIN drafts}
  BY <1>1
<1>3. NormalIssues = IF names # {} THEN names
                     ELSE IF \E e \in DOMAIN drafts : Unindexed(drafts[e], R(e))
                     THEN {"unknown-index-field"} ELSE {}
  BY <1>1, <1>2 DEF NormalIssues
<1>4. "unknown-index-field" \notin names
  BY AmbiguousNames
<1>5. names = {} => \A e \in DOMAIN drafts : Ambiguous(drafts[e], R(e)) = {}
  OBVIOUS
<1> HIDE DEF names
<1> QED BY <1>3, <1>4, <1>5 DEF R

LEMMA NormalizeIr == ASSUME TypeInv, IrInv, Normalize PROVE IrInv'
<1> DEFINE unsupported == \E d \in Declared(drafts) : RelationAt(drafts, d).type = "manyToMany"
           issues == IF NormalIssues # {} THEN NormalIssues
                     ELSE IF unsupported THEN {"unsupported-relation"} ELSE {}
           w == With("render", compiled.issues, compiled.said, compiled.order, compiled.shaped,
                     Normalized, compiled.files)
<1>1. /\ UNCHANGED <<source, visits, drafts, naming>> /\ compiled.step = "expand" /\ IsRecord(compiled)
      /\ naming.left = {} /\ compiled.issues = {}
  BY NoIssuesYet DEF Normalize, TypeInv
<1>2. DraftsInv'
  BY <1>1 DEF IrInv, DraftsInv
<1>3. PICK mirror : Mirrors(mirror)
  BY <1>1 DEF IrInv, MirrorInv
<1>4. CASE Refuse(issues)
  <2>1. "unknown-index-field" \in issues => "unknown-index-field" \in NormalIssues
    OBVIOUS
  <2> HIDE DEF issues
  <2>2. compiled'.said = compiled.said /\ compiled'.step = "refused" /\ compiled'.issues = issues
    BY <1>1, <1>4, RefuseFields
  <2>3. "unknown-index-field" \in issues /\ drafts = source.spec => "unknown-index-field" \in compiled.said
    BY <1>1, <2>1, NormalIs, SaidIs
  <2>4. IndexInv'
    BY <1>1, <2>2, <2>3 DEF IndexInv
  <2>5. Mirrors(mirror)'
    BY <1>1, <1>3, <2>2 DEF Mirrors
  <2> QED BY <1>2, <2>2, <2>4, <2>5 DEF IrInv, ValidateInv, ExpandInv, RenderInv, MirrorInv
<1>5. CASE issues = {} /\ compiled' = [compiled EXCEPT !.step = "render", !.entities = Normalized]
  <2>1. compiled' = w
    BY <1>1, <1>5 DEF IsRecord, With
  <2>2. NormalIssues = {} /\ ~unsupported
    BY <1>5
  <2> HIDE DEF w, issues
  <2>3. /\ compiled'.step = "render" /\ compiled'.issues = {} /\ compiled'.said = compiled.said
        /\ compiled'.entities = Normalized
    BY <1>1, <2>1, WithFields DEF w
  <2>4. Normalized' = Normalized /\ NormalIssues' = NormalIssues
    BY <1>1 DEF Normalized, NormalIssues, RelationsOf, DeclaredSide, InverseSide, OnDelete
  <2>5. RenderInv'
    BY <1>1, <2>2, <2>3, <2>4 DEF RenderInv
  <2>6. Mirrors(mirror)'
    BY <1>1, <1>3, <2>3 DEF Mirrors
  <2>7. ExpandInv'
    BY <1>1, <2>3 DEF IrInv, ExpandInv
  <2> QED BY <1>2, <2>3, <2>5, <2>6, <2>7 DEF IrInv, ValidateInv, MirrorInv, IndexInv
<1> QED BY <1>4, <1>5 DEF Normalize

LEMMA RenderIr == ASSUME TypeInv, IrInv, Render PROVE IrInv'
<1> DEFINE files == UNION {Contribution(p).files : p \in Ordered}
           w == With("done", compiled.issues, compiled.said, compiled.order, compiled.shaped,
                     compiled.entities, files)
<1>1. /\ UNCHANGED <<source, visits, drafts, naming>> /\ compiled.step = "render" /\ IsRecord(compiled)
      /\ compiled.issues = {}
  BY NoIssuesYet DEF Render, TypeInv
<1>2. DraftsInv'
  BY <1>1 DEF IrInv, DraftsInv
<1>3. CASE Refuse({"file-conflict"})
  <2>1. compiled'.said = compiled.said /\ compiled'.step = "refused" /\ compiled'.issues = {"file-conflict"}
    BY <1>1, <1>3, RefuseFields
  <2> QED BY <1>1, <1>2, <2>1, OtherIr
<1>4. CASE compiled' = [compiled EXCEPT !.step = "done", !.files = files]
  <2> HIDE DEF files
  <2>1. compiled' = w
    BY <1>1, <1>4 DEF IsRecord, With
  <2> HIDE DEF w
  <2>2. /\ compiled'.step = "done" /\ compiled'.issues = {} /\ compiled'.said = compiled.said
        /\ compiled'.entities = compiled.entities
    BY <1>1, <2>1, WithFields DEF w
  <2>3. Normalized' = Normalized /\ NormalIssues' = NormalIssues
    BY <1>1 DEF Normalized, NormalIssues, RelationsOf, DeclaredSide, InverseSide, OnDelete
  <2>4. RenderInv' /\ ExpandInv'
    BY <1>1, <2>2, <2>3 DEF IrInv, RenderInv, ExpandInv
  <2>5. PICK mirror : Mirrors(mirror)
    BY <1>1 DEF IrInv, MirrorInv
  <2>6. Mirrors(mirror)'
    BY <1>1, <2>2, <2>5 DEF Mirrors
  <2> QED BY <1>2, <2>2, <2>4, <2>6 DEF IrInv, ValidateInv, MirrorInv, IndexInv
<1> QED BY <1>3, <1>4 DEF Render

-----------------------------------------------------------------------------
(* What the targets render from.                                           *)
LEMMA UnambiguousIs ==
    ASSUME NEW draft, NEW relations, Ambiguous(draft, relations) = {}
    PROVE  /\ {s.name : s \in relations} \cap (draft.fields \cup Reserved) = {}
           /\ \A r \in relations : r.owner =>
                /\ r.foreignKey \notin (draft.fields \cup Reserved) \cup {s.name : s \in relations}
                /\ \A s \in relations : s.owner /\ s # r => s.foreignKey # r.foreignKey
<1> DEFINE taken  == Implied(draft) \cup draft.fields
           names  == {r.name : r \in relations}
           owners == {r \in relations : r.owner}
<1>1. Reserved \subseteq Implied(draft)
  BY DEF Implied
<1>2. names \cap taken = {}
  BY DEF Ambiguous
<1>3. \A r \in owners : r.foreignKey \notin taken \cup names /\ \A s \in owners \ {r} : s.foreignKey # r.foreignKey
  BY DEF Ambiguous
<1> QED BY <1>1, <1>2, <1>3

LEMMA SidesAre ==
    ASSUME NEW d, NEW inverse
    PROVE  LET r == RelationAt(drafts, d)
               a == DeclaredSide(d, inverse)
               b == InverseSide(d, inverse)
           IN  /\ a.relationName = b.relationName
               /\ a.name = r.name /\ a.inverseName = inverse /\ a.target = r.target
               /\ b.name = inverse /\ b.inverseName = r.name /\ b.target = d[1]
               /\ a.owner = Owns(r.type) /\ b.owner = (r.type = "hasMany")
  BY DEF DeclaredSide, InverseSide

LEMMA SideOf ==
    ASSUME NEW names, NEW e, NEW r \in RelationsOf(names, e)
    PROVE  \/ \E d \in DOMAIN names : d[1] = e /\ r = DeclaredSide(d, names[d])
           \/ \E d \in DOMAIN names : RelationAt(drafts, d).target = e /\ r = InverseSide(d, names[d])
  BY DEF RelationsOf

LEMMA SidesIn ==
    ASSUME NEW names, NEW d \in DOMAIN names
    PROVE  /\ DeclaredSide(d, names[d]) \in RelationsOf(names, d[1])
           /\ InverseSide(d, names[d]) \in RelationsOf(names, RelationAt(drafts, d).target)
  BY DEF RelationsOf

(* Both sides of a relation are there, and one of them has the key.        *)
LEMMA BothSides ==
    ASSUME NEW names, NEW d \in DOMAIN names,
           RelationAt(drafts, d).type \in {"belongsTo", "hasOne", "hasMany"}
    PROVE  LET a == DeclaredSide(d, names[d])
               b == InverseSide(d, names[d])
           IN  /\ b \in {s \in RelationsOf(names, a.target) :
                           /\ s.relationName = a.relationName /\ s.target = d[1]
                           /\ s.name = a.inverseName /\ s.inverseName = a.name}
               /\ a \in {s \in RelationsOf(names, b.target) :
                           /\ s.relationName = b.relationName /\ s.target = RelationAt(drafts, d).target
                           /\ s.name = b.inverseName /\ s.inverseName = b.name}
               /\ a.owner # b.owner
<1> DEFINE r == RelationAt(drafts, d)
           a == DeclaredSide(d, names[d])
           b == InverseSide(d, names[d])
<1>1. a \in RelationsOf(names, d[1]) /\ b \in RelationsOf(names, r.target)
  BY SidesIn
<1>2. /\ a.relationName = b.relationName
      /\ a.name = r.name /\ a.inverseName = names[d] /\ a.target = r.target
      /\ b.name = names[d] /\ b.inverseName = r.name /\ b.target = d[1]
      /\ a.owner = Owns(r.type) /\ b.owner = (r.type = "hasMany")
  BY SidesAre
<1>3. Owns(r.type) # (r.type = "hasMany")
  BY DEF Owns
<1> HIDE DEF a, b
<1>4. a.owner # b.owner
  BY <1>2, <1>3
<1>5. b \in {s \in RelationsOf(names, a.target) :
               /\ s.relationName = a.relationName /\ s.target = d[1]
               /\ s.name = a.inverseName /\ s.inverseName = a.name}
  BY <1>1, <1>2
<1>6. a \in {s \in RelationsOf(names, b.target) :
               /\ s.relationName = b.relationName /\ s.target = r.target
               /\ s.name = b.inverseName /\ s.inverseName = b.name}
  BY <1>1, <1>2
<1> QED BY <1>4, <1>5, <1>6 DEF a, b

(* Two relations of an entity have one name only where it is declared      *)
(* twice, or where one of them is an inverse that was named a second time. *)
LEMMA NamedOnce ==
    ASSUME TypeInv, DraftsInv, NEW names, ByRule(drafts, names), DOMAIN names \subseteq Declared(drafts),
           NEW e, NEW r \in RelationsOf(names, e), NEW s \in RelationsOf(names, e), r # s, r.name = s.name
    PROVE  DeclaredTwice(e, r.name) \/ r.name[1] = "via"
<1>1. AreEntities(drafts)
  BY DraftsAre
<1>2. ASSUME NEW c \in DOMAIN names, c[1] = e, NEW d \in DOMAIN names, d[1] = e,
             r = DeclaredSide(c, names[c]), s = DeclaredSide(d, names[d])
      PROVE  DeclaredTwice(e, r.name)
  <2>1. c \in Declared(drafts) /\ d \in Declared(drafts) /\ c # d
    BY <1>2
  <2>2. c = <<e, c[2]>> /\ c[2] \in DOMAIN drafts[e].relations /\ RelationAt(drafts, c) = drafts[e].relations[c[2]]
        /\ e \in DOMAIN drafts
    BY <1>1, <1>2, <2>1, DeclaredIs
  <2>3. d = <<e, d[2]>> /\ d[2] \in DOMAIN drafts[e].relations /\ RelationAt(drafts, d) = drafts[e].relations[d[2]]
    BY <1>1, <1>2, <2>1, DeclaredIs
  <2>4. c[2] # d[2]
    BY <2>1, <2>2, <2>3
  <2>5. r.name = drafts[e].relations[c[2]].name /\ s.name = drafts[e].relations[d[2]].name
    BY <1>2, <2>2, <2>3, SidesAre
  <2> DEFINE i == c[2]
             j == d[2]
  <2>6. e \in DOMAIN source.spec /\ i \in DOMAIN source.spec[e].relations /\ j \in DOMAIN source.spec[e].relations
    <3>1. /\ e \in DOMAIN drafts /\ i \in DOMAIN drafts[e].relations /\ j \in DOMAIN drafts[e].relations /\ i # j
          /\ drafts[e].relations[i].name = drafts[e].relations[j].name
      BY <2>2, <2>3, <2>4, <2>5
    <3> HIDE DEF i, j
    <3> QED BY <3>1 DEF DraftsInv
  <2>7. /\ drafts[e].relations[c[2]] = source.spec[e].relations[c[2]]
        /\ drafts[e].relations[d[2]] = source.spec[e].relations[d[2]]
    BY <2>6 DEF DraftsInv
  <2> QED BY <2>4, <2>5, <2>6, <2>7 DEF DeclaredTwice
<1>3. ASSUME NEW c \in DOMAIN names, c[1] = e, NEW d \in DOMAIN names, RelationAt(drafts, d).target = e,
             RelationAt(drafts, c).name = names[d]
      PROVE  names[d][1] = "via"
  <2>1. /\ e \in DOMAIN drafts /\ c[2] \in DOMAIN drafts[e].relations
        /\ RelationAt(drafts, c) = drafts[e].relations[c[2]]
    BY <1>1, <1>3, DeclaredIs
  <2>2. names[d] \in Names(drafts[e])
    BY <1>3, <2>1 DEF Names, RelationNamesOf
  <2> QED BY <1>3, <2>2, RuleIs
<1>4. ASSUME NEW c \in DOMAIN names, RelationAt(drafts, c).target = e,
             NEW d \in DOMAIN names, RelationAt(drafts, d).target = e,
             r = InverseSide(c, names[c]), s = InverseSide(d, names[d])
      PROVE  r.name[1] = "via"
  <2>1. names[c] = r.name /\ names[d] = s.name
    BY <1>4, SidesAre
  <2>2. c # d /\ names[c] = names[d] /\ RelationAt(drafts, c).target = RelationAt(drafts, d).target
    BY <1>4, <2>1
  <2>3. names[d][1] = "via"
    BY <1>1, <2>2, InversesDiffer
  <2> QED BY <2>1, <2>3
<1>5. ASSUME NEW c \in DOMAIN names, c[1] = e, NEW d \in DOMAIN names, RelationAt(drafts, d).target = e,
             {r, s} = {DeclaredSide(c, names[c]), InverseSide(d, names[d])}
      PROVE  r.name[1] = "via"
  <2>1. DeclaredSide(c, names[c]).name = RelationAt(drafts, c).name /\ InverseSide(d, names[d]).name = names[d]
    BY SidesAre
  <2>2. RelationAt(drafts, c).name = names[d] /\ r.name = names[d]
    BY <1>5, <2>1
  <2> QED BY <1>3, <1>5, <2>2
<1>6. \/ \E d \in DOMAIN names : d[1] = e /\ r = DeclaredSide(d, names[d])
      \/ \E d \in DOMAIN names : RelationAt(drafts, d).target = e /\ r = InverseSide(d, names[d])
  BY SideOf
<1>7. \/ \E d \in DOMAIN names : d[1] = e /\ s = DeclaredSide(d, names[d])
      \/ \E d \in DOMAIN names : RelationAt(drafts, d).target = e /\ s = InverseSide(d, names[d])
  BY SideOf
<1> QED BY <1>2, <1>4, <1>5, <1>6, <1>7

LEMMA PairedInvOK == ASSUME TypeInv, IrInv PROVE RelationsPaired
<1> SUFFICES ASSUME compiled.step \in {"render", "done"} PROVE RelationsPaired
  BY ReachedIs DEF RelationsPaired
<1> DEFINE names == naming.names
           E == compiled.entities
           Other(e, r) == {s \in E[r.target].relations :
                             /\ s.relationName = r.relationName /\ s.target = e
                             /\ s.name = r.inverseName /\ s.inverseName = r.name}
<1>1. /\ E = Normalized /\ NormalIssues = {} /\ DraftsInv
      /\ ByRule(drafts, names) /\ DOMAIN names = Declared(drafts)
      /\ \A d \in DOMAIN names : RelationAt(drafts, d).type # "manyToMany"
      /\ \A d \in DOMAIN names : RelationAt(drafts, d).target \in DOMAIN drafts
  BY NoIssuesMean DEF IrInv, RenderInv, ExpandInv, Expansion
<1>2. /\ DOMAIN E = DOMAIN drafts
      /\ \A e \in DOMAIN drafts : E[e].relations = RelationsOf(names, e) /\ E[e].fields = drafts[e].fields
  BY <1>1 DEF Normalized
<1>3. \A e \in DOMAIN drafts : Ambiguous(drafts[e], RelationsOf(names, e)) = {}
  BY <1>1, NormalIs
<1> HIDE DEF names, E
<1>4. ASSUME NEW d \in DOMAIN names
      PROVE  /\ d[1] \in DOMAIN drafts /\ RelationAt(drafts, d).target \in DOMAIN drafts
             /\ RelationAt(drafts, d).type \in {"belongsTo", "hasOne", "hasMany"}
  BY <1>1, DraftsAre, DeclaredIs DEF DeclaredRelation
<1>5. ASSUME NEW e \in DOMAIN E, NEW r \in E[e].relations
      PROVE  r.target \in DOMAIN E /\ \E s \in Other(e, r) : s.owner # r.owner
  <2>1. r \in RelationsOf(names, e)
    BY <1>2
  <2>2. ASSUME NEW d \in DOMAIN names, d[1] = e, r = DeclaredSide(d, names[d])
        PROVE  r.target \in DOMAIN E /\ \E s \in Other(e, r) : s.owner # r.owner
    <3> DEFINE b == InverseSide(d, names[d])
    <3>1. r.target = RelationAt(drafts, d).target
      BY <2>2, SidesAre
    <3>2. /\ b \in {s \in RelationsOf(names, r.target) :
                      /\ s.relationName = r.relationName /\ s.target = d[1]
                      /\ s.name = r.inverseName /\ s.inverseName = r.name}
          /\ r.owner # b.owner
      BY <1>4, <2>2, BothSides
    <3> HIDE DEF b
    <3> QED BY <1>2, <1>4, <2>2, <3>1, <3>2
  <2>3. ASSUME NEW d \in DOMAIN names, RelationAt(drafts, d).target = e, r = InverseSide(d, names[d])
        PROVE  r.target \in DOMAIN E /\ \E s \in Other(e, r) : s.owner # r.owner
    <3> DEFINE a == DeclaredSide(d, names[d])
    <3>1. r.target = d[1]
      BY <2>3, SidesAre
    <3>2. /\ a \in {s \in RelationsOf(names, r.target) :
                      /\ s.relationName = r.relationName /\ s.target = RelationAt(drafts, d).target
                      /\ s.name = r.inverseName /\ s.inverseName = r.name}
          /\ a.owner # r.owner
      BY <1>4, <2>3, BothSides
    <3> HIDE DEF a
    <3> QED BY <1>2, <1>4, <2>3, <3>1, <3>2
  <2> QED BY <2>1, <2>2, <2>3, SideOf
<1>6. ASSUME NEW e \in DOMAIN E, NEW r \in E[e].relations, NEW s \in E[e].relations, r # s
      PROVE  /\ r.owner /\ s.owner => r.foreignKey # s.foreignKey
             /\ r.name = s.name => DeclaredTwice(e, r.name) \/ r.name[1] = "via"
  <2>1. r \in RelationsOf(names, e) /\ s \in RelationsOf(names, e)
    BY <1>2
  <2>2. r.owner /\ s.owner => r.foreignKey # s.foreignKey
    BY <1>2, <1>3, <1>6, <2>1, UnambiguousIs
  <2>3. r.name = s.name => DeclaredTwice(e, r.name) \/ r.name[1] = "via"
    BY <1>1, <1>6, <2>1, NamedOnce
  <2> QED BY <2>2, <2>3
<1>7. ASSUME NEW e \in DOMAIN E
      PROVE  LET taken == E[e].fields \cup Reserved
                 given == {s.name : s \in E[e].relations}
             IN  /\ given \cap taken = {}
                 /\ \A r \in E[e].relations : r.owner => r.foreignKey \notin taken \cup given
  BY <1>2, <1>3, UnambiguousIs
<1> QED BY <1>5, <1>6, <1>7 DEF RelationsPaired, E

LEMMA IrInvOK == ASSUME TypeInv, IrInv PROVE IrConsistent
<1>1. RelationsPaired
  BY PairedInvOK
<1>2. ASSUME drafts = source.spec, compiled.step \in {"render", "done"} PROVE compiled.said = {}
  <2>1. naming.left = {} /\ NormalIssues = {}
    BY <1>2 DEF IrInv, RenderInv
  <2> QED BY <1>2, <2>1, NormalIs, SaidIs
<1>3. IndexFieldsAgree
  BY <1>2, ReachedIs DEF IrInv, IndexInv, IndexFieldsAgree
<1> QED BY <1>1, <1>3 DEF IrConsistent

-----------------------------------------------------------------------------
(* The theorems.  The sources are any packs and specifications there are.  *)
CompileInv == TypeInv /\ PacksInv /\ IrInv

LEMMA StartInv ==
    ASSUME NEW Sources, \A s \in Sources : WellFormed(s), CompileInit(Sources)
    PROVE  CompileInv
<1>1. WellFormed(source) /\ CompileInit({source})
  BY DEF CompileInit
<1>2. PacksInv
  BY <1>1 DEF CompileInit, Start, PacksInv, Begun
<1> QED BY <1>1, <1>2, TypesInit, IrInit DEF CompileInv

LEMMA StepInv == ASSUME CompileInv, [CompileNext]_compileVars PROVE CompileInv'
<1> USE DEF CompileInv
<1>1. CASE UNCHANGED compileVars
  <2>1. UNCHANGED <<source, compiled, visits, drafts, naming>>
    BY <1>1 DEF compileVars
  <2>2. TypeInv'
    BY <2>1 DEF TypeInv
  <2>3. PacksInv'
    <3>1. Ordered' = Ordered /\ (Sorted' <=> Sorted) /\ (Sound' <=> Sound)
      BY <2>1, OrderKept, SelectionKept
    <3>2. Walk' <=> Walk
      BY <2>1, WalkKept
    <3>3. FilesKept' <=> FilesKept
      BY <2>1 DEF FilesKept, Contribution
    <3> QED BY <2>1, <3>1, <3>2, <3>3 DEF PacksInv
  <2>4. Normalized' = Normalized /\ NormalIssues' = NormalIssues
    BY <2>1 DEF Normalized, NormalIssues, RelationsOf, DeclaredSide, InverseSide, OnDelete
  <2>5. IrInv'
    BY <2>1, <2>4 DEF IrInv, DraftsInv, ValidateInv, ExpandInv, RenderInv, MirrorInv, Mirrors, IndexInv
  <2> QED BY <2>2, <2>3, <2>5
<1>2. ASSUME NEW d \in naming.left, Mirror(d) \/ Expand(d) PROVE CompileInv'
  BY <1>2, MirrorTypes, ExpandTypes, OtherPacks, MirrorIr, ExpandIr
<1>3. ASSUME NEW p \in Packs, Visit(p) PROVE CompileInv'
  BY <1>3, VisitTypes, VisitPacks, ResolutionIr
<1>4. CASE Validate
  BY <1>4, ValidateTypes, OtherPacks, ValidateIr
<1>5. CASE Resolve
  BY <1>5, ResolveTypes, OtherPacks, ResolutionIr
<1>6. CASE Leave
  <2>1. TypeInv'
    BY <1>6, LeaveTypes, LeaveWalk DEF PacksInv, Leave
  <2> QED BY <1>6, <2>1, LeavePacks, ResolutionIr
<1>7. CASE Resolved
  BY <1>7, ResolvedTypes, ResolvedPacks, ResolutionIr
<1>8. CASE Create
  BY <1>8, CreateTypes, OtherPacks, CreateIr
<1>9. CASE Created
  BY <1>9, CreatedTypes, OtherPacks, CreatedIr
<1>10. CASE Patch
  BY <1>10, PatchTypes, OtherPacks, PatchIr
<1>11. CASE Shaped
  BY <1>11, ShapedTypes, OtherPacks, ShapedIr
<1>12. CASE Normalize
  BY <1>12, NormalizeTypes, OtherPacks, NormalizeIr
<1>13. CASE Render
  BY <1>13, RenderTypes, RenderPacks, RenderIr
<1> QED BY <1>1, <1>2, <1>3, <1>4, <1>5, <1>6, <1>7, <1>8, <1>9, <1>10, <1>11, <1>12, <1>13 DEF CompileNext

(* The compiler works on entities, packs and relations there are, and has  *)
(* issues exactly when it refuses (compileBackend, resolveFeatures).       *)
THEOREM CompileTyped ==
    ASSUME NEW Sources, \A s \in Sources : WellFormed(s)
    PROVE  CompileSpec(Sources) => []CompileTypeOK
<1>1. CompileInit(Sources) => CompileInv
  BY StartInv
<1>2. CompileInv /\ [CompileNext]_compileVars => CompileInv'
  BY StepInv
<1>3. CompileInv => CompileTypeOK
  BY TypeInvOK DEF CompileInv
<1> QED BY <1>1, <1>2, <1>3, PTL DEF CompileSpec

(* However packs depend on each other, a selection is taken exactly when   *)
(* it makes sense, each pack is ordered once and after those it needs, and *)
(* its files are in the project as it rendered them (resolveFeatures,      *)
(* orderFeatures, mergeRenderResults).                                     *)
THEOREM PacksAreHonoured ==
    ASSUME NEW Sources, \A s \in Sources : WellFormed(s)
    PROVE  CompileSpec(Sources) => []PacksHonoured
<1>1. CompileInit(Sources) => CompileInv
  BY StartInv
<1>2. CompileInv /\ [CompileNext]_compileVars => CompileInv'
  BY StepInv
<1>3. CompileInv => PacksHonoured
  BY PacksInvOK DEF CompileInv
<1> QED BY <1>1, <1>2, <1>3, PTL DEF CompileSpec

(* Whatever a specification declares and packs add, each relation that is  *)
(* rendered has its other side, one of the two the key, and names clash    *)
(* only where the code lets them; the validator and the compiler find the  *)
(* same indexes unknown (deriveRelationSides, validateImplicitNames,       *)
(* deriveRelationForeignKeys).                                             *)
THEOREM IrIsConsistent ==
    ASSUME NEW Sources, \A s \in Sources : WellFormed(s)
    PROVE  CompileSpec(Sources) => []IrConsistent
<1>1. CompileInit(Sources) => CompileInv
  BY StartInv
<1>2. CompileInv /\ [CompileNext]_compileVars => CompileInv'
  BY StepInv
<1>3. CompileInv => IrConsistent
  BY IrInvOK DEF CompileInv
<1> QED BY <1>1, <1>2, <1>3, PTL DEF CompileSpec

-----------------------------------------------------------------------------
(* The seed.  Where a row is among those of its organization.              *)
LEMMA Divided ==
    ASSUME NEW n \in Nat \ {0}, NEW x \in Nat
    PROVE  /\ x \div n \in Nat /\ x % n \in 0 .. n - 1
           /\ x = n * (x \div n) + (x % n)
           /\ x < n => x % n = x /\ x \div n = 0
OBVIOUS

LEMMA Product ==
    ASSUME NEW n \in Nat \ {0}, NEW m \in Nat, NEW q \in Nat, NEW r \in Nat, n * q + r < n * m
    PROVE  q < m
<1> SUFFICES ASSUME m <= q PROVE FALSE
  OBVIOUS
<1>1. n * m <= n * q
  OBVIOUS
<1> QED BY <1>1

LEMMA Placed ==
    ASSUME NEW n \in Nat \ {0}, NEW m \in Nat, NEW o \in 1 .. n * m
    PROVE  /\ (o - 1) \div n \in 0 .. m - 1 /\ (o - 1) % n \in 0 .. n - 1
           /\ o = n * ((o - 1) \div n) + ((o - 1) % n) + 1
<1> DEFINE x == o - 1
           q == x \div n
           r == x % n
<1>1. x \in Nat /\ n * m \in Nat
  OBVIOUS
<1>2. q \in Nat /\ r \in 0 .. n - 1 /\ x = n * q + r
  BY <1>1, Divided
<1>3. x < n * m
  BY <1>1
<1>4. q < m
  <2> HIDE DEF x, q, r
  <2> QED BY <1>2, <1>3, Product
<1> QED BY <1>1, <1>2, <1>4

LEMMA ManyIs == ASSUME NEW n \in Nat \ {0}, NEW m \in Nat \ {0} PROVE n * m \in Nat \ {0} /\ m <= n * m /\ n <= n * m
OBVIOUS

(* What the members of an index are drawn from.                            *)
LEMMA FirstOfIs ==
    ASSUME NEW N, NEW index \in Seq(N), NEW S
    PROVE  /\ FirstOf(index, S) \subseteq Members(index) \cap S
           /\ FirstOf(index, S) = {} => Members(index) \cap S = {}
<1>1. FirstOf(index, S) \subseteq Members(index) \cap S
  BY DEF FirstOf, Members
<1>2. ASSUME NEW i \in DOMAIN index, index[i] \in S
      PROVE  FirstOf(index, S) # {}
  <2> DEFINE J == {j \in DOMAIN index : index[j] \in S}
  <2>1. Len(index) \in Nat /\ DOMAIN index = 1 .. Len(index)
    BY LenProperties
  <2>2. J \in SUBSET (1 .. Len(index)) /\ J # {}
    BY <1>2, <2>1
  <2> HIDE DEF J
  <2>3. PICK m \in J : \A j \in J : m <= j
    BY <2>1, <2>2, LeastOf
  <2> USE DEF J
  <2>4. \A k \in 1 .. m - 1 : index[k] \notin S
    <3> SUFFICES ASSUME NEW k \in 1 .. m - 1, index[k] \in S PROVE FALSE
      OBVIOUS
    <3>1. k \in J /\ k < m
      BY <2>1
    <3> QED BY <2>1, <2>3, <3>1
  <2> QED BY <2>3, <2>4 DEF FirstOf
<1> QED BY <1>1, <1>2 DEF Members

Columns(entity) == seededFields(entity) \cup RequiredKeys(entity)

(* A column that is never the same in two rows of an entity.               *)
Distinguishes(entity, name) ==
    \/ name = "id"
    \/ name \notin Columns(entity) /\ LeftOut(entity, name)
    \/ name \in DOMAIN entity.fields /\ UniqueField(entity, name)
    \/ name \in RequiredKeys(entity) /\ UniqueKey(entity, name)

LEMMA ColumnsAre ==
    ASSUME NEW entity, Described(entity)
    PROVE  /\ seededFields(entity) \subseteq DOMAIN entity.fields
           /\ RequiredKeys(entity) \subseteq DOMAIN entity.keys
           /\ DOMAIN entity.fields \cap DOMAIN entity.keys = {}
           /\ \A f \in DOMAIN entity.fields : UniqueField(entity, f) => f \in seededFields(entity)
           /\ "id" \notin Columns(entity)
BY DEF Described, seededFields, RequiredKeys, Columns, Implicit

LEMMA UniqueDistinguishes ==
    ASSUME NEW entity, Described(entity), NEW name, AlreadyUnique(entity, name)
    PROVE  Distinguishes(entity, name)
<1>1. CASE name \in DOMAIN entity.fields /\ entity.fields[name].unique
  BY <1>1 DEF Distinguishes, UniqueField
<1>2. CASE name \in DOMAIN entity.keys /\ entity.keys[name].unique
  <2>1. CASE entity.keys[name].required
    BY <1>2, <2>1 DEF Distinguishes, UniqueKey, RequiredKeys
  <2>2. CASE ~entity.keys[name].required
    <3>1. name \notin Columns(entity)
      BY <1>2, <2>2, ColumnsAre DEF Columns, RequiredKeys
    <3> QED BY <1>2, <2>2, <3>1 DEF Distinguishes, LeftOut
  <2> QED BY <2>1, <2>2
<1> QED BY <1>1, <1>2 DEF AlreadyUnique, Distinguishes

LEMMA LeftOutDistinguishes ==
    ASSUME NEW entity, Described(entity), NEW name, LeftOut(entity, name)
    PROVE  Distinguishes(entity, name)
<1>1. CASE name \in DOMAIN entity.fields /\ ~entity.fields[name].required
  <2>1. CASE UniqueField(entity, name)
    BY <1>1, <2>1 DEF Distinguishes
  <2>2. CASE ~UniqueField(entity, name)
    <3>1. name \notin Columns(entity)
      BY <1>1, <2>2, ColumnsAre DEF Columns, seededFields
    <3> QED BY <3>1 DEF Distinguishes
  <2> QED BY <2>1, <2>2
<1>2. CASE name \in DOMAIN entity.keys /\ ~entity.keys[name].required
  <2>1. name \notin Columns(entity)
    BY <1>2, ColumnsAre DEF Columns, RequiredKeys
  <2> QED BY <2>1 DEF Distinguishes
<1> QED BY <1>1, <1>2 DEF LeftOut

LEMMA IndexDistinguishes ==
    ASSUME NEW entity, Described(entity), uniqueDrivers(entity).unsupported = {},
           NEW index \in entity.indexes
    PROVE  \E name \in Members(index) : Distinguishes(entity, name)
<1> DEFINE open == {i \in entity.indexes :
                      ~\E name \in Members(i) : AlreadyUnique(entity, name) \/ LeftOut(entity, name)}
           N == DOMAIN entity.fields \cup DOMAIN entity.keys \cup Implicit
<1>1. CASE index \notin open
  BY <1>1, UniqueDistinguishes, LeftOutDistinguishes
<1>2. CASE index \in open
  <2>1. uniqueDrivers(entity) = [names |-> UNION {Driver(entity, i) : i \in open},
                                 unsupported |-> {i \in open : Members(i) \subseteq Implicit}]
    BY DEF uniqueDrivers
  <2>2. index \in Seq(N) /\ Members(index) \subseteq N
    <3>1. index \in Seq(N)
      BY DEF Described
    <3> QED BY <3>1, LenProperties, ElementOfSeq DEF Members
  <2>3. ~(Members(index) \subseteq Implicit)
    BY <1>2, <2>1
  <2>4. Driver(entity, index) # {}
    <3>1. Members(index) \cap DOMAIN entity.fields # {} \/ Members(index) \cap DOMAIN entity.keys # {}
      BY <2>2, <2>3
    <3>2. FirstOf(index, DOMAIN entity.fields) = {} => Members(index) \cap DOMAIN entity.fields = {}
      BY <2>2, FirstOfIs
    <3>3. FirstOf(index, DOMAIN entity.keys) = {} => Members(index) \cap DOMAIN entity.keys = {}
      BY <2>2, FirstOfIs
    <3> QED BY <3>1, <3>2, <3>3 DEF Driver
  <2>5. PICK name : name \in Driver(entity, index)
    BY <2>4
  <2>6. name \in Members(index) /\ name \in DOMAIN entity.fields \cup DOMAIN entity.keys
    <3>1. FirstOf(index, DOMAIN entity.fields) \subseteq Members(index) \cap DOMAIN entity.fields
      BY <2>2, FirstOfIs
    <3>2. FirstOf(index, DOMAIN entity.keys) \subseteq Members(index) \cap DOMAIN entity.keys
      BY <2>2, FirstOfIs
    <3> QED BY <2>5, <3>1, <3>2 DEF Driver
  <2>7. name \in uniqueDrivers(entity).names
    BY <1>2, <2>1, <2>5
  <2>8. CASE name \in DOMAIN entity.fields
    BY <2>6, <2>7, <2>8 DEF Distinguishes, UniqueField
  <2>9. CASE name \in DOMAIN entity.keys
    <3>1. ~LeftOut(entity, name)
      BY <1>2, <2>6
    <3>2. name \in RequiredKeys(entity)
      BY <2>9, <3>1 DEF LeftOut, RequiredKeys
    <3> QED BY <2>6, <2>7, <3>2 DEF Distinguishes, UniqueKey
  <2> QED BY <2>6, <2>8, <2>9
<1> QED BY <1>1, <1>2

UniqueIndexes(entity) ==
    entity.indexes \cup {<<f>> : f \in {g \in DOMAIN entity.fields : entity.fields[g].unique}}
                   \cup {<<k>> : k \in {j \in DOMAIN entity.keys : entity.keys[j].unique}}

LEMMA EveryIndexDistinguishes ==
    ASSUME NEW entity, Described(entity), uniqueDrivers(entity).unsupported = {},
           NEW index \in UniqueIndexes(entity)
    PROVE  \E name \in Members(index) : Distinguishes(entity, name)
<1>1. CASE index \in entity.indexes
  BY <1>1, IndexDistinguishes
<1>2. ASSUME NEW name, index = <<name>>, AlreadyUnique(entity, name)
      PROVE  \E n \in Members(index) : Distinguishes(entity, n)
  <2>1. name \in Members(index)
    BY <1>2 DEF Members
  <2> QED BY <1>2, <2>1, UniqueDistinguishes
<1> QED BY <1>1, <1>2 DEF UniqueIndexes, AlreadyUnique

-----------------------------------------------------------------------------
(* The rows of an entity.                                                  *)
IsShaped == SeedWellFormed(seeded)

LEMMA CountsAre ==
    ASSUME IsShaped
    PROVE  /\ seeded.rows \in Nat \ {0} /\ seeded.organizations \in Nat
           /\ seededUserCount \in Nat \ {0}
           /\ seeded.organizations > 0 => seededUserCount = 2 * seeded.organizations
           /\ \A entity : desiredEntityRows(entity) \in Nat \ {0}
           /\ \A entity : Scoped(entity) => /\ seeded.organizations \in Nat \ {0}
                                            /\ desiredEntityRows(entity) = seeded.rows * seeded.organizations
           /\ \A entity : ~Scoped(entity) => desiredEntityRows(entity) = seeded.rows
<1>1. seeded.rows \in Nat \ {0} /\ seeded.organizations \in Nat
  BY DEF IsShaped, SeedWellFormed
<1>2. seeded.organizations > 0 => seeded.rows * seeded.organizations \in Nat \ {0}
  BY <1>1, ManyIs
<1>3. \A entity : Scoped(entity) => seeded.organizations > 0
  BY DEF Scoped
<1>4. \A entity : desiredEntityRows(entity) \in Nat \ {0}
  BY <1>1, <1>2, <1>3 DEF desiredEntityRows
<1>5. seededUserCount \in Nat \ {0} /\ (seeded.organizations > 0 => seededUserCount = 2 * seeded.organizations)
  BY <1>1 DEF seededUserCount
<1> QED BY <1>1, <1>3, <1>4, <1>5 DEF desiredEntityRows

LEMMA UniqueValue ==
    ASSUME NEW entity, Described(entity), NEW R \in Nat, ~TooFewValues(entity, R),
           NEW f \in DOMAIN entity.fields, UniqueField(entity, f), NEW index, NEW o \in 1 .. R
    PROVE  valueExpression(entity.fields[f], TRUE, index, o) = o - 1
<1> DEFINE field == entity.fields[f]
<1>1. field.kind \in {"open", "wrapped", "ranged"} /\ field.values \in Nat \ {0}
  BY DEF Described
<1>2. field.kind # "open" => R <= field.values
  BY <1>1, ColumnsAre DEF TooFewValues
<1>3. field.kind # "open" => (o - 1) % field.values = o - 1
  <2> SUFFICES ASSUME field.kind # "open" PROVE (o - 1) % field.values = o - 1
    OBVIOUS
  <2>1. o - 1 \in Nat /\ o - 1 < field.values
    BY <1>1, <1>2
  <2> QED BY <1>1, <2>1, Divided
<1> QED BY <1>1, <1>3 DEF valueExpression

LEMMA ValueInRange ==
    ASSUME NEW entity, Described(entity), NEW R \in Nat, ~TooFewValues(entity, R),
           NEW f \in seededFields(entity), NEW index \in Nat, NEW o \in 1 .. R,
           entity.fields[f].kind = "ranged"
    PROVE  valueExpression(entity.fields[f], UniqueField(entity, f), index, o) < entity.fields[f].values
<1> DEFINE field == entity.fields[f]
<1>1. f \in DOMAIN entity.fields /\ field.values \in Nat \ {0}
  BY ColumnsAre DEF Described
<1>2. CASE UniqueField(entity, f)
  <2>1. R <= field.values
    BY <1>1, <1>2 DEF TooFewValues
  <2>2. valueExpression(field, TRUE, index, o) = o - 1
    <3>1. f \in DOMAIN entity.fields BY <1>1
    <3> HIDE DEF field
    <3>2. valueExpression(entity.fields[f], TRUE, index, o) = o - 1 BY <1>2, <3>1, UniqueValue, ZenonT(40)
    <3> QED BY <3>2 DEF field
  <2>3. UniqueField(entity, f) = TRUE
    BY <1>2 DEF UniqueField
  <2>4. o - 1 < field.values
    BY <1>1, <2>1
  <2> QED BY <2>2, <2>3, <2>4
<1>3. CASE ~UniqueField(entity, f)
  <2>1. valueExpression(field, UniqueField(entity, f), index, o) = index % field.values
    BY <1>3 DEF valueExpression
  <2>2. index % field.values \in 0 .. field.values - 1
    BY <1>1, Divided
  <2> QED BY <1>1, <2>1, <2>2
<1> QED BY <1>2, <1>3

(* An entity that stays in the plan, and the rows of what it refers to.    *)
Fits(e) ==
    /\ e \in DOMAIN seeded.entities /\ plan.seedable \subseteq DOMAIN seeded.entities
    /\ ~unseedableReason(e, plan.seedable) /\ ~NeedsMissing(e, plan.seedable)

CountOf(target) ==
    CASE target = Accounts -> seededUserCount
      [] target = Tenants  -> seeded.organizations
      [] OTHER             -> desiredEntityRows(seeded.entities[target])

Turn(o) == (o - 1) \div seeded.rows
Index(o) == (o - 1) % seeded.rows

Foreign(e, k, o) == foreignKeyExpression(seeded.entities[e], k, Turn(o) + 1, Index(o), o)

Stride(e, k) == IF seeded.entities[e].keys[k].target = Accounts /\ Scoped(seeded.entities[e]) /\ seeded.rows = 1
                THEN 2 ELSE 1

Points(e, k, o) ==
    LET target == seeded.entities[e].keys[k].target
    IN  \E p \in 1 .. CountOf(target) :
          /\ Foreign(e, k, o) = <<target, p>>
          /\ UniqueKey(seeded.entities[e], k) => p = Stride(e, k) * (o - 1) + 1

LEMMA SpecialsDiffer ==
    /\ Accounts # Tenants /\ Accounts # Memberships /\ Accounts # Bookings
    /\ Tenants # Memberships /\ Tenants # Bookings /\ Memberships # Bookings
<1>1. ASSUME NEW S, NEW a, NEW b, NEW c, S = {a, b, c} PROVE Cardinality(S) # 4
  <2> DEFINE two == {a} \cup {b}
  <2>1. IsFiniteSet({a}) /\ Cardinality({a}) = 1
    BY FS_Singleton
  <2>2. IsFiniteSet(two) /\ Cardinality(two) \in {1, 2}
    BY <2>1, FS_AddElement
  <2> HIDE DEF two
  <2>3. Cardinality(two \cup {c}) \in {1, 2, 3}
    BY <2>2, FS_AddElement
  <2>4. S = two \cup {c}
    BY <1>1 DEF two
  <2> QED BY <2>3, <2>4
<1>3. Cardinality({Accounts, Tenants, Memberships, Bookings}) = 4
  BY SeedAssumption
<1>4. Accounts = Tenants => {Accounts, Tenants, Memberships, Bookings} = {Tenants, Memberships, Bookings}
  OBVIOUS
<1>5. Accounts = Memberships => {Accounts, Tenants, Memberships, Bookings} = {Tenants, Memberships, Bookings}
  OBVIOUS
<1>6. Accounts = Bookings => {Accounts, Tenants, Memberships, Bookings} = {Tenants, Memberships, Bookings}
  OBVIOUS
<1>7. Tenants = Memberships => {Accounts, Tenants, Memberships, Bookings} = {Accounts, Memberships, Bookings}
  OBVIOUS
<1>8. Tenants = Bookings => {Accounts, Tenants, Memberships, Bookings} = {Accounts, Memberships, Bookings}
  OBVIOUS
<1>9. Memberships = Bookings => {Accounts, Tenants, Memberships, Bookings} = {Accounts, Tenants, Bookings}
  OBVIOUS
<1> QED BY <1>1, <1>3, <1>4, <1>5, <1>6, <1>7, <1>8, <1>9

LEMMA TargetIs ==
    ASSUME IsShaped, NEW e, Fits(e), NEW k \in RequiredKeys(seeded.entities[e])
    PROVE  LET target == seeded.entities[e].keys[k].target
           IN  /\ target # e
               /\ \/ target = Accounts /\ seeded.auth
                  \/ target = Tenants /\ seeded.organizations > 0
                  \/ target \in plan.seedable /\ target \notin {Accounts, Tenants}
               /\ UniqueKey(seeded.entities[e], k) =>
                    desiredEntityRows(seeded.entities[e]) <= CountOf(target)
<1> DEFINE entity == seeded.entities[e]
           target == entity.keys[k].target
<1>1. target # e
  BY DEF Fits, unseedableReason
<1>2. target \in plan.seedable \cup External
  BY DEF Fits, NeedsMissing
<1>3. plan.seedable \cap {Accounts, Tenants} = {}
  BY DEF Fits, IsShaped, SeedWellFormed
<1>4. \/ target = Accounts /\ seeded.auth
      \/ target = Tenants /\ seeded.organizations > 0
      \/ target \in plan.seedable /\ target \notin {Accounts, Tenants}
  BY <1>2, <1>3 DEF External
<1>5. relationCapacity(target, plan.seedable) = CountOf(target)
  BY <1>4, SpecialsDiffer DEF relationCapacity, CountOf
<1>6. CountOf(target) \in Nat /\ desiredEntityRows(entity) \in Nat
  BY CountsAre DEF CountOf
<1>7. UniqueKey(entity, k) => ~(relationCapacity(target, plan.seedable) < desiredEntityRows(entity))
  BY DEF Fits, unseedableReason
<1> QED BY <1>1, <1>4, <1>5, <1>6, <1>7

LEMMA PlacedIs ==
    ASSUME IsShaped, NEW e, NEW o \in 1 .. desiredEntityRows(seeded.entities[e])
    PROVE  /\ Turn(o) \in Nat /\ Index(o) \in 0 .. seeded.rows - 1
           /\ o = seeded.rows * Turn(o) + Index(o) + 1
           /\ Scoped(seeded.entities[e]) => Turn(o) \in 0 .. seeded.organizations - 1
           /\ ~Scoped(seeded.entities[e]) => Turn(o) = 0
<1>1. seeded.rows \in Nat \ {0} /\ seeded.organizations \in Nat
  BY CountsAre
<1>2. CASE Scoped(seeded.entities[e])
  <2>1. o \in 1 .. seeded.rows * seeded.organizations
    BY <1>2, CountsAre
  <2>2. Turn(o) \in 0 .. seeded.organizations - 1 /\ Index(o) \in 0 .. seeded.rows - 1
        /\ o = seeded.rows * Turn(o) + Index(o) + 1
    BY <1>1, <2>1, Placed DEF Turn, Index
  <2>3. Turn(o) \in Nat
    BY <1>1, <2>2
  <2> QED BY <1>2, <2>2, <2>3
<1>3. CASE ~Scoped(seeded.entities[e])
  <2>1. o \in 1 .. seeded.rows * 1
    BY <1>1, <1>3, CountsAre
  <2>2. Turn(o) \in 0 .. 1 - 1 /\ Index(o) \in 0 .. seeded.rows - 1 /\ o = seeded.rows * Turn(o) + Index(o) + 1
    BY <1>1, <2>1, Placed DEF Turn, Index
  <2> QED BY <1>3, <2>2
<1> QED BY <1>2, <1>3

(* A count that turns around n: where it comes to.                         *)
LEMMA TurnsAround ==
    ASSUME NEW n \in Nat \ {0}, NEW x \in Nat
    PROVE  (x % n) + 1 \in 1 .. n /\ (x < n => (x % n) + 1 = x + 1)
<1> DEFINE r == x % n
<1>1. r \in 0 .. n - 1 /\ (x < n => r = x)
  BY Divided
<1>2. r + 1 \in 1 .. n /\ (x < n => r + 1 = x + 1)
  <2> HIDE DEF r
  <2> QED BY <1>1
<1> QED BY <1>2

LEMMA PointsToAccounts ==
    ASSUME IsShaped, NEW e, Fits(e), NEW k \in RequiredKeys(seeded.entities[e]),
           seeded.entities[e].keys[k].target = Accounts,
           NEW o \in 1 .. desiredEntityRows(seeded.entities[e])
    PROVE  Points(e, k, o)
<1> DEFINE entity == seeded.entities[e]
           U == seededUserCount
           q == Turn(o)
           i == Index(o)
           R == desiredEntityRows(entity)
<1>1. /\ q \in Nat /\ i \in 0 .. seeded.rows - 1 /\ o = seeded.rows * q + i + 1
      /\ Scoped(entity) => q \in 0 .. seeded.organizations - 1
      /\ ~Scoped(entity) => q = 0
  BY PlacedIs
<1>2. /\ seeded.rows \in Nat \ {0} /\ U \in Nat \ {0} /\ seeded.organizations \in Nat
      /\ seeded.organizations > 0 => U = 2 * seeded.organizations
      /\ Scoped(entity) => R = seeded.rows * seeded.organizations
      /\ R \in Nat
  BY CountsAre
<1>3. CountOf(Accounts) = U
  BY SpecialsDiffer DEF CountOf
<1>4. UniqueKey(entity, k) => R <= U
  BY <1>3, TargetIs
<1>5. CASE Scoped(entity)
  <2> DEFINE p == 2 * q + (i % 2) + 1
  <2>1. Foreign(e, k, o) = <<Accounts, 2 * ((q + 1) - 1) + (i % 2) + 1>>
    BY <1>5, SpecialsDiffer DEF Foreign, foreignKeyExpression
  <2>2. i % 2 \in 0 .. 1
    <3>1. i \in Nat /\ 2 \in Nat \ {0}
      BY <1>1
    <3> HIDE DEF i
    <3>2. i % 2 \in 0 .. 2 - 1
      BY <3>1, Divided
    <3> QED BY <3>2
  <2>3. (q + 1) - 1 = q /\ q \in 0 .. seeded.organizations - 1 /\ U = 2 * seeded.organizations
    BY <1>1, <1>2, <1>5
  <2>4. p \in 1 .. U /\ Foreign(e, k, o) = <<Accounts, p>>
    BY <1>2, <2>1, <2>2, <2>3
  <2>5. ASSUME UniqueKey(entity, k) PROVE p = Stride(e, k) * (o - 1) + 1
    <3>1. seeded.rows * seeded.organizations <= 2 * seeded.organizations /\ seeded.organizations > 0
      BY <1>2, <1>4, <1>5, <2>3, <2>5
    <3>2. seeded.rows \in {1, 2}
      <4> SUFFICES ASSUME seeded.rows >= 3 PROVE FALSE
        BY <1>2
      <4>1. seeded.rows * seeded.organizations >= 3 * seeded.organizations
        BY <1>2
      <4> QED BY <1>2, <3>1, <4>1
    <3>3. CASE seeded.rows = 1
      <4>1. i = 0 /\ o = q + 1 /\ Stride(e, k) = 2
        BY <1>1, <1>5, <3>3 DEF Stride
      <4> QED BY <2>3, <4>1
    <3>4. CASE seeded.rows = 2
      <4>1. i \in {0, 1} /\ o = 2 * q + i + 1 /\ Stride(e, k) = 1
        BY <1>1, <3>4 DEF Stride
      <4> QED BY <2>3, <4>1
    <3> QED BY <3>2, <3>3, <3>4
  <2> HIDE DEF p
  <2> QED BY <1>3, <2>4, <2>5 DEF Points
<1>6. CASE ~Scoped(entity)
  <2> DEFINE turn == IF UniqueKey(entity, k) THEN o - 1 ELSE i
             p == (turn % U) + 1
  <2>1. Foreign(e, k, o) = <<Accounts, p>>
    BY <1>6, SpecialsDiffer DEF Foreign, foreignKeyExpression
  <2>2. turn \in Nat /\ o - 1 \in Nat
    BY <1>1
  <2>3. p \in 1 .. U
    <3> HIDE DEF turn
    <3> QED BY <1>2, <2>2, TurnsAround
  <2>4. ASSUME UniqueKey(entity, k) PROVE p = o
    <3>1. o - 1 < U /\ turn = o - 1
      BY <1>2, <1>4, <2>4
    <3>2. ((o - 1) % U) + 1 = (o - 1) + 1
      BY <1>2, <2>2, <3>1, TurnsAround
    <3> QED BY <3>1, <3>2
  <2>5. Stride(e, k) = 1
    BY <1>6 DEF Stride
  <2>6. UniqueKey(entity, k) => p = Stride(e, k) * (o - 1) + 1
    BY <2>4, <2>5
  <2> HIDE DEF p
  <2> QED BY <1>3, <2>1, <2>3, <2>6 DEF Points
<1> QED BY <1>5, <1>6

LEMMA PointsToTenants ==
    ASSUME IsShaped, NEW e, Fits(e), NEW k \in RequiredKeys(seeded.entities[e]),
           seeded.entities[e].keys[k].target = Tenants,
           NEW o \in 1 .. desiredEntityRows(seeded.entities[e])
    PROVE  Points(e, k, o)
<1> DEFINE entity == seeded.entities[e]
           U == seeded.organizations
           q == Turn(o)
           i == Index(o)
           R == desiredEntityRows(entity)
<1>1. /\ q \in Nat /\ i \in 0 .. seeded.rows - 1 /\ o = seeded.rows * q + i + 1
      /\ Scoped(entity) => q \in 0 .. U - 1
  BY PlacedIs
<1>2. /\ seeded.rows \in Nat \ {0} /\ U \in Nat \ {0}
      /\ Scoped(entity) => R = seeded.rows * U
      /\ R \in Nat
  BY CountsAre, TargetIs, SpecialsDiffer
<1>3. CountOf(Tenants) = U
  BY SpecialsDiffer DEF CountOf
<1>4. UniqueKey(entity, k) => R <= U
  BY <1>3, TargetIs
<1>5. Stride(e, k) = 1
  BY SpecialsDiffer DEF Stride
<1>6. CASE Scoped(entity)
  <2>1. Foreign(e, k, o) = <<Tenants, q + 1>>
    BY <1>6, SpecialsDiffer DEF Foreign, foreignKeyExpression
  <2>2. q + 1 \in 1 .. U
    BY <1>1, <1>2, <1>6
  <2>3. ASSUME UniqueKey(entity, k) PROVE q + 1 = 1 * (o - 1) + 1
    <3>1. seeded.rows * U <= U
      BY <1>2, <1>4, <1>6, <2>3
    <3>2. seeded.rows = 1
      <4> SUFFICES ASSUME seeded.rows >= 2 PROVE FALSE
        BY <1>2
      <4>1. seeded.rows * U >= 2 * U
        BY <1>2
      <4> QED BY <1>2, <3>1, <4>1
    <3>3. i = 0 /\ o = q + 1
      BY <1>1, <3>2
    <3> QED BY <1>1, <3>3
  <2> QED BY <1>3, <1>5, <2>1, <2>2, <2>3 DEF Points
<1>7. CASE ~Scoped(entity)
  <2> DEFINE turn == IF UniqueKey(entity, k) THEN o - 1 ELSE i
             p == (turn % U) + 1
  <2>1. Foreign(e, k, o) = <<Tenants, p>>
    BY <1>7, SpecialsDiffer DEF Foreign, foreignKeyExpression
  <2>2. turn \in Nat /\ o - 1 \in Nat
    BY <1>1
  <2>3. p \in 1 .. U
    <3> HIDE DEF turn
    <3> QED BY <1>2, <2>2, TurnsAround
  <2>4. ASSUME UniqueKey(entity, k) PROVE p = 1 * (o - 1) + 1
    <3>1. o - 1 < U /\ turn = o - 1
      BY <1>2, <1>4, <2>4
    <3>2. ((o - 1) % U) + 1 = (o - 1) + 1
      BY <1>2, <2>2, <3>1, TurnsAround
    <3> QED BY <3>1, <3>2
  <2> HIDE DEF p
  <2> QED BY <1>3, <1>5, <2>1, <2>3, <2>4 DEF Points
<1> QED BY <1>6, <1>7

LEMMA PointsToEntity ==
    ASSUME IsShaped, NEW e, Fits(e), NEW k \in RequiredKeys(seeded.entities[e]),
           seeded.entities[e].keys[k].target \notin {Accounts, Tenants},
           NEW o \in 1 .. desiredEntityRows(seeded.entities[e])
    PROVE  Points(e, k, o)
<1> DEFINE entity == seeded.entities[e]
           target == entity.keys[k].target
           parent == seeded.entities[target]
           U == desiredEntityRows(parent)
           q == Turn(o)
           i == Index(o)
           R == desiredEntityRows(entity)
<1>1. /\ q \in Nat /\ i \in 0 .. seeded.rows - 1 /\ o = seeded.rows * q + i + 1
  BY PlacedIs
<1>2. /\ seeded.rows \in Nat \ {0} /\ U \in Nat \ {0} /\ R \in Nat
      /\ Scoped(entity) => R = seeded.rows * seeded.organizations
      /\ Scoped(parent) => U = seeded.rows * seeded.organizations
  BY CountsAre
<1>3. CountOf(target) = U
  BY DEF CountOf
<1>4. UniqueKey(entity, k) => R <= U
  BY <1>3, TargetIs
<1>5. Stride(e, k) = 1
  BY DEF Stride
<1>6. CASE Scoped(entity) /\ Scoped(parent)
  <2> DEFINE p == seeded.rows * ((q + 1) - 1) + (i % seeded.rows) + 1
  <2>1. Foreign(e, k, o) = <<target, p>>
    BY <1>6 DEF Foreign, foreignKeyExpression
  <2>2. i % seeded.rows = i /\ (q + 1) - 1 = q
    <3>1. i \in Nat /\ i < seeded.rows
      BY <1>1, <1>2
    <3> HIDE DEF i
    <3>2. i % seeded.rows = i
      BY <1>2, <3>1, Divided
    <3> QED BY <1>1, <3>2
  <2>3. p = o
    BY <1>1, <2>2
  <2>4. R = U
    BY <1>2, <1>6
  <2>5. o \in 1 .. U /\ o = 1 * (o - 1) + 1
    BY <2>4
  <2> HIDE DEF p
  <2> QED BY <1>3, <1>5, <2>1, <2>3, <2>5 DEF Points
<1>7. CASE ~(Scoped(entity) /\ Scoped(parent))
  <2> DEFINE turn == IF UniqueKey(entity, k) THEN o - 1 ELSE i
             p == (turn % U) + 1
  <2>1. Foreign(e, k, o) = <<target, p>>
    BY <1>7 DEF Foreign, foreignKeyExpression
  <2>2. turn \in Nat /\ o - 1 \in Nat
    BY <1>1
  <2>3. p \in 1 .. U
    <3> HIDE DEF turn, U
    <3> QED BY <1>2, <2>2, TurnsAround
  <2>4. ASSUME UniqueKey(entity, k) PROVE p = 1 * (o - 1) + 1
    <3>1. o - 1 < U /\ turn = o - 1
      BY <1>2, <1>4, <2>4
    <3>2. ((o - 1) % U) + 1 = (o - 1) + 1
      <4> HIDE DEF U
      <4> QED BY <1>2, <2>2, <3>1, TurnsAround
    <3> QED BY <3>1, <3>2
  <2> HIDE DEF p, U
  <2> QED BY <1>3, <1>5, <2>1, <2>3, <2>4 DEF Points
<1> QED BY <1>6, <1>7

LEMMA EachPoints ==
    ASSUME IsShaped, NEW e, Fits(e), NEW k \in RequiredKeys(seeded.entities[e]),
           NEW o \in 1 .. desiredEntityRows(seeded.entities[e])
    PROVE  Points(e, k, o)
BY PointsToAccounts, PointsToTenants, PointsToEntity

-----------------------------------------------------------------------------
(* The rows of a block: the row with a key is one, the database takes it   *)
(* when the rows it refers to are there.                                   *)
AccountsFit == ~authSeedUnsupportedReason

OrderFits ==
    /\ plan.seedable \subseteq DOMAIN seeded.entities
    /\ plan.order \in Seq(plan.seedable)
    /\ Excluded = {}
    /\ \A i \in DOMAIN plan.order : Owners(plan.order[i]) \subseteq External \cup {plan.order[j] : j \in 1 .. i - 1}

Kinds == {Accounts, Tenants, Memberships, Bookings}

(* The entities there are rows of, and how many.                           *)
Planned(e, o) ==
    \/ e = Accounts /\ seeded.auth /\ o \in 1 .. seededUserCount
    \/ e = Tenants /\ o \in 1 .. seeded.organizations
    \/ e = Memberships /\ o \in 1 .. 2 * seeded.organizations
    \/ e = Bookings /\ seeded.reserved \in Members(plan.order) /\ ResourceIsListed /\ o \in 1 .. RowCount(Bookings)
    \/ e \in Members(plan.order) /\ o \in 1 .. desiredEntityRows(seeded.entities[e])

LEMMA OrderedFits ==
    ASSUME IsShaped, OrderFits, NEW e \in Members(plan.order)
    PROVE  Fits(e) /\ e \in DOMAIN seeded.entities /\ e \notin Kinds /\ Described(seeded.entities[e])
<1>1. e \in plan.seedable
  BY LenProperties, ElementOfSeq DEF OrderFits, Members
<1>2. Fits(e)
  BY <1>1 DEF OrderFits, Excluded, Fits
<1> QED BY <1>1, <1>2 DEF OrderFits, IsShaped, SeedWellFormed, Kinds

LEMMA EntityRowIs ==
    ASSUME IsShaped, OrderFits, NEW e \in Members(plan.order), NEW o,
           o \in 1 .. desiredEntityRows(seeded.entities[e])
    PROVE  LET row    == RowOf(e, o)
               entity == seeded.entities[e]
           IN  /\ row.entity = e /\ row.ordinal = o /\ DOMAIN row.values = Columns(entity)
               /\ \A f \in seededFields(entity) :
                    row.values[f] = valueExpression(entity.fields[f], UniqueField(entity, f), Index(o), o)
               /\ \A k \in RequiredKeys(entity) : row.values[k] = Foreign(e, k, o)
<1> DEFINE entity == seeded.entities[e]
           columns == SeededColumns(entity, Turn(o) + 1, Index(o), o)
<1>1. RowOf(e, o) = SeedRow(e, o, columns)
  BY OrderedFits DEF RowOf, entityRow, Turn, Index, Kinds
<1>2. columns = [name \in Columns(entity) |->
                   IF name \in DOMAIN entity.fields
                   THEN valueExpression(entity.fields[name], UniqueField(entity, name), Index(o), o)
                   ELSE foreignKeyExpression(entity, name, Turn(o) + 1, Index(o), o)]
  BY DEF SeededColumns, Columns
<1>3. Described(entity)
  BY OrderedFits
<1>4. \A f \in seededFields(entity) : f \in DOMAIN entity.fields /\ f \in Columns(entity)
  BY <1>3, ColumnsAre DEF Columns
<1>5. \A k \in RequiredKeys(entity) : k \notin DOMAIN entity.fields /\ k \in Columns(entity)
  BY <1>3, ColumnsAre DEF Columns
<1> QED BY <1>1, <1>2, <1>4, <1>5 DEF SeedRow, Foreign

LEMMA UserRowIs ==
    ASSUME IsShaped, AccountsFit, seeded.auth, NEW o \in 1 .. seededUserCount
    PROVE  LET row    == RowOf(Accounts, o)
               entity == seeded.accounts
           IN  /\ row.entity = Accounts /\ row.ordinal = o /\ DOMAIN row.values = Columns(entity)
               /\ \A f \in seededFields(entity) :
                    row.values[f] = valueExpression(entity.fields[f], UniqueField(entity, f), o - 1, o)
               /\ RequiredKeys(entity) = {} /\ Described(entity)
               /\ uniqueDrivers(entity).unsupported = {} /\ ~TooFewValues(entity, seededUserCount)
<1> DEFINE entity == seeded.accounts
           columns == SeededColumns(entity, 0, o - 1, o)
<1>1. RowOf(Accounts, o) = SeedRow(Accounts, o, columns)
  BY SpecialsDiffer DEF RowOf, userRow
<1>2. columns = [name \in Columns(entity) |->
                   IF name \in DOMAIN entity.fields
                   THEN valueExpression(entity.fields[name], UniqueField(entity, name), o - 1, o)
                   ELSE foreignKeyExpression(entity, name, 0, o - 1, o)]
  BY DEF SeededColumns, Columns
<1>3. Described(entity)
  BY DEF IsShaped, SeedWellFormed
<1>4. \A f \in seededFields(entity) : f \in DOMAIN entity.fields /\ f \in Columns(entity)
  BY <1>3, ColumnsAre DEF Columns
<1>5. RequiredKeys(entity) = {} /\ uniqueDrivers(entity).unsupported = {} /\ ~TooFewValues(entity, seededUserCount)
  BY DEF AccountsFit, authSeedUnsupportedReason
<1> QED BY <1>1, <1>2, <1>3, <1>4, <1>5 DEF SeedRow

(* No two rows have the same in a unique index.                            *)
ApartIn(e, o, p) ==
    \A index \in UniqueOver(e) : \E name \in Members(index) : ~Same(RowOf(e, o), RowOf(e, p), name)

LEMMA UniqueOverIs ==
    /\ UniqueOver(Memberships) = {<<"organizationId", "userId">>}
    /\ UniqueOver(Bookings) = {<<"resourceId", "startsAt">>}
    /\ UniqueOver(Tenants) = {}
    /\ \A e : e \notin {Memberships, Bookings, Tenants} => UniqueOver(e) = UniqueIndexes(EntityOf(e))
BY SpecialsDiffer DEF UniqueOver, UniqueIndexes

LEMMA Strides ==
    ASSUME NEW s \in {1, 2}, NEW o \in Nat, NEW p \in Nat, s * (o - 1) + 1 = s * (p - 1) + 1
    PROVE  o = p
<1>1. CASE s = 1
  BY <1>1
<1>2. CASE s = 2
  BY <1>2
<1> QED BY <1>1, <1>2

LEMMA EntityApart ==
    ASSUME IsShaped, OrderFits, NEW e \in Members(plan.order),
           NEW o \in 1 .. desiredEntityRows(seeded.entities[e]),
           NEW p \in 1 .. desiredEntityRows(seeded.entities[e]), o # p
    PROVE  ApartIn(e, o, p)
<1> DEFINE entity == seeded.entities[e]
           row == RowOf(e, o)
           other == RowOf(e, p)
           R == desiredEntityRows(entity)
<1>1. Fits(e) /\ e \notin Kinds /\ Described(entity) /\ EntityOf(e) = entity
  BY OrderedFits DEF EntityOf, Kinds
<1>2. uniqueDrivers(entity).unsupported = {} /\ ~TooFewValues(entity, R)
  BY <1>1 DEF Fits, unseedableReason
<1>3. R \in Nat
  BY CountsAre
<1>4. UniqueOver(e) = UniqueIndexes(entity)
  BY <1>1, UniqueOverIs DEF Kinds
<1>5. /\ row.entity = e /\ DOMAIN row.values = Columns(entity)
      /\ \A f \in seededFields(entity) :
           row.values[f] = valueExpression(entity.fields[f], UniqueField(entity, f), Index(o), o)
      /\ \A k \in RequiredKeys(entity) : row.values[k] = Foreign(e, k, o)
  BY EntityRowIs
<1>6. /\ \A f \in seededFields(entity) :
           other.values[f] = valueExpression(entity.fields[f], UniqueField(entity, f), Index(p), p)
      /\ \A k \in RequiredKeys(entity) : other.values[k] = Foreign(e, k, p)
  BY EntityRowIs
<1>7. ASSUME NEW name, Distinguishes(entity, name) PROVE ~Same(row, other, name)
  <2> HIDE DEF row, other, entity, R
  <2>1. CASE name = "id"
    <3>1. name \notin DOMAIN row.values
      BY <1>1, <1>5, <2>1, ColumnsAre
    <3> QED BY <2>1, <3>1 DEF Same
  <2>2. CASE name \notin Columns(entity) /\ LeftOut(entity, name)
    BY <1>1, <1>5, <2>2 DEF Same
  <2>3. CASE name \in DOMAIN entity.fields /\ UniqueField(entity, name)
    <3>1. name \in seededFields(entity) /\ name \in Columns(entity)
      BY <1>1, <2>3, ColumnsAre DEF Columns
    <3>2. UniqueField(entity, name) = TRUE
      BY <2>3 DEF UniqueField
    <3>3. valueExpression(entity.fields[name], TRUE, Index(o), o) = o - 1
      BY <1>1, <1>2, <1>3, <2>3, UniqueValue DEF R, entity
    <3>4. valueExpression(entity.fields[name], TRUE, Index(p), p) = p - 1
      BY <1>1, <1>2, <1>3, <2>3, UniqueValue DEF R, entity
    <3>5. row.values[name] = o - 1
      BY <1>5, <3>1, <3>2, <3>3
    <3>6. other.values[name] = p - 1
      BY <1>6, <3>1, <3>2, <3>4
    <3>7. row.values[name] # other.values[name]
      BY <3>5, <3>6
    <3> QED BY <1>5, <3>1, <3>7 DEF Same
  <2>4. CASE name \in RequiredKeys(entity) /\ UniqueKey(entity, name)
    <3> DEFINE s == Stride(e, name)
    <3>1. Points(e, name, o) /\ Points(e, name, p)
      BY <1>1, <2>4, EachPoints DEF entity
    <3>2. PICK t : Foreign(e, name, o) = <<t, s * (o - 1) + 1>> /\ t = entity.keys[name].target
      BY <2>4, <3>1 DEF Points, entity
    <3>3. Foreign(e, name, p) = <<t, s * (p - 1) + 1>>
      BY <2>4, <3>1, <3>2 DEF Points, entity
    <3>4. s \in {1, 2}
      BY DEF Stride
    <3>5. s * (o - 1) + 1 # s * (p - 1) + 1
      <4> HIDE DEF s
      <4>1. o \in Nat /\ p \in Nat
        BY <1>3 DEF R, entity
      <4> QED BY <3>4, <4>1, Strides
    <3>6. Foreign(e, name, o) # Foreign(e, name, p)
      <4> HIDE DEF s
      <4> QED BY <3>2, <3>3, <3>5
    <3>7. row.values[name] # other.values[name]
      BY <1>5, <1>6, <2>4, <3>6
    <3>8. name \in Columns(entity)
      BY <2>4 DEF Columns
    <3> QED BY <1>5, <3>7, <3>8 DEF Same
  <2> QED BY <1>7, <2>1, <2>2, <2>3, <2>4 DEF Distinguishes
<1>8. \A index \in UniqueIndexes(entity) : \E name \in Members(index) : Distinguishes(entity, name)
  BY <1>1, <1>2, EveryIndexDistinguishes
<1> QED BY <1>4, <1>7, <1>8 DEF ApartIn

LEMMA UserApart ==
    ASSUME IsShaped, AccountsFit, seeded.auth,
           NEW o \in 1 .. seededUserCount, NEW p \in 1 .. seededUserCount, o # p
    PROVE  ApartIn(Accounts, o, p)
<1> DEFINE entity == seeded.accounts
           row == RowOf(Accounts, o)
           other == RowOf(Accounts, p)
           R == seededUserCount
<1>1. EntityOf(Accounts) = entity
  BY DEF EntityOf
<1>2. R \in Nat
  BY CountsAre
<1>3. UniqueOver(Accounts) = UniqueIndexes(entity)
  BY <1>1, UniqueOverIs, SpecialsDiffer
<1>4. /\ row.entity = Accounts /\ DOMAIN row.values = Columns(entity)
      /\ \A f \in seededFields(entity) :
           row.values[f] = valueExpression(entity.fields[f], UniqueField(entity, f), o - 1, o)
      /\ RequiredKeys(entity) = {} /\ Described(entity)
      /\ uniqueDrivers(entity).unsupported = {} /\ ~TooFewValues(entity, R)
  BY UserRowIs
<1>5. \A f \in seededFields(entity) :
         other.values[f] = valueExpression(entity.fields[f], UniqueField(entity, f), p - 1, p)
  BY UserRowIs
<1>8. ASSUME NEW f \in DOMAIN entity.fields, UniqueField(entity, f), NEW x \in 1 .. R
      PROVE  valueExpression(entity.fields[f], TRUE, x - 1, x) = x - 1
  <2>1. Described(entity) /\ ~TooFewValues(entity, R)
    BY <1>4
  <2> HIDE DEF entity, R
  <2> QED BY <1>2, <1>8, <2>1, UniqueValue
<1>6. ASSUME NEW name, Distinguishes(entity, name) PROVE ~Same(row, other, name)
  <2> HIDE DEF row, other, entity, R
  <2>1. CASE name = "id"
    <3>1. name \notin DOMAIN row.values
      BY <1>4, <2>1, ColumnsAre
    <3> QED BY <2>1, <3>1 DEF Same
  <2>2. CASE name \notin Columns(entity) /\ LeftOut(entity, name)
    BY <1>1, <1>4, <2>2 DEF Same
  <2>3. CASE name \in DOMAIN entity.fields /\ UniqueField(entity, name)
    <3>1. name \in seededFields(entity) /\ name \in Columns(entity)
      BY <1>4, <2>3, ColumnsAre DEF Columns
    <3>2. UniqueField(entity, name) = TRUE
      BY <2>3 DEF UniqueField
    <3>3. valueExpression(entity.fields[name], TRUE, o - 1, o) = o - 1
      BY <1>8, <2>3 DEF R
    <3>4. valueExpression(entity.fields[name], TRUE, p - 1, p) = p - 1
      BY <1>8, <2>3 DEF R
    <3>5. row.values[name] = o - 1
      BY <1>4, <3>1, <3>2, <3>3
    <3>6. other.values[name] = p - 1
      BY <1>5, <3>1, <3>2, <3>4
    <3>7. row.values[name] # other.values[name]
      BY <3>5, <3>6
    <3> QED BY <1>4, <3>1, <3>7 DEF Same
  <2> QED BY <1>4, <1>6, <2>1, <2>2, <2>3 DEF Distinguishes
<1>7. \A index \in UniqueIndexes(entity) : \E name \in Members(index) : Distinguishes(entity, name)
  BY <1>4, EveryIndexDistinguishes
<1> QED BY <1>3, <1>6, <1>7 DEF ApartIn

LEMMA MembershipApart ==
    ASSUME NEW o \in Nat, NEW p \in Nat, o # p
    PROVE  ApartIn(Memberships, o, p)
<1>1. RowOf(Memberships, o).values = membershipRow(o) /\ RowOf(Memberships, p).values = membershipRow(p)
  BY SpecialsDiffer DEF RowOf, SeedRow
<1>2. ~Same(RowOf(Memberships, o), RowOf(Memberships, p), "userId")
  BY <1>1 DEF Same, membershipRow
<1>3. "userId" \in Members(<<"organizationId", "userId">>)
  <2>1. 2 \in DOMAIN <<"organizationId", "userId">> /\ <<"organizationId", "userId">>[2] = "userId"
    OBVIOUS
  <2> QED BY <2>1 DEF Members
<1> QED BY <1>2, <1>3, UniqueOverIs DEF ApartIn

LEMMA Cancelled == ASSUME NEW n \in Nat \ {0}, NEW a \in Nat, NEW b \in Nat, n * a = n * b PROVE a = b
<1>1. ASSUME NEW x \in Nat, NEW y \in Nat, x < y PROVE n * x < n * y
  <2>1. n * (y - x) \in Nat \ {0}
    <3>1. y - x \in Nat \ {0}
      BY <1>1
    <3> QED BY <3>1, ManyIs
  <2>2. n * y = n * x + n * (y - x)
    OBVIOUS
  <2>3. n * x \in Nat
    OBVIOUS
  <2> QED BY <2>1, <2>2, <2>3
<1>2. n * a \in Nat /\ n * b \in Nat
  OBVIOUS
<1> QED BY <1>1, <1>2

LEMMA BookingApart ==
    ASSUME IsShaped, NEW o \in 1 .. RowCount(Bookings), NEW p \in 1 .. RowCount(Bookings), o # p
    PROVE  ApartIn(Bookings, o, p)
<1> DEFINE pair == <<"resourceId", "startsAt">>
           row == RowOf(Bookings, o)
           other == RowOf(Bookings, p)
           a == (o - 1) \div 2
           b == (p - 1) \div 2
<1>1. row.values = reservationRow(o) /\ other.values = reservationRow(p)
  BY SpecialsDiffer DEF RowOf, SeedRow
<1>2. "resourceId" \in Members(pair) /\ "startsAt" \in Members(pair)
  <2>1. 1 \in DOMAIN pair /\ pair[1] = "resourceId" /\ 2 \in DOMAIN pair /\ pair[2] = "startsAt"
    OBVIOUS
  <2> QED BY <2>1 DEF Members
<1>3. seeded.organizations \in Nat /\ seeded.rows \in Nat \ {0}
  BY CountsAre
<1>4. RowCount(Bookings) = 2 * (IF seeded.organizations = 0 THEN 1 ELSE seeded.organizations)
  BY SpecialsDiffer DEF RowCount
<1>5. o \in Nat \ {0} /\ p \in Nat \ {0}
  BY <1>3, <1>4
<1>6. SUFFICES ASSUME Same(row, other, "resourceId"), Same(row, other, "startsAt") PROVE FALSE
  BY <1>2, UniqueOverIs DEF ApartIn
<1>7. o % 2 = p % 2
  BY <1>1, <1>6 DEF Same, reservationRow
<1>8. a = b
  <2>1. CASE seeded.organizations = 0
    <3>1. o \in {1, 2} /\ p \in {1, 2}
      BY <1>4, <2>1
    <3> QED BY <3>1
  <2>2. CASE seeded.organizations # 0
    <3>1. seeded.rows * ((a + 1) - 1) + 1 = seeded.rows * ((b + 1) - 1) + 1
      BY <1>1, <1>6, <2>2 DEF Same, reservationRow
    <3>2. a \in Nat /\ b \in Nat
      BY <1>5
    <3> HIDE DEF a, b
    <3>3. seeded.rows * a = seeded.rows * b
      BY <1>3, <3>1, <3>2
    <3> QED BY <1>3, <3>2, <3>3, Cancelled
  <2> QED BY <2>1, <2>2
<1> QED BY <1>5, <1>7, <1>8

LEMMA Apart ==
    ASSUME IsShaped, OrderFits, AccountsFit, NEW e, NEW o, NEW p, Planned(e, o), Planned(e, p), o # p
    PROVE  ApartIn(e, o, p)
<1>1. CASE e = Accounts
  BY <1>1, UserApart, OrderedFits, SpecialsDiffer DEF Planned, Kinds
<1>2. CASE e = Tenants
  BY <1>2, UniqueOverIs DEF ApartIn
<1>3. CASE e = Memberships
  <2>1. o \in 1 .. 2 * seeded.organizations /\ p \in 1 .. 2 * seeded.organizations
    BY <1>3, OrderedFits, SpecialsDiffer DEF Planned, Kinds
  <2>2. o \in Nat /\ p \in Nat
    BY <2>1, CountsAre
  <2> QED BY <1>3, <2>2, MembershipApart
<1>4. CASE e = Bookings
  BY <1>4, BookingApart, OrderedFits, SpecialsDiffer DEF Planned, Kinds
<1>5. CASE e \notin Kinds
  BY <1>5, EntityApart DEF Planned, Kinds
<1> QED BY <1>1, <1>2, <1>3, <1>4, <1>5 DEF Kinds

LEMMA StaysInRange ==
    ASSUME IsShaped, OrderFits, AccountsFit, NEW e, NEW o, Planned(e, o)
    PROVE  InRange(RowOf(e, o))
<1>1. RowOf(e, o).entity = e
  BY DEF RowOf, SeedRow
<1>2. CASE e \in {Tenants, Memberships, Bookings}
  <2>1. e \notin DOMAIN seeded.entities \cup {Accounts}
    BY <1>2, SpecialsDiffer DEF IsShaped, SeedWellFormed
  <2> QED BY <1>1, <2>1 DEF InRange
<1>3. CASE e = Accounts
  <2> DEFINE entity == seeded.accounts
             row == RowOf(Accounts, o)
  <2>1. seeded.auth /\ o \in 1 .. seededUserCount /\ seededUserCount \in Nat
    BY <1>3, OrderedFits, SpecialsDiffer, CountsAre DEF Planned, Kinds
  <2>2. /\ \A f \in seededFields(entity) :
             row.values[f] = valueExpression(entity.fields[f], UniqueField(entity, f), o - 1, o)
        /\ Described(entity) /\ ~TooFewValues(entity, seededUserCount)
    BY <2>1, UserRowIs
  <2>3. ASSUME NEW f \in seededFields(entity), entity.fields[f].kind = "ranged"
        PROVE  valueExpression(entity.fields[f], UniqueField(entity, f), o - 1, o) < entity.fields[f].values
    <3>1. o - 1 \in Nat
      BY <2>1
    <3>2. Described(entity) /\ ~TooFewValues(entity, seededUserCount)
      BY <2>2
    <3> HIDE DEF entity
    <3> QED BY <2>1, <2>3, <3>1, <3>2, ValueInRange
  <2>4. EntityOf(Accounts) = entity
    BY DEF EntityOf
  <2>5. \A f \in seededFields(entity) : entity.fields[f].kind = "ranged" => row.values[f] < entity.fields[f].values
    <3> SUFFICES ASSUME NEW f \in seededFields(entity), entity.fields[f].kind = "ranged"
                 PROVE  row.values[f] < entity.fields[f].values
      OBVIOUS
    <3>1. row.values[f] = valueExpression(entity.fields[f], UniqueField(entity, f), o - 1, o)
      BY <2>2
    <3>2. valueExpression(entity.fields[f], UniqueField(entity, f), o - 1, o) < entity.fields[f].values
      BY <2>3
    <3> QED BY <3>1, <3>2
  <2> QED BY <1>1, <1>3, <2>4, <2>5 DEF InRange
<1>4. CASE e \notin Kinds
  <2> DEFINE entity == seeded.entities[e]
             row == RowOf(e, o)
             R == desiredEntityRows(entity)
  <2>1. e \in Members(plan.order) /\ o \in 1 .. R
    BY <1>4 DEF Planned, Kinds
  <2>2. \A f \in seededFields(entity) :
             row.values[f] = valueExpression(entity.fields[f], UniqueField(entity, f), Index(o), o)
    BY <2>1, EntityRowIs
  <2>3. Described(entity) /\ ~TooFewValues(entity, R) /\ R \in Nat
    BY <2>1, OrderedFits, CountsAre DEF Fits, unseedableReason
  <2>4. Index(o) \in Nat
    <3>1. Index(o) \in 0 .. seeded.rows - 1
      BY <2>1, PlacedIs
    <3>2. seeded.rows \in Nat \ {0}
      BY CountsAre
    <3> QED BY <3>1, <3>2
  <2>5. ASSUME NEW f \in seededFields(entity), entity.fields[f].kind = "ranged"
        PROVE  valueExpression(entity.fields[f], UniqueField(entity, f), Index(o), o) < entity.fields[f].values
    <3> HIDE DEF entity, R
    <3> QED BY <2>1, <2>3, <2>4, <2>5, ValueInRange
  <2>6. EntityOf(e) = entity
    BY <1>4 DEF EntityOf, Kinds
  <2>7. \A f \in seededFields(entity) : entity.fields[f].kind = "ranged" => row.values[f] < entity.fields[f].values
    <3> SUFFICES ASSUME NEW f \in seededFields(entity), entity.fields[f].kind = "ranged"
                 PROVE  row.values[f] < entity.fields[f].values
      OBVIOUS
    <3>1. row.values[f] = valueExpression(entity.fields[f], UniqueField(entity, f), Index(o), o)
      BY <2>2
    <3>2. valueExpression(entity.fields[f], UniqueField(entity, f), Index(o), o) < entity.fields[f].values
      BY <2>5
    <3> QED BY <3>1, <3>2
  <2> QED BY <1>1, <2>6, <2>7 DEF InRange
<1> QED BY <1>2, <1>3, <1>4 DEF Kinds

(* What a row refers to is planned, in a block before its own; but a       *)
(* membership comes right after its organization.                          *)
LEMMA RefersToPlanned ==
    ASSUME IsShaped, OrderFits, AccountsFit, NEW e, NEW o, Planned(e, o),
           NEW id \in References(RowOf(e, o))
    PROVE  \E t, q : /\ id = <<t, q>> /\ Planned(t, q)
                     /\ \/ e = Memberships /\ (t = Accounts \/ (t = Tenants /\ q = ((o - 1) \div 2) + 1))
                        \/ e = Bookings /\ t \in Members(plan.order) \cup {Accounts}
                        \/ e \in Members(plan.order) /\ t \in Owners(e)
<1> DEFINE row == RowOf(e, o)
<1>1. row.entity = e
  BY DEF RowOf, SeedRow
<1>2. CASE e = Tenants
  <2>1. References(row) = {}
    BY <1>1, <1>2, SpecialsDiffer DEF References
  <2> QED BY <2>1
<1>3. CASE e = Accounts
  <2>1. seeded.auth /\ o \in 1 .. seededUserCount
    BY <1>3, OrderedFits, SpecialsDiffer DEF Planned, Kinds
  <2>2. References(row) = {row.values[k] : k \in RequiredKeys(seeded.accounts)}
    BY <1>1, <1>3, SpecialsDiffer DEF References, EntityOf
  <2>3. RequiredKeys(seeded.accounts) = {}
    BY <2>1, UserRowIs
  <2> QED BY <2>2, <2>3
<1>4. CASE e = Memberships
  <2> DEFINE q == ((o - 1) \div 2) + 1
  <2>1. o \in 1 .. 2 * seeded.organizations /\ seeded.organizations \in Nat
    BY <1>4, OrderedFits, SpecialsDiffer, CountsAre DEF Planned, Kinds
  <2>2. row.values = [organizationId |-> <<Tenants, q>>, userId |-> <<Accounts, o>>]
    BY <1>4, SpecialsDiffer DEF RowOf, SeedRow, membershipRow
  <2>3. References(row) = {row.values["organizationId"], row.values["userId"]}
    <3>1. References(row) = {row.values[k] : k \in {"organizationId", "userId"}}
      BY <1>1, <1>4, SpecialsDiffer DEF References
    <3> QED BY <3>1
  <2>4. id = <<Tenants, q>> \/ id = <<Accounts, o>>
    BY <2>2, <2>3
  <2>5. seeded.organizations > 0
    BY <2>1
  <2>6. Planned(Tenants, q)
    <3>1. (o - 1) \div 2 \in 0 .. seeded.organizations - 1
      <4>1. 2 \in Nat \ {0}
        OBVIOUS
      <4> QED BY <2>1, <4>1, Placed
    <3>2. q \in 1 .. seeded.organizations
      <4> HIDE DEF q
      <4>1. q - 1 \in 0 .. seeded.organizations - 1 /\ q \in Int
        BY <2>1, <3>1 DEF q
      <4> QED BY <2>1, <4>1
    <3> QED BY <3>2 DEF Planned
  <2>7. Planned(Accounts, o)
    BY <2>1, <2>5, CountsAre DEF Planned, IsShaped, SeedWellFormed
  <2> QED BY <1>4, <2>4, <2>6, <2>7
<1>5. CASE e = Bookings
  <2> DEFINE org == ((o - 1) \div 2) + 1
             n == IF seeded.organizations = 0 THEN 1 ELSE seeded.rows * (org - 1) + 1
             m == IF seeded.organizations = 0 THEN 1 ELSE 2 * org
  <2>1. /\ seeded.reserved \in Members(plan.order) /\ ResourceIsListed /\ o \in 1 .. RowCount(Bookings)
        /\ seeded.organizations \in Nat /\ seeded.rows \in Nat \ {0}
        /\ seededUserCount \in Nat \ {0}
        /\ seeded.organizations > 0 => seededUserCount = 2 * seeded.organizations
    BY <1>5, OrderedFits, SpecialsDiffer, CountsAre DEF Planned, Kinds
  <2>2. row.values = [resourceId |-> <<seeded.reserved, n>>, ownerId |-> <<Accounts, m>>, startsAt |-> o % 2]
    BY <1>5, SpecialsDiffer DEF RowOf, SeedRow, reservationRow
  <2>3. id = <<seeded.reserved, n>> \/ id = <<Accounts, m>>
    <3>1. References(row) = {row.values[k] : k \in {"resourceId", "ownerId"}}
      BY <1>1, <1>5, SpecialsDiffer DEF References
    <3>2. id = row.values["resourceId"] \/ id = row.values["ownerId"]
      BY <3>1
    <3> QED BY <2>2, <3>2
  <2>4. seeded.auth
    BY <2>1, OrderedFits DEF IsShaped, SeedWellFormed
  <2> DEFINE R == desiredEntityRows(seeded.entities[seeded.reserved])
  <2>5. n \in 1 .. R /\ m \in 1 .. seededUserCount
    <3>1. R \in Nat \ {0}
      BY CountsAre
    <3>2. CASE seeded.organizations = 0
      BY <2>1, <3>1, <3>2
    <3>3. CASE seeded.organizations # 0
      <4>1. R = seeded.rows * seeded.organizations
        BY <2>1, <3>3, CountsAre DEF ResourceIsListed
      <4>2. o \in 1 .. 2 * seeded.organizations
        BY <2>1, <3>3, SpecialsDiffer DEF RowCount
      <4>3. (o - 1) \div 2 \in 0 .. seeded.organizations - 1
        <5>1. 2 \in Nat \ {0}
          OBVIOUS
        <5> QED BY <2>1, <4>2, <5>1, Placed
      <4> DEFINE a == (o - 1) \div 2
      <4>4. org = a + 1 /\ org - 1 = a
        <5>1. a \in Int
          BY <2>1, <4>3
        <5> HIDE DEF a
        <5>2. org = a + 1
          BY DEF a
        <5> HIDE DEF org
        <5> QED BY <5>1, <5>2
      <4> HIDE DEF a, org
      <4>5. a \in Nat /\ a + 1 <= seeded.organizations
        BY <2>1, <4>3 DEF a
      <4>6. seeded.rows * (a + 1) <= seeded.rows * seeded.organizations
        BY <2>1, <4>5
      <4>7. seeded.rows * (a + 1) = seeded.rows * a + seeded.rows /\ seeded.rows * a \in Nat
        BY <2>1, <4>5
      <4>8. seeded.rows * a + 1 \in 1 .. R
        <5> HIDE DEF R
        <5> QED BY <2>1, <3>1, <4>1, <4>6, <4>7
      <4>9. 2 * (a + 1) \in 1 .. seededUserCount
        BY <2>1, <3>3, <4>5
      <4> QED BY <3>3, <4>4, <4>8, <4>9
    <3> QED BY <3>2, <3>3
  <2> HIDE DEF n, m
  <2>6. Planned(Accounts, m) /\ Planned(seeded.reserved, n)
    BY <2>1, <2>4, <2>5 DEF Planned
  <2> QED BY <1>5, <2>1, <2>3, <2>6
<1>6. CASE e \notin Kinds
  <2> DEFINE entity == seeded.entities[e]
             R == desiredEntityRows(entity)
  <2>1. e \in Members(plan.order) /\ o \in 1 .. R
    BY <1>6 DEF Planned, Kinds
  <2>2. References(row) = {row.values[k] : k \in RequiredKeys(entity)}
    BY <1>1, <1>6 DEF References, EntityOf, Kinds
  <2>3. PICK k \in RequiredKeys(entity) : id = row.values[k]
    BY <2>2
  <2>4. id = Foreign(e, k, o)
    BY <2>1, <2>3, EntityRowIs
  <2> DEFINE t == entity.keys[k].target
  <2>5. Fits(e)
    BY <2>1, OrderedFits
  <2>6. PICK q \in 1 .. CountOf(t) : Foreign(e, k, o) = <<t, q>>
    BY <2>1, <2>5, EachPoints DEF Points
  <2>7. \/ t = Accounts /\ seeded.auth
        \/ t = Tenants /\ seeded.organizations > 0
        \/ t \in plan.seedable /\ t \notin {Accounts, Tenants}
    BY <2>5, TargetIs
  <2>8. t \in Owners(e)
    BY DEF Owners
  <2>9. t \in External \cup Members(plan.order)
    BY <2>1, <2>8, LenProperties DEF OrderFits, Members
  <2>10. Planned(t, q)
    <3> HIDE DEF t
    <3>1. CASE t = Accounts
      BY <2>6, <2>7, <3>1, SpecialsDiffer, OrderedFits, CountsAre DEF Planned, CountOf, Kinds, OrderFits, IsShaped, SeedWellFormed
    <3>2. CASE t = Tenants
      BY <2>6, <3>2, SpecialsDiffer DEF Planned, CountOf
    <3>3. CASE t \notin {Accounts, Tenants}
      <4>1. t \in Members(plan.order)
        BY <2>9, <3>3 DEF External
      <4> QED BY <2>6, <3>3, <4>1 DEF Planned, CountOf
    <3> QED BY <3>1, <3>2, <3>3
  <2> QED BY <2>1, <2>4, <2>6, <2>8, <2>10
<1> QED BY <1>2, <1>3, <1>4, <1>5, <1>6 DEF Kinds

-----------------------------------------------------------------------------
(* The blocks, and what comes before each of them.                         *)
Lead == (IF seeded.auth THEN <<Accounts>> ELSE <<>>) \o (IF seeded.organizations > 0 THEN <<Tenants>> ELSE <<>>)
Last == IF seeded.reserved \in Members(plan.order) THEN <<Bookings>> ELSE <<>>
BlockSet == Kinds \cup plan.seedable

LEMMA LeadIs ==
    ASSUME IsShaped
    PROVE  /\ Lead \in Seq(BlockSet) /\ Len(Lead) \in 0 .. 2
           /\ \A p \in 1 .. Len(Lead) : \/ p = 1 /\ Lead[p] = Accounts /\ seeded.auth
                                        \/ p = 2 /\ Lead[p] = Tenants /\ seeded.organizations > 0
           /\ seeded.auth => Len(Lead) >= 1
           /\ seeded.organizations > 0 => Len(Lead) = 2
<1> DEFINE A == IF seeded.auth THEN <<Accounts>> ELSE <<>>
           B == IF seeded.organizations > 0 THEN <<Tenants>> ELSE <<>>
<1>1. seeded.auth \in BOOLEAN /\ (seeded.organizations > 0 => seeded.auth)
  BY DEF IsShaped, SeedWellFormed
<1>2. A \in Seq(BlockSet) /\ Len(A) = (IF seeded.auth THEN 1 ELSE 0) /\ (seeded.auth => A[1] = Accounts)
  <2>1. <<Accounts>> \in Seq(BlockSet) /\ Len(<<Accounts>>) = 1 /\ <<Accounts>>[1] = Accounts
    BY DEF BlockSet, Kinds
  <2> QED BY <2>1, EmptySeq
<1>3. B \in Seq(BlockSet) /\ Len(B) = (IF seeded.organizations > 0 THEN 1 ELSE 0)
      /\ (seeded.organizations > 0 => B[1] = Tenants)
  <2>1. <<Tenants>> \in Seq(BlockSet) /\ Len(<<Tenants>>) = 1 /\ <<Tenants>>[1] = Tenants
    BY DEF BlockSet, Kinds
  <2> QED BY <2>1, EmptySeq
<1>4. Lead = A \o B
  BY DEF Lead
<1> HIDE DEF A, B
<1>5. /\ A \o B \in Seq(BlockSet) /\ Len(A \o B) = Len(A) + Len(B)
      /\ \A i \in 1 .. Len(A) + Len(B) : (A \o B)[i] = IF i <= Len(A) THEN A[i] ELSE B[i - Len(A)]
  BY <1>2, <1>3, ConcatProperties
<1>6. CASE seeded.organizations > 0
  <2>1. Len(A) = 1 /\ Len(B) = 1 /\ seeded.auth
    BY <1>1, <1>2, <1>3, <1>6
  <2>2. Lead[1] = Accounts /\ Lead[2] = Tenants /\ Len(Lead) = 2
    BY <1>2, <1>3, <1>4, <1>5, <1>6, <2>1
  <2> QED BY <1>4, <1>5, <1>6, <2>1, <2>2
<1>7. CASE ~(seeded.organizations > 0) /\ seeded.auth
  <2>1. Len(A) = 1 /\ Len(B) = 0
    BY <1>2, <1>3, <1>7
  <2>2. Lead[1] = Accounts /\ Len(Lead) = 1
    BY <1>2, <1>4, <1>5, <1>7, <2>1
  <2> QED BY <1>4, <1>5, <1>7, <2>1, <2>2
<1>8. CASE ~(seeded.organizations > 0) /\ ~seeded.auth
  <2>1. Len(A) = 0 /\ Len(B) = 0
    BY <1>2, <1>3, <1>8
  <2> QED BY <1>4, <1>5, <1>8, <2>1
<1> QED BY <1>1, <1>6, <1>7, <1>8

LEMMA BlocksAre ==
    ASSUME IsShaped, OrderFits
    PROVE  LET l == Len(Lead)
               n == Len(plan.order)
           IN  /\ l \in Nat /\ n \in Nat /\ Blocks \in Seq(BlockSet)
               /\ Len(Blocks) = l + n + (IF seeded.reserved \in Members(plan.order) THEN 1 ELSE 0)
               /\ \A p \in 1 .. l : Blocks[p] = Lead[p]
               /\ \A p \in 1 .. n : Blocks[l + p] = plan.order[p]
               /\ seeded.reserved \in Members(plan.order) => Blocks[l + n + 1] = Bookings
<1> DEFINE l == Len(Lead)
           n == Len(plan.order)
           O == plan.order
<1>1. Lead \in Seq(BlockSet) /\ l \in Nat
  BY LeadIs
<1>2. O \in Seq(BlockSet) /\ n \in Nat
  <2>1. O \in Seq(plan.seedable) /\ plan.seedable \subseteq BlockSet
    BY DEF OrderFits, BlockSet
  <2> HIDE DEF O, BlockSet
  <2> QED BY <2>1, LenProperties DEF O
<1>3. Last \in Seq(BlockSet) /\ Len(Last) = (IF seeded.reserved \in Members(plan.order) THEN 1 ELSE 0)
      /\ (seeded.reserved \in Members(plan.order) => Last[1] = Bookings)
  <2>1. <<Bookings>> \in Seq(BlockSet) /\ Len(<<Bookings>>) = 1 /\ <<Bookings>>[1] = Bookings
    BY DEF BlockSet, Kinds
  <2> QED BY <2>1, EmptySeq DEF Last
<1>4. Blocks = (Lead \o O) \o Last
  BY DEF Blocks, Lead, Last
<1> DEFINE front == Lead \o O
<1> HIDE DEF O
<1>5. /\ front \in Seq(BlockSet) /\ Len(front) = l + n
      /\ \A i \in 1 .. l + n : front[i] = IF i <= l THEN Lead[i] ELSE O[i - l]
  BY <1>1, <1>2, ConcatProperties DEF O
<1> HIDE DEF front, l, n
<1>6. /\ front \o Last \in Seq(BlockSet) /\ Len(front \o Last) = Len(front) + Len(Last)
      /\ \A i \in 1 .. Len(front) + Len(Last) :
           (front \o Last)[i] = IF i <= Len(front) THEN front[i] ELSE Last[i - Len(front)]
  BY <1>3, <1>5, ConcatProperties
<1>7. Blocks = front \o Last
  BY <1>4 DEF front
<1>8. Len(Last) \in Nat
  BY <1>3
<1>9. \A p \in 1 .. l : Blocks[p] = Lead[p]
  BY <1>1, <1>2, <1>5, <1>6, <1>7, <1>8
<1>10. ASSUME NEW p \in 1 .. n PROVE Blocks[l + p] = O[p]
  <2>1. l + p \in 1 .. l + n /\ ~(l + p <= l) /\ (l + p) - l = p /\ l + p \in 1 .. Len(front) + Len(Last)
    BY <1>1, <1>2, <1>5, <1>8
  <2>2. Blocks[l + p] = front[l + p]
    BY <1>5, <1>6, <1>7, <2>1
  <2> QED BY <1>5, <2>1, <2>2
<1>11. seeded.reserved \in Members(plan.order) => Blocks[l + n + 1] = Bookings
  <2> SUFFICES ASSUME seeded.reserved \in Members(plan.order) PROVE Blocks[l + n + 1] = Bookings
    OBVIOUS
  <2>1. l + n + 1 \in 1 .. Len(front) + Len(Last) /\ ~(l + n + 1 <= Len(front)) /\ (l + n + 1) - Len(front) = 1
    BY <1>1, <1>2, <1>3, <1>5
  <2> QED BY <1>3, <1>6, <1>7, <2>1
<1>12. Len(Blocks) = l + n + (IF seeded.reserved \in Members(plan.order) THEN 1 ELSE 0)
  BY <1>3, <1>5, <1>6, <1>7
<1> QED BY <1>1, <1>2, <1>6, <1>7, <1>9, <1>10, <1>11, <1>12 DEF l, n, O

Before(p) == {Blocks[q] : q \in 1 .. p - 1}

(* Each of the blocks is one of these; what it needs comes before it.      *)
LEMMA BlocksOrdered ==
    ASSUME IsShaped, OrderFits, NEW p \in DOMAIN Blocks
    PROVE  \/ Blocks[p] = Accounts /\ seeded.auth
           \/ Blocks[p] = Tenants /\ seeded.organizations > 0 /\ Accounts \in Before(p)
           \/ Blocks[p] \in Members(plan.order) /\ Owners(Blocks[p]) \subseteq Before(p)
           \/ /\ Blocks[p] = Bookings /\ seeded.reserved \in Members(plan.order)
              /\ Members(plan.order) \cup {Accounts} \subseteq Before(p)
<1> DEFINE l == Len(Lead)
           n == Len(plan.order)
           O == plan.order
<1>1. /\ l \in Nat /\ n \in Nat /\ Blocks \in Seq(BlockSet)
      /\ Len(Blocks) = l + n + (IF seeded.reserved \in Members(plan.order) THEN 1 ELSE 0)
      /\ \A q \in 1 .. l : Blocks[q] = Lead[q]
      /\ \A q \in 1 .. n : Blocks[l + q] = O[q]
      /\ seeded.reserved \in Members(plan.order) => Blocks[l + n + 1] = Bookings
  BY BlocksAre
<1>2. DOMAIN Blocks = 1 .. Len(Blocks)
  BY <1>1, LenProperties
<1>3. /\ \A q \in 1 .. l : \/ q = 1 /\ Lead[q] = Accounts /\ seeded.auth
                           \/ q = 2 /\ Lead[q] = Tenants /\ seeded.organizations > 0
      /\ seeded.auth => l >= 1
      /\ seeded.organizations > 0 => l = 2
  BY LeadIs
<1>4. Members(O) = {O[q] : q \in 1 .. n} /\ DOMAIN O = 1 .. n
  BY LenProperties DEF Members, OrderFits
<1>5. \A q \in 1 .. n : Owners(O[q]) \subseteq External \cup {O[j] : j \in 1 .. q - 1}
  BY <1>4 DEF OrderFits
<1> HIDE DEF l, n, O
<1>6. ASSUME NEW i \in Nat, l < i PROVE External \subseteq Before(i)
  <2>1. seeded.auth => 1 \in 1 .. i - 1 /\ Blocks[1] = Accounts
    BY <1>1, <1>3, <1>6
  <2>2. seeded.organizations > 0 => 2 \in 1 .. i - 1 /\ Blocks[2] = Tenants
    BY <1>1, <1>3, <1>6
  <2> QED BY <2>1, <2>2 DEF External, Before
<1>7. CASE p \in 1 .. l
  <2>1. Blocks[p] = Lead[p]
    BY <1>1, <1>7
  <2>2. CASE p = 1
    BY <1>3, <1>7, <2>1, <2>2
  <2>3. CASE p = 2
    <3>1. Blocks[1] = Accounts /\ 1 \in 1 .. p - 1
      BY <1>1, <1>3, <1>7, <2>3
    <3> QED BY <1>3, <1>7, <2>1, <2>3, <3>1 DEF Before
  <2> QED BY <1>3, <1>7, <2>2, <2>3
<1>8. CASE p \in l + 1 .. l + n
  <2> DEFINE i == p - l
  <2>1. i \in 1 .. n /\ p = l + i /\ p \in Nat /\ l < p
    BY <1>1, <1>8
  <2>2. Blocks[p] = O[i] /\ O[i] \in Members(O)
    BY <1>1, <1>4, <2>1
  <2>3. Owners(O[i]) \subseteq External \cup {O[j] : j \in 1 .. i - 1}
    BY <1>5, <2>1
  <2>4. ASSUME NEW j \in 1 .. i - 1 PROVE O[j] \in Before(p)
    <3>1. j \in 1 .. n /\ l + j \in 1 .. p - 1
      BY <1>1, <2>1
    <3>2. Blocks[l + j] = O[j]
      BY <1>1, <3>1
    <3> QED BY <3>1, <3>2 DEF Before
  <2>5. Owners(O[i]) \subseteq Before(p)
    BY <1>6, <2>1, <2>3, <2>4
  <2> QED BY <2>2, <2>5 DEF O
<1>9. CASE p = l + n + 1 /\ seeded.reserved \in Members(plan.order)
  <2>1. Blocks[p] = Bookings
    BY <1>1, <1>9
  <2>2. Members(O) \subseteq Before(p)
    <3>1. ASSUME NEW j \in 1 .. n PROVE O[j] \in Before(p)
      <4>1. l + j \in 1 .. p - 1 /\ Blocks[l + j] = O[j]
        BY <1>1, <1>9
      <4> QED BY <4>1 DEF Before
    <3> QED BY <1>4, <3>1
  <2>3. seeded.auth
    BY <1>9, OrderedFits DEF IsShaped, SeedWellFormed
  <2>4. Accounts \in Before(p)
    <3>1. p \in Nat /\ l < p
      BY <1>1, <1>9
    <3> QED BY <1>6, <2>3, <3>1 DEF External
  <2> QED BY <1>9, <2>1, <2>2, <2>4 DEF O
<1> QED BY <1>1, <1>2, <1>7, <1>8, <1>9

LEMMA OrderInBlocks ==
    ASSUME IsShaped, OrderFits
    PROVE  Members(plan.order) \subseteq Members(Blocks)
<1>1. ASSUME NEW i \in DOMAIN plan.order PROVE plan.order[i] \in Members(Blocks)
  <2>1. i \in 1 .. Len(plan.order)
    BY LenProperties DEF OrderFits
  <2>2. Blocks[Len(Lead) + i] = plan.order[i]
    BY <2>1, BlocksAre
  <2> DEFINE l == Len(Lead)
             n == Len(plan.order)
             extra == IF seeded.reserved \in Members(plan.order) THEN 1 ELSE 0
  <2>3. Len(Lead) + i \in 1 .. Len(Blocks)
    <3>1. l \in Nat /\ n \in Nat /\ Len(Blocks) = l + n + extra /\ extra \in {0, 1} /\ i \in 1 .. n
      BY <2>1, BlocksAre
    <3> HIDE DEF l, n, extra
    <3>2. l + i \in 1 .. Len(Blocks)
      BY <3>1
    <3> QED BY <3>2 DEF l
  <2>4. DOMAIN Blocks = 1 .. Len(Blocks)
    BY BlocksAre, LenProperties
  <2> QED BY <2>2, <2>3, <2>4 DEF Members
<1> QED BY <1>1 DEF Members

-----------------------------------------------------------------------------
(* The rows of the blocks.                                                 *)
BlockRows(b) == {BlockRow(b, i) : i \in 1 .. RowCount(b)}

Home(e) == IF e = Memberships THEN Tenants ELSE e

(* A block that is rendered and can be run.                                *)
Runs(b) ==
    \/ b = Accounts /\ seeded.auth
    \/ b = Tenants /\ seeded.organizations > 0
    \/ b \in Members(plan.order)
    \/ b = Bookings /\ seeded.reserved \in Members(plan.order) /\ ResourceIsListed

LEMMA RowKey == \A e, o : RowOf(e, o).entity = e /\ RowOf(e, o).ordinal = o
BY DEF RowOf, SeedRow

LEMMA TenantRow ==
    ASSUME IsShaped, NEW i \in 1 .. 3 * seeded.organizations
    PROVE  LET org == (i - 1) \div 3
               own == (i - 1) % 3
           IN  /\ own = 0 => BlockRow(Tenants, i) = RowOf(Tenants, org + 1) /\ Planned(Tenants, org + 1)
               /\ own # 0 => /\ BlockRow(Tenants, i) = RowOf(Memberships, 2 * org + own)
                             /\ Planned(Memberships, 2 * org + own)
                             /\ 3 * org + 1 \in 1 .. i
                             /\ BlockRow(Tenants, 3 * org + 1) = RowOf(Tenants, ((2 * org + own - 1) \div 2) + 1)
<1> DEFINE org == (i - 1) \div 3
           own == (i - 1) % 3
           N == seeded.organizations
<1>1. N \in Nat
  BY CountsAre
<1>2. org \in 0 .. N - 1 /\ own \in 0 .. 2 /\ i = 3 * org + own + 1
  BY <1>1
<1>3. own = 0 => BlockRow(Tenants, i) = RowOf(Tenants, org + 1)
  BY DEF BlockRow
<1>4. own # 0 => BlockRow(Tenants, i) = RowOf(Memberships, 2 * org + own)
  BY DEF BlockRow
<1> HIDE DEF org, own
<1>5. Planned(Tenants, org + 1)
  <2>1. org + 1 \in 1 .. N
    BY <1>1, <1>2
  <2> QED BY <2>1 DEF Planned
<1>6. own # 0 => Planned(Memberships, 2 * org + own)
  <2>1. own # 0 => 2 * org + own \in 1 .. 2 * N
    BY <1>1, <1>2
  <2> QED BY <2>1 DEF Planned
<1>7. 3 * org + 1 \in 1 .. i
  BY <1>1, <1>2
<1>8. BlockRow(Tenants, 3 * org + 1) = RowOf(Tenants, org + 1)
  <2> DEFINE j == 3 * org + 1
  <2>1. (j - 1) \div 3 = org /\ (j - 1) % 3 = 0
    BY <1>1, <1>2
  <2> HIDE DEF j
  <2>2. BlockRow(Tenants, j) = RowOf(Tenants, org + 1)
    BY <2>1 DEF BlockRow
  <2> QED BY <2>2 DEF j
<1>9. own # 0 => (2 * org + own - 1) \div 2 = org
  BY <1>1, <1>2
<1> QED BY <1>3, <1>4, <1>5, <1>6, <1>7, <1>8, <1>9 DEF org, own

LEMMA BlockRowIs ==
    ASSUME IsShaped, OrderFits, NEW b, Runs(b), NEW i \in 1 .. RowCount(b)
    PROVE  \E e, o : /\ BlockRow(b, i) = RowOf(e, o) /\ Planned(e, o) /\ b = Home(e)
                     /\ e = Memberships =>
                          \E j \in 1 .. i : BlockRow(b, j) = RowOf(Tenants, ((o - 1) \div 2) + 1)
<1>1. CASE b = Tenants
  <2>1. i \in 1 .. 3 * seeded.organizations
    BY <1>1, SpecialsDiffer DEF RowCount
  <2> DEFINE org == (i - 1) \div 3
             own == (i - 1) % 3
             o == 2 * org + own
  <2>2. /\ own = 0 => BlockRow(b, i) = RowOf(Tenants, org + 1) /\ Planned(Tenants, org + 1)
        /\ own # 0 => /\ BlockRow(b, i) = RowOf(Memberships, o) /\ Planned(Memberships, o)
                      /\ 3 * org + 1 \in 1 .. i
                      /\ BlockRow(b, 3 * org + 1) = RowOf(Tenants, ((o - 1) \div 2) + 1)
    BY <1>1, <2>1, TenantRow
  <2> HIDE DEF org, own, o
  <2>3. CASE own = 0
    BY <1>1, <2>2, <2>3, SpecialsDiffer DEF Home
  <2>4. CASE own # 0
    BY <1>1, <2>2, <2>4 DEF Home
  <2> QED BY <2>3, <2>4
<1>2. CASE b # Tenants
  <2>1. BlockRow(b, i) = RowOf(b, i)
    BY <1>2 DEF BlockRow
  <2>2. Planned(b, i)
    <3>1. CASE b \in Members(plan.order)
      <4>1. RowCount(b) = desiredEntityRows(seeded.entities[b])
        BY <3>1, OrderedFits DEF RowCount, Kinds
      <4> QED BY <3>1, <4>1 DEF Planned
    <3>2. CASE b = Accounts /\ seeded.auth
      BY <3>2, SpecialsDiffer DEF Planned, RowCount
    <3>3. CASE b = Bookings /\ seeded.reserved \in Members(plan.order) /\ ResourceIsListed
      BY <3>3 DEF Planned
    <3> QED BY <1>2, <3>1, <3>2, <3>3 DEF Runs
  <2>3. b # Memberships
    BY OrderedFits, SpecialsDiffer DEF Runs, Kinds
  <2> QED BY <2>1, <2>2, <2>3 DEF Home
<1> QED BY <1>1, <1>2

LEMMA AtHome ==
    ASSUME IsShaped, OrderFits, NEW e, NEW o, Planned(e, o)
    PROVE  RowOf(e, o) \in BlockRows(Home(e)) /\ Runs(Home(e)) /\ Home(e) \in Members(Blocks)
<1> DEFINE N == seeded.organizations
<1>1. N \in Nat
  BY CountsAre
<1>2. RowCount(Tenants) = 3 * N
  BY SpecialsDiffer DEF RowCount
<1>3. /\ seeded.auth => Accounts \in Members(Blocks)
      /\ N > 0 => Tenants \in Members(Blocks)
      /\ seeded.reserved \in Members(plan.order) => Bookings \in Members(Blocks)
  <2> DEFINE l == Len(Lead)
             n == Len(plan.order)
  <2>1. /\ l \in Nat /\ n \in Nat
        /\ Len(Blocks) = l + n + (IF seeded.reserved \in Members(plan.order) THEN 1 ELSE 0)
        /\ \A q \in 1 .. l : Blocks[q] = Lead[q]
        /\ seeded.reserved \in Members(plan.order) => Blocks[l + n + 1] = Bookings
        /\ DOMAIN Blocks = 1 .. Len(Blocks)
    BY BlocksAre, LenProperties
  <2>2. /\ \A q \in 1 .. l : \/ q = 1 /\ Lead[q] = Accounts /\ seeded.auth
                             \/ q = 2 /\ Lead[q] = Tenants /\ seeded.organizations > 0
        /\ seeded.auth => l >= 1
        /\ seeded.organizations > 0 => l = 2
    BY LeadIs
  <2> HIDE DEF l, n
  <2>3. seeded.auth => 1 \in DOMAIN Blocks /\ Blocks[1] = Accounts
    BY <2>1, <2>2
  <2>4. N > 0 => 2 \in DOMAIN Blocks /\ Blocks[2] = Tenants
    BY <2>1, <2>2
  <2>5. seeded.reserved \in Members(plan.order) => l + n + 1 \in DOMAIN Blocks /\ Blocks[l + n + 1] = Bookings
    BY <2>1
  <2> QED BY <2>3, <2>4, <2>5 DEF Members
<1>4. CASE e = Tenants
  <2>1. o \in 1 .. N
    BY <1>4, OrderedFits, SpecialsDiffer DEF Planned, Kinds
  <2> DEFINE i == 3 * (o - 1) + 1
  <2>2. i \in 1 .. 3 * N /\ (i - 1) \div 3 = o - 1 /\ (i - 1) % 3 = 0 /\ (o - 1) + 1 = o
    BY <1>1, <2>1
  <2> HIDE DEF i
  <2>3. BlockRow(Tenants, i) = RowOf(Tenants, o)
    BY <2>2 DEF BlockRow
  <2>4. Home(e) = Tenants /\ N > 0
    BY <1>1, <1>4, <2>1, SpecialsDiffer DEF Home
  <2> QED BY <1>2, <1>3, <1>4, <2>2, <2>3, <2>4 DEF BlockRows, Runs
<1>5. CASE e = Memberships
  <2>1. o \in 1 .. 2 * N
    BY <1>5, OrderedFits, SpecialsDiffer DEF Planned, Kinds
  <2> DEFINE a == (o - 1) \div 2
             r == (o - 1) % 2
             i == 3 * a + r + 2
  <2>2. a \in 0 .. N - 1 /\ r \in 0 .. 1 /\ o = 2 * a + r + 1
    BY <1>1, <2>1
  <2> HIDE DEF a, r
  <2>3. i \in 1 .. 3 * N /\ (i - 1) \div 3 = a /\ (i - 1) % 3 = r + 1 /\ r + 1 # 0 /\ 2 * a + (r + 1) = o
    BY <1>1, <2>2
  <2> HIDE DEF i
  <2>4. BlockRow(Tenants, i) = RowOf(Memberships, o)
    BY <2>3 DEF BlockRow
  <2>5. Home(e) = Tenants /\ N > 0
    BY <1>1, <1>5, <2>1 DEF Home
  <2> QED BY <1>2, <1>3, <1>5, <2>3, <2>4, <2>5 DEF BlockRows, Runs
<1>6. CASE e \notin {Tenants, Memberships}
  <2>1. Home(e) = e /\ \A i : BlockRow(e, i) = RowOf(e, i)
    BY <1>6 DEF Home, BlockRow
  <2>2. CASE e = Accounts
    <3>1. seeded.auth /\ o \in 1 .. RowCount(Accounts)
      BY <2>2, OrderedFits, SpecialsDiffer DEF Planned, Kinds, RowCount
    <3> QED BY <1>3, <2>1, <2>2, <3>1 DEF BlockRows, Runs
  <2>3. CASE e = Bookings
    <3>1. seeded.reserved \in Members(plan.order) /\ ResourceIsListed /\ o \in 1 .. RowCount(Bookings)
      BY <2>3, OrderedFits, SpecialsDiffer DEF Planned, Kinds
    <3> QED BY <1>3, <2>1, <2>3, <3>1 DEF BlockRows, Runs
  <2>4. CASE e \in Members(plan.order)
    <3>1. o \in 1 .. desiredEntityRows(seeded.entities[e]) /\ e \notin Kinds
      BY <2>4, OrderedFits DEF Planned, Kinds
    <3>2. RowCount(e) = desiredEntityRows(seeded.entities[e])
      BY <3>1 DEF RowCount, Kinds
    <3> QED BY <2>1, <2>4, <3>1, <3>2, OrderInBlocks DEF BlockRows, Runs
  <2> QED BY <1>6, <2>2, <2>3, <2>4 DEF Planned
<1> QED BY <1>4, <1>5, <1>6

-----------------------------------------------------------------------------
(* The inductive invariant: the plan holds what can be seeded, parents     *)
(* first, the database planned rows, those of the blocks that are past.    *)
OnlyPlanned(rows) == \A r \in rows : \E e, o : Planned(e, o) /\ r = RowOf(e, o)
Complete(rows) == \A e, o : Planned(e, o) => RowOf(e, o) \in rows

PlanIs(seedable, ready, order) == [seedable |-> seedable, ready |-> ready, order |-> order]
ProgramIs(step, block, runs) == [step |-> step, block |-> block, runs |-> runs]

SeedSteps == {"exclude", "order", "plan", "none", "seed", "stopped", "failed", "done"}

PlanInv ==
    /\ plan = PlanIs(plan.seedable, plan.ready, plan.order)
    /\ plan.seedable \subseteq DOMAIN seeded.entities /\ plan.order \in Seq(plan.seedable)
    /\ plan.ready \subseteq Remaining
    /\ program.step = "exclude" => plan.ready = {} /\ plan.order = <<>>
    /\ program.step # "exclude" => OrderFits /\ \A e \in plan.ready : Owners(e) \cap Remaining = {}

ProgramInv ==
    /\ program = ProgramIs(program.step, program.block, program.runs)
    /\ program.step \in SeedSteps /\ program.block \in Nat /\ program.runs \in 0 .. SeedRuns
    /\ program.step \in {"seed", "stopped", "failed", "done"} => AccountsFit

RowsInv ==
    /\ program.step \in {"exclude", "order", "plan", "none"} => database = {} /\ first = {}
    /\ OnlyPlanned(database) /\ OnlyPlanned(first)
    /\ first = {} \/ Complete(first)
    /\ program.step = "seed" =>
         /\ program.block \in 1 .. Len(Blocks) + 1
         /\ \A p \in 1 .. program.block - 1 : Runs(Blocks[p]) /\ BlockRows(Blocks[p]) \subseteq database
    /\ program.step = "failed" => Blocks[program.block] = Bookings /\ ~ResourceIsListed
    /\ program.step = "done" => Complete(database) /\ Complete(first)

SeedInv == IsShaped /\ PlanInv /\ ProgramInv /\ RowsInv

LEMMA KnownRow == ASSUME NEW S, OnlyPlanned(S), NEW r \in S PROVE r = RowOf(r.entity, r.ordinal) /\ Planned(r.entity, r.ordinal)
<1>1. PICK e, o : Planned(e, o) /\ r = RowOf(e, o)
  BY DEF OnlyPlanned
<1>2. r.entity = e /\ r.ordinal = o
  BY <1>1, RowKey
<1> QED BY <1>1, <1>2

LEMMA KnownComplete == ASSUME NEW S, NEW T, OnlyPlanned(S), Complete(S), OnlyPlanned(T), Complete(T) PROVE S = T
BY DEF OnlyPlanned, Complete

(* What a block writes, as far as it comes: the database takes all of it.  *)
LEMMA BlockKnown ==
    ASSUME IsShaped, OrderFits, OnlyPlanned(database), NEW b, Runs(b), NEW n \in Nat, n <= RowCount(b)
    PROVE  /\ OnlyPlanned(database \cup Upserted(b, n))
           /\ \A i \in 1 .. n : BlockRow(b, i) \in database \cup Upserted(b, n)
<1> DEFINE after == database \cup Upserted(b, n)
<1>0. RowCount(b) \in Nat
  BY CountsAre DEF RowCount
<1>1. ASSUME NEW i \in 1 .. n
      PROVE  \E e, o : Planned(e, o) /\ BlockRow(b, i) = RowOf(e, o)
  <2>1. i \in 1 .. RowCount(b)
    BY <1>0
  <2> QED BY <2>1, BlockRowIs
<1>2. ASSUME NEW r \in Upserted(b, n)
      PROVE  \E e, o : Planned(e, o) /\ r = RowOf(e, o)
  BY <1>1 DEF Upserted
<1>3. OnlyPlanned(after)
  BY <1>2 DEF OnlyPlanned
<1>4. ASSUME NEW i \in 1 .. n PROVE BlockRow(b, i) \in after
  <2> DEFINE row == BlockRow(b, i)
  <2>1. CASE \A r \in database : r.entity # row.entity \/ r.ordinal # row.ordinal
    BY <2>1 DEF Upserted
  <2>2. ASSUME NEW r \in database, r.entity = row.entity, r.ordinal = row.ordinal PROVE row \in after
    <3>1. r = RowOf(r.entity, r.ordinal)
      BY KnownRow
    <3>2. row = RowOf(row.entity, row.ordinal)
      <4>1. PICK e, o : Planned(e, o) /\ row = RowOf(e, o)
        BY <1>1
      <4>2. row.entity = e /\ row.ordinal = o
        BY <4>1, RowKey
      <4> QED BY <4>1, <4>2
    <3>3. r = row
      BY <2>2, <3>1, <3>2
    <3> QED BY <3>3
  <2> QED BY <2>1, <2>2
<1> QED BY <1>3, <1>4

LEMMA BlocksDomain == ASSUME IsShaped, OrderFits PROVE Len(Blocks) \in Nat /\ DOMAIN Blocks = 1 .. Len(Blocks)
<1>1. Blocks \in Seq(BlockSet)
  BY BlocksAre
<1> QED BY <1>1, LenProperties

LEMMA NotMembership == ASSUME IsShaped, OrderFits, NEW p \in DOMAIN Blocks PROVE Blocks[p] # Memberships
BY BlocksOrdered, OrderedFits, SpecialsDiffer DEF Kinds

LEMMA BlockTaken ==
    ASSUME IsShaped, OrderFits, AccountsFit, OnlyPlanned(database), NEW p \in DOMAIN Blocks, Runs(Blocks[p]),
           \A q \in 1 .. p - 1 : BlockRows(Blocks[q]) \subseteq database,
           NEW n \in Nat, n <= RowCount(Blocks[p]),
           NEW row \in Upserted(Blocks[p], n)
    PROVE  Takes(database \cup Upserted(Blocks[p], n), row)
<1> DEFINE b == Blocks[p]
           after == database \cup Upserted(b, n)
<1>1. RowCount(b) \in Nat
  BY CountsAre DEF RowCount
<1>2. PICK i \in 1 .. n : row = BlockRow(b, i)
  BY DEF Upserted
<1>3. i \in 1 .. RowCount(b)
  BY <1>1
<1>4. PICK e, o : /\ BlockRow(b, i) = RowOf(e, o) /\ Planned(e, o) /\ b = Home(e)
                  /\ e = Memberships => \E j \in 1 .. i : BlockRow(b, j) = RowOf(Tenants, ((o - 1) \div 2) + 1)
  BY <1>3, BlockRowIs
<1>5. row = RowOf(e, o) /\ row.entity = e /\ row.ordinal = o
  BY <1>2, <1>4, RowKey
<1>6. OnlyPlanned(after) /\ \A j \in 1 .. n : BlockRow(b, j) \in after
  BY BlockKnown
<1>7. ~Taken(row, after)
  <2> SUFFICES ASSUME NEW other \in after, other.entity = row.entity, other.ordinal # row.ordinal,
                      NEW index \in UniqueOver(row.entity),
                      \A name \in Members(index) : Same(row, other, name)
               PROVE  FALSE
    BY DEF Taken
  <2>1. other = RowOf(e, other.ordinal) /\ Planned(e, other.ordinal) /\ other.ordinal # o
    BY <1>5, <1>6, KnownRow
  <2>2. ApartIn(e, o, other.ordinal)
    BY <1>4, <2>1, Apart
  <2> QED BY <1>5, <2>1, <2>2 DEF ApartIn
<1>8. InRange(row)
  BY <1>4, <1>5, StaysInRange
<1>9. ASSUME NEW id \in References(row) PROVE \E r \in after : <<r.entity, r.ordinal>> = id
  <2>1. PICK t, q : /\ id = <<t, q>> /\ Planned(t, q)
                    /\ \/ e = Memberships /\ (t = Accounts \/ (t = Tenants /\ q = ((o - 1) \div 2) + 1))
                       \/ e = Bookings /\ t \in Members(plan.order) \cup {Accounts}
                       \/ e \in Members(plan.order) /\ t \in Owners(e)
    BY <1>4, <1>5, RefersToPlanned
  <2>2. SUFFICES RowOf(t, q) \in after
    BY <2>1, RowKey
  <2>3. ASSUME t \in Before(p) PROVE RowOf(t, q) \in after
    <3>1. PICK k \in 1 .. p - 1 : t = Blocks[k]
      BY <2>3 DEF Before
    <3>2. k \in DOMAIN Blocks
      BY BlocksDomain
    <3>3. Home(t) = t
      BY <3>1, <3>2, NotMembership DEF Home
    <3>4. RowOf(t, q) \in BlockRows(t)
      BY <2>1, <3>3, AtHome
    <3> QED BY <3>1, <3>4
  <2>4. \/ b = Accounts /\ seeded.auth
        \/ b = Tenants /\ seeded.organizations > 0 /\ Accounts \in Before(p)
        \/ b \in Members(plan.order) /\ Owners(b) \subseteq Before(p)
        \/ b = Bookings /\ Members(plan.order) \cup {Accounts} \subseteq Before(p)
    BY BlocksOrdered
  <2>5. CASE e = Memberships
    <3>1. b = Tenants
      BY <1>4, <2>5 DEF Home
    <3>2. Accounts \in Before(p)
      BY <2>4, <3>1, OrderedFits, SpecialsDiffer DEF Kinds
    <3>3. CASE t = Accounts
      BY <2>3, <3>2, <3>3
    <3>4. CASE t = Tenants /\ q = ((o - 1) \div 2) + 1
      <4>1. PICK j \in 1 .. i : BlockRow(b, j) = RowOf(Tenants, ((o - 1) \div 2) + 1)
        BY <1>4, <2>5
      <4>2. j \in 1 .. n
        OBVIOUS
      <4> QED BY <1>6, <3>4, <4>1, <4>2
    <3>5. e # Bookings /\ e \notin Members(plan.order)
      BY <2>5, OrderedFits, SpecialsDiffer DEF Kinds
    <3> QED BY <2>1, <3>3, <3>4, <3>5
  <2>6. CASE e = Bookings
    <3>1. b = Bookings /\ e # Memberships /\ e \notin Members(plan.order)
      BY <1>4, <2>6, OrderedFits, SpecialsDiffer DEF Home, Kinds
    <3>2. Members(plan.order) \cup {Accounts} \subseteq Before(p)
      BY <2>4, <2>6, <3>1, SpecialsDiffer
    <3> QED BY <2>1, <2>3, <3>1, <3>2
  <2>7. CASE e \in Members(plan.order)
    <3>1. b = e /\ e \notin Kinds
      BY <1>4, <2>7, OrderedFits DEF Home, Kinds
    <3>2. Owners(e) \subseteq Before(p)
      BY <2>4, <3>1 DEF Kinds
    <3> QED BY <2>1, <2>3, <3>1, <3>2 DEF Kinds
  <2> QED BY <2>1, <2>5, <2>6, <2>7
<1> QED BY <1>7, <1>8, <1>9 DEF Takes

(* What the rows depend on is not changed once they are inserted.          *)
LEMMA SeedKept ==
    ASSUME UNCHANGED seeded
    PROVE  /\ IsShaped' <=> IsShaped
           /\ AccountsFit' <=> AccountsFit
           /\ ResourceIsListed' <=> ResourceIsListed
           /\ External' = External
           /\ \A e : Owners(e)' = Owners(e)
           /\ \A e, o : RowOf(e, o)' = RowOf(e, o)
           /\ \A b : RowCount(b)' = RowCount(b)
           /\ \A b : BlockRows(b)' = BlockRows(b)
           /\ \A e, s : unseedableReason(e, s)' <=> unseedableReason(e, s)
           /\ \A e, s : NeedsMissing(e, s)' <=> NeedsMissing(e, s)
           /\ \A entity : desiredEntityRows(entity)' = desiredEntityRows(entity)
           /\ seededUserCount' = seededUserCount
<1>1. \A entity : Scoped(entity)' <=> Scoped(entity)
  BY DEF Scoped
<1>2. seededUserCount' = seededUserCount
  BY DEF seededUserCount
<1>3. \A entity : desiredEntityRows(entity)' = desiredEntityRows(entity)
  BY <1>1 DEF desiredEntityRows
<1>4. \A t, s : relationCapacity(t, s)' = relationCapacity(t, s)
  BY <1>2, <1>3 DEF relationCapacity
<1>5. \A e, s : unseedableReason(e, s)' <=> unseedableReason(e, s)
  BY <1>3, <1>4 DEF unseedableReason
<1>6. External' = External
  BY DEF External
<1>7. \A e, s : NeedsMissing(e, s)' <=> NeedsMissing(e, s)
  BY <1>6 DEF NeedsMissing
<1>8. \A entity, k, org, index, o :
        foreignKeyExpression(entity, k, org, index, o)' = foreignKeyExpression(entity, k, org, index, o)
  BY <1>1, <1>2, <1>3 DEF foreignKeyExpression
<1>9. \A entity, org, index, o : SeededColumns(entity, org, index, o)' = SeededColumns(entity, org, index, o)
  BY <1>8 DEF SeededColumns
<1>10. \A e, o : entityRow(e, o)' = entityRow(e, o)
  BY <1>9 DEF entityRow
<1>11. \A o : userRow(o)' = userRow(o)
  BY <1>9 DEF userRow
<1>12. \A o : reservationRow(o)' = reservationRow(o)
  BY DEF reservationRow
<1>13. \A e, o : RowOf(e, o)' = RowOf(e, o)
  BY <1>10, <1>11, <1>12 DEF RowOf
<1>14. \A b : RowCount(b)' = RowCount(b)
  BY <1>2, <1>3 DEF RowCount
<1>15. \A b, i : BlockRow(b, i)' = BlockRow(b, i)
  BY <1>13 DEF BlockRow
<1>16. \A b : BlockRows(b)' = BlockRows(b)
  BY <1>14, <1>15 DEF BlockRows
<1>17. \A e : Owners(e)' = Owners(e)
  BY DEF Owners
<1>18. IsShaped' <=> IsShaped
  BY DEF IsShaped
<1>19. ResourceIsListed' <=> ResourceIsListed
  BY <1>1 DEF ResourceIsListed
<1>20. AccountsFit' <=> AccountsFit
  BY <1>2 DEF AccountsFit, authSeedUnsupportedReason
<1> QED BY <1>2, <1>3, <1>5, <1>6, <1>7, <1>13, <1>14, <1>16, <1>17, <1>18, <1>19, <1>20

LEMMA PlanKept ==
    ASSUME UNCHANGED <<seeded, plan>>
    PROVE  /\ OrderFits' <=> OrderFits
           /\ Blocks' = Blocks /\ Remaining' = Remaining
           /\ \A b : Runs(b)' <=> Runs(b)
           /\ \A S : OnlyPlanned(S)' <=> OnlyPlanned(S)
           /\ \A S : Complete(S)' <=> Complete(S)
<1>1. Members(plan.order)' = Members(plan.order)
  BY DEF Members
<1>2. Excluded' = Excluded
  BY SeedKept DEF Excluded
<1>3. OrderFits' <=> OrderFits
  BY <1>2, SeedKept DEF OrderFits
<1>4. Blocks' = Blocks /\ Remaining' = Remaining
  BY <1>1 DEF Blocks, Remaining
<1>5. \A b : Runs(b)' <=> Runs(b)
  BY <1>1, SeedKept DEF Runs
<1>6. \A e, o : Planned(e, o)' <=> Planned(e, o)
  BY <1>1, SeedKept DEF Planned
<1>7. \A S : OnlyPlanned(S)' <=> OnlyPlanned(S)
  BY <1>6, SeedKept DEF OnlyPlanned
<1>8. \A S : Complete(S)' <=> Complete(S)
  BY <1>6, SeedKept DEF Complete
<1> QED BY <1>3, <1>4, <1>5, <1>7, <1>8

LEMMA SeedStart ==
    ASSUME NEW Specifications, \A s \in Specifications : SeedWellFormed(s), SeedInit(Specifications)
    PROVE  SeedInv
<1>1. IsShaped
  BY DEF SeedInit, IsShaped
<1>2. /\ plan = PlanIs(DOMAIN seeded.entities, {}, <<>>)
      /\ program = ProgramIs("exclude", 1, 0) /\ database = {} /\ first = {}
  BY DEF SeedInit, PlanIs, ProgramIs
<1>3. PlanInv
  BY <1>2, EmptySeq DEF PlanInv, PlanIs, ProgramIs
<1>4. ProgramInv
  BY <1>2, SeedAssumption DEF ProgramInv, ProgramIs, SeedSteps
<1>5. RowsInv
  BY <1>2 DEF RowsInv, ProgramIs, OnlyPlanned
<1> QED BY <1>1, <1>3, <1>4, <1>5 DEF SeedInv

(* While the plan is made there are no rows.                               *)
LEMMA NoRowsYet ==
    ASSUME database' = {}, first' = {}, program'.step \in {"exclude", "order", "plan", "none"}
    PROVE  RowsInv'
BY DEF RowsInv, OnlyPlanned

LEMMA ExcludeKeeps == ASSUME SeedInv, NEW e \in plan.seedable, Exclude(e) PROVE SeedInv'
<1>1. /\ program.step = "exclude" /\ UNCHANGED <<seeded, program, database, first>>
      /\ plan' = [plan EXCEPT !.seedable = @ \ {e}]
  BY DEF Exclude
<1>2. plan.ready = {} /\ plan.order = <<>> /\ plan = PlanIs(plan.seedable, plan.ready, plan.order)
  BY <1>1 DEF SeedInv, PlanInv
<1>3. plan' = PlanIs(plan.seedable \ {e}, {}, <<>>)
  BY <1>1, <1>2 DEF PlanIs
<1>4. IsShaped'
  BY <1>1, SeedKept DEF SeedInv
<1>5. PlanInv'
  BY <1>1, <1>3, EmptySeq DEF SeedInv, PlanInv, PlanIs
<1>6. ProgramInv'
  BY <1>1 DEF SeedInv, ProgramInv
<1>7. RowsInv'
  BY <1>1, NoRowsYet DEF SeedInv, RowsInv
<1> QED BY <1>4, <1>5, <1>6, <1>7 DEF SeedInv

LEMMA ProgramFields ==
    ASSUME ProgramInv, NEW step, program' = [program EXCEPT !.step = step]
    PROVE  program' = ProgramIs(step, program.block, program.runs)
BY DEF ProgramInv, ProgramIs

LEMMA KeepRestKeeps == ASSUME SeedInv, KeepRest PROVE SeedInv'
<1>1. /\ program.step = "exclude" /\ Excluded = {} /\ UNCHANGED <<seeded, plan, database, first>>
      /\ program' = [program EXCEPT !.step = "order"]
  BY DEF KeepRest
<1>2. program' = ProgramIs("order", program.block, program.runs)
  BY <1>1, ProgramFields DEF SeedInv
<1>3. plan.ready = {} /\ plan.order = <<>>
  BY <1>1 DEF SeedInv, PlanInv
<1>4. OrderFits
  BY <1>1, <1>3 DEF SeedInv, PlanInv, OrderFits
<1>5. IsShaped'
  BY <1>1, SeedKept DEF SeedInv
<1>6. PlanInv'
  <2>1. OrderFits' /\ Remaining' = Remaining
    BY <1>1, <1>4, PlanKept
  <2> QED BY <1>1, <1>2, <1>3, <2>1 DEF SeedInv, PlanInv, ProgramIs
<1>7. ProgramInv'
  BY <1>2 DEF SeedInv, ProgramInv, ProgramIs, SeedSteps
<1>8. RowsInv'
  BY <1>1, <1>2, NoRowsYet DEF SeedInv, RowsInv, ProgramIs
<1> QED BY <1>5, <1>6, <1>7, <1>8 DEF SeedInv

LEMMA StartRoundKeeps == ASSUME SeedInv, StartRound PROVE SeedInv'
<1>1. /\ program.step = "order" /\ UNCHANGED <<seeded, program, database, first>>
      /\ plan' = [plan EXCEPT !.ready = Ready]
  BY DEF StartRound
<1>2. plan' = PlanIs(plan.seedable, Ready, plan.order)
  BY <1>1 DEF SeedInv, PlanInv, PlanIs
<1>3. plan'.seedable = plan.seedable /\ plan'.order = plan.order /\ plan'.ready = Ready
  BY <1>2 DEF PlanIs
<1>4. Remaining' = Remaining /\ Excluded' = Excluded
  BY <1>1, <1>3, SeedKept DEF Remaining, Members, Excluded
<1>5. OrderFits'
  BY <1>1, <1>3, <1>4, SeedKept DEF SeedInv, PlanInv, OrderFits
<1>6. IsShaped'
  BY <1>1, SeedKept DEF SeedInv
<1>7. PlanInv'
  <2>1. \A e \in Ready : Owners(e)' \cap Remaining = {}
    BY <1>1, SeedKept DEF Ready
  <2>2. Ready \subseteq Remaining
    BY DEF Ready
  <2> QED BY <1>1, <1>2, <1>3, <1>4, <1>5, <2>1, <2>2 DEF SeedInv, PlanInv
<1>8. ProgramInv'
  BY <1>1 DEF SeedInv, ProgramInv
<1>9. RowsInv'
  BY <1>1, NoRowsYet DEF SeedInv, RowsInv
<1> QED BY <1>6, <1>7, <1>8, <1>9 DEF SeedInv

LEMMA PlaceKeeps == ASSUME SeedInv, NEW e \in plan.seedable, Place(e) PROVE SeedInv'
<1>1. /\ program.step = "order" /\ UNCHANGED <<seeded, program, database, first>>
      /\ plan' = [plan EXCEPT !.ready = @ \ {e}, !.order = Append(@, e)] /\ e \in plan.ready
  BY DEF Place
<1> DEFINE O == plan.order
           n == Len(O)
           after == Append(O, e)
<1>2. plan' = PlanIs(plan.seedable, plan.ready \ {e}, after)
  BY <1>1 DEF SeedInv, PlanInv, PlanIs
<1>3. plan'.seedable = plan.seedable /\ plan'.order = after /\ plan'.ready = plan.ready \ {e}
  BY <1>2 DEF PlanIs
<1>4. O \in Seq(plan.seedable) /\ OrderFits
  BY <1>1 DEF SeedInv, PlanInv
<1>5. /\ n \in Nat /\ DOMAIN O = 1 .. n
      /\ after \in Seq(plan.seedable) /\ Len(after) = n + 1 /\ DOMAIN after = 1 .. n + 1
      /\ \A i \in 1 .. n : after[i] = O[i]
      /\ after[n + 1] = e
  <2> HIDE DEF O
  <2>1. n \in Nat /\ DOMAIN O = 1 .. n
    BY <1>4, LenProperties
  <2>2. after \in Seq(plan.seedable) /\ Len(after) = n + 1
    BY <1>4, <2>1, AppendProperties
  <2>3. DOMAIN after = 1 .. n + 1
    BY <2>2, LenProperties
  <2>4. (\A i \in 1 .. n : after[i] = O[i]) /\ after[n + 1] = e
    BY <1>4, AppendProperties
  <2> QED BY <2>1, <2>2, <2>3, <2>4
<1> HIDE DEF after, n
<1>6. Members(after) = Members(O) \cup {e}
  BY <1>5 DEF Members
<1>7. Remaining' = Remaining \ {e}
  <2>1. Remaining' = plan'.seedable \ Members(plan'.order)
    BY DEF Remaining, Members
  <2> QED BY <1>3, <1>6, <2>1 DEF Remaining
<1>8. Excluded' = Excluded
  BY <1>1, <1>3, SeedKept DEF Excluded
<1>9. Owners(e) \subseteq External \cup Members(O)
  <2>1. Owners(e) \cap Remaining = {}
    BY <1>1 DEF SeedInv, PlanInv
  <2>2. ~NeedsMissing(e, plan.seedable)
    BY <1>4 DEF OrderFits, Excluded
  <2>3. Owners(e) \subseteq plan.seedable \cup External
    BY <2>2 DEF NeedsMissing, Owners
  <2> QED BY <2>1, <2>3 DEF Remaining
<1>10. ASSUME NEW i \in 1 .. n + 1
       PROVE  Owners(after[i]) \subseteq External \cup {after[j] : j \in 1 .. i - 1}
  <2>1. CASE i = n + 1
    <3>1. i - 1 = n
      BY <1>5, <2>1
    <3>2. Members(O) = {after[j] : j \in 1 .. n}
      BY <1>5 DEF Members
    <3> QED BY <1>5, <1>9, <2>1, <3>1, <3>2
  <2>2. CASE i # n + 1
    <3>1. i \in 1 .. n /\ \A j \in 1 .. i - 1 : j \in 1 .. n
      BY <1>5, <2>2
    <3>2. Owners(O[i]) \subseteq External \cup {O[j] : j \in 1 .. i - 1}
      BY <1>4, <1>5, <3>1 DEF OrderFits
    <3>3. {O[j] : j \in 1 .. i - 1} = {after[j] : j \in 1 .. i - 1}
      BY <1>5, <3>1
    <3> QED BY <1>5, <3>1, <3>2, <3>3
  <2> QED BY <2>1, <2>2
<1>11. OrderFits'
  <2>1. External' = External /\ \A x : Owners(x)' = Owners(x)
    BY <1>1, SeedKept
  <2>2. \A i \in DOMAIN after : \A x :
          x = after[i] => Owners(x)' \subseteq External' \cup {after[j] : j \in 1 .. i - 1}
    BY <1>5, <1>10, <2>1
  <2>3. plan'.seedable \subseteq DOMAIN seeded'.entities /\ plan'.order \in Seq(plan'.seedable) /\ Excluded' = {}
    BY <1>1, <1>3, <1>4, <1>5, <1>8 DEF OrderFits
  <2> QED BY <1>3, <2>2, <2>3 DEF OrderFits
<1>12. IsShaped'
  BY <1>1, SeedKept DEF SeedInv
<1>13. PlanInv'
  <2>1. \A f \in plan.ready : Owners(f)' \cap Remaining = {}
    BY <1>1, SeedKept DEF SeedInv, PlanInv
  <2>2. plan.ready \subseteq Remaining
    BY DEF SeedInv, PlanInv
  <2>3. plan' = PlanIs(plan'.seedable, plan'.ready, plan'.order)
    BY <1>2, <1>3
  <2>4. plan'.seedable \subseteq DOMAIN seeded'.entities /\ plan'.order \in Seq(plan'.seedable)
    BY <1>11 DEF OrderFits
  <2> QED BY <1>1, <1>3, <1>7, <1>11, <2>1, <2>2, <2>3, <2>4 DEF PlanInv
<1>14. ProgramInv'
  BY <1>1 DEF SeedInv, ProgramInv
<1>15. RowsInv'
  BY <1>1, NoRowsYet DEF SeedInv, RowsInv
<1> QED BY <1>12, <1>13, <1>14, <1>15 DEF SeedInv

(* Once the plan is made it stays.                                         *)
LEMMA PlanStays ==
    ASSUME SeedInv, UNCHANGED <<seeded, plan>>, program.step # "exclude", program'.step # "exclude"
    PROVE  IsShaped' /\ PlanInv'
<1>1. IsShaped'
  BY SeedKept DEF SeedInv
<1>2. OrderFits' /\ Remaining' = Remaining /\ \A e : Owners(e)' = Owners(e)
  BY PlanKept, SeedKept DEF SeedInv, PlanInv
<1>3. PlanInv'
  BY <1>2 DEF SeedInv, PlanInv
<1> QED BY <1>1, <1>3

LEMMA LeaveCyclesKeeps == ASSUME SeedInv, LeaveCycles PROVE SeedInv'
<1>1. /\ program.step = "order" /\ UNCHANGED <<seeded, plan, database, first>>
      /\ program' = [program EXCEPT !.step = "plan"]
  BY DEF LeaveCycles
<1>2. program' = ProgramIs("plan", program.block, program.runs)
  BY <1>1, ProgramFields DEF SeedInv
<1>3. IsShaped' /\ PlanInv'
  BY <1>1, <1>2, PlanStays DEF ProgramIs
<1>4. ProgramInv'
  BY <1>2 DEF SeedInv, ProgramInv, ProgramIs, SeedSteps
<1>5. RowsInv'
  BY <1>1, <1>2, NoRowsYet DEF SeedInv, RowsInv, ProgramIs
<1> QED BY <1>3, <1>4, <1>5 DEF SeedInv

LEMMA RenderNothingKeeps == ASSUME SeedInv, RenderNothing PROVE SeedInv'
<1>1. /\ program.step = "plan" /\ UNCHANGED <<seeded, plan, database, first>>
      /\ program' = [program EXCEPT !.step = "none"]
  BY DEF RenderNothing
<1>2. program' = ProgramIs("none", program.block, program.runs)
  BY <1>1, ProgramFields DEF SeedInv
<1>3. IsShaped' /\ PlanInv'
  BY <1>1, <1>2, PlanStays DEF ProgramIs
<1>4. ProgramInv'
  BY <1>2 DEF SeedInv, ProgramInv, ProgramIs, SeedSteps
<1>5. RowsInv'
  BY <1>1, <1>2, NoRowsYet DEF SeedInv, RowsInv, ProgramIs
<1> QED BY <1>3, <1>4, <1>5 DEF SeedInv

LEMMA StartSeedKeeps == ASSUME SeedInv, StartSeed PROVE SeedInv'
<1>1. /\ program.step \in {"plan", "stopped", "done"} /\ program.runs < SeedRuns
      /\ AccountsFit /\ UNCHANGED <<seeded, plan, database, first>>
      /\ program' = ProgramIs("seed", 1, program.runs + 1)
  BY DEF StartSeed, AccountsFit, ProgramIs
<1>2. program'.step = "seed" /\ program'.block = 1 /\ program'.runs = program.runs + 1
  BY <1>1 DEF ProgramIs
<1>3. IsShaped' /\ PlanInv'
  BY <1>1, <1>2, PlanStays
<1>4. AccountsFit'
  BY <1>1, SeedKept
<1>5. ProgramInv'
  <2>1. program.runs + 1 \in 0 .. SeedRuns
    BY <1>1, SeedAssumption DEF SeedInv, ProgramInv
  <2> QED BY <1>1, <1>2, <1>4, <2>1 DEF ProgramInv, SeedSteps
<1>6. RowsInv'
  <2>1. OrderFits /\ IsShaped
    BY <1>1 DEF SeedInv, PlanInv
  <2>2. Len(Blocks') \in Nat
    BY <1>1, <2>1, BlocksDomain, PlanKept
  <2>3. OnlyPlanned(database)' /\ OnlyPlanned(first)' /\ (first = {} \/ Complete(first))'
    BY <1>1, PlanKept DEF SeedInv, RowsInv
  <2> QED BY <1>2, <2>2, <2>3 DEF RowsInv
<1> QED BY <1>3, <1>5, <1>6 DEF SeedInv


(* A step of a run keeps the plan and the settings, so only the rows count. *)
LEMMA RunKeeps ==
    ASSUME SeedInv, program.step = "seed", UNCHANGED <<seeded, plan>>,
           NEW step \in {"seed", "stopped", "failed", "done"}, NEW block \in Nat,
           program' = ProgramIs(step, block, program.runs), RowsInv'
    PROVE  SeedInv'
<1>1. program'.step = step /\ program'.block = block /\ program'.runs = program.runs
  BY DEF ProgramIs
<1>2. IsShaped' /\ PlanInv'
  BY <1>1, PlanStays
<1>3. AccountsFit'
  BY SeedKept DEF SeedInv, ProgramInv
<1>4. ProgramInv'
  BY <1>1, <1>3 DEF SeedInv, ProgramInv, SeedSteps
<1> QED BY <1>2, <1>4 DEF SeedInv

LEMMA RowsKept ==
    ASSUME UNCHANGED <<seeded, plan>>
    PROVE  /\ Blocks' = Blocks /\ (ResourceIsListed' <=> ResourceIsListed)
           /\ \A x : Runs(x)' <=> Runs(x)
           /\ \A x : BlockRows(x)' = BlockRows(x)
           /\ \A S : OnlyPlanned(S)' <=> OnlyPlanned(S)
           /\ \A S : Complete(S)' <=> Complete(S)
BY SeedKept, PlanKept

(* The blocks of a run take their rows, whether or not the run comes to    *)
(* their end; the one of a resource without organizations fails.           *)
LEMMA SeedBlockKeeps == ASSUME SeedInv, SeedBlock PROVE SeedInv'
<1> DEFINE p == program.block
           b == Blocks[p]
           rows == RowCount(b)
<1>1. program.step = "seed" /\ p \in DOMAIN Blocks /\ UNCHANGED <<seeded, plan, first>>
  BY DEF SeedBlock
<1>2. IsShaped /\ OrderFits /\ AccountsFit /\ OnlyPlanned(database) /\ p \in Nat
  BY <1>1 DEF SeedInv, PlanInv, ProgramInv, RowsInv
<1>3. p \in 1 .. Len(Blocks) /\ Len(Blocks) \in Nat
  BY <1>1, <1>2, BlocksDomain
<1>4. \A q \in 1 .. p - 1 : Runs(Blocks[q]) /\ BlockRows(Blocks[q]) \subseteq database
  BY <1>1 DEF SeedInv, RowsInv
<1>5. OnlyPlanned(first) /\ (first = {} \/ Complete(first))
  BY <1>1 DEF SeedInv, RowsInv
<1>6. OnlyPlanned(first)' /\ (first = {} \/ Complete(first))'
  BY <1>1, <1>5, RowsKept
<1>7. ASSUME b = Bookings, ~ResourceIsListed,
             program' = [program EXCEPT !.step = "failed"], database' = database
      PROVE  SeedInv'
  <2>1. program' = ProgramIs("failed", p, program.runs)
    BY <1>7, ProgramFields DEF SeedInv
  <2>2. program'.step = "failed" /\ program'.block = p
    BY <2>1 DEF ProgramIs
  <2>3. OnlyPlanned(database)'
    BY <1>1, <1>2, <1>7, RowsKept
  <2>4. Blocks'[program'.block] = Bookings /\ ~ResourceIsListed'
    BY <1>1, <1>7, <2>2, RowsKept
  <2>5. RowsInv'
    BY <1>6, <2>2, <2>3, <2>4 DEF RowsInv
  <2> QED BY <1>1, <1>2, <2>1, <2>5, RunKeeps
<1>8. ASSUME ~(b = Bookings /\ ~ResourceIsListed),
             NEW n \in {rows} \cup {i \in Interruptions : i < rows},
             LET after == database \cup Upserted(b, n)
             IN  IF \A row \in after \ database : Takes(after, row)
                 THEN /\ database' = after
                      /\ program' = IF n = rows THEN [program EXCEPT !.block = @ + 1]
                                    ELSE [program EXCEPT !.step = "stopped"]
                 ELSE program' = [program EXCEPT !.step = "failed"] /\ UNCHANGED database
      PROVE  SeedInv'
  <2> DEFINE after == database \cup Upserted(b, n)
  <2>1. Runs(b)
    BY <1>1, <1>2, <1>8, BlocksOrdered DEF Runs
  <2>2. rows \in Nat
    BY <1>2, CountsAre DEF RowCount
  <2>3. n \in Nat /\ n <= rows
    <3>1. n = rows \/ (n \in Nat /\ n < rows)
      BY <1>8, SeedAssumption
    <3> QED BY <2>2, <3>1
  <2>4. OnlyPlanned(after) /\ \A i \in 1 .. n : BlockRow(b, i) \in after
    BY <1>2, <2>1, <2>3, BlockKnown
  <2>5. \A row \in Upserted(b, n) : Takes(after, row)
    BY <1>1, <1>2, <1>4, <2>1, <2>3, BlockTaken
  <2>6. /\ database' = after
        /\ program' = IF n = rows THEN [program EXCEPT !.block = @ + 1]
                      ELSE [program EXCEPT !.step = "stopped"]
    BY <1>8, <2>5
  <2>7. OnlyPlanned(database)'
    BY <1>1, <2>4, <2>6, RowsKept
  <2>8. CASE n = rows
    <3>1. program' = ProgramIs("seed", p + 1, program.runs)
      BY <1>1, <2>6, <2>8 DEF SeedInv, ProgramInv, ProgramIs
    <3>2. program'.step = "seed" /\ program'.block = p + 1 /\ p + 1 \in Nat
      BY <1>2, <3>1 DEF ProgramIs
    <3>3. BlockRows(b) \subseteq after
      BY <2>4, <2>8 DEF BlockRows
    <3>4. ASSUME NEW q \in 1 .. p PROVE Runs(Blocks[q]) /\ BlockRows(Blocks[q]) \subseteq after
      <4>1. CASE q = p
        BY <2>1, <3>3, <4>1
      <4>2. CASE q # p
        <5>1. q \in 1 .. p - 1
          BY <1>2, <4>2
        <5> QED BY <1>4, <5>1
      <4> QED BY <4>1, <4>2
    <3>5. /\ Blocks' = Blocks
          /\ \A q \in 1 .. p : \A x : x = Blocks[q] => Runs(x)' /\ BlockRows(x)' \subseteq database'
      BY <1>1, <2>6, <3>4, RowsKept
    <3>6. program'.block \in 1 .. Len(Blocks') + 1
      BY <1>1, <1>3, <3>2, RowsKept
    <3>7. RowsInv'
      BY <1>2, <1>6, <2>7, <3>2, <3>5, <3>6 DEF RowsInv
    <3> QED BY <1>1, <3>1, <3>2, <3>7, RunKeeps
  <2>9. CASE n # rows
    <3>1. program' = ProgramIs("stopped", p, program.runs)
      BY <2>6, <2>9, ProgramFields DEF SeedInv
    <3>2. program'.step = "stopped"
      BY <3>1 DEF ProgramIs
    <3>3. RowsInv'
      BY <1>6, <2>7, <3>2 DEF RowsInv
    <3> QED BY <1>1, <1>2, <3>1, <3>3, RunKeeps
  <2> QED BY <2>8, <2>9
<1> QED BY <1>7, <1>8 DEF SeedBlock

(* A run that has come to its end has made every planned row.              *)
LEMMA FinishSeedKeeps == ASSUME SeedInv, FinishSeed PROVE SeedInv'
<1> DEFINE p == program.block
<1>1. /\ program.step = "seed" /\ p \notin DOMAIN Blocks /\ UNCHANGED <<seeded, plan, database>>
      /\ program' = [program EXCEPT !.step = "done"]
      /\ first' = IF first = {} THEN database ELSE first
  BY DEF FinishSeed
<1>2. IsShaped /\ OrderFits /\ AccountsFit /\ OnlyPlanned(database) /\ p \in Nat
  BY <1>1 DEF SeedInv, PlanInv, ProgramInv, RowsInv
<1>3. DOMAIN Blocks = 1 .. Len(Blocks) /\ Len(Blocks) \in Nat
  BY <1>2, BlocksDomain
<1>4. p \in 1 .. Len(Blocks) + 1 /\ \A q \in 1 .. p - 1 : BlockRows(Blocks[q]) \subseteq database
  BY <1>1 DEF SeedInv, RowsInv
<1>5. \A q \in DOMAIN Blocks : BlockRows(Blocks[q]) \subseteq database
  BY <1>1, <1>3, <1>4
<1>6. ASSUME NEW e, NEW o, Planned(e, o) PROVE RowOf(e, o) \in database
  <2>1. RowOf(e, o) \in BlockRows(Home(e)) /\ Home(e) \in Members(Blocks)
    BY <1>2, <1>6, AtHome
  <2> QED BY <1>5, <2>1 DEF Members
<1>7. Complete(database)
  BY <1>6 DEF Complete
<1>8. OnlyPlanned(first) /\ (first = {} \/ Complete(first))
  BY <1>1 DEF SeedInv, RowsInv
<1>9. OnlyPlanned(first') /\ Complete(first')
  BY <1>1, <1>2, <1>7, <1>8
<1>10. program' = ProgramIs("done", p, program.runs)
  BY <1>1, ProgramFields DEF SeedInv
<1>11. program'.step = "done"
  BY <1>10 DEF ProgramIs
<1>12. OnlyPlanned(database)' /\ Complete(database)'
  BY <1>1, <1>2, <1>7, RowsKept
<1>13. OnlyPlanned(first)' /\ Complete(first)'
  BY <1>1, <1>9, RowsKept
<1>14. RowsInv'
  BY <1>11, <1>12, <1>13 DEF RowsInv
<1> QED BY <1>1, <1>2, <1>10, <1>14, RunKeeps

LEMMA SeedStep == ASSUME SeedInv, [SeedNext]_seedVars PROVE SeedInv'
<1>1. CASE SeedNext
  <2>1. ASSUME NEW e \in plan.seedable, Exclude(e) PROVE SeedInv'
    BY <2>1, ExcludeKeeps
  <2>2. ASSUME NEW e \in plan.seedable, Place(e) PROVE SeedInv'
    BY <2>2, PlaceKeeps
  <2> QED BY <1>1, <2>1, <2>2, KeepRestKeeps, StartRoundKeeps, LeaveCyclesKeeps, RenderNothingKeeps,
             StartSeedKeeps, SeedBlockKeeps, FinishSeedKeeps DEF SeedNext
<1>2. CASE UNCHANGED seedVars
  <2>1. UNCHANGED <<seeded, plan>> /\ program' = program /\ database' = database /\ first' = first
    BY <1>2 DEF seedVars
  <2>2. IsShaped' /\ (AccountsFit' <=> AccountsFit) /\ \A e : Owners(e)' = Owners(e)
    BY <2>1, SeedKept DEF SeedInv
  <2>3. (OrderFits' <=> OrderFits) /\ Remaining' = Remaining
    BY <2>1, PlanKept
  <2>4. PlanInv'
    BY <2>1, <2>2, <2>3 DEF SeedInv, PlanInv
  <2>5. ProgramInv'
    BY <2>1, <2>2 DEF SeedInv, ProgramInv
  <2>6. RowsInv'
    BY <2>1, RowsKept DEF SeedInv, RowsInv
  <2> QED BY <2>2, <2>4, <2>5, <2>6 DEF SeedInv
<1> QED BY <1>1, <1>2

LEMMA InvTyped == SeedInv => SeedTypeOK
<1> SUFFICES ASSUME SeedInv PROVE SeedTypeOK
  OBVIOUS
<1>1. SeedWellFormed(seeded) /\ plan.seedable \subseteq DOMAIN seeded.entities
  BY DEF SeedInv, IsShaped, PlanInv
<1>2. plan.ready \cup Members(plan.order) \subseteq plan.seedable
  <2>1. plan.order \in Seq(plan.seedable) /\ plan.ready \subseteq plan.seedable
    BY DEF SeedInv, PlanInv, Remaining
  <2> QED BY <2>1, LenProperties DEF Members
<1>3. program.step \in SeedSteps /\ program.runs \in 0 .. SeedRuns
  BY DEF SeedInv, ProgramInv
<1>4. ASSUME NEW r \in database, NEW s \in database, r.entity = s.entity, r.ordinal = s.ordinal PROVE r = s
  <2>1. OnlyPlanned(database)
    BY DEF SeedInv, RowsInv
  <2>2. r = RowOf(r.entity, r.ordinal) /\ s = RowOf(s.entity, s.ordinal)
    BY <2>1, KnownRow
  <2> QED BY <1>4, <2>2
<1> QED BY <1>1, <1>2, <1>3, <1>4 DEF SeedTypeOK, SeedSteps

(* As many rows of an entity as there are ordinals.                        *)
LEMMA CountedRows ==
    ASSUME IsShaped, OrderFits, OnlyPlanned(database), Complete(database), NEW e \in Members(plan.order)
    PROVE  Cardinality({r \in database : r.entity = e}) = desiredEntityRows(seeded.entities[e])
<1> DEFINE R == desiredEntityRows(seeded.entities[e])
           mine == {r \in database : r.entity = e}
           row == [o \in 1 .. R |-> RowOf(e, o)]
<1>1. R \in Nat
  BY CountsAre
<1>2. e \notin Kinds
  BY OrderedFits
<1>3. \A o : Planned(e, o) <=> o \in 1 .. R
  BY <1>2 DEF Planned, Kinds
<1>4. \A o \in 1 .. R : RowOf(e, o) \in mine
  BY <1>3, RowKey DEF Complete
<1>5. \A r \in mine : r.ordinal \in 1 .. R /\ r = RowOf(e, r.ordinal)
  BY <1>3, KnownRow
<1> HIDE DEF R, mine, row
<1>6. row \in Bijection(1 .. R, mine)
  <2>1. row \in [1 .. R -> mine] /\ \A o \in 1 .. R : row[o] = RowOf(e, o)
    BY <1>4 DEF row
  <2>2. \A o, q \in 1 .. R : row[o] = row[q] => o = q
    BY <2>1, RowKey
  <2>3. \A r \in mine : \E o \in 1 .. R : row[o] = r
    BY <1>5, <2>1
  <2>4. row \in Injection(1 .. R, mine)
    BY <2>1, <2>2, Fun_IsInj
  <2>5. row \in Surjection(1 .. R, mine)
    BY <2>1, <2>3, Fun_IsSurj
  <2> QED BY <2>4, <2>5 DEF Bijection
<1>7. IsFiniteSet(1 .. R) /\ Cardinality(1 .. R) = R
  BY <1>1, FS_Interval
<1>8. ExistsBijection(1 .. R, mine)
  BY <1>6 DEF ExistsBijection
<1>9. Cardinality(mine) = R
  BY <1>7, <1>8, FS_Bijection
<1> QED BY <1>9 DEF mine, R

LEMMA InvLands == SeedInv => SeedLands
<1> SUFFICES ASSUME SeedInv PROVE SeedLands
  OBVIOUS
<1>1. program.step = "failed" => Blocks[program.block] = Bookings /\ ~ResourceIsListed
  BY DEF SeedInv, RowsInv
<1>2. ASSUME program.step = "done"
      PROVE  /\ database = first
             /\ \A e \in Members(plan.order) :
                  Cardinality({r \in database : r.entity = e}) = desiredEntityRows(seeded.entities[e])
  <2>1. /\ IsShaped /\ OrderFits /\ OnlyPlanned(database) /\ Complete(database)
        /\ OnlyPlanned(first) /\ Complete(first)
    BY <1>2 DEF SeedInv, PlanInv, RowsInv
  <2> QED BY <2>1, KnownComplete, CountedRows
<1> QED BY <1>1, <1>2 DEF SeedLands

LEMMA SeedInvHolds ==
    ASSUME NEW Specifications, \A s \in Specifications : SeedWellFormed(s)
    PROVE  SeedSpec(Specifications) => []SeedInv
<1>1. SeedInit(Specifications) => SeedInv
  BY SeedStart
<1>2. SeedInv /\ [SeedNext]_seedVars => SeedInv'
  BY SeedStep
<1> QED BY <1>1, <1>2, PTL DEF SeedSpec

(* For any specifications, numbers of runs and interruptions: what is      *)
(* ordered can be seeded, and no row is there twice.                       *)
THEOREM SeedTyped ==
    ASSUME NEW Specifications, \A s \in Specifications : SeedWellFormed(s)
    PROVE  SeedSpec(Specifications) => []SeedTypeOK
<1>1. SeedInv => SeedTypeOK
  BY InvTyped
<1>2. SeedSpec(Specifications) => []SeedInv
  BY SeedInvHolds
<1> QED BY <1>1, <1>2, PTL

(* For any specifications that normalization can leave: the database takes *)
(* every row the seed plans but those of reservations of a resource that   *)
(* belongs to no organization; and however often the seed is interrupted   *)
(* and run again, whenever it finishes it leaves the rows it left first,   *)
(* as many as it should of each entity it has not excluded.                *)
THEOREM SeedAlwaysLands ==
    ASSUME NEW Specifications, \A s \in Specifications : SeedWellFormed(s)
    PROVE  SeedSpec(Specifications) => []SeedLands
<1>1. SeedInv => SeedLands
  BY InvLands
<1>2. SeedSpec(Specifications) => []SeedInv
  BY SeedInvHolds
<1> QED BY <1>1, <1>2, PTL

-----------------------------------------------------------------------------
(* What a catalog is like: tables are functions from columns, and there is *)
(* nothing of a table that is not there.                                   *)
HasAttributes(column) ==
    column = [type |-> column.type, nullable |-> column.nullable, default |-> column.default]

IsCatalog(x) ==
    /\ x = [tables |-> x.tables, enums |-> x.enums, indexes |-> x.indexes, keys |-> x.keys]
    /\ x.tables = [t \in DOMAIN x.tables |-> x.tables[t]]
    /\ \A t \in DOMAIN x.tables : x.tables[t] = [d \in DOMAIN x.tables[t] |-> x.tables[t][d]]
    /\ \A t \in DOMAIN x.tables : \A d \in DOMAIN x.tables[t] : HasAttributes(x.tables[t][d])
    /\ x.enums = [t \in DOMAIN x.enums |-> x.enums[t]]
    /\ \A t \in DOMAIN x.enums : x.enums[t] \in Seq(Nat) \ {<<>>}
    /\ \A i \in x.indexes : i.table \in DOMAIN x.tables
    /\ \A k \in x.keys : k.table \in DOMAIN x.tables

(* What else the snapshot of a specification is.                           *)
IsCoherent(x) ==
    /\ \A t \in DOMAIN x.enums : \A i, j \in DOMAIN x.enums[t] : x.enums[t][i] = x.enums[t][j] => i = j
    /\ \A t \in DOMAIN x.tables : "kind" \in DOMAIN x.tables[t] => t \in DOMAIN x.enums
    /\ \A i \in x.indexes : IndexColumns(i) \subseteq DOMAIN x.tables[i.table]
    /\ \A k \in x.keys : /\ k = [table |-> k.table, key |-> k.key]
                         /\ "ref" \in DOMAIN x.tables[k.table]
                         /\ k.key.target \in DOMAIN x.tables
                         /\ k.key.name = "ref"
    /\ \A j, k \in x.keys : j.table = k.table => j = k

-----------------------------------------------------------------------------
(* The snapshot of a specification is a coherent catalog.                  *)
LEMMA SchemaRows ==
    ASSUME NEW s \in Schemas
    PROVE  /\ s = [t \in DOMAIN s |-> s[t]]
           /\ DOMAIN s \subseteq Tables
           /\ \A t \in DOMAIN s : /\ s[t].kind \in EnumLists
                                  /\ s[t].ref = NoRef \/ s[t].ref.to \in DOMAIN s
                                  /\ s[t].listed \in BOOLEAN
                                  /\ s[t].listed => s[t].ref # NoRef /\ s[t].title # "none"
<1> DEFINE Rowed == UNION {EntityRow(t) : t \in Tables}
<1>1. /\ s \in UNION {[T -> Rowed] : T \in SUBSET Tables}
      /\ Admissible(s) /\ \A t \in DOMAIN s : s[t] \in EntityRow(t)
  BY DEF Schemas
<1>2. PICK T \in SUBSET Tables : s \in [T -> Rowed]
  BY <1>1
<1> HIDE DEF Rowed
<1>3. DOMAIN s = T /\ s = [t \in DOMAIN s |-> s[t]]
  BY <1>2
<1>4. ASSUME NEW t \in DOMAIN s PROVE s[t].kind \in EnumLists /\ s[t].listed \in BOOLEAN
  <2>1. s[t] \in EntityRow(t) BY <1>1
  <2>2. <<>> \in EnumLists BY SchemaAssumption
  <2> QED BY <2>1, <2>2 DEF EntityRow
<1> QED BY <1>1, <1>3, <1>4 DEF Admissible

LEMMA SnapshotIs ==
    ASSUME NEW s \in Schemas
    PROVE  Snapshots[s] = Snapshot(s)
BY DEF Snapshots

LEMMA DescriptorsAreColumns ==
    ASSUME NEW e
    PROVE  LET columns == ColumnDescriptors(e)
           IN  /\ columns = [d \in DOMAIN columns |-> columns[d]]
               /\ \A d \in DOMAIN columns : HasAttributes(columns[d])
               /\ "kind" \in DOMAIN columns <=> e.kind # <<>>
               /\ "ref" \in DOMAIN columns <=> e.ref # NoRef
               /\ "title" \in DOMAIN columns <=> e.title # "none"
<1> DEFINE columns == ColumnDescriptors(e)
<1>1. DOMAIN columns = {"id"} \cup (IF e.title # "none" THEN {"title"} ELSE {})
                         \cup (IF e.kind # <<>> THEN {"kind"} ELSE {})
                         \cup (IF e.ref # NoRef THEN {"ref"} ELSE {})
      /\ columns = [d \in DOMAIN columns |-> columns[d]]
  BY DEF ColumnDescriptors
<1>2. ASSUME NEW d \in DOMAIN columns PROVE HasAttributes(columns[d])
  <2>1. columns[d] = DescribedColumn(e, d) BY DEF ColumnDescriptors
  <2>2. \A type, default, nullable :
           HasAttributes([type |-> type, nullable |-> nullable, default |-> default])
    BY DEF HasAttributes
  <2>3. PICK type, default, nullable :
          DescribedColumn(e, d) = [type |-> type, nullable |-> nullable, default |-> default]
    BY DEF DescribedColumn
  <2> QED BY <2>1, <2>2, <2>3
<1>3. "kind" \in DOMAIN columns <=> e.kind # <<>> BY <1>1
<1>4. "ref" \in DOMAIN columns <=> e.ref # NoRef BY <1>1
<1>5. "title" \in DOMAIN columns <=> e.title # "none" BY <1>1
<1> QED BY <1>1, <1>2, <1>3, <1>4, <1>5

LEMMA IndexesAreOfColumns ==
    ASSUME NEW e, e.listed => e.ref # NoRef /\ e.title # "none",
           NEW i \in IndexDescriptors(e), NEW t
    PROVE  IndexColumns([table |-> t, index |-> i]) \subseteq DOMAIN ColumnDescriptors(e)
<1>1. \/ i.columns = <<"ref", "title">> /\ e.listed
      \/ i.columns = <<"ref">> /\ e.ref # NoRef
  BY DEF IndexDescriptors, NoRef
<1>2. IndexColumns([table |-> t, index |-> i]) = {i.columns[k] : k \in DOMAIN i.columns}
  BY DEF IndexColumns
<1>3. "title" \in DOMAIN ColumnDescriptors(e) <=> e.title # "none"
  BY DescriptorsAreColumns
<1>4. "ref" \in DOMAIN ColumnDescriptors(e) <=> e.ref # NoRef
  BY DescriptorsAreColumns
<1>5. CASE i.columns = <<"ref", "title">> /\ e.listed
  <2>1. DOMAIN i.columns = {1, 2} BY <1>5
  <2> QED BY <1>2, <1>3, <1>4, <1>5, <2>1
<1>6. CASE i.columns = <<"ref">> /\ e.ref # NoRef
  <2>1. DOMAIN i.columns = {1} BY <1>6
  <2> QED BY <1>2, <1>4, <1>6, <2>1
<1> QED BY <1>1, <1>5, <1>6

LEMMA KeysAreOfRelations ==
    ASSUME NEW e, NEW k \in ForeignKeyDescriptors(e)
    PROVE  e.ref # NoRef /\ k.target = e.ref.to /\ k.name = "ref"
           /\ ForeignKeyDescriptors(e) = {k}
<1> DEFINE onDelete == CASE e.ref.how = "restrict" -> "RESTRICT"
                         [] e.ref.how = "cascade"  -> "CASCADE"
                         [] OTHER -> "SET NULL"
           key == [name |-> "ref", target |-> e.ref.to, onDelete |-> onDelete]
<1>1. ForeignKeyDescriptors(e) = IF e.ref = NoRef THEN {} ELSE {key} BY DEF ForeignKeyDescriptors
<1> HIDE DEF onDelete
<1>2. key.target = e.ref.to /\ key.name = "ref" OBVIOUS
<1> HIDE DEF key
<1> QED BY <1>1, <1>2

(* The parts of a snapshot.                                                *)
LEMMA SnapshotParts ==
    ASSUME NEW s \in Schemas, NEW n, n = Snapshots[s]
    PROVE  /\ n = [tables |-> n.tables, enums |-> n.enums, indexes |-> n.indexes, keys |-> n.keys]
           /\ n.tables = [t \in DOMAIN s |-> ColumnDescriptors(s[t])]
           /\ n.enums = [t \in {u \in DOMAIN s : s[u].kind # <<>>} |-> s[t].kind]
           /\ \A i \in n.indexes : \E t \in DOMAIN s : \E j \in IndexDescriptors(s[t]) :
                 i = [table |-> t, index |-> j]
           /\ \A k \in n.keys : \E t \in DOMAIN s : \E j \in ForeignKeyDescriptors(s[t]) :
                 k = [table |-> t, key |-> j]
<1>1. n = Snapshot(s) BY SnapshotIs
<1>2. n.indexes = UNION {{[table |-> t, index |-> i] : i \in IndexDescriptors(s[t])} : t \in DOMAIN s}
  BY <1>1 DEF Snapshot
<1>3. n.keys = UNION {{[table |-> t, key |-> k] : k \in ForeignKeyDescriptors(s[t])} : t \in DOMAIN s}
  BY <1>1 DEF Snapshot
<1>4. n = [tables |-> n.tables, enums |-> n.enums, indexes |-> n.indexes, keys |-> n.keys]
  BY <1>1 DEF Snapshot
<1>5. /\ n.tables = [t \in DOMAIN s |-> ColumnDescriptors(s[t])]
      /\ n.enums = [t \in {u \in DOMAIN s : s[u].kind # <<>>} |-> s[t].kind]
  BY <1>1 DEF Snapshot
<1> QED BY <1>2, <1>3, <1>4, <1>5

LEMMA SnapshotOK ==
    ASSUME NEW s \in Schemas, NEW n, n = Snapshots[s]
    PROVE  /\ IsCatalog(n) /\ IsCoherent(n)
           /\ DOMAIN n.tables = DOMAIN s /\ DOMAIN s \subseteq Nat
           /\ \A t \in DOMAIN n.enums : t \in DOMAIN s /\ n.enums[t] = s[t].kind /\ n.enums[t] \in EnumLists \ {<<>>}
           /\ \A k \in n.keys : s[k.table].ref.to = k.key.target
<1>1. /\ n = [tables |-> n.tables, enums |-> n.enums, indexes |-> n.indexes, keys |-> n.keys]
      /\ n.tables = [t \in DOMAIN s |-> ColumnDescriptors(s[t])]
      /\ n.enums = [t \in {u \in DOMAIN s : s[u].kind # <<>>} |-> s[t].kind]
      /\ \A i \in n.indexes : \E t \in DOMAIN s : \E j \in IndexDescriptors(s[t]) : i = [table |-> t, index |-> j]
      /\ \A k \in n.keys : \E t \in DOMAIN s : \E j \in ForeignKeyDescriptors(s[t]) : k = [table |-> t, key |-> j]
  BY SnapshotParts
<1>4. /\ DOMAIN s \subseteq Tables
      /\ \A t \in DOMAIN s : /\ s[t].kind \in EnumLists
                             /\ s[t].ref = NoRef \/ s[t].ref.to \in DOMAIN s
                             /\ s[t].listed => s[t].ref # NoRef /\ s[t].title # "none"
  BY SchemaRows
<1>5. /\ Tables \subseteq Nat /\ EnumLists \subseteq Seq(Nat)
      /\ \A list \in EnumLists : \A i, j \in DOMAIN list : list[i] = list[j] => i = j
  BY SchemaAssumption
<1>6. \A t \in DOMAIN s : LET columns == n.tables[t]
                          IN  /\ columns = [d \in DOMAIN columns |-> columns[d]]
                              /\ \A d \in DOMAIN columns : HasAttributes(columns[d])
                              /\ "kind" \in DOMAIN columns <=> s[t].kind # <<>>
                              /\ "ref" \in DOMAIN columns <=> s[t].ref # NoRef
  <2> TAKE t \in DOMAIN s
  <2>1. n.tables[t] = ColumnDescriptors(s[t]) BY <1>1
  <2> QED BY <2>1, DescriptorsAreColumns
<1>7. \A t \in DOMAIN n.enums : t \in DOMAIN s /\ n.enums[t] = s[t].kind /\ n.enums[t] \in EnumLists \ {<<>>}
  BY <1>1, <1>4
<1>8. \A i \in n.indexes : i.table \in DOMAIN s /\ IndexColumns(i) \subseteq DOMAIN n.tables[i.table]
  <2> TAKE i \in n.indexes
  <2>1. PICK t \in DOMAIN s : \E j \in IndexDescriptors(s[t]) : i = [table |-> t, index |-> j]
    BY <1>1
  <2>2. PICK j \in IndexDescriptors(s[t]) : i = [table |-> t, index |-> j]
    BY <2>1
  <2>3. IndexColumns([table |-> t, index |-> j]) \subseteq DOMAIN ColumnDescriptors(s[t])
    BY <1>4, IndexesAreOfColumns
  <2> QED BY <1>1, <2>2, <2>3
<1>9. \A k \in n.keys : /\ k.table \in DOMAIN s /\ k = [table |-> k.table, key |-> k.key]
                        /\ s[k.table].ref # NoRef /\ k.key.target = s[k.table].ref.to
                        /\ k.key.name = "ref" /\ ForeignKeyDescriptors(s[k.table]) = {k.key}
  <2> TAKE k \in n.keys
  <2>1. PICK t \in DOMAIN s : \E j \in ForeignKeyDescriptors(s[t]) : k = [table |-> t, key |-> j]
    BY <1>1
  <2>2. PICK j \in ForeignKeyDescriptors(s[t]) : k = [table |-> t, key |-> j]
    BY <2>1
  <2>3. s[t].ref # NoRef /\ j.target = s[t].ref.to /\ j.name = "ref" /\ ForeignKeyDescriptors(s[t]) = {j}
    BY KeysAreOfRelations
  <2> QED BY <2>2, <2>3
<1>10. \A j, k \in n.keys : j.table = k.table => j = k
  BY <1>9
<1>11. IsCatalog(n)
  BY <1>1, <1>5, <1>6, <1>7, <1>8, <1>9 DEF IsCatalog
<1>12. IsCoherent(n)
  <2>1. \A t \in DOMAIN n.enums : \A i, j \in DOMAIN n.enums[t] : n.enums[t][i] = n.enums[t][j] => i = j
    BY <1>5, <1>7
  <2>2. \A t \in DOMAIN n.tables : "kind" \in DOMAIN n.tables[t] => t \in DOMAIN n.enums
    BY <1>1, <1>6
  <2>3. \A k \in n.keys : "ref" \in DOMAIN n.tables[k.table] /\ k.key.target \in DOMAIN n.tables
    BY <1>1, <1>4, <1>6, <1>9
  <2> QED BY <1>8, <1>9, <1>10, <2>1, <2>2, <2>3 DEF IsCoherent
<1> QED BY <1>1, <1>4, <1>5, <1>7, <1>9, <1>11, <1>12

-----------------------------------------------------------------------------
(* What a statement does to the differences that are left: its own goes,   *)
(* and the others stay.                                                    *)
KindsOfTables == {"drop-column", "drop-table", "create-table", "alter-column-type",
                  "alter-column-nullability", "alter-column-default", "add-column"}
KindsOfEnums == {"drop-enum", "create-enum", "add-enum-value"}
KindsOfIndexes == {"drop-index", "add-index"}
KindsOfKeys == {"drop-foreign-key", "add-foreign-key"}

LEMMA KindsOfChanges == ChangeKinds = KindsOfTables \cup KindsOfEnums \cup KindsOfIndexes \cup KindsOfKeys
<1>1. DOMAIN KindOrder = 1 .. 14 BY DEF KindOrder
<1>2. ChangeKinds = {KindOrder[i] : i \in 1 .. 14} BY <1>1 DEF ChangeKinds
<1>3. ChangeKinds = {KindOrder[1], KindOrder[2], KindOrder[3], KindOrder[4], KindOrder[5], KindOrder[6], KindOrder[7],
                     KindOrder[8], KindOrder[9], KindOrder[10], KindOrder[11], KindOrder[12], KindOrder[13], KindOrder[14]}
  BY <1>2
<1> QED BY <1>3 DEF KindOrder, KindsOfTables, KindsOfEnums, KindsOfIndexes, KindsOfKeys

LEMMA SameTables ==
    ASSUME NEW x, NEW y, NEW n, y.tables = x.tables, NEW kind \in KindsOfTables
    PROVE  Changes(y, n, kind) = Changes(x, n, kind)
<1>1. Common(y, n) = Common(x, n) BY DEF Common
<1>2. \A t : ColumnsOf(y, t) = ColumnsOf(x, t) BY DEF ColumnsOf
<1>3. \A attribute : Altered(y, n, attribute) = Altered(x, n, attribute) BY <1>1, <1>2 DEF Altered
<1>4. CASE kind = "drop-column" BY <1>1, <1>2, <1>4 DEF Changes
<1>5. CASE kind = "drop-table" BY <1>5 DEF Changes
<1>6. CASE kind = "create-table" BY <1>6 DEF Changes
<1>7. CASE kind = "alter-column-type" BY <1>3, <1>7 DEF Changes
<1>8. CASE kind = "alter-column-nullability" BY <1>3, <1>8 DEF Changes
<1>9. CASE kind = "alter-column-default" BY <1>3, <1>9 DEF Changes
<1>10. CASE kind = "add-column" BY <1>1, <1>2, <1>10 DEF Changes
<1> QED BY <1>4, <1>5, <1>6, <1>7, <1>8, <1>9, <1>10 DEF KindsOfTables

LEMMA SameEnums ==
    ASSUME NEW x, NEW y, NEW n, y.enums = x.enums, NEW kind \in KindsOfEnums
    PROVE  Changes(y, n, kind) = Changes(x, n, kind)
<1>1. \A t : Extended(y, n, t) <=> Extended(x, n, t) BY DEF Extended
<1>2. Swapped(y, n) = Swapped(x, n) BY <1>1 DEF Swapped
<1>3. CASE kind = "drop-enum" BY <1>2, <1>3 DEF Changes
<1>4. CASE kind = "create-enum" BY <1>2, <1>4 DEF Changes
<1>5. CASE kind = "add-enum-value" BY <1>1, <1>5 DEF Changes
<1> QED BY <1>3, <1>4, <1>5 DEF KindsOfEnums

LEMMA SameIndexes ==
    ASSUME NEW x, NEW y, NEW n, y.indexes = x.indexes, NEW kind \in KindsOfIndexes
    PROVE  Changes(y, n, kind) = Changes(x, n, kind)
<1>1. CASE kind = "drop-index" BY <1>1 DEF Changes
<1>2. CASE kind = "add-index" BY <1>2 DEF Changes
<1> QED BY <1>1, <1>2 DEF KindsOfIndexes

LEMMA SameKeys ==
    ASSUME NEW x, NEW y, NEW n, y.keys = x.keys, NEW kind \in KindsOfKeys
    PROVE  Changes(y, n, kind) = Changes(x, n, kind)
<1>1. CASE kind = "drop-foreign-key" BY <1>1 DEF Changes
<1>2. CASE kind = "add-foreign-key" BY <1>2 DEF Changes
<1> QED BY <1>1, <1>2 DEF KindsOfKeys

(* y is x after the statement for c.                                       *)
Lessens(x, y, n, kind, c) ==
    /\ IsCatalog(y)
    /\ y.keys \subseteq x.keys \cup n.keys
    /\ Changes(y, n, kind) = Changes(x, n, kind) \ {c}
    /\ \A other \in ChangeKinds \ {kind} : Changes(y, n, other) = Changes(x, n, other)

LEMMA DropsKey ==
    ASSUME NEW x, NEW n, IsCatalog(x), IsCoherent(n), NEW c \in Changes(x, n, "drop-foreign-key")
    PROVE  /\ Accepts(x, n, "drop-foreign-key", c)
           /\ Lessens(x, Applied(x, n, "drop-foreign-key", c), n, "drop-foreign-key", c)
<1> DEFINE y == Applied(x, n, "drop-foreign-key", c)
<1>1. c \in x.keys /\ c.table \in DOMAIN n.tables /\ ~\E k \in n.keys : SameKey(c, k)
  BY DEF Changes
<1>2. Accepts(x, n, "drop-foreign-key", c)
  BY <1>1 DEF Accepts, IsCatalog
<1>3. y = [x EXCEPT !.keys = @ \ {c}] BY DEF Applied
<1>4. /\ y.keys = x.keys \ {c} /\ y.tables = x.tables /\ y.enums = x.enums /\ y.indexes = x.indexes
      /\ y = [tables |-> y.tables, enums |-> y.enums, indexes |-> y.indexes, keys |-> y.keys]
  BY <1>3 DEF IsCatalog
<1> HIDE DEF y
<1>5. IsCatalog(y) BY <1>4 DEF IsCatalog
<1>6. Changes(y, n, "drop-foreign-key") = Changes(x, n, "drop-foreign-key") \ {c}
  BY <1>4 DEF Changes
<1>7. Changes(y, n, "add-foreign-key") = Changes(x, n, "add-foreign-key")
  BY <1>1, <1>4 DEF Changes
<1>8. ASSUME NEW other \in ChangeKinds \ {"drop-foreign-key"}
      PROVE  Changes(y, n, other) = Changes(x, n, other)
  BY <1>4, <1>7, KindsOfChanges, SameTables, SameEnums, SameIndexes DEF KindsOfKeys
<1> QED BY <1>2, <1>4, <1>5, <1>6, <1>8 DEF Lessens, y

LEMMA DropsIndex ==
    ASSUME NEW x, NEW n, IsCatalog(x), NEW c \in Changes(x, n, "drop-index")
    PROVE  /\ Accepts(x, n, "drop-index", c)
           /\ Lessens(x, Applied(x, n, "drop-index", c), n, "drop-index", c)
<1> DEFINE y == Applied(x, n, "drop-index", c)
<1>1. c \in x.indexes \ n.indexes /\ c.table \in DOMAIN n.tables
  BY DEF Changes
<1>2. Accepts(x, n, "drop-index", c)
  BY <1>1 DEF Accepts, IsCatalog
<1>3. y = [x EXCEPT !.indexes = @ \ {c}] BY DEF Applied
<1>4. /\ y.indexes = x.indexes \ {c} /\ y.tables = x.tables /\ y.enums = x.enums /\ y.keys = x.keys
      /\ y = [tables |-> y.tables, enums |-> y.enums, indexes |-> y.indexes, keys |-> y.keys]
  BY <1>3 DEF IsCatalog
<1> HIDE DEF y
<1>5. IsCatalog(y) BY <1>4 DEF IsCatalog
<1>6. Changes(y, n, "drop-index") = Changes(x, n, "drop-index") \ {c}
  BY <1>4 DEF Changes
<1>7. Changes(y, n, "add-index") = Changes(x, n, "add-index")
  BY <1>1, <1>4 DEF Changes
<1>8. ASSUME NEW other \in ChangeKinds \ {"drop-index"}
      PROVE  Changes(y, n, other) = Changes(x, n, other)
  BY <1>4, <1>7, KindsOfChanges, SameTables, SameEnums, SameKeys DEF KindsOfIndexes
<1> QED BY <1>2, <1>4, <1>5, <1>6, <1>8 DEF Lessens, y

LEMMA AddsIndex ==
    ASSUME NEW x, NEW n, IsCatalog(x), IsCatalog(n), IsCoherent(n), NEW c \in Changes(x, n, "add-index"),
           Changes(x, n, "create-table") = {}, Changes(x, n, "add-column") = {}
    PROVE  /\ Accepts(x, n, "add-index", c)
           /\ Lessens(x, Applied(x, n, "add-index", c), n, "add-index", c)
<1> DEFINE y == Applied(x, n, "add-index", c)
<1>1. c \in n.indexes \ x.indexes
  BY DEF Changes
<1>2. c.table \in DOMAIN n.tables /\ IndexColumns(c) \subseteq DOMAIN n.tables[c.table]
  BY <1>1 DEF IsCatalog, IsCoherent
<1>3. c.table \in DOMAIN x.tables
  <2>1. \A t \in DOMAIN n.tables \ DOMAIN x.tables : [table |-> t] \in Changes(x, n, "create-table")
    BY DEF Changes
  <2> QED BY <1>2, <2>1
<1>4. DOMAIN n.tables[c.table] \subseteq DOMAIN x.tables[c.table]
  <2>1. \A d \in DOMAIN n.tables[c.table] \ DOMAIN x.tables[c.table] :
           [table |-> c.table, column |-> d] \in Changes(x, n, "add-column")
    BY <1>2, <1>3 DEF Changes, Common, ColumnsOf
  <2> QED BY <2>1
<1>5. Accepts(x, n, "add-index", c)
  BY <1>1, <1>2, <1>3, <1>4 DEF Accepts, ColumnsOf
<1>6. y = [x EXCEPT !.indexes = @ \cup {c}] BY DEF Applied
<1>7. /\ y.indexes = x.indexes \cup {c} /\ y.tables = x.tables /\ y.enums = x.enums /\ y.keys = x.keys
      /\ y = [tables |-> y.tables, enums |-> y.enums, indexes |-> y.indexes, keys |-> y.keys]
  BY <1>6 DEF IsCatalog
<1> HIDE DEF y
<1>8. IsCatalog(y) BY <1>3, <1>7 DEF IsCatalog
<1>9. Changes(y, n, "add-index") = Changes(x, n, "add-index") \ {c}
  BY <1>7 DEF Changes
<1>10. Changes(y, n, "drop-index") = Changes(x, n, "drop-index")
  BY <1>1, <1>7 DEF Changes
<1>11. ASSUME NEW other \in ChangeKinds \ {"add-index"}
      PROVE  Changes(y, n, other) = Changes(x, n, other)
  BY <1>7, <1>10, KindsOfChanges, SameTables, SameEnums, SameKeys DEF KindsOfIndexes
<1> QED BY <1>5, <1>7, <1>8, <1>9, <1>11 DEF Lessens, y

LEMMA AddsKey ==
    ASSUME NEW x, NEW n, IsCatalog(x), IsCatalog(n), IsCoherent(n), NEW c \in Changes(x, n, "add-foreign-key"),
           Changes(x, n, "create-table") = {}, Changes(x, n, "add-column") = {},
           Changes(x, n, "drop-foreign-key") = {}
    PROVE  /\ Accepts(x, n, "add-foreign-key", c)
           /\ Lessens(x, Applied(x, n, "add-foreign-key", c), n, "add-foreign-key", c)
<1> DEFINE y == Applied(x, n, "add-foreign-key", c)
<1>1. c \in n.keys /\ ~\E j \in x.keys : SameKey(j, c)
  BY DEF Changes
<1>2. /\ c.table \in DOMAIN n.tables /\ "ref" \in DOMAIN n.tables[c.table] /\ c.key.target \in DOMAIN n.tables
      /\ \A k \in n.keys : k.table = c.table => k = c
  BY <1>1 DEF IsCatalog, IsCoherent
<1>3. DOMAIN n.tables \subseteq DOMAIN x.tables
  <2>1. \A t \in DOMAIN n.tables \ DOMAIN x.tables : [table |-> t] \in Changes(x, n, "create-table")
    BY DEF Changes
  <2> QED BY <2>1
<1>4. DOMAIN n.tables[c.table] \subseteq DOMAIN x.tables[c.table]
  <2>1. \A d \in DOMAIN n.tables[c.table] \ DOMAIN x.tables[c.table] :
           [table |-> c.table, column |-> d] \in Changes(x, n, "add-column")
    BY <1>2, <1>3 DEF Changes, Common, ColumnsOf
  <2> QED BY <2>1
<1>5. ~\E k \in x.keys : k.table = c.table
  <2> SUFFICES ASSUME NEW k \in x.keys, k.table = c.table PROVE FALSE
    OBVIOUS
  <2>1. k \notin Changes(x, n, "drop-foreign-key") OBVIOUS
  <2>2. PICK m \in n.keys : SameKey(k, m)
    BY <1>2, <2>1 DEF Changes
  <2>3. m = c BY <1>2, <2>2 DEF SameKey
  <2> QED BY <1>1, <2>2, <2>3
<1>6. Accepts(x, n, "add-foreign-key", c)
  BY <1>2, <1>3, <1>4, <1>5 DEF Accepts, ColumnsOf
<1>7. y = [x EXCEPT !.keys = @ \cup {c}] BY DEF Applied
<1>8. /\ y.keys = x.keys \cup {c} /\ y.tables = x.tables /\ y.enums = x.enums /\ y.indexes = x.indexes
      /\ y = [tables |-> y.tables, enums |-> y.enums, indexes |-> y.indexes, keys |-> y.keys]
  BY <1>7 DEF IsCatalog
<1> HIDE DEF y
<1>9. IsCatalog(y) BY <1>2, <1>3, <1>8 DEF IsCatalog
<1>10. Changes(y, n, "add-foreign-key") = Changes(x, n, "add-foreign-key") \ {c}
  <2>1. Changes(y, n, "add-foreign-key") = {k \in n.keys : ~\E j \in y.keys : SameKey(j, k)}
    BY DEF Changes
  <2>2. Changes(x, n, "add-foreign-key") = {k \in n.keys : ~\E j \in x.keys : SameKey(j, k)}
    BY DEF Changes
  <2>3. \A k \in n.keys : SameKey(c, k) <=> k = c
    BY <1>2 DEF SameKey
  <2> QED BY <1>8, <2>1, <2>2, <2>3
<1>11. Changes(y, n, "drop-foreign-key") = Changes(x, n, "drop-foreign-key")
  BY <1>1, <1>8 DEF Changes, SameKey
<1>12. ASSUME NEW other \in ChangeKinds \ {"add-foreign-key"}
      PROVE  Changes(y, n, other) = Changes(x, n, other)
  BY <1>8, <1>11, KindsOfChanges, SameTables, SameEnums, SameIndexes DEF KindsOfKeys
<1> QED BY <1>1, <1>6, <1>8, <1>9, <1>10, <1>12 DEF Lessens, y

LEMMA CreatesEnum ==
    ASSUME NEW x, NEW n, IsCatalog(x), IsCatalog(n), NEW c \in Changes(x, n, "create-enum"),
           Changes(x, n, "drop-enum") = {}
    PROVE  /\ Accepts(x, n, "create-enum", c)
           /\ Lessens(x, Applied(x, n, "create-enum", c), n, "create-enum", c)
<1> DEFINE y == Applied(x, n, "create-enum", c)
<1>1. /\ \A t : t \notin DOMAIN x.enums \ DOMAIN n.enums
      /\ \A t : t \notin Swapped(x, n)
  <2>1. \A t \in (DOMAIN x.enums \ DOMAIN n.enums) \cup Swapped(x, n) :
           [table |-> t] \in Changes(x, n, "drop-enum")
    BY DEF Changes
  <2> QED BY <2>1
<1>2. Changes(x, n, "create-enum") = {[table |-> t] : t \in DOMAIN n.enums \ DOMAIN x.enums}
  BY <1>1 DEF Changes
<1>3. PICK t \in DOMAIN n.enums \ DOMAIN x.enums : c = [table |-> t]
  BY <1>2
<1>4. Accepts(x, n, "create-enum", c)
  BY <1>3 DEF Accepts
<1>5. y = [x EXCEPT !.enums = Added(@, t, n.enums[t])] BY <1>3 DEF Applied
<1>6. /\ y.enums = Added(x.enums, t, n.enums[t])
      /\ y.tables = x.tables /\ y.indexes = x.indexes /\ y.keys = x.keys
      /\ y = [tables |-> y.tables, enums |-> y.enums, indexes |-> y.indexes, keys |-> y.keys]
  BY <1>5 DEF IsCatalog
<1>7. /\ DOMAIN y.enums = DOMAIN x.enums \cup {t}
      /\ y.enums = [u \in DOMAIN y.enums |-> y.enums[u]]
      /\ y.enums[t] = n.enums[t]
      /\ \A u \in DOMAIN x.enums : y.enums[u] = x.enums[u]
  BY <1>3, <1>6 DEF Added
<1> HIDE DEF y
<1>8. IsCatalog(y) BY <1>3, <1>6, <1>7 DEF IsCatalog
<1>9. \A u \in DOMAIN x.enums : Extended(y, n, u) <=> Extended(x, n, u)
  BY <1>7 DEF Extended
<1>10. Extended(y, n, t)
  <2>1. n.enums[t] \in Seq(Nat) BY <1>3 DEF IsCatalog
  <2> QED BY <1>7, <2>1 DEF Extended
<1>11. \A u : u \notin DOMAIN y.enums \ DOMAIN n.enums /\ u \notin Swapped(y, n)
  BY <1>1, <1>3, <1>7, <1>9, <1>10 DEF Swapped
<1>12. Changes(y, n, "drop-enum") = Changes(x, n, "drop-enum")
  BY <1>11 DEF Changes
<1>13. Changes(y, n, "create-enum") = Changes(x, n, "create-enum") \ {c}
  <2>1. Changes(y, n, "create-enum") = {[table |-> u] : u \in DOMAIN n.enums \ DOMAIN y.enums}
    BY <1>11 DEF Changes
  <2> QED BY <1>2, <1>3, <1>7, <2>1
<1>14. Changes(y, n, "add-enum-value") = Changes(x, n, "add-enum-value")
  <2> DEFINE Longer(z, u) == {[table |-> u, at |-> i] : i \in Len(z.enums[u]) + 1 .. Len(n.enums[u])}
             Both(z) == {u \in DOMAIN z.enums \cap DOMAIN n.enums : Extended(z, n, u)}
  <2>1. Changes(y, n, "add-enum-value") = UNION {Longer(y, u) : u \in Both(y)}
        /\ Changes(x, n, "add-enum-value") = UNION {Longer(x, u) : u \in Both(x)}
    BY DEF Changes
  <2>2. Both(y) = Both(x) \cup {t} BY <1>3, <1>7, <1>9, <1>10
  <2>3. Longer(y, t) = {}
    <3>1. Len(n.enums[t]) \in Nat BY <1>3, LenProperties DEF IsCatalog
    <3> QED BY <1>7, <3>1
  <2>4. \A u \in Both(x) : Longer(y, u) = Longer(x, u) BY <1>7
  <2> HIDE DEF Longer, Both
  <2>5. \A e : e \in Changes(y, n, "add-enum-value") <=> \E u \in Both(y) : e \in Longer(y, u)
    BY <2>1
  <2>6. \A e : e \in Changes(x, n, "add-enum-value") <=> \E u \in Both(x) : e \in Longer(x, u)
    BY <2>1
  <2>7. \A e : (\E u \in Both(y) : e \in Longer(y, u)) <=> (\E u \in Both(x) : e \in Longer(x, u))
    BY <2>2, <2>3, <2>4
  <2> QED BY <2>5, <2>6, <2>7
<1>15. ASSUME NEW other \in ChangeKinds \ {"create-enum"}
      PROVE  Changes(y, n, other) = Changes(x, n, other)
  BY <1>6, <1>12, <1>14, KindsOfChanges, SameTables, SameIndexes, SameKeys DEF KindsOfEnums
<1> QED BY <1>4, <1>6, <1>8, <1>13, <1>15 DEF Lessens, y

(* A list that another begins with: the next value of that is added to it, *)
(* and for any later one it is too early.                                  *)
Lengthens(longer, list) ==
    /\ list \in Seq(Nat) \ {<<>>} /\ longer \in Seq(Nat)
    /\ Len(list) <= Len(longer) /\ \A i \in 1 .. Len(list) : list[i] = longer[i]
    /\ \A i, j \in DOMAIN longer : longer[i] = longer[j] => i = j

LEMMA ValueAdded ==
    ASSUME NEW list, NEW longer, Lengthens(longer, list), NEW a \in Len(list) + 1 .. Len(longer)
    PROVE  /\ longer[a] \notin ValuesOf(list)
           /\ longer[a - 1] \in ValuesOf(list) <=> a = Len(list) + 1
           /\ a = Len(list) + 1 =>
                LET added == AddedAfter(list, longer[a - 1], longer[a])
                IN  /\ added \in Seq(Nat) \ {<<>>} /\ Len(added) = a
                    /\ \A i \in 1 .. a : added[i] = longer[i]
<1> DEFINE L == Len(list)
<1>0. /\ list \in Seq(Nat) \ {<<>>} /\ longer \in Seq(Nat)
      /\ Len(list) <= Len(longer) /\ \A i \in 1 .. Len(list) : list[i] = longer[i]
      /\ \A i, j \in DOMAIN longer : longer[i] = longer[j] => i = j
  BY DEF Lengthens
<1>1. /\ L \in Nat \ {0} /\ DOMAIN list = 1 .. L /\ Len(longer) \in Nat /\ DOMAIN longer = 1 .. Len(longer)
      /\ a \in Nat /\ L + 1 <= a /\ a <= Len(longer)
  BY <1>0, LenProperties, EmptySeq
<1> HIDE DEF L
<1>2. ValuesOf(list) = {longer[i] : i \in 1 .. L}
  <2>1. \A i \in 1 .. L : list[i] = longer[i] BY <1>0 DEF L
  <2>2. ValuesOf(list) = {list[i] : i \in 1 .. L} BY <1>1 DEF ValuesOf
  <2> QED BY <2>1, <2>2
<1>3. \A b \in 1 .. Len(longer) : longer[b] \in ValuesOf(list) <=> b <= L
  <2> TAKE b \in 1 .. Len(longer)
  <2>1. b <= L => b \in 1 .. L BY <1>1
  <2>2. ASSUME longer[b] \in ValuesOf(list) PROVE b <= L
    <3>1. PICK i \in 1 .. L : longer[b] = longer[i] BY <1>2, <2>2
    <3>2. i \in DOMAIN longer /\ b \in DOMAIN longer BY <1>1
    <3>3. b = i BY <1>0, <3>1, <3>2
    <3> QED BY <1>1, <3>3
  <2> QED BY <1>2, <2>1, <2>2
<1>4. a - 1 \in 1 .. Len(longer) /\ a \in 1 .. Len(longer) /\ (a - 1 <= L <=> a = L + 1) /\ ~(a <= L)
  BY <1>1
<1>5. ASSUME a = L + 1
      PROVE  LET added == AddedAfter(list, longer[a - 1], longer[a])
             IN  /\ added \in Seq(Nat) \ {<<>>} /\ Len(added) = a
                 /\ \A i \in 1 .. a : added[i] = longer[i]
  <2> DEFINE k == CHOOSE i \in DOMAIN list : list[i] = longer[a - 1]
             added == AddedAfter(list, longer[a - 1], longer[a])
  <2>1. a - 1 = L BY <1>1, <1>5
  <2>2. L \in DOMAIN list /\ list[L] = longer[a - 1] BY <1>0, <1>1, <2>1 DEF L
  <2>3. k \in DOMAIN list /\ list[k] = longer[a - 1] BY <2>2
  <2>4. k = L BY <1>0, <1>1, <2>1, <2>3 DEF L
  <2>5. added = [i \in 1 .. L + 1 |-> IF i <= L THEN list[i] ELSE IF i = L + 1 THEN longer[a] ELSE list[i - 1]]
    BY <2>4 DEF AddedAfter, L
  <2>6. \A i \in 1 .. a : added[i] = longer[i]
    BY <1>0, <1>1, <1>5, <2>5 DEF L
  <2>7. \A i \in 1 .. a : longer[i] \in Nat BY <1>0, <1>1, ElementOfSeq
  <2> HIDE DEF k
  <2>8. added = [i \in 1 .. a |-> longer[i]]
    <3>1. DOMAIN added = 1 .. a BY <1>5, <2>5
    <3>2. added = [i \in DOMAIN added |-> added[i]] BY <2>5
    <3> HIDE DEF added
    <3> QED BY <2>6, <3>1, <3>2
  <2>9. added \in [1 .. a -> Nat] BY <2>7, <2>8
  <2>10. added \in Seq(Nat) BY <1>1, <2>9, SeqDef
  <2>11. Len(added) = a BY <1>1, <2>9, <2>10, LenProperties
  <2> HIDE DEF added
  <2>12. added # <<>> BY <1>1, <2>11
  <2> QED BY <2>6, <2>10, <2>11, <2>12 DEF added
<1> QED BY <1>3, <1>4, <1>5 DEF L

LEMMA AddsValue ==
    ASSUME NEW x, NEW n, IsCatalog(x), IsCatalog(n), IsCoherent(n), NEW c \in Changes(x, n, "add-enum-value")
    PROVE  /\ c.table \in DOMAIN x.enums \cap DOMAIN n.enums /\ c = [table |-> c.table, at |-> c.at]
           /\ c.at \in Len(x.enums[c.table]) + 1 .. Len(n.enums[c.table])
           /\ [table |-> c.table, at |-> Len(x.enums[c.table]) + 1] \in Changes(x, n, "add-enum-value")
           /\ Accepts(x, n, "add-enum-value", c) <=> c.at = Len(x.enums[c.table]) + 1
           /\ Accepts(x, n, "add-enum-value", c) =>
                Lessens(x, Applied(x, n, "add-enum-value", c), n, "add-enum-value", c)
<1> DEFINE Longer(z, u) == {[table |-> u, at |-> i] : i \in Len(z.enums[u]) + 1 .. Len(n.enums[u])}
           Both(z) == {u \in DOMAIN z.enums \cap DOMAIN n.enums : Extended(z, n, u)}
           y == Applied(x, n, "add-enum-value", c)
<1>1. \A z : Changes(z, n, "add-enum-value") = UNION {Longer(z, u) : u \in Both(z)}
  BY DEF Changes
<1>2. PICK t \in Both(x) : c \in Longer(x, t) BY <1>1
<1>3. PICK a \in Len(x.enums[t]) + 1 .. Len(n.enums[t]) : c = [table |-> t, at |-> a]
  BY <1>2
<1>4. /\ t \in DOMAIN x.enums \cap DOMAIN n.enums /\ Extended(x, n, t)
      /\ c.table = t /\ c.at = a
  BY <1>2, <1>3
<1> DEFINE list == x.enums[t]
           longer == n.enums[t]
           added == AddedAfter(list, longer[a - 1], longer[a])
<1>5. /\ list \in Seq(Nat) \ {<<>>} /\ longer \in Seq(Nat)
      /\ Len(list) <= Len(longer) /\ \A i \in 1 .. Len(list) : list[i] = longer[i]
      /\ \A i, j \in DOMAIN longer : longer[i] = longer[j] => i = j
  BY <1>4 DEF IsCatalog, IsCoherent, Extended
<1>6. /\ Len(list) \in Nat \ {0} /\ Len(longer) \in Nat /\ a \in Nat
      /\ a \in Len(list) + 1 .. Len(longer) /\ Len(list) + 1 \in Len(list) + 1 .. Len(longer)
  BY <1>3, <1>5, LenProperties, EmptySeq
<1>7. /\ longer[a] \notin ValuesOf(list)
      /\ longer[a - 1] \in ValuesOf(list) <=> a = Len(list) + 1
      /\ a = Len(list) + 1 => /\ added \in Seq(Nat) \ {<<>>} /\ Len(added) = a
                              /\ \A i \in 1 .. a : added[i] = longer[i]
  <2> HIDE DEF list, longer, Longer, Both, y
  <2>1. Lengthens(longer, list) BY <1>5 DEF Lengthens
  <2> QED BY <1>6, <2>1, ValueAdded
<1>8. Accepts(x, n, "add-enum-value", c) <=> a = Len(list) + 1
  BY <1>4, <1>7 DEF Accepts
<1>9. [table |-> t, at |-> Len(list) + 1] \in Changes(x, n, "add-enum-value")
  BY <1>1, <1>2, <1>6
<1>10. ASSUME a = Len(list) + 1 PROVE Lessens(x, y, n, "add-enum-value", c)
  <2>1. y = [x EXCEPT !.enums = [@ EXCEPT ![t] = added]] BY <1>4 DEF Applied
  <2>2. /\ y.enums = [x.enums EXCEPT ![t] = added]
        /\ y.tables = x.tables /\ y.indexes = x.indexes /\ y.keys = x.keys
        /\ y = [tables |-> y.tables, enums |-> y.enums, indexes |-> y.indexes, keys |-> y.keys]
    BY <2>1 DEF IsCatalog
  <2>3. /\ DOMAIN y.enums = DOMAIN x.enums /\ y.enums = [u \in DOMAIN y.enums |-> y.enums[u]]
        /\ y.enums[t] = added /\ \A u \in DOMAIN x.enums \ {t} : y.enums[u] = x.enums[u]
    BY <1>4, <2>2 DEF IsCatalog
  <2> HIDE DEF y, added, list, longer
  <2>4. IsCatalog(y)
    <3>1. \A u \in DOMAIN y.enums : y.enums[u] \in Seq(Nat) \ {<<>>}
      <4>1. added \in Seq(Nat) \ {<<>>} BY <1>7, <1>10
      <4>2. \A u \in DOMAIN x.enums : x.enums[u] \in Seq(Nat) \ {<<>>} BY DEF IsCatalog
      <4> QED BY <2>3, <4>1, <4>2
    <3>2. \A i \in y.indexes : i.table \in DOMAIN y.tables BY <2>2 DEF IsCatalog
    <3>3. \A k \in y.keys : k.table \in DOMAIN y.tables BY <2>2 DEF IsCatalog
    <3>4. /\ y.tables = [u \in DOMAIN y.tables |-> y.tables[u]]
          /\ \A u \in DOMAIN y.tables : y.tables[u] = [d \in DOMAIN y.tables[u] |-> y.tables[u][d]]
          /\ \A u \in DOMAIN y.tables : \A d \in DOMAIN y.tables[u] : HasAttributes(y.tables[u][d])
      BY <2>2 DEF IsCatalog
    <3> QED BY <2>2, <2>3, <3>1, <3>2, <3>3, <3>4 DEF IsCatalog
  <2>5. \A u \in DOMAIN x.enums \ {t} : Extended(y, n, u) <=> Extended(x, n, u)
    BY <2>3 DEF Extended
  <2>6. Extended(y, n, t) BY <1>6, <1>7, <1>10, <2>3 DEF Extended, longer
  <2>7. Both(y) = Both(x) BY <1>4, <2>3, <2>5, <2>6
  <2>8. Swapped(y, n) = Swapped(x, n) BY <1>4, <2>3, <2>5, <2>6 DEF Swapped
  <2>9. Longer(y, t) = Longer(x, t) \ {c}
    <3>1. Longer(y, t) = {[table |-> t, at |-> i] : i \in a + 1 .. Len(longer)}
      BY <1>7, <1>10, <2>3 DEF longer
    <3>2. Longer(x, t) = {[table |-> t, at |-> i] : i \in a .. Len(longer)}
      BY <1>10 DEF longer, list
    <3>3. a + 1 .. Len(longer) = (a .. Len(longer)) \ {a} BY <1>6
    <3> HIDE DEF Longer
    <3> QED BY <1>3, <3>1, <3>2, <3>3
  <2>10. \A u \in Both(x) \ {t} : Longer(y, u) = Longer(x, u) /\ c \notin Longer(x, u)
    BY <1>4, <2>3
  <2>11. Changes(y, n, "add-enum-value") = Changes(x, n, "add-enum-value") \ {c}
    <3> HIDE DEF Both, Longer
    <3> QED BY <1>1, <1>2, <2>7, <2>9, <2>10
  <2>12. Changes(y, n, "drop-enum") = Changes(x, n, "drop-enum")
         /\ Changes(y, n, "create-enum") = Changes(x, n, "create-enum")
    BY <2>3, <2>8 DEF Changes
  <2>13. ASSUME NEW other \in ChangeKinds \ {"add-enum-value"}
         PROVE  Changes(y, n, other) = Changes(x, n, other)
    BY <2>2, <2>12, KindsOfChanges, SameTables, SameIndexes, SameKeys DEF KindsOfEnums
  <2> QED BY <2>2, <2>4, <2>11, <2>13 DEF Lessens
<1> QED BY <1>3, <1>4, <1>6, <1>8, <1>9, <1>10

(* The differences between the tables, table by table.                     *)
LessColumns(z, n, t) == {[table |-> t, column |-> d] : d \in DOMAIN z.tables[t] \ DOMAIN n.tables[t]}
MoreColumns(z, n, t) == {[table |-> t, column |-> d] : d \in DOMAIN n.tables[t] \ DOMAIN z.tables[t]}
Differing(z, n, t, attribute) ==
    {[table |-> t, column |-> d, to |-> n.tables[t][d][attribute]] :
       d \in {e \in DOMAIN z.tables[t] \cap DOMAIN n.tables[t] :
                z.tables[t][e][attribute] # n.tables[t][e][attribute]}}

LEMMA TablesInOne ==
    ASSUME NEW z, NEW n
    PROVE  /\ Changes(z, n, "drop-table") = {[table |-> t] : t \in DOMAIN z.tables \ DOMAIN n.tables}
           /\ Changes(z, n, "create-table") = {[table |-> t] : t \in DOMAIN n.tables \ DOMAIN z.tables}
BY DEF Changes

LEMMA TableChanges ==
    ASSUME NEW z, NEW n
    PROVE  /\ Changes(z, n, "drop-column") = UNION {LessColumns(z, n, t) : t \in Common(z, n)}
           /\ Changes(z, n, "add-column") = UNION {MoreColumns(z, n, t) : t \in Common(z, n)}
           /\ Changes(z, n, "alter-column-type") = UNION {Differing(z, n, t, "type") : t \in Common(z, n)}
           /\ Changes(z, n, "alter-column-nullability") = UNION {Differing(z, n, t, "nullable") : t \in Common(z, n)}
           /\ Changes(z, n, "alter-column-default") = UNION {Differing(z, n, t, "default") : t \in Common(z, n)}
<1>1. \A attribute : Altered(z, n, attribute) = UNION {Differing(z, n, t, attribute) : t \in Common(z, n)}
  BY DEF Altered, Differing, ColumnsOf
<1>2. Changes(z, n, "drop-column") = UNION {LessColumns(z, n, t) : t \in Common(z, n)}
  BY DEF Changes, LessColumns, ColumnsOf
<1>3. Changes(z, n, "add-column") = UNION {MoreColumns(z, n, t) : t \in Common(z, n)}
  BY DEF Changes, MoreColumns, ColumnsOf
<1>4. /\ Changes(z, n, "alter-column-type") = Altered(z, n, "type")
      /\ Changes(z, n, "alter-column-nullability") = Altered(z, n, "nullable")
      /\ Changes(z, n, "alter-column-default") = Altered(z, n, "default")
  BY DEF Changes
<1> QED BY <1>1, <1>2, <1>3, <1>4

(* One table of x is another in y, and one difference of one kind goes.    *)
DifferencesOf(z, n, t, kind) ==
    CASE kind = "drop-column" -> LessColumns(z, n, t)
      [] kind = "add-column" -> MoreColumns(z, n, t)
      [] kind = "alter-column-type" -> Differing(z, n, t, "type")
      [] kind = "alter-column-nullability" -> Differing(z, n, t, "nullable")
      [] kind = "alter-column-default" -> Differing(z, n, t, "default")
KindsOfColumns == {"drop-column", "add-column", "alter-column-type", "alter-column-nullability", "alter-column-default"}

LEMMA ColumnChanges ==
    ASSUME NEW z, NEW n, NEW kind \in KindsOfColumns
    PROVE  Changes(z, n, kind) = UNION {DifferencesOf(z, n, t, kind) : t \in Common(z, n)}
<1>1. CASE kind = "drop-column"
  <2>1. \A t : DifferencesOf(z, n, t, kind) = LessColumns(z, n, t) BY <1>1 DEF DifferencesOf
  <2> QED BY <1>1, <2>1, TableChanges
<1>2. CASE kind = "add-column"
  <2>1. \A t : DifferencesOf(z, n, t, kind) = MoreColumns(z, n, t) BY <1>2 DEF DifferencesOf
  <2> QED BY <1>2, <2>1, TableChanges
<1>3. CASE kind = "alter-column-type"
  <2>1. \A t : DifferencesOf(z, n, t, kind) = Differing(z, n, t, "type") BY <1>3 DEF DifferencesOf
  <2> QED BY <1>3, <2>1, TableChanges
<1>4. CASE kind = "alter-column-nullability"
  <2>1. \A t : DifferencesOf(z, n, t, kind) = Differing(z, n, t, "nullable") BY <1>4 DEF DifferencesOf
  <2> QED BY <1>4, <2>1, TableChanges
<1>5. CASE kind = "alter-column-default"
  <2>1. \A t : DifferencesOf(z, n, t, kind) = Differing(z, n, t, "default") BY <1>5 DEF DifferencesOf
  <2> QED BY <1>5, <2>1, TableChanges
<1> QED BY <1>1, <1>2, <1>3, <1>4, <1>5 DEF KindsOfColumns

LEMMA DifferencesAreOfTheirTable ==
    ASSUME NEW z, NEW n, NEW t, NEW kind \in KindsOfColumns, NEW c \in DifferencesOf(z, n, t, kind)
    PROVE  c.table = t /\ c.column \in DOMAIN z.tables[t] \cup DOMAIN n.tables[t]
<1>1. CASE kind = "drop-column" BY <1>1 DEF DifferencesOf, LessColumns
<1>2. CASE kind = "add-column" BY <1>2 DEF DifferencesOf, MoreColumns
<1>3. CASE kind \in KindsOfColumns \ {"drop-column", "add-column"}
  <2>1. PICK attribute : c \in Differing(z, n, t, attribute) BY <1>3 DEF DifferencesOf, KindsOfColumns
  <2> QED BY <2>1 DEF Differing
<1> QED BY <1>1, <1>2, <1>3 DEF KindsOfColumns

LEMMA SameTable ==
    ASSUME NEW x, NEW y, NEW n, NEW t, y.tables[t] = x.tables[t], NEW kind
    PROVE  DifferencesOf(y, n, t, kind) = DifferencesOf(x, n, t, kind)
<1>1. LessColumns(y, n, t) = LessColumns(x, n, t) BY DEF LessColumns
<1>2. MoreColumns(y, n, t) = MoreColumns(x, n, t) BY DEF MoreColumns
<1>3. \A attribute : Differing(y, n, t, attribute) = Differing(x, n, t, attribute) BY DEF Differing
<1> QED BY <1>1, <1>2, <1>3 DEF DifferencesOf

ChangesTable(x, y, n, kind, c, t, columns) ==
    /\ c \in DifferencesOf(x, n, t, kind)
    /\ columns = [d \in DOMAIN columns |-> columns[d]]
    /\ \A d \in DOMAIN columns : HasAttributes(columns[d])
    /\ y = [x EXCEPT !.tables = [@ EXCEPT ![t] = columns]]
    /\ DifferencesOf(y, n, t, kind) = DifferencesOf(x, n, t, kind) \ {c}
    /\ \A other \in KindsOfColumns \ {kind} : DifferencesOf(y, n, t, other) = DifferencesOf(x, n, t, other)

LEMMA OneTableChanges ==
    ASSUME NEW x, NEW y, NEW n, IsCatalog(x), NEW kind \in KindsOfColumns, NEW c, NEW t \in Common(x, n),
           NEW columns, ChangesTable(x, y, n, kind, c, t, columns)
    PROVE  Lessens(x, y, n, kind, c)
<1>0. /\ c \in DifferencesOf(x, n, t, kind)
      /\ columns = [d \in DOMAIN columns |-> columns[d]]
      /\ \A d \in DOMAIN columns : HasAttributes(columns[d])
      /\ y = [x EXCEPT !.tables = [@ EXCEPT ![t] = columns]]
  BY DEF ChangesTable
<1>1. /\ y.tables = [x.tables EXCEPT ![t] = columns]
      /\ y.enums = x.enums /\ y.indexes = x.indexes /\ y.keys = x.keys
      /\ y = [tables |-> y.tables, enums |-> y.enums, indexes |-> y.indexes, keys |-> y.keys]
  BY <1>0 DEF IsCatalog
<1>2. /\ DOMAIN y.tables = DOMAIN x.tables /\ y.tables = [u \in DOMAIN y.tables |-> y.tables[u]]
      /\ y.tables[t] = columns /\ \A u \in DOMAIN x.tables \ {t} : y.tables[u] = x.tables[u]
  BY <1>1 DEF IsCatalog, Common
<1>3. IsCatalog(y)
  <2>1. \A u \in DOMAIN y.tables : /\ y.tables[u] = [d \in DOMAIN y.tables[u] |-> y.tables[u][d]]
                                   /\ \A d \in DOMAIN y.tables[u] : HasAttributes(y.tables[u][d])
    <3> TAKE u \in DOMAIN y.tables
    <3>1. CASE u = t BY <1>0, <1>2, <3>1
    <3>2. CASE u # t BY <1>2, <3>2 DEF IsCatalog
    <3> QED BY <3>1, <3>2
  <2>2. /\ y.enums = [u \in DOMAIN y.enums |-> y.enums[u]]
        /\ \A u \in DOMAIN y.enums : y.enums[u] \in Seq(Nat) \ {<<>>}
        /\ \A i \in y.indexes : i.table \in DOMAIN y.tables
        /\ \A k \in y.keys : k.table \in DOMAIN y.tables
    BY <1>1, <1>2 DEF IsCatalog
  <2> QED BY <1>1, <1>2, <2>1, <2>2 DEF IsCatalog
<1>4. Common(y, n) = Common(x, n) BY <1>2 DEF Common
<1>5. \A other \in KindsOfColumns : \A u \in Common(x, n) \ {t} :
         DifferencesOf(y, n, u, other) = DifferencesOf(x, n, u, other)
  <2> TAKE other \in KindsOfColumns
  <2> TAKE u \in Common(x, n) \ {t}
  <2>1. y.tables[u] = x.tables[u] BY <1>2 DEF Common
  <2> QED BY <2>1, SameTable
<1>6. \A u \in Common(x, n) \ {t} : c \notin DifferencesOf(x, n, u, kind)
  BY <1>0, DifferencesAreOfTheirTable
<1>7. Changes(y, n, kind) = Changes(x, n, kind) \ {c}
  <2>1. Changes(y, n, kind) = UNION {DifferencesOf(y, n, u, kind) : u \in Common(x, n)}
    BY <1>4, ColumnChanges
  <2>2. Changes(x, n, kind) = UNION {DifferencesOf(x, n, u, kind) : u \in Common(x, n)}
    BY ColumnChanges
  <2>3. DifferencesOf(y, n, t, kind) = DifferencesOf(x, n, t, kind) \ {c} BY DEF ChangesTable
  <2>4. \A e : e \in Changes(y, n, kind) <=> \E u \in Common(x, n) : e \in DifferencesOf(y, n, u, kind)
    BY <2>1
  <2>5. \A e : e \in Changes(x, n, kind) <=> \E u \in Common(x, n) : e \in DifferencesOf(x, n, u, kind)
    BY <2>2
  <2>6. \A e : (\E u \in Common(x, n) : e \in DifferencesOf(y, n, u, kind))
                <=> e # c /\ \E u \in Common(x, n) : e \in DifferencesOf(x, n, u, kind)
    BY <1>5, <1>6, <2>3
  <2> QED BY <2>4, <2>5, <2>6
<1>8. ASSUME NEW other \in KindsOfColumns \ {kind} PROVE Changes(y, n, other) = Changes(x, n, other)
  <2>1. Changes(y, n, other) = UNION {DifferencesOf(y, n, u, other) : u \in Common(x, n)}
    BY <1>4, ColumnChanges
  <2>2. Changes(x, n, other) = UNION {DifferencesOf(x, n, u, other) : u \in Common(x, n)}
    BY ColumnChanges
  <2>3. DifferencesOf(y, n, t, other) = DifferencesOf(x, n, t, other) BY DEF ChangesTable
  <2>4. \A u \in Common(x, n) : DifferencesOf(y, n, u, other) = DifferencesOf(x, n, u, other)
    BY <1>5, <2>3
  <2>5. {DifferencesOf(y, n, u, other) : u \in Common(x, n)} = {DifferencesOf(x, n, u, other) : u \in Common(x, n)}
    BY <2>4
  <2> QED BY <2>1, <2>2, <2>5
<1>9. Changes(y, n, "drop-table") = Changes(x, n, "drop-table")
      /\ Changes(y, n, "create-table") = Changes(x, n, "create-table")
  <2>1. DOMAIN y.tables \ DOMAIN n.tables = DOMAIN x.tables \ DOMAIN n.tables
        /\ DOMAIN n.tables \ DOMAIN y.tables = DOMAIN n.tables \ DOMAIN x.tables
    BY <1>2
  <2>2. {[table |-> u] : u \in DOMAIN y.tables \ DOMAIN n.tables}
        = {[table |-> u] : u \in DOMAIN x.tables \ DOMAIN n.tables}
    BY <2>1
  <2>3. {[table |-> u] : u \in DOMAIN n.tables \ DOMAIN y.tables}
        = {[table |-> u] : u \in DOMAIN n.tables \ DOMAIN x.tables}
    BY <2>1
  <2>4. Changes(y, n, "drop-table") = Changes(x, n, "drop-table") BY <2>2, TablesInOne
  <2>5. Changes(y, n, "create-table") = Changes(x, n, "create-table") BY <2>3, TablesInOne
  <2> QED BY <2>4, <2>5
<1>10. ASSUME NEW other \in ChangeKinds \ {kind} PROVE Changes(y, n, other) = Changes(x, n, other)
  <2>1. CASE other \in KindsOfTables BY <1>8, <1>9, <2>1 DEF KindsOfTables, KindsOfColumns
  <2>2. CASE other \in KindsOfEnums BY <1>1, <2>2, SameEnums
  <2>3. CASE other \in KindsOfIndexes BY <1>1, <2>3, SameIndexes
  <2>4. CASE other \in KindsOfKeys BY <1>1, <2>4, SameKeys
  <2> QED BY <2>1, <2>2, <2>3, <2>4, KindsOfChanges
<1> QED BY <1>1, <1>3, <1>7, <1>10 DEF Lessens

LEMMA AddsColumn ==
    ASSUME NEW x, NEW n, IsCatalog(x), IsCatalog(n), IsCoherent(n), NEW c \in Changes(x, n, "add-column"),
           Changes(x, n, "create-enum") = {}, ~NeedsReview(n, "add-column", c)
    PROVE  /\ Accepts(x, n, "add-column", c)
           /\ Lessens(x, Applied(x, n, "add-column", c), n, "add-column", c)
<1> DEFINE y == Applied(x, n, "add-column", c)
<1>1. PICK t \in Common(x, n) : c \in MoreColumns(x, n, t) BY TableChanges
<1>2. PICK d \in DOMAIN n.tables[t] \ DOMAIN x.tables[t] : c = [table |-> t, column |-> d]
  BY <1>1 DEF MoreColumns
<1>3. t \in DOMAIN x.tables /\ t \in DOMAIN n.tables BY DEF Common
<1>4. DOMAIN n.enums \subseteq DOMAIN x.enums
  <2>1. \A u \in DOMAIN n.enums \ DOMAIN x.enums : [table |-> u] \in Changes(x, n, "create-enum")
    BY DEF Changes
  <2> QED BY <2>1
<1>5. d = "kind" => t \in DOMAIN x.enums
  BY <1>2, <1>3, <1>4 DEF IsCoherent
<1>6. Fillable(n.tables[t][d]) BY <1>2 DEF NeedsReview
<1>7. Accepts(x, n, "add-column", c)
  BY <1>2, <1>3, <1>5, <1>6 DEF Accepts, ColumnsOf
<1> DEFINE columns == Added(x.tables[t], d, n.tables[t][d])
<1>8. y = [x EXCEPT !.tables = [@ EXCEPT ![t] = columns]] BY <1>2 DEF Applied
<1>9. /\ columns = [e \in DOMAIN columns |-> columns[e]]
      /\ DOMAIN columns = DOMAIN x.tables[t] \cup {d}
      /\ columns[d] = n.tables[t][d] /\ \A e \in DOMAIN x.tables[t] : columns[e] = x.tables[t][e]
  BY <1>2 DEF Added
<1>10. y.tables[t] = columns BY <1>3, <1>8 DEF IsCatalog
<1> HIDE DEF y, columns
<1>11. \A e \in DOMAIN columns : HasAttributes(columns[e])
  BY <1>2, <1>3, <1>9 DEF IsCatalog
<1>12. DifferencesOf(y, n, t, "add-column") = DifferencesOf(x, n, t, "add-column") \ {c}
  <2>1. MoreColumns(y, n, t) = MoreColumns(x, n, t) \ {c}
    BY <1>2, <1>9, <1>10 DEF MoreColumns
  <2> QED BY <2>1 DEF DifferencesOf
<1>13. ASSUME NEW other \in KindsOfColumns \ {"add-column"}
       PROVE  DifferencesOf(y, n, t, other) = DifferencesOf(x, n, t, other)
  <2>1. LessColumns(y, n, t) = LessColumns(x, n, t) BY <1>2, <1>9, <1>10 DEF LessColumns
  <2>2. \A attribute : Differing(y, n, t, attribute) = Differing(x, n, t, attribute)
    <3> TAKE attribute
    <3>1. {e \in DOMAIN y.tables[t] \cap DOMAIN n.tables[t] : y.tables[t][e][attribute] # n.tables[t][e][attribute]}
          = {e \in DOMAIN x.tables[t] \cap DOMAIN n.tables[t] : x.tables[t][e][attribute] # n.tables[t][e][attribute]}
      BY <1>2, <1>9, <1>10
    <3> QED BY <3>1 DEF Differing
  <2> QED BY <2>1, <2>2 DEF DifferencesOf, KindsOfColumns
<1>14. c \in DifferencesOf(x, n, t, "add-column") BY <1>1 DEF DifferencesOf
<1>15. "add-column" \in KindsOfColumns BY DEF KindsOfColumns
<1>16. Lessens(x, y, n, "add-column", c)
  <2>1. ChangesTable(x, y, n, "add-column", c, t, columns)
    BY <1>8, <1>9, <1>11, <1>12, <1>13, <1>14 DEF ChangesTable
  <2> QED BY <1>15, <2>1, OneTableChanges
<1> QED BY <1>7, <1>16 DEF y

LEMMA DropsColumn ==
    ASSUME NEW x, NEW n, IsCatalog(x), IsCatalog(n), IsCoherent(n), NEW c \in Changes(x, n, "drop-column"),
           Changes(x, n, "drop-index") = {}, Changes(x, n, "drop-foreign-key") = {}
    PROVE  /\ Accepts(x, n, "drop-column", c)
           /\ Lessens(x, Applied(x, n, "drop-column", c), n, "drop-column", c)
<1> DEFINE y == Applied(x, n, "drop-column", c)
<1>1. PICK t \in Common(x, n) : c \in LessColumns(x, n, t) BY TableChanges
<1>2. PICK d \in DOMAIN x.tables[t] \ DOMAIN n.tables[t] : c = [table |-> t, column |-> d]
  BY <1>1 DEF LessColumns
<1>3. t \in DOMAIN x.tables /\ t \in DOMAIN n.tables BY DEF Common
<1>4. Accepts(x, n, "drop-column", c)
  BY <1>2, <1>3 DEF Accepts, ColumnsOf
<1>5. \A i \in x.indexes : ~(i.table = t /\ d \in IndexColumns(i))
  <2> SUFFICES ASSUME NEW i \in x.indexes, i.table = t, d \in IndexColumns(i) PROVE FALSE
    OBVIOUS
  <2>1. i \in n.indexes BY <1>3 DEF Changes
  <2> QED BY <1>2, <2>1 DEF IsCoherent
<1>6. \A k \in x.keys : ~(k.table = t /\ d = "ref")
  <2> SUFFICES ASSUME NEW k \in x.keys, k.table = t, d = "ref" PROVE FALSE
    OBVIOUS
  <2>1. k \notin Changes(x, n, "drop-foreign-key") OBVIOUS
  <2>2. PICK m \in n.keys : SameKey(k, m) BY <1>3, <2>1 DEF Changes
  <2> QED BY <1>2, <2>2 DEF SameKey, IsCoherent
<1> DEFINE columns == Dropped(x.tables[t], d)
<1>7. y = [x EXCEPT !.tables = [@ EXCEPT ![t] = columns],
                    !.indexes = {i \in @ : ~(i.table = t /\ d \in IndexColumns(i))},
                    !.keys = {k \in @ : ~(k.table = t /\ d = "ref")}]
  BY <1>2 DEF Applied
<1>8. /\ columns = [e \in DOMAIN columns |-> columns[e]]
      /\ DOMAIN columns = DOMAIN x.tables[t] \ {d}
      /\ \A e \in DOMAIN columns : columns[e] = x.tables[t][e]
  BY DEF Dropped
<1> HIDE DEF y, columns
<1>9. y = [x EXCEPT !.tables = [@ EXCEPT ![t] = columns]]
  <2>1. {i \in x.indexes : ~(i.table = t /\ d \in IndexColumns(i))} = x.indexes BY <1>5
  <2>2. {k \in x.keys : ~(k.table = t /\ d = "ref")} = x.keys BY <1>6
  <2>3. y = [x EXCEPT !.tables = [@ EXCEPT ![t] = columns], !.indexes = x.indexes, !.keys = x.keys]
    BY <1>7, <2>1, <2>2
  <2> QED BY <2>3 DEF IsCatalog
<1>10. y.tables[t] = columns BY <1>3, <1>9 DEF IsCatalog
<1>11. \A e \in DOMAIN columns : HasAttributes(columns[e])
  BY <1>3, <1>8 DEF IsCatalog
<1>12. DifferencesOf(y, n, t, "drop-column") = DifferencesOf(x, n, t, "drop-column") \ {c}
  <2>1. LessColumns(y, n, t) = LessColumns(x, n, t) \ {c}
    BY <1>2, <1>8, <1>10 DEF LessColumns
  <2> QED BY <2>1 DEF DifferencesOf
<1>13. ASSUME NEW other \in KindsOfColumns \ {"drop-column"}
       PROVE  DifferencesOf(y, n, t, other) = DifferencesOf(x, n, t, other)
  <2>1. MoreColumns(y, n, t) = MoreColumns(x, n, t) BY <1>2, <1>8, <1>10 DEF MoreColumns
  <2>2. \A attribute : Differing(y, n, t, attribute) = Differing(x, n, t, attribute)
    <3> TAKE attribute
    <3>1. {e \in DOMAIN y.tables[t] \cap DOMAIN n.tables[t] : y.tables[t][e][attribute] # n.tables[t][e][attribute]}
          = {e \in DOMAIN x.tables[t] \cap DOMAIN n.tables[t] : x.tables[t][e][attribute] # n.tables[t][e][attribute]}
      BY <1>2, <1>8, <1>10
    <3> QED BY <3>1 DEF Differing
  <2> QED BY <2>1, <2>2 DEF DifferencesOf, KindsOfColumns
<1>14. c \in DifferencesOf(x, n, t, "drop-column") BY <1>1 DEF DifferencesOf
<1>15. "drop-column" \in KindsOfColumns BY DEF KindsOfColumns
<1>16. Lessens(x, y, n, "drop-column", c)
  <2>1. ChangesTable(x, y, n, "drop-column", c, t, columns)
    BY <1>8, <1>9, <1>11, <1>12, <1>13, <1>14 DEF ChangesTable
  <2> QED BY <1>15, <2>1, OneTableChanges
<1> QED BY <1>4, <1>16 DEF y

(* The alterations: of an attribute, to what it is in the next snapshot.   *)
LEMMA AltersColumn ==
    ASSUME NEW x, NEW n, IsCatalog(x), IsCatalog(n), NEW t \in Common(x, n),
           NEW kind \in {"alter-column-nullability", "alter-column-default"},
           NEW c \in DifferencesOf(x, n, t, kind)
    PROVE  /\ ~NeedsReview(n, kind, c) => Accepts(x, n, kind, c)
           /\ Lessens(x, Applied(x, n, kind, c), n, kind, c)
<1> DEFINE y == Applied(x, n, kind, c)
           attribute == IF kind = "alter-column-nullability" THEN "nullable" ELSE "default"
<1>1. t \in DOMAIN x.tables /\ t \in DOMAIN n.tables BY DEF Common
<1>2. c \in Differing(x, n, t, attribute) BY DEF DifferencesOf
<1> HIDE DEF attribute
<1>3. PICK d \in DOMAIN x.tables[t] \cap DOMAIN n.tables[t] :
          /\ x.tables[t][d][attribute] # n.tables[t][d][attribute]
          /\ c = [table |-> t, column |-> d, to |-> n.tables[t][d][attribute]]
  BY <1>2 DEF Differing
<1>4. ~NeedsReview(n, kind, c) => Accepts(x, n, kind, c)
  BY <1>1, <1>3 DEF Accepts, ColumnsOf, NeedsReview
<1> DEFINE new == n.tables[t][d][attribute]
           column == [x.tables[t][d] EXCEPT ![attribute] = new]
           columns == [x.tables[t] EXCEPT ![d] = column]
<1>5. y = [x EXCEPT !.tables = [@ EXCEPT ![t] = columns]]
  <2>1. CASE kind = "alter-column-nullability"
    <3>1. attribute = "nullable" BY <2>1 DEF attribute
    <3> QED BY <1>3, <2>1, <3>1 DEF Applied
  <2>2. CASE kind = "alter-column-default"
    <3>1. attribute = "default" BY <2>2 DEF attribute
    <3> QED BY <1>3, <2>2, <3>1 DEF Applied
  <2> QED BY <2>1, <2>2
<1>6. HasAttributes(x.tables[t][d]) /\ attribute \in {"nullable", "default"}
  BY <1>1, <1>3 DEF IsCatalog, attribute
<1>7. /\ HasAttributes(column) /\ column[attribute] = new
      /\ \A a \in {"type", "nullable", "default"} \ {attribute} : column[a] = x.tables[t][d][a]
  BY <1>6 DEF HasAttributes
<1>8. /\ columns = [e \in DOMAIN columns |-> columns[e]]
      /\ DOMAIN columns = DOMAIN x.tables[t]
      /\ columns[d] = column /\ \A e \in DOMAIN columns \ {d} : columns[e] = x.tables[t][e]
  BY <1>1, <1>3 DEF IsCatalog
<1> HIDE DEF y, columns, column
<1>9. y.tables[t] = columns BY <1>1, <1>5 DEF IsCatalog
<1>10. \A e \in DOMAIN columns : HasAttributes(columns[e])
  BY <1>1, <1>7, <1>8 DEF IsCatalog
<1>11. Differing(y, n, t, attribute) = Differing(x, n, t, attribute) \ {c}
  <2> DEFINE D(z) == {e \in DOMAIN z.tables[t] \cap DOMAIN n.tables[t] :
                        z.tables[t][e][attribute] # n.tables[t][e][attribute]}
  <2>1. D(y) = D(x) \ {d} BY <1>3, <1>7, <1>8, <1>9
  <2>2. d \in D(x) BY <1>3
  <2>3. Differing(y, n, t, attribute) = {[table |-> t, column |-> e, to |-> n.tables[t][e][attribute]] : e \in D(y)}
        /\ Differing(x, n, t, attribute) = {[table |-> t, column |-> e, to |-> n.tables[t][e][attribute]] : e \in D(x)}
    BY DEF Differing
  <2> HIDE DEF D
  <2> QED BY <1>3, <2>1, <2>2, <2>3
<1>12. \A a \in {"type", "nullable", "default"} \ {attribute} : Differing(y, n, t, a) = Differing(x, n, t, a)
  <2> TAKE a \in {"type", "nullable", "default"} \ {attribute}
  <2>1. {e \in DOMAIN y.tables[t] \cap DOMAIN n.tables[t] : y.tables[t][e][a] # n.tables[t][e][a]}
        = {e \in DOMAIN x.tables[t] \cap DOMAIN n.tables[t] : x.tables[t][e][a] # n.tables[t][e][a]}
    BY <1>3, <1>7, <1>8, <1>9
  <2> QED BY <2>1 DEF Differing
<1>13. LessColumns(y, n, t) = LessColumns(x, n, t) /\ MoreColumns(y, n, t) = MoreColumns(x, n, t)
  BY <1>8, <1>9 DEF LessColumns, MoreColumns
<1>14. DifferencesOf(y, n, t, kind) = DifferencesOf(x, n, t, kind) \ {c}
  BY <1>11 DEF DifferencesOf, attribute
<1>15. ASSUME NEW other \in KindsOfColumns \ {kind}
       PROVE  DifferencesOf(y, n, t, other) = DifferencesOf(x, n, t, other)
  <2>1. CASE kind = "alter-column-nullability"
    <3>1. attribute = "nullable" BY <2>1 DEF attribute
    <3> QED BY <1>12, <1>13, <2>1, <3>1 DEF DifferencesOf, KindsOfColumns
  <2>2. CASE kind = "alter-column-default"
    <3>1. attribute = "default" BY <2>2 DEF attribute
    <3> QED BY <1>12, <1>13, <2>2, <3>1 DEF DifferencesOf, KindsOfColumns
  <2> QED BY <2>1, <2>2
<1>16. kind \in KindsOfColumns BY DEF KindsOfColumns
<1>17. Lessens(x, y, n, kind, c)
  <2>1. ChangesTable(x, y, n, kind, c, t, columns)
    BY <1>5, <1>8, <1>10, <1>14, <1>15 DEF ChangesTable
  <2> QED BY <1>16, <2>1, OneTableChanges
<1> QED BY <1>4, <1>17 DEF y

LEMMA CreatesTable ==
    ASSUME NEW x, NEW n, IsCatalog(x), IsCatalog(n), IsCoherent(n), NEW c \in Changes(x, n, "create-table"),
           Changes(x, n, "create-enum") = {}
    PROVE  /\ Accepts(x, n, "create-table", c)
           /\ Lessens(x, Applied(x, n, "create-table", c), n, "create-table", c)
<1> DEFINE y == Applied(x, n, "create-table", c)
<1>1. PICK t \in DOMAIN n.tables \ DOMAIN x.tables : c = [table |-> t] BY TablesInOne
<1>2. DOMAIN n.enums \subseteq DOMAIN x.enums
  <2>1. \A u \in DOMAIN n.enums \ DOMAIN x.enums : [table |-> u] \in Changes(x, n, "create-enum")
    BY DEF Changes
  <2> QED BY <2>1
<1>3. Accepts(x, n, "create-table", c)
  <2>1. "kind" \in ColumnsOf(n, t) => t \in DOMAIN x.enums BY <1>1, <1>2 DEF IsCoherent, ColumnsOf
  <2> QED BY <1>1, <2>1 DEF Accepts
<1>4. y = [x EXCEPT !.tables = Added(@, t, n.tables[t])] BY <1>1 DEF Applied
<1>5. /\ y.tables = Added(x.tables, t, n.tables[t])
      /\ y.enums = x.enums /\ y.indexes = x.indexes /\ y.keys = x.keys
      /\ y = [tables |-> y.tables, enums |-> y.enums, indexes |-> y.indexes, keys |-> y.keys]
  BY <1>4 DEF IsCatalog
<1>6. /\ DOMAIN y.tables = DOMAIN x.tables \cup {t} /\ y.tables = [u \in DOMAIN y.tables |-> y.tables[u]]
      /\ y.tables[t] = n.tables[t] /\ \A u \in DOMAIN x.tables : y.tables[u] = x.tables[u]
  BY <1>1, <1>5 DEF Added
<1> HIDE DEF y
<1>7. IsCatalog(y) BY <1>1, <1>5, <1>6 DEF IsCatalog
<1>8. Changes(y, n, "create-table") = Changes(x, n, "create-table") \ {c}
  BY <1>1, <1>6, TablesInOne
<1>9. Changes(y, n, "drop-table") = Changes(x, n, "drop-table")
  <2>1. DOMAIN y.tables \ DOMAIN n.tables = DOMAIN x.tables \ DOMAIN n.tables BY <1>1, <1>6
  <2>2. {[table |-> u] : u \in DOMAIN y.tables \ DOMAIN n.tables}
        = {[table |-> u] : u \in DOMAIN x.tables \ DOMAIN n.tables}
    BY <2>1
  <2> QED BY <2>2, TablesInOne
<1>10. ASSUME NEW other \in KindsOfColumns PROVE Changes(y, n, other) = Changes(x, n, other)
  <2>1. Common(y, n) = Common(x, n) \cup {t} BY <1>1, <1>6 DEF Common
  <2>2. DifferencesOf(y, n, t, other) = {}
    BY <1>6 DEF DifferencesOf, LessColumns, MoreColumns, Differing, KindsOfColumns
  <2>3. \A u \in Common(x, n) : DifferencesOf(y, n, u, other) = DifferencesOf(x, n, u, other)
    <3> TAKE u \in Common(x, n)
    <3>1. y.tables[u] = x.tables[u] BY <1>6 DEF Common
    <3> QED BY <3>1, SameTable
  <2>4. Changes(y, n, other) = UNION {DifferencesOf(y, n, u, other) : u \in Common(y, n)}
        /\ Changes(x, n, other) = UNION {DifferencesOf(x, n, u, other) : u \in Common(x, n)}
    BY ColumnChanges
  <2> QED BY <2>1, <2>2, <2>3, <2>4
<1>11. ASSUME NEW other \in ChangeKinds \ {"create-table"} PROVE Changes(y, n, other) = Changes(x, n, other)
  BY <1>5, <1>9, <1>10, KindsOfChanges, SameEnums, SameIndexes, SameKeys DEF KindsOfTables, KindsOfColumns
<1> QED BY <1>3, <1>5, <1>7, <1>8, <1>11 DEF Lessens, y

(* A table is refused only while one that goes too refers to it.           *)
LEMMA DropsTable ==
    ASSUME NEW x, NEW n, IsCatalog(x), IsCatalog(n), IsCoherent(n), NEW c \in Changes(x, n, "drop-table"),
           Changes(x, n, "drop-foreign-key") = {}
    PROVE  /\ ~Accepts(x, n, "drop-table", c) =>
                \E k \in x.keys : /\ k.table # c.table /\ k.key.target = c.table
                                  /\ k.table \notin DOMAIN n.tables
                                  /\ [table |-> k.table] \in Changes(x, n, "drop-table")
           /\ Lessens(x, Applied(x, n, "drop-table", c), n, "drop-table", c)
<1> DEFINE y == Applied(x, n, "drop-table", c)
<1>1. PICK t \in DOMAIN x.tables \ DOMAIN n.tables : c = [table |-> t] BY TablesInOne
<1>2. ASSUME ~Accepts(x, n, "drop-table", c)
      PROVE  \E k \in x.keys : /\ k.table # t /\ k.key.target = t
                               /\ k.table \notin DOMAIN n.tables
                               /\ [table |-> k.table] \in Changes(x, n, "drop-table")
  <2>1. PICK k \in x.keys : k.table # t /\ k.key.target = t BY <1>1, <1>2 DEF Accepts
  <2>2. k.table \notin DOMAIN n.tables
    <3> SUFFICES ASSUME k.table \in DOMAIN n.tables PROVE FALSE
      OBVIOUS
    <3>1. k \notin Changes(x, n, "drop-foreign-key") OBVIOUS
    <3>2. PICK m \in n.keys : SameKey(k, m) BY <3>1 DEF Changes
    <3> QED BY <1>1, <2>1, <3>2 DEF SameKey, IsCoherent
  <2>3. [table |-> k.table] \in Changes(x, n, "drop-table") BY <2>2, TablesInOne DEF IsCatalog
  <2> QED BY <2>1, <2>2, <2>3
<1>3. y = [x EXCEPT !.tables = Dropped(@, t), !.indexes = {i \in @ : i.table # t}, !.keys = {k \in @ : k.table # t}]
  BY <1>1 DEF Applied
<1>4. /\ y.tables = Dropped(x.tables, t) /\ y.enums = x.enums
      /\ y.indexes = {i \in x.indexes : i.table # t} /\ y.keys = {k \in x.keys : k.table # t}
      /\ y = [tables |-> y.tables, enums |-> y.enums, indexes |-> y.indexes, keys |-> y.keys]
  BY <1>3 DEF IsCatalog
<1>5. /\ DOMAIN y.tables = DOMAIN x.tables \ {t} /\ y.tables = [u \in DOMAIN y.tables |-> y.tables[u]]
      /\ \A u \in DOMAIN y.tables : y.tables[u] = x.tables[u]
  BY <1>4 DEF Dropped
<1> HIDE DEF y
<1>6. IsCatalog(y) BY <1>4, <1>5 DEF IsCatalog
<1>7. Changes(y, n, "drop-table") = Changes(x, n, "drop-table") \ {c}
  BY <1>1, <1>5, TablesInOne
<1>8. Changes(y, n, "create-table") = Changes(x, n, "create-table")
  <2>1. DOMAIN n.tables \ DOMAIN y.tables = DOMAIN n.tables \ DOMAIN x.tables BY <1>1, <1>5
  <2>2. {[table |-> u] : u \in DOMAIN n.tables \ DOMAIN y.tables}
        = {[table |-> u] : u \in DOMAIN n.tables \ DOMAIN x.tables}
    BY <2>1
  <2> QED BY <2>2, TablesInOne
<1>9. ASSUME NEW other \in KindsOfColumns PROVE Changes(y, n, other) = Changes(x, n, other)
  <2>1. Common(y, n) = Common(x, n) BY <1>1, <1>5 DEF Common
  <2>2. \A u \in Common(x, n) : DifferencesOf(y, n, u, other) = DifferencesOf(x, n, u, other)
    <3> TAKE u \in Common(x, n)
    <3>1. y.tables[u] = x.tables[u] BY <1>1, <1>5 DEF Common
    <3> QED BY <3>1, SameTable
  <2>3. Changes(y, n, other) = UNION {DifferencesOf(y, n, u, other) : u \in Common(y, n)}
        /\ Changes(x, n, other) = UNION {DifferencesOf(x, n, u, other) : u \in Common(x, n)}
    BY ColumnChanges
  <2> QED BY <2>1, <2>2, <2>3
<1>10. ASSUME NEW other \in KindsOfIndexes PROVE Changes(y, n, other) = Changes(x, n, other)
  <2>1. CASE other = "drop-index" BY <1>1, <1>4, <2>1 DEF Changes
  <2>2. CASE other = "add-index"
    <3>1. \A i \in n.indexes : i.table # t BY <1>1 DEF IsCatalog
    <3> QED BY <1>4, <2>2, <3>1 DEF Changes
  <2> QED BY <2>1, <2>2 DEF KindsOfIndexes
<1>11. ASSUME NEW other \in KindsOfKeys PROVE Changes(y, n, other) = Changes(x, n, other)
  <2>1. CASE other = "drop-foreign-key" BY <1>1, <1>4, <2>1 DEF Changes
  <2>2. CASE other = "add-foreign-key"
    <3>1. \A k \in n.keys : k.table # t BY <1>1 DEF IsCatalog
    <3>2. \A k \in n.keys : (\E j \in y.keys : SameKey(j, k)) <=> (\E j \in x.keys : SameKey(j, k))
      BY <1>4, <3>1 DEF SameKey
    <3> QED BY <2>2, <3>2 DEF Changes
  <2> QED BY <2>1, <2>2 DEF KindsOfKeys
<1>12. ASSUME NEW other \in ChangeKinds \ {"drop-table"} PROVE Changes(y, n, other) = Changes(x, n, other)
  BY <1>4, <1>8, <1>9, <1>10, <1>11, KindsOfChanges, SameEnums DEF KindsOfTables, KindsOfColumns
<1>13. c.table = t BY <1>1
<1> QED BY <1>2, <1>4, <1>6, <1>7, <1>12, <1>13 DEF Lessens, y

(* A catalog that nothing distinguishes from a snapshot is that.           *)
LEMMA NothingLeft ==
    ASSUME NEW x, NEW n, IsCatalog(x), IsCatalog(n), IsCoherent(n), \A kind \in ChangeKinds : Changes(x, n, kind) = {},
           \A k \in x.keys : k = [table |-> k.table, key |-> k.key]
    PROVE  x = n
<1>1. \A kind \in KindsOfTables \cup KindsOfEnums \cup KindsOfIndexes \cup KindsOfKeys : Changes(x, n, kind) = {}
  BY KindsOfChanges
<1>2. DOMAIN x.tables = DOMAIN n.tables
  <2>1. Changes(x, n, "drop-table") = {} /\ Changes(x, n, "create-table") = {} BY <1>1 DEF KindsOfTables
  <2>2. \A t \in DOMAIN x.tables \ DOMAIN n.tables : [table |-> t] \in Changes(x, n, "drop-table")
    BY TablesInOne
  <2>3. \A t \in DOMAIN n.tables \ DOMAIN x.tables : [table |-> t] \in Changes(x, n, "create-table")
    BY TablesInOne
  <2> QED BY <2>1, <2>2, <2>3
<1>3. x.tables = n.tables
  <2>1. \A kind \in KindsOfColumns : Changes(x, n, kind) = {} BY <1>1 DEF KindsOfTables, KindsOfColumns
  <2>2. ASSUME NEW t \in DOMAIN x.tables PROVE x.tables[t] = n.tables[t]
    <3>1. t \in Common(x, n) BY <1>2 DEF Common
    <3>2. \A kind \in KindsOfColumns : DifferencesOf(x, n, t, kind) = {}
      <4> TAKE kind \in KindsOfColumns
      <4>1. Changes(x, n, kind) = UNION {DifferencesOf(x, n, u, kind) : u \in Common(x, n)} BY ColumnChanges
      <4> QED BY <2>1, <3>1, <4>1
    <3>3. LessColumns(x, n, t) = {} /\ MoreColumns(x, n, t) = {}
      BY <3>2 DEF DifferencesOf, KindsOfColumns
    <3>4. Differing(x, n, t, "type") = {} /\ Differing(x, n, t, "nullable") = {} /\ Differing(x, n, t, "default") = {}
      BY <3>2 DEF DifferencesOf, KindsOfColumns
    <3>5. DOMAIN x.tables[t] = DOMAIN n.tables[t] BY <3>3 DEF LessColumns, MoreColumns
    <3>6. ASSUME NEW d \in DOMAIN x.tables[t] PROVE x.tables[t][d] = n.tables[t][d]
      <4>1. x.tables[t][d]["type"] = n.tables[t][d]["type"] BY <3>4, <3>5 DEF Differing
      <4>2. x.tables[t][d]["nullable"] = n.tables[t][d]["nullable"] BY <3>4, <3>5 DEF Differing
      <4>3. x.tables[t][d]["default"] = n.tables[t][d]["default"] BY <3>4, <3>5 DEF Differing
      <4>4. HasAttributes(x.tables[t][d]) /\ HasAttributes(n.tables[t][d]) BY <1>2, <3>5 DEF IsCatalog
      <4> QED BY <4>1, <4>2, <4>3, <4>4 DEF HasAttributes
    <3> QED BY <1>2, <3>5, <3>6 DEF IsCatalog
  <2> QED BY <1>2, <2>2 DEF IsCatalog
<1>4. x.enums = n.enums
  <2>1. Changes(x, n, "drop-enum") = {} /\ Changes(x, n, "create-enum") = {} /\ Changes(x, n, "add-enum-value") = {}
    BY <1>1 DEF KindsOfEnums
  <2>2. DOMAIN x.enums = DOMAIN n.enums /\ Swapped(x, n) = {}
    <3>1. \A t \in (DOMAIN x.enums \ DOMAIN n.enums) \cup Swapped(x, n) :
             [table |-> t] \in Changes(x, n, "drop-enum")
      BY DEF Changes
    <3>2. \A t \in DOMAIN n.enums \ DOMAIN x.enums : [table |-> t] \in Changes(x, n, "create-enum")
      BY DEF Changes
    <3> QED BY <2>1, <3>1, <3>2
  <2>3. ASSUME NEW t \in DOMAIN x.enums PROVE x.enums[t] = n.enums[t]
    <3>1. x.enums[t] \in Seq(Nat) /\ n.enums[t] \in Seq(Nat) BY <2>2 DEF IsCatalog
    <3>2. Extended(x, n, t) BY <2>2 DEF Swapped
    <3>3. {[table |-> t, at |-> i] : i \in Len(x.enums[t]) + 1 .. Len(n.enums[t])} = {}
      BY <2>1, <2>2, <3>2 DEF Changes
    <3>4. Len(x.enums[t]) \in Nat /\ Len(n.enums[t]) \in Nat BY <3>1, LenProperties
    <3>5. Len(x.enums[t]) + 1 \notin Len(x.enums[t]) + 1 .. Len(n.enums[t]) BY <3>3
    <3>6. Len(x.enums[t]) = Len(n.enums[t]) BY <3>2, <3>4, <3>5 DEF Extended
    <3> QED BY <3>1, <3>2, <3>6, SeqEqual DEF Extended
  <2> QED BY <2>2, <2>3 DEF IsCatalog
<1>5. x.indexes = n.indexes
  <2>1. Changes(x, n, "drop-index") = {} /\ Changes(x, n, "add-index") = {} BY <1>1 DEF KindsOfIndexes
  <2>2. \A i \in x.indexes : i.table \in DOMAIN n.tables BY <1>2 DEF IsCatalog
  <2> QED BY <2>1, <2>2 DEF Changes
<1>6. x.keys = n.keys
  <2>1. Changes(x, n, "drop-foreign-key") = {} /\ Changes(x, n, "add-foreign-key") = {} BY <1>1 DEF KindsOfKeys
  <2>2. \A k \in x.keys : k.table \in DOMAIN n.tables BY <1>2 DEF IsCatalog
  <2>3. \A k \in x.keys : \E m \in n.keys : SameKey(k, m) BY <2>1, <2>2 DEF Changes
  <2>4. \A m \in n.keys : \E k \in x.keys : SameKey(k, m) BY <2>1 DEF Changes
  <2>5. \A k \in x.keys, m \in n.keys : SameKey(k, m) => k = m
    <3> TAKE k \in x.keys, m \in n.keys
    <3>1. m = [table |-> m.table, key |-> m.key] BY DEF IsCoherent
    <3>2. k = [table |-> k.table, key |-> k.key] OBVIOUS
    <3> HAVE SameKey(k, m)
    <3>3. k.table = m.table /\ k.key = m.key BY DEF SameKey
    <3>4. [table |-> k.table, key |-> k.key] = [table |-> m.table, key |-> m.key] BY <3>3
    <3> QED BY <3>1, <3>2, <3>4, Zenon
  <2>6. ASSUME NEW k \in x.keys PROVE k \in n.keys
    <3>1. PICK m \in n.keys : SameKey(k, m) BY <2>3
    <3>2. k = m BY <2>5, <3>1
    <3> QED BY <3>2
  <2>7. ASSUME NEW m \in n.keys PROVE m \in x.keys
    <3>1. PICK k \in x.keys : SameKey(k, m) BY <2>4
    <3>2. k = m BY <2>5, <3>1
    <3> QED BY <3>2
  <2> QED BY <2>6, <2>7
<1> QED BY <1>3, <1>4, <1>5, <1>6 DEF IsCatalog

-----------------------------------------------------------------------------
(* What must be done before the statements of a kind.                      *)
IsReady(x, n, kind) ==
    /\ kind = "drop-column" => Changes(x, n, "drop-index") = {} /\ Changes(x, n, "drop-foreign-key") = {}
    /\ kind = "drop-table" => Changes(x, n, "drop-foreign-key") = {}
    /\ kind = "create-enum" => Changes(x, n, "drop-enum") = {}
    /\ kind \in {"create-table", "add-column"} => Changes(x, n, "create-enum") = {}
    /\ kind \in {"add-index", "add-foreign-key"} =>
         Changes(x, n, "create-table") = {} /\ Changes(x, n, "add-column") = {}
    /\ kind = "add-foreign-key" => Changes(x, n, "drop-foreign-key") = {}

LEMMA StatementLessens ==
    ASSUME NEW x, NEW n, IsCatalog(x), IsCatalog(n), IsCoherent(n), NEW kind \in ChangeKinds,
           NEW c \in Changes(x, n, kind), IsReady(x, n, kind), ~NeedsReview(n, kind, c)
    PROVE  /\ ~Accepts(x, n, kind, c) => kind \in {"drop-table", "add-enum-value"}
           /\ Accepts(x, n, kind, c) => Lessens(x, Applied(x, n, kind, c), n, kind, c)
<1>1. CASE kind = "drop-foreign-key" BY <1>1, DropsKey
<1>2. CASE kind = "drop-index" BY <1>2, DropsIndex
<1>3. CASE kind = "drop-column" BY <1>3, DropsColumn DEF IsReady
<1>4. CASE kind = "drop-table" BY <1>4, DropsTable DEF IsReady
<1>5. CASE kind \in {"drop-enum", "alter-column-type"} BY <1>5 DEF NeedsReview
<1>6. CASE kind = "create-enum" BY <1>6, CreatesEnum DEF IsReady
<1>7. CASE kind = "create-table" BY <1>7, CreatesTable DEF IsReady
<1>8. CASE kind \in {"alter-column-nullability", "alter-column-default"}
  <2>1. kind \in KindsOfColumns BY <1>8 DEF KindsOfColumns
  <2>2. Changes(x, n, kind) = UNION {DifferencesOf(x, n, t, kind) : t \in Common(x, n)}
    BY <2>1, ColumnChanges
  <2>3. PICK t \in Common(x, n) : c \in DifferencesOf(x, n, t, kind) BY <2>2
  <2> QED BY <1>8, <2>3, AltersColumn
<1>9. CASE kind = "add-column" BY <1>9, AddsColumn DEF IsReady
<1>10. CASE kind = "add-index" BY <1>10, AddsIndex DEF IsReady
<1>11. CASE kind = "add-foreign-key" BY <1>11, AddsKey DEF IsReady
<1>12. CASE kind = "add-enum-value" BY <1>12, AddsValue
<1> QED BY <1>1, <1>2, <1>3, <1>4, <1>5, <1>6, <1>7, <1>8, <1>9, <1>10, <1>11, <1>12, KindsOfChanges
        DEF KindsOfTables, KindsOfEnums, KindsOfIndexes, KindsOfKeys

-----------------------------------------------------------------------------
(* While a migration runs, what it has left to do is what distinguishes    *)
(* the database from the snapshot it leads to.                             *)
InitialKinds == {InitialOrder[i] : i \in DOMAIN InitialOrder}

Underway(m, p) ==
    LET n == Snapshots[m.next]
    IN  /\ m = [next |-> m.next, order |-> m.order, batch |-> m.batch, db |-> m.db, left |-> m.left]
        /\ m.next \in Schemas
        /\ m.order \in {KindOrder, InitialOrder}
        /\ m.order = InitialOrder => \A kind \in ChangeKinds \ InitialKinds : m.left[kind] = {}
        /\ m.left = [kind \in ChangeKinds |-> Changes(m.db, n, kind)]
        /\ \A kind \in ChangeKinds : m.left[kind] \subseteq Changes(p, n, kind)
        /\ Emitted(p, n)
        /\ IsCatalog(m.db) /\ m.db.keys \subseteq p.keys \cup n.keys

SchemaIInv ==
    /\ SchemaTypeOK
    /\ deployed = "none" => schema = NoSchema
    /\ deployed # "refused" => catalog = Snapshots[schema]
    /\ deployed = "running" => Underway(migration, Snapshots[schema])

LEMMA SnapshotEnums ==
    ASSUME NEW s \in Schemas
    PROVE  Snapshots[s].enums \in UNION {[T -> EnumLists \ {<<>>}] : T \in SUBSET Tables}
<1> DEFINE n == Snapshots[s]
<1>1. /\ IsCatalog(n) /\ DOMAIN n.tables = DOMAIN s
      /\ \A t \in DOMAIN n.enums : t \in DOMAIN s /\ n.enums[t] = s[t].kind /\ n.enums[t] \in EnumLists \ {<<>>}
  BY SnapshotOK
<1>2. DOMAIN s \subseteq Tables BY SchemaRows
<1> HIDE DEF n
<1>3. n.enums \in [DOMAIN n.enums -> EnumLists \ {<<>>}] BY <1>1 DEF IsCatalog
<1>4. DOMAIN n.enums \in SUBSET Tables BY <1>1, <1>2
<1> QED BY <1>3, <1>4 DEF n

LEMMA NoSchemaIsOne == NoSchema \in Schemas
<1>1. NoSchema = [t \in {} |-> NoRef] /\ DOMAIN NoSchema = {} BY DEF NoSchema
<1>2. \A Rowed : NoSchema \in [{} -> Rowed] BY <1>1
<1>3. {} \in SUBSET Tables OBVIOUS
<1>4. Admissible(NoSchema) BY <1>1 DEF Admissible
<1>5. NoSchema \in UNION {[T -> UNION {EntityRow(t) : t \in Tables}] : T \in SUBSET Tables}
  BY <1>2, <1>3
<1> QED BY <1>1, <1>4, <1>5 DEF Schemas

LEMMA InitialKindsAre == InitialKinds = {"create-enum", "create-table", "add-index", "add-foreign-key"}
<1>1. DOMAIN InitialOrder = 1 .. 4 BY DEF InitialOrder
<1>2. InitialKinds = {InitialOrder[1], InitialOrder[2], InitialOrder[3], InitialOrder[4]}
  BY <1>1 DEF InitialKinds
<1> QED BY <1>2 DEF InitialOrder

(* From an empty database there is only something to create.               *)
LEMMA FromNothing ==
    ASSUME NEW n, NEW kind \in ChangeKinds \ InitialKinds
    PROVE  Changes(Snapshots[NoSchema], n, kind) = {}
<1> DEFINE p == Snapshots[NoSchema]
<1>1. NoSchema \in Schemas BY NoSchemaIsOne
<1>2. p = Snapshot(NoSchema) BY <1>1, SnapshotIs
<1>3. DOMAIN NoSchema = {} BY DEF NoSchema
<1>4. DOMAIN p.tables = {} /\ DOMAIN p.enums = {} /\ p.indexes = {} /\ p.keys = {}
  BY <1>2, <1>3 DEF Snapshot
<1> HIDE DEF p
<1>5. Common(p, n) = {} /\ Swapped(p, n) = {} BY <1>4 DEF Common, Swapped
<1>6. \A attribute : Altered(p, n, attribute) = {} BY <1>5 DEF Altered
<1>8. CASE kind = "drop-foreign-key" BY <1>4, <1>8 DEF Changes, p
<1>9. CASE kind = "drop-index" BY <1>4, <1>9 DEF Changes, p
<1>10. CASE kind = "drop-column" BY <1>5, <1>10 DEF Changes, p
<1>11. CASE kind = "drop-table" BY <1>4, <1>11 DEF Changes, p
<1>12. CASE kind = "drop-enum" BY <1>4, <1>5, <1>12 DEF Changes, p
<1>13. CASE kind \in {"alter-column-type", "alter-column-nullability", "alter-column-default"}
  BY <1>6, <1>13 DEF Changes, p
<1>14. CASE kind = "add-column" BY <1>5, <1>14 DEF Changes, p
<1>15. CASE kind = "add-enum-value" BY <1>4, <1>15 DEF Changes, p
<1> QED BY InitialKindsAre, <1>8, <1>9, <1>10, <1>11, <1>12, <1>13, <1>14, <1>15, KindsOfChanges
        DEF KindsOfTables, KindsOfEnums, KindsOfIndexes, KindsOfKeys
LEMMA Positions ==
    /\ \A i \in DOMAIN KindOrder :
         /\ KindOrder[i] = "drop-column" => i = 3
         /\ KindOrder[i] = "drop-table" => i = 4
         /\ KindOrder[i] = "create-enum" => i = 6
         /\ KindOrder[i] = "create-table" => i = 7
         /\ KindOrder[i] = "add-column" => i = 11
         /\ KindOrder[i] = "add-index" => i = 12
         /\ KindOrder[i] = "add-foreign-key" => i = 13
    /\ \A i \in DOMAIN InitialOrder :
         /\ InitialOrder[i] = "create-table" => i = 2
         /\ InitialOrder[i] = "add-index" => i = 3
         /\ InitialOrder[i] = "add-foreign-key" => i = 4
<1>1. DOMAIN KindOrder = 1 .. 14 BY DEF KindOrder
<1>2. DOMAIN InitialOrder = 1 .. 4 BY DEF InitialOrder
<1>3. ASSUME NEW i \in 1 .. 14
      PROVE  /\ KindOrder[i] = "drop-column" => i = 3
             /\ KindOrder[i] = "drop-table" => i = 4
             /\ KindOrder[i] = "create-enum" => i = 6
             /\ KindOrder[i] = "create-table" => i = 7
             /\ KindOrder[i] = "add-column" => i = 11
             /\ KindOrder[i] = "add-index" => i = 12
             /\ KindOrder[i] = "add-foreign-key" => i = 13
  <2>1. i = 1 \/ i = 2 \/ i = 3 \/ i = 4 \/ i = 5 \/ i = 6 \/ i = 7 \/ i = 8
        \/ i = 9 \/ i = 10 \/ i = 11 \/ i = 12 \/ i = 13 \/ i = 14
    OBVIOUS
  <2> QED BY <2>1 DEF KindOrder
<1>4. ASSUME NEW i \in 1 .. 4
      PROVE  /\ InitialOrder[i] = "create-table" => i = 2
             /\ InitialOrder[i] = "add-index" => i = 3
             /\ InitialOrder[i] = "add-foreign-key" => i = 4
  <2>1. i = 1 \/ i = 2 \/ i = 3 \/ i = 4 OBVIOUS
  <2> QED BY <2>1 DEF InitialOrder
<1> QED BY <1>1, <1>2, <1>3, <1>4

(* A kind's turn comes only when what it needs is done.                    *)
LEMMA DueIsReady ==
    ASSUME NEW p, Underway(migration, p), NEW kind \in ChangeKinds, NEW c, IsDue(kind, c)
    PROVE  IsReady(migration.db, Snapshots[migration.next], kind)
<1> DEFINE n == Snapshots[migration.next]
           Left(k) == Changes(migration.db, n, k)
<1>1. /\ \A k \in ChangeKinds : migration.left[k] = Left(k)
      /\ migration.order \in {KindOrder, InitialOrder}
      /\ migration.order = InitialOrder => \A k \in ChangeKinds \ InitialKinds : migration.left[k] = {}
  BY DEF Underway
<1>2. PICK i \in DOMAIN migration.order :
        migration.order[i] = kind /\ \A j \in 1 .. i - 1 : migration.left[migration.order[j]] = {}
  BY DEF IsDue
<1>3. {"drop-foreign-key", "drop-index", "drop-enum", "create-enum", "create-table", "add-column"} \subseteq ChangeKinds
  BY KindsOfChanges DEF KindsOfTables, KindsOfEnums, KindsOfIndexes, KindsOfKeys
<1>4. /\ KindOrder[1] = "drop-foreign-key" /\ KindOrder[2] = "drop-index" /\ KindOrder[5] = "drop-enum"
      /\ KindOrder[6] = "create-enum" /\ KindOrder[7] = "create-table" /\ KindOrder[11] = "add-column"
      /\ InitialOrder[1] = "create-enum" /\ InitialOrder[2] = "create-table"
  BY DEF KindOrder, InitialOrder
<1>5. CASE migration.order = KindOrder
  <2>1. i \in DOMAIN KindOrder /\ KindOrder[i] = kind BY <1>2, <1>5
  <2>2. \A j \in 1 .. i - 1 : migration.left[KindOrder[j]] = {} BY <1>2, <1>5
  <2>3. kind = "drop-column" => Left("drop-index") = {} /\ Left("drop-foreign-key") = {}
    <3> HAVE kind = "drop-column"
    <3>1. i = 3 BY <2>1, Positions
    <3> QED BY <1>1, <1>3, <1>4, <2>2, <3>1
  <2>4. kind = "drop-table" => Left("drop-foreign-key") = {}
    <3> HAVE kind = "drop-table"
    <3>1. i = 4 BY <2>1, Positions
    <3> QED BY <1>1, <1>3, <1>4, <2>2, <3>1
  <2>5. kind = "create-enum" => Left("drop-enum") = {}
    <3> HAVE kind = "create-enum"
    <3>1. i = 6 BY <2>1, Positions
    <3> QED BY <1>1, <1>3, <1>4, <2>2, <3>1
  <2>6. kind \in {"create-table", "add-column"} => Left("create-enum") = {}
    <3> HAVE kind \in {"create-table", "add-column"}
    <3>1. i = 7 \/ i = 11 BY <2>1, Positions
    <3> QED BY <1>1, <1>3, <1>4, <2>2, <3>1
  <2>7. kind \in {"add-index", "add-foreign-key"} => Left("create-table") = {} /\ Left("add-column") = {}
    <3> HAVE kind \in {"add-index", "add-foreign-key"}
    <3>1. i = 12 \/ i = 13 BY <2>1, Positions
    <3> QED BY <1>1, <1>3, <1>4, <2>2, <3>1
  <2>8. kind = "add-foreign-key" => Left("drop-foreign-key") = {}
    <3> HAVE kind = "add-foreign-key"
    <3>1. i = 13 BY <2>1, Positions
    <3> QED BY <1>1, <1>3, <1>4, <2>2, <3>1
  <2> QED BY <2>3, <2>4, <2>5, <2>6, <2>7, <2>8 DEF IsReady
<1>6. CASE migration.order = InitialOrder
  <2>1. i \in DOMAIN InitialOrder /\ InitialOrder[i] = kind BY <1>2, <1>6
  <2>2. \A j \in 1 .. i - 1 : migration.left[InitialOrder[j]] = {} BY <1>2, <1>6
  <2>3. \A k \in {"drop-foreign-key", "drop-index", "drop-enum", "add-column"} : Left(k) = {}
    BY <1>1, <1>3, <1>6, InitialKindsAre
  <2>4. kind \in InitialKinds BY <2>1 DEF InitialKinds
  <2>5. kind = "create-table" => Left("create-enum") = {}
    <3> HAVE kind = "create-table"
    <3>1. i = 2 BY <2>1, Positions
    <3> QED BY <1>1, <1>3, <1>4, <2>2, <3>1
  <2>6. kind \in {"add-index", "add-foreign-key"} => Left("create-table") = {}
    <3> HAVE kind \in {"add-index", "add-foreign-key"}
    <3>1. i = 3 \/ i = 4 BY <2>1, Positions
    <3> QED BY <1>1, <1>3, <1>4, <2>2, <3>1
  <2>7. kind # "add-column" BY <2>4, InitialKindsAre
  <2> QED BY <2>3, <2>5, <2>6, <2>7 DEF IsReady
<1> QED BY <1>1, <1>5, <1>6

(* What is left of a kind is emitted, so its statement lessens the rest.   *)
LEMMA DueLessens ==
    ASSUME NEW p, Underway(migration, p), NEW kind \in ChangeKinds, NEW c \in migration.left[kind],
           IsDue(kind, c)
    PROVE  LET n == Snapshots[migration.next]
           IN  /\ c \in Changes(migration.db, n, kind)
               /\ ~Accepts(migration.db, n, kind, c) => kind \in {"drop-table", "add-enum-value"}
               /\ Accepts(migration.db, n, kind, c) =>
                     Lessens(migration.db, Applied(migration.db, n, kind, c), n, kind, c)
<1> DEFINE n == Snapshots[migration.next]
<1>1. /\ IsCatalog(migration.db) /\ migration.next \in Schemas /\ Emitted(p, n)
      /\ migration.left[kind] = Changes(migration.db, n, kind)
      /\ migration.left[kind] \subseteq Changes(p, n, kind)
  BY DEF Underway
<1>2. IsCatalog(n) /\ IsCoherent(n) BY <1>1, SnapshotOK
<1>3. IsReady(migration.db, n, kind) BY DueIsReady
<1>4. ~NeedsReview(n, kind, c) BY <1>1 DEF Emitted
<1> HIDE DEF n
<1>5. /\ ~Accepts(migration.db, n, kind, c) => kind \in {"drop-table", "add-enum-value"}
      /\ Accepts(migration.db, n, kind, c) => Lessens(migration.db, Applied(migration.db, n, kind, c), n, kind, c)
  BY <1>1, <1>2, <1>3, <1>4, StatementLessens
<1> QED BY <1>1, <1>5 DEF n
LEMMA SchemaInitIInv == SchemaInit => SchemaIInv
<1> SUFFICES ASSUME SchemaInit PROVE SchemaIInv
  OBVIOUS
<1>1. NoSchema \in Schemas BY NoSchemaIsOne
<1>2. schema = NoSchema /\ catalog = Snapshots[NoSchema] /\ deployed = "none" BY DEF SchemaInit
<1>3. SchemaTypeOK BY <1>1, <1>2, SnapshotEnums DEF SchemaTypeOK
<1> QED BY <1>2, <1>3 DEF SchemaIInv

LEMMA DeployUnderway ==
    ASSUME NEW next \in Schemas, NEW order \in {KindOrder, InitialOrder}, SchemaIInv, deployed # "refused",
           Deploy(next, order), Emitted(Snapshots[schema], Snapshots[next]),
           order = InitialOrder => schema = NoSchema
    PROVE  SchemaIInv'
<1> DEFINE p == Snapshots[schema]
           n == Snapshots[next]
<1>1. SchemaTypeOK /\ schema \in Schemas /\ catalog = p BY DEF SchemaIInv, SchemaTypeOK
<1>2. /\ schema' = schema /\ catalog' = catalog /\ deployed' = "running"
      /\ migration' = [next |-> next, order |-> order, batch |-> {}, db |-> catalog,
                       left |-> [kind \in ChangeKinds |-> Changes(p, n, kind)]]
  BY DEF Deploy
<1>3. /\ migration' = [next |-> migration'.next, order |-> migration'.order, batch |-> migration'.batch,
                       db |-> migration'.db, left |-> migration'.left]
      /\ migration'.next = next /\ migration'.order = order /\ migration'.db = p
      /\ migration'.left = [kind \in ChangeKinds |-> Changes(p, n, kind)]
  BY <1>1, <1>2
<1>4. IsCatalog(p) BY <1>1, SnapshotOK
<1>5. order = InitialOrder => \A kind \in ChangeKinds \ InitialKinds : migration'.left[kind] = {}
  BY <1>3, FromNothing
<1>6. \A kind \in ChangeKinds : migration'.left[kind] \subseteq Changes(p, n, kind) BY <1>3
<1> HIDE DEF p
<1>7. Underway(migration', p) BY <1>3, <1>4, <1>5, <1>6 DEF Underway, p
<1>8. SchemaTypeOK' BY <1>1, <1>2, <1>3 DEF SchemaTypeOK
<1> QED BY <1>1, <1>2, <1>7, <1>8 DEF SchemaIInv, p

LEMMA InitialIInv == SchemaIInv /\ InitialMigration => SchemaIInv'
<1> SUFFICES ASSUME SchemaIInv, InitialMigration PROVE SchemaIInv'
  OBVIOUS
<1>1. PICK next \in Schemas : Deploy(next, InitialOrder) BY DEF InitialMigration
<1>2. deployed = "none" /\ schema = NoSchema BY DEF InitialMigration, SchemaIInv
<1> DEFINE p == Snapshots[schema]
           n == Snapshots[next]
<1>3. \A kind \in ChangeKinds \ InitialKinds : Changes(p, n, kind) = {} BY <1>2, FromNothing
<1>4. ASSUME NEW kind \in ChangeKinds, NEW c \in Changes(p, n, kind) PROVE ~NeedsReview(n, kind, c)
  <2>1. kind \in {"create-enum", "create-table", "add-index", "add-foreign-key"} BY <1>3, InitialKindsAre
  <2> QED BY <2>1 DEF NeedsReview
<1>5. Changes(p, n, "add-enum-value") = {}
  <2>1. "add-enum-value" \in ChangeKinds \ InitialKinds
    BY KindsOfChanges, InitialKindsAre DEF KindsOfEnums
  <2> QED BY <1>3, <2>1
<1>6. Emitted(p, n) BY <1>4, <1>5 DEF Emitted
<1> QED BY <1>1, <1>2, <1>6, DeployUnderway

LEMMA IncrementalIInv == SchemaIInv /\ IncrementalMigration => SchemaIInv'
<1> SUFFICES ASSUME SchemaIInv, IncrementalMigration PROVE SchemaIInv'
  OBVIOUS
<1>1. PICK next \in Schemas \ {schema} :
        Emitted(Snapshots[schema], Snapshots[next]) /\ Deploy(next, KindOrder)
  BY DEF IncrementalMigration
<1>2. deployed \in {"yes", "forced"} BY DEF IncrementalMigration
<1>3. KindOrder # InitialOrder
  <2>1. KindOrder[1] # InitialOrder[1] BY DEF KindOrder, InitialOrder
  <2> QED BY <2>1
<1>4. deployed # "refused" BY <1>2
<1> QED BY <1>1, <1>3, <1>4, DeployUnderway

LEMMA StatementIInv ==
    ASSUME SchemaIInv, NEW kind \in ChangeKinds, NEW c \in migration.left[kind], RunStatement(kind, c)
    PROVE  SchemaIInv'
<1> DEFINE p == Snapshots[schema]
           n == Snapshots[migration.next]
           db == migration.db
           y == Applied(db, n, kind, c)
<1>1. IsDue(kind, c) /\ Accepts(db, n, kind, c) /\ deployed = "running" BY DEF RunStatement, IsDue
<1>2. Underway(migration, p) BY <1>1 DEF SchemaIInv
<1>3. Lessens(db, y, n, kind, c) BY <1>1, <1>2, DueLessens
<1>4. /\ schema' = schema /\ catalog' = catalog /\ deployed' = deployed
      /\ migration' = [migration EXCEPT
           !.db    = y,
           !.left[kind] = @ \ {c},
           !.batch = IF kind = "add-foreign-key" THEN Batch(kind, migration.left[kind]) ELSE {}]
  BY DEF RunStatement
<1>5. /\ migration = [next |-> migration.next, order |-> migration.order, batch |-> migration.batch,
                      db |-> migration.db, left |-> migration.left]
      /\ migration.next \in Schemas
      /\ migration.order \in {KindOrder, InitialOrder}
      /\ migration.order = InitialOrder => \A k \in ChangeKinds \ InitialKinds : migration.left[k] = {}
      /\ migration.left = [k \in ChangeKinds |-> Changes(db, n, k)]
      /\ \A k \in ChangeKinds : migration.left[k] \subseteq Changes(p, n, k)
      /\ Emitted(p, n)
      /\ db.keys \subseteq p.keys \cup n.keys
  BY <1>2 DEF Underway
<1> HIDE DEF p, y
<1>6. /\ migration' = [next |-> migration'.next, order |-> migration'.order, batch |-> migration'.batch,
                       db |-> migration'.db, left |-> migration'.left]
      /\ migration'.next = migration.next /\ migration'.order = migration.order /\ migration'.db = y
      /\ migration'.left = [migration.left EXCEPT ![kind] = @ \ {c}]
  <2> DEFINE batch == IF kind = "add-foreign-key" THEN Batch(kind, migration.left[kind]) ELSE {}
             left  == [migration.left EXCEPT ![kind] = @ \ {c}]
  <2>1. migration' = [migration EXCEPT !.db = y, !.left = left, !.batch = batch] BY <1>4
  <2> HIDE DEF batch, left, n, db
  <2>2. migration' = [next |-> migration.next, order |-> migration.order, batch |-> batch, db |-> y, left |-> left]
    BY <1>5, <2>1
  <2> QED BY <2>2 DEF left
<1>7. \A k \in ChangeKinds : migration'.left[k] = Changes(y, n, k)
  <2> TAKE k \in ChangeKinds
  <2>1. CASE k = kind BY <1>3, <1>5, <1>6, <2>1 DEF Lessens
  <2>2. CASE k # kind
    <3>1. Changes(y, n, k) = Changes(db, n, k) BY <1>3, <2>2 DEF Lessens
    <3> QED BY <1>5, <1>6, <2>2, <3>1
  <2> QED BY <2>1, <2>2
<1>8. migration'.left = [k \in ChangeKinds |-> Changes(y, n, k)]
  <2>1. DOMAIN migration'.left = ChangeKinds /\ migration'.left = [k \in ChangeKinds |-> migration'.left[k]]
    BY <1>5, <1>6
  <2> QED BY <1>7, <2>1
<1>9. \A k \in ChangeKinds : migration'.left[k] \subseteq migration.left[k] BY <1>5, <1>6
<1>10. IsCatalog(y) /\ y.keys \subseteq p.keys \cup n.keys BY <1>3, <1>5 DEF Lessens
<1>11. \A k \in ChangeKinds : migration'.left[k] \subseteq Changes(p, n, k) BY <1>5, <1>9
<1>12. migration'.order = InitialOrder => \A k \in ChangeKinds \ InitialKinds : migration'.left[k] = {}
  BY <1>5, <1>6, <1>9
<1>13. Snapshots[migration'.next] = n BY <1>6
<1> HIDE DEF n, db
<1>14. Underway(migration', p)
  BY <1>5, <1>6, <1>8, <1>10, <1>11, <1>12, <1>13 DEF Underway
<1>15. SchemaTypeOK' BY <1>1, <1>4, <1>5, <1>6 DEF SchemaIInv, SchemaTypeOK
<1>16. SchemaIInv'
  <2>1. p = Snapshots[schema'] BY <1>4 DEF p
  <2> QED BY <1>1, <1>4, <1>14, <1>15, <2>1 DEF SchemaIInv
<1> QED BY <1>16

LEMMA RollBackIInv ==
    ASSUME SchemaIInv, NEW kind, NEW c, RollBack(kind, c)
    PROVE  SchemaIInv'
<1>1. deployed = "running" /\ schema' = migration.next /\ deployed' = "refused" /\ catalog' = catalog
  BY DEF RollBack, IsDue
<1>2. SchemaTypeOK' BY <1>1 DEF SchemaIInv, SchemaTypeOK
<1> QED BY <1>1, <1>2 DEF SchemaIInv

(* When nothing is left, the database is as the snapshot says.             *)
LEMMA DoneIsNext ==
    ASSUME SchemaIInv, CommitMigration
    PROVE  migration.db = Snapshots[migration.next]
<1> DEFINE p == Snapshots[schema]
           n == Snapshots[migration.next]
<1>1. deployed = "running" /\ \A i \in DOMAIN migration.order : migration.left[migration.order[i]] = {}
  BY DEF CommitMigration
<1>2. Underway(migration, p) /\ schema \in Schemas BY <1>1 DEF SchemaIInv, SchemaTypeOK
<1>3. /\ migration.next \in Schemas
      /\ migration.order \in {KindOrder, InitialOrder}
      /\ migration.order = InitialOrder => \A k \in ChangeKinds \ InitialKinds : migration.left[k] = {}
      /\ \A k \in ChangeKinds : migration.left[k] = Changes(migration.db, n, k)
      /\ IsCatalog(migration.db) /\ migration.db.keys \subseteq p.keys \cup n.keys
  BY <1>2 DEF Underway
<1>4. \A kind \in ChangeKinds : migration.left[kind] = {}
  <2> TAKE kind \in ChangeKinds
  <2>1. CASE migration.order = KindOrder BY <1>1, <2>1 DEF ChangeKinds
  <2>2. CASE migration.order = InitialOrder BY <1>1, <1>3, <2>2 DEF InitialKinds
  <2> QED BY <1>3, <2>1, <2>2
<1>5. IsCoherent(p) /\ IsCatalog(n) /\ IsCoherent(n) BY <1>2, <1>3, SnapshotOK
<1>6. \A k \in migration.db.keys : k = [table |-> k.table, key |-> k.key] BY <1>3, <1>5 DEF IsCoherent
<1> HIDE DEF p, n
<1>7. \A kind \in ChangeKinds : Changes(migration.db, n, kind) = {} BY <1>3, <1>4
<1>8. migration.db = n BY <1>3, <1>5, <1>6, <1>7, NothingLeft
<1> QED BY <1>8 DEF n

LEMMA CommitIInv == SchemaIInv /\ CommitMigration => SchemaIInv'
<1> SUFFICES ASSUME SchemaIInv, CommitMigration PROVE SchemaIInv'
  OBVIOUS
<1>1. deployed = "running" /\ migration.next \in Schemas BY DEF CommitMigration, SchemaIInv, SchemaTypeOK
<1>2. schema' = migration.next /\ catalog' = Snapshots[migration.next] /\ deployed' \in {"forced", "yes"}
  BY DoneIsNext DEF CommitMigration
<1>3. catalog'.enums \in UNION {[T -> EnumLists \ {<<>>}] : T \in SUBSET Tables}
  BY <1>1, <1>2, SnapshotEnums
<1>4. SchemaTypeOK' BY <1>1, <1>2, <1>3 DEF SchemaTypeOK
<1> QED BY <1>2, <1>4 DEF SchemaIInv

LEMMA SchemaStepIInv == SchemaIInv /\ [SchemaNext]_schemaVars => SchemaIInv'
<1> SUFFICES ASSUME SchemaIInv, [SchemaNext]_schemaVars PROVE SchemaIInv'
  OBVIOUS
<1>1. CASE InitialMigration BY <1>1, InitialIInv
<1>2. CASE IncrementalMigration BY <1>2, IncrementalIInv
<1>3. ASSUME NEW kind \in ChangeKinds, NEW c \in migration.left[kind], RunStatement(kind, c) \/ RollBack(kind, c)
      PROVE  SchemaIInv'
  BY <1>3, StatementIInv, RollBackIInv
<1>4. CASE CommitMigration BY <1>4, CommitIInv
<1>5. CASE UNCHANGED schemaVars
  <2>1. schema' = schema /\ catalog' = catalog /\ deployed' = deployed /\ migration' = migration
    BY <1>5 DEF schemaVars
  <2> QED BY <2>1 DEF SchemaIInv, SchemaTypeOK
<1> QED BY <1>1, <1>2, <1>3, <1>4, <1>5 DEF SchemaNext

(* A migration only ever runs from one coherent schema to another, and     *)
(* what it knows of them has the form the code gives it.                   *)
(* buildSchemaSnapshot (schema-snapshot.ts).                               *)
THEOREM SchemaTyped == SchemaSpec => []SchemaTypeOK
<1>1. SchemaIInv => SchemaTypeOK BY DEF SchemaIInv
<1> QED BY <1>1, SchemaInitIInv, SchemaStepIInv, PTL DEF SchemaSpec

(* Why PostgreSQL refuses a migration: the order of two drops, or of two   *)
(* additions to an enum.                                                   *)
LEMMA RefusedForOrder ==
    ASSUME SchemaIInv, NEW kind \in ChangeKinds, NEW c \in migration.left[kind], RollBack(kind, c)
    PROVE  DropsRelated(schema, schema') \/ AddsOutOfOrder(schema, schema')
<1> DEFINE p == Snapshots[schema]
           n == Snapshots[migration.next]
           db == migration.db
<1>1. /\ IsDue(kind, c) /\ ~Accepts(db, n, kind, c) /\ deployed = "running"
      /\ schema' = migration.next
  BY DEF RollBack, IsDue
<1>2. Underway(migration, p) /\ schema \in Schemas BY <1>1 DEF SchemaIInv, SchemaTypeOK
<1>3. /\ migration.next \in Schemas
      /\ migration.left[kind] = Changes(db, n, kind)
      /\ migration.left[kind] \subseteq Changes(p, n, kind)
      /\ IsCatalog(db) /\ db.keys \subseteq p.keys \cup n.keys
  BY <1>2 DEF Underway
<1>4. /\ IsCatalog(p) /\ IsCoherent(p) /\ DOMAIN p.tables = DOMAIN schema /\ DOMAIN schema \subseteq Nat
      /\ \A t \in DOMAIN p.enums : t \in DOMAIN schema /\ p.enums[t] = schema[t].kind
      /\ \A k \in p.keys : schema[k.table].ref.to = k.key.target
  BY <1>2, SnapshotOK
<1>5. /\ IsCatalog(n) /\ IsCoherent(n) /\ DOMAIN n.tables = DOMAIN migration.next
      /\ \A t \in DOMAIN n.enums : t \in DOMAIN migration.next /\ n.enums[t] = migration.next[t].kind
  BY <1>3, SnapshotOK
<1>6. kind \in {"drop-table", "add-enum-value"} BY <1>1, <1>2, DueLessens
<1>7. \A d \in migration.left[kind] : ~Precedes(kind, d, c)
  <2>1. Batch(kind, migration.left[kind]) = {d.table : d \in migration.left[kind]} BY <1>6 DEF Batch
  <2> QED BY <1>1, <2>1 DEF IsDue
<1>8. CASE kind = "drop-table"
  <2>1. Changes(db, n, "drop-foreign-key") = {} BY <1>1, <1>2, <1>8, DueIsReady DEF IsReady
  <2>2. PICK k \in db.keys : /\ k.table # c.table /\ k.key.target = c.table
                             /\ k.table \notin DOMAIN n.tables
                             /\ [table |-> k.table] \in Changes(db, n, "drop-table")
    <3> HIDE DEF p, n, db
    <3> QED BY <1>1, <1>3, <1>5, <1>8, <2>1, DropsTable
  <2> DEFINE t == c.table
             u == k.table
  <2>3. [table |-> u] \in migration.left[kind] BY <1>3, <1>8, <2>2
  <2>4. \A d \in migration.left[kind] : d.table \in DOMAIN p.tables \ DOMAIN n.tables
    BY <1>3, <1>8, TablesInOne
  <2>5. t \in DOMAIN p.tables \ DOMAIN n.tables /\ u \in DOMAIN p.tables \ DOMAIN n.tables
    BY <2>3, <2>4
  <2>6. ~(u < t) BY <1>7, <2>3 DEF Precedes
  <2>7. t < u BY <1>4, <2>2, <2>5, <2>6
  <2>8. k \in p.keys BY <1>3, <1>5, <2>2 DEF IsCatalog
  <2>9. schema[u].ref.to = t BY <1>4, <2>2, <2>8
  <2>10. t \in DOMAIN schema \ DOMAIN schema' /\ u \in DOMAIN schema \ DOMAIN schema'
    BY <1>1, <1>4, <1>5, <2>5
  <2> HIDE DEF t, u
  <2> QED BY <2>7, <2>9, <2>10 DEF DropsRelated
<1>9. CASE kind = "add-enum-value"
  <2> DEFINE t == c.table
             i == Len(db.enums[t]) + 1
             j == c.at
             d == [table |-> t, at |-> i]
             longer == n.enums[t]
  <2>1. c \in Changes(db, n, "add-enum-value") BY <1>3, <1>9
  <2>2. /\ t \in DOMAIN db.enums \cap DOMAIN n.enums
        /\ j \in Len(db.enums[t]) + 1 .. Len(longer) /\ d \in Changes(db, n, "add-enum-value") /\ j # i
    <3> HIDE DEF p, n, db
    <3> QED BY <1>1, <1>3, <1>5, <1>9, <2>1, AddsValue DEF t, i, j, d, longer
  <2>3. d \in migration.left[kind] BY <1>3, <1>9, <2>2
  <2>4. c \in Changes(p, n, "add-enum-value") /\ d \in Changes(p, n, "add-enum-value")
    <3> HIDE DEF p, n, d
    <3> QED BY <1>3, <1>9, <2>3
  <2>5. ~(longer[i] < longer[j])
    <3>1. ~Precedes(kind, d, c) BY <1>7, <2>3
    <3> QED BY <1>9, <3>1 DEF Precedes
  <2>6. /\ db.enums[t] \in Seq(Nat) /\ longer \in Seq(Nat)
        /\ \A a, b \in DOMAIN longer : longer[a] = longer[b] => a = b
    <3> HIDE DEF p, n, db, t, d, i, j
    <3>1. t \in DOMAIN db.enums /\ t \in DOMAIN n.enums BY <2>2
    <3>2. db.enums[t] \in Seq(Nat) BY <1>3, <3>1 DEF IsCatalog
    <3>3. n.enums[t] \in Seq(Nat) BY <1>5, <3>1 DEF IsCatalog
    <3>4. \A a, b \in DOMAIN n.enums[t] : n.enums[t][a] = n.enums[t][b] => a = b BY <1>5, <3>1 DEF IsCoherent
    <3> QED BY <3>2, <3>3, <3>4
  <2>7. /\ t \in DOMAIN p.enums \cap DOMAIN n.enums
        /\ j \in Len(p.enums[t]) + 1 .. Len(longer) /\ i \in Len(p.enums[t]) + 1 .. Len(longer)
    <3>1. d.table = t /\ d.at = i OBVIOUS
    <3> HIDE DEF p, n, d
    <3>2. t \in DOMAIN p.enums \cap DOMAIN n.enums /\ j \in Len(p.enums[t]) + 1 .. Len(n.enums[t])
      BY <1>4, <1>5, <2>4, AddsValue
    <3>3. d.at \in Len(p.enums[d.table]) + 1 .. Len(n.enums[d.table])
      BY <1>4, <1>5, <2>4, AddsValue
    <3> QED BY <3>1, <3>2, <3>3
  <2>8. i < j /\ i \in DOMAIN longer /\ j \in DOMAIN longer
    <3> HIDE DEF longer, d, j, t, p, n, db
    <3>1. Len(db.enums[t]) \in Nat /\ Len(longer) \in Nat /\ DOMAIN longer = 1 .. Len(longer)
      BY <2>6, LenProperties
    <3>2. i < j
      <4>1. j \in i .. Len(longer) /\ j # i BY <2>2
      <4>2. i \in Nat BY <3>1
      <4> HIDE DEF i
      <4> QED BY <3>1, <4>1, <4>2
    <3>3. i \in 1 .. Len(longer) /\ j \in 1 .. Len(longer) BY <2>2, <3>1, <3>2
    <3> QED BY <3>1, <3>2, <3>3
  <2>9. longer[j] < longer[i]
    <3> HIDE DEF longer, i, j, d
    <3>1. longer[i] \in Nat /\ longer[j] \in Nat BY <2>6, <2>8, ElementOfSeq, LenProperties
    <3>2. longer[i] # longer[j] BY <2>2, <2>6, <2>8
    <3> QED BY <2>5, <3>1, <3>2
  <2>10. t \in DOMAIN schema \cap DOMAIN schema' /\ p.enums[t] = schema[t].kind /\ longer = schema'[t].kind
    BY <1>1, <1>4, <1>5, <2>7
  <2>11. /\ t \in DOMAIN schema \cap DOMAIN schema'
         /\ i \in Len(schema[t].kind) + 1 .. Len(schema'[t].kind)
         /\ j \in Len(schema[t].kind) + 1 .. Len(schema'[t].kind)
         /\ i < j /\ schema'[t].kind[j] < schema'[t].kind[i]
    <3> HIDE DEF p, n, longer, i, j, t
    <3> QED BY <2>7, <2>8, <2>9, <2>10
  <2> HIDE DEF p, n, db, longer, i, j, t
  <2> QED BY <2>11 DEF AddsOutOfOrder
<1> QED BY <1>6, <1>8, <1>9

(* What a migration that is not destructive keeps.                         *)
LEMMA NothingDestroyed ==
    ASSUME NEW p, NEW n, IsCatalog(p), IsCoherent(p), IsCatalog(n), IsCoherent(n), ~DestructiveChange(p, n)
    PROVE  /\ \A t \in DOMAIN p.tables : t \in DOMAIN n.tables /\ ColumnsOf(p, t) \subseteq ColumnsOf(n, t)
           /\ \A j \in p.keys, k \in n.keys :
                j.table = k.table /\ k.key.onDelete = "CASCADE" => j.key.onDelete = "CASCADE"
<1>1. /\ Changes(p, n, "drop-table") = {} /\ Changes(p, n, "drop-column") = {}
      /\ \A k \in Changes(p, n, "add-foreign-key") : ~(Recreated(p, k) /\ k.key.onDelete = "CASCADE")
  BY DEF DestructiveChange
<1>2. ASSUME NEW t \in DOMAIN p.tables
      PROVE  t \in DOMAIN n.tables /\ ColumnsOf(p, t) \subseteq ColumnsOf(n, t)
  <2>1. t \in DOMAIN n.tables
    <3>1. t \in DOMAIN p.tables \ DOMAIN n.tables => [table |-> t] \in Changes(p, n, "drop-table")
      BY TablesInOne
    <3> QED BY <1>1, <3>1
  <2>2. t \in Common(p, n) BY <2>1 DEF Common
  <2>3. LessColumns(p, n, t) = {} BY <1>1, <2>2, TableChanges
  <2> QED BY <2>1, <2>3 DEF LessColumns, ColumnsOf
<1>3. ASSUME NEW j \in p.keys, NEW k \in n.keys, j.table = k.table, k.key.onDelete = "CASCADE"
      PROVE  j.key.onDelete = "CASCADE"
  <2>1. CASE \E m \in p.keys : SameKey(m, k)
    <3>1. PICK m \in p.keys : m.table = k.table /\ m.key = k.key BY <2>1 DEF SameKey
    <3>2. m = j BY <1>3, <3>1 DEF IsCoherent
    <3> QED BY <1>3, <3>1, <3>2
  <2>2. CASE ~\E m \in p.keys : SameKey(m, k)
    <3>1. k \in Changes(p, n, "add-foreign-key") BY <2>2 DEF Changes
    <3>2. j.key.name = k.key.name BY DEF IsCoherent
    <3>3. Recreated(p, k) BY <1>3, <3>2 DEF Recreated
    <3> QED BY <1>1, <1>3, <3>1, <3>3
  <2> QED BY <2>1, <2>2
<1> QED BY <1>2, <1>3

(* Every migration that is emitted is accepted by PostgreSQL and leaves    *)
(* the database as the snapshot of the specification describes it, with    *)
(* all its columns and no new cascade unless the flag was given; but for   *)
(* tables dropped together before the ones that refer to them, and values  *)
(* of an enum that are not added in the order of the alphabet.  Rows that  *)
(* do not allow a unique index, or a key that now refers to another table, *)
(* are beyond it.  diffSchemas, changeSafety (schema-diff.ts).             *)
THEOREM MigrationAlwaysArrives == SchemaSpec => MigrationArrives
<1> DEFINE Arrives ==
      deployed = "running" /\ deployed' # "running" =>
         IF deployed' = "refused"
         THEN DropsRelated(schema, schema') \/ AddsOutOfOrder(schema, schema')
         ELSE /\ catalog' = Snapshots[schema']
              /\ deployed' = "yes" =>
                   /\ \A t \in DOMAIN catalog.tables :
                        t \in DOMAIN catalog'.tables /\ ColumnsOf(catalog, t) \subseteq ColumnsOf(catalog', t)
                   /\ \A j \in catalog.keys, k \in catalog'.keys :
                        j.table = k.table /\ k.key.onDelete = "CASCADE" => j.key.onDelete = "CASCADE"
<1>1. SchemaIInv /\ [SchemaNext]_schemaVars => [Arrives]_schemaVars
  <2> SUFFICES ASSUME SchemaIInv, SchemaNext PROVE Arrives
    OBVIOUS
  <2>1. CASE InitialMigration BY <2>1 DEF InitialMigration
  <2>2. CASE IncrementalMigration
    <3>1. deployed # "running" BY <2>2 DEF IncrementalMigration
    <3> QED BY <3>1
  <2>3. ASSUME NEW kind \in ChangeKinds, NEW c \in migration.left[kind], RunStatement(kind, c)
        PROVE  Arrives
    BY <2>3 DEF RunStatement
  <2>4. ASSUME NEW kind \in ChangeKinds, NEW c \in migration.left[kind], RollBack(kind, c)
        PROVE  Arrives
    <3>1. deployed' = "refused" BY <2>4 DEF RollBack
    <3> QED BY <2>4, <3>1, RefusedForOrder
  <2>5. CASE CommitMigration
    <3> DEFINE p == Snapshots[schema]
               n == Snapshots[migration.next]
    <3>1. /\ deployed = "running" /\ schema' = migration.next /\ catalog' = migration.db
          /\ deployed' = IF DestructiveChange(p, n) THEN "forced" ELSE "yes"
      BY <2>5 DEF CommitMigration
    <3>2. catalog = p /\ schema \in Schemas /\ migration.next \in Schemas
      BY <3>1 DEF SchemaIInv, SchemaTypeOK
    <3>3. catalog' = n BY <2>5, <3>1, DoneIsNext
    <3>4. IsCatalog(p) /\ IsCoherent(p) /\ IsCatalog(n) /\ IsCoherent(n) BY <3>2, SnapshotOK
    <3>5. Snapshots[schema'] = n BY <3>1
    <3> HIDE DEF p, n
    <3>6. ASSUME deployed' = "yes"
          PROVE  /\ \A t \in DOMAIN p.tables : t \in DOMAIN n.tables /\ ColumnsOf(p, t) \subseteq ColumnsOf(n, t)
                 /\ \A j \in p.keys, k \in n.keys :
                      j.table = k.table /\ k.key.onDelete = "CASCADE" => j.key.onDelete = "CASCADE"
      <4>1. ~DestructiveChange(p, n) BY <3>1, <3>6
      <4> QED BY <3>4, <4>1, NothingDestroyed
    <3> QED BY <3>1, <3>2, <3>3, <3>5, <3>6
  <2> QED BY <2>1, <2>2, <2>3, <2>4, <2>5 DEF SchemaNext
<1>2. QED
  BY <1>1, SchemaInitIInv, SchemaStepIInv, PTL DEF SchemaSpec, MigrationArrives
=============================================================================
