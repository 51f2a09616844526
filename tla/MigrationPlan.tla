--------------------------- MODULE MigrationPlan ---------------------------
(***************************************************************************)
(* How a list of schema changes becomes a plan, in the three engines.      *)
(* Each planner walks the changes once, keeping the schema as it would be, *)
(* what each field is called in the stored table (columns), which stored   *)
(* column its rows come from (source), what added fields are backfilled    *)
(* with (defaults) and the ALTERs to run (steps).  Checks on stored rows   *)
(* run before any step, so they must ask the old table for the column a    *)
(* renamed field came from.                                                *)
(*                                                                         *)
(* The three planners get the same changes at the same time.  `meant` is   *)
(* the reference: the changes applied one by one to the row itself.        *)
(*                                                                         *)
(* A table holds at most one row.  A stored column is <<name, attempt>>:   *)
(* attempt 0 is the name itself, a later one is a hashed name.             *)
(***************************************************************************)
EXTENDS Naturals, FiniteSets, Sequences

LOCAL INSTANCE SequencesExt
LOCAL INSTANCE Functions
LOCAL INSTANCE TLC

CONSTANTS
  PlanTables,   \* the tables a migration may find
  PlanChanges,  \* the changes a request may hold
  PlanLength,   \* bound: changes of one request, per table
  MaxFields     \* MaxFieldsPerTable

ASSUME PlanAssumption == PlanLength \in [PlanTables -> Nat \ {0}]

VARIABLES
  planTable,    \* the table as stored
  planStage,    \* "plan", "planned", "done"
  plans,        \* what each planner has worked out
  meant,        \* reference: what the fields of the row hold
  planAsked,    \* the number of changes so far
  planOwnRules, \* the engines one of whose own rules a change so far is against
  planAfter     \* the table each engine's accepted plan leaves

planVars == <<planTable, planStage, plans, meant, planAsked, planOwnRules, planAfter>>

Planners == {"sqlite", "postgres", "lakehouse"}
Null == "null"
PlanRefused == [refused |-> TRUE]
NoTable == [cols |-> {}]

(***************************************************************************)
(* Fields and values.                                                      *)
(***************************************************************************)
PlanTexts == {"x", "y", ""}
CellsOf(type) == CASE type = "string" -> PlanTexts
                   [] type = "json" -> {"object", "array"}
                   [] type = "file" -> {"small", "big"}

EnumAllows(enum, v) == enum = {} \/ v \in enum
ShapeFits(shape, v) == shape \in {"", v}
FileFits(max, v) == max = 0 \/ v = "small"
coerceValue(f, v) == /\ v \in CellsOf(f.type)
                     /\ EnumAllows(f.enum, v)
                     /\ ShapeFits(f.shape, v)

ValidateIdent(name) == name \notin {"id", "created_at"}

\* Words that only one engine's SQL reserves.
engineKeywords == [sqlite |-> {}, postgres |-> {"user"}, lakehouse |-> {"pivot"}]
ValidateEngineIdent(e, name) == name \notin engineKeywords[e]

NamesOf(fields) == {fields[i].name : i \in DOMAIN fields}
indexOf(fields, name) == CHOOSE i \in DOMAIN fields : fields[i].name = name
findField(fields, name) == fields[indexOf(fields, name)]
ftsFields(fields) == {fields[i].name : i \in {j \in DOMAIN fields : fields[j].fulltext}}
VectorizeField(fields) ==
  {fields[i].name : i \in {j \in DOMAIN fields : fields[j].vectorize}}

\* What validate asks of one field.
validateField(f) ==
  /\ f.type = "file" \/ f.max = 0
  /\ f.type = "string" \/ (f.enum = {} /\ ~f.fulltext /\ ~f.vectorize)
  /\ f.type = "json" \/ f.shape = ""
  /\ f.dflt = Null \/ (~f.required /\ ~f.vectorize)

validate(fields) ==
  /\ fields # <<>>
  /\ \A i, j \in DOMAIN fields : fields[i].name = fields[j].name => i = j
  /\ \A i \in DOMAIN fields : validateField(fields[i])
  /\ Cardinality({i \in DOMAIN fields : fields[i].vectorize}) <= 1

Moved(g, from, to) ==
  IF from \in DOMAIN g /\ from # to
  THEN (to :> g[from]) @@ Restrict(g, DOMAIN g \ {from}) ELSE g
Dropped(g, name) == Restrict(g, DOMAIN g \ {name})
Put(g, name, v) == (name :> v) @@ g

(***************************************************************************)
(* The state of a planner, and its checks of a change's arguments.         *)
(***************************************************************************)
\* columns: where each field is stored.  In Iceberg that is the column's id.
PlanBegin(e, t) ==
  LET stored == [n \in NamesOf(t.fields) |->
                   IF e = "postgres" THEN <<n, t.attempt>> ELSE <<n, 0>>]
  IN [refused |-> FALSE, fields |-> t.fields, columns |-> stored, used |-> Range(stored),
      source |-> stored, defaults |-> <<>>, steps |-> <<>>, fts |-> FALSE, vec |-> FALSE,
      destructive |-> FALSE, owner |-> t.owner, access |-> t.access,
      constraints |-> t.constraints, accepts |-> t.accepts, constraint |-> FALSE,
      backfill |-> 0]

TakesValue(op) == op \in {"set_fulltext", "set_vectorize", "set_row_access", "set_accept_references"}
ConstraintOps == {"add_constraint", "drop_constraint", "set_accept_references"}
ShapeChangeArgs(ch) == (ch.op = "set_shape") = (ch.shape # "absent")
FileConstraintArgs(ch) == (ch.op = "set_file_constraints") = (ch.max # {})
ReservedWithOwner(p, ch) ==
  p.owner /\ "owner" \in {ch.name, ch.to} \cup {f.name : f \in ch.field}

\* Arguments that belong to another operation, or are missing.
checkArgs(p, ch) ==
  /\ ch.op = "add_field" \/ ch.default = Null
  /\ TakesValue(ch.op) <=> ch.value # {}
  /\ ch.op = "set_enum" <=> ch.enum # {}
  /\ ShapeChangeArgs(ch) /\ FileConstraintArgs(ch)
  /\ ~ReservedWithOwner(p, ch)

Given(s) == CHOOSE v \in s : TRUE
Held(v) == IF planTable.held THEN v ELSE Null
Rows == IF planTable.held THEN 1 ELSE 0
StoredIn(p, name) == planTable.cells[p.source[name][1]]

\* The values a check of stored rows must look at: the old table's column
\* the field comes from, and the value the field is to be backfilled with.
OnDisk(p, name) == IF name \in DOMAIN p.source THEN {StoredIn(p, name)} \ {Null} ELSE {}
Backfill(p, name) == IF name \in DOMAIN p.defaults THEN {p.defaults[name]} \ {Null} ELSE {}

SetField(p, name, f) == [p EXCEPT !.fields[indexOf(p.fields, name)] = f]

(***************************************************************************)
(* add_field.  A required field with a default gets it in the ALTER, a     *)
(* nullable one in an UPDATE; lakehouse rows are rewritten at the end.     *)
(***************************************************************************)
AddRefused(p, ch) ==
  \/ ch.field = {}
  \/ LET f == Given(ch.field)
     IN \/ f.dflt # Null
        \/ f.type = "file" /\ ch.default # Null
        \/ ~ValidateIdent(f.name)
        \/ f.name \in NamesOf(p.fields)
        \/ Len(p.fields) >= MaxFields
        \/ ch.default # Null /\ ~coerceValue(f, ch.default)
        \/ f.required /\ ch.default = Null /\ planTable.held

Added(p, ch) ==
  LET f == Given(ch.field)
  IN [p EXCEPT !.fields = Append(@, f), !.defaults = Put(@, f.name, ch.default),
               !.fts = @ \/ f.fulltext, !.vec = @ \/ f.vectorize,
               !.backfill = @ + IF ch.default # Null THEN Rows ELSE 0]

AddSteps(f, default, col) ==
  <<[op |-> "add", col |-> col, to |-> col, required |-> f.required,
     cell |-> IF f.required THEN default ELSE Null]>>
  \o IF default # Null /\ ~f.required
     THEN <<[op |-> "update", col |-> col, to |-> col, required |-> FALSE, cell |-> default]>>
     ELSE <<>>

addField(p, ch) ==
  IF AddRefused(p, ch) THEN PlanRefused
  ELSE LET f == Given(ch.field)
       IN [Added(p, ch) EXCEPT !.columns = Put(@, f.name, <<f.name, 0>>),
                               !.steps = @ \o AddSteps(f, ch.default, <<f.name, 0>>)]

\* The first name not used so far; a dropped or renamed column's name stays used.
physicalCandidate(p, name) ==
  CHOOSE c \in {<<name, i>> : i \in 0..(Cardinality(p.used) + 1)} :
    /\ c \notin p.used
    /\ \A i \in 0..(c[2] - 1) : <<name, i>> \in p.used

allocate(p, name) ==
  LET c == physicalCandidate(p, name)
  IN [p EXCEPT !.columns = Put(@, name, c), !.used = @ \cup {c}]

pgAddField(p, ch) ==
  IF AddRefused(p, ch) \/ ~ValidateEngineIdent("postgres", Given(ch.field).name) THEN PlanRefused
  ELSE LET f == Given(ch.field)
           q == allocate(Added(p, ch), f.name)
       IN [q EXCEPT !.steps = @ \o AddSteps(f, ch.default, q.columns[f.name])]

\* External: Iceberg gives an added column an id no column has had.
FreshId(p) == <<"id", Cardinality(p.used)>>

\* The lakehouse validates an added field at once, the others the schema at the end.
lakeAddField(p, ch) ==
  IF \/ AddRefused(p, ch)
     \/ ~validateField(Given(ch.field)) \/ ~ValidateEngineIdent("lakehouse", Given(ch.field).name)
  THEN PlanRefused
  ELSE LET f == Given(ch.field)
       IN [Added(p, ch) EXCEPT !.columns = Put(@, f.name, FreshId(p)),
                               !.used = @ \cup {FreshId(p)},
                               !.source = Dropped(@, f.name)]

(***************************************************************************)
(* rename_field and drop_field.                                            *)
(***************************************************************************)
RefuseConstrainedField(p, name) == name \in p.constraints

RenameRefused(p, ch) ==
  \/ ~ValidateIdent(ch.to)
  \/ RefuseConstrainedField(p, ch.name)
  \/ ch.name \notin NamesOf(p.fields)
  \/ ch.to # ch.name /\ ch.to \in NamesOf(p.fields)

\* Seeded fault: the rows of a renamed field are looked for under its new name.
RenamedKeepsSource(p, ch) ==
  LET f == findField(p.fields, ch.name)
  IN [SetField(p, ch.name, [f EXCEPT !.name = ch.to]) EXCEPT
        !.defaults = Moved(@, ch.name, ch.to),
        !.fts = @ \/ f.fulltext, !.destructive = TRUE]

Renamed(p, ch) ==
  LET f == findField(p.fields, ch.name)
  IN [SetField(p, ch.name, [f EXCEPT !.name = ch.to]) EXCEPT
        !.source = Moved(@, ch.name, ch.to),
        !.defaults = Moved(@, ch.name, ch.to),
        !.fts = @ \/ f.fulltext, !.destructive = TRUE]

RenameStep(from, to) ==
  IF from = to THEN <<>>
  ELSE <<[op |-> "rename", col |-> from, to |-> to, required |-> FALSE, cell |-> Null]>>

renameField(p, ch) ==
  IF RenameRefused(p, ch) THEN PlanRefused
  ELSE [Renamed(p, ch) EXCEPT
          !.columns = Put(Dropped(@, ch.name), ch.to, <<ch.to, 0>>),
          !.steps = @ \o RenameStep(<<ch.name, 0>>, <<ch.to, 0>>)]

\* A column keeps its stored name when the field keeps its own.
rename(p, from, to) ==
  IF from = to THEN p
  ELSE LET c == physicalCandidate(p, to)
       IN [p EXCEPT !.columns = Put(Dropped(@, from), to, c), !.used = @ \cup {c},
                    !.steps = @ \o RenameStep(p.columns[from], c)]

pgRenameField(p, ch) ==
  IF RenameRefused(p, ch) \/ ~ValidateEngineIdent("postgres", ch.to) THEN PlanRefused
  ELSE rename(Renamed(p, ch), ch.name, ch.to)

lakeRenameField(p, ch) ==
  IF RenameRefused(p, ch) \/ ~ValidateEngineIdent("lakehouse", ch.to) THEN PlanRefused
  ELSE [Renamed(p, ch) EXCEPT !.columns = Moved(@, ch.name, ch.to)]

DropRefused(p, ch) ==
  ch.name \notin NamesOf(p.fields) \/ RefuseConstrainedField(p, ch.name)

DroppedField(p, ch) ==
  LET f == findField(p.fields, ch.name)
  IN [p EXCEPT !.fields = RemoveAt(@, indexOf(p.fields, ch.name)),
               !.columns = Dropped(@, ch.name), !.source = Dropped(@, ch.name),
               !.defaults = Dropped(@, ch.name), !.destructive = TRUE,
               !.fts = @ \/ f.fulltext, !.vec = @ \/ f.vectorize]

DropStep(col) == <<[op |-> "drop", col |-> col, to |-> col, required |-> FALSE, cell |-> Null]>>

dropField(p, ch) ==
  IF DropRefused(p, ch) THEN PlanRefused
  ELSE [DroppedField(p, ch) EXCEPT !.steps = @ \o DropStep(<<ch.name, 0>>)]

pgDropField(p, ch) ==
  IF DropRefused(p, ch) THEN PlanRefused
  ELSE [DroppedField(p, ch) EXCEPT !.steps = @ \o DropStep(p.columns[ch.name])]

\* Seeded fault: dropping a full-text field does not report the index as rebuilt.
lakeDropKeepsIndex(p, ch) ==
  IF DropRefused(p, ch) THEN PlanRefused ELSE [DroppedField(p, ch) EXCEPT !.fts = p.fts]

lakeDropField(p, ch) == IF DropRefused(p, ch) THEN PlanRefused ELSE DroppedField(p, ch)

(***************************************************************************)
(* set_fulltext, set_vectorize: the lakehouse leaves their checks to       *)
(* validate, at the end.                                                   *)
(***************************************************************************)
Known(p, ch) == ch.name \in NamesOf(p.fields)

FulltextSet(p, ch) ==
  LET f == findField(p.fields, ch.name)
      v == Given(ch.value)
  IN [SetField(p, ch.name, [f EXCEPT !.fulltext = v]) EXCEPT !.fts = @ \/ v \/ f.fulltext]

setFulltext(p, ch) ==
  IF \/ ~Known(p, ch)
     \/ Given(ch.value) /\ findField(p.fields, ch.name).type # "string"
  THEN PlanRefused ELSE FulltextSet(p, ch)

VectorizeSet(p, ch) ==
  LET f == findField(p.fields, ch.name)
      v == Given(ch.value)
  IN [SetField(p, ch.name, [f EXCEPT !.vectorize = v]) EXCEPT !.vec = @ \/ v # f.vectorize]

setVectorize(p, ch) ==
  IF \/ ~Known(p, ch)
     \/ Given(ch.value) /\ \/ findField(p.fields, ch.name).type # "string"
                           \/ VectorizeField(p.fields) \ {ch.name} # {}
  THEN PlanRefused ELSE VectorizeSet(p, ch)

lakeSetFlag(p, ch) ==
  IF ~Known(p, ch) THEN PlanRefused
  ELSE IF ch.op = "set_fulltext" THEN FulltextSet(p, ch) ELSE VectorizeSet(p, ch)

(***************************************************************************)
(* set_enum, set_shape and set_file_constraints look at the stored rows,   *)
(* the declared default and the backfill.                                  *)
(***************************************************************************)
setEnum(p, ch) ==
  LET enum == Given(ch.enum)
      f == findField(p.fields, ch.name)
  IN IF \/ ~Known(p, ch)
        \/ f.type # "string"
        \/ \E v \in OnDisk(p, ch.name) \cup Backfill(p, ch.name) \cup ({f.dflt} \ {Null}) :
             ~EnumAllows(enum, v)
     THEN PlanRefused
     ELSE SetField(p, ch.name, [f EXCEPT !.enum = enum])

ShapeTarget(f) == f.type = "json"

setShape(p, ch) ==
  LET f == findField(p.fields, ch.name)
  IN IF \/ ~Known(p, ch)
        \/ ~ShapeTarget(f)
        \/ \E v \in OnDisk(p, ch.name) \cup Backfill(p, ch.name) \cup ({f.dflt} \ {Null}) :
             ~ShapeFits(ch.shape, v)
     THEN PlanRefused
     ELSE SetField(p, ch.name, [f EXCEPT !.shape = ch.shape])

FileConstraintField(f, ch) == [f EXCEPT !.max = Given(ch.max)]

setFileConstraints(p, ch) ==
  LET f == findField(p.fields, ch.name)
      next == FileConstraintField(f, ch)
  IN IF \/ ~Known(p, ch)
        \/ f.type # "file"
        \/ \E v \in OnDisk(p, ch.name) : ~FileFits(next.max, v)
     THEN PlanRefused
     ELSE SetField(p, ch.name, next)

(***************************************************************************)
(* set_row_access and the constraint operations.                           *)
(***************************************************************************)
RefuseConstrainedRowAccess(p) == p.constraints # {} \/ planTable.referenced
ValidateOwnerCollision(p) == "owner" \notin NamesOf(p.fields)

OwnerStep(p) ==
  IF p.owner THEN <<>>
  ELSE <<[op |-> "add", col |-> <<"owner", 0>>, to |-> <<"owner", 0>>,
          required |-> FALSE, cell |-> Null]>>

setRowAccess(p, ch) ==
  LET on == Given(ch.value)
  IN IF RefuseConstrainedRowAccess(p) THEN PlanRefused
     ELSE IF on = p.access THEN p
     ELSE IF ~on THEN [p EXCEPT !.access = FALSE]
     ELSE IF ~ValidateOwnerCollision(p) \/ planTable.held THEN PlanRefused
     ELSE [p EXCEPT !.access = TRUE, !.owner = TRUE, !.steps = @ \o OwnerStep(p)]

\* planSchema and planData: the collision is looked for even when the access
\* is on already, the rows only when it is turned on.
lakeSetRowAccess(p, ch) ==
  LET on == Given(ch.value)
  IN IF \/ RefuseConstrainedRowAccess(p)
        \/ on /\ (~ValidateOwnerCollision(p) \/ (~p.access /\ planTable.held))
     THEN PlanRefused
     ELSE [p EXCEPT !.access = on, !.owner = @ \/ on,
                    !.used = @ \cup (IF on /\ ~p.owner THEN {FreshId(p)} ELSE {})]

\* The one constraint of the model is on a single field and named after it.
PlanConstraintChange(p, ch) ==
  CASE ch.op = "add_constraint" ->
         IF ch.name \in p.constraints \/ ch.name \notin NamesOf(p.fields)
         THEN PlanRefused ELSE [p EXCEPT !.constraints = @ \cup {ch.name}]
    [] ch.op = "drop_constraint" ->
         IF ch.name \notin p.constraints
         THEN PlanRefused ELSE [p EXCEPT !.constraints = @ \ {ch.name}]
    [] ch.op = "set_accept_references" ->
         IF ~Given(ch.value) /\ planTable.referenced
         THEN PlanRefused ELSE [p EXCEPT !.accepts = Given(ch.value)]

RefuseMixedConstraintChanges(p) == p.constraint /\ planAsked > 1

(***************************************************************************)
(* The loops.                                                              *)
(***************************************************************************)
planChange(p, ch) ==
  CASE ch.op = "add_field" -> addField(p, ch)
    [] ch.op = "rename_field" -> renameField(p, ch)
    [] ch.op = "drop_field" -> dropField(p, ch)
    [] ch.op = "set_fulltext" -> setFulltext(p, ch)
    [] ch.op = "set_vectorize" -> setVectorize(p, ch)
    [] ch.op = "set_enum" -> setEnum(p, ch)
    [] ch.op = "set_shape" -> setShape(p, ch)
    [] ch.op = "set_file_constraints" -> setFileConstraints(p, ch)
    [] ch.op = "set_row_access" -> setRowAccess(p, ch)
    [] ch.op \in ConstraintOps -> PlanConstraintChange(p, ch)

\* The PostgreSQL planner's other cases differ from SQLite's in SQL only.
pgSetField(p, ch) == planChange(p, ch)
pgSetShape(p, ch) == planChange(p, ch)
pgSetAccess(p, ch) == planChange(p, ch)

pgPlanChange(p, ch) ==
  CASE ch.op = "add_field" -> pgAddField(p, ch)
    [] ch.op = "rename_field" -> pgRenameField(p, ch)
    [] ch.op = "drop_field" -> pgDropField(p, ch)
    [] ch.op \in {"set_fulltext", "set_vectorize", "set_enum"} -> pgSetField(p, ch)
    [] ch.op \in {"set_shape"} \cup ConstraintOps -> pgSetShape(p, ch)
    [] OTHER -> pgSetAccess(p, ch)

planSchema(p, ch) ==
  CASE ch.op = "add_field" -> lakeAddField(p, ch)
    [] ch.op = "rename_field" -> lakeRenameField(p, ch)
    [] ch.op = "drop_field" -> lakeDropField(p, ch)
    [] ch.op \in {"set_fulltext", "set_vectorize"} -> lakeSetFlag(p, ch)
    [] ch.op = "set_row_access" -> lakeSetRowAccess(p, ch)
    [] OTHER -> planChange(p, ch)

PlanOne(e, p, ch) ==
  IF p.refused \/ ~checkArgs(p, ch) THEN PlanRefused
  ELSE LET q == CASE e = "sqlite" -> planChange(p, ch)
                  [] e = "postgres" -> pgPlanChange(p, ch)
                  [] e = "lakehouse" -> planSchema(p, ch)
       IN IF q.refused THEN q ELSE [q EXCEPT !.constraint = @ \/ ch.op \in ConstraintOps]

(***************************************************************************)
(* What a plan says once the changes are read: the rows to index and to    *)
(* embed, from the old table's columns.                                    *)
(***************************************************************************)
OldVector == VectorizeField(planTable.fields)
NoEmbed == [clear |-> FALSE, mode |-> "none", text |-> Null, rows |-> 0]

HasText(v) == v \notin {Null, ""}
DefaultOf(p, name) == IF name \in DOMAIN p.defaults THEN p.defaults[name] ELSE Null

\* The text the vectors are computed from: the backfill, or the stored column.
embedFrom(p, name, clear) ==
  IF name \notin DOMAIN p.source
  THEN IF HasText(DefaultOf(p, name))
       THEN [clear |-> clear, mode |-> "constant", text |-> DefaultOf(p, name), rows |-> Rows]
       ELSE [NoEmbed EXCEPT !.clear = clear]
  ELSE [clear |-> clear, mode |-> "source", text |-> StoredIn(p, name),
        rows |-> IF HasText(StoredIn(p, name)) THEN 1 ELSE 0]

planEmbedding(p) ==
  LET new == VectorizeField(p.fields)
  IN IF ~p.vec THEN NoEmbed
     ELSE IF new # {} THEN embedFrom(p, Given(new), OldVector # {})
     ELSE [NoEmbed EXCEPT !.clear = OldVector # {}]

\* planData: also when the vectorized field comes from another column.
lakePlanEmbedding(p) ==
  LET new == VectorizeField(p.fields)
      same == \E o \in OldVector, n \in new : n \in DOMAIN p.source /\ p.source[n] = <<o, 0>>
  IN IF new = {} THEN [NoEmbed EXCEPT !.clear = OldVector # {}]
     ELSE IF OldVector = {} \/ p.vec \/ ~same THEN embedFrom(p, Given(new), TRUE)
     ELSE NoEmbed

rebuildFTS(e, p) ==
  p.fts \/ (e # "lakehouse" /\ ftsFields(p.fields) = {} /\ ftsFields(planTable.fields) # {})

\* Rows some full-text field of which will hold a value.
reindexRows(p) ==
  IF \E n \in ftsFields(p.fields) :
       IF n \in DOMAIN p.source THEN StoredIn(p, n) # Null ELSE DefaultOf(p, n) # Null
  THEN Rows ELSE 0

checkExpectedVersion(expected) == expected \in {0, planTable.version}

finishPlan(e, p, expected) ==
  IF \/ p.refused
     \/ ~checkExpectedVersion(expected)
     \/ RefuseMixedConstraintChanges(p)
     \/ p.destructive /\ expected = 0
     \/ ~validate(p.fields)
  THEN PlanRefused
  ELSE [p EXCEPT !.fts = rebuildFTS(e, p)] @@
       [reindex |-> IF rebuildFTS(e, p) THEN reindexRows(p) ELSE 0,
        embed |-> IF e = "lakehouse" THEN lakePlanEmbedding(p) ELSE planEmbedding(p)]

(***************************************************************************)
(* Carrying the plan out.                                                  *)
(***************************************************************************)
\* External: one ALTER TABLE or UPDATE.
ApplyStep(t, st) ==
  CASE st.op = "add" ->
         [ok |-> t.ok /\ st.col \notin DOMAIN t.cols
                      /\ ~(st.required /\ planTable.held /\ st.cell = Null),
          cols |-> Put(t.cols, st.col, Held(st.cell))]
    [] st.op = "update" ->
         [ok |-> t.ok /\ st.col \in DOMAIN t.cols, cols |-> Put(t.cols, st.col, Held(st.cell))]
    [] st.op = "rename" ->
         [ok |-> t.ok /\ st.col \in DOMAIN t.cols /\ st.to \notin DOMAIN t.cols,
          cols |-> Moved(t.cols, st.col, st.to)]
    [] st.op = "drop" ->
         [ok |-> t.ok /\ st.col \in DOMAIN t.cols, cols |-> Dropped(t.cols, st.col)]

OldColumns(e) ==
  LET q == PlanBegin(e, planTable)
  IN [c \in Range(q.columns) |-> planTable.cells[c[1]]]
     @@ (IF planTable.owner THEN <<"owner", 0>> :> Null ELSE <<>>)

\* SQLite stamps the staged vectors before the steps.  PostgreSQL applies them
\* after, where the field's new column holds the text they were computed from; a
\* row left over makes the migration start again.
applyPlan(e, p) ==
  LET run == FoldLeft(ApplyStep, [ok |-> TRUE, cols |-> OldColumns(e)], p.steps)
      new == VectorizeField(p.fields)
      target == run.cols[p.columns[Given(new)]]
      old == IF p.embed.clear THEN Null ELSE planTable.embed
      kept == e = "postgres" /\ p.embed.mode = "source" => p.embed.text = target
  IN [ok |-> run.ok /\ kept,
      cols |-> DOMAIN run.cols \ (IF p.owner THEN {<<"owner", 0>>} ELSE {}),
      cells |-> [n \in NamesOf(p.fields) |-> run.cols[p.columns[n]]],
      index |-> IF p.fts THEN ftsFields(p.fields) ELSE ftsFields(planTable.fields),
      embed |-> IF p.embed.rows = 0 THEN old ELSE p.embed.text]

\* Rows are rewritten when a backfill or a vector must reach them; otherwise
\* the old files are read through the new schema, by column id.
needRewrite(p) ==
  planTable.held /\ (\/ Range(p.defaults) \ {Null} # {}
                     \/ p.embed # NoEmbed)

lakeApply(p) ==
  LET old == OldColumns("lakehouse")
  IN [ok |-> TRUE, cols |-> Range(p.columns),
      cells |-> [n \in NamesOf(p.fields) |->
                   IF needRewrite(p)
                   THEN IF n \in DOMAIN p.source THEN StoredIn(p, n) ELSE Held(DefaultOf(p, n))
                   ELSE IF p.columns[n] \in DOMAIN old THEN old[p.columns[n]] ELSE Null],
      index |-> ftsFields(p.fields),   \* there is no stored index
      embed |-> IF ~needRewrite(p) \/ ~p.embed.clear THEN planTable.embed
                ELSE IF p.embed.rows = 0 THEN Null ELSE p.embed.text]

(***************************************************************************)
(* The reference: each change applied to the row at once.                  *)
(***************************************************************************)
Meant(ch) ==
  CASE ch.op = "add_field" /\ ch.field # {} -> Put(meant, Given(ch.field).name, Held(ch.default))
    [] ch.op = "rename_field" -> Moved(meant, ch.name, ch.to)
    [] ch.op = "drop_field" -> Dropped(meant, ch.name)
    [] OTHER -> meant

\* For the agreement of the engines: what a change does against a rule of one of them, a
\* word that its SQL reserves, or a field that could be mended later in the request.
AgainstRule(e, ch) ==
  \/ \E n \in {ch.to} \cup {f.name : f \in ch.field} : ~ValidateEngineIdent(e, n)
  \/ e = "lakehouse" /\ \E f \in ch.field : ~validateField(f)

PlanInit ==
  /\ planTable \in PlanTables
  /\ planStage = "plan"
  /\ plans = [e \in Planners |-> PlanBegin(e, planTable)]
  /\ meant = planTable.cells
  /\ planAsked = 0
  /\ planOwnRules = {}
  /\ planAfter = [e \in Planners |-> NoTable]

PlanChange(ch) ==
  /\ planStage = "plan"
  /\ planAsked < PlanLength[planTable]
  /\ plans' = [e \in Planners |-> PlanOne(e, plans[e], ch)]
  /\ \E e \in Planners : ~plans'[e].refused
  /\ meant' = Meant(ch)
  /\ planAsked' = planAsked + 1
  /\ planOwnRules' = planOwnRules \cup {e \in Planners : AgainstRule(e, ch)}
  /\ UNCHANGED <<planTable, planStage, planAfter>>

PlanEnd(expected) ==
  /\ planStage = "plan"
  /\ planAsked > 0
  /\ plans' = [e \in Planners |-> finishPlan(e, plans[e], expected)]
  /\ planStage' = "planned"
  /\ UNCHANGED <<planTable, meant, planAsked, planOwnRules, planAfter>>

PlanApply ==
  /\ planStage = "planned"
  /\ planAfter' = [e \in Planners |->
       IF plans[e].refused THEN NoTable
       ELSE IF e = "lakehouse" THEN lakeApply(plans[e]) ELSE applyPlan(e, plans[e])]
  /\ planStage' = "done"
  /\ UNCHANGED <<planTable, plans, meant, planAsked, planOwnRules>>

PlanNext ==
  \/ \E ch \in PlanChanges : PlanChange(ch)
  \/ \E expected \in {0, 1, 2} : PlanEnd(expected)
  \/ PlanApply

PlanSpec == PlanInit /\ [][PlanNext]_planVars

(***************************************************************************)
(* Properties.                                                             *)
(***************************************************************************)
Accepted(e) == planStage = "done" /\ ~plans[e].refused

\* Carrying out an accepted plan never fails, and leaves exactly the columns
\* the new schema names, each holding what the changes, taken one by one, give
\* its field: a rename keeps the data, a field dropped and added again starts
\* from its backfill.
PlanFaithful ==
  \A e \in Planners : Accepted(e) =>
    /\ planAfter[e].ok
    /\ planAfter[e].cols = Range(plans[e].columns)
    /\ planAfter[e].cells = meant

\* After a migration the full-text index covers the full-text fields, the row's
\* vector is of the text its vectorized field now holds, and the rows the plan
\* said it would index and embed are the rows that were.
PlanDerived ==
  \A e \in Planners : Accepted(e) =>
    LET p == plans[e]
        t == planAfter[e]
        new == VectorizeField(p.fields)
    IN /\ t.index = ftsFields(p.fields)
       /\ t.embed = IF \E n \in new : HasText(t.cells[n]) THEN t.cells[Given(new)] ELSE Null
       /\ p.fts => p.reindex = IF \E n \in t.index : t.cells[n] # Null THEN Rows ELSE 0
       /\ p.embed.mode # "none" => p.embed.rows = IF t.embed # Null THEN Rows ELSE 0

\* An accepted plan never leaves a row its own schema would refuse: every
\* value fits the enum, shape and limit of its field, required fields hold one,
\* declared defaults fit, and constraints name fields that exist.
PlanAdmits ==
  \A e \in Planners : Accepted(e) =>
    LET p == plans[e]
    IN /\ p.constraints \subseteq NamesOf(p.fields)
       /\ p.owner => ValidateOwnerCollision(p)
       /\ \A i \in DOMAIN p.fields :
            LET f == p.fields[i]
                v == planAfter[e].cells[f.name]
            IN /\ f.required /\ planTable.held => v # Null
               /\ \A w \in {v, f.dflt} \ {Null} :
                    /\ EnumAllows(f.enum, w) /\ ShapeFits(f.shape, w)
                    /\ f.type = "file" => FileFits(f.max, w)

\* The engines read a request alike, but for the words that one of them reserves and
\* for fields added that the lakehouse refuses at once: then PostgreSQL accepts what
\* SQLite accepts and nothing else, the lakehouse accepts that too (and may accept
\* more), and all that accept report the same schema, backfill, index and embedding work.
PlanAgree ==
  planStage \in {"planned", "done"} =>
    LET report(e) == <<plans[e].fields, plans[e].backfill, plans[e].fts, plans[e].reindex,
                       plans[e].embed.rows, plans[e].owner, plans[e].access, plans[e].constraints>>
    IN /\ plans["sqlite"].refused => plans["postgres"].refused
       /\ ~plans["sqlite"].refused =>
            \A e \in Planners : /\ plans[e].refused = (e \in planOwnRules)
                                /\ ~plans[e].refused => report(e) = report("sqlite")

\* What the table holds after an accepted migration, its fields and what is
\* derived from them, is what the changes said, and what its own schema admits.
PlanExact == PlanFaithful /\ PlanDerived /\ PlanAdmits
=============================================================================
