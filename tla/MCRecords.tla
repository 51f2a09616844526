------------------------------ MODULE MCRecords ------------------------------
(***************************************************************************)
(* The rows of a table and the planner of its migrations.  The two parts    *)
(* share no state, so a behaviour is one of the first part, without the      *)
(* second (planStage "off"), or one of the second, with the first standing   *)
(* still: one run explores both.                                            *)
(***************************************************************************)
EXTENDS Records, MigrationPlan, TLC

CONSTANTS w1, w2, m1, m2, ta, tb, p1, p2

VARIABLE part

-----------------------------------------------------------------------------
(* Records: one writer and one migrator, then variations of the two.       *)

OneEach ==
    [writers |-> {w1}, ops |-> {"insert"}, migrators |-> {m1}, changes |-> {"on"},
     expects |-> {FALSE}, texts |-> {ta}, keys |-> {NoKey}, owners |-> {},
     providers |-> {p1}, dims |-> {1}, drops |-> 0]

\* An existing row is rewritten while its field is, or is no longer, vectorized.
Rewrites == [OneEach EXCEPT !.ops = {"update", "upsert"}, !.changes = {"on", "off"}]

\* Two clients with the same key.
Keyed == [OneEach EXCEPT !.writers = {w1, w2}, !.migrators = {}, !.keys = Keys \ {NoKey}]

\* Two migrations at once.
Rivals == [OneEach EXCEPT !.migrators = {m1, m2}]

MCRecordScenes ==
    {[Rewrites EXCEPT !.drops = 1],
     [Rewrites EXCEPT !.changes = {"on", "add"}, !.providers = {p1, p2}],
     [Rewrites EXCEPT !.ops = {"insert", "update"}, !.changes = {"on", "off", "plain"},
                      !.texts = {ta, tb}],
     [Keyed EXCEPT !.owners = Owners \ TableWide], [Keyed EXCEPT !.owners = TableWide],
     [Keyed EXCEPT !.drops = 1],
     [Rivals EXCEPT !.dims = {1, 2}], [Rivals EXCEPT !.expects = {TRUE}]}

-----------------------------------------------------------------------------
(* MigrationPlan: the tables a request finds and the changes it may hold.  *)

Field(n) == [name |-> n, type |-> "string", required |-> FALSE, fulltext |-> FALSE,
             vectorize |-> FALSE, enum |-> {}, shape |-> "", max |-> 0, dflt |-> "null"]

Full == [fields |-> <<[Field("a") EXCEPT !.vectorize = TRUE, !.fulltext = TRUE],
                      [Field("b") EXCEPT !.dflt = "y"]>>,
         cells |-> [a |-> "x", b |-> "y"], attempt |-> 0, held |-> TRUE, owner |-> FALSE,
         access |-> FALSE, referenced |-> FALSE, accepts |-> TRUE, constraints |-> {},
         embed |-> "x", version |-> 1]
Hashed  == [Full EXCEPT !.attempt = 1, !.embed = "null",
                        !.fields = <<[Field("a") EXCEPT !.fulltext = TRUE], Field("b")>>]
Bare    == [Full EXCEPT !.held = FALSE, !.cells = [a |-> "null", b |-> "null"], !.embed = "null"]
Owned   == [Bare EXCEPT !.owner = TRUE, !.access = TRUE]
Typed   == [Full EXCEPT !.cells = [a |-> "object", b |-> "big"], !.embed = "null",
                        !.fields = <<[Field("a") EXCEPT !.type = "json"],
                                     [Field("b") EXCEPT !.type = "file"]>>]
Related == [Full EXCEPT !.constraints = {"a"}, !.referenced = TRUE]

MCPlanTables == {Full, Hashed, Bare, Owned, Typed, Related}
MCPlanLength == [t \in MCPlanTables |-> IF t = Full THEN 4 ELSE 3]

None == [op |-> "", name |-> "", to |-> "", field |-> {}, default |-> "null", value |-> {},
         enum |-> {}, shape |-> "absent", max |-> {}]
Names == {"a", "b", "c"}

Adds ==
    {[None EXCEPT !.op = "add_field", !.field = {f}, !.default = d] :
        f \in UNION {{Field(n), [Field(n) EXCEPT !.required = TRUE],
                      [Field(n) EXCEPT !.vectorize = TRUE, !.fulltext = TRUE]} : n \in Names},
        d \in {"null", "x"}}
    \cup {[None EXCEPT !.op = "add_field", !.field = {[Field("c") EXCEPT !.type = "json"]},
                       !.default = d] : d \in {"null", "array"}}
    \cup {[None EXCEPT !.op = "add_field", !.field = fs] :
            fs \in {{Field("owner")}, {}, {[Field("c") EXCEPT !.dflt = "x"]}, {Field("user")},
                    {[Field("c") EXCEPT !.type = "json", !.fulltext = TRUE]}}}

Alters ==
    {[None EXCEPT !.op = "rename_field", !.name = n, !.to = m] :
        n \in Names, m \in Names \cup {"owner", "id"}}
    \cup {[None EXCEPT !.op = "rename_field", !.name = "b", !.to = m] : m \in {"user", "pivot"}}
    \cup {[None EXCEPT !.op = "drop_field", !.name = n] : n \in Names}
    \cup {[None EXCEPT !.op = o, !.name = n, !.value = {v}] :
            o \in {"set_fulltext", "set_vectorize"}, n \in Names, v \in BOOLEAN}

Limits ==
    {[None EXCEPT !.op = "set_enum", !.name = n, !.enum = {v}] :
        n \in Names, v \in {{}, {"x"}, {"y"}}}
    \cup {[None EXCEPT !.op = "set_shape", !.name = n, !.shape = v] : n \in Names, v \in {"", "object"}}
    \cup {[None EXCEPT !.op = "set_file_constraints", !.name = n, !.max = {v}] :
            n \in Names, v \in {0, 1}}
    \cup {[None EXCEPT !.op = o, !.value = {v}] :
            o \in {"set_row_access", "set_accept_references"}, v \in BOOLEAN}
    \cup {[None EXCEPT !.op = o, !.name = n] :
            o \in {"add_constraint", "drop_constraint"}, n \in {"a", "b"}}

Malformed == {[None EXCEPT !.op = "drop_field", !.name = "a", !.default = "x"],
              [None EXCEPT !.op = "set_enum", !.name = "a"], [None EXCEPT !.op = "set_row_access"]}

MCPlanChanges == Adds \cup Alters \cup Limits \cup Malformed

-----------------------------------------------------------------------------
RecordsIdle == Init /\ scene = [Keyed EXCEPT !.drops = 1] /\ table.sc.vectorize
PlanOff     == /\ planStage = "off" /\ planTable = <<>> /\ plans = <<>> /\ meant = <<>>
               /\ planAsked = 0 /\ planOwnRules = {} /\ planAfter = <<>>

PartsInit == \/ part = "records" /\ Init /\ PlanOff
             \/ part = "plan" /\ PlanInit /\ RecordsIdle

PartsNext == /\ UNCHANGED part
             /\ \/ part = "records" /\ Next /\ UNCHANGED planVars
                \/ part = "plan" /\ PlanNext /\ UNCHANGED vars

PartsSpec == PartsInit /\ [][PartsNext]_<<part, vars, planVars>>
=============================================================================
