----------------------------- MODULE MCEngines -----------------------------
(***************************************************************************)
(* The other two engines, lakehouse and PostgreSQL.  A server runs one of    *)
(* them, so a behaviour is one of an engine with the other standing still in  *)
(* an initial state: one run explores both.                                 *)
(***************************************************************************)
EXTENDS Lakehouse, Postgres

VARIABLE part

-----------------------------------------------------------------------------
\* Which actors run together in the lakehouse engine, and how many commits.
MCLarger == {{"write", "batch", "query"}, {"write", "batch", "fault", "crash"},
             {"write", "migrate", "fault", "crash"}}
MCLakeScenes == MCLarger \cup
    {{"batch", "backup"}, {"write", "vacuum", "backup", "fault", "crash"},
     {"batch", "listen", "fault"}, {"write", "drop", "query"},
     {"write", "query", "fault", "crash"}, {"write", "drop", "listen"},
     {"write", "drop", "migrate"}, {"write", "vacuum", "query"},
     {"write", "migrate", "query"}, {"write", "drop", "backup"}}
MCLakeCommits == [s \in LakeScenes |-> IF s \in MCLarger THEN 3 ELSE 2]

\* A batch beside a query, and a materialization that fails.
TornScenes  == {{"write", "batch", "query", "fault"}}
TornCommits == [s \in LakeScenes |-> 3]

\* Which kinds of call run together against PostgreSQL, and how many.
MCPgScenes ==
    {{"keyed", "lost", "drop"}, {"batch", "lost", "plain"}, {"refs", "plain", "drop"},
     {"refs", "batch", "plain"}, {"unique", "plain", "migrate"},
     {"migrate", "plain", "vacuum", "drop"}, {"migrate", "plain", "vacuum"},
     {"import", "lost", "drop"}, {"import", "plain", "migrate"},
     {"listen", "plain", "drop"}, {"listen", "batch", "plain"}}
MCPgCalls == [s \in PgScenes |->
    IF s \cap {"listen", "import"} # {} \/ {"migrate", "drop"} \subseteq s THEN 2 ELSE 3]

-----------------------------------------------------------------------------
LakeIdle == LakeInit /\ lkScene = {"batch", "backup"}
PgUnused == PgInit /\ pgScene = {"listen", "batch", "plain"}

PartsInit == \/ part = "lakehouse" /\ LakeInit /\ PgUnused
             \/ part = "postgres" /\ PgInit /\ LakeIdle

PartsNext == /\ UNCHANGED part
             /\ \/ part = "lakehouse" /\ LakeNext /\ UNCHANGED pgVars
                \/ part = "postgres" /\ PgNext /\ UNCHANGED lakeVars

PartsSpec == PartsInit /\ [][PartsNext]_<<part, lakeVars, pgVars>>
=============================================================================
