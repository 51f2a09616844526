------------------------------ MODULE Requests ------------------------------
(***************************************************************************)
(* The operations of the API with authentication on: each request is       *)
(* authenticated, authorized against the grants, has its row visibility    *)
(* and the table's incarnation resolved, and then calls the engine.  These *)
(* are separate reads of two stores (the registry and the namespace's      *)
(* file), and other requests run between any two of them.                  *)
(*                                                                         *)
(* One namespace with one table stands for all: an operation never reads   *)
(* the state of another table, except through grants on the namespace.     *)
(* A row is known by its owner.  Bodies, filters and renderings are left   *)
(* out; what each operation decides and changes is kept.                   *)
(***************************************************************************)
EXTENDS Registry, Sequences, FiniteSets, TLC

CONSTANTS
    Who,            \* client -> its principal
    WhoGroups,      \* client -> its groups
    WhoKey,         \* client -> its API key, or none (an identity source)
    GrantArgs,      \* the subject, object and verbs that grant and revoke are called with
    InitKeys,       \* the keys to start with
    Scenes          \* what to check together: the grants to start with, what the table
                    \* declares, which keys may expire, the operations each client
                    \* calls (ops) and the bound on how many (calls)

Ns == "ns"
Tab == "t"
Nobody == "nobody"
DataVerbs == {"create", "update", "delete"}

ASSUME RequestsAssumption ==
    /\ {Ns, Tab} \subseteq Objects \ {Root}
    /\ GrantArgs \subseteq (Principals \cup Groups) \X Objects \X SUBSET Verbs
    /\ InitKeys \in [Keys -> {"absent", "live", "revoked", "expired"}]
    /\ \A s \in Scenes : /\ s.grants \subseteq (Principals \cup Groups) \X Objects \X Verbs
                         /\ s.expire \subseteq Keys

VARIABLES
    scene,     \* the scene that this behaviour is about; it never changes
    ns,        \* the namespace: exists, and its random generation
    tbl,       \* the table: exists, drop generation, version, row_access = own, owner column, rows
    decl,      \* what the table declares: nothing, accept_references, a constraint
    req,       \* client -> its request
    calls,     \* client -> operations called so far
    plan,      \* client -> the incarnation token of its last dry run
    stale,     \* clients for whom the table changed since its state was resolved
    staleplan, \* clients for whom it changed since their dry run
    wide       \* clients that were allowed every row of this incarnation during their request

engine == <<scene, ns, tbl, decl>>
watch == <<stale, staleplan, wide>>
vars == <<registry, engine, req, calls, plan, watch>>

Zero == <<>>
Incarnation == <<ns.gen, tbl.gen, tbl.ver>>
Table == ns.on /\ tbl.on
NoTable == [on |-> FALSE, gen |-> 0, ver |-> 0, own |-> FALSE, hasOwner |-> FALSE, rows |-> {}]
Quiet == [at |-> "idle", next |-> "none", op |-> "none", arg |-> "none", scope |-> "all", inc |-> Zero,
          ok |-> TRUE, late |-> FALSE, own |-> FALSE, rows |-> {}]

Held(c, o) == EffectiveVerbs(Who[c], WhoGroups[c], o)
Has(c, o, v) == v \in Held(c, o)

(***************************************************************************)
(* authRules: the object an operation is authorized on and its verbs.      *)
(***************************************************************************)
ReadOps == {"read_rows", "file_url", "search_fulltext", "search_vector", "changes_since", "wait_for"}
OpenOps == {"capabilities", "describe_server", "infer_schema", "find_path", "subgraph", "search_graph",
            "neighbors", "list_namespaces", "list_tables", "whoami"}
AnyVerbOps == {"describe_table", "tokenize"}

authRules ==
    [o \in {"create_key", "list_keys", "revoke_key", "create_namespace"} |-> [on |-> Root, verbs |-> {"admin"}]]
    @@ [o \in {"drop_namespace", "vacuum"} |-> [on |-> Ns, verbs |-> {"admin"}]]
    @@ [o \in ReadOps |-> [on |-> Tab, verbs |-> {"read"}]]
    @@ [o \in {"insert", "relate"} |-> [on |-> Tab, verbs |-> {"create"}]]
    @@ [o \in {"upsert", "upsert_by_key"} |-> [on |-> Tab, verbs |-> {"create", "update"}]]
    @@ [o \in {"migrate", "list_migrations"} |-> [on |-> Tab, verbs |-> {"schema"}]]
    @@ "drop_table" :> [on |-> Tab, verbs |-> {"schema", "admin"}]
    @@ "create_table" :> [on |-> Ns, verbs |-> {"schema"}]
    @@ "import_records" :> [on |-> Tab, verbs |-> {"admin", "create"}]
    @@ "update" :> [on |-> Tab, verbs |-> {"update"}]
    @@ "delete" :> [on |-> Tab, verbs |-> {"delete"}]
    @@ "query" :> [on |-> Ns, verbs |-> {"read"}]
    @@ [o \in {"grant", "revoke", "list_grants"} |-> [on |-> Root, verbs |-> {"admin"}]]

\* objectFor: grant, revoke and list_grants are authorized on their object.
objectFor(c) == IF req[c].op \in {"grant", "revoke"} THEN req[c].arg[2] ELSE authRules[req[c].op].on

\* What a migration asks for beyond schema: read when its outcome depends
\* on rows, admin when it turns row_access off.
MigrateVerbs(c) ==
    CASE req[c].arg = "row_access_off" -> {"read", "admin"}
      [] req[c].arg = "row_access_on"  -> {"read"}
      [] OTHER                         -> {}

(***************************************************************************)
(* Steps that requests share.                                              *)
(***************************************************************************)
At(c, op, stage) == req[c].op = op /\ req[c].at = stage
Set(c, r) == req' = [req EXCEPT ![c] = r]
Go(c, stage) == Set(c, [req[c] EXCEPT !.at = stage])
Refuse(c) == Set(c, [Quiet EXCEPT !.at = "answered", !.op = req[c].op])

\* The answer of a call that returned or changed the given rows: it is in
\* order when they are the caller's own, or the caller was allowed them all,
\* and when a resolved incarnation is still the table's.
Answer(c, rows) ==
    Set(c, [Quiet EXCEPT !.at = "answered", !.op = req[c].op, !.inc = req[c].inc,
              !.ok = (rows \subseteq {Who[c]} \/ c \in wide) /\ (req[c].inc # Zero => c \notin stale)])

Unmoved == UNCHANGED <<registry, engine, calls, plan>>

\* Authenticated, and Dispatch finds the operation.  A revoked or expired
\* key is answered 401.
Authenticated(c) ==
    /\ req[c].at \in {"idle", "answered"} /\ calls[c] < scene.calls[c]
    /\ calls' = [calls EXCEPT ![c] = @ + 1]
    /\ \E op \in scene.ops[c] :
        LET args == CASE op \in {"grant", "revoke"} -> GrantArgs
                      [] op = "batch" -> {"insert"}
                      [] op = "migrate" -> {"row_access_on", "row_access_off", "dry_run"}
                      [] OTHER -> {"none"}
        IN  IF WhoKey[c] # Nobody /\ keys[WhoKey[c]] # "live" THEN Set(c, [Quiet EXCEPT !.at = "answered"])
            ELSE \E a \in args : Set(c, [Quiet EXCEPT !.at = "dispatched", !.op = op, !.arg = a])
    /\ UNCHANGED <<registry, engine, plan>>

\* authorizeBatch asks about each of a batch's two writes, an insert and a delete.
Kind(c) == IF req[c].op = "batch" THEN req[c].arg ELSE req[c].op

\* authorizeVerbsOn reads the caller's verbs; holders of a data verb on a
\* table may still read their own rows, which takes another look.
authorizeVerbs(c) ==
    /\ req[c].at = "dispatched" /\ req[c].op \notin OpenOps \cup AnyVerbOps
    /\ LET op == Kind(c)
           held == Held(c, IF req[c].op = "batch" THEN Tab ELSE objectFor(c))
           need == authRules[op].verbs \cup (IF op = "migrate" THEN MigrateVerbs(c) ELSE {})
       IN  CASE need \subseteq held -> Go(c, "constraints")
             [] op \in ReadOps /\ held \cap DataVerbs # {} -> Go(c, "rowaccess")
             [] OTHER -> Refuse(c)
    /\ Unmoved

authorizeAny(c) ==
    /\ req[c].at = "dispatched" /\ req[c].op \in AnyVerbOps
    /\ IF Held(c, Tab) # {} THEN Go(c, "begin") ELSE Refuse(c)
    /\ Unmoved

authorizeOpen(c) ==
    /\ req[c].at = "dispatched" /\ req[c].op \in OpenOps
    /\ Go(c, "begin")
    /\ Unmoved

tableHasRowAccess(c) ==
    /\ req[c].at = "rowaccess"
    /\ IF Table /\ tbl.own THEN Go(c, "constraints") ELSE Refuse(c)
    /\ Unmoved

WriteOps == {"insert", "import_records", "relate", "update", "upsert", "upsert_by_key", "delete"}

\* Whether the declared schema of the table is consulted, or the one in the request.
Declared(c) == Kind(c) \in WriteOps \cup {"drop_table"} \/ (req[c].op = "migrate" /\ req[c].arg # "dry_run")

declaredSchema(c) ==
    /\ req[c].at = "constraints"
    /\ CASE ~Declared(c) /\ req[c].op # "create_table" -> Go(c, "begin")
         [] ~Declared(c) /\ req[c].op = "create_table" -> Go(c, "consulted")
         [] Declared(c) /\ ~Table -> Refuse(c)
         [] OTHER -> Set(c, [req[c] EXCEPT !.own = tbl.own,
                               !.at = IF tbl.own /\ req[c].op \in {"update", "upsert", "upsert_by_key"}
                                      THEN "widened" ELSE "consulted"])
    /\ Unmoved

\* An update by a caller who sees every row is not one of its own rows.
holdsTableWideRead(c) ==
    /\ req[c].at = "widened"
    /\ Set(c, [req[c] EXCEPT !.at = "consulted", !.own = ~Has(c, Tab, "read")])
    /\ Unmoved

\* authorizeConstrainedWrite: a write that a constraint checks needs read on
\* what the constraint consults; own-rows callers do with their data verbs.
ConstrainedWrite(c) ==
    /\ Kind(c) = "delete" /\ decl = "references" => Has(c, Ns, "read")
    /\ decl = "constrained" => Has(c, Tab, "read") \/ (req[c].own /\ Held(c, Tab) \cap DataVerbs # {})

\* Declaring a constraint, or that the table accepts references, needs read on
\* what they consult.
ConstrainedSchema(c) ==
    /\ decl = "references" => Has(c, Ns, "read")
    /\ decl = "constrained" /\ req[c].op = "create_table" => Has(c, Tab, "read")

\* The second write of a batch is authorized after the first.
authorizeConstraints(c) ==
    /\ req[c].at = "consulted"
    /\ IF ~(IF Kind(c) \in WriteOps THEN ConstrainedWrite(c) ELSE ConstrainedSchema(c)) THEN Refuse(c)
       ELSE IF req[c].op = "batch" /\ req[c].arg = "insert"
       THEN Set(c, [req[c] EXCEPT !.at = "dispatched", !.arg = "delete", !.own = FALSE])
       ELSE Set(c, [req[c] EXCEPT !.at = "begin", !.own = FALSE])
    /\ Unmoved

\* withOpDeadline: the operation's time is up before its call returns.
withOpDeadline(c) ==
    /\ req[c].at \notin {"idle", "answered"}
    /\ Refuse(c) /\ CallFails(c)
    /\ UNCHANGED <<engine, calls, plan>>

ensureNamespace(c, from, to) ==
    /\ req[c].at = from
    /\ IF ns.on THEN Go(c, to) ELSE Refuse(c)
    /\ Unmoved

\* resolveScopeState, first read: the table's row access and incarnation.  A
\* table that is missing resolves to everything, without an incarnation.
resolveTable(c, from, to) ==
    /\ req[c].at = from
    /\ Set(c, IF Table THEN [req[c] EXCEPT !.at = "verbs", !.next = to, !.inc = Incarnation,
                               !.scope = IF tbl.own THEN "own" ELSE "all"]
              ELSE [req[c] EXCEPT !.at = to, !.scope = "all", !.inc = Zero])
    /\ Unmoved

\* Second read: the caller's verbs on the table.
resolveVerbs(c, to) ==
    /\ req[c].at = "verbs" /\ req[c].next = to
    /\ LET held == Held(c, Tab)
           scope == CASE "read" \in held -> "all"
                      [] held \cap DataVerbs # {} -> req[c].scope
                      [] OTHER -> "empty"
       IN  Set(c, [req[c] EXCEPT !.at = to, !.next = "none", !.scope = scope])
    /\ Unmoved

resolveScope(c, from, to) == resolveTable(c, from, to) \/ resolveVerbs(c, to)

\* The rows a scope leaves; scopeUsable refuses it without an owner column.
Visible(c) ==
    CASE req[c].scope = "all" -> tbl.rows
      [] req[c].scope = "own" -> tbl.rows \cap {Who[c]}
      [] OTHER -> {}
Usable(c) == req[c].scope = "own" => tbl.hasOwner

\* Seeded fault: the drop generation is not compared.
checkVersionOnly(c) == req[c].inc # Zero => <<req[c].inc[1], req[c].inc[3]>> = <<ns.gen, tbl.ver>>

\* checkScopeIncarnation, in the operation's own transaction.
checkScopeIncarnation(c) == req[c].inc # Zero => req[c].inc = Incarnation

InTx(c) == Table /\ checkScopeIncarnation(c) /\ Usable(c)

Row(c) == IF tbl.hasOwner THEN Who[c] ELSE Nobody

(***************************************************************************)
(* Operations that read.                                                   *)
(***************************************************************************)
ReadOnce(c, op) ==
    \/ req[c].op = op /\ resolveScope(c, "begin", "run")
    \/ /\ At(c, op, "run")
       /\ IF InTx(c) THEN Answer(c, Visible(c)) ELSE Refuse(c)
       /\ Unmoved

read_rows(c) == ReadOnce(c, "read_rows")
search_fulltext(c) == ReadOnce(c, "search_fulltext")
file_url(c) == ReadOnce(c, "file_url")

\* The query's vector is embedded, which reads the table's schema, before
\* the visibility is resolved.
search_vector(c) ==
    \/ /\ At(c, "search_vector", "begin")
       /\ IF Table THEN Go(c, "prepared") ELSE Refuse(c)
       /\ Unmoved
    \/ req[c].op = "search_vector" /\ resolveScope(c, "prepared", "run")
    \/ /\ At(c, "search_vector", "run")
       /\ IF InTx(c) THEN Answer(c, Visible(c)) ELSE Refuse(c)
       /\ Unmoved

describe_table(c) ==
    \/ req[c].op = "describe_table" /\ resolveScope(c, "begin", "run")
    \/ /\ At(c, "describe_table", "run")
       /\ IF InTx(c) THEN Answer(c, {}) ELSE Refuse(c)
       /\ Unmoved

tokenize(c) ==
    \/ req[c].op = "tokenize" /\ resolveScope(c, "begin", "run")
    \/ /\ At(c, "tokenize", "run")
       /\ IF InTx(c) THEN Answer(c, {}) ELSE Refuse(c)
       /\ Unmoved

\* ChangesSince compares the incarnation before its transaction begins.
guardIncarnation(c, from, to) ==
    /\ req[c].at = from
    /\ IF req[c].inc # Zero => Table /\ checkScopeIncarnation(c) THEN Go(c, to) ELSE Refuse(c)
    /\ Unmoved

changes_since(c) ==
    /\ req[c].op = "changes_since"
    /\ \/ resolveScope(c, "begin", "guard")
       \/ guardIncarnation(c, "guard", "run")
       \/ /\ req[c].at = "run"
          /\ IF Table /\ Usable(c) THEN Answer(c, Visible(c)) ELSE Refuse(c)
          /\ Unmoved

\* One poll: changes are answered at once, an empty page at the deadline.
WaitRead(c) ==
    /\ At(c, "wait_for", "run")
    /\ IF ~(Table /\ Usable(c)) THEN Refuse(c)
       ELSE IF Visible(c) # {} \/ req[c].late THEN Answer(c, Visible(c))
       ELSE Go(c, "poll")
    /\ Unmoved

\* timeout_ms has passed.
WaitDeadline(c) ==
    /\ req[c].op = "wait_for" /\ req[c].at \notin {"idle", "answered"} /\ ~req[c].late
    /\ Set(c, [req[c] EXCEPT !.late = TRUE])
    /\ Unmoved

\* wait_for resolves once; a caller that sees everything is resolved again
\* at each poll, one that sees less keeps its scope.
wait_for(c) ==
    /\ req[c].op = "wait_for"
    /\ \/ resolveScope(c, "begin", "resolved")
       \/ /\ req[c].at = "resolved"
          /\ Set(c, [req[c] EXCEPT !.at = "poll", !.arg = IF req[c].scope = "all" THEN "none" ELSE "pinned"])
          /\ Unmoved
       \/ req[c].at = "poll" /\ req[c].arg = "pinned" /\ Go(c, "guard") /\ Unmoved
       \/ req[c].arg = "none" /\ resolveTable(c, "poll", "guard")
       \/ resolveVerbs(c, "guard")
       \/ guardIncarnation(c, "guard", "run")
       \/ WaitRead(c)

\* SQL over the whole namespace: authorized on it, and never scoped.
query(c) ==
    /\ At(c, "query", "begin")
    /\ IF ns.on THEN Answer(c, IF Table THEN tbl.rows ELSE {}) ELSE Refuse(c)
    /\ Unmoved

list_migrations(c) ==
    /\ At(c, "list_migrations", "begin")
    /\ IF Table THEN Answer(c, {}) ELSE Refuse(c)
    /\ Unmoved

\* requireNamespaceVisible: without any grant the namespace does not exist.
requireNamespaceVisible(c, from, to) ==
    /\ req[c].at = from
    /\ IF AnyGrant(Who[c], WhoGroups[c]) THEN Go(c, to) ELSE Refuse(c)
    /\ Unmoved

list_tables(c) ==
    /\ req[c].op = "list_tables"
    /\ \/ requireNamespaceVisible(c, "begin", "run")
       \/ req[c].at = "run" /\ (IF ns.on THEN Answer(c, {}) ELSE Refuse(c)) /\ Unmoved

list_namespaces(c) == At(c, "list_namespaces", "begin") /\ Answer(c, {}) /\ Unmoved
describe_server(c) == At(c, "describe_server", "begin") /\ Answer(c, {}) /\ Unmoved
capabilities(c) == At(c, "capabilities", "begin") /\ Answer(c, {}) /\ Unmoved
infer_schema(c) == At(c, "infer_schema", "begin") /\ Answer(c, {}) /\ Unmoved
whoami(c) == At(c, "whoami", "begin") /\ Answer(c, {}) /\ Unmoved
list_grants(c) == At(c, "list_grants", "begin") /\ Answer(c, {}) /\ Unmoved
list_keys(c) == At(c, "list_keys", "begin") /\ Answer(c, {}) /\ Unmoved
vacuum(c) == At(c, "vacuum", "begin") /\ (IF ns.on THEN Answer(c, {}) ELSE Refuse(c)) /\ Unmoved

\* Snapshot: the traversal's read transaction begins and reads the schema.  The
\* catalog read before it only makes missing indexes.
Snapshot(c) ==
    /\ req[c].at = "open"
    /\ IF Table THEN Set(c, [req[c] EXCEPT !.at = "scoping", !.own = tbl.own, !.rows = tbl.rows]) ELSE Refuse(c)
    /\ Unmoved

\* graphScope: the grants of now, with the schema of the snapshot.
graphScope(c) ==
    /\ req[c].at = "scoping"
    /\ Set(c, [req[c] EXCEPT !.at = "walk",
                 !.scope = CASE Has(c, Tab, "read") -> "all"
                             [] req[c].own /\ Held(c, Tab) \cap DataVerbs # {} -> "own"
                             [] OTHER -> "empty"])
    /\ Unmoved

\* The walk reads rows of the snapshot.
Walk(c) ==
    /\ req[c].at = "walk"
    /\ Answer(c, CASE req[c].scope = "all" -> req[c].rows
                   [] req[c].scope = "own" -> req[c].rows \cap {Who[c]}
                   [] OTHER -> {})
    /\ Unmoved

Traverse(c) == Snapshot(c) \/ graphScope(c) \/ Walk(c)

neighbors(c) == req[c].op = "neighbors" /\ (requireNamespaceVisible(c, "begin", "open") \/ Traverse(c))
find_path(c) == req[c].op = "find_path" /\ (requireNamespaceVisible(c, "begin", "open") \/ Traverse(c))
subgraph(c) == req[c].op = "subgraph" /\ (requireNamespaceVisible(c, "begin", "open") \/ Traverse(c))

\* search_graph authorizes its seed search like search_vector on the table,
\* resolves a scope to check its filter with, and embeds the query.
search_graph(c) ==
    /\ req[c].op = "search_graph"
    /\ \/ requireNamespaceVisible(c, "begin", "seed")
       \/ /\ req[c].at = "seed"
          /\ CASE Has(c, Tab, "read") -> Go(c, "filter")
               [] ~Has(c, Tab, "read") /\ Held(c, Tab) \cap DataVerbs # {} -> Go(c, "seedrows")
               [] OTHER -> Refuse(c)
          /\ Unmoved
       \/ req[c].at = "seedrows" /\ (IF Table /\ tbl.own THEN Go(c, "filter") ELSE Refuse(c)) /\ Unmoved
       \/ resolveScope(c, "filter", "prepare")
       \/ req[c].at = "prepare" /\ (IF Table THEN Go(c, "open") ELSE Refuse(c)) /\ Unmoved
       \/ Traverse(c)

(***************************************************************************)
(* Operations that write rows.                                             *)
(***************************************************************************)
WriteRows(rows) ==
    /\ tbl' = [tbl EXCEPT !.rows = rows]
    /\ UNCHANGED <<registry, scene, ns, decl, calls, plan>>

Failed(c) == Refuse(c) /\ Unmoved

Prepared(c, op, to) ==
    /\ req[c].op = op
    /\ ensureNamespace(c, "begin", "ensured") \/ resolveScope(c, "ensured", to)

\* Insert compares the incarnation before the rows are embedded and its
\* transaction begins; a keyed insert first asks for table-wide read.
InsertRow(c) ==
    \/ Table /\ WriteRows(tbl.rows \cup {Row(c)}) /\ Answer(c, {})
    \/ ~Table /\ Failed(c)

insert(c) ==
    \/ Prepared(c, "insert", "guard")
    \/ req[c].op = "insert" /\ guardIncarnation(c, "guard", "run")
    \/ At(c, "insert", "run") /\ InsertRow(c)

\* relate reads the relation table's schema and then inserts one edge.
relate(c) ==
    /\ req[c].op = "relate"
    /\ \/ req[c].at = "begin" /\ (IF Table THEN Go(c, "shaped") ELSE Refuse(c)) /\ Unmoved
       \/ ensureNamespace(c, "shaped", "ensured")
       \/ resolveScope(c, "ensured", "guard")
       \/ guardIncarnation(c, "guard", "run")
       \/ req[c].at = "run" /\ InsertRow(c)

\* import_records is resolved for its incarnation only: it is an
\* administrator's, and not scoped.
import_records(c) ==
    /\ req[c].op = "import_records"
    /\ \/ resolveScope(c, "begin", "run")
       \/ /\ req[c].at = "run" /\ Table /\ checkScopeIncarnation(c)
          /\ WriteRows(tbl.rows \cup {Row(c)}) /\ Answer(c, {})
       \/ req[c].at = "run" /\ ~(Table /\ checkScopeIncarnation(c)) /\ Failed(c)

update(c) ==
    \/ Prepared(c, "update", "run")
    \/ At(c, "update", "run") /\ InTx(c) /\ WriteRows(tbl.rows) /\ Answer(c, Visible(c))
    \/ At(c, "update", "run") /\ ~InTx(c) /\ Failed(c)

\* upsert updates the rows its filter finds, or inserts one.
upsert(c) ==
    \/ Prepared(c, "upsert", "run")
    \/ /\ At(c, "upsert", "run") /\ InTx(c)
       /\ WriteRows(IF Visible(c) = {} THEN tbl.rows \cup {Row(c)} ELSE tbl.rows)
       /\ Answer(c, Visible(c))
    \/ At(c, "upsert", "run") /\ ~InTx(c) /\ Failed(c)

\* upsert_by_key finds the key's row whoever owns it; one that the scope
\* does not show is a conflict.
upsert_by_key(c) ==
    \/ Prepared(c, "upsert_by_key", "run")
    \/ /\ At(c, "upsert_by_key", "run") /\ InTx(c)
       /\ \/ WriteRows(tbl.rows \cup {Row(c)}) /\ Answer(c, {})
          \/ \E row \in tbl.rows :
                \/ row \in Visible(c) /\ WriteRows(tbl.rows) /\ Answer(c, {row})
                \/ row \notin Visible(c) /\ Failed(c)
    \/ At(c, "upsert_by_key", "run") /\ ~InTx(c) /\ Failed(c)

delete(c) ==
    \/ Prepared(c, "delete", "run")
    \/ At(c, "delete", "run") /\ InTx(c) /\ WriteRows(tbl.rows \ Visible(c)) /\ Answer(c, Visible(c))
    \/ At(c, "delete", "run") /\ ~InTx(c) /\ Failed(c)

\* batch: an insert and a delete in one transaction, each with the scope and
\* the incarnation resolved for it; all of it commits or none.
batch(c) ==
    \/ Prepared(c, "batch", "filters")
    \/ At(c, "batch", "filters") /\ Go(c, "run") /\ Unmoved
    \/ At(c, "batch", "run") /\ InTx(c) /\ Answer(c, Visible(c))
       /\ WriteRows((tbl.rows \cup {Row(c)}) \ Visible(c))
    \/ At(c, "batch", "run") /\ ~InTx(c) /\ Failed(c)

(***************************************************************************)
(* Operations on schemas, tables and namespaces.                           *)
(***************************************************************************)
create_table(c) ==
    /\ req[c].op = "create_table"
    /\ \/ ensureNamespace(c, "begin", "run")
       \/ /\ req[c].at = "run" /\ ns.on /\ ~tbl.on
          /\ \E own \in BOOLEAN :
                tbl' = [tbl EXCEPT !.on = TRUE, !.ver = 1, !.own = own, !.hasOwner = own]
          /\ Answer(c, {}) /\ UNCHANGED <<registry, scene, ns, decl, calls, plan>>
       \/ req[c].at = "run" /\ ~(ns.on /\ ~tbl.on) /\ Failed(c)

\* drop_table takes the grants first and then the table, in two stores.
drop_table(c) ==
    \/ /\ At(c, "drop_table", "begin")
       /\ DropGrants(c, Tab) /\ Go(c, "run")
       /\ UNCHANGED <<engine, calls, plan>>
    \/ /\ At(c, "drop_table", "run") /\ Table
       /\ tbl' = [NoTable EXCEPT !.gen = tbl.gen + 1] /\ Answer(c, {})
       /\ UNCHANGED <<registry, scene, ns, decl, calls, plan>>
    \/ At(c, "drop_table", "run") /\ ~Table /\ Failed(c)

create_namespace(c) ==
    \/ /\ At(c, "create_namespace", "begin") /\ ~ns.on
       /\ ns' = [on |-> TRUE, gen |-> ns.gen + 1]
       /\ Answer(c, {}) /\ UNCHANGED <<registry, scene, tbl, decl, calls, plan>>
    \/ At(c, "create_namespace", "begin") /\ ns.on /\ Failed(c)

\* The namespace's file goes with its tables and their drop generations.
drop_namespace(c) ==
    \/ /\ At(c, "drop_namespace", "begin")
       /\ DropGrants(c, Ns) /\ Go(c, "run")
       /\ UNCHANGED <<engine, calls, plan>>
    \/ /\ At(c, "drop_namespace", "run") /\ ns.on
       /\ ns' = [ns EXCEPT !.on = FALSE] /\ tbl' = NoTable
       /\ Answer(c, {}) /\ UNCHANGED <<registry, scene, decl, calls, plan>>
    \/ At(c, "drop_namespace", "run") /\ ~ns.on /\ Failed(c)

\* A dry run answers with the incarnation its plan was made for; a migration
\* may carry that token, which is compared in the migration's transaction.
PlanMigration(c) ==
    /\ At(c, "migrate", "plan") /\ UNCHANGED <<registry, engine, calls>>
    /\ IF InTx(c) THEN plan' = [plan EXCEPT ![c] = Incarnation] /\ Answer(c, {})
       ELSE Refuse(c) /\ UNCHANGED plan

ExpectedHolds(c) == plan[c] # Zero => plan[c] = Incarnation

\* row_access can be turned on only while the table is empty.
Migrate(c) ==
    /\ At(c, "migrate", "run") /\ UNCHANGED <<registry, scene, ns, decl, calls>>
    /\ IF Table /\ ExpectedHolds(c)
          /\ (req[c].arg = "row_access_on" => tbl.rows = {} /\ ~tbl.own)
          /\ (req[c].arg = "row_access_off" => tbl.own)
       THEN /\ tbl' = [tbl EXCEPT !.ver = @ + 1, !.own = req[c].arg = "row_access_on",
                                  !.hasOwner = @ \/ req[c].arg = "row_access_on"]
            /\ plan' = [plan EXCEPT ![c] = Zero]
            /\ Set(c, [Quiet EXCEPT !.at = "answered", !.op = "migrate",
                         !.ok = plan[c] # Zero => c \notin staleplan])
       ELSE Refuse(c) /\ UNCHANGED <<tbl, plan>>

migrate(c) ==
    \/ req[c].op = "migrate" /\ ensureNamespace(c, "begin", "ensured")
    \/ req[c].op = "migrate" /\ req[c].arg = "dry_run" /\ resolveScope(c, "ensured", "plan")
    \/ PlanMigration(c)
    \/ At(c, "migrate", "ensured") /\ req[c].arg # "dry_run" /\ Go(c, "run") /\ Unmoved
    \/ Migrate(c)

(***************************************************************************)
(* Operations on grants and keys.                                          *)
(***************************************************************************)
requireGrantableObject(c) ==
    /\ At(c, "grant", "begin")
    /\ IF req[c].arg[2] = Root \/ (req[c].arg[2] = Ns /\ ns.on) \/ Table THEN Go(c, "run") ELSE Refuse(c)
    /\ Unmoved

\* A call to the registry: its first statement, and what follows under its lock.
Registers(c, first) ==
    /\ first \/ (req[c].at = "registry" /\ Statement(c))
    /\ IF calling'[c] = Out THEN Answer(c, {}) ELSE Go(c, "registry")
    /\ UNCHANGED <<engine, calls, plan>>

grant(c) ==
    \/ requireGrantableObject(c)
    \/ req[c].op = "grant" /\ Registers(c, /\ req[c].at = "run"
                                          /\ Grant(c, req[c].arg[1], req[c].arg[2], req[c].arg[3]))

revoke(c) ==
    req[c].op = "revoke" /\ Registers(c, /\ req[c].at = "begin"
                                        /\ Revoke(c, req[c].arg[1], req[c].arg[2], req[c].arg[3]))

create_key(c) ==
    /\ At(c, "create_key", "begin") /\ Answer(c, {})
    /\ \/ \E k \in Keys : CreateKey(c, k)
       \/ (\A k \in Keys : keys[k] # "absent") /\ UNCHANGED registry
    /\ UNCHANGED <<engine, calls, plan>>

revoke_key(c) ==
    req[c].op = "revoke_key" /\ Registers(c, req[c].at = "begin" /\ \E k \in Keys : RevokeKey(c, k))

-----------------------------------------------------------------------------
Admission(c) ==
    \/ authorizeVerbs(c) \/ authorizeAny(c) \/ authorizeOpen(c)
    \/ tableHasRowAccess(c) \/ declaredSchema(c) \/ holdsTableWideRead(c) \/ authorizeConstraints(c)

Operation(c) ==
    \/ read_rows(c) \/ search_fulltext(c) \/ file_url(c) \/ search_vector(c) \/ describe_table(c)
    \/ tokenize(c) \/ changes_since(c) \/ wait_for(c) \/ query(c) \/ list_migrations(c)
    \/ list_tables(c) \/ list_namespaces(c) \/ describe_server(c) \/ capabilities(c) \/ infer_schema(c)
    \/ whoami(c) \/ list_grants(c) \/ list_keys(c) \/ vacuum(c) \/ neighbors(c) \/ find_path(c)
    \/ subgraph(c) \/ search_graph(c) \/ grant(c) \/ revoke(c) \/ create_key(c) \/ revoke_key(c)
    \/ insert(c) \/ relate(c) \/ import_records(c) \/ update(c) \/ upsert(c) \/ upsert_by_key(c)
    \/ delete(c) \/ batch(c) \/ create_table(c) \/ drop_table(c) \/ create_namespace(c)
    \/ drop_namespace(c) \/ migrate(c)

\* For the properties: who resolved, or planned for, a table that has changed
\* since, and who was allowed every row of the table as it is.
AllowedAll(c) == "read" \in Held(c, Tab) \/ (Table /\ ~tbl.own)
Shape == <<ns, tbl.on, tbl.gen, tbl.ver, tbl.own>>

Watch ==
    /\ stale' = IF Shape' # Shape THEN Clients ELSE {c \in stale : req'[c].inc = req[c].inc}
    /\ staleplan' = IF Shape' # Shape THEN Clients ELSE {c \in staleplan : plan'[c] = plan[c]}
    /\ wide' = {c \in Clients :
                  /\ req'[c].at \notin {"idle", "answered"}
                  /\ AllowedAll(c)' \/ (c \in wide /\ Shape' = Shape)}

Init ==
    /\ scene \in Scenes
    /\ grants = scene.grants /\ keys = InitKeys /\ calling = [c \in Clients |-> Out]
    /\ ns = [on |-> TRUE, gen |-> 0]
    /\ \E own \in BOOLEAN : tbl = [NoTable EXCEPT !.on = TRUE, !.ver = 1, !.own = own, !.hasOwner = own]
    /\ decl = scene.decl
    /\ req = [c \in Clients |-> Quiet]
    /\ calls = [c \in Clients |-> 0]
    /\ plan = [c \in Clients |-> Zero]
    /\ stale = {} /\ staleplan = {} /\ wide = {}

Next ==
    /\ \/ \E c \in Clients : Authenticated(c) \/ Admission(c) \/ Operation(c) \/ WaitDeadline(c) \/ withOpDeadline(c)
       \/ \E k \in scene.expire : ExpireKey(k) /\ UNCHANGED <<engine, req, calls, plan>>
    /\ Watch

Spec == Init /\ [][Next]_vars

-----------------------------------------------------------------------------
\* The operations whose engine call compares the incarnation inside its own
\* transaction.
GuardedOps == {"read_rows", "search_fulltext", "search_vector", "file_url", "update", "upsert",
               "upsert_by_key", "delete", "batch", "import_records", "migrate"}

\* With one of these operations a caller gets, or changes, another owner's row
\* only if it was allowed every row of this very table at some moment of its
\* request; and when it resolved the table's state it never runs on a table that
\* was migrated, dropped or created again since (resolveScope,
\* checkScopeIncarnation).
ScopeFits == \A c \in Clients :
    req[c].at = "answered" /\ req[c].op \in GuardedOps /\ req[c].inc # Zero => req[c].ok

\* A migration that carries the token of a dry run is applied to the table
\* that the plan was made for, and to no successor of its name.
PlanFits == \A c \in Clients : req[c].at = "answered" /\ req[c].op = "migrate" => req[c].ok

\* What was decided on one incarnation of a table is not done to another.
DecidedWhereRun == ScopeFits /\ PlanFits
=============================================================================
