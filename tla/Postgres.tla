------------------------------ MODULE Postgres ------------------------------
(***************************************************************************)
(* The PostgreSQL engine (internal/postgres): several server processes on  *)
(* one database.  There is no lock in the process: everything hangs on the *)
(* row of the namespace in the catalog, which a write transaction takes    *)
(* FOR NO KEY UPDATE, a reading one FOR SHARE, a live page of a            *)
(* subscription FOR KEY SHARE and a namespace drop FOR UPDATE.             *)
(*                                                                         *)
(* A write reads the table in one transaction, prepares (and embeds) its   *)
(* rows outside any, and applies them in another, so everything it saw is  *)
(* checked again there.  Transactions are READ COMMITTED: an open one has  *)
(* its own copy of the database until it commits.                          *)
(***************************************************************************)
EXTENDS Naturals, FiniteSets, Sequences, SequencesExt

CONSTANTS
  PgTexts,    \* what the one text field of a row holds
  PgScenes,   \* the sets of actors a behaviour may run
  PgCalls,    \* bound: client calls, for every scene
  PgLosses,   \* bound: connections lost while a transaction commits
  PgDrops,    \* bound: table and namespace drops
  PgSchemas,  \* bound: migrations
  PgVacuums,  \* bound: vacuums
  PgPage,     \* MaxChangesPageLimit and DefaultChangesPageLimit
  PgQueue     \* ListenQueueBound

PgActors == {"keyed", "batch", "import", "plain", "refs", "unique", "migrate",
             "vacuum", "listen", "drop", "lost"}

ASSUME PgAssumption ==
  /\ PgTexts # {}
  /\ PgScenes \subseteq SUBSET PgActors
  /\ PgCalls \in [PgScenes -> Nat]
  /\ {PgLosses, PgDrops, PgSchemas, PgVacuums} \subseteq Nat
  /\ {PgPage, PgQueue} \subseteq Nat \ {0}

VARIABLES
  pgScene,    \* the actors of this behaviour
  pgDb,       \* what is committed
  pgTx,       \* the open write transactions: what each sees of the database
  pgClient,   \* the calls of two clients, each through its own process
  pgMig,      \* one migration
  pgFeed,     \* one subscription
  pgAcks,     \* keyed calls a client was told are done
  pgLeft      \* what is left of the bounds

pgVars == <<pgScene, pgDb, pgTx, pgClient, pgMig, pgFeed, pgAcks, pgLeft>>

PgClients == {"c1", "c2"}
PgSessions == PgClients \cup {"migrate"}
PgTables == {"t", "p"}

(***************************************************************************)
(* The database.  A table's drop generation survives its drop and starts   *)
(* again with the namespace; seq is the identity sequence of its ids.      *)
(***************************************************************************)
tableDDL(drop, cons) ==
  [active |-> TRUE, drop |-> drop, ver |-> 1, vec |-> FALSE, space |-> FALSE,
   cons |-> cons, seq |-> 0, rows |-> {}]

Constrained == IF "refs" \in pgScene THEN {"foreign"}
               ELSE IF "unique" \in pgScene THEN {"unique"} ELSE {}

\* cur is the commit id the open transaction took, 0 before it takes one.
PgDatabase(gen, cons) ==
  [gen |-> gen, head |-> 0, commit |-> 0, cur |-> 0, changes |-> <<>>,
   tab |-> [t \in PgTables |-> tableDDL(0, IF t = "t" THEN cons ELSE {})],
   keys |-> {}, stage |-> {}]

PgNoTx == [gen |-> 0]

\* Two transactions that FOR NO KEY UPDATE or FOR SHARE keep apart.
namespaceWriteSerialized == \A s \in PgSessions : pgTx[s] = PgNoTx
PgExists(db, t) == db.gen # 0 /\ db.tab[t].active
PgIncarnation(db, t) == <<db.gen, db.tab[t].drop>>
decodeTableState(db, t) ==
  [inc |-> PgIncarnation(db, t), ver |-> db.tab[t].ver, vec |-> db.tab[t].vec,
   space |-> db.tab[t].space, cons |-> db.tab[t].cons]

\* A transaction that ends badly gives nothing back of the sequences.
rollbackContext(db, tx) ==
  [db EXCEPT !.tab = [t \in PgTables |->
     IF db.tab[t].drop = tx.tab[t].drop /\ db.tab[t].active
     THEN [db.tab[t] EXCEPT !.seq = tx.tab[t].seq] ELSE db.tab[t]]]

(***************************************************************************)
(* Change records: a position each, one commit id for the transaction.     *)
(***************************************************************************)
changeCommit(db) == IF db.cur = 0 THEN db.commit + 1 ELSE db.cur

\* The ids of one call's records, in the order they are numbered.
idsInOrder(ids) == SetToSortSeq(ids, LAMBDA a, b : a < b)

mintChanges(db, t, kind, ids, key) ==
  LET s == idsInOrder(ids)
      n == Cardinality(ids)
      c == changeCommit(db)
  IN IF ids = {} THEN db
     ELSE [db EXCEPT !.cur = c, !.commit = c, !.head = @ + n,
             !.changes = @ \o [i \in 1..n |->
                [pos |-> db.head + i, tab |-> t, drop |-> db.tab[t].drop,
                 id |-> s[i], kind |-> kind, commit |-> c, key |-> key]]]

(***************************************************************************)
(* Constraints: texts of t unique, the references of t to rows of p.       *)
(***************************************************************************)
CheckUnique(db, t) ==
  "unique" \in db.tab[t].cons =>
    \A r, s \in db.tab[t].rows : r.text = s.text => r = s

CheckForeign(db, t) ==
  "foreign" \in db.tab[t].cons =>
    /\ db.tab["p"].active
    /\ \A r \in db.tab[t].rows :
         r.ref # 0 => \E q \in db.tab["p"].rows : q.id = r.ref

SelectChecks(t, incoming) == {t} \cup IF incoming THEN PgTables ELSE {}

\* Seeded fault: only the references of the written table are checked.
checkOutgoing(db, t, incoming) ==
  CheckUnique(db, t) /\ CheckForeign(db, t)

checkConstraints(db, t, incoming) ==
  /\ CheckUnique(db, t)
  /\ \A u \in SelectChecks(t, incoming) : db.tab[u].active => CheckForeign(db, u)

\* constrained: only a write that reserved change positions is checked.
constrained(before, db, t, incoming) ==
  db.head # before.head => checkConstraints(db, t, incoming)

(***************************************************************************)
(* The bodies of the writes.  w is one write, st the table as the write    *)
(* read it, tag the idempotency key its change records carry here.  A body *)
(* answers whether it may commit and the database it leaves behind.        *)
(***************************************************************************)
NoTag == [dom |-> "none", key |-> "none", at |-> <<>>]

\* prepareValues embeds the text when the field it saw is vectorized.
prepareValues(st, text) == IF st.vec THEN text ELSE "none"

PgRow(id, w, st) ==
  [id |-> id, text |-> w.text, vec |-> prepareValues(st, w.text), ref |-> w.ref]

\* The embedding space goes into the schema with the first vector written.
pinSpace(table, st) == [table EXCEPT !.space = @ \/ st.vec]
putTable(db, t, table) == [db EXCEPT !.tab[t] = table]

insertPrepared(db, w, st, tag) ==
  LET old == db.tab[w.tab]
      id == old.seq + 1
      put == [old EXCEPT !.seq = id, !.rows = @ \cup {PgRow(id, w, st)}]
  IN mintChanges(putTable(db, w.tab, pinSpace(put, st)), w.tab, "insert", {id}, tag)

updateMatched(db, w, st, ids, tag) ==
  LET put == [db.tab[w.tab] EXCEPT
                !.rows = {IF r.id \in ids THEN PgRow(r.id, w, st) ELSE r : r \in @}]
  IN mintChanges(putTable(db, w.tab, pinSpace(put, st)), w.tab, "update", ids, tag)

matchKey(db, t, text) == {r.id : r \in {q \in db.tab[t].rows : q.text = text}}

pgMutate(db, w, st, tag) ==
  LET ids == matchKey(db, w.tab, w.old)
  IN [ok |-> TRUE,
      db |-> IF ids # {} THEN updateMatched(db, w, st, ids, tag)
             ELSE IF w.op = "upsert" THEN insertPrepared(db, w, st, tag) ELSE db]

upsertByKeyRows(db, w, st, tag) ==
  LET ids == matchKey(db, w.tab, w.text)
  IN [ok |-> Cardinality(ids) <= 1,
      db |-> IF ids # {} THEN updateMatched(db, w, st, ids, tag)
             ELSE insertPrepared(db, w, st, tag)]

deleteRows(db, w, tag) ==
  LET ids == matchKey(db, w.tab, w.old)
      cut == [db.tab[w.tab] EXCEPT !.rows = {r \in @ : r.id \notin ids}]
  IN [ok |-> TRUE,
      db |-> mintChanges(putTable(db, w.tab, cut), w.tab, "delete", ids, tag)]

\* A row that is there must be the same; a new one moves the sequence on.
importRows(db, w, st, tag) ==
  LET old == db.tab[w.tab]
      same == {r \in old.rows : r.id = w.id}
      put == [old EXCEPT !.seq = IF w.id > @ THEN w.id ELSE @,
                         !.rows = @ \cup {PgRow(w.id, w, st)}]
  IN [ok |-> \A r \in same : r.text = w.text /\ r.ref = w.ref,
      db |-> IF same # {} THEN db
             ELSE mintChanges(putTable(db, w.tab, pinSpace(put, st)), w.tab,
                              "insert", {w.id}, tag)]

PgBody(db, w, st, tag) ==
  CASE w.op = "insert" -> [ok |-> TRUE, db |-> insertPrepared(db, w, st, tag)]
    [] w.op = "key"    -> upsertByKeyRows(db, w, st, tag)
    [] w.op = "delete" -> deleteRows(db, w, tag)
    [] w.op = "import" -> importRows(db, w, st, tag)
    [] OTHER           -> pgMutate(db, w, st, tag)

\* Every write but an import checks its constraints before it may commit.
PgWrite(db, w, st, tag) ==
  LET out == PgBody(db, w, st, tag)
  IN [ok |-> out.ok /\ (w.op = "import" \/ constrained(db, out.db, w.tab, w.op = "delete")),
      db |-> out.db]

\* The writes of a batch, each on what the ones before it left.
batchAttempt(db, ws, tag) ==
  LET step(out, w) ==
        IF ~out.ok \/ ~PgExists(out.db, w.tab) THEN [out EXCEPT !.ok = FALSE]
        ELSE PgWrite(out.db, w, decodeTableState(out.db, w.tab), tag)
      after[i \in 0..Len(ws)] ==
        IF i = 0 THEN [ok |-> TRUE, db |-> db] ELSE step(after[i - 1], ws[i])
  IN after[Len(ws)]

(***************************************************************************)
(* Idempotency records.  An insert's and an import's belong to a lifetime  *)
(* of the table, a batch's to the namespace.                               *)
(***************************************************************************)
PgTag(db, call) ==
  IF call.key = "none" THEN NoTag
  ELSE [dom |-> call.kind, key |-> call.key,
        at |-> [i \in 1..Len(call.ws) |-> db.tab[call.ws[i].tab].drop]]

readIdempotency(db, call) ==
  {k \in db.keys : /\ k.tag.dom = call.kind /\ k.tag.key = call.key
                   /\ call.kind # "batch" => k.ws[1].tab = call.ws[1].tab
                                             /\ k.tag.at = PgTag(db, call).at}

lookupIdempotency(db, call) ==
  LET found == readIdempotency(db, call)
  IN IF call.key = "none" \/ found = {} THEN "fresh"
     ELSE IF \A k \in found : k.ws = call.ws THEN "replay" ELSE "conflict"

\* Seeded fault: the record is not looked for inside the transaction.
lookupNothing(db, call) == "fresh"
\* The lookup inside the write transaction.
lookupAgain(db, call) == lookupIdempotency(db, call)

storeIdempotency(db, call, tag) ==
  IF call.key = "none" THEN db
  ELSE [db EXCEPT !.keys = @ \cup {[tag |-> tag, ws |-> call.ws]}]

(***************************************************************************)
(* A client's call: read, prepare, write, commit.                          *)
(***************************************************************************)
PgIdle == [pc |-> "idle"]
PgW(op, t, old, text, ref, id) ==
  [op |-> op, tab |-> t, old |-> old, text |-> text, ref |-> ref, id |-> id]
PgSingle(w, key) == [kind |-> "insert", key |-> key, ws |-> <<w>>]

\* The calls each actor of a scene makes.
PgMenu ==
  LET refs == "refs" \in pgScene
      any == CHOOSE x \in PgTexts : TRUE
      inserts == {PgW("insert", "t", x, x, 0, 0) : x \in PgTexts}
      edits == {PgW("update", "t", any, x, 0, 0) : x \in PgTexts \ {any}}
               \cup {PgW(op, "t", any, any, 0, 0) : op \in {"upsert", "key", "delete"}}
      parents == {PgW(op, "p", any, any, 0, 0) : op \in {"insert", "delete"}}
      children == {PgW("insert", "t", x, x, 1, 0) : x \in PgTexts}
                  \cup {PgW("upsert", "t", any, any, 1, 0)}
      imports == {PgW("import", "t", x, x, ref, id) :
                    x \in PgTexts, ref \in IF refs THEN 0..1 ELSE {0}, id \in 1..2}
      batches == {<<v, w>> : v \in inserts \cup (IF refs THEN parents ELSE {}),
                             w \in IF refs THEN children ELSE edits}
  IN UNION {
       IF "keyed" \in pgScene THEN {PgSingle(w, "k") : w \in inserts} ELSE {},
       IF "plain" \in pgScene
         THEN {PgSingle(w, "none") :
                 w \in IF refs THEN parents \cup children ELSE inserts \cup edits} ELSE {},
       IF "import" \in pgScene
         THEN {[kind |-> "import", key |-> k, ws |-> <<w>>] : k \in {"k", "l"}, w \in imports} ELSE {},
       IF "batch" \in pgScene
         THEN {[kind |-> "batch", key |-> "k", ws |-> ws] : ws \in batches} ELSE {}}

\* A batch and a delete go straight to their write transaction.
PgEntry(call) ==
  IF call.kind = "batch" \/ call.ws[1].op = "delete" THEN "write" ELSE "read"

PgStart(call, tries) ==
  [pc |-> PgEntry(call), call |-> call, tries |-> tries,
   st |-> [inc |-> <<0, 0>>]]

PgSetClient(c, v) == pgClient' = [pgClient EXCEPT ![c] = v]
PgSpend(what) == pgLeft' = [pgLeft EXCEPT ![what] = @ - 1]
PgAck(db, call) ==
  pgAcks' = IF call.key = "none" THEN pgAcks
            ELSE pgAcks \cup {[gen |-> db.gen, tag |-> PgTag(db, call), ws |-> call.ws]}

PgCall(c) ==
  /\ pgClient[c].pc = "idle" /\ pgLeft.calls > 0
  /\ \E call \in PgMenu : PgSetClient(c, PgStart(call, 0))
  /\ PgSpend("calls")
  /\ UNCHANGED <<pgScene, pgDb, pgTx, pgMig, pgFeed, pgAcks>>

\* The first transaction: the table, its key, and for an update whether
\* there is anything to do.
PgRead(c) ==
  LET call == pgClient[c].call
      w == call.ws[1]
      seen == lookupIdempotency(pgDb, call)
      nothing == w.op = "update" /\ matchKey(pgDb, w.tab, w.old) = {}
  IN /\ pgClient[c].pc = "read" /\ namespaceWriteSerialized
     /\ IF PgExists(pgDb, w.tab) /\ seen = "fresh" /\ ~nothing
        THEN PgSetClient(c, [pgClient[c] EXCEPT !.pc = "write",
                               !.st = decodeTableState(pgDb, w.tab)])
        ELSE PgSetClient(c, PgIdle)
     /\ IF PgExists(pgDb, w.tab) /\ seen = "replay" THEN PgAck(pgDb, call)
        ELSE UNCHANGED pgAcks
     /\ UNCHANGED <<pgScene, pgDb, pgTx, pgMig, pgFeed, pgLeft>>

\* loadTable and checkSameTable in the write transaction.
checkSameTable(db, w, st) == PgExists(db, w.tab) /\ PgIncarnation(db, w.tab) = st.inc

\* Seeded fault: the schema is not compared inside the transaction.
schemaAnything(db, w, st) == TRUE

\* The schema as JSON, before and now.
schemaUnchanged(db, w, st) == decodeTableState(db, w.tab) = st

\* A call without a read of its own meets the table as it is.
PgFresh(call, st, db) ==
  IF PgEntry(call) = "read" THEN st ELSE decodeTableState(db, call.ws[1].tab)

PgAttempts == 3

PgBegin(c) ==
  LET call == pgClient[c].call
      w == call.ws[1]
      st == PgFresh(call, pgClient[c].st, pgDb)
      here == checkSameTable(pgDb, w, st)
      seen == lookupAgain(pgDb, call)
      moved == ~schemaUnchanged(pgDb, w, st)
      again == call.kind # "import" /\ pgClient[c].tries + 1 < PgAttempts
      tag == PgTag(pgDb, call)
      out == IF call.kind = "batch" THEN batchAttempt(pgDb, call.ws, tag)
             ELSE PgWrite(pgDb, w, st, tag)
  IN /\ pgClient[c].pc = "write" /\ namespaceWriteSerialized
     /\ IF here /\ seen = "replay" THEN PgAck(pgDb, call) ELSE UNCHANGED pgAcks
     /\ IF ~here \/ seen # "fresh"
        THEN PgSetClient(c, PgIdle) /\ UNCHANGED <<pgDb, pgTx>>
        ELSE IF moved
        THEN /\ PgSetClient(c, IF again THEN PgStart(call, pgClient[c].tries + 1) ELSE PgIdle)
             /\ UNCHANGED <<pgDb, pgTx>>
        ELSE IF out.ok
        THEN /\ PgSetClient(c, [pgClient[c] EXCEPT !.pc = "commit"])
             /\ pgTx' = [pgTx EXCEPT ![c] = storeIdempotency(out.db, call, tag)]
             /\ UNCHANGED pgDb
        ELSE /\ PgSetClient(c, PgIdle)
             /\ pgDb' = rollbackContext(pgDb, out.db)
             /\ UNCHANGED pgTx
     /\ UNCHANGED <<pgScene, pgMig, pgFeed, pgLeft>>

PgPublish(s) == [pgTx[s] EXCEPT !.cur = 0]

PgCommit(c) ==
  /\ pgClient[c].pc = "commit"
  /\ pgDb' = PgPublish(c) /\ pgTx' = [pgTx EXCEPT ![c] = PgNoTx]
  /\ PgAck(pgTx[c], pgClient[c].call) /\ PgSetClient(c, PgIdle)
  /\ UNCHANGED <<pgScene, pgMig, pgFeed, pgLeft>>

\* The connection is lost in the commit, which happened or did not; the
\* client of a keyed call sends it again.
PgCommitLost(c) ==
  LET call == pgClient[c].call
  IN /\ pgClient[c].pc = "commit" /\ "lost" \in pgScene /\ pgLeft.losses > 0
     /\ \E db \in {PgPublish(c), rollbackContext(pgDb, pgTx[c])} : pgDb' = db
     /\ pgTx' = [pgTx EXCEPT ![c] = PgNoTx]
     /\ PgSetClient(c, IF call.key = "none" THEN PgIdle ELSE PgStart(call, 0))
     /\ PgSpend("losses")
     /\ UNCHANGED <<pgScene, pgMig, pgFeed, pgAcks>>

(***************************************************************************)
(* Tables and the namespace.                                               *)
(***************************************************************************)
PgAlone == \* FOR UPDATE waits for the live page's FOR KEY SHARE as well
  namespaceWriteSerialized /\ pgFeed.pc # "page"

purgeBatchRecordsForTable(keys, t) ==
  {k \in keys : k.tag.dom = "batch" =>
                  \A i \in 1..Len(k.ws) : k.ws[i].tab # t}

referencing(db, t) ==
  t = "p" /\ db.tab["t"].active /\ "foreign" \in db.tab["t"].cons

\* The catalog keeps the row of a dropped table, with its next generation.
droppedTable(o) ==
  [o EXCEPT !.active = FALSE, !.drop = @ + 1, !.ver = 0, !.seq = 0,
            !.vec = FALSE, !.space = FALSE, !.rows = {}]

\* The records of batches and imports that wrote to t go with it.
keysLeft(keys, t) ==
  {k \in purgeBatchRecordsForTable(keys, t) :
     k.tag.dom = "import" => k.ws[1].tab # t}

PgDropTable(t) ==
  /\ "drop" \in pgScene /\ pgLeft.drops > 0
  /\ namespaceWriteSerialized /\ PgExists(pgDb, t) /\ ~referencing(pgDb, t)
  /\ pgDb' = [pgDb EXCEPT
       !.tab[t] = droppedTable(@), !.stage = {s \in @ : s.tab # t},
       !.keys = keysLeft(@, t)]
  /\ PgSpend("drops")
  /\ UNCHANGED <<pgScene, pgTx, pgClient, pgMig, pgFeed, pgAcks>>

PgCreateTable(t) ==
  LET new == tableDDL(pgDb.tab[t].drop, IF t = "t" THEN Constrained ELSE {})
      db == putTable(pgDb, t, new)
  IN /\ namespaceWriteSerialized /\ pgDb.gen # 0 /\ ~pgDb.tab[t].active
     /\ checkConstraints(db, t, FALSE)
     /\ pgDb' = db
     /\ UNCHANGED <<pgScene, pgTx, pgClient, pgMig, pgFeed, pgAcks, pgLeft>>

\* The row of the namespace goes and every row of the catalog with it.
PgDropNamespace ==
  /\ "drop" \in pgScene /\ pgLeft.drops > 0 /\ pgDb.gen # 0 /\ PgAlone
  /\ pgDb' = [PgDatabase(0, {}) EXCEPT !.tab = [t \in PgTables |->
                [tableDDL(0, {}) EXCEPT !.active = FALSE, !.ver = 0]]]
  /\ PgSpend("drops")
  /\ UNCHANGED <<pgScene, pgTx, pgClient, pgMig, pgFeed, pgAcks>>

\* A new generation is random, so never one that was used before.
PgCreateNamespace ==
  /\ pgDb.gen = 0
  /\ pgDb' = [pgDb EXCEPT !.gen = 1 + PgDrops - pgLeft.drops]
  /\ UNCHANGED <<pgScene, pgTx, pgClient, pgMig, pgFeed, pgAcks, pgLeft>>

(***************************************************************************)
(* Migrate, of table t: turn the embedding on or off, or declare t's texts *)
(* unique.  The vectors are computed page by page into embed_stage, keyed  *)
(* by the row and the digest of its text, and applied in one transaction.  *)
(***************************************************************************)
PgNoMig == [pc |-> "idle"]
PgSetMig(m) == pgMig' = m

\* What the plan makes of the table; ok is FALSE where it refuses.
pgPlan(db, change) ==
  LET t == db.tab["t"]
      new == CASE change = "on"  -> [t EXCEPT !.vec = TRUE, !.space = TRUE, !.ver = @ + 1]
               [] change = "off" -> [t EXCEPT !.vec = FALSE, !.ver = @ + 1,
                                       !.rows = {[r EXCEPT !.vec = "none"] : r \in @}]
               [] OTHER          -> [t EXCEPT !.cons = @ \cup {"unique"}, !.ver = @ + 1]
      next == putTable(db, "t", new)
  IN [ok |-> change = "unique" =>
               "unique" \notin t.cons /\ checkConstraints(next, "t", TRUE),
      embedding |-> change = "on" /\ ~t.vec,
      db |-> next]

PgMigrate ==
  /\ "migrate" \in pgScene /\ pgMig.pc = "idle" /\ pgLeft.schemas > 0
  /\ \E change \in {"on", "off", "unique"} :
       /\ (change = "unique") = ("unique" \in pgScene /\ "import" \notin pgScene)
       /\ PgSetMig([pc |-> "plan", change |-> change, first |-> <<0, 0>>, tries |-> 0,
                    st |-> [inc |-> <<0, 0>>], after |-> 0, page |-> {}])
  /\ PgSpend("schemas")
  /\ UNCHANGED <<pgScene, pgDb, pgTx, pgClient, pgFeed, pgAcks>>

PgMigrateRead ==
  LET inc == PgIncarnation(pgDb, "t")
      m == pgMig
      plan == pgPlan(pgDb, m.change)
  IN /\ m.pc = "plan" /\ namespaceWriteSerialized
     /\ IF PgExists(pgDb, "t") /\ m.first \in {<<0, 0>>, inc} /\ plan.ok
        THEN PgSetMig([m EXCEPT !.first = inc, !.after = 0,
               !.st = decodeTableState(pgDb, "t"),
               !.pc = IF plan.embedding THEN "page" ELSE "apply"])
        ELSE PgSetMig(PgNoMig)
     /\ UNCHANGED <<pgScene, pgDb, pgTx, pgClient, pgFeed, pgAcks, pgLeft>>

loadStagedVectors(db, drop, r) ==
  [tab |-> "t", drop |-> drop, id |-> r.id, text |-> r.text] \in db.stage

\* One page, of one row, of the table that bears the physical name the plan
\* saw, be it another one by now, and whether its vector is staged already.
embedPage ==
  LET drop == pgMig.first[2]
      rest == {r \in pgDb.tab["t"].rows : r.id > pgMig.after}
      r == CHOOSE q \in rest : \A s \in rest : q.id <= s.id
  IN /\ pgMig.pc = "page" /\ namespaceWriteSerialized
     /\ IF ~PgExists(pgDb, "t") THEN PgSetMig(PgNoMig)
        ELSE IF rest = {} THEN PgSetMig([pgMig EXCEPT !.pc = "apply"])
        ELSE IF loadStagedVectors(pgDb, drop, r) THEN PgSetMig([pgMig EXCEPT !.after = r.id])
        ELSE PgSetMig([pgMig EXCEPT !.after = r.id, !.pc = "stage",
                         !.page = {[id |-> r.id, text |-> r.text]}])
     /\ UNCHANGED <<pgScene, pgDb, pgTx, pgClient, pgFeed, pgAcks, pgLeft>>

\* The vector is written under the drop generation alone: nothing compares
\* the namespace it goes to.
writeStagedVectors ==
  LET drop == pgMig.first[2]
      ids == {r.id : r \in pgMig.page}
  IN /\ pgMig.pc = "stage" /\ namespaceWriteSerialized
     /\ IF pgDb.gen = 0 THEN PgSetMig(PgNoMig) /\ UNCHANGED pgDb
        ELSE /\ pgDb' = [pgDb EXCEPT !.stage =
                  {s \in @ : ~(s.tab = "t" /\ s.drop = drop /\ s.id \in ids)}
                  \cup {[tab |-> "t", drop |-> drop, id |-> r.id, text |-> r.text] :
                          r \in pgMig.page}]
             /\ PgSetMig([pgMig EXCEPT !.pc = "page", !.page = {}])
     /\ UNCHANGED <<pgScene, pgTx, pgClient, pgFeed, pgAcks, pgLeft>>

\* Every row takes the staged vector of its own text; one that has none
\* sends the migration back to its plan.
applyEmbeddings(db) ==
  LET t == db.tab["t"]
      staged == {r \in t.rows : loadStagedVectors(db, t.drop, r)}
  IN [left |-> staged # t.rows,
      db |-> putTable(db, "t", [t EXCEPT
               !.rows = {[r EXCEPT !.vec = r.text] : r \in staged} \cup (@ \ staged)])]

PgMigrateApply ==
  LET plan == pgPlan(pgDb, pgMig.change)
      out == IF plan.embedding THEN applyEmbeddings(plan.db)
             ELSE [left |-> FALSE, db |-> plan.db]
  IN /\ pgMig.pc = "apply" /\ namespaceWriteSerialized
     /\ IF ~PgExists(pgDb, "t") \/ PgIncarnation(pgDb, "t") # pgMig.first \/ ~plan.ok
        THEN PgSetMig(PgNoMig) /\ UNCHANGED pgTx
        ELSE IF out.left
        THEN /\ PgSetMig(IF pgMig.tries + 1 < PgAttempts
                         THEN [pgMig EXCEPT !.pc = "plan", !.tries = @ + 1] ELSE PgNoMig)
             /\ UNCHANGED pgTx
        ELSE /\ PgSetMig([pgMig EXCEPT !.pc = "commit"])
             /\ pgTx' = [pgTx EXCEPT !["migrate"] =
                  [out.db EXCEPT !.stage = {s \in @ : s.tab # "t"}]]
     /\ UNCHANGED <<pgScene, pgDb, pgClient, pgFeed, pgAcks, pgLeft>>

PgMigrateCommit ==
  /\ pgMig.pc = "commit"
  /\ pgDb' = PgPublish("migrate") /\ pgTx' = [pgTx EXCEPT !["migrate"] = PgNoTx]
  /\ PgSetMig(PgNoMig)
  /\ UNCHANGED <<pgScene, pgClient, pgFeed, pgAcks, pgLeft>>

\* Vacuum drops the stages of tables its own process is not migrating, so
\* one in another process drops those of a migration that runs here.
dropAbandonedStages ==
  /\ "vacuum" \in pgScene /\ pgLeft.vacuums > 0 /\ namespaceWriteSerialized
  /\ pgDb.gen # 0 /\ pgDb.stage # {}
  /\ pgDb' = [pgDb EXCEPT !.stage = {}]
  /\ PgSpend("vacuums")
  /\ UNCHANGED <<pgScene, pgTx, pgClient, pgMig, pgFeed, pgAcks>>

(***************************************************************************)
(* Listen, on the feed of table t: a replay of what is there, bounded by   *)
(* the head, that the caller drives, and a live part, past the head, that  *)
(* polls on its own and queues for the callback.                           *)
(***************************************************************************)
PgNoFeed == [pc |-> "idle"]
PgSetFeed(f) == pgFeed' = f
PgFeedOnly == UNCHANGED <<pgScene, pgDb, pgTx, pgClient, pgMig, pgAcks, pgLeft>>

PgHere(f) == PgExists(pgDb, "t") /\ PgIncarnation(pgDb, "t") = f.inc

\* Seeded fault: the records of an earlier lifetime of the table are read too.
PgAfterAny(f, low, high) ==
  SelectSeq(pgDb.changes, LAMBDA r : r.tab = "t" /\ r.pos > low /\ r.pos <= high)

\* The records of the session's lifetime after one position and up to another.
PgAfter(f, low, high) ==
  SelectSeq(pgDb.changes, LAMBDA r : r.tab = "t" /\ r.drop = f.inc[2]
                                     /\ r.pos > low /\ r.pos <= high)

PgPageOf(s) == SubSeq(s, 1, IF Len(s) < PgPage THEN Len(s) ELSE PgPage)
PgLast(s, otherwise) == IF s = <<>> THEN otherwise ELSE s[Len(s)].pos

\* From now, from the beginning, or from a token: the position of a record or
\* of the head that a reader of the feed was given, in this lifetime of the
\* table or in an earlier one of the same namespace.
listenIncarnation ==
  /\ "listen" \in pgScene /\ pgFeed.pc = "idle" /\ namespaceWriteSerialized
  /\ PgExists(pgDb, "t")
  /\ \E from \in {"now", "begin", "token"}, at \in 0 .. pgDb.head :
       /\ from # "token" => at = 0
       /\ PgSetFeed([pc |-> "anchor", from |-> from, at |-> at,
                     inc |-> PgIncarnation(pgDb, "t")])
  /\ PgFeedOnly

pgAnchorListen ==
  LET f == pgFeed
      first == IF pgDb.changes = <<>> THEN pgDb.head ELSE pgDb.changes[1].pos - 1
      start == CASE f.from = "token" -> f.at
                 [] f.from = "begin" -> first
                 [] OTHER            -> pgDb.head
  IN /\ f.pc = "anchor" /\ namespaceWriteSerialized
     /\ IF PgHere(f)
        THEN PgSetFeed([pc |-> "guard", inc |-> f.inc, start |-> start,
               cursor |-> start, boundary |-> pgDb.head, live |-> pgDb.head,
               drained |-> FALSE, halted |-> FALSE, replayed |-> <<>>,
               queue |-> <<>>, told |-> <<>>, cause |-> "none"])
        ELSE PgSetFeed([PgNoFeed EXCEPT !.pc = "refused"])
     /\ PgFeedOnly

PgOpen(f) == f.pc \notin {"idle", "anchor", "refused"}
PgFinish(f, cause) == [f EXCEPT !.pc = "done",
                         !.cause = IF @ = "none" THEN cause ELSE @]

\* ChangeReplay.Next, under the write lock.
PgReplayNext ==
  LET f == pgFeed
      page == PgPageOf(PgAfter(f, f.cursor, f.boundary))
  IN /\ PgOpen(f) /\ ~f.halted /\ ~f.drained /\ namespaceWriteSerialized
     /\ IF ~PgHere(f)
        THEN PgSetFeed([f EXCEPT !.halted = TRUE,
               !.cause = IF @ = "none" THEN "lifetime" ELSE @])
        ELSE PgSetFeed([f EXCEPT !.drained = page = <<>>, !.replayed = @ \o page,
                          !.cursor = PgLast(page, @)])
     /\ PgFeedOnly

\* One turn of run: is the lifetime still there, and is anything pending.
pgGuard ==
  /\ pgFeed.pc = "guard"
  /\ PgSetFeed(IF PgHere(pgFeed) THEN [pgFeed EXCEPT !.pc = "pending"]
               ELSE PgFinish(pgFeed, "lifetime"))
  /\ PgFeedOnly

pgPending ==
  /\ pgFeed.pc = "pending"
  /\ PgSetFeed([pgFeed EXCEPT !.pc =
       IF pgDb.gen = pgFeed.inc[1] /\ PgAfter(pgFeed, pgFeed.live, pgDb.head) = <<>>
       THEN "wait" ELSE "fetch"])
  /\ PgFeedOnly

\* A live page: the pin on the namespace and the look at the table, then the
\* records.  No writer waits for it.
pgFetchLive ==
  /\ pgFeed.pc = "fetch"
  /\ PgSetFeed(IF PgHere(pgFeed) THEN [pgFeed EXCEPT !.pc = "page"]
               ELSE PgFinish(pgFeed, "lifetime"))
  /\ PgFeedOnly

pgLivePage ==
  LET f == pgFeed
      page == PgPageOf(PgAfter(f, f.live, pgDb.head))
      room == PgQueue - Len(f.queue)
      fits == Len(page) <= room
      next == [f EXCEPT !.live = PgLast(page, @),
                        !.queue = @ \o SubSeq(page, 1, IF fits THEN Len(page) ELSE room)]
  IN /\ f.pc = "page"
     /\ PgSetFeed(IF ~fits THEN PgFinish(next, "overflow")
                  ELSE [next EXCEPT !.pc = IF Len(page) < PgPage THEN "pending" ELSE "fetch"])
     /\ PgFeedOnly

\* A notification or the ticker; a session halted by its replay stops here.
pgWait ==
  /\ pgFeed.pc = "wait"
  /\ PgSetFeed([pgFeed EXCEPT !.pc = IF @ = "wait" /\ pgFeed.halted THEN "done" ELSE "guard"])
  /\ PgFeedOnly

\* A session that was halted may still deliver what is queued: the two cases
\* of the select are both ready.
pgDrain ==
  /\ PgOpen(pgFeed) /\ pgFeed.queue # <<>>
  /\ PgSetFeed([pgFeed EXCEPT !.told = Append(@, Head(pgFeed.queue)), !.queue = Tail(@)])
  /\ PgFeedOnly

(***************************************************************************)
(* The specification.                                                      *)
(***************************************************************************)
PgInit ==
  /\ pgScene \in PgScenes
  /\ pgDb = PgDatabase(1, IF "migrate" \in pgScene THEN Constrained \ {"unique"}
                          ELSE Constrained)
  /\ pgTx = [s \in PgSessions |-> PgNoTx]
  /\ pgClient = [c \in PgClients |-> PgIdle]
  /\ pgMig = PgNoMig /\ pgFeed = PgNoFeed /\ pgAcks = {}
  /\ pgLeft = [calls |-> PgCalls[pgScene], losses |-> PgLosses, drops |-> PgDrops,
               schemas |-> PgSchemas, vacuums |-> PgVacuums]

PgClientStep(c) == PgCall(c) \/ PgRead(c) \/ PgBegin(c) \/ PgCommit(c) \/ PgCommitLost(c)

PgMigrationStep ==
  \/ PgMigrate \/ PgMigrateRead \/ embedPage \/ writeStagedVectors
  \/ PgMigrateApply \/ PgMigrateCommit

PgFeedStep ==
  \/ listenIncarnation \/ pgAnchorListen \/ PgReplayNext \/ pgGuard \/ pgPending
  \/ pgFetchLive \/ pgLivePage \/ pgWait \/ pgDrain

PgNext ==
  \/ \E c \in PgClients : PgClientStep(c)
  \/ \E t \in PgTables : PgDropTable(t) \/ PgCreateTable(t)
  \/ PgDropNamespace \/ PgCreateNamespace \/ dropAbandonedStages
  \/ PgMigrationStep
  \/ PgFeedStep

PgSpec == PgInit /\ [][PgNext]_pgVars

(***************************************************************************)
(* Properties.                                                             *)
(***************************************************************************)
PgLog == {pgDb.changes[i] : i \in 1..Len(pgDb.changes)}

\* A keyed insert, import or batch is applied by one commit for as long as
\* its tables live, however often it is sent and by whom, and an insert, alone
\* or in a batch, that was answered with success is in the log while its
\* tables live (readIdempotency, lookupBatchIdem and importReceipt, looked up
\* again in the write transaction).  An import may find its row as it is.
PgOnce ==
  /\ \A a, b \in PgLog : a.key = b.key /\ a.key # NoTag => a.commit = b.commit
  /\ \A k \in pgAcks :
       k.gen = pgDb.gen /\ k.tag.dom # "import"
         /\ (\A i \in 1..Len(k.ws) : pgDb.tab[k.ws[i].tab].drop = k.tag.at[i])
         /\ (\E i \in 1..Len(k.ws) : k.ws[i].op = "insert")
       => \E a \in PgLog : a.key = k.tag

\* Every committed row of a vectorized table carries the vector of the text
\* it holds now, and no row of another table any: across writes prepared
\* before a migration, staged vectors and drops (schema_json compared in the
\* write, applyEmbeddings by digest).
PgVectors ==
  \A t \in PgTables : \A r \in pgDb.tab[t].rows :
    r.vec = IF pgDb.tab[t].vec THEN r.text ELSE "none"

\* The constraints declared hold of what is committed, whatever writes,
\* batches, deletes, drops and migrations run (constrained, RefuseReferencedDrop).
PgConstraints ==
  \A t \in PgTables : pgDb.tab[t].active => CheckUnique(pgDb, t) /\ CheckForeign(pgDb, t)

\* The changes of the session's lifetime of the table between two positions.
PgDue(f, low, high) ==
  SelectSeq(pgDb.changes, LAMBDA r : <<r.tab, r.drop>> = <<"t", f.inc[2]>>
                                     /\ r.pos \in low + 1 .. high)

\* A session's replay and its live part meet at the head it was anchored at:
\* what the replay returned is everything from its start, be it a token, up to
\* its cursor, what the callback was or will be told is everything after the
\* head, in order, once, and the live position has skipped nothing; a queue
\* that fills inside a page keeps a prefix (anchorListen, changesSinceMode).
PgFeed ==
  PgOpen(pgFeed) /\ pgDb.gen = pgFeed.inc[1] =>
    /\ pgFeed.replayed = PgDue(pgFeed, pgFeed.start, pgFeed.cursor)
    /\ pgFeed.cursor <= pgFeed.boundary \/ pgFeed.replayed = <<>>
    /\ pgFeed.drained => PgDue(pgFeed, pgFeed.cursor, pgFeed.boundary) = <<>>
    /\ IsPrefix(pgFeed.told \o pgFeed.queue, PgDue(pgFeed, pgFeed.boundary, pgFeed.live))
    /\ pgFeed.cause = "none" =>
         pgFeed.told \o pgFeed.queue = PgDue(pgFeed, pgFeed.boundary, pgFeed.live)
=============================================================================
