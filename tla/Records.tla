------------------------------- MODULE Records -------------------------------
(***************************************************************************)
(* The rows of one SQLite table, their embeddings and their idempotency     *)
(* records (internal/store/insert.go, update.go, migrate*.go,               *)
(* embed_stage.go, idempotency.go) under concurrent inserts, updates,       *)
(* upserts, staged migrations, deletes, table drops, vacuums and server     *)
(* restarts.                                                                *)
(*                                                                         *)
(* A write reads the schema, calls the embedding provider without holding  *)
(* the write connection, and then re-checks what it read inside its one     *)
(* write transaction.  A migration embeds page by page into a stage table   *)
(* and stamps the staged vectors when it activates.  An action is one       *)
(* transaction or one read between two such points.                         *)
(***************************************************************************)
EXTENDS Integers, Sequences, FiniteSets, FiniteSetsExt

CONSTANTS
    Writers,      \* concurrent insert, update and upsert calls
    Migrators,    \* concurrent migrate calls
    RecordScenes, \* who does what in a behaviour, see RecordScene
    Texts,        \* values of the vectorized field, besides Empty
    Empty,        \* NULL or '': a text that is not embedded
    Providers,    \* embedding providers the server may be started with
    Dims,         \* dimensions a provider may answer with
    Keys,         \* idempotency keys, NoKey included where a call may have none
    NoKey,        \* no idempotency key
    Owners,       \* principals with an idempotency domain of their own
    Legacy,       \* LegacyIdempotencyOwner: the domain of unowned records
    TableWide,    \* the owners that read the whole table (TableWideRead)
    PageSize,     \* embedBackfillPage
    MaxId,        \* bound: rows ever inserted in one lifetime
    MaxSeq,       \* bound: changes ever committed
    MaxVersion    \* bound: schema versions

ASSUME RecordsAssumption ==
    /\ Empty \notin Texts /\ Legacy \notin Owners /\ "none" \notin Providers
    /\ TableWide \subseteq Owners
    /\ Dims \subseteq Nat \ {0} /\ PageSize \in Nat \ {0}
    /\ MaxId \in Nat /\ MaxSeq \in Nat /\ MaxVersion \in Nat

\* The calls made in a behaviour: writers and what they do, migrators, what they
\* do and whether they name the version they expect, the texts and the keys with
\* their owners, what providers there are and answer, and a bound on the drops.
RecordScene ==
    [writers : SUBSET Writers, ops : SUBSET {"insert", "update", "upsert"},
     migrators : SUBSET Migrators, changes : SUBSET {"on", "off", "add", "plain"},
     expects : SUBSET BOOLEAN, texts : SUBSET Texts, keys : SUBSET Keys,
     owners : SUBSET Owners, providers : SUBSET Providers, dims : SUBSET Dims, drops : Nat]

ASSUME SceneAssumption == \A s \in RecordScenes : s \in RecordScene

VARIABLES
    scene,     \* the member of RecordScenes this behaviour plays
    table,     \* [live, gen, sc]: sc is the stored schema
    rows,      \* id -> [text, vec]
    lastId,    \* the table's AUTOINCREMENT value
    changes,   \* _dolmen_changes: a sequence of [id, gen]
    stage,     \* _dolmen_embed_stage: a set of [gen, id, provider, vec]
    idem,      \* _dolmen_idempotency_owned: a set of [owner, key, text, id]
    provider,  \* the embedding provider of the running server
    writer,    \* per writer: the state of its call
    migrator,  \* per migrator: the state of its call
    vacuum,    \* dropAbandonedStages has found the table's stage abandoned
    inserted   \* history: [gen, owner, key, text, id] of every keyed insert

store   == <<table, rows, lastId, changes, stage, idem>>
server  == <<scene, provider, vacuum>>
vars == <<store, server, writer, migrator, inserted>>

NoSpace == "none"
NoVec   == [text |-> Empty, space |-> NoSpace, dim |-> 0]

\* The part of a TableSchema that writers and migrations race for.
Schema == [version : Nat, vectorize : BOOLEAN, space : Providers \cup {NoSpace}, dim : Nat]

maxAttempts        == 2   \* insert, updateOrUpsert: `attempt >= 2` gives up
maxMigrateAttempts == 3

DoneW == [pc |-> "idle"]
DoneM == [pc |-> "idle"]

HasRow(id) == id \in DOMAIN rows

\* mintChanges for one row.
Minted(id) == Append(changes, [id |-> id, gen |-> table.gen])
CanMint    == Len(changes) < MaxSeq

-----------------------------------------------------------------------------
\* embedTexts and embedForUpdate: nothing to embed, or a vector of the active
\* provider whose space and dimension the schema admits.  The schema in memory
\* learns the dimension.
Embeds(sc, text) == sc.vectorize /\ text # Empty

EmbedVector(sc, text, d) ==
    IF Embeds(sc, text) THEN [text |-> text, space |-> provider, dim |-> d] ELSE NoVec

EmbedAdmits(sc, text, d) ==
    Embeds(sc, text) => sc.space \in {NoSpace, provider} /\ sc.dim \in {0, d}

\* The embedding metadata the first vector pins (persistMeta).
Pinned(sc, vec) ==
    IF vec = NoVec THEN sc
    ELSE [sc EXCEPT !.space = IF @ = NoSpace THEN vec.space ELSE @,
                    !.dim = IF @ = 0 THEN vec.dim ELSE @]

\* Seeded fault: the re-check compares the generation and not the schema.
UnmovedGeneration(w) == table.live /\ table.gen = w.gen

\* The re-check inside the write transaction: nothing that was read has moved.
Unmoved(w) == table.live /\ table.gen = w.gen /\ table.sc = w.sc

-----------------------------------------------------------------------------
(* Idempotency records.                                                    *)

readIdem(owner, key) == {r \in idem : r.owner = owner /\ r.key = key}

\* Seeded fault: every owner falls back to the unowned records.
lookupIdemShared(owner, key) ==
    IF readIdem(owner, key) # {} THEN readIdem(owner, key) ELSE readIdem(Legacy, key)

\* lookupIdem: the owner's own record, else, for an owner that reads the whole
\* table, the unowned one.
lookupIdem(owner, key) ==
    IF readIdem(owner, key) # {} \/ owner \notin TableWide THEN readIdem(owner, key)
    ELSE readIdem(Legacy, key)

\* The call returns the id, which its client sees before it makes another one.
Answered(w, id) ==
    IF w.key = NoKey THEN DoneW
    ELSE [pc |-> "answered", owner |-> w.owner, key |-> w.key, text |-> w.text,
          began |-> w.began, id |-> id]

\* A record of the key answers the call: its ids for the same payload, a conflict
\* for another one.
Replayed(c, w) ==
    \E r \in lookupIdem(w.owner, w.key) :
        writer' = [writer EXCEPT ![c] = IF r.text = w.text THEN Answered(w, r.id) ELSE DoneW]

-----------------------------------------------------------------------------
(* Insert, update and upsert.                                              *)

WriteStart(c, op, text, key, owner, id) ==
    /\ writer[c].pc \in {"idle", "answered"}
    /\ IF op = "insert" THEN id = 0 ELSE id # 0 /\ key = NoKey
    /\ key = NoKey => owner = Legacy
    /\ writer' = [writer EXCEPT ![c] =
          [pc |-> IF op = "insert" THEN "gen" ELSE "read", op |-> op, text |-> text,
           key |-> key, owner |-> owner, id |-> id, attempt |-> 0, began |-> table.gen,
           gen |-> 0, sc |-> table.sc, vec |-> NoVec]]
    /\ UNCHANGED <<store, server, migrator, inserted>>

\* insertAttempt reads the drop generation and then, in another read, the schema.
InsertGen(c) ==
    /\ writer[c].pc = "gen"
    /\ writer' = [writer EXCEPT ![c].pc = "schema", ![c].gen = table.gen]
    /\ UNCHANGED <<store, server, migrator, inserted>>

InsertSchema(c) ==
    /\ writer[c].pc = "schema" /\ table.live
    /\ writer' = [writer EXCEPT ![c].pc = IF writer[c].key = NoKey THEN "embed" ELSE "lookup",
                                ![c].sc = table.sc]
    /\ UNCHANGED <<store, server, migrator, inserted>>

\* The look-up outside the transaction.
InsertLookup(c) ==
    LET w == writer[c] IN
    /\ w.pc = "lookup"
    /\ IF lookupIdem(w.owner, w.key) = {}
       THEN writer' = [writer EXCEPT ![c].pc = "embed"]
       ELSE Replayed(c, w)
    /\ UNCHANGED <<store, server, migrator, inserted>>

\* updateAttempt reads schema, generation and the match count in one transaction.
\* Without a match, and without an insert to fall back to, nothing is embedded.
UpdateRead(c) ==
    LET w == writer[c] IN
    /\ w.pc = "read" /\ table.live
    /\ writer' = [writer EXCEPT
          ![c].pc = IF HasRow(w.id) \/ w.op = "upsert" THEN "embed" ELSE "tx",
          ![c].sc = table.sc, ![c].gen = table.gen]
    /\ UNCHANGED <<store, server, migrator, inserted>>

\* The provider is called, with no lock held.
Embed(c) ==
    LET w == writer[c] IN
    /\ w.pc = "embed"
    /\ \E d \in scene.dims :
          /\ EmbedAdmits(w.sc, w.text, d)
          /\ writer' = [writer EXCEPT ![c].pc = "tx", ![c].vec = EmbedVector(w.sc, w.text, d)]
    /\ UNCHANGED <<store, server, migrator, inserted>>

\* The table is missing, the provider fails or does not fit the table, or the
\* transaction fails (a constraint, a full disk) and is rolled back.
WriteFails(c) ==
    /\ \/ writer[c].pc \in {"schema", "read"} /\ ~table.live
       \/ writer[c].pc = "embed" /\ Embeds(writer[c].sc, writer[c].text)
       \/ writer[c].pc = "tx"
    /\ writer' = [writer EXCEPT ![c] = DoneW]
    /\ UNCHANGED <<store, server, migrator, inserted>>

\* What was read has moved: start over, or give up after the third attempt.
WriteRetry(c) ==
    LET w == writer[c] IN
    /\ w.pc = "tx" /\ table.live /\ ~Unmoved(w)
    /\ writer' = [writer EXCEPT ![c] =
          IF w.attempt >= maxAttempts THEN DoneW
          ELSE [w EXCEPT !.pc = IF w.op = "insert" THEN "gen" ELSE "read",
                         !.attempt = @ + 1, !.vec = NoVec]]
    /\ UNCHANGED <<store, server, migrator, inserted>>

\* The look-up inside the transaction finds the record of a call that won.
InsertReplay(c) ==
    LET w == writer[c] IN
    /\ w.pc = "tx" /\ w.op = "insert" /\ Unmoved(w) /\ w.key # NoKey
    /\ lookupIdem(w.owner, w.key) # {}
    /\ Replayed(c, w)
    /\ UNCHANGED <<store, server, migrator, inserted>>

\* A new row with its embedding, the pinned metadata, the change and the
\* idempotency record, in one transaction.
InsertRow(c, vec) ==
    LET w  == writer[c]
        id == lastId + 1
    IN /\ id <= MaxId /\ CanMint
       /\ rows' = [i \in DOMAIN rows \cup {id} |->
                     IF i = id THEN [text |-> w.text, vec |-> vec] ELSE rows[i]]
       /\ lastId' = id
       /\ table' = [table EXCEPT !.sc = Pinned(w.sc, vec)]
       /\ changes' = Minted(id)
       /\ idem' = IF w.key = NoKey THEN idem
                  ELSE idem \cup {[owner |-> w.owner, key |-> w.key, text |-> w.text,
                                   id |-> id]}
       /\ inserted' = IF w.key = NoKey THEN inserted
                      ELSE inserted \cup {[gen |-> table.gen, owner |-> w.owner,
                                           key |-> w.key, text |-> w.text, id |-> id]}
       /\ writer' = [writer EXCEPT ![c] = Answered(w, id)]
       /\ UNCHANGED <<stage, server, migrator>>

\* Seeded fault: the look-up before the transaction is trusted inside it.
InsertTxUnchecked(c) ==
    LET w == writer[c] IN
    /\ w.pc = "tx" /\ w.op = "insert" /\ Unmoved(w)
    /\ InsertRow(c, w.vec)

InsertTx(c) ==
    LET w == writer[c] IN
    /\ w.pc = "tx" /\ w.op = "insert" /\ Unmoved(w)
    /\ w.key # NoKey => lookupIdem(w.owner, w.key) = {}
    /\ InsertRow(c, w.vec)

UpsertTx(c) ==
    LET w == writer[c] IN
    /\ w.pc = "tx" /\ w.op = "upsert" /\ Unmoved(w) /\ ~HasRow(w.id)
    /\ InsertRow(c, w.vec)

\* The filter matches inside the transaction: a vector that was not made before
\* (vectorMissingInsideWriter) is made here, the provider willing.  Without a
\* vectorized field the row's _embedding is not assigned.
UpdateTx(c) ==
    LET w == writer[c] IN
    /\ w.pc = "tx" /\ w.op # "insert" /\ Unmoved(w) /\ HasRow(w.id)
    /\ \E d \in scene.dims :
          LET vec == IF w.vec = NoVec THEN EmbedVector(w.sc, w.text, d) ELSE w.vec
          IN /\ w.vec = NoVec => EmbedAdmits(w.sc, w.text, d)
             /\ rows' = [rows EXCEPT ![w.id] =
                   [text |-> w.text, vec |-> IF w.sc.vectorize THEN vec ELSE @.vec]]
             /\ table' = [table EXCEPT !.sc = Pinned(w.sc, vec)]
    /\ CanMint /\ changes' = Minted(w.id)
    /\ writer' = [writer EXCEPT ![c] = DoneW]
    /\ UNCHANGED <<lastId, stage, idem, server, migrator, inserted>>

\* An update that matches nothing commits nothing.
UpdateNone(c) ==
    LET w == writer[c] IN
    /\ w.pc = "tx" /\ w.op = "update" /\ Unmoved(w) /\ ~HasRow(w.id)
    /\ writer' = [writer EXCEPT ![c] = DoneW]
    /\ UNCHANGED <<store, server, migrator, inserted>>

-----------------------------------------------------------------------------
(* Migrate.                                                                *)

\* planMigration: does the change embed, from the rows' own text ("on") or from
\* the default of an added field ("add"), and what does the schema become.
Planned(kind, sc) ==
    LET embedding == ~sc.vectorize /\ kind \in {"on", "add"} IN
    [embedding |-> embedding,
     constant  |-> embedding /\ kind = "add",
     clear     |-> \/ embedding /\ sc.space \notin {NoSpace, provider}
                   \/ kind = "off" /\ sc.vectorize,
     sc        |-> [version   |-> sc.version + 1,
                    vectorize |-> IF kind \in {"on", "add"} THEN TRUE
                                  ELSE IF kind = "off" THEN FALSE ELSE sc.vectorize,
                    space     |-> IF embedding THEN provider ELSE sc.space,
                    dim       |-> IF embedding THEN 0 ELSE sc.dim]]

\* A second vectorized field is refused.
Plannable(kind, sc) == ~(kind = "add" /\ sc.vectorize)

\* checkBoundLifetime and checkExpectedVersion.
AsExpected(m) == m.expected = <<>> \/ m.expected = <<table.gen, table.sc.version>>

\* loadStagedVectors: the vectors staged under a lifetime and the provider.
StagedFor(gen, id) == {s \in stage : s.gen = gen /\ s.id = id /\ s.provider = provider}

\* backfillPage and stagedSourcePage: the next rows whose text is to be embedded.
SourcePage(after) ==
    LET todo == {i \in DOMAIN rows : i > after /\ rows[i].text # Empty}
    IN  {i \in todo : Cardinality({j \in todo : j < i}) < PageSize}

\* errMigrateRetry: the next attempt starts from nothing but the stage.
Again(m) == [m EXCEPT !.pc = "plan", !.attempt = @ + 1, !.after = 0, !.head = 0,
                      !.snapshot = {}]

MigrateStart(c, kind, bound) ==
    /\ migrator[c].pc = "idle"
    /\ migrator' = [migrator EXCEPT ![c] =
          [pc |-> "plan", kind |-> kind, attempt |-> 0, firstGen |-> -1, gen |-> 0,
           expected |-> IF bound THEN <<table.gen, table.sc.version>> ELSE <<>>,
           dim |-> 0, after |-> 0, page |-> {}, fresh |-> {}, constant |-> NoVec, head |-> 0,
           snapshot |-> {}]]
    /\ UNCHANGED <<store, server, writer, inserted>>

\* readMigratePlan: each attempt plans again, and refuses a table that was replaced
\* since the first one.
MigratePlan(c) ==
    LET m == migrator[c] IN
    /\ m.pc = "plan" /\ table.live /\ AsExpected(m) /\ Plannable(m.kind, table.sc)
    /\ m.firstGen \in {-1, table.gen} /\ m.attempt <= maxMigrateAttempts
    /\ migrator' = [migrator EXCEPT ![c] =
          [m EXCEPT !.pc = IF Planned(m.kind, table.sc).embedding
                           THEN IF m.kind = "add" THEN "constant" ELSE "page"
                           ELSE "activate",
                    !.firstGen = table.gen, !.gen = table.gen]]
    /\ UNCHANGED <<store, server, writer, inserted>>

\* stageBackfill with a constant default: one vector for all rows.
MigrateConstant(c) ==
    /\ migrator[c].pc = "constant"
    /\ \E d \in scene.dims, t \in scene.texts :
          migrator' = [migrator EXCEPT ![c].pc = "cover",
             ![c].constant = [text |-> t, space |-> provider, dim |-> d]]
    /\ UNCHANGED <<store, server, writer, inserted>>

\* stageBackfill, one page: read the rows ...
BackfillPage(c) ==
    LET m    == migrator[c]
        page == SourcePage(m.after)
    IN /\ m.pc = "page" /\ table.live
       /\ migrator' = [migrator EXCEPT
             ![c].pc = IF page = {} THEN "cover" ELSE "load",
             ![c].dim = IF page = {} THEN 0 ELSE m.dim,
             ![c].page = {[id |-> i, text |-> rows[i].text] : i \in page}]
       /\ UNCHANGED <<store, server, writer, inserted>>

\* ... leave out those that are staged with the same text already ...
BackfillLoad(c) ==
    LET m == migrator[c] IN
    /\ m.pc = "load"
    /\ migrator' = [migrator EXCEPT ![c].pc = "stage",
          ![c].fresh = {r \in m.page : ~\E s \in StagedFor(m.gen, r.id) : s.vec.text = r.text}]
    /\ UNCHANGED <<store, server, writer, inserted>>

\* ... embed the rest, of one dimension throughout (checkBackfillVectors), and
\* stage them (stagePage, writeStagedVectors).
BackfillStage(c) ==
    LET m   == migrator[c]
        ids == {r.id : r \in m.fresh}
    IN /\ m.pc = "stage"
       /\ \E d \in scene.dims :
             /\ m.fresh # {} => m.dim \in {0, d}
             /\ stage' = {s \in stage : ~(s.gen = m.gen /\ s.id \in ids /\ s.provider = provider)}
                  \cup {[gen |-> m.gen, id |-> r.id, provider |-> provider,
                         vec |-> [text |-> r.text, space |-> provider, dim |-> d]] : r \in m.fresh}
             /\ migrator' = [migrator EXCEPT ![c].pc = "page", ![c].page = {}, ![c].fresh = {},
                   ![c].after = Max({r.id : r \in m.page}),
                   ![c].dim = IF m.fresh = {} THEN m.dim ELSE d]
       /\ UNCHANGED <<table, rows, lastId, changes, idem, server, writer, inserted>>

\* coverageCheck: the head and the stage of one read transaction ...
CoverageHead(c) ==
    LET m == migrator[c] IN
    /\ m.pc = "cover"
    /\ migrator' = [migrator EXCEPT
          ![c].pc = IF m.kind = "add" THEN "activate" ELSE "covering",
          ![c].head = Len(changes), ![c].after = 0,
          ![c].snapshot = {s \in stage : s.gen = m.gen /\ s.provider = provider}]
    /\ UNCHANGED <<store, server, writer, inserted>>

\* ... compared with pages that are each read in a transaction of their own.
CoveragePage(c) ==
    LET m    == migrator[c]
        page == SourcePage(m.after)
        held == \A i \in page : \E s \in m.snapshot : s.id = i /\ s.vec.text = rows[i].text
    IN /\ m.pc = "covering" /\ table.live
       /\ migrator' = [migrator EXCEPT ![c] =
             IF ~held THEN Again(m)
             ELSE IF page = {} THEN [m EXCEPT !.pc = "activate", !.after = 0, !.snapshot = {}]
             ELSE [m EXCEPT !.after = Max(page)]]
       /\ UNCHANGED <<store, server, writer, inserted>>

\* rowsStaleSince: a row touched since the coverage check is not staged as it is.
rowsStaleSince(m) ==
    \E q \in m.head + 1 .. Len(changes) :
        LET id == changes[q].id IN
        /\ changes[q].gen = m.gen /\ HasRow(id) /\ rows[id].text # Empty
        /\ ~\E s \in StagedFor(m.gen, id) : s.vec.text = rows[id].text

\* stampStagedVectors: every row with a text has its vector staged for that text.
Stampable(m) ==
    \A i \in DOMAIN rows : rows[i].text # Empty =>
        \E s \in StagedFor(m.gen, i) : s.vec.text = rows[i].text

ClearedRows == [i \in DOMAIN rows |-> [rows[i] EXCEPT !.vec = NoVec]]

StampedRows(m, base) ==
    [i \in DOMAIN rows |->
        IF rows[i].text = Empty THEN base[i]
        ELSE [base[i] EXCEPT !.vec = CHOOSE v \in {s.vec : s \in StagedFor(m.gen, i)} : TRUE]]

\* The default of an added field is every row's text, and has one vector.
ConstantRows(m) == [i \in DOMAIN rows |-> [text |-> m.constant.text, vec |-> m.constant]]

\* The rows after an activation, all of whose steps are one transaction.
ActivatedRows(m, p) ==
    LET base == IF p.clear THEN ClearedRows ELSE rows
    IN  IF p.constant THEN ConstantRows(m)
        ELSE IF p.embedding THEN StampedRows(m, base) ELSE base

VectorDims(rs) == {rs[i].vec.dim : i \in {j \in DOMAIN rs : rs[j].vec # NoVec}}

\* activateMigration refuses a table that is gone, replaced or not as expected.
MayActivate(m) ==
    table.live /\ AsExpected(m) /\ table.gen = m.gen /\ Plannable(m.kind, table.sc)

\* It plans again inside its transaction; a row whose present text is not staged
\* sends it back to the start.
Stale(m) ==
    LET p == Planned(m.kind, table.sc)
    IN  p.embedding /\ ~p.constant /\ (rowsStaleSince(m) \/ ~Stampable(m))

MigrateRetry(c) ==
    LET m == migrator[c] IN
    /\ m.pc = "activate" /\ MayActivate(m) /\ Stale(m)
    /\ migrator' = [migrator EXCEPT ![c] = Again(m)]
    /\ UNCHANGED <<store, server, writer, inserted>>

\* Stamp the vectors, run the change, save the schema, drop the table's stage.
MigrateActivate(c) ==
    LET m  == migrator[c]
        p  == Planned(m.kind, table.sc)
        rs == ActivatedRows(m, p)
    IN /\ m.pc = "activate" /\ MayActivate(m) /\ ~Stale(m)
       /\ table.sc.version < MaxVersion
       /\ p.embedding => Cardinality(VectorDims(rs)) <= 1
       /\ rows' = rs
       /\ table' = [table EXCEPT !.sc =
             [p.sc EXCEPT !.dim = IF p.embedding /\ VectorDims(rs) # {}
                                  THEN Max(VectorDims(rs)) ELSE @]]
       /\ stage' = {}
       /\ migrator' = [migrator EXCEPT ![c] = DoneM]
       /\ UNCHANGED <<lastId, changes, idem, server, writer, inserted>>

\* A migration gives up: the table is gone, replaced or not as expected, the
\* provider fails or changes its dimension, the activation fails and is rolled
\* back, or every attempt lost its race.
MigrateFails(c) ==
    LET m == migrator[c] IN
    /\ \/ m.pc = "plan" /\ ~(/\ table.live /\ AsExpected(m) /\ Plannable(m.kind, table.sc)
                             /\ m.firstGen \in {-1, table.gen})
       \/ m.pc = "plan" /\ m.attempt > maxMigrateAttempts
       \/ m.pc \in {"page", "covering"} /\ ~table.live
       \/ m.pc \in {"constant", "stage", "activate"}
    /\ migrator' = [migrator EXCEPT ![c] = DoneM]
    /\ UNCHANGED <<store, server, writer, inserted>>

-----------------------------------------------------------------------------
(* The rest of the table's life.                                           *)

\* A delete that matches the row, with its change.
Delete(id) ==
    /\ table.live /\ HasRow(id) /\ CanMint
    /\ rows' = [i \in DOMAIN rows \ {id} |-> rows[i]]
    /\ changes' = Minted(id)
    /\ UNCHANGED <<table, lastId, stage, idem, server, writer, migrator, inserted>>

DropTable ==
    /\ table.live /\ table.gen < scene.drops
    /\ table' = [table EXCEPT !.live = FALSE, !.gen = @ + 1]
    /\ rows' = [i \in {} |-> NoVec] /\ lastId' = 0
    /\ stage' = {} /\ idem' = {}
    /\ UNCHANGED <<changes, server, writer, migrator, inserted>>

NewSchema(vectorize) ==
    [version |-> 1, vectorize |-> vectorize, space |-> NoSpace, dim |-> 0]

CreateTable(vectorize) ==
    /\ ~table.live
    /\ table' = [table EXCEPT !.live = TRUE, !.sc = NewSchema(vectorize)]
    /\ UNCHANGED <<rows, lastId, changes, stage, idem, server, writer, migrator, inserted>>

\* dropAbandonedStages: no migration runs when it looks ...
VacuumLooks ==
    /\ ~vacuum /\ stage # {} /\ \A c \in Migrators : migrator[c].pc = "idle"
    /\ vacuum' = TRUE
    /\ UNCHANGED <<scene, store, provider, writer, migrator, inserted>>

\* ... but one may by the time its transaction deletes.
VacuumDeletes ==
    /\ vacuum
    /\ stage' = {} /\ vacuum' = FALSE
    /\ UNCHANGED <<scene, table, rows, lastId, changes, idem, provider, writer,
                   migrator, inserted>>

\* The server stops at any point and starts again, perhaps with another provider:
\* the calls are gone, what was committed stays.
Restart ==
    /\ provider' \in scene.providers
    /\ writer' = [c \in Writers |-> DoneW] /\ migrator' = [c \in Migrators |-> DoneM]
    /\ vacuum' = FALSE
    /\ UNCHANGED <<scene, store, inserted>>

-----------------------------------------------------------------------------
Init ==
    /\ \E v \in BOOLEAN : table = [live |-> TRUE, gen |-> 0, sc |-> NewSchema(v)]
    /\ rows = [i \in {} |-> NoVec] /\ lastId = 0 /\ changes = <<>>
    /\ stage = {} /\ idem = {}
    /\ scene \in RecordScenes /\ provider \in scene.providers /\ vacuum = FALSE
    /\ writer = [c \in Writers |-> DoneW] /\ migrator = [c \in Migrators |-> DoneM]
    /\ inserted = {}

Write(c) ==
    \/ InsertGen(c) \/ InsertSchema(c) \/ InsertLookup(c) \/ UpdateRead(c) \/ Embed(c)
    \/ WriteFails(c) \/ WriteRetry(c) \/ InsertReplay(c) \/ InsertTx(c) \/ UpsertTx(c)
    \/ UpdateTx(c) \/ UpdateNone(c)

Migrate(c) ==
    \/ MigratePlan(c) \/ MigrateConstant(c) \/ BackfillPage(c) \/ BackfillLoad(c)
    \/ BackfillStage(c) \/ CoverageHead(c) \/ CoveragePage(c) \/ MigrateRetry(c)
    \/ MigrateActivate(c) \/ MigrateFails(c)

Next ==
    \/ \E c \in scene.writers :
          \/ Write(c)
          \/ \E op \in scene.ops, text \in scene.texts \cup {Empty}, key \in scene.keys,
                owner \in scene.owners \cup {Legacy}, id \in 0 .. MaxId :
                WriteStart(c, op, text, key, owner, id)
    \/ \E c \in scene.migrators :
          \/ Migrate(c)
          \/ \E kind \in scene.changes, bound \in scene.expects : MigrateStart(c, kind, bound)
    \/ \E id \in 1 .. MaxId : Delete(id)
    \/ DropTable \/ \E v \in BOOLEAN : CreateTable(v)
    \/ VacuumLooks \/ VacuumDeletes \/ Restart

Spec == Init /\ [][Next]_vars

-----------------------------------------------------------------------------
TypeOK ==
    /\ table.live \in BOOLEAN /\ table.gen \in Nat /\ table.sc \in Schema
    /\ DOMAIN rows \subseteq 1 .. lastId
    /\ stage \subseteq [gen : Nat, id : Nat \ {0}, provider : Providers,
                        vec : [text : Texts, space : Providers, dim : Dims]]
    /\ \A r \in idem : r.id \in 1 .. lastId
    /\ provider \in Providers

\* While a field is vectorized, every row has the embedding of the text it holds
\* now, all in the table's one space and dimension: no interleaving of writes,
\* migrations, drops and restarts leaves a row without its vector, with the vector
\* of an earlier text, or with one of another provider.
VectorsMatch ==
    table.live /\ table.sc.vectorize =>
        \A i \in DOMAIN rows :
            rows[i].vec = IF rows[i].text = Empty THEN NoVec
                          ELSE [text |-> rows[i].text, space |-> table.sc.space,
                                dim |-> table.sc.dim]

\* And while none is, no row keeps one (migrate off clears them).
NoVectorsLeft ==
    table.live /\ ~table.sc.vectorize => \A i \in DOMAIN rows : rows[i].vec = NoVec

\* A keyed insert happens at most once in a table's lifetime, however often it is
\* retried, by whom of its owner's clients, and wherever the server stopped.
ExactlyOnce ==
    \A a, b \in inserted : (a.gen = b.gen /\ a.owner = b.owner /\ a.key = b.key) => a = b

\* A keyed call is answered with the row of that key and payload, inserted by the
\* same owner, or by an unowned call when the owner reads the whole table, and never
\* with a row of a lifetime that had ended before the call began.
AnswersFit ==
    \A c \in Writers : writer[c].pc = "answered" => \E r \in inserted :
        LET a == writer[c] IN
        /\ r.id = a.id /\ r.key = a.key /\ r.text = a.text
        /\ r.owner = a.owner \/ (r.owner = Legacy /\ a.owner \in TableWide)
        /\ r.gen >= a.began

\* The three invariants a caller meets one by one, together.
RecordsSafe == TypeOK /\ NoVectorsLeft /\ AnswersFit
=============================================================================
