----------------------------- MODULE Lakehouse -----------------------------
(***************************************************************************)
(* The lakehouse engine (internal/lakehouse): one namespace, its SQLite    *)
(* catalog, the commit journal in it, the Iceberg tables the journal is    *)
(* materialized into, and everything that runs beside the one gate that    *)
(* serialises operations: SQL queries in a sidecar, a listen session, a    *)
(* staged migration, an offline backup and the end of the process.         *)
(*                                                                         *)
(* A write is durable when its row of _dolmen_lakehouse_commits is; the    *)
(* data files follow in steps that may fail or be cut short.  A batch (and *)
(* a migration of a populated table) is a sequence of such transactions    *)
(* bracketed by a copy of the catalog and an intent row: whoever opens the *)
(* namespace next puts the copy back.                                      *)
(***************************************************************************)
EXTENDS Naturals, FiniteSets, Sequences

LOCAL INSTANCE SequencesExt

CONSTANTS
  LakeTables,    \* table names
  LakeValues,    \* what a row's one field holds
  LakeScenes,    \* the sets of actors a behaviour may run
  LakeCommits,   \* bound: rows of the commit journal, for every scene
  LakeCrashes,   \* bound: process ends
  LakeFaults,    \* bound: failing steps
  LakeVacuums,   \* bound: vacuums
  LakeDrops,     \* bound: table and namespace drops
  LakePage,      \* MaxChangesPageLimit
  LakeQueue      \* ListenQueueBound

LakeActors == {"write", "batch", "query", "listen", "migrate", "vacuum",
               "backup", "drop", "fault", "crash"}

ASSUME LakeAssumption ==
  /\ LakeScenes \subseteq SUBSET LakeActors
  /\ LakeCommits \in [LakeScenes -> Nat]
  /\ {LakePage, LakeQueue} \subseteq Nat \ {0}

VARIABLES
  lkScene,    \* the actors of this behaviour
  lkCat,      \* catalog.db
  lkJournal,  \* catalog.db.batch: a catalog, or NoJournal
  lkDisk,     \* data files: name -> rows
  lkPub,      \* dolmen-current.metadata.json, by table and incarnation
  lkMem,      \* the open namespace: [open, pending]
  lkOp,       \* the operation that holds the gate
  lkQuery,    \* one SQL query and the sidecar it runs in
  lkFeed,     \* one listen session
  lkMig,      \* one migration between its turns at the gate
  lkBack,     \* one backup
  lkStamp,    \* vacuum.stamp
  lkTrash,    \* files of dropped tables, removed when the sidecars drained
  lkHist,     \* every state the acknowledged operations went through
  lkLeft      \* what is left of the bounds

lakeVars == <<lkScene, lkCat, lkJournal, lkDisk, lkPub, lkMem, lkOp, lkQuery,
              lkFeed, lkMig, lkBack, lkStamp, lkTrash, lkHist, lkLeft>>

(***************************************************************************)
(* Tables and their rows.                                                  *)
(***************************************************************************)
NoVector == "none"

\* A table of the Iceberg catalog: its incarnation, schema version and the
\* data files and deletes of its current snapshot; marks are the commits
\* that the snapshots still listed name in their summaries.
NativeTable(exists, gen) ==
  [exists |-> exists, gen |-> gen, ver |-> 1, snap |-> FALSE,
   files |-> {}, dead |-> {}, marks |-> {}]

FreshCatalog(nsGen) ==
  [nsGen |-> nsGen, tab |-> [t \in LakeTables |-> NativeTable(TRUE, 0)],
   log |-> <<>>, next |-> [t \in LakeTables |-> 1], changes |-> <<>>,
   batches |-> {}, stage |-> {}, intent |-> FALSE]

NoJournal == [nsGen |-> 0]

\* publishCurrentMetadata for the tables ts of catalog c.
Published(c, ts) ==
  [x \in DOMAIN lkPub |-> IF x[1] \in ts /\ x[2] = c.tab[x[1]].gen THEN c.tab[x[1]]
                         ELSE lkPub[x]]

HasFile(disk, f) == f \in DOMAIN disk

\* scanRows: the rows of a table's snapshot, read through its data files.
scanRows(c, disk, t) ==
  UNION {{r \in disk[f] : <<f, r.id>> \notin c.tab[t].dead} :
           f \in {g \in c.tab[t].files : HasFile(disk, g)}}

\* A commit's payload: rows deleted and rows added.
Replayed(rows, p) == {r \in rows : r.id \notin p.del} \cup p.add

Unmaterialized(c, t) ==
  SelectSeq(c.log, LAMBDA p : /\ ~p.done /\ p.tab = t
                              /\ p.gen = c.tab[t].gen
                              /\ p.id \notin c.tab[t].marks)

\* What a catalog and its files amount to once the journal is replayed.
Content(c, disk) ==
  [t \in LakeTables |->
     IF ~c.tab[t].exists THEN [ver |-> 0, rows |-> {}]
     ELSE [ver |-> c.tab[t].ver,
           rows |-> FoldLeft(Replayed, scanRows(c, disk, t),
                             Unmaterialized(c, t))]]

pendingCommits(c) == Cardinality({i \in DOMAIN c.log : ~c.log[i].done})

\* recoverBatch: the catalog the next open ends up with.
Recovered == IF lkCat.intent THEN lkJournal ELSE lkCat

Truth == lkHist[Len(lkHist)]
Record(state) == lkHist' = Append(lkHist, state)

(***************************************************************************)
(* The gate.  lkOp.pc says where its holder is; ws are the writes it still *)
(* has to make, post that its transaction is committed (a failure to       *)
(* materialize is then left to the next operation), b that it runs inside  *)
(* a batch, undo that the journal is being put back, goal what a batch     *)
(* amounts to so far.                                                      *)
(***************************************************************************)
NoOp == [k |-> "none", pc |-> "idle", ws |-> <<>>, b |-> FALSE,
         post |-> FALSE, undo |-> FALSE, goal |-> <<>>]

Take(k, ws) == [NoOp EXCEPT !.k = k, !.pc = "open", !.ws = ws]

MigrateTurns == {"mplan", "mstage", "mapply"}
Exclusive == {"batch", "mplan", "mapply", "vacuum"}

Lock(k, ws) ==
  /\ lkOp = NoOp
  /\ k \in Exclusive => ~lkQuery.held             \* the namespace's barrier
  /\ lkOp' = Take(k, ws)

At(pc) == lkOp.pc = pc
Goto(pc) == lkOp' = [lkOp EXCEPT !.pc = pc]
unlock == lkOp' = NoOp

\* held is the read side of the barrier; gen and snap are what the views of
\* the sidecar were made from.
NoQuery == [pc |-> "idle", t |-> 0, from |-> 0, sc |-> "none", held |-> FALSE,
            gen |-> 0, snap |-> FALSE, ans |-> {}]
NoFeed == [pc |-> "off", tab |-> "all", gen |-> 0, nsGen |-> 0, from |-> 0,
           at |-> 0, head |-> 0, live |-> 0, replayed |-> <<>>, queued |-> <<>>,
           told |-> 0]
NoMig == [pc |-> "off", t |-> 0, gen |-> 0, nsGen |-> 0, todo |-> {}, tries |-> 0]
NoBack == [pc |-> "off", stamp |-> 0, at |-> 0, cat |-> NoJournal, disk |-> <<>>,
           todo |-> {}]

LakeInit ==
  /\ lkScene \in LakeScenes
  /\ lkCat = FreshCatalog(1)
  /\ lkJournal = NoJournal
  /\ lkDisk = <<>>
  /\ lkPub = [x \in LakeTables \X (0 .. LakeDrops) |-> NativeTable(TRUE, x[2])]
  /\ lkMem = [open |-> FALSE, pending |-> 0]
  /\ lkOp = NoOp /\ lkQuery = NoQuery /\ lkFeed = NoFeed
  /\ lkMig = NoMig /\ lkBack = NoBack
  /\ lkStamp = 0 /\ lkTrash = {}
  /\ lkHist = <<Content(lkCat, lkDisk)>>
  /\ lkLeft = [crash |-> LakeCrashes, fault |-> LakeFaults,
               vacuum |-> LakeVacuums, drop |-> LakeDrops]

Quiet == UNCHANGED <<lkScene, lkQuery, lkFeed, lkMig, lkBack, lkStamp,
                     lkTrash, lkLeft>>
Actor(a) == a \in lkScene
FaultDue == Actor("fault") /\ lkLeft.fault > 0

\* What follows once the pending commits are in, or, after the operation's
\* own transaction, once they were tried.
Continue(op) ==
  CASE ~op.post                  -> [op EXCEPT !.pc = "fn"]
    [] op.post /\ op.b /\ op.ws # <<>> -> [op EXCEPT !.pc = "mat", !.post = FALSE]
    [] op.post /\ op.b /\ op.ws = <<>> -> [op EXCEPT !.pc = "commitBatch"]
    [] OTHER                     -> NoOp

Failed(op) == IF op.b THEN [op EXCEPT !.pc = "evict", !.undo = TRUE] ELSE NoOp

\* openNamespace: an open one is used as it is; otherwise the catalog is
\* opened, and an intent row left behind sends it through the journal.
openNamespace ==
  /\ At("open")
  /\ \/ /\ lkMem.open
        /\ Goto("mat") /\ UNCHANGED <<lkMem, lkJournal>>
     \/ /\ ~lkMem.open /\ ~lkCat.intent
        /\ lkJournal' = NoJournal
        /\ lkMem' = [open |-> TRUE, pending |-> pendingCommits(lkCat)]
        /\ Goto("mat")
     \/ /\ ~lkMem.open /\ lkCat.intent
        /\ Goto("restore") /\ UNCHANGED <<lkMem, lkJournal>>
  /\ Quiet /\ UNCHANGED <<lkCat, lkDisk, lkPub, lkHist>>

restoreJournal ==
  /\ At("restore")
  /\ lkCat' = lkJournal /\ lkJournal' = NoJournal
  /\ Goto("republish")
  /\ Quiet /\ UNCHANGED <<lkDisk, lkPub, lkMem, lkHist>>

\* republish, and the namespace is open; a rolled back operation reports its
\* error, an opening one goes on.
republish ==
  /\ At("republish")
  /\ lkPub' = Published(lkCat, {t \in LakeTables : lkCat.tab[t].exists})
  /\ lkMem' = [open |-> TRUE, pending |-> pendingCommits(lkCat)]
  /\ IF lkOp.undo THEN unlock ELSE Goto("mat")
  /\ Quiet /\ UNCHANGED <<lkCat, lkJournal, lkDisk, lkHist>>

evict ==
  /\ At("evict")
  /\ lkMem' = [lkMem EXCEPT !.open = FALSE]
  /\ Goto("restore")
  /\ Quiet /\ UNCHANGED <<lkCat, lkJournal, lkDisk, lkPub, lkHist>>

(***************************************************************************)
(* materialize: the commits not yet in their tables, in commit order.      *)
(***************************************************************************)
FirstPending == CHOOSE i \in DOMAIN lkCat.log :
                  /\ ~lkCat.log[i].done
                  /\ \A j \in 1 .. i - 1 : lkCat.log[j].done
PendingCommit == lkCat.log[FirstPending]
DataFile(p) == [tab |-> p.tab, gen |-> p.gen, kind |-> "commit", n |-> p.id]

Gone(p) == \/ ~lkCat.tab[p.tab].exists
           \/ lkCat.tab[p.tab].gen # p.gen
Marked(p) == p.id \in lkCat.tab[p.tab].marks

materialized ==
  /\ At("mat") /\ lkMem.pending = 0
  /\ lkOp' = Continue(lkOp)
  /\ Quiet /\ UNCHANGED <<lkCat, lkJournal, lkDisk, lkPub, lkMem, lkHist>>

\* The table was dropped, or a snapshot already names the commit: there is
\* nothing to add, and the copy for the SQL engine is brought up to date.
skipCommit ==
  /\ At("mat") /\ lkMem.pending > 0
  /\ Gone(PendingCommit) \/ Marked(PendingCommit)
  /\ Goto(IF Gone(PendingCommit) THEN "mark" ELSE "sync")
  /\ Quiet /\ UNCHANGED <<lkCat, lkJournal, lkDisk, lkPub, lkMem, lkHist>>

writeDataFile ==
  /\ At("mat") /\ lkMem.pending > 0
  /\ ~Gone(PendingCommit) /\ ~Marked(PendingCommit)
  /\ lkDisk' = IF PendingCommit.add = {} THEN lkDisk
               ELSE [f \in DOMAIN lkDisk \cup {DataFile(PendingCommit)} |->
                       IF f = DataFile(PendingCommit) THEN PendingCommit.add ELSE lkDisk[f]]
  /\ Goto("ice")
  /\ Quiet /\ UNCHANGED <<lkCat, lkJournal, lkPub, lkMem, lkHist>>

\* Seeded fault: the snapshot does not name the commit.
materializeUnmarked(p, nt) ==
  [nt EXCEPT !.snap = TRUE,
             !.dead = @ \cup (nt.files \X p.del),
             !.files = IF p.add = {} THEN @ ELSE @ \cup {DataFile(p)}]

\* The Iceberg transaction of materializeCommit: deletes and new file in one
\* swap of the table's metadata, whose snapshots carry the commit's number.
materializeCommit(p, nt) ==
  [nt EXCEPT !.snap = TRUE,
             !.marks = @ \cup {p.id},
             !.dead = @ \cup (nt.files \X p.del),
             !.files = IF p.add = {} THEN @ ELSE @ \cup {DataFile(p)}]

icebergCommit ==
  /\ At("ice")
  /\ lkCat' = [lkCat EXCEPT !.tab[PendingCommit.tab] = materializeCommit(PendingCommit, @)]
  /\ Goto("sync")
  /\ Quiet /\ UNCHANGED <<lkJournal, lkDisk, lkPub, lkMem, lkHist>>

syncMetadata ==
  /\ At("sync")
  /\ lkPub' = Published(lkCat, {PendingCommit.tab})
  /\ Goto("mark")
  /\ Quiet /\ UNCHANGED <<lkCat, lkJournal, lkDisk, lkMem, lkHist>>

markMaterialized ==
  /\ At("mark")
  /\ lkCat' = [lkCat EXCEPT !.log[FirstPending].done = TRUE]
  /\ lkMem' = [lkMem EXCEPT !.pending = @ - 1]
  /\ Goto("mat")
  /\ Quiet /\ UNCHANGED <<lkJournal, lkDisk, lkPub, lkHist>>

\* A step of materialize fails: a file not yet registered is removed, the
\* error is the operation's when it has not committed anything itself.
materializeFails ==
  /\ lkOp.pc \in {"mat", "ice", "sync", "mark"} /\ lkMem.pending > 0
  /\ FaultDue
  /\ lkDisk' = IF At("ice") THEN [f \in DOMAIN lkDisk \ {DataFile(PendingCommit)} |-> lkDisk[f]]
               ELSE lkDisk
  /\ lkOp' = IF lkOp.post THEN Continue(lkOp) ELSE Failed(lkOp)
  /\ lkLeft' = [lkLeft EXCEPT !.fault = @ - 1]
  /\ lkMig' = IF lkOp.k \in MigrateTurns THEN NoMig ELSE lkMig
  /\ lkQuery' = IF lkOp.k \in {"ensure", "read"} THEN NoQuery ELSE lkQuery
  /\ UNCHANGED <<lkScene, lkCat, lkJournal, lkPub, lkMem, lkFeed, lkBack, lkStamp,
                 lkTrash, lkHist>>

(***************************************************************************)
(* Writes.  A write names a table and a value; which rows it touches is    *)
(* read from the table, which is materialized by then.                     *)
(***************************************************************************)
Vector(v, ver) == IF ver = 2 THEN v ELSE NoVector
NewRow(w, id, ver) == [id |-> id, v |-> w.v, e |-> Vector(w.v, ver)]
SetRow(w, r, ver) == [r EXCEPT !.v = w.v, !.e = Vector(w.v, ver)]
IdsOf(rows) == {r.id : r \in rows}

Inserted(w, id, ver) == [del |-> {}, add |-> {NewRow(w, id, ver)}, kind |-> "insert"]
Updated(w, hit, ver) == [del |-> IdsOf(hit), add |-> {SetRow(w, r, ver) : r \in hit},
                         kind |-> "update"]

\* matchIDs: the rows a write's filter or natural key selects.
matchIDs(w, rows) ==
  CASE w.op \in {"update", "upsert"}        -> {r \in rows : r.v # w.v}
    [] w.op \in {"delete", "upsertByKey"}   -> {r \in rows : r.v = w.v}
    [] OTHER                                -> {}

\* The payload of a write's commit; an empty one commits nothing.
Payload(w, rows, id, ver) ==
  LET hit == matchIDs(w, rows) IN
  CASE w.op \in {"insert", "import"}              -> Inserted(w, id, ver)
    [] w.op = "delete"                            -> [del |-> IdsOf(hit), add |-> {}, kind |-> "delete"]
    [] w.op = "update"                            -> Updated(w, hit, ver)
    [] w.op \in {"upsert", "upsertByKey"} /\ hit = {} -> Inserted(w, id, ver)
    [] OTHER                                      -> Updated(w, hit, ver)

Idle(p) == p.del = {} /\ p.add = {}
Touched(p) == SetToSortSeq(p.del \cup IdsOf(p.add), <)

\* commitAppend and commitMutation: ids, journal row and changes, in one
\* transaction of the catalog.
Journalled(c, w, p) ==
  LET id == Len(c.log) + 1
      g == c.tab[w.t].gen IN
  [c EXCEPT !.log = Append(@, [id |-> id, tab |-> w.t, gen |-> g, del |-> p.del,
                               add |-> p.add, done |-> FALSE]),
            !.next[w.t] = IF p.kind = "insert" THEN @ + 1 ELSE @,
            !.changes = @ \o [i \in 1 .. Len(Touched(p)) |->
                                [tab |-> w.t, gen |-> g, id |-> Touched(p)[i],
                                 kind |-> p.kind, commit |-> id]]]

Applied(state, w, id) ==
  [state EXCEPT ![w.t].rows =
     Replayed(@, Payload(w, @, id, state[w.t].ver))]

\* The body of Insert, ImportRecords, mutate, UpsertByKey and Delete: refuse
\* when the table is gone or the key ambiguous, commit, then materialize.
WriteBody(ops) ==
  /\ At("fn") /\ lkOp.k \in {"write", "batch"} /\ lkOp.ws # <<>>
  /\ lkOp.k = "batch" => lkOp.b
  /\ LET w == Head(lkOp.ws)
         nt == lkCat.tab[w.t]
         rows == scanRows(lkCat, lkDisk, w.t)
         p == Payload(w, rows, lkCat.next[w.t], nt.ver)
         state == Applied(IF lkOp.b THEN lkOp.goal ELSE Truth, w, lkCat.next[w.t])
         rest == [lkOp EXCEPT !.ws = Tail(@), !.post = TRUE,
                              !.goal = IF lkOp.b THEN state ELSE @] IN
     /\ w.op \in ops
     /\ \/ /\ \/ ~nt.exists
              \/ w.op = "upsertByKey" /\ Cardinality(matchIDs(w, rows)) > 1
           /\ lkOp' = Failed(lkOp)
           /\ UNCHANGED <<lkCat, lkMem, lkHist>>
        \/ /\ nt.exists /\ Idle(p)
           /\ lkOp' = Continue(rest)
           /\ UNCHANGED <<lkCat, lkMem, lkHist>>
        \/ /\ nt.exists /\ ~Idle(p)
           /\ w.op = "upsertByKey" => Cardinality(matchIDs(w, rows)) <= 1
           /\ lkCat' = Journalled(lkCat, w, p)
           /\ lkMem' = [lkMem EXCEPT !.pending = @ + 1]
           /\ lkOp' = [rest EXCEPT !.pc = "mat"]
           /\ IF lkOp.b THEN UNCHANGED lkHist
              ELSE Record(state)
  /\ Quiet /\ UNCHANGED <<lkJournal, lkDisk, lkPub>>

Insert == WriteBody({"insert"})
ImportRecords == WriteBody({"import"})
mutate == WriteBody({"update", "upsert"})
UpsertByKey == WriteBody({"upsertByKey"})
Delete == WriteBody({"delete"})

Writes == [op : {"insert", "import", "update", "upsert", "upsertByKey", "delete"},
           t : LakeTables, v : LakeValues]
RoomFor(n) == Len(lkCat.log) + n <= LakeCommits[lkScene]

StartWrite ==
  /\ Actor("write") /\ RoomFor(1)
  /\ \E w \in Writes : Lock("write", <<w>>)
  /\ Quiet /\ UNCHANGED <<lkCat, lkJournal, lkDisk, lkPub, lkMem, lkHist>>

(***************************************************************************)
(* Batch: the writes run as operations of their own inside the gate, under *)
(* a copy of the catalog and an intent row.                                *)
(***************************************************************************)
StartBatch ==
  /\ Actor("batch")
  /\ IF lkCat.batches = {}
     THEN RoomFor(2) /\ \E w1, w2 \in Writes : Lock("batch", <<w1, w2>>)
     ELSE Lock("batch", <<>>)                      \* the same request again
  /\ Quiet /\ UNCHANGED <<lkCat, lkJournal, lkDisk, lkPub, lkMem, lkHist>>

\* A recorded idempotency key answers the batch again.
lookupBatch ==
  /\ At("fn") /\ lkOp.k = "batch" /\ ~lkOp.b
  /\ lkCat.batches # {}
  /\ unlock
  /\ Quiet /\ UNCHANGED <<lkCat, lkJournal, lkDisk, lkPub, lkMem, lkHist>>

beginBatch ==
  /\ At("fn") /\ lkOp.k = "batch" /\ ~lkOp.b /\ lkCat.batches = {}
  /\ lkJournal' = lkCat
  /\ Goto("intent")
  /\ Quiet /\ UNCHANGED <<lkCat, lkDisk, lkPub, lkMem, lkHist>>

recordIntent ==
  /\ At("intent")
  /\ lkCat' = [lkCat EXCEPT !.intent = TRUE]
  /\ lkOp' = [lkOp EXCEPT !.b = TRUE, !.goal = Truth,
                          !.pc = IF lkOp.k = "batch" THEN "mat" ELSE "rewrite"]
  /\ Quiet /\ UNCHANGED <<lkJournal, lkDisk, lkPub, lkMem, lkHist>>

\* The changes of one batch share the commit of the first.
OneCommit(changes, n) ==
  [i \in DOMAIN changes |->
     IF i > n THEN [changes[i] EXCEPT !.commit = changes[n + 1].commit] ELSE changes[i]]

commitBatch ==
  /\ At("commitBatch")
  /\ LET n == Len(lkJournal.changes) IN
     lkCat' = [lkCat EXCEPT !.intent = FALSE, !.batches = {"key"},
                            !.changes = OneCommit(@, n)]
  /\ Record(lkOp.goal)
  /\ Goto("clean")
  /\ Quiet /\ UNCHANGED <<lkJournal, lkDisk, lkPub, lkMem>>

removeJournal ==
  /\ At("clean")
  /\ lkJournal' = NoJournal
  /\ unlock
  /\ Quiet /\ UNCHANGED <<lkCat, lkDisk, lkPub, lkMem, lkHist>>

\* A write of the batch is refused (a constraint, a row budget, a conflict).
batchFails ==
  /\ lkOp.b /\ lkOp.pc \in {"fn", "commitBatch", "rewrite", "moves"}
  /\ FaultDue
  /\ lkOp' = Failed(lkOp)
  /\ lkLeft' = [lkLeft EXCEPT !.fault = @ - 1]
  /\ lkMig' = IF lkOp.k \in MigrateTurns THEN NoMig ELSE lkMig
  /\ UNCHANGED <<lkScene, lkCat, lkJournal, lkDisk, lkPub, lkMem, lkQuery,
                 lkFeed, lkBack, lkStamp, lkTrash, lkHist>>

(***************************************************************************)
(* Migrate, turning a table into one with vectors: plan under the gate,    *)
(* embed outside it, stage the vectors, and apply if every row's text is   *)
(* still the one that was embedded.                                        *)
(***************************************************************************)
migrateRunning(t) == lkMig.pc # "off" /\ lkMig.t = t

StartMigrate ==
  /\ Actor("migrate") /\ lkMig.pc = "off"
  /\ \E t \in LakeTables :
       /\ lkCat.tab[t].ver = 1
       /\ Lock("mplan", <<>>)
       /\ lkMig' = [NoMig EXCEPT !.pc = "plan", !.t = t]
  /\ UNCHANGED <<lkScene, lkCat, lkJournal, lkDisk, lkPub, lkMem, lkQuery,
                 lkFeed, lkBack, lkStamp, lkTrash, lkHist, lkLeft>>

LeaveMigrate == lkMig' = NoMig
SameTable == /\ lkCat.tab[lkMig.t].exists
             /\ lkMig.nsGen # 0 => /\ lkCat.nsGen = lkMig.nsGen
                                  /\ lkCat.tab[lkMig.t].gen = lkMig.gen
Staged(t) == {s \in lkCat.stage : s.tab = t /\ s.gen = lkCat.tab[t].gen}
\* Seeded fault: any vector staged for the row will do.
stagedById(r) == \E s \in Staged(lkMig.t) : s.id = r.id
stagedFor(r) == \E s \in Staged(lkMig.t) : s.id = r.id /\ s.v = r.v

\* planSchema and planData: refuse a table that was replaced or migrated
\* meanwhile, else note the texts that no staged vector matches.
planMigration ==
  /\ At("fn") /\ lkOp.k = "mplan"
  /\ unlock
  /\ \/ /\ ~SameTable \/ lkCat.tab[lkMig.t].ver # 1
        /\ LeaveMigrate
     \/ /\ SameTable /\ lkCat.tab[lkMig.t].ver = 1
        /\ lkMig' = [lkMig EXCEPT !.pc = "embed", !.gen = lkCat.tab[lkMig.t].gen,
                                  !.nsGen = lkCat.nsGen,
                        !.todo = {[id |-> r.id, v |-> r.v] :
                                    r \in {x \in scanRows(lkCat, lkDisk, lkMig.t) : ~stagedFor(x)}}]
  /\ UNCHANGED <<lkScene, lkCat, lkJournal, lkDisk, lkPub, lkMem, lkQuery,
                 lkFeed, lkBack, lkStamp, lkTrash, lkHist, lkLeft>>

MigrateTurn(pc, k) ==
  /\ lkMig.pc = pc
  /\ Lock(k, <<>>)
  /\ UNCHANGED <<lkScene, lkCat, lkJournal, lkDisk, lkPub, lkMem, lkQuery,
                 lkFeed, lkMig, lkBack, lkStamp, lkTrash, lkHist, lkLeft>>

EmbedRows == MigrateTurn("embed", "mstage")
ApplyTurn == MigrateTurn("staged", "mapply")
PlanAgain == MigrateTurn("again", "mplan")

\* stageVectors: one row per id, the newest text winning.
stageVectors ==
  /\ At("fn") /\ lkOp.k = "mstage"
  /\ unlock
  /\ lkCat' = [lkCat EXCEPT !.stage =
        {s \in @ : ~ \E d \in lkMig.todo :
                       s.tab = lkMig.t /\ s.gen = lkMig.gen /\ s.id = d.id}
        \cup {[tab |-> lkMig.t, gen |-> lkMig.gen, id |-> d.id, v |-> d.v] : d \in lkMig.todo}]
  /\ lkMig' = [lkMig EXCEPT !.pc = "staged", !.todo = {}]
  /\ UNCHANGED <<lkScene, lkJournal, lkDisk, lkPub, lkMem, lkQuery, lkFeed,
                 lkBack, lkStamp, lkTrash, lkHist, lkLeft>>

VectorsHeld == \A r \in scanRows(lkCat, lkDisk, lkMig.t) : stagedFor(r)
MaxTries == 3

\* applyMigration: an empty table changes its schema at once, a populated
\* one inside the bracket of a batch.
applyMigration ==
  /\ At("fn") /\ lkOp.k = "mapply"
  /\ LET t == lkMig.t IN
     \/ /\ ~SameTable \/ lkCat.tab[t].ver # 1
        /\ unlock /\ LeaveMigrate
        /\ UNCHANGED <<lkCat, lkJournal, lkPub, lkHist>>
     \/ /\ SameTable /\ lkCat.tab[t].ver = 1 /\ ~VectorsHeld
        /\ unlock
        /\ IF lkMig.tries < MaxTries
           THEN lkMig' = [lkMig EXCEPT !.pc = "again", !.tries = @ + 1]
           ELSE LeaveMigrate
        /\ UNCHANGED <<lkCat, lkJournal, lkPub, lkHist>>
     \/ /\ SameTable /\ lkCat.tab[t].ver = 1 /\ VectorsHeld /\ ~lkCat.tab[t].snap
        /\ lkCat' = [lkCat EXCEPT !.tab[t].ver = 2]
        /\ lkPub' = Published(lkCat', {t})
        /\ Record([Truth EXCEPT ![t].ver = 2])
        /\ unlock /\ LeaveMigrate /\ UNCHANGED lkJournal
     \/ /\ SameTable /\ lkCat.tab[t].ver = 1 /\ VectorsHeld /\ lkCat.tab[t].snap
        /\ lkJournal' = lkCat
        /\ Goto("intent")
        /\ UNCHANGED <<lkCat, lkPub, lkMig, lkHist>>
  /\ UNCHANGED <<lkScene, lkDisk, lkMem, lkQuery, lkFeed, lkBack, lkStamp,
                 lkTrash, lkLeft>>

Rewritten(t, n) == [tab |-> t, gen |-> lkCat.tab[t].gen, kind |-> "rewrite", n |-> n]
WithFile(disk, f, rows) ==
  [g \in DOMAIN disk \cup {f} |-> IF g = f THEN rows ELSE disk[g]]

stagedRow(r) == [r EXCEPT !.e = (CHOOSE s \in Staged(lkMig.t) : s.id = r.id).v]

\* rewriteForMigration and the Iceberg commit: every row into one new file,
\* with the vector staged for it.
rewriteForMigration ==
  /\ At("rewrite")
  /\ LET t == lkMig.t
         rows == {stagedRow(r) : r \in scanRows(lkCat, lkDisk, t)}
         f == Rewritten(t, 0) IN
     IF rows = {}
     THEN /\ lkCat' = [lkCat EXCEPT !.tab[t].ver = 2]
          /\ UNCHANGED lkDisk
     ELSE /\ lkDisk' = WithFile(lkDisk, f, rows)
          /\ lkCat' = [lkCat EXCEPT !.tab[t].ver = 2, !.tab[t].files = {f}, !.tab[t].dead = {}]
  /\ lkPub' = Published(lkCat', {lkMig.t})
  /\ Goto("moves")
  /\ Quiet /\ UNCHANGED <<lkJournal, lkMem, lkHist>>

\* applySecretMoves: what the catalog holds beside the table follows, the
\* staged vectors and the intent go.
applySecretMoves ==
  /\ At("moves")
  /\ lkCat' = [lkCat EXCEPT !.intent = FALSE, !.stage = @ \ Staged(lkMig.t)]
  /\ Record([Truth EXCEPT ![lkMig.t] =
                [ver |-> 2, rows |-> {stagedRow(r) : r \in @.rows}]])
  /\ Goto("clean") /\ LeaveMigrate
  /\ UNCHANGED <<lkScene, lkJournal, lkDisk, lkPub, lkMem, lkQuery, lkFeed,
                 lkBack, lkStamp, lkTrash, lkLeft>>

\* The embedding provider fails, or the caller gave up.
embedFails ==
  /\ lkMig.pc = "embed" /\ lkOp = NoOp
  /\ LeaveMigrate
  /\ UNCHANGED <<lkScene, lkCat, lkJournal, lkDisk, lkPub, lkMem, lkOp, lkQuery,
                 lkFeed, lkBack, lkStamp, lkTrash, lkHist, lkLeft>>

(***************************************************************************)
(* Vacuum: the stamp goes odd, every table that has more than one file or  *)
(* deletes is rewritten into one and its old snapshots expire, abandoned   *)
(* staged vectors go, the stamp goes even.                                 *)
(***************************************************************************)
StartVacuum ==
  /\ Actor("vacuum") /\ lkLeft.vacuum > 0
  /\ Lock("vacuum", <<>>)
  /\ lkLeft' = [lkLeft EXCEPT !.vacuum = @ - 1]
  /\ UNCHANGED <<lkScene, lkCat, lkJournal, lkDisk, lkPub, lkMem, lkQuery,
                 lkFeed, lkMig, lkBack, lkStamp, lkTrash, lkHist>>

stampVacuum ==
  /\ At("fn") /\ lkOp.k = "vacuum"
  /\ lkStamp' = IF lkStamp % 2 = 0 THEN lkStamp + 1 ELSE lkStamp + 2
  /\ lkOp' = [lkOp EXCEPT !.pc = "compact",
                          !.ws = SetToSeq({t \in LakeTables : lkCat.tab[t].exists})]
  /\ UNCHANGED <<lkScene, lkCat, lkJournal, lkDisk, lkPub, lkMem, lkQuery,
                 lkFeed, lkMig, lkBack, lkTrash, lkHist, lkLeft>>

NeedsRewrite(nt) == Cardinality(nt.files) > 1 \/ nt.dead # {}

\* One table of maintain's loop: the rewrite and the expiry of every snapshot
\* but the last are one commit of the table.
compact ==
  /\ At("compact") /\ lkOp.ws # <<>>
  /\ LET t == Head(lkOp.ws)
         nt == lkCat.tab[t]
         f == Rewritten(t, lkStamp)
         kept == scanRows(lkCat, lkDisk, t) IN
     IF NeedsRewrite(nt)
     THEN /\ lkDisk' = IF kept = {} THEN lkDisk ELSE WithFile(lkDisk, f, kept)
          /\ lkCat' = [lkCat EXCEPT !.tab[t].files = IF kept = {} THEN {} ELSE {f},
                                    !.tab[t].dead = {}, !.tab[t].marks = {}]
          /\ lkOp' = [lkOp EXCEPT !.pc = "expire", !.goal = nt.files]
     ELSE /\ lkCat' = [lkCat EXCEPT !.tab[t].marks = IF Cardinality(@) > 1 THEN {} ELSE @]
          /\ lkOp' = [lkOp EXCEPT !.pc = "expire", !.goal = {}]
          /\ UNCHANGED lkDisk
  /\ Quiet /\ UNCHANGED <<lkJournal, lkPub, lkMem, lkHist>>

\* ExpireSnapshots removes the files of the snapshots it expired.
expireSnapshots ==
  /\ At("expire")
  /\ lkDisk' = [f \in DOMAIN lkDisk \ lkOp.goal |-> lkDisk[f]]
  /\ lkOp' = [lkOp EXCEPT !.pc = "vsync", !.goal = <<>>]
  /\ Quiet /\ UNCHANGED <<lkCat, lkJournal, lkPub, lkMem, lkHist>>

syncCompacted ==
  /\ At("vsync")
  /\ lkPub' = Published(lkCat, {Head(lkOp.ws)})
  /\ lkOp' = [lkOp EXCEPT !.pc = "compact", !.ws = Tail(@)]
  /\ Quiet /\ UNCHANGED <<lkCat, lkJournal, lkDisk, lkMem, lkHist>>

\* dropAbandonedStages, and the deferred stamp.
finishVacuum ==
  /\ At("compact") /\ lkOp.ws = <<>>
  /\ lkCat' = [lkCat EXCEPT !.stage = {s \in @ : migrateRunning(s.tab)}]
  /\ lkStamp' = lkStamp + 1
  /\ unlock
  /\ UNCHANGED <<lkScene, lkJournal, lkDisk, lkPub, lkMem, lkQuery, lkFeed, lkMig,
                 lkBack, lkTrash, lkHist, lkLeft>>

\* A table fails to compact: the error ends the vacuum, the stamp is evened.
vacuumFails ==
  /\ At("compact") /\ lkOp.ws # <<>> /\ FaultDue
  /\ lkStamp' = lkStamp + 1
  /\ lkLeft' = [lkLeft EXCEPT !.fault = @ - 1]
  /\ unlock
  /\ UNCHANGED <<lkScene, lkCat, lkJournal, lkDisk, lkPub, lkMem, lkQuery, lkFeed,
                 lkMig, lkBack, lkTrash, lkHist>>

(***************************************************************************)
(* Drops.  A dropped table's files go only when the queries that may read  *)
(* them have left their sidecars; a dropped namespace interrupts them.     *)
(***************************************************************************)
StartDrop ==
  /\ Actor("drop") /\ lkLeft.drop > 0
  /\ \E t \in LakeTables : Lock("droptable", <<t>>)
  /\ lkLeft' = [lkLeft EXCEPT !.drop = @ - 1]
  /\ UNCHANGED <<lkScene, lkCat, lkJournal, lkDisk, lkPub, lkMem, lkQuery,
                 lkFeed, lkMig, lkBack, lkStamp, lkTrash, lkHist>>

DirectoryOf(t) == {f \in DOMAIN lkDisk : f.tab = t /\ f.gen = lkCat.tab[t].gen}

DropTable ==
  /\ At("fn") /\ lkOp.k = "droptable"
  /\ LET t == lkOp.ws[1]
         g == lkCat.tab[t].gen IN
     IF ~lkCat.tab[t].exists THEN UNCHANGED <<lkCat, lkTrash, lkHist>>
     ELSE /\ lkCat' = [lkCat EXCEPT !.tab[t] = NativeTable(FALSE, g + 1),
                                    !.next[t] = 1, !.batches = {},
                                    !.stage = {s \in @ : s.tab # t}]
          /\ lkTrash' = lkTrash \cup DirectoryOf(t)
          /\ Record([Truth EXCEPT ![t] = [ver |-> 0, rows |-> {}]])
  /\ unlock
  /\ UNCHANGED <<lkScene, lkJournal, lkDisk, lkPub, lkMem, lkQuery, lkFeed,
                 lkMig, lkBack, lkStamp, lkLeft>>

\* drainAll waits for the query in the sidecar, stops the sidecar, and the
\* directory is removed.
drainSidecars ==
  /\ lkTrash # {} /\ lkQuery.pc # "run"
  /\ lkDisk' = [f \in DOMAIN lkDisk \ lkTrash |-> lkDisk[f]]
  /\ lkTrash' = {}
  /\ lkQuery' = IF lkQuery.sc = "alive" THEN [lkQuery EXCEPT !.sc = "stopped"] ELSE lkQuery
  /\ UNCHANGED <<lkScene, lkCat, lkJournal, lkPub, lkMem, lkOp, lkFeed, lkMig,
                 lkBack, lkStamp, lkHist, lkLeft>>

StartCreate ==
  /\ \E t \in LakeTables : ~lkCat.tab[t].exists /\ Lock("createtable", <<t>>)
  /\ Quiet /\ UNCHANGED <<lkCat, lkJournal, lkDisk, lkPub, lkMem, lkHist>>

CreateTable ==
  /\ At("fn") /\ lkOp.k = "createtable"
  /\ LET t == lkOp.ws[1] IN
     IF lkCat.tab[t].exists THEN UNCHANGED <<lkCat, lkPub, lkHist>>
     ELSE /\ lkCat' = [lkCat EXCEPT !.tab[t].exists = TRUE]
          /\ lkPub' = Published(lkCat', {t})
          /\ Record([Truth EXCEPT ![t] = [ver |-> 1, rows |-> {}]])
  /\ unlock
  /\ Quiet /\ UNCHANGED <<lkJournal, lkDisk, lkMem>>

\* DropNamespace, and the namespace created anew: the queries are
\* interrupted, the directory is renamed away and another takes its place.
DropNamespace ==
  /\ Actor("drop") /\ lkLeft.drop > 0 /\ lkOp = NoOp
  /\ lkLeft' = [lkLeft EXCEPT !.drop = @ - 1]
  /\ lkCat' = FreshCatalog(lkCat.nsGen + 1)
  /\ lkJournal' = NoJournal /\ lkDisk' = <<>>
  /\ lkPub' = [x \in DOMAIN lkPub |-> NativeTable(TRUE, x[2])]
  /\ lkMem' = [open |-> FALSE, pending |-> 0]
  /\ lkQuery' = NoQuery /\ lkTrash' = {} /\ lkStamp' = 0
  /\ Record(Content(lkCat', lkDisk'))
  /\ UNCHANGED <<lkScene, lkOp, lkFeed, lkMig, lkBack>>

\* makeRoom closes the namespace used least to open another.
makeRoom ==
  /\ lkOp = NoOp /\ lkMem.open /\ Actor("drop")
  /\ lkMem' = [open |-> FALSE, pending |-> 0]
  /\ lkQuery' = IF lkQuery.sc = "alive" /\ lkQuery.pc # "run"
                THEN [lkQuery EXCEPT !.sc = "stopped"] ELSE lkQuery
  /\ UNCHANGED <<lkScene, lkCat, lkJournal, lkDisk, lkPub, lkOp, lkFeed, lkMig,
                 lkBack, lkStamp, lkTrash, lkHist, lkLeft>>

(***************************************************************************)
(* Query: under the gate the copies of the metadata are brought up to date *)
(* and a sidecar is found or started; the statement then runs outside the  *)
(* gate, under the barrier.                                                *)
(***************************************************************************)
StartQuery ==
  /\ Actor("query") /\ lkQuery.pc \in {"idle", "done"}
  /\ \E t \in LakeTables :
       /\ Lock("ensure", <<>>)
       /\ lkQuery' = [NoQuery EXCEPT !.pc = "ensure", !.t = t, !.from = Len(lkHist)]
  /\ UNCHANGED <<lkScene, lkCat, lkJournal, lkDisk, lkPub, lkMem, lkFeed, lkMig,
                 lkBack, lkStamp, lkTrash, lkHist, lkLeft>>

\* namespaceViews with freshenCurrentMetadata, then ensureSidecar: a table
\* without a snapshot gets a view of nothing.
ensureSidecar ==
  /\ At("fn") /\ lkOp.k = "ensure"
  /\ lkPub' = Published(lkCat, {t \in LakeTables : lkCat.tab[t].exists /\ lkCat.tab[t].snap})
  /\ LET nt == lkCat.tab[lkQuery.t] IN
     lkQuery' = IF lkQuery.pc = "ensure" /\ nt.exists
                THEN [lkQuery EXCEPT !.pc = IF lkQuery.held THEN "run" ELSE "ready",
                                     !.sc = "alive", !.gen = nt.gen, !.snap = nt.snap]
                ELSE NoQuery
  /\ unlock
  /\ UNCHANGED <<lkScene, lkCat, lkJournal, lkDisk, lkMem, lkFeed, lkMig, lkBack,
                 lkStamp, lkTrash, lkHist, lkLeft>>

\* Seeded fault: the query does not wait for an exclusive operation.
lockBarrierAnyway ==
  /\ lkQuery.pc = "ready"
  /\ lkQuery' = [lkQuery EXCEPT !.held = TRUE,
                                !.pc = IF lkQuery.sc = "alive" THEN "run" ELSE "again"]
  /\ UNCHANGED <<lkScene, lkCat, lkJournal, lkDisk, lkPub, lkMem, lkOp, lkFeed,
                 lkMig, lkBack, lkStamp, lkTrash, lkHist, lkLeft>>

\* RLock of the barrier: an exclusive operation is not under way.
lockBarrier ==
  /\ lkQuery.pc = "ready"
  /\ lkOp.k \notin Exclusive
  /\ lkQuery' = [lkQuery EXCEPT !.held = TRUE,
                                !.pc = IF lkQuery.sc = "alive" THEN "run" ELSE "again"]
  /\ UNCHANGED <<lkScene, lkCat, lkJournal, lkDisk, lkPub, lkMem, lkOp, lkFeed,
                 lkMig, lkBack, lkStamp, lkTrash, lkHist, lkLeft>>

\* The sidecar was stopped meanwhile: another is asked for, with the barrier
\* held.
ensureAgain ==
  /\ lkQuery.pc = "again"
  /\ Lock("ensure", <<>>)
  /\ lkQuery' = [lkQuery EXCEPT !.pc = "ensure"]
  /\ UNCHANGED <<lkScene, lkCat, lkJournal, lkDisk, lkPub, lkMem, lkFeed, lkMig,
                 lkBack, lkStamp, lkTrash, lkHist, lkLeft>>

Readable(nt, disk) == \A f \in nt.files : HasFile(disk, f)

\* The view reads the copy of the metadata as it stands; a file that is gone,
\* or a sidecar that is, fails the query.
runQuery ==
  /\ lkQuery.pc = "run"
  /\ LET nt == lkPub[<<lkQuery.t, lkQuery.gen>>]
         rows == UNION {{r \in lkDisk[f] : <<f, r.id>> \notin nt.dead} : f \in nt.files} IN
     lkQuery' = IF lkQuery.sc = "stopped" \/ (lkQuery.snap /\ ~Readable(nt, lkDisk)) THEN NoQuery
                ELSE [NoQuery EXCEPT !.pc = "done", !.t = lkQuery.t, !.from = lkQuery.from,
                                     !.ans = IF lkQuery.snap THEN rows ELSE {}]
  /\ UNCHANGED <<lkScene, lkCat, lkJournal, lkDisk, lkPub, lkMem, lkOp, lkFeed,
                 lkMig, lkBack, lkStamp, lkTrash, lkHist, lkLeft>>

\* GetRows, ListRows, the searches and the match of a filter read the table
\* itself, under the gate.
StartRead ==
  /\ Actor("query") /\ lkQuery.pc \in {"idle", "done"}
  /\ \E t \in LakeTables :
       /\ Lock("read", <<>>)
       /\ lkQuery' = [NoQuery EXCEPT !.pc = "rows", !.t = t, !.from = Len(lkHist)]
  /\ UNCHANGED <<lkScene, lkCat, lkJournal, lkDisk, lkPub, lkMem, lkFeed, lkMig,
                 lkBack, lkStamp, lkTrash, lkHist, lkLeft>>

readRows ==
  /\ At("fn") /\ lkOp.k = "read"
  /\ lkQuery' = IF lkQuery.pc = "rows" /\ lkCat.tab[lkQuery.t].exists
                THEN [lkQuery EXCEPT !.pc = "done", !.ans = scanRows(lkCat, lkDisk, lkQuery.t)]
                ELSE NoQuery
  /\ unlock
  /\ UNCHANGED <<lkScene, lkCat, lkJournal, lkDisk, lkPub, lkMem, lkFeed, lkMig,
                 lkBack, lkStamp, lkTrash, lkHist, lkLeft>>

(***************************************************************************)
(* Listen: the session is anchored at the head of the changes; what lies   *)
(* before is replayed in pages, what comes after is fetched into a queue.  *)
(***************************************************************************)
Position == Len(lkCat.changes)
InFeed(feed, r) == feed.tab = "all" \/ (r.tab = feed.tab /\ r.gen = feed.gen)

\* changesSinceMode: one page of the positions after a and up to b, and the
\* position it ends at.
PageOf(c, feed, a, b) ==
  LET hit == SetToSortSeq({i \in a + 1 .. b : InFeed(feed, c.changes[i])}, <) IN
  SubSeq(hit, 1, IF Len(hit) < LakePage THEN Len(hit) ELSE LakePage)
RecordsAt(c, page) == [i \in DOMAIN page |-> c.changes[page[i]]]

FeedOps == {"anchor", "replay", "live"}
FeedTurn(k) ==
  /\ Lock(k, <<>>)
  /\ UNCHANGED <<lkScene, lkCat, lkJournal, lkDisk, lkPub, lkMem, lkQuery, lkFeed,
                 lkMig, lkBack, lkStamp, lkTrash, lkHist, lkLeft>>

Listen == Actor("listen") /\ lkFeed.pc = "off" /\ FeedTurn("anchor")
ReplayNext == lkFeed.pc = "on" /\ lkFeed.at < lkFeed.head /\ FeedTurn("replay")
run == lkFeed.pc = "on" /\ lkFeed.live < Position /\ FeedTurn("live")

FeedStep(k) ==
  /\ At("fn") /\ lkOp.k = k
  /\ unlock
  /\ UNCHANGED <<lkScene, lkCat, lkJournal, lkDisk, lkPub, lkMem, lkQuery, lkMig,
                 lkBack, lkStamp, lkTrash, lkHist, lkLeft>>

\* A cursor the caller kept, begin, or the head itself.
anchorListen ==
  /\ FeedStep("anchor")
  /\ \E tab \in LakeTables \cup {"all"}, from \in 0 .. Position :
       IF tab # "all" /\ ~lkCat.tab[tab].exists THEN UNCHANGED lkFeed
       ELSE lkFeed' = [NoFeed EXCEPT !.pc = "on", !.tab = tab, !.nsGen = lkCat.nsGen,
                          !.gen = IF tab = "all" THEN 0 ELSE lkCat.tab[tab].gen,
                          !.from = from, !.at = from, !.head = Position, !.live = Position]

\* guard, and the same checks of changesSinceMode.
Intact == /\ lkCat.nsGen = lkFeed.nsGen
          /\ lkFeed.tab # "all" => /\ lkCat.tab[lkFeed.tab].exists
                                   /\ lkCat.tab[lkFeed.tab].gen = lkFeed.gen
Ended(feed) == [feed EXCEPT !.pc = "ended"]

\* Seeded fault: the replay ignores the boundary of the session.
fetchPastBoundary ==
  /\ FeedStep("replay")
  /\ LET page == PageOf(lkCat, lkFeed, lkFeed.at, Position) IN
     lkFeed' = IF lkFeed.pc # "on" THEN lkFeed
               ELSE IF ~Intact THEN Ended(lkFeed)
               ELSE [lkFeed EXCEPT !.replayed = @ \o RecordsAt(lkCat, page),
                        !.at = IF page = <<>> THEN lkFeed.head ELSE page[Len(page)]]

\* ChangeReplay.Next: an empty page means the backlog is drained.
fetch ==
  /\ FeedStep("replay")
  /\ LET page == PageOf(lkCat, lkFeed, lkFeed.at, lkFeed.head) IN
     lkFeed' = IF lkFeed.pc # "on" THEN lkFeed
               ELSE IF ~Intact THEN Ended(lkFeed)
               ELSE [lkFeed EXCEPT !.replayed = @ \o RecordsAt(lkCat, page),
                        !.at = IF page = <<>> THEN lkFeed.head ELSE page[Len(page)]]

\* A page of run's loop: what fits goes into the queue, the record that does
\* not ends the session.
fetchLive ==
  /\ FeedStep("live")
  /\ LET page == PageOf(lkCat, lkFeed, lkFeed.live, Position)
         room == LakeQueue - (Len(lkFeed.queued) - lkFeed.told)
         took == SubSeq(page, 1, IF Len(page) < room THEN Len(page) ELSE room)
         fed == [lkFeed EXCEPT !.queued = @ \o RecordsAt(lkCat, took),
                   !.live = IF page = <<>> THEN Position ELSE page[Len(page)]] IN
     lkFeed' = IF lkFeed.pc # "on" THEN lkFeed
               ELSE IF ~Intact THEN Ended(lkFeed)
               ELSE IF took # page THEN Ended(fed) ELSE fed

\* drain hands the queue to notify until the session is cancelled.
deliver ==
  /\ lkFeed.pc # "off" /\ lkFeed.told < Len(lkFeed.queued)
  /\ lkFeed' = [lkFeed EXCEPT !.told = @ + 1]
  /\ UNCHANGED <<lkScene, lkCat, lkJournal, lkDisk, lkPub, lkMem, lkOp, lkQuery,
                 lkMig, lkBack, lkStamp, lkTrash, lkHist, lkLeft>>

cancel ==
  /\ lkFeed.pc # "off" /\ lkOp.k \notin FeedOps
  /\ lkFeed' = NoFeed
  /\ UNCHANGED <<lkScene, lkCat, lkJournal, lkDisk, lkPub, lkMem, lkOp, lkQuery,
                 lkMig, lkBack, lkStamp, lkTrash, lkHist, lkLeft>>

(***************************************************************************)
(* Backup, from another process, which takes no part in the gate.          *)
(***************************************************************************)
BackStep(pc) ==
  /\ lkBack.pc = pc
  /\ UNCHANGED <<lkScene, lkCat, lkJournal, lkDisk, lkPub, lkMem, lkOp, lkQuery,
                 lkFeed, lkMig, lkStamp, lkTrash, lkHist, lkLeft>>

\* An odd stamp is a vacuum under way or cut short.
readStamp ==
  /\ Actor("backup") /\ BackStep("off")
  /\ lkStamp % 2 = 0
  /\ lkBack' = [NoBack EXCEPT !.pc = "snapshot", !.stamp = lkStamp]

\* Seeded fault: the intent row is not looked for.
inBatchUnseen(c) == FALSE

\* SnapshotSQLite and snapshotTables: a snapshot taken inside a batch is
\* thrown away.
inBatch(c) == c.intent
snapshotTables ==
  /\ BackStep("snapshot")
  /\ lkBack' = IF inBatch(lkCat) THEN NoBack
               ELSE [lkBack EXCEPT !.pc = "copy", !.cat = lkCat, !.at = Len(lkHist),
                                   !.todo = LakeTables]

copyTree ==
  /\ BackStep("copy") /\ lkBack.todo # {}
  /\ \E t \in lkBack.todo :
       lkBack' = [lkBack EXCEPT !.todo = @ \ {t},
          !.disk = [f \in DOMAIN @ \cup {g \in DOMAIN lkDisk : g.tab = t} |->
                      IF f \in DOMAIN @ THEN @[f] ELSE lkDisk[f]]]

unreachable(b) == {f \in UNION {b.cat.tab[t].files : t \in LakeTables} : ~HasFile(b.disk, f)}

\* Another generation, a file that went missing or another stamp: try again.
backupNamespace ==
  /\ BackStep("copy") /\ lkBack.todo = {}
  /\ lkBack' = IF \/ lkCat.nsGen # lkBack.cat.nsGen
                  \/ unreachable(lkBack) # {}
                  \/ lkStamp # lkBack.stamp
               THEN NoBack ELSE [lkBack EXCEPT !.pc = "done"]

(***************************************************************************)
(* The end of the process: at any moment, or by Close, which waits for the *)
(* gate.  What is on disk stays.                                           *)
(***************************************************************************)
ProcessEnds ==
  /\ Actor("crash") /\ lkLeft.crash > 0
  /\ lkLeft' = [lkLeft EXCEPT !.crash = @ - 1]
  /\ lkMem' = [open |-> FALSE, pending |-> 0]
  /\ lkOp' = NoOp /\ lkMig' = NoMig /\ lkTrash' = {}
  /\ lkFeed' = IF lkFeed.pc = "off" THEN NoFeed ELSE Ended(lkFeed)
  /\ lkQuery' = IF lkQuery.pc = "done" THEN lkQuery ELSE NoQuery
  /\ UNCHANGED <<lkScene, lkCat, lkJournal, lkDisk, lkPub, lkBack, lkStamp, lkHist>>

Crash == lkMem.open /\ ProcessEnds
CloseStore == lkMem.open /\ lkOp = NoOp /\ ProcessEnds

LakeNext ==
  \/ openNamespace \/ restoreJournal \/ republish \/ evict
  \/ materialized \/ skipCommit \/ writeDataFile \/ icebergCommit \/ syncMetadata
  \/ markMaterialized \/ materializeFails
  \/ StartWrite \/ Insert \/ ImportRecords \/ mutate \/ UpsertByKey \/ Delete
  \/ StartBatch \/ lookupBatch \/ beginBatch \/ recordIntent \/ commitBatch
  \/ removeJournal \/ batchFails
  \/ StartMigrate \/ planMigration \/ EmbedRows \/ ApplyTurn \/ PlanAgain
  \/ stageVectors \/ applyMigration \/ rewriteForMigration \/ applySecretMoves
  \/ embedFails
  \/ StartVacuum \/ stampVacuum \/ compact \/ expireSnapshots \/ syncCompacted
  \/ finishVacuum \/ vacuumFails
  \/ StartDrop \/ DropTable \/ drainSidecars \/ StartCreate \/ CreateTable
  \/ DropNamespace \/ makeRoom
  \/ StartQuery \/ ensureSidecar \/ lockBarrier \/ ensureAgain
  \/ runQuery \/ StartRead \/ readRows
  \/ Listen \/ ReplayNext \/ run \/ anchorListen \/ fetch \/ fetchLive \/ deliver \/ cancel
  \/ readStamp \/ snapshotTables \/ copyTree \/ backupNamespace
  \/ Crash \/ CloseStore

LakeSpec == LakeInit /\ [][LakeNext]_lakeVars

(***************************************************************************)
(* What the engine promises.                                               *)
(***************************************************************************)
\* Whatever step the process stops at, the catalog and files the next open
\* recovers amount to exactly the acknowledged writes: none lost between the
\* journal and its data file, none applied twice, a batch or a rewriting
\* migration whole or not at all (recoverBatch, materialize).
LakeDurable == Content(Recovered, lkDisk) = Truth

\* A table that has been migrated to vectors holds, in every row, the vector
\* of the text the row now has, whatever was written while the migration
\* embedded outside the gate (planData, stageVectors, applyMigration).
LakeVectors ==
  \A t \in LakeTables : Truth[t].ver = 2 => \A r \in Truth[t].rows : r.e = r.v

\* A SQL query or a read answers with a state that was the acknowledged one
\* at some moment between its start and its answer: never a batch half done,
\* a rolled back write or a table whose files a vacuum is replacing.
LakeReads ==
  lkQuery.pc = "done" =>
    \E i \in lkQuery.from .. Len(lkHist) : lkHist[i][lkQuery.t].rows = lkQuery.ans

\* What a listen session replays and queues are the changes of the recovered
\* catalog, in order, from its cursor, without a gap or a repetition at the
\* boundary of replay and live, and no change is delivered that a later
\* recovery takes back.
LakeFeed ==
  LET mine(a, b) == SelectSeq(SubSeq(Recovered.changes, a + 1, b),
                              LAMBDA r : InFeed(lkFeed, r)) IN
  lkFeed.pc # "off" /\ lkFeed.nsGen = Recovered.nsGen =>
    /\ lkFeed.at <= lkFeed.head
    /\ lkFeed.replayed = mine(lkFeed.from, lkFeed.at)
    /\ IsPrefix(lkFeed.queued, mine(lkFeed.head, Len(Recovered.changes)))
    /\ lkFeed.pc = "on" => lkFeed.queued = mine(lkFeed.head, lkFeed.live)

\* A backup that reports success restores to the state that was acknowledged
\* when its catalog was read, with every file it needs, though writes,
\* vacuums and drops went on beside it.
LakeBackup ==
  lkBack.pc = "done" => Content(lkBack.cat, lkBack.disk) = lkHist[lkBack.at]
=============================================================================
