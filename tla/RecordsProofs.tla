---------------------------- MODULE RecordsProofs ----------------------------
(***************************************************************************)
(* A table's rows, vectors and idempotency records stay consistent          *)
(* (ExactlyOnce, VectorsMatch, RecordsSafe), for every number of writers    *)
(* and migrators, whatever the texts, keys, owners, providers, dimensions   *)
(* and page sizes, and however often the server restarts.                   *)
(*                                                                          *)
(* The argument: what a writer prepared outside its transaction fits the    *)
(* schema that it read, and the transaction re-checks that this is still    *)
(* the table's; a keyed insert leaves its record in the transaction that    *)
(* inserts the row, so that within a lifetime records and inserted rows     *)
(* are the same, and the look-up inside the transaction sees all of them.   *)
(* A staged vector is of the provider it is filed under, one per lifetime,  *)
(* row and provider, and the activation stamps only the vectors of the      *)
(* texts that the rows hold in its own transaction.                         *)
(***************************************************************************)
EXTENDS Records, TLAPS, FiniteSetTheorems

Words == Texts \cup {Empty}
Vec   == [text : Texts, space : Providers, dim : Dims]
Row   == [text : Words, vec : Vec \cup {NoVec}]
Table == [live : BOOLEAN, gen : Nat, sc : Schema]
Staged == [gen : Nat, id : Nat \ {0}, provider : Providers, vec : Vec]

WriteAt   == {"gen", "schema", "lookup", "read", "embed", "tx"}
IdleRow   == [pc : {"idle"}]
AnswerRow == [pc : {"answered"}, owner : Owners \cup {Legacy}, key : Keys, text : Words,
              began : Nat, id : Nat]
WorkRow   == [pc : WriteAt, op : {"insert", "update", "upsert"}, text : Words, key : Keys,
              owner : Owners \cup {Legacy}, id : Nat, attempt : Nat, began : Nat, gen : Nat,
              sc : Schema, vec : Vec \cup {NoVec}]

\* A vector of the text that the schema admits, or none where none is due.  (An
\* update without a match when it was read has not embedded.)
VectorDue(sc, text, vec) ==
    IF Embeds(sc, text)
    THEN /\ vec \in Vec /\ vec.text = text
         /\ sc.space \in {NoSpace, vec.space} /\ sc.dim \in {0, vec.dim}
    ELSE vec = NoVec

WriterFits(w) ==
    /\ w \in IdleRow \cup AnswerRow \cup WorkRow
    /\ w.pc = "answered" => \E r \in inserted :
          /\ r.id = w.id /\ r.key = w.key /\ r.text = w.text
          /\ r.owner = w.owner \/ (r.owner = Legacy /\ w.owner \in TableWide)
          /\ r.gen >= w.began
    /\ w.pc \in WriteAt =>
          /\ w.began <= table.gen
          /\ w.op # "insert" => w.key = NoKey
          /\ w.pc = "lookup" => w.key # NoKey
          /\ w.pc = "read" => w.op # "insert" /\ w.vec = NoVec
          /\ w.pc = "tx" => \/ VectorDue(w.sc, w.text, w.vec)
                            \/ w.op = "update" /\ w.vec = NoVec

PageRow == [id : Nat \ {0}, text : Texts]
Kinds   == {"on", "off", "add", "plain"}
MigrateAt == {"plan", "constant", "page", "load", "stage", "cover", "covering", "activate"}
MigrateRow(m) ==
    [pc : MigrateAt, kind : Kinds, attempt : Nat, firstGen : Int, gen : Nat, expected : {m.expected},
     dim : {m.dim}, after : {m.after}, page : SUBSET PageRow, fresh : SUBSET PageRow,
     constant : Vec \cup {NoVec}, head : {m.head}, snapshot : {m.snapshot}]

OncePerId(rs) == \A r, q \in rs : r.id = q.id => r = q

\* A migration of an added field has its constant vector once it is past making it.
MigratorFits(m) ==
    \/ m \in IdleRow
    \/ /\ m \in MigrateRow(m)
       /\ OncePerId(m.page) /\ m.fresh \subseteq m.page /\ (m.pc # "stage" => m.fresh = {})
       /\ m.kind = "add" => m.pc \in {"plan", "constant", "cover", "activate"}
       /\ m.kind # "add" => m.pc # "constant"
       /\ m.kind = "add" /\ m.pc \in {"cover", "activate"} =>
             m.constant \in Vec /\ m.constant.space = provider

StoreTyped ==
    /\ table \in Table
    /\ rows \in [DOMAIN rows -> Row] /\ DOMAIN rows \subseteq 1 .. lastId /\ lastId \in Nat
    /\ ~table.live => DOMAIN rows = {}
    /\ scene \in RecordScene /\ provider \in Providers

\* A staged vector is of its provider; there is one per lifetime, row and provider.
StageFits ==
    /\ stage \subseteq Staged
    /\ \A s \in stage : s.vec.space = s.provider
    /\ \A s, t \in stage : (s.gen = t.gen /\ s.id = t.id /\ s.provider = t.provider) => s = t

\* The records of this lifetime are those of the keyed inserts of this lifetime.
RecordsFit ==
    /\ \A r \in inserted : r.gen \in Nat /\ r.gen <= table.gen
    /\ \A r \in inserted : r.gen = table.gen =>
          \E q \in idem : q.owner = r.owner /\ q.key = r.key
    /\ \A q \in idem : q.id \in 1 .. lastId /\ \E r \in inserted :
          /\ r.gen = table.gen /\ r.owner = q.owner /\ r.key = q.key /\ r.text = q.text /\ r.id = q.id

RecordsInv ==
    /\ StoreTyped /\ VectorsMatch /\ NoVectorsLeft
    /\ StageFits /\ RecordsFit /\ ExactlyOnce
    /\ writer = [c \in Writers |-> writer[c]] /\ migrator = [c \in Migrators |-> migrator[c]]
    /\ \A c \in Writers : WriterFits(writer[c])
    /\ \A c \in Migrators : MigratorFits(migrator[c])

-----------------------------------------------------------------------------
(* Vectors and schemas.                                                     *)

LEMMA NoVecFacts == NoVec \notin Vec /\ NoVec.text = Empty /\ NoSpace \notin Providers
  BY RecordsAssumption DEF NoVec, Vec, NoSpace

\* The provider's vector is the one that is due.
LEMMA Embedded ==
    ASSUME NEW sc \in Schema, NEW text \in Words, NEW d \in Dims, provider \in Providers,
           EmbedAdmits(sc, text, d)
    PROVE  VectorDue(sc, text, EmbedVector(sc, text, d)) /\ EmbedVector(sc, text, d) \in Vec \cup {NoVec}
  BY DEF EmbedAdmits, EmbedVector, VectorDue, Embeds, Vec, Words

\* The first vector pins the space and the dimension, later ones find them pinned.
LEMMA Pins ==
    ASSUME NEW sc \in Schema, NEW vec \in Vec \cup {NoVec}
    PROVE  /\ Pinned(sc, vec) \in Schema /\ Pinned(sc, vec).vectorize = sc.vectorize
           /\ vec = NoVec => Pinned(sc, vec) = sc
           /\ vec # NoVec => /\ Pinned(sc, vec).space = IF sc.space = NoSpace THEN vec.space ELSE sc.space
                             /\ Pinned(sc, vec).dim = IF sc.dim = 0 THEN vec.dim ELSE sc.dim
  <1>1. CASE vec = NoVec
    BY <1>1 DEF Pinned
  <1>2. CASE vec # NoVec
    <2>1. vec.space \in Providers /\ vec.dim \in Nat
      BY <1>2, RecordsAssumption DEF Vec
    <2> QED BY <1>2, <2>1 DEF Pinned, Schema
  <1> QED BY <1>1, <1>2

-----------------------------------------------------------------------------
(* One writer moves, and nothing else.                                      *)

\* What a writer knows stays true while lifetimes and history only grow.
LEMMA WriterKept ==
    ASSUME NEW w, WriterFits(w), table.gen \in Nat, table'.gen \in Nat, table.gen <= table'.gen,
           inserted \subseteq inserted'
    PROVE  WriterFits(w)'
  <1>1. w \in WorkRow => w.began \in Nat
    BY DEF WorkRow
  <1>2. w.pc \in WriteAt => w \in WorkRow
    BY DEF WriterFits, IdleRow, AnswerRow, WriteAt
  <1>3. w.pc \in WriteAt => w.began <= table'.gen
    BY <1>1, <1>2 DEF WriterFits
  <1> QED BY <1>3 DEF WriterFits, VectorDue, Embeds

LEMMA WriterMoves ==
    ASSUME RecordsInv, NEW c \in Writers, UNCHANGED <<store, server, migrator, inserted>>,
           writer' = [writer EXCEPT ![c] = writer'[c]], WriterFits(writer'[c])
    PROVE  RecordsInv'
  <1>1. UNCHANGED <<table, rows, lastId, stage, idem, scene, provider, migrator, inserted>>
    BY DEF store, server
  <1>2. StoreTyped' /\ StageFits' /\ RecordsFit' /\ ExactlyOnce'
    BY <1>1 DEF RecordsInv, StoreTyped, StageFits, RecordsFit, ExactlyOnce
  <1>3. VectorsMatch' /\ NoVectorsLeft'
    BY <1>1 DEF RecordsInv, VectorsMatch, NoVectorsLeft
  <1>4. writer' = [d \in Writers |-> writer'[d]] /\ \A d \in Writers \ {c} : writer'[d] = writer[d]
    BY DEF RecordsInv
  <1>5. \A d \in Writers : WriterFits(writer[d])'
    <2>1. \A d \in Writers : WriterFits(writer'[d])
      BY <1>4 DEF RecordsInv
    <2> QED BY <1>1, <2>1 DEF WriterFits, VectorDue, Embeds
  <1>6. \A d \in Migrators : MigratorFits(migrator[d])'
    BY <1>1 DEF RecordsInv, MigratorFits, OncePerId, MigrateRow
  <1>7. migrator' = [d \in Migrators |-> migrator'[d]]
    BY <1>1 DEF RecordsInv
  <1> QED BY <1>2, <1>3, <1>4, <1>5, <1>6, <1>7 DEF RecordsInv

\* A writer at work, and what Writers are.
LEMMA AtWork ==
    ASSUME RecordsInv, NEW c \in Writers, writer[c].pc \in WriteAt
    PROVE  /\ writer[c] \in WorkRow /\ table \in Table /\ provider \in Providers
           /\ writer[c].began \in Nat /\ table.gen \in Nat /\ writer[c].began <= table.gen
           /\ WriterFits(writer[c])
  <1>1. WriterFits(writer[c]) /\ table \in Table /\ provider \in Providers
    BY DEF RecordsInv, StoreTyped
  <1>2. writer[c] \in WorkRow
    BY <1>1 DEF WriterFits, IdleRow, AnswerRow, WriteAt
  <1> QED BY <1>1, <1>2 DEF WriterFits, WorkRow, Table

LEMMA Finished == WriterFits(DoneW)
  BY DEF WriterFits, DoneW, IdleRow, WriteAt

\* A call that found its key's record is answered with the row of that record.
LEMMA Replies ==
    ASSUME RecordsInv, NEW c \in Writers, writer[c].pc \in WriteAt, writer[c].key # NoKey,
           Replayed(c, writer[c])
    PROVE  writer' = [writer EXCEPT ![c] = writer'[c]] /\ WriterFits(writer'[c])
  <1> DEFINE w == writer[c]
  <1>1. PICK q \in lookupIdem(w.owner, w.key) :
            writer' = [writer EXCEPT ![c] = IF q.text = w.text THEN Answered(w, q.id) ELSE DoneW]
    BY DEF Replayed
  <1>2. writer'[c] = (IF q.text = w.text THEN Answered(w, q.id) ELSE DoneW) /\ writer' = [writer EXCEPT ![c] = writer'[c]]
    BY <1>1 DEF RecordsInv
  <1>3. CASE q.text # w.text
    BY <1>2, <1>3, Finished
  <1>4. CASE q.text = w.text
    <2>1. /\ q \in idem /\ q.key = w.key
          /\ q.owner = w.owner \/ (q.owner = Legacy /\ w.owner \in TableWide)
      BY <1>1 DEF lookupIdem, readIdem
    <2>2. PICK r \in inserted : /\ r.gen = table.gen /\ r.owner = q.owner /\ r.key = q.key
                                /\ r.text = q.text /\ r.id = q.id
      BY <2>1 DEF RecordsInv, RecordsFit
    <2>3. q.id \in Nat
      BY <2>1 DEF RecordsInv, RecordsFit, StoreTyped
    <2>4. w \in WorkRow /\ w.began \in Nat /\ table.gen \in Nat /\ w.began <= table.gen
      BY AtWork
    <2>5. writer'[c] = [pc |-> "answered", owner |-> w.owner, key |-> w.key, text |-> w.text,
                        began |-> w.began, id |-> q.id]
      BY <1>2, <1>4 DEF Answered
    <2>6. writer'[c] \in AnswerRow
      BY <2>3, <2>4, <2>5 DEF AnswerRow, WorkRow
    <2>7. r.gen >= w.began
      BY <2>2, <2>4
    <2>8. /\ writer'[c].pc = "answered" /\ writer'[c].owner = w.owner /\ writer'[c].key = w.key
          /\ writer'[c].text = w.text /\ writer'[c].began = w.began /\ writer'[c].id = q.id
      BY <2>5
    <2>9. WriterFits(writer'[c])
      BY <1>4, <2>1, <2>2, <2>6, <2>7, <2>8 DEF WriterFits, WriteAt
    <2> QED BY <1>2, <2>9
  <1> QED BY <1>2, <1>3, <1>4

-----------------------------------------------------------------------------
(* The steps of a write before its transaction, and those that end it.      *)

LEMMA WriteStarts ==
    ASSUME RecordsInv, NEW c \in Writers, NEW op \in {"insert", "update", "upsert"}, NEW text \in Words,
           NEW key \in Keys, NEW owner \in Owners \cup {Legacy}, NEW id \in Nat,
           WriteStart(c, op, text, key, owner, id)
    PROVE  RecordsInv'
  <1> DEFINE w == [pc |-> IF op = "insert" THEN "gen" ELSE "read", op |-> op, text |-> text,
                   key |-> key, owner |-> owner, id |-> id, attempt |-> 0, began |-> table.gen,
                   gen |-> 0, sc |-> table.sc, vec |-> NoVec]
  <1>1. writer' = [writer EXCEPT ![c] = w] /\ UNCHANGED <<store, server, migrator, inserted>>
        /\ (op # "insert" => key = NoKey)
    BY DEF WriteStart
  <1>2. writer'[c] = w /\ writer' = [writer EXCEPT ![c] = writer'[c]]
    BY <1>1 DEF RecordsInv
  <1>3. table.gen \in Nat /\ table.sc \in Schema
    BY DEF RecordsInv, StoreTyped, Table
  <1>4. w \in WorkRow
    BY <1>3 DEF WorkRow, WriteAt
  <1>5. /\ w.pc \in {"gen", "read"} /\ w.began = table.gen /\ w.op = op /\ w.key = key /\ w.vec = NoVec
        /\ w.pc = "read" => op # "insert"
    OBVIOUS
  <1> HIDE DEF w
  <1>6. WriterFits(w)
    BY <1>1, <1>3, <1>4, <1>5 DEF WriterFits, WriteAt
  <1> QED BY <1>1, <1>2, <1>6, WriterMoves

\* The reads and the provider's call.
LEMMA WritePrepares ==
    ASSUME RecordsInv, NEW c \in Writers,
           InsertGen(c) \/ InsertSchema(c) \/ UpdateRead(c) \/ Embed(c)
    PROVE  RecordsInv'
  <1> DEFINE w == writer[c]
  <1>1. UNCHANGED <<store, server, migrator, inserted>> /\ w.pc \in WriteAt
    BY DEF InsertGen, InsertSchema, UpdateRead, Embed, WriteAt
  <1>2. /\ w \in WorkRow /\ table \in Table /\ provider \in Providers /\ w.began <= table.gen
        /\ (w.op # "insert" => w.key = NoKey)
    BY <1>1, AtWork DEF WriterFits
  <1>3. CASE InsertGen(c)
    <2>1. writer' = [writer EXCEPT ![c] = [w EXCEPT !.pc = "schema", !.gen = table.gen]]
      BY <1>3 DEF InsertGen
    <2>2. writer'[c] = [w EXCEPT !.pc = "schema", !.gen = table.gen] /\ writer' = [writer EXCEPT ![c] = writer'[c]]
      BY <2>1 DEF RecordsInv
    <2>3. writer'[c] \in WorkRow /\ writer'[c].pc = "schema" /\ writer'[c].began = w.began
          /\ writer'[c].op = w.op /\ writer'[c].key = w.key
      BY <1>2, <2>2 DEF WorkRow, WriteAt, Table
    <2>4. WriterFits(writer'[c])
      BY <1>2, <2>3 DEF WriterFits, WriteAt
    <2> QED BY <1>1, <2>2, <2>4, WriterMoves
  <1>4. CASE InsertSchema(c)
    <2> DEFINE at == IF w.key = NoKey THEN "embed" ELSE "lookup"
    <2>1. writer' = [writer EXCEPT ![c] = [w EXCEPT !.pc = at, !.sc = table.sc]]
      BY <1>4 DEF InsertSchema
    <2>2. writer'[c] = [w EXCEPT !.pc = at, !.sc = table.sc] /\ writer' = [writer EXCEPT ![c] = writer'[c]]
      BY <2>1 DEF RecordsInv
    <2>3. at \in {"embed", "lookup"} /\ (at = "lookup" => w.key # NoKey)
      OBVIOUS
    <2> HIDE DEF at
    <2>4. writer'[c] \in WorkRow /\ writer'[c].pc = at /\ writer'[c].began = w.began
          /\ writer'[c].op = w.op /\ writer'[c].key = w.key
      BY <1>2, <2>2, <2>3 DEF WorkRow, WriteAt, Table
    <2>5. WriterFits(writer'[c])
      BY <1>2, <2>3, <2>4 DEF WriterFits, WriteAt
    <2> QED BY <1>1, <2>2, <2>5, WriterMoves
  <1>5. CASE UpdateRead(c)
    <2> DEFINE at == IF HasRow(w.id) \/ w.op = "upsert" THEN "embed" ELSE "tx"
    <2>1. writer' = [writer EXCEPT ![c] = [w EXCEPT !.pc = at, !.sc = table.sc, !.gen = table.gen]] /\ w.pc = "read"
      BY <1>5 DEF UpdateRead
    <2>2. writer'[c] = [w EXCEPT !.pc = at, !.sc = table.sc, !.gen = table.gen] /\ writer' = [writer EXCEPT ![c] = writer'[c]]
      BY <2>1 DEF RecordsInv
    <2>3. at \in {"embed", "tx"} /\ (at = "tx" => w.op # "upsert")
      OBVIOUS
    <2> HIDE DEF at
    <2>4. writer'[c] \in WorkRow /\ writer'[c].pc = at /\ writer'[c].began = w.began
          /\ writer'[c].op = w.op /\ writer'[c].key = w.key /\ writer'[c].vec = w.vec
      BY <1>2, <2>2, <2>3 DEF WorkRow, WriteAt, Table
    <2>5. w.op # "insert" /\ w.vec = NoVec
      BY <1>2, <2>1, AtWork DEF WriterFits, WriteAt
    <2>6. at = "tx" => w.op = "update"
      BY <1>2, <2>3, <2>5 DEF WorkRow
    <2>7. WriterFits(writer'[c])
      BY <1>2, <2>3, <2>4, <2>5, <2>6 DEF WriterFits, WriteAt
    <2> QED BY <1>1, <2>2, <2>7, WriterMoves
  <1>6. CASE Embed(c)
    <2>1. PICK d \in scene.dims : /\ EmbedAdmits(w.sc, w.text, d)
                                  /\ writer' = [writer EXCEPT ![c].pc = "tx", ![c].vec = EmbedVector(w.sc, w.text, d)]
      BY <1>6 DEF Embed
    <2>2. d \in Dims
      BY <2>1 DEF RecordsInv, StoreTyped, RecordScene
    <2> DEFINE v == EmbedVector(w.sc, w.text, d)
    <2>3. VectorDue(w.sc, w.text, v) /\ v \in Vec \cup {NoVec} /\ w.sc \in Schema /\ w.text \in Words
      BY <1>2, <2>1, <2>2, Embedded DEF WorkRow
    <2>4. writer' = [writer EXCEPT ![c] = [w EXCEPT !.pc = "tx", !.vec = v]]
      BY <2>1
    <2> HIDE DEF v
    <2>5. writer'[c] = [w EXCEPT !.pc = "tx", !.vec = v] /\ writer' = [writer EXCEPT ![c] = writer'[c]]
      BY <2>4 DEF RecordsInv
    <2>6. writer'[c] \in WorkRow /\ writer'[c].pc = "tx" /\ writer'[c].began = w.began
          /\ writer'[c].op = w.op /\ writer'[c].key = w.key /\ writer'[c].vec = v
          /\ writer'[c].sc = w.sc /\ writer'[c].text = w.text
      BY <1>2, <2>3, <2>5 DEF WorkRow, WriteAt
    <2>7. WriterFits(writer'[c])
      BY <1>2, <2>3, <2>6 DEF WriterFits, WriteAt
    <2> QED BY <1>1, <2>5, <2>7, WriterMoves
  <1> QED BY <1>3, <1>4, <1>5, <1>6

\* A retry forgets what it read and made.
LEMMA WriteRetries ==
    ASSUME RecordsInv, NEW c \in Writers, WriteRetry(c)
    PROVE  RecordsInv'
  <1> DEFINE w == writer[c]
             at == IF w.op = "insert" THEN "gen" ELSE "read"
             again == [w EXCEPT !.pc = at, !.attempt = @ + 1, !.vec = NoVec]
  <1>1. /\ UNCHANGED <<store, server, migrator, inserted>> /\ w.pc = "tx"
        /\ writer' = [writer EXCEPT ![c] = IF w.attempt >= maxAttempts THEN DoneW ELSE again]
    BY DEF WriteRetry
  <1>2. w \in WorkRow /\ w.began <= table.gen /\ (w.op # "insert" => w.key = NoKey)
    BY <1>1, AtWork DEF WriterFits, WriteAt
  <1>3. again \in WorkRow
    <2>1. w.attempt \in Nat
      BY <1>2 DEF WorkRow
    <2>2. w.attempt + 1 \in Nat
      BY ONLY <2>1
    <2>3. at \in WriteAt
      BY DEF WriteAt
    <2> HIDE DEF at
    <2> QED BY <1>2, <2>2, <2>3 DEF WorkRow
  <1>4. /\ again.pc = (IF w.op = "insert" THEN "gen" ELSE "read") /\ again.vec = NoVec
        /\ again.began = w.began /\ again.op = w.op /\ again.key = w.key
    BY <1>2 DEF WorkRow
  <1> HIDE DEF again
  <1>5. WriterFits(again)
    BY <1>2, <1>3, <1>4 DEF WriterFits, WriteAt
  <1>6. writer'[c] \in {again, DoneW} /\ writer' = [writer EXCEPT ![c] = writer'[c]]
    BY <1>1 DEF RecordsInv
  <1> QED BY <1>1, <1>5, <1>6, Finished, WriterMoves

LEMMA WriteEnds ==
    ASSUME RecordsInv, NEW c \in Writers,
           InsertLookup(c) \/ InsertReplay(c) \/ WriteFails(c) \/ UpdateNone(c)
    PROVE  RecordsInv'
  <1> DEFINE w == writer[c]
  <1>1. UNCHANGED <<store, server, migrator, inserted>>
    BY DEF InsertLookup, InsertReplay, WriteFails, UpdateNone
  <1>2. CASE InsertLookup(c)
    <2>1. w.pc = "lookup"
      BY <1>2 DEF InsertLookup
    <2>2. /\ w \in WorkRow /\ w.began <= table.gen /\ (w.op # "insert" => w.key = NoKey) /\ w.key # NoKey
      BY <2>1, AtWork DEF WriterFits, WriteAt
    <2>3. CASE Replayed(c, w)
      BY <1>1, <2>1, <2>2, <2>3, Replies, WriterMoves DEF WriteAt
    <2>4. CASE writer' = [writer EXCEPT ![c].pc = "embed"]
      <3>1. writer'[c] = [w EXCEPT !.pc = "embed"] /\ writer' = [writer EXCEPT ![c] = writer'[c]]
        BY <2>4 DEF RecordsInv
      <3>2. writer'[c] \in WorkRow /\ writer'[c].pc = "embed" /\ writer'[c].began = w.began
            /\ writer'[c].op = w.op /\ writer'[c].key = w.key
        BY <2>2, <3>1 DEF WorkRow, WriteAt
      <3>3. WriterFits(writer'[c])
        BY <2>2, <3>2 DEF WriterFits, WriteAt
      <3> QED BY <1>1, <3>1, <3>3, WriterMoves
    <2> QED BY <1>2, <2>3, <2>4 DEF InsertLookup
  <1>3. CASE InsertReplay(c)
    BY <1>1, <1>3, Replies, WriterMoves DEF InsertReplay, WriteAt
  <1>4. CASE WriteFails(c) \/ UpdateNone(c)
    <2>1. writer' = [writer EXCEPT ![c] = DoneW]
      BY <1>4 DEF WriteFails, UpdateNone
    <2>2. writer'[c] = DoneW /\ writer' = [writer EXCEPT ![c] = writer'[c]]
      BY <2>1 DEF RecordsInv
    <2> QED BY <1>1, <2>2, Finished, WriterMoves
  <1> QED BY <1>2, <1>3, <1>4

-----------------------------------------------------------------------------
(* The write transactions.                                                  *)

\* A row with the vector that is due to it leaves every row with its own.
LEMMA RowWritten ==
    ASSUME RecordsInv, table.live, NEW id, NEW text \in Words, NEW vec,
           VectorDue(table.sc, text, vec), vec \in Vec \cup {NoVec},
           table' = [table EXCEPT !.sc = Pinned(table.sc, vec)],
           DOMAIN rows' = DOMAIN rows \cup {id},
           rows'[id] = [text |-> text, vec |-> vec],
           \A i \in DOMAIN rows \ {id} : rows'[i] = rows[i]
    PROVE  VectorsMatch' /\ NoVectorsLeft'
  <1> DEFINE sc == table.sc   sc1 == Pinned(sc, vec)
  <1>1. table \in Table /\ sc \in Schema
    BY DEF RecordsInv, StoreTyped, Table
  <1>2. table'.live /\ table'.sc = sc1
    BY <1>1 DEF Table
  <1>3. /\ sc1 \in Schema /\ sc1.vectorize = sc.vectorize /\ (vec = NoVec => sc1 = sc)
        /\ vec # NoVec => /\ sc1.space = IF sc.space = NoSpace THEN vec.space ELSE sc.space
                          /\ sc1.dim = IF sc.dim = 0 THEN vec.dim ELSE sc.dim
    BY <1>1, Pins
  <1> HIDE DEF sc, sc1
  <1>4. rows'[id].text = text /\ rows'[id].vec = vec
    OBVIOUS
  <1>5. CASE ~sc.vectorize
    <2>1. vec = NoVec
      BY <1>5 DEF VectorDue, Embeds, sc
    <2>2. \A i \in DOMAIN rows' : rows'[i].vec = NoVec
      BY <1>4, <1>5, <2>1 DEF RecordsInv, NoVectorsLeft, sc
    <2> QED BY <1>2, <1>3, <1>5, <2>2 DEF VectorsMatch, NoVectorsLeft
  <1>6. CASE sc.vectorize
    <2>1. ASSUME NEW i \in DOMAIN rows \ {id}
          PROVE  rows'[i].vec = IF rows'[i].text = Empty THEN NoVec
                                ELSE [text |-> rows'[i].text, space |-> sc1.space, dim |-> sc1.dim]
      <3>1. rows[i].vec = IF rows[i].text = Empty THEN NoVec
                          ELSE [text |-> rows[i].text, space |-> sc.space, dim |-> sc.dim]
        BY <1>6 DEF RecordsInv, VectorsMatch, sc
      <3>2. rows[i].vec \in Vec \cup {NoVec}
        BY DEF RecordsInv, StoreTyped, Row
      <3>3. rows[i].text # Empty => sc.space # NoSpace /\ sc.dim # 0
        <4> SUFFICES ASSUME rows[i].text # Empty PROVE sc.space # NoSpace /\ sc.dim # 0
          OBVIOUS
        <4>1. rows[i].vec.text = rows[i].text /\ rows[i].vec.space = sc.space /\ rows[i].vec.dim = sc.dim
          BY <3>1
        <4>2. rows[i].vec \in Vec
          BY <3>2, <4>1, NoVecFacts
        <4> QED BY <4>1, <4>2, NoVecFacts, RecordsAssumption DEF Vec
      <3>4. rows[i].text # Empty => sc1.space = sc.space /\ sc1.dim = sc.dim
        BY <1>3, <3>3
      <3> QED BY <3>1, <3>4
    <2>2. vec = IF text = Empty THEN NoVec ELSE [text |-> text, space |-> sc1.space, dim |-> sc1.dim]
      <3>1. CASE text = Empty
        BY <3>1 DEF VectorDue, Embeds
      <3>2. CASE text # Empty
        <4>1. vec \in Vec /\ vec.text = text /\ sc.space \in {NoSpace, vec.space} /\ sc.dim \in {0, vec.dim}
          BY <1>6, <3>2 DEF VectorDue, Embeds, sc
        <4>2. vec # NoVec
          BY <4>1, NoVecFacts
        <4>3. sc1.space = vec.space /\ sc1.dim = vec.dim
          BY <1>3, <4>1, <4>2
        <4> QED BY <3>2, <4>1, <4>3 DEF Vec
      <3> QED BY <3>1, <3>2
    <2>3. \A i \in DOMAIN rows' : rows'[i].vec = IF rows'[i].text = Empty THEN NoVec
                                ELSE [text |-> rows'[i].text, space |-> sc1.space, dim |-> sc1.dim]
      BY <1>4, <2>1, <2>2
    <2> QED BY <1>2, <1>3, <1>6, <2>3 DEF VectorsMatch, NoVectorsLeft
  <1> QED BY <1>5, <1>6

\* Nothing that a write transaction leaves alone is disturbed by it.
LEMMA OthersKept ==
    ASSUME RecordsInv, NEW c \in Writers, NEW w1, writer' = [writer EXCEPT ![c] = w1],
           table' \in Table, table'.gen = table.gen, inserted \subseteq inserted',
           WriterFits(w1)', UNCHANGED <<provider, migrator>>
    PROVE  /\ writer' = [d \in Writers |-> writer'[d]] /\ migrator' = [d \in Migrators |-> migrator'[d]]
           /\ \A d \in Writers : WriterFits(writer[d])'
           /\ \A d \in Migrators : MigratorFits(migrator[d])'
  <1>1. writer' = [d \in Writers |-> writer'[d]] /\ writer'[c] = w1 /\ \A d \in Writers \ {c} : writer'[d] = writer[d]
    BY DEF RecordsInv
  <1>2. table.gen \in Nat /\ table'.gen \in Nat /\ table.gen <= table'.gen
    BY DEF RecordsInv, StoreTyped, Table
  <1>3. ASSUME NEW d \in Writers PROVE WriterFits(writer[d])'
    <2>1. CASE d = c
      BY <1>1, <2>1 DEF WriterFits, VectorDue, Embeds
    <2>2. CASE d # c
      <3>1. PICK v : v = writer[d]
        OBVIOUS
      <3>2. WriterFits(v)
        BY <3>1 DEF RecordsInv
      <3>3. WriterFits(v)'
        BY <1>2, <3>2, WriterKept
      <3>4. writer'[d] = v
        BY <1>1, <2>2, <3>1
      <3> QED BY <3>3, <3>4 DEF WriterFits, VectorDue, Embeds
    <2> QED BY <2>1, <2>2
  <1>4. \A d \in Migrators : MigratorFits(migrator[d])'
    BY DEF RecordsInv, MigratorFits, OncePerId, MigrateRow
  <1> QED BY <1>1, <1>3, <1>4 DEF RecordsInv

LEMMA Inserts ==
    ASSUME RecordsInv, NEW c \in Writers, InsertTx(c) \/ UpsertTx(c)
    PROVE  RecordsInv'
  <1> DEFINE w == writer[c]   id == lastId + 1   sc1 == Pinned(w.sc, w.vec)
             record == [owner |-> w.owner, key |-> w.key, text |-> w.text, id |-> id]
             past == [gen |-> table.gen, owner |-> w.owner, key |-> w.key, text |-> w.text, id |-> id]
  <1>1. /\ w.pc = "tx" /\ Unmoved(w) /\ InsertRow(c, w.vec) /\ w.op \in {"insert", "upsert"}
        /\ w.key # NoKey /\ w.op = "insert" => lookupIdem(w.owner, w.key) = {}
    BY DEF InsertTx, UpsertTx
  <1>2. /\ rows' = [i \in DOMAIN rows \cup {id} |->
                     IF i = id THEN [text |-> w.text, vec |-> w.vec] ELSE rows[i]]
        /\ lastId' = id /\ table' = [table EXCEPT !.sc = sc1]
        /\ idem' = (IF w.key = NoKey THEN idem ELSE idem \cup {record})
        /\ inserted' = (IF w.key = NoKey THEN inserted ELSE inserted \cup {past})
        /\ writer' = [writer EXCEPT ![c] = Answered(w, id)]
        /\ UNCHANGED <<stage, scene, provider, migrator>>
    BY <1>1 DEF InsertRow, server
  <1>3. /\ w \in WorkRow /\ w.began <= table.gen /\ w.began \in Nat /\ table.gen \in Nat
        /\ (w.op # "insert" => w.key = NoKey) /\ VectorDue(w.sc, w.text, w.vec)
    BY <1>1, AtWork DEF WriterFits, WriteAt
  <1>4. table.live /\ table.sc = w.sc /\ table \in Table /\ w.sc \in Schema /\ lastId \in Nat
    BY <1>1, <1>3 DEF Unmoved, RecordsInv, StoreTyped, WorkRow
  <1>5. sc1 \in Schema
    BY <1>3, <1>4, Pins DEF WorkRow
  <1>6. table' \in Table /\ table'.gen = table.gen /\ table'.live
    BY <1>2, <1>4, <1>5 DEF Table
  <1>7. id \in Nat /\ id \in 1 .. id /\ id \notin DOMAIN rows /\ DOMAIN rows \subseteq 1 .. id
    BY <1>4 DEF RecordsInv, StoreTyped
  <1>8. StoreTyped'
    <2>1. [text |-> w.text, vec |-> w.vec] \in Row
      BY <1>3 DEF WorkRow, Row
    <2>2. DOMAIN rows' = DOMAIN rows \cup {id} /\ rows' \in [DOMAIN rows' -> Row]
      BY <1>2, <2>1 DEF RecordsInv, StoreTyped
    <2> QED BY <1>2, <1>6, <1>7, <2>2 DEF RecordsInv, StoreTyped
  <1>9. VectorsMatch' /\ NoVectorsLeft'
    <2>1. /\ DOMAIN rows' = DOMAIN rows \cup {id} /\ rows'[id] = [text |-> w.text, vec |-> w.vec]
          /\ \A i \in DOMAIN rows \ {id} : rows'[i] = rows[i]
      BY <1>2
    <2>2. w.text \in Words /\ w.vec \in Vec \cup {NoVec}
      BY <1>3 DEF WorkRow
    <2> QED BY <1>2, <1>3, <1>4, <2>1, <2>2, RowWritten
  <1>10. StageFits'
    BY <1>2 DEF RecordsInv, StageFits
  <1>11. RecordsFit' /\ ExactlyOnce'
    <2>1. /\ \A r \in inserted : r.gen \in Nat /\ r.gen <= table'.gen
          /\ \A r \in inserted : r.gen = table'.gen => \E q \in idem : q.owner = r.owner /\ q.key = r.key
          /\ \A q \in idem : q.id \in 1 .. id /\ \E r \in inserted :
               /\ r.gen = table'.gen /\ r.owner = q.owner /\ r.key = q.key /\ r.text = q.text /\ r.id = q.id
      <3>1. \A q \in idem : q.id \in 1 .. lastId
        BY DEF RecordsInv, RecordsFit
      <3>2. \A n \in 1 .. lastId : n \in 1 .. id
        BY ONLY <1>4
      <3> QED BY <1>6, <3>1, <3>2 DEF RecordsInv, RecordsFit
    <2>2. CASE w.key = NoKey
      BY <1>2, <2>1, <2>2 DEF RecordsInv, RecordsFit, ExactlyOnce
    <2>3. CASE w.key # NoKey
      <3>1. \A q \in idem : ~(q.owner = w.owner /\ q.key = w.key)
        BY <1>1, <1>3, <2>3 DEF lookupIdem, readIdem
      <3>2. \A r \in inserted : ~(r.gen = table.gen /\ r.owner = w.owner /\ r.key = w.key)
        BY <1>6, <2>1, <3>1
      <3>3. idem' = idem \cup {record} /\ inserted' = inserted \cup {past}
        BY <1>2, <2>3
      <3>4. /\ past.gen = table.gen /\ past.owner = w.owner /\ past.key = w.key /\ past.text = w.text /\ past.id = id
            /\ record.owner = w.owner /\ record.key = w.key /\ record.text = w.text /\ record.id = id
        OBVIOUS
      <3> HIDE DEF past, record
      <3>5. ExactlyOnce'
        BY <3>2, <3>3, <3>4 DEF RecordsInv, ExactlyOnce
      <3>6. /\ \A r \in inserted' : r.gen \in Nat /\ r.gen <= table'.gen
            /\ \A r \in inserted' : r.gen = table'.gen => \E q \in idem' : q.owner = r.owner /\ q.key = r.key
        BY <1>3, <1>6, <2>1, <3>3, <3>4
      <3>7. \A q \in idem' : q.id \in 1 .. id /\ \E r \in inserted' :
               /\ r.gen = table'.gen /\ r.owner = q.owner /\ r.key = q.key /\ r.text = q.text /\ r.id = q.id
        BY <1>6, <1>7, <2>1, <3>3, <3>4
      <3> QED BY <1>2, <3>5, <3>6, <3>7 DEF RecordsFit
    <2> QED BY <2>2, <2>3
  <1>12. /\ writer' = [d \in Writers |-> writer'[d]] /\ migrator' = [d \in Migrators |-> migrator'[d]]
         /\ \A d \in Writers : WriterFits(writer[d])'
         /\ \A d \in Migrators : MigratorFits(migrator[d])'
    <2>1. inserted \subseteq inserted'
      BY <1>2
    <2>2. PICK a : a = Answered(w, id)
      OBVIOUS
    <2>3. WriterFits(a)'
      <3>1. CASE w.key = NoKey
        BY <2>2, <3>1 DEF Answered, DoneW, WriterFits, IdleRow, WriteAt
      <3>2. CASE w.key # NoKey
        <4>1. a = [pc |-> "answered", owner |-> w.owner, key |-> w.key, text |-> w.text,
                   began |-> w.began, id |-> id]
          BY <2>2, <3>2 DEF Answered
        <4>2. a \in AnswerRow
          BY <1>3, <1>7, <4>1 DEF AnswerRow, WorkRow
        <4>3. /\ a.pc = "answered" /\ a.owner = w.owner /\ a.key = w.key
              /\ a.text = w.text /\ a.began = w.began /\ a.id = id
          BY <4>1
        <4>4. past \in inserted' /\ past.gen = table.gen /\ past.owner = w.owner /\ past.key = w.key
              /\ past.text = w.text /\ past.id = id
          BY <1>2, <3>2
        <4>5. table.gen >= w.began
          BY ONLY <1>3
        <4> HIDE DEF past
        <4> QED BY <4>2, <4>3, <4>4, <4>5 DEF WriterFits, WriteAt
      <3> QED BY <3>1, <3>2
    <2> QED BY <1>2, <1>6, <2>1, <2>2, <2>3, OthersKept
  <1> QED BY <1>8, <1>9, <1>10, <1>11, <1>12 DEF RecordsInv

LEMMA Updates ==
    ASSUME RecordsInv, NEW c \in Writers, UpdateTx(c)
    PROVE  RecordsInv'
  <1> DEFINE w == writer[c]
  <1>1. /\ w.pc = "tx" /\ Unmoved(w) /\ w.op # "insert" /\ HasRow(w.id)
        /\ writer' = [writer EXCEPT ![c] = DoneW]
        /\ UNCHANGED <<lastId, stage, idem, scene, provider, migrator, inserted>>
    BY DEF UpdateTx, server
  <1>2. PICK d \in scene.dims :
          LET vec == IF w.vec = NoVec THEN EmbedVector(w.sc, w.text, d) ELSE w.vec
          IN /\ w.vec = NoVec => EmbedAdmits(w.sc, w.text, d)
             /\ rows' = [rows EXCEPT ![w.id] =
                   [text |-> w.text, vec |-> IF w.sc.vectorize THEN vec ELSE @.vec]]
             /\ table' = [table EXCEPT !.sc = Pinned(w.sc, vec)]
    BY DEF UpdateTx
  <1> DEFINE vec == IF w.vec = NoVec THEN EmbedVector(w.sc, w.text, d) ELSE w.vec
  <1>3. /\ w.vec = NoVec => EmbedAdmits(w.sc, w.text, d)
        /\ rows' = [rows EXCEPT ![w.id] = [text |-> w.text, vec |-> IF w.sc.vectorize THEN vec ELSE @.vec]]
        /\ table' = [table EXCEPT !.sc = Pinned(w.sc, vec)]
    BY <1>2
  <1>4. w \in WorkRow /\ (VectorDue(w.sc, w.text, w.vec) \/ w.vec = NoVec)
    BY <1>1, AtWork DEF WriterFits, WriteAt
  <1>5. table.live /\ table.sc = w.sc /\ table \in Table /\ w.sc \in Schema /\ w.text \in Words /\ w.vec \in Vec \cup {NoVec}
    BY <1>1, <1>4 DEF Unmoved, RecordsInv, StoreTyped, WorkRow
  <1>6. VectorDue(w.sc, w.text, vec) /\ vec \in Vec \cup {NoVec}
    <2>1. d \in Dims /\ provider \in Providers
      BY <1>2 DEF RecordsInv, StoreTyped, RecordScene
    <2>2. CASE w.vec = NoVec
      BY <1>3, <1>5, <2>1, <2>2, Embedded
    <2>3. CASE w.vec # NoVec
      BY <1>4, <1>5, <2>3
    <2> QED BY <2>2, <2>3
  <1> HIDE DEF vec
  <1>7. Pinned(w.sc, vec) \in Schema
    BY <1>5, <1>6, Pins
  <1>8. table' \in Table /\ table'.gen = table.gen /\ table'.live
    BY <1>3, <1>5, <1>7 DEF Table
  <1>9. /\ DOMAIN rows' = DOMAIN rows /\ w.id \in DOMAIN rows
        /\ rows'[w.id] = [text |-> w.text, vec |-> IF w.sc.vectorize THEN vec ELSE rows[w.id].vec]
        /\ \A i \in DOMAIN rows \ {w.id} : rows'[i] = rows[i]
        /\ rows' = [i \in DOMAIN rows |-> rows'[i]]
    BY <1>1, <1>3 DEF HasRow, RecordsInv, StoreTyped
  <1>10. rows'[w.id] = [text |-> w.text, vec |-> vec]
    <2>1. CASE w.sc.vectorize
      BY <1>9, <2>1
    <2>2. CASE ~w.sc.vectorize
      <3>1. rows[w.id].vec = NoVec
        BY <1>5, <1>9, <2>2 DEF RecordsInv, NoVectorsLeft
      <3>2. vec = NoVec
        BY <1>6, <2>2 DEF VectorDue, Embeds
      <3> QED BY <1>9, <2>2, <3>1, <3>2
    <2> QED BY <2>1, <2>2
  <1>11. VectorsMatch' /\ NoVectorsLeft'
    BY <1>3, <1>5, <1>6, <1>9, <1>10, RowWritten
  <1>12. StoreTyped'
    <2>1. [text |-> w.text, vec |-> vec] \in Row
      BY <1>5, <1>6 DEF Row
    <2>2. \A i \in DOMAIN rows : rows'[i] \in Row
      BY <1>9, <1>10, <2>1 DEF RecordsInv, StoreTyped
    <2>3. rows' \in [DOMAIN rows' -> Row]
      BY <1>9, <2>2
    <2> QED BY <1>1, <1>8, <1>9, <2>3 DEF RecordsInv, StoreTyped
  <1>13. StageFits' /\ RecordsFit' /\ ExactlyOnce'
    BY <1>1, <1>8 DEF RecordsInv, StageFits, RecordsFit, ExactlyOnce
  <1>14. WriterFits(DoneW)'
    BY DEF WriterFits, DoneW, IdleRow, WriteAt
  <1>15. /\ writer' = [e \in Writers |-> writer'[e]] /\ migrator' = [e \in Migrators |-> migrator'[e]]
         /\ \A e \in Writers : WriterFits(writer[e])'
         /\ \A e \in Migrators : MigratorFits(migrator[e])'
    BY <1>1, <1>8, <1>14, OthersKept
  <1> QED BY <1>11, <1>12, <1>13, <1>15 DEF RecordsInv

-----------------------------------------------------------------------------
(* One migrator moves, and nothing else but perhaps the stage.              *)

LEMMA MigratorMoves ==
    ASSUME RecordsInv, NEW c \in Migrators, StageFits',
           UNCHANGED <<table, rows, lastId, idem, scene, provider, writer, inserted>>,
           migrator' = [migrator EXCEPT ![c] = migrator'[c]], MigratorFits(migrator'[c])
    PROVE  RecordsInv'
  <1>1. StoreTyped' /\ RecordsFit' /\ ExactlyOnce'
    BY DEF RecordsInv, StoreTyped, RecordsFit, ExactlyOnce
  <1>2. VectorsMatch' /\ NoVectorsLeft'
    BY DEF RecordsInv, VectorsMatch, NoVectorsLeft
  <1>3. writer' = [d \in Writers |-> writer'[d]] /\ \A d \in Writers : WriterFits(writer[d])'
    BY DEF RecordsInv, WriterFits, VectorDue, Embeds
  <1>4. migrator' = [d \in Migrators |-> migrator'[d]] /\ \A d \in Migrators \ {c} : migrator'[d] = migrator[d]
    BY DEF RecordsInv
  <1>5. \A d \in Migrators : MigratorFits(migrator'[d])
    BY <1>4 DEF RecordsInv
  <1>6. \A d \in Migrators : MigratorFits(migrator[d])'
    BY <1>5 DEF MigratorFits, OncePerId, MigrateRow
  <1> QED BY <1>1, <1>2, <1>3, <1>4, <1>6 DEF RecordsInv

LEMMA StageKept == ASSUME RecordsInv, UNCHANGED stage PROVE StageFits'
  BY DEF RecordsInv, StageFits

LEMMA Migrating ==
    ASSUME RecordsInv, NEW c \in Migrators, migrator[c].pc \in MigrateAt
    PROVE  /\ migrator[c] \in MigrateRow(migrator[c])
           /\ OncePerId(migrator[c].page) /\ migrator[c].fresh \subseteq migrator[c].page
           /\ migrator[c].pc # "stage" => migrator[c].fresh = {}
           /\ migrator[c].kind = "add" => migrator[c].pc \in {"plan", "constant", "cover", "activate"}
           /\ migrator[c].kind # "add" => migrator[c].pc # "constant"
           /\ migrator[c].kind = "add" /\ migrator[c].pc \in {"cover", "activate"} =>
                 migrator[c].constant \in Vec /\ migrator[c].constant.space = provider
  BY DEF RecordsInv, MigratorFits, IdleRow, MigrateAt

LEMMA MigratorDone == MigratorFits(DoneM)
  BY DEF MigratorFits, DoneM, IdleRow

\* What the next page holds: rows with a text, each once.
LEMMA PageFacts ==
    ASSUME RecordsInv, NEW after
    PROVE  /\ {[id |-> i, text |-> rows[i].text] : i \in SourcePage(after)} \in SUBSET PageRow
           /\ OncePerId({[id |-> i, text |-> rows[i].text] : i \in SourcePage(after)})
  <1>1. \A i \in SourcePage(after) : i \in DOMAIN rows /\ rows[i].text # Empty
    BY DEF SourcePage
  <1>2. \A i \in SourcePage(after) : i \in Nat \ {0} /\ rows[i].text \in Texts
    <2>1. DOMAIN rows \subseteq Nat \ {0}
      BY DEF RecordsInv, StoreTyped
    <2>2. \A i \in DOMAIN rows : rows[i].text \in Texts \cup {Empty}
      BY DEF RecordsInv, StoreTyped, Row, Words
    <2> QED BY <1>1, <2>1, <2>2
  <1>3. \A i \in SourcePage(after) : [id |-> i, text |-> rows[i].text] \in PageRow
    BY <1>2 DEF PageRow
  <1> QED BY <1>3 DEF OncePerId

LEMMA MigrateStarts ==
    ASSUME RecordsInv, NEW c \in Migrators, NEW kind \in Kinds, NEW bound, MigrateStart(c, kind, bound)
    PROVE  RecordsInv'
  <1> DEFINE m == [pc |-> "plan", kind |-> kind, attempt |-> 0, firstGen |-> -1, gen |-> 0,
           expected |-> IF bound THEN <<table.gen, table.sc.version>> ELSE <<>>,
           dim |-> 0, after |-> 0, page |-> {}, fresh |-> {}, constant |-> NoVec, head |-> 0,
           snapshot |-> {}]
  <1>1. migrator' = [migrator EXCEPT ![c] = m] /\ UNCHANGED <<table, rows, lastId, stage, idem, scene, provider, writer, inserted>>
    BY DEF MigrateStart, store, server
  <1>2. m \in MigrateRow(m)
    BY DEF MigrateRow, MigrateAt
  <1>3. m.pc = "plan" /\ m.page = {} /\ m.fresh = {}
    OBVIOUS
  <1> HIDE DEF m
  <1>4. MigratorFits(m)
    BY <1>2, <1>3 DEF MigratorFits, OncePerId
  <1>5. migrator'[c] = m /\ migrator' = [migrator EXCEPT ![c] = migrator'[c]]
    BY <1>1 DEF RecordsInv
  <1> QED BY <1>1, <1>4, <1>5, MigratorMoves, StageKept

LEMMA MigratePlans ==
    ASSUME RecordsInv, NEW c \in Migrators, MigratePlan(c)
    PROVE  RecordsInv'
  <1> DEFINE m == migrator[c]
             at == IF Planned(m.kind, table.sc).embedding
                   THEN IF m.kind = "add" THEN "constant" ELSE "page" ELSE "activate"
             n == [m EXCEPT !.pc = at, !.firstGen = table.gen, !.gen = table.gen]
  <1>1. /\ migrator' = [migrator EXCEPT ![c] = n] /\ m.pc = "plan" /\ Plannable(m.kind, table.sc)
        /\ UNCHANGED <<table, rows, lastId, stage, idem, scene, provider, writer, inserted>>
    BY DEF MigratePlan, store, server
  <1>2. m \in MigrateRow(m) /\ OncePerId(m.page) /\ m.fresh = {}
    BY <1>1, Migrating DEF MigrateAt
  <1>3. at \in {"constant", "page", "activate"} /\ (m.kind = "add" => at = "constant") /\ (at = "constant" => m.kind = "add")
    BY <1>1 DEF Planned, Plannable
  <1>4. table.gen \in Nat /\ table.gen \in Int
    BY DEF RecordsInv, StoreTyped, Table
  <1> HIDE DEF at
  <1>5. n \in MigrateRow(n) /\ n.pc = at /\ n.kind = m.kind /\ n.page = m.page /\ n.fresh = m.fresh
    BY <1>2, <1>3, <1>4 DEF MigrateRow, MigrateAt
  <1> HIDE DEF n
  <1>6. MigratorFits(n)
    BY <1>2, <1>3, <1>5 DEF MigratorFits
  <1>7. migrator'[c] = n /\ migrator' = [migrator EXCEPT ![c] = migrator'[c]]
    BY <1>1 DEF RecordsInv
  <1> QED BY <1>1, <1>6, <1>7, MigratorMoves, StageKept

\* Making the constant vector, reading a page and its staged vectors.
LEMMA BackfillReads ==
    ASSUME RecordsInv, NEW c \in Migrators, MigrateConstant(c) \/ BackfillPage(c) \/ BackfillLoad(c)
    PROVE  RecordsInv'
  <1> DEFINE m == migrator[c]
  <1>1. /\ UNCHANGED <<table, rows, lastId, stage, idem, scene, provider, writer, inserted>>
        /\ m.pc \in {"constant", "page", "load"}
    BY DEF MigrateConstant, BackfillPage, BackfillLoad, store, server
  <1>2. /\ m \in MigrateRow(m) /\ OncePerId(m.page) /\ m.fresh = {}
        /\ (m.kind = "add" <=> m.pc = "constant")
    BY <1>1, Migrating DEF MigrateAt
  <1>3. CASE MigrateConstant(c)
    <2>1. PICK d \in scene.dims, t \in scene.texts :
            migrator' = [migrator EXCEPT ![c].pc = "cover", ![c].constant = [text |-> t, space |-> provider, dim |-> d]]
      BY <1>3 DEF MigrateConstant
    <2> DEFINE v == [text |-> t, space |-> provider, dim |-> d]
               n == [m EXCEPT !.pc = "cover", !.constant = v]
    <2>2. v \in Vec /\ v.space = provider
      BY DEF Vec, RecordsInv, StoreTyped, RecordScene
    <2>3. migrator' = [migrator EXCEPT ![c] = n]
      BY <2>1
    <2> HIDE DEF v
    <2>4. n \in MigrateRow(n) /\ n.pc = "cover" /\ n.kind = m.kind /\ n.page = m.page /\ n.fresh = m.fresh /\ n.constant = v
      BY <1>2, <2>2 DEF MigrateRow, MigrateAt
    <2> HIDE DEF n
    <2>5. MigratorFits(n)
      BY <1>2, <2>2, <2>4 DEF MigratorFits
    <2>6. migrator'[c] = n /\ migrator' = [migrator EXCEPT ![c] = migrator'[c]]
      BY <2>3 DEF RecordsInv
    <2> QED BY <1>1, <2>5, <2>6, MigratorMoves, StageKept
  <1>4. CASE BackfillPage(c)
    <2> DEFINE page == SourcePage(m.after)
               at == IF page = {} THEN "cover" ELSE "load"
               dim == IF page = {} THEN 0 ELSE m.dim
               rs == {[id |-> i, text |-> rows[i].text] : i \in page}
               n == [m EXCEPT !.pc = at, !.dim = dim, !.page = rs]
    <2>1. migrator' = [migrator EXCEPT ![c] = n] /\ m.pc = "page"
      BY <1>4 DEF BackfillPage
    <2>2. rs \in SUBSET PageRow /\ OncePerId(rs)
      BY PageFacts
    <2>3. at \in {"cover", "load"}
      OBVIOUS
    <2> HIDE DEF at, dim, rs, page
    <2>4. n \in MigrateRow(n) /\ n.pc = at /\ n.kind = m.kind /\ n.page = rs /\ n.fresh = m.fresh
      BY <1>2, <2>2, <2>3 DEF MigrateRow, MigrateAt
    <2> HIDE DEF n
    <2>6. MigratorFits(n)
      BY <1>2, <2>1, <2>2, <2>3, <2>4 DEF MigratorFits
    <2>7. migrator'[c] = n /\ migrator' = [migrator EXCEPT ![c] = migrator'[c]]
      BY <2>1 DEF RecordsInv
    <2> QED BY <1>1, <2>6, <2>7, MigratorMoves, StageKept
  <1>5. CASE BackfillLoad(c)
    <2> DEFINE todo == {r \in m.page : ~\E s \in StagedFor(m.gen, r.id) : s.vec.text = r.text}
               n == [m EXCEPT !.pc = "stage", !.fresh = todo]
    <2>1. migrator' = [migrator EXCEPT ![c] = n] /\ m.pc = "load"
      BY <1>5 DEF BackfillLoad
    <2>2. todo \subseteq m.page
      OBVIOUS
    <2> HIDE DEF todo
    <2>3. n \in MigrateRow(n) /\ n.pc = "stage" /\ n.kind = m.kind /\ n.page = m.page /\ n.fresh = todo
      BY <1>2, <2>2 DEF MigrateRow, MigrateAt
    <2> HIDE DEF n
    <2>4. MigratorFits(n)
      BY <1>2, <2>1, <2>2, <2>3 DEF MigratorFits
    <2>5. migrator'[c] = n /\ migrator' = [migrator EXCEPT ![c] = migrator'[c]]
      BY <2>1 DEF RecordsInv
    <2> QED BY <1>1, <2>4, <2>5, MigratorMoves, StageKept
  <1> QED BY <1>3, <1>4, <1>5

\* Coverage, retries and the end.
LEMMA MigrateChecks ==
    ASSUME RecordsInv, NEW c \in Migrators,
           CoverageHead(c) \/ CoveragePage(c) \/ MigrateRetry(c) \/ MigrateFails(c)
    PROVE  RecordsInv'
  <1> DEFINE m == migrator[c]
  <1>1. /\ UNCHANGED <<table, rows, lastId, stage, idem, scene, provider, writer, inserted>>
        /\ m.pc \in MigrateAt
    BY DEF CoverageHead, CoveragePage, MigrateRetry, MigrateFails, store, server, MigrateAt
  <1>2. /\ m \in MigrateRow(m) /\ OncePerId(m.page) /\ (m.pc # "stage" => m.fresh = {})
        /\ (m.kind = "add" => m.pc \in {"plan", "constant", "cover", "activate"})
        /\ (m.kind = "add" /\ m.pc \in {"cover", "activate"} => m.constant \in Vec /\ m.constant.space = provider)
    BY <1>1, Migrating
  <1> DEFINE again == [m EXCEPT !.pc = "plan", !.attempt = @ + 1, !.after = 0, !.head = 0, !.snapshot = {}]
  <1>3. ASSUME m.pc # "stage" PROVE MigratorFits(again)
    <2>1. m.attempt \in Nat
      BY <1>2 DEF MigrateRow
    <2>2. m.attempt + 1 \in Nat
      BY ONLY <2>1
    <2>3. again \in MigrateRow(again) /\ again.pc = "plan" /\ again.kind = m.kind /\ again.page = m.page /\ again.fresh = m.fresh
      BY <1>2, <2>2 DEF MigrateRow, MigrateAt
    <2> HIDE DEF again
    <2> QED BY <1>2, <1>3, <2>3 DEF MigratorFits
  <1>4. Again(m) = again
    BY DEF Again
  <1> HIDE DEF again
  <1>5. CASE CoverageHead(c)
    <2> DEFINE at == IF m.kind = "add" THEN "activate" ELSE "covering"
               snap == {s \in stage : s.gen = m.gen /\ s.provider = provider}
               head == Len(changes)
               n == [m EXCEPT !.pc = at, !.head = head, !.after = 0, !.snapshot = snap]
    <2>1. migrator' = [migrator EXCEPT ![c] = n] /\ m.pc = "cover"
      BY <1>5 DEF CoverageHead
    <2>2. at \in {"activate", "covering"} /\ (m.kind = "add" <=> at = "activate")
      OBVIOUS
    <2> HIDE DEF at, snap, head
    <2>3. /\ n \in MigrateRow(n) /\ n.pc = at /\ n.kind = m.kind /\ n.page = m.page /\ n.fresh = m.fresh
          /\ n.constant = m.constant
      BY <1>2, <2>2 DEF MigrateRow, MigrateAt
    <2> HIDE DEF n
    <2>4. MigratorFits(n)
      BY <1>2, <2>1, <2>2, <2>3 DEF MigratorFits
    <2>5. migrator'[c] = n /\ migrator' = [migrator EXCEPT ![c] = migrator'[c]]
      BY <2>1 DEF RecordsInv
    <2> QED BY <1>1, <2>4, <2>5, MigratorMoves, StageKept
  <1>6. CASE CoveragePage(c)
    <2> DEFINE page == SourcePage(m.after)   last == Max(page)
               done == [m EXCEPT !.pc = "activate", !.after = 0, !.snapshot = {}]
               on == [m EXCEPT !.after = last]
    <2>1. m.pc = "covering" /\ m.kind # "add"
      BY <1>2, <1>6 DEF CoveragePage
    <2>2. \E n \in {again, done, on} : migrator' = [migrator EXCEPT ![c] = n]
      BY <1>4, <1>6 DEF CoveragePage
    <2> HIDE DEF last
    <2>3. done \in MigrateRow(done) /\ done.pc = "activate" /\ done.kind = m.kind /\ done.page = m.page /\ done.fresh = m.fresh
      BY <1>2 DEF MigrateRow, MigrateAt
    <2>4. on \in MigrateRow(on) /\ on.pc = m.pc /\ on.kind = m.kind /\ on.page = m.page /\ on.fresh = m.fresh
      BY <1>2 DEF MigrateRow, MigrateAt
    <2> HIDE DEF done, on
    <2>5. MigratorFits(done) /\ MigratorFits(on)
      BY <1>2, <2>1, <2>3, <2>4 DEF MigratorFits
    <2>6. migrator'[c] \in {again, done, on} /\ migrator' = [migrator EXCEPT ![c] = migrator'[c]]
      BY <2>2 DEF RecordsInv
    <2> QED BY <1>1, <1>3, <2>1, <2>5, <2>6, MigratorMoves, StageKept
  <1>7. CASE MigrateRetry(c)
    <2>1. migrator' = [migrator EXCEPT ![c] = again] /\ m.pc # "stage"
      BY <1>4, <1>7 DEF MigrateRetry
    <2>2. migrator'[c] = again /\ migrator' = [migrator EXCEPT ![c] = migrator'[c]]
      BY <2>1 DEF RecordsInv
    <2> QED BY <1>1, <1>3, <2>1, <2>2, MigratorMoves, StageKept
  <1>8. CASE MigrateFails(c)
    <2>1. migrator' = [migrator EXCEPT ![c] = DoneM]
      BY <1>8 DEF MigrateFails
    <2>2. migrator'[c] = DoneM /\ migrator' = [migrator EXCEPT ![c] = migrator'[c]]
      BY <2>1 DEF RecordsInv
    <2> QED BY <1>1, <2>2, MigratorDone, MigratorMoves, StageKept
  <1> QED BY <1>5, <1>6, <1>7, <1>8

\* Staged vectors replace those of the same rows, lifetime and provider.
LEMMA BackfillStages ==
    ASSUME RecordsInv, NEW c \in Migrators, BackfillStage(c)
    PROVE  RecordsInv'
  <1> DEFINE m == migrator[c]   ids == {r.id : r \in m.fresh}   last == Max({r.id : r \in m.page})
  <1>1. /\ m.pc = "stage"
        /\ UNCHANGED <<table, rows, lastId, idem, scene, provider, writer, inserted>>
    BY DEF BackfillStage, server
  <1>2. PICK d \in scene.dims :
          /\ stage' = {s \in stage : ~(s.gen = m.gen /\ s.id \in ids /\ s.provider = provider)}
                  \cup {[gen |-> m.gen, id |-> r.id, provider |-> provider,
                         vec |-> [text |-> r.text, space |-> provider, dim |-> d]] : r \in m.fresh}
          /\ migrator' = [migrator EXCEPT ![c].pc = "page", ![c].page = {}, ![c].fresh = {},
                   ![c].after = last, ![c].dim = IF m.fresh = {} THEN m.dim ELSE d]
    BY DEF BackfillStage
  <1>3. m \in MigrateRow(m) /\ OncePerId(m.page) /\ m.fresh \subseteq m.page /\ m.kind # "add"
    BY <1>1, Migrating DEF MigrateAt
  <1>4. d \in Dims /\ provider \in Providers
    BY DEF RecordsInv, StoreTyped, RecordScene
  <1> HIDE DEF last
  <1> DEFINE dim == IF m.fresh = {} THEN m.dim ELSE d
             n == [m EXCEPT !.pc = "page", !.page = {}, !.fresh = {}, !.after = last, !.dim = dim]
  <1>5. migrator' = [migrator EXCEPT ![c] = n]
    BY <1>2
  <1> HIDE DEF dim
  <1>6. n \in MigrateRow(n) /\ n.pc = "page" /\ n.kind = m.kind /\ n.page = {} /\ n.fresh = {}
    BY <1>3 DEF MigrateRow, MigrateAt
  <1> HIDE DEF n
  <1>7. MigratorFits(n)
    BY <1>3, <1>6 DEF MigratorFits, OncePerId
  <1>8. migrator'[c] = n /\ migrator' = [migrator EXCEPT ![c] = migrator'[c]]
    BY <1>5 DEF RecordsInv
  <1> DEFINE new(r) == [gen |-> m.gen, id |-> r.id, provider |-> provider,
                        vec |-> [text |-> r.text, space |-> provider, dim |-> d]]
             kept == {s \in stage : ~(s.gen = m.gen /\ s.id \in ids /\ s.provider = provider)}
             added == {new(r) : r \in m.fresh}
  <1>9. stage' = kept \cup added
    BY <1>2
  <1>10. ASSUME NEW r \in m.fresh
         PROVE  /\ new(r) \in Staged /\ new(r).vec.space = new(r).provider
                /\ new(r).gen = m.gen /\ new(r).id = r.id /\ new(r).provider = provider
    <2>1. r.id \in Nat \ {0} /\ r.text \in Texts /\ m.gen \in Nat
      BY <1>3 DEF MigrateRow, PageRow
    <2>2. [text |-> r.text, space |-> provider, dim |-> d] \in Vec
      BY <1>4, <2>1 DEF Vec
    <2> QED BY <1>4, <2>1, <2>2 DEF Staged
  <1>11. StageFits'
    <2>1. stage' \subseteq Staged /\ \A s \in stage' : s.vec.space = s.provider
      BY <1>9, <1>10 DEF RecordsInv, StageFits
    <2>2. ASSUME NEW s \in stage', NEW t \in stage', s.gen = t.gen, s.id = t.id, s.provider = t.provider
          PROVE  s = t
      <3>1. CASE s \in kept /\ t \in kept
        BY <2>2, <3>1 DEF RecordsInv, StageFits
      <3>2. CASE s \in added /\ t \in added
        <4>1. PICK r \in m.fresh, q \in m.fresh : s = new(r) /\ t = new(q)
          BY <3>2
        <4>2. r.id = q.id
          BY <1>10, <2>2, <4>1
        <4>3. r = q
          BY <1>3, <4>2 DEF OncePerId
        <4> QED BY <4>1, <4>3
      <3>3. CASE s \in kept /\ t \in added
        <4>1. PICK q \in m.fresh : t = new(q)
          BY <3>3
        <4>2. s.gen = m.gen /\ s.id \in ids /\ s.provider = provider
          BY <1>10, <2>2, <4>1
        <4> QED BY <3>3, <4>2
      <3>4. CASE s \in added /\ t \in kept
        <4>1. PICK r \in m.fresh : s = new(r)
          BY <3>4
        <4>2. t.gen = m.gen /\ t.id \in ids /\ t.provider = provider
          BY <1>10, <2>2, <4>1
        <4> QED BY <3>4, <4>2
      <3> QED BY <1>9, <3>1, <3>2, <3>3, <3>4
    <2> QED BY <2>1, <2>2 DEF StageFits
  <1> QED BY <1>1, <1>7, <1>8, <1>11, MigratorMoves

-----------------------------------------------------------------------------
(* The activation of a migration.                                           *)

\* Vectors of one dimension have the largest one's.
LEMMA OneDimension ==
    ASSUME NEW n \in Nat, NEW D \in SUBSET (1 .. n), NEW rs \in [D -> Row], NEW i \in D,
           Cardinality(VectorDims(rs)) <= 1, rs[i].vec # NoVec
    PROVE  VectorDims(rs) # {} /\ Max(VectorDims(rs)) = rs[i].vec.dim
  <1> DEFINE S == VectorDims(rs)   x == rs[i].vec.dim
             Made == {j \in D : rs[j].vec # NoVec}
  <1>1. DOMAIN rs = D /\ S = {rs[j].vec.dim : j \in Made}
    BY DEF VectorDims
  <1>2. x \in S /\ \A y \in S : y \in Nat
    BY <1>1, RecordsAssumption DEF Row, Vec
  <1>3. IsFiniteSet(S)
    <2>1. IsFiniteSet(1 .. n)
      BY FS_Interval
    <2>2. IsFiniteSet(Made)
      BY <2>1, FS_Subset
    <2> DEFINE f == [j \in Made |-> rs[j].vec.dim]
    <2>3. f \in Surjection(Made, S)
      BY <1>1 DEF Surjection
    <2> QED BY <2>2, <2>3, FS_Surjection
  <1> HIDE DEF S
  <1>4. ASSUME NEW y \in S PROVE y = x
    <2> SUFFICES ASSUME y # x PROVE FALSE
      OBVIOUS
    <2>1. IsFiniteSet({x}) /\ Cardinality({x}) = 1
      BY FS_Singleton
    <2>2. IsFiniteSet({x} \cup {y}) /\ Cardinality({x} \cup {y}) = Cardinality({x}) + 1
      BY <2>1, FS_AddElement
    <2>3. {x} \cup {y} \subseteq S
      BY <1>2, <1>4
    <2>4. Cardinality({x} \cup {y}) <= Cardinality(S)
      BY <1>3, <2>3, FS_Subset
    <2>5. Cardinality(S) \in Nat
      BY <1>3, FS_CardinalityType
    <2>6. Cardinality(S) <= 1
      BY DEF S
    <2> QED BY ONLY <2>1, <2>2, <2>4, <2>5, <2>6
  <1>5. Max(S) = x
    <2>1. x >= x
      BY <1>2
    <2>2. \E y \in S : \A z \in S : y >= z
      BY <1>2, <1>4, <2>1
    <2>3. Max(S) \in S
      BY <2>2 DEF Max
    <2> QED BY <1>4, <2>3
  <1> QED BY <1>2, <1>5 DEF S

LEMMA WritersKept ==
    ASSUME RecordsInv, UNCHANGED writer, table' \in Table, table.gen <= table'.gen, inserted \subseteq inserted'
    PROVE  writer' = [d \in Writers |-> writer'[d]] /\ \A d \in Writers : WriterFits(writer[d])'
  <1>1. table.gen \in Nat /\ table'.gen \in Nat
    BY DEF RecordsInv, StoreTyped, Table
  <1>2. ASSUME NEW d \in Writers PROVE WriterFits(writer[d])'
    <2>1. PICK v : v = writer[d]
      OBVIOUS
    <2>2. WriterFits(v)
      BY <2>1 DEF RecordsInv
    <2>3. WriterFits(v)'
      BY <1>1, <2>2, WriterKept
    <2>4. writer'[d] = v
      BY <2>1
    <2> QED BY <2>3, <2>4 DEF WriterFits, VectorDue, Embeds
  <1> QED BY <1>2 DEF RecordsInv

LEMMA MigratorsKept ==
    ASSUME RecordsInv, UNCHANGED <<provider, migrator>>
    PROVE  migrator' = [d \in Migrators |-> migrator'[d]] /\ \A d \in Migrators : MigratorFits(migrator[d])'
  BY DEF RecordsInv, MigratorFits, OncePerId, MigrateRow

\* Stamped rows hold the staged vector of their own text.
LEMMA Stamped ==
    ASSUME RecordsInv, NEW m, Stampable(m), NEW i \in DOMAIN rows, rows[i].text # Empty
    PROVE  /\ (CHOOSE v \in {s.vec : s \in StagedFor(m.gen, i)} : TRUE) \in Vec
           /\ (CHOOSE v \in {s.vec : s \in StagedFor(m.gen, i)} : TRUE).text = rows[i].text
           /\ (CHOOSE v \in {s.vec : s \in StagedFor(m.gen, i)} : TRUE).space = provider
  <1> DEFINE V == {s.vec : s \in StagedFor(m.gen, i)}
  <1>1. PICK s \in StagedFor(m.gen, i) : s.vec.text = rows[i].text
    BY DEF Stampable
  <1>2. \A t \in StagedFor(m.gen, i) : t = s
    BY <1>1 DEF StagedFor, RecordsInv, StageFits
  <1>3. V = {s.vec}
    BY <1>1, <1>2
  <1>4. s.vec \in Vec /\ s.vec.space = provider
    BY <1>1 DEF StagedFor, RecordsInv, StageFits, Staged
  <1>5. (CHOOSE v \in V : TRUE) = s.vec
    BY <1>3
  <1> QED BY <1>1, <1>4, <1>5

\* The rows that an activation leaves, and the vectors they have.
LEMMA Activated ==
    ASSUME RecordsInv, NEW c \in Migrators, MigrateActivate(c)
    PROVE  LET m == migrator[c]
               p == Planned(m.kind, table.sc)
               rs == ActivatedRows(m, p)
           IN  /\ rs \in [DOMAIN rows -> Row]
               /\ p.embedding => \A i \in DOMAIN rows :
                     IF rs[i].text = Empty THEN rs[i].vec = NoVec
                     ELSE rs[i].vec \in Vec /\ rs[i].vec.text = rs[i].text /\ rs[i].vec.space = provider
               /\ ~p.embedding /\ ~(m.kind = "off" /\ table.sc.vectorize) => rs = rows
               /\ ~p.embedding /\ m.kind = "off" => \A i \in DOMAIN rows : rs[i].vec = NoVec
  <1> DEFINE m == migrator[c]   p == Planned(m.kind, table.sc)   rs == ActivatedRows(m, p)
             base == IF p.clear THEN ClearedRows ELSE rows
  <1>1. m.pc = "activate" /\ MayActivate(m) /\ ~Stale(m)
    BY DEF MigrateActivate
  <1>2. m \in MigrateRow(m) /\ (m.kind = "add" => m.constant \in Vec /\ m.constant.space = provider)
    BY <1>1, Migrating DEF MigrateAt
  <1>3. table \in Table /\ table.live /\ table.sc \in Schema /\ rows \in [DOMAIN rows -> Row]
    BY <1>1 DEF MayActivate, RecordsInv, StoreTyped, Table
  <1>4. /\ p.embedding = (~table.sc.vectorize /\ m.kind \in {"on", "add"})
        /\ p.constant = (p.embedding /\ m.kind = "add")
        /\ p.clear = ((p.embedding /\ table.sc.space \notin {NoSpace, provider}) \/ (m.kind = "off" /\ table.sc.vectorize))
    BY DEF Planned
  <1>5. rs = IF p.constant THEN ConstantRows(m) ELSE IF p.embedding THEN StampedRows(m, base) ELSE base
    BY DEF ActivatedRows
  <1> HIDE DEF p, rs
  <1>6. ASSUME NEW i \in DOMAIN rows
        PROVE  /\ rows[i] \in Row /\ rows[i].text \in Words /\ NoVec \in Vec \cup {NoVec}
               /\ [rows[i] EXCEPT !.vec = NoVec] \in Row
               /\ [rows[i] EXCEPT !.vec = NoVec].text = rows[i].text
               /\ [rows[i] EXCEPT !.vec = NoVec].vec = NoVec
    BY <1>3 DEF Row
  <1>7. /\ DOMAIN ClearedRows = DOMAIN rows /\ ClearedRows \in [DOMAIN rows -> Row]
        /\ \A i \in DOMAIN rows : ClearedRows[i].text = rows[i].text /\ ClearedRows[i].vec = NoVec
    BY <1>6 DEF ClearedRows
  <1>8. /\ base \in [DOMAIN rows -> Row] /\ \A i \in DOMAIN rows : base[i].text = rows[i].text
        /\ p.clear => \A i \in DOMAIN rows : base[i].vec = NoVec
        /\ ~p.clear => base = rows
    BY <1>3, <1>7
  <1> HIDE DEF base
  <1>9. CASE p.constant
    <2>1. m.kind = "add" /\ p.embedding /\ m.constant \in Vec /\ m.constant.space = provider
      BY <1>2, <1>4, <1>9
    <2>2. rs = [i \in DOMAIN rows |-> [text |-> m.constant.text, vec |-> m.constant]]
      BY <1>5, <1>9 DEF ConstantRows
    <2>3. [text |-> m.constant.text, vec |-> m.constant] \in Row /\ m.constant.text # Empty
      BY <2>1, RecordsAssumption DEF Vec, Row, Words
    <2>4. \A i \in DOMAIN rows : rs[i] = [text |-> m.constant.text, vec |-> m.constant]
      BY <2>2
    <2>5. rs \in [DOMAIN rows -> Row]
      BY <2>2, <2>3
    <2>6. \A i \in DOMAIN rows : rs[i].text = m.constant.text /\ rs[i].vec = m.constant
      BY <2>4
    <2> QED BY <2>1, <2>3, <2>5, <2>6 DEF p, rs
  <1>10. CASE ~p.constant /\ p.embedding
    <2>1. m.kind = "on" /\ ~table.sc.vectorize
      BY <1>4, <1>10
    <2>2. Stampable(m)
      BY <1>1, <1>10 DEF Stale, p
    <2> DEFINE st(i) == CHOOSE v \in {s.vec : s \in StagedFor(m.gen, i)} : TRUE
    <2>3. rs = [i \in DOMAIN rows |-> IF rows[i].text = Empty THEN base[i] ELSE [base[i] EXCEPT !.vec = st(i)]]
      BY <1>5, <1>10 DEF StampedRows
    <2>4. \A i \in DOMAIN rows : rows[i].text # Empty => st(i) \in Vec /\ st(i).text = rows[i].text /\ st(i).space = provider
      BY <2>2, Stamped
    <2>5. \A i \in DOMAIN rows : base[i].vec = NoVec
      BY <1>3, <1>8, <2>1 DEF RecordsInv, NoVectorsLeft
    <2> HIDE DEF st
    <2>6. ASSUME NEW i \in DOMAIN rows
          PROVE  /\ rs[i] \in Row
                 /\ IF rs[i].text = Empty THEN rs[i].vec = NoVec
                    ELSE rs[i].vec \in Vec /\ rs[i].vec.text = rs[i].text /\ rs[i].vec.space = provider
      <3>1. base[i] \in Row /\ base[i].text = rows[i].text
        BY <1>8
      <3>2. CASE rows[i].text = Empty
        <4>1. rs[i] = base[i]
          BY <2>3, <3>2
        <4> QED BY <2>5, <3>1, <3>2, <4>1
      <3>3. CASE rows[i].text # Empty
        <4>1. rs[i] = [base[i] EXCEPT !.vec = st(i)]
          BY <2>3, <3>3
        <4>2. rs[i] \in Row /\ rs[i].text = base[i].text /\ rs[i].vec = st(i)
          BY <2>4, <3>1, <3>3, <4>1 DEF Row
        <4> QED BY <2>4, <3>1, <3>3, <4>2
      <3> QED BY <3>2, <3>3
    <2>7. rs \in [DOMAIN rows -> Row]
      BY <2>3, <2>6
    <2> QED BY <1>10, <2>1, <2>6, <2>7 DEF p, rs
  <1>11. CASE ~p.embedding
    <2>1. rs = base
      BY <1>4, <1>5, <1>11
    <2>2. p.clear = (m.kind = "off" /\ table.sc.vectorize)
      BY <1>4, <1>11
    <2>3. m.kind = "off" => \A i \in DOMAIN rows : rs[i].vec = NoVec
      BY <1>3, <1>8, <2>1, <2>2 DEF RecordsInv, NoVectorsLeft
    <2> QED BY <1>8, <1>11, <2>1, <2>2, <2>3 DEF p, rs
  <1> QED BY <1>9, <1>10, <1>11 DEF p, rs

LEMMA Activates ==
    ASSUME RecordsInv, NEW c \in Migrators, MigrateActivate(c)
    PROVE  RecordsInv'
  <1> DEFINE m == migrator[c]   sc == table.sc   p == Planned(m.kind, sc)   rs == ActivatedRows(m, p)
             pinned == p.embedding /\ VectorDims(rs) # {}
             dim == IF pinned THEN Max(VectorDims(rs)) ELSE p.sc.dim
             sc1 == [p.sc EXCEPT !.dim = dim]
  <1>1. /\ m.pc = "activate" /\ MayActivate(m)
        /\ p.embedding => Cardinality(VectorDims(rs)) <= 1
        /\ rows' = rs /\ table' = [table EXCEPT !.sc = sc1] /\ stage' = {}
        /\ migrator' = [migrator EXCEPT ![c] = DoneM]
        /\ UNCHANGED <<lastId, idem, scene, provider, writer, inserted>>
    BY DEF MigrateActivate, server
  <1>2. table \in Table /\ table.live /\ sc \in Schema /\ lastId \in Nat /\ DOMAIN rows \in SUBSET (1 .. lastId)
        /\ provider \in Providers
    BY <1>1 DEF MayActivate, RecordsInv, StoreTyped, Table
  <1>3. m \in MigrateRow(m)
    BY <1>1, Migrating DEF MigrateAt
  <1>4. /\ p.embedding = (~sc.vectorize /\ m.kind \in {"on", "add"})
        /\ p.sc = [version   |-> sc.version + 1,
                   vectorize |-> IF m.kind \in {"on", "add"} THEN TRUE
                                  ELSE IF m.kind = "off" THEN FALSE ELSE sc.vectorize,
                   space     |-> IF p.embedding THEN provider ELSE sc.space,
                   dim       |-> IF p.embedding THEN 0 ELSE sc.dim]
    BY DEF Planned
  <1>5. /\ rs \in [DOMAIN rows -> Row] /\ DOMAIN rs = DOMAIN rows
        /\ p.embedding => \A i \in DOMAIN rows :
              IF rs[i].text = Empty THEN rs[i].vec = NoVec
              ELSE rs[i].vec \in Vec /\ rs[i].vec.text = rs[i].text /\ rs[i].vec.space = provider
        /\ ~p.embedding /\ ~(m.kind = "off" /\ sc.vectorize) => rs = rows
        /\ ~p.embedding /\ m.kind = "off" => \A i \in DOMAIN rows : rs[i].vec = NoVec
    BY Activated
  <1>6. p.embedding => \A i \in DOMAIN rows : rs[i].vec # NoVec => VectorDims(rs) # {} /\ Max(VectorDims(rs)) = rs[i].vec.dim
    BY <1>1, <1>2, <1>5, OneDimension
  <1>7. dim \in Nat
    <2>1. CASE pinned
      <3>1. PICK i \in DOMAIN rows : rs[i].vec # NoVec
        BY <1>5, <2>1 DEF VectorDims
      <3>2. dim = rs[i].vec.dim
        BY <1>6, <2>1, <3>1
      <3>3. rs[i].vec \in Vec
        BY <1>5, <2>1, <3>1
      <3> QED BY <3>2, <3>3, RecordsAssumption DEF Vec
    <2>2. CASE ~pinned
      BY <1>2, <1>4, <2>2 DEF Schema
    <2> QED BY <2>1, <2>2
  <1>8. /\ sc1 \in Schema /\ sc1.dim = dim /\ sc1.space = (IF p.embedding THEN provider ELSE sc.space)
        /\ sc1.vectorize = (IF m.kind \in {"on", "add"} THEN TRUE ELSE IF m.kind = "off" THEN FALSE ELSE sc.vectorize)
    <2> HIDE DEF dim
    <2>1. sc.version \in Nat /\ sc.vectorize \in BOOLEAN /\ sc.space \in Providers \cup {NoSpace}
      BY <1>2 DEF Schema
    <2>2. sc.version + 1 \in Nat
      BY ONLY <2>1
    <2> HIDE DEF p, sc
    <2>3. sc.dim \in Nat
      BY <1>2 DEF Schema
    <2>4. /\ p.sc \in Schema /\ p.sc.space = (IF p.embedding THEN provider ELSE sc.space)
          /\ p.sc.vectorize = (IF m.kind \in {"on", "add"} THEN TRUE ELSE IF m.kind = "off" THEN FALSE ELSE sc.vectorize)
      <3> DEFINE vz == IF m.kind \in {"on", "add"} THEN TRUE ELSE IF m.kind = "off" THEN FALSE ELSE sc.vectorize
                 sp == IF p.embedding THEN provider ELSE sc.space
                 d0 == IF p.embedding THEN 0 ELSE sc.dim
      <3>1. vz \in BOOLEAN /\ sp \in Providers \cup {NoSpace} /\ d0 \in Nat
        BY <1>2, <2>1, <2>3
      <3>2. p.sc = [version |-> sc.version + 1, vectorize |-> vz, space |-> sp, dim |-> d0]
        BY <1>4
      <3>3. p.sc.space = sp /\ p.sc.vectorize = vz
        BY <3>2
      <3> HIDE DEF vz, sp, d0
      <3>4. p.sc \in Schema
        BY <2>2, <3>1, <3>2 DEF Schema
      <3> QED BY <3>3, <3>4 DEF vz, sp
    <2>5. sc1 \in Schema /\ sc1.dim = dim /\ sc1.space = p.sc.space /\ sc1.vectorize = p.sc.vectorize
      BY <1>7, <2>4 DEF Schema
    <2> QED BY <2>4, <2>5
  <1>9. table' \in Table /\ table'.gen = table.gen /\ table'.live /\ table'.sc = sc1
    <2> HIDE DEF sc1
    <2> QED BY <1>1, <1>2, <1>8 DEF Table
  <1>10. p.embedding => \A i \in DOMAIN rows : rs[i].vec # NoVec => dim = rs[i].vec.dim
    BY <1>6
  <1>11. ~p.embedding => dim = sc.dim
    BY <1>4
  <1> HIDE DEF p, rs, pinned, dim, sc1, sc
  <1>12. StoreTyped'
    BY <1>1, <1>2, <1>5, <1>9 DEF RecordsInv, StoreTyped
  <1>13. VectorsMatch' /\ NoVectorsLeft'
    <2>1. CASE p.embedding
      <3>1. sc1.vectorize /\ sc1.space = provider
        BY <1>4, <1>8, <2>1
      <3>2. ASSUME NEW i \in DOMAIN rs
            PROVE  rs[i].vec = IF rs[i].text = Empty THEN NoVec
                               ELSE [text |-> rs[i].text, space |-> sc1.space, dim |-> sc1.dim]
        <4>1. CASE rs[i].text = Empty
          BY <1>5, <2>1, <4>1
        <4>2. CASE rs[i].text # Empty
          <5>1. rs[i].vec \in Vec /\ rs[i].vec.text = rs[i].text /\ rs[i].vec.space = provider
            BY <1>5, <2>1, <4>2
          <5>2. rs[i].vec # NoVec
            BY <5>1, NoVecFacts
          <5>3. rs[i].vec.dim = sc1.dim
            BY <1>5, <1>8, <1>10, <2>1, <5>2
          <5> QED BY <3>1, <4>2, <5>1, <5>3 DEF Vec
        <4> QED BY <4>1, <4>2
      <3> QED BY <1>1, <1>9, <3>1, <3>2 DEF VectorsMatch, NoVectorsLeft
    <2>2. CASE ~p.embedding /\ m.kind = "off"
      <3>1. ~sc1.vectorize
        BY <1>8, <2>2
      <3> QED BY <1>1, <1>5, <1>9, <2>2, <3>1 DEF VectorsMatch, NoVectorsLeft
    <2>3. CASE ~p.embedding /\ m.kind # "off"
      <3>1. rs = rows
        BY <1>5, <2>3
      <3>2. sc1.vectorize = sc.vectorize /\ sc1.space = sc.space /\ sc1.dim = sc.dim
        BY <1>2, <1>4, <1>8, <1>11, <2>3 DEF Schema
      <3> QED BY <1>1, <1>2, <1>9, <3>1, <3>2 DEF RecordsInv, VectorsMatch, NoVectorsLeft, sc
    <2> QED BY <2>1, <2>2, <2>3
  <1>14. StageFits' /\ RecordsFit' /\ ExactlyOnce'
    BY <1>1, <1>9 DEF RecordsInv, StageFits, RecordsFit, ExactlyOnce
  <1>15. writer' = [d \in Writers |-> writer'[d]] /\ \A d \in Writers : WriterFits(writer[d])'
    <2>1. table.gen <= table'.gen
      BY <1>2, <1>9 DEF Table
    <2> QED BY <1>1, <1>9, <2>1, WritersKept
  <1>16. migrator' = [d \in Migrators |-> migrator'[d]] /\ \A d \in Migrators : MigratorFits(migrator[d])'
    <2>1. /\ migrator' = [d \in Migrators |-> migrator'[d]] /\ migrator'[c] = DoneM
          /\ \A d \in Migrators \ {c} : migrator'[d] = migrator[d]
      BY <1>1 DEF RecordsInv
    <2>2. \A d \in Migrators : MigratorFits(migrator'[d])
      BY <2>1, MigratorDone DEF RecordsInv
    <2>3. \A d \in Migrators : MigratorFits(migrator[d])'
      BY <1>1, <2>2 DEF MigratorFits, OncePerId, MigrateRow
    <2> QED BY <2>1, <2>3
  <1> QED BY <1>12, <1>13, <1>14, <1>15, <1>16 DEF RecordsInv

-----------------------------------------------------------------------------
(* The rest of the table's life.                                            *)

LEMMA Deletes ==
    ASSUME RecordsInv, NEW id, Delete(id)
    PROVE  RecordsInv'
  <1>1. /\ rows' = [i \in DOMAIN rows \ {id} |-> rows[i]]
        /\ UNCHANGED <<table, lastId, stage, idem, scene, provider, writer, migrator, inserted>>
    BY DEF Delete, server
  <1>2. DOMAIN rows' = DOMAIN rows \ {id} /\ \A i \in DOMAIN rows' : rows'[i] = rows[i]
    BY <1>1
  <1>3. StoreTyped'
    <2>1. rows' \in [DOMAIN rows' -> Row]
      BY <1>1 DEF RecordsInv, StoreTyped
    <2> QED BY <1>1, <1>2, <2>1 DEF RecordsInv, StoreTyped
  <1>4. VectorsMatch' /\ NoVectorsLeft'
    BY <1>1, <1>2 DEF RecordsInv, VectorsMatch, NoVectorsLeft
  <1>5. StageFits' /\ RecordsFit' /\ ExactlyOnce'
    BY <1>1 DEF RecordsInv, StageFits, RecordsFit, ExactlyOnce
  <1>6. table' \in Table /\ table.gen <= table'.gen
    BY <1>1 DEF RecordsInv, StoreTyped, Table
  <1> QED BY <1>1, <1>3, <1>4, <1>5, <1>6, WritersKept, MigratorsKept DEF RecordsInv

\* A new lifetime starts without rows and without records.
LEMMA TableGoesAndComes ==
    ASSUME RecordsInv, DropTable \/ \E v \in BOOLEAN : CreateTable(v)
    PROVE  RecordsInv'
  <1>1. UNCHANGED <<scene, provider, writer, migrator, inserted>>
    BY DEF DropTable, CreateTable, server
  <1>2. table \in Table /\ table.gen \in Nat
    BY DEF RecordsInv, StoreTyped, Table
  <1>3. CASE DropTable
    <2>1. /\ table' = [table EXCEPT !.live = FALSE, !.gen = @ + 1]
          /\ rows' = [i \in {} |-> NoVec] /\ lastId' = 0 /\ stage' = {} /\ idem' = {}
      BY <1>3 DEF DropTable
    <2>2. table.gen + 1 \in Nat /\ table.gen <= table.gen + 1 /\ \A g \in Nat : g <= table.gen => g <= table.gen + 1 /\ g # table.gen + 1
      BY ONLY <1>2
    <2>3. table' \in Table /\ ~table'.live /\ table'.gen = table.gen + 1
      BY <1>2, <2>1, <2>2 DEF Table
    <2>4. DOMAIN rows' = {} /\ rows' \in [DOMAIN rows' -> Row]
      BY <2>1
    <2>5. StoreTyped' /\ VectorsMatch' /\ NoVectorsLeft' /\ StageFits' /\ ExactlyOnce'
      BY <1>1, <2>1, <2>3, <2>4 DEF RecordsInv, StoreTyped, VectorsMatch, NoVectorsLeft, StageFits, ExactlyOnce
    <2>6. RecordsFit'
      BY <1>1, <2>1, <2>2, <2>3 DEF RecordsInv, RecordsFit
    <2> QED BY <1>1, <2>2, <2>3, <2>5, <2>6, WritersKept, MigratorsKept DEF RecordsInv
  <1>4. ASSUME NEW v \in BOOLEAN, CreateTable(v) PROVE RecordsInv'
    <2>1. /\ table' = [table EXCEPT !.live = TRUE, !.sc = NewSchema(v)] /\ ~table.live
          /\ UNCHANGED <<rows, lastId, stage, idem>>
      BY <1>4 DEF CreateTable
    <2>2. NewSchema(v) \in Schema
      BY DEF NewSchema, Schema
    <2>3. table' \in Table /\ table'.gen = table.gen /\ table.gen <= table'.gen
      <3>1. PICK sc \in Schema : table' = [table EXCEPT !.live = TRUE, !.sc = sc]
        BY <2>1, <2>2
      <3>2. table' \in Table /\ table'.gen = table.gen
        BY <1>2, <3>1 DEF Table
      <3> QED BY <1>2, <3>2
    <2>4. DOMAIN rows' = {}
      BY <2>1 DEF RecordsInv, StoreTyped
    <2>5. StoreTyped' /\ VectorsMatch' /\ NoVectorsLeft' /\ StageFits' /\ ExactlyOnce' /\ RecordsFit'
      BY <1>1, <2>1, <2>3, <2>4
         DEF RecordsInv, StoreTyped, VectorsMatch, NoVectorsLeft, StageFits, ExactlyOnce, RecordsFit
    <2> QED BY <1>1, <2>3, <2>5, WritersKept, MigratorsKept DEF RecordsInv
  <1> QED BY <1>3, <1>4

LEMMA VacuumsAndRestarts ==
    ASSUME RecordsInv, VacuumLooks \/ VacuumDeletes \/ Restart
    PROVE  RecordsInv'
  <1>1. UNCHANGED <<scene, table, rows, lastId, idem, inserted>> /\ (stage' = stage \/ stage' = {})
    BY DEF VacuumLooks, VacuumDeletes, Restart, store
  <1>2. StageFits'
    BY <1>1 DEF RecordsInv, StageFits
  <1>3. VectorsMatch' /\ NoVectorsLeft' /\ RecordsFit' /\ ExactlyOnce'
    BY <1>1 DEF RecordsInv, VectorsMatch, NoVectorsLeft, RecordsFit, ExactlyOnce
  <1>4. table' \in Table /\ table.gen <= table'.gen
    BY <1>1 DEF RecordsInv, StoreTyped, Table
  <1>5. CASE VacuumLooks \/ VacuumDeletes
    <2>1. UNCHANGED <<provider, writer, migrator>>
      BY <1>5 DEF VacuumLooks, VacuumDeletes
    <2>2. StoreTyped'
      BY <1>1, <2>1 DEF RecordsInv, StoreTyped
    <2> QED BY <1>1, <1>2, <1>3, <1>4, <2>1, <2>2, WritersKept, MigratorsKept DEF RecordsInv
  <1>6. CASE Restart
    <2>1. /\ provider' \in scene.providers /\ writer' = [c \in Writers |-> DoneW]
          /\ migrator' = [c \in Migrators |-> DoneM]
      BY <1>6 DEF Restart
    <2>2. StoreTyped'
      BY <1>1, <2>1 DEF RecordsInv, StoreTyped, RecordScene
    <2>3. writer' = [c \in Writers |-> writer'[c]] /\ migrator' = [c \in Migrators |-> migrator'[c]]
      BY <2>1
    <2>4. \A c \in Writers : WriterFits(writer[c])'
      BY <2>1 DEF WriterFits, DoneW, IdleRow, WriteAt
    <2>5. \A c \in Migrators : MigratorFits(migrator[c])'
      BY <2>1 DEF MigratorFits, DoneM, IdleRow
    <2> QED BY <1>2, <1>3, <2>2, <2>3, <2>4, <2>5 DEF RecordsInv
  <1> QED BY <1>5, <1>6

-----------------------------------------------------------------------------
LEMMA RecordsStart == Init => RecordsInv
  <1> SUFFICES ASSUME Init PROVE RecordsInv
    OBVIOUS
  <1>1. PICK v \in BOOLEAN : table = [live |-> TRUE, gen |-> 0, sc |-> NewSchema(v)]
    BY DEF Init
  <1>2. NewSchema(v) \in Schema
    BY DEF NewSchema, Schema
  <1>3. table \in Table /\ table.live
    BY <1>1, <1>2 DEF Table
  <1>4. rows = [i \in {} |-> NoVec] /\ DOMAIN rows = {} /\ rows \in [DOMAIN rows -> Row] /\ lastId = 0
    BY DEF Init
  <1>5. scene \in RecordScene /\ provider \in Providers
    BY SceneAssumption DEF Init, RecordScene
  <1>6. StoreTyped /\ VectorsMatch /\ NoVectorsLeft
    BY <1>3, <1>4, <1>5 DEF StoreTyped, VectorsMatch, NoVectorsLeft
  <1>7. StageFits /\ RecordsFit /\ ExactlyOnce
    BY DEF Init, StageFits, RecordsFit, ExactlyOnce
  <1>8. /\ writer = [c \in Writers |-> writer[c]] /\ migrator = [c \in Migrators |-> migrator[c]]
        /\ \A c \in Writers : writer[c] = DoneW
        /\ \A c \in Migrators : migrator[c] = DoneM
    BY DEF Init
  <1> QED BY <1>6, <1>7, <1>8, Finished, MigratorDone DEF RecordsInv

LEMMA RecordsStep == RecordsInv /\ [Next]_vars => RecordsInv'
  <1> SUFFICES ASSUME RecordsInv, [Next]_vars PROVE RecordsInv'
    OBVIOUS
  <1>1. scene \in RecordScene
    BY DEF RecordsInv, StoreTyped
  <1>2. ASSUME NEW c \in scene.writers, Write(c) PROVE RecordsInv'
    <2>1. c \in Writers
      BY <1>1 DEF RecordScene
    <2> QED BY <1>2, <2>1, WritePrepares, WriteRetries, WriteEnds, Inserts, Updates DEF Write
  <1>3. ASSUME NEW c \in scene.writers, NEW op \in scene.ops, NEW text \in scene.texts \cup {Empty},
               NEW key \in scene.keys, NEW owner \in scene.owners \cup {Legacy}, NEW id \in 0 .. MaxId,
               WriteStart(c, op, text, key, owner, id)
        PROVE  RecordsInv'
    <2>1. /\ c \in Writers /\ op \in {"insert", "update", "upsert"} /\ text \in Words /\ key \in Keys
          /\ owner \in Owners \cup {Legacy} /\ id \in Nat
      BY <1>1, RecordsAssumption DEF RecordScene, Words
    <2> QED BY <1>3, <2>1, WriteStarts
  <1>4. ASSUME NEW c \in scene.migrators, Migrate(c) PROVE RecordsInv'
    <2>1. c \in Migrators
      BY <1>1 DEF RecordScene
    <2> QED BY <1>4, <2>1, MigratePlans, BackfillReads, BackfillStages, MigrateChecks, Activates DEF Migrate
  <1>5. ASSUME NEW c \in scene.migrators, NEW kind \in scene.changes, NEW bound \in scene.expects,
               MigrateStart(c, kind, bound)
        PROVE  RecordsInv'
    <2>1. c \in Migrators /\ kind \in Kinds
      BY <1>1 DEF RecordScene, Kinds
    <2> QED BY <1>5, <2>1, MigrateStarts
  <1>6. ASSUME NEW id \in 1 .. MaxId, Delete(id) PROVE RecordsInv'
    BY <1>6, Deletes
  <1>7. CASE UNCHANGED vars
    <2>1. UNCHANGED <<table, rows, lastId, stage, idem, scene, provider, writer, migrator, inserted>>
      BY <1>7 DEF vars, store, server
    <2>2. StoreTyped' /\ VectorsMatch' /\ NoVectorsLeft'
      BY <2>1 DEF RecordsInv, StoreTyped, VectorsMatch, NoVectorsLeft
    <2>3. StageFits' /\ RecordsFit' /\ ExactlyOnce'
      BY <2>1 DEF RecordsInv, StageFits, RecordsFit, ExactlyOnce
    <2>4. table' \in Table /\ table.gen <= table'.gen
      BY <2>1 DEF RecordsInv, StoreTyped, Table
    <2> QED BY <2>1, <2>2, <2>3, <2>4, WritersKept, MigratorsKept DEF RecordsInv
  <1> QED BY <1>2, <1>3, <1>4, <1>5, <1>6, <1>7, TableGoesAndComes, VacuumsAndRestarts DEF Next

LEMMA RecordsInvariant == Spec => []RecordsInv
  BY RecordsStart, RecordsStep, PTL DEF Spec

\* However a keyed insert is retried, and wherever the server stopped, it happens once
\* in a table's lifetime (insertAttempt's look-up inside the write transaction, the
\* record written in it, DropTable's generation).
THEOREM KeyedInsertsHappenOnce == Spec => []ExactlyOnce
  BY RecordsInvariant, PTL DEF RecordsInv

\* While a field is vectorized, every row has the embedding of the text that it holds,
\* all of one provider and dimension (insertAttempt, updateAttempt, embedTexts,
\* persistMeta, stageBackfill, stampStagedVectors, activateMigration).
THEOREM VectorsMatchTheirTexts == Spec => []VectorsMatch
  BY RecordsInvariant, PTL DEF RecordsInv

\* Types are kept, no row keeps a vector once no field is vectorized, and a keyed call
\* is answered with the row of its own key, payload, owner and lifetime (lookupIdem).
THEOREM RecordsStaySafe == Spec => []RecordsSafe
  <1>1. RecordsInv => RecordsSafe
    <2> SUFFICES ASSUME RecordsInv PROVE RecordsSafe
      OBVIOUS
    <2>1. table.live \in BOOLEAN /\ table.gen \in Nat /\ table.sc \in Schema
      BY DEF RecordsInv, StoreTyped, Table
    <2>2. stage \subseteq [gen : Nat, id : Nat \ {0}, provider : Providers,
                           vec : [text : Texts, space : Providers, dim : Dims]]
      BY DEF RecordsInv, StageFits, Staged, Vec
    <2>3. TypeOK
      BY <2>1, <2>2 DEF RecordsInv, StoreTyped, RecordsFit, TypeOK
    <2>4. AnswersFit
      BY DEF RecordsInv, WriterFits, AnswersFit
    <2> QED BY <2>3, <2>4 DEF RecordsInv, RecordsSafe
  <1> QED BY <1>1, RecordsInvariant, PTL
=============================================================================
