--------------------------- MODULE PostgresProofs ---------------------------
(***************************************************************************)
(* Proofs about the PostgreSQL engine, for any texts, scenes and bounds.   *)
(*                                                                         *)
(* A transaction works on a copy of the database, so the invariant is one  *)
(* of a database (PgSound) and holds of what is committed and of what      *)
(* every open transaction sees.  A write is first described by what it     *)
(* does to the fields of the database (Wrote), whatever its body.          *)
(***************************************************************************)
EXTENDS Postgres, TLAPS, FiniteSetTheorems, SequenceTheorems

-----------------------------------------------------------------------------
(* The types.                                                               *)

PgRowType == [id : Nat, text : PgTexts, vec : PgTexts \cup {"none"}, ref : Nat]
PgTableType ==
  [active : BOOLEAN, drop : Nat, ver : Nat, vec : BOOLEAN, space : BOOLEAN,
   cons : SUBSET {"unique", "foreign"}, seq : Nat, rows : SUBSET PgRowType]
PgWriteType ==
  [op : {"insert", "update", "upsert", "key", "delete", "import"}, tab : PgTables,
   old : PgTexts, text : PgTexts, ref : Nat, id : Nat]
PgTagType ==
  [dom : {"none", "insert", "import", "batch"}, key : {"none", "k", "l"}, at : Seq(Nat)]
PgKeyType == [tag : PgTagType, ws : Seq(PgWriteType)]
PgDbFields == {"gen", "head", "commit", "cur", "changes", "tab", "keys", "stage"}

\* What the log of a database holds.
LogOf(db) == {db.changes[i] : i \in 1..Len(db.changes)}

PgShape(db) ==
  /\ db = [f \in PgDbFields |-> db[f]]
  /\ {db.gen, db.head, db.commit, db.cur} \subseteq Nat
  /\ db.tab \in [PgTables -> PgTableType]
  /\ \A t \in PgTables : IsFiniteSet(db.tab[t].rows)
  /\ db.changes \in Seq(LogOf(db))
  /\ \A a \in LogOf(db) : a.key \in PgTagType
  /\ db.keys \subseteq PgKeyType

-----------------------------------------------------------------------------
(* What the properties ask of a database.                                   *)

DbVectors(db) ==
  \A t \in PgTables : \A r \in db.tab[t].rows :
    r.vec = IF db.tab[t].vec THEN r.text ELSE "none"

\* A record of a key, or a call: the tables its writes go to.
KeyedWrites(dom, ws) ==
  /\ dom = "batch" => /\ Len(ws) = 2 /\ ws[2].tab = "t"
                      /\ ws[1].tab = "p" => "refs" \in pgScene
  /\ dom # "batch" => Len(ws) = 1 /\ ws[1].tab = "t"

HasInsert(ws) == \E i \in 1..Len(ws) : ws[i].op = "insert"
Lifetimes(db, ws) == [i \in 1..Len(ws) |-> db.tab[ws[i].tab].drop]

\* The lifetime of t that a tag belongs to: every keyed call ends with a
\* write to t.
Life(tag) == tag.at[Len(tag.at)]

DbRecords(db) ==
  \A k \in db.keys :
    /\ k.tag.dom # "none" /\ KeyedWrites(k.tag.dom, k.ws)
    /\ Len(k.tag.at) = Len(k.ws)
    /\ HasInsert(k.ws) => \E a \in LogOf(db) : a.key = k.tag
    /\ k.tag.dom = "batch" => k.tag.at = Lifetimes(db, k.ws)

\* The tags in the log are of lifetimes up to the present one, and those of
\* the present one have their record.
DbTags(db) ==
  \A a \in LogOf(db) : a.key.dom # "none" =>
    /\ a.key.at # <<>>
    /\ Life(a.key) <= db.tab["t"].drop
    /\ ~db.tab["t"].active => Life(a.key) # db.tab["t"].drop
    /\ Life(a.key) = db.tab["t"].drop => \E k \in db.keys : k.tag = a.key

DbOneCommit(db) ==
  \A a, b \in LogOf(db) : a.key = b.key /\ a.key # NoTag => a.commit = b.commit

DbDeclared(db) ==
  /\ db.tab["p"].cons = {}
  /\ "unique" \in db.tab["t"].cons => "unique" \in pgScene
  /\ "foreign" \in db.tab["t"].cons => "refs" \in pgScene
  /\ "refs" \in pgScene /\ db.tab["t"].active => "foreign" \in db.tab["t"].cons

PgSound(db) ==
  /\ PgShape(db) /\ DbVectors(db) /\ DbDeclared(db)
  /\ DbRecords(db) /\ DbTags(db) /\ DbOneCommit(db)

DbConstraints(db) ==
  \A t \in PgTables : db.tab[t].active => CheckUnique(db, t) /\ CheckForeign(db, t)

-----------------------------------------------------------------------------
(* The invariant.                                                           *)

Opened(s) == pgTx[s] # PgNoTx

\* A client's state v and its open transaction tx.
ClientOK(v, tx) ==
  /\ "pc" \in DOMAIN v
  /\ tx # PgNoTx <=> v.pc = "commit"
  /\ v.pc # "idle" => {"call", "st", "tries"} \subseteq DOMAIN v /\ v.call \in PgMenu
  /\ v.pc = "commit" /\ v.call.key # "none" =>
       [tag |-> PgTag(tx, v.call), ws |-> v.call.ws] \in tx.keys

PgClientsOK ==
  /\ pgClient = [c \in PgClients |-> pgClient[c]]
  /\ \A c \in PgClients : ClientOK(pgClient[c], pgTx[c])

PgMigOK ==
  /\ "pc" \in DOMAIN pgMig
  /\ Opened("migrate") <=> pgMig.pc = "commit"
  /\ pgMig.pc # "idle" =>
       /\ {"change", "first", "tries", "st", "after", "page"} \subseteq DOMAIN pgMig
       /\ pgMig.change \in {"on", "off", "unique"}
       /\ pgMig.change = "unique" => "unique" \in pgScene

\* One write transaction at a time, on what is committed.
PgTxOK ==
  /\ pgTx = [s \in PgSessions |-> pgTx[s]]
  /\ \A s \in PgSessions : Opened(s) =>
       /\ \A r \in PgSessions : Opened(r) => r = s
       /\ pgTx[s].gen = pgDb.gen /\ pgDb.gen # 0
       /\ LogOf(pgDb) \subseteq LogOf(pgTx[s])
       /\ PgSound(pgTx[s])

PgLeftType == [calls : Int, losses : Int, drops : Nat, schemas : Int, vacuums : Int]
NextGen == 1 + PgDrops - pgLeft.drops

PgLeftOK ==
  /\ pgLeft \in PgLeftType
  /\ pgLeft.drops <= PgDrops /\ pgDb.gen <= NextGen
  /\ \A k \in pgAcks :
       /\ k.gen \in Nat \ {0} /\ k.gen <= NextGen
       /\ pgDb.gen = 0 => k.gen # NextGen
       /\ k.gen = pgDb.gen /\ HasInsert(k.ws) => \E a \in PgLog : a.key = k.tag

PgInv ==
  /\ pgScene \in PgScenes /\ PgSound(pgDb)
  /\ PgClientsOK /\ PgMigOK /\ PgTxOK /\ PgLeftOK

-----------------------------------------------------------------------------
(* The log.                                                                 *)

\* From db to d only records with this tag and one commit id came to the log.
Logged(db, d, tag) ==
  /\ d.changes \in Seq(LogOf(d)) /\ LogOf(db) \subseteq LogOf(d)
  /\ \A a \in LogOf(d) : a \in LogOf(db) \/ (a.key = tag /\ a.commit = changeCommit(db))
  /\ changeCommit(d) = changeCommit(db)
  /\ {d.head, d.commit, d.cur} \subseteq Nat

\* A sequence is one of its own members.
LEMMA OwnMembers ==
  ASSUME NEW S, NEW s \in Seq(S)
  PROVE  s \in Seq({s[i] : i \in 1..Len(s)})
<1>1. Len(s) \in Nat /\ s = [i \in 1..Len(s) |-> s[i]]  OBVIOUS
<1>2. s \in [1..Len(s) -> {s[i] : i \in 1..Len(s)}]  BY <1>1
<1> QED BY <1>1, <1>2

\* A function on an initial segment is a sequence.
LEMMA FunctionIsSeq ==
  ASSUME NEW n \in Nat, NEW T, NEW f \in [1..n -> T]
  PROVE  f \in Seq(T) /\ Len(f) = n
<1>1. f \in Seq(T)  OBVIOUS
<1> QED BY <1>1, LenProperties

\* What joining two sequences holds.
Members(s) == {s[i] : i \in 1..Len(s)}

LEMMA Joined ==
  ASSUME NEW S, NEW s \in Seq(S), NEW T, NEW u \in Seq(T), NEW v, v = s \o u
  PROVE  /\ v \in Seq(S \cup T)
         /\ \A x : x \in Members(v) <=> x \in Members(s) \/ x \in Members(u)
<1> PICK m \in Nat : m = Len(s)  OBVIOUS
<1> PICK n \in Nat : n = Len(u)  OBVIOUS
<1>0. s \in Seq(S \cup T) /\ u \in Seq(S \cup T)  OBVIOUS
<1>1. v \in Seq(S \cup T) /\ Len(v) = m + n  BY <1>0
<1>2. \A i \in 1 .. m + n : v[i] = IF i <= m THEN s[i] ELSE u[i - m]  OBVIOUS
<1>3. ASSUME NEW i \in 1 .. m + n
      PROVE v[i] \in {s[j] : j \in 1..m} \cup {u[j] : j \in 1..n}
  <2>1. CASE i <= m  BY <2>1, <1>2
  <2>2. CASE i > m  
    <3>1. i - m \in 1 .. n  BY <2>2
    <3> QED BY <2>2, <3>1, <1>2
  <2> QED BY <2>1, <2>2
<1>4. ASSUME NEW j \in 1 .. m  PROVE s[j] \in {v[i] : i \in 1 .. m + n}
  <2>1. j \in 1 .. m + n /\ v[j] = s[j]  BY <1>2
  <2> QED BY <2>1
<1>5. ASSUME NEW j \in 1 .. n  PROVE u[j] \in {v[i] : i \in 1 .. m + n}
  <2>1. m + j \in 1 .. m + n /\ v[m + j] = u[j]  BY <1>2
  <2> QED BY <2>1
<1>6. {v[i] : i \in 1 .. m + n} = {s[j] : j \in 1..m} \cup {u[j] : j \in 1..n}
  <2> PICK A : A = {v[i] : i \in 1 .. m + n}  OBVIOUS
  <2> PICK B : B = {s[j] : j \in 1..m}  OBVIOUS
  <2> PICK C : C = {u[j] : j \in 1..n}  OBVIOUS
  <2>1. \A x \in A : x \in B \cup C  BY <1>3
  <2>2. \A x \in B : x \in A  BY <1>4
  <2>3. \A x \in C : x \in A  BY <1>5
  <2>4. A = B \cup C  BY <2>1, <2>2, <2>3
  <2> QED BY <2>4
<1> QED BY <1>1, <1>6 DEF Members

\* mintChanges.
LEMMA Mint ==
  ASSUME NEW db, PgShape(db), NEW t \in PgTables, NEW kind, NEW ids, IsFiniteSet(ids),
         NEW tag \in PgTagType, NEW d, d = mintChanges(db, t, kind, ids, tag)
  PROVE  /\ d = [f \in PgDbFields |-> d[f]]
         /\ d.gen = db.gen /\ d.tab = db.tab /\ d.keys = db.keys /\ d.stage = db.stage
         /\ Logged(db, d, tag)
         /\ ids = {} => d = db
         /\ ids # {} => d.head # db.head /\ \E a \in LogOf(d) : a.key = tag
<1>1. CASE ids = {}
  BY <1>1 DEF mintChanges, Logged, PgShape
<1>2. CASE ids # {}
  <2> PICK n : n = Cardinality(ids)  OBVIOUS
  <2>1. n \in Nat \ {0}  BY <1>2, FS_CardinalityType, FS_EmptySet
  <2> PICK c : c = changeCommit(db)  OBVIOUS
  <2>2. c \in Nat  BY DEF changeCommit, PgShape
  <2> DEFINE rec(i) == [pos |-> db.head + i, tab |-> t, drop |-> db.tab[t].drop,
                        id |-> idsInOrder(ids)[i], kind |-> kind, commit |-> c, key |-> tag]
  <2> PICK new : new = [i \in 1..n |-> rec(i)]  OBVIOUS
  <2>3. d = [db EXCEPT !.cur = c, !.commit = c, !.head = @ + n, !.changes = @ \o new]
    BY <1>2 DEF mintChanges
  <2>4. \A i \in 1..n : new[i].key = tag /\ new[i].commit = c  OBVIOUS
  <2>5. new \in Seq({new[i] : i \in 1..n}) /\ Len(new) = n
    <3> HIDE DEF rec
    <3> PICK T : T = {new[i] : i \in 1..n}  OBVIOUS
    <3>1. n \in Nat /\ new \in [1..n -> T]  BY <2>1
    <3>2. new \in Seq(T) /\ Len(new) = n  BY ONLY <3>1, FunctionIsSeq
    <3> QED BY <3>2
  <2> HIDE DEF rec
  <2>6. /\ d = [f \in PgDbFields |-> d[f]] /\ d.gen = db.gen /\ d.tab = db.tab
        /\ d.keys = db.keys /\ d.stage = db.stage /\ d.cur = c /\ d.commit = c
        /\ d.head = db.head + n /\ d.changes = db.changes \o new
    BY <2>3 DEF PgShape, PgDbFields
  <2>7. LogOf(d) = LogOf(db) \cup {new[i] : i \in 1..n} /\ d.changes \in Seq(LogOf(d))
    <3>1. db.changes \in Seq(LogOf(db))  BY DEF PgShape
    <3> PICK old : old = db.changes  OBVIOUS
    <3> PICK all : all = d.changes  OBVIOUS
    <3> PICK S : S = LogOf(db)  OBVIOUS
    <3> PICK T : T = {new[i] : i \in 1..n}  OBVIOUS
    <3>2. old \in Seq(LogOf(db)) /\ all = old \o new  BY <3>1, <2>6
    <3>3. /\ all \in Seq(S \cup T)
          /\ \A x : x \in Members(all) <=> x \in Members(old) \/ x \in Members(new)
      <4>1. old \in Seq(S)  BY <3>2
      <4>2. new \in Seq(T)  BY <2>5
      <4>3. all = old \o new  BY <3>2
      <4> QED BY ONLY <4>1, <4>2, <4>3, Joined, Zenon
    <3>4. LogOf(d) = Members(all) /\ LogOf(db) = Members(old) /\ T = Members(new)
      BY <2>5 DEF LogOf, Members
    <3>5. Members(all) = Members(old) \cup Members(new)  BY <3>3
    <3> QED BY <3>3, <3>4, <3>5
  <2>8. c # 0 /\ changeCommit(d) = c
    BY <2>6 DEF changeCommit, PgShape
  <2>9. Logged(db, d, tag)
    BY <2>1, <2>2, <2>4, <2>6, <2>7, <2>8 DEF Logged, PgShape
  <2>10. d.head # db.head  BY <2>1, <2>6 DEF PgShape
  <2>11. \E a \in LogOf(d) : a.key = tag
    <3>1. 1 \in 1..n  BY <2>1
    <3> QED BY <3>1, <2>4, <2>7
  <2> QED BY <1>2, <2>6, <2>9, <2>10, <2>11
<1> QED BY <1>1, <1>2

-----------------------------------------------------------------------------
(* What a write does to a database.                                         *)

LEMMA Put ==
  ASSUME NEW db, PgShape(db), NEW t \in PgTables, NEW n \in PgTableType,
         IsFiniteSet(n.rows), NEW q, q = putTable(db, t, n)
  PROVE  /\ PgShape(q) /\ q.tab[t] = n /\ \A u \in PgTables \ {t} : q.tab[u] = db.tab[u]
         /\ \A f \in PgDbFields \ {"tab"} : q[f] = db[f]
         /\ LogOf(q) = LogOf(db)
<1>1. /\ q = [f \in PgDbFields |-> q[f]] /\ \A f \in PgDbFields \ {"tab"} : q[f] = db[f]
      /\ q.tab = [db.tab EXCEPT ![t] = n]
  BY DEF putTable, PgShape, PgDbFields
<1>2. /\ q.gen = db.gen /\ q.head = db.head /\ q.commit = db.commit /\ q.cur = db.cur
      /\ q.changes = db.changes /\ q.keys = db.keys
  BY <1>1 DEF PgDbFields
<1>3. LogOf(q) = LogOf(db)  BY <1>2 DEF LogOf
<1>4. q.tab \in [PgTables -> PgTableType] /\ q.tab[t] = n
      /\ \A u \in PgTables \ {t} : q.tab[u] = db.tab[u]
  BY <1>1 DEF PgShape
<1>5. PgShape(q)
  BY <1>1, <1>2, <1>3, <1>4 DEF PgShape
<1> QED BY <1>1, <1>3, <1>4, <1>5

TableWrote(o, n) ==
  /\ IsFiniteSet(n.rows)
  /\ n.active = o.active /\ n.drop = o.drop /\ n.vec = o.vec /\ n.cons = o.cons
  /\ \A r \in n.rows : r \in o.rows \/ r.vec = prepareValues(o, r.text)

Wrote(db, d, tag) ==
  /\ d = [f \in PgDbFields |-> d[f]]
  /\ d.gen = db.gen /\ d.keys = db.keys /\ d.stage = db.stage
  /\ d.tab \in [PgTables -> PgTableType]
  /\ \A u \in PgTables : TableWrote(db.tab[u], d.tab[u])
  /\ Logged(db, d, tag)

\* A write to t that leaves n for the table and records of ids, and what it comes to.
WriteOf(db, t, n, ids, tag, d) ==
  /\ PgShape(db) /\ t \in PgTables /\ n \in PgTableType /\ TableWrote(db.tab[t], n)
  /\ IsFiniteSet(ids) /\ tag \in PgTagType
  /\ \E kind : d = mintChanges(putTable(db, t, n), t, kind, ids, tag)

Written(db, t, n, ids, tag, d) ==
  /\ Wrote(db, d, tag) /\ d.tab[t] = n /\ \A u \in PgTables \ {t} : d.tab[u] = db.tab[u]
  /\ ids # {} => d.head # db.head /\ \E a \in LogOf(d) : a.key = tag

LEMMA PutAndMint ==
  ASSUME NEW db, NEW t, NEW n, NEW ids, NEW tag, NEW d, WriteOf(db, t, n, ids, tag, d)
  PROVE  Written(db, t, n, ids, tag, d)
<1> USE DEF WriteOf
<1>0. t \in PgTables /\ n \in PgTableType /\ tag \in PgTagType /\ PgShape(db)  OBVIOUS
<1> PICK kind : d = mintChanges(putTable(db, t, n), t, kind, ids, tag)  OBVIOUS
<1> PICK q : q = putTable(db, t, n)  OBVIOUS
<1>1. /\ PgShape(q) /\ q.tab[t] = n /\ \A u \in PgTables \ {t} : q.tab[u] = db.tab[u]
      /\ \A f \in PgDbFields \ {"tab"} : q[f] = db[f]
      /\ LogOf(q) = LogOf(db)
  <2>1. IsFiniteSet(n.rows)  BY DEF TableWrote
  <2> QED BY <1>0, <2>1, Put
<1>2. /\ d = [f \in PgDbFields |-> d[f]]
      /\ d.gen = q.gen /\ d.tab = q.tab /\ d.keys = q.keys /\ d.stage = q.stage
      /\ Logged(q, d, tag)
      /\ ids # {} => d.head # q.head /\ \E a \in LogOf(d) : a.key = tag
  <2>1. d = mintChanges(q, t, kind, ids, tag) /\ IsFiniteSet(ids)  OBVIOUS
  <2>2. PgShape(q)  BY <1>1
  <2> QED BY ONLY <1>0, <2>1, <2>2, Mint
<1>3. /\ q.gen = db.gen /\ q.head = db.head /\ q.commit = db.commit /\ q.cur = db.cur
      /\ q.keys = db.keys /\ q.stage = db.stage
  BY <1>1 DEF PgDbFields
<1>4. Logged(db, d, tag)
  BY <1>1, <1>2, <1>3 DEF Logged, changeCommit
<1>5. \A u \in PgTables : TableWrote(db.tab[u], d.tab[u])
  <2> TAKE u \in PgTables
  <2>1. CASE u = t  BY <2>1, <1>1, <1>2
  <2>2. CASE u # t
    <3>1. d.tab[u] = db.tab[u]  BY <2>2, <1>1, <1>2
    <3> QED BY <3>1 DEF TableWrote, PgShape
  <2> QED BY <2>1, <2>2
<1>6. d.tab \in [PgTables -> PgTableType]  BY <1>1, <1>2 DEF PgShape
<1>7. Wrote(db, d, tag)  BY <1>2, <1>3, <1>4, <1>5, <1>6 DEF Wrote
<1> QED BY <1>1, <1>2, <1>3, <1>7 DEF Written

LEMMA PinnedTable ==
  ASSUME NEW m \in PgTableType, NEW st, st.vec \in BOOLEAN, NEW n, n = pinSpace(m, st)
  PROVE  /\ n \in PgTableType /\ n.rows = m.rows /\ n.active = m.active /\ n.drop = m.drop
         /\ n.vec = m.vec /\ n.cons = m.cons
<1> PICK sp : sp = (m.space \/ st.vec)  OBVIOUS
<1>1. sp \in BOOLEAN  OBVIOUS
<1>2. n = [m EXCEPT !.space = sp]  BY DEF pinSpace
<1> QED BY <1>1, <1>2 DEF PgTableType

LEMMA NewRow ==
  ASSUME NEW id \in Nat, NEW w \in PgWriteType, NEW o \in PgTableType, NEW st, st.vec = o.vec,
         NEW r, r = PgRow(id, w, st)
  PROVE  /\ r \in PgRowType /\ r.vec = prepareValues(o, r.text)
         /\ r.id = id /\ st.vec \in BOOLEAN
BY DEF PgRow, prepareValues, PgRowType, PgWriteType, PgTableType

LEMMA InsertWrites ==
  ASSUME NEW db, PgShape(db), NEW w \in PgWriteType, NEW st, st.vec = db.tab[w.tab].vec,
         NEW tag \in PgTagType, NEW d, d = insertPrepared(db, w, st, tag)
  PROVE  \E n, id : Written(db, w.tab, n, {id}, tag, d) /\ db.tab[w.tab].rows \subseteq n.rows
<1> DEFINE o == db.tab[w.tab]
           id == o.seq + 1
           r == PgRow(id, w, st)
           m == [o EXCEPT !.seq = id, !.rows = @ \cup {r}]
           n == pinSpace(m, st)
<1>0. w.tab \in PgTables /\ o \in PgTableType /\ IsFiniteSet(o.rows)
  BY DEF PgShape, PgWriteType
<1>1. id \in Nat  BY <1>0 DEF PgTableType
<1>2. d = mintChanges(putTable(db, w.tab, n), w.tab, "insert", {id}, tag)
  BY DEF insertPrepared
<1> HIDE DEF id, o
<1>3. /\ r \in PgRowType /\ r.vec = prepareValues(o, r.text) /\ st.vec \in BOOLEAN
  <2>1. st.vec = o.vec  BY DEF o
  <2> HIDE DEF r
  <2> QED BY <2>1, <1>0, <1>1, NewRow DEF r
<1> HIDE DEF r
<1>4. m \in PgTableType /\ m.rows = o.rows \cup {r} /\ m.active = o.active /\ m.drop = o.drop
      /\ m.vec = o.vec /\ m.cons = o.cons
  BY <1>0, <1>1, <1>3 DEF PgTableType
<1> HIDE DEF m
<1>5. n \in PgTableType /\ n.rows = o.rows \cup {r} /\ n.active = o.active /\ n.drop = o.drop
      /\ n.vec = o.vec /\ n.cons = o.cons
  BY <1>3, <1>4, PinnedTable
<1> HIDE DEF n
<1>6. TableWrote(o, n)
  <2>1. IsFiniteSet(n.rows)  BY <1>0, <1>5, FS_AddElement
  <2> QED BY <2>1, <1>3, <1>5 DEF TableWrote
<1>7. IsFiniteSet({id})  BY FS_Singleton
<1>8. WriteOf(db, w.tab, n, {id}, tag, d)
  BY <1>0, <1>2, <1>5, <1>6, <1>7 DEF WriteOf, o
<1>9. Written(db, w.tab, n, {id}, tag, d)  BY <1>8, PutAndMint
<1>10. o.rows \subseteq n.rows  BY <1>5
<1> QED BY <1>9, <1>10 DEF o

\* updateMatched changes rows where they are.
LEMMA UpdateWrites ==
  ASSUME NEW db, PgShape(db), NEW w \in PgWriteType, NEW st, st.vec = db.tab[w.tab].vec,
         NEW ids, IsFiniteSet(ids),
         NEW tag \in PgTagType, NEW d, d = updateMatched(db, w, st, ids, tag)
  PROVE  \E n : /\ Written(db, w.tab, n, ids, tag, d)
                /\ \A q \in db.tab[w.tab].rows : \E r \in n.rows : r.id = q.id
<1> DEFINE o == db.tab[w.tab]
           r1(r) == IF r.id \in ids THEN PgRow(r.id, w, st) ELSE r
           R == {r1(r) : r \in o.rows}
           m == [o EXCEPT !.rows = R]
           n == pinSpace(m, st)
<1>0. w.tab \in PgTables /\ o \in PgTableType /\ IsFiniteSet(o.rows) /\ st.vec = o.vec
  BY DEF PgShape, PgWriteType
<1>2. d = mintChanges(putTable(db, w.tab, n), w.tab, "update", ids, tag)
  BY DEF updateMatched
<1> HIDE DEF o
<1>3. ASSUME NEW r \in o.rows
      PROVE  /\ r1(r) \in PgRowType /\ r1(r).id = r.id
             /\ r1(r) \in o.rows \/ r1(r).vec = prepareValues(o, r1(r).text)
  <2>1. r \in PgRowType /\ r.id \in Nat  BY <1>0 DEF PgTableType, PgRowType
  <2>2. CASE r.id \in ids
    <3> PICK x : x = PgRow(r.id, w, st)  OBVIOUS
    <3>1. x \in PgRowType /\ x.vec = prepareValues(o, x.text) /\ x.id = r.id
      BY <2>1, <1>0, NewRow
    <3> QED BY <3>1, <2>2
  <2>3. CASE r.id \notin ids  BY <2>1, <2>3
  <2> QED BY <2>2, <2>3
<1>4. IsFiniteSet(R)
  <2> HIDE DEF r1
  <2> DEFINE f == [r \in o.rows |-> r1(r)]
  <2>1. f \in Surjection(o.rows, R)  BY DEF Surjection
  <2> QED BY <2>1, <1>0, FS_Surjection
<1> HIDE DEF r1
<1>5. R \in SUBSET PgRowType  BY <1>3
<1>6. /\ \A r \in R : r \in o.rows \/ r.vec = prepareValues(o, r.text)
      /\ \A q \in o.rows : \E r \in R : r.id = q.id
  BY <1>3
<1> HIDE DEF R
<1>7. m \in PgTableType /\ m.rows = R /\ m.active = o.active /\ m.drop = o.drop
      /\ m.vec = o.vec /\ m.cons = o.cons /\ st.vec \in BOOLEAN
  BY <1>0, <1>5 DEF PgTableType
<1> HIDE DEF m
<1>8. n \in PgTableType /\ n.rows = R /\ n.active = o.active /\ n.drop = o.drop
      /\ n.vec = o.vec /\ n.cons = o.cons
  BY <1>7, PinnedTable
<1> HIDE DEF n
<1>9. TableWrote(o, n)  BY <1>4, <1>6, <1>8 DEF TableWrote
<1>10. WriteOf(db, w.tab, n, ids, tag, d)
  BY <1>0, <1>2, <1>8, <1>9 DEF WriteOf, o
<1>11. Written(db, w.tab, n, ids, tag, d)  BY <1>10, PutAndMint
<1> QED BY <1>6, <1>8, <1>11 DEF o

LEMMA MatchedFinite ==
  ASSUME NEW db, PgShape(db), NEW t \in PgTables, NEW text, NEW ids, ids = matchKey(db, t, text)
  PROVE  IsFiniteSet(ids)
<1> DEFINE Q == {q \in db.tab[t].rows : q.text = text}
<1>1. IsFiniteSet(Q)  BY FS_Subset DEF PgShape
<1>2. ids = {r.id : r \in Q}  BY DEF matchKey
<1> HIDE DEF Q
<1> DEFINE f == [r \in Q |-> r.id]
<1>3. f \in Surjection(Q, ids)  BY <1>2 DEF Surjection
<1> QED BY <1>1, <1>3, FS_Surjection

\* deleteRows.
LEMMA DeleteWrites ==
  ASSUME NEW db, PgShape(db), NEW w \in PgWriteType,
         NEW tag \in PgTagType, NEW d, d = deleteRows(db, w, tag).db
  PROVE  \E n, ids : /\ Written(db, w.tab, n, ids, tag, d)
                     /\ ids = {} => n.rows = db.tab[w.tab].rows
<1> DEFINE o == db.tab[w.tab]
           ids == matchKey(db, w.tab, w.old)
           R == {r \in o.rows : r.id \notin ids}
           n == [o EXCEPT !.rows = R]
<1>0. w.tab \in PgTables /\ o \in PgTableType /\ IsFiniteSet(o.rows)
  BY DEF PgShape, PgWriteType
<1>1. d = mintChanges(putTable(db, w.tab, n), w.tab, "delete", ids, tag)
  BY DEF deleteRows
<1>2. IsFiniteSet(ids)  BY <1>0, MatchedFinite
<1> HIDE DEF o, ids
<1>3. R \subseteq o.rows /\ IsFiniteSet(R) /\ (ids = {} => R = o.rows)
  <2>1. R \subseteq o.rows  OBVIOUS
  <2>2. ids = {} => R = o.rows  OBVIOUS
  <2> HIDE DEF R
  <2> QED BY <2>1, <2>2, <1>0, FS_Subset
<1> HIDE DEF R
<1>4. n \in PgTableType /\ n.rows = R /\ n.active = o.active /\ n.drop = o.drop
      /\ n.vec = o.vec /\ n.cons = o.cons
  BY <1>0, <1>3 DEF PgTableType
<1> HIDE DEF n
<1>5. TableWrote(o, n)  BY <1>3, <1>4 DEF TableWrote
<1>6. WriteOf(db, w.tab, n, ids, tag, d)
  BY <1>0, <1>1, <1>2, <1>4, <1>5 DEF WriteOf, o
<1>7. Written(db, w.tab, n, ids, tag, d)  BY <1>6, PutAndMint
<1> QED BY <1>3, <1>4, <1>7 DEF o

\* importRows, when it does not find its row there.
Imported(db, w, tag, d) ==
  \E n : /\ Written(db, w.tab, n, {w.id}, tag, d)
         /\ db.tab[w.tab].rows \subseteq n.rows

LEMMA ImportWrites ==
  ASSUME NEW db, PgShape(db), NEW w \in PgWriteType, NEW st, st.vec = db.tab[w.tab].vec,
         NEW tag \in PgTagType, NEW d, d = importRows(db, w, st, tag).db
  PROVE  d = db \/ Imported(db, w, tag, d)
<1> SUFFICES ASSUME d # db  PROVE Imported(db, w, tag, d)  OBVIOUS
<1> DEFINE o == db.tab[w.tab]
           id == w.id
           sq == IF id > o.seq THEN id ELSE o.seq
           r == PgRow(id, w, st)
           m == [o EXCEPT !.seq = sq, !.rows = @ \cup {r}]
           n == pinSpace(m, st)
<1>0. w.tab \in PgTables /\ o \in PgTableType /\ IsFiniteSet(o.rows) /\ id \in Nat
  BY DEF PgShape, PgWriteType
<1>1. sq \in Nat  BY <1>0 DEF PgTableType
<1>2. d = mintChanges(putTable(db, w.tab, n), w.tab, "insert", {id}, tag)
  BY DEF importRows
<1>v. st.vec = o.vec  OBVIOUS
<1> HIDE DEF id, o, sq
<1>3. /\ r \in PgRowType /\ r.vec = prepareValues(o, r.text) /\ st.vec \in BOOLEAN
  <2> HIDE DEF r
  <2> QED BY <1>v, <1>0, <1>1, NewRow DEF r
<1> HIDE DEF r
<1>4. m \in PgTableType /\ m.rows = o.rows \cup {r} /\ m.active = o.active /\ m.drop = o.drop
      /\ m.vec = o.vec /\ m.cons = o.cons
  BY <1>0, <1>1, <1>3 DEF PgTableType
<1> HIDE DEF m
<1>5. n \in PgTableType /\ n.rows = o.rows \cup {r} /\ n.active = o.active /\ n.drop = o.drop
      /\ n.vec = o.vec /\ n.cons = o.cons
  BY <1>3, <1>4, PinnedTable
<1> HIDE DEF n
<1>6. TableWrote(o, n)
  <2>1. IsFiniteSet(n.rows)  BY <1>0, <1>5, FS_AddElement
  <2> QED BY <2>1, <1>3, <1>5 DEF TableWrote
<1>7. IsFiniteSet({id})  BY FS_Singleton
<1>8. WriteOf(db, w.tab, n, {id}, tag, d)
  BY <1>0, <1>2, <1>5, <1>6, <1>7 DEF WriteOf, o
<1>9. Written(db, w.tab, n, {id}, tag, d)  BY <1>8, PutAndMint
<1>10. o.rows \subseteq n.rows  BY <1>5
<1> QED BY <1>9, <1>10 DEF o, id, Imported

\* Everything there is to know of one write.
RowsKept(o, n) == \A q \in o.rows : \E r \in n.rows : r.id = q.id

Effect(db, w, tag, d) ==
  /\ Wrote(db, d, tag) /\ \A u \in PgTables \ {w.tab} : d.tab[u] = db.tab[u]
  /\ d.head = db.head => d.tab[w.tab].rows = db.tab[w.tab].rows
  /\ w.op # "delete" => RowsKept(db.tab[w.tab], d.tab[w.tab])
  /\ w.op = "insert" => \E a \in LogOf(d) : a.key = tag

LEMMA NoEffect ==
  ASSUME NEW db, PgShape(db), NEW w \in PgWriteType, w.op # "insert", NEW tag
  PROVE  Effect(db, w, tag, db)
<1>1. Logged(db, db, tag)  BY DEF Logged, PgShape
<1>2. \A u \in PgTables : TableWrote(db.tab[u], db.tab[u])  BY DEF TableWrote, PgShape
<1>3. Wrote(db, db, tag)  BY <1>1, <1>2 DEF Wrote, PgShape
<1> QED BY <1>3 DEF Effect, RowsKept

LEMMA EffectOfInsert ==
  ASSUME NEW db, PgShape(db), NEW w \in PgWriteType, w.op # "import", NEW st,
         st.vec = db.tab[w.tab].vec, NEW tag \in PgTagType,
         NEW d, d = insertPrepared(db, w, st, tag)
  PROVE  Effect(db, w, tag, d)
<1> PICK n, id : Written(db, w.tab, n, {id}, tag, d) /\ db.tab[w.tab].rows \subseteq n.rows
  BY InsertWrites
<1>1. {id} # {}  OBVIOUS
<1> QED BY <1>1 DEF Effect, Written, RowsKept

LEMMA EffectOfUpdate ==
  ASSUME NEW db, PgShape(db), NEW w \in PgWriteType, w.op \notin {"import", "insert"}, NEW st,
         st.vec = db.tab[w.tab].vec, NEW tag \in PgTagType, NEW ids, IsFiniteSet(ids), ids # {},
         NEW d, d = updateMatched(db, w, st, ids, tag)
  PROVE  Effect(db, w, tag, d)
<1> PICK n : /\ Written(db, w.tab, n, ids, tag, d)
             /\ \A q \in db.tab[w.tab].rows : \E r \in n.rows : r.id = q.id
  BY UpdateWrites
<1> QED BY DEF Effect, Written, RowsKept

LEMMA EffectOfDelete ==
  ASSUME NEW db, PgShape(db), NEW w \in PgWriteType, w.op = "delete", NEW tag \in PgTagType,
         NEW d, d = deleteRows(db, w, tag).db
  PROVE  Effect(db, w, tag, d)
<1> PICK n, ids : /\ Written(db, w.tab, n, ids, tag, d)
                  /\ ids = {} => n.rows = db.tab[w.tab].rows
  BY DeleteWrites
<1> QED BY DEF Effect, Written

LEMMA EffectOfImport ==
  ASSUME NEW db, PgShape(db), NEW w \in PgWriteType, w.op = "import", NEW st,
         st.vec = db.tab[w.tab].vec, NEW tag \in PgTagType,
         NEW d, d = importRows(db, w, st, tag).db
  PROVE  Effect(db, w, tag, d)
<1>1. CASE d = db  BY <1>1, NoEffect
<1>2. CASE Imported(db, w, tag, d)
  <2> PICK n : /\ Written(db, w.tab, n, {w.id}, tag, d)
               /\ db.tab[w.tab].rows \subseteq n.rows
    BY <1>2 DEF Imported
  <2>1. {w.id} # {}  OBVIOUS
  <2> QED BY <2>1 DEF Effect, Written, RowsKept
<1> QED BY <1>1, <1>2, ImportWrites

LEMMA BodyWrites ==
  ASSUME NEW db, PgShape(db), NEW w \in PgWriteType, NEW st,
         st.vec = db.tab[w.tab].vec, NEW tag \in PgTagType,
         NEW d, d = PgBody(db, w, st, tag).db
  PROVE  Effect(db, w, tag, d)
<1>0. w.tab \in PgTables  BY DEF PgWriteType
<1>1. CASE w.op = "insert"
  <2>1. d = insertPrepared(db, w, st, tag)  BY <1>1 DEF PgBody
  <2> QED BY <1>1, <2>1, EffectOfInsert
<1>2. CASE w.op = "key"
  <2> PICK ids : ids = matchKey(db, w.tab, w.text)  OBVIOUS
  <2>1. d = IF ids # {} THEN updateMatched(db, w, st, ids, tag)
            ELSE insertPrepared(db, w, st, tag)
    BY <1>2 DEF PgBody, upsertByKeyRows
  <2>2. IsFiniteSet(ids)  BY <1>0, MatchedFinite
  <2>3. CASE ids # {}
    <3>1. d = updateMatched(db, w, st, ids, tag)  BY <2>1, <2>3
    <3> QED BY <3>1, <1>2, <2>2, <2>3, EffectOfUpdate
  <2>4. CASE ids = {}
    <3>1. d = insertPrepared(db, w, st, tag)  BY <2>1, <2>4
    <3> QED BY <3>1, <1>2, EffectOfInsert
  <2> QED BY <2>3, <2>4
<1>3. CASE w.op = "delete"
  <2>1. d = deleteRows(db, w, tag).db  BY <1>3 DEF PgBody
  <2> QED BY <1>3, <2>1, EffectOfDelete
<1>4. CASE w.op = "import"
  <2>1. d = importRows(db, w, st, tag).db  BY <1>4 DEF PgBody
  <2> QED BY <1>4, <2>1, EffectOfImport
<1>5. CASE w.op \in {"update", "upsert"}
  <2> PICK ids : ids = matchKey(db, w.tab, w.old)  OBVIOUS
  <2>1. d = IF ids # {} THEN updateMatched(db, w, st, ids, tag)
            ELSE IF w.op = "upsert" THEN insertPrepared(db, w, st, tag) ELSE db
    BY <1>5 DEF PgBody, pgMutate
  <2>2. IsFiniteSet(ids)  BY <1>0, MatchedFinite
  <2>3. CASE ids # {}
    <3>1. d = updateMatched(db, w, st, ids, tag)  BY <2>1, <2>3
    <3> QED BY <3>1, <1>5, <2>2, <2>3, EffectOfUpdate
  <2>4. CASE ids = {} /\ w.op = "upsert"
    <3>1. d = insertPrepared(db, w, st, tag)  BY <2>1, <2>4
    <3> QED BY <3>1, <1>5, EffectOfInsert
  <2>5. CASE ids = {} /\ w.op # "upsert"
    <3>1. d = db  BY <2>1, <2>5
    <3> QED BY <3>1, <1>5, NoEffect
  <2> QED BY <2>3, <2>4, <2>5
<1> QED BY <1>1, <1>2, <1>3, <1>4, <1>5 DEF PgWriteType

\* Two writes of one transaction are like one.
LEMMA WroteShape ==
  ASSUME NEW db, PgShape(db), NEW tag \in PgTagType, NEW d, Wrote(db, d, tag)
  PROVE  PgShape(d)
<1>1. \A t \in PgTables : IsFiniteSet(d.tab[t].rows)  BY DEF Wrote, TableWrote
<1>2. \A a \in LogOf(d) : a.key \in PgTagType  BY DEF Wrote, Logged, PgShape
<1>3. {d.gen, d.head, d.commit, d.cur} \subseteq Nat /\ d.changes \in Seq(LogOf(d))
      /\ d.keys \subseteq PgKeyType
  BY DEF Wrote, Logged, PgShape
<1> QED BY <1>1, <1>2, <1>3 DEF PgShape, Wrote

LEMMA WroteTwice ==
  ASSUME NEW db, NEW tag, NEW e, Wrote(db, e, tag), NEW d, Wrote(e, d, tag)
  PROVE  Wrote(db, d, tag)
<1>1. Logged(db, d, tag)  BY DEF Wrote, Logged
<1>2. \A u \in PgTables : TableWrote(db.tab[u], d.tab[u])
  BY DEF Wrote, TableWrote, prepareValues
<1> QED BY <1>1, <1>2 DEF Wrote

\* The check of a write's constraints.
Passes(db, w, d) == w.op = "import" \/ constrained(db, d, w.tab, w.op = "delete")

LEMMA WriteWrites ==
  ASSUME NEW db, PgShape(db), NEW w \in PgWriteType, NEW st,
         st.vec = db.tab[w.tab].vec, NEW tag \in PgTagType,
         NEW out, out = PgWrite(db, w, st, tag)
  PROVE  /\ Effect(db, w, tag, out.db) /\ out = [f \in {"ok", "db"} |-> out[f]]
         /\ out.ok => Passes(db, w, out.db)
<1> PICK b : b = PgBody(db, w, st, tag)  OBVIOUS
<1> PICK ok : ok = (b.ok /\ (w.op = "import" \/ constrained(db, b.db, w.tab, w.op = "delete")))
  OBVIOUS
<1>1. out = [ok |-> ok, db |-> b.db]  BY DEF PgWrite
<1>2. out.db = b.db /\ out.ok = ok /\ out = [f \in {"ok", "db"} |-> out[f]]  BY <1>1
<1>3. Effect(db, w, tag, b.db)  BY BodyWrites
<1> QED BY <1>2, <1>3 DEF Passes

\* One write of a batch.
BatchStep(out, w, tag) ==
  IF ~out.ok \/ ~PgExists(out.db, w.tab) THEN [out EXCEPT !.ok = FALSE]
  ELSE PgWrite(out.db, w, decodeTableState(out.db, w.tab), tag)

LEMMA BatchUnfolds ==
  ASSUME NEW db, NEW ws, Len(ws) = 2, NEW tag
  PROVE  batchAttempt(db, ws, tag)
           = BatchStep(BatchStep([ok |-> TRUE, db |-> db], ws[1], tag), ws[2], tag)
<1> DEFINE zero == [ok |-> TRUE, db |-> db]
           one == BatchStep(zero, ws[1], tag)
           two == BatchStep(one, ws[2], tag)
           Eq(f) == f = [i \in 0..Len(ws) |->
                           IF i = 0 THEN zero ELSE BatchStep(f[i - 1], ws[i], tag)]
           all == [i \in 0..2 |-> IF i = 0 THEN zero ELSE IF i = 1 THEN one ELSE two]
<1>1. batchAttempt(db, ws, tag) = (CHOOSE f : Eq(f))[Len(ws)]
  BY DEF batchAttempt, BatchStep
<1> HIDE DEF zero, one
<1>2. Eq(all)
  <2> HIDE DEF two
  <2>1. all[0] = zero /\ all[1] = one /\ all[2] = two  OBVIOUS
  <2>2. \A i \in 0..2 : all[i] = IF i = 0 THEN zero ELSE BatchStep(all[i - 1], ws[i], tag)
    <3> HIDE DEF all
    <3>1. one = BatchStep(all[1 - 1], ws[1], tag)  BY <2>1 DEF one
    <3>2. two = BatchStep(all[2 - 1], ws[2], tag)  BY <2>1 DEF two
    <3>3. \A i \in 0..2 : i = 0 \/ i = 1 \/ i = 2  OBVIOUS
    <3> QED BY <2>1, <3>1, <3>2, <3>3
  <2>3. all = [i \in 0..2 |-> all[i]]  OBVIOUS
  <2> HIDE DEF all
  <2> QED BY <2>2, <2>3
<1>3. ASSUME NEW f, Eq(f)  PROVE f[2] = two
  <2>1. f[0] = zero  BY <1>3
  <2>2. f[1] = BatchStep(f[0], ws[1], tag)
    <3>1. f[1] = BatchStep(f[1 - 1], ws[1], tag)  BY <1>3
    <3> QED BY <3>1
  <2>3. f[2] = BatchStep(f[1], ws[2], tag)
    <3>1. f[2] = BatchStep(f[2 - 1], ws[2], tag)  BY <1>3
    <3> QED BY <3>1
  <2> QED BY <2>1, <2>2, <2>3 DEF one
<1> HIDE DEF Eq, two
<1>4. (CHOOSE f : Eq(f))[2] = two  BY <1>2, <1>3
<1> QED BY <1>1, <1>4 DEF two, one, zero

LEMMA NothingWritten ==
  ASSUME NEW db, PgShape(db), NEW tag
  PROVE  Wrote(db, db, tag)
<1>1. Logged(db, db, tag)  BY DEF Logged, PgShape
<1>2. \A u \in PgTables : TableWrote(db.tab[u], db.tab[u])  BY DEF TableWrote, PgShape
<1> QED BY <1>1, <1>2 DEF Wrote, PgShape

LEMMA BatchStepWrites ==
  ASSUME NEW b, b = [f \in {"ok", "db"} |-> b[f]], PgShape(b.db), NEW w \in PgWriteType,
         NEW tag \in PgTagType, NEW out, out = BatchStep(b, w, tag)
  PROVE  /\ out = [f \in {"ok", "db"} |-> out[f]] /\ Wrote(b.db, out.db, tag)
         /\ out.ok => /\ b.ok /\ PgExists(b.db, w.tab) /\ Effect(b.db, w, tag, out.db)
                      /\ Passes(b.db, w, out.db)
<1>1. CASE ~b.ok \/ ~PgExists(b.db, w.tab)
  <2>1. out = [b EXCEPT !.ok = FALSE]  BY <1>1 DEF BatchStep
  <2>2. out.db = b.db /\ out.ok = FALSE /\ out = [f \in {"ok", "db"} |-> out[f]]  BY <2>1
  <2>3. Wrote(b.db, out.db, tag)  BY <2>2, NothingWritten
  <2> QED BY <2>2, <2>3
<1>2. CASE b.ok /\ PgExists(b.db, w.tab)
  <2> PICK st : st = decodeTableState(b.db, w.tab)  OBVIOUS
  <2>1. st.vec = b.db.tab[w.tab].vec  BY DEF decodeTableState
  <2>2. out = PgWrite(b.db, w, st, tag)  BY <1>2 DEF BatchStep
  <2>3. /\ Effect(b.db, w, tag, out.db) /\ out = [f \in {"ok", "db"} |-> out[f]]
        /\ out.ok => Passes(b.db, w, out.db)
    BY <2>1, <2>2, WriteWrites
  <2> QED BY <2>3, <1>2 DEF Effect
<1> QED BY <1>1, <1>2

\* What a call's transaction leaves behind; ok when it may commit.
BatchWrote(db, ws, tag, out) ==
  \E e : /\ Effect(db, ws[1], tag, e) /\ Passes(db, ws[1], e)
         /\ Effect(e, ws[2], tag, out.db) /\ Passes(e, ws[2], out.db)
         /\ PgExists(e, ws[2].tab)

LEMMA BatchWrites ==
  ASSUME NEW db, PgShape(db), NEW ws \in Seq(PgWriteType), Len(ws) = 2,
         NEW tag \in PgTagType, NEW out, out = batchAttempt(db, ws, tag)
  PROVE  Wrote(db, out.db, tag) /\ (out.ok => BatchWrote(db, ws, tag, out))
<1> PICK a : a = [ok |-> TRUE, db |-> db]  OBVIOUS
<1> PICK b : b = BatchStep(a, ws[1], tag)  OBVIOUS
<1>0. ws[1] \in PgWriteType /\ ws[2] \in PgWriteType
  <2>1. ws \in [1..Len(ws) -> PgWriteType]  BY LenProperties
  <2> QED BY <2>1
<1>1. out = BatchStep(b, ws[2], tag)  BY BatchUnfolds
<1>2. a = [f \in {"ok", "db"} |-> a[f]] /\ a.db = db  OBVIOUS
<1>3. /\ b = [f \in {"ok", "db"} |-> b[f]] /\ Wrote(db, b.db, tag)
      /\ b.ok => Effect(db, ws[1], tag, b.db) /\ Passes(db, ws[1], b.db)
  BY <1>0, <1>2, BatchStepWrites
<1>4. PgShape(b.db)  BY <1>3, WroteShape
<1>5. /\ Wrote(b.db, out.db, tag)
      /\ out.ok => /\ b.ok /\ PgExists(b.db, ws[2].tab) /\ Effect(b.db, ws[2], tag, out.db)
                   /\ Passes(b.db, ws[2], out.db)
  BY <1>0, <1>1, <1>3, <1>4, BatchStepWrites
<1>6. Wrote(db, out.db, tag)  BY <1>3, <1>5, WroteTwice
<1> QED BY <1>3, <1>5, <1>6 DEF BatchWrote

-----------------------------------------------------------------------------
(* The calls.                                                               *)

PgCallType ==
  [kind : {"insert", "import", "batch"}, key : {"none", "k", "l"}, ws : Seq(PgWriteType)]

CallOK(call) ==
  /\ call \in PgCallType
  /\ call.key # "none" => KeyedWrites(call.kind, call.ws)
  /\ call.kind = "batch" => /\ Len(call.ws) = 2 /\ call.key # "none"
                            /\ "import" \notin {call.ws[1].op, call.ws[2].op}
  /\ call.kind # "batch" => Len(call.ws) = 1
  /\ call.kind = "insert" => call.ws[1].op # "import"
  /\ call.kind = "import" => "import" \in pgScene /\ call.ws[1].tab = "t"

LEMMA SingleCall ==
  ASSUME NEW w \in PgWriteType, NEW kind \in {"insert", "import"}, NEW key \in {"none", "k", "l"},
         key # "none" => w.tab = "t", kind = "insert" => w.op # "import",
         kind = "import" => "import" \in pgScene /\ w.tab = "t",
         NEW call, call = [kind |-> kind, key |-> key, ws |-> <<w>>]
  PROVE  CallOK(call)
<1>1. <<w>> \in Seq(PgWriteType) /\ Len(<<w>>) = 1 /\ <<w>>[1] = w  OBVIOUS
<1>2. call.kind = kind /\ call.key = key /\ call.ws = <<w>>  OBVIOUS
<1>3. call \in PgCallType  BY <1>1 DEF PgCallType
<1> QED BY <1>1, <1>2, <1>3 DEF CallOK, KeyedWrites

LEMMA BatchCall ==
  ASSUME NEW v \in PgWriteType, NEW w \in PgWriteType, w.tab = "t",
         v.tab = "p" => "refs" \in pgScene, v.op # "import", w.op # "import",
         NEW call, call = [kind |-> "batch", key |-> "k", ws |-> <<v, w>>]
  PROVE  CallOK(call)
<1>1. <<v, w>> \in Seq(PgWriteType) /\ Len(<<v, w>>) = 2 /\ <<v, w>>[1] = v /\ <<v, w>>[2] = w
  OBVIOUS
<1>2. call.kind = "batch" /\ call.key = "k" /\ call.ws = <<v, w>>  OBVIOUS
<1>3. call \in PgCallType  BY <1>1 DEF PgCallType
<1> QED BY <1>1, <1>2, <1>3 DEF CallOK, KeyedWrites

LEMMA MenuCalls ==
  ASSUME NEW call \in PgMenu
  PROVE  CallOK(call)
<1> DEFINE refs == "refs" \in pgScene
           any == CHOOSE x \in PgTexts : TRUE
           inserts == {PgW("insert", "t", x, x, 0, 0) : x \in PgTexts}
           edits == {PgW("update", "t", any, x, 0, 0) : x \in PgTexts \ {any}}
                    \cup {PgW(op, "t", any, any, 0, 0) : op \in {"upsert", "key", "delete"}}
           parents == {PgW(op, "p", any, any, 0, 0) : op \in {"insert", "delete"}}
           children == {PgW("insert", "t", x, x, 1, 0) : x \in PgTexts}
                       \cup {PgW("upsert", "t", any, any, 1, 0)}
           imports == {PgW("import", "t", x, x, ref, id) :
                         x \in PgTexts, ref \in IF refs THEN 0..1 ELSE {0}, id \in 1..2}
           first == inserts \cup (IF refs THEN parents ELSE {})
           second == IF refs THEN children ELSE edits
           plain == IF refs THEN parents \cup children ELSE inserts \cup edits
           batches == {<<v, w>> : v \in first, w \in second}
<1>0. any \in PgTexts  BY PgAssumption DEF PgAssumption
<1>m. PgMenu = UNION {
       IF "keyed" \in pgScene THEN {PgSingle(w, "k") : w \in inserts} ELSE {},
       IF "plain" \in pgScene THEN {PgSingle(w, "none") : w \in plain} ELSE {},
       IF "import" \in pgScene
         THEN {[kind |-> "import", key |-> k, ws |-> <<w>>] : k \in {"k", "l"}, w \in imports} ELSE {},
       IF "batch" \in pgScene
         THEN {[kind |-> "batch", key |-> "k", ws |-> ws] : ws \in batches} ELSE {}}
  BY DEF PgMenu
<1> HIDE DEF any
<1>1. \A op, t, x, y, ref, id :
        /\ op \in {"insert", "update", "upsert", "key", "delete", "import"} /\ t \in PgTables
        /\ x \in PgTexts /\ y \in PgTexts /\ ref \in Nat /\ id \in Nat
        => /\ PgW(op, t, x, y, ref, id) \in PgWriteType
           /\ PgW(op, t, x, y, ref, id).op = op /\ PgW(op, t, x, y, ref, id).tab = t
           /\ PgW(op, t, x, y, ref, id).ref = ref
  BY DEF PgW, PgWriteType
<1>2. \A w \in inserts : w \in PgWriteType /\ w.tab = "t" /\ w.op = "insert"
  BY <1>1 DEF PgTables
<1>3. \A w \in edits : w \in PgWriteType /\ w.tab = "t" /\ w.op # "import"
  BY <1>0, <1>1 DEF PgTables
<1>4. \A w \in parents : w \in PgWriteType /\ w.op # "import"
  BY <1>0, <1>1 DEF PgTables
<1>5. \A w \in children : w \in PgWriteType /\ w.tab = "t" /\ w.op # "import"
  BY <1>0, <1>1 DEF PgTables
<1>6. \A w \in imports : w \in PgWriteType /\ w.tab = "t" /\ w.op = "import"
  BY <1>1 DEF PgTables
<1> HIDE DEF inserts, edits, parents, children, imports
<1>7. /\ \A w \in plain : w \in PgWriteType /\ w.op # "import"
      /\ \A w \in second : w \in PgWriteType /\ w.tab = "t" /\ w.op # "import"
      /\ \A w \in first : w \in PgWriteType /\ w.op # "import" /\ (w.tab = "p" => refs)
  BY <1>2, <1>3, <1>4, <1>5
<1> HIDE DEF plain, first, second
<1>8. \/ \E w \in inserts : call = PgSingle(w, "k")
      \/ \E w \in plain : call = PgSingle(w, "none")
      \/ "import" \in pgScene /\ \E w \in imports, k \in {"k", "l"} :
           call = [kind |-> "import", key |-> k, ws |-> <<w>>]
      \/ \E v \in first, w \in second : call = [kind |-> "batch", key |-> "k", ws |-> <<v, w>>]
  BY <1>m
<1>9. CASE \E w \in inserts : call = PgSingle(w, "k")
  <2> PICK w \in inserts : call = [kind |-> "insert", key |-> "k", ws |-> <<w>>]
    BY <1>9 DEF PgSingle
  <2> QED BY <1>2, SingleCall
<1>10. CASE \E w \in plain : call = PgSingle(w, "none")
  <2> PICK w \in plain : call = [kind |-> "insert", key |-> "none", ws |-> <<w>>]
    BY <1>10 DEF PgSingle
  <2> QED BY <1>7, SingleCall
<1>11. CASE "import" \in pgScene /\ \E w \in imports, k \in {"k", "l"} :
              call = [kind |-> "import", key |-> k, ws |-> <<w>>]
  <2> PICK w \in imports, k \in {"k", "l"} : call = [kind |-> "import", key |-> k, ws |-> <<w>>]
    BY <1>11
  <2> QED BY <1>6, <1>11, SingleCall
<1>12. CASE \E v \in first, w \in second : call = [kind |-> "batch", key |-> "k", ws |-> <<v, w>>]
  <2> PICK v \in first, w \in second : call = [kind |-> "batch", key |-> "k", ws |-> <<v, w>>]
    BY <1>12
  <2> QED BY <1>7, BatchCall
<1> QED BY <1>8, <1>9, <1>10, <1>11, <1>12

\* The tag of a keyed call: its last write is to t.
LEMMA TagOfCall ==
  ASSUME NEW db, PgShape(db), NEW call, CallOK(call), NEW tag, tag = PgTag(db, call)
  PROVE  /\ tag \in PgTagType
         /\ call.key = "none" => tag = NoTag
         /\ call.key # "none" =>
              /\ tag = [dom |-> call.kind, key |-> call.key, at |-> Lifetimes(db, call.ws)]
              /\ tag.dom = call.kind /\ tag.key = call.key /\ tag.at = Lifetimes(db, call.ws)
              /\ tag.dom # "none" /\ tag # NoTag /\ tag.at # <<>>
              /\ Len(tag.at) = Len(call.ws) /\ Life(tag) = db.tab["t"].drop
<1>1. CASE call.key = "none"
  <2>1. tag = NoTag  BY <1>1 DEF PgTag
  <2>2. <<>> \in Seq(Nat)  OBVIOUS
  <2>3. NoTag \in PgTagType  BY <2>2 DEF NoTag, PgTagType
  <2> QED BY <1>1, <2>1, <2>3
<1>2. CASE call.key # "none"
  <2> PICK ws : ws = call.ws  OBVIOUS
  <2>1. ws \in Seq(PgWriteType) /\ Len(ws) \in {1, 2} /\ ws[Len(ws)].tab = "t"
        /\ call.kind \in {"insert", "import", "batch"} /\ call.key \in {"k", "l"}
    BY <1>2 DEF CallOK, PgCallType, KeyedWrites
  <2> PICK n : n = Len(ws)  OBVIOUS
  <2> PICK at : at = [i \in 1..n |-> db.tab[ws[i].tab].drop]  OBVIOUS
  <2>2. \A i \in 1..n : db.tab[ws[i].tab].drop \in Nat
    <3> TAKE i \in 1..n
    <3>1. ws[i] \in PgWriteType  BY <2>1
    <3> QED BY <3>1 DEF PgWriteType, PgShape, PgTableType
  <2>3. n \in Nat /\ at \in [1..n -> Nat]  BY <2>1, <2>2
  <2>4. at \in Seq(Nat) /\ Len(at) = n  BY ONLY <2>3, FunctionIsSeq
  <2>5. at = Lifetimes(db, ws)  BY DEF Lifetimes
  <2>6. tag = [dom |-> call.kind, key |-> call.key, at |-> at]
    BY <1>2 DEF PgTag
  <2>7. tag.dom = call.kind /\ tag.key = call.key /\ tag.at = at  BY <2>6
  <2>8. tag \in PgTagType  BY <2>1, <2>4, <2>6 DEF PgTagType
  <2>9. at # <<>> /\ at[n] = db.tab["t"].drop
    <3>0. n = 1 \/ n = 2  BY <2>1
    <3>1. n # 0 /\ n \in 1..n  BY ONLY <3>0
    <3>2. Len(<<>>) = 0  OBVIOUS
    <3>3. at[n] = db.tab[ws[n].tab].drop  BY <3>1
    <3> QED BY <2>1, <2>4, <3>1, <3>2, <3>3
  <2>10. NoTag.dom = "none"  BY DEF NoTag
  <2> QED BY <1>2, <2>1, <2>4, <2>5, <2>6, <2>7, <2>8, <2>9, <2>10 DEF Life
<1> QED BY <1>1, <1>2

\* A call that finds no record was not applied in these lifetimes.
LEMMA FreshTag ==
  ASSUME NEW db, PgSound(db), NEW call, CallOK(call), call.key # "none",
         lookupIdempotency(db, call) = "fresh", NEW tag, tag = PgTag(db, call)
  PROVE  \A a \in LogOf(db) : a.key # tag
<1> SUFFICES ASSUME NEW a \in LogOf(db), a.key = tag  PROVE FALSE
  OBVIOUS
<1>0. PgShape(db) /\ DbTags(db) /\ DbRecords(db)  BY DEF PgSound
<1>1. /\ tag.dom # "none" /\ tag.dom = call.kind /\ tag.key = call.key
      /\ Life(tag) = db.tab["t"].drop
  BY <1>0, TagOfCall
<1>2. PICK k \in db.keys : k.tag = tag  BY <1>0, <1>1 DEF DbTags
<1>3. call.kind # "batch" => k.ws[1].tab = "t" /\ call.ws[1].tab = "t"
  BY <1>0, <1>1, <1>2 DEF DbRecords, KeyedWrites, CallOK
<1>4. k \in readIdempotency(db, call)
  BY <1>1, <1>2, <1>3 DEF readIdempotency
<1> QED BY <1>4 DEF lookupIdempotency

\* A call that finds its own record has its tag.
LEMMA ReplayTag ==
  ASSUME NEW db, PgSound(db), NEW call, CallOK(call),
         lookupIdempotency(db, call) = "replay", NEW tag, tag = PgTag(db, call)
  PROVE  /\ call.key # "none"
         /\ HasInsert(call.ws) => \E a \in LogOf(db) : a.key = tag
<1>0. PgShape(db) /\ DbRecords(db)  BY DEF PgSound
<1>1. call.key # "none" /\ readIdempotency(db, call) # {}
      /\ \A k \in readIdempotency(db, call) : k.ws = call.ws
  BY DEF lookupIdempotency
<1>2. PICK k \in readIdempotency(db, call) : k.ws = call.ws  BY <1>1
<1>3. k \in db.keys /\ k.tag.dom = call.kind /\ k.tag.key = call.key
      /\ (call.kind # "batch" => k.tag.at = tag.at)
  BY <1>2 DEF readIdempotency
<1>4. tag = [dom |-> call.kind, key |-> call.key, at |-> Lifetimes(db, call.ws)]
      /\ tag.at = Lifetimes(db, call.ws)
  BY <1>0, <1>1, TagOfCall
<1>5. k.tag.at = Lifetimes(db, call.ws)
  BY <1>0, <1>2, <1>3, <1>4 DEF DbRecords
<1>6. k.tag \in PgTagType  BY <1>0, <1>3 DEF PgShape, PgKeyType
<1>7. k.tag = tag  BY <1>3, <1>4, <1>5, <1>6 DEF PgTagType
<1> QED BY <1>0, <1>1, <1>2, <1>3, <1>7 DEF DbRecords

-----------------------------------------------------------------------------
(* A write keeps a database sound.                                          *)

LEMMA WroteVectors ==
  ASSUME NEW db, PgShape(db), DbVectors(db), NEW tag, NEW d, Wrote(db, d, tag)
  PROVE  DbVectors(d)
<1> SUFFICES ASSUME NEW t \in PgTables, NEW r \in d.tab[t].rows
             PROVE  r.vec = IF d.tab[t].vec THEN r.text ELSE "none"
  BY DEF DbVectors
<1>1. d.tab[t].vec = db.tab[t].vec
      /\ (r \in db.tab[t].rows \/ r.vec = prepareValues(db.tab[t], r.text))
  BY DEF Wrote, TableWrote
<1> QED BY <1>1 DEF DbVectors, prepareValues

LEMMA WroteDeclared ==
  ASSUME NEW db, DbDeclared(db), NEW tag, NEW d, Wrote(db, d, tag)
  PROVE  DbDeclared(d)
<1>1. \A t \in PgTables : d.tab[t].active = db.tab[t].active /\ d.tab[t].cons = db.tab[t].cons
  BY DEF Wrote, TableWrote
<1> QED BY <1>1 DEF DbDeclared, PgTables

\* The transaction of a call: what it wrote and the record of its key.
Call(db, call, d, e) ==
  /\ PgSound(db) /\ CallOK(call) /\ lookupIdempotency(db, call) = "fresh"
  /\ Wrote(db, d, PgTag(db, call)) /\ e = storeIdempotency(d, call, PgTag(db, call))
  /\ call.key # "none" =>
       /\ db.tab["t"].active
       /\ HasInsert(call.ws) => \E a \in LogOf(d) : a.key = PgTag(db, call)

LEMMA StoredFields ==
  ASSUME NEW d, PgShape(d), NEW call, CallOK(call), NEW tag \in PgTagType,
         NEW e, e = storeIdempotency(d, call, tag)
  PROVE  /\ PgShape(e) /\ e.gen = d.gen /\ e.tab = d.tab /\ LogOf(e) = LogOf(d)
         /\ e.keys = IF call.key = "none" THEN d.keys ELSE d.keys \cup {[tag |-> tag, ws |-> call.ws]}
<1>1. CASE call.key = "none"  BY <1>1 DEF storeIdempotency
<1>2. CASE call.key # "none"
  <2> PICK k : k = [tag |-> tag, ws |-> call.ws]  OBVIOUS
  <2>1. k \in PgKeyType  BY DEF PgKeyType, CallOK, PgCallType
  <2>2. e = [d EXCEPT !.keys = @ \cup {k}]  BY <1>2 DEF storeIdempotency
  <2>3. /\ e = [f \in PgDbFields |-> e[f]] /\ e.gen = d.gen /\ e.head = d.head
        /\ e.commit = d.commit /\ e.cur = d.cur /\ e.changes = d.changes /\ e.tab = d.tab
        /\ e.keys = d.keys \cup {k}
    BY <2>2 DEF PgShape, PgDbFields
  <2>4. LogOf(e) = LogOf(d)  BY <2>3 DEF LogOf
  <2>5. PgShape(e)  BY <2>1, <2>3, <2>4 DEF PgShape
  <2> QED BY <1>2, <2>3, <2>4, <2>5
<1> QED BY <1>1, <1>2

LEMMA CallKeepsSound ==
  ASSUME NEW db, NEW call, NEW d, NEW e, Call(db, call, d, e)
  PROVE  /\ PgSound(e) /\ e.gen = db.gen /\ LogOf(db) \subseteq LogOf(e) /\ e.tab = d.tab
         /\ call.key # "none" => [tag |-> PgTag(e, call), ws |-> call.ws] \in e.keys
<1> PICK tag : tag = PgTag(db, call)  OBVIOUS
<1>0. /\ PgSound(db) /\ PgShape(db) /\ CallOK(call) /\ Wrote(db, d, tag)
      /\ e = storeIdempotency(d, call, tag)
  BY DEF Call, PgSound
<1>1. tag \in PgTagType  BY <1>0, TagOfCall
<1>2. PgShape(d)  BY <1>0, <1>1, WroteShape
<1>3. /\ PgShape(e) /\ e.gen = d.gen /\ e.tab = d.tab /\ LogOf(e) = LogOf(d)
      /\ e.keys = IF call.key = "none" THEN d.keys ELSE d.keys \cup {[tag |-> tag, ws |-> call.ws]}
  BY <1>0, <1>1, <1>2, StoredFields
<1>4. DbVectors(e)
  <2>1. DbVectors(d)  BY <1>0, WroteVectors DEF PgSound
  <2> QED BY <2>1, <1>3 DEF DbVectors
<1>5. DbDeclared(e)
  <2>1. DbDeclared(d)  BY <1>0, WroteDeclared DEF PgSound
  <2> QED BY <2>1, <1>3 DEF DbDeclared
<1>6. /\ d.keys = db.keys /\ d.gen = db.gen /\ LogOf(db) \subseteq LogOf(d)
      /\ \A a \in LogOf(d) : a \in LogOf(db) \/ (a.key = tag /\ a.commit = changeCommit(db))
      /\ \A t \in PgTables : d.tab[t].active = db.tab[t].active /\ d.tab[t].drop = db.tab[t].drop
  BY <1>0 DEF Wrote, Logged, TableWrote
<1>7. \A ws \in Seq(PgWriteType) : Lifetimes(e, ws) = Lifetimes(db, ws)
  <2> TAKE ws \in Seq(PgWriteType)
  <2>1. \A i \in 1..Len(ws) : e.tab[ws[i].tab].drop = db.tab[ws[i].tab].drop
    <3> TAKE i \in 1..Len(ws)
    <3>1. ws[i] \in PgWriteType  OBVIOUS
    <3> QED BY <3>1, <1>3, <1>6 DEF PgWriteType
  <2> QED BY <2>1 DEF Lifetimes
<1>8. call.key # "none" =>
        /\ tag = [dom |-> call.kind, key |-> call.key, at |-> Lifetimes(db, call.ws)]
        /\ tag.dom = call.kind /\ tag.at = Lifetimes(db, call.ws)
        /\ tag.dom # "none" /\ tag # NoTag /\ tag.at # <<>>
        /\ Len(tag.at) = Len(call.ws) /\ Life(tag) = db.tab["t"].drop
  BY <1>0, TagOfCall
<1>9. call.key = "none" => tag = NoTag /\ NoTag.dom = "none"
  BY <1>0, TagOfCall DEF NoTag
<1>10. call.ws \in Seq(PgWriteType)  BY <1>0 DEF CallOK, PgCallType
<1>11. DbRecords(e)
  <2> SUFFICES ASSUME NEW k \in e.keys
               PROVE  /\ k.tag.dom # "none" /\ KeyedWrites(k.tag.dom, k.ws)
                      /\ Len(k.tag.at) = Len(k.ws)
                      /\ HasInsert(k.ws) => \E a \in LogOf(e) : a.key = k.tag
                      /\ k.tag.dom = "batch" => k.tag.at = Lifetimes(e, k.ws)
    BY DEF DbRecords
  <2>1. CASE k \in db.keys
    <3>1. k.ws \in Seq(PgWriteType)  BY <2>1, <1>0 DEF PgShape, PgKeyType
    <3>2. /\ k.tag.dom # "none" /\ KeyedWrites(k.tag.dom, k.ws)
          /\ Len(k.tag.at) = Len(k.ws)
          /\ HasInsert(k.ws) => \E a \in LogOf(db) : a.key = k.tag
          /\ k.tag.dom = "batch" => k.tag.at = Lifetimes(db, k.ws)
      BY <2>1, <1>0 DEF PgSound, DbRecords
    <3> QED BY <3>1, <3>2, <1>3, <1>6, <1>7
  <2>2. CASE k \notin db.keys
    <3>1. call.key # "none" /\ k = [tag |-> tag, ws |-> call.ws]  BY <2>2, <1>3, <1>6
    <3>2. k.tag = tag /\ k.ws = call.ws  BY <3>1
    <3>3. HasInsert(call.ws) => \E a \in LogOf(d) : a.key = tag  BY <3>1 DEF Call
    <3>4. KeyedWrites(call.kind, call.ws)  BY <3>1, <1>0 DEF CallOK
    <3> QED BY <3>1, <3>2, <3>3, <3>4, <1>3, <1>7, <1>8, <1>10
  <2> QED BY <2>1, <2>2
<1>12. DbTags(e)
  <2> SUFFICES ASSUME NEW a \in LogOf(e), a.key.dom # "none"
               PROVE  /\ a.key.at # <<>>
                      /\ Life(a.key) <= e.tab["t"].drop
                      /\ ~e.tab["t"].active => Life(a.key) # e.tab["t"].drop
                      /\ Life(a.key) = e.tab["t"].drop => \E k \in e.keys : k.tag = a.key
    BY DEF DbTags
  <2>0. e.tab["t"].drop = db.tab["t"].drop /\ e.tab["t"].active = db.tab["t"].active
        /\ db.keys \subseteq e.keys /\ db.tab["t"].drop \in Nat
    BY <1>0, <1>3, <1>6 DEF PgTables, PgShape, PgTableType
  <2>1. CASE a \in LogOf(db)
    BY <2>0, <2>1, <1>0 DEF PgSound, DbTags
  <2>2. CASE a.key = tag
    <3>1. call.key # "none"  BY <2>2, <1>9
    <3>2. db.tab["t"].active  BY <3>1 DEF Call
    <3>3. [tag |-> tag, ws |-> call.ws] \in e.keys  BY <3>1, <1>3
    <3>4. \E k \in e.keys : k.tag = tag  BY <3>3
    <3> QED BY <2>0, <2>2, <3>1, <3>2, <3>4, <1>8
  <2> QED BY <2>1, <2>2, <1>3, <1>6
<1>13. DbOneCommit(e)
  <2> SUFFICES ASSUME NEW a \in LogOf(e), NEW b \in LogOf(e), a.key = b.key, a.key # NoTag
               PROVE  a.commit = b.commit
    BY DEF DbOneCommit
  <2>1. CASE a.key # tag
    BY <2>1, <1>0, <1>3, <1>6 DEF PgSound, DbOneCommit
  <2>2. CASE a.key = tag
    <3>1. call.key # "none"  BY <2>2, <1>9
    <3>2. lookupIdempotency(db, call) = "fresh"  BY DEF Call
    <3>3. \A x \in LogOf(db) : x.key # tag  BY <3>1, <3>2, <1>0, FreshTag
    <3> QED BY <2>2, <3>3, <1>3, <1>6
  <2> QED BY <2>1, <2>2
<1>14. PgSound(e)
  BY <1>3, <1>4, <1>5, <1>11, <1>12, <1>13 DEF PgSound
<1>15. ASSUME call.key # "none"  PROVE [tag |-> PgTag(e, call), ws |-> call.ws] \in e.keys
  <2>1. PgTag(e, call) = [dom |-> call.kind, key |-> call.key, at |-> Lifetimes(e, call.ws)]
    BY <1>0, <1>3, <1>15, TagOfCall
  <2>2. PgTag(e, call) = tag  BY <2>1, <1>7, <1>8, <1>10, <1>15
  <2> QED BY <2>2, <1>3, <1>15
<1> QED BY <1>3, <1>6, <1>14, <1>15

-----------------------------------------------------------------------------
(* What else happens to a database.                                         *)

\* The log, the records and the lifetimes are the same.
SameLives(db, e) ==
  /\ LogOf(e) = LogOf(db) /\ e.keys = db.keys
  /\ \A t \in PgTables : /\ e.tab[t].drop = db.tab[t].drop
                         /\ db.tab[t].active => e.tab[t].active

LEMMA SameLivesSound ==
  ASSUME NEW db, PgSound(db), NEW e, SameLives(db, e), PgShape(e), DbVectors(e), DbDeclared(e)
  PROVE  PgSound(e)
<1>0. PgShape(db) /\ DbRecords(db) /\ DbTags(db) /\ DbOneCommit(db)  BY DEF PgSound
<1>1. LogOf(e) = LogOf(db) /\ e.keys = db.keys  BY DEF SameLives
<1>2. \A ws \in Seq(PgWriteType) : Lifetimes(e, ws) = Lifetimes(db, ws)
  <2> TAKE ws \in Seq(PgWriteType)
  <2>1. \A i \in 1..Len(ws) : e.tab[ws[i].tab].drop = db.tab[ws[i].tab].drop
    <3> TAKE i \in 1..Len(ws)
    <3>1. ws[i] \in PgWriteType  OBVIOUS
    <3> QED BY <3>1 DEF PgWriteType, SameLives
  <2> QED BY <2>1 DEF Lifetimes
<1>3. \A k \in db.keys : k.ws \in Seq(PgWriteType)  BY <1>0 DEF PgShape, PgKeyType
<1>4. DbRecords(e)  BY <1>0, <1>1, <1>2, <1>3 DEF DbRecords
<1>5. e.tab["t"].drop = db.tab["t"].drop /\ (db.tab["t"].active => e.tab["t"].active)
  BY DEF SameLives, PgTables
<1>6. DbTags(e)  BY <1>0, <1>1, <1>5 DEF DbTags
<1>7. DbOneCommit(e)  BY <1>0, <1>1 DEF DbOneCommit
<1> QED BY <1>4, <1>6, <1>7 DEF PgSound

\* The fields a database keeps when its tables, or another field the properties do
\* not speak of, change.
Kept(db, e) ==
  /\ e = [f \in PgDbFields |-> e[f]]
  /\ {e.gen, e.head, e.commit, e.cur} \subseteq Nat
  /\ e.changes = db.changes /\ e.keys = db.keys

LEMMA KeptShape ==
  ASSUME NEW db, PgShape(db), NEW e, Kept(db, e), e.tab \in [PgTables -> PgTableType],
         \A t \in PgTables : IsFiniteSet(e.tab[t].rows)
  PROVE  PgShape(e) /\ LogOf(e) = LogOf(db) /\ e.keys = db.keys
<1>1. LogOf(e) = LogOf(db)  BY DEF LogOf, Kept
<1> QED BY <1>1 DEF PgShape, Kept

LEMMA KeptTables ==
  ASSUME NEW db, PgSound(db), NEW e, Kept(db, e), e.tab = db.tab
  PROVE  PgSound(e) /\ LogOf(e) = LogOf(db)
<1>0. PgShape(db) /\ DbVectors(db) /\ DbDeclared(db)  BY DEF PgSound
<1>1. e.tab \in [PgTables -> PgTableType] /\ \A t \in PgTables : IsFiniteSet(e.tab[t].rows)
  BY <1>0 DEF PgShape
<1>2. PgShape(e) /\ LogOf(e) = LogOf(db) /\ e.keys = db.keys  BY <1>0, <1>1, KeptShape
<1>3. DbVectors(e) /\ DbDeclared(e)  BY <1>0 DEF DbVectors, DbDeclared
<1>4. SameLives(db, e)  BY <1>2 DEF SameLives
<1> QED BY <1>2, <1>3, <1>4, SameLivesSound

\* The commit, the vacuum of stages, a vector staged, a namespace made again.
LEMMA PublishSound ==
  ASSUME NEW db, PgSound(db), NEW e, e = [db EXCEPT !.cur = 0]
  PROVE  PgSound(e) /\ e.gen = db.gen /\ e.tab = db.tab /\ LogOf(e) = LogOf(db)
<1>0. PgShape(db)  BY DEF PgSound
<1>1. Kept(db, e) /\ e.tab = db.tab /\ e.gen = db.gen
  BY <1>0 DEF Kept, PgShape, PgDbFields
<1> QED BY <1>1, KeptTables

LEMMA StageSound ==
  ASSUME NEW db, PgSound(db), NEW s, NEW e, e = [db EXCEPT !.stage = s]
  PROVE  PgSound(e) /\ e.gen = db.gen /\ e.tab = db.tab /\ LogOf(e) = LogOf(db)
<1>0. PgShape(db)  BY DEF PgSound
<1>1. Kept(db, e) /\ e.tab = db.tab /\ e.gen = db.gen
  BY <1>0 DEF Kept, PgShape, PgDbFields
<1> QED BY <1>1, KeptTables

LEMMA GenSound ==
  ASSUME NEW db, PgSound(db), NEW g \in Nat, NEW e, e = [db EXCEPT !.gen = g]
  PROVE  PgSound(e) /\ e.gen = g /\ e.tab = db.tab /\ LogOf(e) = LogOf(db)
<1>0. PgShape(db)  BY DEF PgSound
<1>1. Kept(db, e) /\ e.tab = db.tab /\ e.gen = g
  BY <1>0 DEF Kept, PgShape, PgDbFields
<1> QED BY <1>1, KeptTables

\* A transaction that is rolled back.
LEMMA RollbackSound ==
  ASSUME NEW db, PgSound(db), NEW tx, tx.tab \in [PgTables -> PgTableType],
         NEW e, e = rollbackContext(db, tx)
  PROVE  /\ PgSound(e) /\ e.gen = db.gen /\ LogOf(e) = LogOf(db)
         /\ \A t \in PgTables : /\ e.tab[t].rows = db.tab[t].rows /\ e.tab[t].cons = db.tab[t].cons
                                /\ e.tab[t].active = db.tab[t].active
<1>0. PgShape(db) /\ DbVectors(db) /\ DbDeclared(db)  BY DEF PgSound
<1> PICK tab : tab = [t \in PgTables |->
     IF db.tab[t].drop = tx.tab[t].drop /\ db.tab[t].active
     THEN [db.tab[t] EXCEPT !.seq = tx.tab[t].seq] ELSE db.tab[t]]
  OBVIOUS
<1>1. e = [db EXCEPT !.tab = tab]  BY DEF rollbackContext
<1>2. Kept(db, e) /\ e.tab = tab /\ e.gen = db.gen
  BY <1>0, <1>1 DEF Kept, PgShape, PgDbFields
<1>3. \A t \in PgTables :
        /\ tab[t] \in PgTableType /\ tab[t].rows = db.tab[t].rows /\ tab[t].cons = db.tab[t].cons
        /\ tab[t].active = db.tab[t].active /\ tab[t].drop = db.tab[t].drop
        /\ tab[t].vec = db.tab[t].vec
  <2> TAKE t \in PgTables
  <2>1. db.tab[t] \in PgTableType /\ tx.tab[t] \in PgTableType  BY <1>0 DEF PgShape
  <2>2. CASE db.tab[t].drop = tx.tab[t].drop /\ db.tab[t].active
    <3>1. tab[t] = [db.tab[t] EXCEPT !.seq = tx.tab[t].seq]  BY <2>2
    <3> QED BY <2>1, <3>1 DEF PgTableType
  <2>3. CASE ~(db.tab[t].drop = tx.tab[t].drop /\ db.tab[t].active)
    <3>1. tab[t] = db.tab[t]  BY <2>3
    <3> QED BY <2>1, <3>1
  <2> QED BY <2>2, <2>3
<1>4. tab \in [PgTables -> PgTableType]  BY <1>3
<1>5. PgShape(e) /\ LogOf(e) = LogOf(db) /\ e.keys = db.keys
  <2>1. \A t \in PgTables : IsFiniteSet(e.tab[t].rows)  BY <1>0, <1>2, <1>3 DEF PgShape
  <2> QED BY <2>1, <1>0, <1>2, <1>4, KeptShape
<1>6. SameLives(db, e)  BY <1>2, <1>3, <1>5 DEF SameLives
<1>7. DbVectors(e)  BY <1>0, <1>2, <1>3 DEF DbVectors
<1>8. DbDeclared(e)  BY <1>0, <1>2, <1>3 DEF DbDeclared, PgTables
<1> QED BY <1>2, <1>3, <1>5, <1>6, <1>7, <1>8, SameLivesSound

\* A table is dropped: its lifetime ends, and with it the records of batches
\* and imports that wrote to it.
DropTable(db, t, e) ==
  e = [db EXCEPT !.tab[t] = droppedTable(@), !.stage = {s \in @ : s.tab # t}, !.keys = keysLeft(@, t)]

LEMMA DropFields ==
  ASSUME NEW db, PgShape(db), NEW t \in PgTables, NEW e, DropTable(db, t, e)
  PROVE  /\ PgShape(e) /\ e.gen = db.gen /\ LogOf(e) = LogOf(db)
         /\ \A u \in PgTables \ {t} : e.tab[u] = db.tab[u]
         /\ e.keys = keysLeft(db.keys, t)
         /\ ~e.tab[t].active /\ e.tab[t].drop = db.tab[t].drop + 1 /\ e.tab[t].rows = {}
         /\ e.tab[t].cons = db.tab[t].cons
<1> PICK n : n = droppedTable(db.tab[t])  OBVIOUS
<1>1. /\ n \in PgTableType /\ ~n.active /\ n.drop = db.tab[t].drop + 1 /\ n.rows = {}
      /\ n.cons = db.tab[t].cons
  <2> PICK o : o = db.tab[t]  OBVIOUS
  <2>1. o \in PgTableType  BY DEF PgShape
  <2> PICK dr \in Nat : dr = o.drop + 1  BY <2>1 DEF PgTableType
  <2>2. n = [o EXCEPT !.active = FALSE, !.drop = dr, !.ver = 0, !.seq = 0,
                      !.vec = FALSE, !.space = FALSE, !.rows = {}]
    BY DEF droppedTable
  <2>3. n \in PgTableType
    <3> PICK no : no = FALSE  OBVIOUS
    <3> PICK none : none = {}  OBVIOUS
    <3>1. no \in BOOLEAN /\ none \in SUBSET PgRowType  OBVIOUS
    <3>2. n = [o EXCEPT !.active = no, !.drop = dr, !.ver = 0, !.seq = 0,
                        !.vec = no, !.space = no, !.rows = none]
      BY <2>2
    <3> QED BY ONLY <2>1, <3>1, <3>2 DEF PgTableType
  <2>4. n.active = FALSE /\ n.drop = dr /\ n.rows = {} /\ n.cons = o.cons
    BY <2>1, <2>2 DEF PgTableType
  <2> QED BY <2>3, <2>4
<1> PICK s : s = {x \in db.stage : x.tab # t}  OBVIOUS
<1> PICK ks : ks = keysLeft(db.keys, t)  OBVIOUS
<1>2. e = [db EXCEPT !.tab[t] = n, !.stage = s, !.keys = ks]  BY DEF DropTable
<1>3. /\ e = [f \in PgDbFields |-> e[f]] /\ e.gen = db.gen /\ e.head = db.head
      /\ e.commit = db.commit /\ e.cur = db.cur /\ e.changes = db.changes
      /\ e.keys = ks /\ e.tab = [db.tab EXCEPT ![t] = n]
  BY <1>2 DEF PgShape, PgDbFields
<1>4. LogOf(e) = LogOf(db)  BY <1>3 DEF LogOf
<1>5. ks \subseteq db.keys  BY DEF keysLeft, purgeBatchRecordsForTable
<1>6. /\ e.tab \in [PgTables -> PgTableType] /\ e.tab[t] = n
      /\ \A u \in PgTables \ {t} : e.tab[u] = db.tab[u]
  BY <1>1, <1>3 DEF PgShape
<1>7. \A u \in PgTables : IsFiniteSet(e.tab[u].rows)
  BY <1>1, <1>6, FS_EmptySet DEF PgShape
<1>8. PgShape(e)  BY <1>3, <1>4, <1>5, <1>6, <1>7 DEF PgShape
<1> QED BY <1>1, <1>3, <1>4, <1>6, <1>8

LEMMA DropSound ==
  ASSUME NEW db, PgSound(db), NEW t \in PgTables, db.tab[t].active, ~referencing(db, t),
         NEW e, DropTable(db, t, e)
  PROVE  PgSound(e) /\ e.gen = db.gen /\ LogOf(e) = LogOf(db)
<1>0. PgShape(db) /\ DbVectors(db) /\ DbDeclared(db) /\ DbRecords(db) /\ DbTags(db)
      /\ DbOneCommit(db)
  BY DEF PgSound
<1>1. /\ PgShape(e) /\ e.gen = db.gen /\ LogOf(e) = LogOf(db)
      /\ \A u \in PgTables \ {t} : e.tab[u] = db.tab[u]
      /\ e.keys = keysLeft(db.keys, t)
      /\ ~e.tab[t].active /\ e.tab[t].drop = db.tab[t].drop + 1 /\ e.tab[t].rows = {}
      /\ e.tab[t].cons = db.tab[t].cons
  BY <1>0, DropFields
<1>2. DbVectors(e)  BY <1>0, <1>1 DEF DbVectors
<1>3. DbDeclared(e)  BY <1>0, <1>1 DEF DbDeclared, PgTables
<1>4. ASSUME NEW k \in e.keys
      PROVE  /\ k \in db.keys /\ (k.tag.dom = "batch" => \A i \in 1..Len(k.ws) : k.ws[i].tab # t)
  BY <1>1 DEF keysLeft, purgeBatchRecordsForTable
<1>5. DbRecords(e)
  <2> SUFFICES ASSUME NEW k \in e.keys, k.tag.dom = "batch"
               PROVE  Lifetimes(e, k.ws) = Lifetimes(db, k.ws)
    BY <1>0, <1>1, <1>4 DEF DbRecords
  <2>1. k.ws \in Seq(PgWriteType)  BY <1>0, <1>4 DEF PgShape, PgKeyType
  <2> PICK ws : ws = k.ws  OBVIOUS
  <2>2. \A i \in 1..Len(ws) : e.tab[ws[i].tab].drop = db.tab[ws[i].tab].drop
    <3> TAKE i \in 1..Len(ws)
    <3>1. ws[i] \in PgWriteType /\ ws[i].tab # t  BY <2>1, <1>4
    <3> QED BY <3>1, <1>1 DEF PgWriteType
  <2> QED BY <2>2 DEF Lifetimes
<1>6. db.tab["t"].drop \in Nat  BY <1>0 DEF PgShape, PgTables, PgTableType
<1>7. DbTags(e)
  <2> SUFFICES ASSUME NEW a \in LogOf(db), a.key.dom # "none"
               PROVE  /\ a.key.at # <<>>
                      /\ Life(a.key) <= e.tab["t"].drop
                      /\ ~e.tab["t"].active => Life(a.key) # e.tab["t"].drop
                      /\ Life(a.key) = e.tab["t"].drop => \E k \in e.keys : k.tag = a.key
    BY <1>1 DEF DbTags
  <2>0. /\ a.key.at # <<>> /\ Life(a.key) <= db.tab["t"].drop
        /\ ~db.tab["t"].active => Life(a.key) # db.tab["t"].drop
        /\ Life(a.key) = db.tab["t"].drop => \E k \in db.keys : k.tag = a.key
    BY <1>0 DEF DbTags
  <2>1. Life(a.key) \in Int
    <3>1. a.key \in PgTagType  BY <1>0 DEF PgShape
    <3> PICK at : at = a.key.at  OBVIOUS
    <3>2. at \in Seq(Nat) /\ at # <<>>  BY <2>0, <3>1 DEF PgTagType
    <3>3. at[Len(at)] \in Nat  BY <3>2
    <3> QED BY <3>3 DEF Life
  <2>2. CASE t = "t"
    BY <2>0, <2>1, <2>2, <1>1, <1>6
  <2>3. CASE t = "p"
    <3>1. e.tab["t"] = db.tab["t"]  BY <2>3, <1>1 DEF PgTables
    <3>2. ASSUME Life(a.key) = db.tab["t"].drop  PROVE \E k \in e.keys : k.tag = a.key
      <4>1. PICK k \in db.keys : k.tag = a.key  BY <2>0, <3>2
      <4>2. db.tab["t"].active  BY <2>0, <3>2
      <4>3. "refs" \notin pgScene
        BY <1>0, <2>3, <4>2 DEF DbDeclared, referencing
      <4>4. KeyedWrites(k.tag.dom, k.ws)  BY <1>0, <4>1 DEF DbRecords
      <4>5. k.tag.dom = "batch" => \A i \in 1..Len(k.ws) : k.ws[i].tab # "p"
        <5> SUFFICES ASSUME k.tag.dom = "batch", NEW i \in 1..Len(k.ws)
                     PROVE  k.ws[i].tab # "p"
          OBVIOUS
        <5> PICK m : m = Len(k.ws)  OBVIOUS
        <5>0. m = 2 /\ i \in 1..m  BY <4>4 DEF KeyedWrites
        <5>1. i = 1 \/ i = 2  BY ONLY <5>0
        <5> QED BY <5>1, <4>3, <4>4 DEF KeyedWrites
      <4>6. k.tag.dom = "import" => k.ws[1].tab # "p"  BY <4>4 DEF KeyedWrites
      <4>7. k \in keysLeft(db.keys, t)
        BY <2>3, <4>5, <4>6 DEF keysLeft, purgeBatchRecordsForTable
      <4> QED BY <4>1, <4>7, <1>1
    <3> QED BY <2>0, <3>1, <3>2
  <2> QED BY <2>2, <2>3 DEF PgTables
<1>8. DbOneCommit(e)  BY <1>0, <1>1 DEF DbOneCommit
<1> QED BY <1>1, <1>2, <1>3, <1>5, <1>7, <1>8 DEF PgSound

\* A table is created where there is none.
LEMMA CreateSound ==
  ASSUME NEW db, PgSound(db), NEW t \in PgTables, NEW n,
         n = tableDDL(db.tab[t].drop, IF t = "t" THEN Constrained ELSE {}),
         NEW e, e = putTable(db, t, n)
  PROVE  /\ PgSound(e) /\ e.gen = db.gen /\ LogOf(e) = LogOf(db)
         /\ e.tab[t] = n /\ \A u \in PgTables \ {t} : e.tab[u] = db.tab[u]
<1>0. PgShape(db) /\ DbVectors(db) /\ DbDeclared(db)  BY DEF PgSound
<1>1. /\ n \in PgTableType /\ n.rows = {} /\ n.active /\ n.drop = db.tab[t].drop
      /\ n.cons = IF t = "t" THEN Constrained ELSE {}
  <2> PICK c : c = IF t = "t" THEN Constrained ELSE {}  OBVIOUS
  <2>1. c \in SUBSET {"unique", "foreign"}  BY DEF Constrained
  <2>2. db.tab[t].drop \in Nat  BY <1>0 DEF PgShape, PgTableType
  <2>3. n = tableDDL(db.tab[t].drop, c)  OBVIOUS
  <2> QED BY <2>1, <2>2, <2>3 DEF tableDDL, PgTableType
<1>2. IsFiniteSet(n.rows)  BY <1>1, FS_EmptySet
<1>3. /\ PgShape(e) /\ e.tab[t] = n /\ \A u \in PgTables \ {t} : e.tab[u] = db.tab[u]
      /\ \A f \in PgDbFields \ {"tab"} : e[f] = db[f]
      /\ LogOf(e) = LogOf(db)
  BY <1>0, <1>1, <1>2, Put
<1>4. e.gen = db.gen /\ e.keys = db.keys  BY <1>3 DEF PgDbFields
<1>5. SameLives(db, e)  BY <1>1, <1>3, <1>4 DEF SameLives
<1>6. DbVectors(e)  BY <1>0, <1>1, <1>3 DEF DbVectors
<1>7. DbDeclared(e)  BY <1>0, <1>1, <1>3 DEF DbDeclared, Constrained, PgTables
<1> QED BY <1>3, <1>4, <1>5, <1>6, <1>7, SameLivesSound

\* A database with nothing in it.
LEMMA EmptySound ==
  ASSUME NEW g \in Nat, NEW tab \in [PgTables -> PgTableType],
         \A t \in PgTables : tab[t].rows = {},
         NEW e, e = [gen |-> g, head |-> 0, commit |-> 0, cur |-> 0, changes |-> <<>>,
                     tab |-> tab, keys |-> {}, stage |-> {}],
         DbDeclared(e)
  PROVE  PgSound(e) /\ e.gen = g /\ LogOf(e) = {} /\ e.tab = tab
<1>1. /\ e.gen = g /\ e.head = 0 /\ e.commit = 0 /\ e.cur = 0 /\ e.changes = <<>>
      /\ e.tab = tab /\ e.keys = {} /\ e = [f \in PgDbFields |-> e[f]]
  BY DEF PgDbFields
<1>2. LogOf(e) = {} /\ e.changes \in Seq({})
  <2>1. Len(<<>>) = 0 /\ <<>> \in Seq({})  OBVIOUS
  <2> QED BY <1>1, <2>1 DEF LogOf
<1>3. \A t \in PgTables : IsFiniteSet(tab[t].rows)  BY FS_EmptySet
<1>4. PgShape(e)
  <2>1. {e.gen, e.head, e.commit, e.cur} \subseteq Nat  BY <1>1
  <2>2. e.changes \in Seq(LogOf(e)) /\ \A a \in LogOf(e) : a.key \in PgTagType  BY <1>2
  <2>3. e.keys \subseteq PgKeyType  BY <1>1
  <2>4. e.tab \in [PgTables -> PgTableType] /\ \A t \in PgTables : IsFiniteSet(e.tab[t].rows)
    BY <1>1, <1>3
  <2>5. e = [f \in PgDbFields |-> e[f]]  BY <1>1
  <2> QED BY <2>1, <2>2, <2>3, <2>4, <2>5 DEF PgShape
<1>5. DbVectors(e)  BY <1>1 DEF DbVectors
<1>6. DbRecords(e) /\ DbTags(e) /\ DbOneCommit(e)
  BY <1>1, <1>2 DEF DbRecords, DbTags, DbOneCommit
<1> QED BY <1>1, <1>2, <1>4, <1>5, <1>6 DEF PgSound

LEMMA PutTwice ==
  ASSUME NEW db, PgShape(db), NEW t \in PgTables, NEW m, NEW n
  PROVE  /\ putTable(putTable(db, t, m), t, n) = putTable(db, t, n)
         /\ putTable(db, t, m).tab[t] = m
<1> PICK b : b = db.tab  OBVIOUS
<1>1. b = [u \in PgTables |-> b[u]]  BY DEF PgShape
<1>2. [[b EXCEPT ![t] = m] EXCEPT ![t] = n] = [b EXCEPT ![t] = n]  BY <1>1
<1>3. [b EXCEPT ![t] = m][t] = m  BY <1>1
<1>4. \A x : putTable(db, t, x) = [db EXCEPT !.tab = [b EXCEPT ![t] = x]]  BY DEF putTable
<1>5. \A x, y : [[db EXCEPT !.tab = x] EXCEPT !.tab = y] = [db EXCEPT !.tab = y]
              /\ [db EXCEPT !.tab = x].tab = x
  BY DEF PgShape, PgDbFields
<1> PICK q : q = putTable(db, t, m)  OBVIOUS
<1>6. q.tab = [b EXCEPT ![t] = m] /\ q = [db EXCEPT !.tab = [b EXCEPT ![t] = m]]
  BY <1>4, <1>5
<1>7. putTable(q, t, n) = [q EXCEPT !.tab = [q.tab EXCEPT ![t] = n]]  BY DEF putTable
<1>8. putTable(q, t, n) = [q EXCEPT !.tab = [b EXCEPT ![t] = n]]  BY <1>2, <1>6, <1>7
<1>9. putTable(q, t, n) = [db EXCEPT !.tab = [b EXCEPT ![t] = n]]  BY <1>5, <1>6, <1>8
<1> QED BY <1>3, <1>4, <1>6, <1>9

\* What a migration makes of table t: every row stays, with or without its vector.
Remade(o, n) ==
  \E g : /\ n.rows = {g[x] : x \in o.rows}
         /\ \A x \in o.rows : g[x].text = x.text /\ g[x].ref = x.ref

Migrated(o, n, change) ==
  /\ n \in PgTableType /\ n.active = o.active /\ n.drop = o.drop /\ IsFiniteSet(n.rows)
  /\ n.cons = IF change = "unique" THEN o.cons \cup {"unique"} ELSE o.cons
  /\ \A r \in n.rows : r.vec = IF n.vec THEN r.text ELSE "none"
  /\ Remade(o, n)

Remaking(o, g, R) ==
  /\ o \in PgTableType /\ IsFiniteSet(o.rows) /\ g = [x \in o.rows |-> g[x]]
  /\ \A x \in o.rows : g[x] \in PgRowType /\ g[x].text = x.text /\ g[x].ref = x.ref
  /\ R = {g[x] : x \in o.rows}

LEMMA RowsRemade ==
  ASSUME NEW o, NEW g, NEW R, Remaking(o, g, R)
  PROVE  IsFiniteSet(R) /\ R \in SUBSET PgRowType /\ \A n : n.rows = R => Remade(o, n)
<1> USE DEF Remaking
<1>1. g \in Surjection(o.rows, R)  BY DEF Surjection
<1>2. IsFiniteSet(R)  BY <1>1, FS_Surjection
<1>5. \A n : n.rows = R => Remade(o, n)  BY DEF Remade
<1> QED BY <1>2, <1>5

\* Every row x becomes one of the same text and reference, with vec[x] for a vector.
Vectors(o, vec, R) ==
  /\ o \in PgTableType /\ IsFiniteSet(o.rows)
  /\ vec \in [o.rows -> PgTexts \cup {"none"}]
  /\ R = {[x EXCEPT !.vec = vec[x]] : x \in o.rows}

LEMMA SetVectors ==
  ASSUME NEW o, NEW vec, NEW R, Vectors(o, vec, R)
  PROVE  /\ IsFiniteSet(R) /\ R \in SUBSET PgRowType /\ \A n : n.rows = R => Remade(o, n)
         /\ \A r \in R : \E x \in o.rows : r.text = x.text /\ r.vec = vec[x]
<1> USE DEF Vectors
<1> PICK g : g = [x \in o.rows |-> [x EXCEPT !.vec = vec[x]]]  OBVIOUS
<1>1. \A x \in o.rows : x \in PgRowType  BY DEF PgTableType
<1>2. \A x \in o.rows : g[x] \in PgRowType /\ g[x].text = x.text /\ g[x].ref = x.ref
                        /\ g[x].vec = vec[x]
  BY <1>1 DEF PgRowType
<1>3. R = {g[x] : x \in o.rows} /\ g = [x \in o.rows |-> g[x]]  OBVIOUS
<1>4. \A r \in R : \E x \in o.rows : r.text = x.text /\ r.vec = vec[x]
  <2> TAKE r \in R
  <2>1. PICK x \in o.rows : r = g[x]  BY <1>3
  <2> QED BY <2>1, <1>2
<1>5. IsFiniteSet(R) /\ R \in SUBSET PgRowType /\ \A n : n.rows = R => Remade(o, n)
  <2>1. Remaking(o, g, R)  BY <1>2, <1>3 DEF Remaking
  <2> QED BY ONLY <2>1, RowsRemade
<1> QED BY <1>4, <1>5

LEMMA RowsUnchanged ==
  ASSUME NEW o, NEW n, n.rows = o.rows
  PROVE  Remade(o, n)
<1> PICK g : g = [x \in o.rows |-> x]  OBVIOUS
<1>1. n.rows = {g[x] : x \in o.rows}  OBVIOUS
<1>2. \A x \in o.rows : g[x].text = x.text /\ g[x].ref = x.ref  OBVIOUS
<1> QED BY <1>1, <1>2 DEF Remade

\* The table the plan makes.
PlannedTable(t, change) ==
  CASE change = "on"  -> [t EXCEPT !.vec = TRUE, !.space = TRUE, !.ver = @ + 1]
    [] change = "off" -> [t EXCEPT !.vec = FALSE, !.ver = @ + 1,
                            !.rows = {[r EXCEPT !.vec = "none"] : r \in @}]
    [] OTHER          -> [t EXCEPT !.cons = @ \cup {"unique"}, !.ver = @ + 1]

LEMMA PlansTable ==
  ASSUME NEW db, NEW change, NEW plan, plan = pgPlan(db, change),
         NEW n, n = PlannedTable(db.tab["t"], change)
  PROVE  /\ plan.db = putTable(db, "t", n)
         /\ plan.embedding <=> (change = "on" /\ ~db.tab["t"].vec)
         /\ plan.ok <=> (change = "unique" => /\ "unique" \notin db.tab["t"].cons
                                              /\ checkConstraints(plan.db, "t", TRUE))
<1> PICK next : next = putTable(db, "t", n)  OBVIOUS
<1> PICK em : em = (change = "on" /\ ~db.tab["t"].vec)  OBVIOUS
<1> PICK ok : ok = (change = "unique" => /\ "unique" \notin db.tab["t"].cons
                                         /\ checkConstraints(next, "t", TRUE))
  OBVIOUS
<1>1. plan = [ok |-> ok, embedding |-> em, db |-> next]
  BY DEF pgPlan, PlannedTable
<1>2. plan.ok = ok /\ plan.embedding = em /\ plan.db = next  BY <1>1
<1> QED BY <1>2

\* Turning the embedding on, off, or declaring the texts unique.
LEMMA TurnsOff ==
  ASSUME NEW o \in PgTableType, IsFiniteSet(o.rows), NEW n, n = PlannedTable(o, "off")
  PROVE  Migrated(o, n, "off")
<1> PICK vec : vec = [x \in o.rows |-> "none"]  OBVIOUS
<1> PICK R : R = {[x EXCEPT !.vec = vec[x]] : x \in o.rows}  OBVIOUS
<1> PICK no : no = FALSE  OBVIOUS
<1> PICK v \in Nat : v = o.ver + 1  BY DEF PgTableType
<1>1. vec \in [o.rows -> PgTexts \cup {"none"}]  OBVIOUS
<1>2. R = {[x EXCEPT !.vec = "none"] : x \in o.rows}  OBVIOUS
<1>3. /\ IsFiniteSet(R) /\ R \in SUBSET PgRowType /\ \A m : m.rows = R => Remade(o, m)
      /\ \A r \in R : \E x \in o.rows : r.text = x.text /\ r.vec = vec[x]
  <2>1. Vectors(o, vec, R)  BY <1>1 DEF Vectors
  <2> QED BY ONLY <2>1, SetVectors
<1>4. \A r \in R : r.vec = "none"  BY <1>3
<1>5. n = [o EXCEPT !.vec = no, !.ver = v, !.rows = R]  BY <1>2 DEF PlannedTable
<1>6. n \in PgTableType
  BY ONLY <1>3, <1>5, o \in PgTableType, v \in Nat, no = FALSE DEF PgTableType
<1>7. n.active = o.active /\ n.drop = o.drop /\ n.rows = R /\ n.cons = o.cons /\ n.vec = no
  BY <1>5 DEF PgTableType
<1> QED BY <1>3, <1>4, <1>6, <1>7 DEF Migrated

LEMMA DeclaresUnique ==
  ASSUME NEW o \in PgTableType, IsFiniteSet(o.rows), NEW n, n = PlannedTable(o, "unique"),
         \A r \in o.rows : r.vec = IF o.vec THEN r.text ELSE "none"
  PROVE  Migrated(o, n, "unique")
<1> PICK v \in Nat : v = o.ver + 1  BY DEF PgTableType
<1> PICK c : c = o.cons \cup {"unique"}  OBVIOUS
<1>1. n = [o EXCEPT !.cons = c, !.ver = v]  BY DEF PlannedTable
<1>2. c \in SUBSET {"unique", "foreign"}  BY DEF PgTableType
<1>3. n \in PgTableType /\ n.active = o.active /\ n.drop = o.drop /\ n.rows = o.rows
      /\ n.cons = c /\ n.vec = o.vec
  BY ONLY <1>1, <1>2, o \in PgTableType, v \in Nat DEF PgTableType
<1>4. Remade(o, n)  BY <1>3, RowsUnchanged
<1> QED BY <1>3, <1>4 DEF Migrated

\* A table that is vectorized already.
LEMMA StaysOn ==
  ASSUME NEW o \in PgTableType, IsFiniteSet(o.rows), NEW n, n = PlannedTable(o, "on"),
         o.vec, \A r \in o.rows : r.vec = IF o.vec THEN r.text ELSE "none"
  PROVE  Migrated(o, n, "on")
<1> PICK v \in Nat : v = o.ver + 1  BY DEF PgTableType
<1> PICK yes : yes = TRUE  OBVIOUS
<1>1. n = [o EXCEPT !.vec = yes, !.space = yes, !.ver = v]  BY DEF PlannedTable
<1>3. n \in PgTableType /\ n.active = o.active /\ n.drop = o.drop /\ n.rows = o.rows
      /\ n.cons = o.cons /\ n.vec = yes
  BY ONLY <1>1, o \in PgTableType, v \in Nat, yes = TRUE DEF PgTableType
<1>4. Remade(o, n)  BY <1>3, RowsUnchanged
<1> QED BY <1>3, <1>4 DEF Migrated

\* The vectors a migration staged, when there is one of every row.
LEMMA TurnsOn ==
  ASSUME NEW o \in PgTableType, IsFiniteSet(o.rows), NEW m, m = PlannedTable(o, "on"),
         NEW n, n = [m EXCEPT !.rows = {[r EXCEPT !.vec = r.text] : r \in @}]
  PROVE  Migrated(o, n, "on") /\ m.rows = o.rows
<1> PICK vec : vec = [x \in o.rows |-> x.text]  OBVIOUS
<1> PICK R : R = {[x EXCEPT !.vec = vec[x]] : x \in o.rows}  OBVIOUS
<1> PICK yes : yes = TRUE  OBVIOUS
<1> PICK v \in Nat : v = o.ver + 1  BY DEF PgTableType
<1>1. vec \in [o.rows -> PgTexts \cup {"none"}]  BY DEF PgTableType, PgRowType
<1>2. R = {[x EXCEPT !.vec = x.text] : x \in o.rows}  OBVIOUS
<1>3. /\ IsFiniteSet(R) /\ R \in SUBSET PgRowType /\ \A q : q.rows = R => Remade(o, q)
      /\ \A r \in R : \E x \in o.rows : r.text = x.text /\ r.vec = vec[x]
  <2>1. Vectors(o, vec, R)  BY <1>1 DEF Vectors
  <2> QED BY ONLY <2>1, SetVectors
<1>4. \A r \in R : r.vec = r.text  BY <1>3
<1>5. m = [o EXCEPT !.vec = yes, !.space = yes, !.ver = v]  BY DEF PlannedTable
<1>6. m \in PgTableType /\ m.active = o.active /\ m.drop = o.drop /\ m.rows = o.rows
      /\ m.cons = o.cons /\ m.vec = yes
  BY ONLY <1>5, o \in PgTableType, v \in Nat, yes = TRUE DEF PgTableType
<1>7. n = [m EXCEPT !.rows = R]  BY <1>2, <1>6
<1>8. n \in PgTableType /\ n.active = o.active /\ n.drop = o.drop /\ n.rows = R
      /\ n.cons = o.cons /\ n.vec = yes
  BY ONLY <1>3, <1>6, <1>7 DEF PgTableType
<1> QED BY <1>3, <1>4, <1>6, <1>8 DEF Migrated

\* What the last transaction of a migration makes of a database.
MigrationOut(db, change) ==
  LET plan == pgPlan(db, change)
  IN IF plan.embedding THEN applyEmbeddings(plan.db) ELSE [left |-> FALSE, db |-> plan.db]

LEMMA MigratesTable ==
  ASSUME NEW db, PgShape(db), DbVectors(db), NEW change \in {"on", "off", "unique"},
         NEW out, out = MigrationOut(db, change), ~out.left
  PROVE  \E n : Migrated(db.tab["t"], n, change) /\ out.db = putTable(db, "t", n)
<1> PICK o : o = db.tab["t"]  OBVIOUS
<1> PICK plan : plan = pgPlan(db, change)  OBVIOUS
<1> PICK m : m = PlannedTable(o, change)  OBVIOUS
<1>0. o \in PgTableType /\ IsFiniteSet(o.rows) /\ "t" \in PgTables
      /\ \A r \in o.rows : r.vec = IF o.vec THEN r.text ELSE "none"
  BY DEF PgShape, PgTables, DbVectors
<1>1. plan.db = putTable(db, "t", m) /\ (plan.embedding <=> change = "on" /\ ~o.vec)
  <2>1. plan = pgPlan(db, change) /\ m = PlannedTable(db.tab["t"], change)  OBVIOUS
  <2>2. /\ plan.db = putTable(db, "t", m)
        /\ plan.embedding <=> (change = "on" /\ ~db.tab["t"].vec)
    BY ONLY <2>1, PlansTable
  <2> QED BY <2>2
<1>2. out = IF plan.embedding THEN applyEmbeddings(plan.db) ELSE [left |-> FALSE, db |-> plan.db]
  BY DEF MigrationOut
<1>3. CASE ~(change = "on" /\ ~o.vec)
  <2>1. out = [left |-> FALSE, db |-> plan.db]  BY <1>1, <1>2, <1>3
  <2>2. out.db = putTable(db, "t", m)  BY <2>1, <1>1
  <2>3. Migrated(o, m, change)
    <3>1. CASE change = "on"  BY <3>1, <1>0, <1>3, StaysOn
    <3>2. CASE change = "off"  BY <3>2, <1>0, TurnsOff
    <3>3. CASE change = "unique"  BY <3>3, <1>0, DeclaresUnique
    <3> QED BY <3>1, <3>2, <3>3
  <2> QED BY <2>2, <2>3
<1>4. CASE change = "on" /\ ~o.vec
  <2> PICK q : q = plan.db  OBVIOUS
  <2>1. out = applyEmbeddings(q)  BY <1>1, <1>2, <1>4
  <2>2. q.tab["t"] = m  BY <1>0, <1>1, PutTwice
  <2> PICK staged : staged = {r \in m.rows : loadStagedVectors(q, m.drop, r)}  OBVIOUS
  <2> PICK n : n = [m EXCEPT !.rows = {[r EXCEPT !.vec = r.text] : r \in staged} \cup (@ \ staged)]
    OBVIOUS
  <2>3. out = [left |-> staged # m.rows, db |-> putTable(q, "t", n)]
    BY <2>1, <2>2 DEF applyEmbeddings
  <2>4. out.db = putTable(q, "t", n) /\ out.left = (staged # m.rows)  BY <2>3
  <2>5. staged = m.rows  BY <2>4
  <2>6. m.rows \ staged = {}  BY <2>5
  <2>7. n = [m EXCEPT !.rows = {[r EXCEPT !.vec = r.text] : r \in @}]  BY <2>5, <2>6
  <2>8. Migrated(o, n, "on")  BY <2>7, <1>0, <1>4, TurnsOn
  <2>9. out.db = putTable(db, "t", n)  BY <2>4, <1>0, <1>1, PutTwice
  <2> QED BY <2>8, <2>9, <1>4
<1> QED BY <1>3, <1>4

Migration(db, change, e) ==
  /\ PgSound(db) /\ change \in {"on", "off", "unique"}
  /\ change = "unique" => "unique" \in pgScene
  /\ ~MigrationOut(db, change).left
  /\ \E s : e = [MigrationOut(db, change).db EXCEPT !.stage = s]

LEMMA MigrateSound ==
  ASSUME NEW db, NEW change, NEW e, Migration(db, change, e)
  PROVE  /\ PgSound(e) /\ e.gen = db.gen /\ LogOf(e) = LogOf(db)
         /\ e.tab = MigrationOut(db, change).db.tab
<1> PICK out : out = MigrationOut(db, change)  OBVIOUS
<1> PICK s : e = [out.db EXCEPT !.stage = s]  BY DEF Migration
<1>m. /\ PgSound(db) /\ change \in {"on", "off", "unique"} /\ ~out.left
      /\ change = "unique" => "unique" \in pgScene
  BY DEF Migration
<1>0. PgShape(db) /\ DbVectors(db) /\ DbDeclared(db)  BY <1>m DEF PgSound
<1> PICK d : d = out.db  OBVIOUS
<1>1. PICK n : Migrated(db.tab["t"], n, change) /\ d = putTable(db, "t", n)
  BY <1>m, <1>0, MigratesTable
<1>2. /\ n \in PgTableType /\ IsFiniteSet(n.rows) /\ n.active = db.tab["t"].active
      /\ n.drop = db.tab["t"].drop /\ "t" \in PgTables
      /\ n.cons = IF change = "unique" THEN db.tab["t"].cons \cup {"unique"} ELSE db.tab["t"].cons
      /\ \A r \in n.rows : r.vec = IF n.vec THEN r.text ELSE "none"
  BY <1>1 DEF Migrated, PgTables
<1>3. /\ PgShape(d) /\ d.tab["t"] = n /\ \A u \in PgTables \ {"t"} : d.tab[u] = db.tab[u]
      /\ \A f \in PgDbFields \ {"tab"} : d[f] = db[f]
      /\ LogOf(d) = LogOf(db)
  BY <1>0, <1>1, <1>2, Put
<1>4. d.gen = db.gen /\ d.keys = db.keys  BY <1>3 DEF PgDbFields
<1>5. SameLives(db, d)
  <2> SUFFICES ASSUME NEW t \in PgTables
               PROVE  d.tab[t].drop = db.tab[t].drop /\ (db.tab[t].active => d.tab[t].active)
    BY <1>3, <1>4 DEF SameLives
  <2> QED BY <1>2, <1>3
<1>6. DbVectors(d)  BY <1>0, <1>2, <1>3 DEF DbVectors
<1>7. DbDeclared(d)  BY <1>m, <1>0, <1>2, <1>3 DEF DbDeclared, PgTables
<1>8. PgSound(d)  BY <1>m, <1>3, <1>5, <1>6, <1>7, SameLivesSound
<1>9. PgSound(e) /\ e.gen = d.gen /\ e.tab = d.tab /\ LogOf(e) = LogOf(d)
  <2>1. e = [d EXCEPT !.stage = s]  OBVIOUS
  <2> QED BY ONLY <1>8, <2>1, StageSound
<1> QED BY <1>3, <1>4, <1>9

-----------------------------------------------------------------------------
(* The parts of the invariant across a step.                                *)

LEMMA SceneKept ==
  ASSUME pgScene' = pgScene
  PROVE  PgMenu' = PgMenu /\ Constrained' = Constrained /\ \A db : PgSound(db) => PgSound(db)'
<1>1. PgMenu' = PgMenu  BY DEF PgMenu
<1>2. Constrained' = Constrained  BY DEF Constrained
<1>3. \A db : PgSound(db) => PgSound(db)'
  BY DEF PgSound, DbDeclared, DbRecords, KeyedWrites
<1> QED BY <1>1, <1>2, <1>3

LEMMA ClientSet ==
  ASSUME PgClientsOK, pgScene' = pgScene, NEW c \in PgClients, NEW v, PgSetClient(c, v),
         ClientOK(v, pgTx'[c]), \A d \in PgClients \ {c} : pgTx'[d] = pgTx[d]
  PROVE  PgClientsOK'
<1>1. \A d \in PgClients : pgClient'[d] = IF d = c THEN v ELSE pgClient[d]
  BY DEF PgClientsOK, PgSetClient
<1>2. pgClient' = [d \in PgClients |-> pgClient'[d]]  BY DEF PgClientsOK, PgSetClient
<1>3. \A d \in PgClients : ClientOK(pgClient'[d], pgTx'[d])
  BY <1>1 DEF PgClientsOK
<1>4. PgMenu' = PgMenu  BY SceneKept
<1>5. \A d \in PgClients : ClientOK(pgClient[d], pgTx[d])'
  BY <1>3, <1>4 DEF ClientOK
<1> QED BY <1>2, <1>5 DEF PgClientsOK

LEMMA ClientsKept ==
  ASSUME PgClientsOK, pgScene' = pgScene, pgClient' = pgClient,
         \A d \in PgClients : pgTx'[d] = pgTx[d]
  PROVE  PgClientsOK'
<1>1. PgMenu' = PgMenu  BY SceneKept
<1>2. \A d \in PgClients : ClientOK(pgClient[d], pgTx[d])'
  BY <1>1 DEF ClientOK, PgClientsOK
<1> QED BY <1>2 DEF PgClientsOK

LEMMA MigKept ==
  ASSUME PgMigOK, pgScene' = pgScene, pgMig' = pgMig, pgTx'["migrate"] = pgTx["migrate"]
  PROVE  PgMigOK'
BY DEF PgMigOK, Opened

LEMMA TxKept ==
  ASSUME PgTxOK, pgScene' = pgScene, pgDb' = pgDb, pgTx' = pgTx
  PROVE  PgTxOK'
<1>1. \A db : PgSound(db) => PgSound(db)'  BY SceneKept
<1>2. \A s \in PgSessions : Opened(s)' <=> Opened(s)  BY DEF Opened
<1>3. \A s \in PgSessions : PgSound(pgTx[s]) => PgSound(pgTx[s])'  BY <1>1
<1>4. \A s \in PgSessions : LogOf(pgDb) \subseteq LogOf(pgTx[s])
                            => (LogOf(pgDb) \subseteq LogOf(pgTx[s]))'
  OBVIOUS
<1> QED BY <1>2, <1>3, <1>4 DEF PgTxOK

LEMMA TxNone ==
  ASSUME PgTxOK, namespaceWriteSerialized, pgTx' = pgTx
  PROVE  PgTxOK'
BY DEF PgTxOK, Opened, namespaceWriteSerialized

\* The one that is open ends.
LEMMA TxClosed ==
  ASSUME PgTxOK, NEW s \in PgSessions, Opened(s), pgTx' = [pgTx EXCEPT ![s] = PgNoTx]
  PROVE  /\ PgTxOK' /\ pgTx'[s] = PgNoTx /\ \A r \in PgSessions \ {s} : pgTx'[r] = pgTx[r]
<1>1. pgTx'[s] = PgNoTx /\ \A r \in PgSessions \ {s} : pgTx'[r] = pgTx[r]  BY DEF PgTxOK
<1>2. \A r \in PgSessions : ~Opened(r)'  BY <1>1 DEF PgTxOK, Opened
<1>3. pgTx' = [r \in PgSessions |-> pgTx'[r]]  BY DEF PgTxOK
<1> QED BY <1>1, <1>2, <1>3 DEF PgTxOK

\* One opens where none was.
LEMMA TxOpens ==
  ASSUME PgTxOK, namespaceWriteSerialized, pgScene' = pgScene, pgDb' = pgDb,
         NEW s \in PgSessions, NEW e, pgTx' = [pgTx EXCEPT ![s] = e],
         PgSound(e), e.gen = pgDb.gen, pgDb.gen # 0, LogOf(pgDb) \subseteq LogOf(e)
  PROVE  /\ PgTxOK' /\ pgTx'[s] = e /\ e # PgNoTx
         /\ \A r \in PgSessions \ {s} : pgTx'[r] = pgTx[r]
<1>1. pgTx'[s] = e /\ \A r \in PgSessions \ {s} : pgTx'[r] = pgTx[r]  BY DEF PgTxOK
<1>2. PgNoTx.gen = 0  BY DEF PgNoTx
<1>3. e # PgNoTx  BY <1>2
<1>4. \A r \in PgSessions : Opened(r)' => r = s
  BY <1>1 DEF Opened, namespaceWriteSerialized
<1>5. pgTx' = [r \in PgSessions |-> pgTx'[r]]  BY DEF PgTxOK
<1>6. PgSound(pgTx[s])'  BY <1>1, SceneKept
<1>7. (LogOf(pgDb) \subseteq LogOf(pgTx[s]))'  BY <1>1
<1> QED BY <1>1, <1>3, <1>4, <1>5, <1>6, <1>7 DEF PgTxOK

\* The log grows and the generation stays.
Advances(e) == PgSound(e) /\ e.gen = pgDb.gen /\ LogOf(pgDb) \subseteq LogOf(e)

LEMMA LeftKept ==
  ASSUME PgLeftOK, pgDb'.gen = pgDb.gen, LogOf(pgDb) \subseteq LogOf(pgDb'), pgAcks' = pgAcks,
         pgLeft' \in PgLeftType, pgLeft'.drops = pgLeft.drops
  PROVE  PgLeftOK'
<1>1. PgLog' = LogOf(pgDb') /\ PgLog = LogOf(pgDb)  BY DEF PgLog, LogOf
<1>2. NextGen' = NextGen  BY DEF NextGen
<1> QED BY <1>1, <1>2 DEF PgLeftOK

LEMMA Spend ==
  ASSUME PgLeftOK, NEW what \in {"calls", "losses", "schemas", "vacuums"}, PgSpend(what)
  PROVE  pgLeft' \in PgLeftType /\ pgLeft'.drops = pgLeft.drops
BY DEF PgLeftOK, PgLeftType, PgSpend

\* A call is answered.
LEMMA Acknowledged ==
  ASSUME PgLeftOK, PgSound(pgDb), NEW db, NEW call, PgAck(db, call), pgLeft' = pgLeft,
         db.gen = pgDb.gen, pgDb.gen # 0,
         pgDb'.gen = pgDb.gen, LogOf(pgDb) \subseteq LogOf(pgDb'),
         call.key # "none" /\ HasInsert(call.ws) => \E a \in LogOf(pgDb') : a.key = PgTag(db, call)
  PROVE  PgLeftOK'
<1>1. PgLog' = LogOf(pgDb') /\ PgLog = LogOf(pgDb)  BY DEF PgLog, LogOf
<1>2. NextGen' = NextGen  BY DEF NextGen
<1>3. pgDb.gen \in Nat  BY DEF PgSound, PgShape
<1> PICK new : new = [gen |-> db.gen, tag |-> PgTag(db, call), ws |-> call.ws]  OBVIOUS
<1>4. new.gen = pgDb.gen /\ new.tag = PgTag(db, call) /\ new.ws = call.ws  OBVIOUS
<1> SUFFICES ASSUME NEW k \in pgAcks'
             PROVE  /\ k.gen \in Nat \ {0} /\ k.gen <= NextGen
                    /\ pgDb'.gen = 0 => k.gen # NextGen
                    /\ k.gen = pgDb'.gen /\ HasInsert(k.ws) => \E a \in LogOf(pgDb') : a.key = k.tag
  BY <1>1, <1>2 DEF PgLeftOK
<1>5. CASE k \in pgAcks  BY <1>5, <1>1 DEF PgLeftOK
<1>6. CASE k \notin pgAcks
  <2>1. k = new /\ call.key # "none"  BY <1>6 DEF PgAck
  <2> QED BY <2>1, <1>3, <1>4 DEF PgLeftOK
<1> QED BY <1>5, <1>6

-----------------------------------------------------------------------------
(* The steps.                                                               *)

\* A database whose tables are the ones of the DDL.
LEMMA NewTables ==
  ASSUME NEW c \in SUBSET {"unique", "foreign"}, NEW tab,
         tab = [t \in PgTables |-> tableDDL(0, IF t = "t" THEN c ELSE {})]
  PROVE  /\ tab \in [PgTables -> PgTableType] /\ \A t \in PgTables : tab[t].rows = {}
         /\ tab["t"].cons = c /\ tab["p"].cons = {}
<1>1. \A x \in SUBSET {"unique", "foreign"} :
        tableDDL(0, x) \in PgTableType /\ tableDDL(0, x).rows = {} /\ tableDDL(0, x).cons = x
  BY DEF tableDDL, PgTableType
<1>2. \A t \in PgTables : (IF t = "t" THEN c ELSE {}) \in SUBSET {"unique", "foreign"}
  OBVIOUS
<1> HIDE DEF tableDDL
<1>3. tab["t"] = tableDDL(0, c) /\ tab["p"] = tableDDL(0, {})  BY DEF PgTables
<1> QED BY <1>1, <1>2, <1>3

LEMMA InitInv == PgInit => PgInv
<1> SUFFICES ASSUME PgInit  PROVE PgInv
  OBVIOUS
<1> USE DEF PgInit
<1> PICK c : c = IF "migrate" \in pgScene THEN Constrained \ {"unique"} ELSE Constrained
  OBVIOUS
<1> PICK tab : tab = [t \in PgTables |-> tableDDL(0, IF t = "t" THEN c ELSE {})]  OBVIOUS
<1>1. /\ c \in SUBSET {"unique", "foreign"}
      /\ "unique" \in c => "unique" \in pgScene
      /\ "foreign" \in c <=> "refs" \in pgScene
  BY DEF Constrained
<1>2. /\ tab \in [PgTables -> PgTableType] /\ \A t \in PgTables : tab[t].rows = {}
      /\ tab["t"].cons = c /\ tab["p"].cons = {}
  BY <1>1, NewTables
<1>3. pgDb = [gen |-> 1, head |-> 0, commit |-> 0, cur |-> 0, changes |-> <<>>,
              tab |-> tab, keys |-> {}, stage |-> {}]
  BY DEF PgDatabase
<1>4. pgDb.tab = tab /\ pgDb.gen = 1  BY ONLY <1>3
<1>5. DbDeclared(pgDb)  BY <1>1, <1>2, <1>4 DEF DbDeclared
<1>6. PgSound(pgDb)
  <2> PICK e : e = pgDb  OBVIOUS
  <2>1. /\ DbDeclared(e)
        /\ e = [gen |-> 1, head |-> 0, commit |-> 0, cur |-> 0, changes |-> <<>>,
                tab |-> tab, keys |-> {}, stage |-> {}]
    BY <1>3, <1>5
  <2>2. PgSound(e)  BY <2>1, <1>2, EmptySound
  <2> QED BY <2>2
<1>7. \A s \in PgSessions : ~Opened(s)  BY DEF Opened
<1>8. PgTxOK  BY <1>7 DEF PgTxOK
<1>9. PgClientsOK
  <2>1. "pc" \in DOMAIN PgIdle /\ PgIdle.pc = "idle"  BY DEF PgIdle
  <2>2. \A d \in PgClients : pgClient[d] = PgIdle /\ pgTx[d] = PgNoTx  BY DEF PgSessions
  <2>3. \A d \in PgClients : ClientOK(pgClient[d], pgTx[d])  BY <2>1, <2>2 DEF ClientOK
  <2> QED BY <2>3 DEF PgClientsOK
<1>10. PgMigOK
  <2>1. "pc" \in DOMAIN PgNoMig /\ PgNoMig.pc = "idle"  BY DEF PgNoMig
  <2> QED BY <2>1, <1>7 DEF PgMigOK, PgSessions
<1>11. PgLeftOK
  <2>1. PgCalls[pgScene] \in Nat /\ PgLosses \in Nat /\ PgDrops \in Nat /\ PgSchemas \in Nat
        /\ PgVacuums \in Nat
    BY PgAssumption DEF PgAssumption
  <2>2. pgLeft \in PgLeftType /\ pgLeft.drops = PgDrops  BY <2>1 DEF PgLeftType
  <2> QED BY <2>1, <2>2, <1>4 DEF PgLeftOK, NextGen
<1> QED BY <1>6, <1>8, <1>9, <1>10, <1>11 DEF PgInv

\* A client that goes idle or starts.
LEMMA IdleClient ==
  ClientOK(PgIdle, PgNoTx)
<1>1. "pc" \in DOMAIN PgIdle /\ PgIdle.pc = "idle"  BY DEF PgIdle
<1> QED BY <1>1 DEF ClientOK

LEMMA StartedClient ==
  ASSUME NEW call \in PgMenu, NEW n
  PROVE  ClientOK(PgStart(call, n), PgNoTx)
<1> PICK v : v = PgStart(call, n)  OBVIOUS
<1>1. v.pc = PgEntry(call) /\ v.call = call /\ {"pc", "call", "st", "tries"} \subseteq DOMAIN v
  BY DEF PgStart
<1>2. PgEntry(call) \in {"read", "write"}  BY DEF PgEntry
<1> QED BY <1>1, <1>2 DEF ClientOK

LEMMA CallInv ==
  ASSUME PgInv, NEW c \in PgClients, PgCall(c)
  PROVE  PgInv'
<1> USE DEF PgInv
<1> PICK call \in PgMenu : PgSetClient(c, PgStart(call, 0))  BY DEF PgCall
<1>0. /\ pgClient[c].pc = "idle" /\ PgSpend("calls")
      /\ pgScene' = pgScene /\ pgDb' = pgDb /\ pgTx' = pgTx /\ pgMig' = pgMig /\ pgAcks' = pgAcks
  BY DEF PgCall
<1>1. PgSound(pgDb)'  BY <1>0, SceneKept
<1>2. pgTx[c] = PgNoTx  BY <1>0 DEF PgClientsOK, ClientOK
<1>3. ClientOK(PgStart(call, 0), pgTx'[c])  BY <1>0, <1>2, StartedClient
<1>4. PgClientsOK'  BY <1>0, <1>3, ClientSet
<1>5. PgMigOK'  BY <1>0, MigKept
<1>6. PgTxOK'  BY <1>0, TxKept
<1>7. PgLeftOK'  BY <1>0, Spend, LeftKept
<1> QED BY <1>0, <1>1, <1>4, <1>5, <1>6, <1>7

LEMMA ReadInv ==
  ASSUME PgInv, NEW c \in PgClients, PgRead(c)
  PROVE  PgInv'
<1> USE DEF PgInv
<1> PICK call : call = pgClient[c].call  OBVIOUS
<1> PICK w : w = call.ws[1]  OBVIOUS
<1> PICK seen : seen = lookupIdempotency(pgDb, call)  OBVIOUS
<1>0. /\ pgClient[c].pc = "read"
      /\ pgScene' = pgScene /\ pgDb' = pgDb /\ pgTx' = pgTx /\ pgMig' = pgMig /\ pgLeft' = pgLeft
  BY DEF PgRead
<1>1. PgSound(pgDb)'  BY <1>0, SceneKept
<1>2. /\ pgTx[c] = PgNoTx /\ call \in PgMenu /\ "pc" \in DOMAIN pgClient[c]
      /\ {"call", "st", "tries"} \subseteq DOMAIN pgClient[c]
  BY <1>0 DEF PgClientsOK, ClientOK
<1>3. PICK v : PgSetClient(c, v) /\ ClientOK(v, PgNoTx)
  <2>1. CASE PgSetClient(c, PgIdle)  BY <2>1, IdleClient
  <2>2. CASE PgSetClient(c, [pgClient[c] EXCEPT !.pc = "write", !.st = decodeTableState(pgDb, w.tab)])
    <3> PICK v : v = [pgClient[c] EXCEPT !.pc = "write", !.st = decodeTableState(pgDb, w.tab)]
      OBVIOUS
    <3>1. v.pc = "write" /\ v.call = call /\ DOMAIN v = DOMAIN pgClient[c]  BY <1>2
    <3>2. ClientOK(v, PgNoTx)  BY <1>2, <3>1 DEF ClientOK
    <3> QED BY <2>2, <3>2
  <2> QED BY <2>1, <2>2 DEF PgRead
<1>4. PgClientsOK'  BY <1>0, <1>2, <1>3, ClientSet
<1>5. PgMigOK'  BY <1>0, MigKept
<1>6. PgTxOK'  BY <1>0, TxKept
<1>7. PgLeftOK'
  <2>1. CASE pgAcks' = pgAcks
    <3>1. pgLeft' \in PgLeftType  BY <1>0 DEF PgLeftOK
    <3> QED BY <1>0, <2>1, <3>1, LeftKept
  <2>2. CASE PgExists(pgDb, w.tab) /\ seen = "replay" /\ PgAck(pgDb, call)
    <3>1. pgDb.gen # 0  BY <2>2 DEF PgExists
    <3>2. CallOK(call)  BY <1>2, MenuCalls
    <3>3. HasInsert(call.ws) => \E a \in LogOf(pgDb) : a.key = PgTag(pgDb, call)
      BY <2>2, <3>2, ReplayTag
    <3>4. /\ PgAck(pgDb, call) /\ pgDb'.gen = pgDb.gen /\ LogOf(pgDb) \subseteq LogOf(pgDb')
          /\ HasInsert(call.ws) => \E a \in LogOf(pgDb') : a.key = PgTag(pgDb, call)
      BY <1>0, <2>2, <3>3
    <3> QED BY <1>0, <3>1, <3>4, Acknowledged
  <2> QED BY <2>1, <2>2 DEF PgRead
<1> QED BY <1>0, <1>1, <1>4, <1>5, <1>6, <1>7

\* What the write transaction of a call comes to.
CallOut(db, call, st) ==
  IF call.kind = "batch" THEN batchAttempt(db, call.ws, PgTag(db, call))
  ELSE PgWrite(db, call.ws[1], st, PgTag(db, call))

CallWrote(db, call, tag, out) ==
  IF call.kind = "batch" THEN BatchWrote(db, call.ws, tag, out)
  ELSE Effect(db, call.ws[1], tag, out.db) /\ Passes(db, call.ws[1], out.db)

LEMMA CallWrites ==
  ASSUME NEW db, PgShape(db), NEW call, CallOK(call), NEW st,
         st.vec = db.tab[call.ws[1].tab].vec, NEW tag, tag = PgTag(db, call),
         NEW out, out = CallOut(db, call, st)
  PROVE  Wrote(db, out.db, tag) /\ (out.ok => CallWrote(db, call, tag, out))
<1>0. call.ws \in Seq(PgWriteType) /\ tag \in PgTagType  BY TagOfCall DEF CallOK, PgCallType
<1>1. CASE call.kind = "batch"
  <2>1. Len(call.ws) = 2  BY <1>1 DEF CallOK
  <2>2. out = batchAttempt(db, call.ws, tag)  BY <1>1 DEF CallOut
  <2> QED BY <1>0, <1>1, <2>1, <2>2, BatchWrites DEF CallWrote
<1>2. CASE call.kind # "batch"
  <2> PICK w : w = call.ws[1]  OBVIOUS
  <2>1. Len(call.ws) = 1  BY <1>2 DEF CallOK
  <2>2. w \in PgWriteType  BY <1>0, <2>1
  <2>3. out = PgWrite(db, w, st, tag)  BY <1>2 DEF CallOut
  <2>4. Effect(db, w, tag, out.db) /\ (out.ok => Passes(db, w, out.db))
    BY <1>0, <2>2, <2>3, WriteWrites
  <2> QED BY <1>2, <2>4 DEF CallWrote, Effect
<1> QED BY <1>1, <1>2

\* A call that may commit: its record and its place in the log.
LEMMA CallApplies ==
  ASSUME NEW db, PgSound(db), NEW call, CallOK(call), lookupIdempotency(db, call) = "fresh",
         db.tab[call.ws[1].tab].active, NEW tag, tag = PgTag(db, call),
         NEW out, Wrote(db, out.db, tag), CallWrote(db, call, tag, out),
         NEW e, e = storeIdempotency(out.db, call, tag)
  PROVE  Call(db, call, out.db, e)
<1> SUFFICES ASSUME call.key # "none"
             PROVE  /\ db.tab["t"].active
                    /\ HasInsert(call.ws) => \E a \in LogOf(out.db) : a.key = tag
  BY DEF Call
<1>0. KeyedWrites(call.kind, call.ws)  BY DEF CallOK
<1>1. CASE call.kind = "batch"
  <2>0. Len(call.ws) = 2 /\ call.ws[2].tab = "t"  BY <1>0, <1>1 DEF KeyedWrites
  <2>1. PICK d : /\ Effect(db, call.ws[1], tag, d) /\ Effect(d, call.ws[2], tag, out.db)
                 /\ PgExists(d, call.ws[2].tab)
    BY <1>1 DEF CallWrote, BatchWrote
  <2>2. db.tab["t"].active  BY <2>0, <2>1 DEF Effect, Wrote, TableWrote, PgExists, PgTables
  <2>3. LogOf(d) \subseteq LogOf(out.db)  BY <2>1 DEF Effect, Wrote, Logged
  <2>4. ASSUME HasInsert(call.ws)  PROVE \E a \in LogOf(out.db) : a.key = tag
    <3> PICK n : n = Len(call.ws)  OBVIOUS
    <3>0. n = 2  BY <2>0
    <3>1. PICK i \in 1..n : call.ws[i].op = "insert"  BY <2>4 DEF HasInsert
    <3>2. i = 1 \/ i = 2  BY ONLY <3>0, i \in 1..n
    <3>3. CASE i = 1  BY <3>1, <3>3, <2>1, <2>3 DEF Effect
    <3>4. CASE i = 2  BY <3>1, <3>4, <2>1 DEF Effect
    <3> QED BY <3>2, <3>3, <3>4
  <2> QED BY <2>2, <2>4
<1>2. CASE call.kind # "batch"
  <2>1. Len(call.ws) = 1 /\ call.ws[1].tab = "t"  BY <1>0, <1>2 DEF KeyedWrites
  <2>2. Effect(db, call.ws[1], tag, out.db)  BY <1>2 DEF CallWrote
  <2>3. ASSUME HasInsert(call.ws)  PROVE \E a \in LogOf(out.db) : a.key = tag
    <3> PICK n : n = Len(call.ws)  OBVIOUS
    <3>0. n = 1  BY <2>1
    <3>1. PICK i \in 1..n : call.ws[i].op = "insert"  BY <2>3 DEF HasInsert
    <3>2. i = 1  BY ONLY <3>0, i \in 1..n
    <3> QED BY <3>1, <3>2, <2>2 DEF Effect
  <2> QED BY <2>1, <2>3
<1> QED BY <1>1, <1>2

\* The ways a write transaction can go: the call is answered, starts over,
\* is applied in a transaction now open, or rolled back.
BeginStops(c, call) ==
  /\ PgSetClient(c, PgIdle) /\ pgDb' = pgDb /\ pgTx' = pgTx
  /\ \/ pgAcks' = pgAcks
     \/ /\ PgAck(pgDb, call) /\ PgExists(pgDb, call.ws[1].tab)
        /\ lookupIdempotency(pgDb, call) = "replay"
BeginAgain(c, call) ==
  /\ pgDb' = pgDb /\ pgTx' = pgTx /\ pgAcks' = pgAcks
  /\ PgSetClient(c, PgIdle) \/ \E n : PgSetClient(c, PgStart(call, n))
BeginFresh(call, st) ==
  /\ pgAcks' = pgAcks /\ PgExists(pgDb, call.ws[1].tab)
  /\ lookupIdempotency(pgDb, call) = "fresh" /\ schemaUnchanged(pgDb, call.ws[1], st)
BeginOpens(c, call, out) ==
  /\ out.ok /\ pgDb' = pgDb
  /\ PgSetClient(c, [pgClient[c] EXCEPT !.pc = "commit"])
  /\ pgTx' = [pgTx EXCEPT ![c] = storeIdempotency(out.db, call, PgTag(pgDb, call))]
BeginFails(c, out) ==
  /\ PgSetClient(c, PgIdle) /\ pgTx' = pgTx /\ pgDb' = rollbackContext(pgDb, out.db)

LEMMA BeginCases ==
  ASSUME NEW c, PgBegin(c), NEW call, call = pgClient[c].call,
         NEW st, st = PgFresh(call, pgClient[c].st, pgDb), NEW out, out = CallOut(pgDb, call, st)
  PROVE  /\ pgClient[c].pc = "write" /\ namespaceWriteSerialized
         /\ pgScene' = pgScene /\ pgMig' = pgMig /\ pgLeft' = pgLeft
         /\ \/ BeginStops(c, call)
            \/ BeginAgain(c, call)
            \/ BeginFresh(call, st) /\ (BeginOpens(c, call, out) \/ BeginFails(c, out))
<1> PICK w : w = call.ws[1]  OBVIOUS
<1> PICK tag : tag = PgTag(pgDb, call)  OBVIOUS
<1> PICK here : here = checkSameTable(pgDb, w, st)  OBVIOUS
<1> PICK seen : seen = lookupIdempotency(pgDb, call)  OBVIOUS
<1> PICK moved : moved = ~schemaUnchanged(pgDb, w, st)  OBVIOUS
<1>1. /\ pgClient[c].pc = "write" /\ namespaceWriteSerialized
      /\ IF here /\ seen = "replay" THEN PgAck(pgDb, call) ELSE UNCHANGED pgAcks
      /\ IF ~here \/ seen # "fresh"
         THEN PgSetClient(c, PgIdle) /\ UNCHANGED <<pgDb, pgTx>>
         ELSE IF moved
         THEN /\ PgSetClient(c, IF call.kind # "import" /\ pgClient[c].tries + 1 < PgAttempts
                                THEN PgStart(call, pgClient[c].tries + 1) ELSE PgIdle)
              /\ UNCHANGED <<pgDb, pgTx>>
         ELSE IF out.ok
         THEN /\ PgSetClient(c, [pgClient[c] EXCEPT !.pc = "commit"])
              /\ pgTx' = [pgTx EXCEPT ![c] = storeIdempotency(out.db, call, tag)]
              /\ UNCHANGED pgDb
         ELSE /\ PgSetClient(c, PgIdle)
              /\ pgDb' = rollbackContext(pgDb, out.db)
              /\ UNCHANGED pgTx
      /\ UNCHANGED <<pgScene, pgMig, pgFeed, pgLeft>>
  BY DEF PgBegin, CallOut, lookupAgain
<1>2. here => PgExists(pgDb, w.tab)  BY DEF checkSameTable
<1> QED BY <1>1, <1>2 DEF BeginStops, BeginAgain, BeginFresh, BeginOpens, BeginFails

LEMMA BeginInv ==
  ASSUME PgInv, NEW c \in PgClients, PgBegin(c)
  PROVE  PgInv'
<1> USE DEF PgInv
<1> PICK call : call = pgClient[c].call  OBVIOUS
<1> PICK w : w = call.ws[1]  OBVIOUS
<1> PICK st : st = PgFresh(call, pgClient[c].st, pgDb)  OBVIOUS
<1> PICK out : out = CallOut(pgDb, call, st)  OBVIOUS
<1> PICK tag : tag = PgTag(pgDb, call)  OBVIOUS
<1>0. /\ pgClient[c].pc = "write" /\ namespaceWriteSerialized
      /\ pgScene' = pgScene /\ pgMig' = pgMig /\ pgLeft' = pgLeft
      /\ \/ BeginStops(c, call)
         \/ BeginAgain(c, call)
         \/ BeginFresh(call, st) /\ (BeginOpens(c, call, out) \/ BeginFails(c, out))
  BY BeginCases
<1>1. /\ pgTx[c] = PgNoTx /\ call \in PgMenu /\ "pc" \in DOMAIN pgClient[c]
      /\ {"call", "st", "tries"} \subseteq DOMAIN pgClient[c]
  BY <1>0 DEF PgClientsOK, ClientOK
<1>2. CallOK(call)  BY <1>1, MenuCalls
<1>3. c \in PgSessions /\ c # "migrate" /\ PgShape(pgDb)  BY DEF PgSessions, PgClients, PgSound
<1>4. pgLeft' \in PgLeftType  BY <1>0 DEF PgLeftOK
<1>5. CASE BeginStops(c, call)
  <2> USE DEF BeginStops
  <2>1. PgSound(pgDb)'  BY <1>0, <1>5, SceneKept
  <2>2. PgClientsOK'
    <3>1. PgSetClient(c, PgIdle) /\ ClientOK(PgIdle, pgTx'[c])  BY <1>1, <1>5, IdleClient
    <3> QED BY <1>0, <1>5, <3>1, ClientSet
  <2>3. PgMigOK'  BY <1>0, <1>5, MigKept
  <2>4. PgTxOK'  BY <1>0, <1>5, TxKept
  <2>5. PgLeftOK'
    <3>0. pgDb'.gen = pgDb.gen /\ LogOf(pgDb) \subseteq LogOf(pgDb')  BY <1>5
    <3>1. CASE pgAcks' = pgAcks  BY <1>0, <1>4, <3>0, <3>1, LeftKept
    <3>2. CASE /\ PgAck(pgDb, call) /\ PgExists(pgDb, w.tab)
               /\ lookupIdempotency(pgDb, call) = "replay"
      <4>1. pgDb.gen # 0  BY <3>2 DEF PgExists
      <4>2. HasInsert(call.ws) => \E a \in LogOf(pgDb') : a.key = PgTag(pgDb, call)
        BY <1>2, <1>5, <3>2, ReplayTag
      <4> QED BY <1>0, <3>0, <3>2, <4>1, <4>2, Acknowledged
    <3> QED BY <1>5, <3>1, <3>2
  <2> QED BY <1>0, <2>1, <2>2, <2>3, <2>4, <2>5
<1>6. CASE BeginAgain(c, call)
  <2> USE DEF BeginAgain
  <2>1. PgSound(pgDb)'  BY <1>0, <1>6, SceneKept
  <2>2. PgClientsOK'
    <3>1. PICK v : PgSetClient(c, v) /\ ClientOK(v, PgNoTx)
      BY <1>1, <1>6, IdleClient, StartedClient
    <3>2. ClientOK(v, pgTx'[c])  BY <1>1, <1>6, <3>1
    <3> QED BY <1>0, <1>6, <3>1, <3>2, ClientSet
  <2>3. PgMigOK'  BY <1>0, <1>6, MigKept
  <2>4. PgTxOK'  BY <1>0, <1>6, TxKept
  <2>5. PgLeftOK'
    <3>0. pgDb'.gen = pgDb.gen /\ LogOf(pgDb) \subseteq LogOf(pgDb')  BY <1>6
    <3> QED BY <1>0, <1>4, <1>6, <3>0, LeftKept
  <2> QED BY <1>0, <2>1, <2>2, <2>3, <2>4, <2>5
<1>7. ASSUME BeginFresh(call, st)
      PROVE /\ pgDb.gen # 0 /\ pgDb.tab[w.tab].active /\ Wrote(pgDb, out.db, tag)
            /\ out.ok => CallWrote(pgDb, call, tag, out)
  <2>1. pgDb.gen # 0 /\ pgDb.tab[w.tab].active  BY <1>7 DEF PgExists, BeginFresh
  <2>2. st.vec = pgDb.tab[w.tab].vec
    <3>1. st = decodeTableState(pgDb, w.tab)  BY <1>7 DEF schemaUnchanged, BeginFresh
    <3>2. decodeTableState(pgDb, w.tab).vec = pgDb.tab[w.tab].vec
      BY ONLY TRUE DEF decodeTableState
    <3> QED BY <3>1, <3>2
  <2> QED BY <1>2, <1>3, <2>1, <2>2, CallWrites
<1>8. CASE BeginFresh(call, st) /\ BeginOpens(c, call, out)
  <2> USE DEF BeginFresh, BeginOpens
  <2> PICK e : e = storeIdempotency(out.db, call, tag)  OBVIOUS
  <2>1. Call(pgDb, call, out.db, e)
    <3>1. /\ lookupIdempotency(pgDb, call) = "fresh" /\ pgDb.tab[call.ws[1].tab].active
          /\ Wrote(pgDb, out.db, tag) /\ CallWrote(pgDb, call, tag, out)
      BY <1>7, <1>8
    <3> QED BY <1>2, <3>1, CallApplies
  <2>2. /\ PgSound(e) /\ e.gen = pgDb.gen /\ LogOf(pgDb) \subseteq LogOf(e)
        /\ call.key # "none" => [tag |-> PgTag(e, call), ws |-> call.ws] \in e.keys
    <3> PICK db : db = pgDb  OBVIOUS
    <3> PICK d : d = out.db  OBVIOUS
    <3>1. Call(db, call, d, e)  BY <2>1
    <3>2. /\ PgSound(e) /\ e.gen = db.gen /\ LogOf(db) \subseteq LogOf(e)
          /\ call.key # "none" => [tag |-> PgTag(e, call), ws |-> call.ws] \in e.keys
      BY ONLY <3>1, CallKeepsSound
    <3> QED BY <3>2
  <2>3. pgDb' = pgDb /\ pgTx' = [pgTx EXCEPT ![c] = e] /\ pgAcks' = pgAcks /\ pgDb.gen # 0
    BY <1>7, <1>8
  <2>4. /\ PgTxOK' /\ pgTx'[c] = e /\ e # PgNoTx
        /\ \A r \in PgSessions \ {c} : pgTx'[r] = pgTx[r]
    BY <1>0, <1>3, <2>2, <2>3, TxOpens
  <2>5. PgSound(pgDb)'  BY <1>0, <2>3, SceneKept
  <2>6. PgClientsOK'
    <3> PICK v : v = [pgClient[c] EXCEPT !.pc = "commit"]  OBVIOUS
    <3>1. v.pc = "commit" /\ v.call = call /\ DOMAIN v = DOMAIN pgClient[c]  BY <1>1
    <3>2. ClientOK(v, e)  BY <1>1, <2>2, <2>4, <3>1 DEF ClientOK
    <3>3. PgSetClient(c, v) /\ ClientOK(v, pgTx'[c]) /\ \A d \in PgClients \ {c} : pgTx'[d] = pgTx[d]
      BY <1>8, <2>4, <3>2 DEF PgSessions
    <3> QED BY <1>0, <3>3, ClientSet
  <2>7. PgMigOK'
    <3>1. pgTx'["migrate"] = pgTx["migrate"]  BY <1>3, <2>4 DEF PgSessions
    <3> QED BY <1>0, <3>1, MigKept
  <2>8. PgLeftOK'  BY <1>0, <1>4, <2>3, LeftKept
  <2> QED BY <1>0, <2>4, <2>5, <2>6, <2>7, <2>8
<1>9. CASE BeginFresh(call, st) /\ BeginFails(c, out)
  <2> USE DEF BeginFresh, BeginFails
  <2> PICK e : e = rollbackContext(pgDb, out.db)  OBVIOUS
  <2>1. out.db.tab \in [PgTables -> PgTableType]  BY <1>7, <1>9 DEF Wrote
  <2>2. PgSound(e) /\ e.gen = pgDb.gen /\ LogOf(e) = LogOf(pgDb)  BY <2>1, RollbackSound
  <2>3. pgDb' = e /\ pgTx' = pgTx /\ pgAcks' = pgAcks /\ PgSetClient(c, PgIdle)  BY <1>9
  <2>4. PgSound(pgDb)'  BY <1>0, <2>2, <2>3, SceneKept
  <2>5. PgClientsOK'
    <3>1. ClientOK(PgIdle, pgTx'[c])  BY <1>1, <2>3, IdleClient
    <3> QED BY <1>0, <2>3, <3>1, ClientSet
  <2>6. PgMigOK'  BY <1>0, <2>3, MigKept
  <2>7. PgTxOK'  BY <1>0, <2>3, TxNone
  <2>8. PgLeftOK'  BY <1>0, <1>4, <2>2, <2>3, LeftKept
  <2> QED BY <1>0, <2>4, <2>5, <2>6, <2>7, <2>8
<1> QED BY <1>0, <1>5, <1>6, <1>8, <1>9

\* The end of the transaction a client has open.
LEMMA CommitFacts ==
  ASSUME PgInv, NEW c \in PgClients, pgClient[c].pc = "commit",
         NEW call, call = pgClient[c].call, NEW tx, tx = pgTx[c]
  PROVE  /\ Opened(c) /\ c \in PgSessions /\ c # "migrate" /\ call \in PgMenu
         /\ PgSound(tx) /\ tx.gen = pgDb.gen /\ pgDb.gen # 0 /\ LogOf(pgDb) \subseteq LogOf(tx)
         /\ call.key # "none" /\ HasInsert(call.ws) => \E a \in LogOf(tx) : a.key = PgTag(tx, call)
<1> USE DEF PgInv
<1>1. Opened(c) /\ call \in PgMenu
      /\ (call.key # "none" => [tag |-> PgTag(tx, call), ws |-> call.ws] \in tx.keys)
  BY DEF PgClientsOK, ClientOK, Opened
<1>2. c \in PgSessions /\ c # "migrate"  BY DEF PgSessions, PgClients
<1>3. PgSound(tx) /\ tx.gen = pgDb.gen /\ pgDb.gen # 0 /\ LogOf(pgDb) \subseteq LogOf(tx)
  BY <1>1, <1>2 DEF PgTxOK
<1>4. ASSUME call.key # "none", HasInsert(call.ws)
      PROVE  \E a \in LogOf(tx) : a.key = PgTag(tx, call)
  <2> PICK k : k = [tag |-> PgTag(tx, call), ws |-> call.ws]  OBVIOUS
  <2>1. k \in tx.keys /\ k.tag = PgTag(tx, call) /\ k.ws = call.ws  BY <1>1, <1>4
  <2> QED BY <1>3, <1>4, <2>1 DEF PgSound, DbRecords
<1> QED BY <1>1, <1>2, <1>3, <1>4

LEMMA CommitInv ==
  ASSUME PgInv, NEW c \in PgClients, PgCommit(c)
  PROVE  PgInv'
<1> USE DEF PgInv
<1> PICK call : call = pgClient[c].call  OBVIOUS
<1> PICK tx : tx = pgTx[c]  OBVIOUS
<1> PICK e : e = [tx EXCEPT !.cur = 0]  OBVIOUS
<1>0. /\ pgClient[c].pc = "commit" /\ pgDb' = e /\ pgTx' = [pgTx EXCEPT ![c] = PgNoTx]
      /\ PgAck(tx, call) /\ PgSetClient(c, PgIdle)
      /\ pgScene' = pgScene /\ pgMig' = pgMig /\ pgLeft' = pgLeft
  BY DEF PgCommit, PgPublish
<1>1. /\ Opened(c) /\ c \in PgSessions /\ c # "migrate"
      /\ PgSound(tx) /\ tx.gen = pgDb.gen /\ pgDb.gen # 0 /\ LogOf(pgDb) \subseteq LogOf(tx)
      /\ call.key # "none" /\ HasInsert(call.ws) => \E a \in LogOf(tx) : a.key = PgTag(tx, call)
  BY <1>0, CommitFacts
<1>2. PgSound(e) /\ e.gen = tx.gen /\ LogOf(e) = LogOf(tx)  BY <1>1, PublishSound
<1>3. PgSound(pgDb)'  BY <1>0, <1>2, SceneKept
<1>4. /\ PgTxOK' /\ pgTx'[c] = PgNoTx /\ \A r \in PgSessions \ {c} : pgTx'[r] = pgTx[r]
  BY <1>0, <1>1, TxClosed
<1>5. PgClientsOK'
  <2>1. ClientOK(PgIdle, pgTx'[c]) /\ \A d \in PgClients \ {c} : pgTx'[d] = pgTx[d]
    BY <1>4, IdleClient DEF PgSessions
  <2> QED BY <1>0, <2>1, ClientSet
<1>6. PgMigOK'
  <2>1. pgTx'["migrate"] = pgTx["migrate"]  BY <1>1, <1>4 DEF PgSessions
  <2> QED BY <1>0, <2>1, MigKept
<1>7. PgLeftOK'
  <2>1. /\ pgDb'.gen = pgDb.gen /\ LogOf(pgDb) \subseteq LogOf(pgDb')
        /\ call.key # "none" /\ HasInsert(call.ws) =>
             \E a \in LogOf(pgDb') : a.key = PgTag(tx, call)
    BY <1>0, <1>1, <1>2
  <2> QED BY <1>0, <1>1, <2>1, Acknowledged
<1> QED BY <1>0, <1>3, <1>4, <1>5, <1>6, <1>7

LEMMA CommitLostInv ==
  ASSUME PgInv, NEW c \in PgClients, PgCommitLost(c)
  PROVE  PgInv'
<1> USE DEF PgInv
<1> PICK call : call = pgClient[c].call  OBVIOUS
<1> PICK tx : tx = pgTx[c]  OBVIOUS
<1>0. /\ pgClient[c].pc = "commit" /\ pgTx' = [pgTx EXCEPT ![c] = PgNoTx]
      /\ pgDb' = [tx EXCEPT !.cur = 0] \/ pgDb' = rollbackContext(pgDb, tx)
      /\ PgSetClient(c, IF call.key = "none" THEN PgIdle ELSE PgStart(call, 0))
      /\ pgScene' = pgScene /\ pgMig' = pgMig /\ pgAcks' = pgAcks /\ PgSpend("losses")
  BY DEF PgCommitLost, PgPublish
<1>1. /\ Opened(c) /\ c \in PgSessions /\ c # "migrate" /\ call \in PgMenu
      /\ PgSound(tx) /\ tx.gen = pgDb.gen /\ pgDb.gen # 0 /\ LogOf(pgDb) \subseteq LogOf(tx)
  BY <1>0, CommitFacts
<1>2. PICK e : pgDb' = e /\ PgSound(e) /\ e.gen = pgDb.gen /\ LogOf(pgDb) \subseteq LogOf(e)
  <2>1. CASE pgDb' = [tx EXCEPT !.cur = 0]
    <3> PICK e : e = [tx EXCEPT !.cur = 0]  OBVIOUS
    <3>1. PgSound(e) /\ e.gen = tx.gen /\ LogOf(e) = LogOf(tx)  BY <1>1, PublishSound
    <3> QED BY <2>1, <3>1, <1>1
  <2>2. CASE pgDb' = rollbackContext(pgDb, tx)
    <3> PICK e : e = rollbackContext(pgDb, tx)  OBVIOUS
    <3>1. tx.tab \in [PgTables -> PgTableType]  BY <1>1 DEF PgSound, PgShape
    <3>2. PgSound(e) /\ e.gen = pgDb.gen /\ LogOf(e) = LogOf(pgDb)  BY <3>1, RollbackSound
    <3> QED BY <2>2, <3>2
  <2> QED BY <1>0, <2>1, <2>2
<1>3. PgSound(pgDb)'  BY <1>0, <1>2, SceneKept
<1>4. /\ PgTxOK' /\ pgTx'[c] = PgNoTx /\ \A r \in PgSessions \ {c} : pgTx'[r] = pgTx[r]
  BY <1>0, <1>1, TxClosed
<1>5. PgClientsOK'
  <2> PICK v : v = IF call.key = "none" THEN PgIdle ELSE PgStart(call, 0)  OBVIOUS
  <2>0. ClientOK(v, PgNoTx)  BY <1>1, IdleClient, StartedClient
  <2>1. PgSetClient(c, v) /\ ClientOK(v, pgTx'[c]) /\ \A d \in PgClients \ {c} : pgTx'[d] = pgTx[d]
    BY <1>0, <1>4, <2>0 DEF PgSessions
  <2> QED BY <1>0, <2>1, ClientSet
<1>6. PgMigOK'
  <2>1. pgTx'["migrate"] = pgTx["migrate"]  BY <1>1, <1>4 DEF PgSessions
  <2> QED BY <1>0, <2>1, MigKept
<1>7. PgLeftOK'  BY <1>0, <1>2, Spend, LeftKept
<1> QED BY <1>0, <1>3, <1>4, <1>5, <1>6, <1>7

\* A step that changes only what is committed, while no transaction is open.
LEMMA CommittedInv ==
  ASSUME PgInv, namespaceWriteSerialized, pgScene' = pgScene, pgTx' = pgTx,
         pgClient' = pgClient, PgMigOK', NEW e, pgDb' = e, PgSound(e), PgLeftOK'
  PROVE  PgInv'
<1> USE DEF PgInv
<1>1. PgSound(pgDb)'  BY SceneKept
<1>2. PgClientsOK'  BY ClientsKept
<1>3. PgTxOK'  BY TxNone
<1> QED BY <1>1, <1>2, <1>3

\* The drops that are left, and the generation a new namespace would get.
LEMMA SpendDrop ==
  ASSUME PgLeftOK, pgLeft.drops > 0, PgSpend("drops")
  PROVE  /\ pgLeft' \in PgLeftType /\ pgLeft'.drops <= PgDrops /\ PgDrops \in Nat
         /\ NextGen \in Nat /\ NextGen' = NextGen + 1
<1>1. PgDrops \in Nat  BY PgAssumption DEF PgAssumption
<1>2. pgLeft'.drops = pgLeft.drops - 1 /\ pgLeft' \in PgLeftType
  BY DEF PgLeftOK, PgLeftType, PgSpend
<1>3. pgLeft.drops \in Nat /\ pgLeft.drops <= PgDrops  BY DEF PgLeftOK, PgLeftType
<1> QED BY <1>1, <1>2, <1>3 DEF NextGen

LEMMA DropTableInv ==
  ASSUME PgInv, NEW t \in PgTables, PgDropTable(t)
  PROVE  PgInv'
<1> USE DEF PgInv
<1> PICK e : e = pgDb'  OBVIOUS
<1>0. /\ namespaceWriteSerialized /\ pgScene' = pgScene /\ pgTx' = pgTx /\ pgClient' = pgClient
      /\ pgMig' = pgMig /\ pgAcks' = pgAcks /\ PgSpend("drops") /\ pgLeft.drops > 0
      /\ pgDb.gen # 0 /\ pgDb.tab[t].active /\ ~referencing(pgDb, t)
  BY DEF PgDropTable, PgExists
<1>1. DropTable(pgDb, t, e)  
  <2> PICK n : n = droppedTable(pgDb.tab[t])  OBVIOUS
  <2> PICK s : s = {x \in pgDb.stage : x.tab # t}  OBVIOUS
  <2> PICK ks : ks = keysLeft(pgDb.keys, t)  OBVIOUS
  <2>1. e = [pgDb EXCEPT !.tab[t] = n, !.stage = s, !.keys = ks]
    BY DEF PgDropTable
  <2> QED BY <2>1 DEF DropTable
<1>2. PgSound(e) /\ e.gen = pgDb.gen /\ LogOf(e) = LogOf(pgDb)  BY <1>0, <1>1, DropSound
<1>3. PgLeftOK'
  <2>1. /\ pgLeft' \in PgLeftType /\ pgLeft'.drops <= PgDrops
        /\ NextGen \in Nat /\ NextGen' = NextGen + 1
    BY <1>0, SpendDrop
  <2>2. PgLog' = LogOf(e) /\ PgLog = LogOf(pgDb)  BY DEF PgLog, LogOf
  <2>3. pgDb'.gen = pgDb.gen /\ pgDb.gen \in Nat  BY <1>2 DEF PgSound, PgShape
  <2>4. pgDb'.gen <= NextGen'  BY <2>1, <2>3 DEF PgLeftOK
  <2>5. \A k \in pgAcks : /\ k.gen \in Nat \ {0} /\ k.gen <= NextGen'
                          /\ k.gen = pgDb'.gen /\ HasInsert(k.ws) => \E a \in PgLog' : a.key = k.tag
    BY <1>2, <2>1, <2>2, <2>3 DEF PgLeftOK
  <2> QED BY <1>0, <2>1, <2>3, <2>4, <2>5 DEF PgLeftOK
<1>4. PgMigOK'  BY <1>0, MigKept
<1> QED BY <1>0, <1>2, <1>3, <1>4, CommittedInv

LEMMA CreateTableInv ==
  ASSUME PgInv, NEW t \in PgTables, PgCreateTable(t)
  PROVE  PgInv'
<1> USE DEF PgInv
<1> PICK n : n = tableDDL(pgDb.tab[t].drop, IF t = "t" THEN Constrained ELSE {})  OBVIOUS
<1> PICK e : e = putTable(pgDb, t, n)  OBVIOUS
<1>0. /\ namespaceWriteSerialized /\ pgScene' = pgScene /\ pgTx' = pgTx /\ pgClient' = pgClient
      /\ pgMig' = pgMig /\ pgAcks' = pgAcks /\ pgLeft' = pgLeft /\ pgDb' = e
  BY DEF PgCreateTable
<1>1. PgSound(e) /\ e.gen = pgDb.gen /\ LogOf(e) = LogOf(pgDb)  BY CreateSound
<1>2. pgLeft' \in PgLeftType  BY <1>0 DEF PgLeftOK
<1>3. PgLeftOK'  BY <1>0, <1>1, <1>2, LeftKept
<1>4. PgMigOK'  BY <1>0, MigKept
<1> QED BY <1>0, <1>1, <1>3, <1>4, CommittedInv

\* The catalog without the namespace.
NoTables == [t \in PgTables |-> [tableDDL(0, {}) EXCEPT !.active = FALSE, !.ver = 0]]

LEMMA NoTablesType ==
  /\ NoTables \in [PgTables -> PgTableType]
  /\ \A t \in PgTables : NoTables[t].rows = {} /\ NoTables[t].cons = {} /\ ~NoTables[t].active
<1> PICK n : n = [tableDDL(0, {}) EXCEPT !.active = FALSE, !.ver = 0]  OBVIOUS
<1>1. n = [active |-> FALSE, drop |-> 0, ver |-> 0, vec |-> FALSE, space |-> FALSE,
           cons |-> {}, seq |-> 0, rows |-> {}]
  BY DEF tableDDL
<1>2. n \in PgTableType /\ n.rows = {} /\ n.cons = {} /\ n.active = FALSE
  <2> PICK no : no = FALSE  OBVIOUS
  <2> PICK none : none = {}  OBVIOUS
  <2>1. n = [active |-> no, drop |-> 0, ver |-> 0, vec |-> no, space |-> no,
             cons |-> none, seq |-> 0, rows |-> none]
    BY <1>1
  <2>2. no \in BOOLEAN /\ none \in SUBSET PgRowType /\ none \in SUBSET {"unique", "foreign"}
    OBVIOUS
  <2>3. n \in PgTableType /\ n.rows = none /\ n.cons = none /\ n.active = no
    BY ONLY <2>1, <2>2 DEF PgTableType
  <2> QED BY <2>3
<1>3. NoTables = [t \in PgTables |-> n]  BY DEF NoTables
<1> QED BY <1>2, <1>3

LEMMA DropNamespaceInv ==
  ASSUME PgInv, PgDropNamespace
  PROVE  PgInv'
<1> USE DEF PgInv
<1> PICK e : e = pgDb'  OBVIOUS
<1> PICK tab : tab = NoTables  OBVIOUS
<1>0. /\ namespaceWriteSerialized /\ pgScene' = pgScene /\ pgTx' = pgTx /\ pgClient' = pgClient
      /\ pgMig' = pgMig /\ pgAcks' = pgAcks /\ PgSpend("drops") /\ pgLeft.drops > 0
      /\ e = [PgDatabase(0, {}) EXCEPT !.tab = tab]
  BY DEF PgDropNamespace, PgAlone, NoTables
<1>1. e = [gen |-> 0, head |-> 0, commit |-> 0, cur |-> 0, changes |-> <<>>,
           tab |-> tab, keys |-> {}, stage |-> {}]
  BY <1>0 DEF PgDatabase
<1>2. e.tab = tab  BY ONLY <1>1
<1>3. tab \in [PgTables -> PgTableType] /\ \A t \in PgTables : tab[t].rows = {}
      /\ tab[t].cons = {} /\ ~tab[t].active
  BY NoTablesType
<1>4. DbDeclared(e)  BY <1>2, <1>3 DEF DbDeclared, PgTables
<1>5. PgSound(e) /\ e.gen = 0
  BY ONLY <1>1, <1>3, <1>4, EmptySound
<1>6. PgLeftOK'
  <2>1. /\ pgLeft' \in PgLeftType /\ pgLeft'.drops <= PgDrops
        /\ NextGen \in Nat /\ NextGen' = NextGen + 1
    BY <1>0, SpendDrop
  <2>2. \A k \in pgAcks : k.gen \in Nat \ {0} /\ k.gen <= NextGen' /\ k.gen # NextGen'
    BY <2>1 DEF PgLeftOK
  <2>3. pgDb'.gen = 0  BY <1>5
  <2> QED BY <1>0, <2>1, <2>2, <2>3 DEF PgLeftOK
<1>7. PgMigOK'  BY <1>0, MigKept
<1> QED BY <1>0, <1>5, <1>6, <1>7, CommittedInv

LEMMA CreateNamespaceInv ==
  ASSUME PgInv, PgCreateNamespace
  PROVE  PgInv'
<1> USE DEF PgInv
<1> PICK g : g = NextGen  OBVIOUS
<1> PICK e : e = [pgDb EXCEPT !.gen = g]  OBVIOUS
<1>0. /\ pgScene' = pgScene /\ pgTx' = pgTx /\ pgClient' = pgClient /\ pgDb.gen = 0
      /\ pgMig' = pgMig /\ pgAcks' = pgAcks /\ pgLeft' = pgLeft /\ pgDb' = e
  BY DEF PgCreateNamespace, NextGen
<1>1. namespaceWriteSerialized  BY <1>0 DEF PgTxOK, Opened, namespaceWriteSerialized
<1>2. PgDrops \in Nat  BY PgAssumption DEF PgAssumption
<1>3. g \in Nat \ {0}  BY <1>2 DEF NextGen, PgLeftOK, PgLeftType
<1>4. PgSound(e) /\ e.gen = g  BY <1>3, GenSound
<1>5. PgLeftOK'
  <2>1. NextGen' = g  BY <1>0 DEF NextGen
  <2>2. \A k \in pgAcks : k.gen \in Nat \ {0} /\ k.gen <= g /\ k.gen # g
    BY <1>0 DEF PgLeftOK
  <2> QED BY <1>0, <1>3, <1>4, <2>1, <2>2 DEF PgLeftOK
<1>6. PgMigOK'  BY <1>0, MigKept
<1> QED BY <1>0, <1>1, <1>4, <1>5, <1>6, CommittedInv

LEMMA VacuumInv ==
  ASSUME PgInv, dropAbandonedStages
  PROVE  PgInv'
<1> USE DEF PgInv
<1> PICK none : none = {}  OBVIOUS
<1> PICK e : e = [pgDb EXCEPT !.stage = none]  OBVIOUS
<1>0. /\ namespaceWriteSerialized /\ pgScene' = pgScene /\ pgTx' = pgTx /\ pgClient' = pgClient
      /\ pgMig' = pgMig /\ pgAcks' = pgAcks /\ PgSpend("vacuums") /\ pgDb' = e
  BY DEF dropAbandonedStages
<1>1. PgSound(e) /\ e.gen = pgDb.gen /\ LogOf(e) = LogOf(pgDb)  BY StageSound
<1>2. pgLeft' \in PgLeftType /\ pgLeft'.drops = pgLeft.drops  BY <1>0, Spend
<1>3. PgLeftOK'  BY <1>0, <1>1, <1>2, LeftKept
<1>4. PgMigOK'  BY <1>0, MigKept
<1> QED BY <1>0, <1>1, <1>3, <1>4, CommittedInv

\* The migration: what it is when it goes on.
MigOK(m) ==
  /\ "pc" \in DOMAIN m
  /\ m.pc # "idle" =>
       /\ {"change", "first", "tries", "st", "after", "page"} \subseteq DOMAIN m
       /\ m.change \in {"on", "off", "unique"}
       /\ m.change = "unique" => "unique" \in pgScene

LEMMA MigSet ==
  ASSUME NEW m, pgMig' = m, MigOK(m), pgScene' = pgScene,
         pgTx'["migrate"] # PgNoTx <=> m.pc = "commit"
  PROVE  PgMigOK'
BY DEF PgMigOK, MigOK, Opened

LEMMA NoMigOK == MigOK(PgNoMig) /\ PgNoMig.pc = "idle"
<1>1. "pc" \in DOMAIN PgNoMig /\ PgNoMig.pc = "idle"  BY DEF PgNoMig
<1> QED BY <1>1 DEF MigOK

\* A step of the migration that leaves the database and the transactions alone.
LEMMA MigrationOnly ==
  ASSUME PgInv, pgScene' = pgScene, pgDb' = pgDb, pgTx' = pgTx, pgClient' = pgClient,
         pgAcks' = pgAcks, pgLeft' \in PgLeftType, pgLeft'.drops = pgLeft.drops, PgMigOK'
  PROVE  PgInv'
<1> USE DEF PgInv
<1>1. PgSound(pgDb)'  BY SceneKept
<1>2. PgClientsOK'  BY ClientsKept
<1>3. PgTxOK'  BY TxKept
<1>4. PgLeftOK'  BY LeftKept
<1> QED BY <1>1, <1>2, <1>3, <1>4

LEMMA MigrateInv ==
  ASSUME PgInv, PgMigrate
  PROVE  PgInv'
<1>0. /\ pgScene' = pgScene /\ pgDb' = pgDb /\ pgTx' = pgTx /\ pgClient' = pgClient
      /\ pgAcks' = pgAcks /\ pgMig.pc = "idle" /\ PgSpend("schemas") /\ PgMigOK /\ PgLeftOK
  BY DEF PgMigrate, PgInv
<1>1. PICK change \in {"on", "off", "unique"} :
        /\ (change = "unique") = ("unique" \in pgScene /\ "import" \notin pgScene)
        /\ pgMig' = [pc |-> "plan", change |-> change, first |-> <<0, 0>>, tries |-> 0,
                     st |-> [inc |-> <<0, 0>>], after |-> 0, page |-> {}]
  BY DEF PgMigrate, PgSetMig
<1> PICK m : m = pgMig'  OBVIOUS
<1>2. m.pc = "plan" /\ m.change = change
      /\ DOMAIN m = {"pc", "change", "first", "tries", "st", "after", "page"}
  BY <1>1
<1>3. MigOK(m)  BY <1>1, <1>2 DEF MigOK
<1>4. pgTx'["migrate"] = PgNoTx  BY <1>0 DEF PgMigOK, Opened
<1>5. PgMigOK'  BY <1>0, <1>2, <1>3, <1>4, MigSet
<1>6. pgLeft' \in PgLeftType /\ pgLeft'.drops = pgLeft.drops  BY <1>0, Spend
<1> QED BY <1>0, <1>5, <1>6, MigrationOnly

\* The migration goes on, or gives up.
MigNext(m) ==
  \/ m = PgNoMig
  \/ /\ DOMAIN m = DOMAIN pgMig /\ m.change = pgMig.change
     /\ m.pc \in {"plan", "page", "apply", "stage"}

LEMMA MigGoesOn ==
  ASSUME PgInv, pgMig.pc # "idle", pgMig.pc # "commit", NEW m, pgMig' = m, MigNext(m),
         pgScene' = pgScene, pgTx' = pgTx
  PROVE  PgMigOK'
<1>0. PgMigOK /\ pgTx["migrate"] = PgNoTx  BY DEF PgInv, PgMigOK, Opened
<1>1. CASE m = PgNoMig  BY <1>0, <1>1, NoMigOK, MigSet
<1>2. CASE m # PgNoMig
  <2>1. MigOK(m) /\ m.pc # "commit"  BY <1>0, <1>2 DEF MigNext, MigOK, PgMigOK
  <2> QED BY <1>0, <2>1, MigSet
<1> QED BY <1>1, <1>2

LEMMA MigrateReadInv ==
  ASSUME PgInv, PgMigrateRead
  PROVE  PgInv'
<1>0. /\ pgScene' = pgScene /\ pgDb' = pgDb /\ pgTx' = pgTx /\ pgClient' = pgClient
      /\ pgAcks' = pgAcks /\ pgLeft' = pgLeft /\ pgMig.pc = "plan" /\ PgMigOK
      /\ pgLeft \in PgLeftType
  BY DEF PgMigrateRead, PgInv, PgLeftOK
<1>1. PICK m : pgMig' = m /\ MigNext(m)
  <2>1. CASE pgMig' = PgNoMig  BY <2>1 DEF MigNext
  <2>2. CASE pgMig' # PgNoMig
    <3> PICK em : em = pgPlan(pgDb, pgMig.change).embedding  OBVIOUS
    <3>1. pgMig' = [pgMig EXCEPT !.first = PgIncarnation(pgDb, "t"), !.after = 0,
                      !.st = decodeTableState(pgDb, "t"),
                      !.pc = IF em THEN "page" ELSE "apply"]
      BY <2>2 DEF PgMigrateRead, PgSetMig
    <3> PICK m : m = pgMig'  OBVIOUS
    <3>2. DOMAIN m = DOMAIN pgMig /\ m.change = pgMig.change
          /\ m.pc = IF em THEN "page" ELSE "apply"
      BY <1>0, <3>1 DEF PgMigOK
    <3>3. MigNext(m)  BY <3>2 DEF MigNext
    <3> QED BY <3>3
  <2> QED BY <2>1, <2>2
<1>2. PgMigOK'  BY <1>0, <1>1, MigGoesOn
<1> QED BY <1>0, <1>2, MigrationOnly

LEMMA EmbedPageInv ==
  ASSUME PgInv, embedPage
  PROVE  PgInv'
<1>0. /\ pgScene' = pgScene /\ pgDb' = pgDb /\ pgTx' = pgTx /\ pgClient' = pgClient
      /\ pgAcks' = pgAcks /\ pgLeft' = pgLeft /\ pgMig.pc = "page" /\ PgMigOK
      /\ pgLeft \in PgLeftType
  BY DEF embedPage, PgInv, PgLeftOK
<1>1. PICK r : \/ pgMig' = PgNoMig
               \/ pgMig' = [pgMig EXCEPT !.pc = "apply"]
               \/ pgMig' = [pgMig EXCEPT !.after = r.id]
               \/ pgMig' = [pgMig EXCEPT !.after = r.id, !.pc = "stage",
                              !.page = {[id |-> r.id, text |-> r.text]}]
  BY DEF embedPage, PgSetMig
<1> PICK m : m = pgMig'  OBVIOUS
<1>2. MigNext(m)
  <2> PICK page : page = {[id |-> r.id, text |-> r.text]}  OBVIOUS
  <2>1. CASE m = PgNoMig  BY <2>1 DEF MigNext
  <2>2. CASE m = [pgMig EXCEPT !.pc = "apply"]  BY <1>0, <2>2 DEF MigNext, PgMigOK
  <2>3. CASE m = [pgMig EXCEPT !.after = r.id]  BY <1>0, <2>3 DEF MigNext, PgMigOK
  <2>4. CASE m = [pgMig EXCEPT !.after = r.id, !.pc = "stage", !.page = page]
    BY <1>0, <2>4 DEF MigNext, PgMigOK
  <2> QED BY <1>1, <2>1, <2>2, <2>3, <2>4
<1>3. PgMigOK'  BY <1>0, <1>2, MigGoesOn
<1> QED BY <1>0, <1>3, MigrationOnly

LEMMA StageInv ==
  ASSUME PgInv, writeStagedVectors
  PROVE  PgInv'
<1>0. /\ pgScene' = pgScene /\ pgTx' = pgTx /\ pgClient' = pgClient /\ namespaceWriteSerialized
      /\ pgAcks' = pgAcks /\ pgLeft' = pgLeft /\ pgMig.pc = "stage" /\ PgMigOK
      /\ pgLeft \in PgLeftType /\ PgSound(pgDb) /\ PgLeftOK
  BY DEF writeStagedVectors, PgInv, PgLeftOK
<1>1. \/ pgMig' = PgNoMig /\ pgDb' = pgDb
      \/ pgMig' = [pgMig EXCEPT !.pc = "page", !.page = {}]
         /\ \E s : pgDb' = [pgDb EXCEPT !.stage = s]
  BY DEF writeStagedVectors, PgSetMig
<1> PICK m : m = pgMig'  OBVIOUS
<1>2. MigNext(m)
  <2> PICK page : page = {}  OBVIOUS
  <2>1. CASE m = PgNoMig  BY <2>1 DEF MigNext
  <2>2. CASE m = [pgMig EXCEPT !.pc = "page", !.page = page]
    BY <1>0, <2>2 DEF MigNext, PgMigOK
  <2> QED BY <1>1, <2>1, <2>2
<1>3. PgMigOK'  BY <1>0, <1>2, MigGoesOn
<1>4. PICK e : pgDb' = e /\ PgSound(e) /\ e.gen = pgDb.gen /\ LogOf(e) = LogOf(pgDb)
  BY <1>0, <1>1, StageSound
<1>5. PgLeftOK'  BY <1>0, <1>4, LeftKept
<1> QED BY <1>0, <1>3, <1>4, <1>5, CommittedInv

\* The last transaction of a migration begins, ends, or the migration starts over.
LEMMA ApplyCases ==
  ASSUME PgMigrateApply
  PROVE  /\ pgScene' = pgScene /\ pgDb' = pgDb /\ pgClient' = pgClient /\ pgAcks' = pgAcks
         /\ pgLeft' = pgLeft /\ pgMig.pc = "apply" /\ namespaceWriteSerialized
         /\ \/ pgTx' = pgTx /\ (pgMig' = PgNoMig
                                \/ pgMig' = [pgMig EXCEPT !.pc = "plan", !.tries = @ + 1])
            \/ /\ PgExists(pgDb, "t") /\ pgPlan(pgDb, pgMig.change).ok
               /\ ~MigrationOut(pgDb, pgMig.change).left
               /\ pgMig' = [pgMig EXCEPT !.pc = "commit"]
               /\ \E s : pgTx' = [pgTx EXCEPT !["migrate"] =
                                    [MigrationOut(pgDb, pgMig.change).db EXCEPT !.stage = s]]
<1> PICK out : out = MigrationOut(pgDb, pgMig.change)  OBVIOUS
<1> PICK ok : ok = pgPlan(pgDb, pgMig.change).ok  OBVIOUS
<1>1. /\ pgMig.pc = "apply" /\ namespaceWriteSerialized
      /\ IF ~PgExists(pgDb, "t") \/ PgIncarnation(pgDb, "t") # pgMig.first \/ ~ok
         THEN PgSetMig(PgNoMig) /\ UNCHANGED pgTx
         ELSE IF out.left
         THEN /\ PgSetMig(IF pgMig.tries + 1 < PgAttempts
                          THEN [pgMig EXCEPT !.pc = "plan", !.tries = @ + 1] ELSE PgNoMig)
              /\ UNCHANGED pgTx
         ELSE /\ PgSetMig([pgMig EXCEPT !.pc = "commit"])
              /\ pgTx' = [pgTx EXCEPT !["migrate"] =
                   [out.db EXCEPT !.stage = {s \in @ : s.tab # "t"}]]
      /\ UNCHANGED <<pgScene, pgDb, pgClient, pgFeed, pgAcks, pgLeft>>
  BY DEF PgMigrateApply, MigrationOut
<1> PICK left : left = {s \in out.db.stage : s.tab # "t"}  OBVIOUS
<1>2. [out.db EXCEPT !.stage = {s \in @ : s.tab # "t"}] = [out.db EXCEPT !.stage = left]
  OBVIOUS
<1> QED BY <1>1, <1>2 DEF PgSetMig

LEMMA ApplyInv ==
  ASSUME PgInv, PgMigrateApply
  PROVE  PgInv'
<1> USE DEF PgInv
<1> PICK out : out = MigrationOut(pgDb, pgMig.change)  OBVIOUS
<1>0. /\ pgScene' = pgScene /\ pgDb' = pgDb /\ pgClient' = pgClient /\ pgAcks' = pgAcks
      /\ pgLeft' = pgLeft /\ pgMig.pc = "apply" /\ namespaceWriteSerialized
      /\ pgLeft \in PgLeftType
  BY ApplyCases DEF PgLeftOK
<1>1. CASE pgTx' = pgTx /\ (pgMig' = PgNoMig
                            \/ pgMig' = [pgMig EXCEPT !.pc = "plan", !.tries = @ + 1])
  <2> PICK m : m = pgMig'  OBVIOUS
  <2>1. MigNext(m)
    <3>1. CASE m = PgNoMig  BY <3>1 DEF MigNext
    <3>2. CASE m = [pgMig EXCEPT !.pc = "plan", !.tries = @ + 1]
      BY <1>0, <3>2 DEF MigNext, PgMigOK
    <3> QED BY <1>1, <3>1, <3>2
  <2>2. PgMigOK'  BY <1>0, <1>1, <2>1, MigGoesOn
  <2> QED BY <1>0, <1>1, <2>2, MigrationOnly
<1>2. CASE /\ PgExists(pgDb, "t") /\ pgPlan(pgDb, pgMig.change).ok /\ ~out.left
           /\ pgMig' = [pgMig EXCEPT !.pc = "commit"]
           /\ \E s : pgTx' = [pgTx EXCEPT !["migrate"] = [out.db EXCEPT !.stage = s]]
  <2>1. PICK s : pgTx' = [pgTx EXCEPT !["migrate"] = [out.db EXCEPT !.stage = s]]  BY <1>2
  <2> PICK e : e = [out.db EXCEPT !.stage = s]  OBVIOUS
  <2>2. pgMig.change \in {"on", "off", "unique"}
        /\ (pgMig.change = "unique" => "unique" \in pgScene)
    BY <1>0 DEF PgMigOK
  <2>3. PgSound(e) /\ e.gen = pgDb.gen /\ LogOf(e) = LogOf(pgDb)
    <3> PICK db : db = pgDb  OBVIOUS
    <3> PICK change : change = pgMig.change  OBVIOUS
    <3>1. Migration(db, change, e)  BY <1>2, <2>2 DEF Migration
    <3>2. PgSound(e) /\ e.gen = db.gen /\ LogOf(e) = LogOf(db)
      BY ONLY <3>1, MigrateSound
    <3> QED BY <3>2
  <2>4. pgDb.gen # 0 /\ "migrate" \in PgSessions  BY <1>2 DEF PgExists, PgSessions
  <2>5. /\ PgTxOK' /\ pgTx'["migrate"] = e /\ e # PgNoTx
        /\ \A r \in PgSessions \ {"migrate"} : pgTx'[r] = pgTx[r]
    BY <1>0, <2>1, <2>3, <2>4, TxOpens
  <2>6. PgMigOK'
    <3> PICK m : m = pgMig'  OBVIOUS
    <3>1. DOMAIN m = DOMAIN pgMig /\ m.change = pgMig.change /\ m.pc = "commit"
      BY <1>0, <1>2 DEF PgMigOK
    <3>2. MigOK(m)  BY <1>0, <3>1 DEF MigOK, PgMigOK
    <3> QED BY <1>0, <2>5, <3>1, <3>2, MigSet
  <2>7. PgClientsOK'
    <3>1. \A d \in PgClients : pgTx'[d] = pgTx[d]  BY <2>5 DEF PgSessions, PgClients
    <3> QED BY <1>0, <3>1, ClientsKept
  <2>8. PgSound(pgDb)'  BY <1>0, SceneKept
  <2>9. PgLeftOK'  BY <1>0, LeftKept
  <2> QED BY <1>0, <2>5, <2>6, <2>7, <2>8, <2>9
<1> QED BY <1>1, <1>2, ApplyCases

LEMMA MigrateCommitInv ==
  ASSUME PgInv, PgMigrateCommit
  PROVE  PgInv'
<1> USE DEF PgInv
<1> PICK tx : tx = pgTx["migrate"]  OBVIOUS
<1> PICK e : e = [tx EXCEPT !.cur = 0]  OBVIOUS
<1>0. /\ pgMig.pc = "commit" /\ pgDb' = e /\ pgTx' = [pgTx EXCEPT !["migrate"] = PgNoTx]
      /\ pgMig' = PgNoMig /\ pgScene' = pgScene /\ pgClient' = pgClient
      /\ pgLeft' = pgLeft /\ pgAcks' = pgAcks /\ pgLeft \in PgLeftType
  BY DEF PgMigrateCommit, PgPublish, PgSetMig, PgLeftOK
<1>1. Opened("migrate") /\ "migrate" \in PgSessions  BY <1>0 DEF PgMigOK, PgSessions
<1>2. PgSound(tx) /\ tx.gen = pgDb.gen /\ LogOf(pgDb) \subseteq LogOf(tx)
  BY <1>1 DEF PgTxOK
<1>3. PgSound(e) /\ e.gen = tx.gen /\ LogOf(e) = LogOf(tx)  BY <1>2, PublishSound
<1>4. PgSound(pgDb)'  BY <1>0, <1>3, SceneKept
<1>5. /\ PgTxOK' /\ pgTx'["migrate"] = PgNoTx
      /\ \A r \in PgSessions \ {"migrate"} : pgTx'[r] = pgTx[r]
  BY <1>0, <1>1, TxClosed
<1>6. PgClientsOK'
  <2>1. \A d \in PgClients : pgTx'[d] = pgTx[d]  BY <1>5 DEF PgSessions, PgClients
  <2> QED BY <1>0, <2>1, ClientsKept
<1>7. PgMigOK'  BY <1>0, <1>5, NoMigOK, MigSet
<1>8. PgLeftOK'  BY <1>0, <1>2, <1>3, LeftKept
<1> QED BY <1>0, <1>4, <1>5, <1>6, <1>7, <1>8

\* A step of the subscription, or none.
LEMMA FeedInv ==
  ASSUME PgInv, PgFeedOnly
  PROVE  PgInv'
<1>0. /\ pgScene' = pgScene /\ pgDb' = pgDb /\ pgTx' = pgTx /\ pgClient' = pgClient
      /\ pgAcks' = pgAcks /\ pgLeft' = pgLeft /\ pgMig' = pgMig
      /\ PgMigOK /\ pgLeft \in PgLeftType
  BY DEF PgFeedOnly, PgInv, PgLeftOK
<1>1. PgMigOK'  BY <1>0, MigKept
<1> QED BY <1>0, <1>1, MigrationOnly

LEMMA NextInv == PgInv /\ [PgNext]_pgVars => PgInv'
<1> SUFFICES ASSUME PgInv, [PgNext]_pgVars  PROVE PgInv'
  OBVIOUS
<1>1. ASSUME NEW c \in PgClients, PgClientStep(c)  PROVE PgInv'
  BY <1>1, CallInv, ReadInv, BeginInv, CommitInv, CommitLostInv DEF PgClientStep
<1>2. ASSUME NEW t \in PgTables, PgDropTable(t) \/ PgCreateTable(t)  PROVE PgInv'
  BY <1>2, DropTableInv, CreateTableInv
<1>3. CASE PgDropNamespace \/ PgCreateNamespace \/ dropAbandonedStages
  BY <1>3, DropNamespaceInv, CreateNamespaceInv, VacuumInv
<1>4. CASE PgMigrationStep
  BY <1>4, MigrateInv, MigrateReadInv, EmbedPageInv, StageInv, ApplyInv, MigrateCommitInv
     DEF PgMigrationStep
<1>5. CASE PgFeedStep
  <2>1. PgFeedOnly
    BY <1>5 DEF PgFeedStep, listenIncarnation, pgAnchorListen, PgReplayNext, pgGuard, pgPending,
                pgFetchLive, pgLivePage, pgWait, pgDrain
  <2> QED BY <2>1, FeedInv
<1>6. CASE UNCHANGED pgVars
  <2>1. PgFeedOnly  BY <1>6 DEF PgFeedOnly, pgVars
  <2> QED BY <2>1, FeedInv
<1> QED BY <1>1, <1>2, <1>3, <1>4, <1>5, <1>6 DEF PgNext

\* What is committed, and what every open transaction would commit, is sound:
\* vectors are of their rows' texts, a key's record and its place in the log
\* come together and end with the lifetime of its tables, and a key is in the
\* log under one commit id.  One write transaction is open at a time, the
\* namespace's lock, and everything acknowledged of the present generation is
\* in its log.
THEOREM DatabaseSound == PgSpec => []PgInv
BY InitInv, NextInv, PTL DEF PgSpec

\* In every scene and for any number of calls, losses, drops and migrations,
\* every committed row of a vectorized table carries the vector of the text it
\* holds, and no row of another table any: schema_json is compared in the write
\* transaction, and a migration commits only vectors staged for the row's text.
THEOREM VectorsFollowTexts == PgSpec => []PgVectors
<1>1. PgInv => PgVectors  BY DEF PgInv, PgSound, DbVectors, PgVectors
<1> QED BY <1>1, DatabaseSound, PTL

\* A keyed insert, import or batch is applied by one commit in the lifetimes of
\* its tables, whoever sends it again and whichever commits are lost, and an
\* insert, alone or in a batch, that was answered with success is in the log:
\* the record is looked for inside the write transaction and stored with what
\* it records.
THEOREM KeyedCallsApplyOnce == PgSpec => []PgOnce
<1>1. ASSUME PgInv  PROVE PgOnce
  <2>1. PgLog = LogOf(pgDb)  BY DEF PgLog, LogOf
  <2>2. \A a, b \in PgLog : a.key = b.key /\ a.key # NoTag => a.commit = b.commit
    BY <1>1, <2>1 DEF PgInv, PgSound, DbOneCommit
  <2>3. \A k \in pgAcks : k.gen = pgDb.gen /\ HasInsert(k.ws) => \E a \in PgLog : a.key = k.tag
    BY <1>1 DEF PgInv, PgLeftOK
  <2> QED BY <2>2, <2>3 DEF PgOnce, HasInsert
<1> QED BY <1>1, DatabaseSound, PTL

-----------------------------------------------------------------------------
(* The declared constraints.                                                *)

\* An import is the one write whose constraints are not checked: no scene
\* imports into a table that declares any.
UnconstrainedImports ==
  \A s \in PgScenes : "import" \in s => "unique" \notin s /\ "refs" \notin s

ConstraintsInv ==
  /\ DbConstraints(pgDb)
  /\ \A s \in PgSessions : Opened(s) => DbConstraints(pgTx[s])

SameRows(db, e) ==
  \A t \in PgTables : /\ e.tab[t].rows = db.tab[t].rows /\ e.tab[t].cons = db.tab[t].cons
                      /\ e.tab[t].active = db.tab[t].active

LEMMA SameRowsKeep ==
  ASSUME NEW db, DbConstraints(db), NEW e, SameRows(db, e)
  PROVE  DbConstraints(e)
<1>1. "p" \in PgTables  BY DEF PgTables
<1>2. \A t \in PgTables : CheckUnique(db, t) => CheckUnique(e, t)  BY DEF SameRows, CheckUnique
<1>3. \A t \in PgTables : CheckForeign(db, t) => CheckForeign(e, t)
  BY <1>1 DEF SameRows, CheckForeign
<1> QED BY <1>2, <1>3 DEF DbConstraints, SameRows

\* Only t has constraints.
TableT(db) == db.tab["t"].active => CheckUnique(db, "t") /\ CheckForeign(db, "t")

LEMMA OnlyT ==
  ASSUME NEW db, DbDeclared(db)
  PROVE  DbConstraints(db) <=> TableT(db)
<1>1. CheckUnique(db, "p") /\ CheckForeign(db, "p")
  BY DEF DbDeclared, CheckUnique, CheckForeign
<1> QED BY <1>1 DEF DbConstraints, TableT, PgTables

\* One write, checked unless it is an import.
LEMMA WriteKeeps ==
  ASSUME NEW db, DbDeclared(db), DbConstraints(db), NEW w \in PgWriteType, NEW tag,
         NEW d, Effect(db, w, tag, d), Passes(db, w, d),
         w.op = "import" => db.tab["t"].cons = {}
  PROVE  DbConstraints(d)
<1>0. Wrote(db, d, tag)  BY DEF Effect
<1>1. DbDeclared(d)  BY <1>0, WroteDeclared
<1>2. \A u \in PgTables : d.tab[u].active = db.tab[u].active /\ d.tab[u].cons = db.tab[u].cons
  BY <1>0 DEF Wrote, TableWrote
<1>3. TableT(db)  BY OnlyT
<1>4. "t" \in PgTables /\ "p" \in PgTables /\ w.tab \in {"t", "p"}  BY DEF PgTables, PgWriteType
<1> SUFFICES ASSUME d.tab["t"].active  PROVE CheckUnique(d, "t") /\ CheckForeign(d, "t")
  BY <1>1, OnlyT DEF TableT
<1>5. CheckUnique(db, "t") /\ CheckForeign(db, "t")  BY <1>2, <1>3, <1>4 DEF TableT
<1>6. CASE w.op = "import"
  BY <1>2, <1>4, <1>6 DEF CheckUnique, CheckForeign
<1>7. CASE w.op # "import" /\ d.head = db.head
  <2>1. \A u \in PgTables : d.tab[u].rows = db.tab[u].rows  BY <1>7 DEF Effect
  <2>2. SameRows(db, d)  BY <1>2, <2>1 DEF SameRows
  <2>3. DbConstraints(d)  BY <2>2, SameRowsKeep
  <2> QED BY <1>4, <2>3 DEF DbConstraints
<1>8. CASE w.op # "import" /\ d.head # db.head
  <2>1. checkConstraints(d, w.tab, w.op = "delete")  BY <1>8 DEF Passes, constrained
  <2>2. CASE w.tab = "t"
    BY <2>1, <2>2 DEF checkConstraints, SelectChecks
  <2>3. CASE w.tab = "p"
    <3>1. d.tab["t"] = db.tab["t"]  BY <1>4, <2>3 DEF Effect
    <3>2. CheckUnique(d, "t")  BY <1>5, <3>1 DEF CheckUnique
    <3>3. CASE w.op = "delete"
      <4>1. CheckForeign(d, "t")  BY <1>4, <2>1, <3>3 DEF checkConstraints, SelectChecks
      <4> QED BY <3>2, <4>1
    <3>4. CASE w.op # "delete"
      <4>1. RowsKept(db.tab["p"], d.tab["p"])  BY <2>3, <3>4 DEF Effect
      <4>2. CheckForeign(d, "t")
        <5> SUFFICES ASSUME "foreign" \in d.tab["t"].cons
                     PROVE  /\ d.tab["p"].active
                            /\ \A r \in d.tab["t"].rows :
                                 r.ref # 0 => \E q \in d.tab["p"].rows : q.id = r.ref
          BY DEF CheckForeign
        <5>1. db.tab["p"].active
              /\ \A r \in db.tab["t"].rows : r.ref # 0 => \E q \in db.tab["p"].rows : q.id = r.ref
          BY <1>5, <3>1 DEF CheckForeign
        <5> QED BY <1>2, <1>4, <3>1, <4>1, <5>1 DEF RowsKept
      <4> QED BY <3>2, <4>2
    <3> QED BY <3>3, <3>4
  <2> QED BY <1>4, <2>2, <2>3
<1> QED BY <1>6, <1>7, <1>8

\* The writes of a call.
LEMMA CallKeeps ==
  ASSUME NEW db, DbDeclared(db), DbConstraints(db), NEW call, CallOK(call), NEW tag,
         call.kind = "import" => db.tab["t"].cons = {},
         NEW out, CallWrote(db, call, tag, out)
  PROVE  DbConstraints(out.db)
<1>0. call.ws \in Seq(PgWriteType)  BY DEF CallOK, PgCallType
<1>1. CASE call.kind = "batch"
  <2>0. Len(call.ws) = 2  BY <1>1 DEF CallOK
  <2> PICK v : v = call.ws[1]  OBVIOUS
  <2> PICK w : w = call.ws[2]  OBVIOUS
  <2>1. v \in PgWriteType /\ w \in PgWriteType  BY <1>0, <2>0
  <2>2. v.op # "import" /\ w.op # "import"  BY <1>1 DEF CallOK
  <2>3. PICK e : /\ Effect(db, v, tag, e) /\ Passes(db, v, e)
                 /\ Effect(e, w, tag, out.db) /\ Passes(e, w, out.db)
    BY <1>1 DEF CallWrote, BatchWrote
  <2>4. DbConstraints(e)  BY <2>1, <2>2, <2>3, WriteKeeps
  <2>5. DbDeclared(e)
    <3>1. Wrote(db, e, tag)  BY <2>3 DEF Effect
    <3> QED BY <3>1, WroteDeclared
  <2> QED BY <2>1, <2>2, <2>3, <2>4, <2>5, WriteKeeps
<1>2. CASE call.kind # "batch"
  <2> PICK w : w = call.ws[1]  OBVIOUS
  <2>0. Len(call.ws) = 1  BY <1>2 DEF CallOK
  <2>1. w \in PgWriteType  BY <1>0, <2>0
  <2>2. Effect(db, w, tag, out.db) /\ Passes(db, w, out.db)  BY <1>2 DEF CallWrote
  <2>3. w.op = "import" => db.tab["t"].cons = {}
    BY <1>2 DEF CallOK, PgCallType
  <2> QED BY <2>1, <2>2, <2>3, WriteKeeps
<1> QED BY <1>1, <1>2

LEMMA DropKeeps ==
  ASSUME NEW db, PgSound(db), DbConstraints(db), NEW t \in PgTables, db.tab[t].active,
         ~referencing(db, t), NEW e, DropTable(db, t, e)
  PROVE  DbConstraints(e)
<1>0. PgShape(db) /\ PgSound(e)  BY DropSound DEF PgSound
<1>1. /\ \A u \in PgTables \ {t} : e.tab[u] = db.tab[u]
      /\ ~e.tab[t].active
  BY <1>0, DropFields
<1>2. TableT(db) /\ DbDeclared(e)  BY <1>0, OnlyT DEF PgSound
<1>3. TableT(e)
  <2>1. CASE t = "t"  BY <1>1, <2>1 DEF TableT
  <2>2. CASE t = "p"
    <3>1. e.tab["t"] = db.tab["t"]  BY <1>1, <2>2 DEF PgTables
    <3>2. e.tab["t"].active => "foreign" \notin e.tab["t"].cons
      BY <2>2, <3>1 DEF referencing
    <3> QED BY <1>2, <3>1, <3>2 DEF TableT, CheckUnique, CheckForeign
  <2> QED BY <2>1, <2>2 DEF PgTables
<1> QED BY <1>2, <1>3, OnlyT

LEMMA CreateKeeps ==
  ASSUME NEW db, PgSound(db), DbConstraints(db), NEW t \in PgTables, ~db.tab[t].active,
         NEW n, n = tableDDL(db.tab[t].drop, IF t = "t" THEN Constrained ELSE {}),
         NEW e, e = putTable(db, t, n), checkConstraints(e, t, FALSE)
  PROVE  DbConstraints(e)
<1>1. /\ PgSound(e) /\ e.tab[t] = n /\ \A u \in PgTables \ {t} : e.tab[u] = db.tab[u]
  BY CreateSound
<1>2. TableT(db) /\ DbDeclared(e)  BY <1>1, OnlyT DEF PgSound
<1>3. TableT(e)
  <2>1. CASE t = "t"  BY <2>1 DEF TableT, checkConstraints, SelectChecks
  <2>2. CASE t = "p"
    <3>1. e.tab["t"] = db.tab["t"]  BY <1>1, <2>2 DEF PgTables
    <3>2. e.tab["t"].active => "foreign" \notin e.tab["t"].cons
      BY <1>2, <2>2, <3>1 DEF TableT, CheckForeign
    <3> QED BY <1>2, <3>1, <3>2 DEF TableT, CheckUnique, CheckForeign
  <2> QED BY <2>1, <2>2 DEF PgTables
<1> QED BY <1>2, <1>3, OnlyT

LEMMA MigrationKeeps ==
  ASSUME NEW db, NEW change, NEW e, Migration(db, change, e), DbConstraints(db),
         pgPlan(db, change).ok
  PROVE  DbConstraints(e)
<1> PICK out : out = MigrationOut(db, change)  OBVIOUS
<1> PICK plan : plan = pgPlan(db, change)  OBVIOUS
<1> PICK d : d = out.db  OBVIOUS
<1>0. /\ PgSound(db) /\ change \in {"on", "off", "unique"} /\ ~out.left
      /\ PgShape(db) /\ DbVectors(db) /\ "t" \in PgTables /\ "p" \in PgTables
  BY DEF Migration, PgSound, PgTables
<1>1. PgSound(e) /\ e.tab = d.tab  BY MigrateSound
<1>2. PICK n : Migrated(db.tab["t"], n, change) /\ d = putTable(db, "t", n)
  BY <1>0, MigratesTable
<1>3. n \in PgTableType /\ IsFiniteSet(n.rows) /\ n.active = db.tab["t"].active
      /\ Remade(db.tab["t"], n) /\ (change # "unique" => n.cons = db.tab["t"].cons)
  BY <1>2 DEF Migrated
<1>4. d.tab["t"] = n /\ d.tab["p"] = db.tab["p"]
  <2>1. d.tab["t"] = n /\ \A u \in PgTables \ {"t"} : d.tab[u] = db.tab[u]
    BY <1>0, <1>2, <1>3, Put
  <2> QED BY <2>1, <1>0
<1>5. DbDeclared(e) /\ TableT(db)  BY <1>0, <1>1, OnlyT DEF PgSound
<1> SUFFICES ASSUME d.tab["t"].active  PROVE CheckUnique(d, "t") /\ CheckForeign(d, "t")
  <2>1. TableT(d)  BY DEF TableT
  <2>2. TableT(e)  BY <1>1, <2>1 DEF TableT, CheckUnique, CheckForeign
  <2> QED BY <1>5, <2>2, OnlyT
<1>6. CASE change = "unique"
  <2> PICK m : m = PlannedTable(db.tab["t"], change)  OBVIOUS
  <2>1. /\ plan.embedding <=> (change = "on" /\ ~db.tab["t"].vec)
        /\ plan.ok <=> (change = "unique" => /\ "unique" \notin db.tab["t"].cons
                                             /\ checkConstraints(plan.db, "t", TRUE))
    BY PlansTable
  <2>2. checkConstraints(plan.db, "t", TRUE)  BY <1>6, <2>1
  <2>3. out = [left |-> FALSE, db |-> plan.db]  BY <1>6, <2>1 DEF MigrationOut
  <2>4. d = plan.db  BY <2>3
  <2> QED BY <2>2, <2>4, <1>0 DEF checkConstraints, SelectChecks
<1>7. CASE change # "unique"
  <2> PICK o : o = db.tab["t"]  OBVIOUS
  <2>1. PICK g : /\ n.rows = {g[x] : x \in o.rows}
                 /\ \A x \in o.rows : g[x].text = x.text /\ g[x].ref = x.ref
    BY <1>3 DEF Remade
  <2>2. CheckUnique(db, "t") /\ CheckForeign(db, "t")  BY <1>3, <1>4, <1>5 DEF TableT
  <2>3. CheckUnique(d, "t")
    <3> SUFFICES ASSUME "unique" \in n.cons, NEW r \in n.rows, NEW s \in n.rows, r.text = s.text
                 PROVE  r = s
      BY <1>4 DEF CheckUnique
    <3>1. PICK x \in o.rows : r = g[x]  BY <2>1
    <3>2. PICK y \in o.rows : s = g[y]  BY <2>1
    <3>3. x.text = y.text  BY <2>1, <3>1, <3>2
    <3>4. x = y  BY <1>3, <1>7, <2>2, <3>3 DEF CheckUnique
    <3> QED BY <3>1, <3>2, <3>4
  <2>4. CheckForeign(d, "t")
    <3> SUFFICES ASSUME "foreign" \in n.cons
                 PROVE  /\ db.tab["p"].active
                        /\ \A r \in n.rows : r.ref # 0 => \E q \in db.tab["p"].rows : q.id = r.ref
      BY <1>4 DEF CheckForeign
    <3>1. db.tab["p"].active
          /\ \A r \in o.rows : r.ref # 0 => \E q \in db.tab["p"].rows : q.id = r.ref
      BY <1>3, <1>7, <2>2 DEF CheckForeign
    <3>2. ASSUME NEW r \in n.rows, r.ref # 0  PROVE \E q \in db.tab["p"].rows : q.id = r.ref
      <4>1. PICK x \in o.rows : r = g[x]  BY <2>1
      <4>2. x.ref = r.ref  BY <2>1, <4>1
      <4> QED BY <3>1, <3>2, <4>2
    <3> QED BY <3>1, <3>2
  <2> QED BY <2>3, <2>4
<1> QED BY <1>6, <1>7

LEMMA ConstraintsUnchanged ==
  ASSUME ConstraintsInv, pgDb' = pgDb, pgTx' = pgTx
  PROVE  ConstraintsInv'
<1>1. DbConstraints(pgDb)'  BY DEF ConstraintsInv
<1>2. \A s \in PgSessions : Opened(s)' => DbConstraints(pgTx[s])'  BY DEF ConstraintsInv, Opened
<1> QED BY <1>1, <1>2 DEF ConstraintsInv

\* No transaction is open after the step.
LEMMA ConstraintsCommitted ==
  ASSUME NEW e, pgDb' = e, DbConstraints(e), \A s \in PgSessions : pgTx'[s] = PgNoTx
  PROVE  ConstraintsInv'
<1>1. DbConstraints(pgDb)'  OBVIOUS
<1>2. \A s \in PgSessions : ~Opened(s)'  BY DEF Opened
<1> QED BY <1>1, <1>2 DEF ConstraintsInv

LEMMA ConstraintsOpen ==
  ASSUME PgTxOK, ConstraintsInv, namespaceWriteSerialized, pgDb' = pgDb, NEW c \in PgSessions,
         NEW e, pgTx' = [pgTx EXCEPT ![c] = e], DbConstraints(e)
  PROVE  ConstraintsInv'
<1>1. DbConstraints(pgDb)'  BY DEF ConstraintsInv
<1>2. pgTx'[c] = e /\ \A s \in PgSessions \ {c} : pgTx'[s] = PgNoTx
  BY DEF PgTxOK, namespaceWriteSerialized
<1>3. \A s \in PgSessions : Opened(s)' => DbConstraints(pgTx[s])'  BY <1>2 DEF Opened
<1> QED BY <1>1, <1>3 DEF ConstraintsInv

LEMMA NoneAfterClose ==
  ASSUME PgTxOK, NEW c \in PgSessions, Opened(c), pgTx' = [pgTx EXCEPT ![c] = PgNoTx]
  PROVE  \A s \in PgSessions : pgTx'[s] = PgNoTx
<1>1. pgTx'[c] = PgNoTx /\ \A s \in PgSessions \ {c} : pgTx'[s] = pgTx[s]  BY TxClosed
<1> QED BY <1>1 DEF PgTxOK, Opened

LEMMA ConstraintsInit ==
  ASSUME PgInit
  PROVE  ConstraintsInv
<1>1. \A s \in PgSessions : ~Opened(s)  BY DEF PgInit, Opened
<1> PICK c : c = IF "migrate" \in pgScene THEN Constrained \ {"unique"} ELSE Constrained
  OBVIOUS
<1> PICK tab : tab = [t \in PgTables |-> tableDDL(0, IF t = "t" THEN c ELSE {})]  OBVIOUS
<1>2. pgDb = [gen |-> 1, head |-> 0, commit |-> 0, cur |-> 0, changes |-> <<>>,
              tab |-> tab, keys |-> {}, stage |-> {}]
  BY DEF PgDatabase, PgInit
<1>3. pgDb.tab = tab  BY ONLY <1>2
<1>4. \A t \in PgTables : tab[t].rows = {} /\ tab[t].active
  BY DEF tableDDL
<1>5. DbConstraints(pgDb)
  BY <1>3, <1>4 DEF DbConstraints, CheckUnique, CheckForeign, PgTables
<1> QED BY <1>1, <1>5 DEF ConstraintsInv

LEMMA ConstraintsBegin ==
  ASSUME UnconstrainedImports, PgInv, ConstraintsInv, NEW c \in PgClients, PgBegin(c)
  PROVE  ConstraintsInv'
<1> USE DEF PgInv
<1> PICK call : call = pgClient[c].call  OBVIOUS
<1> PICK w : w = call.ws[1]  OBVIOUS
<1> PICK st : st = PgFresh(call, pgClient[c].st, pgDb)  OBVIOUS
<1> PICK out : out = CallOut(pgDb, call, st)  OBVIOUS
<1> PICK tag : tag = PgTag(pgDb, call)  OBVIOUS
<1> PICK e : e = storeIdempotency(out.db, call, tag)  OBVIOUS
<1>0. /\ pgClient[c].pc = "write" /\ namespaceWriteSerialized
      /\ \/ pgDb' = pgDb /\ pgTx' = pgTx
         \/ /\ schemaUnchanged(pgDb, w, st)
            /\ \/ out.ok /\ pgDb' = pgDb /\ pgTx' = [pgTx EXCEPT ![c] = e]
               \/ pgTx' = pgTx /\ pgDb' = rollbackContext(pgDb, out.db)
  <2>1. /\ pgClient[c].pc = "write" /\ namespaceWriteSerialized
        /\ \/ BeginStops(c, call)
           \/ BeginAgain(c, call)
           \/ BeginFresh(call, st) /\ (BeginOpens(c, call, out) \/ BeginFails(c, out))
    BY BeginCases
  <2> QED BY <2>1 DEF BeginStops, BeginAgain, BeginFresh, BeginOpens, BeginFails
<1>1. call \in PgMenu  BY <1>0 DEF PgClientsOK, ClientOK
<1>2. CallOK(call)  BY <1>1, MenuCalls
<1>3. c \in PgSessions /\ PgShape(pgDb) /\ DbDeclared(pgDb) /\ DbConstraints(pgDb)
  BY DEF PgSessions, PgSound, ConstraintsInv
<1>4. CASE pgDb' = pgDb /\ pgTx' = pgTx  BY <1>4, ConstraintsUnchanged
<1>5. ASSUME schemaUnchanged(pgDb, w, st)
      PROVE  Wrote(pgDb, out.db, tag) /\ (out.ok => CallWrote(pgDb, call, tag, out))
  <2>1. st = decodeTableState(pgDb, w.tab)  BY <1>5 DEF schemaUnchanged
  <2>2. decodeTableState(pgDb, w.tab).vec = pgDb.tab[w.tab].vec
    BY ONLY TRUE DEF decodeTableState
  <2>3. st.vec = pgDb.tab[w.tab].vec  BY <2>1, <2>2
  <2> QED BY <1>2, <1>3, <2>3, CallWrites
<1>6. CASE /\ schemaUnchanged(pgDb, w, st) /\ out.ok /\ pgDb' = pgDb
           /\ pgTx' = [pgTx EXCEPT ![c] = e]
  <2>0. Wrote(pgDb, out.db, tag) /\ CallWrote(pgDb, call, tag, out)  BY <1>5, <1>6
  <2>1. call.kind = "import" => pgDb.tab["t"].cons = {}
    <3>1. pgDb.tab["t"].cons \subseteq {"unique", "foreign"}
      BY <1>3 DEF PgShape, PgTables, PgTableType
    <3>2. call.kind = "import" => "unique" \notin pgScene /\ "refs" \notin pgScene
      BY <1>2 DEF CallOK, UnconstrainedImports
    <3> QED BY <1>3, <3>1, <3>2 DEF DbDeclared
  <2>2. DbConstraints(out.db)  BY <1>2, <1>3, <2>0, <2>1, CallKeeps
  <2>3. tag \in PgTagType  BY <1>2, <1>3, TagOfCall
  <2>4. e.tab = out.db.tab
    <3>1. PgShape(out.db)  BY <1>3, <2>0, <2>3, WroteShape
    <3> PICK d : d = out.db  OBVIOUS
    <3>2. d = [f \in PgDbFields |-> d[f]]  BY <3>1 DEF PgShape
    <3>3. e = storeIdempotency(d, call, tag)  OBVIOUS
    <3>4. e.tab = d.tab  BY ONLY <3>2, <3>3 DEF storeIdempotency, PgDbFields
    <3> QED BY <3>4
  <2>5. SameRows(out.db, e)  BY <2>4 DEF SameRows
  <2>6. DbConstraints(e)  BY <2>2, <2>5, SameRowsKeep
  <2> QED BY <1>0, <1>3, <1>6, <2>6, ConstraintsOpen
<1>7. CASE /\ schemaUnchanged(pgDb, w, st) /\ pgTx' = pgTx
           /\ pgDb' = rollbackContext(pgDb, out.db)
  <2> PICK d : d = rollbackContext(pgDb, out.db)  OBVIOUS
  <2>1. out.db.tab \in [PgTables -> PgTableType]  BY <1>5, <1>7 DEF Wrote
  <2>2. SameRows(pgDb, d)  BY <2>1, RollbackSound DEF SameRows
  <2>3. DbConstraints(d)  BY <1>3, <2>2, SameRowsKeep
  <2> QED BY <1>0, <1>7, <2>3, ConstraintsCommitted DEF namespaceWriteSerialized
<1> QED BY <1>0, <1>4, <1>6, <1>7

LEMMA ConstraintsEnd ==
  ASSUME PgInv, ConstraintsInv, NEW c \in PgClients, PgCommit(c) \/ PgCommitLost(c)
  PROVE  ConstraintsInv'
<1> USE DEF PgInv
<1> PICK tx : tx = pgTx[c]  OBVIOUS
<1>0. /\ pgClient[c].pc = "commit" /\ pgTx' = [pgTx EXCEPT ![c] = PgNoTx]
      /\ pgDb' = [tx EXCEPT !.cur = 0] \/ pgDb' = rollbackContext(pgDb, tx)
  BY DEF PgCommit, PgCommitLost, PgPublish
<1>1. Opened(c) /\ c \in PgSessions /\ PgSound(tx)  BY <1>0, CommitFacts
<1>2. \A s \in PgSessions : pgTx'[s] = PgNoTx  BY <1>0, <1>1, NoneAfterClose
<1>3. DbConstraints(pgDb) /\ DbConstraints(tx)  BY <1>1 DEF ConstraintsInv
<1>4. CASE pgDb' = [tx EXCEPT !.cur = 0]
  <2> PICK e : e = [tx EXCEPT !.cur = 0]  OBVIOUS
  <2>1. e.tab = tx.tab  BY <1>1, PublishSound
  <2>2. SameRows(tx, e)  BY <2>1 DEF SameRows
  <2>3. DbConstraints(e)  BY <1>3, <2>2, SameRowsKeep
  <2> QED BY <1>2, <1>4, <2>3, ConstraintsCommitted
<1>5. CASE pgDb' = rollbackContext(pgDb, tx)
  <2> PICK d : d = rollbackContext(pgDb, tx)  OBVIOUS
  <2>1. tx.tab \in [PgTables -> PgTableType]  BY <1>1 DEF PgSound, PgShape
  <2>2. SameRows(pgDb, d)  BY <2>1, RollbackSound DEF SameRows
  <2>3. DbConstraints(d)  BY <1>3, <2>2, SameRowsKeep
  <2> QED BY <1>2, <1>5, <2>3, ConstraintsCommitted
<1> QED BY <1>0, <1>4, <1>5

LEMMA ConstraintsTables ==
  ASSUME PgInv, ConstraintsInv, NEW t \in PgTables, PgDropTable(t) \/ PgCreateTable(t)
  PROVE  ConstraintsInv'
<1> USE DEF PgInv
<1>0. PgSound(pgDb) /\ DbConstraints(pgDb)  BY DEF ConstraintsInv
<1>1. CASE PgDropTable(t)
  <2> PICK e : e = pgDb'  OBVIOUS
  <2>0. namespaceWriteSerialized /\ pgTx' = pgTx /\ pgDb.tab[t].active /\ ~referencing(pgDb, t)
    BY <1>1 DEF PgDropTable, PgExists
  <2>1. DropTable(pgDb, t, e)  BY <1>1 DEF PgDropTable, DropTable
  <2>2. DbConstraints(e)  BY <1>0, <2>0, <2>1, DropKeeps
  <2> QED BY <2>0, <2>2, ConstraintsCommitted DEF namespaceWriteSerialized
<1>2. CASE PgCreateTable(t)
  <2> PICK n : n = tableDDL(pgDb.tab[t].drop, IF t = "t" THEN Constrained ELSE {})  OBVIOUS
  <2> PICK e : e = putTable(pgDb, t, n)  OBVIOUS
  <2>0. /\ namespaceWriteSerialized /\ pgTx' = pgTx /\ ~pgDb.tab[t].active
        /\ checkConstraints(e, t, FALSE) /\ pgDb' = e
    BY <1>2 DEF PgCreateTable
  <2>1. DbConstraints(e)  BY <1>0, <2>0, CreateKeeps
  <2> QED BY <2>0, <2>1, ConstraintsCommitted DEF namespaceWriteSerialized
<1> QED BY <1>1, <1>2

LEMMA ConstraintsNamespace ==
  ASSUME PgInv, ConstraintsInv,
         PgDropNamespace \/ PgCreateNamespace \/ dropAbandonedStages \/ writeStagedVectors
  PROVE  ConstraintsInv'
<1> USE DEF PgInv
<1>0. PgSound(pgDb) /\ PgShape(pgDb) /\ DbConstraints(pgDb)  BY DEF ConstraintsInv, PgSound
<1>1. CASE PgDropNamespace
  <2> PICK e : e = pgDb'  OBVIOUS
  <2>0. namespaceWriteSerialized /\ pgTx' = pgTx
        /\ e = [PgDatabase(0, {}) EXCEPT !.tab = NoTables]
    BY <1>1 DEF PgDropNamespace, PgAlone, NoTables
  <2>1. e.tab = NoTables  BY <2>0 DEF PgDatabase
  <2>2. DbConstraints(e)  BY <2>1, NoTablesType DEF DbConstraints
  <2> QED BY <2>0, <2>2, ConstraintsCommitted DEF namespaceWriteSerialized
<1>2. CASE PgCreateNamespace
  <2> PICK g : g = NextGen  OBVIOUS
  <2> PICK e : e = [pgDb EXCEPT !.gen = g]  OBVIOUS
  <2>0. pgDb.gen = 0 /\ pgTx' = pgTx /\ pgDb' = e  BY <1>2 DEF PgCreateNamespace, NextGen
  <2>1. \A s \in PgSessions : pgTx'[s] = PgNoTx  BY <2>0 DEF PgTxOK, Opened
  <2>2. e.tab = pgDb.tab  BY <1>0 DEF PgShape, PgDbFields
  <2>3. SameRows(pgDb, e)  BY <2>2 DEF SameRows
  <2>4. DbConstraints(e)  BY <1>0, <2>3, SameRowsKeep
  <2> QED BY <2>0, <2>1, <2>4, ConstraintsCommitted
<1>3. CASE dropAbandonedStages \/ writeStagedVectors
  <2>0. /\ namespaceWriteSerialized /\ pgTx' = pgTx
        /\ pgDb' = pgDb \/ \E s : pgDb' = [pgDb EXCEPT !.stage = s]
    BY <1>3 DEF dropAbandonedStages, writeStagedVectors
  <2>1. PICK e : pgDb' = e /\ e.tab = pgDb.tab  BY <1>0, <2>0, StageSound
  <2>2. SameRows(pgDb, e)  BY <2>1 DEF SameRows
  <2>3. DbConstraints(e)  BY <1>0, <2>2, SameRowsKeep
  <2> QED BY <2>0, <2>1, <2>3, ConstraintsCommitted DEF namespaceWriteSerialized
<1> QED BY <1>1, <1>2, <1>3

LEMMA ConstraintsMigration ==
  ASSUME PgInv, ConstraintsInv, PgMigrateApply \/ PgMigrateCommit
  PROVE  ConstraintsInv'
<1> USE DEF PgInv
<1>1. CASE PgMigrateApply
  <2> PICK out : out = MigrationOut(pgDb, pgMig.change)  OBVIOUS
  <2>0. pgDb' = pgDb /\ pgMig.pc = "apply" /\ namespaceWriteSerialized  BY <1>1, ApplyCases
  <2>1. CASE pgTx' = pgTx  BY <2>0, <2>1, ConstraintsUnchanged
  <2>2. CASE /\ pgPlan(pgDb, pgMig.change).ok /\ ~out.left
             /\ \E s : pgTx' = [pgTx EXCEPT !["migrate"] = [out.db EXCEPT !.stage = s]]
    <3>1. PICK s : pgTx' = [pgTx EXCEPT !["migrate"] = [out.db EXCEPT !.stage = s]]  BY <2>2
    <3> PICK e : e = [out.db EXCEPT !.stage = s]  OBVIOUS
    <3> PICK db : db = pgDb  OBVIOUS
    <3> PICK change : change = pgMig.change  OBVIOUS
    <3>2. Migration(db, change, e)  BY <2>0, <2>2 DEF Migration, PgMigOK
    <3>3. DbConstraints(db) /\ pgPlan(db, change).ok  BY <2>2 DEF ConstraintsInv
    <3>4. DbConstraints(e)  BY ONLY <3>2, <3>3, MigrationKeeps
    <3>5. "migrate" \in PgSessions  BY DEF PgSessions
    <3> QED BY <2>0, <3>1, <3>4, <3>5, ConstraintsOpen
  <2> QED BY <1>1, <2>1, <2>2, ApplyCases
<1>2. CASE PgMigrateCommit
  <2> PICK tx : tx = pgTx["migrate"]  OBVIOUS
  <2> PICK e : e = [tx EXCEPT !.cur = 0]  OBVIOUS
  <2>0. pgMig.pc = "commit" /\ pgDb' = e /\ pgTx' = [pgTx EXCEPT !["migrate"] = PgNoTx]
    BY <1>2 DEF PgMigrateCommit, PgPublish
  <2>1. Opened("migrate") /\ "migrate" \in PgSessions  BY <2>0 DEF PgMigOK, PgSessions
  <2>2. PgSound(tx) /\ DbConstraints(tx)  BY <2>1 DEF PgTxOK, ConstraintsInv
  <2>3. e.tab = tx.tab  BY <2>2, PublishSound
  <2>4. SameRows(tx, e)  BY <2>3 DEF SameRows
  <2>5. DbConstraints(e)  BY <2>2, <2>4, SameRowsKeep
  <2>6. \A s \in PgSessions : pgTx'[s] = PgNoTx  BY <2>0, <2>1, NoneAfterClose
  <2> QED BY <2>0, <2>5, <2>6, ConstraintsCommitted
<1> QED BY <1>1, <1>2

LEMMA ConstraintsNext ==
  ASSUME UnconstrainedImports, PgInv, ConstraintsInv, [PgNext]_pgVars
  PROVE  ConstraintsInv'
<1>1. ASSUME NEW c \in PgClients, PgCall(c) \/ PgRead(c)  PROVE ConstraintsInv'
  BY <1>1, ConstraintsUnchanged DEF PgCall, PgRead
<1>2. ASSUME NEW c \in PgClients, PgBegin(c)  PROVE ConstraintsInv'
  BY <1>2, ConstraintsBegin
<1>3. ASSUME NEW c \in PgClients, PgCommit(c) \/ PgCommitLost(c)  PROVE ConstraintsInv'
  BY <1>3, ConstraintsEnd
<1>4. ASSUME NEW t \in PgTables, PgDropTable(t) \/ PgCreateTable(t)  PROVE ConstraintsInv'
  BY <1>4, ConstraintsTables
<1>5. CASE PgDropNamespace \/ PgCreateNamespace \/ dropAbandonedStages \/ writeStagedVectors
  BY <1>5, ConstraintsNamespace
<1>6. CASE PgMigrate \/ PgMigrateRead \/ embedPage
  BY <1>6, ConstraintsUnchanged DEF PgMigrate, PgMigrateRead, embedPage
<1>7. CASE PgMigrateApply \/ PgMigrateCommit  BY <1>7, ConstraintsMigration
<1>8. CASE PgFeedStep
  BY <1>8, ConstraintsUnchanged
     DEF PgFeedStep, PgFeedOnly, listenIncarnation, pgAnchorListen, PgReplayNext, pgGuard,
         pgPending, pgFetchLive, pgLivePage, pgWait, pgDrain
<1>9. CASE UNCHANGED pgVars  BY <1>9, ConstraintsUnchanged DEF pgVars
<1> QED BY <1>1, <1>2, <1>3, <1>4, <1>5, <1>6, <1>7, <1>8, <1>9
        DEF PgNext, PgClientStep, PgMigrationStep

\* Where no scene imports into a table with a unique or a foreign constraint,
\* the declared constraints hold of what is committed, for any number of
\* writes, batches, deletes, drops, migrations and lost commits: a write is
\* checked before it commits, a delete with the references to it, a drop is
\* refused while a table refers to it.  The hypothesis is needed: importRows
\* checks no constraint, so an import beside either kind breaks it.
THEOREM ConstraintsHold ==
  ASSUME UnconstrainedImports
  PROVE  PgSpec => []PgConstraints
<1>1. PgInit => PgInv /\ ConstraintsInv  BY InitInv, ConstraintsInit
<1>2. PgInv /\ ConstraintsInv /\ [PgNext]_pgVars => (PgInv /\ ConstraintsInv)'
  BY NextInv, ConstraintsNext
<1>3. ConstraintsInv => PgConstraints  BY DEF ConstraintsInv, DbConstraints, PgConstraints
<1> QED BY <1>1, <1>2, <1>3, PTL DEF PgSpec
=============================================================================
