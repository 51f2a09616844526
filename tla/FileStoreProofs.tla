--------------------------- MODULE FileStoreProofs ---------------------------
(***************************************************************************)
(* The file store keeps its promise to rows (FilePromise) and balanced      *)
(* books, for every number of requests, servers, files and stores.          *)
(*                                                                          *)
(* The argument: a request that needs its blob is counted in pins, and      *)
(* neither a sweep nor a discard takes a blob that another request has      *)
(* pinned.  A row that is committed needs no pin: the sweep finds it in the *)
(* references, read under the writer that every commit takes, and a discard *)
(* finds that the attach count is not 1, because the request that made the  *)
(* blob is the only one counted while it is 1.  This last fact fails for    *)
(* copy_from with a local store without a cap, where a copy may find a blob *)
(* that is not counted yet (the files_discard run): Covered leaves that     *)
(* case out, and namespaces used again before their drop has answered.      *)
(***************************************************************************)
EXTENDS FileStore, TLAPS, FiniteSetTheorems

\* Leaves out the two cases in which the code is known to lose a blob: copy_from with a
\* local store without a cap, and a namespace used again before its drop has answered.
Covered == ~EarlyUse /\ \A st \in Stores : st.copies => st.shared \/ st.cap > 0

PlaceAt == {"place", "put", "put failed", "count"}
AttachAt == PlaceAt \cup {"attach"}
CopyAt == {"pin", "stat", "pinned"}
FileAt == AttachAt \cup CopyAt \cup {"idle", "begin", "tx", "failed", "closing"}

Store == [shared : BOOLEAN, cap : Nat, inTx : BOOLEAN, copies : BOOLEAN, pending : Nat,
          calls : Nat, restarts : Nat]
File == [at : FileAt, sum : Sums \cup {NoSum}, gen : Nat, tmp : BOOLEAN, pins : {0, 1},
         created : BOOLEAN, found : BOOLEAN]
Totals == [known : BOOLEAN, bytes : Int, missed : Nat]
Memory == [pins : [Sums -> Int], attaches : [Sums -> Nat], total : Totals, pending : Int, drops : Int,
           mu : {"none", "sweep"}]

FilesTyped ==
    /\ store \in Stores /\ store \in Store
    /\ rows \in [Requests -> Sums \cup {NoSum}] /\ IsFiniteSet(blobs) /\ blobs \subseteq Sums
    /\ ns \in [on : BOOLEAN, gen : Nat]
    /\ req \in [Requests -> File] /\ mem \in [Servers -> Memory]
    /\ placing \in [Servers -> SUBSET Sums]
    /\ vac \in [at : {"idle", "refs", "sweep"}, on : Servers \cup {None}, refs : SUBSET Sums,
                listed : SUBSET Sums, kept : Int]
    /\ drop \in [at : {"idle", "engine", "blobs", "end"}, on : Servers \cup {None}]

\* What the stage of a request says about what it holds.
Stage(f) ==
    /\ f.sum = NoSum => f.at \in {"idle", "closing"} /\ f.pins = 0 /\ ~f.tmp /\ ~f.created
    /\ f.at = "idle" => f.sum = NoSum
    /\ f.at \in AttachAt => f.tmp /\ f.pins = 0 /\ ~f.created
    /\ f.at \in PlaceAt => store.cap = 0
    /\ f.at \in CopyAt => ~f.tmp /\ f.pins = 0 /\ ~f.created /\ store.copies
    /\ f.at = "begin" => (f.tmp => store.inTx) /\ (f.pins = 0 <=> f.tmp)
    /\ f.at = "tx" => f.pins = 1 /\ ~f.tmp
    /\ f.created => f.pins = 1
Stages == \A r \in Requests : Stage(req[r])

\* The write transaction of a request lasts from Begin to Commit or its failure.
InTx(f) == f.at = "tx" \/ (store.inTx /\ f.at \in AttachAt)

\* The namespace's writer keeps sweeps, writes and drops apart.
Exclusive ==
    /\ \A r \in Requests : InTx(req[r]) => writer = r
    /\ writer # None => ns.on
    /\ vac.at # "idle" => writer = "vacuum" /\ Referenced \subseteq vac.refs
    /\ vac.at # "idle" => vac.on \in RunsOn
    /\ vac.at = "sweep" => mem[vac.on].mu = "sweep"
    /\ drop.at # "idle" => ~ns.on /\ drop.on \in RunsOn
    /\ ~ns.on => Referenced = {}

\* A request that came before a drop stays behind: it never writes again.
Live(f) == f.gen = ns.gen
Aged == \A r \in Requests :
    /\ req[r].gen <= ns.gen /\ (~ns.on => req[r].gen < ns.gen)
    /\ InTx(req[r]) => Live(req[r])

\* Two of the three books: pins and reserved bytes.
Holds(f, s) == f.sum = s /\ (f.pins = 1 \/ f.at \in PlaceAt \cup {"stat", "pinned"})
Pins == \A srv \in Servers, s \in Sums : mem[srv].pins[s] = Cardinality(Holding(srv, s))
Reserving(srv) == {r \in Requests : Srv(r) = srv /\ req[r].tmp}
Reserved == \A srv \in Servers : mem[srv].pending = Cardinality(Reserving(srv))

Complete(f) == f.at \in {"begin", "tx"} /\ f.pins = 1
Needs(f) == \/ Complete(f) \/ f.at = "count"
            \/ f.at \in {"put", "pinned"} /\ f.found
New(f) == f.at \in {"put", "count"} /\ ~f.found
Locked(f) == f.at \in {"put", "put failed", "count"}

\* With a local store, of the requests that may still write: what one needs is there;
\* one at a time places a blob; while it places a new one no other request and no row
\* has it; and an attach count of 1 is that of the blob's maker alone.
NeedsStored == \A r \in Requests : Live(req[r]) /\ Needs(req[r]) => req[r].sum \in blobs
LocksHeld ==
    /\ \A r \in Requests : Locked(req[r]) => req[r].sum \in placing[Home]
    /\ \A q, r \in Requests : Locked(req[q]) /\ Locked(req[r]) /\ req[q].sum = req[r].sum => q = r
NewAlone == \A q \in Requests : New(req[q]) =>
    /\ req[q].sum \notin Referenced
    /\ \A r \in Requests : Live(req[r]) /\ Complete(req[r]) => req[r].sum # req[q].sum
ClosedMaker(f, s) == f.at = "closing" /\ f.created /\ f.sum = s
MakerAlone == \A s \in Sums : mem[Home].attaches[s] = 1 =>
    /\ \A r \in Requests : Live(req[r]) /\ Complete(req[r]) /\ req[r].sum = s => req[r].created
    /\ s \in Referenced => \E o \in Requests : ClosedMaker(req[o], s)
LocalFits == NeedsStored /\ LocksHeld /\ NewAlone /\ MakerAlone

\* The third book, of a capped local store: the total of the blobs.
Fits(t, n) == t.bytes + t.missed = n
Total ==
    /\ \A srv \in Servers : mem[srv].total.known => srv = Home /\ Fits(mem[srv].total, Cardinality(blobs))
    /\ mem[Home].drops >= 0
    /\ drop.at \in {"blobs", "end"} => mem[Home].drops > 0 /\ ~mem[Home].total.known
    /\ vac.at = "refs" => vac.kept = 0
    /\ vac.at = "sweep" => vac.listed \subseteq blobs /\ vac.kept = Cardinality(blobs \ vac.listed)

FilesInv ==
    /\ FilesTyped /\ Stages /\ Exclusive /\ Aged /\ Referenced \subseteq blobs
    /\ Pins /\ Reserved
    /\ ~store.shared => LocalFits
    /\ ~store.shared /\ store.cap > 0 => Total

-----------------------------------------------------------------------------
(***************************************************************************)
(* A step of one request: what it does to the request and to the books.     *)
(***************************************************************************)
Bit(b) == IF b THEN 1 ELSE 0

\* A step of request r changes the state of r and the memory of its server only.
Moves(r) ==
    /\ store' = store
    /\ req' = [req EXCEPT ![r] = req'[r]] /\ mem' = [mem EXCEPT ![Srv(r)] = mem'[Srv(r)]]
    /\ req'[r] \in File /\ mem'[Srv(r)] \in Memory /\ mem'[Srv(r)].mu = mem[Srv(r)].mu
    /\ mem'[Srv(r)].drops = mem[Srv(r)].drops
    /\ Stage(req'[r])

\* It changes pins and reserved bytes by what r holds now and did not hold before.
Books(r) ==
    /\ \A s \in Sums : mem'[Srv(r)].pins[s] = mem[Srv(r)].pins[s] + Bit(Holds(req'[r], s)) - Bit(Holds(req[r], s))
    /\ mem'[Srv(r)].pending = mem[Srv(r)].pending + Bit(req'[r].tmp) - Bit(req[r].tmp)

\* It completes nothing: r needs, locks and has nothing it had not.
Less(r) ==
    /\ Needs(req'[r]) \/ Locked(req'[r]) => req'[r].sum = req[r].sum /\ req'[r].created = req[r].created
    /\ Needs(req'[r]) => Needs(req[r])
    /\ Complete(req'[r]) => Complete(req[r])
    /\ New(req'[r]) => New(req[r])
    /\ Locked(req'[r]) => Locked(req[r])

\* It counts nothing either.
Quiet(r) ==
    /\ mem'[Srv(r)].attaches = mem[Srv(r)].attaches /\ mem'[Srv(r)].total = mem[Srv(r)].total
    /\ req[r].at # "closing" /\ Less(r)

\* Two sets that differ in one element at most.
LEMMA OneApart ==
    ASSUME NEW A, NEW B, NEW x, IsFiniteSet(A), \A y : y # x => (y \in A <=> y \in B)
    PROVE  /\ IsFiniteSet(B) /\ Cardinality(A) \in Nat /\ Cardinality(B) \in Nat
           /\ Cardinality(B) = Cardinality(A) + Bit(x \in B) - Bit(x \in A)
<1>1. Cardinality(A) \in Nat
  BY FS_CardinalityType
<1>2. CASE x \in A /\ x \in B
  <2>1. A = B
    BY <1>2
  <2>2. QED
    BY ONLY <1>1, <1>2, <2>1, IsFiniteSet(A) DEF Bit
<1>3. CASE x \notin A /\ x \notin B
  <2>1. A = B
    BY <1>3
  <2>2. QED
    BY ONLY <1>1, <1>3, <2>1, IsFiniteSet(A) DEF Bit
<1>4. CASE x \in A /\ x \notin B
  <2>1. B = A \ {x}
    BY <1>4
  <2>2. IsFiniteSet(B) /\ Cardinality(B) = Cardinality(A) - 1 /\ Cardinality(B) \in Nat
    BY <1>4, <2>1, FS_RemoveElement, FS_CardinalityType
  <2>3. QED
    BY ONLY <1>1, <1>4, <2>2 DEF Bit
<1>5. CASE x \notin A /\ x \in B
  <2>1. B = A \cup {x}
    BY <1>5
  <2>2. IsFiniteSet(B) /\ Cardinality(B) = Cardinality(A) + 1 /\ Cardinality(B) \in Nat
    BY <1>5, <2>1, FS_AddElement, FS_CardinalityType
  <2>3. QED
    BY ONLY <1>1, <1>5, <2>2 DEF Bit
<1>6. QED
  BY <1>2, <1>3, <1>4, <1>5

LEMMA HoldingFinite ==
    ASSUME NEW srv, NEW s
    PROVE  IsFiniteSet(Holding(srv, s)) /\ IsFiniteSet(Reserving(srv))
<1>1. Holding(srv, s) \subseteq Requests /\ Reserving(srv) \subseteq Requests
  BY DEF Holding, Reserving
<1>2. QED
  BY <1>1, FS_Subset, FilesAssumption

\* A step that keeps the books for its request keeps them for everyone.
LEMMA BooksFollow ==
    ASSUME FilesTyped, Pins, Reserved, NEW r \in Requests, Moves(r), Books(r)
    PROVE  Pins' /\ Reserved'
<1>0. Srv(r) \in Servers
  BY FilesAssumption DEF Srv
<1>1. \A q \in Requests : q # r => req'[q] = req[q]
  BY DEF Moves, FilesTyped
<1>2. \A srv \in Servers : srv # Srv(r) => mem'[srv] = mem[srv]
  BY DEF Moves, FilesTyped
<1>s. \A q \in Requests : Srv(q)' = Srv(q)
  BY DEF Moves, Srv
<1>3. ASSUME NEW srv \in Servers, NEW s \in Sums
      PROVE  mem'[srv].pins[s] = Cardinality(Holding(srv, s)')
  <2>1. \A y : y # r => (y \in Holding(srv, s) <=> y \in Holding(srv, s)')
    BY <1>1, <1>s DEF Holding
  <2>2. /\ Cardinality(Holding(srv, s)') = Cardinality(Holding(srv, s)) + Bit(r \in Holding(srv, s)') - Bit(r \in Holding(srv, s))
        /\ Cardinality(Holding(srv, s)) \in Nat
    BY <2>1, HoldingFinite, OneApart
  <2>3. mem[srv].pins[s] = Cardinality(Holding(srv, s))
    BY DEF Pins
  <2>4. CASE srv = Srv(r)
    <3>a. r \in Holding(srv, s) <=> Holds(req[r], s)
      BY <2>4 DEF Holding, Holds, PlaceAt
    <3>1. Bit(r \in Holding(srv, s)) = Bit(Holds(req[r], s))
      BY <3>a DEF Bit
    <3>b. r \in Holding(srv, s)' <=> Holds(req'[r], s)
      BY <2>4, <1>s DEF Holding, Holds, PlaceAt
    <3>2. Bit(r \in Holding(srv, s)') = Bit(Holds(req'[r], s))
      BY <3>b DEF Bit
    <3>3. mem'[srv].pins[s] = mem[srv].pins[s] + Bit(Holds(req'[r], s)) - Bit(Holds(req[r], s))
      BY <2>4 DEF Books
    <3>4. QED
      BY ONLY <2>2, <2>3, <3>1, <3>2, <3>3
  <2>5. CASE srv # Srv(r)
    <3>1. r \notin Holding(srv, s) /\ r \notin Holding(srv, s)'
      BY <2>5, <1>s DEF Holding
    <3>2. mem'[srv].pins[s] = mem[srv].pins[s]
      BY <2>5, <1>2
    <3>3. QED
      BY ONLY <2>2, <2>3, <3>1, <3>2 DEF Bit
  <2>6. QED
    BY <2>4, <2>5
<1>4. ASSUME NEW srv \in Servers
      PROVE  mem'[srv].pending = Cardinality(Reserving(srv)')
  <2>1. \A y : y # r => (y \in Reserving(srv) <=> y \in Reserving(srv)')
    BY <1>1, <1>s DEF Reserving
  <2>2. /\ Cardinality(Reserving(srv)') = Cardinality(Reserving(srv)) + Bit(r \in Reserving(srv)') - Bit(r \in Reserving(srv))
        /\ Cardinality(Reserving(srv)) \in Nat
    BY <2>1, HoldingFinite, OneApart
  <2>3. mem[srv].pending = Cardinality(Reserving(srv))
    BY DEF Reserved
  <2>4. CASE srv = Srv(r)
    <3>1. (r \in Reserving(srv)) = req[r].tmp
      BY <2>4 DEF Reserving, FilesTyped, File
    <3>2. (r \in Reserving(srv)') = req'[r].tmp
      BY <2>4, <1>s DEF Reserving, Moves, File
    <3>3. mem'[srv].pending = mem[srv].pending + Bit(req'[r].tmp) - Bit(req[r].tmp)
      BY <2>4 DEF Books
    <3>4. QED
      BY ONLY <2>2, <2>3, <3>1, <3>2, <3>3
  <2>5. CASE srv # Srv(r)
    <3>1. r \notin Reserving(srv) /\ r \notin Reserving(srv)'
      BY <2>5, <1>s DEF Reserving
    <3>2. mem'[srv].pending = mem[srv].pending
      BY <2>5, <1>2
    <3>3. QED
      BY ONLY <2>2, <2>3, <3>1, <3>2 DEF Bit
  <2>6. QED
    BY <2>4, <2>5
<1>5. QED
  BY <1>3, <1>4 DEF Pins, Reserved

\* How the steps below are read: r's new state and its server's new memory.
LEMMA MovesFrom ==
    ASSUME FilesTyped, NEW r \in Requests, NEW g \in File, NEW n \in Memory, store' = store,
           req' = [req EXCEPT ![r] = g], mem' = [mem EXCEPT ![Srv(r)] = n],
           n.mu = mem[Srv(r)].mu /\ n.drops = mem[Srv(r)].drops, Stage(g)
    PROVE  Moves(r) /\ req'[r] = g /\ mem'[Srv(r)] = n
<1>1. Srv(r) \in Servers
  BY FilesAssumption DEF Srv
<1>2. req'[r] = g /\ mem'[Srv(r)] = n
  BY <1>1 DEF FilesTyped
<1>3. QED
  BY <1>2 DEF Moves

LEMMA RequestTyped ==
    ASSUME FilesTyped, Stages, NEW r \in Requests
    PROVE  /\ Srv(r) \in Servers /\ req[r] \in File /\ Mem(r) \in Memory /\ Stage(req[r]) /\ store \in Store
           /\ Mem(r) = mem[Srv(r)] /\ req = [req EXCEPT ![r] = req[r]] /\ mem = [mem EXCEPT ![Srv(r)] = mem[Srv(r)]]
<1>1. Srv(r) \in Servers
  BY FilesAssumption DEF Srv
<1>2. QED
  BY <1>1 DEF FilesTyped, Stages, Mem

\* A step that changes neither what r holds nor its server's pins and reserved bytes.
LEMMA BooksKept ==
    ASSUME FilesTyped, NEW r \in Requests,
           mem[Srv(r)] \in Memory, mem'[Srv(r)].pins = mem[Srv(r)].pins, mem'[Srv(r)].pending = mem[Srv(r)].pending,
           \A s \in Sums : Holds(req'[r], s) <=> Holds(req[r], s),
           req[r].tmp \in BOOLEAN, req'[r].tmp = req[r].tmp
    PROVE  Books(r)
<1>1. \A s \in Sums : mem[Srv(r)].pins[s] \in Int /\ Bit(Holds(req'[r], s)) = Bit(Holds(req[r], s)) /\ Bit(Holds(req[r], s)) \in Int
  BY DEF Memory, Bit
<1>2. mem[Srv(r)].pending \in Int /\ Bit(req[r].tmp) \in Int
  BY DEF Memory, Bit
<1>3. QED
  BY <1>1, <1>2 DEF Books

\* What most steps do: r goes on, at another place.
LEMMA GoMoves ==
    ASSUME FilesTyped, Stages, NEW r \in Requests, NEW at \in FileAt, store' = store,
           Go(r, at), mem' = mem, Stage([req[r] EXCEPT !.at = at]),
           \A s \in Sums : Holds([req[r] EXCEPT !.at = at], s) <=> Holds(req[r], s)
    PROVE  Moves(r) /\ Books(r) /\ req'[r] = [req[r] EXCEPT !.at = at] /\ mem'[Srv(r)] = mem[Srv(r)]
<1>1. PICK f, m : f = req[r] /\ m = mem[Srv(r)]
  OBVIOUS
<1>2. f \in File /\ m \in Memory
  BY <1>1, RequestTyped
<1>3. [f EXCEPT !.at = at] \in File /\ [f EXCEPT !.at = at].tmp = f.tmp /\ f.tmp \in BOOLEAN
  BY <1>2 DEF File
<1>4. req' = [req EXCEPT ![r] = [f EXCEPT !.at = at]] /\ mem' = [mem EXCEPT ![Srv(r)] = m]
  BY <1>1, RequestTyped DEF Go
<1>5. Moves(r) /\ req'[r] = [f EXCEPT !.at = at] /\ mem'[Srv(r)] = m
  BY <1>1, <1>2, <1>3, <1>4, MovesFrom
<1>6. Books(r)
  BY <1>1, <1>2, <1>3, <1>5, BooksKept
<1>7. QED
  BY <1>1, <1>5, <1>6

LEMMA ReceiveMoves ==
    ASSUME FilesTyped, Stages, NEW r \in Requests, Receive(r)
    PROVE  Moves(r) /\ Books(r) /\ Quiet(r)
<1>1. PICK f, m : f = req[r] /\ m = mem[Srv(r)]
  OBVIOUS
<1>2. f \in File /\ m \in Memory /\ Stage(f) /\ store \in Store /\ m.pending \in Int /\ f.at = "idle"
  BY <1>1, RequestTyped DEF Receive, Memory
<1>3. PICK s \in Sums :
        IF m.pending + 1 > store.pending THEN Go(r, "closing") /\ UNCHANGED mem
        ELSE /\ SetMem(Srv(r), [m EXCEPT !.pending = @ + 1])
             /\ req' = [req EXCEPT ![r] = [NoFile EXCEPT !.at = IF store.inTx THEN "begin" ELSE "attach",
                                             !.sum = s, !.gen = ns.gen, !.tmp = TRUE]]
  BY <1>1 DEF Receive, Mem
<1>4. store' = store
  BY DEF Receive
<1>5. CASE m.pending + 1 > store.pending
  <2>1. req' = [req EXCEPT ![r] = [f EXCEPT !.at = "closing"]] /\ mem' = [mem EXCEPT ![Srv(r)] = m]
    BY <1>1, <1>3, <1>5, RequestTyped DEF Go
  <2>2. [f EXCEPT !.at = "closing"] \in File /\ Stage([f EXCEPT !.at = "closing"])
    BY <1>2 DEF File, FileAt, Stage, AttachAt, PlaceAt, CopyAt
  <2>3. Moves(r) /\ req'[r] = [f EXCEPT !.at = "closing"] /\ mem'[Srv(r)] = m
    BY <1>1, <1>2, <1>4, <2>1, <2>2, MovesFrom
  <2>4. \A s1 \in Sums : ~Holds(req'[r], s1) /\ ~Holds(f, s1) /\ ~req'[r].tmp /\ ~f.tmp /\ m.pins[s1] \in Int
    BY <1>2, <2>3, FilesAssumption DEF Holds, Stage, File, Memory, PlaceAt
  <2>5. ~req'[r].tmp /\ ~f.tmp
    BY <1>2, <2>3, FilesAssumption DEF Stage, File
  <2>6. Books(r)
    BY <1>1, <1>2, <2>3, <2>4, <2>5 DEF Books, Bit
  <2>7. req'[r].at = "closing"
    BY <1>2, <2>3 DEF File
  <2>8. Quiet(r)
    BY <1>1, <1>2, <2>3, <2>7 DEF Quiet, Less, Needs, Complete, New, Locked
  <2>9. QED
    BY <2>3, <2>6, <2>8
<1>6. CASE ~(m.pending + 1 > store.pending)
  <2> DEFINE g == [NoFile EXCEPT !.at = IF store.inTx THEN "begin" ELSE "attach", !.sum = s, !.gen = ns.gen, !.tmp = TRUE]
             n == [m EXCEPT !.pending = @ + 1]
  <2>1. req' = [req EXCEPT ![r] = g] /\ mem' = [mem EXCEPT ![Srv(r)] = n]
    BY <1>3, <1>6 DEF SetMem
  <2>a. g \in File
    BY DEF File, FileAt, NoFile, AttachAt, FilesTyped
  <2>b. /\ g.sum = s /\ g.tmp /\ g.pins = 0 /\ ~g.created /\ s # NoSum
        /\ (g.at = "begin" /\ store.inTx) \/ g.at = "attach"
    BY FilesAssumption DEF NoFile
  <2>c. Stage(g) /\ \A s1 \in Sums : ~Holds(g, s1)
    BY <2>b DEF Stage, AttachAt, PlaceAt, CopyAt, Holds
  <2>d. ~Needs(g) /\ ~Complete(g) /\ ~New(g) /\ ~Locked(g)
    BY <2>b DEF Needs, Complete, New, Locked
  <2>2. g \in File /\ Stage(g) /\ g.sum = s /\ g.tmp /\ \A s1 \in Sums : ~Holds(g, s1)
    BY <2>a, <2>b, <2>c
  <2>3. n \in Memory /\ n.mu = m.mu /\ n.drops = m.drops /\ n.pins = m.pins /\ n.pending = m.pending + 1 /\ n.attaches = m.attaches /\ n.total = m.total
    BY <1>2 DEF Memory
  <2> HIDE DEF g, n
  <2>4. Moves(r) /\ req'[r] = g /\ mem'[Srv(r)] = n
    BY <1>1, <1>4, <2>1, <2>2, <2>3, MovesFrom
  <2>5. \A s1 \in Sums : ~Holds(f, s1) /\ m.pins[s1] \in Int
    BY <1>2, FilesAssumption DEF Holds, Stage, File, Memory, PlaceAt
  <2>6. ~f.tmp
    BY <1>2, FilesAssumption DEF Stage, File
  <2>7. Books(r)
    BY <1>1, <1>2, <2>2, <2>3, <2>4, <2>5, <2>6 DEF Books, Bit
  <2>8. Quiet(r)
    BY <1>1, <1>2, <2>3, <2>4, <2>d DEF Quiet, Less
  <2>9. QED
    BY <2>4, <2>7, <2>8
<1>7. QED
  BY <1>5, <1>6


LEMMA CopyMoves ==
    ASSUME FilesTyped, Stages, NEW r \in Requests, copyFile(r)
    PROVE  Moves(r) /\ Books(r) /\ Quiet(r)
<1>1. PICK f, m : f = req[r] /\ m = mem[Srv(r)]
  OBVIOUS
<1>2. f \in File /\ m \in Memory /\ Stage(f) /\ f.at = "idle" /\ store.copies
  BY <1>1, RequestTyped DEF copyFile
<1>3. PICK s \in Referenced : req' = [req EXCEPT ![r] = [NoFile EXCEPT !.at = "pin", !.sum = s, !.gen = ns.gen]]
  BY DEF copyFile
<1>4. store' = store /\ mem' = [mem EXCEPT ![Srv(r)] = m]
  BY <1>1, RequestTyped DEF copyFile
<1>5. s \in Sums /\ s # NoSum
  BY FilesAssumption DEF Referenced, FilesTyped
<1> DEFINE g == [NoFile EXCEPT !.at = "pin", !.sum = s, !.gen = ns.gen]
<1>6. g \in File /\ g.at = "pin" /\ g.sum = s /\ ~g.tmp /\ g.pins = 0 /\ ~g.created
  BY <1>5 DEF File, FileAt, CopyAt, NoFile, FilesTyped
<1>7. req' = [req EXCEPT ![r] = g]
  BY <1>3
<1> HIDE DEF g
<1>8. Stage(g) /\ \A s1 \in Sums : ~Holds(g, s1)
  BY <1>2, <1>5, <1>6 DEF Stage, Holds, PlaceAt, AttachAt, CopyAt
<1>9. ~Needs(g) /\ ~Complete(g) /\ ~New(g) /\ ~Locked(g)
  BY <1>6 DEF Needs, Complete, New, Locked
<1>10. Moves(r) /\ req'[r] = g /\ mem'[Srv(r)] = m
  BY <1>1, <1>2, <1>4, <1>6, <1>7, <1>8, MovesFrom
<1>11. ~f.tmp /\ \A s1 \in Sums : ~Holds(f, s1)
  BY <1>2, FilesAssumption DEF Stage, Holds, PlaceAt
<1>12. f.tmp \in BOOLEAN /\ g.tmp \in BOOLEAN
  BY <1>2, <1>6 DEF File
<1>13. Books(r)
  BY <1>1, <1>2, <1>6, <1>8, <1>10, <1>11, <1>12, BooksKept
<1>14. QED
  BY <1>1, <1>2, <1>9, <1>10, <1>13 DEF Quiet, Less

LEMMA PinEffect ==
    ASSUME NEW m \in Memory, NEW s \in Sums
    PROVE  /\ pin(m, s) \in Memory /\ unpin(m, s) \in Memory
           /\ \A s1 \in Sums : m.pins[s1] \in Int /\ pin(m, s).pins[s1] = m.pins[s1] + (IF s1 = s THEN 1 ELSE 0)
                               /\ unpin(m, s).pins[s1] = m.pins[s1] - (IF s1 = s THEN 1 ELSE 0)
           /\ \A n \in {pin(m, s), unpin(m, s)} :
                n.mu = m.mu /\ n.pending = m.pending /\ n.attaches = m.attaches /\ n.total = m.total /\ n.drops = m.drops
<1>1. m.pins \in [Sums -> Int] /\ m.pins[s] \in Int
  BY DEF Memory
<1>2. m.pins[s] + 1 \in Int /\ m.pins[s] - 1 \in Int
  BY <1>1
<1> DEFINE p == [m.pins EXCEPT ![s] = @ + 1]
           u == [m.pins EXCEPT ![s] = @ - 1]
<1>3. p \in [Sums -> Int] /\ u \in [Sums -> Int]
  BY <1>1, <1>2
<1>4. \A s1 \in Sums : p[s1] = m.pins[s1] + (IF s1 = s THEN 1 ELSE 0) /\ u[s1] = m.pins[s1] - (IF s1 = s THEN 1 ELSE 0)
  BY <1>1
<1>5. pin(m, s) = [m EXCEPT !.pins = p] /\ unpin(m, s) = [m EXCEPT !.pins = u]
  BY DEF pin, unpin, Memory
<1> HIDE DEF p, u
<1>6. QED
  BY <1>1, <1>3, <1>4, <1>5 DEF Memory

\* A pin is taken and r goes on.
LEMMA PinGo ==
    ASSUME FilesTyped, Stages, NEW r \in Requests, NEW at \in {"place", "stat"}, store' = store,
           Go(r, at), SetMem(Srv(r), pin(Mem(r), req[r].sum)), req[r].sum \in Sums,
           Stage([req[r] EXCEPT !.at = at]), req[r].at \in {"attach", "pin"}, req[r].pins = 0
    PROVE  Moves(r) /\ Books(r) /\ Quiet(r)
<1>1. PICK f, m : f = req[r] /\ m = mem[Srv(r)]
  OBVIOUS
<1>2. f \in File /\ m \in Memory
  BY <1>1, RequestTyped
<1> DEFINE g == [f EXCEPT !.at = at]
           n == pin(m, f.sum)
<1>3. g \in File /\ g.at = at /\ g.sum = f.sum /\ g.tmp = f.tmp /\ f.tmp \in BOOLEAN /\ g.created = f.created /\ Stage(g) /\ g.pins = 0
  BY <1>1, <1>2 DEF File, FileAt, PlaceAt, AttachAt, CopyAt
<1>4. /\ n \in Memory /\ n.mu = m.mu /\ n.drops = m.drops /\ n.attaches = m.attaches /\ n.total = m.total /\ n.pending = m.pending
      /\ \A s \in Sums : m.pins[s] \in Int /\ n.pins[s] = m.pins[s] + (IF s = f.sum THEN 1 ELSE 0)
  BY ONLY <1>1, <1>2, PinEffect, req[r].sum \in Sums
<1>5. req' = [req EXCEPT ![r] = g] /\ mem' = [mem EXCEPT ![Srv(r)] = n]
  BY <1>1 DEF Go, SetMem, Mem
<1> HIDE DEF g, n
<1>6. Moves(r) /\ req'[r] = g /\ mem'[Srv(r)] = n
  BY <1>1, <1>3, <1>4, <1>5, MovesFrom
<1>a. g.at \in PlaceAt \cup {"stat", "pinned"} /\ f.at \notin PlaceAt \cup {"stat", "pinned"}
  BY <1>1, <1>3 DEF PlaceAt
<1>7. \A s \in Sums : ~Holds(f, s) /\ (Holds(g, s) <=> s = f.sum)
  BY ONLY <1>1, <1>a, <1>3, req[r].pins = 0 DEF Holds
<1>8. m.pending \in Int /\ Bit(f.tmp) \in Int
  BY ONLY <1>2 DEF Memory, Bit
<1>9. \A s \in Sums : n.pins[s] = m.pins[s] + Bit(Holds(g, s)) - Bit(Holds(f, s))
  BY ONLY <1>4, <1>7 DEF Bit
<1>10. Books(r)
  BY ONLY <1>1, <1>3, <1>4, <1>6, <1>8, <1>9 DEF Books
<1>11. ~Needs(g) /\ ~Complete(g) /\ ~New(g) /\ ~Locked(g)
  BY <1>3 DEF Needs, Complete, New, Locked
<1>12. QED
  BY <1>1, <1>4, <1>6, <1>10, <1>11 DEF Quiet, Less

\* A pin is given back and r has failed.
LEMMA UnpinGo ==
    ASSUME FilesTyped, Stages, NEW r \in Requests, store' = store,
           Fails(r), SetMem(Srv(r), unpin(Mem(r), req[r].sum)), req[r].sum \in Sums,
           req[r].at \in {"put failed", "pinned"}
    PROVE  Moves(r) /\ Books(r) /\ Quiet(r) /\ req'[r].at = "failed"
<1>1. PICK f, m : f = req[r] /\ m = mem[Srv(r)]
  OBVIOUS
<1>2. f \in File /\ m \in Memory /\ Stage(f)
  BY <1>1, RequestTyped
<1>0. f.pins = 0 /\ ~f.created
  BY <1>1, <1>2 DEF Stage, PlaceAt, CopyAt, AttachAt
<1> DEFINE g == [f EXCEPT !.at = "failed"]
           n == unpin(m, f.sum)
<1>3. g \in File /\ g.at = "failed" /\ g.sum = f.sum /\ g.tmp = f.tmp /\ f.tmp \in BOOLEAN /\ ~g.created /\ g.pins = 0
  BY <1>0, <1>2 DEF File, FileAt
<1>4. /\ n \in Memory /\ n.mu = m.mu /\ n.drops = m.drops /\ n.attaches = m.attaches /\ n.total = m.total /\ n.pending = m.pending
      /\ \A s \in Sums : m.pins[s] \in Int /\ n.pins[s] = m.pins[s] - (IF s = f.sum THEN 1 ELSE 0)
  BY ONLY <1>1, <1>2, PinEffect, req[r].sum \in Sums
<1>5. req' = [req EXCEPT ![r] = g] /\ mem' = [mem EXCEPT ![Srv(r)] = n]
  BY <1>1 DEF Fails, SetMem, Mem
<1> HIDE DEF g, n
<1>a. Stage(g)
  BY <1>1, <1>3, FilesAssumption DEF Stage, AttachAt, PlaceAt, CopyAt
<1>6. Moves(r) /\ req'[r] = g /\ mem'[Srv(r)] = n
  BY <1>1, <1>3, <1>4, <1>5, <1>a, MovesFrom
<1>b. f.at \in PlaceAt \cup {"stat", "pinned"} /\ g.at \notin PlaceAt \cup {"stat", "pinned"}
  BY <1>1, <1>3 DEF PlaceAt
<1>7. \A s \in Sums : (Holds(f, s) <=> s = f.sum) /\ ~Holds(g, s)
  BY ONLY <1>b, <1>3 DEF Holds
<1>8. m.pending \in Int /\ Bit(f.tmp) \in Int
  BY ONLY <1>2 DEF Memory, Bit
<1>9. \A s \in Sums : n.pins[s] = m.pins[s] + Bit(Holds(g, s)) - Bit(Holds(f, s))
  BY ONLY <1>4, <1>7 DEF Bit
<1>10. Books(r)
  BY ONLY <1>1, <1>3, <1>4, <1>6, <1>8, <1>9 DEF Books
<1>11. ~Needs(g) /\ ~Complete(g) /\ ~New(g) /\ ~Locked(g)
  BY <1>3 DEF Needs, Complete, New, Locked
<1>12. QED
  BY <1>1, <1>3, <1>4, <1>6, <1>10, <1>11 DEF Quiet, Less

\* r fails, or the write ends, and nothing else happens to it.
LEMMA StopMoves ==
    ASSUME FilesTyped, Stages, NEW r \in Requests, store' = store, mem' = mem,
           NEW at \in {"failed", "closing"}, Go(r, at), req[r].at \in {"attach", "pin", "begin", "tx", "idle"}, 
           req[r].at = "idle" => at = "closing"
    PROVE  /\ Moves(r) /\ Books(r) /\ Quiet(r) /\ req'[r].at = at /\ req'[r].created = req[r].created
           /\ req'[r].sum = req[r].sum
<1>1. PICK f : f = req[r] /\ f \in File /\ Stage(f)
  BY RequestTyped
<1> DEFINE g == [f EXCEPT !.at = at]
<1>2. /\ g.at = at /\ g.sum = f.sum /\ g.tmp = f.tmp /\ g.pins = f.pins /\ g.created = f.created
      /\ at \in FileAt
  BY <1>1 DEF File, FileAt
<1> HIDE DEF g
<1>3. Stage(g)
  BY <1>1, <1>2 DEF Stage, AttachAt, PlaceAt, CopyAt
<1>4. \A s \in Sums : Holds(g, s) <=> Holds(f, s)
  BY <1>1, <1>2 DEF Holds, PlaceAt
<1>5. Moves(r) /\ Books(r) /\ req'[r] = g /\ mem'[Srv(r)] = mem[Srv(r)]
  BY <1>1, <1>2, <1>3, <1>4, GoMoves DEF g
<1>6. ~Needs(g) /\ ~Complete(g) /\ ~New(g) /\ ~Locked(g)
  BY <1>2 DEF Needs, Complete, New, Locked
<1>7. QED
  BY <1>1, <1>2, <1>5, <1>6 DEF Quiet, Less

\* The end of Attach: r has its blob, and its bytes are no longer reserved.
LEMMA PlacedMoves ==
    ASSUME FilesTyped, Stages, NEW r \in Requests, store' = store, NEW n0 \in Memory, NEW made \in BOOLEAN,
           Placed(r, n0, made), n0.mu = mem[Srv(r)].mu /\ n0.drops = mem[Srv(r)].drops, n0.pending = mem[Srv(r)].pending,
           req[r].at \in {"attach", "count"}, req[r].sum \in Sums,
           \A s \in Sums : n0.pins[s] = mem[Srv(r)].pins[s] + (IF s = req[r].sum /\ req[r].at = "attach" THEN 1 ELSE 0)
    PROVE  /\ Moves(r) /\ Books(r) /\ Complete(req'[r]) /\ req'[r].sum = req[r].sum /\ req'[r].created = made
           /\ req'[r].at = AfterAttach /\ mem'[Srv(r)].attaches = n0.attaches /\ mem'[Srv(r)].total = n0.total
<1>1. PICK f, m : f = req[r] /\ m = mem[Srv(r)]
  OBVIOUS
<1>2. f \in File /\ m \in Memory /\ Stage(f)
  BY <1>1, RequestTyped
<1>3. f.tmp /\ f.pins = 0 /\ f.sum # NoSum
  BY ONLY <1>1, <1>2, req[r].at \in {"attach", "count"}, req[r].sum \in Sums, FilesAssumption DEF Stage, AttachAt, PlaceAt
<1> DEFINE g == [f EXCEPT !.at = AfterAttach, !.tmp = FALSE, !.pins = 1, !.created = made]
           n == [n0 EXCEPT !.pending = @ - 1]
<1>4. /\ g \in File /\ g.at = AfterAttach /\ g.sum = f.sum /\ ~g.tmp /\ g.pins = 1 /\ g.created = made
      /\ AfterAttach \in {"tx", "begin"}
  BY <1>2 DEF File, FileAt, AfterAttach
<1>p. n0.pending \in Int /\ n0.pending - 1 \in Int
  BY DEF Memory
<1>5. n \in Memory /\ n.mu = n0.mu /\ n.drops = n0.drops /\ n.pins = n0.pins /\ n.attaches = n0.attaches /\ n.total = n0.total /\ n.pending = n0.pending - 1
  BY <1>p DEF Memory
<1>6. req' = [req EXCEPT ![r] = g] /\ mem' = [mem EXCEPT ![Srv(r)] = n]
  BY <1>1 DEF Placed, SetMem
<1> HIDE DEF g, n
<1>a. g.at \in {"tx", "begin"} /\ g.pins = 1 /\ ~g.tmp /\ g.sum # NoSum
  BY <1>3, <1>4
<1>c. Complete(g)
  BY ONLY <1>a DEF Complete
<1>d. g.at # "idle" /\ g.at \notin AttachAt /\ g.at \notin PlaceAt /\ g.at \notin CopyAt
  BY ONLY <1>a DEF AttachAt, PlaceAt, CopyAt
<1>e. g.pins # 0
  BY ONLY <1>a
<1>7. Stage(g) /\ Complete(g)
  BY ONLY <1>a, <1>c, <1>d, <1>e DEF Stage
<1>8. Moves(r) /\ req'[r] = g /\ mem'[Srv(r)] = n
  BY ONLY <1>1, <1>4, <1>5, <1>6, <1>7, MovesFrom, FilesTyped, r \in Requests, store' = store, n0.mu = mem[Srv(r)].mu /\ n0.drops = mem[Srv(r)].drops
<1>b. (f.at \in PlaceAt \cup {"stat", "pinned"}) <=> f.at # "attach"
  BY <1>1 DEF PlaceAt
<1>9. \A s \in Sums : (Holds(f, s) <=> s = f.sum /\ f.at # "attach") /\ (Holds(g, s) <=> s = f.sum)
  BY ONLY <1>3, <1>4, <1>b DEF Holds
<1>10. \A s \in Sums : m.pins[s] \in Int
  BY ONLY <1>2 DEF Memory
<1>11. \A s \in Sums : n.pins[s] = m.pins[s] + Bit(Holds(g, s)) - Bit(Holds(f, s))
  <2>1. ASSUME NEW s \in Sums PROVE n.pins[s] = m.pins[s] + Bit(Holds(g, s)) - Bit(Holds(f, s))
    <3>1. n.pins[s] = m.pins[s] + (IF s = f.sum /\ f.at = "attach" THEN 1 ELSE 0)
      BY <1>1, <1>5
    <3>2. QED
      BY ONLY <1>9, <1>10, <3>1, s \in Sums DEF Bit
  <2>2. QED
    BY <2>1
<1>12. n.pending = m.pending + Bit(g.tmp) - Bit(f.tmp)
  BY <1>1, <1>3, <1>4, <1>5, <1>p DEF Bit
<1>13. Books(r)
  BY ONLY <1>1, <1>8, <1>11, <1>12 DEF Books
<1>14. QED
  BY <1>1, <1>4, <1>5, <1>7, <1>8, <1>13

LEMMA AttachPinMoves ==
    ASSUME FilesTyped, Stages, NEW r \in Requests, AttachPin(r)
    PROVE  Moves(r) /\ Books(r) /\ Quiet(r)
<1>1. req[r] \in File /\ Stage(req[r]) /\ req[r].at = "attach" /\ store.cap = 0 /\ store' = store
  BY RequestTyped DEF AttachPin
<1>2. req[r].sum \in Sums /\ req[r].pins = 0
  BY <1>1 DEF Stage, File, AttachAt
<1>3. CASE dropping(r)
  BY <1>1, <1>3, StopMoves DEF AttachPin, Fails, Go
<1>4. CASE ~dropping(r)
  <2>1. Stage([req[r] EXCEPT !.at = "place"])
    BY <1>1, <1>2, FilesAssumption DEF Stage, File, AttachAt, PlaceAt, CopyAt
  <2>2. SetMem(Srv(r), pin(Mem(r), req[r].sum)) /\ Go(r, "place")
    BY <1>4 DEF AttachPin
  <2>3. QED
    BY <1>1, <1>2, <2>1, <2>2, PinGo
<1>5. QED
  BY <1>3, <1>4

LEMMA PinFirstMoves ==
    ASSUME FilesTyped, Stages, NEW r \in Requests, PinFirst(r)
    PROVE  Moves(r) /\ Books(r) /\ Quiet(r)
<1>1. req[r] \in File /\ Stage(req[r]) /\ req[r].at = "pin" /\ store' = store
  BY RequestTyped DEF PinFirst
<1>2. req[r].sum \in Sums /\ req[r].pins = 0
  BY <1>1 DEF Stage, File, CopyAt
<1>3. CASE dropping(r)
  BY <1>1, <1>3, StopMoves DEF PinFirst, Fails, Go
<1>4. CASE ~dropping(r)
  <2>1. Stage([req[r] EXCEPT !.at = "stat"])
    BY <1>1, <1>2, FilesAssumption DEF Stage, File, AttachAt, PlaceAt, CopyAt
  <2>2. SetMem(Srv(r), pin(Mem(r), req[r].sum)) /\ Go(r, "stat")
    BY <1>4 DEF PinFirst
  <2>3. QED
    BY <1>1, <1>2, <2>1, <2>2, PinGo
<1>5. QED
  BY <1>3, <1>4

\* The look at the blob, by Attach and by Pin.
LEMMA StatMoves ==
    ASSUME FilesTyped, Stages, NEW r \in Requests, NEW at \in {"put", "pinned"}, store' = store, mem' = mem,
           req[r].at = (IF at = "put" THEN "place" ELSE "stat"),
           req' = [req EXCEPT ![r].at = at, ![r].found = req[r].sum \in blobs]
    PROVE  /\ Moves(r) /\ Books(r) /\ req'[r].at = at /\ req'[r].sum = req[r].sum
           /\ req'[r].found = (req[r].sum \in blobs) /\ mem'[Srv(r)] = mem[Srv(r)]
<1>1. PICK f, m : f = req[r] /\ m = mem[Srv(r)]
  OBVIOUS
<1>2. f \in File /\ m \in Memory /\ Stage(f)
  BY <1>1, RequestTyped
<1> DEFINE g == [f EXCEPT !.at = at, !.found = f.sum \in blobs]
<1>a. at \in FileAt
  BY DEF FileAt, PlaceAt, AttachAt, CopyAt
<1>b. (f.sum \in blobs) \in BOOLEAN
  OBVIOUS
<1>3. at \in FileAt /\ (f.sum \in blobs) \in BOOLEAN
  BY <1>a, <1>b
<1>4. /\ g \in File /\ g.at = at /\ g.sum = f.sum /\ g.tmp = f.tmp /\ f.tmp \in BOOLEAN /\ g.pins = f.pins
      /\ g.created = f.created /\ g.found = (f.sum \in blobs)
  BY ONLY <1>2, <1>3 DEF File
<1>6. req' = [req EXCEPT ![r] = g] /\ mem' = [mem EXCEPT ![Srv(r)] = m]
  BY <1>1, RequestTyped
<1> HIDE DEF g
<1>7. Stage(g)
  BY <1>1, <1>2, <1>4 DEF Stage, AttachAt, PlaceAt, CopyAt
<1>8. Moves(r) /\ req'[r] = g /\ mem'[Srv(r)] = m
  BY ONLY <1>1, <1>2, <1>4, <1>6, <1>7, MovesFrom, FilesTyped, r \in Requests, store' = store
<1>9. f.at \in PlaceAt \cup {"stat", "pinned"} /\ g.at \in PlaceAt \cup {"stat", "pinned"}
  BY <1>1, <1>4 DEF PlaceAt
<1>10. \A s \in Sums : Holds(g, s) <=> Holds(f, s)
  BY ONLY <1>4, <1>9 DEF Holds
<1>11. Books(r)
  BY <1>1, <1>2, <1>4, <1>8, <1>10, BooksKept
<1>12. QED
  BY <1>1, <1>4, <1>8, <1>11

LEMMA PlaceStatMoves ==
    ASSUME FilesTyped, Stages, NEW r \in Requests, PlaceStat(r)
    PROVE  /\ Moves(r) /\ Books(r) /\ req'[r].at = "put" /\ req'[r].sum = req[r].sum
           /\ req'[r].found = (req[r].sum \in blobs) /\ mem'[Srv(r)] = mem[Srv(r)]
<1>1. /\ store' = store /\ mem' = mem /\ req[r].at = "place"
      /\ req' = [req EXCEPT ![r].at = "put", ![r].found = req[r].sum \in blobs]
  BY DEF PlaceStat
<1>2. QED
  BY <1>1, StatMoves

LEMMA PinStatMoves ==
    ASSUME FilesTyped, Stages, NEW r \in Requests, PinStat(r)
    PROVE  /\ Moves(r) /\ Books(r) /\ req'[r].at = "pinned" /\ req'[r].sum = req[r].sum
           /\ req'[r].found = (req[r].sum \in blobs) /\ mem'[Srv(r)] = mem[Srv(r)]
<1>1. /\ store' = store /\ mem' = mem /\ req[r].at = "stat"
      /\ req' = [req EXCEPT ![r].at = "pinned", ![r].found = req[r].sum \in blobs]
  BY DEF PinStat
<1>2. QED
  BY <1>1, StatMoves

LEMMA PlacePutMoves ==
    ASSUME FilesTyped, Stages, NEW r \in Requests, PlacePut(r)
    PROVE  /\ Moves(r) /\ Books(r) /\ req'[r].sum = req[r].sum /\ req'[r].found = req[r].found
           /\ mem'[Srv(r)] = mem[Srv(r)]
           /\ \/ req'[r].at = "count" /\ blobs' = blobs \cup (IF req[r].found THEN {} ELSE {req[r].sum})
              \/ req'[r].at = "put failed" /\ blobs' \in {blobs, blobs \cup (IF req[r].found THEN {} ELSE {req[r].sum})}
<1>1. PICK at \in {"count", "put failed"} :
        /\ Go(r, at) /\ store' = store /\ mem' = mem /\ req[r].at = "put"
        /\ at = "count" => blobs' = blobs \cup (IF req[r].found THEN {} ELSE {req[r].sum})
        /\ at = "put failed" => blobs' \in {blobs, blobs \cup (IF req[r].found THEN {} ELSE {req[r].sum})}
  BY DEF PlacePut
<1>2. PICK f : f = req[r] /\ f \in File /\ Stage(f)
  BY RequestTyped
<1> DEFINE g == [f EXCEPT !.at = at]
<1>3. /\ g.at = at /\ g.sum = f.sum /\ g.tmp = f.tmp /\ g.pins = f.pins /\ g.created = f.created
      /\ g.found = f.found
  BY <1>2 DEF File
<1>4. at \in FileAt /\ at \in PlaceAt /\ at \in AttachAt /\ at \notin CopyAt /\ f.at \in PlaceAt /\ f.at \in AttachAt
  BY <1>1, <1>2 DEF FileAt, AttachAt, PlaceAt, CopyAt
<1> HIDE DEF g
<1>5. Stage(g)
  BY <1>1, <1>2, <1>3, <1>4 DEF Stage
<1>6. \A s \in Sums : Holds(g, s) <=> Holds(f, s)
  BY <1>3, <1>4 DEF Holds
<1>7. Moves(r) /\ Books(r) /\ req'[r] = g /\ mem'[Srv(r)] = mem[Srv(r)]
  BY <1>1, <1>2, <1>4, <1>5, <1>6, GoMoves DEF g
<1>8. QED
  BY <1>1, <1>2, <1>3, <1>7

LEMMA PlaceFailedMoves ==
    ASSUME FilesTyped, Stages, NEW r \in Requests, PlaceFailed(r)
    PROVE  Moves(r) /\ Books(r) /\ Quiet(r) /\ req'[r].at = "failed"
<1>1. req[r] \in File /\ Stage(req[r]) /\ req[r].at = "put failed" /\ store' = store
  BY RequestTyped DEF PlaceFailed
<1>2. req[r].sum \in Sums
  BY <1>1 DEF Stage, File
<1>3. SetMem(Srv(r), unpin(Mem(r), req[r].sum)) /\ Fails(r)
  BY DEF PlaceFailed
<1>4. QED
  BY <1>1, <1>2, <1>3, UnpinGo

LEMMA AttachEffect ==
    ASSUME NEW m \in Memory, NEW s \in Sums, NEW k \in Nat, NEW n, n = [m EXCEPT !.attaches[s] = k]
    PROVE  /\ n \in Memory /\ n.mu = m.mu /\ n.pending = m.pending /\ n.pins = m.pins /\ n.total = m.total /\ n.drops = m.drops
           /\ n.attaches[s] = k /\ m.attaches[s] \in Nat /\ \A s1 \in Sums : s1 # s => n.attaches[s1] = m.attaches[s1]
<1>1. m.attaches \in [Sums -> Nat]
  BY DEF Memory
<1> DEFINE a == [m.attaches EXCEPT ![s] = k]
<1>2. a \in [Sums -> Nat] /\ a[s] = k /\ \A s1 \in Sums : s1 # s => a[s1] = m.attaches[s1]
  BY <1>1
<1>3. n = [m EXCEPT !.attaches = a]
  BY DEF Memory
<1> HIDE DEF a
<1>4. QED
  BY <1>1, <1>2, <1>3 DEF Memory

\* The attach counts of a server after r has its blob: an attach count of 1 is r's own.
Counted(r) ==
    /\ \A s \in Sums : s # req[r].sum => mem'[Srv(r)].attaches[s] = mem[Srv(r)].attaches[s]
    /\ mem'[Srv(r)].attaches[req[r].sum] = 1 => req'[r].created

LEMMA PlaceCountMoves ==
    ASSUME FilesTyped, Stages, NEW r \in Requests, PlaceCount(r)
    PROVE  /\ Moves(r) /\ Books(r) /\ Complete(req'[r]) /\ req'[r].sum = req[r].sum /\ Counted(r)
           /\ req'[r].created => ~req[r].found
           /\ req'[r].at = AfterAttach /\ mem'[Srv(r)].total = mem[Srv(r)].total
<1>1. PICK f, m : f = req[r] /\ m = mem[Srv(r)]
  OBVIOUS
<1>2. f \in File /\ m \in Memory /\ Stage(f) /\ f.at = "count" /\ store' = store
  BY <1>1, RequestTyped DEF PlaceCount
<1>3. f.sum \in Sums
  BY <1>2 DEF Stage, File
<1> DEFINE made == m.attaches[f.sum] = 0 /\ ~f.found
           k == IF m.attaches[f.sum] > 0 \/ made THEN m.attaches[f.sum] + 1 ELSE m.attaches[f.sum]
           n0 == [m EXCEPT !.attaches[f.sum] = k]
<1>4. Placed(r, n0, made)
  BY <1>1 DEF PlaceCount, Mem
<1>5. m.attaches[f.sum] \in Nat /\ made \in BOOLEAN
  BY <1>2, <1>3 DEF Memory
<1>6. k \in Nat /\ (k = 1 => made) /\ (made => ~f.found)
  BY ONLY <1>5
<1> HIDE DEF made, k
<1>7. /\ n0 \in Memory /\ n0.mu = m.mu /\ n0.drops = m.drops /\ n0.pending = m.pending /\ n0.pins = m.pins /\ n0.total = m.total
      /\ n0.attaches[f.sum] = k /\ \A s1 \in Sums : s1 # f.sum => n0.attaches[s1] = m.attaches[s1]
  BY <1>2, <1>3, <1>6, AttachEffect
<1> HIDE DEF n0
<1>8. \A s \in Sums : n0.pins[s] = m.pins[s] + (IF s = f.sum /\ f.at = "attach" THEN 1 ELSE 0)
  BY ONLY <1>2, <1>7 DEF Memory
<1>9. /\ Moves(r) /\ Books(r) /\ Complete(req'[r]) /\ req'[r].sum = req[r].sum /\ req'[r].created = made
      /\ req'[r].at = AfterAttach /\ mem'[Srv(r)].attaches = n0.attaches /\ mem'[Srv(r)].total = n0.total
  BY ONLY <1>1, <1>2, <1>3, <1>4, <1>5, <1>7, <1>8, PlacedMoves, FilesTyped, Stages, r \in Requests
<1>10. QED
  BY <1>1, <1>6, <1>7, <1>9 DEF Counted

LEMMA PlusEffect ==
    ASSUME NEW t \in Totals, NEW k \in Int
    PROVE  /\ Plus(t, k) \in Totals /\ Plus(t, k).known = t.known /\ Plus(t, k).missed = t.missed
           /\ t.known => Plus(t, k).bytes = t.bytes + k
           /\ ~t.known => Plus(t, k) = t
<1>1. CASE t.known
  <2>1. t.bytes + k \in Int
    BY DEF Totals
  <2>2. Plus(t, k) = [t EXCEPT !.bytes = t.bytes + k]
    BY <1>1 DEF Plus, Totals
  <2>3. QED
    BY <1>1, <2>1, <2>2 DEF Totals
<1>2. CASE ~t.known
  BY <1>2 DEF Plus
<1>3. QED
  BY <1>1, <1>2

\* A Put that stored the blob and then failed is missing from the total.
Missed(t) == [t EXCEPT !.missed = @ + 1]

LEMMA MissedEffect ==
    ASSUME NEW t \in Totals
    PROVE  Missed(t) \in Totals /\ Missed(t).known = t.known /\ Missed(t).bytes = t.bytes /\ Missed(t).missed = t.missed + 1
<1>1. t.missed + 1 \in Nat
  BY DEF Totals
<1>2. QED
  BY <1>1 DEF Missed, Totals

LEMMA TotalTyped ==
    ASSUME FilesTyped, NEW m \in Memory
    PROVE  /\ Cardinality(blobs) \in Nat /\ namespaceTotal(m) \in Totals /\ namespaceTotal(m).known
           /\ Plus(namespaceTotal(m), 1) \in Totals /\ Missed(namespaceTotal(m)) \in Totals
<1>1. Cardinality(blobs) \in Nat
  BY FS_CardinalityType DEF FilesTyped
<1>2. m.total \in Totals
  BY DEF Memory
<1>3. Noted(Cardinality(blobs)) \in Totals /\ Noted(Cardinality(blobs)).known
  BY <1>1 DEF Noted, Totals
<1>4. namespaceTotal(m) \in Totals /\ namespaceTotal(m).known
  BY <1>2, <1>3 DEF namespaceTotal
<1>5. QED
  BY <1>1, <1>4, PlusEffect, MissedEffect

\* A capped attach that fails notes the total and nothing else.
LEMMA FailTotal ==
    ASSUME FilesTyped, Stages, NEW r \in Requests, store' = store, NEW t \in Totals,
           SetMem(Srv(r), [Mem(r) EXCEPT !.total = t]), Fails(r), req[r].at = "attach"
    PROVE  /\ Moves(r) /\ Books(r) /\ req'[r].at = "failed"
           /\ mem'[Srv(r)].attaches = mem[Srv(r)].attaches /\ mem'[Srv(r)].total = t
<1>1. PICK f, m : f = req[r] /\ m = mem[Srv(r)]
  OBVIOUS
<1>2. f \in File /\ m \in Memory /\ Stage(f)
  BY <1>1, RequestTyped
<1> DEFINE g == [f EXCEPT !.at = "failed"]
           n == [m EXCEPT !.total = t]
<1>3. g \in File /\ g.at = "failed" /\ g.sum = f.sum /\ g.tmp = f.tmp /\ g.pins = f.pins /\ g.created = f.created /\ f.tmp \in BOOLEAN
  BY <1>2 DEF File, FileAt
<1>4. n \in Memory /\ n.mu = m.mu /\ n.drops = m.drops /\ n.pins = m.pins /\ n.pending = m.pending /\ n.attaches = m.attaches /\ n.total = t
  BY <1>2 DEF Memory
<1>5. req' = [req EXCEPT ![r] = g] /\ mem' = [mem EXCEPT ![Srv(r)] = n]
  BY <1>1 DEF Fails, SetMem, Mem
<1> HIDE DEF g, n
<1>6. Stage(g)
  BY <1>1, <1>2, <1>3 DEF Stage, AttachAt, PlaceAt, CopyAt
<1>7. Moves(r) /\ req'[r] = g /\ mem'[Srv(r)] = n
  BY ONLY <1>1, <1>3, <1>4, <1>5, <1>6, MovesFrom, FilesTyped, r \in Requests, store' = store
<1>8. \A s \in Sums : Holds(g, s) <=> Holds(f, s)
  BY ONLY <1>1, <1>3, req[r].at = "attach" DEF Holds, PlaceAt
<1>9. Books(r)
  BY ONLY <1>1, <1>2, <1>3, <1>4, <1>7, <1>8, BooksKept, FilesTyped, r \in Requests
<1>10. QED
  BY <1>1, <1>3, <1>4, <1>7, <1>9

\* The four ends of a capped attach: it fails, it finds the blob, it stores the blob, or
\* it stores the blob and then fails.
CappedFails(r) ==
    /\ req'[r].at = "failed" /\ blobs' = blobs /\ mem'[Srv(r)].attaches = mem[Srv(r)].attaches
    /\ \/ mem'[Srv(r)].total = mem[Srv(r)].total
       \/ ~dropping(r) /\ mem'[Srv(r)].total = namespaceTotal(mem[Srv(r)])
CappedFinds(r) ==
    /\ req[r].sum \in blobs /\ blobs' = blobs /\ Complete(req'[r]) /\ req'[r].sum = req[r].sum /\ Counted(r)
    /\ mem'[Srv(r)].total = mem[Srv(r)].total /\ req'[r].at = AfterAttach /\ ~req'[r].created
CappedStores(r) ==
    /\ ~dropping(r) /\ req[r].sum \notin blobs /\ blobs' = blobs \cup {req[r].sum} /\ Complete(req'[r])
    /\ req'[r].sum = req[r].sum /\ Counted(r) /\ mem'[Srv(r)].total = Plus(namespaceTotal(mem[Srv(r)]), 1)
    /\ req'[r].at = AfterAttach
CappedMisses(r) ==
    /\ ~dropping(r) /\ req[r].sum \notin blobs /\ blobs' = blobs \cup {req[r].sum} /\ req'[r].at = "failed"
    /\ mem'[Srv(r)].attaches = mem[Srv(r)].attaches /\ mem'[Srv(r)].total = Missed(namespaceTotal(mem[Srv(r)]))

LEMMA CappedMoves ==
    ASSUME FilesTyped, Stages, NEW r \in Requests, placeCapped(r)
    PROVE  Moves(r) /\ Books(r) /\ (CappedFails(r) \/ CappedFinds(r) \/ CappedStores(r) \/ CappedMisses(r))
<1>1. PICK f, m : f = req[r] /\ m = mem[Srv(r)]
  OBVIOUS
<1>2. f \in File /\ m \in Memory /\ Stage(f) /\ f.at = "attach" /\ store' = store
  BY <1>1, RequestTyped DEF placeCapped
<1>3. f.sum \in Sums
  BY <1>2 DEF Stage, File
<1>m. Mem(r) = m
  BY <1>1 DEF Mem
<1> DEFINE n == pin(m, f.sum)
           t == namespaceTotal(m)
<1>4. /\ n \in Memory /\ n.mu = m.mu /\ n.drops = m.drops /\ n.attaches = m.attaches /\ n.total = m.total /\ n.pending = m.pending
      /\ \A s \in Sums : m.pins[s] \in Int /\ n.pins[s] = m.pins[s] + (IF s = f.sum THEN 1 ELSE 0)
  BY ONLY <1>2, <1>3, PinEffect
<1>5. t \in Totals /\ Plus(t, 1) \in Totals /\ Missed(t) \in Totals
  BY <1>2, TotalTyped
<1>6. CASE Fails(r) /\ UNCHANGED <<mem, blobs>>
  <2>1. Fails(r) /\ UNCHANGED <<mem, blobs>>
    BY <1>6
  <2>2. Moves(r) /\ Books(r) /\ req'[r].at = "failed"
    BY <1>1, <1>2, <2>1, StopMoves DEF Fails, Go
  <2>3. QED
    BY <2>1, <2>2 DEF CappedFails
<1>7. CASE /\ ~dropping(r) /\ f.sum \in blobs
           /\ Placed(r, [n EXCEPT !.attaches[f.sum] = IF @ > 0 THEN @ + 1 ELSE @], FALSE) /\ UNCHANGED blobs
  <2> DEFINE k == IF n.attaches[f.sum] > 0 THEN n.attaches[f.sum] + 1 ELSE n.attaches[f.sum]
             n0 == [n EXCEPT !.attaches[f.sum] = k]
  <2>0. PICK made \in BOOLEAN : made = FALSE
    OBVIOUS
  <2>1. Placed(r, n0, made) /\ blobs' = blobs
    BY <1>7, <2>0
  <2>2. n.attaches[f.sum] \in Nat
    BY <1>3, <1>4 DEF Memory
  <2>3. k \in Nat /\ k # 1
    BY ONLY <2>2
  <2> HIDE DEF k, n
  <2>4. /\ n0 \in Memory /\ n0.mu = n.mu /\ n0.drops = n.drops /\ n0.pending = n.pending /\ n0.pins = n.pins /\ n0.total = n.total
        /\ n0.attaches[f.sum] = k /\ \A s1 \in Sums : s1 # f.sum => n0.attaches[s1] = n.attaches[s1]
    BY <1>3, <1>4, <2>3, AttachEffect
  <2> HIDE DEF n0
  <2>5. \A s \in Sums : n0.pins[s] = m.pins[s] + (IF s = f.sum /\ f.at = "attach" THEN 1 ELSE 0)
    BY ONLY <1>2, <1>4, <2>4
  <2>6. /\ Moves(r) /\ Books(r) /\ Complete(req'[r]) /\ req'[r].sum = req[r].sum /\ req'[r].created = made
        /\ req'[r].at = AfterAttach /\ mem'[Srv(r)].attaches = n0.attaches /\ mem'[Srv(r)].total = n0.total
    BY ONLY <1>1, <1>2, <1>3, <1>4, <2>1, <2>4, <2>5, made \in BOOLEAN, PlacedMoves, FilesTyped, Stages, r \in Requests
  <2>7. CappedFinds(r)
    BY <2>0, <1>1, <1>4, <1>7, <2>1, <2>3, <2>4, <2>6 DEF CappedFinds, Counted
  <2>8. QED
    BY <2>6, <2>7
<1>8. CASE /\ ~dropping(r) /\ f.sum \notin blobs
           /\ \/ SetMem(Srv(r), [Mem(r) EXCEPT !.total = t]) /\ Fails(r) /\ UNCHANGED blobs
              \/ Placed(r, [n EXCEPT !.attaches[f.sum] = 1, !.total = Plus(t, 1)], TRUE) /\ blobs' = blobs \cup {f.sum}
              \/ SetMem(Srv(r), [Mem(r) EXCEPT !.total = Missed(t)]) /\ Fails(r) /\ blobs' = blobs \cup {f.sum}
  <2>2. CASE SetMem(Srv(r), [Mem(r) EXCEPT !.total = t]) /\ Fails(r) /\ UNCHANGED blobs
    <3>1. /\ Moves(r) /\ Books(r) /\ req'[r].at = "failed"
          /\ mem'[Srv(r)].attaches = mem[Srv(r)].attaches /\ mem'[Srv(r)].total = t
      BY <1>1, <1>2, <1>5, <2>2, FailTotal
    <3>2. QED
      BY <1>1, <1>8, <2>2, <3>1 DEF CappedFails
  <2>3. CASE Placed(r, [n EXCEPT !.attaches[f.sum] = 1, !.total = Plus(t, 1)], TRUE) /\ blobs' = blobs \cup {f.sum}
    <3> DEFINE n1 == [n EXCEPT !.attaches[f.sum] = 1]
               n0 == [n1 EXCEPT !.total = Plus(t, 1)]
    <3> HIDE DEF n, t
    <3>a. PICK k \in Nat : k = 1
      OBVIOUS
    <3>b. n1 = [n EXCEPT !.attaches[f.sum] = k]
      BY <3>a
    <3> HIDE DEF n1
    <3>1. /\ n1 \in Memory /\ n1.mu = n.mu /\ n1.drops = n.drops /\ n1.pending = n.pending /\ n1.pins = n.pins
          /\ n1.attaches[f.sum] = 1 /\ \A s1 \in Sums : s1 # f.sum => n1.attaches[s1] = n.attaches[s1]
      <4>1. n \in Memory
        BY <1>4
      <4>2. /\ n1 \in Memory /\ n1.mu = n.mu /\ n1.drops = n.drops /\ n1.pending = n.pending /\ n1.pins = n.pins
            /\ n1.attaches[f.sum] = k /\ \A s1 \in Sums : s1 # f.sum => n1.attaches[s1] = n.attaches[s1]
        BY ONLY <1>3, <4>1, <3>b, k \in Nat, AttachEffect
      <4>3. QED
        BY <3>a, <4>2
    <3>2. [n EXCEPT !.attaches[f.sum] = 1, !.total = Plus(t, 1)] = n0
      BY <1>3, <1>4 DEF Memory, n1
    <3>3. /\ n0 \in Memory /\ n0.mu = n.mu /\ n0.drops = n.drops /\ n0.pending = n.pending /\ n0.pins = n.pins /\ n0.attaches = n1.attaches /\ n0.total = Plus(t, 1)
      BY <1>5, <3>1 DEF Memory
    <3>0. PICK made \in BOOLEAN : made = TRUE
      OBVIOUS
    <3>4. Placed(r, n0, made)
      BY <2>3, <3>0, <3>2
    <3> HIDE DEF n0
    <3>5. \A s \in Sums : n0.pins[s] = m.pins[s] + (IF s = f.sum /\ f.at = "attach" THEN 1 ELSE 0)
      BY ONLY <1>2, <1>4, <3>3
    <3>6. /\ Moves(r) /\ Books(r) /\ Complete(req'[r]) /\ req'[r].sum = req[r].sum /\ req'[r].created = made
          /\ req'[r].at = AfterAttach /\ mem'[Srv(r)].attaches = n0.attaches /\ mem'[Srv(r)].total = n0.total
      BY ONLY <1>1, <1>2, <1>3, <1>4, <3>3, <3>4, <3>5, made \in BOOLEAN, PlacedMoves, FilesTyped, Stages, r \in Requests
    <3>7. CappedStores(r)
      BY <3>0, <1>1, <1>4, <1>8, <2>3, <3>1, <3>3, <3>6 DEF CappedStores, Counted, t
    <3>8. QED
      BY <3>6, <3>7
  <2>4. CASE SetMem(Srv(r), [Mem(r) EXCEPT !.total = Missed(t)]) /\ Fails(r) /\ blobs' = blobs \cup {f.sum}
    <3>1. /\ Moves(r) /\ Books(r) /\ req'[r].at = "failed"
          /\ mem'[Srv(r)].attaches = mem[Srv(r)].attaches /\ mem'[Srv(r)].total = Missed(t)
      BY <1>1, <1>2, <1>5, <2>4, FailTotal
    <3>2. QED
      BY <1>1, <1>8, <2>4, <3>1 DEF CappedMisses
  <2>5. QED
    BY <1>8, <2>2, <2>3, <2>4
<1>9. QED
  <2>1. \/ Fails(r) /\ UNCHANGED <<mem, blobs>>
        \/ /\ ~dropping(r) /\ f.sum \in blobs
           /\ Placed(r, [n EXCEPT !.attaches[f.sum] = IF @ > 0 THEN @ + 1 ELSE @], FALSE) /\ UNCHANGED blobs
        \/ /\ ~dropping(r) /\ f.sum \notin blobs
           /\ \/ SetMem(Srv(r), [Mem(r) EXCEPT !.total = t]) /\ Fails(r) /\ UNCHANGED blobs
              \/ Placed(r, [n EXCEPT !.attaches[f.sum] = 1, !.total = Plus(t, 1)], TRUE) /\ blobs' = blobs \cup {f.sum}
              \/ SetMem(Srv(r), [Mem(r) EXCEPT !.total = Missed(t)]) /\ Fails(r) /\ blobs' = blobs \cup {f.sum}
    BY <1>1, <1>m DEF placeCapped, Missed
  <2>2. QED
    BY <1>6, <1>7, <1>8, <2>1

LEMMA PinCountMoves ==
    ASSUME FilesTyped, Stages, NEW r \in Requests, PinCount(r)
    PROVE  /\ Moves(r) /\ Books(r) /\ mem'[Srv(r)].total = mem[Srv(r)].total
           /\ \/ Quiet(r) /\ req'[r].at = "failed"
              \/ req[r].found /\ Complete(req'[r]) /\ req'[r].at = "begin" /\ req'[r].sum = req[r].sum /\ Counted(r)
                 /\ ~req'[r].created
<1>1. PICK f, m : f = req[r] /\ m = mem[Srv(r)]
  OBVIOUS
<1>2. f \in File /\ m \in Memory /\ Stage(f) /\ f.at = "pinned" /\ store' = store
  BY <1>1, RequestTyped DEF PinCount
<1>3. f.sum \in Sums /\ f.sum # NoSum
  BY <1>2, FilesAssumption DEF Stage, File
<1>4. ~f.tmp /\ f.pins = 0 /\ ~f.created
  BY <1>2 DEF Stage, CopyAt
<1>5. CASE ~f.found
  <2>1. SetMem(Srv(r), unpin(Mem(r), req[r].sum)) /\ Fails(r)
    BY <1>1, <1>5 DEF PinCount
  <2>2. Moves(r) /\ Books(r) /\ Quiet(r) /\ req'[r].at = "failed"
    BY <1>1, <1>2, <1>3, <2>1, UnpinGo
  <2>3. QED
    BY <2>2 DEF Quiet, Less
<1>6. CASE f.found
  <2> DEFINE k == IF m.attaches[f.sum] > 0 THEN m.attaches[f.sum] + 1 ELSE m.attaches[f.sum]
             n == [m EXCEPT !.attaches[f.sum] = k]
             g == [f EXCEPT !.at = "begin", !.pins = 1]
  <2>1. mem' = [mem EXCEPT ![Srv(r)] = n] /\ req' = [req EXCEPT ![r] = g]
    BY <1>1, <1>6 DEF PinCount, SetMem, Mem
  <2>2. m.attaches[f.sum] \in Nat
    BY <1>2, <1>3 DEF Memory
  <2>3. k \in Nat /\ k # 1
    BY ONLY <2>2
  <2>4. g \in File /\ g.at = "begin" /\ g.sum = f.sum /\ g.tmp = f.tmp /\ f.tmp \in BOOLEAN /\ g.pins = 1 /\ g.created = f.created
    BY <1>2 DEF File, FileAt
  <2> HIDE DEF k, g
  <2>5. /\ n \in Memory /\ n.mu = m.mu /\ n.drops = m.drops /\ n.pending = m.pending /\ n.pins = m.pins /\ n.total = m.total
        /\ n.attaches[f.sum] = k /\ \A s1 \in Sums : s1 # f.sum => n.attaches[s1] = m.attaches[s1]
    BY <1>2, <1>3, <2>3, AttachEffect
  <2> HIDE DEF n
  <2>6. Complete(g) /\ g.at # "idle" /\ g.at \notin AttachAt /\ g.at \notin PlaceAt /\ g.at \notin CopyAt /\ g.pins # 0
    BY ONLY <2>4 DEF Complete, AttachAt, PlaceAt, CopyAt
  <2>7. Stage(g)
    BY <1>3, <1>4, <2>4, <2>6 DEF Stage
  <2>8. Moves(r) /\ req'[r] = g /\ mem'[Srv(r)] = n
    BY ONLY <1>1, <1>2, <2>1, <2>4, <2>5, <2>7, MovesFrom, FilesTyped, r \in Requests
  <2>9. f.at \in PlaceAt \cup {"stat", "pinned"}
    BY <1>2
  <2>10. \A s \in Sums : Holds(g, s) <=> Holds(f, s)
    BY ONLY <2>4, <2>9 DEF Holds
  <2>11. Books(r)
    BY ONLY <1>1, <1>2, <2>4, <2>5, <2>8, <2>10, BooksKept, FilesTyped, r \in Requests
  <2>12. Counted(r)
    BY <1>1, <2>3, <2>5, <2>8 DEF Counted
  <2>13. QED
    BY <1>1, <1>4, <1>6, <2>4, <2>5, <2>6, <2>8, <2>11, <2>12
<1>7. QED
  BY <1>5, <1>6

LEMMA BeginMoves ==
    ASSUME FilesTyped, Stages, NEW r \in Requests, Begin(r)
    PROVE  /\ Moves(r) /\ Books(r) /\ Quiet(r)
           /\ \/ req'[r].at = "failed" /\ writer' = writer
              \/ ns.on /\ writer' = r /\ Live(req[r])
<1>1. PICK f : f = req[r] /\ f \in File /\ Stage(f) /\ f.at = "begin"
  BY RequestTyped DEF Begin
<1>0. store' = store /\ mem' = mem
  BY DEF Begin
<1>2. CASE ~(ns.on /\ ns.gen = f.gen)
  <2>1. Go(r, "failed") /\ writer' = writer
    BY <1>1, <1>2 DEF Begin, Fails, Go
  <2>2. QED
    BY <1>0, <1>1, <2>1, StopMoves
<1>3. CASE ns.on /\ ns.gen = f.gen
  <2>1. PICK at \in {"attach", "tx"} : at = (IF store.inTx /\ f.tmp THEN "attach" ELSE "tx")
    OBVIOUS
  <2>2. Go(r, at) /\ writer' = r /\ ns.on
    BY <1>1, <1>3, <2>1 DEF Begin
  <2> DEFINE g == [f EXCEPT !.at = at]
  <2>3. /\ g.at = at /\ g.sum = f.sum /\ g.tmp = f.tmp /\ g.pins = f.pins /\ g.created = f.created
        /\ f.pins \in {0, 1} /\ at \in FileAt
    BY <1>1 DEF File, FileAt, AttachAt
  <2> HIDE DEF g
  <2>4. (at = "attach" => f.tmp /\ f.pins = 0 /\ ~f.created) /\ (at = "tx" => f.pins = 1 /\ ~f.tmp)
    <3>1. (f.pins = 0 <=> f.tmp) /\ (f.tmp => store.inTx) /\ (f.created => f.pins = 1)
      BY <1>1 DEF Stage
    <3>2. QED
      BY <2>1, <2>3, <3>1
  <2>5. Stage(g)
    BY <1>1, <2>3, <2>4 DEF Stage, AttachAt, PlaceAt, CopyAt
  <2>6. \A s \in Sums : Holds(g, s) <=> Holds(f, s)
    BY <1>1, <2>3 DEF Holds, PlaceAt
  <2>7. Moves(r) /\ Books(r) /\ req'[r] = g /\ mem'[Srv(r)] = mem[Srv(r)]
    BY <1>0, <1>1, <2>2, <2>3, <2>5, <2>6, GoMoves DEF g
  <2>8. (Needs(g) => Complete(f)) /\ (Complete(g) => Complete(f)) /\ ~New(g) /\ ~Locked(g)
    BY <1>1, <2>3 DEF Needs, Complete, New, Locked
  <2>9. Quiet(r)
    BY <1>1, <2>3, <2>7, <2>8 DEF Quiet, Less, Needs
  <2>10. QED
    BY <1>1, <1>3, <2>2, <2>7, <2>9 DEF Live
<1>4. QED
  BY <1>2, <1>3

\* Commit, Rollback and TimedOut end the write; r keeps what it holds.
LEMMA EndMoves ==
    ASSUME FilesTyped, Stages, NEW r \in Requests, Commit(r) \/ Rollback(r) \/ TimedOut(r)
    PROVE  /\ Moves(r) /\ Books(r) /\ Quiet(r) /\ req'[r].at \in {"failed", "closing"}
           /\ req'[r].created = req[r].created /\ req'[r].sum = req[r].sum
<1>1. CASE Commit(r)
  <2>1. Go(r, "closing") /\ store' = store /\ mem' = mem /\ req[r].at = "tx"
    BY <1>1 DEF Commit
  <2>2. QED
    BY <2>1, StopMoves
<1>2. CASE Rollback(r)
  <2>1. Go(r, "failed") /\ store' = store /\ mem' = mem /\ req[r].at = "tx"
    BY <1>2 DEF Rollback, Fails, Go
  <2>2. QED
    BY <2>1, StopMoves
<1>3. CASE TimedOut(r)
  <2>1. Go(r, "closing") /\ store' = store /\ mem' = mem /\ req[r].at \in {"begin", "tx"}
    BY <1>3 DEF TimedOut
  <2>2. QED
    BY <2>1, StopMoves
<1>4. QED
  BY <1>1, <1>2, <1>3

\* A server's attach counts only go down to 0.
Uncounted(srv) == \A s \in Sums : mem'[srv].attaches[s] \in {mem[srv].attaches[s], 0}

LEMMA DiscardMoves ==
    ASSUME FilesTyped, Stages, NEW r \in Requests, Discard(r)
    PROVE  /\ Moves(r) /\ Books(r) /\ req'[r].at = "closing" /\ ~req'[r].created /\ Uncounted(Srv(r))
           /\ \/ blobs' = blobs /\ mem'[Srv(r)].total = mem[Srv(r)].total
              \/ /\ req[r].created /\ MayDelete(mem[Srv(r)], req[r].sum) /\ blobs' = blobs \ {req[r].sum}
                 /\ mem'[Srv(r)].total = (IF req[r].sum \in blobs THEN Plus(mem[Srv(r)].total, -1)
                                          ELSE mem[Srv(r)].total)
<1>1. PICK f, m : f = req[r] /\ m = mem[Srv(r)]
  OBVIOUS
<1>2. f \in File /\ m \in Memory /\ Stage(f) /\ f.at = "failed" /\ store' = store
  BY <1>1, RequestTyped DEF Discard
<1>m. Mem(r) = m
  BY <1>1 DEF Mem
<1> DEFINE g == [f EXCEPT !.at = "closing", !.created = FALSE]
<1>3. /\ g \in File /\ g.at = "closing" /\ g.sum = f.sum /\ g.tmp = f.tmp /\ f.tmp \in BOOLEAN /\ g.pins = f.pins
      /\ ~g.created
  BY <1>2 DEF File, FileAt
<1>4. req' = [req EXCEPT ![r] = g]
  BY <1>1 DEF Discard
<1> HIDE DEF g
<1>5. Stage(g)
  BY <1>2, <1>3 DEF Stage, AttachAt, PlaceAt, CopyAt
<1>6. \A s \in Sums : Holds(g, s) <=> Holds(f, s)
  BY <1>2, <1>3 DEF Holds, PlaceAt
<1>7. CASE ~f.created
  <2>1. blobs' = blobs /\ mem' = [mem EXCEPT ![Srv(r)] = m]
    BY <1>1, <1>7, RequestTyped DEF Discard
  <2>2. Moves(r) /\ req'[r] = g /\ mem'[Srv(r)] = m
    BY ONLY <1>1, <1>2, <1>3, <1>4, <1>5, <2>1, MovesFrom, FilesTyped, r \in Requests
  <2>3. Books(r)
    BY ONLY <1>1, <1>2, <1>3, <2>2, <1>6, BooksKept, FilesTyped, r \in Requests
  <2>4. QED
    BY <1>1, <1>3, <2>1, <2>2, <2>3 DEF Uncounted
<1>8. CASE f.created
  <2>0. f.sum \in Sums
    BY <1>2 DEF Stage, File
  <2>g. PICK goes \in BOOLEAN : goes = MayDelete(m, f.sum)
    BY DEF MayDelete
  <2> DEFINE t == IF goes /\ f.sum \in blobs THEN Plus(m.total, -1) ELSE m.total
             n1 == [m EXCEPT !.attaches[f.sum] = 0]
             n == [n1 EXCEPT !.total = t]
  <2>1. /\ blobs' = blobs \ (IF goes THEN {f.sum} ELSE {})
        /\ mem' = [mem EXCEPT ![Srv(r)] = [m EXCEPT !.attaches[f.sum] = 0, !.total = t]]
    BY <1>1, <1>8, <1>m, <2>g DEF Discard, SetMem
  <2>2. t \in Totals
    <3>1. m.total \in Totals /\ -1 \in Int
      BY <1>2 DEF Memory
    <3>2. QED
      BY <3>1, PlusEffect
  <2> HIDE DEF t
  <2>3. [m EXCEPT !.attaches[f.sum] = 0, !.total = t] = n
    BY <1>2, <2>0 DEF Memory
  <2>k. PICK k \in Nat : k = 0
    OBVIOUS
  <2>4. n1 = [m EXCEPT !.attaches[f.sum] = k] /\ n = [n1 EXCEPT !.total = t]
    BY <2>k
  <2> HIDE DEF n, n1
  <2>m. m \in Memory
    BY <1>2
  <2>5. /\ n1 \in Memory /\ n1.mu = m.mu /\ n1.drops = m.drops /\ n1.pending = m.pending /\ n1.pins = m.pins
        /\ n1.attaches[f.sum] = k /\ \A s1 \in Sums : s1 # f.sum => n1.attaches[s1] = m.attaches[s1]
    BY ONLY <2>m, <2>0, <2>4, k \in Nat, AttachEffect
  <2>6. n \in Memory /\ n.mu = m.mu /\ n.drops = m.drops /\ n.pending = m.pending /\ n.pins = m.pins /\ n.attaches = n1.attaches /\ n.total = t
    BY <2>2, <2>4, <2>5 DEF Memory
  <2>n. mem' = [mem EXCEPT ![Srv(r)] = n]
    BY ONLY <2>1, <2>3
  <2>7. Moves(r) /\ req'[r] = g /\ mem'[Srv(r)] = n
    BY ONLY <1>1, <1>2, <1>3, <1>4, <1>5, <2>n, <2>6, MovesFrom, FilesTyped, r \in Requests
  <2>8. Books(r)
    BY ONLY <1>1, <1>2, <1>3, <2>6, <2>7, <1>6, BooksKept, FilesTyped, r \in Requests
  <2>9. Uncounted(Srv(r))
    BY <1>1, <2>k, <2>5, <2>6, <2>7 DEF Uncounted
  <2>10. CASE goes
    BY <1>1, <1>3, <1>8, <2>g, <2>1, <2>6, <2>7, <2>8, <2>9, <2>10 DEF t
  <2>11. CASE ~goes
    <3>1. blobs' = blobs
      BY <2>1, <2>11
    <3>2. QED
      BY <1>1, <1>3, <2>6, <2>7, <2>8, <2>9, <2>11, <3>1 DEF t
  <2>12. QED
    BY <2>10, <2>11
<1>9. QED
  BY <1>7, <1>8

LEMMA CloseMoves ==
    ASSUME FilesTyped, Stages, NEW r \in Requests, CloseRequest(r)
    PROVE  /\ Moves(r) /\ Books(r) /\ req'[r] = NoFile /\ Uncounted(Srv(r))
           /\ mem'[Srv(r)].total = mem[Srv(r)].total
           /\ req[r].created => mem'[Srv(r)].attaches[req[r].sum] = 0
<1>1. PICK f, m : f = req[r] /\ m = mem[Srv(r)]
  OBVIOUS
<1>2. f \in File /\ m \in Memory /\ Stage(f) /\ f.at = "closing" /\ store' = store /\ req' = [req EXCEPT ![r] = NoFile]
  BY <1>1, RequestTyped DEF CloseRequest
<1>3. /\ NoFile \in File /\ ~NoFile.tmp /\ NoFile.tmp \in BOOLEAN
      /\ NoFile.sum = NoSum /\ NoFile.at = "idle" /\ NoFile.pins = 0 /\ ~NoFile.created
  BY DEF File, FileAt, NoFile
<1>4. Stage(NoFile)
  BY <1>3 DEF Stage, AttachAt, PlaceAt, CopyAt
<1>5. \A s \in Sums : ~Holds(NoFile, s)
  BY <1>3, FilesAssumption DEF Holds
<1>6. CASE f.sum = NoSum
  <2>1. mem' = [mem EXCEPT ![Srv(r)] = m]
    BY <1>1, <1>6, RequestTyped DEF CloseRequest
  <2>2. Moves(r) /\ req'[r] = NoFile /\ mem'[Srv(r)] = m
    BY ONLY <1>1, <1>2, <1>3, <1>4, <2>1, MovesFrom, FilesTyped, r \in Requests
  <2>3. ~f.created /\ ~f.tmp /\ f.tmp \in BOOLEAN /\ \A s \in Sums : ~Holds(f, s)
    BY <1>2, <1>6, FilesAssumption DEF Stage, Holds, File
  <2>4. Books(r)
    BY ONLY <1>1, <1>2, <1>3, <1>5, <2>2, <2>3, BooksKept, FilesTyped, r \in Requests
  <2>5. QED
    BY <1>1, <2>2, <2>3, <2>4 DEF Uncounted
<1>7. CASE f.sum # NoSum
  <2>0. f.sum \in Sums /\ f.pins \in {0, 1} /\ f.tmp \in BOOLEAN /\ f.created \in BOOLEAN
    BY <1>2, <1>7 DEF File
  <2> DEFINE n == CloseMem(m, f)
             p == [m.pins EXCEPT ![f.sum] = @ - f.pins]
             a == [m.attaches EXCEPT ![f.sum] = IF f.created THEN 0 ELSE @]
             w == m.pending - (IF f.tmp THEN 1 ELSE 0)
  <2>1. mem' = [mem EXCEPT ![Srv(r)] = n]
    BY <1>1, <1>7 DEF CloseRequest, SetMem, Mem
  <2>2. m.pins \in [Sums -> Int] /\ m.attaches \in [Sums -> Nat] /\ m.pending \in Int
    BY <1>2 DEF Memory
  <2>3. /\ p \in [Sums -> Int]
        /\ \A s \in Sums : p[s] = (IF s = f.sum THEN m.pins[s] - f.pins ELSE m.pins[s])
    <3>1. m.pins[f.sum] \in Int
      BY <2>0, <2>2
    <3>2. m.pins[f.sum] - f.pins \in Int
      BY ONLY <2>0, <3>1
    <3>3. QED
      BY <2>0, <2>2, <3>2
  <2>4. /\ a \in [Sums -> Nat]
        /\ \A s \in Sums : a[s] = (IF s = f.sum /\ f.created THEN 0 ELSE m.attaches[s])
    BY <2>0, <2>2
  <2>5. w \in Int
    BY ONLY <2>2
  <2>6. n = [m EXCEPT !.pins = p, !.attaches = a, !.pending = w]
    BY <1>2, <2>0 DEF CloseMem, Memory
  <2> HIDE DEF n, p, a
  <2>7. n \in Memory /\ n.mu = m.mu /\ n.drops = m.drops /\ n.pins = p /\ n.attaches = a /\ n.pending = w /\ n.total = m.total
    BY <1>2, <2>3, <2>4, <2>5, <2>6 DEF Memory
  <2>8. Moves(r) /\ req'[r] = NoFile /\ mem'[Srv(r)] = n
    BY ONLY <1>1, <1>2, <1>3, <1>4, <2>1, <2>7, MovesFrom, FilesTyped, r \in Requests
  <2>9. \A s \in Sums : Holds(f, s) <=> s = f.sum /\ f.pins = 1
    BY <1>2 DEF Holds, PlaceAt
  <2>10. \A s \in Sums : n.pins[s] = m.pins[s] + Bit(Holds(NoFile, s)) - Bit(Holds(f, s))
    <3>1. ASSUME NEW s \in Sums PROVE n.pins[s] = m.pins[s] + Bit(Holds(NoFile, s)) - Bit(Holds(f, s))
      <4>1. m.pins[s] \in Int /\ n.pins[s] = (IF s = f.sum THEN m.pins[s] - f.pins ELSE m.pins[s])
        BY <2>2, <2>3, <2>7
      <4>2. ~Holds(NoFile, s) /\ (Holds(f, s) <=> s = f.sum /\ f.pins = 1) /\ f.pins \in {0, 1}
        BY <1>5, <2>0, <2>9
      <4>3. QED
        BY ONLY <4>1, <4>2 DEF Bit
    <3>2. QED
      BY <3>1
  <2>11. n.pending = m.pending + Bit(NoFile.tmp) - Bit(f.tmp)
    BY ONLY <1>3, <2>0, <2>2, <2>7 DEF Bit
  <2>12. Books(r)
    BY ONLY <1>1, <2>8, <2>10, <2>11 DEF Books
  <2>13. QED
    BY <1>1, <2>0, <2>4, <2>7, <2>8, <2>12 DEF Uncounted
<1>8. QED
  BY <1>6, <1>7

-----------------------------------------------------------------------------
(***************************************************************************)
(* The types, stages and books after a step of a request.                   *)
(***************************************************************************)
RequestStep(r) ==
    \/ Receive(r) \/ copyFile(r) \/ Attach(r) \/ Begin(r) \/ Commit(r) \/ Rollback(r)
    \/ TimedOut(r) \/ Discard(r) \/ CloseRequest(r)

LEMMA RequestMoves ==
    ASSUME FilesTyped, Stages, NEW r \in Requests, RequestStep(r)
    PROVE  Moves(r) /\ Books(r)
<1>1. CASE Receive(r)
  BY <1>1, ReceiveMoves
<1>2. CASE copyFile(r)
  BY <1>2, CopyMoves
<1>3. CASE AttachPin(r)
  BY <1>3, AttachPinMoves
<1>4. CASE PlaceStat(r)
  BY <1>4, PlaceStatMoves
<1>5. CASE PlacePut(r)
  BY <1>5, PlacePutMoves
<1>6. CASE PlaceFailed(r)
  BY <1>6, PlaceFailedMoves
<1>7. CASE PlaceCount(r)
  BY <1>7, PlaceCountMoves
<1>8. CASE placeCapped(r)
  BY <1>8, CappedMoves
<1>9. CASE PinFirst(r)
  BY <1>9, PinFirstMoves
<1>10. CASE PinStat(r)
  BY <1>10, PinStatMoves
<1>11. CASE PinCount(r)
  BY <1>11, PinCountMoves
<1>12. CASE Begin(r)
  BY <1>12, BeginMoves
<1>13. CASE Commit(r) \/ Rollback(r) \/ TimedOut(r)
  BY <1>13, EndMoves
<1>14. CASE Discard(r)
  BY <1>14, DiscardMoves
<1>15. CASE CloseRequest(r)
  BY <1>15, CloseMoves
<1>16. QED
  BY <1>1, <1>2, <1>3, <1>4, <1>5, <1>6, <1>7, <1>8, <1>9, <1>10, <1>11, <1>12, <1>13, <1>14, <1>15
  DEF RequestStep, Attach

\* What a request's step does to the store, the rows and the hash locks.
LEMMA RequestShared ==
    ASSUME FilesTyped, Stages, NEW r \in Requests, RequestStep(r)
    PROVE  /\ ns' = ns /\ vac' = vac /\ drop' = drop
           /\ blobs' \in {blobs, blobs \cup {req[r].sum}, blobs \ {req[r].sum}}
           /\ blobs' = blobs \cup {req[r].sum} => req[r].sum \in Sums \/ blobs' = blobs
           /\ rows' = rows \/ (Commit(r) /\ rows' = [rows EXCEPT ![r] = req[r].sum])
           /\ placing' \in {placing, [placing EXCEPT ![Srv(r)] = @ \cup {req[r].sum}], [placing EXCEPT ![Srv(r)] = @ \ {req[r].sum}]}
           /\ placing' = [placing EXCEPT ![Srv(r)] = @ \cup {req[r].sum}] => req[r].sum \in Sums \/ placing' = placing
<1>0. req[r].sum \in Sums \cup {NoSum} /\ (req[r].at \notin {"idle", "closing"} => req[r].sum \in Sums)
  BY RequestTyped DEF File, Stage
<1>1. CASE Receive(r)
  BY <1>1 DEF Receive
<1>2. CASE copyFile(r)
  BY <1>2 DEF copyFile
<1>3. CASE AttachPin(r)
  BY <1>3 DEF AttachPin
<1>4. CASE PlaceStat(r)
  BY <1>0, <1>4 DEF PlaceStat
<1>5. CASE PlacePut(r)
  BY <1>0, <1>5 DEF PlacePut
<1>6. CASE PlaceFailed(r)
  BY <1>0, <1>6 DEF PlaceFailed
<1>7. CASE PlaceCount(r)
  BY <1>0, <1>7 DEF PlaceCount
<1>8. CASE placeCapped(r)
  <2>1. blobs' = blobs \/ blobs' = blobs \cup {req[r].sum}
    BY <1>8, CappedMoves DEF CappedFails, CappedFinds, CappedStores, CappedMisses
  <2>2. /\ ns' = ns /\ vac' = vac /\ drop' = drop /\ rows' = rows /\ placing' = placing
        /\ req[r].at = "attach"
    BY <1>8 DEF placeCapped
  <2>3. QED
    BY <1>0, <2>1, <2>2
<1>9. CASE PinFirst(r)
  BY <1>9 DEF PinFirst
<1>10. CASE PinStat(r)
  BY <1>10 DEF PinStat
<1>11. CASE PinCount(r)
  BY <1>11 DEF PinCount
<1>12. CASE Begin(r)
  BY <1>12 DEF Begin
<1>13. CASE Commit(r)
  BY <1>13 DEF Commit
<1>14. CASE Rollback(r)
  BY <1>14 DEF Rollback
<1>15. CASE TimedOut(r)
  BY <1>15 DEF TimedOut
<1>16. CASE Discard(r)
  <2>1. blobs' = blobs \/ blobs' = blobs \ {req[r].sum}
    BY <1>16, DiscardMoves
  <2>2. /\ ns' = ns /\ vac' = vac /\ drop' = drop /\ rows' = rows /\ placing' = placing
        /\ req[r].at = "failed"
    BY <1>16 DEF Discard
  <2>3. QED
    BY <1>0, <2>1, <2>2
<1>17. CASE CloseRequest(r)
  BY <1>17 DEF CloseRequest
<1>18. QED
  BY <1>1, <1>2, <1>3, <1>4, <1>5, <1>6, <1>7, <1>8, <1>9, <1>10, <1>11, <1>12, <1>13, <1>14, <1>15, <1>16, <1>17
  DEF RequestStep, Attach

\* A step leaves the request as old as it was, or the request is new, or over.
Ages(r) ==
    \/ req'[r].gen = req[r].gen
    \/ ns.on /\ req'[r].gen = ns.gen /\ ~Needs(req'[r])
    \/ req'[r] = NoFile
Stays(r) == ns' = ns /\ (Needs(req'[r]) => req'[r].gen = req[r].gen)

LEMMA RequestGen ==
    ASSUME FilesTyped, Stages, NEW r \in Requests, RequestStep(r)
    PROVE  Ages(r)
<1>0. req[r] \in File
  BY DEF FilesTyped
<1>1. CASE Receive(r)
  <2>1. req[r].at = "idle" /\ ns.on
    BY <1>1 DEF Receive
  <2>2. ~Needs(req'[r])
    BY <1>1, <2>1, ReceiveMoves DEF Quiet, Less, Needs, Complete
  <2>3. Go(r, "closing") \/ \E s \in Sums : req' = [req EXCEPT ![r] = [NoFile EXCEPT !.at = IF store.inTx THEN "begin" ELSE "attach",
                                             !.sum = s, !.gen = ns.gen, !.tmp = TRUE]]
    BY <1>1 DEF Receive
  <2>4. req'[r].gen = req[r].gen \/ req'[r].gen = ns.gen
    <3>1. CASE Go(r, "closing")
      BY <1>0, <3>1 DEF Go, File, FilesTyped
    <3>2. ASSUME NEW s \in Sums, req' = [req EXCEPT ![r] = [NoFile EXCEPT !.at = IF store.inTx THEN "begin" ELSE "attach",
                                             !.sum = s, !.gen = ns.gen, !.tmp = TRUE]]
          PROVE  req'[r].gen = ns.gen
      BY <3>2 DEF NoFile, FilesTyped
    <3>3. QED
      BY <2>3, <3>1, <3>2
  <2>5. QED
    BY <2>1, <2>2, <2>4 DEF Ages
<1>2. CASE copyFile(r)
  <2>1. req[r].at = "idle" /\ ns.on /\ \E s : req' = [req EXCEPT ![r] = [NoFile EXCEPT !.at = "pin", !.sum = s, !.gen = ns.gen]]
    BY <1>2 DEF copyFile
  <2>2. ~Needs(req'[r])
    BY <1>2, <2>1, CopyMoves DEF Quiet, Less, Needs, Complete
  <2>3. req'[r].gen = ns.gen
    BY <2>1 DEF NoFile, FilesTyped
  <2>4. QED
    BY <2>1, <2>2, <2>3 DEF Ages
<1>3. CASE AttachPin(r) \/ PlaceFailed(r) \/ PinFirst(r) \/ Begin(r) \/ Commit(r) \/ Rollback(r) \/ TimedOut(r) \/ PlacePut(r)
  <2>1. \E at : Go(r, at)
    BY <1>3 DEF AttachPin, PlaceFailed, PinFirst, Begin, Commit, Rollback, TimedOut, PlacePut, Fails, Go
  <2>2. QED
    BY <1>0, <2>1 DEF Go, File, FilesTyped, Ages
<1>4. CASE PlaceStat(r) \/ PinStat(r)
  <2>1. \E at, b : req' = [req EXCEPT ![r].at = at, ![r].found = b]
    BY <1>4 DEF PlaceStat, PinStat
  <2>2. QED
    BY <1>0, <2>1 DEF File, FilesTyped, Ages
<1>5. CASE PlaceCount(r) \/ placeCapped(r)
  <2>1. \/ Fails(r)
        \/ \E b : req' = [req EXCEPT ![r].at = AfterAttach, ![r].tmp = FALSE, ![r].pins = 1, ![r].created = b]
    BY <1>5 DEF PlaceCount, placeCapped, Placed
  <2>2. QED
    BY <1>0, <2>1 DEF Fails, File, FilesTyped, Ages
<1>6. CASE PinCount(r)
  <2>1. Fails(r) \/ req' = [req EXCEPT ![r].at = "begin", ![r].pins = 1]
    BY <1>6 DEF PinCount
  <2>2. QED
    BY <1>0, <2>1 DEF Fails, File, FilesTyped, Ages
<1>7. CASE Discard(r)
  <2>1. req' = [req EXCEPT ![r].at = "closing", ![r].created = FALSE]
    BY <1>7 DEF Discard
  <2>2. QED
    BY <1>0, <2>1 DEF File, FilesTyped, Ages
<1>8. CASE CloseRequest(r)
  BY <1>8, CloseMoves DEF Ages
<1>9. QED
  BY <1>1, <1>2, <1>3, <1>4, <1>5, <1>6, <1>7, <1>8 DEF RequestStep, Attach

LEMMA RequestAges ==
    ASSUME FilesTyped, Stages, NEW r \in Requests, RequestStep(r)
    PROVE  Ages(r) /\ Stays(r)
<1>1. ~Needs(NoFile)
  BY DEF NoFile, Needs, Complete
<1>2. QED
  BY <1>1, RequestGen, RequestShared DEF Ages, Stays

LEMMA RequestKeepsBooks ==
    ASSUME FilesInv, NEW r \in Requests, RequestStep(r)
    PROVE  FilesTyped' /\ Stages' /\ Pins' /\ Reserved'
<1>1. FilesTyped /\ Stages /\ Pins /\ Reserved
  BY DEF FilesInv
<1>2. Moves(r) /\ Books(r)
  BY <1>1, RequestMoves
<1>3. Pins' /\ Reserved'
  BY <1>1, <1>2, BooksFollow
<1>4. Srv(r) \in Servers /\ req[r].sum \in Sums \cup {NoSum}
  BY <1>1, RequestTyped DEF File
<1>5. Stages'
  BY <1>1, <1>2 DEF Stages, Stage, Moves, FilesTyped
<1>6. store' \in Stores /\ store' \in Store /\ req' \in [Requests -> File] /\ mem' \in [Servers -> Memory]
  BY <1>1, <1>2, <1>4 DEF Moves, FilesTyped
<1>7. ns' = ns /\ vac' = vac /\ drop' = drop
  BY <1>1, RequestShared
<1>8. rows' \in [Requests -> Sums \cup {NoSum}]
  BY <1>1, <1>4, RequestShared DEF FilesTyped
<1>9. placing' \in [Servers -> SUBSET Sums]
  <2>1. placing' \in {placing, [placing EXCEPT ![Srv(r)] = @ \cup {req[r].sum}], [placing EXCEPT ![Srv(r)] = @ \ {req[r].sum}]}
    BY <1>1, RequestShared
  <2>2. placing' = [placing EXCEPT ![Srv(r)] = @ \cup {req[r].sum}] => req[r].sum \in Sums \/ placing' = placing
    BY <1>1, RequestShared
  <2>3. placing \in [Servers -> SUBSET Sums]
    BY <1>1 DEF FilesTyped
  <2>4. QED
    BY ONLY <2>1, <2>2, <2>3, <1>4
<1>10. blobs' \subseteq Sums /\ IsFiniteSet(blobs')
  <2>0. blobs \subseteq Sums /\ IsFiniteSet(blobs)
    BY <1>1 DEF FilesTyped
  <2>1. blobs' \in {blobs, blobs \cup {req[r].sum}, blobs \ {req[r].sum}}
    BY <1>1, RequestShared
  <2>2. blobs' = blobs \cup {req[r].sum} => req[r].sum \in Sums \/ blobs' = blobs
    BY <1>1, RequestShared
  <2>3. IsFiniteSet(blobs \cup {req[r].sum}) /\ IsFiniteSet(blobs \ {req[r].sum})
    BY <2>0, FS_AddElement, FS_RemoveElement
  <2>4. QED
    BY ONLY <2>0, <2>1, <2>2, <2>3
<1>11. FilesTyped'
  BY <1>1, <1>6, <1>7, <1>8, <1>9, <1>10 DEF FilesTyped
<1>12. QED
  BY <1>3, <1>5, <1>11

-----------------------------------------------------------------------------
(***************************************************************************)
(* The writer after a step of a request.                                    *)
(***************************************************************************)
\* What a request's step does to the writer: nothing, or Begin takes it, or its holder gives it back.
Writes(r) ==
    \/ writer' = writer /\ (InTx(req'[r]) => InTx(req[r]))
    \/ writer = None /\ ns.on /\ writer' = r /\ Live(req[r])
    \/ writer = r /\ writer' = None /\ ~InTx(req'[r])

LEMMA GoAt ==
    ASSUME FilesTyped, NEW r \in Requests, NEW at, Go(r, at)
    PROVE  req'[r].at = at
<1>1. req[r] \in File
  BY DEF FilesTyped
<1>2. req'[r] = [req[r] EXCEPT !.at = at]
  BY DEF Go, FilesTyped
<1>3. QED
  BY <1>1, <1>2 DEF File

LEMMA RequestWrites ==
    ASSUME FilesTyped, Stages, Exclusive, NEW r \in Requests, RequestStep(r)
    PROVE  Writes(r) /\ (rows' = rows \/ writer = r)
<1>0. InTx(req[r]) => writer = r
  BY DEF Exclusive
<1>1. CASE Receive(r)
  <2>1. ns.on /\ writer' = writer /\ rows' = rows
    BY <1>1 DEF Receive
  <2>2. Go(r, "closing") \/ \E s \in Sums : req' = [req EXCEPT ![r] = [NoFile EXCEPT !.at = IF store.inTx THEN "begin" ELSE "attach",
                                             !.sum = s, !.gen = ns.gen, !.tmp = TRUE]]
    BY <1>1 DEF Receive
  <2>3. req'[r].at \in {"closing", "begin"} \/ (req'[r].at = "attach" /\ ~store.inTx)
    <3>1. CASE Go(r, "closing")
      BY <3>1, GoAt
    <3>2. ASSUME NEW s \in Sums, req' = [req EXCEPT ![r] = [NoFile EXCEPT !.at = IF store.inTx THEN "begin" ELSE "attach",
                                             !.sum = s, !.gen = ns.gen, !.tmp = TRUE]]
          PROVE  req'[r].at = (IF store.inTx THEN "begin" ELSE "attach")
      BY <3>2 DEF NoFile, FilesTyped
    <3>3. QED
      BY <2>2, <3>1, <3>2
  <2>4. ~InTx(req'[r])
    BY <2>3 DEF InTx, AttachAt, PlaceAt
  <2>5. QED
    BY <2>1, <2>4 DEF Writes
<1>2. CASE copyFile(r)
  <2>1. ns.on /\ writer' = writer /\ rows' = rows /\ \E s : req' = [req EXCEPT ![r] = [NoFile EXCEPT !.at = "pin", !.sum = s, !.gen = ns.gen]]
    BY <1>2 DEF copyFile
  <2>2. req'[r].at = "pin"
    BY <2>1 DEF NoFile, FilesTyped
  <2>3. ~InTx(req'[r])
    BY <2>2 DEF InTx, AttachAt, PlaceAt
  <2>4. QED
    BY <2>1, <2>3 DEF Writes
<1>3. CASE AttachPin(r)
  <2>1. req[r].at = "attach" /\ writer' = writer /\ rows' = rows /\ (Go(r, "failed") \/ Go(r, "place"))
    BY <1>3 DEF AttachPin, Fails, Go
  <2>2. req'[r].at \in {"failed", "place"}
    BY <2>1, GoAt
  <2>3. InTx(req'[r]) => InTx(req[r])
    BY <2>1, <2>2 DEF InTx, AttachAt, PlaceAt
  <2>4. QED
    BY <2>1, <2>3 DEF Writes
<1>4. CASE PlaceStat(r)
  <2>1. req[r].at = "place" /\ writer' = writer /\ rows' = rows
    BY <1>4 DEF PlaceStat
  <2>2. req'[r].at = "put"
    BY <1>4, PlaceStatMoves
  <2>3. InTx(req'[r]) => InTx(req[r])
    BY <2>1, <2>2 DEF InTx, AttachAt, PlaceAt
  <2>4. QED
    BY <2>1, <2>3 DEF Writes
<1>5. CASE PlacePut(r)
  <2>1. req[r].at = "put" /\ writer' = writer /\ rows' = rows
    BY <1>5 DEF PlacePut
  <2>2. req'[r].at \in {"count", "put failed"}
    BY <1>5, PlacePutMoves
  <2>3. InTx(req'[r]) => InTx(req[r])
    BY <2>1, <2>2 DEF InTx, AttachAt, PlaceAt
  <2>4. QED
    BY <2>1, <2>3 DEF Writes
<1>6. CASE PlaceFailed(r)
  <2>1. writer' = writer /\ rows' = rows
    BY <1>6 DEF PlaceFailed
  <2>2. req'[r].at = "failed"
    BY <1>6, PlaceFailedMoves
  <2>3. ~InTx(req'[r])
    BY <2>2 DEF InTx, AttachAt, PlaceAt
  <2>4. QED
    BY <2>1, <2>3 DEF Writes
<1>7. CASE PlaceCount(r)
  <2>1. req[r].at = "count" /\ writer' = writer /\ rows' = rows
    BY <1>7 DEF PlaceCount
  <2>2. req'[r].at = AfterAttach
    BY <1>7, PlaceCountMoves
  <2>3. InTx(req'[r]) => InTx(req[r])
    BY <2>1, <2>2 DEF InTx, AttachAt, PlaceAt, AfterAttach
  <2>4. QED
    BY <2>1, <2>3 DEF Writes
<1>8. CASE placeCapped(r)
  <2>1. req[r].at = "attach" /\ writer' = writer /\ rows' = rows
    BY <1>8 DEF placeCapped
  <2>2. req'[r].at \in {"failed", AfterAttach}
    BY <1>8, CappedMoves DEF CappedFails, CappedFinds, CappedStores, CappedMisses
  <2>3. InTx(req'[r]) => InTx(req[r])
    BY <2>1, <2>2 DEF InTx, AttachAt, PlaceAt, AfterAttach
  <2>4. QED
    BY <2>1, <2>3 DEF Writes
<1>9. CASE PinFirst(r)
  <2>1. req[r].at = "pin" /\ writer' = writer /\ rows' = rows /\ (Go(r, "failed") \/ Go(r, "stat"))
    BY <1>9 DEF PinFirst, Fails, Go
  <2>2. req'[r].at \in {"failed", "stat"}
    BY <2>1, GoAt
  <2>3. ~InTx(req'[r])
    BY <2>2 DEF InTx, AttachAt, PlaceAt
  <2>4. QED
    BY <2>1, <2>3 DEF Writes
<1>10. CASE PinStat(r)
  <2>1. req[r].at = "stat" /\ writer' = writer /\ rows' = rows
    BY <1>10 DEF PinStat
  <2>2. req'[r].at = "pinned"
    BY <1>10, PinStatMoves
  <2>3. ~InTx(req'[r])
    BY <2>2 DEF InTx, AttachAt, PlaceAt
  <2>4. QED
    BY <2>1, <2>3 DEF Writes
<1>11. CASE PinCount(r)
  <2>1. req[r].at = "pinned" /\ writer' = writer /\ rows' = rows
    BY <1>11 DEF PinCount
  <2>2. req'[r].at \in {"failed", "begin"}
    BY <1>11, PinCountMoves
  <2>3. ~InTx(req'[r])
    BY <2>2 DEF InTx, AttachAt, PlaceAt
  <2>4. QED
    BY <2>1, <2>3 DEF Writes
<1>12. CASE Begin(r)
  <2>1. req[r].at = "begin" /\ writer = None /\ rows' = rows
    BY <1>12 DEF Begin
  <2>2. (req'[r].at = "failed" /\ writer' = writer) \/ (ns.on /\ writer' = r /\ Live(req[r]))
    BY <1>12, BeginMoves
  <2>3. req'[r].at = "failed" => ~InTx(req'[r])
    BY DEF InTx, AttachAt, PlaceAt
  <2>4. QED
    BY <2>1, <2>2, <2>3 DEF Writes
<1>13. CASE Commit(r) \/ Rollback(r)
  <2>1. req[r].at = "tx" /\ writer' = None
    BY <1>13 DEF Commit, Rollback
  <2>2. req'[r].at \in {"failed", "closing"}
    BY <1>13, EndMoves
  <2>3. ~InTx(req'[r]) /\ InTx(req[r])
    BY <2>1, <2>2 DEF InTx, AttachAt, PlaceAt
  <2>4. QED
    BY <1>0, <2>1, <2>3 DEF Writes
<1>14. CASE TimedOut(r)
  <2>1. writer' = (IF writer = r THEN None ELSE writer) /\ rows' = rows
    BY <1>14 DEF TimedOut, ReleaseWriter
  <2>2. req'[r].at \in {"failed", "closing"}
    BY <1>14, EndMoves
  <2>3. ~InTx(req'[r])
    BY <2>2 DEF InTx, AttachAt, PlaceAt
  <2>4. QED
    BY <2>1, <2>3 DEF Writes
<1>15. CASE Discard(r)
  <2>1. writer' = (IF writer = r THEN None ELSE writer) /\ rows' = rows
    BY <1>15 DEF Discard, ReleaseWriter
  <2>2. req'[r].at = "closing"
    BY <1>15, DiscardMoves
  <2>3. ~InTx(req'[r])
    BY <2>2 DEF InTx, AttachAt, PlaceAt
  <2>4. QED
    BY <2>1, <2>3 DEF Writes
<1>16. CASE CloseRequest(r)
  <2>1. writer' = writer /\ rows' = rows
    BY <1>16 DEF CloseRequest
  <2>2. req'[r].at = "idle"
    BY <1>16, CloseMoves DEF NoFile
  <2>3. ~InTx(req'[r])
    BY <2>2 DEF InTx, AttachAt, PlaceAt
  <2>4. QED
    BY <2>1, <2>3 DEF Writes
<1>17. QED
  BY <1>1, <1>2, <1>3, <1>4, <1>5, <1>6, <1>7, <1>8, <1>9, <1>10, <1>11, <1>12, <1>13, <1>14, <1>15, <1>16
  DEF RequestStep, Attach

LEMMA RequestExclusive ==
    ASSUME FilesInv, NEW r \in Requests, RequestStep(r)
    PROVE  Exclusive'
<1>1. FilesTyped /\ Stages /\ Exclusive
  BY DEF FilesInv
<1>2. Moves(r)
  BY <1>1, RequestMoves
<1>3. Writes(r) /\ (rows' = rows \/ writer = r)
  BY <1>1, RequestWrites
<1>4. ns' = ns /\ vac' = vac /\ drop' = drop /\ store' = store
  BY <1>1, <1>2, RequestShared DEF Moves
<1>5. \A q \in Requests : q # r => req'[q] = req[q]
  BY <1>1, <1>2 DEF Moves, FilesTyped
<1>6. r # None /\ r # "vacuum" /\ \A q \in Requests : q # None
  BY FilesAssumption DEF None
<1>a. \A q \in Requests : InTx(req[q]) => writer = q
  BY <1>1 DEF Exclusive
<1>s. \A q \in Requests : InTx(req[q])' = InTx(req'[q])
  BY <1>4 DEF InTx
<1>7. \A q \in Requests : InTx(req'[q]) => writer' = q
  BY <1>3, <1>5, <1>6, <1>a DEF Writes
<1>b. writer # None => ns.on
  BY <1>1 DEF Exclusive
<1>8. writer' # None => ns'.on
  BY <1>3, <1>4, <1>b DEF Writes
<1>c. (vac.at # "idle" => writer = "vacuum" /\ Referenced \subseteq vac.refs) /\ (drop.at # "idle" => ~ns.on)
      /\ (~ns.on => Referenced = {})
  BY <1>1 DEF Exclusive
<1>9. (vac'.at # "idle" => writer' = "vacuum" /\ Referenced' \subseteq vac'.refs) /\ (~ns'.on => Referenced' = {})
  <2>1. writer = r => ns.on /\ vac.at = "idle"
    BY <1>6, <1>b, <1>c
  <2>2. vac.at # "idle" => writer' = writer
    BY <1>3, <1>6, <1>c DEF Writes, None
  <2>3. rows' = rows => Referenced' = Referenced
    BY DEF Referenced
  <2>4. QED
    BY <1>3, <1>4, <1>c, <2>1, <2>2, <2>3
<1>d. (vac.at # "idle" => vac.on \in RunsOn) /\ (drop.at # "idle" => drop.on \in RunsOn) /\ RunsOn' = RunsOn
  BY <1>1, <1>4 DEF Exclusive, RunsOn
<1>10. vac'.at = "sweep" => mem'[vac'.on].mu = "sweep"
  <2>1. \A srv \in Servers : mem'[srv].mu = mem[srv].mu
    BY <1>1, <1>2 DEF Moves, FilesTyped
  <2>2. RunsOn \subseteq Servers
    BY FilesAssumption DEF RunsOn
  <2>3. vac.at = "sweep" => vac.on \in Servers /\ mem[vac.on].mu = "sweep"
    BY <1>1, <1>d, <2>2 DEF Exclusive
  <2>4. QED
    BY <1>4, <2>1, <2>3
<1>11. QED
  BY <1>4, <1>c, <1>d, <1>s, <1>7, <1>8, <1>9, <1>10 DEF Exclusive

LEMMA RequestAged ==
    ASSUME FilesInv, NEW r \in Requests, RequestStep(r)
    PROVE  Aged'
<1>1. FilesTyped /\ Stages /\ Exclusive /\ Aged
  BY DEF FilesInv
<1>2. Moves(r) /\ Writes(r) /\ Ages(r) /\ ns' = ns
  BY <1>1, RequestMoves, RequestWrites, RequestAges DEF Stays
<1>3. \A q \in Requests : q # r => req'[q] = req[q]
  BY <1>1, <1>2 DEF Moves, FilesTyped
<1>4. \A q \in Requests : InTx(req[q])' = InTx(req'[q])
  BY <1>2 DEF InTx, Moves
<1>5. req[r].gen \in Nat /\ ns.gen \in Nat
  BY <1>1 DEF FilesTyped, File
<1>6. NoFile.gen = 0 /\ ~InTx(NoFile)
  BY DEF NoFile, InTx, AttachAt, PlaceAt
<1>7. req'[r].gen <= ns.gen /\ (~ns.on => req'[r].gen < ns.gen)
  BY <1>1, <1>2, <1>5, <1>6 DEF Ages, Aged
<1>8. InTx(req'[r]) => req'[r].gen = ns.gen
  <2>1. InTx(req[r]) => req[r].gen = ns.gen
    BY <1>1 DEF Aged, Live
  <2>2. InTx(req'[r]) => InTx(req[r]) \/ req[r].gen = ns.gen
    BY <1>2 DEF Writes, Live
  <2>3. QED
    BY <1>2, <1>6, <2>1, <2>2 DEF Ages
<1>9. QED
  BY <1>1, <1>2, <1>3, <1>4, <1>7, <1>8 DEF Aged, Live


-----------------------------------------------------------------------------
(***************************************************************************)
(* The local store after a step of a request.                               *)
(***************************************************************************)
LEMMA LocalLess ==
    ASSUME FilesTyped, LocalFits, ~store.shared, NEW r \in Requests, Moves(r), Less(r), Stays(r), rows' = rows,
           \A q \in Requests : Live(req[q]) /\ Needs(req'[q]) => req[q].sum \in blobs',
           \A q \in Requests : Locked(req'[q]) => req[q].sum \in placing'[Home],
           \A s \in Sums : mem'[Home].attaches[s] = 1 => mem[Home].attaches[s] = 1 /\ ~ClosedMaker(req[r], s)
    PROVE  LocalFits'
<1>1. \A q \in Requests : q # r => req'[q] = req[q]
  BY DEF Moves, FilesTyped
<1>2. Referenced' = Referenced
  BY DEF Referenced
<1>3. NeedsStored'
  BY <1>1 DEF NeedsStored, Less, Live, Stays
<1>4. LocksHeld'
  <2>1. \A q \in Requests : Locked(req'[q]) => Locked(req[q]) /\ req'[q].sum = req[q].sum
    BY <1>1 DEF Less
  <2>2. \A p, q \in Requests : Locked(req[p]) /\ Locked(req[q]) /\ req[p].sum = req[q].sum => p = q
    BY DEF LocalFits, LocksHeld
  <2>3. \A p, q \in Requests : Locked(req'[p]) /\ Locked(req'[q]) /\ req'[p].sum = req'[q].sum => p = q
    BY <2>1, <2>2
  <2>4. QED
    BY <2>1, <2>3 DEF LocksHeld
<1>c. \A q \in Requests : Complete(req'[q]) => Complete(req[q]) /\ req'[q].sum = req[q].sum /\ req'[q].created = req[q].created
                                                /\ req'[q].gen = req[q].gen
  BY <1>1 DEF Less, Needs, Stays
<1>5. NewAlone'
  <2>1. \A q \in Requests : New(req'[q]) => New(req[q]) /\ req'[q].sum = req[q].sum
    BY <1>1 DEF Less, New, Locked
  <2>2. QED
    BY <1>2, <1>c, <2>1 DEF LocalFits, NewAlone, Live, Stays
<1>6. MakerAlone'
  <2>1. ASSUME NEW s \in Sums, mem'[Home].attaches[s] = 1
        PROVE  /\ \A q \in Requests : req'[q].gen = ns'.gen /\ Complete(req'[q]) /\ req'[q].sum = s => req'[q].created
               /\ s \in Referenced' => \E o \in Requests : ClosedMaker(req'[o], s)
    <3>1. mem[Home].attaches[s] = 1 /\ ~ClosedMaker(req[r], s)
      BY <2>1
    <3>2. /\ \A q \in Requests : req[q].gen = ns.gen /\ Complete(req[q]) /\ req[q].sum = s => req[q].created
          /\ s \in Referenced => \E o \in Requests : ClosedMaker(req[o], s)
      BY <3>1 DEF LocalFits, MakerAlone, Live
    <3>3. QED
      BY <1>1, <1>2, <1>c, <3>1, <3>2 DEF Stays
  <2>2. QED
    BY <2>1 DEF MakerAlone, Live
<1>7. QED
  BY <1>3, <1>4, <1>5, <1>6 DEF LocalFits

\* r has its blob, which no other request is about to make.
LEMMA LocalCompletes ==
    ASSUME FilesTyped, LocalFits, ~store.shared, NEW r \in Requests, Moves(r), Stays(r), rows' = rows,
           Complete(req'[r]), req'[r].sum = req[r].sum, req[r].sum \in Sums, Counted(r), req[r].at # "closing",
           blobs \subseteq blobs', Live(req[r]) => req[r].sum \in blobs',
           \A q \in Requests : q # r /\ New(req[q]) => req[q].sum # req[r].sum,
           \A q \in Requests : q # r /\ Locked(req[q]) => req[q].sum \in placing'[Home],
           req'[r].created => /\ req[r].sum \notin Referenced
                              /\ \A q \in Requests : Live(req[q]) /\ Complete(req[q]) => req[q].sum # req[r].sum
    PROVE  LocalFits'
<1>1. \A q \in Requests : q # r => req'[q] = req[q]
  BY DEF Moves, FilesTyped
<1>2. Referenced' = Referenced
  BY DEF Referenced
<1>3. ~New(req'[r]) /\ ~Locked(req'[r]) /\ req'[r].gen = req[r].gen /\ ns' = ns
  BY DEF Complete, New, Locked, Needs, Stays
<1>4. NeedsStored'
  BY <1>1, <1>3 DEF NeedsStored, LocalFits, Live
<1>5. LocksHeld'
  BY <1>1, <1>3 DEF LocksHeld, LocalFits
<1>6. NewAlone'
  BY <1>1, <1>2, <1>3 DEF LocalFits, NewAlone, Live
<1>7. MakerAlone'
  <2>0. Srv(r) = Home
    BY DEF Srv
  <2>1. ASSUME NEW s \in Sums, mem'[Home].attaches[s] = 1
        PROVE  /\ \A q \in Requests : req'[q].gen = ns'.gen /\ Complete(req'[q]) /\ req'[q].sum = s => req'[q].created
               /\ s \in Referenced' => \E o \in Requests : ClosedMaker(req'[o], s)
    <3>1. CASE s = req[r].sum
      <4>1. req'[r].created
        BY <2>0, <2>1, <3>1 DEF Counted
      <4>2. QED
        BY <1>1, <1>2, <1>3, <3>1, <4>1 DEF Live
    <3>2. CASE s # req[r].sum
      <4>1. mem[Home].attaches[s] = 1
        BY <2>0, <2>1, <3>2 DEF Counted
      <4>2. /\ \A q \in Requests : req[q].gen = ns.gen /\ Complete(req[q]) /\ req[q].sum = s => req[q].created
            /\ s \in Referenced => \E o \in Requests : ClosedMaker(req[o], s)
        BY <4>1 DEF LocalFits, MakerAlone, Live
      <4>3. ~ClosedMaker(req[r], s)
        BY DEF ClosedMaker
      <4>4. QED
        BY <1>1, <1>2, <1>3, <3>2, <4>2, <4>3
    <3>3. QED
      BY <3>1, <3>2
  <2>2. QED
    BY <2>1 DEF MakerAlone, Live
<1>8. QED
  BY <1>4, <1>5, <1>6, <1>7 DEF LocalFits

LEMMA TwoElements ==
    ASSUME NEW S, IsFiniteSet(S), NEW a \in S, NEW b \in S, a # b
    PROVE  Cardinality(S) \in Nat /\ Cardinality(S) >= 2
<1>1. Cardinality(S) \in Nat
  BY FS_CardinalityType
<1>2. IsFiniteSet({a}) /\ Cardinality({a}) = 1
  BY FS_Singleton
<1>3. IsFiniteSet({a} \cup {b}) /\ Cardinality({a} \cup {b}) = Cardinality({a}) + 1
  BY <1>2, FS_AddElement
<1>4. {a} \cup {b} \subseteq S
  OBVIOUS
<1>5. Cardinality({a} \cup {b}) <= Cardinality(S)
  BY <1>3, <1>4, FS_Subset
<1>6. QED
  BY ONLY <1>1, <1>2, <1>3, <1>5

\* What a request needs or has made, it holds.
LEMMA NeedsHolds ==
    ASSUME FilesTyped, Stages, NEW q \in Requests,
           Needs(req[q]) \/ req[q].created
    PROVE  req[q].sum \in Sums /\ q \in Holding(Srv(q), req[q].sum)
<1>1. req[q] \in File /\ Stage(req[q])
  BY RequestTyped
<1>2. Needs(req[q]) => req[q].at \in {"begin", "tx", "put", "pinned", "count"}
  BY DEF Needs, Complete
<1>3. req[q].sum \in Sums
  BY <1>1, <1>2 DEF Stage, File
<1>4. req[q].pins = 1 \/ req[q].at \in {"place", "put", "put failed", "count", "stat", "pinned"}
  BY <1>1 DEF Stage, Needs, Complete
<1>5. QED
  BY <1>3, <1>4 DEF Holding

\* A discard that deletes a blob is that of the only request that holds it.
LEMMA DiscardAlone ==
    ASSUME FilesInv, NEW r \in Requests, req[r].at = "failed", req[r].created, MayDelete(mem[Srv(r)], req[r].sum)
    PROVE  /\ ~store.shared /\ req[r].sum \notin Referenced
           /\ \A q \in Requests : Needs(req[q]) => req[q].sum # req[r].sum
<1>1. FilesTyped /\ Stages /\ Pins /\ (~store.shared => LocalFits)
  BY DEF FilesInv
<1>2. /\ ~store.shared /\ mem[Srv(r)].attaches[req[r].sum] = 1 /\ mem[Srv(r)].pins[req[r].sum] <= 1
  BY DEF MayDelete
<1>3. \A q \in Requests : Srv(q) = Home
  BY <1>2 DEF Srv
<1>4. PICK s \in Sums : s = req[r].sum /\ r \in Holding(Home, s)
  BY <1>1, <1>3, NeedsHolds
<1>5. IsFiniteSet(Holding(Home, s)) /\ Cardinality(Holding(Home, s)) <= 1
  <2>1. mem[Home].pins[s] = Cardinality(Holding(Home, s))
    BY <1>1, FilesAssumption DEF Pins
  <2>2. QED
    BY <1>2, <1>3, <1>4, <2>1, HoldingFinite
<1>6. \A q \in Holding(Home, s) : q = r
  <2>1. ASSUME NEW q \in Holding(Home, s), q # r PROVE FALSE
    <3>1. Cardinality(Holding(Home, s)) \in Nat /\ Cardinality(Holding(Home, s)) >= 2
      BY ONLY <1>4, <1>5, <2>1, TwoElements
    <3>2. QED
      BY ONLY <1>5, <3>1
  <2>2. QED
    BY <2>1
<1>7. \A q \in Requests : Needs(req[q]) => req[q].sum # s
  <2>1. ASSUME NEW q \in Requests, Needs(req[q]), req[q].sum = s PROVE FALSE
    <3>1. q = r
      BY <1>1, <1>3, <1>6, <2>1, NeedsHolds
    <3>2. QED
      BY <2>1, <3>1 DEF Needs, Complete
  <2>2. QED
    BY <2>1
<1>8. s \notin Referenced
  <2>1. SUFFICES ASSUME s \in Referenced PROVE FALSE
    OBVIOUS
  <2>2. PICK o \in Requests : ClosedMaker(req[o], s)
    BY <1>1, <1>2, <1>3, <1>4, <2>1 DEF LocalFits, MakerAlone
  <2>3. o = r
    BY <1>1, <1>3, <1>6, <2>2, NeedsHolds DEF ClosedMaker
  <2>4. QED
    BY <2>2, <2>3 DEF ClosedMaker
<1>9. QED
  BY <1>2, <1>4, <1>7, <1>8

\* A quiet step keeps what the local store knows.
LEMMA LocalQuiet ==
    ASSUME FilesTyped, LocalFits, ~store.shared, NEW r \in Requests, Moves(r), Less(r), Stays(r),
           mem'[Srv(r)].attaches = mem[Srv(r)].attaches, req[r].at # "closing",
           rows' = rows, blobs \subseteq blobs', placing' = placing
    PROVE  LocalFits'
<1>1. \A q \in Requests : q # r => req'[q] = req[q]
  BY DEF Moves, FilesTyped
<1>2. \A q \in Requests : (Needs(req'[q]) => Needs(req[q])) /\ (Locked(req'[q]) => Locked(req[q]))
  BY <1>1 DEF Less
<1>3. \A q \in Requests : Live(req[q]) /\ Needs(req'[q]) => req[q].sum \in blobs'
  BY <1>2 DEF LocalFits, NeedsStored
<1>4. \A q \in Requests : Locked(req'[q]) => req[q].sum \in placing'[Home]
  BY <1>2 DEF LocalFits, LocksHeld
<1>5. \A s \in Sums : mem'[Home].attaches[s] = 1 => mem[Home].attaches[s] = 1 /\ ~ClosedMaker(req[r], s)
  BY DEF ClosedMaker, Srv
<1>6. QED
  BY <1>3, <1>4, <1>5, LocalLess

LEMMA PlaceStatLocal ==
    ASSUME FilesInv, ~store.shared, NEW r \in Requests, PlaceStat(r)
    PROVE  LocalFits'
<1>1. FilesTyped /\ Stages /\ LocalFits /\ Referenced \subseteq blobs
  BY DEF FilesInv
<1>g. Stays(r)
  BY <1>1, RequestAges DEF RequestStep, Attach
<1>2. /\ Moves(r) /\ req'[r].at = "put" /\ req'[r].sum = req[r].sum
      /\ req'[r].found = (req[r].sum \in blobs) /\ mem'[Srv(r)] = mem[Srv(r)]
  BY <1>1, PlaceStatMoves
<1>3. \A q \in Requests : q # r => req'[q] = req[q]
  BY <1>1, <1>2 DEF Moves, FilesTyped
<1>4. blobs' = blobs /\ Referenced' = Referenced /\ req[r].at = "place"
  BY DEF PlaceStat, Referenced
<1>5. req[r].sum \notin placing[Home] /\ placing' = [placing EXCEPT ![Home] = @ \cup {req[r].sum}]
  BY DEF PlaceStat, Srv
<1>6. placing'[Home] = placing[Home] \cup {req[r].sum}
  BY <1>1, <1>5, FilesAssumption DEF FilesTyped
<1>7. ~Complete(req'[r]) /\ ~Complete(req[r])
  BY <1>2, <1>4 DEF Complete
<1>8. (Needs(req'[r]) => req[r].sum \in blobs) /\ (New(req'[r]) => req[r].sum \notin blobs) /\ Locked(req'[r])
  BY <1>2 DEF Needs, Complete, New, Locked
<1>9. NeedsStored'
  BY <1>1, <1>2, <1>3, <1>4, <1>8, <1>g DEF LocalFits, NeedsStored, Live, Stays
<1>10. LocksHeld'
  BY <1>1, <1>2, <1>3, <1>5, <1>6 DEF LocalFits, LocksHeld
<1>11. \A q \in Requests : Live(req[q]) /\ Complete(req[q]) => req[q].sum \in blobs
  BY <1>1 DEF LocalFits, NeedsStored, Needs
<1>12. NewAlone'
  BY <1>1, <1>2, <1>3, <1>4, <1>7, <1>8, <1>11, <1>g DEF LocalFits, NewAlone, Live, Stays
<1>13. \A s \in Sums : mem'[Home].attaches[s] = mem[Home].attaches[s]
  BY <1>2 DEF Srv
<1>14. MakerAlone'
  BY <1>1, <1>3, <1>4, <1>7, <1>13, <1>g DEF LocalFits, MakerAlone, ClosedMaker, Live, Stays
<1>15. QED
  BY <1>9, <1>10, <1>12, <1>14 DEF LocalFits

LEMMA PlacePutLocal ==
    ASSUME FilesInv, ~store.shared, NEW r \in Requests, PlacePut(r)
    PROVE  LocalFits'
<1>1. FilesTyped /\ Stages /\ LocalFits
  BY DEF FilesInv
<1>g. Stays(r)
  BY <1>1, RequestAges DEF RequestStep, Attach
<1>2. /\ Moves(r) /\ req'[r].sum = req[r].sum /\ req'[r].found = req[r].found /\ mem'[Srv(r)] = mem[Srv(r)]
      /\ \/ req'[r].at = "count" /\ blobs' = blobs \cup (IF req[r].found THEN {} ELSE {req[r].sum})
         \/ req'[r].at = "put failed" /\ blobs' \in {blobs, blobs \cup (IF req[r].found THEN {} ELSE {req[r].sum})}
  BY <1>1, PlacePutMoves
<1>3. \A q \in Requests : q # r => req'[q] = req[q]
  BY <1>1, <1>2 DEF Moves, FilesTyped
<1>4. Referenced' = Referenced /\ req[r].at = "put" /\ placing' = placing /\ blobs \subseteq blobs'
  BY <1>2 DEF PlacePut, Referenced
<1>7. ~Complete(req'[r]) /\ ~Complete(req[r]) /\ Locked(req[r])
  BY <1>2, <1>4 DEF Complete, Locked
<1>8. (New(req'[r]) => New(req[r])) /\ Locked(req'[r])
  BY <1>2, <1>4 DEF New, Locked
<1>9. Live(req[r]) /\ Needs(req'[r]) => req[r].sum \in blobs'
  <2>1. CASE req'[r].at = "count" /\ ~req[r].found
    BY <1>2, <2>1
  <2>2. CASE req'[r].at = "count" /\ req[r].found
    <3>1. Needs(req[r])
      BY <1>4, <2>2 DEF Needs
    <3>2. QED
      BY <1>1, <1>4, <3>1 DEF LocalFits, NeedsStored
  <2>3. CASE req'[r].at = "put failed"
    BY <2>3 DEF Needs, Complete
  <2>4. QED
    BY <1>2, <2>1, <2>2, <2>3
<1>10. NeedsStored'
  BY <1>1, <1>2, <1>3, <1>4, <1>9, <1>g DEF LocalFits, NeedsStored, Live, Stays
<1>11. LocksHeld'
  BY <1>1, <1>2, <1>3, <1>4, <1>7 DEF LocalFits, LocksHeld
<1>12. NewAlone'
  BY <1>1, <1>2, <1>3, <1>4, <1>7, <1>8, <1>g DEF LocalFits, NewAlone, Live, Stays
<1>13. \A s \in Sums : mem'[Home].attaches[s] = mem[Home].attaches[s]
  BY <1>2 DEF Srv
<1>14. MakerAlone'
  BY <1>1, <1>3, <1>4, <1>7, <1>13, <1>g DEF LocalFits, MakerAlone, ClosedMaker, Live, Stays
<1>15. QED
  BY <1>10, <1>11, <1>12, <1>14 DEF LocalFits

LEMMA PlaceFailedLocal ==
    ASSUME FilesInv, ~store.shared, NEW r \in Requests, PlaceFailed(r)
    PROVE  LocalFits'
<1>1. FilesTyped /\ Stages /\ LocalFits
  BY DEF FilesInv
<1>g. Stays(r)
  BY <1>1, RequestAges DEF RequestStep, Attach
<1>2. Moves(r) /\ Quiet(r) /\ req'[r].at = "failed"
  BY <1>1, PlaceFailedMoves
<1>3. \A q \in Requests : q # r => req'[q] = req[q]
  BY <1>1, <1>2 DEF Moves, FilesTyped
<1>4. blobs' = blobs /\ rows' = rows /\ req[r].at = "put failed" /\ placing' = [placing EXCEPT ![Home] = @ \ {req[r].sum}]
  BY DEF PlaceFailed, Srv
<1>5. placing'[Home] = placing[Home] \ {req[r].sum}
  BY <1>1, <1>4, FilesAssumption DEF FilesTyped
<1>6. Locked(req[r]) /\ ~Locked(req'[r]) /\ ~Needs(req'[r])
  BY <1>2, <1>4 DEF Locked, Needs, Complete
<1>7. \A q \in Requests : Locked(req'[q]) => req[q].sum \in placing'[Home]
  BY <1>1, <1>3, <1>5, <1>6 DEF LocalFits, LocksHeld
<1>8. \A q \in Requests : Live(req[q]) /\ Needs(req'[q]) => req[q].sum \in blobs'
  BY <1>1, <1>3, <1>4, <1>6 DEF LocalFits, NeedsStored
<1>9. \A s \in Sums : mem'[Home].attaches[s] = 1 => mem[Home].attaches[s] = 1 /\ ~ClosedMaker(req[r], s)
  BY <1>2, <1>4 DEF ClosedMaker, Srv, Quiet
<1>10. Less(r)
  BY <1>2 DEF Quiet
<1>11. QED
  BY <1>1, <1>2, <1>4, <1>7, <1>8, <1>9, <1>10, <1>g, LocalLess

LEMMA PlaceCountLocal ==
    ASSUME FilesInv, ~store.shared, NEW r \in Requests, PlaceCount(r)
    PROVE  LocalFits'
<1>1. FilesTyped /\ Stages /\ LocalFits
  BY DEF FilesInv
<1>g. Stays(r)
  BY <1>1, RequestAges DEF RequestStep, Attach
<1>2. /\ Moves(r) /\ Complete(req'[r]) /\ req'[r].sum = req[r].sum /\ Counted(r)
      /\ req'[r].created => ~req[r].found
  BY <1>1, PlaceCountMoves
<1>3. blobs' = blobs /\ rows' = rows /\ req[r].at = "count" /\ placing' = [placing EXCEPT ![Home] = @ \ {req[r].sum}]
  BY DEF PlaceCount, Srv
<1>4. placing'[Home] = placing[Home] \ {req[r].sum}
  BY <1>1, <1>3, FilesAssumption DEF FilesTyped
<1>5. Locked(req[r]) /\ Needs(req[r]) /\ (~req[r].found => New(req[r]))
  BY <1>3 DEF Locked, Needs, New
<1>6. req[r].sum \in Sums /\ (Live(req[r]) => req[r].sum \in blobs')
  BY <1>1, <1>3, <1>5, NeedsHolds DEF LocalFits, NeedsStored
<1>7. \A q \in Requests : q # r /\ Locked(req[q]) => req[q].sum # req[r].sum /\ req[q].sum \in placing'[Home]
  BY <1>1, <1>4, <1>5 DEF LocalFits, LocksHeld
<1>8. \A q \in Requests : q # r /\ New(req[q]) => req[q].sum # req[r].sum
  BY <1>7 DEF New, Locked
<1>9. req'[r].created => /\ req[r].sum \notin Referenced
                         /\ \A q \in Requests : Live(req[q]) /\ Complete(req[q]) => req[q].sum # req[r].sum
  BY <1>1, <1>2, <1>5 DEF LocalFits, NewAlone
<1>10. QED
  BY <1>1, <1>2, <1>3, <1>6, <1>7, <1>8, <1>9, <1>g, LocalCompletes

\* With a cap no request places a blob without Store.mu.
LEMMA CappedNoPlace ==
    ASSUME FilesTyped, Stages, store.cap > 0, NEW q \in Requests
    PROVE  ~New(req[q]) /\ ~Locked(req[q])
<1>1. Stage(req[q]) /\ store.cap \in Nat
  BY RequestTyped DEF Store
<1>2. req[q].at \notin PlaceAt
  BY <1>1 DEF Stage
<1>3. QED
  BY <1>2 DEF New, Locked, PlaceAt

LEMMA CappedLocal ==
    ASSUME FilesInv, ~store.shared, NEW r \in Requests, placeCapped(r)
    PROVE  LocalFits'
<1>1. FilesTyped /\ Stages /\ LocalFits /\ Referenced \subseteq blobs
  BY DEF FilesInv
<1>g. Stays(r)
  BY <1>1, RequestAges DEF RequestStep, Attach
<1>2. Moves(r) /\ (CappedFails(r) \/ CappedFinds(r) \/ CappedStores(r) \/ CappedMisses(r))
  BY <1>1, CappedMoves
<1>3. rows' = rows /\ req[r].at = "attach" /\ placing' = placing /\ store.cap > 0
  BY DEF placeCapped
<1>4. req[r].sum \in Sums
  BY <1>1, <1>3, RequestTyped DEF Stage, File
<1>5. \A q \in Requests : ~New(req[q]) /\ ~Locked(req[q])
  BY <1>1, <1>3, CappedNoPlace
<1>6. CASE CappedFails(r) \/ CappedMisses(r)
  <2>1. Less(r)
    BY <1>6 DEF CappedFails, CappedMisses, Less, Needs, Complete, New, Locked
  <2>2. QED
    BY <1>1, <1>2, <1>3, <1>6, <1>g, <2>1, LocalQuiet DEF CappedFails, CappedMisses
<1>7. CASE CappedFinds(r)
  BY <1>1, <1>2, <1>3, <1>4, <1>5, <1>7, <1>g, LocalCompletes DEF CappedFinds
<1>8. CASE CappedStores(r)
  <2>1. \A q \in Requests : Live(req[q]) /\ Complete(req[q]) => req[q].sum \in blobs
    BY <1>1 DEF LocalFits, NeedsStored, Needs
  <2>2. req[r].sum \notin Referenced /\ \A q \in Requests : Live(req[q]) /\ Complete(req[q]) => req[q].sum # req[r].sum
    BY <1>1, <1>8, <2>1 DEF CappedStores
  <2>3. QED
    BY <1>1, <1>2, <1>3, <1>4, <1>5, <1>8, <1>g, <2>2, LocalCompletes DEF CappedStores
<1>9. QED
  BY <1>2, <1>6, <1>7, <1>8

LEMMA PinStatLocal ==
    ASSUME FilesInv, ~store.shared, NEW r \in Requests, PinStat(r)
    PROVE  LocalFits'
<1>1. FilesTyped /\ Stages /\ LocalFits
  BY DEF FilesInv
<1>g. Stays(r)
  BY <1>1, RequestAges DEF RequestStep, Attach
<1>2. /\ Moves(r) /\ req'[r].at = "pinned" /\ req'[r].sum = req[r].sum
      /\ req'[r].found = (req[r].sum \in blobs) /\ mem'[Srv(r)] = mem[Srv(r)]
  BY <1>1, PinStatMoves
<1>3. \A q \in Requests : q # r => req'[q] = req[q]
  BY <1>1, <1>2 DEF Moves, FilesTyped
<1>4. blobs' = blobs /\ Referenced' = Referenced /\ req[r].at = "stat" /\ placing' = placing
  BY DEF PinStat, Referenced
<1>5. (Needs(req'[r]) => req[r].sum \in blobs) /\ ~Complete(req'[r]) /\ ~New(req'[r]) /\ ~Locked(req'[r])
  BY <1>2 DEF Needs, Complete, New, Locked
<1>6. NeedsStored'
  BY <1>1, <1>2, <1>3, <1>4, <1>5, <1>g DEF LocalFits, NeedsStored, Live, Stays
<1>7. LocksHeld'
  BY <1>1, <1>3, <1>4, <1>5 DEF LocalFits, LocksHeld
<1>8. NewAlone'
  BY <1>1, <1>3, <1>4, <1>5, <1>g DEF LocalFits, NewAlone, Live, Stays
<1>9. \A s \in Sums : mem'[Home].attaches[s] = mem[Home].attaches[s]
  BY <1>2 DEF Srv
<1>10. MakerAlone'
  BY <1>1, <1>3, <1>4, <1>5, <1>9, <1>g DEF LocalFits, MakerAlone, ClosedMaker, Live, Stays
<1>11. QED
  BY <1>6, <1>7, <1>8, <1>10 DEF LocalFits

\* This is where copy_from from a local store without a cap is left out.
LEMMA PinCountLocal ==
    ASSUME Covered, FilesInv, ~store.shared, NEW r \in Requests, PinCount(r)
    PROVE  LocalFits'
<1>1. FilesTyped /\ Stages /\ LocalFits
  BY DEF FilesInv
<1>g. Stays(r)
  BY <1>1, RequestAges DEF RequestStep, Attach
<1>2. Moves(r) /\ \/ Quiet(r) /\ req'[r].at = "failed"
                  \/ /\ req[r].found /\ Complete(req'[r]) /\ req'[r].sum = req[r].sum /\ Counted(r)
                     /\ ~req'[r].created
  BY <1>1, PinCountMoves
<1>3. blobs' = blobs /\ rows' = rows /\ req[r].at = "pinned" /\ placing' = placing
  BY DEF PinCount
<1>4. CASE Quiet(r)
  BY <1>1, <1>2, <1>3, <1>4, <1>g, LocalQuiet DEF Quiet
<1>5. CASE req[r].found /\ Complete(req'[r]) /\ req'[r].sum = req[r].sum /\ Counted(r) /\ ~req'[r].created
  <2>1. store.copies
    BY <1>1, <1>3, RequestTyped DEF Stage, CopyAt
  <2>2. store.cap > 0
    BY <1>1, <2>1 DEF Covered, FilesTyped
  <2>3. \A q \in Requests : ~New(req[q]) /\ ~Locked(req[q])
    BY <1>1, <2>2, CappedNoPlace
  <2>4. Needs(req[r])
    BY <1>3, <1>5 DEF Needs
  <2>5. req[r].sum \in Sums /\ (Live(req[r]) => req[r].sum \in blobs')
    BY <1>1, <1>3, <2>4, NeedsHolds DEF LocalFits, NeedsStored
  <2>6. QED
    BY <1>1, <1>2, <1>3, <1>5, <1>g, <2>3, <2>5, LocalCompletes
<1>6. QED
  BY <1>2, <1>4, <1>5

LEMMA CommitLocal ==
    ASSUME FilesInv, ~store.shared, NEW r \in Requests, Commit(r)
    PROVE  LocalFits' /\ req[r].sum \in blobs
<1>1. FilesTyped /\ Stages /\ LocalFits /\ Aged
  BY DEF FilesInv
<1>g. Stays(r)
  BY <1>1, RequestAges DEF RequestStep, Attach
<1>2. Moves(r) /\ Quiet(r) /\ req'[r].created = req[r].created /\ req'[r].sum = req[r].sum
  BY <1>1, EndMoves
<1>3. req'[r].at = "closing"
  BY <1>1, GoAt DEF Commit
<1>4. \A q \in Requests : q # r => req'[q] = req[q]
  BY <1>1, <1>2 DEF Moves, FilesTyped
<1>5. blobs' = blobs /\ rows' = [rows EXCEPT ![r] = req[r].sum] /\ req[r].at = "tx" /\ placing' = placing
  BY DEF Commit
<1>6. Complete(req[r]) /\ ~Complete(req'[r]) /\ ~Needs(req'[r]) /\ ~New(req'[r]) /\ ~Locked(req'[r])
  BY <1>1, <1>3, <1>5, RequestTyped DEF Stage, Complete, Needs, New, Locked
<1>7. req[r].sum \in Sums /\ req[r].sum \in blobs
  BY <1>1, <1>5, <1>6, NeedsHolds DEF LocalFits, NeedsStored, Needs, Aged, InTx
<1>n. req[r].gen = ns.gen /\ ns' = ns
  BY <1>1, <1>5, <1>g DEF Aged, InTx, Live, Stays
<1>8. Referenced' \subseteq Referenced \cup {req[r].sum}
  BY <1>1, <1>5 DEF Referenced, FilesTyped
<1>9. NeedsStored'
  BY <1>1, <1>4, <1>5, <1>6, <1>g DEF LocalFits, NeedsStored, Live, Stays
<1>10. LocksHeld'
  BY <1>1, <1>4, <1>5, <1>6 DEF LocalFits, LocksHeld
<1>11. NewAlone'
  BY <1>1, <1>4, <1>6, <1>8, <1>g, <1>n DEF LocalFits, NewAlone, Live, Stays
<1>12. MakerAlone'
  <2>1. ASSUME NEW s \in Sums, mem'[Home].attaches[s] = 1
        PROVE  /\ \A q \in Requests : req'[q].gen = ns'.gen /\ Complete(req'[q]) /\ req'[q].sum = s => req'[q].created
               /\ s \in Referenced' => \E o \in Requests : ClosedMaker(req'[o], s)
    <3>1. mem[Home].attaches[s] = 1
      BY <1>2, <2>1 DEF Quiet, Srv
    <3>2. /\ \A q \in Requests : req[q].gen = ns.gen /\ Complete(req[q]) /\ req[q].sum = s => req[q].created
          /\ s \in Referenced => \E o \in Requests : ClosedMaker(req[o], s)
      BY <1>1, <3>1 DEF LocalFits, MakerAlone, Live
    <3>3. CASE s \in Referenced
      <4>1. ~ClosedMaker(req[r], s)
        BY <1>5 DEF ClosedMaker
      <4>2. QED
        BY <1>4, <1>6, <1>n, <3>2, <3>3, <4>1
    <3>4. CASE s = req[r].sum
      <4>1. ClosedMaker(req'[r], s)
        BY <1>2, <1>3, <1>6, <1>n, <3>2, <3>4 DEF ClosedMaker
      <4>2. QED
        BY <1>4, <1>6, <1>n, <3>2, <4>1
    <3>5. CASE s \notin Referenced /\ s # req[r].sum
      BY <1>4, <1>6, <1>8, <1>n, <3>2, <3>5
    <3>6. QED
      BY <3>3, <3>4, <3>5
  <2>2. QED
    BY <2>1 DEF MakerAlone, Live
<1>13. QED
  BY <1>7, <1>9, <1>10, <1>11, <1>12 DEF LocalFits

\* Discard and CloseRequest: the request is over.
LEMMA OverLocal ==
    ASSUME FilesInv, ~store.shared, NEW r \in Requests, Discard(r) \/ CloseRequest(r)
    PROVE  LocalFits'
<1>1. FilesTyped /\ Stages /\ LocalFits
  BY DEF FilesInv
<1>0. Srv(r) = Home
  BY DEF Srv
<1>g. Stays(r)
  BY <1>1, RequestAges DEF RequestStep, Attach
<1>2. Moves(r) /\ Uncounted(Home)
  BY <1>0, <1>1, DiscardMoves, CloseMoves
<1>3. req'[r].at \in {"closing", "idle"}
  BY <1>1, DiscardMoves, CloseMoves DEF NoFile
<1>4. ~Needs(req'[r]) /\ ~Complete(req'[r]) /\ ~New(req'[r]) /\ ~Locked(req'[r])
  BY <1>3 DEF Needs, Complete, New, Locked
<1>5. Less(r)
  BY <1>4 DEF Less
<1>6. \A q \in Requests : q # r => req'[q] = req[q]
  BY <1>1, <1>2 DEF Moves, FilesTyped
<1>7. rows' = rows /\ placing' = placing
  BY DEF Discard, CloseRequest
<1>8. \A q \in Requests : Locked(req'[q]) => req[q].sum \in placing'[Home]
  BY <1>1, <1>4, <1>6, <1>7 DEF LocalFits, LocksHeld
<1>9. \A q \in Requests : Live(req[q]) /\ Needs(req[q]) => req[q].sum \in blobs
  BY <1>1 DEF LocalFits, NeedsStored
<1>10. \A q \in Requests : Live(req[q]) /\ Needs(req'[q]) => req[q].sum \in blobs'
  <2>1. CASE blobs' = blobs
    BY <1>4, <1>6, <1>9, <2>1
  <2>2. CASE blobs' # blobs
    <3>1. Discard(r)
      BY <2>2 DEF CloseRequest
    <3>2. req[r].at = "failed" /\ req[r].created /\ MayDelete(mem[Srv(r)], req[r].sum) /\ blobs' = blobs \ {req[r].sum}
      BY <1>1, <2>2, <3>1, DiscardMoves DEF Discard
    <3>3. \A q \in Requests : Needs(req[q]) => req[q].sum # req[r].sum
      BY <3>2, DiscardAlone
    <3>4. QED
      BY <1>4, <1>6, <1>9, <3>2, <3>3
  <2>3. QED
    BY <2>1, <2>2
<1>11. \A s \in Sums : mem'[Home].attaches[s] = 1 => mem[Home].attaches[s] = 1 /\ ~ClosedMaker(req[r], s)
  <2>1. \A s \in Sums : mem'[Home].attaches[s] = 1 => mem[Home].attaches[s] = 1
    BY <1>2 DEF Uncounted
  <2>2. CASE Discard(r)
    BY <2>1, <2>2 DEF Discard, ClosedMaker
  <2>3. CASE CloseRequest(r)
    <3>1. req[r].created => mem'[Home].attaches[req[r].sum] = 0
      BY <1>0, <1>1, <2>3, CloseMoves
    <3>2. QED
      BY <2>1, <3>1 DEF ClosedMaker
  <2>4. QED
    BY <2>2, <2>3
<1>12. QED
  BY <1>1, <1>2, <1>5, <1>7, <1>8, <1>10, <1>11, <1>g, LocalLess

LEMMA RequestLocal ==
    ASSUME Covered, FilesInv, ~store.shared, NEW r \in Requests, RequestStep(r)
    PROVE  LocalFits'
<1>1. FilesTyped /\ Stages /\ LocalFits
  BY DEF FilesInv
<1>2. CASE Receive(r) \/ copyFile(r) \/ AttachPin(r) \/ PinFirst(r) \/ Begin(r) \/ Rollback(r) \/ TimedOut(r)
  <2>1. Moves(r) /\ Quiet(r)
    BY <1>1, <1>2, ReceiveMoves, CopyMoves, AttachPinMoves, PinFirstMoves, BeginMoves, EndMoves
  <2>g. Stays(r)
    BY <1>1, RequestAges
  <2>2. rows' = rows /\ blobs' = blobs /\ placing' = placing
    BY <1>2 DEF Receive, copyFile, AttachPin, PinFirst, Begin, Rollback, TimedOut
  <2>3. QED
    BY <1>1, <2>1, <2>2, <2>g, LocalQuiet DEF Quiet
<1>3. QED
  BY <1>2, PlaceStatLocal, PlacePutLocal, PlaceFailedLocal, PlaceCountLocal, CappedLocal, PinStatLocal, PinCountLocal,
     CommitLocal, OverLocal
  DEF RequestStep, Attach

\* What rows name stays stored, and a row comes to name only what is stored.
LEMMA RequestStored ==
    ASSUME FilesInv, NEW r \in Requests, RequestStep(r)
    PROVE  /\ Referenced' \subseteq blobs'
           /\ Commit(r) => req[r].sum \in Sums /\ req[r].sum \in blobs
           /\ blobs' # blobs => blobs \subseteq blobs' \/ (rows' = rows /\ blobs' \subseteq blobs)
<1>1. FilesTyped /\ Stages /\ Referenced \subseteq blobs
  BY DEF FilesInv
<1>2. CASE Commit(r)
  <2>1. req[r].sum \in blobs
    BY <1>2, CommitLocal DEF Commit, Confirm
  <2>2. blobs' = blobs /\ rows' = [rows EXCEPT ![r] = req[r].sum]
    BY <1>2 DEF Commit
  <2>3. Referenced' \subseteq Referenced \cup {req[r].sum}
    BY <1>1, <2>2 DEF Referenced, FilesTyped
  <2>4. QED
    BY <1>1, <2>1, <2>2, <2>3 DEF FilesTyped
<1>3. CASE ~Commit(r)
  <2>1. rows' = rows /\ Referenced' = Referenced
    BY <1>1, <1>3, RequestShared DEF Referenced
  <2>2. CASE blobs \subseteq blobs'
    BY <1>1, <1>3, <2>1, <2>2
  <2>3. CASE ~(blobs \subseteq blobs')
    <3>1. blobs' = blobs \ {req[r].sum}
      BY <1>1, <2>3, RequestShared
    <3>2. Discard(r)
      <4>1. CASE placeCapped(r)
        BY <1>1, <2>3, <4>1, CappedMoves DEF CappedFails, CappedFinds, CappedStores, CappedMisses
      <4>2. CASE PlacePut(r)
        BY <2>3, <4>2 DEF PlacePut
      <4>3. QED
        BY <1>3, <2>3, <4>1, <4>2 DEF RequestStep, Attach, Receive, copyFile, AttachPin, PlaceStat, PlaceFailed, PlaceCount,
           PinFirst, PinStat, PinCount, Begin, Rollback, TimedOut, CloseRequest
    <3>3. req[r].at = "failed" /\ req[r].created /\ MayDelete(mem[Srv(r)], req[r].sum)
      BY <1>1, <2>3, <3>2, DiscardMoves DEF Discard
    <3>4. req[r].sum \notin Referenced
      BY <3>3, DiscardAlone
    <3>5. QED
      BY <1>1, <1>3, <2>1, <3>1, <3>4
  <2>4. QED
    BY <2>2, <2>3
<1>4. QED
  BY <1>2, <1>3

-----------------------------------------------------------------------------
(***************************************************************************)
(* The total of a capped local store after a step of a request.             *)
(***************************************************************************)
\* Nothing of what Total is about changes.
LEMMA TotalSame ==
    ASSUME FilesTyped, Total, NEW r \in Requests, Moves(r), mem'[Srv(r)].total = mem[Srv(r)].total,
           blobs' = blobs, vac' = vac, drop' = drop
    PROVE  Total'
<1>1. \A srv \in Servers : mem'[srv].total = mem[srv].total /\ mem'[srv].drops = mem[srv].drops
  BY DEF Moves, FilesTyped
<1>2. QED
  BY <1>1, FilesAssumption DEF Total

\* While the sweep holds Store.mu no request changes the store.
LEMMA NoSweep ==
    ASSUME FilesTyped, Exclusive, ~store.shared, NEW r \in Requests, Unlocked(Srv(r))
    PROVE  vac.at # "sweep"
<1>1. vac.at = "sweep" => mem[vac.on].mu = "sweep" /\ vac.on \in RunsOn
  BY DEF Exclusive
<1>2. Srv(r) = Home /\ RunsOn = {Home}
  BY DEF Srv, RunsOn
<1>3. QED
  BY <1>1, <1>2 DEF Unlocked, None

\* One blob fewer, and one byte less in the total.
LEMMA TotalDown ==
    ASSUME NEW t \in Totals, NEW n \in Nat, t.known => Fits(t, n)
    PROVE  /\ Plus(t, -1) \in Totals /\ Plus(t, -1).known = t.known
           /\ t.known => Fits(Plus(t, -1), n - 1)
<1>1. /\ Plus(t, -1) \in Totals /\ Plus(t, -1).known = t.known /\ Plus(t, -1).missed = t.missed
      /\ t.known => Plus(t, -1).bytes = t.bytes - 1
  <2>1. PICK k \in Int : k = -1
    OBVIOUS
  <2>2. t.bytes \in Int /\ t.bytes + k = t.bytes - 1
    BY <2>1 DEF Totals
  <2>3. QED
    BY <2>1, <2>2, PlusEffect
<1>2. QED
  BY <1>1 DEF Fits, Totals

LEMMA RequestTotal ==
    ASSUME FilesInv, ~store.shared, store.cap > 0, NEW r \in Requests, RequestStep(r)
    PROVE  Total'
<1>1. FilesTyped /\ Stages /\ Exclusive /\ Total
  BY DEF FilesInv
<1>2. Moves(r) /\ vac' = vac /\ drop' = drop
  BY <1>1, RequestMoves, RequestShared
<1>3. Srv(r) = Home /\ Home \in Servers
  BY FilesAssumption DEF Srv
<1>4. \A srv \in Servers : srv # Home => mem'[srv] = mem[srv]
  BY <1>1, <1>2, <1>3 DEF Moves, FilesTyped
<1>5. Cardinality(blobs) \in Nat /\ IsFiniteSet(blobs) /\ mem[Home] \in Memory
  BY <1>1, <1>3, FS_CardinalityType DEF FilesTyped
<1>d. mem'[Home].drops = mem[Home].drops
  BY <1>2, <1>3 DEF Moves
<1>6. CASE placeCapped(r)
  <2>1. CappedFails(r) \/ CappedFinds(r) \/ CappedStores(r) \/ CappedMisses(r)
    BY <1>1, <1>6, CappedMoves
  <2>2. vac.at # "sweep"
    BY <1>1, <1>6, NoSweep DEF placeCapped
  <2>3. CASE blobs' = blobs /\ mem'[Home].total = mem[Home].total
    BY <1>1, <1>2, <1>3, <2>3, TotalSame
  <2>4. ASSUME ~dropping(r), NEW t \in Totals, t.known, mem'[Home].total = t, Fits(t, Cardinality(blobs')) PROVE Total'
    <3>1. drop.at \notin {"blobs", "end"}
      BY <1>1, <1>3, <2>4 DEF Total, dropping, Mem
    <3>2. \A srv \in Servers : mem'[srv].total.known => srv = Home /\ Fits(mem'[srv].total, Cardinality(blobs'))
      BY <1>1, <1>4, <2>4 DEF Total
    <3>3. QED
      BY <1>1, <1>2, <1>d, <2>2, <3>1, <3>2 DEF Total
  <2> DEFINE t == namespaceTotal(mem[Home])
  <2>5. t \in Totals /\ t.known /\ Plus(t, 1) \in Totals /\ Missed(t) \in Totals
    BY <1>1, <1>5, TotalTyped
  <2>6. t.bytes + t.missed = Cardinality(blobs) /\ t.bytes \in Int /\ t.missed \in Nat
    <3>1. mem[Home].total.known => Fits(mem[Home].total, Cardinality(blobs))
      BY <1>1, <1>3 DEF Total
    <3>2. Noted(Cardinality(blobs)).bytes + Noted(Cardinality(blobs)).missed = Cardinality(blobs)
      BY <1>5 DEF Noted
    <3>3. QED
      BY <2>5, <3>1, <3>2 DEF namespaceTotal, Fits, Totals
  <2> HIDE DEF t
  <2>7. CASE blobs' = blobs /\ ~dropping(r) /\ mem'[Home].total = t
    BY <2>4, <2>5, <2>6, <2>7 DEF Fits
  <2>8. CASE CappedStores(r) \/ CappedMisses(r)
    <3>1. Cardinality(blobs') = Cardinality(blobs) + 1
      BY <1>5, <2>8, FS_AddElement DEF CappedStores, CappedMisses
    <3>2. CASE CappedStores(r)
      <4>1. mem'[Home].total = Plus(t, 1) /\ ~dropping(r)
        BY <1>3, <3>2 DEF CappedStores, t
      <4>2. Plus(t, 1).known /\ Plus(t, 1).bytes = t.bytes + 1 /\ Plus(t, 1).missed = t.missed
        BY <2>5, PlusEffect
      <4>3. Fits(Plus(t, 1), Cardinality(blobs'))
        BY <1>5, <2>6, <3>1, <4>2 DEF Fits
      <4>4. QED
        BY <2>4, <2>5, <4>1, <4>2, <4>3
    <3>3. CASE CappedMisses(r)
      <4>1. mem'[Home].total = Missed(t) /\ ~dropping(r)
        BY <1>3, <3>3 DEF CappedMisses, t
      <4>2. Missed(t).known /\ Missed(t).bytes = t.bytes /\ Missed(t).missed = t.missed + 1
        BY <2>5, MissedEffect
      <4>3. Fits(Missed(t), Cardinality(blobs'))
        BY <1>5, <2>6, <3>1, <4>2 DEF Fits
      <4>4. QED
        BY <2>4, <2>5, <4>1, <4>2, <4>3
    <3>4. QED
      BY <2>8, <3>2, <3>3
  <2>9. CASE CappedFails(r) \/ CappedFinds(r)
    BY <1>3, <2>3, <2>7, <2>9 DEF CappedFails, CappedFinds, t
  <2>10. QED
    BY <2>1, <2>8, <2>9
<1>7. CASE Discard(r)
  <2>1. \/ blobs' = blobs /\ mem'[Home].total = mem[Home].total
        \/ /\ blobs' = blobs \ {req[r].sum}
           /\ mem'[Home].total = (IF req[r].sum \in blobs THEN Plus(mem[Home].total, -1) ELSE mem[Home].total)
    BY <1>1, <1>3, <1>7, DiscardMoves
  <2>2. CASE blobs' = blobs /\ mem'[Home].total = mem[Home].total
    BY <1>1, <1>2, <1>3, <2>2, TotalSame
  <2>3. CASE req[r].sum \notin blobs /\ blobs' = blobs \ {req[r].sum} /\ mem'[Home].total = mem[Home].total
    <3>1. blobs' = blobs
      BY <2>3
    <3>2. QED
      BY <2>2, <2>3, <3>1
  <2>4. CASE req[r].sum \in blobs /\ blobs' = blobs \ {req[r].sum} /\ mem'[Home].total = Plus(mem[Home].total, -1)
    <3>1. vac.at # "sweep"
      BY <1>1, <1>7, NoSweep DEF Discard
    <3>2. Cardinality(blobs') = Cardinality(blobs) - 1
      BY <1>5, <2>4, FS_RemoveElement
    <3>3. /\ mem'[Home].total.known = mem[Home].total.known
          /\ mem[Home].total.known => Fits(mem'[Home].total, Cardinality(blobs'))
      <4>1. mem[Home].total \in Totals /\ (mem[Home].total.known => Fits(mem[Home].total, Cardinality(blobs)))
        BY <1>1, <1>3, <1>5 DEF Total, Memory
      <4>2. QED
        BY <1>5, <2>4, <3>2, <4>1, TotalDown
    <3>4. \A srv \in Servers : mem'[srv].total.known => srv = Home /\ Fits(mem'[srv].total, Cardinality(blobs'))
      BY <1>1, <1>4, <3>3 DEF Total
    <3>5. QED
      BY <1>1, <1>2, <1>d, <3>1, <3>3, <3>4 DEF Total
  <2>5. QED
    BY <2>1, <2>2, <2>3, <2>4
<1>8. CASE ~placeCapped(r) /\ ~Discard(r)
  <2>1. req[r].at \notin PlaceAt
    <3>1. Stage(req[r]) /\ store.cap \in Nat
      BY <1>1, RequestTyped DEF Store
    <3>2. QED
      BY <3>1 DEF Stage
  <2>2. ~PlaceStat(r) /\ ~PlacePut(r) /\ ~PlaceFailed(r) /\ ~PlaceCount(r)
    BY <2>1 DEF PlaceStat, PlacePut, PlaceFailed, PlaceCount, PlaceAt
  <2>3. blobs' = blobs
    BY <1>8, <2>2 DEF RequestStep, Attach, Receive, copyFile, AttachPin, PinFirst, PinStat, PinCount, Begin, Commit,
       Rollback, TimedOut, CloseRequest
  <2>4. CASE CloseRequest(r) \/ PinStat(r) \/ PinCount(r)
    <3>1. mem'[Srv(r)].total = mem[Srv(r)].total
      BY <1>1, <2>4, CloseMoves, PinStatMoves, PinCountMoves
    <3>2. QED
      BY <1>1, <1>2, <2>3, <3>1, TotalSame
  <2>5. CASE ~(CloseRequest(r) \/ PinStat(r) \/ PinCount(r))
    <3>1. Receive(r) \/ copyFile(r) \/ AttachPin(r) \/ PinFirst(r) \/ Begin(r) \/ Commit(r) \/ Rollback(r) \/ TimedOut(r)
      BY <1>8, <2>2, <2>5 DEF RequestStep, Attach
    <3>2. Quiet(r)
      BY <1>1, <3>1, ReceiveMoves, CopyMoves, AttachPinMoves, PinFirstMoves, BeginMoves, EndMoves
    <3>3. mem'[Srv(r)].total = mem[Srv(r)].total
      BY <3>2 DEF Quiet
    <3>4. QED
      BY <1>1, <1>2, <2>3, <3>3, TotalSame
  <2>6. QED
    BY <2>4, <2>5
<1>9. QED
  BY <1>6, <1>7, <1>8

LEMMA RequestKeeps ==
    ASSUME Covered, FilesInv, NEW r \in Requests, RequestStep(r)
    PROVE  FilesInv'
<1>1. FilesTyped' /\ Stages' /\ Pins' /\ Reserved' /\ Exclusive' /\ Aged' /\ (Referenced \subseteq blobs)'
  BY RequestKeepsBooks, RequestExclusive, RequestAged, RequestStored
<1>2. store' = store
  BY RequestMoves DEF FilesInv, Moves
<1>3. QED
  BY <1>1, <1>2, RequestLocal, RequestTotal DEF FilesInv

-----------------------------------------------------------------------------
(***************************************************************************)
(* The steps that are not a request's: rows, sweep, drop and restart.       *)
(***************************************************************************)
\* Requests stay as they are, and so do pins and reserved bytes.
Apart ==
    /\ store' = store /\ req' = req /\ placing' = placing
    /\ mem' \in [Servers -> Memory]
    /\ \A srv \in Servers : mem'[srv].pins = mem[srv].pins /\ mem'[srv].pending = mem[srv].pending

LEMMA ApartBooks ==
    ASSUME FilesInv, Apart
    PROVE  Stages' /\ Pins' /\ Reserved'
<1>1. Stages'
  BY DEF FilesInv, Stages, Stage, Apart
<1>2. \A srv \in Servers, s \in Sums : Holding(srv, s)' = Holding(srv, s)
  BY DEF Apart, Holding, Srv
<1>3. \A srv \in Servers : Reserving(srv)' = Reserving(srv)
  BY DEF Apart, Reserving, Srv
<1>4. Pins'
  BY <1>2 DEF FilesInv, Apart, Pins
<1>5. Reserved'
  BY <1>3 DEF FilesInv, Apart, Reserved
<1>6. QED
  BY <1>1, <1>4, <1>5

\* No request is made current again.
Older == \A q \in Requests : req[q].gen = ns'.gen => req[q].gen = ns.gen

LEMMA SameAge ==
    ASSUME Aged, store' = store, req' = req, ns' = ns
    PROVE  Aged' /\ Older
  BY DEF Aged, Older, Live, InTx

LEMMA ApartLocal ==
    ASSUME LocalFits, Apart, Older, Referenced' \subseteq Referenced,
           \A q \in Requests : Live(req[q]) /\ Needs(req[q]) => req[q].sum \in blobs',
           \A s \in Sums : mem'[Home].attaches[s] = 1 => mem[Home].attaches[s] = 1
    PROVE  LocalFits'
<1>1. NeedsStored'
  BY DEF NeedsStored, Apart, Live, Older
<1>2. LocksHeld'
  BY DEF LocalFits, LocksHeld, Apart
<1>3. NewAlone'
  BY DEF LocalFits, NewAlone, Apart, Live, Older
<1>4. MakerAlone'
  BY DEF LocalFits, MakerAlone, Apart, Live, Older
<1>5. QED
  BY <1>1, <1>2, <1>3, <1>4 DEF LocalFits

LEMMA ApartKeeps ==
    ASSUME FilesInv, Apart, FilesTyped', Exclusive', Aged', Older, Referenced' \subseteq Referenced,
           (Referenced \subseteq blobs)',
           ~store.shared => \A q \in Requests : Live(req[q]) /\ Needs(req[q]) => req[q].sum \in blobs',
           ~store.shared => \A s \in Sums : mem'[Home].attaches[s] = 1 => mem[Home].attaches[s] = 1,
           ~store.shared /\ store.cap > 0 => Total'
    PROVE  FilesInv'
<1>1. Stages' /\ Pins' /\ Reserved'
  BY ApartBooks
<1>2. store' = store
  BY DEF Apart
<1>3. ~store.shared => LocalFits'
  BY ApartLocal DEF FilesInv
<1>4. QED
  BY <1>1, <1>2, <1>3 DEF FilesInv

\* What the rest of this section needs to know of the state before the step.
LEMMA InvParts ==
    ASSUME FilesInv
    PROVE  /\ FilesTyped /\ Stages /\ Exclusive /\ Aged /\ Referenced \subseteq blobs /\ Pins
           /\ ~store.shared => LocalFits
           /\ ~store.shared => \A q \in Requests : Live(req[q]) /\ Needs(req[q]) => req[q].sum \in blobs
           /\ ~store.shared /\ store.cap > 0 => Total
           /\ RunsOn \subseteq Servers /\ (~store.shared => RunsOn = {Home}) /\ Home \in Servers
           /\ \A q \in Requests : q # None /\ q # "vacuum"
  BY FilesAssumption DEF FilesInv, LocalFits, NeedsStored, RunsOn, None

LEMMA OneServer ==
    ASSUME FilesTyped, NEW srv \in Servers, NEW n \in Memory, mem' = [mem EXCEPT ![srv] = n]
    PROVE  mem' \in [Servers -> Memory] /\ mem'[srv] = n /\ \A o \in Servers : o # srv => mem'[o] = mem[o]
  BY DEF FilesTyped

LEMMA ClearRowKeeps ==
    ASSUME FilesInv, NEW r \in Requests, ClearRow(r)
    PROVE  FilesInv'
<1>1. /\ FilesTyped /\ Exclusive /\ Aged /\ Referenced \subseteq blobs
      /\ ~store.shared => \A q \in Requests : Live(req[q]) /\ Needs(req[q]) => req[q].sum \in blobs
      /\ ~store.shared /\ store.cap > 0 => Total
  BY InvParts
<1>2. /\ rows' = [rows EXCEPT ![r] = NoSum]
      /\ UNCHANGED <<store, blobs, writer, ns, req, mem, placing, vac, drop>>
  BY DEF ClearRow
<1>3. FilesTyped'
  BY <1>1, <1>2 DEF FilesTyped
<1>4. Referenced' \subseteq Referenced
  BY <1>1, <1>2 DEF Referenced, FilesTyped
<1>5. Exclusive'
  BY <1>1, <1>2, <1>4 DEF Exclusive, InTx, RunsOn
<1>6. Apart
  BY <1>1, <1>2 DEF Apart, FilesTyped
<1>7. Total => Total'
  BY <1>2 DEF Total
<1>age. Aged' /\ Older
  BY <1>1, <1>2, SameAge
<1>8. QED
  BY <1>1, <1>2, <1>3, <1>4, <1>5, <1>6, <1>7, <1>age, ApartKeeps

LEMMA ReferencesKeeps ==
    ASSUME FilesInv, NEW srv \in RunsOn, fileReferences(srv)
    PROVE  FilesInv'
<1>1. /\ FilesTyped /\ Exclusive /\ Aged /\ Referenced \subseteq blobs
      /\ ~store.shared => \A q \in Requests : Live(req[q]) /\ Needs(req[q]) => req[q].sum \in blobs
      /\ ~store.shared /\ store.cap > 0 => Total
      /\ srv \in Servers /\ \A q \in Requests : q # None
  BY InvParts
<1>2. /\ writer = None /\ ns.on /\ writer' = "vacuum"
      /\ UNCHANGED <<store, blobs, rows, ns, req, mem, placing, drop>>
      /\ vac' = [NoVacuum EXCEPT !.at = "refs", !.on = srv, !.refs = Referenced]
  BY DEF fileReferences
<1>3. Referenced \subseteq Sums /\ Referenced' = Referenced
  BY <1>1, <1>2 DEF Referenced, FilesTyped
<1>4. /\ vac' \in [at : {"idle", "refs", "sweep"}, on : Servers \cup {None}, refs : SUBSET Sums, listed : SUBSET Sums, kept : Int]
      /\ vac'.at = "refs" /\ vac'.on = srv /\ vac'.refs = Referenced /\ vac'.kept = 0
  <2>1. vac' = [at |-> "refs", on |-> srv, refs |-> Referenced, listed |-> {}, kept |-> 0]
    BY <1>2 DEF NoVacuum
  <2>2. QED
    BY <1>1, <1>3, <2>1
<1>5. FilesTyped'
  BY <1>1, <1>2, <1>4 DEF FilesTyped
<1>6. \A q \in Requests : ~InTx(req[q])
  BY <1>1, <1>2 DEF Exclusive
<1>7. Exclusive'
  BY <1>1, <1>2, <1>3, <1>4, <1>6 DEF Exclusive, InTx, RunsOn
<1>8. Apart
  BY <1>1, <1>2 DEF Apart, FilesTyped
<1>9. Total => Total'
  BY <1>2, <1>4 DEF Total
<1>age. Aged' /\ Older
  BY <1>1, <1>2, SameAge
<1>10. QED
  BY <1>1, <1>2, <1>3, <1>5, <1>7, <1>8, <1>9, <1>age, ApartKeeps

LEMMA SweepListKeeps ==
    ASSUME FilesInv, SweepList
    PROVE  FilesInv'
<1>1. /\ FilesTyped /\ Exclusive /\ Aged /\ Referenced \subseteq blobs /\ RunsOn \subseteq Servers
      /\ ~store.shared => \A q \in Requests : Live(req[q]) /\ Needs(req[q]) => req[q].sum \in blobs
      /\ ~store.shared /\ store.cap > 0 => Total
  BY InvParts
<1>2. /\ vac.at = "refs" /\ mem' = [mem EXCEPT ![vac.on].mu = "sweep"]
      /\ vac' = [vac EXCEPT !.at = "sweep", !.listed = blobs]
      /\ UNCHANGED <<store, blobs, rows, writer, ns, req, placing, drop>>
  BY DEF SweepList
<1>3. vac.on \in RunsOn /\ vac.on \in Servers
  BY <1>1, <1>2 DEF Exclusive
<1>4. /\ vac' \in [at : {"idle", "refs", "sweep"}, on : Servers \cup {None}, refs : SUBSET Sums, listed : SUBSET Sums, kept : Int]
      /\ vac'.at = "sweep" /\ vac'.on = vac.on /\ vac'.refs = vac.refs /\ vac'.listed = blobs /\ vac'.kept = vac.kept
  BY <1>1, <1>2 DEF FilesTyped
<1>5. /\ mem' \in [Servers -> Memory] /\ mem'[vac.on].mu = "sweep"
      /\ \A s \in Servers : mem'[s].pins = mem[s].pins /\ mem'[s].pending = mem[s].pending
                            /\ mem'[s].attaches = mem[s].attaches /\ mem'[s].total = mem[s].total
                            /\ mem'[s].drops = mem[s].drops
  <2>1. PICK m \in Memory : m = mem[vac.on]
    BY <1>1, <1>3 DEF FilesTyped
  <2> DEFINE n == [m EXCEPT !.mu = "sweep"]
  <2>2. n \in Memory /\ n.mu = "sweep" /\ n.pins = m.pins /\ n.pending = m.pending /\ n.attaches = m.attaches /\ n.total = m.total /\ n.drops = m.drops
    BY DEF Memory
  <2>3. mem' = [mem EXCEPT ![vac.on] = n]
    BY <1>2, <2>1
  <2> HIDE DEF n
  <2>4. QED
    BY <1>1, <1>3, <2>1, <2>2, <2>3, OneServer
<1>6. Referenced' = Referenced
  BY <1>2 DEF Referenced
<1>7. FilesTyped'
  BY <1>1, <1>2, <1>4, <1>5 DEF FilesTyped
<1>8. Exclusive'
  BY <1>1, <1>2, <1>3, <1>4, <1>5, <1>6 DEF Exclusive, InTx, RunsOn
<1>9. Apart
  BY <1>1, <1>2, <1>5 DEF Apart
<1>10. Total => Total'
  <2>1. blobs \ blobs = {} /\ Cardinality({}) = 0
    BY FS_EmptySet
  <2>2. QED
    BY <1>2, <1>4, <1>5, <2>1, FilesAssumption DEF Total
<1>age. Aged' /\ Older
  BY <1>1, <1>2, SameAge
<1>11. QED
  BY <1>1, <1>2, <1>5, <1>6, <1>7, <1>8, <1>9, <1>10, <1>age, ApartKeeps, FilesAssumption

\* A blob that the sweep takes is named by no row and needed by no request of the sweeping server.
LEMMA SweptUnused ==
    ASSUME FilesInv, vac.at = "sweep", NEW s \in Sums, ~Kept(s)
    PROVE  s \notin Referenced /\ (~store.shared => \A q \in Requests : Needs(req[q]) => req[q].sum # s)
<1>1. /\ FilesTyped /\ Stages /\ Exclusive /\ Pins /\ RunsOn \subseteq Servers /\ (~store.shared => RunsOn = {Home})
  BY InvParts
<1>2. vac.on \in RunsOn /\ vac.on \in Servers /\ Referenced \subseteq vac.refs
  BY <1>1 DEF Exclusive
<1>3. s \notin vac.refs /\ ~(mem[vac.on].pins[s] > 0)
  BY DEF Kept
<1>4. ASSUME ~store.shared, NEW q \in Requests, Needs(req[q]), req[q].sum = s PROVE FALSE
  <2>1. vac.on = Home /\ Srv(q) = Home
    BY <1>1, <1>2, <1>4 DEF Srv
  <2>2. q \in Holding(Home, s) /\ IsFiniteSet(Holding(Home, s))
    BY <1>1, <1>4, <2>1, NeedsHolds, HoldingFinite
  <2>3. Cardinality(Holding(Home, s)) \in Nat /\ Cardinality(Holding(Home, s)) # 0
    BY <2>2, FS_EmptySet, FS_CardinalityType
  <2>4. mem[Home].pins[s] = Cardinality(Holding(Home, s))
    BY <1>1, <1>2, <2>1 DEF Pins
  <2>5. QED
    BY ONLY <1>3, <2>1, <2>3, <2>4
<1>5. QED
  BY <1>2, <1>3, <1>4

LEMMA SweepKeeps ==
    ASSUME FilesInv, NEW s \in Sums, Sweep(s)
    PROVE  FilesInv'
<1>1. /\ FilesTyped /\ Exclusive /\ Aged /\ Referenced \subseteq blobs /\ RunsOn \subseteq Servers
      /\ ~store.shared => \A q \in Requests : Live(req[q]) /\ Needs(req[q]) => req[q].sum \in blobs
      /\ ~store.shared /\ store.cap > 0 => Total
      /\ ~store.shared => RunsOn = {Home}
  BY InvParts
<1>2. /\ vac.at = "sweep" /\ s \in vac.listed
      /\ vac' = [vac EXCEPT !.listed = @ \ {s}, !.kept = @ + (IF Kept(s) THEN 1 ELSE 0)]
      /\ blobs' = IF Kept(s) THEN blobs ELSE blobs \ {s}
      /\ mem' = [mem EXCEPT ![vac.on].total = IF Kept(s) THEN @ ELSE Plus(@, -1)]
      /\ UNCHANGED <<store, rows, writer, ns, req, placing, drop>>
  BY DEF Sweep
<1>3. vac.on \in RunsOn /\ vac.on \in Servers
  BY <1>1, <1>2 DEF Exclusive
<1>4. PICK m \in Memory : m = mem[vac.on]
  BY <1>1, <1>3 DEF FilesTyped
<1> DEFINE t == IF Kept(s) THEN m.total ELSE Plus(m.total, -1)
           k == vac.kept + (IF Kept(s) THEN 1 ELSE 0)
           n == [m EXCEPT !.total = t]
<1>5. t \in Totals
  <2>1. m.total \in Totals /\ -1 \in Int
    BY DEF Memory
  <2>2. QED
    BY <2>1, PlusEffect
<1>6. vac.kept \in Int /\ k \in Int
  <2>1. vac.kept \in Int
    BY <1>1 DEF FilesTyped
  <2>2. QED
    BY ONLY <2>1
<1>7. mem' = [mem EXCEPT ![vac.on] = n] /\ vac' = [vac EXCEPT !.listed = @ \ {s}, !.kept = k]
  BY <1>2, <1>4
<1> HIDE DEF k, t
<1>8. n \in Memory /\ n.mu = m.mu /\ n.pins = m.pins /\ n.pending = m.pending /\ n.attaches = m.attaches /\ n.total = t /\ n.drops = m.drops
  BY <1>5 DEF Memory
<1> HIDE DEF n
<1>9. /\ vac' \in [at : {"idle", "refs", "sweep"}, on : Servers \cup {None}, refs : SUBSET Sums, listed : SUBSET Sums, kept : Int]
      /\ vac'.at = "sweep" /\ vac'.on = vac.on /\ vac'.refs = vac.refs /\ vac'.listed = vac.listed \ {s} /\ vac'.kept = k
  BY <1>1, <1>2, <1>6, <1>7 DEF FilesTyped
<1>10. mem' \in [Servers -> Memory] /\ mem'[vac.on] = n /\ \A o \in Servers : o # vac.on => mem'[o] = mem[o]
  BY <1>1, <1>3, <1>7, <1>8, OneServer
<1>11. \A o \in Servers : mem'[o].pins = mem[o].pins /\ mem'[o].pending = mem[o].pending
                          /\ mem'[o].attaches = mem[o].attaches /\ mem'[o].mu = mem[o].mu
                          /\ mem'[o].drops = mem[o].drops
  BY <1>4, <1>8, <1>10
<1>12. Referenced' = Referenced
  BY <1>2 DEF Referenced
<1>13. blobs' \subseteq blobs /\ IsFiniteSet(blobs) /\ IsFiniteSet(blobs')
  <2>1. IsFiniteSet(blobs)
    BY <1>1 DEF FilesTyped
  <2>2. blobs' \subseteq blobs
    BY <1>2
  <2>3. QED
    BY <2>1, <2>2, FS_Subset
<1>14. FilesTyped'
  BY <1>1, <1>2, <1>9, <1>10, <1>13 DEF FilesTyped
<1>15. Exclusive'
  BY <1>1, <1>2, <1>3, <1>9, <1>11, <1>12 DEF Exclusive, InTx, RunsOn
<1>16. Apart
  BY <1>1, <1>2, <1>10, <1>11 DEF Apart
<1>17. (Referenced \subseteq blobs)' /\ (~store.shared => \A q \in Requests : Live(req[q]) /\ Needs(req[q]) => req[q].sum \in blobs')
  BY <1>1, <1>2, <1>12, SweptUnused
<1>18. ASSUME ~store.shared, store.cap > 0 PROVE Total'
  <2>1. vac.on = Home /\ Total
    BY <1>1, <1>3, <1>18
  <2>2. vac.listed \subseteq blobs /\ vac.kept = Cardinality(blobs \ vac.listed) /\ s \in blobs
    BY <1>2, <2>1 DEF Total
  <2>3. IsFiniteSet(blobs \ vac.listed) /\ Cardinality(blobs \ vac.listed) \in Nat /\ Cardinality(blobs) \in Nat
    BY <1>13, FS_Difference, FS_CardinalityType
  <2>4. vac'.listed \subseteq blobs' /\ vac'.kept = Cardinality(blobs' \ vac'.listed)
    <3>1. CASE Kept(s)
      <4>1. blobs' = blobs /\ k = vac.kept + 1
        BY <1>2, <3>1 DEF k
      <4>2. blobs' \ vac'.listed = (blobs \ vac.listed) \cup {s} /\ s \notin blobs \ vac.listed
        BY <1>2, <1>9, <2>2, <4>1
      <4>3. Cardinality((blobs \ vac.listed) \cup {s}) = Cardinality(blobs \ vac.listed) + 1
        BY <2>3, <4>2, FS_AddElement
      <4>4. QED
        BY <1>9, <2>2, <4>1, <4>2, <4>3
    <3>2. CASE ~Kept(s)
      <4>1. blobs' = blobs \ {s} /\ k = vac.kept
        BY <1>2, <1>6, <3>2 DEF k
      <4>2. blobs' \ vac'.listed = blobs \ vac.listed
        BY <1>2, <1>9, <2>2, <4>1
      <4>3. QED
        BY <1>9, <2>2, <4>1, <4>2
    <3>3. QED
      BY <3>1, <3>2
  <2>5. m.total \in Totals /\ (m.total.known => Fits(m.total, Cardinality(blobs)))
    BY <1>3, <1>4, <2>1 DEF Total, Memory
  <2>6. t.known = m.total.known /\ (t.known => Fits(t, Cardinality(blobs')))
    <3>1. CASE Kept(s)
      BY <1>2, <2>5, <3>1 DEF t
    <3>2. CASE ~Kept(s)
      <4>1. Cardinality(blobs') = Cardinality(blobs) - 1
        BY <1>2, <1>13, <2>2, <3>2, FS_RemoveElement
      <4>2. QED
        BY <2>3, <2>5, <3>2, <4>1, TotalDown DEF t
    <3>3. QED
      BY <3>1, <3>2
  <2>7. \A o \in Servers : mem'[o].total.known => o = Home /\ Fits(mem'[o].total, Cardinality(blobs'))
    BY <1>8, <1>10, <2>1, <2>6 DEF Total
  <2>8. /\ drop'.at \in {"blobs", "end"} => mem'[Home].drops > 0 /\ ~mem'[Home].total.known
        /\ mem'[Home].drops >= 0
    BY <1>2, <1>3, <1>4, <1>8, <1>10, <2>1, <2>6 DEF Total
  <2>9. QED
    BY <1>9, <2>4, <2>7, <2>8 DEF Total
<1>age. Aged' /\ Older
  BY <1>1, <1>2, SameAge
<1>19. QED
  BY <1>1, <1>11, <1>12, <1>14, <1>15, <1>16, <1>17, <1>18, <1>age, ApartKeeps, InvParts

LEMMA SweepEndKeeps ==
    ASSUME FilesInv, SweepEnd
    PROVE  FilesInv'
<1>1. /\ FilesTyped /\ Exclusive /\ Aged /\ Referenced \subseteq blobs /\ RunsOn \subseteq Servers
      /\ ~store.shared => \A q \in Requests : Live(req[q]) /\ Needs(req[q]) => req[q].sum \in blobs
      /\ ~store.shared /\ store.cap > 0 => Total
      /\ ~store.shared => RunsOn = {Home}
      /\ \A q \in Requests : q # "vacuum"
  BY InvParts
<1>2. /\ vac.at = "sweep" /\ writer' = None /\ vac' = NoVacuum
      /\ UNCHANGED <<store, blobs, rows, ns, req, placing, drop>>
      /\ \/ vac.listed = {} /\ mem' = [mem EXCEPT ![vac.on].total = Noted(vac.kept), ![vac.on].mu = None]
         \/ mem' = [mem EXCEPT ![vac.on].mu = None]
  BY DEF SweepEnd
<1>3. vac.on \in RunsOn /\ vac.on \in Servers /\ writer = "vacuum" /\ ns.on /\ drop.at = "idle"
  BY <1>1, <1>2 DEF Exclusive, None
<1>4. PICK m \in Memory : m = mem[vac.on]
  BY <1>1, <1>3 DEF FilesTyped
<1>5. PICK t \in Totals : /\ mem' = [mem EXCEPT ![vac.on] = [m EXCEPT !.total = t, !.mu = None]]
                          /\ t = m.total \/ (vac.listed = {} /\ t = Noted(vac.kept))
  <2>1. m.total \in Totals /\ Noted(vac.kept) \in Totals
    BY <1>1 DEF Memory, FilesTyped, Noted, Totals
  <2>2. CASE vac.listed = {} /\ mem' = [mem EXCEPT ![vac.on].total = Noted(vac.kept), ![vac.on].mu = None]
    BY <1>1, <1>3, <1>4, <2>1, <2>2 DEF FilesTyped
  <2>3. CASE mem' = [mem EXCEPT ![vac.on].mu = None]
    <3>1. [m EXCEPT !.total = m.total, !.mu = None] = [m EXCEPT !.mu = None]
      BY DEF Memory
    <3>2. mem' = [mem EXCEPT ![vac.on] = [m EXCEPT !.total = m.total, !.mu = None]]
      BY <1>4, <2>3, <3>1
    <3>3. QED
      BY <2>1, <3>2
  <2>4. QED
    BY <1>2, <2>2, <2>3
<1> DEFINE n == [m EXCEPT !.total = t, !.mu = None]
<1>6. n \in Memory /\ n.pins = m.pins /\ n.pending = m.pending /\ n.attaches = m.attaches /\ n.total = t /\ n.drops = m.drops
  BY DEF Memory, None
<1>7. mem' = [mem EXCEPT ![vac.on] = n]
  BY <1>5
<1> HIDE DEF n
<1>8. mem' \in [Servers -> Memory] /\ mem'[vac.on] = n /\ \A o \in Servers : o # vac.on => mem'[o] = mem[o]
  BY <1>1, <1>3, <1>6, <1>7, OneServer
<1>9. \A o \in Servers : mem'[o].pins = mem[o].pins /\ mem'[o].pending = mem[o].pending /\ mem'[o].attaches = mem[o].attaches
                         /\ mem'[o].drops = mem[o].drops
  BY <1>4, <1>6, <1>8
<1>10. /\ vac' \in [at : {"idle", "refs", "sweep"}, on : Servers \cup {None}, refs : SUBSET Sums, listed : SUBSET Sums, kept : Int]
       /\ vac'.at = "idle"
  BY <1>2 DEF NoVacuum
<1>11. Referenced' = Referenced
  BY <1>2 DEF Referenced
<1>12. FilesTyped'
  BY <1>1, <1>2, <1>8, <1>10 DEF FilesTyped
<1>13. \A q \in Requests : ~InTx(req[q])
  BY <1>1, <1>3 DEF Exclusive
<1>14. Exclusive'
  BY <1>1, <1>2, <1>3, <1>10, <1>11, <1>13 DEF Exclusive, InTx, RunsOn
<1>15. Apart
  BY <1>1, <1>2, <1>8, <1>9 DEF Apart
<1>16. ASSUME ~store.shared, store.cap > 0 PROVE Total'
  <2>1. vac.on = Home /\ Total
    BY <1>1, <1>3, <1>16
  <2>2. vac.listed = {} => vac.kept = Cardinality(blobs)
    <3>1. blobs \ {} = blobs
      OBVIOUS
    <3>2. QED
      BY <1>2, <2>1, <3>1 DEF Total
  <2>n. vac.listed = {} => Fits(Noted(vac.kept), Cardinality(blobs))
    <3>1. Cardinality(blobs) \in Nat
      BY <1>1, FS_CardinalityType DEF FilesTyped
    <3>2. QED
      BY <2>2, <3>1 DEF Fits, Noted
  <2>3. t.known => Fits(t, Cardinality(blobs))
    BY <1>3, <1>4, <1>5, <2>1, <2>n DEF Total
  <2>4. \A o \in Servers : mem'[o].total.known => o = Home /\ Fits(mem'[o].total, Cardinality(blobs'))
    BY <1>2, <1>6, <1>8, <2>1, <2>3 DEF Total
  <2>5. QED
    BY <1>2, <1>3, <1>9, <1>10, <2>1, <2>4 DEF Total
<1>age. Aged' /\ Older
  BY <1>1, <1>2, SameAge
<1>17. QED
  BY <1>1, <1>2, <1>9, <1>11, <1>12, <1>14, <1>15, <1>16, <1>age, ApartKeeps, InvParts

LEMMA EngineDropKeeps ==
    ASSUME FilesInv, NEW srv \in RunsOn, EngineDrop(srv)
    PROVE  FilesInv'
<1>1. /\ FilesTyped /\ Exclusive /\ Aged /\ Referenced \subseteq blobs
      /\ ~store.shared => \A q \in Requests : Live(req[q]) /\ Needs(req[q]) => req[q].sum \in blobs
      /\ ~store.shared /\ store.cap > 0 => Total
      /\ srv \in Servers /\ \A q \in Requests : q # None
  BY InvParts
<1>2. /\ writer = None /\ rows' = [r \in Requests |-> NoSum] /\ ns' = [on |-> FALSE, gen |-> ns.gen + 1]
      /\ drop' = [at |-> "engine", on |-> srv]
      /\ UNCHANGED <<store, blobs, writer, req, mem, placing, vac>>
  BY DEF EngineDrop
<1>3. Referenced' = {}
  BY <1>2 DEF Referenced
<1>4. ns' \in [on : BOOLEAN, gen : Nat] /\ ~ns'.on /\ ns'.gen = ns.gen + 1
  <2>1. ns.gen + 1 \in Nat
    BY <1>1 DEF FilesTyped
  <2>2. QED
    BY <1>2, <2>1
<1>5. FilesTyped'
  BY <1>1, <1>2, <1>4 DEF FilesTyped
<1>6. vac.at = "idle" /\ \A q \in Requests : ~InTx(req[q])
  BY <1>1, <1>2 DEF Exclusive, None
<1>7. \A q \in Requests : InTx(req[q])' = InTx(req[q])
  BY <1>2 DEF InTx
<1>8. Exclusive'
  BY <1>1, <1>2, <1>3, <1>4, <1>6, <1>7 DEF Exclusive, RunsOn
<1>9. Apart
  BY <1>1, <1>2 DEF Apart, FilesTyped
<1>10. Total => Total'
  BY <1>2 DEF Total
<1>11. Aged' /\ Older
  <2>1. \A q \in Requests : req[q].gen \in Nat /\ ns.gen \in Nat /\ req[q].gen <= ns.gen
    BY <1>1 DEF FilesTyped, File, Aged
  <2>2. \A q \in Requests : req[q].gen < ns'.gen /\ req[q].gen # ns'.gen
    BY <1>4, <2>1
  <2>3. Older
    BY <2>2 DEF Older
  <2>4. \A q \in Requests : req'[q].gen <= ns'.gen /\ req'[q].gen < ns'.gen /\ ~InTx(req[q])'
    BY <1>2, <1>4, <1>6, <1>7, <2>1, <2>2
  <2>5. QED
    BY <2>3, <2>4 DEF Aged
<1>12. QED
  BY <1>1, <1>2, <1>3, <1>5, <1>8, <1>9, <1>10, <1>11, ApartKeeps

LEMMA DropFilesKeeps ==
    ASSUME FilesInv, DropFiles
    PROVE  FilesInv'
<1>1. /\ FilesTyped /\ Exclusive /\ Aged /\ Referenced \subseteq blobs /\ RunsOn \subseteq Servers
      /\ ~store.shared => \A q \in Requests : Live(req[q]) /\ Needs(req[q]) => req[q].sum \in blobs
      /\ ~store.shared /\ store.cap > 0 => Total
      /\ ~store.shared => RunsOn = {Home}
  BY InvParts
<1>2. /\ drop.at = "engine" /\ drop' = [drop EXCEPT !.at = "blobs"]
      /\ SetMem(drop.on, [mem[drop.on] EXCEPT !.total = Unknown, !.attaches = [s \in Sums |-> 0], !.drops = @ + 1])
      /\ UNCHANGED <<store, blobs, rows, writer, ns, req, placing, vac>>
  BY DEF DropFiles
<1>3. drop.on \in RunsOn /\ drop.on \in Servers
  BY <1>1, <1>2 DEF Exclusive
<1>4. PICK m \in Memory : m = mem[drop.on]
  BY <1>1, <1>3 DEF FilesTyped
<1> DEFINE a == [s \in Sums |-> 0]
           n == [m EXCEPT !.total = Unknown, !.attaches = a, !.drops = @ + 1]
<1>5. n \in Memory /\ n.mu = m.mu /\ n.pins = m.pins /\ n.pending = m.pending /\ n.attaches = a /\ ~n.total.known
      /\ n.drops = m.drops + 1 /\ m.drops \in Int
  <2>1. Unknown \in Totals /\ ~Unknown.known /\ a \in [Sums -> Nat]
    BY DEF Unknown, Totals
  <2>2. m.drops \in Int /\ m.drops + 1 \in Int
    BY DEF Memory
  <2> HIDE DEF a
  <2>3. QED
    BY <2>1, <2>2 DEF Memory
<1>6. mem' = [mem EXCEPT ![drop.on] = n]
  BY <1>2, <1>4 DEF SetMem
<1> HIDE DEF n
<1>7. mem' \in [Servers -> Memory] /\ mem'[drop.on] = n /\ \A o \in Servers : o # drop.on => mem'[o] = mem[o]
  BY <1>1, <1>3, <1>5, <1>6, OneServer
<1>8. \A o \in Servers : mem'[o].pins = mem[o].pins /\ mem'[o].pending = mem[o].pending /\ mem'[o].mu = mem[o].mu
  BY <1>4, <1>5, <1>7
<1>9. Home \in Servers /\ \A s \in Sums : mem'[Home].attaches[s] = 1 => mem[Home].attaches[s] = 1
  <2>1. \A s \in Sums : a[s] # 1
    OBVIOUS
  <2>2. QED
    BY <1>5, <1>7, <2>1, FilesAssumption
<1>10. Referenced' = Referenced
  BY <1>2 DEF Referenced
<1>11. drop' \in [at : {"idle", "engine", "blobs", "end"}, on : Servers \cup {None}] /\ drop'.at = "blobs" /\ drop'.on = drop.on
  BY <1>1, <1>2 DEF FilesTyped
<1>12. FilesTyped'
  BY <1>1, <1>2, <1>7, <1>11 DEF FilesTyped
<1>13. vac.at = "idle"
  BY <1>1, <1>2 DEF Exclusive, None
<1>14. Exclusive'
  BY <1>1, <1>2, <1>3, <1>10, <1>11, <1>13 DEF Exclusive, InTx, RunsOn
<1>15. Apart
  BY <1>1, <1>2, <1>7, <1>8 DEF Apart
<1>16. ASSUME ~store.shared, store.cap > 0 PROVE Total'
  <2>1. drop.on = Home /\ Total
    BY <1>1, <1>3, <1>16
  <2>2. \A o \in Servers : ~mem'[o].total.known
    BY <1>5, <1>7, <2>1 DEF Total
  <2>3. mem'[Home].drops > 0 /\ mem'[Home].drops >= 0
    BY <1>4, <1>5, <1>7, <2>1 DEF Total
  <2>4. QED
    BY <1>2, <1>5, <1>9, <1>13, <2>2, <2>3 DEF Total
<1>age. Aged' /\ Older
  BY <1>1, <1>2, SameAge
<1>17. QED
  BY <1>1, <1>2, <1>9, <1>10, <1>12, <1>14, <1>15, <1>16, <1>age, ApartKeeps

LEMMA DropBlobsKeeps ==
    ASSUME FilesInv, DropBlobs
    PROVE  FilesInv' /\ Referenced = {}
<1>1. /\ FilesTyped /\ Exclusive /\ Aged /\ Referenced \subseteq blobs /\ RunsOn \subseteq Servers
      /\ ~store.shared /\ store.cap > 0 => Total
  BY InvParts
<1>2. /\ drop.at = "blobs" /\ drop' = [drop EXCEPT !.at = "end"] /\ blobs' = {}
      /\ UNCHANGED <<store, rows, writer, ns, req, mem, placing, vac>>
  BY DEF DropBlobs
<1>3. Referenced = {} /\ Referenced' = Referenced /\ ~ns.on
  BY <1>1, <1>2 DEF Exclusive, Referenced
<1>4. drop' \in [at : {"idle", "engine", "blobs", "end"}, on : Servers \cup {None}] /\ drop'.at = "end" /\ drop'.on = drop.on
  BY <1>1, <1>2 DEF FilesTyped
<1>5. FilesTyped'
  BY <1>1, <1>2, <1>4, FS_EmptySet DEF FilesTyped
<1>6. vac.at = "idle"
  BY <1>1, <1>3 DEF Exclusive, None
<1>7. Exclusive'
  BY <1>1, <1>2, <1>3, <1>4, <1>6 DEF Exclusive, InTx, RunsOn
<1>8. Apart
  BY <1>1, <1>2 DEF Apart, FilesTyped
<1>9. \A q \in Requests : ~Live(req[q])
  <2>1. \A q \in Requests : req[q].gen \in Nat /\ ns.gen \in Nat /\ req[q].gen < ns.gen
    BY <1>1, <1>3 DEF FilesTyped, File, Aged
  <2>2. QED
    BY <2>1 DEF Live
<1>10. ASSUME ~store.shared, store.cap > 0 PROVE Total'
  <2>1. Total
    BY <1>1, <1>10
  <2>2. \A o \in Servers : ~mem[o].total.known
    BY <1>2, <2>1 DEF Total
  <2>3. QED
    BY <1>2, <1>6, <2>1, <2>2, FilesAssumption DEF Total
<1>age. Aged' /\ Older
  BY <1>1, <1>2, SameAge
<1>11. QED
  BY <1>2, <1>3, <1>5, <1>7, <1>8, <1>9, <1>10, <1>age, ApartKeeps

LEMMA DropEndKeeps ==
    ASSUME FilesInv, DropFilesEnd
    PROVE  FilesInv'
<1>1. /\ FilesTyped /\ Exclusive /\ Aged /\ Referenced \subseteq blobs /\ RunsOn \subseteq Servers
      /\ ~store.shared => \A q \in Requests : Live(req[q]) /\ Needs(req[q]) => req[q].sum \in blobs
      /\ ~store.shared /\ store.cap > 0 => Total
  BY InvParts
<1>2. /\ drop.at = "end" /\ drop' = NoDrop /\ mem' = [mem EXCEPT ![drop.on].drops = @ - 1]
      /\ UNCHANGED <<store, blobs, rows, writer, ns, req, placing, vac>>
  BY DEF DropFilesEnd
<1>3. drop.on \in Servers
  BY <1>1, <1>2 DEF Exclusive
<1>4. PICK m \in Memory : m = mem[drop.on]
  BY <1>1, <1>3 DEF FilesTyped
<1> DEFINE n == [m EXCEPT !.drops = @ - 1]
<1>5. n \in Memory /\ n.mu = m.mu /\ n.pins = m.pins /\ n.pending = m.pending /\ n.attaches = m.attaches /\ n.total = m.total
      /\ n.drops = m.drops - 1 /\ m.drops \in Int
  BY DEF Memory
<1>6. mem' = [mem EXCEPT ![drop.on] = n]
  BY <1>2, <1>4
<1> HIDE DEF n
<1>7. mem' \in [Servers -> Memory] /\ mem'[drop.on] = n /\ \A o \in Servers : o # drop.on => mem'[o] = mem[o]
  BY <1>1, <1>3, <1>5, <1>6, OneServer
<1>8. \A o \in Servers : mem'[o].pins = mem[o].pins /\ mem'[o].pending = mem[o].pending /\ mem'[o].mu = mem[o].mu
                         /\ mem'[o].attaches = mem[o].attaches /\ mem'[o].total = mem[o].total
  BY <1>4, <1>5, <1>7
<1>9. Referenced' = Referenced
  BY <1>2 DEF Referenced
<1>10. drop' \in [at : {"idle", "engine", "blobs", "end"}, on : Servers \cup {None}] /\ drop'.at = "idle"
  BY <1>2 DEF NoDrop
<1>11. FilesTyped'
  BY <1>1, <1>2, <1>7, <1>10 DEF FilesTyped
<1>12. vac.at = "idle"
  BY <1>1, <1>2 DEF Exclusive, None
<1>13. Exclusive'
  BY <1>1, <1>2, <1>9, <1>10, <1>12 DEF Exclusive, InTx, RunsOn
<1>14. Apart
  BY <1>1, <1>2, <1>7, <1>8 DEF Apart
<1>15. ASSUME ~store.shared, Total PROVE Total'
  <2>1. drop.on = Home
    BY <1>1, <1>2, <1>15 DEF Exclusive, RunsOn
  <2>2. mem'[Home].drops >= 0
    BY <1>2, <1>4, <1>5, <1>7, <1>15, <2>1 DEF Total
  <2>3. QED
    BY <1>2, <1>8, <1>10, <1>12, <1>15, <2>2, FilesAssumption DEF Total
<1>age. Aged' /\ Older
  BY <1>1, <1>2, SameAge
<1>16. QED
  BY <1>1, <1>2, <1>8, <1>9, <1>11, <1>13, <1>14, <1>15, <1>age, ApartKeeps, InvParts

\* This is where a namespace used again before its drop has answered is left out.
LEMMA RecreateKeeps ==
    ASSUME Covered, FilesInv, Recreate
    PROVE  FilesInv'
<1>1. /\ FilesTyped /\ Exclusive /\ Aged /\ Referenced \subseteq blobs
      /\ ~store.shared => \A q \in Requests : Live(req[q]) /\ Needs(req[q]) => req[q].sum \in blobs
      /\ ~store.shared /\ store.cap > 0 => Total
  BY InvParts
<1>2. /\ ~ns.on /\ drop.at = "idle" /\ ns' = [ns EXCEPT !.on = TRUE]
      /\ UNCHANGED <<store, blobs, rows, writer, req, mem, placing, vac, drop>>
  BY DEF Recreate, Covered
<1>4. ns' \in [on : BOOLEAN, gen : Nat] /\ ns'.on /\ ns'.gen = ns.gen
  BY <1>1, <1>2 DEF FilesTyped
<1>5. FilesTyped'
  BY <1>1, <1>2, <1>4 DEF FilesTyped
<1>6. Referenced' = Referenced
  BY <1>2 DEF Referenced
<1>7. Exclusive'
  BY <1>1, <1>2, <1>4, <1>6 DEF Exclusive, InTx, RunsOn
<1>8. Apart
  BY <1>1, <1>2 DEF Apart, FilesTyped
<1>9. Total => Total'
  BY <1>2 DEF Total
<1>age. Aged' /\ Older
  BY <1>1, <1>2, <1>4 DEF Aged, Older, Live, InTx
<1>10. QED
  BY <1>1, <1>2, <1>5, <1>6, <1>7, <1>8, <1>9, <1>age, ApartKeeps

LEMMA RestartKeeps ==
    ASSUME FilesInv, NEW srv \in RunsOn, Restart(srv)
    PROVE  FilesInv'
<1>1. /\ FilesTyped /\ Stages /\ Exclusive /\ Aged /\ Referenced \subseteq blobs /\ Pins /\ Reserved
      /\ ~store.shared /\ store.cap > 0 => Total
      /\ srv \in Servers /\ RunsOn \subseteq Servers /\ (~store.shared => RunsOn = {Home})
      /\ \A q \in Requests : q # None /\ q # "vacuum"
  BY InvParts DEF FilesInv
<1>2. /\ req' = [r \in Requests |-> IF Srv(r) = srv THEN NoFile ELSE req[r]]
      /\ mem' = [mem EXCEPT ![srv] = NoMem] /\ placing' = [placing EXCEPT ![srv] = {}]
      /\ vac' = IF vac.on = srv THEN NoVacuum ELSE vac
      /\ drop' = IF drop.on = srv THEN NoDrop ELSE drop
      /\ UNCHANGED <<store, blobs, rows, ns>>
      /\ writer' = IF \/ writer = "vacuum" /\ vac.on = srv
                      \/ \E r \in Requests : writer = r /\ Srv(r) = srv THEN None ELSE writer
  BY DEF Restart, SetMem
<1>3. /\ NoFile \in File /\ ~NoFile.tmp /\ NoFile.sum = NoSum /\ NoFile.at = "idle" /\ NoFile.pins = 0 /\ ~NoFile.created
  BY DEF File, FileAt, NoFile
<1>4. /\ NoMem \in Memory /\ NoMem.pending = 0 /\ ~NoMem.total.known /\ NoMem.drops = 0
      /\ \A s \in Sums : NoMem.pins[s] = 0 /\ NoMem.attaches[s] = 0
  BY DEF Memory, NoMem, Unknown, Totals, None
<1>5. mem' \in [Servers -> Memory] /\ mem'[srv] = NoMem /\ \A o \in Servers : o # srv => mem'[o] = mem[o]
  BY <1>1, <1>2, <1>4, OneServer
<1>6. req' \in [Requests -> File] /\ \A q \in Requests : req'[q] = (IF Srv(q) = srv THEN NoFile ELSE req[q])
  BY <1>1, <1>2, <1>3 DEF FilesTyped
<1>7. /\ vac' \in [at : {"idle", "refs", "sweep"}, on : Servers \cup {None}, refs : SUBSET Sums, listed : SUBSET Sums, kept : Int]
      /\ (vac' = vac /\ vac.on # srv) \/ vac'.at = "idle"
  <2>1. NoVacuum \in [at : {"idle", "refs", "sweep"}, on : Servers \cup {None}, refs : SUBSET Sums, listed : SUBSET Sums, kept : Int]
        /\ NoVacuum.at = "idle"
    BY DEF NoVacuum
  <2>2. QED
    BY <1>1, <1>2, <2>1 DEF FilesTyped
<1>8. /\ drop' \in [at : {"idle", "engine", "blobs", "end"}, on : Servers \cup {None}]
      /\ (drop' = drop /\ drop.on # srv) \/ drop'.at = "idle"
  BY <1>1, <1>2 DEF FilesTyped, NoDrop
<1>9. placing' \in [Servers -> SUBSET Sums]
  BY <1>1, <1>2 DEF FilesTyped
<1>10. FilesTyped'
  BY <1>1, <1>2, <1>5, <1>6, <1>7, <1>8, <1>9 DEF FilesTyped
<1>11. Stages'
  <2>1. Stage(NoFile)
    BY <1>3 DEF Stage, AttachAt, PlaceAt, CopyAt
  <2>2. \A q \in Requests : Stage(req'[q])
    BY <1>1, <1>6, <2>1 DEF Stages
  <2>3. QED
    BY <1>2, <2>2 DEF Stages, Stage
<1>12. Referenced' = Referenced
  BY <1>2 DEF Referenced
<1>s. \A q \in Requests : Srv(q)' = Srv(q)
  BY <1>2 DEF Srv
<1>13. Pins'
  <2>1. ASSUME NEW o \in Servers, NEW s \in Sums PROVE mem'[o].pins[s] = Cardinality(Holding(o, s)')
    <3>1. CASE o = srv
      <4>1. Holding(o, s)' = {}
        BY <1>3, <1>6, <1>s, <3>1, FilesAssumption DEF Holding
      <4>2. QED
        BY <1>4, <1>5, <3>1, <4>1, FS_EmptySet
    <3>2. CASE o # srv
      <4>1. Holding(o, s)' = Holding(o, s)
        BY <1>6, <1>s, <3>2 DEF Holding
      <4>2. QED
        BY <1>1, <1>5, <3>2, <4>1 DEF Pins
    <3>3. QED
      BY <3>1, <3>2
  <2>2. QED
    BY <2>1 DEF Pins
<1>14. Reserved'
  <2>1. ASSUME NEW o \in Servers PROVE mem'[o].pending = Cardinality(Reserving(o)')
    <3>1. CASE o = srv
      <4>1. Reserving(o)' = {}
        BY <1>3, <1>6, <1>s, <3>1 DEF Reserving
      <4>2. QED
        BY <1>4, <1>5, <3>1, <4>1, FS_EmptySet
    <3>2. CASE o # srv
      <4>1. Reserving(o)' = Reserving(o)
        BY <1>6, <1>s, <3>2 DEF Reserving
      <4>2. QED
        BY <1>1, <1>5, <3>2, <4>1 DEF Reserved
    <3>3. QED
      BY <3>1, <3>2
  <2>2. QED
    BY <2>1 DEF Reserved
<1>15. Exclusive'
  <2>1. ~InTx(NoFile)
    BY <1>3 DEF InTx, AttachAt, PlaceAt
  <2>2. \A q \in Requests : InTx(req'[q]) => Srv(q) # srv /\ writer = q
    BY <1>1, <1>6, <2>1 DEF Exclusive
  <2>3. \A q \in Requests : InTx(req'[q]) => writer' = q
    BY <1>1, <1>2, <2>2
  <2>4. \A q \in Requests : InTx(req[q])' = InTx(req'[q])
    BY <1>2 DEF InTx
  <2>5. writer' # None => ns'.on
    BY <1>1, <1>2 DEF Exclusive
  <2>6. vac'.at # "idle" => writer' = "vacuum" /\ Referenced' \subseteq vac'.refs /\ vac'.on \in RunsOn /\ vac' = vac /\ vac.on # srv
    BY <1>1, <1>2, <1>7, <1>12 DEF Exclusive
  <2>7. vac'.at = "sweep" => mem'[vac'.on].mu = "sweep"
    BY <1>1, <1>5, <2>6 DEF Exclusive
  <2>8. drop'.at # "idle" => ~ns'.on /\ drop'.on \in RunsOn /\ drop' = drop
    BY <1>1, <1>2, <1>8 DEF Exclusive
  <2>11. ~ns'.on => Referenced' = {}
    BY <1>1, <1>2, <1>12 DEF Exclusive
  <2>12. RunsOn' = RunsOn
    BY <1>2 DEF RunsOn
  <2>13. QED
    BY <2>3, <2>4, <2>5, <2>6, <2>7, <2>8, <2>11, <2>12 DEF Exclusive
<1>16. ASSUME ~store.shared PROVE LocalFits'
  <2>1. srv = Home /\ \A q \in Requests : req'[q] = NoFile
    BY <1>1, <1>6, <1>16 DEF Srv
  <2>2. ~Needs(NoFile) /\ ~Complete(NoFile) /\ ~New(NoFile) /\ ~Locked(NoFile)
    BY <1>3 DEF Needs, Complete, New, Locked
  <2>3. \A s \in Sums : mem'[Home].attaches[s] = 0
    BY <1>4, <1>5, <2>1
  <2>4. QED
    BY <2>1, <2>2, <2>3 DEF LocalFits, NeedsStored, LocksHeld, NewAlone, MakerAlone
<1>17. ASSUME ~store.shared, store.cap > 0 PROVE Total'
  <2>1. srv = Home /\ Total
    BY <1>1, <1>17
  <2>2. mem'[Home].drops = 0 /\ \A o \in Servers : ~mem'[o].total.known
    BY <1>4, <1>5, <2>1 DEF Total
  <2>3. vac'.at = "idle" /\ drop'.at = "idle"
    BY <1>1, <1>7, <1>8, <1>17, <2>1 DEF Exclusive
  <2>4. QED
    BY <2>2, <2>3 DEF Total
<1>a. Aged'
  <2>1. NoFile.gen = 0 /\ ~InTx(NoFile)
    BY DEF NoFile, InTx, AttachAt, PlaceAt
  <2>2. \A q \in Requests : InTx(req[q])' = InTx(req'[q])
    BY <1>2 DEF InTx
  <2>3. \A q \in Requests : req[q].gen \in Nat /\ ns.gen \in Nat /\ req[q].gen <= ns.gen /\ (~ns.on => req[q].gen < ns.gen)
    BY <1>1 DEF FilesTyped, File, Aged
  <2>4. \A q \in Requests : req'[q].gen <= ns.gen /\ (~ns.on => req'[q].gen < ns.gen)
    BY <1>6, <2>1, <2>3
  <2>5. \A q \in Requests : InTx(req'[q]) => req'[q].gen = ns.gen
    BY <1>1, <1>6, <2>1 DEF Aged, Live
  <2>6. QED
    BY <1>2, <2>2, <2>4, <2>5 DEF Aged, Live
<1>18. QED
  BY <1>a, <1>1, <1>2, <1>10, <1>11, <1>12, <1>13, <1>14, <1>15, <1>16, <1>17 DEF FilesInv

-----------------------------------------------------------------------------
(***************************************************************************)
(* The theorems.                                                            *)
(***************************************************************************)
LEMMA FilesStart ==
    ASSUME FilesInit
    PROVE  FilesInv
<1>1. /\ store \in Stores /\ blobs = {} /\ rows = [r \in Requests |-> NoSum] /\ writer = None
      /\ ns = [on |-> TRUE, gen |-> 0] /\ req = [r \in Requests |-> NoFile] /\ mem = [s \in Servers |-> NoMem]
      /\ placing = [s \in Servers |-> {}] /\ vac = NoVacuum /\ drop = NoDrop
  BY DEF FilesInit
<1>2. NoFile \in File /\ NoFile.sum = NoSum /\ NoFile.at = "idle" /\ NoFile.pins = 0 /\ ~NoFile.tmp /\ ~NoFile.created
  BY DEF NoFile, File, FileAt
<1>3. /\ NoMem \in Memory /\ NoMem.pending = 0 /\ ~NoMem.total.known /\ NoMem.drops = 0
      /\ \A s \in Sums : NoMem.pins[s] = 0 /\ NoMem.attaches[s] = 0
  BY DEF Memory, NoMem, Unknown, Totals, None
<1>4. /\ vac \in [at : {"idle", "refs", "sweep"}, on : Servers \cup {None}, refs : SUBSET Sums, listed : SUBSET Sums, kept : Int]
      /\ vac.at = "idle"
  BY <1>1 DEF NoVacuum
<1>5. drop \in [at : {"idle", "engine", "blobs", "end"}, on : Servers \cup {None}] /\ drop.at = "idle"
  BY <1>1 DEF NoDrop
<1>6. store \in Store
  BY <1>1, FilesAssumption DEF Store
<1>7. FilesTyped
  BY <1>1, <1>2, <1>3, <1>4, <1>5, <1>6, FS_EmptySet DEF FilesTyped
<1>8. Stages
  BY <1>1, <1>2 DEF Stages, Stage, AttachAt, PlaceAt, CopyAt
<1>9. Referenced = {}
  BY <1>1 DEF Referenced
<1>10. Exclusive
  BY <1>1, <1>2, <1>4, <1>5, <1>9 DEF Exclusive, InTx, AttachAt, PlaceAt
<1>11. Pins
  <2>1. \A o \in Servers, s \in Sums : Holding(o, s) = {}
    BY <1>1, <1>2, FilesAssumption DEF Holding
  <2>2. QED
    BY <1>1, <1>3, <2>1, FS_EmptySet DEF Pins
<1>12. Reserved
  <2>1. \A o \in Servers : Reserving(o) = {}
    BY <1>1, <1>2 DEF Reserving
  <2>2. QED
    BY <1>1, <1>3, <2>1, FS_EmptySet DEF Reserved
<1>13. LocalFits
  <2>1. ~Needs(NoFile) /\ ~Complete(NoFile) /\ ~New(NoFile) /\ ~Locked(NoFile)
    BY <1>2 DEF Needs, Complete, New, Locked
  <2>2. \A s \in Sums : mem[Home].attaches[s] = 0
    BY <1>1, <1>3, FilesAssumption
  <2>3. QED
    BY <1>1, <2>1, <2>2 DEF LocalFits, NeedsStored, LocksHeld, NewAlone, MakerAlone
<1>14. Total
  BY <1>1, <1>3, <1>4, <1>5, FilesAssumption DEF Total
<1>a. Aged
  <2>1. NoFile.gen = 0 /\ ~InTx(NoFile)
    BY DEF NoFile, InTx, AttachAt, PlaceAt
  <2>2. QED
    BY <1>1, <2>1 DEF Aged
<1>15. QED
  BY <1>a, <1>7, <1>8, <1>9, <1>10, <1>11, <1>12, <1>13, <1>14 DEF FilesInv

LEMMA FilesStep ==
    ASSUME Covered, FilesInv, [FilesNext]_filesVars
    PROVE  FilesInv'
<1>1. ASSUME NEW r \in Requests, RequestStep(r) PROVE FilesInv'
  BY <1>1, RequestKeeps
<1>2. ASSUME NEW r \in Requests, ClearRow(r) PROVE FilesInv'
  BY <1>2, ClearRowKeeps
<1>3. CASE SweepList
  BY <1>3, SweepListKeeps
<1>4. CASE SweepEnd
  BY <1>4, SweepEndKeeps
<1>5. ASSUME NEW s \in Sums, Sweep(s) PROVE FilesInv'
  BY <1>5, SweepKeeps
<1>6. CASE DropFiles
  BY <1>6, DropFilesKeeps
<1>7. CASE DropBlobs
  BY <1>7, DropBlobsKeeps
<1>8. CASE DropFilesEnd
  BY <1>8, DropEndKeeps
<1>9. CASE Recreate
  BY <1>9, RecreateKeeps
<1>10. ASSUME NEW srv \in RunsOn, fileReferences(srv) PROVE FilesInv'
  BY <1>10, ReferencesKeeps
<1>11. ASSUME NEW srv \in RunsOn, EngineDrop(srv) PROVE FilesInv'
  BY <1>11, EngineDropKeeps
<1>12. ASSUME NEW srv \in RunsOn, Restart(srv) PROVE FilesInv'
  BY <1>12, RestartKeeps
<1>13. CASE UNCHANGED filesVars
  <2>1. UNCHANGED <<store, blobs, rows, writer, ns, req, mem, placing, vac, drop>>
    BY <1>13 DEF filesVars
  <2>2. FilesTyped'
    BY <2>1 DEF FilesInv, FilesTyped
  <2>3. Referenced' = Referenced
    BY <2>1 DEF Referenced
  <2>4. Exclusive'
    BY <2>1, <2>3 DEF FilesInv, Exclusive, InTx, RunsOn
  <2>5. Apart
    BY <2>1 DEF FilesInv, FilesTyped, Apart
  <2>6. Total => Total'
    BY <2>1 DEF Total
  <2>a. Aged' /\ Older
    BY <2>1, InvParts, SameAge
  <2>7. QED
    BY <2>1, <2>2, <2>3, <2>4, <2>5, <2>6, <2>a, ApartKeeps, InvParts
<1>14. QED
  BY <1>1, <1>2, <1>3, <1>4, <1>5, <1>6, <1>7, <1>8, <1>9, <1>10, <1>11, <1>12, <1>13 DEF FilesNext, RequestStep

LEMMA FilesInvariant ==
    ASSUME Covered
    PROVE  FilesSpec => []FilesInv
<1>1. FilesInit => FilesInv
  BY FilesStart
<1>2. FilesInv /\ [FilesNext]_filesVars => FilesInv'
  BY FilesStep
<1>3. QED
  BY <1>1, <1>2, PTL DEF FilesSpec

\* Pins, reserved bytes and, for a capped local store, the cached total are right at every
\* moment, for every number of requests, servers, files and stores, within Covered.
THEOREM BooksAlwaysBalance ==
    ASSUME Covered
    PROVE  FilesSpec => []BooksBalance
<1>1. ASSUME FilesInv PROVE BooksBalance
  <2>1. \A srv \in Servers : \A s \in Sums : mem[srv].pins[s] = Cardinality(Holding(srv, s))
    BY <1>1 DEF FilesInv, Pins
  <2>2. \A srv \in Servers : mem[srv].pending = Cardinality({r \in Requests : Srv(r) = srv /\ req[r].tmp})
    BY <1>1 DEF FilesInv, Reserved, Reserving
  <2>3. store.cap > 0 /\ ~store.shared => \A srv \in Servers : mem[srv].total.known
          => mem[srv].total.bytes + mem[srv].total.missed = Cardinality(blobs)
    BY <1>1 DEF FilesInv, Total, Fits
  <2>4. QED
    BY <2>1, <2>2, <2>3 DEF BooksBalance
<1>2. QED
  BY <1>1, FilesInvariant, PTL

\* One step of the file store is a step of its promise, or changes neither rows nor files.
LEMMA PromiseStep ==
    ASSUME FilesInv, [FilesNext]_filesVars
    PROVE  [Promise!Next]_<<rows, blobs>>
<1>1. Referenced = Promise!Named /\ Referenced \subseteq blobs /\ FilesTyped
  BY DEF Referenced, Promise!Named, FilesInv
<1>2. ASSUME rows' = rows, blobs' \subseteq blobs, Referenced \subseteq blobs' PROVE Promise!Collect
  <2>1. blobs \ blobs' \in SUBSET (blobs \ Promise!Named) /\ blobs' = blobs \ (blobs \ blobs')
    BY <1>1, <1>2
  <2>2. QED
    BY <1>2, <2>1 DEF Promise!Collect
<1>3. ASSUME NEW r \in Requests, RequestStep(r) PROVE [Promise!Next]_<<rows, blobs>>
  <2>1. FilesTyped /\ Stages
    BY DEF FilesInv
  <2>2. CASE Commit(r)
    <3>1. req[r].sum \in Sums /\ req[r].sum \in blobs
      BY <1>3, <2>2, RequestStored
    <3>2. Promise!Write(r, req[r].sum)
      BY <2>2, <3>1 DEF Commit, Promise!Write
    <3>3. QED
      BY <3>1, <3>2 DEF Promise!Next
  <2>3. CASE ~Commit(r)
    <3>1. rows' = rows /\ Referenced' = Referenced
      BY <1>3, <2>1, <2>3, RequestShared DEF Referenced
    <3>2. Referenced \subseteq blobs'
      BY <1>3, <3>1, RequestStored
    <3>3. blobs' \in {blobs, blobs \cup {req[r].sum}, blobs \ {req[r].sum}}
          /\ (blobs' = blobs \cup {req[r].sum} => req[r].sum \in Sums \/ blobs' = blobs)
      BY <1>3, <2>1, RequestShared
    <3>4. CASE blobs' = blobs
      BY <3>1, <3>4
    <3>5. CASE blobs' = blobs \cup {req[r].sum} /\ req[r].sum \in Sums
      <4>1. Promise!Store(req[r].sum)
        BY <3>1, <3>5 DEF Promise!Store
      <4>2. QED
        BY <3>5, <4>1 DEF Promise!Next
    <3>6. CASE blobs' = blobs \ {req[r].sum}
      BY <1>2, <3>1, <3>2, <3>6 DEF Promise!Next
    <3>7. QED
      BY <3>3, <3>4, <3>5, <3>6
  <2>4. QED
    BY <2>2, <2>3
<1>4. ASSUME NEW r \in Requests, ClearRow(r) PROVE [Promise!Next]_<<rows, blobs>>
  <2>1. rows' = [q \in Requests |-> IF q \in {r} THEN NoSum ELSE rows[q]] /\ blobs' = blobs
    BY <1>1, <1>4 DEF ClearRow, FilesTyped
  <2>2. {r} \in SUBSET Requests
    OBVIOUS
  <2>3. QED
    BY <2>1, <2>2 DEF Promise!Next, Promise!Clear
<1>5. ASSUME NEW srv \in RunsOn, EngineDrop(srv) PROVE [Promise!Next]_<<rows, blobs>>
  <2>1. rows' = [q \in Requests |-> IF q \in Requests THEN NoSum ELSE rows[q]] /\ blobs' = blobs
    BY <1>5 DEF EngineDrop
  <2>2. Requests \in SUBSET Requests
    OBVIOUS
  <2>3. QED
    BY <2>1, <2>2 DEF Promise!Next, Promise!Clear
<1>6. ASSUME NEW s \in Sums, Sweep(s) PROVE [Promise!Next]_<<rows, blobs>>
  <2>1. rows' = rows /\ blobs' \subseteq blobs /\ (blobs' = blobs \/ (~Kept(s) /\ blobs' = blobs \ {s})) /\ vac.at = "sweep"
    BY <1>6 DEF Sweep
  <2>2. Referenced \subseteq blobs'
    BY <1>1, <2>1, SweptUnused
  <2>3. QED
    BY <1>2, <2>1, <2>2 DEF Promise!Next
<1>7. CASE DropBlobs
  <2>1. rows' = rows /\ blobs' = {} /\ Referenced = {}
    BY <1>7, DropBlobsKeeps DEF DropBlobs
  <2>2. QED
    BY <1>2, <2>1 DEF Promise!Next
<1>8. CASE \/ SweepList \/ SweepEnd \/ DropFiles \/ DropFilesEnd \/ Recreate \/ UNCHANGED filesVars
           \/ \E srv \in RunsOn : fileReferences(srv) \/ Restart(srv)
  BY <1>8 DEF SweepList, SweepEnd, DropFiles, DropFilesEnd, Recreate, filesVars, fileReferences, Restart
<1>9. QED
  BY <1>3, <1>4, <1>5, <1>6, <1>7, <1>8 DEF FilesNext, RequestStep

\* The file store implements its promise: whatever requests, sweeps, discards, restarts and
\* drops do at the same time, a row comes to name only a stored file and no file that a
\* row names is removed, for every number of requests, servers, files and stores, within Covered.
THEOREM FilesKeepPromise ==
    ASSUME Covered
    PROVE  FilesSpec => KeepsPromise
<1>1. FilesInit => Promise!Init
  BY DEF FilesInit, Promise!Init
<1>2. FilesInv /\ [FilesNext]_filesVars => [Promise!Next]_<<rows, blobs>>
  BY PromiseStep
<1>3. QED
  BY <1>1, <1>2, FilesInvariant, PTL DEF FilesSpec, KeepsPromise, Promise!Spec
=============================================================================
