-------------------------- MODULE VectorCacheProofs --------------------------
(***************************************************************************)
(* Proofs about the vector cache, for any searches, columns, rows and      *)
(* bounds.                                                                 *)
(*                                                                         *)
(* That a search scores its own snapshot is not inductive: an entry is     *)
(* brought from one snapshot to another by the log of the later one, so    *)
(* the invariant relates every two snapshots of a column's life, those of  *)
(* the searches, of the entries and the committed one, by what the later   *)
(* one's log names between them (Agrees).  That the cache counts what it   *)
(* holds rests on an entry belonging to one column.                        *)
(***************************************************************************)
EXTENDS VectorCache, TLAPS, FiniteSetTheorems, WellFoundedInduction, SequenceTheorems

-----------------------------------------------------------------------------
(* Sums.                                                                    *)

\* Every set of numbers that is not empty has a least one.
LEMMA LeastNumber ==
  ASSUME NEW T \in SUBSET Nat, T # {}
  PROVE \E n \in T : \A m \in T : n <= m
<1>1. PICK n \in T : \A m \in T : ~(<<m, n>> \in OpToRel(<, Nat))
  BY NatLessThanWellFounded, WFMin
<1>2. \A m \in T : ~(m < n)
  BY <1>1 DEF OpToRel
<1> QED BY <1>2

\* What g gives the members of s, one by one.
Units(g, s) == {p \in s \X Nat : p[2] \in 1 .. g[p[1]]}

\* There are finitely many.
LEMMA UnitsFinite ==
  ASSUME NEW s, IsFiniteSet(s), NEW g, \A x \in s : g[x] \in Nat
  PROVE  IsFiniteSet(Units(g, s))
<1> DEFINE Part(x) == {x} \X (1 .. g[x])
           Parts == {Part(x) : x \in s}
<1>1. \A x \in s : IsFiniteSet(Part(x))
  <2> TAKE x \in s
  <2>1. IsFiniteSet(1 .. g[x])  BY FS_Interval
  <2> QED BY <2>1, FS_Singleton, FS_Product
<1>2. IsFiniteSet(Parts)
  <2> DEFINE f == [x \in s |-> Part(x)]
  <2> HIDE DEF Part
  <2>1. f \in Surjection(s, Parts)  BY DEF Surjection
  <2> QED BY <2>1, FS_Surjection
<1>3. IsFiniteSet(UNION Parts)
  BY <1>1, <1>2, FS_UNION
<1>4. Units(g, s) = UNION Parts
  BY DEF Units
<1> QED BY <1>3, <1>4

\* One member's share is the difference.
LEMMA UnitsStep ==
  ASSUME NEW s, IsFiniteSet(s), NEW g, \A y \in s : g[y] \in Nat, NEW x \in s
  PROVE  Cardinality(Units(g, s)) = g[x] + Cardinality(Units(g, s \ {x}))
<1> DEFINE One == {x} \X (1 .. g[x])
<1>1. Units(g, s) = One \cup Units(g, s \ {x})
  BY DEF Units
<1>2. One \cap Units(g, s \ {x}) = {}
  BY DEF Units
<1>3. IsFiniteSet(One) /\ Cardinality(One) = g[x]
  <2>1. IsFiniteSet(1 .. g[x]) /\ Cardinality(1 .. g[x]) = g[x]  BY FS_Interval
  <2>2. IsFiniteSet({x}) /\ Cardinality({x}) = 1 BY FS_Singleton
  <2>3. IsFiniteSet(One) /\ Cardinality(One) = Cardinality({x}) * Cardinality(1 .. g[x])
    BY <2>1, <2>2, FS_Product
  <2> QED BY <2>1, <2>2, <2>3
<1>4. IsFiniteSet(Units(g, s \ {x}))
  BY FS_RemoveElement, UnitsFinite
<1>5. Cardinality(Units(g, s \ {x})) \in Nat
  BY <1>4, FS_CardinalityType
<1>6. Cardinality({}) = 0
  BY FS_EmptySet
<1> HIDE DEF One
<1>7. Cardinality(One \cup Units(g, s \ {x}))
        = Cardinality(One) + Cardinality(Units(g, s \ {x})) - Cardinality(One \cap Units(g, s \ {x}))
  BY <1>3, <1>4, FS_Union
<1>8. Cardinality(One \cap Units(g, s \ {x})) = 0  BY <1>2, <1>6
<1>9. Cardinality(Units(g, s)) = Cardinality(One \cup Units(g, s \ {x}))  BY <1>1
<1> QED BY <1>3, <1>5, <1>7, <1>8, <1>9

\* SumFunctionOnSet counts them, in whatever order it takes the members: by
\* induction over the subsets, as the least subset that is counted wrongly.
LEMMA SumCounts ==
  ASSUME NEW S, IsFiniteSet(S), NEW g, \A x \in S : g[x] \in Nat
  PROVE  SumFunctionOnSet(g, S) = Cardinality(Units(g, S))
<1> DEFINE pick(s) == CHOOSE x \in s : TRUE
           Eq(it) == it = [s \in SUBSET S |-> IF s = {} THEN 0 ELSE g[pick(s)] + it[s \ {pick(s)}]]
           W == [s \in SUBSET S |-> Cardinality(Units(g, s))]
<1>1. SumFunctionOnSet(g, S) = (CHOOSE it : Eq(it))[S]
  BY Zenon DEF SumFunctionOnSet, FoldFunctionOnSet, MapThenFoldSet
<1>2. Units(g, {}) = {}
  BY DEF Units
<1>3. \A s \in SUBSET S : s # {} => pick(s) \in s /\ W[s] = g[pick(s)] + W[s \ {pick(s)}]
  <2> SUFFICES ASSUME NEW s \in SUBSET S, s # {} PROVE pick(s) \in s /\ W[s] = g[pick(s)] + W[s \ {pick(s)}]
    OBVIOUS
  <2>1. pick(s) \in s OBVIOUS
  <2> HIDE DEF pick
  <2>2. IsFiniteSet(s) BY FS_Subset
  <2>3. Cardinality(Units(g, s)) = g[pick(s)] + Cardinality(Units(g, s \ {pick(s)}))
    BY <2>1, <2>2, UnitsStep
  <2> QED BY <2>1, <2>3
<1>4. Eq(W)
  <2>1. W[{}] = 0 BY <1>2, FS_EmptySet
  <2> HIDE DEF pick
  <2>2. \A s \in SUBSET S : W[s] = IF s = {} THEN 0 ELSE g[pick(s)] + W[s \ {pick(s)}]
    BY <1>3, <2>1
  <2>3. W = [s \in SUBSET S |-> W[s]] OBVIOUS
  <2> HIDE DEF W
  <2> QED BY <2>2, <2>3
<1>5. PICK it : it = (CHOOSE f : Eq(f)) /\ Eq(it)
  <2> HIDE DEF Eq
  <2> QED BY <1>4
<1>6. \A s \in SUBSET S : it[s] = W[s]
  <2> DEFINE Bad == {s \in SUBSET S : it[s] # W[s]}
  <2> SUFFICES ASSUME Bad # {} PROVE FALSE OBVIOUS
  <2>1. Bad \subseteq FiniteSubsetsOf(S) BY FS_FiniteSubsetsOfFinite
  <2>2. PICK s \in Bad : \A u \in Bad : ~(<<u, s>> \in StrictSubsetOrdering(S))
    <3> HIDE DEF Bad
    <3> QED BY <2>1, FS_StrictSubsetOrderingWellFounded, WFMin
  <2>3. CASE s = {}
    BY <2>3, <1>5, <1>4
  <2>4. CASE s # {}
    <3>1. pick(s) \in s BY <2>4
    <3> HIDE DEF pick
    <3>2. s \ {pick(s)} \in SUBSET S /\ s \ {pick(s)} # s BY <3>1
    <3>3. it[s \ {pick(s)}] = W[s \ {pick(s)}]
      <4>1. <<s \ {pick(s)}, s>> \in StrictSubsetOrdering(S)
        BY <3>1, <3>2 DEF StrictSubsetOrdering
      <4> QED BY <4>1, <3>2, <2>2
    <3>4. it[s] = g[pick(s)] + it[s \ {pick(s)}]
       BY <1>5, <2>4
    <3> QED BY <3>3, <3>4, <1>3, <2>4
  <2> QED BY <2>3, <2>4
<1> HIDE DEF Eq
<1> QED BY <1>1, <1>5, <1>6

\* A sum of natural numbers is one.
LEMMA SumType ==
  ASSUME NEW S, IsFiniteSet(S), NEW g, \A x \in S : g[x] \in Nat
  PROVE  SumFunctionOnSet(g, S) \in Nat
BY SumCounts, UnitsFinite, FS_CardinalityType

\* Functions that agree on the set have the same sum over it.
LEMMA SumSame ==
  ASSUME NEW S, IsFiniteSet(S), NEW g, NEW h, \A x \in S : g[x] \in Nat /\ h[x] = g[x]
  PROVE  SumFunctionOnSet(g, S) = SumFunctionOnSet(h, S)
<1>1. Units(g, S) = Units(h, S)
  BY DEF Units
<1>2. SumFunctionOnSet(g, S) = Cardinality(Units(g, S))
  BY SumCounts
<1>3. SumFunctionOnSet(h, S) = Cardinality(Units(h, S))
  BY SumCounts
<1> QED BY <1>1, <1>2, <1>3

\* The sum over a set that falls into two parts.
LEMMA SumSplit ==
  ASSUME NEW S, IsFiniteSet(S), NEW g, \A x \in S : g[x] \in Nat, NEW T \in SUBSET S
  PROVE  SumFunctionOnSet(g, S) = SumFunctionOnSet(g, T) + SumFunctionOnSet(g, S \ T)
<1>1. IsFiniteSet(T) /\ IsFiniteSet(S \ T)
  BY FS_Subset
<1>2. /\ SumFunctionOnSet(g, S) = Cardinality(Units(g, S))
      /\ SumFunctionOnSet(g, T) = Cardinality(Units(g, T))
      /\ SumFunctionOnSet(g, S \ T) = Cardinality(Units(g, S \ T))
  BY <1>1, SumCounts
<1>3. Units(g, S) = Units(g, T) \cup Units(g, S \ T) /\ Units(g, T) \cap Units(g, S \ T) = {}
  BY DEF Units
<1>4. IsFiniteSet(Units(g, T)) /\ IsFiniteSet(Units(g, S \ T))
  BY <1>1, UnitsFinite
<1>5. Cardinality(Units(g, T)) \in Nat /\ Cardinality(Units(g, S \ T)) \in Nat
  BY <1>4, FS_CardinalityType
<1>6. Cardinality(Units(g, T) \cup Units(g, S \ T))
        = Cardinality(Units(g, T)) + Cardinality(Units(g, S \ T))
          - Cardinality(Units(g, T) \cap Units(g, S \ T))
  BY <1>4, FS_Union
<1>7. Cardinality(Units(g, T) \cap Units(g, S \ T)) = 0
  BY <1>3, FS_EmptySet
<1>8. Cardinality(Units(g, S)) = Cardinality(Units(g, T) \cup Units(g, S \ T))
  BY <1>3
<1> QED BY <1>2, <1>5, <1>6, <1>7, <1>8

\* The sum over no member and over one.
LEMMA SumOne ==
  /\ \A g : SumFunctionOnSet(g, {}) = 0
  /\ \A g, x : g[x] \in Nat => SumFunctionOnSet(g, {x}) = g[x]
<1>1. ASSUME NEW g PROVE SumFunctionOnSet(g, {}) = 0
  <2>1. Units(g, {}) = {}  BY DEF Units
  <2>2. SumFunctionOnSet(g, {}) = Cardinality(Units(g, {}))  BY SumCounts, FS_EmptySet
  <2> QED BY <2>1, <2>2, FS_EmptySet
<1>2. ASSUME NEW g, NEW x, g[x] \in Nat PROVE SumFunctionOnSet(g, {x}) = g[x]
  <2>1. IsFiniteSet({x})  BY FS_Singleton
  <2>2. SumFunctionOnSet(g, {x}) = Cardinality(Units(g, {x}))  BY <1>2, <2>1, SumCounts
  <2>3. Cardinality(Units(g, {x})) = g[x] + Cardinality(Units(g, {x} \ {x}))
    BY <1>2, <2>1, UnitsStep
  <2>4. Units(g, {x} \ {x}) = {}  BY DEF Units
  <2>5. Cardinality(Units(g, {x} \ {x})) = 0  BY <2>4, FS_EmptySet
  <2> QED BY <1>2, <2>2, <2>3, <2>5
<1> QED BY <1>1, <1>2

\* A sum over keys is the sum over what an injective map takes them to.
LEMMA SumRenamed ==
  ASSUME NEW S, IsFiniteSet(S), NEW m, \A k, l \in S : m[k] = m[l] => k = l,
         NEW g, NEW h, \A k \in S : g[k] \in Nat /\ h[m[k]] = g[k]
  PROVE  SumFunctionOnSet(g, S) = SumFunctionOnSet(h, {m[k] : k \in S})
<1> DEFINE R == {m[k] : k \in S}
           f == [p \in Units(g, S) |-> <<m[p[1]], p[2]>>]
<1>1. IsFiniteSet(R)
  <2> DEFINE n == [k \in S |-> m[k]]
  <2>1. n \in Surjection(S, R)  BY DEF Surjection
  <2> QED BY <2>1, FS_Surjection
<1>2. \A x \in R : h[x] \in Nat
  OBVIOUS
<1>3. f \in Bijection(Units(g, S), Units(h, R))
  <2>1. f \in [Units(g, S) -> Units(h, R)]
    BY DEF Units
  <2>2. \A p, q \in Units(g, S) : f[p] = f[q] => p = q
    BY DEF Units
  <2>3. \A q \in Units(h, R) : \E p \in Units(g, S) : f[p] = q
    <3> TAKE q \in Units(h, R)
    <3>1. q[1] \in R /\ q[2] \in Nat /\ q[2] \in 1 .. h[q[1]] /\ q = <<q[1], q[2]>>
      BY DEF Units
    <3>2. PICK k \in S : q[1] = m[k]  BY <3>1
    <3>3. <<k, q[2]>> \in Units(g, S)  BY <3>1, <3>2 DEF Units
    <3> WITNESS <<k, q[2]>> \in Units(g, S)
    <3> QED BY <3>1, <3>2, <3>3
  <2> HIDE DEF f
  <2> QED BY <2>1, <2>2, <2>3 DEF Bijection, Injection, Surjection, IsInjective
<1>4. Cardinality(Units(g, S)) = Cardinality(Units(h, R))
  <2>1. ExistsBijection(Units(g, S), Units(h, R))
    BY <1>3 DEF ExistsBijection
  <2> QED BY <2>1, UnitsFinite, FS_Bijection
<1>5. SumFunctionOnSet(g, S) = Cardinality(Units(g, S))  BY SumCounts
<1>6. SumFunctionOnSet(h, R) = Cardinality(Units(h, R))  BY <1>1, <1>2, SumCounts
<1> QED BY <1>4, <1>5, <1>6

-----------------------------------------------------------------------------
(* Types.                                                                   *)

VecRows == UNION {[d -> Nat] : d \in SUBSET VecIds}
VecChange == [seq : Nat, key : VecKeys, id : VecIds]
VecEntry == [fp : Nat, seq : Nat, fresh : BOOLEAN, rows : VecRows, bytes : Nat, use : Nat,
             tooBig : BOOLEAN, lock : BOOLEAN]
VecBusy == {"entry", "lock", "drop", "account", "remember", "score", "answer"}
VecRun == [at : VecBusy, key : VecKeys, head : Nat, fp : Nat, rows : VecRows,
           log : SUBSET VecChange, entry : Nat, fits : BOOLEAN, hits : VecRows]

Busy(r) == vecSearch[r].at # "idle"
Has(r) == vecSearch[r].at \notin {"idle", "entry"}
Holds(r) == vecSearch[r].at \in {"account", "remember"}

\* Every part of the state has the shape the code gives it, and an entry that
\* is mapped or worked on is there.
VecTypes ==
  /\ vecDb \in [seq : Nat, log : SUBSET VecChange, fp : [VecKeys -> Nat], rows : [VecKeys -> VecRows]]
  /\ vecHeap \in Seq(VecEntry)
  /\ vecMap \in [VecKeys -> Nat]
  /\ vecTick \in Nat
  /\ vecSearch \in [VecSearches -> VecRun \cup {NoSearch}]
  /\ vecLeft \in [runs : Nat, writes : Nat, trims : Nat, lives : Nat, errors : Nat,
                  max : Nat, keys : SUBSET VecKeys]

VecRefs ==
  /\ \A k \in VecKeys : vecMap[k] # VecNone => vecMap[k] \in DOMAIN vecHeap
  /\ \A r \in VecSearches : Has(r) => vecSearch[r].entry \in DOMAIN vecHeap

\* Entry x is the one of column k for somebody.
Of(k, x) ==
  \/ vecMap[k] = x
  \/ \E r \in VecSearches : Has(r) /\ vecSearch[r].key = k /\ vecSearch[r].entry = x

\* An entry serves one column.
VecHome ==
  \A k, l \in VecKeys : \A x \in DOMAIN vecHeap : Of(k, x) /\ Of(l, x) => k = l

\* Who changes an entry has its lock, alone.
VecLocks ==
  /\ \A r \in VecSearches : Holds(r) => Entry(r).lock
  /\ \A r, q \in VecSearches :
       Holds(r) /\ Holds(q) /\ vecSearch[r].entry = vecSearch[q].entry => r = q

-----------------------------------------------------------------------------
(* Snapshots.                                                               *)

Reached(log, s) == \E c \in log : c.seq <= s + 1
Touched(log, k, s) == {c.id : c \in {d \in log : d.key = k /\ d.seq > s}}

\* From the rows f at position s to the rows g at position h, only what the log
\* at h names after s has changed, if that log reaches back to s.
Agrees(k, s, f, h, g, log) ==
  s <= h /\ (s = h \/ Reached(log, s)) =>
    \A i \in VecIds \ Touched(log, k, s) :
      /\ i \in DOMAIN f <=> i \in DOMAIN g
      /\ i \in DOMAIN f => f[i] = g[i]

AgreesWithRun(k, fp, s, f, q) ==
  Busy(q) /\ vecSearch[q].key = k /\ vecSearch[q].fp = fp =>
    Agrees(k, s, f, vecSearch[q].head, vecSearch[q].rows, vecSearch[q].log)

AgreesWithDb(k, fp, s, f) ==
  vecDb.fp[k] = fp => Agrees(k, s, f, vecDb.seq, vecDb.rows[k], vecDb.log)

\* Nobody is ahead of what is committed.
VecPast ==
  /\ \A c \in vecDb.log : c.seq <= vecDb.seq
  /\ \A r \in VecSearches : Busy(r) =>
       /\ vecSearch[r].head <= vecDb.seq /\ vecSearch[r].fp <= vecDb.fp[vecSearch[r].key]
       /\ \A c \in vecSearch[r].log : c.seq <= vecSearch[r].head
  /\ \A k \in VecKeys : \A x \in DOMAIN vecHeap : Of(k, x) /\ ~vecHeap[x].fresh =>
       vecHeap[x].seq <= vecDb.seq /\ vecHeap[x].fp <= vecDb.fp[k]

\* The rows f of column k's life fp at position s fit what is committed and what
\* every search sees.
View(k, fp, s, f) ==
  AgreesWithDb(k, fp, s, f) /\ \A q \in VecSearches : AgreesWithRun(k, fp, s, f, q)

VecRuns ==
  \A r \in VecSearches : Busy(r) =>
    View(vecSearch[r].key, vecSearch[r].fp, vecSearch[r].head, vecSearch[r].rows)

\* A read that fails leaves an entry torn until its search takes it out of the map.
Torn(x) == \E r \in VecSearches : vecSearch[r].at = "drop" /\ vecSearch[r].entry = x

Solid(x) == ~vecHeap[x].fresh /\ ~vecHeap[x].tooBig /\ ~Torn(x)

VecEntries ==
  \A k \in VecKeys : \A x \in DOMAIN vecHeap : Of(k, x) /\ Solid(x) =>
    View(k, vecHeap[x].fp, vecHeap[x].seq, vecHeap[x].rows)

\* An entry that is remembered as too big is too big for its own position.
Large(f) == Cardinality(DOMAIN f) > vecLeft.max

VecTooBig ==
  \A k \in VecKeys : \A x \in DOMAIN vecHeap : Of(k, x) /\ ~vecHeap[x].fresh /\ vecHeap[x].tooBig =>
    /\ vecDb.fp[k] = vecHeap[x].fp /\ vecDb.seq = vecHeap[x].seq => Large(vecDb.rows[k])
    /\ \A q \in VecSearches :
         Busy(q) /\ vecSearch[q].key = k /\ vecSearch[q].fp = vecHeap[x].fp
           /\ vecSearch[q].head = vecHeap[x].seq => Large(vecSearch[q].rows)

\* What a search knows of the entry it works on.
Held(r) ==
  /\ vecSearch[r].at \in {"account", "remember", "score"} => ~Entry(r).fresh
  /\ Holds(r) => /\ ~Entry(r).tooBig /\ Entry(r).rows = vecSearch[r].rows
                 /\ Entry(r).seq = vecSearch[r].head /\ Entry(r).fp = vecSearch[r].fp
  /\ vecSearch[r].at = "remember" => Large(vecSearch[r].rows)
  /\ vecSearch[r].at = "score" => ~Large(vecSearch[r].rows)

VecHeld == \A r \in VecSearches : Held(r)

\* Nobody else has an entry between the read that tears it and its removal.
Unshared ==
  \A r, q \in VecSearches :
    vecSearch[r].at = "drop" /\ Has(q) /\ vecSearch[q].entry = vecSearch[r].entry => q = r

VecFits == VecEntries /\ VecTooBig /\ VecHeld /\ VecExact
VecSnapshots == VecPast /\ VecRuns /\ VecFits

VecShape == VecTypes /\ VecRefs /\ VecHome /\ VecLocks

-----------------------------------------------------------------------------
(* The map's bookkeeping.                                                   *)

VecBookType == [heap : Seq(VecEntry), map : [VecKeys -> Nat], used : Nat]
Bytes(heap) == [x \in DOMAIN heap |-> heap[x].bytes]
Mapped(map) == {map[k] : k \in VecKeys} \ {VecNone}

\* What is mapped is there, once.
Placed(b) ==
  /\ \A k \in VecKeys : b.map[k] # VecNone => b.map[k] \in DOMAIN b.heap
  /\ \A k, l \in VecKeys : b.map[k] = b.map[l] /\ b.map[k] # VecNone => k = l

Balanced(b) ==
  /\ b.used = SumFunctionOnSet(Bytes(b.heap), Mapped(b.map))
  /\ \A y \in DOMAIN b.heap \ Mapped(b.map) : b.heap[y].bytes = 0

GoodBooks(b) == b \in VecBookType /\ Placed(b) /\ Balanced(b)

\* Only the sizes of entries differ.
OnlyBytes(h, g) ==
  /\ DOMAIN g = DOMAIN h
  /\ \A y \in DOMAIN h :
       /\ g[y].fp = h[y].fp /\ g[y].seq = h[y].seq /\ g[y].rows = h[y].rows /\ g[y].use = h[y].use
       /\ g[y].fresh = h[y].fresh /\ g[y].tooBig = h[y].tooBig /\ g[y].lock = h[y].lock

\* What two states of an entry say of the column.
SameView(d, e) == /\ e.fp = d.fp /\ e.seq = d.seq /\ e.rows = d.rows
                  /\ e.fresh = d.fresh /\ e.tooBig = d.tooBig

\* Entry x is of column k or of none.
Free(b, k, x) == x \in DOMAIN b.heap /\ \A l \in VecKeys : b.map[l] = x => l = k

\* A heap of entries, read as a function and written at one place.
LEMMA HeapForm ==
  \A h : h \in Seq(VecEntry) <=> \E n \in Nat : h \in [1 .. n -> VecEntry]
BY SeqDef

LEMMA HeapPut ==
  ASSUME NEW h \in Seq(VecEntry), NEW x \in DOMAIN h, NEW e \in VecEntry
  PROVE  [h EXCEPT ![x] = e] \in Seq(VecEntry)
<1>1. PICK n \in Nat : h \in [1 .. n -> VecEntry]  BY HeapForm
<1>2. [h EXCEPT ![x] = e] \in [1 .. n -> VecEntry]  BY <1>1
<1> QED BY <1>2, HeapForm

\* A map has finitely many entries, all of them there.
LEMMA MappedFinite ==
  ASSUME NEW b \in VecBookType, Placed(b)
  PROVE  /\ IsFiniteSet(Mapped(b.map)) /\ Mapped(b.map) \subseteq DOMAIN b.heap
         /\ Bytes(b.heap) \in [DOMAIN b.heap -> Nat] /\ VecNone \notin DOMAIN b.heap
<1> DEFINE n == [k \in VecKeys |-> b.map[k]]
           R == {b.map[k] : k \in VecKeys}
<1>1. n \in Surjection(VecKeys, R)  BY DEF Surjection
<1>2. IsFiniteSet(R)  BY <1>1, FS_Surjection, VecAssumption DEF VecAssumption
<1>3. IsFiniteSet(Mapped(b.map))  BY <1>2, FS_Subset DEF Mapped
<1>4. Mapped(b.map) \subseteq DOMAIN b.heap  BY DEF Mapped, Placed
<1>5. \A y \in DOMAIN b.heap : b.heap[y] \in VecEntry /\ y # VecNone
  BY DEF VecBookType, VecNone
<1>6. Bytes(b.heap) \in [DOMAIN b.heap -> Nat]  BY <1>5 DEF Bytes, VecEntry
<1> QED BY <1>3, <1>4, <1>5, <1>6

\* What one member adds to a sum.
LEMMA SumWithout ==
  ASSUME NEW S, IsFiniteSet(S), NEW g, \A x \in S : g[x] \in Nat, NEW y \in S
  PROVE  /\ SumFunctionOnSet(g, S) = g[y] + SumFunctionOnSet(g, S \ {y})
         /\ SumFunctionOnSet(g, S \ {y}) \in Nat
<1>1. SumFunctionOnSet(g, S) = SumFunctionOnSet(g, {y}) + SumFunctionOnSet(g, S \ {y})
  BY SumSplit
<1>2. SumFunctionOnSet(g, {y}) = g[y]  BY SumOne
<1>3. IsFiniteSet(S \ {y})  BY FS_Subset
<1> QED BY <1>1, <1>2, <1>3, SumType

\* drop takes the entry and its size out, if it is the column's.
LEMMA DropKeepsBooks ==
  ASSUME NEW b, GoodBooks(b), NEW k \in VecKeys, NEW x \in DOMAIN b.heap,
         NEW c, c = vecDrop(b, k, x)
  PROVE  /\ GoodBooks(c) /\ OnlyBytes(b.heap, c.heap) /\ c.used <= b.used
         /\ c.map \in {b.map, [b.map EXCEPT ![k] = VecNone]}
         /\ c.map[k] # x
<1> DEFINE M == Mapped(b.map)
<1> USE DEF GoodBooks
<1>0. /\ IsFiniteSet(M) /\ M \subseteq DOMAIN b.heap
      /\ Bytes(b.heap) \in [DOMAIN b.heap -> Nat] /\ VecNone \notin DOMAIN b.heap
  BY MappedFinite
<1>1. CASE b.map[k] # x
  <2>1. c = b  BY <1>1 DEF vecDrop
  <2> QED BY <2>1, <1>1, <1>0 DEF OnlyBytes, VecBookType, VecEntry
<1>2. CASE b.map[k] = x
  <2>1. c = [b EXCEPT !.map[k] = VecNone, !.used = @ - b.heap[x].bytes, !.heap[x].bytes = 0]
    BY <1>2 DEF vecDrop
  <2>2. x \in M  BY <1>2, <1>0 DEF Mapped
  <2>3. Mapped(c.map) = M \ {x}
    BY <2>1, <1>2, <1>0 DEF Mapped, VecBookType, Placed
  <2>4. /\ SumFunctionOnSet(Bytes(b.heap), M) = Bytes(b.heap)[x] + SumFunctionOnSet(Bytes(b.heap), M \ {x})
        /\ SumFunctionOnSet(Bytes(b.heap), M \ {x}) \in Nat
    BY <1>0, <2>2, SumWithout
  <2>5. c.heap = [b.heap EXCEPT ![x].bytes = 0] /\ c.map = [b.map EXCEPT ![k] = VecNone]
        /\ c.used = b.used - b.heap[x].bytes
    BY <2>1 DEF VecBookType
  <2>6. DOMAIN c.heap = DOMAIN b.heap /\ \A y \in M \ {x} : Bytes(c.heap)[y] = Bytes(b.heap)[y]
    BY <2>5, <1>0 DEF Bytes
  <2>7. SumFunctionOnSet(Bytes(c.heap), M \ {x}) = SumFunctionOnSet(Bytes(b.heap), M \ {x})
    <3>1. IsFiniteSet(M \ {x})  BY <1>0, FS_Subset
    <3> QED BY <3>1, <2>6, <1>0, SumSame
  <2>8. c.used = SumFunctionOnSet(Bytes(c.heap), M \ {x}) /\ c.used \in Nat /\ c.used <= b.used
    BY <2>4, <2>5, <2>7, <1>0 DEF Balanced, Bytes, VecBookType
  <2>9. c.heap \in Seq(VecEntry)
    <3>1. b.heap \in Seq(VecEntry) /\ b.heap[x] \in VecEntry  BY DEF VecBookType
    <3>2. [b.heap[x] EXCEPT !.bytes = 0] \in VecEntry  BY <3>1 DEF VecEntry
    <3> QED BY <3>1, <3>2, <2>5, HeapPut
  <2>10. c \in VecBookType
    <3>1. c = [heap |-> c.heap, map |-> c.map, used |-> c.used]  BY <2>1 DEF VecBookType
    <3>2. c.map \in [VecKeys -> Nat]  BY <2>5 DEF VecBookType, VecNone
    <3> QED BY <3>1, <3>2, <2>8, <2>9 DEF VecBookType
  <2>11. Placed(c)
    BY <2>5, <2>6 DEF Placed, VecBookType
  <2>12. Balanced(c)
    <3>1. c.used = SumFunctionOnSet(Bytes(c.heap), Mapped(c.map))  BY <2>3, <2>8
    <3>2. ASSUME NEW y \in DOMAIN c.heap \ Mapped(c.map)  PROVE c.heap[y].bytes = 0
      <4>1. y \in DOMAIN b.heap /\ (y = x \/ y \notin M)  BY <2>3, <2>6
      <4>2. CASE y = x
        <5>1. b.heap[x] \in VecEntry  BY DEF VecBookType
        <5>2. c.heap[x] = [b.heap[x] EXCEPT !.bytes = 0]  BY <2>5
        <5> QED BY <4>2, <5>1, <5>2 DEF VecEntry
      <4>3. CASE y # x
        <5>1. c.heap[y] = b.heap[y]  BY <2>5, <4>1, <4>3
        <5>2. b.heap[y].bytes = 0  BY <4>1, <4>3 DEF Balanced
        <5> QED BY <5>1, <5>2
      <4> QED BY <4>2, <4>3
    <3> QED BY <3>1, <3>2 DEF Balanced
  <2>13. OnlyBytes(b.heap, c.heap)
    <3>1. \A y \in DOMAIN b.heap : b.heap[y] \in VecEntry  BY DEF VecBookType
    <3>2. \A y \in DOMAIN b.heap :
            c.heap[y] = IF y = x THEN [b.heap[x] EXCEPT !.bytes = 0] ELSE b.heap[y]
      BY <2>5
    <3> QED BY <3>1, <3>2, <2>6 DEF OnlyBytes, VecEntry
  <2>14. c.map[k] # x
    BY <2>5, <1>0 DEF VecBookType
  <2> QED BY <2>5, <2>8, <2>10, <2>11, <2>12, <2>13, <2>14
<1> QED BY <1>1, <1>2

\* An entry of no column takes an empty place.
LEMMA PlaceKeepsBooks ==
  ASSUME NEW b, GoodBooks(b), NEW k \in VecKeys, NEW x, Free(b, k, x), b.map[k] = VecNone,
         NEW c, c = [b EXCEPT !.map[k] = x]
  PROVE  GoodBooks(c)
<1> DEFINE M == Mapped(b.map)
<1> USE DEF GoodBooks
<1>0. /\ IsFiniteSet(M) /\ M \subseteq DOMAIN b.heap
      /\ Bytes(b.heap) \in [DOMAIN b.heap -> Nat] /\ VecNone \notin DOMAIN b.heap
  BY MappedFinite
<1>1. /\ c.heap = b.heap /\ c.map = [b.map EXCEPT ![k] = x] /\ c.used = b.used
      /\ c = [heap |-> c.heap, map |-> c.map, used |-> c.used]
  BY DEF VecBookType
<1>2. x \in DOMAIN b.heap /\ x \in Nat /\ x # VecNone /\ x \notin M
  <2>1. x \in DOMAIN b.heap /\ x \in Nat /\ x # VecNone  BY <1>0 DEF Free, VecBookType
  <2> QED BY <2>1 DEF Free, Mapped
<1>3. Mapped(c.map) = M \cup {x} /\ (M \cup {x}) \ {x} = M
  BY <1>1, <1>2 DEF Mapped, VecBookType
<1>4. Bytes(b.heap)[x] = 0  BY <1>2 DEF Balanced, Bytes
<1>5. SumFunctionOnSet(Bytes(b.heap), M \cup {x}) = SumFunctionOnSet(Bytes(b.heap), M)
  <2>1. IsFiniteSet(M \cup {x})  BY <1>0, FS_AddElement
  <2>2. \A y \in M \cup {x} : Bytes(b.heap)[y] \in Nat  BY <1>0, <1>2
  <2>3. /\ SumFunctionOnSet(Bytes(b.heap), M \cup {x})
             = Bytes(b.heap)[x] + SumFunctionOnSet(Bytes(b.heap), (M \cup {x}) \ {x})
        /\ SumFunctionOnSet(Bytes(b.heap), (M \cup {x}) \ {x}) \in Nat
    BY <2>1, <2>2, SumWithout
  <2>4. SumFunctionOnSet(Bytes(b.heap), (M \cup {x}) \ {x}) = SumFunctionOnSet(Bytes(b.heap), M)
    BY <1>3
  <2> HIDE DEF M
  <2> QED BY <2>3, <2>4, <1>4
<1>6. c \in VecBookType
  <2>1. c.map \in [VecKeys -> Nat]  BY <1>1, <1>2 DEF VecBookType
  <2> QED BY <1>1, <2>1 DEF VecBookType
<1>7. Placed(c)  BY <1>1, <1>2 DEF Placed, VecBookType, Free
<1>8. Balanced(c)
  <2> QED BY <1>1, <1>3, <1>5 DEF Balanced
<1> QED BY <1>6, <1>7, <1>8

\* claim puts the entry in its column's place, and what was there out of the books.
LEMMA ClaimKeepsBooks ==
  ASSUME NEW b, GoodBooks(b), NEW k \in VecKeys, NEW x, Free(b, k, x), NEW c, c = claim(b, k, x)
  PROVE  /\ GoodBooks(c) /\ OnlyBytes(b.heap, c.heap) /\ c.used <= b.used
         /\ c.map = [b.map EXCEPT ![k] = x]
         /\ c.heap[x].bytes = b.heap[x].bytes
<1> DEFINE cur == b.map[k]
           d == vecDrop(b, k, cur)
<1>t. b \in VecBookType /\ x \in Nat /\ x # VecNone /\ x \in DOMAIN b.heap
  BY MappedFinite DEF GoodBooks, Free, VecBookType
<1>o. OnlyBytes(b.heap, b.heap) /\ b.used <= b.used
  BY <1>t DEF OnlyBytes, VecBookType
<1>1. CASE cur = x
  <2>1. c = [b EXCEPT !.map[k] = x]  BY <1>1 DEF claim
  <2>2. b.map = [b.map EXCEPT ![k] = x]  BY <1>1, <1>t DEF VecBookType
  <2>3. c = b  BY <2>1, <2>2, <1>t DEF VecBookType
  <2> QED BY <2>2, <2>3, <1>o
<1>2. CASE cur = VecNone
  <2>1. c = [b EXCEPT !.map[k] = x]  BY <1>2 DEF claim
  <2>2. GoodBooks(c)  BY <2>1, <1>2, PlaceKeepsBooks
  <2>3. c.heap = b.heap /\ c.used = b.used /\ c.map = [b.map EXCEPT ![k] = x]
    BY <2>1, <1>t DEF VecBookType
  <2> QED BY <2>2, <2>3, <1>o
<1>3. CASE cur \notin {x, VecNone}
  <2>1. cur \in DOMAIN b.heap  BY <1>3 DEF GoodBooks, Placed
  <2>2. /\ GoodBooks(d) /\ OnlyBytes(b.heap, d.heap) /\ d.used <= b.used
    BY <2>1, DropKeepsBooks
  <2>3. d = [b EXCEPT !.map[k] = VecNone, !.used = @ - b.heap[cur].bytes, !.heap[cur].bytes = 0]
    BY DEF vecDrop
  <2>4. /\ d.map = [b.map EXCEPT ![k] = VecNone] /\ d.used = b.used - b.heap[cur].bytes
        /\ d.heap = [b.heap EXCEPT ![cur].bytes = 0]
        /\ d = [heap |-> d.heap, map |-> d.map, used |-> d.used]
    BY <2>3, <1>t DEF VecBookType
  <2>5. c = [b EXCEPT !.map[k] = x, !.used = @ - b.heap[cur].bytes, !.heap[cur].bytes = 0]
    BY <1>3 DEF claim
  <2>6. /\ c.map = [b.map EXCEPT ![k] = x] /\ c.used = b.used - b.heap[cur].bytes
        /\ c.heap = [b.heap EXCEPT ![cur].bytes = 0]
        /\ c = [heap |-> c.heap, map |-> c.map, used |-> c.used]
    BY <2>5, <1>t DEF VecBookType
  <2>7. c = [d EXCEPT !.map[k] = x]
    <3>1. [d.map EXCEPT ![k] = x] = [b.map EXCEPT ![k] = x]  BY <2>4, <1>t DEF VecBookType
    <3> HIDE DEF d
    <3> QED BY <2>4, <2>6, <3>1
  <2>8. Free(d, k, x)
    BY <2>4, <1>t DEF Free, VecBookType
  <2>9. d.map[k] = VecNone  BY <2>4, <1>t DEF VecBookType
  <2>10. GoodBooks(c)
    <3> HIDE DEF d
    <3> QED BY <2>2, <2>7, <2>8, <2>9, PlaceKeepsBooks
  <2>11. c.heap[x].bytes = b.heap[x].bytes  BY <2>6, <1>3, <1>t DEF VecBookType
  <2>12. c.heap = d.heap /\ c.used = d.used  BY <2>4, <2>6
  <2> HIDE DEF d
  <2> QED BY <2>2, <2>6, <2>10, <2>11, <2>12
<1> QED BY <1>1, <1>2, <1>3

\* The entries of the columns in out leave the books.
Gone(b, out) == {b.map[l] : l \in out}
WithoutThem(b, out, bytes) ==
  [heap |-> [y \in DOMAIN b.heap |-> IF y \in Gone(b, out) THEN [b.heap[y] EXCEPT !.bytes = 0]
                                                         ELSE b.heap[y]],
   map |-> [l \in VecKeys |-> IF l \in out THEN VecNone ELSE b.map[l]],
   used |-> b.used - SumFunctionOnSet(bytes, out)]

\* What is left is still in balance.
LEMMA LeaveKeepsBooks ==
  ASSUME NEW b, GoodBooks(b), NEW out \in SUBSET VecKeys, \A l \in out : b.map[l] # VecNone,
         NEW bytes, \A l \in out : bytes[l] = b.heap[b.map[l]].bytes,
         NEW c, c = WithoutThem(b, out, bytes)
  PROVE  /\ GoodBooks(c) /\ OnlyBytes(b.heap, c.heap)
         /\ Mapped(c.map) = Mapped(b.map) \ Gone(b, out)
         /\ c.used = SumFunctionOnSet(Bytes(b.heap), Mapped(b.map) \ Gone(b, out))
<1> DEFINE gone == Gone(b, out)
           M == Mapped(b.map)
           B == Bytes(b.heap)
<1>e. c = [heap |-> [y \in DOMAIN b.heap |-> IF y \in gone THEN [b.heap[y] EXCEPT !.bytes = 0]
                                                        ELSE b.heap[y]],
           map |-> [l \in VecKeys |-> IF l \in out THEN VecNone ELSE b.map[l]],
           used |-> b.used - SumFunctionOnSet(bytes, out)]
  BY Zenon DEF WithoutThem
<1>t. b \in VecBookType /\ Placed(b) /\ Balanced(b)  BY DEF GoodBooks
<1>0. /\ IsFiniteSet(M) /\ M \subseteq DOMAIN b.heap /\ B \in [DOMAIN b.heap -> Nat]
      /\ VecNone \notin DOMAIN b.heap
  BY <1>t, MappedFinite
<1>1. gone \in SUBSET M /\ Mapped(c.map) = M \ gone
  BY <1>e, <1>t, <1>0 DEF Gone, Mapped, Placed, VecBookType
<1>2. IsFiniteSet(out)  BY FS_Subset, VecAssumption DEF VecAssumption
<1>3. SumFunctionOnSet(bytes, out) = SumFunctionOnSet(B, gone)
  <2>1. \A l, m \in out : b.map[l] = b.map[m] => l = m  BY <1>t DEF Placed
  <2>2. \A l \in out : b.map[l] \in DOMAIN b.heap  BY <1>t DEF Placed
  <2>3. \A l \in out : bytes[l] \in Nat /\ B[b.map[l]] = bytes[l]
    BY <1>0, <2>2 DEF Bytes
  <2> HIDE DEF B, M, gone
  <2>4. PICK m : m = b.map  OBVIOUS
  <2>5. SumFunctionOnSet(bytes, out) = SumFunctionOnSet(B, {m[l] : l \in out})
    BY <1>2, <2>1, <2>3, <2>4, SumRenamed
  <2>6. {m[l] : l \in out} = gone  BY <2>4 DEF Gone, gone
  <2> QED BY <2>5, <2>6
<1>4. IsFiniteSet(gone) /\ IsFiniteSet(M \ gone)  BY <1>0, <1>1, FS_Subset
<1>5. /\ SumFunctionOnSet(B, M) = SumFunctionOnSet(B, gone) + SumFunctionOnSet(B, M \ gone)
      /\ SumFunctionOnSet(B, gone) \in Nat /\ SumFunctionOnSet(B, M \ gone) \in Nat
  <2>1. \A y \in M : B[y] \in Nat  BY <1>0
  <2> HIDE DEF B, M, gone
  <2>2. SumFunctionOnSet(B, M) = SumFunctionOnSet(B, gone) + SumFunctionOnSet(B, M \ gone)
    BY <1>0, <1>1, <2>1, SumSplit
  <2> QED BY <1>1, <1>4, <2>1, <2>2, SumType
<1>6. c.used = SumFunctionOnSet(B, M \ gone) /\ c.used \in Nat
  <2>1. c.used = b.used - SumFunctionOnSet(B, gone) /\ b.used = SumFunctionOnSet(B, M)
    BY <1>e, <1>3, <1>t DEF Balanced
  <2> HIDE DEF B, M, gone
  <2> QED BY <2>1, <1>5
<1>7. \A y \in DOMAIN b.heap : b.heap[y] \in VecEntry /\ [b.heap[y] EXCEPT !.bytes = 0] \in VecEntry
  <2>1. \A y \in DOMAIN b.heap : b.heap[y] \in VecEntry  BY <1>t DEF VecBookType
  <2> QED BY <2>1 DEF VecEntry
<1>8. c.heap \in Seq(VecEntry) /\ DOMAIN c.heap = DOMAIN b.heap
  <2>1. PICK n \in Nat : b.heap \in [1 .. n -> VecEntry]  BY <1>t, HeapForm DEF VecBookType
  <2> HIDE DEF gone
  <2>2. c.heap = [y \in 1 .. n |-> IF y \in gone THEN [b.heap[y] EXCEPT !.bytes = 0] ELSE b.heap[y]]
    BY <1>e, <2>1
  <2>3. \A y \in 1 .. n : (IF y \in gone THEN [b.heap[y] EXCEPT !.bytes = 0] ELSE b.heap[y]) \in VecEntry
    BY <2>1, <1>7
  <2>4. c.heap \in [1 .. n -> VecEntry]  BY <2>2, <2>3
  <2> QED BY <2>1, <2>4, HeapForm
<1>9. \A y \in DOMAIN b.heap :
        c.heap[y] = IF y \in gone THEN [b.heap[y] EXCEPT !.bytes = 0] ELSE b.heap[y]
  BY <1>e
<1>10. \A y \in M \ gone : Bytes(c.heap)[y] = B[y]
  BY <1>0, <1>8, <1>9 DEF Bytes
<1>11. SumFunctionOnSet(Bytes(c.heap), M \ gone) = SumFunctionOnSet(B, M \ gone)
  <2>1. \A y \in M \ gone : B[y] \in Nat  BY <1>0
  <2> HIDE DEF B, M, gone
  <2> QED BY <2>1, <1>4, <1>10, SumSame
<1>12. c \in VecBookType
  <2>1. c.map \in [VecKeys -> Nat]  BY <1>e, <1>t DEF VecBookType, VecNone
  <2>2. c = [heap |-> c.heap, map |-> c.map, used |-> c.used]  BY <1>e
  <2> QED BY <2>1, <2>2, <1>6, <1>8 DEF VecBookType
<1>13. Placed(c)
  BY <1>e, <1>t, <1>8 DEF Placed, VecBookType
<1>14. Balanced(c)
  <2>1. \A y \in DOMAIN c.heap \ (M \ gone) : c.heap[y].bytes = 0
    BY <1>t, <1>7, <1>8, <1>9 DEF Balanced, VecEntry
  <2> QED BY <2>1, <1>1, <1>6, <1>11 DEF Balanced
<1>15. OnlyBytes(b.heap, c.heap)
  BY <1>7, <1>8, <1>9 DEF OnlyBytes, VecEntry
<1> QED BY <1>1, <1>6, <1>12, <1>13, <1>14, <1>15 DEF GoodBooks

\* Eviction takes other columns' entries out until the cache is within its memory,
\* which it is at the latest when only this one, that fits, is left.
LEMMA EvictKeepsBooks ==
  ASSUME NEW b, GoodBooks(b), NEW k \in VecKeys, NEW x, b.map[k] = x, x \in DOMAIN b.heap,
         b.heap[x].bytes <= vecLeft.max, vecLeft.max \in Nat, NEW c, c = evictUntil(b, x)
  PROVE  /\ GoodBooks(c) /\ OnlyBytes(b.heap, c.heap) /\ c.used <= vecLeft.max
         /\ c.map[k] = x /\ \A l \in VecKeys : c.map[l] \in {b.map[l], VecNone}
<1> DEFINE others == {l \in VecKeys : b.map[l] \notin {x, VecNone}}
           bytes == [l \in others |-> b.heap[b.map[l]].bytes]
           freed(s) == SumFunctionOnSet(bytes, s)
           older(s) == \A m \in s, l \in others \ s : b.heap[b.map[m]].use < b.heap[b.map[l]].use
           enough == {s \in SUBSET others : older(s) /\ (b.used - freed(s) <= vecLeft.max \/ s = others)}
           Least(s) == s \in enough /\ \A t \in enough : Cardinality(s) <= Cardinality(t)
           out == CHOOSE s \in enough : \A t \in enough : Cardinality(s) <= Cardinality(t)
           gone == Gone(b, out)
           M == Mapped(b.map)
           B == Bytes(b.heap)
<1>t. b \in VecBookType /\ Placed(b) /\ Balanced(b)  BY DEF GoodBooks
<1>0. /\ IsFiniteSet(M) /\ M \subseteq DOMAIN b.heap /\ B \in [DOMAIN b.heap -> Nat]
      /\ VecNone \notin DOMAIN b.heap
  BY <1>t, MappedFinite
<1>1. IsFiniteSet(others)  BY FS_Subset, VecAssumption DEF VecAssumption
<1>2. others \in enough  OBVIOUS
<1>3. enough \subseteq SUBSET others
      /\ \A s \in enough : b.used - freed(s) <= vecLeft.max \/ s = others
  OBVIOUS
<1>4. \E s : Least(s)
  <2> HIDE DEF enough, others
  <2> DEFINE T == {Cardinality(s) : s \in enough}
  <2>1. T \subseteq Nat /\ T # {}
    <3>1. \A s \in enough : Cardinality(s) \in Nat  BY <1>1, <1>3, FS_Subset, FS_CardinalityType
    <3> QED BY <3>1, <1>2
  <2>2. PICK n \in T : \A m \in T : n <= m
    <3> HIDE DEF T
    <3> QED BY <2>1, LeastNumber
  <2> QED BY <2>2
<1>5. out \in enough
  <2> HIDE DEF enough
  <2> QED BY <1>4
<1>6. c = WithoutThem(b, out, bytes)
  BY Zenon DEF evictUntil, WithoutThem, Gone
<1>7. /\ out \subseteq others /\ (b.used - freed(out) <= vecLeft.max \/ out = others)
  <2> HIDE DEF out, enough
  <2> QED BY <1>3, <1>5
<1> HIDE DEF out
<1>8. /\ \A l \in out : l \in VecKeys /\ b.map[l] # VecNone /\ b.map[l] # x
      /\ \A l \in out : bytes[l] = b.heap[b.map[l]].bytes
  BY <1>7
<1>9. /\ GoodBooks(c) /\ OnlyBytes(b.heap, c.heap) /\ Mapped(c.map) = M \ gone
      /\ c.used = SumFunctionOnSet(B, M \ gone)
  <2>1. out \in SUBSET VecKeys  BY <1>8
  <2> PICK o : o = out  OBVIOUS
  <2> PICK g : g = bytes  OBVIOUS
  <2>2. /\ o \in SUBSET VecKeys /\ \A l \in o : b.map[l] # VecNone
        /\ \A l \in o : g[l] = b.heap[b.map[l]].bytes
    BY <2>1, <1>8
  <2>3. c = WithoutThem(b, o, g)  BY <1>6
  <2>4. /\ GoodBooks(c) /\ OnlyBytes(b.heap, c.heap) /\ Mapped(c.map) = Mapped(b.map) \ Gone(b, o)
        /\ c.used = SumFunctionOnSet(Bytes(b.heap), Mapped(b.map) \ Gone(b, o))
    <3> HIDE DEF bytes, others, freed, older, enough, Least, gone, M, B
    <3>1. o \in SUBSET VecKeys  BY <2>2
    <3>2. \A l \in o : b.map[l] # VecNone  BY <2>2
    <3>3. \A l \in o : g[l] = b.heap[b.map[l]].bytes  BY <2>2
    <3>4. GoodBooks(b)  OBVIOUS
    <3>5. GoodBooks(c) /\ OnlyBytes(b.heap, c.heap)
      BY ONLY <3>1, <3>2, <3>3, <3>4, <2>3, LeaveKeepsBooks
    <3>6. Mapped(c.map) = Mapped(b.map) \ Gone(b, o)
      BY ONLY <3>1, <3>2, <3>3, <3>4, <2>3, LeaveKeepsBooks
    <3>7. c.used = SumFunctionOnSet(Bytes(b.heap), Mapped(b.map) \ Gone(b, o))
      BY ONLY <3>1, <3>2, <3>3, <3>4, <2>3, LeaveKeepsBooks
    <3> QED BY <3>5, <3>6, <3>7
  <2> QED BY <2>4
<1>10. k \notin out /\ c.map[k] = x /\ \A l \in VecKeys : c.map[l] \in {b.map[l], VecNone}
  <2>1. c.map = [l \in VecKeys |-> IF l \in out THEN VecNone ELSE b.map[l]]
    BY <1>6 DEF WithoutThem
  <2> QED BY <2>1, <1>8
<1>11. c.used <= vecLeft.max
  <2>1. CASE out = others
    <3>1. M \ gone = {x}
      BY <2>1, <1>0, <1>8 DEF Mapped, Gone
    <3>2. SumFunctionOnSet(B, {x}) = B[x] /\ B[x] = b.heap[x].bytes
      <4>1. B[x] \in Nat /\ B[x] = b.heap[x].bytes  BY <1>0 DEF Bytes
      <4> HIDE DEF B
      <4> QED BY <4>1, SumOne
    <3> QED BY <3>1, <3>2, <1>9
  <2>2. CASE b.used - freed(out) <= vecLeft.max
    BY <2>2, <1>6 DEF WithoutThem
  <2> QED BY <1>7, <2>1, <2>2
<1> QED BY <1>9, <1>10, <1>11

\* An entry is counted at another size.
AtSize(d, x, n) == [d EXCEPT !.used = @ + n - d.heap[x].bytes, !.heap[x].bytes = n]

\* The sum follows where it is in the map.
LEMMA SizeKeepsBooks ==
  ASSUME NEW d, GoodBooks(d), NEW k \in VecKeys, NEW x, x \in DOMAIN d.heap, d.map[k] = x,
         NEW n, n \in Nat, NEW g, g = AtSize(d, x, n)
  PROVE  /\ GoodBooks(g) /\ OnlyBytes(d.heap, g.heap) /\ g.heap[x].bytes = n /\ g.map = d.map
         /\ d.heap[x].bytes \in Nat /\ d.used \in Nat
<1> DEFINE M == Mapped(d.map)
<1>4. /\ d \in VecBookType /\ Placed(d) /\ Balanced(d) /\ IsFiniteSet(M) /\ M \subseteq DOMAIN d.heap
      /\ Bytes(d.heap) \in [DOMAIN d.heap -> Nat] /\ VecNone \notin DOMAIN d.heap
  BY MappedFinite DEF GoodBooks
<1>5. d.map[k] = x /\ x \in M
  BY <1>4 DEF Mapped
<1>6. /\ g.map = d.map /\ g.heap = [d.heap EXCEPT ![x].bytes = n]
      /\ g.used = d.used + n - d.heap[x].bytes
      /\ g = [heap |-> g.heap, map |-> g.map, used |-> g.used]
  BY <1>4 DEF VecBookType, AtSize
<1>7. /\ d.heap[x] \in VecEntry /\ [d.heap[x] EXCEPT !.bytes = n] \in VecEntry
      /\ \A y \in DOMAIN d.heap : d.heap[y] \in VecEntry
  <2>1. \A y \in DOMAIN d.heap : d.heap[y] \in VecEntry  BY <1>4 DEF VecBookType
  <2>2. d.heap[x] \in VecEntry  BY <2>1
  <2>3. [d.heap[x] EXCEPT !.bytes = n] \in VecEntry  BY <2>2 DEF VecEntry
  <2> QED BY <2>1, <2>2, <2>3
<1>8. g.heap \in Seq(VecEntry) /\ DOMAIN g.heap = DOMAIN d.heap
      /\ \A y \in DOMAIN d.heap : g.heap[y] = IF y = x THEN [d.heap[x] EXCEPT !.bytes = n] ELSE d.heap[y]
  BY <1>4, <1>6, <1>7, HeapPut DEF VecBookType
<1>9. GoodBooks(g) /\ g.heap[x].bytes = n
  <2> DEFINE B == Bytes(d.heap)
             C == Bytes(g.heap)
  <2>1. C[x] = n /\ \A y \in M \ {x} : C[y] = B[y] /\ B[y] \in Nat
    BY <1>4, <1>7, <1>8 DEF Bytes, VecEntry
  <2>2. \A y \in M : C[y] \in Nat /\ B[y] \in Nat  BY <1>4, <2>1
  <2>3. d.used = SumFunctionOnSet(B, M) /\ d.heap[x].bytes = B[x]
    BY <1>4 DEF Balanced, Bytes
  <2> HIDE DEF B, C, M
  <2>4. /\ SumFunctionOnSet(B, M) = B[x] + SumFunctionOnSet(B, M \ {x})
        /\ SumFunctionOnSet(B, M \ {x}) \in Nat
    BY <1>4, <1>5, <2>2, SumWithout
  <2>5. SumFunctionOnSet(C, M) = C[x] + SumFunctionOnSet(C, M \ {x})
    BY <1>4, <1>5, <2>2, SumWithout
  <2>6. SumFunctionOnSet(B, M \ {x}) = SumFunctionOnSet(C, M \ {x})
    <3>1. IsFiniteSet(M \ {x})  BY <1>4, FS_Subset
    <3> QED BY <3>1, <2>1, SumSame
  <2>7. g.used = SumFunctionOnSet(C, M) /\ g.used \in Nat
    BY <2>1, <2>2, <2>3, <2>4, <2>5, <2>6, <1>5, <1>6
  <2>8. g \in VecBookType
    BY <2>7, <1>4, <1>6, <1>8 DEF VecBookType
  <2>9. Placed(g)
    BY <1>4, <1>6, <1>8 DEF Placed
  <2>10. Balanced(g)
    BY <2>7, <1>4, <1>5, <1>6, <1>8 DEF Balanced, M, C
  <2> QED BY <2>8, <2>9, <2>10, <1>7, <1>8 DEF GoodBooks, VecEntry
<1>10. OnlyBytes(d.heap, g.heap)
  <2>1. \A y \in DOMAIN d.heap : y # x => g.heap[y] = d.heap[y]  BY <1>8
  <2>2. g.heap[x] = [d.heap[x] EXCEPT !.bytes = n]  BY <1>8
  <2>3. /\ g.heap[x].fp = d.heap[x].fp /\ g.heap[x].seq = d.heap[x].seq
        /\ g.heap[x].rows = d.heap[x].rows /\ g.heap[x].use = d.heap[x].use
        /\ g.heap[x].fresh = d.heap[x].fresh /\ g.heap[x].tooBig = d.heap[x].tooBig
        /\ g.heap[x].lock = d.heap[x].lock
    BY <2>2, <1>7 DEF VecEntry
  <2> QED BY <2>1, <2>3, <1>8 DEF OnlyBytes
<1>11. d.heap[x].bytes \in Nat /\ d.used \in Nat  BY <1>4, <1>7 DEF VecBookType, VecEntry
<1> QED BY <1>6, <1>9, <1>10, <1>11

\* account counts the entry at the size it has now, and stays within the memory.
LEMMA AccountKeepsBooks ==
  ASSUME NEW b, GoodBooks(b), b.used <= vecLeft.max, vecLeft.max \in Nat, NEW k \in VecKeys,
         NEW x, Free(b, k, x), IsFiniteSet(DOMAIN b.heap[x].rows), NEW c, c = account(b, k, x)
  PROVE  /\ GoodBooks(c) /\ OnlyBytes(b.heap, c.heap) /\ c.used <= vecLeft.max
         /\ c.map[k] \in {x, VecNone}
         /\ \A l \in VecKeys \ {k} : c.map[l] \in {b.map[l], VecNone}
<1>d. PICK d : d = claim(b, k, x)  OBVIOUS
<1>n. PICK n : n = size(d.heap[x])  OBVIOUS
<1>g. PICK g : g = AtSize(d, x, n)  OBVIOUS
<1>t. b \in VecBookType /\ x \in DOMAIN b.heap /\ x \in Nat /\ x # VecNone
  BY MappedFinite DEF GoodBooks, Free, VecBookType
<1>1. /\ GoodBooks(d) /\ OnlyBytes(b.heap, d.heap) /\ d.used <= b.used
      /\ d.map = [b.map EXCEPT ![k] = x]
  BY <1>d, ClaimKeepsBooks
<1>2. n \in Nat /\ x \in DOMAIN d.heap /\ d.heap[x].rows = b.heap[x].rows
  <2>1. x \in DOMAIN d.heap /\ d.heap[x].rows = b.heap[x].rows  BY <1>t, <1>1 DEF OnlyBytes
  <2> QED BY <1>n, <2>1, FS_CardinalityType DEF size
<1>3. c = IF n > vecLeft.max THEN vecDrop(g, k, x) ELSE evictUntil(g, x)
  <2>1. account(b, k, x)
          = IF size(claim(b, k, x).heap[x]) > vecLeft.max
            THEN vecDrop(AtSize(claim(b, k, x), x, size(claim(b, k, x).heap[x])), k, x)
            ELSE evictUntil(AtSize(claim(b, k, x), x, size(claim(b, k, x).heap[x])), x)
    BY Zenon DEF account, AtSize
  <2> QED BY <2>1, <1>d, <1>n, <1>g
<1>5. d.map[k] = x  BY <1>1, <1>t DEF VecBookType
<1>6. /\ GoodBooks(g) /\ OnlyBytes(d.heap, g.heap) /\ g.heap[x].bytes = n /\ g.map = d.map
      /\ d.heap[x].bytes \in Nat /\ d.used \in Nat
  <2>1. GoodBooks(d) /\ x \in DOMAIN d.heap /\ n \in Nat  BY <1>1, <1>2
  <2>2. GoodBooks(g)  BY <2>1, <1>g, <1>5, SizeKeepsBooks
  <2>3. OnlyBytes(d.heap, g.heap)  BY <2>1, <1>g, <1>5, SizeKeepsBooks
  <2>4. g.map = d.map   BY <2>1, <1>g, <1>5, SizeKeepsBooks
  <2>5. g.heap[x].bytes = n BY <2>1, <1>g, <1>5, SizeKeepsBooks
  <2>6. d.heap[x].bytes \in Nat BY <2>1, <1>g, <1>5, SizeKeepsBooks
  <2>7. d.used \in Nat BY <2>1, <1>g, <1>5, SizeKeepsBooks
  <2> QED BY <2>2, <2>3, <2>4, <2>5, <2>6, <2>7
<1>7. g.used = d.used + n - d.heap[x].bytes
  BY <1>g, <1>1 DEF AtSize, GoodBooks, VecBookType
<1>10. OnlyBytes(b.heap, g.heap)
  BY <1>1, <1>6 DEF OnlyBytes
<1>11. CASE n > vecLeft.max
  <2>1. c = vecDrop(g, k, x)  BY <1>3, <1>11
  <2>2. x \in DOMAIN g.heap  BY <1>2, <1>6 DEF OnlyBytes
  <2>3. /\ GoodBooks(c) /\ OnlyBytes(g.heap, c.heap)
        /\ c.map \in {g.map, [g.map EXCEPT ![k] = VecNone]} /\ c.map[k] # x
    BY <2>1, <2>2, <1>6, DropKeepsBooks
  <2>4. OnlyBytes(b.heap, c.heap)  BY <2>3, <1>10 DEF OnlyBytes
  <2>5. c.map = [g.map EXCEPT ![k] = VecNone] /\ g.map[k] = x
    BY <2>3, <1>5, <1>6
  <2>6. c.map[k] = VecNone /\ \A l \in VecKeys \ {k} : c.map[l] = b.map[l]
    BY <2>5, <1>1, <1>6, <1>t DEF VecBookType
  <2>7. c.used <= vecLeft.max
    <3>1. c = [g EXCEPT !.map[k] = VecNone, !.used = @ - g.heap[x].bytes, !.heap[x].bytes = 0]
      BY <2>1, <2>5 DEF vecDrop
    <3>2. c.used = g.used - n  BY <3>1, <1>6 DEF GoodBooks, VecBookType
    <3>3. b.used \in Nat  BY <1>t DEF VecBookType
    <3> QED BY <3>2, <3>3, <1>1, <1>2, <1>6, <1>7
  <2> QED BY <2>3, <2>4, <2>6, <2>7
<1>12. CASE n <= vecLeft.max
  <2>1. c = evictUntil(g, x)  BY <1>3, <1>2, <1>12
  <2>2. g.map[k] = x /\ x \in DOMAIN g.heap  BY <1>2, <1>5, <1>6 DEF OnlyBytes
  <2>3. /\ GoodBooks(c) /\ OnlyBytes(g.heap, c.heap) /\ c.used <= vecLeft.max
        /\ c.map[k] = x /\ \A l \in VecKeys : c.map[l] \in {g.map[l], VecNone}
    BY <2>1, <2>2, <1>6, <1>12, EvictKeepsBooks
  <2>4. OnlyBytes(b.heap, c.heap)  BY <2>3, <1>10 DEF OnlyBytes
  <2>5. \A l \in VecKeys \ {k} : g.map[l] = b.map[l]
    BY <1>1, <1>6, <1>t DEF VecBookType
  <2> QED BY <2>3, <2>4, <2>5
<1> QED BY <1>2, <1>11, <1>12

\* The books do not see what else an entry holds.
LEMMA SameBytesKeepBooks ==
  ASSUME NEW b, GoodBooks(b), NEW c, c \in VecBookType, c.map = b.map, c.used = b.used,
         DOMAIN c.heap = DOMAIN b.heap, \A y \in DOMAIN b.heap : c.heap[y].bytes = b.heap[y].bytes
  PROVE  GoodBooks(c)
<1>1. Bytes(c.heap) = Bytes(b.heap)  BY DEF Bytes
<1>2. Placed(c)  BY DEF GoodBooks, Placed
<1>3. Balanced(c)  BY <1>1 DEF GoodBooks, Balanced
<1> QED BY <1>2, <1>3 DEF GoodBooks

\* Nor an entry that is nobody's.
LEMMA AppendKeepsBooks ==
  ASSUME NEW b, GoodBooks(b), NEW e, e \in VecEntry, e.bytes = 0,
         NEW c, c = [heap |-> Append(b.heap, e), map |-> b.map, used |-> b.used]
  PROVE  GoodBooks(c)
<1>t. b \in VecBookType /\ Placed(b) /\ Balanced(b)  BY DEF GoodBooks
<1>0. /\ IsFiniteSet(Mapped(b.map)) /\ Mapped(b.map) \subseteq DOMAIN b.heap
      /\ Bytes(b.heap) \in [DOMAIN b.heap -> Nat]
  BY <1>t, MappedFinite
<1>1. c.heap = Append(b.heap, e) /\ c.map = b.map /\ c.used = b.used  OBVIOUS
<1>2. /\ c.heap \in Seq(VecEntry) /\ DOMAIN c.heap = DOMAIN b.heap \cup {Len(b.heap) + 1}
      /\ \A y \in DOMAIN b.heap : c.heap[y] = b.heap[y]
      /\ c.heap[Len(b.heap) + 1] = e
  BY <1>1, <1>t DEF VecBookType
<1>3. \A y \in Mapped(b.map) : Bytes(b.heap)[y] \in Nat /\ Bytes(c.heap)[y] = Bytes(b.heap)[y]
  BY <1>0, <1>2 DEF Bytes
<1>4. SumFunctionOnSet(Bytes(b.heap), Mapped(b.map)) = SumFunctionOnSet(Bytes(c.heap), Mapped(b.map))
  BY <1>0, <1>3, SumSame
<1>5. c \in VecBookType  BY <1>t, <1>1, <1>2 DEF VecBookType
<1>6. Placed(c)  BY <1>t, <1>1, <1>2 DEF Placed
<1>7. Balanced(c)
  BY <1>t, <1>1, <1>2, <1>4 DEF Balanced
<1> QED BY <1>5, <1>6, <1>7 DEF GoodBooks

-----------------------------------------------------------------------------
(* Every step keeps the shape of the state and the books.                   *)

VecCounts == GoodBooks(Books) /\ vecUsed <= vecLeft.max
VecFrame == VecShape /\ VecCounts

\* The inductive invariant.
VecInv == VecFrame /\ VecSnapshots

\* The books as an entry's search sees them.
LEMMA FrameFacts ==
  ASSUME VecFrame
  PROVE  /\ vecLeft.max \in Nat /\ vecUsed \in Nat /\ VecNone \notin DOMAIN vecHeap
         /\ \A y \in DOMAIN vecHeap : vecHeap[y] \in VecEntry /\ y \in Nat
         /\ Books.heap = vecHeap /\ Books.map = vecMap /\ Books.used = vecUsed
         /\ \A r \in VecSearches : Has(r) =>
              /\ vecSearch[r].entry \in DOMAIN vecHeap /\ vecSearch[r].key \in VecKeys
              /\ Free(Books, vecSearch[r].key, vecSearch[r].entry)
         /\ \A r \in VecSearches : Busy(r) => vecSearch[r] \in VecRun
<1>1. vecLeft.max \in Nat /\ vecUsed \in Nat
  BY DEF VecFrame, VecShape, VecTypes, VecCounts, GoodBooks, VecBookType, Books
<1>2. Books.heap = vecHeap /\ Books.map = vecMap /\ Books.used = vecUsed
  BY DEF Books
<1>3. VecNone \notin DOMAIN vecHeap /\ \A y \in DOMAIN vecHeap : vecHeap[y] \in VecEntry /\ y \in Nat
  BY DEF VecFrame, VecShape, VecTypes, VecNone
<1>4. \A r \in VecSearches : Busy(r) => vecSearch[r] \in VecRun
  BY DEF VecFrame, VecShape, VecTypes, Busy, NoSearch
<1>5. ASSUME NEW r \in VecSearches, Has(r)
      PROVE  /\ vecSearch[r].entry \in DOMAIN vecHeap /\ vecSearch[r].key \in VecKeys
             /\ Free(Books, vecSearch[r].key, vecSearch[r].entry)
  <2>1. vecSearch[r].entry \in DOMAIN vecHeap  BY <1>5 DEF VecFrame, VecShape, VecRefs
  <2>2. vecSearch[r] \in VecRun  BY <1>4, <1>5 DEF Has, Busy
  <2>3. vecSearch[r].key \in VecKeys  BY <2>2 DEF VecRun
  <2>4. Of(vecSearch[r].key, vecSearch[r].entry)  BY <1>5 DEF Of
  <2>5. \A l \in VecKeys : vecMap[l] = vecSearch[r].entry => l = vecSearch[r].key
    BY <2>1, <2>3, <2>4 DEF VecFrame, VecShape, VecHome, Of
  <2> QED BY <2>1, <2>3, <2>5, <1>2 DEF Free
<1> QED BY <1>1, <1>2, <1>3, <1>4, <1>5

\* A search that moves on keeps the others, and the shape of what it does.
LEMMA SearchPut ==
  ASSUME VecTypes, NEW r \in VecSearches, NEW s, s \in VecRun \cup {NoSearch},
         vecSearch' = [vecSearch EXCEPT ![r] = s]
  PROVE  /\ vecSearch' \in [VecSearches -> VecRun \cup {NoSearch}]
         /\ vecSearch'[r] = s /\ \A q \in VecSearches : q # r => vecSearch'[q] = vecSearch[q]
BY DEF VecTypes

\* Search r works on entry xx, nobody's or column kk's, and no other.
Keeps(r, kk, xx) ==
  /\ \A l \in VecKeys : vecMap'[l] \in {vecMap[l], VecNone} \/ (l = kk /\ vecMap'[l] = xx)
  /\ \A q \in VecSearches : q # r => vecSearch'[q] = vecSearch[q]
  /\ Has(r)' => vecSearch'[r].key = kk /\ vecSearch'[r].entry = xx
  /\ xx \in DOMAIN vecHeap => \A l \in VecKeys : Of(l, xx) => l = kk
  /\ DOMAIN vecHeap \subseteq DOMAIN vecHeap'
  /\ xx \in DOMAIN vecHeap' \/ (~Has(r)' /\ xx = VecNone)
  /\ VecNone \notin DOMAIN vecHeap'

\* Who has an entry after a step had it before, or it is a new one.
OfKept ==
  /\ DOMAIN vecHeap \subseteq DOMAIN vecHeap'
  /\ \A l \in VecKeys : \A y \in DOMAIN vecHeap : Of(l, y)' => Of(l, y)
  /\ \A y \in DOMAIN vecHeap' \ DOMAIN vecHeap : vecHeap'[y].fresh

\* Then an entry stays with its column.
LEMMA HomeKept ==
  ASSUME VecFrame, NEW r \in VecSearches, NEW kk, NEW xx, Keeps(r, kk, xx)
  PROVE  /\ VecRefs' /\ VecHome'
         /\ \A l \in VecKeys : \A y \in DOMAIN vecHeap' :
              Of(l, y)' => (y \in DOMAIN vecHeap /\ Of(l, y)) \/ (l = kk /\ y = xx)
<1> USE DEF Keeps
<1>1. VecRefs'
  BY DEF VecFrame, VecShape, VecRefs, Has
<1>2. ASSUME NEW l \in VecKeys, NEW y \in DOMAIN vecHeap', Of(l, y)'
      PROVE  (y \in DOMAIN vecHeap /\ Of(l, y)) \/ (l = kk /\ y = xx)
  <2>1. CASE vecMap'[l] = y
    BY <2>1 DEF VecFrame, VecShape, VecRefs, Of
  <2>2. ASSUME NEW q \in VecSearches, Has(q)', vecSearch'[q].key = l, vecSearch'[q].entry = y
        PROVE  (y \in DOMAIN vecHeap /\ Of(l, y)) \/ (l = kk /\ y = xx)
    <3>1. CASE q = r  BY <2>2, <3>1
    <3>2. CASE q # r
      <4>1. Has(q) /\ vecSearch[q].key = l /\ vecSearch[q].entry = y  BY <2>2, <3>2 DEF Has
      <4> QED BY <4>1 DEF VecFrame, VecShape, VecRefs, Of
    <3> QED BY <3>1, <3>2
  <2> QED BY <1>2, <2>1, <2>2 DEF Of
<1>3. VecHome'
  <2> SUFFICES ASSUME NEW k \in VecKeys, NEW l \in VecKeys, NEW y \in DOMAIN vecHeap',
                      Of(k, y)', Of(l, y)'
               PROVE  k = l
    BY DEF VecHome
  <2>1. (y \in DOMAIN vecHeap /\ Of(k, y)) \/ (k = kk /\ y = xx)  BY <1>2
  <2>2. (y \in DOMAIN vecHeap /\ Of(l, y)) \/ (l = kk /\ y = xx)  BY <1>2
  <2> QED BY <2>1, <2>2 DEF VecFrame, VecShape, VecHome
<1> QED BY <1>1, <1>2, <1>3

\* Restricted rows and rows over others are rows.
LEMMA RowsType ==
  /\ NoRows \in VecRows
  /\ \A f \in VecRows : IsFiniteSet(DOMAIN f) /\ DOMAIN f \subseteq VecIds /\ \A i \in DOMAIN f : f[i] \in Nat
  /\ \A f \in VecRows : \A s : Restrict(f, DOMAIN f \cap s) \in VecRows /\ Restrict(f, DOMAIN f \ s) \in VecRows
  /\ \A f \in VecRows : \A s \in SUBSET DOMAIN f : Restrict(f, s) \in VecRows
  /\ \A f, g \in VecRows : Over(f, g) \in VecRows
<1>1. \A f : f \in VecRows <=> \E d \in SUBSET VecIds : f \in [d -> Nat]  BY DEF VecRows
<1>2. NoRows \in VecRows
  <2>1. NoRows \in [{} -> Nat]  BY DEF NoRows
  <2> QED BY <2>1, <1>1
<1>3. ASSUME NEW f \in VecRows
      PROVE  IsFiniteSet(DOMAIN f) /\ DOMAIN f \subseteq VecIds /\ \A i \in DOMAIN f : f[i] \in Nat
  <2>1. DOMAIN f \subseteq VecIds /\ \A i \in DOMAIN f : f[i] \in Nat  BY <1>1
  <2> QED BY <2>1, FS_Subset, VecAssumption DEF VecAssumption
<1>4. ASSUME NEW f \in VecRows, NEW s \in SUBSET DOMAIN f PROVE Restrict(f, s) \in VecRows
  <2>1. Restrict(f, s) \in [s -> Nat]  BY <1>3 DEF Restrict
  <2>2. s \in SUBSET VecIds  BY <1>3
  <2> QED BY <2>1, <2>2, <1>1
<1>5. ASSUME NEW f \in VecRows, NEW g \in VecRows PROVE Over(f, g) \in VecRows
  <2>1. Over(f, g) \in [DOMAIN f \cup DOMAIN g -> Nat]  BY <1>3 DEF Over
  <2>2. DOMAIN f \cup DOMAIN g \in SUBSET VecIds  BY <1>3
  <2> QED BY <2>1, <2>2, <1>1
<1> QED BY <1>2, <1>3, <1>4, <1>5

\* What the database does to its own state.
VecDbType == [seq : Nat, log : SUBSET VecChange, fp : [VecKeys -> Nat], rows : [VecKeys -> VecRows]]
VecLeftType == [runs : Nat, writes : Nat, trims : Nat, lives : Nat, errors : Nat, max : Nat,
                keys : SUBSET VecKeys]

LEMMA WriteDb ==
  ASSUME VecTypes, NEW k \in VecKeys, NEW i \in VecIds, NEW d \in BOOLEAN, vecWrite(k, i, d)
  PROVE  /\ vecDb' \in VecDbType
         /\ vecDb'.seq = vecDb.seq + 1
         /\ vecDb'.log = vecDb.log \cup {[seq |-> vecDb.seq + 1, key |-> k, id |-> i]}
         /\ vecDb'.fp = vecDb.fp
         /\ \A l \in VecKeys : l # k => vecDb'.rows[l] = vecDb.rows[l]
         /\ \A j \in VecIds : j # i => /\ j \in DOMAIN vecDb'.rows[k] <=> j \in DOMAIN vecDb.rows[k]
                                       /\ j \in DOMAIN vecDb.rows[k] => vecDb'.rows[k][j] = vecDb.rows[k][j]
<1> DEFINE f == vecDb.rows[k]
           s == vecDb.seq + 1
           g == IF d THEN Restrict(f, DOMAIN f \ {i}) ELSE Over([j \in {i} |-> s], f)
<1>t. vecDb \in VecDbType  BY DEF VecTypes, VecDbType
<1>0. vecDb.seq \in Nat /\ vecDb.log \in SUBSET VecChange /\ vecDb.fp \in [VecKeys -> Nat]
      /\ vecDb.rows \in [VecKeys -> VecRows] /\ f \in VecRows /\ s \in Nat
  BY <1>t DEF VecDbType
<1>1. vecDb' = [vecDb EXCEPT !.seq = s, !.log = @ \cup {[seq |-> s, key |-> k, id |-> i]}, !.rows[k] = g]
  BY DEF vecWrite
<1>2. g \in VecRows
  <2>1. [j \in {i} |-> s] \in VecRows
    <3>1. [j \in {i} |-> s] \in [{i} -> Nat] /\ {i} \in SUBSET VecIds  BY <1>0
    <3> QED BY <3>1 DEF VecRows
  <2> QED BY <2>1, <1>0, RowsType
<1>3. \A j \in VecIds : j # i => /\ j \in DOMAIN g <=> j \in DOMAIN f
                                 /\ j \in DOMAIN f => g[j] = f[j]
  BY DEF Restrict, Over
<1> HIDE DEF f, g, s
<1>4. /\ vecDb'.seq = s /\ vecDb'.log = vecDb.log \cup {[seq |-> s, key |-> k, id |-> i]}
      /\ vecDb'.fp = vecDb.fp /\ vecDb'.rows = [vecDb.rows EXCEPT ![k] = g]
      /\ vecDb' = [seq |-> vecDb'.seq, log |-> vecDb'.log, fp |-> vecDb'.fp, rows |-> vecDb'.rows]
  BY <1>1, <1>t DEF VecDbType
<1>5. vecDb'.log \in SUBSET VecChange  BY <1>0, <1>4 DEF VecChange
<1>6. vecDb'.rows \in [VecKeys -> VecRows] /\ vecDb'.rows[k] = g
      /\ \A l \in VecKeys : l # k => vecDb'.rows[l] = vecDb.rows[l]
  BY <1>0, <1>2, <1>4
<1>7. vecDb' \in VecDbType  BY <1>0, <1>4, <1>5, <1>6 DEF VecDbType
<1> QED BY <1>3, <1>4, <1>6, <1>7 DEF f, s

LEMMA TrimDb ==
  ASSUME VecTypes, vecTrim
  PROVE  /\ vecDb' \in VecDbType /\ vecDb'.seq = vecDb.seq /\ vecDb'.fp = vecDb.fp
         /\ vecDb'.rows = vecDb.rows /\ vecDb'.log = {c \in vecDb.log : c.seq = vecDb.seq}
<1>1. vecDb \in VecDbType  BY DEF VecTypes, VecDbType
<1>2. /\ vecDb'.seq = vecDb.seq /\ vecDb'.fp = vecDb.fp /\ vecDb'.rows = vecDb.rows
      /\ vecDb'.log = {c \in vecDb.log : c.seq = vecDb.seq}
      /\ vecDb' = [seq |-> vecDb'.seq, log |-> vecDb'.log, fp |-> vecDb'.fp, rows |-> vecDb'.rows]
  BY <1>1 DEF vecTrim, VecDbType
<1> QED BY <1>1, <1>2 DEF VecDbType

LEMMA NewLifeDb ==
  ASSUME VecTypes, NEW k \in VecKeys, NEW m \in BOOLEAN, vecNewLife(k, m)
  PROVE  /\ vecDb' \in VecDbType /\ vecDb'.seq = vecDb.seq /\ vecDb'.log = vecDb.log
         /\ vecDb'.fp = [vecDb.fp EXCEPT ![k] = @ + 1]
         /\ \A l \in VecKeys : l # k => vecDb'.rows[l] = vecDb.rows[l] /\ vecDb'.fp[l] = vecDb.fp[l]
         /\ vecDb'.fp[k] = vecDb.fp[k] + 1
<1> DEFINE f == vecDb.rows[k]
           g == IF m THEN [i \in DOMAIN f |-> 0] ELSE NoRows
<1>t. vecDb \in VecDbType  BY DEF VecTypes, VecDbType
<1>0. vecDb.seq \in Nat /\ vecDb.log \in SUBSET VecChange /\ vecDb.fp \in [VecKeys -> Nat]
      /\ vecDb.rows \in [VecKeys -> VecRows] /\ f \in VecRows
  BY <1>t DEF VecDbType
<1>1. vecDb' = [vecDb EXCEPT !.fp[k] = @ + 1, !.rows[k] = g]
  BY DEF vecNewLife
<1>2. g \in VecRows
  <2>1. [i \in DOMAIN f |-> 0] \in [DOMAIN f -> Nat] /\ DOMAIN f \in SUBSET VecIds  BY <1>0, RowsType
  <2>2. [i \in DOMAIN f |-> 0] \in VecRows  BY <2>1 DEF VecRows
  <2> QED BY <2>2, RowsType
<1> HIDE DEF f, g
<1>4. /\ vecDb'.seq = vecDb.seq /\ vecDb'.log = vecDb.log
      /\ vecDb'.fp = [vecDb.fp EXCEPT ![k] = @ + 1] /\ vecDb'.rows = [vecDb.rows EXCEPT ![k] = g]
      /\ vecDb' = [seq |-> vecDb'.seq, log |-> vecDb'.log, fp |-> vecDb'.fp, rows |-> vecDb'.rows]
  BY <1>1, <1>t DEF VecDbType
<1>5. vecDb'.fp \in [VecKeys -> Nat] /\ vecDb'.rows \in [VecKeys -> VecRows]
  BY <1>0, <1>2, <1>4
<1>6. vecDb' \in VecDbType  BY <1>0, <1>4, <1>5 DEF VecDbType
<1> QED BY <1>0, <1>4, <1>6

\* A step of the database leaves the cache and the searches alone.
LEMMA DbKeepsFrame ==
  ASSUME VecFrame, vecDb' \in VecDbType, vecLeft' \in VecLeftType, vecLeft'.max = vecLeft.max,
         UNCHANGED <<vecHeap, vecMap, vecUsed, vecTick, vecSearch>>
  PROVE  VecFrame' /\ OfKept
<1>1. VecTypes'  BY DEF VecFrame, VecShape, VecTypes, VecDbType, VecLeftType
<1>2. VecRefs' /\ VecHome' /\ VecLocks'
  BY DEF VecFrame, VecShape, VecRefs, VecHome, Of, Has, VecLocks, Holds, Entry
<1>3. Books' = Books  BY DEF Books
<1>4. GoodBooks(Books') /\ vecUsed' <= vecLeft'.max  BY <1>3 DEF VecFrame, VecCounts
<1>5. OfKept  BY DEF OfKept, Of, Has
<1> QED BY <1>1, <1>2, <1>4, <1>5 DEF VecFrame, VecShape, VecCounts

LEMMA WriteKeepsFrame ==
  ASSUME VecFrame, NEW k \in VecKeys, NEW i \in VecIds, NEW d \in BOOLEAN, vecWrite(k, i, d)
  PROVE  VecFrame' /\ OfKept
<1>1. vecDb' \in VecDbType  BY WriteDb DEF VecFrame, VecShape
<1>2. vecLeft' \in VecLeftType /\ vecLeft'.max = vecLeft.max
  <2>1. vecLeft \in VecLeftType  BY DEF VecFrame, VecShape, VecTypes, VecLeftType
  <2>2. vecLeft' = [vecLeft EXCEPT !.writes = @ - 1] /\ vecLeft.writes > 0  BY DEF vecWrite
  <2> QED BY <2>1, <2>2 DEF VecLeftType
<1> QED BY <1>1, <1>2, DbKeepsFrame DEF vecWrite

LEMMA TrimKeepsFrame ==
  ASSUME VecFrame, vecTrim
  PROVE  VecFrame' /\ OfKept
<1>1. vecDb' \in VecDbType  BY TrimDb DEF VecFrame, VecShape
<1>2. vecLeft' \in VecLeftType /\ vecLeft'.max = vecLeft.max
  <2>1. vecLeft \in VecLeftType  BY DEF VecFrame, VecShape, VecTypes, VecLeftType
  <2>2. vecLeft' = [vecLeft EXCEPT !.trims = @ - 1] /\ vecLeft.trims > 0  BY DEF vecTrim
  <2> QED BY <2>1, <2>2 DEF VecLeftType
<1> QED BY <1>1, <1>2, DbKeepsFrame DEF vecTrim

LEMMA NewLifeKeepsFrame ==
  ASSUME VecFrame, NEW k \in VecKeys, NEW m \in BOOLEAN, vecNewLife(k, m)
  PROVE  VecFrame' /\ OfKept
<1>1. vecDb' \in VecDbType  BY NewLifeDb DEF VecFrame, VecShape
<1>2. vecLeft' \in VecLeftType /\ vecLeft'.max = vecLeft.max
  <2>1. vecLeft \in VecLeftType  BY DEF VecFrame, VecShape, VecTypes, VecLeftType
  <2>2. vecLeft' = [vecLeft EXCEPT !.lives = @ - 1] /\ vecLeft.lives > 0  BY DEF vecNewLife
  <2> QED BY <2>1, <2>2 DEF VecLeftType
<1> QED BY <1>1, <1>2, DbKeepsFrame DEF vecNewLife

\* The pieces of the frame after a step of a search.
LEMMA SearchKeepsFrame ==
  ASSUME VecFrame, UNCHANGED vecDb, vecHeap' \in Seq(VecEntry), vecTick' \in Nat,
         vecSearch' \in [VecSearches -> VecRun \cup {NoSearch}], vecLeft' \in VecLeftType,
         vecLeft'.max = vecLeft.max, VecRefs', VecHome', VecLocks', GoodBooks(Books'),
         vecUsed' <= vecLeft.max
  PROVE  VecFrame'
<1>1. vecMap' \in [VecKeys -> Nat]  BY DEF GoodBooks, VecBookType, Books
<1>2. VecTypes'  BY <1>1 DEF VecFrame, VecShape, VecTypes, VecLeftType
<1> QED BY <1>2 DEF VecFrame, VecShape, VecCounts

\* Locks after a step of search r.
LEMMA LocksKept ==
  ASSUME VecFrame, NEW r \in VecSearches,
         \A q \in VecSearches : q # r => vecSearch'[q] = vecSearch[q],
         \A q \in VecSearches : q # r /\ Holds(q) => vecHeap'[vecSearch[q].entry].lock,
         Holds(r)' => /\ vecHeap'[vecSearch'[r].entry].lock
                      /\ \A q \in VecSearches : q # r /\ Holds(q) => vecSearch[q].entry # vecSearch'[r].entry
  PROVE  VecLocks'
<1>1. \A q \in VecSearches : q # r => (Holds(q)' <=> Holds(q)) /\ vecSearch'[q].entry = vecSearch[q].entry
  BY DEF Holds
<1> QED BY <1>1 DEF VecFrame, VecShape, VecLocks, Entry

\* A step that only moves a search on.
LEMMA MoveKeepsFrame ==
  ASSUME VecFrame, NEW r \in VecSearches, NEW s, s \in VecRun \cup {NoSearch},
         vecSearch' = [vecSearch EXCEPT ![r] = s],
         UNCHANGED <<vecDb, vecHeap, vecMap, vecUsed, vecTick>>,
         vecLeft' \in VecLeftType, vecLeft'.max = vecLeft.max,
         s.at \notin {"account", "remember"},
         s.at \notin {"idle", "entry"} => Has(r) /\ s.key = vecSearch[r].key /\ s.entry = vecSearch[r].entry
  PROVE  VecFrame' /\ OfKept
<1>1. /\ vecSearch' \in [VecSearches -> VecRun \cup {NoSearch}]
      /\ vecSearch'[r] = s /\ \A q \in VecSearches : q # r => vecSearch'[q] = vecSearch[q]
  BY SearchPut DEF VecFrame, VecShape
<1>2. VecNone \notin DOMAIN vecHeap  BY FrameFacts
<1>3. VecRefs' /\ VecHome' /\ OfKept
  <2>1. CASE ~Has(r)'
    <3>1. Keeps(r, VecNone, VecNone)  BY <2>1, <1>1, <1>2 DEF Keeps
    <3> QED BY <3>1, <1>2, HomeKept DEF OfKept
  <2>2. CASE Has(r)'
    <3>1. Has(r) /\ s.key = vecSearch[r].key /\ s.entry = vecSearch[r].entry  BY <2>2, <1>1 DEF Has
    <3>2. vecSearch[r].entry \in DOMAIN vecHeap /\ vecSearch[r].key \in VecKeys  BY <3>1, FrameFacts
    <3>3. \A l \in VecKeys : Of(l, vecSearch[r].entry) => l = vecSearch[r].key
      BY <3>1, <3>2 DEF VecFrame, VecShape, VecHome, Of
    <3>4. Keeps(r, vecSearch[r].key, vecSearch[r].entry)  BY <3>1, <3>2, <3>3, <1>1, <1>2 DEF Keeps
    <3>5. Of(vecSearch[r].key, vecSearch[r].entry)  BY <3>1 DEF Of
    <3> QED BY <3>4, <3>5, HomeKept DEF OfKept
  <2> QED BY <2>1, <2>2
<1>4. VecLocks'
  <2>1. \A q \in VecSearches : q # r /\ Holds(q) => vecHeap'[vecSearch[q].entry].lock
    BY DEF VecFrame, VecShape, VecLocks, Entry
  <2>2. ~Holds(r)'  BY <1>1 DEF Holds
  <2> QED BY <1>1, <2>1, <2>2, LocksKept
<1>5. Books' = Books  BY DEF Books
<1>6. GoodBooks(Books') /\ vecUsed' <= vecLeft.max  BY <1>5 DEF VecFrame, VecCounts
<1>7. vecHeap' \in Seq(VecEntry) /\ vecTick' \in Nat  BY DEF VecFrame, VecShape, VecTypes
<1> QED BY <1>1, <1>3, <1>4, <1>6, <1>7, SearchKeepsFrame

LEMMA BeginKeepsFrame ==
  ASSUME VecFrame, NEW r \in VecSearches, NEW k \in VecKeys, vecBegin(r, k)
  PROVE  VecFrame' /\ OfKept
<1> DEFINE s == [at |-> "entry", key |-> k, head |-> vecDb.seq, fp |-> vecDb.fp[k], rows |-> vecDb.rows[k],
                 log |-> vecDb.log, entry |-> VecNone, fits |-> TRUE, hits |-> NoRows]
<1>1. vecDb.seq \in Nat /\ vecDb.fp[k] \in Nat /\ vecDb.rows[k] \in VecRows /\ vecDb.log \in SUBSET VecChange
  BY DEF VecFrame, VecShape, VecTypes
<1>2. s \in VecRun /\ s.at = "entry"
  BY <1>1, RowsType DEF VecRun, VecBusy, VecNone
<1>3. vecLeft' \in VecLeftType /\ vecLeft'.max = vecLeft.max
  <2>1. vecLeft \in VecLeftType  BY DEF VecFrame, VecShape, VecTypes, VecLeftType
  <2>2. vecLeft' = [vecLeft EXCEPT !.runs = @ - 1] /\ vecLeft.runs > 0  BY DEF vecBegin
  <2> QED BY <2>1, <2>2 DEF VecLeftType
<1>4. vecSearch' = [vecSearch EXCEPT ![r] = s] /\ UNCHANGED <<vecDb, vecHeap, vecMap, vecUsed, vecTick>>
  BY DEF vecBegin
<1> HIDE DEF s
<1> QED BY <1>2, <1>3, <1>4, MoveKeepsFrame

LEMMA EndKeepsFrame ==
  ASSUME VecFrame, NEW r \in VecSearches, vecSearch' = [vecSearch EXCEPT ![r] = NoSearch],
         UNCHANGED <<vecDb, vecHeap, vecMap, vecUsed, vecTick, vecLeft>>
  PROVE  VecFrame' /\ OfKept
<1>1. vecLeft' \in VecLeftType /\ vecLeft'.max = vecLeft.max
  BY DEF VecFrame, VecShape, VecTypes, VecLeftType
<1>2. NoSearch.at = "idle"  BY DEF NoSearch
<1> QED BY <1>1, <1>2, MoveKeepsFrame

LEMMA ScoreKeepsFrame ==
  ASSUME VecFrame, NEW r \in VecSearches, score(r)
  PROVE  VecFrame' /\ OfKept
<1>1. CASE ~StillThere(r)
  <2>1. vecSearch' = [vecSearch EXCEPT ![r] = NoSearch]  BY <1>1 DEF score
  <2> QED BY <2>1, EndKeepsFrame DEF score
<1>2. CASE StillThere(r)
  <2> DEFINE s == [vecSearch[r] EXCEPT !.at = "answer", !.hits = Entry(r).rows]
  <2>1. vecSearch' = [vecSearch EXCEPT ![r] = s]  BY <1>2 DEF score
  <2>2. Has(r) /\ vecSearch[r] \in VecRun /\ Entry(r) \in VecEntry
    BY FrameFacts DEF score, Doing, Has, Busy, Entry
  <2>3. s \in VecRun /\ s.at = "answer" /\ s.key = vecSearch[r].key /\ s.entry = vecSearch[r].entry
    BY <2>2 DEF VecRun, VecBusy, VecEntry
  <2>4. vecLeft' \in VecLeftType /\ vecLeft'.max = vecLeft.max
    BY DEF VecFrame, VecShape, VecTypes, VecLeftType, score
  <2>5. UNCHANGED <<vecDb, vecHeap, vecMap, vecUsed, vecTick>>  BY DEF score
  <2> HIDE DEF s
  <2> QED BY <2>1, <2>2, <2>3, <2>4, <2>5, MoveKeepsFrame
<1> QED BY <1>1, <1>2

\* A step of search r, that goes on as s, on its own entry x.
Works(r, s, x) ==
  /\ Has(r) /\ x = vecSearch[r].entry
  /\ s \in VecRun \cup {NoSearch} /\ vecSearch' = [vecSearch EXCEPT ![r] = s]
  /\ s.at # "idle" => s.key = vecSearch[r].key /\ s.entry = x
  /\ UNCHANGED <<vecDb, vecTick>> /\ vecLeft' \in VecLeftType /\ vecLeft'.max = vecLeft.max
  /\ vecHeap' \in Seq(VecEntry) /\ DOMAIN vecHeap' = DOMAIN vecHeap
  /\ \A l \in VecKeys : vecMap'[l] \in {vecMap[l], VecNone} \/ (l = vecSearch[r].key /\ vecMap'[l] = x)
  /\ GoodBooks(Books') /\ vecUsed' <= vecLeft.max
  /\ \A y \in DOMAIN vecHeap : y # x => vecHeap'[y].lock = vecHeap[y].lock
  /\ s.at \in {"account", "remember"} => vecHeap'[x].lock /\ (Holds(r) \/ ~vecHeap[x].lock)
  /\ Holds(r) \/ ~vecHeap[x].lock \/ vecHeap'[x].lock = vecHeap[x].lock

LEMMA WorkKeepsFrame ==
  ASSUME VecFrame, NEW r \in VecSearches, NEW s, NEW x, Works(r, s, x)
  PROVE  VecFrame' /\ OfKept
<1> USE DEF Works
<1>1. /\ vecSearch' \in [VecSearches -> VecRun \cup {NoSearch}]
      /\ vecSearch'[r] = s /\ \A q \in VecSearches : q # r => vecSearch'[q] = vecSearch[q]
  BY SearchPut DEF VecFrame, VecShape
<1>2. VecNone \notin DOMAIN vecHeap /\ x \in DOMAIN vecHeap /\ vecSearch[r].key \in VecKeys  BY FrameFacts
<1>3. VecRefs' /\ VecHome' /\ OfKept
  <2>1. \A l \in VecKeys : Of(l, x) => l = vecSearch[r].key
    BY <1>2 DEF VecFrame, VecShape, VecHome, Of
  <2>2. Has(r)' => vecSearch'[r].key = vecSearch[r].key /\ vecSearch'[r].entry = x  BY <1>1 DEF Has
  <2>3. DOMAIN vecHeap \subseteq DOMAIN vecHeap' /\ x \in DOMAIN vecHeap' /\ VecNone \notin DOMAIN vecHeap'
    BY <1>2
  <2>4. \A q \in VecSearches : q # r => vecSearch'[q] = vecSearch[q]  BY <1>1
  <2>5. Keeps(r, vecSearch[r].key, x)  BY <2>1, <2>2, <2>3, <2>4 DEF Keeps
  <2>6. Of(vecSearch[r].key, x)  BY DEF Of
  <2> QED BY <2>5, <2>6, HomeKept DEF OfKept
<1>4. VecLocks'
  <2>1. \A q \in VecSearches : Holds(q) => vecHeap[vecSearch[q].entry].lock /\ vecSearch[q].entry \in DOMAIN vecHeap
    BY DEF VecFrame, VecShape, VecLocks, Entry, VecRefs, Holds, Has
  <2>2. \A q \in VecSearches : q # r /\ Holds(q) /\ Holds(r) => vecSearch[q].entry # x
    BY DEF VecFrame, VecShape, VecLocks
  <2>3. \A q \in VecSearches : q # r /\ Holds(q) => vecHeap'[vecSearch[q].entry].lock
    BY <2>1, <2>2
  <2>4. Holds(r)' => /\ vecHeap'[vecSearch'[r].entry].lock
                     /\ \A q \in VecSearches : q # r /\ Holds(q) => vecSearch[q].entry # vecSearch'[r].entry
    BY <2>1, <2>2, <1>1 DEF Holds
  <2> QED BY <1>1, <2>3, <2>4, LocksKept
<1>5. vecTick' \in Nat  BY DEF VecFrame, VecShape, VecTypes
<1> QED BY <1>1, <1>3, <1>4, <1>5, SearchKeepsFrame

\* Working on an entry's contents leaves the books as they were.
LEMMA SameBooks ==
  ASSUME VecFrame, NEW x \in DOMAIN vecHeap, NEW e, e \in VecEntry, e.bytes = vecHeap[x].bytes,
         vecHeap' = [vecHeap EXCEPT ![x] = e], UNCHANGED <<vecMap, vecUsed>>
  PROVE  /\ vecHeap' \in Seq(VecEntry) /\ DOMAIN vecHeap' = DOMAIN vecHeap /\ GoodBooks(Books')
         /\ vecHeap'[x] = e /\ \A y \in DOMAIN vecHeap : y # x => vecHeap'[y] = vecHeap[y]
<1>1. vecHeap \in Seq(VecEntry)  BY DEF VecFrame, VecShape, VecTypes
<1>2. vecHeap' \in Seq(VecEntry) /\ DOMAIN vecHeap' = DOMAIN vecHeap
      /\ vecHeap'[x] = e /\ \A y \in DOMAIN vecHeap : y # x => vecHeap'[y] = vecHeap[y]
  BY <1>1, HeapPut
<1>3. Books'.heap = vecHeap' /\ Books'.map = vecMap /\ Books'.used = vecUsed /\ Books.heap = vecHeap
      /\ Books.map = vecMap /\ Books.used = vecUsed
  BY DEF Books
<1>4. Books' \in VecBookType
  <2>1. vecMap \in [VecKeys -> Nat] /\ vecUsed \in Nat
    BY DEF VecFrame, VecCounts, GoodBooks, VecBookType, Books
  <2> QED BY <2>1, <1>2 DEF Books, VecBookType
<1>5. GoodBooks(Books)  BY DEF VecFrame, VecCounts
<1>6. \A y \in DOMAIN vecHeap : vecHeap'[y].bytes = vecHeap[y].bytes  BY <1>2
<1> HIDE DEF Books
<1>7. GoodBooks(Books')
  BY <1>2, <1>3, <1>4, <1>5, <1>6, SameBytesKeepBooks
<1> QED BY <1>2, <1>7

\* What filling makes of an entry.
LEMMA FilledType ==
  ASSUME NEW r \in VecSearches, vecSearch[r] \in VecRun, NEW e, e \in VecEntry
  PROVE  /\ Filled(r, e) \in VecEntry /\ Filled(r, e).bytes = e.bytes
         /\ catchUp(r, e).rows \in VecRows
<1>1. e.rows \in VecRows /\ vecSearch[r].rows \in VecRows /\ vecSearch[r].head \in Nat /\ vecSearch[r].fp \in Nat
  BY DEF VecEntry, VecRun
<1>2. catchUp(r, e).rows \in VecRows /\ catchUp(r, e) \in VecEntry /\ catchUp(r, e).bytes = e.bytes
  <2> DEFINE t == ChangedIds(r, e)
             now == Restrict(vecSearch[r].rows, DOMAIN vecSearch[r].rows \cap t)
             new == Over(now, Restrict(e.rows, DOMAIN e.rows \ t))
  <2>1. catchUp(r, e) = [e EXCEPT !.rows = new, !.seq = vecSearch[r].head]
    BY DEF catchUp
  <2>2. new \in VecRows  BY <1>1, RowsType
  <2> HIDE DEF new
  <2> QED BY <2>1, <2>2, <1>1 DEF VecEntry
<1>3. rebuild(r, e) \in VecEntry /\ rebuild(r, e).bytes = e.bytes
  BY <1>1 DEF rebuild, VecEntry
<1> QED BY <1>2, <1>3 DEF Filled

LEMMA FillKeepsFrame ==
  ASSUME VecFrame, NEW r \in VecSearches, vecFill(r)
  PROVE  /\ VecFrame' /\ OfKept /\ DOMAIN vecHeap' = DOMAIN vecHeap
         /\ vecHeap'[vecSearch[r].entry] = [Filled(r, Entry(r)) EXCEPT !.tooBig = FALSE, !.lock = TRUE]
         /\ \A y \in DOMAIN vecHeap : y # vecSearch[r].entry => vecHeap'[y] = vecHeap[y]
<1> DEFINE x == vecSearch[r].entry
           e == [Filled(r, Entry(r)) EXCEPT !.tooBig = FALSE, !.lock = TRUE]
           fits == Reads(r, Entry(r)) => Cardinality(DOMAIN vecSearch[r].rows) <= vecLeft.max
           s == [vecSearch[r] EXCEPT !.at = "account", !.fits = fits]
<1>1. Has(r) /\ vecSearch[r] \in VecRun /\ x \in DOMAIN vecHeap /\ Entry(r) \in VecEntry
  BY FrameFacts DEF vecFill, Doing, Has, Busy, Entry
<1>2. e \in VecEntry /\ e.bytes = vecHeap[x].bytes /\ e.lock = TRUE
  <2>1. Filled(r, Entry(r)) \in VecEntry /\ Filled(r, Entry(r)).bytes = vecHeap[x].bytes
    BY <1>1, FilledType DEF Entry
  <2> QED BY <2>1 DEF VecEntry
<1>3. vecHeap' = [vecHeap EXCEPT ![x] = e] /\ UNCHANGED <<vecMap, vecUsed>> /\ ~vecHeap[x].lock
  BY DEF vecFill, Entry
<1>4. vecSearch' = [vecSearch EXCEPT ![r] = s]
  BY <1>1 DEF vecFill
<1>f. fits \in BOOLEAN  OBVIOUS
<1> HIDE DEF e, fits
<1>5. s \in VecRun /\ s.at = "account" /\ s.key = vecSearch[r].key /\ s.entry = x
  BY <1>1, <1>f DEF VecRun, VecBusy
<1> HIDE DEF s
<1>6. /\ vecHeap' \in Seq(VecEntry) /\ DOMAIN vecHeap' = DOMAIN vecHeap /\ GoodBooks(Books')
      /\ vecHeap'[x] = e /\ \A y \in DOMAIN vecHeap : y # x => vecHeap'[y] = vecHeap[y]
  BY <1>1, <1>2, <1>3, SameBooks
<1>7. vecLeft' \in VecLeftType /\ vecLeft'.max = vecLeft.max /\ UNCHANGED <<vecDb, vecTick>>
  BY DEF VecFrame, VecShape, VecTypes, VecLeftType, vecFill
<1>8. vecUsed' <= vecLeft.max  BY <1>3 DEF VecFrame, VecCounts
<1>9. \A l \in VecKeys : vecMap'[l] \in {vecMap[l], VecNone}  BY <1>3
<1>z. Works(r, s, x)  BY <1>1, <1>2, <1>3, <1>4, <1>5, <1>6, <1>7, <1>8, <1>9 DEF Works
<1>y. VecFrame' /\ OfKept  BY <1>z, WorkKeepsFrame
<1> QED BY <1>y, <1>6 DEF e

LEMMA FillFailsKeepsFrame ==
  ASSUME VecFrame, NEW r \in VecSearches, vecFillFails(r)
  PROVE  VecFrame' /\ OfKept
<1> DEFINE x == vecSearch[r].entry
           s == [vecSearch[r] EXCEPT !.at = "drop"]
<1>1. Has(r) /\ vecSearch[r] \in VecRun /\ x \in DOMAIN vecHeap /\ Entry(r) \in VecEntry
  BY FrameFacts DEF vecFillFails, Doing, Has, Busy, Entry
<1>2. PICK rows \in TornRows(r, Entry(r)) : vecHeap' = [vecHeap EXCEPT ![x].rows = rows, ![x].tooBig = FALSE]
  BY DEF vecFillFails
<1>3. rows \in VecRows
  <2>1. Entry(r).rows \in VecRows /\ vecSearch[r].rows \in VecRows  BY <1>1 DEF VecEntry, VecRun
  <2> QED BY <2>1, <1>1, <1>2, FilledType, RowsType DEF TornRows
<1> DEFINE e == [vecHeap[x] EXCEPT !.rows = rows, !.tooBig = FALSE]
<1>4. e \in VecEntry /\ e.bytes = vecHeap[x].bytes /\ e.lock = vecHeap[x].lock
  BY <1>1, <1>3 DEF VecEntry, Entry
<1>5. vecHeap' = [vecHeap EXCEPT ![x] = e] /\ UNCHANGED <<vecMap, vecUsed>>
  BY <1>1, <1>2 DEF vecFillFails
<1>6. vecSearch' = [vecSearch EXCEPT ![r] = s]  BY <1>1 DEF vecFillFails
<1> HIDE DEF e
<1>7. s \in VecRun /\ s.at = "drop" /\ s.key = vecSearch[r].key /\ s.entry = x
  BY <1>1 DEF VecRun, VecBusy
<1> HIDE DEF s
<1>8. /\ vecHeap' \in Seq(VecEntry) /\ DOMAIN vecHeap' = DOMAIN vecHeap /\ GoodBooks(Books')
      /\ vecHeap'[x] = e /\ \A y \in DOMAIN vecHeap : y # x => vecHeap'[y] = vecHeap[y]
  BY <1>1, <1>4, <1>5, SameBooks
<1>9. vecLeft' \in VecLeftType /\ vecLeft'.max = vecLeft.max
  <2>1. vecLeft \in VecLeftType  BY DEF VecFrame, VecShape, VecTypes, VecLeftType
  <2>2. vecLeft' = [vecLeft EXCEPT !.errors = @ - 1] /\ vecLeft.errors > 0  BY DEF vecFillFails
  <2> QED BY <2>1, <2>2 DEF VecLeftType
<1>10. vecUsed' <= vecLeft.max /\ UNCHANGED <<vecDb, vecTick>>  BY DEF VecFrame, VecCounts, vecFillFails
<1>11. \A l \in VecKeys : vecMap'[l] \in {vecMap[l], VecNone}  BY <1>5
<1>z. Works(r, s, x)  BY <1>1, <1>4, <1>5, <1>6, <1>7, <1>8, <1>9, <1>10, <1>11 DEF Works
<1> QED BY <1>z, WorkKeepsFrame

\* Books c, with entry x of the heap replaced by one of the same size.
LEMMA BooksAfter ==
  ASSUME NEW c, GoodBooks(c), NEW x, x \in DOMAIN c.heap, NEW e, e \in VecEntry, e.bytes = c.heap[x].bytes,
         vecHeap' = [c.heap EXCEPT ![x] = e], vecMap' = c.map, vecUsed' = c.used
  PROVE  /\ vecHeap' \in Seq(VecEntry) /\ DOMAIN vecHeap' = DOMAIN c.heap /\ GoodBooks(Books')
         /\ vecHeap'[x] = e /\ \A y \in DOMAIN c.heap : y # x => vecHeap'[y] = c.heap[y]
<1>1. c.heap \in Seq(VecEntry) /\ c.map \in [VecKeys -> Nat] /\ c.used \in Nat
  BY DEF GoodBooks, VecBookType
<1>2. vecHeap' \in Seq(VecEntry) /\ DOMAIN vecHeap' = DOMAIN c.heap
      /\ vecHeap'[x] = e /\ \A y \in DOMAIN c.heap : y # x => vecHeap'[y] = c.heap[y]
  BY <1>1, HeapPut
<1>3. Books'.heap = vecHeap' /\ Books'.map = c.map /\ Books'.used = c.used  BY DEF Books
<1>4. Books' \in VecBookType  BY <1>1, <1>2 DEF Books, VecBookType
<1>5. \A y \in DOMAIN c.heap : vecHeap'[y].bytes = c.heap[y].bytes  BY <1>2
<1>6. GoodBooks(Books')
  BY <1>2, <1>3, <1>4, <1>5, SameBytesKeepBooks
<1> QED BY <1>2, <1>6

LEMMA FailedKeepsFrame ==
  ASSUME VecFrame, NEW r \in VecSearches, vecFailed(r)
  PROVE  /\ VecFrame' /\ OfKept /\ DOMAIN vecHeap' = DOMAIN vecHeap
         /\ \A y \in DOMAIN vecHeap : SameView(vecHeap[y], vecHeap'[y])
<1> DEFINE x == vecSearch[r].entry
           k == vecSearch[r].key
<1>1. Has(r) /\ x \in DOMAIN vecHeap /\ k \in VecKeys /\ Books.heap = vecHeap /\ Books.map = vecMap
      /\ Books.used = vecUsed /\ vecUsed \in Nat /\ vecLeft.max \in Nat
  BY FrameFacts DEF vecFailed, Doing, Has
<1>2. PICK c : c = vecDrop(Books, k, x)  OBVIOUS
<1>3. vecHeap' = c.heap /\ vecMap' = c.map /\ vecUsed' = c.used /\ UNCHANGED <<vecDb, vecTick, vecLeft>>
      /\ vecSearch' = [vecSearch EXCEPT ![r] = NoSearch]
  BY <1>2 DEF vecFailed, SetBooks
<1>4. /\ GoodBooks(c) /\ OnlyBytes(vecHeap, c.heap) /\ c.used <= vecUsed
      /\ c.map \in {vecMap, [vecMap EXCEPT ![k] = VecNone]}
  <2>1. GoodBooks(Books)  BY DEF VecFrame, VecCounts
  <2> HIDE DEF x, k, Books
  <2> QED BY <1>1, <1>2, <2>1, DropKeepsBooks
<1>5. GoodBooks(Books') /\ vecHeap' \in Seq(VecEntry) /\ vecUsed' \in Nat
  <2>1. c = [heap |-> c.heap, map |-> c.map, used |-> c.used]  BY <1>4 DEF GoodBooks, VecBookType
  <2>2. Books' = c  BY <1>3, <2>1 DEF Books
  <2> QED BY <2>2, <1>3, <1>4 DEF GoodBooks, VecBookType
<1>6. vecUsed' <= vecLeft.max
  <2>1. vecUsed <= vecLeft.max  BY DEF VecFrame, VecCounts
  <2> QED BY <2>1, <1>1, <1>3, <1>4, <1>5
<1>7. \A l \in VecKeys : vecMap'[l] \in {vecMap[l], VecNone}
  <2>1. vecMap \in [VecKeys -> Nat]  BY DEF VecFrame, VecShape, VecTypes
  <2> QED BY <2>1, <1>3, <1>4
<1>8. DOMAIN vecHeap' = DOMAIN vecHeap /\ \A y \in DOMAIN vecHeap : vecHeap'[y].lock = vecHeap[y].lock
  BY <1>3, <1>4 DEF OnlyBytes
<1>9. vecLeft' \in VecLeftType /\ vecLeft'.max = vecLeft.max
  BY <1>3 DEF VecFrame, VecShape, VecTypes, VecLeftType
<1>10. NoSearch.at = "idle"  BY DEF NoSearch
<1>z. Works(r, NoSearch, x)  BY <1>1, <1>3, <1>5, <1>6, <1>7, <1>8, <1>9, <1>10 DEF Works
<1>y. VecFrame' /\ OfKept  BY <1>z, WorkKeepsFrame
<1>v. \A y \in DOMAIN vecHeap : SameView(vecHeap[y], vecHeap'[y])  BY <1>3, <1>4 DEF OnlyBytes, SameView
<1> QED BY <1>y, <1>v, <1>8

\* What vecAccount makes of the books.
LEMMA AccountBooks ==
  ASSUME VecFrame, NEW r \in VecSearches, Has(r), NEW k, k = vecSearch[r].key, NEW x, x = vecSearch[r].entry,
         NEW c, c = IF vecSearch[r].fits THEN account(Books, k, x) ELSE vecDrop(Books, k, x)
  PROVE  /\ GoodBooks(c) /\ OnlyBytes(vecHeap, c.heap) /\ c.used <= vecLeft.max
         /\ c.map[k] \in {vecMap[k], x, VecNone}
         /\ \A l \in VecKeys : l # k => c.map[l] \in {vecMap[l], VecNone}
<1>1. /\ x \in DOMAIN vecHeap /\ k \in VecKeys /\ Books.heap = vecHeap /\ Books.map = vecMap
      /\ Books.used = vecUsed /\ vecUsed \in Nat /\ vecLeft.max \in Nat /\ Free(Books, k, x)
      /\ vecHeap[x] \in VecEntry
  BY FrameFacts
<1>2. GoodBooks(Books) /\ vecUsed <= vecLeft.max  BY DEF VecFrame, VecCounts
<1> HIDE DEF Books
<1>3. CASE vecSearch[r].fits
  <2>1. c = account(Books, k, x)  BY <1>3
  <2>2. IsFiniteSet(DOMAIN vecHeap[x].rows)
    <3>1. vecHeap[x].rows \in VecRows  BY <1>1 DEF VecEntry
    <3> QED BY <3>1, RowsType
  <2>3. /\ GoodBooks(c) /\ OnlyBytes(Books.heap, c.heap) /\ c.used <= vecLeft.max
        /\ c.map[k] \in {x, VecNone}
        /\ \A l \in VecKeys \ {k} : c.map[l] \in {Books.map[l], VecNone}
    BY <2>1, <2>2, <1>1, <1>2, AccountKeepsBooks
  <2> QED BY <2>3, <1>1
<1>4. CASE ~vecSearch[r].fits
  <2>1. c = vecDrop(Books, k, x)  BY <1>4
  <2>2. /\ GoodBooks(c) /\ OnlyBytes(Books.heap, c.heap) /\ c.used <= Books.used
        /\ c.map \in {Books.map, [Books.map EXCEPT ![k] = VecNone]}
    BY <2>1, <1>1, <1>2, DropKeepsBooks
  <2>3. c.used \in Nat  BY <2>2 DEF GoodBooks, VecBookType
  <2>4. c.used <= vecLeft.max  BY <2>2, <2>3, <1>1, <1>2
  <2>5. vecMap \in [VecKeys -> Nat]  BY DEF VecFrame, VecShape, VecTypes
  <2> QED BY <2>2, <2>4, <2>5, <1>1
<1> QED BY <1>3, <1>4

LEMMA AccountKeepsFrame ==
  ASSUME VecFrame, NEW r \in VecSearches, vecAccount(r)
  PROVE  /\ VecFrame' /\ OfKept /\ DOMAIN vecHeap' = DOMAIN vecHeap
         /\ \A y \in DOMAIN vecHeap : SameView(vecHeap[y], vecHeap'[y])
<1>k. PICK k : k = vecSearch[r].key  OBVIOUS
<1>x. PICK x : x = vecSearch[r].entry  OBVIOUS
<1>c. PICK c : c = IF vecSearch[r].fits THEN account(Books, k, x) ELSE vecDrop(Books, k, x)  OBVIOUS
<1> DEFINE kept == size(Entry(r)) <= vecLeft.max
<1>p. kept \in BOOLEAN  OBVIOUS
<1>1. Has(r) /\ Holds(r) /\ x \in DOMAIN vecHeap /\ k \in VecKeys /\ vecSearch[r] \in VecRun
  BY <1>k, <1>x, FrameFacts DEF vecAccount, Doing, Has, Holds, Busy
<1>2. /\ GoodBooks(c) /\ OnlyBytes(vecHeap, c.heap) /\ c.used <= vecLeft.max
      /\ c.map[k] \in {vecMap[k], x, VecNone}
      /\ \A l \in VecKeys : l # k => c.map[l] \in {vecMap[l], VecNone}
  BY <1>1, <1>k, <1>x, <1>c, AccountBooks
<1>3. /\ vecHeap' = [c.heap EXCEPT ![x].lock = ~kept] /\ vecMap' = c.map /\ vecUsed' = c.used
      /\ vecSearch' = [vecSearch EXCEPT ![r].at = IF kept THEN "score" ELSE "remember"]
      /\ UNCHANGED <<vecDb, vecTick, vecLeft>>
  BY <1>k, <1>x, <1>c DEF vecAccount
<1> HIDE DEF kept
<1> DEFINE e == [c.heap[x] EXCEPT !.lock = ~kept]
           s == [vecSearch[r] EXCEPT !.at = IF kept THEN "score" ELSE "remember"]
<1>4. x \in DOMAIN c.heap /\ c.heap[x] \in VecEntry  BY <1>1, <1>2 DEF OnlyBytes, GoodBooks, VecBookType
<1>5. e \in VecEntry /\ e.bytes = c.heap[x].bytes /\ e.lock = ~kept /\ SameView(c.heap[x], e)
  BY <1>4, <1>p DEF VecEntry, SameView
<1>6. vecHeap' = [c.heap EXCEPT ![x] = e]  BY <1>3, <1>4
<1>7. vecSearch' = [vecSearch EXCEPT ![r] = s]  BY <1>3, <1>1
<1>8. s \in VecRun /\ s.at = (IF kept THEN "score" ELSE "remember") /\ s.key = k /\ s.entry = x
  BY <1>1, <1>k, <1>x, <1>p DEF VecRun, VecBusy
<1> HIDE DEF e, s
<1>9. /\ vecHeap' \in Seq(VecEntry) /\ DOMAIN vecHeap' = DOMAIN c.heap /\ GoodBooks(Books')
      /\ vecHeap'[x] = e /\ \A y \in DOMAIN c.heap : y # x => vecHeap'[y] = c.heap[y]
  BY <1>2, <1>3, <1>4, <1>5, <1>6, BooksAfter
<1>10. DOMAIN vecHeap' = DOMAIN vecHeap /\ \A y \in DOMAIN vecHeap : y # x => vecHeap'[y].lock = vecHeap[y].lock
  BY <1>2, <1>9 DEF OnlyBytes
<1>11. vecLeft' \in VecLeftType /\ vecLeft'.max = vecLeft.max /\ vecUsed' <= vecLeft.max
  BY <1>2, <1>3 DEF VecFrame, VecShape, VecTypes, VecLeftType
<1>12. \A l \in VecKeys : vecMap'[l] \in {vecMap[l], VecNone} \/ (l = vecSearch[r].key /\ vecMap'[l] = x)
  BY <1>2, <1>3, <1>k
<1>13. s.at \in {"account", "remember"} => vecHeap'[x].lock  BY <1>5, <1>8, <1>9
<1>14. s \in VecRun \cup {NoSearch} /\ (s.at # "idle" => s.key = vecSearch[r].key /\ s.entry = x)
       /\ UNCHANGED <<vecDb, vecTick>>
  BY <1>8, <1>k, <1>3
<1>z. Works(r, s, x)  BY <1>1, <1>x, <1>7, <1>9, <1>10, <1>11, <1>12, <1>13, <1>14 DEF Works
<1>y. VecFrame' /\ OfKept  BY <1>z, WorkKeepsFrame
<1>v. \A y \in DOMAIN vecHeap : SameView(vecHeap[y], vecHeap'[y])
  BY <1>2, <1>5, <1>9 DEF OnlyBytes, SameView
<1> QED BY <1>y, <1>v, <1>10

LEMMA RememberKeepsFrame ==
  ASSUME VecFrame, NEW r \in VecSearches, remember(r)
  PROVE  /\ VecFrame' /\ OfKept /\ DOMAIN vecHeap' = DOMAIN vecHeap
         /\ \A y \in DOMAIN vecHeap : y # vecSearch[r].entry => SameView(vecHeap[y], vecHeap'[y])
         /\ vecHeap'[vecSearch[r].entry].tooBig /\ vecHeap'[vecSearch[r].entry].fp = vecSearch[r].fp
         /\ vecHeap'[vecSearch[r].entry].seq = vecSearch[r].head
         /\ vecHeap'[vecSearch[r].entry].fresh = Entry(r).fresh
<1>k. PICK k : k = vecSearch[r].key  OBVIOUS
<1>x. PICK x : x = vecSearch[r].entry  OBVIOUS
<1>c. PICK c : c = claim(Books, k, x)  OBVIOUS
<1>1. /\ Has(r) /\ Holds(r) /\ x \in DOMAIN vecHeap /\ k \in VecKeys /\ vecSearch[r] \in VecRun
      /\ Free(Books, k, x) /\ Books.heap = vecHeap /\ Books.map = vecMap /\ Books.used = vecUsed
      /\ vecUsed \in Nat /\ vecLeft.max \in Nat
  BY <1>k, <1>x, FrameFacts DEF remember, Doing, Has, Holds, Busy
<1>2. GoodBooks(Books) /\ vecUsed <= vecLeft.max  BY DEF VecFrame, VecCounts
<1>3. /\ GoodBooks(c) /\ OnlyBytes(vecHeap, c.heap) /\ c.used <= vecUsed /\ c.map = [vecMap EXCEPT ![k] = x]
  <2> HIDE DEF Books
  <2> QED BY <1>1, <1>2, <1>c, ClaimKeepsBooks
<1> DEFINE e == [c.heap[x] EXCEPT !.tooBig = TRUE, !.fp = vecSearch[r].fp, !.seq = vecSearch[r].head,
                                  !.rows = NoRows, !.lock = FALSE]
<1>4. /\ vecHeap' = [c.heap EXCEPT ![x] = e] /\ vecMap' = c.map /\ vecUsed' = c.used
      /\ vecSearch' = [vecSearch EXCEPT ![r] = NoSearch] /\ UNCHANGED <<vecDb, vecTick, vecLeft>>
  BY <1>k, <1>x, <1>c DEF remember
<1>5. x \in DOMAIN c.heap /\ c.heap[x] \in VecEntry  BY <1>1, <1>3 DEF OnlyBytes, GoodBooks, VecBookType
<1>6. /\ e \in VecEntry /\ e.bytes = c.heap[x].bytes
      /\ e.tooBig /\ e.fp = vecSearch[r].fp /\ e.seq = vecSearch[r].head /\ e.fresh = c.heap[x].fresh
  BY <1>1, <1>5, RowsType DEF VecEntry, VecRun
<1> HIDE DEF e
<1>7. /\ vecHeap' \in Seq(VecEntry) /\ DOMAIN vecHeap' = DOMAIN c.heap /\ GoodBooks(Books')
      /\ vecHeap'[x] = e /\ \A y \in DOMAIN c.heap : y # x => vecHeap'[y] = c.heap[y]
  BY <1>3, <1>4, <1>5, <1>6, BooksAfter
<1>8. DOMAIN vecHeap' = DOMAIN vecHeap /\ \A y \in DOMAIN vecHeap : y # x => vecHeap'[y].lock = vecHeap[y].lock
  BY <1>3, <1>7 DEF OnlyBytes
<1>9. vecUsed' <= vecLeft.max
  <2>1. c.used \in Nat  BY <1>3 DEF GoodBooks, VecBookType
  <2> QED BY <2>1, <1>1, <1>2, <1>3, <1>4
<1>10. vecLeft' \in VecLeftType /\ vecLeft'.max = vecLeft.max
  BY <1>4 DEF VecFrame, VecShape, VecTypes, VecLeftType
<1>11. \A l \in VecKeys : vecMap'[l] \in {vecMap[l], VecNone} \/ (l = vecSearch[r].key /\ vecMap'[l] = x)
  <2>1. vecMap \in [VecKeys -> Nat]  BY DEF VecFrame, VecShape, VecTypes
  <2> QED BY <2>1, <1>1, <1>3, <1>4, <1>k
<1>12. NoSearch.at = "idle"  BY DEF NoSearch
<1>z. Works(r, NoSearch, x)  BY <1>1, <1>x, <1>4, <1>7, <1>8, <1>9, <1>10, <1>11, <1>12 DEF Works
<1>y. VecFrame' /\ OfKept  BY <1>z, WorkKeepsFrame
<1>v. \A y \in DOMAIN vecHeap : y # x => SameView(vecHeap[y], vecHeap'[y])
  BY <1>3, <1>7 DEF OnlyBytes, SameView
<1>w. vecHeap'[x].tooBig /\ vecHeap'[x].fp = vecSearch[r].fp /\ vecHeap'[x].seq = vecSearch[r].head
      /\ vecHeap'[x].fresh = vecHeap[x].fresh
  BY <1>1, <1>3, <1>6, <1>7 DEF OnlyBytes
<1> QED BY <1>y, <1>v, <1>w, <1>8, <1>x DEF Entry

\* The entry of the column, or a new one, is mapped and marked used.
LEMMA EntryKeepsFrame ==
  ASSUME VecFrame, NEW r \in VecSearches, entry(r)
  PROVE  /\ VecFrame' /\ OfKept
         /\ \A y \in DOMAIN vecHeap : SameView(vecHeap[y], vecHeap'[y])
<1>k. PICK k : k = vecSearch[r].key  OBVIOUS
<1>x. PICK x : x = IF vecMap[k] = VecNone THEN Len(vecHeap) + 1 ELSE vecMap[k]  OBVIOUS
<1>h. PICK h : h = IF vecMap[k] = VecNone THEN Append(vecHeap, NewEntry) ELSE vecHeap  OBVIOUS
<1>1. /\ vecHeap' = [h EXCEPT ![x].use = vecTick + 1] /\ vecMap' = [vecMap EXCEPT ![k] = x]
      /\ vecSearch' = [vecSearch EXCEPT ![r].at = "lock", ![r].entry = x]
      /\ vecTick' = vecTick + 1 /\ UNCHANGED <<vecDb, vecUsed, vecLeft>>
  BY <1>k, <1>x, <1>h DEF entry
<1>2. /\ vecSearch[r] \in VecRun /\ k \in VecKeys /\ ~Has(r) /\ VecNone \notin DOMAIN vecHeap
      /\ vecHeap \in Seq(VecEntry) /\ vecMap \in [VecKeys -> Nat] /\ vecTick \in Nat /\ vecUsed \in Nat
      /\ Books = [heap |-> vecHeap, map |-> vecMap, used |-> vecUsed]
  <2>1. vecSearch[r] \in VecRun /\ ~Has(r)  BY FrameFacts DEF entry, Doing, Busy, Has
  <2> QED BY <2>1, <1>k, FrameFacts DEF VecFrame, VecShape, VecTypes, VecRun, Books
<1>3. GoodBooks(Books) /\ vecUsed <= vecLeft.max  BY DEF VecFrame, VecCounts
<1>4. \A l \in VecKeys : vecMap[l] # VecNone => vecMap[l] \in DOMAIN vecHeap
  BY DEF VecFrame, VecShape, VecRefs
<1>5. NewEntry \in VecEntry /\ NewEntry.bytes = 0 /\ NewEntry.fresh
  BY RowsType DEF NewEntry, VecEntry
<1>6. PICK c : GoodBooks(c) /\ c.heap = h /\ c.map = [vecMap EXCEPT ![k] = x] /\ c.used = vecUsed
  <2>1. CASE vecMap[k] = VecNone
    <3>1. PICK b : b = [heap |-> Append(Books.heap, NewEntry), map |-> Books.map, used |-> Books.used]
      OBVIOUS
    <3>2. GoodBooks(b)  BY <3>1, <1>3, <1>5, AppendKeepsBooks
    <3>3. b.heap = h /\ b.map = vecMap /\ b.used = vecUsed  BY <2>1, <3>1, <1>2, <1>h
    <3>4. x = Len(vecHeap) + 1 /\ x \notin DOMAIN vecHeap /\ x \in DOMAIN h
      BY <2>1, <1>x, <1>h, <1>2
    <3>5. Free(b, k, x)
      <4>1. \A l \in VecKeys : vecMap[l] # x
        <5> SUFFICES ASSUME NEW l \in VecKeys, vecMap[l] = x PROVE FALSE  OBVIOUS
        <5>1. x # VecNone  BY <3>4, <1>2 DEF VecNone
        <5> QED BY <5>1, <3>4, <1>4
      <4> QED BY <4>1, <3>3, <3>4 DEF Free
    <3>6. PICK c : c = [b EXCEPT !.map[k] = x]  OBVIOUS
    <3>7. b.map[k] = VecNone  BY <2>1, <3>3
    <3>8. GoodBooks(c)  BY <3>2, <3>5, <3>6, <3>7, <1>2, PlaceKeepsBooks
    <3>9. c.heap = b.heap /\ c.map = [b.map EXCEPT ![k] = x] /\ c.used = b.used
      BY <3>2, <3>6 DEF GoodBooks, VecBookType
    <3> QED BY <3>3, <3>8, <3>9
  <2>2. CASE vecMap[k] # VecNone
    <3>1. x = vecMap[k] /\ h = vecHeap  BY <2>2, <1>x, <1>h
    <3>2. [vecMap EXCEPT ![k] = x] = vecMap  BY <3>1, <1>2
    <3>3. Books.heap = h /\ Books.map = [vecMap EXCEPT ![k] = x] /\ Books.used = vecUsed
      BY <3>1, <3>2 DEF Books
    <3> QED BY <3>3, <1>3
  <2> QED BY <2>1, <2>2
<1>7. /\ h \in Seq(VecEntry) /\ x \in DOMAIN h /\ DOMAIN h = DOMAIN vecHeap \cup {x} /\ h[x] \in VecEntry
      /\ \A y \in DOMAIN vecHeap : h[y] = vecHeap[y]
      /\ x \notin DOMAIN vecHeap => h[x] = NewEntry
  <2>1. CASE vecMap[k] = VecNone
    <3>1. x = Len(vecHeap) + 1 /\ h = Append(vecHeap, NewEntry)  BY <2>1, <1>x, <1>h
    <3> QED BY <3>1, <1>2, <1>5
  <2>2. CASE vecMap[k] # VecNone
    <3>1. x = vecMap[k] /\ h = vecHeap /\ x \in DOMAIN vecHeap  BY <2>2, <1>x, <1>h, <1>4, <1>2
    <3>2. vecHeap[x] \in VecEntry  BY <3>1, FrameFacts
    <3> QED BY <3>1, <3>2, <1>2
  <2> QED BY <2>1, <2>2
<1> DEFINE e == [h[x] EXCEPT !.use = vecTick + 1]
           s == [vecSearch[r] EXCEPT !.at = "lock", !.entry = x]
<1>8. /\ e \in VecEntry /\ e.bytes = h[x].bytes /\ e.lock = h[x].lock /\ SameView(h[x], e)
  <2>1. h[x] \in VecEntry /\ vecTick + 1 \in Nat  BY <1>2, <1>7
  <2> QED BY <2>1 DEF VecEntry, SameView
<1>9. vecHeap' = [h EXCEPT ![x] = e]  BY <1>1, <1>7
<1>10. vecSearch' = [vecSearch EXCEPT ![r] = s]  BY <1>1
<1>11. s \in VecRun /\ s.at = "lock" /\ s.key = k /\ s.entry = x
  <2>1. x \in Nat  BY <1>x, <1>2
  <2> QED BY <2>1, <1>2, <1>k DEF VecRun, VecBusy
<1> HIDE DEF e, s
<1>12. /\ vecSearch' \in [VecSearches -> VecRun \cup {NoSearch}]
       /\ vecSearch'[r] = s /\ \A q \in VecSearches : q # r => vecSearch'[q] = vecSearch[q]
  BY <1>10, <1>11, SearchPut DEF VecFrame, VecShape
<1>13. /\ vecHeap' \in Seq(VecEntry) /\ DOMAIN vecHeap' = DOMAIN h /\ GoodBooks(Books')
       /\ vecHeap'[x] = e /\ \A y \in DOMAIN h : y # x => vecHeap'[y] = h[y]
  <2>1. /\ x \in DOMAIN c.heap /\ e.bytes = c.heap[x].bytes /\ vecHeap' = [c.heap EXCEPT ![x] = e]
        /\ vecMap' = c.map /\ vecUsed' = c.used /\ e \in VecEntry
    BY <1>1, <1>6, <1>7, <1>8, <1>9
  <2>2. /\ vecHeap' \in Seq(VecEntry) /\ DOMAIN vecHeap' = DOMAIN c.heap /\ GoodBooks(Books')
        /\ vecHeap'[x] = e /\ \A y \in DOMAIN c.heap : y # x => vecHeap'[y] = c.heap[y]
    BY <2>1, <1>6, BooksAfter
  <2> QED BY <2>2, <1>6
<1>14. Keeps(r, k, x)
  <2>1. x \in DOMAIN vecHeap => \A l \in VecKeys : Of(l, x) => l = k
    <3> SUFFICES ASSUME x \in DOMAIN vecHeap, NEW l \in VecKeys, Of(l, x) PROVE l = k  OBVIOUS
    <3>1. vecMap[k] # VecNone
      <4> SUFFICES ASSUME vecMap[k] = VecNone PROVE FALSE  OBVIOUS
      <4>1. x = Len(vecHeap) + 1  BY <1>x
      <4> QED BY <4>1, <1>2
    <3>2. Of(k, x)  BY <3>1, <1>x DEF Of
    <3> QED BY <3>2, <1>2 DEF VecFrame, VecShape, VecHome
  <2>2. \A l \in VecKeys : vecMap'[l] \in {vecMap[l], VecNone} \/ (l = k /\ vecMap'[l] = x)
    BY <1>1, <1>2
  <2>3. VecNone \notin DOMAIN vecHeap'  BY <1>13 DEF VecNone
  <2> QED BY <2>1, <2>2, <2>3, <1>7, <1>11, <1>12, <1>13 DEF Keeps
<1>15. VecRefs' /\ VecHome' /\ \A l \in VecKeys : \A y \in DOMAIN vecHeap : Of(l, y)' => Of(l, y)
  <2>1. x \in DOMAIN vecHeap => Of(k, x)
    <3> SUFFICES ASSUME x \in DOMAIN vecHeap PROVE vecMap[k] = x  BY DEF Of
    <3>1. x # Len(vecHeap) + 1  BY <1>2
    <3> QED BY <3>1, <1>x
  <2>2. \A y \in DOMAIN vecHeap : y \in DOMAIN vecHeap'  BY <1>7, <1>13
  <2> QED BY <2>1, <2>2, <1>14, HomeKept
<1>16. VecLocks'
  <2>1. ~Holds(r)'  BY <1>11, <1>12 DEF Holds
  <2>2. \A q \in VecSearches : q # r /\ Holds(q) => vecHeap'[vecSearch[q].entry].lock
    <3> SUFFICES ASSUME NEW q \in VecSearches, Holds(q) PROVE vecHeap'[vecSearch[q].entry].lock
      OBVIOUS
    <3>1. vecSearch[q].entry \in DOMAIN vecHeap /\ vecHeap[vecSearch[q].entry].lock
      BY DEF VecFrame, VecShape, VecRefs, VecLocks, Entry, Has, Holds
    <3> QED BY <3>1, <1>7, <1>8, <1>13
  <2> QED BY <2>1, <2>2, <1>12, LocksKept
<1>17. vecLeft' \in VecLeftType /\ vecLeft'.max = vecLeft.max /\ vecTick' \in Nat /\ vecUsed' <= vecLeft.max
  BY <1>1, <1>2, <1>3 DEF VecFrame, VecShape, VecTypes, VecLeftType
<1>18. VecFrame'
  BY <1>1, <1>12, <1>13, <1>15, <1>16, <1>17, SearchKeepsFrame
<1>19. \A y \in DOMAIN vecHeap : SameView(vecHeap[y], vecHeap'[y])
  <2> SUFFICES ASSUME NEW y \in DOMAIN vecHeap PROVE SameView(vecHeap[y], vecHeap'[y])  OBVIOUS
  <2>1. CASE y = x  BY <2>1, <1>7, <1>8, <1>13
  <2>2. CASE y # x
    <3>1. vecHeap'[y] = vecHeap[y]  BY <2>2, <1>7, <1>13
    <3> QED BY <3>1 DEF SameView
  <2> QED BY <2>1, <2>2
<1>20. x \notin DOMAIN vecHeap => vecHeap'[x].fresh
  BY <1>5, <1>7, <1>8, <1>13 DEF SameView
<1>21. OfKept
  BY <1>7, <1>13, <1>15, <1>20 DEF OfKept
<1> QED BY <1>18, <1>19, <1>21

\* One step of anything.
LEMMA StepKeepsFrame ==
  ASSUME VecFrame, [VecNext]_vecVars
  PROVE  VecFrame'
<1>1. CASE UNCHANGED vecVars
  <2>1. UNCHANGED <<vecDb, vecHeap, vecMap, vecUsed, vecTick, vecSearch, vecLeft>>  BY <1>1 DEF vecVars
  <2>2. vecDb' \in VecDbType /\ vecLeft' \in VecLeftType /\ vecLeft'.max = vecLeft.max
    BY <2>1 DEF VecFrame, VecShape, VecTypes, VecDbType, VecLeftType
  <2> QED BY <2>1, <2>2, DbKeepsFrame
<1>2. vecLeft.keys \subseteq VecKeys  BY DEF VecFrame, VecShape, VecTypes
<1>3. ASSUME NEW k \in vecLeft.keys, NEW i \in VecIds, NEW d \in BOOLEAN, vecWrite(k, i, d) PROVE VecFrame'
  BY <1>2, <1>3, WriteKeepsFrame
<1>4. CASE vecTrim  BY <1>4, TrimKeepsFrame
<1>5. ASSUME NEW k \in vecLeft.keys, NEW m \in BOOLEAN, vecNewLife(k, m) PROVE VecFrame'
  BY <1>2, <1>5, NewLifeKeepsFrame
<1>6. ASSUME NEW r \in VecSearches, NEW k \in vecLeft.keys, vecBegin(r, k) PROVE VecFrame'
  BY <1>2, <1>6, BeginKeepsFrame
<1>7. ASSUME NEW r \in VecSearches, entry(r) PROVE VecFrame'  BY <1>7, EntryKeepsFrame
<1>8. ASSUME NEW r \in VecSearches, vecScan(r) PROVE VecFrame'  BY <1>8, EndKeepsFrame DEF vecScan
<1>9. ASSUME NEW r \in VecSearches, vecFill(r) PROVE VecFrame'  BY <1>9, FillKeepsFrame
<1>10. ASSUME NEW r \in VecSearches, vecFillFails(r) PROVE VecFrame'  BY <1>10, FillFailsKeepsFrame
<1>11. ASSUME NEW r \in VecSearches, vecFailed(r) PROVE VecFrame'  BY <1>11, FailedKeepsFrame
<1>12. ASSUME NEW r \in VecSearches, vecAccount(r) PROVE VecFrame'  BY <1>12, AccountKeepsFrame
<1>13. ASSUME NEW r \in VecSearches, remember(r) PROVE VecFrame'  BY <1>13, RememberKeepsFrame
<1>14. ASSUME NEW r \in VecSearches, score(r) PROVE VecFrame'  BY <1>14, ScoreKeepsFrame
<1>15. ASSUME NEW r \in VecSearches, vecAnswered(r) PROVE VecFrame'  BY <1>15, EndKeepsFrame DEF vecAnswered
<1> QED BY <1>1, <1>3, <1>4, <1>5, <1>6, <1>7, <1>8, <1>9, <1>10, <1>11, <1>12, <1>13, <1>14, <1>15
        DEF VecNext

LEMMA InitFrame == VecInit => VecFrame
<1> SUFFICES ASSUME VecInit PROVE VecFrame  OBVIOUS
<1>1. VecTypes
  <2>1. vecLeft \in VecLeftType  BY VecAssumption DEF VecInit, VecAssumption, VecLeftType
  <2>2. vecDb \in VecDbType  BY RowsType DEF VecInit, VecDbType
  <2>3. vecHeap \in Seq(VecEntry)  BY DEF VecInit
  <2> QED BY <2>1, <2>2, <2>3 DEF VecInit, VecTypes, VecDbType, VecLeftType, VecNone
<1>2. DOMAIN vecHeap = {}  BY DEF VecInit
<1>3. \A r \in VecSearches : vecSearch[r].at = "idle"  BY DEF VecInit, NoSearch
<1>4. VecRefs /\ VecHome /\ VecLocks
  BY <1>2, <1>3 DEF VecInit, VecRefs, VecHome, VecLocks, Has, Holds
<1>5. GoodBooks(Books)
  <2>1. Books.heap = vecHeap /\ Books.map = vecMap /\ Books.used = 0  BY DEF Books, VecInit
  <2>2. Books \in VecBookType  BY <1>1 DEF Books, VecBookType, VecTypes, VecInit
  <2>3. Placed(Books)  BY <2>1 DEF Placed, VecInit
  <2>4. Mapped(vecMap) = {}  BY DEF Mapped, VecInit
  <2>5. SumFunctionOnSet(Bytes(vecHeap), {}) = 0  BY SumOne
  <2>6. Balanced(Books)  BY <2>1, <2>4, <2>5, <1>2 DEF Balanced
  <2> QED BY <2>2, <2>3, <2>6 DEF GoodBooks
<1>6. vecUsed <= vecLeft.max  BY <1>1 DEF VecInit, VecTypes
<1> QED BY <1>1, <1>4, <1>5, <1>6 DEF VecFrame, VecShape, VecCounts

LEMMA FrameBooks == VecFrame => VecBooks
<1> SUFFICES ASSUME VecFrame PROVE VecBooks  OBVIOUS
<1>1. Balanced(Books) /\ Books.heap = vecHeap /\ Books.map = vecMap /\ Books.used = vecUsed
  BY DEF VecFrame, VecCounts, GoodBooks, Books
<1>2. vecUsed = SumFunctionOnSet(Bytes(vecHeap), Mapped(vecMap))
      /\ \A y \in DOMAIN vecHeap \ Mapped(vecMap) : vecHeap[y].bytes = 0
  <2> HIDE DEF Books
  <2> QED BY <1>1 DEF Balanced
<1>3. vecUsed <= vecLeft.max  BY DEF VecFrame, VecCounts
<1> QED BY <1>2, <1>3, Zenon DEF VecBooks, Bytes, Mapped

\* The cache's memory is what its entries take, and never more than it may be,
\* whatever the searches, evictions and failing reads of one cache do to each other.
THEOREM CacheCountsWhatItHolds == VecSpec => []VecBooks
<1>1. VecInit => VecFrame  BY InitFrame
<1>2. VecFrame /\ [VecNext]_vecVars => VecFrame'  BY StepKeepsFrame
<1>3. VecFrame => VecBooks  BY FrameBooks
<1> QED BY <1>1, <1>2, <1>3, PTL DEF VecSpec

-----------------------------------------------------------------------------
(* How snapshots of one life of a column fit each other.                    *)

\* A column's position and the log it is read with.
LogPast(log, h) == \A c \in log : c.seq <= h

\* Two readings of one position are the same rows.
LEMMA SamePosition ==
  ASSUME NEW k, NEW h, h \in Nat, NEW f \in VecRows, NEW g \in VecRows, NEW log \in SUBSET VecChange,
         LogPast(log, h), Agrees(k, h, f, h, g, log)
  PROVE  f = g
<1>1. Touched(log, k, h) = {}
  BY DEF Touched, LogPast, VecChange
<1>2. \A i \in VecIds : /\ i \in DOMAIN f <=> i \in DOMAIN g
                        /\ i \in DOMAIN f => f[i] = g[i]
  BY <1>1 DEF Agrees
<1>3. DOMAIN f \subseteq VecIds /\ DOMAIN g \subseteq VecIds  BY RowsType
<1>4. f = [i \in DOMAIN f |-> f[i]] /\ g = [i \in DOMAIN g |-> g[i]]  BY DEF VecRows
<1>5. DOMAIN f = DOMAIN g  BY <1>2, <1>3
<1> QED BY <1>2, <1>3, <1>4, <1>5

\* Rows at a position fit themselves.
LEMMA OwnPosition ==
  ASSUME NEW k, NEW h, NEW f, NEW log
  PROVE  Agrees(k, h, f, h, f, log)
BY DEF Agrees

\* A write of row i: the new log names it.
LEMMA AgreesAfterWrite ==
  ASSUME NEW k \in VecKeys, NEW s \in Nat, NEW f, NEW h \in Nat, NEW g, NEW g2, NEW log \in SUBSET VecChange,
         s <= h, Agrees(k, s, f, h, g, log), NEW kk \in VecKeys, NEW i \in VecIds, NEW log2,
         log2 = log \cup {[seq |-> h + 1, key |-> kk, id |-> i]},
         k # kk => g2 = g,
         k = kk => \A j \in VecIds : j # i => /\ j \in DOMAIN g2 <=> j \in DOMAIN g
                                              /\ j \in DOMAIN g => g2[j] = g[j]
  PROVE  Agrees(k, s, f, h + 1, g2, log2)
<1> SUFFICES ASSUME Reached(log2, s), NEW j \in VecIds \ Touched(log2, k, s)
             PROVE  /\ j \in DOMAIN f <=> j \in DOMAIN g2
                    /\ j \in DOMAIN f => f[j] = g2[j]
  BY DEF Agrees
<1> DEFINE c == [seq |-> h + 1, key |-> kk, id |-> i]
<1>1. c \in log2 /\ c.seq = h + 1 /\ c.key = kk /\ c.id = i  OBVIOUS
<1>2. j \notin Touched(log, k, s)  BY DEF Touched
<1>3. k = kk => j # i
  <2> SUFFICES ASSUME k = kk PROVE i \in Touched(log2, k, s)  OBVIOUS
  <2> HIDE DEF c
  <2>1. c \in {d \in log2 : d.key = k /\ d.seq > s}  BY <1>1
  <2> QED BY <2>1, <1>1 DEF Touched
<1>4. s = h \/ Reached(log, s)
  <2>1. PICK d \in log2 : d.seq <= s + 1  BY DEF Reached
  <2>2. CASE d \in log  BY <2>1, <2>2 DEF Reached
  <2>3. CASE d = c  BY <2>1, <2>3, <1>1
  <2> QED BY <2>2, <2>3
<1>5. /\ j \in DOMAIN f <=> j \in DOMAIN g
      /\ j \in DOMAIN f => f[j] = g[j]
  BY <1>2, <1>4 DEF Agrees
<1> QED BY <1>3, <1>5

\* A sweep: what it leaves of the log names the same rows wherever it still reaches.
LEMMA AgreesAfterTrim ==
  ASSUME NEW k, NEW s \in Nat, NEW f, NEW h \in Nat, NEW g, NEW log \in SUBSET VecChange,
         LogPast(log, h), Agrees(k, s, f, h, g, log), NEW log2, log2 = {c \in log : c.seq = h}
  PROVE  Agrees(k, s, f, h, g, log2)
<1> SUFFICES ASSUME s <= h, s = h \/ Reached(log2, s), NEW j \in VecIds \ Touched(log2, k, s)
             PROVE  /\ j \in DOMAIN f <=> j \in DOMAIN g
                    /\ j \in DOMAIN f => f[j] = g[j]
  BY DEF Agrees
<1>1. s = h \/ Reached(log, s)  BY DEF Reached
<1>2. s = h \/ s = h - 1  BY DEF Reached
<1>3. j \notin Touched(log, k, s)
  <2> SUFFICES ASSUME NEW c \in log, c.key = k, c.seq > s, c.id = j PROVE FALSE
    BY DEF Touched
  <2>1. c.seq \in Nat /\ c.seq <= h  BY DEF LogPast, VecChange
  <2>2. c.seq = h  BY <2>1, <1>2
  <2> QED BY <2>2 DEF Touched
<1> QED BY <1>1, <1>3 DEF Agrees

\* The rows a log names, read anew, over the others as they were.
LEMMA CatchUpIsExact ==
  ASSUME NEW k, NEW s \in Nat, NEW f \in VecRows, NEW h \in Nat, NEW g \in VecRows, NEW log,
         s <= h, Reached(log, s), Agrees(k, s, f, h, g, log), NEW t, t = Touched(log, k, s)
  PROVE  Over(Restrict(g, DOMAIN g \cap t), Restrict(f, DOMAIN f \ t)) = g
<1>1. \A i \in VecIds \ t : /\ i \in DOMAIN f <=> i \in DOMAIN g
                            /\ i \in DOMAIN f => f[i] = g[i]
  BY DEF Agrees
<1>2. DOMAIN f \subseteq VecIds /\ DOMAIN g \subseteq VecIds  BY RowsType
<1>3. g = [i \in DOMAIN g |-> g[i]]  BY DEF VecRows
<1>4. (DOMAIN g \cap t) \cup (DOMAIN f \ t) = DOMAIN g  BY <1>1, <1>2
<1> DEFINE u == Restrict(g, DOMAIN g \cap t)
           v == Restrict(f, DOMAIN f \ t)
<1>5. DOMAIN u = DOMAIN g \cap t /\ DOMAIN v = DOMAIN f \ t
      /\ (\A i \in DOMAIN u : u[i] = g[i]) /\ (\A i \in DOMAIN v : v[i] = f[i])
  BY DEF Restrict
<1> HIDE DEF u, v
<1>6. Over(u, v) = [i \in DOMAIN u \cup DOMAIN v |-> IF i \in DOMAIN u THEN u[i] ELSE v[i]]
  BY DEF Over
<1>7. \A i \in DOMAIN g : (IF i \in DOMAIN u THEN u[i] ELSE v[i]) = g[i]
  BY <1>1, <1>2, <1>5
<1>8. DOMAIN u \cup DOMAIN v = DOMAIN g  BY <1>4, <1>5
<1>9. Over(u, v) = [i \in DOMAIN g |-> g[i]]  BY <1>6, <1>7, <1>8
<1> QED BY <1>3, <1>9 DEF u, v

-----------------------------------------------------------------------------
(* What a step does to views.                                               *)

\* The types of what views are made of.
LEMMA ViewTypes ==
  ASSUME VecTypes
  PROVE  /\ vecDb.seq \in Nat /\ vecDb.log \in SUBSET VecChange
         /\ \A k \in VecKeys : vecDb.fp[k] \in Nat /\ vecDb.rows[k] \in VecRows
         /\ \A r \in VecSearches : Busy(r) =>
              /\ vecSearch[r] \in VecRun /\ vecSearch[r].key \in VecKeys /\ vecSearch[r].head \in Nat
              /\ vecSearch[r].fp \in Nat /\ vecSearch[r].rows \in VecRows
              /\ vecSearch[r].log \in SUBSET VecChange
         /\ \A y \in DOMAIN vecHeap : vecHeap[y] \in VecEntry /\ vecHeap[y].seq \in Nat
              /\ vecHeap[y].fp \in Nat /\ vecHeap[y].rows \in VecRows
<1>1. /\ vecDb.seq \in Nat /\ vecDb.log \in SUBSET VecChange
      /\ \A k \in VecKeys : vecDb.fp[k] \in Nat /\ vecDb.rows[k] \in VecRows
  BY DEF VecTypes
<1>2. \A r \in VecSearches : Busy(r) => vecSearch[r] \in VecRun  BY DEF VecTypes, Busy, NoSearch
<1>3. \A r \in VecSearches : Busy(r) =>
        /\ vecSearch[r].key \in VecKeys /\ vecSearch[r].head \in Nat
        /\ vecSearch[r].fp \in Nat /\ vecSearch[r].rows \in VecRows
        /\ vecSearch[r].log \in SUBSET VecChange
  BY <1>2 DEF VecRun
<1>4. \A y \in DOMAIN vecHeap : vecHeap[y] \in VecEntry  BY DEF VecTypes
<1>5. \A y \in DOMAIN vecHeap : vecHeap[y].seq \in Nat /\ vecHeap[y].fp \in Nat /\ vecHeap[y].rows \in VecRows
  BY <1>4 DEF VecEntry
<1> QED BY <1>1, <1>2, <1>3, <1>4, <1>5

\* What every search sees, and what is committed, is as it was.
SameRuns ==
  /\ UNCHANGED vecDb
  /\ \A q \in VecSearches : Busy(q)' =>
       /\ Busy(q) /\ vecSearch'[q].key = vecSearch[q].key /\ vecSearch'[q].head = vecSearch[q].head
       /\ vecSearch'[q].fp = vecSearch[q].fp /\ vecSearch'[q].rows = vecSearch[q].rows
       /\ vecSearch'[q].log = vecSearch[q].log

LEMMA ViewSame ==
  ASSUME SameRuns, NEW k, NEW fp, NEW s, NEW f, View(k, fp, s, f)
  PROVE  View(k, fp, s, f)'
<1>1. AgreesWithDb(k, fp, s, f)'  BY DEF SameRuns, View, AgreesWithDb
<1>2. ASSUME NEW q \in VecSearches PROVE AgreesWithRun(k, fp, s, f, q)'
  BY DEF SameRuns, View, AgreesWithRun
<1> QED BY <1>1, <1>2 DEF View

\* The committed rows move on; the searches see what they saw.
LEMMA ViewAfterWrite ==
  ASSUME VecFrame, NEW kk \in VecKeys, NEW i \in VecIds, NEW d \in BOOLEAN, vecWrite(kk, i, d),
         NEW k \in VecKeys, NEW fp, NEW s \in Nat, NEW f, s <= vecDb.seq, View(k, fp, s, f)
  PROVE  View(k, fp, s, f)'
<1>1. VecTypes  BY DEF VecFrame, VecShape
<1>2. /\ vecDb'.seq = vecDb.seq + 1
      /\ vecDb'.log = vecDb.log \cup {[seq |-> vecDb.seq + 1, key |-> kk, id |-> i]}
      /\ vecDb'.fp = vecDb.fp
      /\ \A l \in VecKeys : l # kk => vecDb'.rows[l] = vecDb.rows[l]
      /\ \A j \in VecIds : j # i => /\ j \in DOMAIN vecDb'.rows[kk] <=> j \in DOMAIN vecDb.rows[kk]
                                    /\ j \in DOMAIN vecDb.rows[kk] => vecDb'.rows[kk][j] = vecDb.rows[kk][j]
  BY <1>1, WriteDb
<1>3. AgreesWithDb(k, fp, s, f)'
  <2> SUFFICES ASSUME vecDb.fp[k] = fp
               PROVE  Agrees(k, s, f, vecDb.seq + 1, vecDb'.rows[k], vecDb'.log)
    BY <1>2 DEF AgreesWithDb
  <2>1. Agrees(k, s, f, vecDb.seq, vecDb.rows[k], vecDb.log)  BY DEF View, AgreesWithDb
  <2>2. vecDb.seq \in Nat /\ vecDb.log \in SUBSET VecChange  BY <1>1, ViewTypes
  <2>3. PICK log2, g, g2 : log2 = vecDb'.log /\ g = vecDb.rows[k] /\ g2 = vecDb'.rows[k]  OBVIOUS
  <2>4. k # kk => g2 = g  BY <1>2, <2>3
  <2>5. k = kk => \A j \in VecIds : j # i => /\ j \in DOMAIN g2 <=> j \in DOMAIN g
                                             /\ j \in DOMAIN g => g2[j] = g[j]
    BY <1>2, <2>3
  <2> QED BY <2>1, <2>2, <2>3, <2>4, <2>5, <1>2, AgreesAfterWrite
<1>4. ASSUME NEW q \in VecSearches PROVE AgreesWithRun(k, fp, s, f, q)'
  BY DEF View, AgreesWithRun, vecWrite, Busy
<1> QED BY <1>3, <1>4 DEF View

LEMMA ViewAfterTrim ==
  ASSUME VecFrame, LogPast(vecDb.log, vecDb.seq), vecTrim, NEW k \in VecKeys, NEW fp, NEW s \in Nat, NEW f,
         View(k, fp, s, f)
  PROVE  View(k, fp, s, f)'
<1>1. VecTypes  BY DEF VecFrame, VecShape
<1>2. /\ vecDb'.seq = vecDb.seq /\ vecDb'.fp = vecDb.fp
      /\ vecDb'.rows = vecDb.rows /\ vecDb'.log = {c \in vecDb.log : c.seq = vecDb.seq}
  BY <1>1, TrimDb
<1>3. AgreesWithDb(k, fp, s, f)'
  <2> SUFFICES ASSUME vecDb.fp[k] = fp
               PROVE  Agrees(k, s, f, vecDb.seq, vecDb.rows[k], vecDb'.log)
    BY <1>2 DEF AgreesWithDb
  <2>1. Agrees(k, s, f, vecDb.seq, vecDb.rows[k], vecDb.log)  BY DEF View, AgreesWithDb
  <2>2. vecDb.seq \in Nat /\ vecDb.log \in SUBSET VecChange  BY <1>1, ViewTypes
  <2>3. PICK log2 : log2 = vecDb'.log  OBVIOUS
  <2> QED BY <2>1, <2>2, <2>3, <1>2, AgreesAfterTrim
<1>4. ASSUME NEW q \in VecSearches PROVE AgreesWithRun(k, fp, s, f, q)'
  BY DEF View, AgreesWithRun, vecTrim, Busy
<1> QED BY <1>3, <1>4 DEF View

\* No view is of the life that begins.
LEMMA ViewAfterNewLife ==
  ASSUME VecFrame, NEW kk \in VecKeys, NEW m \in BOOLEAN, vecNewLife(kk, m),
         NEW k \in VecKeys, NEW fp \in Nat, NEW s \in Nat, NEW f, fp <= vecDb.fp[k], View(k, fp, s, f)
  PROVE  View(k, fp, s, f)'
<1>1. VecTypes  BY DEF VecFrame, VecShape
<1>2. /\ vecDb'.seq = vecDb.seq /\ vecDb'.log = vecDb.log
      /\ \A l \in VecKeys : l # kk => vecDb'.rows[l] = vecDb.rows[l] /\ vecDb'.fp[l] = vecDb.fp[l]
      /\ vecDb'.fp[kk] = vecDb.fp[kk] + 1
  BY <1>1, NewLifeDb
<1>3. AgreesWithDb(k, fp, s, f)'
  <2>1. CASE k # kk  BY <2>1, <1>2 DEF View, AgreesWithDb
  <2>2. CASE k = kk
    <3>1. vecDb.fp[k] \in Nat  BY <1>1, ViewTypes
    <3> QED BY <2>2, <3>1, <1>2 DEF AgreesWithDb
  <2> QED BY <2>1, <2>2
<1>4. ASSUME NEW q \in VecSearches PROVE AgreesWithRun(k, fp, s, f, q)'
  BY DEF View, AgreesWithRun, vecNewLife, Busy
<1> QED BY <1>3, <1>4 DEF View

\* A search begins with what is committed.
LEMMA ViewAfterBegin ==
  ASSUME VecFrame, NEW r \in VecSearches, NEW kk \in VecKeys, vecBegin(r, kk),
         NEW k \in VecKeys, NEW fp, NEW s, NEW f, View(k, fp, s, f)
  PROVE  View(k, fp, s, f)'
<1>1. /\ UNCHANGED vecDb /\ vecSearch'[r].key = kk /\ vecSearch'[r].head = vecDb.seq
      /\ vecSearch'[r].fp = vecDb.fp[kk] /\ vecSearch'[r].rows = vecDb.rows[kk]
      /\ vecSearch'[r].log = vecDb.log
      /\ \A q \in VecSearches : q # r => vecSearch'[q] = vecSearch[q]
  BY DEF vecBegin, VecFrame, VecShape, VecTypes
<1>2. AgreesWithDb(k, fp, s, f)'  BY <1>1 DEF View, AgreesWithDb
<1>3. ASSUME NEW q \in VecSearches PROVE AgreesWithRun(k, fp, s, f, q)'
  <2>1. CASE q = r  BY <2>1, <1>1 DEF View, AgreesWithDb, AgreesWithRun
  <2>2. CASE q # r  BY <2>2, <1>1 DEF View, AgreesWithRun, Busy
  <2> QED BY <2>1, <2>2
<1> QED BY <1>2, <1>3 DEF View

\* A step of the database as the searches see it.
DbMoves ==
  /\ UNCHANGED <<vecHeap, vecMap, vecSearch>>
  /\ vecLeft'.max = vecLeft.max /\ vecLeft'.runs = vecLeft.runs /\ vecLeft'.errors = vecLeft.errors
  /\ vecDb'.seq \in Nat /\ vecDb.seq <= vecDb'.seq /\ LogPast(vecDb'.log, vecDb'.seq)
  /\ \A k \in VecKeys :
       /\ vecDb'.fp[k] \in Nat /\ vecDb.fp[k] <= vecDb'.fp[k]
       /\ vecDb'.fp[k] = vecDb.fp[k] /\ vecDb'.seq = vecDb.seq => vecDb'.rows[k] = vecDb.rows[k]
  /\ \A k \in VecKeys : \A fp, s \in Nat : \A f :
       s <= vecDb.seq /\ fp <= vecDb.fp[k] /\ View(k, fp, s, f) => View(k, fp, s, f)'

LEMMA DbKeepsSnapshots ==
  ASSUME VecInv, DbMoves
  PROVE  VecSnapshots'
<1> USE DEF DbMoves
<1>0. VecTypes /\ VecPast /\ VecRuns /\ VecFits
  BY DEF VecInv, VecFrame, VecShape, VecSnapshots
<1>1. /\ vecDb.seq \in Nat /\ \A k \in VecKeys : vecDb.fp[k] \in Nat
      /\ \A r \in VecSearches : Busy(r) =>
           vecSearch[r].key \in VecKeys /\ vecSearch[r].head \in Nat /\ vecSearch[r].fp \in Nat
      /\ \A y \in DOMAIN vecHeap : vecHeap[y].seq \in Nat /\ vecHeap[y].fp \in Nat
  BY <1>0, ViewTypes
<1>2. \A l, y : Of(l, y)' <=> Of(l, y)  BY DEF Of, Has
<1>3. VecPast'
  <2>1. \A c \in vecDb'.log : c.seq <= vecDb'.seq  BY DEF LogPast
  <2>2. ASSUME NEW r \in VecSearches, Busy(r)'
        PROVE  /\ vecSearch'[r].head <= vecDb'.seq /\ vecSearch'[r].fp <= vecDb'.fp[vecSearch'[r].key]
               /\ \A c \in vecSearch'[r].log : c.seq <= vecSearch'[r].head
    BY <2>2, <1>0, <1>1 DEF VecPast, Busy
  <2>3. ASSUME NEW k \in VecKeys, NEW x \in DOMAIN vecHeap', Of(k, x)', ~vecHeap'[x].fresh
        PROVE  vecHeap'[x].seq <= vecDb'.seq /\ vecHeap'[x].fp <= vecDb'.fp[k]
    BY <2>3, <1>0, <1>1, <1>2 DEF VecPast
  <2> QED BY <2>1, <2>2, <2>3 DEF VecPast
<1>4. VecRuns'
  <2> SUFFICES ASSUME NEW r \in VecSearches, Busy(r)
               PROVE  View(vecSearch[r].key, vecSearch[r].fp, vecSearch[r].head, vecSearch[r].rows)'
    BY DEF VecRuns, Busy
  <2>1. View(vecSearch[r].key, vecSearch[r].fp, vecSearch[r].head, vecSearch[r].rows)
    BY <1>0 DEF VecRuns
  <2>2. vecSearch[r].head <= vecDb.seq /\ vecSearch[r].fp <= vecDb.fp[vecSearch[r].key]
    BY <1>0 DEF VecPast
  <2>3. PICK k, fp, s, f : k = vecSearch[r].key /\ fp = vecSearch[r].fp /\ s = vecSearch[r].head
                           /\ f = vecSearch[r].rows
    OBVIOUS
  <2>4. View(k, fp, s, f)'  BY <2>1, <2>2, <2>3, <1>1
  <2> QED BY <2>3, <2>4
<1>5. \A x : Torn(x)' <=> Torn(x)  BY DEF Torn
<1>6. VecFits'
  <2>1. VecEntries'
    <3> SUFFICES ASSUME NEW k \in VecKeys, NEW x \in DOMAIN vecHeap, Of(k, x), Solid(x)
                 PROVE  View(k, vecHeap[x].fp, vecHeap[x].seq, vecHeap[x].rows)'
      BY <1>2, <1>5 DEF VecEntries, Solid
    <3>1. View(k, vecHeap[x].fp, vecHeap[x].seq, vecHeap[x].rows)  BY <1>0 DEF VecFits, VecEntries
    <3>2. vecHeap[x].seq <= vecDb.seq /\ vecHeap[x].fp <= vecDb.fp[k]  BY <1>0 DEF VecPast, Solid
    <3>3. PICK fp, s, f : fp = vecHeap[x].fp /\ s = vecHeap[x].seq /\ f = vecHeap[x].rows  OBVIOUS
    <3>4. View(k, fp, s, f)'  BY <3>1, <3>2, <3>3, <1>1
    <3> QED BY <3>3, <3>4
  <2>2. VecTooBig'
    <3> SUFFICES ASSUME NEW k \in VecKeys, NEW x \in DOMAIN vecHeap, Of(k, x), ~vecHeap[x].fresh,
                        vecHeap[x].tooBig
                 PROVE  /\ vecDb'.fp[k] = vecHeap[x].fp /\ vecDb'.seq = vecHeap[x].seq => Large(vecDb'.rows[k])
                        /\ \A q \in VecSearches :
                             Busy(q) /\ vecSearch[q].key = k /\ vecSearch[q].fp = vecHeap[x].fp
                               /\ vecSearch[q].head = vecHeap[x].seq => Large(vecSearch[q].rows)
      BY <1>2 DEF VecTooBig, Large, Busy
    <3>1. vecHeap[x].seq <= vecDb.seq /\ vecHeap[x].fp <= vecDb.fp[k]  BY <1>0 DEF VecPast
    <3>2. vecDb'.fp[k] = vecHeap[x].fp /\ vecDb'.seq = vecHeap[x].seq
            => /\ vecDb.fp[k] = vecHeap[x].fp /\ vecDb.seq = vecHeap[x].seq
               /\ vecDb'.rows[k] = vecDb.rows[k]
      BY <3>1, <1>1
    <3> QED BY <3>2, <1>0 DEF VecFits, VecTooBig
  <2>3. VecHeld' /\ VecExact'
    BY <1>0 DEF VecFits, VecHeld, Held, VecExact, Holds, Entry, Large, Doing
  <2> QED BY <2>1, <2>2, <2>3 DEF VecFits
<1> QED BY <1>3, <1>4, <1>6 DEF VecSnapshots

LEMMA WriteKeepsSnapshots ==
  ASSUME VecInv, NEW k \in VecKeys, NEW i \in VecIds, NEW d \in BOOLEAN, vecWrite(k, i, d)
  PROVE  VecSnapshots'
<1>0. VecFrame /\ VecTypes /\ VecPast  BY DEF VecInv, VecFrame, VecShape, VecSnapshots
<1>1. /\ vecDb.seq \in Nat /\ \A l \in VecKeys : vecDb.fp[l] \in Nat  BY <1>0, ViewTypes
<1>2. /\ vecDb'.seq = vecDb.seq + 1 /\ vecDb'.fp = vecDb.fp
      /\ vecDb'.log = vecDb.log \cup {[seq |-> vecDb.seq + 1, key |-> k, id |-> i]}
  BY <1>0, WriteDb
<1>3. LogPast(vecDb'.log, vecDb'.seq)
  <2> SUFFICES ASSUME NEW c \in vecDb'.log PROVE c.seq <= vecDb.seq + 1  BY <1>2 DEF LogPast
  <2>1. CASE c \in vecDb.log
    <3>1. c.seq \in Nat /\ c.seq <= vecDb.seq  BY <2>1, <1>0, ViewTypes DEF VecPast, VecChange
    <3> QED BY <3>1, <1>1
  <2>2. CASE c = [seq |-> vecDb.seq + 1, key |-> k, id |-> i]  BY <2>2, <1>1
  <2> QED BY <2>1, <2>2, <1>2
<1>4. ASSUME NEW l \in VecKeys, NEW fp \in Nat, NEW s \in Nat, NEW f,
             s <= vecDb.seq, fp <= vecDb.fp[l], View(l, fp, s, f)
      PROVE  View(l, fp, s, f)'
  BY <1>0, <1>4, ViewAfterWrite
<1>5. /\ vecLeft'.max = vecLeft.max /\ vecLeft'.runs = vecLeft.runs /\ vecLeft'.errors = vecLeft.errors
      /\ UNCHANGED <<vecHeap, vecMap, vecSearch>>
  BY <1>0 DEF vecWrite, VecTypes
<1>6. DbMoves  BY <1>1, <1>2, <1>3, <1>4, <1>5 DEF DbMoves
<1> QED BY <1>6, DbKeepsSnapshots

LEMMA TrimKeepsSnapshots ==
  ASSUME VecInv, vecTrim
  PROVE  VecSnapshots'
<1>0. VecFrame /\ VecTypes /\ VecPast  BY DEF VecInv, VecFrame, VecShape, VecSnapshots
<1>1. /\ vecDb.seq \in Nat /\ \A l \in VecKeys : vecDb.fp[l] \in Nat  BY <1>0, ViewTypes
<1>2. /\ vecDb'.seq = vecDb.seq /\ vecDb'.fp = vecDb.fp /\ vecDb'.rows = vecDb.rows
      /\ vecDb'.log = {c \in vecDb.log : c.seq = vecDb.seq}
  BY <1>0, TrimDb
<1>3. LogPast(vecDb.log, vecDb.seq) /\ LogPast(vecDb'.log, vecDb'.seq)
  BY <1>0, <1>1, <1>2 DEF LogPast, VecPast
<1>4. ASSUME NEW l \in VecKeys, NEW fp \in Nat, NEW s \in Nat, NEW f,
             s <= vecDb.seq, fp <= vecDb.fp[l], View(l, fp, s, f)
      PROVE  View(l, fp, s, f)'
  BY <1>0, <1>3, <1>4, ViewAfterTrim
<1>5. /\ vecLeft'.max = vecLeft.max /\ vecLeft'.runs = vecLeft.runs /\ vecLeft'.errors = vecLeft.errors
      /\ UNCHANGED <<vecHeap, vecMap, vecSearch>>
  BY <1>0 DEF vecTrim, VecTypes
<1>6. DbMoves  BY <1>1, <1>2, <1>3, <1>4, <1>5 DEF DbMoves
<1> QED BY <1>6, DbKeepsSnapshots

LEMMA NewLifeKeepsSnapshots ==
  ASSUME VecInv, NEW k \in VecKeys, NEW m \in BOOLEAN, vecNewLife(k, m)
  PROVE  VecSnapshots'
<1>0. VecFrame /\ VecTypes /\ VecPast  BY DEF VecInv, VecFrame, VecShape, VecSnapshots
<1>1. /\ vecDb.seq \in Nat /\ \A l \in VecKeys : vecDb.fp[l] \in Nat  BY <1>0, ViewTypes
<1>2. /\ vecDb'.seq = vecDb.seq /\ vecDb'.log = vecDb.log
      /\ \A l \in VecKeys : l # k => vecDb'.rows[l] = vecDb.rows[l] /\ vecDb'.fp[l] = vecDb.fp[l]
      /\ vecDb'.fp[k] = vecDb.fp[k] + 1
  BY <1>0, NewLifeDb
<1>3. LogPast(vecDb'.log, vecDb'.seq)
  BY <1>0, <1>2 DEF LogPast, VecPast
<1>4. ASSUME NEW l \in VecKeys, NEW fp \in Nat, NEW s \in Nat, NEW f,
             s <= vecDb.seq, fp <= vecDb.fp[l], View(l, fp, s, f)
      PROVE  View(l, fp, s, f)'
  BY <1>0, <1>4, ViewAfterNewLife
<1>5. /\ vecLeft'.max = vecLeft.max /\ vecLeft'.runs = vecLeft.runs /\ vecLeft'.errors = vecLeft.errors
      /\ UNCHANGED <<vecHeap, vecMap, vecSearch>>
  BY <1>0 DEF vecNewLife, VecTypes
<1>6. \A l \in VecKeys : /\ vecDb'.fp[l] \in Nat /\ vecDb.fp[l] <= vecDb'.fp[l]
                         /\ vecDb'.fp[l] = vecDb.fp[l] => vecDb'.rows[l] = vecDb.rows[l]
  BY <1>1, <1>2
<1>7. DbMoves  BY <1>1, <1>2, <1>3, <1>4, <1>5, <1>6 DEF DbMoves
<1> QED BY <1>7, DbKeepsSnapshots

-----------------------------------------------------------------------------
(* Steps of a search.                                                       *)

\* A search that goes on as s sees what it saw.
LEMMA RunsOfMove ==
  ASSUME VecTypes, UNCHANGED vecDb, NEW r \in VecSearches, NEW s, vecSearch' = [vecSearch EXCEPT ![r] = s],
         s.at # "idle" => /\ Busy(r) /\ s.key = vecSearch[r].key /\ s.head = vecSearch[r].head
                          /\ s.fp = vecSearch[r].fp /\ s.rows = vecSearch[r].rows /\ s.log = vecSearch[r].log
  PROVE  /\ SameRuns /\ vecSearch'[r] = s /\ \A q \in VecSearches : q # r => vecSearch'[q] = vecSearch[q]
<1>1. vecSearch'[r] = s /\ \A q \in VecSearches : q # r => vecSearch'[q] = vecSearch[q]
  BY DEF VecTypes
<1> QED BY <1>1 DEF SameRuns, Busy

\* Entry y is where it was, or at the position of a search.
Placement(y) ==
  \/ vecHeap'[y].fp = vecHeap[y].fp /\ vecHeap'[y].seq = vecHeap[y].seq /\ vecHeap'[y].fresh = vecHeap[y].fresh
  \/ \E r \in VecSearches : /\ Has(r) /\ y = vecSearch[r].entry
                            /\ vecHeap'[y].fp = vecSearch[r].fp /\ vecHeap'[y].seq = vecSearch[r].head

LEMMA SearchKeepsRuns ==
  ASSUME VecInv, SameRuns, OfKept, \A y \in DOMAIN vecHeap : Placement(y)
  PROVE  VecPast' /\ VecRuns'
<1>0. VecFrame /\ VecTypes /\ VecHome /\ VecPast /\ VecRuns
  BY DEF VecInv, VecFrame, VecShape, VecSnapshots
<1>1. VecPast'
  <2>1. \A c \in vecDb'.log : c.seq <= vecDb'.seq  BY <1>0 DEF VecPast, SameRuns
  <2>2. ASSUME NEW q \in VecSearches, Busy(q)'
        PROVE  /\ vecSearch'[q].head <= vecDb'.seq /\ vecSearch'[q].fp <= vecDb'.fp[vecSearch'[q].key]
               /\ \A c \in vecSearch'[q].log : c.seq <= vecSearch'[q].head
    BY <2>2, <1>0 DEF VecPast, SameRuns
  <2>3. ASSUME NEW k \in VecKeys, NEW x \in DOMAIN vecHeap', Of(k, x)', ~vecHeap'[x].fresh
        PROVE  vecHeap'[x].seq <= vecDb'.seq /\ vecHeap'[x].fp <= vecDb'.fp[k]
    <3>1. x \in DOMAIN vecHeap /\ Of(k, x)  BY <2>3 DEF OfKept
    <3>2. CASE vecHeap'[x].fp = vecHeap[x].fp /\ vecHeap'[x].seq = vecHeap[x].seq
               /\ vecHeap'[x].fresh = vecHeap[x].fresh
      BY <2>3, <3>1, <3>2, <1>0 DEF VecPast, SameRuns
    <3>3. ASSUME NEW q \in VecSearches, Has(q), x = vecSearch[q].entry,
                 vecHeap'[x].fp = vecSearch[q].fp, vecHeap'[x].seq = vecSearch[q].head
          PROVE  vecHeap'[x].seq <= vecDb'.seq /\ vecHeap'[x].fp <= vecDb'.fp[k]
      <4>1. Of(vecSearch[q].key, x) /\ vecSearch[q].key \in VecKeys  BY <3>3, <1>0, FrameFacts DEF Of
      <4>2. vecSearch[q].key = k  BY <4>1, <3>1, <1>0 DEF VecHome
      <4>3. Busy(q)  BY <3>3 DEF Has, Busy
      <4> QED BY <4>2, <4>3, <3>3, <1>0 DEF VecPast, SameRuns
    <3> QED BY <3>1, <3>2, <3>3 DEF Placement
  <2> QED BY <2>1, <2>2, <2>3 DEF VecPast
<1>2. VecRuns'
  <2> SUFFICES ASSUME NEW q \in VecSearches, Busy(q)'
               PROVE  View(vecSearch[q].key, vecSearch[q].fp, vecSearch[q].head, vecSearch[q].rows)'
    BY DEF VecRuns
  <2>1. /\ Busy(q) /\ vecSearch'[q].key = vecSearch[q].key /\ vecSearch'[q].head = vecSearch[q].head
        /\ vecSearch'[q].fp = vecSearch[q].fp /\ vecSearch'[q].rows = vecSearch[q].rows
    BY DEF SameRuns
  <2>2. PICK k, fp, s, f : k = vecSearch[q].key /\ fp = vecSearch[q].fp /\ s = vecSearch[q].head
                           /\ f = vecSearch[q].rows
    OBVIOUS
  <2>3. View(k, fp, s, f)  BY <2>1, <2>2, <1>0 DEF VecRuns
  <2>4. View(k, fp, s, f)'  BY <2>3, ViewSame
  <2> QED BY <2>1, <2>2, <2>4
<1> QED BY <1>1, <1>2

\* What is torn and somebody's is torn still.
TornKept == \A k \in VecKeys : \A y \in DOMAIN vecHeap : Of(k, y)' /\ Torn(y) => Torn(y)'

\* Only a search that gives up a torn entry can end its being torn.
LEMMA TornStays ==
  ASSUME NEW r \in VecSearches, vecSearch[r].at # "drop",
         \A q \in VecSearches : q # r => vecSearch'[q] = vecSearch[q]
  PROVE  TornKept
BY DEF TornKept, Torn

\* An entry that is as it was still fits.
LEMMA EntryFits ==
  ASSUME VecFits, SameRuns, OfKept, TornKept, vecLeft'.max = vecLeft.max, NEW k \in VecKeys, NEW x \in DOMAIN vecHeap',
         Of(k, x)', x \in DOMAIN vecHeap => SameView(vecHeap[x], vecHeap'[x])
  PROVE  /\ Solid(x)' => View(k, vecHeap[x].fp, vecHeap[x].seq, vecHeap[x].rows)'
         /\ ~vecHeap'[x].fresh /\ vecHeap'[x].tooBig =>
              /\ vecDb'.fp[k] = vecHeap'[x].fp /\ vecDb'.seq = vecHeap'[x].seq => Large(vecDb.rows[k])'
              /\ \A q \in VecSearches :
                   Busy(q)' /\ vecSearch'[q].key = k /\ vecSearch'[q].fp = vecHeap'[x].fp
                     /\ vecSearch'[q].head = vecHeap'[x].seq => Large(vecSearch[q].rows)'
<1>1. CASE vecHeap'[x].fresh  BY <1>1 DEF Solid
<1>2. CASE ~vecHeap'[x].fresh
  <2>1. x \in DOMAIN vecHeap /\ Of(k, x) /\ SameView(vecHeap[x], vecHeap'[x])  BY <1>2 DEF OfKept
  <2>2. Solid(x)' => View(k, vecHeap[x].fp, vecHeap[x].seq, vecHeap[x].rows)'
    <3> SUFFICES ASSUME Solid(x)' PROVE View(k, vecHeap[x].fp, vecHeap[x].seq, vecHeap[x].rows)'  OBVIOUS
    <3>1. Solid(x)  BY <2>1 DEF Solid, SameView, TornKept
    <3>2. PICK fp, s, f : fp = vecHeap[x].fp /\ s = vecHeap[x].seq /\ f = vecHeap[x].rows  OBVIOUS
    <3>3. View(k, fp, s, f)  BY <3>1, <3>2, <2>1 DEF VecFits, VecEntries
    <3>4. View(k, fp, s, f)'  BY <3>3, ViewSame
    <3>5. vecHeap'[x].fp = fp /\ vecHeap'[x].seq = s /\ vecHeap'[x].rows = f  BY <3>2, <2>1 DEF SameView
    <3> QED BY <3>4, <3>5
  <2>3. ASSUME vecHeap'[x].tooBig
        PROVE  /\ vecDb'.fp[k] = vecHeap'[x].fp /\ vecDb'.seq = vecHeap'[x].seq => Large(vecDb.rows[k])'
               /\ \A q \in VecSearches :
                    Busy(q)' /\ vecSearch'[q].key = k /\ vecSearch'[q].fp = vecHeap'[x].fp
                      /\ vecSearch'[q].head = vecHeap'[x].seq => Large(vecSearch[q].rows)'
    BY <1>2, <2>1, <2>3 DEF VecFits, VecTooBig, SameView, SameRuns, Large
  <2> QED BY <1>2, <2>2, <2>3
<1> QED BY <1>1, <1>2

LEMMA SameViewsFit ==
  ASSUME VecFits, SameRuns, OfKept, TornKept, vecLeft'.max = vecLeft.max,
         \A y \in DOMAIN vecHeap : SameView(vecHeap[y], vecHeap'[y])
  PROVE  VecEntries' /\ VecTooBig'
<1>1. VecEntries'  BY EntryFits DEF VecEntries
<1>2. VecTooBig'  BY EntryFits DEF VecTooBig
<1> QED BY <1>1, <1>2

\* A step of search r that leaves what entries say.
Plain(r) ==
  /\ SameRuns /\ OfKept /\ TornKept /\ UNCHANGED vecLeft
  /\ \A q \in VecSearches : q # r => vecSearch'[q] = vecSearch[q]
  /\ \A y \in DOMAIN vecHeap : SameView(vecHeap[y], vecHeap'[y])

LEMMA PlainKeepsSnapshots ==
  ASSUME VecInv, VecFits, NEW r \in VecSearches, Plain(r), Held(r)',
         vecSearch'[r].at = "answer" => vecSearch'[r].hits = vecSearch'[r].rows
  PROVE  VecSnapshots'
<1> USE DEF Plain
<1>0. VecFrame /\ VecTypes /\ VecRefs  BY DEF VecInv, VecFrame, VecShape
<1>1. VecPast' /\ VecRuns'
  <2>2. \A y \in DOMAIN vecHeap : Placement(y)  BY DEF Placement, SameView
  <2> QED BY <2>2, SearchKeepsRuns
<1>2. VecEntries' /\ VecTooBig'  BY SameViewsFit
<1>3. VecHeld'
  <2> SUFFICES ASSUME NEW q \in VecSearches, q # r PROVE Held(q)'  BY DEF VecHeld
  <2>1. vecSearch'[q] = vecSearch[q] /\ Held(q)  BY DEF VecFits, VecHeld
  <2>2. CASE ~Has(q)
    BY <2>1, <2>2 DEF Held, Has, Holds
  <2>3. CASE Has(q)
    <3>1. SameView(Entry(q), Entry(q)')  BY <2>1, <2>3, <1>0 DEF VecRefs, Entry
    <3> QED BY <2>1, <3>1 DEF Held, Holds, SameView, Large
  <2> QED BY <2>2, <2>3
<1>4. VecExact'  BY DEF VecExact, VecFits, Doing
<1> QED BY <1>1, <1>2, <1>3, <1>4 DEF VecSnapshots, VecFits

LEMMA EndKeepsSnapshots ==
  ASSUME VecInv, VecFits, NEW r \in VecSearches, vecSearch' = [vecSearch EXCEPT ![r] = NoSearch],
         UNCHANGED <<vecDb, vecLeft>>, OfKept, TornKept, \A y \in DOMAIN vecHeap : SameView(vecHeap[y], vecHeap'[y])
  PROVE  VecSnapshots'
<1>0. VecTypes  BY DEF VecInv, VecFrame, VecShape
<1>1. NoSearch.at = "idle"  BY DEF NoSearch
<1>2. /\ SameRuns /\ vecSearch'[r] = NoSearch /\ \A q \in VecSearches : q # r => vecSearch'[q] = vecSearch[q]
  BY <1>0, <1>1, RunsOfMove
<1>3. Plain(r)  BY <1>2 DEF Plain
<1>4. Held(r)'  BY <1>1, <1>2 DEF Held, Holds
<1>5. vecSearch'[r].at # "answer"  BY <1>1, <1>2
<1> QED BY <1>3, <1>4, <1>5, PlainKeepsSnapshots

LEMMA ScanKeepsSnapshots ==
  ASSUME VecInv, NEW r \in VecSearches, vecScan(r) \/ vecAnswered(r)
  PROVE  VecSnapshots'
<1>1. VecFits  BY DEF VecInv, VecSnapshots
<1>2. /\ vecSearch' = [vecSearch EXCEPT ![r] = NoSearch]
      /\ UNCHANGED <<vecDb, vecHeap, vecMap, vecUsed, vecTick, vecLeft>>
  BY DEF vecScan, vecAnswered
<1>3. OfKept  BY <1>2, EndKeepsFrame DEF VecInv
<1>t. TornKept
  <2>1. vecSearch[r].at # "drop"  BY DEF vecScan, vecAnswered, Doing
  <2>2. \A q \in VecSearches : q # r => vecSearch'[q] = vecSearch[q]
    BY <1>2 DEF VecInv, VecFrame, VecShape, VecTypes
  <2> QED BY <2>1, <2>2, TornStays
<1>4. \A y \in DOMAIN vecHeap : SameView(vecHeap[y], vecHeap'[y])  BY <1>2 DEF SameView
<1> QED BY <1>1, <1>2, <1>3, <1>4, <1>t, EndKeepsSnapshots

\* The search that tore an entry leaves it to nobody.
LEMMA FailedKeepsSnapshots ==
  ASSUME VecInv, Unshared, NEW r \in VecSearches, vecFailed(r)
  PROVE  VecSnapshots'
<1>0. VecFrame /\ VecTypes /\ VecHome /\ VecFits  BY DEF VecInv, VecFrame, VecShape, VecSnapshots
<1>1. OfKept /\ \A y \in DOMAIN vecHeap : SameView(vecHeap[y], vecHeap'[y])
  BY <1>0, FailedKeepsFrame
<1>2. vecSearch' = [vecSearch EXCEPT ![r] = NoSearch] /\ UNCHANGED <<vecDb, vecLeft>>
  BY DEF vecFailed
<1>x. PICK x : x = vecSearch[r].entry  OBVIOUS
<1>3. Has(r) /\ vecSearch[r].at = "drop" /\ x \in DOMAIN vecHeap /\ vecSearch[r].key \in VecKeys
  BY <1>0, <1>x, FrameFacts DEF vecFailed, Doing, Has
<1>4. /\ ~Has(r)' /\ \A q \in VecSearches : q # r => vecSearch'[q] = vecSearch[q]
  BY <1>0, <1>2 DEF VecTypes, Has, NoSearch
<1>5. vecMap'[vecSearch[r].key] # x
  <2>1. x # VecNone  BY <1>0, <1>3, HeapForm DEF VecTypes, VecNone
  <2>2. vecMap' = vecDrop(Books, vecSearch[r].key, x).map  BY <1>x DEF vecFailed, SetBooks
  <2> QED BY <2>1, <2>2, <1>0, <1>3 DEF vecDrop, Books, VecTypes
<1>6. ASSUME NEW k \in VecKeys, Of(k, x)' PROVE FALSE
  <2>1. Of(k, x) /\ Of(vecSearch[r].key, x)  BY <1>1, <1>3, <1>6, <1>x DEF OfKept, Of
  <2>2. k = vecSearch[r].key  BY <2>1, <1>0, <1>3 DEF VecHome
  <2> QED BY <2>2, <1>3, <1>4, <1>5, <1>6, <1>x DEF Of, Unshared, Has
<1>7. TornKept
  <2> SUFFICES ASSUME NEW k \in VecKeys, NEW y \in DOMAIN vecHeap, Of(k, y)', Torn(y) PROVE Torn(y)'
    BY DEF TornKept
  <2>1. y # x  BY <1>6
  <2> QED BY <2>1, <1>4, <1>x DEF Torn
<1> QED BY <1>0, <1>1, <1>2, <1>7, EndKeepsSnapshots

LEMMA EntryKeepsSnapshots ==
  ASSUME VecInv, NEW r \in VecSearches, entry(r)
  PROVE  VecSnapshots'
<1>0. VecFrame /\ VecTypes  BY DEF VecInv, VecFrame, VecShape
<1>1. VecFits  BY DEF VecInv, VecSnapshots
<1>2. OfKept /\ \A y \in DOMAIN vecHeap : SameView(vecHeap[y], vecHeap'[y])
  BY <1>0, EntryKeepsFrame
<1>3. Busy(r) /\ vecSearch[r] \in VecRun  BY <1>0, ViewTypes DEF entry, Doing, Busy
<1>4. PICK x : vecSearch' = [vecSearch EXCEPT ![r].at = "lock", ![r].entry = x]  BY DEF entry
<1> DEFINE s == [vecSearch[r] EXCEPT !.at = "lock", !.entry = x]
<1>5. vecSearch' = [vecSearch EXCEPT ![r] = s]  BY <1>4
<1>6. /\ s.at = "lock" /\ s.key = vecSearch[r].key /\ s.head = vecSearch[r].head
      /\ s.fp = vecSearch[r].fp /\ s.rows = vecSearch[r].rows /\ s.log = vecSearch[r].log
  BY <1>3 DEF VecRun
<1> HIDE DEF s
<1>7. UNCHANGED <<vecDb, vecLeft>>  BY DEF entry
<1>8. /\ SameRuns /\ vecSearch'[r] = s /\ \A q \in VecSearches : q # r => vecSearch'[q] = vecSearch[q]
  BY <1>0, <1>3, <1>5, <1>6, <1>7, RunsOfMove
<1>t. TornKept  BY <1>8, TornStays DEF entry, Doing
<1>9. Plain(r)  BY <1>2, <1>7, <1>8, <1>t DEF Plain
<1>10. Held(r)' /\ vecSearch'[r].at # "answer"  BY <1>6, <1>8 DEF Held, Holds
<1> QED BY <1>1, <1>9, <1>10, PlainKeepsSnapshots

LEMMA AccountKeepsSnapshots ==
  ASSUME VecInv, NEW r \in VecSearches, vecAccount(r)
  PROVE  VecSnapshots'
<1>0. VecFrame /\ VecTypes /\ VecRefs  BY DEF VecInv, VecFrame, VecShape
<1>1. VecFits  BY DEF VecInv, VecSnapshots
<1>2. OfKept /\ \A y \in DOMAIN vecHeap : SameView(vecHeap[y], vecHeap'[y])
  BY <1>0, AccountKeepsFrame
<1>3. Busy(r) /\ vecSearch[r] \in VecRun /\ vecSearch[r].at = "account"
      /\ vecSearch[r].rows \in VecRows /\ vecSearch[r].entry \in DOMAIN vecHeap
  BY <1>0, ViewTypes DEF vecAccount, Doing, Busy, VecRefs, Has
<1> DEFINE kept == size(Entry(r)) <= vecLeft.max
           s == [vecSearch[r] EXCEPT !.at = IF kept THEN "score" ELSE "remember"]
<1>4. vecSearch' = [vecSearch EXCEPT ![r].at = IF kept THEN "score" ELSE "remember"]
      /\ UNCHANGED <<vecDb, vecLeft>>
  BY DEF vecAccount
<1>p. kept \in BOOLEAN  OBVIOUS
<1>5. Held(r)  BY <1>1 DEF VecFits, VecHeld
<1>6. kept <=> ~Large(vecSearch[r].rows)
  <2>1. Entry(r).rows = vecSearch[r].rows  BY <1>3, <1>5 DEF Held, Holds
  <2>2. Cardinality(DOMAIN vecSearch[r].rows) \in Nat  BY <1>3, RowsType, FS_CardinalityType
  <2>3. vecLeft.max \in Nat  BY <1>0 DEF VecTypes
  <2> QED BY <2>1, <2>2, <2>3 DEF Large, size
<1> HIDE DEF kept
<1>7. vecSearch' = [vecSearch EXCEPT ![r] = s]  BY <1>4
<1>8. /\ s.at = (IF kept THEN "score" ELSE "remember") /\ s.key = vecSearch[r].key /\ s.head = vecSearch[r].head
      /\ s.fp = vecSearch[r].fp /\ s.rows = vecSearch[r].rows /\ s.log = vecSearch[r].log
      /\ s.entry = vecSearch[r].entry
  BY <1>3 DEF VecRun
<1> HIDE DEF s
<1>9. /\ SameRuns /\ vecSearch'[r] = s /\ \A q \in VecSearches : q # r => vecSearch'[q] = vecSearch[q]
  BY <1>0, <1>3, <1>4, <1>7, <1>8, RunsOfMove
<1>t. TornKept  BY <1>3, <1>9, TornStays
<1>10. Plain(r)  BY <1>2, <1>4, <1>9, <1>t DEF Plain
<1>11. Held(r)'
  <2>1. SameView(Entry(r), Entry(r)')  BY <1>2, <1>3, <1>8, <1>9 DEF Entry
  <2>2. Large(vecSearch[r].rows)' <=> Large(vecSearch[r].rows)  BY <1>4, <1>8, <1>9 DEF Large
  <2> QED BY <2>1, <2>2, <1>3, <1>5, <1>6, <1>8, <1>9, <1>p DEF Held, Holds, SameView
<1>12. vecSearch'[r].at # "answer"  BY <1>8, <1>9, <1>p
<1> QED BY <1>1, <1>10, <1>11, <1>12, PlainKeepsSnapshots

\* An entry at the position of a search holds the search's rows.
LEMMA ThereIsExact ==
  ASSUME VecInv, VecFits, NEW r \in VecSearches, Has(r), Solid(vecSearch[r].entry), StillThere(r)
  PROVE  Entry(r).rows = vecSearch[r].rows
<1>0. VecFrame /\ VecTypes /\ VecPast  BY DEF VecInv, VecFrame, VecShape, VecSnapshots
<1>1. /\ vecSearch[r].entry \in DOMAIN vecHeap /\ vecSearch[r].key \in VecKeys /\ Busy(r)
      /\ Of(vecSearch[r].key, vecSearch[r].entry)
  BY <1>0, FrameFacts DEF Of, Has, Busy
<1>2. AgreesWithRun(vecSearch[r].key, Entry(r).fp, Entry(r).seq, Entry(r).rows, r)
  BY <1>1 DEF VecFits, VecEntries, View, Entry
<1>3. Agrees(vecSearch[r].key, vecSearch[r].head, Entry(r).rows, vecSearch[r].head, vecSearch[r].rows,
             vecSearch[r].log)
  BY <1>1, <1>2 DEF AgreesWithRun, StillThere
<1>4. /\ vecSearch[r].head \in Nat /\ vecSearch[r].rows \in VecRows /\ vecSearch[r].log \in SUBSET VecChange
      /\ Entry(r).rows \in VecRows
  BY <1>0, <1>1, ViewTypes DEF Entry
<1>5. LogPast(vecSearch[r].log, vecSearch[r].head)  BY <1>0, <1>1 DEF VecPast, LogPast
<1> QED BY <1>3, <1>4, <1>5, SamePosition

LEMMA ScoreKeepsSnapshots ==
  ASSUME VecInv, Unshared, NEW r \in VecSearches, score(r)
  PROVE  VecSnapshots'
<1>0. VecFrame /\ VecTypes  BY DEF VecInv, VecFrame, VecShape
<1>1. VecFits  BY DEF VecInv, VecSnapshots
<1>2. OfKept  BY <1>0, ScoreKeepsFrame
<1>3. UNCHANGED <<vecDb, vecHeap, vecLeft>> /\ vecSearch[r].at = "score"  BY DEF score, Doing
<1>4. \A y \in DOMAIN vecHeap : SameView(vecHeap[y], vecHeap'[y])  BY <1>3 DEF SameView
<1>t. TornKept
  <2>1. \A q \in VecSearches : q # r => vecSearch'[q] = vecSearch[q]  BY <1>0 DEF score, VecTypes
  <2> QED BY <2>1, <1>3, TornStays
<1>5. CASE ~StillThere(r)
  <2>1. vecSearch' = [vecSearch EXCEPT ![r] = NoSearch]  BY <1>5 DEF score
  <2> QED BY <2>1, <1>1, <1>2, <1>3, <1>4, <1>t, EndKeepsSnapshots
<1>6. CASE StillThere(r)
  <2> DEFINE s == [vecSearch[r] EXCEPT !.at = "answer", !.hits = Entry(r).rows]
  <2>1. vecSearch' = [vecSearch EXCEPT ![r] = s]  BY <1>6 DEF score
  <2>2. Has(r) /\ Busy(r) /\ vecSearch[r] \in VecRun /\ vecSearch[r].entry \in DOMAIN vecHeap
        /\ vecSearch[r].key \in VecKeys
    BY <1>0, <1>3, FrameFacts DEF Has, Busy
  <2>3. /\ s.at = "answer" /\ s.key = vecSearch[r].key /\ s.head = vecSearch[r].head
        /\ s.fp = vecSearch[r].fp /\ s.rows = vecSearch[r].rows /\ s.log = vecSearch[r].log
        /\ s.hits = Entry(r).rows
    BY <2>2 DEF VecRun
  <2>4. ~Entry(r).fresh /\ ~Large(vecSearch[r].rows)  BY <1>1, <1>3 DEF VecFits, VecHeld, Held
  <2>5. ~Entry(r).tooBig
    <3>1. Of(vecSearch[r].key, vecSearch[r].entry)  BY <2>2 DEF Of
    <3> QED BY <3>1, <2>2, <2>4, <1>1, <1>6 DEF VecFits, VecTooBig, Entry, StillThere
  <2>6. Entry(r).rows = vecSearch[r].rows
    <3>1. Solid(vecSearch[r].entry)  BY <2>2, <2>4, <2>5, <1>3 DEF Solid, Entry, Torn, Unshared
    <3> QED BY <3>1, <2>2, <1>1, <1>6, ThereIsExact
  <2> HIDE DEF s
  <2>7. /\ SameRuns /\ vecSearch'[r] = s /\ \A q \in VecSearches : q # r => vecSearch'[q] = vecSearch[q]
    BY <1>0, <1>3, <2>1, <2>2, <2>3, RunsOfMove
  <2>8. Plain(r)  BY <1>2, <1>3, <1>4, <1>t, <2>7 DEF Plain
  <2>9. Held(r)' /\ vecSearch'[r].hits = vecSearch'[r].rows  BY <2>3, <2>6, <2>7 DEF Held, Holds
  <2> QED BY <1>1, <2>8, <2>9, PlainKeepsSnapshots
<1> QED BY <1>5, <1>6

\* Filling makes an entry the search's own snapshot: the whole column read anew, the
\* rows the log names read anew over the others, or the entry as it is.
LEMMA FillIsExact ==
  ASSUME VecInv, VecFits, Unshared, NEW r \in VecSearches, Has(r), vecSearch[r].at # "drop", ~Unusable(r, Entry(r))
  PROVE  LET e == Filled(r, Entry(r))
         IN /\ e.rows = vecSearch[r].rows /\ e.seq = vecSearch[r].head /\ e.fp = vecSearch[r].fp
            /\ ~e.fresh
<1>0. VecFrame /\ VecTypes /\ VecPast  BY DEF VecInv, VecFrame, VecShape, VecSnapshots
<1>d. PICK d : d = Entry(r)  OBVIOUS
<1>1. /\ vecSearch[r].entry \in DOMAIN vecHeap /\ vecSearch[r].key \in VecKeys /\ Busy(r)
      /\ Of(vecSearch[r].key, vecSearch[r].entry)
  BY <1>0, FrameFacts DEF Of, Has, Busy
<1>2. /\ vecSearch[r].head \in Nat /\ vecSearch[r].rows \in VecRows /\ vecSearch[r].log \in SUBSET VecChange
      /\ d \in VecEntry /\ d.rows \in VecRows /\ d.seq \in Nat
  BY <1>0, <1>1, <1>d, ViewTypes DEF Entry
<1>3. CASE Reads(r, d)
  <2>1. Filled(r, d) = rebuild(r, d)  BY <1>3 DEF Filled
  <2> QED BY <2>1, <1>2, <1>d DEF rebuild, VecEntry
<1>4. CASE ~Reads(r, d)
  <2>1. ~d.tooBig /\ ~d.fresh /\ d.fp = vecSearch[r].fp /\ (d.seq < vecSearch[r].head => LogReaches(r, d))
    BY <1>4 DEF Reads, NewLife
  <2>2. d.seq <= vecSearch[r].head  BY <2>1, <1>2, <1>d DEF Unusable, Ahead
  <2>3. Solid(vecSearch[r].entry)  BY <2>1, <1>d DEF Solid, Entry, Torn, Unshared
  <2>4. Agrees(vecSearch[r].key, d.seq, d.rows, vecSearch[r].head, vecSearch[r].rows, vecSearch[r].log)
    <3>1. AgreesWithRun(vecSearch[r].key, Entry(r).fp, Entry(r).seq, Entry(r).rows, r)
      BY <1>1, <2>3 DEF VecFits, VecEntries, View, Entry
    <3> QED BY <3>1, <1>1, <1>d, <2>1 DEF AgreesWithRun
  <2>5. CASE d.seq < vecSearch[r].head
    <3>1. Filled(r, d) = catchUp(r, d)  BY <1>4, <2>5 DEF Filled
    <3>2. Reached(vecSearch[r].log, d.seq)  BY <2>1, <2>5 DEF LogReaches, Reached
    <3>3. PICK t : t = Touched(vecSearch[r].log, vecSearch[r].key, d.seq)  OBVIOUS
    <3>4. ChangedIds(r, d) = t  BY <3>3 DEF ChangedIds, Touched
    <3> DEFINE g == vecSearch[r].rows
               new == Over(Restrict(g, DOMAIN g \cap t), Restrict(d.rows, DOMAIN d.rows \ t))
    <3>5. new = g  BY <1>2, <2>2, <2>4, <3>2, <3>3, CatchUpIsExact
    <3>6. catchUp(r, d) = [d EXCEPT !.rows = new, !.seq = vecSearch[r].head]
      BY <3>4 DEF catchUp
    <3> HIDE DEF new
    <3>7. /\ catchUp(r, d).rows = vecSearch[r].rows /\ catchUp(r, d).seq = vecSearch[r].head
          /\ catchUp(r, d).fp = d.fp /\ catchUp(r, d).fresh = d.fresh
      BY <3>5, <3>6, <1>2 DEF VecEntry
    <3> QED BY <3>1, <3>7, <2>1, <1>d
  <2>6. CASE d.seq = vecSearch[r].head
    <3>1. Filled(r, d) = d  BY <1>4, <2>6, <1>2 DEF Filled
    <3>2. StillThere(r)  BY <2>1, <2>6, <1>d DEF StillThere
    <3>3. d.rows = vecSearch[r].rows  BY <3>2, <2>3, <1>d, ThereIsExact
    <3> QED BY <3>1, <3>3, <2>1, <2>6, <1>d
  <2> QED BY <2>2, <2>5, <2>6, <1>2
<1> QED BY <1>3, <1>4

LEMMA FillKeepsSnapshots ==
  ASSUME VecInv, Unshared, NEW r \in VecSearches, vecFill(r)
  PROVE  VecSnapshots'
<1>0. VecFrame /\ VecTypes /\ VecRefs /\ VecLocks  BY DEF VecInv, VecFrame, VecShape
<1>1. VecFits  BY DEF VecInv, VecSnapshots
<1>x. PICK x : x = vecSearch[r].entry  OBVIOUS
<1>2. /\ VecFrame' /\ OfKept /\ DOMAIN vecHeap' = DOMAIN vecHeap
      /\ vecHeap'[x] = [Filled(r, Entry(r)) EXCEPT !.tooBig = FALSE, !.lock = TRUE]
      /\ \A y \in DOMAIN vecHeap : y # x => vecHeap'[y] = vecHeap[y]
  BY <1>0, <1>x, FillKeepsFrame
<1>3. /\ Has(r) /\ Busy(r) /\ vecSearch[r] \in VecRun /\ x \in DOMAIN vecHeap /\ Entry(r) \in VecEntry
      /\ vecSearch[r].key \in VecKeys
  BY <1>0, <1>x, FrameFacts DEF vecFill, Doing, Has, Busy, Entry
<1>4. /\ vecHeap'[x].rows = vecSearch[r].rows /\ vecHeap'[x].seq = vecSearch[r].head
      /\ vecHeap'[x].fp = vecSearch[r].fp /\ ~vecHeap'[x].fresh /\ ~vecHeap'[x].tooBig
  <2>1. PICK e : e = Filled(r, Entry(r))  OBVIOUS
  <2>2. e \in VecEntry  BY <2>1, <1>3, FilledType
  <2>3. e.rows = vecSearch[r].rows /\ e.seq = vecSearch[r].head /\ e.fp = vecSearch[r].fp /\ ~e.fresh
    BY <2>1, <1>1, <1>3, FillIsExact DEF vecFill, Doing
  <2>4. vecHeap'[x] = [e EXCEPT !.tooBig = FALSE, !.lock = TRUE]  BY <2>1, <1>2
  <2> QED BY <2>2, <2>3, <2>4 DEF VecEntry
<1>5. PICK fits : vecSearch' = [vecSearch EXCEPT ![r].at = "account", ![r].fits = fits]
  BY DEF vecFill
<1> DEFINE s == [vecSearch[r] EXCEPT !.at = "account", !.fits = fits]
<1>6. vecSearch' = [vecSearch EXCEPT ![r] = s] /\ UNCHANGED <<vecDb, vecLeft>>  BY <1>5 DEF vecFill
<1>7. /\ s.at = "account" /\ s.key = vecSearch[r].key /\ s.head = vecSearch[r].head
      /\ s.fp = vecSearch[r].fp /\ s.rows = vecSearch[r].rows /\ s.log = vecSearch[r].log
      /\ s.entry = x
  BY <1>3, <1>x DEF VecRun
<1> HIDE DEF s
<1>8. /\ SameRuns /\ vecSearch'[r] = s /\ \A q \in VecSearches : q # r => vecSearch'[q] = vecSearch[q]
  BY <1>0, <1>3, <1>6, <1>7, RunsOfMove
<1>t. TornKept  BY <1>8, TornStays DEF vecFill, Doing
<1>9. \A y \in DOMAIN vecHeap : y # x => SameView(vecHeap[y], vecHeap'[y])  BY <1>2 DEF SameView
<1>10. VecPast' /\ VecRuns'
  <2>2. \A y \in DOMAIN vecHeap : Placement(y)  BY <1>3, <1>4, <1>9, <1>x DEF Placement, SameView
  <2> QED BY <2>2, <1>2, <1>8, SearchKeepsRuns
<1>11. VecEntries'
  <2> SUFFICES ASSUME NEW k \in VecKeys, NEW y \in DOMAIN vecHeap', Of(k, y)', Solid(y)'
               PROVE  View(k, vecHeap[y].fp, vecHeap[y].seq, vecHeap[y].rows)'
    BY DEF VecEntries
  <2>1. CASE y # x  BY <2>1, <1>1, <1>2, <1>6, <1>8, <1>9, <1>t, EntryFits
  <2>2. CASE y = x
    <3>1. Busy(r)' /\ Has(r)'  BY <1>7, <1>8 DEF Busy, Has
    <3>2. View(vecSearch[r].key, vecSearch[r].fp, vecSearch[r].head, vecSearch[r].rows)'
      BY <3>1, <1>10 DEF VecRuns
    <3>3. Of(vecSearch[r].key, x)'  BY <3>1, <1>7, <1>8 DEF Of
    <3>4. vecSearch'[r].key = k
      BY <2>2, <3>3, <1>2, <1>3, <1>7, <1>8 DEF VecFrame, VecShape, VecHome
    <3> QED BY <2>2, <3>2, <3>4, <1>4, <1>7, <1>8
  <2> QED BY <2>1, <2>2
<1>12. VecTooBig'
  <2> SUFFICES ASSUME NEW k \in VecKeys, NEW y \in DOMAIN vecHeap', Of(k, y)', ~vecHeap'[y].fresh,
                      vecHeap'[y].tooBig
               PROVE  /\ vecDb'.fp[k] = vecHeap'[y].fp /\ vecDb'.seq = vecHeap'[y].seq => Large(vecDb.rows[k])'
                      /\ \A q \in VecSearches :
                           Busy(q)' /\ vecSearch'[q].key = k /\ vecSearch'[q].fp = vecHeap'[y].fp
                             /\ vecSearch'[q].head = vecHeap'[y].seq => Large(vecSearch[q].rows)'
    BY DEF VecTooBig
  <2>1. y # x  BY <1>4
  <2> QED BY <2>1, <1>1, <1>2, <1>6, <1>8, <1>9, <1>t, EntryFits
<1>13. VecHeld'
  <2>1. Held(r)'  BY <1>4, <1>7, <1>8 DEF Held, Holds, Entry
  <2>2. ASSUME NEW q \in VecSearches, q # r PROVE Held(q)'
    <3>1. vecSearch'[q] = vecSearch[q] /\ Held(q)  BY <2>2, <1>1, <1>8 DEF VecFits, VecHeld
    <3>2. CASE ~Has(q)  BY <3>1, <3>2 DEF Held, Has, Holds
    <3>3. CASE Has(q) /\ vecSearch[q].entry # x
      <4>1. Entry(q)' = Entry(q)  BY <3>1, <3>3, <1>0, <1>2 DEF VecRefs, Entry
      <4> QED BY <3>1, <4>1, <1>6 DEF Held, Holds, Large
    <3>4. CASE Has(q) /\ vecSearch[q].entry = x
      <4>1. ~Holds(q)
        <5>1. ~vecHeap[x].lock  BY <1>x DEF vecFill, Entry
        <5> QED BY <3>4, <5>1, <1>0 DEF VecLocks, Entry
      <4>2. ~Entry(q)'.fresh  BY <3>1, <3>4, <1>4 DEF Entry
      <4> QED BY <3>1, <4>1, <4>2, <1>6 DEF Held, Holds, Large
    <3> QED BY <3>2, <3>3, <3>4
  <2> QED BY <2>1, <2>2 DEF VecHeld
<1>14. VecExact'
  BY <1>1, <1>7, <1>8 DEF VecExact, VecFits, Doing
<1> QED BY <1>10, <1>11, <1>12, <1>13, <1>14 DEF VecSnapshots, VecFits

\* An entry is remembered as too big at a position where its column is.
LEMMA RememberKeepsSnapshots ==
  ASSUME VecInv, NEW r \in VecSearches, remember(r)
  PROVE  VecSnapshots'
<1>0. VecFrame /\ VecTypes /\ VecRefs /\ VecLocks /\ VecHome /\ VecPast /\ VecRuns
  BY DEF VecInv, VecFrame, VecShape, VecSnapshots
<1>1. VecFits  BY DEF VecInv, VecSnapshots
<1>x. PICK x : x = vecSearch[r].entry  OBVIOUS
<1>2. /\ OfKept /\ DOMAIN vecHeap' = DOMAIN vecHeap
      /\ \A y \in DOMAIN vecHeap : y # x => SameView(vecHeap[y], vecHeap'[y])
      /\ vecHeap'[x].tooBig /\ vecHeap'[x].fp = vecSearch[r].fp /\ vecHeap'[x].seq = vecSearch[r].head
      /\ vecHeap'[x].fresh = Entry(r).fresh
  BY <1>0, <1>x, RememberKeepsFrame
<1>3. /\ Has(r) /\ Busy(r) /\ Holds(r) /\ x \in DOMAIN vecHeap /\ vecSearch[r].key \in VecKeys
      /\ vecSearch[r].at = "remember"
  BY <1>0, <1>x, FrameFacts DEF remember, Doing, Has, Busy, Holds
<1>4. ~vecHeap'[x].fresh /\ Large(vecSearch[r].rows)
  BY <1>1, <1>2, <1>3 DEF VecFits, VecHeld, Held
<1>5. vecSearch' = [vecSearch EXCEPT ![r] = NoSearch] /\ UNCHANGED <<vecDb, vecLeft>>  BY DEF remember
<1>6. NoSearch.at = "idle"  BY DEF NoSearch
<1>7. /\ SameRuns /\ vecSearch'[r] = NoSearch /\ \A q \in VecSearches : q # r => vecSearch'[q] = vecSearch[q]
  BY <1>0, <1>5, <1>6, RunsOfMove
<1>t. TornKept  BY <1>3, <1>7, TornStays
<1>8. VecPast' /\ VecRuns'
  <2>2. \A y \in DOMAIN vecHeap : Placement(y)  BY <1>2, <1>3, <1>x DEF Placement, SameView
  <2> QED BY <2>2, <1>2, <1>7, SearchKeepsRuns
<1>9. VecEntries'
  <2> SUFFICES ASSUME NEW k \in VecKeys, NEW y \in DOMAIN vecHeap', Of(k, y)', Solid(y)'
               PROVE  View(k, vecHeap[y].fp, vecHeap[y].seq, vecHeap[y].rows)'
    BY DEF VecEntries
  <2>1. y # x  BY <1>2 DEF Solid
  <2> QED BY <2>1, <1>1, <1>2, <1>5, <1>7, <1>t, EntryFits
<1>10. VecTooBig'
  <2> SUFFICES ASSUME NEW k \in VecKeys, NEW y \in DOMAIN vecHeap', Of(k, y)', ~vecHeap'[y].fresh,
                      vecHeap'[y].tooBig
               PROVE  /\ vecDb'.fp[k] = vecHeap'[y].fp /\ vecDb'.seq = vecHeap'[y].seq => Large(vecDb.rows[k])'
                      /\ \A q \in VecSearches :
                           Busy(q)' /\ vecSearch'[q].key = k /\ vecSearch'[q].fp = vecHeap'[y].fp
                             /\ vecSearch'[q].head = vecHeap'[y].seq => Large(vecSearch[q].rows)'
    BY DEF VecTooBig
  <2>1. CASE y # x  BY <2>1, <1>1, <1>2, <1>5, <1>7, <1>t, EntryFits
  <2>2. CASE y = x
    <3>1. k = vecSearch[r].key
      <4>1. Of(k, x) /\ Of(vecSearch[r].key, x)  BY <2>2, <1>2, <1>3, <1>x DEF OfKept, Of
      <4> QED BY <4>1, <1>0, <1>3 DEF VecHome
    <3>2. View(k, vecSearch[r].fp, vecSearch[r].head, vecSearch[r].rows)
      BY <3>1, <1>0, <1>3 DEF VecRuns
    <3>3. vecSearch[r].head \in Nat /\ vecSearch[r].rows \in VecRows  BY <1>0, <1>3, ViewTypes
    <3>4. vecDb.fp[k] = vecSearch[r].fp /\ vecDb.seq = vecSearch[r].head => vecDb.rows[k] = vecSearch[r].rows
      <4> SUFFICES ASSUME vecDb.fp[k] = vecSearch[r].fp, vecDb.seq = vecSearch[r].head
                   PROVE  vecDb.rows[k] = vecSearch[r].rows
        OBVIOUS
      <4>1. Agrees(k, vecSearch[r].head, vecSearch[r].rows, vecSearch[r].head, vecDb.rows[k], vecDb.log)
        BY <3>2 DEF View, AgreesWithDb
      <4>2. vecDb.rows[k] \in VecRows /\ vecDb.log \in SUBSET VecChange  BY <1>0, ViewTypes
      <4>3. LogPast(vecDb.log, vecSearch[r].head)  BY <1>0 DEF VecPast, LogPast
      <4> QED BY <3>3, <4>1, <4>2, <4>3, SamePosition
    <3>5. ASSUME NEW q \in VecSearches, Busy(q), vecSearch[q].key = k, vecSearch[q].fp = vecSearch[r].fp,
                 vecSearch[q].head = vecSearch[r].head
          PROVE  vecSearch[q].rows = vecSearch[r].rows
      <4>1. Agrees(k, vecSearch[r].head, vecSearch[r].rows, vecSearch[r].head, vecSearch[q].rows,
                   vecSearch[q].log)
        BY <3>2, <3>5 DEF View, AgreesWithRun
      <4>2. vecSearch[q].rows \in VecRows /\ vecSearch[q].log \in SUBSET VecChange  BY <3>5, <1>0, ViewTypes
      <4>3. LogPast(vecSearch[q].log, vecSearch[r].head)  BY <3>5, <1>0 DEF VecPast, LogPast
      <4> QED BY <3>3, <4>1, <4>2, <4>3, SamePosition
    <3> QED BY <2>2, <3>4, <3>5, <1>2, <1>4, <1>5, <1>7 DEF SameRuns, Large
  <2> QED BY <2>1, <2>2
<1>11. VecHeld'
  <2>1. Held(r)'  BY <1>6, <1>7 DEF Held, Holds
  <2>2. ASSUME NEW q \in VecSearches, q # r PROVE Held(q)'
    <3>1. vecSearch'[q] = vecSearch[q] /\ Held(q)  BY <2>2, <1>1, <1>7 DEF VecFits, VecHeld
    <3>2. CASE ~Has(q)  BY <3>1, <3>2 DEF Held, Has, Holds
    <3>3. CASE Has(q) /\ vecSearch[q].entry # x
      <4>1. SameView(Entry(q), Entry(q)')  BY <3>1, <3>3, <1>0, <1>2 DEF VecRefs, Entry
      <4> QED BY <3>1, <4>1, <1>5 DEF Held, Holds, Large, SameView
    <3>4. CASE Has(q) /\ vecSearch[q].entry = x
      <4>1. ~Holds(q)  BY <2>2, <3>4, <1>0, <1>3, <1>x DEF VecLocks
      <4>2. ~Entry(q)'.fresh  BY <3>1, <3>4, <1>4 DEF Entry
      <4> QED BY <3>1, <4>1, <4>2, <1>5 DEF Held, Holds, Large
    <3> QED BY <3>2, <3>3, <3>4
  <2> QED BY <2>1, <2>2 DEF VecHeld
<1>12. VecExact'
  BY <1>1, <1>6, <1>7 DEF VecExact, VecFits, Doing
<1> QED BY <1>8, <1>9, <1>10, <1>11, <1>12 DEF VecSnapshots, VecFits

\* A read fails: the entry keeps its place and is torn until it is taken out of the map.
LEMMA FillFailsKeepsSnapshots ==
  ASSUME VecInv, NEW r \in VecSearches, vecFillFails(r), Unshared'
  PROVE  VecSnapshots'
<1>0. VecFrame /\ VecTypes /\ VecRefs /\ VecFits  BY DEF VecInv, VecFrame, VecShape, VecSnapshots
<1>x. PICK x : x = vecSearch[r].entry  OBVIOUS
<1>1. /\ Has(r) /\ Busy(r) /\ vecSearch[r] \in VecRun /\ x \in DOMAIN vecHeap /\ vecHeap[x] \in VecEntry
  BY <1>0, <1>x, FrameFacts DEF vecFillFails, Doing, Has, Busy
<1>2. VecFrame' /\ OfKept  BY <1>0, FillFailsKeepsFrame
<1>3. PICK rows : vecHeap' = [vecHeap EXCEPT ![x].rows = rows, ![x].tooBig = FALSE]
  BY <1>x DEF vecFillFails
<1>h. \E n \in Nat : vecHeap \in [1 .. n -> VecEntry]  BY <1>0, HeapForm DEF VecTypes
<1>4. /\ DOMAIN vecHeap' = DOMAIN vecHeap /\ \A y \in DOMAIN vecHeap : y # x => vecHeap'[y] = vecHeap[y]
      /\ vecHeap'[x].fp = vecHeap[x].fp /\ vecHeap'[x].seq = vecHeap[x].seq
      /\ vecHeap'[x].fresh = vecHeap[x].fresh /\ ~vecHeap'[x].tooBig
  BY <1>1, <1>3, <1>h DEF VecEntry
<1> DEFINE s == [vecSearch[r] EXCEPT !.at = "drop"]
<1>5. vecSearch' = [vecSearch EXCEPT ![r] = s] /\ UNCHANGED vecDb  BY DEF vecFillFails
<1>6. /\ s.at = "drop" /\ s.key = vecSearch[r].key /\ s.head = vecSearch[r].head
      /\ s.fp = vecSearch[r].fp /\ s.rows = vecSearch[r].rows /\ s.log = vecSearch[r].log
      /\ s.entry = x
  BY <1>1, <1>x DEF VecRun
<1> HIDE DEF s
<1>7. /\ SameRuns /\ vecSearch'[r] = s /\ \A q \in VecSearches : q # r => vecSearch'[q] = vecSearch[q]
  BY <1>0, <1>1, <1>5, <1>6, RunsOfMove
<1>8. vecLeft'.max = vecLeft.max  BY <1>0 DEF vecFillFails, VecTypes
<1>9. TornKept /\ Torn(x)'
  <2>1. TornKept  BY <1>7, TornStays DEF vecFillFails, Doing
  <2>2. Torn(x)'  BY <1>6, <1>7 DEF Torn
  <2> QED BY <2>1, <2>2
<1>10. \A y \in DOMAIN vecHeap : y # x => SameView(vecHeap[y], vecHeap'[y])  BY <1>4 DEF SameView
<1>11. VecPast' /\ VecRuns'
  <2>1. \A y \in DOMAIN vecHeap : Placement(y)  BY <1>4 DEF Placement
  <2> QED BY <2>1, <1>2, <1>7, SearchKeepsRuns
<1>12. VecEntries'
  <2> SUFFICES ASSUME NEW k \in VecKeys, NEW y \in DOMAIN vecHeap', Of(k, y)', Solid(y)'
               PROVE  View(k, vecHeap[y].fp, vecHeap[y].seq, vecHeap[y].rows)'
    BY DEF VecEntries
  <2>1. y # x  BY <1>9 DEF Solid
  <2> QED BY <2>1, <1>0, <1>2, <1>7, <1>8, <1>9, <1>10, EntryFits
<1>13. VecTooBig'
  <2> SUFFICES ASSUME NEW k \in VecKeys, NEW y \in DOMAIN vecHeap', Of(k, y)', ~vecHeap'[y].fresh,
                      vecHeap'[y].tooBig
               PROVE  /\ vecDb'.fp[k] = vecHeap'[y].fp /\ vecDb'.seq = vecHeap'[y].seq => Large(vecDb.rows[k])'
                      /\ \A q \in VecSearches :
                           Busy(q)' /\ vecSearch'[q].key = k /\ vecSearch'[q].fp = vecHeap'[y].fp
                             /\ vecSearch'[q].head = vecHeap'[y].seq => Large(vecSearch[q].rows)'
    BY DEF VecTooBig
  <2>1. y # x  BY <1>4
  <2> QED BY <2>1, <1>0, <1>2, <1>7, <1>8, <1>9, <1>10, EntryFits
<1>14. VecHeld'
  <2>1. Held(r)'  BY <1>6, <1>7 DEF Held, Holds
  <2>2. ASSUME NEW q \in VecSearches, q # r PROVE Held(q)'
    <3>1. vecSearch'[q] = vecSearch[q] /\ Held(q)  BY <2>2, <1>0, <1>7 DEF VecFits, VecHeld
    <3>2. CASE ~Has(q)  BY <3>1, <3>2 DEF Held, Has, Holds
    <3>3. CASE Has(q)
      <4>1. vecSearch[q].entry # x  BY <2>2, <3>1, <3>3, <1>6, <1>7 DEF Unshared, Has
      <4>2. Entry(q)' = Entry(q)  BY <3>1, <3>3, <4>1, <1>0, <1>4 DEF VecRefs, Entry
      <4> QED BY <3>1, <4>2, <1>8 DEF Held, Holds, Large
    <3> QED BY <3>2, <3>3
  <2> QED BY <2>1, <2>2 DEF VecHeld
<1>15. VecExact'
  BY <1>0, <1>6, <1>7 DEF VecExact, VecFits, Doing
<1> QED BY <1>11, <1>12, <1>13, <1>14, <1>15 DEF VecSnapshots, VecFits

\* A search begins: it sees what is committed, which every other search's view fits.
LEMMA BeginKeepsSnapshots ==
  ASSUME VecInv, NEW r \in VecSearches, NEW k \in VecKeys, vecBegin(r, k)
  PROVE  VecSnapshots'
<1>0. VecFrame /\ VecTypes /\ VecPast /\ VecRuns /\ VecFits
  BY DEF VecInv, VecFrame, VecShape, VecSnapshots
<1>1. /\ UNCHANGED <<vecDb, vecHeap, vecMap>> /\ vecSearch'[r].at = "entry"
      /\ vecSearch'[r].key = k /\ vecSearch'[r].head = vecDb.seq
      /\ vecSearch'[r].fp = vecDb.fp[k] /\ vecSearch'[r].rows = vecDb.rows[k]
      /\ vecSearch'[r].log = vecDb.log
      /\ \A q \in VecSearches : q # r => vecSearch'[q] = vecSearch[q]
  BY <1>0 DEF vecBegin, VecTypes
<1>2. vecSearch[r].at = "idle"  BY DEF vecBegin, Doing
<1>3. vecLeft'.max = vecLeft.max  BY <1>0 DEF vecBegin, VecTypes
<1>4. vecDb.seq \in Nat /\ vecDb.log \in SUBSET VecChange
      /\ \A l \in VecKeys : vecDb.fp[l] \in Nat /\ vecDb.rows[l] \in VecRows
  BY <1>0, ViewTypes
<1>5. /\ \A l, y : Of(l, y)' <=> Of(l, y)
      /\ \A y : Torn(y)' <=> Torn(y)
      /\ \A q \in VecSearches : q # r => (Busy(q)' <=> Busy(q))
  <2>1. \A q \in VecSearches : Has(q)' <=> Has(q)  BY <1>1, <1>2 DEF Has
  <2>2. ASSUME NEW l, NEW y PROVE Of(l, y)' <=> Of(l, y)
    <3>1. \A q \in VecSearches : Has(q) => vecSearch'[q] = vecSearch[q]  BY <1>1, <1>2 DEF Has
    <3> QED BY <2>1, <3>1, <1>1 DEF Of
  <2>3. \A y : Torn(y)' <=> Torn(y)  BY <1>1, <1>2 DEF Torn
  <2>4. \A q \in VecSearches : q # r => (Busy(q)' <=> Busy(q))  BY <1>1 DEF Busy
  <2> QED BY <2>2, <2>3, <2>4
<1>6. VecPast'
  <2>1. \A c \in vecDb'.log : c.seq <= vecDb'.seq  BY <1>0, <1>1 DEF VecPast
  <2>2. ASSUME NEW q \in VecSearches, Busy(q)'
        PROVE  /\ vecSearch'[q].head <= vecDb'.seq /\ vecSearch'[q].fp <= vecDb'.fp[vecSearch'[q].key]
               /\ \A c \in vecSearch'[q].log : c.seq <= vecSearch'[q].head
    <3>1. CASE q = r  BY <3>1, <2>1, <1>1, <1>4
    <3>2. CASE q # r  BY <3>2, <2>2, <1>0, <1>1, <1>5 DEF VecPast
    <3> QED BY <3>1, <3>2
  <2>3. ASSUME NEW l \in VecKeys, NEW x \in DOMAIN vecHeap', Of(l, x)', ~vecHeap'[x].fresh
        PROVE  vecHeap'[x].seq <= vecDb'.seq /\ vecHeap'[x].fp <= vecDb'.fp[l]
    BY <2>3, <1>0, <1>1, <1>5 DEF VecPast
  <2> QED BY <2>1, <2>2, <2>3 DEF VecPast
<1>7. View(k, vecDb.fp[k], vecDb.seq, vecDb.rows[k])
  <2>1. AgreesWithDb(k, vecDb.fp[k], vecDb.seq, vecDb.rows[k])  BY OwnPosition DEF AgreesWithDb
  <2>2. ASSUME NEW q \in VecSearches PROVE AgreesWithRun(k, vecDb.fp[k], vecDb.seq, vecDb.rows[k], q)
    <3> SUFFICES ASSUME Busy(q), vecSearch[q].key = k, vecSearch[q].fp = vecDb.fp[k]
                 PROVE  Agrees(k, vecDb.seq, vecDb.rows[k], vecSearch[q].head, vecSearch[q].rows,
                               vecSearch[q].log)
      BY DEF AgreesWithRun
    <3>1. /\ vecSearch[q].head \in Nat /\ vecSearch[q].rows \in VecRows
          /\ vecSearch[q].head <= vecDb.seq
      BY <1>0, ViewTypes DEF VecPast
    <3>2. CASE vecSearch[q].head < vecDb.seq  BY <3>1, <3>2, <1>4 DEF Agrees
    <3>3. CASE vecSearch[q].head = vecDb.seq
      <4>1. Agrees(k, vecDb.seq, vecSearch[q].rows, vecDb.seq, vecDb.rows[k], vecDb.log)
        BY <3>3, <1>0 DEF VecRuns, View, AgreesWithDb
      <4>2. LogPast(vecDb.log, vecDb.seq)  BY <1>0 DEF VecPast, LogPast
      <4>3. vecSearch[q].rows = vecDb.rows[k]  BY <3>1, <4>1, <4>2, <1>4, SamePosition
      <4> QED BY <3>3, <4>3, OwnPosition
    <3> QED BY <3>1, <3>2, <3>3, <1>4
  <2> QED BY <2>1, <2>2 DEF View
<1>8. VecRuns'
  <2> SUFFICES ASSUME NEW q \in VecSearches, Busy(q)'
               PROVE  View(vecSearch[q].key, vecSearch[q].fp, vecSearch[q].head, vecSearch[q].rows)'
    BY DEF VecRuns
  <2>1. PICK l, fp, s, f : l = vecSearch'[q].key /\ fp = vecSearch'[q].fp /\ s = vecSearch'[q].head
                           /\ f = vecSearch'[q].rows
    OBVIOUS
  <2>2. l \in VecKeys /\ View(l, fp, s, f)
    <3>1. CASE q = r  BY <3>1, <2>1, <1>1, <1>7
    <3>2. CASE q # r
      <4>1. Busy(q) /\ vecSearch'[q] = vecSearch[q]  BY <3>2, <1>1, <1>5
      <4>2. l = vecSearch[q].key /\ fp = vecSearch[q].fp /\ s = vecSearch[q].head /\ f = vecSearch[q].rows
        BY <2>1, <4>1
      <4>3. vecSearch[q].key \in VecKeys  BY <4>1, <1>0, ViewTypes
      <4> QED BY <4>1, <4>2, <4>3, <1>0 DEF VecRuns
    <3> QED BY <3>1, <3>2
  <2>3. View(l, fp, s, f)'  BY <2>2, <1>0, ViewAfterBegin
  <2> QED BY <2>1, <2>3
<1>9. VecEntries'
  <2> SUFFICES ASSUME NEW l \in VecKeys, NEW x \in DOMAIN vecHeap, Of(l, x), Solid(x)
               PROVE  View(l, vecHeap[x].fp, vecHeap[x].seq, vecHeap[x].rows)'
    BY <1>1, <1>5 DEF VecEntries, Solid
  <2>1. PICK fp, s, f : fp = vecHeap[x].fp /\ s = vecHeap[x].seq /\ f = vecHeap[x].rows  OBVIOUS
  <2>2. View(l, fp, s, f)  BY <2>1, <1>0 DEF VecFits, VecEntries
  <2>3. View(l, fp, s, f)'  BY <2>2, <1>0, ViewAfterBegin
  <2> QED BY <2>1, <2>3, <1>1
<1>10. VecTooBig'
  <2> SUFFICES ASSUME NEW l \in VecKeys, NEW x \in DOMAIN vecHeap, Of(l, x), ~vecHeap[x].fresh,
                      vecHeap[x].tooBig
               PROVE  /\ vecDb.fp[l] = vecHeap[x].fp /\ vecDb.seq = vecHeap[x].seq => Large(vecDb.rows[l])
                      /\ \A q \in VecSearches :
                           Busy(q)' /\ vecSearch'[q].key = l /\ vecSearch'[q].fp = vecHeap[x].fp
                             /\ vecSearch'[q].head = vecHeap[x].seq => Large(vecSearch'[q].rows)
    BY <1>1, <1>3, <1>5 DEF VecTooBig, Large
  <2>1. /\ vecDb.fp[l] = vecHeap[x].fp /\ vecDb.seq = vecHeap[x].seq => Large(vecDb.rows[l])
        /\ \A q \in VecSearches :
             Busy(q) /\ vecSearch[q].key = l /\ vecSearch[q].fp = vecHeap[x].fp
               /\ vecSearch[q].head = vecHeap[x].seq => Large(vecSearch[q].rows)
    BY <1>0 DEF VecFits, VecTooBig
  <2> QED BY <2>1, <1>1, <1>5
<1>11. VecHeld'
  <2>1. Held(r)'  BY <1>1 DEF Held, Holds
  <2>2. ASSUME NEW q \in VecSearches, q # r PROVE Held(q)'
    BY <2>2, <1>0, <1>1, <1>3 DEF VecFits, VecHeld, Held, Holds, Entry, Large
  <2> QED BY <2>1, <2>2 DEF VecHeld
<1>12. VecExact'
  BY <1>0, <1>1 DEF VecExact, VecFits, Doing
<1> QED BY <1>6, <1>8, <1>9, <1>10, <1>11, <1>12 DEF VecSnapshots, VecFits

-----------------------------------------------------------------------------
(* Every step, and the theorems.                                            *)

LEMMA StepKeepsSnapshots ==
  ASSUME VecInv, Unshared, Unshared', [VecNext]_vecVars
  PROVE  VecSnapshots'
<1>1. CASE UNCHANGED vecVars
  <2>1. UNCHANGED <<vecDb, vecHeap, vecMap, vecUsed, vecTick, vecSearch, vecLeft>>  BY <1>1 DEF vecVars
  <2>2. VecTypes /\ VecPast  BY DEF VecInv, VecFrame, VecShape, VecSnapshots
  <2>3. vecDb.seq \in Nat /\ \A k \in VecKeys : vecDb.fp[k] \in Nat  BY <2>2, ViewTypes
  <2>4. SameRuns  BY <2>1 DEF SameRuns, Busy
  <2>5. ASSUME NEW k \in VecKeys, NEW fp \in Nat, NEW s \in Nat, NEW f, View(k, fp, s, f)
        PROVE  View(k, fp, s, f)'
    BY <2>4, <2>5, ViewSame
  <2>6. LogPast(vecDb'.log, vecDb'.seq)  BY <2>1, <2>2 DEF VecPast, LogPast
  <2>7. DbMoves  BY <2>1, <2>3, <2>5, <2>6 DEF DbMoves
  <2> QED BY <2>7, DbKeepsSnapshots
<1>2. vecLeft.keys \subseteq VecKeys  BY DEF VecInv, VecFrame, VecShape, VecTypes
<1>3. ASSUME NEW k \in vecLeft.keys, NEW i \in VecIds, NEW d \in BOOLEAN, vecWrite(k, i, d) PROVE VecSnapshots'
  BY <1>2, <1>3, WriteKeepsSnapshots
<1>4. CASE vecTrim  BY <1>4, TrimKeepsSnapshots
<1>5. ASSUME NEW k \in vecLeft.keys, NEW m \in BOOLEAN, vecNewLife(k, m) PROVE VecSnapshots'
  BY <1>2, <1>5, NewLifeKeepsSnapshots
<1>6. ASSUME NEW r \in VecSearches, NEW k \in vecLeft.keys, vecBegin(r, k) PROVE VecSnapshots'
  BY <1>2, <1>6, BeginKeepsSnapshots
<1>7. ASSUME NEW r \in VecSearches, entry(r) PROVE VecSnapshots'  BY <1>7, EntryKeepsSnapshots
<1>8. ASSUME NEW r \in VecSearches, vecScan(r) \/ vecAnswered(r) PROVE VecSnapshots'
  BY <1>8, ScanKeepsSnapshots
<1>9. ASSUME NEW r \in VecSearches, vecFill(r) PROVE VecSnapshots'  BY <1>9, FillKeepsSnapshots
<1>10. ASSUME NEW r \in VecSearches, vecFillFails(r) PROVE VecSnapshots'  BY <1>10, FillFailsKeepsSnapshots
<1>11. ASSUME NEW r \in VecSearches, vecFailed(r) PROVE VecSnapshots'  BY <1>11, FailedKeepsSnapshots
<1>12. ASSUME NEW r \in VecSearches, vecAccount(r) PROVE VecSnapshots'  BY <1>12, AccountKeepsSnapshots
<1>13. ASSUME NEW r \in VecSearches, remember(r) PROVE VecSnapshots'  BY <1>13, RememberKeepsSnapshots
<1>14. ASSUME NEW r \in VecSearches, score(r) PROVE VecSnapshots'  BY <1>14, ScoreKeepsSnapshots
<1> QED BY <1>1, <1>3, <1>4, <1>5, <1>6, <1>7, <1>8, <1>9, <1>10, <1>11, <1>12, <1>13, <1>14
        DEF VecNext

LEMMA InitSnapshots == VecInit => VecSnapshots
<1> SUFFICES ASSUME VecInit PROVE VecSnapshots  OBVIOUS
<1>1. DOMAIN vecHeap = {} /\ vecDb.log = {}  BY DEF VecInit
<1>2. \A r \in VecSearches : vecSearch[r].at = "idle"  BY DEF VecInit, NoSearch
<1>3. VecPast /\ VecRuns  BY <1>1, <1>2 DEF VecPast, VecRuns, Busy
<1>4. VecEntries /\ VecTooBig  BY <1>1 DEF VecEntries, VecTooBig
<1>5. VecHeld /\ VecExact  BY <1>2 DEF VecHeld, Held, Holds, VecExact, Doing
<1> QED BY <1>3, <1>4, <1>5 DEF VecSnapshots, VecFits

\* Every search served by the cache scores exactly the vectors of its own snapshot,
\* and the cache counts what it holds, for any number of searches, columns, writes,
\* sweeps, migrations, evictions and failing reads, in every behaviour in which no other
\* search has an entry between the read that tears it and its removal from the map.
\* (vector_cache.go lets go of the entry's lock before it removes it: without the
\* hypothesis a search that already has the entry reads the torn rows.)
THEOREM SearchScoresItsSnapshot == VecSpec /\ []Unshared => []VecSound
<1>1. VecInit => VecInv  BY InitFrame, InitSnapshots DEF VecInv
<1>2. VecInv /\ Unshared /\ Unshared' /\ [VecNext]_vecVars => VecInv'
  <2>1. VecInv /\ [VecNext]_vecVars => VecFrame'  BY StepKeepsFrame DEF VecInv
  <2> QED BY <2>1, StepKeepsSnapshots DEF VecInv
<1>3. VecInv => VecSound  BY FrameBooks DEF VecInv, VecSnapshots, VecFits, VecSound
<1> QED BY <1>1, <1>2, <1>3, PTL DEF VecSpec

\* No read fails, or one search is all there is.
Lone ==
  \/ vecLeft.errors = 0 /\ \A r \in VecSearches : vecSearch[r].at # "drop"
  \/ vecLeft.runs <= 1 /\ \A r \in VecSearches : ~Busy(r)
  \/ vecLeft.runs = 0 /\ \A r, q \in VecSearches : Busy(r) /\ Busy(q) => r = q

\* A step in which no search begins, and none fails that could not have.
LEMMA LoneKept ==
  ASSUME VecTypes, Lone, vecLeft'.runs = vecLeft.runs, vecLeft.errors = 0 => vecLeft'.errors = 0,
         \A q \in VecSearches : Busy(q)' => Busy(q),
         \A q \in VecSearches : vecSearch'[q].at = "drop" => vecLeft.errors > 0 \/ vecSearch[q].at = "drop"
  PROVE  Lone'
<1>1. vecLeft.errors \in Nat /\ vecLeft.runs \in Nat  BY DEF VecTypes
<1>2. CASE vecLeft.errors = 0 /\ \A r \in VecSearches : vecSearch[r].at # "drop"  BY <1>1, <1>2 DEF Lone
<1>3. CASE vecLeft.runs <= 1 /\ \A r \in VecSearches : ~Busy(r)  BY <1>3 DEF Lone
<1>4. CASE vecLeft.runs = 0 /\ \A r, q \in VecSearches : Busy(r) /\ Busy(q) => r = q  BY <1>4 DEF Lone
<1> QED BY <1>2, <1>3, <1>4 DEF Lone

LEMMA StepKeepsLone ==
  ASSUME VecTypes, Lone, [VecNext]_vecVars
  PROVE  Lone'
<1>0. vecLeft.errors \in Nat /\ vecLeft.runs \in Nat  BY DEF VecTypes
<1>1. CASE UNCHANGED vecVars
  <2>1. UNCHANGED <<vecSearch, vecLeft>>  BY <1>1 DEF vecVars
  <2> QED BY <2>1 DEF Lone, Busy
<1>2. ASSUME \/ \E k \in vecLeft.keys, i \in VecIds, d \in BOOLEAN : vecWrite(k, i, d)
             \/ vecTrim
             \/ \E k \in vecLeft.keys, m \in BOOLEAN : vecNewLife(k, m)
      PROVE  Lone'
  <2>1. UNCHANGED vecSearch /\ vecLeft'.runs = vecLeft.runs /\ vecLeft'.errors = vecLeft.errors
    BY <1>2 DEF vecWrite, vecTrim, vecNewLife, VecTypes
  <2> QED BY <2>1 DEF Lone, Busy
<1>3. ASSUME NEW r \in VecSearches, NEW k \in vecLeft.keys, vecBegin(r, k) PROVE Lone'
  <2>1. /\ vecLeft.runs > 0 /\ vecLeft'.runs = vecLeft.runs - 1 /\ vecLeft'.errors = vecLeft.errors
        /\ vecSearch'[r].at = "entry" /\ \A q \in VecSearches : q # r => vecSearch'[q] = vecSearch[q]
    BY <1>3 DEF vecBegin, VecTypes
  <2>2. CASE vecLeft.errors = 0 /\ \A q \in VecSearches : vecSearch[q].at # "drop"  BY <2>1, <2>2 DEF Lone
  <2>3. CASE vecLeft.runs <= 1 /\ \A q \in VecSearches : ~Busy(q)
    <3>1. vecLeft'.runs = 0  BY <2>1, <2>3, <1>0
    <3>2. \A q \in VecSearches : Busy(q)' => q = r  BY <2>1, <2>3 DEF Busy
    <3> QED BY <3>1, <3>2 DEF Lone
  <2> QED BY <2>1, <2>2, <2>3, <1>0 DEF Lone
<1>4. ASSUME NEW r \in VecSearches,
             \/ entry(r) \/ vecScan(r) \/ vecFill(r) \/ vecFillFails(r) \/ vecFailed(r)
             \/ vecAccount(r) \/ remember(r) \/ score(r) \/ vecAnswered(r)
      PROVE  Lone'
  <2>1. vecSearch[r].at # "idle"
    BY <1>4 DEF entry, vecScan, vecFill, vecFillFails, vecFailed, vecAccount, remember, score, vecAnswered, Doing
  <2>2. vecSearch[r] \in VecRun  BY <2>1 DEF VecTypes, NoSearch
  <2>3. \E s : vecSearch' = [vecSearch EXCEPT ![r] = s]
    BY <1>4 DEF entry, vecScan, vecFill, vecFillFails, vecFailed, vecAccount, remember, score, vecAnswered
  <2>4. \A q \in VecSearches : q # r => vecSearch'[q] = vecSearch[q]  BY <2>3 DEF VecTypes
  <2>5. \A q \in VecSearches : Busy(q)' => Busy(q)  BY <2>1, <2>4 DEF Busy
  <2>6. CASE vecFillFails(r)
    <3>1. vecLeft.errors > 0 /\ vecLeft'.runs = vecLeft.runs  BY <2>6 DEF vecFillFails, VecTypes
    <3> QED BY <3>1, <2>4, <2>5, <1>0, LoneKept
  <2>7. CASE ~vecFillFails(r)
    <3>1. UNCHANGED vecLeft
      BY <1>4, <2>7 DEF entry, vecScan, vecFill, vecFailed, vecAccount, remember, score, vecAnswered
    <3>2. vecSearch'[r].at # "drop"
      <4>1. CASE vecScan(r) \/ vecFailed(r) \/ remember(r) \/ vecAnswered(r)
        BY <4>1 DEF vecScan, vecFailed, remember, vecAnswered, VecTypes, NoSearch
      <4>2. CASE entry(r)  BY <4>2, <2>2 DEF entry, VecTypes, VecRun
      <4>3. CASE vecFill(r)  BY <4>3, <2>2 DEF vecFill, VecTypes, VecRun
      <4>4. CASE vecAccount(r)
        <5>1. PICK a : /\ a = IF size(Entry(r)) <= vecLeft.max THEN "score" ELSE "remember"
                       /\ vecSearch' = [vecSearch EXCEPT ![r].at = a]
          BY <4>4 DEF vecAccount
        <5>2. a # "drop"  BY <5>1
        <5>3. vecSearch'[r].at = a  BY <5>1, <2>2 DEF VecTypes, VecRun
        <5> QED BY <5>2, <5>3
      <4>5. CASE score(r)
        <5>1. CASE StillThere(r)  BY <4>5, <5>1, <2>2 DEF score, VecTypes, VecRun
        <5>2. CASE ~StillThere(r)  BY <4>5, <5>2 DEF score, VecTypes, NoSearch
        <5> QED BY <5>1, <5>2
      <4> QED BY <1>4, <2>7, <4>1, <4>2, <4>3, <4>4, <4>5
    <3> QED BY <3>1, <3>2, <2>4, <2>5, LoneKept
  <2> QED BY <2>6, <2>7
<1> QED BY <1>1, <1>2, <1>3, <1>4 DEF VecNext

\* Where no read fails, or one search is all there is, the hypothesis always holds: the
\* vector-cache scenes that the run checks are such, here with any number of searches,
\* columns, rows, writes, sweeps and lives.
THEOREM SearchScoresItsSnapshotUndisturbed ==
  ASSUME \A b \in VecBounds : b.errors > 0 => b.runs <= 1
  PROVE  VecSpec => []VecSound
<1>1. VecInit => VecFrame /\ Lone
  <2> SUFFICES ASSUME VecInit PROVE Lone  BY InitFrame
  <2>1. vecLeft \in VecBounds /\ \A r \in VecSearches : vecSearch[r].at = "idle"  BY DEF VecInit, NoSearch
  <2>2. vecLeft.errors \in Nat /\ vecLeft.runs \in Nat  BY InitFrame DEF VecFrame, VecShape, VecTypes
  <2> QED BY <2>1, <2>2 DEF Lone, Busy
<1>2. VecFrame /\ Lone /\ [VecNext]_vecVars => (VecFrame /\ Lone)'
  BY StepKeepsFrame, StepKeepsLone DEF VecFrame, VecShape
<1>3. Lone => Unshared
  BY DEF Lone, Unshared, Busy, Has
<1>4. VecSpec => []Unshared  BY <1>1, <1>2, <1>3, PTL DEF VecSpec
<1> QED BY <1>4, SearchScoresItsSnapshot, PTL
=============================================================================
