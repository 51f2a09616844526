---------------------------- MODULE VectorCache ----------------------------
(***************************************************************************)
(* The SQLite engine's cache of decoded vectors (internal/store/           *)
(* vector_cache.go).  A search reads in one snapshot of the database.  It  *)
(* takes the entry of its column out of the map, brings it to the head of  *)
(* its own snapshot under the entry's lock, by reading the whole column or *)
(* only the rows the change log names since, accounts for its size, lets   *)
(* go of the lock, takes it again to read, and scores.  A search the cache *)
(* cannot serve reads the rows itself.                                     *)
(*                                                                         *)
(* Between any two of these another search may move the entry on to its    *)
(* own, later or earlier, snapshot, evict it from the map, or fail halfway *)
(* through changing it.  What a vector holds, and its row's owner, are one *)
(* value here; a vector costs one unit of memory.                          *)
(***************************************************************************)
EXTENDS Naturals, FiniteSets, Sequences, Functions

CONSTANTS
  VecSearches,  \* concurrent searches
  VecKeys,      \* (namespace, table, column)
  VecIds,       \* row ids
  VecRetry,     \* tooBigRetryChanges
  VecBounds     \* bounds: searches, writes, retention sweeps, new lives of a
                \* table (drops and migrations) and failed reads of a behaviour,
                \* the columns it writes and searches, and the cache's memory

ASSUME VecAssumption ==
  /\ VecRetry \in Nat \ {0}
  /\ IsFiniteSet(VecKeys) /\ IsFiniteSet(VecIds)
  /\ VecBounds \subseteq [runs : Nat, writes : Nat, trims : Nat, lives : Nat, errors : Nat,
                           max : Nat, keys : SUBSET VecKeys]

VARIABLES
  vecDb,        \* what is committed
  vecHeap,      \* the entries, in the map or not
  vecMap,       \* vecCache.entries
  vecUsed,      \* vecCache.used
  vecTick,      \* vecCache.tick
  vecSearch,    \* what each search is doing
  vecLeft       \* what is left of the bounds

vecVars == <<vecDb, vecHeap, vecMap, vecUsed, vecTick, vecSearch, vecLeft>>

VecNone == 0
NoRows == [i \in {} |-> 0]
NoSearch == [at |-> "idle"]

\* The vectors of new, and of old those that new does not have.
Over(new, old) ==
  [i \in DOMAIN new \cup DOMAIN old |-> IF i \in DOMAIN new THEN new[i] ELSE old[i]]

\* seq -1 of a new entry.
NewEntry == [fp |-> 0, seq |-> 0, fresh |-> TRUE, rows |-> NoRows, bytes |-> 0,
             use |-> 0, tooBig |-> FALSE, lock |-> FALSE]

(***************************************************************************)
(* The database: fp stands for namespace, drop generation and version.     *)
(***************************************************************************)
vecWrite(k, i, delete) ==
  /\ vecLeft.writes > 0
  /\ delete => i \in DOMAIN vecDb.rows[k]
  /\ LET s == vecDb.seq + 1
     IN vecDb' = [vecDb EXCEPT !.seq = s, !.log = @ \cup {[seq |-> s, key |-> k, id |-> i]},
                    !.rows[k] = IF delete THEN Restrict(@, DOMAIN @ \ {i}) ELSE Over([j \in {i} |-> s], @)]
  /\ vecLeft' = [vecLeft EXCEPT !.writes = @ - 1]
  /\ UNCHANGED <<vecHeap, vecMap, vecUsed, vecTick, vecSearch>>

vecTrim ==
  /\ vecLeft.trims > 0 /\ vecDb.log # {}
  /\ vecDb' = [vecDb EXCEPT !.log = {c \in @ : c.seq = vecDb.seq}]
  /\ vecLeft' = [vecLeft EXCEPT !.trims = @ - 1]
  /\ UNCHANGED <<vecHeap, vecMap, vecUsed, vecTick, vecSearch>>

\* A drop and re-creation loses the rows, a migration rewrites vectors without
\* a change record.
vecNewLife(k, migrated) ==
  /\ vecLeft.lives > 0
  /\ vecDb' = [vecDb EXCEPT !.fp[k] = @ + 1,
                 !.rows[k] = IF migrated THEN [i \in DOMAIN @ |-> 0] ELSE NoRows]
  /\ vecLeft' = [vecLeft EXCEPT !.lives = @ - 1]
  /\ UNCHANGED <<vecHeap, vecMap, vecUsed, vecTick, vecSearch>>

(***************************************************************************)
(* The map's bookkeeping, each one step under vecCache.mu.                 *)
(***************************************************************************)
Books == [heap |-> vecHeap, map |-> vecMap, used |-> vecUsed]
SetBooks(b) == vecHeap' = b.heap /\ vecMap' = b.map /\ vecUsed' = b.used

claim(b, k, x) ==
  LET cur == b.map[k]
  IN IF cur \in {x, VecNone} THEN [b EXCEPT !.map[k] = x]
     ELSE [b EXCEPT !.map[k] = x, !.used = @ - b.heap[cur].bytes, !.heap[cur].bytes = 0]

vecDrop(b, k, x) ==
  IF b.map[k] # x THEN b
  ELSE [b EXCEPT !.map[k] = VecNone, !.used = @ - b.heap[x].bytes, !.heap[x].bytes = 0]

\* The least recently used entries of other columns go until it fits.
evictUntil(b, x) ==
  LET others == {k \in VecKeys : b.map[k] \notin {x, VecNone}}
      bytes == [k \in others |-> b.heap[b.map[k]].bytes]
      freed(s) == SumFunctionOnSet(bytes, s)
      older(s) == \A k \in s, l \in others \ s : b.heap[b.map[k]].use < b.heap[b.map[l]].use
      enough == {s \in SUBSET others : older(s) /\ (b.used - freed(s) <= vecLeft.max \/ s = others)}
      out == CHOOSE s \in enough : \A t \in enough : Cardinality(s) <= Cardinality(t)
      gone == {b.map[k] : k \in out}
  IN [heap |-> [y \in DOMAIN b.heap |-> IF y \in gone THEN [b.heap[y] EXCEPT !.bytes = 0] ELSE b.heap[y]],
      map |-> [k \in VecKeys |-> IF k \in out THEN VecNone ELSE b.map[k]],
      used |-> b.used - freed(out)]

size(e) == Cardinality(DOMAIN e.rows)

account(b, k, x) ==
  LET c == claim(b, k, x)
      n == size(c.heap[x])
      grown == [c EXCEPT !.used = @ + n - c.heap[x].bytes, !.heap[x].bytes = n]
  IN IF n > vecLeft.max THEN vecDrop(grown, k, x) ELSE evictUntil(grown, x)

(***************************************************************************)
(* A search.                                                               *)
(***************************************************************************)
Doing(r, at) == vecSearch[r].at = at
Entry(r) == vecHeap[vecSearch[r].entry]

\* The snapshot, then the entry of the column, made if there is none.
vecBegin(r, k) ==
  /\ Doing(r, "idle") /\ vecLeft.runs > 0
  /\ vecLeft' = [vecLeft EXCEPT !.runs = @ - 1]
  /\ vecSearch' = [vecSearch EXCEPT ![r] =
       [at |-> "entry", key |-> k, head |-> vecDb.seq, fp |-> vecDb.fp[k], rows |-> vecDb.rows[k],
        log |-> vecDb.log, entry |-> VecNone, fits |-> TRUE, hits |-> NoRows]]
  /\ UNCHANGED <<vecDb, vecHeap, vecMap, vecUsed, vecTick>>

entry(r) ==
  /\ Doing(r, "entry")
  /\ LET k == vecSearch[r].key
         x == IF vecMap[k] = VecNone THEN Len(vecHeap) + 1 ELSE vecMap[k]
         heap == IF vecMap[k] = VecNone THEN Append(vecHeap, NewEntry) ELSE vecHeap
     IN /\ vecHeap' = [heap EXCEPT ![x].use = vecTick + 1]
        /\ vecMap' = [vecMap EXCEPT ![k] = x]
        /\ vecSearch' = [vecSearch EXCEPT ![r].at = "lock", ![r].entry = x]
  /\ vecTick' = vecTick + 1
  /\ UNCHANGED <<vecDb, vecUsed, vecLeft>>

\* The rows the log names after the entry's position, up to the search's head.
ChangedIds(r, e) == {c.id : c \in {d \in vecSearch[r].log : d.key = vecSearch[r].key /\ d.seq > e.seq}}
LogReaches(r, e) == \E c \in vecSearch[r].log : c.seq <= e.seq + 1

catchUp(r, e) ==
  LET t == ChangedIds(r, e)
      now == Restrict(vecSearch[r].rows, DOMAIN vecSearch[r].rows \cap t)
  IN [e EXCEPT !.rows = Over(now, Restrict(@, DOMAIN @ \ t)), !.seq = vecSearch[r].head]

rebuild(r, e) ==
  [e EXCEPT !.rows = vecSearch[r].rows, !.fp = vecSearch[r].fp, !.seq = vecSearch[r].head,
            !.fresh = FALSE]

StillTooBig(r, e) ==
  e.tooBig /\ e.fp = vecSearch[r].fp /\ vecSearch[r].head < e.seq + VecRetry
NewLife(r, e) == e.tooBig \/ e.fresh \/ e.fp # vecSearch[r].fp
Ahead(r, e) == e.seq > vecSearch[r].head

\* An entry of this life that is ahead of the snapshot is left alone.
Unusable(r, e) == StillTooBig(r, e) \/ (~e.fresh /\ e.fp = vecSearch[r].fp /\ Ahead(r, e))

vecScan(r) ==
  /\ Doing(r, "lock") /\ ~Entry(r).lock
  /\ Unusable(r, Entry(r))
  /\ vecSearch' = [vecSearch EXCEPT ![r] = NoSearch]
  /\ UNCHANGED <<vecDb, vecHeap, vecMap, vecUsed, vecTick, vecLeft>>

Reads(r, e) == NewLife(r, e) \/ (e.seq < vecSearch[r].head /\ ~LogReaches(r, e))

Filled(r, e) == IF Reads(r, e) THEN rebuild(r, e)
                ELSE IF e.seq < vecSearch[r].head THEN catchUp(r, e) ELSE e

vecFill(r) ==
  /\ Doing(r, "lock") /\ ~Entry(r).lock
  /\ ~Unusable(r, Entry(r))
  /\ vecHeap' = [vecHeap EXCEPT ![vecSearch[r].entry] =
       [Filled(r, Entry(r)) EXCEPT !.tooBig = FALSE, !.lock = TRUE]]
  \* Reading the column stops where it is larger than the whole cache.
  /\ LET fits == Reads(r, Entry(r)) => Cardinality(DOMAIN vecSearch[r].rows) <= vecLeft.max
     IN vecSearch' = [vecSearch EXCEPT ![r].at = "account", ![r].fits = fits]
  /\ UNCHANGED <<vecDb, vecMap, vecUsed, vecTick, vecLeft>>

\* A read fails: the entry keeps its position and its life but not its rows.
\* The lock is let go before the entry is taken out of the map.
TornRows(r, e) ==
  IF Reads(r, e)
  THEN {Restrict(vecSearch[r].rows, s) : s \in SUBSET DOMAIN vecSearch[r].rows}
  ELSE {e.rows, Restrict(e.rows, DOMAIN e.rows \ ChangedIds(r, e)), catchUp(r, e).rows}

vecFillFails(r) ==
  LET x == vecSearch[r].entry
  IN /\ Doing(r, "lock") /\ ~Entry(r).lock
     /\ ~Unusable(r, Entry(r))
     /\ vecLeft.errors > 0
     /\ NewLife(r, Entry(r)) \/ Entry(r).seq # vecSearch[r].head
     /\ \E rows \in TornRows(r, Entry(r)) :
          vecHeap' = [vecHeap EXCEPT ![x].rows = rows, ![x].tooBig = FALSE]
     /\ vecSearch' = [vecSearch EXCEPT ![r].at = "drop"]
     /\ vecLeft' = [vecLeft EXCEPT !.errors = @ - 1]
     /\ UNCHANGED <<vecDb, vecMap, vecUsed, vecTick>>

vecFailed(r) ==
  /\ Doing(r, "drop")
  /\ SetBooks(vecDrop(Books, vecSearch[r].key, vecSearch[r].entry))
  /\ vecSearch' = [vecSearch EXCEPT ![r] = NoSearch]
  /\ UNCHANGED <<vecDb, vecTick, vecLeft>>

\* Too big for the whole cache: its rows are forgotten, and that it is too big
\* is remembered in the map.
vecAccount(r) ==
  LET k == vecSearch[r].key
      x == vecSearch[r].entry
      b == IF vecSearch[r].fits THEN account(Books, k, x) ELSE vecDrop(Books, k, x)
      kept == size(Entry(r)) <= vecLeft.max
  IN /\ Doing(r, "account")
     /\ vecHeap' = [b.heap EXCEPT ![x].lock = ~kept]
     /\ vecMap' = b.map /\ vecUsed' = b.used
     /\ vecSearch' = [vecSearch EXCEPT ![r].at = IF kept THEN "score" ELSE "remember"]
     /\ UNCHANGED <<vecDb, vecTick, vecLeft>>

remember(r) ==
  LET x == vecSearch[r].entry
      b == claim(Books, vecSearch[r].key, x)
  IN /\ Doing(r, "remember")
     /\ vecHeap' = [b.heap EXCEPT ![x] =
          [@ EXCEPT !.tooBig = TRUE, !.fp = vecSearch[r].fp, !.seq = vecSearch[r].head,
                    !.rows = NoRows, !.lock = FALSE]]
     /\ vecMap' = b.map /\ vecUsed' = b.used
     /\ vecSearch' = [vecSearch EXCEPT ![r] = NoSearch]
     /\ UNCHANGED <<vecDb, vecTick, vecLeft>>

\* Seeded fault: the entry is used as it was accounted for.
StillThereAnyway(r) == TRUE

\* Another search may have moved the entry while it was unlocked.
StillThere(r) == Entry(r).seq = vecSearch[r].head /\ Entry(r).fp = vecSearch[r].fp

score(r) ==
  /\ Doing(r, "score") /\ ~Entry(r).lock
  /\ vecSearch' = [vecSearch EXCEPT ![r] =
       IF StillThere(r) THEN [@ EXCEPT !.at = "answer", !.hits = Entry(r).rows] ELSE NoSearch]
  /\ UNCHANGED <<vecDb, vecHeap, vecMap, vecUsed, vecTick, vecLeft>>

vecAnswered(r) ==
  /\ Doing(r, "answer")
  /\ vecSearch' = [vecSearch EXCEPT ![r] = NoSearch]
  /\ UNCHANGED <<vecDb, vecHeap, vecMap, vecUsed, vecTick, vecLeft>>

VecInit ==
  /\ vecDb = [seq |-> 0, log |-> {}, fp |-> [k \in VecKeys |-> 0], rows |-> [k \in VecKeys |-> NoRows]]
  /\ vecHeap = <<>>
  /\ vecMap = [k \in VecKeys |-> VecNone]
  /\ vecUsed = 0 /\ vecTick = 0
  /\ vecSearch = [r \in VecSearches |-> NoSearch]
  /\ vecLeft \in VecBounds

VecNext ==
  \/ \E k \in vecLeft.keys, i \in VecIds, d \in BOOLEAN : vecWrite(k, i, d)
  \/ vecTrim
  \/ \E k \in vecLeft.keys, m \in BOOLEAN : vecNewLife(k, m)
  \/ \E r \in VecSearches :
       \/ \E k \in vecLeft.keys : vecBegin(r, k)
       \/ entry(r) \/ vecScan(r) \/ vecFill(r) \/ vecFillFails(r) \/ vecFailed(r)
       \/ vecAccount(r) \/ remember(r) \/ score(r) \/ vecAnswered(r)

VecSpec == VecInit /\ [][VecNext]_vecVars

(***************************************************************************)
(* Properties.                                                             *)
(***************************************************************************)
\* A search served by the cache sees exactly the vectors of its snapshot, no
\* matter which searches of other snapshots, writes, sweeps, migrations and
\* evictions came between.
VecExact == \A r \in VecSearches : Doing(r, "answer") => vecSearch[r].hits = vecSearch[r].rows

\* The cache never counts an entry twice or forgets one: what it counts is the
\* size of the entries in the map, within its memory; one out of the map counts
\* nothing even while a search still works on it.
VecBooks ==
  LET mapped == {vecMap[k] : k \in VecKeys} \ {VecNone}
  IN /\ vecUsed = SumFunctionOnSet([x \in DOMAIN vecHeap |-> vecHeap[x].bytes], mapped)
     /\ vecUsed <= vecLeft.max
     /\ \A x \in DOMAIN vecHeap \ mapped : vecHeap[x].bytes = 0

\* Both hold whatever the searches of one cache do to each other.
VecSound == VecExact /\ VecBooks
=============================================================================
