------------------------- MODULE NamespacePoolProofs -------------------------
(***************************************************************************)
(* The pool of open namespaces is safe (PoolSafe), for every number of      *)
(* callers, namespaces, handles and files.                                  *)
(*                                                                          *)
(* The argument: an open handle is the cached one of its namespace, because *)
(* eviction, drop and Close close a handle and forget it together.  So a    *)
(* transaction begins on the cached handle; while it runs, the handle has a *)
(* connection in use, so that eviction passes over it and a drop waits,     *)
(* hence the handle stays cached and the file stays.  A session without a   *)
(* transaction is kept by its pin against eviction, and told to end by the  *)
(* drop.                                                                    *)
(***************************************************************************)
EXTENDS NamespacePool, TLAPS, FiniteSetTheorems

PoolAt == {"idle", "pinned", "tx", "listen", "listening", "authz", "authzRead", "canceled",
           "listenTx", "session", "pump", "evict"}
HandleRow == [ns : Namespaces \cup {Free}, inc : Nat, open : BOOLEAN, pins : Nat,
              rw : Callers \cup {Free}, ro : SUBSET Callers]
CallRow == [pc : PoolAt, ns : Namespaces \cup {Free}, h : Handles \cup {0}, h2 : Handles \cup {0},
            kind : {"none", "rw", "ro"}]

PoolTyped ==
    /\ mu \in Callers \cup {Free} /\ closed \in BOOLEAN
    /\ file \in [Namespaces -> 0 .. MaxFiles] /\ files \in 0 .. MaxFiles
    /\ nss \in [Namespaces -> Handles \cup {0}]
    /\ handle \in [Handles -> HandleRow]
    /\ call \in [Callers -> CallRow]
    /\ tracked \subseteq Callers /\ over \subseteq tracked

\* A call has a handle from its pin to its unpin, one of its own namespace.
CallOnHandle(c) ==
    /\ call[c].pc \in {"idle", "evict"} <=> call[c].h = 0
    /\ call[c].h # 0 => call[c].ns \in Namespaces /\ handle[call[c].h].ns = call[c].ns
    /\ call[c].pc = "evict" => call[c].ns \in Namespaces
    /\ call[c].pc = "authzRead" <=> call[c].h2 # 0
    /\ call[c].h2 # 0 => handle[call[c].h2].ns # Free
    /\ call[c].pc \in {"pinned", "tx"} => call[c].kind # "none"
    /\ c \in tracked <=> call[c].pc \in {"listening", "authz", "authzRead", "canceled", "listenTx", "session", "pump"}

\* Store.mu is held by the drop that waits for its connections.
MuHeld == /\ \A c \in Callers : call[c].pc = "evict" <=> mu = c
          /\ mu # Free => ~closed

\* A connection in use belongs to a transaction in progress.
Reads(c) == call[c].pc = "tx" /\ call[c].kind = "ro"
Writes(c) == InTransaction(c) /\ ~Reads(c)
Connected ==
    \A id \in Handles : \A c \in Callers :
        /\ handle[id].rw = c <=> (call[c].h = id /\ Writes(c))
        /\ c \in handle[id].ro <=> (call[c].h = id /\ Reads(c))

\* The cached handle is of its namespace and its file, and open unless a drop is closing
\* it; an open handle is cached, of a namespace that no drop is closing; a closed store
\* caches nothing.
Cached ==
    /\ \A ns \in Namespaces : nss[ns] # 0 =>
          /\ handle[nss[ns]].ns = ns /\ handle[nss[ns]].inc = file[ns] /\ file[ns] # 0 /\ ~closed
          /\ handle[nss[ns]].open \/ (mu # Free /\ call[mu].ns = ns)
    /\ \A id \in Handles : handle[id].open =>
          /\ handle[id].ns \in Namespaces /\ nss[handle[id].ns] = id
          /\ mu = Free \/ call[mu].ns # handle[id].ns

\* A transaction is on the cached handle, or the store was closed under it.
TxCached(c) ==
    InTransaction(c) => /\ handle[call[c].h].inc = file[call[c].ns]
                        /\ nss[call[c].ns] = call[c].h \/ (closed /\ (c \in tracked => c \in over))

SessionCached(c) ==
    call[c].pc \in {"session", "pump"} /\ c \notin over => nss[call[c].ns] = call[c].h

PoolInv ==
    /\ PoolTyped /\ MuHeld /\ Connected /\ Cached /\ PinsBalanced
    /\ \A c \in Callers : CallOnHandle(c) /\ TxCached(c) /\ SessionCached(c)

-----------------------------------------------------------------------------
(* Counting pins.                                                           *)

Owns(h, id) == IF h = id THEN 1 ELSE 0

\* Two sets that agree but for one element differ in size by that element.
LEMMA OneApart ==
    ASSUME NEW A \in SUBSET Callers, NEW B \in SUBSET Callers, NEW c \in Callers, A \ {c} = B \ {c}
    PROVE  /\ Cardinality(A) \in Nat /\ Cardinality(B) \in Nat
           /\ Cardinality(B) = Cardinality(A) + (IF c \in B THEN 1 ELSE 0) - (IF c \in A THEN 1 ELSE 0)
           /\ c \in A => Cardinality(A) > 0
  <1>1. IsFiniteSet(A) /\ IsFiniteSet(B)
    BY PoolAssumption, FS_Subset
  <1>2. Cardinality(A) \in Nat /\ Cardinality(B) \in Nat
    BY <1>1, FS_CardinalityType
  <1>3. IsFiniteSet(A \ {c}) /\ Cardinality(A \ {c}) = IF c \in A THEN Cardinality(A) - 1 ELSE Cardinality(A)
    BY <1>1, FS_RemoveElement
  <1>4. Cardinality(B \ {c}) = IF c \in B THEN Cardinality(B) - 1 ELSE Cardinality(B)
    BY <1>1, FS_RemoveElement
  <1>5. Cardinality(A \ {c}) \in Nat
    BY <1>3, FS_CardinalityType
  <1>6. Cardinality(A \ {c}) = Cardinality(B \ {c})
    OBVIOUS
  <1> QED BY ONLY <1>2, <1>3, <1>4, <1>5, <1>6

\* Pins follow the caller that takes or gives back a handle.
LEMMA PinsFollow ==
    ASSUME PoolTyped, PinsBalanced, NEW c \in Callers,
           \A d \in Callers \ {c} : call'[d].h = call[d].h /\ call'[d].h2 = call[d].h2,
           \A id \in Handles : handle'[id].pins =
               (handle[id].pins + Owns(call'[c].h, id) + Owns(call'[c].h2, id))
                   - Owns(call[c].h, id) - Owns(call[c].h2, id)
    PROVE  PinsBalanced' /\ \A id \in Handles : handle'[id].pins \in Nat
  <1> SUFFICES ASSUME NEW id \in Handles
               PROVE  /\ handle'[id].pins = Cardinality({d \in Callers : call'[d].h = id})
                                          + Cardinality({d \in Callers : call'[d].h2 = id})
                      /\ handle'[id].pins \in Nat
    BY DEF PinsBalanced
  <1> DEFINE A == {d \in Callers : call[d].h = id}   B == {d \in Callers : call'[d].h = id}
             A2 == {d \in Callers : call[d].h2 = id} B2 == {d \in Callers : call'[d].h2 = id}
  <1>1. /\ Cardinality(A) \in Nat /\ Cardinality(B) \in Nat
        /\ Cardinality(B) = Cardinality(A) + (IF c \in B THEN 1 ELSE 0) - (IF c \in A THEN 1 ELSE 0)
    <2>1. A \in SUBSET Callers /\ B \in SUBSET Callers /\ A \ {c} = B \ {c}
      OBVIOUS
    <2> HIDE DEF A, B
    <2> QED BY <2>1, OneApart
  <1>2. /\ Cardinality(A2) \in Nat /\ Cardinality(B2) \in Nat
        /\ Cardinality(B2) = Cardinality(A2) + (IF c \in B2 THEN 1 ELSE 0) - (IF c \in A2 THEN 1 ELSE 0)
    <2>1. A2 \in SUBSET Callers /\ B2 \in SUBSET Callers /\ A2 \ {c} = B2 \ {c}
      OBVIOUS
    <2> HIDE DEF A2, B2
    <2> QED BY <2>1, OneApart
  <1>3. /\ Owns(call'[c].h, id) = (IF c \in B THEN 1 ELSE 0) /\ Owns(call'[c].h2, id) = (IF c \in B2 THEN 1 ELSE 0)
        /\ Owns(call[c].h, id) = (IF c \in A THEN 1 ELSE 0) /\ Owns(call[c].h2, id) = (IF c \in A2 THEN 1 ELSE 0)
    BY DEF Owns
  <1>4. handle[id].pins = Cardinality(A) + Cardinality(A2)
    BY DEF PinsBalanced
  <1>5. handle'[id].pins = (handle[id].pins + Owns(call'[c].h, id) + Owns(call'[c].h2, id))
                   - Owns(call[c].h, id) - Owns(call[c].h2, id)
    OBVIOUS
  <1> HIDE DEF A, B, A2, B2
  <1>6. handle'[id].pins = Cardinality(B) + Cardinality(B2)
    BY ONLY <1>1, <1>2, <1>3, <1>4, <1>5
  <1>7. handle'[id].pins \in Nat
    BY ONLY <1>1, <1>2, <1>6
  <1> QED BY <1>6, <1>7 DEF B, B2

\* A handle that a call holds is pinned.
LEMMA HeldIsPinned ==
    ASSUME PoolInv, NEW c \in Callers, NEW id \in Handles, call[c].h = id \/ call[c].h2 = id
    PROVE  handle[id].pins # 0 /\ handle[id].pins - 1 \in Nat
  <1> DEFINE A == {d \in Callers : call[d].h = id}   A2 == {d \in Callers : call[d].h2 = id}
  <1>1. A \in SUBSET Callers /\ A2 \in SUBSET Callers /\ (c \in A \/ c \in A2)
    OBVIOUS
  <1>2. handle[id].pins = Cardinality(A) + Cardinality(A2)
    BY DEF PoolInv, PinsBalanced
  <1> HIDE DEF A, A2
  <1>3. Cardinality(A) \in Nat /\ Cardinality(A2) \in Nat /\ (Cardinality(A) > 0 \/ Cardinality(A2) > 0)
    BY <1>1, OneApart
  <1> QED BY ONLY <1>2, <1>3

\* A handle that was never opened is held by nobody.
LEMMA FreshIsFree ==
    ASSUME PoolInv, NEW id \in Fresh
    PROVE  /\ id \in Handles /\ id # 0 /\ handle[id].pins = 0 /\ handle[id].rw = Free /\ handle[id].ro = {}
           /\ \A c \in Callers : call[c].h # id /\ call[c].h2 # id
           /\ \A ns \in Namespaces : nss[ns] # id
           /\ ~handle[id].open
  <1>1. id \in Handles /\ id # 0 /\ handle[id].ns = Free /\ Free \notin Namespaces
    BY PoolAssumption DEF Fresh
  <1>2. \A c \in Callers : call[c].h # id /\ call[c].h2 # id
    BY <1>1 DEF PoolInv, CallOnHandle
  <1>3. \A ns \in Namespaces : nss[ns] # id
    BY <1>1 DEF PoolInv, Cached
  <1>4. ~handle[id].open
    BY <1>1 DEF PoolInv, Cached
  <1>5. handle[id] \in HandleRow
    BY <1>1 DEF PoolInv, PoolTyped
  <1>6. handle[id].rw = Free /\ handle[id].ro = {}
    BY <1>1, <1>2, <1>5 DEF PoolInv, Connected, HandleRow
  <1>7. handle[id].pins = 0
    <2>1. {c \in Callers : call[c].h = id} = {} /\ {c \in Callers : call[c].h2 = id} = {}
      BY <1>2
    <2>2. handle[id].pins = Cardinality({}) + Cardinality({})
      BY <1>1, <2>1 DEF PoolInv, PinsBalanced
    <2>3. Cardinality({}) = 0
      BY FS_EmptySet
    <2> QED BY ONLY <2>2, <2>3
  <1> QED BY <1>1, <1>2, <1>3, <1>4, <1>6, <1>7

\* A handle in use by a transaction is not evictable.
LEMMA InUse ==
    ASSUME PoolInv, NEW c \in Callers, call[c].h \in Handles, call[c].ns \in Namespaces,
           nss[call[c].ns] = call[c].h
    PROVE  ~Evictable(call[c].ns)
  BY HeldIsPinned DEF Evictable

-----------------------------------------------------------------------------
(* Steps of one caller that open and close no handle.                       *)

\* Handles keep what they are, and everybody else is where he was.
SameHandles ==
    /\ handle' \in [Handles -> HandleRow]
    /\ \A id \in Handles : /\ handle'[id].ns = handle[id].ns /\ handle'[id].inc = handle[id].inc
                           /\ handle'[id].open = handle[id].open

OthersStay(c) ==
    /\ \A d \in Callers \ {c} : call'[d] = call[d]
    /\ tracked' \ {c} = tracked \ {c} /\ over' \ {c} = over \ {c} /\ tracked' \subseteq Callers /\ over' \subseteq tracked'

LEMMA CallerSteps ==
    ASSUME PoolInv, NEW c \in Callers, NEW r \in CallRow, call' = [call EXCEPT ![c] = r],
           call[c].pc # "evict", r.pc # "evict",
           UNCHANGED <<mu, closed, file, files, nss>>, SameHandles, OthersStay(c),
           CallOnHandle(c)', TxCached(c)', SessionCached(c)', Connected', PinsBalanced'
    PROVE  PoolInv'
  <1>1. PoolTyped'
    BY DEF PoolInv, PoolTyped, SameHandles, OthersStay
  <1>2. call'[c] = r
    BY DEF PoolInv, PoolTyped
  <1>3. MuHeld'
    BY <1>2 DEF PoolInv, MuHeld, OthersStay
  <1>4. Cached'
    <2>1. mu # Free => call'[mu] = call[mu]
      BY DEF PoolInv, PoolTyped, MuHeld, OthersStay
    <2>2. \A ns \in Namespaces : nss[ns] # 0 => nss[ns] \in Handles
      BY DEF PoolInv, PoolTyped
    <2> QED BY <2>1, <2>2 DEF PoolInv, Cached, SameHandles
  <1>5. ASSUME NEW d \in Callers \ {c} PROVE CallOnHandle(d)' /\ TxCached(d)' /\ SessionCached(d)'
    <2>1. /\ call'[d] = call[d] /\ call[d] \in CallRow
          /\ d \in tracked' <=> d \in tracked
          /\ d \in over' <=> d \in over
      BY DEF OthersStay, PoolInv, PoolTyped
    <2>2. /\ call[d].h # 0 => handle'[call[d].h].ns = handle[call[d].h].ns
                              /\ handle'[call[d].h].inc = handle[call[d].h].inc
          /\ call[d].h2 # 0 => handle'[call[d].h2].ns = handle[call[d].h2].ns
      BY <2>1 DEF SameHandles, CallRow
    <2>3. CallOnHandle(d) /\ TxCached(d) /\ SessionCached(d)
      BY DEF PoolInv
    <2>4. CallOnHandle(d)'
      BY <2>1, <2>2, <2>3 DEF CallOnHandle
    <2>5. TxCached(d)'
      BY <2>1, <2>2, <2>3 DEF CallOnHandle, TxCached, InTransaction
    <2>6. SessionCached(d)'
      BY <2>1, <2>3 DEF SessionCached
    <2> QED BY <2>4, <2>5, <2>6
  <1> QED BY <1>1, <1>3, <1>4, <1>5 DEF PoolInv

\* No connection is taken or given back.
LEMMA ConnectionsKept ==
    ASSUME PoolInv, NEW c \in Callers, \A d \in Callers \ {c} : call'[d] = call[d],
           \A id \in Handles : handle'[id].rw = handle[id].rw /\ handle'[id].ro = handle[id].ro,
           \A id \in Handles : /\ (call'[c].h = id /\ Writes(c)') <=> (call[c].h = id /\ Writes(c))
                               /\ (call'[c].h = id /\ Reads(c)') <=> (call[c].h = id /\ Reads(c))
    PROVE  Connected'
  <1>1. ASSUME NEW d \in Callers, NEW id \in Handles
        PROVE  /\ (call'[d].h = id /\ Writes(d)') <=> (call[d].h = id /\ Writes(d))
               /\ (call'[d].h = id /\ Reads(d)') <=> (call[d].h = id /\ Reads(d))
    <2>1. CASE d = c
      BY <2>1
    <2>2. CASE d # c
      BY <2>2 DEF Writes, Reads, InTransaction
    <2> QED BY <2>1, <2>2
  <1> QED BY <1>1 DEF PoolInv, Connected

\* No pin is taken or given back.
LEMMA PinsKept ==
    ASSUME PoolInv, \A d \in Callers : call'[d].h = call[d].h /\ call'[d].h2 = call[d].h2,
           \A id \in Handles : handle'[id].pins = handle[id].pins
    PROVE  PinsBalanced'
  BY DEF PoolInv, PinsBalanced

\* What every action reads of its caller.
LEMMA CallerFacts ==
    ASSUME PoolInv, NEW c \in Callers
    PROVE  /\ call[c] \in CallRow /\ CallOnHandle(c) /\ TxCached(c) /\ SessionCached(c)
           /\ call[c].pc \notin {"idle", "evict"} =>
                /\ call[c].h \in Handles /\ call[c].h # 0 /\ call[c].ns \in Namespaces
                /\ handle[call[c].h].ns = call[c].ns /\ handle[call[c].h] \in HandleRow
  <1>1. call[c] \in CallRow /\ CallOnHandle(c) /\ TxCached(c) /\ SessionCached(c)
    BY DEF PoolInv, PoolTyped
  <1>2. call[c].h # 0 => call[c].h \in Handles
    BY <1>1 DEF CallRow
  <1> QED BY <1>1, <1>2 DEF CallOnHandle, PoolInv, PoolTyped

\* The transaction that begins is on the cached handle: its handle is open.
LEMMA TxBegins ==
    ASSUME PoolInv, NEW c \in Callers, NEW kind \in {"rw", "ro"}, NEW at \in PoolAt,
           \/ call[c].pc = "pinned" /\ at = "tx" /\ call[c].kind = kind
           \/ call[c].pc = "listening" /\ at \in {"authz", "listenTx"} /\ kind = "rw"
           \/ call[c].pc = "session" /\ at = "pump" /\ kind = "rw" /\ c \notin over,
           CanBegin(call[c].h, kind), handle' = Taken(call[c].h, kind, c),
           call' = [call EXCEPT ![c].pc = at],
           UNCHANGED <<mu, closed, file, files, nss, tracked, over>>
    PROVE  PoolInv'
  <1> DEFINE h == call[c].h
             r == [call[c] EXCEPT !.pc = at]
  <1>1. /\ call[c] \in CallRow /\ CallOnHandle(c) /\ SessionCached(c)
        /\ h \in Handles /\ h # 0 /\ call[c].ns \in Namespaces
        /\ handle[h].ns = call[c].ns /\ handle[h] \in HandleRow
    BY CallerFacts
  <1>2. /\ r \in CallRow /\ call' = [call EXCEPT ![c] = r] /\ r.pc = at /\ at # "evict"
        /\ r.h = h /\ r.h2 = call[c].h2 /\ r.ns = call[c].ns /\ r.kind = call[c].kind
    BY <1>1 DEF CallRow
  <1> HIDE DEF r
  <1>3. call'[c] = r /\ \A d \in Callers \ {c} : call'[d] = call[d]
    BY <1>2 DEF PoolInv, PoolTyped
  <1>4. /\ handle' \in [Handles -> HandleRow]
        /\ \A id \in Handles : /\ handle'[id].ns = handle[id].ns /\ handle'[id].inc = handle[id].inc
                               /\ handle'[id].open = handle[id].open /\ handle'[id].pins = handle[id].pins
        /\ \A id \in Handles \ {h} : handle'[id].rw = handle[id].rw /\ handle'[id].ro = handle[id].ro
        /\ handle'[h].rw = IF kind = "ro" THEN handle[h].rw ELSE c
        /\ handle'[h].ro = IF kind = "ro" THEN handle[h].ro \cup {c} ELSE handle[h].ro
    BY <1>1 DEF Taken, HandleRow, PoolInv, PoolTyped
  <1>5. handle[h].open /\ (kind = "rw" => handle[h].rw = Free)
    BY DEF CanBegin
  <1>6. /\ nss[call[c].ns] = h /\ handle[h].inc = file[call[c].ns]
    BY <1>1, <1>5 DEF PoolInv, Cached
  <1>7. /\ InTransaction(c)' /\ (Reads(c)' <=> kind = "ro") /\ (Writes(c)' <=> kind = "rw")
        /\ ~Reads(c) /\ ~Writes(c)
    BY <1>1, <1>2, <1>3 DEF InTransaction, Reads, Writes, CallOnHandle
  <1>8. Connected'
    <2> SUFFICES ASSUME NEW id \in Handles, NEW d \in Callers
                 PROVE  /\ handle'[id].rw = d <=> (call'[d].h = id /\ Writes(d)')
                        /\ d \in handle'[id].ro <=> (call'[d].h = id /\ Reads(d)')
      BY DEF Connected
    <2>0. /\ handle[id].rw = d <=> (call[d].h = id /\ Writes(d))
          /\ d \in handle[id].ro <=> (call[d].h = id /\ Reads(d))
      BY DEF PoolInv, Connected
    <2>1. CASE d = c
      BY <1>2, <1>3, <1>4, <1>5, <1>7, <2>0, <2>1, PoolAssumption
    <2>2. CASE d # c
      <3>1. /\ call'[d] = call[d] /\ (Writes(d)' <=> Writes(d)) /\ (Reads(d)' <=> Reads(d)) /\ d # Free
        BY <1>3, <2>2, PoolAssumption DEF Writes, Reads, InTransaction
      <3> QED BY <1>4, <1>5, <2>0, <2>2, <3>1
    <2> QED BY <2>1, <2>2
  <1>9. PinsBalanced'
    BY <1>2, <1>3, <1>4, PinsKept
  <1>10. CallOnHandle(c)'
    BY <1>1, <1>2, <1>3, <1>4 DEF CallOnHandle
  <1>11. TxCached(c)' /\ SessionCached(c)'
    <2>1. call'[c].h = h /\ call'[c].ns = call[c].ns /\ handle'[h].inc = file[call[c].ns]
      BY <1>1, <1>2, <1>3, <1>4, <1>6
    <2> QED BY <1>6, <2>1 DEF TxCached, SessionCached
  <1>12. SameHandles /\ OthersStay(c)
    BY <1>3, <1>4 DEF SameHandles, OthersStay, PoolInv, PoolTyped
  <1> QED BY <1>1, <1>2, <1>8, <1>9, <1>10, <1>11, <1>12, CallerSteps DEF CallOnHandle

\* A transaction that ends gives its own connection back.
LEMMA ConnectionReturned ==
    ASSUME PoolInv, NEW c \in Callers, InTransaction(c), \A d \in Callers \ {c} : call'[d] = call[d],
           ~InTransaction(c)',
           \A id \in Handles \ {call[c].h} : handle'[id].rw = handle[id].rw /\ handle'[id].ro = handle[id].ro,
           Reads(c) => handle'[call[c].h].rw = handle[call[c].h].rw
                       /\ handle'[call[c].h].ro = handle[call[c].h].ro \ {c},
           ~Reads(c) => handle'[call[c].h].rw = Free
                        /\ handle'[call[c].h].ro = handle[call[c].h].ro
    PROVE  Connected'
  <1> SUFFICES ASSUME NEW id \in Handles, NEW d \in Callers
               PROVE  /\ handle'[id].rw = d <=> (call'[d].h = id /\ Writes(d)')
                      /\ d \in handle'[id].ro <=> (call'[d].h = id /\ Reads(d)')
    BY DEF Connected
  <1>0. /\ handle[id].rw = d <=> (call[d].h = id /\ Writes(d))
        /\ d \in handle[id].ro <=> (call[d].h = id /\ Reads(d))
        /\ handle[id].rw = c <=> (call[c].h = id /\ Writes(c))
        /\ d # Free
    BY PoolAssumption DEF PoolInv, Connected
  <1>1. Writes(c) <=> ~Reads(c)
    BY DEF Writes
  <1>2. ~Writes(c)' /\ ~Reads(c)'
    BY DEF Writes, Reads, InTransaction
  <1>3. CASE d = c
    BY <1>0, <1>1, <1>2, <1>3
  <1>4. CASE d # c
    <2>1. call'[d] = call[d] /\ (Writes(d)' <=> Writes(d)) /\ (Reads(d)' <=> Reads(d))
      BY <1>4 DEF Writes, Reads, InTransaction
    <2>2. CASE id # call[c].h
      BY <1>0, <2>1, <2>2
    <2>3. CASE id = call[c].h /\ Reads(c)
      BY <1>0, <1>4, <2>1, <2>3
    <2>4. CASE id = call[c].h /\ ~Reads(c)
      BY <1>0, <1>1, <1>4, <2>1, <2>4
    <2> QED BY <2>2, <2>3, <2>4
  <1> QED BY <1>3, <1>4

\* A call that returns: it unpins, and its session is untracked.
LEMMA CallReturns ==
    ASSUME PoolInv, NEW c \in Callers, call[c].pc \notin {"idle", "evict", "authzRead"},
           call' = [call EXCEPT ![c] = Idle],
           handle' \in [Handles -> HandleRow], SameHandles,
           handle'[call[c].h].pins = handle[call[c].h].pins - 1,
           \A id \in Handles \ {call[c].h} : handle'[id].pins = handle[id].pins,
           Connected', tracked' = tracked \ {c}, over' = over \ {c},
           UNCHANGED <<mu, closed, file, files, nss>>
    PROVE  PoolInv'
  <1>1. /\ call[c] \in CallRow /\ call[c].h \in Handles /\ call[c].h # 0 /\ call[c].h2 = 0
    BY CallerFacts DEF CallOnHandle
  <1>2. /\ Idle \in CallRow /\ Idle.pc = "idle" /\ Idle.h = 0 /\ Idle.h2 = 0
    BY DEF Idle, CallRow, PoolAt
  <1>3. call'[c] = Idle /\ \A d \in Callers \ {c} : call'[d] = call[d]
    BY DEF PoolInv, PoolTyped
  <1>4. PinsBalanced'
    <2>1. ASSUME NEW id \in Handles
          PROVE  handle'[id].pins = (handle[id].pins + Owns(call'[c].h, id) + Owns(call'[c].h2, id))
                                        - Owns(call[c].h, id) - Owns(call[c].h2, id)
      <3>1. id # 0 /\ handle[id].pins \in Nat
        BY PoolAssumption DEF PoolInv, PoolTyped, HandleRow
      <3>2. /\ Owns(call'[c].h, id) = 0 /\ Owns(call'[c].h2, id) = 0 /\ Owns(call[c].h2, id) = 0
            /\ Owns(call[c].h, id) = IF call[c].h = id THEN 1 ELSE 0
        BY <1>1, <1>2, <1>3, <3>1 DEF Owns
      <3>3. handle'[id].pins = IF call[c].h = id THEN handle[id].pins - 1 ELSE handle[id].pins
        OBVIOUS
      <3> QED BY ONLY <3>1, <3>2, <3>3
    <2>2. PoolTyped /\ PinsBalanced
      BY DEF PoolInv
    <2> QED BY <1>3, <2>1, <2>2, PinsFollow
  <1>5. CallOnHandle(c)' /\ TxCached(c)' /\ SessionCached(c)'
    BY <1>2, <1>3 DEF CallOnHandle, TxCached, SessionCached, InTransaction
  <1>6. OthersStay(c)
    BY <1>3 DEF OthersStay, PoolInv, PoolTyped
  <1> QED BY <1>2, <1>4, <1>5, <1>6, CallerSteps

\* unpin changes one counter.
LEMMA UnpinFacts ==
    ASSUME PoolInv, NEW h \in Handles, handle[h].pins - 1 \in Nat, handle' = Unpin(h)
    PROVE  /\ handle' \in [Handles -> HandleRow] /\ SameHandles
           /\ handle'[h].pins = handle[h].pins - 1
           /\ \A id \in Handles \ {h} : handle'[id].pins = handle[id].pins
           /\ \A id \in Handles : handle'[id].rw = handle[id].rw /\ handle'[id].ro = handle[id].ro
  <1>1. handle \in [Handles -> HandleRow]
    BY DEF PoolInv, PoolTyped
  <1>2. handle' = [handle EXCEPT ![h] = [handle[h] EXCEPT !.pins = handle[h].pins - 1]]
    BY DEF Unpin
  <1>3. [handle[h] EXCEPT !.pins = handle[h].pins - 1] \in HandleRow
    BY <1>1 DEF HandleRow
  <1> QED BY <1>1, <1>2, <1>3 DEF SameHandles, HandleRow

\* A connection is given back and nothing else.
LEMMA FreedFacts ==
    ASSUME PoolInv, NEW h \in Handles, handle' = [handle EXCEPT ![h].rw = Free]
    PROVE  /\ SameHandles
           /\ \A id \in Handles : handle'[id].pins = handle[id].pins /\ handle'[id].ro = handle[id].ro
           /\ handle'[h].rw = Free /\ \A id \in Handles \ {h} : handle'[id].rw = handle[id].rw
  <1>1. handle \in [Handles -> HandleRow]
    BY DEF PoolInv, PoolTyped
  <1> QED BY <1>1 DEF SameHandles, HandleRow

\* A call without a transaction gives up, and a session ends.
LEMMA ReturnsIdle ==
    ASSUME PoolInv, NEW c \in Callers, OpFails(c) \/ ListenGivesUp(c) \/ SessionEnd(c)
    PROVE  PoolInv'
  <1>1. /\ call[c].pc \in {"pinned", "listening", "canceled", "session"}
        /\ handle' = Unpin(call[c].h) /\ call' = [call EXCEPT ![c] = Idle]
        /\ UNCHANGED <<mu, closed, file, files, nss>>
    BY DEF OpFails, ListenGivesUp, SessionEnd
  <1>2. tracked' = tracked \ {c} /\ over' = over \ {c}
    <2>1. CASE OpFails(c)
      <3>1. c \notin tracked
        BY <2>1 DEF OpFails, PoolInv, CallOnHandle
      <3> QED BY <2>1, <3>1 DEF OpFails, PoolInv, PoolTyped
    <2> QED BY <2>1 DEF ListenGivesUp, SessionEnd
  <1>3. call[c].h \in Handles
    BY <1>1, CallerFacts
  <1>4. handle[call[c].h].pins - 1 \in Nat
    BY <1>3, HeldIsPinned
  <1>5. /\ handle' \in [Handles -> HandleRow] /\ SameHandles
        /\ handle'[call[c].h].pins = handle[call[c].h].pins - 1
        /\ \A id \in Handles \ {call[c].h} : handle'[id].pins = handle[id].pins
        /\ \A id \in Handles : handle'[id].rw = handle[id].rw /\ handle'[id].ro = handle[id].ro
    BY <1>1, <1>3, <1>4, UnpinFacts
  <1>6. Connected'
    <2>1. call'[c] = Idle /\ \A d \in Callers \ {c} : call'[d] = call[d]
      BY <1>1 DEF PoolInv, PoolTyped
    <2>2. ~Writes(c) /\ ~Reads(c) /\ ~Writes(c)' /\ ~Reads(c)'
      BY <1>1, <2>1 DEF Writes, Reads, InTransaction, Idle
    <2> QED BY <1>5, <2>1, <2>2, ConnectionsKept
  <1> QED BY <1>1, <1>2, <1>5, <1>6, CallReturns

LEMMA OpReturns ==
    ASSUME PoolInv, NEW c \in Callers, OpEnd(c)
    PROVE  PoolInv'
  <1> DEFINE h == call[c].h
  <1>1. /\ call[c].pc = "tx" /\ handle' = Released(h, call[c].kind, c) /\ call' = [call EXCEPT ![c] = Idle]
        /\ UNCHANGED <<mu, closed, file, files, nss, tracked, over>>
    BY DEF OpEnd
  <1>2. h \in Handles /\ handle[h] \in HandleRow /\ handle \in [Handles -> HandleRow]
    BY <1>1, CallerFacts DEF PoolInv, PoolTyped
  <1>3. handle[h].pins - 1 \in Nat
    BY <1>2, HeldIsPinned
  <1>4. tracked' = tracked \ {c} /\ over' = over \ {c}
    <2>1. c \notin tracked
      BY <1>1 DEF PoolInv, CallOnHandle
    <2> QED BY <1>1, <2>1 DEF PoolInv, PoolTyped
  <1>5. /\ handle' \in [Handles -> HandleRow] /\ SameHandles
        /\ handle'[h].pins = handle[h].pins - 1
        /\ \A id \in Handles \ {h} : handle'[id].pins = handle[id].pins
        /\ \A id \in Handles \ {h} : handle'[id].rw = handle[id].rw /\ handle'[id].ro = handle[id].ro
        /\ Reads(c) => handle'[h].rw = handle[h].rw /\ handle'[h].ro = handle[h].ro \ {c}
        /\ ~Reads(c) => handle'[h].rw = Free /\ handle'[h].ro = handle[h].ro
    <2>1. CASE call[c].kind = "ro"
      <3> DEFINE row == [handle[h] EXCEPT !.ro = handle[h].ro \ {c}, !.pins = handle[h].pins - 1]
      <3>1. handle' = [handle EXCEPT ![h] = row]
        BY <1>1, <1>2, <2>1 DEF Released
      <3>2. /\ row \in HandleRow /\ row.pins = handle[h].pins - 1 /\ row.rw = handle[h].rw
            /\ row.ro = handle[h].ro \ {c} /\ row.ns = handle[h].ns /\ row.inc = handle[h].inc
            /\ row.open = handle[h].open
        BY <1>2, <1>3 DEF HandleRow
      <3> HIDE DEF row
      <3> QED BY <1>1, <1>2, <2>1, <3>1, <3>2 DEF SameHandles, Reads
    <2>2. CASE call[c].kind # "ro"
      <3> DEFINE row == [handle[h] EXCEPT !.rw = Free, !.pins = handle[h].pins - 1]
      <3>1. handle' = [handle EXCEPT ![h] = row]
        BY <1>1, <1>2, <2>2 DEF Released
      <3>2. /\ row \in HandleRow /\ row.pins = handle[h].pins - 1 /\ row.rw = Free
            /\ row.ro = handle[h].ro /\ row.ns = handle[h].ns /\ row.inc = handle[h].inc
            /\ row.open = handle[h].open
        BY <1>2, <1>3 DEF HandleRow
      <3> HIDE DEF row
      <3> QED BY <1>1, <1>2, <2>2, <3>1, <3>2 DEF SameHandles, Reads
    <2> QED BY <2>1, <2>2
  <1>6. Connected'
    <2>1. call'[c] = Idle /\ \A d \in Callers \ {c} : call'[d] = call[d]
      BY <1>1 DEF PoolInv, PoolTyped
    <2>2. InTransaction(c) /\ ~InTransaction(c)'
      BY <1>1, <2>1 DEF InTransaction, Idle
    <2> QED BY <1>5, <2>1, <2>2, ConnectionReturned
  <1> QED BY <1>1, <1>4, <1>5, <1>6, CallReturns

\* The transaction of a Listen call or of a pump ends, and its session stays.
LEMMA ListenTxEnds ==
    ASSUME PoolInv, NEW c \in Callers, ListenCanceled(c) \/ ListenCommit(c) \/ PumpEnd(c)
    PROVE  PoolInv'
  <1> DEFINE h == call[c].h
  <1>1. PICK at \in {"canceled", "session"} :
           /\ call[c].pc \in {"authz", "listenTx", "pump"}
           /\ handle' = [handle EXCEPT ![h].rw = Free] /\ call' = [call EXCEPT ![c].pc = at]
           /\ UNCHANGED <<mu, closed, file, files, nss, tracked, over>>
    BY DEF ListenCanceled, ListenCommit, PumpEnd
  <1> DEFINE r == [call[c] EXCEPT !.pc = at]
  <1>2. /\ call[c] \in CallRow /\ CallOnHandle(c) /\ TxCached(c)
        /\ h \in Handles /\ h # 0 /\ call[c].ns \in Namespaces /\ handle[h].ns = call[c].ns
    BY <1>1, CallerFacts
  <1>3. /\ r \in CallRow /\ call' = [call EXCEPT ![c] = r] /\ r.pc = at
        /\ r.h = h /\ r.h2 = call[c].h2 /\ r.ns = call[c].ns /\ r.kind = call[c].kind
    BY <1>1, <1>2 DEF CallRow, PoolAt
  <1> HIDE DEF r
  <1>4. call'[c] = r /\ \A d \in Callers \ {c} : call'[d] = call[d]
    BY <1>3 DEF PoolInv, PoolTyped
  <1>5. /\ SameHandles
        /\ \A id \in Handles : handle'[id].pins = handle[id].pins /\ handle'[id].ro = handle[id].ro
        /\ handle'[h].rw = Free /\ \A id \in Handles \ {h} : handle'[id].rw = handle[id].rw
    BY <1>1, <1>2, FreedFacts
  <1>6. InTransaction(c) /\ ~InTransaction(c)' /\ ~Reads(c)
    BY <1>1, <1>3, <1>4 DEF InTransaction, Reads
  <1>7. Connected'
    BY <1>2, <1>4, <1>5, <1>6, ConnectionReturned
  <1>8. PinsBalanced'
    BY <1>3, <1>4, <1>5, PinsKept
  <1>9. CallOnHandle(c)'
    <2>1. handle'[h].ns = handle[h].ns
      BY <1>2, <1>5 DEF SameHandles
    <2> QED BY <1>1, <1>2, <1>3, <1>4, <2>1 DEF CallOnHandle
  <1>10. TxCached(c)' /\ SessionCached(c)'
    <2>1. TxCached(c)'
      BY <1>6 DEF TxCached
    <2>2. at = "session" /\ c \notin over => nss[call[c].ns] = h
      BY <1>1, <1>2, <1>6 DEF TxCached, CallOnHandle
    <2>3. SessionCached(c)'
      BY <1>1, <1>3, <1>4, <2>2 DEF SessionCached
    <2> QED BY <2>1, <2>3
  <1>11. OthersStay(c)
    BY <1>1, <1>4 DEF OthersStay, PoolInv, PoolTyped
  <1> QED BY <1>1, <1>3, <1>5, <1>7, <1>8, <1>9, <1>10, <1>11, CallerSteps

LEMMA SessionTracked ==
    ASSUME PoolInv, NEW c \in Callers, trackSession(c)
    PROVE  PoolInv'
  <1> DEFINE h == call[c].h
             r == [call[c] EXCEPT !.pc = "listening"]
  <1>1. /\ call[c].pc = "listen" /\ tracked' = tracked \cup {c} /\ call' = [call EXCEPT ![c].pc = "listening"]
        /\ UNCHANGED <<mu, closed, file, files, nss, handle, over>>
    BY DEF trackSession
  <1>2. /\ call[c] \in CallRow /\ CallOnHandle(c)
        /\ h \in Handles /\ h # 0 /\ call[c].ns \in Namespaces /\ handle[h].ns = call[c].ns
    BY <1>1, CallerFacts
  <1>3. /\ r \in CallRow /\ call' = [call EXCEPT ![c] = r] /\ r.pc = "listening"
        /\ r.h = h /\ r.h2 = call[c].h2 /\ r.ns = call[c].ns /\ r.kind = call[c].kind
    BY <1>1, <1>2 DEF CallRow, PoolAt
  <1> HIDE DEF r
  <1>4. call'[c] = r /\ \A d \in Callers \ {c} : call'[d] = call[d]
    BY <1>3 DEF PoolInv, PoolTyped
  <1>5. SameHandles
    BY <1>1 DEF SameHandles, PoolInv, PoolTyped
  <1>6. ~InTransaction(c) /\ ~InTransaction(c)'
    BY <1>1, <1>3, <1>4 DEF InTransaction
  <1>7. Connected'
    <2>1. ~Writes(c) /\ ~Reads(c) /\ ~Writes(c)' /\ ~Reads(c)'
      BY <1>6 DEF Writes, Reads, InTransaction
    <2> QED BY <1>1, <1>4, <2>1, ConnectionsKept
  <1>8. PinsBalanced'
    BY <1>1, <1>3, <1>4, PinsKept
  <1>9. CallOnHandle(c)'
    BY <1>1, <1>2, <1>3, <1>4 DEF CallOnHandle
  <1>10. TxCached(c)' /\ SessionCached(c)'
    BY <1>3, <1>4, <1>6 DEF TxCached, SessionCached
  <1>11. OthersStay(c)
    BY <1>1, <1>4 DEF OthersStay, PoolInv, PoolTyped
  <1> QED BY <1>1, <1>3, <1>5, <1>7, <1>8, <1>9, <1>10, <1>11, CallerSteps

\* TableState has read: its own pin is given back, the transaction goes on.
LEMMA AuthzReturns ==
    ASSUME PoolInv, NEW c \in Callers, AuthzRead(c)
    PROVE  PoolInv'
  <1> DEFINE h == call[c].h
             g == call[c].h2
             r == [call[c] EXCEPT !.pc = "listenTx", !.h2 = 0]
  <1>1. /\ call[c].pc = "authzRead" /\ handle' = Unpin(g)
        /\ call' = [call EXCEPT ![c].pc = "listenTx", ![c].h2 = 0]
        /\ UNCHANGED <<mu, closed, file, files, nss, tracked, over>>
    BY DEF AuthzRead
  <1>2. /\ call[c] \in CallRow /\ CallOnHandle(c) /\ TxCached(c)
        /\ h \in Handles /\ h # 0 /\ call[c].ns \in Namespaces /\ handle[h].ns = call[c].ns
        /\ g \in Handles /\ g # 0
    BY <1>1, CallerFacts DEF CallOnHandle, CallRow
  <1>3. /\ r \in CallRow /\ call' = [call EXCEPT ![c] = r] /\ r.pc = "listenTx"
        /\ r.h = h /\ r.h2 = 0 /\ r.ns = call[c].ns /\ r.kind = call[c].kind
    BY <1>1, <1>2 DEF CallRow, PoolAt
  <1> HIDE DEF r
  <1>4. call'[c] = r /\ \A d \in Callers \ {c} : call'[d] = call[d]
    BY <1>3 DEF PoolInv, PoolTyped
  <1>5. handle[g].pins - 1 \in Nat
    BY <1>2, HeldIsPinned
  <1>6. /\ SameHandles
        /\ handle'[g].pins = handle[g].pins - 1
        /\ \A id \in Handles \ {g} : handle'[id].pins = handle[id].pins
        /\ \A id \in Handles : handle'[id].rw = handle[id].rw /\ handle'[id].ro = handle[id].ro
    BY <1>1, <1>2, <1>5, UnpinFacts
  <1>7. Connected'
    <2>1. Writes(c) /\ ~Reads(c) /\ Writes(c)' /\ ~Reads(c)'
      BY <1>1, <1>3, <1>4 DEF Writes, Reads, InTransaction
    <2> QED BY <1>3, <1>4, <1>6, <2>1, ConnectionsKept
  <1>8. PinsBalanced'
    <2>1. ASSUME NEW id \in Handles
          PROVE  handle'[id].pins = (handle[id].pins + Owns(call'[c].h, id) + Owns(call'[c].h2, id))
                                        - Owns(call[c].h, id) - Owns(call[c].h2, id)
      <3>1. id # 0 /\ handle[id].pins \in Nat
        BY PoolAssumption DEF PoolInv, PoolTyped, HandleRow
      <3>2. /\ Owns(call'[c].h, id) = Owns(call[c].h, id) /\ Owns(call'[c].h2, id) = 0
            /\ Owns(call[c].h, id) \in {0, 1}
            /\ Owns(call[c].h2, id) = IF g = id THEN 1 ELSE 0
        BY <1>3, <1>4, <3>1 DEF Owns
      <3>3. handle'[id].pins = IF g = id THEN handle[id].pins - 1 ELSE handle[id].pins
        BY <1>6
      <3> QED BY ONLY <3>1, <3>2, <3>3
    <2>2. PoolTyped /\ PinsBalanced
      BY DEF PoolInv
    <2> QED BY <1>4, <2>1, <2>2, PinsFollow
  <1>9. handle'[h].ns = handle[h].ns /\ handle'[h].inc = handle[h].inc
    BY <1>2, <1>6 DEF SameHandles
  <1>10. CallOnHandle(c)'
    BY <1>1, <1>2, <1>3, <1>4, <1>9 DEF CallOnHandle
  <1>11. TxCached(c)' /\ SessionCached(c)'
    BY <1>1, <1>2, <1>3, <1>4, <1>9 DEF TxCached, SessionCached, InTransaction
  <1>12. OthersStay(c)
    BY <1>1, <1>4 DEF OthersStay, PoolInv, PoolTyped
  <1> QED BY <1>1, <1>3, <1>6, <1>7, <1>8, <1>10, <1>11, <1>12, CallerSteps

-----------------------------------------------------------------------------
(* A handle is opened, and idle ones make room for it.                      *)

\* What a call finds again of the handles and the cache after a pin or an open.
HandlesGrow(id) ==
    /\ handle' \in [Handles -> HandleRow] /\ nss' \in [Namespaces -> Handles \cup {0}]
    /\ \A k \in Handles \ {id} : /\ handle'[k].ns = handle[k].ns /\ handle'[k].inc = handle[k].inc
                                 /\ handle'[k].pins = handle[k].pins
    /\ \A k \in Handles : handle'[k].rw = handle[k].rw /\ handle'[k].ro = handle[k].ro
    /\ \A d \in Callers : call[d].h # 0 /\ nss[call[d].ns] = call[d].h => nss'[call[d].ns] = call[d].h

LEMMA Opens ==
    ASSUME PoolInv, mu = Free, ~closed, NEW ns \in Namespaces, nss[ns] = 0, NEW id \in Handles,
           NEW inc \in Nat \ {0}, NEW pins \in Nat, Opened(ns, inc, id, pins),
           UNCHANGED <<mu, closed>>, file'[ns] = inc, \A m \in Namespaces \ {ns} : file'[m] = file[m]
    PROVE  /\ HandlesGrow(id) /\ id \in Fresh
           /\ handle'[id].ns = ns /\ handle'[id].inc = inc /\ handle'[id].pins = pins
           /\ nss'[ns] = id /\ Cached'
  <1> DEFINE row == [Unused EXCEPT !.ns = ns, !.inc = inc, !.open = TRUE, !.pins = pins]
             Victim(k) == \E v \in Victims : nss[v] = k
  <1>1. /\ id \in Fresh
        /\ handle' = [k \in Handles |-> IF k = id THEN row
                                        ELSE IF Victim(k) THEN [handle[k] EXCEPT !.open = FALSE] ELSE handle[k]]
        /\ nss' = [m \in Namespaces |-> IF m = ns THEN id ELSE IF m \in Victims THEN 0 ELSE nss[m]]
    BY DEF Opened
  <1>2. /\ row \in HandleRow /\ row.ns = ns /\ row.inc = inc /\ row.open /\ row.pins = pins
        /\ row.rw = Free /\ row.ro = {}
    BY DEF Unused, HandleRow
  <1> HIDE DEF row
  <1>3. \A v \in Victims : v \in Namespaces /\ Evictable(v) /\ nss[v] \in Handles
    BY DEF Victims, Evictable, PoolInv, PoolTyped
  <1>4. /\ id # 0 /\ handle[id].rw = Free /\ handle[id].ro = {} /\ \A m \in Namespaces : nss[m] # id
    BY <1>1, FreshIsFree
  <1>5. handle \in [Handles -> HandleRow] /\ nss \in [Namespaces -> Handles \cup {0}]
    BY DEF PoolInv, PoolTyped
  <1>6. ASSUME NEW k \in Handles \ {id}
        PROVE  /\ handle'[k] \in HandleRow /\ handle'[k].ns = handle[k].ns /\ handle'[k].inc = handle[k].inc
               /\ handle'[k].pins = handle[k].pins /\ handle'[k].rw = handle[k].rw /\ handle'[k].ro = handle[k].ro
               /\ handle'[k].open = (handle[k].open /\ ~Victim(k))
    <2>1. CASE Victim(k)
      <3>1. handle'[k] = [handle[k] EXCEPT !.open = FALSE] /\ handle[k] \in HandleRow
        BY <1>1, <1>5, <2>1
      <3> QED BY <2>1, <3>1 DEF HandleRow
    <2>2. CASE ~Victim(k)
      <3>1. handle'[k] = handle[k] /\ handle[k] \in HandleRow
        BY <1>1, <1>5, <2>2
      <3> QED BY <2>2, <3>1 DEF HandleRow
    <2> QED BY <2>1, <2>2
  <1>7. handle'[id] = row
    BY <1>1
  <1>8. handle' \in [Handles -> HandleRow]
    <2>1. \A k \in Handles : handle'[k] \in HandleRow
      BY <1>2, <1>6, <1>7
    <2>2. DOMAIN handle' = Handles
      BY <1>1
    <2> HIDE DEF Victim
    <2> QED BY <1>1, <2>1, <2>2
  <1>9. nss' \in [Namespaces -> Handles \cup {0}] /\ nss'[ns] = id
    BY <1>1, <1>5
  <1>10. ASSUME NEW d \in Callers, call[d].h # 0, nss[call[d].ns] = call[d].h
         PROVE  nss'[call[d].ns] = call[d].h
    <2>1. call[d].ns \in Namespaces /\ call[d].h \in Handles
      BY <1>10 DEF PoolInv, PoolTyped, CallRow, CallOnHandle
    <2>2. ~Evictable(call[d].ns)
      BY <1>10, <2>1, InUse
    <2>3. call[d].ns \notin Victims /\ call[d].ns # ns
      BY <1>3, <1>10, <2>2
    <2> QED BY <1>1, <1>10, <2>1, <2>3
  <1>11. HandlesGrow(id)
    <2> HIDE DEF Victim
    <2>1. \A k \in Handles : handle'[k].rw = handle[k].rw /\ handle'[k].ro = handle[k].ro
      <3> SUFFICES ASSUME NEW k \in Handles PROVE handle'[k].rw = handle[k].rw /\ handle'[k].ro = handle[k].ro
        OBVIOUS
      <3>1. CASE k = id
        BY <1>2, <1>4, <1>7, <3>1
      <3>2. CASE k # id
        BY <1>6, <3>2
      <3> QED BY <3>1, <3>2
    <2>2. \A k \in Handles \ {id} : /\ handle'[k].ns = handle[k].ns /\ handle'[k].inc = handle[k].inc
                                    /\ handle'[k].pins = handle[k].pins
      BY <1>6
    <2> QED BY <1>8, <1>9, <1>10, <2>1, <2>2 DEF HandlesGrow
  <1>12. \A m \in Namespaces : nss[m] # 0 =>
            /\ handle[nss[m]].ns = m /\ handle[nss[m]].inc = file[m] /\ file[m] # 0 /\ handle[nss[m]].open
            /\ nss[m] \in Handles
    BY <1>5 DEF PoolInv, Cached
  <1>13. Cached'
    <2>1. ASSUME NEW m \in Namespaces, nss'[m] # 0
          PROVE  /\ handle'[nss'[m]].ns = m /\ handle'[nss'[m]].inc = file'[m] /\ file'[m] # 0
                 /\ handle'[nss'[m]].open
      <3>1. CASE m = ns
        BY <1>2, <1>7, <1>9, <3>1
      <3>2. CASE m # ns
        <4>1. m \notin Victims /\ nss'[m] = nss[m] /\ nss[m] \in Handles \ {id} /\ nss[m] # 0
          BY <1>1, <1>4, <1>5, <2>1, <3>2
        <4>2. ~Victim(nss[m])
          BY <1>3, <1>12, <4>1
        <4> HIDE DEF Victim
        <4>3. /\ handle'[nss[m]].ns = handle[nss[m]].ns /\ handle'[nss[m]].inc = handle[nss[m]].inc
              /\ handle'[nss[m]].open = (handle[nss[m]].open /\ ~Victim(nss[m]))
          BY <1>6, <4>1
        <4>4. /\ handle[nss[m]].ns = m /\ handle[nss[m]].inc = file[m] /\ file[m] # 0 /\ handle[nss[m]].open
              /\ file'[m] = file[m]
          BY <1>12, <3>2, <4>1
        <4> QED BY <4>1, <4>2, <4>3, <4>4
      <3> QED BY <3>1, <3>2
    <2>2. ASSUME NEW k \in Handles, handle'[k].open
          PROVE  handle'[k].ns \in Namespaces /\ nss'[handle'[k].ns] = k
      <3>1. CASE k = id
        BY <1>2, <1>7, <1>9, <3>1
      <3>2. CASE k # id
        <4>1. handle[k].open /\ ~Victim(k) /\ handle'[k].ns = handle[k].ns
          BY <1>6, <2>2, <3>2
        <4>2. handle[k].ns \in Namespaces /\ nss[handle[k].ns] = k /\ k # 0
          BY <4>1, PoolAssumption DEF PoolInv, Cached
        <4>3. handle[k].ns # ns /\ handle[k].ns \notin Victims
          BY <4>1, <4>2
        <4> QED BY <1>1, <4>1, <4>2, <4>3
      <3> QED BY <3>1, <3>2
    <2> HIDE DEF Victim
    <2> QED BY <2>1, <2>2 DEF Cached
  <1> QED BY <1>1, <1>2, <1>7, <1>9, <1>11, <1>13

\* A pin finds the cached handle or opens one; either way it is the cached one after.
LEMMA Pins ==
    ASSUME PoolInv, mu = Free, NEW ns \in Namespaces, NEW id \in Handles, Pinned(ns, id),
           UNCHANGED <<mu, closed, file>>
    PROVE  /\ HandlesGrow(id)
           /\ handle'[id].ns = ns /\ handle'[id].inc = file[ns] /\ handle'[id].pins = handle[id].pins + 1
           /\ handle[id].ns # Free => handle'[id].inc = handle[id].inc /\ handle'[id].ns = handle[id].ns
           /\ nss'[ns] = id /\ Cached' /\ ~closed /\ id # 0
  <1>0. id # 0 /\ handle \in [Handles -> HandleRow] /\ nss \in [Namespaces -> Handles \cup {0}]
    BY PoolAssumption DEF PoolInv, PoolTyped
  <1>1. CASE nss[ns] # 0 /\ id = nss[ns] /\ handle' = [handle EXCEPT ![id].pins = @ + 1] /\ UNCHANGED nss
    <2> DEFINE row == [handle[id] EXCEPT !.pins = handle[id].pins + 1]
    <2>1. handle' = [handle EXCEPT ![id] = row]
      BY <1>1
    <2>2. handle[id].pins + 1 \in Nat
      <3>1. handle[id].pins \in Nat
        BY <1>0 DEF HandleRow
      <3> QED BY ONLY <3>1
    <2>3. /\ row \in HandleRow /\ row.ns = handle[id].ns /\ row.inc = handle[id].inc /\ row.open = handle[id].open
          /\ row.pins = handle[id].pins + 1 /\ row.rw = handle[id].rw /\ row.ro = handle[id].ro
      BY <1>0, <2>2 DEF HandleRow
    <2> HIDE DEF row
    <2>4. handle' \in [Handles -> HandleRow] /\ handle'[id] = row /\ \A k \in Handles \ {id} : handle'[k] = handle[k]
      BY <1>0, <2>1, <2>3
    <2>5. HandlesGrow(id)
      BY <1>0, <1>1, <2>3, <2>4 DEF HandlesGrow
    <2>6. handle[id].ns = ns /\ handle[id].inc = file[ns] /\ ~closed /\ handle[id].open
      BY <1>1 DEF PoolInv, Cached
    <2>7. Cached'
      <3>1. \A k \in Handles : /\ handle'[k].ns = handle[k].ns /\ handle'[k].inc = handle[k].inc
                               /\ handle'[k].open = handle[k].open
        BY <2>3, <2>4
      <3>2. \A m \in Namespaces : nss[m] # 0 => nss[m] \in Handles
        BY <1>0
      <3> QED BY <1>1, <3>1, <3>2 DEF PoolInv, Cached
    <2> QED BY <1>0, <1>1, <2>3, <2>4, <2>5, <2>6, <2>7
  <1>2. CASE nss[ns] = 0 /\ file[ns] # 0 /\ Opened(ns, file[ns], id, 1) /\ ~closed
    <2>1. file[ns] \in Nat \ {0}
      BY <1>2, PoolAssumption DEF PoolInv, PoolTyped
    <2>2. /\ HandlesGrow(id) /\ id \in Fresh
          /\ handle'[id].ns = ns /\ handle'[id].inc = file[ns] /\ handle'[id].pins = 1
          /\ nss'[ns] = id /\ Cached'
      BY <1>2, <2>1, Opens
    <2>3. handle[id].ns = Free /\ handle[id].pins = 0
      BY <2>2, FreshIsFree DEF Fresh
    <2> QED BY <1>0, <1>2, <2>2, <2>3
  <1> QED BY <1>1, <1>2 DEF Pinned

\* Nobody else loses his handle when one is pinned or opened.
LEMMA OthersKeepTheirs ==
    ASSUME PoolInv, ~closed, NEW id \in Handles, HandlesGrow(id),
           handle[id].ns # Free => handle'[id].inc = handle[id].inc /\ handle'[id].ns = handle[id].ns,
           \A m \in Namespaces : nss[m] # 0 => file'[m] = file[m],
           NEW d \in Callers, call'[d] = call[d], d \in tracked' <=> d \in tracked, d \in over => d \in over'
    PROVE  CallOnHandle(d)' /\ TxCached(d)' /\ SessionCached(d)'
  <1>1. call[d] \in CallRow /\ CallOnHandle(d) /\ TxCached(d) /\ SessionCached(d)
    BY CallerFacts
  <1>2. call[d].h # 0 => /\ call[d].h \in Handles /\ call[d].ns \in Namespaces
                         /\ handle[call[d].h].ns = call[d].ns /\ handle[call[d].h].ns # Free
    BY <1>1, PoolAssumption DEF CallRow, CallOnHandle
  <1>3. call[d].h # 0 => /\ handle'[call[d].h].ns = handle[call[d].h].ns
                         /\ handle'[call[d].h].inc = handle[call[d].h].inc
    BY <1>2 DEF HandlesGrow
  <1>4. call[d].h2 # 0 => call[d].h2 \in Handles /\ handle'[call[d].h2].ns = handle[call[d].h2].ns
    BY <1>1 DEF CallRow, CallOnHandle, HandlesGrow
  <1>5. call[d].h # 0 /\ nss[call[d].ns] = call[d].h => nss'[call[d].ns] = call[d].h
                                                       /\ file'[call[d].ns] = file[call[d].ns]
    BY <1>2 DEF HandlesGrow
  <1>6. CallOnHandle(d)'
    BY <1>1, <1>2, <1>3, <1>4 DEF CallOnHandle
  <1>7. InTransaction(d) => call[d].h # 0 /\ nss[call[d].ns] = call[d].h /\ handle[call[d].h].inc = file[call[d].ns]
    BY <1>1 DEF CallOnHandle, TxCached, InTransaction
  <1>8. TxCached(d)'
    BY <1>3, <1>5, <1>7 DEF TxCached, InTransaction
  <1>9. SessionCached(d)'
    BY <1>1, <1>5 DEF CallOnHandle, SessionCached
  <1> QED BY <1>6, <1>8, <1>9

\* A call pins its handle.
LEMMA CallStarts ==
    ASSUME PoolInv, NEW c \in Callers, NEW ns \in Namespaces, NEW id \in Handles, NEW at \in {"pinned", "listen"},
           NEW kind \in {"rw", "ro"}, call[c].pc = "idle", mu = Free, Pinned(ns, id),
           call' = [call EXCEPT ![c] = [Idle EXCEPT !.pc = at, !.ns = ns, !.h = id, !.kind = kind]],
           UNCHANGED <<mu, closed, file, files, tracked, over>>
    PROVE  PoolInv'
  <1> DEFINE r == [Idle EXCEPT !.pc = at, !.ns = ns, !.h = id, !.kind = kind]
  <1>1. /\ HandlesGrow(id)
        /\ handle'[id].ns = ns /\ handle'[id].inc = file[ns] /\ handle'[id].pins = handle[id].pins + 1
        /\ handle[id].ns # Free => handle'[id].inc = handle[id].inc /\ handle'[id].ns = handle[id].ns
        /\ nss'[ns] = id /\ Cached' /\ ~closed /\ id # 0
    BY Pins
  <1>2. r \in CallRow /\ r.pc = at /\ r.ns = ns /\ r.h = id /\ r.h2 = 0 /\ r.kind = kind
    BY DEF Idle, CallRow, PoolAt
  <1> HIDE DEF r
  <1>3. call'[c] = r /\ \A d \in Callers \ {c} : call'[d] = call[d]
    BY DEF PoolInv, PoolTyped, r
  <1>4. call[c].h = 0 /\ call[c].h2 = 0 /\ c \notin tracked
    BY CallerFacts DEF CallOnHandle
  <1>5. PoolTyped'
    BY <1>1, <1>2 DEF PoolInv, PoolTyped, HandlesGrow, r
  <1>6. MuHeld'
    BY <1>2, <1>3 DEF PoolInv, MuHeld
  <1>7. Connected'
    <2>1. ~Writes(c) /\ ~Reads(c) /\ ~Writes(c)' /\ ~Reads(c)'
      BY <1>2, <1>3 DEF Writes, Reads, InTransaction
    <2> QED BY <1>1, <1>3, <2>1, ConnectionsKept DEF HandlesGrow
  <1>8. PinsBalanced'
    <2>1. ASSUME NEW k \in Handles
          PROVE  handle'[k].pins = (handle[k].pins + Owns(call'[c].h, k) + Owns(call'[c].h2, k))
                                       - Owns(call[c].h, k) - Owns(call[c].h2, k)
      <3>1. k # 0 /\ handle[k].pins \in Nat
        BY PoolAssumption DEF PoolInv, PoolTyped, HandleRow
      <3>2. /\ Owns(call'[c].h, k) = IF id = k THEN 1 ELSE 0
            /\ Owns(call'[c].h2, k) = 0 /\ Owns(call[c].h, k) = 0 /\ Owns(call[c].h2, k) = 0
        BY <1>2, <1>3, <1>4, <3>1 DEF Owns
      <3>3. handle'[k].pins = IF id = k THEN handle[k].pins + 1 ELSE handle[k].pins
        BY <1>1 DEF HandlesGrow
      <3> QED BY ONLY <3>1, <3>2, <3>3
    <2>2. PoolTyped /\ PinsBalanced
      BY DEF PoolInv
    <2> QED BY <1>3, <2>1, <2>2, PinsFollow
  <1>9. CallOnHandle(c)' /\ TxCached(c)' /\ SessionCached(c)'
    BY <1>1, <1>2, <1>3, <1>4 DEF CallOnHandle, TxCached, SessionCached, InTransaction
  <1>10. ASSUME NEW d \in Callers \ {c} PROVE CallOnHandle(d)' /\ TxCached(d)' /\ SessionCached(d)'
    BY <1>1, <1>3, OthersKeepTheirs
  <1> QED BY <1>1, <1>5, <1>6, <1>7, <1>8, <1>9, <1>10 DEF PoolInv

\* TableState pins for liveAuthz, inside Listen's transaction.
LEMMA AuthzPins ==
    ASSUME PoolInv, NEW c \in Callers, AuthzPin(c)
    PROVE  PoolInv'
  <1> DEFINE h == call[c].h
  <1>1. call[c].pc = "authz" /\ mu = Free /\ UNCHANGED <<mu, closed, file, files, tracked, over>>
    BY DEF AuthzPin
  <1>2. /\ call[c] \in CallRow /\ CallOnHandle(c) /\ TxCached(c)
        /\ h \in Handles /\ h # 0 /\ call[c].ns \in Namespaces /\ handle[h].ns = call[c].ns
        /\ call[c].h2 = 0 /\ c \in tracked
    BY <1>1, CallerFacts DEF CallOnHandle
  <1>3. CASE call' = [call EXCEPT ![c].pc = "listenTx"] /\ UNCHANGED <<nss, handle, lru>>
    <2> DEFINE r == [call[c] EXCEPT !.pc = "listenTx"]
    <2>1. /\ r \in CallRow /\ call' = [call EXCEPT ![c] = r] /\ r.pc = "listenTx"
          /\ r.h = h /\ r.h2 = 0 /\ r.ns = call[c].ns /\ r.kind = call[c].kind
      BY <1>2, <1>3 DEF CallRow, PoolAt
    <2> HIDE DEF r
    <2>2. call'[c] = r /\ \A d \in Callers \ {c} : call'[d] = call[d]
      BY <2>1 DEF PoolInv, PoolTyped
    <2>3. SameHandles /\ OthersStay(c)
      BY <1>1, <1>3, <2>2 DEF SameHandles, OthersStay, PoolInv, PoolTyped
    <2>4. Connected'
      <3>1. Writes(c) /\ ~Reads(c) /\ Writes(c)' /\ ~Reads(c)'
        BY <1>1, <2>1, <2>2 DEF Writes, Reads, InTransaction
      <3> QED BY <1>3, <2>1, <2>2, <3>1, ConnectionsKept
    <2>5. PinsBalanced'
      BY <1>2, <1>3, <2>1, <2>2, PinsKept
    <2>6. CallOnHandle(c)' /\ TxCached(c)' /\ SessionCached(c)'
      BY <1>1, <1>2, <1>3, <2>1, <2>2 DEF CallOnHandle, TxCached, SessionCached, InTransaction
    <2> QED BY <1>1, <1>3, <2>1, <2>3, <2>4, <2>5, <2>6, CallerSteps
  <1>4. ASSUME NEW id \in Handles, Pinned(call[c].ns, id),
               call' = [call EXCEPT ![c].pc = "authzRead", ![c].h2 = id]
        PROVE  PoolInv'
    <2> DEFINE r == [call[c] EXCEPT !.pc = "authzRead", !.h2 = id]
    <2>1. /\ r \in CallRow /\ call' = [call EXCEPT ![c] = r] /\ r.pc = "authzRead"
          /\ r.h = h /\ r.h2 = id /\ r.ns = call[c].ns /\ r.kind = call[c].kind
      BY <1>2, <1>4 DEF CallRow, PoolAt
    <2> HIDE DEF r
    <2>2. call'[c] = r /\ \A d \in Callers \ {c} : call'[d] = call[d]
      BY <2>1 DEF PoolInv, PoolTyped
    <2>3. /\ HandlesGrow(id)
          /\ handle'[id].ns = call[c].ns /\ handle'[id].inc = file[call[c].ns] /\ handle'[id].pins = handle[id].pins + 1
          /\ handle[id].ns # Free => handle'[id].inc = handle[id].inc /\ handle'[id].ns = handle[id].ns
          /\ nss'[call[c].ns] = id /\ Cached' /\ ~closed /\ id # 0
      BY <1>1, <1>2, <1>4, Pins
    <2>4. PoolTyped'
      BY <1>1, <2>1, <2>3 DEF PoolInv, PoolTyped, HandlesGrow
    <2>5. MuHeld'
      BY <1>1, <2>1, <2>2 DEF PoolInv, MuHeld
    <2>6. Connected'
      <3>1. Writes(c) /\ ~Reads(c) /\ Writes(c)' /\ ~Reads(c)'
        BY <1>1, <2>1, <2>2 DEF Writes, Reads, InTransaction
      <3> QED BY <2>1, <2>2, <2>3, <3>1, ConnectionsKept DEF HandlesGrow
    <2>7. PinsBalanced'
      <3>1. ASSUME NEW k \in Handles
            PROVE  handle'[k].pins = (handle[k].pins + Owns(call'[c].h, k) + Owns(call'[c].h2, k))
                                         - Owns(call[c].h, k) - Owns(call[c].h2, k)
        <4>1. k # 0 /\ handle[k].pins \in Nat
          BY PoolAssumption DEF PoolInv, PoolTyped, HandleRow
        <4>2. /\ Owns(call'[c].h, k) = Owns(call[c].h, k) /\ Owns(call[c].h, k) \in {0, 1}
              /\ Owns(call'[c].h2, k) = (IF id = k THEN 1 ELSE 0) /\ Owns(call[c].h2, k) = 0
          BY <1>2, <2>1, <2>2, <4>1 DEF Owns
        <4>3. handle'[k].pins = IF id = k THEN handle[k].pins + 1 ELSE handle[k].pins
          BY <2>3 DEF HandlesGrow
        <4> QED BY ONLY <4>1, <4>2, <4>3
      <3>2. PoolTyped /\ PinsBalanced
        BY DEF PoolInv
      <3> QED BY <2>2, <3>1, <3>2, PinsFollow
    <2>8. nss[call[c].ns] = h /\ nss'[call[c].ns] = h /\ id = h
      BY <1>1, <1>2, <2>3 DEF TxCached, InTransaction, HandlesGrow
    <2>9. CallOnHandle(c)'
      BY <1>1, <1>2, <2>1, <2>2, <2>3, <2>8, PoolAssumption DEF CallOnHandle
    <2>10. TxCached(c)' /\ SessionCached(c)'
      BY <1>1, <2>1, <2>2, <2>3, <2>8 DEF TxCached, SessionCached
    <2>11. ASSUME NEW d \in Callers \ {c} PROVE CallOnHandle(d)' /\ TxCached(d)' /\ SessionCached(d)'
      BY <1>1, <2>2, <2>3, OthersKeepTheirs
    <2> QED BY <2>3, <2>4, <2>5, <2>6, <2>7, <2>9, <2>10, <2>11 DEF PoolInv
  <1> QED BY <1>3, <1>4 DEF AuthzPin

-----------------------------------------------------------------------------
(* CreateNamespace, DropNamespace and Close.                                *)

LEMMA Creates ==
    ASSUME PoolInv, NEW c \in Callers, NEW ns \in Namespaces, CreateNamespace(c, ns)
    PROVE  PoolInv'
  <1>1. /\ mu = Free /\ ~closed /\ file[ns] = 0 /\ nss[ns] = 0 /\ files < MaxFiles /\ files' = files + 1
        /\ over' = over \cup SessionsOf(ns) /\ UNCHANGED <<mu, closed, call, tracked>>
    BY DEF CreateNamespace, endSessionsOf
  <1>2. over' \subseteq tracked /\ over \subseteq over'
    BY <1>1 DEF SessionsOf, PoolInv, PoolTyped
  <1>3. files + 1 \in Nat \ {0} /\ files + 1 \in 0 .. MaxFiles
    <2>1. files \in 0 .. MaxFiles /\ MaxFiles \in Nat /\ files < MaxFiles
      BY <1>1, PoolAssumption DEF PoolInv, PoolTyped
    <2> QED BY ONLY <2>1
  <1>4. MuHeld'
    BY <1>1 DEF PoolInv, MuHeld
  <1>5. CASE UNCHANGED <<file, nss, handle, lru>>
    <2>1. PoolTyped'
      BY <1>1, <1>2, <1>3, <1>5 DEF PoolInv, PoolTyped
    <2>2. Connected' /\ PinsBalanced'
      BY <1>1, <1>5 DEF PoolInv, Connected, PinsBalanced, Writes, Reads, InTransaction
    <2>3. Cached'
      BY <1>1, <1>5 DEF PoolInv, Cached
    <2>4. ASSUME NEW d \in Callers PROVE CallOnHandle(d)' /\ TxCached(d)' /\ SessionCached(d)'
      <3>1. CallOnHandle(d) /\ TxCached(d) /\ SessionCached(d)
        BY DEF PoolInv
      <3> QED BY <1>1, <1>2, <1>5, <3>1 DEF CallOnHandle, TxCached, SessionCached, InTransaction
    <2> QED BY <1>4, <2>1, <2>2, <2>3, <2>4 DEF PoolInv
  <1>6. ASSUME file' = [file EXCEPT ![ns] = files + 1], NEW id \in Handles, Opened(ns, files + 1, id, 0)
        PROVE  PoolInv'
    <2>1. /\ file'[ns] = files + 1 /\ \A m \in Namespaces \ {ns} : file'[m] = file[m]
          /\ file' \in [Namespaces -> 0 .. MaxFiles]
      BY <1>3, <1>6 DEF PoolInv, PoolTyped
    <2>2. /\ HandlesGrow(id) /\ id \in Fresh
          /\ handle'[id].ns = ns /\ handle'[id].inc = files + 1 /\ handle'[id].pins = 0
          /\ nss'[ns] = id /\ Cached'
      BY <1>1, <1>3, <1>6, <2>1, Opens
    <2>3. handle[id].pins = 0 /\ handle[id].ns = Free
      BY <2>2, FreshIsFree DEF Fresh
    <2>4. PoolTyped'
      BY <1>1, <1>2, <1>3, <2>1, <2>2 DEF PoolInv, PoolTyped, HandlesGrow
    <2>5. Connected'
      BY <1>1, <2>2 DEF PoolInv, Connected, Writes, Reads, InTransaction, HandlesGrow
    <2>6. PinsBalanced'
      <3>1. \A k \in Handles : handle'[k].pins = handle[k].pins
        BY <2>2, <2>3 DEF HandlesGrow
      <3> QED BY <1>1, <3>1, PinsKept
    <2>7. \A m \in Namespaces : nss[m] # 0 => file'[m] = file[m]
      BY <1>1, <2>1
    <2>8. ASSUME NEW d \in Callers PROVE CallOnHandle(d)' /\ TxCached(d)' /\ SessionCached(d)'
      <3>1. call'[d] = call[d] /\ (d \in tracked' <=> d \in tracked) /\ (d \in over => d \in over')
        BY <1>1, <1>2
      <3> QED BY <1>1, <2>2, <2>3, <2>7, <3>1, OthersKeepTheirs
    <2> QED BY <1>4, <2>2, <2>4, <2>5, <2>6, <2>8 DEF PoolInv
  <1> QED BY <1>5, <1>6 DEF CreateNamespace

\* Handles are closed; nobody is moved.
LEMMA ClosedFacts ==
    ASSUME PoolInv, NEW ks, handle' = [k \in Handles |-> IF k \in ks THEN [handle[k] EXCEPT !.open = FALSE]
                                                        ELSE handle[k]]
    PROVE  /\ handle' \in [Handles -> HandleRow]
           /\ \A k \in Handles : /\ handle'[k].ns = handle[k].ns /\ handle'[k].inc = handle[k].inc
                                 /\ handle'[k].pins = handle[k].pins /\ handle'[k].rw = handle[k].rw
                                 /\ handle'[k].ro = handle[k].ro
                                 /\ handle'[k].open = (handle[k].open /\ k \notin ks)
  <1>1. ASSUME NEW k \in Handles
        PROVE  /\ handle'[k] \in HandleRow /\ handle'[k].ns = handle[k].ns /\ handle'[k].inc = handle[k].inc
               /\ handle'[k].pins = handle[k].pins /\ handle'[k].rw = handle[k].rw
               /\ handle'[k].ro = handle[k].ro
               /\ handle'[k].open = (handle[k].open /\ k \notin ks)
    <2>1. handle[k] \in HandleRow /\ handle'[k] = IF k \in ks THEN [handle[k] EXCEPT !.open = FALSE] ELSE handle[k]
      BY DEF PoolInv, PoolTyped
    <2> QED BY <2>1 DEF HandleRow
  <1>2. handle' \in [Handles -> HandleRow]
    BY <1>1
  <1> QED BY <1>1, <1>2

LEMMA DropStarts ==
    ASSUME PoolInv, NEW c \in Callers, NEW ns \in Namespaces, DropStart(c, ns)
    PROVE  PoolInv'
  <1> DEFINE r == [Idle EXCEPT !.pc = "evict", !.ns = ns]
  <1>1. /\ call[c].pc = "idle" /\ mu = Free /\ ~closed /\ file[ns] # 0 /\ mu' = c
        /\ handle' = [k \in Handles |-> IF k \in {nss[ns]} THEN [handle[k] EXCEPT !.open = FALSE] ELSE handle[k]]
        /\ call' = [call EXCEPT ![c] = r] /\ UNCHANGED <<closed, file, files, nss, tracked, over>>
    BY DEF DropStart
  <1>2. r \in CallRow /\ r.pc = "evict" /\ r.ns = ns /\ r.h = 0 /\ r.h2 = 0
    BY DEF Idle, CallRow, PoolAt
  <1> HIDE DEF r
  <1>3. call'[c] = r /\ \A d \in Callers \ {c} : call'[d] = call[d]
    BY <1>1 DEF PoolInv, PoolTyped
  <1>4. call[c].h = 0 /\ call[c].h2 = 0 /\ c \notin tracked /\ c # Free
    BY <1>1, CallerFacts, PoolAssumption DEF CallOnHandle
  <1>5. /\ handle' \in [Handles -> HandleRow]
        /\ \A k \in Handles : /\ handle'[k].ns = handle[k].ns /\ handle'[k].inc = handle[k].inc
                              /\ handle'[k].pins = handle[k].pins /\ handle'[k].rw = handle[k].rw
                              /\ handle'[k].ro = handle[k].ro
                              /\ handle'[k].open = (handle[k].open /\ k \notin {nss[ns]})
    BY <1>1, ClosedFacts
  <1>6. PoolTyped'
    BY <1>1, <1>2, <1>5 DEF PoolInv, PoolTyped
  <1>7. MuHeld'
    <2>1. \A d \in Callers : call[d].pc # "evict"
      BY <1>1, PoolAssumption DEF PoolInv, MuHeld
    <2> QED BY <1>1, <1>2, <1>3, <1>4, <2>1 DEF MuHeld
  <1>8. Connected'
    <2>1. ~Writes(c) /\ ~Reads(c) /\ ~Writes(c)' /\ ~Reads(c)'
      BY <1>1, <1>2, <1>3 DEF Writes, Reads, InTransaction
    <2> QED BY <1>3, <1>5, <2>1, ConnectionsKept
  <1>9. PinsBalanced'
    BY <1>2, <1>3, <1>4, <1>5, PinsKept
  <1>10. Cached'
    <2>1. ASSUME NEW m \in Namespaces, nss[m] # 0
          PROVE  /\ handle'[nss[m]].ns = m /\ handle'[nss[m]].inc = file[m] /\ file[m] # 0
                 /\ handle'[nss[m]].open \/ (mu' # Free /\ call'[mu'].ns = m)
      <3>1. nss[m] \in Handles
        BY <2>1 DEF PoolInv, PoolTyped
      <3>2. handle[nss[m]].ns = m /\ handle[nss[m]].inc = file[m] /\ file[m] # 0 /\ handle[nss[m]].open
        BY <1>1, <2>1 DEF PoolInv, Cached
      <3>3. CASE m = ns
        BY <1>1, <1>2, <1>3, <1>4, <1>5, <3>1, <3>2, <3>3
      <3>4. CASE m # ns
        <4>1. nss[m] # nss[ns]
          BY <2>1, <3>2, <3>4 DEF PoolInv, Cached
        <4> QED BY <1>5, <3>1, <3>2, <4>1
      <3> QED BY <3>3, <3>4
    <2>2. ASSUME NEW k \in Handles, handle'[k].open
          PROVE  handle'[k].ns \in Namespaces /\ nss[handle'[k].ns] = k /\ call'[mu'].ns # handle'[k].ns
      <3>1. handle[k].open /\ k # nss[ns] /\ handle'[k].ns = handle[k].ns
        BY <1>5, <2>2
      <3>2. handle[k].ns \in Namespaces /\ nss[handle[k].ns] = k
        BY <3>1 DEF PoolInv, Cached
      <3> QED BY <1>1, <1>2, <1>3, <3>1, <3>2
    <2> QED BY <1>1, <2>1, <2>2 DEF Cached
  <1>11. CallOnHandle(c)' /\ TxCached(c)' /\ SessionCached(c)'
    BY <1>1, <1>2, <1>3, <1>4 DEF CallOnHandle, TxCached, SessionCached, InTransaction
  <1>12. ASSUME NEW d \in Callers \ {c} PROVE CallOnHandle(d)' /\ TxCached(d)' /\ SessionCached(d)'
    <2>1. call[d] \in CallRow /\ CallOnHandle(d) /\ TxCached(d) /\ SessionCached(d) /\ call'[d] = call[d]
      BY <1>3, CallerFacts
    <2>2. /\ call[d].h # 0 => handle'[call[d].h].ns = handle[call[d].h].ns /\ handle'[call[d].h].inc = handle[call[d].h].inc
          /\ call[d].h2 # 0 => handle'[call[d].h2].ns = handle[call[d].h2].ns
      BY <1>5, <2>1 DEF CallRow
    <2>3. CallOnHandle(d)'
      BY <1>1, <2>1, <2>2 DEF CallOnHandle
    <2>4. TxCached(d)' /\ SessionCached(d)'
      BY <1>1, <2>1, <2>2 DEF CallOnHandle, TxCached, SessionCached, InTransaction
    <2> QED BY <2>3, <2>4
  <1> QED BY <1>6, <1>7, <1>8, <1>9, <1>10, <1>11, <1>12 DEF PoolInv

\* The file goes only when nobody has a connection on its handle.
LEMMA DropEnds ==
    ASSUME PoolInv, NEW c \in Callers, DropEnd(c)
    PROVE  PoolInv'
  <1> DEFINE ns == call[c].ns
  <1>1. /\ call[c].pc = "evict" /\ Evicted(ns) /\ nss' = [nss EXCEPT ![ns] = 0]
        /\ file' \in {file, [file EXCEPT ![ns] = 0]} /\ over' = over \cup SessionsOf(ns)
        /\ mu' = Free /\ call' = [call EXCEPT ![c] = Idle] /\ UNCHANGED <<closed, files, handle, tracked>>
    BY DEF DropEnd, endSessionsOf
  <1>2. ns \in Namespaces /\ mu = c /\ c # Free /\ call[c].h = 0 /\ call[c].h2 = 0 /\ c \notin tracked /\ ~closed
    BY <1>1, CallerFacts, PoolAssumption DEF CallOnHandle, PoolInv, MuHeld
  <1>3. Idle \in CallRow /\ Idle.pc = "idle" /\ Idle.h = 0 /\ Idle.h2 = 0
    BY DEF Idle, CallRow, PoolAt
  <1>4. call'[c] = Idle /\ \A d \in Callers \ {c} : call'[d] = call[d]
    BY <1>1 DEF PoolInv, PoolTyped
  <1>5. /\ nss'[ns] = 0 /\ \A m \in Namespaces \ {ns} : nss'[m] = nss[m] /\ file'[m] = file[m]
        /\ nss' \in [Namespaces -> Handles \cup {0}] /\ file' \in [Namespaces -> 0 .. MaxFiles]
    <2>1. nss \in [Namespaces -> Handles \cup {0}] /\ file \in [Namespaces -> 0 .. MaxFiles] /\ 0 \in 0 .. MaxFiles
      BY PoolAssumption DEF PoolInv, PoolTyped
    <2> QED BY <1>1, <1>2, <2>1
  <1>6. over' \subseteq tracked /\ over \subseteq over' /\ \A d \in tracked : call[d].ns = ns => d \in over'
    BY <1>1 DEF SessionsOf, PoolInv, PoolTyped
  <1>7. PoolTyped'
    BY <1>1, <1>3, <1>5, <1>6 DEF PoolInv, PoolTyped
  <1>8. MuHeld'
    BY <1>1, <1>2, <1>3, <1>4, PoolAssumption DEF PoolInv, MuHeld
  <1>9. Connected'
    <2>1. ~Writes(c) /\ ~Reads(c) /\ ~Writes(c)' /\ ~Reads(c)'
      BY <1>1, <1>3, <1>4 DEF Writes, Reads, InTransaction
    <2> QED BY <1>1, <1>4, <2>1, ConnectionsKept
  <1>10. PinsBalanced'
    BY <1>1, <1>2, <1>3, <1>4, PinsKept
  <1>11. Cached'
    <2>1. ASSUME NEW m \in Namespaces, nss'[m] # 0
          PROVE  /\ handle[nss'[m]].ns = m /\ handle[nss'[m]].inc = file'[m] /\ file'[m] # 0
                 /\ handle[nss'[m]].open
      <3>1. m # ns /\ nss'[m] = nss[m] /\ file'[m] = file[m]
        BY <1>5, <2>1
      <3> QED BY <1>2, <2>1, <3>1 DEF PoolInv, Cached
    <2>2. ASSUME NEW k \in Handles, handle[k].open PROVE handle[k].ns \in Namespaces /\ nss'[handle[k].ns] = k
      <3>1. handle[k].ns \in Namespaces /\ nss[handle[k].ns] = k
        BY <2>2 DEF PoolInv, Cached
      <3>2. handle[k].ns # ns
        <4>1. mu = Free \/ call[mu].ns # handle[k].ns
          BY <2>2 DEF PoolInv, Cached
        <4> QED BY <1>1, <1>2, <4>1, PoolAssumption
      <3> QED BY <1>5, <3>1, <3>2
    <2> QED BY <1>1, <1>2, <2>1, <2>2 DEF Cached
  <1>12. CallOnHandle(c)' /\ TxCached(c)' /\ SessionCached(c)'
    BY <1>1, <1>2, <1>3, <1>4 DEF CallOnHandle, TxCached, SessionCached, InTransaction
  <1>13. ASSUME NEW d \in Callers \ {c} PROVE CallOnHandle(d)' /\ TxCached(d)' /\ SessionCached(d)'
    <2>1. call[d] \in CallRow /\ CallOnHandle(d) /\ TxCached(d) /\ SessionCached(d) /\ call'[d] = call[d]
      BY <1>4, CallerFacts
    <2>2. CallOnHandle(d)'
      BY <1>1, <2>1 DEF CallOnHandle
    <2>3. InTransaction(d) => call[d].h \in Handles /\ call[d].ns \in Namespaces /\ nss[call[d].ns] = call[d].h
                              /\ call[d].h # 0
      BY <1>2, <2>1 DEF CallOnHandle, TxCached, InTransaction, CallRow
    <2>4. InTransaction(d) => call[d].ns # ns
      <3> SUFFICES ASSUME InTransaction(d), call[d].ns = ns PROVE FALSE
        OBVIOUS
      <3>1. nss[ns] # 0 /\ nss[ns] = call[d].h
        BY <2>3
      <3>2. handle[call[d].h].rw = Free /\ handle[call[d].h].ro = {}
        BY <1>1, <3>1 DEF Evicted
      <3>3. handle[call[d].h].rw = d \/ d \in handle[call[d].h].ro
        BY <2>3 DEF PoolInv, Connected, Writes
      <3> QED BY <3>2, <3>3, PoolAssumption
    <2>5. TxCached(d)'
      <3>1. InTransaction(d)' <=> InTransaction(d)
        BY <2>1 DEF InTransaction
      <3>2. InTransaction(d) => nss'[call[d].ns] = call[d].h /\ file'[call[d].ns] = file[call[d].ns]
        BY <1>5, <2>3, <2>4
      <3> QED BY <1>1, <2>1, <3>1, <3>2 DEF TxCached
    <2>6. SessionCached(d)'
      <3> SUFFICES ASSUME call[d].pc \in {"session", "pump"}, d \notin over' PROVE nss'[call[d].ns] = call[d].h
        BY <2>1 DEF SessionCached
      <3>1. d \in tracked /\ d \notin over /\ call[d].ns # ns /\ call[d].ns \in Namespaces
        BY <1>6, <2>1, CallerFacts DEF CallOnHandle
      <3> QED BY <1>5, <2>1, <3>1 DEF SessionCached
    <2> QED BY <2>2, <2>5, <2>6
  <1> QED BY <1>7, <1>8, <1>9, <1>10, <1>11, <1>12, <1>13 DEF PoolInv

LEMMA Closes ==
    ASSUME PoolInv, NEW c \in Callers, Close(c)
    PROVE  PoolInv'
  <1>1. /\ mu = Free /\ ~closed /\ closed' = TRUE
        /\ handle' = [k \in Handles |-> IF k \in Handles THEN [handle[k] EXCEPT !.open = FALSE] ELSE handle[k]]
        /\ nss' = [ns \in Namespaces |-> 0]
        /\ over' = over \cup {s \in tracked : nss[call[s].ns] # 0}
        /\ UNCHANGED <<mu, file, files, call, tracked>>
    BY DEF Close
  <1>2. /\ handle' \in [Handles -> HandleRow]
        /\ \A k \in Handles : /\ handle'[k].ns = handle[k].ns /\ handle'[k].inc = handle[k].inc
                              /\ handle'[k].pins = handle[k].pins /\ handle'[k].rw = handle[k].rw
                              /\ handle'[k].ro = handle[k].ro
                              /\ handle'[k].open = (handle[k].open /\ k \notin Handles)
    BY <1>1, ClosedFacts
  <1>3. PoolTyped'
    BY <1>1, <1>2 DEF PoolInv, PoolTyped
  <1>4. MuHeld'
    BY <1>1 DEF PoolInv, MuHeld
  <1>5. Connected'
    BY <1>1, <1>2 DEF PoolInv, Connected, Writes, Reads, InTransaction
  <1>6. PinsBalanced'
    BY <1>1, <1>2, PinsKept
  <1>7. Cached'
    BY <1>1, <1>2 DEF Cached
  <1>8. ASSUME NEW d \in Callers PROVE CallOnHandle(d)' /\ TxCached(d)' /\ SessionCached(d)'
    <2>1. call[d] \in CallRow /\ CallOnHandle(d) /\ TxCached(d) /\ SessionCached(d) /\ call' = call
      BY <1>1, CallerFacts
    <2>2. /\ call[d].h # 0 => handle'[call[d].h].ns = handle[call[d].h].ns /\ handle'[call[d].h].inc = handle[call[d].h].inc
          /\ call[d].h2 # 0 => handle'[call[d].h2].ns = handle[call[d].h2].ns
      BY <1>2, <2>1 DEF CallRow
    <2>3. CallOnHandle(d)'
      BY <1>1, <2>1, <2>2 DEF CallOnHandle
    <2>4. InTransaction(d) => handle'[call[d].h].inc = file[call[d].ns]
      BY <2>1, <2>2 DEF CallOnHandle, TxCached, InTransaction
    <2>5. InTransaction(d) /\ d \in tracked => d \in over'
      <3> SUFFICES ASSUME InTransaction(d), d \in tracked PROVE d \in over'
        OBVIOUS
      <3>1. call[d].h # 0 /\ nss[call[d].ns] = call[d].h
        BY <1>1, <2>1 DEF CallOnHandle, TxCached, InTransaction
      <3> QED BY <1>1, <3>1
    <2>6. TxCached(d)'
      BY <1>1, <2>1, <2>4, <2>5 DEF TxCached, InTransaction
    <2>7. SessionCached(d)'
      BY <1>1, <2>1 DEF CallOnHandle, SessionCached
    <2> QED BY <2>3, <2>6, <2>7
  <1> QED BY <1>3, <1>4, <1>5, <1>6, <1>7, <1>8 DEF PoolInv

-----------------------------------------------------------------------------
LEMMA PoolStarts == PoolInit => PoolInv
  <1> SUFFICES ASSUME PoolInit PROVE PoolInv
    OBVIOUS
  <1>1. /\ Unused \in HandleRow /\ Unused.ns = Free /\ ~Unused.open /\ Unused.pins = 0 /\ Unused.rw = Free /\ Unused.ro = {}
        /\ Idle \in CallRow /\ Idle.pc = "idle" /\ Idle.h = 0 /\ Idle.h2 = 0
    BY DEF Unused, HandleRow, Idle, CallRow, PoolAt
  <1>2. /\ \A id \in Handles : handle[id] = Unused
        /\ \A c \in Callers : call[c] = Idle
        /\ \A ns \in Namespaces : nss[ns] = 0
        /\ mu = Free /\ ~closed /\ tracked = {} /\ over = {}
    BY DEF PoolInit
  <1>3. PoolTyped
    <2>1. 0 \in 0 .. MaxFiles
      BY ONLY PoolAssumption
    <2>2. file \in [Namespaces -> 0 .. MaxFiles] /\ files \in 0 .. MaxFiles
      BY <2>1 DEF PoolInit
    <2>3. nss \in [Namespaces -> Handles \cup {0}] /\ handle \in [Handles -> HandleRow]
          /\ call \in [Callers -> CallRow]
      BY <1>1 DEF PoolInit
    <2>4. closed \in BOOLEAN /\ mu \in Callers \cup {Free} /\ tracked \subseteq Callers /\ over \subseteq tracked
      BY DEF PoolInit
    <2> QED BY <2>2, <2>3, <2>4 DEF PoolTyped
  <1>4. MuHeld /\ Cached /\ Connected
    BY <1>1, <1>2, PoolAssumption DEF MuHeld, Cached, Connected, Writes, Reads, InTransaction
  <1>5. PinsBalanced
    <2> SUFFICES ASSUME NEW id \in Handles
                 PROVE  handle[id].pins = Cardinality({c \in Callers : call[c].h = id})
                                        + Cardinality({c \in Callers : call[c].h2 = id})
      BY DEF PinsBalanced
    <2>1. id # 0
      BY PoolAssumption
    <2>2. {c \in Callers : call[c].h = id} = {} /\ {c \in Callers : call[c].h2 = id} = {}
      BY <1>1, <1>2, <2>1
    <2>3. Cardinality({}) = 0
      BY FS_EmptySet
    <2>4. handle[id].pins = 0
      BY <1>1, <1>2
    <2>5. Cardinality({c \in Callers : call[c].h = id}) = 0 /\ Cardinality({c \in Callers : call[c].h2 = id}) = 0
      BY <2>2, <2>3
    <2> QED BY ONLY <2>4, <2>5
  <1>6. \A c \in Callers : CallOnHandle(c) /\ TxCached(c) /\ SessionCached(c)
    BY <1>1, <1>2 DEF CallOnHandle, TxCached, SessionCached, InTransaction
  <1> QED BY <1>3, <1>4, <1>5, <1>6 DEF PoolInv

LEMMA PoolStep == PoolInv /\ [PoolNext]_poolVars => PoolInv'
  <1> SUFFICES ASSUME PoolInv, [PoolNext]_poolVars PROVE PoolInv'
    OBVIOUS
  <1>1. ASSUME NEW c \in Callers, OpBegin(c) PROVE PoolInv'
    <2>1. call[c].kind \in {"rw", "ro"}
      BY <1>1, CallerFacts DEF OpBegin, CallOnHandle, CallRow
    <2> QED BY <1>1, <2>1, TxBegins DEF OpBegin, PoolAt
  <1>2. ASSUME NEW c \in Callers, NEW b \in Backlogs, ListenBegin(c, b) PROVE PoolInv'
    <2> DEFINE at == IF b THEN "authz" ELSE "listenTx"
    <2>1. at \in PoolAt /\ at \in {"authz", "listenTx"} /\ call' = [call EXCEPT ![c].pc = at]
      BY <1>2 DEF ListenBegin, PoolAt
    <2> HIDE DEF at
    <2> QED BY <1>2, <2>1, TxBegins DEF ListenBegin
  <1>3. ASSUME NEW c \in Callers, PumpBegin(c) PROVE PoolInv'
    BY <1>3, TxBegins DEF PumpBegin, PoolAt
  <1>4. ASSUME NEW c \in Callers, OpFails(c) \/ ListenGivesUp(c) \/ SessionEnd(c) PROVE PoolInv'
    BY <1>4, ReturnsIdle
  <1>5. ASSUME NEW c \in Callers, OpEnd(c) PROVE PoolInv'
    BY <1>5, OpReturns
  <1>6. ASSUME NEW c \in Callers, ListenCanceled(c) \/ ListenCommit(c) \/ PumpEnd(c) PROVE PoolInv'
    BY <1>6, ListenTxEnds
  <1>7. ASSUME NEW c \in Callers, trackSession(c) PROVE PoolInv'
    BY <1>7, SessionTracked
  <1>8. ASSUME NEW c \in Callers, AuthzPin(c) \/ AuthzRead(c) PROVE PoolInv'
    BY <1>8, AuthzPins, AuthzReturns
  <1>9. ASSUME NEW c \in Callers, NEW ns \in Namespaces, NEW kind \in {"rw", "ro"}, OpStart(c, ns, kind)
        PROVE  PoolInv'
    BY <1>9, CallStarts DEF OpStart
  <1>10. ASSUME NEW c \in Callers, NEW ns \in Namespaces, ListenStart(c, ns) PROVE PoolInv'
    BY <1>10, CallStarts DEF ListenStart
  <1>11. ASSUME NEW c \in Callers, NEW ns \in Namespaces, CreateNamespace(c, ns) \/ DropStart(c, ns) PROVE PoolInv'
    BY <1>11, Creates, DropStarts
  <1>12. ASSUME NEW c \in Callers, DropEnd(c) \/ Close(c) PROVE PoolInv'
    BY <1>12, DropEnds, Closes
  <1>13. CASE UNCHANGED poolVars
    <2>1. UNCHANGED <<mu, closed, file, files, nss, handle, call, tracked, over>>
      BY <1>13 DEF poolVars
    <2>2. PoolTyped' /\ MuHeld' /\ Cached' /\ PinsBalanced'
      BY <2>1 DEF PoolInv, PoolTyped, MuHeld, Cached, PinsBalanced
    <2>3. Connected'
      BY <2>1 DEF PoolInv, Connected, Writes, Reads, InTransaction
    <2>4. \A c \in Callers : CallOnHandle(c)' /\ TxCached(c)' /\ SessionCached(c)'
      BY <2>1 DEF PoolInv, CallOnHandle, TxCached, SessionCached, InTransaction
    <2> QED BY <2>2, <2>3, <2>4 DEF PoolInv
  <1> QED BY <1>1, <1>2, <1>3, <1>4, <1>5, <1>6, <1>7, <1>8, <1>9, <1>10, <1>11, <1>12, <1>13
          DEF PoolNext, PoolContinue

\* Whatever calls, drops, evictions and closes overlap: a transaction never outlives
\* the file it runs on, one handle at most of a namespace is written through, no drop
\* is missed by a session, and every pin has its owner (lockedNSCtx, pinLocked,
\* evictIdleLocked, DropNamespace, Close, Listen).
THEOREM PoolStaysSafe == PoolSpec => []PoolSafe
  <1>1. PoolInv => PoolSafe
    <2> SUFFICES ASSUME PoolInv PROVE PoolSafe
      OBVIOUS
    <2>1. PoolTypeOK /\ PinsBalanced
      BY DEF PoolInv, PoolTyped, PoolTypeOK, HandleRow
    <2>2. TxOnCurrentFile
      BY DEF PoolInv, TxCached, TxOnCurrentFile
    <2>3. SessionsOnCurrentHandle
      BY DEF PoolInv, SessionCached, SessionsOnCurrentHandle
    <2>4. OneWriter
      <3> SUFFICES ASSUME NEW id \in Handles, NEW ns \in Namespaces
                   PROVE  /\ (nss[ns] = id /\ mu = Free) => handle[id].open /\ handle[id].inc = file[ns]
                          /\ (handle[id].ns = ns /\ handle[id].rw # Free /\ ~closed) => nss[ns] = id
        BY DEF OneWriter
      <3>1. nss[ns] = id /\ mu = Free => handle[id].open /\ handle[id].inc = file[ns]
        BY PoolAssumption DEF PoolInv, Cached
      <3>2. ASSUME handle[id].ns = ns, handle[id].rw # Free, ~closed PROVE nss[ns] = id
        <4>1. PICK d \in Callers : handle[id].rw = d
          BY <3>2 DEF PoolInv, PoolTyped, HandleRow
        <4>2. call[d].h = id /\ InTransaction(d) /\ call[d].ns = ns
          BY <3>2, <4>1, PoolAssumption DEF PoolInv, Connected, Writes, CallOnHandle
        <4> QED BY <3>2, <4>2 DEF PoolInv, TxCached
      <3> QED BY <3>1, <3>2
    <2> QED BY <2>1, <2>2, <2>3, <2>4 DEF PoolSafe
  <1> QED BY <1>1, PoolStarts, PoolStep, PTL DEF PoolSpec
=============================================================================
