---------------------------- MODULE NamespacePool ----------------------------
(***************************************************************************)
(* The SQLite store's pool of open namespaces (internal/store/store.go and  *)
(* lifecycle.go): Store.mu, the nss map of open handles, their pins, LRU    *)
(* eviction, and the operations that create, drop and close under callers   *)
(* that hold handles, transactions and listen sessions.                     *)
(*                                                                         *)
(* An action is what a caller does while it holds Store.mu without          *)
(* blocking, or one use of a database/sql pool.  A handle is the pair of    *)
(* pools of one nsDB: a write pool of one connection and a read pool.       *)
(***************************************************************************)
EXTENDS Integers, Sequences, FiniteSets

CONSTANTS
    Namespaces,
    Callers,     \* goroutines that call the store
    Free,        \* no caller: an unlocked mutex, an idle write connection
    MaxOpen,     \* Store.maxOpen
    Backlogs,    \* may Listen start behind the head with authorization on?
    Handles,     \* bound: identities of the handles ever opened, 1 .. n
    MaxFiles     \* bound: namespace files ever created

ASSUME PoolAssumption ==
    /\ Free \notin Callers \cup Namespaces /\ IsFiniteSet(Callers) /\ MaxOpen \in Nat \ {0}
    /\ Backlogs \subseteq BOOLEAN
    /\ MaxFiles \in Nat /\ Handles \subseteq Nat \ {0}

VARIABLES
    mu,       \* holder of Store.mu
    closed,   \* Store.closed
    file,     \* incarnation of each namespace's database file, 0 when there is none
    files,    \* incarnations so far
    nss,      \* Store.nss: the cached handle of each namespace, 0 when not open
    handle,   \* per identity: [ns, inc, open, pins, rw, ro]
    lru,      \* namespaces by lastUse, oldest first
    call,     \* per caller: [pc, ns, h, h2, kind]
    tracked,  \* callers whose session is in Store.listenSessions
    over      \* callers whose session was ended by endSessionsOf

poolVars == <<mu, closed, file, files, nss, handle, lru, call, tracked, over>>

Unused == [ns |-> Free, inc |-> 0, open |-> FALSE, pins |-> 0, rw |-> Free, ro |-> {}]
Idle   == [pc |-> "idle", ns |-> Free, h |-> 0, h2 |-> 0, kind |-> "none"]

Fresh == {id \in Handles : handle[id].ns = Free}

\* The callers of a session or of a Listen call on ns that is tracked.
SessionsOf(ns) == {c \in tracked : call[c].ns = ns}

-----------------------------------------------------------------------------
\* Seeded fault: the least recently used handle goes, in use or not.
EvictableBusy(ns) == nss[ns] # 0

\* evictIdleLocked passes over a handle that is pinned or has a connection in use.
Evictable(ns) ==
    /\ nss[ns] # 0
    /\ handle[nss[ns]].pins = 0 /\ handle[nss[ns]].rw = Free /\ handle[nss[ns]].ro = {}

UsedBefore(m, ns) == \E i, j \in DOMAIN lru : i < j /\ lru[i] = m /\ lru[j] = ns

\* The least recently used evictable namespaces, as many as the bound asks for.
Victims ==
    LET open   == {ns \in Namespaces : nss[ns] # 0}
        excess == Cardinality(open) - MaxOpen + 1
        idle   == {ns \in Namespaces : Evictable(ns)}
    IN  {ns \in idle : Cardinality({m \in idle : UsedBefore(m, ns)}) < excess}

Others(ns) == SelectSeq(lru, LAMBDA m : m # ns)
Used(ns) == Append(Others(ns), ns)

\* lockedNSCtx opens the file of incarnation inc as handle id, with `pins` pins,
\* after making room.
Opened(ns, inc, id, pins) ==
    /\ id \in Fresh /\ \A other \in Fresh : id <= other
    /\ handle' = [k \in Handles |->
          IF k = id THEN [Unused EXCEPT !.ns = ns, !.inc = inc, !.open = TRUE, !.pins = pins]
          ELSE IF \E v \in Victims : nss[v] = k THEN [handle[k] EXCEPT !.open = FALSE]
          ELSE handle[k]]
    /\ nss' = [m \in Namespaces |-> IF m = ns THEN id
                                   ELSE IF m \in Victims THEN 0 ELSE nss[m]]

\* ns() and nsCtx() under Store.mu: lockedNSCtx finds the cached handle or opens
\* one, and pinLocked pins it.
Pinned(ns, id) ==
    /\ ~closed
    /\ \/ /\ nss[ns] # 0 /\ id = nss[ns]
          /\ handle' = [handle EXCEPT ![id].pins = @ + 1]
          /\ UNCHANGED nss
       \/ /\ nss[ns] = 0 /\ file[ns] # 0
          /\ Opened(ns, file[ns], id, 1)
    /\ lru' = Used(ns)

\* The file is missing or the store is closed: the call returns an error.
NotThere(ns) == closed \/ (nss[ns] = 0 /\ file[ns] = 0)

Unpin(h) == [handle EXCEPT ![h].pins = @ - 1]

-----------------------------------------------------------------------------
(* A read or write operation: pin, one transaction, unpin.                 *)

OpStart(c, ns, kind) ==
    /\ call[c].pc = "idle" /\ mu = Free
    /\ \E id \in Handles :
          /\ Pinned(ns, id)
          /\ call' = [call EXCEPT ![c] = [Idle EXCEPT !.pc = "pinned", !.ns = ns, !.h = id,
                                                     !.kind = kind]]
    /\ UNCHANGED <<mu, closed, file, files, tracked, over>>

\* BeginTx waits for the one write connection and fails once the handle is closed.
CanBegin(h, kind) == handle[h].open /\ (kind = "ro" \/ handle[h].rw = Free)

Taken(h, kind, c) ==
    IF kind = "ro" THEN [handle EXCEPT ![h].ro = @ \cup {c}]
    ELSE [handle EXCEPT ![h].rw = c]

Released(h, kind, c) ==
    IF kind = "ro" THEN [handle EXCEPT ![h].ro = @ \ {c}, ![h].pins = @ - 1]
    ELSE [handle EXCEPT ![h].rw = Free, ![h].pins = @ - 1]

OpBegin(c) ==
    /\ call[c].pc = "pinned" /\ CanBegin(call[c].h, call[c].kind)
    /\ handle' = Taken(call[c].h, call[c].kind, c)
    /\ call' = [call EXCEPT ![c].pc = "tx"]
    /\ UNCHANGED <<mu, closed, file, files, nss, lru, tracked, over>>

OpFails(c) ==
    /\ call[c].pc = "pinned" /\ ~handle[call[c].h].open
    /\ handle' = Unpin(call[c].h)
    /\ call' = [call EXCEPT ![c] = Idle]
    /\ UNCHANGED <<mu, closed, file, files, nss, lru, tracked, over>>

OpEnd(c) ==
    /\ call[c].pc = "tx"
    /\ handle' = Released(call[c].h, call[c].kind, c)
    /\ call' = [call EXCEPT ![c] = Idle]
    /\ UNCHANGED <<mu, closed, file, files, nss, lru, tracked, over>>

-----------------------------------------------------------------------------
(* Listen and the session it leaves behind.                                *)

\* nsCtx; then, without Store.mu, onCommit and trackSession.
ListenStart(c, ns) ==
    /\ call[c].pc = "idle" /\ mu = Free
    /\ \E id \in Handles :
          /\ Pinned(ns, id)
          /\ call' = [call EXCEPT ![c] = [Idle EXCEPT !.pc = "listen", !.ns = ns, !.h = id,
                                                     !.kind = "rw"]]
    /\ UNCHANGED <<mu, closed, file, files, tracked, over>>

trackSession(c) ==
    /\ call[c].pc = "listen"
    /\ tracked' = tracked \cup {c}
    /\ call' = [call EXCEPT ![c].pc = "listening"]
    /\ UNCHANGED <<mu, closed, file, files, nss, handle, lru, over>>

\* BeginTx; behind the head, liveAuthz is then called inside the transaction.
ListenBegin(c, backlog) ==
    /\ call[c].pc = "listening" /\ CanBegin(call[c].h, "rw")
    /\ handle' = Taken(call[c].h, "rw", c)
    /\ call' = [call EXCEPT ![c].pc = IF backlog THEN "authz" ELSE "listenTx"]
    /\ UNCHANGED <<mu, closed, file, files, nss, lru, tracked, over>>

\* TableState, for liveAuthz: ns() takes Store.mu, pins and reads.
AuthzPin(c) ==
    /\ call[c].pc = "authz" /\ mu = Free
    /\ \/ \E id \in Handles :
             /\ Pinned(call[c].ns, id)
             /\ call' = [call EXCEPT ![c].pc = "authzRead", ![c].h2 = id]
       \/ /\ NotThere(call[c].ns)
          /\ call' = [call EXCEPT ![c].pc = "listenTx"]
          /\ UNCHANGED <<nss, handle, lru>>
    /\ UNCHANGED <<mu, closed, file, files, tracked, over>>

\* The subscriber hangs up or reaches its age bound, if there is one, while Listen
\* waits for Store.mu: database/sql rolls the transaction back, and Listen fails
\* once it has the lock.
ListenCanceled(c) ==
    /\ call[c].pc = "authz"
    /\ handle' = [handle EXCEPT ![call[c].h].rw = Free]
    /\ call' = [call EXCEPT ![c].pc = "canceled"]
    /\ UNCHANGED <<mu, closed, file, files, nss, lru, tracked, over>>

AuthzRead(c) ==
    /\ call[c].pc = "authzRead"
    /\ handle' = Unpin(call[c].h2)
    /\ call' = [call EXCEPT ![c].pc = "listenTx", ![c].h2 = 0]
    /\ UNCHANGED <<mu, closed, file, files, nss, lru, tracked, over>>

\* The transaction commits; the session keeps the pin.
ListenCommit(c) ==
    /\ call[c].pc = "listenTx"
    /\ handle' = [handle EXCEPT ![call[c].h].rw = Free]
    /\ call' = [call EXCEPT ![c].pc = "session"]
    /\ UNCHANGED <<mu, closed, file, files, nss, lru, tracked, over>>

\* Listen fails on a closed handle or a done context: untrack, unpin.
ListenGivesUp(c) ==
    /\ \/ call[c].pc = "listening" /\ ~handle[call[c].h].open
       \/ call[c].pc = "canceled" /\ mu = Free
    /\ handle' = Unpin(call[c].h)
    /\ call' = [call EXCEPT ![c] = Idle]
    /\ tracked' = tracked \ {c} /\ over' = over \ {c}
    /\ UNCHANGED <<mu, closed, file, files, nss, lru>>

\* A pump of the session runs a transaction on the handle it pins.
PumpBegin(c) ==
    /\ call[c].pc = "session" /\ c \notin over /\ CanBegin(call[c].h, "rw")
    /\ handle' = Taken(call[c].h, "rw", c)
    /\ call' = [call EXCEPT ![c].pc = "pump"]
    /\ UNCHANGED <<mu, closed, file, files, nss, lru, tracked, over>>

PumpEnd(c) ==
    /\ call[c].pc = "pump"
    /\ handle' = [handle EXCEPT ![call[c].h].rw = Free]
    /\ call' = [call EXCEPT ![c].pc = "session"]
    /\ UNCHANGED <<mu, closed, file, files, nss, lru, tracked, over>>

\* The session ends, by its verdict or by cancel(): untracked, unpinWhenDone.
SessionEnd(c) ==
    /\ call[c].pc = "session"
    /\ handle' = Unpin(call[c].h)
    /\ call' = [call EXCEPT ![c] = Idle]
    /\ tracked' = tracked \ {c} /\ over' = over \ {c}
    /\ UNCHANGED <<mu, closed, file, files, nss, lru>>

-----------------------------------------------------------------------------
(* CreateNamespace, DropNamespace and Close.                               *)

endSessionsOf(ns) == over' = over \cup SessionsOf(ns)

\* Under Store.mu throughout: a new file, whose handle is opened but not pinned
\* (lastUse 0: the first to be evicted).  A failed open removes the file again.
\* evict finds no handle: a file is only ever removed together with its handle.
CreateNamespace(c, ns) ==
    /\ call[c].pc = "idle" /\ mu = Free /\ ~closed
    /\ file[ns] = 0 /\ nss[ns] = 0 /\ files < MaxFiles
    /\ files' = files + 1
    /\ \/ /\ file' = [file EXCEPT ![ns] = files + 1]
          /\ \E id \in Handles : Opened(ns, files + 1, id, 0)
          /\ lru' = <<ns>> \o Others(ns)
       \/ UNCHANGED <<file, nss, handle, lru>>
    /\ endSessionsOf(ns)
    /\ UNCHANGED <<mu, closed, call, tracked>>

\* DropNamespace takes Store.mu and closes the handle's pools (evict) ...
DropStart(c, ns) ==
    /\ call[c].pc = "idle" /\ mu = Free /\ ~closed /\ file[ns] # 0
    /\ mu' = c
    /\ handle' = [k \in Handles |-> IF k = nss[ns] THEN [handle[k] EXCEPT !.open = FALSE]
                                    ELSE handle[k]]
    /\ call' = [call EXCEPT ![c] = [Idle EXCEPT !.pc = "evict", !.ns = ns]]
    /\ UNCHANGED <<closed, file, files, nss, lru, tracked, over>>

\* Seeded fault: the drop waits for the pins too.
EvictedUnpinned(ns) ==
    nss[ns] # 0 => /\ handle[nss[ns]].rw = Free /\ handle[nss[ns]].ro = {}
                   /\ handle[nss[ns]].pins = 0

\* ... waits until no connection is open ...
Evicted(ns) == nss[ns] # 0 => handle[nss[ns]].rw = Free /\ handle[nss[ns]].ro = {}

\* ... and removes the file, which may fail, ends the sessions and unlocks.
DropEnd(c) ==
    LET ns == call[c].ns IN
    /\ call[c].pc = "evict" /\ Evicted(ns)
    /\ nss' = [nss EXCEPT ![ns] = 0]
    /\ file' \in {file, [file EXCEPT ![ns] = 0]}
    /\ endSessionsOf(ns)
    /\ mu' = Free
    /\ call' = [call EXCEPT ![c] = Idle]
    /\ UNCHANGED <<closed, files, handle, lru, tracked>>

\* Close does not wait for open transactions.
Close(c) ==
    /\ call[c].pc = "idle" /\ mu = Free /\ ~closed
    /\ closed' = TRUE
    /\ handle' = [k \in Handles |-> [handle[k] EXCEPT !.open = FALSE]]
    /\ nss' = [ns \in Namespaces |-> 0]
    /\ over' = over \cup {s \in tracked : nss[call[s].ns] # 0}
    /\ UNCHANGED <<mu, file, files, lru, call, tracked>>

-----------------------------------------------------------------------------
PoolInit ==
    /\ mu = Free /\ closed = FALSE
    /\ file = [ns \in Namespaces |-> 0] /\ files = 0
    /\ nss = [ns \in Namespaces |-> 0] /\ handle = [id \in Handles |-> Unused]
    /\ lru = <<>>
    /\ call = [c \in Callers |-> Idle]
    /\ tracked = {} /\ over = {}

\* Steps a caller takes once it has started.
PoolContinue(c) ==
    \/ OpBegin(c) \/ OpFails(c) \/ OpEnd(c)
    \/ trackSession(c) \/ \E b \in Backlogs : ListenBegin(c, b)
    \/ AuthzPin(c) \/ AuthzRead(c) \/ ListenCommit(c) \/ ListenGivesUp(c)
    \/ PumpEnd(c) \/ DropEnd(c)

PoolNext == \E c \in Callers :
    \/ PoolContinue(c) \/ ListenCanceled(c) \/ PumpBegin(c) \/ SessionEnd(c) \/ Close(c)
    \/ \E ns \in Namespaces :
          \/ CreateNamespace(c, ns) \/ DropStart(c, ns) \/ ListenStart(c, ns)
          \/ \E kind \in {"rw", "ro"} : OpStart(c, ns, kind)

PoolSpec == PoolInit /\ [][PoolNext]_poolVars

\* A started call goes on, also when it has to wait for a connection or for the
\* lock (database/sql and the mutex's channel hand both to a waiter, so no caller
\* is passed over for ever); a session whose verdict has come ends.  Nothing makes a
\* subscriber hang up, and -max-subscription-age 0 disables the age bound.
PoolFairness == \A c \in Callers : SF_poolVars(PoolContinue(c)) /\ WF_poolVars(c \in over /\ SessionEnd(c))

PoolFairSpec == PoolSpec /\ PoolFairness

-----------------------------------------------------------------------------
PoolTypeOK ==
    /\ mu \in Callers \cup {Free} /\ closed \in BOOLEAN
    /\ file \in [Namespaces -> 0 .. MaxFiles] /\ files \in 0 .. MaxFiles
    /\ nss \in [Namespaces -> Handles \cup {0}]
    /\ \A id \in Handles : handle[id].pins \in Nat /\ handle[id].rw \in Callers \cup {Free}
    /\ tracked \subseteq Callers /\ over \subseteq tracked

InTransaction(c) == call[c].pc \in {"tx", "authz", "authzRead", "listenTx", "pump"}

\* A transaction never outlives the file it runs on: no drop removes the file, and
\* no successor replaces it, under an open transaction, whose writes would be lost.
TxOnCurrentFile ==
    \A c \in Callers : InTransaction(c) => handle[call[c].h].inc = file[call[c].ns]

\* The handle that serves a namespace is open on its current file, and nobody can
\* still write through another one: eviction, drop and reopen never leave two
\* write pools of one namespace in use, which the single-writer rule rests on.
OneWriter ==
    \A id \in Handles : \A ns \in Namespaces :
        /\ (nss[ns] = id /\ mu = Free) => handle[id].open /\ handle[id].inc = file[ns]
        /\ (handle[id].ns = ns /\ handle[id].rw # Free /\ ~closed) => nss[ns] = id

\* No drop is missed: a session that was not told to end is on the handle that
\* serves its namespace now, although Listen pins and registers without the lock.
SessionsOnCurrentHandle ==
    \A c \in Callers :
        (call[c].pc \in {"session", "pump"} /\ c \notin over /\ mu = Free)
            => nss[call[c].ns] = call[c].h

\* Every pin has its owner, on every error path: a leaked pin would keep a
\* namespace open for ever, a lost one let eviction close a handle in use.
PinsBalanced ==
    \A id \in Handles :
        handle[id].pins = Cardinality({c \in Callers : call[c].h = id})
                        + Cardinality({c \in Callers : call[c].h2 = id})

\* A drop that has taken Store.mu returns ("closes the server's own connections,
\* then deletes the file"), so that every other caller gets the lock back.
DropCompletes == \A c \in Callers : (call[c].pc = "evict") ~> (call[c].pc = "idle")

\* Every call returns, drops and creations included, unless it is a session nobody
\* ended.  Callers are interchangeable, so it is stated of one.
CallsReturn ==
    LET c == CHOOSE c \in Callers : TRUE
    IN  (call[c].pc \in {"pinned", "tx", "listen", "listening", "authz", "canceled", "evict"})
            ~> (call[c].pc \in {"idle", "session"})

\* What holds of the handles at every moment.
PoolSafe ==
    PoolTypeOK /\ TxOnCurrentFile /\ OneWriter /\ SessionsOnCurrentHandle /\ PinsBalanced
=============================================================================
