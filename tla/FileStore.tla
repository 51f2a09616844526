----------------------------- MODULE FileStore -----------------------------
(***************************************************************************)
(* Files attached to rows: a request receives its parts, places them in    *)
(* the blob store, pins them, commits rows that name them, and discards    *)
(* them when it fails; vacuum sweeps the blobs no row names; a dropped     *)
(* namespace takes its blobs with it.  Nothing counts references: pins and *)
(* attach counts in memory, and the namespace's writer, keep these apart.  *)
(*                                                                         *)
(* One namespace.  A file is its hash.  Every file is one unit long.       *)
(* Requests run on servers: with the local store there is one server, with *)
(* the shared (S3) store there are several.  A drop waits for the write    *)
(* transaction in progress and for nothing else: a request that was        *)
(* attaching goes on, and its transaction finds the namespace gone (SQLite *)
(* by the closed handle, PostgreSQL by the namespace's generation).        *)
(***************************************************************************)
EXTENDS Integers, FiniteSets

CONSTANTS
    Sums,
    Requests,
    Servers,
    ServerOf,       \* request -> the server that runs it with the shared store
    Home,           \* the server that runs everything with the local store
    NoSum,
    Stores,         \* the stores to check: shared, cap (0: uncapped), inTx (a batch attaches
                    \* in its transaction), copies (callers use copy_from), pending
                    \* (-max-pending-files-size), calls (bound: requests that the
                    \* callers send) and restarts (bound: of a server)
    MaxVacuums,     \* bound: vacuums
    MaxDrops,       \* bound: drops of the namespace
    EarlyUse        \* writers may create the namespace anew before its drop has answered

ASSUME FilesAssumption ==
    /\ IsFiniteSet(Requests) /\ {"none", "vacuum"} \cap Requests = {} /\ NoSum \notin Sums
    /\ Home \in Servers /\ ServerOf \in [Requests -> Servers]
    /\ Stores \subseteq [shared : BOOLEAN, cap : Nat, inTx : BOOLEAN, copies : BOOLEAN, pending : Nat,
                         calls : Nat, restarts : Nat]

VARIABLES
    store,      \* the configured store; it never changes
    blobs,      \* the hashes in the blob store
    rows,       \* request -> the hash in the file field of the row it wrote
    writer,     \* who holds the namespace's write transaction
    ns,         \* the namespace: exists, generation
    req,        \* request -> its state
    mem,        \* server -> pins, attaches, total, pending, drops and the lock holder of Store.mu;
                \* a total also has, for the books only, the files its failed Puts left behind
    placing,    \* server -> hashes whose hashLock is held
    vac,        \* the vacuum in progress
    drop,       \* the drop in progress
    budget      \* what is left of the bounds

filesVars == <<store, blobs, rows, writer, ns, req, mem, placing, vac, drop, budget>>

None == "none"
Unknown == [known |-> FALSE, bytes |-> 0, missed |-> 0]       \* totals has no entry for the namespace
Noted(n) == [known |-> TRUE, bytes |-> n, missed |-> 0]
Plus(t, n) == IF t.known THEN [t EXCEPT !.bytes = @ + n] ELSE t
NoFile == [at |-> "idle", sum |-> NoSum, gen |-> 0, tmp |-> FALSE, pins |-> 0, created |-> FALSE, found |-> FALSE]
NoMem == [pins |-> [s \in Sums |-> 0], attaches |-> [s \in Sums |-> 0], total |-> Unknown,
          pending |-> 0, drops |-> 0, mu |-> None]
NoVacuum == [at |-> "idle", on |-> None, refs |-> {}, listed |-> {}, kept |-> 0]
NoDrop == [at |-> "idle", on |-> None]

Srv(r) == IF store.shared THEN ServerOf[r] ELSE Home
Mem(r) == mem[Srv(r)]
Unlocked(srv) == mem[srv].mu = None
Referenced == {rows[r] : r \in Requests} \ {NoSum}

\* A field of one server's memory.
SetMem(srv, m) == mem' = [mem EXCEPT ![srv] = m]
Go(r, at) == req' = [req EXCEPT ![r].at = at]

FilesInit ==
    /\ store \in Stores
    /\ blobs = {} /\ rows = [r \in Requests |-> NoSum] /\ writer = None
    /\ ns = [on |-> TRUE, gen |-> 0]
    /\ req = [r \in Requests |-> NoFile]
    /\ mem = [s \in Servers |-> NoMem]
    /\ placing = [s \in Servers |-> {}]
    /\ vac = NoVacuum /\ drop = NoDrop
    /\ budget = [calls |-> store.calls, vacuums |-> MaxVacuums, drops |-> MaxDrops, restarts |-> store.restarts]

(***************************************************************************)
(* Receiving                                                               *)
(***************************************************************************)
\* Receive reserves the part's bytes, or the request ends with 503.  The
\* namespace handle that the write will use is taken after it (gen).
Receive(r) ==
    /\ req[r].at = "idle" /\ budget.calls > 0 /\ ns.on /\ Unlocked(Srv(r))
    /\ budget' = [budget EXCEPT !.calls = @ - 1]
    /\ \E s \in Sums :
        IF Mem(r).pending + 1 > store.pending THEN Go(r, "closing") /\ UNCHANGED mem
        ELSE /\ SetMem(Srv(r), [Mem(r) EXCEPT !.pending = @ + 1])
             /\ req' = [req EXCEPT ![r] = [NoFile EXCEPT !.at = IF store.inTx THEN "begin" ELSE "attach",
                                             !.sum = s, !.gen = ns.gen, !.tmp = TRUE]]
    /\ UNCHANGED <<store, blobs, rows, writer, ns, placing, vac, drop>>

\* copyFile reads a row that the caller can see and takes its hash.
copyFile(r) ==
    /\ req[r].at = "idle" /\ budget.calls > 0 /\ ns.on /\ store.copies
    /\ budget' = [budget EXCEPT !.calls = @ - 1]
    /\ \E s \in Referenced :
        req' = [req EXCEPT ![r] = [NoFile EXCEPT !.at = "pin", !.sum = s, !.gen = ns.gen]]
    /\ UNCHANGED <<store, blobs, rows, writer, ns, mem, placing, vac, drop>>

(***************************************************************************)
(* Attaching                                                               *)
(***************************************************************************)
pin(m, s) == [m EXCEPT !.pins[s] = @ + 1]
unpin(m, s) == [m EXCEPT !.pins[s] = @ - 1]
dropping(r) == Mem(r).drops > 0
AfterAttach == IF store.inTx THEN "tx" ELSE "begin"
Fails(r) == req' = [req EXCEPT ![r].at = "failed"]

\* The part becomes the request's: its bytes are no longer pending.
Placed(r, m, made) ==
    /\ SetMem(Srv(r), [m EXCEPT !.pending = @ - 1])
    /\ req' = [req EXCEPT ![r].at = AfterAttach, ![r].tmp = FALSE, ![r].pins = 1, ![r].created = made]

\* Attach without a cap: a pin, taken before the blob is looked at.
AttachPin(r) ==
    /\ req[r].at = "attach" /\ store.cap = 0 /\ Unlocked(Srv(r))
    /\ IF dropping(r) THEN Fails(r) /\ UNCHANGED mem
       ELSE SetMem(Srv(r), pin(Mem(r), req[r].sum)) /\ Go(r, "place")
    /\ UNCHANGED <<store, blobs, rows, writer, ns, placing, vac, drop, budget>>

\* place, under the hash's lock but not under Store.mu: the blob is looked
\* for, put if it is not there, and counted.  A Put may fail after the blob is
\* in its place (the sync of the directory, the answer of S3).
PlaceStat(r) ==
    /\ req[r].at = "place" /\ req[r].sum \notin placing[Srv(r)]
    /\ placing' = [placing EXCEPT ![Srv(r)] = @ \cup {req[r].sum}]
    /\ req' = [req EXCEPT ![r].at = "put", ![r].found = req[r].sum \in blobs]
    /\ UNCHANGED <<store, blobs, rows, writer, ns, mem, vac, drop, budget>>

PlacePut(r) ==
    /\ req[r].at = "put"
    /\ LET new == IF req[r].found THEN {} ELSE {req[r].sum}
       IN  \/ blobs' = blobs \cup new /\ Go(r, "count")
           \/ blobs' \in {blobs, blobs \cup new} /\ Go(r, "put failed")
    /\ UNCHANGED <<store, rows, writer, ns, mem, placing, vac, drop, budget>>

PlaceFailed(r) ==
    /\ req[r].at = "put failed" /\ Unlocked(Srv(r))
    /\ SetMem(Srv(r), unpin(Mem(r), req[r].sum)) /\ Fails(r)
    /\ placing' = [placing EXCEPT ![Srv(r)] = @ \ {req[r].sum}]
    /\ UNCHANGED <<store, blobs, rows, writer, ns, vac, drop, budget>>

\* A hash with an attach count was placed by a request that is still open.
PlaceCount(r) ==
    /\ req[r].at = "count" /\ Unlocked(Srv(r))
    /\ LET s == req[r].sum
           made == Mem(r).attaches[s] = 0 /\ ~req[r].found
           m == [Mem(r) EXCEPT !.attaches[s] = IF @ > 0 \/ made THEN @ + 1 ELSE @]
       IN  Placed(r, m, made)
    /\ placing' = [placing EXCEPT ![Srv(r)] = @ \ {req[r].sum}]
    /\ UNCHANGED <<store, blobs, rows, writer, ns, vac, drop, budget>>

\* namespaceTotal: the total of the namespace's blobs, listed when unknown.
namespaceTotal(m) == IF m.total.known THEN m.total ELSE Noted(Cardinality(blobs))

\* Attach with a cap, all of it under Store.mu: placeCapped.  A Put that fails
\* leaves the total as it was, whether or not the blob is in its place.
placeCapped(r) ==
    /\ req[r].at = "attach" /\ store.cap > 0 /\ Unlocked(Srv(r))
    /\ LET s == req[r].sum
           m == pin(Mem(r), s)
           total == namespaceTotal(Mem(r))
           full == total.bytes + 1 > store.cap
       IN  \/ Fails(r) /\ UNCHANGED <<mem, blobs>>
           \/ /\ ~dropping(r) /\ s \in blobs
              /\ Placed(r, [m EXCEPT !.attaches[s] = IF @ > 0 THEN @ + 1 ELSE @], FALSE)
              /\ UNCHANGED blobs
           \/ /\ ~dropping(r) /\ s \notin blobs
              /\ SetMem(Srv(r), [Mem(r) EXCEPT !.total = total]) /\ Fails(r) /\ UNCHANGED blobs
           \/ /\ ~dropping(r) /\ s \notin blobs /\ ~full
              /\ Placed(r, [m EXCEPT !.attaches[s] = 1, !.total = Plus(total, 1)], TRUE)
              /\ blobs' = blobs \cup {s}
           \/ /\ ~dropping(r) /\ s \notin blobs /\ ~full
              /\ SetMem(Srv(r), [Mem(r) EXCEPT !.total = [total EXCEPT !.missed = @ + 1]])
              /\ Fails(r) /\ blobs' = blobs \cup {s}
    /\ UNCHANGED <<store, rows, writer, ns, placing, vac, drop, budget>>

\* Pin, for copy_from: the pin comes first, then the look at the blob.
PinFirst(r) ==
    /\ req[r].at = "pin" /\ Unlocked(Srv(r))
    /\ IF dropping(r) THEN Fails(r) /\ UNCHANGED mem
       ELSE SetMem(Srv(r), pin(Mem(r), req[r].sum)) /\ Go(r, "stat")
    /\ UNCHANGED <<store, blobs, rows, writer, ns, placing, vac, drop, budget>>

PinStat(r) ==
    /\ req[r].at = "stat"
    /\ req' = [req EXCEPT ![r].at = "pinned", ![r].found = req[r].sum \in blobs]
    /\ UNCHANGED <<store, blobs, rows, writer, ns, mem, placing, vac, drop, budget>>

PinCount(r) ==
    /\ req[r].at = "pinned" /\ Unlocked(Srv(r))
    /\ IF req[r].found
       THEN /\ SetMem(Srv(r), [Mem(r) EXCEPT !.attaches[req[r].sum] = IF @ > 0 THEN @ + 1 ELSE @])
            /\ req' = [req EXCEPT ![r].at = "begin", ![r].pins = 1]
       ELSE SetMem(Srv(r), unpin(Mem(r), req[r].sum)) /\ Fails(r)
    /\ UNCHANGED <<store, blobs, rows, writer, ns, placing, vac, drop, budget>>

(***************************************************************************)
(* The write, and how the request ends                                     *)
(***************************************************************************)
\* The engine's write transaction.  A namespace that is not the one the
\* write was prepared for is not found.
Begin(r) ==
    /\ req[r].at = "begin" /\ writer = None
    /\ IF ns.on /\ ns.gen = req[r].gen
       THEN writer' = r /\ Go(r, IF store.inTx /\ req[r].tmp THEN "attach" ELSE "tx")
       ELSE Fails(r) /\ UNCHANGED writer
    /\ UNCHANGED <<store, blobs, rows, ns, mem, placing, vac, drop, budget>>

\* Confirm: with a shared store, every pinned blob must still be there.
Confirm(r) == store.shared => req[r].sum \in blobs

\* A commit whose answer the caller did not get (a timeout or a cancelled
\* request) is not followed by Discard.
Commit(r) ==
    /\ req[r].at = "tx" /\ Confirm(r)
    /\ rows' = [rows EXCEPT ![r] = req[r].sum]
    /\ writer' = None /\ Go(r, "closing")
    /\ UNCHANGED <<store, blobs, ns, mem, placing, vac, drop, budget>>

\* The transaction is rolled back: a refused row, a failed Confirm.
Rollback(r) ==
    /\ req[r].at = "tx"
    /\ writer' = None /\ Fails(r)
    /\ UNCHANGED <<store, blobs, rows, ns, mem, placing, vac, drop, budget>>

\* An error inside a batch's transaction ends the transaction too.
ReleaseWriter(r) == writer' = IF writer = r THEN None ELSE writer

\* A request that timed out or was cancelled: its outcome is not known to
\* the handler, which closes it without discarding.
TimedOut(r) ==
    /\ req[r].at \in {"begin", "tx"}
    /\ Go(r, "closing") /\ ReleaseWriter(r)
    /\ UNCHANGED <<store, blobs, rows, ns, mem, placing, vac, drop, budget>>

\* Seeded fault: the pins of other requests are not looked at.
MayDeleteUnpinned(m, s) == ~store.shared /\ m.attaches[s] = 1

\* Discard deletes a blob only if no other request attached it since.
MayDelete(m, s) == ~store.shared /\ m.attaches[s] = 1 /\ m.pins[s] <= 1

Discard(r) ==
    /\ req[r].at = "failed" /\ Unlocked(Srv(r)) /\ ReleaseWriter(r)
    /\ IF req[r].created
       THEN LET s == req[r].sum
                goes == MayDelete(Mem(r), s)
                m == Mem(r)
            IN  /\ blobs' = blobs \ (IF goes THEN {s} ELSE {})
                /\ SetMem(Srv(r), [m EXCEPT !.attaches[s] = 0,
                     !.total = IF goes /\ s \in blobs THEN Plus(@, -1) ELSE @])
       ELSE UNCHANGED <<blobs, mem>>
    /\ req' = [req EXCEPT ![r].at = "closing", ![r].created = FALSE]
    /\ UNCHANGED <<store, rows, ns, placing, vac, drop, budget>>

\* Seeded fault: a part that was never placed keeps its bytes reserved.
CloseMemKeeps(m, f) ==
    [m EXCEPT !.pins[f.sum] = @ - f.pins, !.attaches[f.sum] = IF f.created THEN 0 ELSE @]

\* CloseRequest: reserved bytes, pins and the attach count of a blob it made.
CloseMem(m, f) ==
    [m EXCEPT !.pins[f.sum] = @ - f.pins, !.attaches[f.sum] = IF f.created THEN 0 ELSE @,
              !.pending = @ - (IF f.tmp THEN 1 ELSE 0)]

CloseRequest(r) ==
    /\ req[r].at = "closing" /\ Unlocked(Srv(r))
    /\ IF req[r].sum = NoSum THEN UNCHANGED mem ELSE SetMem(Srv(r), CloseMem(Mem(r), req[r]))
    /\ req' = [req EXCEPT ![r] = NoFile]
    /\ UNCHANGED <<store, blobs, rows, writer, ns, placing, vac, drop, budget>>

\* A row's file field is cleared or replaced, or the row is deleted.
ClearRow(r) ==
    /\ rows[r] # NoSum /\ writer = None
    /\ rows' = [rows EXCEPT ![r] = NoSum]
    /\ UNCHANGED <<store, blobs, writer, ns, req, mem, placing, vac, drop, budget>>

(***************************************************************************)
(* Vacuum and its sweep                                                    *)
(***************************************************************************)
\* Vacuum holds the namespace's writer while it reads the references.
fileReferences(srv) ==
    /\ vac.at = "idle" /\ budget.vacuums > 0 /\ writer = None /\ ns.on
    /\ budget' = [budget EXCEPT !.vacuums = @ - 1]
    /\ writer' = "vacuum"
    /\ vac' = [NoVacuum EXCEPT !.at = "refs", !.on = srv, !.refs = Referenced]
    /\ UNCHANGED <<store, blobs, rows, ns, req, mem, placing, drop>>

SweepList ==
    /\ vac.at = "refs" /\ Unlocked(vac.on)
    /\ mem' = [mem EXCEPT ![vac.on].mu = "sweep"]
    /\ vac' = [vac EXCEPT !.at = "sweep", !.listed = blobs]
    /\ UNCHANGED <<store, blobs, rows, writer, ns, req, placing, drop, budget>>

Kept(s) == s \in vac.refs \/ mem[vac.on].pins[s] > 0

Sweep(s) ==
    /\ vac.at = "sweep" /\ s \in vac.listed
    /\ vac' = [vac EXCEPT !.listed = @ \ {s}, !.kept = @ + (IF Kept(s) THEN 1 ELSE 0)]
    /\ blobs' = IF Kept(s) THEN blobs ELSE blobs \ {s}
    /\ mem' = [mem EXCEPT ![vac.on].total = IF Kept(s) THEN @ ELSE Plus(@, -1)]
    /\ UNCHANGED <<store, rows, writer, ns, req, placing, drop, budget>>

\* The sweep may fail part-way; a sweep that ends notes the bytes it kept.
SweepEnd ==
    /\ vac.at = "sweep"
    /\ \/ vac.listed = {} /\ mem' = [mem EXCEPT ![vac.on].total = Noted(vac.kept), ![vac.on].mu = None]
       \/ vac.listed # {} /\ mem' = [mem EXCEPT ![vac.on].mu = None]
    /\ writer' = None /\ vac' = NoVacuum
    /\ UNCHANGED <<store, blobs, rows, ns, req, placing, drop, budget>>

(***************************************************************************)
(* Dropping the namespace                                                  *)
(***************************************************************************)
\* evict and DropNamespace of the engines: a transaction in progress ends first.
EngineDrop(srv) ==
    /\ drop.at = "idle" /\ budget.drops > 0 /\ ns.on /\ writer = None
    /\ budget' = [budget EXCEPT !.drops = @ - 1]
    /\ ns' = [on |-> FALSE, gen |-> ns.gen + 1] /\ rows' = [r \in Requests |-> NoSum]
    /\ drop' = [at |-> "engine", on |-> srv]
    /\ UNCHANGED <<store, blobs, writer, req, mem, placing, vac>>

\* files.DropNamespace: no attach is let in while the blobs are deleted.
DropFiles ==
    /\ drop.at = "engine" /\ Unlocked(drop.on)
    /\ SetMem(drop.on, [mem[drop.on] EXCEPT !.total = Unknown, !.attaches = [s \in Sums |-> 0], !.drops = @ + 1])
    /\ drop' = [drop EXCEPT !.at = "blobs"]
    /\ UNCHANGED <<store, blobs, rows, writer, ns, req, placing, vac, budget>>

DropBlobs ==
    /\ drop.at = "blobs" /\ blobs' = {} /\ drop' = [drop EXCEPT !.at = "end"]
    /\ UNCHANGED <<store, rows, writer, ns, req, mem, placing, vac, budget>>

DropFilesEnd ==
    /\ drop.at = "end" /\ Unlocked(drop.on)
    /\ mem' = [mem EXCEPT ![drop.on].drops = @ - 1]
    /\ drop' = NoDrop
    /\ UNCHANGED <<store, blobs, rows, writer, ns, req, placing, vac, budget>>

\* A write or create_namespace makes the namespace again.
Recreate ==
    /\ ~ns.on /\ (EarlyUse \/ drop.at = "idle")
    /\ ns' = [ns EXCEPT !.on = TRUE]
    /\ UNCHANGED <<store, blobs, rows, writer, req, mem, placing, vac, drop, budget>>

\* A server stops and starts: its memory is gone, its transactions roll back,
\* and its drop leaves the blobs that it had not deleted.
Restart(srv) ==
    /\ budget.restarts > 0
    /\ budget' = [budget EXCEPT !.restarts = @ - 1]
    /\ req' = [r \in Requests |-> IF Srv(r) = srv THEN NoFile ELSE req[r]]
    /\ SetMem(srv, NoMem) /\ placing' = [placing EXCEPT ![srv] = {}]
    /\ vac' = IF vac.on = srv THEN NoVacuum ELSE vac
    /\ drop' = IF drop.on = srv THEN NoDrop ELSE drop
    /\ writer' = IF \/ writer = "vacuum" /\ vac.on = srv
                    \/ \E r \in Requests : writer = r /\ Srv(r) = srv THEN None ELSE writer
    /\ UNCHANGED <<store, blobs, rows, ns>>

-----------------------------------------------------------------------------
Attach(r) ==
    \/ AttachPin(r) \/ PlaceStat(r) \/ PlacePut(r) \/ PlaceFailed(r) \/ PlaceCount(r)
    \/ placeCapped(r) \/ PinFirst(r) \/ PinStat(r) \/ PinCount(r)

RunsOn == IF store.shared THEN Servers ELSE {Home}

FilesNext ==
    \/ \E r \in Requests :
        \/ Receive(r) \/ copyFile(r) \/ Attach(r) \/ Begin(r) \/ Commit(r) \/ Rollback(r)
        \/ TimedOut(r) \/ Discard(r) \/ CloseRequest(r) \/ ClearRow(r)
    \/ SweepList \/ SweepEnd \/ \E s \in Sums : Sweep(s)
    \/ DropFiles \/ DropBlobs \/ DropFilesEnd \/ Recreate
    \/ \E srv \in RunsOn : fileReferences(srv) \/ EngineDrop(srv) \/ Restart(srv)

FilesSpec == FilesInit /\ [][FilesNext]_filesVars

-----------------------------------------------------------------------------
\* The file store keeps its promise to rows: whatever requests, sweeps,
\* discards, restarts and drops do at the same time, a row comes to name only
\* a stored file, and no file that a row names is removed (Attach, Pin,
\* Confirm, Discard, Sweep, DropNamespace).
Promise == INSTANCE FilePromise WITH Rows <- Requests, named <- rows, stored <- blobs
KeepsPromise == Promise!Spec

Holding(srv, s) == {r \in Requests : Srv(r) = srv /\ req[r].sum = s /\
    (req[r].pins = 1 \/ req[r].at \in {"place", "put", "put failed", "count", "stat", "pinned"})}

\* The books of a server are right at every moment: pins are those of its open
\* requests, and what is reserved is what open requests hold, so that a
\* failed request leaves neither a file no sweep may take nor bytes that no
\* later request may use; and a capped namespace's cached total is what is
\* stored, short of nothing but the files that Puts left which then failed.
BooksBalance == \A srv \in Servers :
    /\ \A s \in Sums : mem[srv].pins[s] = Cardinality(Holding(srv, s))
    /\ mem[srv].pending = Cardinality({r \in Requests : Srv(r) = srv /\ req[r].tmp})
    /\ store.cap > 0 /\ ~store.shared /\ mem[srv].total.known
          => mem[srv].total.bytes + mem[srv].total.missed = Cardinality(blobs)
=============================================================================
