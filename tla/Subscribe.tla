------------------------------ MODULE Subscribe ------------------------------
(***************************************************************************)
(* One /v1/subscribe stream over the SQLite engine: the HTTP handler        *)
(* (internal/api/sse.go) on top of a listen session (internal/store/        *)
(* listen_*.go) with its fill, drain and poll goroutines, against writers,  *)
(* grant changes, table drops, a namespace drop or store close, the age     *)
(* bound and a client that hangs up.                                        *)
(*                                                                         *)
(* Each action is what a goroutine does between two points where it takes   *)
(* sess.mu, runs a transaction, calls out, or blocks.  Nothing is pruned    *)
(* here: retention is the subject of ListenRetention.                       *)
(***************************************************************************)
EXTENDS Integers, Sequences, FiniteSets, SequencesExt

CONSTANTS
    SubscribeScenes,  \* the situations explored, see SubscribeScene
    QueueBound,       \* ListenQueueBound
    MaxSeq,           \* bound: changes committed
    MaxGen            \* bound: drops of the subscribed table

Changed == [mine : BOOLEAN, owner : {"me", "them", "unlabelled"}]

\* The changes that writers may commit, what the subscriber may see at first, "all"
\* or its "own" rows, MaxChangesPageLimit, and how often the environment interferes.
SubscribeScene == [rows : SUBSET Changed, grant : {"all", "own"}, page : Nat \ {0}, faults : Nat]

ASSUME SubscribeAssumption ==
    /\ \A s \in SubscribeScenes : s \in SubscribeScene
    /\ QueueBound \in Nat /\ MaxSeq \in Nat /\ MaxGen \in Nat

VARIABLES
    log,          \* _dolmen_changes: [mine, owner, gen], seq = index
    table,        \* the subscribed table, under row_access: [live, gen]
    grant,        \* "all" (read), "own" (a data verb only) or "revoked"
    smu,          \* Store.mu held by a namespace drop or by Close
    dbOpen,       \* the namespace's connections accept transactions
    ctx,          \* the stream's context: "live", "aged" or "gone"
    client,       \* r.Context() is live: the client is connected
    scene,        \* the scene played, its faults those that may still happen
    feed,         \* the session's feed: [all] or the table's lifetime [gen]
    start,        \* history: the position the stream was asked to start after
    boundary,     \* the head at registration: replay below it, live above it
    position, replayExhausted, replayDone, replayActive,
    liveRead, queue, notifyActive, pendingClose, pendingDrainClose, dead,
    pinned,       \* the session's pin on the namespace
    fill,         \* fill pump: [pc, page, k, admitted, ended]
    drain,        \* drain pump: [pc, seq, cause]
    http,         \* handler: [pc, page, k, admitted, res]
    live,         \* chan live, capacity 1
    ended,        \* chan ended: the cause closed() was called with
    handed,       \* history: seqs the engine handed over, by Next or notify
    hidden,       \* history: seqs admit() judged invisible
    written       \* history: seqs written as change frames

env     == <<log, table, grant>>
nsvars  == <<smu, dbOpen>>
conn    == <<ctx, client, scene>>
regvars == <<feed, start, boundary>>
replay  == <<position, replayExhausted, replayDone, replayActive>>
closing == <<pendingClose, pendingDrainClose, dead>>
chans   == <<live, ended>>
history == <<handed, hidden, written>>
vars == <<env, nsvars, conn, regvars, replay, liveRead, queue, notifyActive,
          closing, pinned, fill, drain, http, chans, history>>

None    == "none"
NoClose == [cause |-> None, yields |-> FALSE]
Seqs    == 1 .. MaxSeq

-----------------------------------------------------------------------------
\* changePageSQL's feed filter: the whole namespace, or one lifetime of a table.
InFeed(i) == feed.all \/ (log[i].mine /\ log[i].gen = feed.gen)

\* Seeded faults: the position itself is read again; the record after it is
\* skipped.
changePageInclusive(p, to) ==
    LET hits == SetToSortSeq({i \in 1 .. Len(log) : p <= i /\ i <= to /\ InFeed(i)}, <)
    IN  SubSeq(hits, 1, IF Len(hits) < scene.page THEN Len(hits) ELSE scene.page)

changePageSkips(p, to) ==
    LET hits == SetToSortSeq({i \in 1 .. Len(log) : p + 1 < i /\ i <= to /\ InFeed(i)}, <)
    IN  SubSeq(hits, 1, IF Len(hits) < scene.page THEN Len(hits) ELSE scene.page)

\* ORDER BY seq LIMIT: the next page after position p, up to seq `to`.
changePage(p, to) ==
    LET hits == SetToSortSeq({i \in 1 .. Len(log) : p < i /\ i <= to /\ InFeed(i)}, <)
    IN  SubSeq(hits, 1, IF Len(hits) < scene.page THEN Len(hits) ELSE scene.page)

LastOr(s, d) == IF s = <<>> THEN d ELSE s[Len(s)]

Short(s) == Len(s) < scene.page

\* liveAuthz, first half: authorizeFeed.  A caller with data verbs only is let in
\* by the table's row access, read from the table's current state.  Both halves
\* resolve TableState, which takes Store.mu; a dead client or store refuses.
AuthzReady     == ~smu
TableLive(i)   == log[i].mine => table.live
Authorized(i)  == grant = "all" \/ (grant = "own" /\ TableLive(i))
MayRefuse      == ~client \/ ~dbOpen
FeedAuthorized == grant = "all" \/ (grant = "own" /\ ~feed.all /\ table.live)

\* liveAuthz, second half (resolveScope), and the rest of admit(): a table that
\* is gone resolves to no scope and no lifetime; a scope is matched against the
\* owner label, and a table feed compares lifetimes.
Admitted(i) ==
    CASE ~TableLive(i)                                       -> "visible"
      [] TableLive(i) /\ grant = "revoked"                   -> "hidden"
      [] TableLive(i) /\ grant = "own" /\ log[i].owner = "unlabelled" -> "predates"
      [] TableLive(i) /\ grant = "own" /\ log[i].owner = "them"       -> "hidden"
      [] OTHER -> IF ~feed.all /\ log[i].gen # table.gen THEN "hidden" ELSE "visible"

\* endPark: the first cause ends the session; a verdict replaces a symptom.
Parked(cause, yields) ==
    CASE cause # None /\ ~dead /\ pendingClose = NoClose
           -> [cause |-> cause, yields |-> yields]
      [] cause # None /\ dead /\ ~yields /\ pendingClose # NoClose /\ pendingClose.yields
           -> [cause |-> cause, yields |-> FALSE]
      [] OTHER -> pendingClose

EndPark(cause, yields) ==
    /\ dead' = TRUE
    /\ pendingClose' = Parked(cause, yields)
    /\ UNCHANGED pendingDrainClose

\* A pump's transaction runs under sess.ctx, which the session's own end cancels
\* too; a replay page's runs under the stream's context.
PageTxFails == ctx # "live" \/ ~dbOpen
PumpTxFails == PageTxFails \/ dead

\* fillErr: the context's explicit cause, else whether the handle was evicted
\* (nsEvicted waits for Store.mu), else the error itself.
FillErrReady == ctx = "aged" \/ ~smu
fillErr == IF ctx = "aged" THEN "aged" ELSE IF ~dbOpen THEN "lifetime" ELSE "canceled"

isClosing == dead \/ pendingClose # NoClose \/ pendingDrainClose # None

-----------------------------------------------------------------------------
(* The environment.                                                        *)

\* What happens to a stream that is over is of no interest.
Interferes == http.pc # "gone" /\ scene.faults > 0 /\ scene' = [scene EXCEPT !.faults = @ - 1]

\* A write transaction commits a change and then wakes the sessions (notifyCommitted,
\* sess.wake).  A wake is no more than an early poll tick: see readBatch.
CommitWrite(r) ==
    /\ dbOpen /\ Len(log) < MaxSeq /\ http.pc # "gone"
    /\ r.mine => table.live
    /\ log' = Append(log, [mine |-> r.mine, owner |-> r.owner, gen |-> table.gen])
    /\ UNCHANGED <<table, grant, nsvars, conn, regvars, replay, liveRead, queue,
                   notifyActive, closing, pinned, fill, drain, http, chans, history>>

\* DropTable commits and calls wakeListenSessions.
DropTable ==
    /\ Interferes
    /\ dbOpen /\ table.live /\ table.gen < MaxGen
    /\ table' = [live |-> FALSE, gen |-> table.gen + 1]
    /\ UNCHANGED <<log, grant, nsvars, ctx, client, regvars, replay, liveRead, queue,
                   notifyActive, closing, pinned, fill, drain, http, chans, history>>

CreateTable ==
    /\ dbOpen /\ ~table.live /\ http.pc # "gone"
    /\ table' = [table EXCEPT !.live = TRUE]
    /\ UNCHANGED <<log, grant, nsvars, conn, regvars, replay, liveRead, queue,
                   notifyActive, closing, pinned, fill, drain, http, chans, history>>

\* The subscriber's grant is narrowed to data verbs, or revoked.
Narrow(g) ==
    /\ Interferes
    /\ grant = "all" \/ (grant = "own" /\ g = "revoked")
    /\ grant' = g
    /\ UNCHANGED <<log, table, nsvars, ctx, client, regvars, replay, liveRead, queue,
                   notifyActive, closing, pinned, fill, drain, http, chans, history>>

\* DropNamespace or Close takes Store.mu and closes the handle (evict) ...
CloseHandle ==
    /\ Interferes
    /\ dbOpen
    /\ smu' = TRUE /\ dbOpen' = FALSE
    /\ UNCHANGED <<env, ctx, client, regvars, replay, liveRead, queue,
                   notifyActive, closing, pinned, fill, drain, http, chans, history>>

\* ... and, still holding it, ends the tracked sessions with its verdict: the
\* lifetime ended, or the file could not be removed.
endListenSessions(cause) ==
    /\ smu
    /\ smu' = FALSE
    /\ IF http.pc \in {"listen", "cancel", "gone"} THEN UNCHANGED closing
       ELSE EndPark(cause, FALSE)
    /\ UNCHANGED <<env, dbOpen, conn, regvars, replay, liveRead, queue,
                   notifyActive, pinned, fill, drain, http, chans, history>>

\* The age bound, or a server drain, cancels the context with its cause.
Age ==
    /\ Interferes
    /\ ctx = "live" /\ http.pc # "listen"
    /\ ctx' = "aged"
    /\ UNCHANGED <<env, nsvars, client, regvars, replay, liveRead, queue,
                   notifyActive, closing, pinned, fill, drain, http, chans, history>>

HangUp ==
    /\ Interferes
    /\ client /\ http.pc # "listen"
    /\ client' = FALSE
    /\ ctx' = IF ctx = "live" THEN "gone" ELSE ctx
    /\ UNCHANGED <<env, nsvars, regvars, replay, liveRead, queue,
                   notifyActive, closing, pinned, fill, drain, http, chans, history>>

-----------------------------------------------------------------------------
(* Listen: register for wakes, then fix position and boundary in one       *)
(* transaction and start the pumps.                                        *)

\* The handler's authorizeFeed, the pin, onCommit and trackSession.
Register(all) ==
    /\ http.pc = "listen" /\ dbOpen
    /\ grant = "all" \/ (grant = "own" /\ ~all /\ table.live)
    /\ feed' = [feed EXCEPT !.all = all]
    /\ http' = [http EXCEPT !.pc = "listenTx"]
    /\ pinned' = TRUE
    /\ UNCHANGED <<env, nsvars, conn, start, boundary, replay, liveRead, queue,
                   notifyActive, closing, fill, drain, chans, history>>

\* `from` is the head ("") or the position of any cursor before it.  A scoped
\* caller is refused a range that holds a change without an owner label.
ListenTx(from) ==
    LET gen == [feed EXCEPT !.gen = table.gen]
        unlabeledChangeInRange ==
            \E i \in from + 1 .. Len(log) :
                /\ feed.all \/ (log[i].mine /\ log[i].gen = table.gen)
                /\ log[i].owner = "unlabelled"
    IN /\ http.pc = "listenTx"
       /\ ~PageTxFails
       /\ ~feed.all => table.live
       /\ ~(grant = "own" /\ ~feed.all /\ unlabeledChangeInRange)
       /\ feed' = gen /\ start' = from
       /\ position' = from /\ boundary' = Len(log) /\ liveRead' = Len(log)
       /\ http' = [http EXCEPT !.pc = "next"]
       /\ fill' = [fill EXCEPT !.pc = "wait"]
       /\ drain' = [drain EXCEPT !.pc = "wait"]
       /\ UNCHANGED <<env, nsvars, conn, replayExhausted, replayDone, replayActive,
                      queue, notifyActive, closing, pinned, chans, history>>

\* Listen fails: unregister, untrack, unpin; the handler answers with the error.
ListenFails ==
    /\ http.pc = "listenTx"
    /\ \/ PageTxFails
       \/ ~feed.all /\ ~table.live
       \/ \E i \in 1 .. Len(log) : grant = "own" /\ log[i].owner = "unlabelled"
    /\ http' = [http EXCEPT !.pc = "gone"]
    /\ pinned' = FALSE
    /\ UNCHANGED <<env, nsvars, conn, regvars, replay, liveRead, queue,
                   notifyActive, closing, fill, drain, chans, history>>

-----------------------------------------------------------------------------
(* The fill pump: from the live position into the bounded queue.           *)

\* What no step of the fill or drain pump touches.
world == <<env, nsvars, conn, regvars, position, replayExhausted, replayDone,
           replayActive, pinned, http>>

FillAt(pc) == [pc |-> pc, page |-> <<>>, k |-> 1, admitted |-> <<>>, ended |-> FALSE]

\* fill() and readBatch: woken by a commit, a table drop or the poll ticker, so at
\* any time, the pump stops if the session is closing and otherwise reads, in one
\* transaction, a page and whether the table's lifetime is over.  An empty page of
\* a live feed changes nothing.
readBatch ==
    LET got == changePage(liveRead, Len(log))
        over == ~feed.all /\ ~(table.live /\ table.gen = feed.gen)
    IN /\ fill.pc = "wait"
       /\ isClosing \/ PumpTxFails \/ got # <<>> \/ over
       /\ fill' = IF isClosing THEN FillAt("flush")
                  ELSE IF PumpTxFails THEN FillAt("err")
                  ELSE [FillAt("authz") EXCEPT !.page = got, !.ended = over]
       /\ UNCHANGED <<world, liveRead, queue, notifyActive, closing, drain, chans, history>>

\* admit() one record; after the last one, append.
FillAuthz ==
    /\ fill.pc = "authz" /\ fill.k <= Len(fill.page) /\ AuthzReady
    /\ Authorized(fill.page[fill.k])
    /\ fill' = [fill EXCEPT !.pc = "scope"]
    /\ UNCHANGED <<world, liveRead, queue, notifyActive, closing, drain, chans,
                   history>>

FillScope ==
    LET i == fill.page[fill.k] IN
    /\ fill.pc = "scope" /\ AuthzReady
    /\ Admitted(i) \in {"visible", "hidden"}
    /\ fill' = [fill EXCEPT !.pc = "authz", !.k = @ + 1,
                   !.admitted = IF Admitted(i) = "visible" THEN Append(@, i) ELSE @]
    /\ hidden' = IF Admitted(i) = "hidden" THEN hidden \cup {i} ELSE hidden
    /\ UNCHANGED <<world, liveRead, queue, notifyActive, closing, drain, chans,
                   handed, written>>

\* The refusal half of fillBatch: what was admitted before it still drains.
FillRefused(cause) ==
    /\ AuthzReady
    /\ \/ /\ fill.pc = "authz" /\ fill.k <= Len(fill.page) /\ cause = "revoked"
          /\ ~Authorized(fill.page[fill.k]) \/ MayRefuse
       \/ /\ fill.pc = "scope"
          /\ \/ cause = "predates" /\ Admitted(fill.page[fill.k]) = "predates"
             \/ cause = "revoked" /\ MayRefuse
    /\ liveRead' = LastOr(fill.page, liveRead)
    /\ IF dead THEN UNCHANGED <<queue, pendingDrainClose>>
       ELSE /\ queue' = queue \o fill.admitted
            /\ pendingDrainClose' = IF pendingDrainClose = None THEN cause
                                    ELSE pendingDrainClose
    /\ fill' = FillAt("wait")
    /\ UNCHANGED <<world, notifyActive, pendingClose, dead, drain, chans, history>>

\* The end of fillBatch, with the queue q: a live feed that outruns the drain
\* overflows; a dropped table's last page leaves the rest to the drain.
FillSettle(q) ==
    LET over == Len(q) > QueueBound
        tail == fill.ended /\ Short(fill.page)
    IN /\ pendingDrainClose' = IF tail THEN "lifetime" ELSE pendingDrainClose
       /\ IF ~dead /\ over /\ ~fill.ended
          THEN /\ dead' = TRUE /\ pendingClose' = Parked("overflow", TRUE)
               /\ fill' = FillAt("flush")
          ELSE /\ UNCHANGED <<dead, pendingClose>>
               /\ fill' = FillAt("wait")

\* Append the page; the tail of a dropped table waits for room in the queue.
FillAppend ==
    LET q == queue \o fill.admitted IN
    /\ fill.pc = "authz" /\ fill.k > Len(fill.page)
    /\ liveRead' = LastOr(fill.page, liveRead)
    /\ queue' = q
    /\ IF Len(q) > QueueBound /\ fill.ended /\ ~dead
       THEN fill' = [fill EXCEPT !.pc = "park"] /\ UNCHANGED closing
       ELSE FillSettle(q)
    /\ UNCHANGED <<world, notifyActive, drain, chans, history>>

FillPark ==
    /\ fill.pc = "park" /\ (dead \/ Len(queue) <= QueueBound)
    /\ FillSettle(queue)
    /\ UNCHANGED <<world, liveRead, queue, notifyActive, drain, chans, history>>

FillFails ==
    /\ fill.pc = "err" /\ FillErrReady
    /\ EndPark(fillErr, TRUE)
    /\ fill' = FillAt("flush")
    /\ UNCHANGED <<world, liveRead, queue, notifyActive, drain, chans, history>>

\* Seeded faults: a page or a notify in flight is not waited for; Store.mu is not.
FlushReadyInFlight(pump) == pump.pc = "flush" \/ (pump.pc = "flushmu" /\ ~smu)

FlushReadyUnlocked(pump) ==
    \/ pump.pc = "flush" /\ (pendingClose # NoClose => ~replayActive /\ ~notifyActive)
    \/ pump.pc = "flushmu"

FlushReady(pump) ==
    \/ pump.pc = "flush" /\ (pendingClose # NoClose => ~replayActive /\ ~notifyActive)
    \/ pump.pc = "flushmu" /\ ~smu

\* flushParkedClose: wait out a page or a notify in flight, let a drop that holds
\* Store.mu replace a symptom by its verdict, then call closed() once.
Flush(pump) ==
    /\ FlushReady(pump)
    /\ IF pump.pc = "flush" /\ pendingClose.yields
       THEN /\ pump' = [pump EXCEPT !.pc = "flushmu"]
            /\ UNCHANGED <<pendingClose, ended>>
       ELSE /\ pump' = [pump EXCEPT !.pc = "done"]
            /\ pendingClose' = NoClose
            /\ ended' = IF ended = None THEN pendingClose.cause ELSE ended
    /\ UNCHANGED <<world, liveRead, queue, notifyActive, pendingDrainClose, dead,
                   live, history>>

FillFlush  == Flush(fill) /\ UNCHANGED drain
DrainFlush == Flush(drain) /\ UNCHANGED fill

\* pollWake: a tick ends an aged session (and otherwise wakes the fill pump).
pollWake ==
    /\ fill.pc # "off" /\ ~dead /\ ctx = "aged"
    /\ EndPark("aged", FALSE)
    /\ UNCHANGED <<world, liveRead, queue, notifyActive, fill, drain, chans, history>>

-----------------------------------------------------------------------------
(* The drain pump: from the queue to notify, once the replay is done.      *)

DrainAt(pc) == [pc |-> pc, seq |-> 0, cause |-> None]

\* The live records wait until the replay has been read to its end.
ReplayOver == replayDone /\ ~replayActive

DrainStops ==
    /\ drain.pc = "wait" /\ dead
    /\ drain' = DrainAt("flush")
    /\ UNCHANGED <<world, liveRead, queue, notifyActive, closing, fill, chans, history>>

DrainNext ==
    /\ drain.pc = "wait" /\ ~dead /\ ReplayOver /\ queue # <<>>
    /\ drain' = [drain EXCEPT !.pc = "mint", !.seq = Head(queue)]
    /\ queue' = Tail(queue) /\ notifyActive' = TRUE
    /\ UNCHANGED <<world, liveRead, closing, fill, chans, history>>

\* The queue has run empty under a pending close.
DrainClose ==
    /\ drain.pc = "wait" /\ ~dead /\ ReplayOver /\ queue = <<>>
    /\ pendingDrainClose # None
    /\ drain' = [drain EXCEPT !.pc = "end", !.cause = pendingDrainClose]
    /\ pendingDrainClose' = None
    /\ UNCHANGED <<world, liveRead, queue, notifyActive, pendingClose, dead, fill, chans,
                   history>>

DrainEnd ==
    /\ drain.pc = "end"
    /\ EndPark(drain.cause, FALSE)
    /\ drain' = DrainAt("flush")
    /\ UNCHANGED <<world, liveRead, queue, notifyActive, fill, chans, history>>

mintOne ==
    /\ drain.pc = "mint"
    /\ drain' = [drain EXCEPT !.pc = IF PumpTxFails THEN "err" ELSE "notify"]
    /\ UNCHANGED <<world, liveRead, queue, notifyActive, closing, fill, chans,
                   history>>

\* Seeded fault: the send does not select on the context.
notifyBlocks ==
    /\ drain.pc = "notify" /\ live = <<>>
    /\ live' = <<drain.seq>> /\ handed' = Append(handed, drain.seq)
    /\ notifyActive' = FALSE
    /\ drain' = DrainAt("wait")
    /\ UNCHANGED <<world, liveRead, queue, closing, fill, ended, hidden, written>>

\* notify: hand the record to the handler, or give up once the stream's context
\* is done.
notify ==
    /\ drain.pc = "notify"
    /\ \/ /\ live = <<>>
          /\ live' = <<drain.seq>> /\ handed' = Append(handed, drain.seq)
       \/ ctx # "live" /\ UNCHANGED <<live, handed>>
    /\ notifyActive' = FALSE
    /\ drain' = DrainAt("wait")
    /\ UNCHANGED <<world, liveRead, queue, closing, fill, ended, hidden, written>>

\* fillErr runs with notifyActive still set; the end comes once it is cleared.
DrainFails ==
    /\ drain.pc = "err" /\ FillErrReady
    /\ notifyActive' = FALSE
    /\ EndPark(fillErr, TRUE)
    /\ drain' = DrainAt("flush")
    /\ UNCHANGED <<world, liveRead, queue, fill, chans, history>>

-----------------------------------------------------------------------------
(* The handler: replay page by page through Next, then stream live.        *)

\* What no step of the handler touches.
engine == <<env, nsvars, regvars, liveRead, queue, notifyActive, fill, drain>>

HttpAt(pc) == [pc |-> pc, page |-> <<>>, k |-> 1, admitted |-> <<>>, res |-> "page"]

\* Next marks a page in flight (replayActive) and runs page(): its early returns,
\* then its first transaction.  A failure under a context that is not done ends
\* the session with a cause that yields.
PageRead ==
    LET early == dead \/ replayExhausted \/ PageTxFails IN
    /\ http.pc = "next"
    /\ replayActive' = ~early
    /\ http' = IF early
               THEN [HttpAt("commit") EXCEPT
                       !.res = IF ~dead /\ replayExhausted THEN "done" ELSE "err"]
               ELSE [HttpAt("authz") EXCEPT !.page = changePage(position, boundary)]
    /\ IF ~dead /\ ~replayExhausted /\ ctx = "live" /\ ~dbOpen
       THEN EndPark("symptom", TRUE) ELSE UNCHANGED closing
    /\ UNCHANGED <<engine, conn, position, replayExhausted, replayDone, pinned, chans,
                   history>>

PageAuthz ==
    /\ http.pc = "authz" /\ http.k <= Len(http.page) /\ AuthzReady
    /\ Authorized(http.page[http.k])
    /\ http' = [http EXCEPT !.pc = "scope"]
    /\ UNCHANGED <<engine, conn, replay, closing, pinned, chans, history>>

PageScope ==
    LET i == http.page[http.k] IN
    /\ http.pc = "scope" /\ AuthzReady
    /\ Admitted(i) \in {"visible", "hidden"}
    /\ http' = [http EXCEPT !.pc = "authz", !.k = @ + 1,
                   !.admitted = IF Admitted(i) = "visible" THEN Append(@, i) ELSE @]
    /\ hidden' = IF Admitted(i) = "hidden" THEN hidden \cup {i} ELSE hidden
    /\ UNCHANGED <<engine, conn, replay, closing, pinned, chans, handed, written>>

PageRefused(cause) ==
    /\ AuthzReady
    /\ \/ /\ http.pc = "authz" /\ http.k <= Len(http.page) /\ cause = "revoked"
          /\ ~Authorized(http.page[http.k]) \/ MayRefuse
       \/ /\ http.pc = "scope"
          /\ \/ cause = "predates" /\ Admitted(http.page[http.k]) = "predates"
             \/ cause = "revoked" /\ MayRefuse
    /\ EndPark(cause, FALSE)
    /\ replayActive' = FALSE
    /\ http' = [HttpAt("commit") EXCEPT !.res = "err"]
    /\ UNCHANGED <<engine, conn, position, replayExhausted, replayDone, pinned, chans,
                   history>>

\* mint(), the page's second transaction; the page is then no longer in flight ...
PageMint ==
    /\ http.pc = "authz" /\ http.k > Len(http.page)
    /\ replayActive' = FALSE
    /\ http' = [http EXCEPT !.pc = "commit",
                            !.res = IF PageTxFails THEN "err" ELSE "page"]
    /\ IF ctx = "live" /\ ~dbOpen THEN EndPark("symptom", TRUE) ELSE UNCHANGED closing
    /\ UNCHANGED <<engine, conn, position, replayExhausted, replayDone, pinned, chans,
                   history>>

\* ... and, in a later critical section of next(), a session that has ended
\* meanwhile gives the page up; otherwise the position moves past it and its records are
\* the caller's.
PageCommit ==
    LET empty == http.res = "page" /\ Short(http.page) /\ http.admitted = <<>>
        done  == http.res = "done" \/ empty
    IN /\ http.pc = "commit"
       /\ replayDone' = (replayDone \/ done \/ dead)
       /\ IF dead \/ http.res # "page"
          THEN /\ UNCHANGED <<position, replayExhausted, handed>>
               /\ http' = HttpAt(IF dead \/ http.res = "err" THEN "err" ELSE "live")
          ELSE /\ position' = LastOr(http.page, position)
               /\ replayExhausted' = Short(http.page)
               /\ handed' = handed \o http.admitted
               /\ http' = [HttpAt(IF done THEN "live" ELSE "write")
                              EXCEPT !.admitted = http.admitted]
       /\ UNCHANGED <<engine, conn, replayActive, closing, pinned, chans, hidden, written>>

\* The handler writes the page's records; a write that fails ends the stream.
WritePage ==
    /\ http.pc = "write"
    /\ \E n \in 0 .. Len(http.admitted) :
          /\ written' = written \o SubSeq(http.admitted, 1, n)
          /\ http' = HttpAt(IF n = Len(http.admitted) THEN "next" ELSE "exit")
    /\ UNCHANGED <<engine, conn, replay, closing, pinned, chans, handed, hidden>>

\* After an error from Next: give up on a gone client, else wait for closed().
ReplayError ==
    /\ http.pc = "err"
    /\ \/ (ctx = "gone" \/ ~client) /\ http' = [http EXCEPT !.pc = "exit"]
       \/ ctx # "gone" /\ ended # None /\ http' = [http EXCEPT !.pc = "close"]
    /\ UNCHANGED <<engine, conn, replay, closing, pinned, chans, history>>

\* One record out of the channel, in the live loop or in closeWith.
WriteLive ==
    /\ http.pc \in {"live", "close"} /\ live # <<>>
    /\ live' = <<>>
    /\ \/ written' = written \o live /\ UNCHANGED http
       \/ http' = [http EXCEPT !.pc = "exit"] /\ UNCHANGED written
    /\ UNCHANGED <<engine, conn, replay, closing, pinned, ended, handed, hidden>>

\* Seeded fault: the keepalive does not ask for the grant again.
LiveEndsUnchecked ==
    /\ http.pc = "live"
    /\ \/ (ended # None \/ ctx = "aged") /\ http' = HttpAt("close")
       \/ ctx = "gone" /\ http' = HttpAt("exit")
    /\ UNCHANGED <<engine, conn, replay, closing, pinned, chans, history>>

\* The live loop's other cases: closed() was called, the keepalive finds the feed
\* refused, the context is done with a cause or because the client left.
LiveEnds ==
    /\ http.pc = "live"
    /\ \/ /\ ended # None \/ ctx = "aged" \/ (AuthzReady /\ ~FeedAuthorized)
          /\ http' = HttpAt("close")
       \/ ctx = "gone" /\ http' = HttpAt("exit")
    /\ UNCHANGED <<engine, conn, replay, closing, pinned, chans, history>>

\* closeWith, once live is empty: the close frame with the last written cursor.
CloseFrame ==
    /\ http.pc = "close" /\ live = <<>>
    /\ http' = [http EXCEPT !.pc = "exit"]
    /\ UNCHANGED <<engine, conn, replay, closing, pinned, chans, history>>

\* The deferred stop() and cancel(): untrack, unregister, end(nil) ...
Exit ==
    /\ http.pc = "exit"
    /\ ctx' = IF ctx = "live" THEN "gone" ELSE ctx
    /\ EndPark(None, FALSE)
    /\ http' = [http EXCEPT !.pc = "cancel"]
    /\ UNCHANGED <<engine, client, scene, replay, pinned, chans, history>>

PumpsDone == fill.pc = "done" /\ drain.pc = "done"

\* ... and wait for the pumps.
Cancelled ==
    /\ http.pc = "cancel" /\ PumpsDone
    /\ http' = [http EXCEPT !.pc = "gone"]
    /\ UNCHANGED <<engine, conn, replay, closing, pinned, chans, history>>

unpinWhenDone ==
    /\ pinned /\ dead /\ PumpsDone /\ ~replayActive
    /\ pinned' = FALSE
    /\ UNCHANGED <<engine, conn, replay, closing, http, chans, history>>

-----------------------------------------------------------------------------
\* No session yet, and the handler of the request at pc.
NoSession(pc) ==
    /\ log = <<>> /\ table = [live |-> TRUE, gen |-> 0] /\ scene \in SubscribeScenes /\ grant = scene.grant
    /\ smu = FALSE /\ dbOpen = TRUE
    /\ ctx = "live" /\ client = TRUE
    /\ feed = [all |-> FALSE, gen |-> 0] /\ start = 0 /\ boundary = 0
    /\ position = 0 /\ replayExhausted = FALSE /\ replayDone = FALSE
    /\ replayActive = FALSE /\ liveRead = 0 /\ queue = <<>>
    /\ notifyActive = FALSE /\ pendingClose = NoClose /\ pendingDrainClose = None
    /\ dead = FALSE /\ pinned = FALSE
    /\ fill = FillAt("off")
    /\ drain = DrainAt("off")
    /\ http = HttpAt(pc)
    /\ live = <<>> /\ ended = None
    /\ handed = <<>> /\ hidden = {} /\ written = <<>>

Init == NoSession("listen")

Environment ==
    \/ \E r \in scene.rows : CommitWrite(r)
    \/ \E g \in {"own", "revoked"} : Narrow(g)
    \/ DropTable \/ CreateTable \/ CloseHandle \/ Age \/ HangUp

Ending == \E cause \in {"lifetime", "dropFailed"} : endListenSessions(cause)

Fill ==
    \/ readBatch \/ FillAuthz \/ FillScope \/ FillAppend \/ FillPark
    \/ FillFails \/ FillFlush
    \/ \E cause \in {"revoked", "predates"} : FillRefused(cause)

Drain ==
    \/ DrainStops \/ DrainNext \/ DrainClose \/ DrainEnd \/ mintOne \/ notify \/ DrainFails
    \/ DrainFlush

Handler ==
    \/ PageRead \/ PageAuthz \/ PageScope \/ PageMint \/ PageCommit
    \/ \E cause \in {"revoked", "predates"} : PageRefused(cause)
    \/ WritePage \/ ReplayError \/ WriteLive \/ LiveEnds \/ CloseFrame \/ Exit
    \/ Cancelled

Listen ==
    \/ \E all \in BOOLEAN : Register(all)
    \/ \E from \in 0 .. Len(log) : ListenTx(from)
    \/ ListenFails

Next == Environment \/ Ending \/ Listen \/ Fill \/ Drain \/ pollWake \/ Handler
        \/ unpinWhenDone

Spec == Init /\ [][Next]_vars

\* Go runs every goroutine that is not blocked; the poll ticker keeps ticking; a
\* drop that took Store.mu goes on to end the sessions.
SubscribeFairness ==
    /\ WF_vars(Fill) /\ WF_vars(Drain) /\ WF_vars(pollWake) /\ WF_vars(Handler)
    /\ WF_vars(Ending) /\ WF_vars(unpinWhenDone)
    /\ WF_vars(ListenFails \/ \E from \in 0 .. Len(log) : ListenTx(from))

FairSpec == Spec /\ SubscribeFairness

-----------------------------------------------------------------------------
TypeOK ==
    /\ log \in Seq([mine : BOOLEAN, owner : {"me", "them", "unlabelled"}, gen : 0 .. MaxGen])
    /\ {smu, dbOpen, client, dead, pinned, replayActive, notifyActive} \subseteq BOOLEAN
    /\ ctx \in {"live", "aged", "gone"}
    /\ position <= boundary /\ boundary <= liveRead /\ liveRead <= Len(log)
    /\ Range(queue) \subseteq 1 .. liveRead /\ Len(live) <= 1

\* "the concatenation replay-then-live is exactly cursor order", exactly once and
\* without a gap: what the engine hands over, by Next and by notify, is the feed
\* after the start cursor, in order, less what the caller may not see.
StreamExact ==
    /\ \A j, k \in DOMAIN handed : j < k => handed[j] < handed[k]
    /\ \A i \in start + 1 .. LastOr(handed, 0) :
          InFeed(i) => i \in Range(handed) \cup hidden

\* The stream's close frame carries the cursor of the last record written, so it
\* resumes without a gap: what was written is a prefix of what was handed over,
\* whichever way the stream ends (closeWith, a failed write, a page given up).
WrittenPrefix == IsPrefix(written, handed)

\* A table's end is announced only after its tail: a stream told that the table's
\* lifetime ended, with no namespace drop or close behind it, was handed every
\* record of that lifetime it may see (pendingDrainClose waits for the queue).  A
\* stream whose context is done gives its tail up: notify drops the record.
LifetimeDrained ==
    ended = "lifetime" /\ dbOpen /\ ctx = "live" =>
        \A i \in start + 1 .. Len(log) : InFeed(i) => i \in Range(handed) \cup hidden

\* flushParkedClose waits for Store.mu, so a page that failed because its handle
\* was closed under it never reports that symptom to the client: the drop's verdict
\* replaces it.  Nor is a client told of a canceled transaction.
VerdictWins == http.pc = "close" /\ client => ended \notin {"symptom", "canceled"}

\* Nothing is handed over once closed() has been called.
ClosedIsLast == [][ended # None => handed' = handed]_vars

\* The namespace stays pinned (so LRU eviction skips it) while a pump or a page
\* may still run a transaction on its handle.
PinHeld ==
    (fill.pc \in {"authz", "scope", "park"} \/ drain.pc \in {"mint", "notify"}
        \/ http.pc \in {"authz", "scope"}) => pinned

\* "Foreign records therefore never enter the handoff queue at all": a caller that
\* never held more than data verbs is queued only its own rows.
ForeignNeverQueued ==
    scene.grant = "own" => \A i \in Range(queue) : log[i].owner = "me"

Streaming == http.pc \notin {"listen", "listenTx"}

\* Every change of the feed committed while the stream is open, wherever in the
\* replay-to-live handover it falls, is written, judged invisible, or the stream
\* ends; no wake-up is lost and no pump waits for ever.
Delivered ==
    \A i \in Seqs :
        (Streaming /\ i \in start + 1 .. Len(log) /\ InFeed(i))
            ~> (i \in Range(written) \cup hidden \/ http.pc = "gone")

\* A session that has ended, aged or lost its client winds down: the pumps stop,
\* cancel() returns and the pin is released.
WindsDown == (dead \/ ctx # "live") ~> (http.pc = "gone" /\ ~pinned)

\* A revoked caller's stream ends, by the next record or the next keepalive.
RevokedEnds == grant = "revoked" /\ Streaming ~> http.pc = "gone"

\* What holds of a session and its handler at every moment besides the contents of
\* the stream, that its end comes after the last change included.
SubscribeSafe == TypeOK /\ LifetimeDrained /\ WrittenPrefix /\ VerdictWins /\ PinHeld
=============================================================================
