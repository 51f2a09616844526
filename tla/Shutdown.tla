------------------------------ MODULE Shutdown ------------------------------
(***************************************************************************)
(* How a server stops: `dolmen` behind HTTP (cmd/dolmen/main.go) and        *)
(* `dolmen mcp` on stdin and stdout (internal/mcp).  On stdio the main       *)
(* goroutine reads lines, starts a worker for each request and keeps it in   *)
(* the table of requests in flight, so that the client can cancel it by id   *)
(* and the drain can wait for all.  Behind HTTP net/http keeps the requests, *)
(* and the drain is its Shutdown.  Both end with the same bounded cleanup,   *)
(* which closes the store.                                                   *)
(*                                                                           *)
(* A request's work is one step that may come at any time or never.  A write *)
(* to stdout waits while the client does not read, and fails once it has     *)
(* closed the pipe.                                                           *)
(***************************************************************************)
EXTENDS Naturals, FiniteSets, Sequences

CONSTANTS
  MaxWork,         \* bound: requests
  Ids,             \* JSON-RPC ids of requests: <<value, spelling>>
  ShutdownScenes   \* front (stdio or http), grace (is -shutdown-grace positive),
                   \* lines (bound: lines that are no requests) and pipe (what may
                   \* become of stdout: stalled, broken)

ASSUME ShutdownAssumption ==
  /\ MaxWork \in Nat
  /\ ShutdownScenes \subseteq [front : {"stdio", "http"}, grace : BOOLEAN, lines : Nat,
                              pipe : SUBSET {"stalled", "broken"}]
  /\ \A s \in ShutdownScenes : s.front = "stdio" => s.grace

VARIABLES
  setup,      \* the scene, with the lines that are left
  serve,      \* the main goroutine: pc, the line it holds, and how its drain ended
  work,       \* requests in the order in which they were admitted
  inflight,   \* inflightRequests: draining, byKey and wg; slots are the workers not yet released
  listening,  \* the HTTP listener is open
  stdout,     \* ok, stalled or broken; err: writeErr holds an error
  signals,    \* SIGTERM or interrupt: how many came
  cleaned     \* the closers of shutdownCleanup, or of run's defers, that have run

shutdownVars == <<setup, serve, work, inflight, listening, stdout, signals, cleaned>>

Values == {i[1] : i \in Ids}
NoLine == [kind |-> "none"]
Stdio == setup.front = "stdio"
Up == serve.pc # "exited"

\* Between admission and the end of its defers a request is one of these.
Active == {"running", "writing", "written", "released"}
slots == {w \in DOMAIN work : work[w].pc \in Active \ {"released"}}

ShutdownInit ==
  /\ setup \in ShutdownScenes
  /\ serve = [pc |-> IF Stdio THEN "select" ELSE "serving", line |-> NoLine, drained |-> "not yet"]
  /\ work = <<>>
  /\ inflight = [draining |-> FALSE, byKey |-> [v \in Values |-> 0], wg |-> 0]
  /\ listening = ~Stdio
  /\ stdout = [is |-> "ok", err |-> FALSE]
  /\ signals = 0
  /\ cleaned = {}

-----------------------------------------------------------------------------
(* The table of requests in flight.                                         *)

\* Two spellings of a number are one key.
requestIDKey(id) == id[1]

cancelled(ws) == [w \in DOMAIN work |-> IF w \in ws THEN [work[w] EXCEPT !.ctx = "canceled"] ELSE work[w]]

\* start: a request that comes after a signal, or once a write failed, is refused.
startWork(id) ==
  IF inflight.draining \/ signals > 0 THEN UNCHANGED <<work, inflight>>
  ELSE /\ work' = Append(work, [pc |-> "running", id |-> id, ctx |-> "live",
                                unwanted |-> FALSE, answered |-> FALSE])
       /\ inflight' = [inflight EXCEPT !.byKey[requestIDKey(id)] = Len(work) + 1, !.wg = @ + 1]

\* The request that a client means by an id: the last one it sent under it.
Meant(id) == {w \in slots : work[w].id[1] = id[1]
                            /\ \A v \in DOMAIN work : v > w => work[v].id[1] # id[1]}

cancelKey(id) ==
  LET slot == inflight.byKey[requestIDKey(id)]
      mark(ws) == [w \in DOMAIN work |-> [ws[w] EXCEPT !.unwanted = @ \/ w \in Meant(id)]]
  IN  work' = mark(IF slot = 0 THEN work ELSE cancelled({slot})) /\ UNCHANGED inflight

\* A later request under the same id keeps its entry.
release(w) ==
  /\ Stdio /\ Up /\ work[w].pc = "written"
  /\ work' = [work EXCEPT ![w].pc = "released", ![w].ctx = "canceled"]
  /\ inflight' = [inflight EXCEPT !.byKey[requestIDKey(work[w].id)] = IF @ = w THEN 0 ELSE @]
  /\ UNCHANGED <<setup, serve, listening, stdout, signals, cleaned>>

\* wg.Done, the last of the worker's defers.
Done(w) ==
  /\ Stdio /\ Up /\ work[w].pc = "released"
  /\ work' = [work EXCEPT ![w].pc = "done"]
  /\ inflight' = [inflight EXCEPT !.wg = @ - 1]
  /\ UNCHANGED <<setup, serve, listening, stdout, signals, cleaned>>

-----------------------------------------------------------------------------
(* ServeStdio.                                                              *)

\* write's last part: a failed write seals the table and reports once.
write(then) ==
  /\ stdout.is # "stalled"
  /\ IF stdout.is = "broken"
     THEN stdout' = [stdout EXCEPT !.err = TRUE] /\ inflight' = [inflight EXCEPT !.draining = TRUE]
     ELSE UNCHANGED <<stdout, inflight>>
  /\ serve' = then

\* The line the reader goroutine hands over next.
Receive ==
  /\ serve.pc = "select"
  /\ \/ Len(work) < MaxWork /\ UNCHANGED setup
        /\ \E id \in Ids : serve' = [serve EXCEPT !.pc = "got", !.line = [kind |-> "request", id |-> id]]
     \/ setup.lines > 0 /\ setup' = [setup EXCEPT !.lines = @ - 1]
        /\ \/ \E id \in Ids : serve' = [serve EXCEPT !.pc = "got", !.line = [kind |-> "cancel", id |-> id]]
           \/ \E k \in {"malformed", "other"} : serve' = [serve EXCEPT !.pc = "got", !.line = [kind |-> k]]
     \/ UNCHANGED setup
        /\ \E k \in {"eof", "too long"} : serve' = [serve EXCEPT !.pc = "got", !.line = [kind |-> k]]
  /\ UNCHANGED <<work, inflight, listening, stdout, signals, cleaned>>

Stopped == signals > 0 \/ stdout.err

\* drain's first part: seal, then wait.
seal ==
  /\ inflight' = [inflight EXCEPT !.draining = TRUE]
  /\ serve' = [serve EXCEPT !.pc = "grace", !.line = NoLine]

Stop ==
  /\ serve.pc = "select" /\ Stopped
  /\ seal
  /\ UNCHANGED <<setup, work, listening, stdout, signals, cleaned>>

\* The second select, after a line was received.
Recheck ==
  /\ serve.pc = "got"
  /\ IF Stopped \/ serve.line.kind = "eof" THEN seal
     ELSE serve' = [serve EXCEPT !.pc = "act"] /\ UNCHANGED inflight
  /\ UNCHANGED <<setup, work, listening, stdout, signals, cleaned>>

Act ==
  /\ serve.pc = "act"
  /\ LET l == serve.line IN
     \/ /\ l.kind = "request" /\ startWork(l.id)
        /\ serve' = [serve EXCEPT !.pc = "select", !.line = NoLine]
     \/ /\ l.kind = "cancel" /\ cancelKey(l.id)
        /\ serve' = [serve EXCEPT !.pc = "select", !.line = NoLine]
     \/ /\ l.kind = "other" /\ UNCHANGED <<work, inflight>>
        /\ serve' = [serve EXCEPT !.pc = "select", !.line = NoLine]
     \/ /\ l.kind \in {"malformed", "too long"} /\ UNCHANGED <<work, inflight>>
        /\ serve' = [serve EXCEPT !.pc = "write"]
  /\ UNCHANGED <<setup, listening, stdout, signals, cleaned>>

\* The main goroutine answers a malformed line itself; a line too long ends it.
MainWrites ==
  /\ serve.pc = "write"
  /\ write([serve EXCEPT !.pc = IF serve.line.kind = "too long" THEN "end" ELSE "select", !.line = NoLine])
  /\ UNCHANGED <<setup, work, listening, signals, cleaned>>

MainEnds == serve.pc = "end" /\ seal /\ UNCHANGED <<setup, work, listening, stdout, signals, cleaned>>

\* A worker: handle, then write.
Handle(w) ==
  /\ Stdio /\ Up /\ work[w].pc = "running"
  /\ work' = [work EXCEPT ![w].pc = "writing"]
  /\ UNCHANGED <<setup, serve, inflight, listening, stdout, signals, cleaned>>

WorkerWrites(w) ==
  /\ Up /\ work[w].pc = "writing"
  /\ write(serve)
  /\ work' = [work EXCEPT ![w].pc = "written", ![w].answered = stdout.is = "ok"]
  /\ UNCHANGED <<setup, listening, signals, cleaned>>

\* joinWithin: every worker's wg.Done has run.
Join ==
  /\ serve.pc \in {"grace", "join"} /\ inflight.wg = 0
  /\ serve' = [serve EXCEPT !.pc = "cleanup", !.drained = IF serve.pc = "grace" THEN "in grace" ELSE "late"]
  /\ UNCHANGED <<setup, work, inflight, listening, stdout, signals, cleaned>>

\* Seeded fault: only the requests that an id leads to are cancelled.
graceEndsByKey ==
  /\ serve.pc = "grace"
  /\ work' = cancelled({inflight.byKey[v] : v \in Values} \ {0})
  /\ serve' = [serve EXCEPT !.pc = "join"]
  /\ UNCHANGED <<setup, inflight, listening, stdout, signals, cleaned>>

\* drain: the grace is over, every request is cancelled.
GraceEnds ==
  /\ serve.pc = "grace"
  /\ work' = cancelled(slots)
  /\ serve' = [serve EXCEPT !.pc = "join"]
  /\ UNCHANGED <<setup, inflight, listening, stdout, signals, cleaned>>

\* Seeded fault: the second wait has no bound.
waitForAll == FALSE

\* drain gives up the workers that do not return.
Abandon ==
  /\ serve.pc = "join"
  /\ serve' = [serve EXCEPT !.pc = "cleanup", !.drained = "abandoned"]
  /\ UNCHANGED <<setup, work, inflight, listening, stdout, signals, cleaned>>

-----------------------------------------------------------------------------
(* HTTP: net/http's server is external, modelled from its use.              *)

Accept ==
  /\ listening /\ Up /\ Len(work) < MaxWork
  /\ work' = Append(work, [pc |-> "running", id |-> <<0, "">>, ctx |-> "live",
                           unwanted |-> FALSE, answered |-> FALSE])
  /\ UNCHANGED <<setup, serve, inflight, listening, stdout, signals, cleaned>>

\* A handler returns when it is done; that of a subscription also when the drain
\* channel is closed (handleSubscribe).
Finish(w) ==
  /\ ~Stdio /\ Up /\ work[w].pc = "running"
  /\ work' = [work EXCEPT ![w].pc = "done", ![w].answered = work[w].ctx = "live"]
  /\ UNCHANGED <<setup, serve, inflight, listening, stdout, signals, cleaned>>

\* shutdown begins: Drain closes the drain channel; without a grace period the
\* running requests are cancelled by the cleanup at once.
DrainBegins ==
  /\ serve.pc = "serving" /\ signals > 0
  /\ inflight' = [inflight EXCEPT !.draining = TRUE]
  /\ serve' = IF setup.grace THEN [serve EXCEPT !.pc = "shutting"]
              ELSE [serve EXCEPT !.pc = "cleanup", !.drained = "late"]
  /\ UNCHANGED <<setup, work, listening, stdout, signals, cleaned>>

\* httpSrv.Shutdown first closes the listener.
StopListening ==
  /\ serve.pc = "shutting" /\ listening
  /\ listening' = FALSE
  /\ UNCHANGED <<setup, serve, work, inflight, stdout, signals, cleaned>>

Running == {w \in DOMAIN work : work[w].pc = "running"}

\* It returns once every connection is idle.
Drained ==
  /\ serve.pc = "shutting" /\ ~listening /\ Running = {}
  /\ serve' = [serve EXCEPT !.pc = "cleanup", !.drained = "in grace"]
  /\ UNCHANGED <<setup, work, inflight, listening, stdout, signals, cleaned>>

GraceOver ==
  /\ serve.pc = "shutting"
  /\ serve' = [serve EXCEPT !.pc = "cleanup", !.drained = "late"]
  /\ UNCHANGED <<setup, work, inflight, listening, stdout, signals, cleaned>>

\* ListenAndServe fails, at its bind or at an Accept: run returns the error
\* without a drain, also when a signal has come and both cases are ready.
ServeFails ==
  /\ serve.pc = "serving" /\ listening
  /\ listening' = FALSE
  /\ serve' = [serve EXCEPT !.pc = "failed", !.drained = "skipped"]
  /\ UNCHANGED <<setup, work, inflight, stdout, signals, cleaned>>

\* The defers of run close the registry and then the store, with no bound and
\* under whatever still runs.
deferredClose ==
  /\ serve.pc = "failed" /\ cleaned # {"grants", "store"}
  /\ cleaned' = IF cleaned = {} THEN {"grants"} ELSE {"grants", "store"}
  /\ UNCHANGED <<setup, serve, work, inflight, listening, stdout, signals>>

-----------------------------------------------------------------------------
(* shutdownCleanup: the closers one after another, under one bound.         *)

closers == IF Stdio THEN <<"store", "telemetry">> ELSE <<"http", "store", "grants", "telemetry">>

\* httpSrv.Close closes the listener and cancels what runs.  A closer may hang:
\* then this step never comes.
shutdownCleanup ==
  /\ serve.pc = "cleanup" /\ Cardinality(cleaned) < Len(closers)
  /\ LET c == closers[Cardinality(cleaned) + 1] IN
     /\ cleaned' = cleaned \cup {c}
     /\ IF c = "http" THEN listening' = FALSE /\ work' = cancelled(Running)
        ELSE UNCHANGED <<listening, work>>
  /\ UNCHANGED <<setup, serve, inflight, stdout, signals>>

\* All are closed, or the five seconds of the cleanup are over: the process exits.
ProcessExits ==
  /\ serve.pc = "cleanup" \/ (serve.pc = "failed" /\ cleaned = {"grants", "store"})
  /\ serve' = [serve EXCEPT !.pc = "exited"]
  /\ UNCHANGED <<setup, work, inflight, listening, stdout, signals, cleaned>>

-----------------------------------------------------------------------------
\* The first signal asks for the end; on stdio a second one kills, and once run
\* returns (stop is its first defer) any one does.
Signal ==
  /\ Up /\ signals < IF Stdio \/ serve.pc = "failed" THEN 2 ELSE 1
  /\ signals' = signals + 1
  /\ serve' = IF signals = 0 /\ serve.pc # "failed" THEN serve ELSE [serve EXCEPT !.pc = "exited"]
  /\ UNCHANGED <<setup, work, inflight, listening, stdout, cleaned>>

\* The client stops reading, reads on, or closes its end.
ClientOfPipe ==
  /\ Stdio /\ Up /\ stdout.is # "broken"
  /\ \E s \in setup.pipe \cup {"ok"} : s # stdout.is /\ stdout' = [stdout EXCEPT !.is = s]
  /\ UNCHANGED <<setup, serve, work, inflight, listening, signals, cleaned>>

MainGoesOn ==
  \/ Stop \/ Recheck \/ Act \/ MainWrites \/ MainEnds \/ Join \/ GraceEnds \/ Abandon
  \/ DrainBegins \/ Drained \/ GraceOver \/ ProcessExits

ShutdownNext ==
  \/ Receive \/ MainGoesOn \/ StopListening \/ ServeFails \/ deferredClose \/ shutdownCleanup
  \/ Signal \/ ClientOfPipe \/ Accept
  \/ \E w \in DOMAIN work : Handle(w) \/ WorkerWrites(w) \/ release(w) \/ Done(w) \/ Finish(w)

ShutdownSpec == ShutdownInit /\ [][ShutdownNext]_shutdownVars

\* The main goroutine runs and its timers fire.  Requests, closers and clients
\* owe nothing.
ShutdownFairness == WF_shutdownVars(MainGoesOn)

-----------------------------------------------------------------------------
\* The store is never closed under a request that was not told to stop: it has
\* returned, or its context is cancelled (drain reaches every worker, also one
\* whose id was used again; httpSrv.Close runs before the store's Close).  A
\* server whose listener failed is excepted: it closes under everyone.
ClosedUnderNobody ==
  "store" \in cleaned /\ serve.drained # "skipped" =>
    \A w \in DOMAIN work : work[w].pc = "running" => work[w].ctx = "canceled"

\* A cancellation reaches the request that the client means, the last one it
\* sent under the number, though an earlier one under it ends meanwhile
\* (cancelKey, release).
CancelReaches ==
  \A w \in DOMAIN work : work[w].unwanted => work[w].ctx = "canceled"

\* A drain that ends inside its grace has cut nothing short: every request
\* that was admitted was answered, unless its client closed the pipe.
GraceKept ==
  serve.drained = "in grace" =>
    \A w \in DOMAIN work : work[w].pc = "done" /\ (work[w].answered \/ stdout.is = "broken")

\* What a stop may never do to the requests of its clients.
ShutdownSafe == ClosedUnderNobody /\ CancelReaches /\ GraceKept

\* Once asked to stop, or without its client, the server exits whatever its
\* requests and closers do, unless the main goroutine itself answers a
\* malformed line to a client that does not read, or the listener failed first,
\* after which the closers have no bound.
Ends ==
  (signals > 0 \/ serve.pc \in {"grace", "join", "end"} \/ stdout.err)
      ~> \/ serve.pc \in {"exited", "failed"}
         \/ serve.pc = "write" /\ stdout.is = "stalled"
=============================================================================
