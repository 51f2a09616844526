--------------------------- MODULE ListenRetention ---------------------------
(***************************************************************************)
(* A subscriber that is slower than the retention: how a listen session      *)
(* (internal/store/listen_*.go) keeps the changes it still owes from being    *)
(* pruned, how it notices the loss of those it could not keep, and how the    *)
(* client goes on from its last cursor.  The log, its cursors and the pruning *)
(* are those of ChangeLog; closing, authorization and overflow are            *)
(* Subscribe's.  Every change belongs to the feed.                            *)
(*                                                                           *)
(* The retention is at least an hour and the session polls four times a      *)
(* second, so the model assumes of time that whatever the poller and the fill *)
(* pump do is over within a tick.  The subscriber may take as long as it      *)
(* likes, and another session may prune at any moment.                        *)
(***************************************************************************)
EXTENDS Integers, FiniteSets, Sequences, SequencesExt

CONSTANTS
  RideRetention,   \* changeRetention in ticks
  RideMaxTime,     \* bound: last tick
  RideScenes       \* from (where the client starts), page (MaxChangesPageLimit),
                   \* backlog and commits (bounds: commits before and after it starts),
                   \* rows (changes of a commit), fails (bound: failed renewals) and
                   \* hangups (bound)

ASSUME RideAssumption == RideRetention \in Nat \ {0} /\ RideMaxTime \in Nat

VARIABLES
  rideLeft,     \* the scene, its bounds counted down
  rideClock, rideSeq, rideLog, rideRetained, rideTokens,   \* as in ChangeLog
  sess,         \* the listenSession
  paging,         \* the handler in next: idle, or a page read and not yet minted
  protecting,      \* protectQueue of the fill pump and of the poller: idle, or the floor read
  filling,         \* the fill pump: where in fillBatch
  due,          \* which of the two have not run since the last tick
  reader        \* the cursor it holds, what it was given, after which change it
                \* started, and whether it was told that its cursor expired

rideDb == <<rideClock, rideSeq, rideLog, rideRetained, rideTokens>>
rideVars == <<rideLeft, rideDb, sess, paging, protecting, filling, due, reader>>

Log == INSTANCE ChangeLog WITH
  clock <- rideClock, seq <- rideSeq, log <- rideLog, retained <- rideRetained,
  tokens <- rideTokens, live <- {}, gen <- <<>>, prunedAt <- 0,
  Tables <- {}, Owners <- {}, NoOwner <- "none", NsFeed <- "all",
  Unscoped <- "unscoped", EmptyScope <- "empty", Retention <- RideRetention,
  PageLimit <- 1, MaxTime <- RideMaxTime, MaxWait <- 0, MaxSeq <- 0,
  MaxRows <- 0, MaxGen <- 0, MaxTokens <- 0

Pumps == {"fill", "poll"}
NoCursor == [position |-> 0, origin |-> 0, start |-> 0, feed |-> "none", issued |-> 0, base |-> 0]
NoChain == [origin |-> 0, start |-> -RideRetention]
NoSess == [on |-> FALSE, position |-> 0, boundary |-> 0, outstanding |-> 0,
           replayExhausted |-> FALSE, replayDone |-> FALSE, liveRead |-> 0, queue |-> <<>>,
           delivering |-> 0, token |-> NoCursor, chain |-> NoChain, queueChain |-> NoChain]
Idle == [pc |-> "idle"]

RideInit ==
  /\ rideLeft \in RideScenes
  /\ rideClock = 0 /\ rideSeq = 0 /\ rideLog = <<>> /\ rideRetained = {} /\ rideTokens = {}
  /\ sess = NoSess /\ paging = Idle /\ filling = Idle /\ due = {}
  /\ protecting = [p \in Pumps |-> 0]
  /\ reader = [cursor |-> NoCursor, got |-> <<>>, base |-> -1, told |-> FALSE]

-----------------------------------------------------------------------------
\* The token's history: a log that was pruned empty starts before the reader does.
cursorAt(s, chain) ==
  Log!mintCursorToken(rideClock, s, Max({s, reader.base}), "all", chain.origin, chain.start)

\* mintCursorToken in a transaction, with pruneChanges at its end if prune.
mintToken(positions, chain, prune) ==
  LET minted == rideTokens \cup {cursorAt(s, chain) : s \in positions}
  IN  /\ rideTokens' = IF prune THEN Log!PrunedTokens(minted, rideClock) ELSE minted
      /\ rideRetained' = IF prune THEN Log!PrunedChanges(rideTokens', rideClock) ELSE rideRetained
      /\ UNCHANGED <<rideClock, rideSeq, rideLog>>

lowestOwed ==
  IF sess.delivering # 0 THEN sess.delivering
  ELSE IF sess.queue # <<>> THEN Head(sess.queue) ELSE 0

\* A chain in the second half of its life is left for a new one, which reaches
\* back to everything the session has still to hand over.
chainFor(resume) ==
  IF rideClock < sess.chain.start + RideRetention THEN sess.chain
  ELSE [origin |-> Min({resume} \cup (IF sess.replayExhausted THEN {} ELSE {sess.position})
                                \cup (IF lowestOwed = 0 THEN {} ELSE {lowestOwed - 1})),
        start |-> rideClock]

verifyRetained(from, to, promised) ==
  \/ from >= to \/ promised = 0
  \/ Cardinality({s \in rideRetained : from < s /\ s <= to}) = promised

\* The session ends; its goroutines stop.
sessionEnds(told) ==
  /\ sess' = NoSess /\ paging' = Idle /\ filling' = Idle /\ due' = {}
  /\ protecting' = [p \in Pumps |-> 0]
  /\ reader' = [reader EXCEPT !.told = told]

-----------------------------------------------------------------------------
(* Registration.                                                            *)

registered(pos, base, chain) ==
  /\ sess' = [NoSess EXCEPT !.on = TRUE, !.position = pos, !.boundary = Log!changeHead,
                !.liveRead = Log!changeHead, !.chain = chain,
                !.outstanding = Cardinality({s \in rideRetained : pos < s})]
  /\ due' = Pumps
  /\ reader' = [reader EXCEPT !.base = IF @ = -1 THEN base ELSE @]
  /\ UNCHANGED <<rideLeft, paging, protecting, filling>>

Fresh == ~sess.on /\ reader.base = -1

ListenHead ==
  /\ Fresh /\ rideLeft.from = "head"
  /\ LET head == Log!changeHead
         chain == [origin |-> head, start |-> rideClock] IN
     /\ registered(head, rideSeq, chain)
     /\ rideTokens' = rideTokens \cup {Log!mintCursorToken(rideClock, head, rideSeq, "all", head, rideClock)}
  /\ UNCHANGED <<rideClock, rideSeq, rideLog, rideRetained>>

ListenBegin ==
  /\ Fresh /\ rideLeft.from = "begin"
  /\ \E pos, base \in 0 .. rideSeq :
       /\ Log!changeBegin(rideClock, pos, base)
       /\ registered(pos, base, [origin |-> pos, start |-> rideClock])
       /\ rideTokens' = rideTokens \cup {Log!mintCursorToken(rideClock, pos, base, "all", pos, rideClock)}
  /\ UNCHANGED <<rideClock, rideSeq, rideLog, rideRetained>>

\* The client comes back with the cursor of the last change it was given.
ListenToken ==
  /\ ~sess.on /\ ~reader.told /\ reader.cursor # NoCursor
  /\ LET t == reader.cursor
         fresh == Log!Refreshed(t, rideClock) IN
     IF t \in rideTokens /\ Log!Resolves(t, "all", rideClock)
     THEN /\ sess' = [NoSess EXCEPT !.on = TRUE, !.position = t.position, !.boundary = Log!changeHead,
                        !.liveRead = Log!changeHead, !.chain = [origin |-> t.origin, start |-> t.start],
                        !.outstanding = Cardinality({s \in rideRetained : t.position < s})]
          /\ due' = Pumps
          /\ rideTokens' = (rideTokens \ {t}) \cup {fresh}
          /\ reader' = [reader EXCEPT !.cursor = fresh]
     ELSE /\ reader' = [reader EXCEPT !.told = TRUE]
          /\ UNCHANGED <<sess, due, rideTokens>>
  /\ UNCHANGED <<rideLeft, rideClock, rideSeq, rideLog, rideRetained, paging, protecting, filling>>

-----------------------------------------------------------------------------
(* The replay: next, whose page is read in one transaction and minted in      *)
(* another, with the authorization of its records between them.               *)

\* page: the first transaction.
replayPage ==
  /\ sess.on /\ paging = Idle /\ ~sess.replayDone /\ ~sess.replayExhausted
  /\ IF verifyRetained(sess.position, sess.boundary, sess.outstanding)
     THEN /\ paging' = [pc |-> "admit",
                      scanned |-> Log!FirstOf({s \in rideRetained : sess.position < s /\ s <= sess.boundary}, rideLeft.page)]
          /\ UNCHANGED <<sess, protecting, filling, due, reader>>
     ELSE sessionEnds(TRUE)
  /\ UNCHANGED <<rideLeft, rideDb>>

given(ss, chain) ==
  [reader EXCEPT !.got = @ \o SetToSortSeq(ss, <),
                 !.cursor = IF ss = {} THEN @
                            ELSE cursorAt(Max(ss), chain)]

\* mint: the second transaction, and what next then records.
replayMint ==
  /\ sess.on /\ paging # Idle
  /\ LET ss == paging.scanned
         chain == chainFor(sess.position)
         short == Cardinality(ss) < rideLeft.page
     IN IF ss # {} /\ ~verifyRetained(sess.position, Max(ss), Cardinality(ss))
        THEN sessionEnds(TRUE) /\ UNCHANGED rideDb
        ELSE /\ mintToken(IF ss = {} THEN {sess.position} ELSE ss, chain, TRUE)
             /\ sess' = [sess EXCEPT !.chain = chain, !.replayExhausted = short,
                           !.replayDone = short /\ ss = {},
                           !.position = IF ss = {} THEN @ ELSE Max(ss),
                           !.outstanding = @ - Cardinality(ss)]
             /\ reader' = given(ss, chain)
             /\ paging' = Idle
             /\ UNCHANGED <<protecting, filling, due>>
  /\ UNCHANGED rideLeft

ReplayDone ==
  /\ sess.on /\ paging = Idle /\ sess.replayExhausted /\ ~sess.replayDone
  /\ sess' = [sess EXCEPT !.replayDone = TRUE]
  /\ UNCHANGED <<rideLeft, rideDb, paging, protecting, filling, due, reader>>

-----------------------------------------------------------------------------
(* protectQueue, on the poller and on the fill pump.                         *)

margin == RideRetention \div 2

\* A chain is renewed half a retention before its token goes.
renewDue == rideClock >= sess.queueChain.start + RideRetention - margin

\* The floor that is to be protected, 0 when none is or its chain is young.
floorToProtect == IF renewDue THEN lowestOwed ELSE 0

\* Seeded fault: the chain starts at the floor.
protectedFrom(floor) == [origin |-> floor, start |-> rideClock]

\* A new chain that starts before the floor.
replacement(floor) == [origin |-> floor - 1, start |-> rideClock]

\* The transaction of protectQueue by pump p, which a failure leaves to the next tick.
protectTx(p) ==
  /\ protecting[p] # 0
  /\ \/ /\ mintToken({protecting[p]}, replacement(protecting[p]), TRUE)
        /\ sess' = [sess EXCEPT !.queueChain = replacement(protecting[p])]
        /\ UNCHANGED rideLeft
     \/ /\ rideLeft.fails > 0 /\ rideLeft' = [rideLeft EXCEPT !.fails = @ - 1]
        /\ UNCHANGED <<rideDb, sess>>
  /\ protecting' = [protecting EXCEPT ![p] = 0]

\* pollWake, once a tick at least.
Poll ==
  /\ sess.on /\ protecting["poll"] = 0
  /\ protecting' = [protecting EXCEPT !["poll"] = floorToProtect]
  /\ due' = due \ {"poll"}
  /\ due' # due \/ protecting' # protecting
  /\ UNCHANGED <<rideLeft, rideDb, sess, paging, filling, reader>>

PollProtects == sess.on /\ protectTx("poll") /\ UNCHANGED <<paging, filling, due, reader>>

\* The fill pump is woken by a commit, and by the poller once a tick at least.
Woken == "fill" \in due \/ rideSeq > sess.liveRead

\* fillBatch begins with protectQueue.
FillBegins ==
  /\ sess.on /\ filling = Idle /\ protecting["fill"] = 0
  /\ Woken /\ floorToProtect # 0
  /\ protecting' = [protecting EXCEPT !["fill"] = floorToProtect]
  /\ filling' = [pc |-> "read"]
  /\ UNCHANGED <<rideLeft, rideDb, sess, paging, due, reader>>

FillProtects == sess.on /\ protectTx("fill") /\ UNCHANGED <<paging, filling, due, reader>>

\* readBatch, which also prunes when that is due, under a token for what it read.
FillReads ==
  /\ sess.on /\ protecting["fill"] = 0
  /\ filling.pc = "read" \/ (filling = Idle /\ Woken /\ floorToProtect = 0)
  /\ LET ss == Log!FirstOf({s \in rideRetained : sess.liveRead < s}, rideLeft.page)
         chain == chainFor(sess.liveRead)
     IN /\ \/ UNCHANGED <<rideDb, sess>>
           \/ /\ mintToken(IF ss = {} THEN {} ELSE {sess.liveRead}, chain, TRUE)
              /\ sess' = IF ss = {} THEN sess ELSE [sess EXCEPT !.chain = chain]
        /\ filling' = IF ss = {} THEN Idle ELSE [pc |-> "append", scanned |-> ss]
        /\ due' = IF ss = {} THEN due \ {"fill"} ELSE due
  /\ UNCHANGED <<rideLeft, paging, protecting, reader>>

\* The records admitted are queued; the first of a queue is protected at once.
FillAppends ==
  /\ sess.on /\ filling.pc = "append"
  /\ LET ss == filling.scanned IN
     /\ sess' = [sess EXCEPT !.queue = @ \o SetToSortSeq(ss, <),
                             !.liveRead = Max(ss)]
     /\ filling' = IF sess.queue = <<>> THEN [pc |-> "protect"] ELSE Idle
     /\ due' = IF Cardinality(ss) < rideLeft.page THEN due \ {"fill"} ELSE due \cup {"fill"}
  /\ UNCHANGED <<rideLeft, rideDb, paging, protecting, reader>>

FillEnds ==
  /\ sess.on /\ filling.pc = "protect"
  /\ protecting' = [protecting EXCEPT !["fill"] = floorToProtect]
  /\ filling' = Idle
  /\ UNCHANGED <<rideLeft, rideDb, sess, paging, due, reader>>

-----------------------------------------------------------------------------
(* The drain pump.                                                          *)

DrainPops ==
  /\ sess.on /\ sess.replayDone /\ paging = Idle /\ sess.delivering = 0 /\ sess.queue # <<>>
  /\ sess' = [sess EXCEPT !.delivering = Head(sess.queue), !.queue = Tail(@)]
  /\ UNCHANGED <<rideLeft, rideDb, paging, protecting, filling, due, reader>>

\* mintOne: a change that is gone ends the session.  One in listenPruneInterval prunes.
mintLive ==
  /\ sess.on /\ sess.delivering # 0 /\ sess.token = NoCursor
  /\ LET s == sess.delivering
         chain == chainFor(s)
     IN IF s \notin rideRetained THEN sessionEnds(TRUE) /\ UNCHANGED rideDb
        ELSE /\ \E prune \in BOOLEAN : mintToken({s}, chain, prune)
             /\ sess' = [sess EXCEPT !.chain = chain, !.token = cursorAt(s, chain)]
             /\ UNCHANGED <<paging, protecting, filling, due, reader>>
  /\ UNCHANGED rideLeft

\* notify returns, whenever the subscriber has taken the change.
Notified ==
  /\ sess.on /\ sess.token # NoCursor
  /\ reader' = [reader EXCEPT !.got = Append(@, sess.delivering), !.cursor = sess.token]
  /\ sess' = [sess EXCEPT !.delivering = 0, !.token = NoCursor]
  /\ UNCHANGED <<rideLeft, rideDb, paging, protecting, filling, due>>

-----------------------------------------------------------------------------
RideHangUp ==
  /\ sess.on /\ rideLeft.hangups > 0
  /\ rideLeft' = [rideLeft EXCEPT !.hangups = @ - 1]
  /\ sessionEnds(FALSE)
  /\ UNCHANGED rideDb

\* mintChanges, before the client has started or after it.
RideCommits ==
  /\ \/ Fresh /\ rideLeft.backlog > 0 /\ rideLeft' = [rideLeft EXCEPT !.backlog = @ - 1]
     \/ ~Fresh /\ rideLeft.commits > 0 /\ rideLeft' = [rideLeft EXCEPT !.commits = @ - 1]
  /\ rideSeq' = rideSeq + rideLeft.rows
  /\ rideLog' = rideLog \o [i \in 1 .. rideLeft.rows |-> [at |-> rideClock]]
  /\ rideRetained' = rideRetained \cup (rideSeq + 1 .. rideSeq')
  /\ UNCHANGED <<rideClock, rideTokens, sess, paging, protecting, filling, due, reader>>

\* Another session's readBatch, on a feed without new changes, prunes.
OtherPrunes ==
  /\ mintToken({}, NoChain, TRUE)
  /\ rideTokens' # rideTokens \/ rideRetained' # rideRetained
  /\ UNCHANGED <<rideLeft, sess, paging, protecting, filling, due, reader>>

RideTick ==
  /\ rideClock < RideMaxTime /\ ~(Fresh /\ rideSeq = 0)
  /\ due = {} /\ filling = Idle /\ \A p \in Pumps : protecting[p] = 0
  /\ rideClock' = rideClock + 1
  /\ due' = IF sess.on THEN Pumps ELSE {}
  /\ UNCHANGED <<rideLeft, rideSeq, rideLog, rideRetained, rideTokens, sess, paging, protecting, filling, reader>>

RideNext ==
  \/ ListenHead \/ ListenBegin \/ ListenToken \/ replayPage \/ replayMint \/ ReplayDone
  \/ Poll \/ PollProtects \/ FillBegins \/ FillProtects \/ FillReads \/ FillAppends \/ FillEnds
  \/ DrainPops \/ mintLive \/ Notified \/ RideHangUp \/ RideCommits \/ OtherPrunes \/ RideTick

RideSpec == RideInit /\ [][RideNext]_rideVars

-----------------------------------------------------------------------------
\* However slow the subscriber is and whoever prunes, it is given every change
\* after the one it started from, once and in order, also over a reconnection
\* with its last cursor; what was pruned before it came is answered with an
\* error and never skipped (verifyRetained, mintOne, resolveCursorToken).
GapFree == \A i \in DOMAIN reader.got : reader.got[i] = reader.base + i

\* A change that was queued, or is being handed over, is not pruned before its
\* cursor is minted, though the subscriber stalls for any number of
\* retentions and a renewal fails: protectQueue comes in time.
OwedKept ==
  sess.on => \A s \in Range(sess.queue) \cup {sess.delivering} :
                s = 0 \/ (s = sess.delivering /\ sess.token # NoCursor) \/ s \in rideRetained

\* What a slow subscriber relies on; the cursors that it was given cover what
\* follows them, as those of changes_since do.
RideSafe == GapFree /\ OwedKept /\ Log!TokensCovered
=============================================================================
