------------------------------ MODULE ChangeLog ------------------------------
(***************************************************************************)
(* The durable change feed of one SQLite namespace (internal/store/        *)
(* changelog.go): the _dolmen_changes log that every write transaction     *)
(* appends to, the _dolmen_cursor_tokens rows that ChangesSince hands out   *)
(* as resume cursors, and the retention that prunes both.                   *)
(*                                                                         *)
(* Every operation is one transaction on the namespace's single write      *)
(* connection (BEGIN IMMEDIATE), so each is one action.  Time is the wall   *)
(* clock in abstract ticks, assumed never to step back.  ChangesSince reads *)
(* the clock BEFORE it waits for that connection, so the `now` it works     *)
(* with may be older than the clock by the time its transaction runs.       *)
(***************************************************************************)
EXTENDS Integers, FiniteSets

CONSTANTS
    Tables,       \* user tables of the namespace
    Owners,       \* principals that own rows
    NoOwner,      \* the NULL label of a change to a row without an owner
    NsFeed,       \* feed_table = '': the namespace-wide feed
    Unscoped,     \* scope == nil
    EmptyScope,   \* scope.Empty: the caller sees no row
    Retention,    \* changeRetention in ticks; 0 disables pruning
    PageLimit,    \* records per page (Page.Limit)
    MaxTime,      \* bound: last tick of the clock
    MaxWait,      \* bound: ticks a call may wait for the write connection
    MaxSeq,       \* bound: changes ever committed
    MaxRows,      \* bound: rows of one write transaction
    MaxGen,       \* bound: drops of one table
    MaxTokens     \* bound: cursor tokens stored at once

ASSUME RetentionAssumption == Retention \in Nat
ASSUME BoundsAssumption ==
    /\ PageLimit \in Nat \ {0} /\ MaxWait \in Nat /\ MaxTime \in Nat
    /\ MaxSeq \in Nat /\ MaxRows \in Nat /\ MaxGen \in Nat /\ MaxTokens \in Nat
ASSUME NamesAssumption ==
    /\ NsFeed \notin Tables /\ NoOwner \notin Owners
    /\ Unscoped \notin Owners /\ EmptyScope \notin Owners
    /\ Unscoped # EmptyScope /\ Unscoped # NoOwner /\ EmptyScope # NoOwner

VARIABLES
    clock,     \* time.Now()
    seq,       \* last AUTOINCREMENT value of _dolmen_changes
    log,       \* every change ever committed, retained or pruned, by seq
    retained,  \* seqs that still have a row in _dolmen_changes
    live,      \* tables that exist
    gen,       \* _dolmen_drop_gen: how often each table was dropped
    tokens,    \* rows of _dolmen_cursor_tokens
    prunedAt   \* history: the `now` of the latest pruneChanges

vars == <<clock, seq, log, retained, live, gen, tokens, prunedAt>>

Feeds  == Tables \cup {NsFeed}
Scopes == Owners \cup {Unscoped, EmptyScope}

\* A row of _dolmen_changes: its table, the table's lifetime, the owner label
\* and the commit stamp.
Change == [table : Tables, gen : Nat, owner : Owners \cup {NoOwner}, at : Nat]

\* A cursor row.  base is history: the last change already committed, or
\* already delivered, when the token was minted.  It differs from position
\* only for a token minted at the head of a log that pruning had emptied.
Token == [position : Nat, issued : Nat, origin : Nat, start : Nat,
          feed : Feeds, base : Nat]

-----------------------------------------------------------------------------
Unlimited == Retention = 0

\* Seeded fault: an empty log answers with a sentinel.
changeHeadSentinel ==
    IF retained = {} THEN -1
    ELSE CHOOSE s \in retained : \A u \in retained : u <= s

\* The last retained change, 0 when there is none.
changeHead ==
    IF retained = {} THEN 0
    ELSE CHOOSE s \in retained : \A u \in retained : u <= s

\* The change rows of a feed: the table's current lifetime only.
InFeed(c, feed) == feed = NsFeed \/ (c.table = feed /\ c.gen = gen[feed])

InScope(c, scope) == scope = Unscoped \/ c.owner = scope

Visible(c, feed, scope) == InFeed(c, feed) /\ InScope(c, scope)

\* ORDER BY seq LIMIT k over a set of seqs.
FirstOf(S, k) == {s \in S : Cardinality({u \in S : u < s}) < k}

\* unlabeledChangeInRange: a change no owner scope can be judged against.
unlabeledChangeInRange(from, to, feed) ==
    \E s \in retained : /\ from < s /\ s <= to
                        /\ InFeed(log[s], feed) /\ log[s].owner = NoOwner

changePage(from, feed, scope) ==
    FirstOf({s \in retained : s > from /\ Visible(log[s], feed, scope)}, PageLimit)

-----------------------------------------------------------------------------
\* Seeded fault: a token is deleted in its last valid tick.
PrunedTokensEarly(T, now) ==
    {t \in T : \/ Unlimited
               \/ t.issued > now - Retention /\ t.start >= now - 2 * Retention}

\* Seeded fault: the chain's cap is not applied.
PrunedTokensUncapped(T, now) == {t \in T : Unlimited \/ t.issued >= now - Retention}

\* Seeded fault: changes are pruned by age alone.
PrunedChangesByAge(T, now) ==
    {s \in retained : Unlimited \/ log[s].at >= now - 2 * Retention}

\* pruneChanges, first its two DELETEs on tokens, then the one on changes,
\* which spares everything after the oldest surviving chain's origin.
PrunedTokens(T, now) ==
    {t \in T : \/ Unlimited
               \/ t.issued >= now - Retention /\ t.start >= now - 2 * Retention}

PrunedChanges(T, now) ==
    {s \in retained : \/ Unlimited
                      \/ log[s].at >= now - 2 * Retention
                      \/ \E t \in T : s > t.origin}

\* resolveCursorToken: the age of the token, then the cap of its chain.
Resolves(t, feed, now) ==
    /\ t.feed = feed
    /\ Unlimited \/ (now <= t.issued + Retention /\ now <= t.start + 2 * Retention)

Refreshed(t, now) == [t EXCEPT !.issued = IF @ < now THEN now ELSE @]

mintCursorToken(now, pos, base, feed, origin, start) ==
    [position |-> pos, issued |-> now, origin |-> origin, start |-> start,
     feed |-> feed, base |-> base]

\* mintChangeCursors: one token per record of the page, and one to go on from,
\* except that an empty page after a real cursor hands that cursor back.
MintedTokens(page, now, pos, base, feed, origin, start, resumed) ==
    {mintCursorToken(now, s, s, feed, origin, start) : s \in page}
        \cup IF page = {} /\ ~resumed
             THEN {mintCursorToken(now, pos, base, feed, origin, start)} ELSE {}

\* Seeded fault: the window's oldest tick is left out.
YoungStrict(now) == {s \in retained : Unlimited \/ log[s].at > now - Retention}

\* changeBegin: the change before the oldest one with a full page chain of
\* headroom; the head when none is that young.
Young(now) == {s \in retained : Unlimited \/ log[s].at >= now - Retention}

changeBegin(now, pos, base) ==
    \/ /\ Young(now) = {}
       /\ pos = (IF Unlimited THEN 0 ELSE changeHead) /\ base = seq
    \/ \E first \in Young(now) :
          /\ \A s \in Young(now) : first <= s
          /\ pos = first - 1 /\ base = first - 1

-----------------------------------------------------------------------------
\* The rest of ChangesSince once its position and its chain are known: the
\* predates-labels refusal rolls back; otherwise one page is read, its cursors
\* are minted and the log is pruned, all in the one transaction.
AnswerFrom(feed, scope, now, pos, base, origin, start, resumed, T) ==
    LET page   == changePage(pos, feed, scope)
        minted == MintedTokens(page, now, pos, base, feed, origin, start, resumed)
    IN /\ scope # Unscoped =>
             ~unlabeledChangeInRange(pos, changeHead, feed)
       /\ Cardinality(T \cup minted) <= MaxTokens
       /\ tokens' = PrunedTokens(T \cup minted, now)
       /\ retained' = PrunedChanges(tokens', now)
       /\ prunedAt' = now
       /\ UNCHANGED <<clock, seq, log, live, gen>>

\* A scoped caller may not read the namespace feed; a table feed needs its table.
Readable(feed, scope) ==
    /\ feed = NsFeed => scope = Unscoped
    /\ feed # NsFeed => feed \in live

\* What the caller's clock may have shown before the wait for the connection.
CallTimes == {n \in 0 .. clock : clock <= n + MaxWait}

\* changes_since without a cursor: start at the head.
SinceHead(feed, scope) ==
    \E now \in CallTimes :
        /\ Readable(feed, scope)
        /\ AnswerFrom(feed, scope, now, changeHead, seq, changeHead, now, FALSE, tokens)

\* changes_since with cursor "begin": start where a full page chain has headroom.
SinceBegin(feed, scope) ==
    \E now \in CallTimes, pos \in 0 .. seq, base \in 0 .. seq :
        /\ Readable(feed, scope)
        /\ changeBegin(now, pos, base)
        /\ AnswerFrom(feed, scope, now, pos, base, pos, now, FALSE, tokens)

\* changes_since from a token: refresh its deadline and stay in its chain.
SinceToken(t, feed, scope) ==
    \E now \in CallTimes :
        /\ Readable(feed, scope)
        /\ Resolves(t, feed, now)
        /\ AnswerFrom(feed, scope, now, t.position, t.base, t.origin, t.start, TRUE,
                      (tokens \ {t}) \cup {Refreshed(t, now)})

\* mintChanges inside a write transaction: n rows, one seq each, one stamp.
CommitWrite(table, owner, n) ==
    /\ table \in live
    /\ seq + n <= MaxSeq
    /\ seq' = seq + n
    /\ log' = [s \in 1 .. seq + n |->
                 IF s <= seq THEN log[s]
                 ELSE [table |-> table, gen |-> gen[table], owner |-> owner,
                       at |-> clock]]
    /\ retained' = retained \cup (seq + 1 .. seq + n)
    /\ UNCHANGED <<clock, live, gen, tokens, prunedAt>>

\* DropTable: the table's changes stay, under a lifetime that no feed reads.
DropTable(table) ==
    /\ table \in live /\ gen[table] < MaxGen
    /\ live' = live \ {table}
    /\ gen' = [gen EXCEPT ![table] = @ + 1]
    /\ UNCHANGED <<clock, seq, log, retained, tokens, prunedAt>>

CreateTable(table) ==
    /\ table \notin live
    /\ live' = live \cup {table}
    /\ UNCHANGED <<clock, seq, log, retained, gen, tokens, prunedAt>>

Tick ==
    /\ clock < MaxTime
    /\ clock' = clock + 1
    /\ UNCHANGED <<seq, log, retained, live, gen, tokens, prunedAt>>

-----------------------------------------------------------------------------
Init ==
    /\ clock = 0 /\ seq = 0 /\ log = [s \in 1 .. 0 |-> 0]
    /\ retained = {} /\ live = Tables /\ gen = [t \in Tables |-> 0]
    /\ tokens = {} /\ prunedAt = 0

Next ==
    \/ Tick
    \/ \E t \in Tables : DropTable(t) \/ CreateTable(t)
    \/ \E t \in Tables, o \in Owners \cup {NoOwner}, n \in 1 .. MaxRows :
          CommitWrite(t, o, n)
    \/ \E f \in Feeds, sc \in Scopes : SinceHead(f, sc) \/ SinceBegin(f, sc)
    \/ \E f \in Feeds, sc \in Scopes, t \in tokens : SinceToken(t, f, sc)

Spec == Init /\ [][Next]_vars

-----------------------------------------------------------------------------
TypeOK ==
    /\ clock \in Nat /\ seq \in Nat
    /\ log \in [1 .. seq -> Change]
    /\ retained \subseteq 1 .. seq
    /\ live \subseteq Tables /\ gen \in [Tables -> Nat]
    /\ tokens \subseteq Token /\ prunedAt \in Nat

\* A cursor that still has its row can be read on from without a gap: pruning
\* (pruneChanges) never deletes a change committed after the cursor's base, in
\* whatever order other callers' pages, refreshes and prunes ran in between.
TokensCovered ==
    \A t \in tokens, s \in 1 .. seq : s > t.base => s \in retained

\* "A conforming engine never silently shortens a page": whatever cursor still
\* has its row, the page it is answered with (changePageSQL) is the one a log
\* from which nothing was ever pruned would give.
PageComplete ==
    \A t \in tokens, scope \in Scopes :
        changePage(t.position, t.feed, scope) =
            FirstOf({s \in 1 .. seq : s > t.base /\ Visible(log[s], t.feed, scope)},
                    PageLimit)

\* A cursor row goes only when it is past its deadline or its chain's cap at
\* that moment, or when its own use renews it: prune and resolve agree about
\* the last valid tick.
TokenKeptWhileValid ==
    [][\A t \in tokens :
         \/ \E u \in tokens' : /\ u.issued >= t.issued
                               /\ u = [t EXCEPT !.issued = u.issued]
         \/ clock > t.issued + Retention
         \/ clock > t.start + 2 * Retention]_vars

\* A caller that starts at "begin" now is given every change of the last
\* Retention ticks (changeBegin), none of them pruned.
BeginReachesWindow ==
    \A now \in CallTimes, pos \in 0 .. seq, base \in 0 .. seq :
        changeBegin(now, pos, base) =>
            \A s \in 1 .. seq :
                (Unlimited \/ log[s].at >= now - Retention) => s \in retained /\ s > pos

\* "a client cannot keep an old backlog alive forever": after a prune at `now`
\* nothing older than three retentions survives, however often clients renew
\* their cursors (two for the chain's cap, one for the backlog begin starts at).
BacklogBounded ==
    Retention > 0 => \A s \in retained : log[s].at >= prunedAt - 3 * Retention
=============================================================================
