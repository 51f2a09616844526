--------------------------- MODULE ChangeLogProofs ---------------------------
(***************************************************************************)
(* What ChangeLog's runs check on small instances, proved for every set of *)
(* tables and owners, every retention and every bound, from the inductive  *)
(* strengthening Inv.                                                      *)
(***************************************************************************)
EXTENDS ChangeLog, TLAPS

\* Commit stamps never decrease along the log, and none is in the future.
StampsOrdered ==
    /\ \A s \in 1 .. seq : log[s].at <= clock
    /\ \A s, u \in 1 .. seq : s <= u => log[s].at <= log[u].at

\* Pruning only ever takes a prefix of the log.
RetainedIsSuffix ==
    \A s \in retained, u \in 1 .. seq : s <= u => u \in retained

\* What pruning took was older than two retentions.
PrunedAreOld ==
    \A s \in 1 .. seq : s \notin retained =>
        Retention > 0 /\ log[s].at < clock - 2 * Retention

\* What holds of every cursor row t: its chain starts at or before its position;
\* nothing retained lies between its position and its base; everything after its
\* base is retained; its chain reaches back at most one retention.
GoodToken(t) ==
    /\ t.origin <= t.position /\ t.position <= t.base /\ t.base <= seq
    /\ t.start <= clock
    /\ \A s \in retained : s > t.position => s > t.base
    /\ \A s \in 1 .. seq : s > t.base => s \in retained
    /\ Retention > 0 =>
         \A s \in retained : s > t.origin => log[s].at >= t.start - Retention

LogInv == StampsOrdered /\ RetainedIsSuffix /\ PrunedAreOld /\ prunedAt <= clock

\* The inductive invariant.
Inv == TypeOK /\ LogInv /\ (\A t \in tokens : GoodToken(t)) /\ BacklogBounded

-----------------------------------------------------------------------------
\* changeHead is a bound of the retained log and lies in it.
LEMMA HeadIsBound ==
    ASSUME TypeOK, RetainedIsSuffix
    PROVE  /\ changeHead \in 0 .. seq
           /\ \A s \in retained : s <= changeHead
<1>1. CASE retained = {}
  BY <1>1 DEF changeHead, TypeOK
<1>2. CASE retained # {}
  <2>0. PICK s \in retained : s \in 1 .. seq
    BY <1>2 DEF TypeOK
  <2>a. seq \in 1 .. seq /\ s <= seq
    BY <2>0 DEF TypeOK
  <2>1. seq \in retained /\ \A u \in retained : u <= seq
    BY <2>0, <2>a DEF TypeOK, RetainedIsSuffix
  <2>2. PICK h \in retained : h = changeHead /\ \A u \in retained : u <= h
    BY <1>2, <2>1 DEF changeHead
  <2> QED BY <2>2 DEF TypeOK
<1> QED BY <1>1, <1>2

\* The cursor of a record of a page is as good as the cursor the page was read
\* from (mintChangeCursors keeps the chain).
LEMMA RecordCursorGood ==
    ASSUME TypeOK, LogInv,
           NEW feed \in Feeds, NEW scope \in Scopes, NEW now \in CallTimes,
           NEW pos \in Nat, NEW base \in Nat, NEW origin \in Nat, NEW start \in Nat,
           GoodToken(mintCursorToken(now, pos, base, feed, origin, start)),
           NEW s \in changePage(pos, feed, scope)
    PROVE  /\ mintCursorToken(now, s, s, feed, origin, start) \in Token
           /\ GoodToken(mintCursorToken(now, s, s, feed, origin, start))
<1>1. s \in retained /\ s > pos /\ s \in Nat /\ s <= seq
  BY DEF changePage, FirstOf, TypeOK
<1>2. \A u \in 1 .. seq : u > s => u \in retained
  BY <1>1 DEF LogInv, RetainedIsSuffix, TypeOK
<1>3. now \in Nat
  BY DEF CallTimes
<1> QED BY <1>1, <1>2, <1>3 DEF GoodToken, mintCursorToken, Token

\* ChangesSince preserves the invariant once its position and chain make a good
\* cursor: pruneChanges spares whatever a surviving cursor still needs.
LEMMA AnswerKeepsInv ==
    ASSUME Inv,
           NEW feed \in Feeds, NEW scope \in Scopes, NEW now \in CallTimes,
           NEW pos \in Nat, NEW base \in Nat, NEW origin \in Nat, NEW start \in Nat,
           NEW resumed \in BOOLEAN, NEW T \in SUBSET Token,
           GoodToken(mintCursorToken(now, pos, base, feed, origin, start)),
           \A t \in T : GoodToken(t),
           AnswerFrom(feed, scope, now, pos, base, origin, start, resumed, T)
    PROVE  Inv'
<1> DEFINE page   == changePage(pos, feed, scope)
           minted == MintedTokens(page, now, pos, base, feed, origin, start, resumed)
<1> USE RetentionAssumption
<1>1. /\ tokens' = PrunedTokens(T \cup minted, now)
      /\ retained' = PrunedChanges(tokens', now)
      /\ prunedAt' = now
      /\ UNCHANGED <<clock, seq, log, live, gen>>
  BY DEF AnswerFrom
<1>r. \A s : s \in retained' <=>
             /\ s \in retained
             /\ \/ Retention = 0
                \/ log[s].at >= now - 2 * Retention
                \/ \E t \in tokens' : s > t.origin
  <2>1. retained' = PrunedChanges(tokens', now)
    BY <1>1
  <2> QED BY ONLY <2>1 DEF PrunedChanges, Unlimited
<1>2. now \in Nat /\ now <= clock /\ clock \in Nat /\ seq \in Nat
  BY DEF CallTimes, Inv, TypeOK
<1>3. \A t \in minted : t \in Token /\ GoodToken(t)
  <2>1. mintCursorToken(now, pos, base, feed, origin, start) \in Token
    BY <1>2 DEF mintCursorToken, Token
  <2>2. \A s \in page : /\ mintCursorToken(now, s, s, feed, origin, start) \in Token
                        /\ GoodToken(mintCursorToken(now, s, s, feed, origin, start))
    BY RecordCursorGood DEF Inv
  <2> QED BY <2>1, <2>2 DEF MintedTokens
<1>4. \A t \in tokens' : t \in Token /\ GoodToken(t)
  BY <1>1, <1>3 DEF PrunedTokens
<1>5. retained' \subseteq retained
  BY <1>r
<1>6. \A s \in retained : s \notin retained' =>
         /\ Retention > 0 /\ log[s].at < now - 2 * Retention
         /\ \A t \in tokens' : s <= t.origin
  <2> SUFFICES ASSUME NEW s \in retained, s \notin retained'
               PROVE  /\ Retention > 0 /\ log[s].at < now - 2 * Retention
                      /\ \A t \in tokens' : s <= t.origin
    OBVIOUS
  <2>1. /\ Retention # 0
        /\ ~(log[s].at >= now - 2 * Retention)
        /\ \A t \in tokens' : ~(s > t.origin)
    BY <1>r
  <2>2. s \in 1 .. seq /\ log[s].at \in Nat
    BY DEF Inv, TypeOK, Change
  <2>3. \A t \in tokens' : t.origin \in Nat
    BY <1>4 DEF Token
  <2> QED BY <1>2, <2>1, <2>2, <2>3
<1>7. \A s \in 1 .. seq : log[s].at \in Nat
  BY DEF Inv, TypeOK, Change
<1>8. TypeOK'
  BY <1>1, <1>2, <1>4, <1>5 DEF Inv, TypeOK
<1>9. LogInv'
  <2>1. StampsOrdered' /\ prunedAt' <= clock'
    BY <1>1, <1>2 DEF Inv, LogInv, StampsOrdered
  <2>2. RetainedIsSuffix'
    <3> SUFFICES ASSUME NEW s \in retained', NEW u \in 1 .. seq, s <= u,
                        u \notin retained'
                 PROVE  FALSE
      BY <1>1 DEF RetainedIsSuffix
    <3>1. s \in retained /\ s \in 1 .. seq /\ u \in retained
      BY <1>5 DEF Inv, TypeOK, LogInv, RetainedIsSuffix
    <3>2. log[s].at < now - 2 * Retention /\ Retention > 0
      BY <1>2, <1>6, <1>7, <3>1 DEF Inv, LogInv, StampsOrdered
    <3>3. \A t \in tokens' : s <= t.origin
      <4>1. \A t \in tokens' : u <= t.origin /\ t.origin \in Nat
        BY <1>4, <1>6, <3>1 DEF Token
      <4> QED BY <3>1, <4>1
    <3>4. /\ s \in Nat /\ log[s].at \in Nat /\ now \in Int
          /\ \A t \in tokens' : t.origin \in Nat
      BY <1>2, <1>4, <1>7, <3>1 DEF Token
    <3> QED BY <1>r, <3>2, <3>3, <3>4
  <2>3. PrunedAreOld'
    <3> SUFFICES ASSUME NEW s \in 1 .. seq, s \notin retained'
                 PROVE  Retention > 0 /\ log[s].at < clock - 2 * Retention
      BY <1>1 DEF PrunedAreOld
    <3>1. CASE s \in retained
      BY <1>2, <1>6, <1>7, <3>1
    <3>2. CASE s \notin retained
      BY <3>2 DEF Inv, LogInv, PrunedAreOld
    <3> QED BY <3>1, <3>2
  <2> QED BY <2>1, <2>2, <2>3 DEF LogInv
<1>10. \A t \in tokens' : GoodToken(t)'
  <2> SUFFICES ASSUME NEW t \in tokens' PROVE GoodToken(t)'
    OBVIOUS
  <2>1. t \in Token /\ GoodToken(t)
    BY <1>4
  <2>2. \A s \in 1 .. seq : s > t.base => s \in retained'
    BY <1>2, <1>6, <2>1 DEF GoodToken, Token
  <2> QED BY <1>1, <1>5, <2>1, <2>2 DEF GoodToken
<1>11. BacklogBounded'
  <2> SUFFICES ASSUME Retention > 0, NEW s \in retained'
               PROVE  log[s].at >= now - 3 * Retention
    BY <1>1 DEF BacklogBounded
  <2>1. s \in retained /\ log[s].at \in Nat
    BY <1>5, <1>7 DEF Inv, TypeOK
  <2>2. CASE log[s].at >= now - 2 * Retention
    BY <1>2, <2>1, <2>2
  <2>3. CASE \E t \in tokens' : s > t.origin
    <3>1. PICK t \in tokens' : s > t.origin
      BY <2>3
    <3>2. t \in Token /\ GoodToken(t) /\ t.start >= now - 2 * Retention
      BY <1>1, <1>4 DEF PrunedTokens, Unlimited
    <3> QED BY <1>2, <2>1, <3>1, <3>2 DEF GoodToken, Token
  <2>4. \/ log[s].at >= now - 2 * Retention
        \/ \E t \in tokens' : s > t.origin
    BY <1>r
  <2> QED BY <2>2, <2>3, <2>4
<1> QED BY <1>8, <1>9, <1>10, <1>11 DEF Inv

-----------------------------------------------------------------------------
LEMMA InitInv == Init => Inv
  BY RetentionAssumption
     DEF Init, Inv, TypeOK, LogInv, StampsOrdered, RetainedIsSuffix, PrunedAreOld,
         BacklogBounded, Change

\* The three ways to start a feed give AnswerFrom a good cursor to go on from.
LEMMA HeadKeepsInv ==
    ASSUME Inv, NEW feed \in Feeds, NEW scope \in Scopes, SinceHead(feed, scope)
    PROVE  Inv'
<1>1. PICK now \in CallTimes :
        AnswerFrom(feed, scope, now, changeHead, seq, changeHead, now, FALSE, tokens)
  BY DEF SinceHead
<1>2. changeHead \in Nat /\ changeHead <= seq /\ \A s \in retained : s <= changeHead
  BY HeadIsBound DEF Inv, LogInv, TypeOK
<1>3. seq \in Nat /\ now \in Nat /\ now <= clock /\ clock \in Nat
  BY DEF Inv, TypeOK, CallTimes
<1>4. \A s \in retained : s \in Nat
  BY DEF Inv, TypeOK
<1>5. GoodToken(mintCursorToken(now, changeHead, seq, feed, changeHead, now))
  BY <1>2, <1>3, <1>4 DEF GoodToken, mintCursorToken
<1>6. tokens \in SUBSET Token /\ \A t \in tokens : GoodToken(t)
  BY DEF Inv, TypeOK
<1> QED BY <1>1, <1>2, <1>3, <1>5, <1>6, AnswerKeepsInv

LEMMA BeginKeepsInv ==
    ASSUME Inv, NEW feed \in Feeds, NEW scope \in Scopes, SinceBegin(feed, scope)
    PROVE  Inv'
<1>1. PICK now \in CallTimes, pos \in 0 .. seq, base \in 0 .. seq :
        /\ changeBegin(now, pos, base)
        /\ AnswerFrom(feed, scope, now, pos, base, pos, now, FALSE, tokens)
  BY DEF SinceBegin
<1>2. /\ changeHead \in Nat /\ changeHead <= seq
      /\ \A s \in retained : s <= changeHead
  BY HeadIsBound DEF Inv, LogInv, TypeOK
<1>3. seq \in Nat /\ now \in Nat /\ now <= clock /\ clock \in Nat
  BY DEF Inv, TypeOK, CallTimes
<1>4. \A s \in retained : s \in 1 .. seq /\ log[s].at \in Nat
  BY DEF Inv, TypeOK, Change
<1>5. GoodToken(mintCursorToken(now, pos, base, feed, pos, now))
  <2>1. CASE Young(now) = {} /\ pos = (IF Unlimited THEN 0 ELSE changeHead) /\ base = seq
    <3>1. \A s \in retained : s <= pos
      BY <1>2, <2>1 DEF Young
    <3> QED BY <1>3, <1>4, <2>1, <3>1 DEF GoodToken, mintCursorToken
  <2>2. CASE \E first \in Young(now) : /\ \A s \in Young(now) : first <= s
                                       /\ pos = first - 1 /\ base = first - 1
    <3>1. PICK first \in Young(now) : pos = first - 1 /\ base = first - 1
      BY <2>2
    <3>2. /\ first \in retained /\ first \in 1 .. seq
          /\ Retention > 0 => log[first].at >= now - Retention
      BY <1>4, <3>1, RetentionAssumption DEF Young, Unlimited
    <3>3. \A s \in 1 .. seq : s > base => s \in retained
      BY <3>1, <3>2 DEF Inv, LogInv, RetainedIsSuffix
    <3>4. Retention > 0 => \A s \in retained : s > pos => log[s].at >= now - Retention
      BY <1>3, <1>4, <3>1, <3>2, RetentionAssumption DEF Inv, LogInv, StampsOrdered
    <3> QED BY <1>3, <3>1, <3>2, <3>3, <3>4 DEF GoodToken, mintCursorToken
  <2> QED BY <1>1, <2>1, <2>2 DEF changeBegin
<1>6. tokens \in SUBSET Token /\ \A t \in tokens : GoodToken(t)
  BY DEF Inv, TypeOK
<1>7. pos \in Nat /\ base \in Nat
  BY <1>3
<1> QED BY <1>1, <1>3, <1>5, <1>6, <1>7, AnswerKeepsInv

LEMMA TokenKeepsInv ==
    ASSUME Inv, NEW feed \in Feeds, NEW scope \in Scopes, NEW t \in tokens,
           SinceToken(t, feed, scope)
    PROVE  Inv'
<1>1. PICK now \in CallTimes :
        AnswerFrom(feed, scope, now, t.position, t.base, t.origin, t.start, TRUE,
                   (tokens \ {t}) \cup {Refreshed(t, now)})
  BY DEF SinceToken
<1>2. t \in Token /\ GoodToken(t) /\ now \in Nat
  BY DEF Inv, TypeOK, CallTimes
<1>3. Refreshed(t, now) \in Token /\ GoodToken(Refreshed(t, now))
  BY <1>2 DEF Refreshed, Token, GoodToken
<1>4. GoodToken(mintCursorToken(now, t.position, t.base, feed, t.origin, t.start))
  BY <1>2 DEF GoodToken, mintCursorToken
<1>5. /\ (tokens \ {t}) \cup {Refreshed(t, now)} \in SUBSET Token
      /\ \A u \in (tokens \ {t}) \cup {Refreshed(t, now)} : GoodToken(u)
  BY <1>3 DEF Inv, TypeOK
<1>6. t.position \in Nat /\ t.base \in Nat /\ t.origin \in Nat /\ t.start \in Nat
  BY <1>2 DEF Token
<1> QED BY <1>1, <1>4, <1>5, <1>6, AnswerKeepsInv

LEMMA CommitKeepsInv ==
    ASSUME Inv, NEW table \in Tables, NEW owner \in Owners \cup {NoOwner},
           NEW n \in 1 .. MaxRows, CommitWrite(table, owner, n)
    PROVE  Inv'
<1> USE RetentionAssumption, BoundsAssumption DEF CommitWrite
<1>1. /\ seq \in Nat /\ clock \in Nat /\ n \in Nat /\ prunedAt \in Nat
      /\ gen[table] \in Nat /\ prunedAt <= clock
      /\ seq' = seq + n /\ clock' = clock /\ prunedAt' = prunedAt /\ tokens' = tokens
  BY DEF Inv, TypeOK, LogInv
<1>2. /\ \A s \in 1 .. seq : log'[s] = log[s]
      /\ \A s \in seq + 1 .. seq' : log'[s].at = clock
      /\ log' \in [1 .. seq' -> Change]
  BY <1>1 DEF Inv, TypeOK, Change
<1>3. /\ retained \subseteq 1 .. seq
      /\ \A s \in 1 .. seq' : s \in retained' <=> (s \in retained \/ s > seq)
      /\ retained' \subseteq 1 .. seq'
  BY <1>1 DEF Inv, TypeOK
<1>4. TypeOK'
  BY <1>1, <1>2, <1>3 DEF Inv, TypeOK
<1>5. \A s \in 1 .. seq : log[s].at \in Nat /\ log[s].at <= clock
  BY DEF Inv, TypeOK, Change, LogInv, StampsOrdered
<1>6. LogInv'
  <2>1. StampsOrdered'
    BY <1>1, <1>2, <1>5 DEF Inv, LogInv, StampsOrdered
  <2>2. RetainedIsSuffix'
    BY <1>1, <1>3 DEF Inv, LogInv, RetainedIsSuffix
  <2>3. PrunedAreOld'
    BY <1>1, <1>2, <1>3 DEF Inv, LogInv, PrunedAreOld
  <2> QED BY <1>1, <2>1, <2>2, <2>3 DEF LogInv
<1>7. \A t \in tokens' : GoodToken(t)'
  <2> SUFFICES ASSUME NEW t \in tokens PROVE GoodToken(t)'
    BY <1>1
  <2>1. GoodToken(t) /\ t \in Token
    BY DEF Inv, TypeOK
  <2>2. t.position \in Nat /\ t.base \in Nat /\ t.start \in Nat /\ t.origin \in Nat
    BY <2>1 DEF Token
  <2>3. /\ t.origin <= t.position /\ t.position <= t.base /\ t.base <= seq'
        /\ t.start <= clock'
    BY <1>1, <2>1, <2>2 DEF GoodToken
  <2>4. \A s \in retained' : s > t.position => s > t.base
    BY <1>1, <1>3, <2>1, <2>2 DEF GoodToken
  <2>5. \A s \in 1 .. seq' : s > t.base => s \in retained'
    BY <1>1, <1>3, <2>1, <2>2 DEF GoodToken
  <2>6. ASSUME Retention > 0, NEW s \in retained', s > t.origin
        PROVE  log'[s].at >= t.start - Retention
    <3>1. CASE s \in retained
      BY <1>2, <1>3, <2>1, <2>6, <3>1 DEF GoodToken
    <3>2. CASE s \notin retained
      BY <1>1, <1>2, <1>3, <2>1, <2>2, <3>2 DEF GoodToken
    <3> QED BY <3>1, <3>2
  <2> QED BY <2>3, <2>4, <2>5, <2>6 DEF GoodToken
<1>8. BacklogBounded'
  <2> SUFFICES ASSUME Retention > 0, NEW s \in retained'
               PROVE  log'[s].at >= prunedAt - 3 * Retention
    BY <1>1 DEF BacklogBounded
  <2>1. CASE s \in retained
    BY <1>2, <1>3, <2>1 DEF Inv, BacklogBounded
  <2>2. CASE s \notin retained
    BY <1>1, <1>2, <1>3, <2>2
  <2> QED BY <2>1, <2>2
<1> QED BY <1>4, <1>6, <1>7, <1>8 DEF Inv

\* The remaining steps leave the log and the cursors alone.
LEMMA QuietKeepsInv ==
    ASSUME Inv, UNCHANGED <<seq, log, retained, tokens, prunedAt>>,
           clock' \in Nat, clock' >= clock,
           live' \subseteq Tables, gen' \in [Tables -> Nat]
    PROVE  Inv'
<1> USE RetentionAssumption
<1>0. clock \in Nat /\ prunedAt \in Nat /\ \A s \in 1 .. seq : log[s].at \in Nat
  BY DEF Inv, TypeOK, Change
<1>1. TypeOK'
  BY DEF Inv, TypeOK
<1>2. LogInv'
  BY <1>0 DEF Inv, LogInv, StampsOrdered, RetainedIsSuffix, PrunedAreOld
<1>3. \A t \in tokens' : GoodToken(t)'
  <2> SUFFICES ASSUME NEW t \in tokens PROVE GoodToken(t)'
    OBVIOUS
  <2>1. GoodToken(t) /\ t.start \in Nat
    BY DEF Inv, TypeOK, Token
  <2> QED BY <1>0, <2>1 DEF GoodToken
<1>4. BacklogBounded'
  BY DEF Inv, BacklogBounded
<1> QED BY <1>1, <1>2, <1>3, <1>4 DEF Inv

LEMMA NextInv == Inv /\ [Next]_vars => Inv'
<1> SUFFICES ASSUME Inv, [Next]_vars PROVE Inv'
  OBVIOUS
<1>t. clock \in Nat /\ live \subseteq Tables /\ gen \in [Tables -> Nat]
  BY DEF Inv, TypeOK
<1>1. CASE Tick
  BY <1>1, <1>t, QuietKeepsInv DEF Tick
<1>2. ASSUME NEW t \in Tables, DropTable(t) PROVE Inv'
  BY <1>2, <1>t, QuietKeepsInv DEF DropTable
<1>3. ASSUME NEW t \in Tables, CreateTable(t) PROVE Inv'
  BY <1>3, <1>t, QuietKeepsInv DEF CreateTable
<1>4. ASSUME NEW t \in Tables, NEW o \in Owners \cup {NoOwner}, NEW n \in 1 .. MaxRows,
             CommitWrite(t, o, n)
      PROVE  Inv'
  BY <1>4, CommitKeepsInv
<1>5. ASSUME NEW f \in Feeds, NEW sc \in Scopes, SinceHead(f, sc) PROVE Inv'
  BY <1>5, HeadKeepsInv
<1>6. ASSUME NEW f \in Feeds, NEW sc \in Scopes, SinceBegin(f, sc) PROVE Inv'
  BY <1>6, BeginKeepsInv
<1>7. ASSUME NEW f \in Feeds, NEW sc \in Scopes, NEW t \in tokens, SinceToken(t, f, sc)
      PROVE  Inv'
  BY <1>7, TokenKeepsInv
<1>8. CASE UNCHANGED vars
  BY <1>8, <1>t, QuietKeepsInv DEF vars
<1> QED BY <1>1, <1>2, <1>3, <1>4, <1>5, <1>6, <1>7, <1>8 DEF Next

\* The inductive invariant holds in every reachable state.
LEMMA Invariance == Spec => []Inv
  BY InitInv, NextInv, PTL DEF Spec

-----------------------------------------------------------------------------
\* Every variable keeps its type: the log is a total function of the AUTOINCREMENT
\* values handed out and only those have rows.
THEOREM TypeCorrect == Spec => []TypeOK
<1>1. Inv => TypeOK
  BY DEF Inv
<1> QED BY <1>1, Invariance, PTL

\* No prune by anyone ever deletes a change that a stored cursor has still to
\* read (pruneChanges against mintCursorToken and resolveCursorToken).
THEOREM CursorsNeverLoseChanges == Spec => []TokensCovered
<1>1. Inv => TokensCovered
  BY DEF Inv, TokensCovered, GoodToken
<1> QED BY <1>1, Invariance, PTL

\* The page read from a stored cursor is the page of the unpruned log: the
\* records pruning took all lie at or before the cursor.
THEOREM PagesAreComplete == Spec => []PageComplete
<1>1. Inv => PageComplete
  <2> SUFFICES ASSUME Inv, NEW t \in tokens, NEW scope \in Scopes
               PROVE  changePage(t.position, t.feed, scope) =
                        FirstOf({s \in 1 .. seq :
                                   s > t.base /\ Visible(log[s], t.feed, scope)},
                                PageLimit)
    BY DEF PageComplete
  <2>1. /\ GoodToken(t) /\ t.position \in Nat /\ t.base \in Nat
        /\ retained \subseteq 1 .. seq /\ seq \in Nat
    BY DEF Inv, TypeOK, Token
  <2>2. \A s : (s \in retained /\ s > t.position) <=> (s \in 1 .. seq /\ s > t.base)
    <3>1. ASSUME NEW s \in retained, s > t.position PROVE s \in 1 .. seq /\ s > t.base
      BY <2>1, <3>1 DEF GoodToken
    <3>2. ASSUME NEW s \in 1 .. seq, s > t.base PROVE s \in retained /\ s > t.position
      BY <2>1, <3>2 DEF GoodToken
    <3> QED BY <3>1, <3>2
  <2>3. {s \in retained : s > t.position /\ Visible(log[s], t.feed, scope)} =
        {s \in 1 .. seq : s > t.base /\ Visible(log[s], t.feed, scope)}
    BY <2>2
  <2> QED BY <2>3 DEF changePage
<1> QED BY <1>1, Invariance, PTL

\* However clients renew their cursors, a prune leaves nothing older than three
\* retentions behind (the chain cap of resolveCursorToken at work).
THEOREM BacklogStaysBounded == Spec => []BacklogBounded
<1>1. Inv => BacklogBounded
  BY DEF Inv
<1> QED BY <1>1, Invariance, PTL

\* As long as no call waits longer than a retention for the write connection,
\* "begin" (changeBegin) is given every change of the last retention.
THEOREM BeginReachesTheWindow ==
    ASSUME MaxWait <= Retention
    PROVE  Spec => []BeginReachesWindow
<1> USE RetentionAssumption, BoundsAssumption
<1>1. Inv => BeginReachesWindow
  <2> SUFFICES ASSUME Inv, NEW now \in CallTimes, NEW pos \in 0 .. seq,
                      NEW base \in 0 .. seq, changeBegin(now, pos, base),
                      NEW s \in 1 .. seq, Unlimited \/ log[s].at >= now - Retention
               PROVE  s \in retained /\ s > pos
    BY DEF BeginReachesWindow
  <2>1. /\ seq \in Nat /\ clock \in Nat /\ now \in Nat /\ clock <= now + MaxWait
        /\ log[s].at \in Nat
    BY DEF Inv, TypeOK, CallTimes, Change
  <2>2. s \in retained
    BY <2>1 DEF Inv, LogInv, PrunedAreOld, Unlimited
  <2>3. s \in Young(now)
    BY <2>2 DEF Young
  <2>4. PICK first \in Young(now) : first <= s /\ pos = first - 1
    BY <2>3 DEF changeBegin
  <2> QED BY <2>1, <2>2, <2>4 DEF Young, Inv, TypeOK
<1> QED BY <1>1, Invariance, PTL

\* A row of T that pruneChanges drops is past its deadline or its chain's cap.
LEMMA PrunedTokenExpired ==
    ASSUME NEW T, NEW u \in T, u \in Token, NEW now \in CallTimes, clock \in Nat,
           u \notin PrunedTokens(T, now)
    PROVE  clock > u.issued + Retention \/ clock > u.start + 2 * Retention
<1>1. /\ now \in Nat /\ now <= clock
      /\ u.issued \in Nat /\ u.start \in Nat /\ Retention \in Nat
  BY RetentionAssumption DEF CallTimes, Token
<1>2. ~(u.issued >= now - Retention /\ u.start >= now - 2 * Retention)
  BY DEF PrunedTokens
<1> QED BY <1>1, <1>2

\* A cursor row that a step removes was past its own deadline or its chain's cap,
\* or was renewed: pruneChanges deletes nothing resolveCursorToken would accept.
THEOREM ValidCursorsAreKept == Spec => TokenKeptWhileValid
<1> DEFINE Kept(t) == \/ \E u \in tokens' : /\ u.issued >= t.issued
                                            /\ u = [t EXCEPT !.issued = u.issued]
                      \/ clock > t.issued + Retention
                      \/ clock > t.start + 2 * Retention
<1>1. ASSUME Inv, [Next]_vars, NEW t \in tokens PROVE Kept(t)
  <2>1. /\ t \in Token /\ t.issued \in Nat /\ t.start \in Nat /\ clock \in Nat
        /\ t = [t EXCEPT !.issued = t.issued] /\ Retention \in Nat
    BY <1>1, RetentionAssumption DEF Inv, TypeOK, Token
  <2>2. CASE t \in tokens'
    BY <2>1, <2>2
  <2>3. ASSUME NEW now \in CallTimes, NEW T, t \in T, tokens' = PrunedTokens(T, now)
        PROVE  Kept(t)
    BY <2>1, <2>2, <2>3, PrunedTokenExpired
  <2>4. ASSUME NEW f \in Feeds, NEW sc \in Scopes, SinceHead(f, sc) \/ SinceBegin(f, sc)
        PROVE  Kept(t)
    BY <2>3, <2>4 DEF SinceHead, SinceBegin, AnswerFrom
  <2>5. ASSUME NEW f \in Feeds, NEW sc \in Scopes, NEW r \in tokens, SinceToken(r, f, sc)
        PROVE  Kept(t)
    <3>0. PICK now \in CallTimes : \E minted :
            tokens' = PrunedTokens((tokens \ {r}) \cup {Refreshed(r, now)} \cup minted, now)
      BY <2>5 DEF SinceToken, AnswerFrom
    <3>1. PICK minted :
            tokens' = PrunedTokens((tokens \ {r}) \cup {Refreshed(r, now)} \cup minted, now)
      BY <3>0
    <3>2. CASE t # r
      BY <2>3, <3>1, <3>2
    <3>3. CASE t = r
      <4> DEFINE u == Refreshed(r, now)
      <4>1. /\ now \in Nat /\ u \in Token /\ u.issued \in Nat /\ u.issued >= t.issued
            /\ u.start = t.start /\ u = [t EXCEPT !.issued = u.issued]
            /\ u.issued = t.issued \/ u.issued = now
        BY <2>1, <3>3 DEF Refreshed, Token, CallTimes
      <4>2. CASE u \in tokens'
        BY <4>1, <4>2
      <4>3. CASE u \notin tokens'
        <5>1. clock > u.issued + Retention \/ clock > u.start + 2 * Retention
          BY <2>1, <3>1, <4>1, <4>3, PrunedTokenExpired
        <5> QED BY <2>1, <4>1, <5>1
      <4> QED BY <4>2, <4>3
    <3> QED BY <3>2, <3>3
  <2>6. CASE tokens' = tokens
    BY <2>1, <2>2, <2>6
  <2> QED BY <1>1, <2>4, <2>5, <2>6
          DEF Next, Tick, DropTable, CreateTable, CommitWrite, vars
<1>2. Inv /\ [Next]_vars => [\A t \in tokens : Kept(t)]_vars
  BY <1>1
<1> QED BY <1>2, Invariance, PTL DEF Spec, TokenKeptWhileValid
=============================================================================
