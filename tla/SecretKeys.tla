----------------------------- MODULE SecretKeys -----------------------------
(***************************************************************************)
(* Secret fields and the rotation of their key (internal/secret,           *)
(* internal/api/rotate_secret.go, and RotateSecrets of the three engines). *)
(* A stored secret is sealed under the key that was active when it was     *)
(* written and names that key.  The operator restarts the server with a    *)
(* new active key and the old one among the retired keys, calls            *)
(* rotate_secret_key until the report shows no value under the old key,    *)
(* and restarts without it.                                                *)
(*                                                                         *)
(* A call works through the namespaces, their tables and fields in batches *)
(* of one transaction each; between any two of them, rows are written,     *)
(* fields renamed, tables and namespaces dropped and created, and the      *)
(* server may stop.  A sealed value is modelled by the key it names, and a *)
(* report by the keys it counts values under.                              *)
(***************************************************************************)
EXTENDS Naturals, Sequences, FiniteSets

LOCAL INSTANCE SequencesExt
LOCAL INSTANCE Functions
LOCAL INSTANCE TLC

CONSTANTS
  SecKeys,       \* the keys, in the order in which they become active
  SecNamespaces, SecTables,
  SecFields,     \* names of secret fields; a column keeps its first name
  SecFirst,      \* the fields of a new table
  SecIds,        \* row ids
  SecCallers,    \* rotation calls that may overlap
  SecScenes      \* engine, limit and batch of a call, and the budget of
                 \* everything else that happens

ASSUME SecAssumption ==
  /\ SecKeys \in Seq(STRING \ {"none"}) /\ SecKeys # <<>>
  /\ SecFirst \subseteq SecFields
  /\ \A s \in SecScenes : s.engine \in {"sqlite", "postgres", "lakehouse"} /\ s.batch \in Nat \ {0}

VARIABLES
  secRing,    \* Keyring: the active key, the retired ones
  secDb,      \* namespaces and their tables
  secCall,    \* what each rotation call is doing
  secReport,  \* the keys of the last report since the active key changed
  secEarly,   \* keys the operator took out without waiting for a report
  secLeft     \* what is left of the scene

secVars == <<secRing, secDb, secCall, secReport, secEarly, secLeft>>

NoSecKey == "none"      \* what a text that was never sealed shows for a key
NoReport == [given |-> FALSE, keys |-> {}]
SecIdle == [at |-> "idle"]

Configured == {secRing.active} \cup secRing.retired

\* The columns of a table's secret fields and the sealed values in them.
NewSecTable(g) ==
  [gen |-> g, version |-> 1, cols |-> [f \in SecFirst |-> f], vals |-> [x \in {} |-> ""]]

TablesOf(n) == DOMAIN secDb[n].tables
SecHas(n, t) == t \in TablesOf(n)

SecInside(n) == \E c \in SecCallers : secCall[c].at # "idle" /\ secCall[c].ns = n
SecLocked(n) == secLeft.engine = "lakehouse" /\ SecInside(n)

\* The handle that a call on SQLite opened is closed by a drop of the namespace,
\* which waits for the connection of a query in progress and for nothing else.
SecClosed(r) == secLeft.engine = "sqlite" /\ secDb[r.ns].gen # r.handle

SetTable(n, t, tab) == secDb' = [secDb EXCEPT ![n].tables = (t :> tab) @@ @]
SecSpend(f) == secLeft' = [secLeft EXCEPT ![f] = @ - 1]

(***************************************************************************)
(* The other requests, one transaction each.  The lakehouse runs a whole   *)
(* rotation of a namespace under its lock.                                 *)
(***************************************************************************)
SealSecret(k) == k.active

secWrite(n, t, i, f) ==
  /\ secLeft.writes > 0 /\ ~SecLocked(n)
  /\ SecHas(n, t) /\ f \in DOMAIN secDb[n].tables[t].cols
  /\ LET tab == secDb[n].tables[t]
     IN SetTable(n, t, [tab EXCEPT !.vals = (<<i, tab.cols[f]>> :> SealSecret(secRing)) @@ @])
  /\ SecSpend("writes")
  /\ UNCHANGED <<secRing, secCall, secReport, secEarly>>

secRename(n, t, from, to) ==
  /\ secLeft.renames > 0 /\ ~SecLocked(n)
  /\ SecHas(n, t)
  /\ LET tab == secDb[n].tables[t]
     IN /\ from \in DOMAIN tab.cols /\ to \notin DOMAIN tab.cols
        /\ SetTable(n, t, [tab EXCEPT !.version = @ + 1,
                             !.cols = (to :> @[from]) @@ Restrict(@, DOMAIN @ \ {from})])
  /\ SecSpend("renames")
  /\ UNCHANGED <<secRing, secCall, secReport, secEarly>>

secDropTable(n, t) ==
  /\ secLeft.drops > 0 /\ ~SecLocked(n)
  /\ SecHas(n, t)
  /\ secDb' = [secDb EXCEPT ![n].tables = Restrict(@, DOMAIN @ \ {t}), ![n].next = @ + 1]
  /\ SecSpend("drops")
  /\ UNCHANGED <<secRing, secCall, secReport, secEarly>>

secCreateTable(n, t) ==
  /\ ~SecLocked(n) /\ ~SecHas(n, t)
  /\ secLeft.creates > 0
  /\ secDb' = [secDb EXCEPT ![n].there = TRUE, ![n].tables = (t :> NewSecTable(secDb[n].next)) @@ @]
  /\ SecSpend("creates")
  /\ UNCHANGED <<secRing, secCall, secReport, secEarly>>

secDropNamespace(n) ==
  /\ secLeft.nsDrops > 0 /\ ~SecLocked(n)
  /\ secDb[n].there
  /\ secDb' = [secDb EXCEPT ![n] = [there |-> FALSE, gen |-> @.gen + 1, next |-> 1, tables |-> [t \in {} |-> 0]]]
  /\ SecSpend("nsDrops")
  /\ UNCHANGED <<secRing, secCall, secReport, secEarly>>

(***************************************************************************)
(* The operator.  A restart ends the calls that run.                       *)
(***************************************************************************)
SecRestart(ring) == secRing' = ring /\ secCall' = [c \in SecCallers |-> SecIdle]

secActivate ==
  /\ secLeft.next <= Len(SecKeys)
  /\ SecRestart([active |-> SecKeys[secLeft.next], retired |-> secRing.retired \cup {secRing.active}])
  /\ secLeft' = [secLeft EXCEPT !.next = @ + 1]
  /\ secReport' = NoReport
  /\ UNCHANGED <<secDb, secEarly>>

\* Steps 3 and 4: once a report is done, which is that no value is under another
\* key than the active one, and shows no values under the old key.
secRetire(k) ==
  /\ k \in secRing.retired
  /\ secReport.given /\ secReport.keys \subseteq {secRing.active}
  /\ SecRestart([secRing EXCEPT !.retired = @ \ {k}])
  /\ UNCHANGED <<secDb, secReport, secEarly, secLeft>>

secRemoveEarly(k) ==
  /\ secLeft.early > 0 /\ k \in secRing.retired
  /\ SecRestart([secRing EXCEPT !.retired = @ \ {k}])
  /\ secEarly' = secEarly \cup {k}
  /\ SecSpend("early")
  /\ UNCHANGED <<secDb, secReport>>

secAddBack(k) ==
  /\ k \in secEarly
  /\ SecRestart([secRing EXCEPT !.retired = @ \cup {k}])
  /\ secEarly' = secEarly \ {k}
  /\ UNCHANGED <<secDb, secReport, secLeft>>

secCrash ==
  /\ secLeft.crashes > 0 /\ \E c \in SecCallers : secCall[c].at # "idle"
  /\ SecRestart(secRing)
  /\ SecSpend("crashes")
  /\ UNCHANGED <<secDb, secReport, secEarly>>

(***************************************************************************)
(* rotate_secret_key without a namespace.                                  *)
(***************************************************************************)
SecAt(c, at) == secCall[c].at = at
SecGo(c, r) == secCall' = [secCall EXCEPT ![c] = r]

\* An error ends the call without a report.
SecFails(c) == SecGo(c, SecIdle) /\ UNCHANGED secDb

\* What an engine reports as not found ends its turn: the call goes on with
\* the next namespace, and nothing of this one is in the report.
SecNextNamespace(r) == [r EXCEPT !.at = "namespaces", !.ns = "", !.tabs = <<>>, !.counted = {}, !.inNs = 0]
SkipNamespace(c) == SecGo(c, SecNextNamespace(secCall[c])) /\ UNCHANGED secDb

rotateSecretKeyOp(c) ==
  /\ SecAt(c, "idle") /\ c \in secLeft.callers /\ secLeft.calls > 0
  /\ SecGo(c, [at |-> "namespaces", nss |-> SetToSeq({n \in SecNamespaces : secDb[n].there}),
               ns |-> "", handle |-> 0, tabs |-> <<>>, table |-> "", state |-> <<>>, fields |-> <<>>,
               rotated |-> 0, inNs |-> 0, counted |-> {}, keys |-> {}])
  /\ SecSpend("calls")
  /\ UNCHANGED <<secRing, secDb, secReport, secEarly>>

\* RotateSecrets reads the tables once: SQLite and the lakehouse their schemas
\* too, PostgreSQL their names.
secRotateNamespace(c) ==
  LET r == secCall[c]
      n == Head(r.nss)
      names == SetToSeq({t \in TablesOf(n) : DOMAIN secDb[n].tables[t].cols # {}})
      gone == [r EXCEPT !.nss = Tail(@)]
  IN /\ SecAt(c, "namespaces") /\ r.nss # <<>> /\ ~SecLocked(n)
     /\ \/ /\ ~secDb[n].there
           /\ SecGo(c, gone)
        \/ /\ secDb[n].there
           /\ SecGo(c, [gone EXCEPT !.at = "tables", !.ns = n, !.handle = secDb[n].gen, !.inNs = 0, !.counted = {},
                !.tabs = [i \in DOMAIN names |-> <<names[i], secDb[n].tables[names[i]]>>]])
     /\ UNCHANGED <<secRing, secDb, secReport, secEarly, secLeft>>

KeysIn(tab, columns) == {tab.vals[x] : x \in {y \in DOMAIN tab.vals : y[2] \in columns}}
CheckRotationKeys(keys) == keys \subseteq Configured

\* Whether the engine still finds the table that a schema was read of: SQLite by
\* its name, the others by its generation.
Resolved(r, t, state) ==
  /\ SecHas(r.ns, t) /\ ~SecClosed(r)
  /\ secLeft.engine # "sqlite" => secDb[r.ns].tables[t].gen = state.gen

\* SQLite looks a field's name up in the columns of now, and reads a quoted name
\* that is no column's as a string: the same value in every row, which no key has
\* sealed.  The others keep the columns they resolved.
Literal(tab, f) == secLeft.engine = "sqlite" /\ f \notin DOMAIN tab.cols
ColumnOf(tab, state, f) == IF secLeft.engine = "sqlite" THEN tab.cols[f] ELSE state.cols[f]

FieldKeys(tab, state, f) ==
  IF Literal(tab, f) THEN {NoSecKey : x \in DOMAIN tab.vals}
  ELSE KeysIn(tab, {ColumnOf(tab, state, f)})

\* The count before a table, and whether its keys are configured.
secRotateTable(c) ==
  LET r == secCall[c]
      t == Head(r.tabs)[1]
      state == IF secLeft.engine = "postgres" /\ SecHas(r.ns, t)
               THEN secDb[r.ns].tables[t] ELSE Head(r.tabs)[2]
      keys == UNION {FieldKeys(secDb[r.ns].tables[t], state, f) : f \in DOMAIN state.cols}
  IN /\ SecAt(c, "tables") /\ r.tabs # <<>>
     /\ \/ secLeft.engine = "postgres" /\ ~SecHas(r.ns, t) /\ SkipNamespace(c)
        \/ secLeft.engine # "postgres" /\ ~Resolved(r, t, state) /\ SecFails(c)
        \/ /\ Resolved(r, t, state) /\ CheckRotationKeys(keys)
           /\ SecGo(c, [r EXCEPT !.at = "batch", !.tabs = Tail(@), !.table = t, !.state = state @@ [nsGen |-> secDb[r.ns].gen],
                                 !.fields = SetToSeq(DOMAIN state.cols)])
           /\ UNCHANGED secDb
        \/ Resolved(r, t, state) /\ ~CheckRotationKeys(keys) /\ SecFails(c)
     /\ UNCHANGED <<secRing, secReport, secEarly, secLeft>>

\* RotateOpts.Stop: the limit is reached or half the time is over.
Stop(r) == r.rotated + r.inNs >= secLeft.limit
Batch(r) == IF secLeft.limit - (r.rotated + r.inNs) < secLeft.batch
            THEN secLeft.limit - (r.rotated + r.inNs) ELSE secLeft.batch

\* Seeded fault: the fields of a table are not counted again after its batches.
NextFieldUncounted(r) ==
  [r EXCEPT !.at = IF Tail(r.fields) = <<>> THEN "tables" ELSE @, !.fields = Tail(@)]

NextField(r) ==
  IF Tail(r.fields) = <<>>
  THEN [r EXCEPT !.at = "count", !.fields = SetToSeq(DOMAIN r.state.cols)]
  ELSE [r EXCEPT !.fields = Tail(@)]

stopField(c) ==
  /\ SecAt(c, "batch")
  /\ Stop(secCall[c]) \/ secLeft.timeouts > 0
  /\ secLeft' = IF Stop(secCall[c]) THEN secLeft ELSE [secLeft EXCEPT !.timeouts = @ - 1]
  /\ SecGo(c, NextField(secCall[c]))
  /\ UNCHANGED <<secRing, secDb, secReport, secEarly>>

\* The rows of one column under another key than the active one.
OldValues(tab, column) ==
  {x \in DOMAIN tab.vals : x[2] = column /\ tab.vals[x] # secRing.active}

\* Reseal: the values of a batch, opened and sealed under the active key.
Resealed(tab, b) == [tab EXCEPT !.vals = [x \in b |-> secRing.active] @@ @]

\* One transaction.  PostgreSQL leaves a table alone that has another
\* incarnation than the one it read.
rotateBatch(c) ==
  LET r == secCall[c]
      f == Head(r.fields)
      tab == secDb[r.ns].tables[r.table]
      old == IF Literal(tab, f) THEN DOMAIN tab.vals ELSE OldValues(tab, ColumnOf(tab, r.state, f))
      pg == secLeft.engine = "postgres"
      missing == SecClosed(r) \/ ~SecHas(r.ns, r.table) \/ (pg /\ secDb[r.ns].gen # r.state.nsGen)
      unsealed == Literal(tab, f) /\ old # {}
      moved == pg /\ (tab.gen # r.state.gen \/ tab.version # r.state.version)
  IN /\ SecAt(c, "batch") /\ ~Stop(r)
     /\ \/ missing /\ pg /\ SkipNamespace(c)
        \/ missing /\ ~pg /\ SecFails(c)
        \/ ~missing /\ unsealed /\ SecFails(c)
        \/ /\ ~missing /\ ~unsealed /\ (moved \/ old = {})
           /\ SecGo(c, NextField(r))
           /\ UNCHANGED secDb
        \/ /\ ~missing /\ ~unsealed /\ ~moved /\ old # {}
           /\ \E b \in SUBSET old :
                /\ b # {} /\ Cardinality(b) <= Batch(r) /\ (Cardinality(b) < Batch(r) => b = old)
                /\ \/ /\ CheckRotationKeys({tab.vals[x] : x \in b})
                      /\ SetTable(r.ns, r.table, Resealed(tab, b))
                      /\ SecGo(c, [r EXCEPT !.inNs = @ + Cardinality(b)])
                   \/ ~CheckRotationKeys({tab.vals[x] : x \in b}) /\ SecFails(c)
     /\ UNCHANGED <<secRing, secReport, secEarly, secLeft>>

\* The count after a table: a query per field, except in the lakehouse.
secretKeyCounts(c) ==
  LET r == secCall[c]
  IN FieldKeys(secDb[r.ns].tables[r.table], r.state, Head(r.fields))

secCount(c) ==
  LET r == secCall[c]
      found == Resolved(r, r.table, r.state) /\ secDb[r.ns].gen = r.state.nsGen
      noNamespace == secLeft.engine = "postgres" /\ ~secDb[r.ns].there
      counted == [r EXCEPT !.counted = @ \cup secretKeyCounts(c)]
  IN /\ SecAt(c, "count")
     /\ \/ noNamespace /\ SkipNamespace(c)
        \/ ~found /\ ~noNamespace /\ SecFails(c)
        \/ /\ found
           /\ SecGo(c, IF Tail(r.fields) = <<>> THEN [counted EXCEPT !.at = "tables", !.fields = <<>>]
                       ELSE [counted EXCEPT !.fields = Tail(@)])
           /\ UNCHANGED secDb
     /\ UNCHANGED <<secRing, secReport, secEarly, secLeft>>

secRotatedNamespace(c) ==
  LET r == secCall[c]
  IN /\ SecAt(c, "tables") /\ r.tabs = <<>>
     /\ SecGo(c, SecNextNamespace([r EXCEPT !.keys = @ \cup r.counted, !.rotated = @ + r.inNs]))
     /\ UNCHANGED <<secRing, secDb, secReport, secEarly, secLeft>>

secReported(c) ==
  /\ SecAt(c, "namespaces") /\ secCall[c].nss = <<>>
  /\ secReport' = [given |-> TRUE, keys |-> secCall[c].keys]
  /\ SecGo(c, SecIdle)
  /\ UNCHANGED <<secRing, secDb, secEarly, secLeft>>

SecInit ==
  /\ secRing = [active |-> SecKeys[1], retired |-> {}]
  /\ secDb = [n \in SecNamespaces |->
       [there |-> TRUE, gen |-> 1, next |-> 1, tables |-> [t \in SecTables |-> NewSecTable(1)]]]
  /\ secCall = [c \in SecCallers |-> SecIdle]
  /\ secReport = NoReport /\ secEarly = {}
  /\ secLeft \in {[s EXCEPT !.next = 2] : s \in SecScenes}

SecNext ==
  \/ \E n \in SecNamespaces, t \in SecTables :
       \/ \E i \in SecIds, f \in SecFields : secWrite(n, t, i, f)
       \/ \E f, g \in SecFields : secRename(n, t, f, g)
       \/ secDropTable(n, t) \/ secCreateTable(n, t)
  \/ \E n \in SecNamespaces : secDropNamespace(n)
  \/ secActivate \/ secCrash
  \/ \E k \in Range(SecKeys) : secRetire(k) \/ secRemoveEarly(k) \/ secAddBack(k)
  \/ \E c \in SecCallers :
       \/ rotateSecretKeyOp(c) \/ secRotateNamespace(c) \/ secRotateTable(c) \/ stopField(c)
       \/ rotateBatch(c) \/ secCount(c) \/ secRotatedNamespace(c) \/ secReported(c)

SecSpec == SecInit /\ [][SecNext]_secVars

(***************************************************************************)
(* Properties.                                                             *)
(***************************************************************************)
\* An operator who takes a key out only after a report of the whole server
\* showed no value under it never loses a secret: every stored value is under
\* a configured key, whatever was written, renamed, dropped or interrupted
\* while the calls ran.
SecOpen ==
  \A n \in SecNamespaces : \A t \in TablesOf(n) :
    Range(secDb[n].tables[t].vals) \subseteq Configured \cup secEarly

=============================================================================
