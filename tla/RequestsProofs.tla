--------------------------- MODULE RequestsProofs ---------------------------
(***************************************************************************)
(* What a request decided about one incarnation of a table is not done to  *)
(* another, for any number of clients, grants, keys and operations.         *)
(*                                                                          *)
(* The argument: incarnations never come back.  An incarnation that a       *)
(* request resolved, or a dry run planned for, is the table's as long as     *)
(* the table has not changed, and afterwards it has passed: no table to come *)
(* has it.  So a comparison with the present incarnation in the engine's      *)
(* transaction tells the two apart, and a scope of all rows that survives it  *)
(* was given by a caller's verbs on this very table.                         *)
(***************************************************************************)
EXTENDS Requests, TLAPS

-----------------------------------------------------------------------------
(* The registry of grants and keys.  Each of its operations checks who would *)
(* remain before it writes; what has to be shown is that the check is about  *)
(* the registry after the write, for every registry.                         *)

\* A set of administrators that grows, and keys that grow, reach the root as
\* before (rootReachableByKey).
LEMMA MoreReachMore ==
    ASSUME NEW as, NEW bs, NEW ks, NEW js, as \subseteq bs, ks \subseteq js,
           rootReachableByKey(as, ks)
    PROVE  rootReachableByKey(bs, js)
  BY DEF rootReachableByKey

\* The root stays administrable when neither an administrator's grant nor a
\* live key is taken away (Grant, CreateKey and the drops of objects below
\* the root).
LEMMA NothingTaken ==
    ASSUME RootReachable, rootAdmins(grants) \subseteq rootAdmins(grants'),
           activeKeys \subseteq activeKeys'
    PROVE  RootReachable'
  <1>1. CASE AdminKey
    BY <1>1 DEF RootReachable
  <1>2. CASE rootAdmins(grants) \cap Reachable # {}
    BY <1>2 DEF RootReachable
  <1>3. CASE rootReachableByKey(rootAdmins(grants), activeKeys)
    <2>1. rootReachableByKey(rootAdmins(grants'), activeKeys')
      BY <1>3, MoreReachMore
    <2> QED BY <2>1 DEF RootReachable
  <1> QED BY <1>1, <1>2, <1>3 DEF RootReachable

\* What a step does to the call of its client.
LEMMA CallChanges ==
    ASSUME RegistryTypeOK, NEW c \in Clients, NEW r, calling' = [calling EXCEPT ![c] = r]
    PROVE  /\ calling'[c] = r /\ calling' = [d \in Clients |-> calling'[d]]
           /\ \A d \in Clients \ {c} : calling'[d] = calling[d]
  BY DEF RegistryTypeOK

\* The records of calls.
LEMMA GrantCall ==
    ASSUME NEW op, NEW at, NEW s, NEW o, NEW vs
    PROVE  OfGrant(op, at, s, o, vs) = [op |-> op, at |-> at, of |-> <<s, o>>, row |-> vs,
                                        found |-> lookup(s, o) # {}, admins |-> {}, seen |-> {}]
  <1>1. PICK q : q = OfGrant(op, at, s, o, vs)
    OBVIOUS
  <1>2. q = [op |-> op, at |-> at, of |-> <<s, o>>, row |-> vs, found |-> lookup(s, o) # {}, admins |-> {}, seen |-> {}]
    BY <1>1 DEF OfGrant, Out
  <1> QED BY <1>1, <1>2

LEMMA KeyCall ==
    ASSUME NEW at, NEW k
    PROVE  [Out EXCEPT !.op = "revoke_key", !.at = at, !.of = <<k>>]
           = [op |-> "revoke_key", at |-> at, of |-> <<k>>, row |-> {}, found |-> FALSE, admins |-> {}, seen |-> {}]
  <1>1. PICK q : q = [Out EXCEPT !.op = "revoke_key", !.at = at, !.of = <<k>>]
    OBVIOUS
  <1>2. q = [op |-> "revoke_key", at |-> at, of |-> <<k>>, row |-> {}, found |-> FALSE, admins |-> {}, seen |-> {}]
    BY <1>1 DEF Out
  <1> QED BY <1>1, <1>2

LEMMA AtCall ==
    ASSUME NEW r, CallTypeOK(r), NEW at
    PROVE  [r EXCEPT !.at = at]
           = [op |-> r.op, at |-> at, of |-> r.of, row |-> r.row, found |-> r.found, admins |-> r.admins, seen |-> r.seen]
  <1>1. PICK q : q = [r EXCEPT !.at = at]
    OBVIOUS
  <1>2. q = [op |-> r.op, at |-> at, of |-> r.of, row |-> r.row, found |-> r.found, admins |-> r.admins, seen |-> r.seen]
    BY <1>1 DEF CallTypeOK
  <1> QED BY <1>1, <1>2

LEMMA AdminsCall ==
    ASSUME NEW r, CallTypeOK(r), NEW at, NEW admins
    PROVE  [r EXCEPT !.at = at, !.admins = admins]
           = [op |-> r.op, at |-> at, of |-> r.of, row |-> r.row, found |-> r.found, admins |-> admins, seen |-> r.seen]
  <1>1. PICK q : q = [r EXCEPT !.at = at, !.admins = admins]
    OBVIOUS
  <1>2. q = [op |-> r.op, at |-> at, of |-> r.of, row |-> r.row, found |-> r.found, admins |-> admins, seen |-> r.seen]
    BY <1>1 DEF CallTypeOK
  <1> QED BY <1>1, <1>2

LEMMA SeenCall ==
    ASSUME NEW r, CallTypeOK(r), NEW at, NEW seen
    PROVE  [r EXCEPT !.at = at, !.seen = seen]
           = [op |-> r.op, at |-> at, of |-> r.of, row |-> r.row, found |-> r.found, admins |-> r.admins, seen |-> seen]
  <1>1. PICK q : q = [r EXCEPT !.at = at, !.seen = seen]
    OBVIOUS
  <1>2. q = [op |-> r.op, at |-> at, of |-> r.of, row |-> r.row, found |-> r.found, admins |-> r.admins, seen |-> seen]
    BY <1>1 DEF CallTypeOK
  <1> QED BY <1>1, <1>2

\* The call begins with one that has the types.
LEMMA FirstTypes ==
    ASSUME NEW op \in OnGrant, NEW at, NEW s \in Subjects, NEW o \in Objects, NEW vs \in SUBSET Verbs
    PROVE  CallTypeOK(OfGrant(op, at, s, o, vs)) /\ CallTypeOK(Out)
  <1>1. OfGrant(op, at, s, o, vs)
        = [op |-> op, at |-> at, of |-> <<s, o>>, row |-> vs, found |-> lookup(s, o) # {}, admins |-> {}, seen |-> {}]
    BY GrantCall
  <1>2. CallTypeOK(OfGrant(op, at, s, o, vs))
    BY <1>1 DEF CallTypeOK, OnGrant
  <1>3. CallTypeOK(Out)
    BY DEF CallTypeOK, Out, OnGrant
  <1> QED BY <1>2, <1>3

LEMMA OutTypes == CallTypeOK(Out)
  BY DEF CallTypeOK, Out, OnGrant

LEMMA KeyTypes ==
    ASSUME NEW k \in Keys, NEW at
    PROVE  CallTypeOK([Out EXCEPT !.op = "revoke_key", !.at = at, !.of = <<k>>])
  <1>1. [Out EXCEPT !.op = "revoke_key", !.at = at, !.of = <<k>>]
        = [op |-> "revoke_key", at |-> at, of |-> <<k>>, row |-> {}, found |-> FALSE, admins |-> {}, seen |-> {}]
    BY KeyCall
  <1> QED BY <1>1 DEF CallTypeOK, OnGrant

\* A statement that reads leaves the call's types.
LEMMA NextTypes ==
    ASSUME NEW r, CallTypeOK(r), NEW at, NEW admins, NEW seen \in SUBSET Keys
    PROVE  /\ CallTypeOK([r EXCEPT !.at = at])
           /\ CallTypeOK([r EXCEPT !.at = at, !.admins = admins])
           /\ CallTypeOK([r EXCEPT !.at = at, !.seen = seen])
  <1>1. [r EXCEPT !.at = at] = [op |-> r.op, at |-> at, of |-> r.of, row |-> r.row, found |-> r.found,
                                admins |-> r.admins, seen |-> r.seen]
    BY AtCall
  <1>2. [r EXCEPT !.at = at, !.admins = admins] = [op |-> r.op, at |-> at, of |-> r.of, row |-> r.row,
                                                  found |-> r.found, admins |-> admins, seen |-> r.seen]
    BY AdminsCall
  <1>3. [r EXCEPT !.at = at, !.seen = seen] = [op |-> r.op, at |-> at, of |-> r.of, row |-> r.row,
                                              found |-> r.found, admins |-> r.admins, seen |-> seen]
    BY SeenCall
  <1> QED BY <1>1, <1>2, <1>3 DEF CallTypeOK

LEMMA ProceedTypes ==
    ASSUME RegistryTypeOK, NEW c \in Clients, NEW r, CallTypeOK(r), Proceed(c, r)
    PROVE  RegistryTypeOK'
  <1>1. calling' = [calling EXCEPT ![c] = r] /\ grants' = grants /\ keys' = keys
    BY DEF Proceed
  <1> QED BY <1>1, CallChanges DEF RegistryTypeOK

\* Every operation keeps the types.
LEMMA TypesStay ==
    ASSUME RegistryTypeOK, [RegistryNext]_registry
    PROVE  RegistryTypeOK'
  <1> USE RegistryAssumption
  <1>1. ASSUME NEW c \in Clients, NEW s \in Subjects, NEW o \in Objects, NEW vs \in SUBSET Verbs,
               Grant(c, s, o, vs) \/ Revoke(c, s, o, vs)
        PROVE  RegistryTypeOK'
    <2>1. lookup(s, o) \cup vs \in SUBSET Verbs /\ lookup(s, o) \ vs \in SUBSET Verbs
      BY DEF lookup
    <2>2. ASSUME NEW op \in OnGrant, NEW at, NEW ws \in SUBSET Verbs, Proceed(c, OfGrant(op, at, s, o, ws))
          PROVE  RegistryTypeOK'
      BY <2>2, FirstTypes, ProceedTypes
    <2>3. CASE Proceed(c, Out)
      BY <2>3, OutTypes, ProceedTypes
    <2>4. CASE Grant(c, s, o, vs)
      BY <2>1, <2>2, <2>3, <2>4 DEF Grant, OnGrant
    <2>5. CASE Revoke(c, s, o, vs)
      BY <2>1, <2>2, <2>3, <2>5 DEF Revoke, OnGrant
    <2> QED BY <1>1, <2>4, <2>5
  <1>2. ASSUME NEW c \in Clients, NEW k \in Keys, RevokeKey(c, k)
        PROVE  RegistryTypeOK'
    <2>1. \E r : Proceed(c, r) /\ (r = Out \/ \E at : r = [Out EXCEPT !.op = "revoke_key", !.at = at, !.of = <<k>>])
      BY <1>2 DEF RevokeKey
    <2> QED BY <2>1, KeyTypes, OutTypes, ProceedTypes
  <1>3. ASSUME NEW c \in Clients, rootAdminsLocked(c) \/ activeKeysLocked(c) \/ CallFails(c)
        PROVE  RegistryTypeOK'
    <2>1. CallTypeOK(calling[c]) /\ countedKeys(c) \in SUBSET Keys
      BY DEF RegistryTypeOK, countedKeys, activeKeys
    <2>2. CASE rootAdminsLocked(c)
      <3> DEFINE r == calling[c]
                 admins == IF r.op = "revoke" THEN rootAdmins(grants) \ {r.of[1]} ELSE rootAdmins(grants)
      <3>1. \/ Proceed(c, Out) \/ Proceed(c, [r EXCEPT !.at = "write"])
            \/ Proceed(c, [r EXCEPT !.at = "keys", !.admins = admins])
        BY <2>2 DEF rootAdminsLocked
      <3>2. CallTypeOK([r EXCEPT !.at = "write"])
        BY <2>1, NextTypes
      <3>3. CallTypeOK([r EXCEPT !.at = "keys", !.admins = admins])
        BY <2>1, NextTypes
      <3>4. PICK p, q : p = [r EXCEPT !.at = "write"] /\ q = [r EXCEPT !.at = "keys", !.admins = admins]
        OBVIOUS
      <3>5. CallTypeOK(p) /\ CallTypeOK(q) /\ (Proceed(c, Out) \/ Proceed(c, p) \/ Proceed(c, q))
        BY <3>1, <3>2, <3>3, <3>4
      <3> QED BY <3>5, OutTypes, ProceedTypes
    <2>3. CASE activeKeysLocked(c)
      <3>1. Proceed(c, Out) \/ Proceed(c, [calling[c] EXCEPT !.at = "write", !.seen = countedKeys(c)])
        BY <2>3 DEF activeKeysLocked
      <3> QED BY <2>1, <3>1, NextTypes, OutTypes, ProceedTypes
    <2>4. CASE CallFails(c)
      BY <2>4, OutTypes, ProceedTypes DEF CallFails
    <2> QED BY <1>3, <2>2, <2>3, <2>4
  <1>4. ASSUME NEW c \in Clients, storeGrant(c)
        PROVE  RegistryTypeOK'
    <2>1. calling' = [calling EXCEPT ![c] = Out] /\ keys' = keys
      BY <1>4 DEF storeGrant
    <2>2. calling[c].of \in Subjects \X Objects /\ calling[c].row \subseteq Verbs
      BY <1>4 DEF storeGrant, RegistryTypeOK, CallTypeOK
    <2>3. grants' \subseteq Subjects \X Objects \X Verbs
      BY <1>4, <2>2 DEF storeGrant, WithRow, RegistryTypeOK
    <2> QED BY <2>1, <2>3, CallChanges, OutTypes DEF RegistryTypeOK
  <1>5. ASSUME NEW c \in Clients, storeRevoked(c)
        PROVE  RegistryTypeOK'
    <2>1. calling' = [calling EXCEPT ![c] = Out] /\ grants' = grants
      BY <1>5 DEF storeRevoked
    <2>2. keys' \in [Keys -> {"absent", "live", "revoked", "expired"}]
      BY <1>5 DEF storeRevoked, RegistryTypeOK
    <2> QED BY <2>1, <2>2, CallChanges, OutTypes DEF RegistryTypeOK
  <1>6. ASSUME NEW k \in Keys, ExpireKey(k) \/ \E c \in Clients : CreateKey(c, k)
        PROVE  RegistryTypeOK'
    BY <1>6 DEF CreateKey, ExpireKey, RegistryTypeOK
  <1>7. ASSUME NEW c \in Clients, NEW o \in Objects, DropGrants(c, o)
        PROVE  RegistryTypeOK'
    BY <1>7 DEF DropGrants, RegistryTypeOK
  <1>8. CASE UNCHANGED registry
    BY <1>8 DEF registry, RegistryTypeOK
  <1> QED BY <1>1, <1>2, <1>3, <1>4, <1>5, <1>6, <1>7, <1>8 DEF RegistryNext, Statement

\* The registry keeps its types: every grant is of a known verb to a known
\* subject on a known object.
THEOREM RegistryTypeCorrect == RegistrySpec => []RegistryTypeOK
  <1>1. RegistryInit => RegistryTypeOK
    BY OutTypes DEF RegistryInit, RegistryTypeOK
  <1> QED BY <1>1, TypesStay, PTL DEF RegistrySpec

-----------------------------------------------------------------------------
(***************************************************************************)
(* The last administrator.  A call that counted who remains finds them      *)
(* still there when it writes: with one process the lock keeps every other   *)
(* change away, and only the clock goes on.                                 *)
(***************************************************************************)

\* The administrators that remain for a call r, when the grants are g.
Remaining(r, g) == IF r.op = "revoke" THEN rootAdmins(g) \ {r.of[1]} ELSE rootAdmins(g)

\* The call takes the root's admin verb away.
TakesRoot(r, g) ==
    r.op = "revoke" /\ r.of[2] = Root /\ <<r.of[1], Root, "admin">> \in g /\ "admin" \notin r.row

\* Why the call may write.
May(r, g) ==
    \/ AdminKey
    \/ r.op = "grant" /\ \A v \in Verbs : <<r.of[1], r.of[2], v>> \in g => v \in r.row
    \/ r.op = "revoke" /\ ~TakesRoot(r, g)
    \/ r.op # "grant" /\ Remaining(r, g) \cap Reachable # {}
    \/ r.op = "revoke_key" /\ rootAdmins(g) = {}
    \/ r.op # "grant" /\ rootReachableByKey(Remaining(r, g), r.seen)

CallFits(r, g, ks) ==
    /\ r.at \in {"out", "admins", "keys", "write"}
    /\ r.at # "out" => r.op \in OnGrant \cup {"revoke_key"}
    /\ r.at \in {"admins", "keys"} => r.op # "grant"
    /\ r.at = "keys" => r.admins = Remaining(r, g)
    /\ r.at \in {"admins", "keys"} => r.seen = {}
    /\ r.at = "write" => /\ May(r, g)
                         /\ \A k \in r.seen : ks[k] \in {"live", "expired"} /\ <<k>> # r.of

RegistryInv ==
    /\ RegistryTypeOK
    /\ \A c \in Clients : CallFits(calling[c], grants, keys)
    /\ \A c, d \in Clients : c = d \/ calling[c].at = "out" \/ calling[d].at = "out"

LEMMA OutFits == ASSUME NEW g, NEW ks PROVE CallFits(Out, g, ks) /\ Out.at = "out"
  BY DEF CallFits, Out

\* A call that goes on alone.
LEMMA ProceedFits ==
    ASSUME RegistryInv, NEW c \in Clients, NEW r, CallTypeOK(r), CallFits(r, grants, keys), Proceed(c, r),
           \/ r.at = "out" \/ (\A d \in Clients : d = c \/ calling[d].at = "out")
    PROVE  RegistryInv'
  <1>1. calling' = [calling EXCEPT ![c] = r] /\ grants' = grants /\ keys' = keys
    BY DEF Proceed
  <1>2. /\ calling'[c] = r /\ \A d \in Clients \ {c} : calling'[d] = calling[d]
    BY <1>1, CallChanges DEF RegistryInv
  <1>3. RegistryTypeOK'
    BY ProceedTypes DEF RegistryInv
  <1>4. \A d \in Clients : CallFits(calling[d], grants, keys)'
    BY <1>1, <1>2 DEF RegistryInv
  <1>5. \A b, d \in Clients : b = d \/ calling'[b].at = "out" \/ calling'[d].at = "out"
    BY <1>2 DEF RegistryInv
  <1> QED BY <1>3, <1>4, <1>5 DEF RegistryInv

\* What the lock of the one process keeps out.
LEMMA LockedOut ==
    ASSUME OneProcess, NEW c \in Clients, Unlocked(c)
    PROVE  \A d \in Clients : calling[d].at = "out"
  BY DEF OneProcess, Unlocked

\* A change of grants and keys that no call is waiting for.
LEMMA QuietFits ==
    ASSUME RegistryInv, [RegistryNext]_registry, \A d \in Clients : calling'[d].at = "out"
    PROVE  RegistryInv'
  <1>1. RegistryTypeOK'
    BY TypesStay DEF RegistryInv
  <1>2. \A d \in Clients : CallFits(calling[d], grants, keys)'
    BY DEF CallFits
  <1> QED BY <1>1, <1>2 DEF RegistryInv

LEMMA RevokeFits ==
    ASSUME OneProcess, RegistryInv, NEW c \in Clients, NEW s \in Subjects, NEW o \in Objects, NEW vs \in SUBSET Verbs,
           Grant(c, s, o, vs) \/ Revoke(c, s, o, vs)
    PROVE  RegistryInv'
  <1>1. \A d \in Clients : calling[d].at = "out"
    BY LockedOut DEF Grant, Revoke
  <1>2. ASSUME NEW op \in OnGrant, NEW at, NEW ws
        PROVE  OfGrant(op, at, s, o, ws) = [op |-> op, at |-> at, of |-> <<s, o>>, row |-> ws,
                                            found |-> lookup(s, o) # {}, admins |-> {}, seen |-> {}]
    BY GrantCall
  <1>3. CASE Proceed(c, Out)
    BY <1>3, OutFits, OutTypes, ProceedFits
  <1>4. CASE Proceed(c, OfGrant("grant", "write", s, o, lookup(s, o) \cup vs))
    <2> DEFINE r == OfGrant("grant", "write", s, o, lookup(s, o) \cup vs)
    <2>1. r = [op |-> "grant", at |-> "write", of |-> <<s, o>>, row |-> lookup(s, o) \cup vs,
               found |-> lookup(s, o) # {}, admins |-> {}, seen |-> {}]
      BY <1>2 DEF OnGrant
    <2>2. CallTypeOK(r)
      BY FirstTypes DEF OnGrant, lookup
    <2>3. CallFits(r, grants, keys)
      <3>1. \A v \in Verbs : <<s, o, v>> \in grants => v \in lookup(s, o) \cup vs
        BY DEF lookup
      <3>2. PICK q : q = r
        OBVIOUS
      <3>3. q.op = "grant" /\ q.at = "write" /\ q.of = <<s, o>> /\ q.row = lookup(s, o) \cup vs /\ q.seen = {}
        BY <2>1, <3>2
      <3>4. q.of[1] = s /\ q.of[2] = o
        BY <3>3
      <3>5. May(q, grants)
        BY <3>1, <3>3, <3>4 DEF May
      <3>6. CallFits(q, grants, keys)
        BY <3>3, <3>5 DEF CallFits, OnGrant
      <3> QED BY <3>2, <3>6
    <2> QED BY <1>1, <1>4, <2>2, <2>3, ProceedFits
  <1>5. CASE Revoke(c, s, o, vs) /\ ~Proceed(c, Out)
    <2> DEFINE had == lookup(s, o)
               counts == ~AdminKey /\ o = Root /\ "admin" \in had \cap vs
               r == OfGrant("revoke", IF counts THEN "admins" ELSE "write", s, o, had \ vs)
    <2>1. r = [op |-> "revoke", at |-> IF counts THEN "admins" ELSE "write", of |-> <<s, o>>, row |-> had \ vs,
               found |-> lookup(s, o) # {}, admins |-> {}, seen |-> {}]
      BY <1>2 DEF OnGrant
    <2>2. CallTypeOK(r)
      BY FirstTypes DEF OnGrant, lookup
    <2>3. ASSUME ~counts PROVE May(r, grants)
      <3>1. CASE AdminKey
        BY <3>1 DEF May
      <3>2. CASE ~AdminKey
        <4>1. o = Root /\ <<s, Root, "admin">> \in grants => "admin" \in had \ vs
          BY <2>3, <3>2, RegistryAssumption DEF lookup
        <4>2. ~TakesRoot(r, grants)
          BY <2>1, <4>1 DEF TakesRoot
        <4> QED BY <2>1, <4>2 DEF May
      <3> QED BY <3>1, <3>2
    <2>4. CallFits(r, grants, keys)
      <3>1. r.at = (IF counts THEN "admins" ELSE "write") /\ r.op = "revoke" /\ r.seen = {}
        BY <2>1
      <3>2. r.at = "write" => May(r, grants)
        BY <2>3, <3>1
      <3> HIDE DEF r, counts
      <3> QED BY <3>1, <3>2 DEF CallFits, OnGrant
    <2>5. Proceed(c, r)
      BY <1>5 DEF Revoke
    <2> HIDE DEF r
    <2> QED BY <1>1, <2>2, <2>4, <2>5, ProceedFits
  <1> QED BY <1>3, <1>4, <1>5 DEF Grant, Revoke

LEMMA RevokeKeyFits ==
    ASSUME OneProcess, RegistryInv, NEW c \in Clients, NEW k \in Keys, RevokeKey(c, k)
    PROVE  RegistryInv'
  <1>1. \A d \in Clients : calling[d].at = "out"
    BY LockedOut DEF RevokeKey
  <1>2. CASE Proceed(c, Out)
    BY <1>2, OutFits, OutTypes, ProceedFits
  <1>3. CASE ~Proceed(c, Out)
    <2> DEFINE at == IF AdminKey THEN "write" ELSE "admins"
               r == [Out EXCEPT !.op = "revoke_key", !.at = at, !.of = <<k>>]
    <2>1. Proceed(c, r)
      BY <1>3 DEF RevokeKey
    <2>2. CallTypeOK(r)
      BY KeyTypes
    <2>3. r.op = "revoke_key" /\ r.at = at /\ r.seen = {}
      BY DEF Out
    <2>4. CallFits(r, grants, keys)
      <3> HIDE DEF r
      <3> QED BY <2>3 DEF CallFits, May
    <2> HIDE DEF r
    <2> QED BY <1>1, <2>1, <2>2, <2>4, ProceedFits
  <1> QED BY <1>2, <1>3

\* The two counts.
LEMMA CountFits ==
    ASSUME RegistryInv, NEW c \in Clients, rootAdminsLocked(c) \/ activeKeysLocked(c)
    PROVE  RegistryInv'
  <1> DEFINE r == calling[c]
  <1>1. CallTypeOK(r) /\ CallFits(r, grants, keys)
    BY DEF RegistryInv, RegistryTypeOK
  <1>2. r.at \in {"admins", "keys"} /\ r.op \in {"revoke", "revoke_key"}
    BY <1>1 DEF rootAdminsLocked, activeKeysLocked, CallFits, OnGrant
  <1>3. \A d \in Clients : d = c \/ calling[d].at = "out"
    BY <1>2 DEF RegistryInv
  <1>4. CASE Proceed(c, Out)
    BY <1>4, OutFits, OutTypes, ProceedFits
  <1>5. r = [op |-> r.op, at |-> r.at, of |-> r.of, row |-> r.row, found |-> r.found, admins |-> r.admins, seen |-> r.seen]
    BY <1>1 DEF CallTypeOK
  <1>6. CASE rootAdminsLocked(c) /\ ~Proceed(c, Out)
    <2> DEFINE admins == IF r.op = "revoke" THEN rootAdmins(grants) \ {r.of[1]} ELSE rootAdmins(grants)
    <2>1. admins = Remaining(r, grants) /\ r.at = "admins"
      BY <1>6 DEF Remaining, rootAdminsLocked
    <2>2. CASE /\ Proceed(c, [r EXCEPT !.at = "write"])
               /\ admins \cap Reachable # {} \/ (admins = {} /\ r.op # "revoke")
      <3> DEFINE q == [r EXCEPT !.at = "write"]
      <3>1. q = [op |-> r.op, at |-> "write", of |-> r.of, row |-> r.row, found |-> r.found, admins |-> r.admins, seen |-> r.seen]
        BY <1>1, AtCall
      <3>2. CallTypeOK(q)
        BY <1>1, NextTypes
      <3>3. Remaining(q, grants) = Remaining(r, grants)
        BY <3>1 DEF Remaining
      <3>4. May(q, grants)
        BY <1>2, <2>1, <2>2, <3>1, <3>3 DEF May, Remaining
      <3>5. \A k \in r.seen : keys[k] \in {"live", "expired"} /\ <<k>> # r.of
        BY <1>1, <2>1 DEF CallFits
      <3>6. CallFits(q, grants, keys)
        BY <1>2, <3>1, <3>4, <3>5 DEF CallFits, OnGrant
      <3>7. Proceed(c, q)
        BY <2>2
      <3> HIDE DEF q
      <3> QED BY <1>3, <3>2, <3>6, <3>7, ProceedFits
    <2>3. CASE Proceed(c, [r EXCEPT !.at = "keys", !.admins = admins])
      <3> DEFINE q == [r EXCEPT !.at = "keys", !.admins = admins]
      <3>1. q = [op |-> r.op, at |-> "keys", of |-> r.of, row |-> r.row, found |-> r.found, admins |-> admins, seen |-> r.seen]
        BY <1>1, AdminsCall
      <3>2. CallTypeOK(q)
        BY <1>1, NextTypes
      <3>3. Remaining(q, grants) = Remaining(r, grants)
        BY <3>1 DEF Remaining
      <3>4. CallFits(q, grants, keys)
        <4>1. PICK z : z = q
          OBVIOUS
        <4>2. z.op = r.op /\ z.at = "keys" /\ z.admins = Remaining(z, grants) /\ z.seen = {}
          BY <1>1, <2>1, <3>1, <3>3, <4>1 DEF CallFits
        <4>3. CallFits(z, grants, keys)
          BY <1>2, <4>2 DEF CallFits, OnGrant
        <4> QED BY <4>1, <4>3
      <3>5. Proceed(c, q)
        BY <2>3
      <3> HIDE DEF q
      <3> QED BY <1>3, <3>2, <3>4, <3>5, ProceedFits
    <2> QED BY <1>6, <2>2, <2>3 DEF rootAdminsLocked
  <1>7. CASE activeKeysLocked(c) /\ ~Proceed(c, Out)
    <2> DEFINE q == [r EXCEPT !.at = "write", !.seen = countedKeys(c)]
    <2>1. q = [op |-> r.op, at |-> "write", of |-> r.of, row |-> r.row, found |-> r.found, admins |-> r.admins,
               seen |-> countedKeys(c)]
      BY <1>1, SeenCall
    <2>2. Proceed(c, q) /\ rootReachableByKey(r.admins, countedKeys(c)) /\ r.admins = Remaining(r, grants)
      BY <1>1, <1>7 DEF activeKeysLocked, CallFits
    <2>3. CallTypeOK(q)
      BY <1>1, NextTypes DEF countedKeys, activeKeys
    <2>4. Remaining(q, grants) = Remaining(r, grants)
      BY <2>1 DEF Remaining
    <2>5. May(q, grants)
      <3>1. rootReachableByKey(Remaining(q, grants), q.seen)
        BY <2>1, <2>2, <2>4
      <3> QED BY <1>2, <2>1, <3>1 DEF May
    <2>6. \A k \in countedKeys(c) : keys[k] \in {"live", "expired"} /\ <<k>> # r.of
      <3>1. r.op = "revoke" => r.of \in Subjects \X Objects
        BY <1>1 DEF CallTypeOK, OnGrant
      <3>2. r.op = "revoke_key" => r.of \in {<<k>> : k \in Keys}
        BY <1>1 DEF CallTypeOK
      <3>3. ASSUME NEW k \in countedKeys(c) PROVE <<k>> # r.of
        <4>1. CASE r.op = "revoke"
          BY <3>1, <4>1
        <4>2. CASE r.op = "revoke_key"
          <5>1. r.of[1] # k
            BY <3>3, <4>2 DEF countedKeys
          <5> QED BY <5>1
        <4> QED BY <1>2, <4>1, <4>2
      <3>4. \A k \in countedKeys(c) : keys[k] = "live"
        BY DEF countedKeys, activeKeys
      <3> QED BY <3>3, <3>4
    <2>7. CallFits(q, grants, keys)
      BY <1>2, <2>1, <2>5, <2>6 DEF CallFits, OnGrant
    <2> HIDE DEF q
    <2> QED BY <1>3, <2>2, <2>3, <2>7, ProceedFits
  <1> QED BY <1>4, <1>6, <1>7

LEMMA RegistryStep ==
    ASSUME OneProcess, RegistryInv, [RegistryNext]_registry
    PROVE  RegistryInv'
  <1>1. ASSUME NEW c \in Clients, NEW s \in Subjects, NEW o \in Objects, NEW vs \in SUBSET Verbs,
               Grant(c, s, o, vs) \/ Revoke(c, s, o, vs)
        PROVE  RegistryInv'
    BY <1>1, RevokeFits
  <1>2. ASSUME NEW c \in Clients, NEW k \in Keys, RevokeKey(c, k)
        PROVE  RegistryInv'
    BY <1>2, RevokeKeyFits
  <1>3. ASSUME NEW c \in Clients, rootAdminsLocked(c) \/ activeKeysLocked(c)
        PROVE  RegistryInv'
    BY <1>3, CountFits
  <1>4. ASSUME NEW c \in Clients, CallFails(c)
        PROVE  RegistryInv'
    BY <1>4, OutFits, OutTypes, ProceedFits DEF CallFails
  <1>5. ASSUME NEW c \in Clients, storeGrant(c) \/ storeRevoked(c)
        PROVE  RegistryInv'
    <2>1. calling[c].at = "write" /\ calling' = [calling EXCEPT ![c] = Out]
      BY <1>5 DEF storeGrant, storeRevoked
    <2>2. calling'[c] = Out /\ \A d \in Clients \ {c} : calling'[d] = calling[d]
      BY <2>1, CallChanges DEF RegistryInv
    <2>3. \A d \in Clients : calling'[d].at = "out"
      BY <2>1, <2>2, OutFits DEF RegistryInv
    <2> QED BY <2>3, QuietFits
  <1>6. ASSUME NEW c \in Clients, (\E k \in Keys : CreateKey(c, k)) \/ (\E o \in Objects : DropGrants(c, o))
        PROVE  RegistryInv'
    <2>1. Unlocked(c) /\ calling' = calling
      BY <1>6 DEF CreateKey, DropGrants
    <2> QED BY <2>1, LockedOut, QuietFits
  <1>7. ASSUME NEW k \in Keys, ExpireKey(k)
        PROVE  RegistryInv'
    <2>1. RegistryTypeOK'
      BY TypesStay DEF RegistryInv
    <2>2. grants' = grants /\ calling' = calling /\ \A j \in Keys : keys'[j] = keys[j] \/ keys'[j] = "expired"
      BY <1>7 DEF ExpireKey, RegistryInv, RegistryTypeOK
    <2>3. \A c \in Clients : CallFits(calling[c], grants, keys)'
      BY <2>2 DEF RegistryInv, RegistryTypeOK, CallTypeOK, CallFits
    <2> QED BY <2>1, <2>2, <2>3 DEF RegistryInv
  <1>8. CASE UNCHANGED registry
    BY <1>8 DEF registry, RegistryInv, RegistryTypeOK
  <1> QED BY <1>1, <1>2, <1>3, <1>4, <1>5, <1>6, <1>7, <1>8 DEF RegistryNext, Statement

\* A call that writes, and did not count on a key that has expired since, counted on
\* keys that are live.
LEMMA SeenIsLive ==
    ASSUME RegistryInv, ~Expires, NEW c \in Clients, calling[c].at = "write", calling'[c].at = "out"
    PROVE  calling[c].seen \subseteq activeKeys
  BY DEF RegistryInv, RegistryTypeOK, CallTypeOK, CallFits, Expires, activeKeys

\* A grant that is written keeps an administrator who can be reached.
LEMMA StoreGrantKeepsRoot ==
    ASSUME RegistryInv, NEW c \in Clients, RootReachable, ~Expires, storeGrant(c)
    PROVE  RootReachable'
  <1> DEFINE r == calling[c]
             s == r.of[1]
             o == r.of[2]
  <1>1. r.at = "write" /\ keys' = keys /\ activeKeys' = activeKeys /\ calling'[c] = Out /\ r.op \in OnGrant
    BY CallChanges DEF storeGrant, activeKeys, RegistryInv
  <1>2. r.seen \subseteq activeKeys
    BY <1>1, SeenIsLive, OutFits
  <1>3. May(r, grants)
    BY <1>1 DEF RegistryInv, CallFits
  <1>4. CASE grants' = grants
    BY <1>1, <1>4, NothingTaken DEF rootAdmins
  <1>5. CASE grants' = WithRow(s, o, r.row)
    <2>1. \A t \in Subjects : t # s /\ <<t, Root, "admin">> \in grants => <<t, Root, "admin">> \in grants'
      BY <1>5 DEF WithRow
    <2>2. o # Root => rootAdmins(grants) \subseteq rootAdmins(grants')
      BY <1>5 DEF WithRow, rootAdmins
    <2>3. o = Root /\ "admin" \in r.row => rootAdmins(grants) \subseteq rootAdmins(grants')
      BY <1>5, <2>1 DEF WithRow, rootAdmins
    <2>4. rootAdmins(grants) \ {s} \subseteq rootAdmins(grants')
      BY <2>1 DEF rootAdmins
    <2>5. CASE rootAdmins(grants) \subseteq rootAdmins(grants')
      BY <1>1, <2>5, NothingTaken
    <2>6. CASE <<s, Root, "admin">> \notin grants
      <3>1. rootAdmins(grants) \subseteq rootAdmins(grants')
        BY <2>4, <2>6 DEF rootAdmins
      <3> QED BY <2>5, <3>1
    <2>7. CASE o = Root /\ "admin" \notin r.row /\ <<s, Root, "admin">> \in grants
      <3>1. CASE AdminKey
        BY <3>1 DEF RootReachable
      <3>2. CASE ~AdminKey
        <4>1. r.op # "grant" \/ ~(\A v \in Verbs : <<s, o, v>> \in grants => v \in r.row)
          BY <2>7, RegistryAssumption
        <4>2. r.op = "revoke" => TakesRoot(r, grants)
          BY <2>7 DEF TakesRoot
        <4>3. /\ r.op = "revoke"
              /\ Remaining(r, grants) \cap Reachable # {} \/ rootReachableByKey(Remaining(r, grants), r.seen)
          BY <1>1, <1>3, <3>2, <4>1, <4>2 DEF May, OnGrant
        <4>4. Remaining(r, grants) = rootAdmins(grants) \ {s}
          BY <4>3 DEF Remaining
        <4>5. CASE Remaining(r, grants) \cap Reachable # {}
          BY <2>4, <4>4, <4>5 DEF RootReachable
        <4>6. CASE rootReachableByKey(Remaining(r, grants), r.seen)
          <5>1. Remaining(r, grants) \subseteq rootAdmins(grants') /\ r.seen \subseteq activeKeys'
            BY <1>1, <1>2, <2>4, <4>4
          <5>2. rootReachableByKey(rootAdmins(grants'), activeKeys')
            BY <4>6, <5>1, MoreReachMore
          <5> QED BY <5>2 DEF RootReachable
        <4> QED BY <4>3, <4>5, <4>6
      <3> QED BY <3>1, <3>2
    <2> QED BY <2>2, <2>3, <2>5, <2>6, <2>7
  <1> QED BY <1>4, <1>5 DEF storeGrant

\* A key whose revocation is written is not the last way to the root.
LEMMA StoreRevokedKeepsRoot ==
    ASSUME RegistryInv, NEW c \in Clients, RootReachable, ~Expires, storeRevoked(c)
    PROVE  RootReachable'
  <1> DEFINE r == calling[c]
  <1>1. r.at = "write" /\ grants' = grants /\ calling'[c] = Out /\ r.op = "revoke_key"
    BY CallChanges DEF storeRevoked, RegistryInv
  <1>2. rootAdmins(grants') = rootAdmins(grants)
    BY <1>1
  <1>3. r.seen \subseteq activeKeys'
    <2>1. r.seen \subseteq activeKeys /\ \A k \in r.seen : <<k>> # r.of
      BY <1>1, SeenIsLive, OutFits DEF RegistryInv, CallFits
    <2>2. PICK k \in Keys : r.of = <<k>>
      BY <1>1 DEF RegistryInv, RegistryTypeOK, CallTypeOK
    <2>3. keys' = [keys EXCEPT ![k] = "revoked"]
      BY <2>2 DEF storeRevoked
    <2>4. k \notin r.seen
      BY <2>1, <2>2
    <2> QED BY <2>1, <2>3, <2>4 DEF activeKeys, RegistryInv, RegistryTypeOK
  <1>4. CASE AdminKey
    BY <1>4 DEF RootReachable
  <1>5. CASE rootAdmins(grants) \cap Reachable # {}
    BY <1>2, <1>5 DEF RootReachable
  <1>6. CASE ~AdminKey /\ rootAdmins(grants) \cap Reachable = {}
    <2>1. rootAdmins(grants) # {}
      BY <1>6, RegistryAssumption DEF RootReachable, rootReachableByKey
    <2>2. Remaining(r, grants) = rootAdmins(grants) /\ May(r, grants)
      BY <1>1 DEF Remaining, RegistryInv, CallFits
    <2>3. rootReachableByKey(rootAdmins(grants), r.seen)
      BY <1>1, <1>6, <2>1, <2>2 DEF May
    <2>4. rootReachableByKey(rootAdmins(grants'), activeKeys')
      BY <1>2, <1>3, <2>3, MoreReachMore
    <2> QED BY <2>4 DEF RootReachable
  <1> QED BY <1>4, <1>5, <1>6

\* No step but the expiry of a key takes the last administrator away.
LEMMA RootStays ==
    ASSUME RegistryInv, [RegistryNext]_registry, RootReachable, ~Expires
    PROVE  RootReachable'
  <1>1. ASSUME grants' = grants, keys' = keys
        PROVE  RootReachable'
    BY <1>1, NothingTaken DEF rootAdmins, activeKeys
  <1>2. ASSUME NEW c \in Clients, NEW s \in Subjects, NEW o \in Objects, NEW vs \in SUBSET Verbs,
               Grant(c, s, o, vs) \/ Revoke(c, s, o, vs)
        PROVE  RootReachable'
    BY <1>1, <1>2 DEF Grant, Revoke, Proceed
  <1>3. ASSUME NEW c \in Clients,
               rootAdminsLocked(c) \/ activeKeysLocked(c) \/ CallFails(c) \/ \E k \in Keys : RevokeKey(c, k)
        PROVE  RootReachable'
    BY <1>1, <1>3 DEF rootAdminsLocked, activeKeysLocked, CallFails, RevokeKey, Proceed
  <1>4. ASSUME NEW c \in Clients, NEW k \in Keys, CreateKey(c, k)
        PROVE  RootReachable'
    <2>1. rootAdmins(grants) \subseteq rootAdmins(grants')
      BY <1>4 DEF CreateKey
    <2>2. activeKeys \subseteq activeKeys'
      BY <1>4 DEF CreateKey, activeKeys, RegistryInv, RegistryTypeOK
    <2> QED BY <2>1, <2>2, NothingTaken
  <1>5. ASSUME NEW k \in Keys, ExpireKey(k)
        PROVE  RootReachable'
    BY <1>5 DEF ExpireKey, Expires, RegistryInv, RegistryTypeOK
  <1>6. ASSUME NEW c \in Clients, NEW o \in Objects, DropGrants(c, o)
        PROVE  RootReachable'
    <2>1. rootAdmins(grants) \subseteq rootAdmins(grants')
      BY <1>6, RegistryAssumption DEF DropGrants, rootAdmins
    <2>2. activeKeys' = activeKeys
      BY <1>6 DEF DropGrants, activeKeys
    <2> QED BY <2>1, <2>2, NothingTaken
  <1>7. CASE UNCHANGED registry
    BY <1>1, <1>7 DEF registry
  <1> QED BY <1>2, <1>3, <1>4, <1>5, <1>6, <1>7, StoreGrantKeepsRoot, StoreRevokedKeepsRoot DEF RegistryNext, Statement

LEMMA RegistryStart ==
    ASSUME RegistryTypeOK, \A c \in Clients : calling[c].at = "out"
    PROVE  RegistryInv
  BY DEF RegistryInv, CallFits

\* Whatever the administrators of one process do, in whatever order, a deployment that
\* somebody can administer stays one, unless a key expires (grants.go, keys.go: each
\* revocation counts who remains and then writes, under Registry.mu).
THEOREM RootAdministratorKept == OneProcess => (RegistrySpec => RootKept)
  <1> SUFFICES ASSUME OneProcess PROVE RegistrySpec => RootKept
    OBVIOUS
  <1>1. RegistryInit => RegistryInv
    <2> SUFFICES ASSUME RegistryInit PROVE RegistryInv
      OBVIOUS
    <2>1. RegistryTypeOK /\ \A c \in Clients : calling[c].at = "out"
      BY OutTypes, OutFits DEF RegistryInit, RegistryTypeOK
    <2> QED BY <2>1, RegistryStart
  <1>2. RegistryInv /\ [RegistryNext]_registry => RegistryInv'
    BY RegistryStep
  <1>3. RegistryInv /\ [RegistryNext]_registry => [RootReachable /\ ~Expires => RootReachable']_registry
    BY RootStays
  <1> QED BY <1>1, <1>2, <1>3, PTL DEF RegistrySpec, RootKept

-----------------------------------------------------------------------------
(* Requests.                                                                 *)

Is(r) == r = [at |-> r.at, next |-> r.next, op |-> r.op, arg |-> r.arg, scope |-> r.scope,
              inc |-> r.inc, ok |-> r.ok, late |-> r.late, own |-> r.own, rows |-> r.rows]
Active(r) == r.at \notin {"idle", "answered"}

\* The namespace n and its table t.
Good(n, t) ==
    /\ n = [on |-> n.on, gen |-> n.gen] /\ n.on \in BOOLEAN /\ n.gen \in Nat
    /\ t = [on |-> t.on, gen |-> t.gen, ver |-> t.ver, own |-> t.own, hasOwner |-> t.hasOwner, rows |-> t.rows]
    /\ t.on \in BOOLEAN /\ t.own \in BOOLEAN /\ t.gen \in Nat /\ t.ver \in Nat
    /\ ~n.on => ~t.on
    /\ ~t.on => t.ver = 0

\* No table to come has incarnation i.
Passed(i, n, t) ==
    \/ i[1] < n.gen
    \/ i[1] = n.gen /\ (~n.on \/ i[2] < t.gen \/ (i[2] = t.gen /\ i[3] < t.ver))

\* An incarnation that client c resolved: the table's, or past if c is one of the stale S.
Incarnations == Nat \X Nat \X Nat
Remembered(i, c, S, n, t) ==
    \/ i = Zero
    \/ i \in Incarnations /\ IF c \in S THEN Passed(i, n, t) ELSE n.on /\ t.on /\ i = <<n.gen, t.gen, t.ver>>

\* An answered request is in order if it is of the kinds that the properties speak of.
Judged(r) == r.op = "migrate" \/ (r.op \in GuardedOps /\ r.inc # Zero)

RequestFits(c) ==
    /\ Is(req[c])
    /\ Remembered(req[c].inc, c, stale, ns, tbl)
    /\ Remembered(plan[c], c, staleplan, ns, tbl)
    /\ Active(req[c]) /\ AllowedAll(c) => c \in wide
    /\ Active(req[c]) /\ req[c].inc # Zero /\ c \notin stale /\ req[c].scope = "all" => c \in wide
    /\ req[c].at = "answered" /\ Judged(req[c]) => req[c].ok = TRUE
    /\ Active(req[c]) /\ req[c].op \in {"grant", "revoke"} => req[c].arg \in GrantArgs

RequestsInv ==
    /\ Good(ns, tbl)
    /\ req = [c \in Clients |-> req[c]] /\ plan = [c \in Clients |-> plan[c]]
    /\ \A c \in Clients : RequestFits(c)

-----------------------------------------------------------------------------
(* Incarnations.                                                            *)

SameShape(n, t, m, v) == m = n /\ v.on = t.on /\ v.gen = t.gen /\ v.ver = t.ver /\ v.own = t.own

\* What operations do to the namespace n and the table t.
Evolves(n, t, m, v) ==
    \/ SameShape(n, t, m, v)
    \/ m = n /\ n.on /\ ~t.on /\ v.on /\ v.gen = t.gen /\ v.ver = 1
    \/ m = n /\ n.on /\ t.on /\ ~v.on /\ v.gen = t.gen + 1
    \/ m = n /\ n.on /\ t.on /\ v.on /\ v.gen = t.gen /\ v.ver = t.ver + 1
    \/ ~n.on /\ m.on /\ m.gen = n.gen + 1
    \/ n.on /\ ~m.on /\ m.gen = n.gen

LEMMA IncarnationFacts ==
    ASSUME NEW i \in Incarnations
    PROVE  i[1] \in Nat /\ i[2] \in Nat /\ i[3] \in Nat /\ i = <<i[1], i[2], i[3]>> /\ i # Zero
  BY DEF Incarnations, Zero

\* A past incarnation stays past, and the present one is past once the table has changed.
LEMMA PassedStays ==
    ASSUME NEW n, NEW t, NEW m, NEW v, Good(n, t), Good(m, v), Evolves(n, t, m, v),
           NEW i \in Incarnations, Passed(i, n, t)
    PROVE  Passed(i, m, v)
  BY IncarnationFacts DEF Good, Evolves, SameShape, Passed

LEMMA PresentPasses ==
    ASSUME NEW n, NEW t, NEW m, NEW v, Good(n, t), Good(m, v), Evolves(n, t, m, v), n.on, t.on,
           ~SameShape(n, t, m, v)
    PROVE  Passed(<<n.gen, t.gen, t.ver>>, m, v)
  BY DEF Good, Evolves, Passed

\* A past incarnation is no table's.
LEMMA PassedIsNot ==
    ASSUME NEW n, NEW t, Good(n, t), n.on, t.on, NEW i \in Incarnations, Passed(i, n, t)
    PROVE  i # <<n.gen, t.gen, t.ver>>
  BY IncarnationFacts DEF Good, Passed

\* What is remembered stays so when it is kept, forgotten or resolved again.
LEMMA RememberedStays ==
    ASSUME NEW n, NEW t, NEW m, NEW v, Good(n, t), Good(m, v), Evolves(n, t, m, v),
           NEW i, NEW c, NEW S, NEW T, Remembered(i, c, S, n, t), NEW j,
           \/ j \in {i, Zero}
           \/ n.on /\ t.on /\ j = <<n.gen, t.gen, t.ver>> /\ SameShape(n, t, m, v),
           c \in T <=> ~SameShape(n, t, m, v) \/ (c \in S /\ j = i)
    PROVE  Remembered(j, c, T, m, v)
  <1>1. CASE j = Zero
    BY <1>1 DEF Remembered
  <1>2. CASE j # Zero /\ j = i
    <2>1. i \in Incarnations
      BY <1>2 DEF Remembered
    <2>2. CASE c \in S
      BY <1>2, <2>1, <2>2, PassedStays DEF Remembered
    <2>3. CASE c \notin S /\ ~SameShape(n, t, m, v)
      BY <1>2, <2>1, <2>3, PresentPasses DEF Remembered
    <2>4. CASE c \notin S /\ SameShape(n, t, m, v)
      BY <1>2, <2>1, <2>4 DEF Remembered, SameShape
    <2> QED BY <2>2, <2>3, <2>4
  <1>3. CASE j # Zero /\ j # i
    <2>1. j \in Incarnations
      BY <1>3 DEF Incarnations, Good
    <2> QED BY <1>3, <2>1 DEF Remembered, SameShape
  <1> QED BY <1>1, <1>2, <1>3

\* What is remembered and is the table's is not stale.
LEMMA PresentIsFresh ==
    ASSUME NEW n, NEW t, Good(n, t), n.on, t.on, NEW c, NEW S, NEW i, i # Zero,
           Remembered(i, c, S, n, t), i = <<n.gen, t.gen, t.ver>>
    PROVE  c \notin S
  BY PassedIsNot DEF Remembered

-----------------------------------------------------------------------------
(***************************************************************************)
(* What a step does to the request of its client: it goes on, begins,       *)
(* resolves its scope or is done.                                           *)
(***************************************************************************)
Goes(c) ==
    /\ Active(req[c]) /\ Active(req'[c])
    /\ req'[c].op = req[c].op /\ req'[c].inc = req[c].inc /\ req'[c].scope = req[c].scope

Begins(c) == Active(req'[c]) /\ req'[c].inc = Zero

Resolves(c) ==
    /\ Active(req[c]) /\ Active(req'[c]) /\ req'[c].op = req[c].op
    /\ grants' = grants /\ ns' = ns /\ tbl' = tbl
    /\ \/ req'[c].inc = Zero
       \/ Table /\ req'[c].inc = Incarnation /\ (req'[c].scope = "all" => ~tbl.own)
       \/ req'[c].inc = req[c].inc /\ (req'[c].scope = "all" => req[c].scope = "all" \/ "read" \in Held(c, Tab))

Done(c) ==
    /\ req'[c].at = "answered" /\ req'[c].inc \in {req[c].inc, Zero}
    /\ Judged(req'[c]) => req'[c].ok = TRUE

\* What a grant or a revocation is called with.
Called(c) ==
    Active(req'[c]) /\ req'[c].op \in {"grant", "revoke"} =>
        \/ req'[c].arg \in GrantArgs
        \/ Active(req[c]) /\ req'[c].op = req[c].op /\ req'[c].arg = req[c].arg

Turn(c) ==
    /\ req' = [req EXCEPT ![c] = req'[c]] /\ Is(req'[c]) /\ Called(c)
    /\ Goes(c) \/ Begins(c) \/ Resolves(c) \/ Done(c)

\* What it does to the table and to the client's plan.
Move(c) ==
    /\ Good(ns', tbl') /\ Evolves(ns, tbl, ns', tbl')
    /\ plan' = [plan EXCEPT ![c] = plan'[c]]
    /\ \/ plan'[c] \in {plan[c], Zero}
       \/ Table /\ plan'[c] = Incarnation /\ SameShape(ns, tbl, ns', tbl')

LEMMA UnmovedMove ==
    ASSUME RequestsInv, NEW c \in Clients, ns' = ns, tbl' = tbl, plan' = plan
    PROVE  Move(c)
  <1>1. Good(ns', tbl') /\ SameShape(ns, tbl, ns', tbl')
    BY DEF RequestsInv, SameShape
  <1>2. plan' = [plan EXCEPT ![c] = plan'[c]]
    BY DEF RequestsInv
  <1> QED BY <1>1, <1>2 DEF Move, Evolves

LEMMA UnmovedIs ==
    ASSUME Unmoved
    PROVE  ns' = ns /\ tbl' = tbl /\ plan' = plan /\ grants' = grants
  BY DEF Unmoved, registry, engine

LEMMA WriteMove ==
    ASSUME RequestsInv, NEW c \in Clients, NEW rows, WriteRows(rows)
    PROVE  Move(c)
  <1>1. ns' = ns /\ tbl' = [tbl EXCEPT !.rows = rows] /\ plan' = plan
    BY DEF WriteRows
  <1>2. Good(ns, tbl)
    BY DEF RequestsInv
  <1>3. tbl' = [on |-> tbl.on, gen |-> tbl.gen, ver |-> tbl.ver, own |-> tbl.own, hasOwner |-> tbl.hasOwner, rows |-> rows]
    BY <1>1, <1>2 DEF Good
  <1>4. Good(ns', tbl') /\ SameShape(ns, tbl, ns', tbl')
    BY <1>1, <1>2, <1>3 DEF Good, SameShape
  <1>5. plan' = [plan EXCEPT ![c] = plan'[c]]
    BY <1>1 DEF RequestsInv
  <1> QED BY <1>1, <1>4, <1>5 DEF Move, Evolves

LEMMA SetTurn ==
    ASSUME RequestsInv, NEW c \in Clients, NEW q, Set(c, q)
    PROVE  req'[c] = q /\ req' = [req EXCEPT ![c] = req'[c]] /\ Is(req[c])
  BY DEF RequestsInv, RequestFits, Set

LEMMA GoTurn ==
    ASSUME RequestsInv, NEW c \in Clients, NEW to, to \notin {"idle", "answered"}, Active(req[c]), Go(c, to)
    PROVE  Turn(c)
  <1>1. /\ req'[c] = [req[c] EXCEPT !.at = to] /\ req' = [req EXCEPT ![c] = req'[c]] /\ Is(req[c])
    BY SetTurn DEF Go
  <1>2. req'[c] = [at |-> to, next |-> req[c].next, op |-> req[c].op, arg |-> req[c].arg, scope |-> req[c].scope,
                   inc |-> req[c].inc, ok |-> req[c].ok, late |-> req[c].late, own |-> req[c].own, rows |-> req[c].rows]
    BY <1>1 DEF Is
  <1>3. Goes(c) /\ Is(req'[c]) /\ Called(c)
    BY <1>2 DEF Goes, Is, Active, Called
  <1> QED BY <1>1, <1>3 DEF Turn

LEMMA RefuseTurn ==
    ASSUME RequestsInv, NEW c \in Clients, Refuse(c)
    PROVE  Turn(c)
  <1>1. /\ req'[c] = [Quiet EXCEPT !.at = "answered", !.op = req[c].op]
        /\ req' = [req EXCEPT ![c] = req'[c]]
    BY SetTurn DEF Refuse
  <1>2. Done(c) /\ Is(req'[c]) /\ Called(c)
    BY <1>1 DEF Done, Quiet, Is, Called, Active
  <1> QED BY <1>1, <1>2 DEF Turn

\* An answer is in order when the rows that it is about are the client's or the client
\* was allowed all, and a resolved incarnation is the table's.
LEMMA AnswerTurn ==
    ASSUME RequestsInv, NEW c \in Clients, NEW rows, Answer(c, rows), Active(req[c]),
           Judged(req[c]) => /\ rows \subseteq {Who[c]} \/ c \in wide
                             /\ req[c].inc # Zero => Table /\ req[c].inc = Incarnation
    PROVE  Turn(c)
  <1>1. /\ req'[c] = [Quiet EXCEPT !.at = "answered", !.op = req[c].op, !.inc = req[c].inc,
                        !.ok = (rows \subseteq {Who[c]} \/ c \in wide) /\ (req[c].inc # Zero => c \notin stale)]
        /\ req' = [req EXCEPT ![c] = req'[c]]
    BY SetTurn DEF Answer
  <1>2. /\ Is(req'[c]) /\ req'[c].at = "answered" /\ req'[c].op = req[c].op /\ req'[c].inc = req[c].inc
        /\ req'[c].ok = ((rows \subseteq {Who[c]} \/ c \in wide) /\ (req[c].inc # Zero => c \notin stale))
    BY <1>1 DEF Quiet, Is
  <1>3. ASSUME Judged(req'[c]) PROVE req'[c].ok = TRUE
    <2>1. Judged(req[c])
      BY <1>2, <1>3 DEF Judged
    <2>2. ASSUME req[c].inc # Zero PROVE c \notin stale
      <3>1. Good(ns, tbl) /\ Remembered(req[c].inc, c, stale, ns, tbl)
        BY DEF RequestsInv, RequestFits
      <3>2. ns.on /\ tbl.on /\ req[c].inc = <<ns.gen, tbl.gen, tbl.ver>>
        BY <2>1, <2>2 DEF Table, Incarnation
      <3> QED BY <2>2, <3>1, <3>2, PresentIsFresh
    <2> QED BY <1>2, <2>1, <2>2
  <1> QED BY <1>1, <1>2, <1>3 DEF Turn, Done, Called, Active

\* The rows that a scope leaves are in order in a transaction that compared the incarnation.
LEMMA VisibleFits ==
    ASSUME RequestsInv, NEW c \in Clients, Active(req[c]), Table, checkScopeIncarnation(c), req[c].inc # Zero
    PROVE  Visible(c) \subseteq {Who[c]} \/ c \in wide
  <1>1. Good(ns, tbl) /\ Remembered(req[c].inc, c, stale, ns, tbl)
    BY DEF RequestsInv, RequestFits
  <1>2. ns.on /\ tbl.on /\ req[c].inc = <<ns.gen, tbl.gen, tbl.ver>>
    BY DEF Table, Incarnation, checkScopeIncarnation
  <1>3. c \notin stale
    BY <1>1, <1>2, PresentIsFresh
  <1>4. req[c].scope = "all" => c \in wide
    BY <1>3 DEF RequestsInv, RequestFits
  <1> QED BY <1>4 DEF Visible

\* An answer from inside the transaction, about rows that the scope leaves.
LEMMA ScopedTurn ==
    ASSUME RequestsInv, NEW c \in Clients, NEW rows, Answer(c, rows), Active(req[c]),
           Table, checkScopeIncarnation(c), rows \subseteq Visible(c), req[c].op = "migrate" => rows = {}
    PROVE  Turn(c)
  <1>1. ASSUME Judged(req[c])
        PROVE  /\ rows \subseteq {Who[c]} \/ c \in wide
               /\ req[c].inc # Zero => Table /\ req[c].inc = Incarnation
    <2>1. req[c].inc # Zero => Visible(c) \subseteq {Who[c]} \/ c \in wide
      BY VisibleFits
    <2> QED BY <1>1, <2>1 DEF Judged, checkScopeIncarnation
  <1> QED BY <1>1, AnswerTurn

\* An answer of an operation that the properties do not speak of.
LEMMA PlainTurn ==
    ASSUME RequestsInv, NEW c \in Clients, NEW rows, Answer(c, rows), Active(req[c]),
           req[c].op \notin GuardedOps
    PROVE  Turn(c)
  BY AnswerTurn DEF Judged, GuardedOps

LEMMA ResolveTableTurn ==
    ASSUME RequestsInv, NEW c \in Clients, NEW from, NEW to, {from, to} \cap {"idle", "answered"} = {},
           resolveTable(c, from, to)
    PROVE  Turn(c) /\ Move(c)
  <1>1. ns' = ns /\ tbl' = tbl /\ plan' = plan /\ grants' = grants
    BY UnmovedIs DEF resolveTable
  <1>2. Active(req[c])
    BY DEF resolveTable, Active
  <1>3. CASE Table
    <2> DEFINE q == [req[c] EXCEPT !.at = "verbs", !.next = to, !.inc = Incarnation,
                                   !.scope = IF tbl.own THEN "own" ELSE "all"]
    <2>1. Set(c, q)
      BY <1>3 DEF resolveTable
    <2>2. req'[c] = q /\ req' = [req EXCEPT ![c] = req'[c]] /\ Is(req[c])
      BY <2>1, SetTurn
    <2>3. req'[c] = [at |-> "verbs", next |-> to, op |-> req[c].op, arg |-> req[c].arg,
                     scope |-> IF tbl.own THEN "own" ELSE "all", inc |-> Incarnation,
                     ok |-> req[c].ok, late |-> req[c].late, own |-> req[c].own, rows |-> req[c].rows]
      BY <2>2 DEF Is
    <2>4. Is(req'[c]) /\ Resolves(c) /\ Called(c)
      BY <1>1, <1>2, <1>3, <2>3 DEF Is, Resolves, Active, Called
    <2> QED BY <1>1, <2>2, <2>4, UnmovedMove DEF Turn
  <1>4. CASE ~Table
    <2> DEFINE q == [req[c] EXCEPT !.at = to, !.scope = "all", !.inc = Zero]
    <2>1. Set(c, q)
      BY <1>4 DEF resolveTable
    <2>2. req'[c] = q /\ req' = [req EXCEPT ![c] = req'[c]] /\ Is(req[c])
      BY <2>1, SetTurn
    <2>3. req'[c] = [at |-> to, next |-> req[c].next, op |-> req[c].op, arg |-> req[c].arg, scope |-> "all",
                     inc |-> Zero, ok |-> req[c].ok, late |-> req[c].late, own |-> req[c].own, rows |-> req[c].rows]
      BY <2>2 DEF Is
    <2>4. /\ Is(req'[c]) /\ Active(req'[c]) /\ req'[c].op = req[c].op /\ req'[c].inc = Zero
          /\ req'[c].arg = req[c].arg
      <3>1. to \notin {"idle", "answered"}
        OBVIOUS
      <3> QED BY <2>3, <3>1 DEF Is, Active
    <2>5. Resolves(c) /\ Called(c)
      BY <1>1, <1>2, <2>4 DEF Resolves, Called
    <2> QED BY <1>1, <2>2, <2>4, <2>5, UnmovedMove DEF Turn
  <1> QED BY <1>3, <1>4

LEMMA ResolveVerbsTurn ==
    ASSUME RequestsInv, NEW c \in Clients, NEW to, to \notin {"idle", "answered"},
           resolveVerbs(c, to)
    PROVE  Turn(c) /\ Move(c)
  <1>1. ns' = ns /\ tbl' = tbl /\ plan' = plan /\ grants' = grants
    BY UnmovedIs DEF resolveVerbs
  <1>2. Active(req[c])
    BY DEF resolveVerbs, Active
  <1> DEFINE held == Held(c, Tab)
             scope == CASE "read" \in held -> "all"
                        [] held \cap DataVerbs # {} -> req[c].scope
                        [] OTHER -> "empty"
  <1>3. /\ Set(c, [req[c] EXCEPT !.at = to, !.next = "none", !.scope = scope])
        /\ scope = "all" => req[c].scope = "all" \/ "read" \in Held(c, Tab)
    <2>1. Set(c, [req[c] EXCEPT !.at = to, !.next = "none", !.scope = scope])
      BY Zenon DEF resolveVerbs
    <2>2. scope = "all" => req[c].scope = "all" \/ "read" \in held
      <3> HIDE DEF held
      <3> QED OBVIOUS
    <2> QED BY <2>1, <2>2
  <1> HIDE DEF scope
  <1>4. /\ req'[c] = [req[c] EXCEPT !.at = to, !.next = "none", !.scope = scope]
        /\ req' = [req EXCEPT ![c] = req'[c]] /\ Is(req[c])
    BY <1>3, SetTurn
  <1>5. req'[c] = [at |-> to, next |-> "none", op |-> req[c].op, arg |-> req[c].arg, scope |-> scope,
                   inc |-> req[c].inc, ok |-> req[c].ok, late |-> req[c].late, own |-> req[c].own, rows |-> req[c].rows]
    BY <1>4 DEF Is
  <1>6. Is(req'[c]) /\ Resolves(c) /\ Called(c)
    BY <1>1, <1>2, <1>3, <1>5 DEF Is, Resolves, Active, Called
  <1> QED BY <1>1, <1>4, <1>6, UnmovedMove DEF Turn

LEMMA ResolveTurn ==
    ASSUME RequestsInv, NEW c \in Clients, NEW from, NEW to, {from, to} \cap {"idle", "answered"} = {},
           resolveScope(c, from, to)
    PROVE  Turn(c) /\ Move(c)
  BY ResolveTableTurn, ResolveVerbsTurn DEF resolveScope

\* The step of a request that goes on or is refused, and changes nothing else.
LEMMA PassTurn ==
    ASSUME RequestsInv, NEW c \in Clients, NEW to, to \notin {"idle", "answered"}, Active(req[c]),
           Go(c, to) \/ Refuse(c), Unmoved
    PROVE  Turn(c) /\ Move(c)
  BY GoTurn, RefuseTurn, UnmovedIs, UnmovedMove

LEMMA FailTurn ==
    ASSUME RequestsInv, NEW c \in Clients, Refuse(c), Unmoved
    PROVE  Turn(c) /\ Move(c)
  BY RefuseTurn, UnmovedIs, UnmovedMove

LEMMA GuardTurn ==
    ASSUME RequestsInv, NEW c \in Clients, NEW from, NEW to, {from, to} \cap {"idle", "answered"} = {},
           guardIncarnation(c, from, to) \/ ensureNamespace(c, from, to) \/ requireNamespaceVisible(c, from, to)
    PROVE  Turn(c) /\ Move(c)
  <1>1. Active(req[c]) /\ (Go(c, to) \/ Refuse(c)) /\ Unmoved
    BY DEF guardIncarnation, ensureNamespace, requireNamespaceVisible, Active
  <1> QED BY <1>1, PassTurn

\* A step that only notes something in the request.
LEMMA NoteTurn ==
    ASSUME RequestsInv, NEW c \in Clients, NEW q, Set(c, q), Is(q), Active(req[c]), Active(q), Unmoved,
           q.op = req[c].op, q.inc = req[c].inc, q.scope = req[c].scope,
           q.arg = req[c].arg \/ q.op \notin {"grant", "revoke"}
    PROVE  Turn(c) /\ Move(c)
  <1>1. req'[c] = q /\ req' = [req EXCEPT ![c] = req'[c]]
    BY SetTurn
  <1>2. Goes(c) /\ Called(c)
    BY <1>1 DEF Goes, Called
  <1> QED BY <1>1, <1>2, UnmovedIs, UnmovedMove DEF Turn

-----------------------------------------------------------------------------
(* Admission.                                                               *)

LEMMA AdmissionTurn ==
    ASSUME RequestsInv, NEW c \in Clients, Admission(c)
    PROVE  Turn(c) /\ Move(c)
  <1>1. CASE authorizeVerbs(c)
    <2>1. Active(req[c]) /\ (Go(c, "constraints") \/ Go(c, "rowaccess") \/ Refuse(c)) /\ Unmoved
      BY <1>1 DEF authorizeVerbs, Active
    <2> QED BY <2>1, PassTurn
  <1>2. CASE authorizeAny(c) \/ authorizeOpen(c)
    <2>1. Active(req[c]) /\ (Go(c, "begin") \/ Refuse(c)) /\ Unmoved
      BY <1>2 DEF authorizeAny, authorizeOpen, Active
    <2> QED BY <2>1, PassTurn
  <1>3. CASE tableHasRowAccess(c)
    <2>1. Active(req[c]) /\ (Go(c, "constraints") \/ Refuse(c)) /\ Unmoved
      BY <1>3 DEF tableHasRowAccess, Active
    <2> QED BY <2>1, PassTurn
  <1>4. Is(req[c])
    BY DEF RequestsInv, RequestFits
  <1>5. ASSUME NEW at, NEW own, at \notin {"idle", "answered"}, Active(req[c]), Unmoved,
               Set(c, [req[c] EXCEPT !.at = at, !.own = own])
        PROVE  Turn(c) /\ Move(c)
    <2>0. PICK q : q = [req[c] EXCEPT !.at = at, !.own = own]
      OBVIOUS
    <2>1. q = [at |-> at, next |-> req[c].next, op |-> req[c].op, arg |-> req[c].arg, scope |-> req[c].scope,
               inc |-> req[c].inc, ok |-> req[c].ok, late |-> req[c].late, own |-> own, rows |-> req[c].rows]
      BY <1>4, <2>0 DEF Is
    <2>2. Is(q) /\ Active(q) /\ q.op = req[c].op /\ q.inc = req[c].inc /\ q.scope = req[c].scope /\ q.arg = req[c].arg
      BY <1>5, <2>1 DEF Is, Active
    <2>3. Set(c, q)
      BY <1>5, <2>0
    <2> QED BY <1>5, <2>2, <2>3, NoteTurn
  <1>6. CASE declaredSchema(c)
    <2>1. Active(req[c]) /\ Unmoved
      BY <1>6 DEF declaredSchema, Active
    <2>2. \/ Go(c, "begin") \/ Go(c, "consulted") \/ Refuse(c)
          \/ \E at \in {"widened", "consulted"} : \E own : Set(c, [req[c] EXCEPT !.own = own, !.at = at])
      BY <1>6 DEF declaredSchema
    <2>3. ASSUME NEW at \in {"widened", "consulted"}, NEW own, Set(c, [req[c] EXCEPT !.own = own, !.at = at])
          PROVE  Turn(c) /\ Move(c)
      <3>1. [req[c] EXCEPT !.own = own, !.at = at] = [req[c] EXCEPT !.at = at, !.own = own]
        BY <1>4 DEF Is
      <3>2. at \notin {"idle", "answered"}
        BY <2>3
      <3> QED BY <1>5, <2>1, <2>3, <3>1, <3>2
    <2>4. {"begin", "consulted"} \cap {"idle", "answered"} = {}
      OBVIOUS
    <2>5. CASE Go(c, "begin") \/ Go(c, "consulted") \/ Refuse(c)
      BY <2>1, <2>4, <2>5, PassTurn
    <2> QED BY <2>2, <2>3, <2>5
  <1>7. CASE holdsTableWideRead(c)
    <2>1. Active(req[c]) /\ Unmoved
      BY <1>7 DEF holdsTableWideRead, Active
    <2>2. PICK own : Set(c, [req[c] EXCEPT !.at = "consulted", !.own = own])
      BY <1>7 DEF holdsTableWideRead
    <2>3. "consulted" \notin {"idle", "answered"}
      OBVIOUS
    <2> QED BY <1>5, <2>1, <2>2, <2>3
  <1>8. CASE authorizeConstraints(c)
    <2>1. Active(req[c]) /\ Unmoved
      BY <1>8 DEF authorizeConstraints, Active
    <2>2. \/ Refuse(c) \/ Set(c, [req[c] EXCEPT !.at = "begin", !.own = FALSE])
          \/ /\ req[c].op = "batch"
             /\ Set(c, [req[c] EXCEPT !.at = "dispatched", !.arg = "delete", !.own = FALSE])
      BY <1>8 DEF authorizeConstraints
    <2>3. CASE /\ req[c].op = "batch"
               /\ Set(c, [req[c] EXCEPT !.at = "dispatched", !.arg = "delete", !.own = FALSE])
      <3>0. PICK q : q = [req[c] EXCEPT !.at = "dispatched", !.arg = "delete", !.own = FALSE]
        OBVIOUS
      <3>1. q = [at |-> "dispatched", next |-> req[c].next, op |-> req[c].op, arg |-> "delete", scope |-> req[c].scope,
                 inc |-> req[c].inc, ok |-> req[c].ok, late |-> req[c].late, own |-> FALSE, rows |-> req[c].rows]
        BY <1>4, <3>0 DEF Is
      <3>2. Is(q) /\ Active(q) /\ q.op = req[c].op /\ q.inc = req[c].inc /\ q.scope = req[c].scope
        BY <3>1 DEF Is, Active
      <3>3. Set(c, q) /\ q.op \notin {"grant", "revoke"}
        BY <2>3, <3>0, <3>2
      <3> QED BY <2>1, <3>2, <3>3, NoteTurn
    <2>4. CASE Set(c, [req[c] EXCEPT !.at = "begin", !.own = FALSE])
      <3>1. "begin" \notin {"idle", "answered"}
        OBVIOUS
      <3> QED BY <1>5, <2>1, <2>4, <3>1
    <2> QED BY <2>1, <2>2, <2>3, <2>4, FailTurn
  <1> QED BY <1>1, <1>2, <1>3, <1>6, <1>7, <1>8 DEF Admission

LEMMA AuthenticatedTurn ==
    ASSUME RequestsInv, NEW c \in Clients, Authenticated(c)
    PROVE  Turn(c) /\ Move(c)
  <1>1. ns' = ns /\ tbl' = tbl /\ plan' = plan
    BY DEF Authenticated, engine
  <1>2. CASE Set(c, [Quiet EXCEPT !.at = "answered"])
    <2>1. req'[c] = [Quiet EXCEPT !.at = "answered"] /\ req' = [req EXCEPT ![c] = req'[c]]
      BY <1>2, SetTurn
    <2>2. Is(req'[c]) /\ Done(c) /\ Called(c)
      BY <2>1 DEF Quiet, Is, Done, Called, Active
    <2> QED BY <1>1, <2>1, <2>2, UnmovedMove DEF Turn
  <1>3. ASSUME NEW op, NEW a, Set(c, [Quiet EXCEPT !.at = "dispatched", !.op = op, !.arg = a]),
               op \in {"grant", "revoke"} => a \in GrantArgs
        PROVE  Turn(c) /\ Move(c)
    <2>1. req'[c] = [Quiet EXCEPT !.at = "dispatched", !.op = op, !.arg = a] /\ req' = [req EXCEPT ![c] = req'[c]]
      BY <1>3, SetTurn
    <2>2. Is(req'[c]) /\ Begins(c) /\ Called(c)
      BY <1>3, <2>1 DEF Quiet, Is, Begins, Active, Called
    <2> QED BY <1>1, <2>1, <2>2, UnmovedMove DEF Turn
  <1>4. \/ Set(c, [Quiet EXCEPT !.at = "answered"])
        \/ \E op, a : /\ Set(c, [Quiet EXCEPT !.at = "dispatched", !.op = op, !.arg = a])
                      /\ op \in {"grant", "revoke"} => a \in GrantArgs
    BY DEF Authenticated
  <1> QED BY <1>2, <1>3, <1>4

-----------------------------------------------------------------------------
(* Operations that read.                                                    *)

\* A read in one transaction, or its refusal.
LEMMA ReadTurn ==
    ASSUME RequestsInv, NEW c \in Clients, Active(req[c]), req[c].op # "migrate",
           NEW rows, rows \subseteq Visible(c), IF InTx(c) THEN Answer(c, rows) ELSE Refuse(c), Unmoved
    PROVE  Turn(c) /\ Move(c)
  <1>1. CASE InTx(c)
    <2>1. Turn(c)
      BY <1>1, ScopedTurn DEF InTx
    <2> QED BY <2>1, UnmovedIs, UnmovedMove
  <1>2. CASE ~InTx(c)
    BY <1>2, FailTurn
  <1> QED BY <1>1, <1>2

LEMMA ReadOnceTurn ==
    ASSUME RequestsInv, NEW c \in Clients, NEW op, op # "migrate", ReadOnce(c, op)
    PROVE  Turn(c) /\ Move(c)
  <1>1. CASE req[c].op = op /\ resolveScope(c, "begin", "run")
    BY <1>1, ResolveTurn
  <1>2. CASE /\ At(c, op, "run")
             /\ IF InTx(c) THEN Answer(c, Visible(c)) ELSE Refuse(c)
             /\ Unmoved
    <2>1. Active(req[c]) /\ req[c].op = op
      BY <1>2 DEF At, Active
    <2> QED BY <1>2, <2>1, ReadTurn
  <1> QED BY <1>1, <1>2 DEF ReadOnce

LEMMA SearchVectorTurn ==
    ASSUME RequestsInv, NEW c \in Clients, search_vector(c)
    PROVE  Turn(c) /\ Move(c)
  <1>0. req[c].op = "search_vector"
    BY DEF search_vector, At
  <1>1. CASE At(c, "search_vector", "begin") /\ (Go(c, "prepared") \/ Refuse(c)) /\ Unmoved
    <2>1. Active(req[c])
      BY <1>1 DEF At, Active
    <2> QED BY <1>1, <2>1, PassTurn
  <1>2. CASE resolveScope(c, "prepared", "run")
    BY <1>0, <1>2, ResolveTurn
  <1>3. CASE /\ At(c, "search_vector", "run")
             /\ IF InTx(c) THEN Answer(c, Visible(c)) ELSE Refuse(c)
             /\ Unmoved
    <2>1. Active(req[c])
      BY <1>3 DEF At, Active
    <2> QED BY <1>0, <1>3, <2>1, ReadTurn
  <1> QED BY <1>1, <1>2, <1>3 DEF search_vector

LEMMA DescribeTurn ==
    ASSUME RequestsInv, NEW c \in Clients, describe_table(c) \/ tokenize(c)
    PROVE  Turn(c) /\ Move(c)
  <1>0. req[c].op # "migrate"
    BY DEF describe_table, tokenize, At
  <1>1. CASE resolveScope(c, "begin", "run")
    BY <1>0, <1>1, ResolveTurn
  <1>2. CASE /\ req[c].at = "run"
             /\ IF InTx(c) THEN Answer(c, {}) ELSE Refuse(c)
             /\ Unmoved
    <2>1. Active(req[c])
      BY <1>2 DEF Active
    <2>2. {} \subseteq Visible(c)
      OBVIOUS
    <2> QED BY <1>0, <1>2, <2>1, <2>2, ReadTurn
  <1> QED BY <1>1, <1>2 DEF describe_table, tokenize, At

\* An answer that the properties do not speak of, in a step that changes nothing else.
LEMMA PlainStep ==
    ASSUME RequestsInv, NEW c \in Clients, Active(req[c]), req[c].op \notin GuardedOps,
           NEW rows, Answer(c, rows) \/ Refuse(c), Unmoved
    PROVE  Turn(c) /\ Move(c)
  BY PlainTurn, FailTurn, UnmovedIs, UnmovedMove

LEMMA ChangesSinceTurn ==
    ASSUME RequestsInv, NEW c \in Clients, changes_since(c)
    PROVE  Turn(c) /\ Move(c)
  <1>0. req[c].op \notin GuardedOps
    BY DEF changes_since, GuardedOps
  <1>1. CASE resolveScope(c, "begin", "guard")
    BY <1>0, <1>1, ResolveTurn
  <1>2. CASE guardIncarnation(c, "guard", "run")
    BY <1>2, GuardTurn
  <1>3. CASE req[c].at = "run" /\ (Answer(c, Visible(c)) \/ Refuse(c)) /\ Unmoved
    <2>1. Active(req[c])
      BY <1>3 DEF Active
    <2> QED BY <1>0, <1>3, <2>1, PlainStep
  <1> QED BY <1>1, <1>2, <1>3 DEF changes_since

LEMMA WaitTurn ==
    ASSUME RequestsInv, NEW c \in Clients, wait_for(c) \/ WaitDeadline(c)
    PROVE  Turn(c) /\ Move(c)
  <1>0. req[c].op \notin GuardedOps /\ req[c].op \notin {"grant", "revoke"}
    BY DEF wait_for, WaitDeadline, GuardedOps
  <1>1. CASE resolveScope(c, "begin", "resolved")
    BY <1>0, <1>1, ResolveTurn
  <1>2. CASE /\ req[c].at = "resolved"
             /\ Set(c, [req[c] EXCEPT !.at = "poll", !.arg = IF req[c].scope = "all" THEN "none" ELSE "pinned"])
             /\ Unmoved
    <2>1. PICK a : Set(c, [req[c] EXCEPT !.at = "poll", !.arg = a])
      BY <1>2
    <2>2. req'[c] = [req[c] EXCEPT !.at = "poll", !.arg = a] /\ req' = [req EXCEPT ![c] = req'[c]] /\ Is(req[c])
      BY <2>1, SetTurn
    <2>3. req'[c] = [at |-> "poll", next |-> req[c].next, op |-> req[c].op, arg |-> a, scope |-> req[c].scope,
                     inc |-> req[c].inc, ok |-> req[c].ok, late |-> req[c].late, own |-> req[c].own, rows |-> req[c].rows]
      BY <2>2 DEF Is
    <2>4. Is(req'[c]) /\ Goes(c) /\ Called(c)
      BY <1>0, <1>2, <2>3 DEF Is, Goes, Active, Called
    <2> QED BY <1>2, <2>2, <2>4, UnmovedIs, UnmovedMove DEF Turn
  <1>3. CASE req[c].at = "poll" /\ Go(c, "guard") /\ Unmoved
    <2>1. Active(req[c])
      BY <1>3 DEF Active
    <2> QED BY <1>3, <2>1, PassTurn
  <1>4. CASE resolveTable(c, "poll", "guard")
    BY <1>0, <1>4, ResolveTableTurn
  <1>5. CASE resolveVerbs(c, "guard")
    BY <1>0, <1>5, ResolveVerbsTurn
  <1>6. CASE guardIncarnation(c, "guard", "run")
    BY <1>6, GuardTurn
  <1>7. CASE WaitRead(c)
    <2>1. Active(req[c]) /\ Unmoved /\ (Refuse(c) \/ Answer(c, Visible(c)) \/ Go(c, "poll"))
      BY <1>7 DEF WaitRead, At, Active
    <2> QED BY <1>0, <2>1, PlainStep, PassTurn
  <1>8. CASE WaitDeadline(c)
    <2>1. Active(req[c]) /\ Unmoved /\ Set(c, [req[c] EXCEPT !.late = TRUE])
      BY <1>8 DEF WaitDeadline, Active
    <2>2. req'[c] = [req[c] EXCEPT !.late = TRUE] /\ req' = [req EXCEPT ![c] = req'[c]] /\ Is(req[c])
      BY <2>1, SetTurn
    <2>3. req'[c] = [at |-> req[c].at, next |-> req[c].next, op |-> req[c].op, arg |-> req[c].arg,
                     scope |-> req[c].scope, inc |-> req[c].inc, ok |-> req[c].ok, late |-> TRUE,
                     own |-> req[c].own, rows |-> req[c].rows]
      BY <2>2 DEF Is
    <2>4. Is(req'[c]) /\ Goes(c) /\ Called(c)
      BY <2>1, <2>3 DEF Is, Goes, Active, Called
    <2> QED BY <2>1, <2>2, <2>4, UnmovedIs, UnmovedMove DEF Turn
  <1> QED BY <1>1, <1>2, <1>3, <1>4, <1>5, <1>6, <1>7, <1>8 DEF wait_for

Plain(c) ==
    \/ query(c) \/ list_migrations(c) \/ list_tables(c) \/ list_namespaces(c) \/ describe_server(c)
    \/ capabilities(c) \/ infer_schema(c) \/ whoami(c) \/ list_grants(c) \/ list_keys(c) \/ vacuum(c)

LEMMA PlainOperations ==
    ASSUME RequestsInv, NEW c \in Clients, Plain(c)
    PROVE  Turn(c) /\ Move(c)
  <1>1. CASE query(c)
    <2>1. /\ Active(req[c]) /\ req[c].op \notin GuardedOps /\ Unmoved
          /\ Answer(c, IF Table THEN tbl.rows ELSE {}) \/ Refuse(c)
      BY <1>1 DEF query, At, Active, GuardedOps
    <2> QED BY <2>1, PlainStep
  <1>2. CASE requireNamespaceVisible(c, "begin", "run")
    BY <1>2, GuardTurn
  <1>3. CASE Plain(c) /\ ~query(c) /\ ~requireNamespaceVisible(c, "begin", "run")
    <2>1. /\ Active(req[c]) /\ req[c].op \notin GuardedOps /\ Unmoved
          /\ Answer(c, {}) \/ Refuse(c)
      BY <1>3 DEF Plain, list_migrations, list_tables, list_namespaces, describe_server, capabilities,
            infer_schema, whoami, list_grants, list_keys, vacuum, At, Active, GuardedOps
    <2> QED BY <2>1, PlainStep
  <1> QED BY <1>1, <1>2, <1>3

\* The steps of a traversal; its answer is not one that the properties speak of.
LEMMA TraverseTurn ==
    ASSUME RequestsInv, NEW c \in Clients, Traverse(c), req[c].op \notin GuardedOps
    PROVE  Turn(c) /\ Move(c)
  <1>1. Is(req[c]) /\ Active(req[c]) /\ Unmoved
    BY DEF RequestsInv, RequestFits, Traverse, Snapshot, graphScope, Walk, Active
  <1>2. CASE Snapshot(c)
    <2>0. PICK q : q = [req[c] EXCEPT !.at = "scoping", !.own = tbl.own, !.rows = tbl.rows]
      OBVIOUS
    <2>1. Set(c, q) \/ Refuse(c)
      BY <1>2, <2>0 DEF Snapshot
    <2>2. q = [at |-> "scoping", next |-> req[c].next, op |-> req[c].op, arg |-> req[c].arg, scope |-> req[c].scope,
               inc |-> req[c].inc, ok |-> req[c].ok, late |-> req[c].late, own |-> tbl.own, rows |-> tbl.rows]
      BY <1>1, <2>0 DEF Is
    <2>3. /\ Is(q) /\ Active(q) /\ q.op = req[c].op /\ q.inc = req[c].inc /\ q.scope = req[c].scope
          /\ q.arg = req[c].arg
      BY <2>2 DEF Is, Active
    <2> QED BY <1>1, <2>1, <2>3, NoteTurn, FailTurn
  <1>3. CASE graphScope(c)
    <2> DEFINE scope == CASE Has(c, Tab, "read") -> "all"
                          [] req[c].own /\ Held(c, Tab) \cap DataVerbs # {} -> "own"
                          [] OTHER -> "empty"
    <2>0. PICK s : s = scope
      OBVIOUS
    <2>1. Set(c, [req[c] EXCEPT !.at = "walk", !.scope = s]) /\ (s = "all" => "read" \in Held(c, Tab))
      <3>1. Set(c, [req[c] EXCEPT !.at = "walk", !.scope = scope])
        BY <1>3, Zenon DEF graphScope
      <3>2. scope = "all" => Has(c, Tab, "read")
        OBVIOUS
      <3> HIDE DEF scope
      <3> QED BY <2>0, <3>1, <3>2 DEF Has
    <2>2. req'[c] = [req[c] EXCEPT !.at = "walk", !.scope = s] /\ req' = [req EXCEPT ![c] = req'[c]]
      BY <2>1, SetTurn
    <2>3. req'[c] = [at |-> "walk", next |-> req[c].next, op |-> req[c].op, arg |-> req[c].arg, scope |-> s,
                     inc |-> req[c].inc, ok |-> req[c].ok, late |-> req[c].late, own |-> req[c].own, rows |-> req[c].rows]
      BY <1>1, <2>2 DEF Is
    <2>4. ns' = ns /\ tbl' = tbl /\ plan' = plan /\ grants' = grants
      BY <1>1, UnmovedIs
    <2>5. Is(req'[c]) /\ Resolves(c) /\ Called(c)
      BY <1>1, <2>1, <2>3, <2>4 DEF Is, Resolves, Active, Called
    <2> QED BY <2>2, <2>4, <2>5, UnmovedMove DEF Turn
  <1>4. CASE Walk(c)
    <2>1. \E rows : Answer(c, rows)
      BY <1>4 DEF Walk
    <2> QED BY <1>1, <2>1, PlainStep
  <1> QED BY <1>2, <1>3, <1>4 DEF Traverse

LEMMA GraphTurn ==
    ASSUME RequestsInv, NEW c \in Clients, neighbors(c) \/ find_path(c) \/ subgraph(c) \/ search_graph(c)
    PROVE  Turn(c) /\ Move(c)
  <1>0. req[c].op \notin GuardedOps
    BY DEF neighbors, find_path, subgraph, search_graph, GuardedOps
  <1>1. CASE requireNamespaceVisible(c, "begin", "open") \/ requireNamespaceVisible(c, "begin", "seed")
    BY <1>1, GuardTurn
  <1>2. CASE /\ req[c].at \in {"seed", "seedrows", "prepare"}
             /\ Go(c, "filter") \/ Go(c, "seedrows") \/ Go(c, "open") \/ Refuse(c)
             /\ Unmoved
    <2>1. Active(req[c])
      BY <1>2 DEF Active
    <2> QED BY <1>2, <2>1, PassTurn
  <1>3. CASE resolveScope(c, "filter", "prepare")
    BY <1>3, ResolveTurn
  <1>4. CASE Traverse(c)
    BY <1>0, <1>4, TraverseTurn
  <1> QED BY <1>1, <1>2, <1>3, <1>4 DEF neighbors, find_path, subgraph, search_graph

-----------------------------------------------------------------------------
(* Operations that write rows.                                              *)

LEMMA PreparedTurn ==
    ASSUME RequestsInv, NEW c \in Clients, NEW op, NEW to, to \notin {"idle", "answered"},
           Prepared(c, op, to)
    PROVE  Turn(c) /\ Move(c)
  <1>1. CASE ensureNamespace(c, "begin", "ensured")
    BY <1>1, GuardTurn
  <1>2. CASE resolveScope(c, "ensured", to)
    <2>1. {"ensured", to} \cap {"idle", "answered"} = {}
      OBVIOUS
    <2> QED BY <1>2, <2>1, ResolveTurn
  <1> QED BY <1>1, <1>2 DEF Prepared

LEMMA InsertTurn ==
    ASSUME RequestsInv, NEW c \in Clients, insert(c) \/ relate(c)
    PROVE  Turn(c) /\ Move(c)
  <1>0. req[c].op \notin GuardedOps
    BY DEF insert, relate, Prepared, At, GuardedOps
  <1>1. CASE Prepared(c, "insert", "guard")
    BY <1>1, PreparedTurn
  <1>2. CASE guardIncarnation(c, "guard", "run") \/ ensureNamespace(c, "shaped", "ensured")
    BY <1>2, GuardTurn
  <1>3. CASE resolveScope(c, "ensured", "guard")
    BY <1>0, <1>3, ResolveTurn
  <1>4. CASE req[c].at = "begin" /\ (Go(c, "shaped") \/ Refuse(c)) /\ Unmoved
    <2>1. Active(req[c])
      BY <1>4 DEF Active
    <2> QED BY <1>4, <2>1, PassTurn
  <1>5. CASE req[c].at = "run" /\ InsertRow(c)
    <2>1. Active(req[c])
      BY <1>5 DEF Active
    <2>2. CASE WriteRows(tbl.rows \cup {Row(c)}) /\ Answer(c, {})
      BY <1>0, <2>1, <2>2, PlainTurn, WriteMove
    <2>3. CASE Failed(c)
      BY <2>3, FailTurn DEF Failed
    <2> QED BY <1>5, <2>2, <2>3 DEF InsertRow
  <1> QED BY <1>1, <1>2, <1>3, <1>4, <1>5 DEF insert, relate, At

\* A write in a transaction that compared the incarnation, about rows that the scope leaves.
LEMMA WriteTurn ==
    ASSUME RequestsInv, NEW c \in Clients, req[c].at = "run", req[c].op # "migrate",
           Table, checkScopeIncarnation(c),
           NEW rows, rows \subseteq Visible(c), Answer(c, rows), NEW new, WriteRows(new)
    PROVE  Turn(c) /\ Move(c)
  <1>1. Active(req[c])
    BY DEF Active
  <1> QED BY <1>1, ScopedTurn, WriteMove

LEMMA ImportTurn ==
    ASSUME RequestsInv, NEW c \in Clients, import_records(c)
    PROVE  Turn(c) /\ Move(c)
  <1>0. req[c].op # "migrate" /\ {} \subseteq Visible(c)
    BY DEF import_records
  <1>1. CASE resolveScope(c, "begin", "run")
    BY <1>0, <1>1, ResolveTurn
  <1>2. CASE /\ req[c].at = "run" /\ Table /\ checkScopeIncarnation(c)
             /\ WriteRows(tbl.rows \cup {Row(c)}) /\ Answer(c, {})
    BY <1>0, <1>2, WriteTurn
  <1>3. CASE Failed(c)
    BY <1>3, FailTurn DEF Failed
  <1> QED BY <1>1, <1>2, <1>3 DEF import_records

ScopedWrite(c) == update(c) \/ upsert(c) \/ upsert_by_key(c) \/ delete(c) \/ batch(c)

LEMMA ScopedWriteTurn ==
    ASSUME RequestsInv, NEW c \in Clients, ScopedWrite(c)
    PROVE  Turn(c) /\ Move(c)
  <1>0. req[c].op # "migrate"
    BY DEF ScopedWrite, update, upsert, upsert_by_key, delete, batch, Prepared, At
  <1>1. ASSUME NEW op \in {"update", "upsert", "upsert_by_key", "delete"}, Prepared(c, op, "run")
        PROVE  Turn(c) /\ Move(c)
    BY <1>1, PreparedTurn
  <1>2. CASE Prepared(c, "batch", "filters")
    BY <1>2, PreparedTurn
  <1>3. CASE At(c, "batch", "filters") /\ Go(c, "run") /\ Unmoved
    <2>1. Active(req[c])
      BY <1>3 DEF At, Active
    <2> QED BY <1>3, <2>1, PassTurn
  <1>4. ASSUME req[c].at = "run", InTx(c), NEW rows, rows \subseteq Visible(c), Answer(c, rows),
               NEW new, WriteRows(new)
        PROVE  Turn(c) /\ Move(c)
    BY <1>0, <1>4, WriteTurn DEF InTx
  <1>5. CASE Failed(c)
    BY <1>5, FailTurn DEF Failed
  <1>6. CASE update(c)
    BY <1>1, <1>4, <1>5, <1>6 DEF update, At
  <1>7. CASE upsert(c)
    BY <1>1, <1>4, <1>5, <1>7 DEF upsert, At
  <1>8. CASE upsert_by_key(c)
    <2>1. CASE At(c, "upsert_by_key", "run") /\ InTx(c) /\ WriteRows(tbl.rows \cup {Row(c)}) /\ Answer(c, {})
      <3>1. {} \subseteq Visible(c)
        OBVIOUS
      <3> QED BY <1>4, <2>1, <3>1 DEF At
    <2>2. ASSUME NEW row \in tbl.rows, At(c, "upsert_by_key", "run"), InTx(c), row \in Visible(c),
                 WriteRows(tbl.rows), Answer(c, {row})
          PROVE  Turn(c) /\ Move(c)
      <3>1. {row} \subseteq Visible(c)
        BY <2>2
      <3> QED BY <1>4, <2>2, <3>1 DEF At
    <2> QED BY <1>1, <1>5, <1>8, <2>1, <2>2 DEF upsert_by_key
  <1>9. CASE delete(c)
    BY <1>1, <1>4, <1>5, <1>9 DEF delete, At
  <1>10. CASE batch(c)
    BY <1>2, <1>3, <1>4, <1>5, <1>10 DEF batch, At
  <1> QED BY <1>6, <1>7, <1>8, <1>9, <1>10 DEF ScopedWrite

-----------------------------------------------------------------------------
(* Operations on schemas, tables and namespaces.                            *)

\* The step of a client that keeps its plan.
LEMMA ShapeMove ==
    ASSUME RequestsInv, NEW c \in Clients, Good(ns', tbl'), Evolves(ns, tbl, ns', tbl'), plan' = plan
    PROVE  Move(c)
  BY DEF RequestsInv, Move

LEMMA CreateTableTurn ==
    ASSUME RequestsInv, NEW c \in Clients, create_table(c)
    PROVE  Turn(c) /\ Move(c)
  <1>0. req[c].op \notin GuardedOps /\ Good(ns, tbl)
    BY DEF create_table, RequestsInv, GuardedOps
  <1>1. CASE ensureNamespace(c, "begin", "run")
    BY <1>1, GuardTurn
  <1>2. ASSUME req[c].at = "run", ns.on, ~tbl.on, NEW own \in BOOLEAN,
               tbl' = [tbl EXCEPT !.on = TRUE, !.ver = 1, !.own = own, !.hasOwner = own],
               Answer(c, {}), UNCHANGED <<registry, scene, ns, decl, calls, plan>>
        PROVE  Turn(c) /\ Move(c)
    <2>1. tbl' = [on |-> TRUE, gen |-> tbl.gen, ver |-> 1, own |-> own, hasOwner |-> own, rows |-> tbl.rows]
      BY <1>0, <1>2 DEF Good
    <2>2. Good(ns', tbl')
      <3>1. ns' = ns /\ ns.on
        BY <1>2
      <3>2. tbl'.on = TRUE /\ tbl'.gen = tbl.gen /\ tbl'.ver = 1 /\ tbl'.own = own /\ tbl'.hasOwner = own /\ tbl'.rows = tbl.rows
        BY <2>1
      <3> QED BY <1>0, <2>1, <3>1, <3>2 DEF Good
    <2>3. Evolves(ns, tbl, ns', tbl')
      BY <1>2, <2>1 DEF Evolves
    <2>4. Active(req[c])
      BY <1>2 DEF Active
    <2> QED BY <1>0, <1>2, <2>2, <2>3, <2>4, PlainTurn, ShapeMove
  <1>3. CASE Failed(c)
    BY <1>3, FailTurn DEF Failed
  <1> QED BY <1>1, <1>2, <1>3 DEF create_table

LEMMA DropTableTurn ==
    ASSUME RequestsInv, NEW c \in Clients, drop_table(c)
    PROVE  Turn(c) /\ Move(c)
  <1>0. req[c].op \notin GuardedOps /\ Good(ns, tbl)
    BY DEF drop_table, At, RequestsInv, GuardedOps
  <1>1. CASE At(c, "drop_table", "begin") /\ Go(c, "run") /\ UNCHANGED <<engine, calls, plan>>
    <2>1. Active(req[c]) /\ ns' = ns /\ tbl' = tbl /\ plan' = plan
      BY <1>1 DEF At, Active, engine
    <2> QED BY <1>1, <2>1, GoTurn, UnmovedMove
  <1>2. CASE /\ At(c, "drop_table", "run") /\ Table
             /\ tbl' = [NoTable EXCEPT !.gen = tbl.gen + 1] /\ Answer(c, {})
             /\ UNCHANGED <<registry, scene, ns, decl, calls, plan>>
    <2>1. tbl' = [on |-> FALSE, gen |-> tbl.gen + 1, ver |-> 0, own |-> FALSE, hasOwner |-> FALSE, rows |-> {}]
      BY <1>2 DEF NoTable
    <2>2. Good(ns', tbl')
      <3>1. ns' = ns /\ ns.on
        BY <1>2 DEF Table
      <3>2. tbl'.on = FALSE /\ tbl'.gen = tbl.gen + 1 /\ tbl'.ver = 0 /\ tbl'.own = FALSE
            /\ tbl'.hasOwner = FALSE /\ tbl'.rows = {}
        BY <2>1
      <3>3. tbl.gen + 1 \in Nat
        BY <1>0 DEF Good
      <3>4. tbl' = [on |-> tbl'.on, gen |-> tbl'.gen, ver |-> tbl'.ver, own |-> tbl'.own,
                    hasOwner |-> tbl'.hasOwner, rows |-> tbl'.rows]
        BY <2>1
      <3>5. ns = [on |-> ns.on, gen |-> ns.gen] /\ ns.on \in BOOLEAN /\ ns.gen \in Nat
        BY <1>0 DEF Good
      <3>6. tbl'.on \in BOOLEAN /\ tbl'.own \in BOOLEAN /\ ~tbl'.on
        BY ONLY <3>2
      <3>7. tbl'.gen \in Nat /\ tbl'.ver \in Nat /\ tbl'.ver = 0
        BY ONLY <3>2, <3>3
      <3> QED BY ONLY <3>1, <3>4, <3>5, <3>6, <3>7, Zenon DEF Good
    <2>3. Evolves(ns, tbl, ns', tbl')
      BY <1>2, <2>1 DEF Evolves, Table
    <2>4. Active(req[c])
      BY <1>2 DEF At, Active
    <2> QED BY <1>0, <1>2, <2>2, <2>3, <2>4, PlainTurn, ShapeMove
  <1>3. CASE Failed(c)
    BY <1>3, FailTurn DEF Failed
  <1> QED BY <1>1, <1>2, <1>3 DEF drop_table

LEMMA NamespaceTurn ==
    ASSUME RequestsInv, NEW c \in Clients, create_namespace(c) \/ drop_namespace(c)
    PROVE  Turn(c) /\ Move(c)
  <1>0. req[c].op \notin GuardedOps /\ Good(ns, tbl)
    BY DEF create_namespace, drop_namespace, At, RequestsInv, GuardedOps
  <1>1. CASE /\ At(c, "create_namespace", "begin") /\ ~ns.on
             /\ ns' = [on |-> TRUE, gen |-> ns.gen + 1]
             /\ Answer(c, {}) /\ UNCHANGED <<registry, scene, tbl, decl, calls, plan>>
    <2>1. Good(ns', tbl') /\ Evolves(ns, tbl, ns', tbl') /\ plan' = plan
      BY <1>0, <1>1 DEF Good, Evolves
    <2>2. Active(req[c])
      BY <1>1 DEF At, Active
    <2> QED BY <1>0, <1>1, <2>1, <2>2, PlainTurn, ShapeMove
  <1>2. CASE At(c, "drop_namespace", "begin") /\ Go(c, "run") /\ UNCHANGED <<engine, calls, plan>>
    <2>1. Active(req[c]) /\ ns' = ns /\ tbl' = tbl /\ plan' = plan
      BY <1>2 DEF At, Active, engine
    <2> QED BY <1>2, <2>1, GoTurn, UnmovedMove
  <1>3. CASE /\ At(c, "drop_namespace", "run") /\ ns.on
             /\ ns' = [ns EXCEPT !.on = FALSE] /\ tbl' = NoTable
             /\ Answer(c, {}) /\ UNCHANGED <<registry, scene, decl, calls, plan>>
    <2>1. ns' = [on |-> FALSE, gen |-> ns.gen]
      BY <1>0, <1>3 DEF Good
    <2>2. Good(ns', tbl') /\ Evolves(ns, tbl, ns', tbl') /\ plan' = plan
      BY <1>0, <1>3, <2>1 DEF Good, Evolves, NoTable
    <2>3. Active(req[c])
      BY <1>3 DEF At, Active
    <2> QED BY <1>0, <1>3, <2>2, <2>3, PlainTurn, ShapeMove
  <1>4. CASE Failed(c)
    BY <1>4, FailTurn DEF Failed
  <1> QED BY <1>1, <1>2, <1>3, <1>4 DEF create_namespace, drop_namespace

\* A migration that carries a token compares it in its own transaction.
LEMMA MigrateRun ==
    ASSUME RequestsInv, NEW c \in Clients, Migrate(c)
    PROVE  Turn(c) /\ Move(c)
  <1>0. Good(ns, tbl) /\ Remembered(plan[c], c, staleplan, ns, tbl) /\ ns' = ns
    BY DEF Migrate, RequestsInv, RequestFits
  <1>1. CASE Refuse(c) /\ UNCHANGED <<tbl, plan>>
    BY <1>0, <1>1, RefuseTurn, UnmovedMove
  <1>2. CASE /\ Table /\ ExpectedHolds(c)
             /\ tbl' = [tbl EXCEPT !.ver = @ + 1, !.own = req[c].arg = "row_access_on",
                                   !.hasOwner = @ \/ req[c].arg = "row_access_on"]
             /\ plan' = [plan EXCEPT ![c] = Zero]
             /\ Set(c, [Quiet EXCEPT !.at = "answered", !.op = "migrate",
                          !.ok = plan[c] # Zero => c \notin staleplan])
    <2>1. plan[c] # Zero => c \notin staleplan
      <3> SUFFICES ASSUME plan[c] # Zero PROVE c \notin staleplan
        OBVIOUS
      <3>1. ns.on /\ tbl.on /\ plan[c] = <<ns.gen, tbl.gen, tbl.ver>>
        BY <1>2 DEF ExpectedHolds, Table, Incarnation
      <3> QED BY <1>0, <3>1, PresentIsFresh
    <2>2. /\ req'[c] = [Quiet EXCEPT !.at = "answered", !.op = "migrate", !.ok = plan[c] # Zero => c \notin staleplan]
          /\ req' = [req EXCEPT ![c] = req'[c]]
      BY <1>2, SetTurn
    <2>3. Is(req'[c]) /\ req'[c].at = "answered" /\ req'[c].inc = Zero
          /\ req'[c].ok = (plan[c] # Zero => c \notin staleplan)
      BY <2>2 DEF Quiet, Is
    <2>4. Turn(c)
      BY <2>1, <2>2, <2>3 DEF Turn, Done, Called, Active
    <2>5. PICK own, has : own \in BOOLEAN /\ tbl' = [tbl EXCEPT !.ver = @ + 1, !.own = own, !.hasOwner = has]
      BY <1>2
    <2>6. tbl' = [on |-> tbl.on, gen |-> tbl.gen, ver |-> tbl.ver + 1, own |-> own, hasOwner |-> has, rows |-> tbl.rows]
      BY <1>0, <2>5 DEF Good
    <2>7. tbl'.on = tbl.on /\ tbl'.gen = tbl.gen /\ tbl'.ver = tbl.ver + 1 /\ tbl'.own = own
      BY <2>6
    <2>8. tbl.on /\ ns.on
      BY <1>2 DEF Table
    <2>9. Good(ns', tbl')
      <3>1. tbl'.ver \in Nat /\ tbl'.gen \in Nat
        BY <1>0, <2>7 DEF Good
      <3>2. tbl' = [on |-> tbl'.on, gen |-> tbl'.gen, ver |-> tbl'.ver, own |-> tbl'.own,
                    hasOwner |-> tbl'.hasOwner, rows |-> tbl'.rows]
        BY <2>6
      <3>3. tbl'.on \in BOOLEAN /\ tbl'.own \in BOOLEAN /\ tbl'.on
        BY <1>0, <2>5, <2>7, <2>8 DEF Good
      <3>4. ns' = [on |-> ns'.on, gen |-> ns'.gen] /\ ns'.on \in BOOLEAN /\ ns'.gen \in Nat /\ ns'.on
        BY <1>0, <2>8 DEF Good
      <3> QED BY ONLY <3>1, <3>2, <3>3, <3>4, Zenon DEF Good
    <2>10. Evolves(ns, tbl, ns', tbl')
      BY <1>0, <2>7, <2>8 DEF Evolves
    <2>11. plan'[c] = Zero /\ plan' = [plan EXCEPT ![c] = plan'[c]]
      BY <1>2 DEF RequestsInv
    <2> QED BY <2>4, <2>9, <2>10, <2>11 DEF Move
  <1> QED BY <1>1, <1>2 DEF Migrate

LEMMA MigrateTurn ==
    ASSUME RequestsInv, NEW c \in Clients, migrate(c)
    PROVE  Turn(c) /\ Move(c)
  <1>0. req[c].op = "migrate"
    BY DEF migrate, PlanMigration, Migrate, At
  <1>1. CASE ensureNamespace(c, "begin", "ensured")
    BY <1>1, GuardTurn
  <1>2. CASE resolveScope(c, "ensured", "plan")
    BY <1>0, <1>2, ResolveTurn
  <1>3. CASE PlanMigration(c)
    <2>1. Active(req[c]) /\ ns' = ns /\ tbl' = tbl /\ {} \subseteq Visible(c)
      BY <1>3 DEF PlanMigration, At, Active, engine
    <2>2. CASE InTx(c)
      <3>1. plan' = [plan EXCEPT ![c] = Incarnation] /\ Answer(c, {}) /\ Table /\ checkScopeIncarnation(c)
        BY <1>3, <2>2 DEF PlanMigration, InTx
      <3>2. Turn(c)
        BY <1>0, <2>1, <3>1, ScopedTurn
      <3>3. Good(ns', tbl') /\ SameShape(ns, tbl, ns', tbl')
        BY <2>1 DEF RequestsInv, SameShape
      <3>4. plan'[c] = Incarnation /\ plan' = [plan EXCEPT ![c] = plan'[c]]
        BY <3>1 DEF RequestsInv
      <3> QED BY <3>1, <3>2, <3>3, <3>4 DEF Move, Evolves
    <2>3. CASE ~InTx(c)
      <3>1. Refuse(c) /\ plan' = plan
        BY <1>3, <2>3 DEF PlanMigration
      <3> QED BY <2>1, <3>1, RefuseTurn, UnmovedMove
    <2> QED BY <2>2, <2>3
  <1>4. CASE At(c, "migrate", "ensured") /\ Go(c, "run") /\ Unmoved
    <2>1. Active(req[c])
      BY <1>4 DEF At, Active
    <2> QED BY <1>4, <2>1, PassTurn
  <1>5. CASE Migrate(c)
    BY <1>5, MigrateRun
  <1> QED BY <1>1, <1>2, <1>3, <1>4, <1>5 DEF migrate

-----------------------------------------------------------------------------
(* Operations on grants and keys.                                           *)

LEMMA RegistryTurn ==
    ASSUME RequestsInv, NEW c \in Clients, grant(c) \/ revoke(c) \/ create_key(c) \/ revoke_key(c)
    PROVE  Turn(c) /\ Move(c)
  <1>0. req[c].op \notin GuardedOps /\ Active(req[c])
    BY DEF grant, requireGrantableObject, revoke, create_key, revoke_key, Registers, At, Active, GuardedOps
  <1>1. CASE requireGrantableObject(c)
    <2>1. (Go(c, "run") \/ Refuse(c)) /\ Unmoved
      BY <1>1 DEF requireGrantableObject
    <2> QED BY <1>0, <2>1, PassTurn
  <1>2. CASE ~requireGrantableObject(c)
    <2>1. (Answer(c, {}) \/ Go(c, "registry")) /\ UNCHANGED <<engine, calls, plan>>
      BY <1>2 DEF grant, revoke, create_key, revoke_key, Registers
    <2>2. ns' = ns /\ tbl' = tbl /\ plan' = plan
      BY <2>1 DEF engine
    <2> QED BY <1>0, <2>1, <2>2, PlainTurn, GoTurn, UnmovedMove
  <1> QED BY <1>1, <1>2

-----------------------------------------------------------------------------
LEMMA OperationTurn ==
    ASSUME RequestsInv, NEW c \in Clients, Operation(c)
    PROVE  Turn(c) /\ Move(c)
  <1>1. CASE read_rows(c) \/ search_fulltext(c) \/ file_url(c)
    <2>1. \E op : ReadOnce(c, op) /\ op # "migrate"
      BY <1>1 DEF read_rows, search_fulltext, file_url
    <2> QED BY <2>1, ReadOnceTurn
  <1>2. CASE Plain(c)
    BY <1>2, PlainOperations
  <1>3. CASE ScopedWrite(c)
    BY <1>3, ScopedWriteTurn
  <1>4. CASE search_vector(c) \/ describe_table(c) \/ tokenize(c) \/ changes_since(c) \/ wait_for(c)
    BY <1>4, SearchVectorTurn, DescribeTurn, ChangesSinceTurn, WaitTurn
  <1>5. CASE neighbors(c) \/ find_path(c) \/ subgraph(c) \/ search_graph(c)
    BY <1>5, GraphTurn
  <1>6. CASE grant(c) \/ revoke(c) \/ create_key(c) \/ revoke_key(c)
    BY <1>6, RegistryTurn
  <1>7. CASE insert(c) \/ relate(c) \/ import_records(c)
    BY <1>7, InsertTurn, ImportTurn
  <1>8. CASE create_table(c) \/ drop_table(c) \/ create_namespace(c) \/ drop_namespace(c) \/ migrate(c)
    BY <1>8, CreateTableTurn, DropTableTurn, NamespaceTurn, MigrateTurn
  <1> QED BY <1>1, <1>2, <1>3, <1>4, <1>5, <1>6, <1>7, <1>8 DEF Operation, Plain, ScopedWrite

\* The shape of the table changes exactly when its records say so.
LEMMA ShapeIs == (Shape' = Shape) <=> SameShape(ns, tbl, ns', tbl')
  BY DEF Shape, SameShape

LEMMA AllowedStays ==
    ASSUME NEW c, grants' = grants, ns' = ns, tbl' = tbl
    PROVE  AllowedAll(c)' <=> AllowedAll(c)
  BY DEF AllowedAll, Held, EffectiveVerbs, Table

\* What Watch says of one client.
LEMMA WatchIs ==
    ASSUME NEW c \in Clients, Watch
    PROVE  /\ c \in stale' <=> ~SameShape(ns, tbl, ns', tbl') \/ (c \in stale /\ req'[c].inc = req[c].inc)
           /\ c \in staleplan' <=> ~SameShape(ns, tbl, ns', tbl') \/ (c \in staleplan /\ plan'[c] = plan[c])
           /\ c \in wide' <=> Active(req'[c]) /\ (AllowedAll(c)' \/ (c \in wide /\ SameShape(ns, tbl, ns', tbl')))
  <1>1. c \in stale' <=> Shape' # Shape \/ (c \in stale /\ req'[c].inc = req[c].inc)
    BY Zenon DEF Watch
  <1>2. c \in staleplan' <=> Shape' # Shape \/ (c \in staleplan /\ plan'[c] = plan[c])
    BY Zenon DEF Watch
  <1>3. c \in wide' <=> Active(req'[c]) /\ (AllowedAll(c)' \/ (c \in wide /\ Shape' = Shape))
    BY Zenon DEF Watch, Active
  <1> QED BY <1>1, <1>2, <1>3, ShapeIs

\* The client whose step it is.
LEMMA OwnStep ==
    ASSUME RequestsInv, NEW c \in Clients, Turn(c), Move(c), Watch
    PROVE  RequestFits(c)'
  <1>1. RequestFits(c) /\ Good(ns, tbl) /\ Good(ns', tbl') /\ Evolves(ns, tbl, ns', tbl')
    BY DEF RequestsInv, Move
  <1>2. /\ c \in stale' <=> ~SameShape(ns, tbl, ns', tbl') \/ (c \in stale /\ req'[c].inc = req[c].inc)
        /\ c \in staleplan' <=> ~SameShape(ns, tbl, ns', tbl') \/ (c \in staleplan /\ plan'[c] = plan[c])
        /\ c \in wide' <=> Active(req'[c]) /\ (AllowedAll(c)' \/ (c \in wide /\ SameShape(ns, tbl, ns', tbl')))
    BY WatchIs
  <1>3. Is(req'[c])
    BY DEF Turn
  <1>4. \/ req'[c].inc \in {req[c].inc, Zero}
        \/ ns.on /\ tbl.on /\ req'[c].inc = <<ns.gen, tbl.gen, tbl.ver>> /\ SameShape(ns, tbl, ns', tbl')
    BY DEF Turn, Goes, Begins, Resolves, Done, SameShape, Table, Incarnation
  <1>5. Remembered(req'[c].inc, c, stale', ns', tbl')
    <2>1. Remembered(req[c].inc, c, stale, ns, tbl)
      BY <1>1 DEF RequestFits
    <2>2. PICK i, j : i = req[c].inc /\ j = req'[c].inc  OBVIOUS
    <2>3. PICK S, T : S = stale /\ T = stale'  OBVIOUS
    <2>4. Remembered(i, c, S, ns, tbl)  BY <2>1, <2>2, <2>3
    <2>5. \/ j \in {i, Zero}
          \/ ns.on /\ tbl.on /\ j = <<ns.gen, tbl.gen, tbl.ver>> /\ SameShape(ns, tbl, ns', tbl')
      BY <1>4, <2>2
    <2>6. c \in T <=> ~SameShape(ns, tbl, ns', tbl') \/ (c \in S /\ j = i)  BY <1>2, <2>2, <2>3
    <2>7. Remembered(j, c, T, ns', tbl')  BY <1>1, <2>4, <2>5, <2>6, RememberedStays
    <2> QED BY <2>2, <2>3, <2>7
  <1>6. Remembered(plan'[c], c, staleplan', ns', tbl')
    <2>1. Remembered(plan[c], c, staleplan, ns, tbl)
      BY <1>1 DEF RequestFits
    <2>2. \/ plan'[c] \in {plan[c], Zero}
          \/ ns.on /\ tbl.on /\ plan'[c] = <<ns.gen, tbl.gen, tbl.ver>> /\ SameShape(ns, tbl, ns', tbl')
      BY DEF Move, Table, Incarnation
    <2>3. c \in staleplan' <=> ~SameShape(ns, tbl, ns', tbl') \/ (c \in staleplan /\ plan'[c] = plan[c])
      BY <1>2
    <2>4. Good(ns, tbl) /\ Good(ns', tbl') /\ Evolves(ns, tbl, ns', tbl')
      BY <1>1
    <2> QED BY ONLY <2>1, <2>2, <2>3, <2>4, RememberedStays
  <1>7. Active(req'[c]) /\ AllowedAll(c)' => c \in wide'
    BY <1>2
  <1>8. ASSUME Active(req'[c]), req'[c].inc # Zero, c \notin stale', req'[c].scope = "all" PROVE c \in wide'
    <2>1. SameShape(ns, tbl, ns', tbl') /\ ~(c \in stale /\ req'[c].inc = req[c].inc)
      BY <1>2, <1>8
    <2>2. CASE Goes(c)
      <3>1. c \in wide
        BY <1>1, <1>8, <2>1, <2>2 DEF RequestFits, Goes
      <3> QED BY <1>2, <1>8, <2>1, <3>1
    <2>3. CASE Resolves(c)
      <3>1. AllowedAll(c) => c \in wide'
        BY <1>2, <1>8, <2>3, AllowedStays DEF Resolves
      <3>2. CASE Table /\ ~tbl.own
        BY <3>1, <3>2 DEF AllowedAll
      <3>3. CASE "read" \in Held(c, Tab)
        BY <3>1, <3>3 DEF AllowedAll
      <3>4. CASE req'[c].inc = req[c].inc /\ req[c].scope = "all"
        <4>1. c \in wide
          BY <1>1, <1>8, <2>1, <2>3, <3>4 DEF RequestFits, Resolves
        <4> QED BY <1>2, <1>8, <2>1, <4>1
      <3> QED BY <1>8, <2>3, <3>2, <3>3, <3>4 DEF Resolves
    <2>4. ~Begins(c) /\ ~Done(c)
      BY <1>8 DEF Begins, Done, Active
    <2> QED BY <2>2, <2>3, <2>4 DEF Turn
  <1>10. ASSUME req'[c].at = "answered", Judged(req'[c]) PROVE req'[c].ok = TRUE
    BY <1>10 DEF Turn, Goes, Begins, Resolves, Done, Active
  <1>11. ASSUME Active(req'[c]), req'[c].op \in {"grant", "revoke"} PROVE req'[c].arg \in GrantArgs
    BY <1>1, <1>11 DEF Turn, Called, RequestFits
  <1> QED BY <1>3, <1>5, <1>6, <1>7, <1>8, <1>10, <1>11 DEF RequestFits

\* A client that stands by.
LEMMA OthersStep ==
    ASSUME RequestsInv, NEW d \in Clients, req'[d] = req[d], plan'[d] = plan[d], Watch,
           Good(ns', tbl'), Evolves(ns, tbl, ns', tbl')
    PROVE  RequestFits(d)'
  <1>1. RequestFits(d) /\ Good(ns, tbl)
    BY DEF RequestsInv
  <1>2. /\ d \in stale' <=> ~SameShape(ns, tbl, ns', tbl') \/ (d \in stale /\ req'[d].inc = req[d].inc)
        /\ d \in staleplan' <=> ~SameShape(ns, tbl, ns', tbl') \/ (d \in staleplan /\ plan'[d] = plan[d])
        /\ d \in wide' <=> Active(req'[d]) /\ (AllowedAll(d)' \/ (d \in wide /\ SameShape(ns, tbl, ns', tbl')))
    BY WatchIs
  <1>3. Remembered(req'[d].inc, d, stale', ns', tbl') /\ Remembered(plan'[d], d, staleplan', ns', tbl')
    BY <1>1, <1>2, RememberedStays DEF RequestFits
  <1>4. Active(req'[d]) /\ AllowedAll(d)' => d \in wide'
    BY <1>2
  <1>5. Active(req'[d]) /\ req'[d].inc # Zero /\ d \notin stale' /\ req'[d].scope = "all" => d \in wide'
    BY <1>1, <1>2 DEF RequestFits
  <1> QED BY <1>1, <1>3, <1>4, <1>5 DEF RequestFits

LEMMA RequestsStep ==
    ASSUME RequestsInv, [Next]_vars
    PROVE  RequestsInv'
  <1>1. ASSUME NEW c \in Clients, Turn(c), Move(c), Watch PROVE RequestsInv'
    <2>1. Good(ns', tbl') /\ Evolves(ns, tbl, ns', tbl')
      BY <1>1 DEF Move
    <2>2. \A d \in Clients : d # c => req'[d] = req[d] /\ plan'[d] = plan[d]
      BY <1>1 DEF Turn, Move, RequestsInv
    <2>3. req' = [d \in Clients |-> req'[d]] /\ plan' = [d \in Clients |-> plan'[d]]
      BY <1>1 DEF Turn, Move, RequestsInv
    <2>4. \A d \in Clients : RequestFits(d)'
      BY <1>1, <2>1, <2>2, OwnStep, OthersStep
    <2> QED BY <2>1, <2>3, <2>4 DEF RequestsInv
  <1>2. ASSUME NEW c \in Clients, withOpDeadline(c) PROVE Turn(c) /\ Move(c)
    <2>1. Refuse(c) /\ ns' = ns /\ tbl' = tbl /\ plan' = plan
      BY <1>2 DEF withOpDeadline, engine
    <2> QED BY <2>1, RefuseTurn, UnmovedMove
  <1>3. ASSUME NEW c \in Clients, Watch,
               Authenticated(c) \/ Admission(c) \/ Operation(c) \/ WaitDeadline(c) \/ withOpDeadline(c)
        PROVE  RequestsInv'
    BY <1>1, <1>2, <1>3, AuthenticatedTurn, AdmissionTurn, OperationTurn, WaitTurn
  <1>4. CASE Watch /\ UNCHANGED <<engine, req, calls, plan>>
    <2>1. req' = req /\ plan' = plan /\ ns' = ns /\ tbl' = tbl
      BY <1>4 DEF engine
    <2>2. Good(ns', tbl') /\ Evolves(ns, tbl, ns', tbl')
      BY <2>1 DEF RequestsInv, Evolves, SameShape
    <2>3. \A d \in Clients : RequestFits(d)'
      BY <1>4, <2>1, <2>2, OthersStep
    <2> QED BY <2>1, <2>2, <2>3 DEF RequestsInv
  <1>5. CASE UNCHANGED vars
    <2>1. /\ req' = req /\ plan' = plan /\ ns' = ns /\ tbl' = tbl /\ stale' = stale
          /\ staleplan' = staleplan /\ wide' = wide /\ grants' = grants
      BY <1>5 DEF vars, engine, watch, registry
    <2>2. \A d \in Clients : RequestFits(d)'
      BY <2>1, AllowedStays DEF RequestsInv, RequestFits
    <2> QED BY <2>1, <2>2 DEF RequestsInv
  <1> QED BY <1>3, <1>4, <1>5 DEF Next

LEMMA RequestsStart == Init => RequestsInv
  <1> SUFFICES ASSUME Init PROVE RequestsInv
    OBVIOUS
  <1>1. PICK own \in BOOLEAN : tbl = [on |-> TRUE, gen |-> 0, ver |-> 1, own |-> own, hasOwner |-> own, rows |-> {}]
    BY DEF Init, NoTable
  <1>2. Good(ns, tbl)
    BY <1>1 DEF Init, Good
  <1>3. \A c \in Clients : RequestFits(c)
    BY DEF Init, RequestFits, Quiet, Is, Remembered, Active
  <1> QED BY <1>2, <1>3 DEF Init, RequestsInv

\* Whatever grants, revocations, migrations, drops and creations come between the
\* reads of a request, if its operation compares the incarnation inside its transaction
\* (GuardedOps: not insert, relate, changes_since, wait_for or a traversal): it gets, and
\* changes, rows of others only when it was allowed all rows of this very table, it never
\* runs on an incarnation that it did not resolve, and a migration is applied to the table
\* it was planned for (resolveScope, checkScopeIncarnation, the token of a dry run).
THEOREM RequestsRunWhereDecided == Spec => []DecidedWhereRun
  <1>1. RequestsInv => DecidedWhereRun
    BY DEF RequestsInv, RequestFits, Judged, DecidedWhereRun, ScopeFits, PlanFits
  <1> QED BY <1>1, RequestsStart, RequestsStep, PTL DEF Spec

-----------------------------------------------------------------------------
(***************************************************************************)
(* What requests do to the registry are its own operations.                 *)
(***************************************************************************)
LEMMA UnmovedRegistry ==
    ASSUME NEW c, \/ Unmoved \/ (\E rows : WriteRows(rows)) \/ Failed(c)
                  \/ UNCHANGED <<registry, scene, ns, decl, calls, plan>>
    PROVE  UNCHANGED registry /\ scene' = scene
  BY DEF Unmoved, WriteRows, Failed, engine

LEMMA AdmissionRegistry ==
    ASSUME NEW c, Authenticated(c) \/ Admission(c) \/ WaitDeadline(c)
    PROVE  UNCHANGED registry /\ scene' = scene
  <1>1. CASE Authenticated(c)
    BY <1>1 DEF Authenticated, engine
  <1>2. CASE ~Authenticated(c)
    <2>1. Unmoved
      BY <1>2 DEF Admission, authorizeVerbs, authorizeAny, authorizeOpen, tableHasRowAccess, declaredSchema,
            holdsTableWideRead, authorizeConstraints, WaitDeadline
    <2> QED BY <2>1, UnmovedRegistry
  <1> QED BY <1>1, <1>2

LEMMA ReadRegistry ==
    ASSUME NEW c, \/ read_rows(c) \/ search_fulltext(c) \/ file_url(c) \/ search_vector(c) \/ describe_table(c)
                  \/ tokenize(c) \/ changes_since(c) \/ wait_for(c) \/ Plain(c)
                  \/ neighbors(c) \/ find_path(c) \/ subgraph(c) \/ search_graph(c)
    PROVE  UNCHANGED registry /\ scene' = scene
  <1>1. Unmoved
    BY DEF read_rows, search_fulltext, file_url, ReadOnce, search_vector, describe_table, tokenize, changes_since,
          wait_for, WaitRead, guardIncarnation, resolveScope, resolveTable, resolveVerbs, Plain, query, list_migrations,
          list_tables, list_namespaces, describe_server, capabilities, infer_schema, whoami, list_grants, list_keys,
          vacuum, neighbors, find_path, subgraph, search_graph, Traverse, Snapshot, graphScope, Walk, requireNamespaceVisible
  <1> QED BY <1>1, UnmovedRegistry

LEMMA WriteRegistry ==
    ASSUME NEW c, \/ insert(c) \/ relate(c) \/ import_records(c) \/ ScopedWrite(c) \/ create_table(c)
                  \/ create_namespace(c) \/ migrate(c)
    PROVE  UNCHANGED registry /\ scene' = scene
  <1>1. CASE insert(c) \/ relate(c) \/ import_records(c)
    <2>1. Unmoved \/ (\E rows : WriteRows(rows)) \/ Failed(c)
      BY <1>1 DEF insert, relate, import_records, InsertRow, Prepared, ensureNamespace, guardIncarnation, resolveScope,
            resolveTable, resolveVerbs
    <2> QED BY <2>1, UnmovedRegistry
  <1>2. CASE ScopedWrite(c)
    <2>1. Unmoved \/ (\E rows : WriteRows(rows)) \/ Failed(c)
      BY <1>2 DEF ScopedWrite, update, upsert, upsert_by_key, delete, batch, Prepared, ensureNamespace, resolveScope,
            resolveTable, resolveVerbs
    <2> QED BY <2>1, UnmovedRegistry
  <1>3. CASE create_table(c) \/ create_namespace(c)
    <2>1. Unmoved \/ Failed(c) \/ (UNCHANGED registry /\ scene' = scene)
      BY <1>3 DEF create_table, create_namespace, ensureNamespace
    <2> QED BY <2>1, UnmovedRegistry
  <1>4. CASE migrate(c)
    <2>1. Unmoved \/ (UNCHANGED registry /\ scene' = scene)
      BY <1>4 DEF engine, migrate, PlanMigration, Migrate, ensureNamespace, resolveScope, resolveTable, resolveVerbs
    <2> QED BY <2>1, UnmovedRegistry
  <1> QED BY <1>1, <1>2, <1>3, <1>4

LEMMA RegistryOperation ==
    ASSUME RequestsInv, NEW c \in Clients,
           \/ grant(c) \/ revoke(c) \/ create_key(c) \/ revoke_key(c) \/ drop_table(c) \/ drop_namespace(c)
    PROVE  [RegistryNext]_registry /\ scene' = scene
  <1>1. CASE drop_table(c) \/ drop_namespace(c)
    <2>1. Failed(c) \/ (scene' = scene /\ (DropGrants(c, Tab) \/ DropGrants(c, Ns) \/ UNCHANGED registry))
      BY <1>1 DEF drop_table, drop_namespace, engine
    <2>2. Tab \in Objects /\ Ns \in Objects
      BY RequestsAssumption
    <2> QED BY <2>1, <2>2, UnmovedRegistry DEF RegistryNext
  <1>2. CASE create_key(c) \/ revoke_key(c)
    <2>1. scene' = scene /\ ((\E k \in Keys : CreateKey(c, k) \/ RevokeKey(c, k)) \/ Statement(c) \/ UNCHANGED registry)
      BY <1>2 DEF create_key, revoke_key, Registers, engine
    <2> QED BY <2>1 DEF RegistryNext
  <1>3. CASE grant(c) \/ revoke(c)
    <2>1. CASE Unmoved
      BY <2>1, UnmovedRegistry
    <2>2. CASE ~Unmoved
      <3>1. /\ Active(req[c]) /\ scene' = scene /\ req[c].op \in {"grant", "revoke"}
            /\ \/ Grant(c, req[c].arg[1], req[c].arg[2], req[c].arg[3])
               \/ Revoke(c, req[c].arg[1], req[c].arg[2], req[c].arg[3])
               \/ Statement(c)
        BY <1>3, <2>2 DEF grant, requireGrantableObject, revoke, Registers, Active, engine
      <3>2. req[c].arg \in (Principals \cup Groups) \X Objects \X SUBSET Verbs
        BY <3>1, RequestsAssumption DEF RequestsInv, RequestFits
      <3>3. req[c].arg[1] \in Subjects /\ req[c].arg[2] \in Objects /\ req[c].arg[3] \in SUBSET Verbs
        BY <3>2 DEF Subjects
      <3> QED BY <3>1, <3>3 DEF RegistryNext
    <2> QED BY <2>1, <2>2
  <1> QED BY <1>1, <1>2, <1>3

LEMMA RegistryOfRequests ==
    ASSUME RequestsInv, scene \in Scenes, [Next]_vars
    PROVE  [RegistryNext]_registry /\ scene' = scene
  <1>1. ASSUME NEW c \in Clients, Operation(c) PROVE [RegistryNext]_registry /\ scene' = scene
    <2>1. CASE grant(c) \/ revoke(c) \/ create_key(c) \/ revoke_key(c) \/ drop_table(c) \/ drop_namespace(c)
      BY <2>1, RegistryOperation
    <2>2. CASE ~(grant(c) \/ revoke(c) \/ create_key(c) \/ revoke_key(c) \/ drop_table(c) \/ drop_namespace(c))
      BY <1>1, <2>2, ReadRegistry, WriteRegistry DEF Operation, Plain, ScopedWrite
    <2> QED BY <2>1, <2>2
  <1>2. ASSUME NEW k \in scene.expire, ExpireKey(k), UNCHANGED <<engine, req, calls, plan>>
        PROVE  [RegistryNext]_registry /\ scene' = scene
    BY <1>2, RequestsAssumption DEF RegistryNext, engine
  <1>3. CASE UNCHANGED vars
    BY <1>3 DEF vars, engine
  <1>4. ASSUME NEW c \in Clients, withOpDeadline(c) PROVE [RegistryNext]_registry /\ scene' = scene
    BY <1>4 DEF withOpDeadline, RegistryNext, engine
  <1> QED BY <1>1, <1>2, <1>3, <1>4, AdmissionRegistry DEF Next

\* Through whatever requests to one process, and however they interleave, administrators
\* change grants and keys: a deployment that somebody can administer stays one, unless a
\* key expires (Revoke, RevokeKey, drop_table, drop_namespace, withOpDeadline).
THEOREM RequestsKeepRoot == OneProcess => (Spec => RootKept)
  <1> SUFFICES ASSUME OneProcess PROVE Spec => RootKept
    OBVIOUS
  <1> DEFINE I == RequestsInv /\ scene \in Scenes /\ RegistryInv
  <1>1. Init => I
    <2> SUFFICES ASSUME Init PROVE I
      OBVIOUS
    <2>1. RegistryTypeOK /\ \A c \in Clients : calling[c].at = "out"
      BY RequestsAssumption, OutTypes, OutFits DEF Init, RegistryTypeOK, Subjects
    <2>2. scene \in Scenes
      BY DEF Init
    <2> QED BY <2>1, <2>2, RequestsStart, RegistryStart
  <1>2. I /\ [Next]_vars => I'
    <2> SUFFICES ASSUME I, [Next]_vars PROVE I'
      OBVIOUS
    <2> QED BY RequestsStep, RegistryOfRequests, RegistryStep
  <1>3. I /\ [Next]_vars => [RootReachable /\ ~Expires => RootReachable']_registry
    BY RegistryOfRequests, RootStays
  <1> QED BY <1>1, <1>2, <1>3, PTL DEF Spec, RootKept
=============================================================================
