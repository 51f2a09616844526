------------------------------ MODULE Registry ------------------------------
(***************************************************************************)
(* The auth registry: grants of verbs on objects to principals and groups, *)
(* and API keys, in one SQLite file that the processes of a deployment     *)
(* share.  What changes it takes Registry.mu, which is a lock of the       *)
(* process; under it each statement commits by itself.  What needs care is  *)
(* the last root administrator, whom revocations by several administrators *)
(* must not take away between them: a revocation reads the grant, the      *)
(* administrators and the keys that would remain, and then writes.         *)
(***************************************************************************)
EXTENDS Naturals

CONSTANTS
    Principals,     \* principals that grants may name
    Groups,         \* groups that grants may name
    Objects,        \* the root object, namespaces and tables
    Root,           \* the object "*"
    Covering,       \* object -> the objects whose grants cover it
    Verbs,
    Keys,           \* API keys
    KeyPrincipal,   \* key -> the principal it authenticates as
    KeyGroups,      \* key -> the groups it carries
    Reachable,      \* principals that the header or the OIDC source can assert
    AdminKey,       \* DOLMEN_ADMIN_KEY is configured
    Clients,        \* who calls the server
    ServerOf        \* client -> the process that serves it

ASSUME RegistryAssumption ==
    /\ Root \in Objects /\ "admin" \in Verbs
    /\ Principals \cap Groups = {}
    /\ Covering \in [Objects -> SUBSET Objects] /\ Covering[Root] = {Root}
    /\ KeyPrincipal \in [Keys -> Principals]
    /\ KeyGroups \in [Keys -> SUBSET Groups]
    /\ Reachable \subseteq Principals
    /\ AdminKey \in BOOLEAN

VARIABLES
    grants,     \* triples of subject, object and verb
    keys,       \* key -> absent, live, revoked or expired
    calling     \* client -> its call to the registry, between two statements of it

registry == <<grants, keys, calling>>
Subjects == Principals \cup Groups

\* A call of op on a grant's subject and object, or on a key: the verbs that the
\* grant's row will have and whether it was there, the administrators that count
\* and the keys that were counted on.
Out == [op |-> "none", at |-> "out", of |-> <<>>, row |-> {}, found |-> FALSE, admins |-> {}, seen |-> {}]
OnGrant == {"grant", "revoke"}

CallTypeOK(r) ==
    /\ r = [op |-> r.op, at |-> r.at, of |-> r.of, row |-> r.row, found |-> r.found, admins |-> r.admins, seen |-> r.seen]
    /\ r.row \subseteq Verbs /\ r.seen \subseteq Keys
    /\ r.op \in OnGrant => r.of \in Subjects \X Objects
    /\ r.op = "revoke_key" => r.of \in {<<k>> : k \in Keys}

RegistryTypeOK ==
    /\ grants \subseteq Subjects \X Objects \X Verbs
    /\ keys \in [Keys -> {"absent", "live", "revoked", "expired"}]
    /\ calling = [c \in Clients |-> calling[c]]
    /\ \A c \in Clients : CallTypeOK(calling[c])

\* The union of the verbs granted to the principal and to its groups on the
\* object and on the objects that cover it.
EffectiveVerbs(p, gs, o) ==
    {v \in Verbs : \E s \in {p} \cup gs, c \in Covering[o] : <<s, c, v>> \in grants}

\* Whether a grant on the object or inside it makes its namespace visible.
AnyGrant(p, gs) == \E s \in {p} \cup gs, o \in Objects, v \in Verbs : <<s, o, v>> \in grants

rootAdmins(g) == {s \in Subjects : <<s, Root, "admin">> \in g}
activeKeys == {k \in Keys : keys[k] = "live"}

rootReachableByKey(admins, ks) ==
    \E k \in ks : KeyPrincipal[k] \in admins \/ KeyGroups[k] \cap admins # {}

\* CheckRootAdministrator, the startup check: somebody can administer.
RootReachable ==
    \/ AdminKey
    \/ rootAdmins(grants) \cap Reachable # {}
    \/ rootReachableByKey(rootAdmins(grants), activeKeys)

-----------------------------------------------------------------------------
\* Registry.mu of the client's process is free.
Unlocked(c) == \A d \in Clients : ServerOf[d] = ServerOf[c] => calling[d].at = "out"

\* The call goes on; with Out it returns, and unlocks.
Proceed(c, r) == calling' = [calling EXCEPT ![c] = r] /\ UNCHANGED <<grants, keys>>

\* The row of a subject and an object, and the grants with another row.
lookup(s, o) == {v \in Verbs : <<s, o, v>> \in grants}
WithRow(s, o, vs) == {g \in grants : <<g[1], g[2]>> # <<s, o>>} \cup ({s} \X {o} \X vs)

OfGrant(op, at, s, o, vs) ==
    [Out EXCEPT !.op = op, !.at = at, !.of = <<s, o>>, !.row = vs, !.found = lookup(s, o) # {}]

\* Grant looks the row up; verbs that are all there already are no change.
Grant(c, s, o, vs) ==
    /\ Unlocked(c)
    /\ Proceed(c, IF lookup(s, o) # {} /\ vs \subseteq lookup(s, o) THEN Out
                  ELSE OfGrant("grant", "write", s, o, lookup(s, o) \cup vs))

\* Revoke looks the row up; one that takes the admin verb on the root away counts
\* who remains, unless an admin key is configured.
Revoke(c, s, o, vs) ==
    /\ Unlocked(c)
    /\ LET had == lookup(s, o)
           counts == ~AdminKey /\ o = Root /\ "admin" \in had \cap vs
       IN  Proceed(c, IF had \cap vs = {} THEN Out
                      ELSE OfGrant("revoke", IF counts THEN "admins" ELSE "write", s, o, had \ vs))

\* A key that was revoked stays so; one that expired may still be revoked.
RevokeKey(c, k) ==
    /\ Unlocked(c)
    /\ Proceed(c, IF keys[k] \in {"absent", "revoked"} THEN Out
                  ELSE [Out EXCEPT !.op = "revoke_key", !.at = IF AdminKey THEN "write" ELSE "admins", !.of = <<k>>])

\* The administrators that remain; without any a key may go, a grant may not.
rootAdminsLocked(c) ==
    /\ calling[c].at = "admins"
    /\ LET r == calling[c]
           admins == IF r.op = "revoke" THEN rootAdmins(grants) \ {r.of[1]} ELSE rootAdmins(grants)
       IN  Proceed(c, CASE admins \cap Reachable # {} -> [r EXCEPT !.at = "write"]
                        [] admins = {} /\ r.op = "revoke" -> Out
                        [] admins = {} /\ r.op # "revoke" -> [r EXCEPT !.at = "write"]
                        [] OTHER -> [r EXCEPT !.at = "keys", !.admins = admins])

\* Seeded fault: keys that expired or were revoked count.
countsAnyKey(c) == {k \in Keys : keys[k] # "absent" /\ (calling[c].op = "revoke_key" => k # calling[c].of[1])}

\* The keys that remain.
countedKeys(c) == {k \in activeKeys : calling[c].op = "revoke_key" => k # calling[c].of[1]}

activeKeysLocked(c) ==
    /\ calling[c].at = "keys"
    /\ Proceed(c, IF rootReachableByKey(calling[c].admins, countedKeys(c))
                  THEN [calling[c] EXCEPT !.at = "write", !.seen = countedKeys(c)] ELSE Out)

\* INSERT is refused where the row has come to be, UPDATE and DELETE change
\* nothing where it is gone.
storeGrant(c) ==
    /\ calling[c].at = "write" /\ calling[c].op \in OnGrant
    /\ LET s == calling[c].of[1]
           o == calling[c].of[2]
       IN  grants' = IF calling[c].found = (lookup(s, o) # {}) THEN WithRow(s, o, calling[c].row) ELSE grants
    /\ calling' = [calling EXCEPT ![c] = Out]
    /\ UNCHANGED keys

storeRevoked(c) ==
    /\ calling[c].at = "write" /\ calling[c].op = "revoke_key"
    /\ keys' = [keys EXCEPT ![calling[c].of[1]] = "revoked"]
    /\ calling' = [calling EXCEPT ![c] = Out]
    /\ UNCHANGED grants

Statement(c) == rootAdminsLocked(c) \/ activeKeysLocked(c) \/ storeGrant(c) \/ storeRevoked(c)

\* A statement fails, because the request's time is up.
CallFails(c) == Proceed(c, Out)

CreateKey(c, k) ==
    /\ Unlocked(c)
    /\ keys[k] = "absent"
    /\ keys' = [keys EXCEPT ![k] = "live"]
    /\ UNCHANGED <<grants, calling>>

\* The clock passes a key's expires_at.
ExpireKey(k) ==
    /\ keys[k] = "live"
    /\ keys' = [keys EXCEPT ![k] = "expired"]
    /\ UNCHANGED <<grants, calling>>

\* DropTable and DropNamespace: the grants on the object and inside it go.
DropGrants(c, o) ==
    /\ Unlocked(c)
    /\ o # Root
    /\ grants' = {g \in grants : o \notin Covering[g[2]]}
    /\ UNCHANGED <<keys, calling>>

RegistryNext ==
    \/ \E c \in Clients :
        \/ \E s \in Subjects, o \in Objects, vs \in SUBSET Verbs : Grant(c, s, o, vs) \/ Revoke(c, s, o, vs)
        \/ \E k \in Keys : CreateKey(c, k) \/ RevokeKey(c, k)
        \/ \E o \in Objects : DropGrants(c, o)
        \/ Statement(c) \/ CallFails(c)
    \/ \E k \in Keys : ExpireKey(k)

\* A new registry.
RegistryInit ==
    /\ grants = {} /\ keys = [k \in Keys |-> "absent"]
    /\ calling = [c \in Clients |-> Out]
RegistrySpec == RegistryInit /\ [][RegistryNext]_registry

-----------------------------------------------------------------------------
\* One process serves all clients, as where the data directory is its own.
OneProcess == \A c, d \in Clients : ServerOf[c] = ServerOf[d]

\* A key expires, or has expired since the revocation that is written counted on it.
Expires ==
    \/ \E k \in Keys : keys[k] = "live" /\ keys'[k] = "expired"
    \/ \E c \in Clients : /\ calling[c].at = "write" /\ calling'[c].at = "out"
                           /\ \E k \in calling[c].seen : keys[k] = "expired"

\* However the administrators' revocations of grants and of keys follow one
\* another, a deployment that somebody can administer stays one: only the
\* expiry of a key may end it (Revoke and RevokeKey count who remains).  It
\* is so where one process serves them all; the lock is not shared.
RootKept == [][RootReachable /\ ~Expires => RootReachable']_registry
=============================================================================
