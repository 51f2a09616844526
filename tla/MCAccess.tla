------------------------------ MODULE MCAccess ------------------------------
(***************************************************************************)
(* Who may do what, and to which incarnation: requests and the registry of   *)
(* grants and keys, sign-ins and signing keys, the pool of namespaces that    *)
(* the calls of admitted requests go through, and the end of the server under *)
(* them.  As they are modelled the four share no state, so a behaviour is one  *)
(* of a part with the others standing still in an initial state: one run       *)
(* explores all.                                                             *)
(***************************************************************************)
EXTENDS Requests, SigningKeys, NamespacePool, Shutdown, TLC

CONSTANTS u, a, b, g, k1, k2, c1, c2, c3, f1, f2, f3

VARIABLE part

-----------------------------------------------------------------------------
(* Requests: u calls one operation on data while a, who holds everything on *)
(* the root object, changes the table; a and b, who administers through the  *)
(* group that its key carries, change grants and keys; each other operation  *)
(* is called while a changes u's grant.                                     *)

MCCovering == [o \in Objects |-> CASE o = Tab -> {Root, Ns, Tab} [] o = Ns -> {Root, Ns} [] OTHER -> {Root}]
MCKeyPrincipal == [k \in Keys |-> IF k = k1 THEN a ELSE b]
MCKeyGroups == [k \in Keys |-> IF k = k2 THEN {g} ELSE {}]
MCWho == [c \in Clients |-> CASE c = c1 -> u [] c = c2 -> a [] OTHER -> b]
MCWhoGroups == [c \in Clients |-> IF c = c3 THEN {g} ELSE {}]
MCWhoKey == [c \in Clients |-> CASE c = c2 -> k1 [] c = c3 -> k2 [] OTHER -> Nobody]
\* One process serves all; or two that share the registry.
MCServerOf == [c \in Clients |-> "s1"]
MCReplicas == [c \in Clients |-> IF c = c3 THEN "s2" ELSE "s1"]
MCInitKeys == [k \in Keys |-> IF k \in {k1, k2} THEN "live" ELSE "absent"]
MCGrantArgs == {<<u, Tab, {"read"}>>, <<g, Root, {"admin"}>>, <<a, Root, {"admin"}>>}

AllOf(s, o, vs) == {s} \X {o} \X vs
Admins == AllOf(a, Root, Verbs) \cup AllOf(g, Root, {"admin"})
OfU(o, vs) == Admins \cup AllOf(u, o, vs)

Scene(gr, d, ex, ops1, ops2, ops3, n1, n2, n3) ==
    [grants |-> gr, decl |-> d, expire |-> ex,
     ops |-> [c \in Clients |-> CASE c = c1 -> ops1 [] c = c2 -> ops2 [] OTHER -> ops3],
     calls |-> [c \in Clients |-> CASE c = c1 -> n1 [] c = c2 -> n2 [] OTHER -> n3]]

DataOps == {"read_rows", "search_vector", "delete", "upsert_by_key", "batch", "neighbors"}
TableOps == {"drop_table", "create_table", "insert", "migrate"}
OtherOps == ReadOps \cup OpenOps \cup AnyVerbOps \cup WriteOps
AdminOps == {"query", "list_migrations", "list_grants", "list_keys", "vacuum", "import_records", "relate",
             "drop_namespace", "create_namespace", "create_table", "insert"}

MCScenes ==
    {Scene(OfU(Ns, DataVerbs), "plain", {}, DataOps, TableOps, {}, 1, 3, 0),
     Scene(Admins, "plain", {}, {}, {"migrate", "drop_table", "create_table"}, {}, 0, 4, 0),
     Scene(Admins, "plain", Keys, {}, {"grant", "revoke", "revoke_key", "create_key"},
           {"revoke", "revoke_key"}, 0, 2, 1)}
    \cup {Scene(OfU(Tab, vs), d, {}, OtherOps, {"revoke", "grant"} \cup TableOps, {}, 1, 1, 0) :
             d \in {"plain", "references", "constrained"}, vs \in {DataVerbs, {"read", "create"}}}
    \cup {Scene(OfU(Tab, DataVerbs), "plain", {}, {"insert"}, AdminOps, {}, 1, 2, 0)}

\* Each administrator revokes the other's key.
ReplicaScenes == {Scene(Admins, "plain", Keys, {}, {"revoke_key"}, {"revoke_key"}, 0, 1, 1)}

-----------------------------------------------------------------------------
\* The pool's callers, and its namespaces, are interchangeable.
PoolSymmetry == Permutations(Callers) \cup Permutations(Namespaces)

\* Two sign-ins come from one client.
MCPeerOf == [f \in Flows |-> IF f = f3 THEN "b" ELSE "a"]

\* One sign-in with everything that interferes; two that compete for a place.
MCSigningScenes ==
    {[flows |-> {f1}, elsewhere |-> 1, aging |-> 1, fails |-> 1],
     [flows |-> {f1, f2}, elsewhere |-> 0, aging |-> 1, fails |-> 0],
     [flows |-> {f1, f3}, elsewhere |-> 0, aging |-> 0, fails |-> 0]}

\* Two requests on stdio, perhaps under two spellings of one id, with a pipe that
\* stays, stalls or breaks; or behind HTTP with and without a grace period.
MCIds == {<<1, "1">>, <<1, "1.0">>}
OnStdio == [front |-> "stdio", grace |-> TRUE, lines |-> 1, pipe |-> {"stalled", "broken"}]
MCShutdownScenes ==
    {OnStdio, [OnStdio EXCEPT !.pipe = {}]}
    \cup [front : {"http"}, grace : BOOLEAN, lines : {0}, pipe : {{}}]

-----------------------------------------------------------------------------
RequestsIdle == Init /\ scene.expire = Keys /\ ~tbl.own
SigningIdle  == SigningInit /\ bound.elsewhere = 1

ShutdownIdle == ShutdownInit /\ setup = OnStdio

PartsInit == \/ part = "requests" /\ Init /\ SigningIdle /\ PoolInit /\ ShutdownIdle
             \/ part = "signing" /\ SigningInit /\ RequestsIdle /\ PoolInit /\ ShutdownIdle
             \/ part = "pool" /\ PoolInit /\ RequestsIdle /\ SigningIdle /\ ShutdownIdle
             \/ part = "shutdown" /\ ShutdownInit /\ RequestsIdle /\ SigningIdle /\ PoolInit

PartsNext == /\ UNCHANGED part
             /\ \/ part = "requests" /\ Next /\ UNCHANGED <<signingVars, poolVars, shutdownVars>>
                \/ part = "signing" /\ SigningNext /\ UNCHANGED <<vars, poolVars, shutdownVars>>
                \/ part = "pool" /\ PoolNext /\ UNCHANGED <<vars, signingVars, shutdownVars>>
                \/ part = "shutdown" /\ ShutdownNext /\ UNCHANGED <<vars, signingVars, poolVars>>

PartsSpec == PartsInit /\ [][PartsNext]_<<part, vars, signingVars, poolVars, shutdownVars>>
=============================================================================
