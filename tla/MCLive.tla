------------------------------- MODULE MCLive -------------------------------
(***************************************************************************)
(* What must eventually happen: a subscription delivers and winds down, the  *)
(* calls on the pool of namespaces return, a retired signing key stops       *)
(* verifying, a server that is asked to stop exits.  The parts share no       *)
(* state.  A behaviour is one of a part; the others stand still in a state    *)
(* in which none of their fair steps is enabled (the subscription's request   *)
(* is over, the pool's callers are idle, no request carries a token, nobody   *)
(* asks for the end), so their fairness asks for nothing.                     *)
(***************************************************************************)
EXTENDS Subscribe, NamespacePool, SigningKeys, Shutdown

CONSTANT f1

VARIABLE part

LiveScenes == {[rows |-> {[mine |-> TRUE, owner |-> "me"]}, grant |-> "all", page |-> 1, faults |-> 1]}

\* One sign-in, while another replica rotates too or the registry cannot be read.
LiveSigningScenes == [flows : {{f1}}, elsewhere : {1}, aging : {0}, fails : {0}]
                     \cup [flows : {{f1}}, elsewhere : {0}, aging : {0}, fails : {1}]
LivePeerOf == [f \in Flows |-> "a"]

\* One request on stdio, which may never return, with a client that may stop reading;
\* or one behind HTTP.
LiveIds == {<<1, "1">>}
LiveStdio == [front |-> "stdio", grace |-> TRUE, lines |-> 1, pipe |-> {"stalled"}]
LiveShutdownScenes == {LiveStdio} \cup [front : {"http"}, grace : BOOLEAN, lines : {0}, pipe : {{}}]

NoTokens == SigningStart(TRUE, "off") /\ bound.elsewhere = 1

NoSignal == ShutdownInit /\ setup = LiveStdio

PartsInit == \/ part = "subscribe" /\ Init /\ PoolInit /\ NoTokens /\ NoSignal
             \/ part = "pool" /\ PoolInit /\ NoSession("gone") /\ NoTokens /\ NoSignal
             \/ part = "signing" /\ SigningInit /\ NoSession("gone") /\ PoolInit /\ NoSignal
             \/ part = "shutdown" /\ ShutdownInit /\ NoSession("gone") /\ PoolInit /\ NoTokens

PartsNext == /\ UNCHANGED part
             /\ \/ part = "subscribe" /\ Next /\ UNCHANGED <<poolVars, signingVars, shutdownVars>>
                \/ part = "pool" /\ PoolNext /\ UNCHANGED <<vars, signingVars, shutdownVars>>
                \/ part = "signing" /\ SigningNext /\ UNCHANGED <<vars, poolVars, shutdownVars>>
                \/ part = "shutdown" /\ ShutdownNext /\ UNCHANGED <<vars, poolVars, signingVars>>

LiveSpec == /\ PartsInit /\ [][PartsNext]_<<part, vars, poolVars, signingVars, shutdownVars>>
            /\ SubscribeFairness /\ PoolFairness /\ SigningFairness /\ ShutdownFairness
=============================================================================
