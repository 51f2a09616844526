---------------------------- MODULE MCLongCalls ----------------------------
(***************************************************************************)
(* The calls that outlive a transaction: a subscription, one that is slower   *)
(* than the retention, and the rotation of the secret key.  The parts share   *)
(* no state, so a behaviour is one of a part with the others standing still:  *)
(* one run explores all.                                                      *)
(***************************************************************************)
EXTENDS Subscribe, SecretKeys, ListenRetention

VARIABLE part

-----------------------------------------------------------------------------
Mine(owner) == [mine |-> TRUE, owner |-> owner]

\* Own, foreign and unlabelled rows, and a row of another table under row access.
ScopedRows ==
    {Mine("me"), Mine("them"), Mine("unlabelled"), [mine |-> FALSE, owner |-> "them"]}

\* Every change is the subscriber's own row of the subscribed table, and two
\* things go wrong; or the rows and the grant differ, and one does.
OwnScene == [rows |-> {Mine("me")}, grant |-> "all", page |-> 1, faults |-> 2]
MCSubscribeScenes ==
    {OwnScene, [rows |-> ScopedRows, grant |-> "own", page |-> 2, faults |-> 1],
     [rows |-> ScopedRows \ {Mine("unlabelled")}, grant |-> "all", page |-> 2, faults |-> 1]}

\* Another principal's row, under row access.
ForeignScenes == {[rows |-> {Mine("them")}, grant |-> "own", page |-> 1, faults |-> 1]}

-----------------------------------------------------------------------------
MCSecKeys == <<"k1", "k2">>

\* Two calls of one caller while two values are written.
TwoCalls(eng) ==
    [engine |-> eng, limit |-> 2, batch |-> 1, writes |-> 2, renames |-> 0, drops |-> 0,
     nsDrops |-> 0, creates |-> 0, calls |-> 2, callers |-> {"c1"}, crashes |-> 0, early |-> 0,
     timeouts |-> 0, next |-> 0]
Recreated == [TwoCalls("sqlite") EXCEPT !.creates = 1, !.writes = 3, !.calls = 1]

\* Fields renamed, tables and namespaces dropped and created anew, two callers, a key
\* taken out too early, a crash and a timeout between two batches.
MCSecScenes ==
    {[TwoCalls("sqlite") EXCEPT !.renames = 2, !.calls = 1], [Recreated EXCEPT !.drops = 1],
     [TwoCalls("sqlite") EXCEPT !.limit = 1, !.nsDrops = 1, !.creates = 1, !.crashes = 1,
                                !.timeouts = 1],
     [TwoCalls("sqlite") EXCEPT !.callers = SecCallers], [TwoCalls("sqlite") EXCEPT !.early = 1],
     [TwoCalls("postgres") EXCEPT !.renames = 1, !.timeouts = 1],
     [Recreated EXCEPT !.engine = "postgres", !.nsDrops = 1],
     [TwoCalls("postgres") EXCEPT !.limit = 1, !.early = 1],
     [TwoCalls("postgres") EXCEPT !.callers = SecCallers],
     [TwoCalls("lakehouse") EXCEPT !.limit = 1, !.drops = 1, !.creates = 1, !.nsDrops = 1,
                                   !.crashes = 1],
     [TwoCalls("lakehouse") EXCEPT !.renames = 1, !.timeouts = 1]}

\* A table is dropped on PostgreSQL while a call walks its namespace.
DroppedScenes == {[TwoCalls("postgres") EXCEPT !.drops = 1, !.calls = 1]}

-----------------------------------------------------------------------------
\* A subscriber that stalls while two attempts at a renewal fail, or none; one that
\* starts behind, with pages of one change and of more; one that hangs up and comes back.
Stalls == [from |-> "head", page |-> 1, backlog |-> 0, commits |-> 1, rows |-> 1, fails |-> 0, hangups |-> 0]
MCRideScenes ==
    {[Stalls EXCEPT !.rows = 2], [Stalls EXCEPT !.fails = 2], [Stalls EXCEPT !.hangups = 1],
     [Stalls EXCEPT !.from = "begin", !.backlog = 2, !.commits = 0, !.hangups = 1],
     [Stalls EXCEPT !.from = "begin", !.page = 2, !.backlog = 1]}

-----------------------------------------------------------------------------
SubscribeOver == NoSession("gone") /\ scene = OwnScene
RotationIdle  == SecInit /\ secLeft.engine = "lakehouse" /\ secLeft.timeouts = 1
RideIdle      == RideInit /\ rideLeft = [Stalls EXCEPT !.fails = 2]

PartsInit == \/ part = "subscribe" /\ Init /\ RotationIdle /\ RideIdle
             \/ part = "secrets" /\ SecInit /\ SubscribeOver /\ RideIdle
             \/ part = "ride" /\ RideInit /\ SubscribeOver /\ RotationIdle

PartsNext == /\ UNCHANGED part
             /\ \/ part = "subscribe" /\ Next /\ UNCHANGED <<secVars, rideVars>>
                \/ part = "secrets" /\ SecNext /\ UNCHANGED <<vars, rideVars>>
                \/ part = "ride" /\ RideNext /\ UNCHANGED <<vars, secVars>>

PartsSpec == PartsInit /\ [][PartsNext]_<<part, vars, secVars, rideVars>>
=============================================================================
