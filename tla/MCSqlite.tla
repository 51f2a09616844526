------------------------------ MODULE MCSqlite ------------------------------
(***************************************************************************)
(* The parts of a server with the SQLite engine that keep books of their     *)
(* own: the change log, the vector cache and the file store.  They share no  *)
(* state, so a behaviour is one of a part with the others standing still in   *)
(* an initial state: one run explores all.                                   *)
(***************************************************************************)
EXTENDS ChangeLog, VectorCache, FileStore

CONSTANTS r2, s1, s2

VARIABLE part

-----------------------------------------------------------------------------
\* One cached column with writes and a retention sweep, or with a drop or migration
\* between; two columns that compete for the memory; a read that fails.
OneColumn == [max |-> 2, runs |-> 3, writes |-> 3, trims |-> 1, lives |-> 0, errors |-> 0, keys |-> {"k"}]
MCVecBounds ==
    {OneColumn, [OneColumn EXCEPT !.max = 1, !.trims = 0],
     [OneColumn EXCEPT !.writes = 1, !.trims = 0, !.lives = 1],
     [OneColumn EXCEPT !.max = 1, !.writes = 2, !.trims = 0, !.keys = {"k", "l"}],
     [OneColumn EXCEPT !.runs = 1, !.writes = 2, !.errors = 1]}

-----------------------------------------------------------------------------
\* With the shared store r2 runs on a server of its own.
MCServerOf == [r \in Requests |-> IF r = r2 THEN s2 ELSE s1]

LocalStore  == [shared |-> FALSE, cap |-> 0, inTx |-> FALSE, copies |-> FALSE, pending |-> 2,
                calls |-> 3, restarts |-> 0]
SharedStore == [LocalStore EXCEPT !.shared = TRUE, !.cap = 1, !.copies = TRUE, !.pending = 1, !.calls = 2]
MCStores ==
    {LocalStore, [LocalStore EXCEPT !.pending = 1, !.calls = 2, !.restarts = 1], [LocalStore EXCEPT !.inTx = TRUE],
     [LocalStore EXCEPT !.cap = 1, !.copies = TRUE, !.restarts = 1],
     SharedStore, [SharedStore EXCEPT !.cap = 0], [SharedStore EXCEPT !.inTx = TRUE, !.copies = FALSE, !.calls = 3]}

\* A local store without a cap, whose callers copy files from row to row.
CopyStores == {[LocalStore EXCEPT !.copies = TRUE]}

-----------------------------------------------------------------------------
VecIdle   == VecInit /\ vecLeft = OneColumn
FilesIdle == FilesInit /\ store = LocalStore

PartsInit == \/ part = "log" /\ Init /\ VecIdle /\ FilesIdle
             \/ part = "vec" /\ VecInit /\ Init /\ FilesIdle
             \/ part = "files" /\ FilesInit /\ Init /\ VecIdle

PartsNext == /\ UNCHANGED part
             /\ \/ part = "log" /\ Next /\ UNCHANGED <<vecVars, filesVars>>
                \/ part = "vec" /\ VecNext /\ UNCHANGED <<vars, filesVars>>
                \/ part = "files" /\ FilesNext /\ UNCHANGED <<vars, vecVars>>

PartsSpec == PartsInit /\ [][PartsNext]_<<part, vars, vecVars, filesVars>>
=============================================================================
