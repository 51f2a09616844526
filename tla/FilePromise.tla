---------------------------- MODULE FilePromise ----------------------------
(* What the file store promises its rows: a row comes to name a file only   *)
(* while the file is stored, and no file that a row names is removed.       *)
CONSTANTS Sums, Rows, NoSum

VARIABLES
    named,      \* row -> the hash its file field holds, or NoSum
    stored      \* the hashes whose bytes are stored

Named == {named[r] : r \in Rows} \ {NoSum}

Init == named = [r \in Rows |-> NoSum] /\ stored = {}

Store(s) == stored' = stored \cup {s} /\ UNCHANGED named

\* One file or many: discard, sweep, and the removal of a namespace's files.
Collect == \E gone \in SUBSET (stored \ Named) : stored' = stored \ gone /\ UNCHANGED named

Write(r, s) == s \in stored /\ named' = [named EXCEPT ![r] = s] /\ UNCHANGED stored

\* A row is cleared or deleted, or all of them go with their namespace.
Clear == \E gone \in SUBSET Rows :
    named' = [r \in Rows |-> IF r \in gone THEN NoSum ELSE named[r]] /\ UNCHANGED stored

Next == Collect \/ Clear \/ \E s \in Sums : Store(s) \/ \E r \in Rows : Write(r, s)

Spec == Init /\ [][Next]_<<named, stored>>
=============================================================================
