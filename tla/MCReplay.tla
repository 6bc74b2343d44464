------------------------------ MODULE MCReplay ------------------------------
(* Small instances of Replay for TLC. *)
EXTENDS Replay, TLC

CONSTANTS k1, h1, h2

\* Two calls without a key, with different arguments.
NoKeys == [r \in Records |-> NoKey]
\* Two calls that carry the same key in their arguments.
SameKey == [r \in Records |-> k1]
DistinctHashes == [r \in Records |-> IF r = 1 THEN h1 ELSE h2]
SameHash == [r \in Records |-> h1]
ShortTimeout == [r \in Records |-> 1]
LongTimeout == [r \in Records |-> Lease + 1]

Run == [batch |-> FALSE, force |-> FALSE, set |-> FALSE]
RunForce == [Run EXCEPT !.force = TRUE]
RunSet == [Run EXCEPT !.set = TRUE]
RunAll == [Run EXCEPT !.batch = TRUE]
SingleOrBatch == {Run, RunAll}
JustRun == {Run}
JustRunAll == {RunAll}
AllCommands == {Run, RunForce, RunSet, RunAll}
Symmetry == Permutations(Replayers)
=============================================================================
