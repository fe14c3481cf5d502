------------------------ MODULE MCThumbnailScheduler ------------------------
(***************************************************************************)
(* Instances of ThumbnailScheduler for TLC.                                *)
(***************************************************************************)
EXTENDS ThumbnailScheduler, TLC

CONSTANT big   \* a key whose image exceeds the memory budget

\* Two small jobs fit a budget of 2 together; the big one exceeds it, and is
\* admitted only when nothing else runs.
MCUniform == [k \in Keys |-> 1]
MCMixed   == [k \in Keys |-> IF k = big THEN 3 ELSE 1]

Symmetry == Permutations(Waiters) \cup Permutations(Keys \ {big})
=============================================================================
