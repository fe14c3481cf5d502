---------------------------- MODULE MCMaterializer ----------------------------
(***************************************************************************)
(* Instances of Materializer for TLC.                                      *)
(***************************************************************************)
EXTENDS Materializer, TLC

\* Two chunks in every version: a change shows only in the modification time.
MCSize == [v \in Versions |-> 2]

\* One chunk in every version, where the content does not matter.
MCSmall == [v \in Versions |-> 1]

Symmetry == Permutations(Callers) \cup Permutations(Owners) \cup Permutations(Clears)
=============================================================================
