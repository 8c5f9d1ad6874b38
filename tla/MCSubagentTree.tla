--------------------------- MODULE MCSubagentTree ---------------------------
(***************************************************************************)
(* Instances of SubagentTree for TLC.                                      *)
(***************************************************************************)
EXTENDS SubagentTree, TLC

\* The Runs that are not conversations are interchangeable.
ChildSymmetry == Permutations(Runs \ Roots)

=============================================================================
