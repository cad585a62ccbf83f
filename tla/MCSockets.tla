------------------------------ MODULE MCSockets ------------------------------
(***************************************************************************)
(* Instances of MinetSockets for TLC; the .cfg files choose the protocols, *)
(* the sizes and the bounds.                                               *)
(***************************************************************************)
EXTENDS MinetSockets, TLC

\* The remote hosts play the same part, and no property singles one out.
Symmetry == Permutations(Remotes)
==============================================================================
