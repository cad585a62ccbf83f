------------------------------ MODULE MCDriver ------------------------------
(***************************************************************************)
(* Instances of LegacyDriver for TLC; the .cfg files choose the sizes.     *)
(***************************************************************************)
EXTENDS LegacyDriver
==============================================================================
