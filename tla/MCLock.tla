-------------------------------- MODULE MCLock --------------------------------
(* Instances of CmtLock for TLC.                                             *)
EXTENDS CmtLock, TLC

Symmetry == Permutations(Applies)
=============================================================================
