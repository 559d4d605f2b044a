-------------------------------- MODULE MCSync --------------------------------
(* Instances of CmtSync for TLC.                                             *)
EXTENDS CmtSync
=============================================================================
