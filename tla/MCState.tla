------------------------------- MODULE MCState --------------------------------
(* Instances of KioskState for TLC.                                          *)
EXTENDS KioskState
=============================================================================
