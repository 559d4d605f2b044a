------------------------------ MODULE MCGates ------------------------------
(* An instance of ApplyGates for TLC.                                       *)
EXTENDS ApplyGates
=============================================================================
