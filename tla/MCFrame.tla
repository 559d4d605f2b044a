-------------------------------- MODULE MCFrame --------------------------------
(* Instances of PhotoFrame for TLC: pictures, and an entry that is none.      *)
EXTENDS PhotoFrame

CONSTANTS a, b, other
=============================================================================
