------------------------------ MODULE MCRotation ------------------------------
(* Instances of KioskRotation for TLC.                                       *)
EXTENDS KioskRotation

\* Any two of commands, failures and exits of the browser.
AnyTwo == {b \in (0..2) \X (0..2) \X (0..2) : b[1] + b[2] + b[3] = 2}
OneCommand == {<<1, 0, 0>>}
=============================================================================
