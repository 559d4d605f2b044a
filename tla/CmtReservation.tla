---------------------------- MODULE CmtReservation ----------------------------
(***************************************************************************)
(* What the project locks promise to `cmt apply`: an apply reserves all    *)
(* the projects it is about to work on in one step, only projects nobody   *)
(* else works on, and gives them all back when it ends.  An operator may   *)
(* break the reservation of a project, which from then on protects nobody. *)
(***************************************************************************)
CONSTANTS Applies, Targets
VARIABLES busy, broken

Init ==
    /\ busy = [a \in Applies |-> {}]
    /\ broken = {}

Reserve(a) ==
    /\ busy[a] = {}
    /\ \E S \in SUBSET Targets :
        /\ \A b \in Applies \ {a} : busy[b] \cap S \subseteq broken
        /\ busy' = [busy EXCEPT ![a] = S]
        /\ UNCHANGED broken

GiveBack(a) ==
    /\ busy' = [busy EXCEPT ![a] = {}]
    /\ UNCHANGED broken

Break(t) ==
    /\ broken' = broken \cup {t}
    /\ UNCHANGED busy

Next == \/ \E a \in Applies : Reserve(a) \/ GiveBack(a)
        \/ \E t \in Targets : Break(t)

Spec == Init /\ [][Next]_<<busy, broken>>
=============================================================================
