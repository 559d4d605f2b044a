------------------------------ MODULE MCProvider ------------------------------
(* Instances of TrueNASProvider for TLC: a dataset with a child, an app, and  *)
(* the apps settings with their two parts, and the permissions of a path.    *)
EXTENDS TrueNASProvider

CONSTANTS parent, child, app, appsConfig, docker, catalog, path

ParentOf == [r \in Plain |-> IF r = child THEN parent ELSE None]
PartsOf  == [r \in Plain \cup Apps \cup Settings \cup Paths |->
                IF r = appsConfig THEN <<docker, catalog>> ELSE <<r>>]

\* What is created and deleted, and what is only ever updated: they do not touch each other.
TwoFamilies == {Plain \cup Apps, Lasting}
=============================================================================
