------------------------------- MODULE MCApply -------------------------------
EXTENDS CmtApply, TLC
\* All projects of the first host, and the last project everywhere; a host.yml without
\* projects, and one that names the first.
MCFilters  == {<<{1}, {}>>, <<{}, {NProjects}>>}
MCListings == {{}, {1}}
Symmetry   == Permutations(Commands) \cup Permutations(Contents)

\* Settings do not touch each other: levels that say the same of every setting will do.
Uniform(settings) == {[s \in settings |-> v] : v \in Values \cup {Unset}}
ASSUME AgreesOn(Uniform(Shared), Uniform(Settings))
==============================================================================
