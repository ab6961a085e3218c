------------------------- MODULE MCMissionLifecycle --------------------------
EXTENDS MissionLifecycle, TLC

\* The clients are interchangeable.
Symmetry == Permutations(Clients)
==============================================================================
