--------------------------- MODULE MCMessageHistory ---------------------------
EXTENDS MessageHistory, TLC

AllKinds == {"memory", "background", "sqlite"}
ClientSymmetry == Permutations(Clients)
===============================================================================
