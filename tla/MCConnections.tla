---------------------------- MODULE MCConnections ----------------------------
EXTENDS Connections, TLC

\* The sessions are alike, and so are the types.
Symmetry == Permutations(Sessions) \cup Permutations(Types)
=============================================================================
