--------------------------- MODULE MCSpmProtocol ----------------------------
\* Instances of SpmProtocol for TLC.
EXTENDS SpmProtocol, TLC
Perms == Permutations(Cores)
=============================================================================
