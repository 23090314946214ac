-------------------------- MODULE MCSpmMulticast ---------------------------
\* Instances of SpmMulticast for TLC: a producer and one or two receivers.
EXTENDS SpmMulticast
=============================================================================
