---------------------------- MODULE MCRtspServer ----------------------------
EXTENDS RtspServer, TLC

Symmetry == Permutations(Sessions) \cup Permutations(Mounts)
=============================================================================
