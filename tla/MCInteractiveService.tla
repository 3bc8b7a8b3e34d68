------------------------ MODULE MCInteractiveService ------------------------
EXTENDS InteractiveService, TLC

Symmetry == Permutations(SessionIds)
=============================================================================
