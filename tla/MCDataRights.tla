---------------------------- MODULE MCDataRights ----------------------------
EXTENDS DataRights, TLC

Symmetry == Permutations(Workers)
=============================================================================
