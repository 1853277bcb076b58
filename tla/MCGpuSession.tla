---------------------------- MODULE MCGpuSession ----------------------------
EXTENDS GpuSession, TLC
CONSTANTS v1, v2
MCValues == {v1, v2}
Symmetry == Permutations(MCValues)
=============================================================================
