------------------------------ MODULE MCGpuFit ------------------------------
EXTENDS GpuFit
CONSTANTS v1
MCValues == {v1}
\* The shipped cadence, two windows without headroom and one with.
MCCadences ==
    {[rounds |-> 1, headroom |-> 0], [rounds |-> 2, headroom |-> 0],
     [rounds |-> 3, headroom |-> 0], [rounds |-> 2, headroom |-> 1]}
=============================================================================
