---------------------------- MODULE MCRendezvous -----------------------------
(* Rendezvous on a world of three ranks, for TLC.                          *)
EXTENDS Rendezvous

Rank(r) == [RootRecord EXCEPT !.rank = r]

\* The workers of the world; the last rank of a larger
\* one; a leftover of an earlier epoch.
Records == <<Rank(1), Rank(2), [Rank(N) EXCEPT !.world = N + 1], [Rank(1) EXCEPT !.epoch = 0]>>

\* Every three of them, repetitions included.  Processes differ in nothing but
\* what they announce, so one order of each three is enough.
ThreeProcesses == {"p1", "p2", "p3"}
AnyThree ==
    {[p \in ThreeProcesses |-> Records[w[p]]] :
        w \in {v \in [ThreeProcesses -> DOMAIN Records] : v["p1"] <= v["p2"] /\ v["p2"] <= v["p3"]}}
=============================================================================
