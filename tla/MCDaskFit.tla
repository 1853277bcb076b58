----------------------------- MODULE MCDaskFit -----------------------------
EXTENDS DaskFit

\* one_rank_per_worker, the default, and two ranks on one worker.
OneEach == [r \in Ranks |-> IF r = 0 THEN "w0" ELSE IF r = 1 THEN "w1" ELSE "w2"]
Together == [r \in Ranks |-> "w0"]

\* One fit of three ranks, or two of one rank each; and the faults of each.
OneFit == [f |-> 3, g |-> 0]
TwoFits == [f |-> 1, g |-> 1]
OneOrTwoFits == {OneFit, TwoFits}
TwoThenOne == [plan \in OneOrTwoFits |-> IF plan = OneFit THEN 2 ELSE 1]
=============================================================================
