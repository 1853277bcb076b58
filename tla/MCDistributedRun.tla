------------------------- MODULE MCDistributedRun -------------------------
EXTENDS DistributedRun

Opt(metric, early, checkpoint, verify) ==
    [metric_every |-> metric, early_stopping_rounds |-> early,
     checkpoint_every |-> checkpoint, verify_splits |-> verify]

\* Agreed splits and a checkpoint every round, or early stopping with one
\* every other round.
SharedOptions == {Opt(0, 0, 1, TRUE), Opt(0, 1, 2, FALSE)}

\* Both patiences of early stopping with checkpoints in and out of step, and
\* checkpoints of rounds that no metric precedes.
MixedOptions == {Opt(0, 1, 2, FALSE), Opt(0, 2, 1, FALSE), Opt(2, 0, 1, TRUE)}

\* Early stopping alone.
EarlyStopping == {Opt(0, 1, 0, FALSE), Opt(0, 2, 0, FALSE)}
=============================================================================
