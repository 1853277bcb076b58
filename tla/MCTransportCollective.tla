----------------------- MODULE MCTransportCollective ------------------------
(* TransportCollective on worlds of two and three ranks, for TLC.          *)
EXTENDS TransportCollective

SumCall == [op |-> "sum", n |-> 1, epoch |-> FALSE]
LongSumCall == [op |-> "sum", n |-> 2, epoch |-> FALSE]
MaxCall == [op |-> "max", n |-> 1, epoch |-> FALSE]
BarrierCall == [op |-> "barrier", n |-> 0, epoch |-> FALSE]
CheckpointCall == [op |-> "barrier", n |-> 0, epoch |-> TRUE]

\* One program for everyone: a histogram plane and its counts.
HistogramSchedule == {<<SumCall, SumCall>>}

\* A checkpoint boundary between two sums.
EpochSchedule == {<<SumCall, CheckpointCall, SumCall>>}

\* The same, and programs that part ways in the length, the op, the shape or
\* the epoch.
DivergingSchedules ==
    EpochSchedule \union
    {<<SumCall, SumCall>>, <<SumCall>>, <<SumCall, MaxCall>>,
     <<SumCall, LongSumCall>>, <<CheckpointCall, SumCall>>,
     <<BarrierCall, SumCall>>}
=============================================================================
