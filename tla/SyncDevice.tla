----------------------------- MODULE SyncDevice -----------------------------
(***************************************************************************)
(* What a session promises its caller: a device that runs every operation  *)
(* to its end before the call that issued it returns, so that the host may *)
(* write and read what it likes whenever it likes.                         *)
(***************************************************************************)
EXTENDS GpuDevice

VARIABLES mem,    \* [cell -> its content]
          seen    \* the histogram the host last read

sync == <<mem, seen>>

Init == mem = InitialMemory /\ seen = InitialMemory[HostOut]

\* The host's own writes: a staging slot, the feature list, a bag's rows.
HostWrites == \E v \in Values :
    /\ \/ \E c \in StageCells \cup {Feat} : mem' = [mem EXCEPT ![c] = v]
       \/ mem' = [mem EXCEPT ![Leaf] = Rows(v, 0)]
    /\ UNCHANGED seen

Runs(op) == mem' = Effect(op, mem) /\ UNCHANGED seen

\* One leaf's histogram, computed and brought into the host's memory.
Builds == mem' = Effect(Download, Effect(Histogram, mem)) /\ UNCHANGED seen

HostReads == seen' = mem[HostOut] /\ UNCHANGED mem

Next ==
    \/ HostWrites
    \/ \E op \in DeviceOps \ {Histogram, Download} : Runs(op)
    \/ Builds
    \/ HostReads

Spec == Init /\ [][Next]_sync
=============================================================================
