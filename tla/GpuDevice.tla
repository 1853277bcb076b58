------------------------------ MODULE GpuDevice ------------------------------
(***************************************************************************)
(* The memory a GPU training session works on and the operations it puts   *)
(* on its device's queue, from gpu_runtime.mojo's own description of the   *)
(* pipeline (model_upload_gradients .. model_apply_split).  A cell's       *)
(* content is abstracted to where it came from; the binned matrix and the  *)
(* partial histograms, which the host never touches in a round, and the    *)
(* hessians, which travel with the gradients, are left out.                *)
(***************************************************************************)
EXTENDS Integers, Sequences

CONSTANTS Slots,    \* staging slots of the ring
          Values    \* gradients, feature lists and bags the host may write

ASSUME SlotsAssumption == Slots \in Nat \ {0}

Stage(i) == <<"stage", i>>
StageCells == {Stage(i) : i \in 1 .. Slots}
Leaf == <<"leaf", 0>>
Feat == <<"feat", 0>>
Grad == <<"grad", 0>>
Out == <<"out", 0>>
HostOut == <<"host_out", 0>>
Cells == StageCells \cup {Leaf, Feat, Grad, Out, HostOut}

\* A device operation, by its kernel and, for an upload, its staging slot.
Copy(i) == <<"copy", i>>
Memset == <<"memset", 0>>
Partition == <<"partition", 0>>
Histogram == <<"histogram", 0>>
Download == <<"download", 0>>
DeviceOps == {Copy(i) : i \in 1 .. Slots} \cup {Memset, Partition, Histogram, Download}

\* What the tracker is told of it; one that rewrites a cell counts as writing it.
Reads(op) ==
    CASE op[1] = "copy" -> {Stage(op[2])}
      [] op \in {Memset, Partition} -> {}
      [] op = Histogram -> {Leaf, Grad, Feat}
      [] OTHER -> {Out}

Writes(op) ==
    CASE op[1] = "copy" -> {Grad}
      [] op = Memset -> {Leaf}
      [] op = Partition -> {Leaf}
      [] op = Histogram -> {Out}
      [] OTHER -> {HostOut}

\* Who owns the rows: the bag the tree started from and its splits since.
Rows(bag, splits) == [bag |-> bag, splits |-> splits]
AllRows == "all"

\* What the operation leaves in the memory it is run on.
Effect(op, m) ==
    CASE op[1] = "copy" -> [m EXCEPT ![Grad] = m[Stage(op[2])]]
      [] op = Memset -> [m EXCEPT ![Leaf] = Rows(AllRows, 0)]
      [] op = Partition -> [m EXCEPT ![Leaf] = Rows(@.bag, @.splits + 1)]
      [] op = Histogram ->
            [m EXCEPT ![Out] = [leaf |-> m[Leaf], grad |-> m[Grad], feat |-> m[Feat]]]
      [] OTHER -> [m EXCEPT ![HostOut] = m[Out]]

\* Nothing uploaded, and a feature list with every feature in it.
Unset == "unset"
InitialMemory ==
    [c \in Cells |-> IF c = Leaf THEN Rows(AllRows, 0)
                     ELSE IF c \in {Out, HostOut}
                     THEN [leaf |-> Rows(AllRows, 0), grad |-> Unset, feat |-> Unset]
                     ELSE Unset]
=============================================================================
