------------------------------- MODULE GpuFit -------------------------------
(***************************************************************************)
(* The fits of train_gpu on a borrowed session: the round loop, the        *)
(* histogram builder and the objective state, in front of the queue of     *)
(* GpuSession.  They announce the rounds and trees, and tell the session's *)
(* tracker nothing: each drains the context itself where it thinks it has  *)
(* to.  Gradients are the host's, converted and uploaded once a round, or  *)
(* the device's, from raw scores it keeps; the scale of the fixed-point    *)
(* histograms is then read back every so many rounds and checked late.     *)
(* One output, the host's split scan, and one of the two planes.           *)
(***************************************************************************)
EXTENDS GpuSession, FiniteSetsExt

\* MaxOps of the session bounds the fits on it.
CONSTANTS MaxRounds,    \* bound: n_estimators
          MaxSplits,    \* bound: splits of a tree
          Totals,       \* sums of a round's gradient magnitudes
          Cadences      \* set_scale_refresh: how often, and the headroom

ASSUME TotalsAssumption == Totals \subseteq Nat \ {0}
ASSUME CadencesAssumption ==
    \A c \in Cadences : c.rounds \in Nat \ {0} /\ c.headroom \in Nat

VARIABLES
    step,           \* where the fit is; "idle" out of one, "done" with a model
    arm,            \* who computes the gradients
    cadence,        \* scale_refresh and scale_headroom
    left,           \* rounds still to go
    pending,        \* magnitudes enqueued and not read
    folded,         \* a window has been read
    bound,          \* the largest sum the scale in force has room for
    overflowed,     \* history: a histogram of this fit was built without room
    trees,          \* the trees kept, as they are added to the raw scores
    tree,           \* the rows of the tree being grown
    active          \* the feature list in force

run == <<arm, cadence>>
scale == <<pending, folded, bound>>
fitVars == <<step, run, left, scale, overflowed, trees, tree, active>>
\* What a fit never touches of the session.
untold == <<tracker, ring, slot, awaiting, refused>>

-----------------------------------------------------------------------------
(* The buffers and kernels the session's description leaves out. *)

Raw == <<"raw", 0>>
Seg == <<"seg", 0>>
StageSeg == <<"stage_seg", 0>>
StageRows == <<"stage_rows", 0>>
HostPart(i) == <<"host_part", i>>
Windows == 1 .. Max({c.rounds : c \in Cadences})
FitCells == Cells \cup {Raw, Seg, StageSeg, StageRows} \cup {HostPart(i) : i \in Windows}

InitRaw == <<"init_raw", 0>>
FillOf(total) == <<"fill", total>>
\* abs_sum and the copy of its partials, side by side on the queue.
Magnitudes(i) == <<"magnitudes", i>>
CopyRows == <<"copy_rows", 0>>
CopySegments == <<"copy_segments", 0>>
AddRanges == <<"add_ranges", 0>>

FitReads(op) ==
    CASE op[1] = "fill" -> {Raw}
      [] op[1] = "magnitudes" -> {Grad}
      [] op = InitRaw -> {}
      [] op = CopyRows -> {StageRows}
      [] op = CopySegments -> {StageSeg}
      [] op = AddRanges -> {Seg, Leaf, Raw}
      [] OTHER -> Reads(op)

FitWrites(op) ==
    CASE op[1] = "fill" -> {Grad}
      [] op[1] = "magnitudes" -> {HostPart(op[2])}
      [] op = CopyRows -> {Leaf}
      [] op = CopySegments -> {Seg}
      [] op \in {InitRaw, AddRanges} -> {Raw}
      [] OTHER -> Writes(op)

FitEffect(op, m) ==
    CASE op[1] = "fill" -> [m EXCEPT ![Grad] = [trees |-> m[Raw], total |-> op[2]]]
      [] op[1] = "magnitudes" -> [m EXCEPT ![HostPart(op[2])] = m[Grad].total]
      [] op = InitRaw -> [m EXCEPT ![Raw] = <<>>]
      [] op = CopyRows -> [m EXCEPT ![Leaf] = Rows(m[StageRows], 0)]
      [] op = CopySegments -> [m EXCEPT ![Seg] = m[StageSeg]]
      [] op = AddRanges -> [m EXCEPT ![Raw] = Append(@, [tree |-> m[Seg], rows |-> m[Leaf]])]
      [] OTHER -> Effect(op, m)

\* New buffers: what has a total, or is one, starts at none.
Nothing == [trees |-> <<>>, total |-> 0]
FreshMemory ==
    [c \in FitCells |-> IF c \in {Stage(1), Grad} THEN Nothing
                        ELSE IF c \in {Out, HostOut}
                        THEN [InitialMemory[c] EXCEPT !.grad = Nothing]
                        ELSE IF c \in Cells THEN InitialMemory[c]
                        ELSE IF c = StageRows THEN Unset ELSE 0]

\* ctx.synchronize: the builder's own drain, which the tracker is not told of.
Synchronize == queue = <<>>

EnqueueAll(ops_) == queue' = queue \o ops_

-----------------------------------------------------------------------------
FitInit ==
    /\ Init
    /\ step = "idle" /\ arm = "host" /\ cadence \in Cadences /\ left = 0
    /\ pending = 0 /\ folded = FALSE /\ bound = 0 /\ overflowed = FALSE
    /\ trees = <<>> /\ tree = Rows(AllRows, 0) /\ active = Unset

BetweenFits == step \in {"idle", "done"}

\* Something raises: the builder and the state are gone, the queue is not.
Abandon == step' = "idle" /\ trainer' = "out"

\* The next step of the fit, unless the session refused the boundary.
Goes(to) == step' = IF refused' THEN "idle" ELSE to

\* A new builder uploads the bins and waits, and writes the full feature list;
\* a device fit gets an objective state.
BeginFit == \E a \in {"device", "host"}, c \in Cadences, n \in 1 .. MaxRounds :
    /\ BetweenFits /\ state # "closed" /\ Count
    /\ Synchronize
    /\ memory' = FreshMemory /\ seen' = memory'[HostOut]
    /\ queue' = IF a = "device" THEN <<InitRaw>> ELSE <<>>
    /\ step' = "head" /\ arm' = a /\ cadence' = c /\ left' = n
    /\ pending' = 0 /\ folded' = FALSE /\ bound' = 0 /\ overflowed' = FALSE
    /\ trees' = <<>> /\ active' = Unset
    /\ UNCHANGED <<untold, state, trainer, tree>>

StartRound ==
    /\ step = "head" /\ left > 0
    /\ BeginRound /\ Goes("gradients")
    /\ left' = left - 1
    /\ UNCHANGED <<run, scale, overflowed, trees, tree, active>>

-----------------------------------------------------------------------------
(* The gradients of a round and the scale of its histograms. *)

\* The power-of-two rule: the scale of a sum has room up to the next power.
RoomFor(total) == CHOOSE p \in {2 ^ k : k \in 0 .. total} : total <= p /\ p < 2 * total

\* upload_gradients: convert into the arena once nothing reads it, and copy.
UploadGradients == \E t \in Totals :
    /\ step = "gradients" /\ arm = "host"
    /\ Synchronize
    /\ memory' = [memory EXCEPT ![Stage(1)] = [trees |-> trees, total |-> t]]
    /\ EnqueueAll(<<Copy(1)>>)
    /\ bound' = RoomFor(t)
    /\ step' = "ready"
    /\ UNCHANGED <<untold, state, trainer, seen, ops, run, left, pending, folded,
                   overflowed, trees, tree, active>>

\* fill_gradients_device: the kernels, and a wait when the window is full or
\* there is no scale yet.
FillGradients == \E t \in Totals :
    /\ step = "gradients" /\ arm = "device"
    /\ pending' = pending + 1
    /\ EnqueueAll(<<FillOf(t), Magnitudes(pending')>>)
    /\ step' = IF pending' >= cadence.rounds \/ ~folded THEN "scale" ELSE "ready"
    /\ UNCHANGED <<untold, memory, state, trainer, seen, ops, run, left, folded, bound,
                   overflowed, trees, tree, active>>

\* _close_scale_window: the rounds that ran under the scale in force are
\* checked against it, then the next one is derived from the whole window.
FoldWindow(quantized, next) ==
    /\ Synchronize
    /\ IF folded /\ \E i \in 1 .. quantized : memory[HostPart(i)] > bound
       THEN Abandon /\ UNCHANGED scale
       ELSE /\ bound' = RoomFor(Max({memory[HostPart(i)] : i \in 1 .. pending})
                                * 2 ^ cadence.headroom)
            /\ pending' = 0 /\ folded' = TRUE
            /\ step' = next /\ UNCHANGED trainer
    /\ UNCHANGED <<untold, device, state, seen, ops, run, left, overflowed, trees, tree, active>>

\* The newest round has built nothing under the scale in force.
RefreshScale == step = "scale" /\ FoldWindow(pending - 1, "ready")

\* Mutant: the flush leaves out the newest round as well.
FlushScaleWindowOfOlder ==
    step = "head" /\ left = 0 /\ pending > 0 /\ FoldWindow(pending - 1, "head")
\* flush_scale_window, after the last round: every round has.
FlushScaleWindow ==
    step = "head" /\ left = 0 /\ pending > 0 /\ FoldWindow(pending, "head")

Return ==
    /\ step = "head" /\ left = 0 /\ pending = 0
    /\ step' = "done"
    /\ UNCHANGED <<vars, run, left, scale, overflowed, trees, tree, active>>

-----------------------------------------------------------------------------
(* A tree. *)

StartTree ==
    /\ step = "ready"
    /\ BeginTree /\ Goes("features")
    /\ UNCHANGED <<run, left, scale, overflowed, trees, tree, active>>

\* set_features: nothing for the list in force, else through a blocking mapping.
ChooseFeatures == \E f \in Values \cup {Unset} :
    /\ step = "features"
    /\ f = active \/ Synchronize
    /\ memory' = [memory EXCEPT ![Feat] = f]
    /\ active' = f
    /\ step' = "seed"
    /\ UNCHANGED <<untold, queue, state, trainer, seen, ops, run, left, scale, overflowed,
                   trees, tree>>

\* begin_tree of the active rows: all by a kernel, or a bag through its staging.
SeedAll ==
    /\ step = "seed"
    /\ EnqueueAll(<<Memset>>)
    /\ tree' = Rows(AllRows, 0)
    /\ step' = "build"
    /\ UNCHANGED <<untold, memory, state, trainer, seen, ops, run, left, scale, overflowed,
                   trees, active>>

SeedBag == \E bag \in Values :
    /\ step = "seed" /\ arm = "host"
    /\ Synchronize
    /\ memory' = [memory EXCEPT ![StageRows] = bag]
    /\ EnqueueAll(<<CopyRows>>)
    /\ tree' = Rows(bag, 0)
    /\ step' = "build"
    /\ UNCHANGED <<untold, state, trainer, seen, ops, run, left, scale, overflowed, trees,
                   active>>

BuildHistogram ==
    /\ step = "build"
    /\ EnqueueAll(<<Histogram, Download>>)
    /\ step' = "await"
    /\ UNCHANGED <<untold, memory, state, trainer, seen, ops, run, left, scale, overflowed,
                   trees, tree, active>>

TakeHistogram ==
    /\ seen' = memory[HostOut]
    /\ overflowed' = (overflowed \/ seen'.grad.total > bound)
    /\ step' = "grow"
    /\ UNCHANGED <<untold, device, state, trainer, ops, run, left, scale, trees, tree, active>>

\* Mutant: the download is not waited for.
DownloadRawAtOnce == step = "await" /\ TakeHistogram
\* download_raw and histogram_from_host.
DownloadRaw == step = "await" /\ Synchronize /\ TakeHistogram

SplitLeaf ==
    /\ step = "grow" /\ tree.splits < MaxSplits
    /\ EnqueueAll(<<Partition>>)
    /\ tree' = Rows(tree.bag, tree.splits + 1)
    /\ step' = "build"
    /\ UNCHANGED <<untold, memory, state, trainer, seen, ops, run, left, scale, overflowed,
                   trees, active>>

FinishTree ==
    /\ step = "grow"
    /\ EndTree /\ Goes("post")
    /\ UNCHANGED <<run, left, scale, overflowed, trees, tree, active>>

-----------------------------------------------------------------------------
(* After a tree. *)

\* Mutant: the kernel goes before the copy of the ranges it is to read.
UpdateRawRangesFirst(n) ==
    /\ memory' = [memory EXCEPT ![StageSeg] = n]
    /\ EnqueueAll(<<AddRanges, CopySegments>>)
\* update_raw_ranges: into the pinned table with no drain of its own, then the
\* copy and the kernel, which nobody waits for.
UpdateRawRanges(n) ==
    /\ memory' = [memory EXCEPT ![StageSeg] = n]
    /\ EnqueueAll(<<CopySegments, AddRanges>>)

KeepTree ==
    /\ step = "post"
    /\ trees' = Append(trees, [tree |-> Len(trees) + 1, rows |-> tree])
    /\ IF arm = "device" THEN UpdateRawRanges(Len(trees')) ELSE UNCHANGED device
    /\ step' = "ended"
    /\ UNCHANGED <<untold, state, trainer, seen, ops, run, left, scale, overflowed, tree,
                   active>>

\* A tree that is a worthless root ends the loop, or under a sampler the round.
DropTree ==
    /\ step = "post" /\ tree.splits = 0
    /\ left' = 0 \/ (arm = "host" /\ left' = left)
    /\ step' = "ended"
    /\ UNCHANGED <<vars, run, scale, overflowed, trees, tree, active>>

FinishRound ==
    /\ step = "ended"
    /\ EndRound /\ Goes("head")
    /\ UNCHANGED <<run, left, scale, overflowed, trees, tree, active>>

Fails ==
    /\ ~BetweenFits
    /\ Abandon
    /\ UNCHANGED <<untold, device, state, seen, ops, run, left, scale, overflowed, trees,
                   tree, active>>

\* The owner closes the session; no trainer does.
CloseSession == BetweenFits /\ Close /\ UNCHANGED fitVars

RetireOne ==
    /\ queue # <<>>
    /\ memory' = FitEffect(Head(queue), memory)
    /\ queue' = Tail(queue)
    /\ UNCHANGED <<untold, state, trainer, seen, ops, fitVars>>

Over == Finished /\ UNCHANGED fitVars

FitNext ==
    \/ BeginFit \/ StartRound \/ UploadGradients \/ FillGradients \/ RefreshScale
    \/ StartTree \/ ChooseFeatures \/ SeedAll \/ SeedBag \/ BuildHistogram \/ DownloadRaw
    \/ SplitLeaf \/ FinishTree \/ KeepTree \/ DropTree \/ FinishRound
    \/ FlushScaleWindow \/ Return \/ Fails \/ CloseSession
    \/ RetireOne \/ Over

allVars == <<vars, fitVars>>
FitSpec == FitInit /\ [][FitNext]_allVars

-----------------------------------------------------------------------------
(* Properties. *)

HostWritten == {Stage(1), StageRows, StageSeg, Feat}
Touched == UNION {FitReads(queue[i]) \cup FitWrites(queue[i]) : i \in DOMAIN queue}

\* The host writes no buffer a queued operation still uses, and reads back
\* nothing an operation still writes: the histogram, or a slot of the window.
\* The segment table has no drain of its own; the trees' drains are its guard
\* at every cadence of the scale.
HostStaysOutOfTheWay ==
    [][/\ ~BetweenFits => \A c \in HostWritten : memory'[c] # memory[c] => c \notin Touched
       /\ (step = "await" /\ step' = "grow") => HostOut \notin Touched
       /\ pending' < pending => \A i \in 1 .. pending : HostPart(i) \notin Touched]_allVars

\* Every histogram a tree is grown from is of the tree's own rows and features
\* and of the gradients at the scores of all trees kept before it, each added
\* over the rows it left behind, though the host waits for none of the updates.
GrownFromTheEnsemble ==
    step = "grow" =>
        /\ seen.leaf = tree
        /\ seen.feat = active
        /\ seen.grad.trees = trees

\* No fit returns a model with a histogram that outgrew its scale, however
\* late the check of a reused scale comes and however the loop ended.
NoModelOverflows == step = "done" => ~overflowed

\* What close says of itself: the queue is drained before the session is
\* closed, here after a fit that has returned its model.
ClosedIsQuiet == state = "closed" /\ step = "done" => queue = <<>>
=============================================================================
