--------------------------- MODULE DistributedRun ---------------------------
(***************************************************************************)
(* train_distributed_run (distributed.mojo): the lock-step schedule of     *)
(* collectives that trains one ensemble on a world of N processes, one     *)
(* rank each, with the data-parallel tree learner.  The order is fixed:    *)
(* configuration, target statuses, partition (row counts, then statuses),  *)
(* base score; then per round the BEFORE verdict, the tree's histograms    *)
(* (and split agreements), the metric, the checkpoint barrier, the AFTER   *)
(* verdict, each where the options ask for it.                             *)
(*                                                                         *)
(* The collective is what TransportCollective.tla checks it to be: a call  *)
(* meets when every rank has entered it with one shape (op, length), every *)
(* rank is then handed the same reduction, a shape mismatch fails every    *)
(* rank, and a rank whose peer is gone fails.                              *)
(*                                                                         *)
(* Abstracted: a histogram is one number, of which a split is found from   *)
(* SplitAt on, its reductions (gradients, counts) are one call, and a tree *)
(* is the sequence of the histograms that were reduced for it; a sibling's *)
(* is what is left of its parent's.  Rows, targets and losses are what     *)
(* they contribute to the reductions.  Not modelled here: feature *)
(* and voting parallel growers, ranking groups, the objectives refused.    *)
(***************************************************************************)
EXTENDS Integers, Sequences, FiniteSets, Functions, SequencesExt

CONSTANTS
    N,            \* world size
    Rounds,       \* n_estimators
    NumLeaves,    \* num_leaves
    Options,      \* the DistributedRunOptions a rank may be given
    SameOptions,  \* whether every rank is given the same ones
    Verdicts,     \* what a callback may do at a phase
    MayCrash      \* whether a process may die

VerdictKinds == {"continue", "stop", "abort", "raise", "reset"}

ASSUME WorldAssumption == N \in Nat /\ N >= 2
ASSUME BoundAssumption == Rounds \in Nat /\ NumLeaves \in Nat \ {0}
ASSUME OptionsAssumption ==
    Options \subseteq [metric_every: Nat, early_stopping_rounds: Nat,
                       checkpoint_every: Nat, verify_splits: BOOLEAN]
ASSUME EnvironmentAssumption ==
    /\ Verdicts \subseteq VerdictKinds /\ "continue" \in Verdicts
    /\ SameOptions \in BOOLEAN /\ MayCrash \in BOOLEAN

VARIABLES
    options,   \* [rank -> its DistributedRunOptions]
    rows,      \* [rank -> rows of its shard]
    run,       \* [rank -> the locals of its train_distributed_run]
    offer,     \* [rank -> the collective it waits in, or NoCall]
    answer     \* [rank -> the reduction it was handed and has not read]

vars == <<options, rows, run, offer, answer>>

Ranks == 0 .. N - 1

Opening == <<"config", "targets", "counts", "rows", "base">>
Looping == {"before", "histogram", "split", "metric", "checkpoint", "after"}
Ended == {"returned", "raised", "crashed"}

Errors == {"none", "disagree", "status", "no_rows", "splits", "callback_failed",
           "callback_raised", "parameter_reset", "collective_failed"}

NoCall == [what |-> <<>>, op |-> "none", payload |-> <<>>]
NoAnswer == [status |-> "none", value |-> <<>>]
Failed == [status |-> "failed", value |-> <<>>]

NewRun == [pc |-> "config", round |-> 0, tree |-> <<>>, frontier |-> <<>>,
           splits |-> 0, trees |-> <<>>, best |-> <<0, 0>>, stop_now |-> FALSE,
           reset |-> FALSE, metrics |-> <<>>, stopped_early |-> FALSE,
           stopped_by_callback |-> FALSE, checkpoints |-> <<>>,
           error |-> "none"]

Init ==
    /\ options \in [Ranks -> Options]
    /\ SameOptions => \A r \in Ranks : options[r] = options[0]
    /\ rows \in [Ranks -> 0 .. 1]
    /\ run = [r \in Ranks |-> NewRun]
    /\ offer = [r \in Ranks |-> NoCall]
    /\ answer = [r \in Ranks |-> NoAnswer]

-----------------------------------------------------------------------------
(* The collective.                                                         *)

Waiting(r) == offer[r] # NoCall
Gone(r) == run[r].pc \in Ended

Shape(call) == <<call.op, Len(call.payload)>>
OneShape == \A r, q \in Ranks : Shape(offer[r]) = Shape(offer[q])

Maximum(v) == CHOOSE m \in Range(v) : \A x \in Range(v) : x <= m

\* A sum of natural numbers: the units the ranks bring.
Total(v) == Cardinality(UNION {{r} \X (1 .. v[r]) : r \in Ranks})

\* The element-wise reductions of collective.mojo.
Reduce(op, i) ==
    LET column == [r \in Ranks |-> offer[r].payload[i]]
    IN  IF op = "max" THEN Maximum(column) ELSE Total(column)

Reduction ==
    [i \in 1 .. Len(offer[0].payload) |-> Reduce(offer[0].op, i)]

\* Mutant: a sum is left in the buffer each rank brought.
MeetUnreduced ==
    /\ \A r \in Ranks : Waiting(r)
    /\ answer' = [r \in Ranks |->
                   IF ~OneShape THEN Failed
                   ELSE [status |-> "ok",
                         value |-> IF offer[r].op = "sum" THEN offer[r].payload
                                   ELSE Reduction]]
    /\ offer' = [r \in Ranks |-> NoCall]
    /\ UNCHANGED <<options, rows, run>>

\* Every rank has entered: all are handed the reduction, or, when they did
\* not enter the same call, the failure the transport turns it into.
Meet ==
    /\ \A r \in Ranks : Waiting(r)
    /\ answer' = [r \in Ranks |->
                   IF OneShape THEN [status |-> "ok", value |-> Reduction]
                   ELSE Failed]
    /\ offer' = [r \in Ranks |-> NoCall]
    /\ UNCHANGED <<options, rows, run>>

SetRun(r, u) == run' = [run EXCEPT ![r] = u]
Fails(u, error) == [u EXCEPT !.pc = "raised", !.error = error]

\* Mutant: a lost peer is waited for.
LoseNever(r) == Waiting(r) /\ UNCHANGED vars

\* A peer is gone and will not enter the call this rank waits in, or the
\* broadcast of its answer broke off (a rank that left after reading its own
\* answer takes nobody else's with it).
Lose(r) ==
    /\ \/ Waiting(r) /\ \E q \in Ranks : Gone(q)
       \/ /\ answer[r] # NoAnswer
          /\ \E q \in Ranks : \/ run[q].pc = "crashed"
                            \/ run[q].error = "collective_failed"
    /\ SetRun(r, Fails(run[r], "collective_failed"))
    /\ offer' = [offer EXCEPT ![r] = NoCall]
    /\ answer' = [answer EXCEPT ![r] = NoAnswer]
    /\ UNCHANGED <<options, rows>>

Crash(r) ==
    /\ MayCrash /\ ~Gone(r)
    /\ SetRun(r, [run[r] EXCEPT !.pc = "crashed"])
    /\ offer' = [offer EXCEPT ![r] = NoCall]
    /\ answer' = [answer EXCEPT ![r] = NoAnswer]
    /\ UNCHANGED <<options, rows>>

-----------------------------------------------------------------------------
(* Entering a call.                                                        *)

Ready(r) == ~Gone(r) /\ ~Waiting(r) /\ answer[r] = NoAnswer

\* Which call of the run this is: what a reduction must never mix.
What(u) == <<u.pc, u.round, Len(u.tree), u.splits>>

Enter(r, op, payload) ==
    /\ offer' = [offer EXCEPT ![r] = [what |-> What(run[r]), op |-> op,
                                      payload |-> payload]]
    /\ UNCHANGED <<options, rows, answer>>

\* agree_equal_ints: every value beside its negation, reduced by max.
EqualInts(v) == <<v, -v>>

\* A world-sized vector with this rank's own slot filled in.
OwnSlot(r, v) == [i \in 1 .. N |-> IF i = r + 1 THEN v ELSE 0]

EnterOpening(r) ==
    /\ Ready(r)
    /\ \/ run[r].pc = "config" /\ \E v \in 0 .. 1 : Enter(r, "max", EqualInts(v))
       \/ run[r].pc = "targets" /\ \E s \in 0 .. 1 : Enter(r, "max", OwnSlot(r, s))
       \/ run[r].pc = "counts" /\ Enter(r, "sum_int", OwnSlot(r, rows[r]))
       \/ run[r].pc = "rows" /\ Enter(r, "max", OwnSlot(r, 0))
       \/ run[r].pc = "base" /\ Enter(r, "sum", <<0, rows[r]>>)
    /\ UNCHANGED run

Codes == [continue |-> 0, stop |-> 1, abort |-> 2, reset |-> 0]

\* Mutant: a callback's STOP is acted on before it is agreed.
EnterVerdictLocal(r) ==
    /\ Ready(r) /\ run[r].pc \in {"before", "after"}
    /\ \E v \in Verdicts :
        \/ v # "stop" /\ Enter(r, "max", <<Codes[v]>>) /\ UNCHANGED run
        \/ /\ v = "stop"
           /\ SetRun(r, [run[r] EXCEPT !.pc = "returned"])
           /\ UNCHANGED <<options, rows, offer, answer>>

\* on_iteration, then _agree_control.  A callback that raises does not
\* reach the reduction; one that resets a parameter does.
EnterVerdict(r) ==
    /\ Ready(r) /\ run[r].pc \in {"before", "after"}
    /\ \E v \in Verdicts :
        \/ /\ v # "raise"
           /\ Enter(r, "max", <<Codes[v]>>)
           /\ SetRun(r, [run[r] EXCEPT !.reset = (v = "reset")])
        \/ /\ v = "raise"
           /\ SetRun(r, Fails(run[r], "callback_raised"))
           /\ UNCHANGED <<options, rows, offer, answer>>

\* A shard without rows adds nothing, and is reduced all the same.
EnterHistogram(r) ==
    /\ Ready(r) /\ run[r].pc = "histogram"
    /\ \E h \in 0 .. rows[r] : Enter(r, "sum", <<h, rows[r], 0>>)
    /\ UNCHANGED run

\* The split to agree: of the child that was reduced, then of the one that was
\* subtracted; or of the root.
SplitOf(u) == IF u.splits = 2 THEN Last(u.tree) ELSE Last(u.frontier)

\* Mutant: the digest takes in a row count of the rank's own.
EnterSplitLocal(r) ==
    /\ Ready(r) /\ run[r].pc = "split"
    /\ Enter(r, "max", EqualInts(SplitOf(run[r])) \o EqualInts(rows[r]))
    /\ UNCHANGED run

\* _agree_split: two halves of a digest of the split, each agreed.
EnterSplit(r) ==
    /\ Ready(r) /\ run[r].pc = "split"
    /\ Enter(r, "max", EqualInts(SplitOf(run[r])) \o EqualInts(0))
    /\ UNCHANGED run

\* Mutant: a rank without rows has nothing to score.
EnterMetricSkipped(r) ==
    /\ Ready(r) /\ run[r].pc = "metric"
    /\ \/ /\ rows[r] > 0
          /\ \E loss \in 0 .. rows[r] : Enter(r, "sum", <<loss, rows[r]>>)
          /\ UNCHANGED run
       \/ /\ rows[r] = 0
          /\ SetRun(r, [run[r] EXCEPT !.pc = "after"])
          /\ UNCHANGED <<options, rows, offer, answer>>

\* distributed_metric: the loss of the shard, weighted by its rows.
EnterMetric(r) ==
    /\ Ready(r) /\ run[r].pc = "metric"
    /\ \E loss \in 0 .. rows[r] : Enter(r, "sum", <<loss, rows[r]>>)
    /\ UNCHANGED run

\* Mutant: the boundary is recorded on the way into the barrier.
EnterCheckpointRecorded(r) ==
    /\ Ready(r) /\ run[r].pc = "checkpoint"
    /\ Enter(r, "barrier", <<>>)
    /\ SetRun(r, [run[r] EXCEPT !.checkpoints = Append(@, run[r].trees)])

EnterCheckpoint(r) ==
    /\ Ready(r) /\ run[r].pc = "checkpoint"
    /\ Enter(r, "barrier", <<>>)
    /\ UNCHANGED run

-----------------------------------------------------------------------------
(* What follows in the round.                                              *)

At(u, label) == [u EXCEPT !.pc = label]
Returned(u) == At(u, "returned")

\* The loop's head: another round, or the model.
NextRound(u) ==
    IF u.round + 1 < Rounds THEN [At(u, "before") EXCEPT !.round = @ + 1]
    ELSE Returned(u)

ToCheckpoint(u, o) ==
    IF o.checkpoint_every > 0 /\ Len(u.trees) % o.checkpoint_every = 0
    THEN At(u, "checkpoint") ELSE At(u, "after")

\* scores_every_round, or the round metric_every names.
Due(u, o) ==
    \/ o.early_stopping_rounds > 0
    \/ o.metric_every > 0 /\ Len(u.trees) % o.metric_every = 0

ToMetric(u, o) == IF Due(u, o) THEN At(u, "metric") ELSE ToCheckpoint(u, o)

\* No split and no value: the ensemble has converged and the tree is dropped.
Converged(tree) == Len(tree) = 1 /\ tree[1] = 0

TreeGrown(u, o) ==
    IF Converged(u.tree) THEN Returned(u)
    ELSE ToMetric([u EXCEPT !.trees = Append(@, u.tree), !.tree = <<>>,
                              !.frontier = <<>>], o)

SplitAt == 2

\* The leaf of the frontier with the largest gain, the first of equals.
Best(frontier) ==
    CHOOSE i \in DOMAIN frontier : \A j \in DOMAIN frontier :
        \/ frontier[j] < frontier[i]
        \/ frontier[j] = frontier[i] /\ i <= j

\* The next histogram while a split is found and leaves remain.
GrowOn(u, o) ==
    IF Len(u.frontier) < NumLeaves /\ u.frontier[Best(u.frontier)] >= SplitAt
    THEN At(u, "histogram") ELSE TreeGrown(u, o)

\* The reduced histogram is the root's, or that of the best leaf's smaller
\* child, and the other child has the rest.
Expand(frontier, h) ==
    IF frontier = <<>> THEN <<h>>
    ELSE LET b == Best(frontier)
         IN  Append([frontier EXCEPT ![b] = h], frontier[b] - h)

\* Under verify_splits the root's split is agreed, then both children's.
HistogramReduced(u, o, h) ==
    LET grown == [u EXCEPT !.tree = Append(@, h), !.frontier = Expand(@, h)]
    IN  IF o.verify_splits
        THEN [At(grown, "split") EXCEPT !.splits = IF Len(grown.tree) = 1 THEN 1 ELSE 2]
        ELSE GrowOn(grown, o)

SplitAgreed(u, o) ==
    LET left == [u EXCEPT !.splits = @ - 1]
    IN  IF left.splits > 0 THEN left ELSE GrowOn(left, o)

\* Mutant: one stale round too many is waited for.
StaleLate(u, best, o) ==
    /\ o.early_stopping_rounds > 0
    /\ Len(u.trees) - best[2] > o.early_stopping_rounds

\* No improvement for early_stopping_rounds rounds.
Stale(u, best, o) ==
    /\ o.early_stopping_rounds > 0
    /\ Len(u.trees) - best[2] >= o.early_stopping_rounds

\* The metric's reduction: remember the best, stop when it is stale.
Scored(u, o, loss) ==
    LET better == u.best[2] = 0 \/ loss < u.best[1]
        best == IF better THEN <<loss, Len(u.trees)>> ELSE u.best
        stop == Stale(u, best, o)
    IN  ToCheckpoint([u EXCEPT !.best = best, !.stop_now = stop,
                               !.stopped_early = stop,
                               !.metrics = Append(@, <<Len(u.trees), loss>>)], o)

\* A CheckpointMeta: its epoch is its place in the report.
Checkpointed(u) ==
    [At(u, "after") EXCEPT !.checkpoints = Append(@, u.trees)]

Stopped(u) == Returned([u EXCEPT !.stopped_by_callback = TRUE])

\* The agreed verdict of the BEFORE phase, then the local check that the
\* callback left the parameters alone.
BeforeAgreed(u, code) ==
    CASE code = 2 -> Fails(u, "callback_failed")
      [] code = 1 -> Stopped(u)
      [] code = 0 /\ u.reset -> Fails(u, "parameter_reset")
      [] OTHER -> At(u, "histogram")

AfterAgreed(u, code) ==
    CASE code = 2 -> Fails(u, "callback_failed")
      [] code = 1 -> Stopped(u)
      [] code = 0 /\ u.stop_now -> Returned(u)
      [] OTHER -> NextRound([u EXCEPT !.reset = FALSE])

\* The base score needs a row; the round count may be zero.
BaseReduced(u, sums) ==
    IF sums[2] <= 0 THEN Fails(u, "no_rows")
    ELSE IF Rounds = 0 THEN Returned(u) ELSE At(u, "before")

\* Whether agree_equal_ints found the ranks of one mind.
AllEqual(v) ==
    \A i \in 1 .. Len(v) \div 2 : v[2 * i - 1] = -v[2 * i]

\* Mutant: each rank reads the status of its own slot.
AllFineOwn(v, r) == v[r + 1] = 0

\* agree_status: no rank reported a failure.
AllFine(v, r) == \A i \in DOMAIN v : v[i] = 0

-----------------------------------------------------------------------------
(* Reading an answer.                                                      *)

\* What rank r does with the reduction v.
Resume(r, v) ==
    LET u == run[r]  o == options[r]
    IN  CASE u.pc = "config" -> IF AllEqual(v) THEN At(u, "targets")
                                ELSE Fails(u, "disagree")
          [] u.pc = "targets" -> IF AllFine(v, r) THEN At(u, "counts")
                                 ELSE Fails(u, "status")
          [] u.pc = "counts" -> At(u, "rows")
          [] u.pc = "rows" -> IF AllFine(v, r) THEN At(u, "base")
                              ELSE Fails(u, "status")
          [] u.pc = "base" -> BaseReduced(u, v)
          [] u.pc = "before" -> BeforeAgreed(u, v[1])
          [] u.pc = "histogram" -> HistogramReduced(u, o, v[1])
          [] u.pc = "split" -> IF AllEqual(v) THEN SplitAgreed(u, o)
                               ELSE Fails(u, "splits")
          [] u.pc = "metric" -> Scored(u, o, v[1])
          [] u.pc = "checkpoint" -> Checkpointed(u)
          [] u.pc = "after" -> AfterAgreed(u, v[1])

Read(r) ==
    /\ answer[r] # NoAnswer
    /\ SetRun(r, IF answer[r] = Failed THEN Fails(run[r], "collective_failed")
                 ELSE Resume(r, answer[r].value))
    /\ answer' = [answer EXCEPT ![r] = NoAnswer]
    /\ UNCHANGED <<options, rows, offer>>

\* Every rank has ended: the run is over.
Done == (\A r \in Ranks : Gone(r)) /\ UNCHANGED vars

Step(r) ==
    \/ EnterOpening(r) \/ EnterVerdict(r) \/ EnterHistogram(r)
    \/ EnterSplit(r) \/ EnterMetric(r) \/ EnterCheckpoint(r)
    \/ Read(r) \/ Lose(r)

Next == Meet \/ (\E r \in Ranks : Step(r) \/ Crash(r)) \/ Done

Spec == Init /\ [][Next]_vars

\* A process runs until it ends, and the reduction of a call everyone has
\* entered completes; nothing obliges a process to die.
FairSpec == Spec /\ WF_vars(Meet) /\ \A r \in Ranks : WF_vars(Step(r))

-----------------------------------------------------------------------------
(* What is promised.                                                       *)

\* The locals of a run are well formed; a metric and a checkpoint only
\* exist of a round that has a tree.
TypeOK ==
    /\ options \in [Ranks -> Options] /\ rows \in [Ranks -> 0 .. 1]
    /\ \A r \in Ranks :
        LET u == run[r] IN
        /\ u.pc \in Range(Opening) \union Looping \union Ended
        /\ (u.round = 0 \/ u.round \in 0 .. Rounds - 1) /\ u.splits \in 0 .. 2
        /\ u.error \in Errors /\ (u.error = "none") = (u.pc # "raised")
        /\ Len(u.trees) <= u.round + 1 /\ u.trees \in Seq(Seq(0 .. N))
        /\ \A m \in Range(u.metrics) : m[1] \in 1 .. Len(u.trees)
        /\ \A c \in Range(u.checkpoints) : IsPrefix(c, u.trees) /\ c # <<>>

\* The same run on every rank: whoever waits in a collective waits in the
\* same call of the same round and node ("nothing is skipped on a rank with
\* no rows": train_distributed_run's fixed order).
LockStep ==
    \A r, q \in Ranks :
        Waiting(r) /\ Waiting(q) => offer[r].what = offer[q].what

Outcome(r) ==
    [trees |-> run[r].trees, metrics |-> run[r].metrics,
     stopped_early |-> run[r].stopped_early,
     stopped_by_callback |-> run[r].stopped_by_callback,
     checkpoints |-> run[r].checkpoints]

\* Of ranks that were given the same options, every one that returns, returns
\* the same model and the same report, whatever its callback said, however few
\* rows it held, whoever crashed.
SameOutcome ==
    \A r, q \in Ranks :
        run[r].pc = "returned" /\ run[q].pc = "returned" /\ options[r] = options[q]
        => Outcome(r) = Outcome(q)

\* A failure is everyone's, for the same reason (docs/distributed.md section
\* 7: "A failed run fails on every rank with the same message").
FailuresAgree ==
    \A r, q \in Ranks :
        run[r].pc = "raised" => run[q].pc \notin {"returned", "crashed"}
                                /\ (run[q].pc = "raised" => run[q].error = run[r].error)

\* No rank leaves the loop while another waits in a collective it will not
\* enter (docstring of DistributedRunOptions; the convergence break).
NobodyIsLeftWaiting ==
    \A r, q \in Ranks : run[r].pc = "returned" => ~Waiting(q)

\* A checkpoint a rank has recorded is one the whole world has reached:
\* every other process has grown those trees too.
CheckpointIsWorldWide ==
    \A r, q \in Ranks : \A c \in Range(run[r].checkpoints) :
        run[q].pc # "crashed" => IsPrefix(c, run[q].trees)

\* Early stopping, said of the report alone: the run stopped at the first
\* round whose last early_stopping_rounds losses all failed to beat the
\* best one before them.
Stagnant(u, k, n) ==
    /\ k > n
    /\ \E b \in 1 .. k - n :
        \A i \in b + 1 .. k : u.metrics[i][2] >= u.metrics[b][2]

StopsWhenStagnant ==
    \A r \in Ranks :
        LET u == run[r]  n == options[r].early_stopping_rounds IN
        n > 0 => /\ u.stopped_early = Stagnant(u, Len(u.metrics), n)
                 /\ \A k \in 1 .. Len(u.metrics) - 1 : ~Stagnant(u, k, n)

\* Nobody waits for ever: every rank returns, raises or is dead.
EveryRankEnds == \A r \in Ranks : <>Gone(r)

\* The split agreement of verify_splits never fails ("unreachable in a
\* correct run"), and no rank's collective fails, when the ranks were given
\* the same options and none died.
NoSpuriousFailure ==
    \A r \in Ranks : run[r].error \notin {"splits", "collective_failed"}
=============================================================================
