------------------------ MODULE DistributedRun_proofs ------------------------
(***************************************************************************)
(* What the lock-step schedule keeps for every number of ranks, rounds and *)
(* leaves, every options and every callback.                               *)
(*                                                                         *)
(* The argument looks through the answers that were not read yet: the      *)
(* state a rank is bound for is where its locals will be once it has read  *)
(* the reduction it was handed, and is its locals when it was handed none. *)
(* Between two meetings those states change only by a rank's leaving.  A   *)
(* meeting moves all of them at once, from one call, since the shapes of   *)
(* the calls of a round tell them apart; and what a rank does with a       *)
(* reduction depends on its locals and its options alone.  So ranks bound  *)
(* for one call have grown the same trees, whatever their options, and     *)
(* ranks with the same options are bound for the same state.               *)
(***************************************************************************)
EXTENDS DistributedRun, FiniteSetTheorems, SequenceTheorems, WellFoundedInduction, TLAPS

Labels == {"config", "targets", "counts", "rows", "base"} \union Looping \union Ended
Lost == {"raised", "crashed"}

\* What a reduced histogram may be, and a tree of them.
Sums == 0 .. N
Trees == Seq(Sums)

\* The locals of train_distributed_run.
RunRecord ==
    [pc: Labels, round: Nat, tree: Trees, frontier: Seq(Int), splits: 0 .. 2,
     trees: Seq(Trees), best: Int \X Nat, stop_now: BOOLEAN, reset: BOOLEAN,
     metrics: Seq(Nat \X Int), stopped_early: BOOLEAN, stopped_by_callback: BOOLEAN,
     checkpoints: Seq(Seq(Trees)), error: Errors]

OptionRecord ==
    [metric_every: Nat, early_stopping_rounds: Nat, checkpoint_every: Nat,
     verify_splits: BOOLEAN]

\* A rank that agrees a split has a frontier and a tree; no leaf has more than
\* the reduction of a whole world.
Growing(u) ==
    /\ u.pc = "split" => Len(u.frontier) > 0 /\ Len(u.tree) > 0 /\ u.splits > 0
    /\ \A i \in 1 .. Len(u.frontier) : u.frontier[i] <= N

\* The round counts the trees.
Counting(u) ==
    /\ u.round = 0 \/ u.round < Rounds
    /\ Len(u.trees) <= u.round + 1
    /\ u.pc \notin {"metric", "checkpoint", "after"} \union Ended => Len(u.trees) <= u.round
    /\ u.pc \in {"metric", "checkpoint"} => Len(u.trees) > 0
    /\ (u.error = "none") <=> (u.pc # "raised")

\* A checkpoint is of trees the rank has.
Recorded(u) ==
    \A i \in 1 .. Len(u.checkpoints) :
        u.checkpoints[i] # <<>> /\ IsPrefix(u.checkpoints[i], u.trees)

\* A metric is of trees the rank had.
Measured(u) == \A i \in 1 .. Len(u.metrics) : u.metrics[i][1] \in 1 .. Len(u.trees)

\* Early stopping: the best loss is the first of the least, and the round that
\* is stale by it is the last.
LossAt(u, i) == u.metrics[i][2]
BestLoss(u) == u.best[1]
BestRound(u) == u.best[2]

BestIsFirst(u) ==
    IF Len(u.metrics) = 0 THEN BestRound(u) = 0
    ELSE /\ BestRound(u) \in 1 .. Len(u.metrics)
         /\ LossAt(u, BestRound(u)) = BestLoss(u)
         /\ \A i \in 1 .. Len(u.metrics) : LossAt(u, i) >= BestLoss(u)
         /\ \A i \in 1 .. BestRound(u) - 1 : LossAt(u, i) > BestLoss(u)

Scoring(u, n) ==
    n > 0 =>
        /\ u.pc \notin Ended => Len(u.trees) = Len(u.metrics) + (IF u.pc = "metric" THEN 1 ELSE 0)
        /\ BestIsFirst(u)
        /\ u.stop_now <=> u.stopped_early
        /\ u.stop_now => u.pc \in {"checkpoint", "after"} \union Ended
        /\ u.stopped_early <=> Stagnant(u, Len(u.metrics), n)
        /\ \A k \in 1 .. Len(u.metrics) - 1 : ~Stagnant(u, k, n)

RankInv(u, o) ==
    /\ u \in RunRecord
    /\ Growing(u) /\ Counting(u) /\ Recorded(u) /\ Measured(u)
    /\ Scoring(u, o.early_stopping_rounds)

\* What rank r's locals become when it has read v.
ResumeOf(u, o, v) ==
    CASE u.pc = "config" -> IF AllEqual(v) THEN At(u, "targets") ELSE Fails(u, "disagree")
      [] u.pc = "targets" -> IF AllFine(v, 0) THEN At(u, "counts") ELSE Fails(u, "status")
      [] u.pc = "counts" -> At(u, "rows")
      [] u.pc = "rows" -> IF AllFine(v, 0) THEN At(u, "base") ELSE Fails(u, "status")
      [] u.pc = "base" -> BaseReduced(u, v)
      [] u.pc = "before" -> BeforeAgreed(u, v[1])
      [] u.pc = "histogram" -> HistogramReduced(u, o, v[1])
      [] u.pc = "split" -> IF AllEqual(v) THEN SplitAgreed(u, o) ELSE Fails(u, "splits")
      [] u.pc = "metric" -> Scored(u, o, v[1])
      [] u.pc = "checkpoint" -> Checkpointed(u)
      [] u.pc = "after" -> AfterAgreed(u, v[1])

\* The reductions there are: of units, of verdicts.
Readable(u, v) ==
    /\ u.pc \in {"histogram", "metric"} => v[1] \in Sums
    /\ u.pc \in {"before", "after"} => v[1] \in 0 .. 2

\* The state a rank is bound for.
BoundOf(u, o, a) == IF a.status = "ok" THEN ResumeOf(u, o, a.value) ELSE u
Bound(r) == BoundOf(run[r], options[r], answer[r])

\* The shape of a call of each kind.
ShapeOf(pc) ==
    CASE pc = "config" -> <<"max", 2>>
      [] pc \in {"targets", "rows"} -> <<"max", N>>
      [] pc = "counts" -> <<"sum_int", N>>
      [] pc \in {"base", "metric"} -> <<"sum", 2>>
      [] pc \in {"before", "after"} -> <<"max", 1>>
      [] pc = "histogram" -> <<"sum", 3>>
      [] pc = "split" -> <<"max", 4>>
      [] pc = "checkpoint" -> <<"barrier", 0>>

\* A rank waits in the call its locals say, and with what they say.
OfferIs(u, call, a) ==
    call # NoCall =>
        /\ a = NoAnswer /\ u.pc \notin Ended
        /\ call.what = What(u) /\ Shape(call) = ShapeOf(u.pc)
        /\ u.pc \in {"histogram", "metric"} => call.payload[1] \in 0 .. 1
        /\ u.pc \in {"before", "after"} => call.payload[1] \in 0 .. 2
        /\ u.pc = "split" => call.payload = EqualInts(SplitOf(u)) \o EqualInts(0)

AnswerIs(u, a) ==
    a # NoAnswer =>
        /\ u.pc \notin Ended
        /\ a = Failed \/ (a.status = "ok" /\ Readable(u, a.value))

LocalInv(u, o, call, a) == RankInv(u, o) /\ OfferIs(u, call, a) /\ AnswerIs(u, a)

\* The calls of a round no two of which have one shape.
Inner == {"histogram", "split", "metric", "checkpoint", "after"}

CloseBy(a, b) == a = b \/ (a \in Inner /\ b \in Inner) \/ a \in Ended \/ b \in Ended

\* The part of the locals that no option decides.
SameCore(u, w) ==
    /\ u.round = w.round /\ u.tree = w.tree /\ u.frontier = w.frontier
    /\ u.splits = w.splits /\ u.trees = w.trees

\* All of the locals but the reset a callback asked for, which is the rank's own.
SameRun(u, w) ==
    /\ u.pc = w.pc /\ SameCore(u, w)
    /\ u.best = w.best /\ u.stop_now = w.stop_now /\ u.metrics = w.metrics
    /\ u.stopped_early = w.stopped_early
    /\ u.stopped_by_callback = w.stopped_by_callback
    /\ u.checkpoints = w.checkpoints /\ u.error = w.error

Together(u, o, w, p) ==
    u.pc \notin Lost /\ w.pc \notin Lost =>
        /\ CloseBy(u.pc, w.pc)
        /\ u.pc = w.pc => SameCore(u, w)
        /\ o = p => SameRun(u, w)

Twins == \A r, q \in Ranks : Together(Bound(r), options[r], Bound(q), options[q])

\* A boundary that is recorded, or about to be, is everyone's.
WorldWide ==
    \A r, q \in Ranks : \A i \in 1 .. Len(Bound(r).checkpoints) :
        IsPrefix(Bound(r).checkpoints[i], run[q].trees)

Given ==
    /\ options \in [Ranks -> Options] /\ rows \in [Ranks -> 0 .. 1]
    /\ SameOptions => \A r, q \in Ranks : options[r] = options[q]

Shaped == DOMAIN run = Ranks /\ DOMAIN offer = Ranks /\ DOMAIN answer = Ranks

IInv ==
    /\ Given /\ Shaped
    /\ \A r \in Ranks : LocalInv(run[r], options[r], offer[r], answer[r])
    /\ Twins /\ WorldWide

\* The runs whose failures are one: one set of options, nobody dies, and a
\* callback neither raises nor resets a parameter.
Calm == SameOptions /\ ~MayCrash /\ Verdicts \subseteq {"continue", "stop", "abort"}

\* Then all ranks are bound for one state, and no failure is a rank's own.
Own == {"splits", "callback_raised", "parameter_reset", "collective_failed"}

InStep ==
    /\ \A r \in Ranks : /\ ~Bound(r).reset /\ Bound(r).pc # "crashed"
                        /\ Bound(r).error \notin Own
                        /\ answer[r] # Failed
    /\ \A r, q \in Ranks : SameRun(Bound(r), Bound(q))

-----------------------------------------------------------------------------
(* Numbers.                                                                *)

\* A set of natural numbers has a least one.
LEMMA LeastNatural ==
    ASSUME NEW S \in SUBSET Nat, S # {}
    PROVE  \E m \in S : \A n \in S : m <= n
<1> DEFINE R == {p \in Nat \X Nat : p[1] < p[2]}
<1>2. IsWellFoundedOn(R, Nat)  BY NatLessThanWellFounded DEF OpToRel
<1> HIDE DEF R
<1>3. PICK m \in S : \A n \in S : ~(<<n, m>> \in R)
  BY <1>2, WFMin
<1>4. \A n \in S : ~(n < m)
  BY <1>3 DEF R
<1> QED  BY <1>4

\* There are N ranks, and at least two.
LEMMA RanksAreFinite == IsFiniteSet(Ranks) /\ Cardinality(Ranks) = N /\ N \in Nat /\ N >= 2
BY WorldAssumption, FS_Interval DEF Ranks

\* What every rank adds at most one to is at most the size of the world.
LEMMA TotalOfUnits ==
    ASSUME NEW v \in [Ranks -> 0 .. 1]
    PROVE  Total(v) \in Sums
<1> DEFINE units == UNION {{r} \X (1 .. v[r]) : r \in Ranks}
<1>1. units \subseteq Ranks \X {1}
  OBVIOUS
<1>2. IsFiniteSet({1}) /\ Cardinality({1}) = 1  BY FS_Singleton
<1>3. IsFiniteSet(Ranks \X {1}) /\ Cardinality(Ranks \X {1}) = N * 1
  BY <1>2, RanksAreFinite, FS_Product
<1>4. IsFiniteSet(units) /\ Cardinality(units) <= Cardinality(Ranks \X {1})
  BY <1>1, <1>3, FS_Subset
<1>5. Cardinality(units) \in Nat  BY <1>4, FS_CardinalityType
<1> QED  BY <1>3, <1>4, <1>5, RanksAreFinite DEF Total, Sums

\* The leaf to split is a leaf.
LEMMA BestIsALeaf ==
    ASSUME NEW f \in Seq(Int), Len(f) > 0, \A i \in 1 .. Len(f) : f[i] <= N
    PROVE  Best(f) \in 1 .. Len(f)
<1>0. DOMAIN f = 1 .. Len(f) /\ Len(f) \in Nat /\ \A i \in 1 .. Len(f) : f[i] \in Int
  OBVIOUS
<1> DEFINE gaps == {N - f[i] : i \in 1 .. Len(f)}
<1>1. gaps \subseteq Nat /\ gaps # {}
  BY <1>0, RanksAreFinite
<1>2. PICK g \in gaps : \A h \in gaps : g <= h
  BY <1>1, LeastNatural
<1> DEFINE bests == {i \in 1 .. Len(f) : N - f[i] = g}
<1>3. bests \subseteq Nat /\ bests # {}
  BY <1>0, <1>2
<1>4. PICK b \in bests : \A i \in bests : b <= i
  BY <1>3, LeastNatural
<1>5. \A j \in 1 .. Len(f) : f[j] < f[b] \/ (f[j] = f[b] /\ b <= j)
  <2> TAKE j \in 1 .. Len(f)
  <2>1. N - f[b] <= N - f[j] /\ N - f[b] = g  BY <1>2, <1>4
  <2>2. f[j] \in Int /\ f[b] \in Int /\ N \in Int  BY <1>0, <1>4, RanksAreFinite
  <2>3. f[j] = f[b] => j \in bests  BY <2>1
  <2> QED  BY <2>1, <2>2, <2>3, <1>4
<1> QED  BY <1>0, <1>4, <1>5 DEF Best

-----------------------------------------------------------------------------
(* What a rank does with a reduction.                                      *)

\* Where a grown tree goes: a metric, a checkpoint or the AFTER verdict.
After(k, o) == IF o.checkpoint_every > 0 /\ k % o.checkpoint_every = 0
               THEN "checkpoint" ELSE "after"

MetricDue(k, o) == o.early_stopping_rounds > 0 \/ (o.metric_every > 0 /\ k % o.metric_every = 0)

SameReport(u, w) ==
    /\ u.round = w.round /\ u.best = w.best /\ u.stop_now = w.stop_now
    /\ u.reset = w.reset /\ u.metrics = w.metrics
    /\ u.stopped_early = w.stopped_early
    /\ u.stopped_by_callback = w.stopped_by_callback
    /\ u.checkpoints = w.checkpoints /\ u.error = w.error

SameTree(u, w) == u.tree = w.tree /\ u.frontier = w.frontier /\ u.trees = w.trees

\* The next histogram, the converged ensemble, or one more tree.
Grew(u, o, w) ==
    /\ SameReport(u, w) /\ w.splits = u.splits
    /\ \/ /\ w.pc = "histogram" /\ SameTree(u, w)
          /\ Len(u.frontier) < NumLeaves /\ u.frontier[Best(u.frontier)] >= SplitAt
       \/ /\ ~(Len(u.frontier) < NumLeaves /\ u.frontier[Best(u.frontier)] >= SplitAt)
          /\ \/ w.pc = "returned" /\ SameTree(u, w) /\ Converged(u.tree)
             \/ /\ ~Converged(u.tree)
                /\ w.trees = Append(u.trees, u.tree)
                /\ w.tree = <<>> /\ w.frontier = <<>>
                /\ w.pc = IF MetricDue(Len(w.trees), o) THEN "metric"
                          ELSE After(Len(w.trees), o)

\* A step sets a label, and the other locals stay.
LEMMA AtIs ==
    ASSUME NEW u \in RunRecord, NEW l \in Labels
    PROVE  /\ At(u, l) \in RunRecord
           /\ At(u, l).pc = l /\ At(u, l).splits = u.splits
           /\ SameReport(u, At(u, l)) /\ SameTree(u, At(u, l))
<1>1. At(u, l) = [u EXCEPT !.pc = l]  BY DEF At
<1>2. At(u, l) \in RunRecord  BY <1>1 DEF RunRecord
<1> QED  BY <1>1, <1>2 DEF RunRecord, SameReport, SameTree

\* The reasons a rank raises for, as members of Errors.
LEMMA ErrorNames ==
    /\ "disagree" \in Errors /\ "status" \in Errors /\ "no_rows" \in Errors
    /\ "splits" \in Errors /\ "callback_failed" \in Errors /\ "callback_raised" \in Errors
    /\ "parameter_reset" \in Errors /\ "collective_failed" \in Errors /\ "none" \in Errors
BY DEF Errors

\* The places of the driver, and the two that may follow a metric.
LEMMA LabelNames ==
    /\ {"config", "targets", "counts", "rows", "base", "before", "histogram", "split",
        "metric", "checkpoint", "after", "returned", "raised", "crashed"} = Labels
    /\ \A k \in Nat, o \in OptionRecord : After(k, o) \in {"checkpoint", "after"}
BY DEF Labels, Looping, Ended, After

\* The tree that is grown joins the ensemble.
WithTree(u) == [u EXCEPT !.trees = Append(@, u.tree), !.tree = <<>>, !.frontier = <<>>]

\* Keeping a finished tree appends it and touches no part of the report.
LEMMA TreeIsKept ==
    ASSUME NEW u \in RunRecord
    PROVE  /\ WithTree(u) \in RunRecord /\ SameReport(u, WithTree(u))
           /\ WithTree(u).splits = u.splits
           /\ WithTree(u).trees = Append(u.trees, u.tree)
           /\ WithTree(u).tree = <<>> /\ WithTree(u).frontier = <<>>
<1>1. u.tree \in Trees /\ u.trees \in Seq(Trees)  BY DEF RunRecord
<1>2. Append(u.trees, u.tree) \in Seq(Trees)  BY <1>1
<1>3. <<>> \in Trees /\ <<>> \in Seq(Int)  BY DEF Trees
<1> DEFINE a == [u EXCEPT !.trees = Append(u.trees, u.tree)]
           b == [a EXCEPT !.tree = <<>>]
           c == [b EXCEPT !.frontier = <<>>]
<1>4. a \in RunRecord /\ SameReport(u, a) /\ a.splits = u.splits
      /\ a.trees = Append(u.trees, u.tree)
  BY <1>2 DEF RunRecord, SameReport
<1> HIDE DEF a
<1>5. b \in RunRecord /\ SameReport(a, b) /\ b.splits = a.splits /\ b.trees = a.trees
      /\ b.tree = <<>>
  BY <1>3, <1>4 DEF RunRecord, SameReport
<1> HIDE DEF b
<1>6. c \in RunRecord /\ SameReport(b, c) /\ c.splits = b.splits /\ c.trees = b.trees
      /\ c.tree = b.tree /\ c.frontier = <<>>
  BY <1>3, <1>5 DEF RunRecord, SameReport
<1>7. c = WithTree(u)
  BY DEF a, b, WithTree
<1> HIDE DEF c
<1> QED  BY <1>4, <1>5, <1>6, <1>7 DEF SameReport

\* GrowOn either asks for the next histogram or keeps the tree it has finished.
LEMMA GrowOnIs ==
    ASSUME NEW u \in RunRecord, NEW o \in OptionRecord
    PROVE  GrowOn(u, o) \in RunRecord /\ Grew(u, o, GrowOn(u, o))
<1> SUFFICES ASSUME NEW w, w = GrowOn(u, o)
             PROVE  w \in RunRecord /\ Grew(u, o, w)
  OBVIOUS
<1> DEFINE more == Len(u.frontier) < NumLeaves /\ u.frontier[Best(u.frontier)] >= SplitAt
<1>1. CASE more
  <2>1. w = At(u, "histogram")  BY <1>1 DEF GrowOn
  <2> QED  BY <1>1, <2>1, AtIs, LabelNames DEF Grew
<1>2. CASE ~more /\ Converged(u.tree)
  <2>1. w = At(u, "returned")
    BY <1>2 DEF GrowOn, TreeGrown, Returned
  <2> QED  BY <1>2, <2>1, AtIs, LabelNames DEF Grew
<1>3. CASE ~more /\ ~Converged(u.tree)
  <2>1. w = ToMetric(WithTree(u), o)
    BY <1>3 DEF GrowOn, TreeGrown, WithTree
  <2>2. PICK full \in RunRecord :
        /\ w = ToMetric(full, o)
        /\ SameReport(u, full) /\ full.splits = u.splits
        /\ full.trees = Append(u.trees, u.tree) /\ full.tree = <<>> /\ full.frontier = <<>>
    BY <2>1, TreeIsKept
  <2> DEFINE l == IF MetricDue(Len(full.trees), o) THEN "metric" ELSE After(Len(full.trees), o)
  <2>3. w = At(full, l)
    BY <2>2 DEF ToMetric, ToCheckpoint, Due, MetricDue, After
  <2>4. l \in Labels  BY LabelNames DEF After
  <2> HIDE DEF l
  <2>5. w \in RunRecord /\ w.pc = l /\ w.splits = full.splits /\ SameReport(full, w)
        /\ SameTree(full, w)
    BY <2>2, <2>3, <2>4, AtIs
  <2>6. w.pc = IF MetricDue(Len(w.trees), o) THEN "metric" ELSE After(Len(w.trees), o)
    BY <2>5 DEF SameTree, l
  <2>7. SameReport(u, w) /\ w.splits = u.splits /\ w.trees = Append(u.trees, u.tree)
        /\ w.tree = <<>> /\ w.frontier = <<>>
    BY <2>2, <2>5 DEF SameReport, SameTree
  <2> QED  BY <1>3, <2>5, <2>6, <2>7 DEF Grew
<1> QED  BY <1>1, <1>2, <1>3

\* The other moves, field by field.
SameReportBut(u, w, field) ==
    /\ field = "round" \/ u.round = w.round
    /\ field = "score" \/ (/\ u.best = w.best /\ u.metrics = w.metrics
                           /\ u.stop_now = w.stop_now
                           /\ u.stopped_early = w.stopped_early)
    /\ field = "round" \/ u.reset = w.reset
    /\ field = "stop" \/ u.stopped_by_callback = w.stopped_by_callback
    /\ field = "checkpoints" \/ u.checkpoints = w.checkpoints
    /\ field = "error" \/ u.error = w.error

Moved(u, w, label) ==
    w.pc = label /\ w.splits = u.splits /\ SameTree(u, w) /\ SameReport(u, w)

MovedBut(u, w, label, field) ==
    w.pc = label /\ w.splits = u.splits /\ SameTree(u, w) /\ SameReportBut(u, w, field)

FailedRun(u, w, error) == MovedBut(u, w, "raised", "error") /\ w.error = error
StoppedRun(u, w) == MovedBut(u, w, "returned", "stop") /\ w.stopped_by_callback

ScoredRun(u, o, loss, w) ==
    LET best == IF u.best[2] = 0 \/ loss < u.best[1] THEN <<loss, Len(u.trees)>> ELSE u.best
    IN  /\ MovedBut(u, w, After(Len(u.trees), o), "score")
        /\ w.best = best
        /\ w.stopped_early = Stale(u, best, o) /\ w.stop_now = w.stopped_early
        /\ w.metrics = Append(u.metrics, <<Len(u.trees), loss>>)

\* The tree and its frontier take the histogram in.
Widened(u, h, g) ==
    /\ g \in RunRecord /\ g.pc = u.pc /\ g.splits = u.splits /\ SameReport(u, g)
    /\ g.trees = u.trees /\ g.tree = Append(u.tree, h) /\ g.frontier = Expand(u.frontier, h)

HistogramRun(u, o, h, w) ==
    \E g \in RunRecord :
        /\ Widened(u, h, g)
        /\ IF o.verify_splits
           THEN /\ w.pc = "split" /\ SameTree(g, w) /\ SameReport(g, w)
                /\ w.splits = IF Len(g.tree) = 1 THEN 1 ELSE 2
           ELSE Grew(g, o, w)

SplitRun(u, o, w) ==
    \E g \in RunRecord :
        /\ g.pc = u.pc /\ g.splits = u.splits - 1 /\ SameTree(u, g) /\ SameReport(u, g)
        /\ IF g.splits > 0 THEN Moved(g, w, "split") ELSE Grew(g, o, w)

RoundRun(u, w) ==
    /\ ~w.reset
    /\ IF u.round + 1 < Rounds
       THEN MovedBut(u, w, "before", "round") /\ w.round = u.round + 1
       ELSE MovedBut(u, w, "returned", "round") /\ w.round = u.round

CheckpointedRun(u, w) ==
    MovedBut(u, w, "after", "checkpoints") /\ w.checkpoints = Append(u.checkpoints, u.trees)

Resumed(u, o, v, w) ==
    /\ u.pc = "config" => IF AllEqual(v) THEN Moved(u, w, "targets")
                          ELSE FailedRun(u, w, "disagree")
    /\ u.pc = "targets" => IF AllFine(v, 0) THEN Moved(u, w, "counts")
                           ELSE FailedRun(u, w, "status")
    /\ u.pc = "counts" => Moved(u, w, "rows")
    /\ u.pc = "rows" => IF AllFine(v, 0) THEN Moved(u, w, "base")
                        ELSE FailedRun(u, w, "status")
    /\ u.pc = "base" => IF v[2] <= 0 THEN FailedRun(u, w, "no_rows")
                        ELSE Moved(u, w, IF Rounds = 0 THEN "returned" ELSE "before")
    /\ u.pc = "before" => IF v[1] = 2 THEN FailedRun(u, w, "callback_failed")
                          ELSE IF v[1] = 1 THEN StoppedRun(u, w)
                          ELSE IF v[1] = 0 /\ u.reset THEN FailedRun(u, w, "parameter_reset")
                          ELSE Moved(u, w, "histogram")
    /\ u.pc = "histogram" => HistogramRun(u, o, v[1], w)
    /\ u.pc = "split" => IF AllEqual(v) THEN SplitRun(u, o, w)
                         ELSE FailedRun(u, w, "splits")
    /\ u.pc = "metric" => ScoredRun(u, o, v[1], w)
    /\ u.pc = "checkpoint" => CheckpointedRun(u, w)
    /\ u.pc = "after" => IF v[1] = 2 THEN FailedRun(u, w, "callback_failed")
                         ELSE IF v[1] = 1 THEN StoppedRun(u, w)
                         ELSE IF v[1] = 0 /\ u.stop_now THEN Moved(u, w, "returned")
                         ELSE RoundRun(u, w)

\* A split replaces one leaf of the frontier by its two children, none larger than the world.
LEMMA ExpandIs ==
    ASSUME NEW f \in Seq(Int), NEW h \in Sums, \A i \in 1 .. Len(f) : f[i] <= N
    PROVE  /\ Expand(f, h) \in Seq(Int) /\ Len(Expand(f, h)) = Len(f) + 1
           /\ \A i \in 1 .. Len(f) + 1 : Expand(f, h)[i] <= N
<1>0. h \in Int /\ h <= N /\ 0 <= h /\ N \in Nat  BY RanksAreFinite DEF Sums
<1>1. CASE f = <<>>
  BY <1>0, <1>1 DEF Expand
<1>2. CASE f # <<>>
  <2>1. Len(f) \in Nat /\ Len(f) > 0  BY <1>2
  <2>2. PICK b \in 1 .. Len(f) : b = Best(f)  BY <2>1, BestIsALeaf
  <2>3. Expand(f, h) = Append([f EXCEPT ![b] = h], f[b] - h)  BY <1>2, <2>2 DEF Expand
  <2>4. f[b] \in Int /\ f[b] - h \in Int /\ f[b] - h <= N  BY <1>0
  <2>5. PICK g : g = [f EXCEPT ![b] = h]  OBVIOUS
  <2>50. g \in Seq(Int) /\ Len(g) = Len(f)
    <3>1. f \in Seq(Int) /\ b \in 1 .. Len(f) /\ h \in Int  BY <1>0
    <3>2. [f EXCEPT ![b] = h] \in Seq(Int) /\ Len([f EXCEPT ![b] = h]) = Len(f)
      BY <3>1, ExceptSeq
    <3> QED  BY <2>5, <3>2
  <2>6. \A i \in 1 .. Len(f) : g[i] <= N  BY <1>0, <2>5
  <2>7. Expand(f, h) = Append(g, f[b] - h)  BY <2>3, <2>5
  <2> QED  BY <2>1, <2>4, <2>50, <2>6, <2>7, AppendProperties
<1> QED  BY <1>1, <1>2

\* Raising changes where a rank is and why, and nothing it has grown.
LEMMA FailsIs ==
    ASSUME NEW u \in RunRecord, NEW e \in Errors
    PROVE  Fails(u, e) \in RunRecord /\ FailedRun(u, Fails(u, e), e)
<1> DEFINE a == [u EXCEPT !.pc = "raised"]
           b == [a EXCEPT !.error = e]
<1>1. a \in RunRecord /\ a.pc = "raised" /\ SameReport(u, a) /\ SameTree(u, a)
      /\ a.splits = u.splits
  BY DEF RunRecord, Labels, Ended, SameReport, SameTree
<1> HIDE DEF a
<1>2. b \in RunRecord /\ b.pc = "raised" /\ b.error = e /\ SameReportBut(a, b, "error")
      /\ SameTree(a, b) /\ b.splits = a.splits
  BY <1>1 DEF RunRecord, SameReportBut, SameTree
<1>3. b = Fails(u, e)  BY DEF Fails, a
<1> HIDE DEF b
<1> QED  BY <1>1, <1>2, <1>3 DEF FailedRun, MovedBut, SameReport, SameReportBut, SameTree

\* Returning changes only where a rank is.
LEMMA StoppedIs ==
    ASSUME NEW u \in RunRecord
    PROVE  Stopped(u) \in RunRecord /\ StoppedRun(u, Stopped(u))
<1> DEFINE a == [u EXCEPT !.stopped_by_callback = TRUE]
<1>1. a \in RunRecord /\ a.stopped_by_callback /\ SameReportBut(u, a, "stop") /\ SameTree(u, a)
      /\ a.splits = u.splits
  BY DEF RunRecord, SameReportBut, SameTree
<1>2. Stopped(u) = At(a, "returned")  BY DEF Stopped, Returned
<1> HIDE DEF a
<1>3. At(a, "returned") \in RunRecord /\ Moved(a, At(a, "returned"), "returned")
  BY <1>1, AtIs, LabelNames DEF Moved
<1> QED
  BY <1>1, <1>2, <1>3 DEF StoppedRun, Moved, MovedBut, SameReport, SameReportBut, SameTree

\* A checkpoint records the trees of the moment.
LEMMA CheckpointedIs ==
    ASSUME NEW u \in RunRecord
    PROVE  Checkpointed(u) \in RunRecord /\ CheckpointedRun(u, Checkpointed(u))
<1> DEFINE a == At(u, "after")
           b == [a EXCEPT !.checkpoints = Append(a.checkpoints, u.trees)]
<1>1. a \in RunRecord /\ Moved(u, a, "after")  BY AtIs, LabelNames DEF Moved
<1>2. b = Checkpointed(u)  BY DEF Checkpointed
<1> HIDE DEF a
<1>3. a.checkpoints \in Seq(Seq(Trees)) /\ u.trees \in Seq(Trees) /\ a.checkpoints = u.checkpoints
  BY <1>1 DEF RunRecord, Moved, SameReport
<1>4. Append(a.checkpoints, u.trees) \in Seq(Seq(Trees))  BY <1>3
<1>5. b \in RunRecord /\ b.pc = a.pc /\ SameReportBut(a, b, "checkpoints") /\ SameTree(a, b)
      /\ b.splits = a.splits /\ b.checkpoints = Append(a.checkpoints, u.trees)
  BY <1>1, <1>4 DEF RunRecord, SameReportBut, SameTree
<1> HIDE DEF b
<1> QED
  BY <1>1, <1>2, <1>3, <1>5
  DEF CheckpointedRun, Moved, MovedBut, SameReport, SameReportBut, SameTree

\* Reading a reduced histogram expands the frontier and goes on growing or to the agreed split.
LEMMA HistogramIs ==
    ASSUME NEW u \in RunRecord, Growing(u), NEW o \in OptionRecord, NEW h \in Sums
    PROVE  /\ HistogramReduced(u, o, h) \in RunRecord
           /\ HistogramRun(u, o, h, HistogramReduced(u, o, h))
<1> SUFFICES ASSUME NEW w, w = HistogramReduced(u, o, h)
             PROVE  w \in RunRecord /\ HistogramRun(u, o, h, w)
  OBVIOUS
<1>1. u.tree \in Trees /\ u.frontier \in Seq(Int)  BY DEF RunRecord
<1>2. Append(u.tree, h) \in Trees  BY <1>1 DEF Trees
<1>3. Expand(u.frontier, h) \in Seq(Int)  BY <1>1, ExpandIs DEF Growing
<1> DEFINE a == [u EXCEPT !.tree = Append(u.tree, h)]
           b == [a EXCEPT !.frontier = Expand(u.frontier, h)]
<1>4. a \in RunRecord /\ a.pc = u.pc /\ a.splits = u.splits /\ SameReport(u, a)
      /\ a.trees = u.trees /\ a.tree = Append(u.tree, h) /\ a.frontier = u.frontier
  BY <1>2 DEF RunRecord, SameReport
<1> HIDE DEF a
<1>5. b \in RunRecord /\ b.pc = a.pc /\ b.splits = a.splits /\ SameReport(a, b)
      /\ b.trees = a.trees /\ b.tree = a.tree /\ b.frontier = Expand(u.frontier, h)
  BY <1>3, <1>4 DEF RunRecord, SameReport
<1>6. Widened(u, h, b)  BY <1>4, <1>5 DEF Widened, SameReport
<1>7. b = [u EXCEPT !.tree = Append(@, h), !.frontier = Expand(@, h)]
  BY <1>4 DEF a
<1> HIDE DEF b
<1>8. CASE o.verify_splits
  <2> DEFINE l == IF Len(b.tree) = 1 THEN 1 ELSE 2
  <2>1. w = [At(b, "split") EXCEPT !.splits = l]
    BY <1>7, <1>8 DEF HistogramReduced
  <2>2. PICK c \in RunRecord : c = At(b, "split") /\ Moved(b, c, "split")
    BY <1>5, AtIs, LabelNames DEF Moved
  <2>3. l \in 0 .. 2  OBVIOUS
  <2>4. w = [c EXCEPT !.splits = l]  BY <2>1, <2>2
  <2> HIDE DEF l
  <2>5. w \in RunRecord /\ w.pc = c.pc /\ w.splits = l /\ SameReport(c, w) /\ SameTree(c, w)
    BY <2>3, <2>4 DEF RunRecord, SameReport, SameTree
  <2>6. w.pc = "split" /\ SameTree(b, w) /\ SameReport(b, w)
    BY <2>2, <2>5 DEF Moved, SameReport, SameTree
  <2>7. w.splits = IF Len(b.tree) = 1 THEN 1 ELSE 2  BY <2>5 DEF l
  <2> QED  BY <1>5, <1>6, <1>8, <2>5, <2>6, <2>7 DEF HistogramRun
<1>9. CASE ~o.verify_splits
  <2>1. w = GrowOn(b, o)  BY <1>7, <1>9 DEF HistogramReduced
  <2> QED  BY <1>5, <1>6, <1>9, <2>1, GrowOnIs DEF HistogramRun
<1> QED  BY <1>8, <1>9 DEF OptionRecord

\* Reading an agreed split goes on growing.
LEMMA SplitIs ==
    ASSUME NEW u \in RunRecord, u.pc = "split", u.splits > 0, NEW o \in OptionRecord
    PROVE  SplitAgreed(u, o) \in RunRecord /\ SplitRun(u, o, SplitAgreed(u, o))
<1> SUFFICES ASSUME NEW w, w = SplitAgreed(u, o)
             PROVE  w \in RunRecord /\ SplitRun(u, o, w)
  OBVIOUS
<1> DEFINE a == [u EXCEPT !.splits = @ - 1]
<1>1. u.splits - 1 \in 0 .. 2  BY DEF RunRecord
<1>2. a \in RunRecord /\ a.pc = u.pc /\ a.splits = u.splits - 1 /\ SameTree(u, a)
      /\ SameReport(u, a)
  BY <1>1 DEF RunRecord, SameReport, SameTree
<1>3. w = IF a.splits > 0 THEN a ELSE GrowOn(a, o)  BY DEF SplitAgreed
<1> HIDE DEF a
<1>4. CASE a.splits > 0
  BY <1>2, <1>3, <1>4 DEF SplitRun, Moved, SameReport, SameTree
<1>5. CASE ~(a.splits > 0)
  BY <1>2, <1>3, <1>5, GrowOnIs DEF SplitRun
<1> QED  BY <1>4, <1>5

\* Reading a loss scores the round, and stops the run exactly when it is stagnant.
LEMMA ScoredIs ==
    ASSUME NEW u \in RunRecord, NEW o \in OptionRecord, NEW loss \in Sums
    PROVE  Scored(u, o, loss) \in RunRecord /\ ScoredRun(u, o, loss, Scored(u, o, loss))
<1> SUFFICES ASSUME NEW w, w = Scored(u, o, loss)
             PROVE  w \in RunRecord /\ ScoredRun(u, o, loss, w)
  OBVIOUS
<1> DEFINE best == IF u.best[2] = 0 \/ loss < u.best[1] THEN <<loss, Len(u.trees)>> ELSE u.best
           stop == Stale(u, best, o)
           more == Append(u.metrics, <<Len(u.trees), loss>>)
           a == [u EXCEPT !.best = best]
           b == [a EXCEPT !.stop_now = stop]
           c == [b EXCEPT !.stopped_early = stop]
           d == [c EXCEPT !.metrics = more]
<1>1. Len(u.trees) \in Nat /\ loss \in Int  BY RanksAreFinite DEF RunRecord, Sums
<1>2. best \in Int \X Nat  BY <1>1 DEF RunRecord
<1>3. stop \in BOOLEAN  BY DEF Stale
<1>4. more \in Seq(Nat \X Int)
  <2>1. u.metrics \in Seq(Nat \X Int)  BY DEF RunRecord
  <2> QED  BY <1>1, <2>1
<1>5. w = ToCheckpoint([u EXCEPT !.best = best, !.stop_now = stop, !.stopped_early = stop,
                                 !.metrics = more], o)
  BY DEF Scored
<1>6. w = ToCheckpoint(d, o)  BY <1>5
<1> HIDE DEF best, stop, more
<1>7. a \in RunRecord /\ a.pc = u.pc /\ a.splits = u.splits /\ SameTree(u, a)
      /\ a.best = best /\ a.metrics = u.metrics /\ a.stopped_early = u.stopped_early
      /\ SameReportBut(u, a, "score")
  BY <1>2 DEF RunRecord, SameTree, SameReportBut
<1> HIDE DEF a
<1>8. b \in RunRecord /\ b.pc = a.pc /\ b.splits = a.splits /\ SameTree(a, b)
      /\ b.best = a.best /\ b.metrics = a.metrics /\ b.stop_now = stop
      /\ SameReportBut(a, b, "score")
  BY <1>3, <1>7 DEF RunRecord, SameTree, SameReportBut
<1> HIDE DEF b
<1>9. c \in RunRecord /\ c.pc = b.pc /\ c.splits = b.splits /\ SameTree(b, c)
      /\ c.best = b.best /\ c.metrics = b.metrics /\ c.stop_now = b.stop_now
      /\ c.stopped_early = stop /\ SameReportBut(b, c, "score")
  BY <1>3, <1>8 DEF RunRecord, SameTree, SameReportBut
<1> HIDE DEF c
<1>10. d \in RunRecord /\ d.pc = c.pc /\ d.splits = c.splits /\ SameTree(c, d)
       /\ d.best = c.best /\ d.metrics = more /\ d.stop_now = c.stop_now
       /\ d.stopped_early = c.stopped_early /\ SameReportBut(c, d, "score")
  BY <1>4, <1>9 DEF RunRecord, SameTree, SameReportBut
<1> HIDE DEF d
<1>11. w = At(d, After(Len(d.trees), o)) /\ After(Len(d.trees), o) \in Labels
  BY <1>6, LabelNames DEF ToCheckpoint, After
<1>12. w \in RunRecord /\ Moved(d, w, After(Len(d.trees), o))
  BY <1>10, <1>11, AtIs DEF Moved
<1>13. d.trees = u.trees /\ SameTree(u, d) /\ d.splits = u.splits /\ SameReportBut(u, d, "score")
       /\ d.best = best /\ d.metrics = more /\ d.stop_now = stop /\ d.stopped_early = stop
  BY <1>7, <1>8, <1>9, <1>10 DEF SameTree, SameReportBut
<1>14. MovedBut(u, w, After(Len(u.trees), o), "score") /\ w.best = best /\ w.metrics = more
       /\ w.stop_now = stop /\ w.stopped_early = stop
  BY <1>12, <1>13 DEF Moved, MovedBut, SameTree, SameReport, SameReportBut
<1> QED  BY <1>12, <1>14 DEF ScoredRun, best, more, stop

\* The next round starts with an empty tree, or the run returns after the last.
LEMMA RoundIs ==
    ASSUME NEW u \in RunRecord
    PROVE  /\ NextRound([u EXCEPT !.reset = FALSE]) \in RunRecord
           /\ RoundRun(u, NextRound([u EXCEPT !.reset = FALSE]))
<1> DEFINE a == [u EXCEPT !.reset = FALSE]
<1>1. a \in RunRecord /\ a.pc = u.pc /\ a.splits = u.splits /\ SameTree(u, a) /\ ~a.reset
      /\ a.round = u.round /\ SameReportBut(u, a, "round")
  BY DEF RunRecord, SameTree, SameReportBut
<1> HIDE DEF a
<1> SUFFICES ASSUME NEW w, w = NextRound(a)
             PROVE  w \in RunRecord /\ RoundRun(u, w)
  BY DEF a
<1>2. CASE u.round + 1 < Rounds
  <2>1. w = [At(a, "before") EXCEPT !.round = @ + 1]  BY <1>1, <1>2 DEF NextRound
  <2>2. PICK b \in RunRecord : b = At(a, "before") /\ Moved(a, b, "before")
    BY <1>1, AtIs, LabelNames DEF Moved
  <2>3. b.round + 1 \in Nat  BY DEF RunRecord
  <2>4. w = [b EXCEPT !.round = b.round + 1]  BY <2>1, <2>2
  <2>5. w \in RunRecord /\ w.pc = b.pc /\ w.splits = b.splits /\ SameTree(b, w)
        /\ w.round = b.round + 1 /\ w.reset = b.reset /\ SameReportBut(b, w, "round")
    BY <2>3, <2>4 DEF RunRecord, SameTree, SameReportBut
  <2> QED
    BY <1>1, <1>2, <2>2, <2>5
    DEF RoundRun, Moved, MovedBut, SameTree, SameReport, SameReportBut
<1>3. CASE ~(u.round + 1 < Rounds)
  <2>1. w = At(a, "returned")  BY <1>1, <1>3 DEF NextRound, Returned
  <2>2. w \in RunRecord /\ Moved(a, w, "returned")
    BY <1>1, <2>1, AtIs, LabelNames DEF Moved
  <2> QED
    BY <1>1, <1>3, <2>2
    DEF RoundRun, Moved, MovedBut, SameTree, SameReport, SameReportBut
<1> QED  BY <1>2, <1>3

\* Reading a reduction is one of the moves above.
LEMMA ResumeIs ==
    ASSUME NEW u \in RunRecord, Growing(u), u.pc \notin Ended, NEW o \in OptionRecord,
           NEW v, Readable(u, v)
    PROVE  ResumeOf(u, o, v) \in RunRecord /\ Resumed(u, o, v, ResumeOf(u, o, v))
<1> SUFFICES ASSUME NEW w, w = ResumeOf(u, o, v)
             PROVE  w \in RunRecord /\ Resumed(u, o, v, w)
  OBVIOUS
<1>1. ASSUME NEW l \in Labels, w = At(u, l)
      PROVE  w \in RunRecord /\ Moved(u, w, l)
  BY <1>1, AtIs DEF Moved
<1>2. ASSUME NEW e \in Errors, w = Fails(u, e)
      PROVE  w \in RunRecord /\ FailedRun(u, w, e)
  BY <1>2, FailsIs
<1>3. u.pc \in Labels /\ u.reset \in BOOLEAN /\ u.stop_now \in BOOLEAN  BY DEF RunRecord
<1>5. CASE u.pc = "config"
  <2>1. CASE AllEqual(v)
    <3>1. w = At(u, "targets")  BY <1>5, <2>1 DEF ResumeOf
    <3>2. w \in RunRecord /\ Moved(u, w, "targets")  BY <1>1, <3>1, LabelNames
    <3> QED  BY <1>5, <2>1, <3>2 DEF Resumed
  <2>2. CASE ~AllEqual(v)
    <3>1. w = Fails(u, "disagree")  BY <1>5, <2>2 DEF ResumeOf
    <3>2. w \in RunRecord /\ FailedRun(u, w, "disagree")  BY <1>2, <3>1, ErrorNames
    <3> QED  BY <1>5, <2>2, <3>2 DEF Resumed
  <2> QED  BY <2>1, <2>2
<1>6. CASE u.pc = "targets"
  <2>1. CASE AllFine(v, 0)
    <3>1. w = At(u, "counts")  BY <1>6, <2>1 DEF ResumeOf
    <3>2. w \in RunRecord /\ Moved(u, w, "counts")  BY <1>1, <3>1, LabelNames
    <3> QED  BY <1>6, <2>1, <3>2 DEF Resumed
  <2>2. CASE ~AllFine(v, 0)
    <3>1. w = Fails(u, "status")  BY <1>6, <2>2 DEF ResumeOf
    <3>2. w \in RunRecord /\ FailedRun(u, w, "status")  BY <1>2, <3>1, ErrorNames
    <3> QED  BY <1>6, <2>2, <3>2 DEF Resumed
  <2> QED  BY <2>1, <2>2
<1>7. CASE u.pc = "counts"
  <2>1. w = At(u, "rows")  BY <1>7 DEF ResumeOf
  <2>2. w \in RunRecord /\ Moved(u, w, "rows")  BY <1>1, <2>1, LabelNames
  <2> QED  BY <1>7, <2>2 DEF Resumed
<1>8. CASE u.pc = "rows"
  <2>1. CASE AllFine(v, 0)
    <3>1. w = At(u, "base")  BY <1>8, <2>1 DEF ResumeOf
    <3>2. w \in RunRecord /\ Moved(u, w, "base")  BY <1>1, <3>1, LabelNames
    <3> QED  BY <1>8, <2>1, <3>2 DEF Resumed
  <2>2. CASE ~AllFine(v, 0)
    <3>1. w = Fails(u, "status")  BY <1>8, <2>2 DEF ResumeOf
    <3>2. w \in RunRecord /\ FailedRun(u, w, "status")  BY <1>2, <3>1, ErrorNames
    <3> QED  BY <1>8, <2>2, <3>2 DEF Resumed
  <2> QED  BY <2>1, <2>2
<1>9. CASE u.pc = "base"
  <2>1. w = BaseReduced(u, v)  BY <1>9 DEF ResumeOf
  <2>2. CASE v[2] <= 0
    <3>1. w = Fails(u, "no_rows")  BY <2>1, <2>2 DEF BaseReduced
    <3>2. w \in RunRecord /\ FailedRun(u, w, "no_rows")  BY <1>2, <3>1, ErrorNames
    <3> QED  BY <1>9, <2>2, <3>2 DEF Resumed
  <2>3. CASE ~(v[2] <= 0)
    <3> DEFINE l == IF Rounds = 0 THEN "returned" ELSE "before"
    <3>1. w = At(u, l)  BY <2>1, <2>3 DEF BaseReduced, Returned
    <3>2. l \in Labels  BY LabelNames
    <3> HIDE DEF l
    <3>3. w \in RunRecord /\ Moved(u, w, l)  BY <1>1, <3>1, <3>2
    <3>4. Moved(u, w, IF Rounds = 0 THEN "returned" ELSE "before")  BY <3>3 DEF l
    <3> QED  BY <1>9, <2>3, <3>3, <3>4 DEF Resumed
  <2> QED  BY <2>2, <2>3
<1>10. CASE u.pc = "before"
  <2>1. w = BeforeAgreed(u, v[1])  BY <1>10 DEF ResumeOf
  <2>2. CASE v[1] = 2
    <3>1. w = Fails(u, "callback_failed")  BY <1>3, <2>1, <2>2 DEF BeforeAgreed
    <3>2. w \in RunRecord /\ FailedRun(u, w, "callback_failed")  BY <1>2, <3>1, ErrorNames
    <3> QED  BY <1>10, <2>2, <3>2 DEF Resumed
  <2>3. CASE v[1] = 1
    <3>1. w = Stopped(u)  BY <1>3, <2>1, <2>3 DEF BeforeAgreed
    <3>2. w \in RunRecord /\ StoppedRun(u, w)  BY <3>1, StoppedIs
    <3> QED  BY <1>10, <2>3, <3>2 DEF Resumed
  <2>4. CASE v[1] = 0 /\ u.reset
    <3>1. w = Fails(u, "parameter_reset")  BY <1>3, <2>1, <2>4 DEF BeforeAgreed
    <3>2. w \in RunRecord /\ FailedRun(u, w, "parameter_reset")  BY <1>2, <3>1, ErrorNames
    <3> QED  BY <1>10, <2>4, <3>2 DEF Resumed
  <2>5. CASE v[1] # 2 /\ v[1] # 1 /\ ~(v[1] = 0 /\ u.reset)
    <3>1. w = At(u, "histogram")  BY <1>3, <2>1, <2>5 DEF BeforeAgreed
    <3>2. w \in RunRecord /\ Moved(u, w, "histogram")  BY <1>1, <3>1, LabelNames
    <3> QED  BY <1>10, <2>5, <3>2 DEF Resumed
  <2> QED  BY <2>2, <2>3, <2>4, <2>5
<1>11. CASE u.pc = "histogram"
  BY <1>11, HistogramIs DEF ResumeOf, Resumed, Readable
<1>12. CASE u.pc = "split"
  <2>1. CASE AllEqual(v)
    <3>1. w = SplitAgreed(u, o)  BY <1>12, <2>1 DEF ResumeOf
    <3>2. w \in RunRecord /\ SplitRun(u, o, w)  BY <1>12, <3>1, SplitIs DEF Growing
    <3> QED  BY <1>12, <2>1, <3>2 DEF Resumed
  <2>2. CASE ~AllEqual(v)
    <3>1. w = Fails(u, "splits")  BY <1>12, <2>2 DEF ResumeOf
    <3>2. w \in RunRecord /\ FailedRun(u, w, "splits")  BY <1>2, <3>1, ErrorNames
    <3> QED  BY <1>12, <2>2, <3>2 DEF Resumed
  <2> QED  BY <2>1, <2>2
<1>13. CASE u.pc = "metric"
  BY <1>13, ScoredIs DEF ResumeOf, Resumed, Readable
<1>14. CASE u.pc = "checkpoint"
  BY <1>14, CheckpointedIs DEF ResumeOf, Resumed
<1>15. CASE u.pc = "after"
  <2>1. w = AfterAgreed(u, v[1])  BY <1>15 DEF ResumeOf
  <2>2. CASE v[1] = 2
    <3>1. w = Fails(u, "callback_failed")  BY <1>3, <2>1, <2>2 DEF AfterAgreed
    <3>2. w \in RunRecord /\ FailedRun(u, w, "callback_failed")  BY <1>2, <3>1, ErrorNames
    <3> QED  BY <1>15, <2>2, <3>2 DEF Resumed
  <2>3. CASE v[1] = 1
    <3>1. w = Stopped(u)  BY <1>3, <2>1, <2>3 DEF AfterAgreed
    <3>2. w \in RunRecord /\ StoppedRun(u, w)  BY <3>1, StoppedIs
    <3> QED  BY <1>15, <2>3, <3>2 DEF Resumed
  <2>4. CASE v[1] = 0 /\ u.stop_now
    <3>1. w = At(u, "returned")  BY <1>3, <2>1, <2>4 DEF AfterAgreed, Returned
    <3>2. w \in RunRecord /\ Moved(u, w, "returned")  BY <1>1, <3>1, LabelNames
    <3> QED  BY <1>15, <2>4, <3>2 DEF Resumed
  <2>5. CASE v[1] # 2 /\ v[1] # 1 /\ ~(v[1] = 0 /\ u.stop_now)
    <3>1. w = NextRound([u EXCEPT !.reset = FALSE])  BY <1>3, <2>1, <2>5 DEF AfterAgreed
    <3>2. w \in RunRecord /\ RoundRun(u, w)  BY <3>1, RoundIs
    <3> QED  BY <1>15, <2>5, <3>2 DEF Resumed
  <2> QED  BY <2>2, <2>3, <2>4, <2>5
<1> QED
  BY <1>3, <1>5, <1>6, <1>7, <1>8, <1>9, <1>10, <1>11, <1>12, <1>13, <1>14, <1>15
  DEF Labels, Looping

-----------------------------------------------------------------------------
(* What every move keeps of a rank's locals.                               *)

Small(f) == \A i \in 1 .. Len(f) : f[i] <= N

\* A move leaves small frontiers, and a split to agree where it is agreed.
LEMMA GrewIsSmall ==
    ASSUME NEW u \in RunRecord, NEW o, NEW w, Grew(u, o, w), Small(u.frontier)
    PROVE  Small(w.frontier) /\ w.pc # "split"
BY DEF Grew, SameTree, Small, MetricDue, After

\* A resumed rank still has a well formed tree.
LEMMA GrowthKept ==
    ASSUME NEW u \in RunRecord, Growing(u), u.pc \notin Ended, NEW o, NEW v, Readable(u, v),
           NEW w \in RunRecord, Resumed(u, o, v, w)
    PROVE  Growing(w)
<1>0. u.pc \in Labels /\ Small(u.frontier)  BY DEF RunRecord, Growing, Small
<1>1. CASE u.pc \notin {"histogram", "split"}
  <2>1. SameTree(u, w) /\ w.pc # "split"
    BY <1>0, <1>1 DEF Resumed, Moved, MovedBut, FailedRun, StoppedRun, ScoredRun, RoundRun,
                      CheckpointedRun, Labels, Looping, Ended, After
  <2> QED  BY <1>0, <2>1 DEF Growing, SameTree, Small
<1>2. CASE u.pc = "histogram"
  <2>1. PICK g \in RunRecord :
          /\ Widened(u, v[1], g)
          /\ IF o.verify_splits
             THEN /\ w.pc = "split" /\ SameTree(g, w) /\ SameReport(g, w)
                  /\ w.splits = IF Len(g.tree) = 1 THEN 1 ELSE 2
             ELSE Grew(g, o, w)
    BY <1>2 DEF Resumed, HistogramRun
  <2>2. v[1] \in Sums /\ u.frontier \in Seq(Int) /\ u.tree \in Trees
    BY <1>2 DEF Readable, RunRecord
  <2>3. Small(g.frontier) /\ Len(g.frontier) > 0
    BY <1>0, <2>1, <2>2, ExpandIs DEF Widened, Small
  <2>4. Len(g.tree) > 0  BY <2>1, <2>2 DEF Widened, Trees
  <2>5. CASE o.verify_splits
    BY <2>1, <2>3, <2>4, <2>5 DEF SameTree, Growing, Small
  <2>6. CASE ~o.verify_splits
    BY <2>1, <2>3, <2>6, GrewIsSmall DEF Growing, Small
  <2> QED  BY <2>5, <2>6
<1>3. CASE u.pc = "split"
  <2>1. CASE AllEqual(v)
    <3>1. PICK g \in RunRecord :
            /\ g.pc = u.pc /\ g.splits = u.splits - 1 /\ SameTree(u, g) /\ SameReport(u, g)
            /\ IF g.splits > 0 THEN Moved(g, w, "split") ELSE Grew(g, o, w)
      BY <1>3, <2>1 DEF Resumed, SplitRun
    <3>2. Small(g.frontier) /\ Len(g.frontier) > 0 /\ Len(g.tree) > 0
      BY <1>0, <1>3, <3>1 DEF SameTree, Growing, Small
    <3>3. CASE g.splits > 0
      BY <3>1, <3>2, <3>3 DEF Moved, SameTree, Growing, Small
    <3>4. CASE ~(g.splits > 0)
      BY <3>1, <3>2, <3>4, GrewIsSmall DEF Growing, Small
    <3> QED  BY <3>3, <3>4
  <2>2. CASE ~AllEqual(v)
    BY <1>0, <1>3, <2>2 DEF Resumed, FailedRun, MovedBut, SameTree, Growing, Small
  <2> QED  BY <2>1, <2>2
<1> QED  BY <1>1, <1>2, <1>3

\* While a tree grows the report stands, and the ensemble gains it at the end.
Extended(u, o, w) ==
    /\ SameReport(u, w)
    /\ \/ w.pc \in {"histogram", "split", "returned"} /\ w.trees = u.trees
       \/ \E t \in Trees :
            /\ w.trees = Append(u.trees, t)
            /\ w.pc = IF MetricDue(Len(w.trees), o) THEN "metric" ELSE After(Len(w.trees), o)

\* The growing of a tree is one of those.
LEMMA GrewExtends ==
    ASSUME NEW u \in RunRecord, NEW o, NEW w, Grew(u, o, w)
    PROVE  Extended(u, o, w)
<1>1. u.tree \in Trees  BY DEF RunRecord
<1> QED  BY <1>1 DEF Grew, Extended, SameTree

\* What extends a rank that only grew its tree extends the rank before it.
LEMMA ExtendedBack ==
    ASSUME NEW u, NEW o, NEW g, NEW w, SameReport(u, g), g.trees = u.trees, Extended(g, o, w)
    PROVE  Extended(u, o, w)
BY DEF Extended, SameReport

\* Inside a tree a rank goes on with it, finishes it or fails of the split.
LEMMA GrowingExtends ==
    ASSUME NEW u \in RunRecord, u.pc \in {"histogram", "split"}, NEW o, NEW v, NEW w,
           Resumed(u, o, v, w)
    PROVE  Extended(u, o, w) \/ FailedRun(u, w, "splits")
<1>1. CASE u.pc = "histogram"
  <2>1. PICK g \in RunRecord :
          /\ Widened(u, v[1], g)
          /\ IF o.verify_splits
             THEN /\ w.pc = "split" /\ SameTree(g, w) /\ SameReport(g, w)
                  /\ w.splits = IF Len(g.tree) = 1 THEN 1 ELSE 2
             ELSE Grew(g, o, w)
    BY <1>1 DEF Resumed, HistogramRun
  <2>2. Extended(g, o, w)
    <3>1. CASE o.verify_splits  BY <2>1, <3>1 DEF Extended, SameTree
    <3>2. CASE ~o.verify_splits  BY <2>1, <3>2, GrewExtends
    <3> QED  BY <3>1, <3>2
  <2> QED  BY <2>1, <2>2, ExtendedBack DEF Widened
<1>2. CASE u.pc = "split" /\ AllEqual(v)
  <2>1. PICK g \in RunRecord :
          /\ g.pc = u.pc /\ g.splits = u.splits - 1 /\ SameTree(u, g) /\ SameReport(u, g)
          /\ IF g.splits > 0 THEN Moved(g, w, "split") ELSE Grew(g, o, w)
    BY <1>2 DEF Resumed, SplitRun
  <2>2. Extended(g, o, w)
    <3>1. CASE g.splits > 0  BY <2>1, <3>1 DEF Extended, SameTree, Moved
    <3>2. CASE ~(g.splits > 0)  BY <2>1, <3>2, GrewExtends
    <3> QED  BY <3>1, <3>2
  <2> QED  BY <2>1, <2>2, ExtendedBack DEF SameTree
<1>3. CASE u.pc = "split" /\ ~AllEqual(v)
  BY <1>3 DEF Resumed
<1> QED  BY <1>1, <1>2, <1>3

\* The other moves keep the ensemble.
LEMMA OthersKeepTrees ==
    ASSUME NEW u \in RunRecord, u.pc \notin {"histogram", "split"} \union Ended, NEW o, NEW v, NEW w,
           Resumed(u, o, v, w)
    PROVE  SameTree(u, w) /\ w.splits = u.splits
<1>1. u.pc \in Labels  BY DEF RunRecord
<1> QED
  BY <1>1 DEF Resumed, Moved, MovedBut, FailedRun, StoppedRun, ScoredRun, RoundRun,
              CheckpointedRun, Labels, Looping, Ended

\* A resumed rank has as many trees as the rounds behind it.
LEMMA CountingKept ==
    ASSUME NEW u \in RunRecord, Counting(u), u.pc \notin Ended, NEW o \in OptionRecord, NEW v,
           NEW w \in RunRecord, Resumed(u, o, v, w)
    PROVE  Counting(w)
<1>0. u.pc \in Labels /\ u.error = "none" /\ u.round \in Nat /\ Len(u.trees) \in Nat
      /\ Rounds \in Nat
  BY BoundAssumption DEF RunRecord, Counting, Ended
<1>1. CASE u.pc \in {"histogram", "split"}
  <2>1. CASE Extended(u, o, w)
    <3>1. CASE w.pc \in {"histogram", "split", "returned"} /\ w.trees = u.trees
      BY <1>0, <1>1, <2>1, <3>1 DEF Extended, SameReport, Counting, Ended
    <3>2. ASSUME NEW t \in Trees, w.trees = Append(u.trees, t),
                 w.pc \in {"metric", "checkpoint", "after"}
          PROVE  Counting(w)
      <4>1. Len(w.trees) = Len(u.trees) + 1
        <5>1. u.trees \in Seq(Trees)  BY DEF RunRecord
        <5> QED  BY <3>2, <5>1
      <4> QED  BY <1>0, <1>1, <2>1, <3>2, <4>1 DEF Extended, SameReport, Counting, Ended
    <3> QED  BY <2>1, <3>1, <3>2 DEF Extended, After
  <2>2. CASE FailedRun(u, w, "splits")
    BY <1>0, <2>2 DEF FailedRun, MovedBut, SameTree, SameReportBut, Counting, Ended
  <2> QED  BY <1>1, <2>1, <2>2, GrowingExtends
<1>2. CASE u.pc = "after" /\ w.pc = "before"
  <2>1. RoundRun(u, w)
    BY <1>2 DEF Resumed, FailedRun, StoppedRun, Moved, MovedBut
  <2>2. w.round = u.round + 1 /\ u.round + 1 < Rounds /\ w.trees = u.trees /\ w.error = u.error
    BY <1>2, <2>1 DEF RoundRun, MovedBut, SameTree, SameReportBut
  <2> QED  BY <1>0, <1>2, <2>2 DEF Counting, Ended
<1>3. CASE u.pc \in Labels \ ({"histogram", "split"} \union Ended) /\ ~(u.pc = "after" /\ w.pc = "before")
  <2>1. w.trees = u.trees  BY <1>3, OthersKeepTrees DEF SameTree
  <2>2. w.round = u.round
    BY <1>0, <1>3 DEF Resumed, Moved, MovedBut, FailedRun, StoppedRun, ScoredRun, RoundRun,
                 CheckpointedRun, Labels, Looping, Ended, SameReport, SameReportBut
  <2>3. (w.error = "none") <=> (w.pc # "raised")
    BY <1>0, <1>3 DEF Resumed, Moved, MovedBut, FailedRun, StoppedRun, ScoredRun, RoundRun,
                 CheckpointedRun, Labels, Looping, Ended, SameReport, SameReportBut, After
  <2>4. /\ w.pc \in {"metric", "checkpoint"} => u.pc = "metric"
        /\ w.pc = "after" => u.pc \in {"metric", "checkpoint"}
        /\ w.pc \notin {"metric", "checkpoint", "after"} \union Ended => u.pc \in {"config", "targets", "counts", "rows", "base", "before"}
    BY <1>0, <1>3 DEF Resumed, Moved, MovedBut, FailedRun, StoppedRun, ScoredRun, RoundRun,
                 CheckpointedRun, Labels, Looping, Ended, After
  <2> QED  BY <1>0, <2>1, <2>2, <2>3, <2>4 DEF Counting, Ended
<1> QED  BY <1>0, <1>1, <1>2, <1>3

\* A prefix of a sequence is one of its longer versions.
LEMMA PrefixOfAppended ==
    ASSUME NEW S, NEW c \in Seq(S), NEW s \in Seq(S), NEW x \in S, IsPrefix(c, s)
    PROVE  IsPrefix(c, Append(s, x))
<1>1. Len(c) \in Nat /\ Len(c) <= Len(s) /\ SubSeq(c, 1, Len(c)) = SubSeq(s, 1, Len(c))
  BY DEF IsPrefix
<1>2. Append(s, x) \in Seq(S) /\ Len(Append(s, x)) = Len(s) + 1
      /\ \A i \in 1 .. Len(s) : Append(s, x)[i] = s[i]
  BY AppendProperties
<1> DEFINE a == SubSeq(s, 1, Len(c))
           b == SubSeq(Append(s, x), 1, Len(c))
<1>3. a \in Seq(S) /\ Len(a) = Len(c) /\ \A i \in 1 .. Len(c) : a[i] = s[i]
  BY <1>1, SubSeqProperties
<1>4. b \in Seq(S) /\ Len(b) = Len(c) /\ \A i \in 1 .. Len(c) : b[i] = Append(s, x)[i]
  BY <1>1, <1>2, SubSeqProperties
<1>5. a = b
  <2>1. \A i \in 1 .. Len(c) : a[i] = b[i]  BY <1>1, <1>2, <1>3, <1>4
  <2> HIDE DEF a, b
  <2> QED  BY <2>1, <1>3, <1>4, SeqEqual
<1> QED  BY <1>1, <1>2, <1>5 DEF IsPrefix

\* A resumed rank has a checkpoint for every period of rounds behind it.
LEMMA RecordedKept ==
    ASSUME NEW u \in RunRecord, Recorded(u), Counting(u), u.pc \notin Ended,
           NEW o \in OptionRecord, NEW v, NEW w \in RunRecord, Resumed(u, o, v, w)
    PROVE  Recorded(w)
<1>0. u.pc \in Labels /\ u.checkpoints \in Seq(Seq(Trees)) /\ u.trees \in Seq(Trees)
  BY DEF RunRecord
<1>1. CASE u.pc \in {"histogram", "split"}
  <2>1. CASE FailedRun(u, w, "splits") \/ (Extended(u, o, w) /\ w.trees = u.trees)
    BY <2>1 DEF FailedRun, MovedBut, SameTree, SameReportBut, Extended, SameReport, Recorded
  <2>2. ASSUME NEW t \in Trees, w.trees = Append(u.trees, t), Extended(u, o, w)
        PROVE  Recorded(w)
    <3>1. w.checkpoints = u.checkpoints  BY <2>2 DEF Extended, SameReport
    <3>2. ASSUME NEW i \in 1 .. Len(u.checkpoints)
          PROVE  u.checkpoints[i] # <<>> /\ IsPrefix(u.checkpoints[i], w.trees)
      <4>1. u.checkpoints[i] \in Seq(Trees)  BY <1>0
      <4>2. u.checkpoints[i] # <<>> /\ IsPrefix(u.checkpoints[i], u.trees)  BY DEF Recorded
      <4> QED  BY <1>0, <2>2, <4>1, <4>2, PrefixOfAppended
    <3> QED  BY <3>1, <3>2 DEF Recorded
  <2> QED  BY <1>1, <2>1, <2>2, GrowingExtends DEF Extended
<1>2. CASE u.pc = "checkpoint"
  <2>1. w.checkpoints = Append(u.checkpoints, u.trees) /\ w.trees = u.trees
    BY <1>2 DEF Resumed, CheckpointedRun, MovedBut, SameTree
  <2>2. u.trees # <<>>  BY <1>0, <1>2 DEF Counting
  <2>3. IsPrefix(u.trees, u.trees)  BY <1>0 DEF IsPrefix
  <2>4. /\ Len(w.checkpoints) = Len(u.checkpoints) + 1
        /\ \A i \in 1 .. Len(u.checkpoints) : w.checkpoints[i] = u.checkpoints[i]
        /\ w.checkpoints[Len(u.checkpoints) + 1] = u.trees
    BY <1>0, <2>1
  <2>5. Len(u.checkpoints) \in Nat  BY <1>0
  <2> QED  BY <2>1, <2>2, <2>3, <2>4, <2>5 DEF Recorded
<1>3. CASE u.pc \notin {"histogram", "split", "checkpoint"}
  <2>1. w.trees = u.trees  BY <1>3, OthersKeepTrees DEF SameTree
  <2>2. w.checkpoints = u.checkpoints
    BY <1>0, <1>3 DEF Resumed, Moved, MovedBut, FailedRun, StoppedRun, ScoredRun, RoundRun,
                 Labels, Looping, Ended, SameReport, SameReportBut
  <2> QED  BY <2>1, <2>2 DEF Recorded
<1> QED  BY <1>1, <1>2, <1>3

\* A resumed rank has a loss for every round it has scored.
LEMMA MeasuredKept ==
    ASSUME NEW u \in RunRecord, Measured(u), Counting(u), u.pc \notin Ended,
           NEW o \in OptionRecord, NEW v, NEW w \in RunRecord, Resumed(u, o, v, w)
    PROVE  Measured(w)
<1>0. u.pc \in Labels /\ u.metrics \in Seq(Nat \X Int) /\ u.trees \in Seq(Trees)
      /\ Len(u.trees) \in Nat
  BY DEF RunRecord
<1>1. CASE u.pc \in {"histogram", "split"}
  <2>1. w.metrics = u.metrics
    BY <1>1, GrowingExtends DEF Extended, SameReport, FailedRun, MovedBut, SameReportBut
  <2>2. Len(w.trees) \in Nat /\ Len(u.trees) <= Len(w.trees)
    <3>1. CASE w.trees = u.trees  BY <1>0, <3>1
    <3>2. ASSUME NEW t \in Trees, w.trees = Append(u.trees, t)
          PROVE  Len(w.trees) \in Nat /\ Len(u.trees) <= Len(w.trees)
      BY <1>0, <3>2
    <3> QED  BY <1>1, <3>1, <3>2, GrowingExtends DEF Extended, FailedRun, MovedBut, SameTree
  <2>3. ASSUME NEW i \in 1 .. Len(u.metrics)
        PROVE  u.metrics[i][1] \in 1 .. Len(w.trees)
    <3>1. u.metrics[i][1] \in 1 .. Len(u.trees)  BY DEF Measured
    <3>2. \A m \in 1 .. Len(u.trees) : m \in 1 .. Len(w.trees)  BY <1>0, <2>2
    <3> QED  BY <3>1, <3>2
  <2> QED  BY <2>1, <2>3 DEF Measured
<1>2. CASE u.pc = "metric"
  <2>1. w.metrics = Append(u.metrics, <<Len(u.trees), v[1]>>) /\ w.trees = u.trees
    BY <1>2 DEF Resumed, ScoredRun, MovedBut, SameTree
  <2>2. Len(u.trees) > 0  BY <1>0, <1>2 DEF Counting
  <2>3. /\ Len(u.metrics) \in Nat /\ Len(w.metrics) = Len(u.metrics) + 1
        /\ \A i \in 1 .. Len(u.metrics) : w.metrics[i] = u.metrics[i]
        /\ w.metrics[Len(u.metrics) + 1][1] = Len(u.trees)
    BY <1>0, <2>1
  <2>4. ASSUME NEW i \in 1 .. Len(w.metrics)
        PROVE  w.metrics[i][1] \in 1 .. Len(w.trees)
    <3>1. CASE i \in 1 .. Len(u.metrics)
      <4>1. w.metrics[i] = u.metrics[i]  BY <2>3, <3>1
      <4>2. u.metrics[i][1] \in 1 .. Len(u.trees)  BY <3>1 DEF Measured
      <4> QED  BY <2>1, <4>1, <4>2
    <3>2. CASE i = Len(u.metrics) + 1
      <4>1. Len(u.trees) \in 1 .. Len(w.trees)  BY <1>0, <2>1, <2>2
      <4> QED  BY <2>3, <3>2, <4>1
    <3>3. i \in 1 .. Len(u.metrics) \/ i = Len(u.metrics) + 1  BY <2>3
    <3> QED  BY <3>1, <3>2, <3>3
  <2> QED  BY <2>4 DEF Measured
<1>3. CASE u.pc \notin {"histogram", "split", "metric"}
  <2>1. w.trees = u.trees  BY <1>3, OthersKeepTrees DEF SameTree
  <2>2. w.metrics = u.metrics
    BY <1>0, <1>3 DEF Resumed, Moved, MovedBut, FailedRun, StoppedRun, RoundRun, CheckpointedRun,
                 Labels, Looping, Ended, SameReport, SameReportBut
  <2> QED  BY <2>1, <2>2 DEF Measured
<1> QED  BY <1>1, <1>2, <1>3

\* Losses are integers and rounds are naturals.
LEMMA ScoresAreTyped ==
    ASSUME NEW u \in RunRecord
    PROVE  /\ Len(u.metrics) \in Nat
           /\ \A i \in 1 .. Len(u.metrics) : LossAt(u, i) \in Int
           /\ BestLoss(u) \in Int /\ BestRound(u) \in Nat
<1>1. u.metrics \in Seq(Nat \X Int) /\ u.best \in Int \X Nat  BY DEF RunRecord
<1>2. \A i \in 1 .. Len(u.metrics) : u.metrics[i] \in Nat \X Int  BY <1>1
<1>3. \A p \in Nat \X Int : p[2] \in Int  OBVIOUS
<1>4. \A p \in Int \X Nat : p[1] \in Int /\ p[2] \in Nat  OBVIOUS
<1> QED  BY <1>1, <1>2, <1>3, <1>4 DEF LossAt, BestLoss, BestRound

\* Stagnation, said of the losses themselves.
LEMMA StagnantIs ==
    ASSUME NEW u, NEW k, NEW n
    PROVE  Stagnant(u, k, n) <=>
             (k > n /\ \E b \in 1 .. k - n : \A i \in b + 1 .. k : LossAt(u, i) >= LossAt(u, b))
BY DEF Stagnant, LossAt

\* Where the best loss is known, the run is stagnant when the best is old.
LEMMA StagnantByBest ==
    ASSUME NEW u \in RunRecord, BestIsFirst(u), Len(u.metrics) > 0, NEW n \in Nat, n > 0
    PROVE  Stagnant(u, Len(u.metrics), n) <=> Len(u.metrics) - BestRound(u) >= n
<1>1. PICK K \in Nat, B \in Nat : K = Len(u.metrics) /\ B = BestRound(u)
  BY ScoresAreTyped
<1>2. \A i \in 1 .. K : LossAt(u, i) \in Int  BY <1>1, ScoresAreTyped
<1>3. /\ B \in 1 .. K
      /\ \A i \in 1 .. K : LossAt(u, i) >= LossAt(u, B)
      /\ \A i \in 1 .. B - 1 : LossAt(u, i) > LossAt(u, B)
  BY <1>1 DEF BestIsFirst
<1>5. ASSUME K - B >= n
      PROVE  K > n /\ \E b \in 1 .. K - n : \A i \in b + 1 .. K : LossAt(u, i) >= LossAt(u, b)
  <2>1. B \in 1 .. K - n /\ K > n  BY <1>3, <1>5
  <2>2. \A i \in B + 1 .. K : LossAt(u, i) >= LossAt(u, B)  BY <1>3
  <2> QED  BY <2>1, <2>2
<1>6. ASSUME K > n, NEW b \in 1 .. K - n, \A i \in b + 1 .. K : LossAt(u, i) >= LossAt(u, b)
      PROVE  K - B >= n
  <2>1. SUFFICES ASSUME B > K - n PROVE FALSE  OBVIOUS
  <2>2. B \in b + 1 .. K /\ b \in 1 .. B - 1 /\ b \in 1 .. K
    BY <1>3, <2>1
  <2>3. LossAt(u, B) >= LossAt(u, b) /\ LossAt(u, b) > LossAt(u, B)  BY <1>3, <1>6, <2>2
  <2>4. LossAt(u, b) \in Int /\ LossAt(u, B) \in Int  BY <1>2, <1>3, <2>2
  <2> QED  BY <2>3, <2>4
<1> QED  BY <1>1, <1>5, <1>6, StagnantIs

\* A round of the past is judged by the losses up to it.
LEMMA StagnantPast ==
    ASSUME NEW u \in RunRecord, NEW w \in RunRecord, NEW n \in Nat, NEW k \in 1 .. Len(u.metrics),
           \A i \in 1 .. Len(u.metrics) : LossAt(w, i) = LossAt(u, i)
    PROVE  Stagnant(w, k, n) <=> Stagnant(u, k, n)
<1>1. Len(u.metrics) \in Nat  BY ScoresAreTyped
<1>2. \A b \in 1 .. k - n : LossAt(w, b) = LossAt(u, b)
  BY <1>1
<1>3. \A b \in 1 .. k - n : \A i \in b + 1 .. k : LossAt(w, i) = LossAt(u, i)
  BY <1>1
<1> QED  BY <1>2, <1>3, StagnantIs

\* Scoring keeps the first of the least losses.
LEMMA BestIsKept ==
    ASSUME NEW u \in RunRecord, BestIsFirst(u), NEW loss \in Int, NEW w \in RunRecord,
           Len(w.metrics) = Len(u.metrics) + 1,
           \A i \in 1 .. Len(u.metrics) : LossAt(w, i) = LossAt(u, i),
           LossAt(w, Len(u.metrics) + 1) = loss,
           IF BestRound(u) = 0 \/ loss < BestLoss(u)
           THEN BestLoss(w) = loss /\ BestRound(w) = Len(u.metrics) + 1
           ELSE BestLoss(w) = BestLoss(u) /\ BestRound(w) = BestRound(u)
    PROVE  BestIsFirst(w)
<1>1. PICK K \in Nat, B \in Nat, L \in Int :
        K = Len(u.metrics) /\ B = BestRound(u) /\ L = BestLoss(u)
  BY ScoresAreTyped
<1>2. /\ Len(w.metrics) = K + 1 /\ LossAt(w, K + 1) = loss
      /\ \A i \in 1 .. K : LossAt(w, i) = LossAt(u, i) /\ LossAt(u, i) \in Int
  BY <1>1, ScoresAreTyped
<1>3. \A i \in 1 .. K + 1 : i \in 1 .. K \/ i = K + 1  OBVIOUS
<1>4. CASE K = 0
  <2>1. BestLoss(w) = loss /\ BestRound(w) = K + 1  BY <1>1, <1>4 DEF BestIsFirst
  <2> QED  BY <1>2, <1>4, <2>1 DEF BestIsFirst
<1>5. CASE K > 0 /\ loss < L
  <2>1. BestLoss(w) = loss /\ BestRound(w) = K + 1  BY <1>1, <1>5
  <2>2. \A i \in 1 .. K : LossAt(u, i) >= L  BY <1>1, <1>5 DEF BestIsFirst
  <2>3. \A i \in 1 .. K : LossAt(w, i) > loss  BY <1>2, <1>5, <2>2
  <2>5. \A i \in 1 .. K + 1 : LossAt(w, i) >= loss
    <3>1. \A i \in 1 .. K : LossAt(w, i) >= loss  BY <1>2, <2>3
    <3>2. LossAt(w, K + 1) >= loss  BY <1>2
    <3> QED  BY <1>3, <3>1, <3>2
  <2> QED  BY <1>2, <1>5, <2>1, <2>3, <2>5 DEF BestIsFirst
<1>6. CASE K > 0 /\ ~(loss < L)
  <2>1. /\ B \in 1 .. K /\ LossAt(u, B) = L
        /\ \A i \in 1 .. K : LossAt(u, i) >= L
        /\ \A i \in 1 .. B - 1 : LossAt(u, i) > L
    BY <1>1, <1>6 DEF BestIsFirst
  <2>2. BestLoss(w) = L /\ BestRound(w) = B  BY <1>1, <1>6, <2>1
  <2>3. B \in 1 .. K + 1 /\ LossAt(w, B) = L  BY <1>2, <2>1
  <2>4. \A i \in 1 .. K + 1 : LossAt(w, i) >= L
    <3>1. \A i \in 1 .. K : LossAt(w, i) >= L  BY <1>2, <2>1
    <3>2. LossAt(w, K + 1) >= L  BY <1>2, <1>6
    <3> QED  BY <1>3, <3>1, <3>2
  <2>5. \A i \in 1 .. B - 1 : LossAt(w, i) > L
    <3>1. \A i \in 1 .. B - 1 : i \in 1 .. K  BY <2>1
    <3> QED  BY <1>2, <2>1, <3>1
  <2> QED  BY <1>2, <2>2, <2>3, <2>4, <2>5 DEF BestIsFirst
<1> QED  BY <1>4, <1>5, <1>6

SameScore(u, w) ==
    /\ u.best = w.best /\ u.metrics = w.metrics
    /\ u.stop_now = w.stop_now /\ u.stopped_early = w.stopped_early

\* A move that does not score keeps what is known of the losses.
LEMMA ScoreStands ==
    ASSUME NEW u, NEW w, SameScore(u, w)
    PROVE  /\ BestIsFirst(u) => BestIsFirst(w)
           /\ \A k, n : Stagnant(u, k, n) <=> Stagnant(w, k, n)
<1>1. BestLoss(w) = BestLoss(u) /\ BestRound(w) = BestRound(u) /\ Len(w.metrics) = Len(u.metrics)
  BY DEF SameScore, BestLoss, BestRound
<1>2. \A i : LossAt(w, i) = LossAt(u, i)
  BY DEF SameScore, LossAt
<1>3. BestIsFirst(u) => BestIsFirst(w)  BY <1>1, <1>2 DEF BestIsFirst
<1>4. \A k, n : Stagnant(u, k, n) <=> Stagnant(w, k, n)  BY <1>2, StagnantIs
<1> QED  BY <1>3, <1>4

\* A step that scores nothing leaves early stopping where it was.
LEMMA ScoringStands ==
    ASSUME NEW u \in RunRecord, NEW w \in RunRecord, NEW n \in Nat, n > 0, Scoring(u, n),
           SameScore(u, w),
           w.pc \notin Ended => Len(w.trees) = Len(w.metrics) + (IF w.pc = "metric" THEN 1 ELSE 0),
           w.stop_now => w.pc \in {"checkpoint", "after"} \union Ended
    PROVE  Scoring(w, n)
<1>1. BestIsFirst(w) /\ (w.stop_now <=> w.stopped_early)
  BY ScoreStands DEF Scoring, SameScore
<1>2. w.stopped_early <=> Stagnant(w, Len(w.metrics), n)
  BY ScoreStands DEF Scoring, SameScore
<1>3. \A k \in 1 .. Len(w.metrics) - 1 : ~Stagnant(w, k, n)
  BY ScoreStands DEF Scoring, SameScore
<1> QED  BY <1>1, <1>2, <1>3 DEF Scoring

\* A scored round is stale exactly when the losses say so, and is the first.
LEMMA ScoredIsScoring ==
    ASSUME NEW u \in RunRecord, NEW w \in RunRecord, NEW o \in OptionRecord,
           o.early_stopping_rounds > 0, Scoring(u, o.early_stopping_rounds), u.pc = "metric",
           NEW loss \in Sums, ScoredRun(u, o, loss, w)
    PROVE  Scoring(w, o.early_stopping_rounds)
<1>1. PICK n \in Nat : n = o.early_stopping_rounds  BY DEF OptionRecord
<1>2. PICK K \in Nat : K = Len(u.metrics)  BY ScoresAreTyped
<1>3. loss \in Int  BY RanksAreFinite DEF Sums
<1>4. Len(u.trees) = K + 1 /\ BestIsFirst(u) /\ ~u.stopped_early
      /\ ~Stagnant(u, K, n) /\ \A k \in 1 .. K - 1 : ~Stagnant(u, k, n)
  BY <1>1, <1>2 DEF Scoring, Ended
<1>5. /\ w.best = IF u.best[2] = 0 \/ loss < u.best[1] THEN <<loss, K + 1>> ELSE u.best
      /\ w.metrics = Append(u.metrics, <<K + 1, loss>>)
      /\ w.stopped_early = Stale(u, w.best, o) /\ w.stop_now = w.stopped_early
      /\ w.trees = u.trees /\ w.pc \in {"checkpoint", "after"}
  BY <1>4 DEF ScoredRun, MovedBut, SameTree, After
<1>6. /\ Len(w.metrics) = K + 1 /\ LossAt(w, K + 1) = loss
      /\ \A i \in 1 .. K : LossAt(w, i) = LossAt(u, i)
  <2>1. u.metrics \in Seq(Nat \X Int)  BY DEF RunRecord
  <2>2. <<K + 1, loss>> \in Nat \X Int  BY <1>3
  <2>3. /\ Len(w.metrics) = K + 1 /\ w.metrics[K + 1] = <<K + 1, loss>>
        /\ \A i \in 1 .. K : w.metrics[i] = u.metrics[i]
    BY <1>2, <1>5, <2>1, <2>2, AppendProperties
  <2> QED  BY <2>3 DEF LossAt
<1>7. IF BestRound(u) = 0 \/ loss < BestLoss(u)
      THEN BestLoss(w) = loss /\ BestRound(w) = K + 1
      ELSE BestLoss(w) = BestLoss(u) /\ BestRound(w) = BestRound(u)
  BY <1>5 DEF BestRound, BestLoss
<1>8. BestIsFirst(w)
  BY <1>2, <1>3, <1>4, <1>6, <1>7, BestIsKept
<1>9. w.stopped_early <=> Stagnant(w, K + 1, n)
  <2>1. Stagnant(w, K + 1, n) <=> (K + 1) - BestRound(w) >= n
    BY <1>1, <1>6, <1>8, StagnantByBest
  <2>2. Stale(u, w.best, o) <=> (K + 1) - BestRound(w) >= n
    BY <1>1, <1>4 DEF Stale, BestRound
  <2> QED  BY <1>5, <2>1, <2>2
<1>10. \A k \in 1 .. K : ~Stagnant(w, k, n)
  <2>1. \A k \in 1 .. K : Stagnant(w, k, n) <=> Stagnant(u, k, n)
    BY <1>2, <1>6, StagnantPast
  <2>2. \A k \in 1 .. K : k = K \/ k \in 1 .. K - 1  OBVIOUS
  <2> QED  BY <1>4, <2>1, <2>2
<1>11. w.stopped_early \in BOOLEAN /\ w.stop_now \in BOOLEAN  BY DEF RunRecord
<1>12. (w.stop_now <=> w.stopped_early) /\ Len(w.metrics) - 1 = K
  BY <1>5, <1>6, <1>11
<1>13. w.pc # "metric" /\ Len(w.trees) = Len(w.metrics)  BY <1>4, <1>5, <1>6
<1>14. Len(w.metrics) \in Nat  BY ScoresAreTyped
<1> QED
  BY <1>1, <1>5, <1>6, <1>8, <1>9, <1>10, <1>12, <1>13, <1>14 DEF Scoring

\* A resumed rank's best round is the first of its least losses, and it goes on only while not
\* stagnant.
LEMMA ScoringKept ==
    ASSUME NEW u \in RunRecord, u.pc \notin Ended, NEW o \in OptionRecord,
           Scoring(u, o.early_stopping_rounds), NEW v, Readable(u, v),
           NEW w \in RunRecord, Resumed(u, o, v, w)
    PROVE  Scoring(w, o.early_stopping_rounds)
<1> SUFFICES ASSUME o.early_stopping_rounds > 0
             PROVE  Scoring(w, o.early_stopping_rounds)
  BY DEF Scoring
<1>1. PICK n \in Nat : n = o.early_stopping_rounds  BY DEF OptionRecord
<1>2. u.pc \in Labels /\ Len(u.metrics) \in Nat /\ u.trees \in Seq(Trees)
  BY ScoresAreTyped DEF RunRecord
<1>3. Len(u.trees) = Len(u.metrics) + (IF u.pc = "metric" THEN 1 ELSE 0)
      /\ (u.stop_now => u.pc \in {"checkpoint", "after"})
  BY DEF Scoring
<1>4. CASE u.pc \in {"histogram", "split"}
  <2>1. SameScore(u, w)
    BY <1>4, GrowingExtends DEF Extended, SameReport, FailedRun, MovedBut, SameReportBut, SameScore
  <2>2. ~w.stop_now  BY <1>3, <1>4, <2>1 DEF SameScore
  <2>3. w.pc \notin Ended => Len(w.trees) = Len(w.metrics) + (IF w.pc = "metric" THEN 1 ELSE 0)
    <3>1. CASE w.trees = u.trees /\ (w.pc \in {"histogram", "split"} \/ w.pc \in Ended)
      BY <1>3, <1>4, <2>1, <3>1 DEF SameScore
    <3>2. ASSUME NEW t \in Trees, w.trees = Append(u.trees, t), w.pc = "metric"
          PROVE  Len(w.trees) = Len(w.metrics) + 1
      <4>1. Len(w.trees) = Len(u.trees) + 1  BY <1>2, <3>2, AppendProperties
      <4>2. Len(u.trees) = Len(u.metrics) + 0  BY <1>3, <1>4
      <4>3. Len(w.metrics) = Len(u.metrics)  BY <2>1 DEF SameScore
      <4> QED  BY <1>2, <4>1, <4>2, <4>3
    <3>3. \A k : MetricDue(k, o)  BY DEF MetricDue
    <3> QED
      BY <1>4, <3>1, <3>2, <3>3, GrowingExtends
      DEF Extended, FailedRun, MovedBut, SameTree, Ended
  <2> QED  BY <1>1, <2>1, <2>2, <2>3, ScoringStands
<1>5. CASE u.pc = "metric"
  <2>1. v[1] \in Sums /\ ScoredRun(u, o, v[1], w)
    BY <1>5 DEF Readable, Resumed
  <2> QED  BY <1>5, <2>1, ScoredIsScoring
<1>6. CASE u.pc \notin {"histogram", "split", "metric"}
  <2>1. SameScore(u, w)
    BY <1>2, <1>6 DEF Resumed, Moved, MovedBut, FailedRun, StoppedRun, RoundRun, CheckpointedRun,
                 Labels, Looping, Ended, SameReport, SameReportBut, SameScore
  <2>2. w.trees = u.trees /\ w.pc # "metric"
    BY <1>2, <1>6 DEF Resumed, Moved, MovedBut, FailedRun, StoppedRun, RoundRun, CheckpointedRun,
                 Labels, Looping, Ended, SameTree
  <2>3. w.stop_now => w.pc \in {"checkpoint", "after"} \union Ended
    <3>1. CASE u.pc = "checkpoint"
      BY <3>1 DEF Resumed, CheckpointedRun, MovedBut
    <3>2. CASE u.pc = "after" /\ u.stop_now
      <4>1. v[1] = 0 \/ v[1] = 1 \/ v[1] = 2  BY <3>2 DEF Readable
      <4> QED  BY <3>2, <4>1 DEF Resumed, FailedRun, StoppedRun, Moved, MovedBut, Ended
    <3>3. CASE ~u.stop_now
      BY <2>1, <3>3 DEF SameScore
    <3> QED  BY <1>3, <3>1, <3>2, <3>3
  <2>4. w.pc \notin Ended => Len(w.trees) = Len(w.metrics) + (IF w.pc = "metric" THEN 1 ELSE 0)
    BY <1>3, <1>6, <2>1, <2>2 DEF SameScore
  <2> QED  BY <1>1, <2>1, <2>3, <2>4, ScoringStands
<1> QED  BY <1>4, <1>5, <1>6

\* Reading an answer keeps all that is known of a rank alone.
LEMMA RankInvKept ==
    ASSUME NEW u, NEW o \in OptionRecord, RankInv(u, o), u.pc \notin Ended, NEW v, Readable(u, v)
    PROVE  RankInv(ResumeOf(u, o, v), o)
<1> SUFFICES ASSUME NEW w, w = ResumeOf(u, o, v)
             PROVE  RankInv(w, o)
  OBVIOUS
<1>1. u \in RunRecord /\ Growing(u) /\ Counting(u) /\ Recorded(u) /\ Measured(u)
      /\ Scoring(u, o.early_stopping_rounds)
  BY DEF RankInv
<1>2. w \in RunRecord /\ Resumed(u, o, v, w)  BY <1>1, ResumeIs
<1> QED
  BY <1>1, <1>2, GrowthKept, CountingKept, RecordedKept, MeasuredKept, ScoringKept DEF RankInv

\* A rank that leaves, or whose callback resets a parameter, keeps the rest.
LEMMA LeavingKeeps ==
    ASSUME NEW u, NEW o \in OptionRecord, RankInv(u, o), NEW w \in RunRecord,
           SameTree(u, w), SameScore(u, w), w.round = u.round, w.splits = u.splits,
           w.checkpoints = u.checkpoints,
           \/ w.pc \in Ended /\ ((w.error = "none") <=> (w.pc # "raised"))
           \/ w.pc = u.pc /\ w.error = u.error
    PROVE  RankInv(w, o)
<1>1. u \in RunRecord /\ Growing(u) /\ Counting(u) /\ Recorded(u) /\ Measured(u)
      /\ Scoring(u, o.early_stopping_rounds)
  BY DEF RankInv
<1>2. Growing(w)  BY <1>1 DEF Growing, SameTree, Ended
<1>3. Counting(w)  BY <1>1 DEF Counting, SameTree, Ended
<1>4. Recorded(w)  BY <1>1 DEF Recorded, SameTree
<1>5. Measured(w)  BY <1>1 DEF Measured, SameTree, SameScore
<1>6. Scoring(w, o.early_stopping_rounds)
  <2> SUFFICES ASSUME o.early_stopping_rounds > 0 PROVE Scoring(w, o.early_stopping_rounds)
    BY DEF Scoring
  <2>1. o.early_stopping_rounds \in Nat  BY DEF OptionRecord
  <2>2. w.pc \notin Ended => Len(w.trees) = Len(w.metrics) + (IF w.pc = "metric" THEN 1 ELSE 0)
    BY <1>1 DEF Scoring, SameTree, SameScore
  <2>3. w.stop_now => w.pc \in {"checkpoint", "after"} \union Ended
    BY <1>1 DEF Scoring, SameScore
  <2> QED  BY <1>1, <2>1, <2>2, <2>3, ScoringStands
<1> QED  BY <1>2, <1>3, <1>4, <1>5, <1>6 DEF RankInv

\* So does raising.
LEMMA FailingKeeps ==
    ASSUME NEW u, NEW o \in OptionRecord, RankInv(u, o), u.pc \notin Ended,
           NEW e \in Errors, e # "none"
    PROVE  RankInv(Fails(u, e), o)
<1>1. Fails(u, e) \in RunRecord /\ FailedRun(u, Fails(u, e), e)  BY FailsIs DEF RankInv
<1> QED
  BY <1>1, LeavingKeeps DEF FailedRun, MovedBut, SameReportBut, SameScore, Ended

\* So does a crash.
LEMMA CrashingKeeps ==
    ASSUME NEW u, NEW o \in OptionRecord, RankInv(u, o), u.pc \notin Ended
    PROVE  RankInv([u EXCEPT !.pc = "crashed"], o)
<1>1. [u EXCEPT !.pc = "crashed"] = At(u, "crashed")  BY DEF At
<1>2. At(u, "crashed") \in RunRecord /\ Moved(u, At(u, "crashed"), "crashed")
  BY AtIs, LabelNames DEF RankInv, Moved
<1>3. u.error = "none"  BY DEF RankInv, Counting, Ended
<1> QED
  BY <1>1, <1>2, <1>3, LeavingKeeps DEF Moved, SameReport, SameScore, Ended

\* So does a callback that asks for a parameter to be reset.
LEMMA ResettingKeeps ==
    ASSUME NEW u, NEW o \in OptionRecord, RankInv(u, o), NEW b \in BOOLEAN
    PROVE  RankInv([u EXCEPT !.reset = b], o)
<1> SUFFICES ASSUME NEW w, w = [u EXCEPT !.reset = b] PROVE RankInv(w, o)
  OBVIOUS
<1>1. w \in RunRecord /\ SameTree(u, w) /\ SameScore(u, w) /\ w.round = u.round
      /\ w.splits = u.splits /\ w.checkpoints = u.checkpoints /\ w.pc = u.pc /\ w.error = u.error
  BY DEF RankInv, RunRecord, SameTree, SameScore
<1> QED  BY <1>1, LeavingKeeps

\* A rank that has not begun satisfies what is known of a rank alone.
LEMMA NewRunIs ==
    ASSUME NEW o \in OptionRecord
    PROVE  RankInv(NewRun, o)
<1>1. NewRun \in RunRecord
  BY DEF NewRun, RunRecord, Labels, Errors, Trees
<1>2. Growing(NewRun) /\ Counting(NewRun)
  BY DEF NewRun, Growing, Counting, Ended
<1>3. Recorded(NewRun) /\ Measured(NewRun)  BY DEF NewRun, Recorded, Measured
<1>4. o.early_stopping_rounds \in Nat  BY DEF OptionRecord
<1>5. BestIsFirst(NewRun)  BY DEF NewRun, BestIsFirst, BestRound
<1>6. o.early_stopping_rounds > 0 => ~Stagnant(NewRun, 0, o.early_stopping_rounds)
  BY <1>4, StagnantIs
<1>7. Scoring(NewRun, o.early_stopping_rounds)
  BY <1>4, <1>5, <1>6 DEF Scoring, NewRun
<1> QED  BY <1>1, <1>2, <1>3, <1>7 DEF RankInv

-----------------------------------------------------------------------------
(* A move depends on the locals and the options alone.                     *)

\* Of one tree, the options only decide where it goes when it is grown.
LEMMA GrewAlike ==
    ASSUME NEW u, NEW w, SameCore(u, w), NEW o, NEW p, NEW x, NEW y, Grew(u, o, x), Grew(w, p, y)
    PROVE  /\ x.pc = y.pc => SameCore(x, y)
           /\ o = p => x.pc = y.pc
           /\ {x.pc, y.pc} \subseteq Inner \union Ended /\ x.pc # "split" /\ y.pc # "split"
<1>1. x.splits = y.splits /\ x.round = y.round
  BY DEF Grew, SameReport, SameCore
<1> DEFINE more == Len(u.frontier) < NumLeaves /\ u.frontier[Best(u.frontier)] >= SplitAt
<1>2. CASE more
  <2>1. x.pc = "histogram" /\ y.pc = "histogram" /\ SameTree(u, x) /\ SameTree(w, y)
    BY <1>2 DEF Grew, SameCore
  <2> QED  BY <1>1, <2>1 DEF SameCore, SameTree, Inner
<1>3. CASE ~more /\ Converged(u.tree)
  <2>1. x.pc = "returned" /\ y.pc = "returned" /\ SameTree(u, x) /\ SameTree(w, y)
    BY <1>3 DEF Grew, SameCore
  <2> QED  BY <1>1, <2>1 DEF SameCore, SameTree, Ended
<1>4. CASE ~more /\ ~Converged(u.tree)
  <2>1. /\ x.trees = Append(u.trees, u.tree) /\ y.trees = Append(w.trees, w.tree)
        /\ x.tree = <<>> /\ y.tree = <<>> /\ x.frontier = <<>> /\ y.frontier = <<>>
        /\ x.pc = IF MetricDue(Len(x.trees), o) THEN "metric" ELSE After(Len(x.trees), o)
        /\ y.pc = IF MetricDue(Len(y.trees), p) THEN "metric" ELSE After(Len(y.trees), p)
    BY <1>4 DEF Grew, SameCore
  <2>2. x.trees = y.trees  BY <2>1 DEF SameCore
  <2> QED  BY <1>1, <2>1, <2>2 DEF SameCore, Inner, After
<1> QED  BY <1>2, <1>3, <1>4

\* A move of a growing tree, from one growth.
LEMMA GrowingAlike ==
    ASSUME NEW u \in RunRecord, NEW w \in RunRecord, u.pc = w.pc, u.pc \in {"histogram", "split"},
           SameCore(u, w), NEW o \in OptionRecord, NEW p \in OptionRecord, NEW v,
           NEW x, NEW y, Resumed(u, o, v, x), Resumed(w, p, v, y),
           x.pc \notin Lost, y.pc \notin Lost
    PROVE  /\ x.pc = y.pc => SameCore(x, y)
           /\ o = p => x.pc = y.pc
           /\ {x.pc, y.pc} \subseteq Inner \union Ended
<1>1. CASE u.pc = "histogram"
  <2>1. PICK g \in RunRecord :
          /\ Widened(u, v[1], g)
          /\ IF o.verify_splits
             THEN /\ x.pc = "split" /\ SameTree(g, x) /\ SameReport(g, x)
                  /\ x.splits = IF Len(g.tree) = 1 THEN 1 ELSE 2
             ELSE Grew(g, o, x)
    BY <1>1 DEF Resumed, HistogramRun
  <2>2. PICK h \in RunRecord :
          /\ Widened(w, v[1], h)
          /\ IF p.verify_splits
             THEN /\ y.pc = "split" /\ SameTree(h, y) /\ SameReport(h, y)
                  /\ y.splits = IF Len(h.tree) = 1 THEN 1 ELSE 2
             ELSE Grew(h, p, y)
    BY <1>1 DEF Resumed, HistogramRun
  <2>3. SameCore(g, h)
    BY <2>1, <2>2 DEF Widened, SameCore, SameReport
  <2>4. CASE o.verify_splits /\ p.verify_splits
    BY <2>1, <2>2, <2>3, <2>4 DEF SameCore, SameTree, SameReport, Inner
  <2>5. CASE ~o.verify_splits /\ ~p.verify_splits
    BY <2>1, <2>2, <2>3, <2>5, GrewAlike
  <2>6. CASE o.verify_splits /\ ~p.verify_splits
    <3>1. y.pc \in Inner \union Ended /\ y.pc # "split"
      BY <2>2, <2>6, GrewAlike DEF SameCore
    <3> QED  BY <2>1, <2>6, <3>1 DEF Inner
  <2>7. CASE ~o.verify_splits /\ p.verify_splits
    <3>1. x.pc \in Inner \union Ended /\ x.pc # "split"
      BY <2>1, <2>7, GrewAlike DEF SameCore
    <3> QED  BY <2>2, <2>7, <3>1 DEF Inner
  <2> QED  BY <2>4, <2>5, <2>6, <2>7
<1>2. CASE u.pc = "split"
  <2>0. AllEqual(v)
    BY <1>2 DEF Resumed, FailedRun, MovedBut, Lost
  <2>1. PICK g \in RunRecord :
          /\ g.pc = u.pc /\ g.splits = u.splits - 1 /\ SameTree(u, g) /\ SameReport(u, g)
          /\ IF g.splits > 0 THEN Moved(g, x, "split") ELSE Grew(g, o, x)
    BY <1>2, <2>0 DEF Resumed, SplitRun
  <2>2. PICK h \in RunRecord :
          /\ h.pc = w.pc /\ h.splits = w.splits - 1 /\ SameTree(w, h) /\ SameReport(w, h)
          /\ IF h.splits > 0 THEN Moved(h, y, "split") ELSE Grew(h, p, y)
    BY <1>2, <2>0 DEF Resumed, SplitRun
  <2>3. SameCore(g, h)
    BY <2>1, <2>2 DEF SameTree, SameCore, SameReport
  <2>4. CASE g.splits > 0
    BY <2>1, <2>2, <2>3, <2>4 DEF Moved, SameCore, SameTree, SameReport, Inner
  <2>5. CASE ~(g.splits > 0)
    <3>1. ~(h.splits > 0)  BY <2>3, <2>5 DEF SameCore
    <3> QED  BY <2>1, <2>2, <2>3, <2>5, <3>1, GrewAlike
  <2> QED  BY <2>4, <2>5
<1> QED  BY <1>1, <1>2

\* The report of the ranks whose options are one.
SameDiary(u, w) ==
    /\ u.best = w.best /\ u.stop_now = w.stop_now /\ u.metrics = w.metrics
    /\ u.stopped_early = w.stopped_early
    /\ u.stopped_by_callback = w.stopped_by_callback
    /\ u.checkpoints = w.checkpoints /\ u.error = w.error

\* A tree that grows writes nothing down.
LEMMA GrowingDiary ==
    ASSUME NEW u \in RunRecord, u.pc \in {"histogram", "split"}, NEW o, NEW v, NEW x,
           Resumed(u, o, v, x), x.pc \notin Lost
    PROVE  SameDiary(u, x)
BY GrowingExtends DEF Extended, FailedRun, MovedBut, Lost, SameReport, SameDiary

Steady == {"config", "targets", "counts", "rows", "base", "before", "checkpoint"}

\* Outside of a tree, a metric and an AFTER verdict, the options are not asked.
LEMMA SteadyAlike ==
    ASSUME NEW u, NEW w, u.pc = w.pc, u.pc \in Steady, SameCore(u, w), NEW o, NEW p, NEW v,
           NEW x, NEW y, Resumed(u, o, v, x), Resumed(w, p, v, y),
           x.pc \notin Lost, y.pc \notin Lost
    PROVE  x.pc = y.pc /\ SameCore(x, y) /\ (SameDiary(u, w) => SameDiary(x, y))
<1>1. CASE u.pc \in {"config", "targets", "counts", "rows", "base"}
  BY <1>1 DEF Resumed, Moved, FailedRun, MovedBut, Lost, SameTree, SameReport, SameCore, SameDiary
<1>2. CASE u.pc = "before"
  <2>1. v[1] # 2  BY <1>2 DEF Resumed, FailedRun, MovedBut, Lost
  <2>2. CASE v[1] = 1
    <3>1. StoppedRun(u, x) /\ StoppedRun(w, y)  BY <1>2, <2>2 DEF Resumed
    <3> QED  BY <3>1 DEF StoppedRun, MovedBut, SameTree, SameReportBut, SameCore, SameDiary
  <2>3. CASE v[1] # 1
    <3>1. Moved(u, x, "histogram") /\ Moved(w, y, "histogram")
      BY <1>2, <2>1, <2>3 DEF Resumed, FailedRun, MovedBut, Lost
    <3> QED  BY <3>1 DEF Moved, SameTree, SameReport, SameCore, SameDiary
  <2> QED  BY <2>2, <2>3
<1>3. CASE u.pc = "checkpoint"
  BY <1>3 DEF Resumed, CheckpointedRun, MovedBut, Lost, SameTree, SameReportBut, SameCore, SameDiary
<1> QED  BY <1>1, <1>2, <1>3 DEF Steady

\* Two ranks that read one reduced loss come out alike; with equal options they do the same
\* next.
LEMMA MetricAlike ==
    ASSUME NEW u, NEW w, u.pc = w.pc, u.pc = "metric", SameCore(u, w), NEW o, NEW p, NEW v,
           NEW x, NEW y, Resumed(u, o, v, x), Resumed(w, p, v, y)
    PROVE  /\ {x.pc, y.pc} \subseteq Inner /\ SameCore(x, y)
           /\ o = p /\ SameDiary(u, w) => x.pc = y.pc /\ SameDiary(x, y)
<1>1. ScoredRun(u, o, v[1], x) /\ ScoredRun(w, p, v[1], y)  BY DEF Resumed
<1>2. SameTree(u, x) /\ SameTree(w, y) /\ x.splits = u.splits /\ y.splits = w.splits
      /\ x.round = u.round /\ y.round = w.round
      /\ x.pc = After(Len(u.trees), o) /\ y.pc = After(Len(w.trees), p)
  BY <1>1 DEF ScoredRun, MovedBut, SameReportBut
<1>3. SameCore(x, y)  BY <1>2 DEF SameTree, SameCore
<1>4. ASSUME o = p, SameDiary(u, w)
      PROVE  x.pc = y.pc /\ SameDiary(x, y)
  <2>1. x.pc = y.pc  BY <1>2, <1>4 DEF SameCore
  <2>2. x.best = y.best /\ x.metrics = y.metrics
    BY <1>1, <1>4 DEF ScoredRun, SameDiary, SameCore
  <2>3. x.stopped_early = Stale(u, x.best, o) /\ y.stopped_early = Stale(w, y.best, p)
        /\ x.stop_now = x.stopped_early /\ y.stop_now = y.stopped_early
    BY <1>1 DEF ScoredRun
  <2>4. Stale(u, x.best, o) = Stale(w, y.best, p)
    BY <2>2, <1>4 DEF Stale, SameCore
  <2>5. x.stopped_by_callback = y.stopped_by_callback /\ x.checkpoints = y.checkpoints
        /\ x.error = y.error
    BY <1>1, <1>4 DEF ScoredRun, MovedBut, SameReportBut, SameDiary
  <2> QED  BY <2>1, <2>2, <2>3, <2>4, <2>5 DEF SameDiary
<1> QED  BY <1>2, <1>3, <1>4 DEF After, Inner

\* Two ranks that read one verdict come out alike, unless one of them leaves; with equal
\* options both do.
LEMMA AfterAlike ==
    ASSUME NEW u \in RunRecord, NEW w \in RunRecord, u.pc = w.pc, u.pc = "after", SameCore(u, w),
           NEW o, NEW p, NEW v,
           NEW x, NEW y, Resumed(u, o, v, x), Resumed(w, p, v, y),
           x.pc \notin Lost, y.pc \notin Lost
    PROVE  /\ x.pc = y.pc \/ x.pc \in Ended \/ y.pc \in Ended
           /\ x.pc = y.pc => SameCore(x, y)
           /\ SameDiary(u, w) => x.pc = y.pc /\ SameDiary(x, y)
<1>1. v[1] # 2  BY DEF Resumed, FailedRun, MovedBut, Lost
<1>2. CASE v[1] = 1
  <2>1. StoppedRun(u, x) /\ StoppedRun(w, y)  BY <1>2 DEF Resumed
  <2> QED  BY <2>1 DEF StoppedRun, MovedBut, SameTree, SameReportBut, SameCore, SameDiary
<1>3. CASE v[1] # 1
  <2>1. /\ IF v[1] = 0 /\ u.stop_now THEN Moved(u, x, "returned") ELSE RoundRun(u, x)
        /\ IF v[1] = 0 /\ w.stop_now THEN Moved(w, y, "returned") ELSE RoundRun(w, y)
    BY <1>1, <1>3 DEF Resumed
  <2>2. SameTree(u, x) /\ SameTree(w, y) /\ x.splits = u.splits /\ y.splits = w.splits
    BY <2>1 DEF Moved, RoundRun, MovedBut
  <2>3. /\ \/ x.pc = "returned" /\ x.round = u.round
           \/ x.pc = "before" /\ x.round = u.round + 1
        /\ \/ y.pc = "returned" /\ y.round = w.round
           \/ y.pc = "before" /\ y.round = w.round + 1
    BY <2>1 DEF Moved, RoundRun, MovedBut, SameReport
  <2>4. x.pc = y.pc => SameCore(x, y)  BY <2>2, <2>3 DEF SameTree, SameCore
  <2>5. ASSUME SameDiary(u, w) PROVE x.pc = y.pc /\ SameDiary(x, y)
    <3>1. x.pc = y.pc
      BY <2>1, <2>5 DEF SameDiary, Moved, RoundRun, MovedBut, SameCore
    <3>2. SameDiary(u, x) /\ SameDiary(w, y)
      BY <2>1 DEF SameDiary, Moved, RoundRun, MovedBut, SameReport, SameReportBut
    <3> QED  BY <2>5, <3>1, <3>2 DEF SameDiary
  <2> QED  BY <2>3, <2>4, <2>5 DEF Ended
<1> QED  BY <1>2, <1>3

\* Ranks that are together stay so by one reduction.
LEMMA TogetherKept ==
    ASSUME NEW u \in RunRecord, NEW w \in RunRecord, u.pc = w.pc, u.pc \notin Ended,
           NEW o \in OptionRecord, NEW p \in OptionRecord, Together(u, o, w, p), NEW v,
           NEW x, NEW y, Resumed(u, o, v, x), Resumed(w, p, v, y)
    PROVE  Together(x, o, y, p)
<1> SUFFICES ASSUME x.pc \notin Lost, y.pc \notin Lost
             PROVE  /\ CloseBy(x.pc, y.pc)
                    /\ x.pc = y.pc => SameCore(x, y)
                    /\ o = p => SameRun(x, y)
  BY DEF Together
<1>1. u.pc \in Labels /\ u.pc \notin Lost  BY DEF RunRecord, Ended, Lost
<1>2. SameCore(u, w) /\ (o = p => SameDiary(u, w))
  BY <1>1 DEF Together, SameRun, SameDiary
<1>3. CASE u.pc \in {"histogram", "split"}
  <2>1. /\ x.pc = y.pc => SameCore(x, y)
        /\ o = p => x.pc = y.pc
        /\ {x.pc, y.pc} \subseteq Inner \union Ended
    BY <1>2, <1>3, GrowingAlike
  <2>2. SameDiary(u, x) /\ SameDiary(w, y)  BY <1>3, GrowingDiary
  <2> QED  BY <1>2, <2>1, <2>2 DEF SameDiary, SameRun, CloseBy
<1>4. CASE u.pc \in Steady
  <2>1. x.pc = y.pc /\ SameCore(x, y) /\ (SameDiary(u, w) => SameDiary(x, y))
    BY <1>2, <1>4, SteadyAlike
  <2> QED  BY <1>2, <2>1 DEF SameDiary, SameRun, CloseBy
<1>5. CASE u.pc = "metric"
  <2>1. /\ {x.pc, y.pc} \subseteq Inner /\ SameCore(x, y)
        /\ o = p /\ SameDiary(u, w) => x.pc = y.pc /\ SameDiary(x, y)
    BY <1>2, <1>5, MetricAlike
  <2> QED  BY <1>2, <2>1 DEF SameDiary, SameRun, CloseBy
<1>6. CASE u.pc = "after"
  <2>1. /\ x.pc = y.pc \/ x.pc \in Ended \/ y.pc \in Ended
        /\ x.pc = y.pc => SameCore(x, y)
        /\ SameDiary(u, w) => x.pc = y.pc /\ SameDiary(x, y)
    BY <1>2, <1>6, AfterAlike
  <2> QED  BY <1>2, <2>1 DEF SameDiary, SameRun, CloseBy
<1> QED  BY <1>1, <1>3, <1>4, <1>5, <1>6 DEF Labels, Looping, Steady

-----------------------------------------------------------------------------
(* A step of one rank.                                                     *)

\* The entries of c stand in d.
Within(c, d) == \A i \in 1 .. Len(c) : i \in 1 .. Len(d) /\ c[i] = d[i]

\* An ensemble only gains trees.
TreesGrow(u, w) == w.trees = u.trees \/ \E t \in Trees : w.trees = Append(u.trees, t)

\* Reading an answer takes back no tree and no checkpoint.
LEMMA OnlyGains ==
    ASSUME NEW u \in RunRecord, u.pc \notin Ended, NEW o, NEW v, NEW w, Resumed(u, o, v, w)
    PROVE  TreesGrow(u, w) /\ Within(u.checkpoints, w.checkpoints)
<1>0. u.pc \in Labels /\ u.checkpoints \in Seq(Seq(Trees)) /\ u.trees \in Seq(Trees)
  BY DEF RunRecord
<1>1. TreesGrow(u, w)
  <2>1. CASE u.pc \in {"histogram", "split"}
    BY <2>1, GrowingExtends DEF Extended, FailedRun, MovedBut, SameTree, TreesGrow
  <2>2. CASE u.pc \notin {"histogram", "split"}
    BY <2>2, OthersKeepTrees DEF SameTree, TreesGrow
  <2> QED  BY <2>1, <2>2
<1>2. Within(u.checkpoints, w.checkpoints)
  <2>1. CASE u.pc = "checkpoint"
    <3>1. w.checkpoints = Append(u.checkpoints, u.trees)
      BY <2>1 DEF Resumed, CheckpointedRun
    <3>2. /\ Len(u.checkpoints) \in Nat /\ Len(w.checkpoints) = Len(u.checkpoints) + 1
          /\ \A i \in 1 .. Len(u.checkpoints) : w.checkpoints[i] = u.checkpoints[i]
      BY <1>0, <3>1, AppendProperties
    <3> QED  BY <3>2 DEF Within
  <2>2. CASE u.pc \in {"histogram", "split"}
    <3>1. w.checkpoints = u.checkpoints
      BY <2>2, GrowingExtends DEF Extended, SameReport, FailedRun, MovedBut, SameReportBut
    <3> QED  BY <3>1 DEF Within
  <2>3. CASE u.pc \notin {"histogram", "split", "checkpoint"}
    <3>1. w.checkpoints = u.checkpoints
      BY <1>0, <2>3 DEF Resumed, Moved, MovedBut, FailedRun, StoppedRun, ScoredRun, RoundRun,
                   Labels, Looping, Ended, SameReport, SameReportBut
    <3> QED  BY <3>1 DEF Within
  <2> QED  BY <2>1, <2>2, <2>3
<1> QED  BY <1>1, <1>2

\* The options a rank may be given are records of the fields it reads.
LEMMA OptionsAreTyped == Options \subseteq OptionRecord
BY OptionsAssumption DEF OptionRecord

\* What is known of the state a rank is bound for.
LEMMA BoundIs ==
    ASSUME NEW u, NEW o \in OptionRecord, NEW call, NEW a, LocalInv(u, o, call, a)
    PROVE  /\ RankInv(BoundOf(u, o, a), o)
           /\ Within(u.checkpoints, BoundOf(u, o, a).checkpoints)
           /\ TreesGrow(u, BoundOf(u, o, a))
<1>1. CASE a.status = "ok"
  <2>1. a # NoAnswer /\ a # Failed  BY <1>1 DEF NoAnswer, Failed
  <2>2. u.pc \notin Ended /\ Readable(u, a.value)  BY <2>1 DEF LocalInv, AnswerIs
  <2>3. u \in RunRecord /\ Growing(u) /\ RankInv(u, o)  BY DEF LocalInv, RankInv
  <2>4. BoundOf(u, o, a) = ResumeOf(u, o, a.value)  BY <1>1 DEF BoundOf
  <2>5. Resumed(u, o, a.value, ResumeOf(u, o, a.value))  BY <2>2, <2>3, ResumeIs
  <2> QED  BY <2>2, <2>3, <2>4, <2>5, RankInvKept, OnlyGains
<1>2. CASE a.status # "ok"
  <2>1. BoundOf(u, o, a) = u  BY <1>2 DEF BoundOf
  <2> QED  BY <2>1 DEF LocalInv, Within, TreesGrow
<1> QED  BY <1>1, <1>2

\* Two ranks that are together are when they have stood or left.
LEMMA TogetherStands ==
    ASSUME NEW u, NEW w, NEW o, NEW p, Together(u, o, w, p),
           NEW x, NEW y, x.pc \in Lost \/ SameRun(u, x), y.pc \in Lost \/ SameRun(w, y)
    PROVE  Together(x, o, y, p)
BY DEF Together, SameRun, SameCore, CloseBy

\* A checkpoint of what a rank had grown stays one while it grows.
LEMMA PrefixStands ==
    ASSUME NEW c \in Seq(Trees), NEW u \in RunRecord, NEW w, TreesGrow(u, w), IsPrefix(c, u.trees)
    PROVE  IsPrefix(c, w.trees)
<1>1. u.trees \in Seq(Trees)  BY DEF RunRecord
<1> QED  BY <1>1, PrefixOfAppended DEF TreesGrow

\* A step of one rank keeps the invariant if it stays bound for the same state or leaves the
\* world.
LEMMA OneRankMoves ==
    ASSUME IInv, NEW r \in Ranks, options' = options, rows' = rows, Shaped',
           \A q \in Ranks \ {r} : run'[q] = run[q] /\ offer'[q] = offer[q] /\ answer'[q] = answer[q],
           LocalInv(run'[r], options[r], offer'[r], answer'[r]),
           \/ BoundOf(run'[r], options[r], answer'[r]).pc \in Lost
           \/ SameRun(Bound(r), BoundOf(run'[r], options[r], answer'[r])),
           Within(BoundOf(run'[r], options[r], answer'[r]).checkpoints, Bound(r).checkpoints),
           TreesGrow(run[r], run'[r])
    PROVE  IInv'
<1>1. Given'  BY DEF IInv, Given
<1>2. \A q \in Ranks : LocalInv(run'[q], options'[q], offer'[q], answer'[q])
  BY DEF IInv
<1> DEFINE next(q) == BoundOf(run'[q], options[q], answer'[q])
<1>3. \A q \in Ranks : Bound(q)' = next(q)
  BY DEF Bound
<1>4. \A q \in Ranks : next(q).pc \in Lost \/ SameRun(Bound(q), next(q))
  BY DEF Bound, SameRun, SameCore
<1>5. \A q \in Ranks : Within(next(q).checkpoints, Bound(q).checkpoints)
  BY DEF Bound, Within
<1>6. \A q \in Ranks : TreesGrow(run[q], run'[q])
  BY DEF TreesGrow
<1> HIDE DEF next
<1>7. Twins'
  <2>1. ASSUME NEW p \in Ranks, NEW q \in Ranks
        PROVE  Together(next(p), options[p], next(q), options[q])
    <3>1. Together(Bound(p), options[p], Bound(q), options[q])  BY DEF IInv, Twins
    <3> QED  BY <1>4, <3>1, TogetherStands
  <2>2. \A p, q \in Ranks : Together(Bound(p)', options'[p], Bound(q)', options'[q])
    BY <1>3, <2>1
  <2> QED  BY <2>2 DEF Twins
<1>8. WorldWide'
  <2>1. ASSUME NEW p \in Ranks, NEW q \in Ranks, NEW i \in 1 .. Len(next(p).checkpoints)
        PROVE  IsPrefix(next(p).checkpoints[i], run'[q].trees)
    <3>1. i \in 1 .. Len(Bound(p).checkpoints) /\ next(p).checkpoints[i] = Bound(p).checkpoints[i]
      BY <1>5 DEF Within
    <3>2. IsPrefix(Bound(p).checkpoints[i], run[q].trees)
      BY <3>1 DEF IInv, WorldWide
    <3>3. options[p] \in OptionRecord  BY OptionsAreTyped DEF IInv, Given
    <3>4. LocalInv(run[p], options[p], offer[p], answer[p])
          /\ LocalInv(run[q], options[q], offer[q], answer[q])
      BY DEF IInv
    <3>5. Bound(p) \in RunRecord  BY <3>3, <3>4, BoundIs DEF Bound, RankInv
    <3>6. Bound(p).checkpoints[i] \in Seq(Trees)
      <4>1. Bound(p).checkpoints \in Seq(Seq(Trees))  BY <3>5 DEF RunRecord
      <4> QED  BY <3>1, <4>1
    <3>7. run[q] \in RunRecord  BY <3>4 DEF LocalInv, RankInv
    <3> QED  BY <1>6, <3>1, <3>2, <3>6, <3>7, PrefixStands
  <2>2. \A p, q \in Ranks : \A i \in 1 .. Len(Bound(p)'.checkpoints) :
          IsPrefix(Bound(p)'.checkpoints[i], run'[q].trees)
    BY <1>3, <2>1
  <2> QED  BY <2>2 DEF WorldWide
<1> QED  BY <1>1, <1>2, <1>7, <1>8 DEF IInv

\* An update of a function at one rank.
LEMMA PointUpdate ==
    ASSUME NEW f, DOMAIN f = Ranks, NEW r \in Ranks, NEW x
    PROVE  /\ DOMAIN [f EXCEPT ![r] = x] = Ranks /\ [f EXCEPT ![r] = x][r] = x
           /\ \A q \in Ranks \ {r} : [f EXCEPT ![r] = x][q] = f[q]
OBVIOUS

\* A call may be entered that is of the right kind.
FitsCall(u, op, payload) ==
    /\ <<op, Len(payload)>> = ShapeOf(u.pc)
    /\ u.pc \in {"histogram", "metric"} => payload[1] \in 0 .. 1
    /\ u.pc \in {"before", "after"} => payload[1] \in 0 .. 2
    /\ u.pc = "split" => payload = EqualInts(SplitOf(u)) \o EqualInts(0)

\* Entering a collective keeps the invariant: a rank waiting is bound for where it stands.
LEMMA EnteringKeeps ==
    ASSUME IInv, NEW r \in Ranks, Ready(r), NEW op, NEW payload, Enter(r, op, payload),
           FitsCall(run[r], op, payload), DOMAIN run' = Ranks,
           \A q \in Ranks \ {r} : run'[q] = run[q],
           RankInv(run'[r], options[r]), SameRun(run[r], run'[r])
    PROVE  IInv'
<1>1. Shaped /\ options' = options /\ rows' = rows /\ answer' = answer
  BY DEF IInv, Enter
<1>2. PICK call : call = [what |-> What(run[r]), op |-> op, payload |-> payload]
  OBVIOUS
<1>3. offer' = [offer EXCEPT ![r] = call]  BY <1>2 DEF Enter
<1>4. DOMAIN offer' = Ranks /\ offer'[r] = call /\ \A q \in Ranks \ {r} : offer'[q] = offer[q]
  BY <1>1, <1>3, PointUpdate DEF Shaped
<1>5. answer[r] = NoAnswer /\ run[r].pc \notin Ended  BY DEF Ready, Gone
<1>6. run'[r].pc = run[r].pc /\ SameCore(run[r], run'[r])  BY DEF SameRun
<1>7. What(run'[r]) = What(run[r]) /\ SplitOf(run'[r]) = SplitOf(run[r])
  BY <1>6 DEF What, SplitOf, SameCore
<1>8. OfferIs(run'[r], offer'[r], answer'[r])
  BY <1>1, <1>2, <1>4, <1>5, <1>6, <1>7 DEF OfferIs, FitsCall, Shape
<1>9. AnswerIs(run'[r], answer'[r])  BY <1>1, <1>5 DEF AnswerIs
<1>10. answer[r].status # "ok"  BY <1>5 DEF NoAnswer
<1>11. Bound(r) = run[r] /\ BoundOf(run'[r], options[r], answer'[r]) = run'[r]
  BY <1>1, <1>10 DEF Bound, BoundOf
<1>12. run'[r].checkpoints = run[r].checkpoints /\ run'[r].trees = run[r].trees
  BY DEF SameRun, SameCore
<1>13. Within(run'[r].checkpoints, run[r].checkpoints) /\ TreesGrow(run[r], run'[r])
  BY <1>12 DEF Within, TreesGrow
<1>14. LocalInv(run'[r], options[r], offer'[r], answer'[r])
  BY <1>8, <1>9 DEF LocalInv
<1>15. Shaped'  BY <1>1, <1>4 DEF Shaped
<1> QED
  BY <1>1, <1>4, <1>11, <1>13, <1>14, <1>15, OneRankMoves

\* The operation and length of each call of the driver.
LEMMA ShapesAre ==
    /\ ShapeOf("config") = <<"max", 2>> /\ ShapeOf("targets") = <<"max", N>>
    /\ ShapeOf("counts") = <<"sum_int", N>> /\ ShapeOf("rows") = <<"max", N>>
    /\ ShapeOf("base") = <<"sum", 2>> /\ ShapeOf("before") = <<"max", 1>>
    /\ ShapeOf("histogram") = <<"sum", 3>> /\ ShapeOf("split") = <<"max", 4>>
    /\ ShapeOf("metric") = <<"sum", 2>> /\ ShapeOf("checkpoint") = <<"barrier", 0>>
    /\ ShapeOf("after") = <<"max", 1>>
BY DEF ShapeOf

\* The length of what a rank contributes to each call.
LEMMA PayloadsAre ==
    ASSUME NEW r \in Ranks, NEW v, NEW y, NEW z
    PROVE  /\ Len(EqualInts(v)) = 2 /\ Len(OwnSlot(r, v)) = N
           /\ Len(EqualInts(v) \o EqualInts(y)) = 4
           /\ Len(<<v>>) = 1 /\ Len(<<v, y>>) = 2 /\ Len(<<v, y, z>>) = 3 /\ Len(<<>>) = 0
<1>1. Len(EqualInts(v)) = 2 /\ Len(EqualInts(y)) = 2  BY DEF EqualInts
<1>2. PICK S : S = {v, -v, y, -y}  OBVIOUS
<1>3. EqualInts(v) \in Seq(S) /\ EqualInts(y) \in Seq(S)  BY <1>2 DEF EqualInts
<1>30. PICK a \in Seq(S), b \in Seq(S) : a = EqualInts(v) /\ b = EqualInts(y)  BY <1>3
<1>31. Len(a) = 2 /\ Len(b) = 2 /\ Len(a \o b) = Len(a) + Len(b)
  BY <1>1, <1>30, ConcatProperties
<1>4. Len(EqualInts(v) \o EqualInts(y)) = 4  BY <1>30, <1>31
<1>5. DOMAIN OwnSlot(r, v) = 1 .. N /\ N \in Nat  BY RanksAreFinite DEF OwnSlot
<1>6. Len(OwnSlot(r, v)) = N
  <2>1. OwnSlot(r, v) \in Seq({v, 0})  BY <1>5 DEF OwnSlot
  <2> QED  BY <1>5, <2>1, LenProperties
<1> QED  BY <1>1, <1>4, <1>6

\* A rank that enters with its locals as they are.
LEMMA EnteringPlain ==
    ASSUME IInv, NEW r \in Ranks, Ready(r), NEW op, NEW payload, Enter(r, op, payload),
           FitsCall(run[r], op, payload), run' = run
    PROVE  IInv'
<1>1. DOMAIN run' = Ranks /\ RankInv(run'[r], options[r])  BY DEF IInv, Shaped, LocalInv
<1>2. SameRun(run[r], run'[r])  BY DEF SameRun, SameCore
<1> QED  BY <1>1, <1>2, EnteringKeeps

\* Entering a call before the first round keeps the invariant.
LEMMA EnterOpeningKeeps ==
    ASSUME IInv, NEW r \in Ranks, EnterOpening(r)
    PROVE  IInv'
<1>1. Ready(r) /\ run' = run  BY DEF EnterOpening
<1>2. CASE run[r].pc = "config" /\ \E v \in 0 .. 1 : Enter(r, "max", EqualInts(v))
  <2>1. PICK v \in 0 .. 1 : Enter(r, "max", EqualInts(v))  BY <1>2
  <2>2. FitsCall(run[r], "max", EqualInts(v))  BY <1>2, ShapesAre, PayloadsAre DEF FitsCall
  <2> QED  BY <1>1, <2>1, <2>2, EnteringPlain
<1>3. CASE run[r].pc = "targets" /\ \E s \in 0 .. 1 : Enter(r, "max", OwnSlot(r, s))
  <2>1. PICK s \in 0 .. 1 : Enter(r, "max", OwnSlot(r, s))  BY <1>3
  <2>2. FitsCall(run[r], "max", OwnSlot(r, s))  BY <1>3, ShapesAre, PayloadsAre DEF FitsCall
  <2> QED  BY <1>1, <2>1, <2>2, EnteringPlain
<1>4. CASE run[r].pc = "counts" /\ Enter(r, "sum_int", OwnSlot(r, rows[r]))
  <2>2. FitsCall(run[r], "sum_int", OwnSlot(r, rows[r]))
    BY <1>4, ShapesAre, PayloadsAre DEF FitsCall
  <2> QED  BY <1>1, <1>4, <2>2, EnteringPlain
<1>5. CASE run[r].pc = "rows" /\ Enter(r, "max", OwnSlot(r, 0))
  <2>2. FitsCall(run[r], "max", OwnSlot(r, 0))
    BY <1>5, ShapesAre, PayloadsAre DEF FitsCall
  <2> QED  BY <1>1, <1>5, <2>2, EnteringPlain
<1>6. CASE run[r].pc = "base" /\ Enter(r, "sum", <<0, rows[r]>>)
  <2>2. FitsCall(run[r], "sum", <<0, rows[r]>>)
    BY <1>6, ShapesAre, PayloadsAre DEF FitsCall
  <2> QED  BY <1>1, <1>6, <2>2, EnteringPlain
<1> QED  BY <1>2, <1>3, <1>4, <1>5, <1>6 DEF EnterOpening

\* Entering a call inside a round keeps the invariant.
LEMMA EnterLoopKeeps ==
    ASSUME IInv, NEW r \in Ranks,
           EnterHistogram(r) \/ EnterSplit(r) \/ EnterMetric(r) \/ EnterCheckpoint(r)
    PROVE  IInv'
<1>0. rows[r] \in 0 .. 1  BY DEF IInv, Given
<1>1. CASE EnterHistogram(r)
  <2>1. PICK h \in 0 .. rows[r] : Enter(r, "sum", <<h, rows[r], 0>>)  BY <1>1 DEF EnterHistogram
  <2>2. Ready(r) /\ run' = run /\ run[r].pc = "histogram"  BY <1>1 DEF EnterHistogram
  <2>3. h \in 0 .. 1  BY <1>0
  <2>4. FitsCall(run[r], "sum", <<h, rows[r], 0>>)
    BY <2>2, <2>3, ShapesAre, PayloadsAre DEF FitsCall
  <2> QED  BY <2>1, <2>2, <2>4, EnteringPlain
<1>2. CASE EnterSplit(r)
  <2>2. Ready(r) /\ run' = run /\ run[r].pc = "split"
        /\ Enter(r, "max", EqualInts(SplitOf(run[r])) \o EqualInts(0))
    BY <1>2 DEF EnterSplit
  <2>4. FitsCall(run[r], "max", EqualInts(SplitOf(run[r])) \o EqualInts(0))
    BY <2>2, ShapesAre, PayloadsAre DEF FitsCall
  <2> QED  BY <2>2, <2>4, EnteringPlain
<1>3. CASE EnterMetric(r)
  <2>1. PICK h \in 0 .. rows[r] : Enter(r, "sum", <<h, rows[r]>>)  BY <1>3 DEF EnterMetric
  <2>2. Ready(r) /\ run' = run /\ run[r].pc = "metric"  BY <1>3 DEF EnterMetric
  <2>3. h \in 0 .. 1  BY <1>0
  <2>4. FitsCall(run[r], "sum", <<h, rows[r]>>)
    BY <2>2, <2>3, ShapesAre, PayloadsAre DEF FitsCall
  <2> QED  BY <2>1, <2>2, <2>4, EnteringPlain
<1>4. CASE EnterCheckpoint(r)
  <2>2. Ready(r) /\ run' = run /\ run[r].pc = "checkpoint" /\ Enter(r, "barrier", <<>>)
    BY <1>4 DEF EnterCheckpoint
  <2>4. FitsCall(run[r], "barrier", <<>>)
    BY <2>2, ShapesAre, PayloadsAre DEF FitsCall
  <2> QED  BY <2>2, <2>4, EnteringPlain
<1> QED  BY <1>1, <1>2, <1>3, <1>4

\* A rank that leaves takes nothing from the others.
LEMMA LosingKeeps ==
    ASSUME IInv, NEW r \in Ranks, options' = options, rows' = rows, Shaped',
           \A q \in Ranks \ {r} : run'[q] = run[q] /\ offer'[q] = offer[q] /\ answer'[q] = answer[q],
           offer'[r] = NoCall, answer'[r] = NoAnswer,
           RankInv(run'[r], options[r]), run'[r].pc \in Lost,
           run'[r].trees = run[r].trees, run'[r].checkpoints = run[r].checkpoints
    PROVE  IInv'
<1>1. LocalInv(run'[r], options[r], offer'[r], answer'[r])
  BY DEF LocalInv, OfferIs, AnswerIs
<1>2. BoundOf(run'[r], options[r], answer'[r]) = run'[r]
  BY DEF BoundOf, NoAnswer
<1>3. options[r] \in OptionRecord /\ LocalInv(run[r], options[r], offer[r], answer[r])
  BY OptionsAreTyped DEF IInv, Given
<1>4. Within(run[r].checkpoints, Bound(r).checkpoints)
  BY <1>3, BoundIs DEF Bound
<1>5. TreesGrow(run[r], run'[r])  BY DEF TreesGrow
<1>6. Within(run'[r].checkpoints, Bound(r).checkpoints)  BY <1>4
<1> QED  BY <1>1, <1>2, <1>5, <1>6, OneRankMoves

\* A verdict that does not raise is one of the three codes.
LEMMA CodesAre ==
    ASSUME NEW v \in VerdictKinds, v # "raise"
    PROVE  Codes[v] \in 0 .. 2
BY DEF VerdictKinds, Codes

\* Asking the callbacks and agreeing on their verdict keeps the invariant.
LEMMA EnterVerdictKeeps ==
    ASSUME IInv, NEW r \in Ranks, EnterVerdict(r)
    PROVE  IInv'
<1>0. options[r] \in OptionRecord /\ LocalInv(run[r], options[r], offer[r], answer[r])
      /\ RankInv(run[r], options[r]) /\ Shaped
  BY OptionsAreTyped DEF IInv, Given, LocalInv
<1>1. Ready(r) /\ run[r].pc \in {"before", "after"}  BY DEF EnterVerdict
<1>2. PICK v \in Verdicts :
        \/ /\ v # "raise"
           /\ Enter(r, "max", <<Codes[v]>>)
           /\ SetRun(r, [run[r] EXCEPT !.reset = (v = "reset")])
        \/ /\ v = "raise"
           /\ SetRun(r, Fails(run[r], "callback_raised"))
           /\ UNCHANGED <<options, rows, offer, answer>>
  BY DEF EnterVerdict
<1>3. CASE v # "raise"
  <2>1. Enter(r, "max", <<Codes[v]>>)  BY <1>2, <1>3
  <2>2. PICK b \in BOOLEAN : b = (v = "reset")  OBVIOUS
  <2>3. PICK w : w = [run[r] EXCEPT !.reset = b]  OBVIOUS
  <2>4. run' = [run EXCEPT ![r] = w]  BY <1>2, <1>3, <2>2, <2>3 DEF SetRun
  <2>5. /\ DOMAIN run' = Ranks /\ run'[r] = w
        /\ \A q \in Ranks \ {r} : run'[q] = run[q]
    BY <1>0, <2>4, PointUpdate DEF Shaped
  <2>6. RankInv(w, options[r])  BY <1>0, <2>3, ResettingKeeps
  <2>7. SameRun(run[r], w)
    BY <1>0, <2>3 DEF RankInv, RunRecord, SameRun, SameCore
  <2>8. Codes[v] \in 0 .. 2  BY <1>3, CodesAre, EnvironmentAssumption
  <2>9. FitsCall(run[r], "max", <<Codes[v]>>)
    BY <1>1, <2>8, ShapesAre, PayloadsAre DEF FitsCall
  <2> QED  BY <1>1, <2>1, <2>5, <2>6, <2>7, <2>9, EnteringKeeps
<1>4. CASE v = "raise"
  <2>1. PICK w : w = Fails(run[r], "callback_raised")  OBVIOUS
  <2>2. run' = [run EXCEPT ![r] = w] /\ UNCHANGED <<options, rows, offer, answer>>
    BY <1>2, <1>4, <2>1 DEF SetRun
  <2>3. /\ DOMAIN run' = Ranks /\ run'[r] = w
        /\ \A q \in Ranks \ {r} : run'[q] = run[q]
    BY <1>0, <2>2, PointUpdate DEF Shaped
  <2>4. run[r].pc \notin Ended /\ answer[r] = NoAnswer /\ offer[r] = NoCall
    BY <1>1 DEF Ready, Gone, Waiting
  <2>5. RankInv(w, options[r])
    BY <1>0, <2>1, <2>4, FailingKeeps, ErrorNames
  <2>6. w.pc \in Lost /\ w.trees = run[r].trees /\ w.checkpoints = run[r].checkpoints
    <3>1. FailedRun(run[r], w, "callback_raised")
      BY <1>0, <2>1, FailsIs, ErrorNames DEF RankInv
    <3> QED  BY <3>1 DEF FailedRun, MovedBut, SameTree, SameReportBut, Lost
  <2>7. Shaped'  BY <1>0, <2>2, <2>3 DEF Shaped
  <2> QED  BY <2>2, <2>3, <2>4, <2>5, <2>6, <2>7, LosingKeeps
<1> QED  BY <1>3, <1>4

\* The calls and answers of a rank that leaves go with it.
LEMMA LeavingWorld ==
    ASSUME IInv, NEW r \in Ranks, NEW w, RankInv(w, options[r]), w.pc \in Lost,
           w.trees = run[r].trees, w.checkpoints = run[r].checkpoints,
           run' = [run EXCEPT ![r] = w], offer' = [offer EXCEPT ![r] = NoCall],
           answer' = [answer EXCEPT ![r] = NoAnswer], UNCHANGED <<options, rows>>
    PROVE  IInv'
<1>1. Shaped  BY DEF IInv
<1>2. /\ DOMAIN run' = Ranks /\ run'[r] = w
      /\ \A q \in Ranks \ {r} : run'[q] = run[q]
  BY <1>1, PointUpdate DEF Shaped
<1>3. /\ DOMAIN offer' = Ranks /\ offer'[r] = NoCall
      /\ \A q \in Ranks \ {r} : offer'[q] = offer[q]
  BY <1>1, PointUpdate DEF Shaped
<1>4. /\ DOMAIN answer' = Ranks /\ answer'[r] = NoAnswer
      /\ \A q \in Ranks \ {r} : answer'[q] = answer[q]
  BY <1>1, PointUpdate DEF Shaped
<1>5. Shaped'  BY <1>2, <1>3, <1>4 DEF Shaped
<1> QED  BY <1>2, <1>3, <1>4, <1>5, LosingKeeps

\* A rank that raises is lost to the world and keeps what it has grown.
LEMMA FailingIs ==
    ASSUME NEW u, NEW o \in OptionRecord, RankInv(u, o), u.pc \notin Ended,
           NEW e \in Errors, e # "none"
    PROVE  /\ RankInv(Fails(u, e), o) /\ Fails(u, e).pc \in Lost
           /\ Fails(u, e).trees = u.trees /\ Fails(u, e).checkpoints = u.checkpoints
           /\ Fails(u, e).reset = u.reset /\ Fails(u, e).error = e /\ Fails(u, e).pc = "raised"
<1>1. FailedRun(u, Fails(u, e), e)  BY FailsIs DEF RankInv
<1>2. RankInv(Fails(u, e), o)  BY FailingKeeps
<1> QED  BY <1>1, <1>2 DEF FailedRun, MovedBut, SameTree, SameReportBut, Lost

\* A collective failing under a rank keeps the invariant.
LEMMA LoseKeeps ==
    ASSUME IInv, NEW r \in Ranks, Lose(r)
    PROVE  IInv'
<1>0. options[r] \in OptionRecord /\ LocalInv(run[r], options[r], offer[r], answer[r])
      /\ RankInv(run[r], options[r])
  BY OptionsAreTyped DEF IInv, Given, LocalInv
<1>1. Waiting(r) \/ answer[r] # NoAnswer  BY DEF Lose
<1>2. run[r].pc \notin Ended
  BY <1>0, <1>1 DEF LocalInv, OfferIs, AnswerIs, Waiting
<1>3. PICK w : w = Fails(run[r], "collective_failed")  OBVIOUS
<1>4. run' = [run EXCEPT ![r] = w] /\ offer' = [offer EXCEPT ![r] = NoCall]
      /\ answer' = [answer EXCEPT ![r] = NoAnswer] /\ UNCHANGED <<options, rows>>
  BY <1>3 DEF Lose, SetRun
<1>5. RankInv(w, options[r]) /\ w.pc \in Lost /\ w.trees = run[r].trees
      /\ w.checkpoints = run[r].checkpoints
  BY <1>0, <1>2, <1>3, FailingIs, ErrorNames
<1> QED  BY <1>4, <1>5, LeavingWorld

\* A crash keeps the invariant.
LEMMA CrashKeeps ==
    ASSUME IInv, NEW r \in Ranks, Crash(r)
    PROVE  IInv'
<1>0. options[r] \in OptionRecord /\ RankInv(run[r], options[r])
  BY OptionsAreTyped DEF IInv, Given, LocalInv
<1>2. run[r].pc \notin Ended  BY DEF Crash, Gone
<1>3. PICK w : w = [run[r] EXCEPT !.pc = "crashed"]  OBVIOUS
<1>4. run' = [run EXCEPT ![r] = w] /\ offer' = [offer EXCEPT ![r] = NoCall]
      /\ answer' = [answer EXCEPT ![r] = NoAnswer] /\ UNCHANGED <<options, rows>>
  BY <1>3 DEF Crash, SetRun
<1>5. RankInv(w, options[r])  BY <1>0, <1>2, <1>3, CrashingKeeps
<1>6. w.pc \in Lost /\ w.trees = run[r].trees /\ w.checkpoints = run[r].checkpoints
  BY <1>0, <1>3 DEF RankInv, RunRecord, Lost
<1> QED  BY <1>4, <1>5, <1>6, LeavingWorld

\* Reading goes where the rank was bound for.
LEMMA ReadingIs ==
    ASSUME NEW r, NEW v
    PROVE  Resume(r, v) = ResumeOf(run[r], options[r], v)
BY DEF Resume, ResumeOf, AllFine

\* Reading an answer keeps the invariant: the rank arrives where it was bound for.
LEMMA ReadKeeps ==
    ASSUME IInv, NEW r \in Ranks, Read(r)
    PROVE  IInv'
<1>0. options[r] \in OptionRecord /\ LocalInv(run[r], options[r], offer[r], answer[r])
      /\ RankInv(run[r], options[r]) /\ Shaped
  BY OptionsAreTyped DEF IInv, Given, LocalInv
<1>1. answer[r] # NoAnswer /\ run[r].pc \notin Ended /\ offer[r] = NoCall
  BY <1>0 DEF Read, LocalInv, AnswerIs, OfferIs
<1>2. PICK w : w = IF answer[r] = Failed THEN Fails(run[r], "collective_failed")
                   ELSE Resume(r, answer[r].value)
  OBVIOUS
<1>3. run' = [run EXCEPT ![r] = w] /\ answer' = [answer EXCEPT ![r] = NoAnswer]
      /\ UNCHANGED <<options, rows, offer>>
  BY <1>2 DEF Read, SetRun
<1>4. /\ DOMAIN run' = Ranks /\ run'[r] = w
      /\ \A q \in Ranks \ {r} : run'[q] = run[q]
  BY <1>0, <1>3, PointUpdate DEF Shaped
<1>5. /\ DOMAIN answer' = Ranks /\ answer'[r] = NoAnswer
      /\ \A q \in Ranks \ {r} : answer'[q] = answer[q]
  BY <1>0, <1>3, PointUpdate DEF Shaped
<1>6. Shaped'  BY <1>0, <1>3, <1>4, <1>5 DEF Shaped
<1>7. CASE answer[r] = Failed
  <2>1. w = Fails(run[r], "collective_failed")  BY <1>2, <1>7
  <2>2. RankInv(w, options[r]) /\ w.pc \in Lost /\ w.trees = run[r].trees
        /\ w.checkpoints = run[r].checkpoints
    BY <1>0, <1>1, <2>1, FailingIs, ErrorNames
  <2> QED  BY <1>1, <1>3, <1>4, <1>5, <1>6, <2>2, LosingKeeps
<1>8. CASE answer[r] # Failed
  <2>1. answer[r].status = "ok" /\ Readable(run[r], answer[r].value)
    BY <1>0, <1>1, <1>8 DEF LocalInv, AnswerIs
  <2>2. w = Bound(r)  BY <1>2, <1>8, <2>1, ReadingIs DEF Bound, BoundOf
  <2>3. RankInv(w, options[r]) /\ TreesGrow(run[r], w)
    BY <1>0, <2>2, BoundIs DEF Bound
  <2>4. BoundOf(w, options[r], NoAnswer) = w  BY DEF BoundOf, NoAnswer
  <2>5. SameRun(w, w) /\ Within(w.checkpoints, w.checkpoints)
    BY DEF SameRun, SameCore, Within
  <2>6. LocalInv(w, options[r], offer[r], NoAnswer)
    BY <1>1, <2>3 DEF LocalInv, OfferIs, AnswerIs
  <2>7. offer'[r] = offer[r] /\ \A q \in Ranks \ {r} : offer'[q] = offer[q]
    BY <1>3
  <2> QED
    BY <1>3, <1>4, <1>5, <1>6, <2>2, <2>3, <2>4, <2>5, <2>6, <2>7, OneRankMoves
<1> QED  BY <1>7, <1>8

-----------------------------------------------------------------------------
(* A meeting.                                                              *)

\* The shapes of the calls of a round tell them apart.
LEMMA ShapesTell ==
    ASSUME NEW a \in Inner, NEW b \in Inner, ShapeOf(a) = ShapeOf(b)
    PROVE  a = b
BY ShapesAre DEF Inner

\* Of verdicts the worst is a verdict.
LEMMA MaximumOfCodes ==
    ASSUME NEW f \in [Ranks -> 0 .. 2]
    PROVE  Maximum(f) \in 0 .. 2
<1> DEFINE S == {f[r] : r \in Ranks}
           gaps == {2 - x : x \in S}
<1>1. Range(f) = S  BY DEF Range
<1>2. 0 \in Ranks  BY RanksAreFinite DEF Ranks
<1>3. S \subseteq 0 .. 2 /\ S # {}  BY <1>2
<1> HIDE DEF S
<1>31. \A x \in S : 2 - x \in Nat  BY <1>3
<1>4. gaps \subseteq Nat /\ gaps # {}  BY <1>3, <1>31
<1>5. PICK g \in gaps : \A h \in gaps : g <= h  BY <1>4, LeastNatural
<1>6. PICK m \in S : g = 2 - m  BY <1>5
<1>7. \A x \in S : x <= m
  <2> TAKE x \in S
  <2>1. 2 - m <= 2 - x  BY <1>5, <1>6
  <2>2. m \in Int /\ x \in Int  BY <1>3
  <2> QED  BY <2>1, <2>2
<1>8. \E n \in S : \A x \in S : x <= n  BY <1>7
<1>9. Maximum(f) = CHOOSE n \in S : \A x \in S : x <= n  BY <1>1 DEF Maximum
<1>10. Maximum(f) \in S  BY <1>8, <1>9
<1> QED  BY <1>3, <1>10

\* Only the checkpoint's barrier records a checkpoint.
LEMMA CheckpointsStand ==
    ASSUME NEW u \in RunRecord, u.pc \notin Ended, u.pc # "checkpoint", NEW o, NEW v, NEW w,
           Resumed(u, o, v, w)
    PROVE  w.checkpoints = u.checkpoints
<1>0. u.pc \in Labels  BY DEF RunRecord
<1>1. CASE u.pc \in {"histogram", "split"}
  BY <1>1, GrowingExtends DEF Extended, SameReport, FailedRun, MovedBut, SameReportBut
<1>2. CASE u.pc \notin {"histogram", "split"}
  BY <1>0, <1>2 DEF Resumed, Moved, MovedBut, FailedRun, StoppedRun, ScoredRun, RoundRun,
               Labels, Looping, Ended, SameReport, SameReportBut
<1> QED  BY <1>1, <1>2

\* A rank that waits is bound for where it is.
LEMMA WaitingIs ==
    ASSUME IInv, NEW r \in Ranks, Waiting(r)
    PROVE  /\ answer[r] = NoAnswer /\ run[r].pc \notin Ended /\ Bound(r) = run[r]
           /\ offer[r].what = What(run[r]) /\ Shape(offer[r]) = ShapeOf(run[r].pc)
           /\ run[r].pc \in {"histogram", "metric"} => offer[r].payload[1] \in 0 .. 1
           /\ run[r].pc \in {"before", "after"} => offer[r].payload[1] \in 0 .. 2
           /\ run[r].pc = "split" =>
                offer[r].payload = EqualInts(SplitOf(run[r])) \o EqualInts(0)
<1>1. OfferIs(run[r], offer[r], answer[r])  BY DEF IInv, LocalInv
<1>2. offer[r] # NoCall  BY DEF Waiting
<1>3. answer[r] = NoAnswer /\ answer[r].status # "ok"  BY <1>1, <1>2 DEF OfferIs, NoAnswer
<1> QED  BY <1>1, <1>2, <1>3 DEF OfferIs, Bound, BoundOf

\* A world that meets in calls of one shape meets in one call.
LEMMA OneShapeIsOneCall ==
    ASSUME IInv, \A r \in Ranks : Waiting(r), OneShape, NEW r \in Ranks, NEW q \in Ranks
    PROVE  run[r].pc = run[q].pc /\ SameCore(run[r], run[q])
<1>1. Together(run[r], options[r], run[q], options[q])
  BY WaitingIs DEF IInv, Twins
<1>2. run[r].pc \notin Ended /\ run[q].pc \notin Ended  BY WaitingIs
<1>3. ShapeOf(run[r].pc) = ShapeOf(run[q].pc)
  BY WaitingIs DEF OneShape
<1>4. CloseBy(run[r].pc, run[q].pc) /\ (run[r].pc = run[q].pc => SameCore(run[r], run[q]))
  BY <1>1, <1>2 DEF Together, Ended, Lost
<1> QED  BY <1>2, <1>3, <1>4, ShapesTell DEF CloseBy

\* The reduction of what all ranks entered is an answer each of them can read.
LEMMA ReductionIs ==
    ASSUME IInv, \A r \in Ranks : Waiting(r), OneShape, NEW r \in Ranks
    PROVE  Readable(run[r], Reduction)
<1>0. 0 \in Ranks  BY RanksAreFinite DEF Ranks
<1>1. \A q \in Ranks : run[q].pc = run[r].pc  BY OneShapeIsOneCall
<1>2. Shape(offer[0]) = ShapeOf(run[r].pc)  BY <1>0, <1>1, WaitingIs
<1>20. PICK op, len : op = offer[0].op /\ len = Len(offer[0].payload)  OBVIOUS
<1>21. <<op, len>> = ShapeOf(run[r].pc)  BY <1>2, <1>20 DEF Shape
<1>3. PICK f : f = [q \in Ranks |-> offer[q].payload[1]]  OBVIOUS
<1>4. Reduce(op, 1) = IF op = "max" THEN Maximum(f) ELSE Total(f)
  BY <1>3 DEF Reduce
<1>5. 1 \in 1 .. len => Reduction[1] = Reduce(op, 1)
  BY <1>20 DEF Reduction
<1>6. CASE run[r].pc \in {"histogram", "metric"}
  <2>1. op = "sum" /\ (len = 2 \/ len = 3)
    BY <1>21, <1>6, ShapesAre
  <2>2. f \in [Ranks -> 0 .. 1]  BY <1>1, <1>3, <1>6, WaitingIs
  <2>3. Reduction[1] = Total(f)  BY <1>4, <1>5, <2>1
  <2> QED  BY <1>6, <2>2, <2>3, TotalOfUnits DEF Readable
<1>7. CASE run[r].pc \in {"before", "after"}
  <2>1. op = "max" /\ len = 1
    BY <1>21, <1>7, ShapesAre
  <2>2. f \in [Ranks -> 0 .. 2]  BY <1>1, <1>3, <1>7, WaitingIs
  <2>3. Reduction[1] = Maximum(f)  BY <1>4, <1>5, <2>1
  <2> QED  BY <1>7, <2>2, <2>3, MaximumOfCodes DEF Readable
<1> QED  BY <1>6, <1>7 DEF Readable

\* A meeting keeps the invariant: all ranks stood at one call and are bound for the same state.
LEMMA MeetKeeps ==
    ASSUME IInv, Meet
    PROVE  IInv'
<1>1. \A r \in Ranks : Waiting(r)  BY DEF Meet
<1>2. UNCHANGED <<options, rows, run>> /\ DOMAIN offer' = Ranks /\ DOMAIN answer' = Ranks
      /\ \A r \in Ranks : offer'[r] = NoCall
  BY DEF Meet
<1>3. Given' /\ Shaped'  BY <1>2 DEF IInv, Given, Shaped
<1>4. \A r \in Ranks : options[r] \in OptionRecord /\ RankInv(run[r], options[r]) /\ run[r] \in RunRecord
  BY OptionsAreTyped DEF IInv, Given, LocalInv, RankInv
<1>5. \A r \in Ranks : run[r].pc \notin Ended /\ Bound(r) = run[r]  BY <1>1, WaitingIs
<1>6. CASE ~OneShape
  <2>1. \A r \in Ranks : answer'[r] = Failed  BY <1>6 DEF Meet
  <2>2. \A r \in Ranks : Bound(r)' = Bound(r)
    <3>1. Failed.status # "ok"  BY DEF Failed
    <3> QED  BY <1>2, <1>5, <2>1, <3>1 DEF Bound, BoundOf
  <2>3. \A r \in Ranks : LocalInv(run[r], options[r], NoCall, Failed)
    BY <1>4, <1>5 DEF LocalInv, OfferIs, AnswerIs
  <2>4. \A r \in Ranks : LocalInv(run'[r], options'[r], offer'[r], answer'[r])
    BY <1>2, <2>1, <2>3
  <2>5. Twins'  BY <1>2, <2>2 DEF IInv, Twins
  <2>6. WorldWide'  BY <1>2, <2>2 DEF IInv, WorldWide
  <2> QED  BY <1>3, <2>4, <2>5, <2>6 DEF IInv
<1>7. CASE OneShape
  <2>1. PICK v : v = Reduction  OBVIOUS
  <2>2. \A r \in Ranks : answer'[r] = [status |-> "ok", value |-> v]
    BY <1>7, <2>1 DEF Meet
  <2>3. \A r \in Ranks : Readable(run[r], v)  BY <1>1, <1>7, <2>1, ReductionIs
  <2> DEFINE next(r) == ResumeOf(run[r], options[r], v)
  <2>4. \A r \in Ranks : Bound(r)' = next(r)
    BY <1>2, <2>2 DEF Bound, BoundOf
  <2>5. \A r \in Ranks : Resumed(run[r], options[r], v, next(r)) /\ next(r) \in RunRecord
    BY <1>4, <1>5, <2>3, ResumeIs DEF RankInv
  <2> HIDE DEF next
  <2>6. \A r \in Ranks : LocalInv(run'[r], options'[r], offer'[r], answer'[r])
    <3>1. ASSUME NEW r \in Ranks
          PROVE  LocalInv(run[r], options[r], NoCall, [status |-> "ok", value |-> v])
      BY <1>4, <1>5, <2>3 DEF LocalInv, OfferIs, AnswerIs
    <3> QED  BY <1>2, <2>2, <3>1
  <2>7. Twins'
    <3>1. ASSUME NEW r \in Ranks, NEW q \in Ranks
          PROVE  Together(next(r), options[r], next(q), options[q])
      <4>1. run[r].pc = run[q].pc  BY <1>1, <1>7, OneShapeIsOneCall
      <4>2. Together(run[r], options[r], run[q], options[q])
        BY <1>5 DEF IInv, Twins
      <4> QED  BY <1>4, <1>5, <2>5, <4>1, <4>2, TogetherKept
    <3> QED  BY <1>2, <2>4, <3>1 DEF Twins
  <2>8. WorldWide'
    <3>1. ASSUME NEW r \in Ranks, NEW q \in Ranks, NEW i \in 1 .. Len(next(r).checkpoints)
          PROVE  IsPrefix(next(r).checkpoints[i], run[q].trees)
      <4>0. run[r].checkpoints \in Seq(Seq(Trees)) /\ run[r].trees \in Seq(Trees)
        BY <1>4 DEF RunRecord
      <4>1. ASSUME NEW k \in 1 .. Len(run[r].checkpoints)
            PROVE  IsPrefix(run[r].checkpoints[k], run[q].trees)
        BY <1>5 DEF IInv, WorldWide
      <4>2. CASE run[r].pc # "checkpoint"
        <5>1. next(r).checkpoints = run[r].checkpoints
          BY <1>4, <1>5, <2>5, <4>2, CheckpointsStand
        <5> QED  BY <4>1, <5>1
      <4>3. CASE run[r].pc = "checkpoint"
        <5>1. next(r).checkpoints = Append(run[r].checkpoints, run[r].trees)
          BY <2>5, <4>3 DEF Resumed, CheckpointedRun
        <5>2. /\ Len(run[r].checkpoints) \in Nat
              /\ Len(next(r).checkpoints) = Len(run[r].checkpoints) + 1
              /\ \A k \in 1 .. Len(run[r].checkpoints) :
                   next(r).checkpoints[k] = run[r].checkpoints[k]
              /\ next(r).checkpoints[Len(run[r].checkpoints) + 1] = run[r].trees
          BY <4>0, <5>1, AppendProperties
        <5>3. run[q].trees = run[r].trees
          BY <1>1, <1>7, OneShapeIsOneCall DEF SameCore
        <5>4. IsPrefix(run[r].trees, run[q].trees)  BY <4>0, <5>3 DEF IsPrefix
        <5>5. i \in 1 .. Len(run[r].checkpoints) \/ i = Len(run[r].checkpoints) + 1
          BY <5>2
        <5> QED  BY <4>1, <5>2, <5>4, <5>5
      <4> QED  BY <4>2, <4>3
    <3> QED  BY <1>2, <2>4, <3>1 DEF WorldWide
  <2> QED  BY <1>3, <2>6, <2>7, <2>8 DEF IInv
<1> QED  BY <1>6, <1>7

-----------------------------------------------------------------------------
(* The invariant, and what follows from it.                                *)

\* The invariant holds before the first call.
LEMMA InitIsGood ==
    ASSUME Init
    PROVE  IInv
<1>0. 0 \in Ranks  BY RanksAreFinite DEF Ranks
<1>1. Given  BY <1>0 DEF Init, Given
<1>2. Shaped  BY DEF Init, Shaped
<1>3. \A r \in Ranks : run[r] = NewRun /\ offer[r] = NoCall /\ answer[r] = NoAnswer
      /\ options[r] \in OptionRecord
  BY OptionsAreTyped DEF Init
<1>4. \A r \in Ranks : LocalInv(run[r], options[r], offer[r], answer[r])
  BY <1>3, NewRunIs DEF LocalInv, OfferIs, AnswerIs
<1>5. \A r \in Ranks : Bound(r) = NewRun  BY <1>3 DEF Bound, BoundOf, NoAnswer
<1>6. SameRun(NewRun, NewRun) /\ SameCore(NewRun, NewRun) /\ CloseBy(NewRun.pc, NewRun.pc)
  BY DEF SameRun, SameCore, CloseBy
<1>7. Twins  BY <1>5, <1>6 DEF Twins, Together
<1>8. NewRun.checkpoints = <<>>  BY DEF NewRun
<1>9. WorldWide  BY <1>5, <1>8 DEF WorldWide
<1> QED  BY <1>1, <1>2, <1>4, <1>7, <1>9 DEF IInv

\* A step that changes nothing keeps the invariant.
LEMMA StutterKeeps ==
    ASSUME IInv, UNCHANGED vars
    PROVE  IInv'
<1>1. Given' /\ Shaped'  BY DEF IInv, vars, Given, Shaped
<1>2. \A r \in Ranks : LocalInv(run'[r], options'[r], offer'[r], answer'[r])  BY DEF IInv, vars
<1>3. \A r \in Ranks : Bound(r)' = Bound(r)  BY DEF vars, Bound
<1>4. Twins'  BY <1>3 DEF IInv, vars, Twins
<1>5. WorldWide'  BY <1>3 DEF IInv, vars, WorldWide
<1> QED  BY <1>1, <1>2, <1>4, <1>5 DEF IInv

\* Every step keeps the invariant.
LEMMA StepIsGood ==
    ASSUME IInv, [Next]_vars
    PROVE  IInv'
<1>1. ASSUME NEW r \in Ranks, Step(r) PROVE IInv'
  BY <1>1, EnterOpeningKeeps, EnterVerdictKeeps, EnterLoopKeeps, ReadKeeps, LoseKeeps DEF Step
<1>2. ASSUME NEW r \in Ranks, Crash(r) PROVE IInv'  BY <1>2, CrashKeeps
<1>3. CASE Meet  BY <1>3, MeetKeeps
<1>4. CASE UNCHANGED vars  BY <1>4, StutterKeeps
<1> QED  BY <1>1, <1>2, <1>3, <1>4 DEF Next, Done

\* Every state train_distributed_run reaches on a world is one of the invariant's:
\* each rank's locals are well formed, what it waits in and was handed belongs to
\* its place in the schedule, and the ranks are bound for one run.
THEOREM Invariance == Spec => []IInv
<1>1. Init => IInv  BY InitIsGood
<1>2. IInv /\ [Next]_vars => IInv'  BY StepIsGood
<1> QED  BY <1>1, <1>2, PTL DEF Spec

\* The locals of train_distributed_run are well formed on every rank; a metric
\* and a checkpoint are of a round that has a tree.
LEMMA InvariantIsTyped ==
    ASSUME IInv
    PROVE  TypeOK
<1>1. options \in [Ranks -> Options] /\ rows \in [Ranks -> 0 .. 1]  BY DEF IInv, Given
<1>2. ASSUME NEW r \in Ranks, NEW u, u = run[r]
      PROVE  /\ u.pc \in Range(Opening) \union Looping \union Ended
             /\ (u.round = 0 \/ u.round \in 0 .. Rounds - 1) /\ u.splits \in 0 .. 2
             /\ u.error \in Errors /\ (u.error = "none") = (u.pc # "raised")
             /\ Len(u.trees) <= u.round + 1 /\ u.trees \in Seq(Seq(0 .. N))
             /\ \A m \in Range(u.metrics) : m[1] \in 1 .. Len(u.trees)
             /\ \A c \in Range(u.checkpoints) : IsPrefix(c, u.trees) /\ c # <<>>
  <2>1. u \in RunRecord /\ Counting(u) /\ Recorded(u) /\ Measured(u)
    BY <1>2 DEF IInv, LocalInv, RankInv
  <2>2. Range(Opening) = {"config", "targets", "counts", "rows", "base"}
    BY DEF Opening, Range
  <2>3. u.pc \in Range(Opening) \union Looping \union Ended
    BY <2>1, <2>2 DEF RunRecord, Labels
  <2>4. u.round = 0 \/ u.round \in 0 .. Rounds - 1
    BY <2>1, BoundAssumption DEF RunRecord, Counting
  <2>5. u.splits \in 0 .. 2 /\ u.error \in Errors /\ u.trees \in Seq(Seq(0 .. N))
    BY <2>1 DEF RunRecord, Trees, Sums
  <2>6. (u.error = "none") = (u.pc # "raised") /\ Len(u.trees) <= u.round + 1
    BY <2>1 DEF Counting
  <2>7. \A m \in Range(u.metrics) : m[1] \in 1 .. Len(u.trees)
    <3>1. DOMAIN u.metrics = 1 .. Len(u.metrics)  BY <2>1 DEF RunRecord
    <3> QED  BY <2>1, <3>1 DEF Measured, Range
  <2>8. \A c \in Range(u.checkpoints) : IsPrefix(c, u.trees) /\ c # <<>>
    <3>1. DOMAIN u.checkpoints = 1 .. Len(u.checkpoints)  BY <2>1 DEF RunRecord
    <3> QED  BY <2>1, <3>1 DEF Recorded, Range
  <2> QED  BY <2>3, <2>4, <2>5, <2>6, <2>7, <2>8
<1> QED  BY <1>1, <1>2 DEF TypeOK

\* Every variable of the ranks, their offers and their answers keeps its type.
THEOREM TypeCorrect == Spec => []TypeOK
<1>1. IInv => TypeOK  BY InvariantIsTyped
<1> QED  BY <1>1, Invariance, PTL

\* Ranks given the same options that both return, return the same model and the
\* same report: no callback, no shard and no crash makes them differ.
THEOREM OutcomesAgree == Spec => []SameOutcome
<1>1. ASSUME IInv PROVE SameOutcome
  <2>1. ASSUME NEW r \in Ranks, NEW q \in Ranks, run[r].pc = "returned",
               run[q].pc = "returned", options[r] = options[q]
        PROVE  Outcome(r) = Outcome(q)
    <3>1. \A p \in Ranks : run[p].pc = "returned" => Bound(p) = run[p]
      <4>1. ASSUME NEW p \in Ranks, run[p].pc = "returned" PROVE Bound(p) = run[p]
        <5>1. AnswerIs(run[p], answer[p])  BY <1>1 DEF IInv, LocalInv
        <5>2. answer[p] = NoAnswer  BY <4>1, <5>1 DEF AnswerIs, Ended
        <5> QED  BY <5>2 DEF Bound, BoundOf, NoAnswer
      <4> QED  BY <4>1
    <3>2. Together(run[r], options[r], run[q], options[q])
      BY <1>1, <2>1, <3>1 DEF IInv, Twins
    <3>3. SameRun(run[r], run[q])
      BY <2>1, <3>2 DEF Together, Lost
    <3> QED  BY <3>3 DEF SameRun, SameCore, Outcome
  <2> QED  BY <2>1 DEF SameOutcome
<1> QED  BY <1>1, Invariance, PTL

\* With one set of options, whoever waits in a collective waits in the same call of
\* the same round and node: the order of train_distributed_run is fixed.
THEOREM OneSchedule ==
    ASSUME SameOptions
    PROVE  Spec => []LockStep
<1>1. ASSUME IInv PROVE LockStep
  <2>1. ASSUME NEW r \in Ranks, NEW q \in Ranks, Waiting(r), Waiting(q)
        PROVE  offer[r].what = offer[q].what
    <3>1. options[r] = options[q]  BY <1>1 DEF IInv, Given
    <3>2. Together(run[r], options[r], run[q], options[q])
      BY <1>1, <2>1, WaitingIs DEF IInv, Twins
    <3>3. run[r].pc \notin Lost /\ run[q].pc \notin Lost
      BY <1>1, <2>1, WaitingIs DEF Lost, Ended
    <3>4. SameRun(run[r], run[q])  BY <3>1, <3>2, <3>3 DEF Together
    <3> QED  BY <1>1, <2>1, <3>4, WaitingIs DEF SameRun, SameCore, What
  <2> QED  BY <2>1 DEF LockStep
<1> QED  BY <1>1, Invariance, PTL

\* With one set of options, no rank leaves the loop with a model while another waits
\* in a collective it will not enter.
THEOREM NobodyLeavesEarly ==
    ASSUME SameOptions
    PROVE  Spec => []NobodyIsLeftWaiting
<1>1. ASSUME IInv PROVE NobodyIsLeftWaiting
  <2>1. ASSUME NEW r \in Ranks, NEW q \in Ranks, run[r].pc = "returned", Waiting(q)
        PROVE  FALSE
    <3>1. options[r] = options[q]  BY <1>1 DEF IInv, Given
    <3>2. AnswerIs(run[r], answer[r])  BY <1>1 DEF IInv, LocalInv
    <3>3. answer[r] = NoAnswer  BY <2>1, <3>2 DEF AnswerIs, Ended
    <3>4. Bound(r) = run[r]  BY <3>3 DEF Bound, BoundOf, NoAnswer
    <3>5. Bound(q) = run[q] /\ run[q].pc \notin Ended  BY <1>1, <2>1, WaitingIs
    <3>6. Together(run[r], options[r], run[q], options[q])
      BY <1>1, <3>4, <3>5 DEF IInv, Twins
    <3>7. run[r].pc \notin Lost /\ run[q].pc \notin Lost
      BY <2>1, <3>5 DEF Lost, Ended
    <3>8. run[r].pc = run[q].pc  BY <3>1, <3>6, <3>7 DEF Together, SameRun
    <3> QED  BY <2>1, <3>5, <3>8 DEF Ended
  <2> QED  BY <2>1 DEF NobodyIsLeftWaiting
<1> QED  BY <1>1, Invariance, PTL

\* A checkpoint a rank has recorded is one the whole world has reached: the trees
\* of it are among every other rank's.
THEOREM CheckpointsAreTheWorlds == Spec => []CheckpointIsWorldWide
<1>1. ASSUME IInv PROVE CheckpointIsWorldWide
  <2>1. ASSUME NEW r \in Ranks, NEW q \in Ranks, NEW c \in Range(run[r].checkpoints)
        PROVE  IsPrefix(c, run[q].trees)
    <3>1. LocalInv(run[r], options[r], offer[r], answer[r]) /\ options[r] \in OptionRecord
      BY <1>1, OptionsAreTyped DEF IInv, Given
    <3>2. run[r].checkpoints \in Seq(Seq(Trees))  BY <3>1 DEF LocalInv, RankInv, RunRecord
    <3>3. PICK i \in 1 .. Len(run[r].checkpoints) : c = run[r].checkpoints[i]
      BY <3>2 DEF Range
    <3>4. Within(run[r].checkpoints, Bound(r).checkpoints)
      BY <3>1, BoundIs DEF Bound
    <3> QED  BY <1>1, <3>3, <3>4 DEF Within, IInv, WorldWide
  <2> QED  BY <2>1 DEF CheckpointIsWorldWide
<1> QED  BY <1>1, Invariance, PTL

\* A run with early stopping has stopped exactly when the losses it reports are
\* stagnant, and at the first round they were.
THEOREM StopsAsReported == Spec => []StopsWhenStagnant
<1>1. ASSUME IInv PROVE StopsWhenStagnant
  <2>1. ASSUME NEW r \in Ranks, NEW n, n = options[r].early_stopping_rounds, n > 0
        PROVE  /\ run[r].stopped_early = Stagnant(run[r], Len(run[r].metrics), n)
               /\ \A k \in 1 .. Len(run[r].metrics) - 1 : ~Stagnant(run[r], k, n)
    <3>1. run[r] \in RunRecord /\ Scoring(run[r], n)
      BY <1>1, <2>1 DEF IInv, LocalInv, RankInv
    <3>2. run[r].stopped_early \in BOOLEAN  BY <3>1 DEF RunRecord
    <3>3. Stagnant(run[r], Len(run[r].metrics), n) \in BOOLEAN  BY DEF Stagnant
    <3>4. run[r].stopped_early <=> Stagnant(run[r], Len(run[r].metrics), n)
      BY <2>1, <3>1 DEF Scoring
    <3>5. \A k \in 1 .. Len(run[r].metrics) - 1 : ~Stagnant(run[r], k, n)
      BY <2>1, <3>1 DEF Scoring
    <3>6. run[r].stopped_early = Stagnant(run[r], Len(run[r].metrics), n)
      BY <3>2, <3>3, <3>4
    <3> QED  BY <3>5, <3>6
  <2> QED  BY <2>1 DEF StopsWhenStagnant
<1> QED  BY <1>1, Invariance, PTL

-----------------------------------------------------------------------------
(* The runs whose failures are one.                                        *)

\* Where no callback reset a parameter, a reduction's failures are the world's,
\* and the split agreement fails only of halves that disagree.
LEMMA MovesWithoutReset ==
    ASSUME NEW u \in RunRecord, u.pc \notin Ended, u.error = "none", ~u.reset,
           NEW o, NEW v, u.pc = "split" => AllEqual(v), NEW w, Resumed(u, o, v, w)
    PROVE  ~w.reset /\ w.pc # "crashed" /\ w.error \notin Own
<1>0. u.pc \in Labels  BY DEF RunRecord
<1>1. CASE u.pc \in {"histogram", "split"}
  <2>1. Extended(u, o, w)
    <3>1. CASE u.pc = "histogram"
      <4>1. ASSUME FailedRun(u, w, "splits") PROVE FALSE
        <5>1. w.pc = "raised"  BY <4>1 DEF FailedRun, MovedBut
        <5>2. HistogramRun(u, o, v[1], w)  BY <3>1 DEF Resumed
        <5> QED  BY <5>1, <5>2 DEF HistogramRun, Grew, MetricDue, After
      <4> QED  BY <1>1, <4>1, GrowingExtends
    <3>2. CASE u.pc = "split"
      <4>1. ASSUME FailedRun(u, w, "splits") PROVE FALSE
        <5>1. w.pc = "raised"  BY <4>1 DEF FailedRun, MovedBut
        <5>2. SplitRun(u, o, w)  BY <3>2 DEF Resumed
        <5> QED  BY <5>1, <5>2 DEF SplitRun, Moved, Grew, MetricDue, After
      <4> QED  BY <1>1, <4>1, GrowingExtends
    <3> QED  BY <1>1, <3>1, <3>2
  <2> QED  BY <2>1 DEF Extended, SameReport, Own, MetricDue, After
<1>2. CASE u.pc = "before"
  BY <1>2 DEF Resumed, Moved, FailedRun, StoppedRun, MovedBut, SameReport, SameReportBut, Own
<1>3. CASE u.pc = "after"
  BY <1>3 DEF Resumed, Moved, FailedRun, StoppedRun, RoundRun, MovedBut, SameReport,
              SameReportBut, Own
<1>4. CASE u.pc \in {"metric", "checkpoint"}
  BY <1>4 DEF Resumed, ScoredRun, CheckpointedRun, MovedBut, SameReportBut, Own, After
<1>5. CASE u.pc \in {"config", "targets", "counts", "rows", "base"}
  BY <1>5 DEF Resumed, Moved, FailedRun, MovedBut, SameReport, SameReportBut, Own
<1> QED  BY <1>0, <1>1, <1>2, <1>3, <1>4, <1>5 DEF Labels, Looping

\* Locals that differ in no field are the same.
LEMMA SameLocals ==
    ASSUME NEW u \in RunRecord, NEW w \in RunRecord, SameRun(u, w), ~u.reset, ~w.reset
    PROVE  u = w
<1> DEFINE whole(x) ==
      [pc |-> x.pc, round |-> x.round, tree |-> x.tree, frontier |-> x.frontier,
       splits |-> x.splits, trees |-> x.trees, best |-> x.best, stop_now |-> x.stop_now,
       reset |-> FALSE, metrics |-> x.metrics, stopped_early |-> x.stopped_early,
       stopped_by_callback |-> x.stopped_by_callback, checkpoints |-> x.checkpoints,
       error |-> x.error]
<1>1. u.reset = FALSE /\ w.reset = FALSE  BY DEF RunRecord
<1>2. u = whole(u)  BY <1>1 DEF RunRecord
<1>3. w = whole(w)  BY <1>1 DEF RunRecord
<1>4. whole(u) = whole(w)  BY DEF SameRun, SameCore
<1> QED  BY <1>2, <1>3, <1>4

\* The greatest of what is everyone's is that.
LEMMA MaximumOfOne ==
    ASSUME NEW x \in Int
    PROVE  Maximum([q \in Ranks |-> x]) = x
<1>1. 0 \in Ranks  BY RanksAreFinite DEF Ranks
<1>2. Range([q \in Ranks |-> x]) = {x}  BY <1>1 DEF Range
<1>3. \E m \in {x} : \A y \in {x} : y <= m  OBVIOUS
<1> QED  BY <1>2, <1>3 DEF Maximum

\* The halves of a digest, and nothing.
LEMMA HalvesAre ==
    ASSUME NEW s \in Int, NEW P, P = EqualInts(s) \o EqualInts(0)
    PROVE  Len(P) = 4 /\ P[1] = s /\ P[2] = -s /\ P[3] = 0 /\ P[4] = 0
<1>1. PICK y \in Int : y = -s  OBVIOUS
<1>2. PICK z \in Int : z = 0 /\ z = -z  OBVIOUS
<1>3. <<s, y>> \in Seq(Int) /\ <<z, z>> \in Seq(Int)  OBVIOUS
<1>4. EqualInts(0) = <<z, z>>  BY <1>2 DEF EqualInts
<1>5. EqualInts(s) = <<s, y>>  BY <1>1 DEF EqualInts
<1>6. PICK a \in Seq(Int), b \in Seq(Int) : a = <<s, y>> /\ b = <<z, z>>  BY <1>3
<1>7. Len(a) = 2 /\ Len(b) = 2 /\ a[1] = s /\ a[2] = y /\ b[1] = z /\ b[2] = z  BY <1>6
<1>8. P = a \o b  BY <1>4, <1>5, <1>6
<1>9. /\ Len(P) = 4
      /\ \A i \in 1 .. 4 : P[i] = IF i <= 2 THEN a[i] ELSE b[i - 2]
  <2>1. /\ Len(a \o b) = Len(a) + Len(b)
        /\ \A i \in 1 .. Len(a) + Len(b) :
             (a \o b)[i] = IF i <= Len(a) THEN a[i] ELSE b[i - Len(a)]
    BY ConcatProperties
  <2> QED  BY <1>7, <1>8, <2>1
<1>10. P[1] = a[1] /\ P[2] = a[2] /\ P[3] = b[1] /\ P[4] = b[2]
  BY <1>9
<1> QED  BY <1>1, <1>2, <1>7, <1>9, <1>10

\* A digest everyone brings is agreed.
LEMMA OneSplitIsAgreed ==
    ASSUME IInv, \A r \in Ranks : Waiting(r), NEW r \in Ranks, run[r].pc = "split",
           \A q \in Ranks : run[q] = run[r]
    PROVE  AllEqual(Reduction)
<1>0. 0 \in Ranks  BY RanksAreFinite DEF Ranks
<1>1. PICK s : s = SplitOf(run[r])  OBVIOUS
<1>2. s \in Int
  <2>1. run[r] \in RunRecord /\ Growing(run[r])  BY DEF IInv, LocalInv, RankInv
  <2>2. run[r].frontier \in Seq(Int) /\ run[r].tree \in Seq(Sums) /\ Len(run[r].frontier) > 0
        /\ Len(run[r].tree) > 0
    BY <2>1 DEF RunRecord, Growing, Trees
  <2>3. Last(run[r].frontier) \in Int /\ Last(run[r].tree) \in Sums
    <3>1. PICK f \in Seq(Int), t \in Seq(Sums) : f = run[r].frontier /\ t = run[r].tree  BY <2>2
    <3>2. Len(f) > 0 /\ Len(t) > 0  BY <2>2, <3>1
    <3>3. f[Len(f)] \in Int  BY <3>2
    <3>4. t[Len(t)] \in Sums  BY <3>2
    <3> QED  BY <3>1, <3>3, <3>4 DEF Last
  <2>4. Sums \subseteq Int  BY RanksAreFinite DEF Sums
  <2> QED  BY <1>1, <2>3, <2>4 DEF SplitOf
<1>3. PICK P : P = EqualInts(s) \o EqualInts(0)  OBVIOUS
<1>4. /\ Len(P) = 4 /\ P[1] = s /\ P[2] = -s /\ P[3] = 0 /\ P[4] = 0
  BY <1>2, <1>3, HalvesAre
<1>5. \A q \in Ranks : offer[q].payload = P
  BY <1>1, <1>3, WaitingIs
<1>6. offer[0].op = "max"
  <2>1. Shape(offer[0]) = <<"max", 4>>  BY <1>0, WaitingIs, ShapesAre
  <2> QED  BY <2>1 DEF Shape
<1>7. Len(P) = 4 /\ \A i \in 1 .. 4 : P[i] \in Int
  <2>1. -s \in Int  BY <1>2
  <2>2. \A i \in 1 .. 4 : i = 1 \/ i = 2 \/ i = 3 \/ i = 4  OBVIOUS
  <2> QED  BY <1>2, <1>4, <2>1, <2>2
<1>8. \A i \in 1 .. 4 : Reduction[i] = P[i]
  <2> TAKE i \in 1 .. 4
  <2>1. Reduction[i] = Reduce("max", i)  BY <1>0, <1>5, <1>6, <1>7 DEF Reduction
  <2>2. [q \in Ranks |-> offer[q].payload[i]] = [q \in Ranks |-> P[i]]  BY <1>5
  <2>3. Reduce("max", i) = Maximum([q \in Ranks |-> P[i]])  BY <2>2 DEF Reduce
  <2> QED  BY <1>7, <2>1, <2>3, MaximumOfOne
<1>9. Len(Reduction) = 4
  <2>1. DOMAIN Reduction = 1 .. 4  BY <1>0, <1>5, <1>7 DEF Reduction
  <2>2. Reduction \in Seq(Int)
    <3>1. Reduction = [i \in 1 .. 4 |-> Reduction[i]]  BY <1>0, <1>5, <1>7 DEF Reduction
    <3>2. \A i \in 1 .. 4 : Reduction[i] \in Int  BY <1>7, <1>8
    <3> QED  BY <3>1, <3>2
  <2> QED  BY <2>1, <2>2, LenProperties
<1>10. PICK v : v = Reduction  OBVIOUS
<1>11. Len(v) = 4 /\ v[1] = s /\ v[2] = -s /\ v[3] = 0 /\ v[4] = 0
  BY <1>4, <1>8, <1>9, <1>10
<1>12. AllEqual(v)
  <2>1. Len(v) \div 2 = 2  BY <1>11
  <2>2. ASSUME NEW i \in 1 .. 2 PROVE v[2 * i - 1] = -v[2 * i]
    <3>1. CASE i = 1  BY <1>2, <1>11, <3>1
    <3>2. CASE i = 2  BY <1>11, <3>2
    <3> QED  BY <3>1, <3>2
  <2> QED  BY <2>1, <2>2 DEF AllEqual
<1> QED  BY <1>10, <1>12

\* A rank that has ended has read its answers.
LEMMA EndedIs ==
    ASSUME IInv, NEW q \in Ranks, run[q].pc \in Ended
    PROVE  answer[q] = NoAnswer /\ Bound(q) = run[q]
<1>1. AnswerIs(run[q], answer[q])  BY DEF IInv, LocalInv
<1>2. answer[q] = NoAnswer  BY <1>1 DEF AnswerIs
<1> QED  BY <1>2 DEF Bound, BoundOf, NoAnswer

\* While all ranks are bound for one run, none of them has lost a peer.
LEMMA NobodyIsLost ==
    ASSUME IInv, InStep, NEW r \in Ranks
    PROVE  ~Lose(r)
<1> SUFFICES ASSUME Lose(r) PROVE FALSE  OBVIOUS
<1>1. \A q \in Ranks : Bound(q).pc = Bound(r).pc /\ Bound(q).pc # "crashed" /\ Bound(q).error \notin Own
  BY DEF InStep, SameRun
<1>2. CASE Waiting(r) /\ \E q \in Ranks : Gone(q)
  <2>1. PICK q \in Ranks : Gone(q)  BY <1>2
  <2>2. Bound(q).pc \in Ended  BY <2>1, EndedIs DEF Gone
  <2>3. Bound(r).pc \notin Ended  BY <1>2, WaitingIs
  <2> QED  BY <1>1, <2>2, <2>3
<1>3. CASE \E q \in Ranks : run[q].pc = "crashed" \/ run[q].error = "collective_failed"
  <2>1. PICK q \in Ranks : run[q].pc = "crashed" \/ run[q].error = "collective_failed"  BY <1>3
  <2>2. Counting(run[q])  BY DEF IInv, LocalInv, RankInv
  <2>3. run[q].pc \in Ended  BY <2>1, <2>2 DEF Counting, Ended
  <2>4. Bound(q) = run[q]  BY <2>3, EndedIs
  <2> QED  BY <1>1, <2>1, <2>4 DEF Own
<1> QED  BY <1>2, <1>3 DEF Lose

\* The ranks stay in step when none of them changes what it is bound for.
LEMMA StayingInStep ==
    ASSUME InStep, \A q \in Ranks : /\ SameRun(Bound(q), Bound(q)') /\ ~(Bound(q)').reset
                                    /\ answer'[q] # Failed
    PROVE  InStep'
<1>1. \A q \in Ranks : (Bound(q)').pc # "crashed" /\ (Bound(q)').error \notin Own
  BY DEF InStep, SameRun
<1>2. \A p, q \in Ranks : SameRun(Bound(p)', Bound(q)')
  BY DEF InStep, SameRun, SameCore
<1> QED  BY <1>1, <1>2 DEF InStep

\* Ranks that stay bound for the same states stay in step.
LEMMA StandingIsStaying ==
    ASSUME InStep, \A q \in Ranks : Bound(q)' = Bound(q) /\ answer'[q] # Failed
    PROVE  InStep'
<1>1. \A q \in Ranks : SameRun(Bound(q), Bound(q)') /\ ~(Bound(q)').reset
  BY DEF InStep, SameRun, SameCore
<1> QED  BY <1>1, StayingInStep

\* A step that changes no rank and no answer keeps the world in step.
LEMMA PlainStepInStep ==
    ASSUME InStep, UNCHANGED <<options, run, answer>>
    PROVE  InStep'
<1>1. \A q \in Ranks : Bound(q)' = Bound(q) /\ answer'[q] # Failed
  BY DEF Bound, InStep
<1> QED  BY <1>1, StandingIsStaying

\* A rank asking its callbacks keeps the world in step.
LEMMA VerdictInStep ==
    ASSUME Calm, IInv, InStep, NEW r \in Ranks, EnterVerdict(r)
    PROVE  InStep'
<1>0. run[r] \in RunRecord /\ Shaped  BY DEF IInv, LocalInv, RankInv
<1>1. PICK v \in Verdicts :
        \/ /\ v # "raise"
           /\ Enter(r, "max", <<Codes[v]>>)
           /\ SetRun(r, [run[r] EXCEPT !.reset = (v = "reset")])
        \/ /\ v = "raise"
           /\ SetRun(r, Fails(run[r], "callback_raised"))
           /\ UNCHANGED <<options, rows, offer, answer>>
  BY DEF EnterVerdict
<1>2. v \in {"continue", "stop", "abort"}  BY DEF Calm
<1>3. v # "raise" /\ (v = "reset") = FALSE  BY <1>2
<1>4. PICK w : w = [run[r] EXCEPT !.reset = FALSE]  OBVIOUS
<1>5. run' = [run EXCEPT ![r] = w] /\ options' = options /\ answer' = answer
  BY <1>1, <1>3, <1>4 DEF SetRun, Enter
<1>6. run'[r] = w /\ \A q \in Ranks \ {r} : run'[q] = run[q]
  BY <1>0, <1>5, PointUpdate DEF Shaped
<1>7. answer[r] = NoAnswer  BY DEF EnterVerdict, Ready
<1>8. Bound(r) = run[r] /\ Bound(r)' = w
  BY <1>5, <1>6, <1>7 DEF Bound, BoundOf, NoAnswer
<1>9. SameRun(run[r], w) /\ ~w.reset
  BY <1>0, <1>4 DEF RunRecord, SameRun, SameCore
<1>10. \A q \in Ranks \ {r} : Bound(q)' = Bound(q)  BY <1>5, <1>6 DEF Bound
<1>11. \A q \in Ranks \ {r} : SameRun(Bound(q), Bound(q)') /\ ~(Bound(q)').reset
  BY <1>10 DEF InStep, SameRun, SameCore
<1>12. \A q \in Ranks : answer'[q] # Failed  BY <1>5 DEF InStep
<1> QED  BY <1>8, <1>9, <1>11, <1>12, StayingInStep

\* A rank reading an answer keeps the world in step.
LEMMA ReadInStep ==
    ASSUME IInv, InStep, NEW r \in Ranks, Read(r)
    PROVE  InStep'
<1>0. LocalInv(run[r], options[r], offer[r], answer[r]) /\ Shaped
  BY DEF IInv
<1>1. answer[r] # NoAnswer /\ answer[r] # Failed  BY DEF Read, InStep
<1>2. answer[r].status = "ok"  BY <1>0, <1>1 DEF LocalInv, AnswerIs
<1>3. PICK w : w = Resume(r, answer[r].value)  OBVIOUS
<1>4. run' = [run EXCEPT ![r] = w] /\ answer' = [answer EXCEPT ![r] = NoAnswer]
      /\ options' = options
  BY <1>1, <1>3 DEF Read, SetRun
<1>5. run'[r] = w /\ \A q \in Ranks \ {r} : run'[q] = run[q]
  BY <1>0, <1>4, PointUpdate DEF Shaped
<1>6. answer'[r] = NoAnswer /\ \A q \in Ranks \ {r} : answer'[q] = answer[q]
  BY <1>0, <1>4, PointUpdate DEF Shaped
<1>7. w = Bound(r)  BY <1>2, <1>3, ReadingIs DEF Bound, BoundOf
<1>8. Bound(r)' = w  BY <1>4, <1>5, <1>6 DEF Bound, BoundOf, NoAnswer
<1>9. \A q \in Ranks \ {r} : Bound(q)' = Bound(q)  BY <1>4, <1>5, <1>6 DEF Bound
<1>10. \A q \in Ranks : answer'[q] # Failed  BY <1>6 DEF InStep, NoAnswer, Failed
<1> QED  BY <1>7, <1>8, <1>9, <1>10, StandingIsStaying

\* A meeting keeps the world in step: equal options make all ranks do the same next.
LEMMA MeetInStep ==
    ASSUME Calm, IInv, InStep, Meet
    PROVE  InStep'
<1>0. 0 \in Ranks  BY RanksAreFinite DEF Ranks
<1>1. \A r \in Ranks : Waiting(r)  BY DEF Meet
<1>2. \A r \in Ranks : Bound(r) = run[r] /\ run[r].pc \notin Ended
  BY <1>1, WaitingIs
<1>3. \A r \in Ranks : RankInv(run[r], options[r]) /\ run[r] \in RunRecord
      /\ options[r] \in OptionRecord
  BY OptionsAreTyped DEF IInv, Given, LocalInv, RankInv
<1>4. \A r, q \in Ranks : run[r] = run[q]
  <2>1. ASSUME NEW r \in Ranks, NEW q \in Ranks PROVE run[r] = run[q]
    <3>1. SameRun(run[r], run[q]) /\ ~run[r].reset /\ ~run[q].reset  BY <1>2 DEF InStep
    <3> QED  BY <1>3, <3>1, SameLocals
  <2> QED  BY <2>1
<1>5. \A r, q \in Ranks : options[r] = options[q]  BY DEF Calm, IInv, Given
<1>6. OneShape
  <2>1. \A r \in Ranks : Shape(offer[r]) = ShapeOf(run[r].pc)  BY <1>1, WaitingIs
  <2> QED  BY <1>4, <2>1 DEF OneShape
<1>7. PICK v : v = Reduction  OBVIOUS
<1>8. \A r \in Ranks : answer'[r] = [status |-> "ok", value |-> v]
  BY <1>6, <1>7 DEF Meet
<1>9. UNCHANGED <<options, run>>  BY DEF Meet
<1> DEFINE next(r) == ResumeOf(run[r], options[r], v)
<1>10. \A r \in Ranks : Bound(r)' = next(r)  BY <1>8, <1>9 DEF Bound, BoundOf
<1>11. \A r, q \in Ranks : next(r) = next(q)  BY <1>4, <1>5
<1>12. \A r \in Ranks : Resumed(run[r], options[r], v, next(r))
  <2>1. \A r \in Ranks : Readable(run[r], v)  BY <1>1, <1>6, <1>7, ReductionIs
  <2> QED  BY <1>2, <1>3, <2>1, ResumeIs DEF RankInv
<1> HIDE DEF next
<1>13. ASSUME NEW r \in Ranks
       PROVE  ~next(r).reset /\ next(r).pc # "crashed" /\ next(r).error \notin Own
  <2>1. run[r].error = "none"  BY <1>2, <1>3 DEF RankInv, Counting, Ended
  <2>2. ~run[r].reset  BY <1>2 DEF InStep
  <2>3. run[r].pc = "split" => AllEqual(v)
    BY <1>1, <1>4, <1>7, OneSplitIsAgreed
  <2> QED  BY <1>2, <1>3, <1>12, <2>1, <2>2, <2>3, MovesWithoutReset
<1>14. \A r \in Ranks : answer'[r] # Failed  BY <1>8 DEF Failed
<1>15. \A r, q \in Ranks : SameRun(next(r), next(q))  BY <1>11 DEF SameRun, SameCore
<1> QED  BY <1>10, <1>13, <1>14, <1>15 DEF InStep

\* Every step keeps the world in step.
LEMMA StepInStep ==
    ASSUME Calm, IInv, InStep, [Next]_vars
    PROVE  InStep'
<1>1. ASSUME NEW r \in Ranks, Step(r) PROVE InStep'
  <2>1. CASE EnterOpening(r)
    BY <2>1, PlainStepInStep DEF EnterOpening, Enter
  <2>2. CASE EnterHistogram(r) \/ EnterSplit(r) \/ EnterMetric(r) \/ EnterCheckpoint(r)
    <3>1. UNCHANGED <<options, run, answer>>
      BY <2>2, Zenon DEF EnterHistogram, EnterSplit, EnterMetric, EnterCheckpoint, Enter
    <3> QED  BY <3>1, PlainStepInStep
  <2>3. CASE EnterVerdict(r)  BY <2>3, VerdictInStep
  <2>4. CASE Read(r)  BY <2>4, ReadInStep
  <2>5. CASE Lose(r)  BY <2>5, NobodyIsLost
  <2> QED  BY <1>1, <2>1, <2>2, <2>3, <2>4, <2>5 DEF Step
<1>2. ASSUME NEW r \in Ranks, Crash(r) PROVE InStep'  BY <1>2 DEF Crash, Calm
<1>3. CASE Meet  BY <1>3, MeetInStep
<1>4. CASE UNCHANGED vars  BY <1>4, PlainStepInStep DEF vars
<1> QED  BY <1>1, <1>2, <1>3, <1>4 DEF Next, Done

\* All ranks start alike.
LEMMA InitInStep ==
    ASSUME Init
    PROVE  InStep
<1>1. \A r \in Ranks : Bound(r) = NewRun /\ answer[r] # Failed
  BY DEF Init, Bound, BoundOf, NoAnswer, Failed
<1>2. ~NewRun.reset /\ NewRun.pc # "crashed" /\ NewRun.error \notin Own
  BY DEF NewRun, Own
<1>3. SameRun(NewRun, NewRun)  BY DEF SameRun, SameCore
<1> QED  BY <1>1, <1>2, <1>3 DEF InStep

\* In a world with one set of options, where nobody dies and a callback only continues,
\* stops or aborts, all ranks are bound for one state at every time.
THEOREM WorldInStep ==
    ASSUME Calm
    PROVE  Spec => []InStep
<1>1. Init => InStep  BY InitInStep
<1>2. IInv /\ InStep /\ [Next]_vars => InStep'  BY StepInStep
<1> QED  BY <1>1, <1>2, Invariance, PTL DEF Spec

\* There a failure is everyone's, for the same reason.
THEOREM FailuresAreOne ==
    ASSUME Calm
    PROVE  Spec => []FailuresAgree
<1>1. ASSUME IInv, InStep PROVE FailuresAgree
  <2>1. ASSUME NEW r \in Ranks, NEW q \in Ranks, run[r].pc = "raised", run[q].pc \in Ended
        PROVE  run[q].pc = "raised" /\ run[q].error = run[r].error
    <3>1. Bound(r) = run[r] /\ Bound(q) = run[q]
      BY <1>1, <2>1, EndedIs DEF Ended
    <3> QED  BY <1>1, <2>1, <3>1 DEF InStep, SameRun
  <2> QED  BY <2>1 DEF FailuresAgree, Ended
<1> QED  BY <1>1, Invariance, WorldInStep, PTL

\* There the split agreement of verify_splits never fails, and no rank's collective does.
THEOREM SplitsNeverDisagree ==
    ASSUME Calm
    PROVE  Spec => []NoSpuriousFailure
<1>1. ASSUME IInv, InStep PROVE NoSpuriousFailure
  <2>1. ASSUME NEW r \in Ranks, run[r].error \in {"splits", "collective_failed"}
        PROVE  FALSE
    <3>1. Counting(run[r])  BY <1>1 DEF IInv, LocalInv, RankInv
    <3>2. run[r].pc \in Ended  BY <2>1, <3>1 DEF Counting, Ended
    <3>3. Bound(r) = run[r]  BY <1>1, <3>2, EndedIs
    <3> QED  BY <1>1, <2>1, <3>3 DEF InStep, Own
  <2> QED  BY <2>1 DEF NoSpuriousFailure
<1> QED  BY <1>1, Invariance, WorldInStep, PTL
=============================================================================
