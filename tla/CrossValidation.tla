--------------------------- MODULE CrossValidation ---------------------------
(* One call of cv(): the rows are split into folds, every fold is grown one  *)
(* round at a time, each round is scored on the held-out rows, callbacks and *)
(* the early-stopping consensus may end the run, and the history is cut back *)
(* to the round that won.  A ranking run cannot be continued, so its folds   *)
(* are trained once and scored once.                                         *)
(*                                                                           *)
(* A row list is the set of its rows, a score is the across-fold mean and    *)
(* any value of Scores (a callable metric may return anything, NaN too), and *)
(* a fold's Booster is how many rounds it has grown.                         *)
EXTENDS Integers, Sequences, FiniteSets, Functions

CONSTANTS
  MaxRows,      \* bound: rows (queries, for a ranking) of the training set
  Labels,       \* the labels of a classification
  FoldCounts,   \* the values of nfold=
  MaxRounds,    \* bound: num_boost_round
  Metrics,      \* the names of the metrics, in order
  Higher,       \* those of which a higher value is better
  Scores,       \* the means a metric can report
  NaN,          \* the mean that compares with nothing
  Patiences,    \* the values of early_stopping_rounds=, 0 for none
  Deltas,       \* the values of min_delta=
  None          \* no score yet, no round won, no callback's answer

ASSUME CvAssumption ==
  /\ MaxRows \in Nat /\ MaxRounds \in Nat \ {0}
  /\ FoldCounts \subseteq Nat \ {0, 1} /\ Patiences \subseteq Nat
  /\ Scores \subseteq Int \cup {NaN} /\ Deltas \subseteq Nat
  /\ None \notin Int /\ None \notin Scores /\ NaN \notin Int
  /\ Len(Metrics) \in Nat \ {0} /\ DOMAIN Metrics = 1 .. Len(Metrics)

VARIABLES
  pc,        \* where the driver is
  data,      \* the training set, until the folds' own datasets are built
  splits,    \* the splits, until the folds' own datasets are built
  config,    \* incremental or not, rounds, patience and min_delta
  index,     \* the round being evaluated, a position of the checkpoints
  folds,     \* what each fold's model has grown
  history,   \* results: the entry each evaluated round appended
  best,      \* _Consensus: the best score of each watched metric, and where
  outcome    \* how the run ended, and best_iteration

vars == <<pc, data, splits, config, index, folds, history, best, outcome>>

----------------------------------------------------------------------------
(* The training set: a label per row, and the query each row belongs to. *)

Rows(d) == DOMAIN d.label

\* Queries are contiguous runs of rows, numbered in row order.
Owners(n) ==
  {o \in [1 .. n -> 1 .. n] :
     /\ o[1] = 1
     /\ \A r \in 2 .. n : o[r] \in {o[r - 1], o[r - 1] + 1}}

DatasetsOf(n) ==
  [task : {"classes"}, label : [1 .. n -> Labels],
   owner : {[r \in 1 .. n |-> r]}]
  \cup [task : {"values"}, label : {[r \in 1 .. n |-> 0]},
        owner : {[r \in 1 .. n |-> r]}]
  \cup [task : {"ranking"}, label : {[r \in 1 .. n |-> 0]},
        owner : Owners(n)]

Datasets == UNION {DatasetsOf(n) : n \in 1 .. MaxRows}

Queries(d) == Range(d.owner)
RowsOf(d, queries) == {r \in Rows(d) : d.owner[r] \in queries}

\* What a shuffle can leave a list of n items in; unshuffled is one of them.
Orders(n) == {o \in [1 .. n -> 1 .. n] : IsInjective(o)}

----------------------------------------------------------------------------
(* The splits. *)

Least(a, b) == IF a < b THEN a ELSE b

\* Mutant: the remainder is dealt to nobody.
ChunkFoldsEven(order, k) ==
  [f \in 1 .. k |-> {order[i] : i \in (f - 1) * (Len(order) \div k) + 1
                                     .. f * (Len(order) \div k)}]

\* n items dealt into k contiguous chunks, the remainder to the earliest.
ChunkFolds(order, k) ==
  LET n == Len(order)
      size(f) == n \div k + IF f <= n % k THEN 1 ELSE 0
      start(f) == (f - 1) * (n \div k) + Least(f - 1, n % k)
  IN  [f \in 1 .. k |-> {order[i] : i \in start(f) + 1 .. start(f) + size(f)}]

\* Every label's rows dealt round-robin from the first fold.
StratifiedFolds(order, label, k) ==
  LET position(i) == Cardinality({j \in 1 .. i - 1 : label[order[j]] = label[order[i]]})
  IN  [f \in 1 .. k |-> {order[i] : i \in {j \in DOMAIN order : position(j) % k = f - 1}}]

\* The rows each fold holds out, when cv() builds the folds itself.
HeldOut(d, stratified, order, k) ==
  CASE d.task = "ranking" -> LET q == ChunkFolds(order, k)
                             IN  [f \in 1 .. k |-> RowsOf(d, q[f])]
    [] d.task = "classes" /\ stratified -> StratifiedFolds(order, d.label, k)
    [] OTHER -> ChunkFolds(order, k)

Items(d) == IF d.task = "ranking" THEN Cardinality(Queries(d))
                                  ELSE Cardinality(Rows(d))

GeneratedSplits(d, stratified, order, k) ==
  LET held == HeldOut(d, stratified, order, k)
  IN  [f \in 1 .. k |-> [train |-> Rows(d) \ held[f], test |-> held[f]]]

\* Mutant: only a dropped query is noticed.
NoQueryDropped(d, split) ==
  {d.owner[r] : r \in split.train \cup split.test} = Queries(d)

\* A fold takes whole queries and drops none.
WholeQueries(d, split) ==
  LET of(rows) == {d.owner[r] : r \in rows}
  IN  /\ of(split.train) \cap of(split.test) = {}
      /\ of(split.train) \cup of(split.test) = Queries(d)

\* _Split.check: two sides, of rows that exist, with none in common.
SplitChecks(d, split) ==
  /\ split.train # {} /\ split.test # {}
  /\ split.train \cup split.test \subseteq Rows(d)
  /\ split.train \cap split.test = {}

\* Folds of the caller's own: one pair, whose rows may be out of range.
GivenSplits(d) ==
  {<<s>> : s \in [train : SUBSET (1 .. Len(d.label) + 1),
                  test : SUBSET (1 .. Len(d.label) + 1)]}

\* Naming a row that is not there fails too, while its query is looked up.
GivenAccepted(d, split) ==
  d.task = "ranking" => /\ split.train \cup split.test \subseteq Rows(d)
                        /\ WholeQueries(d, split)

----------------------------------------------------------------------------
(* The folds' models and the consensus. *)

NewFold == [grown |-> 0, finished |-> FALSE]

Checkpoints ==
  IF config.incremental THEN [i \in 1 .. config.rounds |-> i]
                        ELSE <<config.rounds>>

\* _IncrementalFold.advance_to: update(1) until the round is reached, or until
\* one of them adds nothing.  _RetrainFold.advance_to: one train() call, which
\* may converge early.
Advanced(m, round) ==
  IF m.finished \/ m.grown >= round THEN {m}
  ELSE {[grown |-> round, finished |-> FALSE]}
       \cup {[grown |-> g, finished |-> TRUE] : g \in m.grown .. round - 1}

\* NaN compares as Python compares it: false, whatever the other side is.
Exceeds(a, b) == a # NaN /\ b # NaN /\ a > b
Plus(a, d) == IF a = NaN THEN NaN ELSE a + d
Improves(metric, value, than, delta) ==
  IF metric \in Higher THEN Exceeds(value, Plus(than, delta))
                       ELSE Exceeds(Plus(than, -delta), value)

Watched == DOMAIN best

\* Mutant: every metric is better when higher.
NewBestHigher(w, value) ==
  best[w].score = None \/ Exceeds(value, Plus(best[w].score, config.delta))

\* Whether a round's mean replaces the best one.
NewBest(w, value) ==
  \/ best[w].score = None
  \/ Improves(Metrics[w], value, best[w].score, config.delta)

\* Mutant: one round more than the caller asked to wait.
OutOfPatienceLate(means) ==
  {w \in Watched : /\ ~NewBest(w, means[w])
                   /\ index - best[w].index > config.patience}

\* The watched metrics that have gone config.patience rounds without a best.
OutOfPatience(means) ==
  {w \in Watched : /\ ~NewBest(w, means[w])
                   /\ index - best[w].index >= config.patience}

\* The bests after a round; a metric behind the one that stopped is not read.
Observed(means) ==
  [w \in Watched |->
     IF /\ NewBest(w, means[w])
        /\ \A s \in OutOfPatience(means) : w < s
     THEN [score |-> means[w], index |-> index]
     ELSE best[w]]

\* _exception_index: where the round a callback named stands.
ExceptionIndex(named) ==
  IF named # None /\ named + 1 \in Range(Checkpoints)
  THEN CHOOSE i \in DOMAIN Checkpoints : Checkpoints[i] = named + 1
  ELSE index

----------------------------------------------------------------------------
(* The driver. *)

Nowhere == [how |-> "running", best |-> None, metric |-> None]

Init ==
  /\ pc = "split" /\ index = 1
  /\ data \in Datasets /\ splits = <<>>
  /\ config = None /\ folds = <<>> /\ history = <<>> /\ best = <<>>
  /\ outcome = Nowhere

\* cv() was given no folds=.
Generate ==
  /\ pc = "split"
  /\ \E k \in FoldCounts, stratified \in BOOLEAN, order \in Orders(Items(data)) :
       IF Items(data) < k
       THEN pc' = "raised" /\ UNCHANGED splits
       ELSE /\ splits' = GeneratedSplits(data, stratified, order, k)
            /\ pc' = IF \A s \in Range(splits') : SplitChecks(data, s)
                     THEN "generated" ELSE "raised"
  /\ UNCHANGED <<data, config, index, folds, history, best, outcome>>

\* cv() was given folds=.
Given ==
  /\ pc = "split"
  /\ splits' \in GivenSplits(data)
  /\ pc' = IF \A s \in Range(splits') : GivenAccepted(data, s)
                                        /\ SplitChecks(data, s)
           THEN "given" ELSE "raised"
  /\ UNCHANGED <<data, config, index, folds, history, best, outcome>>

\* One model per fold, over datasets of its own; a ranking run refuses a
\* stopping rule, and first_metric_only watches only the first metric.
BuildFolds ==
  /\ pc \in {"generated", "given"}
  /\ \E rounds \in 1 .. MaxRounds, patience \in Patiences, delta \in Deltas,
        watched \in {1, Len(Metrics)} :
       /\ data.task = "ranking" => patience = 0
       /\ patience = 0 => delta = 0 /\ watched = 1
       /\ config' = [incremental |-> data.task # "ranking",
                     rounds |-> rounds, patience |-> patience,
                     delta |-> delta]
       /\ best' = [w \in 1 .. IF patience = 0 THEN 0 ELSE watched |->
                     [score |-> None, index |-> 0]]
  /\ folds' = [f \in DOMAIN splits |-> NewFold]
  /\ pc' = "before"
  /\ data' = None /\ splits' = <<>>
  /\ UNCHANGED <<index, history, outcome>>

\* Mutant: the entry at the winning position is cut off with the rest.
EndShort(how, i, metric) ==
  /\ pc' = "done"
  /\ outcome' = [how |-> how, metric |-> metric,
                 best |-> IF i = None THEN -1 ELSE Checkpoints[i]]
  /\ history' = IF i = None THEN history ELSE SubSeq(history, 1, i - 1)

\* The run ends at position i of the checkpoints, or at none of them.
End(how, i, metric) ==
  /\ pc' = "done"
  /\ outcome' = [how |-> how, metric |-> metric,
                 best |-> IF i = None THEN -1 ELSE Checkpoints[i]]
  /\ history' = IF i = None THEN history
                ELSE SubSeq(history, 1, Least(i, Len(history)))

\* The before-iteration callbacks let the round be grown.
Before ==
  /\ pc = "before" /\ index <= Len(Checkpoints)
  /\ pc' = "grow"
  /\ UNCHANGED <<data, splits, config, index, folds, history, best, outcome>>

\* One of them stops the run: the round it stopped does not exist.
StopBefore ==
  /\ pc = "before" /\ index <= Len(Checkpoints)
  /\ config.incremental
  /\ End("before", IF index = 1 THEN None ELSE index - 1, None)
  /\ UNCHANGED <<data, splits, config, index, folds, best>>

\* Every fold in turn, then every metric on every fold.
GrowAndScore ==
  /\ pc = "grow"
  /\ folds' \in {fs \in [DOMAIN folds ->
                           UNION {Advanced(folds[f], Checkpoints[index]) :
                                    f \in DOMAIN folds}] :
                   \A f \in DOMAIN folds :
                     fs[f] \in Advanced(folds[f], Checkpoints[index])}
  /\ \E means \in [DOMAIN Metrics -> Scores] :
       history' = Append(history, [round |-> Checkpoints[index],
                                   means |-> means, folds |-> folds'])
  /\ pc' = "after"
  /\ UNCHANGED <<data, splits, config, index, best, outcome>>

\* An after-iteration callback stops the run and names a round, or none.
StopAfter ==
  /\ pc = "after"
  /\ config.incremental
  /\ \E named \in {None} \cup (0 .. config.rounds) :
       End("after", ExceptionIndex(named), None)
  /\ UNCHANGED <<data, splits, config, index, folds, best>>

\* The callbacks let the run go on, and the consensus has seen the round.
Observe ==
  /\ pc = "after"
  /\ LET means == history[index].means
         stop == OutOfPatience(means)
     IN  /\ best' = Observed(means)
         /\ IF stop = {}
            THEN /\ pc' = "before" /\ index' = index + 1
                 /\ UNCHANGED <<history, outcome>>
            ELSE /\ \E w \in stop : /\ \A v \in stop : w <= v
                                    /\ End("consensus", best[w].index, w)
                 /\ UNCHANGED index
  /\ UNCHANGED <<data, splits, config, folds>>

\* Every checkpoint was evaluated.
RunOut ==
  /\ pc = "before" /\ index > Len(Checkpoints)
  /\ End("rounds", None, None)
  /\ UNCHANGED <<data, splits, config, index, folds, best>>

\* Training, a metric or a callback raised something that is not a stop.
Raise ==
  /\ pc \in {"grow", "after"} \/ (pc = "before" /\ index <= Len(Checkpoints))
  /\ pc' = "raised"
  /\ UNCHANGED <<data, splits, config, index, folds, history, best, outcome>>

Next == \/ Generate \/ Given \/ BuildFolds
        \/ Before \/ StopBefore \/ GrowAndScore \/ StopAfter \/ Observe
        \/ RunOut \/ Raise

Spec == Init /\ [][Next]_vars

----------------------------------------------------------------------------
(* Properties. *)

\* No fold trains on a row it is scored on, and a ranking fold not on another
\* row of such a row's query: the held-out score is out of sample, whether
\* cv() built the folds or was given them.
OutOfSample ==
  pc \in {"generated", "given"} =>
    \A s \in Range(splits) :
      /\ s.train # {} /\ s.test # {}
      /\ s.train \cup s.test \subseteq Rows(data)
      /\ \A r \in s.train, t \in s.test : data.owner[r] # data.owner[t]

\* No fold holds out two more of these rows' items than another.
Even(rows) ==
  \A f, g \in DOMAIN splits :
    Cardinality({data.owner[r] : r \in splits[f].test \cap rows})
      <= Cardinality({data.owner[r] : r \in splits[g].test \cap rows}) + 1

\* Generated folds hold every row out exactly once and train on it in every
\* other fold, and are as even as their number allows: in rows or queries, or
\* label by label.
HeldOutOnce ==
  pc = "generated" =>
    /\ \A r \in Rows(data) :
         Cardinality({f \in DOMAIN splits : r \in splits[f].test}) = 1
    /\ \A s \in Range(splits) : s.train = Rows(data) \ s.test
    /\ \/ Even(Rows(data))
       \/ \A v \in Range(data.label) :
            Even({r \in Rows(data) : data.label[r] = v})

Value(w, i) == history[i].means[w]

\* Round i did as well as round j on metric w.
NotWorse(w, i, j) ==
  \/ Value(w, i) = Value(w, j) /\ Value(w, i) # NaN
  \/ Improves(Metrics[w], Value(w, i), Value(w, j), 0)

\* Round i was a record of metric w: no earlier round did as well.
Record(w, i) == \A j \in 1 .. i - 1 : ~NotWorse(w, j, i)

\* A run under early stopping goes on only while every watched metric set a
\* record within its last early_stopping_rounds rounds: one that stagnates
\* stops all the folds together, whatever the others do.
PatienceIsKept ==
  pc = "before" /\ config.patience > 0 /\ index > config.patience =>
    \A w \in Watched :
      \E i \in index - config.patience .. index - 1 : Record(w, i)

\* A run the consensus stops keeps the history up to a round that no other
\* scored round, cut off or not, beats by more than min_delta on the metric
\* that stopped it, and exactly early_stopping_rounds rounds were grown past it.
StopsOnTheBest ==
  [][outcome'.how = "consensus" /\ outcome.how = "running" =>
       LET w == outcome'.metric
           won == Len(history')
       IN  /\ outcome'.best = history[won].round
           /\ Len(history) = won + config.patience
           /\ \A j \in DOMAIN history :
                ~Improves(Metrics[w], Value(w, j), Value(w, won),
                          config.delta)]_vars

\* Every entry of the returned history scores all the folds at the round it
\* is labelled with (or where they converged before it), no round is missing,
\* and best_iteration is the last of them unless a callback named a round
\* that was never grown.
HistoryIsWhole ==
  /\ \A i \in DOMAIN history :
       /\ history[i].round = Checkpoints[i]
       /\ \A f \in DOMAIN folds :
            \/ history[i].folds[f].grown = history[i].round
            \/ /\ history[i].folds[f].finished
               /\ history[i].folds[f].grown < history[i].round
               /\ history[i].folds[f] = folds[f]
  /\ outcome.how # "running" =>
       CASE outcome.best = -1 ->
              Len(history) = IF outcome.how = "rounds"
                             THEN Len(Checkpoints) ELSE 0
         [] OTHER -> /\ history # <<>>
                     /\ \/ outcome.best = history[Len(history)].round
                        \/ /\ outcome.how = "after"
                           /\ outcome.best > history[Len(history)].round
                           /\ Len(history) = index
=============================================================================
