# TLA+ models of mojotrees

`mojotrees` trains gradient-boosted trees. Most of it is numeric code that runs
in one thread; these modules model the parts whose correctness depends on the
*order* in which things happen. The largest is distributed training: processes
that find each other over TCP, run one schedule of blocking reductions in lock
step, and are started, watched and stopped by a Dask client. The others are the
chunk cache that training data too large for memory goes through, the host's
side of a GPU training session, and the lock-step folds of a cross-validation.
Paths below are relative to the repository; `src/mojotrees/` holds the Mojo
package and `python/mojotrees/` the Python one.

## 1. Inventory

| part | source | state it keeps | operations | modelled |
|---|---|---|---|---|
| transport session | `distributed_transport.mojo` `TransportSession` | state, failure code and rank blamed, `<<epoch, seq>>`, call in flight, deadline, lost ranks | `complete_handshake`, `begin`, `check_deadline`, `validate`, `finish`, `next_epoch`, `cancel`, `mark_lost`, `close` | `SessionState`, `TransportSession` |
| contract of a reduction | `collective.mojo` trait `Collective` | none of its own | all-reduce sum and max, barrier; built on it: `agree_status`, `agree_equal_ints` | `AllReduce`; the agreements in `DistributedRun` |
| transport collective | `distributed_transport.mojo` `TransportCollective`, `SocketEndpoint` | one session, one endpoint per peer (`live`, descriptor), the buffer | gather at rank 0 in rank order, broadcast, checkpoint boundary, cancel, shutdown | `TransportCollective` |
| rendezvous | `distributed_transport.mojo` `connect_world`, `open_socket_collective` | listener, accepted endpoints and records | bind, accept, announce, refuse, relay, join | `Rendezvous` |
| distributed trainer | `distributed.mojo` `train_distributed_run` | the ensemble, scores, best metric, report, checkpoints | agreements at the start; per round verdicts, histograms, split agreement, metric, checkpoint | `DistributedRun` |
| Dask fit | `_dask_runtime.py`, `dask.py` | `_live` jobs and futures of a backend, `_WORKER_SESSIONS` on each worker | `bind_runtime`, `train`, `take_model_bytes`, `cancel`, `release`, `_train_rank` | `DaskFit` |
| feature and voting parallel growers | `distributed.mojo`, `distributed_strategies.mojo` | elected features, votes | elect, exchange, grow | planned |
| checkpoint records, restart | `distributed_transport.mojo` | `CheckpointMeta` | record, resume | recording only |
| GPU session | `gpu_runtime.mojo` | hazard tracker, staging ring, lifecycle; residency, pool and kernel ledgers | staging, launch, sync, round and tree bounds, close | `GpuDevice`, `SyncDevice`, `GpuSession`; not the ledgers |
| GPU training | `train_gpu.mojo`, `histogram_gpu.mojo`, `gpu_objectives_native.mojo`, `gpu_active_rows.mojo` | device buffers, pinned staging and downloads, the scale in force and its window, the ensemble | per round gradients and scale; per tree features, rows, histograms, splits; score update; flush | `GpuFit`: one output, the host's split scan |
| external memory | `external_memory.mojo`, `sequence.mojo` | chunk files, row-field file, manifest, raw spill | spill, build in passes, open, verify, load, discard | `ExternalMemory` |
| cross-validation | `cv.py` | splits, one growing model per fold, history, consensus | split, advance, score, callbacks, stop, truncate | `CrossValidation` |
| single-node boosting | `boosting*.mojo`, `callback.mojo`, `tree*.mojo` | ensemble, scores, DART drops, bags | round loop, callbacks, early stopping, rollback | the distributed loop's share |
| model editing, C handles | `model_editing.mojo`, `capi/` | model, handle table | prune, shrink, merge; create, free | planned |
| binning, histograms, gains, objectives, metrics, sampling, prediction, model files | `binning.mojo`, `histogram.mojo`, `split.mojo`, `objective.mojo`, ... | none between calls | numeric functions | no: no order of events to get wrong, and floating point is outside TLC |
| GPU kernels and device policy | `gpu_*.mojo`, `device_policy.mojo` | none between calls | kernels; a decision table | no |
| command line, R package, bindings | `cli/`, `r/`, `bindings/` | none | forward to the above | no |

`PROJECT.json` lists every component with its sources and the reason when it is
left out.

### How the parts meet

```
 dask.py fit ── submits one rank task per shard ──> _train_rank on a worker
   │  waits for all futures, takes rank 0's model        │ opens, registers,
   │  on failure: cancel sessions, then futures          │ trains, forgets, closes
   v                                                     v
 DaskFit                              Rendezvous ──> TransportCollective (one per rank)
                                                         │ drives one session
                     AllReduce  <── implements ──        v
                        ^                            TransportSession / SessionState
                        │ assumed by
                  DistributedRun (train_distributed_run on every rank)
```

The trainer of each rank is single-threaded and blocks inside one reduction at
a time. A worker sends its buffer to rank 0 and blocks in a read; rank 0 reads
from rank 1, 2, ... in turn, folds, and writes the result to each in turn. So
the only places where ranks interact are frames on N - 1 connections, the ends
of those connections, and the deadlines of their own clocks. Above, the Dask
client interacts with the ranks through futures and through a registry that a
cancellation task, in a thread of its own, looks up on each worker.

The three other parts stand beside this stack and share no state with it:

* processes that use one `CacheLayout` meet only in its files
  (`ExternalMemory`); a trainer then loads a cache as if it were a matrix;
* a GPU trainer borrows one `GpuSession`, whose device works a queue off behind
  the host's back. There are two disciplines for that queue in the code: the
  session's tracker and ring, which wait only where a queued operation is in the
  way (`GpuSession` over `GpuDevice`, implements `SyncDevice`), and what the shipped
  trainers do, which announce rounds and trees to the session but enqueue past its
  tracker and drain the context themselves (`GpuFit`);
* `cv()` drives one model per fold through the single-node trainer, one round at
  a time in one thread (`CrossValidation`).

### What is hard here

* A rank that skips, repeats or reorders one reduction leaves the others
  blocked, or sums two different things. Everything one rank can decide alone
  (its shard is empty, its callback wants to stop, its target is invalid) must
  first be reduced.
* A reduction has N participants and finishes at each of them at another time.
  A peer can die before, inside and after the broadcast.
* Only a deadline ends a wait for a host that vanished without closing its
  connection, and a deadline races with the answer.
* Floating-point addition does not commute with reordering: every rank must get
  the sums of one order of additions.
* The numbers `<<epoch, seq>>` restart at a checkpoint boundary; a frame of an
  earlier number must not fit a later one.
* A failing fit has to be stopped in two halves (native sessions, futures), from
  a thread that does not know how far each rank has come.
* A cache is many files without a lock, written over and emptied by whoever has
  its paths; only the order of the writes and the checksums in the manifest keep
  a half-built or half-discarded one from opening.
* A queued copy reads a staging slot after the call that enqueued it returned,
  and the host must wait exactly when it would touch what a queued operation
  uses; the tracker that decides this has one flag for all slots.
* The GPU trainer leaves the score update of a tree queued, rewrites a pinned table
  for it without a drain, and may check the scale of a histogram rounds after it
  was built.
* A cross-validation ends for one of four reasons, before, in or after a round,
  and its history and `best_iteration` have to be of the rounds that were run.

The list of hazards with their lines, and the property that covers each, is in
`PROJECT.json`.

## 2. Modules

Each state machine is one module, its theorems a `_proofs` module and its
instances for TLC an `MC` module with its `.cfg` files. Definitions that start
with the comment `Mutant:` are deliberate bugs, at least one per checked property: with
the mutant in place of the definition after it the property must fail, which
shows that the property is about the code and that the bounds reach the case.

**SessionState** translates the methods of `TransportSession` as operators on a
record: each takes a session and arguments and yields the session after the
call and whether it raised. Field names and failure codes are the source's.

**TransportSession** is one such session with a caller that issues any operation
at any time with any argument, right or wrong, and ignores every error. It adds
a monotonic clock and the history `opened` of the numbers of all collectives it
began.

**AllReduce** is the abstract specification: ranks with programs (sequences of
calls), `Enter`, `Deliver`, `GiveUp`. A reduction is kept symbolic, as the
sequence of contributions in the order they were folded, so that two sums that
could differ by a rounding are different values.

**TransportCollective** is a world of N ranks running `TransportCollective` over
`SocketEndpoint`. `pc[r]` is where the blocking driver stands; `StartCall` is
`begin` and the fork into the two roles, `EnterRecv`/`Receive`/`RecvLost`/
`RecvTimeout` are `_recv_from`, `Send`/`SendLost` are `_send_to`, `FinishCall`
is `finish` and the return, `OpenEpoch` is the tail of `checkpoint_boundary`,
`Shutdown` is `shutdown`. `wire` is a queue of whole frames per direction,
`live` and `fds` are the two things an endpoint knows about itself; they differ
exactly where the code lets them differ. The environment kills processes,
cuts hosts off, corrupts and duplicates frames, cancels sessions and lets time
pass. A frame is sent and received whole: a torn one is an end of stream or a
timeout to the code that reads it. The module instantiates AllReduce with
`entered <- calls`, `delivered <- results` and `gone <-` the ranks that left
their loop; the refinement is a checked property, and proved.

**Rendezvous** is `connect_world`: the root's accept loop with its refusals and
its failure path, the relay in rank order, the workers' retry, announcement and
check, each with a deadline that may pass at any step. Who is started and what
each announces is chosen at the start. Binding the address succeeds, and a
worker's refused connection attempt is no step.

**DistributedRun** is the schedule of `train_distributed_run` with the
data-parallel grower. `run[r]` holds the locals of rank r's call; `offer[r]` is
the reduction it waits in (with the position in the program, `what`, which the
code does not send and the properties use), `answer[r]` what it was handed.
`Meet` is the reduction: it assumes of the transport what the run `collective`
checks of it, no more: one reduction for all when the shapes agree, failure for
all when they do not, and `Lose` for a rank whose peer is gone or whose answer
never came. A histogram is one number, of which a split is found from `SplitAt`
on; a tree is the sequence of histograms that were reduced for it, a leaf's
sibling has what is left of the parent's. Rows, targets, losses and callbacks
are chosen where they enter a reduction.

**DaskFit** is a fit through the Dask backend: the client thread (`Bind` ...
`Release`), its two-half cancellation (`LookUp`, `CancelSession`,
`CancelFutures`), and the rank task on a worker (`Start` ... `Close`). Futures,
workers and the native session are external, modelled from how they are used:
a future runs at most once and cancelling it stops it only before it starts; a
session opens when its whole world does, and a blocked training call returns
when its session is cancelled or a peer has gone. A worker can die with all it
holds. `Plans` says which fits are made and with how many ranks; what a fit has
planned is `RanksOf`, and an initial state picks one plan and with it the number
of faults to come.

**ExternalMemory** is processes that share one `CacheLayout`. `disk` maps file
names to texts; a text is the record of what it describes and serves as its own
checksum. `_write_file` is two steps (`open` truncates, then the text is there),
so a process can die or another can read in between. A build is `StartBuild`,
optionally `SpillOpen`/`SpillWrite` per raw chunk (`spill_source`), then the
passes `Census` (`gather_row_fields`), `Fit` (`fit_mapper_external`, its blocks
taken as one pass) and `TransformOpen`/`TransformWrite`, then row fields and
manifest (`LastOpen`, `FieldsWrite`, `ManifestWrite`). A handle is opened
(`Open`, `Verify`), loaded file by file (`StartLoad`, `Load`) and discarded
(`StartDiscard`, `Discard`). `Crash`, `Cancelled` and `SourceRaises` leave
everything on disk as it is. `disturbed` and `contended` are histories the
properties speak of: which processes another has written beside, and whether two
writers met or one built over a cache.

**GpuDevice** is the memory a session works on and the operations of the
module's own pipeline description (`model_upload_gradients` ..
`model_apply_split`), with what each reads, writes and computes; contents are
kept symbolic, as where they came from. **SyncDevice** is the promise: every
operation is done before its call returns. **GpuSession** is the real thing: a
`queue` the device retires from the front whenever it likes (`Retire`), the
tracker's two flag sets, the ring's `enqueuedAt` and `cursor`, and the
lifecycle. `AcquireStaging`, `Fill`, `Staged`, `SetFeatures`, `BagLeaves`,
`ResetLeaves`, `ApplySplit`, `BuildLeaf`, `ReadHistogram` are the operations of
a round, in any order a caller likes; where the code synchronizes, the step is
enabled only once the queue is empty, so a `Sync` the tracker leaves out really
is not waited for. `Raise` ends a fit between any two steps and announces
nothing, and the next fit begins where the lifecycle was left. The refinement
maps `mem` to the memory as it will be once the queue has run.

**GpuFit** is what the repository ships in front of that queue. It extends
GpuSession, keeps its lifecycle (`StartRound`, `StartTree`, `FinishTree`,
`FinishRound` announce the boundaries) and leaves its tracker and ring alone, as
the trainers do. A fit is `BeginFit`, then rounds of `UploadGradients`
(`upload_gradients`: gradients of the host) or `FillGradients`
(`fill_gradients_device` from raw scores on the device), with `RefreshScale` where
the window of `set_scale_refresh` closes; a tree of `ChooseFeatures`, `SeedAll` or
`SeedBag`, and `BuildHistogram`, `DownloadRaw`, `SplitLeaf` until `FinishTree`;
then `KeepTree`, which for device gradients queues `UpdateRawRanges`, or `DropTree`;
and `FlushScaleWindow` before `Return`. `Synchronize` is the builder's own drain: a
step that has it waits for an empty queue. `Fails` is an error between any two steps,
`CloseSession` the owner of the session. Gradients are the trees whose scores they
were computed at and the sum of their magnitudes, so a tree grown from the scores
of too few trees, or with the ranges of another, can be told from a right one.

**CrossValidation** is one call of `cv()`. `Generate` and `Given` are the two
sources of splits with the checks of `_Split.check` and `_check_whole_queries`;
`BuildFolds` chooses the configuration the driver accepts; each round is
`Before`, `GrowAndScore`, then `Observe` or a callback that stops the run
(`StopBefore`, `StopAfter`) or something that raises (`Raise`); `End` is the
tail of the driver that sets `best_iteration` and truncates. Row lists are sets,
a fold's Booster is how many rounds it has grown and whether it converged, and
an across-fold mean is any member of `Scores`, NaN included. Callbacks read the
folds and do not train them. The checks on given folds are made fold by fold, so
one pair stands for any number.

### Order of the plan

Done in this order: SessionState and TransportSession; AllReduce;
TransportCollective with the refinement; Rendezvous; DistributedRun; DaskFit;
the proofs about the session and the contract; ExternalMemory, GpuSession
and CrossValidation, each with its proofs; the proofs about TransportCollective
with its refinement, DaskFit and DistributedRun; the refinement of GpuSession; the
proofs about Rendezvous, and that neither a whole world nor a faultless collective
needs a deadline; GpuFit. Next, in this order:

1. `ParallelGrowers`: the feature-parallel and voting-parallel tree growers over
   the collective of DistributedRun, with the election (ties, ranks without
   features, votes for features a rank does not own) against a reference;
2. an inductive invariant for GpuFit and its proofs; the residency and buffer-pool
   ledgers of GpuSession;
3. thread slots in DaskFit, and several fits of several ranks each; restart from a checkpoint once a
   trainer accepts one;
4. the single-node boosting loop with callbacks and early stopping, the C handle
   table, model editing.

## 3. Runs

Passing runs. Times are of a two-core machine.

| run | instance | shows |
|---|---|---|
| `session` | 3 ranks, clock to 1, epochs to 1, seq to 2 | Whatever order of calls: a failed, cancelled or closed session never completes or renumbers a collective, keeps its first cause, and opens no number twice |
| `collective` | 3 ranks, sum, checkpoint barrier, sum; two faults of crash, cut-off, cancellation; time passing anywhere (1.0 M states) | TransportCollective implements AllReduce, so every result is the rank-ordered reduction of what all ranks entered; without a fault no deadline is needed |
| `collective_wire` | 2 ranks, each one of seven programs; one fault of any kind (140 k states, with fairness) | No frame of another collective or a duplicate is folded, diverging programs fail rather than mix, epochs open at the same call, every rank leaves |
| `rendezvous` | world of 3, up to three processes, each a worker, a stranger to the world or of an earlier epoch; one crash; any deadlines (200 k states, with fairness) | Who joins has accepted exactly one process per rank, all of its own job, epoch and world; a whole world needs no deadline; nobody waits for ever |
| `run_lockstep` | 3 ranks, 2 rounds, up to 3 leaves, agreed splits or early stopping with checkpoints, empty shards, bad targets, disagreeing configuration, verdicts continue/stop (2.3 M states) | All ranks issue the same calls, fail together for the same reason, and none is left waiting |
| `run_crash` | 2 ranks, 3 rounds, options that may differ from rank to rank (patience 1 and 2, checkpoints every 1 or 2 rounds, with and without agreed splits), every sequence of losses, verdicts continue/stop/abort/raise/reset, crashes anywhere (790 k states, with fairness) | Equal options give equal models; a recorded checkpoint is one the whole world reached; early stopping ends the run at exactly the first stagnant round, said of the report alone; every rank ends |
| `dask_fit` | one fit of 3 ranks on 3 workers with two of: failing rank, dying worker, timeout, interrupt, anywhere; or two fits of one rank each on one shared backend with one of these (410 k states, with fairness) | A model means every rank finished; a cancellation wakes every registered session; a fit that fails while awaited leaves nothing running; the caller is answered, also when another fit's interrupt cancelled the ranks it waits for, and the workers get everything back |
| `external_memory` | 2 processes, 2 data sets, up to 2 chunks, 3 builds or openings (1.4 M states) | A manifest, on disk or in a handle, describes one source; what is loaded is what the opened build wrote; without a second writer a manifest that opens names a whole cache; a trusted dataset loads until somebody else writes |
| `gpu_session` | 2 staging slots, 2 values, 4 operations on the queue besides the filling of slots (690 k states) | The host never touches what a queued operation uses, reads what a device without a queue would give it, and is never refused a boundary |
| `gpu_fit` | 2 fits of up to 3 rounds on one session, up to 2 splits a tree, magnitude sums 1 to 3, windows of 1, 2 and 3 rounds and one with headroom, a bag and two feature lists (1.8 M states) | Every tree is grown from its own rows and features and from the scores of all trees kept before it, though nobody waits for a score update; a fit that returns built no histogram that outgrew its scale; the host writes nothing a queued operation uses and reads nothing one still writes |
| `cross_validation` | up to 4 rows or queries, 2 or 3 folds, 3 rounds, two metrics of opposite direction, scores 0, 1 and NaN, patience 0 to 2, min_delta 0 or 1 (1.5 M states) | Scores are out of sample, each row is held out once and evenly, early stopping goes on exactly while every watched mean keeps setting records, and stops on the round that won; the history is whole |

The type invariants of TransportSession, TransportCollective, Rendezvous,
DistributedRun, DaskFit, ExternalMemory and GpuSession are proved; that of
CrossValidation is kept beside its history invariant, which types the loop. None is
part of a run, where the properties that remain fail first on a state of a wrong
type. `NoCollectiveWithoutAPeer` of TransportSession is proved and in no run either.

One run shows a divergence between the code and what it says of itself; section 5
records the others:

| run | statement | what happens |
|---|---|---|
| `collective_all_or_nothing` | the trait: an all-reduce "either delivers the complete result to every rank or fails on every rank" | a deadline that passes inside rank 0's broadcast leaves the ranks already written to with the result and the others without |

### Why the bounds are enough

Three ranks are the least with two workers at the root, which is where the order
of a gather, a broadcast that breaks off half way and the relay of a third
party's record first exist; the two-rank runs ask questions about a pair
(a frame and the call it meets, a caller and its answer). Three calls put a
renumbering between two numbered calls. Two faults let one failure happen while
another is being handled. `Timeout = 0` with one tick past it makes the two sides
of a deadline reachable at every step; a longer timeout only adds ticks that
change nothing. Two rounds let a rank be one round ahead; early stopping gets
three, so that a patience of one can run out after an improvement and one of two
can run out at all. Rows per shard are 0 or 1, because only a shard without rows
takes another path. Histograms
are then at most N, splits are found from 2 on, and three leaves are what a
second choice from the frontier needs. Two processes over one cache are a writer
and whoever it disturbs, two chunks put a file after the first, and the third
program lets one be opened, rebuilt under its handle and opened again. Two
staging slots are the least a rotation needs, and four operations are enough for
an upload and two histograms with a host write between them, or for two uploads
of one slot. For a fit, three rounds give a window of three that closes after one
of reused scale, and one that the end of the fit finds half full; sums 1 to 3 lie on
both sides of the power of two a scale has room for; two splits put a partition
behind a partition; and a second fit finds what a first one left on the queue. Four
rows over three folds have a remainder, four over two have
none, three rows of one label are more than the folds and one is fewer; three
rounds let a record be set after one that was not, and run out a patience of two;
a third score (NaN) compares with neither of the others. Counters that would grow for ever (clock,
epoch, seq, faults, crashes, programs, operations) are capped in guards named
after them.

### Fairness

* `TransportCollective.FairSpec`: a rank's thread runs when it can, and its clock
  goes on. Nothing is owed by the environment: a fault need not happen, a frame
  is there or it is not.
* `Rendezvous.FairSpec`: processes run, and a connect deadline that has not been
  met passes (`connect_deadline` is taken from the monotonic clock before the
  first attempt). Crashes are owed nothing. That the deadline is *not* what
  brings a whole world together is the safety property `EveryoneJoins`.
* `DistributedRun.FairSpec`: a process runs until it ends, and a reduction that
  everyone has entered completes, which is `NoRankHangs` of the transport.
* `DaskFit.FairSpec`: some client thread and some rank task take a step while
  one can. Timeouts, interrupts, failures and deaths are owed nothing; the
  native session's own deadlines are why a blocked rank task goes on.

ExternalMemory, GpuSession, GpuFit and CrossValidation state safety only and assume no
fairness: a process may be killed for good, a device may never retire, and the
round loop of `cv()` is a bounded `for`.

`CHECK_DEADLOCK FALSE` is set only for Rendezvous, where all processes may have
finished, and for CrossValidation, where the call has returned or raised; the
other modules have an explicit `Done` or `Finished` step that is enabled only
then, so that TLC's deadlock check finds a world that is stuck. For GpuSession
and GpuFit this is a check worth having: a `Sync` waits for an empty queue, which
the device can always bring about.

## 4. Proofs

Checked by TLAPS for every value of the constants, under the assumptions named
in the modules: `N` and the bounds are naturals, `Self` is a rank, programs are
sequences of calls of the three operations in which a barrier carries no elements
(`barrier()` begins a collective of length 0, `distributed_transport.mojo:2249`), a
process announces a rank of a world of two or more that is not its root (with one
rank `connect_world` opens nothing), options have the types of their fields.
Three theorems of DistributedRun and one of DaskFit state a further hypothesis of
their own, given below with the reason for it. Every invariant that a passing run
checks is stated by a theorem, but for those of GpuFit, which are model-checked.

`TransportSession_proofs`: the inductive invariant is `IInv`: the record is
`Healthy` (typed, FAILED or CANCELLED exactly when it carries a code, and no
rank lost unless it is one of the two), the clock is a natural, and
`Numbered`: every number in `opened` is of an earlier epoch than the session's,
or of its epoch with a smaller seq, or the one in flight. `Numbered` is what
`NumberNeverReused` lacks to be inductive: that property only speaks of the
current pair and would not survive `finish`. Each operation of SessionState has
a lemma that it keeps a healthy record healthy, that its step is `Lawful`
(a terminal state, a recorded cause and a number are kept) and what it does to
the number; most operations leave the number alone (`Quiet`), so the invariant
is argued once for them and separately for begin, finish and next_epoch. From
`IInv` follow `TypeCorrect`, `CauseRecorded`, `LossIsTerminal`,
`NumbersAreFresh`, and from the lawful steps the action properties
`DeadForGood` and `FirstCause`.

`TransportCollective_proofs`: every sum a rank is handed is the fold in rank order
of one call that everyone made, in a world of any size, for any programs, with
frames repeated, corrupted or read late. The numbers `<<epoch, seq>>` are compared
lexicographically, and the inductive invariant `IInv` says what can be on a
connection: to the root, the contribution it takes next, or a frame whose number
is behind the root's or that of one it has taken (`ContributionFrame`); to a
worker, the result of the call it is in or a frame behind it (`ResultFrame`). A
frame that is behind is harmless because `Validate` refuses it and a session's
number only grows. `Taken` counts what the root has folded of each worker and ties
the pace of the two together (`Pace`); `RootBuffer` and `WorkerBuffer` say what
each has in hand; `Backed` says that every result is the reduction of a call
entered by all in one shape; `Numbered` says that the epoch counts the checkpoints
behind a rank and seq the calls since, which is why equal numbers mean the same
call when programs agree. Most steps touch one rank's control alone and are argued
once (`QuietKeeps`); sends, receipts, `StartCall`, `FinishCall` and `OpenEpoch`
have a lemma each. From it follow `TypeCorrect`, `ReductionIsOrdered`,
`CallsAreTheSame` and `EpochsAreAgreed`. `Implementation` is the refinement:
`StartCall` is `Enter`, `FinishCall` is `Deliver`, leaving the loop is `GiveUp`,
and everything else is a stutter.

What the contract gives its callers is proved of the contract alone
(`ContractAgrees`, `ContractWaits`), which therefore needs no run of its own, and
then holds of the transport because it implements it (`RanksAgree`,
`NobodyRunsAhead`). The contract's invariant adds
`ContractBacked` to its types: every delivered result is the reduction of a call
which all ranks had entered with one shape when it was delivered, which no later
step can undo because programs are fixed and `entered` only grows. Ranks agree
because a reduction depends on a rank only through the shape of its call.

`EveryoneReturns` is about ranks of one program that meet no fault: nobody raises,
nobody stops before its last result, and until all have stopped somebody can take
a step, as long as no deadline has passed. `IInv` does not give that, because it
only says what a frame means *if* it is there. `Smooth` says what is there: a
worker's contribution is on its connection from the send until the root takes it,
alone and intact (`Upward`), a result likewise (`Downward`), neither side is more
than one frame ahead of the other (`Turns`), every session is in the collective
its driver is in with nobody lost, and connections are closed by who has stopped
and nobody else (`Sound`). Nobody stops early for a peer to find its connection
closed, because the root leaves after its last broadcast and a worker after it has
read it (`NobodyHangs`, `AllRead`). A deadline can pass in the middle of such a
world, and the property, which looks at one state only, has to survive that: a
rank that gives up late keeps a clock past its deadline for good (`EndedLate`),
so the invariant is `Undelayed`, `Smooth` or somebody `EndedLate`. Deadlock freedom
is then `SomebodySteps`: if the root waits for a worker whose contribution is not
there, that worker has not sent it and is not waiting for a result either.

`DistributedRun_proofs`: the argument looks through the answers that were not read
yet. `Bound(r)` is the state rank r's locals will have once it has read the
reduction it was handed. Between two meetings bound states change only by a rank's
leaving; a meeting moves all of them at once, and all from one call, because the
shapes of the calls of a round tell them apart (`CloseBy`); where a move leads is a
function of locals and options. So ranks bound for one call have grown the same
trees whatever their options, and ranks with the same options are bound for the
same state (`Twins`). `Scoring` says that `best` is the first of the least losses,
which makes the code's stagnation counter the age of that loss, and `WorldWide`
that a recorded checkpoint is a prefix of everyone's trees, since the barrier before
it was everyone's. `OutcomesAgree`, `CheckpointsAreTheWorlds` and `StopsAsReported`
need nothing more. `OneSchedule` and `NobodyLeavesEarly` are about worlds started
with one set of options (`SameOptions`): the code does not agree on the options,
and with different ones both fail (section 5). `WorldInStep`, `FailuresAreOne` and
`SplitsNeverDisagree` are about `Calm` worlds, in which moreover nobody is killed
and a callback continues, stops or aborts: one that raises or resets a parameter
fails on its own rank alone (section 5).

`DaskFit_proofs`: the invariant has two halves. On the workers, the native session
and the registry slot of a rank follow from where its task is. On the client, a
future that is over never changes, a fit in `live` has its ranks submitted, and a
cancellation either has its own job still to do or has cancelled every future of it.
The halves meet in three places only: a client submits a task, cancels a session
and cancels what is queued. From it follow `TypeCorrect`, `ModelIsWhole`,
`AbandonedAreCancelled` and `RanksLeaveNothing` (a worker whose rank is over holds
no session and no slot of it: the safety half of `WorkersAreFreed`), for any number
of fits, plans and faults. `EverySessionIsFound` assumes `OneRankPerWorker`; with
two ranks of a fit on one worker it is false (section 5).

`ExternalMemory_proofs`: the inductive invariant says of each process how far its
build has come (which data its census and its edges have seen, and that the
records of its transform pass are a prefix of the cache of its source), that
every handle and the manifest on disk is the cache of one source, and that each
text loaded is the recorded one. It says nothing of the other files on disk,
which is the point: a process believes them only after comparing them with what
it recorded, so no interleaving of other writers can disturb it. `CacheIsOfOneSource`
alone would not be inductive: the next write of a manifest is only right because
of what the passes before it read. From it follow `TypeCorrect`, `OneSource` and
`LoadsAreOwn`.

What holds of the files themselves is a second invariant, `FilesInv`, on top of the
first. `Uncontended`: as long as no two writers have met and none built over a
cache, one process at most is between its first and its last cache file, no manifest
is on disk beside it, what it has written so far is still there, and a manifest that
is on disk names whole files. `Undisturbed`: a process nobody has written beside finds
the files it wrote, or verified, as it left them. The order of the code's writes
carries both: a build stores its manifest last and a discard empties it first. They
give `CacheIsWhole` and `TrustIsJustified`.

`GpuSession_proofs`: the inductive invariant joins the types,
`TrackerSeesTheQueue` (what a queued operation uses is flagged, and the ring
knows of every slot a queued copy reads), that no slot is marked with a drain
that has not happened, that the slot being filled is marked free, and that the
trainer's place agrees with the lifecycle. The second and third are why one flag
for all slots is enough: a slot whose mark is behind the drain count has no copy
on the queue, so it may be filled although the flag is up for another. From it
follow `TypeCorrect`, `TrackerCovers`, `BoundariesAreOpen` and the
action property `NoRace`. `Implementation` is the refinement. Its mapping `Flushed`
is a recursive function over the queue, so first come what it computes: a queue can
be run in exactly one way (`RunExists`, `RunUnique`, both by the least counterexample),
an operation appended is one more run at the end (`FlushAppend`), the first one
retired changes nothing (`FlushTail`), a cell nobody queued writes stays as it is
(`FlushUnwritten`), and a host write to a cell nobody queued touches is the same
write to the memory to come (`FlushWrite`). `TrackerSeesTheQueue` says that every
host write and read is of such a cell, which is where the refinement would fail if
the tracker forgot a flag; then enqueuing is running, and retiring is a stutter.

`CrossValidation_proofs`: `ScoresAreOutOfSample` follows from what the checks
leave of any split, by cases on the two sources. The loop has two more
invariants. `HistoryInv` types the loop's variables and says that every entry is
of its own round and was scored by the folds as they then were, converged ones
included; it gives `HistoryIsOfItsRounds`. `ConsensusInv` says of every watched
metric that its best is the value of the round it is filed under, that this round
was a record, and that no scored round beats it by more than `min_delta`;
transitivity of the comparison, NaN included, is the lemma `Chained`. It gives
`PatienceHolds` and, with the step that ends the run, `ConsensusStopsOnTheBest`.

`FoldsAreFair` is `HeldOutOnce` for every number of rows, queries, labels and folds and
every shuffle. The chunks follow one another and end with the last item, because the
earliest `n % k` of them take one more (`ChunksFollow`), so each place is in one
(`ChunksPartition`); a shuffle leaves each item at one place (`Permutation`), and the
queries of a ranking are numbered without a gap. Dealt label by label, a row's place
among its label's rows counts from zero without a gap (`PositionsCount`), and two
classes of remainders below a number differ by one in size, because shifting one
into the other loses at most its first member (`ResiduesAreEven`).

`Rendezvous_proofs`: the inductive invariant `IInv` is the types and `Forming`.
`Admitted` says that what the root accepted is compatible and of different ranks;
`Relayed` that it has accepted `N - 1` processes from the moment it relays, relays
to no other, and that a ready worker was relayed something. `N - 1` different ranks
below `N` that are not the root's are all of them, so `WorldsAreWhole` follows: in
whatever order processes connect, whichever of them are left over from other runs
and whoever dies, nobody joins but a whole world. `WholeWorldsJoin` is
`EveryoneJoins`: when exactly the workers of the world were started, none was
killed and no deadline has passed, nobody has raised, and until all have joined
somebody can take a step. Its invariant `Undisturbed` adds, of such worlds only,
`Connections` (the connection of a process that connected is in the backlog, under
examination or accepted, in one of them only and open at both ends) and `Progress`
(nobody raised, the listener is open while the root accepts, a worker that waits has
announced itself, and one that was relayed to was told of exactly the other ranks).
That the handshake of a worker told of `N - 1` others succeeds is `WorldOfTheOthers`.

Both deadlock-freedom theorems speak of the guards of the actions (`CanStep`,
`RootCanStep`, `WorkerCanStep`) where one could write `ENABLED` of the steps, which
TLAPS cannot expand; on the instances of the runs the two were compared with TLC
and agree in every state.

What TLAPS cannot reach here and TLC alone checks: the liveness properties
under fairness (`NoRankHangs`, `NobodyWaitsForever`, `EveryRankEnds`, `EveryFitEnds`,
`WorkersAreFreed`). The properties of GpuFit are within its reach and not yet proved.

## 5. Divergences seen while modelling

The first is the run of section 3. The others are kept here, with the property
and the constants under which TLC shows them:

* A result reaches some ranks and not others: `AllOrNothing`, the run
  `collective_all_or_nothing`.
* `GpuSession.close` says it drains the queue first (`gpu_runtime.mojo:2021`). It
  does so if the tracker has a flag up, and no shipped caller raises one: the
  builder, the objective state and the trainers enqueue on the context without
  `note_device_read`, `note_device_write` or `staged`. The last tree's
  `update_raw_device` (`train_gpu.mojo:4865`) is waited for by nobody, and the flush
  after the loop does nothing at the shipped cadence, so close releases and closes
  with it on the queue. `ClosedIsQuiet` of GpuFit in `MCGpuFit.cfg`, 21 steps with
  `MaxOps = 1`. `release_all` clears a ledger and frees no memory, so nothing is
  freed too early as the code is; it would be once the pool owned buffers.
* `DistributedRunOptions` says of early stopping "no rank can leave the loop while
  another waits in a collective" (`distributed.mojo:1024`), but the options are in
  no agreed value, and ranks given different `early_stopping_rounds` leave at
  different rounds. `NobodyIsLeftWaiting` of DistributedRun under `Spec` with
  N = 2, `Rounds = 3`, `NumLeaves = 1`, `Options <- EarlyStopping`,
  `SameOptions = FALSE`, `Verdicts = {"continue"}`, `MayCrash = FALSE`.
* `_train_with_cancellation` promises "an interrupt stopping the cluster"
  (`dask.py:1836`), but the fit enters `_live` after the last submit, so an
  interrupt among the submits cancels nothing. `InterruptStopsTheCluster` of
  DaskFit in `MCDaskFit.cfg`.
* `SocketEndpoint.close` returns early from an endpoint that `recv_exact` or
  `send_all` marked dead, so `shutdown` leaks the descriptor of exactly the peer
  that was lost. `ShutdownReleases` of TransportCollective with N = 2,
  `HistogramSchedule`, `Faults = {"crash"}`, `MaxFaults = 1`.
* `decode_frame` raises on a corrupt frame without telling the session, so
  `failure_code()` stays `TRANSPORT_OK`. `FailureIsNamed` with
  `Faults = {"corrupt"}`.
* The accept loop's failure path closes the listener and the accepted endpoints
  but not the one being refused, so the refused process hears nothing until its
  own deadline. `RefusalClosesTheConnection` in `MCRendezvous.cfg`.
* `cancel` sets CANCELLED over FAILED, though the comment calls both sticky; the
  recorded code and rank survive, which `FirstCauseKept` checks.
* A parameter reset by one rank's callback raises on that rank alone, and the
  others fail of a lost peer: `FailuresAgree` of DistributedRun with
  `Verdicts = {"continue", "reset"}`. A callback that raises does the same.
* `_WORKER_SESSIONS` has one slot per job, so of two ranks of a fit on one worker
  a cancellation finds the later. `CancelFindsEverySession` in `MCDaskFit.cfg`
  with `Worker <- Together`.
* On one registered backend an interrupt of a fit cancels every fit in `_live`,
  and the last `bind_runtime` decides whose client both train through.
  `CancelsOnlyItsOwn` and `TrainsOnItsOwnCluster` in `MCDaskFit.cfg`. Both
  callers are answered all the same, which is `EveryFitEnds` of `dask_fit`.
* `ExternalDataset.discard` goes by paths: a dataset opened before a rebuild
  empties the newer cache. `DiscardsOnlyItsOwn` of ExternalMemory in
  `MCExternalMemory.cfg`. Its docstring also says "Calling it twice is not an
  error" (`external_memory.mojo:1585`), but the second call raises in
  `_check_live` (`:1588`). The model has the code's side: a discarded handle has no further
  operation.
* `docs/EXTERNAL_MEMORY.md:81` says the manifest's schema fingerprint is re-checked
  on reopening; `open_external_dataset` checks the mapper's only.
* `_exception_index` says a callback's round outside "the rounds scored so far"
  gives way to the round it stopped on (`cv.py:1218`), but it searches all
  checkpoints, so a later round of the run is taken and `best_iteration` names a
  round no fold has grown. `HistoryIsWhole` allows exactly this case; without its
  last disjunct TLC shows it in `MCCrossValidation.cfg`.
* A first mean that is NaN stays the best of its metric, because nothing compares
  with it, and the run stops on it once the patience has run out. `StopsOnTheBest`
  holds of it because the statement uses the same comparison.
* `stage_gradients` justifies its drain by copies that are synchronous on Metal
  (`histogram_gpu.mojo:1496`); `gpu_runtime.mojo:60` has since measured that they
  are not. The drain is there, so the code is right and the reason is not.

## 6. Not modelled

* Bytes: layouts of frames and handshakes, partial reads and writes inside a
  frame, checksums (a corrupt frame is one that fails them). A frame whose length
  field is corrupt is refused earlier, in `recv_frame_bytes`
  (`distributed_transport.mojo:1481`), and marks the peer lost; in the model every
  corrupt frame raises in `decode_frame` and leaves the session untouched.
* Numbers: what histograms, gains, leaf values and losses are. The models keep
  the order of additions, which is what makes ranks agree.
* The memory endpoint and the manual clock of the tests.
* A cancellation that runs inside `finish`, between its check and its assignment,
  on another thread: `finish` and `cancel` are one step each. Nothing in the
  repository calls the two from two threads.
* Dask's scheduler policy: a task restricted to a worker that is gone stays
  queued, and when no worker of a fit is left nobody answers its caller.
* Resuming: `resume_session` has no caller outside the tests, so there is no
  restarted run to state a property of. `Rendezvous` compares the epochs a
  restart would announce.
* In ExternalMemory: reads of a whole file that another process truncates half
  way (a read is one step, a torn text is `Blank` to every reader), checksums that
  collide, copies of a handle, the sparse twins, the categorical tally and the
  byte budgets.
* In GpuSession: the residency, pool and kernel ledgers and the counters. Its
  results are about a caller that goes through the session, as the module's own
  description of the pipeline does: it tells the tracker of what it enqueues and
  asks it before it touches anything. The shipped trainers do neither, so nothing
  about them follows from this module but `NeverRefused`; they are in GpuFit.
* In GpuFit: the multi-output, ranking and random-forest loops; the device split
  search, resident and batched frontiers; bags of the device arm, whose score update
  goes through a router; bootstraps, leaf renewal and leaf estimation, which add
  waits. Of the two planes one stands for both, and sums of zero, which the check
  of a window is exempt from, do not occur; `scale_refresh = 0` differs from 1 in
  nothing that is modelled. `MaxOps` bounds the fits on a session.
* In CrossValidation: `fpreproc`, the datasets of a fold, metric evaluation and
  standard deviations, `init_model`, warnings, and callbacks that change the
  folds' Boosters. The consensus watches the first metric or all of them; a metric
  that opted out with `use_for_early_stopping=False` (`cv.py:1050`) is not told
  apart.
* Everything the last three rows of the inventory name.
