------------------------------- MODULE DaskFit -------------------------------
(***************************************************************************)
(* Distributed fits through Dask (_dask_runtime.py, and the fit path of    *)
(* dask.py): a client thread per fit submits one rank task per shard to    *)
(* the worker that holds it, waits for all of them and takes rank 0's      *)
(* model; a failure, a timeout or an interrupt cancels the world in two    *)
(* halves, the native sessions (found through each worker's registry, from *)
(* a task of their own) and then the futures.                              *)
(*                                                                         *)
(* External, modelled from their use: a Dask future runs at most once and  *)
(* cancelling it stops it only if it has not started; the native session   *)
(* opens when every rank of the world does, its training returns when all  *)
(* ranks train, and raises when it is cancelled, loses a peer or times     *)
(* out.  Left out: shard contents, parameters, metrics, model bytes.       *)
(***************************************************************************)
EXTENDS Integers, FiniteSets

CONSTANTS
    Fits,        \* concurrent fits; a fit also names its job id and client
    Workers,
    NRanks,      \* bound on the ranks of a fit
    Plans,       \* [fit -> how many ranks it has, 0 for a fit never made]
    Worker,      \* [rank -> the worker that holds its rows]
    Shared,      \* one registered backend serves every fit, or one each
    Interrupts,  \* where the caller may interrupt: "train", "await"
    MaxFaults    \* [plan -> bound on failures, timeouts, deaths, interrupts]

Ranks == 0 .. NRanks - 1
None == -1

ASSUME PlacementAssumption == NRanks \in Nat \ {0} /\ Worker \in [Ranks -> Workers]
ASSUME PlanAssumption == Plans \subseteq [Fits -> 0 .. NRanks]
ASSUME BackendAssumption == Shared \in BOOLEAN
ASSUME FaultAssumption == MaxFaults \in [Plans -> Nat]
ASSUME InterruptAssumption == Interrupts \subseteq {"train", "await"}

VARIABLES
    pc,         \* [fit -> where its client thread is]
    next,       \* [fit -> the rank it submits next]
    bound,      \* [fit -> whose runtime its backend was last bound to]
    via,        \* [fit -> whose client it submits through]
    live,       \* the fits in their backend's _live
    outcome,    \* [fit -> what the caller got]
    todo,       \* [fit -> the jobs its cancel has still to stop]
    sweep,      \* [fit -> the workers its client.run has not heard from]
    hit,        \* [fit -> the <<job, rank>> sessions found, not yet cancelled]
    then,       \* [fit -> what follows the cancellation]
    task,       \* [<<fit, rank>> -> its rank task]
    result,     \* [<<fit, rank>> -> how its training call ended]
    session,    \* [<<fit, rank>> -> its native session]
    registry,   \* [worker -> [fit -> the rank in _WORKER_SESSIONS, or None]]
    alive,      \* the workers running
    cancelled,  \* history: <<by, fit, rank>> futures cancelled, and by whom
    missed,     \* history: sessions in training a cancellation did not find
    faults      \* the failures, timeouts, deaths and interrupts left

client == <<pc, next, bound, via, live, outcome, todo, sweep, hit, then>>
worker == <<task, result, session, registry, alive>>
vars == <<client, worker, cancelled, missed, faults>>

Tasks == Fits \X Ranks
ClientStates == {"start", "bound", "submitting", "registered", "awaiting",
                 "cancelling", "releasing", "ended"}
TaskStates == {"unplanned", "none", "queued", "running", "opening", "opened", "training",
               "leaving", "forgot", "done", "error", "cancelled"}
Over == {"done", "error", "cancelled"}

\* The ranks of a fit's plan, and their futures.
RanksOf(f) == {r \in Ranks : task[<<f, r>>] # "unplanned"}
Futures(f) == {f} \X RanksOf(f)

Backmates(f) == IF Shared THEN Fits ELSE {f}

Init ==
    /\ \E plan \in Plans :
        /\ pc = [f \in Fits |-> IF plan[f] = 0 THEN "ended" ELSE "start"]
        /\ task = [t \in Tasks |-> IF t[2] < plan[t[1]] THEN "none" ELSE "unplanned"]
        /\ faults = MaxFaults[plan]
    /\ next = [f \in Fits |-> 0]
    /\ bound = [f \in Fits |-> f]
    /\ via = [f \in Fits |-> f]
    /\ live = {}
    /\ outcome = [f \in Fits |-> "none"]
    /\ todo = [f \in Fits |-> {}]
    /\ sweep = [f \in Fits |-> {}]
    /\ hit = [f \in Fits |-> {}]
    /\ then = [f \in Fits |-> "none"]
    /\ result = [t \in Tasks |-> "none"]
    /\ session = [t \in Tasks |-> "none"]
    /\ registry = [w \in Workers |-> [f \in Fits |-> None]]
    /\ alive = Workers
    /\ cancelled = {}
    /\ missed = {}

Goto(f, label) == pc' = [pc EXCEPT ![f] = label]
Fault == faults > 0 /\ faults' = faults - 1
CancelledFuture(t) == \E by \in Fits : <<by, t[1], t[2]>> \in cancelled

-----------------------------------------------------------------------------
(* The client thread of a fit.                                             *)

\* bind_runtime: the backend keeps the last runtime it was given.
Bind(f) ==
    /\ pc[f] = "start"
    /\ bound' = [g \in Fits |-> IF g \in Backmates(f) THEN f ELSE bound[g]]
    /\ Goto(f, "bound")
    /\ UNCHANGED <<next, via, live, outcome, todo, sweep, hit, then, worker,
                   cancelled, missed, faults>>

\* train: _client_for, then the launch.
BeginTrain(f) ==
    /\ pc[f] = "bound"
    /\ via' = [via EXCEPT ![f] = bound[f]]
    /\ Goto(f, "submitting")
    /\ UNCHANGED <<next, bound, live, outcome, todo, sweep, hit, then, worker,
                   cancelled, missed, faults>>

Submit(f) ==
    /\ pc[f] = "submitting" /\ next[f] \in RanksOf(f)
    /\ task' = [task EXCEPT ![<<f, next[f]>>] = "queued"]
    /\ next' = [next EXCEPT ![f] = @ + 1]
    /\ UNCHANGED <<pc, bound, via, live, outcome, todo, sweep, hit, then, result,
                   session, registry, alive, cancelled, missed, faults>>

\* Every rank is submitted: only now is the fit in _live.
RegisterLive(f) ==
    /\ pc[f] = "submitting" /\ next[f] \notin RanksOf(f)
    /\ live' = live \union {f}
    /\ Goto(f, "registered")
    /\ UNCHANGED <<next, bound, via, outcome, todo, sweep, hit, then, worker,
                   cancelled, missed, faults>>

\* train returns the model reference; take_model_bytes awaits it.
ReturnRef(f) ==
    /\ pc[f] = "registered" /\ Goto(f, "awaiting")
    /\ UNCHANGED <<next, bound, via, live, outcome, todo, sweep, hit, then,
                   worker, cancelled, missed, faults>>

\* The job whose world is cancelled first, and the workers client.run asks.
JobOf(jobs) == CHOOSE j \in jobs : TRUE
Sweep(jobs) == IF jobs = {} THEN {} ELSE {Worker[r] : r \in RanksOf(JobOf(jobs))}

\* Cancel the worlds of jobs, then go on with what follows.
StartCancel(f, jobs, after) ==
    /\ todo' = [todo EXCEPT ![f] = jobs]
    /\ sweep' = [sweep EXCEPT ![f] = Sweep(jobs)]
    /\ then' = [then EXCEPT ![f] = after]
    /\ Goto(f, "cancelling")
    /\ UNCHANGED <<next, bound, via, live, outcome, hit, worker, cancelled, missed>>

\* _train_with_cancellation: whatever escapes train cancels through the
\* backend, whose cancel takes every job in _live when given no job id.
TrainInterrupted(f) ==
    /\ "train" \in Interrupts
    /\ pc[f] \in {"submitting", "registered"} /\ Fault
    /\ StartCancel(f, live \intersect Backmates(f), "raise")

\* Mutant: the root's future is the only one waited for.
EveryRankDoneRoot(f) == task[<<f, 0>>] = "done"

EveryRankDone(f) == \A t \in Futures(f) : task[t] = "done" /\ ~CancelledFuture(t)

\* _await_ranks returned: the bytes of rank 0's model.
AwaitDone(f) ==
    /\ pc[f] = "awaiting" /\ EveryRankDone(f)
    /\ outcome' = [outcome EXCEPT ![f] = "model"]
    /\ Goto(f, "releasing")
    /\ UNCHANGED <<next, bound, via, live, todo, sweep, hit, then, worker,
                   cancelled, missed, faults>>

\* Mutant: the wait goes on for the ranks that have not failed.
AwaitErrorIgnored(f) ==
    /\ pc[f] = "awaiting"
    /\ \E t \in Futures(f) : task[t] = "error" /\ ~CancelledFuture(t)
    /\ UNCHANGED vars

\* A rank's future holds an error: cancel the rest, then raise.
AwaitError(f) ==
    /\ pc[f] = "awaiting"
    /\ \E t \in Futures(f) : task[t] = "error" /\ ~CancelledFuture(t)
    /\ StartCancel(f, {f}, "release")
    /\ UNCHANGED faults

\* The timeout passed, or the caller interrupted.
AwaitStopped(f) ==
    /\ "await" \in Interrupts
    /\ pc[f] = "awaiting" /\ Fault
    /\ StartCancel(f, {f}, "release")

\* distributed.wait raises on a cancelled future, past every handler.
AwaitCancelled(f) ==
    /\ pc[f] = "awaiting" /\ \E t \in Futures(f) : CancelledFuture(t)
    /\ Goto(f, "releasing")
    /\ UNCHANGED <<next, bound, via, live, outcome, todo, sweep, hit, then,
                   worker, cancelled, missed, faults>>

\* release: cancel what was not collected, and forget the job.
Release(f) ==
    /\ pc[f] = "releasing"
    /\ \/ /\ outcome[f] = "model"
          /\ live' = live \ {f}
          /\ Goto(f, "ended")
          /\ UNCHANGED <<next, bound, via, outcome, todo, sweep, hit, then,
                         worker, cancelled, missed>>
       \/ outcome[f] # "model" /\ StartCancel(f, {f}, "forget")
    /\ UNCHANGED faults

-----------------------------------------------------------------------------
(* _cancel_world.                                                          *)

Job(f) == JobOf(todo[f])

\* _cancel_sessions on one worker: look the job up under the lock.
LookUp(f, w) ==
    /\ pc[f] = "cancelling" /\ todo[f] # {} /\ w \in sweep[f]
    /\ LET j == Job(f)
           r == IF w \in alive THEN registry[w][j] ELSE None
           here == {q \in RanksOf(j) : Worker[q] = w /\ task[<<j, q>>] = "training"
                                  /\ session[<<j, q>>] = "open"}
       IN  /\ hit' = [hit EXCEPT ![f] = IF r = None THEN @ ELSE @ \union {<<j, r>>}]
           /\ missed' = missed \union {<<j, q>> : q \in here \ {r}}
    /\ sweep' = [sweep EXCEPT ![f] = @ \ {w}]
    /\ UNCHANGED <<pc, next, bound, via, live, outcome, todo, then, worker,
                   cancelled, faults>>

\* Then cancel the handle, outside the lock; a closed one is no error.
CancelSession(f, t) ==
    /\ t \in hit[f]
    /\ hit' = [hit EXCEPT ![f] = @ \ {t}]
    /\ session' = [session EXCEPT ![t] = IF @ = "open" THEN "cancelled" ELSE @]
    /\ UNCHANGED <<pc, next, bound, via, live, outcome, todo, sweep, then, task,
                   result, registry, alive, cancelled, missed, faults>>

\* Mutant: the futures are left to finish.
CancelFuturesNot(f) ==
    /\ pc[f] = "cancelling" /\ todo[f] # {} /\ sweep[f] = {} /\ hit[f] = {}
    /\ todo' = [todo EXCEPT ![f] = @ \ {Job(f)}]
    /\ sweep' = [sweep EXCEPT ![f] = Sweep(todo[f] \ {Job(f)})]
    /\ UNCHANGED <<pc, next, bound, via, live, outcome, hit, then, worker,
                   cancelled, missed, faults>>

\* Every worker has answered: cancel the job's futures.  Of a job taken from
\* _live, cancel then drops the entry.
CancelFutures(f) ==
    /\ pc[f] = "cancelling" /\ todo[f] # {} /\ sweep[f] = {} /\ hit[f] = {}
    /\ LET j == Job(f) IN
        /\ cancelled' = cancelled \union {<<f, j, r>> : r \in RanksOf(j)}
        /\ task' = [t \in Tasks |-> IF t[1] = j /\ task[t] = "queued"
                                    THEN "cancelled" ELSE task[t]]
        /\ live' = IF then[f] = "raise" THEN live \ {j} ELSE live
        /\ todo' = [todo EXCEPT ![f] = @ \ {j}]
    /\ sweep' = [sweep EXCEPT ![f] = Sweep(todo[f] \ {Job(f)})]
    /\ UNCHANGED <<pc, next, bound, via, outcome, hit, then, result, session,
                   registry, alive, missed, faults>>

\* Nothing is left to cancel: back to what was interrupted.
EndCancel(f) ==
    /\ pc[f] = "cancelling" /\ todo[f] = {}
    /\ Goto(f, IF then[f] = "release" THEN "releasing" ELSE "ended")
    /\ outcome' = [outcome EXCEPT ![f] = "failed"]
    /\ live' = IF then[f] = "forget" THEN live \ {f} ELSE live
    /\ UNCHANGED <<next, bound, via, todo, sweep, hit, then, worker, cancelled,
                   missed, faults>>

-----------------------------------------------------------------------------
(* A rank task on its worker (_train_rank), and the native session.        *)

Home(t) == Worker[t[2]]
World(t) == Futures(t[1])

TaskStep(t, from, to) ==
    /\ Home(t) \in alive /\ task[t] = from
    /\ task' = [task EXCEPT ![t] = to]
    /\ UNCHANGED <<client, alive, cancelled, missed>>

Start(t) == TaskStep(t, "queued", "running")
            /\ UNCHANGED <<result, session, registry, faults>>

\* The build has no runtime, or the rows are not the planned ones.
CheckFails(t) == TaskStep(t, "running", "error") /\ Fault
                 /\ UNCHANGED <<result, session, registry>>

\* distributed_worker_open blocks in the rendezvous.
Open(t) == TaskStep(t, "running", "opening")
           /\ UNCHANGED <<result, session, registry, faults>>

\* The rendezvous completes when every rank has come to it ...
Opened(t) ==
    /\ TaskStep(t, "opening", "opened")
    /\ \A q \in World(t) : task[q] = "opening" \/ session[q] # "none"
    /\ session' = [session EXCEPT ![t] = "open"]
    /\ UNCHANGED <<result, registry, faults>>

\* ... or its deadline passes first.
OpenFails(t) ==
    /\ TaskStep(t, "opening", "error")
    /\ \E q \in World(t) : task[q] # "opening" /\ session[q] = "none"
    /\ UNCHANGED <<result, session, registry, faults>>

\* Mutant: the session is trained before it is registered.
RegisterNot(t) == TaskStep(t, "opened", "training")
                  /\ UNCHANGED <<result, session, registry, faults>>

\* _register_session: one slot per job and worker process.
Register(t) ==
    /\ TaskStep(t, "opened", "training")
    /\ registry' = [registry EXCEPT ![Home(t)][t[1]] = t[2]]
    /\ UNCHANGED <<result, session, faults>>

TrainReturns(t) ==
    /\ TaskStep(t, "training", "leaving")
    /\ session[t] = "open"
    /\ \A q \in World(t) : task[q] = "training" \/ result[q] = "ok"
    /\ result' = [result EXCEPT ![t] = "ok"]
    /\ UNCHANGED <<session, registry, faults>>

\* Cancelled, a peer failed or never came, or an error of its own.
TrainRaises(t) ==
    /\ TaskStep(t, "training", "leaving")
    /\ \/ /\ \/ session[t] = "cancelled"
             \/ \E q \in World(t) : task[q] # "training" /\ result[q] # "ok"
          /\ UNCHANGED faults
       \/ Fault
    /\ result' = [result EXCEPT ![t] = "raised"]
    /\ UNCHANGED <<session, registry>>

\* finally: _forget_session pops whatever the job's slot holds ...
Forget(t) ==
    /\ TaskStep(t, "leaving", "forgot")
    /\ registry' = [registry EXCEPT ![Home(t)][t[1]] = None]
    /\ UNCHANGED <<result, session, faults>>

\* Mutant: a session that failed is left open.
CloseOnSuccess(t) ==
    /\ TaskStep(t, "forgot", IF result[t] = "ok" THEN "done" ELSE "error")
    /\ session' = [session EXCEPT ![t] = IF result[t] = "ok" THEN "closed" ELSE @]
    /\ UNCHANGED <<result, registry, faults>>

\* ... and the session is closed, whether the call returned or raised.
Close(t) ==
    /\ TaskStep(t, "forgot", IF result[t] = "ok" THEN "done" ELSE "error")
    /\ session' = [session EXCEPT ![t] = "closed"]
    /\ UNCHANGED <<result, registry, faults>>

\* A worker process that holds rows of a fit dies, and its rank tasks,
\* sessions and registry with it.
Die(w) ==
    /\ w \in alive /\ Fault
    /\ \E t \in Tasks : Home(t) = w /\ task[t] # "unplanned"
    /\ alive' = alive \ {w}
    /\ LET lost == {t \in Tasks : Home(t) = w
                                  /\ task[t] \notin Over \union {"unplanned", "none", "queued"}}
       IN  /\ task' = [t \in Tasks |-> IF t \in lost THEN "error" ELSE task[t]]
           /\ result' = [t \in Tasks |-> IF t \in lost THEN "raised" ELSE result[t]]
           /\ session' = [t \in Tasks |-> IF t \in lost /\ session[t] # "none"
                                          THEN "closed" ELSE session[t]]
    /\ registry' = [registry EXCEPT ![w] = [f \in Fits |-> None]]
    /\ UNCHANGED <<client, cancelled, missed>>

-----------------------------------------------------------------------------
Client(f) ==
    \/ Bind(f) \/ BeginTrain(f) \/ Submit(f) \/ RegisterLive(f) \/ ReturnRef(f)
    \/ AwaitDone(f) \/ AwaitError(f) \/ AwaitCancelled(f) \/ Release(f)
    \/ (\E w \in Workers : LookUp(f, w))
    \/ (\E t \in Tasks : CancelSession(f, t))
    \/ CancelFutures(f) \/ EndCancel(f)

RankTask(t) ==
    \/ Start(t) \/ Open(t) \/ Opened(t) \/ OpenFails(t) \/ Register(t)
    \/ TrainReturns(t) \/ TrainRaises(t) \/ Forget(t) \/ Close(t)

\* No worker of the fit is left to run what is queued (Dask keeps a task
\* restricted to a worker that is gone).
Lost(f) == \A t \in Futures(f) : Home(t) \notin alive

\* The fits are over or lost, and no worker has anything to run.
Done ==
    /\ \A f \in Fits : pc[f] = "ended" \/ Lost(f)
    /\ \A t \in Tasks : task[t] \in Over \union {"unplanned", "none"}
                       \/ Home(t) \notin alive
    /\ UNCHANGED vars

Next ==
    \/ \E f \in Fits : Client(f) \/ TrainInterrupted(f) \/ AwaitStopped(f)
    \/ \E t \in Tasks : RankTask(t) \/ CheckFails(t)
    \/ \E w \in Workers : Die(w)
    \/ Done

Spec == Init /\ [][Next]_vars

\* While a client thread has a step, some client thread takes one, and so do
\* the rank tasks, whose sessions' deadlines make blocking calls return; every
\* thread is a bounded number of steps, so nobody starves of it.  Faults,
\* timeouts of the caller and deaths owe nothing.
FairSpec ==
    /\ Spec
    /\ WF_vars(\E f \in Fits : Client(f))
    /\ WF_vars(\E t \in Tasks : RankTask(t))

-----------------------------------------------------------------------------
(* What is promised.                                                       *)

\* The types, and that a fit past its gather has an outcome.
TypeOK ==
    /\ pc \in [Fits -> ClientStates] /\ next \in [Fits -> 0 .. NRanks]
    /\ live \subseteq Fits /\ alive \subseteq Workers /\ faults \in Nat
    /\ task \in [Tasks -> TaskStates]
    /\ session \in [Tasks -> {"none", "open", "cancelled", "closed"}]
    /\ registry \in [Workers -> [Fits -> Ranks \union {None}]]
    /\ \A f \in Fits : pc[f] = "ended" /\ RanksOf(f) # {} => outcome[f] # "none"
    /\ \A w \in Workers, f \in Fits : registry[w][f] # None => Worker[registry[w][f]] = w

\* A fit that got a model got it from a whole world: every rank finished its
\* training and closed its session.
ModelMeansEveryRank ==
    \A f \in Fits : outcome[f] = "model" =>
        \A t \in Futures(f) : task[t] = "done" /\ result[t] = "ok"

\* A cancellation wakes every rank that is blocked inside the job's
\* collectives (cancel: "client.run reaches the worker-local session
\* registry so a rank already blocked inside a collective is woken").
CancelFindsEverySession == missed = {}

Stranded(f) ==
    {t \in Futures(f) : task[t] \notin Over \union {"none"} /\ ~CancelledFuture(t)}

\* A fit that failed while its caller awaited the model leaves no rank of it to
\* run on: whatever it submitted is over or its future is cancelled.
AbandonedRanksAreCancelled ==
    \A f \in Fits : pc[f] = "ended" /\ outcome[f] = "failed" /\ then[f] # "raise"
        => Stranded(f) = {}

\* The same of a fit interrupted inside train (_train_with_cancellation:
\* "`backend.train(job)`, with an interrupt stopping the cluster").  Does not
\* hold: the fit is not in _live yet.
InterruptStopsTheCluster ==
    \A f \in Fits : pc[f] = "ended" /\ outcome[f] = "failed" => Stranded(f) = {}

\* Only a fit's own client cancels its ranks ("Stop every rank of a running
\* fit, from the client").  Does not hold of two fits on a shared backend.
CancelsOnlyItsOwn == \A c \in cancelled : c[1] = c[2]

\* A fit's ranks are submitted through the client of the collection being
\* fitted (bind_runtime).  Does not hold of two fits on a shared backend.
TrainsOnItsOwnCluster == \A f \in Fits : via[f] = f

\* However it goes, the caller is answered while a worker of its fit lives, also
\* when it was another fit on its backend that cancelled the ranks it waits for.
EveryFitEnds == <>(\A f \in Fits : pc[f] = "ended" \/ Lost(f))

\* In the end no worker holds anything of a rank: every session that was
\* opened is closed and the registry is empty.
WorkersAreFreed ==
    <>[](/\ \A t \in Tasks : session[t] \in {"none", "closed"}
         /\ \A w \in Workers, f \in Fits : registry[w][f] = None)
=============================================================================
