--------------------------- MODULE DaskFit_proofs ---------------------------
(***************************************************************************)
(* What DaskFit keeps for every set of fits, every placement and every     *)
(* number of faults.  The argument has two halves.  On the workers, the    *)
(* session and the registry slot of a rank follow from where its task is.  *)
(* On the client, a fit's future never changes once it is over, and a      *)
(* cancellation has either still to reach the fit's own job or has         *)
(* cancelled every future of it.  The clients meet the workers in three    *)
(* places: they submit a task, cancel a session and cancel what is queued. *)
(***************************************************************************)
EXTENDS DaskFit, TLAPS

Typed ==
    /\ pc \in [Fits -> ClientStates]
    /\ next \in [Fits -> 0 .. NRanks]
    /\ live \in SUBSET Fits
    /\ outcome \in [Fits -> {"none", "model", "failed"}]
    /\ todo \in [Fits -> SUBSET Fits]
    /\ hit \in [Fits -> SUBSET Tasks]
    /\ then \in [Fits -> {"none", "raise", "release", "forget"}]
    /\ faults \in Nat

WorkerTyped ==
    /\ task \in [Tasks -> TaskStates]
    /\ result \in [Tasks -> {"none", "ok", "raised"}]
    /\ session \in [Tasks -> {"none", "open", "cancelled", "closed"}]
    /\ registry \in [Workers -> [Fits -> Ranks \union {None}]]
    /\ alive \in SUBSET Workers

\* Where a rank task is tells what its worker holds for it.
Before == {"unplanned", "none", "queued", "running", "opening"}
Inside == {"opened", "training", "leaving", "forgot"}

SessionFollows ==
    \A t \in Tasks :
        /\ task[t] \in Before => session[t] = "none"
        /\ task[t] \in Inside => session[t] \in {"open", "cancelled"}
        /\ task[t] \in Over => session[t] \in {"none", "closed"}

\* A slot of a registry holds a rank of that worker, inside its training.
SlotFollows ==
    \A w \in Workers, f \in Fits, r \in Ranks : registry[w][f] = r =>
        /\ Worker[r] = w
        /\ task[<<f, r>>] \in {"training", "leaving"}

\* A rank whose future is done trained; one that trains has a worker.
DoneIsOk == \A t \in Tasks : task[t] = "done" => result[t] = "ok"
TrainsOnTheLiving == \A t \in Tasks : task[t] = "training" => Home(t) \in alive

WorkerInv == WorkerTyped /\ SessionFollows /\ SlotFollows /\ DoneIsOk /\ TrainsOnTheLiving

\* Every future of the fit was cancelled.
AllCancelled(f) == \A r \in RanksOf(f) : CancelledFuture(<<f, r>>)

AnsweredAt(f) ==
    /\ pc[f] = "ended" /\ RanksOf(f) # {} => outcome[f] # "none"
    /\ outcome[f] = "model" => \A r \in RanksOf(f) : task[<<f, r>>] = "done"

Answered == \A f \in Fits : AnsweredAt(f)

\* A rank's task is touched by nobody before its turn to be submitted.
Submitted == \A t \in Tasks : task[t] \in {"unplanned", "none"} \/ t[2] < next[t[1]]

\* A cancellation of a fit's own job has it still to do, or has done it.
StoppingAt(f) ==
    /\ pc[f] = "cancelling" => then[f] # "none"
    /\ pc[f] = "cancelling" /\ then[f] # "raise" =>
           todo[f] \subseteq {f} /\ (f \in todo[f] \/ AllCancelled(f))
    /\ pc[f] = "ended" /\ outcome[f] = "failed" /\ then[f] # "raise" =>
           AllCancelled(f)

Stopping == \A f \in Fits : StoppingAt(f)

ClientInv == Typed /\ Submitted /\ Answered /\ Stopping

IInv == WorkerInv /\ ClientInv

\* What a rank's end leaves behind: nothing, neither a session nor a slot.
NothingIsKept ==
    \A t \in Tasks : task[t] \in Over =>
        /\ session[t] \in {"none", "closed"}
        /\ registry[Home(t)][t[1]] # t[2]

\* A worker holds at most one rank, as one_rank_per_worker, the default, makes
\* it; then the slot of a rank in training is its own.
OneRankPerWorker == \A q, r \in Ranks : Worker[q] = Worker[r] => q = r

SlotIsKept ==
    /\ \A t \in Tasks : task[t] = "training" => registry[Home(t)][t[1]] = t[2]
    /\ missed = {}

-----------------------------------------------------------------------------
(* The workers.                                                            *)

\* A future's name is its fit and its rank.
LEMMA TaskNames ==
    /\ \A t \in Tasks : t[1] \in Fits /\ t[2] \in Ranks /\ t = <<t[1], t[2]>>
    /\ \A f \in Fits, r \in Ranks : <<f, r>> \in Tasks
    /\ \A t \in Tasks : Home(t) \in Workers
    /\ \A r \in Ranks : r \in Nat /\ r # None
BY PlacementAssumption DEF Tasks, Ranks, Home, None

\* A step that leaves the workers alone keeps what is true of them.
LEMMA WorkersRest == WorkerInv /\ UNCHANGED worker => WorkerInv'
<1> SUFFICES ASSUME WorkerInv, UNCHANGED worker PROVE WorkerInv'  OBVIOUS
<1>1. UNCHANGED <<task, result, session, registry, alive>>  BY DEF worker
<1>2. WorkerTyped' /\ DoneIsOk'
  BY <1>1 DEF WorkerInv, WorkerTyped, DoneIsOk
<1>3. SessionFollows' /\ SlotFollows' /\ TrainsOnTheLiving'
  BY <1>1 DEF WorkerInv, SessionFollows, SlotFollows, TrainsOnTheLiving, Home
<1> QED  BY <1>2, <1>3 DEF WorkerInv

\* The slots stay true while the ranks they hold stay inside their training.
LEMMA SlotsRest ==
    ASSUME WorkerInv, UNCHANGED registry,
           \A t \in Tasks : task[t] \in {"training", "leaving"}
                                => task'[t] \in {"training", "leaving"}
    PROVE  SlotFollows'
BY TaskNames DEF WorkerInv, SlotFollows

\* Submitting turns a task that holds nothing into a queued one.
LEMMA SubmitWorker ==
    ASSUME WorkerInv, Typed, Submitted, NEW f \in Fits, Submit(f)
    PROVE  WorkerInv'
<1> DEFINE s == <<f, next[f]>>
<1>1. next[f] \in Ranks /\ task[s] # "unplanned"
  BY DEF Submit, RanksOf
<1>2. s \in Tasks /\ s[1] = f /\ s[2] = next[f] /\ next[f] \in Int
  BY <1>1 DEF Tasks, Ranks
<1>3. task' = [task EXCEPT ![s] = "queued"] /\ task[s] = "none"
  BY <1>1, <1>2 DEF Submit, Submitted
<1>4. UNCHANGED <<result, session, registry, alive>>  BY DEF Submit
<1> HIDE DEF s
<1>5. WorkerTyped'
  BY <1>2, <1>3, <1>4 DEF WorkerInv, WorkerTyped, TaskStates
<1>6. \A t \in Tasks : task'[t] = task[t] \/ (t = s /\ task'[t] = "queued")
  BY <1>3 DEF WorkerInv, WorkerTyped
<1>7. SessionFollows'
  BY <1>2, <1>3, <1>4, <1>6 DEF WorkerInv, SessionFollows, Before, Inside, Over
<1>8. SlotFollows'
  BY <1>2, <1>3, <1>4, <1>6, SlotsRest
<1>9. DoneIsOk' /\ TrainsOnTheLiving'
  BY <1>3, <1>4, <1>6 DEF WorkerInv, DoneIsOk, TrainsOnTheLiving, Home
<1> QED  BY <1>5, <1>7, <1>8, <1>9 DEF WorkerInv

\* Cancelling a session turns an open one into a cancelled one.
LEMMA CancelSessionWorker ==
    ASSUME WorkerInv, Typed, NEW f \in Fits, NEW t \in Tasks, CancelSession(f, t)
    PROVE  WorkerInv'
<1>1. UNCHANGED <<task, result, registry, alive>>  BY DEF CancelSession
<1>2. session' = [session EXCEPT ![t] = IF session[t] = "open" THEN "cancelled"
                                                            ELSE session[t]]
  BY DEF CancelSession
<1>3. \A q \in Tasks : session'[q] = session[q]
                       \/ (session[q] = "open" /\ session'[q] = "cancelled")
  BY <1>2 DEF WorkerInv, WorkerTyped
<1>4. WorkerTyped'
  BY <1>1, <1>2 DEF WorkerInv, WorkerTyped
<1>5. SessionFollows'
  BY <1>1, <1>3 DEF WorkerInv, WorkerTyped, SessionFollows, Before, Inside, Over
<1>6. SlotFollows' /\ DoneIsOk' /\ TrainsOnTheLiving'
  BY <1>1 DEF WorkerInv, SlotFollows, DoneIsOk, TrainsOnTheLiving, Home
<1> QED  BY <1>4, <1>5, <1>6 DEF WorkerInv

\* Cancelling futures ends tasks that were only queued.
LEMMA CancelFuturesWorker ==
    ASSUME WorkerInv, NEW f \in Fits, CancelFutures(f)
    PROVE  WorkerInv'
<1>1. UNCHANGED <<result, session, registry, alive>>  BY DEF CancelFutures
<1>2. task' = [t \in Tasks |-> IF t[1] = Job(f) /\ task[t] = "queued"
                               THEN "cancelled" ELSE task[t]]
  BY DEF CancelFutures
<1>3. \A t \in Tasks : task'[t] = task[t]
                       \/ (task[t] = "queued" /\ task'[t] = "cancelled")
  BY <1>2
<1>4. WorkerTyped'
  BY <1>1, <1>2 DEF WorkerInv, WorkerTyped, TaskStates
<1>5. SessionFollows'
  BY <1>1, <1>3 DEF WorkerInv, SessionFollows, Before, Inside, Over
<1>6. SlotFollows'
  BY <1>1, <1>3, SlotsRest
<1>7. DoneIsOk' /\ TrainsOnTheLiving'
  BY <1>1, <1>3 DEF WorkerInv, DoneIsOk, TrainsOnTheLiving, Home
<1> QED  BY <1>4, <1>5, <1>6, <1>7 DEF WorkerInv

\* The steps of a rank task, and the death of its worker.  Of a step that
\* moves one task the others keep everything.
LEMMA OtherTasksRest ==
    ASSUME WorkerInv, NEW t \in Tasks, NEW to, task' = [task EXCEPT ![t] = to]
    PROVE  /\ task'[t] = to
           /\ \A q \in Tasks : q # t => task'[q] = task[q]
BY DEF WorkerInv, WorkerTyped

\* Before its session a rank goes from one waiting state to the next, or fails.
LEMMA BeforeSession ==
    ASSUME WorkerInv, NEW t \in Tasks, NEW from \in Before, NEW to \in Before \union {"error"},
           TaskStep(t, from, to), UNCHANGED <<result, session, registry>>
    PROVE  WorkerInv'
<1>1. task[t] = from /\ task' = [task EXCEPT ![t] = to] /\ UNCHANGED alive
  BY DEF TaskStep
<1>2. /\ task'[t] = to
      /\ \A q \in Tasks : q # t => task'[q] = task[q]
  BY <1>1, OtherTasksRest
<1>3. WorkerTyped'
  BY <1>1 DEF WorkerInv, WorkerTyped, Before, TaskStates
<1>4. SessionFollows'
  BY <1>1, <1>2 DEF WorkerInv, SessionFollows, Before, Inside, Over
<1>5. SlotFollows'
  BY <1>1, <1>2, SlotsRest DEF Before
<1>6. DoneIsOk' /\ TrainsOnTheLiving'
  BY <1>1, <1>2 DEF WorkerInv, DoneIsOk, TrainsOnTheLiving, Home, Before
<1> QED  BY <1>3, <1>4, <1>5, <1>6 DEF WorkerInv

\* The session opens as the task leaves the rendezvous.
LEMMA OpenedWorker ==
    ASSUME WorkerInv, NEW t \in Tasks, Opened(t)
    PROVE  WorkerInv'
<1>1. /\ task[t] = "opening" /\ task' = [task EXCEPT ![t] = "opened"]
      /\ session' = [session EXCEPT ![t] = "open"]
      /\ UNCHANGED <<result, registry, alive>>
  BY DEF Opened, TaskStep
<1>2. /\ task'[t] = "opened" /\ session'[t] = "open"
      /\ \A q \in Tasks : q # t => task'[q] = task[q] /\ session'[q] = session[q]
  BY <1>1, OtherTasksRest DEF WorkerInv, WorkerTyped
<1>3. WorkerTyped'
  BY <1>1 DEF WorkerInv, WorkerTyped, TaskStates
<1>4. SessionFollows'
  BY <1>1, <1>2 DEF WorkerInv, SessionFollows, Before, Inside, Over
<1>5. SlotFollows'
  BY <1>1, <1>2, SlotsRest
<1>6. DoneIsOk' /\ TrainsOnTheLiving'
  BY <1>1, <1>2 DEF WorkerInv, DoneIsOk, TrainsOnTheLiving, Home
<1> QED  BY <1>3, <1>4, <1>5, <1>6 DEF WorkerInv

\* What a slot holds after it was written.
LEMMA SlotWritten ==
    ASSUME WorkerInv, NEW t \in Tasks, NEW r \in Ranks \union {None},
           registry' = [registry EXCEPT ![Home(t)][t[1]] = r]
    PROVE  /\ registry' \in [Workers -> [Fits -> Ranks \union {None}]]
           /\ registry'[Home(t)][t[1]] = r
           /\ \A w \in Workers, f \in Fits :
                  <<w, f>> # <<Home(t), t[1]>> => registry'[w][f] = registry[w][f]
<1>1. Home(t) \in Workers /\ t[1] \in Fits  BY TaskNames
<1>2. registry \in [Workers -> [Fits -> Ranks \union {None}]]
  BY DEF WorkerInv, WorkerTyped
<1> QED  BY <1>1, <1>2

\* The slot a rank registers in is its own.
LEMMA RegisterWorker ==
    ASSUME WorkerInv, NEW t \in Tasks, Register(t)
    PROVE  WorkerInv'
<1>1. /\ task[t] = "opened" /\ task' = [task EXCEPT ![t] = "training"]
      /\ Home(t) \in alive
      /\ registry' = [registry EXCEPT ![Home(t)][t[1]] = t[2]]
      /\ UNCHANGED <<result, session, alive>>
  BY DEF Register, TaskStep
<1>2. /\ task'[t] = "training"
      /\ \A q \in Tasks : q # t => task'[q] = task[q]
  BY <1>1, OtherTasksRest
<1>3. t[1] \in Fits /\ t[2] \in Ranks /\ t = <<t[1], t[2]>>  BY TaskNames
<1>4. /\ registry' \in [Workers -> [Fits -> Ranks \union {None}]]
      /\ registry'[Home(t)][t[1]] = t[2]
      /\ \A w \in Workers, f \in Fits :
             <<w, f>> # <<Home(t), t[1]>> => registry'[w][f] = registry[w][f]
  BY <1>1, <1>3, SlotWritten
<1>5. WorkerTyped'
  BY <1>1, <1>4 DEF WorkerInv, WorkerTyped, TaskStates
<1>6. SessionFollows'
  BY <1>1, <1>2 DEF WorkerInv, SessionFollows, Before, Inside, Over
<1>7. SlotFollows'
  <2> SUFFICES ASSUME NEW w \in Workers, NEW f \in Fits, NEW r \in Ranks,
                      registry'[w][f] = r
               PROVE  Worker[r] = w /\ task'[<<f, r>>] \in {"training", "leaving"}
    BY DEF SlotFollows
  <2>1. CASE <<w, f>> = <<Home(t), t[1]>>
    BY <2>1, <1>2, <1>3, <1>4 DEF Home
  <2>2. CASE <<w, f>> # <<Home(t), t[1]>>
    <3>1. registry[w][f] = r  BY <2>2, <1>4
    <3>2. Worker[r] = w /\ task[<<f, r>>] \in {"training", "leaving"}
      BY <3>1 DEF WorkerInv, SlotFollows
    <3> QED  BY <3>2, <1>1, <1>2, TaskNames
  <2> QED  BY <2>1, <2>2
<1>8. DoneIsOk' /\ TrainsOnTheLiving'
  BY <1>1, <1>2 DEF WorkerInv, DoneIsOk, TrainsOnTheLiving, Home
<1> QED  BY <1>5, <1>6, <1>7, <1>8 DEF WorkerInv

\* The training call ends, with a model or with an error.
LEMMA TrainEndsWorker ==
    ASSUME WorkerInv, NEW t \in Tasks, TrainReturns(t) \/ TrainRaises(t)
    PROVE  WorkerInv'
<1>1. /\ task[t] = "training" /\ task' = [task EXCEPT ![t] = "leaving"]
      /\ UNCHANGED <<session, registry, alive>>
  BY DEF TrainReturns, TrainRaises, TaskStep
<1>2. PICK end \in {"ok", "raised"} : result' = [result EXCEPT ![t] = end]
  BY DEF TrainReturns, TrainRaises
<1>3. /\ task'[t] = "leaving"
      /\ \A q \in Tasks : q # t => task'[q] = task[q] /\ result'[q] = result[q]
  BY <1>1, <1>2, OtherTasksRest DEF WorkerInv, WorkerTyped
<1>4. WorkerTyped'
  BY <1>1, <1>2 DEF WorkerInv, WorkerTyped, TaskStates
<1>5. SessionFollows'
  BY <1>1, <1>3 DEF WorkerInv, SessionFollows, Before, Inside, Over
<1>6. SlotFollows'
  BY <1>1, <1>3, SlotsRest
<1>7. DoneIsOk' /\ TrainsOnTheLiving'
  BY <1>1, <1>3 DEF WorkerInv, DoneIsOk, TrainsOnTheLiving, Home
<1> QED  BY <1>4, <1>5, <1>6, <1>7 DEF WorkerInv

\* Forgetting empties the slot of the job, so none of it is the rank's.
LEMMA ForgetWorker ==
    ASSUME WorkerInv, NEW t \in Tasks, Forget(t)
    PROVE  WorkerInv'
<1>1. /\ task[t] = "leaving" /\ task' = [task EXCEPT ![t] = "forgot"]
      /\ registry' = [registry EXCEPT ![Home(t)][t[1]] = None]
      /\ UNCHANGED <<result, session, alive>>
  BY DEF Forget, TaskStep
<1>2. /\ task'[t] = "forgot"
      /\ \A q \in Tasks : q # t => task'[q] = task[q]
  BY <1>1, OtherTasksRest
<1>3. /\ registry' \in [Workers -> [Fits -> Ranks \union {None}]]
      /\ registry'[Home(t)][t[1]] = None
      /\ \A w \in Workers, f \in Fits :
             <<w, f>> # <<Home(t), t[1]>> => registry'[w][f] = registry[w][f]
  BY <1>1, SlotWritten
<1>4. WorkerTyped'
  BY <1>1, <1>3 DEF WorkerInv, WorkerTyped, TaskStates
<1>5. SessionFollows'
  BY <1>1, <1>2 DEF WorkerInv, SessionFollows, Before, Inside, Over
<1>6. SlotFollows'
  <2> SUFFICES ASSUME NEW w \in Workers, NEW f \in Fits, NEW r \in Ranks,
                      registry'[w][f] = r
               PROVE  Worker[r] = w /\ task'[<<f, r>>] \in {"training", "leaving"}
    BY DEF SlotFollows
  <2>1. <<w, f>> # <<Home(t), t[1]>>  BY <1>3, TaskNames
  <2>2. registry[w][f] = r  BY <2>1, <1>3
  <2>3. Worker[r] = w /\ task[<<f, r>>] \in {"training", "leaving"}
    BY <2>2 DEF WorkerInv, SlotFollows
  <2>4. <<f, r>> # t  BY <2>1, <2>3 DEF Home
  <2> QED  BY <2>3, <2>4, <1>2, TaskNames
<1>7. DoneIsOk' /\ TrainsOnTheLiving'
  BY <1>1, <1>2 DEF WorkerInv, DoneIsOk, TrainsOnTheLiving, Home
<1> QED  BY <1>4, <1>5, <1>6, <1>7 DEF WorkerInv

\* The session is closed with the task.
LEMMA CloseWorker ==
    ASSUME WorkerInv, NEW t \in Tasks, Close(t)
    PROVE  WorkerInv'
<1>1. /\ task[t] = "forgot"
      /\ task' = [task EXCEPT ![t] = IF result[t] = "ok" THEN "done" ELSE "error"]
      /\ session' = [session EXCEPT ![t] = "closed"]
      /\ UNCHANGED <<result, registry, alive>>
  BY DEF Close, TaskStep
<1>2. /\ task'[t] = IF result[t] = "ok" THEN "done" ELSE "error"
      /\ session'[t] = "closed"
      /\ \A q \in Tasks : q # t => task'[q] = task[q] /\ session'[q] = session[q]
  BY <1>1, OtherTasksRest DEF WorkerInv, WorkerTyped
<1>3. WorkerTyped'
  BY <1>1 DEF WorkerInv, WorkerTyped, TaskStates
<1>4. SessionFollows'
  BY <1>1, <1>2 DEF WorkerInv, SessionFollows, Before, Inside, Over
<1>5. SlotFollows'
  BY <1>1, <1>2, SlotsRest
<1>6. DoneIsOk' /\ TrainsOnTheLiving'
  BY <1>1, <1>2 DEF WorkerInv, DoneIsOk, TrainsOnTheLiving, Home
<1> QED  BY <1>3, <1>4, <1>5, <1>6 DEF WorkerInv

\* A death ends the tasks inside the worker, closes their sessions and takes
\* its registry with it; the slots of the others hold other tasks.
LEMMA DieWorker ==
    ASSUME WorkerInv, NEW gone \in Workers, Die(gone)
    PROVE  WorkerInv'
<1> DEFINE lost == {t \in Tasks : Home(t) = gone
                        /\ task[t] \notin Over \union {"unplanned", "none", "queued"}}
<1>1. /\ task' = [t \in Tasks |-> IF t \in lost THEN "error" ELSE task[t]]
      /\ result' = [t \in Tasks |-> IF t \in lost THEN "raised" ELSE result[t]]
      /\ session' = [t \in Tasks |-> IF t \in lost /\ session[t] # "none"
                                     THEN "closed" ELSE session[t]]
      /\ registry' = [registry EXCEPT ![gone] = [f \in Fits |-> None]]
      /\ alive' = alive \ {gone}
  BY DEF Die
<1>2. /\ \A t \in lost : task'[t] = "error" /\ session'[t] \in {"none", "closed"}
      /\ \A t \in Tasks \ lost : /\ task'[t] = task[t]
                                 /\ result'[t] = result[t]
                                 /\ session'[t] = session[t]
  BY <1>1
<1>3. \A t \in Tasks : t \notin lost /\ Home(t) = gone
          => task[t] \in Over \union {"unplanned", "none", "queued"}
  OBVIOUS
<1> HIDE DEF lost
<1>4. WorkerTyped'
  BY <1>1 DEF WorkerInv, WorkerTyped, TaskStates
<1>5. SessionFollows'
  BY <1>2 DEF WorkerInv, SessionFollows, Before, Inside, Over
<1>6. SlotFollows'
  <2> SUFFICES ASSUME NEW w \in Workers, NEW f \in Fits, NEW r \in Ranks,
                      registry'[w][f] = r
               PROVE  Worker[r] = w /\ task'[<<f, r>>] \in {"training", "leaving"}
    BY DEF SlotFollows
  <2>1. w # gone /\ registry[w][f] = r
    BY <1>1, TaskNames DEF WorkerInv, WorkerTyped
  <2>2. Worker[r] = w /\ task[<<f, r>>] \in {"training", "leaving"}
    BY <2>1 DEF WorkerInv, SlotFollows
  <2>3. Home(<<f, r>>) # gone  BY <2>1, <2>2 DEF Home
  <2>4. <<f, r>> \notin lost  BY <2>3 DEF lost
  <2> QED  BY <2>2, <2>4, <1>2, TaskNames
<1>7. DoneIsOk'
  BY <1>2 DEF WorkerInv, DoneIsOk
<1>8. TrainsOnTheLiving'
  BY <1>1, <1>2, <1>3 DEF WorkerInv, TrainsOnTheLiving, Home, Over
<1> QED  BY <1>4, <1>5, <1>6, <1>7, <1>8 DEF WorkerInv

\* Every step of a rank task, whatever its place.
LEMMA RankTaskWorker ==
    ASSUME WorkerInv, NEW t \in Tasks, RankTask(t) \/ CheckFails(t)
    PROVE  WorkerInv'
<1>1. CASE Start(t)
  BY <1>1, BeforeSession DEF Start, Before
<1>2. CASE CheckFails(t)
  BY <1>2, BeforeSession DEF CheckFails, Before
<1>3. CASE Open(t)
  BY <1>3, BeforeSession DEF Open, Before
<1>4. CASE OpenFails(t)
  BY <1>4, BeforeSession DEF OpenFails, Before
<1>5. CASE Opened(t)
  BY <1>5, OpenedWorker
<1>6. CASE Register(t)
  BY <1>6, RegisterWorker
<1>7. CASE TrainReturns(t) \/ TrainRaises(t)
  BY <1>7, TrainEndsWorker
<1>8. CASE Forget(t)
  BY <1>8, ForgetWorker
<1>9. CASE Close(t)
  BY <1>9, CloseWorker
<1> QED
  BY <1>1, <1>2, <1>3, <1>4, <1>5, <1>6, <1>7, <1>8, <1>9 DEF RankTask

-----------------------------------------------------------------------------
(* What no step undoes.                                                    *)

\* The plan of a fit, a future that is over, and a cancellation.
Lasting(t) ==
    /\ task'[t] = "unplanned" <=> task[t] = "unplanned"
    /\ task[t] = "done" => task'[t] = "done"

\* The client steps that touch no rank task but through its session.
QuietClient(f) ==
    \/ Bind(f) \/ BeginTrain(f) \/ RegisterLive(f) \/ ReturnRef(f)
    \/ TrainInterrupted(f) \/ AwaitDone(f) \/ AwaitError(f) \/ AwaitStopped(f)
    \/ AwaitCancelled(f) \/ Release(f) \/ (\E w \in Workers : LookUp(f, w))
    \/ EndCancel(f)

\* A quiet step of the client touches no worker.
LEMMA QuietClientRests ==
    ASSUME NEW f \in Fits, QuietClient(f)
    PROVE  UNCHANGED <<worker, next, cancelled>>
<1>1. CASE Bind(f) \/ BeginTrain(f) \/ RegisterLive(f) \/ ReturnRef(f)
  BY <1>1 DEF Bind, BeginTrain, RegisterLive, ReturnRef
<1>2. CASE TrainInterrupted(f) \/ AwaitError(f) \/ AwaitStopped(f)
  BY <1>2 DEF TrainInterrupted, AwaitError, AwaitStopped, StartCancel
<1>3. CASE AwaitDone(f) \/ AwaitCancelled(f) \/ EndCancel(f)
  BY <1>3 DEF AwaitDone, AwaitCancelled, EndCancel
<1>4. CASE Release(f)
  BY <1>4 DEF Release, StartCancel
<1>5. CASE \E w \in Workers : LookUp(f, w)
  <2>1. PICK w \in Workers : LookUp(f, w)  BY <1>5
  <2> QED  BY <2>1, Zenon DEF LookUp
<1> QED  BY <1>1, <1>2, <1>3, <1>4, <1>5 DEF QuietClient

\* What a rank task does is one move of one task.
LEMMA RankTaskSteps ==
    ASSUME NEW t \in Tasks, RankTask(t) \/ CheckFails(t)
    PROVE  \E from \in {"queued", "running", "opening", "opened", "training",
                        "leaving", "forgot"},
              to \in TaskStates \ {"unplanned", "none"} : TaskStep(t, from, to)
BY Zenon DEF RankTask, CheckFails, Start, Open, Opened, OpenFails, Register,
   TrainReturns, TrainRaises, Forget, Close, TaskStates

\* The plan, the results and the cancellations last through every step.
LEMMA StepLasts ==
    ASSUME WorkerInv, Typed, Submitted, Next
    PROVE  (\A t \in Tasks : Lasting(t)) /\ cancelled \subseteq cancelled'
<1> USE DEF Lasting
<1>1. CASE UNCHANGED <<worker, cancelled>>
  <2>1. task' = task /\ cancelled' = cancelled  BY <1>1 DEF worker
  <2> QED  BY <2>1
<1>2. ASSUME NEW f \in Fits, Submit(f)
      PROVE  (\A t \in Tasks : Lasting(t)) /\ cancelled \subseteq cancelled'
  <2> DEFINE s == <<f, next[f]>>
  <2>1. next[f] \in Ranks /\ task[s] # "unplanned"
    BY <1>2 DEF Submit, RanksOf
  <2>2. s \in Tasks /\ s[1] = f /\ s[2] = next[f] /\ next[f] \in Int
    BY <2>1 DEF Tasks, Ranks
  <2>3. task' = [task EXCEPT ![s] = "queued"] /\ task[s] = "none"
    BY <1>2, <2>1, <2>2 DEF Submit, Submitted
  <2> HIDE DEF s
  <2>4. /\ task'[s] = "queued"
        /\ \A t \in Tasks : t # s => task'[t] = task[t]
    BY <2>2, <2>3 DEF WorkerInv, WorkerTyped
  <2>5. \A t \in Tasks : Lasting(t)  BY <2>3, <2>4
  <2>6. UNCHANGED cancelled  BY <1>2 DEF Submit
  <2> QED  BY <2>5, <2>6
<1>3. ASSUME NEW f \in Fits, NEW t \in Tasks, CancelSession(f, t)
      PROVE  (\A q \in Tasks : Lasting(q)) /\ cancelled \subseteq cancelled'
  BY <1>3 DEF CancelSession
<1>4. ASSUME NEW f \in Fits, CancelFutures(f)
      PROVE  (\A t \in Tasks : Lasting(t)) /\ cancelled \subseteq cancelled'
  <2>1. task' = [t \in Tasks |-> IF t[1] = Job(f) /\ task[t] = "queued"
                                 THEN "cancelled" ELSE task[t]]
    BY <1>4 DEF CancelFutures
  <2>2. cancelled \subseteq cancelled'  BY <1>4 DEF CancelFutures
  <2> QED  BY <2>1, <2>2
<1>5. ASSUME NEW t \in Tasks, RankTask(t) \/ CheckFails(t)
      PROVE  (\A q \in Tasks : Lasting(q)) /\ cancelled \subseteq cancelled'
  <2>1. PICK from \in {"queued", "running", "opening", "opened", "training",
                       "leaving", "forgot"},
             to \in TaskStates \ {"unplanned", "none"} :
                 TaskStep(t, from, to)
    BY <1>5, RankTaskSteps
  <2>2. task[t] = from /\ task' = [task EXCEPT ![t] = to] /\ UNCHANGED cancelled
    BY <2>1 DEF TaskStep
  <2>3. task'[t] = to /\ \A q \in Tasks : q # t => task'[q] = task[q]
    BY <2>2, OtherTasksRest
  <2> QED  BY <2>2, <2>3
<1>6. ASSUME NEW w \in Workers, Die(w)
      PROVE  (\A t \in Tasks : Lasting(t)) /\ cancelled \subseteq cancelled'
  <2> DEFINE lost == {t \in Tasks : Home(t) = w
                        /\ task[t] \notin Over \union {"unplanned", "none", "queued"}}
  <2>1. task' = [t \in Tasks |-> IF t \in lost THEN "error" ELSE task[t]]
        /\ UNCHANGED cancelled
    BY <1>6 DEF Die
  <2> QED  BY <2>1 DEF Over
<1>7. CASE Done
  BY <1>7, <1>1 DEF Done, vars
<1>8. ASSUME NEW f \in Fits, Client(f) \/ TrainInterrupted(f) \/ AwaitStopped(f)
      PROVE  (\A t \in Tasks : Lasting(t)) /\ cancelled \subseteq cancelled'
  <2>1. \/ QuietClient(f) \/ Submit(f) \/ CancelFutures(f)
        \/ \E t \in Tasks : CancelSession(f, t)
    BY <1>8 DEF Client, QuietClient
  <2>2. CASE QuietClient(f)
    BY <2>2, <1>1, QuietClientRests
  <2> QED  BY <2>1, <2>2, <1>2, <1>3, <1>4
<1> QED
  BY <1>5, <1>6, <1>7, <1>8 DEF Next

\* The workers keep their half whoever moves.
LEMMA WorkerKept ==
    ASSUME WorkerInv, Typed, Submitted, Next
    PROVE  WorkerInv'
<1>1. ASSUME NEW f \in Fits, Client(f) \/ TrainInterrupted(f) \/ AwaitStopped(f)
      PROVE  WorkerInv'
  <2>1. \/ QuietClient(f) \/ Submit(f) \/ CancelFutures(f)
        \/ \E t \in Tasks : CancelSession(f, t)
    BY <1>1 DEF Client, QuietClient
  <2>2. CASE QuietClient(f)
    BY <2>2, QuietClientRests, WorkersRest
  <2>3. CASE Submit(f)
    BY <2>3, SubmitWorker
  <2>4. CASE CancelFutures(f)
    BY <2>4, CancelFuturesWorker
  <2>5. CASE \E t \in Tasks : CancelSession(f, t)
    BY <2>5, CancelSessionWorker
  <2> QED  BY <2>1, <2>2, <2>3, <2>4, <2>5
<1>2. ASSUME NEW t \in Tasks, RankTask(t) \/ CheckFails(t)
      PROVE  WorkerInv'
  BY <1>2, RankTaskWorker
<1>3. ASSUME NEW w \in Workers, Die(w)
      PROVE  WorkerInv'
  BY <1>3, DieWorker
<1>4. CASE Done
  BY <1>4, WorkersRest DEF Done, vars
<1> QED  BY <1>1, <1>2, <1>3, <1>4 DEF Next

-----------------------------------------------------------------------------
(* The client threads.                                                     *)

\* The tasks that were submitted for a fit stay the ones that were.
LEMMA RanksLast ==
    ASSUME \A t \in Tasks : Lasting(t), NEW f \in Fits
    PROVE  RanksOf(f)' = RanksOf(f)
<1>1. \A r \in Ranks : task'[<<f, r>>] = "unplanned" <=> task[<<f, r>>] = "unplanned"
  BY TaskNames DEF Lasting
<1> QED  BY <1>1 DEF RanksOf

\* Cancelled is for ever.
LEMMA CancelledLasts ==
    ASSUME \A t \in Tasks : Lasting(t), cancelled \subseteq cancelled', NEW f \in Fits,
           AllCancelled(f)
    PROVE  AllCancelled(f)'
<1>1. RanksOf(f)' = RanksOf(f)  BY RanksLast
<1> QED  BY <1>1 DEF AllCancelled, CancelledFuture

\* A fit whose client did not move keeps what it was told and what it stops.
LEMMA FitRests ==
    ASSUME \A t \in Tasks : Lasting(t), cancelled \subseteq cancelled', NEW f \in Fits,
           AnsweredAt(f), StoppingAt(f),
           pc'[f] = pc[f], outcome'[f] = outcome[f], then'[f] = then[f], todo'[f] = todo[f]
    PROVE  AnsweredAt(f)' /\ StoppingAt(f)'
<1>1. RanksOf(f)' = RanksOf(f)  BY RanksLast
<1>2. AllCancelled(f) => AllCancelled(f)'  BY CancelledLasts
<1>3. \A r \in RanksOf(f) : task[<<f, r>>] = "done" => task'[<<f, r>>] = "done"
  BY TaskNames DEF RanksOf, Lasting
<1>4. AnsweredAt(f)'  BY <1>1, <1>3 DEF AnsweredAt
<1> QED  BY <1>2, <1>4 DEF StoppingAt

\* Nor does a fit on its way, before a cancellation or between two.
LEMMA FitOnItsWay ==
    ASSUME \A t \in Tasks : Lasting(t), NEW f \in Fits, AnsweredAt(f),
           pc'[f] \notin {"cancelling", "ended"}, outcome'[f] = outcome[f]
    PROVE  AnsweredAt(f)' /\ StoppingAt(f)'
<1>1. RanksOf(f)' = RanksOf(f)  BY RanksLast
<1>2. \A r \in RanksOf(f) : task[<<f, r>>] = "done" => task'[<<f, r>>] = "done"
  BY TaskNames DEF RanksOf, Lasting
<1> QED  BY <1>1, <1>2 DEF AnsweredAt, StoppingAt

\* The types the clients' half needs, whoever moves.
LEMMA FaultTyped == Typed /\ (Fault \/ UNCHANGED faults) => faults' \in Nat
BY DEF Typed, Fault

\* The fit a cancellation is named after is one of those it is for.
LEMMA JobIsOne == \A jobs \in SUBSET Fits : jobs # {} => JobOf(jobs) \in jobs
BY DEF JobOf

\* Starting a cancellation keeps the types.
LEMMA StartCancelTyped ==
    ASSUME Typed, NEW f \in Fits, NEW jobs \in SUBSET Fits,
           NEW after \in {"raise", "release", "forget"}, StartCancel(f, jobs, after),
           Fault \/ UNCHANGED faults
    PROVE  Typed'
<1>1. faults' \in Nat  BY FaultTyped
<1> QED  BY <1>1 DEF StartCancel, Typed, Goto, ClientStates

\* Every step keeps the types.
LEMMA TypedKept ==
    ASSUME WorkerInv, Typed, Next
    PROVE  Typed'
<1>1. CASE UNCHANGED client /\ (Fault \/ UNCHANGED faults)
  <2>1. faults' \in Nat  BY <1>1, FaultTyped
  <2> QED  BY <1>1, <2>1 DEF Typed, client
<1>2. ASSUME NEW t \in Tasks, RankTask(t) \/ CheckFails(t)
      PROVE  Typed'
  <2>1. UNCHANGED client
    BY <1>2, Zenon DEF RankTask, CheckFails, Start, Open, Opened, OpenFails, Register,
       TrainReturns, TrainRaises, Forget, Close, TaskStep
  <2>2. Fault \/ UNCHANGED faults
    BY <1>2, Zenon DEF RankTask, CheckFails, Start, Open, Opened, OpenFails, Register,
       TrainReturns, TrainRaises, Forget, Close
  <2> QED  BY <1>1, <2>1, <2>2
<1>3. ASSUME NEW w \in Workers, Die(w)
      PROVE  Typed'
  <2>1. UNCHANGED client /\ Fault  BY <1>3 DEF Die
  <2> QED  BY <1>1, <2>1
<1>4. CASE Done
  BY <1>4, <1>1 DEF Done, vars
<1>5. ASSUME NEW f \in Fits, Client(f) \/ TrainInterrupted(f) \/ AwaitStopped(f)
      PROVE  Typed'
  <2>1. CASE Bind(f) \/ BeginTrain(f) \/ RegisterLive(f) \/ ReturnRef(f)
    BY <2>1 DEF Bind, BeginTrain, RegisterLive, ReturnRef, Typed, Goto, ClientStates
  <2>2. CASE Submit(f)
    <3>1. next[f] \in Ranks  BY <2>2 DEF Submit, RanksOf
    <3>2. next[f] + 1 \in 0 .. NRanks  BY <3>1, PlacementAssumption DEF Ranks
    <3>3. next' = [next EXCEPT ![f] = next[f] + 1]  BY <2>2 DEF Submit
    <3>4. next' \in [Fits -> 0 .. NRanks]  BY <3>2, <3>3 DEF Typed
    <3> QED  BY <2>2, <3>4 DEF Submit, Typed
  <2>3. CASE TrainInterrupted(f)
    BY <2>3, StartCancelTyped DEF TrainInterrupted, Typed
  <2>4. CASE AwaitError(f) \/ AwaitStopped(f)
    BY <2>4, StartCancelTyped DEF AwaitError, AwaitStopped
  <2>5. CASE AwaitDone(f) \/ AwaitCancelled(f)
    BY <2>5 DEF AwaitDone, AwaitCancelled, Typed, Goto, ClientStates
  <2>6. CASE Release(f)
    <3>1. CASE outcome[f] = "model"
      BY <2>6, <3>1 DEF Release, Typed, Goto, ClientStates
    <3>2. CASE outcome[f] # "model"
      BY <2>6, <3>2, StartCancelTyped DEF Release
    <3> QED  BY <3>1, <3>2
  <2>7. ASSUME NEW w \in Workers, LookUp(f, w)
        PROVE  Typed'
    <3>1. Job(f) \in Fits
      BY <2>7, JobIsOne DEF LookUp, Typed, Job
    <3> DEFINE r == IF w \in alive THEN registry[w][Job(f)] ELSE None
    <3>2. r \in Ranks \union {None}
      BY <3>1 DEF WorkerInv, WorkerTyped
    <3>3. hit' = [hit EXCEPT ![f] = IF r = None THEN hit[f] ELSE hit[f] \union {<<Job(f), r>>}]
      BY <2>7, Zenon DEF LookUp
    <3>4. UNCHANGED <<pc, next, live, outcome, todo, then, faults>>
      BY <2>7, Zenon DEF LookUp
    <3> HIDE DEF r
    <3>5. r = None \/ <<Job(f), r>> \in Tasks  BY <3>1, <3>2, TaskNames
    <3>6. hit' \in [Fits -> SUBSET Tasks]  BY <3>3, <3>5 DEF Typed
    <3> QED  BY <3>4, <3>6 DEF Typed
  <2>8. ASSUME NEW t \in Tasks, CancelSession(f, t)
        PROVE  Typed'
    BY <2>8 DEF CancelSession, Typed
  <2>9. CASE CancelFutures(f)
    <3>1. live' \in SUBSET Fits  BY <2>9 DEF CancelFutures, Typed
    <3>2. todo' = [todo EXCEPT ![f] = todo[f] \ {Job(f)}]
      BY <2>9 DEF CancelFutures
    <3>3. UNCHANGED <<pc, next, outcome, hit, then, faults>>
      BY <2>9 DEF CancelFutures
    <3> QED  BY <3>1, <3>2, <3>3 DEF Typed
  <2>10. CASE EndCancel(f)
    BY <2>10 DEF EndCancel, Typed, Goto, ClientStates
  <2> QED
    BY <1>5, <2>1, <2>2, <2>3, <2>4, <2>5, <2>6, <2>7, <2>8, <2>9, <2>10 DEF Client
<1> QED  BY <1>2, <1>3, <1>4, <1>5 DEF Next

\* Whoever else moves leaves a task that waits for its turn alone.
LEMMA NotSubmitted ==
    ASSUME Submitted, UNCHANGED next,
           \A t \in Tasks : task[t] \in {"unplanned", "none"} => task'[t] = task[t]
    PROVE  Submitted'
BY DEF Submitted

\* Only Submit takes a task out of the plan, and counts it.
LEMMA SubmittedKept ==
    ASSUME WorkerInv, Typed, Submitted, Next
    PROVE  Submitted'
<1>1. CASE UNCHANGED <<worker, next>>
  <2>1. task' = task /\ next' = next  BY <1>1 DEF worker
  <2> QED  BY <2>1, NotSubmitted
<1>2. ASSUME NEW f \in Fits, Submit(f)
      PROVE  Submitted'
  <2> DEFINE s == <<f, next[f]>>
  <2>1. next[f] \in Ranks
    BY <1>2 DEF Submit, RanksOf
  <2>2. s \in Tasks /\ s[1] = f /\ s[2] = next[f] /\ next[f] \in Int
    BY <2>1 DEF Tasks, Ranks
  <2>3. /\ task' = [task EXCEPT ![s] = "queued"]
        /\ next' = [next EXCEPT ![f] = next[f] + 1]
    BY <1>2 DEF Submit
  <2> HIDE DEF s
  <2>4. \A t \in Tasks : t # s => task'[t] = task[t]
    BY <2>2, <2>3 DEF WorkerInv, WorkerTyped
  <2>5. /\ next'[f] = next[f] + 1
        /\ \A g \in Fits : g # f => next'[g] = next[g]
    BY <2>3 DEF Typed
  <2>6. \A g \in Fits : next[g] \in Int  BY PlacementAssumption DEF Typed
  <2> SUFFICES ASSUME NEW t \in Tasks
               PROVE  task'[t] \in {"unplanned", "none"} \/ t[2] < next'[t[1]]
    BY DEF Submitted
  <2>7. t[1] \in Fits /\ t[2] \in Int  BY TaskNames DEF Ranks
  <2>8. CASE t = s
    BY <2>2, <2>5, <2>8
  <2>9. CASE t # s
    BY <2>4, <2>5, <2>6, <2>7, <2>9 DEF Submitted
  <2> QED  BY <2>8, <2>9
<1>3. ASSUME NEW f \in Fits, NEW t \in Tasks, CancelSession(f, t)
      PROVE  Submitted'
  <2>1. task' = task /\ next' = next  BY <1>3 DEF CancelSession
  <2> QED  BY <2>1, NotSubmitted
<1>4. ASSUME NEW f \in Fits, CancelFutures(f)
      PROVE  Submitted'
  <2>1. /\ task' = [t \in Tasks |-> IF t[1] = Job(f) /\ task[t] = "queued"
                                    THEN "cancelled" ELSE task[t]]
        /\ UNCHANGED next
    BY <1>4 DEF CancelFutures
  <2> QED  BY <2>1, NotSubmitted
<1>5. ASSUME NEW t \in Tasks, RankTask(t) \/ CheckFails(t)
      PROVE  Submitted'
  <2>1. PICK from \in {"queued", "running", "opening", "opened", "training",
                       "leaving", "forgot"},
             to \in TaskStates \ {"unplanned", "none"} :
                 TaskStep(t, from, to)
    BY <1>5, RankTaskSteps
  <2>2. task[t] = from /\ task' = [task EXCEPT ![t] = to] /\ UNCHANGED next
    BY <2>1 DEF TaskStep, client
  <2>3. \A q \in Tasks : q # t => task'[q] = task[q]
    BY <2>2, OtherTasksRest
  <2> QED  BY <2>2, <2>3, NotSubmitted
<1>6. ASSUME NEW w \in Workers, Die(w)
      PROVE  Submitted'
  <2> DEFINE lost == {t \in Tasks : Home(t) = w
                        /\ task[t] \notin Over \union {"unplanned", "none", "queued"}}
  <2>1. /\ task' = [t \in Tasks |-> IF t \in lost THEN "error" ELSE task[t]]
        /\ UNCHANGED next
    BY <1>6 DEF Die, client
  <2> QED  BY <2>1, NotSubmitted
<1>7. CASE Done
  BY <1>7, <1>1 DEF Done, vars, client
<1>8. ASSUME NEW f \in Fits, Client(f) \/ TrainInterrupted(f) \/ AwaitStopped(f)
      PROVE  Submitted'
  <2>1. \/ QuietClient(f) \/ Submit(f) \/ CancelFutures(f)
        \/ \E t \in Tasks : CancelSession(f, t)
    BY <1>8 DEF Client, QuietClient
  <2>2. CASE QuietClient(f)
    BY <2>2, <1>1, QuietClientRests
  <2> QED  BY <2>1, <2>2, <1>2, <1>3, <1>4
<1> QED
  BY <1>5, <1>6, <1>7, <1>8 DEF Next

\* A client moves its own fit only.
LEMMA OwnFitOnly ==
    ASSUME Typed, NEW f \in Fits, Client(f) \/ TrainInterrupted(f) \/ AwaitStopped(f),
           NEW g \in Fits, g # f
    PROVE  pc'[g] = pc[g] /\ outcome'[g] = outcome[g] /\ then'[g] = then[g]
           /\ todo'[g] = todo[g]
<1>1. CASE Bind(f) \/ BeginTrain(f) \/ Submit(f) \/ RegisterLive(f) \/ ReturnRef(f)
  BY <1>1 DEF Bind, BeginTrain, Submit, RegisterLive, ReturnRef, Goto, Typed
<1>2. CASE TrainInterrupted(f) \/ AwaitError(f) \/ AwaitStopped(f)
  BY <1>2 DEF TrainInterrupted, AwaitError, AwaitStopped, StartCancel, Goto, Typed
<1>3. CASE AwaitDone(f) \/ AwaitCancelled(f) \/ EndCancel(f)
  BY <1>3 DEF AwaitDone, AwaitCancelled, EndCancel, Goto, Typed
<1>4. CASE Release(f)
  BY <1>4 DEF Release, StartCancel, Goto, Typed
<1>5. CASE \E w \in Workers : LookUp(f, w)
  <2>1. PICK w \in Workers : LookUp(f, w)  BY <1>5
  <2> QED  BY <2>1, Zenon DEF LookUp
<1>6. CASE \E t \in Tasks : CancelSession(f, t)
  BY <1>6 DEF CancelSession
<1>7. CASE CancelFutures(f)
  <2>1. todo' = [todo EXCEPT ![f] = todo[f] \ {Job(f)}]
        /\ UNCHANGED <<pc, outcome, then>>
    BY <1>7 DEF CancelFutures
  <2> QED  BY <2>1 DEF Typed
<1> QED  BY <1>1, <1>2, <1>3, <1>4, <1>5, <1>6, <1>7 DEF Client

\* A cancellation of its own job has it to do.
LEMMA StartCancelFit ==
    ASSUME Typed, NEW f \in Fits, NEW jobs \in SUBSET Fits,
           NEW after \in {"raise", "release", "forget"}, StartCancel(f, jobs, after),
           AnsweredAt(f), \A t \in Tasks : Lasting(t), after = "raise" \/ jobs = {f}
    PROVE  AnsweredAt(f)' /\ StoppingAt(f)'
<1>1. /\ pc'[f] = "cancelling" /\ then'[f] = after /\ todo'[f] = jobs
      /\ outcome'[f] = outcome[f]
  BY DEF StartCancel, Goto, Typed
<1>2. RanksOf(f)' = RanksOf(f)  BY RanksLast
<1>3. \A r \in RanksOf(f) : task[<<f, r>>] = "done" => task'[<<f, r>>] = "done"
  BY TaskNames DEF RanksOf, Lasting
<1>4. AnsweredAt(f)'  BY <1>1, <1>2, <1>3 DEF AnsweredAt
<1> QED  BY <1>1, <1>4 DEF StoppingAt

\* The futures of a job are all cancelled once it is stopped.
LEMMA CancelFuturesFit ==
    ASSUME IInv, NEW f \in Fits, CancelFutures(f), \A t \in Tasks : Lasting(t)
    PROVE  AnsweredAt(f)' /\ StoppingAt(f)'
<1> DEFINE j == Job(f)
<1>1. j \in todo[f] /\ j \in Fits
  BY JobIsOne DEF CancelFutures, IInv, ClientInv, Typed, Job
<1>2. /\ pc[f] = "cancelling" /\ UNCHANGED <<pc, outcome, then>>
      /\ todo'[f] = todo[f] \ {j}
      /\ cancelled' = cancelled \union {<<f, j, r>> : r \in RanksOf(j)}
  BY DEF CancelFutures, IInv, ClientInv, Typed
<1> HIDE DEF j
<1>3. RanksOf(f)' = RanksOf(f)  BY RanksLast
<1>4. \A r \in RanksOf(f) : task[<<f, r>>] = "done" => task'[<<f, r>>] = "done"
  BY TaskNames DEF RanksOf, Lasting
<1>5. AnsweredAt(f)'
  BY <1>2, <1>3, <1>4 DEF IInv, ClientInv, Answered, AnsweredAt
<1>6. j = f => AllCancelled(f)'
  BY <1>2, <1>3 DEF AllCancelled, CancelledFuture
<1>7. AllCancelled(f) => AllCancelled(f)'
  BY <1>2, <1>3 DEF AllCancelled, CancelledFuture
<1>8. StoppingAt(f)'
  BY <1>1, <1>2, <1>6, <1>7 DEF IInv, ClientInv, Stopping, StoppingAt
<1> QED  BY <1>5, <1>8

\* What a fit's own client does to it.
LEMMA OwnFit ==
    ASSUME IInv, NEW f \in Fits, Client(f) \/ TrainInterrupted(f) \/ AwaitStopped(f),
           \A t \in Tasks : Lasting(t), cancelled \subseteq cancelled'
    PROVE  AnsweredAt(f)' /\ StoppingAt(f)'
<1>0. Typed /\ AnsweredAt(f) /\ StoppingAt(f)
  BY DEF IInv, ClientInv, Answered, Stopping
<1>1. CASE Bind(f) \/ BeginTrain(f) \/ RegisterLive(f) \/ ReturnRef(f) \/ AwaitCancelled(f)
  <2>1. pc'[f] \notin {"cancelling", "ended"} /\ outcome'[f] = outcome[f]
    BY <1>0, <1>1 DEF Bind, BeginTrain, RegisterLive, ReturnRef, AwaitCancelled, Goto, Typed
  <2> QED  BY <1>0, <2>1, FitOnItsWay
<1>2. CASE Submit(f)
  BY <1>0, <1>2, FitRests DEF Submit
<1>3. CASE TrainInterrupted(f)
  <2>1. StartCancel(f, live \intersect Backmates(f), "raise")
    BY <1>3 DEF TrainInterrupted
  <2>2. live \intersect Backmates(f) \in SUBSET Fits  BY <1>0 DEF Typed
  <2> QED  BY <1>0, <2>1, <2>2, StartCancelFit
<1>4. CASE AwaitError(f) \/ AwaitStopped(f)
  <2>1. StartCancel(f, {f}, "release")  BY <1>4 DEF AwaitError, AwaitStopped
  <2> QED  BY <1>0, <2>1, StartCancelFit
<1>5. CASE AwaitDone(f)
  <2>1. /\ pc'[f] = "releasing" /\ outcome'[f] = "model"
        /\ UNCHANGED task
    BY <1>0, <1>5 DEF AwaitDone, Goto, Typed, worker
  <2>2. \A r \in RanksOf(f) : task[<<f, r>>] = "done"
    BY <1>5 DEF AwaitDone, EveryRankDone, Futures
  <2>3. RanksOf(f)' = RanksOf(f)  BY RanksLast
  <2> QED  BY <2>1, <2>2, <2>3 DEF AnsweredAt, StoppingAt
<1>6. CASE Release(f)
  <2>1. CASE outcome[f] = "model"
    <3>1. pc'[f] = "ended" /\ outcome'[f] = "model" /\ UNCHANGED task
      BY <1>0, <1>6, <2>1 DEF Release, Goto, Typed, worker
    <3>2. RanksOf(f)' = RanksOf(f)  BY RanksLast
    <3> QED  BY <1>0, <2>1, <3>1, <3>2 DEF AnsweredAt, StoppingAt
  <2>2. CASE outcome[f] # "model"
    <3>1. StartCancel(f, {f}, "forget")  BY <1>6, <2>2 DEF Release
    <3> QED  BY <1>0, <3>1, StartCancelFit
  <2> QED  BY <2>1, <2>2
<1>7. CASE \E w \in Workers : LookUp(f, w)
  <2>1. PICK w \in Workers : LookUp(f, w)  BY <1>7
  <2>2. UNCHANGED <<pc, outcome, then, todo>>  BY <2>1, Zenon DEF LookUp
  <2> QED  BY <1>0, <2>2, FitRests
<1>8. CASE \E t \in Tasks : CancelSession(f, t)
  <2>1. UNCHANGED <<pc, outcome, then, todo>>  BY <1>8 DEF CancelSession
  <2> QED  BY <1>0, <2>1, FitRests
<1>9. CASE CancelFutures(f)
  BY <1>9, CancelFuturesFit
<1>10. CASE EndCancel(f)
  <2>1. /\ pc[f] = "cancelling" /\ todo[f] = {}
        /\ pc'[f] = IF then[f] = "release" THEN "releasing" ELSE "ended"
        /\ outcome'[f] = "failed" /\ then'[f] = then[f]
    BY <1>0, <1>10 DEF EndCancel, Goto, Typed
  <2>2. then[f] # "raise" => AllCancelled(f)  BY <1>0, <2>1 DEF StoppingAt
  <2>3. AllCancelled(f) => AllCancelled(f)'  BY CancelledLasts
  <2> QED  BY <2>1, <2>2, <2>3 DEF AnsweredAt, StoppingAt
<1> QED
  BY <1>1, <1>2, <1>3, <1>4, <1>5, <1>6, <1>7, <1>8, <1>9, <1>10 DEF Client

-----------------------------------------------------------------------------
(* The invariant.                                                          *)

\* The invariant holds before the first submit.
LEMMA InitIsGood == Init => IInv
<1> SUFFICES ASSUME Init PROVE IInv  OBVIOUS
<1>1. PICK plan \in Plans :
        /\ pc = [f \in Fits |-> IF plan[f] = 0 THEN "ended" ELSE "start"]
        /\ task = [t \in Tasks |-> IF t[2] < plan[t[1]] THEN "none" ELSE "unplanned"]
        /\ faults = MaxFaults[plan]
  BY DEF Init
<1>2. plan \in [Fits -> 0 .. NRanks] /\ MaxFaults[plan] \in Nat
  BY PlanAssumption, FaultAssumption
<1>3. \A t \in Tasks : task[t] \in {"none", "unplanned"}  BY <1>1
<1>4. WorkerTyped
  BY <1>1, BackendAssumption DEF Init, WorkerTyped, TaskStates
<1>5. SessionFollows /\ DoneIsOk /\ TrainsOnTheLiving
  BY <1>3 DEF Init, SessionFollows, DoneIsOk, TrainsOnTheLiving, Before, Inside, Over
<1>6. SlotFollows
  BY TaskNames DEF Init, SlotFollows
<1>7. Typed
  BY <1>1, <1>2, PlacementAssumption DEF Init, Typed, ClientStates
<1>8. Submitted
  BY <1>3 DEF Submitted
<1>9. Answered
  <2> SUFFICES ASSUME NEW f \in Fits PROVE AnsweredAt(f)  BY DEF Answered
  <2>1. outcome[f] = "none"  BY DEF Init
  <2>2. ASSUME pc[f] = "ended", NEW r \in RanksOf(f)
        PROVE  FALSE
    <3>1. plan[f] = 0  BY <1>1, <2>2
    <3>2. r \in Ranks /\ <<f, r>> \in Tasks /\ task[<<f, r>>] # "unplanned"
      BY <2>2, TaskNames DEF RanksOf
    <3>3. r < plan[f]  BY <1>1, <3>2
    <3> QED  BY <3>1, <3>2, <3>3 DEF Ranks
  <2> QED  BY <2>1, <2>2 DEF AnsweredAt
<1>10. Stopping
  BY <1>1 DEF Init, Stopping, StoppingAt
<1> QED
  BY <1>4, <1>5, <1>6, <1>7, <1>8, <1>9, <1>10 DEF IInv, WorkerInv, ClientInv

\* Every step of a client, a task, a worker or the environment keeps the invariant.
LEMMA StepIsGood == IInv /\ [Next]_vars => IInv'
<1> SUFFICES ASSUME IInv, [Next]_vars PROVE IInv'  OBVIOUS
<1>1. CASE Next
  <2>1. WorkerInv /\ Typed /\ Submitted  BY DEF IInv, ClientInv
  <2>2. WorkerInv' /\ Typed' /\ Submitted'
    BY <1>1, <2>1, WorkerKept, TypedKept, SubmittedKept
  <2>3. (\A t \in Tasks : Lasting(t)) /\ cancelled \subseteq cancelled'
    BY <1>1, <2>1, StepLasts
  <2>4. \A f \in Fits : AnsweredAt(f) /\ StoppingAt(f)
    BY DEF IInv, ClientInv, Answered, Stopping
  <2>5. CASE UNCHANGED client
    BY <2>3, <2>4, <2>5, <2>2, FitRests DEF IInv, ClientInv, Answered, Stopping, client
  <2>6. ASSUME NEW f \in Fits, Client(f) \/ TrainInterrupted(f) \/ AwaitStopped(f),
               NEW g \in Fits
        PROVE  AnsweredAt(g)' /\ StoppingAt(g)'
    <3>1. CASE g = f
      BY <2>3, <2>6, <3>1, OwnFit
    <3>2. CASE g # f
      BY <2>1, <2>3, <2>4, <2>6, <3>2, OwnFitOnly, FitRests
    <3> QED  BY <3>1, <3>2
  <2>7. ASSUME NEW t \in Tasks, RankTask(t) \/ CheckFails(t)
        PROVE  UNCHANGED client
    BY <2>7, RankTaskSteps DEF TaskStep
  <2>8. ASSUME NEW w \in Workers, Die(w)
        PROVE  UNCHANGED client
    BY <2>8 DEF Die
  <2>9. Done => UNCHANGED client  BY DEF Done, vars
  <2>10. Answered' /\ Stopping'
    BY <1>1, <2>5, <2>6, <2>7, <2>8, <2>9 DEF Next, Answered, Stopping, IInv, ClientInv
  <2> QED  BY <2>2, <2>10 DEF IInv, ClientInv
<1>2. CASE UNCHANGED vars
  <2>1. UNCHANGED <<client, worker, cancelled, missed, faults>>  BY <1>2 DEF vars
  <2>2. WorkerInv'  BY <2>1, WorkersRest DEF IInv
  <2>3. task' = task /\ cancelled' = cancelled  BY <2>1 DEF worker
  <2>4. \A t \in Tasks : Lasting(t)  BY <2>3 DEF Lasting
  <2>5. Answered' /\ Stopping'
    BY <2>1, <2>3, <2>4, FitRests DEF IInv, ClientInv, Answered, Stopping, client
  <2>6. Typed' /\ Submitted'
    BY <2>1, <2>3 DEF IInv, ClientInv, Typed, Submitted, client
  <2> QED  BY <2>2, <2>5, <2>6 DEF IInv, ClientInv
<1> QED  BY <1>1, <1>2

\* The invariant of every behaviour: who answers a fit, what stops it and what
\* the workers hold for it.
THEOREM Invariance == Spec => []IInv
<1>1. IInv /\ UNCHANGED vars => IInv'
  BY StepIsGood
<1> QED  BY <1>1, InitIsGood, StepIsGood, PTL DEF Spec

\* TypeOK: the types, an outcome for every fit past its gather, and registry
\* slots that hold ranks of their own worker.
THEOREM TypeCorrect == Spec => []TypeOK
<1>1. IInv => TypeOK
  <2> SUFFICES ASSUME IInv PROVE TypeOK  OBVIOUS
  <2>1. WorkerTyped /\ Typed  BY DEF IInv, WorkerInv, ClientInv
  <2>2. \A f \in Fits : pc[f] = "ended" /\ RanksOf(f) # {} => outcome[f] # "none"
    BY DEF IInv, ClientInv, Answered, AnsweredAt
  <2>3. \A w \in Workers, f \in Fits : registry[w][f] # None => Worker[registry[w][f]] = w
    <3> SUFFICES ASSUME NEW w \in Workers, NEW f \in Fits, registry[w][f] # None
                 PROVE  Worker[registry[w][f]] = w
      OBVIOUS
    <3>1. registry[w][f] \in Ranks  BY <2>1 DEF WorkerTyped
    <3> QED  BY <3>1 DEF IInv, WorkerInv, SlotFollows
  <2> QED  BY <2>1, <2>2, <2>3 DEF TypeOK, Typed, WorkerTyped
<1> QED  BY <1>1, Invariance, PTL

\* ModelMeansEveryRank: take_model_bytes answers only for a world whose every
\* rank returned from its training, with any plan, deaths and cancellations.
THEOREM ModelIsWhole == Spec => []ModelMeansEveryRank
<1>1. IInv => ModelMeansEveryRank
  <2> SUFFICES ASSUME IInv, NEW f \in Fits, outcome[f] = "model", NEW t \in Futures(f)
               PROVE  task[t] = "done" /\ result[t] = "ok"
    BY DEF ModelMeansEveryRank
  <2>1. PICK r \in RanksOf(f) : t = <<f, r>>  BY DEF Futures
  <2>2. task[t] = "done"
    BY <2>1 DEF IInv, ClientInv, Answered, AnsweredAt
  <2>3. t \in Tasks  BY <2>1, TaskNames DEF RanksOf
  <2> QED  BY <2>2, <2>3 DEF IInv, WorkerInv, DoneIsOk
<1> QED  BY <1>1, Invariance, PTL

\* AbandonedRanksAreCancelled: a fit that failed after train returned leaves no
\* rank of it running with a future nobody cancelled.
THEOREM AbandonedAreCancelled == Spec => []AbandonedRanksAreCancelled
<1>1. IInv => AbandonedRanksAreCancelled
  <2> SUFFICES ASSUME IInv, NEW f \in Fits, pc[f] = "ended", outcome[f] = "failed",
                      then[f] # "raise", NEW t \in Futures(f)
               PROVE  CancelledFuture(t)
    BY DEF AbandonedRanksAreCancelled, Stranded
  <2>1. PICK r \in RanksOf(f) : t = <<f, r>>  BY DEF Futures
  <2>2. AllCancelled(f)
    BY DEF IInv, ClientInv, Stopping, StoppingAt
  <2> QED  BY <2>1, <2>2 DEF AllCancelled
<1> QED  BY <1>1, Invariance, PTL

\* NothingIsKept: when a rank's future is over its worker holds no open session
\* and no registry slot of it, the safety half of WorkersAreFreed.
THEOREM RanksLeaveNothing == Spec => []NothingIsKept
<1>1. IInv => NothingIsKept
  <2> SUFFICES ASSUME IInv, NEW t \in Tasks, task[t] \in Over
               PROVE  session[t] \in {"none", "closed"} /\ registry[Home(t)][t[1]] # t[2]
    BY DEF NothingIsKept
  <2>1. t[1] \in Fits /\ t[2] \in Ranks /\ t = <<t[1], t[2]>> /\ Home(t) \in Workers
    BY TaskNames
  <2>2. task[<<t[1], t[2]>>] \notin {"training", "leaving"}  BY <2>1 DEF Over
  <2>3. session[t] \in {"none", "closed"}
    BY DEF IInv, WorkerInv, SessionFollows
  <2> QED  BY <2>1, <2>2, <2>3 DEF IInv, WorkerInv, SlotFollows
<1> QED  BY <1>1, Invariance, PTL

-----------------------------------------------------------------------------
(* One rank per worker: a cancellation finds every session in training.    *)

\* No slot of the registry is taken before the first submit.
LEMMA SlotInit == Init => SlotIsKept
<1> SUFFICES ASSUME Init PROVE SlotIsKept  OBVIOUS
<1>1. \A t \in Tasks : task[t] \in {"none", "unplanned"}  BY DEF Init
<1> QED  BY <1>1 DEF Init, SlotIsKept

\* The slot of a rank in training is written by nobody else.
LEMMA SlotStep ==
    ASSUME OneRankPerWorker, IInv, SlotIsKept, [Next]_vars
    PROVE  SlotIsKept'
<1>0. WorkerInv /\ Typed  BY DEF IInv, ClientInv
<1> DEFINE Kept == \A t \in Tasks : task[t] = "training" => registry[Home(t)][t[1]] = t[2]
<1>1. Kept /\ missed = {}  BY DEF SlotIsKept
<1>2. ASSUME UNCHANGED <<registry, missed>>,
             \A t \in Tasks : task'[t] = "training" => task[t] = "training"
      PROVE  SlotIsKept'
  BY <1>1, <1>2 DEF SlotIsKept, Home
<1>3. CASE UNCHANGED <<worker, missed>>
  BY <1>2, <1>3 DEF worker
<1>4. ASSUME NEW f \in Fits, NEW w \in Workers, LookUp(f, w)
      PROVE  SlotIsKept'
  <2> DEFINE j == Job(f)
             r == IF w \in alive THEN registry[w][j] ELSE None
             here == {q \in RanksOf(j) : Worker[q] = w /\ task[<<j, q>>] = "training"
                                         /\ session[<<j, q>>] = "open"}
  <2>1. j \in Fits  BY <1>0, <1>4, JobIsOne DEF LookUp, Typed, Job
  <2>2. missed' = missed \union {<<j, q>> : q \in here \ {r}} /\ UNCHANGED worker
    BY <1>4, Zenon DEF LookUp
  <2>3. ASSUME NEW q \in here PROVE q = r
    <3>1. <<j, q>> \in Tasks /\ task[<<j, q>>] = "training" /\ Home(<<j, q>>) = w
      BY <2>1, <2>3, TaskNames DEF RanksOf, Home
    <3>2. w \in alive  BY <1>0, <3>1 DEF WorkerInv, TrainsOnTheLiving
    <3>3. registry[w][j] = q  BY <1>1, <3>1
    <3> QED  BY <3>2, <3>3
  <2>4. missed' = {}  BY <1>1, <2>2, <2>3
  <2> QED  BY <1>1, <2>2, <2>4 DEF SlotIsKept, worker, Home
<1>5. ASSUME NEW t \in Tasks, Register(t)
      PROVE  SlotIsKept'
  <2>1. /\ task' = [task EXCEPT ![t] = "training"] /\ UNCHANGED missed
        /\ registry' = [registry EXCEPT ![Home(t)][t[1]] = t[2]]
    BY <1>5 DEF Register, TaskStep
  <2>2. t[2] \in Ranks  BY TaskNames
  <2>3. /\ registry'[Home(t)][t[1]] = t[2]
        /\ \A w \in Workers, f \in Fits :
               <<w, f>> # <<Home(t), t[1]>> => registry'[w][f] = registry[w][f]
    BY <1>0, <2>1, <2>2, SlotWritten
  <2>4. \A q \in Tasks : q # t => task'[q] = task[q]
    BY <1>0, <2>1, OtherTasksRest
  <2>5. ASSUME NEW q \in Tasks, q # t, task'[q] = "training"
        PROVE  registry'[Home(q)][q[1]] = q[2]
    <3>1. registry[Home(q)][q[1]] = q[2]  BY <1>1, <2>4, <2>5
    <3>2. <<Home(q), q[1]>> # <<Home(t), t[1]>>
      BY <2>5, TaskNames DEF OneRankPerWorker, Home
    <3> QED  BY <2>3, <3>1, <3>2, TaskNames
  <2> QED  BY <1>1, <2>1, <2>3, <2>5 DEF SlotIsKept, Home
<1>6. ASSUME NEW t \in Tasks, Forget(t)
      PROVE  SlotIsKept'
  <2>1. /\ task' = [task EXCEPT ![t] = "forgot"] /\ UNCHANGED missed
        /\ registry' = [registry EXCEPT ![Home(t)][t[1]] = None]
    BY <1>6 DEF Forget, TaskStep
  <2>2. \A w \in Workers, f \in Fits :
            <<w, f>> # <<Home(t), t[1]>> => registry'[w][f] = registry[w][f]
    BY <1>0, <2>1, SlotWritten
  <2>3. task'[t] = "forgot" /\ \A q \in Tasks : q # t => task'[q] = task[q]
    BY <1>0, <2>1, OtherTasksRest
  <2>4. ASSUME NEW q \in Tasks, task'[q] = "training"
        PROVE  registry'[Home(q)][q[1]] = q[2]
    <3>0. q # t  BY <2>3, <2>4
    <3>1. registry[Home(q)][q[1]] = q[2]  BY <1>1, <2>3, <2>4, <3>0
    <3>2. <<Home(q), q[1]>> # <<Home(t), t[1]>>
      BY <3>0, TaskNames DEF OneRankPerWorker, Home
    <3> QED  BY <2>2, <3>1, <3>2, TaskNames
  <2> QED  BY <1>1, <2>1, <2>4 DEF SlotIsKept, Home
<1>7. ASSUME NEW gone \in Workers, Die(gone)
      PROVE  SlotIsKept'
  <2> DEFINE lost == {t \in Tasks : Home(t) = gone
                        /\ task[t] \notin Over \union {"unplanned", "none", "queued"}}
  <2>1. /\ task' = [t \in Tasks |-> IF t \in lost THEN "error" ELSE task[t]]
        /\ registry' = [registry EXCEPT ![gone] = [f \in Fits |-> None]]
        /\ UNCHANGED missed
    BY <1>7 DEF Die
  <2>2. ASSUME NEW t \in Tasks, task'[t] = "training"
        PROVE  registry'[Home(t)][t[1]] = t[2]
    <3>1. t \notin lost /\ task[t] = "training"  BY <2>1, <2>2
    <3>2. Home(t) # gone  BY <3>1 DEF Over
    <3>3. registry'[Home(t)] = registry[Home(t)]
      BY <1>0, <2>1, <3>2, TaskNames DEF WorkerInv, WorkerTyped
    <3> QED  BY <1>1, <3>1, <3>3
  <2> QED  BY <1>1, <2>1, <2>2 DEF SlotIsKept, Home
<1>8. ASSUME NEW t \in Tasks, RankTask(t) \/ CheckFails(t), ~Register(t), ~Forget(t)
      PROVE  SlotIsKept'
  <2>1. UNCHANGED <<registry, missed>>
    BY <1>8, Zenon DEF RankTask, CheckFails, Start, Open, Opened, OpenFails,
       TrainReturns, TrainRaises, Close, TaskStep
  <2>2. PICK to \in TaskStates \ {"training"} : task' = [task EXCEPT ![t] = to]
    BY <1>8, Zenon DEF RankTask, CheckFails, Start, Open, Opened, OpenFails,
       TrainReturns, TrainRaises, Close, TaskStep, TaskStates
  <2>3. task'[t] = to /\ \A q \in Tasks : q # t => task'[q] = task[q]
    BY <1>0, <2>2, OtherTasksRest
  <2> QED  BY <1>2, <2>1, <2>2, <2>3
<1>9. ASSUME NEW f \in Fits, Submit(f) \/ CancelFutures(f)
                            \/ (\E t \in Tasks : CancelSession(f, t))
      PROVE  SlotIsKept'
  <2>1. UNCHANGED <<registry, missed>>
    BY <1>9 DEF Submit, CancelFutures, CancelSession
  <2>2. \A t \in Tasks : task'[t] = task[t] \/ task'[t] \in {"queued", "cancelled"}
    <3>1. CASE Submit(f)
      BY <1>0, <3>1 DEF Submit, WorkerInv, WorkerTyped
    <3>2. CASE CancelFutures(f)
      <4>1. task' = [t \in Tasks |-> IF t[1] = Job(f) /\ task[t] = "queued"
                                     THEN "cancelled" ELSE task[t]]
        BY <3>2 DEF CancelFutures
      <4> QED  BY <4>1
    <3>3. CASE \E t \in Tasks : CancelSession(f, t)
      BY <3>3 DEF CancelSession
    <3> QED  BY <1>9, <3>1, <3>2, <3>3
  <2> QED  BY <1>2, <2>1, <2>2
<1>10. ASSUME NEW f \in Fits, QuietClient(f), \A w \in Workers : ~LookUp(f, w)
       PROVE  SlotIsKept'
  <2>1. UNCHANGED missed
    BY <1>10, Zenon DEF QuietClient, Bind, BeginTrain, RegisterLive, ReturnRef,
       TrainInterrupted, AwaitDone, AwaitError, AwaitStopped, AwaitCancelled, Release,
       EndCancel, StartCancel
  <2> QED  BY <1>3, <1>10, <2>1, QuietClientRests
<1>11. CASE UNCHANGED vars
  BY <1>3, <1>11 DEF vars
<1>12. Done => UNCHANGED vars  BY DEF Done
<1>13. ASSUME NEW f \in Fits, Client(f) \/ TrainInterrupted(f) \/ AwaitStopped(f)
       PROVE  SlotIsKept'
  <2>1. \/ QuietClient(f) \/ Submit(f) \/ CancelFutures(f)
        \/ \E t \in Tasks : CancelSession(f, t)
    BY <1>13 DEF Client, QuietClient
  <2> QED  BY <2>1, <1>4, <1>9, <1>10
<1> QED
  BY <1>5, <1>6, <1>7, <1>8, <1>11, <1>12, <1>13 DEF Next

\* CancelFindsEverySession, with one rank on a worker: the cancellation that
\* looks a job up on a worker finds the session that trains there.  With two
\* ranks of a fit on a worker the one slot holds one of them.
THEOREM EverySessionIsFound ==
    ASSUME OneRankPerWorker
    PROVE  Spec => []CancelFindsEverySession
<1>1. IInv /\ SlotIsKept /\ [Next]_vars => SlotIsKept'
  BY SlotStep
<1>2. SlotIsKept => CancelFindsEverySession
  BY DEF SlotIsKept, CancelFindsEverySession
<1> QED  BY <1>1, <1>2, SlotInit, Invariance, PTL DEF Spec
=============================================================================
