----------------------------- MODULE GpuSession -----------------------------
(***************************************************************************)
(* gpu_runtime.mojo: a GpuSession, its HazardTracker, its StagingRing and  *)
(* its SessionLifecycle, in front of a device that works its queue off in  *)
(* order and whenever it likes.  The host waits only where the tracker or  *)
(* the ring says it must; the caller issues the operations of a round in   *)
(* any order, and may raise between any two and fit again.                 *)
(***************************************************************************)
EXTENDS GpuDevice

CONSTANT MaxOps     \* bound: operations issued, staging slots aside

ASSUME MaxOpsAssumption == MaxOps \in Nat

VARIABLES
    memory,         \* [cell -> what is in it now]
    queue,          \* the operations enqueued and not yet retired
    pendingRead,    \* HazardTracker: resources with an unretired device read
    pendingWrite,   \* and with an unretired device write
    drains,         \* required(): drains the tracker was told of
    cursor,         \* StagingRing: the next slot
    enqueuedAt,     \* [slot -> drains when its copy was enqueued, or -1]
    state,          \* SessionLifecycle
    trainer,        \* where the trainer is: out of a fit, in a round, in a tree
    slot,           \* the slot the host is filling, 0 for none
    awaiting,       \* the host waits for a histogram it has asked for
    seen,           \* the histogram it last read
    refused,        \* history: a trainer was refused a boundary
    ops             \* operations so far

device == <<memory, queue>>
tracker == <<pendingRead, pendingWrite, drains>>
ring == <<cursor, enqueuedAt>>
host == <<trainer, slot, awaiting, seen>>
vars == <<device, tracker, ring, host, state, refused, ops>>

\* The tracker has one resource for all the slots of the ring.
ResStage == Stage(0)
ResourceOf(c) == IF c \in StageCells THEN ResStage ELSE c
Resources == {ResStage} \cup (Cells \ StageCells)
ResourcesOf(cells) == {ResourceOf(c) : c \in cells}

None == -1
States == {"new", "open", "round", "tree", "closed"}

Init ==
    /\ memory = InitialMemory
    /\ queue = <<>>
    /\ pendingRead = {} /\ pendingWrite = {}
    /\ drains = 0
    /\ cursor = 1
    /\ enqueuedAt = [i \in 1 .. Slots |-> None]
    /\ state = "open"
    /\ trainer = "out" /\ slot = 0 /\ awaiting = FALSE
    /\ seen = InitialMemory[HostOut]
    /\ refused = FALSE
    /\ ops = 0

Count == ops < MaxOps /\ ops' = ops + 1

-----------------------------------------------------------------------------
(* The hazard tracker. *)

\* note_device_read and note_device_write, for everything enqueued.
Note(rs, ws) ==
    /\ pendingRead' = pendingRead \cup ResourcesOf(rs)
    /\ pendingWrite' = pendingWrite \cup ResourcesOf(ws)
    /\ UNCHANGED drains

\* Mutant: only reads stand in the way of a host read.
HostReadHazardOfReads(r) == r \in pendingRead
HostReadHazard(r) == r \in pendingWrite
\* Mutant: only writes stand in the way of a host write.
HostWriteHazardOfWrites(r) == r \in pendingWrite
HostWriteHazard(r) == r \in pendingWrite \cup pendingRead

AnyPending == pendingRead \cup pendingWrite # {}

\* The queue has been drained: synchronize has returned, every flag is down.
Sync ==
    /\ queue = <<>>
    /\ pendingRead' = {} /\ pendingWrite' = {}
    /\ drains' = drains + 1

\* Go on at once, or drain first, as the tracker says.
SyncIf(hazard) == IF hazard THEN Sync ELSE UNCHANGED tracker

-----------------------------------------------------------------------------
(* The staging ring. *)

Pending(i) == enqueuedAt[i] >= 0 /\ drains <= enqueuedAt[i]

NextSlot(i) == IF i = Slots THEN 1 ELSE i + 1

\* acquire_staging.
AcquireStaging ==
    /\ trainer # "out" /\ slot = 0 /\ ~awaiting
    /\ SyncIf(Pending(cursor) /\ HostWriteHazard(ResStage))
    /\ slot' = cursor
    /\ enqueuedAt' = [enqueuedAt EXCEPT ![cursor] = None]
    /\ cursor' = NextSlot(cursor)
    /\ UNCHANGED <<device, state, trainer, awaiting, seen, refused, ops>>

\* The host converts gradients into the slot it holds.
Fill == \E v \in Values :
    /\ slot # 0 /\ ~awaiting
    /\ memory' = [memory EXCEPT ![Stage(slot)] = v]
    /\ UNCHANGED <<queue, tracker, ring, host, state, refused, ops>>

\* The upload is enqueued, and staged marks the slot.
Staged ==
    /\ slot # 0 /\ ~awaiting /\ Count
    /\ queue' = Append(queue, Copy(slot))
    /\ Note(Reads(Copy(slot)), Writes(Copy(slot)))
    /\ enqueuedAt' = [enqueuedAt EXCEPT ![slot] = drains]
    /\ slot' = 0
    /\ UNCHANGED <<memory, cursor, state, trainer, awaiting, seen, refused>>

-----------------------------------------------------------------------------
(* The operations of a tree. *)

InTree == trainer = "tree" /\ ~awaiting

\* set_features, and begin_tree with a bag: host writes to device arrays.
SetFeatures == \E v \in Values :
    /\ InTree /\ Count
    /\ SyncIf(HostWriteHazard(Feat))
    /\ memory' = [memory EXCEPT ![Feat] = v]
    /\ UNCHANGED <<queue, ring, host, state, refused>>

BagLeaves == \E v \in Values :
    /\ InTree /\ Count
    /\ SyncIf(HostWriteHazard(Leaf))
    /\ memory' = [memory EXCEPT ![Leaf] = Rows(v, 0)]
    /\ UNCHANGED <<queue, ring, host, state, refused>>

\* begin_tree without a bag, and apply_split: device work, nothing to wait for.
Enqueue(op) ==
    /\ queue' = Append(queue, op)
    /\ Note(Reads(op), Writes(op))

ResetLeaves ==
    /\ InTree /\ Count
    /\ Enqueue(Memset)
    /\ UNCHANGED <<memory, ring, host, state, refused>>

ApplySplit ==
    /\ InTree /\ Count
    /\ Enqueue(Partition)
    /\ UNCHANGED <<memory, ring, host, state, refused>>

\* build_leaf enqueues the kernels and the download, ...
BuildLeaf ==
    /\ InTree /\ Count
    /\ queue' = Append(Append(queue, Histogram), Download)
    /\ Note(Reads(Histogram) \cup Reads(Download),
            Writes(Histogram) \cup Writes(Download))
    /\ awaiting' = TRUE
    /\ UNCHANGED <<memory, ring, trainer, slot, seen, state, refused>>

\* ... waits if it has to, and reads.
ReadHistogram ==
    /\ awaiting
    /\ SyncIf(HostReadHazard(HostOut))
    /\ awaiting' = FALSE
    /\ seen' = memory[HostOut]
    /\ UNCHANGED <<device, ring, trainer, slot, state, refused, ops>>

-----------------------------------------------------------------------------
(* The lifecycle, as the trainers announce it. *)

\* Mutant: a round follows only an ended round.
CanTransitionStrict(from, to) ==
    \/ to = "closed"
    \/ <<from, to>> \in {<<"new", "open">>, <<"open", "round">>, <<"round", "tree">>,
                         <<"round", "open">>, <<"tree", "tree">>, <<"tree", "round">>}
CanTransition(from, to) ==
    \/ to = "closed"
    \/ <<from, to>> \in {<<"new", "open">>, <<"open", "round">>, <<"round", "round">>,
                         <<"round", "tree">>, <<"round", "open">>, <<"tree", "tree">>,
                         <<"tree", "round">>}

\* begin_round and begin_tree move, or raise and end the fit.
Announce(to, at) ==
    IF CanTransition(state, to)
    THEN state' = to /\ trainer' = at /\ UNCHANGED refused
    ELSE trainer' = "out" /\ refused' = TRUE /\ UNCHANGED state

BeginRound ==
    /\ trainer = "out" /\ state # "closed"
    /\ Announce("round", "round")
    /\ UNCHANGED <<device, tracker, ring, slot, awaiting, seen, ops>>

BeginTree ==
    /\ trainer = "round" /\ slot = 0
    /\ Announce("tree", "tree")
    /\ UNCHANGED <<device, tracker, ring, slot, awaiting, seen, ops>>

\* end_tree and end_round are also refused outside a tree or a round.
EndTree ==
    /\ InTree /\ slot = 0
    /\ IF state = "tree" THEN Announce("round", "round")
       ELSE trainer' = "out" /\ refused' = TRUE /\ UNCHANGED state
    /\ UNCHANGED <<device, tracker, ring, slot, awaiting, seen, ops>>

EndRound ==
    /\ trainer = "round" /\ slot = 0
    /\ IF state = "round" THEN Announce("open", "out")
       ELSE trainer' = "out" /\ refused' = TRUE /\ UNCHANGED state
    /\ UNCHANGED <<device, tracker, ring, slot, awaiting, seen, ops>>

\* Something in the fit raises: the trainer announces nothing.
Raise ==
    /\ trainer # "out"
    /\ trainer' = "out" /\ slot' = 0 /\ awaiting' = FALSE
    /\ UNCHANGED <<device, tracker, ring, seen, state, refused, ops>>

\* sync(), whatever is pending.  A drain of the context that the tracker is not
\* told of, as the histogram builder's are, is the device retiring everything.
SyncExplicit ==
    /\ ~awaiting /\ Count
    /\ Sync
    /\ UNCHANGED <<device, ring, host, state, refused>>

\* close: once, between fits; drain, release, then closed.
Close ==
    /\ trainer = "out" /\ state # "closed"
    /\ IF AnyPending THEN Sync ELSE UNCHANGED tracker
    /\ state' = "closed"
    /\ UNCHANGED <<device, ring, host, refused, ops>>

-----------------------------------------------------------------------------
(* The device. *)

Retire ==
    /\ queue # <<>>
    /\ memory' = Effect(Head(queue), memory)
    /\ queue' = Tail(queue)
    /\ UNCHANGED <<tracker, ring, host, state, refused, ops>>

Finished == state = "closed" /\ queue = <<>> /\ UNCHANGED vars

Next ==
    \/ AcquireStaging \/ Fill \/ Staged
    \/ SetFeatures \/ BagLeaves \/ ResetLeaves \/ ApplySplit \/ BuildLeaf \/ ReadHistogram
    \/ BeginRound \/ BeginTree \/ EndTree \/ EndRound \/ Raise
    \/ SyncExplicit \/ Close
    \/ Retire \/ Finished

Spec == Init /\ [][Next]_vars

-----------------------------------------------------------------------------
(* Properties. *)

\* Types of the variables; the host fills a slot only inside a fit, and waits
\* for a histogram only inside a tree.
TypeOK ==
    /\ DOMAIN memory = Cells
    /\ queue \in Seq(DeviceOps)
    /\ pendingRead \subseteq Resources /\ pendingWrite \subseteq Resources
    /\ drains \in Nat
    /\ cursor \in 1 .. Slots
    /\ enqueuedAt \in [1 .. Slots -> Nat \cup {None}]
    /\ state \in States
    /\ trainer \in {"out", "round", "tree"}
    /\ slot \in 0 .. Slots
    /\ awaiting \in BOOLEAN
    /\ refused \in BOOLEAN
    /\ ops \in 0 .. MaxOps
    /\ slot # 0 => trainer # "out"
    /\ awaiting => trainer = "tree"

Queued == {queue[i] : i \in DOMAIN queue}

\* Whatever a queued operation reads or writes is flagged, and the ring knows
\* of every slot a queued copy reads: the two never disagree about the device.
TrackerSeesTheQueue ==
    \A op \in Queued :
        /\ ResourcesOf(Reads(op)) \subseteq pendingRead
        /\ ResourcesOf(Writes(op)) \subseteq pendingWrite
        /\ \A i \in 1 .. Slots : op = Copy(i) => Pending(i)

\* The host never writes a cell a queued operation still reads or writes (a
\* staging slot refilled under its copy), and never reads the histogram while
\* an operation that writes it is queued.
HostNeverRaces ==
    [][/\ queue' = queue => \A c \in Cells : memory'[c] # memory[c] =>
              \A op \in Queued : c \notin Reads(op) \cup Writes(op)
       /\ (awaiting /\ ~awaiting' /\ trainer' = trainer) =>
              \A op \in Queued : HostOut \notin Writes(op)]_vars

\* A trainer on a live session is never refused a boundary, wherever an
\* earlier fit on the session raised.
NeverRefused == ~refused

\* The memory as it will be once everything queued has run.
Flushed ==
    LET after[i \in 0 .. Len(queue)] ==
            IF i = 0 THEN memory ELSE Effect(queue[i], after[i - 1])
    IN after[Len(queue)]

\* What the host reads is what a device without a queue would have given it.
Device == INSTANCE SyncDevice WITH mem <- Flushed
ImplementsSyncDevice == Device!Spec
=============================================================================
