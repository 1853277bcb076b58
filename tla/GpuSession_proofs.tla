------------------------- MODULE GpuSession_proofs -------------------------
(***************************************************************************)
(* Theorems about GpuSession: for any number of staging slots, any values  *)
(* and any number of operations, the tracker and the ring over-approximate *)
(* what is on the queue, the host therefore never races the device, and    *)
(* the session gives its caller what a device without a queue would.       *)
(***************************************************************************)
EXTENDS GpuSession, SequenceTheorems, WellFoundedInduction, TLAPS

-----------------------------------------------------------------------------
(* The cells and what the operations touch. *)

\* The cells a device operation reads and writes, kernel by kernel.
LEMMA Touches ==
    /\ \A i \in 1 .. Slots : Reads(Copy(i)) = {Stage(i)} /\ Writes(Copy(i)) = {Grad}
    /\ Reads(Memset) = {} /\ Writes(Memset) = {Leaf}
    /\ Reads(Partition) = {} /\ Writes(Partition) = {Leaf}
    /\ Reads(Histogram) = {Leaf, Grad, Feat} /\ Writes(Histogram) = {Out}
    /\ Reads(Download) = {Out} /\ Writes(Download) = {HostOut}
  BY DEF Reads, Writes, Copy, Memset, Partition, Histogram, Download

\* Only the staging slots share a resource.
LEMMA OwnResource ==
    /\ \A i \in 1 .. Slots : ResourceOf(Stage(i)) = ResStage /\ Stage(i) # Feat
                             /\ Stage(i) # Leaf /\ Stage(i) # HostOut
    /\ ResourceOf(Leaf) = Leaf /\ ResourceOf(Feat) = Feat /\ ResourceOf(Grad) = Grad
    /\ ResourceOf(Out) = Out /\ ResourceOf(HostOut) = HostOut
    /\ {ResStage, Leaf, Feat, Grad, Out, HostOut} = Resources
  BY DEF ResourceOf, StageCells, Stage, Leaf, Feat, Grad, Out, HostOut, ResStage,
         Resources, Cells

\* The operations are told apart by their kernel, the copies by their slot.
LEMMA OpsDiffer ==
    \A i \in 1 .. Slots :
        /\ Copy(i) \in DeviceOps
        /\ \A j \in 1 .. Slots : Copy(i) = Copy(j) => i = j
        /\ Copy(i) \notin {Memset, Partition, Histogram, Download}
  BY DEF Copy, Memset, Partition, Histogram, Download, DeviceOps

\* What is queued after an operation is appended, and after one is retired.
LEMMA QueuedAppend ==
    ASSUME NEW q \in Seq(DeviceOps), NEW op \in DeviceOps
    PROVE  {Append(q, op)[i] : i \in DOMAIN Append(q, op)}
              = {q[i] : i \in DOMAIN q} \cup {op}
  <1> DEFINE r == Append(q, op)
  <1>1. /\ Len(r) = Len(q) + 1 /\ Len(q) \in Nat
        /\ DOMAIN r = 1 .. Len(q) + 1 /\ DOMAIN q = 1 .. Len(q)
        /\ r[Len(q) + 1] = op
        /\ \A i \in 1 .. Len(q) : r[i] = q[i]
    OBVIOUS
  <1> HIDE DEF r
  <1>2. \A i \in DOMAIN r : (i \in DOMAIN q /\ r[i] = q[i]) \/ r[i] = op
    BY <1>1
  <1>3. \A i \in DOMAIN q : i \in DOMAIN r /\ r[i] = q[i]
    BY <1>1
  <1>4. \E i \in DOMAIN r : r[i] = op
    BY <1>1
  <1>5. {r[i] : i \in DOMAIN r} = {q[i] : i \in DOMAIN q} \cup {op}
    BY <1>2, <1>3, <1>4
  <1> QED BY <1>5 DEF r

LEMMA QueuedTail ==
    ASSUME NEW q \in Seq(DeviceOps), q # <<>>
    PROVE  /\ Tail(q) \in Seq(DeviceOps)
           /\ Tail(q) # q
           /\ Head(q) \in DeviceOps
           /\ {Tail(q)[i] : i \in DOMAIN Tail(q)} \subseteq {q[i] : i \in DOMAIN q}
  <1>1. Tail(q) \in Seq(DeviceOps) /\ Head(q) \in DeviceOps /\ Len(Tail(q)) # Len(q)
    OBVIOUS
  <1>2. \A i \in 1 .. Len(Tail(q)) : i + 1 \in 1 .. Len(q) /\ Tail(q)[i] = q[i + 1]
    OBVIOUS
  <1>3. DOMAIN q = 1 .. Len(q) /\ DOMAIN Tail(q) = 1 .. Len(Tail(q))
    BY <1>1
  <1> DEFINE r == Tail(q)
  <1> HIDE DEF r
  <1>4. \A i \in DOMAIN r : \E j \in DOMAIN q : r[i] = q[j]
    BY <1>2, <1>3 DEF r
  <1>5. {r[i] : i \in DOMAIN r} \subseteq {q[i] : i \in DOMAIN q}
    BY <1>4
  <1> QED BY <1>1, <1>5 DEF r

-----------------------------------------------------------------------------
(* The inductive invariant. *)

\* A slot's mark is never ahead of the drains, and while it is level with them
\* the tracker still flags a read of the ring.
RingInv ==
    \A i \in 1 .. Slots :
        /\ enqueuedAt[i] <= drains
        /\ enqueuedAt[i] = drains => ResStage \in pendingRead

\* The slot the host fills carries no mark.
HeldInv == slot # 0 => enqueuedAt[slot] = None

\* The session is where its trainer is, or where a fit that raised left it.
LifeInv ==
    /\ ~refused
    /\ state # "new"
    /\ trainer = "round" => state = "round"
    /\ trainer = "tree" => state = "tree"
    /\ state = "closed" => trainer = "out"

IInv == TypeOK /\ RingInv /\ HeldInv /\ TrackerSeesTheQueue /\ LifeInv

LEMMA InitInv == Init => IInv
  <1> SUFFICES ASSUME Init PROVE IInv
    OBVIOUS
  <1> USE SlotsAssumption, MaxOpsAssumption DEF Init
  <1>1. Queued = {}
    BY DEF Queued
  <1>2. DOMAIN memory = Cells
    BY DEF InitialMemory
  <1>3. TypeOK
    <2>1. queue \in Seq(DeviceOps) /\ pendingRead \subseteq Resources
          /\ pendingWrite \subseteq Resources
      OBVIOUS
    <2>2. /\ enqueuedAt \in [1 .. Slots -> Nat \cup {None}] /\ cursor \in 1 .. Slots
          /\ slot \in 0 .. Slots /\ slot = 0 /\ ops \in 0 .. MaxOps /\ drains \in Nat
      BY DEF None
    <2>3. state \in States /\ trainer = "out" /\ awaiting = FALSE /\ refused = FALSE
      BY DEF States
    <2> QED BY <1>2, <2>1, <2>2, <2>3 DEF TypeOK
  <1> QED BY <1>1, <1>3 DEF IInv, RingInv, HeldInv, TrackerSeesTheQueue, LifeInv, None

\* Appending an operation and noting it keeps every queued operation in sight.
LEMMA EnqueueSeen ==
    ASSUME NEW q \in Seq(DeviceOps), NEW op \in DeviceOps,
           NEW rd, NEW wr, NEW rd2, NEW wr2,
           \A o \in {q[i] : i \in DOMAIN q} :
              ResourcesOf(Reads(o)) \subseteq rd /\ ResourcesOf(Writes(o)) \subseteq wr,
           rd \cup ResourcesOf(Reads(op)) \subseteq rd2,
           wr \cup ResourcesOf(Writes(op)) \subseteq wr2
    PROVE  \A o \in {Append(q, op)[i] : i \in DOMAIN Append(q, op)} :
              ResourcesOf(Reads(o)) \subseteq rd2 /\ ResourcesOf(Writes(o)) \subseteq wr2
  BY QueuedAppend

\* What an operation touches is among the resources.
LEMMA ResourcesTyped ==
    ASSUME NEW op \in DeviceOps
    PROVE  /\ ResourcesOf(Reads(op)) \subseteq Resources
           /\ ResourcesOf(Writes(op)) \subseteq Resources
           /\ Writes(op) # {}
  <1>1. \/ \E i \in 1 .. Slots : op = Copy(i)
        \/ op \in {Memset, Partition, Histogram, Download}
    BY DEF DeviceOps
  <1> QED BY <1>1, Touches, OwnResource DEF ResourcesOf

\* SyncIf either drains, and then nothing is queued, or changes nothing and
\* the hazard was not there.
LEMMA SyncCases ==
    ASSUME NEW hazard \in BOOLEAN, SyncIf(hazard)
    PROVE  \/ queue = <<>> /\ pendingRead' = {} /\ pendingWrite' = {} /\ drains' = drains + 1
           \/ ~hazard /\ UNCHANGED tracker
  BY DEF SyncIf, Sync

\* A drain keeps the marks behind the drains.
LEMMA SyncKeepsRing ==
    ASSUME IInv, NEW hazard \in BOOLEAN, SyncIf(hazard)
    PROVE  /\ drains' \in Nat
           /\ pendingRead' \subseteq Resources /\ pendingWrite' \subseteq Resources
           /\ \A i \in 1 .. Slots :
                /\ enqueuedAt[i] <= drains'
                /\ enqueuedAt[i] = drains' => ResStage \in pendingRead'
           /\ queue # <<>> => UNCHANGED tracker
  <1>1. CASE queue = <<>> /\ pendingRead' = {} /\ pendingWrite' = {} /\ drains' = drains + 1
    <2>1. \A i \in 1 .. Slots : enqueuedAt[i] \in Nat \cup {None}
      BY DEF IInv, TypeOK
    <2>2. \A i \in 1 .. Slots : enqueuedAt[i] < drains'
      BY <1>1, <2>1 DEF IInv, TypeOK, RingInv, None
    <2> QED BY <1>1, <2>1, <2>2 DEF IInv, TypeOK, None
  <1>2. CASE ~hazard /\ UNCHANGED tracker
    BY <1>2 DEF IInv, TypeOK, RingInv, tracker
  <1> QED BY <1>1, <1>2, SyncCases

\* What the host does without enqueuing: drain if told to, and leave the ring.
LEMMA HostKeeps ==
    ASSUME IInv, NEW hazard \in BOOLEAN, SyncIf(hazard), UNCHANGED <<queue, ring>>
    PROVE  RingInv' /\ TrackerSeesTheQueue' /\ Queued' = Queued
  <1>1. RingInv'
    BY SyncKeepsRing DEF RingInv, ring
  <1>2. CASE queue = <<>>
    <2>1. Queued' = {} /\ Queued = {}
      BY <1>2 DEF Queued
    <2> QED BY <1>1, <2>1 DEF TrackerSeesTheQueue
  <1>3. CASE queue # <<>>
    BY <1>1, <1>3, SyncKeepsRing
    DEF IInv, TrackerSeesTheQueue, Queued, Pending, ring, tracker
  <1> QED BY <1>2, <1>3

\* The same where nothing but the host's own place changes.
LEMMA QuietKeeps ==
    ASSUME IInv, UNCHANGED <<queue, tracker, ring>>
    PROVE  RingInv' /\ TrackerSeesTheQueue' /\ Queued' = Queued
  BY DEF IInv, RingInv, TrackerSeesTheQueue, Queued, Pending, ring, tracker

\* Enqueuing device work that is not an upload.
LEMMA EnqueueKeeps ==
    ASSUME IInv, NEW op \in DeviceOps, \A i \in 1 .. Slots : op # Copy(i),
           Enqueue(op), UNCHANGED ring
    PROVE  /\ RingInv' /\ TrackerSeesTheQueue'
           /\ queue' \in Seq(DeviceOps)
           /\ pendingRead' \subseteq Resources /\ pendingWrite' \subseteq Resources
           /\ drains' = drains
  <1>1. queue \in Seq(DeviceOps) /\ queue' = Append(queue, op)
    BY DEF IInv, TypeOK, Enqueue
  <1>2. /\ pendingRead' = pendingRead \cup ResourcesOf(Reads(op))
        /\ pendingWrite' = pendingWrite \cup ResourcesOf(Writes(op))
        /\ drains' = drains
    BY DEF Enqueue, Note
  <1>3. RingInv'
    BY <1>2 DEF IInv, RingInv, ring
  <1>4. Queued' = Queued \cup {op}
    BY <1>1, QueuedAppend DEF Queued
  <1>5. \A i \in 1 .. Slots : Pending(i)' = Pending(i)
    BY <1>2 DEF Pending, ring
  <1>6. TrackerSeesTheQueue'
    BY <1>2, <1>4, <1>5 DEF IInv, TrackerSeesTheQueue
  <1> QED BY <1>1, <1>2, <1>3, <1>6, ResourcesTyped DEF IInv, TypeOK

-----------------------------------------------------------------------------
(* Every step keeps it. *)

LEMMA AcquireInv == IInv /\ AcquireStaging => IInv'
  <1> SUFFICES ASSUME IInv, AcquireStaging PROVE IInv'
    OBVIOUS
  <1> DEFINE hazard == Pending(cursor) /\ HostWriteHazard(ResStage)
  <1>1. /\ hazard \in BOOLEAN /\ SyncIf(hazard) /\ queue' = queue
        /\ slot' = cursor /\ cursor' = NextSlot(cursor)
        /\ enqueuedAt' = [enqueuedAt EXCEPT ![cursor] = None]
        /\ cursor \in 1 .. Slots /\ trainer # "out"
    BY DEF AcquireStaging, device, IInv, TypeOK
  <1>2. enqueuedAt' \in [1 .. Slots -> Nat \cup {None}] /\ enqueuedAt'[cursor] = None
    BY <1>1 DEF IInv, TypeOK, None
  <1>3. cursor' \in 1 .. Slots
    BY <1>1, SlotsAssumption DEF NextSlot
  <1> HIDE DEF hazard
  <1>4. TypeOK'
    BY <1>1, <1>2, <1>3, SyncKeepsRing DEF AcquireStaging, IInv, TypeOK, device
  <1>5. RingInv'
    BY <1>1, <1>2, <1>4, SyncKeepsRing DEF RingInv, IInv, TypeOK, None
  <1>6. HeldInv'
    BY <1>1, <1>2 DEF HeldInv
  <1>7. TrackerSeesTheQueue'
    <2>1. CASE queue = <<>>
      BY <1>1, <2>1 DEF TrackerSeesTheQueue, Queued
    <2>2. CASE queue # <<>>
      <3>1. UNCHANGED tracker /\ ~hazard /\ Queued' = Queued
        BY <1>1, <2>2, SyncCases, SyncKeepsRing DEF Queued
      <3>2. ~Pending(cursor)
        BY <3>1, <1>1 DEF hazard, Pending, HostWriteHazard, IInv, RingInv, TypeOK, None
      <3>3. \A i \in 1 .. Slots : i # cursor => Pending(i)' = Pending(i)
        BY <1>1, <3>1 DEF Pending, tracker, IInv, TypeOK
      <3> QED BY <3>1, <3>2, <3>3, <1>1 DEF IInv, TrackerSeesTheQueue, tracker
    <2> QED BY <2>1, <2>2
  <1>8. LifeInv'
    BY <1>1 DEF AcquireStaging, IInv, LifeInv
  <1> QED BY <1>4, <1>5, <1>6, <1>7, <1>8 DEF IInv

LEMMA FillInv == IInv /\ Fill => IInv'
  <1> SUFFICES ASSUME IInv, Fill PROVE IInv'
    OBVIOUS
  <1>1. TypeOK' /\ HeldInv' /\ LifeInv'
    BY DEF Fill, IInv, TypeOK, HeldInv, LifeInv, tracker, ring, host
  <1>2. UNCHANGED <<queue, tracker, ring>>
    BY DEF Fill
  <1> QED BY <1>1, <1>2, QuietKeeps DEF IInv

LEMMA StagedInv == IInv /\ Staged => IInv'
  <1> SUFFICES ASSUME IInv, Staged PROVE IInv'
    OBVIOUS
  <1> DEFINE op == Copy(slot)
  <1>1. slot \in 1 .. Slots /\ op \in DeviceOps /\ queue \in Seq(DeviceOps)
    BY OpsDiffer DEF Staged, IInv, TypeOK
  <1>2. /\ pendingRead' = pendingRead \cup ResourcesOf(Reads(op))
        /\ pendingWrite' = pendingWrite \cup ResourcesOf(Writes(op))
        /\ drains' = drains
        /\ queue' = Append(queue, op)
        /\ enqueuedAt' = [enqueuedAt EXCEPT ![slot] = drains]
    BY DEF Staged, Note
  <1>3. ResStage \in pendingRead'
    BY <1>1, <1>2, Touches, OwnResource DEF ResourcesOf
  <1>4. enqueuedAt' \in [1 .. Slots -> Nat \cup {None}] /\ drains \in Nat
    BY <1>1, <1>2 DEF IInv, TypeOK, None
  <1>5. Queued' = Queued \cup {op}
    BY <1>1, <1>2, QueuedAppend DEF Queued
  <1> HIDE DEF op
  <1>6. TypeOK'
    <2>1. queue' \in Seq(DeviceOps)
      BY <1>1, <1>2
    <2>2. pendingRead' \subseteq Resources /\ pendingWrite' \subseteq Resources
      BY <1>1, <1>2, ResourcesTyped DEF IInv, TypeOK
    <2>3. ops' \in 0 .. MaxOps
      BY MaxOpsAssumption DEF Staged, IInv, TypeOK, Count
    <2>4. slot' = 0 /\ 0 \in 0 .. Slots
      BY SlotsAssumption DEF Staged
    <2> QED BY <1>2, <1>4, <2>1, <2>2, <2>3, <2>4 DEF Staged, IInv, TypeOK
  <1>7. RingInv'
    BY <1>1, <1>2, <1>3, <1>4 DEF IInv, RingInv, TypeOK, None
  <1>8. HeldInv'
    BY DEF Staged, HeldInv
  <1>9. TrackerSeesTheQueue'
    <2>1. \A i \in 1 .. Slots : Pending(i) \/ i = slot => Pending(i)'
      BY <1>1, <1>2, <1>4 DEF Pending, IInv, TypeOK
    <2>2. \A i \in 1 .. Slots : op = Copy(i) => i = slot
      BY <1>1, OpsDiffer DEF op
    <2> QED BY <1>2, <1>5, <2>1, <2>2 DEF IInv, TrackerSeesTheQueue
  <1>10. LifeInv'
    BY DEF Staged, IInv, TypeOK, LifeInv
  <1> QED BY <1>6, <1>7, <1>8, <1>9, <1>10 DEF IInv

\* The actions of a tree that write from the host: drain if flagged, write.
LEMMA HostWriteInv ==
    ASSUME IInv, NEW r \in Resources, SyncIf(HostWriteHazard(r)), Count,
           DOMAIN memory' = Cells, UNCHANGED <<queue, ring, host, state, refused>>
    PROVE  IInv'
  <1>1. HostWriteHazard(r) \in BOOLEAN
    BY DEF HostWriteHazard
  <1>2. RingInv' /\ TrackerSeesTheQueue'
    BY <1>1, HostKeeps
  <1>3. /\ drains' \in Nat
        /\ pendingRead' \subseteq Resources /\ pendingWrite' \subseteq Resources
    BY <1>1, SyncKeepsRing
  <1>4. ops' \in 0 .. MaxOps
    BY MaxOpsAssumption DEF IInv, TypeOK, Count
  <1>5. TypeOK'
    BY <1>3, <1>4 DEF IInv, TypeOK, ring, host
  <1>6. HeldInv' /\ LifeInv'
    BY DEF IInv, HeldInv, LifeInv, ring, host
  <1> QED BY <1>2, <1>5, <1>6 DEF IInv

LEMMA SetFeaturesInv == IInv /\ SetFeatures => IInv'
  <1> SUFFICES ASSUME IInv, SetFeatures PROVE IInv'
    OBVIOUS
  <1>1. Feat \in Resources
    BY OwnResource
  <1>2. DOMAIN memory' = Cells
    BY DEF SetFeatures, IInv, TypeOK
  <1> QED BY <1>1, <1>2, HostWriteInv DEF SetFeatures

LEMMA BagLeavesInv == IInv /\ BagLeaves => IInv'
  <1> SUFFICES ASSUME IInv, BagLeaves PROVE IInv'
    OBVIOUS
  <1>1. Leaf \in Resources
    BY OwnResource
  <1>2. DOMAIN memory' = Cells
    BY DEF BagLeaves, IInv, TypeOK
  <1> QED BY <1>1, <1>2, HostWriteInv DEF BagLeaves

\* The actions that only enqueue.
LEMMA EnqueueInv ==
    ASSUME IInv, NEW op \in {Memset, Partition}, InTree, Count, Enqueue(op),
           UNCHANGED <<memory, ring, host, state, refused>>
    PROVE  IInv'
  <1>1. op \in DeviceOps /\ \A i \in 1 .. Slots : op # Copy(i)
    BY OpsDiffer DEF DeviceOps
  <1>2. /\ RingInv' /\ TrackerSeesTheQueue'
        /\ queue' \in Seq(DeviceOps)
        /\ pendingRead' \subseteq Resources /\ pendingWrite' \subseteq Resources
        /\ drains' = drains
    BY <1>1, EnqueueKeeps
  <1>3. ops' \in 0 .. MaxOps
    BY MaxOpsAssumption DEF IInv, TypeOK, Count
  <1>4. TypeOK'
    BY <1>2, <1>3 DEF IInv, TypeOK, ring, host
  <1>5. HeldInv' /\ LifeInv'
    BY DEF IInv, HeldInv, LifeInv, ring, host, InTree
  <1> QED BY <1>2, <1>4, <1>5 DEF IInv

LEMMA BuildLeafInv == IInv /\ BuildLeaf => IInv'
  <1> SUFFICES ASSUME IInv, BuildLeaf PROVE IInv'
    OBVIOUS
  <1> DEFINE q == Append(queue, Histogram)
  <1>1. /\ Histogram \in DeviceOps /\ Download \in DeviceOps
        /\ \A i \in 1 .. Slots : Histogram # Copy(i) /\ Download # Copy(i)
        /\ queue \in Seq(DeviceOps)
    BY OpsDiffer DEF DeviceOps, IInv, TypeOK
  <1>2. q \in Seq(DeviceOps) /\ Append(q, Download) \in Seq(DeviceOps)
    BY <1>1
  <1>3. /\ queue' = Append(q, Download) /\ drains' = drains
        /\ pendingRead' = pendingRead \cup ResourcesOf(Reads(Histogram) \cup Reads(Download))
        /\ pendingWrite' = pendingWrite
                             \cup ResourcesOf(Writes(Histogram) \cup Writes(Download))
    BY DEF BuildLeaf, Note
  <1>4. Queued' = Queued \cup {Histogram, Download}
    <2>1. {q[i] : i \in DOMAIN q} = Queued \cup {Histogram}
      BY <1>1, QueuedAppend DEF Queued
    <2> HIDE DEF q
    <2>2. Queued' = {q[i] : i \in DOMAIN q} \cup {Download}
      BY <1>1, <1>2, <1>3, QueuedAppend DEF Queued
    <2> QED BY <2>1, <2>2
  <1> HIDE DEF q
  <1>5. /\ ResourcesOf(Reads(Histogram)) \cup ResourcesOf(Reads(Download))
              = ResourcesOf(Reads(Histogram) \cup Reads(Download))
        /\ ResourcesOf(Writes(Histogram)) \cup ResourcesOf(Writes(Download))
              = ResourcesOf(Writes(Histogram) \cup Writes(Download))
    BY DEF ResourcesOf
  <1>6. RingInv'
    BY <1>3 DEF BuildLeaf, IInv, RingInv, ring
  <1>7. \A i \in 1 .. Slots : Pending(i)' = Pending(i)
    BY <1>3 DEF BuildLeaf, Pending, ring
  <1>8. TrackerSeesTheQueue'
    BY <1>1, <1>3, <1>4, <1>5, <1>7 DEF IInv, TrackerSeesTheQueue
  <1>9. pendingRead' \subseteq Resources /\ pendingWrite' \subseteq Resources
    BY <1>1, <1>3, <1>5, ResourcesTyped DEF IInv, TypeOK
  <1>10. ops' \in 0 .. MaxOps
    BY MaxOpsAssumption DEF BuildLeaf, IInv, TypeOK, Count
  <1>11. TypeOK'
    BY <1>2, <1>3, <1>9, <1>10 DEF BuildLeaf, InTree, IInv, TypeOK, ring
  <1>12. HeldInv' /\ LifeInv'
    BY DEF BuildLeaf, InTree, IInv, HeldInv, LifeInv, ring
  <1> QED BY <1>6, <1>8, <1>11, <1>12 DEF IInv

LEMMA ReadHistogramInv == IInv /\ ReadHistogram => IInv'
  <1> SUFFICES ASSUME IInv, ReadHistogram PROVE IInv'
    OBVIOUS
  <1>1. HostReadHazard(HostOut) \in BOOLEAN /\ SyncIf(HostReadHazard(HostOut))
        /\ UNCHANGED <<queue, ring>>
    BY DEF HostReadHazard, ReadHistogram, device
  <1>2. RingInv' /\ TrackerSeesTheQueue'
    BY <1>1, HostKeeps
  <1>3. TypeOK'
    BY <1>1, SyncKeepsRing DEF ReadHistogram, IInv, TypeOK, device, ring
  <1>4. HeldInv' /\ LifeInv'
    BY DEF ReadHistogram, IInv, HeldInv, LifeInv, device, ring
  <1> QED BY <1>2, <1>3, <1>4 DEF IInv

\* The boundaries: the session is where its trainer is, so none is refused.
LEMMA BoundaryInv ==
    IInv /\ (BeginRound \/ BeginTree \/ EndTree \/ EndRound \/ Raise) => IInv'
  <1> SUFFICES ASSUME IInv, BeginRound \/ BeginTree \/ EndTree \/ EndRound \/ Raise
               PROVE  IInv'
    OBVIOUS
  <1> USE DEF CanTransition, Announce
  <1>1. UNCHANGED <<queue, tracker, ring>>
    BY DEF BeginRound, BeginTree, EndTree, EndRound, Raise, device, host
  <1>2. RingInv' /\ TrackerSeesTheQueue'
    BY <1>1, QuietKeeps
  <1>3. UNCHANGED <<memory, queue, tracker, ring, seen, ops>>
    BY DEF BeginRound, BeginTree, EndTree, EndRound, Raise, device
  <1>4. state \in States
    BY DEF IInv, TypeOK
  <1>5. CASE BeginRound
    <2>1. state \in {"open", "round", "tree"}
      BY <1>4, <1>5 DEF BeginRound, IInv, LifeInv, States
    <2>2. state' = "round" /\ trainer' = "round" /\ refused' = refused
          /\ slot' = slot /\ awaiting' = awaiting /\ trainer = "out"
      BY <1>5, <2>1 DEF BeginRound
    <2> QED BY <1>2, <1>3, <2>2
            DEF IInv, TypeOK, HeldInv, LifeInv, States, tracker, ring
  <1>6. CASE BeginTree
    <2>1. state = "round"
      BY <1>6 DEF BeginTree, IInv, LifeInv
    <2>2. state' = "tree" /\ trainer' = "tree" /\ refused' = refused
          /\ slot' = slot /\ awaiting' = awaiting /\ slot = 0
      BY <1>6, <2>1 DEF BeginTree
    <2> QED BY <1>2, <1>3, <2>2
            DEF IInv, TypeOK, HeldInv, LifeInv, States, tracker, ring
  <1>7. CASE EndTree
    <2>1. state = "tree"
      BY <1>7 DEF EndTree, InTree, IInv, LifeInv
    <2>2. state' = "round" /\ trainer' = "round" /\ refused' = refused
          /\ slot' = slot /\ awaiting' = awaiting /\ slot = 0 /\ awaiting = FALSE
      BY <1>7, <2>1 DEF EndTree, InTree, IInv, TypeOK
    <2> QED BY <1>2, <1>3, <2>2
            DEF IInv, TypeOK, HeldInv, LifeInv, States, tracker, ring
  <1>8. CASE EndRound
    <2>1. state = "round"
      BY <1>8 DEF EndRound, IInv, LifeInv
    <2>2. state' = "open" /\ trainer' = "out" /\ refused' = refused
          /\ slot' = slot /\ awaiting' = awaiting /\ slot = 0 /\ trainer = "round"
      BY <1>8, <2>1 DEF EndRound
    <2> QED BY <1>2, <1>3, <2>2
            DEF IInv, TypeOK, HeldInv, LifeInv, States, tracker, ring
  <1>9. CASE Raise
    <2>1. trainer' = "out" /\ slot' = 0 /\ awaiting' = FALSE
          /\ state' = state /\ refused' = refused /\ 0 \in 0 .. Slots
      BY <1>9, SlotsAssumption DEF Raise
    <2> QED BY <1>2, <1>3, <2>1
            DEF IInv, TypeOK, HeldInv, LifeInv, tracker, ring
  <1> QED BY <1>5, <1>6, <1>7, <1>8, <1>9

LEMMA SyncExplicitInv == IInv /\ SyncExplicit => IInv'
  <1> SUFFICES ASSUME IInv, SyncExplicit PROVE IInv'
    OBVIOUS
  <1>1. SyncIf(TRUE) /\ UNCHANGED <<queue, ring>>
    BY DEF SyncExplicit, SyncIf, device
  <1>2. RingInv' /\ TrackerSeesTheQueue'
    BY <1>1, HostKeeps
  <1>3. ops' \in 0 .. MaxOps
    BY MaxOpsAssumption DEF SyncExplicit, IInv, TypeOK, Count
  <1>4. TypeOK'
    BY <1>1, <1>3, SyncKeepsRing DEF SyncExplicit, IInv, TypeOK, device, ring, host
  <1>5. HeldInv' /\ LifeInv'
    BY DEF SyncExplicit, IInv, HeldInv, LifeInv, device, ring, host
  <1> QED BY <1>2, <1>4, <1>5 DEF IInv

LEMMA CloseInv == IInv /\ Close => IInv'
  <1> SUFFICES ASSUME IInv, Close PROVE IInv'
    OBVIOUS
  <1>1. AnyPending \in BOOLEAN /\ SyncIf(AnyPending) /\ UNCHANGED <<queue, ring>>
    BY DEF AnyPending, Close, SyncIf, device
  <1>2. RingInv' /\ TrackerSeesTheQueue'
    BY <1>1, HostKeeps
  <1>3. TypeOK'
    BY <1>1, SyncKeepsRing DEF Close, IInv, TypeOK, device, ring, host, States
  <1>4. HeldInv' /\ LifeInv'
    BY <1>1 DEF Close, IInv, HeldInv, LifeInv, ring, host
  <1> QED BY <1>2, <1>3, <1>4 DEF IInv

LEMMA RetireInv == IInv /\ Retire => IInv'
  <1> SUFFICES ASSUME IInv, Retire PROVE IInv'
    OBVIOUS
  <1>1. queue \in Seq(DeviceOps) /\ queue # <<>> /\ queue' = Tail(queue)
    BY DEF Retire, IInv, TypeOK
  <1>2. queue' \in Seq(DeviceOps) /\ Queued' \subseteq Queued
    BY <1>1, QueuedTail DEF Queued
  <1>3. DOMAIN memory' = Cells
    <2>1. DOMAIN Effect(Head(queue), memory) = Cells
      BY DEF Effect, IInv, TypeOK
    <2> QED BY <2>1 DEF Retire
  <1>4. TypeOK'
    BY <1>2, <1>3 DEF Retire, IInv, TypeOK, tracker, ring, host
  <1>5. RingInv' /\ HeldInv'
    BY DEF Retire, IInv, RingInv, HeldInv, tracker, ring, host
  <1>6. \A i \in 1 .. Slots : Pending(i)' = Pending(i)
    BY DEF Retire, Pending, tracker, ring
  <1>7. TrackerSeesTheQueue'
    BY <1>2, <1>6 DEF Retire, IInv, TrackerSeesTheQueue, tracker
  <1>8. LifeInv'
    BY <1>1 DEF Retire, IInv, LifeInv, host
  <1> QED BY <1>4, <1>5, <1>7, <1>8 DEF IInv

LEMMA StepInv == IInv /\ [Next]_vars => IInv'
  <1> SUFFICES ASSUME IInv, [Next]_vars PROVE IInv'
    OBVIOUS
  <1>1. CASE UNCHANGED vars
    BY <1>1 DEF IInv, TypeOK, RingInv, HeldInv, LifeInv, TrackerSeesTheQueue, Queued,
                Pending, vars, device, tracker, ring, host
  <1>2. CASE Finished
    BY <1>1, <1>2 DEF Finished
  <1>3. CASE ResetLeaves \/ ApplySplit
    BY <1>3, EnqueueInv DEF ResetLeaves, ApplySplit
  <1> QED BY <1>1, <1>2, <1>3, AcquireInv, FillInv, StagedInv, SetFeaturesInv, BagLeavesInv,
             BuildLeafInv, ReadHistogramInv, BoundaryInv, SyncExplicitInv, CloseInv,
             RetireInv
          DEF Next

-----------------------------------------------------------------------------
(* The theorems. *)

\* The inductive invariant holds of every behaviour of a session.
THEOREM Invariant == Spec => []IInv
  BY InitInv, StepInv, PTL DEF Spec

\* Every variable keeps its type.
THEOREM TypeCorrect == Spec => []TypeOK
  <1>1. IInv => TypeOK
    BY DEF IInv
  <1> QED BY <1>1, Invariant, PTL

\* The tracker's flags and the ring's marks cover all that is on the queue.
THEOREM TrackerCovers == Spec => []TrackerSeesTheQueue
  <1>1. IInv => TrackerSeesTheQueue
    BY DEF IInv
  <1> QED BY <1>1, Invariant, PTL

\* No trainer on a live session is refused a boundary.
THEOREM BoundariesAreOpen == Spec => []NeverRefused
  <1>1. IInv => NeverRefused
    BY DEF IInv, LifeInv, NeverRefused
  <1> QED BY <1>1, Invariant, PTL

\* A cell whose resource carries no flag is touched by nothing on the queue.
LEMMA Unflagged ==
    ASSUME IInv, NEW c, ResourceOf(c) \notin pendingRead \cup pendingWrite
    PROVE  \A op \in Queued : c \notin Reads(op) \cup Writes(op)
  BY DEF IInv, TrackerSeesTheQueue, ResourcesOf

\* The slot the host holds is read by no queued copy.
LEMMA HeldIsFree ==
    ASSUME IInv, slot # 0
    PROVE  \A op \in Queued : Stage(slot) \notin Reads(op) \cup Writes(op)
  <1>1. slot \in 1 .. Slots /\ ~Pending(slot)
    BY DEF IInv, TypeOK, HeldInv, Pending, None
  <1> SUFFICES ASSUME NEW op \in Queued
               PROVE  Stage(slot) \notin Reads(op) \cup Writes(op)
    OBVIOUS
  <1>2. op \in DeviceOps /\ op # Copy(slot)
    <2>1. op # Copy(slot)
      BY <1>1 DEF IInv, TrackerSeesTheQueue
    <2>2. queue \in Seq(DeviceOps)
      BY DEF IInv, TypeOK
    <2>3. \A i \in DOMAIN queue : queue[i] \in DeviceOps
      BY <2>2
    <2> QED BY <2>1, <2>3 DEF Queued
  <1>3. CASE \E i \in 1 .. Slots : op = Copy(i)
    <2>1. PICK i \in 1 .. Slots : op = Copy(i)
      BY <1>3
    <2>2. i # slot
      BY <2>1, <1>2
    <2>3. Stage(i) # Stage(slot) /\ Stage(slot) # Grad
      BY <1>1, <2>2 DEF Stage, Grad
    <2> QED BY <2>1, <2>3, Touches
  <1>4. CASE op \in {Memset, Partition, Histogram, Download}
    <2>1. Stage(slot) \notin {Leaf, Grad, Feat, Out, HostOut}
      BY <1>1 DEF Stage, Leaf, Grad, Feat, Out, HostOut
    <2> QED BY <1>4, <2>1, Touches
  <1> QED BY <1>2, <1>3, <1>4 DEF DeviceOps

\* A host write after SyncIf(HostWriteHazard) meets nothing on the queue.
LEMMA WriteIsSafe ==
    ASSUME IInv, NEW c, SyncIf(HostWriteHazard(ResourceOf(c)))
    PROVE  \A op \in Queued : c \notin Reads(op) \cup Writes(op)
  <1>1. CASE queue = <<>>
    BY <1>1 DEF Queued
  <1>2. CASE ResourceOf(c) \notin pendingRead \cup pendingWrite
    BY <1>2, Unflagged
  <1> QED BY <1>1, <1>2 DEF SyncIf, Sync, HostWriteHazard

Touch(c) == \E op \in Queued : c \in Reads(op) \cup Writes(op)

\* A step that leaves the queue alone changes no cell that is in use there.
LEMMA WritesAreSafe ==
    ASSUME IInv, [Next]_vars, queue' = queue, NEW c \in Cells, memory'[c] # memory[c]
    PROVE  ~Touch(c)
  <1> USE DEF Touch
  <1>1. DOMAIN memory = Cells
    BY DEF IInv, TypeOK
  <1>2. CASE Fill
    <2>1. c = Stage(slot)
      BY <1>1, <1>2 DEF Fill
    <2> QED BY <1>2, <2>1, HeldIsFree DEF Fill
  <1>3. CASE SetFeatures
    <2>1. c = Feat
      BY <1>1, <1>3 DEF SetFeatures
    <2> QED BY <1>3, <2>1, OwnResource, WriteIsSafe DEF SetFeatures
  <1>4. CASE BagLeaves
    <2>1. c = Leaf
      BY <1>1, <1>4 DEF BagLeaves
    <2> QED BY <1>4, <2>1, OwnResource, WriteIsSafe DEF BagLeaves
  <1>5. CASE Retire
    <2>1. queue' # queue
      BY <1>5, QueuedTail DEF Retire, IInv, TypeOK
    <2> QED BY <2>1
  <1>6. CASE memory' = memory
    BY <1>6
  <1> QED BY <1>2, <1>3, <1>4, <1>5, <1>6
          DEF Next, vars, device, AcquireStaging, Staged, ResetLeaves, ApplySplit,
              BuildLeaf, ReadHistogram, BeginRound, BeginTree, EndTree, EndRound, Raise,
              SyncExplicit, Close, Finished

\* When the host stops waiting and reads, nothing queued writes what it reads.
LEMMA ReadIsSafe ==
    ASSUME IInv, [Next]_vars, awaiting, ~awaiting', trainer' = trainer
    PROVE  \A op \in Queued : HostOut \notin Writes(op)
  <1>1. ReadHistogram
    BY DEF Next, vars, host, AcquireStaging, Fill, Staged, SetFeatures, BagLeaves,
           ResetLeaves, ApplySplit, BuildLeaf, BeginRound, BeginTree, EndTree, EndRound,
           Raise, SyncExplicit, Close, Retire, Finished, IInv, TypeOK, InTree
  <1>2. CASE queue = <<>>
    BY <1>2 DEF Queued
  <1>3. CASE HostOut \notin pendingWrite
    BY <1>3, OwnResource DEF IInv, TrackerSeesTheQueue, ResourcesOf
  <1> QED BY <1>1, <1>2, <1>3 DEF ReadHistogram, SyncIf, Sync, HostReadHazard

\* The host never writes what the queue reads or writes, nor reads what it writes.
THEOREM NoRace == Spec => HostNeverRaces
  <1> DEFINE A ==
        /\ queue' = queue => \A c \in Cells : memory'[c] # memory[c] =>
              \A op \in Queued : c \notin Reads(op) \cup Writes(op)
        /\ (awaiting /\ ~awaiting' /\ trainer' = trainer) =>
              \A op \in Queued : HostOut \notin Writes(op)
  <1>1. IInv /\ [Next]_vars => A
    BY WritesAreSafe, ReadIsSafe DEF Touch
  <1>2. IInv /\ [Next]_vars => [A]_vars
    BY <1>1
  <1> HIDE DEF A
  <1>3. Spec => [][A]_vars
    BY <1>2, Invariant, PTL DEF Spec
  <1> QED BY <1>3 DEF A, HostNeverRaces

-----------------------------------------------------------------------------
(* The memory as it will be. *)

\* A number of a set of numbers with none of the set below it.
LEMMA LeastOf ==
    ASSUME NEW S \in SUBSET Nat, S # {}
    PROVE  \E m \in S : \A n \in S : ~(n < m)
  <1> DEFINE R == {p \in Nat \X Nat : p[1] < p[2]}
  <1>1. IsWellFoundedOn(R, Nat)
    BY NatLessThanWellFounded DEF OpToRel
  <1> HIDE DEF R
  <1>2. PICK m \in S : \A n \in S : ~(<<n, m>> \in R)
    BY <1>1, WFMin
  <1> QED BY <1>2 DEF R

\* f[i] is the memory once the first i operations of q have run on m.
Running(q, m, n, f) ==
    f = [i \in 0 .. n |-> IF i = 0 THEN m ELSE Effect(q[i], f[i - 1])]

\* Flushed, of any queue and memory.
Flush(q, m) ==
    LET after[i \in 0 .. Len(q)] == IF i = 0 THEN m ELSE Effect(q[i], after[i - 1])
    IN after[Len(q)]

\* Every queue can be run, ...
LEMMA RunExists ==
    ASSUME NEW q, NEW m, NEW n \in Nat
    PROVE  \E f : Running(q, m, n, f)
  <1> DEFINE Bad == {k \in Nat : ~\E f : Running(q, m, k, f)}
  <1> SUFFICES ASSUME Bad # {} PROVE FALSE
    OBVIOUS
  <1>1. PICK k \in Bad : \A j \in Bad : ~(j < k)
    <2>1. Bad \in SUBSET Nat
      OBVIOUS
    <2> HIDE DEF Bad
    <2> QED BY <2>1, LeastOf
  <1>2. k \in Nat /\ ~\E f : Running(q, m, k, f)
    BY <1>1
  <1>3. CASE k = 0
    <2> DEFINE f == [i \in 0 .. 0 |-> m]
    <2>1. f = [i \in 0 .. 0 |-> IF i = 0 THEN m ELSE Effect(q[i], f[i - 1])]
      OBVIOUS
    <2> QED BY <1>2, <1>3, <2>1 DEF Running
  <1>4. CASE k # 0
    <2>1. k - 1 \in Nat /\ k - 1 < k /\ k - 1 \notin Bad
      BY <1>1, <1>2, <1>4
    <2>2. PICK f : Running(q, m, k - 1, f)
      BY <2>1
    <2> DEFINE g == [i \in 0 .. k |-> IF i = k THEN Effect(q[k], f[k - 1]) ELSE f[i]]
    <2>3. \A i \in 0 .. k - 1 : f[i] = IF i = 0 THEN m ELSE Effect(q[i], f[i - 1])
      BY <2>2 DEF Running
    <2>4. ASSUME NEW i \in 0 .. k
          PROVE  g[i] = IF i = 0 THEN m ELSE Effect(q[i], g[i - 1])
      <3>1. CASE i = k
        <4>1. g[i] = Effect(q[i], f[i - 1])  BY <3>1
        <4>2. g[i - 1] = f[i - 1]  BY <1>2, <1>4, <3>1
        <4> QED BY <1>4, <3>1, <4>1, <4>2
      <3>2. CASE i # k
        <4>1. i \in 0 .. k - 1 /\ g[i] = f[i]  BY <1>2, <3>2
        <4>2. i # 0 => g[i - 1] = f[i - 1]  BY <1>2, <4>1
        <4> QED BY <2>3, <4>1, <4>2
      <3> QED BY <3>1, <3>2
    <2>5. g = [i \in 0 .. k |-> g[i]]
      OBVIOUS
    <2> HIDE DEF g
    <2>6. Running(q, m, k, g)
      BY <2>4, <2>5 DEF Running
    <2> QED BY <1>2, <2>6
  <1> QED BY <1>3, <1>4

\* ... and in one way.
LEMMA RunUnique ==
    ASSUME NEW q, NEW m, NEW n \in Nat, NEW f, NEW g,
           Running(q, m, n, f), Running(q, m, n, g)
    PROVE  f[n] = g[n]
  <1>1. \A i \in 0 .. n : /\ f[i] = IF i = 0 THEN m ELSE Effect(q[i], f[i - 1])
                          /\ g[i] = IF i = 0 THEN m ELSE Effect(q[i], g[i - 1])
    BY DEF Running
  <1> DEFINE Bad == {i \in 0 .. n : f[i] # g[i]}
  <1> SUFFICES ASSUME Bad # {} PROVE FALSE
    OBVIOUS
  <1>2. Bad \in SUBSET Nat
    OBVIOUS
  <1>3. PICK k \in Bad : \A j \in Bad : ~(j < k)
    <2> HIDE DEF Bad
    <2> QED BY <1>2, LeastOf
  <1>4. k \in 0 .. n /\ k # 0
    BY <1>1, <1>3
  <1>5. k - 1 \in 0 .. n /\ k - 1 < k
    BY <1>4
  <1>6. f[k - 1] = g[k - 1]
    BY <1>3, <1>5
  <1> QED BY <1>1, <1>3, <1>4, <1>6

\* Flush is the end of any run of the queue.
LEMMA FlushIs ==
    ASSUME NEW q \in Seq(DeviceOps), NEW m, NEW f, Running(q, m, Len(q), f)
    PROVE  Flush(q, m) = f[Len(q)]
  <1>1. Len(q) \in Nat
    OBVIOUS
  <1> DEFINE after == CHOOSE g : g = [i \in 0 .. Len(q) |->
                                       IF i = 0 THEN m ELSE Effect(q[i], g[i - 1])]
  <1>2. Running(q, m, Len(q), after)
    BY DEF Running
  <1>3. Flush(q, m) = after[Len(q)]
    BY DEF Flush
  <1> HIDE DEF after
  <1> QED BY <1>1, <1>2, <1>3, RunUnique

\* Nothing queued: the memory is what it will be.
LEMMA FlushEmpty ==
    ASSUME NEW m
    PROVE  Flush(<<>>, m) = m
  <1> DEFINE f == [i \in 0 .. 0 |-> m]
  <1>1. Running(<<>>, m, Len(<<>>), f)
    BY DEF Running
  <1>2. <<>> \in Seq(DeviceOps) /\ Len(<<>>) = 0 /\ f[0] = m
    OBVIOUS
  <1> HIDE DEF f
  <1> QED BY <1>1, <1>2, FlushIs

\* Enqueuing an operation is running it on the memory to come.
LEMMA FlushAppend ==
    ASSUME NEW q \in Seq(DeviceOps), NEW op \in DeviceOps, NEW m
    PROVE  Flush(Append(q, op), m) = Effect(op, Flush(q, m))
  <1> DEFINE r == Append(q, op)
  <1>1. /\ r \in Seq(DeviceOps) /\ Len(r) = Len(q) + 1 /\ Len(q) \in Nat
        /\ r[Len(q) + 1] = op /\ \A i \in 1 .. Len(q) : r[i] = q[i]
    OBVIOUS
  <1> HIDE DEF r
  <1>2. PICK f : Running(r, m, Len(r), f)
    <2>1. Len(r) \in Nat  BY <1>1
    <2> QED BY <2>1, RunExists
  <1>3. \A i \in 0 .. Len(r) : f[i] = IF i = 0 THEN m ELSE Effect(r[i], f[i - 1])
    BY <1>2 DEF Running
  <1> DEFINE g == [i \in 0 .. Len(q) |-> f[i]]
  <1>4. Running(q, m, Len(q), g)
    <2>1. ASSUME NEW i \in 0 .. Len(q)
          PROVE  g[i] = IF i = 0 THEN m ELSE Effect(q[i], g[i - 1])
      <3>1. i \in 0 .. Len(r) /\ g[i] = f[i]
        BY <1>1
      <3>2. i # 0 => g[i - 1] = f[i - 1] /\ r[i] = q[i]
        BY <1>1
      <3> QED BY <1>3, <3>1, <3>2
    <2>2. g = [i \in 0 .. Len(q) |-> g[i]]
      OBVIOUS
    <2> HIDE DEF g
    <2> QED BY <2>1, <2>2 DEF Running
  <1>5. g[Len(q)] = f[Len(q)]
    BY <1>1
  <1>6. f[Len(r)] = Effect(op, f[Len(q)])
    <2>1. Len(r) \in 0 .. Len(r) /\ Len(r) # 0 /\ Len(r) - 1 = Len(q) /\ r[Len(r)] = op
      BY <1>1
    <2> QED BY <1>3, <2>1
  <1>7. Flush(q, m) = f[Len(q)]
    <2> HIDE DEF g
    <2> QED BY <1>4, <1>5, FlushIs
  <1>8. Flush(r, m) = f[Len(r)]
    BY <1>1, <1>2, FlushIs
  <1> QED BY <1>6, <1>7, <1>8 DEF r

\* Retiring the first operation leaves the memory to come as it was.
LEMMA FlushTail ==
    ASSUME NEW q \in Seq(DeviceOps), q # <<>>, NEW m
    PROVE  Flush(Tail(q), Effect(Head(q), m)) = Flush(q, m)
  <1> DEFINE r == Tail(q)
             o == Head(q)
  <1>1. /\ r \in Seq(DeviceOps) /\ Len(q) = Len(r) + 1 /\ Len(r) \in Nat
        /\ q[1] = o /\ \A i \in 1 .. Len(r) : r[i] = q[i + 1]
    OBVIOUS
  <1> HIDE DEF r, o
  <1>2. PICK f : Running(q, m, Len(q), f)
    <2>1. Len(q) \in Nat  BY <1>1
    <2> QED BY <2>1, RunExists
  <1>3. \A i \in 0 .. Len(q) : f[i] = IF i = 0 THEN m ELSE Effect(q[i], f[i - 1])
    BY <1>2 DEF Running
  <1> DEFINE g == [i \in 0 .. Len(r) |-> f[i + 1]]
             n == Effect(o, m)
  <1>4. Running(r, n, Len(r), g)
    <2>1. ASSUME NEW i \in 0 .. Len(r)
          PROVE  g[i] = IF i = 0 THEN n ELSE Effect(r[i], g[i - 1])
      <3>1. i + 1 \in 0 .. Len(q) /\ i + 1 # 0 /\ (i + 1) - 1 = i
        BY <1>1
      <3>2. g[i] = Effect(q[i + 1], f[i])
        BY <1>3, <3>1
      <3>3. CASE i = 0
        <4>1. f[0] = m  BY <1>1, <1>3
        <4> QED BY <1>1, <3>2, <3>3, <4>1
      <3>4. CASE i # 0
        <4>1. i - 1 \in 0 .. Len(r) /\ (i - 1) + 1 = i /\ i \in 1 .. Len(r)
          BY <1>1, <3>4
        <4>2. g[i - 1] = f[i] /\ r[i] = q[i + 1]
          BY <1>1, <4>1
        <4> QED BY <3>2, <3>4, <4>2
      <3> QED BY <3>3, <3>4
    <2>2. g = [i \in 0 .. Len(r) |-> g[i]]
      OBVIOUS
    <2> HIDE DEF g, n
    <2> QED BY <2>1, <2>2 DEF Running
  <1>5. g[Len(r)] = f[Len(q)]
    BY <1>1
  <1> HIDE DEF g, n
  <1>6. Flush(r, n) = g[Len(r)] /\ Flush(q, m) = f[Len(q)]
    BY <1>1, <1>2, <1>4, FlushIs
  <1> QED BY <1>5, <1>6 DEF r, n, o

\* What no queued operation writes stays as it is.
LEMMA FlushUnwritten ==
    ASSUME NEW q \in Seq(DeviceOps), NEW m, NEW c,
           \A i \in DOMAIN q : c \notin Writes(q[i])
    PROVE  Flush(q, m)[c] = m[c]
  <1>1. Len(q) \in Nat /\ DOMAIN q = 1 .. Len(q) /\ \A i \in 1 .. Len(q) : q[i] \in DeviceOps
    OBVIOUS
  <1>2. PICK f : Running(q, m, Len(q), f)
    BY <1>1, RunExists
  <1>3. \A i \in 0 .. Len(q) : f[i] = IF i = 0 THEN m ELSE Effect(q[i], f[i - 1])
    BY <1>2 DEF Running
  <1>4. ASSUME NEW op \in DeviceOps, NEW x, c \notin Writes(op)
        PROVE  Effect(op, x)[c] = x[c]
    BY <1>4 DEF Effect, Writes
  <1> DEFINE Bad == {i \in 0 .. Len(q) : f[i][c] # m[c]}
  <1>5. Bad = {}
    <2> SUFFICES ASSUME Bad # {} PROVE FALSE
      OBVIOUS
    <2>1. Bad \in SUBSET Nat
      OBVIOUS
    <2>2. PICK k \in Bad : \A j \in Bad : ~(j < k)
      <3> HIDE DEF Bad
      <3> QED BY <2>1, LeastOf
    <2>3. k \in 1 .. Len(q) /\ k - 1 \in 0 .. Len(q) /\ k - 1 < k
      BY <1>3, <2>2
    <2>4. f[k - 1][c] = m[c]
      BY <2>2, <2>3
    <2>5. f[k][c] = f[k - 1][c]
      BY <1>1, <1>3, <1>4, <2>3
    <2> QED BY <2>2, <2>4, <2>5
  <1>6. f[Len(q)][c] = m[c]
    BY <1>1, <1>5
  <1> QED BY <1>2, <1>6, FlushIs

\* What each operation does, kernel by kernel.
LEMMA EffectOf ==
    ASSUME NEW x
    PROVE  /\ \A i \in 1 .. Slots : Effect(Copy(i), x) = [x EXCEPT ![Grad] = x[Stage(i)]]
           /\ Effect(Memset, x) = [x EXCEPT ![Leaf] = Rows(AllRows, 0)]
           /\ Effect(Partition, x) =
                [x EXCEPT ![Leaf] = Rows(x[Leaf].bag, x[Leaf].splits + 1)]
           /\ Effect(Histogram, x) =
                [x EXCEPT ![Out] = [leaf |-> x[Leaf], grad |-> x[Grad], feat |-> x[Feat]]]
           /\ Effect(Download, x) = [x EXCEPT ![HostOut] = x[Out]]
  <1>1. /\ \A i \in 1 .. Slots : Copy(i)[1] = "copy" /\ Copy(i)[2] = i
        /\ Memset[1] # "copy" /\ Partition[1] # "copy" /\ Histogram[1] # "copy"
        /\ Download[1] # "copy" /\ Partition # Memset
        /\ Histogram # Memset /\ Histogram # Partition
        /\ Download # Memset /\ Download # Partition /\ Download # Histogram
    BY DEF Copy, Memset, Partition, Histogram, Download
  <1>2. \A i \in 1 .. Slots : Effect(Copy(i), x) = [x EXCEPT ![Grad] = x[Stage(i)]]
    BY <1>1 DEF Effect
  <1>3. Effect(Memset, x) = [x EXCEPT ![Leaf] = Rows(AllRows, 0)]
    BY <1>1 DEF Effect
  <1>4. Effect(Partition, x) = [x EXCEPT ![Leaf] = Rows(x[Leaf].bag, x[Leaf].splits + 1)]
    BY <1>1 DEF Effect
  <1>5. Effect(Histogram, x) =
          [x EXCEPT ![Out] = [leaf |-> x[Leaf], grad |-> x[Grad], feat |-> x[Feat]]]
    BY <1>1 DEF Effect
  <1>6. Effect(Download, x) = [x EXCEPT ![HostOut] = x[Out]]
    BY <1>1 DEF Effect
  <1> QED BY <1>2, <1>3, <1>4, <1>5, <1>6

\* It leaves a memory.
LEMMA EffectTyped ==
    ASSUME NEW op \in DeviceOps, NEW x, DOMAIN x = Cells
    PROVE  DOMAIN Effect(op, x) = Cells
  <1>1. \/ \E i \in 1 .. Slots : op = Copy(i)
        \/ op \in {Memset, Partition, Histogram, Download}
    BY DEF DeviceOps
  <1>2. /\ \A i \in 1 .. Slots : DOMAIN Effect(Copy(i), x) = Cells
        /\ DOMAIN Effect(Memset, x) = Cells /\ DOMAIN Effect(Partition, x) = Cells
        /\ DOMAIN Effect(Histogram, x) = Cells /\ DOMAIN Effect(Download, x) = Cells
    BY DEF Effect
  <1> QED BY <1>1, <1>2

\* Writes to two cells commute.
LEMMA WritesCommute ==
    ASSUME NEW x, NEW c, NEW d, c # d, NEW v, NEW w
    PROVE  [[x EXCEPT ![c] = v] EXCEPT ![d] = w] = [[x EXCEPT ![d] = w] EXCEPT ![c] = v]
  OBVIOUS

\* A host write.
Put(x, c, v) == [x EXCEPT ![c] = v]

\* An operation that does not touch a cell gives the same whatever is in it.
LEMMA EffectElsewhere ==
    ASSUME NEW op \in DeviceOps, NEW x, DOMAIN x = Cells, NEW c \in Cells, NEW v,
           c \notin Reads(op) \cup Writes(op)
    PROVE  Effect(op, Put(x, c, v)) = Put(Effect(op, x), c, v)
  <1> DEFINE y == [x EXCEPT ![c] = v]
  <1> SUFFICES Effect(op, y) = [Effect(op, x) EXCEPT ![c] = v]
    BY DEF Put
  <1>1. \A d \in Cells : d # c => y[d] = x[d]
    OBVIOUS
  <1>2. {Leaf, Feat, Grad, Out, HostOut} \subseteq Cells
    BY DEF Cells
  <1>3. ASSUME NEW d, NEW w, c # d, Effect(op, y) = [y EXCEPT ![d] = w],
               Effect(op, x) = [x EXCEPT ![d] = w]
        PROVE  Effect(op, y) = [Effect(op, x) EXCEPT ![c] = v]
    BY <1>3, WritesCommute
  <1> HIDE DEF y
  <1>4. CASE \E i \in 1 .. Slots : op = Copy(i)
    <2>1. PICK i \in 1 .. Slots : op = Copy(i)
      BY <1>4
    <2>2. Stage(i) \in Cells /\ c # Stage(i) /\ c # Grad
      BY <2>1, Touches DEF Cells, StageCells
    <2>3. y[Stage(i)] = x[Stage(i)]
      BY <1>1, <2>2
    <2>4. Effect(Copy(i), x) = [x EXCEPT ![Grad] = x[Stage(i)]]
      BY EffectOf
    <2>5. Effect(Copy(i), y) = [y EXCEPT ![Grad] = y[Stage(i)]]
      BY EffectOf
    <2> QED BY <1>3, <2>1, <2>2, <2>3, <2>4, <2>5 DEF y
  <1>5. CASE op = Memset
    <2>1. c # Leaf
      BY <1>5, Touches
    <2>2. Effect(Memset, x) = [x EXCEPT ![Leaf] = Rows(AllRows, 0)]
      BY EffectOf
    <2>3. Effect(Memset, y) = [y EXCEPT ![Leaf] = Rows(AllRows, 0)]
      BY EffectOf
    <2> QED BY <1>3, <1>5, <2>1, <2>2, <2>3 DEF y
  <1>6. CASE op = Partition
    <2>1. c # Leaf
      BY <1>6, Touches
    <2>2. y[Leaf] = x[Leaf]
      BY <1>1, <1>2, <2>1
    <2>3. Effect(Partition, x) = [x EXCEPT ![Leaf] = Rows(x[Leaf].bag, x[Leaf].splits + 1)]
      BY EffectOf
    <2>4. Effect(Partition, y) = [y EXCEPT ![Leaf] = Rows(y[Leaf].bag, y[Leaf].splits + 1)]
      BY EffectOf
    <2> QED BY <1>3, <1>6, <2>1, <2>2, <2>3, <2>4 DEF y
  <1>7. CASE op = Histogram
    <2>1. c \notin {Leaf, Grad, Feat, Out}
      BY <1>7, Touches
    <2>2. y[Leaf] = x[Leaf] /\ y[Grad] = x[Grad] /\ y[Feat] = x[Feat]
      BY <1>1, <1>2, <2>1
    <2>3. Effect(Histogram, x)
            = [x EXCEPT ![Out] = [leaf |-> x[Leaf], grad |-> x[Grad], feat |-> x[Feat]]]
      BY EffectOf
    <2>4. Effect(Histogram, y)
            = [y EXCEPT ![Out] = [leaf |-> y[Leaf], grad |-> y[Grad], feat |-> y[Feat]]]
      BY EffectOf
    <2> QED BY <1>3, <1>7, <2>1, <2>2, <2>3, <2>4 DEF y
  <1>8. CASE op = Download
    <2>1. c \notin {Out, HostOut}
      BY <1>8, Touches
    <2>2. y[Out] = x[Out]
      BY <1>1, <1>2, <2>1
    <2>3. Effect(Download, x) = [x EXCEPT ![HostOut] = x[Out]]
      BY EffectOf
    <2>4. Effect(Download, y) = [y EXCEPT ![HostOut] = y[Out]]
      BY EffectOf
    <2> QED BY <1>3, <1>8, <2>1, <2>2, <2>3, <2>4 DEF y
  <1> QED BY <1>4, <1>5, <1>6, <1>7, <1>8 DEF DeviceOps

\* A host write to a cell no queued operation touches is a write to the memory
\* to come.
LEMMA FlushWrite ==
    ASSUME NEW q \in Seq(DeviceOps), NEW m, DOMAIN m = Cells, NEW c \in Cells, NEW v,
           \A i \in DOMAIN q : c \notin Reads(q[i]) \cup Writes(q[i])
    PROVE  Flush(q, Put(m, c, v)) = Put(Flush(q, m), c, v)
  <1>1. Len(q) \in Nat /\ DOMAIN q = 1 .. Len(q) /\ \A i \in 1 .. Len(q) : q[i] \in DeviceOps
    OBVIOUS
  <1>2. PICK f : Running(q, m, Len(q), f)
    BY <1>1, RunExists
  <1>3. \A i \in 0 .. Len(q) : f[i] = IF i = 0 THEN m ELSE Effect(q[i], f[i - 1])
    BY <1>2 DEF Running
  <1>4. \A i \in 0 .. Len(q) : DOMAIN f[i] = Cells
    <2> DEFINE Bad == {i \in 0 .. Len(q) : DOMAIN f[i] # Cells}
    <2> SUFFICES ASSUME Bad # {} PROVE FALSE
      OBVIOUS
    <2>1. Bad \in SUBSET Nat
      OBVIOUS
    <2>2. PICK k \in Bad : \A j \in Bad : ~(j < k)
      <3> HIDE DEF Bad
      <3> QED BY <2>1, LeastOf
    <2>3. k \in 1 .. Len(q) /\ k - 1 \in 0 .. Len(q) /\ k - 1 < k
      BY <1>3, <2>2
    <2>4. DOMAIN f[k - 1] = Cells
      BY <2>2, <2>3
    <2>5. f[k] = Effect(q[k], f[k - 1])
      BY <1>3, <2>3
    <2>6. DOMAIN f[k] = Cells
      BY <1>1, <2>3, <2>4, <2>5, EffectTyped
    <2> QED BY <2>2, <2>6
  <1> DEFINE g == [i \in 0 .. Len(q) |-> Put(f[i], c, v)]
             n == Put(m, c, v)
  <1>5. Running(q, n, Len(q), g)
    <2>1. ASSUME NEW i \in 0 .. Len(q)
          PROVE  g[i] = IF i = 0 THEN n ELSE Effect(q[i], g[i - 1])
      <3>1. CASE i = 0
        BY <1>3, <3>1
      <3>2. CASE i # 0
        <4>1. i \in 1 .. Len(q) /\ i - 1 \in 0 .. Len(q)
          BY <3>2
        <4>2. Effect(q[i], Put(f[i - 1], c, v)) = Put(Effect(q[i], f[i - 1]), c, v)
          <5>1. /\ q[i] \in DeviceOps /\ DOMAIN f[i - 1] = Cells
                /\ c \notin Reads(q[i]) \cup Writes(q[i])
            BY <1>1, <1>4, <4>1
          <5> QED BY <5>1, EffectElsewhere
        <4>3. f[i] = Effect(q[i], f[i - 1])
          BY <1>3, <4>1
        <4>4. g[i] = Put(f[i], c, v) /\ g[i - 1] = Put(f[i - 1], c, v)
          BY <4>1
        <4> QED BY <3>2, <4>2, <4>3, <4>4
      <3> QED BY <3>1, <3>2
    <2>2. g = [i \in 0 .. Len(q) |-> g[i]]
      OBVIOUS
    <2> HIDE DEF g, n
    <2> QED BY <2>1, <2>2 DEF Running
  <1>6. g[Len(q)] = Put(f[Len(q)], c, v)
    BY <1>1
  <1> HIDE DEF g, n
  <1>7. Flush(q, n) = g[Len(q)] /\ Flush(q, m) = f[Len(q)]
    BY <1>2, <1>5, FlushIs
  <1> QED BY <1>6, <1>7 DEF n

-----------------------------------------------------------------------------
(* The session is a device without a queue. *)

\* The two modules speak of the same device.
LEMMA SameDevice ==
    /\ Device!Cells = Cells /\ Device!InitialMemory = InitialMemory
    /\ Device!HostOut = HostOut /\ Device!Feat = Feat /\ Device!Leaf = Leaf
    /\ Device!StageCells = StageCells
    /\ Device!DeviceOps = DeviceOps
    /\ Device!Histogram = Histogram /\ Device!Download = Download
    /\ \A b, n : Device!Rows(b, n) = Rows(b, n)
    /\ \A op, m : Device!Effect(op, m) = Effect(op, m)
  <1> USE DEF Device!StageCells, StageCells, Device!Stage, Stage, Device!Leaf, Leaf,
              Device!Feat, Feat, Device!Grad, Grad, Device!Out, Out, Device!HostOut, HostOut,
              Device!Cells, Cells, Device!Rows, Rows, Device!AllRows, AllRows,
              Device!Unset, Unset
  <1>1. Device!Cells = Cells /\ Device!StageCells = StageCells
    OBVIOUS
  <1>2. Device!InitialMemory = InitialMemory
    BY DEF Device!InitialMemory, InitialMemory
  <1> USE DEF Device!Copy, Copy, Device!Memset, Memset, Device!Partition, Partition,
              Device!Histogram, Histogram, Device!Download, Download
  <1>3. Device!DeviceOps = DeviceOps
    BY DEF Device!DeviceOps, DeviceOps
  <1>4. \A op, m : Device!Effect(op, m) = Effect(op, m)
    BY DEF Device!Effect, Effect
  <1> QED BY <1>1, <1>2, <1>3, <1>4

\* The mapping, before and after a step.
LEMMA Mapping ==
    /\ Flushed = Flush(queue, memory)
    /\ Flushed' = Flush(queue', memory')
  BY DEF Flushed, Flush

LEMMA InitMaps == Init => Device!Init
  BY FlushEmpty, Mapping, SameDevice DEF Init, Device!Init

\* Enqueuing an operation maps to running it.
LEMMA EnqueueMaps ==
    ASSUME IInv, NEW op \in DeviceOps \ {Histogram, Download},
           queue' = Append(queue, op), UNCHANGED <<memory, seen>>
    PROVE  Device!Next
  <1>1. Flushed' = Effect(op, Flushed)
    BY FlushAppend, Mapping DEF IInv, TypeOK
  <1> QED BY <1>1, SameDevice DEF Device!Next, Device!Runs

\* A host write after a wait, or to a slot the host holds, maps to itself.
LEMMA WriteMaps ==
    ASSUME IInv, NEW c \in StageCells \cup {Feat, Leaf}, NEW v \in Values,
           \A op \in Queued : c \notin Reads(op) \cup Writes(op),
           memory' = [memory EXCEPT ![c] = IF c = Leaf THEN Rows(v, 0) ELSE v],
           UNCHANGED <<queue, seen>>
    PROVE  Device!Next
  <1>1. c \in Cells /\ DOMAIN memory = Cells /\ queue \in Seq(DeviceOps)
    BY DEF Cells, IInv, TypeOK
  <1>2. \A i \in DOMAIN queue : c \notin Reads(queue[i]) \cup Writes(queue[i])
    BY DEF Queued
  <1> DEFINE w == IF c = Leaf THEN Rows(v, 0) ELSE v
  <1>3. memory' = [memory EXCEPT ![c] = w] /\ queue' = queue
    OBVIOUS
  <1>4. w = IF c = Leaf THEN Rows(v, 0) ELSE v
    OBVIOUS
  <1> HIDE DEF w
  <1>5. Flush(queue, Put(memory, c, w)) = Put(Flush(queue, memory), c, w)
    BY <1>1, <1>2, FlushWrite
  <1>6. Flushed' = [Flushed EXCEPT ![c] = w]
    BY <1>3, <1>5, Mapping DEF Put
  <1>7. Device!HostWrites
    BY <1>4, <1>6, SameDevice DEF Device!HostWrites
  <1> QED BY <1>7 DEF Device!Next

\* A step that leaves the memory, the queue and the read histogram is a stutter.
LEMMA QuietMaps ==
    ASSUME UNCHANGED <<memory, queue, seen>>
    PROVE  UNCHANGED Device!sync
  BY Mapping DEF Device!sync

\* Every step of the session is a step or a stutter of the device.
LEMMA StepMaps == IInv /\ [Next]_vars => [Device!Next]_Device!sync
  <1> SUFFICES ASSUME IInv, [Next]_vars PROVE [Device!Next]_Device!sync
    OBVIOUS
  <1>1. CASE Fill
    <2>1. PICK v \in Values : memory' = [memory EXCEPT ![Stage(slot)] = v]
      BY <1>1 DEF Fill
    <2>2. slot # 0 /\ UNCHANGED <<queue, seen>>
      BY <1>1 DEF Fill, host
    <2>3. Stage(slot) \in StageCells /\ Stage(slot) # Leaf
      BY <2>2 DEF IInv, TypeOK, StageCells, Stage, Leaf
    <2> QED BY <2>1, <2>2, <2>3, HeldIsFree, WriteMaps
  <1>2. CASE SetFeatures
    <2>1. PICK v \in Values : memory' = [memory EXCEPT ![Feat] = v]
      BY <1>2 DEF SetFeatures
    <2>2. SyncIf(HostWriteHazard(ResourceOf(Feat))) /\ UNCHANGED <<queue, seen>> /\ Feat # Leaf
      BY <1>2, OwnResource DEF SetFeatures, host, Feat, Leaf
    <2> QED BY <2>1, <2>2, WriteIsSafe, WriteMaps
  <1>3. CASE BagLeaves
    <2>1. PICK v \in Values : memory' = [memory EXCEPT ![Leaf] = Rows(v, 0)]
      BY <1>3 DEF BagLeaves
    <2>2. SyncIf(HostWriteHazard(ResourceOf(Leaf))) /\ UNCHANGED <<queue, seen>>
      BY <1>3, OwnResource DEF BagLeaves, host
    <2> QED BY <2>1, <2>2, WriteIsSafe, WriteMaps
  <1>4. CASE Staged
    <2>1. slot \in 1 .. Slots
      BY <1>4 DEF Staged, IInv, TypeOK
    <2>2. Copy(slot) \in DeviceOps \ {Histogram, Download}
      BY <2>1, OpsDiffer
    <2> QED BY <1>4, <2>2, EnqueueMaps DEF Staged
  <1>5. CASE ResetLeaves \/ ApplySplit
    <2>1. {Memset, Partition} \subseteq DeviceOps \ {Histogram, Download}
      BY DEF DeviceOps, Memset, Partition, Histogram, Download
    <2> QED BY <1>5, <2>1, EnqueueMaps DEF ResetLeaves, ApplySplit, Enqueue, host
  <1>6. CASE BuildLeaf
    <2>1. /\ queue \in Seq(DeviceOps) /\ Histogram \in DeviceOps /\ Download \in DeviceOps
          /\ queue' = Append(Append(queue, Histogram), Download) /\ UNCHANGED <<memory, seen>>
      BY <1>6 DEF BuildLeaf, IInv, TypeOK, DeviceOps
    <2> DEFINE q == Append(queue, Histogram)
    <2>2. q \in Seq(DeviceOps)
      BY <2>1
    <2>3. Flush(q, memory) = Effect(Histogram, Flush(queue, memory))
      BY <2>1, FlushAppend
    <2>4. queue' = Append(q, Download)
      BY <2>1
    <2> HIDE DEF q
    <2>5. Flushed' = Effect(Download, Effect(Histogram, Flushed))
      BY <2>1, <2>2, <2>3, <2>4, FlushAppend, Mapping
    <2> QED BY <2>1, <2>5, SameDevice DEF Device!Next, Device!Builds
  <1>7. CASE ReadHistogram
    <2>1. \A op \in Queued : HostOut \notin Writes(op)
      <3>1. CASE queue = <<>>
        BY <3>1 DEF Queued
      <3>2. CASE HostOut \notin pendingWrite
        BY <3>2, OwnResource DEF IInv, TrackerSeesTheQueue, ResourcesOf
      <3> QED BY <1>7, <3>1, <3>2 DEF ReadHistogram, SyncIf, Sync, HostReadHazard
    <2>2. queue \in Seq(DeviceOps) /\ \A i \in DOMAIN queue : HostOut \notin Writes(queue[i])
      BY <2>1 DEF IInv, TypeOK, Queued
    <2>3. Flushed[HostOut] = memory[HostOut]
      BY <2>2, FlushUnwritten, Mapping
    <2>4. UNCHANGED <<memory, queue>> /\ seen' = memory[HostOut]
      BY <1>7 DEF ReadHistogram, device
    <2>5. Flushed' = Flushed
      BY <2>4, Mapping
    <2> QED BY <2>3, <2>4, <2>5, SameDevice DEF Device!Next, Device!HostReads
  <1>8. CASE Retire
    <2>1. /\ queue \in Seq(DeviceOps) /\ queue # <<>>
          /\ queue' = Tail(queue) /\ memory' = Effect(Head(queue), memory) /\ seen' = seen
      BY <1>8 DEF Retire, IInv, TypeOK, host
    <2>2. Flushed' = Flushed
      BY <2>1, FlushTail, Mapping
    <2> QED BY <2>1, <2>2 DEF Device!sync
  <1>9. CASE UNCHANGED <<memory, queue, seen>>
    BY <1>9, QuietMaps
  <1> QED BY <1>1, <1>2, <1>3, <1>4, <1>5, <1>6, <1>7, <1>8, <1>9
          DEF Next, vars, device, host, AcquireStaging, BeginRound, BeginTree, EndTree,
              EndRound, Raise, SyncExplicit, Close, Finished

\* The session gives the caller what a device without a queue would: every
\* histogram the host reads is the one of the operations it issued before.
THEOREM Implementation == Spec => ImplementsSyncDevice
  BY InitMaps, StepMaps, Invariant, PTL DEF Spec, ImplementsSyncDevice, Device!Spec
=============================================================================
