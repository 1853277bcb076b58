-------------------------- MODULE Rendezvous_proofs --------------------------
(***************************************************************************)
(* Proofs about Rendezvous, for every size of the world, every set of      *)
(* started processes and every record they announce: that a joined world   *)
(* is whole, and that the ranks of a whole world all join without needing  *)
(* a deadline.                                                             *)
(***************************************************************************)
EXTENDS Rendezvous, FiniteSetTheorems, FunctionTheorems, TLAPS

\* The processes the root accepted are compatible and of different ranks, and
\* there are N - 1 of them from the moment it relays; it relays to no other
\* process, and a process is ready once it was relayed to.
Admitted ==
    /\ \A i \in DOMAIN accepted : Compatible(RootRecord, identity[accepted[i]])
    /\ \A i, j \in DOMAIN accepted :
          identity[accepted[i]].rank = identity[accepted[j]].rank => i = j

Relayed ==
    /\ root \in {"bind", "accept", "examine"} => Len(accepted) < N - 1
    /\ root \in {"relay", "ready"} => Len(accepted) = N - 1
    /\ \A p \in Processes : told[p] # {} => Len(accepted) = N - 1 /\ p \in Accepted
    /\ \A p \in Processes : worker[p] = "ready" => told[p] # {}

Forming ==
    /\ identity \in Worlds
    /\ accepted \in Seq(Processes) /\ backlog \in Seq(Processes)
    /\ current \in Processes \union {"nobody"}
    /\ root = "examine" => current \in Processes
    /\ DOMAIN told = Processes /\ DOMAIN worker = Processes
    /\ Admitted
    /\ Relayed

IInv == TypeOK /\ Forming

\* Nobody is accepted at the start.
LEMMA InitForming == ASSUME Init PROVE Forming
<1> USE WorldAssumption DEF Init
<1>1. accepted \in Seq(Processes) /\ backlog \in Seq(Processes) /\ Len(accepted) = 0
      /\ DOMAIN accepted = {}
  OBVIOUS
<1>2. \A p \in Processes : told[p] = {} /\ worker[p] # "ready"
  OBVIOUS
<1> QED  BY <1>1, <1>2 DEF Forming, Admitted, Relayed

\* A step that neither admits, nor relays, nor makes a worker ready.
LEMMA QuietForming ==
    ASSUME Forming, UNCHANGED <<identity, accepted, told>>,
           backlog' \in Seq(Processes), current' \in Processes \union {"nobody"},
           root' = "examine" => current' \in Processes,
           root' \in {"bind", "accept", "examine"} => root \in {"bind", "accept", "examine"},
           root' \in {"relay", "ready"} => root \in {"relay", "ready"},
           DOMAIN worker' = Processes,
           \A p \in Processes : worker'[p] = "ready" => worker[p] = "ready"
    PROVE  Forming'
  BY DEF Forming, Admitted, Relayed, Accepted

\* A worker that joins was relayed at least the root's record.
LEMMA JoinForming ==
    ASSUME Forming, NEW p \in Processes, WorkerJoin(p)
    PROVE  Forming'
<1>1. told[p] # {}
  <2>1. identity[p].world >= 2 /\ identity[p].world \in Nat
    BY WorldsAssumption DEF Forming, Record
  <2>2. Cardinality(told[p]) # 0
    BY <2>1 DEF WorkerJoin
  <2> QED  BY <2>2, FS_EmptySet
<1>2. \A q \in Processes : q # p => worker'[q] = worker[q]
  BY DEF WorkerJoin, WorkerRaise, Forming
<1>3. DOMAIN worker' = Processes
  BY DEF WorkerJoin, WorkerRaise, Forming
<1>4. UNCHANGED <<identity, root, backlog, current, accepted, told>>
  BY DEF WorkerJoin
<1> QED  BY <1>1, <1>2, <1>3, <1>4 DEF Forming, Admitted, Relayed, Accepted

\* The root admits a worker whose record it compared and whose rank is new.
LEMMA AdmitForming ==
    ASSUME Forming, RootAdmit
    PROVE  Forming'
<1>1. /\ root = "examine" /\ current \in Processes /\ accepted \in Seq(Processes)
      /\ Compatible(RootRecord, identity[current])
      /\ \A p \in Accepted : identity[p].rank # identity[current].rank
      /\ accepted' = Append(accepted, current) /\ current' = "nobody"
      /\ IF Len(accepted) + 1 = N - 1 THEN root' = "relay" ELSE root' = "accept"
      /\ UNCHANGED <<identity, worker, backlog, told>>
  BY DEF RootAdmit, Forming
<1>2. /\ accepted' \in Seq(Processes) /\ Len(accepted') = Len(accepted) + 1
      /\ Len(accepted) \in Nat
      /\ DOMAIN accepted' = 1 .. Len(accepted) + 1 /\ DOMAIN accepted = 1 .. Len(accepted)
      /\ accepted'[Len(accepted) + 1] = current
      /\ \A i \in 1 .. Len(accepted) : accepted'[i] = accepted[i]
  BY <1>1
<1>3. \A i \in DOMAIN accepted : accepted[i] \in Accepted
  BY DEF Accepted
<1>4. Len(accepted) < N - 1
  BY <1>1 DEF Forming, Relayed
<1>5. \A p \in Processes : told[p] = {} /\ worker[p] # "ready"
  BY <1>2, <1>4, WorldAssumption DEF Forming, Relayed
<1>6. Admitted'
  BY <1>1, <1>2, <1>3 DEF Forming, Admitted
<1>7. Relayed'
  BY <1>1, <1>2, <1>4, <1>5, WorldAssumption DEF Relayed
<1> QED  BY <1>1, <1>2, <1>6, <1>7 DEF Forming

\* The root relays the records to the next accepted process.
LEMMA RelayForming ==
    ASSUME Forming, RootRelay
    PROVE  Forming'
<1>1. PICK p \in Untold : told' = [told EXCEPT ![p] = RelayedTo(p)]
  BY DEF RootRelay
<1>2. p \in Accepted /\ root = "relay"
  BY DEF Untold, RootRelay
<1>3. UNCHANGED <<identity, worker, root, backlog, current, accepted>>
  BY DEF RootRelay
<1>4. RelayedTo(p) # {}
  BY DEF RelayedTo
<1> QED  BY <1>1, <1>2, <1>3, <1>4 DEF Forming, Admitted, Relayed, Accepted

\* Every step keeps the world as it forms.
LEMMA StepForming == ASSUME Forming, [Next]_vars PROVE Forming'
<1>1. ASSUME NEW p \in Processes,
             WorkerConnect(p) \/ WorkerAnnounce(p) \/ WorkerLost(p)
               \/ WorkerTimeout(p) \/ Crash(p)
      PROVE  Forming'
  <2>1. UNCHANGED <<identity, accepted, told, root, current>>
    BY <1>1 DEF WorkerConnect, WorkerAnnounce, WorkerLost,
                WorkerTimeout, Crash
  <2>2. backlog' \in Seq(Processes)
    BY <1>1 DEF Forming, WorkerConnect, WorkerAnnounce, WorkerLost,
                WorkerTimeout, Crash
  <2>3. DOMAIN worker' = Processes /\ \A q \in Processes : worker'[q] = "ready" => worker[q] = "ready"
    BY <1>1 DEF Forming, WorkerConnect, WorkerAnnounce, WorkerLost,
                WorkerTimeout, Crash, WorkerRaise
  <2> QED  BY <2>1, <2>2, <2>3, QuietForming DEF Forming
<1>2. CASE RootListen \/ RootRefuse \/ RootGiveUp \/ RootTimeout
           \/ RootRelayFails \/ RootJoin
  <2>1. UNCHANGED <<identity, accepted, told, current, worker, backlog>>
    BY <1>2 DEF RootListen, RootRefuse, RootGiveUp, RootTimeout,
                RootRelayFails, RootJoin
  <2>2. \/ root = "bind" /\ root' = "accept"
        \/ root' = "raised"
        \/ root = "relay" /\ root' = "ready"
    BY <1>2 DEF RootListen, RootRefuse, RootGiveUp, RootTimeout,
                RootRelayFails, RootJoin, RootAbandon
  <2> QED  BY <2>1, <2>2, QuietForming DEF Forming
<1>3. CASE RootAccept
  <2>1. backlog \in Seq(Processes) /\ backlog # <<>>
    BY <1>3 DEF RootAccept, Forming
  <2>2. Head(backlog) \in Processes /\ Tail(backlog) \in Seq(Processes)
    BY <2>1
  <2>3. /\ root = "accept" /\ root' = "examine"
        /\ current' = Head(backlog) /\ backlog' = Tail(backlog)
        /\ UNCHANGED <<identity, accepted, told, worker>>
    BY <1>3 DEF RootAccept
  <2> QED  BY <2>2, <2>3, QuietForming DEF Forming
<1>4. CASE UNCHANGED vars
  BY <1>4, QuietForming DEF vars, Forming
<1> QED  BY <1>1, <1>2, <1>3, <1>4, JoinForming, AdmitForming, RelayForming
         DEF Next, WorkerStep, RootStep

-----------------------------------------------------------------------------
(* Types.                                                                  *)

\* The initial states have their types.
LEMMA InitTypes == Init => TypeOK
<1> SUFFICES ASSUME Init PROVE TypeOK
  OBVIOUS
<1>1. <<>> \in Seq(Processes) /\ 0 \in 0 .. MaxCrashes
  BY ProcessAssumption
<1> QED  BY <1>1 DEF Init, TypeOK

\* The records that are relayed are records.
LEMMA RelayedType ==
    ASSUME TypeOK, NEW p \in Processes
    PROVE  RelayedTo(p) \subseteq Record
<1>1. identity \in [Processes -> Record]
  BY WorldsAssumption DEF TypeOK
<1>2. RootRecord \in Record
  BY WorldAssumption DEF RootRecord, Record
<1>3. \A q \in Accepted : q \in Processes
  BY DEF TypeOK, Accepted
<1> QED  BY <1>1, <1>2, <1>3 DEF RelayedTo

\* The steps of a worker, and its crash, keep the types.
LEMMA WorkerTypes ==
    ASSUME TypeOK, NEW p \in Processes, WorkerStep(p) \/ Crash(p)
    PROVE  TypeOK'
<1>1. CASE WorkerConnect(p)
  <2>1. backlog \in Seq(Processes) /\ backlog' = Append(backlog, p)
    BY <1>1 DEF WorkerConnect, TypeOK
  <2>2. backlog' \in Seq(Processes)
    BY <2>1
  <2> QED  BY <1>1, <2>2 DEF WorkerConnect, TypeOK
<1>2. CASE WorkerAnnounce(p)
  BY <1>2 DEF WorkerAnnounce, WorkerRaise, TypeOK
<1>3. CASE WorkerJoin(p) \/ WorkerLost(p) \/ WorkerTimeout(p)
  BY <1>3 DEF WorkerJoin, WorkerLost, WorkerTimeout, WorkerRaise, TypeOK
<1>4. CASE Crash(p)
  <2>1. crashes' \in 0 .. MaxCrashes
    BY <1>4, ProcessAssumption DEF Crash, TypeOK
  <2> QED  BY <1>4, <2>1 DEF Crash, TypeOK
<1> QED  BY <1>1, <1>2, <1>3, <1>4 DEF WorkerStep

\* The steps of the root keep the types.
LEMMA RootTypes ==
    ASSUME TypeOK, Forming, RootStep
    PROVE  TypeOK'
<1>1. CASE RootListen \/ RootJoin \/ RootRefuse \/ RootGiveUp \/ RootTimeout \/ RootRelayFails
  BY <1>1 DEF RootListen, RootJoin, RootRefuse, RootGiveUp, RootTimeout, RootRelayFails,
              RootAbandon, TypeOK
<1>2. CASE RootAccept
  <2>1. Head(backlog) \in Processes /\ Tail(backlog) \in Seq(Processes)
    BY <1>2 DEF RootAccept, TypeOK
  <2> QED  BY <1>2, <2>1 DEF RootAccept, TypeOK
<1>3. CASE RootAdmit
  <2>1. current \in Processes /\ accepted \in Seq(Processes)
    BY <1>3 DEF RootAdmit, Forming
  <2>2. Append(accepted, current) \in Seq(Processes)
    BY <2>1
  <2> QED  BY <1>3, <2>2 DEF RootAdmit, TypeOK
<1>4. CASE RootRelay
  <2>1. PICK p \in Untold : told' = [told EXCEPT ![p] = RelayedTo(p)]
    BY <1>4 DEF RootRelay
  <2>2. p \in Processes
    BY <2>1 DEF Untold, Accepted, TypeOK
  <2>3. RelayedTo(p) \subseteq Record
    BY <2>2, RelayedType
  <2> QED  BY <1>4, <2>1, <2>3 DEF RootRelay, TypeOK
<1> QED  BY <1>1, <1>2, <1>3, <1>4 DEF RootStep

\* The invariant of every behaviour, whoever was started.
THEOREM Invariance == Spec => []IInv
<1>1. Init => IInv
  BY InitTypes, InitForming DEF IInv
<1>2. IInv /\ [Next]_vars => IInv'
  <2>1. ASSUME TypeOK, UNCHANGED vars PROVE TypeOK'
    BY <2>1 DEF TypeOK, vars
  <2> QED  BY <2>1, WorkerTypes, RootTypes, StepForming DEF Next, IInv
<1> QED  BY <1>1, <1>2, PTL DEF Spec

\* Every variable of the processes, the root and their connections keeps its type.
THEOREM TypeCorrect == Spec => []TypeOK
<1>1. IInv => TypeOK
  BY DEF IInv
<1> QED  BY <1>1, Invariance, PTL

\* A record the root can join is that of one of its workers.
LEMMA RecordOfTheWorld ==
    ASSUME NEW rec \in Record, Compatible(RootRecord, rec)
    PROVE  rec.rank \in 1 .. N - 1 /\ rec = [RootRecord EXCEPT !.rank = rec.rank]
<1>1. /\ rec.version = RootRecord.version /\ rec.job = RootRecord.job
      /\ rec.world = RootRecord.world /\ rec.schema = RootRecord.schema
      /\ rec.epoch = RootRecord.epoch
      /\ ~(rec.rank < 0) /\ ~(rec.rank >= RootRecord.world)
      /\ rec.rank # RootRecord.rank
  BY DEF Compatible, HandshakeStatus
<1>2. rec.rank \in 1 .. N - 1
  BY <1>1, WorldAssumption DEF RootRecord, Record
<1>3. rec = [RootRecord EXCEPT !.rank = rec.rank]
  BY <1>1 DEF RootRecord, Record
<1> QED  BY <1>2, <1>3

\* N - 1 compatible records of different ranks are those of the world.
LEMMA WholeWorld ==
    ASSUME Forming, Len(accepted) = N - 1
    PROVE  /\ Cardinality(Accepted) = N - 1
           /\ {identity[p] : p \in Accepted} =
                {[RootRecord EXCEPT !.rank = r] : r \in 1 .. N - 1}
<1> DEFINE I == 1 .. N - 1
           rank == [i \in I |-> identity[accepted[i]].rank]
           who == [i \in I |-> accepted[i]]
<1>1. /\ DOMAIN accepted = I /\ \A i \in I : accepted[i] \in Processes
      /\ IsFiniteSet(I) /\ Cardinality(I) = N - 1 /\ N \in Nat
  <2>1. IsFiniteSet(I) /\ Cardinality(I) = N - 1
    BY WorldAssumption, FS_Interval
  <2>2. DOMAIN accepted = I /\ \A i \in I : accepted[i] \in Processes
    BY DEF Forming
  <2> QED  BY <2>1, <2>2, WorldAssumption
<1>2. \A i \in I : /\ identity[accepted[i]].rank \in I
                   /\ identity[accepted[i]]
                        = [RootRecord EXCEPT !.rank = identity[accepted[i]].rank]
  <2> TAKE i \in I
  <2>1. identity[accepted[i]] \in Record
    BY <1>1, WorldsAssumption DEF Forming
  <2>2. Compatible(RootRecord, identity[accepted[i]])
    BY <1>1 DEF Forming, Admitted
  <2> QED  BY <2>1, <2>2, RecordOfTheWorld
<1>3. \A i, j \in I : identity[accepted[i]].rank = identity[accepted[j]].rank => i = j
  BY <1>1 DEF Forming, Admitted
<1>4. rank \in Surjection(I, I)
  <2>1. rank \in [I -> I]  BY <1>2
  <2>2. \A i, j \in I : rank[i] = rank[j] => i = j  BY <1>3
  <2> HIDE DEF rank, I
  <2>3. rank \in Injection(I, I)  BY <2>1, <2>2, Fun_IsInj
  <2> QED  BY <1>1, <2>3, FS_Injection
<1>5. \A r \in I : \E i \in I : identity[accepted[i]].rank = r
  BY <1>4 DEF Surjection
<1>6. Accepted = {accepted[i] : i \in I}
  BY <1>1 DEF Accepted
<1>7. Cardinality(Accepted) = N - 1
  <2>1. who \in [I -> Accepted]  BY <1>6
  <2>2. \A i, j \in I : who[i] = who[j] => i = j  BY <1>3
  <2>3. \A p \in Accepted : \E i \in I : who[i] = p  BY <1>6
  <2> HIDE DEF who, I
  <2>4. who \in Bijection(I, Accepted)  BY <2>1, <2>2, <2>3, Fun_IsBij
  <2> QED  BY <1>1, <2>4, FS_Bijection DEF ExistsBijection
<1> HIDE DEF rank, who
<1>8. {identity[p] : p \in Accepted} = {[RootRecord EXCEPT !.rank = r] : r \in I}
  <2> DEFINE Member(r) == [RootRecord EXCEPT !.rank = r]
  <2>1. \A i \in I : /\ identity[accepted[i]] = Member(identity[accepted[i]].rank)
                     /\ identity[accepted[i]].rank \in I
    BY <1>2
  <2> HIDE DEF I, Member
  <2>2. \A p \in Accepted : \E r \in I : identity[p] = Member(r)
    BY <1>6, <2>1
  <2>3. \A r \in I : \E p \in Accepted : identity[p] = Member(r)
    BY <1>5, <1>6, <2>1
  <2>4. {identity[p] : p \in Accepted} = {Member(r) : r \in I}
    BY <2>2, <2>3
  <2> QED  BY <2>4 DEF Member
<1> QED  BY <1>7, <1>8

\* Whatever the order the processes of a machine list connect in and whoever is
\* left over from another run, nobody opens a session before the root has
\* accepted exactly one compatible process for every rank, the opener included.
THEOREM WorldsAreWhole == Spec => []JoinedWorldIsWhole
<1>1. IInv => JoinedWorldIsWhole
  <2> SUFFICES ASSUME IInv, Joined # {} \/ root = "ready"
               PROVE  /\ Joined \subseteq Accepted
                      /\ Len(accepted) = N - 1
    BY WholeWorld DEF IInv, JoinedWorldIsWhole
  <2>1. \A p \in Joined : Len(accepted) = N - 1 /\ p \in Accepted
    BY DEF IInv, Forming, Relayed, Joined
  <2> QED  BY <2>1 DEF IInv, Forming, Relayed
<1> QED  BY <1>1, Invariance, PTL

-----------------------------------------------------------------------------
(* The ranks of a whole world, left alone, all join.                       *)

Member(r) == [RootRecord EXCEPT !.rank = r]
Members(R) == {Member(r) : r \in R}
AllButRank(r) == Members((0 .. N - 1) \ {r})

Queued == {backlog[i] : i \in DOMAIN backlog}
Examined == IF root = "examine" THEN {current} ELSE {}

Calm == WholeWorldStarted /\ crashes = 0 /\ ~late

\* The connection of a started process is in the backlog, under examination or
\* accepted, in one of them only and once, from the moment it connects; and no
\* end of it is closed.
Connections ==
    /\ \A i, j \in DOMAIN backlog : backlog[i] = backlog[j] => i = j
    /\ Queued \intersect Examined = {} /\ Queued \intersect Accepted = {}
    /\ Examined \intersect Accepted = {}
    /\ {p \in Started : worker[p] # "connect"} = Queued \union Examined \union Accepted
    /\ \A p \in Started : /\ worker[p] # "connect" => fd[p] = "open"
                          /\ rootFd[p] = IF p \in Examined \union Accepted THEN "open" ELSE "none"

\* Nobody raised; who connected and is not announced is about to, and an accepted
\* process is told of exactly the others, or of nobody yet.
Progress ==
    /\ root # "raised"
    /\ listener = IF root = "bind" THEN "none"
                  ELSE IF root \in {"accept", "examine"} THEN "open" ELSE "closed"
    /\ \A p \in Started :
          /\ worker[p] # "raised"
          /\ worker[p] \in {"await", "ready"} => p \in announced
          /\ told[p] \in {{}, AllButRank(identity[p].rank)}
    /\ root = "ready" => \A p \in Accepted : told[p] # {}

Undisturbed == Calm => Connections /\ Progress

\* As many members as ranks.
LEMMA MembersCount ==
    ASSUME NEW R, R \subseteq Nat, IsFiniteSet(R)
    PROVE  Cardinality(Members(R)) = Cardinality(R)
<1> DEFINE f == [r \in R |-> Member(r)]
<1>1. \A r \in R : Member(r).rank = r
  BY DEF Member, RootRecord
<1>2. f \in [R -> Members(R)]
  BY DEF Members
<1>3. \A r, o \in R : f[r] = f[o] => r = o
  BY <1>1
<1>4. \A m \in Members(R) : \E r \in R : f[r] = m
  BY DEF Members
<1> HIDE DEF f
<1>5. f \in Bijection(R, Members(R))
  BY <1>2, <1>3, <1>4, Fun_IsBij
<1> QED  BY <1>5, FS_Bijection DEF ExistsBijection

\* A rank of the world that is told of all the others completes its handshake.
LEMMA WorldOfTheOthers ==
    ASSUME NEW a \in 0 .. N - 1
    PROVE  Cardinality(AllButRank(a)) = N - 1 /\ WorldComplete(Member(a), AllButRank(a))
<1> DEFINE R == (0 .. N - 1) \ {a}
<1>1. IsFiniteSet(R) /\ Cardinality(R) = N - 1
  <2>1. N \in Nat /\ N - 1 \in Int /\ N >= 2
    BY WorldAssumption
  <2>2. IsFiniteSet(0 .. N - 1) /\ Cardinality(0 .. N - 1) = N
    BY <2>1, FS_Interval
  <2> QED  BY <2>1, <2>2, FS_RemoveElement
<1>2. R \subseteq Nat
  OBVIOUS
<1>3. Cardinality(AllButRank(a)) = N - 1
  BY <1>1, <1>2, MembersCount DEF AllButRank
<1>4. \A r \in R : Compatible(Member(a), Member(r)) /\ Member(r).rank = r
  BY WorldAssumption DEF Compatible, HandshakeStatus, Member, RootRecord
<1>5. \A m \in AllButRank(a) : \E r \in R : m = Member(r)
  BY DEF AllButRank, Members
<1>6. Member(a).world = N
  BY DEF Member, RootRecord
<1> QED  BY <1>3, <1>4, <1>5, <1>6 DEF WorldComplete

\* The started processes announce the ranks of the world, each its own.
LEMMA StartedRecords ==
    ASSUME Forming, Calm
    PROVE  /\ \A p \in Started : /\ p \in Processes
                                 /\ identity[p].rank \in 1 .. N - 1
                                 /\ identity[p] = Member(identity[p].rank)
                                 /\ Compatible(RootRecord, identity[p])
           /\ \A p, q \in Started : identity[p].rank = identity[q].rank => p = q
<1>1. \A p \in Started : /\ p \in Processes /\ identity[p] \in Record
                         /\ Compatible(RootRecord, identity[p])
  BY WorldsAssumption DEF Forming, Calm, WholeWorldStarted, Started
<1>2. \A p, q \in Started : identity[p].rank = identity[q].rank => p = q
  BY DEF Calm, WholeWorldStarted
<1> QED  BY <1>1, <1>2, RecordOfTheWorld DEF Member

\* N - 1 accepted processes are all that were started.
LEMMA AcceptedAll ==
    ASSUME Forming, Calm, Connections, Len(accepted) = N - 1
    PROVE  /\ Accepted = Started
           /\ {identity[q] : q \in Accepted} = AllButRank(0)
           /\ \A p \in Started : RelayedTo(p) = AllButRank(identity[p].rank)
<1>1. /\ Cardinality(Accepted) = N - 1
      /\ {identity[q] : q \in Accepted} = Members(1 .. N - 1)
  BY WholeWorld DEF Members, Member
<1>2. Accepted = Started
  <2>1. IsFiniteSet(Started) /\ Cardinality(Started) = N - 1
    <3>1. Started \in SUBSET Processes
      BY DEF Started
    <3> QED  BY <3>1, ProcessAssumption, FS_Subset DEF Calm, WholeWorldStarted
  <2>2. Accepted \in SUBSET Started
    BY DEF Connections
  <2> QED  BY <1>1, <2>1, <2>2, FS_Subset
<1>3. (0 .. N - 1) \ {0} = 1 .. N - 1
  BY WorldAssumption
<1>4. ASSUME NEW p \in Started
      PROVE  RelayedTo(p) = AllButRank(identity[p].rank)
  <2> DEFINE a == identity[p].rank
             B == (0 .. N - 1) \ {a}
  <2>1. a \in 1 .. N - 1 /\ 0 \in B
    BY StartedRecords, WorldAssumption
  <2>2. RootRecord = Member(0)
    BY DEF RootRecord, Member
  <2>3. \A q \in Started \ {p} : identity[q].rank \in B /\ identity[q] = Member(identity[q].rank)
    BY StartedRecords
  <2>4. \A r \in B : r # 0 => \E q \in Started \ {p} : identity[q] = Member(r)
    <3> TAKE r \in B
    <3> HAVE r # 0
    <3>1. r \in 1 .. N - 1
      BY WorldAssumption
    <3>2. Member(r) \in {identity[q] : q \in Started}
      BY <1>1, <1>2, <3>1 DEF Members
    <3>3. PICK q \in Started : identity[q] = Member(r)
      BY <3>2
    <3>4. identity[q].rank = r
      BY <3>3 DEF Member, RootRecord
    <3> QED  BY <3>3, <3>4
  <2> HIDE DEF B
  <2>5. RelayedTo(p) = {Member(0)} \union {identity[q] : q \in Started \ {p}}
    BY <1>2, <2>2 DEF RelayedTo
  <2>6. RelayedTo(p) = {Member(r) : r \in B}
    BY <2>1, <2>3, <2>4, <2>5
  <2> QED  BY <2>6 DEF AllButRank, Members, B
<1> QED  BY <1>1, <1>2, <1>3, <1>4 DEF AllButRank

\* No started process finds its connection gone.
LEMMA NobodyDropped ==
    ASSUME IInv, Calm, Connections, Progress, NEW p \in Started
    PROVE  ~Dropped(p)
<1>1. rootFd[p] # "closed"
  BY DEF Connections
<1>2. CASE listener # "closed"
  BY <1>1, <1>2 DEF Dropped
<1>3. CASE listener = "closed"
  <2>1. root \notin {"bind", "accept", "examine", "raised"}
    BY <1>3 DEF Progress
  <2>2. root \in {"relay", "ready"} => Len(accepted) = N - 1
    BY DEF IInv, Forming, Relayed
  <2>3. CASE root \in {"relay", "ready"}
    <3>1. rootFd[p] = "open"
      BY <2>2, <2>3, AcceptedAll DEF Connections, IInv
    <3> QED  BY <1>1, <3>1 DEF Dropped
  <2> QED  BY <2>1, <2>3 DEF IInv, TypeOK
<1> QED  BY <1>2, <1>3

\* Whoever is left alone now was left alone before.
LEMMA CalmBefore ==
    ASSUME IInv, [Next]_vars, Calm'
    PROVE  /\ Calm /\ UNCHANGED <<identity, late, crashes>> /\ Started' = Started
           /\ \A p \in Processes : ~WorkerTimeout(p) /\ ~Crash(p)
           /\ ~RootTimeout
<1>1. UNCHANGED identity
  BY DEF Next, WorkerStep, RootStep, vars, WorkerConnect, WorkerAnnounce, WorkerJoin,
         WorkerLost, WorkerTimeout, Crash, RootListen, RootAccept, RootAdmit, RootRefuse,
         RootGiveUp, RootTimeout, RootRelay, RootRelayFails, RootJoin
<1>2. crashes' = 0 /\ late' = FALSE
  BY DEF Calm
<1>3. \A p \in Processes : ~Crash(p)
  BY <1>2, ProcessAssumption DEF Crash, IInv, TypeOK
<1>4. (\A p \in Processes : ~WorkerTimeout(p)) /\ ~RootTimeout
  BY <1>2 DEF WorkerTimeout, RootTimeout
<1>5. UNCHANGED <<late, crashes>>
  BY <1>2, <1>3, <1>4
     DEF Next, WorkerStep, RootStep, vars, WorkerConnect, WorkerAnnounce, WorkerJoin,
         WorkerLost, RootListen, RootAccept, RootAdmit, RootRefuse,
         RootGiveUp, RootRelay, RootRelayFails, RootJoin
<1>6. \A p \in Processes : worker'[p] = "dead" <=> worker[p] = "dead"
  BY <1>3, <1>4
     DEF Next, WorkerStep, RootStep, vars, WorkerConnect, WorkerAnnounce, WorkerJoin,
         WorkerLost, WorkerRaise, RootListen, RootAccept, RootAdmit, RootRefuse,
         RootGiveUp, RootRelay, RootRelayFails, RootJoin, IInv, TypeOK
<1>7. Started' = Started
  BY <1>6 DEF Started
<1>8. Calm
  BY <1>1, <1>2, <1>5, <1>7 DEF Calm, WholeWorldStarted
<1> QED  BY <1>1, <1>3, <1>4, <1>5, <1>7, <1>8

\* A step that leaves the connections where they are.
LEMMA ConnectionsStay ==
    ASSUME Connections, Started' = Started, UNCHANGED <<backlog, rootFd, accepted, fd>>,
           Examined' = Examined,
           \A p \in Started : worker'[p] = "connect" <=> worker[p] = "connect"
    PROVE  Connections'
<1>1. Queued' = Queued /\ Accepted' = Accepted
  BY DEF Queued, Accepted
<1>2. {p \in Started' : worker'[p] # "connect"} = {p \in Started : worker[p] # "connect"}
  OBVIOUS
<1>3. \A p \in Started' : /\ worker'[p] # "connect" => fd'[p] = "open"
                          /\ rootFd'[p] = IF p \in Examined' \union Accepted' THEN "open" ELSE "none"
  BY <1>1 DEF Connections
<1> QED  BY <1>1, <1>2, <1>3 DEF Connections

\* The steps of the workers of a whole world.
LEMMA WorkerUndisturbed ==
    ASSUME IInv, Calm, Connections, Progress, NEW p \in Processes,
           WorkerConnect(p) \/ WorkerAnnounce(p) \/ WorkerJoin(p) \/ WorkerLost(p),
           UNCHANGED identity, Started' = Started
    PROVE  Connections' /\ Progress'
<1>1. CASE WorkerConnect(p)
  <2>1. /\ worker[p] = "connect" /\ listener = "open" /\ backlog' = Append(backlog, p)
        /\ fd' = [fd EXCEPT ![p] = "open"] /\ worker' = [worker EXCEPT ![p] = "announce"]
        /\ UNCHANGED <<announced, root, listener, rootFd, current, accepted, told>>
    BY <1>1 DEF WorkerConnect
  <2>2. p \in Started
    BY <2>1 DEF Started
  <2>3. /\ backlog \in Seq(Processes) /\ Len(backlog) \in Nat
        /\ DOMAIN backlog = 1 .. Len(backlog) /\ DOMAIN backlog' = 1 .. Len(backlog) + 1
        /\ backlog'[Len(backlog) + 1] = p
        /\ \A i \in 1 .. Len(backlog) : backlog'[i] = backlog[i]
    BY <2>1 DEF IInv, TypeOK
  <2>4. Queued' = Queued \union {p} /\ Examined' = Examined /\ Accepted' = Accepted
    <3>1. Queued' = Queued \union {p}
      BY <2>3 DEF Queued
    <3> QED  BY <2>1, <3>1 DEF Examined, Accepted
  <2>5. p \notin Queued \union Examined \union Accepted
    BY <2>1 DEF Connections
  <2>6. \A i, j \in DOMAIN backlog' : backlog'[i] = backlog'[j] => i = j
    BY <2>3, <2>5 DEF Connections, Queued
  <2>7. {q \in Started' : worker'[q] # "connect"} = Queued' \union Examined' \union Accepted'
    BY <2>1, <2>2, <2>4 DEF Connections, IInv, TypeOK
  <2>8. \A q \in Started' : worker'[q] # "connect" => fd'[q] = "open"
    BY <2>1 DEF Connections, IInv, TypeOK, Started
  <2>9. Connections'
    BY <2>1, <2>4, <2>5, <2>6, <2>7, <2>8 DEF Connections
  <2>10. Progress'
    BY <2>1, <2>4 DEF Progress, IInv, TypeOK, Started
  <2> QED  BY <2>9, <2>10
<1>2. CASE ~WorkerConnect(p)
  <2>1. /\ p \in Started /\ worker[p] \in {"announce", "await"}
        /\ UNCHANGED <<root, listener, backlog, rootFd, current, accepted, told>>
    BY <1>2 DEF WorkerAnnounce, WorkerJoin, WorkerLost, Started
  <2>2. ~Dropped(p)
    BY <2>1, NobodyDropped
  <2>3. CASE WorkerAnnounce(p)
    <3>1. /\ announced' = announced \union {p} /\ worker' = [worker EXCEPT ![p] = "await"]
          /\ fd' = fd
      BY <2>2, <2>3 DEF WorkerAnnounce
    <3>2. Connections'
      BY <2>1, <3>1, ConnectionsStay DEF IInv, TypeOK, Examined
    <3>3. Progress'
      BY <2>1, <3>1 DEF Progress, IInv, TypeOK, Started, Accepted
    <3> QED  BY <3>2, <3>3
  <2>4. CASE WorkerJoin(p)
    <3>1. told[p] = AllButRank(identity[p].rank)
      <4>1. identity[p].world >= 2 /\ identity[p].world \in Nat
        BY WorldsAssumption DEF IInv, Forming, Record
      <4>2. Cardinality(told[p]) # 0
        BY <2>4, <4>1 DEF WorkerJoin
      <4>3. told[p] # {}
        BY <4>2, FS_EmptySet
      <4> QED  BY <2>1, <4>3 DEF Progress
    <3>2. WorldComplete(identity[p], told[p])
      <4>1. identity[p].rank \in 0 .. N - 1 /\ identity[p] = Member(identity[p].rank)
        BY <2>1, StartedRecords DEF IInv
      <4> QED  BY <3>1, <4>1, WorldOfTheOthers
    <3>3. worker' = [worker EXCEPT ![p] = "ready"] /\ fd' = fd /\ announced' = announced
      BY <2>4, <3>2 DEF WorkerJoin
    <3>4. worker[p] = "await"
      BY <2>4 DEF WorkerJoin
    <3>5. Connections'
      BY <2>1, <3>3, <3>4, ConnectionsStay DEF IInv, TypeOK, Examined
    <3>6. Progress'
      BY <2>1, <3>3, <3>4 DEF Progress, IInv, TypeOK, Started, Accepted
    <3> QED  BY <3>5, <3>6
  <2>5. ~WorkerLost(p)
    BY <2>2 DEF WorkerLost
  <2> QED  BY <1>2, <2>3, <2>4, <2>5
<1> QED  BY <1>1, <1>2

\* The steps of its root.
LEMMA RootUndisturbed ==
    ASSUME IInv, Calm, Connections, Progress, RootStep, ~RootTimeout,
           UNCHANGED <<identity, late>>, Started' = Started, ~late
    PROVE  Connections' /\ Progress'
<1> USE DEF IInv
<1>1. CASE RootListen
  <2>1. root = "bind" /\ listener' = "open" /\ root' = "accept"
        /\ UNCHANGED <<worker, fd, announced, backlog, rootFd, current, accepted, told>>
    BY <1>1 DEF RootListen
  <2>2. Examined' = Examined /\ Accepted' = Accepted
    BY <2>1 DEF Examined, Accepted
  <2> QED  BY <2>1, <2>2, ConnectionsStay DEF Progress
<1>2. CASE RootAccept
  <2> DEFINE p == Head(backlog)
  <2>1. /\ root = "accept" /\ backlog # <<>> /\ current' = p /\ backlog' = Tail(backlog)
        /\ rootFd' = [rootFd EXCEPT ![p] = "open"] /\ root' = "examine"
        /\ UNCHANGED <<worker, fd, announced, listener, accepted, told>>
    BY <1>2 DEF RootAccept
  <2>2. /\ backlog \in Seq(Processes) /\ Len(backlog) \in Nat /\ Len(backlog) >= 1
        /\ DOMAIN backlog = 1 .. Len(backlog) /\ DOMAIN backlog' = 1 .. Len(backlog) - 1
        /\ p = backlog[1]
        /\ \A i \in 1 .. Len(backlog) - 1 : backlog'[i] = backlog[i + 1]
    <3>1. backlog \in Seq(Processes) /\ backlog # <<>>
      BY <2>1 DEF TypeOK
    <3> QED  BY <2>1, <3>1
  <2>3. \A i, j \in 1 .. Len(backlog) : backlog[i] = backlog[j] => i = j
    BY <2>2 DEF Connections
  <2>4. p \in Queued /\ p \in Processes
    BY <2>2 DEF Queued
  <2> HIDE DEF p
  <2>5. Queued' = Queued \ {p}
    <3>1. \A i \in 1 .. Len(backlog) - 1 : i + 1 \in 1 .. Len(backlog) /\ i + 1 # 1
      BY <2>2
    <3>2. \A i \in 1 .. Len(backlog) : i = 1 \/ i - 1 \in 1 .. Len(backlog) - 1
      BY <2>2
    <3>3. \A i \in 1 .. Len(backlog) : i # 1 => backlog[i] = backlog'[i - 1]
      BY <2>2, <3>2
    <3>4. \A i \in 1 .. Len(backlog) - 1 : backlog'[i] # p
      BY <2>2, <2>3, <3>1
    <3>5. \A i \in 1 .. Len(backlog) - 1 : backlog'[i] \in Queued
      BY <2>2, <3>1 DEF Queued
    <3>6. \A q \in Queued : q # p => \E i \in 1 .. Len(backlog) - 1 : backlog'[i] = q
      BY <2>2, <3>2, <3>3 DEF Queued
    <3>7. Queued' = {backlog'[i] : i \in 1 .. Len(backlog) - 1}
      BY <2>2 DEF Queued
    <3> QED  BY <3>4, <3>5, <3>6, <3>7
  <2>6. Examined' = {p} /\ Examined = {} /\ Accepted' = Accepted
    BY <2>1 DEF Examined, Accepted
  <2>7. \A i, j \in DOMAIN backlog' : backlog'[i] = backlog'[j] => i = j
    BY <2>2, <2>3
  <2>8. {q \in Started' : worker'[q] # "connect"} = Queued' \union Examined' \union Accepted'
    BY <2>1, <2>4, <2>5, <2>6 DEF Connections
  <2>9. \A q \in Started : rootFd'[q] = IF q \in Examined' \union Accepted' THEN "open" ELSE "none"
    BY <2>1, <2>4, <2>6 DEF Connections, TypeOK, Started
  <2>10. Queued' \intersect Examined' = {} /\ Queued' \intersect Accepted' = {}
         /\ Examined' \intersect Accepted' = {}
    BY <2>4, <2>5, <2>6 DEF Connections
  <2>11. Connections'
    BY <2>1, <2>7, <2>8, <2>9, <2>10 DEF Connections
  <2> QED  BY <2>1, <2>6, <2>11 DEF Progress
<1>3. ASSUME root = "examine"
      PROVE  /\ current \in Started /\ current \notin Accepted
             /\ fd[current] = "open" /\ worker[current] # "connect"
             /\ Compatible(RootRecord, identity[current])
             /\ \A p \in Accepted : identity[p].rank # identity[current].rank
  <2>1. current \in Started /\ worker[current] # "connect" /\ current \notin Accepted
    BY <1>3 DEF Connections, Examined
  <2>2. Accepted \subseteq Started
    BY DEF Connections
  <2> QED  BY <2>1, <2>2, StartedRecords DEF Connections
<1>4. ~RootRefuse /\ ~RootGiveUp
  BY <1>3 DEF RootRefuse, RootGiveUp
<1>5. CASE RootAdmit
  <2>1. /\ root = "examine" /\ accepted' = Append(accepted, current) /\ current' = "nobody"
        /\ IF Len(accepted) + 1 = N - 1
           THEN root' = "relay" /\ listener' = "closed"
           ELSE root' = "accept" /\ UNCHANGED listener
        /\ UNCHANGED <<worker, fd, announced, backlog, rootFd, told>>
    BY <1>5 DEF RootAdmit
  <2>2. /\ accepted \in Seq(Processes) /\ Len(accepted) \in Nat
        /\ DOMAIN accepted = 1 .. Len(accepted) /\ DOMAIN accepted' = 1 .. Len(accepted) + 1
        /\ accepted'[Len(accepted) + 1] = current
        /\ \A i \in 1 .. Len(accepted) : accepted'[i] = accepted[i]
    <3>1. accepted \in Seq(Processes) /\ current \in Processes
      BY <2>1 DEF TypeOK, Forming
    <3> QED  BY <2>1, <3>1
  <2>3. Accepted' = Accepted \union {current} /\ Examined' = {} /\ Examined = {current}
        /\ Queued' = Queued
    <3>1. Accepted' = Accepted \union {current}
      BY <2>2 DEF Accepted
    <3> QED  BY <2>1, <3>1 DEF Examined, Queued
  <2>4. Connections'
    BY <2>1, <2>3 DEF Connections
  <2>5. \A p \in Processes : told[p] # {} => Len(accepted) = N - 1
    BY DEF Forming, Relayed
  <2>6. Progress'
    BY <2>1 DEF Progress
  <2> QED  BY <2>4, <2>6
<1>6. CASE RootRelay
  <2>1. PICK p \in Untold : told' = [told EXCEPT ![p] = RelayedTo(p)]
    BY <1>6 DEF RootRelay
  <2>2. /\ root = "relay"
        /\ UNCHANGED <<worker, fd, announced, root, listener, backlog, rootFd, current, accepted>>
    BY <1>6 DEF RootRelay
  <2>3. p \in Started /\ RelayedTo(p) = AllButRank(identity[p].rank)
    BY <2>1, <2>2, AcceptedAll DEF Untold, Forming, Relayed
  <2>4. Connections'
    BY <2>2, ConnectionsStay DEF Examined
  <2>5. Progress'
    BY <2>1, <2>2, <2>3 DEF Progress, TypeOK, Started
  <2> QED  BY <2>4, <2>5
<1>7. ~RootRelayFails
  <2> SUFFICES ASSUME RootRelayFails PROVE FALSE
    OBVIOUS
  <2>1. PICK p \in Untold : fd[p] = "closed"
    BY DEF RootRelayFails
  <2>2. p \in Started /\ worker[p] # "connect"
    BY <2>1 DEF Untold, Connections
  <2> QED  BY <2>1, <2>2 DEF Connections
<1>8. CASE RootJoin
  <2>1. /\ root = "relay" /\ Untold = {}
        /\ UNCHANGED <<worker, fd, announced, listener, backlog, current, accepted, told>>
    BY <1>8 DEF RootJoin
  <2>2. WorldComplete(RootRecord, {identity[p] : p \in Accepted})
    <3>1. RootRecord = Member(0) /\ 0 \in 0 .. N - 1
      BY WorldAssumption DEF RootRecord, Member
    <3>2. {identity[p] : p \in Accepted} = AllButRank(0)
      BY <2>1, AcceptedAll DEF Forming, Relayed
    <3> QED  BY <3>1, <3>2, WorldOfTheOthers
  <2>3. root' = "ready" /\ rootFd' = rootFd
    BY <1>8, <2>2 DEF RootJoin
  <2>4. Connections'
    BY <2>1, <2>3, ConnectionsStay DEF Examined
  <2>5. \A p \in Accepted' : told'[p] # {}
    BY <2>1 DEF Untold, Accepted
  <2>6. Progress'
    BY <2>1, <2>3, <2>5 DEF Progress
  <2> QED  BY <2>4, <2>6
<1> QED  BY <1>1, <1>2, <1>4, <1>5, <1>6, <1>7, <1>8 DEF RootStep

\* Nobody who was left alone ever waits for somebody who waits for him.
LEMMA SomebodyCanStep ==
    ASSUME IInv, Calm, Connections, Progress
    PROVE  \/ root = "ready" /\ Joined = Started
           \/ RootCanStep
           \/ \E p \in Started : WorkerCanStep(p)
<1> SUFFICES ASSUME ~RootCanStep, \A p \in Started : ~WorkerCanStep(p)
             PROVE  root = "ready" /\ Joined = Started
  OBVIOUS
<1>1. \A p \in Started : /\ worker[p] \in {"connect", "await", "ready"}
                         /\ worker[p] = "connect" => listener # "open"
                         /\ worker[p] # "connect" => p \in announced /\ fd[p] = "open"
  <2> TAKE p \in Started
  <2>1. worker[p] \in {"connect", "announce", "await", "ready", "raised", "dead"}
    BY DEF IInv, TypeOK, Started
  <2>2. worker[p] # "dead" /\ worker[p] # "raised"
    BY DEF Started, Progress
  <2>3. worker[p] # "announce" /\ (worker[p] = "connect" => listener # "open")
    BY DEF WorkerCanStep
  <2> QED  BY <2>1, <2>2, <2>3 DEF Progress, Connections
<1>2. root \notin {"bind", "relay", "raised"}
  BY DEF RootCanStep, Progress
<1>3. root # "examine"
  BY <1>1 DEF RootCanStep, Connections, Examined
<1>4. root # "accept"
  <2> SUFFICES ASSUME root = "accept" PROVE FALSE
    OBVIOUS
  <2>1. listener = "open" /\ backlog = <<>> /\ Examined = {}
    BY DEF Progress, RootCanStep, Examined
  <2>2. Queued = {}
    BY <2>1 DEF Queued
  <2>3. Started = Accepted
    BY <1>1, <2>1, <2>2 DEF Connections
  <2>4. Cardinality(Accepted) <= Len(accepted) /\ Len(accepted) < N - 1
    <3>1. Len(accepted) \in Nat /\ accepted \in [1 .. Len(accepted) -> Accepted]
      BY DEF IInv, TypeOK, Accepted
    <3>2. accepted \in Surjection(1 .. Len(accepted), Accepted)
      BY <3>1 DEF Surjection, Accepted
    <3>3. IsFiniteSet(1 .. Len(accepted)) /\ Cardinality(1 .. Len(accepted)) = Len(accepted)
      <4>1. 1 \in Int /\ Len(accepted) \in Int
        BY <3>1
      <4>2. /\ IsFiniteSet(1 .. Len(accepted))
            /\ Cardinality(1 .. Len(accepted)) =
                 IF 1 > Len(accepted) THEN 0 ELSE Len(accepted) - 1 + 1
        BY <4>1, FS_Interval
      <4> QED  BY <3>1, <4>2
    <3> QED  BY <3>2, <3>3, FS_Surjection DEF IInv, Forming, Relayed
  <2>5. Cardinality(Started) = N - 1
    BY DEF Calm, WholeWorldStarted
  <2> QED  BY <2>3, <2>4, <2>5, WorldAssumption DEF IInv, TypeOK
<1>5. root = "ready"
  BY <1>2, <1>3, <1>4 DEF IInv, TypeOK
<1>6. \A p \in Started : told[p] = AllButRank(identity[p].rank) /\ worker[p] # "connect"
  <2>1. Accepted = Started
    BY <1>5, AcceptedAll DEF IInv, Forming, Relayed
  <2> QED  BY <1>5, <2>1 DEF Progress, Connections
<1>7. ASSUME NEW p \in Started PROVE worker[p] = "ready"
  <2>1. identity[p].rank \in 0 .. N - 1 /\ identity[p] = Member(identity[p].rank)
    BY StartedRecords DEF IInv
  <2>2. identity[p].world = N
    BY <2>1 DEF Member, RootRecord
  <2>3. Cardinality(told[p]) = identity[p].world - 1
    BY <1>6, <2>1, <2>2, WorldOfTheOthers
  <2>4. worker[p] # "await"
    BY <2>3 DEF WorkerCanStep
  <2> QED  BY <1>1, <1>6, <2>4
<1> QED  BY <1>5, <1>7 DEF Joined, Started

\* A whole world starts undisturbed.
LEMMA InitUndisturbed == Init => Undisturbed
<1> SUFFICES ASSUME Init PROVE Connections /\ Progress
  BY DEF Undisturbed
<1>1. Queued = {} /\ Examined = {} /\ Accepted = {}
  BY DEF Init, Queued, Examined, Accepted
<1>2. \A p \in Started : p \in Processes /\ worker[p] = "connect"
  BY DEF Init, Started
<1>3. Connections
  BY <1>1, <1>2 DEF Init, Connections
<1>4. Progress
  BY <1>1, <1>2 DEF Init, Progress
<1> QED  BY <1>3, <1>4

\* Until a deadline passes, a whole world stays undisturbed.
LEMMA StepUndisturbed == IInv /\ Undisturbed /\ [Next]_vars => Undisturbed'
<1> SUFFICES ASSUME IInv, Undisturbed, [Next]_vars, Calm'
             PROVE  Connections' /\ Progress'
  BY DEF Undisturbed
<1>1. /\ Calm /\ UNCHANGED <<identity, late, crashes>> /\ Started' = Started
      /\ \A p \in Processes : ~WorkerTimeout(p) /\ ~Crash(p)
      /\ ~RootTimeout
  BY CalmBefore
<1>2. Connections /\ Progress /\ ~late
  BY <1>1 DEF Undisturbed, Calm
<1>3. ASSUME NEW p \in Processes, WorkerStep(p) \/ Crash(p) PROVE Connections' /\ Progress'
  BY <1>1, <1>2, <1>3, WorkerUndisturbed DEF WorkerStep
<1>4. CASE RootStep
  BY <1>1, <1>2, <1>4, RootUndisturbed
<1>5. CASE UNCHANGED vars
  BY <1>1, <1>2, <1>5
     DEF vars, Connections, Progress, Queued, Examined, Accepted, Started
<1> QED  BY <1>3, <1>4, <1>5 DEF Next

\* However the ranks of a world start and connect, and however many of them, if
\* nobody else comes, nobody is killed and no deadline passes, nobody raises and
\* until everyone has joined somebody has a step to take.
THEOREM WholeWorldsJoin == Spec => []EveryoneJoins
<1>1. Init => Undisturbed
  BY InitUndisturbed
<1>2. IInv /\ Undisturbed /\ [Next]_vars => Undisturbed'
  BY StepUndisturbed
<1>3. IInv /\ Undisturbed => EveryoneJoins
  <2> SUFFICES ASSUME IInv, Undisturbed, Calm
               PROVE  /\ root # "raised" /\ \A p \in Started : worker[p] # "raised"
                      /\ \/ root = "ready" /\ Joined = Started
                         \/ RootCanStep
                         \/ \E p \in Started : WorkerCanStep(p)
    BY DEF EveryoneJoins, Calm
  <2> QED  BY SomebodyCanStep DEF Undisturbed, Progress
<1> QED  BY <1>1, <1>2, <1>3, Invariance, PTL DEF Spec
=============================================================================
