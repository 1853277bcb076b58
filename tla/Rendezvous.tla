------------------------------ MODULE Rendezvous ------------------------------
(***************************************************************************)
(* How a world forms: connect_world and open_socket_collective of          *)
(* distributed_transport.mojo.  The root listens, accepts world_size - 1   *)
(* connections in the order they arrive, reads what each announces, and,   *)
(* if all are compatible and distinct, sends every one of them the records *)
(* of the others; a worker connects (retrying a refusal), announces itself *)
(* and checks what the root relays.  A session is opened over the result.  *)
(*                                                                         *)
(* A process is whatever was started with this machine list: it may be a   *)
(* rank of this run, or a leftover of an earlier one that announces an     *)
(* older epoch, another job, world, schema or version, or a rank twice.    *)
(* Every process has its own connect deadline, which may pass at any time; *)
(* some may be killed, and some never started.                             *)
(***************************************************************************)
EXTENDS Integers, Sequences, FiniteSets

CONSTANTS
    N,             \* world_size of the root's spec
    Processes,     \* the processes that were started besides the root
    Worlds,        \* [process -> the record it announces], one per scenario
    MaxCrashes     \* bound on the processes killed from outside

ASSUME WorldAssumption == N \in Nat /\ N >= 2
ASSUME ProcessAssumption == IsFiniteSet(Processes) /\ MaxCrashes \in Nat

\* A HandshakeRecord.
Record == [version: Nat, job: Nat, world: Nat, rank: Nat, schema: Nat, epoch: Nat]

\* A worker connects with a spec it validated: a rank of a world of two or more,
\* and not its root.
ASSUME WorldsAssumption ==
    /\ Worlds \subseteq [Processes -> Record]
    /\ \A w \in Worlds, p \in Processes :
          w[p].world >= 2 /\ w[p].rank \in 1 .. w[p].world - 1

\* What the root was configured with.
RootRecord == [version |-> 1, job |-> 0, world |-> N, rank |-> 0, schema |-> 0,
               epoch |-> 1]

VARIABLES
    identity,      \* [process -> the record it announces]
    worker,        \* [process -> where _worker_rendezvous is]
    fd,            \* [process -> its descriptor: "none", "open", "closed"]
    announced,     \* the processes whose record is on the wire
    root,          \* where _root_rendezvous is
    listener,      \* "none", "open", "closed"
    backlog,       \* connections the kernel completed, not yet accepted
    rootFd,        \* [process -> the root's descriptor of its connection]
    current,       \* the connection being examined, or "nobody"
    accepted,      \* the processes accepted, in arrival order
    told,          \* [process -> the records the root relayed to it]
    late,          \* history: whether a deadline has passed
    crashes        \* processes killed so far

vars == <<identity, worker, fd, announced, root, listener, backlog, rootFd,
          current, accepted, told, late, crashes>>

-----------------------------------------------------------------------------
\* Mutant: the epoch is not compared.
HandshakeStatusNoEpoch(local, other) ==
    IF other.version # local.version THEN "schema"
    ELSE IF other.job # local.job THEN "job"
    ELSE IF \/ other.world # local.world
            \/ other.rank < 0 \/ other.rank >= local.world
            \/ other.rank = local.rank
         THEN "world"
    ELSE IF other.schema # local.schema THEN "schema"
    ELSE "ok"

\* handshake_status: the first field that differs names the code.
HandshakeStatus(local, other) ==
    IF other.version # local.version THEN "schema"
    ELSE IF other.job # local.job THEN "job"
    ELSE IF \/ other.world # local.world
            \/ other.rank < 0 \/ other.rank >= local.world
            \/ other.rank = local.rank
         THEN "world"
    ELSE IF other.schema # local.schema \/ other.epoch # local.epoch
         THEN "schema"
    ELSE "ok"

Compatible(local, other) == HandshakeStatus(local, other) = "ok"

\* complete_handshake: one compatible record per peer, all ranks distinct.
WorldComplete(local, records) ==
    /\ Cardinality(records) = local.world - 1
    /\ \A r \in records : Compatible(local, r)
    /\ \A r, o \in records : r # o => r.rank # o.rank

Init ==
    /\ identity \in Worlds
    /\ worker \in [Processes -> {"connect", "dead"}]   \* dead: never started
    /\ fd = [p \in Processes |-> "none"]
    /\ announced = {}
    /\ root = "bind"
    /\ listener = "none"
    /\ backlog = <<>>
    /\ rootFd = [p \in Processes |-> "none"]
    /\ current = "nobody"
    /\ accepted = <<>>
    /\ told = [p \in Processes |-> {}]
    /\ late = FALSE
    /\ crashes = 0

-----------------------------------------------------------------------------
\* The worker.

\* connect_to_root succeeds once the root listens; a refusal is retried, which
\* is no step here.
WorkerConnect(p) ==
    /\ worker[p] = "connect"
    /\ listener = "open"
    /\ backlog' = Append(backlog, p)
    /\ fd' = [fd EXCEPT ![p] = "open"]
    /\ worker' = [worker EXCEPT ![p] = "announce"]
    /\ UNCHANGED <<identity, announced, root, listener, rootFd, current, accepted,
                   told, late, crashes>>

\* The root's side of p's connection is gone: closed by it, or reset with the
\* listener before it was accepted.
Dropped(p) ==
    \/ rootFd[p] = "closed"
    \/ rootFd[p] = "none" /\ listener = "closed"

WorkerRaise(p) ==
    /\ worker' = [worker EXCEPT ![p] = "raised"]
    /\ fd' = [fd EXCEPT ![p] = IF @ = "open" THEN "closed" ELSE @]

WorkerAnnounce(p) ==
    /\ worker[p] = "announce"
    /\ \/ /\ announced' = announced \union {p}
          /\ worker' = [worker EXCEPT ![p] = "await"]
          /\ UNCHANGED fd
       \/ /\ Dropped(p)
          /\ WorkerRaise(p)
          /\ UNCHANGED announced
    /\ UNCHANGED <<identity, root, listener, backlog, rootFd, current, accepted,
                   told, late, crashes>>

\* The relayed records arrived: each is checked, and the session handshakes.
WorkerJoin(p) ==
    /\ worker[p] = "await"
    /\ Cardinality(told[p]) = identity[p].world - 1
    /\ \/ /\ WorldComplete(identity[p], told[p])
          /\ worker' = [worker EXCEPT ![p] = "ready"]
          /\ UNCHANGED fd
       \/ /\ ~WorldComplete(identity[p], told[p])
          /\ WorkerRaise(p)
    /\ UNCHANGED <<identity, announced, root, listener, backlog, rootFd, current,
                   accepted, told, late, crashes>>

\* The stream ended before every record arrived.
WorkerLost(p) ==
    /\ worker[p] = "await"
    /\ Cardinality(told[p]) < identity[p].world - 1
    /\ Dropped(p)
    /\ WorkerRaise(p)
    /\ UNCHANGED <<identity, announced, root, listener, backlog, rootFd, current,
                   accepted, told, late, crashes>>

\* Mutant: only the connection attempt is bounded, the read is not.
WorkerTimeoutConnecting(p) ==
    /\ worker[p] = "connect"
    /\ WorkerRaise(p)
    /\ late' = TRUE
    /\ UNCHANGED <<identity, announced, root, listener, backlog, rootFd, current,
                   accepted, told, crashes>>

\* Out of time, before or after the connection was made.
WorkerTimeout(p) ==
    /\ worker[p] \in {"connect", "announce", "await"}
    /\ WorkerRaise(p)
    /\ late' = TRUE
    /\ UNCHANGED <<identity, announced, root, listener, backlog, rootFd, current,
                   accepted, told, crashes>>

-----------------------------------------------------------------------------
\* The root.

RootListen ==
    /\ root = "bind"
    /\ listener' = "open"
    /\ root' = "accept"
    /\ UNCHANGED <<identity, worker, fd, announced, backlog, rootFd, current,
                   accepted, told, late, crashes>>

\* accept_one.
RootAccept ==
    /\ root = "accept"
    /\ backlog # <<>>
    /\ current' = Head(backlog)
    /\ backlog' = Tail(backlog)
    /\ rootFd' = [rootFd EXCEPT ![Head(backlog)] = "open"]
    /\ root' = "examine"
    /\ UNCHANGED <<identity, worker, fd, announced, listener, accepted, told,
                   late, crashes>>

Accepted == {accepted[i] : i \in DOMAIN accepted}

\* The exception path of the accept loop: the listener and the connections in
\* `accepted` are closed; the one being examined is not among them.
RootAbandon ==
    /\ root' = "raised"
    /\ listener' = "closed"
    /\ rootFd' = [p \in Processes |->
                    IF p \in Accepted THEN "closed" ELSE rootFd[p]]

\* The current connection announced a record the root can join: remember it,
\* and stop listening after the last one.
RootAdmit ==
    LET record == identity[current]
    IN  /\ root = "examine"
        /\ current \in announced
        /\ Compatible(RootRecord, record)
        /\ \A p \in Accepted : identity[p].rank # record.rank
        /\ accepted' = Append(accepted, current)
        /\ current' = "nobody"
        /\ IF Len(accepted) + 1 = N - 1
           THEN root' = "relay" /\ listener' = "closed"
           ELSE root' = "accept" /\ UNCHANGED listener
        /\ UNCHANGED <<identity, worker, fd, announced, backlog, rootFd, told,
                       late, crashes>>

\* It announced another world, or a rank that is taken: the run is over.
RootRefuse ==
    LET record == identity[current]
    IN  /\ root = "examine"
        /\ current \in announced
        /\ \/ ~Compatible(RootRecord, record)
           \/ \E p \in Accepted : identity[p].rank = record.rank
        /\ RootAbandon
        /\ UNCHANGED <<identity, worker, fd, announced, backlog, current, accepted,
                       told, late, crashes>>

\* It went away before it announced anything.
RootGiveUp ==
    /\ root = "examine"
    /\ current \notin announced
    /\ fd[current] = "closed"
    /\ RootAbandon
    /\ UNCHANGED <<identity, worker, fd, announced, backlog, current, accepted,
                   told, late, crashes>>

\* The root ran out of time: not everybody came, or announced himself.
RootTimeout ==
    /\ root \in {"accept", "examine"}
    /\ RootAbandon
    /\ late' = TRUE
    /\ UNCHANGED <<identity, worker, fd, announced, backlog, current, accepted,
                   told, crashes>>

\* Mutant: a peer is sent its own record with the others.
RelayedToOwnToo(p) == {RootRecord} \union {identity[q] : q \in Accepted}

\* What a peer is sent: the root's record and those of the other peers.
RelayedTo(p) == {RootRecord} \union {identity[q] : q \in Accepted \ {p}}

Untold == {p \in Accepted : told[p] = {}}

\* Relay to the peers in rank order.
RootRelay ==
    /\ root = "relay"
    /\ Untold # {}
    /\ \E p \in Untold :
          /\ \A q \in Untold : identity[p].rank <= identity[q].rank
          /\ told' = [told EXCEPT ![p] = RelayedTo(p)]
    /\ UNCHANGED <<identity, worker, fd, announced, root, listener, backlog,
                   rootFd, current, accepted, late, crashes>>

\* A write failed: a peer is gone, or time is up.
RootRelayFails ==
    /\ root = "relay"
    /\ Untold # {}
    /\ \/ (\E p \in Untold : fd[p] = "closed") /\ UNCHANGED late
       \/ late' = TRUE
    /\ root' = "raised"
    /\ rootFd' = [p \in Processes |->
                    IF p \in Accepted THEN "closed" ELSE rootFd[p]]
    /\ UNCHANGED <<identity, worker, fd, announced, listener, backlog, current,
                   accepted, told, crashes>>

\* open_transport_collective over the peers in rank order.
RootJoin ==
    /\ root = "relay"
    /\ Untold = {}
    /\ LET records == {identity[p] : p \in Accepted}
       IN  IF WorldComplete(RootRecord, records)
           THEN root' = "ready" /\ UNCHANGED rootFd
           ELSE /\ root' = "raised"
                /\ rootFd' = [p \in Processes |->
                                IF p \in Accepted THEN "closed" ELSE rootFd[p]]
    /\ UNCHANGED <<identity, worker, fd, announced, listener, backlog, current,
                   accepted, told, late, crashes>>

-----------------------------------------------------------------------------
\* The environment: a process is killed.
Crash(p) ==
    /\ crashes < MaxCrashes
    /\ worker[p] \notin {"raised", "dead"}
    /\ crashes' = crashes + 1
    /\ worker' = [worker EXCEPT ![p] = "dead"]
    /\ fd' = [fd EXCEPT ![p] = IF @ = "open" THEN "closed" ELSE @]
    /\ UNCHANGED <<identity, announced, root, listener, backlog, rootFd, current,
                   accepted, told, late>>

WorkerStep(p) ==
    \/ WorkerConnect(p) \/ WorkerAnnounce(p) \/ WorkerJoin(p) \/ WorkerLost(p)
    \/ WorkerTimeout(p)

RootStep ==
    \/ RootListen \/ RootAccept \/ RootAdmit \/ RootRefuse \/ RootGiveUp
    \/ RootTimeout \/ RootRelay \/ RootRelayFails \/ RootJoin

Next ==
    \/ \E p \in Processes : WorkerStep(p) \/ Crash(p)
    \/ RootStep

Spec == Init /\ [][Next]_vars

\* Every process runs, and every monotonic clock reaches its deadline.
FairSpec ==
    /\ Spec
    /\ WF_vars(RootStep)
    /\ \A p \in Processes : WF_vars(WorkerStep(p))

-----------------------------------------------------------------------------
TypeOK ==
    /\ identity \in Worlds
    /\ worker \in [Processes -> {"connect", "announce", "await", "ready",
                                 "raised", "dead"}]
    /\ fd \in [Processes -> {"none", "open", "closed"}]
    /\ rootFd \in [Processes -> {"none", "open", "closed"}]
    /\ announced \subseteq Processes
    /\ root \in {"bind", "accept", "examine", "relay", "ready", "raised"}
    /\ listener \in {"none", "open", "closed"}
    /\ backlog \in Seq(Processes)
    /\ current \in Processes \union {"nobody"}
    /\ accepted \in Seq(Processes)
    /\ told \in [Processes -> SUBSET Record]
    /\ late \in BOOLEAN
    /\ crashes \in 0 .. MaxCrashes

\* The ranks a session was opened for.
Joined == {p \in Processes : worker[p] = "ready"}

\* No session is opened in a world that is not whole: when any process, the
\* root included, is ready, the root has accepted exactly one process for every
\* rank, each of its own run, world and epoch, whatever the order they arrived
\* in and whoever was left over from another run and connected as well.
JoinedWorldIsWhole ==
    (Joined # {} \/ root = "ready") =>
        /\ Joined \subseteq Accepted
        /\ Cardinality(Accepted) = N - 1
        /\ {identity[p] : p \in Accepted} =
             {[RootRecord EXCEPT !.rank = r] : r \in 1 .. N - 1}

\* open_socket_collective: a rendezvous that failed leaves nothing open, so the
\* process that was refused "is told over the connection it opened".  Does not
\* hold: the connection being examined is in no list that is closed.
RefusalClosesTheConnection ==
    root = "raised" => \A p \in Processes : rootFd[p] # "open"

\* Deadlines bound the whole rendezvous: nobody waits in it for ever.
NobodyWaitsForever ==
    /\ <>(root \in {"ready", "raised"})
    /\ \A p \in Processes : <>(worker[p] \in {"ready", "raised", "dead"})

\* What somebody who is still in the rendezvous can do before his deadline: the
\* guards of the steps above, the timeouts left out.
RootCanStep ==
    \/ root \in {"bind", "relay"}
    \/ root = "accept" /\ backlog # <<>>
    \/ root = "examine" /\ (current \in announced \/ fd[current] = "closed")

WorkerCanStep(p) ==
    LET relayed == Cardinality(told[p])
        awaited == identity[p].world - 1
    IN  \/ worker[p] = "connect" /\ listener = "open"
        \/ worker[p] = "announce"
        \/ worker[p] = "await" /\ relayed = awaited
        \/ worker[p] = "await" /\ relayed < awaited /\ Dropped(p)

\* When exactly the ranks of the world were started and none is killed, they
\* need no deadline to end: whatever the order they start and connect in, until
\* everyone has joined somebody has a step to take, and nobody raises.
Started == {p \in Processes : worker[p] # "dead"}

WholeWorldStarted ==
    /\ Cardinality(Started) = N - 1
    /\ \A p \in Started : Compatible(RootRecord, identity[p])
    /\ \A p, q \in Started : p # q => identity[p].rank # identity[q].rank

EveryoneJoins ==
    WholeWorldStarted /\ crashes = 0 /\ ~late =>
        /\ root # "raised" /\ \A p \in Started : worker[p] # "raised"
        /\ \/ root = "ready" /\ Joined = Started
           \/ RootCanStep
           \/ \E p \in Started : WorkerCanStep(p)
=============================================================================
