------------------------- MODULE TransportCollective -------------------------
(***************************************************************************)
(* A world of N processes running TransportCollective over SocketEndpoint: *)
(* gather at rank 0 in ascending rank order, broadcast back, one blocking  *)
(* driver per rank, one TCP connection per worker.  Each rank issues the   *)
(* collectives of its schedule one after the other, then shuts down;       *)
(* an error stops it at once and it shuts down too (run_distributed).      *)
(*                                                                         *)
(* The environment may, Faults permitting and MaxFaults times in all, kill *)
(* a process, cut it off, corrupt or duplicate a frame on the wire (the    *)
(* endpoint contract forbids it, "framing detects violations"), or cancel  *)
(* a session; and time may pass while a rank is inside a collective.       *)
(*                                                                         *)
(* Abstracted: a frame is sent and received whole (a torn frame is an end  *)
(* of stream or a timeout to the reader, as in the code), and a buffer is  *)
(* the sequence of the contributions folded into it.                       *)
(***************************************************************************)
EXTENDS SessionState, Sequences

CONSTANTS
    Schedules,    \* the sequences of calls a rank may be programmed with
    Faults,       \* which faults the environment may cause
    MaxFaults     \* bound on their number

FaultKinds == {"crash", "vanish", "corrupt", "duplicate", "cancel", "slow"}

ASSUME FaultAssumption == Faults \subseteq FaultKinds /\ MaxFaults \in Nat
ASSUME ScheduleAssumption ==
    Schedules \subseteq Seq([op: Ops, n: 0 .. MaxElements, epoch: BOOLEAN])

\* barrier() takes no buffer: it begins a collective of no elements.
ASSUME BarrierAssumption ==
    \A s \in Schedules : \A k \in DOMAIN s : s[k].op = "barrier" => s[k].n = 0

VARIABLES
    schedule,     \* [rank -> its calls]
    session,      \* [rank -> TransportSession]
    clock,        \* [rank -> ticks since its last begin], its own clock
    pc,           \* [rank -> where the blocking driver is]
    peer,         \* [rank -> the peer its gather or broadcast loop is at]
    buf,          \* [rank -> the buffer of the call in flight]
    calls,        \* [rank -> how many calls it entered]
    results,      \* history: [rank -> the results returned to the caller]
    wire,         \* [<<from, to>> -> frames sent and not yet read]
    live,         \* the endpoints <<rank, peer>> with live = True
    fds,          \* the endpoints whose descriptor is open
    faults        \* faults caused so far

vars == <<schedule, session, clock, pc, peer, buf, calls, results, wire, live,
          fds, faults>>

Workers == Ranks \ {Root}

\* The star: one connection between the root and every worker.
Links == {<<Root, w>> : w \in Workers} \union {<<w, Root>> : w \in Workers}

Peers(r) == IF r = Root THEN Workers ELSE {Root}
FirstPeer(r) == IF r = Root THEN 1 ELSE Root

PCs == {"idle", "recv", "wait", "send", "finish", "epoch", "raised",
        "returned", "stopped", "dead"}

\* The ranks whose driver has not left the training loop.
Running(r) == pc[r] \notin {"raised", "returned", "stopped", "dead"}

Call(r) == schedule[r][calls[r]]

Contribution(r, k) == [rank |-> r, call |-> k]

\* Mutant: the buffer of the previous call is sent again.
PayloadStale(r, k) ==
    IF schedule[r][k].op = "barrier" THEN <<>> ELSE <<Contribution(r, k - 1)>>

\* A barrier's payload is empty.
Payload(r, k) ==
    IF schedule[r][k].op = "barrier" THEN <<>> ELSE <<Contribution(r, k)>>

Init ==
    /\ schedule \in [Ranks -> Schedules]
    /\ session = [r \in Ranks |->
                    CompleteHandshake(NewSession(r, 0), "ok", Root).session]
    /\ clock = [r \in Ranks |-> 0]
    /\ pc = [r \in Ranks |-> "idle"]
    /\ peer = [r \in Ranks |-> FirstPeer(r)]
    /\ buf = [r \in Ranks |-> <<>>]
    /\ calls = [r \in Ranks |-> 0]
    /\ results = [r \in Ranks |-> <<>>]
    /\ wire = [l \in Links |-> <<>>]
    /\ live = Links
    /\ fds = Links
    /\ faults = 0

-----------------------------------------------------------------------------
Goto(r, label) == pc' = [pc EXCEPT ![r] = label]
SetSession(r, s) == session' = [session EXCEPT ![r] = s]

\* The call raised: the error leaves the driver with the session it left.
Raised(r, s) == SetSession(r, s) /\ Goto(r, "raised")

\* Mutant: the loops over the peers stop one short.
LastPeerEarly(r, q) == r # Root \/ q >= N - 2

\* The loops `for i in range(len(self.peers))`, peers[i] being rank i + 1.
LastPeer(r, q) == r # Root \/ q = N - 1

\* reduce_into_f64 and reduce_into_int: fold one more contribution.
Fold(acc, payload) == acc \o payload

\* Enter the next collective: begin, then the first step of the role.
StartCall(r) ==
    /\ pc[r] = "idle"
    /\ calls[r] < Len(schedule[r])
    /\ LET k == calls[r] + 1
           b == Begin(session[r], schedule[r][k].op, schedule[r][k].n, 0)
       IN  /\ clock' = [clock EXCEPT ![r] = 0]
           /\ \/ b.raised /\ Raised(r, b.session) /\ UNCHANGED <<peer, buf, calls>>
              \/ /\ ~b.raised
                 /\ SetSession(r, b.session)
                 /\ Goto(r, IF r = Root THEN "recv" ELSE "send")
                 /\ peer' = [peer EXCEPT ![r] = FirstPeer(r)]
                 /\ buf' = [buf EXCEPT ![r] = Payload(r, k)]
                 /\ calls' = [calls EXCEPT ![r] = k]
    /\ UNCHANGED <<schedule, results, wire, live, fds, faults>>

\* _recv_from up to the blocking read.
EnterRecv(r) ==
    /\ pc[r] = "recv"
    /\ LET d == CheckDeadline(session[r], clock[r])
       IN  \/ d.raised /\ Raised(r, d.session)
           \/ ~d.raised /\ Goto(r, "wait") /\ UNCHANGED session
    /\ UNCHANGED <<schedule, clock, peer, buf, calls, results, wire, live, fds,
                   faults>>

\* The read returned a frame: decode it, validate it, and fold it into the
\* root's buffer or adopt it as the worker's result.  decode_frame raises
\* without telling the session.
Receive(r) ==
    LET q == peer[r]
        l == <<q, r>>
        f == Head(wire[l])
        v == Validate(session[r], f.header, IF r = Root THEN "contrib" ELSE "result", q)
    IN  /\ pc[r] = "wait"
        /\ wire[l] # <<>>
        /\ wire' = [wire EXCEPT ![l] = Tail(@)]
        /\ \/ /\ f.corrupt
              /\ Goto(r, "raised")
              /\ UNCHANGED <<session, peer, buf>>
           \/ /\ ~f.corrupt /\ v.raised
              /\ Raised(r, v.session)
              /\ UNCHANGED <<peer, buf>>
           \/ /\ ~f.corrupt /\ ~v.raised /\ r = Root
              /\ buf' = [buf EXCEPT ![r] = Fold(@, f.payload)]
              /\ peer' = [peer EXCEPT ![r] = IF LastPeer(r, q) THEN FirstPeer(r)
                                             ELSE q + 1]
              /\ Goto(r, IF LastPeer(r, q) THEN "send" ELSE "recv")
              /\ SetSession(r, v.session)
           \/ /\ ~f.corrupt /\ ~v.raised /\ r # Root
              /\ buf' = [buf EXCEPT ![r] = f.payload]
              /\ Goto(r, "finish")
              /\ SetSession(r, v.session)
              /\ UNCHANGED peer
        /\ UNCHANGED <<schedule, clock, calls, results, live, fds, faults>>

\* The peer's end of the connection is closed.
Hung(l) == <<l[2], l[1]>> \notin fds

\* The read met the end of the stream: the endpoint goes dead, mark_lost
\* records the peer, the error is re-raised.
RecvLost(r) ==
    LET q == peer[r]
    IN  /\ pc[r] = "wait"
        /\ wire[<<q, r>>] = <<>>
        /\ Hung(<<r, q>>)
        /\ live' = live \ {<<r, q>>}
        /\ Raised(r, MarkLost(session[r], q).session)
        /\ UNCHANGED <<schedule, clock, peer, buf, calls, results, wire, fds,
                       faults>>

\* Mutant: the read is armed with no timeout.
RecvForever(r) == FALSE /\ UNCHANGED vars

\* The deadline passed inside the read.  The endpoint stays live; mark_lost
\* records the peer all the same.
RecvTimeout(r) ==
    /\ pc[r] = "wait"
    /\ clock[r] > session[r].deadline
    /\ Raised(r, MarkLost(session[r], peer[r]).session)
    /\ UNCHANGED <<schedule, clock, peer, buf, calls, results, wire, live, fds,
                   faults>>

\* _send_to: the write succeeds, into a connection the peer may have closed.
Send(r) ==
    LET q == peer[r]
        l == <<r, q>>
        d == CheckDeadline(session[r], clock[r])
        frame == [header |-> HeaderOf(session[r], IF r = Root THEN "result" ELSE "contrib"),
                  payload |-> buf[r], corrupt |-> FALSE]
    IN  /\ pc[r] = "send"
        /\ \/ /\ d.raised
              /\ Raised(r, d.session)
              /\ UNCHANGED <<wire, peer>>
           \/ /\ ~d.raised
              /\ wire' = [wire EXCEPT ![l] = IF Hung(l) THEN @ ELSE Append(@, frame)]
              /\ peer' = [peer EXCEPT ![r] = IF LastPeer(r, q) THEN @ ELSE q + 1]
              /\ Goto(r, IF r # Root THEN "recv"
                         ELSE IF LastPeer(r, q) THEN "finish" ELSE "send")
              /\ UNCHANGED session
        /\ UNCHANGED <<schedule, clock, buf, calls, results, live, fds, faults>>

\* The write fails: the peer closed the connection, or the frame did not
\* drain before the deadline (the endpoint stays live then).
SendLost(r) ==
    LET q == peer[r]
    IN  /\ pc[r] = "send"
        /\ clock[r] <= session[r].deadline
        /\ \/ Hung(<<r, q>>) /\ live' = live \ {<<r, q>>} /\ UNCHANGED clock
           \/ /\ "slow" \in Faults
              /\ clock' = [clock EXCEPT ![r] = session[r].deadline + 1]
              /\ UNCHANGED live
        /\ Raised(r, MarkLost(session[r], q).session)
        /\ UNCHANGED <<schedule, peer, buf, calls, results, wire, fds, faults>>

\* finish, and the buffer goes back to the caller.
FinishCall(r) ==
    LET f == Finish(session[r])
    IN  /\ pc[r] = "finish"
        /\ \/ f.raised /\ Raised(r, f.session) /\ UNCHANGED results
           \/ /\ ~f.raised
              /\ SetSession(r, f.session)
              /\ results' = [results EXCEPT ![r] = Append(@, buf[r])]
              /\ Goto(r, IF Call(r).epoch THEN "epoch" ELSE "idle")
        /\ UNCHANGED <<schedule, clock, peer, buf, calls, wire, live, fds, faults>>

\* Mutant: only the root renumbers.
OpenEpochAtRoot(r) ==
    /\ pc[r] = "epoch"
    /\ IF r = Root THEN SetSession(r, NextEpoch(session[r]).session)
       ELSE UNCHANGED session
    /\ Goto(r, "idle")
    /\ UNCHANGED <<schedule, clock, peer, buf, calls, results, wire, live,
                   fds, faults>>

\* checkpoint_boundary: next_epoch after its barrier.
OpenEpoch(r) ==
    LET e == NextEpoch(session[r])
    IN  /\ pc[r] = "epoch"
        /\ SetSession(r, e.session)
        /\ Goto(r, IF e.raised THEN "raised" ELSE "idle")
        /\ UNCHANGED <<schedule, clock, peer, buf, calls, results, wire, live,
                       fds, faults>>

\* The schedule is over and the run returns its model.
ReturnModel(r) ==
    /\ pc[r] = "idle"
    /\ calls[r] = Len(schedule[r])
    /\ Goto(r, "returned")
    /\ UNCHANGED <<schedule, session, clock, peer, buf, calls, results, wire,
                   live, fds, faults>>

\* Closing an end with frames still unread resets the connection, and the
\* frames the other side has not read yet may be lost with it.
Unread(r) == {q \in Peers(r) : wire[<<q, r>>] # <<>>}
CloseEnds(r, ends) ==
    \E lost \in SUBSET (Unread(r) \intersect {l[2] : l \in ends}) :
        wire' = [l \in Links |->
                   IF l[2] = r /\ <<r, l[1]>> \in ends THEN <<>>
                   ELSE IF l[1] = r /\ l[2] \in lost THEN <<>>
                   ELSE wire[l]]

\* shutdown: SocketEndpoint.close closes the descriptor of a live endpoint
\* and returns early from a dead one.
Shutdown(r) ==
    LET mine == {l \in live : l[1] = r}
    IN  /\ pc[r] \in {"raised", "returned"}
        /\ live' = live \ mine
        /\ fds' = fds \ mine
        /\ CloseEnds(r, mine)
        /\ SetSession(r, Close(session[r]))
        /\ Goto(r, "stopped")
        /\ UNCHANGED <<schedule, clock, peer, buf, calls, results, faults>>

-----------------------------------------------------------------------------
Fault(kind) ==
    /\ kind \in Faults
    /\ faults < MaxFaults
    /\ faults' = faults + 1

\* The process dies and its kernel closes its sockets.
Crash(r) ==
    LET mine == {l \in fds : l[1] = r}
    IN  /\ Fault("crash")
        /\ pc[r] \notin {"stopped", "dead"}
        /\ live' = live \ mine
        /\ fds' = fds \ mine
        /\ CloseEnds(r, mine)
        /\ Goto(r, "dead")
        /\ UNCHANGED <<schedule, session, clock, peer, buf, calls, results>>

\* The host dies or is cut off: nobody is told.
Vanish(r) ==
    /\ Fault("vanish")
    /\ pc[r] \notin {"stopped", "dead"}
    /\ Goto(r, "dead")
    /\ UNCHANGED <<schedule, session, clock, peer, buf, calls, results, wire,
                   live, fds>>

Corrupt(l) ==
    /\ Fault("corrupt")
    /\ wire[l] # <<>>
    /\ wire' = [wire EXCEPT ![l][1].corrupt = TRUE]
    /\ UNCHANGED <<schedule, session, clock, pc, peer, buf, calls, results,
                   live, fds>>

Duplicate(l) ==
    /\ Fault("duplicate")
    /\ wire[l] # <<>>
    /\ wire' = [wire EXCEPT ![l] = <<Head(@)>> \o @]
    /\ UNCHANGED <<schedule, session, clock, pc, peer, buf, calls, results,
                   live, fds>>

\* request_cancel, from another thread of the process.
RequestCancel(r) ==
    /\ Fault("cancel")
    /\ Running(r)
    /\ SetSession(r, Cancel(session[r]))
    /\ UNCHANGED <<schedule, clock, pc, peer, buf, calls, results, wire, live,
                   fds>>

\* Time passes inside a collective.  Bounded: one tick past the deadline.
Tick(r) ==
    /\ "slow" \in Faults
    /\ pc[r] \in {"recv", "wait", "send"}
    /\ clock[r] <= session[r].deadline
    /\ clock' = [clock EXCEPT ![r] = @ + 1]
    /\ UNCHANGED <<schedule, session, pc, peer, buf, calls, results, wire, live,
                   fds, faults>>

Step(r) ==
    \/ StartCall(r) \/ EnterRecv(r) \/ Receive(r) \/ RecvLost(r)
    \/ RecvTimeout(r) \/ Send(r) \/ SendLost(r) \/ FinishCall(r)
    \/ OpenEpoch(r) \/ ReturnModel(r) \/ Shutdown(r)

Environment ==
    \/ \E r \in Ranks : Crash(r) \/ Vanish(r) \/ RequestCancel(r)
    \/ \E l \in Links : Corrupt(l) \/ Duplicate(l)

\* Every rank has shut down or died: the job is over.
Over == \A r \in Ranks : pc[r] \in {"stopped", "dead"}
Done == Over /\ UNCHANGED vars

Next ==
    \/ \E r \in Ranks : Step(r) \/ Tick(r)
    \/ Environment
    \/ Done

Spec == Init /\ [][Next]_vars

\* A rank's thread runs when it can, and a clock never stops.
FairSpec ==
    /\ Spec
    /\ \A r \in Ranks : WF_vars(Step(r)) /\ WF_vars(Tick(r))

-----------------------------------------------------------------------------
Frame == [header: Header, payload: Seq([rank: Ranks, call: Nat]),
          corrupt: BOOLEAN]

TypeOK ==
    /\ schedule \in [Ranks -> Schedules]
    /\ session \in [Ranks -> Session]
    /\ clock \in [Ranks -> Nat]
    /\ pc \in [Ranks -> PCs]
    /\ peer \in [Ranks -> Ranks]
    /\ \A r \in Ranks : peer[r] \in Peers(r)
    /\ calls \in [Ranks -> Nat]
    /\ wire \in [Links -> Seq(Frame)]
    /\ live \subseteq fds /\ fds \subseteq Links
    /\ faults \in Nat

\* Requirements 1, 2 and 5 of docs/distributed.md section 5: whatever a rank is
\* returned by its k-th call is the contributions of the k-th calls of all
\* ranks, each exactly once, folded in ascending rank order -- never a frame
\* of another collective, another epoch or another sender.
OrderedReduction ==
    \A r \in Ranks : \A k \in DOMAIN results[r] :
        results[r][k] = IF schedule[r][k].op = "barrier" THEN <<>>
                        ELSE [i \in 1 .. N |-> Contribution(i - 1, k)]

\* Ranks whose programs diverge never reduce two different collectives into
\* each other: a call returns only if every rank's call had its op and length.
SameCallEverywhere ==
    \A r, q \in Ranks : \A k \in DOMAIN results[r] :
        /\ k <= Len(schedule[q])
        /\ schedule[q][k].op = schedule[r][k].op
        /\ schedule[q][k].n = schedule[r][k].n

\* The numbers of two ranks that are between collectives, with the same number
\* of them behind each, agree: a checkpoint epoch opens at the same call on
\* every rank, never between a rank's own begin and finish.
EpochsAgree ==
    \A r, q \in Ranks :
        /\ pc[r] = "idle" /\ pc[q] = "idle"
        /\ Len(results[r]) = Len(results[q])
        /\ schedule[r] = schedule[q]
        => /\ session[r].epoch = session[q].epoch
           /\ session[r].seq = session[q].seq

\* failure_code(): "the transport status this session died of" -- a rank
\* whose collective raised has one.
FailureIsNamed ==
    \A r \in Ranks : pc[r] = "raised" => session[r].code # "ok"

\* trait Collective: an all-reduce "either delivers the complete result to
\* every rank or fails on every rank; there is no partial completion".  Does
\* not hold when a deadline passes inside the root's broadcast.  Once every rank has stopped, and no process died, all completed as many.
AllOrNothing ==
    (\A r \in Ranks : pc[r] = "stopped") =>
        \A r, q \in Ranks : Len(results[r]) = Len(results[q])

\* shutdown: "a rank that is shutting down because a peer vanished must still
\* release its own endpoints".  Does not hold once a process dies.
ShutdownReleases ==
    \A r \in Ranks : pc[r] = "stopped" => \A l \in fds : l[1] # r

\* Deadlines: whatever dies, hangs or is cancelled, and whatever the wire does
\* to a frame, every rank leaves its collective and shuts down.
NoRankHangs == \A r \in Ranks : <>(pc[r] \in {"stopped", "dead"})

\* Whose driver is not blocked: the guards of Step.  Only a read waits, for a
\* frame, the end of the stream or the deadline.
CanStep(r) ==
    \/ pc[r] \in {"recv", "send", "finish", "epoch", "raised", "returned"}
    \/ pc[r] = "idle" /\ calls[r] <= Len(schedule[r])
    \/ /\ pc[r] = "wait"
       /\ \/ wire[<<peer[r], r>>] # <<>>
          \/ Hung(<<r, peer[r]>>)
          \/ clock[r] > session[r].deadline

\* Ranks of one program that meet no fault need no deadline: while none has
\* passed, nobody raises, and until everyone has its results and has shut down
\* somebody has a step to take.
EveryRankReturns ==
    /\ \A r, q \in Ranks : schedule[r] = schedule[q]
    /\ \A r \in Ranks : clock[r] <= session[r].deadline
    /\ faults = 0
    => /\ \A r \in Ranks : pc[r] # "raised"
       /\ \A r \in Ranks : pc[r] = "stopped" => Len(results[r]) = Len(schedule[r])
       /\ Over \/ \E r \in Ranks : CanStep(r)

\* The promise of trait Collective, without its all-or-nothing sentence.  In
\* particular no collective returns on a rank before every rank entered it, so
\* a rank that died before its k-th call stops all the others at k.
Promise == INSTANCE AllReduce WITH
    Programs <- Schedules,
    entered <- calls,
    delivered <- results,
    gone <- {r \in Ranks : ~Running(r)}

ImplementsAllReduce == Promise!Spec
=============================================================================
