---------------------------- MODULE SessionState ----------------------------
(***************************************************************************)
(* The per-rank record every collective goes through, and its operations:  *)
(* struct TransportSession of distributed_transport.mojo.  An operation is *)
(* a function from a session (and its arguments) to the session it leaves  *)
(* and whether the call raised; TransportSession.tla calls them in every   *)
(* order, TransportCollective.tla in the order of the blocking driver.     *)
(*                                                                         *)
(* Left out: the error texts, the manual clock of the tests (every call    *)
(* takes the time it reads), and the peers' handshake records, which       *)
(* Rendezvous.tla compares field by field: complete_handshake takes the    *)
(* status that comparison returned.                                        *)
(***************************************************************************)
EXTENDS Integers, FiniteSets

CONSTANTS
    N,            \* world_size of the TransportConfig
    Timeout,      \* collective_timeout_ns, in ticks of the monotonic clock
    MaxElements   \* bound on the buffer length a caller may pass

ASSUME NAssumption == N \in Nat /\ N >= 2
ASSUME TimeoutAssumption == Timeout \in Nat
ASSUME MaxElementsAssumption == MaxElements \in Nat

Ranks == 0 .. N - 1
Root == 0

\* The session states and the transport codes a session can die of.
States == {"init", "ready", "in_flight", "failed", "cancelled", "closed"}
Codes == {"ok", "timeout", "peer_lost", "schema", "world", "job",
          "out_of_order", "cancelled", "protocol"}

\* OP_SUM_F64 and OP_SUM_INT differ in the element type only; the name
\* stands for what the root does with the payloads.
Ops == {"sum", "max", "barrier"}
NoOp == "none"

\* The job and protocol version this rank was configured with.
Job == 0
Version == 1

Msgs == {"contrib", "result"}

Terminal == {"failed", "cancelled", "closed"}

Session == [rank: Ranks, state: States, epoch: Nat, seq: Nat,
            op: Ops \union {NoOp}, n: Nat, deadline: Nat, lost: SUBSET Ranks,
            code: Codes, blamed: Int, completed: Nat, elements: Nat]

\* What a frame carries besides its payload.
Header == [job: Nat, version: Nat, msg: Msgs, epoch: Nat, seq: Nat,
           sender: Ranks, op: Ops, n: Nat]

NewSession(r, e) ==
    [rank |-> r, state |-> "init", epoch |-> e, seq |-> 0, op |-> NoOp,
     n |-> 0, deadline |-> 0, lost |-> {}, code |-> "ok", blamed |-> -1,
     completed |-> 0, elements |-> 0]

\* The two ways a call ends.
Return(s) == [session |-> s, raised |-> FALSE]
Raise(s)  == [session |-> s, raised |-> TRUE]

-----------------------------------------------------------------------------
\* Mutant: the latest code replaces the first.
FailWithLatest(s, c, r) ==
    [s EXCEPT !.state = IF @ = "cancelled" THEN @ ELSE "failed",
              !.code = c, !.blamed = r]

\* Record a terminal failure: never over a cancellation, and only the first
\* code is kept.
FailWith(s, c, r) ==
    [s EXCEPT !.state = IF @ = "cancelled" THEN @ ELSE "failed",
              !.code = IF @ = "ok" THEN c ELSE @,
              !.blamed = IF s.code = "ok" THEN r ELSE @]

Fail(s, c, r) == Raise(FailWith(s, c, r))

Usable(s) == s.state \notin Terminal

\* complete_handshake, given the status of the announced peers: "ok", or the
\* first status that rejected one and the rank it names.
CompleteHandshake(s, status, peer) ==
    IF ~Usable(s) THEN Raise(s)
    ELSE IF s.state # "init" THEN Fail(s, "protocol", s.rank)
    ELSE IF status # "ok" THEN Fail(s, status, peer)
    ELSE Return([s EXCEPT !.state = "ready"])

LostRank(s) ==
    IF s.lost = {} THEN -1
    ELSE CHOOSE r \in s.lost : \A q \in s.lost : r <= q

Begin(s, op, n, now) ==
    IF ~Usable(s) THEN Raise(s)
    ELSE IF s.state # "ready" THEN Fail(s, "protocol", s.rank)
    ELSE IF op \notin Ops THEN Raise(s)
    ELSE IF n < 0 \/ (op = "barrier" /\ n # 0)
         THEN Fail(s, "protocol", s.rank)
    ELSE IF s.lost # {} THEN Fail(s, "peer_lost", LostRank(s))
    ELSE Return([s EXCEPT !.state = "in_flight", !.op = op, !.n = n,
                          !.deadline = now + Timeout])

HeaderOf(s, msg) ==
    [job |-> Job, version |-> Version, msg |-> msg, epoch |-> s.epoch,
     seq |-> s.seq, sender |-> s.rank, op |-> s.op, n |-> s.n]

CheckDeadline(s, now) ==
    IF now > s.deadline THEN Fail(s, "timeout", s.rank) ELSE Return(s)

\* Mutant: the epoch and the sequence number are not compared.
ValidateAnyNumber(s, h, msg, sender) ==
    IF ~Usable(s) THEN Raise(s)
    ELSE IF s.state # "in_flight" THEN Fail(s, "protocol", s.rank)
    ELSE IF h.sender # sender \/ h.msg # msg \/ h.op # s.op
         THEN Fail(s, "out_of_order", h.sender)
    ELSE IF h.n # s.n THEN Fail(s, "schema", h.sender)
    ELSE Return(s)

\* Mutant: neither the op nor the length is compared.
ValidateAnyCall(s, h, msg, sender) ==
    IF ~Usable(s) THEN Raise(s)
    ELSE IF s.state # "in_flight" THEN Fail(s, "protocol", s.rank)
    ELSE IF \/ h.sender # sender \/ h.msg # msg
            \/ h.epoch # s.epoch \/ h.seq # s.seq
         THEN Fail(s, "out_of_order", h.sender)
    ELSE Return(s)

\* The first check that fails names the code.
Validate(s, h, msg, sender) ==
    IF ~Usable(s) THEN Raise(s)
    ELSE IF s.state # "in_flight" THEN Fail(s, "protocol", s.rank)
    ELSE IF h.job # Job THEN Fail(s, "job", h.sender)
    ELSE IF h.version # Version THEN Fail(s, "schema", h.sender)
    ELSE IF \/ h.sender # sender
            \/ h.epoch # s.epoch \/ h.seq # s.seq
            \/ h.msg # msg
            \/ h.op # s.op
         THEN Fail(s, "out_of_order", h.sender)
    ELSE IF h.n # s.n THEN Fail(s, "schema", h.sender)
    ELSE IF h.sender \in s.lost THEN Fail(s, "peer_lost", h.sender)
    ELSE Return(s)

\* Mutant: no state check, so a late finish revives a dead session.
FinishUnchecked(s) ==
    Return([s EXCEPT !.completed = @ + 1, !.elements = @ + s.n,
                     !.seq = @ + 1, !.op = NoOp, !.n = 0, !.state = "ready"])

Finish(s) ==
    IF s.state # "in_flight" THEN Fail(s, "protocol", s.rank)
    ELSE Return([s EXCEPT !.completed = @ + 1, !.elements = @ + s.n,
                          !.seq = @ + 1, !.op = NoOp, !.n = 0,
                          !.state = "ready"])

\* Mutant: the numbering restarts but the epoch stays.
NextEpochSeqOnly(s) ==
    IF ~Usable(s) THEN Raise(s)
    ELSE IF s.state # "ready" THEN Fail(s, "protocol", s.rank)
    ELSE Return([s EXCEPT !.seq = 0])

NextEpoch(s) ==
    IF ~Usable(s) THEN Raise(s)
    ELSE IF s.state # "ready" THEN Fail(s, "protocol", s.rank)
    ELSE Return([s EXCEPT !.epoch = @ + 1, !.seq = 0])

\* cancel assigns the state whatever it was.
Cancel(s) ==
    [s EXCEPT !.state = "cancelled",
              !.code = IF @ = "ok" THEN "cancelled" ELSE @,
              !.blamed = IF s.code = "ok" THEN s.rank ELSE @]

MarkLost(s, r) ==
    IF r \notin Ranks THEN Raise(s)
    ELSE Return([FailWith(s, "peer_lost", r) EXCEPT !.lost = @ \union {r}])

Close(s) ==
    [s EXCEPT !.state = IF @ \in {"ready", "init"} THEN "closed" ELSE @]
=============================================================================
