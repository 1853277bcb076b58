-------------------------- MODULE TransportSession --------------------------
(***************************************************************************)
(* One rank's session under a caller that may issue any operation at any   *)
(* time, with any argument, and may swallow every error it is raised:      *)
(* struct TransportSession of distributed_transport.mojo on its own.       *)
(*                                                                         *)
(* The class comment promises that a session which has given up cannot     *)
(* rejoin a collective "even if the caller swallows the error"; this       *)
(* module is that caller.                                                  *)
(***************************************************************************)
EXTENDS SessionState

CONSTANTS
    Self,         \* config.rank
    MaxClock,     \* bound on the monotonic clock
    MaxEpoch,     \* bound on the epoch
    MaxSeq        \* bound on the sequence number

ASSUME SelfAssumption == Self \in 0 .. N - 1
ASSUME BoundsAssumption == MaxClock \in Nat /\ MaxEpoch \in Nat /\ MaxSeq \in Nat

VARIABLES
    session,      \* the TransportSession record
    clock,        \* now_ns()
    opened        \* history: the <<epoch, seq>> of every collective opened

vars == <<session, clock, opened>>

Init ==
    /\ \E e \in 0 .. MaxEpoch : session = NewSession(Self, e)
    /\ clock = 0
    /\ opened = {}

-----------------------------------------------------------------------------
\* A frame the caller may hand to validate: right or wrong in every field,
\* the numbers at most one ahead of the session's own.
Frames ==
    [job: {Job, Job + 1}, version: {Version, Version + 1}, msg: Msgs,
     epoch: {session.epoch, session.epoch + 1},
     seq: {session.seq, session.seq + 1},
     sender: Ranks \ {Self}, op: {session.op, "barrier"} \ {NoOp},
     n: {session.n, session.n + 1}]

Handshake ==
    /\ \E status \in {"ok", "schema", "world", "job"}, peer \in Ranks \ {Self} :
          session' = CompleteHandshake(session, status, peer).session
    /\ UNCHANGED <<clock, opened>>

BeginCollective ==
    /\ session.seq < MaxSeq
    /\ \E op \in Ops \union {"bogus"}, n \in -1 .. MaxElements :
          LET r == Begin(session, op, n, clock)
          IN  /\ session' = r.session
              /\ opened' = IF r.raised THEN opened
                           ELSE opened \union {<<session.epoch, session.seq>>}
    /\ UNCHANGED clock

CheckTime ==
    /\ session' = CheckDeadline(session, clock).session
    /\ UNCHANGED <<clock, opened>>

ReceiveFrame ==
    /\ \E h \in Frames, sender \in Ranks \ {Self} :
          session' = Validate(session, h, "contrib", sender).session
    /\ UNCHANGED <<clock, opened>>

FinishCollective ==
    /\ session' = Finish(session).session
    /\ UNCHANGED <<clock, opened>>

AdvanceEpoch ==
    /\ session.epoch < MaxEpoch
    /\ session' = NextEpoch(session).session
    /\ UNCHANGED <<clock, opened>>

RequestCancel ==
    /\ session' = Cancel(session)
    /\ UNCHANGED <<clock, opened>>

LosePeer ==
    /\ \E r \in -1 .. N : session' = MarkLost(session, r).session
    /\ UNCHANGED <<clock, opened>>

CloseSession ==
    /\ session' = Close(session)
    /\ UNCHANGED <<clock, opened>>

Tick ==
    /\ clock < MaxClock
    /\ clock' = clock + 1
    /\ UNCHANGED <<session, opened>>

Next ==
    \/ Handshake \/ BeginCollective \/ CheckTime \/ ReceiveFrame
    \/ FinishCollective \/ AdvanceEpoch \/ RequestCancel \/ LosePeer
    \/ CloseSession \/ Tick

Spec == Init /\ [][Next]_vars

-----------------------------------------------------------------------------
TypeOK ==
    /\ session \in Session
    /\ clock \in Nat
    /\ opened \subseteq (Nat \X Nat)

\* A failure is recorded exactly when the session is dead of one: a FAILED or
\* CANCELLED session names its cause, and a session that can still open a
\* collective never carries one.  _fail, mark_lost and cancel write the state
\* and the code in separate assignments, under separate conditions.
CauseIsRecorded ==
    session.state \in {"failed", "cancelled"} <=> session.code # "ok"

\* A session that knows a rank is lost never has a collective in flight and
\* can never open one, so a reduction over a partial world cannot start.
\* mark_lost, begin and validate all guard this.
NoCollectiveWithoutAPeer ==
    session.lost # {} => session.state \in {"failed", "cancelled"}

\* The pair <<epoch, seq>> numbers one collective: once finish has moved
\* past it, no later collective of this session is opened under a number
\* that was used before (seq "never repeats within an epoch").
NumberNeverReused ==
    /\ session.state = "ready" => <<session.epoch, session.seq>> \notin opened
    /\ session.state = "in_flight" => <<session.epoch, session.seq>> \in opened

\* "Once a session leaves the ready and in-flight pair it never returns":
\* no order of calls, and no swallowed error, completes another collective
\* after the session failed, was cancelled or was closed.
NeverRejoins ==
    [][session.state \in Terminal =>
          /\ session'.state \in Terminal
          /\ session'.completed = session.completed
          /\ session'.seq = session.seq
          /\ session'.epoch = session.epoch]_vars

\* The first cause of death is the one reported: no later failure, loss or
\* cancellation replaces the code or the rank blamed for it.
FirstCauseKept ==
    [][session.code # "ok" =>
          session'.code = session.code /\ session'.blamed = session.blamed]_vars
=============================================================================
