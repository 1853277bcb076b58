----------------------- MODULE TransportSession_proofs -----------------------
(***************************************************************************)
(* Proofs about TransportSession, for every world size, timeout and bound. *)
(*                                                                         *)
(* Every operation of the session is shown once, in a lemma of its own, to *)
(* preserve Healthy and to take a Lawful step; the theorems then only have *)
(* to say which operation each action calls.                               *)
(***************************************************************************)
EXTENDS TransportSession, TLAPS

Dead == {"failed", "cancelled"}

\* The invariant of the record itself.
Healthy(s) ==
    /\ s \in Session
    /\ s.state \in Dead <=> s.code # "ok"
    /\ s.lost # {} => s.state \in Dead

\* What an operation may do to the record, whoever calls it.
Lawful(s, t) ==
    /\ s.state \in Terminal =>
          /\ t.state \in Terminal
          /\ t.completed = s.completed
          /\ t.seq = s.seq
          /\ t.epoch = s.epoch
    /\ s.code # "ok" => t.code = s.code /\ t.blamed = s.blamed
    /\ s.state = "cancelled" => t.state = "cancelled"

\* Every number opened so far is behind the session's own, or is its own
\* and the collective is no longer waiting to be opened.
Numbered(s, o) ==
    /\ \A p \in o : \/ p[1] < s.epoch
                    \/ p[1] = s.epoch /\ p[2] < s.seq
                    \/ p = <<s.epoch, s.seq>> /\ s.state \notin {"init", "ready"}
    /\ s.state = "in_flight" => <<s.epoch, s.seq>> \in o

\* A step that leaves the numbering alone, or leaves it for good.
SameNumber(s, t) ==
    /\ t.epoch = s.epoch /\ t.seq = s.seq
    /\ t.state = s.state \/ t.state \in Terminal
       \/ (s.state = "init" /\ t.state = "ready")

IInv ==
    /\ Healthy(session)
    /\ clock \in Nat
    /\ opened \subseteq (Nat \X Nat)
    /\ Numbered(session, opened)

-----------------------------------------------------------------------------
LEMMA SameNumberKeeps ==
    ASSUME NEW s \in Session, NEW t \in Session, NEW o,
           Numbered(s, o), SameNumber(s, t)
    PROVE  Numbered(t, o)
  BY DEF Numbered, SameNumber, Terminal, Session, States

LEMMA FailWithLemma ==
    ASSUME NEW s, Healthy(s), NEW c \in Codes \ {"ok"}, NEW r \in Int
    PROVE  /\ Healthy(FailWith(s, c, r))
           /\ FailWith(s, c, r).state \in Dead
           /\ FailWith(s, c, r).lost = s.lost
           /\ Lawful(s, FailWith(s, c, r))
           /\ SameNumber(s, FailWith(s, c, r))
  BY DEF Healthy, FailWith, Lawful, SameNumber, Session, States, Codes, Dead, Terminal

LEMMA FailLemma ==
    ASSUME NEW s, Healthy(s), NEW c \in Codes \ {"ok"}, NEW r \in Int
    PROVE  /\ Healthy(Fail(s, c, r).session)
           /\ Fail(s, c, r).raised
           /\ Lawful(s, Fail(s, c, r).session)
           /\ SameNumber(s, Fail(s, c, r).session)
  BY FailWithLemma DEF Fail, Raise

LEMMA RaiseLemma ==
    ASSUME NEW s, Healthy(s)
    PROVE  /\ Healthy(Raise(s).session)
           /\ Raise(s).raised
           /\ Lawful(s, Raise(s).session)
           /\ SameNumber(s, Raise(s).session)
  BY DEF Raise, Lawful, SameNumber

LEMMA HandshakeLemma ==
    ASSUME NEW s, Healthy(s), NEW c \in Codes, NEW p \in Ranks
    PROVE  LET t == CompleteHandshake(s, c, p).session
           IN  Healthy(t) /\ Lawful(s, t) /\ SameNumber(s, t)
<1>1. CASE ~Usable(s)
  BY <1>1, RaiseLemma DEF CompleteHandshake
<1>2. CASE Usable(s) /\ s.state # "init"
  <2>1. s.rank \in Int /\ "protocol" \in Codes \ {"ok"}
    BY NAssumption DEF Healthy, Session, Ranks, Codes
  <2> QED  BY <1>2, <2>1, FailLemma DEF CompleteHandshake
<1>3. CASE Usable(s) /\ s.state = "init" /\ c # "ok"
  <2>1. p \in Int
    BY NAssumption DEF Ranks
  <2> QED  BY <1>3, <2>1, FailLemma DEF CompleteHandshake
<1>4. CASE Usable(s) /\ s.state = "init" /\ c = "ok"
  BY <1>4 DEF CompleteHandshake, Return, Healthy, Lawful, SameNumber, Session,
              States, Dead, Terminal, Usable
<1> QED  BY <1>1, <1>2, <1>3, <1>4

\* The lost-rank guard of begin is never the one that fires: a session that
\* lost a rank is dead before begin looks.
LEMMA BeginLemma ==
    ASSUME NEW s, Healthy(s), NEW op, NEW n \in Int, NEW now \in Nat
    PROVE  LET b == Begin(s, op, n, now)
               t == b.session
           IN  /\ Healthy(t) /\ Lawful(s, t)
               /\ b.raised => SameNumber(s, t)
               /\ ~b.raised => /\ s.state = "ready" /\ t.state = "in_flight"
                              /\ t.epoch = s.epoch /\ t.seq = s.seq
<1>0. s.rank \in Int /\ "protocol" \in Codes \ {"ok"}
  BY NAssumption DEF Healthy, Session, Ranks, Codes
<1>1. CASE ~Usable(s)
  BY <1>1, RaiseLemma DEF Begin
<1>2. CASE Usable(s) /\ s.state # "ready"
  BY <1>0, <1>2, FailLemma DEF Begin
<1>3. CASE Usable(s) /\ s.state = "ready" /\ op \notin Ops
  BY <1>3, RaiseLemma DEF Begin
<1>4. CASE /\ Usable(s) /\ s.state = "ready" /\ op \in Ops
           /\ n < 0 \/ (op = "barrier" /\ n # 0)
  BY <1>0, <1>4, FailLemma DEF Begin
<1>5. CASE /\ Usable(s) /\ s.state = "ready" /\ op \in Ops
           /\ ~(n < 0 \/ (op = "barrier" /\ n # 0))
  <2>1. s.lost = {}
    BY <1>5 DEF Healthy, Dead
  <2> DEFINE t == [s EXCEPT !.state = "in_flight", !.op = op, !.n = n,
                            !.deadline = now + Timeout]
  <2>2. /\ Begin(s, op, n, now).session = t
        /\ Begin(s, op, n, now).raised = FALSE
    BY <1>5, <2>1 DEF Begin, Return
  <2>3. n \in Nat /\ now + Timeout \in Nat
    BY <1>5, TimeoutAssumption
  <2>4. t \in Session
    BY <1>5, <2>3 DEF Healthy, Session, States
  <2>5. Healthy(t)
    BY <1>5, <2>1, <2>4 DEF Healthy, Session, Dead
  <2>6. /\ t.state = "in_flight" /\ t.epoch = s.epoch /\ t.seq = s.seq
        /\ Lawful(s, t)
    BY <1>5 DEF Healthy, Lawful, Session, Dead, Terminal, Usable
  <2> HIDE DEF t
  <2> QED  BY <1>5, <2>2, <2>5, <2>6
<1> QED  BY <1>1, <1>2, <1>3, <1>4, <1>5

LEMMA CheckDeadlineLemma ==
    ASSUME NEW s, Healthy(s), NEW now \in Nat
    PROVE  LET t == CheckDeadline(s, now).session
           IN  Healthy(t) /\ Lawful(s, t) /\ SameNumber(s, t)
<1>1. s.rank \in Int /\ "timeout" \in Codes \ {"ok"}
  BY NAssumption DEF Healthy, Session, Ranks, Codes
<1> QED  BY <1>1, FailLemma DEF CheckDeadline, Return, Lawful, SameNumber

LEMMA ValidateLemma ==
    ASSUME NEW s, Healthy(s), NEW h, h.sender \in Ranks, NEW msg, NEW q
    PROVE  LET t == Validate(s, h, msg, q).session
           IN  Healthy(t) /\ Lawful(s, t) /\ SameNumber(s, t)
<1>1. /\ s.rank \in Int /\ h.sender \in Int
      /\ {"protocol", "job", "schema", "out_of_order", "peer_lost"}
            \subseteq Codes \ {"ok"}
  BY NAssumption DEF Healthy, Session, Ranks, Codes
<1>2. Lawful(s, s) /\ SameNumber(s, s)
  BY DEF Lawful, SameNumber
<1>3. /\ Validate(s, h, msg, q) \in
            {Raise(s), Return(s)} \union
            {Fail(s, c, r) : c \in {"protocol", "job", "schema", "out_of_order",
                                    "peer_lost"}, r \in {s.rank, h.sender}}
  BY DEF Validate
<1>4. CASE Validate(s, h, msg, q) = Raise(s)
  BY <1>4, RaiseLemma
<1>5. CASE Validate(s, h, msg, q) = Return(s)
  BY <1>2, <1>5 DEF Return
<1>6. ASSUME NEW c \in {"protocol", "job", "schema", "out_of_order", "peer_lost"},
             NEW r \in {s.rank, h.sender},
             Validate(s, h, msg, q) = Fail(s, c, r)
      PROVE  LET t == Validate(s, h, msg, q).session
             IN  Healthy(t) /\ Lawful(s, t) /\ SameNumber(s, t)
  <2>1. c \in Codes \ {"ok"} /\ r \in Int
    BY <1>1
  <2> QED  BY <1>6, <2>1, FailLemma
<1> QED  BY <1>3, <1>4, <1>5, <1>6

LEMMA FinishLemma ==
    ASSUME NEW s, Healthy(s)
    PROVE  LET f == Finish(s)
               t == f.session
           IN  /\ Healthy(t) /\ Lawful(s, t)
               /\ f.raised => SameNumber(s, t)
               /\ ~f.raised => /\ s.state = "in_flight" /\ t.state = "ready"
                              /\ t.epoch = s.epoch /\ t.seq = s.seq + 1
<1>1. s.rank \in Int /\ "protocol" \in Codes \ {"ok"}
  BY NAssumption DEF Healthy, Session, Ranks, Codes
<1>2. CASE s.state # "in_flight"
  BY <1>1, <1>2, FailLemma DEF Finish
<1>3. CASE s.state = "in_flight"
  <2> DEFINE t == [s EXCEPT !.completed = @ + 1, !.elements = @ + s.n,
                            !.seq = @ + 1, !.op = NoOp, !.n = 0,
                            !.state = "ready"]
  <2>1. Finish(s).session = t /\ Finish(s).raised = FALSE
    BY <1>3 DEF Finish, Return
  <2>2. t \in Session
    <3>1. /\ s.completed + 1 \in Nat /\ s.elements + s.n \in Nat
          /\ s.seq + 1 \in Nat /\ 0 \in Nat
          /\ NoOp \in Ops \union {NoOp} /\ "ready" \in States
      BY DEF Healthy, Session, States
    <3> QED  BY <3>1 DEF Healthy, Session
  <2>3. Healthy(t)
    BY <1>3, <2>2 DEF Healthy, Session, Dead
  <2>4. t.state = "ready" /\ t.epoch = s.epoch /\ t.seq = s.seq + 1 /\ Lawful(s, t)
    BY <1>3 DEF Healthy, Lawful, Session, Dead, Terminal
  <2> HIDE DEF t
  <2> QED  BY <1>3, <2>1, <2>3, <2>4
<1> QED  BY <1>2, <1>3

LEMMA NextEpochLemma ==
    ASSUME NEW s, Healthy(s)
    PROVE  LET f == NextEpoch(s)
               t == f.session
           IN  /\ Healthy(t) /\ Lawful(s, t)
               /\ f.raised => SameNumber(s, t)
               /\ ~f.raised => /\ t.state = "ready"
                              /\ t.epoch = s.epoch + 1 /\ t.seq = 0
<1>1. s.rank \in Int /\ "protocol" \in Codes \ {"ok"}
  BY NAssumption DEF Healthy, Session, Ranks, Codes
<1>2. CASE ~Usable(s)
  BY <1>2, RaiseLemma DEF NextEpoch
<1>3. CASE Usable(s) /\ s.state # "ready"
  BY <1>1, <1>3, FailLemma DEF NextEpoch
<1>4. CASE Usable(s) /\ s.state = "ready"
  <2> DEFINE t == [s EXCEPT !.epoch = @ + 1, !.seq = 0]
  <2>1. NextEpoch(s).session = t /\ NextEpoch(s).raised = FALSE
    BY <1>4 DEF NextEpoch, Return
  <2>2. Healthy(t)
    <3>1. s.epoch + 1 \in Nat /\ 0 \in Nat
      BY DEF Healthy, Session
    <3> QED  BY <3>1, <1>4 DEF Healthy, Session, Dead
  <2>3. t.state = "ready" /\ t.epoch = s.epoch + 1 /\ t.seq = 0 /\ Lawful(s, t)
    BY <1>4 DEF Healthy, Lawful, Session, Dead, Terminal
  <2> HIDE DEF t
  <2> QED  BY <1>4, <2>1, <2>2, <2>3
<1> QED  BY <1>2, <1>3, <1>4

LEMMA CancelLemma ==
    ASSUME NEW s, Healthy(s)
    PROVE  /\ Healthy(Cancel(s)) /\ Lawful(s, Cancel(s))
           /\ SameNumber(s, Cancel(s))
<1>1. s.rank \in Int
  BY NAssumption DEF Healthy, Session, Ranks
<1> QED  BY <1>1 DEF Cancel, Healthy, Lawful, SameNumber, Session, States,
                     Codes, Dead, Terminal

LEMMA MarkLostLemma ==
    ASSUME NEW s, Healthy(s), NEW r
    PROVE  LET t == MarkLost(s, r).session
           IN  Healthy(t) /\ Lawful(s, t) /\ SameNumber(s, t)
<1>1. CASE r \notin Ranks
  BY <1>1, RaiseLemma DEF MarkLost
<1>2. CASE r \in Ranks
  <2> DEFINE u == FailWith(s, "peer_lost", r)
  <2>1. r \in Int /\ "peer_lost" \in Codes \ {"ok"}
    BY <1>2, NAssumption DEF Ranks, Codes
  <2>2. Healthy(u) /\ u.state \in Dead /\ Lawful(s, u) /\ SameNumber(s, u)
    BY <2>1, FailWithLemma
  <2>3. MarkLost(s, r).session = [u EXCEPT !.lost = @ \union {r}]
    BY <1>2 DEF MarkLost, Return
  <2> HIDE DEF u
  <2> QED  BY <1>2, <2>2, <2>3 DEF Healthy, Lawful, SameNumber, Session
<1> QED  BY <1>1, <1>2

LEMMA CloseLemma ==
    ASSUME NEW s, Healthy(s)
    PROVE  Healthy(Close(s)) /\ Lawful(s, Close(s)) /\ SameNumber(s, Close(s))
  BY DEF Close, Healthy, Lawful, SameNumber, Session, States, Dead, Terminal

-----------------------------------------------------------------------------
\* A step that leaves the history alone: the record is healthy, the step
\* lawful, the number the same.
Quiet(s, t) == Healthy(t) /\ Lawful(s, t) /\ SameNumber(s, t)

LEMMA QuietKeepsIInv ==
    ASSUME IInv, Quiet(session, session'), clock' \in Nat, opened' = opened
    PROVE  IInv' /\ Lawful(session, session')
<1>1. session \in Session /\ session' \in Session
  BY DEF IInv, Healthy, Quiet
<1>2. Numbered(session', opened)
  BY <1>1, SameNumberKeeps DEF IInv, Quiet
<1> QED  BY <1>2 DEF IInv, Healthy, Numbered, Quiet

LEMMA InitIInv == Init => IInv
<1> SUFFICES ASSUME Init PROVE IInv
  OBVIOUS
<1>1. PICK e \in 0 .. MaxEpoch : session = NewSession(Self, e)
  BY DEF Init
<1>2. e \in Nat /\ Self \in Ranks
  BY BoundsAssumption, SelfAssumption DEF Ranks
<1>3. session \in Session
  BY <1>1, <1>2 DEF NewSession, Session, States, Codes
<1>4. Healthy(session)
  BY <1>1, <1>3 DEF Healthy, NewSession, Dead
<1>5. session.state = "init"
  BY <1>1 DEF NewSession
<1> QED  BY <1>4, <1>5 DEF IInv, Init, Numbered

\* The calls that open or number nothing.
LEMMA QuietSteps ==
    ASSUME IInv,
           Handshake \/ CheckTime \/ ReceiveFrame \/ RequestCancel
             \/ LosePeer \/ CloseSession
    PROVE  IInv' /\ Lawful(session, session')
<1>1. Healthy(session) /\ clock \in Nat
  BY DEF IInv
<1>2. clock' = clock /\ opened' = opened
  BY DEF Handshake, CheckTime, ReceiveFrame, RequestCancel, LosePeer, CloseSession
<1>3. CASE Handshake
  <2>1. PICK c \in Codes, q \in Ranks :
           session' = CompleteHandshake(session, c, q).session
    BY <1>3 DEF Handshake, Codes
  <2> QED  BY <1>1, <1>2, <2>1, HandshakeLemma, QuietKeepsIInv DEF Quiet
<1>4. CASE CheckTime
  BY <1>1, <1>2, <1>4, CheckDeadlineLemma, QuietKeepsIInv DEF Quiet, CheckTime
<1>5. CASE ReceiveFrame
  <2>1. PICK h \in Frames, q \in Ranks \ {Self} :
           session' = Validate(session, h, "contrib", q).session
    BY <1>5 DEF ReceiveFrame
  <2>2. h.sender \in Ranks
    BY <2>1 DEF Frames
  <2> QED  BY <1>1, <1>2, <2>1, <2>2, ValidateLemma, QuietKeepsIInv DEF Quiet
<1>6. CASE RequestCancel
  BY <1>1, <1>2, <1>6, CancelLemma, QuietKeepsIInv DEF Quiet, RequestCancel
<1>7. CASE LosePeer
  <2>1. PICK r \in -1 .. N : session' = MarkLost(session, r).session
    BY <1>7 DEF LosePeer
  <2> QED  BY <1>1, <1>2, <2>1, MarkLostLemma, QuietKeepsIInv DEF Quiet
<1>8. CASE CloseSession
  BY <1>1, <1>2, <1>8, CloseLemma, QuietKeepsIInv DEF Quiet, CloseSession
<1> QED  BY <1>3, <1>4, <1>5, <1>6, <1>7, <1>8

LEMMA BeginStep ==
    ASSUME IInv, BeginCollective
    PROVE  IInv' /\ Lawful(session, session')
<1>1. Healthy(session) /\ clock \in Nat /\ clock' = clock
  BY DEF IInv, BeginCollective
<1>2. PICK op \in Ops \union {"bogus"}, n \in -1 .. MaxElements :
         /\ session' = Begin(session, op, n, clock).session
         /\ opened' = IF Begin(session, op, n, clock).raised THEN opened
                      ELSE opened \union {<<session.epoch, session.seq>>}
  BY DEF BeginCollective
<1>3. n \in Int
  BY MaxElementsAssumption
<1> DEFINE b == Begin(session, op, n, clock)
<1>4. /\ Healthy(session') /\ Lawful(session, session')
      /\ b.raised => SameNumber(session, session')
      /\ ~b.raised => /\ session.state = "ready" /\ session'.state = "in_flight"
                     /\ session'.epoch = session.epoch
                     /\ session'.seq = session.seq
  BY <1>1, <1>2, <1>3, BeginLemma
<1>5. CASE b.raised
  <2>1. opened' = opened
    BY <1>2, <1>5
  <2> QED  BY <1>1, <1>4, <1>5, <2>1, QuietKeepsIInv DEF Quiet
<1>6. CASE ~b.raised
  <2>1. opened' = opened \union {<<session.epoch, session.seq>>}
    BY <1>2, <1>6
  <2>2. session.epoch \in Nat /\ session.seq \in Nat
    BY <1>1 DEF Healthy, Session
  <2>3. session.state = "ready" /\ session'.state = "in_flight"
        /\ session'.epoch = session.epoch /\ session'.seq = session.seq
    BY <1>4, <1>6
  <2>4. Numbered(session', opened')
    BY <2>1, <2>2, <2>3 DEF IInv, Numbered
  <2>5. opened' \subseteq (Nat \X Nat)
    BY <2>1, <2>2 DEF IInv
  <2> QED  BY <1>1, <1>4, <2>4, <2>5 DEF IInv, Healthy, Numbered
<1> QED  BY <1>5, <1>6

LEMMA FinishStep ==
    ASSUME IInv, FinishCollective
    PROVE  IInv' /\ Lawful(session, session')
<1>1. Healthy(session) /\ clock \in Nat /\ clock' = clock /\ opened' = opened
      /\ session' = Finish(session).session
  BY DEF IInv, FinishCollective
<1> DEFINE f == Finish(session)
<1>2. /\ Healthy(session') /\ Lawful(session, session')
      /\ f.raised => SameNumber(session, session')
      /\ ~f.raised => /\ session.state = "in_flight" /\ session'.state = "ready"
                     /\ session'.epoch = session.epoch
                     /\ session'.seq = session.seq + 1
  BY <1>1, FinishLemma
<1>3. CASE f.raised
  BY <1>1, <1>2, <1>3, QuietKeepsIInv DEF Quiet
<1>4. CASE ~f.raised
  <2>1. session.epoch \in Nat /\ session.seq \in Nat /\ opened \subseteq (Nat \X Nat)
    BY <1>1 DEF Healthy, Session, IInv
  <2>2. session'.state = "ready" /\ session'.epoch = session.epoch
        /\ session'.seq = session.seq + 1
    BY <1>2, <1>4
  <2>3. ASSUME NEW p \in opened
        PROVE  \/ p[1] < session'.epoch
               \/ p[1] = session'.epoch /\ p[2] < session'.seq
    BY <2>1, <2>2 DEF IInv, Numbered
  <2>4. Numbered(session', opened')
    BY <1>1, <2>2, <2>3 DEF Numbered
  <2> QED  BY <1>1, <1>2, <2>1, <2>4 DEF IInv, Healthy, Numbered
<1> QED  BY <1>3, <1>4

LEMMA EpochStep ==
    ASSUME IInv, AdvanceEpoch
    PROVE  IInv' /\ Lawful(session, session')
<1>1. Healthy(session) /\ clock \in Nat /\ clock' = clock /\ opened' = opened
      /\ session' = NextEpoch(session).session
  BY DEF IInv, AdvanceEpoch
<1> DEFINE f == NextEpoch(session)
<1>2. /\ Healthy(session') /\ Lawful(session, session')
      /\ f.raised => SameNumber(session, session')
      /\ ~f.raised => /\ session'.state = "ready"
                     /\ session'.epoch = session.epoch + 1
                     /\ session'.seq = 0
  BY <1>1, NextEpochLemma
<1>3. CASE f.raised
  BY <1>1, <1>2, <1>3, QuietKeepsIInv DEF Quiet
<1>4. CASE ~f.raised
  <2>1. session.epoch \in Nat /\ session.seq \in Nat /\ opened \subseteq (Nat \X Nat)
    BY <1>1 DEF Healthy, Session, IInv
  <2>2. session'.state = "ready" /\ session'.epoch = session.epoch + 1
    BY <1>2, <1>4
  <2>3. ASSUME NEW p \in opened PROVE p[1] < session'.epoch
    BY <2>1, <2>2 DEF IInv, Numbered
  <2>4. Numbered(session', opened')
    BY <1>1, <2>2, <2>3 DEF Numbered
  <2> QED  BY <1>1, <1>2, <2>1, <2>4 DEF IInv, Healthy, Numbered
<1> QED  BY <1>3, <1>4

\* Every step keeps the invariant, and every step is lawful.
LEMMA NextKeepsIInv == IInv /\ [Next]_vars => IInv' /\ Lawful(session, session')
<1> SUFFICES ASSUME IInv, [Next]_vars PROVE IInv' /\ Lawful(session, session')
  OBVIOUS
<1>1. CASE Handshake \/ CheckTime \/ ReceiveFrame \/ RequestCancel
             \/ LosePeer \/ CloseSession
  BY <1>1, QuietSteps
<1>2. CASE BeginCollective
  BY <1>2, BeginStep
<1>3. CASE FinishCollective
  BY <1>3, FinishStep
<1>4. CASE AdvanceEpoch
  BY <1>4, EpochStep
<1>5. CASE Tick \/ UNCHANGED vars
  <2>1. session' = session /\ opened' = opened /\ clock' \in Nat
    BY <1>5 DEF Tick, vars, IInv
  <2>2. Quiet(session, session')
    BY <2>1 DEF Quiet, IInv, Lawful, SameNumber
  <2> QED  BY <2>1, <2>2, QuietKeepsIInv
<1> QED  BY <1>1, <1>2, <1>3, <1>4, <1>5 DEF Next

-----------------------------------------------------------------------------
\* The inductive invariant holds in every reachable state.
THEOREM Invariance == Spec => []IInv
<1>1. Init => IInv
  BY InitIInv
<1>2. IInv /\ [Next]_vars => IInv'
  BY NextKeepsIInv
<1> QED  BY <1>1, <1>2, PTL DEF Spec

\* The record, the clock and the history keep their types under every order
\* of calls.
THEOREM TypeCorrect == Spec => []TypeOK
<1>1. IInv => TypeOK
  BY DEF IInv, Healthy, TypeOK
<1> QED  BY <1>1, Invariance, PTL

\* failure_code() is set exactly when the session is FAILED or CANCELLED.
THEOREM CauseRecorded == Spec => []CauseIsRecorded
<1>1. IInv => CauseIsRecorded
  BY DEF IInv, Healthy, Dead, CauseIsRecorded
<1> QED  BY <1>1, Invariance, PTL

\* No collective is ever in flight, or can be opened, on a session that
\* lost a rank.
THEOREM LossIsTerminal == Spec => []NoCollectiveWithoutAPeer
<1>1. IInv => NoCollectiveWithoutAPeer
  BY DEF IInv, Healthy, Dead, NoCollectiveWithoutAPeer
<1> QED  BY <1>1, Invariance, PTL

\* No two collectives of a session carry the same <<epoch, seq>>.
THEOREM NumbersAreFresh == Spec => []NumberNeverReused
<1>1. IInv => NumberNeverReused
  <2> SUFFICES ASSUME IInv PROVE NumberNeverReused
    OBVIOUS
  <2>1. session.epoch \in Nat /\ session.seq \in Nat
    BY DEF IInv, Healthy, Session
  <2>2. session.state = "ready" => <<session.epoch, session.seq>> \notin opened
    BY <2>1 DEF IInv, Numbered
  <2> QED  BY <2>2 DEF IInv, Numbered, NumberNeverReused
<1> QED  BY <1>1, Invariance, PTL

\* A session that failed, was cancelled or was closed completes nothing
\* afterwards, whatever the caller does with the errors.
THEOREM DeadForGood == Spec => NeverRejoins
<1>1. IInv /\ [Next]_vars =>
        [session.state \in Terminal =>
            /\ session'.state \in Terminal
            /\ session'.completed = session.completed
            /\ session'.seq = session.seq
            /\ session'.epoch = session.epoch]_vars
  BY NextKeepsIInv DEF Lawful
<1> QED  BY <1>1, Invariance, PTL DEF Spec, NeverRejoins

\* The first recorded cause, and the rank it blames, are never replaced.
THEOREM FirstCause == Spec => FirstCauseKept
<1>1. IInv /\ [Next]_vars =>
        [session.code # "ok" =>
            session'.code = session.code /\ session'.blamed = session.blamed]_vars
  BY NextKeepsIInv DEF Lawful
<1> QED  BY <1>1, Invariance, PTL DEF Spec, FirstCauseKept
=============================================================================
