---------------------- MODULE TransportCollective_proofs ----------------------
(***************************************************************************)
(* Proofs about TransportCollective, for every world size, every set of    *)
(* programs (diverging ones included) and every fault: type correctness,   *)
(* OrderedReduction, SameCallEverywhere, EpochsAgree, that it implements   *)
(* AllReduce and so what AllReduce gives its callers, and EveryRankReturns.*)
(*                                                                         *)
(* The numbers a frame carries are compared in lexicographic order.  The   *)
(* inductive invariant says which frames can be on a connection: at most   *)
(* the one of the call its reader is in, with what that call should bring, *)
(* and otherwise frames whose number the reader has left behind, which     *)
(* Validate refuses because a session's number only grows.                 *)
(*                                                                         *)
(* Ranks of one program that meet no fault need more than that, in the     *)
(* last section: until a deadline passes, the frame a reader waits for is  *)
(* under way whenever its sender is past sending it (Smooth).              *)
(***************************************************************************)
EXTENDS TransportCollective, FiniteSetTheorems, TLAPS

Payloads == Seq([rank: Ranks, call: Nat])

\* The order of the numbers of sessions and of frames.
Before(a, b) == a.epoch < b.epoch \/ (a.epoch = b.epoch /\ a.seq < b.seq)
SameNumber(a, b) == a.epoch = b.epoch /\ a.seq = b.seq

InCall(r) == pc[r] \in {"recv", "wait", "send", "finish"}

\* What can be read from a connection, corrupt or not.
Read(frames) ==
    {[header |-> frames[i].header, payload |-> frames[i].payload] :
        i \in 1 .. Len(frames)}
Contents(l) == Read(wire[l])

\* The ranks whose contribution is in the root's buffer, and how many of a
\* worker's contributions the root has folded in all.
Gathering == pc[Root] \in {"recv", "wait"}
Gathered == IF Gathering THEN 0 .. peer[Root] - 1
            ELSE IF InCall(Root) THEN Ranks ELSE {}
Taken(q) == Len(results[Root]) + IF q \in Gathered THEN 1 ELSE 0

SameCall(r, q, k) == schedule[q][k].op = schedule[r][k].op /\ schedule[q][k].n = schedule[r][k].n

\* Every rank has entered a k-th call, and of the shape of r's.
Complete(r, k) == \A q \in Ranks : calls[q] >= k /\ SameCall(r, q, k)

Partial(r, k, m) ==
    IF schedule[r][k].op = "barrier" THEN <<>>
    ELSE [i \in 1 .. m |-> Contribution(i - 1, k)]
Reduction(r, k) == Partial(r, k, N)

\* A session that lost a rank is dead, so begin never has to name one.
Healthy(s) ==
    /\ s \in Session
    /\ s.lost # {} => s.state \in {"failed", "cancelled"}

\* A session after a call that raised or changed only how it stands.
Kept(s, t) ==
    /\ Healthy(t)
    /\ t.epoch = s.epoch /\ t.seq = s.seq /\ t.op = s.op /\ t.n = s.n

-----------------------------------------------------------------------------
(* The inductive invariant.                                                *)

\* The driver and its session agree on the call they are in.
Local(r) ==
    /\ calls[r] <= Len(schedule[r])
    /\ calls[r] \in {Len(results[r]), Len(results[r]) + 1}
    /\ InCall(r) => /\ calls[r] = Len(results[r]) + 1
                    /\ session[r].op = Call(r).op /\ session[r].n = Call(r).n
    /\ pc[r] \in {"idle", "epoch", "returned"} => calls[r] = Len(results[r])
    /\ pc[r] = "epoch" => calls[r] > 0 /\ Call(r).epoch

\* Whatever was returned is the reduction of a call everyone had entered.
Backed(r) ==
    \A k \in 1 .. Len(results[r]) : results[r][k] = Reduction(r, k) /\ Complete(r, k)

\* The root's buffer holds the gathered ranks' contributions to its call.
RootBuffer ==
    InCall(Root) =>
        /\ buf[Root] = Partial(Root, calls[Root], IF Gathering THEN peer[Root] ELSE N)
        /\ \A q \in Gathered : calls[q] >= calls[Root] /\ SameCall(Root, q, calls[Root])

\* A worker's buffer holds its contribution, then the reduction.
WorkerBuffer(q) ==
    /\ pc[q] = "send" => buf[q] = Payload(q, calls[q])
    /\ pc[q] = "finish" => /\ buf[q] = Reduction(q, calls[q]) /\ Complete(q, calls[q])
                           /\ Running(Root) => Taken(q) >= calls[q]

\* A worker is in the call the root takes from it next, or in the last it took,
\* and a worker the root took from has the root's number or is past it.
Pace(q) ==
    Running(Root) =>
        /\ calls[q] \in {Taken(q), Taken(q) + 1} /\ Len(results[q]) <= Taken(q)
        /\ pc[q] = "send" => calls[q] = Taken(q) + 1
        /\ q \in Gathered =>
            \/ Before(session[Root], session[q])
            \/ /\ SameNumber(session[Root], session[q])
               /\ calls[q] = calls[Root] /\ Len(results[q]) < calls[q]

\* A frame to the root is the contribution it takes next, or is behind it.
ContributionFrame(q, c) ==
    Running(Root) =>
        \/ /\ calls[q] = Taken(q) + 1 /\ pc[q] # "send"
           /\ c.payload = Payload(q, calls[q])
           /\ c.header.op = Call(q).op /\ c.header.n = Call(q).n
           /\ SameNumber(c.header, session[q])
        \/ Before(c.header, session[Root])
        \/ q \in Gathered /\ SameNumber(c.header, session[Root])

\* A frame to a worker is the result of its call, or is behind it.
ResultFrame(q, c) ==
    \/ /\ calls[q] = Len(results[q]) + 1
       /\ SameNumber(c.header, session[q])
       /\ c.payload = Reduction(q, calls[q]) /\ Complete(q, calls[q])
       /\ Running(Root) => Taken(q) >= calls[q]
    \/ Before(c.header, session[q])

\* What a rank's number says of its program: the epoch counts the checkpoints
\* behind it, seq the calls since the last of them.
Checkpoints(r, m) == {i \in 1 .. m : schedule[r][i].epoch}
Behind(r) == IF pc[r] = "epoch" THEN Len(results[r]) - 1 ELSE Len(results[r])
Numbered(r) ==
    Running(r) =>
        LET p == Len(results[r]) - session[r].seq IN
        /\ session[r].epoch = Cardinality(Checkpoints(r, Behind(r)))
        /\ p = 0 \/ p \in Checkpoints(r, Behind(r))
        /\ \A i \in Checkpoints(r, Behind(r)) : i <= p

Types ==
    /\ TypeOK
    /\ \A r \in Ranks : Healthy(session[r])
    /\ buf \in [Ranks -> Payloads]
    /\ results \in [Ranks -> Seq(Payloads)]

IInv ==
    /\ Types
    /\ \A r \in Ranks : Local(r) /\ Backed(r) /\ Numbered(r)
    /\ RootBuffer
    /\ \A q \in Workers :
        /\ WorkerBuffer(q) /\ Pace(q)
        /\ \A c \in Contents(<<q, Root>>) : ContributionFrame(q, c)
        /\ \A c \in Contents(<<Root, q>>) : ResultFrame(q, c)

-----------------------------------------------------------------------------
(* What the operations of a session do to its number.                      *)

\* What an operation of the session returns: whether it raised, and the record it left.
LEMMA Endings ==
    ASSUME NEW s, NEW c, NEW r
    PROVE  /\ Return(s).raised = FALSE /\ Return(s).session = s
           /\ Raise(s).raised = TRUE /\ Raise(s).session = s
           /\ Fail(s, c, r).raised = TRUE /\ Fail(s, c, r).session = FailWith(s, c, r)
  BY DEF Return, Raise, Fail

\* Failing a session keeps it healthy and its number, and ends it.
LEMMA FailKeeps ==
    ASSUME NEW s, Healthy(s), NEW c \in Codes, NEW r \in Int
    PROVE  Kept(s, FailWith(s, c, r)) /\ FailWith(s, c, r).state \in {"failed", "cancelled"}
  BY DEF Healthy, Kept, FailWith, Session, States, Codes

\* A session that is left alone is kept.
LEMMA KeptItself ==
    ASSUME NEW s, Healthy(s)
    PROVE  Kept(s, s)
  BY DEF Kept

\* The arguments the operations fail with.
LEMMA FailArguments ==
    ASSUME NEW s, Healthy(s)
    PROVE  /\ s.rank \in Int /\ Ranks \subseteq Int
           /\ {"protocol", "job", "schema", "out_of_order", "peer_lost", "timeout"} \subseteq Codes
  BY NAssumption DEF Healthy, Session, Ranks, Codes

\* Begin keeps the number. When it returns, the record carries the call it was asked for.
LEMMA BeginLaw ==
    ASSUME NEW s, Healthy(s), NEW op, NEW n \in Int
    PROVE  \E t : /\ Healthy(t) /\ t.epoch = s.epoch /\ t.seq = s.seq
                  /\ \/ Begin(s, op, n, 0) = Raise(t) /\ Kept(s, t)
                     \/ Begin(s, op, n, 0) = Return(t) /\ t.op = op /\ t.n = n
<1> DEFINE b == Begin(s, op, n, 0)
<1>1. CASE ~Usable(s) \/ (s.state = "ready" /\ op \notin Ops)
  <2>1. b = Raise(s)
    BY <1>1 DEF Begin
  <2> QED  BY <2>1, KeptItself DEF Kept
<1>2. CASE Usable(s) /\ \/ s.state # "ready"
                        \/ op \in Ops /\ (n < 0 \/ (op = "barrier" /\ n # 0))
  <2>1. b = Fail(s, "protocol", s.rank)
    BY <1>2 DEF Begin
  <2> DEFINE u == FailWith(s, "protocol", s.rank)
  <2>2. Kept(s, u)
    BY FailArguments, FailKeeps
  <2>3. b = Raise(u)
    BY <2>1 DEF Fail
  <2> HIDE DEF u
  <2> QED  BY <2>2, <2>3 DEF Kept
<1>3. CASE Usable(s) /\ s.state = "ready" /\ op \in Ops /\ ~(n < 0 \/ (op = "barrier" /\ n # 0))
  <2>1. s.lost = {}
    BY <1>3 DEF Healthy
  <2> DEFINE t == [s EXCEPT !.state = "in_flight", !.op = op, !.n = n, !.deadline = 0 + Timeout]
  <2>2. b = Return(t)
    BY <1>3, <2>1 DEF Begin
  <2>3. t \in Session
    <3>1. n \in Nat /\ 0 + Timeout \in Nat
      BY <1>3, TimeoutAssumption
    <3> QED  BY <1>3, <3>1 DEF Healthy, Session, States
  <2>4. t.epoch = s.epoch /\ t.seq = s.seq /\ t.op = op /\ t.n = n /\ t.lost = {}
    BY <2>1 DEF Healthy, Session
  <2> HIDE DEF t, b
  <2>5. Healthy(t)
    BY <2>3, <2>4 DEF Healthy
  <2>6. Begin(s, op, n, 0) = Return(t)
    BY <2>2 DEF b
  <2> QED  BY <2>4, <2>5, <2>6
<1> QED  BY <1>1, <1>2, <1>3

\* A deadline check changes nothing or ends the session under the number it had.
LEMMA CheckDeadlineLaw ==
    ASSUME NEW s, Healthy(s), NEW now \in Nat
    PROVE  \/ CheckDeadline(s, now) = Return(s)
           \/ \E t : CheckDeadline(s, now) = Raise(t) /\ Kept(s, t)
<1>1. CheckDeadline(s, now) \in {Return(s), Fail(s, "timeout", s.rank)}
  BY DEF CheckDeadline
<1> QED  BY <1>1, FailArguments, FailKeeps DEF Fail

\* A frame Validate lets through carries the session's number and the shape of its call.
LEMMA ValidateLaw ==
    ASSUME NEW s, Healthy(s), NEW h \in Header, NEW msg, NEW q
    PROVE  \/ \E t : Validate(s, h, msg, q) = Raise(t) /\ Kept(s, t)
           \/ /\ Validate(s, h, msg, q) = Return(s)
              /\ SameNumber(h, s) /\ h.op = s.op /\ h.n = s.n
<1> DEFINE v == Validate(s, h, msg, q)
<1>1. h.sender \in Int
  BY NAssumption DEF Header, Ranks
<1>2. \/ v = Raise(s)
      \/ \E c \in {"protocol", "job", "schema", "out_of_order", "peer_lost"},
            r \in {s.rank, h.sender} : v = Fail(s, c, r)
      \/ v = Return(s) /\ SameNumber(h, s) /\ h.op = s.op /\ h.n = s.n
  BY DEF Validate, SameNumber
<1> HIDE DEF v
<1>3. CASE \E c \in {"protocol", "job", "schema", "out_of_order", "peer_lost"},
              r \in {s.rank, h.sender} : v = Fail(s, c, r)
  <2>1. PICK c \in Codes, r \in Int : v = Fail(s, c, r)
    BY <1>1, <1>3, FailArguments
  <2> QED  BY <2>1, FailKeeps DEF Fail, v
<1> QED  BY <1>2, <1>3, KeptItself DEF v

\* Finish goes on to the next seq of the epoch, or ends the session.
LEMMA FinishLaw ==
    ASSUME NEW s, Healthy(s)
    PROVE  \E t : \/ Finish(s) = Raise(t) /\ Kept(s, t)
                  \/ /\ Finish(s) = Return(t) /\ Healthy(t)
                     /\ t.epoch = s.epoch /\ t.seq = s.seq + 1
<1>1. CASE s.state # "in_flight"
  <2>1. Finish(s) = Fail(s, "protocol", s.rank)
    BY <1>1 DEF Finish
  <2> QED  BY <2>1, FailArguments, FailKeeps DEF Fail
<1>2. CASE s.state = "in_flight"
  <2> DEFINE t == [s EXCEPT !.completed = @ + 1, !.elements = @ + s.n,
                            !.seq = @ + 1, !.op = NoOp, !.n = 0, !.state = "ready"]
  <2>1. Finish(s) = Return(t)
    BY <1>2 DEF Finish
  <2>2. t \in Session
    <3>1. s.completed + 1 \in Nat /\ s.elements + s.n \in Nat /\ s.seq + 1 \in Nat
      BY DEF Healthy, Session
    <3> QED  BY <3>1 DEF Healthy, Session, States, NoOp
  <2>3. t.epoch = s.epoch /\ t.seq = s.seq + 1 /\ t.lost = {}
    BY <1>2 DEF Healthy, Session
  <2> HIDE DEF t
  <2> QED  BY <2>1, <2>2, <2>3 DEF Healthy
<1> QED  BY <1>1, <1>2

\* NextEpoch goes on to seq 0 of the next epoch, or ends the session.
LEMMA NextEpochLaw ==
    ASSUME NEW s, Healthy(s)
    PROVE  \E t : \/ NextEpoch(s) = Raise(t) /\ Kept(s, t)
                  \/ /\ NextEpoch(s) = Return(t) /\ Healthy(t)
                     /\ t.epoch = s.epoch + 1 /\ t.seq = 0
<1>1. CASE ~Usable(s)
  <2>1. NextEpoch(s) = Raise(s)
    BY <1>1 DEF NextEpoch
  <2> QED  BY <2>1, KeptItself
<1>2. CASE Usable(s) /\ s.state # "ready"
  <2>1. NextEpoch(s) = Fail(s, "protocol", s.rank)
    BY <1>2 DEF NextEpoch
  <2> QED  BY <2>1, FailArguments, FailKeeps DEF Fail
<1>3. CASE Usable(s) /\ s.state = "ready"
  <2> DEFINE t == [s EXCEPT !.epoch = @ + 1, !.seq = 0]
  <2>1. NextEpoch(s) = Return(t)
    BY <1>3 DEF NextEpoch
  <2>2. t \in Session
    <3>1. s.epoch + 1 \in Nat
      BY DEF Healthy, Session
    <3> QED  BY <3>1 DEF Healthy, Session
  <2>3. t.epoch = s.epoch + 1 /\ t.seq = 0 /\ t.lost = {}
    BY <1>3 DEF Healthy, Session
  <2> HIDE DEF t
  <2> QED  BY <2>1, <2>2, <2>3 DEF Healthy
<1> QED  BY <1>1, <1>2, <1>3

\* A cancellation keeps the record healthy and its number.
LEMMA CancelLaw ==
    ASSUME NEW s, Healthy(s)
    PROVE  Kept(s, Cancel(s))
  BY FailArguments DEF Healthy, Kept, Cancel, Session, States, Codes

\* So does learning that a peer is gone.
LEMMA MarkLostLaw ==
    ASSUME NEW s, Healthy(s), NEW q \in Ranks
    PROVE  Kept(s, MarkLost(s, q).session)
<1> DEFINE t == FailWith(s, "peer_lost", q)
<1>1. Kept(s, t) /\ t.state \in {"failed", "cancelled"}
  BY FailArguments, FailKeeps
<1>2. MarkLost(s, q).session = [t EXCEPT !.lost = @ \union {q}]
  BY DEF MarkLost, Return
<1> HIDE DEF t
<1> QED  BY <1>1, <1>2 DEF Kept, Healthy, Session

\* And so does a shutdown.
LEMMA CloseLaw ==
    ASSUME NEW s, Healthy(s)
    PROVE  Kept(s, Close(s))
  BY DEF Healthy, Kept, Close, Session, States

-----------------------------------------------------------------------------
(* What the steps do to a connection.                                      *)

\* What a frame says when it is read.
Reading(f) == [header |-> f.header, payload |-> f.payload]

\* Taking a frame off a link leaves only frames that were on it, and the one taken was.
LEMMA ReadTail ==
    ASSUME NEW s \in Seq(Frame), s # <<>>
    PROVE  /\ Tail(s) \in Seq(Frame) /\ Head(s) \in Frame
           /\ Reading(Head(s)) \in Read(s) /\ Read(Tail(s)) \subseteq Read(s)
<1>1. Tail(s) \in Seq(Frame) /\ Head(s) = s[1] /\ 1 \in 1 .. Len(s) /\ s[1] \in Frame
  OBVIOUS
<1>2. ASSUME NEW i \in 1 .. Len(Tail(s))
      PROVE  i + 1 \in 1 .. Len(s) /\ Tail(s)[i] = s[i + 1]
  BY <1>1
<1> QED  BY <1>1, <1>2 DEF Read, Reading

\* Sending adds to what can be read from a link the one frame sent.
LEMMA ReadAppend ==
    ASSUME NEW s \in Seq(Frame), NEW f \in Frame
    PROVE  /\ Append(s, f) \in Seq(Frame)
           /\ Read(Append(s, f)) \subseteq Read(s) \union {Reading(f)}
<1>1. ASSUME NEW i \in 1 .. Len(Append(s, f))
      PROVE  Append(s, f)[i] = f \/ (i \in 1 .. Len(s) /\ Append(s, f)[i] = s[i])
  OBVIOUS
<1> QED  BY <1>1 DEF Read, Reading

\* A frame that arrives twice adds nothing that was not there to be read.
LEMMA ReadDuplicate ==
    ASSUME NEW s \in Seq(Frame), s # <<>>
    PROVE  /\ <<Head(s)>> \o s \in Seq(Frame)
           /\ Read(<<Head(s)>> \o s) \subseteq Read(s)
<1> DEFINE t == <<Head(s)>> \o s
<1>1. Head(s) = s[1] /\ s[1] \in Frame /\ 1 \in 1 .. Len(s)
  OBVIOUS
<1>2. t \in Seq(Frame) /\ Len(t) = Len(s) + 1
  BY <1>1
<1>3. ASSUME NEW i \in 1 .. Len(t)
      PROVE  \E j \in 1 .. Len(s) : t[i] = s[j]
  <2>1. CASE i = 1
    BY <1>1, <2>1
  <2>2. CASE i # 1
    BY <1>2, <2>2
  <2> QED  BY <2>1, <2>2
<1> HIDE DEF t
<1>4. Read(t) \subseteq Read(s)
  BY <1>3 DEF Read
<1> QED  BY <1>2, <1>4 DEF t

\* Corrupting a frame marks it and leaves what was written in it.
LEMMA ReadCorrupted ==
    ASSUME NEW s \in Seq(Frame), s # <<>>
    PROVE  /\ [s EXCEPT ![1].corrupt = TRUE] \in Seq(Frame)
           /\ Read([s EXCEPT ![1].corrupt = TRUE]) = Read(s)
<1> DEFINE t == [s EXCEPT ![1].corrupt = TRUE]
<1>1. 1 \in 1 .. Len(s) /\ s[1] \in Frame
  OBVIOUS
<1>2. [s[1] EXCEPT !.corrupt = TRUE] \in Frame
  BY <1>1 DEF Frame
<1>3. t \in Seq(Frame) /\ Len(t) = Len(s)
  BY <1>1, <1>2
<1>4. ASSUME NEW i \in 1 .. Len(s)
      PROVE  t[i].header = s[i].header /\ t[i].payload = s[i].payload
  <2>1. s[i] \in Frame
    OBVIOUS
  <2>2. t[i] = IF i = 1 THEN [s[1] EXCEPT !.corrupt = TRUE] ELSE s[i]
    OBVIOUS
  <2> QED  BY <1>1, <2>1, <2>2 DEF Frame
<1> HIDE DEF t
<1>5. Read(t) = Read(s)
  BY <1>3, <1>4 DEF Read
<1> QED  BY <1>3, <1>5 DEF t

\* The star: a rank's peers are at the other ends of its links.
LEMMA Star ==
    /\ Root \in Ranks /\ Ranks \subseteq Int /\ 1 \in Ranks
    /\ \A r \in Ranks : \A q \in Peers(r) :
         q \in Ranks /\ <<q, r>> \in Links /\ <<r, q>> \in Links
    /\ \A q \in Workers : <<q, Root>> \in Links /\ <<Root, q>> \in Links /\ q \in Ranks /\ q # Root
    /\ \A r \in Ranks : r # Root => r \in Workers /\ Peers(r) = {Root}
    /\ Peers(Root) = Workers /\ \A r \in Ranks : FirstPeer(r) \in Peers(r)
    /\ \A l \in Links : l \in Ranks \X Ranks
  BY NAssumption DEF Ranks, Root, Peers, Links, Workers, FirstPeer

-----------------------------------------------------------------------------
(* The types.                                                              *)

\* The numbers of a rank are naturals and its calls are of the three operations.
LEMMA Bounds ==
    ASSUME Types
    PROVE  /\ \A r \in Ranks : /\ calls[r] \in Nat /\ Len(results[r]) \in Nat
                               /\ session[r].epoch \in Nat /\ session[r].seq \in Nat
                               /\ Len(schedule[r]) \in Nat
                               /\ session[r] \in Session
           /\ \A r \in Ranks : \A k \in 1 .. Len(schedule[r]) :
                /\ schedule[r][k].op \in Ops /\ schedule[r][k].n \in 0 .. MaxElements
                /\ schedule[r][k].epoch \in BOOLEAN
<1>1. /\ session \in [Ranks -> Session] /\ calls \in [Ranks -> Nat]
      /\ schedule \in [Ranks -> Schedules] /\ results \in [Ranks -> Seq(Payloads)]
  BY DEF Types, TypeOK
<1>2. ASSUME NEW r \in Ranks PROVE schedule[r] \in Seq([op: Ops, n: 0 .. MaxElements, epoch: BOOLEAN])
  BY <1>1, ScheduleAssumption
<1>3. ASSUME NEW r \in Ranks, NEW k \in 1 .. Len(schedule[r])
      PROVE  schedule[r][k] \in [op: Ops, n: 0 .. MaxElements, epoch: BOOLEAN]
  <2> DEFINE T == [op: Ops, n: 0 .. MaxElements, epoch: BOOLEAN]
  <2>1. schedule[r] \in Seq(T)
    BY <1>2
  <2> HIDE DEF T
  <2>2. schedule[r][k] \in T
    BY <2>1
  <2> QED  BY <2>2 DEF T
<1> QED  BY <1>1, <1>2, <1>3 DEF Session

\* The root has gathered from ranks only, and its next peer is one.
LEMMA GatheredType ==
    ASSUME Types
    PROVE  Gathered \subseteq Ranks /\ peer[Root] \in Ranks
<1>1. peer[Root] \in 0 .. N - 1
  BY Star DEF Types, TypeOK, Ranks
<1>2. 0 .. peer[Root] - 1 \subseteq 0 .. N - 1
  BY <1>1, NAssumption
<1> QED  BY <1>1, <1>2 DEF Gathered, Ranks

\* The fold over the first m ranks is a payload.
LEMMA PartialType ==
    ASSUME NEW r \in Ranks, NEW k \in Nat, NEW m \in 0 .. N
    PROVE  Partial(r, k, m) \in Payloads
<1>1. CASE schedule[r][k].op = "barrier"
  BY <1>1 DEF Partial, Payloads
<1>2. CASE schedule[r][k].op # "barrier"
  <2>1. \A i \in 1 .. m : Contribution(i - 1, k) \in [rank: Ranks, call: Nat]
    BY NAssumption DEF Contribution, Ranks
  <2>2. [i \in 1 .. m |-> Contribution(i - 1, k)] \in Payloads
    BY <2>1, NAssumption DEF Payloads
  <2> QED  BY <1>2, <2>2 DEF Partial
<1> QED  BY <1>1, <1>2

\* What a rank contributes to a call is a payload.
LEMMA PayloadType ==
    ASSUME NEW r \in Ranks, NEW k \in Nat
    PROVE  Payload(r, k) \in Payloads
<1>1. Contribution(r, k) \in [rank: Ranks, call: Nat]
  BY DEF Contribution
<1>2. <<>> \in Payloads /\ <<Contribution(r, k)>> \in Payloads
  BY <1>1 DEF Payloads
<1> QED  BY <1>2 DEF Payload

\* The frame a rank sends.
Sent(r) == [header |-> HeaderOf(session[r], IF r = Root THEN "result" ELSE "contrib"),
            payload |-> buf[r], corrupt |-> FALSE]

\* What a rank puts on a link is a frame.
LEMMA SentType ==
    ASSUME IInv, NEW r \in Ranks, pc[r] = "send"
    PROVE  Sent(r) \in Frame
<1>1. session[r] \in Session /\ buf[r] \in Payloads
  BY Bounds DEF IInv, Types
<1>2. InCall(r) /\ session[r].op = Call(r).op /\ calls[r] = Len(results[r]) + 1
      /\ calls[r] <= Len(schedule[r])
  BY DEF IInv, Local, InCall
<1>3. session[r].op \in Ops
  BY <1>2, Bounds DEF IInv, Call
<1>4. HeaderOf(session[r], IF r = Root THEN "result" ELSE "contrib") \in Header
  BY <1>1, <1>3 DEF HeaderOf, Header, Session, Msgs, Job, Version
<1> QED  BY <1>1, <1>4 DEF Sent, Frame, Payloads

\* The invariant holds before the first call.
LEMMA InitIInv == Init => IInv
<1> SUFFICES ASSUME Init PROVE IInv
  OBVIOUS
<1>1. ASSUME NEW r \in Ranks
      PROVE  /\ Healthy(session[r]) /\ session[r].epoch = 0 /\ session[r].seq = 0
  <2> DEFINE s == NewSession(r, 0)
             t == [s EXCEPT !.state = "ready"]
  <2>1. session[r] = CompleteHandshake(s, "ok", Root).session
    BY <1>1 DEF Init
  <2>2. CompleteHandshake(s, "ok", Root).session = t
    BY DEF CompleteHandshake, Return, NewSession, Usable, Terminal
  <2>3. t \in Session /\ t.epoch = 0 /\ t.seq = 0 /\ t.lost = {}
    BY <1>1 DEF NewSession, Session, States, Codes, NoOp
  <2> HIDE DEF t
  <2> QED  BY <2>1, <2>2, <2>3 DEF Healthy
<1>2. session = [r \in Ranks |-> session[r]]
  BY DEF Init
<1>3. Types
  <2>1. session \in [Ranks -> Session]
    BY <1>1, <1>2 DEF Healthy
  <2>2. peer \in [Ranks -> Ranks] /\ \A r \in Ranks : peer[r] \in Peers(r)
    BY Star DEF Init
  <2>3. wire \in [Links -> Seq(Frame)]
    BY DEF Init
  <2>4. buf \in [Ranks -> Payloads] /\ results \in [Ranks -> Seq(Payloads)]
    BY DEF Init, Payloads
  <2>5. /\ schedule \in [Ranks -> Schedules] /\ clock \in [Ranks -> Nat]
        /\ pc \in [Ranks -> PCs] /\ calls \in [Ranks -> Nat]
        /\ live \subseteq fds /\ fds \subseteq Links /\ faults \in Nat
    BY DEF Init, PCs
  <2> QED  BY <1>1, <2>1, <2>2, <2>3, <2>4, <2>5 DEF Types, TypeOK
<1>4. /\ \A r \in Ranks : pc[r] = "idle" /\ calls[r] = 0 /\ results[r] = <<>>
      /\ \A l \in Links : Contents(l) = {}
  BY DEF Init, Contents, Read
<1>5. ASSUME NEW r \in Ranks PROVE Local(r) /\ Backed(r) /\ Numbered(r)
  <2>1. Local(r) /\ Backed(r)
    BY <1>3, <1>4, Bounds DEF Local, Backed, InCall
  <2>2. Behind(r) = 0 /\ Checkpoints(r, 0) = {}
    BY <1>4 DEF Behind, Checkpoints
  <2>3. Cardinality({}) = 0 /\ Len(results[r]) = 0
    BY <1>4, FS_EmptySet
  <2>4. Numbered(r)
    BY <1>1, <2>2, <2>3 DEF Numbered
  <2> QED  BY <2>1, <2>4
<1>6. Gathered = {} /\ ~InCall(Root)
  BY <1>4, Star DEF Gathered, Gathering, InCall
<1>7. ASSUME NEW q \in Workers PROVE WorkerBuffer(q) /\ Pace(q)
  <2>1. q \in Ranks /\ Root \in Ranks
    BY Star
  <2>2. results[q] = <<>> /\ results[Root] = <<>> /\ calls[q] = 0 /\ pc[q] = "idle"
    BY <1>4, <2>1
  <2>3. Taken(q) = 0 /\ Len(results[q]) = 0
    BY <1>6, <2>2 DEF Taken
  <2> QED  BY <1>6, <2>2, <2>3 DEF WorkerBuffer, Pace
<1> QED  BY <1>3, <1>4, <1>5, <1>6, <1>7, Star DEF IInv, RootBuffer

-----------------------------------------------------------------------------
(* The steps that move no call on: they read, lose, corrupt or repeat      *)
(* frames, end a driver, or change how a session stands.                   *)

QuietPc(r) ==
    \/ pc'[r] = pc[r]
    \/ pc[r] = "recv" /\ pc'[r] = "wait"
    \/ pc[r] = "idle" /\ pc'[r] = "returned"
    \/ pc'[r] \in {"raised", "stopped", "dead"}

Quiet ==
    /\ UNCHANGED <<schedule, calls, results, peer, buf>>
    /\ \A r \in Ranks : Kept(session[r], session'[r]) /\ QuietPc(r)
    /\ \A l \in Links : Contents(l)' \subseteq Contents(l)

\* A quiet step (no call entered or finished, nothing sent, folded or renumbered) keeps it.
LEMMA QuietKeeps ==
    ASSUME IInv, Types', Quiet
    PROVE  IInv'
<1> USE DEF Quiet
<1>1. ASSUME NEW r \in Ranks
      PROVE  /\ Running(r)' => Running(r)
             /\ InCall(r)' => InCall(r)
             /\ Running(r)' => (InCall(r)' <=> InCall(r))
             /\ \A l \in {"idle", "send", "finish", "epoch"} : pc'[r] = l => pc[r] = l
             /\ Running(r)' => (pc'[r] = "epoch" <=> pc[r] = "epoch")
  BY DEF QuietPc, Running, InCall
<1>2. Running(Root)' => (Gathering' <=> Gathering) /\ Gathered' = Gathered
  BY <1>1, Star DEF QuietPc, Running, Gathering, Gathered, InCall
<1>3. /\ \A r, k : Complete(r, k)' <=> Complete(r, k)
      /\ \A r, k, m : Partial(r, k, m)' = Partial(r, k, m)
      /\ \A r, k : Reduction(r, k)' = Reduction(r, k)
      /\ \A r, k : Payload(r, k)' = Payload(r, k)
      /\ \A r, q, k : SameCall(r, q, k)' <=> SameCall(r, q, k)
      /\ \A r : Call(r)' = Call(r)
  BY DEF Complete, SameCall, Partial, Reduction, Payload, Call
<1>4. \A q : Running(Root)' => Taken(q)' = Taken(q)
  BY <1>2 DEF Taken
<1>5. \A r \in Ranks : /\ session'[r].epoch = session[r].epoch /\ session'[r].seq = session[r].seq
                       /\ session'[r].op = session[r].op /\ session'[r].n = session[r].n
  BY DEF Kept
<1> HIDE DEF Quiet
<1>6. ASSUME NEW r \in Ranks PROVE Local(r)'
  <2>1. Local(r)
    BY DEF IInv
  <2> QED  BY <1>1, <1>3, <1>5, <2>1 DEF Local, Quiet, QuietPc
<1>7. ASSUME NEW r \in Ranks PROVE Backed(r)'
  <2>1. Backed(r)
    BY DEF IInv
  <2> QED  BY <1>3, <2>1 DEF Backed, Quiet
<1>8. ASSUME NEW r \in Ranks PROVE Numbered(r)'
  <2>1. Numbered(r)
    BY DEF IInv
  <2>2. Running(r)' => Behind(r)' = Behind(r)
    BY <1>1 DEF Behind, Quiet
  <2>3. \A m : Checkpoints(r, m)' = Checkpoints(r, m)
    BY DEF Checkpoints, Quiet
  <2> QED  BY <1>1, <1>5, <2>1, <2>2, <2>3 DEF Numbered, Quiet
<1>9. RootBuffer'
  <2>1. RootBuffer
    BY DEF IInv
  <2>2. InCall(Root)' => Running(Root)'
    BY DEF InCall, Running
  <2> QED  BY <1>1, <1>2, <1>3, <2>1, <2>2, Star DEF RootBuffer, Quiet
<1>10. ASSUME NEW q \in Workers
       PROVE  /\ WorkerBuffer(q)' /\ Pace(q)'
              /\ \A c \in Contents(<<q, Root>>)' : ContributionFrame(q, c)'
              /\ \A c \in Contents(<<Root, q>>)' : ResultFrame(q, c)'
  <2>1. q \in Ranks /\ Root \in Ranks /\ <<q, Root>> \in Links /\ <<Root, q>> \in Links
    BY Star
  <2>2. WorkerBuffer(q)'
    <3>1. WorkerBuffer(q)
      BY DEF IInv
    <3> QED  BY <1>1, <1>3, <1>4, <2>1, <3>1 DEF WorkerBuffer, Quiet
  <2>3. Pace(q)'
    <3>1. Pace(q)
      BY DEF IInv
    <3>2. CASE ~Running(Root)'
      BY <3>2 DEF Pace
    <3>3. CASE Running(Root)'
      <4>1. Running(Root) /\ Gathered' = Gathered /\ Taken(q)' = Taken(q)
        BY <1>1, <1>2, <1>4, <2>1, <3>3
      <4>2. calls' = calls /\ results' = results /\ (pc'[q] = "send" => pc[q] = "send")
        BY <1>1, <2>1 DEF Quiet
      <4>3. /\ Before(session'[Root], session'[q]) <=> Before(session[Root], session[q])
            /\ SameNumber(session'[Root], session'[q]) <=> SameNumber(session[Root], session[q])
        BY <1>5, <2>1 DEF Before, SameNumber
      <4> QED  BY <3>1, <4>1, <4>2, <4>3 DEF Pace
    <3> QED  BY <3>2, <3>3
  <2>4. ASSUME NEW c \in Contents(<<q, Root>>)' PROVE ContributionFrame(q, c)'
    <3>1. ContributionFrame(q, c)
      BY <2>1 DEF IInv, Quiet
    <3>2. (Running(Root)' /\ pc[q] # "send") => pc'[q] # "send"
      BY <1>1, <2>1
    <3> QED  BY <1>1, <1>2, <1>3, <1>4, <1>5, <2>1, <3>1, <3>2 DEF ContributionFrame, Before, SameNumber, Quiet
  <2>5. ASSUME NEW c \in Contents(<<Root, q>>)' PROVE ResultFrame(q, c)'
    <3>1. ResultFrame(q, c)
      BY <2>1 DEF IInv, Quiet
    <3> QED  BY <1>1, <1>3, <1>4, <1>5, <2>1, <3>1 DEF ResultFrame, Before, SameNumber, Quiet
  <2> QED  BY <2>2, <2>3, <2>4, <2>5
<1> QED  BY <1>6, <1>7, <1>8, <1>9, <1>10 DEF IInv

-----------------------------------------------------------------------------
(* The steps that move a call on, one lemma each.                          *)

\* Nothing but one rank's session changed, and not its number.
OnlyItsCall(r) ==
    \A p \in Ranks :
        /\ session'[p].epoch = session[p].epoch /\ session'[p].seq = session[p].seq
        /\ p # r => session'[p] = session[p]

\* Entering a call keeps it: the new contribution is the one the root folds next.
LEMMA StartCallKeeps ==
    ASSUME IInv, Types', NEW r \in Ranks, StartCall(r),
           ~Begin(session[r], schedule[r][calls[r] + 1].op, schedule[r][calls[r] + 1].n, 0).raised
    PROVE  IInv'
<1> DEFINE k == calls[r] + 1
           label == IF r = Root THEN "recv" ELSE "send"
<1>1. /\ pc[r] = "idle" /\ calls[r] < Len(schedule[r])
      /\ pc' = [pc EXCEPT ![r] = label]
      /\ calls' = [calls EXCEPT ![r] = k]
      /\ buf' = [buf EXCEPT ![r] = Payload(r, k)]
      /\ peer' = [peer EXCEPT ![r] = FirstPeer(r)]
      /\ session' = [session EXCEPT ![r] = Begin(session[r], schedule[r][k].op, schedule[r][k].n, 0).session]
      /\ UNCHANGED <<schedule, results, wire>>
  BY DEF StartCall, Raised, SetSession, Goto
<1>2. Types /\ session \in [Ranks -> Session] /\ calls \in [Ranks -> Nat] /\ pc \in [Ranks -> PCs]
      /\ DOMAIN buf = Ranks /\ DOMAIN peer = Ranks
  BY DEF IInv, Types, TypeOK
<1>3. calls[r] \in Nat /\ calls[r] = Len(results[r]) /\ Len(results[r]) \in Nat
  BY <1>1, <1>2, Bounds DEF IInv, Local
<1>4. /\ OnlyItsCall(r)
      /\ session'[r].op = schedule[r][k].op /\ session'[r].n = schedule[r][k].n
  <2>1. Healthy(session[r]) /\ schedule[r][k].n \in Int
    <3>1. k \in 1 .. Len(schedule[r])
      BY <1>1, <1>2, <1>3, Bounds
    <3>2. schedule[r][k].n \in 0 .. MaxElements
      BY <1>2, <3>1, Bounds
    <3> QED  BY <1>2, <3>2, MaxElementsAssumption DEF Types
  <2> DEFINE b == Begin(session[r], schedule[r][k].op, schedule[r][k].n, 0)
  <2>2. PICK t : /\ t.epoch = session[r].epoch /\ t.seq = session[r].seq
                 /\ \/ b = Raise(t)
                    \/ b = Return(t) /\ t.op = schedule[r][k].op /\ t.n = schedule[r][k].n
    BY <2>1, BeginLaw
  <2>3. b = Return(t) /\ t.op = schedule[r][k].op /\ t.n = schedule[r][k].n
    BY <2>2, Endings
  <2>4. session'[r] = t
    BY <1>1, <1>2, <2>3, Endings
  <2>5. \A p \in Ranks : p # r => session'[p] = session[p]
    BY <1>1, <1>2
  <2> QED  BY <2>2, <2>3, <2>4, <2>5 DEF OnlyItsCall
<1>5. /\ \A p \in Ranks : p # r => /\ pc'[p] = pc[p] /\ calls'[p] = calls[p]
                                   /\ buf'[p] = buf[p] /\ peer'[p] = peer[p]
      /\ pc'[r] = label /\ calls'[r] = k /\ buf'[r] = Payload(r, k) /\ peer'[r] = FirstPeer(r)
      /\ \A p \in Ranks : calls[p] \in Nat /\ calls'[p] \in Nat /\ calls'[p] >= calls[p]
  BY <1>1, <1>2, <1>3
<1> HIDE DEF label
<1>6. /\ \A p, m : SameCall(p, r, m)' <=> SameCall(p, r, m)
      /\ \A p, q, m : SameCall(p, q, m)' <=> SameCall(p, q, m)
      /\ \A p, m, i : Partial(p, m, i)' = Partial(p, m, i)
      /\ \A p, m : Reduction(p, m)' = Reduction(p, m)
      /\ \A p, m : Payload(p, m)' = Payload(p, m)
  BY <1>1 DEF SameCall, Partial, Reduction, Payload
<1>7. ASSUME NEW p \in Ranks, NEW m \in Nat, Complete(p, m) PROVE Complete(p, m)'
  BY <1>5, <1>6, <1>7 DEF Complete
<1>8. ASSUME NEW p \in Ranks PROVE Local(p)' /\ Backed(p)' /\ Numbered(p)'
  <2>1. Local(p) /\ Backed(p) /\ Numbered(p)
    BY DEF IInv
  <2>2. Local(p)'
    <3>1. CASE p = r
      <4>1. /\ calls'[p] = k /\ Len(results'[p]) = calls[p] /\ k <= Len(schedule'[p])
            /\ pc'[p] \in {"recv", "send"} /\ Call(p)' = schedule[p][k]
        BY <1>1, <1>2, <1>3, <1>5, <3>1, Bounds DEF label, Call
      <4> QED  BY <1>3, <1>4, <3>1, <4>1 DEF Local, InCall
    <3>2. CASE p # r
      <4>1. calls'[p] = calls[p] /\ pc'[p] = pc[p] /\ session'[p] = session[p]
        BY <1>4, <1>5, <3>2 DEF OnlyItsCall
      <4> QED  BY <1>1, <2>1, <4>1 DEF Local, InCall, Call
    <3> QED  BY <3>1, <3>2
  <2>3. Backed(p)'
    BY <1>1, <1>6, <1>7, <2>1, <1>2, Bounds DEF Backed
  <2>4. Behind(p)' = Behind(p) /\ (Running(p)' => Running(p))
    BY <1>1, <1>5 DEF Behind, Running, label
  <2>6. session'[p].epoch = session[p].epoch /\ session'[p].seq = session[p].seq /\ results' = results
    BY <1>1, <1>4 DEF OnlyItsCall
  <2>7. Checkpoints(p, Behind(p))' = Checkpoints(p, Behind(p))
    BY <2>4, <1>1 DEF Checkpoints
  <2>8. Numbered(p)'
    BY <2>1, <2>4, <2>6, <2>7 DEF Numbered
  <2> QED  BY <2>2, <2>3, <2>8
<1>9. /\ r = Root => /\ Gathered = {} /\ Gathered' = {Root} /\ Gathering' /\ peer'[Root] = 1
                     /\ ~InCall(Root)
      /\ r # Root => Gathered' = Gathered /\ (Gathering' <=> Gathering) /\ (InCall(Root)' <=> InCall(Root))
      /\ Running(Root)' => Running(Root)
  <2>1. CASE r = Root
    <3>1. pc[Root] = "idle" /\ pc'[Root] = "recv" /\ peer'[Root] = 1
      BY <1>1, <1>5, <2>1 DEF label, FirstPeer
    <3>2. Gathered = {} /\ ~InCall(Root) /\ Gathering' /\ Running(Root)
      BY <3>1 DEF Gathered, Gathering, InCall, Running
    <3>3. Gathered' = 0 .. 1 - 1
      BY <3>1, <3>2 DEF Gathered
    <3> QED  BY <2>1, <3>1, <3>2, <3>3 DEF Root
  <2>2. CASE r # Root
    BY <1>5, <2>2, Star DEF Gathered, Gathering, InCall, Running
  <2> QED  BY <2>1, <2>2
<1>10. ASSUME NEW q \in Workers PROVE Taken(q)' = Taken(q) /\ Taken(q) \in Nat
  <2>1. q # Root /\ Len(results[Root]) \in Nat
    BY <1>2, Bounds, Star
  <2>2. q \in Gathered' <=> q \in Gathered
    BY <1>9, <2>1
  <2>3. Len(results'[Root]) = Len(results[Root])
    BY <1>1
  <2>4. CASE q \in Gathered
    <3>1. Taken(q)' = Len(results'[Root]) + 1 /\ Taken(q) = Len(results[Root]) + 1
      BY <2>2, <2>4 DEF Taken
    <3> QED  BY <2>1, <2>3, <3>1
  <2>5. CASE q \notin Gathered
    <3>1. Taken(q)' = Len(results'[Root]) + 0 /\ Taken(q) = Len(results[Root]) + 0
      BY <2>2, <2>5 DEF Taken
    <3> QED  BY <2>1, <2>3, <3>1
  <2> QED  BY <2>4, <2>5
<1>11. RootBuffer'
  <2>1. CASE r = Root
    <3>1. buf'[Root] = Partial(Root, k, 1)
      <4>1. Payload(Root, k) = Partial(Root, k, 1)
        <5>1. [i \in 1 .. 1 |-> Contribution(i - 1, k)] = <<Contribution(0, k)>>
          OBVIOUS
        <5> QED  BY <5>1 DEF Payload, Partial, Root
      <4> QED  BY <1>5, <2>1, <4>1
    <3>2. calls'[Root] = k /\ calls'[Root] >= calls'[Root] /\ SameCall(Root, Root, k)
      BY <1>5, <1>3, <2>1 DEF SameCall
    <3> QED  BY <1>6, <1>9, <2>1, <3>1, <3>2 DEF RootBuffer
  <2>2. CASE r # Root
    <3>1. RootBuffer
      BY DEF IInv
    <3>2. ASSUME NEW q \in Gathered, InCall(Root) PROVE calls'[q] >= calls[Root]
      <4>1. q \in Ranks /\ calls[q] >= calls[Root]
        BY <1>2, <3>1, <3>2, GatheredType DEF RootBuffer
      <4> QED  BY <1>5, <4>1, Star
    <3> QED  BY <1>5, <1>6, <1>9, <2>2, <3>1, <3>2, Star DEF RootBuffer
  <2> QED  BY <2>1, <2>2
<1>12. ASSUME NEW q \in Workers
       PROVE  /\ WorkerBuffer(q)' /\ Pace(q)'
              /\ \A c \in Contents(<<q, Root>>)' : ContributionFrame(q, c)'
              /\ \A c \in Contents(<<Root, q>>)' : ResultFrame(q, c)'
  <2>1. q \in Ranks /\ Root \in Ranks /\ <<q, Root>> \in Links /\ <<Root, q>> \in Links /\ q # Root
    BY Star
  <2>2. WorkerBuffer(q) /\ Pace(q)
    BY DEF IInv
  <2>3. /\ calls[q] \in Nat /\ Len(results[q]) \in Nat /\ Taken(q) \in Nat
        /\ session[q] \in Session /\ session[Root] \in Session
    BY <1>2, <1>10, <2>1, Bounds
  <2>9. /\ session'[q].epoch = session[q].epoch /\ session'[q].seq = session[q].seq
        /\ session'[Root].epoch = session[Root].epoch /\ session'[Root].seq = session[Root].seq
        /\ \A v \in {session[q], session[Root]} : v.epoch \in Nat /\ v.seq \in Nat
        /\ q # r => session'[q] = session[q]
        /\ results' = results
        /\ q \in Gathered' <=> q \in Gathered
        /\ Taken(q)' = Taken(q)
    BY <1>1, <1>2, <1>4, <1>9, <1>10, <2>1, Bounds DEF OnlyItsCall
  <2>4. q = r /\ Running(Root) => calls[q] = Taken(q) /\ calls[q] = Len(results[q])
    BY <1>3, <2>2, <2>3 DEF Pace
  <2>5. WorkerBuffer(q)'
    <3>1. CASE q = r
      BY <1>5, <1>6, <2>1, <3>1 DEF WorkerBuffer, label
    <3>2. CASE q # r
      BY <1>5, <1>6, <1>7, <1>9, <1>10, <2>1, <2>2, <2>3, <3>2 DEF WorkerBuffer
    <3> QED  BY <3>1, <3>2
  <2>6. Pace(q)'
    <3> SUFFICES ASSUME Running(Root)' PROVE Pace(q)'
      BY DEF Pace
    <3>0. Running(Root)
      BY <1>9
    <3>1. CASE q = r
      <4>1. calls'[q] = Taken(q) + 1 /\ Len(results[q]) = Taken(q)
        BY <1>3, <1>5, <2>1, <2>4, <3>0, <3>1
      <4>2. q \in Gathered => Before(session[Root], session[q])
        BY <2>2, <2>3, <2>4, <3>0, <3>1 DEF Pace
      <4> QED  BY <2>3, <2>9, <4>1, <4>2 DEF Pace, Before
    <3>2. CASE q # r
      <4>1. calls'[q] = calls[q] /\ pc'[q] = pc[q]
        BY <1>5, <2>1, <3>2
      <4>2. q \in Gathered => calls'[Root] = calls[Root]
        BY <1>5, <1>9, <2>1
      <4> QED  BY <2>2, <2>9, <3>0, <4>1, <4>2 DEF Pace, Before, SameNumber
    <3> QED  BY <3>1, <3>2
  <2>7. ASSUME NEW c \in Contents(<<q, Root>>)' PROVE ContributionFrame(q, c)'
    <3>1. ContributionFrame(q, c)
      BY <1>1, <2>1 DEF IInv, Contents
    <3>2. CASE q = r
      BY <1>4, <1>9, <1>10, <2>1, <2>3, <2>4, <3>1, <3>2
        DEF ContributionFrame, OnlyItsCall, Before, SameNumber
    <3>3. CASE q # r
      <4>1. calls'[q] = calls[q] /\ pc'[q] = pc[q] /\ Call(q)' = Call(q) /\ (Running(Root)' => Running(Root))
        BY <1>1, <1>5, <1>9, <2>1, <3>3 DEF Call
      <4>2. Payload(q, calls[q])' = Payload(q, calls[q])
        BY <1>6, <4>1
      <4> QED  BY <2>9, <3>1, <4>1, <4>2 DEF ContributionFrame, Before, SameNumber
    <3> QED  BY <3>2, <3>3
  <2>8. ASSUME NEW c \in Contents(<<Root, q>>)' PROVE ResultFrame(q, c)'
    <3>1. ResultFrame(q, c)
      BY <1>1, <2>1 DEF IInv, Contents
    <3>2. CASE q = r
      BY <1>3, <1>4, <2>1, <3>1, <3>2 DEF ResultFrame, OnlyItsCall, Before, SameNumber
    <3>3. CASE q # r
      <4>1. calls'[q] = calls[q] /\ (Running(Root)' => Running(Root))
        BY <1>5, <1>9, <2>1, <3>3
      <4>2. /\ Reduction(q, calls[q])' = Reduction(q, calls[q])
            /\ Complete(q, calls[q]) => Complete(q, calls[q])'
        BY <1>6, <1>7, <2>1, <2>3, <4>1
      <4> QED  BY <2>9, <3>1, <4>1, <4>2 DEF ResultFrame, Before, SameNumber
    <3> QED  BY <3>2, <3>3
  <2> QED  BY <2>5, <2>6, <2>7, <2>8
<1> QED  BY <1>8, <1>11, <1>12 DEF IInv

\* What is not touched while no rank enters a call.
LEMMA CallsStand ==
    ASSUME UNCHANGED <<schedule, calls>>
    PROVE  /\ \A p, m : Complete(p, m)' <=> Complete(p, m)
           /\ \A p, q, m : SameCall(p, q, m)' <=> SameCall(p, q, m)
           /\ \A p, m, i : Partial(p, m, i)' = Partial(p, m, i)
           /\ \A p, m : Reduction(p, m)' = Reduction(p, m)
           /\ \A p, m : Payload(p, m)' = Payload(p, m)
           /\ \A p : Call(p)' = Call(p)
  BY DEF Complete, SameCall, Partial, Reduction, Payload, Call

\* The next contribution extends a partial reduction, whatever its op.
LEMMA FoldPartial ==
    ASSUME NEW k \in Nat, NEW q \in Nat, SameCall(Root, q, k)
    PROVE  Fold(Partial(Root, k, q), Payload(q, k)) = Partial(Root, k, q + 1)
<1>1. CASE schedule[Root][k].op = "barrier"
  <2>1. Partial(Root, k, q) = <<>> /\ Partial(Root, k, q + 1) = <<>> /\ Payload(q, k) = <<>>
    BY <1>1 DEF Partial, Payload, SameCall
  <2>2. <<>> \o <<>> = <<>>
    OBVIOUS
  <2> QED  BY <2>1, <2>2 DEF Fold
<1>2. CASE schedule[Root][k].op # "barrier"
  <2> DEFINE T == [rank: Nat, call: Nat]
             a == [i \in 1 .. q |-> Contribution(i - 1, k)]
             b == [i \in 1 .. q + 1 |-> Contribution(i - 1, k)]
  <2>1. Partial(Root, k, q) = a /\ Partial(Root, k, q + 1) = b /\ Payload(q, k) = <<Contribution(q, k)>>
    BY <1>2 DEF Partial, Payload, SameCall
  <2>2. \A i \in 1 .. q + 1 : Contribution(i - 1, k) \in T
    BY DEF Contribution
  <2> HIDE DEF T
  <2>3. a \in Seq(T) /\ Len(a) = q /\ b \in Seq(T) /\ Len(b) = q + 1
    BY <2>2
  <2>4. Contribution(q, k) \in T /\ b[q + 1] = Contribution(q, k)
    BY DEF Contribution, T
  <2>5. \A i \in 1 .. q : a[i] = b[i]
    OBVIOUS
  <2> HIDE DEF a, b
  <2>6. a \o <<Contribution(q, k)>> = b
    <3> DEFINE c == a \o <<Contribution(q, k)>>
    <3>1. c \in Seq(T) /\ Len(c) = q + 1
      BY <2>3, <2>4
    <3>2. \A i \in 1 .. q + 1 : c[i] = b[i]
      BY <2>3, <2>4, <2>5
    <3> HIDE DEF c
    <3>3. c = b
      BY <2>3, <3>1, <3>2
    <3> QED  BY <3>3 DEF c
  <2> QED  BY <2>1, <2>6 DEF Fold
<1> QED  BY <1>1, <1>2

\* The root folding a contribution keeps it: Validate has refused all but the next one of that
\* rank.
LEMMA RootReceivesKeeps ==
    ASSUME IInv, Types', Receive(Root), pc'[Root] # "raised"
    PROVE  IInv'
<1>0. PICK p \in Ranks : p = peer[Root]
  BY Star DEF IInv, Types, TypeOK
<1> DEFINE f == Head(wire[<<p, Root>>])
           last == p = N - 1
           k == calls[Root]
<1>1. /\ Types /\ pc \in [Ranks -> PCs] /\ session \in [Ranks -> Session]
      /\ DOMAIN buf = Ranks /\ DOMAIN peer = Ranks /\ wire \in [Links -> Seq(Frame)]
      /\ p \in Workers /\ p \in Ranks /\ Root \in Ranks /\ <<p, Root>> \in Links
      /\ p \in 1 .. N - 1
  <2>1. p \in Peers(Root)
    BY <1>0, Star DEF IInv, Types, TypeOK
  <2>2. p \in Workers /\ p \in Ranks /\ Root \in Ranks /\ <<p, Root>> \in Links
    BY <2>1, Star
  <2>3. p \in 1 .. N - 1
    BY <2>2, NAssumption DEF Workers, Ranks, Root
  <2> QED  BY <2>2, <2>3 DEF IInv, Types, TypeOK
<1>2. /\ pc[Root] = "wait" /\ wire[<<p, Root>>] # <<>>
      /\ wire' = [wire EXCEPT ![<<p, Root>>] = Tail(@)]
      /\ ~Validate(session[Root], f.header, "contrib", p).raised
      /\ buf' = [buf EXCEPT ![Root] = Fold(@, f.payload)]
      /\ peer' = [peer EXCEPT ![Root] = IF last THEN FirstPeer(Root) ELSE p + 1]
      /\ pc' = [pc EXCEPT ![Root] = IF last THEN "send" ELSE "recv"]
      /\ session' = [session EXCEPT ![Root] = Validate(session[Root], f.header, "contrib", p).session]
      /\ UNCHANGED <<schedule, calls, results>>
  BY <1>0, <1>1 DEF Receive, Raised, SetSession, Goto, LastPeer
<1>3. /\ f \in Frame /\ Reading(f) \in Contents(<<p, Root>>)
      /\ Contents(<<p, Root>>)' \subseteq Contents(<<p, Root>>)
      /\ \A l \in Links : Contents(l)' \subseteq Contents(l)
  <2>1. wire[<<p, Root>>] \in Seq(Frame)
    BY <1>1
  <2>2. wire'[<<p, Root>>] = Tail(wire[<<p, Root>>])
    BY <1>1, <1>2
  <2>3. ASSUME NEW l \in Links PROVE Contents(l)' \subseteq Contents(l)
    <3>1. CASE l = <<p, Root>>
      BY <1>2, <2>1, <2>2, <3>1, ReadTail DEF Contents
    <3>2. CASE l # <<p, Root>>
      <4>1. wire'[l] = wire[l]
        BY <1>1, <1>2, <3>2
      <4> QED  BY <4>1 DEF Contents
    <3> QED  BY <3>1, <3>2
  <2>4. f \in Frame /\ Reading(f) \in Contents(<<p, Root>>)
    BY <1>2, <2>1, ReadTail DEF Contents
  <2> QED  BY <1>1, <2>3, <2>4
<1>4. /\ session' = session
      /\ SameNumber(f.header, session[Root]) /\ f.header.op = session[Root].op
      /\ f.header.n = session[Root].n
  <2>1. Healthy(session[Root]) /\ f.header \in Header
    BY <1>1, <1>3 DEF Types, Frame
  <2>2. \/ \E t : Validate(session[Root], f.header, "contrib", p) = Raise(t) /\ Kept(session[Root], t)
        \/ /\ Validate(session[Root], f.header, "contrib", p) = Return(session[Root])
           /\ SameNumber(f.header, session[Root]) /\ f.header.op = session[Root].op
           /\ f.header.n = session[Root].n
    BY <2>1, ValidateLaw
  <2>3. /\ Validate(session[Root], f.header, "contrib", p) = Return(session[Root])
        /\ SameNumber(f.header, session[Root]) /\ f.header.op = session[Root].op
        /\ f.header.n = session[Root].n
    BY <1>2, <2>2, Endings
  <2>4. session' = [session EXCEPT ![Root] = session[Root]]
    BY <1>2, <2>3, Endings
  <2> QED  BY <1>1, <2>3, <2>4
<1>5. /\ Gathered = 0 .. p - 1 /\ Gathered' = 0 .. p /\ p \notin Gathered
      /\ Gathered' = Gathered \union {p}
      /\ Running(Root) /\ InCall(Root) /\ Gathering
      /\ Gathering' => peer'[Root] = p + 1
      /\ ~Gathering' => p + 1 = N
  <2>1. Gathering /\ InCall(Root) /\ Running(Root) /\ Gathered = 0 .. p - 1
    BY <1>0, <1>2 DEF Gathering, InCall, Running, Gathered
  <2>2. pc'[Root] = (IF last THEN "send" ELSE "recv") /\ peer'[Root] = IF last THEN FirstPeer(Root) ELSE p + 1
    BY <1>1, <1>2
  <2>3. Gathered' = 0 .. p
    <3>1. CASE last
      <4>1. ~Gathering' /\ InCall(Root)'
        BY <2>2, <3>1 DEF Gathering, InCall
      <4>2. Gathered' = Ranks
        BY <4>1 DEF Gathered, Ranks
      <4> QED  BY <3>1, <4>2 DEF Ranks
    <3>2. CASE ~last
      <4>1. Gathering' /\ peer'[Root] = p + 1
        BY <2>2, <3>2 DEF Gathering
      <4>2. Gathered' = 0 .. (p + 1) - 1
        BY <4>1 DEF Gathered
      <4> QED  BY <1>1, <4>2
    <3> QED  BY <3>1, <3>2
  <2>4. (Gathering' => peer'[Root] = p + 1) /\ (~Gathering' => p + 1 = N)
    <3>1. CASE last
      <4>1. pc'[Root] = "send" /\ p + 1 = N
        BY <1>1, <2>2, <3>1, NAssumption
      <4> QED  BY <4>1 DEF Gathering
    <3>2. CASE ~last
      BY <1>1, <2>2, <3>2 DEF Gathering
    <3> QED  BY <3>1, <3>2
  <2> QED  BY <1>1, <2>1, <2>3, <2>4
<1>6. /\ k = Len(results[Root]) + 1 /\ Len(results[Root]) \in Nat /\ k \in Nat
      /\ session[Root].op = Call(Root).op /\ session[Root].n = Call(Root).n
  <2>1. Local(Root)
    BY <1>1 DEF IInv
  <2> QED  BY <1>1, <1>5, <2>1, Bounds DEF Local
<1>7. /\ \A q : q # p => Taken(q)' = Taken(q)
      /\ Taken(p) = Len(results[Root]) /\ Taken(p)' = Len(results[Root]) + 1
  <2>1. ASSUME NEW q, q # p PROVE Taken(q)' = Taken(q)
    <3>1. q \in Gathered' <=> q \in Gathered
      BY <1>5, <2>1
    <3>2. CASE q \in Gathered
      BY <1>2, <3>1, <3>2 DEF Taken
    <3>3. CASE q \notin Gathered
      BY <1>2, <3>1, <3>3 DEF Taken
    <3> QED  BY <3>2, <3>3
  <2>2. p \in Gathered' /\ p \notin Gathered
    BY <1>5
  <2>3. Taken(p) = Len(results[Root]) + 0 /\ Taken(p)' = Len(results'[Root]) + 1
    BY <2>2 DEF Taken
  <2> QED  BY <1>2, <1>6, <2>1, <2>3
\* The frame is the contribution to the root's own call: it is not behind.
<1>8. /\ calls[p] = k /\ f.payload = Payload(p, k) /\ SameCall(Root, p, k)
      /\ SameNumber(session[Root], session[p]) /\ pc[p] # "send"
  <2> DEFINE c == Reading(f)
  <2>1. c.header = f.header /\ c.payload = f.payload
    BY DEF Reading
  <2>2. ContributionFrame(p, c)
    BY <1>1, <1>3 DEF IInv
  <2>3. session[Root].epoch \in Nat /\ session[Root].seq \in Nat
    BY <1>1, Bounds
  <2> HIDE DEF c
  <2>4. ~Before(c.header, session[Root]) /\ ~(p \in Gathered /\ SameNumber(c.header, session[Root]))
    BY <1>4, <1>5, <2>1, <2>3 DEF Before, SameNumber
  <2>5. /\ calls[p] = Taken(p) + 1 /\ pc[p] # "send"
        /\ c.payload = Payload(p, calls[p])
        /\ c.header.op = Call(p).op /\ c.header.n = Call(p).n
        /\ SameNumber(c.header, session[p])
    BY <1>5, <2>2, <2>4 DEF ContributionFrame
  <2>6. calls[p] = k
    BY <1>6, <1>7, <2>5
  <2> QED  BY <1>4, <1>6, <2>1, <2>5, <2>6 DEF SameCall, SameNumber, Call
<1>9. /\ \A q \in Ranks : q # Root => pc'[q] = pc[q]
      /\ buf'[Root] = Fold(buf[Root], Payload(p, k)) /\ \A q \in Ranks : q # Root => buf'[q] = buf[q]
      /\ pc'[Root] \in {"send", "recv"}
  BY <1>1, <1>2, <1>8
<1> HIDE DEF f, last
<1>10. ASSUME NEW q \in Ranks PROVE Local(q)' /\ Backed(q)' /\ Numbered(q)'
  <2>1. Local(q) /\ Backed(q) /\ Numbered(q)
    BY DEF IInv
  <2>2. Local(q)'
    <3>1. CASE q = Root
      BY <1>2, <1>4, <1>5, <1>9, <2>1, <3>1, CallsStand DEF Local, InCall
    <3>2. CASE q # Root
      BY <1>2, <1>4, <1>9, <2>1, <3>2, CallsStand DEF Local, InCall
    <3> QED  BY <3>1, <3>2
  <2>3. Backed(q)'
    BY <1>2, <2>1, CallsStand DEF Backed
  <2>4. Behind(q)' = Behind(q) /\ (Running(q)' => Running(q))
    BY <1>2, <1>9 DEF Behind, Running
  <2>5. Checkpoints(q, Behind(q))' = Checkpoints(q, Behind(q))
    BY <1>2, <2>4 DEF Checkpoints
  <2>6. Numbered(q)'
    BY <1>2, <1>4, <2>1, <2>4, <2>5 DEF Numbered
  <2> QED  BY <2>2, <2>3, <2>6
<1>11. RootBuffer'
  <2>1. buf[Root] = Partial(Root, k, p) /\ \A q \in Gathered : calls[q] >= k /\ SameCall(Root, q, k)
    BY <1>0, <1>5 DEF IInv, RootBuffer
  <2>2. buf'[Root] = Partial(Root, k, p + 1)
    <3>1. p \in Nat
      BY <1>1
    <3> QED  BY <1>6, <1>8, <1>9, <2>1, <3>1, FoldPartial
  <2>3. \A q \in Gathered' : calls[q] >= k /\ SameCall(Root, q, k)
    BY <1>5, <1>6, <1>8, <2>1
  <2> QED  BY <1>2, <1>5, <2>2, <2>3, CallsStand DEF RootBuffer
<1>12. ASSUME NEW q \in Workers
       PROVE  /\ WorkerBuffer(q)' /\ Pace(q)'
              /\ \A c \in Contents(<<q, Root>>)' : ContributionFrame(q, c)'
              /\ \A c \in Contents(<<Root, q>>)' : ResultFrame(q, c)'
  <2>1. q \in Ranks /\ Root \in Ranks /\ <<q, Root>> \in Links /\ <<Root, q>> \in Links /\ q # Root
    BY Star
  <2>2. WorkerBuffer(q) /\ Pace(q)
    BY DEF IInv
  <2>3. calls[q] \in Nat /\ Len(results[q]) \in Nat /\ Taken(q) \in Nat
    <3>1. calls[q] \in Nat /\ Len(results[q]) \in Nat /\ Len(results[Root]) \in Nat
      BY <1>1, <2>1, Bounds
    <3>2. CASE q \in Gathered
      <4>1. Taken(q) = Len(results[Root]) + 1
        BY <3>2 DEF Taken
      <4> QED  BY <3>1, <4>1
    <3>3. CASE q \notin Gathered
      <4>1. Taken(q) = Len(results[Root]) + 0
        BY <3>3 DEF Taken
      <4> QED  BY <3>1, <4>1
    <3> QED  BY <3>2, <3>3
  <2>4. Taken(q)' \in Nat /\ Taken(q)' >= Taken(q)
    <3>1. CASE q = p
      BY <1>6, <1>7, <3>1
    <3>2. CASE q # p
      BY <1>7, <2>3, <3>2
    <3> QED  BY <3>1, <3>2
  <2>5. pc'[q] = pc[q] /\ buf'[q] = buf[q]
    BY <1>9, <2>1
  <2>6. WorkerBuffer(q)'
    BY <1>2, <1>5, <2>2, <2>3, <2>4, <2>5, CallsStand DEF WorkerBuffer
  <2>7. Pace(q)'
    <3>1. CASE q = p
      BY <1>2, <1>4, <1>5, <1>6, <1>7, <1>8, <2>2, <2>3, <2>5, <3>1 DEF Pace, SameNumber
    <3>2. CASE q # p
      BY <1>2, <1>4, <1>5, <1>7, <2>2, <2>5, <3>2 DEF Pace, Before, SameNumber
    <3> QED  BY <3>1, <3>2
  <2>8. ASSUME NEW c \in Contents(<<q, Root>>)' PROVE ContributionFrame(q, c)'
    <3>1. ContributionFrame(q, c)
      BY <1>3, <2>1 DEF IInv
    <3>2. CASE q = p
      BY <1>4, <1>5, <1>8, <3>1, <3>2 DEF ContributionFrame, Before, SameNumber
    <3>3. CASE q # p
      BY <1>2, <1>4, <1>5, <1>7, <2>5, <3>1, <3>3, CallsStand DEF ContributionFrame, Before, SameNumber
    <3> QED  BY <3>2, <3>3
  <2>9. ASSUME NEW c \in Contents(<<Root, q>>)' PROVE ResultFrame(q, c)'
    <3>1. ResultFrame(q, c)
      BY <1>3, <2>1 DEF IInv
    <3> QED  BY <1>2, <1>4, <1>5, <2>3, <2>4, <3>1, CallsStand DEF ResultFrame, Before, SameNumber
  <2> QED  BY <2>6, <2>7, <2>8, <2>9
<1> QED  BY <1>10, <1>11, <1>12 DEF IInv

\* How many contributions of a rank the root has folded is a natural.
LEMMA TakenType ==
    ASSUME Types, NEW q
    PROVE  /\ Taken(q) \in Nat
           /\ q \in Gathered => Taken(q) = Len(results[Root]) + 1
           /\ q \notin Gathered => Taken(q) = Len(results[Root])
<1>1. Len(results[Root]) \in Nat
  BY Bounds, Star
<1>2. CASE q \in Gathered
  <2>1. Taken(q) = Len(results[Root]) + 1
    BY <1>2 DEF Taken
  <2> QED  BY <1>1, <1>2, <2>1
<1>3. CASE q \notin Gathered
  <2>1. Taken(q) = Len(results[Root]) + 0
    BY <1>3 DEF Taken
  <2> QED  BY <1>1, <1>3, <2>1
<1> QED  BY <1>2, <1>3

\* A worker taking a result keeps it: Validate has refused all but the result of its own call.
LEMMA WorkerReceivesKeeps ==
    ASSUME IInv, Types', NEW r \in Workers, Receive(r), pc'[r] # "raised"
    PROVE  IInv'
<1> DEFINE f == Head(wire[<<Root, r>>])
<1>1. /\ Types /\ pc \in [Ranks -> PCs] /\ session \in [Ranks -> Session]
      /\ DOMAIN buf = Ranks /\ wire \in [Links -> Seq(Frame)]
      /\ r \in Ranks /\ Root \in Ranks /\ r # Root /\ <<Root, r>> \in Links
      /\ peer[r] = Root
  BY Star DEF IInv, Types, TypeOK
<1>2. /\ pc[r] = "wait" /\ wire[<<Root, r>>] # <<>>
      /\ wire' = [wire EXCEPT ![<<Root, r>>] = Tail(@)]
      /\ ~Validate(session[r], f.header, "result", Root).raised
      /\ buf' = [buf EXCEPT ![r] = f.payload]
      /\ pc' = [pc EXCEPT ![r] = "finish"]
      /\ session' = [session EXCEPT ![r] = Validate(session[r], f.header, "result", Root).session]
      /\ UNCHANGED <<schedule, calls, results, peer>>
  BY <1>1 DEF Receive, Raised, SetSession, Goto
<1>3. /\ f \in Frame /\ Reading(f) \in Contents(<<Root, r>>)
      /\ \A l \in Links : Contents(l)' \subseteq Contents(l)
  <2>1. wire[<<Root, r>>] \in Seq(Frame)
    BY <1>1
  <2>2. wire'[<<Root, r>>] = Tail(wire[<<Root, r>>])
    BY <1>1, <1>2
  <2>3. ASSUME NEW l \in Links PROVE Contents(l)' \subseteq Contents(l)
    <3>1. CASE l = <<Root, r>>
      BY <1>2, <2>1, <2>2, <3>1, ReadTail DEF Contents
    <3>2. CASE l # <<Root, r>>
      <4>1. wire'[l] = wire[l]
        BY <1>1, <1>2, <3>2
      <4> QED  BY <4>1 DEF Contents
    <3> QED  BY <3>1, <3>2
  <2>4. f \in Frame /\ Reading(f) \in Contents(<<Root, r>>)
    BY <1>2, <2>1, ReadTail DEF Contents
  <2> QED  BY <2>3, <2>4
<1>4. session' = session /\ SameNumber(f.header, session[r])
  <2>1. Healthy(session[r]) /\ f.header \in Header
    BY <1>1, <1>3 DEF Types, Frame
  <2>2. \/ \E t : Validate(session[r], f.header, "result", Root) = Raise(t) /\ Kept(session[r], t)
        \/ /\ Validate(session[r], f.header, "result", Root) = Return(session[r])
           /\ SameNumber(f.header, session[r])
    BY <2>1, ValidateLaw
  <2>3. /\ Validate(session[r], f.header, "result", Root) = Return(session[r])
        /\ SameNumber(f.header, session[r])
    BY <1>2, <2>2, Endings
  <2>4. session' = [session EXCEPT ![r] = session[r]]
    BY <1>2, <2>3, Endings
  <2> QED  BY <1>1, <2>3, <2>4
\* The frame is the result of the worker's own call: it is not behind.
<1>5. /\ buf'[r] = Reduction(r, calls[r]) /\ Complete(r, calls[r])
      /\ Running(Root) => Taken(r) >= calls[r]
  <2> DEFINE c == Reading(f)
  <2>1. c.header = f.header /\ c.payload = f.payload
    BY DEF Reading
  <2>2. ResultFrame(r, c)
    BY <1>1, <1>3 DEF IInv
  <2>3. session[r].epoch \in Nat /\ session[r].seq \in Nat
    BY <1>1, Bounds
  <2> HIDE DEF c
  <2>4. ~Before(c.header, session[r])
    BY <1>4, <2>1, <2>3 DEF Before, SameNumber
  <2> QED  BY <1>1, <1>2, <2>1, <2>2, <2>4 DEF ResultFrame
<1>6. /\ pc'[r] = "finish"
      /\ \A q \in Ranks : q # r => pc'[q] = pc[q] /\ buf'[q] = buf[q]
  BY <1>1, <1>2
<1> HIDE DEF f
<1>7. /\ Gathered' = Gathered /\ (Gathering' <=> Gathering)
      /\ (Running(Root)' <=> Running(Root)) /\ (InCall(Root)' <=> InCall(Root))
  BY <1>1, <1>2, <1>6 DEF Gathered, Gathering, Running, InCall
<1>8. ASSUME NEW q PROVE Taken(q)' = Taken(q)
  BY <1>2, <1>7 DEF Taken
<1>9. ASSUME NEW q \in Ranks PROVE Local(q)' /\ Backed(q)' /\ Numbered(q)'
  <2>1. Local(q) /\ Backed(q) /\ Numbered(q)
    BY DEF IInv
  <2>2. Local(q)'
    BY <1>2, <1>4, <1>6, <2>1, CallsStand DEF Local, InCall
  <2>3. Backed(q)'
    BY <1>2, <2>1, CallsStand DEF Backed
  <2>4. Behind(q)' = Behind(q) /\ (Running(q)' => Running(q))
    BY <1>2, <1>6 DEF Behind, Running
  <2>5. Checkpoints(q, Behind(q))' = Checkpoints(q, Behind(q))
    BY <1>2, <2>4 DEF Checkpoints
  <2>6. Numbered(q)'
    BY <1>2, <1>4, <2>1, <2>4, <2>5 DEF Numbered
  <2> QED  BY <2>2, <2>3, <2>6
<1>10. RootBuffer'
  <2>1. RootBuffer
    BY DEF IInv
  <2> QED  BY <1>1, <1>2, <1>6, <1>7, <2>1, CallsStand DEF RootBuffer
<1>11. ASSUME NEW q \in Workers
       PROVE  /\ WorkerBuffer(q)' /\ Pace(q)'
              /\ \A c \in Contents(<<q, Root>>)' : ContributionFrame(q, c)'
              /\ \A c \in Contents(<<Root, q>>)' : ResultFrame(q, c)'
  <2>1. q \in Ranks /\ <<q, Root>> \in Links /\ <<Root, q>> \in Links
    BY Star
  <2>2. WorkerBuffer(q) /\ Pace(q)
    BY DEF IInv
  <2>3. pc'[q] = "send" => pc[q] = "send"
    BY <1>6, <2>1
  <2>4. WorkerBuffer(q)'
    <3>1. CASE q = r
      BY <1>2, <1>5, <1>6, <1>7, <1>8, <3>1, CallsStand DEF WorkerBuffer
    <3>2. CASE q # r
      BY <1>2, <1>6, <1>7, <1>8, <2>1, <2>2, <3>2, CallsStand DEF WorkerBuffer
    <3> QED  BY <3>1, <3>2
  <2>5. Pace(q)'
    BY <1>2, <1>4, <1>7, <1>8, <2>2, <2>3 DEF Pace, Before, SameNumber
  <2>6. ASSUME NEW c \in Contents(<<q, Root>>)' PROVE ContributionFrame(q, c)'
    <3>1. ContributionFrame(q, c)
      BY <1>3, <2>1 DEF IInv
    <3> QED  BY <1>2, <1>4, <1>7, <1>8, <2>3, <3>1, CallsStand DEF ContributionFrame, Before, SameNumber
  <2>7. ASSUME NEW c \in Contents(<<Root, q>>)' PROVE ResultFrame(q, c)'
    <3>1. ResultFrame(q, c)
      BY <1>3, <2>1 DEF IInv
    <3> QED  BY <1>2, <1>4, <1>7, <1>8, <3>1, CallsStand DEF ResultFrame, Before, SameNumber
  <2> QED  BY <2>4, <2>5, <2>6, <2>7
<1> QED  BY <1>9, <1>10, <1>11 DEF IInv

\* What a send leaves on the connections: at most the frame is new.
LEMMA SendContents ==
    ASSUME IInv, NEW r \in Ranks, NEW q \in Peers(r), pc[r] = "send",
           wire' = [wire EXCEPT ![<<r, q>>] = IF Hung(<<r, q>>) THEN @ ELSE Append(@, Sent(r))]
    PROVE  /\ \A l \in Links : l # <<r, q>> => Contents(l)' = Contents(l)
           /\ Contents(<<r, q>>)' \subseteq Contents(<<r, q>>) \union {Reading(Sent(r))}
<1>1. wire \in [Links -> Seq(Frame)] /\ <<r, q>> \in Links
  BY Star DEF IInv, Types, TypeOK
<1>2. ASSUME NEW l \in Links, l # <<r, q>> PROVE Contents(l)' = Contents(l)
  <2>1. wire'[l] = wire[l]
    BY <1>1, <1>2
  <2> QED  BY <2>1 DEF Contents
<1>3. wire'[<<r, q>>] \in {wire[<<r, q>>], Append(wire[<<r, q>>], Sent(r))}
  BY <1>1
<1>4. wire[<<r, q>>] \in Seq(Frame) /\ Sent(r) \in Frame
  BY <1>1, SentType
<1> HIDE DEF Sent
<1>5. Read(wire'[<<r, q>>]) \subseteq Read(wire[<<r, q>>]) \union {Reading(Sent(r))}
  BY <1>3, <1>4, ReadAppend
<1> QED  BY <1>2, <1>5 DEF Contents

\* A worker's contribution going out keeps it.
LEMMA WorkerSendsKeeps ==
    ASSUME IInv, Types', NEW r \in Workers, Send(r), pc'[r] # "raised"
    PROVE  IInv'
<1>1. /\ Types /\ pc \in [Ranks -> PCs] /\ session \in [Ranks -> Session] /\ peer \in [Ranks -> Ranks]
      /\ r \in Ranks /\ Root \in Ranks /\ r # Root /\ Root \in Peers(r)
      /\ peer[r] = Root
  <2>1. r \in Ranks /\ Root \in Ranks /\ r # Root /\ Peers(r) = {Root}
    BY Star
  <2>2. Types /\ peer[r] \in Peers(r)
    BY <2>1 DEF IInv, Types, TypeOK
  <2> QED  BY <2>1, <2>2 DEF Types, TypeOK
<1>2. /\ pc[r] = "send"
      /\ wire' = [wire EXCEPT ![<<r, Root>>] = IF Hung(<<r, Root>>) THEN @ ELSE Append(@, Sent(r))]
      /\ pc' = [pc EXCEPT ![r] = "recv"]
      /\ peer' = peer
      /\ UNCHANGED <<schedule, session, calls, results, buf>>
  BY <1>1 DEF Send, Raised, Goto, LastPeer, Sent
<1>3. /\ \A l \in Links : l # <<r, Root>> => Contents(l)' = Contents(l)
      /\ Contents(<<r, Root>>)' \subseteq Contents(<<r, Root>>) \union {Reading(Sent(r))}
  BY <1>1, <1>2, SendContents
<1>4. pc'[r] = "recv" /\ \A q \in Ranks : q # r => pc'[q] = pc[q]
  BY <1>1, <1>2
<1>5. /\ Gathered' = Gathered /\ (Gathering' <=> Gathering)
      /\ (Running(Root)' <=> Running(Root)) /\ (InCall(Root)' <=> InCall(Root))
  BY <1>1, <1>2, <1>4 DEF Gathered, Gathering, Running, InCall
<1>6. ASSUME NEW q PROVE Taken(q)' = Taken(q)
  BY <1>2, <1>5 DEF Taken
\* The root has not taken what the worker is sending.
<1>7. ContributionFrame(r, Reading(Sent(r)))'
  <2> DEFINE c == Reading(Sent(r))
  <2>1. /\ c.payload = buf[r] /\ c.header.op = session[r].op /\ c.header.n = session[r].n
        /\ c.header.epoch = session[r].epoch /\ c.header.seq = session[r].seq
    BY DEF Reading, Sent, HeaderOf
  <2>2. /\ buf[r] = Payload(r, calls[r]) /\ (Running(Root) => calls[r] = Taken(r) + 1)
        /\ session[r].op = Call(r).op /\ session[r].n = Call(r).n
    BY <1>1, <1>2 DEF IInv, WorkerBuffer, Pace, Local, InCall
  <2>3. UNCHANGED c
    BY <1>2 DEF Reading, Sent
  <2> HIDE DEF c
  <2>4. ContributionFrame(r, c)'
    <3>1. c' = c /\ Taken(r)' = Taken(r) /\ calls' = calls /\ session' = session /\ pc'[r] # "send"
      BY <1>2, <1>4, <1>6, <2>3
    <3>2. Payload(r, calls[r])' = Payload(r, calls[r]) /\ Call(r)' = Call(r) /\ (Running(Root)' <=> Running(Root))
      BY <1>2, <1>5, CallsStand
    <3> QED  BY <2>1, <2>2, <3>1, <3>2 DEF ContributionFrame, SameNumber
  <2> QED  BY <2>4 DEF c
<1>8. ASSUME NEW q \in Ranks PROVE Local(q)' /\ Backed(q)' /\ Numbered(q)'
  <2>1. Local(q) /\ Backed(q) /\ Numbered(q)
    BY DEF IInv
  <2>2. Local(q)'
    BY <1>2, <1>4, <2>1, CallsStand DEF Local, InCall
  <2>3. Backed(q)'
    BY <1>2, <2>1, CallsStand DEF Backed
  <2>4. Behind(q)' = Behind(q) /\ (Running(q)' => Running(q))
    BY <1>2, <1>4 DEF Behind, Running
  <2>5. Checkpoints(q, Behind(q))' = Checkpoints(q, Behind(q))
    BY <1>2, <2>4 DEF Checkpoints
  <2>6. Numbered(q)'
    BY <1>2, <2>1, <2>4, <2>5 DEF Numbered
  <2> QED  BY <2>2, <2>3, <2>6
<1>9. RootBuffer'
  <2>1. RootBuffer
    BY DEF IInv
  <2> QED  BY <1>2, <1>5, <2>1, CallsStand DEF RootBuffer
<1>10. ASSUME NEW q \in Workers
       PROVE  /\ WorkerBuffer(q)' /\ Pace(q)'
              /\ \A c \in Contents(<<q, Root>>)' : ContributionFrame(q, c)'
              /\ \A c \in Contents(<<Root, q>>)' : ResultFrame(q, c)'
  <2>1. q \in Ranks /\ <<q, Root>> \in Links /\ <<Root, q>> \in Links /\ q # Root
    BY Star
  <2>2. WorkerBuffer(q) /\ Pace(q)
    BY DEF IInv
  <2>3. (pc'[q] = "send" => pc[q] = "send") /\ (pc'[q] = "finish" => pc[q] = "finish")
    BY <1>4, <2>1
  <2>4. WorkerBuffer(q)'
    BY <1>2, <1>5, <1>6, <2>2, <2>3, CallsStand DEF WorkerBuffer
  <2>5. Pace(q)'
    BY <1>2, <1>5, <1>6, <2>2, <2>3 DEF Pace, Before, SameNumber
  <2>6. ASSUME NEW c \in Contents(<<q, Root>>)' PROVE ContributionFrame(q, c)'
    <3>1. CASE c \in Contents(<<q, Root>>)
      <4>1. ContributionFrame(q, c)
        BY <3>1 DEF IInv
      <4> QED  BY <1>2, <1>5, <1>6, <2>3, <4>1, CallsStand DEF ContributionFrame, Before, SameNumber
    <3>2. CASE c \notin Contents(<<q, Root>>)
      <4>1. q = r /\ c = Reading(Sent(r))
        BY <1>3, <2>1, <3>2
      <4>2. Reading(Sent(r))' = Reading(Sent(r))
        BY <1>2 DEF Reading, Sent
      <4>3. c = Reading(Sent(r))'
        BY <4>1, <4>2
      <4> QED  BY <1>7, <4>1, <4>3 DEF ContributionFrame
    <3> QED  BY <3>1, <3>2
  <2>7. ASSUME NEW c \in Contents(<<Root, q>>)' PROVE ResultFrame(q, c)'
    <3>1. ResultFrame(q, c)
      <4>1. <<Root, q>> # <<r, Root>>
        BY <1>1
      <4> QED  BY <1>3, <2>1, <4>1 DEF IInv
    <3> QED  BY <1>2, <1>5, <1>6, <3>1, CallsStand DEF ResultFrame, Before, SameNumber
  <2> QED  BY <2>4, <2>5, <2>6, <2>7
<1> QED  BY <1>8, <1>9, <1>10 DEF IInv

\* Frames on a link carry numbers.
LEMMA ContentsType ==
    ASSUME Types, NEW l \in Links, NEW c \in Contents(l)
    PROVE  c.header.epoch \in Nat /\ c.header.seq \in Nat
<1>1. wire[l] \in Seq(Frame)
  BY DEF Types, TypeOK
<1>2. PICK i \in 1 .. Len(wire[l]) : c = [header |-> wire[l][i].header, payload |-> wire[l][i].payload]
  BY DEF Contents, Read
<1>3. wire[l][i] \in Frame
  BY <1>1
<1>4. c.header \in Header
  BY <1>2, <1>3 DEF Frame
<1> QED  BY <1>4 DEF Header

\* The root's broadcast to one worker keeps it: what goes out is the fold over all ranks.
LEMMA RootSendsKeeps ==
    ASSUME IInv, Types', Send(Root), pc'[Root] # "raised"
    PROVE  IInv'
<1>0. PICK p \in Ranks : p = peer[Root]
  BY Star DEF IInv, Types, TypeOK
<1> DEFINE k == calls[Root]
           last == p = N - 1
<1>1. /\ Types /\ pc \in [Ranks -> PCs] /\ session \in [Ranks -> Session]
      /\ Root \in Ranks /\ p \in Peers(Root) /\ p \in Workers
  <2>1. Root \in Ranks /\ p \in Peers(Root)
    BY <1>0, Star DEF IInv, Types, TypeOK
  <2> QED  BY <2>1, Star DEF IInv, Types, TypeOK
<1>2. /\ pc[Root] = "send"
      /\ wire' = [wire EXCEPT ![<<Root, p>>] = IF Hung(<<Root, p>>) THEN @ ELSE Append(@, Sent(Root))]
      /\ pc' = [pc EXCEPT ![Root] = IF last THEN "finish" ELSE "send"]
      /\ UNCHANGED <<schedule, session, calls, results, buf>>
  BY <1>0, <1>1 DEF Send, Raised, Goto, LastPeer, Sent
<1>3. /\ \A l \in Links : l # <<Root, p>> => Contents(l)' = Contents(l)
      /\ Contents(<<Root, p>>)' \subseteq Contents(<<Root, p>>) \union {Reading(Sent(Root))}
  BY <1>1, <1>2, SendContents
<1>4. pc'[Root] \in {"finish", "send"} /\ \A q \in Ranks : q # Root => pc'[q] = pc[q]
  BY <1>1, <1>2
<1> HIDE DEF last
<1>5. /\ Gathered = Ranks /\ Gathered' = Ranks /\ ~Gathering /\ ~Gathering'
      /\ Running(Root) /\ InCall(Root) /\ Running(Root)' /\ InCall(Root)'
  <2>1. ~Gathering /\ InCall(Root) /\ Running(Root)
    BY <1>2 DEF Gathering, Running, InCall
  <2>2. ~Gathering' /\ InCall(Root)' /\ Running(Root)'
    BY <1>4 DEF Gathering, Running, InCall
  <2>3. Gathered = Ranks
    BY <2>1 DEF Gathered
  <2>4. Gathered' = Ranks
    BY <2>2 DEF Gathered, Ranks
  <2> QED  BY <2>1, <2>2, <2>3, <2>4
<1>6. /\ k = Len(results[Root]) + 1 /\ k \in Nat
      /\ buf[Root] = Reduction(Root, k)
      /\ \A q \in Ranks : calls[q] \in Nat /\ calls[q] >= k /\ SameCall(Root, q, k)
  <2>1. Local(Root) /\ RootBuffer
    BY <1>1 DEF IInv
  <2>2. k = Len(results[Root]) + 1 /\ k \in Nat
    BY <1>1, <1>5, <2>1, Bounds DEF Local
  <2>3. buf[Root] = Reduction(Root, k)
    BY <1>5, <2>1 DEF RootBuffer, Reduction
  <2>4. \A q \in Ranks : calls[q] \in Nat /\ calls[q] >= k /\ SameCall(Root, q, k)
    BY <1>1, <1>5, <2>1, Bounds DEF RootBuffer
  <2> QED  BY <2>2, <2>3, <2>4
<1>7. ASSUME NEW q PROVE Taken(q)' = Taken(q)
  BY <1>2, <1>5 DEF Taken
\* The worker it sends to is in the same call, or past it.
<1>8. ResultFrame(p, Reading(Sent(Root)))
  <2> DEFINE c == Reading(Sent(Root))
  <2>1. /\ c.payload = buf[Root]
        /\ c.header.epoch = session[Root].epoch /\ c.header.seq = session[Root].seq
    BY DEF Reading, Sent, HeaderOf
  <2>2. p \in Ranks /\ calls[p] \in Nat /\ Len(results[p]) \in Nat /\ Taken(p) = k
    BY <1>1, <1>5, <1>6, Bounds, TakenType
  <2>3. \/ Before(session[Root], session[p])
        \/ /\ SameNumber(session[Root], session[p])
           /\ calls[p] = k /\ Len(results[p]) < calls[p]
    BY <1>1, <1>5, <2>2 DEF IInv, Pace
  <2> HIDE DEF c
  <2>4. Before(session[Root], session[p]) => ResultFrame(p, c)
    BY <2>1 DEF ResultFrame, Before
  <2>5. ASSUME SameNumber(session[Root], session[p]), calls[p] = k, Len(results[p]) < calls[p]
        PROVE  ResultFrame(p, c)
    <3>1. calls[p] = Len(results[p]) + 1
      BY <1>1, <2>2, <2>5 DEF IInv, Local
    <3>2. Reduction(p, k) = Reduction(Root, k)
      BY <1>6 DEF Reduction, Partial, SameCall
    <3>3. Complete(p, k)
      BY <1>6 DEF Complete, SameCall
    <3> QED  BY <1>6, <2>1, <2>2, <2>5, <3>1, <3>2, <3>3 DEF ResultFrame, SameNumber
  <2> QED  BY <2>3, <2>4, <2>5 DEF c
<1>9. ASSUME NEW q \in Ranks PROVE Local(q)' /\ Backed(q)' /\ Numbered(q)'
  <2>1. Local(q) /\ Backed(q) /\ Numbered(q)
    BY DEF IInv
  <2>2. Local(q)'
    BY <1>2, <1>4, <2>1, CallsStand DEF Local, InCall
  <2>3. Backed(q)'
    BY <1>2, <2>1, CallsStand DEF Backed
  <2>4. Behind(q)' = Behind(q) /\ (Running(q)' => Running(q))
    BY <1>2, <1>4 DEF Behind, Running
  <2>5. Checkpoints(q, Behind(q))' = Checkpoints(q, Behind(q))
    BY <1>2, <2>4 DEF Checkpoints
  <2>6. Numbered(q)'
    BY <1>2, <2>1, <2>4, <2>5 DEF Numbered
  <2> QED  BY <2>2, <2>3, <2>6
<1>10. RootBuffer'
  <2>1. RootBuffer
    BY DEF IInv
  <2> QED  BY <1>2, <1>5, <2>1, CallsStand DEF RootBuffer
<1>11. ASSUME NEW q \in Workers
       PROVE  /\ WorkerBuffer(q)' /\ Pace(q)'
              /\ \A c \in Contents(<<q, Root>>)' : ContributionFrame(q, c)'
              /\ \A c \in Contents(<<Root, q>>)' : ResultFrame(q, c)'
  <2>1. q \in Ranks /\ <<q, Root>> \in Links /\ <<Root, q>> \in Links /\ q # Root
    BY Star
  <2>2. WorkerBuffer(q) /\ Pace(q)
    BY DEF IInv
  <2>3. pc'[q] = pc[q]
    BY <1>4, <2>1
  <2>4. WorkerBuffer(q)'
    BY <1>2, <1>5, <1>7, <2>2, <2>3, CallsStand DEF WorkerBuffer
  <2>5. Pace(q)'
    BY <1>2, <1>5, <1>7, <2>2, <2>3 DEF Pace, Before, SameNumber
  <2>6. ASSUME NEW c \in Contents(<<q, Root>>)' PROVE ContributionFrame(q, c)'
    <3>1. ContributionFrame(q, c)
      <4>1. <<q, Root>> # <<Root, p>>
        BY <2>1
      <4> QED  BY <1>3, <2>1, <4>1 DEF IInv
    <3> QED  BY <1>2, <1>5, <1>7, <2>3, <3>1, CallsStand DEF ContributionFrame, Before, SameNumber
  <2>7. ASSUME NEW c \in Contents(<<Root, q>>)' PROVE ResultFrame(q, c)'
    <3>1. ResultFrame(q, c)
      <4>1. CASE c \in Contents(<<Root, q>>)
        BY <4>1 DEF IInv
      <4>2. CASE c \notin Contents(<<Root, q>>)
        BY <1>3, <1>8, <2>1, <4>2
      <4> QED  BY <4>1, <4>2
    <3> QED  BY <1>2, <1>5, <1>7, <3>1, CallsStand DEF ResultFrame, Before, SameNumber
  <2> QED  BY <2>4, <2>5, <2>6, <2>7
<1> QED  BY <1>9, <1>10, <1>11 DEF IInv

\* What a rank about to return holds: the reduction of a call of everyone's.
LEMMA FinishedBuffer ==
    ASSUME IInv, NEW r \in Ranks, pc[r] = "finish"
    PROVE  buf[r] = Reduction(r, calls[r]) /\ Complete(r, calls[r])
<1>1. CASE r = Root
  <2>1. ~Gathering /\ InCall(Root)
    BY <1>1 DEF Gathering, InCall
  <2>2. Gathered = Ranks
    BY <2>1 DEF Gathered
  <2>3. RootBuffer
    BY DEF IInv
  <2> QED  BY <1>1, <2>1, <2>2, <2>3 DEF RootBuffer, Reduction, Complete
<1>2. CASE r # Root
  <2>1. WorkerBuffer(r)
    BY <1>2, Star DEF IInv
  <2> QED  BY <2>1 DEF WorkerBuffer
<1> QED  BY <1>1, <1>2

\* A call that returns leaves its number behind.
LEMMA FinishCallKeeps ==
    ASSUME IInv, Types', NEW r \in Ranks, FinishCall(r), pc'[r] # "raised"
    PROVE  IInv'
<1> DEFINE k == calls[r]
           label == IF Call(r).epoch THEN "epoch" ELSE "idle"
<1>1. /\ Types /\ pc \in [Ranks -> PCs] /\ session \in [Ranks -> Session]
      /\ results \in [Ranks -> Seq(Payloads)] /\ buf \in [Ranks -> Payloads]
      /\ Healthy(session[r]) /\ Root \in Ranks
  BY Star DEF IInv, Types, TypeOK
<1>2. /\ pc[r] = "finish" /\ ~Finish(session[r]).raised
      /\ session' = [session EXCEPT ![r] = Finish(session[r]).session]
      /\ results' = [results EXCEPT ![r] = Append(@, buf[r])]
      /\ pc' = [pc EXCEPT ![r] = label]
      /\ UNCHANGED <<schedule, calls, buf, peer, wire>>
  BY <1>1 DEF FinishCall, Raised, SetSession, Goto
<1>3. /\ session'[r].epoch = session[r].epoch /\ session'[r].seq = session[r].seq + 1
      /\ \A q \in Ranks : q # r => session'[q] = session[q]
  <2>1. PICK t : \/ Finish(session[r]) = Raise(t)
                 \/ /\ Finish(session[r]) = Return(t)
                    /\ t.epoch = session[r].epoch /\ t.seq = session[r].seq + 1
    BY <1>1, FinishLaw
  <2>2. session'[r] = t /\ t.epoch = session[r].epoch /\ t.seq = session[r].seq + 1
    BY <1>1, <1>2, <2>1, Endings
  <2> QED  BY <1>1, <1>2, <2>2
<1>4. /\ pc'[r] = label /\ \A q \in Ranks : q # r => pc'[q] = pc[q] /\ results'[q] = results[q]
      /\ results'[r] = Append(results[r], buf[r])
  BY <1>1, <1>2
<1>5. /\ k = Len(results[r]) + 1 /\ k \in Nat /\ Len(results[r]) \in Nat
      /\ Len(results'[r]) = k /\ results'[r][k] = buf[r]
      /\ \A m \in 1 .. Len(results[r]) : results'[r][m] = results[r][m]
      /\ k <= Len(schedule[r])
  <2>1. Local(r)
    BY DEF IInv
  <2>2. k = Len(results[r]) + 1 /\ k \in Nat /\ Len(results[r]) \in Nat /\ k <= Len(schedule[r])
    BY <1>1, <1>2, <2>1, Bounds DEF Local, InCall
  <2>3. results[r] \in Seq(Payloads) /\ buf[r] \in Payloads
    BY <1>1
  <2> QED  BY <1>4, <2>2, <2>3
<1>6. r = Root => /\ Gathered = Ranks /\ Gathered' = {} /\ ~Gathering /\ Running(Root) /\ Running(Root)'
                  /\ InCall(Root) /\ ~InCall(Root)'
  <2> SUFFICES ASSUME r = Root PROVE /\ Gathered = Ranks /\ Gathered' = {} /\ ~Gathering
                                     /\ Running(Root) /\ Running(Root)'
                                     /\ InCall(Root) /\ ~InCall(Root)'
    OBVIOUS
  <2>1. pc[Root] = "finish" /\ pc'[Root] \in {"epoch", "idle"}
    BY <1>2, <1>4
  <2>2. ~Gathering /\ InCall(Root) /\ Running(Root)
    BY <2>1 DEF Gathering, InCall, Running
  <2>3. ~Gathering' /\ ~InCall(Root)' /\ Running(Root)'
    BY <2>1 DEF Gathering, InCall, Running
  <2> QED  BY <2>2, <2>3 DEF Gathered
<1>7. r # Root => /\ Gathered' = Gathered /\ (Gathering' <=> Gathering)
                  /\ (Running(Root)' <=> Running(Root)) /\ (InCall(Root)' <=> InCall(Root))
  BY <1>1, <1>2, <1>4 DEF Gathered, Gathering, Running, InCall
<1> HIDE DEF label
<1>8. ASSUME NEW q \in Workers PROVE Taken(q)' = Taken(q)
  <2>1. q \in Ranks /\ Len(results[Root]) \in Nat
    BY <1>1, Star, Bounds
  <2>2. CASE r = Root
    <3>1. Taken(q)' = Len(results'[Root]) + 0 /\ Taken(q) = Len(results[Root]) + 1
      BY <1>6, <2>1, <2>2 DEF Taken
    <3> QED  BY <1>5, <2>2, <3>1
  <2>3. CASE r # Root
    <3>1. results'[Root] = results[Root]
      BY <1>1, <1>4, <2>3
    <3> QED  BY <1>7, <2>3, <3>1 DEF Taken
  <2> QED  BY <2>2, <2>3
\* What it returns is the reduction of a call every rank has entered.
<1>9. buf[r] = Reduction(r, k) /\ Complete(r, k)
  BY <1>2, FinishedBuffer
<1>10. ASSUME NEW q \in Ranks PROVE Local(q)' /\ Backed(q)' /\ Numbered(q)'
  <2>1. Local(q) /\ Backed(q) /\ Numbered(q)
    BY DEF IInv
  <2>2. CASE q # r
    <3>1. pc'[q] = pc[q] /\ results'[q] = results[q] /\ session'[q] = session[q]
      BY <1>3, <1>4, <2>2
    <3>2. Local(q)'
      BY <1>2, <2>1, <3>1, CallsStand DEF Local, InCall
    <3>3. Backed(q)'
      BY <1>2, <2>1, <3>1, CallsStand DEF Backed
    <3>4. Behind(q)' = Behind(q) /\ (Running(q)' => Running(q))
      BY <3>1 DEF Behind, Running
    <3>5. Checkpoints(q, Behind(q))' = Checkpoints(q, Behind(q))
      BY <1>2, <3>4 DEF Checkpoints
    <3>6. Numbered(q)'
      BY <2>1, <3>1, <3>4, <3>5 DEF Numbered
    <3> QED  BY <3>2, <3>3, <3>6
  <2>3. CASE q = r
    <3>1. Local(r)'
      <4>1. calls'[r] = k /\ Len(results'[r]) = k /\ schedule' = schedule /\ Call(r)' = Call(r)
        BY <1>2, <1>5, CallsStand
      <4>2. pc'[r] \in {"epoch", "idle"} /\ (pc'[r] = "epoch" => Call(r).epoch)
        BY <1>4 DEF label
      <4> QED  BY <1>5, <4>1, <4>2 DEF Local, InCall
    <3>2. Backed(r)'
      <4>1. \A m \in 1 .. k : results'[r][m] = Reduction(r, m) /\ Complete(r, m)
        BY <1>5, <1>9, <2>1, <2>3 DEF Backed
      <4> QED  BY <1>2, <1>5, <4>1, CallsStand DEF Backed
    <3>3. Checkpoints(r, Behind(r))' = Checkpoints(r, Behind(r))
      <4>1. Behind(r) = Len(results[r]) /\ Behind(r) \in Nat
        BY <1>2, <1>5 DEF Behind
      <4>2. CASE Call(r).epoch
        <5>1. Behind(r)' = k - 1
          BY <1>4, <1>5, <4>2 DEF Behind, label
        <5>2. Behind(r)' = Behind(r)
          BY <1>5, <4>1, <5>1
        <5> QED  BY <1>2, <5>2 DEF Checkpoints
      <4>3. CASE ~Call(r).epoch
        <5>1. Behind(r)' = Behind(r) + 1 /\ ~schedule[r][Behind(r) + 1].epoch
          BY <1>4, <1>5, <4>1, <4>3 DEF Behind, label, Call
        <5>2. \A i : i \in 1 .. Behind(r) + 1 <=> (i \in 1 .. Behind(r) \/ i = Behind(r) + 1)
          BY <4>1
        <5>3. {i \in 1 .. Behind(r) + 1 : schedule[r][i].epoch} = {i \in 1 .. Behind(r) : schedule[r][i].epoch}
          BY <5>1, <5>2
        <5> QED  BY <1>2, <5>1, <5>3 DEF Checkpoints
      <4> QED  BY <4>2, <4>3
    <3>4. Numbered(r)'
      <4>1. Running(r)
        BY <1>2 DEF Running
      <4>2. Len(results'[r]) - session'[r].seq = Len(results[r]) - session[r].seq
        <5>1. session[r].seq \in Nat /\ Len(results[r]) \in Nat
          BY <1>1, Bounds
        <5>2. Len(results'[r]) = Len(results[r]) + 1 /\ session'[r].seq = session[r].seq + 1
          BY <1>3, <1>5
        <5>3. \A a, b \in Nat : (a + 1) - (b + 1) = a - b
          OBVIOUS
        <5> QED  BY <5>1, <5>2, <5>3
      <4> QED  BY <1>3, <2>1, <2>3, <3>3, <4>1, <4>2 DEF Numbered
    <3> QED  BY <2>3, <3>1, <3>2, <3>4
  <2> QED  BY <2>2, <2>3
<1>11. RootBuffer'
  <2>1. RootBuffer
    BY DEF IInv
  <2>2. CASE r = Root
    BY <1>6, <2>2 DEF RootBuffer
  <2>3. CASE r # Root
    BY <1>2, <1>7, <2>1, <2>3, CallsStand DEF RootBuffer
  <2> QED  BY <2>2, <2>3
<1>12. ASSUME NEW q \in Workers
       PROVE  /\ WorkerBuffer(q)' /\ Pace(q)'
              /\ \A c \in Contents(<<q, Root>>)' : ContributionFrame(q, c)'
              /\ \A c \in Contents(<<Root, q>>)' : ResultFrame(q, c)'
  <2>1. q \in Ranks /\ <<q, Root>> \in Links /\ <<Root, q>> \in Links /\ q # Root
    BY Star
  <2>2. WorkerBuffer(q) /\ Pace(q)
    BY DEF IInv
  <2>3. /\ calls[q] \in Nat /\ Len(results[q]) \in Nat /\ Taken(q) \in Nat /\ Taken(q)' = Taken(q)
        /\ \A v \in {session[q], session[Root]} : v.epoch \in Nat /\ v.seq \in Nat
        /\ Running(Root)' => Running(Root)
        /\ calls' = calls
    BY <1>1, <1>2, <1>6, <1>7, <1>8, <2>1, Bounds, TakenType
  <2>4. WorkerBuffer(q)'
    <3>1. CASE q = r
      <4>1. pc'[q] \in {"epoch", "idle"}
        BY <1>4, <3>1 DEF label
      <4> QED  BY <4>1 DEF WorkerBuffer
    <3>2. CASE q # r
      <4>1. pc'[q] = pc[q]
        BY <1>4, <2>1, <3>2
      <4> QED  BY <1>2, <2>2, <2>3, <4>1, CallsStand DEF WorkerBuffer
    <3> QED  BY <3>1, <3>2
  <2>5. q = r /\ Running(Root) => Taken(q) >= calls[q] /\ calls[q] = Len(results[q]) + 1
    BY <1>2, <1>5, <2>2 DEF WorkerBuffer
  <2>6. Pace(q)'
    <3> SUFFICES ASSUME Running(Root)' PROVE Pace(q)'
      BY DEF Pace
    <3>1. CASE q = r
      <4>1. Gathered' = Gathered /\ session'[Root] = session[Root] /\ Len(results'[q]) = calls[q]
            /\ pc'[q] # "send"
        BY <1>1, <1>3, <1>4, <1>5, <1>7, <2>1, <3>1 DEF label
      <4>2. q \in Gathered => Before(session'[Root], session'[q])
        BY <1>3, <2>2, <2>3, <3>1, <4>1 DEF Pace, Before, SameNumber
      <4> QED  BY <2>2, <2>3, <2>5, <3>1, <4>1, <4>2 DEF Pace
    <3>2. CASE q # r
      <4>1. pc'[q] = pc[q] /\ results'[q] = results[q] /\ session'[q] = session[q]
        BY <1>3, <1>4, <2>1, <3>2
      <4>2. CASE r = Root
        BY <1>6, <2>2, <2>3, <4>1, <4>2 DEF Pace
      <4>3. CASE r # Root
        <5>1. session'[Root] = session[Root]
          BY <1>1, <1>3, <4>3
        <5> QED  BY <1>7, <2>2, <2>3, <4>1, <4>3, <5>1 DEF Pace
      <4> QED  BY <4>2, <4>3
    <3> QED  BY <3>1, <3>2
  <2>7. ASSUME NEW c \in Contents(<<q, Root>>)' PROVE ContributionFrame(q, c)'
    <3>5. c \in Contents(<<q, Root>>)
      BY <1>2 DEF Contents
    <3>1. ContributionFrame(q, c)
      BY <3>5 DEF IInv
    <3>2. CASE q = r
      <4>1. Gathered' = Gathered /\ session'[Root] = session[Root]
        BY <1>1, <1>3, <1>7, <2>1, <3>2
      <4> QED  BY <2>3, <2>5, <3>1, <3>2, <4>1 DEF ContributionFrame
    <3>3. CASE q # r /\ r # Root
      <4>1. /\ Gathered' = Gathered /\ session'[Root] = session[Root]
            /\ session'[q] = session[q] /\ pc'[q] = pc[q]
        BY <1>1, <1>3, <1>4, <1>7, <2>1, <3>3
      <4> QED  BY <1>2, <2>3, <3>1, <4>1, CallsStand DEF ContributionFrame
    <3>4. CASE r = Root
      <4>1. session'[q] = session[q] /\ pc'[q] = pc[q]
        BY <1>3, <1>4, <2>1, <3>4
      <4>2. Before(c.header, session[Root]) \/ SameNumber(c.header, session[Root])
            => Before(c.header, session'[Root])
        <5>1. c.header.epoch \in Nat /\ c.header.seq \in Nat
          BY <1>1, <2>1, <3>5, ContentsType
        <5> QED  BY <1>3, <2>3, <3>4, <5>1 DEF Before, SameNumber
      <4> QED  BY <1>2, <2>3, <3>1, <4>1, <4>2, CallsStand DEF ContributionFrame
    <3> QED  BY <3>2, <3>3, <3>4
  <2>8. ASSUME NEW c \in Contents(<<Root, q>>)' PROVE ResultFrame(q, c)'
    <3>4. c \in Contents(<<Root, q>>)
      BY <1>2 DEF Contents
    <3>1. ResultFrame(q, c)
      BY <3>4 DEF IInv
    <3>2. CASE q = r
      <4>1. Before(c.header, session[q]) \/ SameNumber(c.header, session[q])
            => Before(c.header, session'[q])
        <5>1. c.header.epoch \in Nat /\ c.header.seq \in Nat
          BY <1>1, <2>1, <3>4, ContentsType
        <5>2. /\ session[q].epoch \in Nat /\ session[q].seq \in Nat
              /\ session'[q].epoch = session[q].epoch /\ session'[q].seq = session[q].seq + 1
          BY <1>3, <2>3, <3>2
        <5> QED  BY <5>1, <5>2 DEF Before, SameNumber
      <4> QED  BY <3>1, <4>1 DEF ResultFrame
    <3>3. CASE q # r
      <4>1. session'[q] = session[q] /\ results'[q] = results[q]
        BY <1>3, <1>4, <2>1, <3>3
      <4> QED  BY <1>2, <2>3, <3>1, <4>1, CallsStand DEF ResultFrame
    <3> QED  BY <3>2, <3>3
  <2> QED  BY <2>4, <2>6, <2>7, <2>8
<1> QED  BY <1>10, <1>11, <1>12 DEF IInv

\* A checkpoint boundary opens the next epoch, one more checkpoint behind.
LEMMA OpenEpochKeeps ==
    ASSUME IInv, Types', NEW r \in Ranks, OpenEpoch(r), pc'[r] # "raised"
    PROVE  IInv'
<1> DEFINE m == Len(results[r])
<1>1. /\ Types /\ pc \in [Ranks -> PCs] /\ session \in [Ranks -> Session]
      /\ Healthy(session[r]) /\ Root \in Ranks
  BY Star DEF IInv, Types, TypeOK
<1>2. /\ pc[r] = "epoch" /\ ~NextEpoch(session[r]).raised
      /\ session' = [session EXCEPT ![r] = NextEpoch(session[r]).session]
      /\ pc' = [pc EXCEPT ![r] = "idle"]
      /\ UNCHANGED <<schedule, calls, results, buf, peer, wire>>
  BY <1>1 DEF OpenEpoch, SetSession, Goto
<1>3. /\ session'[r].epoch = session[r].epoch + 1 /\ session'[r].seq = 0
      /\ \A q \in Ranks : q # r => session'[q] = session[q]
  <2>1. PICK t : \/ NextEpoch(session[r]) = Raise(t)
                 \/ /\ NextEpoch(session[r]) = Return(t)
                    /\ t.epoch = session[r].epoch + 1 /\ t.seq = 0
    BY <1>1, NextEpochLaw
  <2>2. session'[r] = t /\ t.epoch = session[r].epoch + 1 /\ t.seq = 0
    BY <1>1, <1>2, <2>1, Endings
  <2> QED  BY <1>1, <1>2, <2>2
<1>4. pc'[r] = "idle" /\ \A q \in Ranks : q # r => pc'[q] = pc[q]
  BY <1>1, <1>2
<1>5. m = calls[r] /\ m \in Nat /\ m > 0 /\ m <= Len(schedule[r]) /\ schedule[r][m].epoch
  <2>1. Local(r)
    BY DEF IInv
  <2> QED  BY <1>1, <1>2, <2>1, Bounds DEF Local, Call
<1>6. r = Root => /\ Gathered = {} /\ Gathered' = {} /\ Running(Root)
                  /\ ~InCall(Root) /\ ~InCall(Root)' /\ ~Gathering /\ ~Gathering'
  <2> SUFFICES ASSUME r = Root
               PROVE  /\ Gathered = {} /\ Gathered' = {} /\ Running(Root)
                      /\ ~InCall(Root) /\ ~InCall(Root)' /\ ~Gathering /\ ~Gathering'
    OBVIOUS
  <2>1. ~Gathering /\ ~InCall(Root) /\ Running(Root) /\ ~Gathering' /\ ~InCall(Root)'
    BY <1>2, <1>4 DEF Gathering, InCall, Running
  <2> QED  BY <2>1 DEF Gathered
<1>7. r # Root => /\ Gathered' = Gathered /\ (Gathering' <=> Gathering)
                  /\ (Running(Root)' <=> Running(Root)) /\ (InCall(Root)' <=> InCall(Root))
  BY <1>1, <1>2, <1>4 DEF Gathered, Gathering, Running, InCall
<1>8. Gathered' = Gathered /\ (Running(Root)' => Running(Root))
  BY <1>6, <1>7
<1>9. ASSUME NEW q PROVE Taken(q)' = Taken(q)
  BY <1>2, <1>8 DEF Taken
\* The number grew.
<1>10. ASSUME NEW h, h.epoch \in Nat, h.seq \in Nat, Before(h, session[r]) \/ SameNumber(h, session[r])
       PROVE  Before(h, session'[r])
  <2>1. session[r].epoch \in Nat /\ session[r].seq \in Nat
    BY <1>1, Bounds
  <2> QED  BY <1>3, <1>10, <2>1 DEF Before, SameNumber
<1>11. Numbered(r)'
  <2>1. Numbered(r) /\ Running(r)
    BY <1>2 DEF IInv, Running
  <2>2. Behind(r) = m - 1 /\ Behind(r)' = m
    BY <1>2, <1>4 DEF Behind
  <2> DEFINE A == Checkpoints(r, m - 1)
             B == Checkpoints(r, m)
  <2>3. Checkpoints(r, Behind(r))' = B /\ Checkpoints(r, Behind(r)) = A
    BY <1>2, <2>2 DEF Checkpoints
  <2>4. B = A \union {m} /\ m \notin A /\ m \in B /\ \A i \in B : i <= m
    <3>1. \A i : i \in 1 .. m <=> (i \in 1 .. m - 1 \/ i = m)
      BY <1>5
    <3> QED  BY <1>5, <3>1 DEF Checkpoints
  <2>5. IsFiniteSet(A)
    <3>1. A \subseteq 1 .. m - 1
      BY DEF Checkpoints
    <3>2. 1 \in Int /\ m - 1 \in Int
      BY <1>5
    <3>3. IsFiniteSet(1 .. m - 1)
      BY <3>2, FS_Interval
    <3> QED  BY <3>1, <3>3, FS_Subset
  <2> HIDE DEF A, B
  <2>6. Cardinality(B) = Cardinality(A) + 1
    BY <2>4, <2>5, FS_AddElement
  <2>7. session[r].epoch = Cardinality(A)
    BY <2>1, <2>3 DEF Numbered
  <2>8. Len(results'[r]) - session'[r].seq = m
    BY <1>2, <1>3, <1>5
  <2> QED  BY <1>3, <2>3, <2>4, <2>6, <2>7, <2>8 DEF Numbered
<1>12. ASSUME NEW q \in Ranks PROVE Local(q)' /\ Backed(q)' /\ Numbered(q)'
  <2>1. Local(q) /\ Backed(q) /\ Numbered(q)
    BY DEF IInv
  <2>2. Backed(q)'
    BY <1>2, <2>1, CallsStand DEF Backed
  <2>3. CASE q = r
    <3>1. Local(q)'
      BY <1>2, <1>4, <1>5, <2>3 DEF Local, InCall
    <3> QED  BY <1>11, <2>2, <2>3, <3>1
  <2>4. CASE q # r
    <3>1. pc'[q] = pc[q] /\ session'[q] = session[q]
      BY <1>3, <1>4, <2>4
    <3>2. Local(q)'
      BY <1>2, <2>1, <3>1, CallsStand DEF Local, InCall
    <3>3. Behind(q)' = Behind(q) /\ (Running(q)' => Running(q))
      BY <1>2, <3>1 DEF Behind, Running
    <3>4. Checkpoints(q, Behind(q))' = Checkpoints(q, Behind(q))
      BY <1>2, <3>3 DEF Checkpoints
    <3>5. Numbered(q)'
      BY <1>2, <2>1, <3>1, <3>3, <3>4 DEF Numbered
    <3> QED  BY <2>2, <3>2, <3>5
  <2> QED  BY <2>3, <2>4
<1>13. RootBuffer'
  <2>1. RootBuffer
    BY DEF IInv
  <2>2. CASE r = Root
    BY <1>6, <2>2 DEF RootBuffer
  <2>3. CASE r # Root
    BY <1>2, <1>7, <2>1, <2>3, CallsStand DEF RootBuffer
  <2> QED  BY <2>2, <2>3
<1>14. ASSUME NEW q \in Workers
       PROVE  /\ WorkerBuffer(q)' /\ Pace(q)'
              /\ \A c \in Contents(<<q, Root>>)' : ContributionFrame(q, c)'
              /\ \A c \in Contents(<<Root, q>>)' : ResultFrame(q, c)'
  <2>1. q \in Ranks /\ <<q, Root>> \in Links /\ <<Root, q>> \in Links /\ q # Root
    BY Star
  <2>2. WorkerBuffer(q) /\ Pace(q)
    BY DEF IInv
  <2>3. /\ calls[q] \in Nat /\ Len(results[q]) \in Nat /\ Taken(q) \in Nat /\ Taken(q)' = Taken(q)
        /\ session[q].epoch \in Nat /\ session[q].seq \in Nat
        /\ session[Root].epoch \in Nat /\ session[Root].seq \in Nat
    BY <1>1, <1>9, <2>1, Bounds, TakenType
  <2>4. (pc'[q] = "send" => pc[q] = "send") /\ (pc'[q] = "finish" => pc[q] = "finish")
    BY <1>4, <2>1
  <2>5. q = r => calls[q] = Len(results[q])
    BY <1>5
  <2>6. WorkerBuffer(q)'
    BY <1>2, <1>8, <2>2, <2>3, <2>4, CallsStand DEF WorkerBuffer
  <2>7. Pace(q)'
    <3> SUFFICES ASSUME Running(Root)' PROVE Pace(q)'
      BY DEF Pace
    <3>1. CASE q = r
      <4>1. session'[Root] = session[Root]
        BY <1>1, <1>3, <2>1, <3>1
      <4>2. q \in Gathered => Before(session[Root], session[q])
        BY <1>8, <2>2, <2>3, <2>5, <3>1 DEF Pace
      <4>3. q \in Gathered => Before(session'[Root], session'[q])
        BY <1>10, <2>3, <3>1, <4>1, <4>2
      <4> QED  BY <1>2, <1>8, <2>2, <2>3, <2>4, <4>3 DEF Pace
    <3>2. CASE q # r
      <4>1. session'[q] = session[q]
        BY <1>3, <2>1, <3>2
      <4>2. CASE r = Root
        BY <1>2, <1>6, <1>8, <2>2, <2>3, <2>4, <4>2 DEF Pace
      <4>3. CASE r # Root
        <5>1. session'[Root] = session[Root]
          BY <1>1, <1>3, <4>3
        <5> QED  BY <1>2, <1>8, <2>2, <2>3, <2>4, <4>1, <5>1 DEF Pace
      <4> QED  BY <4>2, <4>3
    <3> QED  BY <3>1, <3>2
  <2>8. ASSUME NEW c \in Contents(<<q, Root>>)' PROVE ContributionFrame(q, c)'
    <3>1. c \in Contents(<<q, Root>>)
      BY <1>2 DEF Contents
    <3>2. ContributionFrame(q, c)
      BY <3>1 DEF IInv
    <3>3. CASE q = r
      <4>1. session'[Root] = session[Root]
        BY <1>1, <1>3, <2>1, <3>3
      <4>2. Running(Root) => calls[q] # Taken(q) + 1
        BY <2>2, <2>3, <2>5, <3>3 DEF Pace
      <4> QED  BY <1>8, <3>2, <4>1, <4>2 DEF ContributionFrame
    <3>4. CASE q # r /\ r # Root
      <4>1. session'[Root] = session[Root] /\ session'[q] = session[q] /\ pc'[q] = pc[q]
        BY <1>1, <1>3, <1>4, <2>1, <3>4
      <4> QED  BY <1>2, <1>8, <2>3, <3>2, <4>1, CallsStand DEF ContributionFrame
    <3>5. CASE r = Root
      <4>1. session'[q] = session[q] /\ pc'[q] = pc[q]
        BY <1>3, <1>4, <2>1, <3>5
      <4>2. Before(c.header, session[Root]) => Before(c.header, session'[Root])
        BY <1>1, <1>10, <2>1, <3>1, <3>5, ContentsType
      <4> QED  BY <1>2, <1>6, <1>8, <2>3, <3>2, <3>5, <4>1, <4>2, CallsStand DEF ContributionFrame
    <3> QED  BY <3>3, <3>4, <3>5
  <2>9. ASSUME NEW c \in Contents(<<Root, q>>)' PROVE ResultFrame(q, c)'
    <3>1. c \in Contents(<<Root, q>>)
      BY <1>2 DEF Contents
    <3>2. ResultFrame(q, c)
      BY <3>1 DEF IInv
    <3>3. CASE q = r
      <4>1. Before(c.header, session[q]) => Before(c.header, session'[q])
        BY <1>1, <1>10, <2>1, <3>1, <3>3, ContentsType
      <4> QED  BY <2>3, <2>5, <3>2, <3>3, <4>1 DEF ResultFrame
    <3>4. CASE q # r
      <4>1. session'[q] = session[q]
        BY <1>3, <2>1, <3>4
      <4> QED  BY <1>2, <1>8, <2>3, <3>2, <4>1, CallsStand DEF ResultFrame
    <3> QED  BY <3>3, <3>4
  <2> QED  BY <2>6, <2>7, <2>8, <2>9
<1> QED  BY <1>12, <1>13, <1>14 DEF IInv

-----------------------------------------------------------------------------
(* Every step keeps the types and the invariant.                           *)

\* The typing half of the invariant, in the parts that the steps below quote.
LEMMA Typing ==
    ASSUME IInv
    PROVE  /\ Types
           /\ schedule \in [Ranks -> Schedules] /\ session \in [Ranks -> Session]
           /\ clock \in [Ranks -> Nat] /\ pc \in [Ranks -> PCs]
           /\ peer \in [Ranks -> Ranks] /\ \A r \in Ranks : peer[r] \in Peers(r)
           /\ calls \in [Ranks -> Nat] /\ wire \in [Links -> Seq(Frame)]
           /\ live \subseteq fds /\ fds \subseteq Links /\ faults \in Nat
           /\ buf \in [Ranks -> Payloads] /\ results \in [Ranks -> Seq(Payloads)]
           /\ \A r \in Ranks : Healthy(session[r])
  BY DEF IInv, Types, TypeOK

\* A step that replaces one rank's session by another that kept its number.
LEMMA SessionStep ==
    ASSUME IInv, NEW r \in Ranks, NEW t, Healthy(t), session' = [session EXCEPT ![r] = t]
    PROVE  /\ session' \in [Ranks -> Session]
           /\ \A q \in Ranks : Healthy(session'[q])
           /\ Kept(session[r], t) => \A q \in Ranks : Kept(session[q], session'[q])
<1>1. session'[r] = t /\ \A q \in Ranks : q # r => session'[q] = session[q]
  BY Typing
<1>2. t \in Session /\ \A q \in Ranks : Healthy(session[q]) /\ Kept(session[q], session[q])
  BY Typing, KeptItself DEF Healthy
<1>3. session' \in [Ranks -> Session]
  BY <1>2, Typing
<1>4. ASSUME NEW q \in Ranks
      PROVE  Healthy(session'[q]) /\ (Kept(session[r], t) => Kept(session[q], session'[q]))
  <2>1. CASE q = r
    BY <1>1, <2>1
  <2>2. CASE q # r
    BY <1>1, <1>2, <2>2
  <2> QED  BY <2>1, <2>2
<1> QED  BY <1>3, <1>4

\* A rank that raised, or whose session changed only how it stands.
LEMMA RaisedKeeps ==
    ASSUME IInv, NEW r \in Ranks, NEW t, Kept(session[r], t),
           session' = [session EXCEPT ![r] = t],
           NEW label \in {"raised", "stopped"}, pc' = [pc EXCEPT ![r] = label],
           clock' \in [Ranks -> Nat], live' \subseteq fds', fds' \subseteq Links,
           UNCHANGED <<schedule, calls, results, peer, buf, faults>>,
           wire' \in [Links -> Seq(Frame)],
           \A l \in Links : Contents(l)' \subseteq Contents(l)
    PROVE  IInv'
<1>1. Healthy(t)
  BY DEF Kept
<1>2. /\ session' \in [Ranks -> Session] /\ \A q \in Ranks : Healthy(session'[q])
      /\ \A q \in Ranks : Kept(session[q], session'[q])
  BY <1>1, SessionStep
<1>3. pc' \in [Ranks -> PCs]
  BY Typing DEF PCs
<1>4. Types'
  BY <1>2, <1>3, Typing DEF Types, TypeOK
<1>5. \A q \in Ranks : QuietPc(q)
  BY Typing DEF QuietPc
<1>6. Quiet
  BY <1>2, <1>5 DEF Quiet
<1> QED  BY <1>4, <1>6, QuietKeeps

\* A step that leaves every session as it is.
LEMMA SameSessionsKeep ==
    ASSUME IInv, UNCHANGED <<schedule, session, calls, results, peer, buf>>,
           pc' \in [Ranks -> PCs], \A r \in Ranks : QuietPc(r),
           clock' \in [Ranks -> Nat], live' \subseteq fds', fds' \subseteq Links, faults' \in Nat,
           wire' \in [Links -> Seq(Frame)],
           \A l \in Links : Contents(l)' \subseteq Contents(l)
    PROVE  IInv'
<1>1. \A r \in Ranks : Kept(session[r], session'[r])
  BY Typing, KeptItself
<1>2. Types'
  BY Typing DEF Types, TypeOK
<1>3. Quiet
  BY <1>1 DEF Quiet
<1> QED  BY <1>2, <1>3, QuietKeeps

\* A step that leaves the wire alone puts nothing on a link.
LEMMA SameWire ==
    ASSUME UNCHANGED wire
    PROVE  \A l \in Links : Contents(l)' \subseteq Contents(l)
  BY DEF Contents

\* StartCall keeps the invariant, whether Begin returns or raises.
LEMMA StartCallStep ==
    ASSUME IInv, NEW r \in Ranks, StartCall(r)
    PROVE  IInv'
<1> DEFINE k == calls[r] + 1
           b == Begin(session[r], schedule[r][k].op, schedule[r][k].n, 0)
<1>1. /\ calls[r] < Len(schedule[r]) /\ clock' = [clock EXCEPT ![r] = 0]
      /\ session' = [session EXCEPT ![r] = b.session]
      /\ b.raised => pc' = [pc EXCEPT ![r] = "raised"] /\ UNCHANGED <<peer, buf, calls>>
      /\ ~b.raised => /\ pc' = [pc EXCEPT ![r] = IF r = Root THEN "recv" ELSE "send"]
                      /\ peer' = [peer EXCEPT ![r] = FirstPeer(r)]
                      /\ buf' = [buf EXCEPT ![r] = Payload(r, k)]
                      /\ calls' = [calls EXCEPT ![r] = k]
      /\ UNCHANGED <<schedule, results, wire, live, fds, faults>>
  BY DEF StartCall, Raised, SetSession, Goto
<1>2. k \in Nat /\ Healthy(session[r]) /\ schedule[r][k].n \in Int
  <2>1. calls[r] \in Nat /\ Healthy(session[r]) /\ Len(schedule[r]) \in Nat
    BY Typing, Bounds
  <2>2. k \in 1 .. Len(schedule[r])
    BY <1>1, <2>1
  <2>3. schedule[r][k].n \in 0 .. MaxElements
    BY <2>2, Typing, Bounds
  <2> QED  BY <2>1, <2>3, MaxElementsAssumption
<1>3. PICK t : /\ Healthy(t)
               /\ \/ b = Raise(t) /\ Kept(session[r], t)
                  \/ b = Return(t)
  BY <1>2, BeginLaw
<1>4. clock' \in [Ranks -> Nat]
  BY <1>1, Typing
<1>5. CASE b = Raise(t) /\ Kept(session[r], t)
  <2>1. b.raised /\ b.session = t
    BY <1>5, Endings
  <2> QED  BY <1>1, <1>4, <1>5, <2>1, Typing, SameWire, RaisedKeeps
<1>6. CASE b = Return(t)
  <2>1. ~b.raised /\ b.session = t
    BY <1>6, Endings
  <2>8. /\ peer' = [peer EXCEPT ![r] = FirstPeer(r)]
        /\ buf' = [buf EXCEPT ![r] = Payload(r, k)]
        /\ calls' = [calls EXCEPT ![r] = k]
        /\ peer \in [Ranks -> Ranks] /\ buf \in [Ranks -> Payloads]
        /\ \A q \in Ranks : peer[q] \in Peers(q)
    BY <1>1, <2>1, Typing
  <2>9. Payload(r, k) \in Payloads
    BY <1>2, PayloadType
  <2> HIDE DEF b
  <2>2. session' \in [Ranks -> Session] /\ \A q \in Ranks : Healthy(session'[q])
    BY <1>1, <1>3, <2>1, SessionStep
  <2>3. peer' \in [Ranks -> Ranks] /\ \A q \in Ranks : peer'[q] \in Peers(q)
    <3>1. FirstPeer(r) \in Peers(r) /\ FirstPeer(r) \in Ranks
      BY Star
    <3> QED  BY <2>8, <3>1
  <2>4. pc' \in [Ranks -> PCs]
    BY <1>1, <2>1, Typing DEF PCs
  <2>5. buf' \in [Ranks -> Payloads]
    BY <2>8, <2>9
  <2>6. calls' \in [Ranks -> Nat]
    BY <1>2, <2>8, Typing
  <2>7. Types'
    BY <1>1, <1>4, <2>2, <2>3, <2>4, <2>5, <2>6, Typing DEF Types, TypeOK
  <2> QED  BY <2>1, <2>7, StartCallKeeps DEF b
<1> QED  BY <1>3, <1>5, <1>6

\* Starting to wait for a peer is a quiet step.
LEMMA EnterRecvStep ==
    ASSUME IInv, NEW r \in Ranks, EnterRecv(r)
    PROVE  IInv'
<1> DEFINE d == CheckDeadline(session[r], clock[r])
<1>1. /\ pc[r] = "recv"
      /\ d.raised => session' = [session EXCEPT ![r] = d.session] /\ pc' = [pc EXCEPT ![r] = "raised"]
      /\ ~d.raised => pc' = [pc EXCEPT ![r] = "wait"] /\ UNCHANGED session
      /\ UNCHANGED <<schedule, clock, peer, buf, calls, results, wire, live, fds, faults>>
  BY DEF EnterRecv, Raised, SetSession, Goto
<1>2. \/ d = Return(session[r])
      \/ \E t : d = Raise(t) /\ Kept(session[r], t)
  BY Typing, CheckDeadlineLaw
<1> HIDE DEF d
<1>3. CASE d.raised
  <2>1. PICK t : d = Raise(t) /\ Kept(session[r], t)
    BY <1>2, <1>3, Endings
  <2>2. d.session = t
    BY <2>1, Endings
  <2> QED  BY <1>1, <1>3, <2>1, <2>2, Typing, SameWire, RaisedKeeps
<1>4. CASE ~d.raised
  <2>1. pc' \in [Ranks -> PCs]
    BY <1>1, <1>4, Typing DEF PCs
  <2>2. \A q \in Ranks : QuietPc(q)
    BY <1>1, <1>4, Typing DEF QuietPc
  <2> QED  BY <1>1, <1>4, <2>1, <2>2, Typing, SameWire, SameSessionsKeep
<1> QED  BY <1>3, <1>4

\* Reading a frame off one connection.
LEMMA TakeFrame ==
    ASSUME IInv, NEW l \in Links, wire[l] # <<>>, wire' = [wire EXCEPT ![l] = Tail(@)]
    PROVE  /\ wire' \in [Links -> Seq(Frame)] /\ Head(wire[l]) \in Frame
           /\ \A m \in Links : Contents(m)' \subseteq Contents(m)
<1>1. wire \in [Links -> Seq(Frame)] /\ wire[l] \in Seq(Frame)
  BY Typing
<1>2. /\ Tail(wire[l]) \in Seq(Frame) /\ Head(wire[l]) \in Frame
      /\ Read(Tail(wire[l])) \subseteq Read(wire[l])
  BY <1>1, ReadTail
<1>3. wire' \in [Links -> Seq(Frame)]
  BY <1>1, <1>2
<1>4. ASSUME NEW m \in Links PROVE Contents(m)' \subseteq Contents(m)
  <2>1. wire'[m] = IF m = l THEN Tail(wire[l]) ELSE wire[m]
    BY <1>1
  <2> QED  BY <1>2, <2>1 DEF Contents
<1> QED  BY <1>2, <1>3, <1>4

\* Receive keeps the invariant, at the root, at a worker, and where it raises.
LEMMA ReceiveStep ==
    ASSUME IInv, NEW r \in Ranks, Receive(r)
    PROVE  IInv'
<1>0. PICK q \in Ranks : q = peer[r]
  BY Typing
<1> DEFINE l == <<q, r>>
           f == Head(wire[l])
           v == Validate(session[r], f.header, IF r = Root THEN "contrib" ELSE "result", q)
<1>1. q \in Peers(r) /\ l \in Links /\ wire[l] # <<>> /\ wire' = [wire EXCEPT ![l] = Tail(@)]
  BY <1>0, Star, Typing DEF Receive
<1>2. /\ wire' \in [Links -> Seq(Frame)] /\ f \in Frame
      /\ \A m \in Links : Contents(m)' \subseteq Contents(m)
  BY <1>1, TakeFrame
<1>3. /\ UNCHANGED <<schedule, clock, calls, results, live, fds, faults>>
      /\ \/ f.corrupt /\ pc' = [pc EXCEPT ![r] = "raised"] /\ UNCHANGED <<session, peer, buf>>
         \/ /\ ~f.corrupt /\ v.raised /\ session' = [session EXCEPT ![r] = v.session]
            /\ pc' = [pc EXCEPT ![r] = "raised"] /\ UNCHANGED <<peer, buf>>
         \/ /\ ~f.corrupt /\ ~v.raised /\ r = Root
            /\ buf' = [buf EXCEPT ![r] = Fold(@, f.payload)]
            /\ peer' = [peer EXCEPT ![r] = IF LastPeer(r, q) THEN FirstPeer(r) ELSE q + 1]
            /\ pc' = [pc EXCEPT ![r] = IF LastPeer(r, q) THEN "send" ELSE "recv"]
            /\ session' = [session EXCEPT ![r] = v.session]
         \/ /\ ~f.corrupt /\ ~v.raised /\ r # Root
            /\ buf' = [buf EXCEPT ![r] = f.payload]
            /\ pc' = [pc EXCEPT ![r] = "finish"]
            /\ session' = [session EXCEPT ![r] = v.session]
            /\ UNCHANGED peer
  BY <1>0 DEF Receive, Raised, SetSession, Goto
<1>4. /\ v.raised => \E t : v.session = t /\ Kept(session[r], t)
      /\ ~v.raised => v.session = session[r]
  <2>1. Healthy(session[r]) /\ f.header \in Header
    BY <1>2, Typing DEF Frame
  <2>2. \/ \E t : v = Raise(t) /\ Kept(session[r], t)
        \/ v = Return(session[r])
    BY <2>1, ValidateLaw
  <2> HIDE DEF v
  <2> QED  BY <2>2, Endings
<1>5. f.payload \in Payloads
  BY <1>2 DEF Frame, Payloads
<1> HIDE DEF f, v, l
<1>6. CASE f.corrupt /\ pc' = [pc EXCEPT ![r] = "raised"] /\ UNCHANGED <<session, peer, buf>>
  <2>1. pc' \in [Ranks -> PCs] /\ \A p \in Ranks : QuietPc(p)
    BY <1>6, Typing DEF PCs, QuietPc
  <2> QED  BY <1>2, <1>3, <1>6, <2>1, Typing, SameSessionsKeep
<1>7. CASE /\ v.raised /\ session' = [session EXCEPT ![r] = v.session]
           /\ pc' = [pc EXCEPT ![r] = "raised"] /\ UNCHANGED <<peer, buf>>
  <2>1. PICK t : v.session = t /\ Kept(session[r], t)
    BY <1>4, <1>7
  <2> QED  BY <1>2, <1>3, <1>7, <2>1, Typing, RaisedKeeps
<1>8. CASE /\ ~v.raised /\ r = Root
           /\ buf' = [buf EXCEPT ![r] = Fold(@, f.payload)]
           /\ peer' = [peer EXCEPT ![r] = IF LastPeer(r, q) THEN FirstPeer(r) ELSE q + 1]
           /\ pc' = [pc EXCEPT ![r] = IF LastPeer(r, q) THEN "send" ELSE "recv"]
           /\ session' = [session EXCEPT ![r] = v.session]
  <2>1. session' = session
    BY <1>4, <1>8, Typing
  <2>2. buf' \in [Ranks -> Payloads]
    <3>1. buf[r] \in Payloads
      BY Typing
    <3>2. Fold(buf[r], f.payload) \in Payloads
      BY <1>5, <3>1 DEF Fold, Payloads
    <3> QED  BY <1>8, <3>2, Typing
  <2>3. pc' \in [Ranks -> PCs] /\ pc'[Root] # "raised"
    <3>1. (IF LastPeer(r, q) THEN "send" ELSE "recv") \in PCs \ {"raised"}
      BY DEF PCs
    <3> QED  BY <1>8, <3>1, Typing
  <2>4. peer' \in [Ranks -> Ranks] /\ \A p \in Ranks : peer'[p] \in Peers(p)
    <3>1. q \in 1 .. N - 1
      BY <1>1, <1>8, NAssumption DEF Peers, Workers, Ranks, Root
    <3>2. ~LastPeer(r, q) => q + 1 \in Peers(r)
      BY <1>8, <3>1, NAssumption DEF LastPeer, Peers, Workers, Ranks, Root
    <3>3. (IF LastPeer(r, q) THEN FirstPeer(r) ELSE q + 1) \in Peers(r)
      BY <3>2, Star
    <3>4. Peers(r) \subseteq Ranks
      BY Star
    <3> HIDE DEF LastPeer
    <3> QED  BY <1>8, <3>3, <3>4, Typing
  <2>5. Types'
    BY <1>2, <1>3, <2>1, <2>2, <2>3, <2>4, Typing DEF Types, TypeOK
  <2> QED  BY <1>8, <2>3, <2>5, RootReceivesKeeps
<1>9. CASE /\ ~v.raised /\ r # Root
           /\ buf' = [buf EXCEPT ![r] = f.payload]
           /\ pc' = [pc EXCEPT ![r] = "finish"]
           /\ session' = [session EXCEPT ![r] = v.session]
           /\ UNCHANGED peer
  <2>1. session' = session
    BY <1>4, <1>9, Typing
  <2>2. buf' \in [Ranks -> Payloads]
    BY <1>5, <1>9, Typing
  <2>3. pc' \in [Ranks -> PCs] /\ pc'[r] # "raised"
    BY <1>9, Typing DEF PCs
  <2>4. Types'
    BY <1>2, <1>3, <1>9, <2>1, <2>2, <2>3, Typing DEF Types, TypeOK
  <2> QED  BY <1>9, <2>3, <2>4, Star, WorkerReceivesKeeps
<1> QED  BY <1>3, <1>6, <1>7, <1>8, <1>9

\* A lost peer or an expired deadline is a quiet step.
LEMMA LostStep ==
    ASSUME IInv, NEW r \in Ranks, RecvLost(r) \/ RecvTimeout(r) \/ SendLost(r)
    PROVE  IInv'
<1> DEFINE t == MarkLost(session[r], peer[r]).session
<1>1. /\ session' = [session EXCEPT ![r] = t] /\ pc' = [pc EXCEPT ![r] = "raised"]
      /\ UNCHANGED <<schedule, peer, buf, calls, results, wire, fds, faults>>
      /\ live' \subseteq live
      /\ clock' = clock \/ clock' = [clock EXCEPT ![r] = session[r].deadline + 1]
  BY DEF RecvLost, RecvTimeout, SendLost, Raised, SetSession, Goto
<1>2. Kept(session[r], t)
  BY Typing, MarkLostLaw
<1> HIDE DEF t
<1>3. clock' \in [Ranks -> Nat]
  <2>1. session[r] \in Session
    BY Typing
  <2>2. session[r].deadline + 1 \in Nat
    BY <2>1 DEF Session
  <2> QED  BY <1>1, <2>2, Typing
<1> QED  BY <1>1, <1>2, <1>3, Typing, SameWire, RaisedKeeps

\* Send keeps the invariant, at the root, at a worker, and where it raises.
LEMMA SendStep ==
    ASSUME IInv, NEW r \in Ranks, Send(r)
    PROVE  IInv'
<1>0. PICK q \in Ranks : q = peer[r]
  BY Typing
<1> DEFINE d == CheckDeadline(session[r], clock[r])
<1>1. /\ pc[r] = "send" /\ q \in Peers(r)
      /\ d.raised => /\ session' = [session EXCEPT ![r] = d.session]
                     /\ pc' = [pc EXCEPT ![r] = "raised"] /\ UNCHANGED <<wire, peer>>
      /\ ~d.raised => /\ wire' = [wire EXCEPT ![<<r, q>>] = IF Hung(<<r, q>>) THEN @ ELSE Append(@, Sent(r))]
                      /\ peer' = [peer EXCEPT ![r] = IF LastPeer(r, q) THEN @ ELSE q + 1]
                      /\ pc' = [pc EXCEPT ![r] = IF r # Root THEN "recv"
                                                 ELSE IF LastPeer(r, q) THEN "finish" ELSE "send"]
                      /\ UNCHANGED session
      /\ UNCHANGED <<schedule, clock, buf, calls, results, live, fds, faults>>
  BY <1>0, Typing DEF Send, Raised, SetSession, Goto, Sent
<1>2. \/ d = Return(session[r])
      \/ \E t : d = Raise(t) /\ Kept(session[r], t)
  <2>1. Healthy(session[r]) /\ clock[r] \in Nat
    BY Typing
  <2> QED  BY <2>1, CheckDeadlineLaw
<1> HIDE DEF d
<1>3. CASE d.raised
  <2>1. PICK t : d = Raise(t) /\ Kept(session[r], t)
    BY <1>2, <1>3, Endings
  <2>2. d.session = t
    BY <2>1, Endings
  <2> QED  BY <1>1, <1>3, <2>1, <2>2, Typing, SameWire, RaisedKeeps
<1>4. CASE ~d.raised
  <2>1. /\ wire' = [wire EXCEPT ![<<r, q>>] = IF Hung(<<r, q>>) THEN @ ELSE Append(@, Sent(r))]
        /\ peer' = [peer EXCEPT ![r] = IF LastPeer(r, q) THEN @ ELSE q + 1]
        /\ pc' = [pc EXCEPT ![r] = IF r # Root THEN "recv"
                                   ELSE IF LastPeer(r, q) THEN "finish" ELSE "send"]
        /\ session' = session
    BY <1>1, <1>4
  <2>2. wire' \in [Links -> Seq(Frame)]
    <3>1. wire \in [Links -> Seq(Frame)] /\ <<r, q>> \in Links /\ Sent(r) \in Frame
      BY <1>1, Star, SentType, Typing
    <3>2. wire[<<r, q>>] \in Seq(Frame) /\ Append(wire[<<r, q>>], Sent(r)) \in Seq(Frame)
      BY <3>1, ReadAppend
    <3> HIDE DEF Sent, Hung
    <3> QED  BY <2>1, <3>1, <3>2
  <2>3. pc' \in [Ranks -> PCs] /\ pc'[r] # "raised"
    <3>1. (IF r # Root THEN "recv" ELSE IF LastPeer(r, q) THEN "finish" ELSE "send") \in PCs \ {"raised"}
      BY DEF PCs
    <3> QED  BY <2>1, <3>1, Typing
  <2>4. peer' \in [Ranks -> Ranks] /\ \A p \in Ranks : peer'[p] \in Peers(p)
    <3>1. ~LastPeer(r, q) => q + 1 \in Peers(r)
      BY <1>1, NAssumption DEF LastPeer, Peers, Workers, Ranks, Root
    <3>2. (IF LastPeer(r, q) THEN peer[r] ELSE q + 1) \in Peers(r)
      BY <1>0, <1>1, <3>1
    <3>3. Peers(r) \subseteq Ranks
      BY Star
    <3>4. peer' = [peer EXCEPT ![r] = IF LastPeer(r, q) THEN peer[r] ELSE q + 1]
      BY <2>1
    <3> QED  BY <3>2, <3>3, <3>4, Typing
  <2>5. Types'
    BY <1>1, <2>1, <2>2, <2>3, <2>4, Typing DEF Types, TypeOK
  <2>6. CASE r = Root
    BY <2>3, <2>5, <2>6, RootSendsKeeps
  <2>7. CASE r # Root
    BY <2>3, <2>5, <2>7, Star, WorkerSendsKeeps
  <2> QED  BY <2>6, <2>7
<1> QED  BY <1>3, <1>4

\* FinishCall keeps the invariant, whether Finish returns or raises.
LEMMA FinishCallStep ==
    ASSUME IInv, NEW r \in Ranks, FinishCall(r)
    PROVE  IInv'
<1> DEFINE d == Finish(session[r])
<1>1. /\ session' = [session EXCEPT ![r] = d.session]
      /\ d.raised => pc' = [pc EXCEPT ![r] = "raised"] /\ UNCHANGED results
      /\ ~d.raised => /\ results' = [results EXCEPT ![r] = Append(@, buf[r])]
                      /\ pc' = [pc EXCEPT ![r] = IF Call(r).epoch THEN "epoch" ELSE "idle"]
      /\ UNCHANGED <<schedule, clock, peer, buf, calls, wire, live, fds, faults>>
  BY DEF FinishCall, Raised, SetSession, Goto
<1>2. PICK t : \/ d = Raise(t) /\ Kept(session[r], t)
               \/ d = Return(t) /\ Healthy(t)
  BY Typing, FinishLaw
<1> HIDE DEF d
<1>3. CASE d = Raise(t) /\ Kept(session[r], t)
  <2>1. d.raised /\ d.session = t
    BY <1>3, Endings
  <2> QED  BY <1>1, <1>3, <2>1, Typing, SameWire, RaisedKeeps
<1>4. CASE d = Return(t) /\ Healthy(t)
  <2>1. ~d.raised /\ d.session = t
    BY <1>4, Endings
  <2>2. session' \in [Ranks -> Session] /\ \A q \in Ranks : Healthy(session'[q])
    BY <1>1, <1>4, <2>1, SessionStep
  <2>3. results' \in [Ranks -> Seq(Payloads)]
    <3>1. results[r] \in Seq(Payloads) /\ buf[r] \in Payloads
      BY Typing
    <3>2. Append(results[r], buf[r]) \in Seq(Payloads)
      BY <3>1
    <3> QED  BY <1>1, <2>1, <3>2, Typing
  <2>4. pc' \in [Ranks -> PCs] /\ pc'[r] # "raised"
    <3>1. (IF Call(r).epoch THEN "epoch" ELSE "idle") \in PCs \ {"raised"}
      BY DEF PCs
    <3>2. pc' = [pc EXCEPT ![r] = IF Call(r).epoch THEN "epoch" ELSE "idle"] /\ pc \in [Ranks -> PCs]
      BY <1>1, <2>1, Typing
    <3> QED  BY <3>1, <3>2
  <2>5. Types'
    BY <1>1, <2>2, <2>3, <2>4, Typing DEF Types, TypeOK
  <2> QED  BY <2>4, <2>5, FinishCallKeeps
<1> QED  BY <1>2, <1>3, <1>4

\* OpenEpoch keeps it: a checkpoint more is behind the rank and it counts from 0 again.
LEMMA OpenEpochStep ==
    ASSUME IInv, NEW r \in Ranks, OpenEpoch(r)
    PROVE  IInv'
<1> DEFINE d == NextEpoch(session[r])
<1>1. /\ session' = [session EXCEPT ![r] = d.session]
      /\ pc' = [pc EXCEPT ![r] = IF d.raised THEN "raised" ELSE "idle"]
      /\ UNCHANGED <<schedule, clock, peer, buf, calls, results, wire, live, fds, faults>>
  BY DEF OpenEpoch, SetSession, Goto
<1>2. PICK t : \/ d = Raise(t) /\ Kept(session[r], t)
               \/ d = Return(t) /\ Healthy(t)
  BY Typing, NextEpochLaw
<1> HIDE DEF d
<1>3. CASE d = Raise(t) /\ Kept(session[r], t)
  <2>1. d.raised /\ d.session = t
    BY <1>3, Endings
  <2>2. pc' = [pc EXCEPT ![r] = "raised"]
    BY <1>1, <2>1
  <2> QED  BY <1>1, <1>3, <2>1, <2>2, Typing, SameWire, RaisedKeeps
<1>4. CASE d = Return(t) /\ Healthy(t)
  <2>1. ~d.raised /\ d.session = t
    BY <1>4, Endings
  <2>2. session' \in [Ranks -> Session] /\ \A q \in Ranks : Healthy(session'[q])
    BY <1>1, <1>4, <2>1, SessionStep
  <2>3. pc' \in [Ranks -> PCs] /\ pc'[r] # "raised"
    BY <1>1, <2>1, Typing DEF PCs
  <2>4. Types'
    BY <1>1, <2>2, <2>3, Typing DEF Types, TypeOK
  <2> QED  BY <2>3, <2>4, OpenEpochKeeps
<1> QED  BY <1>2, <1>3, <1>4

\* A closed connection loses frames, and gains none.
LEMMA CloseEndsKeeps ==
    ASSUME IInv, NEW r \in Ranks, NEW ends, CloseEnds(r, ends)
    PROVE  /\ wire' \in [Links -> Seq(Frame)]
           /\ \A l \in Links : Contents(l)' \subseteq Contents(l)
<1>1. DOMAIN wire' = Links /\ wire' = [l \in Links |-> wire'[l]]
  BY DEF CloseEnds
<1>2. ASSUME NEW l \in Links PROVE wire'[l] = wire[l] \/ wire'[l] = <<>>
  BY DEF CloseEnds
<1>3. Read(<<>>) = {} /\ <<>> \in Seq(Frame)
  BY DEF Read
<1>4. ASSUME NEW l \in Links PROVE wire'[l] \in Seq(Frame) /\ Contents(l)' \subseteq Contents(l)
  BY <1>2, <1>3, Typing DEF Contents
<1> QED  BY <1>1, <1>4

\* Leaving, crashing, being cancelled and the passing of time are quiet steps.
LEMMA EndingStep ==
    ASSUME IInv, NEW r \in Ranks,
           ReturnModel(r) \/ Shutdown(r) \/ Crash(r) \/ Vanish(r) \/ RequestCancel(r) \/ Tick(r)
    PROVE  IInv'
<1>1. CASE ReturnModel(r)
  <2>1. /\ UNCHANGED <<schedule, session, clock, peer, buf, calls, results, wire, live, fds, faults>>
        /\ pc[r] = "idle" /\ pc' = [pc EXCEPT ![r] = "returned"]
    BY <1>1 DEF ReturnModel, Goto
  <2>2. pc' \in [Ranks -> PCs] /\ \A q \in Ranks : QuietPc(q)
    BY <2>1, Typing DEF PCs, QuietPc
  <2> QED  BY <2>1, <2>2, Typing, SameWire, SameSessionsKeep
<1>2. CASE Shutdown(r)
  <2> DEFINE mine == {l \in live : l[1] = r}
  <2>1. /\ live' = live \ mine /\ fds' = fds \ mine /\ CloseEnds(r, mine)
        /\ session' = [session EXCEPT ![r] = Close(session[r])]
        /\ pc' = [pc EXCEPT ![r] = "stopped"]
        /\ UNCHANGED <<schedule, clock, peer, buf, calls, results, faults>>
    BY <1>2 DEF Shutdown, SetSession, Goto
  <2>2. Kept(session[r], Close(session[r]))
    BY Typing, CloseLaw
  <2> HIDE DEF mine
  <2>3. live' \subseteq fds' /\ fds' \subseteq Links
    BY <2>1, Typing
  <2> QED  BY <2>1, <2>2, <2>3, CloseEndsKeeps, Typing, RaisedKeeps
<1>3. CASE Crash(r)
  <2> DEFINE mine == {l \in fds : l[1] = r}
  <2>1. /\ live' = live \ mine /\ fds' = fds \ mine /\ CloseEnds(r, mine)
        /\ pc' = [pc EXCEPT ![r] = "dead"] /\ faults' = faults + 1
        /\ UNCHANGED <<schedule, session, clock, peer, buf, calls, results>>
    BY <1>3 DEF Crash, Goto, Fault
  <2> HIDE DEF mine
  <2>2. live' \subseteq fds' /\ fds' \subseteq Links /\ faults' \in Nat
    BY <2>1, Typing
  <2>3. pc' \in [Ranks -> PCs] /\ \A q \in Ranks : QuietPc(q)
    BY <2>1, Typing DEF PCs, QuietPc
  <2> QED  BY <2>1, <2>2, <2>3, CloseEndsKeeps, Typing, SameSessionsKeep
<1>4. CASE Vanish(r)
  <2>1. /\ pc' = [pc EXCEPT ![r] = "dead"] /\ faults' = faults + 1
        /\ UNCHANGED <<schedule, session, clock, peer, buf, calls, results, wire, live, fds>>
    BY <1>4 DEF Vanish, Goto, Fault
  <2>2. pc' \in [Ranks -> PCs] /\ (\A q \in Ranks : QuietPc(q)) /\ faults' \in Nat
    BY <2>1, Typing DEF PCs, QuietPc
  <2> QED  BY <2>1, <2>2, Typing, SameWire, SameSessionsKeep
<1>5. CASE RequestCancel(r)
  <2> DEFINE t == Cancel(session[r])
  <2>1. /\ session' = [session EXCEPT ![r] = t] /\ faults' = faults + 1
        /\ UNCHANGED <<schedule, clock, pc, peer, buf, calls, results, wire, live, fds>>
    BY <1>5 DEF RequestCancel, SetSession, Fault
  <2>2. Kept(session[r], t) /\ Healthy(t)
    BY Typing, CancelLaw DEF Kept
  <2> HIDE DEF t
  <2>3. /\ session' \in [Ranks -> Session] /\ \A q \in Ranks : Healthy(session'[q])
        /\ \A q \in Ranks : Kept(session[q], session'[q])
    BY <2>1, <2>2, SessionStep
  <2>4. faults' \in Nat
    BY <2>1, Typing
  <2>5. Types'
    BY <2>1, <2>3, <2>4, Typing DEF Types, TypeOK
  <2>6. Quiet
    BY <2>1, <2>3, SameWire DEF Quiet, QuietPc
  <2> QED  BY <2>5, <2>6, QuietKeeps
<1>6. CASE Tick(r)
  <2>1. /\ clock' = [clock EXCEPT ![r] = @ + 1]
        /\ UNCHANGED <<schedule, session, pc, peer, buf, calls, results, wire, live, fds, faults>>
    BY <1>6 DEF Tick
  <2>2. clock' \in [Ranks -> Nat] /\ \A q \in Ranks : QuietPc(q)
    BY <2>1, Typing DEF QuietPc
  <2> QED  BY <2>1, <2>2, Typing, SameWire, SameSessionsKeep
<1> QED  BY <1>1, <1>2, <1>3, <1>4, <1>5, <1>6

\* A fault of a link is a quiet step.
LEMMA WireStep ==
    ASSUME IInv, NEW l \in Links, Corrupt(l) \/ Duplicate(l)
    PROVE  IInv'
<1>1. /\ UNCHANGED <<schedule, session, clock, pc, peer, buf, calls, results, live, fds>>
      /\ faults' = faults + 1 /\ wire[l] # <<>> /\ wire[l] \in Seq(Frame) /\ wire \in [Links -> Seq(Frame)]
  BY Typing DEF Corrupt, Duplicate, Fault
<1>2. \E u \in Seq(Frame) : Read(u) \subseteq Read(wire[l]) /\ wire' = [wire EXCEPT ![l] = u]
  <2>1. CASE Corrupt(l)
    <3>1. wire' = [wire EXCEPT ![l] = [wire[l] EXCEPT ![1].corrupt = TRUE]]
      BY <2>1 DEF Corrupt
    <3> QED  BY <1>1, <3>1, ReadCorrupted
  <2>2. CASE Duplicate(l)
    <3>1. wire' = [wire EXCEPT ![l] = <<Head(wire[l])>> \o wire[l]]
      BY <2>2 DEF Duplicate
    <3> QED  BY <1>1, <3>1, ReadDuplicate
  <2> QED  BY <2>1, <2>2
<1>3. PICK u \in Seq(Frame) : Read(u) \subseteq Read(wire[l]) /\ wire' = [wire EXCEPT ![l] = u]
  BY <1>2
<1>4. wire' \in [Links -> Seq(Frame)]
  BY <1>1, <1>3
<1>5. ASSUME NEW m \in Links PROVE Contents(m)' \subseteq Contents(m)
  <2>1. wire'[m] = IF m = l THEN u ELSE wire[m]
    BY <1>1, <1>3
  <2> QED  BY <1>3, <2>1 DEF Contents
<1>6. faults' \in Nat /\ \A q \in Ranks : QuietPc(q)
  BY <1>1, Typing DEF QuietPc
<1> QED  BY <1>1, <1>4, <1>5, <1>6, Typing, SameSessionsKeep

\* A step that changes nothing keeps the invariant.
LEMMA StutterStep ==
    ASSUME IInv, UNCHANGED vars
    PROVE  IInv'
  BY Typing, SameWire, SameSessionsKeep DEF vars, QuietPc

\* Every step keeps the invariant.
LEMMA NextKeeps == IInv /\ [Next]_vars => IInv'
<1> SUFFICES ASSUME IInv, [Next]_vars PROVE IInv'
  OBVIOUS
<1>1. ASSUME NEW r \in Ranks, Step(r) PROVE IInv'
  BY <1>1, StartCallStep, EnterRecvStep, ReceiveStep, LostStep, SendStep,
     FinishCallStep, OpenEpochStep, EndingStep DEF Step
<1>2. ASSUME NEW r \in Ranks, Tick(r) \/ Crash(r) \/ Vanish(r) \/ RequestCancel(r) PROVE IInv'
  BY <1>2, EndingStep
<1>3. ASSUME NEW l \in Links, Corrupt(l) \/ Duplicate(l) PROVE IInv'
  BY <1>3, WireStep
<1>4. CASE UNCHANGED vars
  BY <1>4, StutterStep
<1> QED  BY <1>1, <1>2, <1>3, <1>4 DEF Next, Environment, Done

-----------------------------------------------------------------------------
\* The invariant holds in every reachable state of every number of ranks, schedules and faults.
THEOREM Invariance == Spec => []IInv
<1>1. Init => IInv
  BY InitIInv
<1>2. IInv /\ [Next]_vars => IInv'
  BY NextKeeps
<1> QED  BY <1>1, <1>2, PTL DEF Spec

\* Every variable of the ranks, their sessions and the links keeps its type.
THEOREM TypeCorrect == Spec => []TypeOK
<1>1. IInv => TypeOK
  BY DEF IInv, Types
<1> QED  BY <1>1, Invariance, PTL

\* OrderedReduction, for every world, every program and every fault: whatever
\* the wire repeats or corrupts, however late a frame is read, finish returns
\* the contributions of the call it finishes, in rank order.
THEOREM ReductionIsOrdered == Spec => []OrderedReduction
<1>1. IInv => OrderedReduction
  <2> SUFFICES ASSUME IInv, NEW r \in Ranks, NEW k \in DOMAIN results[r]
               PROVE  results[r][k] = IF schedule[r][k].op = "barrier" THEN <<>>
                                      ELSE [i \in 1 .. N |-> Contribution(i - 1, k)]
    BY DEF OrderedReduction
  <2>1. results[r] \in Seq(Payloads)
    BY Typing
  <2>2. k \in 1 .. Len(results[r])
    BY <2>1
  <2>3. results[r][k] = Reduction(r, k)
    BY <2>2 DEF IInv, Backed
  <2> QED  BY <2>3 DEF Reduction, Partial
<1> QED  BY <1>1, Invariance, PTL

\* SameCallEverywhere, for diverging programs too: nothing is returned from a
\* call that some rank did not make, or made with another op or length.
THEOREM CallsAreTheSame == Spec => []SameCallEverywhere
<1>1. IInv => SameCallEverywhere
  <2> SUFFICES ASSUME IInv, NEW r \in Ranks, NEW q \in Ranks, NEW k \in DOMAIN results[r]
               PROVE  /\ k <= Len(schedule[q])
                      /\ schedule[q][k].op = schedule[r][k].op
                      /\ schedule[q][k].n = schedule[r][k].n
    BY DEF SameCallEverywhere
  <2>1. results[r] \in Seq(Payloads)
    BY Typing
  <2>2. k \in 1 .. Len(results[r]) /\ k \in Nat
    BY <2>1
  <2>3. calls[q] >= k /\ SameCall(r, q, k)
    BY <2>2 DEF IInv, Backed, Complete
  <2>4. calls[q] <= Len(schedule[q]) /\ calls[q] \in Nat /\ Len(schedule[q]) \in Nat
    BY Typing, Bounds DEF IInv, Local
  <2> QED  BY <2>2, <2>3, <2>4 DEF SameCall
<1> QED  BY <1>1, Invariance, PTL

\* Two ranks of one program with as much of it behind them have the same number.
LEMMA NumbersAgree ==
    ASSUME IInv, NEW r \in Ranks, NEW q \in Ranks, Running(r), Running(q),
           Len(results[r]) = Len(results[q]), Behind(r) = Behind(q),
           schedule[r] = schedule[q]
    PROVE  session[r].epoch = session[q].epoch /\ session[r].seq = session[q].seq
<1> DEFINE m == Len(results[r])
           A == Checkpoints(r, Behind(r))
           a == m - session[r].seq
           b == m - session[q].seq
<1>1. Checkpoints(q, Behind(q)) = A
  BY DEF Checkpoints
<1>2. m \in Nat /\ session[r].seq \in Nat /\ session[q].seq \in Nat
  BY Typing, Bounds
<1>3. Numbered(r) /\ Numbered(q)
  BY DEF IInv
<1>4. Behind(r) \in Int
  BY <1>2 DEF Behind
<1>5. \A i \in A : i \in Nat /\ i > 0
  BY <1>4 DEF Checkpoints
<1> HIDE DEF A
<1>6. /\ session[r].epoch = Cardinality(A) /\ (a = 0 \/ a \in A) /\ \A i \in A : i <= a
  BY <1>3 DEF Numbered, A
<1>7. /\ session[q].epoch = Cardinality(A) /\ (b = 0 \/ b \in A) /\ \A i \in A : i <= b
  BY <1>1, <1>3 DEF Numbered
<1>8. a \in Int /\ b \in Int
  <2>1. \A x, y \in Nat : x - y \in Int
    OBVIOUS
  <2> QED  BY <1>2, <2>1
<1> HIDE DEF a, b
<1>9. a = b
  BY <1>5, <1>6, <1>7, <1>8
<1>10. session[r].seq = session[q].seq
  BY <1>2, <1>9 DEF a, b
<1> QED  BY <1>6, <1>7, <1>10

\* EpochsAgree: the number of a rank between two collectives is a function of
\* its program and of how many are behind it.
THEOREM EpochsAreAgreed == Spec => []EpochsAgree
<1>1. IInv => EpochsAgree
  <2> SUFFICES ASSUME IInv, NEW r \in Ranks, NEW q \in Ranks,
                      pc[r] = "idle", pc[q] = "idle",
                      Len(results[r]) = Len(results[q]), schedule[r] = schedule[q]
               PROVE  session[r].epoch = session[q].epoch /\ session[r].seq = session[q].seq
    BY DEF EpochsAgree
  <2>1. Running(r) /\ Running(q) /\ Behind(r) = Behind(q)
    BY DEF Running, Behind
  <2> QED  BY <2>1, NumbersAgree
<1> QED  BY <1>1, Invariance, PTL

-----------------------------------------------------------------------------
(* It implements AllReduce.                                                *)

\* The initial states of the transport are initial states of the contract.
LEMMA InitMaps == Init => Promise!Init
<1> SUFFICES ASSUME Init PROVE Promise!Init
  OBVIOUS
<1>1. \A r \in Ranks : Running(r)
  BY DEF Init, Running
<1>2. {r \in Ranks : ~Running(r)} = {}
  BY <1>1
<1>3. schedule \in [Ranks -> Schedules] /\ calls = [r \in Ranks |-> 0] /\ results = [r \in Ranks |-> <<>>]
  BY DEF Init
<1> QED  BY <1>2, <1>3 DEF Promise!Init, Promise!Ranks, Ranks

\* A step that neither enters nor completes a call stutters, or gives up.
LEMMA SameOrGone ==
    ASSUME UNCHANGED <<schedule, calls, results>>, NEW r \in Ranks,
           \A q \in Ranks : q # r => pc'[q] = pc[q],
           ~Running(r) => ~Running(r)'
    PROVE  [Promise!Next]_Promise!vars
<1> DEFINE G == {q \in Ranks : ~Running(q)}
<1>1. \A q \in Ranks : q # r => (Running(q)' <=> Running(q))
  BY DEF Running
<1>2. G' = G \/ G' = G \union {r}
  <2>1. CASE Running(r)'
    BY <1>1, <2>1
  <2>2. CASE ~Running(r)'
    BY <1>1, <2>2
  <2> QED  BY <2>1, <2>2
<1>3. CASE G' = G
  BY <1>3 DEF Promise!vars
<1>4. CASE G' = G \union {r}
  <2>1. Promise!GiveUp(r)
    BY <1>4 DEF Promise!GiveUp
  <2> QED  BY <2>1 DEF Promise!Next, Promise!Ranks, Ranks
<1> QED  BY <1>2, <1>3, <1>4

\* A rank that enters a call here enters it there, or gives up there if Begin raises.
LEMMA StartMaps ==
    ASSUME IInv, NEW r \in Ranks, StartCall(r)
    PROVE  [Promise!Next]_Promise!vars
<1> DEFINE k == calls[r] + 1
           b == Begin(session[r], schedule[r][k].op, schedule[r][k].n, 0)
           G == {q \in Ranks : ~Running(q)}
<1>1. /\ pc[r] = "idle" /\ calls[r] < Len(schedule[r])
      /\ b.raised => pc' = [pc EXCEPT ![r] = "raised"] /\ UNCHANGED calls
      /\ ~b.raised => /\ pc' = [pc EXCEPT ![r] = IF r = Root THEN "recv" ELSE "send"]
                      /\ calls' = [calls EXCEPT ![r] = k]
      /\ UNCHANGED <<schedule, results>>
  BY DEF StartCall, Raised, SetSession, Goto
<1> HIDE DEF b
<1>2. CASE b.raised
  BY <1>1, <1>2, SameOrGone, Typing DEF Running
<1>3. CASE ~b.raised
  <2>1. /\ \A q \in Ranks : q # r => pc'[q] = pc[q]
        /\ pc'[r] \in {"recv", "send"}
        /\ calls' = [calls EXCEPT ![r] = calls[r] + 1]
    BY <1>1, <1>3, Typing
  <2>2. \A q \in Ranks : Running(q)' <=> Running(q)
    BY <1>1, <2>1 DEF Running
  <2>3. G' = G /\ r \notin G
    BY <1>1, <2>2 DEF Running
  <2>4. calls[r] = Len(results[r])
    BY <1>1 DEF IInv, Local
  <2> HIDE DEF G
  <2>5. Promise!Enter(r)
    BY <1>1, <2>1, <2>3, <2>4 DEF Promise!Enter, G
  <2> QED  BY <2>5 DEF Promise!Next, Promise!Ranks, Ranks
<1> QED  BY <1>2, <1>3

\* A rank that finishes a call here is delivered its result there.
LEMMA FinishMaps ==
    ASSUME IInv, NEW r \in Ranks, FinishCall(r)
    PROVE  [Promise!Next]_Promise!vars
<1> DEFINE d == Finish(session[r])
           G == {q \in Ranks : ~Running(q)}
           k == Len(results[r]) + 1
<1>1. /\ pc[r] = "finish"
      /\ d.raised => pc' = [pc EXCEPT ![r] = "raised"] /\ UNCHANGED results
      /\ ~d.raised => /\ results' = [results EXCEPT ![r] = Append(@, buf[r])]
                      /\ pc' = [pc EXCEPT ![r] = IF Call(r).epoch THEN "epoch" ELSE "idle"]
      /\ UNCHANGED <<schedule, calls>>
  BY DEF FinishCall, Raised, SetSession, Goto
<1> HIDE DEF d
<1>2. CASE d.raised
  BY <1>1, <1>2, SameOrGone, Typing DEF Running
<1>3. CASE ~d.raised
  <2>1. /\ \A q \in Ranks : q # r => pc'[q] = pc[q]
        /\ pc'[r] \in {"epoch", "idle"}
        /\ results' = [results EXCEPT ![r] = Append(@, buf[r])]
    <3>1. (IF Call(r).epoch THEN "epoch" ELSE "idle") \in {"epoch", "idle"}
      OBVIOUS
    <3>2. pc' = [pc EXCEPT ![r] = IF Call(r).epoch THEN "epoch" ELSE "idle"] /\ pc \in [Ranks -> PCs]
      BY <1>1, <1>3, Typing
    <3> QED  BY <1>1, <1>3, <3>1, <3>2
  <2>2. \A q \in Ranks : Running(q)' <=> Running(q)
    BY <1>1, <2>1 DEF Running
  <2>3. G' = G /\ r \notin G
    BY <1>1, <2>2 DEF Running
  <2>4. calls[r] = k
    BY <1>1 DEF IInv, Local, InCall
  <2>5. buf[r] = Reduction(r, k) /\ Complete(r, k)
    BY <1>1, <2>4, FinishedBuffer
  <2>6. Promise!Complete(r, k)
    BY <2>5 DEF Complete, SameCall, Promise!Complete, Promise!SameShape, Promise!Ranks, Ranks
  <2>7. buf[r] = Promise!Reduction(r, k)
    BY <2>5 DEF Reduction, Partial, Promise!Reduction, Promise!Contribution, Contribution
  <2> HIDE DEF G
  <2>8. Promise!Deliver(r)
    BY <1>1, <2>1, <2>3, <2>4, <2>6, <2>7 DEF Promise!Deliver, G
  <2> QED  BY <2>8 DEF Promise!Next, Promise!Ranks, Ranks
<1> QED  BY <1>2, <1>3

\* Every other step of a rank is a stutter of the contract, or the rank giving up.
LEMMA OtherMaps ==
    ASSUME IInv, NEW r \in Ranks,
           \/ EnterRecv(r) \/ Receive(r) \/ RecvLost(r) \/ RecvTimeout(r) \/ Send(r) \/ SendLost(r)
           \/ OpenEpoch(r) \/ ReturnModel(r) \/ Shutdown(r) \/ Crash(r) \/ Vanish(r)
           \/ RequestCancel(r) \/ Tick(r)
    PROVE  [Promise!Next]_Promise!vars
<1>1. /\ UNCHANGED <<schedule, calls, results>>
      /\ pc' = pc \/ \E label : pc' = [pc EXCEPT ![r] = label]
  BY DEF EnterRecv, Receive, RecvLost, RecvTimeout, Send, SendLost, OpenEpoch, ReturnModel,
         Shutdown, Crash, Vanish, RequestCancel, Tick, Raised, SetSession, Goto
<1>2. ~Running(r) => ~Running(r)'
  <2> SUFFICES ASSUME ~Running(r) PROVE ~Running(r)'
    OBVIOUS
  <2>1. pc[r] \in {"raised", "returned", "stopped", "dead"}
    BY DEF Running
  <2>2. Shutdown(r) \/ Crash(r) \/ Vanish(r)
    BY <2>1 DEF EnterRecv, Receive, RecvLost, RecvTimeout, Send, SendLost, OpenEpoch,
                ReturnModel, RequestCancel, Tick, Running
  <2>3. pc'[r] \in {"stopped", "dead"}
    BY <2>2, Typing DEF Shutdown, Crash, Vanish, Goto
  <2> QED  BY <2>3 DEF Running
<1>3. \A q \in Ranks : q # r => pc'[q] = pc[q]
  BY <1>1, Typing
<1> QED  BY <1>1, <1>2, <1>3, SameOrGone

\* Every step of the transport is a step or a stutter of the contract.
LEMMA StepMaps == IInv /\ [Next]_vars => [Promise!Next]_Promise!vars
<1> SUFFICES ASSUME IInv, [Next]_vars PROVE [Promise!Next]_Promise!vars
  OBVIOUS
<1>1. ASSUME NEW r \in Ranks, Step(r) PROVE [Promise!Next]_Promise!vars
  BY <1>1, StartMaps, FinishMaps, OtherMaps DEF Step
<1>2. ASSUME NEW r \in Ranks, Tick(r) \/ Crash(r) \/ Vanish(r) \/ RequestCancel(r)
      PROVE  [Promise!Next]_Promise!vars
  BY <1>2, OtherMaps
<1>3. ASSUME UNCHANGED <<schedule, calls, results, pc>> PROVE [Promise!Next]_Promise!vars
  BY <1>3 DEF Promise!vars, Running
<1>4. ASSUME NEW l \in Links, Corrupt(l) \/ Duplicate(l) PROVE UNCHANGED <<schedule, calls, results, pc>>
  BY <1>4 DEF Corrupt, Duplicate
<1>5. UNCHANGED vars => UNCHANGED <<schedule, calls, results, pc>>
  BY DEF vars
<1> QED  BY <1>1, <1>2, <1>3, <1>4, <1>5 DEF Next, Environment, Done

\* ImplementsAllReduce: the driver, its sessions and the star of connections
\* keep the promise of trait Collective under every fault of the model.
THEOREM Implementation == Spec => ImplementsAllReduce
<1>1. Init => Promise!Init
  BY InitMaps
<1>2. IInv /\ [Next]_vars => [Promise!Next]_Promise!vars
  BY StepMaps
<1> QED  BY <1>1, <1>2, Invariance, PTL DEF Spec, ImplementsAllReduce, Promise!Spec

-----------------------------------------------------------------------------
(* What the contract gives its callers, and so the transport.              *)

\* In the contract alone, whatever was delivered is the reduction of complete calls of one shape.
ContractBacked ==
    \A r \in Ranks : \A k \in DOMAIN results[r] :
        /\ results[r][k] = Promise!Reduction(r, k)
        /\ Promise!Complete(r, k)

ContractInv == Promise!TypeOK /\ ContractBacked

\* The contract's world is the transport's.
LEMMA SameWorld == Promise!Ranks = Ranks
  BY DEF Promise!Ranks, Ranks

\* A reduction is a result a caller can be given.
LEMMA ContractReductionType ==
    ASSUME NEW r \in Ranks, NEW k \in Nat
    PROVE  Promise!Reduction(r, k) \in Payloads
<1>1. CASE schedule[r][k].op = "barrier"
  BY <1>1 DEF Promise!Reduction, Payloads
<1>2. CASE schedule[r][k].op # "barrier"
  <2>1. \A i \in 1 .. N : Promise!Contribution(i - 1, k) \in [rank: Ranks, call: Nat]
    BY NAssumption DEF Promise!Contribution, Ranks
  <2>2. [i \in 1 .. N |-> Promise!Contribution(i - 1, k)] \in Payloads
    BY <2>1, NAssumption DEF Payloads
  <2> QED  BY <1>2, <2>2 DEF Promise!Reduction
<1> QED  BY <1>1, <1>2

\* The contract starts with nothing delivered.
LEMMA ContractInit == Promise!Init => ContractInv
  BY SameWorld DEF Promise!Init, ContractInv, Promise!TypeOK, ContractBacked

\* Entering a call completes none that was not complete.
LEMMA EnterKeepsContract ==
    ASSUME ContractInv, NEW r \in Ranks, Promise!Enter(r)
    PROVE  ContractInv'
<1>1. /\ schedule' = schedule /\ results' = results
      /\ calls' = [calls EXCEPT ![r] = @ + 1]
  BY SameWorld DEF Promise!Enter
<1>2. Promise!TypeOK'
  BY <1>1, SameWorld DEF ContractInv, Promise!TypeOK
<1>3. \A q \in Ranks : /\ calls[q] \in Nat /\ calls'[q] \in Nat
                        /\ calls'[q] >= calls[q]
  BY <1>1, SameWorld DEF ContractInv, Promise!TypeOK
<1>4. ASSUME NEW q \in Ranks, NEW k \in DOMAIN results'[q]
      PROVE  results'[q][k] = Promise!Reduction(q, k)' /\ Promise!Complete(q, k)'
  <2>1. results[q][k] = Promise!Reduction(q, k) /\ Promise!Complete(q, k)
    BY <1>1, <1>4, SameWorld DEF ContractInv, ContractBacked
  <2>2. k \in Nat
    BY <1>1, <1>4, SameWorld DEF ContractInv, Promise!TypeOK
  <2>3. ASSUME NEW p \in Ranks PROVE calls'[p] >= k
    BY <1>3, <2>1, <2>2, SameWorld DEF Promise!Complete
  <2> QED  BY <1>1, <2>1, <2>3, SameWorld DEF Promise!Reduction, Promise!Complete
<1> QED  BY <1>2, <1>4, SameWorld DEF ContractInv, ContractBacked

\* A delivery is of a complete call.
LEMMA DeliverKeepsContract ==
    ASSUME ContractInv, NEW r \in Ranks, Promise!Deliver(r)
    PROVE  ContractInv'
<1> DEFINE n == Len(results[r]) + 1
           R == Promise!Reduction(r, n)
<1>1. /\ schedule' = schedule /\ calls' = calls
      /\ results' = [results EXCEPT ![r] = Append(@, R)]
      /\ Promise!Complete(r, n)
  BY SameWorld DEF Promise!Deliver
<1>2. results \in [Ranks -> Seq(Payloads)] /\ n \in Nat
  <2>1. results \in [Ranks -> Seq(Payloads)]
    BY SameWorld DEF ContractInv, Promise!TypeOK, Payloads
  <2>2. results[r] \in Seq(Payloads)
    BY <2>1
  <2> HIDE DEF ContractInv
  <2> QED  BY <2>1, <2>2
<1>3. R \in Payloads
  BY <1>2, ContractReductionType
<1>4. results' \in [Ranks -> Seq(Payloads)]
  BY <1>1, <1>2, <1>3
<1>5. Promise!TypeOK'
  BY <1>1, <1>4, SameWorld DEF ContractInv, Promise!TypeOK, Payloads
<1> HIDE DEF R
<1>6. ASSUME NEW q \in Ranks, NEW k \in DOMAIN results'[q]
      PROVE  results'[q][k] = Promise!Reduction(q, k)' /\ Promise!Complete(q, k)'
  <2>1. Promise!Reduction(q, k)' = Promise!Reduction(q, k) /\ Promise!Complete(q, k)' = Promise!Complete(q, k)
    BY <1>1 DEF Promise!Reduction, Promise!Complete
  <2>2. CASE q # r \/ k \in DOMAIN results[r]
    <3>1. k \in DOMAIN results[q] /\ results'[q][k] = results[q][k]
      BY <1>1, <1>2, <1>3, <1>6, <2>2
    <3> QED  BY <2>1, <3>1, SameWorld DEF ContractInv, ContractBacked
  <2>3. CASE q = r /\ k \notin DOMAIN results[r]
    <3>1. k = n /\ results'[q][k] = R
      BY <1>1, <1>2, <1>3, <1>6, <2>3
    <3> QED  BY <1>1, <2>1, <2>3, <3>1 DEF R
  <2> QED  BY <2>2, <2>3
<1> QED  BY <1>5, <1>6, SameWorld DEF ContractInv, ContractBacked

\* The contract's invariant is inductive.
LEMMA NextKeepsContract == ContractInv /\ [Promise!Next]_Promise!vars => ContractInv'
<1> SUFFICES ASSUME ContractInv, [Promise!Next]_Promise!vars PROVE ContractInv'
  OBVIOUS
<1>1. ASSUME NEW r \in Ranks, Promise!Enter(r) PROVE ContractInv'
  BY <1>1, EnterKeepsContract
<1>2. ASSUME NEW r \in Ranks, Promise!Deliver(r) PROVE ContractInv'
  BY <1>2, DeliverKeepsContract
<1>3. ASSUME NEW r \in Ranks, Promise!GiveUp(r) PROVE ContractInv'
  BY <1>3, SameWorld DEF Promise!GiveUp, ContractInv, Promise!TypeOK, ContractBacked, Promise!Reduction, Promise!Complete
<1>4. CASE UNCHANGED Promise!vars
  BY <1>4, SameWorld DEF Promise!vars, ContractInv, Promise!TypeOK, ContractBacked, Promise!Reduction, Promise!Complete
<1> QED  BY <1>1, <1>2, <1>3, <1>4, SameWorld DEF Promise!Next

\* The contract's inductive invariant: types, and every result backed by complete calls.
LEMMA ContractInvariance == Promise!Spec => []ContractInv
  BY ContractInit, NextKeepsContract, PTL DEF Promise!Spec

\* The contract makes ranks agree: a result is a function of the call.
LEMMA ContractAgrees == Promise!Spec => []Promise!Agreement
<1>1. ContractInv => Promise!Agreement
  <2> SUFFICES ASSUME ContractInv, NEW r \in Ranks, NEW q \in Ranks,
                      NEW k \in DOMAIN results[r] \intersect DOMAIN results[q]
               PROVE  results[r][k] = results[q][k]
    BY SameWorld DEF Promise!Agreement
  <2>1. schedule[q][k].op = schedule[r][k].op
    BY SameWorld DEF ContractInv, ContractBacked, Promise!Complete, Promise!SameShape
  <2> QED  BY <2>1, SameWorld DEF ContractInv, ContractBacked, Promise!Reduction
<1> QED  BY <1>1, ContractInvariance, PTL

\* The contract makes ranks wait: a result needs the call of every rank.
LEMMA ContractWaits == Promise!Spec => []Promise!EveryRankEntered
<1>1. ContractInv => Promise!EveryRankEntered
  <2> SUFFICES ASSUME ContractInv, NEW r \in Ranks, NEW q \in Ranks
               PROVE  Len(results[r]) <= calls[q]
    BY SameWorld DEF Promise!EveryRankEntered
  <2>1. Len(results[r]) \in Nat /\ calls[q] \in Nat
    BY SameWorld DEF ContractInv, Promise!TypeOK
  <2>2. CASE Len(results[r]) = 0
    BY <2>1, <2>2
  <2>3. CASE Len(results[r]) > 0
    <3>1. Len(results[r]) \in DOMAIN results[r]
      BY <2>1, <2>3, SameWorld DEF ContractInv, Promise!TypeOK
    <3> QED  BY <2>1, <3>1, SameWorld DEF ContractInv, ContractBacked, Promise!Complete
  <2> QED  BY <2>1, <2>2, <2>3
<1> QED  BY <1>1, ContractInvariance, PTL

\* Two ranks that were returned by the same call hold the same value, whatever
\* the programs and the faults: TransportCollective keeps Agreement of AllReduce.
THEOREM RanksAgree == Spec => []Promise!Agreement
  BY Implementation, ContractAgrees, PTL DEF ImplementsAllReduce

\* No call returns anywhere before every rank of the world has entered it.
THEOREM NobodyRunsAhead == Spec => []Promise!EveryRankEntered
  BY Implementation, ContractWaits, PTL DEF ImplementsAllReduce

-----------------------------------------------------------------------------
(* Ranks of one program that meet no fault.                                *)

OneProgram == \A r, q \in Ranks : schedule[r] = schedule[q]

\* How many results the root has sent to a worker, and how many it has read.
SentTo(q) ==
    Len(results[Root])
      + IF pc[Root] = "finish" \/ (pc[Root] = "send" /\ q < peer[Root]) THEN 1 ELSE 0
Got(q) == Len(results[q]) + IF pc[q] = "finish" THEN 1 ELSE 0

\* A connection that holds one frame, intact and with this header.
Carries(frames, header) ==
    Len(frames) = 1 /\ frames[1].header = header /\ frames[1].corrupt = FALSE

ResultHeader(q) == [HeaderOf(session[q], "result") EXCEPT !.sender = Root]

\* The frames under way: a contribution until the root takes it, a result until
\* its worker reads it, and nothing else.
Upward(q) ==
    IF calls[q] = Taken(q) + 1 /\ pc[q] # "send"
    THEN Carries(wire[<<q, Root>>], HeaderOf(session[q], "contrib"))
    ELSE wire[<<q, Root>>] = <<>>
Downward(q) ==
    IF SentTo(q) = Got(q) + 1
    THEN Carries(wire[<<Root, q>>], ResultHeader(q))
    ELSE wire[<<Root, q>>] = <<>>

\* The root takes a contribution after it was sent, and a worker a result; neither
\* is more than one behind.
Turns(q) ==
    /\ SentTo(q) \in {Got(q), Got(q) + 1}
    /\ calls[q] \in {Taken(q), Taken(q) + 1}
    /\ pc[q] = "send" => calls[q] = Taken(q) + 1

\* A rank is in the collective its session says, or has returned them all.
Sound(r) ==
    /\ pc[r] \notin {"raised", "dead"}
    /\ pc[r] \in {"returned", "stopped"} =>
          calls[r] = Len(schedule[r]) /\ Len(results[r]) = calls[r]
    /\ session[r].rank = r /\ session[r].lost = {}
    /\ session[r].state = IF InCall(r) THEN "in_flight"
                          ELSE IF pc[r] = "stopped" THEN "closed" ELSE "ready"

Smooth ==
    /\ \A r \in Ranks : Sound(r)
    /\ live = fds /\ fds = {l \in Links : pc[l[1]] # "stopped"}
    /\ \A q \in Workers : Turns(q) /\ Upward(q) /\ Downward(q)

\* A rank that stopped, or is about to, because its deadline passed: it stays so.
EndedLate(r) == pc[r] \in {"raised", "stopped"} /\ clock[r] > session[r].deadline

Undelayed == OneProgram /\ faults = 0 => Smooth \/ \E r \in Ranks : EndedLate(r)

Link(q) == Turns(q) /\ Upward(q) /\ Downward(q)

\* The counters of a connection, and how far apart they can be.
LEMMA Counters ==
    ASSUME Types, NEW q \in Workers
    PROVE  /\ Taken(q) \in Nat /\ SentTo(q) \in Nat /\ Got(q) \in Nat
           /\ calls[q] \in Nat /\ Len(results[q]) \in Nat /\ Len(results[Root]) \in Nat
           /\ Len(results[Root]) <= SentTo(q) /\ SentTo(q) <= Taken(q)
           /\ Taken(q) <= Len(results[Root]) + 1
           /\ pc[q] = "finish" => Got(q) = Len(results[q]) + 1
           /\ pc[q] # "finish" => Got(q) = Len(results[q])
<1>1. q \in Ranks /\ Root \in Ranks
  BY Star
<1>2. calls[q] \in Nat /\ Len(results[q]) \in Nat /\ Len(results[Root]) \in Nat
  BY <1>1, Bounds
<1>3. /\ Taken(q) \in Nat
      /\ q \in Gathered => Taken(q) = Len(results[Root]) + 1
      /\ q \notin Gathered => Taken(q) = Len(results[Root])
  BY TakenType
<1>4. /\ pc[q] = "finish" => Got(q) = Len(results[q]) + 1
      /\ pc[q] # "finish" => Got(q) = Len(results[q])
  <2>1. CASE pc[q] = "finish"
    BY <2>1 DEF Got
  <2>2. CASE pc[q] # "finish"
    <3>1. Got(q) = Len(results[q]) + 0
      BY <2>2 DEF Got
    <3> QED  BY <1>2, <2>2, <3>1
  <2> QED  BY <2>1, <2>2
<1>5. /\ SentTo(q) \in {Len(results[Root]), Len(results[Root]) + 1}
      /\ SentTo(q) = Len(results[Root]) + 1 => q \in Gathered
  <2> DEFINE sent == pc[Root] = "finish" \/ (pc[Root] = "send" /\ q < peer[Root])
  <2>1. CASE sent
    <3>1. SentTo(q) = Len(results[Root]) + 1
      BY <2>1 DEF SentTo
    <3>2. q \in Gathered
      BY <1>1, <2>1 DEF Gathered, Gathering, InCall
    <3> QED  BY <3>1, <3>2
  <2>2. CASE ~sent
    <3>1. SentTo(q) = Len(results[Root]) + 0
      BY <2>2 DEF SentTo
    <3> QED  BY <1>2, <3>1
  <2> QED  BY <2>1, <2>2
<1>7. Got(q) \in Nat /\ SentTo(q) \in Nat
  BY <1>2, <1>4, <1>5
<1>8. Len(results[Root]) <= SentTo(q) /\ SentTo(q) <= Taken(q) /\ Taken(q) <= Len(results[Root]) + 1
  BY <1>2, <1>3, <1>5
<1> QED  BY <1>2, <1>3, <1>4, <1>7, <1>8

\* A worker that has read the result of the last call it entered: the root has
\* taken and answered as much, and nothing is under way on either connection.
LEMMA Caught ==
    ASSUME Types, NEW q \in Workers, Link(q), Got(q) = calls[q]
    PROVE  /\ Taken(q) = calls[q] /\ SentTo(q) = calls[q]
           /\ wire[<<q, Root>>] = <<>> /\ wire[<<Root, q>>] = <<>>
  BY Counters DEF Link, Turns, Upward, Downward

\* A connection whose counters, frames and numbers are left alone.
LEMMA LinkStays ==
    ASSUME NEW q \in Workers, Link(q),
           calls'[q] = calls[q], results'[q] = results[q],
           pc'[q] = "send" <=> pc[q] = "send", pc'[q] = "finish" <=> pc[q] = "finish",
           HeaderOf(session[q], "contrib")' = HeaderOf(session[q], "contrib"),
           HeaderOf(session[q], "result")' = HeaderOf(session[q], "result"),
           Taken(q)' = Taken(q), SentTo(q)' = SentTo(q),
           wire'[<<q, Root>>] = wire[<<q, Root>>], wire'[<<Root, q>>] = wire[<<Root, q>>]
    PROVE  Link(q)'
<1>1. Got(q)' = Got(q)
  BY DEF Got
<1>2. ResultHeader(q)' = ResultHeader(q)
  BY DEF ResultHeader
<1>3. Turns(q)'
  BY <1>1 DEF Link, Turns
<1>4. Upward(q)'
  BY DEF Link, Upward, Carries
<1>5. Downward(q)'
  BY <1>1, <1>2 DEF Link, Downward, Carries
<1> QED  BY <1>3, <1>4, <1>5 DEF Link

\* A connection with nothing under way.
LEMMA EmptyLink ==
    ASSUME NEW q \in Workers,
           wire'[<<q, Root>>] = <<>>, wire'[<<Root, q>>] = <<>>, SentTo(q)' = Got(q)',
           Got(q)' \in Nat, Taken(q)' \in Nat,
           \/ calls'[q] = Taken(q)' /\ pc'[q] # "send"
           \/ calls'[q] = Taken(q)' + 1 /\ pc'[q] = "send"
    PROVE  Link(q)'
<1>1. Got(q)' # Got(q)' + 1 /\ Taken(q)' # Taken(q)' + 1
  OBVIOUS
<1>2. Turns(q)'
  BY <1>1 DEF Turns
<1>3. Upward(q)'
  BY <1>1 DEF Upward
<1>4. Downward(q)'
  BY <1>1 DEF Downward
<1> QED  BY <1>2, <1>3, <1>4 DEF Link

\* The counters of the root stand while the root does.
LEMMA RootStands ==
    ASSUME peer'[Root] = peer[Root], results'[Root] = results[Root], pc'[Root] = pc[Root], NEW q
    PROVE  Taken(q)' = Taken(q) /\ SentTo(q)' = SentTo(q)
  BY DEF Taken, Gathered, Gathering, InCall, SentTo

\* A step of one rank that closes nothing.
LEMMA StepAt ==
    ASSUME IInv, Smooth, NEW r \in Ranks, NEW t, NEW label \in PCs \ {"stopped"},
           session' = [session EXCEPT ![r] = t], pc' = [pc EXCEPT ![r] = label],
           pc[r] # "stopped", UNCHANGED <<schedule, live, fds>>,
           \A p \in Ranks : p # r => calls'[p] = calls[p] /\ results'[p] = results[p],
           Sound(r)', \A q \in Workers : Link(q)'
    PROVE  Smooth'
<1>1. ASSUME NEW p \in Ranks PROVE Sound(p)'
  <2>1. CASE p # r
    <3>1. pc'[p] = pc[p] /\ session'[p] = session[p]
      BY <2>1, Typing
    <3> QED  BY <2>1, <3>1 DEF Smooth, Sound, InCall
  <2> QED  BY <2>1
<1>2. \A p \in Ranks : pc'[p] = "stopped" <=> pc[p] = "stopped"
  BY Typing
<1>3. fds' = {l \in Links : pc'[l[1]] # "stopped"}
  <2>1. \A l \in Links : l[1] \in Ranks
    BY Star
  <2> QED  BY <1>2, <2>1 DEF Smooth
<1> QED  BY <1>1, <1>3 DEF Smooth, Link

\* A step of one worker touches no other's connection.
LEMMA StepAtWorker ==
    ASSUME IInv, Smooth, NEW r \in Workers, NEW t, NEW label \in PCs \ {"stopped"},
           session' = [session EXCEPT ![r] = t], pc' = [pc EXCEPT ![r] = label],
           pc[r] # "stopped", UNCHANGED <<schedule, live, fds>>, peer'[Root] = peer[Root],
           \A p \in Ranks : p # r => calls'[p] = calls[p] /\ results'[p] = results[p],
           \A l \in Links : l[1] # r /\ l[2] # r => wire'[l] = wire[l],
           Sound(r)', Link(r)'
    PROVE  Smooth'
<1>1. r \in Ranks /\ r # Root /\ Root \in Ranks
  BY Star
<1>2. pc'[Root] = pc[Root] /\ results'[Root] = results[Root]
  BY <1>1, Typing
<1>3. ASSUME NEW q \in Workers, q # r PROVE Link(q)'
  <2>1. q \in Ranks /\ q # Root /\ <<q, Root>> \in Links /\ <<Root, q>> \in Links
    BY Star
  <2>2. pc'[q] = pc[q] /\ session'[q] = session[q] /\ calls'[q] = calls[q] /\ results'[q] = results[q]
    BY <1>3, <2>1, Typing
  <2>3. wire'[<<q, Root>>] = wire[<<q, Root>>] /\ wire'[<<Root, q>>] = wire[<<Root, q>>]
    BY <1>1, <1>3, <2>1
  <2>4. Taken(q)' = Taken(q) /\ SentTo(q)' = SentTo(q)
    BY <1>2, RootStands
  <2>5. Link(q)
    BY DEF Smooth, Link
  <2>6. /\ HeaderOf(session[q], "contrib")' = HeaderOf(session[q], "contrib")
        /\ HeaderOf(session[q], "result")' = HeaderOf(session[q], "result")
    BY <2>2 DEF HeaderOf
  <2> QED  BY <2>2, <2>3, <2>4, <2>5, <2>6, LinkStays
<1> QED  BY <1>1, <1>3, StepAt

\* A step of the root that leaves the wire and its counters alone.
LEMMA StepAtRoot ==
    ASSUME IInv, Smooth, NEW t, NEW label \in PCs \ {"stopped"},
           session' = [session EXCEPT ![Root] = t], pc' = [pc EXCEPT ![Root] = label],
           pc[Root] # "stopped", UNCHANGED <<schedule, live, fds, wire>>,
           \A p \in Ranks : p # Root => calls'[p] = calls[p] /\ results'[p] = results[p],
           \A q \in Workers : Taken(q)' = Taken(q) /\ SentTo(q)' = SentTo(q),
           Sound(Root)'
    PROVE  Smooth'
<1>1. Root \in Ranks
  BY Star
<1>2. ASSUME NEW q \in Workers PROVE Link(q)'
  <2>1. q \in Ranks /\ q # Root
    BY Star
  <2>2. pc'[q] = pc[q] /\ session'[q] = session[q] /\ calls'[q] = calls[q] /\ results'[q] = results[q]
    BY <2>1, Typing
  <2>3. Link(q)
    BY DEF Smooth, Link
  <2>4. /\ HeaderOf(session[q], "contrib")' = HeaderOf(session[q], "contrib")
        /\ HeaderOf(session[q], "result")' = HeaderOf(session[q], "result")
    BY <2>2 DEF HeaderOf
  <2> QED  BY <2>2, <2>3, <2>4, LinkStays
<1> QED  BY <1>1, <1>2, StepAt

\* What the operations of a sound session return.
LEMMA SoundBegin ==
    ASSUME NEW s \in Session, s.state = "ready", s.lost = {}, NEW op \in Ops,
           NEW n \in Nat, op = "barrier" => n = 0
    PROVE  \E t : /\ Begin(s, op, n, 0) = Return(t)
                  /\ t.rank = s.rank /\ t.lost = {} /\ t.state = "in_flight"
<1> DEFINE t == [s EXCEPT !.state = "in_flight", !.op = op, !.n = n, !.deadline = 0 + Timeout]
<1>1. Begin(s, op, n, 0) = Return(t)
  BY DEF Begin, Usable, Terminal
<1>2. t.rank = s.rank /\ t.lost = {} /\ t.state = "in_flight"
  BY DEF Session
<1> QED  BY <1>1, <1>2

\* A frame of the session's own call is let through.
LEMMA SoundValidate ==
    ASSUME NEW s, s.state = "in_flight", s.lost = {},
           NEW h, h.job = Job, h.version = Version, SameNumber(h, s),
           h.op = s.op, h.n = s.n
    PROVE  Validate(s, h, h.msg, h.sender) = Return(s)
  BY DEF Validate, SameNumber, Usable, Terminal

\* A session in a collective finishes it.
LEMMA SoundFinish ==
    ASSUME NEW s \in Session, s.state = "in_flight"
    PROVE  \E t : /\ Finish(s) = Return(t)
                  /\ t.rank = s.rank /\ t.lost = s.lost /\ t.state = "ready"
<1> DEFINE t == [s EXCEPT !.completed = @ + 1, !.elements = @ + s.n,
                          !.seq = @ + 1, !.op = NoOp, !.n = 0, !.state = "ready"]
<1>1. Finish(s) = Return(t)
  BY DEF Finish
<1>2. t.rank = s.rank /\ t.lost = s.lost /\ t.state = "ready"
  BY DEF Session
<1> QED  BY <1>1, <1>2

\* A session between collectives opens an epoch.
LEMMA SoundNextEpoch ==
    ASSUME NEW s \in Session, s.state = "ready"
    PROVE  \E t : /\ NextEpoch(s) = Return(t)
                  /\ t.rank = s.rank /\ t.lost = s.lost /\ t.state = "ready"
<1> DEFINE t == [s EXCEPT !.epoch = @ + 1, !.seq = 0]
<1>1. NextEpoch(s) = Return(t)
  BY DEF NextEpoch, Usable, Terminal
<1>2. t.rank = s.rank /\ t.lost = s.lost /\ t.state = "ready"
  BY DEF Session
<1> QED  BY <1>1, <1>2

\* Failing a session leaves its deadline.
LEMMA DeadlineStays ==
    ASSUME NEW s, Healthy(s), NEW r \in Ranks
    PROVE  /\ FailWith(s, "timeout", s.rank).deadline = s.deadline
           /\ MarkLost(s, r).session.deadline = s.deadline
           /\ Close(s).deadline = s.deadline
<1> DEFINE t == FailWith(s, "peer_lost", r)
<1>1. FailWith(s, "timeout", s.rank).deadline = s.deadline /\ t.deadline = s.deadline
  BY DEF FailWith, Session, Healthy
<1>2. Close(s).deadline = s.deadline
  BY DEF Close, Session, Healthy
<1>3. MarkLost(s, r).session = [t EXCEPT !.lost = @ \union {r}]
  BY DEF MarkLost, Return
<1>4. t \in Session
  BY FailArguments, FailKeeps DEF Kept, Healthy
<1> HIDE DEF t
<1>5. [t EXCEPT !.lost = @ \union {r}].deadline = t.deadline
  BY <1>4 DEF Session
<1> QED  BY <1>1, <1>2, <1>3, <1>5 DEF t

\* Entering a collective: the root has nothing to take yet, a worker has read all it was sent.
LEMMA StartSmooth ==
    ASSUME IInv, Smooth, NEW r \in Ranks, StartCall(r)
    PROVE  Smooth'
<1> DEFINE k == calls[r] + 1
           b == Begin(session[r], schedule[r][k].op, schedule[r][k].n, 0)
<1>1. /\ pc[r] = "idle" /\ calls[r] < Len(schedule[r])
      /\ session' = [session EXCEPT ![r] = b.session]
      /\ ~b.raised => /\ pc' = [pc EXCEPT ![r] = IF r = Root THEN "recv" ELSE "send"]
                      /\ peer' = [peer EXCEPT ![r] = FirstPeer(r)]
                      /\ calls' = [calls EXCEPT ![r] = k]
      /\ UNCHANGED <<schedule, results, wire, live, fds>>
  BY DEF StartCall, Raised, SetSession, Goto
<1>2. /\ calls[r] \in Nat /\ calls[r] = Len(results[r])
      /\ session[r] \in Session /\ session[r].rank = r
      /\ session[r].state = "ready" /\ session[r].lost = {}
  BY <1>1, Typing, Bounds DEF Smooth, Sound, InCall, IInv, Local
<1>3. \E t : /\ b = Return(t)
             /\ t.rank = session[r].rank /\ t.lost = {} /\ t.state = "in_flight"
  <2>1. k \in 1 .. Len(schedule[r])
    BY <1>1, <1>2, Typing, Bounds
  <2>2. schedule[r][k].op \in Ops /\ schedule[r][k].n \in Nat
    <3>1. Types
      BY Typing
    <3>2. schedule[r][k].op \in Ops /\ schedule[r][k].n \in 0 .. MaxElements
      <4> HIDE DEF k
      <4> QED  BY <2>1, <3>1, Bounds
    <3>3. 0 .. MaxElements \subseteq Nat
      BY MaxElementsAssumption
    <3> HIDE DEF k
    <3> QED  BY <3>2, <3>3
  <2>3. schedule[r][k].op = "barrier" => schedule[r][k].n = 0
    <3>1. schedule \in [Ranks -> Schedules]
      BY Typing
    <3>2. schedule[r] \in Schedules
      BY <3>1
    <3>3. schedule[r] \in Seq([op: Ops, n: 0 .. MaxElements, epoch: BOOLEAN])
      BY <3>2, ScheduleAssumption
    <3>4. k \in DOMAIN schedule[r]
      BY <2>1, <3>3
    <3> HIDE DEF k
    <3> QED  BY <3>2, <3>4, BarrierAssumption
  <2> QED  BY <1>2, <2>2, <2>3, SoundBegin
<1> HIDE DEF b
<1>4. PICK t : /\ ~b.raised /\ b.session = t
               /\ t.rank = r /\ t.lost = {} /\ t.state = "in_flight"
  <2>1. PICK t : /\ b = Return(t)
                 /\ t.rank = session[r].rank /\ t.lost = {} /\ t.state = "in_flight"
    BY <1>3
  <2>2. b.raised = FALSE /\ b.session = t
    BY <2>1 DEF Return
  <2> QED  BY <1>2, <2>1, <2>2
<1> DEFINE label == IF r = Root THEN "recv" ELSE "send"
<1>5. label \in {"recv", "send"} /\ label \in PCs \ {"stopped"}
  BY DEF PCs
<1>6. session'[r] = t /\ pc'[r] = label
  BY <1>1, <1>4, Typing
<1>7. Sound(r)'
  BY <1>4, <1>5, <1>6 DEF Sound, InCall
<1>8. \A p \in Ranks : p # r => calls'[p] = calls[p] /\ results'[p] = results[p]
  BY <1>1, <1>4, Typing
<1>9. CASE r = Root
  <2>1. ASSUME NEW q \in Workers PROVE Taken(q)' = Taken(q) /\ SentTo(q)' = SentTo(q)
    <3>1. q \in 1 .. N - 1
      BY NAssumption DEF Workers, Ranks, Root
    <3>2. peer'[Root] = 1 /\ pc'[Root] = "recv" /\ pc[Root] = "idle" /\ results' = results
      BY <1>1, <1>4, <1>6, <1>9, Typing DEF FirstPeer
    <3>3. Gathered = {} /\ Gathered' = 0 .. 0
      BY <3>2 DEF Gathered, Gathering, InCall
    <3>4. q \notin Gathered /\ q \notin Gathered'
      BY <3>1, <3>3
    <3> QED  BY <3>2, <3>4 DEF Taken, SentTo
  <2> QED  BY <1>1, <1>4, <1>5, <1>7, <1>8, <1>9, <2>1, StepAtRoot
<1>10. CASE r # Root
  <2>1. r \in Workers /\ <<r, Root>> \in Links /\ <<Root, r>> \in Links
    BY <1>10, Star
  <2>2. Link(r) /\ Got(r) = calls[r]
    BY <1>1, <1>2, <2>1, Typing, Counters DEF Smooth, Link
  <2>3. /\ Taken(r) = calls[r] /\ SentTo(r) = calls[r]
        /\ wire[<<r, Root>>] = <<>> /\ wire[<<Root, r>>] = <<>>
    BY <2>1, <2>2, Typing, Caught
  <2>4. peer'[Root] = peer[Root] /\ pc'[Root] = pc[Root] /\ results'[Root] = results[Root]
    BY <1>1, <1>4, <1>10, Typing, Star
  <2>5. calls'[r] = k /\ results'[r] = results[r] /\ pc'[r] = "send"
    BY <1>1, <1>4, <1>6, <1>10, Typing
  <2>6. Taken(r)' = Taken(r) /\ SentTo(r)' = SentTo(r)
    BY <2>4, RootStands
  <2>7. Got(r)' = Got(r)
    BY <1>1, <2>5 DEF Got
  <2>8. Link(r)'
    BY <1>1, <1>2, <2>1, <2>2, <2>3, <2>5, <2>6, <2>7, EmptyLink
  <2> QED  BY <1>1, <1>4, <1>5, <1>7, <1>8, <2>1, <2>4, <2>8, StepAtWorker
<1> QED  BY <1>9, <1>10

\* The driver a failed check ended after its deadline.
LEMMA LateEnd ==
    ASSUME IInv, NEW r \in Ranks, NEW t, t.deadline = session[r].deadline,
           session' = [session EXCEPT ![r] = t], pc' = [pc EXCEPT ![r] = "raised"],
           clock'[r] > session[r].deadline
    PROVE  EndedLate(r)'
<1>1. session'[r] = t /\ pc'[r] = "raised"
  BY Typing
<1> QED  BY <1>1 DEF EndedLate

\* The check of the deadline ends a driver late or lets it go on as it is.
LEMMA DeadlineChecked ==
    ASSUME IInv, NEW r \in Ranks
    PROVE  LET d == CheckDeadline(session[r], clock[r]) IN
           \/ d.raised = FALSE /\ d.session = session[r]
           \/ /\ d.raised = TRUE /\ clock[r] > session[r].deadline
              /\ d.session.deadline = session[r].deadline
<1>1. Healthy(session[r])
  BY Typing
<1>2. CASE clock[r] > session[r].deadline
  <2>1. CheckDeadline(session[r], clock[r]) = Fail(session[r], "timeout", session[r].rank)
    BY <1>2 DEF CheckDeadline
  <2> DEFINE u == FailWith(session[r], "timeout", session[r].rank)
  <2>2. u.deadline = session[r].deadline
    BY <1>1, DeadlineStays
  <2>3. CheckDeadline(session[r], clock[r]) = Raise(u)
    BY <2>1 DEF Fail
  <2> HIDE DEF u
  <2> QED  BY <1>2, <2>2, <2>3 DEF Raise
<1>3. CASE ~(clock[r] > session[r].deadline)
  <2>1. CheckDeadline(session[r], clock[r]) = Return(session[r])
    BY <1>3 DEF CheckDeadline
  <2> QED  BY <2>1, Endings
<1> QED  BY <1>2, <1>3

\* The connection is closed at the other end when that rank has shut down.
LEMMA HungStopped ==
    ASSUME Smooth, NEW r \in Ranks, NEW q \in Peers(r)
    PROVE  Hung(<<r, q>>) <=> pc[q] = "stopped"
  BY Star DEF Smooth, Hung

\* Nobody shuts down on a rank that still needs it: the last result is under way
\* when the root closes, and every worker has its last result when it does.
LEMMA NobodyHangs ==
    ASSUME IInv, OneProgram, Smooth, NEW r \in Ranks, pc[r] \in {"wait", "send"},
           Hung(<<r, peer[r]>>), pc[r] = "wait" => wire[<<peer[r], r>>] = <<>>
    PROVE  FALSE
<1> DEFINE q == peer[r]
<1>1. q \in Peers(r) /\ q \in Ranks /\ Root \in Ranks
  BY Typing, Star
<1>2. pc[q] = "stopped"
  BY <1>1, HungStopped
<1>3. calls[q] = Len(schedule[q]) /\ Len(results[q]) = calls[q]
  BY <1>1, <1>2 DEF Smooth, Sound
<1>4. calls[r] = Len(results[r]) + 1 /\ calls[r] <= Len(schedule[r]) /\ schedule[r] = schedule[q]
  BY <1>1 DEF IInv, Local, InCall, OneProgram
<1>5. Types
  BY Typing
<1>6. Len(results[r]) \in Nat /\ calls[r] \in Nat /\ calls[q] \in Nat /\ Len(results[q]) \in Nat
  BY <1>1, <1>5, Bounds
<1>7. CASE r = Root
  <2>1. q \in Workers /\ pc[q] # "finish"
    BY <1>1, <1>2, <1>7, Star
  <2>2. SentTo(q) = Len(results[Root]) + 0
    <3>1. ~(q < q)
      <4>1. q \in Int
        BY <1>1, Star
      <4> HIDE DEF q
      <4> QED  BY <4>1
    <3> QED  BY <1>7, <3>1 DEF SentTo
  <2>3. Link(q)
    BY <2>1 DEF Smooth, Link
  <2>4. Got(q) = Len(results[q]) /\ SentTo(q) \in {Got(q), Got(q) + 1}
    BY <1>5, <2>1, <2>3, Counters DEF Link, Turns
  <2> HIDE DEF q
  <2> QED  BY <1>3, <1>4, <1>6, <1>7, <2>2, <2>4
<1>8. CASE r # Root
  <2>1. r \in Workers /\ q = Root /\ pc[r] # "finish"
    BY <1>1, <1>8, Star
  <2>2. SentTo(r) = Len(results[Root]) + 0 /\ Taken(r) = Len(results[Root]) + 0
    <3>1. Gathered = {}
      BY <1>2, <2>1 DEF Gathered, Gathering, InCall
    <3> QED  BY <1>2, <2>1, <3>1 DEF SentTo, Taken
  <2>3. Link(r)
    BY <2>1 DEF Smooth, Link
  <2>4. Got(r) = Len(results[r])
    BY <1>5, <2>1, Counters
  <2>5. pc[r] # "send" /\ SentTo(r) = Got(r) + 1
    BY <1>3, <1>4, <1>6, <2>1, <2>2, <2>3, <2>4 DEF Link, Turns
  <2>6. Len(wire[<<Root, r>>]) = 1
    BY <2>3, <2>5 DEF Link, Downward, Carries
  <2>7. wire[<<Root, r>>] = <<>>
    BY <2>1, <2>5
  <2> QED  BY <2>6, <2>7
<1> QED  BY <1>7, <1>8

\* Arming a read, or ending late.
LEMMA EnterRecvSmooth ==
    ASSUME IInv, Smooth, NEW r \in Ranks, EnterRecv(r)
    PROVE  Smooth' \/ EndedLate(r)'
<1> DEFINE d == CheckDeadline(session[r], clock[r])
<1>1. /\ pc[r] = "recv"
      /\ \/ d.raised /\ session' = [session EXCEPT ![r] = d.session]
                     /\ pc' = [pc EXCEPT ![r] = "raised"]
         \/ ~d.raised /\ pc' = [pc EXCEPT ![r] = "wait"] /\ session' = session
      /\ UNCHANGED <<schedule, clock, peer, calls, results, wire, live, fds>>
  BY DEF EnterRecv, Raised, SetSession, Goto
<1>2. \/ d.raised = FALSE
      \/ d.raised = TRUE /\ clock[r] > session[r].deadline /\ d.session.deadline = session[r].deadline
  BY DeadlineChecked
<1> HIDE DEF d
<1>3. CASE d.raised
  BY <1>1, <1>2, <1>3, LateEnd
<1>4. CASE ~d.raised
  <2>1. pc' = [pc EXCEPT ![r] = "wait"] /\ session' = [session EXCEPT ![r] = session[r]]
    BY <1>1, <1>4, Typing
  <2>2. pc'[r] = "wait" /\ session'[r] = session[r]
    BY <2>1, Typing
  <2>3. Sound(r)'
    BY <1>1, <2>2 DEF Smooth, Sound, InCall
  <2>4. \A p \in Ranks : p # r => calls'[p] = calls[p] /\ results'[p] = results[p]
    BY <1>1
  <2>5. CASE r = Root
    <3>1. ASSUME NEW q \in Workers PROVE Taken(q)' = Taken(q) /\ SentTo(q)' = SentTo(q)
      <4>1. Gathered' = Gathered
        BY <1>1, <2>2, <2>5 DEF Gathered, Gathering
      <4> QED  BY <1>1, <2>2, <2>5, <4>1 DEF Taken, SentTo
    <3> QED  BY <1>1, <2>1, <2>3, <2>4, <2>5, <3>1, StepAtRoot DEF PCs
  <2>6. CASE r # Root
    <3>1. r \in Workers /\ Link(r)
      BY <2>6, Star DEF Smooth, Link
    <3>2. pc'[Root] = pc[Root]
      BY <2>1, <2>6, Typing, Star
    <3>3. Taken(r)' = Taken(r) /\ SentTo(r)' = SentTo(r)
      BY <1>1, <3>2, RootStands
    <3>4. /\ HeaderOf(session[r], "contrib")' = HeaderOf(session[r], "contrib")
          /\ HeaderOf(session[r], "result")' = HeaderOf(session[r], "result")
      BY <2>2 DEF HeaderOf
    <3>5. Link(r)'
      BY <1>1, <2>2, <3>1, <3>3, <3>4, LinkStays
    <3> QED  BY <1>1, <2>1, <2>3, <2>4, <3>1, <3>5, StepAtWorker DEF PCs
  <2> QED  BY <2>5, <2>6
<1> QED  BY <1>3, <1>4

\* The root and a worker that are in one call of their program.
LEMMA SameTurn ==
    ASSUME IInv, OneProgram, Smooth, NEW q \in Workers, InCall(Root),
           pc[q] \in {"recv", "wait"}, calls[q] = calls[Root]
    PROVE  /\ SameNumber(session[Root], session[q])
           /\ session[Root].op = session[q].op /\ session[Root].n = session[q].n
<1>1. q \in Ranks /\ Root \in Ranks /\ InCall(q)
  BY Star DEF InCall
<1>2. Local(Root) /\ Local(q) /\ schedule[Root] = schedule[q]
  BY <1>1 DEF IInv, OneProgram
<1>3. Call(q) = Call(Root)
  BY <1>2 DEF Call
<1>4. session[Root].op = session[q].op /\ session[Root].n = session[q].n
  BY <1>1, <1>2, <1>3 DEF Local
<1>5. Len(results[Root]) = Len(results[q])
  BY <1>1, <1>2, Typing, Bounds DEF Local
<1>6. Running(Root) /\ Running(q) /\ Behind(Root) = Behind(q)
  BY <1>1, <1>5 DEF Running, InCall, Behind
<1>7. SameNumber(session[Root], session[q])
  BY <1>1, <1>2, <1>5, <1>6, NumbersAgree DEF SameNumber
<1> QED  BY <1>4, <1>7

\* A worker that entered one more call than it has results for, and has not sent
\* for it or has not read its result yet.
LEMMA Halfway ==
    ASSUME IInv, Smooth, NEW q \in Workers, Got(q) + 1 = calls[q], pc[q] # "send"
    PROVE  pc[q] \in {"recv", "wait"} /\ Len(results[q]) + 1 = calls[q]
<1>1. q \in Ranks /\ Types /\ pc[q] \in PCs /\ Local(q) /\ Sound(q)
  BY Star, Typing DEF IInv, Smooth
<1>2. /\ calls[q] \in Nat /\ Len(results[q]) \in Nat
      /\ pc[q] = "finish" => Got(q) = Len(results[q]) + 1
      /\ pc[q] # "finish" => Got(q) = Len(results[q])
  BY <1>1, Counters
<1>3. calls[q] \in {Len(results[q]), Len(results[q]) + 1}
  BY <1>1 DEF Local
<1>4. pc[q] # "finish" /\ Len(results[q]) + 1 = calls[q]
  BY <1>2, <1>3
<1>5. pc[q] \notin {"idle", "epoch", "returned", "stopped"}
  BY <1>1, <1>2, <1>4 DEF Local, Sound
<1> QED  BY <1>1, <1>4, <1>5 DEF Sound, PCs

\* What the root finds in a contribution it is waiting for.
LEMMA ContributionArrives ==
    ASSUME IInv, OneProgram, Smooth, pc[Root] = "wait", NEW q, q = peer[Root],
           wire[<<q, Root>>] # <<>>
    PROVE  /\ q \in Workers /\ calls[q] = Taken(q) + 1 /\ pc[q] # "send" /\ q \notin Gathered
           /\ Len(wire[<<q, Root>>]) = 1 /\ wire[<<q, Root>>][1].corrupt = FALSE
           /\ LET h == wire[<<q, Root>>][1].header IN
              Validate(session[Root], h, "contrib", q) = Return(session[Root])
<1>1. q \in Workers /\ q \in Ranks /\ Root \in Ranks /\ Types
  BY Typing, Star
<1>2. Link(q) /\ Sound(q) /\ Sound(Root) /\ Local(Root)
  BY <1>1 DEF Smooth, Link, IInv
<1>3. calls[q] = Taken(q) + 1 /\ pc[q] # "send"
  BY <1>2 DEF Link, Upward
<1>4. Carries(wire[<<q, Root>>], HeaderOf(session[q], "contrib"))
  BY <1>2, <1>3 DEF Link, Upward
<1>5. q \notin Gathered
  <2>1. Gathered = 0 .. q - 1
    BY DEF Gathered, Gathering
  <2>2. q \in Int
    BY <1>1, Star
  <2> QED  BY <2>1, <2>2
<1>6. InCall(Root) /\ calls[Root] = Len(results[Root]) + 1
  BY <1>2 DEF InCall, Local
<1>7. Taken(q) = Len(results[Root])
  BY <1>1, <1>5, TakenType
<1>8. Got(q) + 1 = calls[q]
  <2>1. /\ Got(q) \in Nat /\ SentTo(q) <= Taken(q) /\ SentTo(q) \in Nat /\ Taken(q) \in Nat
        /\ calls[q] \in Nat /\ Len(results[q]) \in Nat
        /\ pc[q] = "finish" => Got(q) = Len(results[q]) + 1
        /\ pc[q] # "finish" => Got(q) = Len(results[q])
    BY <1>1, Counters
  <2>2. SentTo(q) \in {Got(q), Got(q) + 1}
    BY <1>2 DEF Link, Turns
  <2>3. calls[q] \in {Len(results[q]), Len(results[q]) + 1}
    BY <1>1 DEF IInv, Local
  <2> QED  BY <1>3, <2>1, <2>2, <2>3
<1>9. pc[q] \in {"recv", "wait"}
  BY <1>1, <1>3, <1>8, Halfway
<1>10. SameNumber(session[Root], session[q]) /\ session[Root].op = session[q].op /\ session[Root].n = session[q].n
  BY <1>1, <1>3, <1>6, <1>7, <1>9, SameTurn
<1> DEFINE h == HeaderOf(session[q], "contrib")
<1>11. /\ h.job = Job /\ h.version = Version /\ SameNumber(h, session[Root])
       /\ h.op = session[Root].op /\ h.n = session[Root].n /\ h.msg = "contrib" /\ h.sender = q
  BY <1>2, <1>10 DEF HeaderOf, SameNumber, Sound
<1>12. session[Root].state = "in_flight" /\ session[Root].lost = {}
  BY <1>2, <1>6 DEF Sound
<1> HIDE DEF h
<1>13. Validate(session[Root], h, h.msg, h.sender) = Return(session[Root])
  BY <1>11, <1>12, SoundValidate
<1>14. wire[<<q, Root>>][1].header = h /\ Validate(session[Root], h, "contrib", q) = Return(session[Root])
  BY <1>4, <1>11, <1>13 DEF Carries, h
<1> QED  BY <1>1, <1>3, <1>4, <1>5, <1>14 DEF Carries

\* Reading the only frame leaves none.
LEMMA OneFrame ==
    ASSUME NEW w \in Seq(Frame), Len(w) = 1
    PROVE  Tail(w) = <<>>
<1>1. w # <<>>
  OBVIOUS
<1>2. Tail(w) \in Seq(Frame) /\ Len(Tail(w)) = 0
  BY <1>1
<1>3. \A u \in Seq(Frame) : Len(u) = 0 => u = <<>>
  OBVIOUS
<1> QED  BY <1>2, <1>3

\* The root takes the contribution of its peer.
LEMMA RootReceivesSmooth ==
    ASSUME IInv, OneProgram, Smooth, Receive(Root)
    PROVE  Smooth'
<1>0. PICK q \in Workers : q = peer[Root]
  BY Typing, Star
<1> DEFINE up == <<q, Root>>
           f == Head(wire[up])
           v == Validate(session[Root], f.header, "contrib", q)
           label == IF LastPeer(Root, q) THEN "send" ELSE "recv"
<1>1. /\ pc[Root] = "wait" /\ wire[up] # <<>>
      /\ wire' = [wire EXCEPT ![up] = Tail(@)]
      /\ ~f.corrupt /\ ~v.raised =>
           /\ peer' = [peer EXCEPT ![Root] = IF LastPeer(Root, q) THEN FirstPeer(Root) ELSE q + 1]
           /\ pc' = [pc EXCEPT ![Root] = label] /\ session' = [session EXCEPT ![Root] = v.session]
      /\ UNCHANGED <<schedule, calls, results, live, fds>>
  BY <1>0 DEF Receive, SetSession, Goto
<1>2. /\ q \in Workers /\ calls[q] = Taken(q) + 1 /\ pc[q] # "send" /\ q \notin Gathered
      /\ Len(wire[up]) = 1 /\ wire[up][1].corrupt = FALSE
      /\ Validate(session[Root], wire[up][1].header, "contrib", q) = Return(session[Root])
  BY <1>0, <1>1, ContributionArrives
<1>3. f = wire[up][1]
  BY DEF Head
<1>4. f.corrupt = FALSE /\ v.raised = FALSE /\ v.session = session[Root]
  <2>1. v = Return(session[Root])
    BY <1>2, <1>3
  <2> HIDE DEF v
  <2> QED  BY <1>2, <1>3, <2>1 DEF Return
<1>5. q \in Ranks /\ q \in 1 .. N - 1 /\ Root \in Ranks /\ up \in Links /\ <<Root, q>> \in Links
  <2>1. q \in Ranks /\ q # Root /\ Root \in Ranks /\ up \in Links /\ <<Root, q>> \in Links
    BY <1>2, Star
  <2> QED  BY <2>1, NAssumption DEF Ranks, Root
<1>6. LastPeer(Root, q) <=> q = N - 1
  BY DEF LastPeer
<1>7. wire'[up] = <<>> /\ \A l \in Links : l # up => wire'[l] = wire[l]
  <2>1. Tail(wire[up]) = <<>>
    <3>1. wire[up] \in Seq(Frame)
      BY <1>5, Typing
    <3> QED  BY <1>2, <3>1, OneFrame
  <2> QED  BY <1>1, <1>5, <2>1, Typing
<1> HIDE DEF f, v
<1>8. /\ peer'[Root] = IF q = N - 1 THEN 1 ELSE q + 1
      /\ pc' = [pc EXCEPT ![Root] = label] /\ session' = [session EXCEPT ![Root] = session[Root]]
  BY <1>1, <1>4, <1>5, <1>6, Typing DEF FirstPeer
<1>9. pc'[Root] = (IF q = N - 1 THEN "send" ELSE "recv") /\ session' = session
  BY <1>5, <1>6, <1>8, Typing
<1>10. Sound(Root)'
  <2>1. Sound(Root) /\ Root \in Ranks
    BY <1>5 DEF Smooth
  <2>2. pc'[Root] \in {"send", "recv"}
    BY <1>9
  <2> QED  BY <1>1, <1>9, <2>1, <2>2 DEF Sound, InCall
<1>11. Gathered = 0 .. q - 1 /\ Gathered' = 0 .. q
  <2>1. Gathered = 0 .. q - 1
    BY <1>0, <1>1 DEF Gathered, Gathering
  <2>2. CASE q = N - 1
    <3>1. Gathered' = Ranks
      BY <1>9, <2>2 DEF Gathered, Gathering, InCall
    <3> QED  BY <2>1, <2>2, <3>1 DEF Ranks
  <2>3. CASE q # N - 1
    <3>1. Gathered' = 0 .. (q + 1) - 1
      BY <1>8, <1>9, <2>3 DEF Gathered, Gathering
    <3>2. (q + 1) - 1 = q
      BY <1>5
    <3> QED  BY <2>1, <3>1, <3>2
  <2> QED  BY <2>2, <2>3
<1>12. ASSUME NEW p \in Workers
       PROVE  /\ SentTo(p)' = SentTo(p)
              /\ p # q => Taken(p)' = Taken(p)
              /\ Taken(q)' = Taken(q) + 1
  <2>1. p \in Int /\ p >= 1 /\ p \in Ranks /\ Len(results[Root]) \in Nat
    <3>1. p \in Ranks /\ p # Root
      BY Star
    <3>2. p \in Int /\ p >= 1
      BY <3>1, NAssumption DEF Ranks, Root
    <3>3. Len(results[Root]) \in Nat
      BY <1>5, Typing, Bounds
    <3> QED  BY <3>1, <3>2, <3>3
  <2>2. SentTo(p)' = SentTo(p)
    <3>1. ~(pc[Root] = "finish" \/ (pc[Root] = "send" /\ p < peer[Root]))
      BY <1>1
    <3>2. ~(pc'[Root] = "finish" \/ (pc'[Root] = "send" /\ p < peer'[Root]))
      BY <1>8, <1>9, <2>1
    <3> QED  BY <1>1, <3>1, <3>2 DEF SentTo
  <2>3. p # q => (p \in Gathered' <=> p \in Gathered)
    BY <1>5, <1>11, <2>1
  <2>4. p # q => Taken(p)' = Taken(p)
    BY <1>1, <2>3 DEF Taken
  <2>5. q \in Gathered'
    BY <1>5, <1>11
  <2>6. Taken(q)' = Len(results[Root]) + 1 /\ Taken(q) = Len(results[Root]) + 0
    BY <1>1, <1>2, <2>5 DEF Taken
  <2> QED  BY <2>1, <2>2, <2>4, <2>6
<1>13. ASSUME NEW p \in Workers, p # q PROVE Link(p)'
  <2>1. p \in Ranks /\ p # Root /\ <<p, Root>> \in Links /\ <<Root, p>> \in Links
    BY Star
  <2>2. pc'[p] = pc[p] /\ session'[p] = session[p]
    BY <1>8, <1>9, <2>1, Typing
  <2>3. wire'[<<p, Root>>] = wire[<<p, Root>>] /\ wire'[<<Root, p>>] = wire[<<Root, p>>]
    BY <1>7, <1>13, <2>1
  <2>4. Link(p)
    BY DEF Smooth, Link
  <2>5. /\ HeaderOf(session[p], "contrib")' = HeaderOf(session[p], "contrib")
        /\ HeaderOf(session[p], "result")' = HeaderOf(session[p], "result")
    BY <2>2 DEF HeaderOf
  <2> QED  BY <1>1, <1>12, <1>13, <2>2, <2>3, <2>4, <2>5, LinkStays
<1>14. Link(q)'
  <2>1. q # Root /\ pc'[q] = pc[q] /\ session'[q] = session[q]
    BY <1>2, <1>5, <1>8, <1>9, Star, Typing
  <2>2. SentTo(q)' = SentTo(q) /\ Taken(q)' = Taken(q) + 1 /\ Got(q)' = Got(q)
    BY <1>1, <1>2, <1>12, <2>1 DEF Got
  <2>3. wire'[<<Root, q>>] = wire[<<Root, q>>] /\ ResultHeader(q)' = ResultHeader(q)
    BY <1>5, <1>7, <2>1 DEF ResultHeader, HeaderOf
  <2>4. Link(q)
    BY <1>2 DEF Smooth, Link
  <2>5. Taken(q)' \in Nat /\ calls'[q] = Taken(q)'
    <3>1. Types
      BY Typing
    <3>2. Taken(q) \in Nat
      BY <3>1, TakenType
    <3> QED  BY <1>1, <1>2, <2>2, <3>2
  <2>6. Turns(q)'
    BY <1>2, <2>1, <2>2, <2>4, <2>5 DEF Link, Turns
  <2>7. Upward(q)'
    BY <1>7, <2>5 DEF Upward
  <2>8. Downward(q)'
    BY <2>2, <2>3, <2>4 DEF Link, Downward, Carries
  <2> QED  BY <2>6, <2>7, <2>8 DEF Link
<1>15. label \in PCs \ {"stopped"}
  BY DEF PCs
<1> HIDE DEF label
<1> QED  BY <1>1, <1>5, <1>8, <1>10, <1>13, <1>14, <1>15, StepAt

\* A worker takes the result of its call.
LEMMA WorkerReceivesSmooth ==
    ASSUME IInv, Smooth, NEW r \in Workers, Receive(r)
    PROVE  Smooth'
<1> DEFINE down == <<Root, r>>
           f == Head(wire[down])
           v == Validate(session[r], f.header, "result", Root)
<1>1. r \in Ranks /\ r # Root /\ peer[r] = Root /\ down \in Links /\ <<r, Root>> \in Links
  BY Typing, Star
<1>2. /\ pc[r] = "wait" /\ wire[down] # <<>>
      /\ wire' = [wire EXCEPT ![down] = Tail(@)]
      /\ ~f.corrupt /\ ~v.raised =>
           /\ peer' = peer
           /\ pc' = [pc EXCEPT ![r] = "finish"] /\ session' = [session EXCEPT ![r] = v.session]
      /\ UNCHANGED <<schedule, calls, results, live, fds>>
  BY <1>1 DEF Receive, SetSession, Goto
<1>3. Link(r) /\ Sound(r)
  BY <1>1 DEF Smooth, Link
<1>4. SentTo(r) = Got(r) + 1 /\ Carries(wire[down], ResultHeader(r))
  BY <1>2, <1>3 DEF Link, Downward
<1>5. f = wire[down][1] /\ f.corrupt = FALSE /\ f.header = ResultHeader(r)
  BY <1>4 DEF Carries, Head
<1> DEFINE h == ResultHeader(r)
<1>6. /\ h.job = Job /\ h.version = Version /\ SameNumber(h, session[r])
      /\ h.op = session[r].op /\ h.n = session[r].n /\ h.msg = "result" /\ h.sender = Root
  BY DEF ResultHeader, HeaderOf, SameNumber
<1>7. session[r].state = "in_flight" /\ session[r].lost = {}
  BY <1>2, <1>3 DEF Sound, InCall
<1>8. v.raised = FALSE /\ v.session = session[r]
  <2> HIDE DEF h
  <2>1. Validate(session[r], h, h.msg, h.sender) = Return(session[r])
    BY <1>6, <1>7, SoundValidate
  <2>2. v = Return(session[r])
    BY <1>5, <1>6, <2>1 DEF h
  <2> HIDE DEF v
  <2> QED  BY <2>2 DEF Return
<1> HIDE DEF f, v, h
<1>9. wire'[down] = <<>> /\ \A l \in Links : l # down => wire'[l] = wire[l]
  <2>1. Tail(wire[down]) = <<>>
    <3>1. wire[down] \in Seq(Frame) /\ Len(wire[down]) = 1
      BY <1>1, <1>4, Typing DEF Carries
    <3> QED  BY <3>1, OneFrame
  <2> QED  BY <1>1, <1>2, <2>1, Typing
<1>10. /\ peer' = peer /\ pc' = [pc EXCEPT ![r] = "finish"]
       /\ session' = [session EXCEPT ![r] = session[r]]
  BY <1>2, <1>5, <1>8
<1>11. session' = session /\ pc'[r] = "finish" /\ pc'[Root] = pc[Root]
  BY <1>1, <1>10, Typing, Star
<1>12. Sound(r)'
  BY <1>2, <1>3, <1>11 DEF Sound, InCall
<1>13. Taken(r)' = Taken(r) /\ SentTo(r)' = SentTo(r)
  BY <1>2, <1>10, <1>11, RootStands
<1>14. Got(r)' = Got(r) + 1
  <2>1. Got(r) = Len(results[r]) + 0 /\ Got(r)' = Len(results[r]) + 1
    BY <1>2, <1>11 DEF Got
  <2>2. Len(results[r]) \in Nat
    BY <1>1, Typing, Bounds
  <2> QED  BY <2>1, <2>2
<1>15. Got(r) \in Nat
  BY Typing, Counters
<1>16. Link(r)'
  <2>1. Turns(r)'
    BY <1>2, <1>3, <1>4, <1>11, <1>13, <1>14, <1>15 DEF Link, Turns
  <2>2. wire'[<<r, Root>>] = wire[<<r, Root>>]
    BY <1>1, <1>9
  <2>3. HeaderOf(session[r], "contrib")' = HeaderOf(session[r], "contrib")
    BY <1>11
  <2>4. Upward(r)'
    BY <1>2, <1>3, <1>11, <1>13, <2>2, <2>3 DEF Link, Upward, Carries
  <2>5. SentTo(r)' # Got(r)' + 1
    BY <1>4, <1>13, <1>14, <1>15
  <2>6. Downward(r)'
    BY <1>9, <2>5 DEF Downward
  <2> QED  BY <2>1, <2>4, <2>6 DEF Link
<1>17. \A l \in Links : l[1] # r /\ l[2] # r => wire'[l] = wire[l]
  BY <1>9
<1>18. "finish" \in PCs \ {"stopped"}
  BY DEF PCs
<1> QED  BY <1>2, <1>10, <1>12, <1>16, <1>17, <1>18, StepAtWorker

\* A worker sends its contribution, or ends late.
LEMMA WorkerSendsSmooth ==
    ASSUME IInv, OneProgram, Smooth, NEW r \in Workers, Send(r)
    PROVE  Smooth' \/ EndedLate(r)'
<1> DEFINE up == <<r, Root>>
           d == CheckDeadline(session[r], clock[r])
           h == HeaderOf(session[r], "contrib")
           frame == [header |-> h, payload |-> buf[r], corrupt |-> FALSE]
<1>1. r \in Ranks /\ r # Root /\ peer[r] = Root /\ up \in Links /\ <<Root, r>> \in Links
  <2>1. r \in Ranks /\ r # Root /\ Peers(r) = {Root} /\ up \in Links /\ <<Root, r>> \in Links
    BY Star
  <2>2. peer[r] \in Peers(r)
    BY <2>1, Typing
  <2> QED  BY <2>1, <2>2
<1>2. /\ pc[r] = "send"
      /\ \/ d.raised /\ session' = [session EXCEPT ![r] = d.session]
                     /\ pc' = [pc EXCEPT ![r] = "raised"]
         \/ /\ ~d.raised /\ peer' = [peer EXCEPT ![r] = peer[r]]
            /\ wire' = [wire EXCEPT ![up] = IF Hung(up) THEN @ ELSE Append(@, frame)]
            /\ pc' = [pc EXCEPT ![r] = "recv"] /\ session' = session
      /\ UNCHANGED <<schedule, clock, calls, results, live, fds>>
  BY <1>1 DEF Send, Raised, SetSession, Goto, LastPeer
<1>3. \/ d.raised = FALSE
      \/ d.raised = TRUE /\ clock[r] > session[r].deadline /\ d.session.deadline = session[r].deadline
  BY <1>1, DeadlineChecked
<1> HIDE DEF d
<1>4. CASE d.raised
  BY <1>1, <1>2, <1>3, <1>4, LateEnd
<1>5. CASE ~d.raised
  <2>1. ~Hung(up)
    BY <1>1, <1>2, NobodyHangs
  <2>2. Link(r) /\ Sound(r)
    BY <1>1 DEF Smooth, Link
  <2>3. calls[r] = Taken(r) + 1 /\ wire[up] = <<>>
    BY <1>2, <2>2 DEF Link, Turns, Upward
  <2>4. wire'[up] = <<frame>> /\ \A l \in Links : l # up => wire'[l] = wire[l]
    <3> HIDE DEF frame
    <3>1. wire' = [wire EXCEPT ![up] = Append(wire[up], frame)]
      BY <1>2, <1>5, <2>1
    <3>2. wire \in [Links -> Seq(Frame)]
      BY Typing
    <3>3. wire[up] = <<>> /\ Append(<<>>, frame) = <<frame>>
      BY <2>3
    <3>4. wire'[up] = Append(wire[up], frame)
      BY <1>1, <3>1, <3>2
    <3>5. \A l \in Links : l # up => wire'[l] = wire[l]
      BY <3>1, <3>2
    <3> QED  BY <3>3, <3>4, <3>5
  <2>5. /\ session' = [session EXCEPT ![r] = session[r]] /\ session' = session
        /\ pc' = [pc EXCEPT ![r] = "recv"] /\ pc'[r] = "recv" /\ pc'[Root] = pc[Root]
        /\ peer' = [peer EXCEPT ![r] = peer[r]] /\ peer'[Root] = peer[Root]
    <3>1. /\ session \in [Ranks -> Session] /\ pc \in [Ranks -> PCs]
          /\ peer \in [Ranks -> Ranks] /\ Root \in Ranks
      BY Typing, Star
    <3> QED  BY <1>1, <1>2, <1>5, <3>1
  <2>6. Sound(r)'
    BY <1>2, <2>2, <2>5 DEF Sound, InCall
  <2>7. Taken(r)' = Taken(r) /\ SentTo(r)' = SentTo(r)
    BY <1>2, <2>5, RootStands
  <2>8. Got(r)' = Got(r)
    BY <1>2, <2>5 DEF Got
  <2>9. h' = h /\ ResultHeader(r)' = ResultHeader(r)
    BY <2>5 DEF HeaderOf, ResultHeader
  <2>10. Turns(r)'
    BY <1>2, <2>2, <2>5, <2>7, <2>8 DEF Link, Turns
  <2>11. Upward(r)'
    <3>1. Carries(wire'[up], h)
      <4> HIDE DEF h
      <4> QED  BY <2>4 DEF Carries
    <3>2. calls'[r] = Taken(r)' + 1 /\ pc'[r] # "send"
      BY <1>2, <2>3, <2>5, <2>7
    <3> QED  BY <2>9, <3>1, <3>2 DEF Upward, Carries
  <2>12. Downward(r)'
    <3>1. wire'[<<Root, r>>] = wire[<<Root, r>>]
      BY <1>1, <2>4
    <3> QED  BY <2>2, <2>7, <2>8, <2>9, <3>1 DEF Link, Downward, Carries
  <2>13. Link(r)'
    BY <2>10, <2>11, <2>12 DEF Link
  <2>14. \A l \in Links : l[1] # r /\ l[2] # r => wire'[l] = wire[l]
    BY <2>4
  <2>15. "recv" \in PCs \ {"stopped"}
    BY DEF PCs
  <2> QED  BY <1>2, <2>5, <2>6, <2>13, <2>14, <2>15, StepAtWorker
<1> QED  BY <1>4, <1>5

\* The worker the root answers next waits for the result of the same call.
LEMMA ResultAwaited ==
    ASSUME IInv, OneProgram, Smooth, pc[Root] = "send", NEW q \in Workers, q = peer[Root]
    PROVE  /\ SentTo(q) = Got(q) /\ SentTo(q) \in Nat /\ wire[<<Root, q>>] = <<>>
           /\ pc[q] \in {"recv", "wait"}
           /\ HeaderOf(session[Root], "result") = ResultHeader(q)
<1>1. q \in Ranks /\ Root \in Ranks /\ Types
  BY Typing, Star
<1>2. Link(q) /\ Sound(q) /\ Sound(Root) /\ Local(Root) /\ Local(q)
  BY <1>1 DEF Smooth, Link, IInv
<1>3. InCall(Root) /\ calls[Root] = Len(results[Root]) + 1
  BY <1>2 DEF InCall, Local
<1>4. Taken(q) = Len(results[Root]) + 1
  <2>1. q \in Gathered
    BY <1>1, <1>3 DEF Gathered, Gathering
  <2> QED  BY <1>1, <2>1, TakenType
<1>5. SentTo(q) = Len(results[Root]) + 0
  <2>1. ~(q < peer[Root])
    <3>1. q \in Int
      BY <1>1, Star
    <3> QED  BY <3>1
  <2> QED  BY <2>1 DEF SentTo
<1>6. /\ Got(q) \in Nat /\ calls[q] \in Nat /\ Len(results[q]) \in Nat /\ Len(results[Root]) \in Nat
      /\ pc[q] = "finish" => Got(q) = Len(results[q]) + 1
      /\ pc[q] # "finish" => Got(q) = Len(results[q])
  BY <1>1, Counters
<1>7. /\ SentTo(q) \in {Got(q), Got(q) + 1} /\ calls[q] \in {Taken(q), Taken(q) + 1}
      /\ pc[q] = "send" => calls[q] = Taken(q) + 1
      /\ calls[q] \in {Len(results[q]), Len(results[q]) + 1}
  BY <1>2 DEF Link, Turns, Local
<1>8. SentTo(q) = Got(q) /\ calls[q] = Taken(q) /\ Got(q) + 1 = calls[q] /\ pc[q] # "send"
  <2>1. Len(results[q]) <= Got(q)
    BY <1>6
  <2>2. calls[q] <= Got(q) + 1
    BY <1>6, <1>7, <2>1
  <2>3. SentTo(q) = Len(results[Root]) /\ Taken(q) = SentTo(q) + 1
    BY <1>4, <1>5, <1>6
  <2>4. calls[q] = SentTo(q) + 1 /\ SentTo(q) = Got(q)
    BY <1>6, <1>7, <2>2, <2>3
  <2>5. pc[q] # "send"
    BY <1>6, <1>7, <2>3, <2>4
  <2> QED  BY <2>3, <2>4, <2>5
<1>9. pc[q] \in {"recv", "wait"}
  BY <1>8, Halfway
<1>10. wire[<<Root, q>>] = <<>>
  BY <1>2, <1>6, <1>8 DEF Link, Downward
<1>11. SameNumber(session[Root], session[q]) /\ session[Root].op = session[q].op /\ session[Root].n = session[q].n
  BY <1>3, <1>4, <1>8, <1>9, SameTurn
<1>12. HeaderOf(session[Root], "result") = ResultHeader(q)
  BY <1>2, <1>11 DEF HeaderOf, ResultHeader, SameNumber, Sound
<1> QED  BY <1>5, <1>6, <1>8, <1>9, <1>10, <1>12

\* The root sends its peer the result, or ends late.
LEMMA RootSendsSmooth ==
    ASSUME IInv, OneProgram, Smooth, Send(Root)
    PROVE  Smooth' \/ EndedLate(Root)'
<1>1. PICK q \in Workers : q = peer[Root]
  BY Typing, Star
<1>2. q \in Ranks /\ q # Root /\ Root \in Ranks /\ q \in Peers(Root)
      /\ <<q, Root>> \in Links /\ <<Root, q>> \in Links
  BY Star
<1>3. q \in Int /\ q <= N - 1
  BY <1>2, NAssumption DEF Ranks
<1> DEFINE down == <<Root, q>>
           d == CheckDeadline(session[Root], clock[Root])
           h == HeaderOf(session[Root], "result")
           frame == [header |-> h, payload |-> buf[Root], corrupt |-> FALSE]
           label == IF q = N - 1 THEN "finish" ELSE "send"
<1>4. /\ pc[Root] = "send"
      /\ \/ d.raised /\ session' = [session EXCEPT ![Root] = d.session]
                     /\ pc' = [pc EXCEPT ![Root] = "raised"]
         \/ /\ ~d.raised /\ peer' = [peer EXCEPT ![Root] = IF q = N - 1 THEN @ ELSE q + 1]
            /\ wire' = [wire EXCEPT ![down] = IF Hung(down) THEN @ ELSE Append(@, frame)]
            /\ pc' = [pc EXCEPT ![Root] = label] /\ session' = session
      /\ UNCHANGED <<schedule, clock, calls, results, live, fds>>
  BY <1>1 DEF Send, Raised, SetSession, Goto, LastPeer
<1>5. \/ d.raised = FALSE
      \/ d.raised = TRUE /\ clock[Root] > session[Root].deadline
         /\ d.session.deadline = session[Root].deadline
  BY <1>2, DeadlineChecked
<1>6. Root \in Ranks
  BY <1>2
<1> HIDE DEF d
<1>7. CASE d.raised
  BY <1>4, <1>5, <1>6, <1>7, LateEnd
<1>8. CASE ~d.raised
  <2>1. ~Hung(down)
    BY <1>1, <1>2, <1>4, NobodyHangs
  <2>2. /\ SentTo(q) = Got(q) /\ SentTo(q) \in Nat /\ wire[down] = <<>>
        /\ pc[q] \in {"recv", "wait"} /\ h = ResultHeader(q)
    BY <1>1, <1>4, ResultAwaited
  <2>3. wire'[down] = <<frame>> /\ \A l \in Links : l # down => wire'[l] = wire[l]
    <3> HIDE DEF frame
    <3>1. wire' = [wire EXCEPT ![down] = Append(wire[down], frame)]
      BY <1>4, <1>8, <2>1
    <3>2. wire \in [Links -> Seq(Frame)]
      BY Typing
    <3>3. wire[down] = <<>> /\ Append(<<>>, frame) = <<frame>>
      BY <2>2
    <3>4. wire'[down] = Append(wire[down], frame)
      BY <1>2, <3>1, <3>2
    <3>5. \A l \in Links : l # down => wire'[l] = wire[l]
      BY <3>1, <3>2
    <3> QED  BY <3>3, <3>4, <3>5
  <2>4. /\ session' = [session EXCEPT ![Root] = session[Root]] /\ session' = session
        /\ pc' = [pc EXCEPT ![Root] = label] /\ pc'[Root] = label
        /\ peer'[Root] = IF q = N - 1 THEN q ELSE q + 1
    BY <1>1, <1>2, <1>4, <1>8, Typing
  <2>5. label \in {"finish", "send"} /\ label \in PCs \ {"stopped"}
    BY DEF PCs
  <2>6. Sound(Root)'
    BY <1>2, <1>4, <2>4, <2>5 DEF Smooth, Sound, InCall
  <2>7. Gathered = Ranks /\ Gathered' = Ranks
    BY <1>4, <2>4, <2>5 DEF Gathered, Gathering, InCall
  <2>8. ASSUME NEW p \in Workers
        PROVE  /\ Taken(p)' = Taken(p)
               /\ p # q => SentTo(p)' = SentTo(p)
               /\ SentTo(q)' = SentTo(q) + 1
    <3>1. p \in Int /\ p <= N - 1 /\ N \in Int /\ Len(results[Root]) \in Nat
      <4>1. p \in Ranks
        BY Star
      <4>2. Len(results[Root]) \in Nat
        BY <1>2, Typing, Bounds
      <4> QED  BY <4>1, <4>2, NAssumption DEF Ranks
    <3>2. Taken(p)' = Taken(p)
      BY <1>4, <2>7 DEF Taken
    <3> DEFINE sent(x) == pc[Root] = "finish" \/ (pc[Root] = "send" /\ x < peer[Root])
    <3>3. sent(p) <=> p < q
      BY <1>1, <1>4
    <3>4. sent(p)' <=> p < q + 1
      <4>1. CASE q = N - 1
        BY <1>3, <2>4, <3>1, <4>1
      <4>2. CASE q # N - 1
        BY <2>4, <4>2
      <4> QED  BY <4>1, <4>2
    <3>5. p # q => (sent(p)' <=> sent(p))
      BY <1>3, <3>1, <3>3, <3>4
    <3>6. p # q => SentTo(p)' = SentTo(p)
      BY <1>4, <3>5 DEF SentTo
    <3>7. ~sent(q) /\ sent(q)'
      <4>1. CASE q = N - 1
        BY <1>1, <1>3, <1>4, <2>4, <4>1
      <4>2. CASE q # N - 1
        BY <1>1, <1>3, <1>4, <2>4, <4>2
      <4> QED  BY <4>1, <4>2
    <3>8. SentTo(q) = Len(results[Root]) + 0 /\ SentTo(q)' = Len(results[Root]) + 1
      BY <1>4, <3>7 DEF SentTo
    <3> QED  BY <3>1, <3>2, <3>6, <3>8
  <2>9. ASSUME NEW p \in Workers, p # q PROVE Link(p)'
    <3>1. p \in Ranks /\ p # Root /\ <<p, Root>> \in Links /\ <<Root, p>> \in Links
      BY Star
    <3>2. pc'[p] = pc[p] /\ session'[p] = session[p]
      BY <2>4, <3>1, Typing
    <3>3. wire'[<<p, Root>>] = wire[<<p, Root>>] /\ wire'[<<Root, p>>] = wire[<<Root, p>>]
      BY <1>2, <2>3, <2>9, <3>1
    <3>4. Link(p)
      BY DEF Smooth, Link
    <3>5. /\ HeaderOf(session[p], "contrib")' = HeaderOf(session[p], "contrib")
          /\ HeaderOf(session[p], "result")' = HeaderOf(session[p], "result")
      BY <3>2 DEF HeaderOf
    <3> QED  BY <1>4, <2>8, <2>9, <3>2, <3>3, <3>4, <3>5, LinkStays
  <2>10. Link(q)'
    <3>1. pc'[q] = pc[q] /\ session'[q] = session[q]
      BY <1>2, <2>4, Typing
    <3>2. SentTo(q)' = SentTo(q) + 1 /\ Taken(q)' = Taken(q) /\ Got(q)' = Got(q)
      BY <1>4, <2>8, <3>1 DEF Got
    <3>3. Link(q)
      BY DEF Smooth, Link
    <3>4. wire'[<<q, Root>>] = wire[<<q, Root>>]
      BY <1>2, <2>3
    <3>5. HeaderOf(session[q], "contrib")' = HeaderOf(session[q], "contrib") /\ ResultHeader(q)' = ResultHeader(q)
      BY <3>1 DEF HeaderOf, ResultHeader
    <3>6. Turns(q)'
      BY <1>4, <2>2, <3>1, <3>2, <3>3 DEF Link, Turns
    <3>7. Upward(q)'
      BY <1>4, <3>1, <3>2, <3>3, <3>4, <3>5 DEF Link, Upward, Carries
    <3>8. Carries(wire'[down], ResultHeader(q))
      <4> HIDE DEF h
      <4> QED  BY <2>2, <2>3 DEF Carries
    <3>9. Downward(q)'
      BY <2>2, <3>2, <3>5, <3>8 DEF Downward, Carries
    <3> QED  BY <3>6, <3>7, <3>9 DEF Link
  <2> HIDE DEF label
  <2> QED  BY <1>2, <1>4, <2>4, <2>5, <2>6, <2>9, <2>10, StepAt
<1> QED  BY <1>7, <1>8

\* A worker that has the result of every call it entered, and goes on from there.
LEMMA StepAtCaught ==
    ASSUME IInv, Smooth, NEW r \in Workers, NEW t, NEW label \in PCs \ {"stopped", "send", "finish"},
           session' = [session EXCEPT ![r] = t], pc' = [pc EXCEPT ![r] = label],
           pc[r] # "stopped", UNCHANGED <<schedule, live, fds, wire, calls>>, peer'[Root] = peer[Root],
           \A p \in Ranks : p # r => results'[p] = results[p],
           Got(r) = calls[r], Len(results'[r]) = calls[r],
           Sound(r)'
    PROVE  Smooth'
<1>1. r \in Ranks /\ r # Root /\ Root \in Ranks /\ Types
  BY Typing, Star
<1>2. Link(r)
  BY <1>1 DEF Smooth, Link
<1>3. /\ Taken(r) = calls[r] /\ SentTo(r) = calls[r]
      /\ wire[<<r, Root>>] = <<>> /\ wire[<<Root, r>>] = <<>>
  BY <1>1, <1>2, Caught
<1>4. pc'[r] = label /\ pc'[Root] = pc[Root] /\ results'[Root] = results[Root]
  BY <1>1, Typing
<1>5. Taken(r)' = Taken(r) /\ SentTo(r)' = SentTo(r)
  BY <1>4, RootStands
<1>6. calls[r] \in Nat
  BY <1>1, Bounds
<1>7. Got(r)' = calls[r]
  <2>1. Got(r)' = Len(results'[r]) + 0
    BY <1>4 DEF Got
  <2> QED  BY <1>6, <2>1
<1>8. Link(r)'
  BY <1>3, <1>4, <1>5, <1>6, <1>7, EmptyLink
<1> QED  BY <1>8, StepAtWorker

\* A collective returns to its caller.
LEMMA FinishSmooth ==
    ASSUME IInv, Smooth, NEW r \in Ranks, FinishCall(r)
    PROVE  Smooth'
<1> DEFINE f == Finish(session[r])
           label == IF Call(r).epoch THEN "epoch" ELSE "idle"
<1>1. /\ pc[r] = "finish"
      /\ ~f.raised => /\ session' = [session EXCEPT ![r] = f.session]
                      /\ results' = [results EXCEPT ![r] = Append(@, buf[r])]
                      /\ pc' = [pc EXCEPT ![r] = label]
      /\ UNCHANGED <<schedule, peer, calls, wire, live, fds>>
  BY DEF FinishCall, SetSession, Goto
<1>2. /\ session[r] \in Session /\ session[r].rank = r
      /\ session[r].state = "in_flight" /\ session[r].lost = {}
  BY <1>1, Typing DEF Smooth, Sound, InCall
<1>3. PICK t : /\ f = Return(t)
               /\ t.rank = session[r].rank /\ t.lost = session[r].lost /\ t.state = "ready"
  BY <1>2, SoundFinish
<1> HIDE DEF f
<1>4. f.raised = FALSE /\ f.session = t
  BY <1>3 DEF Return
<1>5. /\ session' = [session EXCEPT ![r] = t] /\ pc' = [pc EXCEPT ![r] = label]
      /\ results' = [results EXCEPT ![r] = Append(@, buf[r])]
  BY <1>1, <1>4
<1>6. label \in {"epoch", "idle"} /\ label \in PCs \ {"stopped", "send", "finish"}
  BY DEF PCs
<1> HIDE DEF label
<1>7. session'[r] = t /\ pc'[r] = label
  BY <1>5, Typing
<1>8. Sound(r)'
  BY <1>2, <1>3, <1>6, <1>7 DEF Sound, InCall
<1>9. \A p \in Ranks : p # r => calls'[p] = calls[p] /\ results'[p] = results[p]
  <2>1. results \in [Ranks -> Seq(Payloads)]
    BY Typing
  <2> QED  BY <1>1, <1>5, <2>1
<1>10. Len(results'[r]) = Len(results[r]) + 1 /\ Len(results[r]) \in Nat
  <2>1. results \in [Ranks -> Seq(Payloads)] /\ buf \in [Ranks -> Payloads]
    BY Typing
  <2>2. results'[r] = Append(results[r], buf[r])
    BY <1>5, <2>1
  <2>3. results[r] \in Seq(Payloads) /\ buf[r] \in Payloads
    BY <2>1
  <2> QED  BY <2>2, <2>3
<1>11. calls[r] = Len(results[r]) + 1
  BY <1>1 DEF IInv, Local, InCall
<1>12. CASE r = Root
  <2>1. ASSUME NEW q \in Workers PROVE Taken(q)' = Taken(q) /\ SentTo(q)' = SentTo(q)
    <3>1. q \in Ranks /\ pc[Root] = "finish" /\ pc'[Root] = label
      BY <1>1, <1>7, <1>12, Star
    <3>2. q \in Gathered /\ q \notin Gathered'
      BY <1>6, <3>1 DEF Gathered, Gathering, InCall
    <3>3. Taken(q) = Len(results[Root]) + 1 /\ Taken(q)' = Len(results'[Root]) + 0
      BY <3>2 DEF Taken
    <3>4. SentTo(q) = Len(results[Root]) + 1 /\ SentTo(q)' = Len(results'[Root]) + 0
      BY <1>6, <3>1 DEF SentTo
    <3> QED  BY <1>10, <1>12, <3>3, <3>4
  <2> QED  BY <1>1, <1>5, <1>6, <1>8, <1>9, <1>12, <2>1, StepAtRoot
<1>13. CASE r # Root
  <2>1. r \in Workers
    BY <1>13, Star
  <2>2. Got(r) = calls[r]
    BY <1>1, <1>11 DEF Got
  <2> QED  BY <1>1, <1>5, <1>6, <1>8, <1>9, <1>10, <1>11, <2>1, <2>2, StepAtCaught
<1> QED  BY <1>12, <1>13

\* A rank between two collectives goes on with nothing under way.
LEMMA BetweenCalls ==
    ASSUME IInv, Smooth, NEW r \in Ranks, NEW t, NEW label \in {"idle", "returned"},
           pc[r] \in {"epoch", "idle"},
           session' = [session EXCEPT ![r] = t], pc' = [pc EXCEPT ![r] = label],
           UNCHANGED <<schedule, peer, calls, results, wire, live, fds>>,
           Sound(r)'
    PROVE  Smooth'
<1>1. label \in PCs \ {"stopped", "send", "finish"}
  BY DEF PCs
<1>2. CASE r = Root
  <2>1. pc'[Root] = label /\ pc[Root] \in {"epoch", "idle"}
    BY <1>2, Typing
  <2>2. ASSUME NEW q \in Workers PROVE Taken(q)' = Taken(q) /\ SentTo(q)' = SentTo(q)
    <3>1. Gathered = {} /\ Gathered' = {}
      BY <2>1 DEF Gathered, Gathering, InCall
    <3> QED  BY <2>1, <3>1 DEF Taken, SentTo
  <2> QED  BY <1>1, <1>2, <2>1, <2>2, StepAtRoot
<1>3. CASE r # Root
  <2>1. r \in Workers /\ Types
    BY <1>3, Typing, Star
  <2>2. Local(r)
    BY DEF IInv
  <2>3. calls[r] = Len(results[r])
    BY <2>2 DEF Local
  <2>4. Got(r) = calls[r]
    BY <2>1, <2>3, Counters
  <2> QED  BY <1>1, <2>1, <2>3, <2>4, StepAtCaught
<1> QED  BY <1>2, <1>3

\* A rank opens an epoch.
LEMMA OpenEpochSmooth ==
    ASSUME IInv, Smooth, NEW r \in Ranks, OpenEpoch(r)
    PROVE  Smooth'
<1> DEFINE e == NextEpoch(session[r])
<1>1. /\ pc[r] = "epoch" /\ session' = [session EXCEPT ![r] = e.session]
      /\ pc' = [pc EXCEPT ![r] = IF e.raised THEN "raised" ELSE "idle"]
      /\ UNCHANGED <<schedule, peer, calls, results, wire, live, fds>>
  BY DEF OpenEpoch, SetSession, Goto
<1>2. /\ session[r] \in Session /\ session[r].rank = r
      /\ session[r].state = "ready" /\ session[r].lost = {}
  BY <1>1, Typing DEF Smooth, Sound, InCall
<1>3. PICK t : /\ e = Return(t)
               /\ t.rank = session[r].rank /\ t.lost = session[r].lost /\ t.state = "ready"
  BY <1>2, SoundNextEpoch
<1> HIDE DEF e
<1>4. session' = [session EXCEPT ![r] = t] /\ pc' = [pc EXCEPT ![r] = "idle"]
  BY <1>1, <1>3 DEF Return
<1>5. session'[r] = t /\ pc'[r] = "idle"
  BY <1>4, Typing
<1>6. Sound(r)'
  BY <1>2, <1>3, <1>5 DEF Sound, InCall
<1> QED  BY <1>1, <1>4, <1>6, BetweenCalls

\* A rank returns its model.
LEMMA ReturnSmooth ==
    ASSUME IInv, Smooth, NEW r \in Ranks, ReturnModel(r)
    PROVE  Smooth'
<1>1. /\ pc[r] = "idle" /\ calls[r] = Len(schedule[r]) /\ pc' = [pc EXCEPT ![r] = "returned"]
      /\ UNCHANGED <<schedule, session, peer, calls, results, wire, live, fds>>
  BY DEF ReturnModel, Goto
<1>2. session' = [session EXCEPT ![r] = session[r]] /\ pc'[r] = "returned"
  BY <1>1, Typing
<1>3. Len(results[r]) = calls[r]
  BY <1>1 DEF IInv, Local
<1>4. Sound(r)'
  BY <1>1, <1>2, <1>3 DEF Smooth, Sound, InCall
<1> QED  BY <1>1, <1>2, <1>4, BetweenCalls

\* A rank that has returned its model leaves no frame unread, so closing its
\* descriptors loses none.
LEMMA AllRead ==
    ASSUME IInv, OneProgram, Smooth, NEW r \in Ranks, pc[r] = "returned", NEW q \in Peers(r)
    PROVE  wire[<<q, r>>] = <<>>
<1>1. Types /\ Sound(r) /\ q \in Ranks /\ Root \in Ranks
  BY Typing, Star DEF Smooth
<1>2. calls[r] = Len(schedule[r]) /\ Len(results[r]) = calls[r]
  BY <1>1 DEF Sound
<1>3. CASE r = Root
  <2>1. q \in Workers
    BY <1>3, Star
  <2>2. Link(q)
    BY <2>1 DEF Smooth, Link
  <2>3. Taken(q) = Len(results[Root])
    <3>1. q \notin Gathered
      BY <1>3 DEF Gathered, Gathering, InCall
    <3> QED  BY <1>1, <3>1, TakenType
  <2>4. calls[q] <= Len(schedule[q]) /\ schedule[q] = schedule[r]
    BY <1>1 DEF IInv, Local, OneProgram
  <2>5. calls[q] \in Nat /\ calls[r] \in Nat
    BY <1>1, Bounds
  <2>6. calls[q] # Taken(q) + 1
    BY <1>2, <1>3, <2>3, <2>4, <2>5
  <2> QED  BY <1>3, <2>2, <2>6 DEF Link, Upward
<1>4. CASE r # Root
  <2>1. r \in Workers /\ q = Root
    BY <1>4, Star
  <2>2. Link(r)
    BY <2>1 DEF Smooth, Link
  <2>3. Got(r) = calls[r]
    BY <1>1, <1>2, <2>1, Counters
  <2> QED  BY <1>1, <2>1, <2>2, <2>3, Caught
<1> QED  BY <1>3, <1>4

\* A rank that returned its model closes its descriptors.
LEMMA ShutdownSmooth ==
    ASSUME IInv, OneProgram, Smooth, NEW r \in Ranks, Shutdown(r)
    PROVE  Smooth'
<1> DEFINE mine == {l \in live : l[1] = r}
           t == Close(session[r])
<1>1. /\ pc[r] \in {"raised", "returned"}
      /\ live' = live \ mine /\ fds' = fds \ mine /\ CloseEnds(r, mine)
      /\ session' = [session EXCEPT ![r] = t] /\ pc' = [pc EXCEPT ![r] = "stopped"]
      /\ UNCHANGED <<schedule, clock, peer, calls, results>>
  BY DEF Shutdown, SetSession, Goto
<1>2. Sound(r) /\ pc[r] = "returned"
  BY <1>1 DEF Smooth, Sound
<1>3. \A q \in Peers(r) : wire[<<q, r>>] = <<>>
  BY <1>2, AllRead
<1>4. wire' = wire
  <2>1. wire \in [Links -> Seq(Frame)]
    BY Typing
  <2>2. Unread(r) = {}
    BY <1>3 DEF Unread
  <2>3. wire' = [l \in Links |-> IF l[2] = r /\ <<r, l[1]>> \in mine THEN <<>> ELSE wire[l]]
    <3> HIDE DEF mine
    <3> QED  BY <1>1, <2>2 DEF CloseEnds
  <2>4. \A l \in Links : l[2] = r => wire[l] = <<>>
    <3> SUFFICES ASSUME NEW l \in Links, l[2] = r PROVE wire[l] = <<>>
      OBVIOUS
    <3>1. l = <<l[1], r>> /\ l[1] \in Peers(r)
      BY DEF Links, Peers, Workers
    <3> QED  BY <1>3, <3>1
  <2> HIDE DEF mine
  <2> QED  BY <2>1, <2>3, <2>4
<1>5. session[r] \in Session
  BY Typing
<1>6. /\ t.rank = session[r].rank /\ t.lost = session[r].lost
      /\ t.epoch = session[r].epoch /\ t.seq = session[r].seq
      /\ t.op = session[r].op /\ t.n = session[r].n
      /\ session[r].state = "ready" => t.state = "closed"
  BY <1>5 DEF Close, Session
<1> HIDE DEF t
<1>7. session'[r] = t /\ pc'[r] = "stopped"
      /\ \A p \in Ranks : p # r => pc'[p] = pc[p] /\ session'[p] = session[p]
  <2>1. session \in [Ranks -> Session] /\ pc \in [Ranks -> PCs]
    BY Typing
  <2> QED  BY <1>1, <2>1
<1>8. ASSUME NEW p \in Ranks PROVE Sound(p)'
  <2>1. CASE p = r
    BY <1>1, <1>2, <1>6, <1>7, <2>1 DEF Sound, InCall
  <2>2. CASE p # r
    BY <1>1, <1>7, <2>2 DEF Smooth, Sound, InCall
  <2> QED  BY <2>1, <2>2
<1>9. live' = fds' /\ fds' = {l \in Links : pc'[l[1]] # "stopped"}
  <2>1. \A l \in Links : l[1] \in Ranks
    BY Star
  <2>2. live = fds /\ fds = {l \in Links : pc[l[1]] # "stopped"}
    BY DEF Smooth
  <2>3. \A l \in Links : pc'[l[1]] # "stopped" <=> pc[l[1]] # "stopped" /\ l[1] # r
    BY <1>7, <2>1
  <2>4. fds' = {l \in fds : l[1] # r}
    BY <1>1, <2>2
  <2> QED  BY <1>1, <2>2, <2>3, <2>4
<1>10. ASSUME NEW q \in Workers PROVE Link(q)'
  <2>1. q \in Ranks /\ q # Root /\ Root \in Ranks
    BY Star
  <2>2. /\ HeaderOf(session[q], "contrib")' = HeaderOf(session[q], "contrib")
        /\ HeaderOf(session[q], "result")' = HeaderOf(session[q], "result")
        /\ pc'[q] = "send" <=> pc[q] = "send"
        /\ pc'[q] = "finish" <=> pc[q] = "finish"
    <3>1. CASE q = r
      BY <1>2, <1>6, <1>7, <3>1 DEF HeaderOf
    <3>2. CASE q # r
      BY <1>7, <2>1, <3>2 DEF HeaderOf
    <3> QED  BY <3>1, <3>2
  <2>3. Taken(q)' = Taken(q) /\ SentTo(q)' = SentTo(q)
    <3>1. CASE r = Root
      <4>1. Gathered = {} /\ Gathered' = {}
        BY <1>2, <1>7, <3>1 DEF Gathered, Gathering, InCall
      <4> QED  BY <1>1, <1>2, <1>7, <3>1, <4>1 DEF Taken, SentTo
    <3>2. CASE r # Root
      BY <1>1, <1>7, <2>1, <3>2, RootStands
    <3> QED  BY <3>1, <3>2
  <2>4. Link(q)
    BY DEF Smooth, Link
  <2> QED  BY <1>1, <1>4, <2>2, <2>3, <2>4, LinkStays
<1> QED  BY <1>8, <1>9, <1>10 DEF Smooth, Link

\* A step of a rank leaves it in the run of a program that meets no fault, or
\* ended by its own deadline.
LEMMA StepSmooth ==
    ASSUME IInv, OneProgram, Smooth, NEW r \in Ranks, Step(r)
    PROVE  Smooth' \/ EndedLate(r)'
<1> DEFINE lost == MarkLost(session[r], peer[r]).session
<1>0. peer[r] \in Ranks /\ Healthy(session[r])
  BY Typing
<1>1. lost.deadline = session[r].deadline
  BY <1>0, DeadlineStays
<1> HIDE DEF lost
<1>2. CASE StartCall(r)
  BY <1>2, StartSmooth
<1>3. CASE EnterRecv(r)
  BY <1>3, EnterRecvSmooth
<1>4. CASE Receive(r)
  <2>1. CASE r = Root
    BY <1>4, <2>1, RootReceivesSmooth
  <2>2. CASE r # Root
    <3>1. r \in Workers
      BY <2>2, Star
    <3> QED  BY <1>4, <3>1, WorkerReceivesSmooth
  <2> QED  BY <2>1, <2>2
<1>5. CASE RecvLost(r)
  <2>1. pc[r] = "wait" /\ wire[<<peer[r], r>>] = <<>> /\ Hung(<<r, peer[r]>>)
    BY <1>5 DEF RecvLost
  <2> QED  BY <2>1, NobodyHangs
<1>6. CASE RecvTimeout(r)
  <2>1. /\ clock[r] > session[r].deadline /\ clock' = clock
        /\ session' = [session EXCEPT ![r] = lost] /\ pc' = [pc EXCEPT ![r] = "raised"]
    BY <1>6 DEF RecvTimeout, Raised, SetSession, Goto, lost
  <2> QED  BY <1>1, <2>1, LateEnd
<1>7. CASE Send(r)
  <2>1. CASE r = Root
    BY <1>7, <2>1, RootSendsSmooth
  <2>2. CASE r # Root
    <3>1. r \in Workers
      BY <2>2, Star
    <3> QED  BY <1>7, <3>1, WorkerSendsSmooth
  <2> QED  BY <2>1, <2>2
<1>8. CASE SendLost(r)
  <2>1. /\ pc[r] = "send"
        /\ Hung(<<r, peer[r]>>) \/ clock' = [clock EXCEPT ![r] = session[r].deadline + 1]
        /\ session' = [session EXCEPT ![r] = lost] /\ pc' = [pc EXCEPT ![r] = "raised"]
    BY <1>8 DEF SendLost, Raised, SetSession, Goto, lost
  <2>2. clock' = [clock EXCEPT ![r] = session[r].deadline + 1]
    BY <2>1, NobodyHangs
  <2>3. clock'[r] > session[r].deadline
    <3>1. clock \in [Ranks -> Nat] /\ session[r].deadline \in Nat
      BY <1>0, Typing DEF Healthy, Session
    <3> QED  BY <2>2, <3>1
  <2> QED  BY <1>1, <2>1, <2>3, LateEnd
<1>9. CASE FinishCall(r)
  BY <1>9, FinishSmooth
<1>10. CASE OpenEpoch(r)
  BY <1>10, OpenEpochSmooth
<1>11. CASE ReturnModel(r)
  BY <1>11, ReturnSmooth
<1>12. CASE Shutdown(r)
  BY <1>12, ShutdownSmooth
<1> QED  BY <1>2, <1>3, <1>4, <1>5, <1>6, <1>7, <1>8, <1>9, <1>10, <1>11, <1>12 DEF Step

\* The steps of the other ranks, and the rank's own shutdown, leave it ended late.
LEMMA LateStays ==
    ASSUME IInv, NEW p \in Ranks, EndedLate(p), NEW r \in Ranks, Step(r) \/ Tick(r)
    PROVE  EndedLate(p)'
<1>1. /\ pc \in [Ranks -> PCs] /\ session \in [Ranks -> Session] /\ clock \in [Ranks -> Nat]
      /\ Healthy(session[p]) /\ p \in Ranks
  BY Typing
<1>2. CASE p # r
  <2> SUFFICES pc'[p] = pc[p] /\ session'[p] = session[p] /\ clock'[p] = clock[p]
    BY DEF EndedLate
  <2>1. CASE StartCall(r)
    BY <1>1, <1>2, <2>1 DEF StartCall, Raised, SetSession, Goto
  <2>2. CASE EnterRecv(r)
    BY <1>1, <1>2, <2>2 DEF EnterRecv, Raised, SetSession, Goto
  <2>3. CASE Receive(r)
    BY <1>1, <1>2, <2>3 DEF Receive, Raised, SetSession, Goto
  <2>4. CASE RecvLost(r) \/ RecvTimeout(r)
    BY <1>1, <1>2, <2>4 DEF RecvLost, RecvTimeout, Raised, SetSession, Goto
  <2>5. CASE Send(r)
    BY <1>1, <1>2, <2>5 DEF Send, Raised, SetSession, Goto
  <2>6. CASE SendLost(r)
    BY <1>1, <1>2, <2>6 DEF SendLost, Raised, SetSession, Goto
  <2>7. CASE FinishCall(r)
    BY <1>1, <1>2, <2>7 DEF FinishCall, Raised, SetSession, Goto
  <2>8. CASE OpenEpoch(r)
    BY <1>1, <1>2, <2>8 DEF OpenEpoch, SetSession, Goto
  <2>9. CASE ReturnModel(r) \/ Shutdown(r)
    BY <1>1, <1>2, <2>9 DEF ReturnModel, Shutdown, SetSession, Goto
  <2>10. CASE Tick(r)
    BY <1>1, <1>2, <2>10 DEF Tick
  <2> QED  BY <2>1, <2>2, <2>3, <2>4, <2>5, <2>6, <2>7, <2>8, <2>9, <2>10 DEF Step
<1>3. CASE p = r
  <2>1. pc[r] \in {"raised", "stopped"}
    BY <1>3 DEF EndedLate
  <2>2. Shutdown(r)
    BY <2>1 DEF Step, StartCall, EnterRecv, Receive, RecvLost, RecvTimeout, Send, SendLost,
                FinishCall, OpenEpoch, ReturnModel, Tick
  <2>3. /\ clock' = clock /\ session' = [session EXCEPT ![r] = Close(session[r])]
        /\ pc' = [pc EXCEPT ![r] = "stopped"]
    BY <2>2 DEF Shutdown, SetSession, Goto
  <2>4. session'[r] = Close(session[r]) /\ pc'[r] = "stopped"
    BY <1>1, <2>3
  <2>5. Close(session[r]).deadline = session[r].deadline
    BY <1>1, <1>3, DeadlineStays
  <2> QED  BY <1>3, <2>3, <2>4, <2>5 DEF EndedLate
<1> QED  BY <1>2, <1>3

\* Time passes, or nothing happens.
LEMMA SmoothStays ==
    ASSUME Smooth, UNCHANGED <<schedule, session, pc, peer, calls, results, wire, live, fds>>
    PROVE  Smooth'
<1>1. \A r \in Ranks : Sound(r)'
  BY DEF Smooth, Sound, InCall
<1>2. live' = fds' /\ fds' = {l \in Links : pc'[l[1]] # "stopped"}
  BY DEF Smooth
<1>3. ASSUME NEW q \in Workers PROVE Link(q)'
  <2>1. Link(q)
    BY DEF Smooth, Link
  <2>2. Taken(q)' = Taken(q) /\ SentTo(q)' = SentTo(q)
    BY RootStands
  <2>3. /\ HeaderOf(session[q], "contrib")' = HeaderOf(session[q], "contrib")
        /\ HeaderOf(session[q], "result")' = HeaderOf(session[q], "result")
    OBVIOUS
  <2> QED  BY <2>1, <2>2, <2>3, LinkStays
<1> QED  BY <1>1, <1>2, <1>3 DEF Smooth, Link

\* A run starts smooth.
LEMMA InitSmooth == Init => Smooth
<1> SUFFICES ASSUME Init PROVE Smooth
  OBVIOUS
<1>1. IInv
  BY InitIInv
<1>2. ASSUME NEW r \in Ranks PROVE Sound(r)
  <2> DEFINE s == NewSession(r, 0)
             t == [s EXCEPT !.state = "ready"]
  <2>1. CompleteHandshake(s, "ok", Root) = Return(t)
    BY DEF CompleteHandshake, NewSession, Usable, Terminal
  <2>2. t.rank = r /\ t.lost = {} /\ t.state = "ready"
    BY DEF NewSession
  <2> HIDE DEF t
  <2>3. session[r] = t /\ pc[r] = "idle"
    BY <2>1 DEF Init, Return
  <2> QED  BY <2>2, <2>3 DEF Sound, InCall
<1>3. \A l \in Links : wire[l] = <<>> /\ pc[l[1]] = "idle"
  <2>1. \A l \in Links : l[1] \in Ranks
    BY Star
  <2> QED  BY <2>1 DEF Init
<1>4. live = fds /\ fds = {l \in Links : pc[l[1]] # "stopped"}
  BY <1>3 DEF Init
<1>5. ASSUME NEW q \in Workers PROVE Link(q)
  <2>1. q \in Ranks /\ Root \in Ranks /\ <<q, Root>> \in Links /\ <<Root, q>> \in Links
    BY Star
  <2>2. calls[q] = 0 /\ pc[q] = "idle" /\ pc[Root] = "idle" /\ results[q] = <<>> /\ results[Root] = <<>>
    BY <2>1 DEF Init
  <2>3. Gathered = {}
    BY <2>2 DEF Gathered, Gathering, InCall
  <2>4. Taken(q) = 0 /\ SentTo(q) = 0 /\ Got(q) = 0
    BY <2>2, <2>3 DEF Taken, SentTo, Got
  <2>5. wire[<<q, Root>>] = <<>> /\ wire[<<Root, q>>] = <<>>
    BY <1>3, <2>1
  <2> QED  BY <2>2, <2>4, <2>5 DEF Link, Turns, Upward, Downward
<1> QED  BY <1>2, <1>4, <1>5 DEF Smooth, Link

\* Until a deadline passes, a run of one program without a fault is smooth.
LEMMA UndelayedKeeps ==
    ASSUME IInv, Undelayed, [Next]_vars
    PROVE  Undelayed'
<1> SUFFICES ASSUME OneProgram', faults' = 0
             PROVE  Smooth' \/ \E p \in Ranks : EndedLate(p)'
  BY DEF Undelayed
<1>1. faults \in Nat
  BY Typing
<1>2. CASE \E r \in Ranks : Step(r) \/ Tick(r)
  <2>1. PICK r \in Ranks : Step(r) \/ Tick(r)
    BY <1>2
  <2>2. schedule' = schedule /\ faults' = faults
    BY <2>1 DEF Step, StartCall, EnterRecv, Receive, RecvLost, RecvTimeout, Send, SendLost,
                FinishCall, OpenEpoch, ReturnModel, Shutdown, Tick
  <2>3. OneProgram /\ faults = 0
    BY <2>2 DEF OneProgram
  <2>4. CASE \E p \in Ranks : EndedLate(p)
    BY <2>1, <2>4, LateStays
  <2>5. CASE Smooth
    <3>1. CASE Step(r)
      BY <2>3, <2>5, <3>1, StepSmooth
    <3>2. CASE Tick(r)
      <4>1. UNCHANGED <<schedule, session, pc, peer, calls, results, wire, live, fds>>
        BY <3>2 DEF Tick
      <4> QED  BY <2>5, <4>1, SmoothStays
    <3> QED  BY <2>1, <3>1, <3>2
  <2> QED  BY <2>3, <2>4, <2>5 DEF Undelayed
<1>3. CASE Environment
  <2>1. faults' = faults + 1
    BY <1>3 DEF Environment, Crash, Vanish, RequestCancel, Corrupt, Duplicate, Fault
  <2> QED  BY <1>1, <2>1
<1>4. CASE UNCHANGED vars
  <2>1. /\ UNCHANGED <<schedule, session, pc, peer, calls, results, wire, live, fds>>
        /\ UNCHANGED <<clock, faults>>
    BY <1>4 DEF vars
  <2>2. OneProgram /\ faults = 0
    BY <2>1 DEF OneProgram
  <2>3. CASE Smooth
    BY <2>1, <2>3, SmoothStays
  <2>4. CASE \E p \in Ranks : EndedLate(p)
    BY <2>1, <2>4 DEF EndedLate
  <2> QED  BY <2>2, <2>3, <2>4 DEF Undelayed
<1> QED  BY <1>2, <1>3, <1>4 DEF Next, Done

\* While the run is smooth, somebody has a step to take until everyone stopped.
\* Otherwise everyone waits: the root for a contribution of its peer, which has
\* sent it and waits for a result of the root, which has not taken it.
LEMMA SomebodySteps ==
    ASSUME IInv, Smooth
    PROVE  Over \/ \E r \in Ranks : CanStep(r)
<1> SUFFICES ASSUME NEW x \in Ranks, pc[x] \notin {"stopped", "dead"},
                    \A r \in Ranks : ~CanStep(r)
             PROVE  FALSE
  BY DEF Over
<1>0. Types /\ Root \in Ranks
  BY Typing, Star
<1>1. ASSUME NEW r \in Ranks, pc[r] # "stopped"
      PROVE  /\ pc[r] = "wait" /\ wire[<<peer[r], r>>] = <<>> /\ peer[r] \in Peers(r)
             /\ pc[peer[r]] # "stopped"
  <2>1. pc[r] \in PCs /\ peer[r] \in Peers(r) /\ Sound(r) /\ Local(r)
    BY Typing DEF Smooth, IInv
  <2>2. ~CanStep(r)
    OBVIOUS
  <2>3. pc[r] = "wait"
    BY <1>1, <2>1, <2>2 DEF CanStep, PCs, Sound, Local
  <2>4. wire[<<peer[r], r>>] = <<>> /\ ~Hung(<<r, peer[r]>>)
    BY <2>2, <2>3 DEF CanStep
  <2> QED  BY <2>1, <2>3, <2>4, HungStopped
<1>2. pc[Root] # "stopped"
  <2>1. CASE x = Root
    BY <2>1
  <2>2. CASE x # Root
    BY <1>1, <2>2, Star
  <2> QED  BY <2>1, <2>2
<1>3. PICK q \in Workers : q = peer[Root]
  BY <1>0, <1>1, <1>2, Star
<1>4. q \in Ranks /\ pc[Root] = "wait" /\ wire[<<q, Root>>] = <<>> /\ pc[q] # "stopped"
  BY <1>0, <1>1, <1>2, <1>3, Star
<1>5. pc[q] = "wait" /\ wire[<<Root, q>>] = <<>>
  <2>1. pc[q] = "wait" /\ wire[<<peer[q], q>>] = <<>> /\ peer[q] \in Peers(q)
    BY <1>1, <1>4
  <2>2. peer[q] = Root
    <3>1. q # Root /\ Peers(q) = {Root}
      BY <1>4, Star
    <3> QED  BY <2>1, <3>1
  <2> QED  BY <2>1, <2>2
<1>6. Link(q) /\ Local(q)
  BY <1>4 DEF Smooth, Link, IInv
<1>7. /\ Len(results[q]) \in Nat /\ calls[q] = Len(results[q]) + 1
      /\ Got(q) = Len(results[q]) /\ Len(results[Root]) \in Nat
  BY <1>0, <1>5, <1>6, Counters DEF Local, InCall
<1>8. SentTo(q) = Len(results[Root]) /\ Taken(q) = Len(results[Root])
  <2>1. Gathered = 0 .. q - 1
    BY <1>3, <1>4 DEF Gathered, Gathering
  <2>2. q \notin Gathered
    <3>1. q \in Int
      BY <1>4, Star
    <3> QED  BY <2>1, <3>1
  <2>3. SentTo(q) = Len(results[Root]) + 0
    BY <1>4 DEF SentTo
  <2> QED  BY <1>0, <1>7, <2>2, <2>3, TakenType
<1>9. calls[q] = Taken(q)
  <2>1. ~Carries(wire[<<q, Root>>], HeaderOf(session[q], "contrib"))
    BY <1>4 DEF Carries
  <2> QED  BY <1>5, <1>6, <2>1 DEF Link, Turns, Upward
<1>10. SentTo(q) = Got(q) + 1
  BY <1>7, <1>8, <1>9
<1>11. Carries(wire[<<Root, q>>], ResultHeader(q))
  BY <1>6, <1>10 DEF Link, Downward
<1> QED  BY <1>5, <1>11 DEF Carries

\* EveryRankReturns: ranks of one program that meet no fault and no deadline
\* never raise, never stop short of their results, and never wait for each other.
THEOREM EveryoneReturns == Spec => []EveryRankReturns
<1>1. Init => Undelayed
  BY InitSmooth DEF Undelayed
<1>2. IInv /\ Undelayed /\ [Next]_vars => Undelayed'
  BY UndelayedKeeps
<1>3. IInv /\ Undelayed => EveryRankReturns
  <2> SUFFICES ASSUME IInv, Undelayed, OneProgram, faults = 0,
                      \A r \in Ranks : clock[r] <= session[r].deadline
               PROVE  /\ \A r \in Ranks : pc[r] # "raised"
                      /\ \A r \in Ranks : pc[r] = "stopped" => Len(results[r]) = Len(schedule[r])
                      /\ Over \/ \E r \in Ranks : CanStep(r)
    BY DEF EveryRankReturns, OneProgram
  <2>1. ASSUME NEW r \in Ranks PROVE ~EndedLate(r)
    <3>1. clock[r] \in Nat /\ session[r].deadline \in Nat
      BY Typing DEF Session
    <3>2. clock[r] <= session[r].deadline
      OBVIOUS
    <3> QED  BY <3>1, <3>2 DEF EndedLate
  <2>2. Smooth
    BY <2>1 DEF Undelayed
  <2>3. \A r \in Ranks : Sound(r)
    BY <2>2 DEF Smooth
  <2>4. Over \/ \E r \in Ranks : CanStep(r)
    BY <2>2, SomebodySteps
  <2> QED  BY <2>3, <2>4 DEF Sound
<1> QED  BY <1>1, <1>2, <1>3, Invariance, PTL DEF Spec

=============================================================================
