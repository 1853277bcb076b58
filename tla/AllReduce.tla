------------------------------ MODULE AllReduce ------------------------------
(***************************************************************************)
(* What trait Collective of collective.mojo promises its callers, with no  *)
(* transport in it: every rank issues a sequence of calls, and the k-th    *)
(* call of a rank delivers the contributions of the k-th calls of ALL      *)
(* ranks, folded in ascending rank order, once every rank has entered a    *)
(* k-th call of the same shape -- or the rank gives up for good.           *)
(*                                                                         *)
(* The fold is left symbolic: a reduction is the sequence of the           *)
(* contributions in the order they were folded, so two reductions that     *)
(* could differ in a single rounding are different values here.            *)
(***************************************************************************)
EXTENDS Integers, Sequences

CONSTANTS
    N,            \* world_size()
    Programs      \* the sequences of calls a rank may be programmed with

VARIABLES
    schedule,     \* [rank -> sequence of calls], fixed by the program
    entered,      \* [rank -> number of calls entered]
    delivered,    \* [rank -> sequence of results returned to the caller]
    gone          \* the ranks that raised, stopped or died

vars == <<schedule, entered, delivered, gone>>

Ranks == 0 .. N - 1

\* What rank r hands to its k-th call; a barrier carries nothing.
Contribution(r, k) == [rank |-> r, call |-> k]

\* The reduction of the k-th calls, in ascending rank order.
Reduction(r, k) ==
    IF schedule[r][k].op = "barrier" THEN <<>>
    ELSE [i \in 1 .. N |-> Contribution(i - 1, k)]

SameShape(c, d) == c.op = d.op /\ c.n = d.n

Init ==
    /\ schedule \in [Ranks -> Programs]
    /\ entered = [r \in Ranks |-> 0]
    /\ delivered = [r \in Ranks |-> <<>>]
    /\ gone = {}

Enter(r) ==
    /\ r \notin gone
    /\ entered[r] = Len(delivered[r])
    /\ entered[r] < Len(schedule[r])
    /\ entered' = [entered EXCEPT ![r] = @ + 1]
    /\ UNCHANGED <<schedule, delivered, gone>>

\* Every rank has entered a k-th call, and of the same shape as r's.
Complete(r, k) ==
    \A q \in Ranks : /\ entered[q] >= k
                    /\ SameShape(schedule[q][k], schedule[r][k])

Deliver(r) ==
    LET k == Len(delivered[r]) + 1
    IN  /\ r \notin gone
        /\ entered[r] = k
        /\ Complete(r, k)
        /\ delivered' = [delivered EXCEPT ![r] = Append(@, Reduction(r, k))]
        /\ UNCHANGED <<schedule, entered, gone>>

GiveUp(r) ==
    /\ gone' = gone \union {r}
    /\ UNCHANGED <<schedule, entered, delivered>>

Next == \E r \in Ranks : Enter(r) \/ Deliver(r) \/ GiveUp(r)

Spec == Init /\ [][Next]_vars

-----------------------------------------------------------------------------
TypeOK ==
    /\ schedule \in [Ranks -> Programs]
    /\ entered \in [Ranks -> Nat]
    /\ delivered \in [Ranks -> Seq(Seq([rank: Ranks, call: Nat]))]
    /\ gone \subseteq Ranks

\* Whatever two ranks were returned by the same call is the same value, down
\* to the order of the additions ("leaving the identical result in every
\* rank's buf").
Agreement ==
    \A r, q \in Ranks :
        \A k \in DOMAIN delivered[r] \intersect DOMAIN delivered[q] :
            delivered[r][k] = delivered[q][k]

\* A call that returned was entered by every rank of the world ("return only
\* once every rank has called it").
EveryRankEntered ==
    \A r, q \in Ranks : Len(delivered[r]) <= entered[q]
=============================================================================
