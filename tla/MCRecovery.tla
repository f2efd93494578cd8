----------------------------- MODULE MCRecovery -----------------------------
(***************************************************************************)
(* RoundSync from states that take many steps to reach.  LateSpec: a has   *)
(* published in rounds 1 and 2 and nobody asked for it; b has heard the    *)
(* digest of round 2, or those of both rounds, and moved on, and all its   *)
(* Interests have expired; a has stabilized both rounds and b only the     *)
(* first so far.  Asked for round 3 in vain, a may have reported its       *)
(* digest there.  If the limit is 1, hearing of round 2 only is a jump     *)
(* that is too far to fish.                                                *)
(* DivergedSpec: the same with one round, which both have stabilized.      *)
(* AgreedSpec: b has received what a published in round 1; a, hearing      *)
(* nothing more, has reported its digest in round 2, b has received the    *)
(* report, and both have stabilized both rounds.                           *)
(* CrossedSpec: the same, but b has published in round 2, where its        *)
(* publication and the report of a have crossed.                           *)
(* The state is the result of the handlers themselves, applied one after   *)
(* the other.                                                              *)
(***************************************************************************)
EXTENDS RoundSync

CONSTANTS a, b

ASSUME Node = {a, b}

\* The last retry for a round has expired.
Expired(s, r) ==
    OnDataInterestTimeout(
        [s EXCEPT !.face = {i \in @ : i.round # r}],
        [round |-> r, exclude |-> {}, retries |-> MaxDataTimeouts,
         own |-> FALSE])

Quiet(s) == Expired(Expired(Expired(s, 1), 2), 3)
Settle(s) == RunDueEvents(s, FALSE)

Started == Settle(InitialNode)
Published(s, n, q) == Settle(UpdateSeqNo(s, n, q))
Heard(s, r, rd) == Settle(ProcessSyncInterest(s, r, rd))

Answered(s, n, r) == Settle(ProcessDataInterest(s, n, r))
Received(s, d) == Settle(ProcessData(s, d))

Stable(s) == SetStableState(Quiet(s))

From(publisher, misser) ==
    /\ node = [n \in Node |-> IF n = a THEN publisher ELSE misser]
    /\ partitioned = FALSE
    /\ timers = 0
    /\ faults = [n \in Node |-> IF n \in FaultyNodes THEN {"start", "stop"}
                                ELSE {}]

HeardOne(s) == Heard(s, 1, Update(EmptyState, a, 1))
HeardTwo(s) == Heard(s, 2, Update(EmptyState, a, 2))

\* Node a answers an Interest for round r, hears nothing for it, and the only
\* report that is scheduled goes out.
Reported(s) ==
    LET e == The(s.produce)
    IN  Settle(ProduceCumulativeOnly([s EXCEPT !.produce = {}], a,
                                     e.round, e.cd))
Reporting(s, r) == Reported(Expired(Answered(s, a, r), r))
Reports(s) == {d \in s.sentData : d.seq = CumulativeOnlyData}

Late == SetStableState(Stable(Published(Published(Started, a, 1), a, 2)))

LateSpec ==
    /\ \E publisher \in {Late, Reporting(Late, 3)} :
          \E moved \in {HeardTwo(Started), HeardTwo(HeardOne(Started))} :
              From(publisher, Stable(moved))
    /\ [][Next]_vars

Ahead == Stable(Published(Started, a, 1))
Behindhand == Stable(HeardOne(Started))

DivergedSpec == From(Ahead, Behindhand) /\ [][Next]_vars

First == Stable(Answered(Published(Started, a, 1), a, 1))
Second == Reporting(First, 2)

Told == Stable(Received(Started, The(First.sentData)))

StableTwice(s) == SetStableState(SetStableState(s))

AgreedSpec ==
    /\ From(StableTwice(Second),
            StableTwice(Received(Told, The(Reports(Second)))))
    /\ [][Next]_vars

CrossedSpec ==
    /\ LET answer == Answered(Published(Told, b, 1), b, 2)
           settled(s) == StableTwice(Expired(s, 2))
       IN  From(settled(Received(Second, The(answer.sentData))),
                settled(Received(answer, The(Reports(Second)))))
    /\ [][Next]_vars
=============================================================================
