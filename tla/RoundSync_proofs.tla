-------------------------- MODULE RoundSync_proofs --------------------------
(***************************************************************************)
(* Invariants of RoundSync for any set of participants, any limits of the  *)
(* protocol and any bounds: every member has its type, and the rounds of   *)
(* every node stay in order.                                               *)
(***************************************************************************)
EXTENDS RoundSync, Logic_proofs

\* The inductive invariant: every node is sound (Logic_proofs).
IInv ==
    /\ node \in [Node -> NodeType]
    /\ \A n \in Node : RoundsOK(node[n])
    /\ partitioned \in BOOLEAN
    /\ timers \in 0 .. MaxTimers
    /\ faults \in [Node -> SUBSET {"start", "stop"}]

LEMMA IInvInitially == Init => IInv
<1> SUFFICES ASSUME Init PROVE IInv
  OBVIOUS
<1>1. InitialNode \in NodeType
  <2>1. [r \in {} |-> NewEntry] \in Log
    <3>1. [r \in {} |-> NewEntry] \in [{} -> Entry]
      OBVIOUS
    <3> QED BY <3>1, FS_EmptySet DEF Log
  <2> QED BY <2>1, EmptyStateType DEF InitialNode, NodeType, Round, SeqNo
<1>2. RoundsOK(InitialNode)
  BY DEF InitialNode, RoundsOK
<1>3. node \in [Node -> NodeType] /\ \A n \in Node : RoundsOK(node[n])
  BY <1>1, <1>2 DEF Init
<1>4. timers \in 0 .. MaxTimers
  BY BoundsAssumption DEF Init
<1>5. partitioned \in BOOLEAN
  BY DEF Init
<1>6. faults \in [Node -> SUBSET {"start", "stop"}]
  BY DEF Init
<1> QED BY <1>3, <1>4, <1>5, <1>6 DEF IInv

\* A handler that leaves its node sound keeps the invariant; so do the events
\* that the simulator runs right after it.
LEMMA BecomesSound ==
  ASSUME IInv, NEW n \in Node, NEW s, Sound(s), Becomes(n, s), AtOnce \/ Later
  PROVE  IInv'
<1>1. Sound(After(s))
  BY RunDueEventsSound DEF After
<1>2. timers' \in 0 .. MaxTimers
  BY BoundsAssumption DEF IInv, AtOnce, Later
<1> QED BY <1>1, <1>2 DEF IInv, Becomes, Sound

\* An event that runs, or an Interest that is answered, is no longer pending.
LEMMA TakenSound ==
  ASSUME NEW s, Sound(s), NEW e
  PROVE  /\ Sound([s EXCEPT !.fish = @ \ {e}])
         /\ Sound([s EXCEPT !.announce = @ \ {e}])
         /\ Sound([s EXCEPT !.syncDue = @ \ {e}])
         /\ Sound([s EXCEPT !.produce = @ \ {e}])
         /\ Sound([s EXCEPT !.retry = @ \ {e}])
         /\ Sound([s EXCEPT !.recoDue = @ \ {e}])
         /\ Sound([s EXCEPT !.face = @ \ {e}])
         /\ Sound([s EXCEPT !.recoFace = @ \ {e}])
         /\ Sound([s EXCEPT !.reexpress = 0])
<1>0. s \in NodeType /\ RoundsOK(s)
  BY DEF Sound
<1>1. Sound([s EXCEPT !.fish = @ \ {e}])
  BY <1>0 DEF Sound, NodeType, RoundsOK
<1>2. Sound([s EXCEPT !.announce = @ \ {e}])
  BY <1>0 DEF Sound, NodeType, RoundsOK
<1>3. Sound([s EXCEPT !.syncDue = @ \ {e}])
  BY <1>0 DEF Sound, NodeType, RoundsOK
<1>4. Sound([s EXCEPT !.produce = @ \ {e}])
  BY <1>0 DEF Sound, NodeType, RoundsOK
<1>5. Sound([s EXCEPT !.retry = @ \ {e}])
  BY <1>0 DEF Sound, NodeType, RoundsOK
<1>6. Sound([s EXCEPT !.recoDue = @ \ {e}])
  BY <1>0 DEF Sound, NodeType, RoundsOK
<1>7. Sound([s EXCEPT !.face = @ \ {e}])
  BY <1>0 DEF Sound, NodeType, RoundsOK
<1>8. Sound([s EXCEPT !.recoFace = @ \ {e}])
  BY <1>0 DEF Sound, NodeType, RoundsOK
<1>9. Sound([s EXCEPT !.reexpress = 0])
  BY <1>0 DEF Sound, NodeType, RoundsOK, Round
<1> QED BY <1>1, <1>2, <1>3, <1>4, <1>5, <1>6, <1>7, <1>8, <1>9

\* What the network carries.
LEMMA NodeFacts ==
  ASSUME IInv, NEW n \in Node
  PROVE  /\ Sound(node[n]) /\ node[n] \in NodeType /\ RoundsOK(node[n])
         /\ node[n].currentRound \in Nat
         /\ node[n].seqNo \in SeqNo
         /\ node[n].sentData \in SUBSET Packet
         /\ node[n].sentReco \in SUBSET RecoData
         /\ node[n].sentSync \in SUBSET SyncInterest
         /\ node[n].asked \in SUBSET Round
         /\ node[n].face \in SUBSET Interest
         /\ node[n].recoFace \in SUBSET Node
         /\ node[n].recoDue \in SUBSET Node
         /\ node[n].fish \in SUBSET FishEvent
         /\ node[n].produce \in SUBSET ProduceEvent
         /\ node[n].retry \in SUBSET RetryEvent
         /\ node[n].announce \in SUBSET Round
         /\ node[n].syncDue \in SUBSET Round
<1>1. node[n] \in NodeType /\ RoundsOK(node[n])
  BY DEF IInv
<1> QED BY <1>1 DEF Sound, NodeType, Round

LEMMA PacketsType == ASSUME IInv PROVE Packets \in SUBSET Packet
  BY NodeFacts DEF Packets

\* In round 1 no recovery is pending.
LEMMA RecoveryAfterRoundOne ==
  ASSUME NEW s, Sound(s), s.retry # {} \/ s.recoDue # {} \/ s.recoFace # {}
  PROVE  s.currentRound >= 2
  BY DEF Sound, NodeType, RoundsOK, Round

----------------------------------------------------------------------------
(* One lemma for each kind of action. *)

LEMMA SchedulerKeepsIInv ==
  ASSUME IInv, NEW n \in Node
  PROVE  /\ Fish(n) => IInv'
         /\ Reexpress(n) => IInv'
         /\ Announce(n) => IInv'
         /\ SyncRound(n) => IInv'
         /\ Stabilize(n) => IInv'
         /\ ReportCumulative(n) => IInv'
         /\ RetryRecovery(n) => IInv'
         /\ AskRecovery(n) => IInv'
<1> DEFINE s == node[n]
<1>0. Sound(s) /\ s \in NodeType /\ RoundsOK(s) /\ s.currentRound \in Nat
  BY NodeFacts
<1>1. ASSUME Fish(n) PROVE IInv'
  <2>1. PICK f \in s.fish :
           /\ AtOnce
           /\ Becomes(n, SendDataInterest([s EXCEPT !.fish = @ \ {f}], {f},
                                          partitioned))
    BY <1>1 DEF Fish
  <2> DEFINE t == [s EXCEPT !.fish = @ \ {f}]
  <2>2. Sound(t) /\ t.currentRound = s.currentRound
    BY <1>0, TakenSound DEF NodeType
  <2>3. f \in FishEvent /\ f.round <= s.currentRound
    BY <1>0, NodeFacts DEF RoundsOK
  <2> HIDE DEF t
  <2>4. Sound(SendDataInterest(t, {f}, partitioned))
    BY <2>2, <2>3, SendDataInterestSound
  <2> QED BY <2>1, <2>4, BecomesSound DEF t
<1>2. ASSUME Reexpress(n) PROVE IInv'
  <2> DEFINE t == [s EXCEPT !.reexpress = 0]
             f == [round |-> s.reexpress, retries |-> 1]
  <2>1. AtOnce /\ Becomes(n, SendDataInterest(t, {f}, partitioned))
    BY <1>2 DEF Reexpress
  <2>2. Sound(t) /\ t.currentRound = s.currentRound
    BY <1>0, TakenSound DEF NodeType
  <2>3. f \in FishEvent /\ f.round <= s.currentRound
    BY <1>0 DEF RoundsOK, NodeType, FishEvent
  <2> HIDE DEF t, f
  <2>4. Sound(SendDataInterest(t, {f}, partitioned))
    BY <2>2, <2>3, SendDataInterestSound
  <2> QED BY <2>1, <2>4, BecomesSound
<1>3. ASSUME Announce(n) PROVE IInv'
  <2>1. PICK r \in s.announce :
           /\ AtOnce
           /\ Becomes(n, SendSyncInterest([s EXCEPT !.announce = @ \ {r}], {r},
                                          partitioned))
    BY <1>3 DEF Announce
  <2>2. Sound(SendSyncInterest([s EXCEPT !.announce = @ \ {r}], {r}, partitioned))
    BY <1>0, NodeFacts, TakenSound, SendSyncInterestSound
  <2> QED BY <2>1, <2>2, BecomesSound
<1>4. ASSUME SyncRound(n) PROVE IInv'
  <2>1. PICK r \in s.syncDue :
           /\ Later
           /\ Becomes(n, SendSyncInterest([s EXCEPT !.syncDue = @ \ {r}], {r},
                                          partitioned))
    BY <1>4 DEF SyncRound
  <2>2. Sound(SendSyncInterest([s EXCEPT !.syncDue = @ \ {r}], {r}, partitioned))
    BY <1>0, NodeFacts, TakenSound, SendSyncInterestSound
  <2> QED BY <2>1, <2>2, BecomesSound
<1>5. ASSUME Stabilize(n) PROVE IInv'
  BY <1>0, <1>5, SetStableStateSound, BecomesSound DEF Stabilize
<1>6. ASSUME ReportCumulative(n) PROVE IInv'
  <2>1. PICK e \in s.produce :
           /\ Later
           /\ Becomes(n, ProduceCumulativeOnly([s EXCEPT !.produce = @ \ {e}],
                                               n, e.round, e.cd))
    BY <1>6 DEF ReportCumulative
  <2>2. e.round \in Round /\ e.cd \in Option(Digest)
    BY NodeFacts DEF ProduceEvent
  <2>3. Sound(ProduceCumulativeOnly([s EXCEPT !.produce = @ \ {e}],
                                    n, e.round, e.cd))
    BY <1>0, <2>2, TakenSound, ProduceCumulativeOnlySound
  <2> QED BY <2>1, <2>3, BecomesSound
<1>7. ASSUME RetryRecovery(n) PROVE IInv'
  <2>1. PICK e \in s.retry :
           /\ Later
           /\ Becomes(n, CheckRecovery([s EXCEPT !.retry = @ \ {e}],
                                       e.from, e.round, e.cd))
    BY <1>7 DEF RetryRecovery
  <2> DEFINE t == [s EXCEPT !.retry = @ \ {e}]
  <2>2. e.from \in Node /\ e.round \in Round /\ e.cd \in Option(Digest)
    BY NodeFacts DEF RetryEvent
  <2>3. Sound(t) /\ t.currentRound = s.currentRound
    BY <1>0, TakenSound DEF NodeType
  <2>4. s.currentRound >= 2
    BY <1>0, RecoveryAfterRoundOne
  <2> HIDE DEF t
  <2>5. Sound(CheckRecovery(t, e.from, e.round, e.cd))
    BY <2>2, <2>3, <2>4, CheckRecoverySound
  <2> QED BY <2>1, <2>5, BecomesSound DEF t
<1>8. ASSUME AskRecovery(n) PROVE IInv'
  <2>1. PICK u \in s.recoDue :
           /\ AtOnce
           /\ Becomes(n, SendRecoInterest([s EXCEPT !.recoDue = @ \ {u}], {u},
                                          partitioned))
    BY <1>8 DEF AskRecovery
  <2> DEFINE t == [s EXCEPT !.recoDue = @ \ {u}]
  <2>2. Sound(t) /\ t.currentRound = s.currentRound
    BY <1>0, TakenSound DEF NodeType
  <2>3. s.currentRound >= 2 /\ u \in Node
    BY <1>0, NodeFacts, RecoveryAfterRoundOne
  <2> HIDE DEF t
  <2>4. Sound(SendRecoInterest(t, {u}, partitioned))
    BY <1>0, <2>2, <2>3, SendRecoInterestSound
  <2> QED BY <2>1, <2>4, BecomesSound DEF t
<1> QED BY <1>1, <1>2, <1>3, <1>4, <1>5, <1>6, <1>7, <1>8

LEMMA NetworkKeepsIInv ==
  ASSUME IInv, NEW n \in Node
  PROVE  /\ ReceiveDataInterest(n) => IInv'
         /\ ReceiveSyncInterest(n) => IInv'
         /\ ReceiveRecoInterest(n) => IInv'
         /\ ReceiveData(n) => IInv'
         /\ ReceiveRecoData(n) => IInv'
         /\ ReceiveDataAndPublish(n) => IInv'
         /\ ReceiveRecoDataAndPublish(n) => IInv'
<1> DEFINE s == node[n]
<1>0. Sound(s) /\ s \in NodeType /\ RoundsOK(s) /\ s.currentRound \in Nat
  BY NodeFacts
<1>1. ASSUME ReceiveDataInterest(n) PROVE IInv'
  <2>1. PICK m \in Node : \E r \in node[m].asked :
           AtOnce /\ Becomes(n, ProcessDataInterest(s, n, r))
    BY <1>1 DEF ReceiveDataInterest, DataInterestArrives
  <2>2. PICK r \in Round : AtOnce /\ Becomes(n, ProcessDataInterest(s, n, r))
    BY <2>1, NodeFacts
  <2> QED BY <1>0, <2>2, ProcessDataInterestSound, BecomesSound
<1>2. ASSUME ReceiveSyncInterest(n) PROVE IInv'
  <2>1. PICK m \in Node : \E i \in node[m].sentSync :
           AtOnce /\ Becomes(n, ProcessSyncInterest(s, i.round, i.rd))
    BY <1>2 DEF ReceiveSyncInterest, SyncInterestArrives
  <2>2. PICK i \in SyncInterest :
           AtOnce /\ Becomes(n, ProcessSyncInterest(s, i.round, i.rd))
    BY <2>1, NodeFacts
  <2>3. i.round \in Round
    BY DEF SyncInterest
  <2> QED BY <1>0, <2>2, <2>3, ProcessSyncInterestSound, BecomesSound
<1>3. ASSUME ReceiveRecoInterest(n) PROVE IInv'
  BY <1>0, <1>3, ProcessRecoInterestSound, BecomesSound DEF ReceiveRecoInterest
<1>4. ASSUME ReceiveData(n) PROVE IInv'
  <2>1. PICK i \in s.face, d \in Packets :
           /\ AtOnce /\ d.round = i.round
           /\ Becomes(n, IF partitioned THEN [s EXCEPT !.face = @ \ {i}]
                         ELSE ProcessData([s EXCEPT !.face = @ \ {i}], d))
    BY <1>4 DEF ReceiveData, DataArrives, Answers
  <2> DEFINE t == [s EXCEPT !.face = @ \ {i}]
  <2>2. Sound(t) /\ t.currentRound = s.currentRound
    BY <1>0, TakenSound DEF NodeType
  <2>3. d \in Packet /\ d.round <= s.currentRound
    BY <1>0, <2>1, PacketsType DEF RoundsOK
  <2> HIDE DEF t
  <2>4. Sound(ProcessData(t, d))
    BY <2>2, <2>3, ProcessDataSound
  <2> QED BY <2>1, <2>2, <2>4, BecomesSound DEF t
<1>5. ASSUME ReceiveRecoData(n) PROVE IInv'
  <2>1. PICK u \in s.recoFace : \E p \in node[u].sentReco :
           /\ AtOnce
           /\ Becomes(n, IF partitioned THEN [s EXCEPT !.recoFace = @ \ {u}]
                         ELSE ProcessRecoData([s EXCEPT !.recoFace = @ \ {u}],
                                              u, p.round, p.state))
    BY <1>5 DEF ReceiveRecoData
  <2> DEFINE t == [s EXCEPT !.recoFace = @ \ {u}]
  <2>2. u \in Node
    BY NodeFacts
  <2>3. PICK p \in RecoData :
           /\ AtOnce
           /\ Becomes(n, IF partitioned THEN t
                         ELSE ProcessRecoData(t, u, p.round, p.state))
    BY <2>1, <2>2, NodeFacts
  <2>4. Sound(t) /\ t.currentRound = s.currentRound
    BY <1>0, TakenSound DEF NodeType
  <2>5. s.currentRound >= 2
    BY <1>0, RecoveryAfterRoundOne
  <2>6. p.round \in Round /\ p.state \in State
    BY DEF RecoData
  <2> HIDE DEF t
  <2>7. Sound(ProcessRecoData(t, u, p.round, p.state))
    BY <2>2, <2>4, <2>5, <2>6, ProcessRecoDataSound
  <2> QED BY <2>3, <2>4, <2>7, BecomesSound
<1>6. ASSUME ReceiveDataAndPublish(n) PROVE IInv'
  <2>1. PICK i \in s.face, d \in Packets :
           /\ AtOnce /\ d.round = i.round
           /\ Notifies([s EXCEPT !.face = @ \ {i}], d)
           /\ Becomes(n, ProcessDataPublishing([s EXCEPT !.face = @ \ {i}], n, d))
    BY <1>6 DEF ReceiveDataAndPublish, DataArrivesAndPublish, Answers
  <2> DEFINE t == [s EXCEPT !.face = @ \ {i}]
  <2>2. Sound(t) /\ t.currentRound = s.currentRound
    BY <1>0, TakenSound DEF NodeType
  <2>3. d \in Packet /\ d.round <= s.currentRound
    BY <1>0, <2>1, PacketsType DEF RoundsOK
  <2> HIDE DEF t
  <2>4. ~TooOld(t, d)
    BY <2>1 DEF Notifies, t
  <2>5. Sound(ProcessDataPublishing(t, n, d))
    BY <2>2, <2>3, <2>4, ProcessDataPublishingSound
  <2> QED BY <2>1, <2>5, BecomesSound DEF t
<1>7. ASSUME ReceiveRecoDataAndPublish(n) PROVE IInv'
  <2>1. PICK u \in s.recoFace : \E p \in node[u].sentReco :
           /\ AtOnce
           /\ Becomes(n, ProcessRecoDataPublishing(
                            [s EXCEPT !.recoFace = @ \ {u}],
                            n, u, p.round, p.state))
    BY <1>7 DEF ReceiveRecoDataAndPublish
  <2> DEFINE t == [s EXCEPT !.recoFace = @ \ {u}]
  <2>2. u \in Node /\ s.currentRound >= 2
    BY <1>0, NodeFacts, RecoveryAfterRoundOne
  <2>3. PICK p \in RecoData :
           /\ AtOnce
           /\ Becomes(n, ProcessRecoDataPublishing(t, n, u, p.round, p.state))
    BY <2>1, <2>2, NodeFacts
  <2>4. Sound(t) /\ t.currentRound = s.currentRound
    BY <1>0, TakenSound DEF NodeType
  <2>5. p.round \in Round /\ p.state \in State
    BY DEF RecoData
  <2> HIDE DEF t
  <2>6. Sound(ProcessRecoDataPublishing(t, n, u, p.round, p.state))
    BY <2>2, <2>4, <2>5, ProcessRecoDataPublishingSound
  <2> QED BY <2>3, <2>6, BecomesSound
<1> QED BY <1>1, <1>2, <1>3, <1>4, <1>5, <1>6, <1>7

LEMMA TimeoutsKeepIInv ==
  ASSUME IInv, NEW n \in Node
  PROVE  /\ DataInterestTimeout(n) => IInv'
         /\ RecoInterestTimeout(n) => IInv'
<1> DEFINE s == node[n]
<1>0. Sound(s) /\ s \in NodeType
  BY NodeFacts
<1>1. ASSUME DataInterestTimeout(n) PROVE IInv'
  <2>1. PICK i \in s.face :
           /\ Later
           /\ Becomes(n, OnDataInterestTimeout([s EXCEPT !.face = @ \ {i}], i))
    BY <1>1 DEF DataInterestTimeout, DataInterestExpires
  <2>2. i \in Interest
    BY NodeFacts
  <2>3. Sound(OnDataInterestTimeout([s EXCEPT !.face = @ \ {i}], i))
    BY <1>0, <2>2, TakenSound, OnDataInterestTimeoutSound
  <2> QED BY <2>1, <2>3, BecomesSound
<1>2. ASSUME RecoInterestTimeout(n) PROVE IInv'
  <2>1. PICK u \in s.recoFace :
           /\ Later
           /\ Becomes(n, OnRecoInterestTimeout([s EXCEPT !.recoFace = @ \ {u}], u))
    BY <1>2 DEF RecoInterestTimeout
  <2> DEFINE t == [s EXCEPT !.recoFace = @ \ {u}]
  <2>2. Sound(t) /\ t.currentRound = s.currentRound
    BY <1>0, TakenSound DEF NodeType
  <2>3. u \in Node /\ s.currentRound >= 2
    BY <1>0, NodeFacts, RecoveryAfterRoundOne
  <2> HIDE DEF t
  <2>4. Sound(OnRecoInterestTimeout(t, u))
    BY <2>2, <2>3, OnRecoInterestTimeoutSound
  <2> QED BY <2>1, <2>4, BecomesSound DEF t
<1> QED BY <1>1, <1>2

----------------------------------------------------------------------------

LEMMA NextKeepsIInv == IInv /\ [Next]_vars => IInv'
<1> SUFFICES ASSUME IInv, [Next]_vars PROVE IInv'
  OBVIOUS
<1>1. CASE UNCHANGED vars
  BY <1>1 DEF IInv, vars
<1>2. CASE OutOfTimers
  BY <1>2 DEF IInv, vars, OutOfTimers
<1>3. ASSUME NEW n \in Node, Publish(n) PROVE IInv'
  <2>1. /\ node[n].seqNo + 1 \in SeqNo /\ AtOnce
        /\ Becomes(n, UpdateSeqNo(node[n], n, node[n].seqNo + 1))
    BY <1>3, NodeFacts DEF Publish, SeqNo
  <2>2. Sound(UpdateSeqNo(node[n], n, node[n].seqNo + 1))
    BY <2>1, NodeFacts, UpdateSeqNoSound
  <2> QED BY <2>1, <2>2, BecomesSound
<1>4. ASSUME NEW n \in Node, StartPartition(n) PROVE IInv'
  BY <1>4 DEF StartPartition, IInv
<1>5. ASSUME NEW n \in Node, StopPartition(n) PROVE IInv'
  BY <1>5 DEF StopPartition, IInv
<1> QED BY <1>1, <1>2, <1>3, <1>4, <1>5, SchedulerKeepsIInv, NetworkKeepsIInv,
           TimeoutsKeepIInv DEF Next

LEMMA IInvAlways == Spec => []IInv
<1> QED BY IInvInitially, NextKeepsIInv, PTL DEF Spec

\* The types of all members, events and packets, for any number of nodes and
\* rounds: the subtractions of sendRecoData (logic.cpp:1672) and setStableState
\* (761) never wrap.
THEOREM TypeCorrect == Spec => []TypeOK
<1>1. IInv => TypeOK
  <2> SUFFICES ASSUME IInv PROVE TypeOK
    OBVIOUS
  <2>1. ASSUME NEW n \in Node PROVE NodeOK(node[n])
    <3>1. node[n] \in NodeType
      BY DEF IInv
    <3>2. LogOK(node[n])
      BY <3>1, LogFacts DEF LogOK
    <3> QED BY <3>1, <3>2 DEF NodeOK, NodeType
  <2> QED BY <2>1 DEF IInv, TypeOK
<1> QED BY <1>1, IInvAlways, PTL

\* Stable, stabilizing and current round keep their order (logic.hpp:691-705)
\* through moves, stabilizations and recoveries, whatever the order of packets,
\* timers and partitions.
THEOREM RoundsInOrder == Spec => []RoundOrder
<1>1. IInv => RoundOrder
  BY DEF IInv, RoundOrder, RoundsOK, RoundsOrdered
<1> QED BY <1>1, IInvAlways, PTL
=============================================================================
