-------------------------- MODULE Scheduler_proofs --------------------------
(***************************************************************************)
(* Until the first partition begins, no node stops asking for its current  *)
(* round, and no recovery stays pending without an Interest that can end   *)
(* it: for any set of participants, that is with one counter of timeouts   *)
(* for the Reco Interests to all of them, any limits and any bounds.       *)
(* On top of it: until then no node forgets a round it has moved past.     *)
(***************************************************************************)
EXTENDS RoundSync_proofs

\* The members the two properties are about.
Watched == {"currentRound", "reexpress", "pendingReco", "recoDue", "recoFace"}

Asking(s) == s.reexpress = s.currentRound

Balanced(s) == /\ s.pendingReco = s.recoDue \cup s.recoFace
               /\ s.recoDue \cap s.recoFace = {}

\* The inductive invariant of a node.
Busy(s) == Watched \subseteq DOMAIN s /\ Asking(s) /\ Balanced(s)

BeforePartitions ==
    faults = [n \in Node |-> IF n \in FaultyNodes THEN {"start", "stop"} ELSE {}]

\* All nodes, as long as no timer of a partition has fired; one that has is
\* not pending again.
BInv ==
    /\ faults = [n \in Node |-> faults[n]]
    /\ \A n \in Node \ FaultyNodes : faults[n] = {}
    /\ BeforePartitions
          => /\ ~partitioned
             /\ node = [n \in Node |-> node[n]]
             /\ \A n \in Node : Busy(node[n])

----------------------------------------------------------------------------
(* Each method leaves a busy node busy. *)

LEMMA MoveBusy ==
  ASSUME NEW s, Busy(s), NEW r
  PROVE  /\ Busy(MoveToNewCurrentRound(s, r))
         /\ Busy(MoveToNewCurrentRoundAfterRecovery(s, r))
         /\ Busy(RoundUsed(s))
<1>1. Busy(MoveToNewCurrentRound(s, r))
  BY DEF Busy, Watched, Asking, Balanced, MoveToNewCurrentRound, GoFishing
<1>2. Busy(MoveToNewCurrentRoundAfterRecovery(s, r))
  BY DEF Busy, Watched, Asking, Balanced, MoveToNewCurrentRoundAfterRecovery
<1>3. Busy(RoundUsed(s))
  BY DEF Busy, Watched, Asking, Balanced, MoveToNewCurrentRound, GoFishing,
         RoundUsed
<1> QED BY <1>1, <1>2, <1>3

\* Entries, packets, reports and what else is none of the members watched.
LEMMA LogBusy ==
  ASSUME NEW s, Busy(s), NEW r, NEW e
  PROVE  Busy(PutEntry(s, r, e)) /\ Busy(UpdateDiffLog(s, r, e))
  BY DEF Busy, Watched, Asking, Balanced, PutEntry, UpdateDiffLog

LEMMA CrashBusy == ASSUME NEW s, Busy(s) PROVE Busy(Crash(s))
  BY DEF Busy, Watched, Asking, Balanced, Crash

LEMMA SendBusy ==
  ASSUME NEW s, Busy(s), NEW n, NEW r, NEW q, NEW info, NEW name, NEW cd
  PROVE  /\ Busy(SendData(s, n, r, q, info))
         /\ Busy(SendCumulativeOnly(s, n, name, r, cd))
<1>1. ASSUME NEW t, Busy(t), NEW d PROVE Busy(PutData(t, d))
  BY <1>1 DEF Busy, Watched, Asking, Balanced, PutData
<1>2. ASSUME NEW d PROVE Busy(ExcludeCumulativeOnly(s, d, r))
  BY LogBusy DEF ExcludeCumulativeOnly
<1>3. Busy(SendData(s, n, r, q, info))
  BY <1>1, CrashBusy DEF SendData
<1>4. Busy(SendCumulativeOnly(s, n, name, r, cd))
  BY <1>1, <1>2, CrashBusy DEF SendCumulativeOnly
<1> QED BY <1>3, <1>4

LEMMA RecoveryBusy ==
  ASSUME NEW s, Busy(s), NEW u, NEW r, NEW cd
  PROVE  /\ Busy(ScheduleCumulativeOnly(s, r, cd))
         /\ Busy(DoRecovery(s, u, r, cd))
         /\ Busy(CheckRecovery(s, u, r, cd))
<1>1. ASSUME NEW t, Busy(t), NEW c PROVE Busy(ScheduleCumulativeOnly(t, r, c))
  BY <1>1 DEF Busy, Watched, Asking, Balanced, ScheduleCumulativeOnly
<1>2. ASSUME NEW mine PROVE Busy(DoRecovery(s, u, r, mine))
  <2> DEFINE asked == [s EXCEPT
                         !.recoDue = IF u \in s.pendingReco THEN @ ELSE @ \cup {u},
                         !.pendingReco = @ \cup {u},
                         !.recoveryDesired = FALSE]
  <2>1. Busy(asked)
    BY DEF Busy, Watched, Asking, Balanced
  <2> HIDE DEF asked
  <2>2. Busy(IF mine = {} THEN asked ELSE ScheduleCumulativeOnly(asked, r, mine))
    BY <1>1, <2>1
  <2> QED BY <2>2 DEF DoRecovery, asked
<1>3. Busy(CancelCumulativeOnly(s, cd))
  BY DEF Busy, Watched, Asking, Balanced, CancelCumulativeOnly
<1>4. Busy(RetryLater(s, u, r, cd))
  BY DEF Busy, Watched, Asking, Balanced, RetryLater
<1>5. Busy(CheckStable(s, u, r, cd))
  BY <1>2, CrashBusy DEF CheckStable
<1> QED BY <1>1, <1>2, <1>3, <1>4, <1>5 DEF CheckRecovery

LEMMA PublicationBusy ==
  ASSUME NEW s, Busy(s), NEW n, NEW r, NEW q, NEW cd
  PROVE  /\ Busy(UpdateSeqNo(s, n, q))
         /\ Busy(ProduceCumulativeOnly(s, n, r, cd))
<1>1. ASSUME NEW t, Busy(t)
      PROVE  /\ Busy([t EXCEPT !.pendingDataInterest = 0])
             /\ Busy([t EXCEPT !.announce = @ \cup {s.currentRound}])
             /\ Busy([t EXCEPT !.seqNo = q])
             /\ Busy([t EXCEPT !.seqNo = q, !.state = Update(@, n, q)])
  BY <1>1 DEF Busy, Watched, Asking, Balanced
<1>2. Busy(UpdateSeqNo(s, n, q))
  <2> DEFINE c == s.currentRound
             info == StableInfo(s)
             commit == [NewEntry EXCEPT !.leaves = Update(EmptyState, n, q),
                                        !.info = info]
             known == [s EXCEPT !.seqNo = q, !.state = Update(@, n, q)]
             logged == UpdateDiffLog(known, c, commit)
             d == [round |-> c, session |-> n, seq |-> q, info |-> info]
             excluded == IF c \in LoggedRounds(s) THEN logged
                         ELSE PutEntry(logged, c,
                                [logged.log[c] EXCEPT !.exclude = {d}])
             sent == IF AnswersPending(s)
                     THEN [SendData(excluded, n, c, q, info)
                             EXCEPT !.pendingDataInterest = 0]
                     ELSE logged
  <2>1. Busy(logged)
    BY <1>1, LogBusy
  <2>2. Busy(excluded)
    BY <2>1, LogBusy
  <2>3. Busy(sent)
    BY <1>1, <2>1, <2>2, SendBusy
  <2> HIDE DEF sent
  <2>4. Busy(RoundUsed([sent EXCEPT !.announce = @ \cup {c}]))
    BY <1>1, <2>3, MoveBusy
  <2> QED BY <1>1, <2>4 DEF UpdateSeqNo, sent
<1>3. Busy(ProduceCumulativeOnly(s, n, r, cd))
  BY <1>1, SendBusy, LogBusy, MoveBusy DEF ProduceCumulativeOnly
<1> QED BY <1>2, <1>3

LEMMA InterestsInBusy ==
  ASSUME NEW s, Busy(s), NEW n, NEW r, NEW rd
  PROVE  /\ Busy(ProcessDataInterest(s, n, r))
         /\ Busy(ProcessSyncInterest(s, r, rd))
         /\ Busy(ProcessRecoInterest(s))
<1>1. Busy([s EXCEPT !.pendingDataInterest = r])
  BY DEF Busy, Watched, Asking, Balanced
<1>2. Busy(AnswerFromLog(s, n, r))
  BY SendBusy, CrashBusy DEF AnswerFromLog
<1>3. Busy(CheckRoundDigests(s, r, rd))
  BY DEF Busy, Watched, Asking, Balanced, CheckRoundDigests, GoFishing
<1>4. Busy(ProcessRecoInterest(s))
  BY DEF Busy, Watched, Asking, Balanced, ProcessRecoInterest
<1> QED BY <1>1, <1>2, <1>3, <1>4, MoveBusy
        DEF ProcessDataInterest, ProcessSyncInterest

LEMMA DataInBusy ==
  ASSUME NEW s, Busy(s), NEW n, NEW d
  PROVE  Busy(ProcessData(s, d)) /\ Busy(ProcessDataPublishing(s, n, d))
<1>1. ASSUME NEW t, Busy(t) PROVE Busy([t EXCEPT !.syncDue = @ \cup {d.round}])
  BY <1>1 DEF Busy, Watched, Asking, Balanced
<1>2. ASSUME NEW t, Busy(t) PROVE Busy(ApplyLeaf(t, d))
  BY <1>2 DEF Busy, Watched, Asking, Balanced, ApplyLeaf
<1>3. Busy(Applied(s, d))
  BY <1>2, RecoveryBusy DEF Applied
<1>4. ASSUME NEW t, Busy(t) PROVE Busy(MoveAfter(t, d))
  BY <1>4, MoveBusy DEF MoveAfter
<1>5. Busy(ProcessData(s, d))
  BY <1>1, <1>3, <1>4, LogBusy DEF ProcessData
<1>6. Busy(ProcessDataPublishing(s, n, d))
  BY <1>1, <1>3, <1>4, LogBusy, PublicationBusy DEF ProcessDataPublishing
<1> QED BY <1>5, <1>6

LEMMA StabilizeBusy == ASSUME NEW s, Busy(s) PROVE Busy(SetStableState(s))
  BY CrashBusy DEF Busy, Watched, Asking, Balanced, SetStableState,
                   CalculateStableStateAndCumulativeDigests

LEMMA DataTimeoutBusy ==
  ASSUME NEW s, Busy(s), NEW i
  PROVE  Busy(OnDataInterestTimeout(s, i))
<1>1. ASSUME NEW q PROVE Busy([s EXCEPT !.dataTimeouts = q])
  BY DEF Busy, Watched, Asking, Balanced
<1>2. Busy(OnQuiet(s))
  BY <1>1, RecoveryBusy DEF OnQuiet
<1>3. ASSUME NEW t, Busy(t), NEW f PROVE Busy([t EXCEPT !.fish = @ \cup f])
  BY <1>3 DEF Busy, Watched, Asking, Balanced
<1> QED BY <1>2, <1>3 DEF OnDataInterestTimeout

\* The answer, or the timeout, takes the Interest off the face, and with it the
\* mark: unless the Interest is to be sent again.
LEMMA RecoInBusy ==
  ASSUME NEW s, Busy(s), NEW n, NEW u \in s.recoFace, NEW r, NEW st
  PROVE  LET t == [s EXCEPT !.recoFace = @ \ {u}]
         IN  /\ Busy(ProcessRecoData(t, u, r, st))
             /\ Busy(ProcessRecoDataPublishing(t, n, u, r, st))
             /\ Busy(OnRecoInterestTimeout(t, u))
<1> DEFINE t == [s EXCEPT !.recoFace = @ \ {u}]
<1>1. Busy(Merged(t, u, st))
  BY DEF Busy, Watched, Asking, Balanced, Merged
<1>2. Busy(OnRecoInterestTimeout(t, u))
  BY DEF Busy, Watched, Asking, Balanced, OnRecoInterestTimeout
<1>3. ASSUME NEW m, Busy(m) PROVE Busy(Resume(m, r))
  <2>1. ASSUME NEW q PROVE Busy([m EXCEPT !.lastRecoveryRound = q])
    BY <1>3 DEF Busy, Watched, Asking, Balanced
  <2>2. ASSUME NEW q
        PROVE  Busy([MoveToNewCurrentRoundAfterRecovery(m, r + 1)
                       EXCEPT !.lastRecoveryRound = q])
    BY <1>3 DEF Busy, Watched, Asking, Balanced,
                MoveToNewCurrentRoundAfterRecovery
  <2>3. Busy(CatchUp(m, r))
    BY <2>1, <2>2 DEF CatchUp
  <2>4. ASSUME NEW c, Busy(c), NEW R PROVE Busy(Unstabilize(GoFishing(c, R)))
    BY <2>4 DEF Busy, Watched, Asking, Balanced, Unstabilize, GoFishing
  <2> QED BY <2>3, <2>4 DEF Resume
<1>4. Busy(ProcessRecoData(t, u, r, st))
  BY <1>1, <1>3 DEF ProcessRecoData
<1>5. Busy(ProcessRecoDataPublishing(t, n, u, r, st))
  BY <1>1, <1>3, PublicationBusy DEF ProcessRecoDataPublishing
<1> QED BY <1>2, <1>4, <1>5

----------------------------------------------------------------------------
(* What is sent outside a partition. *)

LEMMA InterestsOutBusy ==
  ASSUME NEW s, Busy(s), NEW F, NEW R
  PROVE  /\ Busy(SendDataInterest(s, F, FALSE))
         /\ Busy(SendSyncInterest(s, R, FALSE))
<1>1. Busy(SendDataInterest(s, F, FALSE))
  BY DEF Busy, Watched, Asking, Balanced, SendDataInterest
<1>2. Busy(SendSyncInterest(s, R, FALSE))
  BY DEF Busy, Watched, Asking, Balanced, SendSyncInterest
<1> QED BY <1>1, <1>2

\* The periodic event schedules the next.
LEMMA ReexpressBusy ==
  ASSUME NEW s, Busy(s)
  PROVE  Busy(SendDataInterest([s EXCEPT !.reexpress = 0],
                               {[round |-> s.reexpress, retries |-> 1]}, FALSE))
  BY DEF Busy, Watched, Asking, Balanced, SendDataInterest

LEMMA AskRecoveryBusy ==
  ASSUME NEW s, Busy(s), NEW u \in s.recoDue
  PROVE  Busy(SendRecoInterest([s EXCEPT !.recoDue = @ \ {u}], {u}, FALSE))
  BY DEF Busy, Watched, Asking, Balanced, SendRecoInterest

LEMMA RunDueEventsBusy ==
  ASSUME NEW s, Busy(s)
  PROVE  Busy(RunDueEvents(s, FALSE))
<1> DEFINE first == FirstInterest(s)
           run == [s EXCEPT !.fish = {}, !.announce = {}, !.recoDue = {},
                            !.reexpress = IF first = {} THEN @ ELSE 0]
           asked == SendRecoInterest(run, s.recoDue, FALSE)
           told == SendSyncInterest(asked, s.announce, FALSE)
<1>1. /\ Watched \subseteq DOMAIN told
      /\ Balanced(told)
      /\ told.currentRound = s.currentRound
      /\ told.reexpress = IF first = {} THEN s.reexpress ELSE 0
  BY DEF Busy, Watched, Balanced, SendRecoInterest, SendSyncInterest
<1>2. first # {} => \E f \in first : f.round = s.currentRound
  BY DEF FirstInterest, Busy, Asking
<1> HIDE DEF told, first
<1>3. Busy(SendDataInterest(told, s.fish \cup first, FALSE))
  BY <1>1, <1>2 DEF Busy, Watched, Asking, Balanced, SendDataInterest
<1> QED BY <1>3 DEF RunDueEvents, told, first

----------------------------------------------------------------------------
(* Every action. *)

LEMMA BInvInitially == Init => BInv
<1> SUFFICES ASSUME Init PROVE BInv
  OBVIOUS
<1>1. Busy(InitialNode)
  BY DEF Busy, Watched, Asking, Balanced, InitialNode
<1> QED BY <1>1 DEF Init, BInv

\* A handler that leaves its node busy keeps the invariant; so do the events
\* that the simulator runs right after it.
LEMMA BecomesBusy ==
  ASSUME BInv, NEW n \in Node, NEW s, Becomes(n, s),
         BeforePartitions => Busy(s)
  PROVE  BInv'
<1> SUFFICES ASSUME BeforePartitions' PROVE BInv'
  BY DEF BInv, Becomes
<1>1. BeforePartitions /\ partitioned = FALSE /\ partitioned' = FALSE
  BY DEF Becomes, BeforePartitions, BInv
<1>2. Busy(After(s))
  BY <1>1, RunDueEventsBusy DEF After
<1>3. \A m \in Node : Busy(node[m])
  BY <1>1 DEF BInv
<1>4. node' = [m \in Node |-> IF m = n THEN After(s) ELSE node[m]]
  BY <1>1 DEF BInv, Becomes
<1> QED BY <1>1, <1>2, <1>3, <1>4 DEF BInv, Becomes

\* An event that runs, or a Data Interest that is answered or expires.
LEMMA TakenBusy ==
  ASSUME NEW s, Busy(s), NEW e
  PROVE  /\ Busy([s EXCEPT !.fish = @ \ {e}])
         /\ Busy([s EXCEPT !.announce = @ \ {e}])
         /\ Busy([s EXCEPT !.syncDue = @ \ {e}])
         /\ Busy([s EXCEPT !.produce = @ \ {e}])
         /\ Busy([s EXCEPT !.retry = @ \ {e}])
         /\ Busy([s EXCEPT !.face = @ \ {e}])
  BY DEF Busy, Watched, Asking, Balanced

LEMMA BusyNode ==
  ASSUME BInv, BeforePartitions, NEW n \in Node
  PROVE  Busy(node[n]) /\ partitioned = FALSE
  BY DEF BInv

LEMMA SchedulerKeepsBInv ==
  ASSUME BInv, NEW n \in Node
  PROVE  /\ Fish(n) => BInv'
         /\ Reexpress(n) => BInv'
         /\ Announce(n) => BInv'
         /\ SyncRound(n) => BInv'
         /\ Stabilize(n) => BInv'
         /\ ReportCumulative(n) => BInv'
         /\ RetryRecovery(n) => BInv'
         /\ AskRecovery(n) => BInv'
<1>1. ASSUME Fish(n) PROVE BInv'
  BY <1>1, BusyNode, TakenBusy, InterestsOutBusy, BecomesBusy DEF Fish
<1>2. ASSUME Reexpress(n) PROVE BInv'
  BY <1>2, BusyNode, ReexpressBusy, BecomesBusy DEF Reexpress
<1>3. ASSUME Announce(n) PROVE BInv'
  BY <1>3, BusyNode, TakenBusy, InterestsOutBusy, BecomesBusy DEF Announce
<1>4. ASSUME SyncRound(n) PROVE BInv'
  BY <1>4, BusyNode, TakenBusy, InterestsOutBusy, BecomesBusy DEF SyncRound
<1>5. ASSUME Stabilize(n) PROVE BInv'
  BY <1>5, BusyNode, StabilizeBusy, BecomesBusy DEF Stabilize
<1>6. ASSUME ReportCumulative(n) PROVE BInv'
  BY <1>6, BusyNode, TakenBusy, PublicationBusy, BecomesBusy
     DEF ReportCumulative
<1>7. ASSUME RetryRecovery(n) PROVE BInv'
  BY <1>7, BusyNode, TakenBusy, RecoveryBusy, BecomesBusy DEF RetryRecovery
<1>8. ASSUME AskRecovery(n) PROVE BInv'
  BY <1>8, BusyNode, AskRecoveryBusy, BecomesBusy DEF AskRecovery
<1> QED BY <1>1, <1>2, <1>3, <1>4, <1>5, <1>6, <1>7, <1>8

LEMMA NetworkKeepsBInv ==
  ASSUME BInv, NEW n \in Node
  PROVE  /\ ReceiveDataInterest(n) => BInv'
         /\ ReceiveSyncInterest(n) => BInv'
         /\ ReceiveRecoInterest(n) => BInv'
         /\ ReceiveData(n) => BInv'
         /\ ReceiveRecoData(n) => BInv'
         /\ ReceiveDataAndPublish(n) => BInv'
         /\ ReceiveRecoDataAndPublish(n) => BInv'
<1>1. ASSUME ReceiveDataInterest(n) PROVE BInv'
  BY <1>1, BusyNode, InterestsInBusy, BecomesBusy
     DEF ReceiveDataInterest, DataInterestArrives
<1>2. ASSUME ReceiveSyncInterest(n) PROVE BInv'
  BY <1>2, BusyNode, InterestsInBusy, BecomesBusy
     DEF ReceiveSyncInterest, SyncInterestArrives
<1>3. ASSUME ReceiveRecoInterest(n) PROVE BInv'
  BY <1>3, BusyNode, InterestsInBusy, BecomesBusy DEF ReceiveRecoInterest
<1>4. ASSUME ReceiveData(n) PROVE BInv'
  BY <1>4, BusyNode, TakenBusy, DataInBusy, BecomesBusy
     DEF ReceiveData, DataArrives
<1>5. ASSUME ReceiveRecoData(n) PROVE BInv'
  BY <1>5, BusyNode, RecoInBusy, BecomesBusy DEF ReceiveRecoData
<1>6. ASSUME ReceiveDataAndPublish(n) PROVE BInv'
  BY <1>6, BusyNode, TakenBusy, DataInBusy, BecomesBusy
     DEF ReceiveDataAndPublish, DataArrivesAndPublish
<1>7. ASSUME ReceiveRecoDataAndPublish(n) PROVE BInv'
  BY <1>7, BusyNode, RecoInBusy, BecomesBusy DEF ReceiveRecoDataAndPublish
<1> QED BY <1>1, <1>2, <1>3, <1>4, <1>5, <1>6, <1>7

\* Once the timer of a partition has fired it is not pending again.
LEMMA PartitionsBegun ==
  ASSUME BInv, NEW n \in Node, StartPartition(n) \/ StopPartition(n)
  PROVE  ~BeforePartitions'
<1>1. n \in FaultyNodes /\ faults' = [m \in Node |-> faults'[m]]
  BY DEF StartPartition, StopPartition, BInv
<1>2. faults'[n] # {"start", "stop"}
  BY <1>1 DEF StartPartition, StopPartition, BInv
<1> QED BY <1>1, <1>2 DEF BeforePartitions

LEMMA NextKeepsBInv == BInv /\ [Next]_vars => BInv'
<1> SUFFICES ASSUME BInv, [Next]_vars PROVE BInv'
  OBVIOUS
<1>1. CASE UNCHANGED vars
  BY <1>1 DEF BInv, BeforePartitions, vars
<1>2. CASE OutOfTimers
  BY <1>2 DEF BInv, BeforePartitions, vars, OutOfTimers
<1>3. ASSUME NEW n \in Node, Publish(n) PROVE BInv'
  BY <1>3, BusyNode, PublicationBusy, BecomesBusy DEF Publish
<1>4. ASSUME NEW n \in Node, DataInterestTimeout(n) PROVE BInv'
  BY <1>4, BusyNode, TakenBusy, DataTimeoutBusy, BecomesBusy
     DEF DataInterestTimeout, DataInterestExpires
<1>5. ASSUME NEW n \in Node, RecoInterestTimeout(n) PROVE BInv'
  BY <1>5, BusyNode, RecoInBusy, BecomesBusy DEF RecoInterestTimeout
<1>6. ASSUME NEW n \in Node, StartPartition(n) \/ StopPartition(n)
      PROVE  BInv'
  <2>1. /\ faults' = [m \in Node |-> faults'[m]]
        /\ \A m \in Node \ FaultyNodes : faults'[m] = {}
    BY <1>6 DEF StartPartition, StopPartition, BInv
  <2> QED BY <1>6, <2>1, PartitionsBegun DEF BInv
<1> QED BY <1>1, <1>2, <1>3, <1>4, <1>5, <1>6, SchedulerKeepsBInv,
           NetworkKeepsBInv DEF Next

LEMMA BInvAlways == Spec => []BInv
<1> QED BY BInvInitially, NextKeepsBInv, PTL DEF Spec

\* A node goes on expressing Data Interests for its current round, and only for
\* that one, whatever moves it to another round, until a partition begins.
THEOREM AsksUntilPartition == Spec => [](BeforePartitions => KeepsAsking)
<1>1. BInv => (BeforePartitions => KeepsAsking)
  BY DEF BInv, Busy, Asking, KeepsAsking
<1> QED BY <1>1, BInvAlways, PTL

\* Until a partition begins, a prefix is marked pending exactly as long as a
\* Reco Interest to it is due or out: the counter that the prefixes share, and
\* a success that does not reset it, never leave a mark behind.
THEOREM RecoveriesEndUntilPartition ==
  Spec => [](BeforePartitions => RecoveryUnderWay)
<1>1. BInv => (BeforePartitions => RecoveryUnderWay)
  BY DEF BInv, Busy, Balanced, RecoveryUnderWay
<1> QED BY <1>1, BInvAlways, PTL

----------------------------------------------------------------------------
(* No round is forgotten. *)

\* The members SkippedIsSought is about.
Traced == {"currentRound", "stableRound", "lastRecoveryRound", "log", "asked",
           "fish", "recoveryDesired", "recoDue", "recoFace", "recoAsked"}

\* Its inductive invariant of a node.
Mindful(s) ==
    /\ Traced \subseteq DOMAIN s
    /\ s.currentRound \in Nat
    /\ RoundsSought(s)
    /\ s.recoFace # {} => s.recoAsked # {}

----------------------------------------------------------------------------
(* Each method leaves a mindful node mindful. *)

LEMMA MoveMindful ==
  ASSUME NEW s, Mindful(s), NEW r \in Nat
  PROVE  Mindful(MoveToNewCurrentRound(s, r))
<1> DEFINE t == MoveToNewCurrentRound(s, r)
<1>1. Traced \subseteq DOMAIN t /\ t.currentRound = r
  BY DEF Mindful, Traced, MoveToNewCurrentRound, GoFishing
<1>2. CASE TooFar(s, r)
  <2>1. /\ t.recoveryDesired = TRUE
        /\ t.recoFace = s.recoFace /\ t.recoAsked = s.recoAsked
    BY <1>2 DEF Mindful, Traced, MoveToNewCurrentRound
  <2> QED BY <1>1, <2>1 DEF Mindful, RoundsSought, RecoverySought
<1>3. CASE ~TooFar(s, r)
  <2>1. /\ t.log = s.log /\ t.asked = s.asked
        /\ t.stableRound = s.stableRound
        /\ t.lastRecoveryRound = s.lastRecoveryRound
        /\ t.recoveryDesired = s.recoveryDesired
        /\ t.recoDue = s.recoDue /\ t.recoAsked = s.recoAsked
        /\ t.recoFace = s.recoFace
        /\ t.fish = s.fish \cup {[round |-> q, retries |-> 1] :
                                   q \in s.currentRound .. (r - 1)}
    BY <1>3 DEF Mindful, Traced, MoveToNewCurrentRound, GoFishing
  <2>2. ASSUME NEW q \in 1 .. (r - 1),
               q > t.stableRound /\ q > t.lastRecoveryRound
        PROVE  Sought(t, q) \/ RecoverySought(t)
    <3>1. CASE q < s.currentRound
      BY <2>1, <2>2, <3>1 DEF Mindful, RoundsSought, Sought, RecoverySought,
                              LoggedRounds
    <3>2. CASE q >= s.currentRound
      <4>1. [round |-> q, retries |-> 1] \in t.fish
        BY <2>1, <3>2 DEF Mindful
      <4> QED BY <4>1 DEF Sought
    <3> QED BY <3>1, <3>2 DEF Mindful
  <2> QED BY <1>1, <2>1, <2>2 DEF Mindful, RoundsSought
<1> QED BY <1>2, <1>3

\* What a method may do without forgetting a round.
Keeps(s, t) ==
    /\ Traced \subseteq DOMAIN t
    /\ t.currentRound = s.currentRound
    /\ t.stableRound = s.stableRound /\ t.lastRecoveryRound = s.lastRecoveryRound
    /\ \A q : Sought(s, q) => Sought(t, q)
    /\ RecoverySought(s) => RecoverySought(t)
    /\ t.recoFace # {} => t.recoAsked # {}

LEMMA KeepsMindful ==
  ASSUME NEW s, Mindful(s), NEW t, Keeps(s, t)
  PROVE  Mindful(t)
  BY DEF Mindful, Keeps, RoundsSought

LEMMA LogMindful ==
  ASSUME NEW s, Mindful(s), NEW r, NEW e
  PROVE  Mindful(PutEntry(s, r, e)) /\ Mindful(UpdateDiffLog(s, r, e))
<1>1. ASSUME NEW f PROVE Mindful(PutEntry(s, r, f))
  <2>1. Keeps(s, PutEntry(s, r, f))
    BY DEF Mindful, Traced, Keeps, Sought, RecoverySought, PutEntry, LoggedRounds
  <2> QED BY <2>1, KeepsMindful
<1> QED BY <1>1 DEF UpdateDiffLog

LEMMA CrashMindful == ASSUME NEW s, Mindful(s) PROVE Mindful(Crash(s))
  BY DEF Mindful, Traced, RoundsSought, Sought, RecoverySought, LoggedRounds, Crash

\* Members that are not traced.
LEMMA OtherMindful ==
  ASSUME NEW s, Mindful(s), NEW v
  PROVE  /\ Mindful([s EXCEPT !.pendingDataInterest = v])
         /\ Mindful([s EXCEPT !.announce = v])
         /\ Mindful([s EXCEPT !.seqNo = v])
         /\ Mindful([s EXCEPT !.state = v])
         /\ Mindful([s EXCEPT !.syncDue = v])
         /\ Mindful([s EXCEPT !.face = v])
         /\ Mindful([s EXCEPT !.recoFace = @ \ v])
         /\ Mindful([s EXCEPT !.produce = v])
         /\ Mindful([s EXCEPT !.retry = v])
         /\ Mindful([s EXCEPT !.dataTimeouts = v])
         /\ Mindful([s EXCEPT !.reexpress = v])
  BY DEF Mindful, Traced, RoundsSought, Sought, RecoverySought, LoggedRounds

LEMMA FishMindful ==
  ASSUME NEW s, Mindful(s), NEW F
  PROVE  Mindful([s EXCEPT !.fish = @ \cup F])
<1>1. Keeps(s, [s EXCEPT !.fish = @ \cup F])
  BY DEF Mindful, Traced, Keeps, Sought, RecoverySought, LoggedRounds
<1> QED BY <1>1, KeepsMindful

LEMMA SendMindful ==
  ASSUME NEW s, Mindful(s), NEW n, NEW r, NEW q, NEW info, NEW name, NEW cd
  PROVE  /\ Mindful(SendData(s, n, r, q, info))
         /\ Mindful(SendCumulativeOnly(s, n, name, r, cd))
<1>1. ASSUME NEW t, Mindful(t), NEW d PROVE Mindful(PutData(t, d))
  BY <1>1 DEF Mindful, Traced, RoundsSought, Sought, RecoverySought, LoggedRounds,
              PutData
<1>2. ASSUME NEW d PROVE Mindful(ExcludeCumulativeOnly(s, d, r))
  BY LogMindful DEF ExcludeCumulativeOnly
<1>3. Mindful(SendData(s, n, r, q, info))
  BY <1>1, CrashMindful DEF SendData
<1>4. Mindful(SendCumulativeOnly(s, n, name, r, cd))
  BY <1>1, <1>2, CrashMindful DEF SendCumulativeOnly
<1> QED BY <1>3, <1>4

\* The wish to recover is dropped when a recovery is on its way: nothing else
\* marks a prefix as pending.
LEMMA RecoveryMindful ==
  ASSUME NEW s, Mindful(s), Busy(s), NEW u, NEW r, NEW cd
  PROVE  Mindful(CheckRecovery(s, u, r, cd))
<1>1. ASSUME NEW t, Mindful(t), NEW c
      PROVE  Mindful(ScheduleCumulativeOnly(t, r, c))
  BY <1>1 DEF Mindful, Traced, RoundsSought, Sought, RecoverySought, LoggedRounds,
              ScheduleCumulativeOnly
<1>2. ASSUME NEW mine PROVE Mindful(DoRecovery(s, u, r, mine))
  <2> DEFINE asked == [s EXCEPT
                         !.recoDue = IF u \in s.pendingReco THEN @ ELSE @ \cup {u},
                         !.pendingReco = @ \cup {u},
                         !.recoveryDesired = FALSE]
  <2>1. Keeps(s, asked)
    BY DEF Mindful, Traced, Keeps, Sought, RecoverySought, LoggedRounds,
           Busy, Balanced
  <2>2. Mindful(asked)
    BY <2>1, KeepsMindful
  <2> HIDE DEF asked
  <2>3. Mindful(IF mine = {} THEN asked
                ELSE ScheduleCumulativeOnly(asked, r, mine))
    BY <1>1, <2>2
  <2> QED BY <2>3 DEF DoRecovery, asked
<1>3. Mindful(CancelCumulativeOnly(s, cd))
  BY DEF Mindful, Traced, RoundsSought, Sought, RecoverySought, LoggedRounds,
         CancelCumulativeOnly
<1>4. Mindful(RetryLater(s, u, r, cd))
  BY OtherMindful DEF RetryLater
<1>5. Mindful(CheckStable(s, u, r, cd))
  BY <1>2, CrashMindful DEF CheckStable
<1> QED BY <1>2, <1>3, <1>4, <1>5 DEF CheckRecovery

LEMMA PublicationMindful ==
  ASSUME NEW s, Mindful(s), NEW n, NEW r, NEW q, NEW cd
  PROVE  /\ Mindful(UpdateSeqNo(s, n, q))
         /\ Mindful(ProduceCumulativeOnly(s, n, r, cd))
<1>0. ASSUME NEW t, Mindful(t) PROVE Mindful(RoundUsed(t))
  <2>1. t.currentRound + 1 \in Nat
    BY <1>0 DEF Mindful
  <2> QED BY <1>0, <2>1, MoveMindful DEF RoundUsed
<1>1. Mindful([s EXCEPT !.seqNo = q, !.state = Update(@, n, q)])
  BY DEF Mindful, Traced, RoundsSought, Sought, RecoverySought, LoggedRounds
<1>2. Mindful(UpdateSeqNo(s, n, q))
  <2> DEFINE c == s.currentRound
             info == StableInfo(s)
             commit == [NewEntry EXCEPT !.leaves = Update(EmptyState, n, q),
                                        !.info = info]
             known == [s EXCEPT !.seqNo = q, !.state = Update(@, n, q)]
             logged == UpdateDiffLog(known, c, commit)
             d == [round |-> c, session |-> n, seq |-> q, info |-> info]
             excluded == IF c \in LoggedRounds(s) THEN logged
                         ELSE PutEntry(logged, c,
                                [logged.log[c] EXCEPT !.exclude = {d}])
             sent == IF AnswersPending(s)
                     THEN [SendData(excluded, n, c, q, info)
                             EXCEPT !.pendingDataInterest = 0]
                     ELSE logged
  <2>1. Mindful(logged)
    BY <1>1, LogMindful
  <2>2. Mindful(excluded)
    BY <2>1, LogMindful
  <2>3. Mindful(sent)
    BY <2>1, <2>2, SendMindful, OtherMindful
  <2> HIDE DEF sent
  <2>4. Mindful(RoundUsed([sent EXCEPT !.announce = @ \cup {c}]))
    BY <1>0, <2>3, OtherMindful
  <2> QED BY <2>4, OtherMindful DEF UpdateSeqNo, sent
<1>3. Mindful(ProduceCumulativeOnly(s, n, r, cd))
  BY <1>0, SendMindful, LogMindful, OtherMindful DEF ProduceCumulativeOnly
<1> QED BY <1>2, <1>3

LEMMA InterestsInMindful ==
  ASSUME NEW s, Mindful(s), NEW n, NEW r \in Nat, NEW rd
  PROVE  /\ Mindful(ProcessDataInterest(s, n, r))
         /\ Mindful(ProcessSyncInterest(s, r, rd))
         /\ Mindful(ProcessRecoInterest(s))
<1>1. Mindful(AnswerFromLog(s, n, r))
  BY SendMindful, CrashMindful DEF AnswerFromLog
<1>2. Mindful(CheckRoundDigests(s, r, rd))
  BY FishMindful, OtherMindful DEF CheckRoundDigests, GoFishing
<1>3. Mindful(ProcessRecoInterest(s))
  BY DEF Mindful, Traced, RoundsSought, Sought, RecoverySought, LoggedRounds,
         ProcessRecoInterest
<1>4. r + 1 \in Nat
  OBVIOUS
<1> QED BY <1>1, <1>2, <1>3, <1>4, MoveMindful, OtherMindful
        DEF ProcessDataInterest, ProcessSyncInterest

LEMMA DataInMindful ==
  ASSUME NEW s, Mindful(s), Busy(s), NEW n, NEW d, d.round \in Nat
  PROVE  Mindful(ProcessData(s, d)) /\ Mindful(ProcessDataPublishing(s, n, d))
<1>1. ASSUME NEW t, Mindful(t) PROVE Mindful(ApplyLeaf(t, d))
  BY <1>1 DEF Mindful, Traced, RoundsSought, Sought, RecoverySought, LoggedRounds,
              ApplyLeaf
<1>2. Mindful(Applied(s, d))
  BY <1>1, RecoveryMindful DEF Applied
<1>3. ASSUME NEW t, Mindful(t) PROVE Mindful(MoveAfter(t, d))
  <2>1. d.round + 1 \in Nat
    OBVIOUS
  <2> QED BY <1>3, <2>1, MoveMindful DEF MoveAfter
<1>4. Mindful(ProcessData(s, d))
  BY <1>2, <1>3, LogMindful, OtherMindful DEF ProcessData
<1>5. Mindful(ProcessDataPublishing(s, n, d))
  BY <1>2, <1>3, LogMindful, OtherMindful, PublicationMindful
     DEF ProcessDataPublishing
<1> QED BY <1>4, <1>5

\* The rounds up to the one that becomes stable are no longer sought.
LEMMA StabilizeMindful ==
  ASSUME NEW s, Mindful(s), s.stableRound \in Nat, s.stabilizingRound \in Nat,
         s.stableRound <= s.stabilizingRound
  PROVE  Mindful(SetStableState(s))
<1> DEFINE t == SetStableState(s)
<1>1. CASE InitRound(s) = {}
  BY <1>1, CrashMindful DEF SetStableState
<1>2. CASE InitRound(s) # {}
  <2>1. /\ Traced \subseteq DOMAIN t
        /\ t.currentRound = s.currentRound /\ t.asked = s.asked
        /\ t.stableRound = s.stabilizingRound
        /\ t.lastRecoveryRound = s.lastRecoveryRound
        /\ t.recoveryDesired = s.recoveryDesired
        /\ t.recoDue = s.recoDue /\ t.recoAsked = s.recoAsked
        /\ t.recoFace = s.recoFace /\ t.fish = s.fish
    BY <1>2 DEF Mindful, Traced, SetStableState,
                CalculateStableStateAndCumulativeDigests
  <2>2. LoggedRounds(s) \subseteq LoggedRounds(t)
    BY <1>2 DEF Mindful, Traced, SetStableState, LoggedRounds,
                CalculateStableStateAndCumulativeDigests
  <2>3. \A r \in 1 .. (s.currentRound - 1) :
          r > t.stableRound => r > s.stableRound
    BY <2>1 DEF Mindful
  <2> QED BY <2>1, <2>2, <2>3 DEF Mindful, RoundsSought, Sought, RecoverySought
<1> QED BY <1>1, <1>2

LEMMA DataTimeoutMindful ==
  ASSUME NEW s, Mindful(s), NEW i
  PROVE  Mindful(OnDataInterestTimeout(s, i))
<1>1. ASSUME NEW t, Mindful(t), NEW r, NEW c
      PROVE  Mindful(ScheduleCumulativeOnly(t, r, c))
  BY <1>1 DEF Mindful, Traced, RoundsSought, Sought, RecoverySought, LoggedRounds,
              ScheduleCumulativeOnly
<1>2. Mindful(OnQuiet(s))
  BY <1>1, OtherMindful DEF OnQuiet
<1> QED BY <1>2, FishMindful DEF OnDataInterestTimeout

\* A recovery covers every round up to its own.
LEMMA RecoInMindful ==
  ASSUME NEW s, Mindful(s), NEW n, NEW u, NEW r \in Nat, NEW st
  PROVE  /\ Mindful(ProcessRecoData(s, u, r, st))
         /\ Mindful(ProcessRecoDataPublishing(s, n, u, r, st))
         /\ Mindful(OnRecoInterestTimeout(s, u))
<1>1. Mindful(Merged(s, u, st))
  BY DEF Mindful, Traced, RoundsSought, Sought, RecoverySought, LoggedRounds, Merged
<1>2. Mindful(OnRecoInterestTimeout(s, u))
  BY DEF Mindful, Traced, RoundsSought, Sought, RecoverySought, LoggedRounds,
         OnRecoInterestTimeout
<1>3. ASSUME NEW m, Mindful(m) PROVE Mindful(Resume(m, r))
  <2> DEFINE moved == CatchUp(m, r)
             t == Unstabilize(GoFishing(moved, BackRounds(moved.currentRound)))
  <2>1. /\ Traced \subseteq DOMAIN moved
        /\ moved.currentRound \in Nat
        /\ moved.lastRecoveryRound = moved.currentRound - 1
        /\ moved.recoFace = m.recoFace /\ moved.recoAsked = m.recoAsked
    BY <1>3 DEF Mindful, Traced, CatchUp, MoveToNewCurrentRoundAfterRecovery
  <2> HIDE DEF moved
  <2>2. /\ Traced \subseteq DOMAIN t
        /\ t.currentRound = moved.currentRound
        /\ t.lastRecoveryRound = moved.lastRecoveryRound
        /\ t.recoFace = moved.recoFace /\ t.recoAsked = moved.recoAsked
    BY <2>1 DEF Traced, Unstabilize, GoFishing
  <2> HIDE DEF t
  <2>3. Mindful(t)
    BY <1>3, <2>1, <2>2 DEF Mindful, RoundsSought
  <2> QED BY <2>3 DEF Resume, t, moved
<1>4. Mindful(ProcessRecoData(s, u, r, st))
  BY <1>1, <1>3 DEF ProcessRecoData
<1>5. Mindful(ProcessRecoDataPublishing(s, n, u, r, st))
  BY <1>1, <1>3, PublicationMindful DEF ProcessRecoDataPublishing
<1> QED BY <1>2, <1>4, <1>5

----------------------------------------------------------------------------
(* What is sent outside a partition.  An event that fishes for a round is   *)
(* gone when the Interest is out.                                           *)

LEMMA FishSent ==
  ASSUME NEW s, Mindful(s), NEW F, NEW G, s.fish \subseteq F \cup G
  PROVE  Mindful(SendDataInterest([s EXCEPT !.fish = G], F, FALSE))
<1> DEFINE t == SendDataInterest([s EXCEPT !.fish = G], F, FALSE)
<1>1. /\ Traced \subseteq DOMAIN t
      /\ t.currentRound = s.currentRound /\ t.stableRound = s.stableRound
      /\ t.lastRecoveryRound = s.lastRecoveryRound
      /\ t.log = s.log /\ t.recoveryDesired = s.recoveryDesired
      /\ t.recoDue = s.recoDue /\ t.recoAsked = s.recoAsked
      /\ t.recoFace = s.recoFace
      /\ t.fish = G
      /\ t.asked = s.asked \cup {f.round : f \in F}
  BY DEF Mindful, Traced, SendDataInterest
<1> HIDE DEF t
<1>2. Keeps(s, t)
  BY <1>1 DEF Mindful, Keeps, Sought, RecoverySought, LoggedRounds
<1>3. Mindful(t)
  BY <1>2, KeepsMindful
<1> QED BY <1>3 DEF t

LEMMA InterestsOutMindful ==
  ASSUME NEW s, Mindful(s), NEW F, NEW R
  PROVE  /\ Mindful(SendDataInterest(s, F, FALSE))
         /\ Mindful(SendSyncInterest(s, R, FALSE))
<1>1. Keeps(s, SendDataInterest(s, F, FALSE))
  BY DEF Mindful, Traced, Keeps, Sought, RecoverySought, LoggedRounds,
         SendDataInterest
<1>2. Keeps(s, SendSyncInterest(s, R, FALSE))
  BY DEF Mindful, Traced, Keeps, Sought, RecoverySought, LoggedRounds,
         SendSyncInterest
<1> QED BY <1>1, <1>2, KeepsMindful

\* U: the prefixes asked for recovery; D: those still to be asked.
LEMMA RecoSent ==
  ASSUME NEW s, Mindful(s), NEW U, NEW D, s.recoDue \subseteq U \cup D
  PROVE  Mindful(SendRecoInterest([s EXCEPT !.recoDue = D], U, FALSE))
<1>1. Keeps(s, SendRecoInterest([s EXCEPT !.recoDue = D], U, FALSE))
  BY DEF Mindful, Traced, Keeps, Sought, RecoverySought, LoggedRounds,
         SendRecoInterest
<1> QED BY <1>1, KeepsMindful

LEMMA RunDueEventsMindful ==
  ASSUME NEW s, Mindful(s)
  PROVE  Mindful(RunDueEvents(s, FALSE))
<1> DEFINE first == FirstInterest(s)
           run == [s EXCEPT !.fish = {}, !.announce = {}, !.recoDue = {},
                            !.reexpress = IF first = {} THEN @ ELSE 0]
           t == SendDataInterest(
                  SendSyncInterest(SendRecoInterest(run, s.recoDue, FALSE),
                                   s.announce, FALSE),
                  s.fish \cup first, FALSE)
<1>1. /\ Traced \subseteq DOMAIN t
      /\ t.currentRound = s.currentRound /\ t.stableRound = s.stableRound
      /\ t.lastRecoveryRound = s.lastRecoveryRound
      /\ t.log = s.log /\ t.recoveryDesired = s.recoveryDesired
      /\ t.recoAsked = s.recoAsked \cup s.recoDue
      /\ t.recoFace = s.recoFace \cup s.recoDue
      /\ t.asked = s.asked \cup {f.round : f \in s.fish \cup first}
  BY DEF Mindful, Traced, SendDataInterest, SendSyncInterest, SendRecoInterest
<1> HIDE DEF t
<1>2. Keeps(s, t)
  BY <1>1 DEF Mindful, Keeps, Sought, RecoverySought, LoggedRounds
<1>3. Mindful(t)
  BY <1>2, KeepsMindful
<1> QED BY <1>3 DEF RunDueEvents, t

----------------------------------------------------------------------------
(* Every action. *)

MInv == BeforePartitions => \A n \in Node : Mindful(node[n])

\* What is known of the nodes already.
Established == IInv /\ BInv /\ MInv

LEMMA MInvInitially == Init => MInv
<1>1. Mindful(InitialNode)
  BY DEF Mindful, Traced, InitialNode, RoundsSought
<1> QED BY <1>1 DEF Init, MInv

LEMMA BecomesMindful ==
  ASSUME Established, NEW n \in Node, NEW s, Becomes(n, s),
         BeforePartitions => Mindful(s)
  PROVE  MInv'
<1> SUFFICES ASSUME BeforePartitions' PROVE \A m \in Node : Mindful(node'[m])
  BY DEF MInv
<1>1. BeforePartitions /\ partitioned = FALSE
  BY DEF Becomes, BeforePartitions, BInv, Established
<1>2. Mindful(After(s))
  BY <1>1, RunDueEventsMindful DEF After
<1>3. \A m \in Node : Mindful(node[m])
  BY <1>1 DEF MInv, Established
<1>4. node' = [m \in Node |-> IF m = n THEN After(s) ELSE node[m]]
  BY <1>1 DEF BInv, Becomes, Established
<1> QED BY <1>2, <1>3, <1>4

LEMMA MindfulNode ==
  ASSUME Established, BeforePartitions, NEW n \in Node
  PROVE  Mindful(node[n]) /\ Busy(node[n]) /\ partitioned = FALSE
  BY DEF BInv, MInv, Established

LEMMA SchedulerKeepsMInv ==
  ASSUME Established, NEW n \in Node
  PROVE  /\ Fish(n) => MInv'
         /\ Reexpress(n) => MInv'
         /\ Announce(n) => MInv'
         /\ SyncRound(n) => MInv'
         /\ Stabilize(n) => MInv'
         /\ ReportCumulative(n) => MInv'
         /\ RetryRecovery(n) => MInv'
         /\ AskRecovery(n) => MInv'
<1> DEFINE s == node[n]
<1>1. ASSUME Fish(n) PROVE MInv'
  <2>1. PICK f \in s.fish :
           Becomes(n, SendDataInterest([s EXCEPT !.fish = @ \ {f}], {f},
                                       partitioned))
    BY <1>1 DEF Fish
  <2>2. s.fish \subseteq {f} \cup (s.fish \ {f})
    OBVIOUS
  <2>3. BeforePartitions
          => Mindful(SendDataInterest([s EXCEPT !.fish = @ \ {f}], {f},
                                      partitioned))
    BY <2>2, MindfulNode, FishSent
  <2> QED BY <2>1, <2>3, BecomesMindful
<1>2. ASSUME Reexpress(n) PROVE MInv'
  BY <1>2, MindfulNode, OtherMindful, InterestsOutMindful, BecomesMindful
     DEF Reexpress
<1>3. ASSUME Announce(n) PROVE MInv'
  BY <1>3, MindfulNode, OtherMindful, InterestsOutMindful, BecomesMindful
     DEF Announce
<1>4. ASSUME SyncRound(n) PROVE MInv'
  BY <1>4, MindfulNode, OtherMindful, InterestsOutMindful, BecomesMindful
     DEF SyncRound
<1>5. ASSUME Stabilize(n) PROVE MInv'
  <2>1. /\ s.stableRound \in Nat /\ s.stabilizingRound \in Nat
        /\ s.stableRound <= s.stabilizingRound
    BY DEF Established, IInv, NodeType, Round, RoundsOK
  <2>2. BeforePartitions => Mindful(SetStableState(s))
    BY <2>1, MindfulNode, StabilizeMindful
  <2> QED BY <1>5, <2>2, BecomesMindful DEF Stabilize
<1>6. ASSUME ReportCumulative(n) PROVE MInv'
  BY <1>6, MindfulNode, OtherMindful, PublicationMindful, BecomesMindful
     DEF ReportCumulative
<1>7. ASSUME RetryRecovery(n) PROVE MInv'
  BY <1>7, MindfulNode, OtherMindful, TakenBusy, RecoveryMindful, BecomesMindful
     DEF RetryRecovery
<1>8. ASSUME AskRecovery(n) PROVE MInv'
  <2>1. PICK u \in s.recoDue :
           Becomes(n, SendRecoInterest([s EXCEPT !.recoDue = @ \ {u}], {u},
                                       partitioned))
    BY <1>8 DEF AskRecovery
  <2>2. s.recoDue \subseteq {u} \cup (s.recoDue \ {u})
    OBVIOUS
  <2>3. BeforePartitions
          => Mindful(SendRecoInterest([s EXCEPT !.recoDue = @ \ {u}], {u},
                                      partitioned))
    BY <2>2, MindfulNode, RecoSent
  <2> QED BY <2>1, <2>3, BecomesMindful
<1> QED BY <1>1, <1>2, <1>3, <1>4, <1>5, <1>6, <1>7, <1>8

\* The rounds named in what the nodes have put on the network.
LEMMA NamedRounds ==
  ASSUME Established, NEW n \in Node
  PROVE  /\ \A r \in node[n].asked : r \in Nat
         /\ \A i \in node[n].sentSync : i.round \in Nat
         /\ \A p \in node[n].sentReco : p.round \in Nat
         /\ \A d \in Packets : d.round \in Nat
         /\ node[n].recoFace \subseteq Node
<1>1. /\ node[n].asked \subseteq Round /\ node[n].sentSync \subseteq SyncInterest
      /\ node[n].sentReco \subseteq RecoData
      /\ node[n].recoFace \subseteq Node /\ Packets \subseteq Packet
  BY NodeFacts, PacketsType DEF Established
<1> QED BY <1>1 DEF Round, SyncInterest, RecoData, Packet

LEMMA NetworkKeepsMInv ==
  ASSUME Established, NEW n \in Node
  PROVE  /\ ReceiveDataInterest(n) => MInv'
         /\ ReceiveSyncInterest(n) => MInv'
         /\ ReceiveRecoInterest(n) => MInv'
         /\ ReceiveData(n) => MInv'
         /\ ReceiveRecoData(n) => MInv'
         /\ ReceiveDataAndPublish(n) => MInv'
         /\ ReceiveRecoDataAndPublish(n) => MInv'
<1>1. ASSUME ReceiveDataInterest(n) PROVE MInv'
  BY <1>1, NamedRounds, MindfulNode, InterestsInMindful, BecomesMindful
     DEF ReceiveDataInterest, DataInterestArrives
<1>2. ASSUME ReceiveSyncInterest(n) PROVE MInv'
  BY <1>2, NamedRounds, MindfulNode, InterestsInMindful, BecomesMindful
     DEF ReceiveSyncInterest, SyncInterestArrives
<1>3. ASSUME ReceiveRecoInterest(n) PROVE MInv'
  <2>1. BeforePartitions => Mindful(ProcessRecoInterest(node[n]))
    BY MindfulNode, InterestsInMindful
  <2> QED BY <1>3, <2>1, BecomesMindful DEF ReceiveRecoInterest
<1>4. ASSUME ReceiveData(n) PROVE MInv'
  BY <1>4, NamedRounds, MindfulNode, OtherMindful, TakenBusy, DataInMindful,
     BecomesMindful DEF ReceiveData, DataArrives
<1>5. ASSUME ReceiveRecoData(n) PROVE MInv'
  BY <1>5, NamedRounds, MindfulNode, OtherMindful, RecoInMindful, BecomesMindful
     DEF ReceiveRecoData
<1>6. ASSUME ReceiveDataAndPublish(n) PROVE MInv'
  BY <1>6, NamedRounds, MindfulNode, OtherMindful, TakenBusy, DataInMindful,
     BecomesMindful DEF ReceiveDataAndPublish, DataArrivesAndPublish
<1>7. ASSUME ReceiveRecoDataAndPublish(n) PROVE MInv'
  BY <1>7, NamedRounds, MindfulNode, OtherMindful, RecoInMindful, BecomesMindful
     DEF ReceiveRecoDataAndPublish
<1> QED BY <1>1, <1>2, <1>3, <1>4, <1>5, <1>6, <1>7

LEMMA NextKeepsMInv == Established /\ [Next]_vars => MInv'
<1> SUFFICES ASSUME Established, [Next]_vars PROVE MInv'
  OBVIOUS
<1>1. CASE UNCHANGED vars
  BY <1>1 DEF Established, MInv, BeforePartitions, vars
<1>2. CASE OutOfTimers
  BY <1>2 DEF Established, MInv, BeforePartitions, vars, OutOfTimers
<1>3. ASSUME NEW n \in Node, Publish(n) PROVE MInv'
  BY <1>3, MindfulNode, PublicationMindful, BecomesMindful DEF Publish
<1>4. ASSUME NEW n \in Node, DataInterestTimeout(n) PROVE MInv'
  BY <1>4, MindfulNode, OtherMindful, DataTimeoutMindful, BecomesMindful
     DEF DataInterestTimeout, DataInterestExpires
<1>5. ASSUME NEW n \in Node, RecoInterestTimeout(n) PROVE MInv'
  <2>1. PICK u \in node[n].recoFace :
           Becomes(n, OnRecoInterestTimeout(
                        [node[n] EXCEPT !.recoFace = @ \ {u}], u))
    BY <1>5 DEF RecoInterestTimeout
  <2>2. BeforePartitions
          => Mindful(OnRecoInterestTimeout(
                       [node[n] EXCEPT !.recoFace = @ \ {u}], u))
    BY MindfulNode, OtherMindful, RecoInMindful, 0 \in Nat
  <2> QED BY <2>1, <2>2, BecomesMindful
<1>6. ASSUME NEW n \in Node, StartPartition(n) \/ StopPartition(n)
      PROVE  MInv'
  BY <1>6, PartitionsBegun DEF Established, MInv
<1> QED BY <1>1, <1>2, <1>3, <1>4, <1>5, <1>6, SchedulerKeepsMInv,
           NetworkKeepsMInv DEF Next

\* A node that has moved past a round without hearing of it has asked for it,
\* or is to, or wants or has asked for a recovery, until the round is stable
\* or recovered: however far it jumps, until a partition begins.
THEOREM SoughtUntilPartition == Spec => [](BeforePartitions => SkippedIsSought)
<1>1. Init => Established
  BY IInvInitially, BInvInitially, MInvInitially DEF Established
<1>2. Established /\ [Next]_vars => Established'
  BY NextKeepsIInv, NextKeepsBInv, NextKeepsMInv DEF Established
<1>3. Established => (BeforePartitions => SkippedIsSought)
  BY DEF Established, MInv, Mindful, SkippedIsSought
<1> QED BY <1>1, <1>2, <1>3, PTL DEF Spec
=============================================================================
