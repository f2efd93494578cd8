---------------------------- MODULE Logic_proofs ----------------------------
(***************************************************************************)
(* What every method of class Logic preserves, for any set of nodes and    *)
(* any limits: the types of the members of a node, and the order of its    *)
(* rounds.  One lemma for each method; module RoundSync_proofs makes       *)
(* invariants of them.                                                     *)
(***************************************************************************)
EXTENDS Logic, SyncState_proofs

Log == UNION {[D -> Entry] : D \in {E \in SUBSET Round : IsFiniteSet(E)}}

NodeType ==
    [currentRound : Round, stabilizingRound : Round, stableRound : Round,
     lastRecoveryRound : Round, recoveryDesired : BOOLEAN,
     seqNo : SeqNo, state : State, oldState : State, log : Log,
     pendingDataInterest : Round, dataTimeouts : Nat, recoTimeouts : Nat,
     pendingReco : SUBSET Node, cdEvents : SUBSET Option(Digest),
     reexpress : Round, fish : SUBSET FishEvent, announce : SUBSET Round,
     syncDue : SUBSET Round, produce : SUBSET ProduceEvent,
     retry : SUBSET RetryEvent, recoDue : SUBSET Node,
     face : SUBSET Interest, recoFace : SUBSET Node,
     asked : SUBSET Round, sentSync : SUBSET SyncInterest,
     sentData : SUBSET Packet,
     recoAsked : SUBSET Node, sentReco : SUBSET RecoData,
     crashed : BOOLEAN]

\* The order of the rounds, with what makes it inductive: after a recovery the
\* round to stabilize is that of the recovery; nothing is asked of the network
\* for a round that has not come; and in round 1 no recovery is under way,
\* since recoveries start from data of a round after a stable one.
RoundsOK(s) ==
    /\ s.stableRound <= s.stabilizingRound
    /\ 1 <= s.stabilizingRound
    /\ s.stabilizingRound <= s.currentRound
    /\ s.stabilizingRound = s.currentRound => s.currentRound = 1
    /\ s.lastRecoveryRound < s.currentRound
    /\ s.stableRound # 0 => s.lastRecoveryRound <= s.stableRound
    /\ s.stableRound = 0 /\ s.lastRecoveryRound # 0
         => s.stabilizingRound = s.lastRecoveryRound
    /\ s.reexpress <= s.currentRound
    /\ \A f \in s.fish : f.round <= s.currentRound
    /\ \A i \in s.face : i.round <= s.currentRound
    /\ s.currentRound = 1 => s.retry = {} /\ s.recoDue = {} /\ s.recoFace = {}

Sound(s) == s \in NodeType /\ RoundsOK(s)

----------------------------------------------------------------------------
(* Options and the round log. *)

LEMMA OptionType ==
  ASSUME NEW S
  PROVE  /\ {} \in Option(S)
         /\ \A x \in S : {x} \in Option(S)
         /\ \A o \in Option(S) : o # {} => The(o) \in o /\ The(o) \in S
  BY DEF Option, The

LEMMA NewEntryType == NewEntry \in Entry
  BY EmptyStateType, OptionType DEF NewEntry, Entry, Digest

LEMMA LogType ==
  ASSUME NEW D \in SUBSET Round, IsFiniteSet(D), NEW f \in [D -> Entry]
  PROVE  f \in Log
  BY DEF Log

LEMMA LogFacts ==
  ASSUME NEW s \in NodeType
  PROVE  /\ LoggedRounds(s) \in SUBSET Round
         /\ IsFiniteSet(LoggedRounds(s))
         /\ \A r \in LoggedRounds(s) : s.log[r] \in Entry
<1>1. s.log \in Log
  BY DEF NodeType
<1>2. PICK D \in SUBSET Round : IsFiniteSet(D) /\ s.log \in [D -> Entry]
  BY <1>1 DEF Log
<1>3. LoggedRounds(s) = D
  BY <1>2 DEF LoggedRounds
<1> QED BY <1>2, <1>3

LEMMA EntryOfType ==
  ASSUME NEW s \in NodeType, NEW r
  PROVE  EntryOf(s, r) \in Entry
  BY LogFacts, NewEntryType DEF EntryOf

LEMMA ExcludeOfType ==
  ASSUME NEW s \in NodeType, NEW r
  PROVE  ExcludeOf(s, r) \in SUBSET Packet
  BY LogFacts DEF ExcludeOf, Entry

\* Replacing the log by another leaves the rounds in order.
LEMMA LogReplaced ==
  ASSUME NEW s, Sound(s), NEW log \in Log
  PROVE  /\ Sound([s EXCEPT !.log = log])
         /\ [s EXCEPT !.log = log].currentRound = s.currentRound
  BY DEF Sound, NodeType, RoundsOK

LEMMA PutEntrySound ==
  ASSUME NEW s, Sound(s), NEW r \in Round, NEW e \in Entry
  PROVE  /\ Sound(PutEntry(s, r, e))
         /\ PutEntry(s, r, e).currentRound = s.currentRound
         /\ LoggedRounds(PutEntry(s, r, e)) = LoggedRounds(s) \cup {r}
<1> DEFINE D == LoggedRounds(s) \cup {r}
           log == [q \in D |-> IF q = r THEN e ELSE s.log[q]]
<1>0. s \in NodeType
  BY DEF Sound
<1>1. D \in SUBSET Round /\ IsFiniteSet(D)
  BY <1>0, LogFacts, FS_AddElement
<1>2. log \in [D -> Entry]
  BY <1>0, LogFacts
<1>3. log \in Log
  BY <1>1, <1>2, LogType
<1>4. PutEntry(s, r, e) = [s EXCEPT !.log = log]
  BY DEF PutEntry
<1>5. LoggedRounds([s EXCEPT !.log = log]) = D
  BY <1>0 DEF LoggedRounds, NodeType
<1> QED BY <1>3, <1>4, <1>5, LogReplaced

LEMMA UpdateDiffLogSound ==
  ASSUME NEW s, Sound(s), NEW r \in Round, NEW commit \in Entry
  PROVE  /\ Sound(UpdateDiffLog(s, r, commit))
         /\ UpdateDiffLog(s, r, commit).currentRound = s.currentRound
         /\ r \in LoggedRounds(UpdateDiffLog(s, r, commit))
<1>1. [commit EXCEPT !.rd = commit.leaves] \in Entry
  BY DEF Entry, Digest
<1> QED BY <1>1, PutEntrySound DEF UpdateDiffLog

LEMMA CrashSound ==
  ASSUME NEW s, Sound(s)
  PROVE  Sound(Crash(s)) /\ Crash(s).currentRound = s.currentRound
  BY DEF Crash, Sound, NodeType, RoundsOK

----------------------------------------------------------------------------
(* Rounds. *)

LEMMA GoFishingSound ==
  ASSUME NEW s, Sound(s), NEW R \in SUBSET Round,
         \A r \in R : r <= s.currentRound
  PROVE  Sound(GoFishing(s, R)) /\ GoFishing(s, R).currentRound = s.currentRound
<1>1. {[round |-> r, retries |-> 1] : r \in R} \in SUBSET FishEvent
  BY DEF FishEvent, Round
<1> QED BY <1>1 DEF GoFishing, Sound, NodeType, RoundsOK

LEMMA MoveToNewCurrentRoundSound ==
  ASSUME NEW s, Sound(s), NEW r \in Round, r > s.currentRound
  PROVE  /\ Sound(MoveToNewCurrentRound(s, r))
         /\ MoveToNewCurrentRound(s, r).currentRound = r
<1> DEFINE move(f) == [f EXCEPT !.currentRound = r, !.dataTimeouts = 0,
                                !.reexpress = r,
                                !.pendingDataInterest = PendingAfter(s, r)]
           far == [s EXCEPT !.recoveryDesired = TRUE]
           near == GoFishing(s, s.currentRound .. (r - 1))
<1>0. s \in NodeType /\ RoundsOK(s) /\ s.currentRound \in Nat /\ r \in Nat
  BY DEF Sound, NodeType, Round
<1>1. PendingAfter(s, r) \in Round
  BY <1>0 DEF PendingAfter, NodeType, Round
<1>2. ASSUME NEW f \in NodeType, f.currentRound = s.currentRound,
             f.fish \in SUBSET FishEvent,
             \A e \in f.fish : e.round <= r, RoundsOK([f EXCEPT !.fish = {}])
      PROVE  Sound(move(f)) /\ move(f).currentRound = r
  <2>1. move(f) \in NodeType /\ move(f).currentRound = r
    BY <1>0, <1>1, <1>2 DEF NodeType, Round
  <2>2. RoundsOK(move(f))
    BY <1>0, <1>2 DEF RoundsOK, NodeType, Round, Interest
  <2> QED BY <2>1, <2>2 DEF Sound
<1>3. /\ far \in NodeType /\ far.currentRound = s.currentRound
      /\ far.fish \in SUBSET FishEvent /\ \A e \in far.fish : e.round <= r
      /\ RoundsOK([far EXCEPT !.fish = {}])
  <2>1. far \in NodeType /\ far.currentRound = s.currentRound /\ far.fish = s.fish
    BY <1>0 DEF NodeType
  <2>2. s.fish \in SUBSET FishEvent /\ \A e \in s.fish : e.round <= r
    BY <1>0 DEF NodeType, RoundsOK, FishEvent, Round
  <2>3. RoundsOK([far EXCEPT !.fish = {}])
    BY <1>0 DEF NodeType, RoundsOK
  <2> QED BY <2>1, <2>2, <2>3
<1>4. /\ near \in NodeType /\ near.currentRound = s.currentRound
      /\ near.fish \in SUBSET FishEvent /\ \A e \in near.fish : e.round <= r
      /\ RoundsOK([near EXCEPT !.fish = {}])
  <2> DEFINE g == {[round |-> q, retries |-> 1] : q \in s.currentRound .. (r - 1)}
  <2>1. g \in SUBSET FishEvent /\ \A e \in g : e.round <= r
    BY <1>0 DEF FishEvent, Round
  <2>2. near = [s EXCEPT !.fish = @ \cup g]
    BY DEF GoFishing
  <2> HIDE DEF g, near
  <2>3. near \in NodeType /\ near.currentRound = s.currentRound
    BY <1>0, <2>1, <2>2 DEF NodeType
  <2>4. near.fish = s.fish \cup g /\ s.fish \in SUBSET FishEvent
    BY <1>0, <2>2 DEF NodeType
  <2>5. \A e \in s.fish : e.round <= r
    BY <1>0, <2>4 DEF RoundsOK, FishEvent, Round
  <2>6. RoundsOK([near EXCEPT !.fish = {}])
    BY <1>0, <2>2 DEF NodeType, RoundsOK
  <2> QED BY <2>1, <2>3, <2>4, <2>5, <2>6
<1>5. MoveToNewCurrentRound(s, r) = IF TooFar(s, r) THEN move(far) ELSE move(near)
  BY DEF MoveToNewCurrentRound
<1> HIDE DEF move, far, near
<1> QED BY <1>2, <1>3, <1>4, <1>5

LEMMA RoundUsedSound ==
  ASSUME NEW s, Sound(s)
  PROVE  Sound(RoundUsed(s)) /\ RoundUsed(s).currentRound = s.currentRound + 1
<1>1. s.currentRound \in Nat
  BY DEF Sound, NodeType, Round
<1> QED BY <1>1, MoveToNewCurrentRoundSound DEF RoundUsed, Round

LEMMA MoveAfterRecoverySound ==
  ASSUME NEW s, Sound(s), NEW r \in Round, r > s.currentRound
  PROVE  /\ Sound(MoveToNewCurrentRoundAfterRecovery(s, r))
         /\ MoveToNewCurrentRoundAfterRecovery(s, r).currentRound = r
<1> DEFINE t == MoveToNewCurrentRoundAfterRecovery(s, r)
<1>0. s \in NodeType /\ RoundsOK(s)
  BY DEF Sound
<1>1. PendingAfter(s, r) \in Round
  BY <1>0 DEF PendingAfter, NodeType, Round
<1>2. t \in NodeType /\ t.currentRound = r
  BY <1>0, <1>1 DEF MoveToNewCurrentRoundAfterRecovery, NodeType
<1>3. RoundsOK(t)
  BY <1>0 DEF MoveToNewCurrentRoundAfterRecovery, NodeType, RoundsOK, Round,
              FishEvent, Interest
<1> QED BY <1>2, <1>3 DEF Sound

----------------------------------------------------------------------------
(* Packets out. *)

LEMMA PutDataSound ==
  ASSUME NEW s, Sound(s), NEW d \in Packet
  PROVE  Sound(PutData(s, d)) /\ PutData(s, d).currentRound = s.currentRound
  BY DEF PutData, Sound, NodeType, RoundsOK

LEMMA PacketType ==
  ASSUME NEW r \in Round, NEW n \in Node, NEW q \in SeqNo,
         NEW info \in Option(Info)
  PROVE  [round |-> r, session |-> n, seq |-> q, info |-> info] \in Packet
  BY DEF Packet

LEMMA InfoType ==
  ASSUME NEW r \in Round, NEW cd \in Option(Digest)
  PROVE  {[round |-> r, cd |-> cd]} \in Option(Info)
<1>1. [round |-> r, cd |-> cd] \in Info
  BY DEF Info
<1> QED BY <1>1, OptionType

LEMMA SendDataSound ==
  ASSUME NEW s, Sound(s), NEW n \in Node, NEW r \in Round, NEW q \in SeqNo,
         NEW info \in Option(Info)
  PROVE  /\ Sound(SendData(s, n, r, q, info))
         /\ SendData(s, n, r, q, info).currentRound = s.currentRound
  BY CrashSound, PutDataSound, PacketType DEF SendData

LEMMA ExcludeSound ==
  ASSUME NEW s, Sound(s), NEW d \in Packet, NEW r \in Round
  PROVE  /\ Sound(ExcludeCumulativeOnly(s, d, r))
         /\ ExcludeCumulativeOnly(s, d, r).currentRound = s.currentRound
<1>1. CASE r \notin LoggedRounds(s)
  BY <1>1 DEF ExcludeCumulativeOnly
<1>2. CASE r \in LoggedRounds(s)
  <2> DEFINE e == [s.log[r] EXCEPT !.exclude = @ \cup {d}]
  <2>1. e \in Entry
    BY <1>2, LogFacts DEF Sound, Entry
  <2>2. ExcludeCumulativeOnly(s, d, r) = PutEntry(s, r, e)
    BY <1>2 DEF ExcludeCumulativeOnly
  <2> QED BY <2>1, <2>2, PutEntrySound
<1> QED BY <1>1, <1>2

LEMMA SendCumulativeOnlySound ==
  ASSUME NEW s, Sound(s), NEW n \in Node, NEW name \in Round, NEW r \in Round,
         NEW cd \in Option(Digest)
  PROVE  /\ Sound(SendCumulativeOnly(s, n, name, r, cd))
         /\ SendCumulativeOnly(s, n, name, r, cd).currentRound = s.currentRound
<1> DEFINE d == [round |-> name, session |-> n, seq |-> CumulativeOnlyData,
                 info |-> {[round |-> r, cd |-> cd]}]
<1>1. d \in Packet
  BY InfoType, PacketType DEF CumulativeOnlyData, SeqNo
<1>2. Sound(PutData(ExcludeCumulativeOnly(s, d, r), d))
        /\ PutData(ExcludeCumulativeOnly(s, d, r), d).currentRound = s.currentRound
  BY <1>1, ExcludeSound, PutDataSound
<1> QED BY <1>2, CrashSound DEF SendCumulativeOnly

----------------------------------------------------------------------------
(* CumulativeOnly packets and recovery. *)

LEMMA ScheduleSound ==
  ASSUME NEW s, Sound(s), NEW r \in Round, NEW cd \in Option(Digest)
  PROVE  /\ Sound(ScheduleCumulativeOnly(s, r, cd))
         /\ ScheduleCumulativeOnly(s, r, cd).currentRound = s.currentRound
<1>1. [round |-> r, cd |-> cd, tracked |-> cd \notin s.cdEvents] \in ProduceEvent
  BY DEF ProduceEvent
<1> QED BY <1>1 DEF ScheduleCumulativeOnly, Sound, NodeType, RoundsOK

LEMMA CancelSound ==
  ASSUME NEW s, Sound(s), NEW cd
  PROVE  /\ Sound(CancelCumulativeOnly(s, cd))
         /\ CancelCumulativeOnly(s, cd).currentRound = s.currentRound
  BY DEF CancelCumulativeOnly, Sound, NodeType, RoundsOK

\* The pending Data Interest is answered by what was sent.
LEMMA AnsweredSound ==
  ASSUME NEW s, Sound(s)
  PROVE  /\ Sound([s EXCEPT !.pendingDataInterest = 0])
         /\ [s EXCEPT !.pendingDataInterest = 0].currentRound = s.currentRound
  BY DEF Sound, NodeType, RoundsOK, Round

LEMMA ProduceCumulativeOnlySound ==
  ASSUME NEW s, Sound(s), NEW n \in Node, NEW r \in Round,
         NEW cd \in Option(Digest)
  PROVE  Sound(ProduceCumulativeOnly(s, n, r, cd))
<1> DEFINE sent == IF AnswersPending(s)
                   THEN [SendCumulativeOnly(s, n, s.currentRound, r, cd)
                           EXCEPT !.pendingDataInterest = 0]
                   ELSE s
<1>0. s.currentRound \in Round
  BY DEF Sound, NodeType
<1>1. Sound(sent) /\ sent.currentRound \in Round
  BY <1>0, SendCumulativeOnlySound, AnsweredSound
<1>2. CumulativeOnlyEntry(n, r, cd) \in Entry
  <2>1. Update(EmptyState, n, CumulativeOnlyData) \in State
    BY EmptyStateType, UpdateType DEF CumulativeOnlyData, SeqNo
  <2> QED BY <2>1, InfoType, NewEntryType DEF CumulativeOnlyEntry, Entry
<1> HIDE DEF sent
<1>3. Sound(UpdateDiffLog(sent, sent.currentRound, CumulativeOnlyEntry(n, r, cd)))
  BY <1>1, <1>2, UpdateDiffLogSound
<1> QED BY <1>3, RoundUsedSound DEF ProduceCumulativeOnly, sent

LEMMA DoRecoverySound ==
  ASSUME NEW s, Sound(s), s.currentRound >= 2, NEW u \in Node, NEW r \in Round,
         NEW mine \in Option(Digest)
  PROVE  /\ Sound(DoRecovery(s, u, r, mine))
         /\ DoRecovery(s, u, r, mine).currentRound = s.currentRound
<1> DEFINE asked == [s EXCEPT
                       !.recoDue = IF u \in s.pendingReco THEN @ ELSE @ \cup {u},
                       !.pendingReco = @ \cup {u},
                       !.recoveryDesired = FALSE]
<1>1. asked \in NodeType /\ asked.currentRound = s.currentRound
  BY DEF Sound, NodeType
<1>2. RoundsOK(asked)
  BY DEF Sound, NodeType, RoundsOK, Round
<1>3. Sound(asked) /\ asked.currentRound = s.currentRound
  BY <1>1, <1>2 DEF Sound
<1> HIDE DEF asked
<1> QED BY <1>3, ScheduleSound DEF DoRecovery, asked

LEMMA RetryLaterSound ==
  ASSUME NEW s, Sound(s), s.currentRound >= 2, NEW u \in Node, NEW r \in Round,
         NEW cd \in Option(Digest)
  PROVE  /\ Sound(RetryLater(s, u, r, cd))
         /\ RetryLater(s, u, r, cd).currentRound = s.currentRound
<1>1. [from |-> u, round |-> r, cd |-> cd] \in RetryEvent
  BY DEF RetryEvent
<1> QED BY <1>1 DEF RetryLater, Sound, NodeType, RoundsOK

LEMMA CheckRecoverySound ==
  ASSUME NEW s, Sound(s), s.stableRound # 0 => s.currentRound >= 2,
         NEW u \in Node, NEW r \in Round, NEW cd \in Option(Digest)
  PROVE  /\ Sound(CheckRecovery(s, u, r, cd))
         /\ CheckRecovery(s, u, r, cd).currentRound = s.currentRound
<1>1. r \in LoggedRounds(s) => s.log[r].cd \in Option(Digest)
  BY LogFacts DEF Sound, Entry
<1>2. {} \in Option(Digest)
  BY OptionType
<1>3. s.currentRound >= 2 =>
        /\ Sound(CheckStable(s, u, r, cd))
        /\ CheckStable(s, u, r, cd).currentRound = s.currentRound
  BY <1>1, <1>2, DoRecoverySound, CrashSound DEF CheckStable
<1> QED BY <1>2, <1>3, CancelSound, DoRecoverySound, RetryLaterSound
        DEF CheckRecovery

----------------------------------------------------------------------------
(* Interests out. *)

LEMMA SendDataInterestSound ==
  ASSUME NEW s, Sound(s), NEW F \in SUBSET FishEvent,
         \A f \in F : f.round <= s.currentRound, NEW partitioned
  PROVE  /\ Sound(SendDataInterest(s, F, partitioned))
         /\ SendDataInterest(s, F, partitioned).currentRound = s.currentRound
<1> DEFINE new == {InterestFor(s, f) : f \in F}
           kept == {[i EXCEPT !.own = FALSE] : i \in s.face}
           t == [s EXCEPT
                   !.face = (IF \E f \in F : f.round = s.currentRound
                             THEN kept ELSE s.face) \cup new,
                   !.asked = @ \cup {f.round : f \in F},
                   !.reexpress = IF \E f \in F : f.round = s.currentRound
                                 THEN s.currentRound ELSE @]
<1>0. s \in NodeType /\ RoundsOK(s) /\ s.face \in SUBSET Interest
  BY DEF Sound, NodeType
<1>1. new \in SUBSET Interest /\ \A i \in new : i.round <= s.currentRound
  <2>1. \A f \in F : ExcludeOf(s, f.round) \in SUBSET Packet
    BY <1>0, ExcludeOfType
  <2>2. \A f \in F : InterestFor(s, f) \in Interest
                     /\ InterestFor(s, f).round = f.round
    BY <2>1 DEF InterestFor, Interest, FishEvent
  <2> QED BY <2>2
<1>2. kept \in SUBSET Interest /\ \A i \in kept : i.round <= s.currentRound
  BY <1>0 DEF Interest, RoundsOK
<1>3. {f.round : f \in F} \in SUBSET Round
  BY DEF FishEvent
<1> HIDE DEF new, kept
<1>4. t \in NodeType /\ t.currentRound = s.currentRound
  BY <1>0, <1>1, <1>2, <1>3 DEF NodeType
<1>5. RoundsOK(t)
  BY <1>0, <1>1, <1>2 DEF NodeType, RoundsOK, Round
<1>6. Sound(t)
  BY <1>4, <1>5 DEF Sound
<1>7. SendDataInterest(s, F, partitioned) = IF partitioned THEN s ELSE t
  BY DEF SendDataInterest, new, kept
<1> HIDE DEF t
<1> QED BY <1>4, <1>6, <1>7

LEMMA SendSyncInterestSound ==
  ASSUME NEW s, Sound(s), NEW R \in SUBSET Round, NEW partitioned
  PROVE  /\ Sound(SendSyncInterest(s, R, partitioned))
         /\ SendSyncInterest(s, R, partitioned).currentRound = s.currentRound
<1> DEFINE I == {[round |-> r, rd |-> EntryOf(s, r).rd] : r \in R}
<1>1. \A r \in R : EntryOf(s, r).rd \in Digest
  BY EntryOfType DEF Entry, Sound
<1>2. I \in SUBSET SyncInterest
  BY <1>1 DEF SyncInterest
<1> HIDE DEF I
<1>3. /\ Sound([s EXCEPT !.sentSync = @ \cup I])
      /\ [s EXCEPT !.sentSync = @ \cup I].currentRound = s.currentRound
  BY <1>2 DEF Sound, NodeType, RoundsOK
<1> QED BY <1>3 DEF SendSyncInterest, I

LEMMA SendRecoInterestSound ==
  ASSUME NEW s, Sound(s), NEW U \in SUBSET Node,
         s.currentRound = 1 => U = {}, NEW partitioned
  PROVE  /\ Sound(SendRecoInterest(s, U, partitioned))
         /\ SendRecoInterest(s, U, partitioned).currentRound = s.currentRound
  BY DEF SendRecoInterest, Sound, NodeType, RoundsOK

LEMMA RunDueEventsSound ==
  ASSUME NEW s, Sound(s), NEW partitioned
  PROVE  Sound(RunDueEvents(s, partitioned))
<1> DEFINE run == [s EXCEPT !.fish = {}, !.announce = {}, !.recoDue = {},
                            !.reexpress = IF FirstInterest(s) = {} THEN @ ELSE 0]
           t1 == SendRecoInterest(run, s.recoDue, partitioned)
           t2 == SendSyncInterest(t1, s.announce, partitioned)
           F == s.fish \cup FirstInterest(s)
<1>0. s \in NodeType /\ RoundsOK(s)
  BY DEF Sound
<1>1. run \in NodeType /\ run.currentRound = s.currentRound
  BY <1>0 DEF NodeType, Round
<1>2. RoundsOK(run)
  BY <1>0 DEF NodeType, RoundsOK, Round
<1>3. F \in SUBSET FishEvent /\ \A f \in F : f.round <= s.currentRound
  <2>1. /\ s.fish \in SUBSET FishEvent /\ s.reexpress \in Round
        /\ \A f \in s.fish : f.round <= s.currentRound
        /\ s.reexpress <= s.currentRound
    BY <1>0 DEF NodeType, RoundsOK
  <2>2. /\ FirstInterest(s) \in SUBSET FishEvent
        /\ \A f \in FirstInterest(s) : f.round <= s.currentRound
    BY <2>1 DEF FirstInterest, FishEvent
  <2> QED BY <2>1, <2>2
<1>4. s.recoDue \in SUBSET Node /\ s.announce \in SUBSET Round
      /\ (s.currentRound = 1 => s.recoDue = {})
  BY <1>0 DEF NodeType, RoundsOK
<1> HIDE DEF run, F
<1>5. Sound(t1) /\ t1.currentRound = s.currentRound
  BY <1>1, <1>2, <1>4, SendRecoInterestSound DEF Sound
<1> HIDE DEF t1
<1>6. Sound(t2) /\ t2.currentRound = s.currentRound
  BY <1>4, <1>5, SendSyncInterestSound
<1> HIDE DEF t2
<1>7. Sound(SendDataInterest(t2, F, partitioned))
  BY <1>3, <1>6, SendDataInterestSound
<1> QED BY <1>7 DEF RunDueEvents, run, t1, t2, F

----------------------------------------------------------------------------
(* Publication. *)

LEMMA StableInfoType ==
  ASSUME NEW s \in NodeType
  PROVE  StableInfo(s) \in Option(Info)
<1>1. s.stableRound \in Round
  BY DEF NodeType
<1>2. s.stableRound \in LoggedRounds(s)
        => s.log[s.stableRound].cd \in Option(Digest)
  BY LogFacts DEF Entry
<1> QED BY <1>1, <1>2, InfoType, OptionType DEF StableInfo

LEMMA UpdateSeqNoSound ==
  ASSUME NEW s, Sound(s), NEW n \in Node, NEW q \in SeqNo
  PROVE  /\ Sound(UpdateSeqNo(s, n, q))
         /\ UpdateSeqNo(s, n, q).currentRound
              \in {s.currentRound, s.currentRound + 1}
<1> DEFINE info == StableInfo(s)
           commit == [NewEntry EXCEPT !.leaves = Update(EmptyState, n, q),
                                      !.info = info]
           r == s.currentRound
           known == [s EXCEPT !.seqNo = q, !.state = Update(@, n, q)]
           logged == UpdateDiffLog(known, r, commit)
           d == [round |-> r, session |-> n, seq |-> q, info |-> info]
           entry == [logged.log[r] EXCEPT !.exclude = {d}]
           excluded == IF r \in LoggedRounds(s) THEN logged
                       ELSE PutEntry(logged, r, entry)
           sent == IF AnswersPending(s)
                   THEN [SendData(excluded, n, r, q, info)
                           EXCEPT !.pendingDataInterest = 0]
                   ELSE logged
           announced == [sent EXCEPT !.announce = @ \cup {r}]
<1>0. s \in NodeType /\ r \in Round
  BY DEF Sound, NodeType
<1>1. info \in Option(Info)
  BY <1>0, StableInfoType
<1>2. commit \in Entry
  <2>1. Update(EmptyState, n, q) \in State
    BY EmptyStateType, UpdateType
  <2> HIDE DEF info
  <2> QED BY <1>1, <2>1, NewEntryType DEF Entry
<1>3. Sound(known) /\ known.currentRound = r
  <2>1. Update(s.state, n, q) \in State
    BY <1>0, UpdateType DEF NodeType
  <2> QED BY <2>1 DEF Sound, NodeType, RoundsOK
<1>4. d \in Packet
  BY <1>0, <1>1, PacketType
<1> HIDE DEF info, commit, known, r, d
<1>5. /\ Sound(logged) /\ r \in LoggedRounds(logged)
      /\ logged.currentRound = r
  BY <1>0, <1>2, <1>3, UpdateDiffLogSound
<1> HIDE DEF logged
<1>6. entry \in Entry
  <2>1. logged.log[r] \in Entry
    BY <1>5, LogFacts DEF Sound
  <2> QED BY <2>1, <1>4 DEF Entry
<1> HIDE DEF entry
<1>7. Sound(excluded) /\ excluded.currentRound = r
  BY <1>0, <1>5, <1>6, PutEntrySound
<1> HIDE DEF excluded
<1>8. Sound(sent) /\ sent.currentRound = r
  BY <1>0, <1>1, <1>5, <1>7, SendDataSound, AnsweredSound
<1> HIDE DEF sent
<1>9. Sound(announced) /\ announced.currentRound = r
  BY <1>0, <1>8 DEF Sound, NodeType, RoundsOK
<1> HIDE DEF announced
<1>10. /\ Sound(RoundUsed(announced))
       /\ RoundUsed(announced).currentRound = r + 1
  BY <1>9, RoundUsedSound
<1>11. /\ Sound([s EXCEPT !.seqNo = q])
       /\ [s EXCEPT !.seqNo = q].currentRound = s.currentRound
  BY DEF Sound, NodeType, RoundsOK
<1> QED BY <1>10, <1>11
        DEF UpdateSeqNo, announced, sent, excluded, entry, d, logged, known, r,
            commit, info

----------------------------------------------------------------------------
(* Interests in. *)

LEMMA AnswerFromLogSound ==
  ASSUME NEW s, Sound(s), NEW n \in Node, NEW r \in Round
  PROVE  Sound(AnswerFromLog(s, n, r))
<1>1. CASE r \notin LoggedRounds(s)
  BY <1>1 DEF AnswerFromLog
<1>2. CASE r \in LoggedRounds(s)
  <2> DEFINE q == s.log[r].leaves[n]
             info == s.log[r].info
  <2>1. s.log[r] \in Entry
    BY <1>2, LogFacts DEF Sound
  <2>2. info \in Option(Info) /\ q \in Nat \cup {NoLeaf}
    BY <2>1 DEF Entry, State
  <2>3. q # NoLeaf => Sound(SendData(s, n, r, q, {}))
    BY <2>2, SendDataSound, OptionType DEF SeqNo
  <2>4. ASSUME info # {}
        PROVE  Sound(SendCumulativeOnly(s, n, r, The(info).round, The(info).cd))
    <3>1. The(info) \in Info
      BY <2>2, <2>4, OptionType
    <3>2. The(info).round \in Round /\ The(info).cd \in Option(Digest)
      BY <3>1 DEF Info
    <3> QED BY <3>2, SendCumulativeOnlySound
  <2> HIDE DEF q, info
  <2> QED BY <1>2, <2>3, <2>4, CrashSound DEF AnswerFromLog, LeafLogged, q, info
<1> QED BY <1>1, <1>2

LEMMA ProcessDataInterestSound ==
  ASSUME NEW s, Sound(s), NEW n \in Node, NEW r \in Round
  PROVE  Sound(ProcessDataInterest(s, n, r))
<1> DEFINE recorded == [s EXCEPT !.pendingDataInterest = r]
<1>1. Sound(recorded) /\ recorded.currentRound = s.currentRound
  BY DEF Sound, NodeType, RoundsOK
<1>2. s.currentRound \in Nat /\ r \in Nat
  BY DEF Sound, NodeType, Round
<1> HIDE DEF recorded
<1> QED BY <1>1, <1>2, AnswerFromLogSound, MoveToNewCurrentRoundSound
        DEF ProcessDataInterest, recorded

LEMMA CheckRoundDigestsSound ==
  ASSUME NEW s, Sound(s), NEW r \in Round, r <= s.currentRound, NEW rd
  PROVE  Sound(CheckRoundDigests(s, r, rd))
<1> DEFINE fishing == GoFishing(s, {r})
<1>1. Sound(fishing)
  BY GoFishingSound
<1> HIDE DEF fishing
<1>2. Sound([fishing EXCEPT !.syncDue = @ \cup {r}])
  BY <1>1 DEF Sound, NodeType, RoundsOK
<1> QED BY <1>1, <1>2 DEF CheckRoundDigests, fishing

LEMMA ProcessSyncInterestSound ==
  ASSUME NEW s, Sound(s), NEW r \in Round, NEW rd
  PROVE  Sound(ProcessSyncInterest(s, r, rd))
<1>1. s.currentRound \in Nat /\ r \in Nat
  BY DEF Sound, NodeType, Round
<1>2. r >= s.currentRound => Sound(MoveToNewCurrentRound(s, r + 1))
  BY <1>1, MoveToNewCurrentRoundSound DEF Round
<1>3. ~(r >= s.currentRound) => Sound(CheckRoundDigests(s, r, rd))
  BY <1>1, CheckRoundDigestsSound
<1> QED BY <1>2, <1>3 DEF ProcessSyncInterest

LEMMA ProcessRecoInterestSound ==
  ASSUME NEW s, Sound(s)
  PROVE  Sound(ProcessRecoInterest(s))
<1> DEFINE p == [round |-> s.currentRound - 1, state |-> s.state]
<1>1. s.currentRound \in Nat /\ s.currentRound >= 1 /\ s.state \in State
  BY DEF Sound, NodeType, RoundsOK, Round
<1>2. p \in RecoData
  BY <1>1 DEF RecoData, Round
<1> HIDE DEF p
<1>3. Sound([s EXCEPT !.sentReco = @ \cup {p}])
  BY <1>2 DEF Sound, NodeType, RoundsOK
<1> QED BY <1>3 DEF ProcessRecoInterest, p

----------------------------------------------------------------------------
(* Data in. *)

LEMMA CommittedType ==
  ASSUME NEW s \in NodeType, NEW d \in Packet
  PROVE  Committed(s, d) \in Entry
<1> DEFINE e == EntryOf(s, d.round)
           leaves == Update(e.leaves, d.session, d.seq)
<1>1. e \in Entry
  BY EntryOfType
<1>2. leaves \in State
  BY <1>1, UpdateType DEF Entry, Packet
<1> HIDE DEF e, leaves
<1>3. [e EXCEPT !.exclude = @ \cup {d}, !.leaves = leaves, !.rd = leaves] \in Entry
  BY <1>1, <1>2 DEF Entry, Digest
<1> QED BY <1>3 DEF Committed, e, leaves

LEMMA ApplyLeafSound ==
  ASSUME NEW s, Sound(s), NEW d \in Packet
  PROVE  Sound(ApplyLeaf(s, d)) /\ ApplyLeaf(s, d).currentRound = s.currentRound
<1>1. /\ Update(s.state, d.session, d.seq) \in State
      /\ Update(s.oldState, d.session, d.seq) \in State
  BY UpdateType DEF Sound, NodeType, Packet
<1> QED BY <1>1 DEF ApplyLeaf, Sound, NodeType, RoundsOK

LEMMA MoveAfterSound ==
  ASSUME NEW s, Sound(s), NEW d \in Packet
  PROVE  Sound(MoveAfter(s, d))
<1>1. s.currentRound \in Nat
  BY DEF Sound, NodeType, Round
<1> QED BY <1>1, MoveToNewCurrentRoundSound DEF MoveAfter, Round

\* A packet of a round that is stable is dropped before its digest is checked.
LEMMA AppliedSound ==
  ASSUME NEW s, Sound(s), NEW d \in Packet, d.round <= s.currentRound,
         ~TooOld(s, d)
  PROVE  Sound(Applied(s, d)) /\ Applied(s, d).currentRound = s.currentRound
<1> DEFINE i == The(d.info)
           checked == IF d.info = {} THEN s
                      ELSE CheckRecovery(s, d.session, i.round, i.cd)
<1>0. /\ d.round \in Nat /\ d.session \in Node /\ d.info \in Option(Info)
      /\ s.stableRound \in Nat /\ s.currentRound \in Nat
  BY DEF Packet, Sound, NodeType, Round
<1>1. s.stableRound # 0 => s.currentRound >= 2
  BY <1>0 DEF TooOld
<1>2. d.info # {} => i.round \in Round /\ i.cd \in Option(Digest)
  BY <1>0, OptionType DEF Info
<1>3. Sound(checked) /\ checked.currentRound = s.currentRound
  BY <1>0, <1>1, <1>2, CheckRecoverySound
<1>4. Applied(s, d) = IF d.seq = CumulativeOnlyData THEN checked
                      ELSE ApplyLeaf(checked, d)
  BY DEF Applied
<1> HIDE DEF checked
<1> QED BY <1>3, <1>4, ApplyLeafSound

LEMMA SyncDueSound ==
  ASSUME NEW s, Sound(s), NEW r \in Round
  PROVE  Sound([s EXCEPT !.syncDue = @ \cup {r}])
  BY DEF Sound, NodeType, RoundsOK

\* The packet answers an Interest of the node, so its round has come.
LEMMA ProcessDataSound ==
  ASSUME NEW s, Sound(s), NEW d \in Packet, d.round <= s.currentRound
  PROVE  Sound(ProcessData(s, d))
<1> DEFINE put == PutEntry(MoveAfter(Applied(s, d), d), d.round, Committed(s, d))
<1>0. d.round \in Round
  BY DEF Packet
<1>1. CASE TooOld(s, d)
  BY <1>1 DEF ProcessData
<1>2. CASE ~TooOld(s, d)
  <2>1. Sound(put)
    BY <1>0, <1>2, AppliedSound, MoveAfterSound, PutEntrySound, CommittedType
       DEF Sound
  <2> HIDE DEF put
  <2> QED BY <1>0, <1>2, <2>1, SyncDueSound DEF ProcessData, put
<1> QED BY <1>1, <1>2

LEMMA ProcessDataPublishingSound ==
  ASSUME NEW s, Sound(s), NEW n \in Node, NEW d \in Packet,
         d.round <= s.currentRound, ~TooOld(s, d)
  PROVE  Sound(ProcessDataPublishing(s, n, d))
<1> DEFINE called == IF d.round \in LoggedRounds(s)
                     THEN PutEntry(Applied(s, d), d.round, Committed(s, d))
                     ELSE Applied(s, d)
           published == UpdateSeqNo(called, n, s.seqNo + 1)
           moved == MoveAfter(published, d)
           logged == UpdateDiffLog(moved, d.round, Committed(s, d))
<1>0. /\ d.round \in Round /\ Committed(s, d) \in Entry
      /\ s.seqNo + 1 \in SeqNo
  BY CommittedType DEF Packet, Sound, NodeType, SeqNo
<1>1. Sound(called)
  BY <1>0, AppliedSound, PutEntrySound
<1> HIDE DEF called
<1>2. Sound(published)
  BY <1>0, <1>1, UpdateSeqNoSound
<1> HIDE DEF published
<1>3. Sound(moved)
  BY <1>2, MoveAfterSound
<1> HIDE DEF moved
<1>4. Sound(logged)
  BY <1>0, <1>3, UpdateDiffLogSound
<1> HIDE DEF logged
<1> QED BY <1>0, <1>4, SyncDueSound
        DEF ProcessDataPublishing, logged, moved, published, called

\* A recovery of round l leaves no round stable.
LEMMA UnstabilizeSound ==
  ASSUME NEW g, Sound(g), NEW l \in Nat, 1 <= l, l < g.currentRound
  PROVE  Sound(Unstabilize([g EXCEPT !.lastRecoveryRound = l]))
<1> DEFINE t == [g EXCEPT !.lastRecoveryRound = l, !.stabilizingRound = l,
                          !.stableRound = 0, !.oldState = g.state]
<1>0. g \in NodeType /\ RoundsOK(g)
  BY DEF Sound
<1>1. Unstabilize([g EXCEPT !.lastRecoveryRound = l]) = t
  BY <1>0 DEF Unstabilize, NodeType
<1>2. t \in NodeType
  BY <1>0 DEF NodeType, Round
<1>3. RoundsOK(t)
  BY <1>0 DEF NodeType, RoundsOK, Round
<1> QED BY <1>1, <1>2, <1>3 DEF Sound

\* Recovery data moves the current round past the round it covers.
LEMMA CatchUpIsMove ==
  ASSUME NEW s, Sound(s), s.currentRound >= 2, NEW r \in Round
  PROVE  \E m, l :
            /\ Sound(m) /\ l \in Nat /\ 1 <= l /\ l < m.currentRound
            /\ CatchUp(s, r) = [m EXCEPT !.lastRecoveryRound = l]
<1>0. s.currentRound \in Nat /\ r \in Nat
  BY DEF Sound, NodeType, Round
<1>1. CASE r >= s.currentRound
  <2> DEFINE m == MoveToNewCurrentRoundAfterRecovery(s, r + 1)
  <2>1. Sound(m) /\ m.currentRound = r + 1
    BY <1>0, <1>1, MoveAfterRecoverySound DEF Round
  <2>2. CatchUp(s, r) = [m EXCEPT !.lastRecoveryRound = r]
    BY <1>1 DEF CatchUp
  <2> HIDE DEF m
  <2> QED BY <1>0, <1>1, <2>1, <2>2
<1>2. CASE ~(r >= s.currentRound)
  <2>1. CatchUp(s, r) = [s EXCEPT !.lastRecoveryRound = s.currentRound - 1]
    BY <1>2 DEF CatchUp
  <2>2. s.currentRound - 1 \in Nat /\ 1 <= s.currentRound - 1
        /\ s.currentRound - 1 < s.currentRound
    BY <1>0
  <2> QED BY <2>1, <2>2, Zenon
<1> QED BY <1>1, <1>2

LEMMA MergedSound ==
  ASSUME NEW s, Sound(s), NEW u, NEW st \in State
  PROVE  /\ Sound(Merged(s, u, st))
         /\ Merged(s, u, st).currentRound = s.currentRound
<1>1. Plus(s.state, st) \in State
  BY PlusType DEF Sound, NodeType
<1> QED BY <1>1 DEF Merged, Sound, NodeType, RoundsOK

LEMMA ResumeSound ==
  ASSUME NEW s, Sound(s), s.currentRound >= 2, NEW r \in Round
  PROVE  Sound(Resume(s, r))
<1> DEFINE moved == CatchUp(s, r)
           R == BackRounds(moved.currentRound)
<1>2. PICK m, l : /\ Sound(m) /\ l \in Nat /\ 1 <= l /\ l < m.currentRound
                  /\ moved = [m EXCEPT !.lastRecoveryRound = l]
  BY CatchUpIsMove
<1> HIDE DEF moved
<1>3. m \in NodeType /\ m.currentRound \in Nat
  BY <1>2 DEF Sound, NodeType, Round
<1>4. moved.currentRound = m.currentRound
  BY <1>2, <1>3 DEF NodeType
<1>5. R \in SUBSET Round /\ \A q \in R : q <= m.currentRound
  BY <1>2, <1>3, <1>4, LimitsAssumption DEF BackRounds, Round
<1> HIDE DEF R
<1>6. Sound(GoFishing(m, R)) /\ GoFishing(m, R).currentRound = m.currentRound
  BY <1>2, <1>5, GoFishingSound
<1>7. GoFishing(moved, R) = [GoFishing(m, R) EXCEPT !.lastRecoveryRound = l]
  BY <1>2, <1>3 DEF GoFishing, NodeType
<1>8. Sound(Unstabilize([GoFishing(m, R) EXCEPT !.lastRecoveryRound = l]))
  BY <1>2, <1>6, UnstabilizeSound
<1> QED BY <1>7, <1>8 DEF Resume, moved, R

LEMMA ProcessRecoDataSound ==
  ASSUME NEW s, Sound(s), s.currentRound >= 2, NEW u \in Node,
         NEW r \in Round, NEW st \in State
  PROVE  Sound(ProcessRecoData(s, u, r, st))
  BY MergedSound, ResumeSound DEF ProcessRecoData

LEMMA ProcessRecoDataPublishingSound ==
  ASSUME NEW s, Sound(s), s.currentRound >= 2, NEW n \in Node, NEW u \in Node,
         NEW r \in Round, NEW st \in State
  PROVE  Sound(ProcessRecoDataPublishing(s, n, u, r, st))
<1> DEFINE m == Merged(s, u, st)
           p == UpdateSeqNo(m, n, s.seqNo + 1)
<1>0. s.currentRound \in Nat /\ s.seqNo + 1 \in SeqNo
  BY DEF Sound, NodeType, Round, SeqNo
<1>1. Sound(m) /\ m.currentRound = s.currentRound
  BY MergedSound
<1> HIDE DEF m
<1>2. Sound(p) /\ p.currentRound \in {s.currentRound, s.currentRound + 1}
  BY <1>0, <1>1, UpdateSeqNoSound
<1> HIDE DEF p
<1>3. p.currentRound >= 2
  BY <1>0, <1>2
<1>4. Sound(Resume(p, r))
  BY <1>2, <1>3, ResumeSound
<1> QED BY <1>4 DEF ProcessRecoDataPublishing, p, m

----------------------------------------------------------------------------
(* Stabilization. *)

LEMMA OldStateWithType ==
  ASSUME NEW s \in NodeType, NEW R \in SUBSET LoggedRounds(s)
  PROVE  OldStateWith(s, R) \in State
<1> DEFINE S == {s.log[r].leaves : r \in R}
           f == [r \in R |-> s.log[r].leaves]
<1>1. IsFiniteSet(R)
  BY LogFacts, FS_Subset
<1>2. f \in Surjection(R, S)
  BY DEF Surjection
<1>3. S \in SUBSET State
  BY LogFacts DEF Entry
<1> HIDE DEF S, f
<1>4. IsFiniteSet(S)
  BY <1>1, <1>2, FS_Surjection
<1>5. s.oldState \in State
  BY DEF NodeType
<1>6. PlusAll(s.oldState, S) \in State
  BY <1>3, <1>4, <1>5, PlusAllType
<1> QED BY <1>6 DEF OldStateWith, S

LEMMA CalculateSound ==
  ASSUME NEW s, Sound(s), NEW init, NEW end \in Round
  PROVE  Sound(CalculateStableStateAndCumulativeDigests(s, init, end))
<1> DEFINE visited == Visited(s, init, end)
           added == (visited \cup {end}) \cap LoggedRounds(s)
           upTo(r) == IF r = end THEN OldStateWith(s, added)
                      ELSE OldStateWith(s, {q \in visited : q <= r})
           D == LoggedRounds(s) \cup {end}
           log == [r \in D |-> IF r \in visited \cup {end}
                               THEN [EntryOf(s, r) EXCEPT !.cd = {upTo(r)}]
                               ELSE s.log[r]]
           old == OldStateWith(s, added)
<1>0. s \in NodeType
  BY DEF Sound
<1>1. visited \in SUBSET LoggedRounds(s) /\ added \in SUBSET LoggedRounds(s)
  BY DEF Visited
<1> HIDE DEF visited, added
<1>2. \A r : upTo(r) \in State
  BY <1>0, <1>1, OldStateWithType
<1>3. old \in State
  BY <1>0, <1>1, OldStateWithType
<1> HIDE DEF upTo
<1>4. D \in SUBSET Round /\ IsFiniteSet(D)
  BY <1>0, LogFacts, FS_AddElement
<1>5. \A r : [EntryOf(s, r) EXCEPT !.cd = {upTo(r)}] \in Entry
  <2> SUFFICES ASSUME NEW r
               PROVE  [EntryOf(s, r) EXCEPT !.cd = {upTo(r)}] \in Entry
    OBVIOUS
  <2>1. EntryOf(s, r) \in Entry
    BY <1>0, EntryOfType
  <2>2. {upTo(r)} \in Option(Digest)
    BY <1>2, OptionType DEF Digest
  <2> QED BY <2>1, <2>2 DEF Entry
<1>6. log \in [D -> Entry]
  BY <1>0, <1>5, LogFacts
<1>7. log \in Log
  BY <1>4, <1>6, LogType
<1> HIDE DEF log, old
<1>8. Sound([s EXCEPT !.oldState = old, !.log = log])
  BY <1>3, <1>7 DEF Sound, NodeType, RoundsOK
<1> QED BY <1>8
        DEF CalculateStableStateAndCumulativeDigests, log, old, upTo, visited, added

LEMMA CalculateFrame ==
  ASSUME NEW s \in NodeType, NEW init, NEW end
  PROVE  LET t == CalculateStableStateAndCumulativeDigests(s, init, end)
         IN  /\ t.currentRound = s.currentRound
             /\ t.stabilizingRound = s.stabilizingRound
             /\ t.stableRound = s.stableRound
             /\ t.lastRecoveryRound = s.lastRecoveryRound
  BY DEF CalculateStableStateAndCumulativeDigests, NodeType

\* Half way from the round that is stable now to the current one, rounded down.
LEMMA NextStabilizingBounds ==
  ASSUME NEW stable \in Nat, NEW current \in Nat, stable <= current
  PROVE  /\ NextStabilizing(stable, current) \in Nat
         /\ stable <= NextStabilizing(stable, current)
         /\ NextStabilizing(stable, current) <= current
         /\ NextStabilizing(stable, current) = current => stable = current
  BY DEF NextStabilizing

LEMMA SetStableStateSound ==
  ASSUME NEW s, Sound(s)
  PROVE  Sound(SetStableState(s))
<1> DEFINE end == s.stabilizingRound
           t == CalculateStableStateAndCumulativeDigests(
                    s, The(InitRound(s)), end)
           next == NextStabilizing(end, s.currentRound)
<1>0. s \in NodeType /\ RoundsOK(s) /\ end \in Nat /\ s.currentRound \in Nat
  BY DEF Sound, NodeType, Round
<1>1. Sound(t)
  BY <1>0, CalculateSound DEF Round
<1>2. /\ t.currentRound = s.currentRound /\ t.stabilizingRound = end
      /\ t.stableRound = s.stableRound
      /\ t.lastRecoveryRound = s.lastRecoveryRound
  BY <1>0, CalculateFrame
<1>3. /\ next \in Nat /\ end <= next /\ next <= s.currentRound
      /\ next = s.currentRound => end = s.currentRound
  BY <1>0, NextStabilizingBounds DEF RoundsOK
<1> HIDE DEF t, next, end
<1>4. t \in NodeType /\ RoundsOK(t)
  BY <1>1 DEF Sound
<1>5. [t EXCEPT !.stableRound = end, !.stabilizingRound = next] \in NodeType
  BY <1>0, <1>3, <1>4 DEF NodeType, Round
<1>6. end >= 1 /\ s.lastRecoveryRound <= end
      /\ (end = s.currentRound => s.currentRound = 1)
  BY <1>0 DEF RoundsOK, NodeType, Round, end
<1>7. RoundsOK([t EXCEPT !.stableRound = end, !.stabilizingRound = next])
  BY <1>0, <1>2, <1>3, <1>4, <1>6 DEF RoundsOK, NodeType, Round
<1> QED BY <1>5, <1>7, CrashSound DEF SetStableState, Sound, t, next, end

----------------------------------------------------------------------------
(* Timeouts. *)

LEMMA OnQuietSound ==
  ASSUME NEW s, Sound(s)
  PROVE  Sound(OnQuiet(s)) /\ OnQuiet(s).currentRound = s.currentRound
<1> DEFINE reset == [s EXCEPT !.dataTimeouts = 0]
<1>0. s.stableRound \in Round /\ {s.state} \in Option(Digest)
  BY OptionType DEF Sound, NodeType, Digest
<1>1. Sound(reset) /\ reset.currentRound = s.currentRound
  BY DEF Sound, NodeType, RoundsOK
<1> HIDE DEF reset
<1>2. /\ Sound(ScheduleCumulativeOnly(reset, s.stableRound, {s.state}))
      /\ ScheduleCumulativeOnly(reset, s.stableRound, {s.state}).currentRound
           = s.currentRound
  BY <1>0, <1>1, ScheduleSound
<1>3. Timeouts(s) \in Nat
  BY DEF Timeouts, Sound, NodeType
<1>4. /\ Sound([s EXCEPT !.dataTimeouts = Timeouts(s)])
      /\ [s EXCEPT !.dataTimeouts = Timeouts(s)].currentRound = s.currentRound
  BY <1>3 DEF Sound, NodeType, RoundsOK
<1> QED BY <1>2, <1>4 DEF OnQuiet, reset

LEMMA OnDataInterestTimeoutSound ==
  ASSUME NEW s, Sound(s), NEW i \in Interest
  PROVE  Sound(OnDataInterestTimeout(s, i))
<1> DEFINE t == OnQuiet(s)
           f == [round |-> i.round, retries |-> i.retries + 1]
<1>1. Sound(t) /\ t.currentRound = s.currentRound
  BY OnQuietSound
<1>2. f \in FishEvent
  BY DEF Interest, FishEvent
<1>3. s.currentRound \in Nat /\ i.round \in Nat /\ f.round = i.round
  BY DEF Sound, NodeType, Interest, Round
<1> HIDE DEF t, f
<1>4. i.round < s.currentRound => Sound([t EXCEPT !.fish = @ \cup {f}])
  BY <1>1, <1>2, <1>3 DEF Sound, NodeType, RoundsOK
<1> QED BY <1>1, <1>4 DEF OnDataInterestTimeout, t, f

LEMMA OnRecoInterestTimeoutSound ==
  ASSUME NEW s, Sound(s), s.currentRound >= 2, NEW u \in Node
  PROVE  Sound(OnRecoInterestTimeout(s, u))
<1>1. s.recoTimeouts + 1 \in Nat
  BY DEF Sound, NodeType
<1>2. Sound([s EXCEPT !.recoTimeouts = 0, !.pendingReco = @ \ {u}])
  BY DEF Sound, NodeType, RoundsOK
<1>3. [s EXCEPT !.recoTimeouts = @ + 1, !.recoDue = @ \cup {u}] \in NodeType
  BY <1>1 DEF Sound, NodeType
<1>4. RoundsOK([s EXCEPT !.recoTimeouts = @ + 1, !.recoDue = @ \cup {u}])
  BY DEF Sound, NodeType, RoundsOK, Round
<1> QED BY <1>2, <1>3, <1>4 DEF OnRecoInterestTimeout, Sound
=============================================================================
