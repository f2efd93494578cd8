--------------------------- MODULE Safety_proofs ---------------------------
(***************************************************************************)
(* No handler throws or dereferences NULL, logged rounds are past, and a   *)
(* session uses a round once: for any set of participants, any limits and  *)
(* any bounds.  The three hold together: a node can answer for a round     *)
(* because the round was used once, it is used once because logged rounds  *)
(* are past, and they are past because a packet answers an Interest of a   *)
(* round that has come.                                                    *)
(***************************************************************************)
EXTENDS RoundSync_proofs

OwnLeaf(s, n, r) == EntryOf(s, r).leaves[n]

\* The stable round is in the log, and every round from the last recovery to it
\* has a cumulative digest.
Digested(s) ==
    s.stableRound # 0 =>
        /\ s.stableRound \in LoggedRounds(s)
        /\ \A r \in LoggedRounds(s) :
             s.lastRecoveryRound <= r /\ r <= s.stableRound => s.log[r].cd # {}

\* What was logged is past, and can be sent again.
Answerable(s, n) ==
    \A r \in LoggedRounds(s) :
        /\ 1 <= r
        /\ r >= s.currentRound
             => r = 1 /\ s.stableRound = 1 /\ s.log[r].leaves[n] = NoLeaf
        /\ \A i \in s.log[r].info : i.cd # {}
        /\ s.log[r].leaves[n] = CumulativeOnlyData => s.log[r].info # {}

\* A packet is of a round gone by, and of the number logged for it.  A
\* publication may be missing in the log; a CumulativeOnly never is.
SentOK(s, n) ==
    /\ \A d \in s.sentData :
         /\ d.session = n /\ 1 <= d.round /\ d.round < s.currentRound
         /\ \/ OwnLeaf(s, n, d.round) = d.seq
            \/ OwnLeaf(s, n, d.round) = NoLeaf /\ d.seq # CumulativeOnlyData
    /\ \A d, e \in s.sentData : d.round = e.round => d.seq = e.seq

ReportsOK(s) ==
    /\ \A e \in s.produce : e.cd # {}
    /\ s.currentRound = 1 => s.produce = {}

Safe(s, n) ==
    /\ s.crashed = FALSE
    /\ Digested(s) /\ Answerable(s, n) /\ SentOK(s, n) /\ ReportsOK(s)

Good(s, n) == Sound(s) /\ Safe(s, n)

----------------------------------------------------------------------------
(* What a method leaves alone. *)

\* The log up to the exclude filters and the round digests.
SameLog(s, t) ==
    /\ LoggedRounds(t) = LoggedRounds(s)
    /\ \A r \in LoggedRounds(s) : /\ t.log[r].cd = s.log[r].cd
                                  /\ t.log[r].info = s.log[r].info
                                  /\ t.log[r].leaves = s.log[r].leaves

SameRounds(s, t) ==
    /\ t.currentRound = s.currentRound
    /\ t.stableRound = s.stableRound
    /\ t.lastRecoveryRound = s.lastRecoveryRound

Frame(s, t) ==
    /\ t.crashed = s.crashed /\ t.produce = s.produce /\ t.sentData = s.sentData
    /\ SameRounds(s, t) /\ SameLog(s, t)

LEMMA FrameTransitive ==
  ASSUME NEW s, NEW t, NEW u, Frame(s, t), Frame(t, u)
  PROVE  Frame(s, u)
  BY DEF Frame, SameRounds, SameLog

LEMMA OwnLeafSame ==
  ASSUME NEW s, NEW t, NEW n \in Node, NEW r, SameLog(s, t)
  PROVE  OwnLeaf(t, n, r) = OwnLeaf(s, n, r)
  BY DEF OwnLeaf, EntryOf, SameLog

LEMMA FrameSafe ==
  ASSUME NEW s, NEW t, NEW n \in Node, Safe(s, n), Frame(s, t)
  PROVE  Safe(t, n)
<1>1. \A r : OwnLeaf(t, n, r) = OwnLeaf(s, n, r)
  BY OwnLeafSame DEF Frame
<1>2. Digested(t)
  BY DEF Safe, Frame, SameRounds, SameLog, Digested
<1>3. Answerable(t, n)
  BY DEF Safe, Frame, SameRounds, SameLog, Answerable
<1>4. SentOK(t, n)
  BY <1>1 DEF Safe, Frame, SameRounds, SentOK
<1>5. ReportsOK(t)
  BY DEF Safe, Frame, SameRounds, ReportsOK
<1> QED BY <1>2, <1>3, <1>4, <1>5 DEF Safe, Frame

\* Reports come and go.
LEMMA ReportsSafe ==
  ASSUME NEW s, NEW t, NEW n \in Node, Safe(s, n), ReportsOK(t),
         t.crashed = FALSE, t.sentData = s.sentData, SameRounds(s, t),
         SameLog(s, t)
  PROVE  Safe(t, n)
<1>1. \A r : OwnLeaf(t, n, r) = OwnLeaf(s, n, r)
  BY OwnLeafSame
<1>2. Digested(t)
  BY DEF Safe, SameRounds, SameLog, Digested
<1>3. Answerable(t, n)
  BY DEF Safe, SameRounds, SameLog, Answerable
<1>4. SentOK(t, n)
  BY <1>1 DEF Safe, SameRounds, SentOK
<1> QED BY <1>2, <1>3, <1>4 DEF Safe

\* The node moves to a later round.
LEMMA MovedSafe ==
  ASSUME NEW s, NEW t, NEW n \in Node, Good(s, n), Sound(t),
         t.crashed = s.crashed, t.produce = s.produce, t.sentData = s.sentData,
         t.stableRound = s.stableRound,
         t.lastRecoveryRound = s.lastRecoveryRound,
         SameLog(s, t), t.currentRound > s.currentRound
  PROVE  Safe(t, n)
<1>0. /\ s.currentRound \in Nat /\ t.currentRound \in Nat /\ s.currentRound >= 1
      /\ LoggedRounds(s) \subseteq Nat /\ s.sentData \in SUBSET Packet
  BY LogFacts DEF Good, Sound, NodeType, RoundsOK, Round
<1>1. \A r : OwnLeaf(t, n, r) = OwnLeaf(s, n, r)
  BY OwnLeafSame
<1>2. Digested(t)
  BY DEF Good, Safe, SameLog, Digested
<1>3. Answerable(t, n)
  BY <1>0 DEF Good, Safe, SameLog, Answerable
<1>4. SentOK(t, n)
  BY <1>0, <1>1 DEF Good, Safe, SentOK, Packet, Round
<1>5. ReportsOK(t)
  BY <1>0 DEF Good, Safe, ReportsOK
<1> QED BY <1>2, <1>3, <1>4, <1>5 DEF Good, Safe

----------------------------------------------------------------------------
(* Frames of the methods that touch neither log, packets nor reports. *)

Kept(s, t) ==
    /\ t.crashed = s.crashed /\ t.produce = s.produce /\ t.sentData = s.sentData
    /\ t.log = s.log
    /\ t.currentRound = s.currentRound /\ t.stableRound = s.stableRound
    /\ t.lastRecoveryRound = s.lastRecoveryRound

LEMMA KeptFrame ==
  ASSUME NEW s, NEW t, Kept(s, t)
  PROVE  Frame(s, t)
  BY DEF Kept, Frame, SameRounds, SameLog, LoggedRounds

LEMMA GoFishingFrame ==
  ASSUME NEW s \in NodeType, NEW R
  PROVE  Frame(s, GoFishing(s, R))
<1> DEFINE t == GoFishing(s, R)
<1>1. Kept(s, t)
  BY DEF GoFishing, Kept, NodeType
<1> HIDE DEF t
<1> QED BY <1>1, KeptFrame DEF t

LEMMA ApplyLeafFrame ==
  ASSUME NEW s \in NodeType, NEW d
  PROVE  Frame(s, ApplyLeaf(s, d))
<1> DEFINE t == ApplyLeaf(s, d)
<1>1. Kept(s, t)
  BY DEF ApplyLeaf, Kept, NodeType
<1> HIDE DEF t
<1> QED BY <1>1, KeptFrame DEF t

LEMMA RetryLaterFrame ==
  ASSUME NEW s \in NodeType, NEW u, NEW r, NEW cd
  PROVE  Frame(s, RetryLater(s, u, r, cd))
<1> DEFINE t == RetryLater(s, u, r, cd)
<1>1. Kept(s, t)
  BY DEF RetryLater, Kept, NodeType
<1> HIDE DEF t
<1> QED BY <1>1, KeptFrame DEF t

LEMMA SendDataInterestFrame ==
  ASSUME NEW s \in NodeType, NEW F, NEW p
  PROVE  Frame(s, SendDataInterest(s, F, p))
<1> DEFINE t == SendDataInterest(s, F, p)
<1>1. Kept(s, t)
  BY DEF SendDataInterest, Kept, NodeType
<1> HIDE DEF t
<1> QED BY <1>1, KeptFrame DEF t

LEMMA SendSyncInterestFrame ==
  ASSUME NEW s \in NodeType, NEW R, NEW p
  PROVE  Frame(s, SendSyncInterest(s, R, p))
<1> DEFINE t == SendSyncInterest(s, R, p)
<1>1. Kept(s, t)
  BY DEF SendSyncInterest, Kept, NodeType
<1> HIDE DEF t
<1> QED BY <1>1, KeptFrame DEF t

LEMMA SendRecoInterestFrame ==
  ASSUME NEW s \in NodeType, NEW U, NEW p
  PROVE  Frame(s, SendRecoInterest(s, U, p))
<1> DEFINE t == SendRecoInterest(s, U, p)
<1>1. Kept(s, t)
  BY DEF SendRecoInterest, Kept, NodeType
<1> HIDE DEF t
<1> QED BY <1>1, KeptFrame DEF t

LEMMA ProcessRecoInterestFrame ==
  ASSUME NEW s \in NodeType
  PROVE  Frame(s, ProcessRecoInterest(s))
<1> DEFINE t == ProcessRecoInterest(s)
<1>1. Kept(s, t)
  BY DEF ProcessRecoInterest, Kept, NodeType
<1> HIDE DEF t
<1> QED BY <1>1, KeptFrame DEF t

LEMMA OnRecoInterestTimeoutFrame ==
  ASSUME NEW s \in NodeType, NEW u
  PROVE  Frame(s, OnRecoInterestTimeout(s, u))
<1> DEFINE t == OnRecoInterestTimeout(s, u)
<1>1. Kept(s, t)
  BY DEF OnRecoInterestTimeout, Kept, NodeType
<1> HIDE DEF t
<1> QED BY <1>1, KeptFrame DEF t

LEMMA CheckRoundDigestsFrame ==
  ASSUME NEW s \in NodeType, NEW r, NEW rd
  PROVE  Frame(s, CheckRoundDigests(s, r, rd))
<1> DEFINE t == CheckRoundDigests(s, r, rd)
<1>1. Kept(s, t)
  BY DEF CheckRoundDigests, GoFishing, Kept, NodeType
<1> HIDE DEF t
<1> QED BY <1>1, KeptFrame DEF t

LEMMA RunDueEventsFrame ==
  ASSUME NEW s \in NodeType, NEW p
  PROVE  Frame(s, RunDueEvents(s, p))
<1> DEFINE t == RunDueEvents(s, p)
<1>1. Kept(s, t)
  BY DEF RunDueEvents, SendDataInterest, SendSyncInterest, SendRecoInterest,
         Kept, NodeType
<1> HIDE DEF t
<1> QED BY <1>1, KeptFrame DEF t

----------------------------------------------------------------------------
(* Packets out. *)

LEMMA PutEntryFacts ==
  ASSUME NEW s \in NodeType, NEW r, NEW e
  PROVE  LET t == PutEntry(s, r, e)
         IN  /\ t.crashed = s.crashed /\ t.produce = s.produce
             /\ t.sentData = s.sentData /\ SameRounds(s, t)
             /\ t.pendingDataInterest = s.pendingDataInterest
             /\ t.announce = s.announce
             /\ LoggedRounds(t) = LoggedRounds(s) \cup {r}
             /\ t.log[r] = e
             /\ \A q \in LoggedRounds(s) : q # r => t.log[q] = s.log[q]
<1> DEFINE log == [q \in LoggedRounds(s) \cup {r} |->
                     IF q = r THEN e ELSE s.log[q]]
           t == [s EXCEPT !.log = log]
<1>1. /\ t.crashed = s.crashed /\ t.produce = s.produce
      /\ t.sentData = s.sentData /\ SameRounds(s, t)
      /\ t.pendingDataInterest = s.pendingDataInterest
      /\ t.announce = s.announce /\ t.log = log
  BY DEF NodeType, SameRounds
<1>2. DOMAIN log = LoggedRounds(s) \cup {r}
  OBVIOUS
<1>3. log[r] = e /\ \A q \in LoggedRounds(s) : q # r => log[q] = s.log[q]
  OBVIOUS
<1>4. PutEntry(s, r, e) = t
  BY DEF PutEntry
<1> HIDE DEF log, t
<1> QED BY <1>1, <1>2, <1>3, <1>4 DEF LoggedRounds

LEMMA ExcludeFrame ==
  ASSUME NEW s \in NodeType, NEW d, NEW r
  PROVE  Frame(s, ExcludeCumulativeOnly(s, d, r))
<1>1. CASE r \notin LoggedRounds(s)
  BY <1>1 DEF ExcludeCumulativeOnly, Frame, SameRounds, SameLog
<1>2. CASE r \in LoggedRounds(s)
  <2> DEFINE e == [s.log[r] EXCEPT !.exclude = @ \cup {d}]
             t == PutEntry(s, r, e)
  <2>1. s.log[r] \in Entry
    BY <1>2, LogFacts
  <2>2. e.cd = s.log[r].cd /\ e.info = s.log[r].info /\ e.leaves = s.log[r].leaves
    BY <2>1 DEF Entry
  <2>3. ExcludeCumulativeOnly(s, d, r) = t
    BY <1>2 DEF ExcludeCumulativeOnly
  <2> HIDE DEF e
  <2>4. /\ t.crashed = s.crashed /\ t.produce = s.produce
        /\ t.sentData = s.sentData /\ SameRounds(s, t)
        /\ LoggedRounds(t) = LoggedRounds(s) /\ t.log[r] = e
        /\ \A q \in LoggedRounds(s) : q # r => t.log[q] = s.log[q]
    BY <1>2, PutEntryFacts
  <2> HIDE DEF t
  <2> QED BY <2>2, <2>3, <2>4 DEF Frame, SameLog
<1> QED BY <1>1, <1>2

\* t is s after it has put d on the network.
Sent(s, t, d) ==
    /\ t.crashed = s.crashed /\ t.produce = s.produce
    /\ t.sentData = s.sentData \cup {d}
    /\ SameRounds(s, t) /\ SameLog(s, t)

LEMMA PutDataSent ==
  ASSUME NEW s \in NodeType, NEW d
  PROVE  Sent(s, PutData(s, d), d)
<1> DEFINE t == PutData(s, d)
<1>1. /\ t.crashed = s.crashed /\ t.produce = s.produce
      /\ t.sentData = s.sentData \cup {d} /\ SameRounds(s, t) /\ t.log = s.log
  BY DEF PutData, NodeType, SameRounds
<1> HIDE DEF t
<1>2. SameLog(s, t)
  BY <1>1 DEF SameLog, LoggedRounds
<1> QED BY <1>1, <1>2 DEF Sent, t

LEMMA SendDataSent ==
  ASSUME NEW s \in NodeType, NEW n, NEW r, NEW q, NEW info,
         \A i \in info : i.cd # {}
  PROVE  Sent(s, SendData(s, n, r, q, info),
              [round |-> r, session |-> n, seq |-> q, info |-> info])
  BY PutDataSent DEF SendData

LEMMA SendCumulativeOnlySent ==
  ASSUME NEW s, Sound(s), NEW n \in Node, NEW name \in Round, NEW r \in Round,
         NEW cd \in Option(Digest), cd # {}
  PROVE  Sent(s, SendCumulativeOnly(s, n, name, r, cd),
              [round |-> name, session |-> n, seq |-> CumulativeOnlyData,
               info |-> {[round |-> r, cd |-> cd]}])
<1> DEFINE d == [round |-> name, session |-> n, seq |-> CumulativeOnlyData,
                 info |-> {[round |-> r, cd |-> cd]}]
           u == ExcludeCumulativeOnly(s, d, r)
           t == PutData(u, d)
<1>0. d \in Packet
  BY InfoType, PacketType DEF CumulativeOnlyData, SeqNo
<1>1. SendCumulativeOnly(s, n, name, r, cd) = t
  BY DEF SendCumulativeOnly
<1> HIDE DEF d
<1>2. Sound(u) /\ Frame(s, u)
  BY <1>0, ExcludeSound, ExcludeFrame DEF Sound
<1> HIDE DEF u
<1>3. Sent(u, t, d)
  BY <1>2, PutDataSent DEF Sound
<1> HIDE DEF t
<1>4. Sent(s, t, d)
  BY <1>2, <1>3 DEF Sent, Frame, SameRounds, SameLog
<1> QED BY <1>1, <1>4 DEF d

\* What the log holds for a past round is sent once more.
LEMMA SentAgainSafe ==
  ASSUME NEW s, NEW t, NEW n \in Node, NEW d, Good(s, n), Sent(s, t, d),
         d.session = n, d.round \in LoggedRounds(s),
         d.round < s.currentRound,
         OwnLeaf(s, n, d.round) = d.seq, d.seq # NoLeaf
  PROVE  Safe(t, n)
<1>1. \A r : OwnLeaf(t, n, r) = OwnLeaf(s, n, r)
  BY OwnLeafSame DEF Sent
<1>2. Digested(t)
  BY DEF Good, Safe, Sent, SameRounds, SameLog, Digested
<1>3. Answerable(t, n)
  BY DEF Good, Safe, Sent, SameRounds, SameLog, Answerable
<1>4. SentOK(t, n)
  <2>1. 1 <= d.round
    BY DEF Good, Safe, Answerable
  <2>2. \A e \in s.sentData : e.round = d.round => e.seq = d.seq
    BY DEF Good, Safe, SentOK
  <2> QED BY <1>1, <2>1, <2>2 DEF Good, Safe, Sent, SameRounds, SentOK
<1>5. ReportsOK(t)
  BY DEF Good, Safe, Sent, SameRounds, ReportsOK
<1> QED BY <1>2, <1>3, <1>4, <1>5 DEF Good, Safe, Sent

----------------------------------------------------------------------------
(* Rounds and Interests in. *)

LEMMA MoveSafe ==
  ASSUME NEW s, NEW n \in Node, Good(s, n), NEW r \in Round, r > s.currentRound
  PROVE  Safe(MoveToNewCurrentRound(s, r), n)
<1> DEFINE t == MoveToNewCurrentRound(s, r)
<1>1. Sound(t) /\ t.currentRound = r
  BY MoveToNewCurrentRoundSound DEF Good
<1>2. /\ t.crashed = s.crashed /\ t.produce = s.produce
      /\ t.sentData = s.sentData /\ t.log = s.log
      /\ t.stableRound = s.stableRound
      /\ t.lastRecoveryRound = s.lastRecoveryRound
  BY DEF MoveToNewCurrentRound, GoFishing, Good, Sound, NodeType
<1> HIDE DEF t
<1>3. SameLog(s, t)
  BY <1>2 DEF SameLog, LoggedRounds
<1>4. Safe(t, n)
  BY <1>1, <1>2, <1>3, MovedSafe
<1> QED BY <1>4 DEF t

LEMMA AnswerFromLogSafe ==
  ASSUME NEW s, NEW n \in Node, Good(s, n), NEW r \in Round,
         r < s.currentRound
  PROVE  Safe(AnswerFromLog(s, n, r), n)
<1> DEFINE q == s.log[r].leaves[n]
           info == s.log[r].info
           d(i) == [round |-> r, session |-> n, seq |-> q, info |-> i]
           co == [round |-> r, session |-> n, seq |-> CumulativeOnlyData,
                  info |-> {[round |-> The(info).round, cd |-> The(info).cd]}]
<1>0. Sound(s) /\ s \in NodeType /\ Safe(s, n)
  BY DEF Good, Sound
<1>1. CASE r \notin LoggedRounds(s) \/ q = NoLeaf
  BY <1>0, <1>1 DEF AnswerFromLog, LeafLogged
<1>2. CASE r \in LoggedRounds(s) /\ q # NoLeaf /\ q # CumulativeOnlyData
  <2>1. AnswerFromLog(s, n, r) = SendData(s, n, r, q, {})
    BY <1>2 DEF AnswerFromLog, LeafLogged
  <2>2. Sent(s, SendData(s, n, r, q, {}), d({}))
    BY <1>0, SendDataSent
  <2>3. OwnLeaf(s, n, r) = q
    BY <1>2 DEF OwnLeaf, EntryOf
  <2>4. /\ d({}).session = n /\ d({}).round = r /\ d({}).seq = q
    OBVIOUS
  <2> HIDE DEF d, q
  <2>5. Safe(SendData(s, n, r, q, {}), n)
    BY <1>2, <2>2, <2>3, <2>4, SentAgainSafe
  <2> QED BY <2>1, <2>5
<1>3. CASE r \in LoggedRounds(s) /\ q = CumulativeOnlyData
  <2>1. info # {} /\ \A i \in info : i.cd # {}
    BY <1>0, <1>3 DEF Safe, Answerable
  <2>2. info \in Option(Info)
    BY <1>0, <1>3, LogFacts DEF Entry
  <2>3. The(info) \in info /\ The(info) \in Info
    BY <2>1, <2>2, OptionType
  <2>4. /\ The(info).round \in Round /\ The(info).cd \in Option(Digest)
        /\ The(info).cd # {}
    BY <2>1, <2>3 DEF Info
  <2>5. AnswerFromLog(s, n, r)
          = SendCumulativeOnly(s, n, r, The(info).round, The(info).cd)
    BY <1>3, <2>1 DEF AnswerFromLog, LeafLogged, CumulativeOnlyData, NoLeaf
  <2>6. Sent(s, AnswerFromLog(s, n, r), co)
    BY <1>0, <2>4, <2>5, SendCumulativeOnlySent
  <2>7. OwnLeaf(s, n, r) = CumulativeOnlyData
    BY <1>3 DEF OwnLeaf, EntryOf
  <2>8. co.session = n /\ co.round = r /\ co.seq = CumulativeOnlyData
    OBVIOUS
  <2> HIDE DEF co
  <2>9. CumulativeOnlyData # NoLeaf
    BY DEF CumulativeOnlyData, NoLeaf
  <2> QED BY <1>3, <2>6, <2>7, <2>8, <2>9, SentAgainSafe
<1> QED BY <1>1, <1>2, <1>3

LEMMA ProcessDataInterestSafe ==
  ASSUME NEW s, NEW n \in Node, Good(s, n), NEW r \in Round
  PROVE  Safe(ProcessDataInterest(s, n, r), n)
<1> DEFINE recorded == [s EXCEPT !.pendingDataInterest = r]
<1>1. Kept(s, recorded)
  BY DEF Kept, Good, Sound, NodeType
<1>2. Sound(recorded) /\ recorded.currentRound = s.currentRound
  BY DEF Good, Sound, NodeType, RoundsOK
<1>3. s.currentRound \in Nat /\ r \in Nat
  BY DEF Good, Sound, NodeType, Round
<1> HIDE DEF recorded
<1>4. Good(recorded, n)
  BY <1>1, <1>2, KeptFrame, FrameSafe DEF Good
<1>5. r > s.currentRound => Safe(MoveToNewCurrentRound(recorded, r), n)
  BY <1>2, <1>4, MoveSafe
<1>6. r < s.currentRound => Safe(AnswerFromLog(s, n, r), n)
  BY AnswerFromLogSafe
<1> QED BY <1>4, <1>5, <1>6 DEF ProcessDataInterest, recorded, Good

LEMMA ProcessSyncInterestSafe ==
  ASSUME NEW s, NEW n \in Node, Good(s, n), NEW r \in Round, NEW rd
  PROVE  Safe(ProcessSyncInterest(s, r, rd), n)
<1>1. s.currentRound \in Nat /\ r \in Nat /\ s \in NodeType
  BY DEF Good, Sound, NodeType, Round
<1>2. r >= s.currentRound => Safe(MoveToNewCurrentRound(s, r + 1), n)
  BY <1>1, MoveSafe DEF Round
<1>3. Safe(CheckRoundDigests(s, r, rd), n)
  BY <1>1, CheckRoundDigestsFrame, FrameSafe DEF Good
<1> QED BY <1>2, <1>3 DEF ProcessSyncInterest, Good

----------------------------------------------------------------------------
(* Reports and recovery. *)

Steady(s, t) == /\ t.sentData = s.sentData
                /\ SameRounds(s, t) /\ SameLog(s, t)

LEMMA SteadyTransitive ==
  ASSUME NEW s, NEW t, NEW u, Steady(s, t), Steady(t, u)
  PROVE  Steady(s, u)
  BY DEF Steady, SameRounds, SameLog

LEMMA ScheduleSafe ==
  ASSUME NEW s, NEW n \in Node, Good(s, n), s.currentRound >= 2,
         NEW r, NEW cd, cd # {}
  PROVE  /\ Safe(ScheduleCumulativeOnly(s, r, cd), n)
         /\ Steady(s, ScheduleCumulativeOnly(s, r, cd))
<1> DEFINE e == [round |-> r, cd |-> cd, tracked |-> cd \notin s.cdEvents]
           t == ScheduleCumulativeOnly(s, r, cd)
<1>1. e.cd = cd
  OBVIOUS
<1>2. /\ t.crashed = s.crashed /\ t.sentData = s.sentData /\ t.log = s.log
      /\ t.produce = s.produce \cup {e} /\ SameRounds(s, t)
  BY DEF ScheduleCumulativeOnly, SameRounds, Good, Sound, NodeType
<1> HIDE DEF e, t
<1>3. SameLog(s, t)
  BY <1>2 DEF SameLog, LoggedRounds
<1>4. ReportsOK(t)
  BY <1>1, <1>2 DEF ReportsOK, SameRounds, Good, Safe, Sound, NodeType, Round
<1>5. Safe(t, n)
  BY <1>2, <1>3, <1>4, ReportsSafe DEF Good, Safe
<1> QED BY <1>2, <1>3, <1>5 DEF Steady, t

LEMMA CancelSafe ==
  ASSUME NEW s, NEW n \in Node, Good(s, n), NEW cd
  PROVE  /\ Safe(CancelCumulativeOnly(s, cd), n)
         /\ Steady(s, CancelCumulativeOnly(s, cd))
<1> DEFINE t == CancelCumulativeOnly(s, cd)
<1>1. /\ t.crashed = s.crashed /\ t.sentData = s.sentData /\ t.log = s.log
      /\ t.produce \subseteq s.produce /\ SameRounds(s, t)
  BY DEF CancelCumulativeOnly, SameRounds, Good, Sound, NodeType
<1> HIDE DEF t
<1>2. SameLog(s, t)
  BY <1>1 DEF SameLog, LoggedRounds
<1>3. ReportsOK(t)
  BY <1>1 DEF ReportsOK, SameRounds, Good, Safe
<1>4. Safe(t, n)
  BY <1>1, <1>2, <1>3, ReportsSafe DEF Good, Safe
<1> QED BY <1>1, <1>2, <1>4 DEF Steady, t

LEMMA DoRecoverySafe ==
  ASSUME NEW s, NEW n \in Node, Good(s, n), s.currentRound >= 2,
         NEW u \in Node, NEW r \in Round, NEW mine
  PROVE  /\ Safe(DoRecovery(s, u, r, mine), n)
         /\ Steady(s, DoRecovery(s, u, r, mine))
<1> DEFINE asked == [s EXCEPT
                       !.recoDue = IF u \in s.pendingReco THEN @ ELSE @ \cup {u},
                       !.pendingReco = @ \cup {u},
                       !.recoveryDesired = FALSE]
<1>1. Kept(s, asked)
  BY DEF Kept, Good, Sound, NodeType
<1>2. asked = DoRecovery(s, u, r, {})
  BY DEF DoRecovery
<1>3. {} \in Option(Digest)
  BY OptionType
<1>4. Sound(asked)
  BY <1>2, <1>3, DoRecoverySound DEF Good
<1>5. DoRecovery(s, u, r, mine) = IF mine = {} THEN asked
                                  ELSE ScheduleCumulativeOnly(asked, r, mine)
  BY DEF DoRecovery
<1> HIDE DEF asked
<1>6. Good(asked, n) /\ Steady(s, asked)
  BY <1>1, <1>4, KeptFrame, FrameSafe DEF Good, Frame, Steady
<1>7. mine # {} => /\ Safe(ScheduleCumulativeOnly(asked, r, mine), n)
                   /\ Steady(asked, ScheduleCumulativeOnly(asked, r, mine))
  BY <1>6, ScheduleSafe DEF Steady, SameRounds
<1>8. mine # {} => Steady(s, ScheduleCumulativeOnly(asked, r, mine))
  BY <1>6, <1>7, SteadyTransitive
<1> QED BY <1>5, <1>6, <1>7, <1>8 DEF Good

LEMMA CheckRecoverySafe ==
  ASSUME NEW s, NEW n \in Node, Good(s, n),
         s.stableRound # 0 => s.currentRound >= 2,
         NEW u \in Node, NEW r \in Round, NEW cd
  PROVE  /\ Safe(CheckRecovery(s, u, r, cd), n)
         /\ Steady(s, CheckRecovery(s, u, r, cd))
<1>0. s \in NodeType /\ Safe(s, n) /\ Steady(s, s) /\ r \in Nat
      /\ s.lastRecoveryRound \in Nat /\ s.stableRound \in Nat
  BY DEF Good, Sound, Steady, SameRounds, SameLog, NodeType, Round
<1>1. /\ Safe(RetryLater(s, u, r, cd), n)
      /\ Steady(s, RetryLater(s, u, r, cd))
  BY <1>0, RetryLaterFrame, FrameSafe DEF Frame, Steady
<1>2. s.stableRound # 0 => /\ Safe(DoRecovery(s, u, r, {}), n)
                           /\ Steady(s, DoRecovery(s, u, r, {}))
  BY DoRecoverySafe
<1>3. ASSUME s.stableRound # 0, s.lastRecoveryRound <= r, r <= s.stableRound
      PROVE  /\ Safe(CheckStable(s, u, r, cd), n)
             /\ Steady(s, CheckStable(s, u, r, cd))
  <2>1. r \in LoggedRounds(s) => s.log[r].cd # {}
    BY <1>0, <1>3 DEF Safe, Digested
  <2> QED BY <1>0, <1>3, <2>1, DoRecoverySafe DEF CheckStable
<1>4. CASE cd \in s.cdEvents
  BY <1>4, CancelSafe DEF CheckRecovery
<1>5. CASE cd \notin s.cdEvents /\ (r < s.lastRecoveryRound \/ s.stableRound = 0)
  BY <1>0, <1>5 DEF CheckRecovery
<1>6. CASE cd \notin s.cdEvents /\ ~(r < s.lastRecoveryRound \/ s.stableRound = 0)
  <2>1. CheckRecovery(s, u, r, cd)
          \in {CheckStable(s, u, r, cd), DoRecovery(s, u, r, {}),
               RetryLater(s, u, r, cd)}
        /\ (~(r <= s.stableRound) =>
              CheckRecovery(s, u, r, cd)
                \in {DoRecovery(s, u, r, {}), RetryLater(s, u, r, cd)})
    BY <1>6 DEF CheckRecovery
  <2> QED BY <1>0, <1>1, <1>2, <1>3, <1>6, <2>1
<1> QED BY <1>4, <1>5, <1>6

----------------------------------------------------------------------------
(* A packet of the node's own takes the current round. *)

\* t is s after it has logged q for the current round, unless the round had an
\* entry, and may have put packets of that number on the network.
Taken(s, t, n, q, info) ==
    /\ t.crashed = FALSE /\ t.produce = s.produce /\ SameRounds(s, t)
    /\ s.sentData \subseteq t.sentData
    /\ \A d \in t.sentData \ s.sentData :
         d.session = n /\ d.round = s.currentRound /\ d.seq = q
    /\ LoggedRounds(t) = LoggedRounds(s) \cup {s.currentRound}
    /\ \A r \in LoggedRounds(s) : /\ t.log[r].cd = s.log[r].cd
                                  /\ t.log[r].info = s.log[r].info
                                  /\ t.log[r].leaves = s.log[r].leaves
    /\ s.currentRound \notin LoggedRounds(s) =>
         /\ t.log[s.currentRound].info = info
         /\ t.log[s.currentRound].leaves[n] = q

LEMMA TakenRoundSafe ==
  ASSUME NEW s, NEW t, NEW n \in Node, Good(s, n), Sound(t),
         NEW q \in Nat, NEW info, Taken(s, t, n, q, info),
         \A i \in info : i.cd # {},
         q = CumulativeOnlyData =>
            info # {} /\ s.currentRound \notin LoggedRounds(s)
  PROVE  Safe(RoundUsed(t), n)
<1> DEFINE c == s.currentRound
           u == RoundUsed(t)
<1>0. /\ c \in Nat /\ c >= 1 /\ LoggedRounds(s) \subseteq Nat
      /\ s.stableRound \in Nat /\ s.stableRound <= c
      /\ s.sentData \in SUBSET Packet /\ t.currentRound = c
  BY LogFacts DEF Good, Sound, NodeType, RoundsOK, Taken, SameRounds, Round
<1>1. u.currentRound = c + 1
  BY <1>0, MoveToNewCurrentRoundSound DEF RoundUsed, Round
<1>2. /\ u.crashed = FALSE /\ u.produce = s.produce
      /\ u.sentData = t.sentData /\ u.log = t.log
      /\ u.stableRound = s.stableRound
      /\ u.lastRecoveryRound = s.lastRecoveryRound
  BY DEF RoundUsed, MoveToNewCurrentRound, GoFishing, Sound, NodeType, Taken,
         SameRounds
<1>3. LoggedRounds(u) = LoggedRounds(s) \cup {c}
  BY <1>2 DEF Taken, LoggedRounds
<1>4. \A r \in LoggedRounds(s) : /\ u.log[r].cd = s.log[r].cd
                                 /\ u.log[r].info = s.log[r].info
                                 /\ u.log[r].leaves = s.log[r].leaves
  BY <1>2 DEF Taken
<1>5. c \notin LoggedRounds(s) => u.log[c].info = info /\ u.log[c].leaves[n] = q
  BY <1>2 DEF Taken
<1>6. \A d \in u.sentData :
         d \in s.sentData \/ (d.session = n /\ d.round = c /\ d.seq = q)
  BY <1>2 DEF Taken
<1> HIDE DEF u, c
<1>7. Digested(u)
  <2>1. s.stableRound # 0 => s.stableRound \in LoggedRounds(s)
    BY DEF Good, Safe, Digested
  <2>2. ASSUME s.stableRound # 0, NEW r \in LoggedRounds(u),
               s.lastRecoveryRound <= r, r <= s.stableRound
        PROVE  u.log[r].cd # {}
    <3>1. r \in LoggedRounds(s)
      BY <1>0, <1>3, <2>1, <2>2
    <3> QED BY <1>4, <2>2, <3>1 DEF Good, Safe, Digested
  <2> QED BY <1>2, <1>3, <2>1, <2>2 DEF Digested
<1>8. Answerable(u, n)
  <2> SUFFICES ASSUME NEW r \in LoggedRounds(u)
               PROVE  /\ 1 <= r
                      /\ r >= u.currentRound
                           => /\ r = 1 /\ u.stableRound = 1
                              /\ u.log[r].leaves[n] = NoLeaf
                      /\ \A i \in u.log[r].info : i.cd # {}
                      /\ u.log[r].leaves[n] = CumulativeOnlyData
                           => u.log[r].info # {}
    BY DEF Answerable
  <2>1. CASE r \in LoggedRounds(s)
    BY <1>0, <1>1, <1>2, <1>4, <2>1 DEF Good, Safe, Answerable, c
  <2>2. CASE r \notin LoggedRounds(s)
    BY <1>0, <1>1, <1>3, <1>5, <2>2 DEF c
  <2> QED BY <2>1, <2>2
<1>9. SentOK(u, n)
  <2>1. \A d \in s.sentData : /\ d.session = n /\ 1 <= d.round /\ d.round < c
                              /\ d.round \in Nat
    BY <1>0 DEF Good, Safe, SentOK, Packet, Round, c
  <2>2. \A d \in s.sentData : OwnLeaf(u, n, d.round) = OwnLeaf(s, n, d.round)
    BY <1>0, <1>3, <1>4, <2>1 DEF OwnLeaf, EntryOf
  <2>3. \/ OwnLeaf(u, n, c) = q
        \/ OwnLeaf(u, n, c) = NoLeaf /\ q # CumulativeOnlyData
    <3>1. c \in LoggedRounds(u)
      BY <1>3
    <3>2. OwnLeaf(u, n, c) = u.log[c].leaves[n]
      BY <3>1 DEF OwnLeaf, EntryOf
    <3>3. c \in LoggedRounds(s) => u.log[c].leaves[n] = NoLeaf
      BY <1>0, <1>4 DEF Good, Safe, Answerable, c
    <3> QED BY <1>5, <3>2, <3>3 DEF c
  <2>4. \A d \in u.sentData :
           /\ d.session = n /\ 1 <= d.round /\ d.round < c + 1
           /\ \/ OwnLeaf(u, n, d.round) = d.seq
              \/ OwnLeaf(u, n, d.round) = NoLeaf /\ d.seq # CumulativeOnlyData
    <3> SUFFICES ASSUME NEW d \in u.sentData
                 PROVE  /\ d.session = n /\ 1 <= d.round /\ d.round < c + 1
                        /\ \/ OwnLeaf(u, n, d.round) = d.seq
                           \/ /\ OwnLeaf(u, n, d.round) = NoLeaf
                              /\ d.seq # CumulativeOnlyData
      OBVIOUS
    <3>1. CASE d \in s.sentData
      BY <1>0, <2>1, <2>2, <3>1 DEF Good, Safe, SentOK, c
    <3>2. CASE d \notin s.sentData
      BY <1>0, <1>6, <2>3, <3>2 DEF c
    <3> QED BY <3>1, <3>2
  <2>5. \A d, e \in u.sentData : d.round = e.round => d.seq = e.seq
    BY <1>0, <1>6, <2>1 DEF Good, Safe, SentOK, c
  <2> QED BY <1>1, <2>4, <2>5 DEF SentOK
<1>10. ReportsOK(u)
  BY <1>0, <1>1, <1>2 DEF Good, Safe, ReportsOK, c
<1> QED BY <1>2, <1>7, <1>8, <1>9, <1>10 DEF Safe, u

\* Logging e for the current round.
LEMMA LoggedTaken ==
  ASSUME NEW s, NEW k, NEW n \in Node, NEW q, NEW info, NEW e \in Entry,
         k \in NodeType, k.crashed = FALSE, k.produce = s.produce,
         SameRounds(s, k), SameLog(s, k), s.sentData \subseteq k.sentData,
         \A d \in k.sentData \ s.sentData :
            d.session = n /\ d.round = s.currentRound /\ d.seq = q,
         e.info = info, e.leaves[n] = q
  PROVE  Taken(s, UpdateDiffLog(k, s.currentRound, e), n, q, info)
<1> DEFINE c == s.currentRound
           f == [e EXCEPT !.rd = e.leaves]
           t == PutEntry(k, c, f)
<1>1. CASE c \in LoggedRounds(k)
  <2>1. UpdateDiffLog(k, c, e) = k
    BY <1>1 DEF UpdateDiffLog
  <2> QED BY <1>1, <2>1 DEF Taken, SameLog
<1>2. CASE c \notin LoggedRounds(k)
  <2>1. UpdateDiffLog(k, c, e) = t
    BY <1>2 DEF UpdateDiffLog
  <2>2. f.info = info /\ f.leaves[n] = q
    BY DEF Entry
  <2> HIDE DEF f
  <2>3. /\ t.crashed = k.crashed /\ t.produce = k.produce
        /\ t.sentData = k.sentData /\ SameRounds(k, t)
        /\ LoggedRounds(t) = LoggedRounds(k) \cup {c} /\ t.log[c] = f
        /\ \A r \in LoggedRounds(k) : r # c => t.log[r] = k.log[r]
    BY PutEntryFacts
  <2> HIDE DEF t
  <2> QED BY <1>2, <2>1, <2>2, <2>3 DEF Taken, SameLog, SameRounds
<1> QED BY <1>1, <1>2

LEMMA FrameTaken ==
  ASSUME NEW s, NEW t, NEW u, NEW n, NEW q, NEW info,
         Taken(s, t, n, q, info), Frame(t, u)
  PROVE  Taken(s, u, n, q, info)
  BY DEF Taken, Frame, SameRounds, SameLog

LEMMA SentTaken ==
  ASSUME NEW s, NEW t, NEW u, NEW n, NEW q, NEW info, NEW d,
         Taken(s, t, n, q, info), Sent(t, u, d),
         d.session = n, d.round = s.currentRound, d.seq = q
  PROVE  Taken(s, u, n, q, info)
  BY DEF Taken, Sent, SameRounds, SameLog

\* What a publication reports is a digest.
LEMMA StableInfoDigest ==
  ASSUME NEW s, NEW n, Good(s, n)
  PROVE  \A i \in StableInfo(s) : i.cd # {}
<1>1. s.stableRound # 0 => s.lastRecoveryRound <= s.stableRound
  BY DEF Good, Sound, RoundsOK
<1>2. s.stableRound \in Nat
  BY DEF Good, Sound, NodeType, Round
<1>3. s.stableRound # 0 /\ s.stableRound \in LoggedRounds(s)
        => s.log[s.stableRound].cd # {}
  BY <1>1, <1>2 DEF Good, Safe, Digested
<1> QED BY <1>3 DEF StableInfo

\* What a publication may change for those who look at the node again.
Grown(s, t) ==
    /\ s.sentData \subseteq t.sentData /\ t.stableRound = s.stableRound
    /\ s.currentRound <= t.currentRound
    /\ LoggedRounds(s) \subseteq LoggedRounds(t)

LEMMA TakenGrown ==
  ASSUME NEW s, NEW t, NEW n, NEW q, NEW info, Sound(t), Taken(s, t, n, q, info)
  PROVE  Grown(s, RoundUsed(t))
<1> DEFINE u == RoundUsed(t)
<1>1. /\ u.sentData = t.sentData /\ u.log = t.log
      /\ u.stableRound = t.stableRound
  BY DEF RoundUsed, MoveToNewCurrentRound, GoFishing, Sound, NodeType
<1>2. u.currentRound = t.currentRound + 1
  BY RoundUsedSound
<1>3. t.currentRound \in Nat /\ t.currentRound = s.currentRound
  BY DEF Sound, NodeType, Round, Taken, SameRounds
<1> HIDE DEF u
<1> QED BY <1>1, <1>2, <1>3 DEF Grown, Taken, SameRounds, LoggedRounds, u

LEMMA UpdateSeqNoSafe ==
  ASSUME NEW s, NEW n \in Node, Good(s, n), NEW q \in Nat
  PROVE  Safe(UpdateSeqNo(s, n, q), n) /\ Grown(s, UpdateSeqNo(s, n, q))
<1> DEFINE info == StableInfo(s)
           commit == [NewEntry EXCEPT !.leaves = Update(EmptyState, n, q),
                                      !.info = info]
           r == s.currentRound
           known == [s EXCEPT !.seqNo = q, !.state = Update(@, n, q)]
           logged == UpdateDiffLog(known, r, commit)
           d == [round |-> r, session |-> n, seq |-> q, info |-> info]
           entry == [logged.log[r] EXCEPT !.exclude = {d}]
           excluded == IF r \in LoggedRounds(s) THEN logged
                       ELSE PutEntry(logged, r, entry)
           out == SendData(excluded, n, r, q, info)
           sent == IF AnswersPending(s)
                   THEN [out EXCEPT !.pendingDataInterest = 0]
                   ELSE logged
           announced == [sent EXCEPT !.announce = @ \cup {r}]
<1>0. s \in NodeType /\ r \in Round /\ q \in SeqNo
  BY DEF Good, Sound, NodeType, SeqNo
<1>1. info \in Option(Info) /\ \A i \in info : i.cd # {}
  BY <1>0, StableInfoType, StableInfoDigest
<1>2. commit \in Entry /\ commit.info = info
  <2>1. Update(EmptyState, n, q) \in State
    BY <1>0, EmptyStateType, UpdateType
  <2> HIDE DEF info
  <2> QED BY <1>1, <2>1, NewEntryType DEF Entry
<1>3. commit.leaves[n] = q
  <2>1. Update(EmptyState, n, q)[n] = q
    BY DEF Update, EmptyState, NoLeaf
  <2>2. commit.leaves = Update(EmptyState, n, q)
    BY NewEntryType DEF Entry
  <2> QED BY <2>1, <2>2
<1>4. Sound(known) /\ Kept(s, known)
  <2>1. Update(s.state, n, q) \in State
    BY <1>0, UpdateType DEF NodeType
  <2> QED BY <1>0, <2>1 DEF Good, Sound, NodeType, RoundsOK, Kept
<1>5. d \in Packet /\ d.session = n /\ d.round = r /\ d.seq = q
  BY <1>0, <1>1, PacketType
<1> HIDE DEF info, commit, known, d
<1>6. Sound(logged) /\ r \in LoggedRounds(logged)
  BY <1>0, <1>2, <1>4, UpdateDiffLogSound
<1>7. Taken(s, logged, n, q, info)
  <2>1. Frame(s, known)
    BY <1>4, KeptFrame
  <2>2. known \in NodeType /\ known.crashed = FALSE /\ known.produce = s.produce
        /\ known.sentData = s.sentData
        /\ SameRounds(s, known) /\ SameLog(s, known)
    BY <1>4, <2>1 DEF Frame, Good, Safe, Sound
  <2> QED BY <1>2, <1>3, <2>2, LoggedTaken
<1> HIDE DEF logged
<1>8. Sound(excluded) /\ Frame(logged, excluded)
  <2>1. CASE r \in LoggedRounds(s)
    BY <1>6, <2>1 DEF Frame, SameRounds, SameLog
  <2>2. CASE r \notin LoggedRounds(s)
    <3>1. logged.log[r] \in Entry
      BY <1>6, LogFacts DEF Sound
    <3>2. entry \in Entry /\ entry.cd = logged.log[r].cd
          /\ entry.info = logged.log[r].info
          /\ entry.leaves = logged.log[r].leaves
      BY <1>5, <3>1 DEF Entry
    <3> HIDE DEF entry
    <3> DEFINE p == PutEntry(logged, r, entry)
    <3>3. /\ p.crashed = logged.crashed /\ p.produce = logged.produce
          /\ p.sentData = logged.sentData /\ SameRounds(logged, p)
          /\ LoggedRounds(p) = LoggedRounds(logged) \cup {r} /\ p.log[r] = entry
          /\ \A x \in LoggedRounds(logged) : x # r => p.log[x] = logged.log[x]
      BY <1>6, PutEntryFacts DEF Sound
    <3>4. Sound(p)
      BY <1>0, <1>6, <3>2, PutEntrySound
    <3> HIDE DEF p
    <3>5. Frame(logged, p)
      BY <1>6, <3>2, <3>3 DEF Frame, SameLog
    <3> QED BY <2>2, <3>4, <3>5 DEF p
  <2> QED BY <2>1, <2>2
<1> HIDE DEF excluded, entry
<1>9. Sound(out) /\ Taken(s, out, n, q, info)
  <2>1. Sound(out)
    BY <1>0, <1>1, <1>8, SendDataSound
  <2>2. Sent(excluded, out, d)
    BY <1>1, <1>8, SendDataSent DEF Sound, d
  <2> QED BY <1>5, <1>7, <1>8, <2>1, <2>2, FrameTaken, SentTaken
<1> HIDE DEF out
<1>10. Sound(sent) /\ Taken(s, sent, n, q, info)
  <2>1. /\ Sound([out EXCEPT !.pendingDataInterest = 0])
        /\ Kept(out, [out EXCEPT !.pendingDataInterest = 0])
    BY <1>9, AnsweredSound DEF Sound, NodeType, Kept
  <2> QED BY <1>6, <1>7, <1>9, <2>1, KeptFrame, FrameTaken
<1> HIDE DEF sent
<1>11. Sound(announced) /\ Kept(sent, announced)
  BY <1>0, <1>10 DEF Sound, NodeType, RoundsOK, Kept
<1> HIDE DEF announced
<1>12. Taken(s, announced, n, q, info)
  BY <1>10, <1>11, KeptFrame, FrameTaken
<1>13. q # 0 => Safe(RoundUsed(announced), n)
  BY <1>1, <1>11, <1>12, TakenRoundSafe DEF CumulativeOnlyData
<1>13a. Grown(s, RoundUsed(announced))
  BY <1>11, <1>12, TakenGrown
<1>14. Kept(s, [s EXCEPT !.seqNo = q])
  BY <1>0 DEF Kept, NodeType
<1>15. Safe([s EXCEPT !.seqNo = q], n)
  BY <1>0, <1>14, KeptFrame, FrameSafe DEF Good
<1>15a. Grown(s, [s EXCEPT !.seqNo = q])
  <2> DEFINE u == [s EXCEPT !.seqNo = q]
  <2>1. /\ u.currentRound = s.currentRound /\ u.stableRound = s.stableRound
        /\ u.sentData = s.sentData /\ u.log = s.log
        /\ LoggedRounds(u) = LoggedRounds(s)
    BY <1>0 DEF NodeType, LoggedRounds
  <2> HIDE DEF u
  <2>2. Grown(s, u)
    BY <1>0, <2>1 DEF Grown, Round
  <2> QED BY <2>2 DEF u
<1>16. Grown(s, s)
  BY <1>0 DEF Grown, Round
<1> QED BY <1>13, <1>13a, <1>15, <1>15a, <1>16
        DEF UpdateSeqNo, announced, sent, out, excluded, entry, d, logged, known,
            commit, info, Good

\* A report that was scheduled goes out after round 1, so its round is unused.
LEMMA ProduceCumulativeOnlySafe ==
  ASSUME NEW s, NEW n \in Node, Good(s, n), s.currentRound >= 2,
         NEW r \in Round, NEW cd \in Option(Digest), cd # {}
  PROVE  Safe(ProduceCumulativeOnly(s, n, r, cd), n)
<1> DEFINE c == s.currentRound
           info == {[round |-> r, cd |-> cd]}
           d == [round |-> c, session |-> n, seq |-> CumulativeOnlyData,
                 info |-> info]
           out == SendCumulativeOnly(s, n, c, r, cd)
           sent == IF AnswersPending(s)
                   THEN [out EXCEPT !.pendingDataInterest = 0] ELSE s
           e == CumulativeOnlyEntry(n, r, cd)
           t == UpdateDiffLog(sent, c, e)
<1>0. s \in NodeType /\ c \in Round /\ c \in Nat
  BY DEF Good, Sound, NodeType, Round
<1>1. c \notin LoggedRounds(s)
  BY <1>0 DEF Good, Safe, Answerable
<1>2. \A i \in info : i.cd # {}
  OBVIOUS
<1>3. info # {}
  OBVIOUS
<1>4. d.session = n /\ d.round = c /\ d.seq = CumulativeOnlyData
  OBVIOUS
<1>5. e \in Entry /\ e.info = info /\ e.leaves[n] = CumulativeOnlyData
  <2>1. /\ Update(EmptyState, n, CumulativeOnlyData) \in State
        /\ Update(EmptyState, n, CumulativeOnlyData)[n] = CumulativeOnlyData
    BY EmptyStateType, UpdateType
       DEF CumulativeOnlyData, SeqNo, Update, EmptyState, NoLeaf
  <2> QED BY <2>1, InfoType, NewEntryType DEF CumulativeOnlyEntry, Entry
<1>6. Sound(out) /\ Sent(s, out, d)
  BY <1>0, SendCumulativeOnlySound, SendCumulativeOnlySent DEF Good
<1> HIDE DEF info, d, out, e
<1>7. Sound([out EXCEPT !.pendingDataInterest = 0])
      /\ Kept(out, [out EXCEPT !.pendingDataInterest = 0])
  BY <1>6, AnsweredSound DEF Sound, NodeType, Kept
<1>8. /\ Sound(sent) /\ sent.crashed = FALSE /\ sent.produce = s.produce
      /\ SameRounds(s, sent) /\ SameLog(s, sent)
      /\ sent.sentData \subseteq s.sentData \cup {d}
      /\ s.sentData \subseteq sent.sentData
  <2>1. CASE AnswersPending(s)
    BY <1>6, <1>7, <2>1 DEF Sent, Kept, Good, Safe, SameRounds, SameLog, LoggedRounds
  <2>2. CASE ~AnswersPending(s)
    BY <2>2 DEF Good, Safe, SameRounds, SameLog
  <2> QED BY <2>1, <2>2
<1> HIDE DEF sent
<1>9. sent.currentRound = c
  BY <1>8 DEF SameRounds
<1>10. Sound(t)
  BY <1>0, <1>5, <1>8, UpdateDiffLogSound
<1>11. Taken(s, t, n, CumulativeOnlyData, info)
  <2>1. \A x \in sent.sentData \ s.sentData :
          x.session = n /\ x.round = c /\ x.seq = CumulativeOnlyData
    BY <1>4, <1>8
  <2>2. sent \in NodeType
    BY <1>8 DEF Sound
  <2> QED BY <1>5, <1>8, <2>1, <2>2, LoggedTaken
<1> HIDE DEF t
<1>12. CumulativeOnlyData \in Nat
  BY DEF CumulativeOnlyData
<1>13. Safe(RoundUsed(t), n)
  BY <1>1, <1>2, <1>3, <1>10, <1>11, <1>12, TakenRoundSafe
<1> QED BY <1>9, <1>13 DEF ProduceCumulativeOnly, t, sent, out, e, c

----------------------------------------------------------------------------
(* Data in. *)

\* A packet of a round that is past and not stable is logged.
LEMMA PutCommittedSafe ==
  ASSUME NEW s, NEW n \in Node, Good(s, n), NEW d \in Packet, NEW e \in Entry,
         1 <= d.round, d.round < s.currentRound, s.stableRound < d.round,
         d.session = n => d \in s.sentData,
         e.cd = EntryOf(s, d.round).cd, e.info = EntryOf(s, d.round).info,
         e.leaves = Update(EntryOf(s, d.round).leaves, d.session, d.seq)
  PROVE  Safe(PutEntry(s, d.round, e), n)
<1> DEFINE t == PutEntry(s, d.round, e)
           r == d.round
<1>0. /\ s \in NodeType /\ r \in Nat /\ d.seq \in Nat /\ d.session \in Node
      /\ s.currentRound \in Nat /\ s.stableRound \in Nat
      /\ LoggedRounds(s) \subseteq Nat
  BY LogFacts DEF Good, Sound, NodeType, Packet, SeqNo, Round
<1>1. /\ t.crashed = s.crashed /\ t.produce = s.produce
      /\ t.sentData = s.sentData /\ SameRounds(s, t)
      /\ LoggedRounds(t) = LoggedRounds(s) \cup {r} /\ t.log[r] = e
      /\ \A q \in LoggedRounds(s) : q # r => t.log[q] = s.log[q]
  BY <1>0, PutEntryFacts
<1> HIDE DEF t
<1>2. OwnLeaf(s, n, r) \in Nat \cup {NoLeaf}
  BY <1>0, EntryOfType DEF OwnLeaf, Entry, State
<1>3. e.leaves[n] = IF d.session = n /\ OwnLeaf(s, n, r) < d.seq THEN d.seq
                    ELSE OwnLeaf(s, n, r)
  BY <1>0, EntryOfType DEF OwnLeaf, Update, Entry, State
<1>4. \A q : OwnLeaf(t, n, q) = IF q = r THEN e.leaves[n] ELSE OwnLeaf(s, n, q)
  BY <1>1 DEF OwnLeaf, EntryOf
\* The node's own leaf is new only if it is a publication that comes back.
<1>5. \/ e.leaves[n] = OwnLeaf(s, n, r)
      \/ /\ d \in s.sentData /\ e.leaves[n] = d.seq
         /\ d.seq # CumulativeOnlyData
  <2>1. CASE d.session = n
    <3>1. \/ OwnLeaf(s, n, r) = d.seq
          \/ OwnLeaf(s, n, r) = NoLeaf /\ d.seq # CumulativeOnlyData
      BY <2>1 DEF Good, Safe, SentOK
    <3> QED BY <1>0, <1>3, <2>1, <3>1
  <2>2. CASE d.session # n
    BY <1>3, <2>2
  <2> QED BY <2>1, <2>2
<1>6. Digested(t)
  <2>1. ASSUME s.stableRound # 0, NEW q \in LoggedRounds(t),
               s.lastRecoveryRound <= q, q <= s.stableRound
        PROVE  t.log[q].cd # {}
    <3>1. q \in LoggedRounds(s) /\ t.log[q] = s.log[q]
      BY <1>0, <1>1, <2>1
    <3> QED BY <2>1, <3>1 DEF Good, Safe, Digested
  <2> QED BY <1>1, <2>1 DEF Good, Safe, Digested, SameRounds
<1>7. Answerable(t, n)
  <2> SUFFICES ASSUME NEW q \in LoggedRounds(t)
               PROVE  /\ 1 <= q
                      /\ q >= t.currentRound
                           => /\ q = 1 /\ t.stableRound = 1
                              /\ t.log[q].leaves[n] = NoLeaf
                      /\ \A i \in t.log[q].info : i.cd # {}
                      /\ t.log[q].leaves[n] = CumulativeOnlyData
                           => t.log[q].info # {}
    BY DEF Answerable
  <2>1. CASE q # r
    BY <1>1, <2>1 DEF Good, Safe, Answerable, SameRounds
  <2>2. CASE q = r
    <3>1. ~(r >= t.currentRound)
      BY <1>0, <1>1 DEF SameRounds
    <3>2. \A i \in e.info : i.cd # {}
      BY DEF Good, Safe, Answerable, EntryOf, NewEntry
    <3>3. e.leaves[n] = CumulativeOnlyData => e.info # {}
      <4> SUFFICES ASSUME e.leaves[n] = CumulativeOnlyData PROVE e.info # {}
        OBVIOUS
      <4>1. OwnLeaf(s, n, r) = CumulativeOnlyData
        BY <1>5
      <4>2. r \in LoggedRounds(s)
        BY <4>1 DEF OwnLeaf, EntryOf, NewEntry, EmptyState, NoLeaf,
                    CumulativeOnlyData
      <4> QED BY <4>1, <4>2 DEF Good, Safe, Answerable, OwnLeaf, EntryOf
    <3> QED BY <1>1, <2>2, <3>1, <3>2, <3>3
  <2> QED BY <2>1, <2>2
<1>8. SentOK(t, n)
  <2>1. \A x, y \in s.sentData : x.round = y.round => x.seq = y.seq
    BY DEF Good, Safe, SentOK
  <2>2. \A x \in s.sentData :
           /\ x.session = n /\ 1 <= x.round /\ x.round < s.currentRound
           /\ \/ OwnLeaf(s, n, x.round) = x.seq
              \/ OwnLeaf(s, n, x.round) = NoLeaf /\ x.seq # CumulativeOnlyData
    BY DEF Good, Safe, SentOK
  <2> HIDE DEF r
  <2>3. \A x \in s.sentData :
           \/ OwnLeaf(t, n, x.round) = x.seq
           \/ OwnLeaf(t, n, x.round) = NoLeaf /\ x.seq # CumulativeOnlyData
    BY <1>4, <1>5, <2>1, <2>2 DEF r
  <2> QED BY <1>1, <2>1, <2>2, <2>3 DEF SentOK, SameRounds
<1>9. ReportsOK(t)
  BY <1>1 DEF Good, Safe, ReportsOK, SameRounds
<1> QED BY <1>1, <1>6, <1>7, <1>8, <1>9 DEF Good, Safe, t

LEMMA MoveAfterSteady ==
  ASSUME NEW s, NEW n \in Node, Good(s, n), NEW d \in Packet,
         d.round <= s.currentRound
  PROVE  LET t == MoveAfter(s, d)
         IN  /\ Good(t, n) /\ d.round < t.currentRound
             /\ t.sentData = s.sentData /\ t.stableRound = s.stableRound
             /\ SameLog(s, t)
<1> DEFINE t == MoveToNewCurrentRound(s, d.round + 1)
<1>0. s.currentRound \in Nat /\ d.round \in Nat
  BY DEF Good, Sound, NodeType, Packet, Round
<1>1. CASE d.round = s.currentRound
  <2>1. MoveAfter(s, d) = t
    BY <1>1 DEF MoveAfter
  <2>2. Good(t, n) /\ t.currentRound = d.round + 1
    BY <1>0, <1>1, MoveToNewCurrentRoundSound, MoveSafe DEF Good, Round
  <2>3. /\ t.sentData = s.sentData /\ t.stableRound = s.stableRound
        /\ t.log = s.log
    BY DEF MoveToNewCurrentRound, GoFishing, Good, Sound, NodeType
  <2> HIDE DEF t
  <2> QED BY <1>0, <2>1, <2>2, <2>3 DEF SameLog, LoggedRounds
<1>2. CASE d.round # s.currentRound
  BY <1>0, <1>2 DEF MoveAfter, SameLog
<1> QED BY <1>1, <1>2

LEMMA AppliedSafe ==
  ASSUME NEW s, NEW n \in Node, Good(s, n), NEW d \in Packet,
         d.round <= s.currentRound, ~TooOld(s, d)
  PROVE  Good(Applied(s, d), n) /\ Steady(s, Applied(s, d))
<1> DEFINE i == The(d.info)
           checked == IF d.info = {} THEN s
                      ELSE CheckRecovery(s, d.session, i.round, i.cd)
<1>0. /\ d.round \in Nat /\ d.session \in Node /\ d.info \in Option(Info)
      /\ s.stableRound \in Nat /\ s.currentRound \in Nat
  BY DEF Packet, Good, Sound, NodeType, Round
<1>1. s.stableRound # 0 => s.currentRound >= 2
  BY <1>0 DEF TooOld
<1>2. d.info # {} => i.round \in Round /\ i.cd \in Option(Digest)
  BY <1>0, OptionType DEF Info
<1>3. Good(checked, n) /\ Steady(s, checked)
  <2>1. Steady(s, s)
    BY DEF Steady, SameRounds, SameLog
  <2>2. d.info # {} =>
           /\ Good(CheckRecovery(s, d.session, i.round, i.cd), n)
           /\ Steady(s, CheckRecovery(s, d.session, i.round, i.cd))
    BY <1>0, <1>1, <1>2, CheckRecoverySound, CheckRecoverySafe DEF Good
  <2> QED BY <2>1, <2>2
<1>4. Applied(s, d) = IF d.seq = CumulativeOnlyData THEN checked
                      ELSE ApplyLeaf(checked, d)
  BY DEF Applied
<1> HIDE DEF checked
<1>5. Frame(checked, ApplyLeaf(checked, d)) /\ Sound(ApplyLeaf(checked, d))
  BY <1>3, ApplyLeafFrame, ApplyLeafSound DEF Good, Sound
<1>6. Good(ApplyLeaf(checked, d), n) /\ Steady(checked, ApplyLeaf(checked, d))
  BY <1>3, <1>5, FrameSafe DEF Good, Frame, Steady
<1> QED BY <1>3, <1>4, <1>6, SteadyTransitive

LEMMA CommittedFacts ==
  ASSUME NEW s \in NodeType, NEW d \in Packet
  PROVE  /\ Committed(s, d) \in Entry
         /\ Committed(s, d).cd = EntryOf(s, d.round).cd
         /\ Committed(s, d).info = EntryOf(s, d.round).info
         /\ Committed(s, d).leaves
              = Update(EntryOf(s, d.round).leaves, d.session, d.seq)
  BY CommittedType, EntryOfType DEF Committed, Entry

LEMMA SyncDueSafe ==
  ASSUME NEW s \in NodeType, NEW n \in Node, Safe(s, n), NEW r
  PROVE  Safe([s EXCEPT !.syncDue = @ \cup {r}], n)
<1> DEFINE t == [s EXCEPT !.syncDue = @ \cup {r}]
<1>1. Kept(s, t)
  BY DEF Kept, NodeType
<1> HIDE DEF t
<1> QED BY <1>1, KeptFrame, FrameSafe DEF t

LEMMA ProcessDataSafe ==
  ASSUME NEW s, NEW n \in Node, Good(s, n), NEW d \in Packet,
         1 <= d.round, d.round <= s.currentRound,
         d.session = n => d \in s.sentData
  PROVE  Safe(ProcessData(s, d), n)
<1> DEFINE applied == Applied(s, d)
           moved == MoveAfter(applied, d)
           put == PutEntry(moved, d.round, Committed(s, d))
<1>0. /\ d.round \in Nat /\ s.stableRound \in Nat /\ s \in NodeType
  BY DEF Packet, Good, Sound, NodeType, Round
<1>1. CASE TooOld(s, d)
  BY <1>1 DEF ProcessData, Good
<1>2. CASE ~TooOld(s, d)
  <2>0. s.stableRound < d.round
    BY <1>0, <1>2 DEF TooOld
  <2>1. Good(applied, n) /\ Steady(s, applied)
    BY <1>2, AppliedSafe
  <2> HIDE DEF applied
  <2>2. /\ Good(moved, n) /\ d.round < moved.currentRound
        /\ moved.sentData = s.sentData /\ moved.stableRound = s.stableRound
        /\ SameLog(s, moved)
    BY <2>1, MoveAfterSteady DEF Steady, SameRounds, SameLog
  <2> HIDE DEF moved
  <2>3. /\ EntryOf(moved, d.round).cd = EntryOf(s, d.round).cd
        /\ EntryOf(moved, d.round).info = EntryOf(s, d.round).info
        /\ EntryOf(moved, d.round).leaves = EntryOf(s, d.round).leaves
    BY <2>2 DEF SameLog, EntryOf
  <2>4. Safe(put, n)
    BY <1>0, <2>0, <2>2, <2>3, CommittedFacts, PutCommittedSafe
  <2>5. put \in NodeType
    BY <1>0, <2>2, CommittedFacts, PutEntrySound DEF Good, Sound, Round
  <2> HIDE DEF put
  <2>6. Safe([put EXCEPT !.syncDue = @ \cup {d.round}], n)
    BY <2>4, <2>5, SyncDueSafe
  <2> QED BY <1>2, <2>6 DEF ProcessData, put, moved, applied
<1> QED BY <1>1, <1>2

\* A round that is logged and not stable is past, so the leaf may go to its
\* entry before the publication takes a round; an entry the publication has put
\* in the way of the packet's is kept.
LEMMA ProcessDataPublishingSafe ==
  ASSUME NEW s, NEW n \in Node, Good(s, n), NEW d \in Packet,
         1 <= d.round, d.round <= s.currentRound, ~TooOld(s, d),
         d.session = n => d \in s.sentData
  PROVE  Safe(ProcessDataPublishing(s, n, d), n)
<1> DEFINE r == d.round
           applied == Applied(s, d)
           called == IF r \in LoggedRounds(s)
                     THEN PutEntry(applied, r, Committed(s, d))
                     ELSE applied
           published == UpdateSeqNo(called, n, s.seqNo + 1)
           moved == MoveAfter(published, d)
           logged == UpdateDiffLog(moved, r, Committed(s, d))
<1>0. /\ r \in Nat /\ s.stableRound \in Nat /\ s.currentRound \in Nat
      /\ s \in NodeType /\ s.seqNo + 1 \in Nat /\ s.seqNo + 1 \in SeqNo
  BY DEF Packet, Good, Sound, NodeType, Round, SeqNo
<1>1. s.stableRound < r
  BY <1>0 DEF TooOld
<1>2. Good(applied, n) /\ Steady(s, applied)
  BY AppliedSafe
<1> HIDE DEF applied
<1>3. /\ Good(called, n) /\ called.currentRound = s.currentRound
      /\ called.stableRound = s.stableRound /\ called.sentData = s.sentData
      /\ LoggedRounds(called) = LoggedRounds(s)
  <2>1. CASE r \in LoggedRounds(s)
    <3>1. r < s.currentRound
      BY <1>0, <1>1, <2>1 DEF Good, Safe, Answerable
    <3>2. /\ EntryOf(applied, r).cd = EntryOf(s, r).cd
          /\ EntryOf(applied, r).info = EntryOf(s, r).info
          /\ EntryOf(applied, r).leaves = EntryOf(s, r).leaves
      BY <1>2 DEF Steady, SameLog, EntryOf
    <3> DEFINE put == PutEntry(applied, r, Committed(s, d))
    <3>3. applied.currentRound = s.currentRound
          /\ applied.stableRound = s.stableRound
          /\ applied.sentData = s.sentData
          /\ LoggedRounds(applied) = LoggedRounds(s)
      BY <1>2 DEF Steady, SameRounds, SameLog
    <3>4. Safe(put, n)
      BY <1>0, <1>1, <1>2, <3>1, <3>2, <3>3, CommittedFacts, PutCommittedSafe
    <3>5. Sound(put)
      BY <1>0, <1>2, CommittedFacts, PutEntrySound DEF Good, Round
    <3>6. /\ put.sentData = applied.sentData /\ SameRounds(applied, put)
          /\ LoggedRounds(put) = LoggedRounds(applied) \cup {r}
      BY <1>2, PutEntryFacts DEF Good, Sound
    <3> HIDE DEF put
    <3> QED BY <2>1, <3>3, <3>4, <3>5, <3>6 DEF Good, SameRounds, put
  <2>2. CASE r \notin LoggedRounds(s)
    BY <1>2, <2>2 DEF Steady, SameRounds, SameLog
  <2> QED BY <2>1, <2>2
<1> HIDE DEF called
<1>4. Good(published, n) /\ Grown(called, published)
  BY <1>0, <1>3, UpdateSeqNoSound, UpdateSeqNoSafe DEF Good
<1> HIDE DEF published
<1>5. r <= published.currentRound
  BY <1>0, <1>3, <1>4 DEF Grown, Good, Sound, NodeType, Round
<1>6. /\ Good(moved, n) /\ r < moved.currentRound
      /\ moved.sentData = published.sentData
      /\ moved.stableRound = published.stableRound
      /\ LoggedRounds(moved) = LoggedRounds(published)
  BY <1>4, <1>5, MoveAfterSteady DEF SameLog
<1> HIDE DEF moved
<1>7. Good(logged, n)
  <2>1. CASE r \in LoggedRounds(moved)
    BY <1>6, <2>1 DEF UpdateDiffLog
  <2>2. CASE r \notin LoggedRounds(moved)
    <3> DEFINE e == [Committed(s, d) EXCEPT !.rd = Committed(s, d).leaves]
    <3>1. r \notin LoggedRounds(s)
      BY <1>3, <1>4, <1>6, <2>2 DEF Grown
    <3>2. EntryOf(moved, r) = NewEntry /\ EntryOf(s, r) = NewEntry
      BY <2>2, <3>1 DEF EntryOf
    <3>3. /\ e \in Entry /\ e.cd = EntryOf(moved, r).cd
          /\ e.info = EntryOf(moved, r).info
          /\ e.leaves = Update(EntryOf(moved, r).leaves, d.session, d.seq)
      BY <1>0, <3>2, CommittedFacts DEF Entry, Digest
    <3>4. logged = PutEntry(moved, r, e)
      BY <2>2 DEF UpdateDiffLog
    <3> HIDE DEF e
    <3>5. moved.stableRound < r /\ (d.session = n => d \in moved.sentData)
      BY <1>1, <1>3, <1>4, <1>6 DEF Grown
    <3> QED BY <1>0, <1>6, <3>3, <3>4, <3>5, PutCommittedSafe, PutEntrySound
            DEF Good, Round
  <2> QED BY <2>1, <2>2
<1> HIDE DEF logged
<1>8. Safe([logged EXCEPT !.syncDue = @ \cup {r}], n)
  BY <1>7, SyncDueSafe DEF Good, Sound
<1> QED BY <1>8 DEF ProcessDataPublishing, logged, moved, published, called,
                    applied

LEMMA MergedFrame ==
  ASSUME NEW s \in NodeType, NEW u, NEW st
  PROVE  Frame(s, Merged(s, u, st))
<1> DEFINE t == Merged(s, u, st)
<1>1. Kept(s, t)
  BY DEF Merged, Kept, NodeType
<1> HIDE DEF t
<1> QED BY <1>1, KeptFrame DEF t

\* A recovery makes every round unstable and leaves the log as it is.
LEMMA ResumeSafe ==
  ASSUME NEW s, NEW n \in Node, Good(s, n), s.currentRound >= 2,
         NEW r \in Round
  PROVE  Safe(Resume(s, r), n)
<1> DEFINE moved == CatchUp(s, r)
           t == Resume(s, r)
<1>0. /\ s \in NodeType /\ r \in Nat /\ s.currentRound \in Nat
      /\ LoggedRounds(s) \subseteq Nat
  BY LogFacts DEF Good, Sound, NodeType, Round
<1>2. /\ moved.crashed = s.crashed /\ moved.produce = s.produce
      /\ moved.sentData = s.sentData /\ moved.log = s.log
      /\ moved.currentRound
           \in {s.currentRound, r + 1} /\ moved.currentRound >= s.currentRound
  BY <1>0 DEF CatchUp, MoveToNewCurrentRoundAfterRecovery, NodeType
<1>3. /\ t.crashed = moved.crashed /\ t.produce = moved.produce
      /\ t.sentData = moved.sentData /\ t.log = moved.log
      /\ t.currentRound = moved.currentRound /\ t.stableRound = 0
  BY <1>0 DEF Resume, Unstabilize, GoFishing, CatchUp,
              MoveToNewCurrentRoundAfterRecovery, NodeType
<1> HIDE DEF moved, t
<1>4. t.currentRound \in Nat /\ t.currentRound >= s.currentRound
      /\ t.log = s.log /\ t.sentData = s.sentData /\ t.produce = s.produce
  BY <1>0, <1>2, <1>3
<1>5. \A q : OwnLeaf(t, n, q) = OwnLeaf(s, n, q)
  BY <1>4 DEF OwnLeaf, EntryOf, LoggedRounds
<1>6. Digested(t)
  BY <1>3 DEF Digested
<1>7. Answerable(t, n)
  BY <1>0, <1>4 DEF Good, Safe, Answerable, LoggedRounds
<1>8. SentOK(t, n)
  <2>1. s.sentData \in SUBSET Packet
    BY <1>0 DEF NodeType
  <2> QED BY <1>0, <1>4, <1>5, <2>1 DEF Good, Safe, SentOK, Packet, Round
<1>9. ReportsOK(t)
  BY <1>0, <1>4 DEF Good, Safe, ReportsOK
<1>10. t.crashed = FALSE
  BY <1>2, <1>3 DEF Good, Safe
<1> QED BY <1>6, <1>7, <1>8, <1>9, <1>10 DEF Safe, t

LEMMA MergedSafe ==
  ASSUME NEW s, NEW n \in Node, Good(s, n), NEW u, NEW st \in State
  PROVE  Good(Merged(s, u, st), n)
  BY MergedSound, MergedFrame, FrameSafe DEF Good, Sound

LEMMA ProcessRecoDataSafe ==
  ASSUME NEW s, NEW n \in Node, Good(s, n), s.currentRound >= 2,
         NEW u \in Node, NEW r \in Round, NEW st \in State
  PROVE  Safe(ProcessRecoData(s, u, r, st), n)
  BY MergedSound, MergedSafe, ResumeSafe DEF ProcessRecoData, Good

LEMMA ProcessRecoDataPublishingSafe ==
  ASSUME NEW s, NEW n \in Node, Good(s, n), s.currentRound >= 2,
         NEW u \in Node, NEW r \in Round, NEW st \in State
  PROVE  Safe(ProcessRecoDataPublishing(s, n, u, r, st), n)
<1> DEFINE m == Merged(s, u, st)
           p == UpdateSeqNo(m, n, s.seqNo + 1)
<1>0. s.currentRound \in Nat /\ s.seqNo + 1 \in SeqNo /\ s.seqNo + 1 \in Nat
  BY DEF Good, Sound, NodeType, Round, SeqNo
<1>1. Good(m, n) /\ m.currentRound = s.currentRound
  BY MergedSound, MergedSafe DEF Good
<1> HIDE DEF m
<1>2. Good(p, n) /\ p.currentRound \in {s.currentRound, s.currentRound + 1}
  BY <1>0, <1>1, UpdateSeqNoSound, UpdateSeqNoSafe DEF Good
<1> HIDE DEF p
<1>3. p.currentRound >= 2
  BY <1>0, <1>2
<1>4. Safe(Resume(p, r), n)
  BY <1>2, <1>3, ResumeSafe
<1> QED BY <1>4 DEF ProcessRecoDataPublishing, p, m

----------------------------------------------------------------------------
(* Stabilization and timeouts. *)

LEMMA CalculateFacts ==
  ASSUME NEW s \in NodeType, NEW init, NEW end
  PROVE  LET t == CalculateStableStateAndCumulativeDigests(s, init, end)
         IN  /\ t.crashed = s.crashed /\ t.produce = s.produce
             /\ t.sentData = s.sentData
             /\ LoggedRounds(t) = LoggedRounds(s) \cup {end}
             /\ \A r \in LoggedRounds(t) :
                  /\ t.log[r].leaves = EntryOf(s, r).leaves
                  /\ t.log[r].info = EntryOf(s, r).info
                  /\ r \in Visited(s, init, end) \cup {end}
                       => t.log[r].cd # {}
                  /\ r \notin Visited(s, init, end) \cup {end}
                       => r \in LoggedRounds(s) /\ t.log[r] = s.log[r]
<1> DEFINE visited == Visited(s, init, end)
           added == (visited \cup {end}) \cap LoggedRounds(s)
           upTo(r) == IF r = end THEN OldStateWith(s, added)
                      ELSE OldStateWith(s, {q \in visited : q <= r})
           entry(r) == [EntryOf(s, r) EXCEPT !.cd = {upTo(r)}]
           D == LoggedRounds(s) \cup {end}
           log == [r \in D |-> IF r \in visited \cup {end} THEN entry(r)
                               ELSE s.log[r]]
           old == OldStateWith(s, added)
           t == [s EXCEPT !.oldState = old, !.log = log]
<1>1. t = CalculateStableStateAndCumulativeDigests(s, init, end)
  BY DEF CalculateStableStateAndCumulativeDigests
<1>2. \A r : /\ entry(r).leaves = EntryOf(s, r).leaves
             /\ entry(r).info = EntryOf(s, r).info
             /\ entry(r).cd # {}
  <2> SUFFICES ASSUME NEW r
               PROVE  /\ entry(r).leaves = EntryOf(s, r).leaves
                      /\ entry(r).info = EntryOf(s, r).info
                      /\ entry(r).cd # {}
    OBVIOUS
  <2>1. EntryOf(s, r) \in Entry
    BY EntryOfType
  <2> HIDE DEF upTo
  <2> QED BY <2>1 DEF Entry
<1> HIDE DEF entry, upTo, visited, added, old
<1>3. /\ t.crashed = s.crashed /\ t.produce = s.produce
      /\ t.sentData = s.sentData /\ t.log = log
  BY DEF NodeType
<1>4. DOMAIN log = D
  OBVIOUS
<1>5. \A r \in D : log[r] = IF r \in visited \cup {end} THEN entry(r)
                            ELSE s.log[r]
  OBVIOUS
<1> HIDE DEF log, t
<1>6. LoggedRounds(t) = D
  BY <1>3, <1>4 DEF LoggedRounds
<1>7. \A r \in D \ (visited \cup {end}) :
         r \in LoggedRounds(s) /\ EntryOf(s, r) = s.log[r]
  BY DEF EntryOf
<1>8. ASSUME NEW r \in LoggedRounds(t)
      PROVE  /\ t.log[r].leaves = EntryOf(s, r).leaves
             /\ t.log[r].info = EntryOf(s, r).info
             /\ r \in visited \cup {end} => t.log[r].cd # {}
             /\ r \notin visited \cup {end}
                  => r \in LoggedRounds(s) /\ t.log[r] = s.log[r]
  BY <1>2, <1>3, <1>5, <1>6, <1>7, <1>8
<1> QED BY <1>1, <1>3, <1>6, <1>8 DEF visited

\* There always is a round to stabilize from.
LEMMA InitRoundFacts ==
  ASSUME NEW s, Sound(s)
  PROVE  /\ InitRound(s) # {}
         /\ \/ The(InitRound(s)) = 1
            \/ /\ The(InitRound(s)) = s.stabilizingRound
               /\ s.stabilizingRound = s.lastRecoveryRound
            \/ /\ s.stableRound # 0
               /\ The(InitRound(s)) = s.stableRound + 1
<1>1. \A x : The({x}) = x
  BY DEF The
<1>2. s.stableRound = 0 /\ s.lastRecoveryRound # 0
        => s.stabilizingRound = s.lastRecoveryRound
  BY DEF Sound, RoundsOK
<1> QED BY <1>1, <1>2 DEF InitRound

LEMMA SetStableStateSafe ==
  ASSUME NEW s, NEW n \in Node, Good(s, n)
  PROVE  Safe(SetStableState(s), n)
<1> DEFINE end == s.stabilizingRound
           init == The(InitRound(s))
           k == CalculateStableStateAndCumulativeDigests(s, init, end)
           next == NextStabilizing(end, s.currentRound)
           t == [k EXCEPT !.stableRound = end, !.stabilizingRound = next]
<1>0. /\ s \in NodeType /\ RoundsOK(s) /\ end \in Nat /\ s.currentRound \in Nat
      /\ s.stableRound \in Nat /\ s.lastRecoveryRound \in Nat
      /\ LoggedRounds(s) \subseteq Nat
  BY LogFacts DEF Good, Sound, NodeType, Round
<1>1. /\ end >= 1 /\ end <= s.currentRound /\ s.stableRound <= end
      /\ (end = s.currentRound => s.currentRound = 1)
  BY <1>0 DEF RoundsOK
<1>2. /\ InitRound(s) # {}
      /\ \/ init = 1
         \/ init = end /\ end = s.lastRecoveryRound
         \/ s.stableRound # 0 /\ init = s.stableRound + 1
  BY InitRoundFacts DEF Good
<1>3. SetStableState(s) = t
  BY <1>2 DEF SetStableState
<1>4. /\ k.crashed = s.crashed /\ k.produce = s.produce
      /\ k.sentData = s.sentData
      /\ LoggedRounds(k) = LoggedRounds(s) \cup {end}
      /\ \A r \in LoggedRounds(k) :
           /\ k.log[r].leaves = EntryOf(s, r).leaves
           /\ k.log[r].info = EntryOf(s, r).info
           /\ r \in Visited(s, init, end) \cup {end} => k.log[r].cd # {}
           /\ r \notin Visited(s, init, end) \cup {end}
                => r \in LoggedRounds(s) /\ k.log[r] = s.log[r]
  BY <1>0, CalculateFacts
<1>5. /\ k \in NodeType /\ k.currentRound = s.currentRound
      /\ k.lastRecoveryRound = s.lastRecoveryRound
  BY <1>0, CalculateSound, CalculateFrame DEF Good, Sound, Round
<1> HIDE DEF k, next
<1>6. /\ t.crashed = FALSE /\ t.produce = s.produce /\ t.sentData = s.sentData
      /\ t.log = k.log /\ t.currentRound = s.currentRound
      /\ t.lastRecoveryRound = s.lastRecoveryRound /\ t.stableRound = end
  BY <1>4, <1>5 DEF NodeType, Good, Safe
<1> HIDE DEF t, init, end
<1>7. LoggedRounds(t) = LoggedRounds(s) \cup {end}
  BY <1>4, <1>6 DEF LoggedRounds
<1>8. \A r \in LoggedRounds(t) : /\ t.log[r].leaves = EntryOf(s, r).leaves
                                 /\ t.log[r].info = EntryOf(s, r).info
  BY <1>4, <1>6, <1>7
<1>9. Digested(t)
  <2> SUFFICES ASSUME NEW r \in LoggedRounds(t), s.lastRecoveryRound <= r,
                      r <= end
               PROVE  t.log[r].cd # {}
    BY <1>6, <1>7 DEF Digested
  <2>1. CASE r \in Visited(s, init, end) \cup {end}
    BY <1>4, <1>6, <1>7, <2>1
  <2>2. CASE r \notin Visited(s, init, end) \cup {end}
    <3>1. r \in LoggedRounds(s) /\ t.log[r] = s.log[r]
      BY <1>4, <1>6, <1>7, <2>2
    <3>2. 1 <= r /\ r \in Nat
      BY <1>0, <3>1 DEF Good, Safe, Answerable
    <3>3. r < end /\ ~(init <= r)
      BY <1>0, <2>2, <3>1, <3>2 DEF Visited
    <3>4. s.stableRound # 0 /\ r <= s.stableRound
      BY <1>0, <1>2, <3>2, <3>3
    <3> QED BY <3>1, <3>4 DEF Good, Safe, Digested
  <2> QED BY <2>1, <2>2
<1>10. Answerable(t, n)
  <2> SUFFICES ASSUME NEW r \in LoggedRounds(t)
               PROVE  /\ 1 <= r
                      /\ r >= t.currentRound
                           => /\ r = 1 /\ t.stableRound = 1
                              /\ t.log[r].leaves[n] = NoLeaf
                      /\ \A i \in t.log[r].info : i.cd # {}
                      /\ t.log[r].leaves[n] = CumulativeOnlyData
                           => t.log[r].info # {}
    BY DEF Answerable
  <2>1. CASE r \in LoggedRounds(s)
    <3>1. /\ t.log[r].leaves = s.log[r].leaves /\ t.log[r].info = s.log[r].info
      BY <1>8, <2>1 DEF EntryOf
    <3>2. r >= s.currentRound => end = 1
      BY <1>0, <1>1, <2>1 DEF Good, Safe, Answerable
    <3> QED BY <1>6, <2>1, <3>1, <3>2 DEF Good, Safe, Answerable
  <2>2. CASE r \notin LoggedRounds(s)
    <3>1. r = end
      BY <1>7, <2>2
    <3>2. t.log[r].info = {} /\ t.log[r].leaves[n] = NoLeaf
      BY <1>8, <2>2 DEF EntryOf, NewEntry, EmptyState
    <3>3. CumulativeOnlyData # NoLeaf
      BY DEF CumulativeOnlyData, NoLeaf
    <3>4. r >= t.currentRound => r = 1 /\ t.stableRound = 1
      BY <1>0, <1>1, <1>6, <3>1
    <3> QED BY <1>0, <1>1, <3>1, <3>2, <3>3, <3>4
  <2> QED BY <2>1, <2>2
<1>11. SentOK(t, n)
  <2>1. \A r : OwnLeaf(t, n, r) = OwnLeaf(s, n, r)
    BY <1>7, <1>8 DEF OwnLeaf, EntryOf
  <2> QED BY <1>6, <2>1 DEF Good, Safe, SentOK
<1>12. ReportsOK(t)
  BY <1>6 DEF Good, Safe, ReportsOK
<1> QED BY <1>3, <1>6, <1>9, <1>10, <1>11, <1>12 DEF Safe

\* Nothing is reported in round 1: the first stabilization comes first.
LEMMA OnQuietSafe ==
  ASSUME NEW s, NEW n \in Node, Good(s, n),
         FirstStabilizationPending(s)
           => s.dataTimeouts + 1 < MaxTimeoutsToCumulative
  PROVE  Safe(OnQuiet(s), n)
<1> DEFINE reset == [s EXCEPT !.dataTimeouts = 0]
<1>0. /\ s \in NodeType /\ s.dataTimeouts \in Nat /\ s.currentRound \in Nat
      /\ s.stableRound \in Nat /\ s.currentRound >= 1
      /\ MaxTimeoutsToCumulative \in Nat
  BY LimitsAssumption DEF Good, Sound, NodeType, RoundsOK, Round
<1>1. Sound(reset) /\ Kept(s, reset)
  BY DEF Good, Sound, NodeType, RoundsOK, Kept
<1>2. Kept(s, [s EXCEPT !.dataTimeouts = Timeouts(s)])
  BY <1>0 DEF Kept, NodeType
<1>3. Safe([s EXCEPT !.dataTimeouts = Timeouts(s)], n)
  BY <1>2, KeptFrame, FrameSafe DEF Good
<1> HIDE DEF reset
<1>4. Good(reset, n) /\ reset.currentRound = s.currentRound
  BY <1>1, KeptFrame, FrameSafe DEF Good, Kept
<1>5. Timeouts(s) >= MaxTimeoutsToCumulative
      /\ s.stableRound = s.currentRound - 1
        => s.currentRound >= 2
  BY <1>0 DEF Timeouts, FirstStabilizationPending
<1>6. s.currentRound >= 2
        => Safe(ScheduleCumulativeOnly(reset, s.stableRound, {s.state}), n)
  BY <1>4, ScheduleSafe
<1> QED BY <1>3, <1>5, <1>6 DEF OnQuiet, reset

LEMMA OnDataInterestTimeoutSafe ==
  ASSUME NEW s, NEW n \in Node, Good(s, n), NEW i \in Interest,
         FirstStabilizationPending(s)
           => s.dataTimeouts + 1 < MaxTimeoutsToCumulative
  PROVE  Safe(OnDataInterestTimeout(s, i), n)
<1> DEFINE t == OnQuiet(s)
           f == [round |-> i.round, retries |-> i.retries + 1]
<1>1. Safe(t, n) /\ t \in NodeType
  BY OnQuietSafe, OnQuietSound DEF Good, Sound
<1> HIDE DEF t, f
<1>2. Kept(t, [t EXCEPT !.fish = @ \cup {f}])
  BY <1>1 DEF Kept, NodeType
<1>3. Safe([t EXCEPT !.fish = @ \cup {f}], n)
  BY <1>1, <1>2, KeptFrame, FrameSafe
<1> QED BY <1>1, <1>3 DEF OnDataInterestTimeout, t, f

----------------------------------------------------------------------------
(* The system. *)

SInv == IInv /\ \A n \in Node : Safe(node[n], n)

LEMMA SInvInitially == Init => SInv
<1> SUFFICES ASSUME Init PROVE SInv
  OBVIOUS
<1>1. \A n \in Node : Safe(InitialNode, n)
  BY DEF InitialNode, Safe, Digested, Answerable, SentOK, ReportsOK, LoggedRounds
<1> QED BY <1>1, IInvInitially DEF Init, SInv

LEMMA GoodNode ==
  ASSUME SInv, NEW n \in Node
  PROVE  Good(node[n], n)
  BY NodeFacts DEF SInv, Good

\* A handler that leaves its node safe keeps every node safe.
LEMMA BecomesSafe ==
  ASSUME SInv, NEW n \in Node, NEW s, Sound(s), Safe(s, n), Becomes(n, s)
  PROVE  \A m \in Node : Safe(node[m], m)'
<1>1. Safe(After(s), n)
  BY RunDueEventsFrame, FrameSafe DEF After, Sound
<1>2. \A m \in Node : node'[m] = IF m = n THEN After(s) ELSE node[m]
  BY DEF SInv, IInv, Becomes
<1>3. \A m \in Node : Safe(node'[m], m)
  BY <1>1, <1>2 DEF SInv
<1> QED BY <1>3 DEF Safe, Digested, Answerable, SentOK, ReportsOK, OwnLeaf,
                    EntryOf, LoggedRounds

\* The node without the event that runs or the Interest that is answered.
LEMMA TakenSafe ==
  ASSUME NEW s, NEW n \in Node, Good(s, n), NEW e
  PROVE  /\ Good([s EXCEPT !.fish = @ \ {e}], n)
         /\ Good([s EXCEPT !.announce = @ \ {e}], n)
         /\ Good([s EXCEPT !.syncDue = @ \ {e}], n)
         /\ Good([s EXCEPT !.produce = @ \ {e}], n)
         /\ Good([s EXCEPT !.retry = @ \ {e}], n)
         /\ Good([s EXCEPT !.recoDue = @ \ {e}], n)
         /\ Good([s EXCEPT !.face = @ \ {e}], n)
         /\ Good([s EXCEPT !.recoFace = @ \ {e}], n)
         /\ Good([s EXCEPT !.reexpress = 0], n)
<1>0. s \in NodeType
  BY DEF Good, Sound
<1>1. /\ Kept(s, [s EXCEPT !.fish = @ \ {e}])
      /\ Kept(s, [s EXCEPT !.announce = @ \ {e}])
      /\ Kept(s, [s EXCEPT !.syncDue = @ \ {e}])
      /\ Kept(s, [s EXCEPT !.retry = @ \ {e}])
      /\ Kept(s, [s EXCEPT !.recoDue = @ \ {e}])
      /\ Kept(s, [s EXCEPT !.face = @ \ {e}])
      /\ Kept(s, [s EXCEPT !.recoFace = @ \ {e}])
      /\ Kept(s, [s EXCEPT !.reexpress = 0])
  BY <1>0 DEF Kept, NodeType
<1>2. \A t : Kept(s, t) => Safe(t, n)
  BY KeptFrame, FrameSafe DEF Good
<1> DEFINE p == [s EXCEPT !.produce = @ \ {e}]
<1>3. /\ p.crashed = s.crashed /\ p.sentData = s.sentData /\ p.log = s.log
      /\ p.produce \subseteq s.produce /\ SameRounds(s, p)
  BY <1>0 DEF SameRounds, NodeType
<1> HIDE DEF p
<1>4. SameLog(s, p) /\ ReportsOK(p) /\ p.crashed = FALSE
  BY <1>3 DEF SameLog, LoggedRounds, ReportsOK, SameRounds, Good, Safe
<1>5. Safe(p, n)
  BY <1>3, <1>4, ReportsSafe DEF Good
<1> QED BY <1>1, <1>2, <1>5, TakenSound DEF Good, p

AllSafe == \A m \in Node : Safe(node[m], m)

LEMMA SchedulerKeepsSafe ==
  ASSUME SInv, NEW n \in Node
  PROVE  /\ Fish(n) => AllSafe'
         /\ Reexpress(n) => AllSafe'
         /\ Announce(n) => AllSafe'
         /\ SyncRound(n) => AllSafe'
         /\ Stabilize(n) => AllSafe'
         /\ ReportCumulative(n) => AllSafe'
         /\ RetryRecovery(n) => AllSafe'
         /\ AskRecovery(n) => AllSafe'
<1> DEFINE s == node[n]
<1>0. /\ IInv /\ Good(s, n) /\ Sound(s) /\ s \in NodeType /\ RoundsOK(s)
      /\ s.currentRound \in Nat
  BY GoodNode, NodeFacts DEF SInv
<1>b. ASSUME NEW t, Good(t, n), Becomes(n, t) PROVE AllSafe'
  BY <1>b, BecomesSafe DEF Good, AllSafe
<1>1. ASSUME Fish(n) PROVE AllSafe'
  <2>1. PICK f \in s.fish :
           Becomes(n, SendDataInterest([s EXCEPT !.fish = @ \ {f}], {f},
                                       partitioned))
    BY <1>1 DEF Fish
  <2> DEFINE t == [s EXCEPT !.fish = @ \ {f}]
  <2>2. Good(t, n) /\ t.currentRound = s.currentRound
    BY <1>0, TakenSafe DEF NodeType
  <2>3. f \in FishEvent /\ f.round <= s.currentRound
    BY <1>0, NodeFacts DEF RoundsOK
  <2> HIDE DEF t
  <2>4. Good(SendDataInterest(t, {f}, partitioned), n)
    BY <2>2, <2>3, SendDataInterestSound, SendDataInterestFrame, FrameSafe
       DEF Good, Sound
  <2> QED BY <2>1, <2>4, <1>b DEF t
<1>2. ASSUME Reexpress(n) PROVE AllSafe'
  <2> DEFINE t == [s EXCEPT !.reexpress = 0]
             f == [round |-> s.reexpress, retries |-> 1]
  <2>1. Becomes(n, SendDataInterest(t, {f}, partitioned))
    BY <1>2 DEF Reexpress
  <2>2. Good(t, n) /\ t.currentRound = s.currentRound
    BY <1>0, TakenSafe DEF NodeType
  <2>3. f \in FishEvent /\ f.round <= s.currentRound
    BY <1>0 DEF RoundsOK, NodeType, FishEvent
  <2> HIDE DEF t, f
  <2>4. Good(SendDataInterest(t, {f}, partitioned), n)
    BY <2>2, <2>3, SendDataInterestSound, SendDataInterestFrame, FrameSafe
       DEF Good, Sound
  <2> QED BY <2>1, <2>4, <1>b
<1>3. ASSUME Announce(n) PROVE AllSafe'
  <2>1. PICK r \in s.announce :
           Becomes(n, SendSyncInterest([s EXCEPT !.announce = @ \ {r}], {r},
                                       partitioned))
    BY <1>3 DEF Announce
  <2> DEFINE t == [s EXCEPT !.announce = @ \ {r}]
  <2>2. Good(t, n) /\ r \in Round
    BY <1>0, NodeFacts, TakenSafe
  <2> HIDE DEF t
  <2>3. Good(SendSyncInterest(t, {r}, partitioned), n)
    BY <2>2, SendSyncInterestSound, SendSyncInterestFrame, FrameSafe
       DEF Good, Sound
  <2> QED BY <2>1, <2>3, <1>b DEF t
<1>4. ASSUME SyncRound(n) PROVE AllSafe'
  <2>1. PICK r \in s.syncDue :
           Becomes(n, SendSyncInterest([s EXCEPT !.syncDue = @ \ {r}], {r},
                                       partitioned))
    BY <1>4 DEF SyncRound
  <2> DEFINE t == [s EXCEPT !.syncDue = @ \ {r}]
  <2>2. Good(t, n) /\ r \in Round
    BY <1>0, NodeFacts, TakenSafe
  <2> HIDE DEF t
  <2>3. Good(SendSyncInterest(t, {r}, partitioned), n)
    BY <2>2, SendSyncInterestSound, SendSyncInterestFrame, FrameSafe
       DEF Good, Sound
  <2> QED BY <2>1, <2>3, <1>b DEF t
<1>5. ASSUME Stabilize(n) PROVE AllSafe'
  <2>1. Good(SetStableState(s), n)
    BY <1>0, SetStableStateSound, SetStableStateSafe DEF Good
  <2> QED BY <1>5, <2>1, <1>b DEF Stabilize
<1>6. ASSUME ReportCumulative(n) PROVE AllSafe'
  <2>1. PICK e \in s.produce :
           Becomes(n, ProduceCumulativeOnly([s EXCEPT !.produce = @ \ {e}],
                                            n, e.round, e.cd))
    BY <1>6 DEF ReportCumulative
  <2> DEFINE t == [s EXCEPT !.produce = @ \ {e}]
  <2>2. /\ e.round \in Round /\ e.cd \in Option(Digest) /\ e.cd # {}
        /\ s.currentRound >= 2
    BY <1>0, NodeFacts DEF ProduceEvent, Good, Safe, ReportsOK, RoundsOK,
                           NodeType, Round
  <2>3. Good(t, n) /\ t.currentRound = s.currentRound
    BY <1>0, TakenSafe DEF NodeType
  <2> HIDE DEF t
  <2>4. Good(ProduceCumulativeOnly(t, n, e.round, e.cd), n)
    BY <2>2, <2>3, ProduceCumulativeOnlySound, ProduceCumulativeOnlySafe DEF Good
  <2> QED BY <2>1, <2>4, <1>b DEF t
<1>7. ASSUME RetryRecovery(n) PROVE AllSafe'
  <2>1. PICK e \in s.retry :
           Becomes(n, CheckRecovery([s EXCEPT !.retry = @ \ {e}],
                                    e.from, e.round, e.cd))
    BY <1>7 DEF RetryRecovery
  <2> DEFINE t == [s EXCEPT !.retry = @ \ {e}]
  <2>2. /\ e.from \in Node /\ e.round \in Round /\ e.cd \in Option(Digest)
        /\ s.currentRound >= 2
    BY <1>0, NodeFacts, RecoveryAfterRoundOne DEF RetryEvent
  <2>3. Good(t, n) /\ t.currentRound = s.currentRound
    BY <1>0, TakenSafe DEF NodeType
  <2> HIDE DEF t
  <2>4. Good(CheckRecovery(t, e.from, e.round, e.cd), n)
    BY <2>2, <2>3, CheckRecoverySound, CheckRecoverySafe DEF Good
  <2> QED BY <2>1, <2>4, <1>b DEF t
<1>8. ASSUME AskRecovery(n) PROVE AllSafe'
  <2>1. PICK u \in s.recoDue :
           Becomes(n, SendRecoInterest([s EXCEPT !.recoDue = @ \ {u}], {u},
                                       partitioned))
    BY <1>8 DEF AskRecovery
  <2> DEFINE t == [s EXCEPT !.recoDue = @ \ {u}]
  <2>2. s.currentRound >= 2 /\ u \in Node
    BY <1>0, NodeFacts, RecoveryAfterRoundOne
  <2>3. Good(t, n) /\ t.currentRound = s.currentRound
    BY <1>0, TakenSafe DEF NodeType
  <2> HIDE DEF t
  <2>4. Good(SendRecoInterest(t, {u}, partitioned), n)
    BY <2>2, <2>3, SendRecoInterestSound, SendRecoInterestFrame, FrameSafe
       DEF Good, Sound
  <2> QED BY <2>1, <2>4, <1>b DEF t
<1> QED BY <1>1, <1>2, <1>3, <1>4, <1>5, <1>6, <1>7, <1>8

\* A packet is of a round that has begun, and one of the node's own session is
\* one it has sent.
LEMMA PacketFacts ==
  ASSUME SInv, NEW n \in Node, NEW d \in Packets
  PROVE  /\ d \in Packet /\ 1 <= d.round
         /\ d.session = n => d \in node[n].sentData
<1>1. PICK m \in Node : d \in node[m].sentData
  BY DEF Packets
<1>2. d.session = m /\ 1 <= d.round
  BY <1>1 DEF SInv, Safe, SentOK
<1> QED BY <1>1, <1>2, PacketsType DEF SInv

LEMMA NetworkKeepsSafe ==
  ASSUME SInv, NEW n \in Node
  PROVE  /\ ReceiveDataInterest(n) => AllSafe'
         /\ ReceiveSyncInterest(n) => AllSafe'
         /\ ReceiveRecoInterest(n) => AllSafe'
         /\ ReceiveData(n) => AllSafe'
         /\ ReceiveRecoData(n) => AllSafe'
         /\ ReceiveDataAndPublish(n) => AllSafe'
         /\ ReceiveRecoDataAndPublish(n) => AllSafe'
<1> DEFINE s == node[n]
<1>0. /\ IInv /\ Good(s, n) /\ Sound(s) /\ s \in NodeType /\ RoundsOK(s)
      /\ s.currentRound \in Nat
  BY GoodNode, NodeFacts DEF SInv
<1>b. ASSUME NEW t, Good(t, n), Becomes(n, t) PROVE AllSafe'
  BY <1>b, BecomesSafe DEF Good, AllSafe
<1>1. ASSUME ReceiveDataInterest(n) PROVE AllSafe'
  <2>1. PICK m \in Node : \E r \in node[m].asked :
           Becomes(n, ProcessDataInterest(s, n, r))
    BY <1>1 DEF ReceiveDataInterest, DataInterestArrives
  <2>2. PICK r \in Round : Becomes(n, ProcessDataInterest(s, n, r))
    BY <1>0, <2>1, NodeFacts
  <2>3. Good(ProcessDataInterest(s, n, r), n)
    BY <1>0, ProcessDataInterestSound, ProcessDataInterestSafe DEF Good
  <2> QED BY <2>2, <2>3, <1>b
<1>2. ASSUME ReceiveSyncInterest(n) PROVE AllSafe'
  <2>1. PICK m \in Node : \E i \in node[m].sentSync :
           Becomes(n, ProcessSyncInterest(s, i.round, i.rd))
    BY <1>2 DEF ReceiveSyncInterest, SyncInterestArrives
  <2>2. PICK i \in SyncInterest : Becomes(n, ProcessSyncInterest(s, i.round, i.rd))
    BY <1>0, <2>1, NodeFacts
  <2>3. i.round \in Round
    BY DEF SyncInterest
  <2>4. Good(ProcessSyncInterest(s, i.round, i.rd), n)
    BY <1>0, <2>3, ProcessSyncInterestSound, ProcessSyncInterestSafe DEF Good
  <2> QED BY <2>2, <2>4, <1>b
<1>3. ASSUME ReceiveRecoInterest(n) PROVE AllSafe'
  <2>1. Good(ProcessRecoInterest(s), n)
    BY <1>0, ProcessRecoInterestSound, ProcessRecoInterestFrame, FrameSafe DEF Good
  <2> QED BY <1>3, <2>1, <1>b DEF ReceiveRecoInterest
<1>4. ASSUME ReceiveData(n) PROVE AllSafe'
  <2>1. PICK i \in s.face, d \in Packets :
           /\ d.round = i.round
           /\ Becomes(n, IF partitioned THEN [s EXCEPT !.face = @ \ {i}]
                         ELSE ProcessData([s EXCEPT !.face = @ \ {i}], d))
    BY <1>4 DEF ReceiveData, DataArrives, Answers
  <2> DEFINE t == [s EXCEPT !.face = @ \ {i}]
  <2>2. Good(t, n) /\ t.currentRound = s.currentRound /\ t.sentData = s.sentData
    BY <1>0, TakenSafe DEF NodeType
  <2>3. /\ d \in Packet /\ 1 <= d.round /\ d.round <= s.currentRound
        /\ d.session = n => d \in s.sentData
    BY <1>0, <2>1, PacketFacts DEF RoundsOK
  <2> HIDE DEF t
  <2>4. Good(ProcessData(t, d), n)
    BY <2>2, <2>3, ProcessDataSound, ProcessDataSafe DEF Good
  <2> QED BY <2>1, <2>2, <2>4, <1>b DEF t
<1>5. ASSUME ReceiveRecoData(n) PROVE AllSafe'
  <2>1. PICK u \in s.recoFace : \E p \in node[u].sentReco :
           Becomes(n, IF partitioned THEN [s EXCEPT !.recoFace = @ \ {u}]
                      ELSE ProcessRecoData([s EXCEPT !.recoFace = @ \ {u}],
                                           u, p.round, p.state))
    BY <1>5 DEF ReceiveRecoData
  <2> DEFINE t == [s EXCEPT !.recoFace = @ \ {u}]
  <2>2. u \in Node /\ s.currentRound >= 2
    BY <1>0, NodeFacts, RecoveryAfterRoundOne
  <2>3. PICK p \in RecoData :
           Becomes(n, IF partitioned THEN t
                      ELSE ProcessRecoData(t, u, p.round, p.state))
    BY <1>0, <2>1, <2>2, NodeFacts
  <2>4. Good(t, n) /\ t.currentRound = s.currentRound
    BY <1>0, TakenSafe DEF NodeType
  <2>5. p.round \in Round /\ p.state \in State
    BY DEF RecoData
  <2> HIDE DEF t
  <2>6. Good(ProcessRecoData(t, u, p.round, p.state), n)
    BY <2>2, <2>4, <2>5, ProcessRecoDataSound, ProcessRecoDataSafe DEF Good
  <2> QED BY <2>3, <2>4, <2>6, <1>b
<1>6. ASSUME ReceiveDataAndPublish(n) PROVE AllSafe'
  <2>1. PICK i \in s.face, d \in Packets :
           /\ d.round = i.round
           /\ Notifies([s EXCEPT !.face = @ \ {i}], d)
           /\ Becomes(n, ProcessDataPublishing([s EXCEPT !.face = @ \ {i}], n, d))
    BY <1>6 DEF ReceiveDataAndPublish, DataArrivesAndPublish, Answers
  <2> DEFINE t == [s EXCEPT !.face = @ \ {i}]
  <2>2. Good(t, n) /\ t.currentRound = s.currentRound /\ t.sentData = s.sentData
    BY <1>0, TakenSafe DEF NodeType
  <2>3. /\ d \in Packet /\ 1 <= d.round /\ d.round <= s.currentRound
        /\ d.session = n => d \in s.sentData
    BY <1>0, <2>1, PacketFacts DEF RoundsOK
  <2> HIDE DEF t
  <2>4. ~TooOld(t, d)
    BY <2>1 DEF Notifies, t
  <2>5. Good(ProcessDataPublishing(t, n, d), n)
    BY <2>2, <2>3, <2>4, ProcessDataPublishingSound, ProcessDataPublishingSafe
       DEF Good
  <2> QED BY <2>1, <2>5, <1>b DEF t
<1>7. ASSUME ReceiveRecoDataAndPublish(n) PROVE AllSafe'
  <2>1. PICK u \in s.recoFace : \E p \in node[u].sentReco :
           Becomes(n, ProcessRecoDataPublishing([s EXCEPT !.recoFace = @ \ {u}],
                                                n, u, p.round, p.state))
    BY <1>7 DEF ReceiveRecoDataAndPublish
  <2> DEFINE t == [s EXCEPT !.recoFace = @ \ {u}]
  <2>2. u \in Node /\ s.currentRound >= 2
    BY <1>0, NodeFacts, RecoveryAfterRoundOne
  <2>3. PICK p \in RecoData :
           Becomes(n, ProcessRecoDataPublishing(t, n, u, p.round, p.state))
    BY <1>0, <2>1, <2>2, NodeFacts
  <2>4. Good(t, n) /\ t.currentRound = s.currentRound
    BY <1>0, TakenSafe DEF NodeType
  <2>5. p.round \in Round /\ p.state \in State
    BY DEF RecoData
  <2> HIDE DEF t
  <2>6. Good(ProcessRecoDataPublishing(t, n, u, p.round, p.state), n)
    BY <2>2, <2>4, <2>5, ProcessRecoDataPublishingSound,
       ProcessRecoDataPublishingSafe DEF Good
  <2> QED BY <2>3, <2>6, <1>b
<1> QED BY <1>1, <1>2, <1>3, <1>4, <1>5, <1>6, <1>7

LEMMA TimeoutsKeepSafe ==
  ASSUME SInv, NEW n \in Node
  PROVE  /\ DataInterestTimeout(n) => AllSafe'
         /\ RecoInterestTimeout(n) => AllSafe'
<1> DEFINE s == node[n]
<1>0. IInv /\ Good(s, n) /\ Sound(s) /\ s \in NodeType
  BY GoodNode, NodeFacts DEF SInv
<1>b. ASSUME NEW t, Good(t, n), Becomes(n, t) PROVE AllSafe'
  BY <1>b, BecomesSafe DEF Good, AllSafe
<1>1. ASSUME DataInterestTimeout(n) PROVE AllSafe'
  <2>1. PICK i \in s.face :
           /\ FirstStabilizationPending([s EXCEPT !.face = @ \ {i}])
                => [s EXCEPT !.face = @ \ {i}].dataTimeouts + 1
                     < MaxTimeoutsToCumulative
           /\ Becomes(n, OnDataInterestTimeout([s EXCEPT !.face = @ \ {i}], i))
    BY <1>1 DEF DataInterestTimeout, DataInterestExpires
  <2> DEFINE t == [s EXCEPT !.face = @ \ {i}]
  <2>2. Good(t, n) /\ i \in Interest
    BY <1>0, NodeFacts, TakenSafe
  <2> HIDE DEF t
  <2>3. Good(OnDataInterestTimeout(t, i), n)
    BY <2>1, <2>2, OnDataInterestTimeoutSound, OnDataInterestTimeoutSafe
       DEF Good, t
  <2> QED BY <2>1, <2>3, <1>b DEF t
<1>2. ASSUME RecoInterestTimeout(n) PROVE AllSafe'
  <2>1. PICK u \in s.recoFace :
           Becomes(n, OnRecoInterestTimeout([s EXCEPT !.recoFace = @ \ {u}], u))
    BY <1>2 DEF RecoInterestTimeout
  <2> DEFINE t == [s EXCEPT !.recoFace = @ \ {u}]
  <2>2. u \in Node /\ s.currentRound >= 2
    BY <1>0, NodeFacts, RecoveryAfterRoundOne
  <2>3. Good(t, n) /\ t.currentRound = s.currentRound
    BY <1>0, TakenSafe DEF NodeType
  <2> HIDE DEF t
  <2>4. Good(OnRecoInterestTimeout(t, u), n)
    BY <2>2, <2>3, OnRecoInterestTimeoutSound, OnRecoInterestTimeoutFrame,
       FrameSafe DEF Good, Sound
  <2> QED BY <2>1, <2>4, <1>b DEF t
<1> QED BY <1>1, <1>2

LEMMA NextKeepsSInv == SInv /\ [Next]_vars => SInv'
<1> SUFFICES ASSUME SInv, [Next]_vars PROVE SInv'
  OBVIOUS
<1>0. AllSafe /\ IInv'
  BY NextKeepsIInv DEF SInv, AllSafe
<1>1. CASE UNCHANGED node
  BY <1>0, <1>1 DEF SInv, Safe, Digested, Answerable, SentOK, ReportsOK, OwnLeaf,
                    EntryOf, LoggedRounds
<1>2. CASE UNCHANGED vars
  BY <1>1, <1>2 DEF vars
<1>3. CASE OutOfTimers
  BY <1>1, <1>3 DEF OutOfTimers, vars
<1>4. ASSUME NEW n \in Node, Publish(n) PROVE AllSafe'
  <2> DEFINE t == UpdateSeqNo(node[n], n, node[n].seqNo + 1)
  <2>1. Becomes(n, t) /\ node[n].seqNo + 1 \in SeqNo /\ Good(node[n], n)
    BY <1>4, NodeFacts, GoodNode DEF Publish, SInv, SeqNo
  <2>2. Sound(t) /\ Safe(t, n)
    BY <2>1, UpdateSeqNoSound, UpdateSeqNoSafe DEF Good, SeqNo
  <2> HIDE DEF t
  <2> QED BY <2>1, <2>2, BecomesSafe DEF AllSafe
<1>5. ASSUME NEW n \in Node, StartPartition(n) PROVE SInv'
  BY <1>1, <1>5 DEF StartPartition
<1>6. ASSUME NEW n \in Node, StopPartition(n) PROVE SInv'
  BY <1>1, <1>6 DEF StopPartition
<1>7. AllSafe' => SInv'
  BY <1>0 DEF SInv, AllSafe
<1> QED BY <1>2, <1>3, <1>4, <1>5, <1>6, <1>7, SchedulerKeepsSafe,
           NetworkKeepsSafe, TimeoutsKeepSafe DEF Next

LEMMA SInvAlways == Spec => []SInv
<1> QED BY SInvInitially, NextKeepsSInv, PTL DEF Spec

\* No handler throws or dereferences a NULL digest (setStableState 752,
\* processDataInterest 650, sendData 915, sendCumulativeOnly 1625,
\* checkRecovery 1026), whatever the order of packets, timers, recoveries and
\* partitions.
THEOREM NothingCrashes == Spec => []NeverCrashes
<1>1. SInv => NeverCrashes
  BY DEF SInv, Safe, NeverCrashes
<1> QED BY <1>1, SInvAlways, PTL

\* A logged round is past, but for the empty entry of round 1 at a node that is
\* idle for its first stabilization (799).
THEOREM LoggedRoundsArePast == Spec => []LogIsPast
<1>1. SInv => LogIsPast
  <2> SUFFICES ASSUME SInv, NEW n \in Node, NEW r \in LoggedRounds(node[n])
               PROVE  r < node[n].currentRound
                        \/ (r = 1 /\ node[n].stableRound = 1)
    BY DEF LogIsPast
  <2>1. r \in Nat /\ node[n].currentRound \in Nat
    BY NodeFacts, LogFacts DEF SInv, Round
  <2> QED BY <2>1 DEF SInv, Safe, Answerable
<1> QED BY <1>1, SInvAlways, PTL

\* A session puts one sequence number at most in a round, however often it
\* answers for it (298, 900): two packets that claim the same round of a session
\* carry the same data.
THEOREM RoundsUsedOnce == Spec => []OnePerRound
<1>1. SInv => OnePerRound
  <2> SUFFICES ASSUME SInv, NEW d \in Packets, NEW e \in Packets,
                      d.session = e.session, d.round = e.round
               PROVE  d.seq = e.seq
    BY DEF OnePerRound
  <2>1. PICK m \in Node : d \in node[m].sentData
    BY DEF Packets
  <2>2. PICK k \in Node : e \in node[k].sentData
    BY DEF Packets
  <2>3. d.session = m /\ e.session = k
    BY <2>1, <2>2 DEF SInv, Safe, SentOK
  <2>4. d \in node[m].sentData /\ e \in node[m].sentData
    BY <2>1, <2>2, <2>3
  <2>5. SentOK(node[m], m)
    BY DEF SInv, Safe
  <2> QED BY <2>4, <2>5 DEF SentOK
<1> QED BY <1>1, SInvAlways, PTL
=============================================================================
