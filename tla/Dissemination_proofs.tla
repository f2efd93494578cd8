------------------------- MODULE Dissemination_proofs -------------------------
(***************************************************************************)
(* RoundSync implements Dissemination, and neither an entry of a round log *)
(* nor the old state is ahead of its node's state: for any set of          *)
(* participants, any limits and bounds, and any order of packets,          *)
(* recoveries and partitions.                                              *)
(***************************************************************************)
EXTENDS RoundSync_proofs

\* The members that hold sequence numbers, and what they hold.
Carriers == {"seqNo", "state", "oldState", "log", "sentData", "sentReco"}

\* A state in which every number was published; P has the last of each session.
Published(st, P) ==
    st \in State /\ \A x \in Node : st[x] \in {NoLeaf} \cup 1 .. P[x]

\* What of st has reached a digest.
Within(old, st) ==
    old \in State /\ \A x \in Node :
                       old[x] \in {NoLeaf, CumulativeOnlyData} \cup 1 .. st[x]

EntryOK(e, st) == "leaves" \in DOMAIN e /\ Within(e.leaves, st)

\* The inductive invariant of node n.
Truthful(s, n, P) ==
    /\ Carriers \subseteq DOMAIN s
    /\ s.seqNo \in Nat /\ P[n] = s.seqNo
    /\ Published(s.state, P)
    /\ s.state[n] = IF s.seqNo = 0 THEN NoLeaf ELSE s.seqNo
    /\ Within(s.oldState, s.state)
    /\ \A r \in LoggedRounds(s) : EntryOK(s.log[r], s.state)
    /\ \A d \in s.sentData : d.session = n /\ d.seq \in 0 .. s.seqNo
    /\ \A p \in s.sentReco : Published(p.state, P)

Produces == [Node -> Nat]

\* What most methods leave alone: what the node has published and knows.
Quiet(s, t) == t.seqNo = s.seqNo /\ t.state = s.state

Silent(s, t, n, P) == Truthful(t, n, P) /\ Quiet(s, t)

----------------------------------------------------------------------------
(* Methods that neither publish nor learn. *)

\* No number is in any member but the carriers.
LEMMA OtherSilent ==
  ASSUME NEW n, NEW P, NEW s, Truthful(s, n, P), NEW v
  PROVE  /\ Silent(s, [s EXCEPT !.pendingDataInterest = v], n, P)
         /\ Silent(s, [s EXCEPT !.announce = v], n, P)
         /\ Silent(s, [s EXCEPT !.syncDue = v], n, P)
         /\ Silent(s, [s EXCEPT !.face = v], n, P)
         /\ Silent(s, [s EXCEPT !.fish = v], n, P)
         /\ Silent(s, [s EXCEPT !.recoFace = v], n, P)
         /\ Silent(s, [s EXCEPT !.produce = v], n, P)
         /\ Silent(s, [s EXCEPT !.retry = v], n, P)
         /\ Silent(s, [s EXCEPT !.recoDue = v], n, P)
         /\ Silent(s, [s EXCEPT !.dataTimeouts = v], n, P)
         /\ Silent(s, [s EXCEPT !.reexpress = v], n, P)
         /\ Silent(s, [s EXCEPT !.lastRecoveryRound = v], n, P)
         /\ Silent(s, Crash(s), n, P)
  BY DEF Silent, Quiet, Truthful, Carriers, LoggedRounds, Crash

LEMMA MoveSilent ==
  ASSUME NEW n, NEW P, NEW s, Truthful(s, n, P), NEW r
  PROVE  /\ Silent(s, MoveToNewCurrentRound(s, r), n, P)
         /\ Silent(s, MoveToNewCurrentRoundAfterRecovery(s, r), n, P)
         /\ Silent(s, RoundUsed(s), n, P)
<1>1. ASSUME NEW q PROVE Silent(s, MoveToNewCurrentRound(s, q), n, P)
  BY DEF Silent, Quiet, Truthful, Carriers, LoggedRounds, MoveToNewCurrentRound,
         GoFishing
<1>2. Silent(s, MoveToNewCurrentRoundAfterRecovery(s, r), n, P)
  BY DEF Silent, Quiet, Truthful, Carriers, LoggedRounds,
         MoveToNewCurrentRoundAfterRecovery
<1> QED BY <1>1, <1>2 DEF RoundUsed

LEMMA LogSilent ==
  ASSUME NEW n, NEW P, NEW s, Truthful(s, n, P), NEW r, NEW e,
         EntryOK(e, s.state)
  PROVE  /\ Silent(s, PutEntry(s, r, e), n, P)
         /\ Silent(s, UpdateDiffLog(s, r, e), n, P)
<1>1. ASSUME NEW f, EntryOK(f, s.state) PROVE Silent(s, PutEntry(s, r, f), n, P)
  BY <1>1 DEF Silent, Quiet, Truthful, Carriers, LoggedRounds, PutEntry
<1>2. EntryOK([e EXCEPT !.rd = e.leaves], s.state)
  BY DEF EntryOK, Within
<1>3. Silent(s, s, n, P)
  BY DEF Silent, Quiet
<1> QED BY <1>1, <1>2, <1>3 DEF UpdateDiffLog

LEMMA SendSilent ==
  ASSUME NEW n, NEW P, NEW s, Truthful(s, n, P), NEW r, NEW info, NEW name,
         NEW cd, NEW q \in 0 .. s.seqNo
  PROVE  /\ Silent(s, SendData(s, n, r, q, info), n, P)
         /\ Silent(s, SendCumulativeOnly(s, n, name, r, cd), n, P)
<1>0. 0 \in 0 .. s.seqNo
  BY DEF Truthful
<1>1. ASSUME NEW t, Silent(s, t, n, P), NEW d, d.session = n,
             d.seq \in 0 .. s.seqNo
      PROVE  Silent(s, PutData(t, d), n, P)
  BY <1>1 DEF Silent, Quiet, Truthful, Carriers, LoggedRounds, PutData
<1>2. Silent(s, s, n, P)
  BY DEF Silent, Quiet
<1>3. ASSUME NEW d PROVE Silent(s, ExcludeCumulativeOnly(s, d, r), n, P)
  <2>1. CASE r \in LoggedRounds(s)
    <3>1. EntryOK([s.log[r] EXCEPT !.exclude = @ \cup {d}], s.state)
      BY <2>1 DEF Truthful, EntryOK, Within
    <3> QED BY <2>1, <3>1, LogSilent DEF ExcludeCumulativeOnly
  <2>2. CASE r \notin LoggedRounds(s)
    BY <1>2, <2>2 DEF ExcludeCumulativeOnly
  <2> QED BY <2>1, <2>2
<1>4. Silent(s, SendData(s, n, r, q, info), n, P)
  BY <1>1, <1>2, OtherSilent DEF SendData
<1>5. Silent(s, SendCumulativeOnly(s, n, name, r, cd), n, P)
  BY <1>0, <1>1, <1>3, OtherSilent DEF SendCumulativeOnly, CumulativeOnlyData
<1> QED BY <1>4, <1>5

LEMMA RecoverySilent ==
  ASSUME NEW n, NEW P, NEW s, Truthful(s, n, P), NEW u, NEW r, NEW cd
  PROVE  /\ Silent(s, ScheduleCumulativeOnly(s, r, cd), n, P)
         /\ Silent(s, CheckRecovery(s, u, r, cd), n, P)
<1>1. Silent(s, s, n, P)
  BY DEF Silent, Quiet
<1>2. ASSUME NEW t, Silent(s, t, n, P), NEW c
      PROVE  Silent(s, ScheduleCumulativeOnly(t, r, c), n, P)
  BY <1>2 DEF Silent, Quiet, Truthful, Carriers, LoggedRounds,
              ScheduleCumulativeOnly
<1>3. ASSUME NEW mine PROVE Silent(s, DoRecovery(s, u, r, mine), n, P)
  <2> DEFINE asked == [s EXCEPT
                         !.recoDue = IF u \in s.pendingReco THEN @
                                     ELSE @ \cup {u},
                         !.pendingReco = @ \cup {u},
                         !.recoveryDesired = FALSE]
  <2>1. Silent(s, asked, n, P)
    BY DEF Silent, Quiet, Truthful, Carriers, LoggedRounds
  <2> HIDE DEF asked
  <2>2. Silent(s, IF mine = {} THEN asked
                  ELSE ScheduleCumulativeOnly(asked, r, mine), n, P)
    BY <1>2, <2>1
  <2> QED BY <2>2 DEF DoRecovery, asked
<1>4. Silent(s, CancelCumulativeOnly(s, cd), n, P)
  BY DEF Silent, Quiet, Truthful, Carriers, LoggedRounds, CancelCumulativeOnly
<1>5. Silent(s, RetryLater(s, u, r, cd), n, P)
  BY OtherSilent DEF RetryLater
<1>6. Silent(s, CheckStable(s, u, r, cd), n, P)
  BY <1>1, <1>3, OtherSilent DEF CheckStable
<1> QED BY <1>1, <1>2, <1>3, <1>4, <1>5, <1>6 DEF CheckRecovery

LEMMA SilentTransitive ==
  ASSUME NEW n, NEW P, NEW s, NEW t, NEW u, Quiet(s, t), Silent(t, u, n, P)
  PROVE  Silent(s, u, n, P)
  BY DEF Silent, Quiet

\* A number of CumulativeOnly is logged; it says nothing of what is known.
LEMMA ProduceCumulativeOnlySilent ==
  ASSUME NEW n \in Node, NEW P, NEW s, Truthful(s, n, P), NEW r, NEW cd
  PROVE  Silent(s, ProduceCumulativeOnly(s, n, r, cd), n, P)
<1> DEFINE e == CumulativeOnlyEntry(n, r, cd)
           sent == IF AnswersPending(s)
                   THEN [SendCumulativeOnly(s, n, s.currentRound, r, cd)
                           EXCEPT !.pendingDataInterest = 0]
                   ELSE s
           logged == UpdateDiffLog(sent, sent.currentRound, e)
<1>1. EntryOK(e, s.state)
  BY DEF EntryOK, Within, CumulativeOnlyEntry, NewEntry, EmptyState, Update,
         State, CumulativeOnlyData, NoLeaf
<1>2. Silent(s, sent, n, P)
  <2>1. 0 \in 0 .. s.seqNo
    BY DEF Truthful
  <2>2. Silent(s, SendCumulativeOnly(s, n, s.currentRound, r, cd), n, P)
    BY <2>1, SendSilent
  <2> DEFINE c == SendCumulativeOnly(s, n, s.currentRound, r, cd)
  <2> HIDE DEF c
  <2>3. Silent(c, [c EXCEPT !.pendingDataInterest = 0], n, P)
    BY <2>2, OtherSilent DEF Silent, c
  <2>4. Silent(s, [c EXCEPT !.pendingDataInterest = 0], n, P)
    BY <2>2, <2>3 DEF Silent, Quiet, c
  <2> QED BY <2>4 DEF Silent, Quiet, c
<1> HIDE DEF sent, e
<1>3. Silent(s, logged, n, P)
  BY <1>1, <1>2, LogSilent DEF Silent, Quiet
<1> HIDE DEF logged
<1>4. Silent(s, RoundUsed(logged), n, P)
  BY <1>3, MoveSilent DEF Silent, Quiet
<1> QED BY <1>4 DEF ProduceCumulativeOnly, logged, sent, e

LEMMA InterestsInSilent ==
  ASSUME NEW n \in Node, NEW P, NEW s, Truthful(s, n, P), NEW r, NEW rd
  PROVE  /\ Silent(s, ProcessDataInterest(s, n, r), n, P)
         /\ Silent(s, ProcessSyncInterest(s, r, rd), n, P)
         /\ Silent(s, ProcessRecoInterest(s), n, P)
<1>0. Silent(s, s, n, P)
  BY DEF Silent, Quiet
<1>1. Silent(s, AnswerFromLog(s, n, r), n, P)
  <2>1. CASE r \in LoggedRounds(s) /\ LeafLogged(s, n, r) # NoLeaf
    <3>1. LeafLogged(s, n, r) \in 0 .. s.seqNo
      BY <2>1 DEF LeafLogged, Truthful, EntryOK, Within, CumulativeOnlyData,
                  NoLeaf
    <3>2. 0 \in 0 .. s.seqNo
      BY DEF Truthful
    <3> DEFINE q == LeafLogged(s, n, r)
               info == s.log[r].info
    <3> HIDE DEF q, info
    <3>3. /\ Silent(s, SendData(s, n, r, q, {}), n, P)
          /\ Silent(s, SendCumulativeOnly(s, n, r, The(info).round,
                                          The(info).cd), n, P)
      BY <3>1, <3>2, SendSilent DEF q
    <3> QED BY <2>1, <3>3, OtherSilent DEF AnswerFromLog, q, info
  <2>2. CASE ~(r \in LoggedRounds(s) /\ LeafLogged(s, n, r) # NoLeaf)
    BY <1>0, <2>2 DEF AnswerFromLog
  <2> QED BY <2>1, <2>2
<1>2. Silent(s, CheckRoundDigests(s, r, rd), n, P)
  BY <1>0 DEF Silent, Quiet, Truthful, Carriers, LoggedRounds,
              CheckRoundDigests, GoFishing
<1>3. Silent(s, ProcessRecoInterest(s), n, P)
  BY DEF Silent, Quiet, Truthful, Carriers, LoggedRounds, ProcessRecoInterest
<1>4. Silent(s, MoveToNewCurrentRound([s EXCEPT !.pendingDataInterest = r], r),
             n, P)
  <2>1. Silent(s, [s EXCEPT !.pendingDataInterest = r], n, P)
    BY OtherSilent
  <2> QED BY <2>1, MoveSilent, SilentTransitive DEF Silent
<1>5. Silent(s, ProcessDataInterest(s, n, r), n, P)
  BY <1>1, <1>4, OtherSilent DEF ProcessDataInterest
<1>6. Silent(s, ProcessSyncInterest(s, r, rd), n, P)
  BY <1>0, <1>2, MoveSilent DEF ProcessSyncInterest
<1> QED BY <1>3, <1>5, <1>6

\* Adding logged rounds to the old state brings nothing the state has not.
LEMMA OldStateWithin ==
  ASSUME NEW n, NEW P, NEW s, Truthful(s, n, P), IsFiniteSet(LoggedRounds(s)),
         NEW R, R \subseteq LoggedRounds(s)
  PROVE  Within(OldStateWith(s, R), s.state)
<1> DEFINE L == {s.log[r].leaves : r \in R}
           u == PlusAll(s.oldState, L)
<1>1. Within(s.oldState, s.state) /\ \A l \in L : Within(l, s.state)
  BY DEF Truthful, EntryOK
<1>2. L \in SUBSET State /\ s.oldState \in State
  BY <1>1 DEF Within
<1>3. IsFiniteSet(L)
  <2> DEFINE f == [r \in R |-> s.log[r].leaves]
  <2>1. f \in Surjection(R, L)
    BY DEF Surjection
  <2>2. IsFiniteSet(R)
    BY FS_Subset
  <2> HIDE DEF L, f
  <2> QED BY <2>1, <2>2, FS_Surjection
<1> HIDE DEF L
<1>4. u \in State
  BY <1>2, <1>3, PlusAllType
<1>5. ASSUME NEW x \in Node
      PROVE  u[x] \in {NoLeaf, CumulativeOnlyData} \cup 1 .. s.state[x]
  <2>1. u[x] = s.oldState[x] \/ \E l \in L : u[x] = l[x]
    BY <1>2, <1>3, PlusAllGreatest
  <2> HIDE DEF u
  <2> QED BY <1>1, <2>1 DEF Within
<1> QED BY <1>4, <1>5 DEF Within, OldStateWith, L

LEMMA StabilizeSilent ==
  ASSUME NEW n, NEW P, NEW s, Truthful(s, n, P), IsFiniteSet(LoggedRounds(s))
  PROVE  Silent(s, SetStableState(s), n, P)
<1> DEFINE t == SetStableState(s)
<1>1. CASE InitRound(s) = {}
  BY <1>1, OtherSilent DEF SetStableState
<1>2. CASE InitRound(s) # {}
  <2>1. /\ Carriers \subseteq DOMAIN t
        /\ t.seqNo = s.seqNo /\ t.state = s.state
        /\ t.sentData = s.sentData /\ t.sentReco = s.sentReco
    BY <1>2 DEF Truthful, Carriers, SetStableState,
                CalculateStableStateAndCumulativeDigests
  <2>2. ASSUME NEW r \in LoggedRounds(t) PROVE EntryOK(t.log[r], t.state)
    <3>1. ASSUME NEW e, EntryOK(e, s.state), NEW cd
          PROVE  EntryOK([e EXCEPT !.cd = cd], s.state)
      BY <3>1 DEF EntryOK, Within
    <3>2. EntryOK(NewEntry, s.state)
      BY DEF EntryOK, Within, NewEntry, EmptyState, State
    <3>3. EntryOK(EntryOf(s, r), s.state)
      BY <3>2 DEF EntryOf, Truthful
    <3>4. \/ t.log[r] = s.log[r] /\ r \in LoggedRounds(s)
          \/ \E cd : t.log[r] = [EntryOf(s, r) EXCEPT !.cd = cd]
      <4>1. t.log = CalculateStableStateAndCumulativeDigests(
                      s, The(InitRound(s)), s.stabilizingRound).log
        BY <1>2 DEF SetStableState, Truthful, Carriers,
                    CalculateStableStateAndCumulativeDigests
      <4> QED BY <4>1 DEF CalculateStableStateAndCumulativeDigests,
                          LoggedRounds, Truthful, Carriers, Visited
    <3> HIDE DEF t
    <3>5. CASE t.log[r] = s.log[r] /\ r \in LoggedRounds(s)
      BY <2>1, <3>5 DEF Truthful
    <3>6. CASE \E cd : t.log[r] = [EntryOf(s, r) EXCEPT !.cd = cd]
      BY <2>1, <3>1, <3>3, <3>6
    <3> QED BY <3>4, <3>5, <3>6
  <2>3. Within(t.oldState, t.state)
    <3> DEFINE R == (Visited(s, The(InitRound(s)), s.stabilizingRound)
                       \cup {s.stabilizingRound}) \cap LoggedRounds(s)
    <3>1. t.oldState = OldStateWith(s, R)
      BY <1>2 DEF SetStableState, Truthful, Carriers,
                  CalculateStableStateAndCumulativeDigests
    <3> HIDE DEF t
    <3>2. Within(OldStateWith(s, R), s.state)
      BY OldStateWithin
    <3> QED BY <2>1, <3>1, <3>2
  <2> QED BY <2>1, <2>2, <2>3 DEF Silent, Quiet, Truthful
<1> QED BY <1>1, <1>2

LEMMA TimeoutsSilent ==
  ASSUME NEW n, NEW P, NEW s, Truthful(s, n, P), NEW i
  PROVE  /\ Silent(s, OnDataInterestTimeout(s, i), n, P)
         /\ Silent(s, OnRecoInterestTimeout(s, i), n, P)
<1>1. Silent(s, OnQuiet(s), n, P)
  <2>1. Silent(s, [s EXCEPT !.dataTimeouts = 0], n, P)
    BY OtherSilent
  <2>2. ASSUME NEW r, NEW cd
        PROVE  Silent(s, ScheduleCumulativeOnly([s EXCEPT !.dataTimeouts = 0],
                                                r, cd), n, P)
    BY <2>1, RecoverySilent, SilentTransitive DEF Silent
  <2> QED BY <2>2, OtherSilent DEF OnQuiet
<1>2. ASSUME NEW t, Silent(s, t, n, P), NEW F
      PROVE  Silent(s, [t EXCEPT !.fish = F], n, P)
  BY <1>2, OtherSilent, SilentTransitive DEF Silent
<1>3. Silent(s, OnRecoInterestTimeout(s, i), n, P)
  BY DEF Silent, Quiet, Truthful, Carriers, LoggedRounds, OnRecoInterestTimeout
<1> QED BY <1>1, <1>2, <1>3 DEF OnDataInterestTimeout

LEMMA InterestsOutSilent ==
  ASSUME NEW n, NEW P, NEW s, Truthful(s, n, P), NEW F, NEW partition
  PROVE  /\ Silent(s, SendDataInterest(s, F, partition), n, P)
         /\ Silent(s, SendSyncInterest(s, F, partition), n, P)
         /\ Silent(s, SendRecoInterest(s, F, partition), n, P)
<1>1. Silent(s, SendDataInterest(s, F, partition), n, P)
  BY DEF Silent, Quiet, Truthful, Carriers, LoggedRounds, SendDataInterest
<1>2. Silent(s, SendSyncInterest(s, F, partition), n, P)
  BY DEF Silent, Quiet, Truthful, Carriers, LoggedRounds, SendSyncInterest
<1>3. Silent(s, SendRecoInterest(s, F, partition), n, P)
  BY DEF Silent, Quiet, Truthful, Carriers, LoggedRounds, SendRecoInterest
<1> QED BY <1>1, <1>2, <1>3

LEMMA RunDueEventsSilent ==
  ASSUME NEW n, NEW P, NEW s, Truthful(s, n, P), NEW partition
  PROVE  Silent(s, RunDueEvents(s, partition), n, P)
<1> DEFINE run == [s EXCEPT !.fish = {}, !.announce = {}, !.recoDue = {},
                            !.reexpress = IF FirstInterest(s) = {} THEN @ ELSE 0]
<1>1. Silent(s, run, n, P)
  BY DEF Silent, Quiet, Truthful, Carriers, LoggedRounds
<1> HIDE DEF run
<1>2. ASSUME NEW t, Silent(s, t, n, P), NEW F
      PROVE  /\ Silent(s, SendDataInterest(t, F, partition), n, P)
             /\ Silent(s, SendSyncInterest(t, F, partition), n, P)
             /\ Silent(s, SendRecoInterest(t, F, partition), n, P)
  BY <1>2, InterestsOutSilent, SilentTransitive DEF Silent
<1> QED BY <1>1, <1>2 DEF RunDueEvents, run

----------------------------------------------------------------------------
(* Publication. *)

\* Others publishing makes nothing a node holds untrue.
LEMMA MoreProduced ==
  ASSUME NEW n \in Node, NEW P \in Produces, NEW Q \in Produces,
         NEW s, Truthful(s, n, P), Q[n] = P[n],
         \A x \in Node : P[x] <= Q[x]
  PROVE  Truthful(s, n, Q)
<1>1. ASSUME NEW st, Published(st, P) PROVE Published(st, Q)
  BY <1>1 DEF Published, Produces
<1> QED BY <1>1 DEF Truthful

LEMMA WithinGrown ==
  ASSUME NEW st \in State, NEW t \in State, Behind(st, t)
  PROVE  /\ \A old : Within(old, st) => Within(old, t)
         /\ \A e : EntryOK(e, st) => EntryOK(e, t)
<1>1. ASSUME NEW old, Within(old, st) PROVE Within(old, t)
  BY <1>1 DEF Within, Behind, State, NoLeaf, CumulativeOnlyData
<1> QED BY <1>1 DEF EntryOK

LEMMA UpdateGrows ==
  ASSUME NEW st \in State, NEW x \in Node, NEW q \in SeqNo
  PROVE  /\ Update(st, x, q) \in State
         /\ Behind(st, Update(st, x, q))
         /\ \A y \in Node \ {x} : Update(st, x, q)[y] = st[y]
         /\ Update(st, x, q)[x] = IF st[x] < q THEN q ELSE st[x]
<1>1. Update(st, x, q) \in State
  BY UpdateType
<1>2. \A y \in Node :
        Update(st, x, q)[y] = IF y = x THEN IF st[x] < q THEN q ELSE st[x]
                              ELSE st[y]
  BY DEF Update, State
<1> QED BY <1>1, <1>2 DEF Behind, State, NoLeaf, SeqNo

LEMMA UpdateSeqNoTruthful ==
  ASSUME NEW n \in Node, NEW P \in Produces, NEW s, Truthful(s, n, P)
  PROVE  LET q == s.seqNo + 1
             t == UpdateSeqNo(s, n, q)
         IN  /\ Truthful(t, n, [P EXCEPT ![n] = q])
             /\ t.seqNo = q /\ t.state = Update(s.state, n, q)
<1> DEFINE q == s.seqNo + 1
           Q == [P EXCEPT ![n] = q]
           c == s.currentRound
           info == StableInfo(s)
           commit == [NewEntry EXCEPT !.leaves = Update(EmptyState, n, q),
                                      !.info = info]
           known == [s EXCEPT !.seqNo = q, !.state = Update(@, n, q)]
           logged == UpdateDiffLog(known, c, commit)
           d == [round |-> c, session |-> n, seq |-> q, info |-> info]
           excluded == IF c \in LoggedRounds(s) THEN logged
                       ELSE PutEntry(logged, c,
                              [logged.log[c] EXCEPT !.exclude = {d}])
           sent == IF AnswersPending(s)
                   THEN [SendData(excluded, n, c, q, info)
                           EXCEPT !.pendingDataInterest = 0]
                   ELSE logged
           told == [sent EXCEPT !.announce = @ \cup {c}]
<1>0. /\ q \in SeqNo /\ q \in Nat /\ q >= 1 /\ Q \in Produces
      /\ s.state \in State /\ s.seqNo \in Nat /\ P[n] = s.seqNo
      /\ Q[n] = q /\ \A x \in Node : P[x] <= Q[x]
  BY DEF Truthful, Published, Produces, SeqNo
<1>1. s.state[n] < q
  BY <1>0 DEF Truthful, NoLeaf
<1>2. Truthful(known, n, Q)
  <2>1. /\ Carriers \subseteq DOMAIN known
        /\ known.seqNo = q /\ known.state = Update(s.state, n, q)
        /\ known.log = s.log /\ known.oldState = s.oldState
        /\ known.sentData = s.sentData /\ known.sentReco = s.sentReco
    BY DEF Truthful, Carriers
  <2>2. /\ known.state \in State /\ Behind(s.state, known.state)
        /\ known.state[n] = q
        /\ \A x \in Node \ {n} : known.state[x] = s.state[x]
    BY <1>0, <1>1, <2>1, UpdateGrows
  <2> HIDE DEF known, Q, q
  <2>3. ASSUME NEW st, Published(st, P) PROVE Published(st, Q)
    BY <1>0, <2>3 DEF Published, Produces
  <2>4. Published(known.state, Q)
    <3>1. ASSUME NEW x \in Node
          PROVE  known.state[x] \in {NoLeaf} \cup 1 .. Q[x]
      <4>1. CASE x = n
        BY <1>0, <2>2, <4>1
      <4>2. CASE x # n
        BY <2>2, <2>3, <4>2 DEF Truthful, Published
      <4> QED BY <4>1, <4>2
    <3> QED BY <2>2, <3>1 DEF Published
  <2>5. /\ \A r \in LoggedRounds(known) : EntryOK(known.log[r], known.state)
        /\ Within(known.oldState, known.state)
    BY <1>0, <2>1, <2>2, WithinGrown DEF Truthful, LoggedRounds
  <2>6. \A e \in known.sentData : e.session = n /\ e.seq \in 0 .. known.seqNo
    <3>1. q >= s.seqNo
      BY <1>0 DEF q
    <3> QED BY <1>0, <2>1, <3>1 DEF Truthful
  <2>7. \A p \in known.sentReco : Published(p.state, Q)
    BY <2>1, <2>3 DEF Truthful
  <2> QED BY <1>0, <2>1, <2>2, <2>4, <2>5, <2>6, <2>7 DEF Truthful
<1>3. EntryOK(commit, known.state)
  <2>1. commit.leaves = Update(EmptyState, n, q) /\ "leaves" \in DOMAIN commit
    BY DEF NewEntry
  <2>2. known.state = Update(s.state, n, q)
    BY DEF Truthful, Carriers
  <2>3. known.state[n] = q
    BY <1>0, <1>1, <2>2, UpdateGrows
  <2> HIDE DEF known, commit, q
  <2>4. /\ commit.leaves \in State
        /\ \A y \in Node \ {n} : commit.leaves[y] = NoLeaf
        /\ commit.leaves[n] = q
    <3>1. \A y \in Node : EmptyState[y] = NoLeaf
      BY DEF EmptyState
    <3>2. q \in SeqNo /\ NoLeaf < q
      BY <1>0 DEF NoLeaf
    <3> QED BY <2>1, <3>1, <3>2, EmptyStateType, UpdateGrows
  <2> QED BY <1>0, <2>1, <2>3, <2>4 DEF EntryOK, Within
<1> HIDE DEF known, commit, Q
<1>4. Silent(known, logged, n, Q)
  BY <1>2, <1>3, LogSilent
<1>5. c \notin LoggedRounds(s) => c \in LoggedRounds(logged)
  BY DEF UpdateDiffLog, known, PutEntry, LoggedRounds, Truthful, Carriers
<1> HIDE DEF logged
<1>6. Silent(known, excluded, n, Q)
  <2>1. ASSUME c \notin LoggedRounds(s)
        PROVE  EntryOK([logged.log[c] EXCEPT !.exclude = {d}], logged.state)
    BY <1>4, <1>5, <2>1 DEF Silent, Truthful, EntryOK, Within
  <2>2. ASSUME c \notin LoggedRounds(s)
        PROVE  Silent(logged, excluded, n, Q)
    BY <1>4, <2>1, <2>2, LogSilent DEF Silent
  <2> QED BY <1>4, <2>2 DEF Silent, Quiet
<1> HIDE DEF excluded
<1>7. Silent(known, sent, n, Q)
  <2> DEFINE x == SendData(excluded, n, c, q, info)
  <2>1. q \in 0 .. excluded.seqNo
    BY <1>0, <1>6 DEF Silent, Quiet, known, Truthful, Carriers
  <2>2. Silent(excluded, x, n, Q)
    BY <1>6, <2>1, SendSilent DEF Silent
  <2> HIDE DEF x
  <2>3. Silent(x, [x EXCEPT !.pendingDataInterest = 0], n, Q)
    BY <2>2, OtherSilent DEF Silent
  <2>4. Silent(known, [x EXCEPT !.pendingDataInterest = 0], n, Q)
    BY <1>6, <2>2, <2>3 DEF Silent, Quiet
  <2> QED BY <1>4, <2>4 DEF x
<1> HIDE DEF sent
<1>8. Silent(known, RoundUsed(told), n, Q)
  <2>1. Silent(sent, told, n, Q)
    BY <1>7, OtherSilent DEF Silent
  <2> HIDE DEF told
  <2>2. Silent(told, RoundUsed(told), n, Q)
    BY <2>1, MoveSilent DEF Silent
  <2> QED BY <1>7, <2>1, <2>2 DEF Silent, Quiet
<1>9. UpdateSeqNo(s, n, q) = RoundUsed(told)
  <2>1. ~(q < s.seqNo \/ q = 0) /\ Changes(s.state, n, q)
    BY <1>0, <1>1 DEF Changes
  <2> QED BY <2>1 DEF UpdateSeqNo, told, sent, excluded, logged, known, commit
<1>10. known.seqNo = q /\ known.state = Update(s.state, n, q)
  BY DEF known, Truthful, Carriers
<1> QED BY <1>8, <1>9, <1>10 DEF Silent, Quiet, Q

----------------------------------------------------------------------------
(* What is learned. *)

\* A packet that somebody has sent.
Genuine(d, P) == d.session \in Node /\ d.seq \in 0 .. P[d.session]

LEMMA AppliedTruthful ==
  ASSUME NEW n \in Node, NEW P \in Produces, NEW s, Truthful(s, n, P),
         NEW d, Genuine(d, P)
  PROVE  LET t == Applied(s, d)
         IN  /\ Truthful(t, n, P)
             /\ t.seqNo = s.seqNo
             /\ Behind(s.state, t.state)
             /\ t.state = IF d.seq = CumulativeOnlyData THEN s.state
                          ELSE Update(s.state, d.session, d.seq)
<1> DEFINE checked == IF d.info = {} THEN s
                      ELSE CheckRecovery(s, d.session, The(d.info).round,
                                         The(d.info).cd)
           t == ApplyLeaf(checked, d)
           x == d.session
           q == d.seq
<1>1. Silent(s, checked, n, P)
  BY RecoverySilent DEF Silent, Quiet
<1> HIDE DEF checked
<1>2. x \in Node /\ q \in SeqNo /\ q \in 0 .. P[x] /\ s.state \in State
  BY DEF Genuine, Truthful, Published, Produces, SeqNo
<1>3. Behind(s.state, s.state)
  BY <1>2 DEF Behind, State, NoLeaf
<1>4. /\ Carriers \subseteq DOMAIN t
      /\ t.seqNo = s.seqNo /\ t.state = Update(s.state, x, q)
      /\ t.log = checked.log /\ t.sentData = checked.sentData
      /\ t.sentReco = checked.sentReco
      /\ t.oldState \in {checked.oldState, Update(checked.oldState, x, q)}
  BY <1>1 DEF Silent, Quiet, Truthful, Carriers, ApplyLeaf
<1>5. /\ t.state \in State /\ Behind(s.state, t.state)
      /\ \A y \in Node \ {x} : t.state[y] = s.state[y]
      /\ t.state[x] = IF s.state[x] < q THEN q ELSE s.state[x]
  BY <1>2, <1>4, UpdateGrows
<1> HIDE DEF t
<1>6. CASE q # CumulativeOnlyData
  <2>1. q \in 1 .. P[x]
    BY <1>2, <1>6 DEF CumulativeOnlyData, Produces
  <2>2. Published(t.state, P)
    BY <1>5, <2>1 DEF Published, Truthful
  \* A packet of the node's own tells it nothing.
  <2>3. t.state[n] = s.state[n]
    BY <1>2, <1>5, <2>1 DEF Truthful
  <2>4. \A r \in LoggedRounds(t) : EntryOK(t.log[r], t.state)
    BY <1>1, <1>2, <1>4, <1>5, WithinGrown DEF Silent, Quiet, Truthful,
       LoggedRounds
  \* Late data of a settled round goes to both states.
  <2>7. Within(t.oldState, t.state)
    <3> DEFINE old == checked.oldState
    <3>1. Within(old, s.state)
      BY <1>1 DEF Silent, Quiet, Truthful
    <3>2. Within(old, t.state)
      BY <1>2, <1>5, <3>1, WithinGrown
    <3> HIDE DEF old
    <3>3. /\ Update(old, x, q) \in State
          /\ \A y \in Node \ {x} : Update(old, x, q)[y] = old[y]
          /\ Update(old, x, q)[x] = IF old[x] < q THEN q ELSE old[x]
      BY <1>2, <3>1, UpdateGrows DEF Within
    <3>4. q \in 1 .. t.state[x]
      BY <1>2, <1>5, <2>1 DEF State, NoLeaf, Produces
    <3>5. ASSUME NEW y \in Node
          PROVE  Update(old, x, q)[y]
                   \in {NoLeaf, CumulativeOnlyData} \cup 1 .. t.state[y]
      <4>1. CASE y = x
        BY <3>2, <3>3, <3>4, <4>1 DEF Within
      <4>2. CASE y # x
        BY <3>2, <3>3, <4>2 DEF Within
      <4> QED BY <4>1, <4>2
    <3>6. Within(Update(old, x, q), t.state)
      BY <3>3, <3>5 DEF Within
    <3> QED BY <1>4, <3>2, <3>6 DEF old
  <2>5. Truthful(t, n, P)
    BY <1>1, <1>4, <2>2, <2>3, <2>4, <2>7 DEF Silent, Quiet, Truthful
  <2>6. Applied(s, d) = t
    BY <1>6 DEF Applied, t, checked
  <2> QED BY <1>4, <1>5, <1>6, <2>5, <2>6
<1>7. CASE q = CumulativeOnlyData
  <2>1. Applied(s, d) = checked
    BY <1>7 DEF Applied, checked
  <2> QED BY <1>1, <1>3, <1>7, <2>1 DEF Silent, Quiet
<1> QED BY <1>6, <1>7

\* What goes to the log is in the state as well.
LEMMA CommittedOK ==
  ASSUME NEW n \in Node, NEW P \in Produces, NEW s, Truthful(s, n, P),
         NEW d, Genuine(d, P)
  PROVE  EntryOK(Committed(s, d), Applied(s, d).state)
<1> DEFINE st == Applied(s, d).state
           e == EntryOf(s, d.round)
           x == d.session
           q == d.seq
<1>1. /\ Behind(s.state, st) /\ st \in State /\ s.state \in State
      /\ st = IF q = CumulativeOnlyData THEN s.state ELSE Update(s.state, x, q)
  BY AppliedTruthful DEF Truthful, Published
<1> HIDE DEF st
<1>2. EntryOK(NewEntry, s.state)
  BY DEF EntryOK, Within, NewEntry, EmptyState, State
<1>3. EntryOK(e, s.state)
  BY <1>2 DEF EntryOf, Truthful
<1>4. EntryOK(e, st)
  BY <1>1, <1>3, WithinGrown
<1>5. x \in Node /\ q \in SeqNo
  BY DEF Genuine, Produces, SeqNo
<1>6. /\ Committed(s, d).leaves = Update(e.leaves, x, q)
      /\ "leaves" \in DOMAIN Committed(s, d)
  BY <1>4 DEF Committed, EntryOK, Within
<1> HIDE DEF e
<1>7. /\ Update(e.leaves, x, q) \in State
      /\ \A y \in Node \ {x} : Update(e.leaves, x, q)[y] = e.leaves[y]
      /\ Update(e.leaves, x, q)[x] = IF e.leaves[x] < q THEN q ELSE e.leaves[x]
  BY <1>4, <1>5, UpdateGrows DEF EntryOK, Within
<1>8. q # CumulativeOnlyData => q \in 1 .. st[x]
  <2>1. ASSUME q # CumulativeOnlyData
        PROVE  st[x] = IF s.state[x] < q THEN q ELSE s.state[x]
    BY <1>1, <1>5, <2>1, UpdateGrows
  <2> QED BY <1>1, <1>5, <2>1 DEF CumulativeOnlyData, SeqNo, State, NoLeaf
<1> DEFINE c == Committed(s, d)
<1> HIDE DEF c, x, q
<1>9. ASSUME NEW y \in Node
      PROVE  c.leaves[y] \in {NoLeaf, CumulativeOnlyData} \cup 1 .. st[y]
  <2>1. CASE y # x
    BY <1>4, <1>6, <1>7, <2>1 DEF EntryOK, Within, c
  <2>2. CASE y = x
    BY <1>4, <1>6, <1>7, <1>8, <2>2 DEF EntryOK, Within, c
  <2> QED BY <2>1, <2>2
<1>10. EntryOK(c, st)
  BY <1>6, <1>7, <1>9 DEF EntryOK, Within, c
<1> QED BY <1>10 DEF c, st

\* The state after a handler that has learned from s to t.
Learns(s, t, n, P) ==
    Truthful(t, n, P) /\ t.seqNo = s.seqNo /\ Behind(s.state, t.state)

LEMMA ProcessDataLearns ==
  ASSUME NEW n \in Node, NEW P \in Produces, NEW s, Truthful(s, n, P),
         NEW d, Genuine(d, P)
  PROVE  Learns(s, ProcessData(s, d), n, P)
<1> DEFINE t == Applied(s, d)
           e == Committed(s, d)
<1>1. Learns(s, t, n, P) /\ EntryOK(e, t.state)
  BY AppliedTruthful, CommittedOK DEF Learns
<1>2. Learns(s, s, n, P)
  BY DEF Learns, Behind, Truthful, Published, State, NoLeaf
<1> HIDE DEF t, e
<1> DEFINE m == MoveAfter(t, d)
<1>3. Silent(t, m, n, P)
  BY <1>1, MoveSilent DEF MoveAfter, Silent, Quiet, Learns
<1> HIDE DEF m
<1> DEFINE u == PutEntry(m, d.round, e)
<1>4. Silent(m, u, n, P)
  BY <1>1, <1>3, LogSilent DEF Silent, Quiet
<1> HIDE DEF u
<1>5. Silent(u, [u EXCEPT !.syncDue = @ \cup {d.round}], n, P)
  BY <1>4, OtherSilent DEF Silent
<1>6. Learns(s, [u EXCEPT !.syncDue = @ \cup {d.round}], n, P)
  BY <1>1, <1>3, <1>4, <1>5 DEF Silent, Quiet, Learns
<1> QED BY <1>2, <1>6 DEF ProcessData, u, m, t, e

LEMMA MergedLearns ==
  ASSUME NEW n \in Node, NEW P \in Produces, NEW s, Truthful(s, n, P),
         NEW u, NEW st, Published(st, P)
  PROVE  /\ Learns(s, Merged(s, u, st), n, P)
         /\ Merged(s, u, st).state = Plus(s.state, st)
<1> DEFINE t == Merged(s, u, st)
<1>1. /\ Carriers \subseteq DOMAIN t
      /\ t.seqNo = s.seqNo /\ t.state = Plus(s.state, st)
      /\ t.log = s.log /\ t.sentData = s.sentData /\ t.sentReco = s.sentReco
      /\ t.oldState = s.oldState
  BY DEF Truthful, Carriers, Merged
<1> HIDE DEF t
<1>2. s.state \in State /\ st \in State /\ t.state \in State
  BY <1>1, PlusType DEF Truthful, Published
<1>3. \A x \in Node : t.state[x] = IF s.state[x] < st[x] THEN st[x]
                                   ELSE s.state[x]
  BY <1>1, <1>2 DEF Plus
<1>4. Published(t.state, P)
  BY <1>2, <1>3 DEF Published, Truthful
<1>5. Behind(s.state, t.state)
  BY <1>2, <1>3 DEF Behind, State, NoLeaf
<1>6. t.state[n] = s.state[n]
  <2>1. st[n] \in {NoLeaf} \cup 1 .. s.seqNo /\ s.seqNo \in Nat
    BY DEF Published, Truthful
  <2>2. ~(s.state[n] < st[n])
    BY <2>1 DEF Truthful, NoLeaf
  <2> QED BY <1>3, <2>2
<1>7. /\ \A r \in LoggedRounds(t) : EntryOK(t.log[r], t.state)
      /\ Within(t.oldState, t.state)
  BY <1>1, <1>2, <1>5, WithinGrown DEF Truthful, LoggedRounds
<1>8. Truthful(t, n, P)
  BY <1>1, <1>4, <1>6, <1>7 DEF Truthful
<1> QED BY <1>1, <1>5, <1>8 DEF Learns, t

LEMMA ResumeSilent ==
  ASSUME NEW n \in Node, NEW P, NEW s, Truthful(s, n, P), NEW r
  PROVE  Silent(s, Resume(s, r), n, P)
<1> DEFINE m == CatchUp(s, r)
<1>1. Silent(s, m, n, P)
  <2> DEFINE v == MoveToNewCurrentRoundAfterRecovery(s, r + 1)
  <2>1. Silent(s, v, n, P)
    BY MoveSilent
  <2> HIDE DEF v
  <2>2. Silent(v, [v EXCEPT !.lastRecoveryRound = r], n, P)
    BY <2>1, OtherSilent DEF Silent
  <2>3. Silent(s, [v EXCEPT !.lastRecoveryRound = r], n, P)
    BY <2>1, <2>2 DEF Silent, Quiet
  <2> QED BY <2>3, OtherSilent DEF CatchUp, v
<1> HIDE DEF m
<1>2. Within(m.state, m.state)
  BY <1>1 DEF Silent, Truthful, Published, Within, State, NoLeaf,
              CumulativeOnlyData
<1>3. ASSUME NEW R PROVE Silent(m, Unstabilize(GoFishing(m, R)), n, P)
  BY <1>1, <1>2 DEF Silent, Quiet, Truthful, Carriers, LoggedRounds,
                    Unstabilize, GoFishing
<1> QED BY <1>1, <1>3 DEF Resume, Silent, Quiet, m

\* What is published from inside the callback comes on top.
LEMMA PublishingLearns ==
  ASSUME NEW n \in Node, NEW P \in Produces, NEW s, Truthful(s, n, P),
         NEW t, Learns(s, t, n, P)
  PROVE  LET q == s.seqNo + 1
             u == UpdateSeqNo(t, n, q)
         IN  /\ Truthful(u, n, [P EXCEPT ![n] = q])
             /\ u.seqNo = q /\ u.state = Update(t.state, n, q)
  BY UpdateSeqNoTruthful DEF Learns

LEMMA ProcessDataPublishingLearns ==
  ASSUME NEW n \in Node, NEW P \in Produces, NEW s, Truthful(s, n, P),
         NEW d, Genuine(d, P)
  PROVE  LET q == s.seqNo + 1
             t == ProcessDataPublishing(s, n, d)
         IN  /\ Truthful(t, n, [P EXCEPT ![n] = q])
             /\ t.seqNo = q
             /\ t.state = Update(Applied(s, d).state, n, q)
<1> DEFINE q == s.seqNo + 1
           Q == [P EXCEPT ![n] = q]
           a == Applied(s, d)
           e == Committed(s, d)
           called == IF d.round \in LoggedRounds(s) THEN PutEntry(a, d.round, e)
                     ELSE a
           published == UpdateSeqNo(called, n, q)
<1>1. Learns(s, a, n, P) /\ EntryOK(e, a.state)
  BY AppliedTruthful, CommittedOK DEF Learns
<1> HIDE DEF a, e
<1>2. Learns(s, called, n, P) /\ called.state = a.state
  BY <1>1, LogSilent DEF Learns, Silent, Quiet
<1> HIDE DEF called
<1>3. /\ Truthful(published, n, Q)
      /\ published.seqNo = q /\ published.state = Update(a.state, n, q)
  BY <1>2, PublishingLearns
<1>4. EntryOK(e, published.state)
  <2>1. q \in SeqNo /\ a.state \in State
    BY <1>1 DEF Truthful, SeqNo, Learns, Published
  <2>2. published.state \in State /\ Behind(a.state, published.state)
    BY <1>3, <2>1, UpdateGrows
  <2> QED BY <1>1, <2>1, <2>2, WithinGrown
<1> HIDE DEF published, Q
<1> DEFINE m == MoveAfter(published, d)
<1>5. Silent(published, m, n, Q)
  BY <1>3, MoveSilent DEF MoveAfter, Silent, Quiet
<1> HIDE DEF m
<1> DEFINE u == UpdateDiffLog(m, d.round, e)
<1>6. Silent(m, u, n, Q)
  BY <1>4, <1>5, LogSilent DEF Silent, Quiet
<1> HIDE DEF u
<1>7. Silent(u, [u EXCEPT !.syncDue = @ \cup {d.round}], n, Q)
  BY <1>6, OtherSilent DEF Silent
<1>8. ProcessDataPublishing(s, n, d) = [u EXCEPT !.syncDue = @ \cup {d.round}]
  BY DEF ProcessDataPublishing, u, m, published, called, a, e
<1> QED BY <1>3, <1>5, <1>6, <1>7, <1>8 DEF Silent, Quiet, Q, a

----------------------------------------------------------------------------
(* Every action. *)

TInv == \A n \in Node : Truthful(node[n], n, Produced)

\* What holds along every behaviour, and what each step is for Dissemination.
DInv == IInv /\ TInv
Step == TInv' /\ [Promise!Next]_<<Produced, Known>>

LEMMA TInvInitially == Init => TInv
<1> SUFFICES ASSUME Init, NEW n \in Node PROVE Truthful(node[n], n, Produced)
  BY DEF TInv
<1>1. node[n] = InitialNode /\ Produced[n] = 0
  BY DEF Init, Produced, InitialNode
<1>2. Published(EmptyState, Produced)
  BY DEF Published, EmptyState, State
<1>3. Within(EmptyState, EmptyState)
  BY DEF Within, EmptyState, State
<1> QED BY <1>1, <1>2, <1>3 DEF Truthful, Carriers, InitialNode, LoggedRounds,
                                EmptyState

LEMMA ProducedFacts ==
  ASSUME DInv
  PROVE  /\ node = [n \in Node |-> node[n]]
         /\ Produced \in Produces
         /\ \A n \in Node : /\ Truthful(node[n], n, Produced)
                            /\ Produced[n] = node[n].seqNo
                            /\ Known[n] = node[n].state
<1>1. node = [n \in Node |-> node[n]] /\ \A n \in Node : node[n].seqNo \in Nat
  BY DEF DInv, IInv, NodeType, SeqNo
<1> QED BY <1>1 DEF DInv, TInv, Produced, Produces, Known

\* What a handler that leaves node n in state s does to what all have published
\* and know.
LEMMA BecomesKnown ==
  ASSUME DInv, NEW n \in Node, NEW s, Becomes(n, s),
         Truthful(s, n, [Produced EXCEPT ![n] = s.seqNo]),
         s.seqNo >= node[n].seqNo
  PROVE  /\ TInv'
         /\ Produced' = [Produced EXCEPT ![n] = s.seqNo]
         /\ Known' = [Known EXCEPT ![n] = s.state]
<1> DEFINE Q == [Produced EXCEPT ![n] = s.seqNo]
           t == After(s)
<1>0. s.seqNo \in Nat
  BY DEF Truthful
<1>1. Silent(s, t, n, Q)
  BY RunDueEventsSilent DEF After, Silent, Quiet
<1> HIDE DEF t
<1>2. node' = [m \in Node |-> IF m = n THEN t ELSE node[m]]
  BY ProducedFacts DEF Becomes, t
<1>3. Produced' = Q
  <2>1. Produced' = [m \in Node |-> IF m = n THEN s.seqNo ELSE node[m].seqNo]
    BY <1>1, <1>2 DEF Produced, Silent, Quiet
  <2> QED BY <2>1 DEF Produced
<1>4. Known' = [Known EXCEPT ![n] = s.state]
  <2>1. Known' = [m \in Node |-> IF m = n THEN s.state ELSE node[m].state]
    BY <1>1, <1>2 DEF Known, Silent, Quiet
  <2> QED BY <2>1 DEF Known
<1>5. Q \in Produces /\ \A m \in Node : Produced[m] <= Q[m]
  BY <1>0, ProducedFacts DEF Produces
<1>6. ASSUME NEW m \in Node PROVE Truthful(node'[m], m, Q)
  <2>1. CASE m = n
    BY <1>1, <1>2, <2>1 DEF Silent
  <2>2. CASE m # n
    <3>1. Q[m] = Produced[m] /\ node'[m] = node[m]
      BY <1>2, <2>2, ProducedFacts DEF Produces
    <3> QED BY <1>5, <3>1, ProducedFacts, MoreProduced
  <2> QED BY <2>1, <2>2
<1>7. TInv'
  BY <1>3, <1>6 DEF TInv
<1> QED BY <1>3, <1>4, <1>7

LEMMA BecomesSilent ==
  ASSUME DInv, NEW n \in Node, NEW s, Becomes(n, s),
         Silent(node[n], s, n, Produced)
  PROVE  Step
<1>1. [Produced EXCEPT ![n] = s.seqNo] = Produced
  BY ProducedFacts DEF Silent, Quiet, Produces
<1>2. [Known EXCEPT ![n] = s.state] = Known
  BY DEF Known, Silent, Quiet
<1>3. s.seqNo >= node[n].seqNo
  BY ProducedFacts DEF Silent, Quiet, Truthful
<1> QED BY <1>1, <1>2, <1>3, BecomesKnown DEF Silent, Step

\* A state that has grown, to what others have published.
LEMMA LearnedByGrowth ==
  ASSUME DInv, NEW n \in Node, NEW st, Published(st, Produced),
         Behind(node[n].state, st)
  PROVE  Promise!Learned(n, st)
<1>1. node[n].state \in State /\ Known[n] = node[n].state
  BY ProducedFacts DEF Truthful, Published
<1>2. ASSUME NEW x \in Node, st[x] # Known[n][x]
      PROVE  st[x] \in 1 .. Produced[x]
  BY <1>1, <1>2 DEF Published, Behind, State, NoLeaf
<1> QED BY <1>1, <1>2 DEF Promise!Learned, Promise!Behind, Behind

LEMMA BecomesLearning ==
  ASSUME DInv, NEW n \in Node, NEW s, Becomes(n, s),
         Learns(node[n], s, n, Produced)
  PROVE  Step
<1>1. [Produced EXCEPT ![n] = s.seqNo] = Produced
  BY ProducedFacts DEF Learns, Produces
<1>2. s.seqNo >= node[n].seqNo
  BY ProducedFacts DEF Learns, Truthful
<1>3. TInv' /\ Produced' = Produced /\ Known' = [Known EXCEPT ![n] = s.state]
  BY <1>1, <1>2, BecomesKnown DEF Learns
<1>4. Promise!Learned(n, s.state)
  BY LearnedByGrowth DEF Learns, Truthful
<1>5. s.state[n] = Known[n][n]
  BY ProducedFacts DEF Learns, Truthful
<1>6. Known'[n] = s.state
  BY <1>3 DEF Known
<1>7. Promise!Learn(n)
  BY <1>3, <1>4, <1>5, <1>6 DEF Promise!Learn
<1> QED BY <1>3, <1>7 DEF Step, Promise!Next

\* st: what the node has learned before it publishes, its own state if nothing.
LEMMA BecomesPublishing ==
  ASSUME DInv, NEW n \in Node, NEW s, Becomes(n, s), NEW t,
         Learns(node[n], t, n, Produced),
         Truthful(s, n, [Produced EXCEPT ![n] = node[n].seqNo + 1]),
         s.seqNo = node[n].seqNo + 1,
         s.state = Update(t.state, n, s.seqNo),
         \/ t.state = node[n].state
         \/ \E x \in Node \ {n} : t.state[x] # node[n].state[x]
  PROVE  Step
<1> DEFINE q == s.seqNo
<1>0. /\ node[n].seqNo \in Nat /\ q \in SeqNo /\ q > node[n].seqNo
      /\ t.state \in State
  BY ProducedFacts DEF Truthful, SeqNo, Learns, Published
<1>1. /\ TInv' /\ Produced' = [Produced EXCEPT ![n] = q]
      /\ Known' = [Known EXCEPT ![n] = s.state]
  BY <1>0, BecomesKnown
<1>2. Produced'[n] = q /\ Known'[n] = s.state
  BY <1>1, ProducedFacts DEF Produces, Known
<1>3. Produced[n] = node[n].seqNo /\ Known[n] = node[n].state
  BY ProducedFacts
<1>4. CASE t.state = node[n].state
  <2>1. Promise!Produce(n)
    BY <1>0, <1>1, <1>2, <1>3, <1>4
       DEF Promise!Produce, Promise!Update, Update, Known
  <2> QED BY <1>1, <2>1 DEF Step, Promise!Next
<1>5. CASE \E x \in Node \ {n} : t.state[x] # node[n].state[x]
  <2>1. /\ \A x \in Node \ {n} : s.state[x] = t.state[x]
        /\ Behind(t.state, s.state)
        /\ s.state[n] = IF t.state[n] < q THEN q ELSE t.state[n]
    BY <1>0, UpdateGrows
  <2>2. s.state[n] = q
    <3>1. t.state[n] < q
      BY <1>0 DEF Learns, Truthful, NoLeaf
    <3> QED BY <2>1, <3>1
  <2>3. Promise!Learned(n, s.state)
    <3>1. Promise!Learned(n, t.state)
      BY LearnedByGrowth DEF Learns, Truthful
    <3>2. Behind(node[n].state, s.state)
      <4>1. node[n].state \in State /\ s.state \in State
        BY ProducedFacts DEF Truthful, Published
      <4> QED BY <1>0, <2>1, <4>1 DEF Learns, Behind, State, NoLeaf
    <3> QED BY <1>3, <2>1, <3>1, <3>2
            DEF Promise!Learned, Promise!Behind, Behind
  <2>4. Promise!Answer(n)
    <3>1. Promise!Learned(n, Known'[n])
      BY <1>2, <2>3 DEF Promise!Learned, Promise!Behind
    <3>2. \E x \in Node \ {n} : Known'[n][x] # Known[n][x]
      BY <1>2, <1>3, <1>5, <2>1
    <3>3. /\ Produced'[n] > Produced[n] /\ Known'[n][n] = Produced'[n]
          /\ Produced' = [Produced EXCEPT ![n] = Produced'[n]]
          /\ Known' = [Known EXCEPT ![n] = Known'[n]]
      BY <1>0, <1>1, <1>2, <1>3, <2>2
    <3> QED BY <3>1, <3>2, <3>3 DEF Promise!Answer
  <2> QED BY <1>1, <2>4 DEF Step, Promise!Next
<1> QED BY <1>4, <1>5

LEMMA HandledSilent ==
  ASSUME NEW n \in Node, NEW P, NEW s, NEW t, Silent(s, t, n, P),
         NEW F, NEW partition, NEW u, NEW r, NEW cd
  PROVE  /\ Silent(s, SendDataInterest(t, F, partition), n, P)
         /\ Silent(s, SendSyncInterest(t, F, partition), n, P)
         /\ Silent(s, SendRecoInterest(t, F, partition), n, P)
         /\ Silent(s, ProduceCumulativeOnly(t, n, r, cd), n, P)
         /\ Silent(s, CheckRecovery(t, u, r, cd), n, P)
         /\ Silent(s, OnDataInterestTimeout(t, u), n, P)
         /\ Silent(s, OnRecoInterestTimeout(t, u), n, P)
<1>1. Truthful(t, n, P)
  BY DEF Silent
<1>2. ASSUME NEW v, Silent(t, v, n, P) PROVE Silent(s, v, n, P)
  BY <1>2, SilentTransitive DEF Silent
<1> QED BY <1>1, <1>2, InterestsOutSilent, ProduceCumulativeOnlySilent,
           RecoverySilent, TimeoutsSilent

LEMMA SchedulerSteps ==
  ASSUME DInv, NEW n \in Node
  PROVE  /\ Fish(n) => Step
         /\ Reexpress(n) => Step
         /\ Announce(n) => Step
         /\ SyncRound(n) => Step
         /\ Stabilize(n) => Step
         /\ ReportCumulative(n) => Step
         /\ RetryRecovery(n) => Step
         /\ AskRecovery(n) => Step
<1>0. Truthful(node[n], n, Produced)
  BY ProducedFacts
<1>1. ASSUME Fish(n) PROVE Step
  BY <1>0, <1>1, OtherSilent, HandledSilent, BecomesSilent DEF Fish
<1>2. ASSUME Reexpress(n) PROVE Step
  BY <1>0, <1>2, OtherSilent, HandledSilent, BecomesSilent DEF Reexpress
<1>3. ASSUME Announce(n) PROVE Step
  BY <1>0, <1>3, OtherSilent, HandledSilent, BecomesSilent DEF Announce
<1>4. ASSUME SyncRound(n) PROVE Step
  BY <1>0, <1>4, OtherSilent, HandledSilent, BecomesSilent DEF SyncRound
<1>5. ASSUME Stabilize(n) PROVE Step
  <2>1. IsFiniteSet(LoggedRounds(node[n]))
    BY NodeFacts, LogFacts DEF DInv
  <2> QED BY <1>0, <1>5, <2>1, StabilizeSilent, BecomesSilent DEF Stabilize
<1>6. ASSUME ReportCumulative(n) PROVE Step
  BY <1>0, <1>6, OtherSilent, HandledSilent, BecomesSilent DEF ReportCumulative
<1>7. ASSUME RetryRecovery(n) PROVE Step
  BY <1>0, <1>7, OtherSilent, HandledSilent, BecomesSilent DEF RetryRecovery
<1>8. ASSUME AskRecovery(n) PROVE Step
  BY <1>0, <1>8, OtherSilent, HandledSilent, BecomesSilent DEF AskRecovery
<1> QED BY <1>1, <1>2, <1>3, <1>4, <1>5, <1>6, <1>7, <1>8

LEMMA InterestAndTimeoutSteps ==
  ASSUME DInv, NEW n \in Node
  PROVE  /\ ReceiveDataInterest(n) => Step
         /\ ReceiveSyncInterest(n) => Step
         /\ ReceiveRecoInterest(n) => Step
         /\ DataInterestTimeout(n) => Step
         /\ RecoInterestTimeout(n) => Step
<1>0. Truthful(node[n], n, Produced)
  BY ProducedFacts
<1>1. ASSUME ReceiveDataInterest(n) PROVE Step
  BY <1>0, <1>1, InterestsInSilent, BecomesSilent
     DEF ReceiveDataInterest, DataInterestArrives
<1>2. ASSUME ReceiveSyncInterest(n) PROVE Step
  BY <1>0, <1>2, InterestsInSilent, BecomesSilent
     DEF ReceiveSyncInterest, SyncInterestArrives
<1>3. ASSUME ReceiveRecoInterest(n) PROVE Step
  <2>1. Silent(node[n], ProcessRecoInterest(node[n]), n, Produced)
    BY <1>0, InterestsInSilent
  <2> QED BY <1>3, <2>1, BecomesSilent DEF ReceiveRecoInterest
<1>4. ASSUME DataInterestTimeout(n) PROVE Step
  BY <1>0, <1>4, OtherSilent, HandledSilent, BecomesSilent
     DEF DataInterestTimeout, DataInterestExpires
<1>5. ASSUME RecoInterestTimeout(n) PROVE Step
  BY <1>0, <1>5, OtherSilent, HandledSilent, BecomesSilent
     DEF RecoInterestTimeout
<1> QED BY <1>1, <1>2, <1>3, <1>4, <1>5

\* Packets and states on the network hold only what was published.
LEMMA PacketsGenuine ==
  ASSUME DInv, NEW d \in Packets
  PROVE  Genuine(d, Produced)
  BY ProducedFacts DEF Packets, Truthful, Genuine

LEMMA AnswersPublished ==
  ASSUME DInv, NEW u \in Node, NEW p \in node[u].sentReco
  PROVE  Published(p.state, Produced)
  BY ProducedFacts DEF Truthful

LEMMA DataSteps ==
  ASSUME DInv, NEW n \in Node
  PROVE  /\ ReceiveData(n) => Step
         /\ ReceiveDataAndPublish(n) => Step
<1> DEFINE s == node[n]
           P == Produced
<1>0. P \in Produces /\ Truthful(s, n, P)
  BY ProducedFacts
<1>1. ASSUME ReceiveData(n) PROVE Step
  <2>1. PICK i \in s.face, d \in Packets :
           Becomes(n, IF partitioned THEN [s EXCEPT !.face = @ \ {i}]
                      ELSE ProcessData([s EXCEPT !.face = @ \ {i}], d))
    BY <1>1 DEF ReceiveData, DataArrives
  <2> DEFINE t == [s EXCEPT !.face = @ \ {i}]
  <2>2. Silent(s, t, n, P)
    BY <1>0, OtherSilent
  <2> HIDE DEF t
  <2>3. Learns(t, ProcessData(t, d), n, P)
    BY <1>0, <2>2, PacketsGenuine, ProcessDataLearns DEF Silent
  <2>4. Learns(s, ProcessData(t, d), n, P)
    BY <2>2, <2>3 DEF Silent, Quiet, Learns
  <2>5. CASE partitioned
    BY <2>1, <2>2, <2>5, BecomesSilent DEF t
  <2>6. CASE ~partitioned
    BY <2>1, <2>4, <2>6, BecomesLearning DEF t
  <2> QED BY <2>5, <2>6
<1>2. ASSUME ReceiveDataAndPublish(n) PROVE Step
  <2>1. PICK i \in s.face, d \in Packets :
           /\ Notifies([s EXCEPT !.face = @ \ {i}], d)
           /\ Becomes(n, ProcessDataPublishing([s EXCEPT !.face = @ \ {i}], n, d))
    BY <1>2 DEF ReceiveDataAndPublish, DataArrivesAndPublish
  <2> DEFINE t == [s EXCEPT !.face = @ \ {i}]
             a == Applied(t, d)
             v == ProcessDataPublishing(t, n, d)
  <2>2. Silent(s, t, n, P) /\ Genuine(d, P)
    BY <1>0, OtherSilent, PacketsGenuine
  <2>3. Notifies(t, d) /\ Becomes(n, v)
    BY <2>1
  <2> HIDE DEF t
  <2>4. /\ Truthful(a, n, P) /\ a.seqNo = t.seqNo /\ Behind(t.state, a.state)
        /\ a.state = Update(t.state, d.session, d.seq)
    BY <1>0, <2>2, <2>3, AppliedTruthful DEF Silent, Notifies
  <2>5. /\ Truthful(v, n, [P EXCEPT ![n] = t.seqNo + 1])
        /\ v.seqNo = t.seqNo + 1
        /\ v.state = Update(a.state, n, t.seqNo + 1)
    BY <1>0, <2>2, ProcessDataPublishingLearns DEF Silent
  <2> HIDE DEF a, v
  <2>6. Learns(s, a, n, P) /\ t.seqNo = s.seqNo
    BY <2>2, <2>4 DEF Silent, Quiet, Learns
  <2>7. \E x \in Node \ {n} : a.state[x] # s.state[x]
    <3>1. /\ d.session \in Node /\ d.seq \in SeqNo /\ d.seq \in 0 .. P[d.session]
          /\ s.state \in State /\ t.state = s.state
      BY <1>0, <2>2 DEF Genuine, Truthful, Published, Produces, SeqNo, Silent,
                        Quiet
    <3>2. s.state[d.session] < d.seq /\ d.seq # 0
      BY <2>3, <3>1 DEF Notifies, Changes, CumulativeOnlyData
    <3>3. d.session # n
      BY <1>0, <3>1, <3>2 DEF Truthful
    <3>4. a.state[d.session] = d.seq
      BY <2>4, <3>1, <3>2, UpdateGrows
    <3> QED BY <3>1, <3>2, <3>3, <3>4 DEF State, NoLeaf, SeqNo
  <2> QED BY <2>3, <2>5, <2>6, <2>7, BecomesPublishing
<1> QED BY <1>1, <1>2

LEMMA RecoDataSteps ==
  ASSUME DInv, NEW n \in Node
  PROVE  /\ ReceiveRecoData(n) => Step
         /\ ReceiveRecoDataAndPublish(n) => Step
<1> DEFINE s == node[n]
           P == Produced
<1>0. P \in Produces /\ Truthful(s, n, P) /\ s.recoFace \subseteq Node
  BY ProducedFacts, NodeFacts DEF DInv
<1>1. ASSUME NEW u, NEW st, Published(st, P)
      PROVE  LET t == [s EXCEPT !.recoFace = @ \ {u}]
             IN  /\ Silent(s, t, n, P)
                 /\ Learns(s, Merged(t, u, st), n, P)
                 /\ Merged(t, u, st).state = Plus(s.state, st)
  <2> DEFINE t == [s EXCEPT !.recoFace = @ \ {u}]
             m == Merged(t, u, st)
  <2>1. Silent(s, t, n, P)
    BY <1>0, OtherSilent
  <2> HIDE DEF t
  <2>2. Learns(t, m, n, P) /\ m.state = Plus(t.state, st)
    BY <1>0, <1>1, <2>1, MergedLearns DEF Silent
  <2> QED BY <2>1, <2>2 DEF Silent, Quiet, Learns, t
<1>2. ASSUME ReceiveRecoData(n) PROVE Step
  <2>1. PICK u \in s.recoFace : \E p \in node[u].sentReco :
           Becomes(n, IF partitioned THEN [s EXCEPT !.recoFace = @ \ {u}]
                      ELSE ProcessRecoData([s EXCEPT !.recoFace = @ \ {u}],
                                           u, p.round, p.state))
    BY <1>2 DEF ReceiveRecoData
  <2> DEFINE t == [s EXCEPT !.recoFace = @ \ {u}]
  <2>2. PICK p \in node[u].sentReco :
           Becomes(n, IF partitioned THEN t
                      ELSE ProcessRecoData(t, u, p.round, p.state))
    BY <2>1
  <2> DEFINE m == Merged(t, u, p.state)
             v == Resume(m, p.round)
  <2>3. Published(p.state, P)
    BY <1>0, AnswersPublished
  <2>4. Silent(s, t, n, P) /\ Learns(s, m, n, P)
    BY <1>1, <2>3
  <2> HIDE DEF t, m
  <2>5. Learns(s, v, n, P)
    BY <2>4, ResumeSilent DEF Learns, Silent, Quiet
  <2>6. CASE partitioned
    BY <2>2, <2>4, <2>6, BecomesSilent
  <2>7. CASE ~partitioned
    BY <2>2, <2>5, <2>7, BecomesLearning DEF ProcessRecoData, m
  <2> QED BY <2>6, <2>7
<1>3. ASSUME ReceiveRecoDataAndPublish(n) PROVE Step
  <2>1. PICK u \in s.recoFace : \E p \in node[u].sentReco :
           /\ NotifiesOf([s EXCEPT !.recoFace = @ \ {u}], p.state)
           /\ Becomes(n, ProcessRecoDataPublishing(
                            [s EXCEPT !.recoFace = @ \ {u}],
                            n, u, p.round, p.state))
    BY <1>3 DEF ReceiveRecoDataAndPublish
  <2> DEFINE t == [s EXCEPT !.recoFace = @ \ {u}]
  <2>2. PICK p \in node[u].sentReco :
           /\ NotifiesOf(t, p.state)
           /\ Becomes(n, ProcessRecoDataPublishing(t, n, u, p.round, p.state))
    BY <2>1
  <2> DEFINE m == Merged(t, u, p.state)
             w == UpdateSeqNo(m, n, t.seqNo + 1)
             v == Resume(w, p.round)
             Q == [P EXCEPT ![n] = s.seqNo + 1]
  <2>3. Published(p.state, P)
    BY <1>0, AnswersPublished
  <2>4. /\ Silent(s, t, n, P) /\ Learns(s, m, n, P)
        /\ m.state = Plus(s.state, p.state)
    BY <1>1, <2>3
  <2>5. Becomes(n, v)
    BY <2>2 DEF ProcessRecoDataPublishing
  <2> HIDE DEF t, m
  <2>6. /\ Truthful(w, n, Q) /\ w.seqNo = s.seqNo + 1
        /\ w.state = Update(m.state, n, s.seqNo + 1)
    BY <1>0, <2>4, PublishingLearns DEF Silent, Quiet
  <2> HIDE DEF w, Q
  <2>7. Silent(w, v, n, Q)
    BY <2>6, ResumeSilent
  <2> HIDE DEF v
  <2>8. /\ Truthful(v, n, Q) /\ v.seqNo = s.seqNo + 1
        /\ v.state = Update(m.state, n, s.seqNo + 1)
    BY <2>6, <2>7 DEF Silent, Quiet
  <2>9. \E x \in Node \ {n} : m.state[x] # s.state[x]
    <3>1. PICK x \in Node : s.state[x] < p.state[x]
      BY <2>2, <2>4 DEF NotifiesOf, Changes, Silent, Quiet
    <3>2. p.state[n] \in {NoLeaf} \cup 1 .. s.seqNo /\ s.seqNo \in Nat
      BY <1>0, <2>3 DEF Published, Truthful
    <3>3. x # n
      BY <1>0, <3>1, <3>2 DEF Truthful, NoLeaf
    <3>4. m.state[x] = p.state[x]
      BY <2>4, <3>1 DEF Plus
    <3>5. s.state[x] \in Int /\ p.state[x] \in Int
      BY <1>0, <2>3 DEF Truthful, Published, State, NoLeaf
    <3> QED BY <3>1, <3>3, <3>4, <3>5
  <2> QED BY <2>4, <2>5, <2>8, <2>9, BecomesPublishing DEF Q
<1> QED BY <1>2, <1>3

LEMMA NextIsStep == DInv /\ [Next]_vars => Step
<1> SUFFICES ASSUME DInv, [Next]_vars PROVE Step
  OBVIOUS
<1>0. ASSUME UNCHANGED node PROVE Step
  <2>1. UNCHANGED <<Produced, Known>>
    BY <1>0 DEF Produced, Known
  <2> QED BY <1>0, <2>1 DEF Step, TInv, DInv
<1>1. CASE UNCHANGED vars
  BY <1>0, <1>1 DEF vars
<1>2. CASE OutOfTimers
  BY <1>0, <1>2 DEF vars, OutOfTimers
<1>3. ASSUME NEW n \in Node, Publish(n) PROVE Step
  <2> DEFINE s == node[n]
             t == UpdateSeqNo(s, n, s.seqNo + 1)
  <2>1. Becomes(n, t) /\ Produced \in Produces /\ Truthful(s, n, Produced)
    BY <1>3, ProducedFacts DEF Publish
  <2>2. Learns(s, s, n, Produced)
    BY <2>1 DEF Learns, Behind, Truthful, Published, State, NoLeaf
  <2>3. /\ Truthful(t, n, [Produced EXCEPT ![n] = s.seqNo + 1])
        /\ t.seqNo = s.seqNo + 1 /\ t.state = Update(s.state, n, s.seqNo + 1)
    BY <2>1, UpdateSeqNoTruthful
  <2> HIDE DEF t
  <2> QED BY <2>1, <2>2, <2>3, BecomesPublishing
<1>4. ASSUME NEW n \in Node, StartPartition(n) \/ StopPartition(n) PROVE Step
  BY <1>0, <1>4 DEF StartPartition, StopPartition
<1> QED BY <1>1, <1>2, <1>3, <1>4, SchedulerSteps, InterestAndTimeoutSteps,
           DataSteps, RecoDataSteps DEF Next

----------------------------------------------------------------------------

LEMMA DInvAlways == Spec => []DInv
<1>1. Init => DInv
  BY IInvInitially, TInvInitially DEF DInv
<1>2. DInv /\ [Next]_vars => DInv'
  BY NextKeepsIInv, NextIsStep DEF DInv, Step
<1> QED BY <1>1, <1>2, PTL DEF Spec

\* RoundSync implements Dissemination: through packets in any order, duplicated
\* and lost, recoveries, timeouts and partitions a node learns only what others
\* have published, never falls back, and only its application moves its own
\* number, also from inside the update callback.
THEOREM Implements == Spec => Disseminates
<1>1. Init => Promise!Init
  BY DEF Init, Promise!Init, Produced, Known, InitialNode, Promise!EmptyState,
         EmptyState, Promise!NoLeaf, NoLeaf
<1>2. DInv /\ [Next]_vars => [Promise!Next]_<<Produced, Known>>
  BY NextIsStep DEF Step
<1> QED BY <1>1, <1>2, DInvAlways, PTL
        DEF Spec, Disseminates, Promise!Spec, Promise!vars

\* From whatever state of the invariant it starts, a recovery or a partition
\* under way (MCRecovery), every step learns what was published and no more.
THEOREM KeepsDisseminating == DInv /\ [][Next]_vars => DisseminatesOn
<1>1. DInv /\ [Next]_vars => [Promise!Next]_<<Produced, Known>>
  BY NextIsStep DEF Step
<1>2. DInv /\ [Next]_vars => DInv'
  BY NextKeepsIInv, NextIsStep DEF DInv, Step
<1> QED BY <1>1, <1>2, PTL DEF DisseminatesOn

\* Neither an entry of a node's log nor its old state is ever ahead of its
\* state: what the node answers from its log, and what its cumulative digests
\* stand for, is never news of which its own state knows nothing.
THEOREM LogsBehindStates == Spec => []LogBehindState
<1>1. DInv => LogBehindState
  BY DEF DInv, TInv, Truthful, EntryOK, Within, LogBehindState, NoLeaf,
         CumulativeOnlyData
<1> QED BY <1>1, DInvAlways, PTL
=============================================================================
