------------------------------- MODULE Logic -------------------------------
(***************************************************************************)
(* The methods of class Logic (src/logic.cpp) as operators on one node.    *)
(*                                                                         *)
(* A node s is a record of the members of Logic, of the events pending in  *)
(* its scheduler, of the Interests pending in its face and of what it has  *)
(* put on the network.  Each method is an operator from the node before    *)
(* the call to the node after it; a method that calls another is the       *)
(* composition of the two.  Module RoundSync makes actions of them.        *)
(*                                                                         *)
(* NULL: a pointer (a digest, the cumulative info of an entry) is a set    *)
(* with no element when NULL and with the value as its one element else.   *)
(*                                                                         *)
(* A definition marked "mutant" is a mistake the code does not make: the   *)
(* properties are checked to notice when it takes the place of the         *)
(* definition that follows it.                                             *)
(***************************************************************************)
EXTENDS SyncState

CONSTANTS
    MaxRoundsWithoutRecovery,   \* MAX_ROUNDS_WITHOUT_RECOVERY
    BackUnstableRounds,         \* BACK_UNSTABLE_ROUNDS
    MaxTimeoutsToCumulative,    \* MAX_DATA_INTEREST_TO_CUMULATIVE_ONLY
    MaxDataTimeouts,            \* MAX_DATA_INTEREST_TIMEOUTS
    MaxRecoTimeouts             \* MAX_RECO_INTEREST_TIMEOUTS

ASSUME LimitsAssumption ==
    /\ MaxRoundsWithoutRecovery \in Nat \ {0}
    /\ BackUnstableRounds \in Nat
    /\ MaxTimeoutsToCumulative \in Nat \ {0}
    /\ MaxDataTimeouts \in Nat
    /\ MaxRecoTimeouts \in Nat \ {0}

CumulativeOnlyData == 0         \* CUMULATIVE_ONLY_DATA

----------------------------------------------------------------------------
(* What is kept and what is sent. *)

Round == Nat
Info == [round : Round, cd : Option(Digest)]            \* CumulativeInfo

\* A Data packet of the multicast prefix.  DataOnly: no info.  CumulativeOnly:
\* sequence number 0.  DataAndCumulative: both.
Packet == [round : Round, session : Node, seq : SeqNo, info : Option(Info)]

\* A DiffState in the round log: leaves, round digest, cumulative digest,
\* exclude filter and cumulative info.
Entry == [leaves : State, rd : Digest, cd : Option(Digest),
          exclude : SUBSET Packet, info : Option(Info)]

\* A Data Interest pending in the face.  "own" is the one recorded in
\* m_outstandingDataInterestName and Id.
Interest == [round : Round, exclude : SUBSET Packet, retries : Nat,
             own : BOOLEAN]

\* The arguments of the events that wait in the scheduler.
FishEvent == [round : Round, retries : Nat]
ProduceEvent == [round : Round, cd : Option(Digest), tracked : BOOLEAN]
RetryEvent == [from : Node, round : Round, cd : Option(Digest)]

SyncInterest == [round : Round, rd : Digest]
RecoData == [round : Round, state : State]

NewEntry == [leaves |-> EmptyState, rd |-> EmptyState, cd |-> {},
             exclude |-> {}, info |-> {}]

LoggedRounds(s) == DOMAIN s.log
EntryOf(s, r) == IF r \in LoggedRounds(s) THEN s.log[r] ELSE NewEntry
ExcludeOf(s, r) == IF r \in LoggedRounds(s) THEN s.log[r].exclude ELSE {}

\* The log with e at round r.
PutEntry(s, r, e) ==
    [s EXCEPT !.log = [q \in LoggedRounds(s) \cup {r} |->
                          IF q = r THEN e ELSE s.log[q]]]

UpdateDiffLogReplacing(s, r, commit) ==                             \* mutant
    PutEntry(s, r, [commit EXCEPT !.rd = commit.leaves])

\* updateDiffLog() of a commit that is a new object: the round digest is
\* computed and the entry is inserted only if the round has none.
UpdateDiffLog(s, r, commit) ==
    IF r \in LoggedRounds(s)
    THEN s
    ELSE PutEntry(s, r, [commit EXCEPT !.rd = commit.leaves])

\* An exception that nobody catches, or the use of a NULL digest: the throw of
\* setStableState (752), those of a malformed content in sendData (1625) and
\* sendCumulativeOnly (915), the digests of checkRecovery (1026) and of
\* processDataInterest (650).
Crash(s) == [s EXCEPT !.crashed = TRUE]

----------------------------------------------------------------------------
(* Rounds. *)

\* sendDataInterest at 0 s for each round of R.
GoFishing(s, R) ==
    [s EXCEPT !.fish = @ \cup {[round |-> r, retries |-> 1] : r \in R}]

\* m_pendingDataInterest is only ever compared with the current round, so one
\* of a round gone by is as good as NULL (0 here).
PendingAfter(s, r) == IF s.pendingDataInterest < r THEN 0
                      ELSE s.pendingDataInterest

TooFar(s, r) == r - s.currentRound > MaxRoundsWithoutRecovery

MoveToNewCurrentRoundInSilence(s, r) ==                             \* mutant
    [s EXCEPT !.currentRound = r, !.dataTimeouts = 0,
              !.pendingDataInterest = PendingAfter(s, r)]

MoveToNewCurrentRoundForgetting(s, r) ==                            \* mutant
    LET fished == IF TooFar(s, r) THEN s
                  ELSE GoFishing(s, s.currentRound .. (r - 1))
    IN  [fished EXCEPT !.currentRound = r,
                       !.dataTimeouts = 0,
                       !.reexpress = r,
                       !.pendingDataInterest = PendingAfter(s, r)]

MoveToNewCurrentRound(s, r) ==
    LET fished == IF TooFar(s, r)
                  THEN [s EXCEPT !.recoveryDesired = TRUE]
                  ELSE GoFishing(s, s.currentRound .. (r - 1))
    IN  [fished EXCEPT !.currentRound = r,
                       !.dataTimeouts = 0,
                       !.reexpress = r,
                       !.pendingDataInterest = PendingAfter(s, r)]

\* A packet of the node's own takes the whole round.
RoundUsedUnlessAnswered(s) ==                                       \* mutant
    IF \E d \in s.sentData : d.round = s.currentRound THEN s
    ELSE MoveToNewCurrentRound(s, s.currentRound + 1)

RoundUsed(s) == MoveToNewCurrentRound(s, s.currentRound + 1)

MoveToNewCurrentRoundAfterRecovery(s, r) ==
    [s EXCEPT !.currentRound = r,
              !.reexpress = r,
              !.pendingDataInterest = PendingAfter(s, r)]

----------------------------------------------------------------------------
(* Packets out. *)

\* sendData() and sendCumulativeOnly() withdraw the node's own Interest when
\* its name is the name of the packet.
PutData(s, d) ==
    [s EXCEPT !.sentData = @ \cup {d},
              !.face = {i \in @ : ~(i.own /\ i.round = d.round)}]

\* sendData(): the packet of session n and sequence number q for round r.
\* Malformed when there is a round to report but no digest for it.
SendData(s, n, r, q, info) ==
    IF \E i \in info : i.cd = {}
    THEN Crash(s)
    ELSE PutData(s, [round |-> r, session |-> n, seq |-> q, info |-> info])

\* The packet is excluded in the entry of the round its digest is about.
ExcludeCumulativeOnly(s, d, r) ==
    IF r \in LoggedRounds(s)
    THEN PutEntry(s, r, [s.log[r] EXCEPT !.exclude = @ \cup {d}])
    ELSE s

\* sendCumulativeOnly() in answer to a Data Interest for round "name".
SendCumulativeOnly(s, n, name, r, cd) ==
    LET d == [round |-> name, session |-> n, seq |-> CumulativeOnlyData,
              info |-> {[round |-> r, cd |-> cd]}]
    IN  IF cd = {} THEN Crash(s)
        ELSE PutData(ExcludeCumulativeOnly(s, d, r), d)

----------------------------------------------------------------------------
(* CumulativeOnly packets and recovery. *)

\* Schedule produceCumulativeOnly() after a random delay.  insert() does not
\* overwrite: m_cumulativeDigestToEventId (cdEvents) refers to the new event
\* ("tracked") only if the digest had no entry.
ScheduleCumulativeOnly(s, r, cd) ==
    [s EXCEPT !.produce = @ \cup {[round |-> r, cd |-> cd,
                                   tracked |-> cd \notin s.cdEvents]},
              !.cdEvents = @ \cup {cd}]

CancelCumulativeOnly(s, cd) ==
    [s EXCEPT !.produce = {e \in @ : ~(e.tracked /\ e.cd = cd)},
              !.cdEvents = @ \ {cd}]

AnswersPending(s) == s.pendingDataInterest = s.currentRound

\* What the log keeps of a CumulativeOnly packet of node n.
CumulativeOnlyBareEntry(n, r, cd) ==                                 \* mutant
    [NewEntry EXCEPT !.leaves = Update(EmptyState, n, CumulativeOnlyData)]

CumulativeOnlyEntry(n, r, cd) ==
    [NewEntry EXCEPT !.leaves = Update(EmptyState, n, CumulativeOnlyData),
                     !.info = {[round |-> r, cd |-> cd]}]

ProduceCumulativeOnly(s, n, r, cd) ==
    LET sent == IF AnswersPending(s)
                THEN [SendCumulativeOnly(s, n, s.currentRound, r, cd)
                        EXCEPT !.pendingDataInterest = 0]
                ELSE s
    IN  RoundUsed(UpdateDiffLog(sent, sent.currentRound,
                                CumulativeOnlyEntry(n, r, cd)))

\* The last part of checkRecovery(): ask u, unless it has been asked, and
\* report the node's own digest of the round if it has one.
DoRecovery(s, u, r, mine) ==
    LET asked == [s EXCEPT
                    !.recoDue = IF u \in s.pendingReco THEN @ ELSE @ \cup {u},
                    !.pendingReco = @ \cup {u},
                    !.recoveryDesired = FALSE]
    IN  IF mine = {} THEN asked ELSE ScheduleCumulativeOnly(asked, r, mine)

CheckStable(s, u, r, cd) ==
    IF r \notin LoggedRounds(s) THEN DoRecovery(s, u, r, {})
    ELSE IF s.log[r].cd = {} THEN Crash(s)      \* NULL is dereferenced
    ELSE IF s.log[r].cd = cd THEN s
    ELSE DoRecovery(s, u, r, s.log[r].cd)

RetryLater(s, u, r, cd) ==
    [s EXCEPT !.retry = @ \cup {[from |-> u, round |-> r, cd |-> cd]}]

CheckRecovery(s, u, r, cd) ==
    IF cd \in s.cdEvents THEN CancelCumulativeOnly(s, cd)
    ELSE IF r < s.lastRecoveryRound \/ s.stableRound = 0 THEN s
    ELSE IF r <= s.stableRound THEN CheckStable(s, u, r, cd)
    ELSE IF s.recoveryDesired THEN DoRecovery(s, u, r, {})
    ELSE RetryLater(s, u, r, cd)

----------------------------------------------------------------------------
(* Interests out.  A partitioned process sends nothing and forgets the      *)
(* event that was to send.  Each operator takes a set, for the events that  *)
(* are due together.                                                        *)

InterestFor(s, f) ==
    [round |-> f.round, exclude |-> ExcludeOf(s, f.round),
     retries |-> f.retries, own |-> f.round = s.currentRound]

\* sendDataInterest().  Only the Interest for the current round is recorded
\* as the node's own and keeps the periodic event going.
SendDataInterest(s, F, partitioned) ==
    LET periodic == \E f \in F : f.round = s.currentRound
        others == IF periodic THEN {[i EXCEPT !.own = FALSE] : i \in s.face}
                  ELSE s.face
    IN  IF partitioned THEN s
        ELSE [s EXCEPT !.face = others \cup {InterestFor(s, f) : f \in F},
                       !.asked = @ \cup {f.round : f \in F},
                       !.reexpress = IF periodic THEN s.currentRound ELSE @]

\* sendSyncInterest(): the digest of EmptyState if the round has no entry.
SendSyncInterest(s, R, partitioned) ==
    IF partitioned THEN s
    ELSE [s EXCEPT !.sentSync =
            @ \cup {[round |-> r, rd |-> EntryOf(s, r).rd] : r \in R}]

SendRecoInterest(s, U, partitioned) ==
    IF partitioned THEN s
    ELSE [s EXCEPT !.recoFace = @ \cup U, !.recoAsked = @ \cup U]

\* The events scheduled at 0 s that have not run: fishing, Reco Interests, the
\* announcement of a publication and the first Data Interest of a round (the
\* later ones are periodic).
FirstInterest(s) ==
    IF s.reexpress = 0 \/ s.reexpress \in s.asked THEN {}
    ELSE {[round |-> s.reexpress, retries |-> 1]}

RunDueEvents(s, partitioned) ==
    LET run == [s EXCEPT !.fish = {}, !.announce = {}, !.recoDue = {},
                         !.reexpress = IF FirstInterest(s) = {} THEN @ ELSE 0]
    IN  SendDataInterest(
            SendSyncInterest(
                SendRecoInterest(run, s.recoDue, partitioned),
                s.announce, partitioned),
            s.fish \cup FirstInterest(s), partitioned)

----------------------------------------------------------------------------
(* Publication. *)

\* What a publication reports: the digest of the stable round.
StabilizingInfo(s) ==                                                \* mutant
    IF s.stabilizingRound \in LoggedRounds(s)
    THEN {[round |-> s.stabilizingRound, cd |-> s.log[s.stabilizingRound].cd]}
    ELSE {}

StableInfo(s) ==
    IF s.stableRound # 0 /\ s.stableRound \in LoggedRounds(s)
    THEN {[round |-> s.stableRound, cd |-> s.log[s.stableRound].cd]}
    ELSE {}

UpdateSeqNo(s, n, q) ==
    LET info == StableInfo(s)
        commit == [NewEntry EXCEPT !.leaves = Update(EmptyState, n, q),
                                   !.info = info]
        r == s.currentRound
        known == [s EXCEPT !.seqNo = q, !.state = Update(@, n, q)]
        logged == UpdateDiffLog(known, r, commit)
        d == [round |-> r, session |-> n, seq |-> q, info |-> info]
        \* sendData() excludes d in the commit, which may not be in the log.
        excluded == IF r \in LoggedRounds(s) THEN logged
                    ELSE PutEntry(logged, r,
                                  [logged.log[r] EXCEPT !.exclude = {d}])
        sent == IF AnswersPending(s)
                THEN [SendData(excluded, n, r, q, info)
                        EXCEPT !.pendingDataInterest = 0]
                ELSE logged
    IN  IF q < s.seqNo \/ q = 0 THEN s
        ELSE IF ~Changes(s.state, n, q) THEN [s EXCEPT !.seqNo = q]
        ELSE RoundUsed([sent EXCEPT !.announce = @ \cup {r}])

----------------------------------------------------------------------------
(* Interests in. *)

\* What the log holds of session n in round r: the filter of getStateFrom().
AnyLeafLogged(s, n, r) == Max({s.log[r].leaves[x] : x \in Node})      \* mutant

LeafLogged(s, n, r) == s.log[r].leaves[n]

\* getStateFrom() and what processDataInterest() makes of it: what this node
\* itself produced in round r.  A copy of the entry is sent, and the cumulative
\* info is copied only for a CumulativeOnly entry.
AnswerFromLog(s, n, r) ==
    LET q == LeafLogged(s, n, r)
        info == s.log[r].info
    IN  IF r \notin LoggedRounds(s) THEN s
        ELSE IF q = NoLeaf THEN s
        ELSE IF q # CumulativeOnlyData THEN SendData(s, n, r, q, {})
        ELSE IF info = {} THEN Crash(s)
        ELSE SendCumulativeOnly(s, n, r, The(info).round, The(info).cd)

ProcessDataInterest(s, n, r) ==
    IF r < s.currentRound
    THEN AnswerFromLog(s, n, r)
    ELSE LET recorded == [s EXCEPT !.pendingDataInterest = r]
         IN  IF r > s.currentRound THEN MoveToNewCurrentRound(recorded, r)
             ELSE recorded

CheckRoundDigestsWithoutFishing(s, r, rd) ==                        \* mutant
    IF r \notin LoggedRounds(s) THEN GoFishing(s, {r})
    ELSE IF rd = s.log[r].rd THEN s
    ELSE [s EXCEPT !.syncDue = @ \cup {r}]

CheckRoundDigests(s, r, rd) ==
    IF r \notin LoggedRounds(s) THEN GoFishing(s, {r})
    ELSE IF rd = s.log[r].rd THEN s
    ELSE [GoFishing(s, {r}) EXCEPT !.syncDue = @ \cup {r}]

ProcessSyncInterest(s, r, rd) ==
    IF r >= s.currentRound THEN MoveToNewCurrentRound(s, r + 1)
    ELSE IF r <= s.lastRecoveryRound THEN s
    ELSE CheckRoundDigests(s, r, rd)

\* sendRecoData(): the whole state, as of the round before the current one.
ProcessRecoInterest(s) ==
    [s EXCEPT !.sentReco =
        @ \cup {[round |-> s.currentRound - 1, state |-> s.state]}]

----------------------------------------------------------------------------
(* Data in. *)

\* The entry of the round, with the packet excluded and its leaf applied.
Committed(s, d) ==
    LET e == EntryOf(s, d.round)
        leaves == Update(e.leaves, d.session, d.seq)
    IN  [e EXCEPT !.exclude = @ \cup {d}, !.leaves = leaves, !.rd = leaves]

\* After a recovery and before the next stabilization, data of a round the
\* recovery covers goes to the old state as well.
ApplyLeaf(s, d) ==
    [s EXCEPT !.state = Update(@, d.session, d.seq),
              !.oldState = IF d.round <= s.lastRecoveryRound /\ s.stableRound = 0
                           THEN Update(@, d.session, d.seq) ELSE @]

\* Data of a round that is stable already is dropped.
NeverTooOld(s, d) == FALSE                                           \* mutant
TooOldButOne(s, d) == d.round < s.stableRound                        \* mutant

TooOld(s, d) == d.round <= s.stableRound

MoveOnlyAfter(s, d) ==                                               \* mutant
    IF d.round > s.currentRound THEN MoveToNewCurrentRound(s, d.round + 1)
    ELSE s

MoveAfter(s, d) ==
    IF d.round = s.currentRound THEN MoveToNewCurrentRound(s, d.round + 1)
    ELSE s

\* The digest of the packet is checked and its leaf applied.
Applied(s, d) ==
    LET checked == IF d.info = {} THEN s
                   ELSE LET i == The(d.info)
                        IN  CheckRecovery(s, d.session, i.round, i.cd)
    IN  IF d.seq = CumulativeOnlyData THEN checked ELSE ApplyLeaf(checked, d)

ProcessData(s, d) ==
    IF TooOld(s, d) THEN s
    ELSE [PutEntry(MoveAfter(Applied(s, d), d), d.round, Committed(s, d))
            EXCEPT !.syncDue = @ \cup {d.round}]

\* The update callback is called for a leaf that is new to the state.
Notifies(s, d) == /\ ~TooOld(s, d)
                  /\ d.seq # CumulativeOnlyData
                  /\ Changes(s.state, d.session, d.seq)

\* processData() when the application publishes from inside the callback.  An
\* entry the round already had is the one the leaf went to; a new one is not
\* in the log yet, and the publication may take the round first.
ProcessDataPublishing(s, n, d) ==
    LET called == IF d.round \in LoggedRounds(s)
                  THEN PutEntry(Applied(s, d), d.round, Committed(s, d))
                  ELSE Applied(s, d)
        published == UpdateSeqNo(called, n, s.seqNo + 1)
    IN  [UpdateDiffLog(MoveAfter(published, d), d.round, Committed(s, d))
            EXCEPT !.syncDue = @ \cup {d.round}]

\* The rounds fished again after a recovery.
BackRounds(current) ==
    (IF current <= BackUnstableRounds THEN 1 ELSE current - BackUnstableRounds)
        .. (current - 1)

\* processRecoData() of a state the sender says is of round r.
CatchUpTooFar(s, r) ==                                              \* mutant
    IF r >= s.currentRound
    THEN [MoveToNewCurrentRoundAfterRecovery(s, r + 1)
            EXCEPT !.lastRecoveryRound = r]
    ELSE [s EXCEPT !.lastRecoveryRound = s.currentRound]

CatchUp(s, r) ==
    IF r >= s.currentRound
    THEN [MoveToNewCurrentRoundAfterRecovery(s, r + 1)
            EXCEPT !.lastRecoveryRound = r]
    ELSE [s EXCEPT !.lastRecoveryRound = s.currentRound - 1]

\* No round is stable any more, and the next to be is that of the recovery.
UnstabilizeKeepingStable(s) ==                                      \* mutant
    [s EXCEPT !.stabilizingRound = s.lastRecoveryRound, !.oldState = s.state]
UnstabilizeKeepingStabilizing(s) ==                                 \* mutant
    [s EXCEPT !.stableRound = 0, !.oldState = s.state]
UnstabilizeKeepingOldState(s) ==                                    \* mutant
    [s EXCEPT !.stabilizingRound = s.lastRecoveryRound, !.stableRound = 0]

Unstabilize(s) ==
    [s EXCEPT !.stabilizingRound = s.lastRecoveryRound,
              !.stableRound = 0,
              !.oldState = s.state]

MergedStillPending(s, u, st) == [s EXCEPT !.state = Plus(@, st)]     \* mutant

\* Up to the callback: the answer is no longer awaited, its leaves are applied.
Merged(s, u, st) == [s EXCEPT !.pendingReco = @ \ {u}, !.state = Plus(@, st)]

Resume(s, r) ==
    LET moved == CatchUp(s, r)
    IN  Unstabilize(GoFishing(moved, BackRounds(moved.currentRound)))

ProcessRecoData(s, u, r, st) == Resume(Merged(s, u, st), r)

\* The same with a publication from inside the callback, which is called when
\* some leaf is new.
NotifiesOf(s, st) == \E x \in Node : Changes(s.state, x, st[x])

ProcessRecoDataPublishing(s, n, u, r, st) ==
    Resume(UpdateSeqNo(Merged(s, u, st), n, s.seqNo + 1), r)

----------------------------------------------------------------------------
(* Stabilization. *)

\* The rounds the loop of calculateStableStateAndCumulativeDigests() visits.
Visited(s, init, end) == {r \in LoggedRounds(s) : init <= r /\ r < end}

\* m_oldState once the rounds of R have been added to it.
NewStateWith(s, R) ==                                               \* mutant
    PlusAll(EmptyState, {s.log[r].leaves : r \in R})

OldStateWith(s, R) == PlusAll(s.oldState, {s.log[r].leaves : r \in R})

CalculateStableStateAndCumulativeDigests(s, init, end) ==
    LET visited == Visited(s, init, end)
        added == (visited \cup {end}) \cap LoggedRounds(s)
        upTo(r) == IF r = end THEN OldStateWith(s, added)
                   ELSE OldStateWith(s, {q \in visited : q <= r})
    IN  [s EXCEPT !.oldState = OldStateWith(s, added),
                  !.log = [r \in LoggedRounds(s) \cup {end} |->
                             IF r \in visited \cup {end}
                             THEN [EntryOf(s, r) EXCEPT !.cd = {upTo(r)}]
                             ELSE s.log[r]]]

\* The round to stabilize from, if setStableState() finds one.
InitRound(s) ==
    IF s.stableRound = 0 /\ s.lastRecoveryRound = 0 THEN {1}
    ELSE IF s.stabilizingRound = s.lastRecoveryRound THEN {s.stabilizingRound}
    ELSE IF s.stableRound # 0 THEN {s.stableRound + 1}
    ELSE {}

NextStabilizingRoundedUp(stable, current) ==                        \* mutant
    stable + (current - stable + 1) \div 2
NextStabilizingTwoBehind(stable, current) == current - 2            \* mutant

NextStabilizing(stable, current) == stable + (current - stable) \div 2

SetStableState(s) ==
    LET end == s.stabilizingRound
    IN  IF InitRound(s) = {} THEN Crash(s)
        ELSE [CalculateStableStateAndCumulativeDigests(s, The(InitRound(s)), end)
                EXCEPT !.stableRound = end,
                       !.stabilizingRound =
                           NextStabilizing(end, s.currentRound)]

----------------------------------------------------------------------------
(* Timeouts. *)

\* m_numberDataInterestTimeouts, counted up to the limit it is compared with.
Timeouts(s) == IF s.dataTimeouts >= MaxTimeoutsToCumulative
               THEN s.dataTimeouts ELSE s.dataTimeouts + 1

\* Nothing came for long: report the digest of the whole state as the
\* cumulative digest of the stable round.
OnQuiet(s) ==
    IF Timeouts(s) >= MaxTimeoutsToCumulative
       /\ s.stableRound = s.currentRound - 1
    THEN ScheduleCumulativeOnly([s EXCEPT !.dataTimeouts = 0],
                                s.stableRound, {s.state})
    ELSE [s EXCEPT !.dataTimeouts = Timeouts(s)]

OnDataInterestTimeout(s, i) ==
    LET counted == OnQuiet(s)
    IN  IF /\ i.round < s.currentRound
           /\ i.round \notin LoggedRounds(s)
           /\ i.retries < MaxDataTimeouts
        THEN [counted EXCEPT !.fish = @ \cup {[round |-> i.round,
                                               retries |-> i.retries + 1]}]
        ELSE counted

OnRecoInterestTimeoutWaiting(s, u) ==                               \* mutant
    IF s.recoTimeouts + 1 >= MaxRecoTimeouts
    THEN [s EXCEPT !.recoTimeouts = 0]
    ELSE [s EXCEPT !.recoTimeouts = @ + 1, !.recoDue = @ \cup {u}]

\* One counter for the Reco Interests to all prefixes.
OnRecoInterestTimeout(s, u) ==
    IF s.recoTimeouts + 1 >= MaxRecoTimeouts
    THEN [s EXCEPT !.recoTimeouts = 0, !.pendingReco = @ \ {u}]
    ELSE [s EXCEPT !.recoTimeouts = @ + 1, !.recoDue = @ \cup {u}]
=============================================================================
