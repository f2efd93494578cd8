------------------------- MODULE Stability_proofs -------------------------
(***************************************************************************)
(* What is stable stays stable and stands for all that was logged, what a  *)
(* node knows of the others reaches its digests, and logs agree: for any   *)
(* set of participants, any limits and any bounds.                         *)
(*                                                                         *)
(* A method of Logic that neither stabilizes nor recovers advances the     *)
(* node: it adds to the rounds that are not stable and leaves the others   *)
(* alone.  The properties are proved of every advance at once; what is     *)
(* left is stabilization and recovery.                                     *)
(***************************************************************************)
EXTENDS Safety_proofs

\* The members the properties are about.
Columns == {"currentRound", "stableRound", "lastRecoveryRound", "state",
            "oldState", "log", "sentData"}

LeavesOf(s, r) == EntryOf(s, r).leaves

EntryFit(e) == {"leaves", "rd", "cd"} \subseteq DOMAIN e /\ e.leaves \in State

\* What an advance needs of the node: the types, and that the current round can
\* be logged without touching a stable one.
Fit(s) ==
    /\ Columns \subseteq DOMAIN s
    /\ s.currentRound \in Nat /\ 1 <= s.currentRound /\ s.stableRound \in Nat
    /\ s.lastRecoveryRound \in Nat
    /\ s.state \in State /\ s.oldState \in State
    /\ IsFiniteSet(LoggedRounds(s))
    /\ \A r \in LoggedRounds(s) : r \in Nat /\ 1 <= r /\ EntryFit(s.log[r])
    /\ s.stableRound <= s.currentRound
    /\ s.currentRound \notin LoggedRounds(s) => s.stableRound < s.currentRound

SameEntry(e, f) == f.leaves = e.leaves /\ f.rd = e.rd /\ f.cd = e.cd

\* The leaf of x in round r goes from p to q, by a packet of P if it changes.
Heard(p, q, x, r, P) ==
    p = q \/ (p <= q /\ \E d \in P : d.session = x /\ d.round = r /\ d.seq = q)

\* t is node n after a method that was called with s, and with packets of P.
Advances(s, t, n, P) ==
    /\ Fit(t)
    /\ s.currentRound <= t.currentRound
    /\ t.stableRound = s.stableRound
    /\ t.lastRecoveryRound = s.lastRecoveryRound
    /\ s.sentData \subseteq t.sentData
    /\ LoggedRounds(s) \subseteq LoggedRounds(t)
    /\ \A r \in LoggedRounds(t) :
          /\ r <= s.stableRound
               => r \in LoggedRounds(s) /\ SameEntry(s.log[r], t.log[r])
          /\ \A x \in Node \ {n} :
                Heard(LeavesOf(s, r)[x], LeavesOf(t, r)[x], x, r, P)
    /\ Behind(s.oldState, t.oldState)
    /\ s.stableRound # 0 \/ s.lastRecoveryRound = 0 => t.oldState = s.oldState

SameOthers(s, t, n) == \A x \in Node \ {n} : t.state[x] = s.state[x]

\* The same when there is nothing to learn.
Works(s, t, n) == Advances(s, t, n, {}) /\ SameOthers(s, t, n)

----------------------------------------------------------------------------
(* Advances compose. *)

LEMMA LeavesOfType ==
  ASSUME NEW s, Fit(s), NEW r
  PROVE  LeavesOf(s, r) \in State
  BY EmptyStateType DEF Fit, EntryFit, LeavesOf, EntryOf, NewEntry

LEMMA AdvancesTransitive ==
  ASSUME NEW n, NEW P, NEW s, Fit(s), NEW t, Advances(s, t, n, P),
         NEW u, Advances(t, u, n, P)
  PROVE  Advances(s, u, n, P)
<1>1. ASSUME NEW r \in LoggedRounds(u)
      PROVE  /\ r <= s.stableRound
                  => r \in LoggedRounds(s) /\ SameEntry(s.log[r], u.log[r])
             /\ \A x \in Node \ {n} :
                   Heard(LeavesOf(s, r)[x], LeavesOf(u, r)[x], x, r, P)
  <2>1. ASSUME r <= s.stableRound
        PROVE  r \in LoggedRounds(s) /\ SameEntry(s.log[r], u.log[r])
    BY <1>1, <2>1 DEF Advances, SameEntry
  <2>2. ASSUME NEW x \in Node \ {n}
        PROVE  Heard(LeavesOf(s, r)[x], LeavesOf(u, r)[x], x, r, P)
    <3>1. /\ LeavesOf(s, r)[x] \in Int /\ LeavesOf(t, r)[x] \in Int
          /\ LeavesOf(u, r)[x] \in Int
      BY LeavesOfType DEF Advances, State, NoLeaf
    <3>2. Heard(LeavesOf(s, r)[x], LeavesOf(t, r)[x], x, r, P)
      <4>1. CASE r \in LoggedRounds(t)
        BY <4>1 DEF Advances
      <4>2. CASE r \notin LoggedRounds(t)
        BY <4>2 DEF Advances, LeavesOf, EntryOf, Heard
      <4> QED BY <4>1, <4>2
    <3>3. Heard(LeavesOf(t, r)[x], LeavesOf(u, r)[x], x, r, P)
      BY <1>1 DEF Advances
    <3> QED BY <3>1, <3>2, <3>3 DEF Heard
  <2> QED BY <2>1, <2>2
<1>2. Behind(s.oldState, u.oldState)
  BY DEF Fit, Advances, Behind, State, NoLeaf
<1>3. s.currentRound <= u.currentRound
  BY DEF Fit, Advances
<1> QED BY <1>1, <1>2, <1>3 DEF Advances

LEMMA AdvancesByMore ==
  ASSUME NEW n, NEW P, NEW s, NEW t, Works(s, t, n)
  PROVE  Advances(s, t, n, P)
  BY DEF Works, Advances, Heard

LEMMA WorksFit == ASSUME NEW n, NEW s, NEW t, Works(s, t, n) PROVE Fit(t)
  BY DEF Works, Advances

LEMMA WorksTransitive ==
  ASSUME NEW n, NEW s, Fit(s), NEW t, Works(s, t, n), NEW u, Works(t, u, n)
  PROVE  Works(s, u, n)
  BY AdvancesTransitive DEF Works, SameOthers

\* The members are the same, except that the round may be a later one.
Untouched(s, t) ==
    /\ Columns \subseteq DOMAIN t
    /\ t.stableRound = s.stableRound
    /\ t.lastRecoveryRound = s.lastRecoveryRound
    /\ t.state = s.state /\ t.oldState = s.oldState /\ t.log = s.log
    /\ s.sentData \subseteq t.sentData
    /\ t.currentRound \in Nat /\ s.currentRound <= t.currentRound

LEMMA UntouchedWorks ==
  ASSUME NEW n, NEW s, Fit(s), NEW t, Untouched(s, t)
  PROVE  Works(s, t, n)
<1>1. Fit(t)
  BY DEF Fit, Untouched, LoggedRounds
<1>2. \A r : LeavesOf(t, r) = LeavesOf(s, r)
  BY DEF Untouched, LeavesOf, EntryOf, LoggedRounds
<1>3. Behind(s.oldState, t.oldState)
  BY DEF Fit, Untouched, Behind, State, NoLeaf
<1> QED BY <1>1, <1>2, <1>3
        DEF Untouched, Works, Advances, SameOthers, SameEntry, Heard, LoggedRounds

LEMMA ItselfWorks == ASSUME NEW n, NEW s, Fit(s) PROVE Works(s, s, n)
<1>1. Untouched(s, s)
  BY DEF Fit, Untouched
<1> QED BY <1>1, UntouchedWorks

LEMMA UntouchedTransitive ==
  ASSUME NEW s, Fit(s), NEW t, Untouched(s, t), NEW u, Untouched(t, u)
  PROVE  Untouched(s, u)
  BY DEF Fit, Untouched

----------------------------------------------------------------------------
(* Methods that touch none of the members. *)

LEMMA OtherUntouched ==
  ASSUME NEW s, Fit(s), NEW v
  PROVE  /\ Untouched(s, [s EXCEPT !.pendingDataInterest = v])
         /\ Untouched(s, [s EXCEPT !.announce = v])
         /\ Untouched(s, [s EXCEPT !.syncDue = v])
         /\ Untouched(s, [s EXCEPT !.face = v])
         /\ Untouched(s, [s EXCEPT !.fish = v])
         /\ Untouched(s, [s EXCEPT !.recoFace = v])
         /\ Untouched(s, [s EXCEPT !.produce = v])
         /\ Untouched(s, [s EXCEPT !.retry = v])
         /\ Untouched(s, [s EXCEPT !.recoDue = v])
         /\ Untouched(s, [s EXCEPT !.dataTimeouts = v])
         /\ Untouched(s, [s EXCEPT !.reexpress = v])
         /\ Untouched(s, [s EXCEPT !.seqNo = v])
         /\ Untouched(s, Crash(s))
         /\ Untouched(s, s)
  BY DEF Fit, Untouched, Columns, Crash

LEMMA MoveUntouched ==
  ASSUME NEW s, Fit(s), NEW r \in Nat, s.currentRound <= r
  PROVE  Untouched(s, MoveToNewCurrentRound(s, r))
  BY DEF Fit, Untouched, Columns, MoveToNewCurrentRound, GoFishing

LEMMA RoundUsedUntouched ==
  ASSUME NEW s, Fit(s)
  PROVE  Untouched(s, RoundUsed(s))
<1>1. s.currentRound + 1 \in Nat /\ s.currentRound <= s.currentRound + 1
  BY DEF Fit
<1> QED BY <1>1, MoveUntouched DEF RoundUsed

LEMMA SendDataUntouched ==
  ASSUME NEW s, Fit(s), NEW n, NEW r, NEW q, NEW info, NEW d
  PROVE  Untouched(s, PutData(s, d)) /\ Untouched(s, SendData(s, n, r, q, info))
<1>1. ASSUME NEW e PROVE Untouched(s, PutData(s, e))
  BY DEF Fit, Untouched, Columns, PutData
<1> QED BY <1>1, OtherUntouched DEF SendData

LEMMA RecoveryUntouched ==
  ASSUME NEW s, Fit(s), NEW u, NEW r, NEW cd
  PROVE  /\ Untouched(s, ScheduleCumulativeOnly(s, r, cd))
         /\ Untouched(s, CheckRecovery(s, u, r, cd))
<1>1. ASSUME NEW t, Untouched(s, t), NEW c
      PROVE  Untouched(s, ScheduleCumulativeOnly(t, r, c))
  BY <1>1 DEF Fit, Untouched, Columns, ScheduleCumulativeOnly
<1>2. ASSUME NEW mine PROVE Untouched(s, DoRecovery(s, u, r, mine))
  <2> DEFINE asked == [s EXCEPT
                         !.recoDue = IF u \in s.pendingReco THEN @
                                     ELSE @ \cup {u},
                         !.pendingReco = @ \cup {u},
                         !.recoveryDesired = FALSE]
  <2>1. Untouched(s, asked)
    BY DEF Fit, Untouched, Columns
  <2> HIDE DEF asked
  <2>2. Untouched(s, IF mine = {} THEN asked
                     ELSE ScheduleCumulativeOnly(asked, r, mine))
    BY <1>1, <2>1
  <2> QED BY <2>2 DEF DoRecovery, asked
<1>3. Untouched(s, CancelCumulativeOnly(s, cd))
  BY DEF Fit, Untouched, Columns, CancelCumulativeOnly
<1>4. Untouched(s, RetryLater(s, u, r, cd))
  BY OtherUntouched DEF RetryLater
<1>5. Untouched(s, CheckStable(s, u, r, cd))
  BY <1>2, OtherUntouched DEF CheckStable
<1> QED BY <1>1, <1>2, <1>3, <1>4, <1>5, OtherUntouched DEF CheckRecovery

LEMMA InterestsOutUntouched ==
  ASSUME NEW s, Fit(s), NEW F, NEW partition
  PROVE  /\ Untouched(s, SendDataInterest(s, F, partition))
         /\ Untouched(s, SendSyncInterest(s, F, partition))
         /\ Untouched(s, SendRecoInterest(s, F, partition))
<1>1. Untouched(s, SendDataInterest(s, F, partition))
  BY DEF Fit, Untouched, Columns, SendDataInterest
<1>2. Untouched(s, SendSyncInterest(s, F, partition))
  BY DEF Fit, Untouched, Columns, SendSyncInterest
<1>3. Untouched(s, SendRecoInterest(s, F, partition))
  BY DEF Fit, Untouched, Columns, SendRecoInterest
<1> QED BY <1>1, <1>2, <1>3

LEMMA RunDueEventsUntouched ==
  ASSUME NEW s, Fit(s), NEW partition
  PROVE  Untouched(s, RunDueEvents(s, partition))
<1> DEFINE run == [s EXCEPT !.fish = {}, !.announce = {}, !.recoDue = {},
                            !.reexpress = IF FirstInterest(s) = {} THEN @ ELSE 0]
<1>1. Untouched(s, run)
  BY DEF Fit, Untouched, Columns
<1> HIDE DEF run
<1>2. ASSUME NEW t, Untouched(s, t), NEW F
      PROVE  /\ Untouched(s, SendDataInterest(t, F, partition))
             /\ Untouched(s, SendSyncInterest(t, F, partition))
             /\ Untouched(s, SendRecoInterest(t, F, partition))
  <2>1. Fit(t)
    BY <1>2, UntouchedWorks, WorksFit
  <2> QED BY <1>2, <2>1, InterestsOutUntouched, UntouchedTransitive
<1> QED BY <1>1, <1>2 DEF RunDueEvents, run

LEMMA InterestsInUntouched ==
  ASSUME NEW s, Fit(s), NEW r \in Nat, NEW rd
  PROVE  /\ Untouched(s, ProcessSyncInterest(s, r, rd))
         /\ Untouched(s, ProcessRecoInterest(s))
<1>1. Untouched(s, CheckRoundDigests(s, r, rd))
  BY DEF Fit, Untouched, Columns, CheckRoundDigests, GoFishing
<1>2. Untouched(s, ProcessRecoInterest(s))
  BY DEF Fit, Untouched, Columns, ProcessRecoInterest
<1>3. r >= s.currentRound => Untouched(s, MoveToNewCurrentRound(s, r + 1))
  BY MoveUntouched DEF Fit
<1> QED BY <1>1, <1>2, <1>3, OtherUntouched DEF ProcessSyncInterest

LEMMA TimeoutsUntouched ==
  ASSUME NEW s, Fit(s), NEW i
  PROVE  /\ Untouched(s, OnDataInterestTimeout(s, i))
         /\ Untouched(s, OnRecoInterestTimeout(s, i))
<1> DEFINE reset == [s EXCEPT !.dataTimeouts = 0]
<1>1. ASSUME NEW t, Untouched(s, t) PROVE Fit(t)
  BY <1>1, UntouchedWorks, WorksFit
<1>2. Untouched(s, reset)
  BY OtherUntouched
<1> HIDE DEF reset
<1>3. ASSUME NEW r, NEW cd
      PROVE  Untouched(s, ScheduleCumulativeOnly(reset, r, cd))
  BY <1>1, <1>2, RecoveryUntouched, UntouchedTransitive
<1>4. Untouched(s, OnQuiet(s))
  BY <1>3, OtherUntouched DEF OnQuiet, reset
<1>5. ASSUME NEW t, Untouched(s, t), NEW F PROVE Untouched(s, [t EXCEPT !.fish = F])
  BY <1>1, <1>5, OtherUntouched, UntouchedTransitive
<1>6. Untouched(s, OnRecoInterestTimeout(s, i))
  BY DEF Fit, Untouched, Columns, OnRecoInterestTimeout
<1> QED BY <1>4, <1>5, <1>6 DEF OnDataInterestTimeout

----------------------------------------------------------------------------
(* Methods that write to the log. *)

LEMMA PutAdvances ==
  ASSUME NEW n, NEW P, NEW s, Fit(s), NEW r \in Nat, 1 <= r,
         NEW e, EntryFit(e),
         \/ s.stableRound < r
         \/ r \in LoggedRounds(s) /\ SameEntry(s.log[r], e),
         \A x \in Node \ {n} : Heard(LeavesOf(s, r)[x], e.leaves[x], x, r, P)
  PROVE  LET t == PutEntry(s, r, e)
         IN  /\ Advances(s, t, n, P)
             /\ t.state = s.state /\ t.oldState = s.oldState
             /\ t.currentRound = s.currentRound
             /\ LoggedRounds(t) = LoggedRounds(s) \cup {r} /\ t.log[r] = e
<1> DEFINE D == LoggedRounds(s) \cup {r}
           log == [q \in D |-> IF q = r THEN e ELSE s.log[q]]
           t == [s EXCEPT !.log = log]
<1>1. PutEntry(s, r, e) = t
  BY DEF PutEntry
<1>2. IsFiniteSet(D)
  BY FS_AddElement DEF Fit
<1>3. /\ DOMAIN log = D /\ log[r] = e
      /\ \A q \in LoggedRounds(s) : q # r => log[q] = s.log[q]
  OBVIOUS
<1> HIDE DEF log, D
<1>4. /\ Columns \subseteq DOMAIN t /\ t.log = log
      /\ t.currentRound = s.currentRound /\ t.stableRound = s.stableRound
      /\ t.lastRecoveryRound = s.lastRecoveryRound /\ t.state = s.state
      /\ t.oldState = s.oldState /\ t.sentData = s.sentData
  BY DEF Fit, Columns
<1> HIDE DEF t
<1>5. LoggedRounds(t) = D /\ D = LoggedRounds(s) \cup {r}
  BY <1>3, <1>4 DEF LoggedRounds, D
<1>6. \A q \in LoggedRounds(t) :
         \/ q = r /\ t.log[q] = e
         \/ q # r /\ q \in LoggedRounds(s) /\ t.log[q] = s.log[q]
  BY <1>3, <1>4, <1>5
<1>7. Fit(t)
  BY <1>2, <1>4, <1>5, <1>6 DEF Fit
<1>8. ASSUME NEW q \in LoggedRounds(t)
      PROVE  /\ q <= s.stableRound
                  => q \in LoggedRounds(s) /\ SameEntry(s.log[q], t.log[q])
             /\ \A x \in Node \ {n} :
                   Heard(LeavesOf(s, q)[x], LeavesOf(t, q)[x], x, q, P)
  <2>1. CASE q = r
    <3>1. LeavesOf(t, q) = e.leaves /\ t.log[q] = e
      BY <1>6, <2>1 DEF LeavesOf, EntryOf
    <3>2. s.stableRound \in Nat
      BY DEF Fit
    <3> QED BY <2>1, <3>1, <3>2
  <2>2. CASE q # r
    <3>1. LeavesOf(t, q) = LeavesOf(s, q) /\ t.log[q] = s.log[q]
          /\ q \in LoggedRounds(s)
      BY <1>6, <2>2 DEF LeavesOf, EntryOf
    <3> QED BY <3>1 DEF Heard, SameEntry
  <2> QED BY <2>1, <2>2
<1>9. Behind(s.oldState, t.oldState)
  BY <1>4 DEF Fit, Behind, State, NoLeaf
<1>10. Advances(s, t, n, P)
  <2>1. s.currentRound <= t.currentRound
    BY <1>4 DEF Fit
  <2> QED BY <1>4, <1>5, <1>7, <1>8, <1>9, <2>1 DEF Advances
<1>11. t.log[r] = e
  BY <1>3, <1>4
<1> QED BY <1>1, <1>4, <1>5, <1>10, <1>11

\* The entry of a round that is not stable.
LEMMA PutLaterAdvances ==
  ASSUME NEW n, NEW P, NEW s, Fit(s), NEW r \in Nat, 1 <= r, s.stableRound < r,
         NEW e, EntryFit(e),
         \A x \in Node \ {n} : Heard(LeavesOf(s, r)[x], e.leaves[x], x, r, P)
  PROVE  LET t == PutEntry(s, r, e)
         IN  /\ Advances(s, t, n, P)
             /\ t.state = s.state /\ t.oldState = s.oldState
             /\ t.currentRound = s.currentRound
             /\ LoggedRounds(t) = LoggedRounds(s) \cup {r} /\ t.log[r] = e
  BY PutAdvances

\* An exclude filter grows.
LEMMA ExcludeWorks ==
  ASSUME NEW n, NEW s, Fit(s), NEW r \in LoggedRounds(s), NEW v
  PROVE  LET t == PutEntry(s, r, [s.log[r] EXCEPT !.exclude = v])
         IN  /\ Works(s, t, n)
             /\ t.currentRound = s.currentRound
             /\ LoggedRounds(t) = LoggedRounds(s)
<1> DEFINE e == [s.log[r] EXCEPT !.exclude = v]
<1>1. r \in Nat /\ 1 <= r /\ EntryFit(s.log[r])
  BY DEF Fit
<1>2. EntryFit(e) /\ SameEntry(s.log[r], e)
  BY <1>1 DEF EntryFit, SameEntry
<1> HIDE DEF e
<1>3. LeavesOf(s, r) = e.leaves
  BY <1>2 DEF LeavesOf, EntryOf, SameEntry
<1>4. \A x : Heard(LeavesOf(s, r)[x], e.leaves[x], x, r, {})
  BY <1>3 DEF Heard
<1> DEFINE t == PutEntry(s, r, e)
<1>5. /\ Advances(s, t, n, {}) /\ t.state = s.state
      /\ t.currentRound = s.currentRound
      /\ LoggedRounds(t) = LoggedRounds(s) \cup {r}
  BY <1>1, <1>2, <1>4, PutAdvances
<1> QED BY <1>5 DEF Works, SameOthers, e

\* An entry that is not the first of its round changes nothing; one that is has
\* a leaf of the node only.
OwnOnly(e, n) == /\ {"leaves", "rd", "cd"} \subseteq DOMAIN e
                 /\ e.leaves \in State
                 /\ \A x \in Node \ {n} : e.leaves[x] = NoLeaf

LEMMA UpdateDiffLogWorks ==
  ASSUME NEW n, NEW s, Fit(s), NEW e, OwnOnly(e, n)
  PROVE  LET t == UpdateDiffLog(s, s.currentRound, e)
         IN  /\ Works(s, t, n)
             /\ t.currentRound = s.currentRound
             /\ LoggedRounds(t) = LoggedRounds(s) \cup {s.currentRound}
<1> DEFINE c == s.currentRound
           f == [e EXCEPT !.rd = e.leaves]
           t == PutEntry(s, c, f)
<1>0. c \in Nat /\ 1 <= c /\ c = s.currentRound
  BY DEF Fit
<1>1. CASE c \in LoggedRounds(s)
  BY <1>1, ItselfWorks DEF UpdateDiffLog
<1>2. CASE c \notin LoggedRounds(s)
  <2>1. EntryFit(f) /\ f.leaves = e.leaves
    BY DEF OwnOnly, EntryFit
  <2>2. s.stableRound < c
    BY <1>2 DEF Fit
  <2>3. \A x \in Node : LeavesOf(s, c)[x] = NoLeaf
    BY <1>2 DEF LeavesOf, EntryOf, NewEntry, EmptyState
  <2> HIDE DEF f, c
  <2>4. \A x \in Node \ {n} : Heard(LeavesOf(s, c)[x], f.leaves[x], x, c, {})
    BY <2>1, <2>3 DEF OwnOnly, Heard
  <2>5. /\ Advances(s, t, n, {}) /\ t.state = s.state
        /\ t.currentRound = s.currentRound
        /\ LoggedRounds(t) = LoggedRounds(s) \cup {c}
    BY <1>0, <2>1, <2>2, <2>4, PutAdvances
  <2> HIDE DEF t
  <2> QED BY <1>0, <1>2, <2>5 DEF UpdateDiffLog, Works, SameOthers, t, f, c
<1> QED BY <1>1, <1>2

LEMMA UntouchedThen ==
  ASSUME NEW n, NEW s, Fit(s), NEW t, Works(s, t, n), NEW u, Untouched(t, u)
  PROVE  Works(s, u, n) /\ LoggedRounds(u) = LoggedRounds(t)
<1>1. Works(t, u, n)
  BY UntouchedWorks, WorksFit
<1> QED BY <1>1, WorksTransitive DEF Untouched, LoggedRounds

LEMMA SendCumulativeOnlyWorks ==
  ASSUME NEW n, NEW s, Fit(s), NEW name, NEW r, NEW cd
  PROVE  LET t == SendCumulativeOnly(s, n, name, r, cd)
         IN  Works(s, t, n) /\ t.currentRound = s.currentRound
<1> DEFINE d == [round |-> name, session |-> n, seq |-> CumulativeOnlyData,
                 info |-> {[round |-> r, cd |-> cd]}]
           t == ExcludeCumulativeOnly(s, d, r)
<1> HIDE DEF d
<1>1. Works(s, t, n) /\ t.currentRound = s.currentRound
  <2>1. CASE r \in LoggedRounds(s)
    <3> DEFINE v == s.log[r].exclude \cup {d}
    <3>1. t = PutEntry(s, r, [s.log[r] EXCEPT !.exclude = v])
      BY <2>1 DEF ExcludeCumulativeOnly
    <3> QED BY <2>1, <3>1, ExcludeWorks
  <2>2. CASE r \notin LoggedRounds(s)
    BY <2>2, ItselfWorks DEF ExcludeCumulativeOnly
  <2> QED BY <2>1, <2>2
<1> HIDE DEF t
<1>2. Untouched(t, PutData(t, d))
  BY <1>1, WorksFit, SendDataUntouched
<1>3. PutData(t, d).currentRound = t.currentRound
  BY <1>1 DEF PutData, Works, Advances, Fit, Columns
<1>4. Works(s, PutData(t, d), n)
  BY <1>1, <1>2, UntouchedThen
<1>5. Works(s, Crash(s), n) /\ Crash(s).currentRound = s.currentRound
  <2>1. Untouched(s, Crash(s))
    BY OtherUntouched
  <2> QED BY <2>1, UntouchedWorks DEF Crash, Fit, Columns
<1> QED BY <1>1, <1>3, <1>4, <1>5 DEF SendCumulativeOnly, t, d

\* A packet of the node's own, or an Interest that a packet of it answers.
LEMMA ProcessDataInterestWorks ==
  ASSUME NEW n, NEW s, Fit(s), NEW r \in Nat
  PROVE  Works(s, ProcessDataInterest(s, n, r), n)
<1> DEFINE recorded == [s EXCEPT !.pendingDataInterest = r]
<1>1. Works(s, AnswerFromLog(s, n, r), n)
  <2>1. \A q : Works(s, SendData(s, n, r, q, {}), n)
    BY SendDataUntouched, UntouchedWorks
  <2>2. \A q, cd : Works(s, SendCumulativeOnly(s, n, r, q, cd), n)
    BY SendCumulativeOnlyWorks
  <2>3. Works(s, Crash(s), n) /\ Works(s, s, n)
    BY OtherUntouched, UntouchedWorks
  <2> QED BY <2>1, <2>2, <2>3 DEF AnswerFromLog
<1>2. Untouched(s, recorded) /\ recorded.currentRound = s.currentRound
  BY OtherUntouched DEF Fit, Columns
<1> HIDE DEF recorded
<1>3. Fit(recorded)
  BY <1>2, UntouchedWorks, WorksFit
<1>4. ASSUME r > s.currentRound
      PROVE  Works(s, MoveToNewCurrentRound(recorded, r), n)
  <2>1. recorded.currentRound <= r
    BY <1>2, <1>4 DEF Fit
  <2>2. Untouched(recorded, MoveToNewCurrentRound(recorded, r))
    BY <1>3, <2>1, MoveUntouched
  <2> QED BY <1>2, <2>2, UntouchedTransitive, UntouchedWorks
<1>5. Works(s, recorded, n)
  BY <1>2, UntouchedWorks
<1> QED BY <1>1, <1>4, <1>5 DEF ProcessDataInterest, recorded

\* The pending Data Interest is answered by what was sent.
LEMMA AnsweredWorks ==
  ASSUME NEW n, NEW s, Fit(s), NEW t, Works(s, t, n)
  PROVE  LET u == [t EXCEPT !.pendingDataInterest = 0]
         IN  /\ Works(s, u, n) /\ u.currentRound = t.currentRound
             /\ LoggedRounds(u) = LoggedRounds(t)
<1>1. Fit(t)
  BY WorksFit
<1>2. Untouched(t, [t EXCEPT !.pendingDataInterest = 0])
  BY <1>1, OtherUntouched
<1> QED BY <1>1, <1>2, UntouchedThen DEF Fit, Columns

LEMMA OwnLeafOnly ==
  ASSUME NEW n \in Node, NEW q \in SeqNo
  PROVE  /\ Update(EmptyState, n, q) \in State
         /\ \A x \in Node \ {n} : Update(EmptyState, n, q)[x] = NoLeaf
  BY EmptyStateType, UpdateType DEF Update, EmptyState

LEMMA ProduceCumulativeOnlyWorks ==
  ASSUME NEW n \in Node, NEW s, Fit(s), NEW r, NEW cd
  PROVE  Works(s, ProduceCumulativeOnly(s, n, r, cd), n)
<1> DEFINE out == SendCumulativeOnly(s, n, s.currentRound, r, cd)
           sent == IF AnswersPending(s)
                   THEN [out EXCEPT !.pendingDataInterest = 0] ELSE s
           e == CumulativeOnlyEntry(n, r, cd)
           logged == UpdateDiffLog(sent, sent.currentRound, e)
<1>1. OwnOnly(e, n)
  <2>1. CumulativeOnlyData \in SeqNo
    BY DEF CumulativeOnlyData, SeqNo
  <2>2. /\ {"leaves", "rd", "cd"} \subseteq DOMAIN e
        /\ e.leaves = Update(EmptyState, n, CumulativeOnlyData)
    BY DEF CumulativeOnlyEntry, NewEntry
  <2> HIDE DEF e
  <2> QED BY <2>1, <2>2, OwnLeafOnly DEF OwnOnly
<1>2. Works(s, sent, n) /\ sent.currentRound = s.currentRound
  BY SendCumulativeOnlyWorks, AnsweredWorks, ItselfWorks
<1> HIDE DEF e, sent
<1>3. Works(sent, logged, n)
  BY <1>1, <1>2, WorksFit, UpdateDiffLogWorks
<1> HIDE DEF logged
<1>4. Works(s, logged, n)
  BY <1>2, <1>3, WorksTransitive
<1>5. Untouched(logged, RoundUsed(logged))
  BY <1>4, WorksFit, RoundUsedUntouched
<1>6. Works(s, RoundUsed(logged), n)
  BY <1>4, <1>5, UntouchedThen
<1> QED BY <1>6 DEF ProduceCumulativeOnly, logged, sent, out, e

\* A publication may log the current round, and no other.
LEMMA UpdateSeqNoWorks ==
  ASSUME NEW n \in Node, NEW s, Fit(s), NEW q \in SeqNo
  PROVE  LET t == UpdateSeqNo(s, n, q)
         IN  /\ Works(s, t, n)
             /\ LoggedRounds(t) \subseteq LoggedRounds(s) \cup {s.currentRound}
<1> DEFINE info == StableInfo(s)
           commit == [NewEntry EXCEPT !.leaves = Update(EmptyState, n, q),
                                      !.info = info]
           r == s.currentRound
           known == [s EXCEPT !.seqNo = q, !.state = Update(@, n, q)]
           logged == UpdateDiffLog(known, r, commit)
           d == [round |-> r, session |-> n, seq |-> q, info |-> info]
           entry == [logged.log[r] EXCEPT !.exclude = {d}]
           excluded == IF r \in LoggedRounds(s) THEN logged
                       ELSE PutEntry(logged, r, entry)
           out == SendData(excluded, n, r, q, info)
           sent == IF AnswersPending(s)
                   THEN [out EXCEPT !.pendingDataInterest = 0]
                   ELSE logged
           announced == [sent EXCEPT !.announce = @ \cup {r}]
           Rounds == LoggedRounds(s) \cup {r}
<1>1. OwnOnly(commit, n)
  <2>1. /\ {"leaves", "rd", "cd"} \subseteq DOMAIN commit
        /\ commit.leaves = Update(EmptyState, n, q)
    BY DEF NewEntry
  <2> HIDE DEF commit
  <2> QED BY <2>1, OwnLeafOnly DEF OwnOnly
<1> HIDE DEF commit, d, info
<1>2. /\ Works(s, known, n) /\ known.currentRound = r
      /\ LoggedRounds(known) = LoggedRounds(s)
  <2>1. /\ Columns \subseteq DOMAIN known /\ known.log = s.log
        /\ known.currentRound = s.currentRound
        /\ known.stableRound = s.stableRound
        /\ known.lastRecoveryRound = s.lastRecoveryRound
        /\ known.state = Update(s.state, n, q)
        /\ known.oldState = s.oldState /\ known.sentData = s.sentData
    BY DEF Fit, Columns
  <2> HIDE DEF known
  <2>2. known.state \in State /\ SameOthers(s, known, n)
    BY <2>1, UpdateType DEF Fit, SameOthers, Update, State
  <2>3. Fit(known) /\ LoggedRounds(known) = LoggedRounds(s)
    BY <2>1, <2>2 DEF Fit, LoggedRounds
  <2>4. \A x : LeavesOf(known, x) = LeavesOf(s, x)
    BY <2>1, <2>3 DEF LeavesOf, EntryOf
  <2>5. Behind(s.oldState, known.oldState) /\ s.currentRound <= known.currentRound
    BY <2>1 DEF Fit, Behind, State, NoLeaf
  <2> QED BY <2>1, <2>2, <2>3, <2>4, <2>5
          DEF Works, Advances, SameEntry, Heard
<1> HIDE DEF known
<1>3. Works(s, logged, n) /\ logged.currentRound = r /\ LoggedRounds(logged) = Rounds
  <2>1. /\ Works(known, logged, n) /\ logged.currentRound = r
        /\ LoggedRounds(logged) = Rounds
    BY <1>1, <1>2, WorksFit, UpdateDiffLogWorks
  <2> QED BY <1>2, <2>1, WorksTransitive
<1> HIDE DEF logged
<1>4. Works(s, excluded, n) /\ excluded.currentRound = r
      /\ LoggedRounds(excluded) = Rounds
  <2> DEFINE p == PutEntry(logged, r, entry)
  <2>1. /\ Works(logged, p, n) /\ p.currentRound = r /\ LoggedRounds(p) = Rounds
    BY <1>3, WorksFit, ExcludeWorks
  <2> HIDE DEF p
  <2>2. Works(s, p, n)
    BY <1>3, <2>1, WorksTransitive
  <2> QED BY <1>3, <2>1, <2>2 DEF p
<1> HIDE DEF excluded
<1>5. Works(s, out, n) /\ LoggedRounds(out) = Rounds
  <2>1. Untouched(excluded, out)
    BY <1>4, WorksFit, SendDataUntouched
  <2> QED BY <1>4, <2>1, UntouchedThen
<1> HIDE DEF out
<1>6. Works(s, sent, n) /\ LoggedRounds(sent) = Rounds
  BY <1>3, <1>5, AnsweredWorks
<1> HIDE DEF sent
<1>7. Works(s, announced, n) /\ LoggedRounds(announced) = Rounds
  <2>1. Untouched(sent, announced)
    BY <1>6, WorksFit, OtherUntouched
  <2> QED BY <1>6, <2>1, UntouchedThen
<1> HIDE DEF announced
<1>8. Works(s, RoundUsed(announced), n)
      /\ LoggedRounds(RoundUsed(announced)) = Rounds
  <2>1. Untouched(announced, RoundUsed(announced))
    BY <1>7, WorksFit, RoundUsedUntouched
  <2> QED BY <1>7, <2>1, UntouchedThen
<1>9. /\ Works(s, [s EXCEPT !.seqNo = q], n)
      /\ LoggedRounds([s EXCEPT !.seqNo = q]) = LoggedRounds(s)
  BY OtherUntouched, ItselfWorks, UntouchedThen
<1> QED BY <1>8, <1>9, ItselfWorks
        DEF UpdateSeqNo, announced, sent, out, excluded, entry, d, logged, known,
            commit, info

----------------------------------------------------------------------------
(* Data in. *)

LEMMA AdvancesFit ==
  ASSUME NEW n, NEW P, NEW s, NEW t, Advances(s, t, n, P)
  PROVE  Fit(t)
  BY DEF Advances

LEMMA AdvancesThen ==
  ASSUME NEW n, NEW P, NEW s, Fit(s), NEW t, Advances(s, t, n, P),
         NEW u, Works(t, u, n)
  PROVE  Advances(s, u, n, P)
  BY AdvancesByMore, AdvancesTransitive

\* The leaf of the packet goes to the state; after a recovery, and before the
\* next stabilization, to the old state as well.
Unsettled(s, d) == d.round <= s.lastRecoveryRound /\ s.stableRound = 0

LEMMA AppliedAdvances ==
  ASSUME NEW n, NEW P, NEW s, Fit(s), NEW d \in Packet, 1 <= d.round
  PROVE  LET t == Applied(s, d)
         IN  /\ Advances(s, t, n, P)
             /\ t.log = s.log /\ s.currentRound <= t.currentRound
             /\ \A x \in Node :
                  t.state[x] # s.state[x] =>
                    /\ x = d.session /\ t.state[x] = d.seq
                    /\ Unsettled(s, d) => d.seq <= t.oldState[x]
<1> DEFINE checked == IF d.info = {} THEN s
                      ELSE CheckRecovery(s, d.session, The(d.info).round,
                                         The(d.info).cd)
           t == ApplyLeaf(checked, d)
           x == d.session
           q == d.seq
<1>0. x \in Node /\ q \in SeqNo /\ d.round \in Nat
  BY DEF Packet, Round
<1>1. Untouched(s, checked)
  BY RecoveryUntouched, OtherUntouched
<1> HIDE DEF checked
<1>2. Works(s, checked, n) /\ Fit(checked)
  BY <1>1, UntouchedWorks, WorksFit
<1>3. CASE q = CumulativeOnlyData
  <2>1. Applied(s, d) = checked
    BY <1>3 DEF Applied, checked
  <2> QED BY <1>1, <1>2, <2>1, AdvancesByMore DEF Untouched
<1>4. CASE q # CumulativeOnlyData
  <2>1. Applied(s, d) = t
    BY <1>4 DEF Applied, checked
  <2>2. /\ Columns \subseteq DOMAIN t /\ t.log = s.log
        /\ s.currentRound <= t.currentRound /\ t.currentRound \in Nat
        /\ t.stableRound = s.stableRound
        /\ t.lastRecoveryRound = s.lastRecoveryRound
        /\ t.state = Update(s.state, x, q)
        /\ t.oldState = IF Unsettled(s, d) THEN Update(s.oldState, x, q)
                        ELSE s.oldState
        /\ s.sentData \subseteq t.sentData
    BY <1>1 DEF Untouched, ApplyLeaf, Columns, Unsettled
  <2> HIDE DEF t
  <2>3. /\ t.state \in State
        /\ \A y \in Node : t.state[y] # s.state[y] => y = x /\ t.state[y] = q
    BY <1>0, <2>2, UpdateType DEF Fit, Update, State
  <2>4. t.oldState \in State /\ Behind(s.oldState, t.oldState)
        /\ (Unsettled(s, d) => q <= t.oldState[x])
    BY <1>0, <2>2, UpdateType DEF Fit, Update, State, Behind, NoLeaf, SeqNo
  <2>5. Fit(t) /\ LoggedRounds(t) = LoggedRounds(s)
    BY <2>2, <2>3, <2>4 DEF Fit, LoggedRounds
  <2>6. \A r : LeavesOf(t, r) = LeavesOf(s, r)
    BY <2>2, <2>5 DEF LeavesOf, EntryOf
  <2>7. s.stableRound # 0 \/ s.lastRecoveryRound = 0 => t.oldState = s.oldState
    BY <1>0, <2>2 DEF Unsettled, Fit
  <2>8. Advances(s, t, n, P)
    BY <2>2, <2>4, <2>5, <2>6, <2>7 DEF Advances, SameEntry, Heard
  <2> QED BY <2>1, <2>2, <2>3, <2>4, <2>8
<1> QED BY <1>3, <1>4

LEMMA CommittedHeard ==
  ASSUME NEW n, NEW P, NEW s, Fit(s), NEW d \in Packet, d \in P
  PROVE  LET e == Committed(s, d)
         IN  /\ EntryFit(e) /\ e.rd = e.leaves
             /\ \A x \in Node \ {n} :
                  Heard(LeavesOf(s, d.round)[x], e.leaves[x], x, d.round, P)
             /\ d.seq <= e.leaves[d.session]
<1> DEFINE f == EntryOf(s, d.round)
           e == Committed(s, d)
<1>0. d.session \in Node /\ d.seq \in SeqNo
  BY DEF Packet
<1>1. {"leaves", "rd", "cd"} \subseteq DOMAIN f /\ f.leaves \in State
  BY EmptyStateType DEF Fit, EntryFit, EntryOf, NewEntry
<1>2. /\ {"leaves", "rd", "cd"} \subseteq DOMAIN e
      /\ e.leaves = Update(f.leaves, d.session, d.seq) /\ e.rd = e.leaves
  BY <1>1 DEF Committed
<1> HIDE DEF e, f
<1>3. /\ e.leaves \in State
      /\ \A x \in Node : e.leaves[x] = f.leaves[x] \/
                         (/\ x = d.session /\ e.leaves[x] = d.seq
                          /\ f.leaves[x] <= d.seq)
      /\ d.seq <= e.leaves[d.session]
  BY <1>0, <1>1, <1>2, UpdateType DEF Update, State, NoLeaf, SeqNo
<1>4. LeavesOf(s, d.round) = f.leaves
  BY DEF LeavesOf, f
<1>5. EntryFit(e)
  BY <1>2, <1>3 DEF EntryFit
<1>6. \A x \in Node : Heard(f.leaves[x], e.leaves[x], x, d.round, P)
  BY <1>3 DEF Heard
<1> QED BY <1>2, <1>3, <1>4, <1>5, <1>6 DEF e

LEMMA MoveAfterUntouched ==
  ASSUME NEW s, Fit(s), NEW d \in Packet
  PROVE  Untouched(s, MoveAfter(s, d))
<1>1. d.round \in Nat /\ d.round + 1 \in Nat
  BY DEF Packet, Round
<1>2. d.round = s.currentRound => Untouched(s, MoveToNewCurrentRound(s, d.round + 1))
  BY <1>1, MoveUntouched
<1> QED BY <1>2, OtherUntouched DEF MoveAfter

\* t is the node after data d, whose leaf has reached the log.
Logged(s, t, d, n, P) ==
    /\ Advances(s, t, n, P)
    /\ s.stableRound < d.round /\ d.round \in LoggedRounds(t)
    /\ d.session # n => d.seq <= t.log[d.round].leaves[d.session]
    /\ \A x \in Node \ {n} :
         t.state[x] # s.state[x] =>
            /\ x = d.session /\ t.state[x] = d.seq
            /\ Unsettled(s, d) => d.seq <= t.oldState[x]

LEMMA LoggedThen ==
  ASSUME NEW n, NEW P, NEW s, Fit(s), NEW d \in Packet, NEW t,
         Logged(s, t, d, n, P), NEW u, Works(t, u, n)
  PROVE  Logged(s, u, d, n, P)
<1>0. Fit(t) /\ Fit(u) /\ d.session \in Node /\ d.seq \in Nat
  BY AdvancesFit, WorksFit DEF Logged, Packet, SeqNo
<1>1. Advances(s, u, n, P)
  BY AdvancesThen DEF Logged
<1>2. d.round \in LoggedRounds(u)
  BY DEF Logged, Works, Advances
<1>3. ASSUME d.session # n
      PROVE  d.seq <= u.log[d.round].leaves[d.session]
  <2> DEFINE p == t.log[d.round].leaves[d.session]
             q == u.log[d.round].leaves[d.session]
  <2>1. p \in Int /\ q \in Int
    BY <1>0, <1>2 DEF Fit, EntryFit, State, NoLeaf, Logged
  <2>2. Heard(LeavesOf(t, d.round)[d.session], LeavesOf(u, d.round)[d.session],
              d.session, d.round, {})
    BY <1>0, <1>2, <1>3 DEF Works, Advances
  <2>3. Heard(p, q, d.session, d.round, {})
    BY <1>2, <2>2 DEF LeavesOf, EntryOf, Logged
  <2> QED BY <1>3, <2>1, <2>3 DEF Heard, Logged
<1>4. ASSUME NEW x \in Node \ {n}, u.state[x] # s.state[x]
      PROVE  /\ x = d.session /\ u.state[x] = d.seq
             /\ Unsettled(s, d) => d.seq <= u.oldState[x]
  <2>1. u.state[x] = t.state[x]
    BY DEF Works, SameOthers
  <2>2. t.oldState[x] \in Int /\ u.oldState[x] \in Int
        /\ t.oldState[x] <= u.oldState[x]
    BY <1>0 DEF Fit, State, NoLeaf, Works, Advances, Behind
  <2> QED BY <1>0, <1>4, <2>1, <2>2 DEF Logged
<1> QED BY <1>1, <1>2, <1>3, <1>4 DEF Logged

\* A packet of a round that is not stable yet reaches the log.
LEMMA ProcessDataLogged ==
  ASSUME NEW n, NEW P, NEW s, Fit(s), NEW d \in Packet, d \in P, 1 <= d.round,
         ~TooOld(s, d)
  PROVE  Logged(s, ProcessData(s, d), d, n, P)
<1> DEFINE r == d.round
           e == Committed(s, d)
           a == Applied(s, d)
           m == MoveAfter(a, d)
           p == PutEntry(m, r, e)
<1>0. r \in Nat /\ 1 <= r /\ s.stableRound < r /\ d.session \in Node
  BY DEF Packet, Round, TooOld, Fit
<1>1. /\ EntryFit(e) /\ d.seq <= e.leaves[d.session]
      /\ \A x \in Node \ {n} : Heard(LeavesOf(s, r)[x], e.leaves[x], x, r, P)
  BY CommittedHeard
<1>2. /\ Advances(s, a, n, P) /\ Fit(a) /\ a.log = s.log
      /\ \A x \in Node :
           a.state[x] # s.state[x] =>
             /\ x = d.session /\ a.state[x] = d.seq
             /\ Unsettled(s, d) => d.seq <= a.oldState[x]
  BY AppliedAdvances, AdvancesFit
<1> HIDE DEF e, a, r
<1>3. Untouched(a, m) /\ Works(a, m, n)
  BY <1>2, MoveAfterUntouched, UntouchedWorks
<1> HIDE DEF m
<1>4. Advances(s, m, n, P) /\ Fit(m) /\ m.log = s.log
  BY <1>2, <1>3, AdvancesThen, WorksFit DEF Untouched
<1>5. LeavesOf(m, r) = LeavesOf(s, r) /\ m.stableRound < r
  BY <1>0, <1>4 DEF LeavesOf, EntryOf, LoggedRounds, Advances
<1>6. /\ Advances(m, p, n, P) /\ p.state = m.state /\ p.oldState = m.oldState
      /\ r \in LoggedRounds(p) /\ p.log[r] = e
  BY <1>0, <1>1, <1>4, <1>5, PutLaterAdvances
<1> HIDE DEF p
<1>7. Advances(s, p, n, P) /\ Fit(p)
  BY <1>4, <1>6, AdvancesTransitive, AdvancesFit
<1>8. Logged(s, p, d, n, P)
  BY <1>0, <1>1, <1>2, <1>3, <1>6, <1>7 DEF Logged, Untouched, r
<1>9. Works(p, [p EXCEPT !.syncDue = @ \cup {r}], n)
  BY <1>7, OtherUntouched, UntouchedWorks
<1>10. ProcessData(s, d) = [p EXCEPT !.syncDue = @ \cup {r}]
  BY DEF ProcessData, p, m, a, e, r
<1> QED BY <1>8, <1>9, <1>10, LoggedThen

\* The same when the callback publishes.  The publication may take the round of
\* the packet, if that is the current one and has no entry: then the packet is
\* not logged.
LEMMA ProcessDataPublishingAdvances ==
  ASSUME NEW n \in Node, NEW P, NEW s, Fit(s), s.seqNo \in Nat,
         NEW d \in Packet, d \in P, 1 <= d.round, ~TooOld(s, d)
  PROVE  LET t == ProcessDataPublishing(s, n, d)
         IN  /\ Advances(s, t, n, P)
             /\ \/ d.round \in LoggedRounds(s)
                \/ d.round < s.currentRound
                => Logged(s, t, d, n, P)
<1> DEFINE r == d.round
           e == Committed(s, d)
           a == Applied(s, d)
           put == PutEntry(a, r, e)
           called == IF r \in LoggedRounds(s) THEN put ELSE a
           pub == UpdateSeqNo(called, n, s.seqNo + 1)
           m == MoveAfter(pub, d)
           u == UpdateDiffLog(m, r, e)
           t == [u EXCEPT !.syncDue = @ \cup {r}]
           newly == PutEntry(m, r, [e EXCEPT !.rd = e.leaves])
<1>0. r \in Nat /\ 1 <= r /\ s.stableRound < r /\ d.session \in Node
      /\ s.seqNo + 1 \in SeqNo
  BY DEF Packet, Round, TooOld, Fit, SeqNo
<1>1. /\ EntryFit(e) /\ d.seq <= e.leaves[d.session]
      /\ \A x \in Node \ {n} : Heard(LeavesOf(s, r)[x], e.leaves[x], x, r, P)
  BY CommittedHeard
<1>2. /\ Advances(s, a, n, P) /\ Fit(a) /\ a.log = s.log
      /\ s.currentRound <= a.currentRound
      /\ \A x \in Node :
           a.state[x] # s.state[x] =>
             /\ x = d.session /\ a.state[x] = d.seq
             /\ Unsettled(s, d) => d.seq <= a.oldState[x]
  BY AppliedAdvances, AdvancesFit
<1> HIDE DEF e, a, r
<1>3. LoggedRounds(a) = LoggedRounds(s)
  BY <1>2 DEF LoggedRounds
<1>f. /\ Fit(a) /\ a.stableRound < r
       /\ \A x \in Node \ {n} : Heard(LeavesOf(a, r)[x], e.leaves[x], x, r, P)
  BY <1>0, <1>1, <1>2 DEF LeavesOf, EntryOf, LoggedRounds, Advances
<1>4. /\ Advances(a, put, n, P) /\ put.state = a.state
      /\ put.oldState = a.oldState
      /\ r \in LoggedRounds(put) /\ put.log[r] = e
  BY <1>0, <1>1, <1>f, PutLaterAdvances
<1> HIDE DEF put
<1>5. Advances(s, put, n, P) /\ Fit(put) /\ Logged(s, put, d, n, P)
  <2>1. Advances(s, put, n, P) /\ Fit(put)
    BY <1>2, <1>4, AdvancesTransitive, AdvancesFit
  <2> QED BY <1>0, <1>1, <1>2, <1>4, <2>1 DEF Logged, r
<1>6. Advances(s, called, n, P) /\ Fit(called)
  BY <1>2, <1>5
<1> HIDE DEF called
<1>7. /\ Works(called, pub, n)
      /\ LoggedRounds(pub) \subseteq LoggedRounds(called) \cup {called.currentRound}
  BY <1>0, <1>6, UpdateSeqNoWorks
<1> HIDE DEF pub
<1>8. Untouched(pub, m) /\ Works(called, m, n) /\ Fit(m)
  BY <1>6, <1>7, WorksFit, MoveAfterUntouched, UntouchedThen
<1> HIDE DEF m
<1>9. Advances(s, m, n, P)
  BY <1>6, <1>8, AdvancesThen
<1>10. CASE r \in LoggedRounds(s)
  <2>1. r \in LoggedRounds(m)
    BY <1>9, <1>10 DEF Advances
  <2>2. u = m
    BY <2>1 DEF UpdateDiffLog
  <2>3. Works(m, t, n)
    BY <1>8, <2>2, OtherUntouched, UntouchedWorks
  <2>4. Logged(s, m, d, n, P)
    BY <1>5, <1>8, <1>10, LoggedThen DEF called
  <2> HIDE DEF t
  <2>5. Logged(s, t, d, n, P)
    BY <2>3, <2>4, LoggedThen
  <2> QED BY <2>5 DEF ProcessDataPublishing, t, u, m, pub, called, put, a, e, r, Logged
<1>11. CASE r \notin LoggedRounds(s)
  <2> DEFINE f == [e EXCEPT !.rd = e.leaves]
  <2>1. called = a
    BY <1>11 DEF called
  <2>2. CASE r \in LoggedRounds(m)
    <3>1. u = m
      BY <2>2 DEF UpdateDiffLog
    <3>2. Works(m, t, n)
      BY <1>8, <3>1, OtherUntouched, UntouchedWorks
    <3> HIDE DEF t
    <3>3. Advances(s, t, n, P)
      BY <1>9, <3>2, AdvancesThen
    <3>4. r \in LoggedRounds(pub)
      BY <1>8, <2>2 DEF Untouched, LoggedRounds
    <3>5. r = a.currentRound
      BY <1>3, <1>7, <1>11, <2>1, <3>4
    <3>6. ~(r < s.currentRound)
      BY <1>2, <3>5 DEF Fit
    <3> QED BY <1>11, <3>3, <3>6
            DEF ProcessDataPublishing, t, u, m, pub, called, put, a, e, r
  <2>3. CASE r \notin LoggedRounds(m)
    <3>1. u = PutEntry(m, r, f)
      BY <2>3 DEF UpdateDiffLog
    <3> HIDE DEF u
    <3>2. EntryFit(f) /\ f.leaves = e.leaves
      BY <1>1 DEF EntryFit
    <3> HIDE DEF f
    <3>3. LeavesOf(m, r) = LeavesOf(s, r) /\ m.stableRound < r
      BY <1>0, <1>9, <1>11, <2>3 DEF LeavesOf, EntryOf, Advances
    <3>4. \A x \in Node \ {n} : Heard(LeavesOf(m, r)[x], f.leaves[x], x, r, P)
      BY <1>1, <3>2, <3>3
    <3>5. /\ Advances(m, u, n, P) /\ u.state = m.state /\ u.oldState = m.oldState
          /\ r \in LoggedRounds(u) /\ u.log[r] = f
      <4> DEFINE v == PutEntry(m, r, f)
      <4>1. m.stableRound < r /\ Fit(m) /\ EntryFit(f)
        BY <1>8, <3>2, <3>3
      <4>2. /\ Advances(m, v, n, P) /\ v.state = m.state
            /\ v.oldState = m.oldState
            /\ r \in LoggedRounds(v) /\ v.log[r] = f
        BY <1>0, <3>4, <4>1, PutLaterAdvances
      <4> HIDE DEF v
      <4> QED BY <3>1, <4>2 DEF v
    <3>6. Advances(s, u, n, P) /\ Fit(u)
      BY <1>9, <3>5, AdvancesTransitive, AdvancesFit
    <3>7. ASSUME NEW x \in Node \ {n}, u.state[x] # s.state[x]
          PROVE  /\ x = d.session /\ u.state[x] = d.seq
                 /\ Unsettled(s, d) => d.seq <= u.oldState[x]
      <4>1. m.state[x] = a.state[x]
        BY <1>8, <2>1 DEF Works, SameOthers
      <4>2. /\ a.oldState[x] \in Int /\ m.oldState[x] \in Int
            /\ a.oldState[x] <= m.oldState[x]
        BY <1>2, <1>8, <2>1 DEF Fit, State, NoLeaf, Works, Advances, Behind
      <4>3. d.seq \in Nat
        BY DEF Packet, SeqNo
      <4> QED BY <1>2, <3>5, <3>7, <4>1, <4>2, <4>3
    <3>8. Logged(s, u, d, n, P)
      BY <1>0, <1>1, <3>2, <3>5, <3>6, <3>7 DEF Logged, r
    <3>9. Works(u, t, n)
      BY <3>6, OtherUntouched, UntouchedWorks
    <3> HIDE DEF t
    <3>10. Logged(s, t, d, n, P)
      BY <3>8, <3>9, LoggedThen
    <3> QED BY <3>10
            DEF ProcessDataPublishing, t, u, m, pub, called, put, a, e, r, Logged
  <2> QED BY <2>2, <2>3
<1> QED BY <1>10, <1>11

----------------------------------------------------------------------------
(* The properties, of one node. *)

\* What the node knows of x is in the old state, or in an entry that is still
\* to be stabilized.
Noted(s, x) ==
    \/ s.state[x] <= s.oldState[x]
    \/ \E r \in ToStabilize(s) : s.state[x] <= s.log[r].leaves[x]

NotedOthers(s, n) == \A x \in Node \ {n} : Noted(s, x)

LeavesIn(s, R) == {s.log[r].leaves : r \in R}
UnionTo(s, r) == PlusAll(EmptyState, LeavesIn(s, LoggedRounds(s) \cap 0 .. r))

\* The digest of the stable round is that of the old state; before the first
\* recovery, the old state and every digest of a stable round are unions.
Settled(s) ==
    /\ s.stableRound # 0 =>
         /\ s.stableRound \in LoggedRounds(s)
         /\ s.log[s.stableRound].cd = {s.oldState}
         /\ Behind(s.log[s.stableRound].leaves, s.oldState)
    /\ s.lastRecoveryRound = 0 =>
         /\ s.oldState = UnionTo(s, s.stableRound)
         /\ \A r \in LoggedRounds(s) :
              r <= s.stableRound => s.log[r].cd = {UnionTo(s, r)}

\* The stable entries of s are those of t, unless t has just recovered.
Keeps(s, t) ==
    \A r \in LoggedRounds(s) :
        r <= s.stableRound /\ t.stableRound # 0
            => r \in LoggedRounds(t) /\ SameEntry(s.log[r], t.log[r])

\* The leaves of others are those of packets of P.
Hears(s, t, n, P) ==
    \A r \in LoggedRounds(t) : \A x \in Node \ {n} :
        Heard(LeavesOf(s, r)[x], LeavesOf(t, r)[x], x, r, P)

\* What a method makes of a node that is settled.
Outcome(s, t, n, P) ==
    /\ Fit(t) /\ Settled(t) /\ Keeps(s, t) /\ Hears(s, t, n, P)
    /\ s.sentData \subseteq t.sentData

Notes(s, t, n) == NotedOthers(s, n) => NotedOthers(t, n)

LEMMA LeavesInFinite ==
  ASSUME NEW s, NEW R, IsFiniteSet(R)
  PROVE  IsFiniteSet(LeavesIn(s, R))
<1> DEFINE f == [r \in R |-> s.log[r].leaves]
           L == LeavesIn(s, R)
<1>1. f \in Surjection(R, L)
  BY DEF Surjection, LeavesIn
<1> HIDE DEF f, L
<1>2. IsFiniteSet(L)
  BY <1>1, FS_Surjection
<1> QED BY <1>2 DEF L

\* The entries of some rounds, of a node that fits.
LEMMA LeavesInType ==
  ASSUME NEW s, Fit(s), NEW R \in SUBSET LoggedRounds(s)
  PROVE  /\ LeavesIn(s, R) \in SUBSET State
         /\ IsFiniteSet(LeavesIn(s, R))
<1>1. IsFiniteSet(R)
  BY FS_Subset DEF Fit
<1>2. \A r \in R : s.log[r].leaves \in State
  BY DEF Fit, EntryFit
<1>3. LeavesIn(s, R) \in SUBSET State
  BY <1>2 DEF LeavesIn
<1> QED BY <1>1, <1>3, LeavesInFinite

LEMMA AdvancesSettled ==
  ASSUME NEW n, NEW P, NEW s, Fit(s), Settled(s), NEW t, Advances(s, t, n, P)
  PROVE  Outcome(s, t, n, P)
<1>0. /\ s.stableRound \in Nat /\ t.stableRound = s.stableRound
      /\ t.lastRecoveryRound = s.lastRecoveryRound
      /\ LoggedRounds(s) \subseteq LoggedRounds(t)
      /\ \A r \in LoggedRounds(t) : r \in Nat
      /\ s.stableRound # 0 \/ s.lastRecoveryRound = 0 => t.oldState = s.oldState
  BY DEF Fit, Advances
<1>1. \A r \in LoggedRounds(t) :
         r <= s.stableRound
           => r \in LoggedRounds(s) /\ SameEntry(s.log[r], t.log[r])
  BY DEF Advances
<1>2. ASSUME NEW r \in Nat, r <= s.stableRound
      PROVE  UnionTo(t, r) = UnionTo(s, r)
  <2> DEFINE R == LoggedRounds(s) \cap 0 .. r
  <2>1. LoggedRounds(t) \cap 0 .. r = R
    BY <1>0, <1>1, <1>2
  <2>2. \A q \in R : t.log[q].leaves = s.log[q].leaves
    BY <1>0, <1>1, <1>2 DEF SameEntry
  <2> HIDE DEF R
  <2>3. LeavesIn(t, R) = LeavesIn(s, R)
    BY <2>2 DEF LeavesIn
  <2> QED BY <2>1, <2>3 DEF UnionTo, R
<1>3. Settled(t)
  <2>1. ASSUME s.stableRound # 0
        PROVE  /\ s.stableRound \in LoggedRounds(t)
               /\ t.log[s.stableRound].cd = {t.oldState}
               /\ Behind(t.log[s.stableRound].leaves, t.oldState)
    BY <1>0, <1>1, <2>1 DEF Settled, SameEntry
  <2>2. ASSUME s.lastRecoveryRound = 0
        PROVE  /\ t.oldState = UnionTo(t, s.stableRound)
               /\ \A r \in LoggedRounds(t) :
                    r <= s.stableRound => t.log[r].cd = {UnionTo(t, r)}
    <3>1. t.oldState = UnionTo(t, s.stableRound)
      BY <1>0, <1>2, <2>2 DEF Settled
    <3>2. ASSUME NEW r \in LoggedRounds(t), r <= s.stableRound
          PROVE  t.log[r].cd = {UnionTo(t, r)}
      BY <1>0, <1>1, <1>2, <2>2, <3>2 DEF Settled, SameEntry
    <3> QED BY <3>1, <3>2
  <2> QED BY <1>0, <2>1, <2>2 DEF Settled
<1> QED BY <1>0, <1>1, <1>3 DEF Advances, Outcome, Keeps, Hears

\* What was noted stays noted, as leaves and the old state only grow.
LEMMA NotedStays ==
  ASSUME NEW n, NEW P, NEW s, Fit(s), NEW t, Advances(s, t, n, P),
         NEW x \in Node \ {n}, Noted(s, x), t.state[x] = s.state[x]
  PROVE  Noted(t, x)
<1>0. Fit(t)
  BY DEF Advances
<1>1. CASE s.state[x] <= s.oldState[x]
  <2>1. /\ s.state[x] \in Int /\ s.oldState[x] \in Int /\ t.oldState[x] \in Int
        /\ s.oldState[x] <= t.oldState[x]
    BY <1>0 DEF Fit, State, NoLeaf, Advances, Behind
  <2> QED BY <1>1, <2>1 DEF Noted
<1>2. ASSUME NEW r \in ToStabilize(s), s.state[x] <= s.log[r].leaves[x]
      PROVE  Noted(t, x)
  <2>1. r \in LoggedRounds(s) /\ r \in LoggedRounds(t) /\ r \in ToStabilize(t)
    BY DEF ToStabilize, Advances
  <2>2. Heard(s.log[r].leaves[x], t.log[r].leaves[x], x, r, P)
    BY <2>1 DEF Advances, LeavesOf, EntryOf
  <2>3. /\ s.log[r].leaves[x] \in Int /\ t.log[r].leaves[x] \in Int
        /\ s.state[x] \in Int
    BY <1>0, <2>1 DEF Fit, EntryFit, State, NoLeaf
  <2> QED BY <1>2, <2>1, <2>2, <2>3 DEF Noted, Heard
<1> QED BY <1>1, <1>2 DEF Noted

LEMMA WorksNotes ==
  ASSUME NEW n, NEW s, Fit(s), NEW t, Works(s, t, n)
  PROVE  Notes(s, t, n)
  BY NotedStays DEF Works, SameOthers, Notes, NotedOthers

LEMMA LoggedNotes ==
  ASSUME NEW n, NEW P, NEW s, Fit(s), NEW d \in Packet, NEW t,
         Logged(s, t, d, n, P)
  PROVE  Notes(s, t, n)
<1> SUFFICES ASSUME NEW x \in Node \ {n}, Noted(s, x), t.state[x] # s.state[x]
             PROVE  Noted(t, x)
  BY NotedStays DEF Notes, NotedOthers, Logged
<1>1. /\ x = d.session /\ t.state[x] = d.seq
      /\ Unsettled(s, d) => d.seq <= t.oldState[x]
  BY DEF Logged
<1>2. CASE Unsettled(s, d)
  BY <1>1, <1>2 DEF Noted
<1>3. CASE ~Unsettled(s, d)
  <2>1. d.seq <= t.log[d.round].leaves[x] /\ d.round \in LoggedRounds(t)
    BY <1>1 DEF Logged
  <2>2. /\ t.stableRound = s.stableRound /\ s.stableRound < d.round
        /\ t.lastRecoveryRound = s.lastRecoveryRound
        /\ s.lastRecoveryRound \in Nat /\ d.round \in Nat
    BY DEF Fit, Logged, Advances, Packet, Round
  <2>3. d.round \in ToStabilize(t)
    BY <1>3, <2>1, <2>2 DEF ToStabilize, Unsettled
  <2> QED BY <1>1, <2>1, <2>3 DEF Noted
<1> QED BY <1>2, <1>3

----------------------------------------------------------------------------
(* Recovery: no round is stable, and the old state is the state. *)

LEMMA RecoveredOutcome ==
  ASSUME NEW n, NEW P, NEW s, NEW t, Fit(t), t.stableRound = 0,
         t.lastRecoveryRound # 0, t.oldState = t.state,
         Hears(s, t, n, P), s.sentData \subseteq t.sentData
  PROVE  Outcome(s, t, n, P) /\ Notes(s, t, n)
<1>1. \A x \in Node : t.state[x] \in Int
  BY DEF Fit, State, NoLeaf
<1> QED BY <1>1 DEF Outcome, Settled, Keeps, Notes, NotedOthers, Noted

LEMMA ResumeOutcome ==
  ASSUME NEW n, NEW P, NEW s, NEW p, Fit(p), p.currentRound >= 2,
         Hears(s, p, n, P), s.sentData \subseteq p.sentData, NEW r \in Nat
  PROVE  Outcome(s, Resume(p, r), n, P) /\ Notes(s, Resume(p, r), n)
<1> DEFINE moved == CatchUp(p, r)
           t == Resume(p, r)
<1>1. /\ Columns \subseteq DOMAIN moved
      /\ moved.state = p.state /\ moved.log = p.log
      /\ moved.sentData = p.sentData
      /\ moved.lastRecoveryRound \in Nat /\ moved.lastRecoveryRound # 0
      /\ moved.currentRound \in Nat /\ 1 <= moved.currentRound
  BY DEF CatchUp, MoveToNewCurrentRoundAfterRecovery, Fit, Columns
<1> HIDE DEF moved
<1>2. /\ t.state = p.state /\ t.oldState = p.state /\ t.log = p.log
      /\ t.sentData = p.sentData /\ t.stableRound = 0
      /\ t.lastRecoveryRound = moved.lastRecoveryRound
      /\ t.currentRound = moved.currentRound /\ Columns \subseteq DOMAIN t
  BY <1>1 DEF Resume, Unstabilize, GoFishing, Columns, moved
<1> HIDE DEF t
<1>3. Hears(s, t, n, P)
  BY <1>2 DEF Hears, LeavesOf, EntryOf, LoggedRounds
<1>4. Fit(t)
  BY <1>1, <1>2 DEF Fit, LoggedRounds
<1>5. Outcome(s, t, n, P) /\ Notes(s, t, n)
  BY <1>1, <1>2, <1>3, <1>4, RecoveredOutcome
<1> QED BY <1>5 DEF t

\* The state that arrives goes to the state, and to nothing else yet.
LEMMA MergedFit ==
  ASSUME NEW s, Fit(s), NEW u, NEW st \in State
  PROVE  LET m == Merged(s, u, st)
         IN  /\ Fit(m) /\ m.log = s.log /\ m.currentRound = s.currentRound
             /\ m.sentData = s.sentData
<1> DEFINE m == Merged(s, u, st)
<1>1. /\ Columns \subseteq DOMAIN m /\ m.log = s.log
      /\ m.currentRound = s.currentRound /\ m.stableRound = s.stableRound
      /\ m.lastRecoveryRound = s.lastRecoveryRound
      /\ m.state = Plus(s.state, st) /\ m.oldState = s.oldState
      /\ m.sentData = s.sentData
  BY DEF Merged, Fit, Columns
<1> HIDE DEF m
<1>2. m.state \in State
  BY <1>1, PlusType DEF Fit
<1>3. Fit(m)
  BY <1>1, <1>2 DEF Fit, LoggedRounds
<1> QED BY <1>1, <1>3 DEF m

LEMMA ProcessRecoDataOutcome ==
  ASSUME NEW n, NEW P, NEW s, Fit(s), s.currentRound >= 2,
         NEW u, NEW st \in State, NEW r \in Nat
  PROVE  LET t == ProcessRecoData(s, u, r, st)
         IN  Outcome(s, t, n, P) /\ Notes(s, t, n)
<1> DEFINE m == Merged(s, u, st)
<1>1. /\ Fit(m) /\ m.log = s.log /\ m.currentRound = s.currentRound
      /\ m.sentData = s.sentData
  BY MergedFit
<1> HIDE DEF m
<1>2. Hears(s, m, n, P)
  BY <1>1 DEF Hears, Heard, LeavesOf, EntryOf, LoggedRounds
<1>3. Outcome(s, Resume(m, r), n, P) /\ Notes(s, Resume(m, r), n)
  BY <1>1, <1>2, ResumeOutcome
<1> QED BY <1>3 DEF ProcessRecoData, m

LEMMA ProcessRecoDataPublishingOutcome ==
  ASSUME NEW n \in Node, NEW P, NEW s, Fit(s), s.currentRound >= 2,
         s.seqNo \in Nat, NEW u, NEW st \in State, NEW r \in Nat
  PROVE  LET t == ProcessRecoDataPublishing(s, n, u, r, st)
         IN  Outcome(s, t, n, P) /\ Notes(s, t, n)
<1> DEFINE m == Merged(s, u, st)
           p == UpdateSeqNo(m, n, s.seqNo + 1)
<1>0. s.seqNo + 1 \in SeqNo
  BY DEF SeqNo
<1>1. /\ Fit(m) /\ m.log = s.log /\ m.currentRound = s.currentRound
      /\ m.sentData = s.sentData
  BY MergedFit
<1> HIDE DEF m
<1>2. Works(m, p, n) /\ Fit(p) /\ p.currentRound >= 2
  <2>1. Works(m, p, n)
    BY <1>0, <1>1, UpdateSeqNoWorks
  <2>2. Fit(p) /\ m.currentRound <= p.currentRound
    BY <2>1 DEF Works, Advances
  <2>3. m.currentRound \in Nat /\ p.currentRound \in Nat
    BY <1>1, <2>2 DEF Fit
  <2> QED BY <1>1, <2>1, <2>2, <2>3
<1> HIDE DEF p
<1>3. Hears(s, p, n, P) /\ s.sentData \subseteq p.sentData
  <2>1. Advances(m, p, n, P)
    BY <1>2, AdvancesByMore
  <2>2. \A q : LeavesOf(m, q) = LeavesOf(s, q)
    BY <1>1 DEF LeavesOf, EntryOf, LoggedRounds
  <2> QED BY <1>1, <2>1, <2>2 DEF Hears, Advances
<1>4. Outcome(s, Resume(p, r), n, P) /\ Notes(s, Resume(p, r), n)
  BY <1>2, <1>3, ResumeOutcome
<1> QED BY <1>4 DEF ProcessRecoDataPublishing, p, m

----------------------------------------------------------------------------
(* Stabilization. *)

\* A state is put together from some entries and, if need be, an empty one.
LEMMA EmptyAddsNothing ==
  ASSUME NEW L \in SUBSET State, IsFiniteSet(L)
  PROVE  PlusAll(EmptyState, L \cup {EmptyState}) = PlusAll(EmptyState, L)
<1> DEFINE E == {EmptyState}
<1>1. E \in SUBSET State /\ IsFiniteSet(E) /\ \A t \in E : Behind(t, EmptyState)
  <2>1. IsFiniteSet(E)
    BY FS_Singleton
  <2>2. Behind(EmptyState, EmptyState)
    BY DEF Behind, EmptyState, NoLeaf
  <2> QED BY <2>1, <2>2, EmptyStateType
<1>2. EmptyState \in State /\ L \cup E = E \cup L
  BY EmptyStateType
<1> HIDE DEF E
<1>3. PlusAll(EmptyState, E) = EmptyState
  BY <1>1, <1>2, PlusAllAbsorbs
<1>4. PlusAll(EmptyState, E \cup L) = PlusAll(PlusAll(EmptyState, E), L)
  BY <1>1, <1>2, PlusAllTwice
<1> QED BY <1>2, <1>3, <1>4 DEF E

\* The entry of r after calculateStableStateAndCumulativeDigests(), which visits
\* the rounds of R.
CalculatedEntry(s, R, end, r, e) ==
    LET upTo == IF r = end THEN OldStateWith(s, (R \cup {end}) \cap LoggedRounds(s))
                ELSE OldStateWith(s, {q \in R : q <= r})
    IN  /\ DOMAIN e = DOMAIN EntryOf(s, r)
        /\ e.leaves = EntryOf(s, r).leaves /\ e.rd = EntryOf(s, r).rd
        /\ IF r \in R \cup {end} THEN e.cd = {upTo}
           ELSE r \in LoggedRounds(s) /\ e.cd = s.log[r].cd

Stabilized(s, t, R, end) ==
    /\ Columns \subseteq DOMAIN t
    /\ t.currentRound = s.currentRound /\ t.stableRound = end
    /\ t.lastRecoveryRound = s.lastRecoveryRound
    /\ t.state = s.state /\ t.sentData = s.sentData
    /\ t.oldState = OldStateWith(s, (R \cup {end}) \cap LoggedRounds(s))
    /\ LoggedRounds(t) = LoggedRounds(s) \cup {end}
    /\ \A r \in LoggedRounds(t) : CalculatedEntry(s, R, end, r, t.log[r])

LEMMA SetStableStateFacts ==
  ASSUME NEW s, Fit(s), InitRound(s) # {}
  PROVE  LET R == Visited(s, The(InitRound(s)), s.stabilizingRound)
         IN  Stabilized(s, SetStableState(s), R, s.stabilizingRound)
<1> DEFINE end == s.stabilizingRound
           init == The(InitRound(s))
           R == Visited(s, init, end)
           old == OldStateWith(s, (R \cup {end}) \cap LoggedRounds(s))
           upTo(r) == IF r = end THEN old ELSE OldStateWith(s, {q \in R : q <= r})
           D == LoggedRounds(s) \cup {end}
           log == [r \in D |-> IF r \in R \cup {end}
                               THEN [EntryOf(s, r) EXCEPT !.cd = {upTo(r)}]
                               ELSE s.log[r]]
           k == [s EXCEPT !.oldState = old, !.log = log]
           t == [k EXCEPT !.stableRound = end,
                          !.stabilizingRound =
                              NextStabilizing(end, s.currentRound)]
<1>1. SetStableState(s) = t
  BY DEF SetStableState, CalculateStableStateAndCumulativeDigests
<1>2. \A r : {"leaves", "rd", "cd"} \subseteq DOMAIN EntryOf(s, r)
  BY DEF Fit, EntryFit, EntryOf, NewEntry
<1>3. ASSUME NEW r \in D PROVE CalculatedEntry(s, R, end, r, log[r])
  <2> DEFINE e == EntryOf(s, r)
             f == [e EXCEPT !.cd = {upTo(r)}]
  <2>1. /\ f.leaves = e.leaves /\ f.rd = e.rd /\ f.cd = {upTo(r)}
        /\ DOMAIN f = DOMAIN e
    <3> HIDE DEF upTo, e
    <3> QED BY <1>2 DEF e
  <2>2. log[r] = IF r \in R \cup {end} THEN f ELSE s.log[r]
    OBVIOUS
  <2>3. r \notin R \cup {end} => r \in LoggedRounds(s) /\ e = s.log[r]
    BY <1>3 DEF EntryOf
  <2> HIDE DEF f, e, log
  <2>4. /\ DOMAIN log[r] = DOMAIN e
        /\ log[r].leaves = e.leaves /\ log[r].rd = e.rd
        /\ IF r \in R \cup {end} THEN log[r].cd = {upTo(r)}
           ELSE r \in LoggedRounds(s) /\ log[r].cd = s.log[r].cd
    <3> HIDE DEF upTo
    <3> QED BY <2>1, <2>2, <2>3
  <2> QED BY <2>4 DEF CalculatedEntry, e
<1>4. DOMAIN log = D
  OBVIOUS
<1> HIDE DEF log, old, R
<1>5. /\ Columns \subseteq DOMAIN t
      /\ t.currentRound = s.currentRound /\ t.stableRound = end
      /\ t.lastRecoveryRound = s.lastRecoveryRound
      /\ t.state = s.state /\ t.sentData = s.sentData
      /\ t.oldState = old /\ t.log = log
  BY DEF Fit, Columns
<1> HIDE DEF t
<1>6. LoggedRounds(t) = D
  BY <1>4, <1>5 DEF LoggedRounds
<1>7. Stabilized(s, t, R, end)
  BY <1>3, <1>5, <1>6 DEF Stabilized, old
<1> QED BY <1>1, <1>7 DEF R

\* The loop visits the rounds between the stable one and the one to stabilize;
\* none of them after a recovery, or if that one is stable already.
LEMMA VisitedRounds ==
  ASSUME NEW s, NEW n, Good(s, n)
  PROVE  LET end == s.stabilizingRound
             R == Visited(s, The(InitRound(s)), end)
         IN  /\ InitRound(s) # {} /\ end \in Nat /\ 1 <= end
             /\ s.stableRound <= end
             /\ s.stableRound = end => R = {}
             /\ \/ s.stableRound = 0 /\ s.lastRecoveryRound = end /\ R = {}
                \/ /\ s.stableRound # 0 \/ s.lastRecoveryRound = 0
                   /\ R = {r \in LoggedRounds(s) : s.stableRound < r /\ r < end}
                \/ s.stableRound = end /\ s.stableRound # 0
<1> DEFINE end == s.stabilizingRound
           init == The(InitRound(s))
<1>0. /\ end \in Nat /\ s.stableRound \in Nat /\ s.lastRecoveryRound \in Nat
      /\ LoggedRounds(s) \subseteq Nat /\ RoundsOK(s)
  BY LogFacts DEF Good, Sound, NodeType, Round
<1>1. InitRound(s) # {} /\ 1 <= end /\ s.stableRound <= end
  BY <1>0, InitRoundFacts DEF RoundsOK, Good
<1>2. \A x : The({x}) = x
  BY DEF The
<1>3. CASE s.stableRound = 0 /\ s.lastRecoveryRound = 0
  <2>1. init = 1
    BY <1>2, <1>3 DEF InitRound
  <2> HIDE DEF init
  <2> QED BY <1>0, <1>1, <1>3, <2>1 DEF Visited, init
<1>4. CASE ~(s.stableRound = 0 /\ s.lastRecoveryRound = 0)
           /\ end = s.lastRecoveryRound
  <2>1. init = end
    BY <1>2, <1>4 DEF InitRound
  <2>2. s.stableRound # 0 => s.stableRound = end
    BY <1>0, <1>1, <1>4 DEF RoundsOK
  <2> HIDE DEF init
  <2>3. Visited(s, init, end) = {}
    BY <1>0, <2>1 DEF Visited
  <2> QED BY <1>0, <1>1, <1>4, <2>2, <2>3 DEF init
<1>5. CASE s.stableRound # 0 /\ end # s.lastRecoveryRound
  <2>1. init = s.stableRound + 1
    BY <1>2, <1>5 DEF InitRound
  <2> HIDE DEF init
  <2>2. Visited(s, init, end)
          = {r \in LoggedRounds(s) : s.stableRound < r /\ r < end}
    BY <1>0, <2>1 DEF Visited
  <2>3. s.stableRound = end => Visited(s, init, end) = {}
    BY <1>0, <2>1 DEF Visited
  <2> QED BY <1>0, <1>1, <1>5, <2>2, <2>3 DEF init
<1>6. s.stableRound = 0 /\ s.lastRecoveryRound # 0 => end = s.lastRecoveryRound
  BY <1>0 DEF RoundsOK
<1> QED BY <1>3, <1>4, <1>5, <1>6

\* The round to stabilize is stable already: nothing changes.
LEMMA StabilizedAgain ==
  ASSUME NEW n, NEW s, Fit(s), Settled(s), s.stableRound # 0,
         NEW t, Stabilized(s, t, {}, s.stableRound)
  PROVE  Works(s, t, n)
<1> DEFINE end == s.stableRound
           A == ({} \cup {end}) \cap LoggedRounds(s)
<1>1. /\ end \in LoggedRounds(s) /\ s.log[end].cd = {s.oldState}
      /\ Behind(s.log[end].leaves, s.oldState) /\ A = {end}
  BY DEF Settled
<1>2. t.oldState = s.oldState
  <2>1. \A u \in LeavesIn(s, A) : Behind(u, s.oldState)
    BY <1>1 DEF LeavesIn
  <2>2. PlusAll(s.oldState, LeavesIn(s, A)) = s.oldState
    BY <1>1, <2>1, LeavesInType, PlusAllAbsorbs DEF Fit
  <2> QED BY <2>2 DEF Stabilized, OldStateWith, LeavesIn
<1>3. LoggedRounds(t) = LoggedRounds(s)
  BY <1>1 DEF Stabilized
<1>4. ASSUME NEW r \in LoggedRounds(t)
      PROVE  SameEntry(s.log[r], t.log[r])
  <2>1. CalculatedEntry(s, {}, end, r, t.log[r])
    BY <1>4 DEF Stabilized
  <2>2. EntryOf(s, r) = s.log[r]
    BY <1>3, <1>4 DEF EntryOf
  <2>3. OldStateWith(s, A) = s.oldState
    BY <1>2 DEF Stabilized
  <2> QED BY <1>1, <2>1, <2>2, <2>3 DEF CalculatedEntry, SameEntry
<1>5. \A r : LeavesOf(t, r) = LeavesOf(s, r)
  BY <1>3, <1>4 DEF LeavesOf, EntryOf, SameEntry
<1>6. Fit(t)
  <2>1. \A r \in LoggedRounds(t) : r \in Nat /\ 1 <= r /\ EntryFit(t.log[r])
    BY <1>3 DEF Fit, Stabilized, CalculatedEntry, EntryOf, EntryFit
  <2> QED BY <1>2, <1>3, <2>1 DEF Fit, Stabilized
<1>7. Behind(s.oldState, t.oldState) /\ s.currentRound <= t.currentRound
  BY <1>2 DEF Fit, Stabilized, Behind, State, NoLeaf
<1> QED BY <1>2, <1>3, <1>4, <1>5, <1>6, <1>7
        DEF Works, Advances, SameOthers, Stabilized, Heard

\* The union of the entries up to a round, before and after a stabilization
\* that may have added an empty entry.
LEMMA StabilizedUnion ==
  ASSUME NEW s, Fit(s), NEW t, NEW R, NEW end, Stabilized(s, t, R, end),
         NEW r \in Nat
  PROVE  UnionTo(t, r) = UnionTo(s, r)
<1> DEFINE Q == LoggedRounds(s) \cap 0 .. r
           L == LeavesIn(s, Q)
           K == LeavesIn(t, LoggedRounds(t) \cap 0 .. r)
<1>1. \A q \in LoggedRounds(t) : t.log[q].leaves = EntryOf(s, q).leaves
  BY DEF Stabilized, CalculatedEntry
<1>2. \A q \in Q : t.log[q].leaves = s.log[q].leaves
  BY <1>1 DEF Stabilized, EntryOf
<1>3. L \in SUBSET State /\ IsFiniteSet(L)
  BY LeavesInType
<1>4. CASE end \in LoggedRounds(s) \/ end \notin 0 .. r
  <2>1. LoggedRounds(t) \cap 0 .. r = Q
    BY <1>4 DEF Stabilized
  <2> HIDE DEF Q
  <2>2. K = L
    BY <1>2, <2>1 DEF LeavesIn
  <2> QED BY <2>2 DEF UnionTo, Q
<1>5. CASE end \notin LoggedRounds(s) /\ end \in 0 .. r
  <2>1. LoggedRounds(t) \cap 0 .. r = Q \cup {end}
    BY <1>5 DEF Stabilized
  <2>2. t.log[end].leaves = EmptyState
    BY <1>1, <1>5 DEF Stabilized, EntryOf, NewEntry
  <2> HIDE DEF Q
  <2>3. K = L \cup {EmptyState}
    BY <1>2, <2>1, <2>2 DEF LeavesIn
  <2> HIDE DEF L, K
  <2>4. PlusAll(EmptyState, K) = PlusAll(EmptyState, L)
    BY <1>3, <2>3, EmptyAddsNothing
  <2> QED BY <2>4 DEF UnionTo, K, L, Q
<1> QED BY <1>4, <1>5

\* The old state is a union, and the entries after the stable round make it a
\* later one.
LEMMA UnionMore ==
  ASSUME NEW s, Fit(s), s.oldState = UnionTo(s, s.stableRound),
         NEW r \in Nat, s.stableRound <= r
  PROVE  OldStateWith(s, {q \in LoggedRounds(s) : s.stableRound < q /\ q <= r})
           = UnionTo(s, r)
<1> DEFINE Q == LoggedRounds(s) \cap 0 .. s.stableRound
           B == {q \in LoggedRounds(s) : s.stableRound < q /\ q <= r}
<1>1. LoggedRounds(s) \cap 0 .. r = Q \cup B
  BY DEF Fit
<1>2. LeavesIn(s, Q \cup B) = LeavesIn(s, Q) \cup LeavesIn(s, B)
  BY DEF LeavesIn
<1>3. /\ LeavesIn(s, Q) \in SUBSET State /\ IsFiniteSet(LeavesIn(s, Q))
      /\ LeavesIn(s, B) \in SUBSET State /\ IsFiniteSet(LeavesIn(s, B))
  <2>1. Q \subseteq LoggedRounds(s) /\ B \subseteq LoggedRounds(s)
    OBVIOUS
  <2> HIDE DEF Q, B
  <2> QED BY <2>1, LeavesInType
<1>4. s.oldState = PlusAll(EmptyState, LeavesIn(s, Q))
  BY DEF UnionTo
<1> HIDE DEF Q, B
<1>5. PlusAll(EmptyState, LeavesIn(s, Q) \cup LeavesIn(s, B))
        = PlusAll(s.oldState, LeavesIn(s, B))
  BY <1>3, <1>4, EmptyStateType, PlusAllTwice
<1>6. OldStateWith(s, B) = PlusAll(s.oldState, LeavesIn(s, B))
  BY DEF OldStateWith, LeavesIn
<1>7. UnionTo(s, r) = PlusAll(EmptyState, LeavesIn(s, Q \cup B))
  BY <1>1 DEF UnionTo
<1> QED BY <1>2, <1>5, <1>6, <1>7 DEF B

\* A later round becomes stable.
LEMMA StabilizedFurther ==
  ASSUME NEW n, NEW P, NEW s, Fit(s), Settled(s),
         NEW end \in Nat, s.stableRound < end, end <= s.currentRound, NEW R,
         \/ s.stableRound = 0 /\ s.lastRecoveryRound = end /\ R = {}
         \/ /\ s.stableRound # 0 \/ s.lastRecoveryRound = 0
            /\ R = {r \in LoggedRounds(s) : s.stableRound < r /\ r < end},
         NEW t, Stabilized(s, t, R, end)
  PROVE  Outcome(s, t, n, P) /\ Notes(s, t, n)
<1> DEFINE A == (R \cup {end}) \cap LoggedRounds(s)
<1>0. /\ s.stableRound \in Nat /\ s.lastRecoveryRound \in Nat
      /\ LoggedRounds(s) \subseteq Nat /\ A \subseteq LoggedRounds(s)
      /\ s.oldState \in State
      /\ LoggedRounds(t) = LoggedRounds(s) \cup {end}
  BY DEF Fit, Stabilized
<1>1. \A r \in LoggedRounds(t) : CalculatedEntry(s, R, end, r, t.log[r])
  BY DEF Stabilized
<1>2. ASSUME NEW r \in LoggedRounds(s), r <= s.stableRound
      PROVE  SameEntry(s.log[r], t.log[r])
  <2>1. r \notin R \cup {end} /\ EntryOf(s, r) = s.log[r]
    BY <1>0, <1>2 DEF EntryOf
  <2> QED BY <1>0, <1>1, <2>1 DEF CalculatedEntry, SameEntry
<1>3. Keeps(s, t)
  BY <1>0, <1>2 DEF Keeps
<1>4. Hears(s, t, n, P)
  <2>1. \A r \in LoggedRounds(t) : LeavesOf(t, r) = LeavesOf(s, r)
    BY <1>1 DEF CalculatedEntry, LeavesOf, EntryOf
  <2> QED BY <2>1 DEF Hears, Heard
<1>5. /\ t.oldState = PlusAll(s.oldState, LeavesIn(s, A)) /\ t.oldState \in State
      /\ Behind(s.oldState, t.oldState)
      /\ \A r \in A : Behind(s.log[r].leaves, t.oldState)
  <2>1. t.oldState = PlusAll(s.oldState, LeavesIn(s, A))
    BY DEF Stabilized, OldStateWith, LeavesIn
  <2>2. LeavesIn(s, A) \in SUBSET State /\ IsFiniteSet(LeavesIn(s, A))
    BY <1>0, LeavesInType
  <2>3. \A r \in A : s.log[r].leaves \in LeavesIn(s, A)
    BY DEF LeavesIn
  <2> HIDE DEF A
  <2> QED BY <1>0, <2>1, <2>2, <2>3, PlusAllType, PlusAllGrows
<1>6. /\ end \in LoggedRounds(t) /\ t.log[end].cd = {t.oldState}
      /\ Behind(t.log[end].leaves, t.oldState)
  <2>1. t.log[end].cd = {t.oldState} /\ t.log[end].leaves = EntryOf(s, end).leaves
    BY <1>0, <1>1 DEF CalculatedEntry, Stabilized
  <2>2. CASE end \in LoggedRounds(s)
    BY <1>0, <1>5, <2>1, <2>2 DEF EntryOf
  <2>3. CASE end \notin LoggedRounds(s)
    <3>1. t.log[end].leaves = EmptyState
      BY <2>1, <2>3 DEF EntryOf, NewEntry
    <3>2. t.oldState \in State
      BY <1>5
    <3>3. Behind(EmptyState, t.oldState)
      BY <3>2 DEF EmptyState, Behind, State, NoLeaf
    <3> QED BY <1>0, <2>1, <3>1, <3>3
  <2> QED BY <1>0, <2>1, <2>2, <2>3
<1>7. ASSUME s.lastRecoveryRound = 0
      PROVE  /\ t.oldState = UnionTo(t, end)
             /\ \A r \in LoggedRounds(t) : r <= end => t.log[r].cd = {UnionTo(t, r)}
  <2> DEFINE B(r) == {q \in LoggedRounds(s) : s.stableRound < q /\ q <= r}
  <2>1. R = {r \in LoggedRounds(s) : s.stableRound < r /\ r < end}
    BY <1>0, <1>7
  <2>2. A = B(end)
    <3>1. \A q \in LoggedRounds(s) : q \in R \cup {end} <=> q \in B(end)
      BY <1>0, <2>1
    <3> QED BY <1>0, <3>1
  <2>3. s.oldState = UnionTo(s, s.stableRound)
    BY <1>7 DEF Settled
  <2>4. \A r \in Nat : s.stableRound <= r
           => OldStateWith(s, B(r)) = UnionTo(t, r)
    BY <2>3, UnionMore, StabilizedUnion
  <2>5. t.oldState = UnionTo(t, end)
    <3>1. t.oldState = OldStateWith(s, A)
      BY DEF Stabilized
    <3> QED BY <1>0, <2>2, <2>4, <3>1
  <2>6. ASSUME NEW r \in LoggedRounds(t), r <= end
        PROVE  t.log[r].cd = {UnionTo(t, r)}
    <3>0. r \in Nat /\ CalculatedEntry(s, R, end, r, t.log[r])
      BY <1>0, <1>1
    <3>1. CASE r = end
      BY <1>6, <2>5, <3>1
    <3>2. CASE r # end /\ s.stableRound < r
      <4>1. r \in R /\ {q \in R : q <= r} = B(r)
        BY <1>0, <2>1, <2>6, <3>0, <3>2
      <4>2. t.log[r].cd = {OldStateWith(s, B(r))}
        BY <3>0, <3>2, <4>1 DEF CalculatedEntry
      <4> QED BY <1>0, <2>4, <3>0, <3>2, <4>2
    <3>3. CASE r <= s.stableRound
      <4>1. r \in LoggedRounds(s)
        BY <1>0, <3>3
      <4>2. t.log[r].cd = s.log[r].cd
        BY <1>2, <3>3, <4>1 DEF SameEntry
      <4>3. s.log[r].cd = {UnionTo(s, r)}
        BY <1>7, <3>3, <4>1 DEF Settled
      <4> QED BY <3>0, <4>2, <4>3, StabilizedUnion
    <3> QED BY <1>0, <3>0, <3>1, <3>2, <3>3
  <2> QED BY <2>5, <2>6
<1>8. Settled(t)
  BY <1>6, <1>7 DEF Settled, Stabilized
<1>9. ASSUME NEW x \in Node \ {n}, Noted(s, x) PROVE Noted(t, x)
  <2>0. t.state = s.state /\ s.state \in State
    BY DEF Stabilized, Fit
  <2>1. /\ t.state[x] = s.state[x] /\ t.state[x] \in Int
        /\ t.oldState[x] \in Int /\ s.oldState[x] \in Int
        /\ s.oldState[x] <= t.oldState[x]
    <3>1. t.oldState \in State /\ Behind(s.oldState, t.oldState)
      BY <1>5
    <3> HIDE DEF A
    <3> QED BY <1>0, <2>0, <3>1 DEF State, NoLeaf, Behind
  <2>2. CASE s.state[x] <= s.oldState[x]
    BY <2>1, <2>2 DEF Noted
  <2>3. ASSUME NEW r \in ToStabilize(s), s.state[x] <= s.log[r].leaves[x]
        PROVE  Noted(t, x)
    <3>0. /\ r \in LoggedRounds(s) /\ r \in Nat /\ r \in LoggedRounds(t)
          /\ s.log[r].leaves[x] \in Int
      BY <1>0 DEF ToStabilize, Fit, EntryFit, State, NoLeaf
    <3>1. CASE r <= end
      <4>1. r \in A
        <5>1. r \in R \/ r = end
          BY <1>0, <3>0, <3>1, <2>3 DEF ToStabilize
        <5> QED BY <3>0, <5>1
      <4>2. s.log[r].leaves[x] <= t.oldState[x]
        BY <1>5, <4>1 DEF Behind
      <4> QED BY <2>1, <2>3, <3>0, <4>2 DEF Noted
    <3>2. CASE end < r
      <4>1. r \in ToStabilize(t)
        BY <1>0, <3>0, <3>2 DEF ToStabilize, Stabilized
      <4>2. t.log[r].leaves = s.log[r].leaves
        BY <1>1, <3>0 DEF CalculatedEntry, EntryOf
      <4> QED BY <2>1, <2>3, <4>1, <4>2 DEF Noted
    <3> QED BY <3>0, <3>1, <3>2
  <2> QED BY <1>9, <2>2, <2>3 DEF Noted
<1>10. Fit(t)
  <2>1. \A r \in LoggedRounds(t) : r \in Nat /\ 1 <= r /\ EntryFit(t.log[r])
    <3> SUFFICES ASSUME NEW r \in LoggedRounds(t)
                 PROVE  r \in Nat /\ 1 <= r /\ EntryFit(t.log[r])
      OBVIOUS
    <3>1. r \in Nat /\ 1 <= r /\ EntryFit(EntryOf(s, r))
      BY <1>0, EmptyStateType DEF Fit, EntryFit, EntryOf, NewEntry
    <3> QED BY <1>1, <3>1 DEF CalculatedEntry, EntryFit
  <2>2. IsFiniteSet(LoggedRounds(t))
    BY <1>0, FS_AddElement DEF Fit
  <2>3. t.oldState \in State /\ t.currentRound \in Nat
    BY <1>5 DEF Stabilized, Fit
  <2> HIDE DEF A
  <2> QED BY <1>0, <2>1, <2>2, <2>3 DEF Stabilized, Fit
<1> QED BY <1>3, <1>4, <1>8, <1>9, <1>10
        DEF Outcome, Notes, NotedOthers, Stabilized

LEMMA GoodFit ==
  ASSUME NEW s, NEW n, Good(s, n)
  PROVE  Fit(s)
<1>1. s \in NodeType /\ RoundsOK(s) /\ Digested(s) /\ Answerable(s, n)
  BY DEF Good, Sound, Safe
<1>2. /\ Columns \subseteq DOMAIN s
      /\ s.currentRound \in Nat /\ s.stableRound \in Nat
      /\ s.lastRecoveryRound \in Nat /\ s.stabilizingRound \in Nat
      /\ s.state \in State /\ s.oldState \in State
  BY <1>1 DEF NodeType, Columns, Round
<1>3. /\ IsFiniteSet(LoggedRounds(s))
      /\ \A r \in LoggedRounds(s) : r \in Nat /\ s.log[r] \in Entry
  BY <1>1, LogFacts DEF Round
<1>4. \A r \in LoggedRounds(s) : 1 <= r /\ EntryFit(s.log[r])
  BY <1>1, <1>3 DEF Answerable, Entry, EntryFit
<1>5. /\ 1 <= s.currentRound /\ s.stableRound <= s.currentRound
      /\ s.currentRound \notin LoggedRounds(s) => s.stableRound < s.currentRound
  BY <1>1, <1>2 DEF RoundsOK, Digested
<1> QED BY <1>2, <1>3, <1>4, <1>5 DEF Fit

LEMMA WorksOutcome ==
  ASSUME NEW n, NEW P, NEW s, Fit(s), Settled(s), NEW t, Works(s, t, n)
  PROVE  Outcome(s, t, n, P) /\ Notes(s, t, n)
  BY AdvancesByMore, AdvancesSettled, WorksNotes

LEMMA SetStableStateOutcome ==
  ASSUME NEW n, NEW P, NEW s, Good(s, n), Settled(s)
  PROVE  Outcome(s, SetStableState(s), n, P) /\ Notes(s, SetStableState(s), n)
<1> DEFINE end == s.stabilizingRound
           R == Visited(s, The(InitRound(s)), end)
           t == SetStableState(s)
<1>1. /\ InitRound(s) # {} /\ end \in Nat /\ 1 <= end /\ s.stableRound <= end
      /\ s.stableRound = end => R = {}
      /\ \/ s.stableRound = 0 /\ s.lastRecoveryRound = end /\ R = {}
         \/ /\ s.stableRound # 0 \/ s.lastRecoveryRound = 0
            /\ R = {r \in LoggedRounds(s) : s.stableRound < r /\ r < end}
         \/ s.stableRound = end /\ s.stableRound # 0
  BY VisitedRounds
<1>2. Fit(s) /\ end <= s.currentRound /\ s.stableRound \in Nat
  BY GoodFit DEF Good, Sound, RoundsOK, Fit
<1>3. Stabilized(s, t, R, end)
  BY <1>1, <1>2, SetStableStateFacts
<1> HIDE DEF R, t, end
<1>4. CASE s.stableRound = end
  <2>1. s.stableRound # 0 /\ Stabilized(s, t, {}, s.stableRound)
    BY <1>1, <1>3, <1>4
  <2>2. Works(s, t, n)
    BY <1>2, <2>1, StabilizedAgain
  <2> QED BY <1>2, <2>2, WorksOutcome DEF t
<1>5. CASE s.stableRound # end
  <2>1. s.stableRound < end
    BY <1>1, <1>2, <1>5
  <2>2. \/ s.stableRound = 0 /\ s.lastRecoveryRound = end /\ R = {}
        \/ /\ s.stableRound # 0 \/ s.lastRecoveryRound = 0
           /\ R = {r \in LoggedRounds(s) : s.stableRound < r /\ r < end}
    BY <1>1, <1>5
  <2>3. Outcome(s, t, n, P) /\ Notes(s, t, n)
    BY <1>1, <1>2, <1>3, <2>1, <2>2, StabilizedFurther
  <2> QED BY <2>3 DEF t
<1> QED BY <1>4, <1>5

\* What runs after a method touches none of the members.
LEMMA OutcomeThen ==
  ASSUME NEW n, NEW P, NEW s, NEW t, Outcome(s, t, n, P), NEW u, Untouched(t, u)
  PROVE  /\ Outcome(s, u, n, P)
         /\ Notes(s, t, n) => Notes(s, u, n)
<1>1. /\ u.log = t.log /\ LoggedRounds(u) = LoggedRounds(t)
      /\ u.stableRound = t.stableRound /\ u.oldState = t.oldState
      /\ u.lastRecoveryRound = t.lastRecoveryRound /\ u.state = t.state
      /\ t.sentData \subseteq u.sentData
  BY DEF Untouched, LoggedRounds
<1>2. Fit(u)
  BY UntouchedWorks, WorksFit DEF Outcome
<1>3. \A r : UnionTo(u, r) = UnionTo(t, r) /\ LeavesOf(u, r) = LeavesOf(t, r)
  BY <1>1 DEF UnionTo, LeavesIn, LeavesOf, EntryOf
<1>4. Settled(u) /\ Keeps(s, u) /\ Hears(s, u, n, P)
  BY <1>1, <1>3 DEF Outcome, Settled, Keeps, Hears
<1>5. ToStabilize(u) = ToStabilize(t)
  BY <1>1 DEF ToStabilize
<1>6. NotedOthers(t, n) => NotedOthers(u, n)
  BY <1>1, <1>5 DEF NotedOthers, Noted
<1> QED BY <1>1, <1>2, <1>4, <1>6 DEF Outcome, Notes

\* What a method takes from its queue before it starts makes no difference.
LEMMA OutcomeAfter ==
  ASSUME NEW n, NEW P, NEW s, NEW t, Untouched(s, t), NEW u, Outcome(t, u, n, P)
  PROVE  /\ Outcome(s, u, n, P)
         /\ Notes(t, u, n) => Notes(s, u, n)
<1>1. /\ t.log = s.log /\ LoggedRounds(t) = LoggedRounds(s)
      /\ t.stableRound = s.stableRound /\ t.oldState = s.oldState
      /\ t.lastRecoveryRound = s.lastRecoveryRound /\ t.state = s.state
      /\ s.sentData \subseteq t.sentData
  BY DEF Untouched, LoggedRounds
<1>2. \A r : LeavesOf(t, r) = LeavesOf(s, r)
  BY <1>1 DEF LeavesOf, EntryOf
<1>3. ToStabilize(t) = ToStabilize(s)
  BY <1>1 DEF ToStabilize
<1>4. NotedOthers(s, n) => NotedOthers(t, n)
  BY <1>1, <1>3 DEF NotedOthers, Noted
<1> QED BY <1>1, <1>2, <1>4 DEF Outcome, Keeps, Hears, Notes

LEMMA UntouchedSettled ==
  ASSUME NEW n, NEW s, Fit(s), Settled(s), NEW t, Untouched(s, t)
  PROVE  Fit(t) /\ Settled(t)
  BY UntouchedWorks, WorksOutcome DEF Outcome

----------------------------------------------------------------------------
(* The group. *)

\* The leaves of others are those of packets.
Learned(s, n) ==
    \A r \in LoggedRounds(s) : \A x \in Node \ {n} :
        \/ s.log[r].leaves[x] = NoLeaf
        \/ \E d \in Packets : /\ d.session = x /\ d.round = r
                              /\ d.seq = s.log[r].leaves[x]

CInv == SInv /\ \A n \in Node : Settled(node[n]) /\ Learned(node[n], n)

\* What every step does to every node, and what all but one kind of step do.
Progress == \A m \in Node : Outcome(node[m], node'[m], m, Packets)
Noting == \A m \in Node : Notes(node[m], node'[m], m)

LEMMA NodeFit ==
  ASSUME SInv, NEW n \in Node
  PROVE  /\ Good(node[n], n) /\ Fit(node[n])
         /\ node[n].seqNo \in Nat /\ node[n].currentRound \in Nat
  BY GoodNode, GoodFit, NodeFacts DEF SInv, SeqNo

LEMMA BecomesProgress ==
  ASSUME CInv, NEW n \in Node, NEW t, Outcome(node[n], t, n, Packets),
         Becomes(n, t)
  PROVE  Progress /\ (Notes(node[n], t, n) => Noting)
<1>1. Untouched(t, After(t))
  BY RunDueEventsUntouched, OtherUntouched DEF Outcome, After
<1>2. /\ Outcome(node[n], After(t), n, Packets)
      /\ Notes(node[n], t, n) => Notes(node[n], After(t), n)
  BY <1>1, OutcomeThen
<1>3. \A m \in Node : /\ Outcome(node[m], node[m], m, Packets)
                      /\ Notes(node[m], node[m], m)
  BY NodeFit, ItselfWorks, WorksOutcome DEF CInv
<1>4. \A m \in Node : node'[m] = IF m = n THEN After(t) ELSE node[m]
  BY DEF CInv, SInv, IInv, Becomes
<1> QED BY <1>2, <1>3, <1>4 DEF Progress, Noting

\* A method that neither stabilizes nor recovers, once its event is taken.
LEMMA WorksProgress ==
  ASSUME CInv, NEW n \in Node, NEW s, Untouched(node[n], s),
         NEW t, Works(s, t, n), Becomes(n, t)
  PROVE  Progress /\ Noting
<1>1. Fit(s) /\ Settled(s)
  BY NodeFit, UntouchedSettled DEF CInv
<1>2. Outcome(s, t, n, Packets) /\ Notes(s, t, n)
  BY <1>1, WorksOutcome
<1>3. Outcome(node[n], t, n, Packets) /\ Notes(node[n], t, n)
  BY <1>2, OutcomeAfter
<1> QED BY <1>3, BecomesProgress

LEMMA UntouchedProgress ==
  ASSUME CInv, NEW n \in Node, NEW s, Untouched(node[n], s),
         NEW t, Untouched(s, t), Becomes(n, t)
  PROVE  Progress /\ Noting
<1>1. Works(s, t, n)
  BY NodeFit, UntouchedSettled, UntouchedWorks DEF CInv
<1> QED BY <1>1, WorksProgress

LEMMA SchedulerProgress ==
  ASSUME CInv, NEW n \in Node
  PROVE  /\ Publish(n) => Progress /\ Noting
         /\ Fish(n) => Progress /\ Noting
         /\ Reexpress(n) => Progress /\ Noting
         /\ Announce(n) => Progress /\ Noting
         /\ SyncRound(n) => Progress /\ Noting
         /\ Stabilize(n) => Progress /\ Noting
         /\ ReportCumulative(n) => Progress /\ Noting
         /\ RetryRecovery(n) => Progress /\ Noting
         /\ AskRecovery(n) => Progress /\ Noting
<1> DEFINE s == node[n]
<1>0. /\ Good(s, n) /\ Fit(s) /\ Settled(s) /\ Untouched(s, s)
      /\ s.seqNo + 1 \in SeqNo /\ s.currentRound \in Nat
  <2>1. /\ Good(s, n) /\ Fit(s) /\ Settled(s)
        /\ s.seqNo \in Nat /\ s.currentRound \in Nat
    BY NodeFit DEF CInv
  <2> HIDE DEF s
  <2>2. Untouched(s, s)
    BY <2>1, OtherUntouched
  <2> QED BY <2>1, <2>2 DEF SeqNo
<1>u. ASSUME NEW t, Untouched(s, t) PROVE Fit(t)
  BY <1>0, <1>u, UntouchedSettled
<1>1. ASSUME Publish(n) PROVE Progress /\ Noting
  <2>1. Works(s, UpdateSeqNo(s, n, s.seqNo + 1), n)
    BY <1>0, UpdateSeqNoWorks
  <2> QED BY <1>0, <1>1, <2>1, WorksProgress DEF Publish
<1>2. ASSUME Fish(n) PROVE Progress /\ Noting
  <2>1. PICK f \in s.fish :
           Becomes(n, SendDataInterest([s EXCEPT !.fish = @ \ {f}], {f},
                                       partitioned))
    BY <1>2 DEF Fish
  <2> DEFINE t == [s EXCEPT !.fish = @ \ {f}]
  <2>2. Untouched(s, t)
    BY <1>0, OtherUntouched
  <2> HIDE DEF t
  <2>3. Untouched(t, SendDataInterest(t, {f}, partitioned))
    BY <1>u, <2>2, InterestsOutUntouched
  <2> QED BY <2>1, <2>2, <2>3, UntouchedProgress DEF t
<1>3. ASSUME Reexpress(n) PROVE Progress /\ Noting
  <2> DEFINE t == [s EXCEPT !.reexpress = 0]
             f == [round |-> s.reexpress, retries |-> 1]
  <2>1. Becomes(n, SendDataInterest(t, {f}, partitioned))
    BY <1>3 DEF Reexpress
  <2>2. Untouched(s, t)
    BY <1>0, OtherUntouched
  <2> HIDE DEF t, f
  <2>3. Untouched(t, SendDataInterest(t, {f}, partitioned))
    BY <1>u, <2>2, InterestsOutUntouched
  <2> QED BY <2>1, <2>2, <2>3, UntouchedProgress
<1>4. ASSUME Announce(n) PROVE Progress /\ Noting
  <2>1. PICK r \in s.announce :
           Becomes(n, SendSyncInterest([s EXCEPT !.announce = @ \ {r}], {r},
                                       partitioned))
    BY <1>4 DEF Announce
  <2> DEFINE t == [s EXCEPT !.announce = @ \ {r}]
  <2>2. Untouched(s, t)
    BY <1>0, OtherUntouched
  <2> HIDE DEF t
  <2>3. Untouched(t, SendSyncInterest(t, {r}, partitioned))
    BY <1>u, <2>2, InterestsOutUntouched
  <2> QED BY <2>1, <2>2, <2>3, UntouchedProgress DEF t
<1>5. ASSUME SyncRound(n) PROVE Progress /\ Noting
  <2>1. PICK r \in s.syncDue :
           Becomes(n, SendSyncInterest([s EXCEPT !.syncDue = @ \ {r}], {r},
                                       partitioned))
    BY <1>5 DEF SyncRound
  <2> DEFINE t == [s EXCEPT !.syncDue = @ \ {r}]
  <2>2. Untouched(s, t)
    BY <1>0, OtherUntouched
  <2> HIDE DEF t
  <2>3. Untouched(t, SendSyncInterest(t, {r}, partitioned))
    BY <1>u, <2>2, InterestsOutUntouched
  <2> QED BY <2>1, <2>2, <2>3, UntouchedProgress DEF t
<1>6. ASSUME Stabilize(n) PROVE Progress /\ Noting
  <2>1. /\ Outcome(s, SetStableState(s), n, Packets)
        /\ Notes(s, SetStableState(s), n)
    BY <1>0, SetStableStateOutcome
  <2> QED BY <1>6, <2>1, BecomesProgress DEF Stabilize
<1>7. ASSUME ReportCumulative(n) PROVE Progress /\ Noting
  <2>1. PICK e \in s.produce :
           Becomes(n, ProduceCumulativeOnly([s EXCEPT !.produce = @ \ {e}],
                                            n, e.round, e.cd))
    BY <1>7 DEF ReportCumulative
  <2> DEFINE t == [s EXCEPT !.produce = @ \ {e}]
  <2>2. Untouched(s, t)
    BY <1>0, OtherUntouched
  <2> HIDE DEF t
  <2>3. Works(t, ProduceCumulativeOnly(t, n, e.round, e.cd), n)
    BY <1>u, <2>2, ProduceCumulativeOnlyWorks
  <2> QED BY <2>1, <2>2, <2>3, WorksProgress DEF t
<1>8. ASSUME RetryRecovery(n) PROVE Progress /\ Noting
  <2>1. PICK e \in s.retry :
           Becomes(n, CheckRecovery([s EXCEPT !.retry = @ \ {e}],
                                    e.from, e.round, e.cd))
    BY <1>8 DEF RetryRecovery
  <2> DEFINE t == [s EXCEPT !.retry = @ \ {e}]
  <2>2. Untouched(s, t)
    BY <1>0, OtherUntouched
  <2> HIDE DEF t
  <2>3. Untouched(t, CheckRecovery(t, e.from, e.round, e.cd))
    BY <1>u, <2>2, RecoveryUntouched
  <2> QED BY <2>1, <2>2, <2>3, UntouchedProgress DEF t
<1>9. ASSUME AskRecovery(n) PROVE Progress /\ Noting
  <2>1. PICK u \in s.recoDue :
           Becomes(n, SendRecoInterest([s EXCEPT !.recoDue = @ \ {u}], {u},
                                       partitioned))
    BY <1>9 DEF AskRecovery
  <2> DEFINE t == [s EXCEPT !.recoDue = @ \ {u}]
  <2>2. Untouched(s, t)
    BY <1>0, OtherUntouched
  <2> HIDE DEF t
  <2>3. Untouched(t, SendRecoInterest(t, {u}, partitioned))
    BY <1>u, <2>2, InterestsOutUntouched
  <2> QED BY <2>1, <2>2, <2>3, UntouchedProgress DEF t
<1> QED BY <1>1, <1>2, <1>3, <1>4, <1>5, <1>6, <1>7, <1>8, <1>9

\* Data is handed to a callback that publishes in the round of the data, while
\* that is the current one.
AnswersInItsRound(n) ==
    \E i \in node[n].face, d \in Packets :
        d.round = node[n].currentRound /\ DataArrivesAndPublish(n, i, d)

LEMMA DataProgress ==
  ASSUME CInv, NEW n \in Node
  PROVE  /\ ReceiveData(n) => Progress /\ Noting
         /\ ReceiveDataAndPublish(n) =>
              Progress /\ (~AnswersInItsRound(n) => Noting)
<1> DEFINE s == node[n]
<1>0. /\ Fit(s) /\ Settled(s) /\ s.seqNo \in Nat /\ s.currentRound \in Nat
      /\ Good(s, n) /\ s \in NodeType /\ RoundsOK(s)
  BY NodeFit DEF CInv, Good, Sound
<1>1. ASSUME NEW i \in s.face, NEW d \in Packets, DataArrives(n, i, d)
      PROVE  Progress /\ Noting
  <2> DEFINE t == [s EXCEPT !.face = @ \ {i}]
  <2>1. Becomes(n, IF partitioned THEN t ELSE ProcessData(t, d))
    BY <1>1 DEF DataArrives
  <2>2. Untouched(s, t)
    BY <1>0, OtherUntouched
  <2> HIDE DEF t
  <2>3. d \in Packet /\ 1 <= d.round /\ Fit(t) /\ Settled(t)
    BY <1>0, <2>2, PacketFacts, UntouchedSettled DEF CInv
  <2>4. CASE partitioned \/ TooOld(t, d)
    <3>1. Becomes(n, t) /\ Untouched(t, t)
      BY <2>1, <2>3, <2>4, OtherUntouched DEF ProcessData
    <3> QED BY <2>2, <3>1, UntouchedProgress
  <2>5. CASE ~partitioned /\ ~TooOld(t, d)
    <3> DEFINE u == ProcessData(t, d)
    <3>1. Logged(t, u, d, n, Packets) /\ Becomes(n, u)
      BY <2>1, <2>3, <2>5, ProcessDataLogged
    <3> HIDE DEF u
    <3>2. Outcome(t, u, n, Packets)
      BY <2>3, <3>1, AdvancesSettled DEF Logged
    <3>3. Notes(t, u, n)
      BY <2>3, <3>1, LoggedNotes
    <3>4. Outcome(s, u, n, Packets) /\ Notes(s, u, n)
      BY <2>2, <3>2, <3>3, OutcomeAfter
    <3> QED BY <3>1, <3>4, BecomesProgress
  <2> QED BY <2>4, <2>5
<1>2. ASSUME NEW i \in s.face, NEW d \in Packets, DataArrivesAndPublish(n, i, d)
      PROVE  Progress /\ (~AnswersInItsRound(n) => Noting)
  <2> DEFINE t == [s EXCEPT !.face = @ \ {i}]
             u == ProcessDataPublishing(t, n, d)
  <2>1. /\ Becomes(n, u) /\ Notifies(t, d) /\ d.round = i.round
    BY <1>2 DEF DataArrivesAndPublish, Answers
  <2>2. Untouched(s, t) /\ t.currentRound = s.currentRound /\ t.seqNo = s.seqNo
    BY <1>0, OtherUntouched DEF NodeType
  <2> HIDE DEF t
  <2>3. /\ d \in Packet /\ 1 <= d.round /\ Fit(t) /\ Settled(t)
        /\ ~TooOld(t, d)
    BY <1>0, <2>1, <2>2, PacketFacts, UntouchedSettled DEF CInv, Notifies
  <2>4. d.round \in Nat /\ d.round <= s.currentRound
    BY <1>0, <2>1, <2>3 DEF RoundsOK, Packet, Round
  <2>5. /\ Advances(t, u, n, Packets)
        /\ d.round < t.currentRound => Logged(t, u, d, n, Packets)
    BY <1>0, <2>2, <2>3, ProcessDataPublishingAdvances
  <2> HIDE DEF u
  <2>6. Outcome(t, u, n, Packets)
    BY <2>3, <2>5, AdvancesSettled
  <2>7. ~AnswersInItsRound(n) => Notes(t, u, n)
    <3>1. ~AnswersInItsRound(n) => d.round # s.currentRound
      BY <1>2 DEF AnswersInItsRound
    <3>2. d.round # s.currentRound => d.round < t.currentRound
      BY <1>0, <2>2, <2>4
    <3> QED BY <2>3, <2>5, <3>1, <3>2, LoggedNotes
  <2>8. /\ Outcome(s, u, n, Packets)
        /\ Notes(t, u, n) => Notes(s, u, n)
    BY <2>2, <2>6, OutcomeAfter
  <2> QED BY <2>1, <2>7, <2>8, BecomesProgress
<1> QED BY <1>1, <1>2 DEF ReceiveData, ReceiveDataAndPublish

LEMMA NetworkProgress ==
  ASSUME CInv, NEW n \in Node
  PROVE  /\ ReceiveDataInterest(n) => Progress /\ Noting
         /\ ReceiveSyncInterest(n) => Progress /\ Noting
         /\ ReceiveRecoInterest(n) => Progress /\ Noting
         /\ ReceiveRecoData(n) => Progress /\ Noting
         /\ ReceiveRecoDataAndPublish(n) => Progress /\ Noting
<1> DEFINE s == node[n]
<1>0. /\ IInv /\ Fit(s) /\ Settled(s) /\ s.seqNo \in Nat /\ s.currentRound \in Nat
      /\ Good(s, n) /\ s \in NodeType
  BY NodeFit DEF CInv, Good, Sound, SInv
<1>u. ASSUME NEW t, Untouched(s, t) PROVE Fit(t)
  BY <1>0, <1>u, UntouchedSettled
<1>s. Untouched(s, s)
  BY <1>0, OtherUntouched
<1>1. ASSUME ReceiveDataInterest(n) PROVE Progress /\ Noting
  <2>1. PICK m \in Node : \E r \in node[m].asked :
           Becomes(n, ProcessDataInterest(s, n, r))
    BY <1>1 DEF ReceiveDataInterest, DataInterestArrives
  <2>2. PICK r \in Round : Becomes(n, ProcessDataInterest(s, n, r))
    BY <1>0, <2>1, NodeFacts
  <2>3. Works(s, ProcessDataInterest(s, n, r), n)
    BY <1>0, ProcessDataInterestWorks DEF Round
  <2> QED BY <1>s, <2>2, <2>3, WorksProgress
<1>2. ASSUME ReceiveSyncInterest(n) PROVE Progress /\ Noting
  <2>1. PICK m \in Node : \E i \in node[m].sentSync :
           Becomes(n, ProcessSyncInterest(s, i.round, i.rd))
    BY <1>2 DEF ReceiveSyncInterest, SyncInterestArrives
  <2>2. PICK i \in SyncInterest : Becomes(n, ProcessSyncInterest(s, i.round, i.rd))
    BY <1>0, <2>1, NodeFacts
  <2>3. i.round \in Nat
    BY DEF SyncInterest, Round
  <2>4. Untouched(s, ProcessSyncInterest(s, i.round, i.rd))
    BY <1>0, <2>3, InterestsInUntouched
  <2> QED BY <1>s, <2>2, <2>4, UntouchedProgress
<1>3. ASSUME ReceiveRecoInterest(n) PROVE Progress /\ Noting
  <2>1. Untouched(s, ProcessRecoInterest(s))
    BY <1>0, InterestsInUntouched
  <2> QED BY <1>s, <1>3, <2>1, UntouchedProgress DEF ReceiveRecoInterest
<1>4. ASSUME ReceiveRecoData(n) PROVE Progress /\ Noting
  <2>1. PICK u \in s.recoFace : \E p \in node[u].sentReco :
           Becomes(n, IF partitioned THEN [s EXCEPT !.recoFace = @ \ {u}]
                      ELSE ProcessRecoData([s EXCEPT !.recoFace = @ \ {u}],
                                           u, p.round, p.state))
    BY <1>4 DEF ReceiveRecoData
  <2> DEFINE t == [s EXCEPT !.recoFace = @ \ {u}]
  <2>2. u \in Node /\ s.currentRound >= 2
    BY <1>0, NodeFacts, RecoveryAfterRoundOne
  <2>3. PICK p \in RecoData :
           Becomes(n, IF partitioned THEN t
                      ELSE ProcessRecoData(t, u, p.round, p.state))
    BY <1>0, <2>1, <2>2, NodeFacts
  <2>4. Untouched(s, t) /\ t.currentRound = s.currentRound
    BY <1>0, OtherUntouched DEF NodeType
  <2>5. p.round \in Nat /\ p.state \in State
    BY DEF RecoData, Round
  <2> HIDE DEF t
  <2>6. Fit(t) /\ Untouched(t, t)
    BY <1>u, <2>4, OtherUntouched
  <2>7. CASE partitioned
    BY <2>3, <2>4, <2>6, <2>7, UntouchedProgress
  <2>8. CASE ~partitioned
    <3> DEFINE v == ProcessRecoData(t, u, p.round, p.state)
    <3>1. Outcome(t, v, n, Packets) /\ Notes(t, v, n)
      BY <2>2, <2>4, <2>5, <2>6, ProcessRecoDataOutcome
    <3>2. Becomes(n, v)
      BY <2>3, <2>8
    <3> HIDE DEF v
    <3> QED BY <2>4, <3>1, <3>2, OutcomeAfter, BecomesProgress
  <2> QED BY <2>7, <2>8
<1>5. ASSUME ReceiveRecoDataAndPublish(n) PROVE Progress /\ Noting
  <2>1. PICK u \in s.recoFace : \E p \in node[u].sentReco :
           Becomes(n, ProcessRecoDataPublishing([s EXCEPT !.recoFace = @ \ {u}],
                                                n, u, p.round, p.state))
    BY <1>5 DEF ReceiveRecoDataAndPublish
  <2> DEFINE t == [s EXCEPT !.recoFace = @ \ {u}]
  <2>2. u \in Node /\ s.currentRound >= 2
    BY <1>0, NodeFacts, RecoveryAfterRoundOne
  <2>3. PICK p \in RecoData :
           Becomes(n, ProcessRecoDataPublishing(t, n, u, p.round, p.state))
    BY <1>0, <2>1, <2>2, NodeFacts
  <2>4. Untouched(s, t) /\ t.currentRound = s.currentRound /\ t.seqNo = s.seqNo
    BY <1>0, OtherUntouched DEF NodeType
  <2>5. p.round \in Nat /\ p.state \in State
    BY DEF RecoData, Round
  <2> HIDE DEF t
  <2>6. Fit(t)
    BY <1>u, <2>4
  <2> DEFINE v == ProcessRecoDataPublishing(t, n, u, p.round, p.state)
  <2>7. Outcome(t, v, n, Packets) /\ Notes(t, v, n)
    BY <1>0, <2>2, <2>4, <2>5, <2>6, ProcessRecoDataPublishingOutcome
  <2> HIDE DEF v
  <2>8. Becomes(n, v)
    BY <2>3 DEF v
  <2> QED BY <2>4, <2>7, <2>8, OutcomeAfter, BecomesProgress
<1> QED BY <1>1, <1>2, <1>3, <1>4, <1>5

LEMMA TimeoutsProgress ==
  ASSUME CInv, NEW n \in Node
  PROVE  /\ DataInterestTimeout(n) => Progress /\ Noting
         /\ RecoInterestTimeout(n) => Progress /\ Noting
<1> DEFINE s == node[n]
<1>0. Fit(s) /\ Settled(s)
  BY NodeFit DEF CInv
<1>u. ASSUME NEW t, Untouched(s, t) PROVE Fit(t)
  BY <1>0, <1>u, UntouchedSettled
<1>1. ASSUME DataInterestTimeout(n) PROVE Progress /\ Noting
  <2>1. PICK i \in s.face :
           Becomes(n, OnDataInterestTimeout([s EXCEPT !.face = @ \ {i}], i))
    BY <1>1 DEF DataInterestTimeout, DataInterestExpires
  <2> DEFINE t == [s EXCEPT !.face = @ \ {i}]
  <2>2. Untouched(s, t)
    BY <1>0, OtherUntouched
  <2> HIDE DEF t
  <2>3. Untouched(t, OnDataInterestTimeout(t, i))
    BY <1>u, <2>2, TimeoutsUntouched
  <2> QED BY <2>1, <2>2, <2>3, UntouchedProgress DEF t
<1>2. ASSUME RecoInterestTimeout(n) PROVE Progress /\ Noting
  <2>1. PICK u \in s.recoFace :
           Becomes(n, OnRecoInterestTimeout([s EXCEPT !.recoFace = @ \ {u}], u))
    BY <1>2 DEF RecoInterestTimeout
  <2> DEFINE t == [s EXCEPT !.recoFace = @ \ {u}]
  <2>2. Untouched(s, t)
    BY <1>0, OtherUntouched
  <2> HIDE DEF t
  <2>3. Untouched(t, OnRecoInterestTimeout(t, u))
    BY <1>u, <2>2, TimeoutsUntouched
  <2> QED BY <2>1, <2>2, <2>3, UntouchedProgress DEF t
<1> QED BY <1>1, <1>2

LEMMA NextProgress ==
  ASSUME CInv, [Next]_vars
  PROVE  /\ Progress
         /\ (\A n \in Node : ~AnswersInItsRound(n)) => Noting
<1>1. ASSUME UNCHANGED node PROVE Progress /\ Noting
  <2>1. \A m \in Node : /\ Outcome(node[m], node[m], m, Packets)
                        /\ Notes(node[m], node[m], m)
    BY NodeFit, ItselfWorks, WorksOutcome DEF CInv
  <2> QED BY <1>1, <2>1 DEF Progress, Noting
<1>2. CASE UNCHANGED vars
  BY <1>1, <1>2 DEF vars
<1>3. CASE OutOfTimers
  BY <1>1, <1>3 DEF OutOfTimers, vars
<1>4. ASSUME NEW n \in Node, StartPartition(n) \/ StopPartition(n)
      PROVE  Progress /\ Noting
  BY <1>1, <1>4 DEF StartPartition, StopPartition
<1>5. ASSUME NEW n \in Node, ReceiveDataAndPublish(n)
      PROVE  Progress /\ ((\A m \in Node : ~AnswersInItsRound(m)) => Noting)
  BY <1>5, DataProgress
<1> QED BY <1>2, <1>3, <1>4, <1>5, SchedulerProgress, DataProgress,
           NetworkProgress, TimeoutsProgress DEF Next

LEMMA CInvInitially == Init => CInv
<1> SUFFICES ASSUME Init PROVE CInv
  OBVIOUS
<1>1. SInv
  BY SInvInitially
<1> DEFINE s == InitialNode
<1>2. /\ s.stableRound = 0 /\ s.oldState = EmptyState /\ LoggedRounds(s) = {}
  BY DEF InitialNode, LoggedRounds
<1> HIDE DEF s
<1>3. LeavesIn(s, LoggedRounds(s) \cap 0 .. 0) = {}
  BY <1>2 DEF LeavesIn
<1>4. PlusAll(EmptyState, {}) = EmptyState
  BY EmptyStateType, FS_EmptySet, PlusAllAbsorbs
<1>5. Settled(s)
  BY <1>2, <1>3, <1>4 DEF Settled, UnionTo
<1>6. \A n \in Node : node[n] = s
  BY DEF Init, s
<1>7. ASSUME NEW n \in Node PROVE Settled(node[n]) /\ Learned(node[n], n)
  BY <1>2, <1>5, <1>6 DEF Learned
<1> QED BY <1>1, <1>7 DEF CInv

LEMMA ProgressLearned ==
  ASSUME CInv, Progress
  PROVE  \A n \in Node : Learned(node[n], n)'
<1>1. \A d \in Packets : d \in Packets'
  BY DEF Packets, Progress, Outcome
<1>2. ASSUME NEW n \in Node, NEW r \in LoggedRounds(node'[n]),
             NEW x \in Node \ {n}
      PROVE  LET q == node'[n].log[r].leaves[x]
             IN  \/ q = NoLeaf
                 \/ \E d \in Packets' :
                      d.session = x /\ d.round = r /\ d.seq = q
  <2> DEFINE p == LeavesOf(node[n], r)[x]
             q == node'[n].log[r].leaves[x]
  <2>1. Heard(p, q, x, r, Packets)
    <3>1. LeavesOf(node'[n], r)[x] = q
      BY <1>2 DEF LeavesOf, EntryOf
    <3>2. Hears(node[n], node'[n], n, Packets)
      BY DEF Progress, Outcome
    <3> QED BY <1>2, <3>1, <3>2 DEF Hears
  <2>2. \/ p = NoLeaf
        \/ \E d \in Packets : d.session = x /\ d.round = r /\ d.seq = p
    <3>1. CASE r \in LoggedRounds(node[n])
      BY <3>1 DEF CInv, Learned, LeavesOf, EntryOf
    <3>2. CASE r \notin LoggedRounds(node[n])
      BY <3>2 DEF LeavesOf, EntryOf, NewEntry, EmptyState
    <3> QED BY <3>1, <3>2
  <2> HIDE DEF p, q
  <2>3. \/ q = NoLeaf
        \/ \E d \in Packets : d.session = x /\ d.round = r /\ d.seq = q
    BY <2>1, <2>2 DEF Heard
  <2> QED BY <1>1, <2>3 DEF q
<1> QED BY <1>2 DEF Learned, LoggedRounds

LEMMA NextKeepsCInv == CInv /\ [Next]_vars => CInv'
<1> SUFFICES ASSUME CInv, [Next]_vars PROVE CInv'
  OBVIOUS
<1>1. SInv'
  BY NextKeepsSInv DEF CInv
<1>2. Progress
  BY NextProgress
<1>3. ASSUME NEW n \in Node PROVE Settled(node[n])'
  <2>1. Settled(node'[n])
    BY <1>2 DEF Progress, Outcome
  <2> QED BY <2>1 DEF Settled, UnionTo, LeavesIn, LoggedRounds, Behind, PlusAll
<1> QED BY <1>1, <1>2, <1>3, ProgressLearned DEF CInv

LEMMA CInvAlways == Spec => []CInv
<1> QED BY CInvInitially, NextKeepsCInv, PTL DEF Spec

\* What is stable stays, until the node recovers (logic.hpp:699-700): no data,
\* no publication, no report and no later stabilization changes the leaves or
\* the digests of a stable round.
THEOREM StableRoundsAreKept == Spec => StableKept
<1>1. CInv /\ [Next]_vars =>
        [\A n \in Node : \A r \in LoggedRounds(node[n]) :
            LET e == node[n].log[r]
                f == node'[n].log[r]
            IN  r <= node[n].stableRound /\ node'[n].stableRound # 0
                  => /\ r \in LoggedRounds(node'[n])
                     /\ f.leaves = e.leaves /\ f.rd = e.rd /\ f.cd = e.cd]_vars
  BY NextProgress DEF Progress, Outcome, Keeps, SameEntry
<1> QED BY <1>1, CInvAlways, PTL DEF Spec, StableKept

\* Until a node recovers, the cumulative digest of a stable round is that of
\* the union of its entries up to the round (787-806), however the rounds were
\* gathered into stabilizations.
THEOREM CumulativeDigestsAreUnions == Spec => []CumulativeIsUnion
<1>1. CInv => CumulativeIsUnion
  BY DEF CInv, Settled, UnionTo, LeavesIn, CumulativeIsUnion
<1> QED BY <1>1, CInvAlways, PTL

\* The logs of two nodes agree on what a session sent for a round, or one of
\* them has missed it (837-847): each holds what it received, of a round the
\* session used once.
THEOREM LogsNeverDisagree == Spec => []LogsAgree
<1>1. CInv => LogsAgree
  <2> SUFFICES ASSUME CInv, NEW n \in Node, NEW m \in Node,
                      NEW r \in LoggedRounds(node[n]) \cap LoggedRounds(node[m]),
                      NEW x \in Node
               PROVE  LET p == node[n].log[r].leaves[x]
                          q == node[m].log[r].leaves[x]
                      IN  p = q \/ p = NoLeaf \/ q = NoLeaf
    BY DEF LogsAgree
  <2> DEFINE Leaf(k) == node[k].log[r].leaves[x]
  <2>1. ASSUME NEW k \in {n, m}, k # x
        PROVE  \/ Leaf(k) = NoLeaf
               \/ \E d \in node[x].sentData : d.round = r /\ d.seq = Leaf(k)
    <3>1. \/ Leaf(k) = NoLeaf
          \/ \E d \in Packets : d.session = x /\ d.round = r /\ d.seq = Leaf(k)
      BY <2>1 DEF CInv, Learned
    <3>2. \A d \in Packets : d.session = x => d \in node[x].sentData
      BY PacketFacts DEF CInv
    <3> QED BY <3>1, <3>2
  <2>2. ASSUME NEW k \in {n, m}, k = x, NEW d \in node[x].sentData, d.round = r
        PROVE  Leaf(k) = d.seq \/ Leaf(k) = NoLeaf
    <3>1. OwnLeaf(node[k], k, r) = Leaf(k)
      BY <2>2 DEF OwnLeaf, EntryOf
    <3> QED BY <2>2, <3>1 DEF CInv, SInv, Safe, SentOK
  <2>3. \A d, e \in node[x].sentData : d.round = e.round => d.seq = e.seq
    BY DEF CInv, SInv, Safe, SentOK
  <2>4. n = x /\ m = x => Leaf(n) = Leaf(m)
    OBVIOUS
  <2> HIDE DEF Leaf
  <2>5. Leaf(n) = Leaf(m) \/ Leaf(n) = NoLeaf \/ Leaf(m) = NoLeaf
    BY <2>1, <2>2, <2>3, <2>4
  <2> QED BY <2>5 DEF Leaf
<1> QED BY <1>1, CInvAlways, PTL

\* The invariant of the runs in which no callback publishes in that round.
NotingAlways ==
    /\ \A n \in Node : NotedOthers(node[n], n)
    /\ CInv

\* What a node knows of another session is in its old state or in an entry that
\* is still to be stabilized, so it reaches the digests (738-761, 1396-1402);
\* as long as no callback publishes in the round of the data it is told of
\* (1256-1268): then the publication takes the round, and the data stays out of
\* the log.
THEOREM KnowledgeOfOthersIsAccounted ==
  Spec /\ [][\A n \in Node : ~AnswersInItsRound(n)]_vars => []OthersAccounted
<1>1. Init => NotingAlways
  <2> SUFFICES ASSUME Init PROVE NotingAlways
    OBVIOUS
  <2>1. \A x \in Node : EmptyState[x] <= EmptyState[x]
    BY DEF EmptyState, NoLeaf
  <2>2. InitialNode.state = EmptyState /\ InitialNode.oldState = EmptyState
    BY DEF InitialNode
  <2> QED BY <2>1, <2>2, CInvInitially DEF NotingAlways, NotedOthers, Noted, Init
<1>2. /\ NotingAlways /\ [Next]_vars
      /\ [\A n \in Node : ~AnswersInItsRound(n)]_vars
      => NotingAlways'
  <2> SUFFICES ASSUME NotingAlways, [Next]_vars,
                      [\A n \in Node : ~AnswersInItsRound(n)]_vars
               PROVE  NotingAlways'
    OBVIOUS
  <2>1. CInv'
    BY NextKeepsCInv DEF NotingAlways
  <2>2. \A n \in Node : NotedOthers(node'[n], n)
    <3>1. CASE UNCHANGED vars
      BY <3>1 DEF vars, NotingAlways
    <3>2. CASE \A n \in Node : ~AnswersInItsRound(n)
      BY <3>2, NextProgress DEF NotingAlways, Noting, Notes
    <3> QED BY <3>1, <3>2
  <2>3. (\A n \in Node : NotedOthers(node[n], n))'
    BY <2>2 DEF NotedOthers, Noted, ToStabilize, LoggedRounds
  <2> QED BY <2>1, <2>3 DEF NotingAlways
<1>3. NotingAlways => OthersAccounted
  <2> SUFFICES ASSUME NotingAlways, NEW n \in Node, NEW x \in Node \ {n}
               PROVE  Accounted(node[n], x)
    BY DEF OthersAccounted
  <2> DEFINE s == node[n]
             R == ToStabilize(s)
             u == PlusAll(s.oldState, LeavesIn(s, R))
  <2>1. Fit(s) /\ Noted(s, x)
    BY NodeFit DEF NotingAlways, CInv, NotedOthers
  <2>2. R \in SUBSET LoggedRounds(s)
    BY DEF ToStabilize
  <2> HIDE DEF R, s
  <2>3. /\ LeavesIn(s, R) \in SUBSET State /\ IsFiniteSet(LeavesIn(s, R))
        /\ \A r \in R : s.log[r].leaves \in LeavesIn(s, R)
    BY <2>1, <2>2, LeavesInType DEF LeavesIn
  <2>4. /\ s.oldState[x] <= u[x] /\ \A r \in R : s.log[r].leaves[x] <= u[x]
        /\ u \in State
    BY <2>1, <2>3, PlusAllGreatest, PlusAllType DEF Fit
  <2>5. /\ s.state[x] \in Int /\ s.oldState[x] \in Int /\ u[x] \in Int
        /\ \A r \in R : s.log[r].leaves[x] \in Int
    BY <2>1, <2>2, <2>4 DEF Fit, EntryFit, State, NoLeaf
  <2> HIDE DEF u
  <2>6. s.state[x] <= u[x]
    BY <2>1, <2>4, <2>5 DEF Noted, R
  <2>7. OldStateWith(s, R) = u
    BY DEF OldStateWith, LeavesIn, u
  <2> QED BY <2>6, <2>7 DEF Accounted, R, s
<1> QED BY <1>1, <1>2, <1>3, PTL DEF Spec
=============================================================================
