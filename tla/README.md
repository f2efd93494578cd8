# RoundSync in TLA+

RoundSync is a synchronization protocol for named-data networks. A group of
participants keeps a shared map from session to sequence number: whoever
publishes under its session tells the others, who then fetch the data. This
directory models the C++ implementation in `src/` (the ChronoSync code base with
its `Logic` replaced by the round-based one), checks the models with TLC and
proves theorems about them with TLAPS.

## 1. The system

| Part | Source | State it keeps | Operations |
|---|---|---|---|
| Sync state | `state.cpp`, `leaf.cpp`, `leaf-container.*` | the leaves: session → sequence number | `update`, `operator+=`, `reset`, `getDigest` |
| Round log | `diff-state.cpp`, `diff-state-container.*` | for a round: leaves, round digest, cumulative digest, exclude filter, cumulative info | `update`, `getStateFrom`, `updateRoundDigest` |
| Sync logic | `logic.cpp` | the state, the old state, the round log; the current, stabilizing, stable and last-recovery round; counters of timeouts; pending recoveries; scheduled events; outstanding Interests | one callback for each packet, timeout and timer |
| Partition | `logic.cpp:64`, `startPartition`, `stopPartition` | one process-wide flag, set and cleared by timers of two of the users | tested in seven places |
| Socket | `socket.cpp` | an in-memory store of the node's own data | `publishData`, `fetchData` and its retries |
| Packet contents | `data-content.cpp`, `reco-data.cpp` | none | encoding, decoding, `wellFormed` |
| The rest | `tlv.*`, `logger.hpp`, `mi-tag.hpp`, `boost-header.h`, `common-chronosync.hpp` | none | constants, logging |

How they interact. The application publishes through `Socket`, which takes the
next sequence number and calls `Logic::updateSeqNo`. Each node has one **Data
Interest** out for its current round. A publication answers the Interests for
the current round with a Data packet, is logged in that round and takes it: the
node moves to the next round and announces the used one with a **Sync Interest**
carrying the *round digest*. A node that hears of a round at or past its own
moves there and *fishes* the rounds it skips; one that hears a different digest
of a past round fishes that round. Every 5 s `setStableState` turns the log from
the stable to the stabilizing round into *cumulative digests*. A packet also
reports the cumulative digest of its sender's stable round; a node that finds
another digest for that round starts a **recovery**: it asks the sender with a
Reco Interest for its whole state, merges it, and starts stabilizing anew from
there. A node that has heard nothing for some time reports its digest in a
CumulativeOnly packet.

What is hard here: every node acts on timers and packets in any order; Interests
and Data are lost, duplicated, delayed and cached; three kinds of digest must
stay consistent although rounds are logged late; recoveries rewind what is
stable while packets of older rounds are still arriving; events scheduled at 0 s
run before or after the next packet; the partition drops what the face has
already consumed. Each such place is listed with its line under `hazards` in
`PROJECT.json`.

What makes the parts correct:

* state: a merge gives the newest leaf of every session whatever the order;
* logic: the rounds keep their order; nothing throws and no NULL digest is
  dereferenced; a session uses a round once and the logs of two nodes do not
  contradict each other; what is stable is final until a recovery; a cumulative
  digest is the digest of what the log holds; everything a node learns reaches
  its digests; a node learns only what was published and never falls back;
* scheduler: a node keeps asking for its current round, forgets no round it has
  skipped, and a prefix is marked as being recovered from exactly while an
  answer is awaited;
* over a network that loses nothing: what is published becomes known, recoveries
  end, and logs that differ come to agree;
* packet contents: what is decoded is what was encoded, in each kind of packet;
* socket: each number of another session is reported missing once, what is
  reported can be fetched, and a fetch ends after exactly its retries.

## 2. The modules

| Module | What it models |
|---|---|
| `SyncState` | `State`: leaves, `update`, `+=`, the digest |
| `Dissemination` | abstract specification: what the protocol promises an application, without rounds, digests or packets |
| `Logic` | the methods of class `Logic`, each an operator from the node before the call to the node after it |
| `RoundSync` | the participants and the network; one action for each callback |
| `MCRounds` | `RoundSync` from its initial state, with symmetric nodes |
| `MCRecovery` | `RoundSync` from states deep in a run |
| `MCConvergence` | `RoundSync` over a network that loses nothing, with fairness and timers that go on for ever |
| `PacketContents` | `DataContent`, `RecoData` and the blocks they are encoded to and decoded from |
| `Socket` | publication into the store, the reports of missing numbers, and fetching; of `Logic` only the packets |
| `SyncState_proofs` | lemmas about leaves and merges: types, that `PlusAll` is the greatest of what it merges, and the laws of merging twice, again and more |
| `Logic_proofs` | for each method of `Logic`, that it keeps types and the order of the rounds |
| `RoundSync_proofs` | the invariant of the system made of them: `TypeOK`, `RoundOrder` |
| `Safety_proofs` | on top of it: `NeverCrashes`, `LogIsPast`, `OnePerRound` |
| `Stability_proofs` | on top of it, what advances, stabilizations and recoveries do to the log: `StableKept`, `CumulativeIsUnion`, `LogsAgree`, `OthersAccounted` |
| `Scheduler_proofs` | on top of `RoundSync_proofs`, an invariant of the scheduler and the face: `KeepsAsking`, `RecoveryUnderWay`, `SkippedIsSought` |
| `Dissemination_proofs` | the refinement of `Dissemination`, and `LogBehindState` |
| `Socket_proofs` | the invariant of `Socket` and `PacketContents` |

`Logic` is to be read next to `logic.cpp`. A node is a record with a field for
each member that matters: `currentRound` is `m_currentRound`, `log` is `m_log`,
`oldState` is `m_oldState`, `cdEvents` the keys of `m_cumulativeDigestToEventId`.
To these come the events waiting in the node's scheduler (`fish`, `reexpress`,
`announce`, `syncDue`, `produce`, `retry`, `recoDue`), the Interests pending in
its face (`face`, `recoFace`) and what it has put on the network (`asked`,
`sentSync`, `sentData`, `recoAsked`, `sentReco`). An exception, or the use of a
NULL pointer, sets `crashed`, after which the node does nothing.

In `RoundSync` each callback is an action:

| Action | Callback |
|---|---|
| `Publish` | `Socket::publishData` → `updateSeqNo` |
| `Fish`, `Reexpress` | `sendDataInterest` of an earlier / the current round |
| `Announce`, `SyncRound` | `sendSyncInterest` at 0 s / after the digest delay |
| `Stabilize` | `setStableState` |
| `ReportCumulative` | `produceCumulativeOnly` |
| `RetryRecovery` | `checkRecovery` 2 s later |
| `AskRecovery` | `sendRecoInterest` |
| `ReceiveDataInterest`, `ReceiveSyncInterest`, `ReceiveRecoInterest` | `onDataInterest` …, with what they call |
| `ReceiveData`, `ReceiveRecoData` | `onData`, `onRecoData`, with what they call |
| `ReceiveDataAndPublish`, `ReceiveRecoDataAndPublish` | the same when the application publishes from inside the update callback |
| `DataInterestTimeout`, `RecoInterestTimeout` | the face's timeouts |
| `StartPartition`, `StopPartition` | the partition timers |

`ReceiveDataAndPublish` follows the order of the code: the leaf has gone to the
state (and to the entry of its round, if there is one) when the callback runs;
the publication logs its own commit and moves to the next round; then the rest
of `processData` runs on what it finds. The run `callback_publication` shows
what comes of it.

`Socket` has one action for each operation of the class: `PublishData`,
`FetchData` and `FetchDataOnTimeout` (the two forms of `fetchData`),
`OnInterest`, `OnData` and `Timeout` (`onDataTimeout`, or the callback the
caller gave). The other half of it is what joins it to `Logic`: `SendData`,
`SendCumulativeOnly` and `SendRecoData` make packets of any commit or state a
node has, `ReceiveData` and `ReceiveRecoData` apply them and report what is
missing. Rounds and recoveries decide when a packet is sent and whether it is
processed; here any may be, at any time, twice or never, which covers every
order `RoundSync` has. Packets hold blocks as `PacketContents` encodes them, and
are decoded when they arrive.

### Abstractions

* A session is named by its node: a process keeps one session for its life.
* A digest is injective, so it is the state it is computed from. A NULL pointer
  is an empty set and any other a set of one.
* The network is the set of what was sent. A packet may reach another node any
  number of times, late, or never; a node's own packet may come back from a
  cache, and answers only a pending Interest that does not exclude it.
* Time. A timer may fire at any moment; firing one uses one of `MaxTimers`.
  Two facts about time are kept. `PromptEvents` = TRUE says that events
  scheduled at 0 s run before anything else, as in the discrete-event simulator
  the code is built for; FALSE lets them be delayed arbitrarily, as an event
  loop on a wall clock may. `FirstStabilizationPending` says that the first
  stabilization, at 5 s, comes before the fifth timeout of the current round,
  which takes five Interests of 1 s at least 1.1 s apart.
* Equal events that wait at the same time are one event.
* `m_pendingDataInterest` is kept as the round it is for, 0 when NULL or of a
  round gone by, since the code compares it only with the current round.
* The counter of Data timeouts stops at the limit it is compared with.
* A block is its type and the sequence of its elements, and so is the
  cumulative info inside a packet: its prefix, round and digest are read by their
  place. Its length and bytes are left out, and so is the order of the leaves of
  a state, which have names.
* `publishData` is one action: it runs to its end in the program's one thread, so
  nobody asks the store between the insertion and the announcement.
* In `RoundSync` packets are records; that a decoded packet is the record it was
  made of is the property `ReceivedAsSent` of `Socket`.
* Signing and logging are left out. The validation of fetched data is a choice
  of its two results when there is a validator.
* A definition marked `mutant` is not part of the model. It is a mistake the
  code does not make; putting it in the place of the definition after it must
  violate the property that guards against it.

## 3. The runs

| Run | Question | Bounds |
|---|---|---|
| `rounds` | Do rounds, stabilizations, late packets and timeouts keep the rounds ordered, the digests equal to what was received, what is stable stable, and the states within what `Dissemination` allows? | 2 nodes, 1 publication each, 3 rounds, 2 timers, prompt events |
| `publications` | Does a session use a round once, and do two logs agree, when publications and reports cross? | from `CrossedSpec`, where `a` has published in round 1 and reported in round 2, and the first publication of `b` has crossed with the report; a second publication each, also from the callback, ended by the 4 rounds and not by a number; no timers, delayed events |
| `recovery` | Is a recovery complete: is what a node skipped sought, is nothing lost, does it leave a node that can stabilize again? | from `LateSpec`, where a node has skipped more rounds than it may fish, or fished them in vain, and the other may have reported its digest already; 4 rounds, 2 timers |
| `partition` | Does a partition in the middle of a divergence break anything but liveness, and is anything learned lost in it? | from `DivergedSpec`, 3 rounds, 2 timers, delayed events; both nodes are users with partition timers, so partitions overlap |
| `convergence` | Does what is published become known, do recoveries end and do logs agree? | from the start and from a recovery just begun, 4 rounds, 1 publication by `a`, any node answers the first thing it learns from inside the callback; timers unbounded |
| `fetch` | Do packets arrive as they were sent, is each number reported once, can it be fetched, and does a fetch end? | 2 publishers, 1 more node; 3 numbers, 2 packets, 1 number fetched with 0 or 1 retries |

Why these bounds are enough to be interesting. Two nodes are the least with
which packets cross; each publishes at most twice because the third publication
meets no guard the second does not. Every publication and every report takes a
round, and `MaxRound` cuts off the one that would move past it: for a session to
send two numbers, and the other to cross with both, `publications` starts in
round 3 and reaches round 4. Three rounds let a node stabilize one round, receive late data of
another and publish in a third; the timers are shared by all nodes and are the
main bound on the length of a run. The limits of
the protocol (10 rounds without recovery, 5 retries ...) are set to 1 or 2, so
that they are reached; where a run is about something else the first stays at
10. A recovery takes some fifteen steps to begin, so `MCRecovery` starts from
the states that the handlers themselves lead to (each initial state is an
expression of handlers applied one after the other), and spends its timers on
the recovery. In those runs the counters of the scenario start where the
scenario left them. Every action and every disjunct of `Next` fires in some
passing run.

`OutOfTimers` is the stutter that stands for the timers the bound cuts off. It
is no part of the program; without it the end of the timers would be a deadlock.

What the properties say is written above each of them in `RoundSync`. In short:

* `RoundOrder`, `LogIsPast`, `TypeOK`: the arithmetic of rounds;
* `NeverCrashes`: no exception, no NULL dereference;
* `OnePerRound`, `LogsAgree`: rounds and sessions across nodes;
* `StableKept`, `CumulativeIsUnion`, `OthersAccounted`, `LogBehindState`:
  state, old state, log and digests against each other;
* `Disseminates`, `DisseminatesOn`: refinement of `Dissemination`, from its
  initial states and, for the runs that start deep in an execution, step by step;
* `KeepsAsking`, `RecoveryUnderWay`: scheduler and face;
* `SkippedIsSought`: no round that a node has moved past is forgotten;
* `PublishedIsLearned`, `RecoveryCompletes`, `LogsConverge`: liveness;
* `ReceivedAsSent`, `ReportedOnce`, `ReportedIsStored`, `MergeIsUnion`,
  `RetriesSpent`, `FetchEnds`: packets, reports and fetching.

### Fairness

All properties but four are safety properties, under specifications without
fairness. The four:

* `convergence` assumes a network that loses nothing: a Sync Interest reaches
  the other node once, a Data Interest arrives while it is pending, a pending
  Interest that can be answered is, and none that somebody can answer times out.
  An Interest that nobody answers is expressed again when it expires, which is
  as good as one that stays pending. The network is also fast: every timer of
  the protocol but one takes a second or more (`logic.cpp:83-112`), so what is
  under way arrives before the next timer fires (`NothingOnItsWay`), Sync
  Interests due after a second go out before a round's Interest is expressed
  again, and events at 0 s run at once. The one timer is that of a report, which
  is random and may be 0: a report goes out at any moment. The one fairness
  condition is `WF_vars(Progress)`: nodes and network do not stop. Nothing is
  assumed of the application; stabilizations, reports and retries of a recovery
  happen at will, or never. `PublishedIsLearned` and `LogsConverge` speak of rounds
  that are not stable: data of a stable round is dropped, and what brings it
  back is a recovery, which is `RecoveryCompletes`. The bound of four rounds
  ends the publications, so the system may stop and deadlock is not checked.
* `FetchEnds` needs only that the face's timers expire, `WF_vars(Timeout)`: an
  answer may never come.

### What the runs refute

Six runs end in a counterexample. Each states what a comment or document of
the code says and finds the code doing something else.

* `callback_publication`: an application that publishes from inside the update
  callback, as an answer to what it is told, takes the round of the commit that
  is being processed. The entry of the round is then the node's own, and
  `updateDiffLog` drops the received commit (`logic.cpp:1268`, `1474`): the
  number is in the node's state and in none of its digests, against 'Either if
  we already knew this info or not, update the round log entry'
  (`logic.cpp:1247`). `LogsConverge` holds all the same: the Sync Interests of
  the round differ, the node fishes it again, and the answer, which the entry
  does not exclude, goes to the entry.
* `own_publication`: a node that is idle when it first stabilizes gets an empty
  entry for round 1, its current round. Its first publication, in round 1, finds
  the entry and is not logged (`logic.cpp:1474`): other nodes can have it only
  from an Interest pending at that moment or from a recovery, and it is never in
  the node's own digests.
* `quiet_report`: a node that hears nothing reports, as the cumulative digest of
  the stable round, the digest of its whole state (`logic.cpp:523`).
* `stale_cancel`: `m_cumulativeDigestToEventId` keeps the entry of an event that
  has run and does not replace it; the second report of a digest is not
  cancelled when another node sends it (`logic.cpp:532`).
* `partition_silence`: the periodic Data Interest that comes due in a partition
  is not scheduled again (`logic.cpp:1491`).
* `partition_recovery`: a recovery that a partition cuts off stays pending for
  good, and none from that prefix can start again (`logic.cpp:412`).

## 4. The proofs

TLAPS proves the following for every set of nodes, every value of the protocol's
limits and of the bounds, prompt or delayed events, and any faulty nodes. The
assumptions are those of `LimitsAssumption` and `BoundsAssumption`: the limits
and bounds are natural numbers, and those the code counts up to are not zero.
`Node` need not be finite.

| Theorem | States | Module |
|---|---|---|
| `TypeCorrect` | `Spec => []TypeOK` | `RoundSync_proofs` |
| `RoundsInOrder` | `Spec => []RoundOrder` | `RoundSync_proofs` |
| `NothingCrashes` | `Spec => []NeverCrashes` | `Safety_proofs` |
| `LoggedRoundsArePast` | `Spec => []LogIsPast` | `Safety_proofs` |
| `RoundsUsedOnce` | `Spec => []OnePerRound` | `Safety_proofs` |
| `StableRoundsAreKept` | `Spec => StableKept` | `Stability_proofs` |
| `CumulativeDigestsAreUnions` | `Spec => []CumulativeIsUnion` | `Stability_proofs` |
| `LogsNeverDisagree` | `Spec => []LogsAgree` | `Stability_proofs` |
| `KnowledgeOfOthersIsAccounted` | `Spec /\ [][\A n \in Node : ~AnswersInItsRound(n)]_vars => []OthersAccounted` | `Stability_proofs` |
| `AsksUntilPartition` | `Spec => [](BeforePartitions => KeepsAsking)` | `Scheduler_proofs` |
| `RecoveriesEndUntilPartition` | `Spec => [](BeforePartitions => RecoveryUnderWay)` | `Scheduler_proofs` |
| `SoughtUntilPartition` | `Spec => [](BeforePartitions => SkippedIsSought)` | `Scheduler_proofs` |
| `Implements` | `Spec => Disseminates` | `Dissemination_proofs` |
| `KeepsDisseminating` | `DInv /\ [][Next]_vars => DisseminatesOn` | `Dissemination_proofs` |
| `LogsBehindStates` | `Spec => []LogBehindState` | `Dissemination_proofs` |
| `SentIsReceived` | `Spec => []ReceivedAsSent` | `Socket_proofs` |
| `MissingReportedOnce` | `Spec => []ReportedOnce` | `Socket_proofs` |
| `ReportedCanBeFetched` | `Spec => []ReportedIsStored` | `Socket_proofs` |
| `StateIsUnion` | `Spec => []MergeIsUnion` | `Socket_proofs` |
| `RetriesCounted` | `Spec => []RetriesSpent` | `Socket_proofs` |

The theorems of `Socket_proofs` are about `Socket`'s `Spec`, under
`SocketAssumption`; the others about that of `RoundSync`.

The proofs follow the shape of the model. Since each method is an operator on one
node, each has one lemma that says what it preserves, a method that calls
another cites the other's lemma, and an action follows from the lemma of its
handler.

**First invariant, `IInv`.** Every node is `Sound`: it has the types of
`NodeType`, and its rounds satisfy `RoundsOK`. `RoundOrder` alone is not
inductive. `RoundsOK` adds what the code relies on and never tests:

* when no round is stable although a recovery has ended, the round to stabilize
  is that of the recovery. Otherwise `setStableState` would have no round to
  start from, which is where it throws;
* nothing is asked of the network for a round to come, so data that arrives is
  never of a round past the current one: this is why `processData` may test for
  equality only before it moves;
* in round 1 no recovery is under way: a recovery starts from data that is newer
  than a stable round. Without this a recovery in round 1 would set the last
  recovery round to 0 and leave round 0 to be stabilized.

**Second invariant, `SInv`.** Every node is also `Safe`. The three theorems of
`Safety_proofs` cannot be proved one at a time, because each is the reason for
another:

* `Digested`: the stable round is in the log, and every round from the last
  recovery to it has a cumulative digest. So `checkRecovery`, which skips rounds
  before the last recovery, never compares with NULL;
* `Answerable`: a logged round is past (or is the empty entry of round 1), and
  where the node's own leaf says CumulativeOnly the entry has the info to send
  again. That a received packet does not turn an entry into one without info
  needs the next part;
* `SentOK`: what the node has put on the network is of a past round and has the
  number that the log holds for it. A publication may be missing in the log
  (`own_publication`), a CumulativeOnly never is, since it is sent in a round
  past the first;
* `ReportsOK`: a scheduled report has a digest, and none is scheduled in round 1.
  This uses the one fact about time in `FirstStabilizationPending`: a report for
  silence needs five timeouts, and the first stabilization comes before them.

**What is stable, `CInv`.** Four properties tie the log to the digests. They are
preserved for one reason in all methods but two, so the proofs first state what
those have in common: a method that neither stabilizes nor recovers *advances*
the node (`Advances`). It adds entries and leaves to rounds that are not stable,
each leaf of another session by a packet of that round, and touches neither the
stable entries nor, while they stand for something, the old state. That
`Logic` may log its current round at all without touching a stable one is
`RoundsOK` and `Answerable`, hence the place on top of `SInv`. Each method has a
lemma that it advances; what is left is `setStableState` and `processRecoData`.

* `Settled`: the cumulative digest of the stable round is that of the old state,
  and before the first recovery the old state and the digests of all stable
  rounds are unions of the log (`CumulativeIsUnion`). A stabilization merges the
  next entries into the old state. It gives the same as merging all of them from
  the empty state, since a merge of merges is a merge (`PlusAllTwice`); the entry
  it may add for an idle node is empty and adds nothing; and a stabilization that
  gets no further than the last one finds its own digest. A recovery leaves no
  round stable, so that `StableKept` and `CumulativeIsUnion` promise nothing of
  the rounds before it.
* `Learned`: a leaf of another session in a log stands for a packet on the
  network. With `SentOK` and `OnePerRound` of `SInv` two nodes that log a session
  in a round log the same number, its own log included: `LogsAgree`.
* `Noted`: what a node knows of another session is in its old state or in an
  entry to be stabilized. A recovery keeps that because it makes the state the
  old state; data of a stable round is dropped before it reaches the state, and
  data of a round before the recovery goes to the old state as well.
  It is *not* an invariant of `Spec`: the run `callback_publication` violates it.
  `KnowledgeOfOthersIsAccounted` says that this is the only way. Its hypothesis
  excludes the steps in which a callback publishes while the round of the data
  is current (`AnswersInItsRound`), and no others: a callback may publish when it
  is told of an earlier or a later round, or of a recovery.

**The scheduler, `BInv`.** As long as no partition timer has fired
(`BeforePartitions`: two of the findings show that the properties fail
afterwards) every node is `Busy`: its periodic event is of its current round, and
the prefixes marked as pending are those with an Interest due or out, each of
one kind. Both are preserved method by method; that an expiring Interest which
has used up the retries of *another* prefix takes the mark off is the case of
`OnRecoInterestTimeout` for any number of nodes, which the runs, with two, cannot
show.

**What is sought, `MInv`.** Every node is `Mindful`: each round between the
stable and the current one is sought (`RoundsSought`), and an answer that arrives
was asked for. A handler may shrink the span of rounds, or add what is sought;
only `setStableState` and `processRecoData` change its lower end.
`processRecoData` lowers the stable round to 0 but sets the last recovery round,
which takes its place; that it does so needs `RoundsOK`, hence `IInv`.

**The refinement, `DInv`.** Every node is `Truthful`: all its numbers, in its
state, its log and the packets it has sent, were published by the session they
are of, its log and its old state are not ahead of its state, and its own leaf
is its last publication. That the old state is not ahead takes the merge of a
stabilization, data of a settled round that goes to both, and a recovery, which
makes one the other. From that, each handler is shown to do one of four things to what
the node has published and knows: nothing, a `Produce`, a `Learn`, or, with a
publication in the callback, an `Answer`. `Implements` follows from the initial
states; `KeepsDisseminating` is the part about steps, from any state of `DInv`,
for the runs that start deep in an execution.

**The socket, `SocketInv`.** The properties, with: what is in the store is what
was published, states and packets hold published numbers only, every packet is
well formed and was encoded from what it was made of (`PacketOK`), and a fetch
has spent as many Interests as it has fewer retries (`FetchOK`). `ReportedOnce`
is inductive with the state's type; what a receiver decodes is shown once, for
each kind of packet.

Only model-checked: the four liveness properties (`PublishedIsLearned`,
`RecoveryCompletes`, `LogsConverge`, `FetchEnds`), since fairness is out of the
prover's reach. Every invariant and every other action property of a passing run
is a theorem: three of them, in `Scheduler_proofs`, until the first partition
timer fires, and `OthersAccounted` without the callbacks named above; beyond
these conditions the runs `partition_silence`, `partition_recovery` and
`callback_publication` refute the first two and the last.

## 5. What is left

Convergence with three participants, and after a partition: both are beyond
what TLC can do in minutes.

Not modelled for good:

* the names of the TLV types and the logger (no behaviour);
* the signatures of Logic's own packets: the validator is NULL, its default
  (`logic.cpp:82`), so every packet that answers an Interest is processed;
* the exceptions of a decoder given a block of another type: no packet the
  program encodes causes one;
* that `fetchData` with a timeout callback does not use `nRetries`, against
  `socket.hpp:126`, is in the model (`FetchDataOnTimeout`) but no property: its
  callers are outside the repository.
