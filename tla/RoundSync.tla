----------------------------- MODULE RoundSync -----------------------------
(***************************************************************************)
(* A group of RoundSync participants on a named-data network: one action   *)
(* for every callback of class Logic (src/logic.cpp), each the whole       *)
(* handler.                                                                *)
(*                                                                         *)
(* The network is what the nodes have put on it.  An Interest or a Data    *)
(* packet reaches another node any number of times, at any time, in any    *)
(* order, or never.  A Data packet needs a pending Interest of its round   *)
(* that does not exclude it; a node's own packet may come back to it from  *)
(* a cache.  Interests are not delivered to the node that expressed them.  *)
(***************************************************************************)
EXTENDS Logic

CONSTANTS
    FaultyNodes,    \* the nodes whose constructor schedules the partition
    PromptEvents,   \* whether events due at once run before all others
    MaxRound,       \* bound: no node goes past this round
    MaxSeq,         \* bound: no application publishes past this number
    MaxAnswer,      \* bound: nor past this one from inside the update callback
    CountTimers,    \* whether the timers that fire are counted, and bounded
    MaxTimers       \* bound: timers and timeouts that fire, of all nodes

ASSUME BoundsAssumption ==
    /\ FaultyNodes \subseteq Node
    /\ PromptEvents \in BOOLEAN
    /\ MaxRound \in Nat \ {0}
    /\ MaxSeq \in Nat
    /\ MaxAnswer \in Nat
    /\ CountTimers \in BOOLEAN
    /\ MaxTimers \in Nat

VARIABLES
    node,           \* each node's Logic, scheduler, face and output
    partitioned,    \* the global flag: shared by every node of the process
    timers,         \* timers and timeouts that have fired, up to MaxTimers
    faults          \* the partition timers still pending: "start", "stop"

vars == <<node, partitioned, faults, timers>>

InitialNode ==
    [currentRound |-> 1, stabilizingRound |-> 1, stableRound |-> 0,
     lastRecoveryRound |-> 0, recoveryDesired |-> FALSE,
     seqNo |-> 0, state |-> EmptyState, oldState |-> EmptyState,
     log |-> [r \in {} |-> NewEntry],
     pendingDataInterest |-> 0,
     dataTimeouts |-> 0, recoTimeouts |-> 0,
     pendingReco |-> {}, cdEvents |-> {},
     \* events in the scheduler
     reexpress |-> 1, fish |-> {}, announce |-> {}, syncDue |-> {}, produce |-> {},
     retry |-> {}, recoDue |-> {},
     \* Interests pending in the face
     face |-> {}, recoFace |-> {},
     \* what the node has put on the network
     asked |-> {}, sentSync |-> {}, sentData |-> {},
     recoAsked |-> {}, sentReco |-> {},
     crashed |-> FALSE]

Init ==
    /\ node = [n \in Node |-> InitialNode]
    /\ partitioned = FALSE
    /\ timers = 0
    /\ faults = [n \in Node |-> IF n \in FaultyNodes THEN {"start", "stop"}
                                ELSE {}]

Running(n) == ~node[n].crashed

\* The node after a handler.  The discrete-event simulator runs what the
\* handler has scheduled at 0 s before it lets time pass; an event loop on a
\* wall clock may run something else first.
After(s) == IF PromptEvents THEN RunDueEvents(s, partitioned) ELSE s

\* Node n goes to the state s of a handler, within the bounds.
Becomes(n, s) ==
    /\ s.currentRound <= MaxRound
    /\ node' = [node EXCEPT ![n] = After(s)]
    /\ UNCHANGED <<partitioned, faults>>

\* A call, or an event that is due at once, takes no time; a timer does.
AtOnce == timers' = timers
Later == IF CountTimers THEN timers < MaxTimers /\ timers' = timers + 1
         ELSE timers' = timers

Packets == UNION {node[m].sentData : m \in Node}

----------------------------------------------------------------------------
(* The application. *)

\* Socket::publishData() always takes the next number.
Publish(n) ==
    /\ node[n].seqNo < MaxSeq
    /\ Running(n) /\ AtOnce
    /\ Becomes(n, UpdateSeqNo(node[n], n, node[n].seqNo + 1))

----------------------------------------------------------------------------
(* Events of the scheduler. *)

\* sendDataInterest() of an earlier round, scheduled at 0 s.
Fish(n) ==
    \E f \in node[n].fish :
        /\ Running(n) /\ AtOnce
        /\ Becomes(n, SendDataInterest([node[n] EXCEPT !.fish = @ \ {f}],
                                       {f}, partitioned))

\* sendDataInterest() of the current round: at 0 s, then periodically.  An
\* Interest lives 1 s and the period is longer, so the one sent before for
\* the round is no longer pending.
Reexpress(n) ==
    LET s == node[n]
    IN  /\ Running(n) /\ AtOnce
        /\ s.reexpress # 0
        /\ \A i \in s.face : ~(i.own /\ i.round = s.reexpress)
        /\ Becomes(n, SendDataInterest(
                        [s EXCEPT !.reexpress = 0],
                        {[round |-> s.reexpress, retries |-> 1]}, partitioned))

\* sendSyncInterest() at 0 s after a publication ...
Announce(n) ==
    \E r \in node[n].announce :
        /\ Running(n) /\ AtOnce
        /\ Becomes(n, SendSyncInterest([node[n] EXCEPT !.announce = @ \ {r}],
                                       {r}, partitioned))

\* ... and 1 s after the entry of a round has changed or was found different.
SyncRound(n) ==
    \E r \in node[n].syncDue :
        /\ Running(n) /\ Later
        /\ Becomes(n, SendSyncInterest([node[n] EXCEPT !.syncDue = @ \ {r}],
                                       {r}, partitioned))

\* Stabilization is always scheduled.
Stabilize(n) ==
    Running(n) /\ Later /\ Becomes(n, SetStableState(node[n]))

ReportCumulative(n) ==
    \E e \in node[n].produce :
        /\ Running(n) /\ Later
        /\ Becomes(n, ProduceCumulativeOnly(
                        [node[n] EXCEPT !.produce = @ \ {e}], n, e.round, e.cd))

RetryRecovery(n) ==
    \E e \in node[n].retry :
        /\ Running(n) /\ Later
        /\ Becomes(n, CheckRecovery([node[n] EXCEPT !.retry = @ \ {e}],
                                    e.from, e.round, e.cd))

AskRecovery(n) ==
    \E u \in node[n].recoDue :
        /\ Running(n) /\ AtOnce
        /\ Becomes(n, SendRecoInterest([node[n] EXCEPT !.recoDue = @ \ {u}],
                                       {u}, partitioned))

----------------------------------------------------------------------------
(* Interests and data from the network.  A partitioned process drops them:  *)
(* the face has taken the Interest off its pending table all the same.      *)

DataInterestArrives(n, r) ==
    /\ Running(n) /\ AtOnce /\ ~partitioned
    /\ Becomes(n, ProcessDataInterest(node[n], n, r))

ReceiveDataInterest(n) ==
    \E m \in Node \ {n} : \E r \in node[m].asked : DataInterestArrives(n, r)

SyncInterestArrives(n, i) ==
    /\ Running(n) /\ AtOnce /\ ~partitioned
    /\ Becomes(n, ProcessSyncInterest(node[n], i.round, i.rd))

ReceiveSyncInterest(n) ==
    \E m \in Node \ {n} : \E i \in node[m].sentSync : SyncInterestArrives(n, i)

ReceiveRecoInterest(n) ==
    /\ \E m \in Node \ {n} : n \in node[m].recoAsked
    /\ Running(n) /\ AtOnce /\ ~partitioned
    /\ Becomes(n, ProcessRecoInterest(node[n]))

Answers(d, i) == d.round = i.round /\ d \notin i.exclude

DataArrives(n, i, d) ==
    LET s == [node[n] EXCEPT !.face = @ \ {i}]
    IN  /\ Running(n) /\ AtOnce /\ Answers(d, i)
        /\ Becomes(n, IF partitioned THEN s ELSE ProcessData(s, d))

ReceiveData(n) ==
    \E i \in node[n].face, d \in Packets : DataArrives(n, i, d)

ReceiveRecoData(n) ==
    \E u \in node[n].recoFace : \E p \in node[u].sentReco :
        LET s == [node[n] EXCEPT !.recoFace = @ \ {u}]
        IN  /\ Running(n) /\ AtOnce
            /\ Becomes(n, IF partitioned THEN s
                          ELSE ProcessRecoData(s, u, p.round, p.state))

\* The application answers what it is told of with a publication of its own,
\* while the handler that told it is half done.
MayAnswer(n) == node[n].seqNo < MaxAnswer

DataArrivesAndPublish(n, i, d) ==
    LET s == [node[n] EXCEPT !.face = @ \ {i}]
    IN  /\ Running(n) /\ AtOnce /\ ~partitioned /\ MayAnswer(n)
        /\ Answers(d, i) /\ Notifies(s, d)
        /\ Becomes(n, ProcessDataPublishing(s, n, d))

ReceiveDataAndPublish(n) ==
    \E i \in node[n].face, d \in Packets : DataArrivesAndPublish(n, i, d)

ReceiveRecoDataAndPublish(n) ==
    \E u \in node[n].recoFace : \E p \in node[u].sentReco :
        LET s == [node[n] EXCEPT !.recoFace = @ \ {u}]
        IN  /\ Running(n) /\ AtOnce /\ ~partitioned /\ MayAnswer(n)
            /\ NotifiesOf(s, p.state)
            /\ Becomes(n, ProcessRecoDataPublishing(s, n, u, p.round, p.state))

----------------------------------------------------------------------------
(* Timeouts of the face. *)

\* The first stabilization comes at 5 s, before the last timeout that counts
\* in round 1: Interests of 1 s sent at least 1.1 s apart.
FirstStabilizationPending(s) == s.stableRound = 0 /\ s.currentRound = 1

DataInterestExpires(n, i) ==
    LET s == [node[n] EXCEPT !.face = @ \ {i}]
    IN  /\ Running(n) /\ Later
        /\ FirstStabilizationPending(s)
              => s.dataTimeouts + 1 < MaxTimeoutsToCumulative
        /\ Becomes(n, OnDataInterestTimeout(s, i))

DataInterestTimeout(n) == \E i \in node[n].face : DataInterestExpires(n, i)

RecoInterestTimeout(n) ==
    \E u \in node[n].recoFace :
        /\ Running(n) /\ Later
        /\ Becomes(n, OnRecoInterestTimeout(
                        [node[n] EXCEPT !.recoFace = @ \ {u}], u))

----------------------------------------------------------------------------
(* The partition timers of two of the users. *)

StartPartition(n) ==
    /\ "start" \in faults[n]
    /\ partitioned' = TRUE
    /\ faults' = [faults EXCEPT ![n] = @ \ {"start"}]
    /\ UNCHANGED <<node, timers>>

StopPartition(n) ==
    /\ "stop" \in faults[n] /\ "start" \notin faults[n]
    /\ partitioned' = FALSE
    /\ faults' = [faults EXCEPT ![n] = @ \ {"stop"}]
    /\ UNCHANGED <<node, timers>>

\* The bound on timers is reached; the program does not stop there.
OutOfTimers == CountTimers /\ timers = MaxTimers /\ UNCHANGED vars

Next ==
    \/ OutOfTimers
    \/ \E n \in Node :
          \/ Publish(n)
          \/ Fish(n) \/ Reexpress(n) \/ Announce(n) \/ SyncRound(n)
          \/ Stabilize(n) \/ ReportCumulative(n)
          \/ RetryRecovery(n) \/ AskRecovery(n)
          \/ ReceiveDataInterest(n) \/ ReceiveSyncInterest(n)
          \/ ReceiveRecoInterest(n)
          \/ ReceiveData(n) \/ ReceiveRecoData(n)
          \/ ReceiveDataAndPublish(n) \/ ReceiveRecoDataAndPublish(n)
          \/ DataInterestTimeout(n) \/ RecoInterestTimeout(n)
          \/ StartPartition(n) \/ StopPartition(n)

Spec == Init /\ [][Next]_vars

----------------------------------------------------------------------------
(* Properties of one node. *)

\* The log holds entries of rounds, and every member, event and packet is of
\* the type the code gives it.
LogOK(s) == /\ LoggedRounds(s) \subseteq Round
            /\ \A r \in LoggedRounds(s) : s.log[r] \in Entry

NodeOK(s) ==
    /\ s.currentRound \in Round /\ s.stabilizingRound \in Round
    /\ s.stableRound \in Round /\ s.lastRecoveryRound \in Round
    /\ s.recoveryDesired \in BOOLEAN /\ s.crashed \in BOOLEAN
    /\ s.seqNo \in SeqNo /\ s.state \in State /\ s.oldState \in State
    /\ LogOK(s)
    /\ s.pendingDataInterest \in Round /\ s.reexpress \in Round
    /\ s.dataTimeouts \in Nat /\ s.recoTimeouts \in Nat
    /\ s.pendingReco \subseteq Node /\ s.cdEvents \subseteq Option(Digest)
    /\ s.fish \subseteq FishEvent /\ s.produce \subseteq ProduceEvent
    /\ s.retry \subseteq RetryEvent /\ s.recoDue \subseteq Node
    /\ s.announce \subseteq Round /\ s.syncDue \subseteq Round
    /\ s.face \subseteq Interest /\ s.recoFace \subseteq Node
    /\ s.asked \subseteq Round /\ s.sentSync \subseteq SyncInterest
    /\ s.sentData \subseteq Packet /\ s.recoAsked \subseteq Node
    /\ s.sentReco \subseteq RecoData

\* Type invariant.  What it rules out beyond shapes is an unsigned round that
\* wraps: m_currentRound - 1 in sendRecoData (logic.cpp:1672) and the distance
\* of setStableState (761) stay natural numbers.
TypeOK ==
    /\ DOMAIN node = Node
    /\ \A n \in Node : NodeOK(node[n])
    /\ partitioned \in BOOLEAN
    /\ timers \in 0 .. MaxTimers
    /\ faults \in [Node -> SUBSET {"start", "stop"}]

\* The three rounds of a node keep the order their comments give them
\* (logic.hpp:691-705): stable, stabilizing, current; and the round of the
\* last recovery is over.  Stable and current coincide only in round 1, at a
\* node that heard nothing for the first 5 s.
RoundsOrdered(s) ==
    /\ s.stableRound <= s.stabilizingRound /\ 1 <= s.stabilizingRound
    /\ s.stabilizingRound <= s.currentRound
    /\ s.stabilizingRound = s.currentRound => s.currentRound = 1
    /\ s.lastRecoveryRound < s.currentRound
    /\ s.stableRound # 0 => s.lastRecoveryRound <= s.stableRound

RoundOrder == \A n \in Node : RoundsOrdered(node[n])

\* No handler throws and none dereferences a NULL digest, whatever the order
\* of packets, timers, recoveries and partitions: not setStableState (752),
\* not processDataInterest on a CumulativeOnly entry (650), not sendData or
\* sendCumulativeOnly on a malformed content (915, 1625), not checkRecovery
\* when it compares digests (1026).
NeverCrashes == \A n \in Node : ~node[n].crashed

\* A logged round belongs to the past, except for the empty entry of round 1
\* that the first stabilization of an idle node creates (799).
LogIsPast ==
    \A n \in Node : \A r \in LoggedRounds(node[n]) :
        r < node[n].currentRound \/ (r = 1 /\ node[n].stableRound = 1)

----------------------------------------------------------------------------
(* Properties of what the nodes know. *)

\* Neither the entry of a round nor m_oldState is ever ahead of the node's
\* state: data goes to both (processData, 1239-1249; updateSeqNo, 271-285), and
\* no merge takes the state behind (1393-1402).  So no digest a node reports
\* stands for a number that it does not know itself.
LogBehindState ==
    \A n \in Node :
        LET s == node[n]
            digested == {s.oldState} \cup {s.log[r].leaves : r \in LoggedRounds(s)}
        IN  \A st \in digested : \A x \in Node :
                st[x] > 0 => st[x] <= s.state[x]

\* What a node knows of another session has reached the digests or will: it is
\* in m_oldState, or in an entry that is still to be stabilized.  A recovery
\* must not lose what the log held (1396-1402), nor a stabilization skip a
\* round (738-761).  A publication from inside the update callback may take the
\* round of the commit that is half logged (1256-1268).
ToStabilize(s) ==
    {r \in LoggedRounds(s) :
        r > (IF s.stableRound = 0 THEN s.lastRecoveryRound ELSE s.stableRound)}
Accounted(s, x) ==
    s.state[x] <= OldStateWith(s, ToStabilize(s))[x]

OthersAccounted ==
    \A n \in Node : \A x \in Node \ {n} : Accounted(node[n], x)

\* A cumulative digest stands for everything logged up to its round: until a
\* node recovers, the digest of a stable round is the digest of the union of
\* its entries up to that round (787-806).  Two nodes that agree on it have
\* received the same data.
CumulativeIsUnion ==
    \A n \in Node :
        LET s == node[n]
        IN  s.lastRecoveryRound = 0 =>
              \A r \in {q \in LoggedRounds(s) : q <= s.stableRound} :
                  s.log[r].cd = {PlusAll(EmptyState,
                      {s.log[q].leaves : q \in LoggedRounds(s) \cap 0 .. r})}

\* What is stable stays: the entries of the stable rounds keep their leaves,
\* round digest and cumulative digest until a recovery makes all rounds
\* unstable (logic.hpp:699-700).
StableKept ==
    [][\A n \in Node : \A r \in LoggedRounds(node[n]) :
          LET e == node[n].log[r]
              f == node'[n].log[r]
          IN  r <= node[n].stableRound /\ node'[n].stableRound # 0
                => /\ r \in LoggedRounds(node'[n])
                   /\ f.leaves = e.leaves /\ f.rd = e.rd /\ f.cd = e.cd]_vars

\* A session puts one sequence number at most in a round, whatever it sends
\* for the round and however often: a publication and a CumulativeOnly each
\* take a whole round (298, 900).
OnePerRound ==
    \A d, e \in Packets :
        d.session = e.session /\ d.round = e.round => d.seq = e.seq

\* The logs of two nodes never disagree on a round: what they hold of a
\* session for the round is the same, or one of them has missed it, so fishing
\* after a different round digest (837-847) can make the digests equal.
LogsAgree ==
    \A n, m \in Node : \A r \in LoggedRounds(node[n]) \cap LoggedRounds(node[m]) :
        \A x \in Node :
            LET p == node[n].log[r].leaves[x]
                q == node[m].log[r].leaves[x]
            IN  p = q \/ p = NoLeaf \/ q = NoLeaf

\* Through packets, recoveries and partitions a node learns only numbers that
\* were published, never falls back, and nobody but its application moves its
\* own number (Dissemination).
Produced == [n \in Node |-> node[n].seqNo]
Known == [n \in Node |-> node[n].state]
Promise == INSTANCE Dissemination WITH produced <- Produced, known <- Known
Disseminates == Promise!Spec
DisseminatesOn == [][Promise!Next]_<<Produced, Known>>

----------------------------------------------------------------------------
(* Properties of the scheduler. *)

\* Outside a partition, a node goes on expressing Data Interests for its
\* current round, and only for that one: the periodic event is always there
\* and never of an old round (702-705, 1528-1536).
KeepsAsking ==
    ~partitioned => \A n \in Node : node[n].reexpress = node[n].currentRound

\* A prefix recovery was asked from waits for exactly one answer: it is marked
\* pending as long as a Reco Interest is due or out, and not longer; otherwise
\* no recovery from that prefix could ever start again (1058-1070).
RecoveryUnderWay ==
    \A n \in Node :
        /\ node[n].pendingReco = node[n].recoDue \cup node[n].recoFace
        /\ node[n].recoDue \cap node[n].recoFace = {}

\* A node that has moved on does not forget a round it has heard nothing of:
\* until the round is stable or covered by a recovery it is in the log, or has
\* been asked for, or is due to be; or the node has skipped too many rounds to
\* fish them (684-692), and then it wants a recovery until one is asked for.
Sought(s, r) ==
    r \in LoggedRounds(s) \cup s.asked \cup {f.round : f \in s.fish}
RecoverySought(s) == s.recoveryDesired \/ s.recoDue \cup s.recoAsked # {}

RoundsSought(s) ==
    \A r \in 1 .. (s.currentRound - 1) :
        r > s.stableRound /\ r > s.lastRecoveryRound
            => Sought(s, r) \/ RecoverySought(s)

SkippedIsSought == \A n \in Node : RoundsSought(node[n])

----------------------------------------------------------------------------
(* What the code and its documentation say, and runs refute. *)

\* "Insert state diff into log" (logic.hpp:592): what the node itself published
\* reaches its cumulative digests too (logic.cpp:285).
OwnAccounted == \A n \in Node : Accounted(node[n], n)

\* "The cumulative digest for roundNo" (logic.hpp:481): until it recovers, a
\* node reports of a round the digest it has for that round.
ReportsStableDigest ==
    \A n \in Node : \A e \in node[n].produce :
        node[n].lastRecoveryRound = 0 /\ e.round \in LoggedRounds(node[n])
            => e.cd = node[n].log[e.round].cd

\* "If in the meanwhile another node has sent it, cancel" (logic.cpp:114-116):
\* when the one digest a node is about to send arrives from another node, its
\* own report is not left in the scheduler.
CancelledWhenHeard ==
    [][\A n \in Node : \A d \in Packets : \A i \in d.info :
          /\ d.session # n
          /\ d \in ExcludeOf(node'[n], d.round) \ ExcludeOf(node[n], d.round)
          /\ Cardinality(node[n].produce) = 1
        => \A e \in node'[n].produce : e.cd # i.cd]_vars
=============================================================================
