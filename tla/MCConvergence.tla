--------------------------- MODULE MCConvergence ---------------------------
(***************************************************************************)
(* RoundSync once the network loses nothing, with timers that go on for    *)
(* ever: what was published becomes known, and recoveries end.             *)
(*                                                                         *)
(* The network is reliable: each Sync Interest reaches the other node      *)
(* once, a Data Interest as long as it is pending, a packet that answers a *)
(* pending Interest reaches its node, and no Interest somebody can answer  *)
(* times out; one that nobody answers is expressed again, which is as good *)
(* as staying pending.  It is fast as well: all timers but that of a       *)
(* report, which is random, take a second and more (logic.cpp:83-112), so  *)
(* what is on its way arrives before the next of them fires.               *)
(***************************************************************************)
EXTENDS MCRecovery

SyncInterestArrivesOnce(n) ==
    \E m \in Node \ {n} : \E i \in node[m].sentSync :
        LET s == ProcessSyncInterest(node[n], i.round, i.rd)
        IN  /\ s.currentRound <= MaxRound
            /\ node' = [node EXCEPT ![n] = After(s), ![m].sentSync = @ \ {i}]
            /\ UNCHANGED <<partitioned, faults, timers>>

PendingInterestArrives(n) ==
    \E m \in Node \ {n} : \E i \in node[m].face :
        DataInterestArrives(n, i.round)

Delivery ==
    \E n \in Node : \/ SyncInterestArrivesOnce(n)
                    \/ PendingInterestArrives(n) \/ ReceiveData(n)
                    \/ ReceiveRecoInterest(n) \/ ReceiveRecoData(n)

NothingOnItsWay == ~ENABLED <<Delivery>>_vars

DueAtOnce == \E n \in Node : Fish(n) \/ Announce(n) \/ AskRecovery(n)

\* All the Sync Interests that are due after a second.
SendAllDue(s) ==
    SendSyncInterest([s EXCEPT !.syncDue = {}], s.syncDue, partitioned)
DueInASecond ==
    /\ node' = [n \in Node |-> After(SendAllDue(node[n]))]
    /\ UNCHANGED <<partitioned, faults, timers>>

\* The Interest of the current round, once the one before has expired.
DueLater ==
    /\ \A n \in Node : node[n].syncDue = {}
    /\ \E n \in Node : Reexpress(n)

OtherTimers == \E n \in Node : Stabilize(n) \/ RetryRecovery(n)

ReliableNext ==
    \/ Delivery \/ DueAtOnce
    \/ NothingOnItsWay /\ (DueInASecond \/ DueLater \/ OtherTimers)
    \/ Publish(a)
    \/ \E n \in Node :
          \/ ReceiveDataAndPublish(n) \/ ReceiveRecoDataAndPublish(n)
          \/ ReportCumulative(n)

\* What the nodes and the network do by themselves.
Progress == Delivery \/ DueAtOnce \/ DueInASecond \/ DueLater

\* From the start, and from a recovery that has just begun.  The fairness says
\* only that nodes and network do not stop; nothing is assumed of the
\* application, nor of the timers that are not in Progress.
ConvergenceSpec ==
    /\ \/ Init
       \/ LET s == Reporting(Ahead, 2)
          IN  From(s, ProcessData(Behindhand, The(Reports(s))))
    /\ [][ReliableNext]_vars
    /\ WF_vars(Progress)

----------------------------------------------------------------------------
Unstable(n, r) == r > Max({node[n].stableRound, node[n].lastRecoveryRound})

Logged(m, q) ==
    {r \in LoggedRounds(node[m]) : LeafLogged(node[m], m, r) >= q}

\* What a node has logged of its own all others come to know: by the answer
\* to their Interests, or by fishing the round they have skipped or whose
\* digest differs.  No handler along the way may lose the round that is to be
\* asked for.  Data of a stable round is dropped: it takes a recovery.  What
\* is logged stays in the log, so this is to be so infinitely often.
Learned(n, m, q) == \/ node[n].state[m] >= q
                    \/ \E r \in Logged(m, q) : ~Unstable(n, r)

PublishedIsLearned ==
    []<>(\A m, n \in Node : \A q \in 1 .. Max({MaxSeq, MaxAnswer}) :
            Logged(m, q) # {} => Learned(n, m, q))

\* A recovery ends, and brings what the node asked knew when it answered
\* (953-980, 1133-1146, 1307-1419).
RecoveryCompletes ==
    []<>(\A n, u \in Node :
            u \in node[n].recoDue \cup node[n].recoAsked
                => /\ u \notin node[n].pendingReco
                   /\ \E p \in node[u].sentReco : Behind(p.state, node[n].state))

\* The logs of two nodes come to agree on a round, its digest and all, unless
\* one of them has made it stable: the Sync Interests that differ make both
\* fish until they do not (816-869).
LogsConverge ==
    []<>(\A m, n \in Node :
            \A r \in LoggedRounds(node[m]) \cap LoggedRounds(node[n]) :
                Unstable(m, r) /\ Unstable(n, r)
                    => node[m].log[r].rd = node[n].log[r].rd)
=============================================================================
