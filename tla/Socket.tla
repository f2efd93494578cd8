------------------------------ MODULE Socket ------------------------------
(***************************************************************************)
(* The application's side of RoundSync (class Socket): data is published   *)
(* under the next number of the session and kept in a store, Logic spreads *)
(* the numbers, the callback reports the missing ones, and the application *)
(* fetches them one by one, with retries.                                  *)
(*                                                                         *)
(* Of Logic only the packets are kept: a node may put any of its own       *)
(* commits or its whole state on the network at any time, and whatever is  *)
(* there reaches a node any number of times, in any order, or never, which *)
(* is also what Logic's dropping of old rounds amounts to.  Module         *)
(* RoundSync has the rest of it.                                           *)
(*                                                                         *)
(* An Interest for application data may reach its publisher late, more     *)
(* than once, or never; so may the data that answers it, from the          *)
(* publisher or from a cache.  A timer may expire at any moment.           *)
(***************************************************************************)
EXTENDS PacketContents

CONSTANTS Publishers,   \* bound: the nodes that publish
          Fetchers,     \* bound: the nodes whose fetches are modelled
          MaxSeq,       \* bound: the numbers of a session
          MaxPublished, \* bound: the numbers of all sessions together
          MaxPackets,   \* bound: the packets Logic sends
          MaxFetches,   \* bound: the numbers a node fetches
          Rounds,       \* bound: the rounds packets speak of
          Retries,      \* what fetchData() is given as nRetries
          HasValidator  \* m_validator is not NULL

ASSUME SocketAssumption ==
    /\ Publishers \subseteq Node /\ Fetchers \subseteq Node
    /\ MaxSeq \in Nat /\ MaxPublished \in Nat
    /\ MaxPackets \in Nat /\ MaxFetches \in Nat
    /\ Rounds \subseteq RoundNo \ {0} /\ Retries \subseteq Nat
    /\ HasValidator \in BOOLEAN

VARIABLES
    seqNo,      \* m_seqNo of each node's Logic
    state,      \* m_state of each node's Logic
    ims,        \* m_ims: the numbers whose data each node has stored
    packets,    \* the packets of Logic, with the content they were made of
    reported,   \* how often each number was reported missing to each node
    received,   \* the states each node has received
    fetch,      \* the last fetch of each number by each node
    served      \* the data that has left its publisher

vars == <<seqNo, state, ims, packets, reported, received, fetch, served>>
logic == <<seqNo, state, packets, reported, received>>

Numbers == 1 .. MaxSeq
NotFetched == [status |-> "none", nRetries |-> 0, left |-> 0, sent |-> 0,
               onTimeout |-> FALSE]

Init ==
    /\ seqNo = [n \in Node |-> 0]
    /\ state = [n \in Node |-> EmptyState]
    /\ ims = [n \in Node |-> {}]
    /\ packets = {}
    /\ reported = [n \in Node |-> [x \in Node |-> [q \in Numbers |-> 0]]]
    /\ received = [n \in Node |-> {}]
    /\ fetch = [n \in Node |-> [x \in Node |-> [q \in Numbers |-> NotFetched]]]
    /\ served = {}

----------------------------------------------------------------------------
(* Publication. *)

\* The data is stored under the number Logic is then told of.
StoredAsLast(n) == seqNo[n]                                         \* mutant

StoredAs(n) == seqNo[n] + 1

PublishData(n) ==
    /\ seqNo[n] < MaxSeq
    /\ Cardinality({xq \in Node \X Numbers : xq[2] <= seqNo[xq[1]]})
         < MaxPublished
    /\ ims' = [ims EXCEPT ![n] = @ \cup {StoredAs(n)}]
    /\ seqNo' = [seqNo EXCEPT ![n] = @ + 1]
    /\ state' = [state EXCEPT ![n] = Update(@, n, seqNo[n] + 1)]
    /\ UNCHANGED <<packets, reported, received, fetch, served>>

----------------------------------------------------------------------------
(* Packets of Logic. *)

Send(content, wire) ==
    /\ Cardinality(packets) < MaxPackets
    /\ packets' = packets \cup {[sent |-> content, wire |-> wire]}
    /\ UNCHANGED <<seqNo, state, ims, reported, received, fetch, served>>

\* A commit of its own, without or with the digest of an earlier round.
SendData(n) ==
    \E q \in 1 .. seqNo[n] :
        \E c \in [prefix : {{n}}, round : {0} \cup Rounds,
                  cd : {{}, {state[n]}},
                  state : {{Update(EmptyState, n, q)}}] :
            /\ c.round = 0 <=> c.cd = {}
            /\ WellFormed(c)
            /\ Send(c, EncodeData(c))

SendCumulativeOnly(n) ==
    \E r \in Rounds :
        LET c == [prefix |-> {n}, round |-> r, cd |-> {state[n]}, state |-> {}]
        IN  WellFormed(c) /\ Send(c, EncodeData(c))

\* The current round is past the first when a node is asked.
SendRecoData(n) ==
    \E r \in Rounds :
        LET c == [round |-> r, state |-> state[n]] IN Send(c, EncodeReco(c))

\* MissingDataInfo of each leaf that changes the state: update() says 0 for a
\* session it did not have.
OldSeq(st, x) == IF st[x] = NoLeaf THEN 0 ELSE st[x]
MissingFromOld(st, t) ==                                            \* mutant
    {[session |-> x, low |-> OldSeq(st, x), high |-> t[x]] :
        x \in {y \in Node : Changes(st, y, t[y])}}

Missing(st, t) ==
    {[session |-> x, low |-> OldSeq(st, x) + 1, high |-> t[x]] :
        x \in {y \in Node : Changes(st, y, t[y])}}

\* What the callback makes of them: each number is counted.
Report(count, missing) ==
    [x \in Node |-> [q \in Numbers |->
        count[x][q] + Cardinality({m \in missing :
                                     m.session = x /\ q \in m.low .. m.high})]]

Learn(n, t) ==
    /\ state' = [state EXCEPT ![n] = Plus(@, t)]
    /\ reported' = [reported EXCEPT ![n] = Report(@, Missing(state[n], t))]
    /\ received' = [received EXCEPT ![n] = @ \cup {t}]
    /\ UNCHANGED <<seqNo, ims, packets, fetch, served>>

\* The type of the packet says whether there is a state in it.
ReceiveData(n) ==
    \E p \in packets :
        \/ /\ p.wire.type \in {"DataOnly", "DataAndCumulative"}
           /\ Learn(n, The(DecodeData(p.wire).state))
        \/ p.wire.type = "CumulativeOnly" /\ UNCHANGED vars

ReceiveRecoData(n) ==
    \E p \in packets :
        /\ p.wire.type = "RecoveryData"
        /\ Learn(n, DecodeReco(p.wire).state)

----------------------------------------------------------------------------
(* Fetching. *)

MayFetch(n) ==
    Cardinality({xq \in Node \X Numbers :
                    fetch[n][xq[1]][xq[2]].status # "none"}) < MaxFetches

Expressed(k, onTimeout) ==
    [status |-> "pending", nRetries |-> k, left |-> k, sent |-> 1,
     onTimeout |-> onTimeout]

SetFetch(n, x, q, f) ==
    /\ fetch' = [fetch EXCEPT ![n][x][q] = f]
    /\ UNCHANGED <<logic, ims, served>>

\* The application fetches what it was told of, once.
FetchData(n, x, q) ==
    /\ reported[n][x][q] > 0
    /\ fetch[n][x][q].status = "none" /\ MayFetch(n)
    /\ \E k \in Retries : SetFetch(n, x, q, Expressed(k, FALSE))

\* With a timeout callback of its own: nRetries is not used, the application
\* is told, and may fetch again.
FetchDataOnTimeout(n, x, q) ==
    /\ reported[n][x][q] > 0
    /\ \/ fetch[n][x][q].status = "none" /\ MayFetch(n)
       \/ fetch[n][x][q].status = "timedOut"
    /\ SetFetch(n, x, q, Expressed(0, TRUE))

\* An Interest of node n reaches the publisher, which answers from its store.
OnInterest(n, x, q) ==
    /\ fetch[n][x][q].sent > 0
    /\ q \in ims[x]
    /\ served' = served \cup {<<x, q>>}
    /\ UNCHANGED <<logic, ims, fetch>>

\* The data counts as long as an Interest for it is pending.
OnData(n, x, q) ==
    LET f == fetch[n][x][q]
    IN  /\ f.status = "pending"
        /\ <<x, q>> \in served
        /\ \E result \in {"validated"}
                           \cup (IF HasValidator THEN {"failed"} ELSE {}) :
              SetFetch(n, x, q, [f EXCEPT !.status = result])

OnDataTimeoutOnceMore(f) ==                                         \* mutant
    IF f.left < 0 THEN [f EXCEPT !.status = "gaveUp"]
    ELSE [f EXCEPT !.left = @ - 1, !.sent = @ + 1]
OnDataTimeoutForEver(f) ==                                          \* mutant
    IF f.left <= 0 THEN [f EXCEPT !.status = "gaveUp"]
    ELSE [f EXCEPT !.sent = f.nRetries + 1]

OnDataTimeout(f) ==
    IF f.left <= 0 THEN [f EXCEPT !.status = "gaveUp"]
    ELSE [f EXCEPT !.left = @ - 1, !.sent = @ + 1]

Timeout(n, x, q) ==
    LET f == fetch[n][x][q]
    IN  /\ f.status = "pending"
        /\ SetFetch(n, x, q, IF f.onTimeout
                             THEN [f EXCEPT !.status = "timedOut"]
                             ELSE OnDataTimeout(f))

----------------------------------------------------------------------------
Next ==
    \/ \E n \in Publishers : PublishData(n)
    \/ \E n \in Node : \/ SendData(n) \/ SendCumulativeOnly(n)
                       \/ SendRecoData(n)
                       \/ ReceiveData(n) \/ ReceiveRecoData(n)
    \/ \E n \in Fetchers, x \in Node : \E q \in Numbers :
          \/ FetchData(n, x, q) \/ FetchDataOnTimeout(n, x, q)
          \/ OnInterest(n, x, q) \/ OnData(n, x, q) \/ Timeout(n, x, q)

Spec == Init /\ [][Next]_vars

\* The face's timers expire.
FairSpec ==
    /\ Spec
    /\ \A n \in Fetchers, x \in Node : \A q \in Numbers :
          WF_vars(Timeout(n, x, q))

----------------------------------------------------------------------------
(* Properties. *)

\* What was sent is received: a receiver finds in the packet the digest and
\* its round, who reports it, and the state, when there are any
\* (data-content.cpp:48-192, reco-data.cpp:42-122), and the packet's type, on
\* which it decides what to use, says which there are (logic.cpp:1192-1216).
ReceivedAsSent ==
    \A p \in packets :
        IF p.wire.type = "RecoveryData" THEN DecodeReco(p.wire) = p.sent
        ELSE LET c == DecodeData(p.wire)
             IN  /\ c.cd = p.sent.cd /\ c.round = p.sent.round
                 /\ c.cd # {} => c.prefix = p.sent.prefix
                 /\ c.state = p.sent.state
                 /\ c.state = {} <=> p.wire.type = "CumulativeOnly"

\* A number of another session is reported missing exactly once when the state
\* reaches it, whatever packets brought it, in whatever order and how often;
\* no number is skipped and none of the node's own is reported
\* (logic.cpp:1221-1259, 1327-1349; state.cpp:61-81).
ReportedOnce ==
    \A n, x \in Node : \A q \in Numbers :
        reported[n][x][q] = IF x # n /\ q <= state[n][x] THEN 1 ELSE 0

\* What is reported missing can be fetched: its publisher has stored it
\* (socket.cpp:80-93, 137-144).
ReportedIsStored ==
    \A n, x \in Node : \A q \in Numbers :
        reported[n][x][q] > 0 => q \in ims[x]

\* Whatever the order, the state holds of each session the newest number of
\* all that was received and of what the node has published
\* (state.cpp:61-81, 105-115): nodes with the same data have the same digest.
MergeIsUnion ==
    \A n \in Node :
        state[n] = PlusAll(IF seqNo[n] = 0 THEN EmptyState
                           ELSE Update(EmptyState, n, seqNo[n]),
                           received[n])

\* fetchData() gives up after the first Interest and all its retries, never
\* before, and never expresses more (socket.cpp:96-115, 159-172).
RetriesSpent ==
    \A n, x \in Node : \A q \in Numbers :
        LET f == fetch[n][x][q]
        IN  /\ f.sent <= f.nRetries + 1
            /\ f.status = "gaveUp" => f.sent = f.nRetries + 1

\* A fetch ends: with the data, with data that is not valid, or for want of
\* an answer (socket.cpp:146-172).
FetchEnds ==
    \A n \in Fetchers, x \in Publishers : \A q \in Numbers :
        fetch[n][x][q].status = "pending" ~> fetch[n][x][q].status # "pending"
=============================================================================
