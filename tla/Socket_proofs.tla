--------------------------- MODULE Socket_proofs ---------------------------
(***************************************************************************)
(* The Socket for any set of nodes, any numbers and any number of retries: *)
(* packets are received as they were sent, every missing number is         *)
(* reported once and has been stored, and retries are counted.             *)
(***************************************************************************)
EXTENDS Socket, SyncState_proofs

----------------------------------------------------------------------------
(* Encoding. *)

LEMMA TheOne == ASSUME NEW x PROVE The({x}) = x
  BY DEF The

\* Decoding a state gives the state that was encoded.
LEMMA StateRoundTrip ==
  ASSUME NEW st \in State
  PROVE  StateIn(StateBlock(st)) = st
<1> DEFINE L == StateBlock(st).leaves
           S == {Update(EmptyState, l.session, l.seq) : l \in L}
<1>1. ASSUME NEW x \in Node
      PROVE  Max({EmptyState[x]} \cup {t[x] : t \in S}) = st[x]
  <2> DEFINE T == {EmptyState[x]} \cup {t[x] : t \in S}
  <2>1. \A l \in L : /\ l.session \in Node /\ l.seq = st[l.session]
                     /\ st[l.session] # NoLeaf
    BY DEF StateBlock
  <2>2. st[x] # NoLeaf => [session |-> x, seq |-> st[x]] \in L
    BY DEF StateBlock
  <2>3. \A l \in L : Update(EmptyState, l.session, l.seq)[x]
                       = IF l.session = x THEN st[x] ELSE NoLeaf
    BY <2>1 DEF Update, EmptyState, NoLeaf, State
  <2> HIDE DEF L
  <2>4. T \subseteq {NoLeaf, st[x]} /\ EmptyState[x] = NoLeaf
    BY <2>3 DEF EmptyState
  <2>5. st[x] \in T
    <3>1. CASE st[x] = NoLeaf
      BY <2>4, <3>1
    <3>2. CASE st[x] # NoLeaf
      <4> DEFINE l == [session |-> x, seq |-> st[x]]
      <4>1. l \in L /\ l.session = x
        BY <2>2, <3>2
      <4> HIDE DEF l
      <4>2. Update(EmptyState, l.session, l.seq)[x] = st[x]
        BY <2>3, <4>1
      <4> QED BY <4>1, <4>2
    <3> QED BY <3>1, <3>2
  <2>6. st[x] \in Int /\ NoLeaf <= st[x] /\ NoLeaf \in Int
    BY DEF State, NoLeaf
  <2> HIDE DEF T
  <2>7. st[x] \in T /\ \A y \in T : st[x] >= y
    BY <2>4, <2>5, <2>6
  <2>8. \A m \in T : (\A y \in T : m >= y) => m = st[x]
    BY <2>4, <2>6, <2>7
  <2>9. Max(T) \in T /\ \A y \in T : Max(T) >= y
    BY <2>7 DEF Max
  <2>10. Max(T) = st[x]
    BY <2>8, <2>9
  <2> QED BY <2>10 DEF T
<1>2. StateIn(StateBlock(st)) = [x \in Node |-> st[x]]
  BY <1>1 DEF StateIn, PlusAll
<1> QED BY <1>2 DEF State

LEMMA RecoRoundTrip ==
  ASSUME NEW c \in RecoContent
  PROVE  /\ DecodeReco(EncodeReco(c)) = c
         /\ EncodeReco(c).type = "RecoveryData"
<1>1. c.state \in State /\ c = [round |-> c.round, state |-> c.state]
  BY DEF RecoContent
<1>2. StateIn(StateBlock(c.state)) = c.state
  BY <1>1, StateRoundTrip
<1> QED BY <1>1, <1>2 DEF DecodeReco, EncodeReco

\* What the receiver of a Data packet has: all but the name and the round of a
\* packet without a cumulative digest.
LEMMA DataRoundTrip ==
  ASSUME NEW c \in DataContent
  PROVE  LET d == DecodeData(EncodeData(c))
         IN  /\ d.cd = c.cd /\ d.state = c.state
             /\ d.prefix = IF c.cd = {} THEN {} ELSE c.prefix
             /\ d.round = IF c.cd = {} THEN 0 ELSE c.round
<1> DEFINE i == InfoBlocks(c)
           s == StateBlocks(c)
<1>1. c.cd = {} \/ \E x : c.cd = {x}
  BY DEF DataContent, Option
<1>2. c.state = {} \/ \E st \in State : c.state = {st}
  BY DEF DataContent, Option
<1>3. c.cd # {} => {The(c.cd)} = c.cd
  BY <1>1, TheOne
<1>4. c.state # {} => c.state = {StateIn(StateBlock(The(c.state)))}
  BY <1>2, TheOne, StateRoundTrip
<1>5. EncodeData(c).elements = i \o s
  BY DEF EncodeData
<1>6. /\ c.cd = {} => i \o s = s
      /\ c.cd # {} => /\ i \o s # <<>> /\ Head(i \o s) = i[1]
                      /\ Tail(i \o s) = s
  <2>1. s \in Seq({StateBlock(The(c.state))})
    <3> DEFINE b == StateBlock(The(c.state))
    <3>1. s = <<>> \/ s = <<b>>
      BY DEF StateBlocks
    <3> HIDE DEF s
    <3>2. s \in Seq({b})
      <4> HIDE DEF b
      <4>1. <<b>> \in Seq({b})
        OBVIOUS
      <4>2. <<>> \in Seq({b})
        OBVIOUS
      <4> QED BY <3>1, <4>1, <4>2
    <3> QED BY <3>2 DEF b
  <2>2. c.cd = {} => i = <<>>
    BY DEF InfoBlocks
  <2>3. c.cd # {} => \E e : i = <<e>>
    BY DEF InfoBlocks
  <2> HIDE DEF s, i
  <2>4. CASE c.cd = {}
    BY <2>1, <2>2, <2>4
  <2>5. CASE c.cd # {}
    <3> PICK e : i = <<e>>
      BY <2>3, <2>5
    <3> QED BY <2>1, <2>5
  <2> QED BY <2>4, <2>5
<1>7. /\ c.state = {} => ~IsNext(s, "State") /\ ~IsNext(s, "CumulativeInfo")
      /\ c.state # {} => /\ IsNext(s, "State") /\ ~IsNext(s, "CumulativeInfo")
                         /\ Head(s) = StateBlock(The(c.state))
  BY DEF StateBlocks, StateBlock, IsNext
<1>8. c.cd # {} => /\ i[1].type = "CumulativeInfo"
                   /\ i[1].elements[1] = c.prefix
                   /\ i[1].elements[2] = c.round
                   /\ i[1].elements[3] = The(c.cd)
  BY DEF InfoBlocks
<1> HIDE DEF i, s
<1>9. CASE c.cd = {}
  BY <1>4, <1>5, <1>6, <1>7, <1>9 DEF DecodeData
<1>10. CASE c.cd # {}
  <2>1. IsNext(i \o s, "CumulativeInfo")
    BY <1>6, <1>8, <1>10 DEF IsNext
  <2> QED BY <1>3, <1>4, <1>5, <1>6, <1>7, <1>8, <1>10, <2>1 DEF DecodeData
<1> QED BY <1>9, <1>10

\* The type of a packet says what is in it.
LEMMA DataTypeTells ==
  ASSUME NEW c \in DataContent, WellFormed(c)
  PROVE  /\ EncodeData(c).type # "RecoveryData"
         /\ c.state = {} <=> EncodeData(c).type = "CumulativeOnly"
  BY DEF EncodeData, DataType, WellFormed

----------------------------------------------------------------------------
(* The inductive invariant. *)

PublishedBy(t, s) ==
    t \in State /\ \A x \in Node : t[x] # 0 /\ t[x] <= s[x]

Own(n) == IF seqNo[n] = 0 THEN EmptyState ELSE Update(EmptyState, n, seqNo[n])

Fetch == [status : {"none", "pending", "validated", "failed", "gaveUp",
                    "timedOut"},
          nRetries : Nat, left : Nat, sent : Nat, onTimeout : BOOLEAN]

\* Every Interest a fetch may express is sent or left.
FetchOK(f) ==
    /\ f \in Fetch
    /\ f.sent + f.left <= f.nRetries + 1
    /\ f.status # "none" => f.sent + f.left = f.nRetries + 1
    /\ f.status = "gaveUp" => f.left = 0

PacketOK(p) ==
    \/ \E c \in RecoContent :
          /\ p = [sent |-> c, wire |-> EncodeReco(c)]
          /\ PublishedBy(c.state, seqNo)
    \/ \E c \in DataContent :
          /\ p = [sent |-> c, wire |-> EncodeData(c)]
          /\ WellFormed(c)
          /\ c.cd = {} => c.round = 0
          /\ \A st \in c.state : PublishedBy(st, seqNo)

Types ==
    /\ seqNo \in [Node -> Nat]
    /\ state \in [Node -> State]
    /\ ims \in [Node -> SUBSET Nat]
    /\ reported \in [Node -> [Node -> [Numbers -> Nat]]]
    /\ received \in [Node -> SUBSET State]

StoresOK == \A n \in Node : \A q \in 1 .. seqNo[n] : q \in ims[n]

StatesOK ==
    \A n \in Node : /\ PublishedBy(state[n], seqNo)
                    /\ state[n][n] = IF seqNo[n] = 0 THEN NoLeaf ELSE seqNo[n]

ReceivedOK ==
    \A n \in Node : /\ IsFiniteSet(received[n])
                    /\ \A t \in received[n] : PublishedBy(t, seqNo)

PacketsOK == \A p \in packets : PacketOK(p)

FetchesOK ==
    /\ fetch \in [Node -> [Node -> [Numbers -> Fetch]]]
    /\ \A n, x \in Node : \A q \in Numbers : FetchOK(fetch[n][x][q])

SocketInv == /\ Types /\ StoresOK /\ StatesOK /\ ReceivedOK /\ PacketsOK
        /\ FetchesOK /\ ReportedOnce /\ MergeIsUnion

LEMMA NothingReceived == PlusAll(EmptyState, {}) = EmptyState
<1>1. ASSUME NEW x \in Node PROVE PlusAll(EmptyState, {})[x] = EmptyState[x]
  <2>1. PlusAll(EmptyState, {})[x] \in {EmptyState[x]}
    BY PlusAllGreatest, EmptyStateType, FS_EmptySet
  <2> QED BY <2>1
<1> QED BY <1>1 DEF PlusAll, EmptyState

LEMMA SocketInvInitially == Init => SocketInv
<1> SUFFICES ASSUME Init PROVE SocketInv
  OBVIOUS
<1>1. NotFetched \in Fetch /\ FetchOK(NotFetched)
  BY DEF NotFetched, Fetch, FetchOK
<1>2. FetchesOK
  BY <1>1 DEF Init, FetchesOK
<1>3. Types
  BY EmptyStateType DEF Init, Types
<1>4. StatesOK /\ StoresOK
  BY EmptyStateType
     DEF Init, StatesOK, StoresOK, PublishedBy, EmptyState, NoLeaf
<1>5. ReceivedOK /\ PacketsOK
  BY FS_EmptySet DEF Init, ReceivedOK, PacketsOK
<1>6. ReportedOnce
  BY DEF Init, ReportedOnce, EmptyState, NoLeaf, Numbers
<1>7. MergeIsUnion
  BY NothingReceived DEF Init, MergeIsUnion
<1> QED BY <1>2, <1>3, <1>4, <1>5, <1>6, <1>7 DEF SocketInv

----------------------------------------------------------------------------
(* Publication. *)

\* Merging a state and then a leaf, or a state and one more.
LEMMA PlusAllLeaf ==
  ASSUME NEW s \in State, NEW t \in State, NEW S \in SUBSET State,
         NEW n \in Node, IsFiniteSet(S), s[n] <= t[n],
         \A x \in Node \ {n} : s[x] = t[x],
         \A u \in S : u[n] <= t[n]
  PROVE  PlusAll(t, S) = [PlusAll(s, S) EXCEPT ![n] = t[n]]
<1>1. PlusAll(s, S) \in State /\ PlusAll(t, S) \in State
  BY PlusAllType
<1>2. ASSUME NEW x \in Node, x # n PROVE PlusAll(t, S)[x] = PlusAll(s, S)[x]
  BY <1>2 DEF PlusAll
<1>3. PlusAll(t, S)[n] = t[n]
  <2>1. /\ PlusAll(t, S)[n] \in {t[n]} \cup {u[n] : u \in S}
        /\ t[n] <= PlusAll(t, S)[n]
    BY PlusAllGreatest
  <2>2. t[n] \in Int /\ \A u \in S : u[n] \in Int
    BY DEF State, NoLeaf
  <2> QED BY <2>1, <2>2
<1>4. ASSUME NEW x \in Node
      PROVE  PlusAll(t, S)[x] = [PlusAll(s, S) EXCEPT ![n] = t[n]][x]
  BY <1>1, <1>2, <1>3 DEF State
<1> QED BY <1>1, <1>4 DEF State

LEMMA PlusAllOneMore ==
  ASSUME NEW s \in State, NEW t \in State, NEW S \in SUBSET State,
         IsFiniteSet(S)
  PROVE  PlusAll(s, S \cup {t}) = Plus(PlusAll(s, S), t)
<1> DEFINE T == S \cup {t}
           p == PlusAll(s, S)
<1>1. IsFiniteSet(T) /\ T \in SUBSET State
  BY FS_AddElement
<1>2. p \in State /\ PlusAll(s, T) \in State
  BY <1>1, PlusAllType
<1>3. ASSUME NEW x \in Node
      PROVE  PlusAll(s, T)[x] = IF p[x] < t[x] THEN t[x] ELSE p[x]
  <2>1. /\ p[x] \in {s[x]} \cup {u[x] : u \in S}
        /\ s[x] <= p[x] /\ \A u \in S : u[x] <= p[x]
    BY PlusAllGreatest
  <2>2. /\ PlusAll(s, T)[x] \in {s[x]} \cup {u[x] : u \in T}
        /\ s[x] <= PlusAll(s, T)[x] /\ \A u \in T : u[x] <= PlusAll(s, T)[x]
    BY <1>1, PlusAllGreatest
  <2>3. p[x] \in Int /\ t[x] \in Int /\ PlusAll(s, T)[x] \in Int
    BY <1>2 DEF State, NoLeaf
  <2> HIDE DEF p
  <2>4. t[x] <= PlusAll(s, T)[x] /\ p[x] <= PlusAll(s, T)[x]
    BY <2>1, <2>2
  <2>5. PlusAll(s, T)[x] <= p[x] \/ PlusAll(s, T)[x] = t[x]
    BY <2>1, <2>2
  <2> QED BY <2>3, <2>4, <2>5
<1>4. ASSUME NEW x \in Node PROVE PlusAll(s, T)[x] = Plus(p, t)[x]
  BY <1>3 DEF Plus
<1>5. Plus(p, t) \in State
  BY <1>2, PlusType
<1> HIDE DEF p, T
<1> QED BY <1>2, <1>4, <1>5 DEF State, p, T

LEMMA OwnFacts ==
  ASSUME Types, NEW n \in Node
  PROVE  /\ Own(n) \in State
         /\ \A x \in Node \ {n} : Own(n)[x] = NoLeaf
         /\ Own(n)[n] = IF seqNo[n] = 0 THEN NoLeaf ELSE seqNo[n]
<1>1. seqNo[n] \in Nat
  BY DEF Types
<1>2. EmptyState \in State /\ Update(EmptyState, n, seqNo[n]) \in State
  BY <1>1, EmptyStateType, UpdateType DEF SeqNo
<1> QED BY <1>1, <1>2 DEF Own, Update, EmptyState, NoLeaf

LEMMA PublishKeepsSocketInv ==
  ASSUME SocketInv, NEW n \in Node, PublishData(n)
  PROVE  SocketInv'
<1> DEFINE q == seqNo[n] + 1
<1>1. /\ Types /\ StoresOK /\ StatesOK /\ ReceivedOK /\ PacketsOK
      /\ FetchesOK /\ ReportedOnce /\ MergeIsUnion
  BY DEF SocketInv
<1>2. /\ q \in Nat /\ q # 0 /\ seqNo[n] \in Nat /\ state[n] \in State
      /\ seqNo' = [seqNo EXCEPT ![n] = q]
      /\ state' = [state EXCEPT ![n] = Update(state[n], n, q)]
      /\ ims' = [ims EXCEPT ![n] = @ \cup {q}]
      /\ UNCHANGED <<packets, reported, received, fetch, served>>
  BY <1>1 DEF PublishData, Types, StoredAs
<1> HIDE DEF q
<1>3. /\ \A x \in Node : seqNo'[x] = IF x = n THEN q ELSE seqNo[x]
      /\ \A x \in Node : state'[x] = IF x = n THEN Update(state[n], n, q)
                                     ELSE state[x]
      /\ \A x \in Node : seqNo[x] \in Nat /\ state[x] \in State
  BY <1>1, <1>2 DEF Types
<1>3a. q = seqNo[n] + 1
  BY DEF q
<1>4. /\ Update(state[n], n, q) \in State
      /\ Update(state[n], n, q)[n] = q
      /\ \A x \in Node \ {n} : Update(state[n], n, q)[x] = state[n][x]
  <2>1. state[n][n] = IF seqNo[n] = 0 THEN NoLeaf ELSE seqNo[n]
    BY <1>1 DEF StatesOK
  <2> QED BY <1>2, <1>3a, <2>1, UpdateType DEF Update, SeqNo, NoLeaf, State
<1>5. \A st : PublishedBy(st, seqNo) => PublishedBy(st, seqNo')
  <2> SUFFICES ASSUME NEW st \in State, PublishedBy(st, seqNo),
                      NEW x \in Node
               PROVE  st[x] # 0 /\ st[x] <= seqNo'[x]
    BY DEF PublishedBy
  <2>1. st[x] \in Int /\ st[x] # 0 /\ st[x] <= seqNo[x]
    BY DEF PublishedBy, State, NoLeaf
  <2> QED BY <1>2, <1>3, <1>3a, <2>1
<1>6. Types'
  BY <1>1, <1>2, <1>4 DEF Types
<1>7. StoresOK'
  <2> SUFFICES ASSUME NEW x \in Node, NEW k \in 1 .. seqNo'[x]
               PROVE  k \in ims'[x]
    BY DEF StoresOK
  <2>1. ims'[x] = IF x = n THEN ims[n] \cup {q} ELSE ims[x]
    BY <1>1, <1>2 DEF Types
  <2>2. \A j \in 1 .. seqNo[x] : j \in ims[x]
    BY <1>1 DEF StoresOK
  <2> QED BY <1>2, <1>3, <1>3a, <2>1, <2>2
<1>8. StatesOK'
  <2> SUFFICES ASSUME NEW x \in Node
               PROVE  /\ PublishedBy(state'[x], seqNo')
                      /\ state'[x][x] = IF seqNo'[x] = 0 THEN NoLeaf
                                        ELSE seqNo'[x]
    BY DEF StatesOK
  <2>1. PublishedBy(state[x], seqNo') /\ PublishedBy(state[n], seqNo')
    BY <1>1, <1>5 DEF StatesOK
  <2>2. CASE x = n
    <3>1. \A y \in Node : /\ state'[n][y] # 0
                          /\ state'[n][y] <= seqNo'[y]
      BY <1>1, <1>2, <1>3, <1>4, <1>5 DEF StatesOK, PublishedBy
    <3>2. state'[n] \in State /\ state'[n][n] = q /\ seqNo'[n] = q
      BY <1>3, <1>4
    <3> QED BY <1>2, <2>2, <3>1, <3>2 DEF PublishedBy
  <2>3. CASE x # n
    BY <1>1, <1>3, <1>5, <2>3 DEF StatesOK
  <2> QED BY <2>2, <2>3
<1>9. ReceivedOK'
  BY <1>1, <1>2, <1>5 DEF ReceivedOK
<1>10. PacketsOK'
  <2> SUFFICES ASSUME NEW p \in packets PROVE PacketOK(p)'
    BY <1>2 DEF PacketsOK
  <2>1. PacketOK(p)
    BY <1>1 DEF PacketsOK
  <2> QED BY <1>5, <2>1 DEF PacketOK
<1>11. FetchesOK'
  BY <1>1, <1>2 DEF FetchesOK, FetchOK
<1>12. ReportedOnce'
  <2> SUFFICES ASSUME NEW m \in Node, NEW x \in Node, NEW k \in Numbers
               PROVE  reported'[m][x][k]
                        = IF x # m /\ k <= state'[m][x] THEN 1 ELSE 0
    BY DEF ReportedOnce
  <2>1. reported'[m][x][k] = IF x # m /\ k <= state[m][x] THEN 1 ELSE 0
    BY <1>1, <1>2 DEF ReportedOnce
  <2>2. x # m => state'[m][x] = state[m][x]
    BY <1>3, <1>4
  <2> QED BY <2>1, <2>2
<1>13. MergeIsUnion'
  <2> SUFFICES ASSUME NEW x \in Node
               PROVE  state'[x] = PlusAll(Own(x)', received[x])
    BY <1>2 DEF MergeIsUnion, Own
  <2>1. state[x] = PlusAll(Own(x), received[x])
    BY <1>1 DEF MergeIsUnion, Own
  <2>2. CASE x # n
    BY <1>3, <2>1, <2>2 DEF Own
  <2>3. CASE x = n
    <3>1. /\ Own(n) \in State /\ Own(n)' \in State
          /\ \A y \in Node \ {n} : Own(n)[y] = (Own(n)')[y]
          /\ Own(n)[n] = IF seqNo[n] = 0 THEN NoLeaf ELSE seqNo[n]
          /\ (Own(n)')[n] = q
      <4>1. /\ Own(n)' \in State
            /\ \A y \in Node \ {n} : (Own(n)')[y] = NoLeaf
            /\ (Own(n)')[n] = IF seqNo'[n] = 0 THEN NoLeaf ELSE seqNo'[n]
        BY <1>2, <1>3, EmptyStateType, UpdateType
           DEF Own, Update, EmptyState, NoLeaf, SeqNo
      <4> QED BY <1>1, <1>2, <1>3, <4>1, OwnFacts
    <3>2. Own(n)[n] <= q /\ \A u \in received[n] : u[n] <= q
      <4>1. \A u \in received[n] : u[n] \in Int /\ u[n] <= seqNo[n]
        BY <1>1 DEF ReceivedOK, PublishedBy, State, NoLeaf
      <4> QED BY <1>2, <1>3a, <3>1, <4>1 DEF NoLeaf
    <3>3. received[n] \in SUBSET State /\ IsFiniteSet(received[n])
      BY <1>1 DEF Types, ReceivedOK
    <3> DEFINE s == Own(n)
               t == Own(n)'
               R == received[n]
    <3>4. s \in State /\ t \in State /\ t[n] = q
      BY <3>1
    <3>4a. \A y \in Node \ {n} : s[y] = t[y]
      BY <3>1
    <3>4b. s[n] <= t[n] /\ \A u \in R : u[n] <= t[n]
      BY <3>1, <3>2
    <3>3a. R \in SUBSET State /\ IsFiniteSet(R)
      BY <3>3
    <3> HIDE DEF s, t
    <3>5. PlusAll(t, R) = [PlusAll(s, R) EXCEPT ![n] = q]
      <4> HIDE DEF R
      <4>1. PlusAll(t, R) = [PlusAll(s, R) EXCEPT ![n] = t[n]]
        BY <3>3a, <3>4, <3>4a, <3>4b, PlusAllLeaf
      <4> QED BY <3>4, <4>1
    <3>6. Update(state[n], n, q) = [state[n] EXCEPT ![n] = q]
      BY <1>2, <1>4 DEF Update, State
    <3> QED BY <1>3, <2>1, <2>3, <3>5, <3>6 DEF s, t
  <2> QED BY <2>2, <2>3
<1> QED BY <1>6, <1>7, <1>8, <1>9, <1>10, <1>11, <1>12, <1>13 DEF SocketInv

----------------------------------------------------------------------------
(* Packets. *)

\* What a receiver takes from a packet is a state somebody had.
LEMMA StateReceived ==
  ASSUME NEW p, PacketOK(p)
  PROVE  /\ p.wire.type \in {"DataOnly", "DataAndCumulative"} =>
               PublishedBy(The(DecodeData(p.wire).state), seqNo)
         /\ p.wire.type = "RecoveryData" =>
               PublishedBy(DecodeReco(p.wire).state, seqNo)
<1>1. ASSUME NEW c \in RecoContent, p = [sent |-> c, wire |-> EncodeReco(c)],
             PublishedBy(c.state, seqNo)
      PROVE  /\ p.wire.type = "RecoveryData"
             /\ PublishedBy(DecodeReco(p.wire).state, seqNo)
  BY <1>1, RecoRoundTrip
<1>2. ASSUME NEW c \in DataContent, p = [sent |-> c, wire |-> EncodeData(c)],
             WellFormed(c), \A st \in c.state : PublishedBy(st, seqNo)
      PROVE  /\ p.wire.type # "RecoveryData"
             /\ p.wire.type \in {"DataOnly", "DataAndCumulative"} =>
                   PublishedBy(The(DecodeData(p.wire).state), seqNo)
  <2>1. /\ p.wire.type # "RecoveryData"
        /\ c.state = {} => p.wire.type = "CumulativeOnly"
        /\ DecodeData(p.wire).state = c.state
    BY <1>2, DataTypeTells, DataRoundTrip
  <2>2. c.state = {} \/ \E st : c.state = {st}
    BY DEF DataContent, Option
  <2>3. ASSUME c.state # {} PROVE The(c.state) \in c.state
    BY <2>2, <2>3, TheOne
  <2> QED BY <1>2, <2>1, <2>3
<1> QED BY <1>1, <1>2 DEF PacketOK

\* Each number above the old one, up to the new one, is reported once.
LEMMA ReportFacts ==
  ASSUME NEW st \in State, NEW t \in State,
         NEW count \in [Node -> [Numbers -> Nat]],
         NEW x \in Node, NEW q \in Numbers
  PROVE  /\ Report(count, Missing(st, t))[x][q]
               = count[x][q]
                   + IF st[x] < t[x] /\ OldSeq(st, x) < q /\ q <= t[x]
                     THEN 1 ELSE 0
         /\ Report(count, Missing(st, t)) \in [Node -> [Numbers -> Nat]]
<1> DEFINE On(y, k) == {m \in Missing(st, t) :
                          m.session = y /\ k \in m.low .. m.high}
<1>1. ASSUME NEW y \in Node, NEW k \in Numbers
      PROVE  Cardinality(On(y, k))
               = IF st[y] < t[y] /\ OldSeq(st, y) < k /\ k <= t[y]
                 THEN 1 ELSE 0
  <2> DEFINE info == [session |-> y, low |-> OldSeq(st, y) + 1, high |-> t[y]]
  <2>1. k \in Int /\ OldSeq(st, y) \in Int /\ st[y] \in Int /\ t[y] \in Int
    BY SocketAssumption DEF Numbers, OldSeq, State, NoLeaf
  <2>2. \A m \in Missing(st, t) :
          m.session = y => m = info /\ st[y] < t[y]
    BY DEF Missing, Changes
  <2>3. st[y] < t[y] => info \in Missing(st, t)
    BY DEF Missing, Changes
  <2>4. info.session = y /\ info.low = OldSeq(st, y) + 1 /\ info.high = t[y]
    OBVIOUS
  <2> HIDE DEF info
  <2>5. CASE st[y] < t[y] /\ OldSeq(st, y) < k /\ k <= t[y]
    <3>1. k \in info.low .. info.high
      BY <2>1, <2>4, <2>5
    <3>2. On(y, k) = {info}
      BY <2>2, <2>3, <2>4, <2>5, <3>1
    <3> QED BY <2>5, <3>2, FS_Singleton
  <2>6. CASE ~(st[y] < t[y] /\ OldSeq(st, y) < k /\ k <= t[y])
    <3>1. st[y] < t[y] => k \notin info.low .. info.high
      BY <2>1, <2>4, <2>6
    <3>2. On(y, k) = {}
      BY <2>2, <3>1
    <3> QED BY <2>6, <3>2, FS_EmptySet
  <2> QED BY <2>5, <2>6
<1>2. Report(count, Missing(st, t))
        = [y \in Node |-> [k \in Numbers |-> count[y][k]
                                               + Cardinality(On(y, k))]]
  BY DEF Report
<1> HIDE DEF On
<1>3. \A y \in Node : \A k \in Numbers :
        Cardinality(On(y, k)) \in Nat /\ count[y][k] \in Nat
  BY <1>1
<1> QED BY <1>1, <1>2, <1>3

LEMMA LearnKeepsSocketInv ==
  ASSUME SocketInv, NEW n \in Node, NEW t, PublishedBy(t, seqNo), Learn(n, t)
  PROVE  SocketInv'
<1>1. /\ Types /\ StoresOK /\ StatesOK /\ ReceivedOK /\ PacketsOK
      /\ FetchesOK /\ ReportedOnce /\ MergeIsUnion
  BY DEF SocketInv
<1> DEFINE p == Plus(state[n], t)
           r == Report(reported[n], Missing(state[n], t))
<1>2. /\ t \in State /\ state[n] \in State /\ p \in State
      /\ reported[n] \in [Node -> [Numbers -> Nat]]
  BY <1>1, PlusType DEF Types, PublishedBy
<1>3. /\ state' = [state EXCEPT ![n] = p]
      /\ reported' = [reported EXCEPT ![n] = r]
      /\ received' = [received EXCEPT ![n] = @ \cup {t}]
      /\ UNCHANGED <<seqNo, ims, packets, fetch, served>>
  BY DEF Learn
<1>4. \A x \in Node : p[x] = IF state[n][x] < t[x] THEN t[x] ELSE state[n][x]
  BY DEF Plus
<1>5. /\ r \in [Node -> [Numbers -> Nat]]
      /\ \A x \in Node : \A q \in Numbers :
           r[x][q] = reported[n][x][q]
                       + IF state[n][x] < t[x] /\ OldSeq(state[n], x) < q
                            /\ q <= t[x]
                         THEN 1 ELSE 0
  <2>1. ASSUME NEW x \in Node, NEW q \in Numbers
        PROVE  /\ r \in [Node -> [Numbers -> Nat]]
               /\ r[x][q] = reported[n][x][q]
                       + IF state[n][x] < t[x] /\ OldSeq(state[n], x) < q
                            /\ q <= t[x]
                         THEN 1 ELSE 0
    BY <1>2, ReportFacts
  <2>2. r \in [Node -> [Numbers -> Nat]]
    <3>1. CASE Numbers = {}
      BY <3>1 DEF Report
    <3>2. CASE Numbers # {}
      BY <2>1, <3>2
    <3> QED BY <3>1, <3>2
  <2> QED BY <2>1, <2>2
<1> HIDE DEF p, r
<1>6. Types'
  BY <1>1, <1>2, <1>3, <1>5 DEF Types
<1>7. StoresOK' /\ FetchesOK'
  BY <1>1, <1>3 DEF StoresOK, FetchesOK, FetchOK
<1>8. /\ \A x \in Node : p[x] # 0 /\ p[x] <= seqNo[x]
      /\ p[n] = state[n][n]
  <2>1. /\ \A x \in Node : /\ t[x] # 0 /\ t[x] <= seqNo[x]
                           /\ state[n][x] # 0 /\ state[n][x] <= seqNo[x]
        /\ state[n][n] = IF seqNo[n] = 0 THEN NoLeaf ELSE seqNo[n]
    BY <1>1 DEF StatesOK, PublishedBy
  <2>2. \A x \in Node : t[x] \in Nat \cup {NoLeaf} /\ seqNo[x] \in Nat
    BY <1>1, <1>2 DEF Types, State
  <2>3. ~(state[n][n] < t[n])
    BY <2>1, <2>2 DEF NoLeaf
  <2> QED BY <1>4, <2>1, <2>3
<1>9. StatesOK'
  <2> SUFFICES ASSUME NEW x \in Node
               PROVE  /\ PublishedBy(state'[x], seqNo)
                      /\ state'[x][x] = IF seqNo[x] = 0 THEN NoLeaf
                                        ELSE seqNo[x]
    BY <1>3 DEF StatesOK
  <2> QED BY <1>1, <1>2, <1>3, <1>8 DEF StatesOK, PublishedBy, Types
<1>10. ReceivedOK'
  <2> SUFFICES ASSUME NEW x \in Node
               PROVE  /\ IsFiniteSet(received'[x])
                      /\ \A u \in received'[x] : PublishedBy(u, seqNo)
    BY <1>3 DEF ReceivedOK
  <2>1. received'[x] = IF x = n THEN received[n] \cup {t} ELSE received[x]
    BY <1>1, <1>3 DEF Types
  <2>2. \A y \in Node : IsFiniteSet(received[y])
    BY <1>1 DEF ReceivedOK
  <2>3. IsFiniteSet(received[n] \cup {t})
    BY <2>2, FS_AddElement
  <2> QED BY <1>1, <2>1, <2>2, <2>3 DEF ReceivedOK
<1>11. PacketsOK'
  BY <1>1, <1>3 DEF PacketsOK, PacketOK
<1>12. ReportedOnce'
  <2> SUFFICES ASSUME NEW m \in Node, NEW x \in Node, NEW q \in Numbers
               PROVE  reported'[m][x][q]
                        = IF x # m /\ q <= state'[m][x] THEN 1 ELSE 0
    BY DEF ReportedOnce
  <2>1. reported[m][x][q] = IF x # m /\ q <= state[m][x] THEN 1 ELSE 0
    BY <1>1 DEF ReportedOnce
  <2>2. CASE m # n
    BY <1>1, <1>3, <2>1, <2>2 DEF Types
  <2>3. CASE m = n
    <3>1. reported'[m][x][q] = r[x][q] /\ state'[m][x] = p[x]
      BY <1>1, <1>3, <2>3 DEF Types
    <3>2. /\ r[x][q] = reported[n][x][q]
                       + IF state[n][x] < t[x] /\ OldSeq(state[n], x) < q
                            /\ q <= t[x]
                         THEN 1 ELSE 0
          /\ p[x] = IF state[n][x] < t[x] THEN t[x] ELSE state[n][x]
      BY <1>4, <1>5
    <3>3. /\ q \in Nat /\ q > 0 /\ t[x] \in Int /\ state[n][x] \in Int
          /\ OldSeq(state[n], x) = IF state[n][x] = NoLeaf THEN 0
                                   ELSE state[n][x]
      BY <1>2, SocketAssumption DEF Numbers, OldSeq, State, NoLeaf
    <3>4. x = n => ~(state[n][x] < t[x])
      <4>1. CASE x = n
        <5>1. p[n] = IF state[n][n] < t[n] THEN t[n] ELSE state[n][n]
          BY <1>4
        <5> QED BY <1>8, <3>3, <4>1, <5>1
      <4> QED BY <4>1
    <3>5. OldSeq(state[n], x) < q <=> state[n][x] < q
      BY <3>3 DEF NoLeaf
    <3> QED BY <2>1, <2>3, <3>1, <3>2, <3>3, <3>4, <3>5
  <2> QED BY <2>2, <2>3
<1>13. MergeIsUnion'
  <2> SUFFICES ASSUME NEW x \in Node
               PROVE  state'[x] = PlusAll(Own(x), received'[x])
    BY <1>3 DEF MergeIsUnion, Own
  <2>1. /\ state[x] = PlusAll(Own(x), received[x])
        /\ Own(x) \in State /\ received[x] \in SUBSET State
        /\ IsFiniteSet(received[x])
    BY <1>1, OwnFacts DEF MergeIsUnion, Own, Types, ReceivedOK
  <2>2. CASE x # n
    BY <1>1, <1>3, <2>1, <2>2 DEF Types
  <2>3. CASE x = n
    <3>1. state'[n] = p /\ received'[n] = received[n] \cup {t}
      BY <1>1, <1>3 DEF Types
    <3>2. PlusAll(Own(n), received[n] \cup {t})
            = Plus(PlusAll(Own(n), received[n]), t)
      BY <1>2, <2>1, <2>3, PlusAllOneMore
    <3> QED BY <2>1, <2>3, <3>1, <3>2 DEF p
  <2> QED BY <2>2, <2>3
<1> QED BY <1>6, <1>7, <1>9, <1>10, <1>11, <1>12, <1>13 DEF SocketInv

LEMMA SendKeepsSocketInv ==
  ASSUME SocketInv, NEW c, NEW w, Send(c, w),
         PacketOK([sent |-> c, wire |-> w])
  PROVE  SocketInv'
<1>1. /\ packets' = packets \cup {[sent |-> c, wire |-> w]}
      /\ UNCHANGED <<seqNo, state, ims, reported, received, fetch, served>>
  BY DEF Send
<1>2. PacketsOK'
  BY <1>1 DEF SocketInv, PacketsOK, PacketOK
<1> QED BY <1>1, <1>2
        DEF SocketInv, Types, StoresOK, StatesOK, ReceivedOK, FetchesOK,
            FetchOK, ReportedOnce, MergeIsUnion

LEMMA SendsKeepSocketInv ==
  ASSUME SocketInv, NEW n \in Node,
         SendData(n) \/ SendCumulativeOnly(n) \/ SendRecoData(n)
  PROVE  SocketInv'
<1>1. /\ state[n] \in State /\ PublishedBy(state[n], seqNo)
      /\ seqNo \in [Node -> Nat]
  BY DEF SocketInv, Types, StatesOK
<1>2. Rounds \subseteq RoundNo /\ 0 \in RoundNo
  BY SocketAssumption DEF RoundNo
<1>3. {} \in Option(Digest) /\ {state[n]} \in Option(Digest)
      /\ {} \in Option(State) /\ {n} \in Option(Node)
  BY <1>1 DEF Option, Digest
<1>4. ASSUME SendData(n) PROVE SocketInv'
  <2>1. PICK q \in 1 .. seqNo[n] :
          \E c \in [prefix : {{n}}, round : {0} \cup Rounds,
                    cd : {{}, {state[n]}},
                    state : {{Update(EmptyState, n, q)}}] :
            /\ c.round = 0 <=> c.cd = {}
            /\ WellFormed(c)
            /\ Send(c, EncodeData(c))
    BY <1>4 DEF SendData
  <2> DEFINE u == Update(EmptyState, n, q)
  <2>2. PICK c \in [prefix : {{n}}, round : {0} \cup Rounds,
                    cd : {{}, {state[n]}}, state : {{u}}] :
            /\ c.round = 0 <=> c.cd = {}
            /\ WellFormed(c)
            /\ Send(c, EncodeData(c))
    BY <2>1
  <2>3. q \in Nat /\ q # 0 /\ q <= seqNo[n] /\ \A x \in Node : seqNo[x] \in Nat
    BY <1>1
  <2>4. u \in State
    BY <2>3, EmptyStateType, UpdateType DEF SeqNo
  <2>5. \A x \in Node : u[x] = IF x = n THEN q ELSE NoLeaf
    BY <2>3 DEF Update, EmptyState, NoLeaf
  <2>6. PublishedBy(u, seqNo)
    BY <2>3, <2>4, <2>5 DEF PublishedBy, NoLeaf
  <2> HIDE DEF u
  <2>7. {u} \in Option(State)
    BY <2>4 DEF Option
  <2>8. c \in DataContent /\ c.state = {u}
    BY <1>2, <1>3, <2>7 DEF DataContent
  <2>9. PacketOK([sent |-> c, wire |-> EncodeData(c)])
    BY <2>2, <2>6, <2>8 DEF PacketOK
  <2> QED BY <2>2, <2>9, SendKeepsSocketInv
<1>5. ASSUME SendCumulativeOnly(n) PROVE SocketInv'
  <2>1. PICK r \in Rounds :
          LET c == [prefix |-> {n}, round |-> r, cd |-> {state[n]},
                    state |-> {}]
          IN  WellFormed(c) /\ Send(c, EncodeData(c))
    BY <1>5 DEF SendCumulativeOnly
  <2> DEFINE c == [prefix |-> {n}, round |-> r, cd |-> {state[n]}, state |-> {}]
  <2>2. c \in DataContent /\ c.cd # {} /\ c.state = {}
    BY <1>2, <1>3 DEF DataContent
  <2>3. WellFormed(c) /\ Send(c, EncodeData(c))
    BY <2>1
  <2> HIDE DEF c
  <2>4. PacketOK([sent |-> c, wire |-> EncodeData(c)])
    BY <2>2, <2>3 DEF PacketOK
  <2> QED BY <2>3, <2>4, SendKeepsSocketInv
<1>6. ASSUME SendRecoData(n) PROVE SocketInv'
  <2>1. PICK r \in Rounds : LET c == [round |-> r, state |-> state[n]]
                            IN  Send(c, EncodeReco(c))
    BY <1>6 DEF SendRecoData
  <2> DEFINE c == [round |-> r, state |-> state[n]]
  <2>2. c \in RecoContent /\ c.state = state[n]
    BY <1>1, <1>2 DEF RecoContent
  <2>3. Send(c, EncodeReco(c))
    BY <2>1
  <2> HIDE DEF c
  <2>4. PacketOK([sent |-> c, wire |-> EncodeReco(c)])
    BY <1>1, <2>2 DEF PacketOK
  <2> QED BY <2>3, <2>4, SendKeepsSocketInv
<1> QED BY <1>4, <1>5, <1>6

\* What has left a publisher is no part of the invariant.
LEMMA UnchangedKeepsSocketInv ==
  ASSUME SocketInv,
         UNCHANGED <<seqNo, state, ims, packets, reported, received, fetch>>
  PROVE  SocketInv'
<1>1. Types' /\ StoresOK'
  BY DEF SocketInv, Types, StoresOK
<1>2. StatesOK' /\ ReceivedOK'
  BY DEF SocketInv, StatesOK, ReceivedOK
<1>3. PacketsOK'
  <2>1. ASSUME NEW p \in packets PROVE PacketOK(p)'
    <3>1. PacketOK(p)
      BY DEF SocketInv, PacketsOK
    <3> QED BY <3>1 DEF PacketOK
  <2> QED BY <2>1 DEF PacketsOK
<1>4. FetchesOK'
  BY DEF SocketInv, FetchesOK
<1>5. ReportedOnce' /\ MergeIsUnion'
  BY DEF SocketInv, ReportedOnce, MergeIsUnion
<1> QED BY <1>1, <1>2, <1>3, <1>4, <1>5 DEF SocketInv

LEMMA ReceivesKeepSocketInv ==
  ASSUME SocketInv, NEW n \in Node, ReceiveData(n) \/ ReceiveRecoData(n)
  PROVE  SocketInv'
<1>1. \A p \in packets : PacketOK(p)
  BY DEF SocketInv, PacketsOK
<1>2. ASSUME ReceiveData(n) PROVE SocketInv'
  <2>1. PICK p \in packets :
          \/ /\ p.wire.type \in {"DataOnly", "DataAndCumulative"}
             /\ Learn(n, The(DecodeData(p.wire).state))
          \/ p.wire.type = "CumulativeOnly" /\ UNCHANGED vars
    BY <1>2 DEF ReceiveData
  <2>2. CASE UNCHANGED vars
    BY <2>2, UnchangedKeepsSocketInv DEF vars
  <2>3. CASE /\ p.wire.type \in {"DataOnly", "DataAndCumulative"}
             /\ Learn(n, The(DecodeData(p.wire).state))
    <3> DEFINE t == The(DecodeData(p.wire).state)
    <3>1. PublishedBy(t, seqNo) /\ Learn(n, t)
      BY <1>1, <2>3, StateReceived
    <3> HIDE DEF t
    <3> QED BY <3>1, LearnKeepsSocketInv
  <2> QED BY <2>1, <2>2, <2>3
<1>3. ASSUME ReceiveRecoData(n) PROVE SocketInv'
  <2>1. PICK p \in packets : /\ p.wire.type = "RecoveryData"
                             /\ Learn(n, DecodeReco(p.wire).state)
    BY <1>3 DEF ReceiveRecoData
  <2> DEFINE t == DecodeReco(p.wire).state
  <2>2. PublishedBy(t, seqNo) /\ Learn(n, t)
    BY <1>1, <2>1, StateReceived
  <2> HIDE DEF t
  <2> QED BY <2>2, LearnKeepsSocketInv
<1> QED BY <1>2, <1>3

----------------------------------------------------------------------------
(* Fetching. *)

LEMMA SetFetchKeepsSocketInv ==
  ASSUME SocketInv, NEW n \in Node, NEW x \in Node, NEW q \in Numbers,
         NEW f, FetchOK(f), SetFetch(n, x, q, f)
  PROVE  SocketInv'
<1>1. /\ fetch' = [fetch EXCEPT ![n][x][q] = f]
      /\ UNCHANGED <<seqNo, state, ims, packets, reported, received, served>>
  BY DEF SetFetch, logic
<1>2. fetch \in [Node -> [Node -> [Numbers -> Fetch]]] /\ f \in Fetch
  BY DEF SocketInv, FetchesOK, FetchOK
<1>3. \A m, y \in Node : \A k \in Numbers :
        fetch'[m][y][k] = IF m = n /\ y = x /\ k = q THEN f ELSE fetch[m][y][k]
  BY <1>1, <1>2
<1>4. fetch' \in [Node -> [Node -> [Numbers -> Fetch]]]
  BY <1>1, <1>2
<1>5. \A m, y \in Node : \A k \in Numbers : FetchOK(fetch[m][y][k])
  BY DEF SocketInv, FetchesOK
<1>6. \A m, y \in Node : \A k \in Numbers : FetchOK(fetch'[m][y][k])
  BY <1>3, <1>5
<1>7. FetchesOK'
  BY <1>4, <1>6 DEF FetchesOK, FetchOK
<1> QED BY <1>1, <1>7
        DEF SocketInv, Types, StoresOK, StatesOK, ReceivedOK, PacketsOK,
            PacketOK, ReportedOnce, MergeIsUnion

LEMMA FetchesKeepSocketInv ==
  ASSUME SocketInv, NEW n \in Node, NEW x \in Node, NEW q \in Numbers,
         \/ FetchData(n, x, q) \/ FetchDataOnTimeout(n, x, q)
         \/ OnInterest(n, x, q) \/ OnData(n, x, q) \/ Timeout(n, x, q)
  PROVE  SocketInv'
<1> DEFINE f == fetch[n][x][q]
<1>0. FetchOK(f)
  BY DEF SocketInv, FetchesOK
<1>1. \A k \in Nat, b \in BOOLEAN : FetchOK(Expressed(k, b))
  BY DEF Expressed, FetchOK, Fetch
<1>2. CASE FetchData(n, x, q)
  <2>1. PICK k \in Retries : SetFetch(n, x, q, Expressed(k, FALSE))
    BY <1>2 DEF FetchData
  <2>2. FetchOK(Expressed(k, FALSE))
    BY <1>1, SocketAssumption
  <2> QED BY <2>1, <2>2, SetFetchKeepsSocketInv
<1>3. CASE FetchDataOnTimeout(n, x, q)
  <2>1. SetFetch(n, x, q, Expressed(0, TRUE))
    BY <1>3 DEF FetchDataOnTimeout
  <2> QED BY <1>1, <2>1, SetFetchKeepsSocketInv
<1>4. CASE OnInterest(n, x, q)
  BY <1>4, UnchangedKeepsSocketInv DEF OnInterest, logic
<1>5. CASE OnData(n, x, q)
  <2>1. PICK result \in {"validated", "failed"} :
          SetFetch(n, x, q, [f EXCEPT !.status = result])
    BY <1>5 DEF OnData
  <2>2. f.status = "pending"
    BY <1>5 DEF OnData
  <2> HIDE DEF f
  <2>3. FetchOK([f EXCEPT !.status = result])
    BY <1>0, <2>2 DEF FetchOK, Fetch
  <2> QED BY <2>1, <2>3, SetFetchKeepsSocketInv
<1>6. CASE Timeout(n, x, q)
  <2>1. /\ f.status = "pending"
        /\ SetFetch(n, x, q, IF f.onTimeout
                             THEN [f EXCEPT !.status = "timedOut"]
                             ELSE OnDataTimeout(f))
    BY <1>6 DEF Timeout
  <2> HIDE DEF f
  <2>2. FetchOK([f EXCEPT !.status = "timedOut"])
    BY <1>0, <2>1 DEF FetchOK, Fetch
  <2>3. FetchOK(OnDataTimeout(f))
    <3>1. CASE f.left <= 0
      <4>1. f.left = 0
        BY <1>0, <3>1 DEF FetchOK, Fetch
      <4> QED BY <1>0, <2>1, <3>1, <4>1 DEF FetchOK, Fetch, OnDataTimeout
    <3>2. CASE ~(f.left <= 0)
      <4>1. f.left \in Nat /\ f.sent \in Nat /\ f.left - 1 \in Nat
        BY <1>0, <3>2 DEF FetchOK, Fetch
      <4> DEFINE g == [f EXCEPT !.left = f.left - 1, !.sent = f.sent + 1]
      <4>2. f \in Fetch
        BY <1>0 DEF FetchOK
      <4>3. /\ g.left = f.left - 1 /\ g.sent = f.sent + 1
            /\ g.status = "pending" /\ g.nRetries = f.nRetries
        BY <2>1, <4>2 DEF Fetch
      <4>4. g \in Fetch
        <5>1. f.sent + 1 \in Nat
          BY <4>1
        <5> QED BY <4>1, <4>2, <5>1, Zenon DEF Fetch
      <4>5. f.sent + f.left = f.nRetries + 1 /\ f.nRetries \in Nat
        BY <1>0, <2>1 DEF FetchOK, Fetch
      <4>6. OnDataTimeout(f) = g
        BY <3>2 DEF OnDataTimeout
      <4> HIDE DEF g
      <4>7. FetchOK(g)
        BY <4>1, <4>3, <4>4, <4>5 DEF FetchOK
      <4> QED BY <4>6, <4>7
    <3> QED BY <3>1, <3>2
  <2> QED BY <2>1, <2>2, <2>3, SetFetchKeepsSocketInv
<1> QED BY <1>2, <1>3, <1>4, <1>5, <1>6

----------------------------------------------------------------------------

LEMMA NextKeepsSocketInv == SocketInv /\ [Next]_vars => SocketInv'
<1> SUFFICES ASSUME SocketInv, [Next]_vars PROVE SocketInv'
  OBVIOUS
<1>1. CASE UNCHANGED vars
  BY <1>1, UnchangedKeepsSocketInv DEF vars
<1>2. ASSUME NEW n \in Publishers, PublishData(n) PROVE SocketInv'
  BY <1>2, SocketAssumption, PublishKeepsSocketInv
<1>3. ASSUME NEW n \in Node,
             \/ SendData(n) \/ SendCumulativeOnly(n) \/ SendRecoData(n)
             \/ ReceiveData(n) \/ ReceiveRecoData(n)
      PROVE  SocketInv'
  BY <1>3, SendsKeepSocketInv, ReceivesKeepSocketInv
<1>4. ASSUME NEW n \in Fetchers, NEW x \in Node, NEW q \in Numbers,
             \/ FetchData(n, x, q) \/ FetchDataOnTimeout(n, x, q)
             \/ OnInterest(n, x, q) \/ OnData(n, x, q) \/ Timeout(n, x, q)
      PROVE  SocketInv'
  BY <1>4, SocketAssumption, FetchesKeepSocketInv
<1> QED BY <1>1, <1>2, <1>3, <1>4 DEF Next

LEMMA SocketInvAlways == Spec => []SocketInv
<1> QED BY SocketInvInitially, NextKeepsSocketInv, PTL DEF Spec

\* Whatever is sent is received as it was sent, for any state, round and digest
\* (data-content.cpp:48-192, reco-data.cpp:42-122, state.cpp:117-187).
THEOREM SentIsReceived == Spec => []ReceivedAsSent
<1>1. SocketInv => ReceivedAsSent
  <2> SUFFICES ASSUME SocketInv, NEW p \in packets
               PROVE  IF p.wire.type = "RecoveryData"
                      THEN DecodeReco(p.wire) = p.sent
                      ELSE LET c == DecodeData(p.wire)
                           IN  /\ c.cd = p.sent.cd /\ c.round = p.sent.round
                               /\ c.cd # {} => c.prefix = p.sent.prefix
                               /\ c.state = p.sent.state
                               /\ c.state = {} <=>
                                    p.wire.type = "CumulativeOnly"
    BY DEF ReceivedAsSent
  <2>1. PacketOK(p)
    BY DEF SocketInv, PacketsOK
  <2>2. CASE \E c \in RecoContent : p = [sent |-> c, wire |-> EncodeReco(c)]
    BY <2>2, RecoRoundTrip
  <2>3. ASSUME NEW c \in DataContent,
               p = [sent |-> c, wire |-> EncodeData(c)],
               WellFormed(c), c.cd = {} => c.round = 0
        PROVE  /\ p.wire.type # "RecoveryData"
               /\ DecodeData(p.wire).cd = p.sent.cd
               /\ DecodeData(p.wire).round = p.sent.round
               /\ p.sent.cd # {} => DecodeData(p.wire).prefix = p.sent.prefix
               /\ DecodeData(p.wire).state = p.sent.state
               /\ p.sent.state = {} <=> p.wire.type = "CumulativeOnly"
    BY <2>3, DataRoundTrip, DataTypeTells
  <2> QED BY <2>1, <2>2, <2>3 DEF PacketOK
<1> QED BY <1>1, SocketInvAlways, PTL

\* Each missing number is reported once, for any packets in any order
\* (logic.cpp:1221-1259, 1327-1349).
THEOREM MissingReportedOnce == Spec => []ReportedOnce
<1>1. SocketInv => ReportedOnce
  BY DEF SocketInv
<1> QED BY <1>1, SocketInvAlways, PTL

\* Nothing is reported that its publisher has not stored (socket.cpp:80-93).
THEOREM ReportedCanBeFetched == Spec => []ReportedIsStored
<1>1. SocketInv => ReportedIsStored
  <2> SUFFICES ASSUME SocketInv, NEW n \in Node, NEW x \in Node,
                      NEW q \in Numbers,
                      reported[n][x][q] > 0
               PROVE  q \in ims[x]
    BY DEF ReportedIsStored
  <2>1. q <= state[n][x]
    BY DEF SocketInv, ReportedOnce
  <2>2. /\ state[n][x] <= seqNo[x] /\ seqNo[x] \in Nat
        /\ state[n][x] \in Int /\ q \in Nat /\ q >= 1
    BY SocketAssumption
       DEF SocketInv, Types, StatesOK, PublishedBy, State, NoLeaf, Numbers
  <2>3. q \in 1 .. seqNo[x]
    BY <2>1, <2>2
  <2> QED BY <2>3 DEF SocketInv, StoresOK
<1> QED BY <1>1, SocketInvAlways, PTL

\* Merging leaf by leaf, in any order, gives the newest of each session, for
\* any number of states (state.cpp:61-81, 105-115).
THEOREM StateIsUnion == Spec => []MergeIsUnion
<1>1. SocketInv => MergeIsUnion
  BY DEF SocketInv
<1> QED BY <1>1, SocketInvAlways, PTL

\* fetchData() gives up after exactly nRetries + 1 Interests, for any nRetries
\* (socket.cpp:96-115, 159-172).
THEOREM RetriesCounted == Spec => []RetriesSpent
<1>1. SocketInv => RetriesSpent
  <2> SUFFICES ASSUME SocketInv, NEW n \in Node, NEW x \in Node,
                      NEW q \in Numbers
               PROVE  /\ fetch[n][x][q].sent <= fetch[n][x][q].nRetries + 1
                      /\ fetch[n][x][q].status = "gaveUp" =>
                           fetch[n][x][q].sent = fetch[n][x][q].nRetries + 1
    BY DEF RetriesSpent
  <2> DEFINE f == fetch[n][x][q]
  <2>1. FetchOK(f)
    BY DEF SocketInv, FetchesOK
  <2> HIDE DEF f
  <2>2. /\ f.sent <= f.nRetries + 1
        /\ f.status = "gaveUp" => f.sent = f.nRetries + 1
    BY <2>1 DEF FetchOK, Fetch
  <2> QED BY <2>2 DEF f
<1> QED BY <1>1, SocketInvAlways, PTL
=============================================================================
