-------------------------- MODULE SyncState_proofs --------------------------
(***************************************************************************)
(* What the operations of a sync state return, for every set of nodes and  *)
(* all sequence numbers: their types, and the laws that make the merge of  *)
(* states independent of the order in which data arrive.                   *)
(***************************************************************************)
EXTENDS SyncState, FiniteSetTheorems, WellFoundedInduction, TLAPS

LEMMA EmptyStateType == EmptyState \in State
  BY DEF EmptyState, State, NoLeaf

LEMMA UpdateType ==
  ASSUME NEW st \in State, NEW x \in Node, NEW q \in SeqNo
  PROVE  Update(st, x, q) \in State
  BY DEF Update, State, NoLeaf, SeqNo

LEMMA PlusType ==
  ASSUME NEW s \in State, NEW t \in State
  PROVE  Plus(s, t) \in State
  BY DEF Plus, State, NoLeaf

\* A finite set of integers that is not empty has a greatest element: the one
\* with the fewest elements above it.
LEMMA FiniteMax ==
  ASSUME NEW S \in SUBSET Int, IsFiniteSet(S), S # {}
  PROVE  /\ Max(S) \in S
         /\ \A y \in S : y <= Max(S)
<1> DEFINE Above(x) == {y \in S : y > x}
           T == {Above(x) : x \in S}
<1>1. T \subseteq FiniteSubsetsOf(S) /\ T # {}
  <2>1. \A U \in SUBSET S : U \in FiniteSubsetsOf(S)
    BY FS_FiniteSubsetsOfFinite
  <2> QED BY <2>1
<1>2. \E U \in T : \A V \in T : ~(<<V, U>> \in StrictSubsetOrdering(S))
  <2> HIDE DEF T
  <2> QED BY <1>1, WFMin, FS_StrictSubsetOrderingWellFounded
<1>3. PICK m \in S : \A y \in S :
                <<Above(y), Above(m)>> \notin StrictSubsetOrdering(S)
  BY <1>2
<1>4. \A y \in S : y <= m
  <2> SUFFICES ASSUME NEW y \in S, ~(y <= m) PROVE FALSE
    OBVIOUS
  <2> m \in Int /\ y \in Int
    OBVIOUS
  <2>1. Above(y) \subseteq Above(m)
    <3> SUFFICES ASSUME NEW z \in S, z > y PROVE z > m
      OBVIOUS
    <3> z \in Int
      OBVIOUS
    <3> QED OBVIOUS
  <2>2. y \in Above(m) /\ y \notin Above(y)
    OBVIOUS
  <2>3. Above(y) \in SUBSET S /\ Above(m) \in SUBSET S
    OBVIOUS
  <2> HIDE DEF Above
  <2>4. <<Above(y), Above(m)>> \in StrictSubsetOrdering(S)
    BY <2>1, <2>2, <2>3 DEF StrictSubsetOrdering
  <2> QED BY <2>4, <1>3
<1>5. \A y \in S : m >= y
  BY <1>4
<1>6. \E k \in S : \A y \in S : k >= y
  BY <1>5
<1>7. Max(S) \in S /\ \A y \in S : Max(S) >= y
  BY <1>6 DEF Max
<1> QED BY <1>7

\* Merging finitely many states gives a state, with the greatest sequence
\* number any of them has for each session.
LEMMA PlusAllGreatest ==
  ASSUME NEW st \in State, NEW S \in SUBSET State, IsFiniteSet(S),
         NEW x \in Node
  PROVE  /\ PlusAll(st, S)[x] \in {st[x]} \cup {t[x] : t \in S}
         /\ st[x] <= PlusAll(st, S)[x]
         /\ \A t \in S : t[x] <= PlusAll(st, S)[x]
<1> DEFINE T == {st[x]} \cup {t[x] : t \in S}
<1>1. T \in SUBSET Int /\ T # {} /\ st[x] \in T /\ \A t \in S : t[x] \in T
  BY DEF State, NoLeaf
<1>2. IsFiniteSet(T)
  <2> DEFINE R == {t[x] : t \in S}
             f == [t \in S |-> t[x]]
  <2>1. f \in Surjection(S, R)
    BY DEF Surjection
  <2>2. IsFiniteSet(R)
    <3> HIDE DEF R, f
    <3> QED BY <2>1, FS_Surjection
  <2>3. T = R \cup {st[x]}
    OBVIOUS
  <2> QED BY <2>2, <2>3, FS_AddElement
<1>3. PlusAll(st, S)[x] = Max(T)
  BY DEF PlusAll
<1> HIDE DEF T
<1>4. Max(T) \in T /\ \A y \in T : y <= Max(T)
  BY <1>1, <1>2, FiniteMax
<1> QED BY <1>1, <1>3, <1>4 DEF T

LEMMA PlusAllType ==
  ASSUME NEW st \in State, NEW S \in SUBSET State, IsFiniteSet(S)
  PROVE  PlusAll(st, S) \in State
<1>1. ASSUME NEW x \in Node PROVE PlusAll(st, S)[x] \in Nat \cup {NoLeaf}
  BY PlusAllGreatest DEF State
<1> QED BY <1>1 DEF PlusAll, State

\* What is the greatest for each session is the merge.
LEMMA PlusAllIs ==
  ASSUME NEW st \in State, NEW S \in SUBSET State, IsFiniteSet(S),
         NEW u \in State,
         \A x \in Node : /\ u[x] = st[x] \/ \E t \in S : u[x] = t[x]
                         /\ st[x] <= u[x] /\ \A t \in S : t[x] <= u[x]
  PROVE  PlusAll(st, S) = u
<1> DEFINE v == PlusAll(st, S)
<1>1. v \in State
  BY PlusAllType
<1>2. ASSUME NEW x \in Node PROVE v[x] = u[x]
  <2>1. /\ v[x] = st[x] \/ \E t \in S : v[x] = t[x]
        /\ st[x] <= v[x] /\ \A t \in S : t[x] <= v[x]
    BY PlusAllGreatest
  <2>2. u[x] \in Int /\ v[x] \in Int /\ st[x] \in Int /\ \A t \in S : t[x] \in Int
    BY <1>1 DEF State, NoLeaf
  <2> HIDE DEF v
  <2>3. u[x] <= v[x]
    BY <2>1, <2>2
  <2>4. v[x] <= u[x]
    BY <2>1, <2>2
  <2> QED BY <2>2, <2>3, <2>4
<1> HIDE DEF v
<1>3. v = u
  BY <1>1, <1>2 DEF State
<1> QED BY <1>3 DEF v

\* Two merges in a row are one.
LEMMA PlusAllTwice ==
  ASSUME NEW st \in State, NEW S \in SUBSET State, IsFiniteSet(S),
         NEW T \in SUBSET State, IsFiniteSet(T)
  PROVE  PlusAll(st, S \cup T) = PlusAll(PlusAll(st, S), T)
<1> DEFINE v == PlusAll(st, S)
           u == PlusAll(v, T)
<1>1. v \in State /\ u \in State
  BY PlusAllType
<1>2. IsFiniteSet(S \cup T)
  BY FS_Union
<1>3. ASSUME NEW x \in Node
      PROVE  /\ u[x] = st[x] \/ \E t \in S \cup T : u[x] = t[x]
             /\ st[x] <= u[x] /\ \A t \in S \cup T : t[x] <= u[x]
  <2>1. /\ v[x] = st[x] \/ \E t \in S : v[x] = t[x]
        /\ st[x] <= v[x] /\ \A t \in S : t[x] <= v[x]
    BY PlusAllGreatest
  <2>2. /\ u[x] = v[x] \/ \E t \in T : u[x] = t[x]
        /\ v[x] <= u[x] /\ \A t \in T : t[x] <= u[x]
    BY <1>1, PlusAllGreatest
  <2>3. /\ u[x] \in Int /\ v[x] \in Int /\ st[x] \in Int
        /\ \A t \in S \cup T : t[x] \in Int
    BY <1>1 DEF State, NoLeaf
  <2> HIDE DEF u, v
  <2> QED BY <2>1, <2>2, <2>3
<1> HIDE DEF u
<1> QED BY <1>1, <1>2, <1>3, PlusAllIs DEF u

\* What is behind the state that is merged into adds nothing.
LEMMA PlusAllAbsorbs ==
  ASSUME NEW st \in State, NEW S \in SUBSET State, IsFiniteSet(S),
         \A t \in S : Behind(t, st)
  PROVE  PlusAll(st, S) = st
<1>1. \A x \in Node : st[x] \in Int
  BY DEF State, NoLeaf
<1> QED BY <1>1, PlusAllIs DEF Behind

LEMMA PlusAllGrows ==
  ASSUME NEW st \in State, NEW S \in SUBSET State, IsFiniteSet(S)
  PROVE  /\ Behind(st, PlusAll(st, S))
         /\ \A t \in S : Behind(t, PlusAll(st, S))
  BY PlusAllGreatest DEF Behind
=============================================================================
