---------------------------- MODULE SyncState ----------------------------
(***************************************************************************)
(* The sync state of RoundSync: a map from session to sequence number      *)
(* (class State, src/state.cpp, with its leaves, src/leaf.cpp).            *)
(*                                                                         *)
(* A process keeps one session for its whole life, so a session is named   *)
(* by its node.  A state is a total function; NoLeaf marks a session that  *)
(* has no leaf, which is not the same as a leaf with sequence number 0:    *)
(* the latter is what a CumulativeOnly packet leaves in the round log and  *)
(* it takes part in the digest.                                            *)
(*                                                                         *)
(* A digest is a SHA-256 over the leaves in session order.  It is taken    *)
(* to be injective, so a digest is the state it is computed from.          *)
(***************************************************************************)
EXTENDS Integers, FiniteSetsExt

CONSTANT Node           \* the participants, each with one session

NoLeaf == -1

SeqNo == Nat
State == [Node -> Nat \cup {NoLeaf}]
Digest == State

\* A pointer: the empty set is NULL, a set of one what it points to.
Option(S) == {o \in SUBSET S : \A x, y \in o : x = y}
The(option) == CHOOSE x \in option : TRUE      \* the value of a non-NULL

\* m_leaves after reset(): no leaf at all.  Its digest is EMPTY_DIGEST.
EmptyState == [x \in Node |-> NoLeaf]

\* isInserted || isUpdated, as update() returns them.
Changes(st, x, q) == st[x] < q

\* update(): a leaf is inserted, or raised, and never lowered.
UpdateReplacing(st, x, q) == [st EXCEPT ![x] = q]                   \* mutant

Update(st, x, q) == [st EXCEPT ![x] = IF st[x] < q THEN q ELSE @]

\* operator+=: every leaf of t is applied to st with update().
PlusReplacing(st, t) == t                                           \* mutant

Plus(st, t) == [x \in Node |-> IF st[x] < t[x] THEN t[x] ELSE st[x]]

\* What a series of += leaves in st, one for each state of the set S.  The
\* order of the additions does not matter (checked in Socket).
PlusAll(st, S) == [x \in Node |-> Max({st[x]} \cup {t[x] : t \in S})]

\* One state is behind another when no leaf of it is newer.
Behind(s, t) == \A x \in Node : s[x] <= t[x]
=============================================================================
