--------------------------- MODULE Dissemination ---------------------------
(***************************************************************************)
(* What RoundSync promises an application, without rounds, digests or      *)
(* packets: each node knows, of every session, a sequence number that the  *)
(* session has published, never a smaller one than before, and the number  *)
(* of its own session changes only when it publishes.                      *)
(***************************************************************************)
EXTENDS SyncState

VARIABLES
    produced,       \* the last number each node has published, 0 if none
    known           \* the state of each node

vars == <<produced, known>>

Init ==
    /\ produced = [n \in Node |-> 0]
    /\ known = [n \in Node |-> EmptyState]

\* A session publishes a larger number; numbers may be skipped.
Produce(n) ==
    LET q == produced'[n]
    IN  /\ q > produced[n]
        /\ produced' = [produced EXCEPT ![n] = q]
        /\ known' = [known EXCEPT ![n] = Update(@, n, q)]

\* What node n may know after it has learned: never less than before, and of
\* the other sessions what they have published.
Learned(n, st) ==
    /\ Behind(known[n], st)
    /\ \A x \in Node \ {n} : st[x] # known[n][x] => st[x] \in 1 .. produced[x]

\* A node learns of other sessions, of several at once in a recovery.
Learn(n) ==
    LET st == known'[n]
    IN  /\ Learned(n, st)
        /\ st[n] = known[n][n]
        /\ known' = [known EXCEPT ![n] = st]
        /\ UNCHANGED produced

\* An application answers what it learns with a publication, in one step.
Answer(n) ==
    LET st == known'[n]
        q == produced'[n]
    IN  /\ Learned(n, st)
        /\ \E x \in Node \ {n} : st[x] # known[n][x]
        /\ q > produced[n] /\ st[n] = q
        /\ produced' = [produced EXCEPT ![n] = q]
        /\ known' = [known EXCEPT ![n] = st]

Next == \E n \in Node : Produce(n) \/ Learn(n) \/ Answer(n)

Spec == Init /\ [][Next]_vars
=============================================================================
