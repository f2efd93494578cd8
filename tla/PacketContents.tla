-------------------------- MODULE PacketContents --------------------------
(***************************************************************************)
(* What is in a packet: the content of Data packets (DataContent), of the  *)
(* answers to Reco Interests (RecoData), and the blocks they are encoded   *)
(* to.  A block has a type and the elements inside it, in their order; the *)
(* leaves of a state have names of their own, so their order is left out.  *)
(* Absent is {}, be it a NULL pointer or the empty name.                   *)
(***************************************************************************)
EXTENDS SyncState, Sequences

RoundNo == Nat

DataContent == [prefix : Option(Node), round : RoundNo, cd : Option(Digest),
                state : Option(State)]
RecoContent == [round : RoundNo, state : State]

WellFormed(c) ==
    \/ c.prefix # {} /\ c.cd # {}
    \/ c.round = 0 /\ c.cd = {} /\ c.state # {}

----------------------------------------------------------------------------
(* States. *)

StateBlock(st) ==
    [type |-> "State",
     leaves |-> {[session |-> x, seq |-> st[x]] :
                    x \in {y \in Node : st[y] # NoLeaf}}]

\* A series of update() calls on a new state, one for each leaf.
StateIn(block) ==
    PlusAll(EmptyState,
            {Update(EmptyState, l.session, l.seq) : l \in block.leaves})

----------------------------------------------------------------------------
(* Data. *)

DataType(c) ==
    IF c.state # {} /\ c.cd # {} THEN "DataAndCumulative"
    ELSE IF c.state # {} THEN "DataOnly"
    ELSE IF c.cd # {} THEN "CumulativeOnly"
    ELSE "DataAndCumulative"

\* The digest goes into the buffer first, then the round, then the name: they
\* are read in the opposite order.
InfoBlocks(c) ==
    IF c.cd = {} THEN <<>>
    ELSE <<[type |-> "CumulativeInfo",
            elements |-> <<c.prefix, c.round, The(c.cd)>>]>>

StateBlocks(c) == IF c.state = {} THEN <<>> ELSE <<StateBlock(The(c.state))>>

\* The buffer is filled from its end: the state goes in first, and comes last.
EncodeStateFirst(c) ==                                              \* mutant
    [type |-> DataType(c), elements |-> StateBlocks(c) \o InfoBlocks(c)]

EncodeData(c) ==
    [type |-> DataType(c), elements |-> InfoBlocks(c) \o StateBlocks(c)]

IsNext(blocks, type) == blocks # <<>> /\ Head(blocks).type = type

\* The name and the round are encoded with the cumulative digest only; without
\* it the receiver has the values the constructor gives.
DecodeData(wire) ==
    LET first == wire.elements
        hasInfo == IsNext(first, "CumulativeInfo")
        info == Head(first).elements
        rest == IF hasInfo THEN Tail(first) ELSE first
    IN  [prefix |-> IF hasInfo THEN info[1] ELSE {},
         round  |-> IF hasInfo THEN info[2] ELSE 0,
         cd     |-> IF hasInfo THEN {info[3]} ELSE {},
         state  |-> IF IsNext(rest, "State") THEN {StateIn(Head(rest))} ELSE {}]

----------------------------------------------------------------------------
(* The answer to a Reco Interest. *)

EncodeReco(c) ==
    [type |-> "RecoveryData",
     elements |-> <<[type |-> "RoundNo", round |-> c.round],
                    StateBlock(c.state)>>]

DecodeReco(wire) ==
    [round |-> wire.elements[1].round, state |-> StateIn(wire.elements[2])]
=============================================================================
