------------------------------ MODULE BlockMap ------------------------------
(***************************************************************************)
(* What the game world promises about its blocks, without caches, coarse   *)
(* heights, generation or a store: a map from positions to blocks that     *)
(* starts as the generators made it, and that a write changes in one step, *)
(* at the position and to the block it was asked for, or not at all.       *)
(***************************************************************************)
CONSTANTS Pos, Block, Generated, None

VARIABLES
    content,    \* the block at every position
    pending     \* the write that was asked for, or None

vars == <<content, pending>>

Init == content = Generated /\ pending = None

Request(p, b) ==
    /\ pending = None
    /\ pending' = [pos |-> p, block |-> b]
    /\ UNCHANGED content

Apply ==
    /\ pending # None
    /\ content' = [content EXCEPT ![pending.pos] = pending.block]
    /\ pending' = None

\* The server stopped, or a generator failed, before the write was stored.
Abandon ==
    /\ pending # None
    /\ pending' = None
    /\ UNCHANGED content

Next == (\E p \in Pos, b \in Block : Request(p, b)) \/ Apply \/ Abandon

Spec == Init /\ [][Next]_vars
=============================================================================
