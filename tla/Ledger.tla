------------------------------- MODULE Ledger -------------------------------
(***************************************************************************)
(* What the stored chain of the node promises: it starts empty, it only    *)
(* grows, and only by a child of its last block.  The first block is any   *)
(* that the servers offer.                                                 *)
(***************************************************************************)
EXTENDS Integers

CONSTANTS Blocks, prevHash

VARIABLES tip,      \* the last stored block
          stored    \* all stored blocks

ledgerVars == <<tip, stored>>

Init == tip = 0 /\ stored = {}

Store(b) ==
    /\ b \notin stored
    /\ stored = {} \/ prevHash[b] = tip
    /\ tip' = b
    /\ stored' = stored \cup {b}

Next == \E b \in Blocks : Store(b)

Spec == Init /\ [][Next]_ledgerVars
=============================================================================
