----------------------------- MODULE BlockChain -----------------------------
(***************************************************************************)
(* The in-memory block chain of the node (class BlockChain): the map       *)
(* `blocks` from a hash to its header, and the vector `hashes` whose       *)
(* element number n is the hash of block n.                                *)
(*                                                                         *)
(* A hash is a natural number, because the code compares hashes with <.    *)
(* The genesis hash is the string of 64 zeros, the least of them.  What a  *)
(* block's bytes say never changes, so prevHash is a constant function.    *)
(* The part of a header that the node fills in is state: blockNumber (an   *)
(* optional, NoNumber when it is empty) and filePos (where the dump lies   *)
(* in the block file).                                                     *)
(*                                                                         *)
(* calcBlockchain is a loop over a linked list of unknown length.  It runs *)
(* under the write lock; each turn of its first loop is a step here, so    *)
(* that what the loop computes is the subject of an invariant and not of a *)
(* recursive definition.                                                   *)
(***************************************************************************)
EXTENDS Integers, Sequences

CONSTANTS Blocks,       \* the hashes of all blocks but the genesis block
          prevHash      \* the parent hash that each block's bytes name

Genesis  == 0
NoHash   == -1          \* the empty string where a hash is expected
NoNumber == -1          \* an empty std::optional block number
Hashes   == Blocks \cup {Genesis}

ASSUME BlocksAssumption ==
    /\ Blocks \subseteq Nat \ {Genesis}
    /\ prevHash \in [Blocks -> Hashes]
    /\ \A b \in Blocks : prevHash[b] # b

VARIABLES
    blocks,             \* the keys of the map `blocks`
    blockNumber,        \* header.blockNumber of each of them
    filePos,            \* header.filePos.pos of each of them, 0 when not set
    hashes,             \* the vector `hashes`; its element n is hashes[n + 1]
    bh,                 \* calcBlockchain: the header the loop looks at
    processedBlocks     \* calcBlockchain: the headers walked so far

chainVars == <<blocks, blockNumber, filePos, hashes, bh, processedBlocks>>

CountBlocks == Len(hashes) - 1

ReverseSeq(s) == [i \in 1..Len(s) |-> s[Len(s) + 1 - i]]

-----------------------------------------------------------------------------
(* initialize: only the genesis block, as block 0. *)
InitBlockChain ==
    /\ blocks = {Genesis}
    /\ blockNumber = [h \in Hashes |-> IF h = Genesis THEN 0 ELSE NoNumber]
    /\ filePos = [h \in Hashes |-> 0]
    /\ hashes = <<Genesis>>
    /\ bh = Genesis
    /\ processedBlocks = <<>>

\* Variant: clear forgets to put the genesis block back into the map.
LoadHeadersNoGenesis(headers, pos) ==
    /\ blocks' = headers
    /\ blockNumber' = [h \in Hashes |-> IF h = Genesis THEN 0 ELSE NoNumber]
    /\ filePos' = [h \in Hashes |-> IF h \in headers THEN pos[h] ELSE 0]
    /\ hashes' = <<Genesis>>

(* clear, then addWithoutCalc for every header read from the data base:     *)
(* the headers are known and none of them is numbered.                      *)
LoadHeaders(headers, pos) ==
    /\ blocks' = {Genesis} \cup headers
    /\ blockNumber' = [h \in Hashes |-> IF h = Genesis THEN 0 ELSE NoNumber]
    /\ filePos' = [h \in Hashes |-> IF h \in headers THEN pos[h] ELSE 0]
    /\ hashes' = <<Genesis>>

(* addWithoutCalc for a block that is not known yet. *)
AddWithoutCalc(b, pos) ==
    /\ b \notin blocks
    /\ blocks' = blocks \cup {b}
    /\ blockNumber' = [blockNumber EXCEPT ![b] = NoNumber]
    /\ filePos' = [filePos EXCEPT ![b] = pos]
    /\ UNCHANGED hashes

(* removeBlock: erase the header; nothing is left of its number. *)
RemoveBlock(b) ==
    /\ blocks' = blocks \ {b}
    /\ blockNumber' = [blockNumber EXCEPT ![b] = NoNumber]
    /\ filePos' = [filePos EXCEPT ![b] = 0]
    /\ UNCHANGED <<hashes, bh, processedBlocks>>

-----------------------------------------------------------------------------
(* calcBlockchain(lastHash) *)

CalcBegin(lastHash) ==
    /\ bh' = lastHash
    /\ processedBlocks' = <<>>

(* The call's local variables go away with it. *)
CalcEnd ==
    /\ bh' = Genesis
    /\ processedBlocks' = <<>>

(* One turn of the loop.  The header gets its distance from lastHash as a   *)
(* provisional number.  The loop breaks when the parent is not known; bh    *)
(* stays where it is, and has a number by then.                             *)
CalcWalk ==
    /\ blockNumber[bh] = NoNumber
    /\ blockNumber' = [blockNumber EXCEPT ![bh] = Len(processedBlocks)]
    /\ processedBlocks' = Append(processedBlocks, bh)
    /\ bh' = IF prevHash[bh] \in blocks THEN prevHash[bh] ELSE bh
    /\ UNCHANGED <<blocks, filePos, hashes>>

AllNum == Len(processedBlocks) + blockNumber[bh]

(* The last header walked is the first to be numbered. *)
FirstWalked == processedBlocks[Len(processedBlocks)]

\* Variant: without the assertion.
NumberFitsAlways == TRUE

(* The assertion of the numbering loop.  Both sides of it grow by one in    *)
(* each turn, so that its first turn decides.                               *)
NumberFits ==
    \/ processedBlocks = <<>>
    \/ AllNum - blockNumber[FirstWalked] = Len(hashes)

Walked(h) == \E i \in 1..Len(processedBlocks) : processedBlocks[i] = h

(* The loop is over, every walked header gets its number and its place. *)
CalcReturn ==
    /\ blockNumber[bh] # NoNumber
    /\ NumberFits
    /\ blockNumber' = [h \in Hashes |-> IF Walked(h) THEN AllNum - blockNumber[h]
                                                     ELSE blockNumber[h]]
    /\ hashes' = hashes \o ReverseSeq(processedBlocks)
    /\ CalcEnd
    /\ UNCHANGED <<blocks, filePos>>

(* The assertion fails in its first turn: one header has got its number,    *)
(* the others keep the provisional one.                                     *)
CalcThrow ==
    /\ blockNumber[bh] # NoNumber
    /\ ~NumberFits
    /\ blockNumber' = [blockNumber EXCEPT ![FirstWalked] = AllNum - @]
    /\ CalcEnd
    /\ UNCHANGED <<blocks, filePos, hashes>>

-----------------------------------------------------------------------------
BlockChainTypeOK ==
    /\ blocks \subseteq Hashes
    /\ blockNumber \in [Hashes -> Nat \cup {NoNumber}]
    /\ filePos \in [Hashes -> Nat]
    /\ hashes \in Seq(Hashes)
    /\ bh \in Hashes
    /\ processedBlocks \in Seq(Hashes)

(* The header found under a number carries that number: getBlock(n) returns *)
(* a known header whose blockNumber is n.                                   *)
ChainNumbered ==
    \A i \in 1..Len(hashes) : /\ hashes[i] \in blocks
                              /\ blockNumber[hashes[i]] = i - 1

(* Above block 1, every block of the chain names the one before it as its   *)
(* parent.                                                                  *)
ChainLinked ==
    \A i \in 3..Len(hashes) : prevHash[hashes[i]] = hashes[i - 1]

(* Block 1 names the genesis block as its parent. *)
RootLinked ==
    Len(hashes) > 1 => prevHash[hashes[2]] = Genesis
=============================================================================
