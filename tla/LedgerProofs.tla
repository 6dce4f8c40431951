---------------------------- MODULE LedgerProofs ----------------------------
(***************************************************************************)
(* Proofs about Sync: the chain in memory and the one in the data base,    *)
(* for any set of blocks, any answers of the servers, any options and any  *)
(* number of faults of each kind.                                          *)
(*                                                                         *)
(* A batch of saveBlockToLeveldb that fails leaves a block on the chain    *)
(* that the data base never gets; nothing below holds afterwards (the run  *)
(* sync_lost_save shows it).  The results are therefore about every state  *)
(* in which no batch has failed so far, however many will.                 *)
(***************************************************************************)
EXTENDS SyncProofs

NoBatchLost == budget["save"] = Budget["save"]

(* A sequence of blocks in which each is the child of the one before it,    *)
(* all differ, and number n is one that the servers answer for n.           *)
Linked(c) ==
    /\ c \in Seq(Blocks)
    /\ \A i, j \in 1..Len(c) : c[i] = c[j] => i = j
    /\ \A i \in 2..Len(c) : prevHash[c[i]] = c[i - 1]
    /\ \A i \in 1..Len(c) : i <= MaxBlock /\ c[i] \in Answers[i]

(* h stands somewhere in s. *)
Place(s, h) == \E i \in 1..Len(s) : s[i] = h

(* The data base holds exactly the blocks of c, and its metadata names the  *)
(* last of them.                                                            *)
Holds(c) ==
    /\ \A h \in Blocks : h \in dbHeaders <=> Place(c, h)
    /\ c = <<>> => dbMeta.blockHash = NoHash /\ dbMeta.prevBlockHash = NoHash
    /\ c # <<>> => /\ dbMeta.blockHash = c[Len(c)]
                   /\ dbMeta.prevBlockHash = prevHash[c[Len(c)]]

(* The chain in memory is the genesis block and then c ... *)
Follows(s, c) ==
    /\ Len(s) = Len(c) + 1
    /\ s[1] = Genesis
    /\ \A i \in 1..Len(c) : s[i + 1] = c[i]

ChainIs(c) == Follows(hashes, c)

(* ... and the map holds its blocks and those of S. *)
KnownIs(S) == \A h \in Hashes : h \in blocks <=> OnChain(h) \/ h \in S

(* calcBlockchain at start walks down c from its end. *)
Loading(c) ==
    /\ c # <<>>
    /\ hashes = <<Genesis>>
    /\ \A h \in Hashes : h \in blocks <=> h = Genesis \/ h \in dbHeaders
    /\ Len(processedBlocks) <= Len(c)
    /\ \A i \in 1..Len(processedBlocks) : processedBlocks[i] = c[Len(c) + 1 - i]
    /\ \A i \in 1..(Len(c) - Len(processedBlocks)) : blockNumber[c[i]] = NoNumber
    /\ Len(processedBlocks) < Len(c) => bh = c[Len(c) - Len(processedBlocks)]
    /\ Len(processedBlocks) = Len(c) =>
          bh = IF prevHash[c[1]] \in blocks THEN prevHash[c[1]] ELSE c[1]

(* calcBlockchain in addBlock walks over the new block and no other. *)
Adding ==
    \/ processedBlocks = <<>> /\ bh = prevBi /\ blockNumber[prevBi] = NoNumber
    \/ /\ processedBlocks = <<prevBi>>
       /\ bh = IF prevHash[prevBi] \in blocks THEN prevHash[prevBi] ELSE prevBi

(* The points of synchronize at which the chain is the stored one. *)
Plain == {"workers", "retry", "retryFeed", "poll", "fetch", "append", "add"}

(* The chain in the data base is c, and where the chain in memory stands    *)
(* relative to it.                                                          *)
ChainState(c) ==
    /\ Linked(c)
    /\ Holds(c)
    /\ pc = "start" => Len(hashes) = 1
    /\ pc = "loadCalc" => Loading(c)
    /\ pc = "dead" => Len(hashes) = 1 \/ ChainIs(c)
    /\ pc \in Plain => ChainIs(c) /\ KnownIs({})
    /\ pc \in {"addCalc", "remove"} => ChainIs(c) /\ KnownIs({prevBi})
    /\ pc = "addCalc" => Adding
    /\ pc \in {"feed", "save"} => /\ ChainIs(Append(c, prevBi))
                                  /\ KnownIs({})
                                  /\ Linked(Append(c, prevBi))

(* The block in hand is not yet counted before the end of addBlock. *)
Uncounted == IF pc \in {"feed", "save"} THEN 0 ELSE 1

(* nextBlockToRead and the chain keep step. *)
FetchInv ==
    /\ known <= MaxBlock
    /\ Validate /\ pc \in {"start", "loadCalc", "workers", "retry", "retryFeed", "poll"} =>
          prevBi = NoBlock
    /\ pc = "fetch" => /\ ~Validate \/ prevBi = NoBlock => nextNum = CountBlocks + 1
                       /\ Validate /\ prevBi # NoBlock =>
                             /\ nextNum = CountBlocks + 2
                             /\ CountBlocks + 1 <= MaxBlock
                             /\ prevBi \in Answers[CountBlocks + 1]
    /\ pc \in InHand => CountBlocks + 1 <= MaxBlock /\ prevBi \in Answers[CountBlocks + 1]
    /\ pc \in InHand \cup {"remove", "feed", "save"} =>
          /\ ~Validate => nextNum = CountBlocks + 1 + Uncounted
          /\ Validate => /\ nextNum = CountBlocks + 2 + Uncounted
                         /\ nextNum - 1 <= MaxBlock
                         /\ nextBi \in Answers[nextNum - 1]

LedgerInv ==
    /\ budget["save"] <= Budget["save"]
    /\ NoBatchLost => FetchInv /\ \E c : ChainState(c)

-----------------------------------------------------------------------------
(* A sequence that is linked stays so when a child of its last block that   *)
(* the servers answer for the next number is put behind it.                 *)
LEMMA LinkedAppend ==
    ASSUME NEW c, Linked(c), NEW b \in Blocks,
           \A i \in 1..Len(c) : c[i] # b,
           c # <<>> => prevHash[b] = c[Len(c)],
           Len(c) + 1 <= MaxBlock, b \in Answers[Len(c) + 1]
    PROVE  /\ Linked(Append(c, b))
           /\ Len(c) \in Nat
           /\ Len(Append(c, b)) = Len(c) + 1
           /\ Append(c, b)[Len(c) + 1] = b
           /\ \A i \in 1..Len(c) : Append(c, b)[i] = c[i]
  <1> DEFINE d == Append(c, b)
  <1>1. /\ c \in Seq(Blocks) /\ Len(c) \in Nat
        /\ d \in Seq(Blocks)
        /\ Len(d) = Len(c) + 1
        /\ d[Len(c) + 1] = b
        /\ \A i \in 1..Len(c) : d[i] = c[i]
    BY DEF Linked
  <1>2. Len(c) # 0 => c # <<>>
    OBVIOUS
  <1> HIDE DEF d
  <1>3. \A i, j \in 1..Len(d) : d[i] = d[j] => i = j
    BY <1>1 DEF Linked
  <1>4. \A i \in 2..Len(d) : prevHash[d[i]] = d[i - 1]
    <2> TAKE i \in 2..Len(d)
    <2>1. CASE i \in 2..Len(c)
      BY <2>1, <1>1 DEF Linked
    <2>2. CASE i = Len(c) + 1
      BY <2>2, <1>1, <1>2
    <2>3. QED
      BY <2>1, <2>2, <1>1
  <1>5. \A i \in 1..Len(d) : i <= MaxBlock /\ d[i] \in Answers[i]
    BY <1>1 DEF Linked
  <1>6. QED
    BY <1>1, <1>3, <1>4, <1>5 DEF Linked, d

(* What the inductive invariant of SyncProofs says of the chain. *)
LEMMA ChainFacts ==
    ASSUME IndInv
    PROVE  /\ ChainInv /\ ChainNumbered /\ WalkedInv
           /\ blocks \subseteq Hashes /\ dbHeaders \subseteq Blocks
           /\ blockNumber \in [Hashes -> Nat \cup {NoNumber}]
           /\ hashes \in Seq(Hashes) /\ Len(hashes) \in Nat /\ Len(hashes) >= 1
           /\ hashes[1] = Genesis
           /\ \A b \in Blocks : prevHash[b] \in Hashes /\ prevHash[b] # b
  <1>1. ChainInv /\ dbHeaders \subseteq Blocks
    BY DEF IndInv, TypeOK
  <1>2. /\ ChainNumbered /\ WalkedInv /\ hashes \in Seq(Hashes) /\ Len(hashes) >= 1
        /\ hashes[1] = Genesis /\ blocks \subseteq Hashes
        /\ blockNumber \in [Hashes -> Nat \cup {NoNumber}]
    BY <1>1 DEF ChainInv, BlockChainTypeOK
  <1>3. Len(hashes) \in Nat
    BY <1>2
  <1>4. \A b \in Blocks : prevHash[b] \in Hashes /\ prevHash[b] # b
    BY BlocksAssumption
  <1>5. QED
    BY <1>1, <1>2, <1>3, <1>4

(* Two places of the chain hold two blocks. *)
LEMMA ChainInjective ==
    ASSUME ChainInv
    PROVE  \A i, j \in 1..Len(hashes) : hashes[i] = hashes[j] => i = j
  <1>1. Len(hashes) \in Nat
    BY DEF ChainInv, BlockChainTypeOK
  <1>2. QED
    BY <1>1 DEF ChainInv, ChainNumbered

(* What stands on a chain s that is the genesis block and then c. *)
LEMMA PlacesOf ==
    ASSUME NEW s, NEW c, Len(c) \in Nat, Follows(s, c), NEW h
    PROVE  Place(s, h) <=> h = Genesis \/ Place(c, h)
  <1>1. ASSUME NEW i \in 1..Len(s), s[i] = h
        PROVE  h = Genesis \/ Place(c, h)
    <2>1. CASE i = 1
      BY <1>1, <2>1 DEF Follows
    <2>2. CASE i # 1
      <3>1. i - 1 \in 1..Len(c) /\ (i - 1) + 1 = i
        BY <2>2 DEF Follows
      <3>2. c[i - 1] = h
        BY <1>1, <3>1 DEF Follows
      <3>3. QED
        BY <3>1, <3>2 DEF Place
    <2>3. QED
      BY <2>1, <2>2
  <1>2. ASSUME NEW i \in 1..Len(c), c[i] = h PROVE Place(s, h)
    <2>1. i + 1 \in 1..Len(s) /\ s[i + 1] = h
      BY <1>2 DEF Follows
    <2>2. QED
      BY <2>1 DEF Place
  <1>3. ASSUME h = Genesis PROVE Place(s, h)
    <2>1. 1 \in 1..Len(s)
      BY DEF Follows
    <2>2. QED
      BY <1>3, <2>1 DEF Follows, Place
  <1>4. QED
    BY <1>1, <1>2, <1>3 DEF Place

-----------------------------------------------------------------------------
(* The steps that touch the chain or the data base *)

(* Reading the headers of the data base: the walk begins at the last block  *)
(* of c, which is among them.                                               *)
LEMMA LoadState ==
    ASSUME IndInv, NEW c, ChainState(c), Load
    PROVE  ChainState(c)'
  <1>0. /\ c \in Seq(Blocks) /\ Len(c) \in Nat /\ (c # <<>> => Len(c) \in 1..Len(c))
        /\ dbHeaders \subseteq Blocks /\ Blocks \subseteq Hashes
        /\ hashes' = <<Genesis>> /\ blocks' = {Genesis} \cup dbHeaders
        /\ processedBlocks' = <<>> /\ UNCHANGED <<dbHeaders, dbMeta>>
    BY Markers DEF ChainState, Linked, IndInv, TypeOK, Load, LoadHeaders, CalcBegin, CalcEnd, diskVars
  <1>1. Linked(c)' /\ Holds(c)'
    BY <1>0 DEF ChainState, Linked, Holds, Place
  <1>2. CASE c = <<>>
    <2>1. dbMeta.blockHash = NoHash
      BY <1>2 DEF ChainState, Holds, Place
    <2>2. pc' = "workers"
      BY <2>1 DEF Load, Goto
    <2>3. ChainIs(c)'
      BY <1>0, <1>2 DEF ChainIs, Follows
    <2>4. dbHeaders = {}
      BY <1>0, <1>2 DEF ChainState, Holds, Place
    <2>5. \A h : OnChain(h)' <=> h = Genesis
      BY <1>0 DEF OnChain
    <2>6. KnownIs({})'
      BY <1>0, <2>4, <2>5 DEF KnownIs
    <2>7. QED
      BY <1>1, <2>2, <2>3, <2>6 DEF ChainState
  <1>3. CASE c # <<>>
    <2>1. dbMeta.blockHash = c[Len(c)] /\ c[Len(c)] \in Blocks /\ c[Len(c)] \in dbHeaders
      BY <1>0, <1>3 DEF ChainState, Holds, Place
    <2>2. dbMeta.blockHash # NoHash
      BY <2>1, Markers
    <2>3. pc' = "loadCalc" /\ bh' = c[Len(c)]
      BY <1>0, <2>1, <2>2 DEF Load, Goto, CalcBegin
    <2>4. \A i \in 1..Len(c) : blockNumber'[c[i]] = NoNumber
      <3> TAKE i \in 1..Len(c)
      <3>1. c[i] \in Blocks
        BY <1>0
      <3>2. QED
        BY <3>1, Markers DEF Load, LoadHeaders
    <2>5. Loading(c)'
      BY <1>0, <1>3, <2>3, <2>4 DEF Loading
    <2>6. QED
      BY <1>1, <2>3, <2>5 DEF ChainState, Plain
  <1>4. QED
    BY <1>2, <1>3

(* One turn of calcBlockchain at start goes on to the block below. *)
LEMMA LoadWalkState ==
    ASSUME IndInv, NEW c, ChainState(c), Walk, pc = "loadCalc"
    PROVE  ChainState(c)'
  <1> DEFINE k == Len(processedBlocks)
  <1>0. /\ c \in Seq(Blocks) /\ Len(c) \in Nat /\ k \in Nat
        /\ \A i \in 1..Len(c) : c[i] \in Blocks
        /\ processedBlocks \in Seq(Hashes) /\ bh \in Hashes
        /\ blockNumber \in [Hashes -> Nat \cup {NoNumber}]
        /\ Blocks \subseteq Hashes
    BY Markers DEF ChainState, Linked, IndInv, ChainInv, BlockChainTypeOK
  <1>1. Loading(c) /\ Linked(c) /\ Holds(c)
    BY DEF ChainState
  <1>2. /\ CalcWalk /\ UNCHANGED <<pc, dbHeaders, dbMeta, blocks, hashes>>
        /\ blockNumber[bh] = NoNumber
    BY DEF Walk, CalcWalk, diskVars
  <1>3. Linked(c)' /\ Holds(c)'
    BY <1>1, <1>2 DEF Linked, Holds, Place
  <1>4. k < Len(c)
    <2> SUFFICES ASSUME k = Len(c) PROVE FALSE
      BY <1>0, <1>1 DEF Loading
    <2>1. Len(c) >= 1
      BY <1>0, <1>1 DEF Loading
    <2>2. bh \in blocks
      BY DEF IndInv, PhaseInv
    <2>3. CASE bh = Genesis
      <3>1. blockNumber[Genesis] = 0
        BY DEF IndInv, ChainInv, ChainNumbered
      <3>2. QED
        BY <2>3, <3>1, <1>2 DEF NoNumber
    <2>4. CASE bh # Genesis
      <3>1. bh \in dbHeaders /\ bh \in Blocks
        BY <2>2, <2>4, <1>0, <1>1 DEF Loading, IndInv, TypeOK
      <3>2. PICK i \in 1..Len(c) : c[i] = bh
        BY <3>1, <1>1 DEF Holds, Place
      <3>3. Len(c) + 1 - i \in 1..k /\ Len(c) + 1 - (Len(c) + 1 - i) = i
        BY <1>0
      <3>4. processedBlocks[Len(c) + 1 - i] = c[i]
        BY <3>3, <1>1 DEF Loading
      <3>5. blockNumber[c[i]] = (Len(c) + 1 - i) - 1
        BY <3>3, <3>4 DEF IndInv, ChainInv, WalkedInv
      <3>6. QED
        BY <3>2, <3>5, <1>0, <1>2 DEF NoNumber
    <2>5. QED
      BY <2>3, <2>4
  <1>5. bh = c[Len(c) - k] /\ Len(c) - k \in 1..Len(c)
    BY <1>0, <1>1, <1>4 DEF Loading
  <1>6. /\ Len(processedBlocks') = k + 1
        /\ processedBlocks'[k + 1] = bh
        /\ \A i \in 1..k : processedBlocks'[i] = processedBlocks[i]
    BY <1>0, <1>2 DEF CalcWalk
  <1>7. \A i \in 1..(k + 1) : processedBlocks'[i] = c[Len(c) + 1 - i]
    <2> TAKE i \in 1..(k + 1)
    <2>1. CASE i \in 1..k
      BY <2>1, <1>1, <1>6 DEF Loading
    <2>2. CASE i = k + 1
      BY <2>2, <1>0, <1>5, <1>6
    <2>3. QED
      BY <2>1, <2>2, <1>0
  <1>8. \A i \in 1..(Len(c) - (k + 1)) : blockNumber'[c[i]] = NoNumber
    <2> TAKE i \in 1..(Len(c) - (k + 1))
    <2>1. i \in 1..(Len(c) - k) /\ i \in 1..Len(c) /\ i # Len(c) - k
      BY <1>0
    <2>2. c[i] # bh
      BY <2>1, <1>1, <1>5 DEF Linked
    <2>3. QED
      BY <2>1, <2>2, <1>0, <1>1, <1>2 DEF Loading, CalcWalk
  <1>9. bh' = IF prevHash[bh] \in blocks THEN prevHash[bh] ELSE bh
    BY <1>2 DEF CalcWalk
  <1>10. k + 1 < Len(c) => bh' = c[Len(c) - (k + 1)]
    <2> SUFFICES ASSUME k + 1 < Len(c) PROVE bh' = c[Len(c) - (k + 1)]
      OBVIOUS
    <2>1. Len(c) - k \in 2..Len(c) /\ Len(c) - (k + 1) \in 1..Len(c)
          /\ (Len(c) - k) - 1 = Len(c) - (k + 1)
      BY <1>0
    <2>2. prevHash[bh] = c[Len(c) - (k + 1)]
      BY <2>1, <1>1, <1>5 DEF Linked
    <2>3. c[Len(c) - (k + 1)] \in Blocks /\ c[Len(c) - (k + 1)] \in dbHeaders
      BY <2>1, <1>0, <1>1 DEF Holds, Place
    <2>4. c[Len(c) - (k + 1)] \in blocks
      BY <2>3, <1>0, <1>1 DEF Loading
    <2>5. QED
      BY <2>2, <2>4, <1>9
  <1>11. k + 1 = Len(c) => bh' = IF prevHash[c[1]] \in blocks THEN prevHash[c[1]] ELSE c[1]
    <2> SUFFICES ASSUME k + 1 = Len(c)
                 PROVE  bh' = IF prevHash[c[1]] \in blocks THEN prevHash[c[1]] ELSE c[1]
      OBVIOUS
    <2>1. Len(c) - k = 1
      BY <1>0
    <2>2. QED
      BY <2>1, <1>5, <1>9
  <1>12. Loading(c)'
    BY <1>0, <1>1, <1>2, <1>4, <1>6, <1>7, <1>8, <1>10, <1>11 DEF Loading
  <1>13. QED
    BY <1>2, <1>3, <1>12 DEF ChainState, Plain

(* calcBlockchain returns at start only after the whole walk, with c as the *)
(* chain.                                                                   *)
LEMMA LoadDoneState ==
    ASSUME IndInv, NEW c, ChainState(c), LoadDone
    PROVE  ChainState(c)'
  <1> DEFINE k == Len(processedBlocks)
  <1>0. /\ c \in Seq(Blocks) /\ Len(c) \in Nat /\ k \in Nat
        /\ \A i \in 1..Len(c) : c[i] \in Blocks
        /\ dbHeaders \subseteq Blocks /\ blocks \subseteq Hashes
    BY DEF ChainState, Linked, IndInv, TypeOK, ChainInv, BlockChainTypeOK
  <1>1. Loading(c) /\ Linked(c) /\ Holds(c)
    BY DEF ChainState, LoadDone
  <1>2. CalcReturn /\ pc' = "workers" /\ UNCHANGED <<dbHeaders, dbMeta, blocks>>
    BY DEF LoadDone, CalcReturn, Goto, diskVars
  <1>3. Linked(c)' /\ Holds(c)'
    BY <1>1, <1>2 DEF Linked, Holds, Place
  <1>4. k = Len(c)
    <2> SUFFICES ASSUME k < Len(c) PROVE FALSE
      BY <1>0, <1>1 DEF Loading
    <2>1. Len(c) - k \in 1..(Len(c) - k) /\ bh = c[Len(c) - k]
      BY <1>0, <1>1 DEF Loading
    <2>2. QED
      BY <2>1, <1>1, <1>2 DEF Loading, CalcReturn
  <1>5. /\ Len(hashes) = 1 /\ hashes[1] = Genesis
        /\ Len(hashes') = Len(c) + 1
        /\ hashes'[1] = Genesis
        /\ \A i \in 1..k : hashes'[1 + i] = processedBlocks[k + 1 - i]
    <2>1. hashes = <<Genesis>> /\ ChainInv
      BY <1>1 DEF Loading, IndInv
    <2>2. Len(hashes) = 1 /\ hashes[1] = Genesis
      BY <2>1
    <2>3. QED
      BY <2>1, <2>2, <1>0, <1>2, <1>4, ReturnChain
  <1>6. \A i \in 1..Len(c) : hashes'[i + 1] = c[i]
    <2> TAKE i \in 1..Len(c)
    <2>1. i \in 1..k /\ k + 1 - i \in 1..k /\ Len(c) + 1 - (k + 1 - i) = i /\ 1 + i = i + 1
      BY <1>0, <1>4
    <2>2. processedBlocks[k + 1 - i] = c[i]
      BY <2>1, <1>1 DEF Loading
    <2>3. QED
      BY <2>1, <2>2, <1>5
  <1>7. ChainIs(c)'
    BY <1>5, <1>6 DEF ChainIs, Follows
  <1>8. KnownIs({})'
    <2> SUFFICES ASSUME NEW h \in Hashes
                 PROVE  h \in blocks <=> Place(hashes', h)
      BY <1>2 DEF KnownIs, OnChain, Place
    <2>1. Place(hashes', h) <=> h = Genesis \/ Place(c, h)
      BY <1>0, <1>7, PlacesOf DEF ChainIs
    <2>2. h \in blocks <=> h = Genesis \/ h \in dbHeaders
      BY <1>1 DEF Loading
    <2>3. h \in dbHeaders <=> Place(c, h)
      BY <1>0, <1>1 DEF Holds, Place
    <2>4. QED
      BY <2>1, <2>2, <2>3
  <1>9. QED
    BY <1>2, <1>3, <1>7, <1>8 DEF ChainState, Plain

(* addBlock puts the block into the map: it is the only one off the chain. *)
LEMMA AddNewState ==
    ASSUME IndInv, NEW c, ChainState(c), AddNew
    PROVE  ChainState(c)'
  <1>1. /\ Linked(c) /\ Holds(c) /\ ChainIs(c) /\ KnownIs({})
        /\ prevBi \in Blocks /\ prevBi \in Hashes
        /\ blocks \subseteq Hashes /\ blockNumber \in [Hashes -> Nat \cup {NoNumber}]
    BY Markers DEF ChainState, AddNew, Plain, IndInv, PhaseInv, InHand, ChainInv, BlockChainTypeOK
  <1>2. /\ pc' = "addCalc" /\ prevBi' = prevBi /\ UNCHANGED <<dbHeaders, dbMeta, hashes>>
        /\ blocks' = blocks \cup {prevBi}
        /\ processedBlocks' = <<>> /\ bh' = prevBi
        /\ blockNumber' = [blockNumber EXCEPT ![prevBi] = NoNumber]
    BY DEF AddNew, AddWithoutCalc, CalcBegin, Goto, diskVars, biVars
  <1>3. Linked(c)' /\ Holds(c)' /\ ChainIs(c)'
    BY <1>1, <1>2 DEF Linked, Holds, ChainIs, Follows
  <1>4. KnownIs({prevBi})'
    BY <1>1, <1>2 DEF KnownIs, OnChain
  <1>5. Adding'
    BY <1>1, <1>2 DEF Adding
  <1>6. QED
    BY <1>2, <1>3, <1>4, <1>5 DEF ChainState, Plain

(* The walk of addBlock: after the new block it meets one with a number. *)
LEMMA AddWalkState ==
    ASSUME IndInv, NEW c, ChainState(c), Walk, pc = "addCalc"
    PROVE  ChainState(c)'
  <1>1. /\ Linked(c) /\ Holds(c) /\ ChainIs(c) /\ KnownIs({prevBi}) /\ Adding
        /\ prevBi \in Blocks /\ bh \in blocks /\ blocks \subseteq Hashes
        /\ blockNumber \in [Hashes -> Nat \cup {NoNumber}]
        /\ ChainNumbered /\ WalkedInv
        /\ prevHash[prevBi] \in Hashes /\ prevHash[prevBi] # prevBi
        /\ Len(hashes) \in Nat
    <2>1. prevBi \in Blocks /\ bh \in blocks
      BY DEF IndInv, PhaseInv, InHand
    <2>2. Linked(c) /\ Holds(c) /\ ChainIs(c) /\ KnownIs({prevBi}) /\ Adding
      BY DEF ChainState
    <2>3. QED
      BY <2>1, <2>2, ChainFacts
  <1>2. /\ CalcWalk /\ UNCHANGED <<pc, prevBi, dbHeaders, dbMeta, blocks, hashes>>
        /\ blockNumber[bh] = NoNumber
    BY DEF Walk, CalcWalk, diskVars, biVars
  <1>3. Linked(c)' /\ Holds(c)' /\ ChainIs(c)' /\ KnownIs({prevBi})'
    BY <1>1, <1>2 DEF Linked, Holds, ChainIs, Follows, KnownIs, OnChain
  <1>4. \A h \in Hashes : OnChain(h) => blockNumber[h] # NoNumber
    BY <1>1 DEF OnChain, ChainNumbered, NoNumber
  <1>5. ~(processedBlocks = <<prevBi>>)
    <2> SUFFICES ASSUME processedBlocks = <<prevBi>> PROVE FALSE
      OBVIOUS
    <2>1. blockNumber[prevBi] = 0
      <3>1. Len(processedBlocks) = 1 /\ processedBlocks[1] = prevBi
        OBVIOUS
      <3>2. blockNumber[processedBlocks[1]] = 1 - 1
        BY <3>1, <1>1 DEF WalkedInv
      <3>3. QED
        BY <3>1, <3>2
    <2>2. bh # prevBi => OnChain(bh)
      BY <1>1 DEF KnownIs
    <2>3. QED
      BY <2>1, <2>2, <1>1, <1>2, <1>4 DEF NoNumber
  <1>6. processedBlocks = <<>> /\ bh = prevBi
    BY <1>1, <1>5 DEF Adding
  <1>7. processedBlocks' = <<prevBi>>
    BY <1>2, <1>6 DEF CalcWalk
  <1>8. Adding'
    BY <1>2, <1>6, <1>7 DEF CalcWalk, Adding
  <1>9. QED
    BY <1>2, <1>3, <1>8 DEF ChainState, Plain

(* addBlock returns: the new block is the child of the last one, or the     *)
(* first of a chain that has none, and is the only one to join it.          *)
LEMMA AddDoneState ==
    ASSUME IndInv, FetchInv, NEW c, ChainState(c), AddDone
    PROVE  /\ ChainState(c)'
           /\ pc' = "feed"
           /\ Len(hashes') = Len(hashes) + 1
           /\ AllNum = Len(hashes)
           /\ UNCHANGED <<biVars, known, nextNum>>
  <1>1. /\ Linked(c) /\ Holds(c) /\ ChainIs(c) /\ KnownIs({prevBi}) /\ Adding
        /\ prevBi \in Blocks /\ blocks \subseteq Hashes
        /\ blockNumber \in [Hashes -> Nat \cup {NoNumber}]
        /\ ChainInv /\ ChainNumbered /\ WalkedInv
        /\ hashes \in Seq(Hashes) /\ Len(hashes) \in Nat /\ Len(hashes) >= 1
        /\ c \in Seq(Blocks) /\ Len(c) \in Nat
        /\ prevHash[prevBi] \in Hashes /\ prevHash[prevBi] # prevBi
        /\ ~OnChain(prevBi) /\ hashes[1] = Genesis
    <2>1. prevBi \in Blocks /\ ~OnChain(prevBi)
      BY DEF AddDone, IndInv, PhaseInv, InHand
    <2>2. Linked(c) /\ Holds(c) /\ ChainIs(c) /\ KnownIs({prevBi}) /\ Adding
      BY DEF AddDone, ChainState
    <2>3. c \in Seq(Blocks) /\ Len(c) \in Nat
      BY <2>2 DEF Linked
    <2>4. QED
      BY <2>1, <2>2, <2>3, ChainFacts
  <1>2. CalcReturn /\ blockNumber[bh] # NoNumber /\ NumberFits /\ UNCHANGED <<blocks, dbHeaders, dbMeta, known, nextNum>>
    BY DEF AddDone, CalcReturn, diskVars, sourceVars
  <1>3. processedBlocks = <<prevBi>>
    BY <1>1, <1>2 DEF Adding
  <1>4. /\ Len(processedBlocks) = 1 /\ processedBlocks[1] = prevBi
        /\ processedBlocks # <<>> /\ FirstWalked = prevBi
    BY <1>3 DEF FirstWalked
  <1>5. blockNumber[prevBi] = 0
    BY <1>1, <1>4 DEF WalkedInv
  <1>6. AllNum = 1 + blockNumber[bh] /\ AllNum = Len(hashes)
    <2>1. AllNum = 1 + blockNumber[bh]
      BY <1>4 DEF AllNum
    <2>2. AllNum - 0 = Len(hashes)
      BY <1>2, <1>4, <1>5 DEF NumberFits
    <2>3. AllNum \in Nat
      BY <1>2, <1>1, ReturnChain
    <2>4. QED
      BY <2>1, <2>2, <2>3
  <1>7. /\ Len(hashes') = Len(hashes) + 1
        /\ hashes'[Len(hashes) + 1] = prevBi
        /\ \A i \in 1..Len(hashes) : hashes'[i] = hashes[i]
    <2>1. /\ Len(hashes') = Len(hashes) + Len(processedBlocks)
          /\ \A i \in 1..Len(hashes) : hashes'[i] = hashes[i]
          /\ \A i \in 1..Len(processedBlocks) :
                hashes'[Len(hashes) + i] = processedBlocks[Len(processedBlocks) + 1 - i]
      BY <1>1, <1>2, ReturnChain
    <2>2. QED
      BY <2>1, <1>4
  <1>8. pc' = "feed" /\ UNCHANGED biVars /\ prevBi' = prevBi
    BY <1>1, <1>6 DEF AddDone, Goto, biVars
  <1>9. Len(hashes) = Len(c) + 1 /\ \A i \in 1..Len(c) : c[i] = hashes[i + 1] /\ i + 1 \in 1..Len(hashes)
    BY <1>1 DEF ChainIs, Follows
  <1>10. \A i \in 1..Len(c) : c[i] # prevBi
    BY <1>1, <1>9 DEF OnChain
  <1>11. c # <<>> => prevHash[prevBi] = c[Len(c)]
    <2> SUFFICES ASSUME c # <<>> PROVE prevHash[prevBi] = c[Len(c)]
      OBVIOUS
    <2>1. Len(c) \in 1..Len(c) /\ Len(hashes) >= 2
      BY <1>1, <1>9
    <2>2. bh # prevBi
      BY <2>1, <1>5, <1>6
    <2>3. bh = prevHash[prevBi] /\ bh \in blocks
      BY <2>2, <1>1, <1>4 DEF Adding
    <2>4. PICK i \in 1..Len(hashes) : hashes[i] = bh
      BY <2>2, <2>3, <1>1 DEF KnownIs, OnChain
    <2>5. blockNumber[bh] = i - 1
      BY <2>4, <1>1 DEF ChainNumbered
    <2>6. i = Len(c) + 1
      BY <2>5, <1>6, <1>9, <1>1
    <2>7. QED
      BY <2>1, <2>3, <2>4, <2>6, <1>9
  <1>12. Len(c) + 1 <= MaxBlock /\ prevBi \in Answers[Len(c) + 1]
    <2>1. CountBlocks + 1 = Len(c) + 1
      BY <1>1, <1>9 DEF CountBlocks
    <2>2. QED
      BY <2>1 DEF FetchInv, InHand, AddDone
  <1>13. /\ Linked(Append(c, prevBi))
         /\ Len(Append(c, prevBi)) = Len(c) + 1
         /\ Append(c, prevBi)[Len(c) + 1] = prevBi
         /\ \A i \in 1..Len(c) : Append(c, prevBi)[i] = c[i]
    BY <1>1, <1>10, <1>11, <1>12, LinkedAppend
  <1>14. Follows(hashes', Append(c, prevBi))
    <2> DEFINE d == Append(c, prevBi)
    <2> HIDE DEF d
    <2>1. Len(d) = Len(c) + 1 /\ d[Len(c) + 1] = prevBi /\ \A i \in 1..Len(c) : d[i] = c[i]
      BY <1>13 DEF d
    <2>2. \A i \in 1..Len(d) : hashes'[i + 1] = d[i]
      <3> TAKE i \in 1..Len(d)
      <3>1. CASE i \in 1..Len(c)
        BY <3>1, <2>1, <1>7, <1>9
      <3>2. CASE i = Len(c) + 1
        BY <3>2, <2>1, <1>7, <1>9
      <3>3. QED
        BY <3>1, <3>2, <2>1, <1>1
    <2>3. Len(hashes') = Len(d) + 1 /\ hashes'[1] = Genesis
      BY <2>1, <1>1, <1>7, <1>9
    <2>4. QED
      BY <2>2, <2>3 DEF Follows, d
  <1>15. \A h \in Hashes : h \in blocks <=> \E i \in 1..Len(hashes') : hashes'[i] = h
    <2> TAKE h \in Hashes
    <2>1. h \in blocks <=> OnChain(h) \/ h = prevBi
      BY <1>1 DEF KnownIs
    <2>2. ASSUME OnChain(h) PROVE \E i \in 1..Len(hashes') : hashes'[i] = h
      <3>1. PICK i \in 1..Len(hashes) : hashes[i] = h
        BY <2>2 DEF OnChain
      <3>2. i \in 1..Len(hashes') /\ hashes'[i] = h
        BY <3>1, <1>1, <1>7
      <3>3. QED
        BY <3>2
    <2>3. ASSUME h = prevBi PROVE \E i \in 1..Len(hashes') : hashes'[i] = h
      <3>1. Len(hashes) + 1 \in 1..Len(hashes')
        BY <1>1, <1>7
      <3>2. QED
        BY <2>3, <3>1, <1>7
    <2>4. ASSUME NEW i \in 1..Len(hashes'), hashes'[i] = h PROVE OnChain(h) \/ h = prevBi
      <3>1. i \in 1..Len(hashes) \/ i = Len(hashes) + 1
        BY <1>1, <1>7
      <3>2. QED
        BY <2>4, <3>1, <1>7 DEF OnChain
    <2>5. QED
      BY <2>1, <2>2, <2>3, <2>4
  <1>16. KnownIs({})'
    BY <1>2, <1>15 DEF KnownIs, OnChain
  <1>17. Linked(c)' /\ Holds(c)' /\ ChainIs(Append(c, prevBi))' /\ Linked(Append(c, prevBi))'
    BY <1>1, <1>2, <1>8, <1>13, <1>14 DEF Linked, Holds, ChainIs
  <1>18. ChainState(c)'
    BY <1>8, <1>16, <1>17 DEF ChainState, Plain
  <1>19. QED
    BY <1>2, <1>6, <1>7, <1>8, <1>18

(* A block that addBlock refuses leaves the map again. *)
LEMMA RefusedState ==
    ASSUME IndInv, NEW c, ChainState(c), AddThrows \/ Remove
    PROVE  ChainState(c)'
  <1>1. Linked(c) /\ Holds(c) /\ ChainIs(c) /\ KnownIs({prevBi})
    BY DEF ChainState, AddThrows, Remove
  <1>2. UNCHANGED <<dbHeaders, dbMeta, hashes>>
    BY DEF AddThrows, Remove, CalcThrow, RemoveBlock, diskVars
  <1>3. Linked(c)' /\ Holds(c)' /\ ChainIs(c)'
    BY <1>1, <1>2 DEF Linked, Holds, ChainIs, Follows
  <1>4. CASE AddThrows
    <2>1. pc' = "remove" /\ prevBi' = prevBi /\ blocks' = blocks
      BY <1>4 DEF AddThrows, CalcThrow, Goto, biVars
    <2>2. KnownIs({prevBi})'
      BY <1>1, <1>2, <2>1 DEF KnownIs, OnChain
    <2>3. QED
      BY <1>3, <2>1, <2>2 DEF ChainState, Plain
  <1>5. CASE Remove
    <2>1. pc' = "poll" /\ blocks' = blocks \ {prevBi} /\ ~OnChain(prevBi)
      BY <1>5 DEF Remove, RemoveBlock, Again, Goto, IndInv, PhaseInv
    <2>2. KnownIs({})'
      BY <1>1, <1>2, <2>1 DEF KnownIs, OnChain
    <2>3. QED
      BY <1>3, <2>1, <2>2 DEF ChainState, Plain
  <1>6. QED
    BY <1>4, <1>5

(* saveBlockToLeveldb puts the last block of the chain behind c.  Its       *)
(* parent is the block of the metadata, which is not its own parent: the    *)
(* comparison of hashes never keeps the old block.                          *)
LEMMA SaveState ==
    ASSUME IndInv, NEW c, ChainState(c), SaveBlock
    PROVE  /\ \E d : ChainState(d)'
           /\ prevBi \notin dbHeaders
           /\ dbMeta'.blockHash = prevBi
           /\ c = <<>> \/ prevHash[prevBi] = dbMeta.blockHash
  <1>0. PICK d : d = Append(c, prevBi)
    OBVIOUS
  <1>1. /\ Linked(c) /\ Holds(c) /\ ChainIs(d) /\ KnownIs({}) /\ Linked(d)
        /\ prevBi \in Blocks /\ dbHeaders \subseteq Blocks
    <2>1. Linked(c) /\ Holds(c) /\ ChainIs(d) /\ KnownIs({}) /\ Linked(d)
      BY <1>0 DEF ChainState, SaveBlock
    <2>2. prevBi \in Blocks
      BY DEF SaveBlock, IndInv, PhaseInv, InHand
    <2>3. QED
      BY <2>1, <2>2, ChainFacts
  <1>2. /\ c \in Seq(Blocks) /\ Len(c) \in Nat
        /\ Len(d) = Len(c) + 1 /\ d[Len(c) + 1] = prevBi
        /\ \A i \in 1..Len(c) : d[i] = c[i]
        /\ d # <<>>
        /\ \A i \in 1..Len(c) : c[i] \in Blocks
    BY <1>0, <1>1 DEF Linked
  <1>3. /\ pc' = "fetch" /\ UNCHANGED <<blocks, hashes>>
        /\ dbHeaders' = dbHeaders \cup {prevBi}
        /\ dbMeta' = NewMeta(prevBi)
    BY DEF SaveBlock, Goto, chainVars
  <1>4. c # <<>> => prevHash[prevBi] = c[Len(c)] /\ c[Len(c)] \in Blocks
    <2> SUFFICES ASSUME c # <<>> PROVE prevHash[prevBi] = c[Len(c)] /\ c[Len(c)] \in Blocks
      OBVIOUS
    <2>1. Len(c) \in 1..Len(c)
      BY <1>2
    <2>2. Len(c) + 1 \in 2..Len(d) /\ (Len(c) + 1) - 1 = Len(c)
      BY <2>1, <1>2
    <2>3. prevHash[d[Len(c) + 1]] = d[(Len(c) + 1) - 1]
      BY <2>2, <1>1 DEF Linked
    <2>4. QED
      BY <2>1, <2>2, <2>3, <1>2
  <1>5. dbMeta.prevBlockHash # prevHash[prevBi]
    <2>1. prevHash[prevBi] \in Hashes
      BY <1>1, ChainFacts
    <2>2. CASE c = <<>>
      <3>1. dbMeta.prevBlockHash = NoHash
        BY <2>2, <1>1 DEF Holds
      <3>2. QED
        BY <2>1, <3>1, Markers
    <2>3. CASE c # <<>>
      <3>1. dbMeta.prevBlockHash = prevHash[c[Len(c)]]
        BY <2>3, <1>1 DEF Holds
      <3>2. prevHash[c[Len(c)]] # c[Len(c)]
        BY <2>3, <1>4, ChainFacts
      <3>3. QED
        BY <2>3, <3>1, <3>2, <1>4
    <2>4. QED
      BY <2>2, <2>3
  <1>6. dbMeta'.blockHash = prevBi /\ dbMeta'.prevBlockHash = prevHash[prevBi]
    BY <1>3, <1>5 DEF NewMeta
  <1>7. \A i \in 1..Len(c) : c[i] # prevBi
    <2> TAKE i \in 1..Len(c)
    <2>1. i \in 1..Len(d) /\ Len(c) + 1 \in 1..Len(d) /\ i # Len(c) + 1
      BY <1>2
    <2>2. d[i] # d[Len(c) + 1]
      BY <2>1, <1>1 DEF Linked
    <2>3. QED
      BY <2>2, <1>2
  <1>8. prevBi \notin dbHeaders
    BY <1>1, <1>7 DEF Holds, Place
  <1>9. \A h : Place(d, h) <=> Place(c, h) \/ h = prevBi
    <2> TAKE h
    <2>1. ASSUME NEW i \in 1..Len(d), d[i] = h PROVE Place(c, h) \/ h = prevBi
      <3>1. i \in 1..Len(c) \/ i = Len(c) + 1
        BY <1>2
      <3>2. QED
        BY <2>1, <3>1, <1>2 DEF Place
    <2>2. ASSUME NEW i \in 1..Len(c), c[i] = h PROVE Place(d, h)
      <3>1. i \in 1..Len(d) /\ d[i] = h
        BY <2>2, <1>2
      <3>2. QED
        BY <3>1 DEF Place
    <2>3. ASSUME h = prevBi PROVE Place(d, h)
      <3>1. Len(c) + 1 \in 1..Len(d) /\ d[Len(c) + 1] = h
        BY <2>3, <1>2
      <3>2. QED
        BY <3>1 DEF Place
    <2>4. QED
      BY <2>1, <2>2, <2>3 DEF Place
  <1>10. \A h \in Blocks : h \in dbHeaders' <=> Place(d, h)
    BY <1>1, <1>3, <1>9 DEF Holds
  <1>11. d[Len(d)] = prevBi
    BY <1>2
  <1>12. Linked(d)' /\ ChainIs(d)' /\ KnownIs({})'
    BY <1>1, <1>3 DEF Linked, ChainIs, Follows, KnownIs, OnChain
  <1>13. Holds(d)'
    BY <1>2, <1>6, <1>10, <1>11 DEF Holds, Place
  <1>14. ChainState(d)'
    BY <1>3, <1>12, <1>13 DEF ChainState, Plain
  <1>15. c # <<>> => prevHash[prevBi] = dbMeta.blockHash
    BY <1>1, <1>4 DEF Holds
  <1>16. QED
    BY <1>6, <1>8, <1>14, <1>15

(* The end of the process, and of the thread, leaves the data base as it is.*)
LEMMA StopState ==
    ASSUME NEW c, ChainState(c), UNCHANGED <<dbHeaders, dbMeta>>,
           \/ pc' \in {"start", "dead"} /\ Len(hashes') = 1
           \/ pc \in Plain /\ pc' = "dead" /\ UNCHANGED hashes
    PROVE  ChainState(c)'
  <1>1. Linked(c)' /\ Holds(c)'
    BY DEF ChainState, Linked, Holds, Place
  <1>2. pc \in Plain /\ UNCHANGED hashes => ChainIs(c)'
    BY DEF ChainState, ChainIs, Follows
  <1>3. QED
    BY <1>1, <1>2 DEF ChainState, Plain

(* Every other step leaves the chain and the data base alone, and stays on  *)
(* its side of addBlock.                                                    *)
LEMMA QuietState ==
    ASSUME NEW c, ChainState(c), UNCHANGED <<chainVars, dbHeaders, dbMeta>>,
           \/ pc' = pc /\ prevBi' = prevBi
           \/ pc \in Plain /\ pc' \in Plain
           \/ pc = "feed" /\ pc' = "save" /\ prevBi' = prevBi
    PROVE  ChainState(c)'
  <1>1. Linked(c)' /\ Holds(c)'
    BY DEF ChainState, Linked, Holds, Place
  <1>2. /\ Loading(c) => Loading(c)'
        /\ ChainIs(c) => ChainIs(c)'
        /\ KnownIs({}) => KnownIs({})'
        /\ hashes' = hashes
    BY DEF chainVars, Loading, ChainIs, Follows, KnownIs, OnChain
  <1>3. ASSUME prevBi' = prevBi
        PROVE  /\ KnownIs({prevBi}) => KnownIs({prevBi})'
               /\ Adding => Adding'
               /\ ChainIs(Append(c, prevBi)) => ChainIs(Append(c, prevBi))'
               /\ Linked(Append(c, prevBi)) => Linked(Append(c, prevBi))'
    BY <1>3 DEF chainVars, Adding, ChainIs, Follows, KnownIs, OnChain, Linked
  <1>4. CASE pc' = pc /\ prevBi' = prevBi
    BY <1>1, <1>2, <1>3, <1>4 DEF ChainState
  <1>5. CASE pc \in Plain /\ pc' \in Plain
    BY <1>1, <1>2, <1>5 DEF ChainState, Plain
  <1>6. CASE pc = "feed" /\ pc' = "save" /\ prevBi' = prevBi
    BY <1>1, <1>2, <1>3, <1>6 DEF ChainState, Plain
  <1>7. QED
    BY <1>4, <1>5, <1>6

(* As long as no batch fails, the data base holds a linked chain, and the   *)
(* chain in memory stands to it as ChainState says.                         *)
LEMMA ChainStep ==
    ASSUME IndInv, FetchInv, NEW c, ChainState(c), [Next]_vars, ~SaveThrows
    PROVE  \E d : ChainState(d)'
  <1>1. CASE Load \/ LoadDone
    BY <1>1, LoadState, LoadDoneState
  <1>2. CASE Walk
    <2>1. pc \in {"loadCalc", "addCalc"}
      BY <1>2 DEF Walk
    <2>2. QED
      BY <1>2, <2>1, LoadWalkState, AddWalkState
  <1>3. CASE AddNew \/ AddDone \/ AddThrows \/ Remove
    BY <1>3, AddNewState, AddDoneState, RefusedState
  <1>4. CASE SaveBlock
    BY <1>4, SaveState
  <1>5. CASE LoadThrows \/ RetryThrows \/ Crash \/ CrashInAppend
    <2>1. UNCHANGED <<dbHeaders, dbMeta>>
      BY <1>5 DEF LoadThrows, RetryThrows, Crash, CrashInAppend, Restart, Reset, Goto, diskVars
    <2>2. CASE LoadThrows
      <3>1. pc' = "dead" /\ hashes' = hashes /\ hashes = <<Genesis>>
        BY <2>2 DEF LoadThrows, CalcThrow, Goto, ChainState, Loading
      <3>2. QED
        BY <2>1, <3>1, StopState
    <2>3. CASE RetryThrows
      <3>1. pc' = "dead" /\ hashes' = hashes /\ pc \in Plain
        BY <2>3 DEF RetryThrows, Goto, chainVars, Plain
      <3>2. QED
        BY <2>1, <3>1, StopState
    <2>4. CASE Crash \/ CrashInAppend
      <3>1. pc' = "start" /\ Len(hashes') = 1
        BY <2>4 DEF Crash, CrashInAppend, Restart, Reset, Goto
      <3>2. QED
        BY <2>1, <3>1, StopState
    <2>5. QED
      BY <1>5, <2>2, <2>3, <2>4
  <1>6. CASE StartWorkers \/ RetryFromFile \/ RetryFromNetwork \/ RetryDone \/ AddKnown
             \/ (\E last \in 0..MaxBlock : Poll(last)) \/ PollThrows
             \/ (\E b \in Blocks : Fetch(b)) \/ FetchEnds \/ FetchThrows
             \/ AppendDump \/ AppendCut
    <2>1. UNCHANGED <<chainVars, dbHeaders, dbMeta>> /\ pc \in Plain /\ pc' \in Plain
      BY <1>6 DEF StartWorkers, RetryFromFile, RetryFromNetwork, RetryDone, AddKnown, Poll,
         PollThrows, Fetch, FetchEnds, FetchThrows, AppendDump, AppendCut, SaveTransactions,
         Offer, Again, Goto, Plain, diskVars
    <2>2. QED
      BY <2>1, QuietState
  <1>7. CASE Push \/ Fed
    <2>1. /\ UNCHANGED <<chainVars, dbHeaders, dbMeta>>
          /\ \/ pc' = pc /\ prevBi' = prevBi
             \/ pc \in Plain /\ pc' \in Plain
             \/ pc = "feed" /\ pc' = "save" /\ prevBi' = prevBi
      BY <1>7 DEF Push, Fed, Goto, Plain, diskVars, biVars
    <2>2. QED
      BY <2>1, QuietState
  <1>8. CASE WorkerStep \/ UNCHANGED vars
    <2>1. UNCHANGED <<chainVars, dbHeaders, dbMeta>> /\ pc' = pc /\ prevBi' = prevBi
      BY <1>8 DEF WorkerStep, CacheThread, SaverThread, Pop, Finish, CacheBlock, WorkerSkips,
         WorkerRejects, WorkerSaves, WorkerThrows, diskVars, biVars, vars
    <2>2. QED
      BY <2>1, QuietState
  <1>9. QED
    BY <1>1, <1>2, <1>3, <1>4, <1>5, <1>6, <1>7, <1>8 DEF Next, SyncStep

(* As long as no batch fails, every step keeps the numbers in step. *)
LEMMA FetchStep ==
    ASSUME IndInv, FetchInv, NEW c, ChainState(c), [Next]_vars, ~SaveThrows
    PROVE  FetchInv'
  <1>0. /\ Len(hashes) \in Nat /\ Len(hashes) >= 1 /\ CountBlocks \in Nat
        /\ known \in Nat /\ nextNum \in Nat /\ MaxBlock \in Nat
    BY SyncAssumption, ChainFacts DEF CountBlocks, IndInv, TypeOK
  <1>1. CASE Load \/ LoadDone \/ LoadThrows \/ StartWorkers \/ RetryThrows \/ RetryDone
             \/ RetryFromFile \/ RetryFromNetwork
    BY <1>1 DEF Load, LoadDone, LoadThrows, StartWorkers, RetryThrows, RetryDone, RetryFromFile,
       RetryFromNetwork, Offer, FetchInv, InHand, Goto, biVars, sourceVars
  <1>2. CASE Walk
    <2>1. UNCHANGED <<hashes, pc, known, nextNum, prevBi, nextBi>>
      BY <1>2 DEF Walk, CalcWalk, biVars, sourceVars
    <2>2. QED
      BY <2>1 DEF FetchInv, InHand, Uncounted, CountBlocks
  <1>3. CASE Push \/ WorkerStep \/ UNCHANGED vars
    <2>1. UNCHANGED <<hashes, pc, known, nextNum, prevBi, nextBi>>
      BY <1>3 DEF Push, WorkerStep, CacheThread, SaverThread, Pop, Finish, CacheBlock, WorkerSkips,
         WorkerRejects, WorkerSaves, WorkerThrows, biVars, sourceVars, chainVars, vars
    <2>2. QED
      BY <2>1 DEF FetchInv, InHand, Uncounted, CountBlocks
  <1>4. CASE Fed
    <2>1. UNCHANGED <<hashes, known, nextNum, prevBi, nextBi>>
          /\ \/ pc = "feed" /\ pc' = "save"
             \/ pc = "retryFeed" /\ pc' = "retry"
      BY <1>4 DEF Fed, Goto, biVars, sourceVars, chainVars
    <2>2. QED
      BY <2>1 DEF FetchInv, InHand, Uncounted, CountBlocks
  <1>5. CASE (\E last \in 0..MaxBlock : Poll(last)) \/ PollThrows
    <2>1. UNCHANGED <<hashes, prevBi, nextBi>> /\ nextNum' = CountBlocks + 1 /\ CountBlocks' = CountBlocks
          /\ known' <= MaxBlock /\ pc = "poll" /\ pc' \in {"poll", "fetch"}
      BY <1>0, <1>5 DEF Poll, PollThrows, Goto, biVars, chainVars, CountBlocks, FetchInv
    <2>2. QED
      BY <2>1 DEF FetchInv, InHand
  <1>6. CASE \E b \in Blocks : Fetch(b)
    <2>1. PICK b \in Blocks : Fetch(b)
      BY <1>6
    <2>2. /\ pc = "fetch" /\ nextNum <= known /\ b \in Answers[nextNum] /\ nextNum' = nextNum + 1
          /\ known' = known /\ known <= MaxBlock /\ CountBlocks' = CountBlocks /\ nextNum <= MaxBlock
      BY <1>0, <2>1 DEF Fetch, chainVars, CountBlocks, FetchInv
    <2>3. CASE ~Validate
      <3>1. prevBi' = b /\ pc' = "append" /\ nextNum = CountBlocks + 1
        BY <2>1, <2>2, <2>3 DEF Fetch, Goto, FetchInv
      <3>2. QED
        BY <1>0, <2>2, <2>3, <3>1 DEF FetchInv, InHand, Uncounted
    <2>4. CASE Validate /\ prevBi = NoBlock
      <3>1. prevBi' = b /\ pc' = "fetch" /\ nextNum = CountBlocks + 1
        BY <2>1, <2>2, <2>4 DEF Fetch, FetchInv
      <3>2. b # NoBlock
        BY Markers DEF NoBlock, Genesis
      <3>3. QED
        BY <1>0, <2>2, <2>4, <3>1, <3>2 DEF FetchInv, InHand
    <2>5. CASE Validate /\ prevBi # NoBlock /\ Confirmed(b)
      <3>1. /\ prevBi' = prevBi /\ nextBi' = b /\ pc' = "append" /\ nextNum = CountBlocks + 2
            /\ CountBlocks + 1 <= MaxBlock /\ prevBi \in Answers[CountBlocks + 1]
        BY <2>1, <2>2, <2>5 DEF Fetch, Goto, FetchInv
      <3>2. nextNum' - 1 = nextNum /\ nextNum' = CountBlocks + 3
        BY <1>0, <2>2, <3>1
      <3>3. QED
        BY <1>0, <2>2, <2>5, <3>1, <3>2 DEF FetchInv, InHand, Uncounted
    <2>6. CASE Validate /\ prevBi # NoBlock /\ ~Confirmed(b)
      <3>1. pc' = "poll" /\ prevBi' = NoBlock
        BY <2>1, <2>6 DEF Fetch, Again, Goto
      <3>2. QED
        BY <2>2, <3>1 DEF FetchInv, InHand
    <2>7. QED
      BY <2>3, <2>4, <2>5, <2>6
  <1>7. CASE FetchEnds \/ FetchThrows \/ AddKnown \/ Remove
    BY <1>7 DEF FetchEnds, FetchThrows, AddKnown, Remove, Again, Goto, FetchInv, InHand, sourceVars
  <1>8. CASE AppendDump \/ AppendCut \/ AddNew \/ AddThrows
    <2>1. UNCHANGED <<hashes, known, nextNum, prevBi, nextBi>>
          /\ pc \in InHand /\ pc' \in InHand \cup {"remove"}
      BY <1>8 DEF AppendDump, AppendCut, SaveTransactions, AddNew, AddWithoutCalc, AddThrows, CalcThrow,
         Goto, InHand, biVars, sourceVars, chainVars
    <2>2. QED
      BY <2>1 DEF FetchInv, InHand, Uncounted, CountBlocks
  <1>9. CASE AddDone
    <2>1. pc = "addCalc" /\ pc' = "feed" /\ Len(hashes') = Len(hashes) + 1
          /\ UNCHANGED <<prevBi, nextBi, known, nextNum>>
      BY <1>9, AddDoneState DEF biVars, AddDone
    <2>2. CountBlocks' = CountBlocks + 1
      BY <1>0, <2>1 DEF CountBlocks
    <2>3. QED
      BY <1>0, <2>1, <2>2 DEF FetchInv, InHand, Uncounted
  <1>10. CASE SaveBlock
    <2>1. pc = "save" /\ pc' = "fetch" /\ UNCHANGED <<hashes, known, nextNum>>
          /\ prevBi' = IF Validate THEN nextBi ELSE prevBi
      BY <1>10 DEF SaveBlock, Goto, chainVars, sourceVars
    <2>2. CountBlocks' = CountBlocks
      BY <2>1 DEF CountBlocks
    <2>3. CASE ~Validate
      BY <1>0, <2>1, <2>2, <2>3 DEF FetchInv, InHand, Uncounted
    <2>4. CASE Validate
      <3>1. nextNum = CountBlocks + 2 /\ nextNum - 1 <= MaxBlock /\ nextBi \in Answers[nextNum - 1]
        BY <1>0, <2>1, <2>4 DEF FetchInv, Uncounted
      <3>2. nextNum - 1 = CountBlocks + 1 /\ nextBi # NoBlock
        BY <1>0, <2>1, <2>4, <3>1, Markers DEF IndInv, PhaseInv, NoBlock, Genesis
      <3>3. QED
        BY <1>0, <2>1, <2>2, <2>4, <3>1, <3>2 DEF FetchInv, InHand
    <2>5. QED
      BY <2>3, <2>4
  <1>11. CASE Crash \/ CrashInAppend
    BY <1>0, <1>11 DEF Crash, CrashInAppend, Restart, Reset, Goto, FetchInv, InHand
  <1>12. QED
    BY <1>1, <1>2, <1>3, <1>4, <1>5, <1>6, <1>7, <1>8, <1>9, <1>10, <1>11 DEF Next, SyncStep

(* A failing batch is never forgotten. *)
LEMMA BatchesCounted ==
    ASSUME IndInv, [Next]_vars, budget["save"] <= Budget["save"]
    PROVE  /\ budget'["save"] <= Budget["save"]
           /\ NoBatchLost' => NoBatchLost /\ ~SaveThrows
  <1>0. /\ \A k \in FaultKinds : budget[k] \in Nat /\ Budget[k] \in Nat
        /\ DOMAIN budget = FaultKinds /\ "save" \in FaultKinds
    BY SyncAssumption DEF IndInv, TypeOK, FaultKinds
  <1>1. \A k : Spend(k) => budget'["save"] <= budget["save"] /\ budget'["save"] \in Nat
    BY <1>0 DEF Spend, FaultKinds
  <1>2. Spend("save") => budget'["save"] < budget["save"]
    BY <1>0 DEF Spend
  <1>3. UNCHANGED budget \/ \E k : Spend(k)
    BY DEF Next, SyncStep, WorkerStep, CacheThread, SaverThread, Load, Walk, LoadDone, LoadThrows,
       StartWorkers, RetryFromFile, RetryFromNetwork, RetryThrows, RetryDone, Push, Fed, Poll,
       PollThrows, Fetch, FetchEnds, FetchThrows, AppendDump, AppendCut, AddNew, AddKnown,
       AddDone, AddThrows, Remove, SaveBlock, SaveThrows, Pop, CacheBlock, WorkerSkips,
       WorkerRejects, WorkerSaves, WorkerThrows, Crash, CrashInAppend, Restart, Reset, vars
  <1>4. budget'["save"] <= budget["save"] /\ budget'["save"] \in Nat /\ budget["save"] \in Nat
        /\ Budget["save"] \in Nat
    BY <1>0, <1>1, <1>3
  <1>5. QED
    BY <1>2, <1>4 DEF NoBatchLost, SaveThrows

(* LedgerInv holds before the node has stored anything. *)
LEMMA LedgerStart ==
    ASSUME Init
    PROVE  LedgerInv
  <1>1. pc = "start" /\ known = 0 /\ prevBi = NoBlock /\ budget = Budget
        /\ dbHeaders = {} /\ dbMeta = [blockHash |-> NoHash, prevBlockHash |-> NoHash]
        /\ Len(hashes) = 1
    BY DEF Init, InitDisk, InitThreads, InitBlockChain
  <1>2. FetchInv
    BY <1>1, SyncAssumption DEF FetchInv, InHand
  <1>3. Linked(<<>>) /\ Holds(<<>>)
    BY <1>1 DEF Linked, Holds, Place
  <1>4. ChainState(<<>>)
    BY <1>1, <1>3 DEF ChainState, Plain
  <1>5. QED
    BY <1>1, <1>2, <1>4, SyncAssumption DEF LedgerInv, FaultKinds

(* Every step keeps LedgerInv. *)
LEMMA LedgerKept ==
    ASSUME IndInv, LedgerInv, [Next]_vars
    PROVE  LedgerInv'
  <1>1. budget'["save"] <= Budget["save"] /\ (NoBatchLost' => NoBatchLost /\ ~SaveThrows)
    BY BatchesCounted DEF LedgerInv
  <1>2. ASSUME NoBatchLost, ~SaveThrows PROVE FetchInv' /\ \E d : ChainState(d)'
    <2>1. FetchInv /\ \E c : ChainState(c)
      BY <1>2 DEF LedgerInv
    <2>2. PICK c : ChainState(c)
      BY <2>1
    <2>3. QED
      BY <1>2, <2>1, <2>2, ChainStep, FetchStep
  <1>3. QED
    BY <1>1, <1>2 DEF LedgerInv

(* LedgerInv holds in every reachable state. *)
LEMMA LedgerInductive == Spec => [](IndInv /\ LedgerInv)
  BY LedgerStart, LedgerKept, Inductive, PTL DEF Spec

-----------------------------------------------------------------------------
(* The results *)

(* The block in hand is an answer for its number. *)
LEMMA AskedHolds ==
    ASSUME IndInv, LedgerInv, NoBatchLost
    PROVE  AskedForThatNumber
  <1> SUFFICES ASSUME FetchInv, pc \in InHand PROVE AskedForThatNumber
    BY DEF LedgerInv, AskedForThatNumber
  <1>1. CountBlocks + 1 \in Nat /\ CountBlocks + 1 >= 1
    BY ChainFacts DEF CountBlocks
  <1>2. QED
    BY <1>1, SyncAssumption DEF FetchInv, AskedForThatNumber

(* Whatever the servers answer and whatever fails but a batch of            *)
(* saveBlockToLeveldb, the block in hand is an answer for the number that   *)
(* it is to get.                                                            *)
THEOREM AskedRight == Spec => [](NoBatchLost => AskedForThatNumber)
  <1>1. IndInv /\ LedgerInv => (NoBatchLost => AskedForThatNumber)
    BY AskedHolds
  <1>2. QED
    BY <1>1, LedgerInductive, PTL

(* What the chain in memory is when no block is on its way to the disk. *)
LEMMA ChainOf ==
    ASSUME IndInv, NEW c, ChainState(c), Loaded \/ Len(hashes) > 1
    PROVE  \E s : /\ Linked(s) /\ ChainIs(s)
                  /\ pc \notin {"feed", "save"} => s = c
                  /\ pc \in {"feed", "save"} => s = Append(c, prevBi)
  <1>1. pc \in Plain \cup {"addCalc", "remove"} \cup {"feed", "save"} \cup {"dead"}
        /\ (pc = "dead" => Len(hashes) > 1)
    <2>1. pc \in Pcs
      BY DEF IndInv, TypeOK
    <2>2. pc = "loadCalc" => ~(Len(hashes) > 1)
      <3> SUFFICES ASSUME pc = "loadCalc" PROVE ~(Len(hashes) > 1)
        OBVIOUS
      <3>1. hashes = <<Genesis>>
        BY DEF ChainState, Loading
      <3>2. Len(hashes) = 1
        BY <3>1
      <3>3. QED
        BY <3>2
    <2>3. pc = "start" => ~(Len(hashes) > 1)
      BY DEF ChainState
    <2>4. QED
      BY <2>1, <2>2, <2>3 DEF Loaded, Plain, Pcs
  <1>2. CASE pc \in {"feed", "save"}
    <2>1. Linked(Append(c, prevBi)) /\ ChainIs(Append(c, prevBi))
      BY <1>2 DEF ChainState
    <2>2. QED
      BY <1>2, <2>1
  <1>3. CASE pc \notin {"feed", "save"}
    <2>1. ~(1 > 1)
      OBVIOUS
    <2>2. Linked(c) /\ ChainIs(c)
      BY <1>1, <1>3, <2>1 DEF ChainState
    <2>3. QED
      BY <1>3, <2>2
  <1>4. QED
    BY <1>2, <1>3

(* The chain is linked. *)
LEMMA LinksHold ==
    ASSUME IndInv, LedgerInv, NoBatchLost
    PROVE  ChainLinked
  <1>1. PICK c : ChainState(c)
    BY DEF LedgerInv
  <1>2. CASE Len(hashes) > 1
    <2>1. PICK s : Linked(s) /\ ChainIs(s)
      BY <1>1, <1>2, ChainOf
    <2>2. s \in Seq(Blocks) /\ Len(s) \in Nat
      BY <2>1 DEF Linked
    <2>3. Len(hashes) = Len(s) + 1 /\ \A i \in 1..Len(s) : hashes[i + 1] = s[i]
      BY <2>1 DEF ChainIs, Follows
    <2>4. \A i \in 3..Len(hashes) :
             /\ i - 1 \in 2..Len(s) /\ (i - 1) - 1 \in 1..Len(s) /\ i - 1 \in 1..Len(s)
             /\ (i - 1) + 1 = i /\ ((i - 1) - 1) + 1 = i - 1
      BY <2>2, <2>3
    <2>5. \A i \in 3..Len(hashes) : hashes[i] = s[i - 1] /\ hashes[i - 1] = s[(i - 1) - 1]
      BY <2>3, <2>4
    <2>6. QED
      BY <2>1, <2>4, <2>5 DEF ChainLinked, Linked
  <1>3. CASE ~(Len(hashes) > 1)
    BY <1>3, ChainFacts DEF ChainLinked
  <1>4. QED
    BY <1>2, <1>3

(* Whatever the servers answer and whatever fails but a batch of            *)
(* saveBlockToLeveldb, every block of the chain above block 1 names the     *)
(* block before it as its parent.                                           *)
THEOREM LinksRight == Spec => [](NoBatchLost => ChainLinked)
  <1>1. IndInv /\ LedgerInv => (NoBatchLost => ChainLinked)
    BY LinksHold
  <1>2. QED
    BY <1>1, LedgerInductive, PTL

(* The data base holds the chain. *)
LEMMA StoredHolds ==
    ASSUME IndInv, LedgerInv, NoBatchLost
    PROVE  DbIsChain
  <1> SUFFICES ASSUME Loaded
               PROVE  /\ dbHeaders = {hashes[i] : i \in 2..StoredLen}
                      /\ StoredLen > 1 => dbMeta.blockHash = hashes[StoredLen]
    BY DEF DbIsChain
  <1>1. PICK c : ChainState(c)
    BY DEF LedgerInv
  <1>2. PICK s : /\ Linked(s) /\ ChainIs(s)
                 /\ pc \notin {"feed", "save"} => s = c
                 /\ pc \in {"feed", "save"} => s = Append(c, prevBi)
    BY <1>1, ChainOf
  <1>3. Linked(c) /\ Holds(c) /\ c \in Seq(Blocks) /\ Len(c) \in Nat
    BY <1>1 DEF ChainState, Linked
  <1>4. /\ Len(hashes) = Len(s) + 1
        /\ \A i \in 1..Len(s) : hashes[i + 1] = s[i]
    BY <1>2 DEF ChainIs, Follows
  <1>5. /\ StoredLen = Len(c) + 1
        /\ \A i \in 1..Len(c) : hashes[i + 1] = c[i]
    <2>1. CASE pc \in {"feed", "save"}
      <3>1. Len(s) = Len(c) + 1 /\ \A i \in 1..Len(c) : s[i] = c[i]
        BY <1>2, <1>3, <2>1
      <3>2. QED
        BY <1>3, <1>4, <2>1, <3>1 DEF StoredLen
    <2>2. CASE pc \notin {"feed", "save"}
      BY <1>2, <1>3, <1>4, <2>2 DEF StoredLen
    <2>3. QED
      BY <2>1, <2>2
  <1>6. \A h : (\E i \in 2..StoredLen : hashes[i] = h) <=> Place(c, h)
    <2> TAKE h
    <2>1. ASSUME NEW i \in 2..StoredLen, hashes[i] = h PROVE Place(c, h)
      <3>1. i - 1 \in 1..Len(c) /\ (i - 1) + 1 = i
        BY <1>3, <1>5
      <3>2. c[i - 1] = h
        BY <1>5, <2>1, <3>1
      <3>3. QED
        BY <3>1, <3>2 DEF Place
    <2>2. ASSUME NEW i \in 1..Len(c), c[i] = h PROVE \E j \in 2..StoredLen : hashes[j] = h
      <3>1. i + 1 \in 2..StoredLen /\ hashes[i + 1] = h
        BY <1>3, <1>5, <2>2
      <3>2. QED
        BY <3>1
    <2>3. QED
      BY <2>1, <2>2 DEF Place
  <1>7. \A h : h \in dbHeaders <=> Place(c, h)
    <2>1. dbHeaders \subseteq Blocks
      BY ChainFacts
    <2>2. \A h : Place(c, h) => h \in Blocks
      BY <1>3 DEF Place
    <2>3. \A h \in Blocks : h \in dbHeaders <=> Place(c, h)
      BY <1>3 DEF Holds
    <2>4. QED
      BY <2>1, <2>2, <2>3
  <1>8. dbHeaders = {hashes[i] : i \in 2..StoredLen}
    BY <1>6, <1>7
  <1>9. ASSUME StoredLen > 1 PROVE dbMeta.blockHash = hashes[StoredLen]
    <2>1. Len(c) \in 1..Len(c)
      BY <1>3, <1>5, <1>9
    <2>2. c # <<>>
      BY <2>1
    <2>3. dbMeta.blockHash = c[Len(c)]
      BY <1>3, <2>2 DEF Holds
    <2>4. QED
      BY <1>5, <2>1, <2>3
  <1>10. QED
    BY <1>8, <1>9

(* Whatever the servers answer and whatever fails but a batch of            *)
(* saveBlockToLeveldb, the data base holds the blocks of the chain and no   *)
(* other, but for the one that is on its way to it.                         *)
THEOREM StoredRight == Spec => [](NoBatchLost => DbIsChain)
  <1>1. IndInv /\ LedgerInv => (NoBatchLost => DbIsChain)
    BY StoredHolds
  <1>2. QED
    BY <1>1, LedgerInductive, PTL

(* The servers have no block 1 that does not name the genesis block. *)
RootsRight == MaxBlock >= 1 => \A b \in Answers[1] : prevHash[b] = Genesis

(* Block 1 of the chain names the genesis block. *)
LEMMA RootHolds ==
    ASSUME IndInv, LedgerInv, NoBatchLost, RootsRight
    PROVE  RootLinked
  <1> SUFFICES ASSUME Len(hashes) > 1
               PROVE  prevHash[hashes[2]] = Genesis
    BY DEF RootLinked
  <1>1. PICK c : ChainState(c)
    BY DEF LedgerInv
  <1>2. PICK s : Linked(s) /\ ChainIs(s)
    BY <1>1, ChainOf
  <1>3. s \in Seq(Blocks) /\ Len(s) \in Nat /\ Len(hashes) = Len(s) + 1
    BY <1>2 DEF Linked, ChainIs, Follows
  <1>4. 1 \in 1..Len(s) /\ 1 + 1 = 2
    BY <1>3
  <1>5. hashes[2] = s[1] /\ 1 <= MaxBlock /\ s[1] \in Answers[1]
    BY <1>2, <1>4 DEF Linked, ChainIs, Follows
  <1>6. QED
    BY <1>5, SyncAssumption DEF RootsRight

(* When no server offers a stray block 1, block 1 of the chain names the    *)
(* genesis block (the run sync_orphan shows what a stray one does).         *)
THEOREM RootRight ==
    ASSUME RootsRight
    PROVE  Spec => [](NoBatchLost => RootLinked)
  <1>1. IndInv /\ LedgerInv => (NoBatchLost => RootLinked)
    BY RootHolds
  <1>2. QED
    BY <1>1, LedgerInductive, PTL

(* The stored numbers go on from the genesis block. *)
LEMMA LoadFits ==
    ASSUME IndInv, LedgerInv, NoBatchLost, RootsRight
    PROVE  LoadedChainFits
  <1> SUFFICES ASSUME pc = "loadCalc", blockNumber[bh] # NoNumber
               PROVE  NumberFits
    BY DEF LoadedChainFits
  <1>1. PICK c : ChainState(c)
    BY DEF LedgerInv
  <1> DEFINE k == Len(processedBlocks)
  <1>2. /\ Linked(c) /\ Loading(c) /\ c \in Seq(Blocks) /\ Len(c) \in Nat /\ Len(c) >= 1
        /\ k \in Nat
    <2>1. Linked(c) /\ Loading(c)
      BY <1>1 DEF ChainState
    <2>2. c \in Seq(Blocks) /\ c # <<>>
      BY <2>1 DEF Linked, Loading
    <2>3. processedBlocks \in Seq(Hashes)
      BY ChainFacts DEF ChainInv, BlockChainTypeOK
    <2>4. QED
      BY <2>1, <2>2, <2>3
  <1>3. k = Len(c)
    <2> SUFFICES ASSUME k < Len(c) PROVE FALSE
      BY <1>2 DEF Loading
    <2>1. Len(c) - k \in 1..(Len(c) - k)
      BY <1>2
    <2>2. QED
      BY <1>2, <2>1 DEF Loading
  <1>4. prevHash[c[1]] = Genesis
    <2>1. 1 \in 1..Len(c)
      BY <1>2
    <2>2. 1 <= MaxBlock /\ c[1] \in Answers[1]
      BY <1>2, <2>1 DEF Linked
    <2>3. QED
      BY <2>2, SyncAssumption DEF RootsRight
  <1>5. bh = Genesis
    <2>1. Genesis \in blocks
      BY DEF IndInv, ChainInv
    <2>2. QED
      BY <1>2, <1>3, <1>4, <2>1 DEF Loading
  <1>6. blockNumber[bh] = 0 /\ Len(hashes) = 1
    <2>1. hashes = <<Genesis>>
      BY <1>2 DEF Loading
    <2>2. QED
      BY <1>5, <2>1, ChainFacts DEF ChainNumbered
  <1>7. blockNumber[FirstWalked] = k - 1
    <2>1. k \in 1..k
      BY <1>2, <1>3
    <2>2. QED
      BY <2>1, ChainFacts DEF FirstWalked, WalkedInv
  <1>8. QED
    BY <1>2, <1>3, <1>6, <1>7 DEF NumberFits, AllNum

(* When no server offers a stray block 1, the assertion of calcBlockchain   *)
(* holds whenever a stored chain is loaded, whatever fails but a batch of   *)
(* saveBlockToLeveldb: no crash leaves a data base that cannot be loaded.   *)
THEOREM LoadRight ==
    ASSUME RootsRight
    PROVE  Spec => [](NoBatchLost => LoadedChainFits)
  <1>1. IndInv /\ LedgerInv => (NoBatchLost => LoadedChainFits)
    BY LoadFits
  <1>2. QED
    BY <1>1, LedgerInductive, PTL

-----------------------------------------------------------------------------
(* The refinement *)

(* Every step of the node is a step of the ledger or leaves it alone. *)
LEMMA LedgerStep ==
    ASSUME IndInv, LedgerInv, NoBatchLost, [Next]_vars
    PROVE  [L!Next]_(L!ledgerVars)
  <1>1. CASE SaveBlock
    <2>1. PICK c : ChainState(c)
      BY DEF LedgerInv
    <2>2. /\ prevBi \notin dbHeaders /\ dbMeta'.blockHash = prevBi
          /\ c = <<>> \/ prevHash[prevBi] = dbMeta.blockHash
      BY <1>1, <2>1, SaveState
    <2>3. prevBi \in Blocks /\ prevBi # NoHash
      BY <1>1, Markers DEF SaveBlock, IndInv, PhaseInv
    <2>4. dbHeaders' = dbHeaders \cup {prevBi}
      BY <1>1 DEF SaveBlock
    <2>5. c = <<>> => dbHeaders = {}
      <3>1. \A h : ~Place(<<>>, h)
        BY DEF Place
      <3>2. QED
        BY <2>1, <3>1, ChainFacts DEF ChainState, Holds
    <2>6. c # <<>> => dbMeta.blockHash # NoHash
      <3> SUFFICES ASSUME c # <<>> PROVE dbMeta.blockHash # NoHash
        OBVIOUS
      <3>1. c \in Seq(Blocks) /\ dbMeta.blockHash = c[Len(c)]
        BY <2>1 DEF ChainState, Linked, Holds
      <3>2. c[Len(c)] \in Blocks
        BY <3>1
      <3>3. QED
        BY <3>1, <3>2, Markers
    <2>7. L!Store(prevBi)
      BY <2>2, <2>3, <2>4, <2>5, <2>6 DEF L!Store
    <2>8. QED
      BY <2>3, <2>7 DEF L!Next
  <1>2. CASE ~SaveBlock
    <2>1. UNCHANGED <<dbHeaders, dbMeta>>
      BY <1>2 DEF Next, SyncStep, WorkerStep, CacheThread, SaverThread, Load, Walk, LoadDone,
         LoadThrows, StartWorkers, RetryFromFile, RetryFromNetwork, RetryThrows, RetryDone, Push,
         Fed, Poll, PollThrows, Fetch, FetchEnds, FetchThrows, AppendDump, AppendCut,
         SaveTransactions, AddNew, AddKnown, AddDone, AddThrows, Remove, SaveThrows, Pop, Finish,
         CacheBlock, WorkerSkips, WorkerRejects, WorkerSaves, WorkerThrows, Crash, CrashInAppend,
         Restart, Reset, vars, diskVars
    <2>2. QED
      BY <2>1 DEF L!ledgerVars
  <1>3. QED
    BY <1>1, <1>2

(* When no batch of saveBlockToLeveldb fails, the node implements the       *)
(* ledger, whatever the servers answer and whatever else fails: the stored  *)
(* chain only grows, at its end, across crashes as well.                    *)
THEOREM LedgerImplemented ==
    ASSUME Budget["save"] = 0
    PROVE  Spec => LedgerSpec
  <1>1. Init => L!Init
    BY DEF Init, InitDisk, L!Init, Genesis
  <1>2. IndInv /\ LedgerInv => NoBatchLost
    BY SyncAssumption DEF IndInv, TypeOK, LedgerInv, NoBatchLost, FaultKinds
  <1>3. IndInv /\ LedgerInv /\ [Next]_vars => [L!Next]_(L!ledgerVars)
    BY <1>2, LedgerStep
  <1>4. QED
    BY <1>1, <1>3, LedgerInductive, PTL DEF Spec, LedgerSpec, L!Spec

-----------------------------------------------------------------------------
(* The confirmation by the next block *)

(* With validate, another block has been fetched after the one in hand and  *)
(* none of its sign transactions carries another hash, until the block in   *)
(* hand is saved, whatever the servers answer and whatever fails.  A next   *)
(* block without sign transactions will do, and parents are not compared.   *)
THEOREM ConfirmedRight == Spec => []InHandConfirmed
  <1> DEFINE Hand == InHand \cup {"remove", "feed", "save"}
  <1>1. Init => InHandConfirmed
    BY DEF Init, InitThreads, InHandConfirmed, InHand
  <1>2. IndInv /\ InHandConfirmed /\ [Next]_vars => InHandConfirmed'
    <2> SUFFICES ASSUME IndInv, InHandConfirmed, [Next]_vars, Validate, pc' \in Hand
                 PROVE  nextBi' # NoBlock /\ signs[nextBi'] \subseteq {prevBi'}
      BY DEF InHandConfirmed
    <2>1. CASE \E b \in Blocks : Fetch(b)
      <3>1. PICK b \in Blocks : Fetch(b)
        BY <2>1
      <3>2. Confirmed(b) /\ nextBi' = b /\ prevBi' = prevBi
        BY <3>1 DEF Fetch, Again, Goto, InHand
      <3>3. b # NoBlock
        BY Markers DEF NoBlock, Genesis
      <3>4. QED
        BY <3>2, <3>3 DEF Confirmed
    <2>2. CASE ~\E b \in Blocks : Fetch(b)
      <3>1. pc \in Hand /\ prevBi' = prevBi /\ nextBi' = nextBi
        BY <2>2 DEF InHand, Again, Goto, Next, SyncStep, WorkerStep, CacheThread, SaverThread, Load,
           Walk, LoadDone, LoadThrows, StartWorkers, RetryFromFile, RetryFromNetwork, RetryThrows,
           RetryDone, Offer, Push, Fed, Poll, PollThrows, FetchEnds, FetchThrows, AppendDump,
           AppendCut, SaveTransactions, AddNew, AddKnown, AddDone, AddThrows, Remove, SaveBlock,
           SaveThrows, Pop, Finish, CacheBlock, WorkerSkips, WorkerRejects, WorkerSaves,
           WorkerThrows, Crash, CrashInAppend, Restart, Reset, vars, biVars
      <3>2. QED
        BY <3>1 DEF InHandConfirmed
    <2>3. QED
      BY <2>1, <2>2
  <1>3. QED
    BY <1>1, <1>2, Inductive, PTL DEF Spec
=============================================================================
