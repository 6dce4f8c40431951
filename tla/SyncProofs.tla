----------------------------- MODULE SyncProofs -----------------------------
(***************************************************************************)
(* Proofs about Sync, for any set of blocks, any answers of the servers,   *)
(* any options and any number of faults of each kind.                      *)
(***************************************************************************)
EXTENDS Sync, TLAPS, SequenceTheorems

OnChain(h) == \E i \in 1..Len(hashes) : hashes[i] = h

(* What the loop of calcBlockchain maintains: the headers it has walked     *)
(* carry their distance from the last hash and are not on the chain.        *)
WalkedInv ==
    \A i \in 1..Len(processedBlocks) :
        /\ processedBlocks[i] \in blocks
        /\ blockNumber[processedBlocks[i]] = i - 1
        /\ ~OnChain(processedBlocks[i])

ChainInv ==
    /\ BlockChainTypeOK
    /\ Genesis \in blocks
    /\ Len(hashes) >= 1
    /\ hashes[1] = Genesis
    /\ WalkedInv
    /\ ChainNumbered

(* What holds at which point of synchronize. *)
PhaseInv ==
    /\ pc \in InHand \cup {"remove", "feed", "save"} =>
          prevBi \in Blocks /\ (Validate => nextBi \in Blocks)
    /\ pc \in {"feed", "retryFeed"} => item \in Items
    /\ pc \in {"retry", "retryFeed"} => retryNum >= 1
    /\ pc \in {"addCalc", "remove"} => prevBi \in blocks /\ ~OnChain(prevBi)
    /\ pc \notin {"loadCalc", "addCalc"} => processedBlocks = <<>>
    /\ pc \in {"loadCalc", "addCalc"} => bh \in blocks

IndInv == TypeOK /\ ChainInv /\ PhaseInv

-----------------------------------------------------------------------------
(* The genesis hash is none of the blocks and no marker is a hash. *)
LEMMA Markers ==
    /\ Genesis \notin Blocks
    /\ Genesis \in Hashes
    /\ Blocks \subseteq Hashes
    /\ NoHash \notin Hashes
    /\ NoNumber \notin Nat
    /\ Hashes \subseteq Nat
  BY BlocksAssumption DEF Genesis, Hashes, NoHash, NoNumber

(* The chain as it is after initialize. *)
LEMMA InitChain == InitBlockChain => ChainInv
  <1> SUFFICES ASSUME InitBlockChain PROVE ChainInv
    OBVIOUS
  <1>1. BlockChainTypeOK
    BY Markers DEF InitBlockChain, BlockChainTypeOK, NoNumber
  <1>2. WalkedInv
    BY DEF InitBlockChain, WalkedInv
  <1>3. ChainNumbered
    BY Markers DEF InitBlockChain, ChainNumbered
  <1>4. QED
    BY <1>1, <1>2, <1>3 DEF ChainInv, InitBlockChain

(* Loading headers leaves only the genesis block on the chain. *)
LEMMA LoadChain ==
    ASSUME NEW headers \in SUBSET Blocks, NEW p \in [Hashes -> Nat],
           LoadHeaders(headers, p), bh' \in Hashes, processedBlocks' = <<>>
    PROVE  ChainInv' /\ headers \subseteq blocks'
  <1>1. BlockChainTypeOK'
    BY Markers DEF LoadHeaders, BlockChainTypeOK, NoNumber
  <1>2. WalkedInv'
    BY DEF WalkedInv
  <1>3. ChainNumbered'
    BY Markers DEF LoadHeaders, ChainNumbered
  <1>4. QED
    BY <1>1, <1>2, <1>3 DEF ChainInv, LoadHeaders

(* A new block enters the map and not the chain. *)
LEMMA AddChain ==
    ASSUME ChainInv, processedBlocks = <<>>, NEW b \in Blocks, NEW p \in Nat,
           AddWithoutCalc(b, p), CalcBegin(b)
    PROVE  ChainInv' /\ bh' \in blocks' /\ b \in blocks' /\ ~OnChain(b)'
  <1>1. BlockChainTypeOK'
    BY Markers DEF ChainInv, AddWithoutCalc, CalcBegin, BlockChainTypeOK
  <1>2. WalkedInv'
    BY DEF WalkedInv, CalcBegin
  <1>3. ~OnChain(b)
    BY DEF ChainInv, ChainNumbered, OnChain, AddWithoutCalc
  <1>4. ChainNumbered'
    BY <1>3 DEF ChainInv, ChainNumbered, OnChain, AddWithoutCalc, BlockChainTypeOK
  <1>5. QED
    BY <1>1, <1>2, <1>3, <1>4 DEF ChainInv, AddWithoutCalc, CalcBegin, OnChain

(* A block that is not on the chain leaves the map. *)
LEMMA RemoveChain ==
    ASSUME ChainInv, processedBlocks = <<>>, NEW b \in Blocks, ~OnChain(b),
           RemoveBlock(b)
    PROVE  ChainInv'
  <1>1. BlockChainTypeOK'
    BY DEF ChainInv, RemoveBlock, BlockChainTypeOK
  <1>2. WalkedInv'
    BY DEF WalkedInv, RemoveBlock
  <1>3. ChainNumbered'
    BY DEF ChainInv, ChainNumbered, OnChain, RemoveBlock, BlockChainTypeOK
  <1>4. QED
    BY <1>1, <1>2, <1>3, Markers DEF ChainInv, RemoveBlock

(* One turn of the loop of calcBlockchain. *)
LEMMA WalkChain ==
    ASSUME ChainInv, bh \in blocks, CalcWalk
    PROVE  ChainInv' /\ bh' \in blocks' /\ blocks' = blocks /\ hashes' = hashes
  <1>1. bh \in Hashes /\ Len(processedBlocks) \in Nat
    BY DEF ChainInv, BlockChainTypeOK
  <1>2. BlockChainTypeOK'
    BY <1>1 DEF ChainInv, CalcWalk, BlockChainTypeOK
  <1>3. ~OnChain(bh)
    BY <1>1, Markers DEF ChainInv, ChainNumbered, OnChain, CalcWalk, BlockChainTypeOK, NoNumber
  <1>4. WalkedInv'
    <2> SUFFICES ASSUME NEW i \in 1..Len(processedBlocks')
                 PROVE  /\ processedBlocks'[i] \in blocks
                        /\ blockNumber'[processedBlocks'[i]] = i - 1
                        /\ ~OnChain(processedBlocks'[i])
      BY DEF WalkedInv, OnChain, CalcWalk
    <2>1. CASE i = Len(processedBlocks) + 1
      BY <2>1, <1>1, <1>3 DEF CalcWalk, ChainInv, BlockChainTypeOK
    <2>2. CASE i \in 1..Len(processedBlocks)
      <3>1. processedBlocks'[i] = processedBlocks[i]
        BY <2>2 DEF CalcWalk, ChainInv, BlockChainTypeOK
      <3>2. blockNumber[processedBlocks[i]] = i - 1 /\ processedBlocks[i] \in Hashes
        BY <2>2 DEF ChainInv, WalkedInv, BlockChainTypeOK
      <3>3. processedBlocks[i] # bh
        BY <3>2, <2>2 DEF CalcWalk, NoNumber
      <3>4. QED
        BY <2>2, <3>1, <3>2, <3>3 DEF ChainInv, WalkedInv, CalcWalk, BlockChainTypeOK
    <2>3. QED
      BY <2>1, <2>2, <1>1 DEF CalcWalk, ChainInv, BlockChainTypeOK
  <1>5. ChainNumbered'
    BY <1>3 DEF ChainInv, ChainNumbered, OnChain, CalcWalk, BlockChainTypeOK
  <1>6. QED
    BY <1>2, <1>4, <1>5 DEF ChainInv, CalcWalk

(* AllNum is a block number as soon as the loop has ended; every walked     *)
(* header is given a positive number.                                       *)
LEMMA AllNumType ==
    ASSUME ChainInv, blockNumber[bh] # NoNumber
    PROVE  /\ AllNum \in Nat
           /\ \A i \in 1..Len(processedBlocks) :
                 AllNum - blockNumber[processedBlocks[i]] \in Nat
  <1>1. blockNumber[bh] \in Nat /\ Len(processedBlocks) \in Nat
    BY DEF ChainInv, BlockChainTypeOK
  <1>2. AllNum \in Nat /\ AllNum >= Len(processedBlocks)
    BY <1>1 DEF AllNum
  <1>3. \A i \in 1..Len(processedBlocks) : blockNumber[processedBlocks[i]] = i - 1
    BY DEF ChainInv, WalkedInv
  <1>4. QED
    BY <1>1, <1>2, <1>3

(* The end of calcBlockchain: the walked headers, last one first, go on the *)
(* chain, each under the number that its place has.                         *)
LEMMA ReturnChain ==
    ASSUME ChainInv, CalcReturn
    PROVE  /\ ChainInv'
           /\ processedBlocks' = <<>>
           /\ AllNum \in Nat
           /\ Len(hashes') = Len(hashes) + Len(processedBlocks)
           /\ Len(hashes') >= Len(hashes)
           /\ \A i \in 1..Len(hashes) : hashes'[i] = hashes[i]
           /\ \A i \in 1..Len(processedBlocks) :
                 hashes'[Len(hashes) + i] = processedBlocks[Len(processedBlocks) + 1 - i]
  <1> DEFINE n == Len(hashes)
             k == Len(processedBlocks)
  <1>1. n \in Nat /\ k \in Nat /\ n >= 1
    BY DEF ChainInv, BlockChainTypeOK
  <1>2. AllNum \in Nat /\ \A i \in 1..k : AllNum - blockNumber[processedBlocks[i]] \in Nat
    BY AllNumType DEF CalcReturn
  <1>3. \A i \in 1..k : /\ processedBlocks[i] \in Hashes
                        /\ blockNumber[processedBlocks[i]] = i - 1
                        /\ processedBlocks[i] \in blocks
                        /\ ~OnChain(processedBlocks[i])
    BY DEF ChainInv, WalkedInv, BlockChainTypeOK
  <1>4. blockNumber' \in [Hashes -> Nat \cup {NoNumber}]
    BY <1>2 DEF CalcReturn, Walked, ChainInv, BlockChainTypeOK
  <1>5. ReverseSeq(processedBlocks) \in Seq(Hashes)
        /\ Len(ReverseSeq(processedBlocks)) = k
    BY <1>1, <1>3 DEF ReverseSeq
  <1>6. /\ hashes' \in Seq(Hashes)
        /\ Len(hashes') = n + k
        /\ \A i \in 1..n : hashes'[i] = hashes[i]
        /\ \A i \in 1..k : hashes'[n + i] = processedBlocks[k + 1 - i]
    <2> DEFINE r == ReverseSeq(processedBlocks)
    <2>1. \A i \in 1..k : r[i] = processedBlocks[k + 1 - i]
      BY <1>1 DEF ReverseSeq
    <2>2. hashes \in Seq(Hashes) /\ hashes' = hashes \o r
      BY DEF CalcReturn, ChainInv, BlockChainTypeOK
    <2>3. r \in Seq(Hashes) /\ Len(r) = k
      BY <1>5
    <2> HIDE DEF r
    <2>4. /\ hashes \o r \in Seq(Hashes)
          /\ Len(hashes \o r) = Len(hashes) + Len(r)
          /\ \A i \in 1..(Len(hashes) + Len(r)) :
                (hashes \o r)[i] = IF i <= Len(hashes) THEN hashes[i] ELSE r[i - Len(hashes)]
      BY <2>2, <2>3, ConcatProperties
    <2>5. \A i \in 1..k : hashes'[n + i] = r[i]
      <3> TAKE i \in 1..k
      <3>1. n + i \in 1..(Len(hashes) + Len(r)) /\ ~(n + i <= Len(hashes)) /\ (n + i) - Len(hashes) = i
        BY <1>1, <2>3
      <3>2. QED
        BY <3>1, <2>2, <2>4
    <2>6. QED
      BY <1>1, <2>1, <2>2, <2>3, <2>4, <2>5
  <1>7. BlockChainTypeOK'
    BY <1>4, <1>6, Markers DEF CalcReturn, CalcEnd, ChainInv, BlockChainTypeOK
  <1>8. WalkedInv'
    BY DEF WalkedInv, CalcReturn, CalcEnd
  <1>9. ChainNumbered'
    <2> SUFFICES ASSUME NEW i \in 1..(n + k)
                 PROVE  hashes'[i] \in blocks /\ blockNumber'[hashes'[i]] = i - 1
      BY <1>6 DEF ChainNumbered, CalcReturn
    <2>1. CASE i \in 1..n
      <3>1. ~Walked(hashes[i])
        BY <2>1, <1>3 DEF Walked, OnChain
      <3>2. hashes[i] \in Hashes
        BY <2>1 DEF ChainInv, BlockChainTypeOK
      <3>3. QED
        BY <2>1, <1>6, <3>1, <3>2 DEF CalcReturn, ChainInv, ChainNumbered
    <2>2. CASE i \in (n + 1)..(n + k)
      <3> DEFINE j == k + 1 - (i - n)
      <3>1. j \in 1..k /\ i - n \in 1..k /\ i = n + (i - n) /\ k # 0
        BY <2>2, <1>1
      <3>2. hashes'[i] = processedBlocks[j]
        BY <3>1, <1>6
      <3>3. blockNumber'[processedBlocks[j]] = AllNum - (j - 1)
        BY <3>1, <1>3 DEF CalcReturn, Walked
      <3>4. processedBlocks # <<>> /\ blockNumber[FirstWalked] = k - 1
        BY <3>1, <1>1, <1>3 DEF FirstWalked
      <3>5. AllNum - (k - 1) = n
        BY <3>4 DEF CalcReturn, NumberFits
      <3>6. QED
        BY <3>1, <3>2, <3>3, <3>5, <1>1, <1>2, <1>3
    <2>3. QED
      BY <2>1, <2>2, <1>1
  <1>10. QED
    BY <1>1, <1>2, <1>6, <1>7, <1>8, <1>9 DEF ChainInv, CalcReturn, CalcEnd

(* calcBlockchain throws: the chain is as it was. *)
LEMMA ThrowChain ==
    ASSUME ChainInv, CalcThrow
    PROVE  ChainInv' /\ processedBlocks' = <<>> /\ blocks' = blocks /\ hashes' = hashes
  <1> DEFINE k == Len(processedBlocks)
  <1>1. k \in Nat /\ k # 0
    BY DEF ChainInv, BlockChainTypeOK, CalcThrow, NumberFits
  <1>2. FirstWalked \in Hashes /\ ~OnChain(FirstWalked)
    BY <1>1 DEF FirstWalked, ChainInv, WalkedInv, BlockChainTypeOK
  <1>3. AllNum - blockNumber[FirstWalked] \in Nat
    BY <1>1, AllNumType DEF FirstWalked, CalcThrow
  <1>4. BlockChainTypeOK'
    BY <1>2, <1>3, Markers DEF CalcThrow, CalcEnd, ChainInv, BlockChainTypeOK
  <1>5. WalkedInv'
    BY DEF WalkedInv, CalcThrow, CalcEnd
  <1>6. ChainNumbered'
    BY <1>2 DEF ChainNumbered, OnChain, CalcThrow, ChainInv, BlockChainTypeOK
  <1>7. QED
    BY <1>4, <1>5, <1>6 DEF ChainInv, CalcThrow, CalcEnd

(* Steps that leave the chain alone. *)
LEMMA SameChain ==
    ASSUME ChainInv, UNCHANGED chainVars
    PROVE  ChainInv' /\ (\A h : OnChain(h)' <=> OnChain(h))
  BY DEF ChainInv, chainVars, BlockChainTypeOK, WalkedInv, ChainNumbered, OnChain

-----------------------------------------------------------------------------
(* The inductive invariant *)

(* A step that leaves the chain alone keeps what PhaseInv says about it. *)
LEMMA ChainKept ==
    ASSUME IndInv, UNCHANGED chainVars
    PROVE  ChainInv' /\ BlockChainTypeOK' /\ (OnChain(prevBi) <=> \E i \in 1..Len(hashes') : hashes'[i] = prevBi)
  BY SameChain DEF IndInv, ChainInv, chainVars, OnChain

(* The initial states satisfy the inductive invariant. *)
LEMMA InitInd == Init => IndInv
  <1> SUFFICES ASSUME Init PROVE IndInv
    OBVIOUS
  <1>1. ChainInv
    BY InitChain DEF Init, InitDisk, InitThreads
  <1>2. TypeOK
    BY <1>1, SyncAssumption, Markers
    DEF Init, InitDisk, InitThreads, TypeOK, ChainInv, MetaType, SavedType, Pcs, Savers, Workers, QueueSize
  <1>3. PhaseInv
    BY DEF Init, InitDisk, InitThreads, PhaseInv, InHand, InitBlockChain
  <1>4. QED
    BY <1>1, <1>2, <1>3 DEF IndInv

(* Loading the stored headers and calculating the chain keeps it. *)
LEMMA StartPhase ==
    ASSUME IndInv, Load \/ Walk \/ LoadDone \/ LoadThrows \/ StartWorkers
    PROVE  IndInv'
  <1>1. CASE Load
    <2>0. dbMeta.blockHash # NoHash => dbMeta.blockHash \in Hashes
      BY DEF IndInv, TypeOK, MetaType
    <2>1. bh' \in Hashes /\ processedBlocks' = <<>>
      BY <1>1, <2>0, Markers DEF Load, CalcBegin, CalcEnd
    <2>2. ChainInv'
      BY <1>1, <2>1, LoadChain DEF Load, IndInv, TypeOK
    <2>3. TypeOK'
      BY <1>1, <2>2 DEF IndInv, TypeOK, ChainInv, Load, Goto, Pcs,
         diskVars, sourceVars, biVars, feedVars, workerVars
    <2>4. PhaseInv'
      BY <1>1, <2>1 DEF PhaseInv, InHand, Load, Goto, CalcBegin, CalcEnd
    <2>5. QED
      BY <2>2, <2>3, <2>4 DEF IndInv
  <1>2. CASE Walk
    <2>1. bh \in blocks
      BY <1>2 DEF IndInv, PhaseInv, Walk
    <2>2. ChainInv' /\ bh' \in blocks' /\ blocks' = blocks /\ hashes' = hashes
      BY <1>2, <2>1, WalkChain DEF IndInv, Walk
    <2>3. TypeOK'
      BY <1>2, <2>2 DEF IndInv, TypeOK, ChainInv, Walk,
         diskVars, sourceVars, biVars, feedVars, workerVars
    <2>4. PhaseInv'
      BY <1>2, <2>2 DEF IndInv, PhaseInv, InHand, OnChain, Walk, biVars, feedVars
    <2>5. QED
      BY <2>2, <2>3, <2>4 DEF IndInv
  <1>3. CASE LoadDone
    <2>1. ChainInv' /\ processedBlocks' = <<>>
      BY <1>3, ReturnChain DEF IndInv, LoadDone
    <2>2. TypeOK'
      BY <1>3, <2>1 DEF IndInv, TypeOK, ChainInv, LoadDone, Goto, Pcs,
         diskVars, sourceVars, biVars, feedVars, workerVars
    <2>3. PhaseInv'
      BY <1>3, <2>1 DEF PhaseInv, InHand, LoadDone, Goto
    <2>4. QED
      BY <2>1, <2>2, <2>3 DEF IndInv
  <1>4. CASE LoadThrows
    <2>1. ChainInv' /\ processedBlocks' = <<>>
      BY <1>4, ThrowChain DEF IndInv, LoadThrows
    <2>2. TypeOK'
      BY <1>4, <2>1 DEF IndInv, TypeOK, ChainInv, LoadThrows, Goto, Pcs,
         diskVars, sourceVars, biVars, feedVars, workerVars
    <2>3. PhaseInv'
      BY <1>4, <2>1 DEF PhaseInv, InHand, LoadThrows, Goto
    <2>4. QED
      BY <2>1, <2>2, <2>3 DEF IndInv
  <1>5. CASE StartWorkers
    <2>1. ChainInv' /\ BlockChainTypeOK'
      BY <1>5, ChainKept DEF StartWorkers
    <2>2. \A w \in Savers : saved[w].number \in Nat
      BY DEF IndInv, TypeOK, SavedType
    <2>3. MinSaved(saved) \in Nat
      BY <2>2 DEF MinSaved, Savers
    <2>4. TypeOK'
      BY <1>5, <2>1, <2>2, <2>3 DEF IndInv, TypeOK, StartWorkers, Goto, Pcs,
         diskVars, sourceVars, biVars, workerVars
    <2>5. PhaseInv'
      BY <1>5, <2>3 DEF IndInv, PhaseInv, InHand, StartWorkers, Goto, chainVars
    <2>6. QED
      BY <2>1, <2>4, <2>5 DEF IndInv
  <1>6. QED
    BY <1>1, <1>2, <1>3, <1>4, <1>5

(* Reading a known block again for the workers keeps it. *)
LEMMA RetryPhase ==
    ASSUME IndInv, RetryFromFile \/ RetryFromNetwork \/ RetryThrows \/ RetryDone
    PROVE  IndInv'
  <1>1. ChainInv' /\ BlockChainTypeOK'
    BY ChainKept DEF RetryFromFile, RetryFromNetwork, RetryThrows, RetryDone
  <1>2. retryNum \in Nat /\ retryNum >= 1
    BY DEF IndInv, TypeOK, PhaseInv, RetryFromFile, RetryFromNetwork, RetryThrows, RetryDone
  <1>3. ASSUME NEW b \in Blocks, Offer(b, retryNum)
        PROVE  item' \in Items /\ feedTo' \in Seq(Workers)
    <2>1. item' \in Items
      BY <1>2, <1>3 DEF Offer, Items
    <2> DEFINE m == IF lastSaved["main"] < retryNum THEN <<"main">> ELSE <<>>
               t == IF NodeTestOn /\ lastSaved["nodeTest"] < retryNum
                    THEN <<"nodeTest">> ELSE <<>>
    <2>2. "main" \in Workers /\ "nodeTest" \in Workers
      BY DEF Workers
    <2>3. /\ <<>> \in Seq(Workers)
          /\ <<"main">> \in Seq(Workers)
          /\ <<"nodeTest">> \in Seq(Workers)
      BY <2>2
    <2>4. m \in Seq(Workers)
      BY <2>3
    <2>5. t \in Seq(Workers)
      BY <2>3
    <2>6. Behind(retryNum) = m \o t
      BY DEF Behind
    <2> HIDE DEF m, t
    <2>7. m \o t \in Seq(Workers)
      BY <2>4, <2>5, ConcatProperties
    <2>8. QED
      BY <1>3, <2>1, <2>6, <2>7 DEF Offer
  <1>4. CASE RetryFromFile
    <2> DEFINE d == file[filePos[hashes[retryNum + 1]]]
    <2>1. d \in Blocks
      BY <1>4 DEF IndInv, TypeOK, RetryFromFile, Readable
    <2>a. Offer(d, retryNum)
      BY <1>4 DEF RetryFromFile
    <2>b. /\ pc = "retry"
          /\ UNCHANGED <<chainVars, diskVars, sourceVars, biVars, retryNum,
                         workerVars, saved, lastSaved, budget>>
      BY <1>4 DEF RetryFromFile
    <2> HIDE DEF d
    <2>2. TypeOK'
      BY <1>1, <1>3, <2>1, <2>a, <2>b DEF IndInv, TypeOK, Offer, Goto, Pcs,
         diskVars, sourceVars, biVars, workerVars
    <2>3. PhaseInv'
      BY <1>2, <1>3, <2>1, <2>a, <2>b DEF IndInv, PhaseInv, InHand, Offer, Goto, chainVars
    <2>4. QED
      BY <1>1, <2>2, <2>3 DEF IndInv
  <1>5. CASE RetryFromNetwork
    <2>1. PICK b \in Answers[retryNum] : Offer(b, retryNum)
      BY <1>5 DEF RetryFromNetwork
    <2>2. b \in Blocks
      BY <1>2, <1>5, <2>1, SyncAssumption DEF RetryFromNetwork
    <2>3. TypeOK'
      BY <1>1, <1>3, <1>5, <2>1, <2>2 DEF IndInv, TypeOK, RetryFromNetwork, Offer, Goto, Pcs,
         diskVars, sourceVars, biVars, workerVars
    <2>4. PhaseInv'
      BY <1>2, <1>3, <1>5, <2>1, <2>2 DEF IndInv, PhaseInv, InHand, RetryFromNetwork, Offer, Goto, chainVars
    <2>5. QED
      BY <1>1, <2>3, <2>4 DEF IndInv
  <1>6. CASE RetryThrows
    <2>1. TypeOK'
      BY <1>1, <1>6 DEF IndInv, TypeOK, RetryThrows, Spend, Goto, Pcs, FaultKinds,
         diskVars, sourceVars, biVars, feedVars, workerVars
    <2>2. PhaseInv'
      BY <1>6 DEF IndInv, PhaseInv, InHand, RetryThrows, Goto, chainVars
    <2>3. QED
      BY <1>1, <2>1, <2>2 DEF IndInv
  <1>7. CASE RetryDone
    <2>1. TypeOK'
      BY <1>1, <1>7 DEF IndInv, TypeOK, RetryDone, Goto, Pcs,
         diskVars, sourceVars, biVars, feedVars, workerVars
    <2>2. PhaseInv'
      BY <1>7 DEF IndInv, PhaseInv, InHand, RetryDone, Goto, chainVars
    <2>3. QED
      BY <1>1, <2>1, <2>2 DEF IndInv
  <1>8. QED
    BY <1>4, <1>5, <1>6, <1>7

(* Catching up the workers keeps it. *)
LEMMA FeedPhase ==
    ASSUME IndInv, Push \/ Fed
    PROVE  IndInv'
  <1>1. ChainInv' /\ BlockChainTypeOK'
    BY ChainKept DEF Push, Fed
  <1>2. item \in Items /\ feedTo \in Seq(Workers)
    BY DEF IndInv, TypeOK, PhaseInv, Push, Fed
  <1>3. CASE Push
    <2>1. Head(feedTo) \in Workers /\ Tail(feedTo) \in Seq(Workers)
      BY <1>2, <1>3 DEF Push
    <2>2. /\ queue' \in [Workers -> Seq(Items)]
          /\ \A w \in Workers : Len(queue'[w]) <= QueueSize[w]
      <3>1. CASE UNCHANGED queue
        BY <3>1 DEF IndInv, TypeOK
      <3>2. CASE /\ HasRoom(Head(feedTo))
                 /\ queue' = [queue EXCEPT ![Head(feedTo)] = Append(@, item)]
        <4>1. Len(Append(queue[Head(feedTo)], item)) <= QueueSize[Head(feedTo)]
          BY <3>2, <2>1, <1>2 DEF IndInv, TypeOK, HasRoom, QueueSize
        <4>2. QED
          BY <3>2, <4>1, <2>1, <1>2 DEF IndInv, TypeOK
      <3>3. QED
        BY <1>3, <3>1, <3>2 DEF Push
    <2>3. TypeOK'
      BY <1>1, <1>3, <2>1, <2>2 DEF IndInv, TypeOK, Push, diskVars, sourceVars, biVars
    <2>4. PhaseInv'
      BY <1>3 DEF IndInv, PhaseInv, InHand, Push, biVars, chainVars
    <2>5. QED
      BY <1>1, <2>3, <2>4 DEF IndInv
  <1>4. CASE Fed
    <2>1. TypeOK'
      BY <1>1, <1>4 DEF IndInv, TypeOK, Fed, Goto, Pcs,
         diskVars, sourceVars, biVars, workerVars
    <2>2. PhaseInv'
      BY <1>4 DEF IndInv, TypeOK, PhaseInv, InHand, Fed, Goto, biVars, chainVars
    <2>3. QED
      BY <1>1, <2>1, <2>2 DEF IndInv
  <1>5. QED
    BY <1>3, <1>4

(* Asking for the last block and fetching the next ones keeps it. *)
LEMMA FetchPhase ==
    ASSUME IndInv,
           \/ \E last \in 0..MaxBlock : Poll(last)
           \/ PollThrows
           \/ \E b \in Blocks : Fetch(b)
           \/ FetchEnds \/ FetchThrows
    PROVE  IndInv'
  <1>1. ChainInv' /\ BlockChainTypeOK'
    BY ChainKept DEF Poll, PollThrows, Fetch, FetchEnds, FetchThrows
  <1>2. CountBlocks + 1 \in Nat
    BY DEF IndInv, ChainInv, BlockChainTypeOK, CountBlocks
  <1>3. ASSUME NEW last \in 0..MaxBlock, Poll(last) PROVE IndInv'
    <2>1. TypeOK'
      BY <1>1, <1>2, <1>3, SyncAssumption DEF IndInv, TypeOK, Poll, Goto, Pcs,
         diskVars, biVars, feedVars, workerVars
    <2>2. PhaseInv'
      BY <1>3 DEF IndInv, PhaseInv, InHand, Poll, Goto, chainVars
    <2>3. QED
      BY <1>1, <2>1, <2>2 DEF IndInv
  <1>4. CASE PollThrows
    <2>1. TypeOK'
      BY <1>1, <1>2, <1>4 DEF IndInv, TypeOK, PollThrows, Spend, FaultKinds,
         diskVars, biVars, feedVars, workerVars
    <2>2. PhaseInv'
      BY <1>4 DEF IndInv, PhaseInv, InHand, PollThrows, chainVars
    <2>3. QED
      BY <1>1, <2>1, <2>2 DEF IndInv
  <1>5. ASSUME NEW b \in Blocks, Fetch(b) PROVE IndInv'
    <2>1. nextNum' \in Nat
      BY <1>5 DEF IndInv, TypeOK, Fetch
    <2>2. /\ pc' \in {"append", "fetch", "poll"}
          /\ prevBi' \in Blocks \cup {NoBlock} /\ nextBi' \in Blocks \cup {NoBlock}
          /\ pos' \in Nat
          /\ pc' = "append" => prevBi' \in Blocks /\ (Validate => nextBi' \in Blocks)
      BY <1>5 DEF IndInv, TypeOK, Fetch, Goto, Again
    <2>3. TypeOK'
      BY <1>1, <1>5, <2>1, <2>2 DEF IndInv, TypeOK, Fetch, Pcs,
         diskVars, feedVars, workerVars
    <2>4. PhaseInv'
      BY <1>5, <2>2 DEF IndInv, PhaseInv, InHand, Fetch, chainVars
    <2>5. QED
      BY <1>1, <2>3, <2>4 DEF IndInv
  <1>6. CASE FetchEnds
    <2>1. TypeOK'
      BY <1>1, <1>6 DEF IndInv, TypeOK, FetchEnds, Again, Goto, Pcs,
         diskVars, sourceVars, feedVars, workerVars
    <2>2. PhaseInv'
      BY <1>6 DEF IndInv, PhaseInv, InHand, FetchEnds, Again, Goto, chainVars
    <2>3. QED
      BY <1>1, <2>1, <2>2 DEF IndInv
  <1>7. CASE FetchThrows
    <2>1. TypeOK'
      BY <1>1, <1>7 DEF IndInv, TypeOK, FetchThrows, Again, Goto, Pcs, Spend, FaultKinds,
         diskVars, sourceVars, feedVars, workerVars
    <2>2. PhaseInv'
      BY <1>7 DEF IndInv, PhaseInv, InHand, FetchThrows, Again, Goto, chainVars
    <2>3. QED
      BY <1>1, <2>1, <2>2 DEF IndInv
  <1>8. QED
    BY <1>3, <1>4, <1>5, <1>6, <1>7

(* The block file stays a sequence of dumps. *)
LEMMA AppendType ==
    ASSUME NEW d \in Blocks \cup {Torn}, file \in Seq(Blocks \cup {Torn})
    PROVE  /\ Append(file, d) \in Seq(Blocks \cup {Torn})
           /\ Len(file) \in Nat
           /\ Len(Append(file, d)) = Len(file) + 1
           /\ Append(file, d)[Len(file) + 1] = d
           /\ \A i \in 1..Len(file) : Append(file, d)[i] = file[i]
  <1> DEFINE S == Blocks \cup {Torn}
  <1>1. d \in S /\ file \in Seq(S)
    OBVIOUS
  <1> HIDE DEF S
  <1>2. /\ Append(file, d) \in Seq(S)
        /\ Len(file) \in Nat
        /\ Len(Append(file, d)) = Len(file) + 1
        /\ Append(file, d)[Len(file) + 1] = d
        /\ \A i \in 1..Len(file) : Append(file, d)[i] = file[i]
    BY <1>1
  <1>3. QED
    BY <1>2 DEF S

(* Appending a dump to the block file keeps it. *)
LEMMA AppendPhase ==
    ASSUME IndInv, AppendDump \/ AppendCut
    PROVE  IndInv'
  <1>1. ChainInv' /\ BlockChainTypeOK'
    BY ChainKept DEF AppendDump, AppendCut, SaveTransactions
  <1>2. ASSUME NEW d \in Blocks \cup {Torn}, SaveTransactions(d),
               budget' \in [FaultKinds -> Nat]
        PROVE  IndInv'
    <2>1. file' \in Seq(Blocks \cup {Torn}) /\ pos' \in Nat
      <3>1. file \in Seq(Blocks \cup {Torn}) /\ Append(file, d) \in Seq(Blocks \cup {Torn})
            /\ Len(file) + 1 \in Nat
        BY <1>2, AppendType DEF IndInv, TypeOK
      <3>2. \/ file' = Append(file, d) /\ pos' = Len(file) + 1
            \/ file' = file /\ pos' = 0
        BY <1>2 DEF SaveTransactions, AppendPos
      <3>3. QED
        BY <3>1, <3>2
    <2>2. TypeOK'
      BY <1>1, <1>2, <2>1 DEF IndInv, TypeOK, SaveTransactions, Goto, Pcs,
         sourceVars, feedVars, workerVars
    <2>3. PhaseInv'
      BY <1>2 DEF IndInv, PhaseInv, InHand, SaveTransactions, Goto, chainVars
    <2>4. QED
      BY <1>1, <2>2, <2>3 DEF IndInv
  <1>3. CASE AppendDump
    BY <1>2, <1>3 DEF AppendDump, SaveTransactions, IndInv, TypeOK, PhaseInv, InHand
  <1>4. CASE AppendCut
    <2>1. budget' \in [FaultKinds -> Nat]
      BY <1>4 DEF AppendCut, Spend, FaultKinds, IndInv, TypeOK
    <2>2. QED
      BY <1>2, <1>4, <2>1 DEF AppendCut
  <1>5. QED
    BY <1>3, <1>4

(* addBlock, with every turn of calcBlockchain, keeps it. *)
LEMMA AddPhase ==
    ASSUME IndInv, AddNew \/ AddKnown \/ AddDone \/ AddThrows \/ Remove
    PROVE  IndInv'
  <1>1. CASE AddNew
    <2>1. prevBi \in Blocks /\ pos \in Nat /\ processedBlocks = <<>>
      BY <1>1 DEF AddNew, IndInv, TypeOK, PhaseInv, InHand
    <2>2. ChainInv' /\ bh' \in blocks' /\ prevBi \in blocks' /\ ~OnChain(prevBi)'
      BY <1>1, <2>1, AddChain DEF AddNew, IndInv, biVars
    <2>3. TypeOK'
      BY <1>1, <2>2 DEF IndInv, TypeOK, ChainInv, AddNew, Goto, Pcs,
         diskVars, sourceVars, biVars, feedVars, workerVars
    <2>4. PhaseInv'
      BY <1>1, <2>2 DEF IndInv, PhaseInv, InHand, OnChain, AddNew, Goto, biVars, feedVars
    <2>5. QED
      BY <2>2, <2>3, <2>4 DEF IndInv
  <1>2. CASE AddKnown
    <2>1. ChainInv' /\ BlockChainTypeOK'
      BY <1>2, ChainKept DEF AddKnown
    <2>2. TypeOK'
      BY <1>2, <2>1 DEF IndInv, TypeOK, AddKnown, Again, Goto, Pcs,
         diskVars, sourceVars, feedVars, workerVars
    <2>3. PhaseInv'
      BY <1>2 DEF IndInv, PhaseInv, InHand, AddKnown, Again, Goto, chainVars
    <2>4. QED
      BY <2>1, <2>2, <2>3 DEF IndInv
  <1>3. CASE AddDone
    <2>1. ChainInv' /\ processedBlocks' = <<>> /\ AllNum \in Nat
      BY <1>3, ReturnChain DEF AddDone, IndInv
    <2>2. prevBi \in Blocks /\ (Validate => nextBi \in Blocks) /\ workers \in Seq(Workers)
      <3>1. prevBi \in Blocks /\ (Validate => nextBi \in Blocks)
        BY <1>3 DEF AddDone, IndInv, PhaseInv, InHand
      <3>2. "cache" \in Workers /\ "main" \in Workers /\ "nodeTest" \in Workers
        BY DEF Workers
      <3>3. <<"cache", "main">> \in Seq(Workers) /\ <<"cache", "main", "nodeTest">> \in Seq(Workers)
        BY <3>2
      <3>4. QED
        BY <3>1, <3>3 DEF workers
    <2>3. CASE AllNum = 0
      <3>1. TypeOK'
        BY <1>3, <2>1, <2>3 DEF IndInv, TypeOK, ChainInv, AddDone, Again, Goto, Pcs,
           diskVars, sourceVars, workerVars
      <3>2. PhaseInv'
        BY <1>3, <2>1, <2>3 DEF PhaseInv, InHand, AddDone, Again, Goto
      <3>3. QED
        BY <2>1, <3>1, <3>2 DEF IndInv
    <2>4. CASE AllNum # 0
      <3>1. item' \in Items
        BY <1>3, <2>1, <2>2, <2>4 DEF AddDone, Items
      <3>2. TypeOK'
        BY <1>3, <2>1, <2>2, <2>4, <3>1 DEF IndInv, TypeOK, ChainInv, AddDone, Goto, Pcs,
           diskVars, sourceVars, biVars, workerVars
      <3>3. PhaseInv'
        BY <1>3, <2>1, <2>2, <2>4, <3>1 DEF PhaseInv, InHand, AddDone, Goto, biVars
      <3>4. QED
        BY <2>1, <3>2, <3>3 DEF IndInv
    <2>5. QED
      BY <2>3, <2>4
  <1>4. CASE AddThrows
    <2>1. ChainInv' /\ processedBlocks' = <<>> /\ blocks' = blocks /\ hashes' = hashes
      BY <1>4, ThrowChain DEF AddThrows, IndInv
    <2>2. TypeOK'
      BY <1>4, <2>1 DEF IndInv, TypeOK, ChainInv, AddThrows, Goto, Pcs,
         diskVars, sourceVars, biVars, feedVars, workerVars
    <2>3. PhaseInv'
      BY <1>4, <2>1 DEF IndInv, PhaseInv, InHand, OnChain, AddThrows, Goto, biVars, feedVars
    <2>4. QED
      BY <2>1, <2>2, <2>3 DEF IndInv
  <1>5. CASE Remove
    <2>1. prevBi \in Blocks /\ ~OnChain(prevBi) /\ processedBlocks = <<>>
      BY <1>5 DEF Remove, IndInv, PhaseInv, InHand
    <2>2. ChainInv' /\ processedBlocks' = <<>>
      BY <1>5, <2>1, RemoveChain DEF Remove, IndInv, RemoveBlock
    <2>3. TypeOK'
      BY <1>5, <2>2 DEF IndInv, TypeOK, ChainInv, Remove, Again, Goto, Pcs,
         diskVars, sourceVars, feedVars, workerVars
    <2>4. PhaseInv'
      BY <1>5, <2>2 DEF PhaseInv, InHand, Remove, Again, Goto
    <2>5. QED
      BY <2>2, <2>3, <2>4 DEF IndInv
  <1>6. QED
    BY <1>1, <1>2, <1>3, <1>4, <1>5

(* Offering the block to the workers and saving it keeps it. *)
LEMMA SavePhase ==
    ASSUME IndInv, SaveBlock \/ SaveThrows
    PROVE  IndInv'
  <1>1. ChainInv' /\ BlockChainTypeOK'
    BY ChainKept DEF SaveBlock, SaveThrows
  <1>2. prevBi \in Blocks /\ (Validate => nextBi \in Blocks)
    BY DEF IndInv, PhaseInv, InHand, SaveBlock, SaveThrows
  <1>3. CASE SaveBlock
    <2>1. NewMeta(prevBi) \in MetaType
      BY <1>2, BlocksAssumption, Markers DEF NewMeta, MetaType, IndInv, TypeOK
    <2>2. dbPos' \in [Hashes -> Nat]
      BY <1>3 DEF SaveBlock, IndInv, TypeOK
    <2>3. prevBi' \in Blocks /\ nextBi' = NoBlock /\ pos' = 0
      BY <1>2, <1>3 DEF SaveBlock
    <2>4. TypeOK'
      BY <1>1, <1>2, <1>3, <2>1, <2>2, <2>3 DEF IndInv, TypeOK, SaveBlock, Goto, Pcs,
         sourceVars, feedVars, workerVars
    <2>5. PhaseInv'
      BY <1>3, <2>3 DEF IndInv, PhaseInv, InHand, SaveBlock, Goto, chainVars
    <2>6. QED
      BY <1>1, <2>4, <2>5 DEF IndInv
  <1>4. CASE SaveThrows
    <2>1. TypeOK'
      BY <1>1, <1>4 DEF IndInv, TypeOK, SaveThrows, Again, Goto, Pcs, Spend, FaultKinds,
         diskVars, sourceVars, feedVars, workerVars
    <2>2. PhaseInv'
      BY <1>4 DEF IndInv, PhaseInv, InHand, SaveThrows, Again, Goto, chainVars
    <2>3. QED
      BY <1>1, <2>1, <2>2 DEF IndInv
  <1>5. QED
    BY <1>3, <1>4

(* Every step of a worker keeps it. *)
LEMMA WorkerPhase ==
    ASSUME IndInv, WorkerStep
    PROVE  IndInv'
  <1>1. ChainInv' /\ BlockChainTypeOK'
    BY ChainKept DEF WorkerStep, CacheThread, SaverThread, Pop, Finish, CacheBlock,
       WorkerSkips, WorkerRejects, WorkerSaves, WorkerThrows
  <1>2. PhaseInv'
    BY DEF IndInv, PhaseInv, InHand, OnChain, WorkerStep, CacheThread, SaverThread, Pop, Finish,
       CacheBlock, WorkerSkips, WorkerRejects, WorkerSaves, WorkerThrows,
       chainVars, biVars, feedVars
  <1>3. ASSUME NEW w \in Workers, Pop(w) PROVE TypeOK'
    <2>1. Head(queue[w]) \in Items /\ Tail(queue[w]) \in Seq(Items)
          /\ Len(Tail(queue[w])) <= Len(queue[w])
      BY <1>3 DEF Pop, IndInv, TypeOK
    <2>2. /\ queue' \in [Workers -> Seq(Items)]
          /\ busy' \in [Workers -> Items \cup {NoItem}]
          /\ \A v \in Workers : Len(queue'[v]) <= QueueSize[v]
      BY <1>3, <2>1 DEF Pop, IndInv, TypeOK, QueueSize
    <2>3. QED
      BY <1>1, <1>3, <2>2 DEF Pop, IndInv, TypeOK, diskVars, sourceVars, biVars, feedVars
  <1>4. ASSUME NEW w \in Workers, Finish(w)
        PROVE  busy[w] \in Items /\ busy' \in [Workers -> Items \cup {NoItem}]
    BY <1>4 DEF Finish, IndInv, TypeOK
  <1>5. ASSUME NEW w \in Workers, Finish(w), saved' \in [Savers -> SavedType],
               dumpCache' \subseteq Items, budget' \in [FaultKinds -> Nat]
        PROVE  TypeOK'
    BY <1>1, <1>4, <1>5 DEF Finish, IndInv, TypeOK, diskVars, sourceVars, biVars, feedVars
  <1>6. ASSUME CacheThread PROVE TypeOK'
    <2>1. CASE Pop("cache")
      BY <1>3, <2>1 DEF Workers
    <2>2. CASE CacheBlock
      <3>1. Finish("cache") /\ "cache" \in Workers
        BY <2>2 DEF CacheBlock, Workers
      <3>2. dumpCache' \subseteq Items
        BY <2>2, <3>1, <1>4 DEF CacheBlock, IndInv, TypeOK
      <3>3. QED
        BY <2>2, <3>1, <3>2, <1>5 DEF CacheBlock, IndInv, TypeOK
    <2>3. QED
      BY <1>6, <2>1, <2>2 DEF CacheThread
  <1>7. ASSUME NEW w \in Savers, SaverThread(w) PROVE TypeOK'
    <2>0. w \in Workers
      BY DEF Savers, Workers
    <2>1. CASE Pop(w)
      BY <1>3, <2>0, <2>1
    <2>2. CASE WorkerSkips(w) \/ WorkerRejects(w)
      BY <1>5, <2>0, <2>2 DEF WorkerSkips, WorkerRejects, IndInv, TypeOK
    <2>3. CASE WorkerSaves(w)
      <3>1. [number |-> busy[w].number, hash |-> busy[w].hash] \in SavedType
        BY <1>4, <2>0, <2>3, Markers DEF WorkerSaves, SavedType, Items
      <3>2. saved' \in [Savers -> SavedType]
        BY <2>3, <3>1 DEF WorkerSaves, IndInv, TypeOK
      <3>3. QED
        BY <1>5, <2>0, <2>3, <3>2 DEF WorkerSaves, IndInv, TypeOK
    <2>4. CASE WorkerThrows(w)
      <3>1. budget' \in [FaultKinds -> Nat]
        BY <2>4 DEF WorkerThrows, Spend, FaultKinds, IndInv, TypeOK
      <3>2. QED
        BY <1>5, <2>0, <2>4, <3>1 DEF WorkerThrows, IndInv, TypeOK
    <2>5. QED
      BY <1>7, <2>1, <2>2, <2>3, <2>4 DEF SaverThread
  <1>8. QED
    BY <1>1, <1>2, <1>6, <1>7 DEF IndInv, WorkerStep

(* The death of the process and its restart keep it. *)
LEMMA RestartPhase ==
    ASSUME IndInv, Crash \/ CrashInAppend
    PROVE  IndInv'
  <1>1. Restart
    BY DEF Crash, CrashInAppend
  <1>2. ChainInv'
    <2>1. InitBlockChain'
      BY <1>1 DEF Restart, Reset, InitBlockChain
    <2>2. QED
      BY <2>1, <1>1, Markers DEF Restart, Reset, ChainInv, BlockChainTypeOK, WalkedInv,
         ChainNumbered, NoNumber
  <1>3. file' \in Seq(Blocks \cup {Torn})
    BY AppendType DEF Crash, CrashInAppend, IndInv, TypeOK
  <1>4. budget' \in [FaultKinds -> Nat]
    BY <1>1 DEF Restart, Reset, Spend, FaultKinds, IndInv, TypeOK
  <1>5. TypeOK'
    BY <1>1, <1>2, <1>3, <1>4 DEF Restart, Reset, ChainInv, IndInv, TypeOK, Goto, Pcs, QueueSize
  <1>6. PhaseInv'
    BY <1>1 DEF Restart, Reset, PhaseInv, InHand, Goto
  <1>7. QED
    BY <1>2, <1>5, <1>6 DEF IndInv

(* A step that changes nothing keeps it. *)
LEMMA StutterPhase ==
    ASSUME IndInv, UNCHANGED vars
    PROVE  IndInv'
  <1>1. ChainInv' /\ BlockChainTypeOK'
    BY ChainKept DEF vars
  <1>2. TypeOK'
    BY <1>1 DEF vars, IndInv, TypeOK, diskVars, sourceVars, biVars, feedVars, workerVars
  <1>3. PhaseInv'
    BY DEF vars, IndInv, PhaseInv, InHand, OnChain, chainVars, biVars, feedVars
  <1>4. QED
    BY <1>1, <1>2, <1>3 DEF IndInv

(* Every step keeps the inductive invariant. *)
LEMMA StepInd ==
    ASSUME IndInv, [Next]_vars
    PROVE  IndInv'
  <1>1. CASE SyncStep
    BY <1>1, StartPhase, RetryPhase, FeedPhase, FetchPhase, AppendPhase,
       AddPhase, SavePhase DEF SyncStep
  <1>2. CASE WorkerStep
    BY <1>2, WorkerPhase
  <1>3. CASE Crash \/ CrashInAppend
    BY <1>3, RestartPhase
  <1>4. CASE UNCHANGED vars
    BY <1>4, StutterPhase
  <1>5. QED
    BY <1>1, <1>2, <1>3, <1>4 DEF Next

(* The inductive invariant holds in every reachable state. *)
THEOREM Inductive == Spec => []IndInv
  BY InitInd, StepInd, PTL DEF Spec

(* Every variable of the node keeps its type and the workers' queues stay   *)
(* within their bound, whatever the servers answer and whatever fails.      *)
THEOREM TypeCorrect == Spec => []TypeOK
  BY Inductive, PTL DEF IndInv

(* Whatever the servers answer and whatever fails, a header found under a   *)
(* number carries that number.                                              *)
THEOREM Numbered == Spec => []ChainNumbered
  BY Inductive, PTL DEF IndInv, ChainInv

-----------------------------------------------------------------------------
(* What clients have read stays *)

(* The part of ServedHeadersStable that the inductive invariant does not    *)
(* give by itself.                                                          *)
ChainPrefixKept ==
    /\ Len(hashes') >= Len(hashes)
    /\ \A i \in 1..Len(hashes) : /\ hashes'[i] = hashes[i]
                                  /\ filePos'[hashes[i]] = filePos[hashes[i]]

(* Every step but the loading and the restart keeps the chain as a prefix,  *)
(* and the file positions on it.                                            *)
LEMMA PrefixKept ==
    ASSUME IndInv, [Next]_vars, pc # "start", pc' # "start"
    PROVE  ChainPrefixKept
  <1>0. /\ ~Load /\ ~Crash /\ ~CrashInAppend
        /\ ChainInv /\ Len(hashes) \in Nat
    BY DEF Load, Crash, CrashInAppend, Restart, Reset, Goto, IndInv, ChainInv, BlockChainTypeOK
  <1>1. ASSUME UNCHANGED chainVars PROVE ChainPrefixKept
    BY <1>0, <1>1 DEF chainVars, ChainPrefixKept
  <1>2. CASE Walk
    BY <1>0, <1>2 DEF Walk, CalcWalk, ChainPrefixKept
  <1>3. CASE LoadDone \/ AddDone
    BY <1>0, <1>3, ReturnChain DEF LoadDone, AddDone, CalcReturn, ChainPrefixKept
  <1>4. CASE LoadThrows \/ AddThrows
    BY <1>0, <1>4 DEF LoadThrows, AddThrows, CalcThrow, ChainPrefixKept
  <1>5. CASE AddNew
    <2>1. \A i \in 1..Len(hashes) : hashes[i] # prevBi /\ hashes[i] \in Hashes
      BY <1>0, <1>5 DEF AddNew, AddWithoutCalc, ChainInv, ChainNumbered, BlockChainTypeOK
    <2>2. QED
      BY <1>0, <1>5, <2>1 DEF AddNew, AddWithoutCalc, ChainInv, BlockChainTypeOK, ChainPrefixKept
  <1>6. CASE Remove
    <2>1. \A i \in 1..Len(hashes) : hashes[i] # prevBi /\ hashes[i] \in Hashes
      BY <1>0, <1>6 DEF Remove, IndInv, PhaseInv, OnChain, ChainInv, BlockChainTypeOK
    <2>2. QED
      BY <1>0, <1>6, <2>1 DEF Remove, RemoveBlock, ChainInv, BlockChainTypeOK, ChainPrefixKept
  <1>7. CASE StartWorkers \/ RetryFromFile \/ RetryFromNetwork \/ RetryThrows \/ RetryDone
             \/ Push \/ Fed \/ (\E last \in 0..MaxBlock : Poll(last)) \/ PollThrows
             \/ (\E b \in Blocks : Fetch(b)) \/ FetchEnds \/ FetchThrows
    BY <1>1, <1>7 DEF StartWorkers, RetryFromFile, RetryFromNetwork, RetryThrows, RetryDone,
       Push, Fed, Poll, PollThrows, Fetch, FetchEnds, FetchThrows
  <1>8. CASE AppendDump \/ AppendCut \/ AddKnown \/ SaveBlock \/ SaveThrows
    BY <1>1, <1>8 DEF AppendDump, AppendCut, SaveTransactions, AddKnown, SaveBlock, SaveThrows
  <1>9. CASE WorkerStep
    BY <1>1, <1>9 DEF WorkerStep, CacheThread, SaverThread, Pop, Finish, CacheBlock,
       WorkerSkips, WorkerRejects, WorkerSaves, WorkerThrows
  <1>10. CASE UNCHANGED vars
    BY <1>1, <1>10 DEF vars
  <1>11. QED
    BY <1>0, <1>2, <1>3, <1>4, <1>5, <1>6, <1>7, <1>8, <1>9, <1>10 DEF Next, SyncStep

(* Whatever the servers answer and whatever fails, the header that a client *)
(* got for a number is the one it gets until the process ends.              *)
THEOREM HeadersStable == Spec => ServedHeadersStable
  <1> DEFINE Step == pc # "start" /\ pc' # "start" =>
                        \A i \in 1..Len(hashes) :
                            /\ i <= Len(hashes')
                            /\ hashes'[i] = hashes[i]
                            /\ hashes[i] \in blocks'
                            /\ blockNumber'[hashes[i]] = i - 1
                            /\ filePos'[hashes[i]] = filePos[hashes[i]]
  <1>1. IndInv /\ IndInv' /\ [Next]_vars => Step
    <2> SUFFICES ASSUME IndInv, IndInv', [Next]_vars, pc # "start", pc' # "start",
                        NEW i \in 1..Len(hashes)
                 PROVE  /\ i <= Len(hashes')
                        /\ hashes'[i] = hashes[i]
                        /\ hashes[i] \in blocks'
                        /\ blockNumber'[hashes[i]] = i - 1
                        /\ filePos'[hashes[i]] = filePos[hashes[i]]
      OBVIOUS
    <2>1. ChainPrefixKept
      BY PrefixKept
    <2>2. Len(hashes) \in Nat /\ Len(hashes') \in Nat
      <3>1. hashes \in Seq(Hashes) /\ hashes' \in Seq(Hashes')
        BY DEF IndInv, ChainInv, BlockChainTypeOK
      <3>2. QED
        BY <3>1
    <2>3. i \in 1..Len(hashes') /\ hashes'[i] = hashes[i] /\ filePos'[hashes[i]] = filePos[hashes[i]]
      BY <2>1, <2>2 DEF ChainPrefixKept
    <2>4. hashes'[i] \in blocks' /\ blockNumber'[hashes'[i]] = i - 1
      BY <2>3 DEF IndInv, ChainInv, ChainNumbered
    <2>5. QED
      BY <2>2, <2>3, <2>4
  <1>2. QED
    BY <1>1, Inductive, PTL DEF Spec, ServedHeadersStable

-----------------------------------------------------------------------------
(* The file positions *)

InFile == {"add", "addCalc", "remove", "feed", "save"}

(* DumpNeverWrong made inductive: from the append to the end of the save    *)
(* the block in hand knows where its dump lies.                             *)
DumpInv ==
    /\ budget["cut"] <= Budget["cut"]
    /\ DumpNeverWrong
    /\ SaveToFiles /\ pc \in InFile => DumpAt(prevBi, pos)

(* The block file only grows, and the writes that were cut short are never  *)
(* taken back: a dump stays where it is.                                    *)
LEMMA DumpKept ==
    ASSUME IndInv, [Next]_vars
    PROVE  /\ budget'["cut"] <= budget["cut"]
           /\ Len(file') \in Nat /\ Len(file) \in Nat /\ Len(file') >= Len(file)
           /\ \A i \in 1..Len(file) : file'[i] = file[i]
  <1>0. /\ file \in Seq(Blocks \cup {Torn}) /\ Len(file) \in Nat
        /\ \A k \in FaultKinds : budget[k] \in Nat
        /\ DOMAIN budget = FaultKinds
    BY DEF IndInv, TypeOK
  <1>1. \A k : Spend(k) => budget'["cut"] <= budget["cut"]
    BY <1>0 DEF Spend, FaultKinds
  <1>2. UNCHANGED budget \/ \E k : Spend(k)
    BY DEF Next, SyncStep, WorkerStep, CacheThread, SaverThread, Load, Walk, LoadDone, LoadThrows,
       StartWorkers, RetryFromFile, RetryFromNetwork, RetryThrows, RetryDone, Push, Fed, Poll,
       PollThrows, Fetch, FetchEnds, FetchThrows, AppendDump, AppendCut, AddNew, AddKnown,
       AddDone, AddThrows, Remove, SaveBlock, SaveThrows, Pop, CacheBlock, WorkerSkips,
       WorkerRejects, WorkerSaves, WorkerThrows, Crash, CrashInAppend, Restart, Reset, vars
  <1>3. UNCHANGED file \/ \E d \in Blocks \cup {Torn} : file' = Append(file, d)
    <2>1. CASE AppendDump \/ AppendCut \/ CrashInAppend
      BY <2>1 DEF AppendDump, AppendCut, SaveTransactions, CrashInAppend, IndInv, TypeOK,
         PhaseInv, InHand
    <2>2. CASE ~(AppendDump \/ AppendCut \/ CrashInAppend)
      BY <2>2 DEF Next, SyncStep, WorkerStep, CacheThread, SaverThread, Load, Walk, LoadDone,
         LoadThrows, StartWorkers, RetryFromFile, RetryFromNetwork, RetryThrows, RetryDone, Push,
         Fed, Poll, PollThrows, Fetch, FetchEnds, FetchThrows, AddNew, AddKnown,
         AddDone, AddThrows, Remove, SaveBlock, SaveThrows, Pop, Finish, CacheBlock, WorkerSkips,
         WorkerRejects, WorkerSaves, WorkerThrows, Crash, vars, diskVars
    <2>3. QED
      BY <2>1, <2>2
  <1>4. budget'["cut"] <= budget["cut"]
    BY <1>0, <1>1, <1>2 DEF FaultKinds
  <1>5. CASE UNCHANGED file
    BY <1>0, <1>4, <1>5
  <1>6. CASE \E d \in Blocks \cup {Torn} : file' = Append(file, d)
    <2>1. PICK d \in Blocks \cup {Torn} : file' = Append(file, d)
      BY <1>6
    <2>2. QED
      BY <1>0, <1>4, <2>1, AppendType
  <1>7. QED
    BY <1>3, <1>5, <1>6

(* What lay at a position before a step lies there after it. *)
LEMMA DumpAtKept ==
    ASSUME IndInv, [Next]_vars
    PROVE  \A h, p : DumpAt(h, p) => /\ p \in 1..Len(file')
                                     /\ \/ file'[p] = h
                                        \/ file'[p] = Torn /\ budget'["cut"] < Budget["cut"]
  <1> SUFFICES ASSUME NEW h, NEW p, DumpAt(h, p)
               PROVE  /\ p \in 1..Len(file')
                      /\ \/ file'[p] = h
                         \/ file'[p] = Torn /\ budget'["cut"] < Budget["cut"]
    OBVIOUS
  <1>1. p \in 1..Len(file) /\ p \in 1..Len(file') /\ file'[p] = file[p]
    BY DumpKept DEF DumpAt
  <1>2. ASSUME budget["cut"] < Budget["cut"] PROVE budget'["cut"] < Budget["cut"]
    <2>1. budget["cut"] \in Nat /\ Budget["cut"] \in Nat /\ budget'["cut"] \in Int
      <3>1. \A k \in FaultKinds : budget[k] \in Nat /\ Budget[k] \in Nat
        BY SyncAssumption DEF IndInv, TypeOK
      <3>2. IndInv'
        BY StepInd
      <3>3. budget' \in [FaultKinds -> Nat]
        BY <3>2 DEF IndInv, TypeOK
      <3>4. QED
        BY <3>1, <3>3 DEF FaultKinds
    <2>2. budget'["cut"] <= budget["cut"]
      BY DumpKept
    <2>3. QED
      BY <1>2, <2>1, <2>2
  <1>3. QED
    BY <1>1, <1>2 DEF DumpAt

(* The dump that saveTransactions has just written lies where it says. *)
LEMMA DumpWritten ==
    ASSUME IndInv, DumpInv, AppendDump \/ AppendCut, SaveToFiles
    PROVE  DumpAt(prevBi, pos)'
  <1>1. file \in Seq(Blocks \cup {Torn}) /\ prevBi \in Blocks \cup {Torn}
        /\ Torn \in Blocks \cup {Torn} /\ prevBi' = prevBi
    BY DEF IndInv, TypeOK, AppendDump, AppendCut, SaveTransactions, NoBlock, Torn
  <1>2. CASE AppendDump
    BY <1>1, <1>2, AppendType DEF AppendDump, SaveTransactions, AppendPos, DumpAt
  <1>3. CASE AppendCut
    <2>1. budget["cut"] \in Nat /\ Budget["cut"] \in Nat /\ budget'["cut"] = budget["cut"] - 1
      BY <1>3, SyncAssumption DEF AppendCut, Spend, FaultKinds, IndInv, TypeOK
    <2>2. budget'["cut"] < Budget["cut"]
      BY <2>1 DEF DumpInv
    <2>3. QED
      BY <1>1, <1>3, <2>2, AppendType DEF AppendCut, SaveTransactions, AppendPos, DumpAt
  <1>4. QED
    BY <1>2, <1>3

(* Only the append brings a new block to the points of InFile. *)
LEMMA HandKept ==
    ASSUME IndInv, [Next]_vars, pc' \in InFile, ~AppendDump, ~AppendCut
    PROVE  pc \in InFile /\ prevBi' = prevBi /\ pos' = pos
  BY DEF InFile, Again, Goto, Next, SyncStep, WorkerStep, CacheThread, SaverThread, Load, Walk,
     LoadDone, LoadThrows, StartWorkers, RetryFromFile, RetryFromNetwork, RetryThrows, RetryDone,
     Offer, Push, Fed, Poll, PollThrows, Fetch, FetchEnds, FetchThrows, AddNew, AddKnown,
     AddDone, AddThrows, Remove, SaveBlock, SaveThrows, Pop, Finish, CacheBlock, WorkerSkips,
     WorkerRejects, WorkerSaves, WorkerThrows, Crash, CrashInAppend, Restart, Reset, vars, biVars

(* A header in memory got its file position from the append or from the     *)
(* data base.                                                               *)
LEMMA MemoryPos ==
    ASSUME IndInv, [Next]_vars, NEW h \in blocks' \ {Genesis}
    PROVE  \/ h \in blocks \ {Genesis} /\ filePos'[h] = filePos[h]
           \/ h \in dbHeaders /\ filePos'[h] = dbPos[h]
           \/ pc \in InFile /\ h = prevBi /\ filePos'[h] = pos
  <1>0. /\ blocks \subseteq Hashes /\ filePos \in [Hashes -> Nat]
        /\ dbHeaders \subseteq Hashes /\ Genesis \in Hashes
    BY Markers DEF IndInv, TypeOK, BlockChainTypeOK
  <1>1. CASE Load
    BY <1>0, <1>1 DEF Load, LoadHeaders
  <1>2. CASE AddNew
    <2>1. prevBi \in Hashes
      BY <1>2, Markers DEF AddNew, IndInv, PhaseInv, InHand
    <2>2. QED
      BY <1>0, <1>2, <2>1 DEF AddNew, AddWithoutCalc, InFile
  <1>3. CASE Remove
    BY <1>0, <1>3 DEF Remove, RemoveBlock
  <1>4. CASE Crash \/ CrashInAppend
    BY <1>4 DEF Crash, CrashInAppend, Restart, Reset
  <1>5. CASE ~(Load \/ AddNew \/ Remove \/ Crash \/ CrashInAppend)
    <2>1. UNCHANGED <<blocks, filePos>>
      BY <1>5 DEF Next, SyncStep, WorkerStep, CacheThread, SaverThread, Walk, LoadDone, LoadThrows,
         StartWorkers, RetryFromFile, RetryFromNetwork, RetryThrows, RetryDone, Push, Fed, Poll,
         PollThrows, Fetch, FetchEnds, FetchThrows, AppendDump, AppendCut, SaveTransactions,
         AddKnown, AddDone, AddThrows, SaveBlock, SaveThrows, Pop, Finish, CacheBlock, WorkerSkips,
         WorkerRejects, WorkerSaves, WorkerThrows, vars, chainVars, CalcWalk, CalcReturn, CalcThrow
    <2>2. QED
      BY <2>1
  <1>6. QED
    BY <1>1, <1>2, <1>3, <1>4, <1>5

(* A header in the data base got its file position from the block in hand.  *)
LEMMA StoredPos ==
    ASSUME IndInv, [Next]_vars, NEW h \in dbHeaders'
    PROVE  \/ h \in dbHeaders /\ dbPos'[h] = dbPos[h]
           \/ pc \in InFile /\ h = prevBi /\ dbPos'[h] = pos
  <1>0. dbHeaders \subseteq Hashes /\ dbPos \in [Hashes -> Nat]
    BY Markers DEF IndInv, TypeOK
  <1>1. CASE SaveBlock
    <2>1. prevBi \in Hashes
      BY <1>1, Markers DEF SaveBlock, IndInv, PhaseInv
    <2>2. QED
      BY <1>0, <1>1, <2>1 DEF SaveBlock, InFile
  <1>2. CASE ~SaveBlock
    <2>1. UNCHANGED <<dbHeaders, dbPos>>
      BY <1>2 DEF Next, SyncStep, WorkerStep, CacheThread, SaverThread, Load, Walk, LoadDone,
         LoadThrows, StartWorkers, RetryFromFile, RetryFromNetwork, RetryThrows, RetryDone, Push,
         Fed, Poll, PollThrows, Fetch, FetchEnds, FetchThrows, AppendDump, AppendCut,
         SaveTransactions, AddNew, AddKnown, AddDone, AddThrows, Remove, SaveThrows, Pop, Finish,
         CacheBlock, WorkerSkips, WorkerRejects, WorkerSaves, WorkerThrows, Crash, CrashInAppend,
         Restart, Reset, vars, diskVars
    <2>2. QED
      BY <2>1
  <1>3. QED
    BY <1>1, <1>2

(* Every step keeps DumpInv. *)
LEMMA DumpStep ==
    ASSUME IndInv, DumpInv, [Next]_vars
    PROVE  DumpInv'
  <1> DEFINE After(h, p) == /\ p \in 1..Len(file')
                            /\ \/ file'[p] = h
                               \/ file'[p] = Torn /\ budget'["cut"] < Budget["cut"]
  <1>1. \A h, p : DumpAt(h, p) => After(h, p)
    BY DumpAtKept
  <1>2. budget'["cut"] <= Budget["cut"]
    <2>1. IndInv'
      BY StepInd
    <2>2. budget["cut"] \in Nat /\ Budget["cut"] \in Nat
      BY SyncAssumption DEF IndInv, TypeOK, FaultKinds
    <2>3. budget'["cut"] \in Nat
      BY <2>1 DEF IndInv, TypeOK, FaultKinds
    <2>4. QED
      BY <2>2, <2>3, DumpKept DEF DumpInv
  <1>3. DumpNeverWrong'
    <2> HIDE DEF After
    <2>1. ASSUME SaveToFiles, NEW h \in blocks' \ {Genesis} PROVE After(h, filePos'[h])
      BY <1>1, <2>1, MemoryPos DEF DumpInv, DumpNeverWrong
    <2>2. ASSUME SaveToFiles, NEW h \in dbHeaders' PROVE After(h, dbPos'[h])
      BY <1>1, <2>2, StoredPos DEF DumpInv, DumpNeverWrong
    <2>3. QED
      BY <2>1, <2>2 DEF DumpNeverWrong, DumpAt, After
  <1>4. SaveToFiles /\ pc' \in InFile => DumpAt(prevBi, pos)'
    <2> SUFFICES ASSUME SaveToFiles, pc' \in InFile PROVE DumpAt(prevBi, pos)'
      OBVIOUS
    <2>1. CASE AppendDump \/ AppendCut
      BY <2>1, DumpWritten
    <2>2. CASE ~AppendDump /\ ~AppendCut
      <3>1. pc \in InFile /\ prevBi' = prevBi /\ pos' = pos
        BY <2>2, HandKept
      <3>2. DumpAt(prevBi, pos)
        BY <3>1 DEF DumpInv
      <3>3. QED
        BY <3>1, <3>2, DumpAtKept DEF DumpAt
    <2>3. QED
      BY <2>1, <2>2
  <1>5. QED
    BY <1>2, <1>3, <1>4 DEF DumpInv, InFile

(* Whatever the servers answer and whatever fails, where a header says that *)
(* its dump lies there lies no dump of another block.                       *)
THEOREM DumpsRight == Spec => []DumpNeverWrong
  <1>1. Init => DumpInv
    BY SyncAssumption DEF Init, InitDisk, InitThreads, InitBlockChain, DumpInv, DumpNeverWrong, InFile, FaultKinds
  <1>2. QED
    BY <1>1, Inductive, DumpStep, PTL DEF Spec, DumpInv
=============================================================================
