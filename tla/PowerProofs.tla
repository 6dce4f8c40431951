---------------------------- MODULE PowerProofs -----------------------------
(***************************************************************************)
(* Proofs about SyncPower, for any blocks, answers, options and faults:    *)
(* what a power failure leaves of the chain, of the progress of the        *)
(* workers and of the positions in the block file.                         *)
(***************************************************************************)
EXTENDS SyncPower, WorkerProofs

MainType   == [headers : SUBSET Blocks, pos : [Hashes -> Nat], meta : MetaType, saved : SavedType]
SyncedType == [main : MainType, nodeTest : SavedType, file : Nat]

(* What was written back of the data base holds exactly the blocks of c. *)
WrittenBack(c) ==
    /\ \A h \in Blocks : h \in synced.main.headers <=> Place(c, h)
    /\ c = <<>> => synced.main.meta.blockHash = NoHash /\ synced.main.meta.prevBlockHash = NoHash
    /\ c # <<>> => /\ synced.main.meta.blockHash = c[Len(c)]
                   /\ synced.main.meta.prevBlockHash = prevHash[c[Len(c)]]

(* Both the data base and what was written back of it hold a chain. *)
PowerInv ==
    /\ IndInv
    /\ LedgerInv
    /\ synced \in SyncedType
    /\ synced.file <= Len(file)
    /\ NoBatchLost => \E c : Linked(c) /\ WrittenBack(c)

(* The process has died, or the power failed, at most once; or there are no *)
(* block files for a header to point into.                                  *)
FailedOnce == SaveToFiles => budget["crash"] + 1 >= Budget["crash"]

(* Before the first new block is fetched. *)
CatchUp == {"start", "loadCalc", "workers", "retry", "retryFeed"}

(* A position holds the dump of its block, or lies behind what is left of   *)
(* the file.                                                                *)
RightOrGone(h, p) == p \in 1..Len(file) => file[p] \in {h, Torn}

(* Up to the first failure the positions in the data base and in what was   *)
(* written back of it are right.                                            *)
FirstLife == budget["crash"] = Budget["crash"]

WrittenPos ==
    SaveToFiles => \A h \in synced.main.headers :
                      /\ synced.main.pos[h] \in 1..Len(file)
                      /\ file[synced.main.pos[h]] \in {h, Torn}

(* After it they are right or gone, until the file grows again. *)
SecondLife == SaveToFiles /\ budget["crash"] = Budget["crash"] - 1 /\ pc \in CatchUp

LeftPos ==
    /\ \A h \in dbHeaders : RightOrGone(h, dbPos[h])
    /\ \A h \in blocks \ {Genesis} : RightOrGone(h, filePos[h])

PositionInv ==
    /\ budget["crash"] <= Budget["crash"]
    /\ FirstLife => DumpInv /\ WrittenPos
    /\ SecondLife => LeftPos

(* An item for a worker is the answer for its number, and a child of a      *)
(* stored block.                                                            *)
HasParent(h, stored) == prevHash[h] \in stored \cup {Genesis}

ItemRight(it, stored) ==
    /\ it.number \in 1..MaxBlock
    /\ it.hash \in Answers[it.number]
    /\ HasParent(it.hash, stored)

SavedRight(s) ==
    \/ s.number = 0 /\ s.hash = NoHash
    \/ s.number \in 1..MaxBlock /\ s.hash \in Answers[s.number]

HandedInv ==
    /\ pc \in {"feed", "retryFeed"} => ItemRight(item, dbHeaders)
    /\ \A w \in Savers : \A i \in 1..Len(queue[w]) : ItemRight(queue[w][i], dbHeaders)
    /\ \A w \in Savers : busy[w] # NoItem => ItemRight(busy[w], dbHeaders)

ProgressInv ==
    /\ \A w \in Savers : SavedRight(saved[w])
    /\ SavedRight(synced.main.saved) /\ SavedRight(synced.nodeTest)
    /\ MainHasParent
    /\ synced.main.saved.hash # NoHash => HasParent(synced.main.saved.hash, synced.main.headers)

(* What the workers have, as long as they can be told from the chain. *)
CarefulInv == NoBatchLost /\ FailedOnce => HandedInv /\ ProgressInv

-----------------------------------------------------------------------------
(* Both the data base and what was written back of it hold a chain *)

(* The types that the lemmas below keep needing. *)
LEMMA SyncedFacts ==
    ASSUME PowerInv
    PROVE  /\ synced.main.headers \in SUBSET Blocks /\ synced.main.pos \in [Hashes -> Nat]
           /\ synced.main.meta \in MetaType /\ synced.main.saved \in SavedType
           /\ synced.nodeTest \in SavedType /\ synced.file \in Nat
           /\ Len(file) \in Nat /\ file \in Seq(Blocks \cup {Torn})
           /\ synced = [main |-> synced.main, nodeTest |-> synced.nodeTest, file |-> synced.file]
  <1>1. synced.main \in MainType /\ synced.nodeTest \in SavedType /\ synced.file \in Nat
        /\ synced = [main |-> synced.main, nodeTest |-> synced.nodeTest, file |-> synced.file]
    BY DEF PowerInv, SyncedType
  <1>2. /\ synced.main.headers \in SUBSET Blocks /\ synced.main.pos \in [Hashes -> Nat]
        /\ synced.main.meta \in MetaType /\ synced.main.saved \in SavedType
    BY <1>1 DEF MainType
  <1>3. Len(file) \in Nat /\ file \in Seq(Blocks \cup {Torn})
    BY DEF PowerInv, IndInv, TypeOK
  <1>4. QED
    BY <1>1, <1>2, <1>3

(* What there is to be written back. *)
LEMMA StoresFacts ==
    ASSUME IndInv
    PROVE  /\ MainStore \in MainType /\ saved["nodeTest"] \in SavedType /\ Len(file) \in Nat
           /\ MainStore.headers = dbHeaders /\ MainStore.pos = dbPos
           /\ MainStore.meta = dbMeta /\ MainStore.saved = saved["main"]
           /\ Stores.main = MainStore /\ Stores.nodeTest = saved["nodeTest"]
           /\ Stores.file = Len(file)
           /\ DOMAIN Stores = {"main", "nodeTest", "file"}
  <1>1. dbHeaders \in SUBSET Blocks /\ dbPos \in [Hashes -> Nat] /\ dbMeta \in MetaType
        /\ saved["main"] \in SavedType /\ saved["nodeTest"] \in SavedType /\ Len(file) \in Nat
    BY DEF IndInv, TypeOK, Savers
  <1>2. /\ MainStore \in MainType
        /\ MainStore.headers = dbHeaders /\ MainStore.pos = dbPos
        /\ MainStore.meta = dbMeta /\ MainStore.saved = saved["main"]
    BY <1>1 DEF MainStore, MainType
  <1>3. /\ Stores.main = MainStore /\ Stores.nodeTest = saved["nodeTest"]
        /\ Stores.file = Len(file) /\ DOMAIN Stores = {"main", "nodeTest", "file"}
    BY DEF Stores
  <1>4. QED
    BY <1>1, <1>2, <1>3

(* What one writing back changes. *)
LEMMA WriteBackIs ==
    ASSUME PowerInv, NEW store \in DOMAIN Stores, WriteBack(store)
    PROVE  /\ UNCHANGED vars
           /\ synced' \in SyncedType
           /\ \/ synced'.main = synced.main
              \/ synced'.main = MainStore
           /\ synced'.nodeTest = synced.nodeTest \/ synced'.nodeTest = saved["nodeTest"]
           /\ synced'.file = synced.file \/ synced'.file = Len(file)
  <1>1. IndInv
    BY DEF PowerInv
  <1>2. /\ synced.main \in MainType /\ synced.nodeTest \in SavedType /\ synced.file \in Nat
        /\ synced = [main |-> synced.main, nodeTest |-> synced.nodeTest, file |-> synced.file]
    BY SyncedFacts DEF PowerInv, SyncedType
  <1>3. UNCHANGED vars /\ synced' = [synced EXCEPT ![store] = Stores[store]]
    BY DEF WriteBack
  <1>4. CASE store = "main"
    <2>1. synced' = [main |-> MainStore, nodeTest |-> synced.nodeTest, file |-> synced.file]
      BY <1>1, <1>2, <1>3, <1>4, StoresFacts
    <2>2. QED
      BY <1>1, <1>2, <1>3, <2>1, StoresFacts DEF SyncedType
  <1>5. CASE store = "nodeTest"
    <2>1. synced' = [main |-> synced.main, nodeTest |-> saved["nodeTest"], file |-> synced.file]
      BY <1>1, <1>2, <1>3, <1>5, StoresFacts
    <2>2. QED
      BY <1>1, <1>2, <1>3, <2>1, StoresFacts DEF SyncedType
  <1>6. CASE store = "file"
    <2>1. synced' = [main |-> synced.main, nodeTest |-> synced.nodeTest, file |-> Len(file)]
      BY <1>1, <1>2, <1>3, <1>6, StoresFacts
    <2>2. QED
      BY <1>1, <1>2, <1>3, <2>1, StoresFacts DEF SyncedType
  <1>7. QED
    BY <1>1, <1>4, <1>5, <1>6, StoresFacts

(* A step of the node. *)
LEMMA NodeKeeps ==
    ASSUME PowerInv, [Next]_vars, UNCHANGED synced
    PROVE  PowerInv'
  <1>1. IndInv' /\ LedgerInv'
    BY StepInd, LedgerKept DEF PowerInv
  <1>2. synced' \in SyncedType /\ synced'.file <= Len(file')
    <2>1. Len(file') >= Len(file) /\ Len(file') \in Nat
      BY DumpKept DEF PowerInv
    <2>2. QED
      BY <2>1, SyncedFacts DEF PowerInv
  <1>3. NoBatchLost' => \E c : Linked(c)' /\ WrittenBack(c)'
    <2> SUFFICES ASSUME NoBatchLost' PROVE \E c : Linked(c)' /\ WrittenBack(c)'
      OBVIOUS
    <2>1. NoBatchLost
      BY BatchesCounted DEF PowerInv, LedgerInv
    <2>2. PICK c : Linked(c) /\ WrittenBack(c)
      BY <2>1 DEF PowerInv
    <2>3. QED
      BY <2>2 DEF Linked, WrittenBack, Place
  <1>4. QED
    BY <1>1, <1>2, <1>3 DEF PowerInv, SyncedType, MainType

(* Writing back. *)
LEMMA WriteBackKeeps ==
    ASSUME PowerInv, NEW store \in DOMAIN Stores, WriteBack(store)
    PROVE  PowerInv'
  <1>1. /\ UNCHANGED vars /\ synced' \in SyncedType
        /\ synced'.main = synced.main \/ synced'.main = MainStore
        /\ synced'.file = synced.file \/ synced'.file = Len(file)
    BY WriteBackIs
  <1>2. IndInv' /\ LedgerInv'
    BY <1>1, StutterPhase, LedgerKept DEF PowerInv
  <1>3. file' = file /\ budget' = budget
    BY <1>1 DEF vars, diskVars
  <1>4. synced'.file <= Len(file')
    BY <1>1, <1>3, SyncedFacts DEF PowerInv
  <1>5. NoBatchLost' => \E c : Linked(c)' /\ WrittenBack(c)'
    <2> SUFFICES ASSUME NoBatchLost PROVE \E c : Linked(c)' /\ WrittenBack(c)'
      BY <1>3 DEF NoBatchLost
    <2>1. CASE synced'.main = synced.main
      <3>1. PICK c : Linked(c) /\ WrittenBack(c)
        BY DEF PowerInv
      <3>2. QED
        BY <2>1, <3>1 DEF Linked, WrittenBack, Place
    <2>2. CASE synced'.main = MainStore
      <3>1. PICK c : ChainState(c)
        BY DEF PowerInv, LedgerInv
      <3>2. Linked(c) /\ Holds(c)
        BY <3>1 DEF ChainState
      <3>3. synced'.main.headers = dbHeaders /\ synced'.main.meta = dbMeta
        BY <2>2, StoresFacts DEF PowerInv
      <3>4. WrittenBack(c)'
        BY <3>2, <3>3 DEF Holds, WrittenBack, Place
      <3>5. QED
        BY <3>2, <3>4 DEF Linked
    <2>3. QED
      BY <1>1, <2>1, <2>2
  <1>6. QED
    BY <1>1, <1>2, <1>4, <1>5 DEF PowerInv, SyncedType, MainType

(* What a power failure leaves. *)
LEMMA FailureIs ==
    ASSUME PowerInv, PowerFailure
    PROVE  /\ pc' = "start" /\ Len(hashes') = 1 /\ known' = 0 /\ prevBi' = NoBlock
           /\ blocks' = {Genesis} /\ UNCHANGED synced
           /\ \A w \in Workers : queue'[w] = <<>> /\ busy'[w] = NoItem
           /\ dbHeaders' = synced.main.headers /\ dbPos' = synced.main.pos
           /\ dbMeta' = synced.main.meta
           /\ saved'["main"] = synced.main.saved /\ saved'["nodeTest"] = synced.nodeTest
           /\ file' \in Seq(Blocks \cup {Torn}) /\ synced.file <= Len(file')
           /\ \A i \in 1..Len(file') : i \in 1..Len(file) /\ file'[i] \in {file[i], Torn}
           /\ budget' \in [FaultKinds -> Nat] /\ budget'["crash"] = budget["crash"] - 1
           /\ budget'["save"] = budget["save"]
  <1>1. /\ pc' = "start" /\ Len(hashes') = 1 /\ known' = 0 /\ prevBi' = NoBlock
        /\ blocks' = {Genesis} /\ UNCHANGED synced
        /\ \A w \in Workers : queue'[w] = <<>> /\ busy'[w] = NoItem
        /\ dbHeaders' = synced.main.headers /\ dbPos' = synced.main.pos
        /\ dbMeta' = synced.main.meta
        /\ saved'["main"] = synced.main.saved /\ saved'["nodeTest"] = synced.nodeTest
    BY DEF PowerFailure, Reset, Goto
  <1>2. /\ file' \in Seq(Blocks \cup {Torn}) /\ synced.file <= Len(file')
        /\ \A i \in 1..Len(file') : i \in 1..Len(file) /\ file'[i] \in {file[i], Torn}
    <2> DEFINE S == Blocks \cup {Torn}
               left == SubSeq(file, 1, synced.file)
    <2>1. file \in Seq(S) /\ synced.file \in 0..Len(file) /\ Len(file) \in Nat /\ Torn \in S
      BY SyncedFacts DEF PowerInv
    <2> HIDE DEF S
    <2>2. left \in Seq(S) /\ Len(left) = synced.file
          /\ \A i \in 1..synced.file : left[i] = file[i]
      BY <2>1
    <2>3. PICK part \in {<<>>, <<Torn>>} :
             (part # <<>> => synced.file < Len(file)) /\ file' = left \o part
      BY DEF PowerFailure
    <2> HIDE DEF left
    <2>4. CASE part = <<>>
      <3>2. file' = left
        BY <2>2, <2>3, <2>4
      <3>3. QED
        BY <2>1, <2>2, <3>2 DEF S
    <2>5. CASE part = <<Torn>>
      <3>1. file' = left \o <<Torn>> /\ synced.file < Len(file)
        BY <2>3, <2>5
      <3>2. /\ file' \in Seq(S) /\ Len(file') = synced.file + 1
            /\ file'[synced.file + 1] = Torn
            /\ \A i \in 1..synced.file : file'[i] = left[i]
        BY <2>1, <2>2, <3>1
      <3>3. QED
        BY <2>1, <2>2, <3>1, <3>2 DEF S
    <2>6. QED
      BY <2>3, <2>4, <2>5
  <1>3. /\ budget' \in [FaultKinds -> Nat] /\ budget'["crash"] = budget["crash"] - 1
        /\ budget'["save"] = budget["save"]
    BY DEF PowerFailure, Spend, FaultKinds, PowerInv, IndInv, TypeOK
  <1>4. QED
    BY <1>1, <1>2, <1>3

(* A power failure: what was written back of the data base is the chain     *)
(* that the node starts from.                                               *)
LEMMA FailureKeeps ==
    ASSUME PowerInv, PowerFailure
    PROVE  PowerInv'
  <1>1. Reset
    BY DEF PowerFailure
  <1>2. ChainInv'
    <2>1. InitBlockChain'
      BY <1>1 DEF Reset, InitBlockChain
    <2>2. QED
      BY <2>1, <1>1, Markers DEF Reset, ChainInv, BlockChainTypeOK, WalkedInv,
         ChainNumbered, NoNumber
  <1>3. /\ dbHeaders' \subseteq Blocks /\ dbPos' \in [Hashes -> Nat] /\ dbMeta' \in MetaType
        /\ saved' \in [Savers -> SavedType]
        /\ file' \in Seq(Blocks \cup {Torn}) /\ budget' \in [FaultKinds -> Nat]
    <2>1. saved' = [main |-> synced.main.saved, nodeTest |-> synced.nodeTest]
      BY DEF PowerFailure
    <2>2. saved' \in [Savers -> SavedType]
      BY <2>1, SyncedFacts DEF Savers
    <2>3. QED
      BY <2>2, FailureIs, SyncedFacts
  <1>4. TypeOK'
    BY <1>1, <1>2, <1>3 DEF Reset, ChainInv, TypeOK, Goto, Pcs, QueueSize
  <1>5. PhaseInv'
    BY <1>1 DEF Reset, PhaseInv, InHand, Goto
  <1>6. budget'["save"] = budget["save"] /\ budget["save"] <= Budget["save"]
    BY FailureIs DEF PowerInv, LedgerInv
  <1>7. FetchInv'
    BY FailureIs, SyncAssumption DEF FetchInv, InHand
  <1>8. ASSUME NoBatchLost'
        PROVE  (\E c : ChainState(c)') /\ (\E c : Linked(c)' /\ WrittenBack(c)')
    <2>1. PICK c : Linked(c) /\ WrittenBack(c)
      BY <1>6, <1>8 DEF PowerInv, NoBatchLost
    <2>2. Linked(c)' /\ WrittenBack(c)'
      BY <2>1, FailureIs DEF Linked, WrittenBack, Place
    <2>3. Holds(c)'
      BY <2>2, FailureIs DEF Holds, WrittenBack, Place
    <2>4. ChainState(c)'
      BY <2>2, <2>3, FailureIs DEF ChainState, Plain
    <2>5. QED
      BY <2>2, <2>4
  <1>9. LedgerInv'
    BY <1>6, <1>7, <1>8 DEF LedgerInv
  <1>10. synced' \in SyncedType /\ synced'.file <= Len(file')
    BY FailureIs, SyncedFacts DEF PowerInv
  <1>11. QED
    BY <1>2, <1>4, <1>5, <1>8, <1>9, <1>10 DEF PowerInv, IndInv, SyncedType, MainType

(* Every step keeps PowerInv. *)
LEMMA PowerKept ==
    ASSUME PowerInv, [PowerNext]_powerVars
    PROVE  PowerInv'
  <1>1. CASE NodeRuns \/ UNCHANGED powerVars
    BY <1>1, NodeKeeps DEF NodeRuns, powerVars
  <1>2. CASE (\E store \in DOMAIN Stores : WriteBack(store)) \/ PowerFailure
    BY <1>2, WriteBackKeeps, FailureKeeps
  <1>3. QED
    BY <1>1, <1>2 DEF PowerNext

(* At the start nothing has been stored, and all of it is written back. *)
LEMMA PowerStart == PowerInit => PowerInv
  <1> SUFFICES ASSUME PowerInit PROVE PowerInv
    OBVIOUS
  <1>1. Init /\ synced = Stores /\ IndInv /\ LedgerInv
    BY InitInd, LedgerStart DEF PowerInit
  <1>2. synced \in SyncedType /\ synced.file <= Len(file)
    <2>1. synced = [main |-> MainStore, nodeTest |-> saved["nodeTest"], file |-> Len(file)]
      BY <1>1 DEF Stores
    <2>2. QED
      BY <1>1, <2>1, StoresFacts DEF SyncedType
  <1>3. Linked(<<>>) /\ WrittenBack(<<>>)
    <2>1. synced.main.headers = {} /\ synced.main.meta = [blockHash |-> NoHash, prevBlockHash |-> NoHash]
      BY <1>1, StoresFacts DEF Init, InitDisk
    <2>2. QED
      BY <2>1 DEF Linked, WrittenBack, Place
  <1>4. QED
    BY <1>1, <1>2, <1>3 DEF PowerInv

(* PowerInv holds in every reachable state. *)
LEMMA PowerInductive == PowerSpec => []PowerInv
  BY PowerStart, PowerKept, PTL DEF PowerSpec

-----------------------------------------------------------------------------
(* What is left of the chain *)

(* The parents in a sequence that is linked. *)
LEMMA ParentIs ==
    ASSUME RootsRight, NEW s, Linked(s), NEW i \in 1..Len(s)
    PROVE  /\ s[i] \in Blocks
           /\ i = 1 => prevHash[s[i]] = Genesis
           /\ i # 1 => i - 1 \in 1..Len(s) /\ prevHash[s[i]] = s[i - 1]
  <1>1. s \in Seq(Blocks) /\ Len(s) \in Nat /\ s[i] \in Blocks
    BY DEF Linked
  <1>2. i \in 1..MaxBlock /\ s[i] \in Answers[i]
    BY <1>1, SyncAssumption DEF Linked
  <1>3. i = 1 => prevHash[s[i]] = Genesis
    BY <1>2, SyncAssumption DEF RootsRight
  <1>4. i # 1 => i - 1 \in 1..Len(s) /\ i \in 2..Len(s)
    BY <1>1
  <1>5. QED
    BY <1>1, <1>3, <1>4 DEF Linked

(* The headers in the data base are linked. *)
LEMMA HeadersHold ==
    ASSUME IndInv, LedgerInv, NoBatchLost, RootsRight
    PROVE  HeadersLinked
  <1>1. PICK c : ChainState(c)
    BY DEF LedgerInv
  <1>2. Linked(c) /\ Holds(c) /\ c \in Seq(Blocks) /\ Len(c) \in Nat
    BY <1>1 DEF ChainState, Linked
  <1>3. \A h : h \in dbHeaders <=> Place(c, h)
    <2>1. \A h : Place(c, h) => h \in Blocks
      BY <1>2 DEF Place
    <2>2. QED
      BY <1>2, <2>1, ChainFacts DEF Holds
  <1>4. dbMeta.blockHash \in dbHeaders \cup {NoHash}
    <2>1. CASE c = <<>>
      BY <1>2, <2>1 DEF Holds
    <2>2. CASE c # <<>>
      <3>1. Len(c) \in 1..Len(c) /\ dbMeta.blockHash = c[Len(c)]
        BY <1>2, <2>2 DEF Holds
      <3>2. QED
        BY <1>3, <3>1 DEF Place
    <2>3. QED
      BY <2>1, <2>2
  <1>5. ASSUME NEW h \in dbHeaders
        PROVE  /\ prevHash[h] \in dbHeaders \cup {Genesis}
               /\ h = dbMeta.blockHash \/ \E d \in dbHeaders : prevHash[d] = h
    <2>1. PICK i \in 1..Len(c) : c[i] = h
      BY <1>3, <1>5 DEF Place
    <2>2. prevHash[h] \in dbHeaders \cup {Genesis}
      <3>1. prevHash[h] = Genesis \/ (i - 1 \in 1..Len(c) /\ prevHash[h] = c[i - 1])
        BY <1>2, <2>1, ParentIs
      <3>2. QED
        BY <1>3, <3>1 DEF Place
    <2>3. CASE i = Len(c)
      <3>1. c # <<>>
        BY <1>2, <2>1
      <3>2. dbMeta.blockHash = h
        BY <1>2, <2>1, <2>3, <3>1 DEF Holds
      <3>3. QED
        BY <2>2, <3>2
    <2>4. CASE i # Len(c)
      <3>1. i + 1 \in 1..Len(c) /\ i + 1 # 1 /\ (i + 1) - 1 = i
        BY <1>2, <2>1, <2>4
      <3>2. prevHash[c[i + 1]] = c[i]
        BY <1>2, <3>1, ParentIs
      <3>3. c[i + 1] \in dbHeaders
        BY <1>3, <3>1 DEF Place
      <3>4. QED
        BY <2>1, <2>2, <3>2, <3>3
    <2>5. QED
      BY <2>3, <2>4
  <1>6. QED
    BY <1>4, <1>5 DEF HeadersLinked

(* Every variable keeps its type across power failures. *)
THEOREM PowerTypeCorrect == PowerSpec => []TypeOK
  BY PowerInductive, PTL DEF PowerInv, IndInv

(* However often the power fails and whatever else fails but a batch of     *)
(* saveBlockToLeveldb, the data base holds the chain, the chain is linked,  *)
(* and the block in hand is an answer for the number that it is to get.     *)
THEOREM PowerStoredRight ==
    PowerSpec => [](NoBatchLost => DbIsChain /\ ChainLinked /\ AskedForThatNumber)
  <1>1. PowerInv => (NoBatchLost => DbIsChain /\ ChainLinked /\ AskedForThatNumber)
    BY StoredHolds, LinksHold, AskedHolds DEF PowerInv
  <1>2. QED
    BY <1>1, PowerInductive, PTL

(* When no server offers a stray block 1, no number of power failures       *)
(* leaves a data base that cannot be loaded: its headers are a chain that   *)
(* ends in the block of the metadata, and the assertion of calcBlockchain   *)
(* holds whenever it is loaded.                                             *)
THEOREM PowerLoadRight ==
    ASSUME RootsRight
    PROVE  PowerSpec => [](NoBatchLost => HeadersLinked /\ LoadedChainFits /\ RootLinked)
  <1>1. PowerInv => (NoBatchLost => HeadersLinked /\ LoadedChainFits /\ RootLinked)
    BY HeadersHold, LoadFits, RootHolds DEF PowerInv
  <1>2. QED
    BY <1>1, PowerInductive, PTL

-----------------------------------------------------------------------------
(* The positions in the block file *)

(* A death of the process is never forgotten, and only a death counts. *)
LEMMA DeathsCounted ==
    ASSUME IndInv, [Next]_vars
    PROVE  /\ budget["crash"] \in Nat /\ budget'["crash"] \in Nat
           /\ Crash \/ CrashInAppend => budget'["crash"] = budget["crash"] - 1
           /\ ~(Crash \/ CrashInAppend) => budget'["crash"] = budget["crash"]
  <1>0. /\ \A k \in FaultKinds : budget[k] \in Nat
        /\ DOMAIN budget = FaultKinds /\ "crash" \in FaultKinds
    BY DEF IndInv, TypeOK, FaultKinds
  <1>1. budget'["crash"] \in Nat
    <2>1. IndInv'
      BY StepInd
    <2>2. QED
      BY <2>1 DEF IndInv, TypeOK, FaultKinds
  <1>2. ASSUME NEW k \in {"net", "cut", "save", "worker"}, Spend(k)
        PROVE  budget'["crash"] = budget["crash"]
    BY <1>0, <1>2 DEF Spend, FaultKinds
  <1>3. CASE Crash \/ CrashInAppend
    BY <1>0, <1>1, <1>3 DEF Crash, CrashInAppend, Restart, Spend
  <1>4. CASE ~(Crash \/ CrashInAppend)
    <2>1. UNCHANGED budget \/ \E k \in {"net", "cut", "save", "worker"} : Spend(k)
      BY <1>4 DEF Next, SyncStep, WorkerStep, CacheThread, SaverThread, Load, Walk, LoadDone, LoadThrows,
         StartWorkers, RetryFromFile, RetryFromNetwork, RetryThrows, RetryDone, Push, Fed, Poll,
         PollThrows, Fetch, FetchEnds, FetchThrows, AppendDump, AppendCut, AddNew, AddKnown,
         AddDone, AddThrows, Remove, SaveBlock, SaveThrows, Pop, CacheBlock, WorkerSkips,
         WorkerRejects, WorkerSaves, WorkerThrows, vars
    <2>2. budget'["crash"] = budget["crash"]
      BY <1>2, <2>1
    <2>3. QED
      BY <1>0, <1>1, <1>4, <2>2
  <1>5. QED
    BY <1>3, <1>4

(* Until the first new block is fetched the stores are as the failure left  *)
(* them, and only a failure leads back there.                               *)
LEMMA CatchUpFrom ==
    ASSUME [Next]_vars, pc' \in CatchUp, ~(Crash \/ CrashInAppend)
    PROVE  pc \in CatchUp /\ UNCHANGED <<file, dbHeaders, dbPos>>
  <1>1. CASE SyncStep
    BY <1>1 DEF SyncStep, Load, Walk, LoadDone, LoadThrows, StartWorkers, RetryFromFile,
       RetryFromNetwork, RetryThrows, RetryDone, Push, Fed, Poll, PollThrows, Fetch, FetchEnds,
       FetchThrows, AppendDump, AppendCut, SaveTransactions, AddNew, AddKnown, AddDone, AddThrows,
       Remove, SaveBlock, SaveThrows, Goto, Again, Offer, CatchUp, diskVars
  <1>2. CASE WorkerStep \/ UNCHANGED vars
    BY <1>2 DEF WorkerStep, CacheThread, SaverThread, Pop, CacheBlock,
       WorkerSkips, WorkerRejects, WorkerSaves, WorkerThrows, Finish, vars, diskVars
  <1>3. QED
    BY <1>1, <1>2 DEF Next

(* A step of the node keeps the positions. *)
LEMMA NodeKeepsPos ==
    ASSUME PowerInv, PositionInv, [Next]_vars, UNCHANGED synced
    PROVE  PositionInv'
  <1>0. IndInv /\ Budget["crash"] \in Nat
    BY SyncAssumption DEF PowerInv, FaultKinds
  <1>1. /\ budget["crash"] \in Nat /\ budget'["crash"] \in Nat /\ budget["crash"] <= Budget["crash"]
        /\ Crash \/ CrashInAppend => budget'["crash"] = budget["crash"] - 1
        /\ ~(Crash \/ CrashInAppend) => budget'["crash"] = budget["crash"]
    BY <1>0, DeathsCounted DEF PositionInv
  <1>2. /\ Len(file') \in Nat /\ Len(file) \in Nat /\ Len(file') >= Len(file)
        /\ \A i \in 1..Len(file) : i \in 1..Len(file') /\ file'[i] = file[i]
    BY <1>0, DumpKept
  <1>3. ASSUME FirstLife' PROVE DumpInv' /\ WrittenPos'
    <2>1. FirstLife
      BY <1>0, <1>1, <1>3 DEF FirstLife
    <2>2. DumpInv /\ WrittenPos
      BY <2>1 DEF PositionInv
    <2>3. DumpInv'
      BY <1>0, <2>2, DumpStep
    <2>4. WrittenPos'
      BY <1>2, <2>2 DEF WrittenPos
    <2>5. QED
      BY <2>3, <2>4
  <1>4. ASSUME SecondLife' PROVE LeftPos'
    <2>1. CASE Crash \/ CrashInAppend
      <3>1. FirstLife /\ SaveToFiles
        BY <1>0, <1>1, <1>4, <2>1 DEF FirstLife, SecondLife
      <3>2. \A h \in dbHeaders : dbPos[h] \in 1..Len(file) /\ file[dbPos[h]] \in {h, Torn}
        BY <3>1 DEF PositionInv, DumpInv, DumpNeverWrong, DumpAt
      <3>3. UNCHANGED <<dbHeaders, dbPos>> /\ blocks' = {Genesis}
        BY <2>1 DEF Crash, CrashInAppend, Restart, Reset
      <3>4. QED
        BY <1>2, <3>2, <3>3 DEF LeftPos, RightOrGone
    <2>2. CASE ~(Crash \/ CrashInAppend)
      <3>1. pc \in CatchUp /\ UNCHANGED <<file, dbHeaders, dbPos>>
        BY <1>4, <2>2, CatchUpFrom DEF SecondLife
      <3>2. SecondLife
        BY <1>1, <1>4, <2>2, <3>1 DEF SecondLife
      <3>3. LeftPos
        BY <3>2 DEF PositionInv
      <3>4. \A h \in blocks' \ {Genesis} :
               \/ h \in blocks \ {Genesis} /\ filePos'[h] = filePos[h]
               \/ h \in dbHeaders /\ filePos'[h] = dbPos[h]
        BY <1>0, <3>1, MemoryPos DEF InFile, CatchUp
      <3>5. QED
        BY <3>1, <3>3, <3>4 DEF LeftPos, RightOrGone
    <2>3. QED
      BY <2>1, <2>2
  <1>5. QED
    BY <1>0, <1>1, <1>3, <1>4 DEF PositionInv

(* Writing back keeps them. *)
LEMMA WriteBackKeepsPos ==
    ASSUME PowerInv, PositionInv, NEW store \in DOMAIN Stores, WriteBack(store)
    PROVE  PositionInv'
  <1>1. UNCHANGED vars /\ (synced'.main = synced.main \/ synced'.main = MainStore)
    BY WriteBackIs
  <1>2. UNCHANGED <<budget, file, dbHeaders, dbPos, pc, blocks, filePos, prevBi, pos>>
    BY <1>1 DEF vars, diskVars, chainVars, biVars
  <1>3. ASSUME FirstLife' PROVE DumpInv' /\ WrittenPos'
    <2>1. FirstLife
      BY <1>2, <1>3 DEF FirstLife
    <2>2. DumpInv /\ WrittenPos
      BY <2>1 DEF PositionInv
    <2>3. DumpInv'
      BY <1>2, <2>2 DEF DumpInv, DumpNeverWrong, DumpAt, InFile
    <2>4. CASE synced'.main = synced.main
      BY <1>2, <2>2, <2>3, <2>4 DEF WrittenPos
    <2>5. CASE synced'.main = MainStore
      <3>1. synced'.main.headers = dbHeaders /\ synced'.main.pos = dbPos
        BY <2>5, StoresFacts DEF PowerInv
      <3>2. WrittenPos'
        BY <1>2, <2>2, <3>1 DEF WrittenPos, DumpInv, DumpNeverWrong, DumpAt
      <3>3. QED
        BY <2>3, <3>2
    <2>6. QED
      BY <1>1, <2>4, <2>5
  <1>4. SecondLife' => LeftPos'
    BY <1>2 DEF PositionInv, SecondLife, LeftPos, RightOrGone
  <1>5. QED
    BY <1>2, <1>3, <1>4 DEF PositionInv

(* A power failure cuts the file: what is left of it lies where it lay. *)
LEMMA FailureKeepsPos ==
    ASSUME PowerInv, PositionInv, PowerFailure
    PROVE  PositionInv'
  <1>1. /\ budget["crash"] \in Nat /\ budget["crash"] <= Budget["crash"] /\ Budget["crash"] \in Nat
        /\ budget'["crash"] = budget["crash"] - 1
    BY FailureIs, SyncAssumption DEF PowerInv, IndInv, TypeOK, FaultKinds, PositionInv
  <1>2. ~FirstLife'
    BY <1>1 DEF FirstLife
  <1>3. ASSUME SecondLife' PROVE LeftPos'
    <2>1. FirstLife /\ SaveToFiles
      BY <1>1, <1>3 DEF FirstLife, SecondLife
    <2>2. \A h \in synced.main.headers : file[synced.main.pos[h]] \in {h, Torn}
      BY <2>1 DEF PositionInv, WrittenPos
    <2>3. QED
      BY <2>2, FailureIs DEF LeftPos, RightOrGone
  <1>4. QED
    BY <1>1, <1>2, <1>3 DEF PositionInv

(* PositionInv holds in every reachable state. *)
LEMMA PositionInductive == PowerSpec => [](PowerInv /\ PositionInv)
  <1>1. PowerInit => PositionInv
    <2> SUFFICES ASSUME PowerInit PROVE PositionInv
      OBVIOUS
    <2>1. Init /\ synced = Stores /\ budget = Budget /\ dbHeaders = {} /\ IndInv
      BY InitInd DEF PowerInit, Init, InitDisk, InitThreads
    <2>2. synced.main.headers = {}
      BY <2>1, StoresFacts
    <2>3. DumpInv
      BY <2>1, SyncAssumption DEF Init, InitDisk, InitThreads, InitBlockChain, DumpInv, DumpNeverWrong,
         InFile, FaultKinds
    <2>4. Budget["crash"] \in Nat
      BY SyncAssumption DEF FaultKinds
    <2>5. QED
      BY <2>1, <2>2, <2>3, <2>4 DEF PositionInv, FirstLife, WrittenPos, SecondLife
  <1>2. PowerInv /\ PositionInv /\ [PowerNext]_powerVars => PositionInv'
    BY NodeKeepsPos, WriteBackKeepsPos, FailureKeepsPos DEF PowerNext, NodeRuns, powerVars
  <1>3. QED
    BY <1>1, <1>2, PowerInductive, PTL DEF PowerSpec

-----------------------------------------------------------------------------
(* What the workers get and save *)

(* A block of the loaded chain is an answer for its number and a child of   *)
(* a stored block.                                                          *)
LEMMA ChainItem ==
    ASSUME IndInv, RootsRight, NEW c, ChainState(c), pc \in Plain, NEW n \in 1..CountBlocks
    PROVE  n \in 1..MaxBlock /\ hashes[n + 1] \in Answers[n] /\ HasParent(hashes[n + 1], dbHeaders)
  <1>1. Linked(c) /\ Holds(c) /\ ChainIs(c) /\ c \in Seq(Blocks) /\ Len(c) \in Nat
    BY DEF ChainState, Linked
  <1>2. n \in 1..Len(c) /\ hashes[n + 1] = c[n]
    BY <1>1, WorkFacts DEF ChainIs, Follows, CountBlocks
  <1>3. n \in 1..MaxBlock /\ c[n] \in Answers[n]
    BY <1>1, <1>2, SyncAssumption DEF Linked
  <1>4. prevHash[c[n]] = Genesis \/ (n - 1 \in 1..Len(c) /\ prevHash[c[n]] = c[n - 1])
    BY <1>1, <1>2, ParentIs
  <1>5. n - 1 \in 1..Len(c) => c[n - 1] \in dbHeaders
    BY <1>1 DEF Holds, Place
  <1>6. QED
    BY <1>2, <1>3, <1>4, <1>5 DEF HasParent

(* So is the block that addBlock has put on the chain. *)
LEMMA AddedItem ==
    ASSUME IndInv, RootsRight, FetchInv, NEW c, ChainState(c), AddDone
    PROVE  pc' = "feed" /\ ItemRight(item', dbHeaders)
  <1>1. /\ pc' = "feed" /\ AllNum = Len(hashes) /\ prevBi' = prevBi /\ ChainState(c)'
    BY AddDoneState DEF biVars
  <1>2. Len(hashes) \in Nat /\ Len(hashes) >= 1
    BY WorkFacts
  <1>3. item' = [hash |-> prevBi, number |-> Len(hashes)]
    BY <1>1, <1>2 DEF AddDone
  <1>4. /\ Linked(c) /\ Holds(c) /\ c \in Seq(Blocks) /\ Len(c) \in Nat
        /\ Len(hashes) = Len(c) + 1 /\ prevBi \in Blocks
    <2>1. pc = "addCalc"
      BY DEF AddDone
    <2>2. Linked(c) /\ Holds(c) /\ ChainIs(c) /\ prevBi \in Blocks
      BY <2>1 DEF ChainState, IndInv, PhaseInv, InHand
    <2>3. QED
      BY <2>2 DEF Linked, ChainIs, Follows
  <1>5. PICK d : d = Append(c, prevBi)
    OBVIOUS
  <1>6. Linked(d)
    BY <1>1, <1>5 DEF ChainState, Linked
  <1>7. /\ Len(d) = Len(c) + 1 /\ d[Len(c) + 1] = prevBi /\ Len(c) + 1 \in 1..Len(d)
        /\ \A i \in 1..Len(c) : d[i] = c[i]
    BY <1>4, <1>5
  <1>8. Len(hashes) \in 1..MaxBlock /\ prevBi \in Answers[Len(hashes)]
    BY <1>4, <1>6, <1>7, SyncAssumption DEF Linked
  <1>9. HasParent(prevBi, dbHeaders)
    <2>1. CASE Len(c) = 0
      <3>1. prevHash[prevBi] = Genesis
        BY <1>6, <1>7, <2>1, ParentIs
      <3>2. QED
        BY <3>1 DEF HasParent
    <2>2. CASE Len(c) # 0
      <3>1. prevHash[prevBi] = d[(Len(c) + 1) - 1]
        BY <1>4, <1>6, <1>7, <2>2, ParentIs
      <3>2. (Len(c) + 1) - 1 = Len(c) /\ Len(c) \in 1..Len(c)
        BY <1>4, <2>2
      <3>3. prevHash[prevBi] = c[Len(c)] /\ c[Len(c)] \in Blocks
        BY <1>4, <1>7, <3>1, <3>2
      <3>4. c[Len(c)] \in dbHeaders
        BY <1>4, <3>2, <3>3 DEF Holds, Place
      <3>5. QED
        BY <3>3, <3>4 DEF HasParent
    <2>3. QED
      BY <2>1, <2>2
  <1>10. QED
    BY <1>1, <1>3, <1>8, <1>9 DEF ItemRight

(* So is the block that a worker gets again: the header's position holds    *)
(* its dump, or nothing that could be read.                                 *)
LEMMA RetriedItem ==
    ASSUME IndInv, RootsRight, ServersAgree, PositionInv, FailedOnce, NEW c, ChainState(c),
           RetryFromFile \/ RetryFromNetwork
    PROVE  ItemRight(item', dbHeaders)
  <1>1. /\ pc = "retry" /\ pc \in Plain /\ retryNum \in 1..CountBlocks /\ Len(hashes) \in Nat
        /\ retryNum + 1 \in 1..Len(hashes)
    <2>1. pc = "retry" /\ retryNum <= CountBlocks
      BY DEF RetryFromFile, RetryFromNetwork
    <2>2. retryNum >= 1
      BY <2>1 DEF IndInv, PhaseInv
    <2>3. QED
      BY <2>1, <2>2, WorkFacts DEF CountBlocks, Plain
  <1>2. PICK h : h = hashes[retryNum + 1]
    OBVIOUS
  <1>3. retryNum \in 1..MaxBlock /\ h \in Answers[retryNum] /\ HasParent(h, dbHeaders)
    BY <1>1, <1>2, ChainItem
  <1>4. CASE RetryFromFile
    <2>1. h \in blocks \ {Genesis}
      <3>1. h \in blocks
        BY <1>1, <1>2, ChainFacts DEF ChainNumbered
      <3>2. h # Genesis
        BY <1>1, <1>2, ChainFacts, ChainInjective
      <3>3. QED
        BY <3>1, <3>2
    <2>2. /\ SaveToFiles /\ filePos[h] \in 1..Len(file) /\ file[filePos[h]] # Torn
          /\ item' = [hash |-> file[filePos[h]], number |-> retryNum]
      BY <1>2, <1>4 DEF RetryFromFile, Readable, Offer
    <2>3. FirstLife \/ SecondLife
      <3>1. budget["crash"] \in Nat /\ Budget["crash"] \in Nat /\ budget["crash"] <= Budget["crash"]
            /\ budget["crash"] + 1 >= Budget["crash"]
        BY <2>2, SyncAssumption DEF IndInv, TypeOK, FaultKinds, PositionInv, FailedOnce
      <3>2. QED
        BY <1>1, <2>2, <3>1 DEF FirstLife, SecondLife, CatchUp
    <2>4. file[filePos[h]] = h
      <3>1. CASE FirstLife
        BY <2>1, <2>2, <3>1 DEF PositionInv, DumpInv, DumpNeverWrong, DumpAt
      <3>2. CASE SecondLife
        BY <2>1, <2>2, <3>2 DEF PositionInv, LeftPos, RightOrGone
      <3>3. QED
        BY <2>3, <3>1, <3>2
    <2>5. QED
      BY <1>3, <2>2, <2>4 DEF ItemRight
  <1>5. CASE RetryFromNetwork
    <2>1. PICK b \in Answers[retryNum] : item' = [hash |-> b, number |-> retryNum]
      BY <1>5 DEF RetryFromNetwork, Offer
    <2>2. b = h
      BY <1>3, <2>1 DEF ServersAgree
    <2>3. QED
      BY <1>3, <2>1, <2>2 DEF ItemRight
  <1>6. QED
    BY <1>4, <1>5

(* The data base loses no header while the power is on. *)
LEMMA HeadersGrow ==
    ASSUME [Next]_vars
    PROVE  dbHeaders \subseteq dbHeaders'
  <1>1. CASE SaveBlock
    BY <1>1 DEF SaveBlock
  <1>2. CASE ~SaveBlock
    BY <1>2 DEF Next, SyncStep, WorkerStep, CacheThread, SaverThread, Load, Walk, LoadDone,
       LoadThrows, StartWorkers, RetryFromFile, RetryFromNetwork, RetryThrows, RetryDone, Push,
       Fed, Poll, PollThrows, Fetch, FetchEnds, FetchThrows, AppendDump, AppendCut,
       SaveTransactions, AddNew, AddKnown, AddDone, AddThrows, Remove, SaveThrows, Pop, Finish,
       CacheBlock, WorkerSkips, WorkerRejects, WorkerSaves, WorkerThrows, Crash, CrashInAppend,
       Restart, Reset, vars, diskVars
  <1>3. QED
    BY <1>1, <1>2

(* What handing out the item does to the queues. *)
LEMMA PushQueue ==
    ASSUME IndInv, Push, NEW w \in Workers
    PROVE  /\ UNCHANGED <<busy, saved>>
           /\ \/ queue'[w] = queue[w]
              \/ /\ item \in Items /\ pc \in {"feed", "retryFeed"}
                 /\ queue'[w] = Append(queue[w], item)
  <1>1. /\ item \in Items /\ pc \in {"feed", "retryFeed"} /\ feedTo # <<>> /\ feedTo \in Seq(Workers)
        /\ queue \in [Workers -> Seq(Items)] /\ UNCHANGED <<busy, saved>>
    BY WorkFacts DEF Push, IndInv, TypeOK
  <1>2. PICK v : v = Head(feedTo)
    OBVIOUS
  <1>3. UNCHANGED queue \/ queue' = [queue EXCEPT ![v] = Append(@, item)]
    BY <1>2 DEF Push
  <1>4. QED
    BY <1>1, <1>3

(* Every step of the node keeps: a saver gets right items only. *)
LEMMA HandedStep ==
    ASSUME IndInv, RootsRight, ServersAgree, PositionInv, FailedOnce, FetchInv, NEW c, ChainState(c),
           HandedInv, [Next]_vars
    PROVE  HandedInv'
  <1>0. /\ \A w \in Savers : w \in Workers /\ queue[w] \in Seq(Items)
        /\ \A it : ItemRight(it, dbHeaders) => ItemRight(it, dbHeaders')
    <2>1. \A w \in Savers : w \in Workers
      BY DEF Savers, Workers
    <2>2. QED
      BY <2>1, HeadersGrow, WorkFacts DEF ItemRight, HasParent
  <1>1. ASSUME pc' \in {"feed", "retryFeed"} PROVE ItemRight(item', dbHeaders')
    <2>1. CASE AddDone \/ RetryFromFile \/ RetryFromNetwork
      BY <1>0, <2>1, AddedItem, RetriedItem
    <2>2. CASE Push \/ UNCHANGED <<pc, feedTo, item, retryNum, hashes>>
      <3>1. pc' = pc /\ item' = item
        BY <2>2 DEF Push
      <3>2. QED
        BY <1>0, <1>1, <3>1 DEF HandedInv
    <2>3. QED
      BY <1>1, <2>1, <2>2, FeedFrom
  <1>2. ASSUME NEW w \in Savers
        PROVE  /\ \A i \in 1..Len(queue'[w]) : ItemRight(queue'[w][i], dbHeaders')
               /\ busy'[w] # NoItem => ItemRight(busy'[w], dbHeaders')
    <2>0. /\ \A i \in 1..Len(queue[w]) : ItemRight(queue[w][i], dbHeaders')
          /\ busy[w] # NoItem => ItemRight(busy[w], dbHeaders')
      BY <1>0 DEF HandedInv
    <2>1. CASE Crash \/ CrashInAppend
      BY <1>0, <2>1, ResetLines
    <2>2. CASE Push
      <3>1. busy' = busy
        BY <2>2 DEF Push
      <3>2. CASE queue'[w] = queue[w]
        BY <2>0, <3>1, <3>2
      <3>3. CASE item \in Items /\ pc \in {"feed", "retryFeed"} /\ queue'[w] = Append(queue[w], item)
        <4>1. /\ Len(queue[w]) \in Nat /\ Len(queue'[w]) = Len(queue[w]) + 1
              /\ queue'[w][Len(queue[w]) + 1] = item
              /\ \A i \in 1..Len(queue[w]) : queue'[w][i] = queue[w][i]
          BY <1>0, <3>3
        <4>2. \A i \in 1..Len(queue'[w]) : i \in 1..Len(queue[w]) \/ i = Len(queue[w]) + 1
          BY <4>1
        <4>3. ItemRight(item, dbHeaders')
          BY <1>0, <3>3 DEF HandedInv
        <4>4. QED
          BY <2>0, <3>1, <4>1, <4>2, <4>3
      <3>4. QED
        BY <1>0, <2>2, <3>2, <3>3, PushQueue
    <2>3. CASE WorkerStep
      <3>1. PICK v \in Workers :
              /\ \A u \in Workers \ {v} : queue'[u] = queue[u] /\ busy'[u] = busy[u]
              /\ \/ /\ queue[v] # <<>>
                    /\ queue'[v] = Tail(queue[v]) /\ busy'[v] = Head(queue[v])
                 \/ queue'[v] = queue[v] /\ busy'[v] = NoItem
        BY <2>3, WorkerLine
      <3>2. CASE w # v \/ (queue'[v] = queue[v] /\ busy'[v] = NoItem)
        BY <1>0, <2>0, <3>1, <3>2
      <3>3. CASE w = v /\ queue[w] # <<>> /\ queue'[w] = Tail(queue[w]) /\ busy'[w] = Head(queue[w])
        <4>1. /\ Len(queue[w]) \in Nat /\ Len(queue[w]) >= 1 /\ Head(queue[w]) = queue[w][1]
              /\ Len(Tail(queue[w])) = Len(queue[w]) - 1
              /\ \A i \in 1..Len(Tail(queue[w])) : Tail(queue[w])[i] = queue[w][i + 1]
          BY <1>0, <3>3, HeadTailProperties
        <4>2. 1 \in 1..Len(queue[w]) /\ \A i \in 1..Len(Tail(queue[w])) : i + 1 \in 1..Len(queue[w])
          BY <4>1
        <4>3. QED
          BY <2>0, <3>3, <4>1, <4>2
      <3>4. QED
        BY <3>1, <3>2, <3>3
    <2>4. CASE ~Push /\ ~WorkerStep /\ ~Crash /\ ~CrashInAppend
      <3>1. UNCHANGED <<queue, busy>>
        BY <2>4, LinesKept
      <3>2. QED
        BY <2>0, <3>1
    <2>5. QED
      BY <2>1, <2>2, <2>3, <2>4
  <1>3. QED
    BY <1>1, <1>2 DEF HandedInv

(* Every step of the node keeps: a saver saves right items only. *)
LEMMA ProgressStep ==
    ASSUME IndInv, HandedInv, ProgressInv, [Next]_vars, UNCHANGED synced
    PROVE  ProgressInv'
  <1>0. "main" \in Savers /\ dbHeaders \subseteq dbHeaders'
    BY HeadersGrow DEF Savers
  <1>1. CASE UNCHANGED saved
    BY <1>0, <1>1 DEF ProgressInv, SavedRight, MainHasParent
  <1>2. ASSUME NEW w \in Savers, WorkerSaves(w) PROVE ProgressInv'
    <2>1. /\ busy[w] # NoItem /\ saved'[w].number = busy[w].number /\ saved'[w].hash = busy[w].hash
          /\ \A v \in Savers \ {w} : saved'[v] = saved[v]
      BY <1>2, WorkerSaved
    <2>2. ItemRight(busy[w], dbHeaders)
      BY <2>1 DEF HandedInv
    <2>3. \A v \in Savers : SavedRight(saved'[v])
      BY <2>1, <2>2 DEF ProgressInv, SavedRight, ItemRight
    <2>4. saved'["main"].hash # NoHash => prevHash[saved'["main"].hash] \in dbHeaders' \cup {Genesis}
      BY <1>0, <2>1, <2>2 DEF ProgressInv, MainHasParent, ItemRight, HasParent
    <2>5. QED
      BY <2>3, <2>4 DEF ProgressInv, SavedRight, MainHasParent
  <1>3. UNCHANGED saved \/ \E w \in Savers : WorkerSaves(w)
    <2>1. Crash \/ CrashInAppend => saved' = saved
      BY ResetLines
    <2>2. StartWorkers => saved' = saved
      BY DEF StartWorkers
    <2>3. QED
      BY <2>1, <2>2, SavedFrom
  <1>4. QED
    BY <1>1, <1>2, <1>3

(* A step of the node keeps CarefulInv. *)
LEMMA NodeCareful ==
    ASSUME RootsRight, ServersAgree, PowerInv, PositionInv, CarefulInv, [Next]_vars, UNCHANGED synced
    PROVE  CarefulInv'
  <1> SUFFICES ASSUME NoBatchLost', FailedOnce' PROVE HandedInv' /\ ProgressInv'
    BY DEF CarefulInv
  <1>1. IndInv /\ LedgerInv
    BY DEF PowerInv
  <1>2. NoBatchLost
    BY <1>1, BatchesCounted DEF LedgerInv
  <1>3. FailedOnce
    <2>1. /\ budget["crash"] \in Nat /\ budget'["crash"] \in Nat /\ Budget["crash"] \in Nat
          /\ budget'["crash"] <= budget["crash"]
      BY <1>1, DeathsCounted, SyncAssumption DEF FaultKinds
    <2>2. QED
      BY <2>1 DEF FailedOnce
  <1>4. HandedInv /\ ProgressInv
    BY <1>2, <1>3 DEF CarefulInv
  <1>5. FetchInv /\ \E c : ChainState(c)
    BY <1>1, <1>2 DEF LedgerInv
  <1>6. PICK c : ChainState(c)
    BY <1>5
  <1>7. QED
    BY <1>1, <1>3, <1>4, <1>5, <1>6, HandedStep, ProgressStep

(* So does writing back. *)
LEMMA WriteBackCareful ==
    ASSUME PowerInv, CarefulInv, NEW store \in DOMAIN Stores, WriteBack(store)
    PROVE  CarefulInv'
  <1>1. /\ UNCHANGED vars
        /\ synced'.main = synced.main \/ synced'.main = MainStore
        /\ synced'.nodeTest = synced.nodeTest \/ synced'.nodeTest = saved["nodeTest"]
    BY WriteBackIs
  <1>2. UNCHANGED <<budget, pc, item, queue, busy, saved, dbHeaders>>
    BY <1>1 DEF vars, diskVars, feedVars, workerVars
  <1> SUFFICES ASSUME HandedInv, ProgressInv PROVE HandedInv' /\ ProgressInv'
    BY <1>2 DEF CarefulInv, NoBatchLost, FailedOnce
  <1>3. HandedInv'
    BY <1>2 DEF HandedInv, ItemRight, HasParent
  <1>4. "main" \in Savers /\ "nodeTest" \in Savers
    BY DEF Savers
  <1>5. /\ SavedRight(synced'.main.saved)
        /\ synced'.main.saved.hash # NoHash => HasParent(synced'.main.saved.hash, synced'.main.headers)
    <2>1. CASE synced'.main = synced.main
      BY <2>1 DEF ProgressInv
    <2>2. CASE synced'.main = MainStore
      <3>1. synced'.main.saved = saved["main"] /\ synced'.main.headers = dbHeaders
        BY <2>2, StoresFacts DEF PowerInv
      <3>2. QED
        BY <1>4, <3>1 DEF ProgressInv, MainHasParent, HasParent
    <2>3. QED
      BY <1>1, <2>1, <2>2
  <1>6. SavedRight(synced'.nodeTest)
    BY <1>1, <1>4 DEF ProgressInv
  <1>7. QED
    BY <1>2, <1>3, <1>5, <1>6 DEF ProgressInv, SavedRight, MainHasParent, HasParent

(* So does a power failure: the main worker is thrown back together with    *)
(* the headers.                                                             *)
LEMMA FailureCareful ==
    ASSUME PowerInv, CarefulInv, PowerFailure
    PROVE  CarefulInv'
  <1> SUFFICES ASSUME NoBatchLost', FailedOnce' PROVE HandedInv' /\ ProgressInv'
    BY DEF CarefulInv
  <1>1. /\ budget["crash"] \in Nat /\ Budget["crash"] \in Nat
        /\ budget'["crash"] = budget["crash"] - 1 /\ budget'["save"] = budget["save"]
    BY FailureIs, SyncAssumption DEF PowerInv, IndInv, TypeOK, FaultKinds
  <1>2. NoBatchLost /\ FailedOnce
    BY <1>1 DEF NoBatchLost, FailedOnce
  <1>3. ProgressInv
    BY <1>2 DEF CarefulInv
  <1>4. HandedInv'
    <2>1. \A w \in Savers : queue'[w] = <<>> /\ busy'[w] = NoItem
      BY FailureIs DEF Savers, Workers
    <2>2. QED
      BY <2>1, FailureIs DEF HandedInv
  <1>5. /\ saved'["main"] = synced.main.saved /\ saved'["nodeTest"] = synced.nodeTest
        /\ dbHeaders' = synced.main.headers /\ synced' = synced
    BY FailureIs
  <1>6. \A w \in Savers : SavedRight(saved'[w])
    BY <1>3, <1>5 DEF ProgressInv, Savers
  <1>7. saved'["main"].hash # NoHash => prevHash[saved'["main"].hash] \in dbHeaders' \cup {Genesis}
    BY <1>3, <1>5 DEF ProgressInv, HasParent
  <1>8. QED
    BY <1>3, <1>4, <1>5, <1>6, <1>7 DEF ProgressInv, SavedRight, MainHasParent, HasParent

(* CarefulInv holds in every reachable state. *)
LEMMA CarefulInductive ==
    ASSUME RootsRight, ServersAgree
    PROVE  PowerSpec => [](PowerInv /\ CarefulInv)
  <1>1. PowerInit => CarefulInv
    <2> SUFFICES ASSUME PowerInit PROVE HandedInv /\ ProgressInv
      BY DEF CarefulInv
    <2>1. Init /\ synced = Stores /\ IndInv
      BY InitInd DEF PowerInit
    <2>2. /\ pc = "start" /\ \A w \in Savers : queue[w] = <<>> /\ busy[w] = NoItem
          /\ \A w \in Savers : saved[w].number = 0 /\ saved[w].hash = NoHash
          /\ "main" \in Savers /\ "nodeTest" \in Savers
      BY <2>1 DEF Init, InitDisk, InitThreads, Savers, Workers
    <2>3. synced.main.saved = saved["main"] /\ synced.nodeTest = saved["nodeTest"]
      BY <2>1, StoresFacts
    <2>4. HandedInv
      BY <2>2 DEF HandedInv
    <2>5. ProgressInv
      BY <2>2, <2>3 DEF ProgressInv, SavedRight, MainHasParent
    <2>6. QED
      BY <2>4, <2>5
  <1>2. PowerInv /\ PositionInv /\ CarefulInv /\ [PowerNext]_powerVars => CarefulInv'
    BY NodeCareful, WriteBackCareful, FailureCareful DEF PowerNext, NodeRuns, powerVars
  <1>3. QED
    BY <1>1, <1>2, PositionInductive, PTL DEF PowerSpec

(* When no server offers a stray block 1 and all servers answer with one    *)
(* block for a number, a power failure leaves a chain and a main worker     *)
(* that is not ahead of it by more than one block, whatever had been        *)
(* written back of the three stores; with block files, as long as the       *)
(* process has died at most once.                                           *)
THEOREM PowerLeavesChain ==
    ASSUME RootsRight, ServersAgree
    PROVE  PowerSpec => [](NoBatchLost /\ FailedOnce => LeftIsChain)
  <1>1. PowerInv /\ CarefulInv => (NoBatchLost /\ FailedOnce => LeftIsChain)
    <2> SUFFICES ASSUME PowerInv, CarefulInv, NoBatchLost, FailedOnce PROVE LeftIsChain
      OBVIOUS
    <2>1. DbIsChain /\ HeadersLinked
      BY StoredHolds, HeadersHold DEF PowerInv
    <2>2. MainHasParent
      BY DEF CarefulInv, ProgressInv
    <2>3. QED
      BY <2>1, <2>2 DEF LeftIsChain
  <1>2. QED
    BY <1>1, CarefulInductive, PTL

(* Under the same conditions what a worker has saved is the block of the    *)
(* chain with that number, also when a power failure has thrown the worker  *)
(* and the chain back to different blocks.                                  *)
THEOREM PowerSavedOnChain ==
    ASSUME RootsRight, ServersAgree
    PROVE  PowerSpec => [](NoBatchLost /\ FailedOnce => WorkersOnChain)
  <1>1. PowerInv /\ CarefulInv => (NoBatchLost /\ FailedOnce => WorkersOnChain)
    <2> SUFFICES ASSUME PowerInv, CarefulInv, NoBatchLost, FailedOnce,
                        NEW w \in Savers, saved[w].number \in 1..CountBlocks
                 PROVE  saved[w].hash = hashes[saved[w].number + 1]
      BY DEF WorkersOnChain
    <2>1. IndInv /\ \E c : ChainState(c)
      BY DEF PowerInv, LedgerInv
    <2>2. PICK c : ChainState(c)
      BY <2>1
    <2>3. hashes[saved[w].number + 1] \in Answers[saved[w].number]
      BY <2>1, <2>2, ChainAnswers
    <2>4. saved[w].number \in 1..MaxBlock /\ saved[w].hash \in Answers[saved[w].number]
      <3>1. SavedRight(saved[w])
        BY DEF CarefulInv, ProgressInv
      <3>2. saved[w].number # 0
        BY <2>1, WorkFacts
      <3>3. QED
        BY <3>1, <3>2 DEF SavedRight
    <2>5. QED
      BY <2>3, <2>4, ServersAgree DEF ServersAgree
  <1>2. QED
    BY <1>1, CarefulInductive, PTL
=============================================================================
