-------------------------------- MODULE Sync --------------------------------
(***************************************************************************)
(* The synchronisation thread of the node (SyncImpl::synchronize), the     *)
(* worker threads it feeds, and what they leave on disk.                   *)
(*                                                                         *)
(* The thread loads the headers of the data base, rebuilds the chain, lets *)
(* the workers catch up with it, and then asks the network for new blocks  *)
(* for ever.  A new block is appended to the block file, added to the      *)
(* in-memory chain, handed to every worker and at last saved to the data   *)
(* base: four separate effects, with nothing that makes them one.          *)
(*                                                                         *)
(* A dump in the block file is one element of the sequence `file`, a file  *)
(* position an index into it.  Faults come out of a budget, so that a run  *)
(* states which of them can happen and how often.                          *)
(***************************************************************************)
EXTENDS BlockChain

CONSTANTS MaxBlock,     \* the highest block number the servers know
          Answers,      \* the blocks a server may answer for a block number
          signs,        \* the hashes that a block's sign transactions carry
          Validate,     \* option validate
          SaveToFiles,  \* isSaveBlockToFiles: module block_raw is on
          NodeTestOn,   \* module node_tests is on
          CacheSize,    \* maxCountElementsBlockCache
          Budget,       \* how many faults of each kind may happen
          MaxFile       \* bound of the model: dumps the block file may hold

FaultKinds == {"net", "cut", "save", "worker", "crash"}

ASSUME SyncAssumption ==
    /\ MaxBlock \in Nat
    /\ Answers \in [1..MaxBlock -> SUBSET Blocks]
    /\ signs \in [Blocks -> SUBSET Hashes]
    /\ Validate \in BOOLEAN
    /\ SaveToFiles \in BOOLEAN
    /\ NodeTestOn \in BOOLEAN
    /\ CacheSize \in Nat
    /\ Budget \in [FaultKinds -> Nat]
    /\ MaxFile \in Nat

Workers   == {"cache", "main", "nodeTest"}
Savers    == {"main", "nodeTest"}      \* the workers that save their progress
workers   == IF NodeTestOn THEN <<"cache", "main", "nodeTest">>
                           ELSE <<"cache", "main">>
QueueSize == [w \in Workers |-> IF w = "cache" THEN 3 ELSE 1]

NoBlock   == 0                          \* a null BlockInfo pointer
Torn      == 0                          \* a dump in the file that was cut short
Items     == [hash : Blocks, number : Nat]
NoItem    == [hash |-> NoBlock, number |-> 0]

VARIABLES
    (* on disk *)
    file,         \* the block file: a sequence of dumps
    dbHeaders,    \* the hashes whose header the data base holds
    dbPos,        \* filePos of those headers
    dbMeta,       \* BlocksMetadata: the last block and its parent
    saved,        \* MainBlockInfo and NodeStatBlockInfo of the two savers
    (* the synchronisation thread *)
    pc,           \* where it is in synchronize
    prevBi,       \* the block being handled
    nextBi,       \* validate: the block after it, which confirms it
    pos,          \* prevBi->header.filePos.pos
    item,         \* the block handed to the workers, with its number
    feedTo,       \* the workers that still have to get it
    retryNum,     \* the loop variable of the catching-up loop
    known,        \* lastBlockInBlockchain
    nextNum,      \* nextBlockToRead
    (* the workers *)
    lastSaved,    \* lastSavedBlock, initializeScriptBlockNumber
    queue,        \* the bounded queue in front of each worker
    busy,         \* the element each worker has popped
    dumpCache,    \* blockDumpCache, filled by WorkerCache
    (* the environment *)
    budget        \* the faults that may still happen

diskVars   == <<file, dbHeaders, dbPos, dbMeta>>
sourceVars == <<known, nextNum>>
biVars     == <<prevBi, nextBi, pos>>
feedVars   == <<item, feedTo, retryNum>>
workerVars == <<queue, busy, dumpCache>>
vars == <<chainVars, diskVars, sourceVars, biVars, feedVars, workerVars,
          saved, lastSaved, pc, budget>>

Pcs == {"start", "loadCalc", "workers", "retry", "retryFeed", "poll", "fetch",
        "append", "add", "addCalc", "remove", "feed", "save", "dead"}

Goto(label) == pc' = label

Spend(kind) ==
    /\ budget[kind] > 0
    /\ budget' = [budget EXCEPT ![kind] = @ - 1]

-----------------------------------------------------------------------------
(* Nothing is on disk. *)
InitDisk ==
    /\ file = <<>>
    /\ dbHeaders = {}
    /\ dbPos = [h \in Hashes |-> 0]
    /\ dbMeta = [blockHash |-> NoHash, prevBlockHash |-> NoHash]
    /\ saved = [w \in Savers |-> [number |-> 0, hash |-> NoHash]]

InitThreads ==
    /\ pc = "start"
    /\ prevBi = NoBlock
    /\ nextBi = NoBlock
    /\ pos = 0
    /\ item = NoItem
    /\ feedTo = <<>>
    /\ retryNum = 0
    /\ known = 0
    /\ nextNum = 0
    /\ lastSaved = [w \in Savers |-> 0]
    /\ queue = [w \in Workers |-> <<>>]
    /\ busy = [w \in Workers |-> NoItem]
    /\ dumpCache = {}
    /\ budget = Budget

Init == InitBlockChain /\ InitDisk /\ InitThreads

-----------------------------------------------------------------------------
(* synchronize, up to the workers: rebuild the chain from the data base. *)

Load ==
    /\ pc = "start"
    /\ LoadHeaders(dbHeaders, dbPos)
    /\ IF dbMeta.blockHash = NoHash
       THEN CalcEnd /\ Goto("workers")
       ELSE /\ CalcBegin(dbMeta.blockHash)
            /\ Goto(IF dbMeta.blockHash \in blocks' THEN "loadCalc" ELSE "dead")
    /\ UNCHANGED <<diskVars, sourceVars, biVars, feedVars, workerVars,
                   saved, lastSaved, budget>>

Walk ==
    /\ pc \in {"loadCalc", "addCalc"}
    /\ CalcWalk
    /\ UNCHANGED <<diskVars, sourceVars, biVars, feedVars, workerVars,
                   saved, lastSaved, pc, budget>>

LoadDone ==
    /\ pc = "loadCalc"
    /\ CalcReturn
    /\ Goto("workers")
    /\ UNCHANGED <<diskVars, sourceVars, biVars, feedVars, workerVars,
                   saved, lastSaved, budget>>

(* The exception ends synchronize: main waits for the requests and returns. *)
LoadThrows ==
    /\ pc = "loadCalc"
    /\ CalcThrow
    /\ Goto("dead")
    /\ UNCHANGED <<diskVars, sourceVars, biVars, feedVars, workerVars,
                   saved, lastSaved, budget>>

-----------------------------------------------------------------------------
(* The workers start, each from the block it saved last, and get again the  *)
(* blocks of the chain that it has not saved.                               *)

Running == {workers[i] : i \in 1..Len(workers)}

\* Variant: the worker that is ahead decides.
MaxSaved(s) ==
    IF NodeTestOn /\ s["nodeTest"].number > s["main"].number
    THEN s["nodeTest"].number ELSE s["main"].number

MinSaved(s) ==
    IF NodeTestOn /\ s["nodeTest"].number < s["main"].number
    THEN s["nodeTest"].number ELSE s["main"].number

StartWorkers ==
    /\ pc = "workers"
    /\ lastSaved' = [w \in Savers |-> saved[w].number]
    /\ retryNum' = MinSaved(saved) + 1
    /\ Goto("retry")
    /\ UNCHANGED <<chainVars, diskVars, sourceVars, biVars, item, feedTo,
                   workerVars, saved, budget>>

(* Those whose getInitBlockNumber is below n, in the order of `workers`. *)
Behind(n) ==
    (IF lastSaved["main"] < n THEN <<"main">> ELSE <<>>) \o
    (IF NodeTestOn /\ lastSaved["nodeTest"] < n THEN <<"nodeTest">> ELSE <<>>)

(* A whole dump lies at the position of the header.  Nobody looks whose. *)
Readable(h) ==
    /\ SaveToFiles
    /\ filePos[h] \in 1..Len(file)
    /\ file[filePos[h]] # Torn

\* Variant: the block is handed on under the number after its own.
OfferLate(b, n) ==
    /\ item' = [hash |-> b, number |-> n + 1]
    /\ feedTo' = Behind(n)
    /\ Goto("retryFeed")

Offer(b, n) ==
    /\ item' = [hash |-> b, number |-> n]
    /\ feedTo' = Behind(n)
    /\ Goto("retryFeed")

(* FileBlockSource::getExistingBlockS *)
RetryFromFile ==
    /\ pc = "retry"
    /\ retryNum <= CountBlocks
    /\ Readable(hashes[retryNum + 1])
    /\ Offer(file[filePos[hashes[retryNum + 1]]], retryNum)
    /\ UNCHANGED <<chainVars, diskVars, sourceVars, biVars, retryNum,
                   workerVars, saved, lastSaved, budget>>

(* getBlockAlgorithm->getExistingBlock: the server is asked by number, and  *)
(* its answer is not compared with the header that is being caught up.      *)
RetryFromNetwork ==
    /\ pc = "retry"
    /\ retryNum <= CountBlocks
    /\ ~Readable(hashes[retryNum + 1])
    /\ retryNum <= MaxBlock
    /\ \E b \in Answers[retryNum] : Offer(b, retryNum)
    /\ UNCHANGED <<chainVars, diskVars, sourceVars, biVars, retryNum,
                   workerVars, saved, lastSaved, budget>>

RetryThrows ==
    /\ pc = "retry"
    /\ retryNum <= CountBlocks
    /\ ~Readable(hashes[retryNum + 1])
    /\ Spend("net")
    /\ Goto("dead")
    /\ UNCHANGED <<chainVars, diskVars, sourceVars, biVars, feedVars,
                   workerVars, saved, lastSaved>>

RetryDone ==
    /\ pc = "retry"
    /\ retryNum > CountBlocks
    /\ Goto("poll")
    /\ UNCHANGED <<chainVars, diskVars, sourceVars, biVars, feedVars,
                   workerVars, saved, lastSaved, budget>>

-----------------------------------------------------------------------------
(* worker->process for the workers of feedTo, in their order. *)

(* WorkerMain::process drops what its worker had saved when it started. *)
Unwanted(w) == w = "main" /\ item.number <= lastSaved[w]

\* Variant: one element too many.
HasRoomForOneMore(w) == Len(queue[w]) <= QueueSize[w]

HasRoom(w) == Len(queue[w]) < QueueSize[w]

Push ==
    /\ pc \in {"feed", "retryFeed"}
    /\ feedTo # <<>>
    /\ LET w == Head(feedTo)
       IN \/ /\ Unwanted(w)
             /\ UNCHANGED queue
          \/ /\ ~Unwanted(w)
             /\ HasRoom(w)
             /\ queue' = [queue EXCEPT ![w] = Append(@, item)]
    /\ feedTo' = Tail(feedTo)
    /\ UNCHANGED <<chainVars, diskVars, sourceVars, biVars, item, retryNum,
                   busy, dumpCache, saved, lastSaved, pc, budget>>

Fed ==
    /\ pc \in {"feed", "retryFeed"}
    /\ feedTo = <<>>
    /\ item' = NoItem
    /\ IF pc = "feed"
       THEN Goto("save") /\ UNCHANGED retryNum
       ELSE Goto("retry") /\ retryNum' = retryNum + 1
    /\ UNCHANGED <<chainVars, diskVars, sourceVars, biVars, feedTo,
                   workerVars, saved, lastSaved, budget>>

-----------------------------------------------------------------------------
(* The endless loop: ask for the last block, then take block after block.  *)
(* Every exception leads back to Poll.                                     *)

Again == Goto("poll") /\ prevBi' = NoBlock /\ nextBi' = NoBlock /\ pos' = 0

\* Variant: nextBlockToRead is set once only.
PollGoesOn(last) ==
    /\ pc = "poll"
    /\ nextNum' = IF nextNum = 0 THEN CountBlocks + 1 ELSE nextNum
    /\ known' = last
    /\ IF last >= nextNum' THEN Goto("fetch") ELSE Goto("poll")
    /\ UNCHANGED <<chainVars, diskVars, biVars, feedVars, workerVars,
                   saved, lastSaved, budget>>

\* Variant: the genesis block is counted as well.
PollSkipsOne(last) ==
    /\ pc = "poll"
    /\ nextNum' = CountBlocks + 2
    /\ known' = last
    /\ IF last >= nextNum' THEN Goto("fetch") ELSE Goto("poll")
    /\ UNCHANGED <<chainVars, diskVars, biVars, feedVars, workerVars,
                   saved, lastSaved, budget>>

(* doProcess; the answer is the largest one among the servers that answer. *)
Poll(last) ==
    /\ pc = "poll"
    /\ nextNum' = CountBlocks + 1
    /\ known' = last
    /\ IF last >= nextNum' THEN Goto("fetch") ELSE Goto("poll")
    /\ UNCHANGED <<chainVars, diskVars, biVars, feedVars, workerVars,
                   saved, lastSaved, budget>>

PollThrows ==
    /\ pc = "poll"
    /\ Spend("net")
    /\ nextNum' = CountBlocks + 1
    /\ UNCHANGED <<chainVars, diskVars, known, biVars, feedVars, workerVars,
                   saved, lastSaved, pc>>

\* Variant: being the child of prevBi is enough.
ConfirmedAsChild(b) == prevHash[b] = prevBi

(* Every sign transaction of the next block must carry prevBi's hash. *)
Confirmed(b) == signs[b] \subseteq {prevBi}

(* process, and what the loop makes of the block it returns.  With the      *)
(* option validate a block waits until the next one confirms it.            *)
Fetch(b) ==
    /\ pc = "fetch"
    /\ nextNum <= known
    /\ b \in Answers[nextNum]
    /\ nextNum' = nextNum + 1
    /\ \/ /\ ~Validate
          /\ prevBi' = b
          /\ Goto("append")
          /\ UNCHANGED <<nextBi, pos>>
       \/ /\ Validate /\ prevBi = NoBlock
          /\ prevBi' = b
          /\ UNCHANGED <<nextBi, pos, pc>>
       \/ /\ Validate /\ prevBi # NoBlock /\ Confirmed(b)
          /\ nextBi' = b
          /\ Goto("append")
          /\ UNCHANGED <<prevBi, pos>>
       \/ /\ Validate /\ prevBi # NoBlock /\ ~Confirmed(b)
          /\ Again
    /\ UNCHANGED <<chainVars, diskVars, known, feedVars, workerVars,
                   saved, lastSaved, budget>>

FetchEnds ==
    /\ pc = "fetch"
    /\ nextNum > known
    /\ Again
    /\ UNCHANGED <<chainVars, diskVars, sourceVars, feedVars, workerVars,
                   saved, lastSaved, budget>>

FetchThrows ==
    /\ pc = "fetch"
    /\ nextNum <= known
    /\ Spend("net")
    /\ Again
    /\ UNCHANGED <<chainVars, diskVars, sourceVars, feedVars, workerVars,
                   saved, lastSaved>>

\* Variant: the position after the write.
AppendPosAfter == Len(file) + 2

(* saveBlockToFileBinary returns the position before the write. *)
AppendPos == Len(file) + 1

(* saveTransactions.  The stream is not looked at after the write: a dump   *)
(* that was cut short is taken for a dump.                                  *)
SaveTransactions(dump) ==
    /\ pc = "append"
    /\ Len(file) < MaxFile
    /\ IF SaveToFiles
       THEN file' = Append(file, dump) /\ pos' = AppendPos
       ELSE file' = file /\ pos' = 0
    /\ Goto("add")
    /\ UNCHANGED <<chainVars, dbHeaders, dbPos, dbMeta, sourceVars, prevBi,
                   nextBi, feedVars, workerVars, saved, lastSaved>>

AppendDump == SaveTransactions(prevBi) /\ UNCHANGED budget
AppendCut  == SaveToFiles /\ SaveTransactions(Torn) /\ Spend("cut")

(* addBlock: the block must be new ... *)
AddNew ==
    /\ pc = "add"
    /\ AddWithoutCalc(prevBi, pos)
    /\ CalcBegin(prevBi)
    /\ Goto("addCalc")
    /\ UNCHANGED <<diskVars, sourceVars, biVars, feedVars, workerVars,
                   saved, lastSaved, budget>>

\* Variant: the block that is there already is taken back with the new one.
AddKnownRemoves ==
    /\ pc = "add"
    /\ prevBi \in blocks
    /\ RemoveBlock(prevBi)
    /\ Again
    /\ UNCHANGED <<diskVars, sourceVars, feedVars, workerVars,
                   saved, lastSaved, budget>>

AddKnown ==
    /\ pc = "add"
    /\ prevBi \in blocks
    /\ Again
    /\ UNCHANGED <<chainVars, diskVars, sourceVars, feedVars, workerVars,
                   saved, lastSaved, budget>>

(* ... and get the next number, which must not be 0. *)
AddDone ==
    /\ pc = "addCalc"
    /\ CalcReturn
    /\ IF AllNum = 0
       THEN Again /\ UNCHANGED <<item, feedTo>>
       ELSE /\ item' = [hash |-> prevBi, number |-> AllNum]
            /\ feedTo' = workers
            /\ Goto("feed")
            /\ UNCHANGED biVars
    /\ UNCHANGED <<diskVars, sourceVars, retryNum, workerVars,
                   saved, lastSaved, budget>>

AddThrows ==
    /\ pc = "addCalc"
    /\ CalcThrow
    /\ Goto("remove")
    /\ UNCHANGED <<diskVars, sourceVars, biVars, feedVars, workerVars,
                   saved, lastSaved, budget>>

Remove ==
    /\ pc = "remove"
    /\ RemoveBlock(prevBi)
    /\ Again
    /\ UNCHANGED <<diskVars, sourceVars, feedVars, workerVars,
                   saved, lastSaved, budget>>

\* Variant: the lesser hash wins whatever the parents are.
NewMetaLeast(b) ==
    [prevBlockHash |-> prevHash[b],
     blockHash |-> IF dbMeta.blockHash # NoHash /\ dbMeta.blockHash < b
                   THEN dbMeta.blockHash ELSE b]

(* saveBlockToLeveldb: the header and the metadata in one batch.  Of two    *)
(* blocks with one parent the metadata names the one with the lesser hash.  *)
NewMeta(b) ==
    [prevBlockHash |-> prevHash[b],
     blockHash |-> IF dbMeta.prevBlockHash = prevHash[b] /\ dbMeta.blockHash < b
                   THEN dbMeta.blockHash ELSE b]

SaveBlock ==
    /\ pc = "save"
    /\ dbHeaders' = dbHeaders \cup {prevBi}
    /\ dbPos' = [dbPos EXCEPT ![prevBi] = pos]
    /\ dbMeta' = NewMeta(prevBi)
    /\ prevBi' = IF Validate THEN nextBi ELSE prevBi
    /\ nextBi' = NoBlock
    /\ pos' = 0
    /\ Goto("fetch")
    /\ UNCHANGED <<chainVars, file, sourceVars, feedVars, workerVars,
                   saved, lastSaved, budget>>

(* The batch fails.  The block stays on the chain and with the workers. *)
SaveThrows ==
    /\ pc = "save"
    /\ Spend("save")
    /\ Again
    /\ UNCHANGED <<chainVars, diskVars, sourceVars, feedVars, workerVars,
                   saved, lastSaved>>

-----------------------------------------------------------------------------
(* The worker threads *)

Pop(w) ==
    /\ busy[w] = NoItem
    /\ queue[w] # <<>>
    /\ busy' = [busy EXCEPT ![w] = Head(queue[w])]
    /\ queue' = [queue EXCEPT ![w] = Tail(@)]
    /\ UNCHANGED <<chainVars, diskVars, sourceVars, biVars, feedVars,
                   dumpCache, saved, lastSaved, pc, budget>>

Finish(w) ==
    /\ busy[w] # NoItem
    /\ busy' = [busy EXCEPT ![w] = NoItem]
    /\ UNCHANGED <<chainVars, diskVars, sourceVars, biVars, feedVars, queue,
                   lastSaved, pc>>

(* A block that the worker has saved is passed over. *)
Old(w) == busy[w].number <= saved[w].number

\* Variant: without the assertion on the parent.
FitsAlways(w) == TRUE

Fits(w) ==
    \/ saved[w].hash = NoHash
    \/ saved[w].hash = prevHash[busy[w].hash]

WorkerSkips(w) ==
    /\ Finish(w)
    /\ Old(w)
    /\ UNCHANGED <<dumpCache, saved, budget>>

(* The assertion on the parent fails; the block is lost to this worker. *)
WorkerRejects(w) ==
    /\ Finish(w)
    /\ ~Old(w)
    /\ ~Fits(w)
    /\ UNCHANGED <<dumpCache, saved, budget>>

WorkerSaves(w) ==
    /\ Finish(w)
    /\ ~Old(w)
    /\ Fits(w)
    /\ saved' = [saved EXCEPT ![w] = [number |-> busy[w].number,
                                      hash |-> busy[w].hash]]
    /\ UNCHANGED <<dumpCache, budget>>

(* Any other exception (a failing batch, first of all). *)
WorkerThrows(w) ==
    /\ Finish(w)
    /\ ~Old(w)
    /\ Spend("worker")
    /\ UNCHANGED <<dumpCache, saved>>

\* Variant: the eviction comes one block late.
EvictedLate(n) == n - CacheSize - 1

(* (Below block CacheSize the unsigned difference of the code wraps around  *)
(* to a number that no block has, as the negative one here has none.)       *)
Evicted(n) == n - CacheSize

(* WorkerCache: the block enters under its number, the block CacheSize      *)
(* numbers below leaves.                                                    *)
CacheBlock ==
    /\ Finish("cache")
    /\ dumpCache' = IF CacheSize = 0 THEN dumpCache
                    ELSE {c \in dumpCache \cup {busy["cache"]} :
                            c.number # Evicted(busy["cache"].number)}
    /\ UNCHANGED <<saved, budget>>

SaverThread(w) ==
    Pop(w) \/ WorkerSkips(w) \/ WorkerRejects(w) \/ WorkerSaves(w) \/ WorkerThrows(w)

CacheThread == Pop("cache") \/ CacheBlock

WorkerStep == CacheThread \/ \E w \in Savers : SaverThread(w)

-----------------------------------------------------------------------------
(* The process is killed, or stopped, and started again: what is in memory  *)
(* is lost.                                                                 *)

Reset ==
    /\ Goto("start")
    /\ blocks' = {Genesis}
    /\ blockNumber' = [h \in Hashes |-> IF h = Genesis THEN 0 ELSE NoNumber]
    /\ filePos' = [h \in Hashes |-> 0]
    /\ hashes' = <<Genesis>>
    /\ bh' = Genesis
    /\ processedBlocks' = <<>>
    /\ prevBi' = NoBlock
    /\ nextBi' = NoBlock
    /\ pos' = 0
    /\ item' = NoItem
    /\ feedTo' = <<>>
    /\ retryNum' = 0
    /\ known' = 0
    /\ nextNum' = 0
    /\ lastSaved' = [w \in Savers |-> 0]
    /\ queue' = [w \in Workers |-> <<>>]
    /\ busy' = [w \in Workers |-> NoItem]
    /\ dumpCache' = {}

Restart ==
    /\ Spend("crash")
    /\ Reset
    /\ UNCHANGED <<dbHeaders, dbPos, dbMeta, saved>>

Crash == pc # "start" /\ Restart /\ UNCHANGED file

(* In the middle of the append, a part of the dump is in the file. *)
CrashInAppend ==
    /\ pc = "append"
    /\ SaveToFiles
    /\ Len(file) < MaxFile
    /\ Restart
    /\ file' = Append(file, Torn)

-----------------------------------------------------------------------------
SyncStep ==
    \/ Load \/ Walk \/ LoadDone \/ LoadThrows \/ StartWorkers
    \/ RetryFromFile \/ RetryFromNetwork \/ RetryThrows \/ RetryDone
    \/ Push \/ Fed
    \/ \E last \in 0..MaxBlock : Poll(last)
    \/ PollThrows
    \/ \E b \in Blocks : Fetch(b)
    \/ FetchEnds \/ FetchThrows
    \/ AppendDump \/ AppendCut
    \/ AddNew \/ AddKnown \/ AddDone \/ AddThrows \/ Remove
    \/ SaveBlock \/ SaveThrows

Next == SyncStep \/ WorkerStep \/ Crash \/ CrashInAppend

Spec == Init /\ [][Next]_vars

(* The threads run on; the servers, asked again and again, name their last  *)
(* block in the end.                                                        *)
Fairness ==
    /\ WF_vars(SyncStep)
    /\ SF_vars(Poll(MaxBlock))
    /\ \A w \in Savers : WF_vars(SaverThread(w))
    /\ WF_vars(CacheThread)

FairSpec == Spec /\ Fairness

-----------------------------------------------------------------------------
MetaType  == [blockHash : Hashes \cup {NoHash}, prevBlockHash : Hashes \cup {NoHash}]
SavedType == [number : Nat, hash : Hashes \cup {NoHash}]

(* Every variable has its type; the queues of BlockedQueue stay within      *)
(* their template argument.                                                 *)
TypeOK ==
    /\ BlockChainTypeOK
    /\ file \in Seq(Blocks \cup {Torn})
    /\ dbHeaders \subseteq Blocks
    /\ dbPos \in [Hashes -> Nat]
    /\ dbMeta \in MetaType
    /\ saved \in [Savers -> SavedType]
    /\ pc \in Pcs
    /\ prevBi \in Blocks \cup {NoBlock}
    /\ nextBi \in Blocks \cup {NoBlock}
    /\ pos \in Nat
    /\ item \in Items \cup {NoItem}
    /\ feedTo \in Seq(Workers)
    /\ retryNum \in Nat
    /\ known \in Nat
    /\ nextNum \in Nat
    /\ lastSaved \in [Savers -> Nat]
    /\ queue \in [Workers -> Seq(Items)]
    /\ \A w \in Workers : Len(queue[w]) <= QueueSize[w]
    /\ busy \in [Workers -> Items \cup {NoItem}]
    /\ dumpCache \subseteq Items
    /\ budget \in [FaultKinds -> Nat]

-----------------------------------------------------------------------------
DumpAt(h, p) ==
    /\ p \in 1..Len(file)
    /\ \/ file[p] = h
       \/ file[p] = Torn /\ budget["cut"] < Budget["cut"]

(* Where a header says that the dump of its block lies, in memory as in the *)
(* data base, there lies that dump, or what a cut write left of it, and     *)
(* never the dump of another block: filePos set in saveTransactions stays   *)
(* right through retries, repeated appends and restarts.                    *)
DumpNeverWrong ==
    SaveToFiles => /\ \A h \in blocks \ {Genesis} : DumpAt(h, filePos[h])
                   /\ \A h \in dbHeaders : DumpAt(h, dbPos[h])

InHand == {"append", "add", "addCalc"}

(* The block in hand is an answer for the number that it is to get, however *)
(* the fetching was interrupted: nextBlockToRead and the chain keep step.   *)
AskedForThatNumber ==
    pc \in InHand => /\ CountBlocks + 1 \in 1..MaxBlock
                     /\ prevBi \in Answers[CountBlocks + 1]

(* With validate, the sign transactions of the block fetched after the one  *)
(* in hand, if it has any, carry the hash of the one in hand, from the      *)
(* comparison to the end of saveBlockToLeveldb.                             *)
InHandConfirmed ==
    Validate /\ pc \in InHand \cup {"remove", "feed", "save"} =>
        nextBi # NoBlock /\ signs[nextBi] \subseteq {prevBi}

Loaded == pc \notin {"start", "loadCalc", "dead"}

StoredLen == IF pc \in {"feed", "save"} THEN Len(hashes) - 1 ELSE Len(hashes)

(* Once the chain is rebuilt, the data base holds exactly the blocks of the *)
(* chain, but for the one that is on its way to it, and its metadata names  *)
(* the last of them: no crash between the append, addBlock, the workers and *)
(* saveBlockToLeveldb loses a block or leaves one behind.                   *)
DbIsChain ==
    Loaded => /\ dbHeaders = {hashes[i] : i \in 2..StoredLen}
              /\ StoredLen > 1 => dbMeta.blockHash = hashes[StoredLen]

(* What a worker has saved is the block of the chain with that number, also *)
(* when the worker was ahead of the data base at a crash.                   *)
WorkersOnChain ==
    Loaded => \A w \in Savers :
                 saved[w].number \in 1..CountBlocks =>
                     saved[w].hash = hashes[saved[w].number + 1]

(* The cache worker never holds more than maxCountElementsBlockCache dumps, *)
(* and each of them under the number its block has in the chain.            *)
CacheWithinLimit ==
    /\ \A c \in dumpCache : /\ c.number \in 1..CountBlocks
                            /\ hashes[c.number + 1] = c.hash
    /\ \A c, d \in dumpCache : c.number < d.number + CacheSize

(* A worker goes from the block it saved to a child of that block with the  *)
(* next number: a block that a worker lost is never jumped over.  Only a    *)
(* worker that has saved nothing and lost its first block to an exception   *)
(* begins in the middle: the assertion on the parent lets it.               *)
WorkersLeaveNoGap ==
    [][\A w \in Savers :
          \/ saved'[w] = saved[w]
          \/ /\ saved[w].hash = NoHash
             /\ saved'[w].number = 1 \/ budget["worker"] < Budget["worker"]
          \/ /\ saved'[w].number = saved[w].number + 1
             /\ prevHash[saved'[w].hash] = saved[w].hash]_vars

(* As long as the process runs, what getBlock(n) returns once stays what it *)
(* returns: neither a rejected block, nor a known one that is offered again *)
(* under another file position, nor calcBlockchain changes the number, the  *)
(* hash or the file position of a header that clients have read.            *)
ServedHeadersStable ==
    [][pc # "start" /\ pc' # "start" =>
          \A i \in 1..Len(hashes) :
              /\ i <= Len(hashes')
              /\ hashes'[i] = hashes[i]
              /\ hashes[i] \in blocks'
              /\ blockNumber'[hashes[i]] = i - 1
              /\ filePos'[hashes[i]] = filePos[hashes[i]]]_vars

(* The rebuilding of the chain at start meets the assertion of              *)
(* calcBlockchain: the numbers of the stored blocks go on from the genesis  *)
(* block without a gap.                                                     *)
LoadedChainFits ==
    pc = "loadCalc" /\ blockNumber[bh] # NoNumber => NumberFits

Target == IF Validate THEN MaxBlock - 1 ELSE MaxBlock

CaughtUp ==
    /\ CountBlocks = Target
    /\ \A w \in Savers \cap Running : saved[w].number = Target

Happened(kind) == budget[kind] < Budget[kind]

(* The faults after which synchronize may have ended, or have taken an      *)
(* orphan for block 1: a restart after a failed batch of saveBlockToLeveldb *)
(* (run sync_lost_save), or a request that fails while the workers catch up *)
(* with a block whose dump is not in the file.                              *)
MayHaveEnded ==
    /\ Happened("crash")
    /\ \/ Happened("save")
       \/ Happened("net") /\ (Happened("cut") \/ ~SaveToFiles)

(* The chain ends up with all the blocks that the servers have (with        *)
(* validate the last one waits for its successor) and stays there, whatever *)
(* finitely many faults happen but those of MayHaveEnded: a failed batch    *)
(* holds nothing up while the process lives, a restart nothing while no     *)
(* batch has failed, a cut dump nothing while the servers answer.  So does  *)
(* every worker, unless one of its own batches failed: the worker then      *)
(* refuses all later blocks until a restart feeds it the lost one.          *)
EventuallyCaughtUp ==
    <>[](\/ MayHaveEnded
         \/ /\ CountBlocks = Target
            /\ Happened("worker") \/ CaughtUp)
-----------------------------------------------------------------------------
(* What the data base promises: the chain it holds only grows, at its end,  *)
(* across crashes as well.                                                  *)
L == INSTANCE Ledger WITH
        tip <- IF dbMeta.blockHash = NoHash THEN Genesis ELSE dbMeta.blockHash,
        stored <- dbHeaders

(* The node implements the ledger. *)
LedgerSpec == L!Spec
=============================================================================
