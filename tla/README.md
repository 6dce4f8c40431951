# A verification of the metahash torrent node

The repository is the torrent node of the metahash network: it fetches the
blocks of the chain from other nodes, keeps them in block files and a LevelDB
data base, and serves them over HTTP.  This directory models the parts of it
that carry state, checks them with TLC on small instances and proves theorems
about them with TLAPS for instances of any size.  All source paths are relative
to the repository's own code, `src/src`; the rest of the repository is vendored.

## 1. Inventory

| Component | State | Operations | Talks to |
|---|---|---|---|
| Block chain (`BlockChain.cpp`) | `blocks` (hash to header), `hashes` (number to hash) | `initialize`, `clear`, `addWithoutCalc`, `removeBlock`, `calcBlockchain`, `addBlock`, getters | called by the synchronisation thread, read by workers and server |
| Synchronisation thread (`SyncImpl.cpp`) | the block in hand, with `validate` also the one after it | `synchronize`: load, catch up the workers, fetch for ever; `saveTransactions`, `saveBlockToLeveldb`, `getBlockDump` | block source, block file, chain, workers' queues, data base |
| Workers (`Workers/`) | a bounded queue each; `WorkerMain` and `WorkerNodeTest` save the last block they handled | `process` (push), the thread loop | data base (`WorkerMain`), a data base of its own (`WorkerNodeTest`), block cache (`WorkerCache`) |
| Network block source (`BlockSource/`) | `nextBlockToRead`, `lastBlockInBlockchain`, the prefetched headers, dumps and blocks, the servers to ask | `doProcess`, `process`, `getExistingBlock`, `getLastBlock`, `getBlockHeader`, `getBlockDump` | P2P |
| File block source (`BlockSource/FileBlockSource.cpp`) | the open file and position, how far each file was read | `initialize`, `process`, `getExistingBlock` | block files that another node writes, data base |
| P2P (`P2P/`) | one pool of request threads per request | `makeSegments`, `process`, `request`, `requests`, `broadcast` | the servers |
| Data base (`LevelDb.cpp`) | headers, metadata (last block and its parent), positions in the block files, progress of `WorkerMain` | atomic batches, range scans | |
| Block file (`BlockchainRead.cpp`) | a sequence of dumps, each behind its length | append, read at a position, read a byte range | |
| Caches (`Cache/`) | block dumps and transactions under a block number; address histories with a bounding heap | add, remove by number, look up | filled by `WorkerCache`, read by the server |
| HTTP server (`Server.cpp`, `generate_json.cpp`) | `isStoped`, the number of running requests | eight threads of read-only handlers | chain, cache, block file |
| Program (`main.cpp`) | `countRunningServerThreads` | start the server thread, synchronise, wait for the requests | server, synchronisation thread |
| Node tests (`TestP2PNodes.cpp`) | results of the current round | hourly round of requests | P2P |

What is hard here:

* **A block becomes durable in four steps with nothing around them**: append to
  the file, `addBlock`, the workers, `saveBlockToLeveldb`.  The process may die,
  or a step may throw, between any two of them; nothing is synced, so a power
  failure may take back more of one store than of another.
* **Three threads with their own progress** consume the chain through bounded
  queues; after a restart each has to get exactly the blocks that it lacks.
* **The servers are not trusted to answer well**: an answer may be a fork, an
  orphan, an old block.  What stops it is the arithmetic in `calcBlockchain`.
* **Every exception leads back to the same loop**, with whatever the failed step
  has left behind.
* **Requests are cut up and shared out** among threads that may fail at any
  moment, prefetched in three caches one behind the other, and put together by
  position.
* **Clients read while the chain is loaded and extended**, several separate reads
  to a request, some of them without the lock; and the program stops under them.
* **A block file may be read while another process appends to it.**

What makes each part correct:

| Component | Properties |
|---|---|
| Block chain | the header under a number has that number, is the child of the one before, and stays what it is while the process lives; nothing but a child of the genesis block is block 1 |
| Synchronisation thread | after any fault it asks for the first block that is missing; with `validate` it stores only a confirmed block; in the end it has every block |
| Data base, block file | the data base holds exactly the chain and only grows at its end, over restarts too; a stored position holds the dump it is said to hold; after a power failure what is left is a chain |
| Workers | each saves block after block, on the chain, from the first on, without a gap, and catches up in the end; the cache keeps within its limit |
| Block sources | only servers that have everything are asked; nothing stale is used after a new round; no block is handed out before its parent; no position passes a block that was not stored; in the end every block comes |
| P2P | the segments tile the answer; the joined answers are the dump; one server that answers is enough; every call returns |
| HTTP server | a range is a run of the chain; a dump is the dump of the block asked for; what requests read outlives them; a stop signal ends the program |

## 2. Modules

| Module | Models | Kind |
|---|---|---|
| `BlockChain` | `BlockChain.cpp`: state and operations, `calcBlockchain` turn by turn | component |
| `Sync` | `SyncImpl::synchronize`, the workers, block file, data base, block cache, death and restart; extends `BlockChain` | composition |
| `Ledger` | what the data base promises: a chain that grows at its end | abstract specification |
| `SyncPower` | `Sync` with power failures | composition |
| `Server` | the HTTP server beside `Sync`, the stop signal and the end of `main` | composition |
| `BlockFetch` | `NetworkBlockSource` and `GetNewBlocksFromServer`: broadcast, batches and caches | component |
| `FileSource` | `FileBlockSource` with the node that writes the files | component |
| `BlockSource` | the choice between the two that `SyncImpl::initialize` makes | composition |
| `Segments` | the segments of `P2P_Ips::requestImpl` and `P2P::makeSegments` | algorithm |
| `P2PProcess` | `P2P::process`, caller and threads | component |
| `Download` | `P2P_Ips::requestImpl` as a whole: segments, threads, the servers' answers, the joined result | composition of the two |
| `MCSync`, `MCSyncPower`, `MCServer`, `MCBlockFetch`, `MCBlockSource`, `MCDownload` | instances for TLC | |
| `SyncProofs`, `LedgerProofs`, `WorkerProofs`, `ServerProofs`, `FileSourceProofs`, `FetchProofs`, `DownloadProofs`, `PowerProofs` | theorems and proofs | |

Operators whose comment begins with *Variant* are not part of the model.  Each
is a definition as a plausible mistake would have made it; put in the place of
the real one it must break the property that `PROJECT.json` names for it.

`PROJECT.json` maps every definition to the lines it stands for.

## 3. How the model corresponds to the code

**`BlockChain`.**  `blocks` and `blockNumber` are the map from hash to header,
`hashes` the vector from number to hash.  Blocks are numbers, `prevHash` is a
constant, block 0 the genesis block that `initialize` inserts.  `calcBlockchain`
has one action per turn of its walk (`CalcWalk`) and one per way out: `CalcReturn`,
and `CalcThrow` for the assertion at line 65, which leaves the provisional
numbers where they are.  The walk breaks off at an unknown parent with the number
of the last header still set, as in the code.

**`Sync`.**  `pc` follows `synchronize`: `start`, `loadCalc` (headers are loaded,
the chain is rebuilt), `workers`, `retry`, `retryFeed` (known blocks are read again
for workers that lag behind, from the file or, failing that, from the network),
`poll` (`doProcess`), `fetch` (`process`), `append` (`saveTransactions`), `add`,
`addCalc`, `remove` (`addBlock`), `feed` (the workers), `save`
(`saveBlockToLeveldb`), `dead` (an exception ended the thread).  With `validate`
two blocks are in hand, `prevBi` and `nextBi`.  A dump is one element of `file`, a
position an index.  Every exception of the fetching loop goes back to `poll`, and
what the failed step did before it stays.

A worker is its queue (sizes 3, 1 and 1, as in the code), the element it has
popped and, for two of them, what it has saved.  `lastSaved` is the copy of the
saved number that the worker's constructor read, against which `process` compares.

The environment: `Answers` says which blocks a server may answer for a number (the
number itself is all that is asked for), `Poll` takes any last block up to
`MaxBlock`, and `Budget` says how many faults of each kind may happen: `net`
(a request fails), `cut` (a write to the block file is cut short, which the code
does not notice; a cut dump is treated as one that cannot be parsed), `save` and
`worker` (a batch fails), `crash` (the process dies at any point; what was written
stays, memory is lost).

**`SyncPower`.**  `synced` is what the operating system has written back of the main
data base, of the data base of the node tests and of the block file, at moments of
its own choice (`WriteBack`).  `PowerFailure` takes each store back to that.  A
LevelDB log is recovered up to a batch, hence to an earlier state of the data base;
the block file may also be cut inside the dump after that.

**`Server`.**  A handler enters if `isStoped` is not set, counts itself in
(`CountIn`), looks at the signal (`CheckStop`), works and counts itself out
(`Leave`): separate steps, since the order of the first three is what the shutdown
rests on.  The work is one step per read: `ReadCount` without the lock (while the
vector is written it may yield any of `Unlucky`), `ReadHeader` under the shared lock
and therefore never inside `calcBlockchain`, `FromCache`, `FromFile`.  The server
starts before `synchronize` has loaded the chain, whose disk is any that an
earlier process could have left (`Stored`).  After the signal the synchronisation
thread stops at the next call of `checkStopSignal`; `MainExits` is the waiting loop
of `main`.  A request for one dump is a request for several with one element.

**`BlockFetch`.**  `DoProcess` starts the broadcast, every server answers or not, in
any order (`ServerSays`, `ServerSilent`), and `BroadcastEnds` is the rest of
`doProcess`.  `advanced`, `headers` and `dumps` are the three caches.  The servers
have one chain; a header is named by the number of the block it really belongs to,
so that a header under a wrong number can be told.  `HeadersLoaded` and
`DumpsLoaded` are whole batches; `HeaderFails` and `DumpFails` keep what the parts
before the failing one have left.  `DumpFails` is also the dump that came and whose
parsing or signature check throws.  `count` stands for the chain: it takes the
block that is next and refuses any other, which sends the thread back to
`doProcess`.  With `isVerifySign` a big dump is asked for by a request that no server
can parse (`SignedAlone`).

**`FileSource`.**  The other node makes a file, streams a dump (`WriteBegins`,
`WriteEnds`: a reader may see it in between), saves, and may die in between; it then
appends the block once more.  The reader has `process` (`OpenNext`, `NothingNew`,
`Read`, `NotWhole`) and, of `synchronize`, what decides about positions: `AddBlock`,
`Refuse`, `Save`, `SaveThrows`.  `allFiles` is the map in memory, `dbFiles` that of the
data base, `dbBlocks` are the headers there and `lost` the blocks whose batch failed:
the loop goes on behind such a block, and the next batch stores a position past its
missing header.  The reading node is followed until it goes *astray*: it starts from a
data base with a gap (`LoadsGap`; what happens then is in `Sync`), or it has taken
bytes of two dumps for a block (`ReadMixed`).  The latter is possible behind a dump that
its writer left unfinished: the hash of what is read is compared with nothing, and
bytes of the next dump may happen to complete the part.  `Sync` has no such step: there a
cut dump followed by others counts as one that cannot be parsed.  The constructor of
`SyncImpl` refuses `validate` together with `get_blocks_from_file`, so `FileSource` is
without `validate`.

**`P2PProcess`** has one record of program counters for the threads, one for the
caller.  A thread pops, takes its connection (`TakeCurl`), asks, writes the answer
(`Answer`) and counts (`CountSuccess`) in separate steps.  An exception that is not a
`common::exception` (`Unwind`) loses the segment, as in the code.  **`Segments`** is
the loop of `makeSegments`, with its arguments chosen at the start;
`CountSegments` is the number that `requestImpl` reckons.  **`Download`** runs the one
and then, for its segments, the other.  Bytes are their positions, so that the joined
answers can be compared with the dump.  A server answers from its cache or its file;
the answer is refused if its size is wrong or if it looks like a message
(`LooksLikeJson`).  Calls follow one another; each may find any set of servers
reliable.

**External.**  `BlockedQueue`, `Thread`, `checkStopSignal` and the `CHECK` macro come
from a library that is not in the repository; they are modelled from their use: `push`
blocks while the queue is full, `pop` while it is empty, a failed `CHECK` throws
`common::exception`, `checkStopSignal` throws `StopException`, which no handler of
`exception` or `std::exception` catches.

## 4. Runs

| Run | Question | Instance |
|---|---|---|
| `sync_faults` | is the data base a ledger over crashes, does every restart rebuild the chain, do workers stay on it without a gap | 3 blocks, honest servers, all three workers; a crash, a cut dump, a failing worker batch and a network fault |
| `sync_stray` | do forks, orphans and old blocks in the answers leave chain, data base, file and cache consistent | 7 blocks, up to 3 answers per number, a cut write, a crash |
| `sync_validate` | is only a confirmed block stored | option `validate`, straying servers, numbers up to 4, 2 crashes |
| `sync_live` | do chain and workers end up with everything, over whatever faults | 2 blocks, all workers, a crash, a cut dump, a failing batch of each kind and a network fault |
| `sync_orphan` | *violation*: an orphan becomes block 1 | straying servers |
| `sync_lost_save` | *violation*: a failed batch ends the synchronisation after a restart | 1 failing batch, 1 crash |
| `power` | is a chain left by a power failure, and do chain and workers reach the last block again | 2 blocks, all workers, 1 failure |
| `fetch` | from servers: is anything stale used, who is asked, does every block come; from files: is a block skipped, or read too early, does every block come | 2 servers, 6 blocks, one of them big, batches of 2, 5 headers and 3 blocks at once, 2 faults; 3 blocks in 2 files, 2 deaths, any failing batches |
| `fetch_tail` | *violation*: a header under a wrong number | the same, servers only |
| `download` | do the segments tile, are segments in one place and connections unshared, is the joined answer the dump, does every call return | 4 threads on 2 servers, sizes up to 4, up to 3 segments, a queue of 2, 1 unknown exception |
| `server` | do requests get runs of the chain and the right dumps, does main wait for them, does it end | 2 blocks, 0 to 2 of them stored before, 2 handlers with ranges both ways, dumps and counts |
| `server_hash` | *violation*: a rejected block is answered by hash | straying servers, 1 handler |

Why the bounds are enough.  Three blocks give a first block, one in the middle and
one that a crash can separate from both; the queue of one block makes the
synchronisation thread wait; two crashes (`sync_validate`) allow one during the
recovery from the other.  The stray answers contain one of each kind that
`calcBlockchain` treats differently: unknown parent, known parent too low, block
known already, and a pair of orphans one on the other.  In `BlockFetch`, 5 headers in
parts of 2 leave a part of one, 6 blocks need a second batch, and the big block breaks
a run of dumps.  Two files with three blocks allow a change of files with and without
a block left behind, an empty file and an unfinished one; two deaths may both be of one
node, or one of each.  In `server` a range request spans a load, an added block and a
wrong count, and the cache of one block is trimmed between the two reads of a dump.
Sizes up to 4 with a least size of 2 give one or two segments of a dump and one to
three of a list of questions; sizes of any magnitude are covered by the proofs.

`MaxFile`, `MaxSegments`, `MaxFaults`, `MaxUnknown`, `MaxSize`, `MaxServers`,
`MaxStored`, `MaxWritten`, `MaxFiles` and `MaxDeaths` bound the models only; nothing in
the code corresponds to them.  `Unlucky` and `Braced` name the values and the parts of
dumps for which a race and a test by first and last character go wrong.

Deadlock is checked where the system never stops: `sync_lost_save`, `power`, `fetch`
and `fetch_tail`.  It is not checked where `MaxFile` or an exception that ends the
thread stops it (the other `sync` runs), in `download`, where a lost segment, or a
full queue that no thread is left to empty, really makes the caller wait for ever, and
in `server` and `server_hash`, whose program ends.

The liveness properties say themselves which cases they except.  The exceptions of the
first three are needed: TLC finds each property violated without them.

* `EventuallyCaughtUp`: a restart after a failed batch of `saveBlockToLeveldb`
  (`sync_lost_save`), and a restart at which a dump cannot be read from the file and the
  request that should replace it fails, which ends `synchronize` (`RetryThrows`).  A
  worker one of whose own batches failed refuses every later block until a restart;
  the chain goes on.
* `EventuallyRecovered`: a second failure, after which a worker may be fed a wrong block
  and refuse all others, or another fault besides, such as a failed request for a dump
  that the file has lost.  It compares numbers, not dumps; see below.
* `FilesBringAll`: a node gone astray (section 3), and what lies behind an unfinished
  dump or an empty file.
* `ServersBringAll`: with signatures, the first big block and what follows.
* `EveryCallReturns`: a lost segment, and more segments than the queue holds.

**Findings.**

* An orphan on an empty chain (`sync_orphan`).  `calcBlockchain` leaves its loop
  at an unknown parent with a number set on the last header it walked, so the
  branch that returns 0 is not taken, the assertion `Incorrect block number` never
  fires, and an orphan becomes block 1.
* A failed batch (`sync_lost_save`).  The block is on the chain when
  `saveBlockToLeveldb` fails; the loop goes on, the data base keeps a gap, and
  after a restart the assertion at `BlockChain.cpp:65` ends the synchronisation.
  While the process lives nobody notices (`sync_live`).
* The last part of one block (`fetch_tail`).  It is asked for under the number of
  the part.  `fetch` shows what this costs: the wrong block is
  always one that the chain has already and refuses, and the next round asks again.
  The shipped configuration, with batches as large as the limit, never has such a
  part unless a single block is missing, where the two numbers agree.
* A rejected block by hash (`server_hash`).  `addBlock` is three critical sections.
  Between the exception of `calcBlockchain` and `removeBlock` a reader finds the
  rejected header with a number set, and `get-block-by-hash` answers it.

Met while modelling and stated where they bite, without a run of their own:

* With `validateSign` no block above 100000 bytes is ever fetched: the request has a
  stray quotation mark (`GetNewBlocksFromServers.cpp:144`; `ServersBringAll`).
* A dump that its writer left unfinished, or a file left empty, blocks all later files
  for `FileBlockSource` (`FileSystem.cpp:58`; `FilesBringAll`).
* After **one** power failure that took back the block file but not the headers, the
  positions of those headers lie behind the end of the file; new dumps are appended
  there, and a header then points at the dump of another block.  `getBlockDump` does
  not compare the hash and serves it.  So `DumpNeverWrong` does not hold in `SyncPower`.
  The workers are safe at first, because they catch up before the file grows again;
  after **another** start `getExistingBlockS` feeds them that block: with two failures
  `WorkersOnChain` is violated.
* A block read from a file whose batch fails is passed for ever: the next batch stores
  a position behind it, and after a restart the data base has a gap
  (`SyncImpl.cpp:158`; `NothingSkipped`, `FilesBringAll`).
* With `validate` a block counts as confirmed when no sign transaction of the next block
  carries another hash; a next block without any will do, and the parent it names is
  not looked at (`SyncImpl.cpp:300`; `InHandConfirmed`).
* When `synchronize` ends by an exception without a signal, the server goes on
  accepting requests while `main` destroys what they read; `SyncOutlivesRequests` is
  about the stop signal.

## 5. Fairness

`Sync!FairSpec`: the synchronisation thread and each worker run on (weak fairness
of their steps: they are operating-system threads, and a full queue is emptied by
its worker); and the servers, asked again and again every half second, name their
last block in the end (strong fairness of `Poll(MaxBlock)`, since other answers
come in between).  Faults and crashes have no fairness and are finitely many: no
property could hold if the process died for ever.  `SyncPower!PowerFairSpec` is the
same and assumes nothing of the writing back.  `BlockSource!SourceFairSpec` is the same
for the one thread it has, and assumes nothing of the node that writes.
`Download!DownloadFairSpec`: caller and threads run on; a request always ends, because
`Curl::request` is called with a time limit of five seconds.  `Server!ServerFairSpec`:
the server thread, the synchronisation thread, `main` and each handler run on.  Clients
may send requests for ever, workers may stand still (a push to a full queue gives up on
the signal), and nothing is assumed of the signal.

## 6. What is proved

The theorems hold for every value of the constants that satisfies the named
assumptions of the modules: any set of blocks with any parents, any answers,
options, numbers of faults, handlers, threads, servers, files and sizes.  What a
theorem assumes beyond that is in its statement and listed here.

| Module | About | Theorems and the properties they state |
|---|---|---|
| `SyncProofs` | `Sync!Spec` | `TypeCorrect` (`TypeOK`), `Numbered` (`ChainNumbered`), `HeadersStable` (`ServedHeadersStable`), `DumpsRight` (`DumpNeverWrong`) |
| `LedgerProofs` | `Sync!Spec` | `AskedRight` (`AskedForThatNumber`), `LinksRight` (`ChainLinked`), `StoredRight` (`DbIsChain`), `RootRight` (`RootLinked`), `LoadRight` (`LoadedChainFits`), `LedgerImplemented` (the refinement `LedgerSpec`), `ConfirmedRight` (`InHandConfirmed`) |
| `WorkerProofs` | `Sync!Spec` | `CacheRight` (`CacheWithinLimit`), `SavedOnChain` (`WorkersOnChain`), `NoGap` (`WorkersLeaveNoGap`) |
| `ServerProofs` | `Server!ServerSpec` | `ServerTypes` (`ServerTypeOK`), `OutlivesRequests` (`SyncOutlivesRequests`), `RangesRight` (`RangeOnChain`), `AnsweredDumps` (`DumpOfThatBlock`) |
| `FileSourceProofs` | `FileSource!FileSpec` | `FilesRight` (`NothingSkipped` and `ReadInOrder`) |
| `FetchProofs` | `BlockSource!SourceSpec` | `SourceTypes` (`SourceTypeOK`), `ServersHaveAll` (`AskedServersHaveAll`), `CachesRight` (`CachesFresh`), `ParentsRight` (`ParentsFirst`), `NothingLost` (`NothingSkipped`) |
| `PowerProofs` | `SyncPower!PowerSpec` | `PowerTypeCorrect` (`TypeOK`), `PowerStoredRight` (`DbIsChain`, `ChainLinked`, `AskedForThatNumber`), `PowerLoadRight` (`HeadersLinked`, `LoadedChainFits`, `RootLinked`), `PowerLeavesChain` (`LeftIsChain`), `PowerSavedOnChain` (`WorkersOnChain`) |
| `DownloadProofs` | `Segments!Spec` | `SegmentsTile` (`Tiled`), `SegmentsNonempty` (`NoEmptySegment`), `QuestionsSingle` (`SingleQuestions`) |
| | `Download!DownloadSpec` | `DownloadTypes` (`DownloadTypeOK`), `PlacesRight` (`OnePlace`), `ConnectionsRight` (`OwnConnection`), `DumpJoined` (`JoinedIsDump`), `OneIsEnough` (`OneServerSuffices`), `DownloadSegments` (the three properties of `Segments`) |

**Assumptions.**

* `NoBatchLost`: no batch of `saveBlockToLeveldb` has failed *so far*.  It stands in
  front of the invariants of `LedgerProofs` (but `ConfirmedRight`), `WorkerProofs`
  and `PowerProofs` (but `PowerTypeCorrect`), and as `Budget["save"] = 0` in front of the two properties of
  steps.  Without it they are false: `sync_lost_save` shows the state that one
  failed batch leads to.  All other faults (crashes, cut dumps, failed
  requests, failed batches of the workers) may happen in any number.
* `RootsRight`, for `RootRight`, `LoadRight` and the last three of `PowerProofs`: the
  servers answer for number 1 with
  children of the genesis block.  `sync_orphan` shows what another one does.  Every
  higher number may have any answers.
* `ServersAgree`, for `SavedOnChain`, `NoGap`, `PowerLeavesChain` and
  `PowerSavedOnChain`: the servers answer with at most one block for a number.  A worker that lags behind and whose dump in the
  file is cut is fed what a server answers for the number, without a comparison with
  the chain; with a server that strays it would save a block beside the chain.
* `FailedOnce`, for `PowerLeavesChain` and `PowerSavedOnChain`: with block files, the
  process has died or the power has failed at most once *so far*.  After two failures
  `WorkersOnChain` is false (section 4).  Without block files there is no such limit.
* `FilesRight` and `NothingLost` carry their exceptions in `NothingSkipped`: a node gone
  astray, and in the data base the blocks whose own batch failed.
* `NoGap` carries one in `WorkersLeaveNoGap`: a worker that has saved nothing and lost
  its first block to a failed batch of its own begins in the middle.
* Nothing is assumed of the servers for the other theorems of `SyncProofs`,
  `LedgerProofs`, `WorkerProofs` and `PowerProofs`.

**The chain** (`SyncProofs`).  All theorems rest on `Inductive`, `Spec => []IndInv`.
`IndInv` is `TypeOK`, `ChainInv` (what `hashes`, `blocks` and `blockNumber` mean to
one another between two calls) and `PhaseInv` (what is known at each `pc`: above
all, which headers a running `calcBlockchain` has walked and numbered, and that none
of them is on the chain).  `ChainNumbered` alone is not inductive: in the middle of
`calcBlockchain` it depends on the provisional numbers being on headers off the
chain, and after a throw on those headers being left over harmlessly.  The proof has
one lemma per phase of `synchronize`, with one step per action; `DumpsRight` adds
`DumpInv`, which follows a position from `saveTransactions` to the data base.

**The ledger** (`LedgerProofs`).  `LedgerInv` says that *there is* a linked sequence of
blocks that is the data base, and says at each `pc` how the chain in memory relates
to it (`ChainState`): nothing of it while the headers are loaded, a walk from its end
while `calcBlockchain` rebuilds it, the sequence itself afterwards, one block more
between `addBlock` and the batch.  The sequence has to be named, because during a load
neither `hashes` nor `blockNumber` says yet what the chain will be.  `FetchInv` ties
`nextBlockToRead` to the length of the chain, for which `validate` needs a case of
its own.  For the refinement every step is shown to leave the ledger alone but the
batch, which appends to it.

**The workers** (`WorkerProofs`).  `WorkInv` is about the line in front of each worker:
what it holds in hand and in its queue are consecutive numbers that end where the
synchronisation thread is (`InLine`), each with the block of the chain
(`PlacesInv`); hence what the cache holds is the interval before the line
(`CacheInv`), and what a worker saves is the next block (`SavedInv`, `FirstInv`).

**Power failures** (`PowerProofs`).  A step of the node is a step of `Sync`, so
`IndInv` and `LedgerInv` carry over; what is new is the state a failure lands in.
`PowerInv` adds that what was written back of the data base is itself a linked sequence
with its own metadata (`WrittenBack`), because it was the data base at some earlier
moment.  A failure therefore starts from a state that `LedgerInv` allows, and the first
three theorems hold for any number of failures.  The other two need the block file.
`DumpNeverWrong` is false once the power has failed, and so is its invariant `DumpInv`:
`PositionInv` says that positions are right until the first failure, and that from then
on a position in a header holds the dump of its block, a cut one, or lies behind the
end of the file (`RightOrGone`) until the file grows again, which is not before all
workers have been fed what they lack.  `CarefulInv` follows a block to the workers:
whatever is in a queue or in a hand is an answer for its number and a child of a block
that is stored (`HandedInv`), and so is what the main worker has saved, in the data base
and in what was written back of it, since progress and headers are in one log
(`ProgressInv`).  With servers that agree this is enough for `WorkersOnChain`, also for
the worker of the node tests, which may be ahead of the chain by any number of blocks.

**The server** (`ServerProofs`).  `StopInv` needs the count to be exactly the number of
the handlers between its increment and its decrement; this is where the order of
`CountIn` and `CheckStop` matters.  `ReadInv` says what each handler has gathered:
with the chain only growing while the process lives (`HeadersStable`), a header read
earlier stays the header of its number.  `ServerSync` shows that the synchronisation
thread beside the server takes only steps of `Sync`, started from a disk that an
earlier process left, so that the invariants of `SyncProofs` are at hand.

**The sources** (`FileSourceProofs`, `FetchProofs`).  `FileInv` relates positions to
dumps: behind a position in memory every block is on the chain or is the one in hand,
and in the folder the first dump of a block comes after one of its parent.  For the
data base `StoredInv` says that the stored positions pass no block above the last one
that has a header there, and that of the blocks of the chain only those lack a header
whose batch has failed; a later batch, with its position past a missing header, leaves
both true, and a restart without a gap begins from them.  `FetchInv` is about a round: `serversSave` lists exactly the
servers that named the largest number, the headers kept are an interval, and a header
under a number belongs to no later block.  The last is the point: a part of one
element asks for a wrong place (finding `fetch_tail`), and `AskedIs` shows that this place is
never behind the one meant, so that the chain gets an old block and never a gap.

**The download** (`DownloadProofs`).  `SegInv` says that `prevByte` is
`i` steps; what makes it inductive is `StepFits`, that all segments but the last
are together shorter than the whole, which is why the `min` in the loop of
`makeSegments` never bites.  `DownloadInv` adds `PlaceInv` (a segment is in the queue,
in one hand, or answered), `CurlInv` (connections are handed out in order,
per server), `CountInv` (`success` is the number of the segments counted), `StoreInv`
(what is stored for an answered segment are its bytes) and `SufficesInv` (while nothing
was lost, the threads of a reliable server go on).  From `success = count` it follows
that every segment is answered, and from the tiling that the joined answers are
the dump.  `FlattenSeq` is recursive over the number of segments; the proof
exhibits the function it computes and takes a least place where the two would differ.

**Only model-checked.**  Liveness, which is out of the prover's reach:
`EventuallyCaughtUp`, `EventuallyRecovered`, `ServersBringAll`, `FilesBringAll`,
`EveryCallReturns`, `StopEnds`.

## 7. What is not modelled, and why

* **Module users** in `SyncImpl` (`filterTransactionsToSave` and the file of
  transactions), `txsCache` and `txsStatusCache`, the registrations that
  `WorkerNodeTest` parses: data that no other modelled part reads.
* **Local cache** (`LocalCache.cpp`, `Heap.cpp`): the node only ever calls
  `setLastBlockNum`; the histories and their heap are never filled.
* **Node tests**: a loop of its own, whose results leave the repository.  Their
  requests, `sign-test-string`, have no handler in `Server::run`; `signTestString`
  (`Server.cpp:274`) is called by nobody.
* **The stop signal inside `P2P::process`**: in `Server` the synchronisation thread
  stops there in one step.
* **A reading node gone astray** (`FileSource`): what it does next depends on the bytes
  it has mixed, or is what `Sync` shows of a data base with a gap.
* **A server that returns from `start` after it was up**: when it does, and whether
  requests still run then, is the library's business.
* **A change of configuration between two runs of the program**, from the network to
  `get_blocks_from_file` above all.
* **What a signature says, compression, JSON, cryptography, libevent, byte layouts,
  configuration**: calls into libraries or pure conversion.  The option
  `is_sync_every_block` of the shipped `config2.conf` is read by no code.
* `P2P_Graph` and `P2P_Simple`: `main` creates only `P2P_Ips`.
* **Vendored code** (`3rdParty`), about nine tenths of the repository's lines.

`PROJECT.json` lists each component with its status.

## 8. Plan

Modelled: the whole path of a block from the servers or files to the data base, the
workers and the clients.  What is left to model is listed in section 7 with the reason
why it stays out.

Proved: every safety property of the passing runs, with the assumptions of section 6.
What remains with TLC alone is liveness.
