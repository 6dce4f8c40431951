----------------------------- MODULE BlockFetch -----------------------------
(***************************************************************************)
(* Fetching new blocks ahead of their use: NetworkBlockSource::process     *)
(* loads a few blocks at once (advancedBlocks), on top of                  *)
(* GetNewBlocksFromServer, which loads headers and dumps in batches        *)
(* (advancedLoadsBlocksHeaders, advancedLoadsBlocksDumps).  Three caches,  *)
(* one in front of the other, and the chain that consumes the blocks.      *)
(*                                                                         *)
(* A round begins with a broadcast (getLastBlock) to all servers, whose    *)
(* answers come in any order; the blocks are then asked of those that      *)
(* named the largest number.                                               *)
(*                                                                         *)
(* The servers are honest and have one chain; block n is named by its      *)
(* number, and its hash, its header and its dump by the same number.       *)
(***************************************************************************)
EXTENDS Integers, Sequences, FiniteSets, FiniteSetsExt

CONSTANTS Servers,         \* the servers of P2P_Ips
          MaxBlock,        \* the highest block number the servers know
          MaxAdvanced,     \* maxAdvancedLoadBlocks: headers loaded at once
          BatchSize,       \* countBlocksInBatch: headers or dumps per request
          CountAdvanced,   \* COUNT_ADVANCED_BLOCKS: blocks loaded at once
          Big,             \* the blocks above MAX_BLOCK_SIZE_WITHOUT_ADVANCE
          MaxFaults        \* bound of the model: requests that may fail

ASSUME FetchAssumption ==
    /\ {MaxBlock, MaxAdvanced, BatchSize, CountAdvanced} \subseteq Nat \ {0}
    /\ IsFiniteSet(Servers) /\ Servers # {}
    /\ Big \subseteq 1..MaxBlock
    /\ MaxFaults \in Nat

VARIABLES
    isVerifySign, \* option validateSign: dumps are asked for with a signature
    asked,       \* getLastBlock: the servers whose answer is awaited
    said,        \* what each of them has answered in this broadcast
    lastBlock,   \* getLastBlock: the largest answer so far
    serversSave, \* getLastBlock: the servers that gave it; NetworkBlockSource::servers
    count,       \* blocks on the chain
    known,       \* lastBlockInBlockchain
    nextNum,     \* nextBlockToRead
    headers,     \* advancedLoadsBlocksHeaders: number -> block
    dumps,       \* the keys of advancedLoadsBlocksDumps
    advanced,    \* advancedBlocks: number -> block, or the exception
    cur,         \* process: the number being loaded
    header,      \* process: the header that was loaded for it
    pc,
    faults       \* the requests that have failed

broadcastVars == <<asked, said, lastBlock, serversSave>>
vars == <<isVerifySign, broadcastVars, count, known, nextNum, headers, dumps, advanced,
          cur, header, pc, faults>>
caches == <<headers, dumps, advanced>>

Numbers == 1..MaxBlock
None    == -1                    \* an empty std::optional; no answer
Failed  == 0                     \* AdvancedBlock::exception is set
Empty   == [n \in {} |-> Failed] \* a cleared map

Least(a, b) == IF a < b THEN a ELSE b

Put(f, n, v) == [m \in DOMAIN f \cup {n} |-> IF m = n THEN v ELSE f[m]]

Init ==
    /\ isVerifySign \in BOOLEAN
    /\ asked = {} /\ said = [s \in Servers |-> None]
    /\ lastBlock = None /\ serversSave = <<>>
    /\ count = 0 /\ known = 0 /\ nextNum = 0
    /\ headers = Empty /\ dumps = {} /\ advanced = Empty
    /\ cur = 0 /\ header = 0
    /\ pc = "poll"
    /\ faults = 0

Fault == faults < MaxFaults /\ faults' = faults + 1

-----------------------------------------------------------------------------
(* doProcess *)

(* nextBlockToRead is set and the broadcast begins. *)
DoProcess ==
    /\ pc = "poll"
    /\ nextNum' = count + 1
    /\ asked' = Servers
    /\ said' = [s \in Servers |-> None]
    /\ lastBlock' = None
    /\ serversSave' = <<>>
    /\ pc' = "broadcast"
    /\ UNCHANGED <<isVerifySign, caches, count, known, cur, header, faults>>

(* The callback of getLastBlock, under its mutex: lastBlock becomes 0 with  *)
(* the first answer, before it is compared.                                 *)
LastSoFar == IF lastBlock = None THEN 0 ELSE lastBlock

\* Variant: the servers of a lesser number are kept.
KeepAll(s, n) == IF n >= LastSoFar THEN Append(serversSave, s) ELSE serversSave

Keep(s, n) ==
    CASE n > LastSoFar -> <<s>>
      [] n = LastSoFar -> Append(serversSave, s)
      [] OTHER         -> serversSave

ServerSays(s, n) ==
    /\ pc = "broadcast"
    /\ s \in asked
    /\ asked' = asked \ {s}
    /\ said' = [said EXCEPT ![s] = n]
    /\ lastBlock' = IF n > LastSoFar THEN n ELSE LastSoFar
    /\ serversSave' = Keep(s, n)
    /\ UNCHANGED <<isVerifySign, caches, count, known, nextNum, cur, header, pc, faults>>

(* No answer within the time limit, or one that does not parse. *)
ServerSilent(s) ==
    /\ pc = "broadcast"
    /\ s \in asked
    /\ asked' = asked \ {s}
    /\ UNCHANGED <<isVerifySign, said, lastBlock, serversSave, caches, count, known, nextNum,
                   cur, header, pc, faults>>

\* Variant: the caches are kept.
BroadcastEndsKeepsCaches ==
    /\ pc = "broadcast"
    /\ asked = {}
    /\ lastBlock # None
    /\ known' = lastBlock
    /\ pc' = IF lastBlock >= nextNum THEN "process" ELSE "poll"
    /\ UNCHANGED <<isVerifySign, broadcastVars, caches, count, nextNum, cur, header, faults>>

(* The rest of doProcess. *)
BroadcastEnds ==
    /\ pc = "broadcast"
    /\ asked = {}
    /\ lastBlock # None
    /\ known' = lastBlock
    /\ headers' = Empty /\ dumps' = {} /\ advanced' = Empty
    /\ pc' = IF lastBlock >= nextNum THEN "process" ELSE "poll"
    /\ UNCHANGED <<isVerifySign, broadcastVars, count, nextNum, cur, header, faults>>

(* Nobody has answered: doProcess throws before it sets anything else. *)
NobodyAnswers ==
    /\ pc = "broadcast"
    /\ asked = {}
    /\ lastBlock = None
    /\ pc' = "poll"
    /\ UNCHANGED <<isVerifySign, broadcastVars, caches, count, known, nextNum, cur, header, faults>>

-----------------------------------------------------------------------------
(* process, called by the synchronisation thread *)

(* The block is there.  The chain takes it when it is the next one, and     *)
(* refuses it otherwise: back to doProcess.                                 *)
Deliver ==
    /\ pc = "process"
    /\ nextNum <= known
    /\ nextNum \in DOMAIN advanced
    /\ advanced[nextNum] # Failed
    /\ nextNum' = nextNum + 1
    /\ IF advanced[nextNum] = count + 1
       THEN count' = count + 1 /\ UNCHANGED pc
       ELSE pc' = "poll" /\ UNCHANGED count
    /\ UNCHANGED <<broadcastVars, isVerifySign, caches, known, cur, header, faults>>

(* std::rethrow_exception *)
Rethrow ==
    /\ pc = "process"
    /\ nextNum <= known
    /\ nextNum \in DOMAIN advanced
    /\ advanced[nextNum] = Failed
    /\ pc' = "poll"
    /\ UNCHANGED <<broadcastVars, isVerifySign, caches, count, known, nextNum, cur, header, faults>>

EndOfKnown ==
    /\ pc = "process"
    /\ nextNum > known
    /\ pc' = "poll"
    /\ UNCHANGED <<broadcastVars, isVerifySign, caches, count, known, nextNum, cur, header, faults>>

StartLoad ==
    /\ pc = "process"
    /\ nextNum <= known
    /\ nextNum \notin DOMAIN advanced
    /\ advanced' = Empty
    /\ cur' = nextNum
    /\ pc' = "header"
    /\ UNCHANGED <<broadcastVars, isVerifySign, headers, dumps, count, known, nextNum, header, faults>>

CountToLoad == Least(CountAdvanced, known - nextNum + 1)

(* The loop goes on with the next number. *)
Loaded(b) ==
    /\ advanced' = Put(advanced, cur, b)
    /\ cur' = cur + 1
    /\ pc' = IF cur' < nextNum + CountToLoad THEN "header" ELSE "process"
    /\ header' = 0
    /\ UNCHANGED <<broadcastVars, isVerifySign, count, known, nextNum>>

-----------------------------------------------------------------------------
(* Requests in parts of BatchSize *)

(* The size of part i, the first being part 0, of n elements. *)
PartSize(i, n) == Least(BatchSize, n - i * BatchSize)

(* Which element is asked for as the one at place k of n.  A part of one    *)
(* element is asked for by the number of the part.                          *)
Asked(k, n) ==
    LET i == k \div BatchSize
    IN IF PartSize(i, n) = 1 THEN i ELSE k

(* The answer of one part may be one that does not parse: the parts before  *)
(* it are kept.                                                             *)
CutAfterParts(n) == {i \in 0..(n - 1) : i % BatchSize = 0}

(* getBlockHeader *)

\* Variant: not limited by what the servers know.
CountHeadersUnlimited == MaxAdvanced

CountHeaders == Least(known - cur + 1, MaxAdvanced)

HeadersUpTo(k) ==
    [m \in cur..(cur + k - 1) |-> cur + Asked(m - cur, CountHeaders)]

HeaderKnown ==
    /\ pc = "header"
    /\ cur \in DOMAIN headers
    /\ header' = headers[cur]
    /\ pc' = "dump"
    /\ UNCHANGED <<broadcastVars, isVerifySign, caches, count, known, nextNum, cur, faults>>

HeadersLoaded ==
    /\ pc = "header"
    /\ cur \notin DOMAIN headers
    /\ headers' = HeadersUpTo(CountHeaders)
    /\ header' = headers'[cur]
    /\ pc' = "dump"
    /\ UNCHANGED <<broadcastVars, isVerifySign, dumps, advanced, count, known, nextNum, cur, faults>>

HeaderFails ==
    /\ pc = "header"
    /\ cur \notin DOMAIN headers
    /\ Fault
    /\ \E k \in CutAfterParts(CountHeaders) : headers' = HeadersUpTo(k)
    /\ Loaded(Failed)
    /\ UNCHANGED dumps

(* getBlockDump *)
DumpKnown ==
    /\ pc = "dump"
    /\ header \in dumps
    /\ Loaded(header)
    /\ UNCHANGED <<headers, dumps, faults>>

DumpAlone ==
    /\ pc = "dump"
    /\ header \notin dumps
    /\ header \in Big
    /\ ~isVerifySign
    /\ Loaded(header)
    /\ UNCHANGED <<headers, dumps, faults>>

(* The request for a part of a signed dump (makeRequestForDumpBlockSign)    *)
(* has a stray quotation mark in it: no server can parse it.                *)
SignedAlone ==
    /\ pc = "dump"
    /\ header \notin dumps
    /\ header \in Big
    /\ isVerifySign
    /\ Loaded(Failed)
    /\ UNCHANGED <<headers, dumps, faults>>

(* The headers from the first with this hash up to the next big block. *)
DumpRun ==
    LET first == Min({n \in DOMAIN headers : headers[n] = header})
    IN {n \in DOMAIN headers : n >= first /\ \A m \in first..n : headers[m] \notin Big}

DumpsUpTo(k) ==
    LET first == Min(DumpRun)
    IN {headers[first + Asked(n - first, Cardinality(DumpRun))] :
            n \in {m \in DumpRun : m < first + k}}

(* The dump of the first header of the run is always among the answers. *)
DumpsLoaded ==
    /\ pc = "dump"
    /\ header \notin dumps
    /\ header \notin Big
    /\ dumps' = DumpsUpTo(Cardinality(DumpRun))
    /\ Loaded(header)
    /\ UNCHANGED <<headers, faults>>

(* A request fails, the parts before it being kept; or the dump is there,   *)
(* and its parsing or the check of its signature, in the parallelFor behind *)
(* the loop, keeps an exception for the block.                              *)
DumpFails ==
    /\ pc = "dump"
    /\ Fault
    /\ IF header \in dumps \cup Big
       THEN UNCHANGED dumps
       ELSE LET n == Cardinality(DumpRun)
            IN \E k \in CutAfterParts(n) \cup {n} : dumps' = DumpsUpTo(k)
    /\ Loaded(Failed)
    /\ UNCHANGED headers

-----------------------------------------------------------------------------
Step ==
    \/ DoProcess \/ BroadcastEnds \/ NobodyAnswers
    \/ \E s \in Servers : ServerSilent(s) \/ \E n \in 0..MaxBlock : ServerSays(s, n)
    \/ Deliver \/ Rethrow \/ EndOfKnown \/ StartLoad
    \/ HeaderKnown \/ HeadersLoaded
    \/ DumpKnown \/ DumpAlone \/ SignedAlone \/ DumpsLoaded

Next == Step \/ HeaderFails \/ DumpFails

Spec == Init /\ [][Next]_vars

-----------------------------------------------------------------------------
(* Every variable has its type. *)
FetchTypeOK ==
    /\ isVerifySign \in BOOLEAN
    /\ asked \subseteq Servers
    /\ said \in [Servers -> 0..MaxBlock \cup {None}]
    /\ lastBlock \in 0..MaxBlock \cup {None}
    /\ \A k \in 1..Len(serversSave) : serversSave[k] \in Servers
    /\ count \in 0..MaxBlock
    /\ known \in 0..MaxBlock
    /\ nextNum \in 0..(MaxBlock + 1)
    /\ DOMAIN headers \subseteq Numbers
    /\ \A n \in DOMAIN headers : headers[n] \in Numbers
    /\ dumps \subseteq Numbers
    /\ DOMAIN advanced \subseteq Numbers
    /\ \A n \in DOMAIN advanced : advanced[n] \in Numbers \cup {Failed}
    /\ cur \in 0..(MaxBlock + 1)
    /\ header \in Numbers \cup {0}
    /\ pc \in {"poll", "broadcast", "process", "header", "dump"}
    /\ faults \in 0..MaxFaults

(* Whatever the order of the answers, the servers that the blocks of the    *)
(* round are asked of are exactly those that have the block it goes up to,  *)
(* each once, and there is one: "Servers empty" is never met.               *)
AskedServersHaveAll ==
    pc \in {"process", "header", "dump"} =>
        /\ serversSave # <<>>
        /\ {serversSave[k] : k \in 1..Len(serversSave)} = {s \in Servers : said[s] = known}
        /\ Len(serversSave) = Cardinality({s \in Servers : said[s] = known})
        /\ \A s \in Servers : said[s] <= known

(* Nothing prefetched lies beyond what the servers said last, and no more   *)
(* headers are kept than maxAdvancedLoadBlocks: a server that falls back    *)
(* between two rounds leaves no stale header behind.                        *)
CachesFresh ==
    /\ DOMAIN headers \cup DOMAIN advanced \subseteq 1..known
    /\ Cardinality(DOMAIN headers) <= MaxAdvanced
    /\ Cardinality(DOMAIN advanced) <= CountAdvanced

(* The block that process returns for the next number is that block or one  *)
(* that the chain has already; never one whose parent is missing, which     *)
(* addBlock would take for block 1 on an empty chain.                       *)
NeverAhead ==
    pc = "process" /\ nextNum \in DOMAIN advanced => advanced[nextNum] <= count + 1

(* The header kept for a number is the header of the block with that        *)
(* number: what the assertion "Incorrect block number in answer" of         *)
(* getBlockHeader is there for.                                             *)
HeadersRight == \A n \in DOMAIN headers : headers[n] = n

(* After finitely many failed requests the chain gets every block: a block  *)
(* fetched in the place of another costs a round and no more.  With signed  *)
(* dumps it stays for ever before the first big block.                      *)
AllFetched == <>[](count = MaxBlock \/ (isVerifySign /\ count + 1 \in Big))
=============================================================================
