------------------------------- MODULE Server -------------------------------
(***************************************************************************)
(* The threads of the HTTP server (Server::run) beside the synchronisation *)
(* thread, and how the program stops.                                      *)
(*                                                                         *)
(* The server is started before synchronize: its handlers read the chain,  *)
(* the block cache and the block file while they are loaded and extended.  *)
(* A request is several separate reads; only getBlock holds the lock of    *)
(* the chain, and countBlocks reads the vector without it.                 *)
(*                                                                         *)
(* A signal makes checkStopSignal throw.  main waits until no request is   *)
(* counted as running, and then destroys what the handlers read.           *)
(***************************************************************************)
EXTENDS Sync, FiniteSets

CONSTANTS Handlers,   \* the threads of the server, 8 in the code
          Requests,   \* the requests that clients send to each of them
          Unlucky,    \* what an unlocked read of hashes.size() - 1 may yield while it is written
          MaxStored   \* bound of the model: the blocks on disk when the process starts

ASSUME ServerAssumption ==
    /\ IsFiniteSet(Handlers)
    /\ Requests \in [Handlers -> SUBSET [kind  : {"count", "hash", "forward", "backward", "dumps"},
                                         begin : Nat, cnt : Nat]]
    /\ Unlucky \subseteq Int
    /\ MaxStored \in 0..MaxBlock

VARIABLES
    signal,       \* the stop signal has come
    isStoped,     \* Server::isStoped
    running,      \* countRunningServerThreads, -1 before the server is up
    server,       \* the server thread: "down", "up", or "failed"
    ended,        \* how synchronize has ended: "no", "stop" or "error"
    exited,       \* main has left its loop and destroys sync
    hpc,          \* where each handler is
    req,          \* the request it handles
    todo,         \* the block numbers (for "hash" the hash) still to be looked up
    header,       \* the header that it has looked up last
    list          \* what it has collected for the answer

stopVars    == <<signal, isStoped, running, server, ended, exited>>
handlerVars == <<hpc, req, todo, header, list>>
serverVars  == <<stopVars, handlerVars>>
allVars     == <<vars, serverVars>>

NoRequest == [kind |-> "none", begin |-> 0, cnt |-> 0]
NoHeader  == [hash |-> NoHash, number |-> NoNumber, pos |-> 0]

(* The disk as an earlier process left it: the blocks of c, the last of     *)
(* which the main worker may not have saved yet.                            *)
Stored(c, done) ==
    /\ \A k \in 1..Len(c) : prevHash[c[k]] = (IF k = 1 THEN Genesis ELSE c[k - 1])
    /\ file = IF SaveToFiles THEN c ELSE <<>>
    /\ dbHeaders = {c[k] : k \in 1..Len(c)}
    /\ dbPos = [h \in Hashes |-> IF SaveToFiles /\ h \in dbHeaders
                                  THEN CHOOSE k \in 1..Len(c) : c[k] = h ELSE 0]
    /\ dbMeta = IF c = <<>> THEN [blockHash |-> NoHash, prevBlockHash |-> NoHash]
                ELSE [blockHash |-> c[Len(c)], prevBlockHash |-> prevHash[c[Len(c)]]]
    /\ saved = [w \in Savers |-> IF w = "main" /\ done > 0
                                  THEN [number |-> done, hash |-> c[done]]
                                  ELSE [number |-> 0, hash |-> NoHash]]

ServerInit ==
    /\ \E n \in 0..MaxStored : \E c \in [1..n -> Blocks] : \E done \in {n, n - 1} \cap Nat :
            Stored(c, done)
    /\ InitBlockChain /\ InitThreads
    /\ signal = FALSE /\ isStoped = FALSE /\ running = -1
    /\ server = "down" /\ ended = "no" /\ exited = FALSE
    /\ hpc = [h \in Handlers |-> "idle"]
    /\ req = [h \in Handlers |-> NoRequest]
    /\ todo = [h \in Handlers |-> <<>>]
    /\ header = [h \in Handlers |-> NoHeader]
    /\ list = [h \in Handlers |-> <<>>]

-----------------------------------------------------------------------------
(* Starting and stopping *)

(* Server::init, called after a delay of one second. *)
ServerStarts ==
    /\ server = "down"
    /\ server' = "up"
    /\ running' = 0
    /\ UNCHANGED <<vars, signal, isStoped, ended, exited, handlerVars>>

(* The port cannot be opened, say: the end of serverThreadFunc.  A server   *)
(* that is up is taken not to return while the program runs; when start may *)
(* return, and whether requests run then, is the library's business.        *)
ServerFails ==
    /\ server = "down"
    /\ server' = "failed"
    /\ running' = 0
    /\ UNCHANGED <<vars, signal, isStoped, ended, exited, handlerVars>>

Signal ==
    /\ ~signal
    /\ ~exited
    /\ signal' = TRUE
    /\ UNCHANGED <<vars, isStoped, running, server, ended, exited, handlerVars>>

(* synchronize calls checkStopSignal in broadcast, in the P2P requests and  *)
(* after every saved block.  A push to the full queue of a worker, which    *)
(* may have gone, gives up when the signal comes (BlockedQueue, external).  *)
AtStopCheck ==
    \/ pc \in {"poll", "fetch"}
    \/ pc = "retry" /\ retryNum <= CountBlocks /\ ~Readable(hashes[retryNum + 1])
    \/ pc \in {"feed", "retryFeed"} /\ feedTo # <<>> /\ ~HasRoom(Head(feedTo))

SyncStops ==
    /\ signal
    /\ ended = "no"
    /\ AtStopCheck
    /\ Goto("dead")
    /\ ended' = "stop"
    /\ UNCHANGED <<chainVars, diskVars, sourceVars, biVars, feedVars, workerVars,
                   saved, lastSaved, budget, signal, isStoped, running, server,
                   exited, handlerVars>>

(* Any other step of the thread; broadcast does not return after a signal. *)
SyncRuns ==
    /\ ended = "no"
    /\ ~(signal /\ pc = "poll")
    /\ SyncStep
    /\ ended' = IF pc' = "dead" THEN "error" ELSE "no"
    /\ UNCHANGED <<signal, isStoped, running, server, exited, handlerVars>>

WorkersRun ==
    /\ ~exited
    /\ WorkerStep
    /\ UNCHANGED serverVars

\* Variant: main does not wait for the requests.
MainExitsAtOnce ==
    /\ ended # "no"
    /\ ~exited
    /\ exited' = TRUE
    /\ UNCHANGED <<vars, signal, isStoped, running, server, ended, handlerVars>>

(* while (countRunningServerThreads.load() != 0); *)
MainExits ==
    /\ ended # "no"
    /\ running = 0
    /\ ~exited
    /\ exited' = TRUE
    /\ UNCHANGED <<vars, signal, isStoped, running, server, ended, handlerVars>>

-----------------------------------------------------------------------------
(* Server::run, up to the dispatch *)

At(h, label) == hpc[h] = label
To(h, label) == hpc' = [hpc EXCEPT ![h] = label]

(* A request that comes when isStoped is set is refused without a trace. *)
Enter(h, r) ==
    /\ At(h, "idle")
    /\ server = "up"
    /\ ~isStoped
    /\ req' = [req EXCEPT ![h] = r]
    /\ To(h, "enter")
    /\ UNCHANGED <<vars, stopVars, todo, header, list>>

(* IncCountRunningThread *)
CountIn(h) ==
    /\ At(h, "enter")
    /\ running' = running + 1
    /\ To(h, "check")
    /\ UNCHANGED <<vars, signal, isStoped, server, ended, exited, req, todo, header, list>>

(* Where the work on a request begins, and what it has to look up. *)
FirstStep(r) == IF r.kind \in {"count", "forward", "backward"} THEN "count" ELSE "header"

FirstTodo(r) ==
    CASE r.kind = "hash"  -> <<r.begin>>
      [] r.kind = "dumps" -> [k \in 1..r.cnt |-> r.begin + k - 1]
      [] OTHER            -> <<>>

\* Variant: isStoped is never set.
CheckStopForgets(h) ==
    /\ At(h, "check")
    /\ IF signal
       THEN To(h, "leave") /\ UNCHANGED todo
       ELSE To(h, FirstStep(req[h])) /\ todo' = [todo EXCEPT ![h] = FirstTodo(req[h])]
    /\ UNCHANGED <<vars, stopVars, req, header, list>>

CheckStop(h) ==
    /\ At(h, "check")
    /\ IF signal
       THEN isStoped' = TRUE /\ To(h, "leave") /\ UNCHANGED todo
       ELSE /\ To(h, FirstStep(req[h]))
            /\ todo' = [todo EXCEPT ![h] = FirstTodo(req[h])]
            /\ UNCHANGED isStoped
    /\ UNCHANGED <<vars, signal, running, server, ended, exited, req, header, list>>

\* Variant: a request that is refused is not counted out.
LeaveCounted(h) ==
    /\ hpc[h] \in {"reply", "error", "leave"}
    /\ running' = IF hpc[h] = "leave" THEN running ELSE running - 1
    /\ To(h, "idle")
    /\ req' = [req EXCEPT ![h] = NoRequest]
    /\ todo' = [todo EXCEPT ![h] = <<>>]
    /\ header' = [header EXCEPT ![h] = NoHeader]
    /\ list' = [list EXCEPT ![h] = <<>>]
    /\ UNCHANGED <<vars, signal, isStoped, server, ended, exited>>

(* The answer is sent, and ~IncCountRunningThread. *)
Leave(h) ==
    /\ hpc[h] \in {"reply", "error", "leave"}
    /\ running' = running - 1
    /\ To(h, "idle")
    /\ req' = [req EXCEPT ![h] = NoRequest]
    /\ todo' = [todo EXCEPT ![h] = <<>>]
    /\ header' = [header EXCEPT ![h] = NoHeader]
    /\ list' = [list EXCEPT ![h] = <<>>]
    /\ UNCHANGED <<vars, signal, isStoped, server, ended, exited>>

-----------------------------------------------------------------------------
(* Reading the chain *)

(* clear, and the loop of calcBlockchain that extends `hashes`. *)
HashesWritten ==
    \/ pc = "start"
    \/ pc \in {"loadCalc", "addCalc"} /\ processedBlocks # <<>> /\ blockNumber[bh] # NoNumber

(* countBlocks, without the lock: what the race yields is anybody's guess. *)
CountReads == IF HashesWritten THEN {CountBlocks} \cup Unlucky ELSE {CountBlocks}

(* calcBlockchain holds the lock from its first turn on. *)
ChainLocked == pc \in {"loadCalc", "addCalc"} /\ processedBlocks # <<>>

(* getBlockImpl *)
ByHash(b) ==
    IF b \in blocks THEN [hash |-> b, number |-> blockNumber[b], pos |-> filePos[b]]
                    ELSE NoHeader

ByNumber(n) == IF n + 1 \in 1..Len(hashes) THEN ByHash(hashes[n + 1]) ELSE NoHeader

(* The numbers that the two loops of getBlocks go through. *)
Numbers(r, count) ==
    IF r.kind = "forward"
    THEN LET end == IF count + 1 < r.begin + r.cnt THEN count + 1 ELSE r.begin + r.cnt
         IN [k \in 1..(end - r.begin) |-> r.begin + k - 1]
    ELSE LET from == count - r.begin
         IN [k \in 1..(IF r.cnt < from THEN r.cnt ELSE from) |-> from + 1 - k]

ReadCount(h) ==
    /\ At(h, "count")
    /\ \E count \in CountReads :
        IF req[h].kind = "count"
        THEN To(h, "reply") /\ UNCHANGED todo
        ELSE To(h, "header") /\ todo' = [todo EXCEPT ![h] = Numbers(req[h], count)]
    /\ UNCHANGED <<vars, stopVars, req, header, list>>

LookUp(r, x) == IF r.kind = "hash" THEN ByHash(x) ELSE ByNumber(x)

(* getBlock of the chain, once for every element of todo. *)
ReadHeader(h) ==
    /\ At(h, "header")
    /\ ~ChainLocked
    /\ todo[h] # <<>>
    /\ header' = [header EXCEPT ![h] = LookUp(req[h], Head(todo[h]))]
    /\ todo' = [todo EXCEPT ![h] = Tail(@)]
    /\ IF req[h].kind = "dumps"
       THEN /\ To(h, IF header'[h].number = NoNumber THEN "error" ELSE "cache")
            /\ UNCHANGED list
       ELSE /\ list' = [list EXCEPT ![h] = Append(@, header'[h])]
            /\ UNCHANGED hpc
    /\ UNCHANGED <<vars, stopVars, req>>

\* Variant: a header that is not set is answered like any other.
AnswerableAlways(l) == TRUE

(* blockHeaderToJson and blockHeadersToJson refuse a header without a       *)
(* number and the genesis block.                                            *)
Answerable(l) == \A k \in 1..Len(l) : l[k].number \notin {NoNumber, 0}

Answer(h) ==
    /\ At(h, "header")
    /\ todo[h] = <<>>
    /\ To(h, IF req[h].kind = "dumps" \/ Answerable(list[h]) THEN "reply" ELSE "error")
    /\ UNCHANGED <<vars, stopVars, req, todo, header, list>>

-----------------------------------------------------------------------------
(* SyncImpl::getBlockDump: from the cache, or else from the file.  The      *)
(* header was copied earlier; since then the cache may have changed and the *)
(* file has grown.                                                          *)

Collect(h, dump) == list' = [list EXCEPT ![h] = Append(@, [hash |-> header[h].hash, dump |-> dump])]

(* The modules must be on. *)
FromCache(h) ==
    /\ At(h, "cache")
    /\ IF SaveToFiles /\ \E c \in dumpCache : c.hash = header[h].hash
       THEN Collect(h, header[h].hash) /\ To(h, "header")
       ELSE UNCHANGED list /\ To(h, IF SaveToFiles THEN "file" ELSE "error")
    /\ UNCHANGED <<vars, stopVars, req, todo, header>>

(* The header must have a file name, which the genesis block has not, and   *)
(* an empty dump is refused.                                                *)
FromFile(h) ==
    /\ At(h, "file")
    /\ IF header[h].pos \in 1..Len(file)
       THEN Collect(h, file[header[h].pos]) /\ To(h, "header")
       ELSE UNCHANGED list /\ To(h, "error")
    /\ UNCHANGED <<vars, stopVars, req, todo, header>>

-----------------------------------------------------------------------------
Handler(h) ==
    \/ CountIn(h) \/ CheckStop(h) \/ Leave(h)
    \/ ReadCount(h) \/ ReadHeader(h) \/ Answer(h) \/ FromCache(h) \/ FromFile(h)

ServerNext ==
    \/ ServerStarts \/ ServerFails \/ Signal
    \/ SyncStops \/ SyncRuns \/ WorkersRun \/ MainExits
    \/ \E h \in Handlers : \E r \in Requests[h] : Enter(h, r)
    \/ \E h \in Handlers : Handler(h)

ServerSpec == ServerInit /\ [][ServerNext]_allVars

(* The threads run on.  Clients may go on sending requests for ever. *)
ServerFairSpec ==
    /\ ServerSpec
    /\ WF_allVars(ServerStarts \/ ServerFails)
    /\ WF_allVars(SyncRuns \/ SyncStops)
    /\ WF_allVars(MainExits)
    /\ \A h \in Handlers : WF_allVars(Handler(h))

-----------------------------------------------------------------------------
Working == {"count", "header", "cache", "file"}

(* Every variable of the server has its type, and countRunningServerThreads *)
(* counts exactly the requests between its increment and its decrement.     *)
ServerTypeOK ==
    /\ {signal, isStoped, exited} \subseteq BOOLEAN
    /\ server \in {"down", "up", "failed"}
    /\ ended \in {"no", "stop", "error"}
    /\ hpc \in [Handlers -> Working \cup {"idle", "enter", "check", "reply", "error", "leave"}]
    /\ running = IF server = "down" THEN -1
                 ELSE Cardinality({h \in Handlers : hpc[h] \notin {"idle", "enter"}})

(* After a stop signal main destroys sync only when no request works on it, *)
(* and no request begins to afterwards, although requests come in at any    *)
(* moment and main looks at the counter only: a request is counted before   *)
(* it looks at the signal.                                                  *)
SyncOutlivesRequests ==
    exited /\ ended = "stop" => \A h \in Handlers : hpc[h] \notin Working

HasNumber(b, n) == n \in 1..CountBlocks /\ hashes[n + 1] = b

(* What getBlocks answers is a run of blocks of the chain in the order that *)
(* was asked for, each the child of the one below it, also when the count   *)
(* was read while the vector was written and the chain has grown since.     *)
RangeOnChain ==
    \A h \in Handlers : At(h, "reply") /\ req[h].kind \in {"forward", "backward"} =>
        LET l == list[h]
            up == IF req[h].kind = "forward" THEN 1 ELSE -1
        IN /\ \A k \in 1..Len(l) : HasNumber(l[k].hash, l[k].number)
           /\ \A k \in 1..(Len(l) - 1) : l[k + 1].number = l[k].number + up
           /\ up = 1 /\ l # <<>> => l[1].number = req[h].begin

(* The dump that is answered for a block is the dump of that block, be it   *)
(* from the cache, which another thread fills and trims meanwhile, or from  *)
(* the file (or what a cut write left of it).                               *)
DumpOfThatBlock ==
    \A h \in Handlers : req[h].kind = "dumps" =>
        \A k \in 1..Len(list[h]) :
            \/ list[h][k].dump = list[h][k].hash
            \/ list[h][k].dump = Torn /\ budget["cut"] < Budget["cut"]

(* A header answered by hash carries the number it has in the chain: what   *)
(* the comment "protected by the mutex in the procedures called" of         *)
(* addBlock claims.                                                         *)
NumberedByHash ==
    \A h \in Handlers : At(h, "reply") /\ req[h].kind = "hash" =>
        HasNumber(list[h][1].hash, list[h][1].number)

(* After the signal main ends, whatever the clients send. *)
StopEnds == signal ~> exited
=============================================================================
