---------------------------- MODULE WorkerProofs ----------------------------
(***************************************************************************)
(* Proofs about Sync: what the workers get, what they save and what the    *)
(* dump cache holds, in every state in which no batch of                   *)
(* saveBlockToLeveldb has failed so far (see LedgerProofs).                *)
(***************************************************************************)
EXTENDS LedgerProofs

(* All servers that answer for a number answer with one block. *)
ServersAgree == \A n \in 1..MaxBlock : \A a, b \in Answers[n] : a = b

(* A worker that has nothing to do. *)
Idle(w) == queue[w] = <<>> /\ busy[w] = NoItem

(* The block of an item is the one of the chain with the item's number. *)
OnPlace(it) == it.number \in 1..CountBlocks /\ it.hash = hashes[it.number + 1]

(* The workers that only get blocks of the chain: WorkerCache is never fed  *)
(* while the others catch up.                                               *)
Trusted == IF ServersAgree THEN Workers ELSE {"cache"}

(* The worker w is still to get the item that is being handed out. *)
Pending(w) == pc \in {"feed", "retryFeed"} /\ Place(feedTo, w)

(* The numbers of the items in the queue q of a worker and of the item b    *)
(* that it is busy with go up one by one, and n comes next.                 *)
InLine(q, b, n) ==
    /\ \A i \in 1..Len(q) : q[i].number = n - Len(q) + i - 1
    /\ b # NoItem => b.number = n - Len(q) - 1

(* The first of these numbers, or n. *)
First(q, b, n) == n - Len(q) - (IF b = NoItem THEN 0 ELSE 1)

(* The number of the next block that WorkerCache gets, and a saver. *)
CacheNext == IF Pending("cache") THEN CountBlocks ELSE CountBlocks + 1
RetryNext(w) == IF pc = "retryFeed" /\ ~Pending(w) THEN retryNum + 1 ELSE retryNum
SaverNext(w) == IF pc \in {"retry", "retryFeed", "dead"} THEN RetryNext(w)
                ELSE IF Pending(w) THEN CountBlocks ELSE CountBlocks + 1

FeedSeqs == {<<>>, <<"main">>, <<"nodeTest">>, <<"main", "nodeTest">>,
             <<"cache", "main">>, <<"cache", "main", "nodeTest">>}

Early == {"start", "loadCalc", "workers"}

(* Nobody works before the chain is loaded, and nobody but the workers. *)
IdleInv ==
    /\ pc \in Early => dumpCache = {} /\ \A w \in Workers : Idle(w)
    /\ \A w \in Workers \ Running : Idle(w)

(* The item being handed out, and the workers that are still to get it. *)
FeedInv ==
    /\ pc \in {"feed", "retryFeed"} =>
          feedTo \in FeedSeqs /\ \A w : Place(feedTo, w) => w \in Running
    /\ pc = "feed" => item.number = CountBlocks /\ OnPlace(item)
    /\ pc = "retryFeed" => /\ ~Place(feedTo, "cache")
                           /\ item.number = retryNum /\ retryNum <= CountBlocks
                           /\ ServersAgree => OnPlace(item)

PlacesInv ==
    /\ \A w \in Trusted : /\ \A i \in 1..Len(queue[w]) : OnPlace(queue[w][i])
                          /\ busy[w] # NoItem => OnPlace(busy[w])
    /\ \A d \in dumpCache : OnPlace(d)

(* The number of the first block that is still to enter the cache. *)
CacheFirst == First(queue["cache"], busy["cache"], CacheNext)

(* WorkerCache gets block after block, and the cache holds the CacheSize    *)
(* blocks before those that it is still to put there.                       *)
CacheInv ==
    /\ InLine(queue["cache"], busy["cache"], CacheNext)
    /\ \A d \in dumpCache : d.number < CacheFirst /\ d.number >= CacheFirst - CacheSize

(* What a saver has saved. *)
SavedInv ==
    \A w \in Savers :
       /\ saved[w].number = 0 <=> saved[w].hash = NoHash
       /\ lastSaved[w] <= saved[w].number
       /\ ServersAgree /\ saved[w].number > 0 =>
             saved[w].number <= MaxBlock /\ saved[w].hash \in Answers[saved[w].number]

(* A saver that has saved nothing and lost nothing gets the blocks from     *)
(* number 1 on, one by one.                                                 *)
FromFirst(w) ==
    /\ InLine(queue[w], busy[w], SaverNext(w))
    /\ First(queue[w], busy[w], SaverNext(w)) = 1
    /\ pc = "retry" => retryNum <= CountBlocks + 1

FirstInv ==
    /\ budget["worker"] <= Budget["worker"]
    /\ \A w \in Savers \cap Running :
          /\ saved[w].number = 0
          /\ budget["worker"] = Budget["worker"]
          /\ pc \notin Early
          => FromFirst(w) \/ (pc = "dead" /\ Idle(w))

WorkInv == IdleInv /\ FeedInv /\ PlacesInv /\ CacheInv /\ SavedInv /\ FirstInv

-----------------------------------------------------------------------------
(* The line in front of a worker *)

(* One more item joins the line. *)
LEMMA LinePush ==
    ASSUME NEW q \in Seq(Items), NEW b, NEW n \in Int, NEW it \in Items,
           it.number = n, InLine(q, b, n)
    PROVE  /\ InLine(Append(q, it), b, n + 1)
           /\ First(Append(q, it), b, n + 1) = First(q, b, n)
  <1> DEFINE r == Append(q, it)
  <1>1. /\ Len(q) \in Nat /\ Len(r) = Len(q) + 1
        /\ r[Len(q) + 1] = it
        /\ \A i \in 1..Len(q) : r[i] = q[i]
    OBVIOUS
  <1> HIDE DEF r
  <1>2. \A i \in 1..Len(r) : r[i].number = (n + 1) - Len(r) + i - 1
    <2> TAKE i \in 1..Len(r)
    <2>1. CASE i \in 1..Len(q)
      BY <2>1, <1>1 DEF InLine
    <2>2. CASE i = Len(q) + 1
      BY <2>2, <1>1
    <2>3. QED
      BY <2>1, <2>2, <1>1
  <1>3. b # NoItem => b.number = (n + 1) - Len(r) - 1
    BY <1>1 DEF InLine
  <1>4. First(r, b, n + 1) = First(q, b, n)
    BY <1>1 DEF First
  <1>5. QED
    BY <1>2, <1>3, <1>4 DEF InLine, r

(* The worker takes the head of its queue. *)
LEMMA LinePop ==
    ASSUME NEW q \in Seq(Items), NEW n \in Int, q # <<>>, InLine(q, NoItem, n)
    PROVE  /\ InLine(Tail(q), Head(q), n)
           /\ First(Tail(q), Head(q), n) = First(q, NoItem, n)
  <1>1. /\ Len(q) \in Nat /\ Len(q) >= 1
        /\ Len(Tail(q)) = Len(q) - 1
        /\ Head(q) = q[1]
        /\ \A i \in 1..Len(Tail(q)) : Tail(q)[i] = q[i + 1]
    BY HeadTailProperties
  <1>2. Head(q) # NoItem
    <2>1. Head(q) \in Items
      BY <1>1
    <2>2. \A it \in Items : it.hash # NoBlock
      BY Markers DEF Items, NoBlock, Genesis
    <2>3. QED
      BY <2>1, <2>2 DEF NoItem
  <1>3. \A i \in 1..Len(Tail(q)) : Tail(q)[i].number = n - Len(Tail(q)) + i - 1
    <2> TAKE i \in 1..Len(Tail(q))
    <2>1. i + 1 \in 1..Len(q)
      BY <1>1
    <2>2. QED
      BY <2>1, <1>1 DEF InLine
  <1>4. Head(q).number = n - Len(Tail(q)) - 1
    <2>1. 1 \in 1..Len(q)
      BY <1>1
    <2>2. QED
      BY <2>1, <1>1 DEF InLine
  <1>5. QED
    BY <1>1, <1>2, <1>3, <1>4 DEF InLine, First

(* The worker is done with an item. *)
LEMMA LineFinish ==
    ASSUME NEW q \in Seq(Items), NEW b, NEW n \in Int, b # NoItem, InLine(q, b, n)
    PROVE  /\ InLine(q, NoItem, n)
           /\ First(q, b, n) = b.number
           /\ First(q, NoItem, n) = First(q, b, n) + 1
  BY DEF InLine, First

(* No line. *)
LEMMA LineEmpty ==
    ASSUME NEW n \in Int
    PROVE  InLine(<<>>, NoItem, n) /\ First(<<>>, NoItem, n) = n
  BY DEF InLine, First

(* What is in one of the sequences of workers. *)
LEMMA FeedPlaces ==
    /\ \A w : ~Place(<<>>, w)
    /\ \A w : Place(<<"main">>, w) <=> w = "main"
    /\ \A w : Place(<<"nodeTest">>, w) <=> w = "nodeTest"
    /\ \A w : Place(<<"main", "nodeTest">>, w) <=> w \in {"main", "nodeTest"}
    /\ \A w : Place(<<"cache", "main">>, w) <=> w \in {"cache", "main"}
    /\ \A w : Place(<<"cache", "main", "nodeTest">>, w) <=> w \in {"cache", "main", "nodeTest"}
  BY DEF Place

(* The first of them has got the item. *)
LEMMA FeedTail ==
    ASSUME NEW s \in FeedSeqs, s # <<>>
    PROVE  /\ Tail(s) \in FeedSeqs
           /\ Head(s) \in Workers
           /\ Place(s, Head(s))
           /\ ~Place(Tail(s), Head(s))
           /\ \A w : w # Head(s) => (Place(Tail(s), w) <=> Place(s, w))
  <1>1. CASE s = <<"main">>
    <2>1. Tail(s) = <<>> /\ Head(s) = "main"
      BY <1>1
    <2>2. QED
      BY <1>1, <2>1, FeedPlaces DEF FeedSeqs, Workers
  <1>2. CASE s = <<"nodeTest">>
    <2>1. Tail(s) = <<>> /\ Head(s) = "nodeTest"
      BY <1>2
    <2>2. QED
      BY <1>2, <2>1, FeedPlaces DEF FeedSeqs, Workers
  <1>3. CASE s = <<"main", "nodeTest">>
    <2>1. Tail(s) = <<"nodeTest">> /\ Head(s) = "main"
      BY <1>3
    <2>2. QED
      BY <1>3, <2>1, FeedPlaces DEF FeedSeqs, Workers
  <1>4. CASE s = <<"cache", "main">>
    <2>1. Tail(s) = <<"main">> /\ Head(s) = "cache"
      BY <1>4
    <2>2. QED
      BY <1>4, <2>1, FeedPlaces DEF FeedSeqs, Workers
  <1>5. CASE s = <<"cache", "main", "nodeTest">>
    <2>1. Tail(s) = <<"main", "nodeTest">> /\ Head(s) = "cache"
      BY <1>5
    <2>2. QED
      BY <1>5, <2>1, FeedPlaces DEF FeedSeqs, Workers
  <1>6. QED
    BY <1>1, <1>2, <1>3, <1>4, <1>5 DEF FeedSeqs

(* The workers that run. *)
LEMMA RunningIs ==
    /\ Running = IF NodeTestOn THEN {"cache", "main", "nodeTest"} ELSE {"cache", "main"}
    /\ workers \in FeedSeqs /\ workers # <<>>
    /\ \A w : Place(workers, w) <=> w \in Running
  <1>1. CASE NodeTestOn
    <2>1. workers = <<"cache", "main", "nodeTest">> /\ Len(workers) = 3
      BY <1>1 DEF workers
    <2>2. Running = {"cache", "main", "nodeTest"}
      BY <2>1 DEF Running
    <2>3. QED
      BY <1>1, <2>1, <2>2, FeedPlaces DEF FeedSeqs
  <1>2. CASE ~NodeTestOn
    <2>1. workers = <<"cache", "main">> /\ Len(workers) = 2
      BY <1>2 DEF workers
    <2>2. Running = {"cache", "main"}
      BY <2>1 DEF Running
    <2>3. QED
      BY <1>2, <2>1, <2>2, FeedPlaces DEF FeedSeqs
  <1>3. QED
    BY <1>1, <1>2

(* The workers that catch up are savers that run. *)
LEMMA BehindIs ==
    ASSUME NEW n
    PROVE  /\ Behind(n) \in FeedSeqs
           /\ ~Place(Behind(n), "cache")
           /\ \A w : Place(Behind(n), w) => w \in Running
           /\ \A w \in Savers \cap Running : lastSaved[w] < n => Place(Behind(n), w)
  <1> DEFINE M == lastSaved["main"] < n
             T == NodeTestOn /\ lastSaved["nodeTest"] < n
  <1>1. /\ M /\ T => Behind(n) = <<"main", "nodeTest">>
        /\ M /\ ~T => Behind(n) = <<"main">>
        /\ ~M /\ T => Behind(n) = <<"nodeTest">>
        /\ ~M /\ ~T => Behind(n) = <<>>
    <2>1. /\ <<"main">> \o <<"nodeTest">> = <<"main", "nodeTest">>
          /\ <<"main">> \o <<>> = <<"main">>
          /\ <<>> \o <<"nodeTest">> = <<"nodeTest">>
          /\ <<>> \o <<>> = <<>>
      <3>1. <<>> \in Seq(Workers) /\ <<"main">> \in Seq(Workers) /\ <<"nodeTest">> \in Seq(Workers)
        BY DEF Workers
      <3>2. <<"main">> \o <<"nodeTest">> = <<"main", "nodeTest">>
        <4> DEFINE s == <<"main">> \o <<"nodeTest">>
                   t == <<"main", "nodeTest">>
        <4>1. /\ Len(<<"main">>) = 1 /\ Len(<<"nodeTest">>) = 1
              /\ <<"main">>[1] = "main" /\ <<"nodeTest">>[1] = "nodeTest"
          OBVIOUS
        <4>2. s \in Seq(Workers) /\ Len(s) = 2 /\ s[1] = "main" /\ s[2] = "nodeTest"
          BY <3>1, <4>1, ConcatProperties
        <4>3. t \in Seq(Workers) /\ Len(t) = 2 /\ t[1] = "main" /\ t[2] = "nodeTest"
          BY DEF Workers
        <4> HIDE DEF s, t
        <4>4. s = t
          BY <4>2, <4>3, SeqEqual
        <4>5. QED
          BY <4>4 DEF s, t
      <3>3. QED
        BY <3>1, <3>2, ConcatEmptySeq
    <2>2. CASE M /\ T
      BY <2>1, <2>2 DEF Behind
    <2>3. CASE M /\ ~T
      BY <2>1, <2>3 DEF Behind
    <2>4. CASE ~M /\ T
      BY <2>1, <2>4 DEF Behind
    <2>5. CASE ~M /\ ~T
      BY <2>1, <2>5 DEF Behind
    <2>6. QED
      BY <2>2, <2>3, <2>4, <2>5
  <1>2. "main" \in Running /\ (NodeTestOn <=> "nodeTest" \in Running)
    BY RunningIs
  <1>3. Behind(n) \in FeedSeqs
    BY <1>1 DEF FeedSeqs
  <1>4. \A w : Place(Behind(n), w) <=> (w = "main" /\ M) \/ (w = "nodeTest" /\ T)
    BY <1>1, FeedPlaces
  <1>5. QED
    BY <1>2, <1>3, <1>4 DEF Savers

(* A block of the chain stays where it is. *)
LEMMA PlaceKept ==
    ASSUME IndInv, [Next]_vars, pc # "start", pc' # "start", NEW it, it.number \in Nat, OnPlace(it)
    PROVE  OnPlace(it)'
  <1>1. ChainPrefixKept
    BY PrefixKept
  <1>2. Len(hashes) \in Nat /\ Len(hashes') \in Nat
    <2>1. IndInv'
      BY StepInd
    <2>2. hashes' \in Seq(Hashes)
      BY <2>1 DEF IndInv, ChainInv, BlockChainTypeOK, Hashes
    <2>3. QED
      BY <2>2, ChainFacts
  <1>3. it.number \in 1..(Len(hashes) - 1) /\ it.hash = hashes[it.number + 1]
    BY DEF OnPlace, CountBlocks
  <1>4. it.number + 1 \in 1..Len(hashes) /\ it.number \in 1..(Len(hashes') - 1)
    BY <1>1, <1>2, <1>3 DEF ChainPrefixKept
  <1>5. hashes'[it.number + 1] = hashes[it.number + 1]
    BY <1>1, <1>4 DEF ChainPrefixKept
  <1>6. QED
    BY <1>3, <1>4, <1>5 DEF OnPlace, CountBlocks

-----------------------------------------------------------------------------
(* One lemma for each part of WorkInv *)

(* The steps of the workers' lines: everything else leaves them alone. *)
LEMMA LinesKept ==
    ASSUME [Next]_vars, ~Push, ~WorkerStep, ~Crash, ~CrashInAppend
    PROVE  UNCHANGED <<queue, busy, dumpCache, saved>>
  BY DEF Next, SyncStep, Load, Walk, LoadDone, LoadThrows, StartWorkers, RetryFromFile,
     RetryFromNetwork, RetryThrows, RetryDone, Fed, Poll, PollThrows, Fetch, FetchEnds,
     FetchThrows, AppendDump, AppendCut, SaveTransactions, AddNew, AddKnown, AddDone, AddThrows,
     Remove, SaveBlock, SaveThrows, workerVars, vars

(* What a worker's step does to its line. *)
LEMMA WorkerLine ==
    ASSUME IndInv, WorkerStep
    PROVE  \E w \in Workers :
              /\ \A v \in Workers \ {w} : queue'[v] = queue[v] /\ busy'[v] = busy[v]
              /\ \/ /\ busy[w] = NoItem /\ queue[w] # <<>>
                    /\ queue'[w] = Tail(queue[w]) /\ busy'[w] = Head(queue[w])
                    /\ UNCHANGED <<dumpCache, saved, budget>>
                 \/ /\ busy[w] # NoItem
                    /\ queue'[w] = queue[w] /\ busy'[w] = NoItem
                    /\ \/ w = "cache" /\ CacheBlock
                       \/ w \in Savers /\ UNCHANGED dumpCache
                          /\ (WorkerSkips(w) \/ WorkerRejects(w) \/ WorkerSaves(w) \/ WorkerThrows(w))
  <1>0. queue \in [Workers -> Seq(Items)] /\ busy \in [Workers -> Items \cup {NoItem}]
    BY DEF IndInv, TypeOK
  <1>1. ASSUME NEW w \in Workers, Pop(w)
        PROVE  /\ \A v \in Workers \ {w} : queue'[v] = queue[v] /\ busy'[v] = busy[v]
               /\ busy[w] = NoItem /\ queue[w] # <<>>
               /\ queue'[w] = Tail(queue[w]) /\ busy'[w] = Head(queue[w])
               /\ UNCHANGED <<dumpCache, saved, budget>>
    BY <1>0, <1>1 DEF Pop
  <1>2. ASSUME NEW w \in Workers, Finish(w)
        PROVE  /\ \A v \in Workers \ {w} : queue'[v] = queue[v] /\ busy'[v] = busy[v]
               /\ busy[w] # NoItem /\ queue'[w] = queue[w] /\ busy'[w] = NoItem
    BY <1>0, <1>2 DEF Finish
  <1>3. CASE CacheThread
    <2>1. "cache" \in Workers
      BY DEF Workers
    <2>2. CASE Pop("cache")
      BY <1>1, <2>1, <2>2
    <2>3. CASE CacheBlock
      <3>1. Finish("cache")
        BY <2>3 DEF CacheBlock
      <3>2. QED
        BY <1>2, <2>1, <2>3, <3>1
    <2>4. QED
      BY <1>3, <2>2, <2>3 DEF CacheThread
  <1>4. ASSUME NEW w \in Savers, SaverThread(w)
        PROVE  \E u \in Workers :
              /\ \A v \in Workers \ {u} : queue'[v] = queue[v] /\ busy'[v] = busy[v]
              /\ \/ /\ busy[u] = NoItem /\ queue[u] # <<>>
                    /\ queue'[u] = Tail(queue[u]) /\ busy'[u] = Head(queue[u])
                    /\ UNCHANGED <<dumpCache, saved, budget>>
                 \/ /\ busy[u] # NoItem
                    /\ queue'[u] = queue[u] /\ busy'[u] = NoItem
                    /\ \/ u = "cache" /\ CacheBlock
                       \/ u \in Savers /\ UNCHANGED dumpCache
                          /\ (WorkerSkips(u) \/ WorkerRejects(u) \/ WorkerSaves(u) \/ WorkerThrows(u))
    <2>1. w \in Workers
      BY DEF Savers, Workers
    <2>2. CASE Pop(w)
      BY <1>1, <2>1, <2>2
    <2>3. CASE WorkerSkips(w) \/ WorkerRejects(w) \/ WorkerSaves(w) \/ WorkerThrows(w)
      <3>1. Finish(w) /\ UNCHANGED dumpCache
        BY <2>3 DEF WorkerSkips, WorkerRejects, WorkerSaves, WorkerThrows
      <3>2. QED
        BY <1>2, <2>1, <2>3, <3>1
    <2>4. QED
      BY <1>4, <2>2, <2>3 DEF SaverThread
  <1>5. QED
    BY <1>3, <1>4 DEF WorkerStep

(* What handing the item to a worker does to its line. *)
LEMMA PushLine ==
    ASSUME IndInv, FeedInv, Push
    PROVE  \E w \in Workers :
              /\ w = Head(feedTo) /\ w \in Running /\ Pending(w)
              /\ feedTo' = Tail(feedTo) /\ feedTo' \in FeedSeqs
              /\ \A v : Pending(v)' <=> v # w /\ Pending(v)
              /\ \A v \in Workers \ {w} : queue'[v] = queue[v]
              /\ \/ Unwanted(w) /\ queue'[w] = queue[w]
                 \/ ~Unwanted(w) /\ queue'[w] = Append(queue[w], item)
              /\ UNCHANGED <<chainVars, busy, dumpCache, saved, lastSaved, pc, item, retryNum, budget>>
  <1>1. /\ pc \in {"feed", "retryFeed"} /\ feedTo # <<>> /\ feedTo' = Tail(feedTo) /\ pc' = pc
        /\ UNCHANGED <<chainVars, busy, dumpCache, saved, lastSaved, pc, item, retryNum, budget>>
    BY DEF Push
  <1>2. feedTo \in FeedSeqs /\ \A w : Place(feedTo, w) => w \in Running
    BY <1>1 DEF FeedInv
  <1>3. PICK w : w = Head(feedTo)
    OBVIOUS
  <1>4. /\ Tail(feedTo) \in FeedSeqs /\ w \in Workers /\ Place(feedTo, w) /\ ~Place(Tail(feedTo), w)
        /\ \A v : v # w => (Place(Tail(feedTo), v) <=> Place(feedTo, v))
    BY <1>1, <1>2, <1>3, FeedTail
  <1>5. \/ Unwanted(w) /\ UNCHANGED queue
        \/ ~Unwanted(w) /\ queue' = [queue EXCEPT ![w] = Append(@, item)]
    BY <1>3 DEF Push
  <1>6. queue \in [Workers -> Seq(Items)]
    BY DEF IndInv, TypeOK
  <1>7. \A v : Pending(v)' <=> v # w /\ Pending(v)
    BY <1>1, <1>4 DEF Pending
  <1>8. Pending(w) /\ w \in Running
    BY <1>1, <1>2, <1>4 DEF Pending
  <1>9. /\ \A v \in Workers \ {w} : queue'[v] = queue[v]
        /\ \/ Unwanted(w) /\ queue'[w] = queue[w]
           \/ ~Unwanted(w) /\ queue'[w] = Append(queue[w], item)
    BY <1>4, <1>5, <1>6
  <1>10. QED
    BY <1>1, <1>3, <1>4, <1>7, <1>8, <1>9

(* The types that the lemmas below keep needing. *)
LEMMA WorkFacts ==
    ASSUME IndInv
    PROVE  /\ Len(hashes) \in Nat /\ Len(hashes) >= 1
           /\ CountBlocks \in Nat /\ retryNum \in Nat /\ CacheSize \in Nat
           /\ CacheNext \in Int /\ \A w : SaverNext(w) \in Int
           /\ \A w \in Workers : queue[w] \in Seq(Items) /\ busy[w] \in Items \cup {NoItem}
           /\ \A it \in Items : it.number \in Nat /\ it.hash \in Blocks
           /\ NoItem \notin Items
           /\ dumpCache \subseteq Items
           /\ pc \in {"feed", "retryFeed"} => item \in Items
  <1>1. Len(hashes) \in Nat /\ Len(hashes) >= 1
    BY ChainFacts
  <1>2. CountBlocks \in Nat /\ retryNum \in Nat /\ CacheSize \in Nat
    BY <1>1, SyncAssumption DEF CountBlocks, IndInv, TypeOK
  <1>3. CacheNext \in Int /\ \A w : SaverNext(w) \in Int
    BY <1>2 DEF CacheNext, SaverNext, RetryNext
  <1>4. \A w \in Workers : queue[w] \in Seq(Items) /\ busy[w] \in Items \cup {NoItem}
    BY DEF IndInv, TypeOK
  <1>5. \A it \in Items : it.number \in Nat /\ it.hash \in Blocks
    BY DEF Items
  <1>6. NoItem \notin Items
    BY <1>5, Markers DEF NoItem, NoBlock, Genesis
  <1>7. dumpCache \subseteq Items /\ (pc \in {"feed", "retryFeed"} => item \in Items)
    BY DEF IndInv, TypeOK, PhaseInv
  <1>8. QED
    BY <1>1, <1>2, <1>3, <1>4, <1>5, <1>6, <1>7

(* Nobody works before the chain is loaded. *)
LEMMA EarlyQuiet ==
    ASSUME IndInv, IdleInv, pc \in Early
    PROVE  ~WorkerStep /\ ~Push
  <1>1. \A w \in Workers : queue[w] = <<>> /\ busy[w] = NoItem
    BY DEF IdleInv, Idle
  <1>2. ~WorkerStep
    BY <1>1, WorkerLine
  <1>3. ~Push
    BY DEF Push, Early
  <1>4. QED
    BY <1>2, <1>3

(* The process starts again: nobody works. *)
LEMMA ResetLines ==
    ASSUME Crash \/ CrashInAppend
    PROVE  /\ pc' = "start" /\ dumpCache' = {} /\ saved' = saved
           /\ \A w \in Workers : queue'[w] = <<>> /\ busy'[w] = NoItem
           /\ \A w \in Savers : lastSaved'[w] = 0
  BY DEF Crash, CrashInAppend, Restart, Reset, Goto

(* The chain is only loaded after a start. *)
LEMMA EarlyFrom ==
    ASSUME [Next]_vars, pc' \in Early, ~Crash, ~CrashInAppend
    PROVE  pc \in Early
  BY DEF Next, SyncStep, Load, Walk, LoadDone, LoadThrows, StartWorkers, RetryFromFile,
     RetryFromNetwork, RetryThrows, RetryDone, Push, Fed, Poll, PollThrows, Fetch, FetchEnds,
     FetchThrows, AppendDump, AppendCut, SaveTransactions, AddNew, AddKnown, AddDone, AddThrows,
     Remove, SaveBlock, SaveThrows, WorkerStep, CacheThread, SaverThread, Pop, CacheBlock,
     WorkerSkips, WorkerRejects, WorkerSaves, WorkerThrows, Finish, vars, Goto, Again, Offer, Early

(* Every step keeps: nobody works before the workers are started. *)
LEMMA IdleStep ==
    ASSUME IndInv, FeedInv, IdleInv, [Next]_vars
    PROVE  IdleInv'
  <1>1. CASE Crash \/ CrashInAppend
    BY <1>1, ResetLines DEF IdleInv, Idle
  <1>2. CASE Push
    <2>1. PICK w \in Workers : /\ w \in Running /\ UNCHANGED <<busy, dumpCache, pc>>
                               /\ \A v \in Workers \ {w} : queue'[v] = queue[v]
      BY <1>2, PushLine
    <2>2. pc' \notin Early
      BY <1>2 DEF Push, Early
    <2>3. QED
      BY <2>1, <2>2 DEF IdleInv, Idle, Running
  <1>3. CASE WorkerStep
    <2>1. PICK w \in Workers : /\ \A v \in Workers \ {w} : queue'[v] = queue[v] /\ busy'[v] = busy[v]
                               /\ ~Idle(w)
      BY <1>3, WorkerLine DEF Idle
    <2>2. w \in Running
      BY <2>1 DEF IdleInv
    <2>3. pc \notin Early
      BY <1>3, EarlyQuiet
    <2>4. pc' = pc
      BY <1>3 DEF WorkerStep, CacheThread, SaverThread, Pop, CacheBlock, WorkerSkips,
         WorkerRejects, WorkerSaves, WorkerThrows, Finish
    <2>5. QED
      BY <2>1, <2>2, <2>3, <2>4 DEF IdleInv, Idle, Running
  <1>4. CASE ~Push /\ ~WorkerStep /\ ~Crash /\ ~CrashInAppend
    <2>1. UNCHANGED <<queue, busy, dumpCache, saved>>
      BY <1>4, LinesKept
    <2>2. pc' \in Early => pc \in Early
      BY <1>4, EarlyFrom
    <2>3. QED
      BY <2>1, <2>2 DEF IdleInv, Idle, Running
  <1>5. QED
    BY <1>1, <1>2, <1>3, <1>4

(* The steps that lead to the handing out of an item, or stay there. *)
LEMMA FeedFrom ==
    ASSUME [Next]_vars, pc' \in {"feed", "retryFeed"}
    PROVE  \/ AddDone \/ RetryFromFile \/ RetryFromNetwork \/ Push
           \/ UNCHANGED <<pc, feedTo, item, retryNum, hashes>>
  <1>1. CASE AddDone \/ RetryFromFile \/ RetryFromNetwork \/ Push
    BY <1>1
  <1>2. CASE WorkerStep
    BY <1>2 DEF WorkerStep, CacheThread, SaverThread, Pop, CacheBlock, WorkerSkips,
       WorkerRejects, WorkerSaves, WorkerThrows, Finish, chainVars, feedVars
  <1>3. CASE UNCHANGED vars
    BY <1>3 DEF vars, chainVars, feedVars
  <1>4. CASE Crash \/ CrashInAppend
    BY <1>4, ResetLines
  <1>5. CASE SyncStep /\ ~(AddDone \/ RetryFromFile \/ RetryFromNetwork \/ Push)
    BY <1>5 DEF SyncStep, Load, Walk, LoadDone, LoadThrows, StartWorkers, RetryThrows, RetryDone,
       Fed, Poll, PollThrows, Fetch, FetchEnds, FetchThrows, AppendDump, AppendCut,
       SaveTransactions, AddNew, AddKnown, AddThrows, Remove, SaveBlock, SaveThrows, Goto, Again
  <1>6. QED
    BY <1>1, <1>2, <1>3, <1>4, <1>5 DEF Next

(* The block of the chain with a number is one that the servers answer for  *)
(* this number.                                                             *)
LEMMA ChainAnswers ==
    ASSUME IndInv, NEW c, ChainState(c), NEW n \in 1..CountBlocks
    PROVE  n <= MaxBlock /\ hashes[n + 1] \in Answers[n]
  <1>1. Len(hashes) \in Nat /\ Len(hashes) > 1
    BY WorkFacts DEF CountBlocks
  <1>2. PICK s : Linked(s) /\ ChainIs(s)
    BY <1>1, ChainOf
  <1>3. s \in Seq(Blocks) /\ Len(hashes) = Len(s) + 1 /\ \A i \in 1..Len(s) : hashes[i + 1] = s[i]
    BY <1>2 DEF Linked, ChainIs, Follows
  <1>4. Len(s) \in Nat
    BY <1>3
  <1>5. n \in 1..Len(s)
    BY <1>1, <1>3, <1>4 DEF CountBlocks
  <1>6. QED
    BY <1>2, <1>3, <1>5 DEF Linked

(* The block that a worker gets again is the one of the chain. *)
LEMMA CaughtUpRight ==
    ASSUME IndInv, NEW c, ChainState(c), DumpNeverWrong, ServersAgree,
           RetryFromFile \/ RetryFromNetwork
    PROVE  item'.hash = hashes[retryNum + 1]
  <1>1. /\ retryNum \in 1..CountBlocks /\ Len(hashes) \in Nat /\ retryNum + 1 \in 1..Len(hashes)
        /\ pc = "retry"
    <2>1. pc = "retry" /\ retryNum <= CountBlocks
      BY DEF RetryFromFile, RetryFromNetwork
    <2>2. retryNum >= 1
      BY <2>1 DEF IndInv, PhaseInv
    <2>3. QED
      BY <2>1, <2>2, WorkFacts DEF CountBlocks
  <1>2. CASE RetryFromFile
    <2>1. hashes[retryNum + 1] \in blocks
      BY <1>1, ChainFacts DEF ChainNumbered
    <2>2. hashes[retryNum + 1] # Genesis
      BY <1>1, ChainFacts, ChainInjective
    <2>3. /\ SaveToFiles /\ file[filePos[hashes[retryNum + 1]]] # Torn
          /\ item'.hash = file[filePos[hashes[retryNum + 1]]]
      BY <1>2 DEF RetryFromFile, Readable, Offer
    <2>4. DumpAt(hashes[retryNum + 1], filePos[hashes[retryNum + 1]])
      BY <2>1, <2>2, <2>3 DEF DumpNeverWrong
    <2>5. QED
      BY <2>3, <2>4 DEF DumpAt
  <1>3. CASE RetryFromNetwork
    <2>1. PICK b \in Answers[retryNum] : item'.hash = b
      BY <1>3 DEF RetryFromNetwork, Offer
    <2>2. hashes[retryNum + 1] \in Answers[retryNum] /\ retryNum \in 1..MaxBlock
      BY <1>1, ChainAnswers, SyncAssumption
    <2>3. QED
      BY <2>1, <2>2 DEF ServersAgree
  <1>4. QED
    BY <1>2, <1>3

(* Every step keeps: the block that is handed out is that of its number. *)
LEMMA FeedStep ==
    ASSUME IndInv, FetchInv, NEW c, ChainState(c), DumpNeverWrong, FeedInv, [Next]_vars
    PROVE  FeedInv'
  <1> SUFFICES ASSUME pc' \in {"feed", "retryFeed"}
               PROVE  FeedInv'
    BY DEF FeedInv
  <1>1. CASE AddDone
    <2>1. /\ pc' = "feed" /\ Len(hashes') = Len(hashes) + 1 /\ AllNum = Len(hashes)
          /\ UNCHANGED biVars /\ ChainState(c)'
      BY <1>1, AddDoneState
    <2>2. item' = [hash |-> prevBi, number |-> Len(hashes)] /\ feedTo' = workers
      BY <1>1, <2>1, WorkFacts DEF AddDone
    <2>3. Len(hashes) \in Nat /\ Len(hashes) >= 1
      BY WorkFacts
    <2>4. PICK d : d = Append(c, prevBi)
      OBVIOUS
    <2>5. Follows(hashes', d)
      BY <2>1, <2>4 DEF ChainState, ChainIs, biVars
    <2>6. c \in Seq(Blocks) /\ prevBi \in Blocks
      <3>1. pc = "addCalc"
        BY <1>1 DEF AddDone
      <3>2. QED
        BY <3>1 DEF ChainState, Linked, IndInv, PhaseInv, InHand
    <2>7. Len(c) \in Nat /\ Len(d) = Len(c) + 1 /\ d[Len(c) + 1] = prevBi
      BY <2>4, <2>6
    <2>8. hashes'[Len(hashes) + 1] = prevBi
      BY <2>1, <2>3, <2>5, <2>7 DEF Follows
    <2>9. item'.number = CountBlocks' /\ OnPlace(item)'
      BY <2>1, <2>2, <2>3, <2>8 DEF OnPlace, CountBlocks
    <2>10. feedTo' \in FeedSeqs /\ \A w : Place(feedTo', w) => w \in Running
      BY <2>2, RunningIs
    <2>11. QED
      BY <2>1, <2>9, <2>10 DEF FeedInv, Running
  <1>2. CASE RetryFromFile \/ RetryFromNetwork
    <2>1. /\ pc = "retry" /\ pc' = "retryFeed" /\ retryNum <= CountBlocks /\ retryNum' = retryNum
          /\ feedTo' = Behind(retryNum) /\ item'.number = retryNum /\ hashes' = hashes
      BY <1>2 DEF RetryFromFile, RetryFromNetwork, Offer, Goto, chainVars
    <2>2. /\ feedTo' \in FeedSeqs /\ ~Place(feedTo', "cache")
          /\ \A w : Place(feedTo', w) => w \in Running
      BY <2>1, BehindIs
    <2>3. retryNum >= 1 /\ retryNum \in Nat /\ CountBlocks \in Nat
      BY <2>1, WorkFacts DEF IndInv, PhaseInv
    <2>4. ServersAgree => OnPlace(item)'
      <3> SUFFICES ASSUME ServersAgree PROVE OnPlace(item)'
        OBVIOUS
      <3>1. item'.hash = hashes[retryNum + 1]
        BY <1>2, CaughtUpRight
      <3>2. QED
        BY <2>1, <2>3, <3>1 DEF OnPlace, CountBlocks
    <2>5. retryNum' <= CountBlocks'
      BY <2>1 DEF CountBlocks
    <2>6. QED
      BY <2>1, <2>2, <2>4, <2>5 DEF FeedInv, Running, ServersAgree
  <1>3. CASE Push
    <2>1. /\ feedTo' = Tail(feedTo) /\ feedTo' \in FeedSeqs
          /\ UNCHANGED <<chainVars, pc, item, retryNum>>
          /\ \A v : Pending(v)' => Pending(v)
      BY <1>3, PushLine
    <2>2. \A v : Place(feedTo', v) => Place(feedTo, v)
      BY <2>1 DEF Pending
    <2>3. hashes' = hashes
      BY <2>1 DEF chainVars
    <2>4. QED
      BY <2>1, <2>2, <2>3 DEF FeedInv, Running, ServersAgree, OnPlace, CountBlocks
  <1>4. CASE UNCHANGED <<pc, feedTo, item, retryNum, hashes>>
    BY <1>4 DEF FeedInv, Running, ServersAgree, OnPlace, CountBlocks
  <1>5. QED
    BY <1>1, <1>2, <1>3, <1>4, FeedFrom

(* Outside of a start, what is in a line or in the cache keeps its place. *)
LEMMA PlacesStep ==
    ASSUME IndInv, IdleInv, FeedInv, PlacesInv, [Next]_vars
    PROVE  PlacesInv'
  <1>0. /\ \A w \in Workers : queue[w] \in Seq(Items) /\ busy[w] \in Items \cup {NoItem}
        /\ dumpCache \subseteq Items /\ \A it \in Items : it.number \in Nat
        /\ \A w \in Workers : \A i \in 1..Len(queue[w]) : queue[w][i] \in Items
    BY WorkFacts
  <1>t. Trusted \subseteq Workers /\ Trusted' = Trusted
    BY DEF Trusted, Workers, ServersAgree
  <1>1. CASE Crash \/ CrashInAppend
    BY <1>1, <1>t, ResetLines DEF PlacesInv
  <1>2. CASE pc = "start" /\ ~Crash /\ ~CrashInAppend
    <2>1. ~WorkerStep /\ ~Push
      BY <1>2, EarlyQuiet DEF Early
    <2>2. UNCHANGED <<queue, busy, dumpCache>>
      BY <1>2, <2>1, LinesKept
    <2>3. dumpCache = {} /\ \A w \in Workers : queue[w] = <<>> /\ busy[w] = NoItem
      BY <1>2 DEF IdleInv, Idle, Early
    <2>4. QED
      BY <2>2, <2>3, <1>t DEF PlacesInv
  <1>3. CASE pc # "start" /\ ~Crash /\ ~CrashInAppend
    <2>1. pc' # "start"
      BY <1>3 DEF Next, SyncStep, Load, Walk, LoadDone, LoadThrows, StartWorkers,
         RetryFromFile, RetryFromNetwork, RetryThrows, RetryDone, Push, Fed, Poll, PollThrows, Fetch,
         FetchEnds, FetchThrows, AppendDump, AppendCut, SaveTransactions, AddNew, AddKnown, AddDone,
         AddThrows, Remove, SaveBlock, SaveThrows, WorkerStep, CacheThread, SaverThread, Pop,
         CacheBlock, WorkerSkips, WorkerRejects, WorkerSaves, WorkerThrows, Finish, vars, Goto,
         Again, Offer
    <2>2. ASSUME NEW it, it \in Items, OnPlace(it) PROVE OnPlace(it)'
      BY <1>0, <1>3, <2>1, <2>2, PlaceKept
    <2>3. ASSUME NEW w \in Trusted
          PROVE  /\ \A i \in 1..Len(queue[w]) : OnPlace(queue[w][i])
                 /\ busy[w] # NoItem => OnPlace(busy[w])
      BY <2>3 DEF PlacesInv
    <2>4. \A d \in dumpCache : OnPlace(d)
      BY DEF PlacesInv
    <2>5. CASE Push
      <3>1. PICK w \in Workers :
               /\ w \in Running /\ Pending(w) /\ UNCHANGED <<chainVars, busy, dumpCache>>
               /\ \A v \in Workers \ {w} : queue'[v] = queue[v]
               /\ queue'[w] = queue[w] \/ queue'[w] = Append(queue[w], item)
        BY <2>5, PushLine
      <3>2. \A it : OnPlace(it)' <=> OnPlace(it)
        BY <3>1 DEF OnPlace, CountBlocks, chainVars
      <3>3. w \in Trusted => OnPlace(item)
        BY <3>1 DEF FeedInv, Pending, Trusted
      <3>4. item \in Items
        BY <3>1, WorkFacts DEF Pending
      <3>5. \A v \in Trusted : \A i \in 1..Len(queue'[v]) : OnPlace(queue'[v][i])
        <4> TAKE v \in Trusted
        <4>1. CASE queue'[v] = queue[v]
          BY <4>1, <2>3
        <4>2. CASE v = w /\ queue'[w] = Append(queue[w], item)
          <5>1. /\ Len(queue[w]) \in Nat /\ Len(queue'[w]) = Len(queue[w]) + 1
                /\ queue'[w][Len(queue[w]) + 1] = item
                /\ \A i \in 1..Len(queue[w]) : queue'[w][i] = queue[w][i]
            BY <4>2, <3>4, <1>0
          <5>2. \A i \in 1..Len(queue'[w]) : i \in 1..Len(queue[w]) \/ i = Len(queue[w]) + 1
            BY <5>1
          <5>3. QED
            BY <4>2, <5>1, <5>2, <3>3, <2>3
        <4>3. QED
          BY <4>1, <4>2, <3>1, <1>t
      <3>6. QED
        BY <3>1, <3>2, <3>5, <2>3, <2>4, <1>t DEF PlacesInv
    <2>6. CASE WorkerStep
      <3>1. UNCHANGED hashes
        BY <2>6 DEF WorkerStep, CacheThread, SaverThread, Pop, CacheBlock, WorkerSkips,
           WorkerRejects, WorkerSaves, WorkerThrows, Finish, chainVars
      <3>2. \A it : OnPlace(it)' <=> OnPlace(it)
        BY <3>1 DEF OnPlace, CountBlocks
      <3>3. PICK w \in Workers :
              /\ \A v \in Workers \ {w} : queue'[v] = queue[v] /\ busy'[v] = busy[v]
              /\ \/ /\ busy[w] = NoItem /\ queue[w] # <<>>
                    /\ queue'[w] = Tail(queue[w]) /\ busy'[w] = Head(queue[w])
                    /\ UNCHANGED dumpCache
                 \/ /\ busy[w] # NoItem
                    /\ queue'[w] = queue[w] /\ busy'[w] = NoItem
                    /\ (w = "cache" /\ CacheBlock) \/ UNCHANGED dumpCache
        BY <2>6, WorkerLine
      <3>4. ASSUME NEW v \in Trusted
            PROVE  /\ \A i \in 1..Len(queue'[v]) : OnPlace(queue'[v][i])
                   /\ busy'[v] # NoItem => OnPlace(busy'[v])
        <4>1. CASE v # w \/ busy[w] # NoItem
          BY <4>1, <3>3, <2>3, <1>t
        <4>2. CASE v = w /\ busy[w] = NoItem
          <5>1. queue[w] # <<>> /\ queue'[w] = Tail(queue[w]) /\ busy'[w] = Head(queue[w])
            BY <4>2, <3>3
          <5>2. /\ Len(queue[w]) \in Nat /\ Len(queue[w]) >= 1 /\ Head(queue[w]) = queue[w][1]
                /\ Len(Tail(queue[w])) = Len(queue[w]) - 1
                /\ \A i \in 1..Len(Tail(queue[w])) : Tail(queue[w])[i] = queue[w][i + 1]
            BY <5>1, <1>0, HeadTailProperties
          <5>3. 1 \in 1..Len(queue[w]) /\ \A i \in 1..Len(Tail(queue[w])) : i + 1 \in 1..Len(queue[w])
            BY <5>2
          <5>4. QED
            BY <4>2, <5>1, <5>2, <5>3, <2>3
        <4>3. QED
          BY <4>1, <4>2
      <3>5. \A d \in dumpCache' : OnPlace(d)
        <4>1. CASE UNCHANGED dumpCache
          BY <4>1, <2>4
        <4>2. CASE CacheBlock
          <5>1. dumpCache' \subseteq dumpCache \cup {busy["cache"]} /\ busy["cache"] # NoItem
            BY <4>2 DEF CacheBlock, Finish
          <5>2. OnPlace(busy["cache"])
            BY <5>1, <2>3 DEF Trusted, Workers
          <5>3. QED
            BY <5>1, <5>2, <2>4
        <4>3. QED
          BY <4>1, <4>2, <3>3
      <3>6. QED
        BY <3>2, <3>4, <3>5, <1>t DEF PlacesInv
    <2>7. CASE ~Push /\ ~WorkerStep
      <3>1. UNCHANGED <<queue, busy, dumpCache>>
        BY <1>3, <2>7, LinesKept
      <3>2. \A d \in dumpCache : d \in Items
        BY <1>0
      <3>3. \A w \in Trusted : busy[w] # NoItem => busy[w] \in Items
        BY <1>0, <1>t
      <3>4. \A w \in Trusted : \A i \in 1..Len(queue[w]) : queue[w][i] \in Items
        BY <1>0, <1>t
      <3>5. \A d \in dumpCache' : OnPlace(d)'
        BY <3>1, <3>2, <2>2, <2>4
      <3>6. \A w \in Trusted : busy'[w] # NoItem => OnPlace(busy[w])'
        BY <3>1, <3>3, <2>2, <2>3
      <3>7. \A w \in Trusted : \A i \in 1..Len(queue'[w]) : OnPlace(queue[w][i])'
        BY <3>1, <3>4, <2>2, <2>3
      <3>8. QED
        BY <3>1, <3>5, <3>6, <3>7, <1>t DEF PlacesInv
    <2>8. QED
      BY <2>5, <2>6, <2>7
  <1>4. QED
    BY <1>1, <1>2, <1>3

(* The chain grows at the end of a start and when a block is added, and is  *)
(* put back to the genesis block when the process starts.                   *)
LEMMA ChainGrows ==
    ASSUME [Next]_vars, ~Load, ~LoadDone, ~AddDone, ~Crash, ~CrashInAppend
    PROVE  UNCHANGED hashes
  BY DEF Next, SyncStep, Walk, LoadThrows, StartWorkers, RetryFromFile, RetryFromNetwork, RetryThrows,
     RetryDone, Push, Fed, Poll, PollThrows, Fetch, FetchEnds, FetchThrows, AppendDump, AppendCut,
     SaveTransactions, AddNew, AddKnown, AddThrows, Remove, SaveBlock, SaveThrows, WorkerStep,
     CacheThread, SaverThread, Pop, CacheBlock, WorkerSkips, WorkerRejects, WorkerSaves,
     WorkerThrows, Finish, vars, chainVars, CalcWalk, CalcThrow, AddWithoutCalc, RemoveBlock

(* The number of the next block for WorkerCache changes only when it gets   *)
(* one.                                                                     *)
LEMMA CacheNextKept ==
    ASSUME IndInv, FetchInv, NEW c, ChainState(c), FeedInv, FeedInv', [Next]_vars,
           pc \notin Early, ~Push, ~Crash, ~CrashInAppend
    PROVE  CacheNext' = CacheNext
  <1>1. ~Load /\ ~LoadDone
    BY DEF Load, LoadDone, Early
  <1>2. CASE AddDone
    <2>1. pc = "addCalc" /\ pc' = "feed" /\ feedTo' = workers /\ CountBlocks' = CountBlocks + 1
      <3>1. pc' = "feed" /\ Len(hashes') = Len(hashes) + 1 /\ AllNum = Len(hashes)
        BY <1>2, AddDoneState
      <3>2. QED
        BY <1>2, <3>1, WorkFacts DEF AddDone, CountBlocks
    <2>2. Place(feedTo', "cache")
      BY <2>1, RunningIs
    <2>3. QED
      BY <2>1, <2>2 DEF CacheNext, Pending
  <1>3. CASE ~AddDone
    <2>1. CountBlocks' = CountBlocks
      BY <1>1, <1>3, ChainGrows DEF CountBlocks
    <2>2. Pending("cache")' <=> Pending("cache")
      <3>1. CASE pc' \in {"feed", "retryFeed"}
        <4>1. CASE RetryFromFile \/ RetryFromNetwork
          <5>1. pc = "retry" /\ pc' = "retryFeed"
            BY <4>1 DEF RetryFromFile, RetryFromNetwork, Offer, Goto
          <5>2. QED
            BY <5>1 DEF FeedInv, Pending
        <4>2. CASE UNCHANGED <<pc, feedTo, item, retryNum, hashes>>
          BY <4>2 DEF Pending
        <4>3. QED
          BY <4>1, <4>2, <3>1, <1>3, FeedFrom
      <3>2. CASE pc' \notin {"feed", "retryFeed"} /\ pc \in {"feed", "retryFeed"}
        <4>1. Fed
          BY <3>2 DEF Next, SyncStep, Load, Walk, LoadDone, LoadThrows, StartWorkers, RetryFromFile,
             RetryFromNetwork, RetryThrows, RetryDone, Push, Poll, PollThrows, Fetch, FetchEnds,
             FetchThrows, AppendDump, AppendCut, SaveTransactions, AddNew, AddKnown, AddDone,
             AddThrows, Remove, SaveBlock, SaveThrows, WorkerStep, CacheThread, SaverThread, Pop,
             CacheBlock, WorkerSkips, WorkerRejects, WorkerSaves, WorkerThrows, Finish, vars
        <4>2. ~Place(feedTo, "cache")
          BY <4>1, FeedPlaces DEF Fed
        <4>3. QED
          BY <3>2, <4>2 DEF Pending
      <3>3. CASE pc' \notin {"feed", "retryFeed"} /\ pc \notin {"feed", "retryFeed"}
        BY <3>3 DEF Pending
      <3>4. QED
        BY <3>1, <3>2, <3>3
    <2>3. QED
      BY <2>1, <2>2 DEF CacheNext
  <1>4. QED
    BY <1>2, <1>3

(* Every step keeps: the blocks reach WorkerCache in their order, one after *)
(* the other.                                                               *)
LEMMA CacheStep ==
    ASSUME IndInv, FetchInv, NEW c, ChainState(c), IdleInv, FeedInv, FeedInv', CacheInv, [Next]_vars
    PROVE  CacheInv'
  <1>0. /\ CacheNext \in Int /\ CountBlocks \in Nat /\ CacheSize \in Nat /\ "cache" \in Workers
        /\ queue["cache"] \in Seq(Items) /\ busy["cache"] \in Items \cup {NoItem}
        /\ \A d \in dumpCache : d.number \in Nat
    BY WorkFacts DEF Workers
  <1>n. CacheNext' \in Int
    <2>1. IndInv'
      BY StepInd
    <2>2. Len(hashes)' \in Nat
      BY <2>1, ChainFacts DEF IndInv, TypeOK, BlockChainTypeOK
    <2>3. QED
      BY <2>2 DEF CacheNext, CountBlocks
  <1>i. ASSUME queue'["cache"] = <<>>, busy'["cache"] = NoItem, dumpCache' = {}
        PROVE  CacheInv'
    BY <1>i, <1>n, LineEmpty DEF CacheInv, CacheFirst
  <1>1. CASE Crash \/ CrashInAppend
    BY <1>0, <1>1, <1>i, ResetLines
  <1>2. CASE pc \in Early /\ ~Crash /\ ~CrashInAppend
    <2>1. UNCHANGED <<queue, busy, dumpCache>>
      BY <1>2, EarlyQuiet, LinesKept
    <2>2. QED
      BY <1>0, <1>2, <1>i, <2>1 DEF IdleInv, Idle
  <1>3. CASE pc \notin Early /\ ~Push /\ ~WorkerStep /\ ~Crash /\ ~CrashInAppend
    <2>1. UNCHANGED <<queue, busy, dumpCache>> /\ CacheNext' = CacheNext
      BY <1>3, LinesKept, CacheNextKept
    <2>2. QED
      BY <2>1 DEF CacheInv, CacheFirst, InLine, First
  <1>4. CASE Push
    <2>1. PICK w \in Workers :
              /\ Pending(w) /\ \A v : Pending(v)' <=> v # w /\ Pending(v)
              /\ \A v \in Workers \ {w} : queue'[v] = queue[v]
              /\ \/ Unwanted(w) /\ queue'[w] = queue[w]
                 \/ ~Unwanted(w) /\ queue'[w] = Append(queue[w], item)
              /\ UNCHANGED <<chainVars, busy, dumpCache, pc>>
      BY <1>4, PushLine
    <2>2. CountBlocks' = CountBlocks
      BY <2>1 DEF CountBlocks, chainVars
    <2>3. CASE w # "cache"
      <3>1. queue'["cache"] = queue["cache"] /\ CacheNext' = CacheNext
        BY <1>0, <2>1, <2>2, <2>3 DEF CacheNext
      <3>2. QED
        BY <2>1, <3>1 DEF CacheInv, CacheFirst, InLine, First
    <2>4. CASE w = "cache"
      <3>1. queue'["cache"] = Append(queue["cache"], item)
        BY <2>1, <2>4 DEF Unwanted
      <3>2. CacheNext = CountBlocks /\ CacheNext' = CacheNext + 1
        BY <2>1, <2>2, <2>4 DEF CacheNext
      <3>3. item.number = CacheNext /\ item \in Items
        BY <2>1, <2>4, <3>2, WorkFacts DEF FeedInv, Pending
      <3>4. /\ InLine(Append(queue["cache"], item), busy["cache"], CacheNext + 1)
            /\ First(Append(queue["cache"], item), busy["cache"], CacheNext + 1)
                  = First(queue["cache"], busy["cache"], CacheNext)
        BY <1>0, <3>3, LinePush DEF CacheInv, CacheFirst
      <3>5. QED
        BY <2>1, <3>1, <3>2, <3>4 DEF CacheInv, CacheFirst
    <2>5. QED
      BY <2>3, <2>4
  <1>5. CASE WorkerStep /\ pc \notin Early
    <2>1. CacheNext' = CacheNext
      BY <1>5 DEF CacheNext, CountBlocks, Pending, WorkerStep, CacheThread, SaverThread, Pop,
         CacheBlock, WorkerSkips, WorkerRejects, WorkerSaves, WorkerThrows, Finish, chainVars, feedVars
    <2>2. PICK w \in Workers :
              /\ \A v \in Workers \ {w} : queue'[v] = queue[v] /\ busy'[v] = busy[v]
              /\ \/ /\ busy[w] = NoItem /\ queue[w] # <<>>
                    /\ queue'[w] = Tail(queue[w]) /\ busy'[w] = Head(queue[w])
                    /\ UNCHANGED dumpCache
                 \/ /\ busy[w] # NoItem
                    /\ queue'[w] = queue[w] /\ busy'[w] = NoItem
                    /\ \/ w = "cache" /\ CacheBlock
                       \/ w \in Savers /\ UNCHANGED dumpCache
      BY <1>5, WorkerLine
    <2>3. CASE w # "cache"
      BY <1>0, <2>1, <2>2, <2>3 DEF CacheInv, CacheFirst
    <2>4. CASE w = "cache" /\ busy[w] = NoItem
      <3>1. /\ queue["cache"] # <<>> /\ queue'["cache"] = Tail(queue["cache"])
            /\ busy["cache"] = NoItem /\ busy'["cache"] = Head(queue["cache"]) /\ UNCHANGED dumpCache
        BY <2>2, <2>4
      <3>2. InLine(queue["cache"], NoItem, CacheNext)
        BY <3>1 DEF CacheInv, CacheFirst
      <3>3. /\ InLine(Tail(queue["cache"]), Head(queue["cache"]), CacheNext)
            /\ First(Tail(queue["cache"]), Head(queue["cache"]), CacheNext)
                  = First(queue["cache"], NoItem, CacheNext)
        BY <1>0, <3>1, <3>2, LinePop
      <3>4. QED
        BY <2>1, <3>1, <3>3 DEF CacheInv, CacheFirst
    <2>5. CASE w = "cache" /\ busy[w] # NoItem
      <3>1. /\ busy["cache"] # NoItem /\ queue'["cache"] = queue["cache"] /\ busy'["cache"] = NoItem
            /\ CacheBlock
        BY <2>2, <2>5 DEF Savers
      <3>0. PICK k : k = First(queue["cache"], busy["cache"], CacheNext)
        OBVIOUS
      <3>2. /\ InLine(queue["cache"], NoItem, CacheNext)
            /\ k = busy["cache"].number
            /\ First(queue["cache"], NoItem, CacheNext) = k + 1
        BY <1>0, <3>0, <3>1, LineFinish DEF CacheInv, CacheFirst
      <3>3. k \in Nat
        BY <1>0, <3>1, <3>2, WorkFacts
      <3>4. \A d \in dumpCache : d.number < k /\ d.number >= k - CacheSize
        BY <3>0 DEF CacheInv, CacheFirst
      <3>5. \A d \in dumpCache' : d.number < k + 1 /\ d.number >= k + 1 - CacheSize
        <4>1. CASE CacheSize = 0
          <5>1. dumpCache' = dumpCache
            BY <3>1, <4>1 DEF CacheBlock
          <5>2. \A d \in dumpCache : FALSE
            BY <1>0, <3>3, <3>4, <4>1
          <5>3. QED
            BY <5>1, <5>2
        <4>2. CASE CacheSize # 0
          <5>1. dumpCache' = {d \in dumpCache \cup {busy["cache"]} : d.number # k - CacheSize}
            BY <3>1, <3>2, <4>2 DEF CacheBlock, Evicted
          <5>2. QED
            BY <1>0, <3>2, <3>3, <3>4, <4>2, <5>1
        <4>3. QED
          BY <4>1, <4>2
      <3>6. /\ InLine(queue'["cache"], busy'["cache"], CacheNext')
            /\ First(queue'["cache"], busy'["cache"], CacheNext') = k + 1
        BY <2>1, <3>1, <3>2
      <3>7. QED
        BY <1>0, <3>3, <3>5, <3>6 DEF CacheInv, CacheFirst
    <2>6. QED
      BY <2>3, <2>4, <2>5
  <1>6. QED
    BY <1>1, <1>2, <1>3, <1>4, <1>5, EarlyQuiet

(* What a saver has saved changes only when it saves a block; what it had   *)
(* saved when it started is read at a start.                                *)
LEMMA SavedFrom ==
    ASSUME [Next]_vars
    PROVE  \/ Crash \/ CrashInAppend \/ StartWorkers
           \/ \E w \in Savers : WorkerSaves(w)
           \/ UNCHANGED <<saved, lastSaved>>
  BY DEF Next, SyncStep, Load, Walk, LoadDone, LoadThrows, RetryFromFile, RetryFromNetwork,
     RetryThrows, RetryDone, Push, Fed, Poll, PollThrows, Fetch, FetchEnds, FetchThrows, AppendDump,
     AppendCut, SaveTransactions, AddNew, AddKnown, AddDone, AddThrows, Remove, SaveBlock,
     SaveThrows, WorkerStep, CacheThread, SaverThread, Pop, CacheBlock, WorkerSkips, WorkerRejects,
     WorkerThrows, Finish, vars

(* What a saver saves. *)
LEMMA WorkerSaved ==
    ASSUME IndInv, NEW w \in Savers, WorkerSaves(w)
    PROVE  /\ busy[w] \in Items /\ busy[w] # NoItem /\ w \in Workers
           /\ saved'[w].number = busy[w].number /\ saved'[w].hash = busy[w].hash
           /\ saved[w].number \in Nat /\ saved'[w].number > saved[w].number
           /\ saved[w].hash = NoHash \/ saved[w].hash = prevHash[busy[w].hash]
           /\ \A v \in Savers \ {w} : saved'[v] = saved[v]
           /\ UNCHANGED <<lastSaved, hashes, pc, budget>>
  <1>1. w \in Workers /\ saved \in [Savers -> SavedType]
    BY DEF Savers, Workers, IndInv, TypeOK
  <1>2. busy[w] # NoItem /\ ~Old(w) /\ Fits(w) /\ UNCHANGED <<lastSaved, hashes, pc, budget>>
    BY DEF WorkerSaves, Finish, chainVars
  <1>3. busy[w] \in Items
    BY <1>1, <1>2, WorkFacts
  <1>4. saved[w].number \in Nat /\ busy[w].number \in Nat
    BY <1>1, <1>3 DEF SavedType, Items
  <1>5. saved' = [saved EXCEPT ![w] = [number |-> busy[w].number, hash |-> busy[w].hash]]
    BY DEF WorkerSaves
  <1>6. saved'[w] = [number |-> busy[w].number, hash |-> busy[w].hash]
    BY <1>1, <1>5
  <1>7. \A v \in Savers \ {w} : saved'[v] = saved[v]
    BY <1>1, <1>5
  <1>8. saved'[w].number = busy[w].number /\ saved'[w].hash = busy[w].hash
    BY <1>6
  <1>9. busy[w].number > saved[w].number
    BY <1>2, <1>4 DEF Old
  <1>10. saved[w].hash = NoHash \/ saved[w].hash = prevHash[busy[w].hash]
    BY <1>2 DEF Fits
  <1>11. QED
    BY <1>1, <1>2, <1>3, <1>4, <1>7, <1>8, <1>9, <1>10

(* Every step keeps: a saver has saved a block of the chain. *)
LEMMA SavedStep ==
    ASSUME IndInv, NEW c, ChainState(c), PlacesInv, SavedInv, [Next]_vars
    PROVE  SavedInv'
  <1>0. /\ saved \in [Savers -> SavedType] /\ lastSaved \in [Savers -> Nat]
        /\ \A w \in Savers : saved[w].number \in Nat
    BY DEF IndInv, TypeOK, SavedType
  <1>1. CASE Crash \/ CrashInAppend
    <2>1. saved' = saved /\ \A w \in Savers : lastSaved'[w] = 0
      BY <1>1, ResetLines
    <2>2. QED
      BY <1>0, <2>1 DEF SavedInv, ServersAgree
  <1>2. CASE StartWorkers
    <2>1. saved' = saved /\ \A w \in Savers : lastSaved'[w] = saved[w].number
      BY <1>2 DEF StartWorkers
    <2>2. QED
      BY <1>0, <2>1 DEF SavedInv, ServersAgree
  <1>3. ASSUME NEW w \in Savers, WorkerSaves(w)
        PROVE  SavedInv'
    <2>1. /\ busy[w] \in Items /\ busy[w] # NoItem /\ w \in Workers
          /\ saved'[w].number = busy[w].number /\ saved'[w].hash = busy[w].hash
          /\ saved'[w].number > saved[w].number
          /\ \A v \in Savers \ {w} : saved'[v] = saved[v]
          /\ UNCHANGED lastSaved
      BY <1>3, WorkerSaved
    <2>2. busy[w].hash # NoHash /\ busy[w].number \in Nat
      BY <2>1, WorkFacts, Markers
    <2>3. ServersAgree => busy[w].number <= MaxBlock /\ busy[w].hash \in Answers[busy[w].number]
      <3> SUFFICES ASSUME ServersAgree
                   PROVE  busy[w].number <= MaxBlock /\ busy[w].hash \in Answers[busy[w].number]
        OBVIOUS
      <3>1. OnPlace(busy[w])
        BY <2>1 DEF PlacesInv, Trusted
      <3>2. busy[w].number \in 1..CountBlocks /\ busy[w].hash = hashes[busy[w].number + 1]
        BY <3>1 DEF OnPlace
      <3>3. QED
        BY <3>2, ChainAnswers
    <2>4. /\ saved'[w].number = 0 <=> saved'[w].hash = NoHash
          /\ lastSaved'[w] <= saved'[w].number
          /\ ServersAgree /\ saved'[w].number > 0 =>
                saved'[w].number <= MaxBlock /\ saved'[w].hash \in Answers[saved'[w].number]
      BY <1>0, <2>1, <2>2, <2>3 DEF SavedInv
    <2>5. QED
      BY <2>1, <2>4 DEF SavedInv, ServersAgree
  <1>4. CASE UNCHANGED <<saved, lastSaved>>
    BY <1>4 DEF SavedInv, ServersAgree
  <1>5. QED
    BY <1>1, <1>2, <1>3, <1>4, SavedFrom

(* The number of the next block for a saver that has saved nothing changes  *)
(* only when it gets one.                                                   *)
LEMMA SaverNextKept ==
    ASSUME IndInv, FetchInv, NEW c, ChainState(c), FeedInv, [Next]_vars,
           pc \notin Early, ~Push, ~Crash, ~CrashInAppend,
           NEW w \in Savers \cap Running, lastSaved[w] = 0,
           pc = "retry" => retryNum <= CountBlocks + 1
    PROVE  SaverNext(w)' = SaverNext(w) /\ (pc' = "retry" => retryNum' <= CountBlocks' + 1)
  <1>0. CountBlocks \in Nat /\ retryNum \in Nat
    BY WorkFacts
  <1>1. CASE AddDone
    <2>1. pc = "addCalc" /\ pc' = "feed" /\ feedTo' = workers /\ CountBlocks' = CountBlocks + 1
      <3>1. pc' = "feed" /\ Len(hashes') = Len(hashes) + 1 /\ AllNum = Len(hashes)
        BY <1>1, AddDoneState
      <3>2. QED
        BY <1>1, <3>1, WorkFacts DEF AddDone, CountBlocks
    <2>2. Place(feedTo', w)
      BY <2>1, RunningIs
    <2>3. QED
      BY <2>1, <2>2 DEF SaverNext, Pending
  <1>2. CASE RetryFromFile \/ RetryFromNetwork
    <2>1. /\ pc = "retry" /\ pc' = "retryFeed" /\ retryNum' = retryNum
          /\ feedTo' = Behind(retryNum)
      BY <1>2 DEF RetryFromFile, RetryFromNetwork, Offer, Goto
    <2>2. retryNum >= 1
      BY <2>1 DEF IndInv, PhaseInv
    <2>3. Place(feedTo', w)
      BY <1>0, <2>1, <2>2, BehindIs
    <2>4. QED
      BY <2>1, <2>3 DEF SaverNext, RetryNext, Pending
  <1>3. CASE RetryThrows
    BY <1>3 DEF RetryThrows, Goto, feedVars, SaverNext, RetryNext, Pending
  <1>4. CASE RetryDone
    <2>1. /\ pc = "retry" /\ pc' = "poll" /\ retryNum > CountBlocks /\ CountBlocks' = CountBlocks
      BY <1>4 DEF RetryDone, Goto, chainVars, CountBlocks
    <2>2. retryNum = CountBlocks + 1
      BY <1>0, <2>1
    <2>3. QED
      BY <2>1, <2>2 DEF SaverNext, RetryNext, Pending
  <1>5. CASE Fed
    <2>1. ~Place(feedTo, w)
      BY <1>5, FeedPlaces DEF Fed
    <2>2. CASE pc = "feed"
      <3>1. pc' = "save" /\ CountBlocks' = CountBlocks
        BY <1>5, <2>2 DEF Fed, Goto, chainVars, CountBlocks
      <3>2. QED
        BY <2>1, <2>2, <3>1 DEF SaverNext, Pending
    <2>3. CASE pc = "retryFeed"
      <3>1. pc' = "retry" /\ retryNum' = retryNum + 1 /\ CountBlocks' = CountBlocks
        BY <1>5, <2>3 DEF Fed, Goto, chainVars, CountBlocks
      <3>2. retryNum <= CountBlocks
        BY <2>3 DEF FeedInv
      <3>3. QED
        BY <1>0, <2>1, <2>3, <3>1, <3>2 DEF SaverNext, RetryNext, Pending
    <2>4. QED
      BY <1>5, <2>2, <2>3 DEF Fed
  <1>6. CASE ~(AddDone \/ RetryFromFile \/ RetryFromNetwork \/ RetryThrows \/ RetryDone \/ Fed)
    <2> DEFINE Calm == {"poll", "fetch", "append", "add", "addCalc", "remove", "save"}
    <2>1. CountBlocks' = CountBlocks
      <3>1. ~Load /\ ~LoadDone
        BY DEF Load, LoadDone, Early
      <3>2. QED
        BY <1>6, <3>1, ChainGrows DEF CountBlocks
    <2>2. \/ UNCHANGED <<pc, feedTo, retryNum>>
          \/ pc \in Calm /\ pc' \in Calm
      <3>1. CASE WorkerStep
        BY <3>1 DEF WorkerStep, CacheThread, SaverThread, Pop, CacheBlock, WorkerSkips,
           WorkerRejects, WorkerSaves, WorkerThrows, Finish, feedVars
      <3>2. CASE UNCHANGED vars
        BY <3>2 DEF vars, feedVars
      <3>3. CASE SyncStep
        BY <1>6, <3>3 DEF SyncStep, Load, Walk, LoadDone, LoadThrows, StartWorkers, Poll, PollThrows,
           Fetch, FetchEnds, FetchThrows, AppendDump, AppendCut, SaveTransactions, AddNew, AddKnown,
           AddThrows, Remove, SaveBlock, SaveThrows, Goto, Again, feedVars, Early
      <3>4. QED
        BY <3>1, <3>2, <3>3 DEF Next
    <2>3. CASE UNCHANGED <<pc, feedTo, retryNum>>
      BY <2>1, <2>3 DEF SaverNext, RetryNext, Pending
    <2>4. CASE pc \in Calm /\ pc' \in Calm
      BY <2>1, <2>4 DEF SaverNext, Pending
    <2>5. QED
      BY <2>2, <2>3, <2>4
  <1>7. QED
    BY <1>1, <1>2, <1>3, <1>4, <1>5, <1>6

(* Faults are only spent. *)
LEMMA WorkerFaults ==
    ASSUME IndInv, [Next]_vars
    PROVE  /\ budget'["worker"] \in Nat /\ budget["worker"] \in Nat
           /\ budget'["worker"] <= budget["worker"]
           /\ \A w : WorkerThrows(w) => budget'["worker"] < budget["worker"]
  <1>0. budget \in [FaultKinds -> Nat] /\ "worker" \in FaultKinds
    BY DEF IndInv, TypeOK, FaultKinds
  <1>1. budget' = budget \/ \E k \in FaultKinds : Spend(k)
    BY DEF Next, SyncStep, Load, Walk, LoadDone, LoadThrows, StartWorkers, RetryFromFile,
       RetryFromNetwork, RetryThrows, RetryDone, Push, Fed, Poll, PollThrows, Fetch, FetchEnds,
       FetchThrows, AppendDump, AppendCut, SaveTransactions, AddNew, AddKnown, AddDone, AddThrows,
       Remove, SaveBlock, SaveThrows, WorkerStep, CacheThread, SaverThread, Pop, CacheBlock,
       WorkerSkips, WorkerRejects, WorkerSaves, WorkerThrows, Finish, Crash, CrashInAppend, Restart,
       vars, FaultKinds
  <1>2. ASSUME NEW k \in FaultKinds, Spend(k)
        PROVE  /\ budget'["worker"] \in Nat
               /\ budget'["worker"] <= budget["worker"]
    BY <1>0, <1>2 DEF Spend
  <1>3. ASSUME NEW w, WorkerThrows(w)
        PROVE  budget'["worker"] < budget["worker"]
    BY <1>0, <1>3 DEF WorkerThrows, Spend
  <1>4. QED
    BY <1>0, <1>1, <1>2, <1>3

(* The catching up begins when the chain is loaded, or never. *)
LEMMA EarlyEnds ==
    ASSUME [Next]_vars, pc \in Early, pc' \notin Early
    PROVE  pc' = "dead" \/ StartWorkers
  BY DEF Next, SyncStep, Load, Walk, LoadDone, LoadThrows, RetryFromFile, RetryFromNetwork,
     RetryThrows, RetryDone, Push, Fed, Poll, PollThrows, Fetch, FetchEnds, FetchThrows, AppendDump,
     AppendCut, SaveTransactions, AddNew, AddKnown, AddDone, AddThrows, Remove, SaveBlock,
     SaveThrows, WorkerStep, CacheThread, SaverThread, Pop, CacheBlock, WorkerSkips, WorkerRejects,
     WorkerSaves, WorkerThrows, Finish, Crash, CrashInAppend, Restart, Reset, vars, Goto, Again,
     Offer, Early

(* After the end of synchronize only the workers go on. *)
LEMMA DeadStays ==
    ASSUME [Next]_vars, pc = "dead", ~Crash, ~CrashInAppend
    PROVE  pc' = "dead" /\ ~Push
  BY DEF Next, SyncStep, Load, Walk, LoadDone, LoadThrows, StartWorkers, RetryFromFile,
     RetryFromNetwork, RetryThrows, RetryDone, Push, Fed, Poll, PollThrows, Fetch, FetchEnds,
     FetchThrows, AppendDump, AppendCut, SaveTransactions, AddNew, AddKnown, AddDone, AddThrows,
     Remove, SaveBlock, SaveThrows, WorkerStep, CacheThread, SaverThread, Pop, CacheBlock,
     WorkerSkips, WorkerRejects, WorkerSaves, WorkerThrows, Finish, vars

(* Every step keeps: a saver that has saved nothing gets block 1 next. *)
LEMMA FirstStep ==
    ASSUME IndInv, FetchInv, NEW c, ChainState(c), IdleInv, FeedInv, SavedInv, FirstInv, [Next]_vars
    PROVE  FirstInv'
  <1>1. /\ budget'["worker"] \in Nat /\ budget["worker"] \in Nat
        /\ budget'["worker"] <= budget["worker"]
        /\ \A w : WorkerThrows(w) => budget'["worker"] < budget["worker"]
    BY WorkerFaults
  <1>2. budget["worker"] <= Budget["worker"] /\ Budget["worker"] \in Nat
    BY SyncAssumption DEF FirstInv, FaultKinds
  <1>3. SUFFICES ASSUME NEW w \in Savers \cap Running, saved'[w].number = 0,
                        budget'["worker"] = Budget["worker"], pc' \notin Early
                 PROVE  FromFirst(w)' \/ (pc' = "dead" /\ queue'[w] = <<>> /\ busy'[w] = NoItem)
    BY <1>1, <1>2 DEF FirstInv, Idle, Running
  <1>4. budget["worker"] = Budget["worker"] /\ ~WorkerThrows(w)
    BY <1>1, <1>2, <1>3
  <1>5. saved[w].number = 0 /\ ~WorkerSaves(w)
    <2>0. \A v \in Savers : saved[v].number \in Nat
      BY DEF IndInv, TypeOK, SavedType
    <2>1. ASSUME NEW v \in Savers, WorkerSaves(v)
          PROVE  saved[w].number = 0 /\ v # w
      BY <1>3, <2>0, <2>1, WorkerSaved
    <2>2. ~(\E v \in Savers : WorkerSaves(v)) => saved' = saved
      <3>1. Crash \/ CrashInAppend => saved' = saved
        BY ResetLines
      <3>2. StartWorkers => saved' = saved
        BY DEF StartWorkers
      <3>3. QED
        BY <3>1, <3>2, SavedFrom
    <2>3. QED
      BY <1>3, <2>1, <2>2
  <1>6. saved[w].hash = NoHash /\ lastSaved[w] = 0
    <2>1. lastSaved[w] \in Nat
      BY DEF IndInv, TypeOK
    <2>2. QED
      BY <1>5, <2>1 DEF SavedInv
  <1>7. w \in Workers /\ w # "cache" /\ queue[w] \in Seq(Items) /\ SaverNext(w) \in Int
    BY WorkFacts DEF Savers, Workers
  <1>8. ~Crash /\ ~CrashInAppend
    BY <1>3, ResetLines DEF Early
  <1>9. CASE pc \in Early
    <2>1. UNCHANGED <<queue, busy>> /\ queue[w] = <<>> /\ busy[w] = NoItem
      BY <1>7, <1>8, <1>9, EarlyQuiet, LinesKept DEF IdleInv, Idle
    <2>2. CASE pc' = "dead"
      BY <2>1, <2>2
    <2>3. CASE StartWorkers
      <3>1. pc' = "retry" /\ retryNum' = MinSaved(saved) + 1 /\ hashes' = hashes
        BY <2>3 DEF StartWorkers, Goto, chainVars
      <3>2. MinSaved(saved) = 0
        <4>1. "main" \in Savers /\ "nodeTest" \in Savers /\ (w = "main" \/ (w = "nodeTest" /\ NodeTestOn))
          BY <1>3, RunningIs DEF Savers
        <4>2. saved["main"].number \in Nat /\ saved["nodeTest"].number \in Nat
          BY <4>1 DEF IndInv, TypeOK, SavedType
        <4>3. QED
          BY <1>5, <4>1, <4>2 DEF MinSaved
      <3>3. SaverNext(w)' = 1
        BY <3>1, <3>2 DEF SaverNext, RetryNext, Pending
      <3>4. retryNum' <= CountBlocks' + 1
        BY <3>1, <3>2, WorkFacts DEF CountBlocks
      <3>5. InLine(queue'[w], busy'[w], SaverNext(w)') /\ First(queue'[w], busy'[w], SaverNext(w)') = 1
        BY <2>1, <3>3, LineEmpty
      <3>6. QED
        BY <3>4, <3>5 DEF FromFirst
    <2>4. QED
      BY <1>3, <1>9, <2>2, <2>3, EarlyEnds
  <1>10. CASE pc = "dead" /\ Idle(w)
    <2>1. pc' = "dead" /\ ~Push
      BY <1>8, <1>10, DeadStays
    <2>2. queue'[w] = queue[w] /\ busy'[w] = busy[w]
      <3>1. CASE WorkerStep
        BY <1>7, <1>10, <3>1, WorkerLine DEF Idle
      <3>2. CASE ~WorkerStep
        BY <1>8, <2>1, <3>2, LinesKept
      <3>3. QED
        BY <3>1, <3>2
    <2>3. QED
      BY <1>10, <2>1, <2>2 DEF Idle
  <1>11. CASE pc \notin Early /\ FromFirst(w)
    <2>0. /\ InLine(queue[w], busy[w], SaverNext(w)) /\ First(queue[w], busy[w], SaverNext(w)) = 1
          /\ pc = "retry" => retryNum <= CountBlocks + 1
      BY <1>11 DEF FromFirst
    <2>1. CASE Push
      <3>1. PICK v \in Workers :
              /\ Pending(v) /\ \A u : Pending(u)' <=> u # v /\ Pending(u)
              /\ \A u \in Workers \ {v} : queue'[u] = queue[u]
              /\ \/ Unwanted(v) /\ queue'[v] = queue[v]
                 \/ ~Unwanted(v) /\ queue'[v] = Append(queue[v], item)
              /\ UNCHANGED <<chainVars, busy, pc, item, retryNum>>
        BY <2>1, PushLine
      <3>2. CountBlocks' = CountBlocks
        BY <3>1 DEF CountBlocks, chainVars
      <3>3. pc \in {"feed", "retryFeed"} /\ pc' \in {"feed", "retryFeed"}
        BY <2>1, <3>1 DEF Push
      <3>4. CASE v # w
        <4>1. queue'[w] = queue[w] /\ SaverNext(w)' = SaverNext(w)
          BY <1>7, <3>1, <3>2, <3>4 DEF SaverNext, RetryNext
        <4>2. QED
          BY <2>0, <3>1, <3>3, <4>1 DEF FromFirst
      <3>5. CASE v = w
        <4>1. item \in Items /\ item.number = SaverNext(w) /\ item.number >= 1
          <5>1. item \in Items
            BY <3>3, WorkFacts
          <5>2. CASE pc = "feed"
            BY <3>1, <3>5, <5>2, WorkFacts DEF FeedInv, OnPlace, SaverNext
          <5>3. CASE pc = "retryFeed"
            BY <3>1, <3>5, <5>3, WorkFacts DEF FeedInv, SaverNext, RetryNext, IndInv, PhaseInv
          <5>4. QED
            BY <3>3, <5>1, <5>2, <5>3
        <4>2. SaverNext(w)' = SaverNext(w) + 1
          BY <3>1, <3>2, <3>3, <3>5 DEF SaverNext, RetryNext
        <4>3. ~Unwanted(w)
          BY <1>6, <1>7, <4>1 DEF Unwanted
        <4>4. queue'[w] = Append(queue[w], item)
          BY <3>1, <3>5, <4>3
        <4>5. /\ InLine(Append(queue[w], item), busy[w], SaverNext(w) + 1)
              /\ First(Append(queue[w], item), busy[w], SaverNext(w) + 1) = 1
          BY <1>7, <2>0, <4>1, LinePush
        <4>6. QED
          BY <3>1, <3>3, <4>2, <4>4, <4>5 DEF FromFirst
      <3>6. QED
        BY <3>4, <3>5
    <2>2. CASE ~Push
      <3>1. SaverNext(w)' = SaverNext(w) /\ (pc' = "retry" => retryNum' <= CountBlocks' + 1)
        BY <1>6, <1>8, <1>11, <2>0, <2>2, SaverNextKept
      <3>2. CASE ~WorkerStep
        <4>1. UNCHANGED <<queue, busy>>
          BY <1>8, <2>2, <3>2, LinesKept
        <4>2. QED
          BY <2>0, <3>1, <4>1 DEF FromFirst
      <3>3. CASE WorkerStep
        <4>1. PICK v \in Workers :
                /\ \A u \in Workers \ {v} : queue'[u] = queue[u] /\ busy'[u] = busy[u]
                /\ \/ /\ busy[v] = NoItem /\ queue[v] # <<>>
                      /\ queue'[v] = Tail(queue[v]) /\ busy'[v] = Head(queue[v])
                   \/ /\ busy[v] # NoItem
                      /\ \/ v = "cache"
                         \/ WorkerSkips(v) \/ WorkerRejects(v) \/ WorkerSaves(v) \/ WorkerThrows(v)
          BY <3>3, WorkerLine
        <4>2. CASE v # w
          BY <1>7, <2>0, <3>1, <4>1, <4>2 DEF FromFirst
        <4>3. CASE v = w /\ busy[w] = NoItem
          <5>1. queue[w] # <<>> /\ queue'[w] = Tail(queue[w]) /\ busy'[w] = Head(queue[w])
            BY <4>1, <4>3
          <5>2. /\ InLine(Tail(queue[w]), Head(queue[w]), SaverNext(w))
                /\ First(Tail(queue[w]), Head(queue[w]), SaverNext(w)) = 1
            BY <1>7, <2>0, <4>3, <5>1, LinePop
          <5>3. QED
            BY <3>1, <5>1, <5>2 DEF FromFirst
        <4>4. CASE v = w /\ busy[w] # NoItem
          <5>1. busy[w].number = 1
            BY <1>7, <2>0, <4>4, LineFinish
          <5>2. ~Old(w) /\ Fits(w)
            BY <1>5, <1>6, <5>1 DEF Old, Fits
          <5>3. QED
            BY <1>4, <1>5, <1>7, <4>1, <4>4, <5>2 DEF WorkerSkips, WorkerRejects
        <4>5. QED
          BY <4>2, <4>3, <4>4
      <3>4. QED
        BY <3>2, <3>3
    <2>3. QED
      BY <2>1, <2>2
  <1>12. QED
    BY <1>3, <1>4, <1>5, <1>9, <1>10, <1>11 DEF FirstInv

(* WorkInv holds as long as no batch has failed. *)
LEMMA WorkInductive == Spec => [](IndInv /\ LedgerInv /\ (NoBatchLost => WorkInv))
  <1>1. Init => WorkInv
    <2> SUFFICES ASSUME Init PROVE WorkInv
      OBVIOUS
    <2>1. /\ pc = "start" /\ dumpCache = {} /\ budget = Budget
          /\ \A w \in Workers : queue[w] = <<>> /\ busy[w] = NoItem
          /\ \A w \in Savers : saved[w].number = 0 /\ saved[w].hash = NoHash /\ lastSaved[w] = 0
      BY DEF Init, InitDisk, InitThreads
    <2>2. IndInv
      BY InitInd
    <2>3. IdleInv /\ FeedInv
      BY <2>1 DEF IdleInv, Idle, FeedInv
    <2>4. PlacesInv
      <3>1. Trusted \subseteq Workers
        BY DEF Trusted, Workers
      <3>2. QED
        BY <2>1, <3>1 DEF PlacesInv
    <2>5. CacheInv
      BY <2>1, <2>2, WorkFacts, LineEmpty DEF CacheInv, Workers
    <2>6. SavedInv /\ FirstInv
      BY <2>1, SyncAssumption DEF SavedInv, FirstInv, Early, FaultKinds
    <2>7. QED
      BY <2>3, <2>4, <2>5, <2>6 DEF WorkInv
  <1>2. IndInv /\ LedgerInv /\ DumpNeverWrong /\ (NoBatchLost => WorkInv) /\ [Next]_vars
           => (NoBatchLost => WorkInv)'
    <2> SUFFICES ASSUME IndInv, LedgerInv, DumpNeverWrong, NoBatchLost => WorkInv, [Next]_vars,
                        NoBatchLost'
                 PROVE  WorkInv'
      OBVIOUS
    <2>1. NoBatchLost /\ WorkInv
      BY BatchesCounted DEF LedgerInv
    <2>2. FetchInv /\ \E c : ChainState(c)
      BY <2>1 DEF LedgerInv
    <2>3. PICK c : ChainState(c)
      BY <2>2
    <2>4. IdleInv /\ FeedInv /\ PlacesInv /\ CacheInv /\ SavedInv /\ FirstInv
      BY <2>1 DEF WorkInv
    <2>5. IdleInv' /\ FeedInv'
      BY <2>2, <2>3, <2>4, IdleStep, FeedStep
    <2>6. PlacesInv'
      BY <2>4, PlacesStep
    <2>7. CacheInv'
      BY <2>2, <2>3, <2>4, <2>5, CacheStep
    <2>8. SavedInv'
      BY <2>3, <2>4, SavedStep
    <2>9. FirstInv'
      BY <2>2, <2>3, <2>4, FirstStep
    <2>10. QED
      BY <2>5, <2>6, <2>7, <2>8, <2>9 DEF WorkInv
  <1>3. QED
    BY <1>1, <1>2, LedgerInductive, DumpsRight, PTL DEF Spec

-----------------------------------------------------------------------------
(* The results *)

(* Whatever the servers answer and whatever fails but a batch of            *)
(* saveBlockToLeveldb, the cache of dumps stays within its limit and each   *)
(* dump is in it under the number its block has in the chain.               *)
THEOREM CacheRight == Spec => [](NoBatchLost => CacheWithinLimit)
  <1>1. IndInv /\ WorkInv => CacheWithinLimit
    <2> SUFFICES ASSUME IndInv, WorkInv PROVE CacheWithinLimit
      OBVIOUS
    <2>1. \A d \in dumpCache : OnPlace(d)
      BY DEF WorkInv, PlacesInv
    <2>2. \A d \in dumpCache : d.number < CacheFirst /\ d.number >= CacheFirst - CacheSize
      BY DEF WorkInv, CacheInv
    <2>3. CacheSize \in Nat /\ \A d \in dumpCache : d.number \in Nat
      BY WorkFacts
    <2>4. CacheFirst \in Int
      BY WorkFacts DEF CacheFirst, First, Workers
    <2>5. \A d, e \in dumpCache : d.number < e.number + CacheSize
      BY <2>2, <2>3, <2>4
    <2>6. QED
      BY <2>1, <2>5 DEF CacheWithinLimit, OnPlace
  <1>2. QED
    BY <1>1, WorkInductive, PTL

(* When all servers answer with one block for a number, what a worker has   *)
(* saved is the block of the chain with that number, whatever fails but a   *)
(* batch of saveBlockToLeveldb.                                             *)
THEOREM SavedOnChain ==
    ASSUME ServersAgree
    PROVE  Spec => [](NoBatchLost => WorkersOnChain)
  <1>1. IndInv /\ LedgerInv /\ NoBatchLost /\ WorkInv => WorkersOnChain
    <2> SUFFICES ASSUME IndInv, LedgerInv, NoBatchLost, WorkInv,
                        NEW w \in Savers, saved[w].number \in 1..CountBlocks
                 PROVE  saved[w].hash = hashes[saved[w].number + 1]
      BY DEF WorkersOnChain
    <2>1. PICK c : ChainState(c)
      BY DEF LedgerInv
    <2>2. /\ saved[w].number <= MaxBlock
          /\ hashes[saved[w].number + 1] \in Answers[saved[w].number]
      BY <2>1, ChainAnswers
    <2>3. saved[w].number \in 1..MaxBlock /\ saved[w].number > 0
      BY <2>2, SyncAssumption, WorkFacts
    <2>4. saved[w].hash \in Answers[saved[w].number]
      BY <2>3, ServersAgree DEF WorkInv, SavedInv
    <2>5. QED
      BY <2>2, <2>3, <2>4, ServersAgree DEF ServersAgree
  <1>2. QED
    BY <1>1, WorkInductive, PTL

(* The chain is linked. *)
LEMMA LinkedAbove ==
    ASSUME IndInv, NEW c, ChainState(c), NEW i \in 3..Len(hashes)
    PROVE  prevHash[hashes[i]] = hashes[i - 1]
  <1>1. Len(hashes) \in Nat /\ Len(hashes) > 1
    BY WorkFacts
  <1>2. PICK s : Linked(s) /\ ChainIs(s)
    BY <1>1, ChainOf
  <1>3. s \in Seq(Blocks) /\ Len(hashes) = Len(s) + 1 /\ \A j \in 1..Len(s) : hashes[j + 1] = s[j]
    BY <1>2 DEF Linked, ChainIs, Follows
  <1>4. Len(s) \in Nat
    BY <1>3
  <1>5. i - 1 \in 2..Len(s) /\ i - 1 \in 1..Len(s) /\ i - 2 \in 1..Len(s)
    BY <1>1, <1>3, <1>4
  <1>6. hashes[(i - 1) + 1] = s[i - 1] /\ hashes[(i - 2) + 1] = s[i - 2]
    BY <1>3, <1>5
  <1>7. prevHash[s[i - 1]] = s[(i - 1) - 1]
    BY <1>2, <1>5 DEF Linked
  <1>8. (i - 1) + 1 = i /\ (i - 2) + 1 = i - 1 /\ (i - 1) - 1 = i - 2
    OBVIOUS
  <1>9. QED
    BY <1>6, <1>7, <1>8

(* When all servers answer with one block for a number and no batch of      *)
(* saveBlockToLeveldb fails, a worker never jumps over a block: it goes on  *)
(* with the child of the block it saved, under the next number, whatever    *)
(* crashes and exceptions come in between.  It begins with block 1, unless  *)
(* it has saved nothing and a failed batch of its own has cost it its first *)
(* block: then it begins in the middle.                                     *)
THEOREM NoGap ==
    ASSUME ServersAgree, Budget["save"] = 0
    PROVE  Spec => WorkersLeaveNoGap
  <1> DEFINE Step == \A w \in Savers :
          \/ saved'[w] = saved[w]
          \/ /\ saved[w].hash = NoHash
             /\ saved'[w].number = 1 \/ budget["worker"] < Budget["worker"]
          \/ /\ saved'[w].number = saved[w].number + 1
             /\ prevHash[saved'[w].hash] = saved[w].hash
  <1>1. IndInv /\ LedgerInv => NoBatchLost
    BY SyncAssumption DEF IndInv, TypeOK, LedgerInv, NoBatchLost, FaultKinds
  <1>2. IndInv /\ LedgerInv /\ WorkInv /\ [Next]_vars => Step
    <2> SUFFICES ASSUME IndInv, LedgerInv, WorkInv, [Next]_vars PROVE Step
      OBVIOUS
    <2>1. ASSUME NEW w \in Savers, WorkerSaves(w) PROVE Step
      <3>1. /\ busy[w] \in Items /\ busy[w] # NoItem /\ w \in Workers
            /\ saved'[w].number = busy[w].number /\ saved'[w].hash = busy[w].hash
            /\ saved[w].number \in Nat /\ saved'[w].number > saved[w].number
            /\ saved[w].hash = NoHash \/ saved[w].hash = prevHash[busy[w].hash]
            /\ \A v \in Savers \ {w} : saved'[v] = saved[v]
        BY <2>1, WorkerSaved
      <3>2. /\ saved[w].number = 0 <=> saved[w].hash = NoHash
            /\ saved[w].number > 0 =>
                  saved[w].number <= MaxBlock /\ saved[w].hash \in Answers[saved[w].number]
        BY ServersAgree DEF WorkInv, SavedInv
      <3>3. CASE saved[w].hash = NoHash
        <4>1. saved'[w].number = 1 \/ budget["worker"] < Budget["worker"]
          <5> SUFFICES ASSUME ~(budget["worker"] < Budget["worker"]) PROVE saved'[w].number = 1
            OBVIOUS
          <5>1. budget["worker"] = Budget["worker"]
            BY SyncAssumption DEF WorkInv, FirstInv, IndInv, TypeOK, FaultKinds
          <5>2. w \in Running /\ pc \notin Early /\ ~Idle(w)
            BY <3>1 DEF WorkInv, IdleInv, Idle
          <5>3. FromFirst(w)
            BY <3>2, <3>3, <5>1, <5>2 DEF WorkInv, FirstInv
          <5>4. /\ InLine(queue[w], busy[w], SaverNext(w))
                /\ First(queue[w], busy[w], SaverNext(w)) = 1
            BY <5>3 DEF FromFirst
          <5>5. busy[w].number = 1
            BY <3>1, <5>4, WorkFacts, LineFinish
          <5>6. QED
            BY <3>1, <5>5
        <4>2. QED
          BY <3>1, <3>3, <4>1
      <3>4. CASE saved[w].hash # NoHash
        <4>1. PICK c : ChainState(c)
          BY <1>1 DEF LedgerInv
        <4>2. PICK n, m : n = saved[w].number /\ m = busy[w].number
          OBVIOUS
        <4>3. OnPlace(busy[w])
          BY <3>1, ServersAgree DEF WorkInv, PlacesInv, Trusted
        <4>4. /\ n \in Nat /\ n >= 1 /\ m \in Nat /\ m > n /\ m <= CountBlocks
              /\ busy[w].hash = hashes[m + 1] /\ Len(hashes) \in Nat
              /\ m + 1 \in 3..Len(hashes) /\ m \in 1..Len(hashes) /\ n + 1 \in 1..Len(hashes)
              /\ n \in 1..CountBlocks
          <5>1. n \in Nat /\ n >= 1 /\ m \in Nat /\ m > n
            BY <3>1, <3>2, <3>4, <4>2 DEF Items
          <5>2. m <= CountBlocks /\ busy[w].hash = hashes[m + 1]
            BY <4>2, <4>3 DEF OnPlace
          <5>3. CountBlocks = Len(hashes) - 1 /\ Len(hashes) \in Nat
            BY WorkFacts DEF CountBlocks
          <5>4. QED
            BY <5>1, <5>2, <5>3
        <4>5. prevHash[hashes[m + 1]] = hashes[m]
          <5>1. prevHash[hashes[m + 1]] = hashes[(m + 1) - 1]
            BY <4>1, <4>4, LinkedAbove
          <5>2. (m + 1) - 1 = m
            BY <4>4
          <5>3. QED
            BY <5>1, <5>2
        <4>6. saved[w].hash = hashes[m]
          BY <3>1, <3>4, <4>4, <4>5
        <4>7. n <= MaxBlock /\ hashes[n + 1] \in Answers[n]
          BY <4>1, <4>4, ChainAnswers
        <4>8. saved[w].hash = hashes[n + 1]
          BY <3>2, <4>2, <4>4, <4>7, SyncAssumption, ServersAgree DEF ServersAgree
        <4>9. n + 1 = m
          BY <4>4, <4>6, <4>8, ChainFacts, ChainInjective
        <4>10. saved'[w].number = saved[w].number + 1 /\ prevHash[saved'[w].hash] = saved[w].hash
          BY <3>1, <3>4, <4>2, <4>9
        <4>11. QED
          BY <3>1, <4>10
      <3>5. QED
        BY <3>3, <3>4
    <2>2. CASE UNCHANGED saved
      BY <2>2
    <2>3. UNCHANGED saved \/ \E w \in Savers : WorkerSaves(w)
      <3>1. Crash \/ CrashInAppend => saved' = saved
        BY ResetLines
      <3>2. StartWorkers => saved' = saved
        BY DEF StartWorkers
      <3>3. QED
        BY <3>1, <3>2, SavedFrom
    <2>4. QED
      BY <2>1, <2>2, <2>3
  <1>3. IndInv /\ LedgerInv /\ (NoBatchLost => WorkInv) /\ [Next]_vars => [Step]_vars
    BY <1>1, <1>2
  <1>4. QED
    BY <1>3, WorkInductive, PTL DEF Spec, WorkersLeaveNoGap
=============================================================================
