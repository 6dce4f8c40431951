---------------------------- MODULE ServerProofs ----------------------------
(***************************************************************************)
(* Proofs about Server: the requests beside the synchronisation thread,    *)
(* for any number of handlers, any requests, any blocks on disk at the     *)
(* start and whatever an unlocked read of the count yields.                *)
(***************************************************************************)
EXTENDS Server, SyncProofs, FiniteSetTheorems

(* The requests that countRunningServerThreads counts. *)
Counted == {h \in Handlers : hpc[h] \notin {"idle", "enter"}}

(* Nobody sends requests to a server that is not up, synchronize ends with  *)
(* "stop" only after the signal, and main leaves only after synchronize.    *)
StopInv ==
    /\ ServerTypeOK
    /\ server # "up" => \A h \in Handlers : hpc[h] = "idle"
    /\ ended = "stop" => signal
    /\ exited => ended # "no"
    /\ SyncOutlivesRequests

-----------------------------------------------------------------------------
HeaderType  == [hash : Hashes \cup {NoHash}, number : Nat \cup {NoNumber}, pos : Nat]
DumpType    == [hash : Hashes \cup {NoHash}, dump : Hashes \cup {NoHash, Torn}]
RequestType == [kind : {"none", "count", "hash", "forward", "backward", "dumps"},
                begin : Nat, cnt : Nat]

HandlerTypeOK ==
    /\ hpc \in [Handlers -> Working \cup {"idle", "enter", "check", "reply", "error", "leave"}]
    /\ req \in [Handlers -> RequestType]
    /\ todo \in [Handlers -> Seq(Int)]
    /\ header \in [Handlers -> HeaderType]
    /\ list \in [Handlers -> Seq(HeaderType \cup DumpType)]

Unlisted == {"idle", "enter", "check", "count"}

Ranges == {"forward", "backward"}

(* The numbers still to be looked up, t, go on from those of the headers    *)
(* that were found, l, and those go up or down one by one from `first`.     *)
(* A header that was not found has no number.                               *)
Upwards(t, l, first) ==
    /\ \A k \in 1..Len(t) : t[k] = first + Len(l) + k - 1
    /\ \A k \in 1..Len(l) : l[k].number = NoNumber \/ l[k].number = first + k - 1

Downwards(t, l, first) ==
    /\ \A k \in 1..Len(t) : t[k] = first - Len(l) - k + 1
    /\ \A k \in 1..Len(l) : l[k].number = NoNumber \/ l[k].number = first - k + 1

(* What was found is on the chain hs. *)
Found(l, hs) ==
    \A k \in 1..Len(l) :
        \/ l[k].number = NoNumber
        \/ l[k].number \in 0..(Len(hs) - 1) /\ l[k].hash = hs[l[k].number + 1]

(* A request r for a range of the chain hs, at the place `at`. *)
RangeRight(r, at, t, l, hs) ==
    r.kind \in Ranges /\ at \in {"header", "reply"} =>
        /\ r.kind = "forward" => Upwards(t, l, r.begin)
        /\ r.kind = "backward" => \E first \in Int : Downwards(t, l, first)
        /\ Found(l, hs)
        /\ at = "reply" => Answerable(l)

(* The dumps collected so far, when `cut` cuts of a write are still to come. *)
DumpsRightIn(l, cut) ==
    \A k \in 1..Len(l) : \/ l[k].dump = l[k].hash
                         \/ l[k].dump = Torn /\ cut < Budget["cut"]

(* A request for dumps: those collected, and the position in the header     *)
(* that was copied from the chain.                                          *)
DumpsInv(h) ==
    req[h].kind = "dumps" =>
        /\ DumpsRightIn(list[h], budget["cut"])
        /\ hpc[h] = "file" => SaveToFiles
        /\ SaveToFiles /\ hpc[h] \in {"cache", "file"} =>
              header[h].pos = 0 \/ DumpAt(header[h].hash, header[h].pos)

HandlerRight(h) ==
    /\ hpc[h] \in Unlisted => list[h] = <<>>
    /\ hpc[h] = "count" => req[h].kind \in Ranges \cup {"count"}
    /\ hpc[h] \in {"cache", "file"} => req[h].kind = "dumps"
    /\ RangeRight(req[h], hpc[h], todo[h], list[h], hashes)
    /\ DumpsInv(h)

(* The chain has only the genesis block before it is loaded, and that one   *)
(* has no dump.                                                             *)
StartInv ==
    /\ pc = "start" => hashes = <<Genesis>>
    /\ filePos[Genesis] = 0

ReadInv == HandlerTypeOK /\ StartInv /\ \A h \in Handlers : HandlerRight(h)

-----------------------------------------------------------------------------
(* The synchronisation thread *)

(* The disk as an earlier process left it. *)
LEMMA StoredTypes ==
    ASSUME NEW n \in Nat, NEW c \in [1..n -> Blocks], NEW done \in {n, n - 1} \cap Nat,
           Stored(c, done)
    PROVE  /\ file \in Seq(Blocks \cup {Torn})
           /\ dbHeaders \subseteq Blocks
           /\ dbPos \in [Hashes -> Nat]
           /\ dbMeta \in MetaType
           /\ saved \in [Savers -> SavedType]
           /\ SaveToFiles => \A h \in dbHeaders : dbPos[h] \in 1..Len(file) /\ file[dbPos[h]] = h
  <1>1. c \in Seq(Blocks) /\ Len(c) = n /\ \A k \in 1..n : c[k] \in Blocks
    OBVIOUS
  <1>2. file = IF SaveToFiles THEN c ELSE <<>>
    BY DEF Stored
  <1>3. file \in Seq(Blocks \cup {Torn})
    BY <1>1, <1>2
  <1>4. dbHeaders = {c[k] : k \in 1..n} /\ dbHeaders \subseteq Blocks
    BY <1>1 DEF Stored
  <1>5. ASSUME NEW h \in dbHeaders
        PROVE  /\ (CHOOSE k \in 1..n : c[k] = h) \in 1..n
               /\ c[CHOOSE k \in 1..n : c[k] = h] = h
    <2>1. \E k \in 1..n : c[k] = h
      BY <1>4, <1>5
    <2>2. QED
      BY <2>1
  <1>6. dbPos = [h \in Hashes |-> IF SaveToFiles /\ h \in dbHeaders
                                  THEN CHOOSE k \in 1..n : c[k] = h ELSE 0]
    BY <1>1 DEF Stored
  <1>7. dbPos \in [Hashes -> Nat]
    BY <1>5, <1>6
  <1>8. dbMeta \in MetaType
    <2>1. CASE c = <<>>
      BY <2>1 DEF Stored, MetaType
    <2>2. CASE c # <<>>
      <3>1. c[Len(c)] \in Blocks
        BY <1>1, <2>2
      <3>2. QED
        BY <2>2, <3>1, BlocksAssumption DEF Stored, MetaType, Hashes
    <2>3. QED
      BY <2>1, <2>2
  <1>9. saved \in [Savers -> SavedType]
    <2>1. done > 0 => c[done] \in Hashes
      BY <1>1 DEF Hashes
    <2>2. QED
      BY <2>1 DEF Stored, SavedType
  <1>10. SaveToFiles => \A h \in dbHeaders : dbPos[h] \in 1..Len(file) /\ file[dbPos[h]] = h
    BY <1>1, <1>2, <1>4, <1>5, <1>6, Markers
  <1>11. QED
    BY <1>3, <1>4, <1>7, <1>8, <1>9, <1>10

(* The node starts with its invariants. *)
LEMMA ServerInitInd == ServerInit => IndInv /\ DumpInv
  <1> SUFFICES ASSUME ServerInit PROVE IndInv /\ DumpInv
    OBVIOUS
  <1>n. PICK n \in Nat : \E c \in [1..n -> Blocks] : \E done \in {n, n - 1} \cap Nat : Stored(c, done)
    BY ServerAssumption DEF ServerInit
  <1>1. PICK c \in [1..n -> Blocks], done \in {n, n - 1} \cap Nat : Stored(c, done)
    BY <1>n
  <1>2. /\ file \in Seq(Blocks \cup {Torn})
        /\ dbHeaders \subseteq Blocks
        /\ dbPos \in [Hashes -> Nat]
        /\ dbMeta \in MetaType
        /\ saved \in [Savers -> SavedType]
        /\ SaveToFiles => \A h \in dbHeaders : dbPos[h] \in 1..Len(file) /\ file[dbPos[h]] = h
    BY <1>1, StoredTypes
  <1>3. InitBlockChain /\ InitThreads
    BY DEF ServerInit
  <1>4. ChainInv /\ BlockChainTypeOK
    BY <1>3, InitChain DEF ChainInv
  <1>5. TypeOK
    BY <1>2, <1>3, <1>4, SyncAssumption DEF TypeOK, InitThreads, Pcs, NoItem, QueueSize, Workers
  <1>6. PhaseInv
    BY <1>3 DEF PhaseInv, InitThreads, InitBlockChain, InHand
  <1>7. DumpInv
    <2>1. blocks = {Genesis} /\ pc = "start" /\ budget = Budget
      BY <1>3 DEF InitThreads, InitBlockChain
    <2>2. DumpNeverWrong
      BY <1>2, <2>1 DEF DumpNeverWrong, DumpAt
    <2>3. QED
      BY <2>1, <2>2, SyncAssumption DEF DumpInv, InFile, FaultKinds
  <1>8. QED
    BY <1>4, <1>5, <1>6, <1>7 DEF IndInv

(* A step of the server is one of the synchronisation thread or the         *)
(* workers, or leaves them alone, or the thread stops.                      *)
LEMMA ServerSteps ==
    ASSUME [ServerNext]_allVars
    PROVE  [Next]_vars \/ SyncStops
  BY DEF ServerNext, allVars, ServerStarts, ServerFails, Signal, SyncRuns, WorkersRun, MainExits,
     Enter, Handler, CountIn, CheckStop, Leave, ReadCount, ReadHeader, Answer, FromCache, FromFile, Next

(* The thread stops where it has nothing in hand. *)
LEMMA StopsInd ==
    ASSUME IndInv, DumpInv, SyncStops
    PROVE  IndInv' /\ DumpInv'
  <1>1. /\ pc \in {"poll", "fetch", "retry", "feed", "retryFeed"} /\ pc' = "dead"
        /\ UNCHANGED <<chainVars, diskVars, sourceVars, biVars, feedVars, workerVars,
                       saved, lastSaved, budget>>
    BY DEF SyncStops, AtStopCheck, Goto
  <1>2. ChainInv' /\ BlockChainTypeOK'
    BY <1>1, ChainKept
  <1>3. TypeOK'
    BY <1>1, <1>2 DEF IndInv, TypeOK, Pcs, diskVars, sourceVars, biVars, feedVars, workerVars
  <1>4. PhaseInv'
    BY <1>1 DEF IndInv, PhaseInv, InHand, chainVars
  <1>5. DumpInv'
    BY <1>1 DEF DumpInv, DumpNeverWrong, DumpAt, InFile, chainVars, diskVars
  <1>6. QED
    BY <1>2, <1>3, <1>4, <1>5 DEF IndInv

(* What was proved of the synchronisation thread holds beside the server. *)
LEMMA ServerSync == ServerSpec => [](IndInv /\ DumpInv)
  <1>1. ASSUME IndInv, DumpInv, [ServerNext]_allVars
        PROVE  IndInv' /\ DumpInv'
    BY <1>1, ServerSteps, StopsInd, StepInd, DumpStep
  <1>2. QED
    BY <1>1, ServerInitInd, PTL DEF ServerSpec

-----------------------------------------------------------------------------
(* Stopping *)

(* The places of a handler at which it has been counted. *)
Busy == Working \cup {"check", "reply", "error", "leave"}

(* A handler goes from one place to another: what becomes of the requests   *)
(* that are counted.                                                        *)
LEMMA CountedMoves ==
    ASSUME NEW h \in Handlers, NEW to, To(h, to),
           hpc \in [Handlers -> Busy \cup {"idle", "enter"}]
    PROVE  /\ hpc'[h] = to /\ \A g \in Handlers \ {h} : hpc'[g] = hpc[g]
           /\ IsFiniteSet(Counted) /\ Cardinality(Counted) \in Nat
           /\ hpc[h] \in {"idle", "enter"} /\ to \in {"idle", "enter"} => Counted' = Counted
           /\ hpc[h] \notin {"idle", "enter"} /\ to \notin {"idle", "enter"} => Counted' = Counted
           /\ hpc[h] \in {"idle", "enter"} /\ to \notin {"idle", "enter"} =>
                 Cardinality(Counted') = Cardinality(Counted) + 1
           /\ hpc[h] \notin {"idle", "enter"} /\ to \in {"idle", "enter"} =>
                 Cardinality(Counted') = Cardinality(Counted) - 1
  <1>1. hpc'[h] = to /\ \A g \in Handlers \ {h} : hpc'[g] = hpc[g]
    BY DEF To
  <1>2. IsFiniteSet(Counted) /\ Cardinality(Counted) \in Nat
    <2>1. Counted \in SUBSET Handlers /\ IsFiniteSet(Handlers)
      BY ServerAssumption DEF Counted
    <2>2. IsFiniteSet(Counted)
      BY <2>1, FS_Subset
    <2>3. QED
      BY <2>2, FS_CardinalityType
  <1>3. hpc[h] \in {"idle", "enter"} /\ to \in {"idle", "enter"} => Counted' = Counted
    BY <1>1 DEF Counted
  <1>4. hpc[h] \notin {"idle", "enter"} /\ to \notin {"idle", "enter"} => Counted' = Counted
    BY <1>1 DEF Counted
  <1>5. ASSUME hpc[h] \in {"idle", "enter"}, to \notin {"idle", "enter"}
        PROVE  Cardinality(Counted') = Cardinality(Counted) + 1
    <2>1. Counted' = Counted \cup {h} /\ h \notin Counted
      BY <1>1, <1>5 DEF Counted
    <2>2. QED
      BY <1>2, <2>1, FS_AddElement
  <1>6. ASSUME hpc[h] \notin {"idle", "enter"}, to \in {"idle", "enter"}
        PROVE  Cardinality(Counted') = Cardinality(Counted) - 1
    <2>1. Counted' = Counted \ {h} /\ h \in Counted
      BY <1>1, <1>6 DEF Counted
    <2>2. QED
      BY <1>2, <2>1, FS_RemoveElement
  <1>7. QED
    BY <1>1, <1>2, <1>3, <1>4, <1>5, <1>6

(* Where a step of a handler leads, and what it does to the counter. *)
LEMMA HandlerMoves ==
    ASSUME NEW h \in Handlers, Handler(h)
    PROVE  /\ UNCHANGED <<signal, server, ended, exited>>
           /\ \/ hpc[h] = "enter" /\ To(h, "check") /\ running' = running + 1 /\ UNCHANGED isStoped
              \/ hpc[h] = "check" /\ signal /\ To(h, "leave") /\ running' = running /\ isStoped'
              \/ hpc[h] = "check" /\ ~signal /\ UNCHANGED <<running, isStoped>>
                 /\ \E to \in Working : To(h, to)
              \/ hpc[h] \in Working /\ UNCHANGED <<running, isStoped>>
                 /\ (UNCHANGED hpc \/ \E to \in Working \cup {"reply", "error"} : To(h, to))
              \/ hpc[h] \in {"reply", "error", "leave"} /\ To(h, "idle") /\ running' = running - 1
                 /\ UNCHANGED isStoped
  <1>1. CASE CountIn(h)
    BY <1>1 DEF CountIn, At, stopVars
  <1>2. CASE CheckStop(h)
    <2>1. FirstStep(req[h]) \in Working
      BY DEF FirstStep, Working
    <2>2. QED
      BY <1>2, <2>1 DEF CheckStop, At, stopVars
  <1>3. CASE Leave(h)
    BY <1>3 DEF Leave
  <1>4. CASE ReadCount(h)
    BY <1>4 DEF ReadCount, At, stopVars, Working
  <1>5. CASE ReadHeader(h)
    BY <1>5 DEF ReadHeader, At, stopVars, Working
  <1>6. CASE Answer(h)
    BY <1>6 DEF Answer, At, stopVars, Working
  <1>7. CASE FromCache(h)
    BY <1>7 DEF FromCache, At, stopVars, Working
  <1>8. CASE FromFile(h)
    BY <1>8 DEF FromFile, At, stopVars, Working
  <1>9. QED
    BY <1>1, <1>2, <1>3, <1>4, <1>5, <1>6, <1>7, <1>8 DEF Handler

(* Every step keeps the invariant of the stopping. *)
LEMMA StopStep ==
    ASSUME StopInv, [ServerNext]_allVars
    PROVE  StopInv'
  <1>0. /\ signal \in BOOLEAN /\ isStoped \in BOOLEAN /\ exited \in BOOLEAN
        /\ server \in {"down", "up", "failed"} /\ ended \in {"no", "stop", "error"}
        /\ hpc \in [Handlers -> Busy \cup {"idle", "enter"}]
        /\ running = IF server = "down" THEN -1 ELSE Cardinality(Counted)
        /\ server # "up" => \A h \in Handlers : hpc[h] = "idle"
        /\ ended = "stop" => signal
        /\ exited => ended # "no"
        /\ exited /\ ended = "stop" => \A h \in Handlers : hpc[h] \notin Working
    BY DEF StopInv, ServerTypeOK, Counted, Busy, SyncOutlivesRequests
  <1>s. Working \subseteq Busy /\ "idle" \notin Busy /\ "enter" \notin Busy
    BY DEF Working, Busy
  <1> DEFINE Goal ==
        /\ signal' \in BOOLEAN /\ isStoped' \in BOOLEAN /\ exited' \in BOOLEAN
        /\ server' \in {"down", "up", "failed"} /\ ended' \in {"no", "stop", "error"}
        /\ hpc' \in [Handlers -> Busy \cup {"idle", "enter"}]
        /\ running' = IF server' = "down" THEN -1 ELSE Cardinality(Counted')
        /\ server' # "up" => \A h \in Handlers : hpc'[h] = "idle"
        /\ ended' = "stop" => signal'
        /\ exited' => ended' # "no"
        /\ exited' /\ ended' = "stop" => \A h \in Handlers : hpc'[h] \notin Working
  <1>g. SUFFICES Goal
    BY DEF StopInv, ServerTypeOK, Counted, Busy, SyncOutlivesRequests, Working
  <1>c. hpc' = hpc => Counted' = Counted
    BY DEF Counted
  <1>1. CASE ServerStarts \/ ServerFails
    <2>1. /\ server = "down" /\ server' \in {"up", "failed"} /\ running' = 0
          /\ UNCHANGED <<signal, isStoped, ended, exited, hpc>>
      BY <1>1 DEF ServerStarts, ServerFails, handlerVars
    <2>2. Counted' = {}
      BY <1>0, <1>c, <2>1 DEF Counted
    <2>3. Cardinality(Counted') = 0
      BY <2>2, FS_EmptySet
    <2>4. QED
      BY <1>0, <2>1, <2>3
  <1>2. CASE Signal
    <2>1. signal' = TRUE /\ UNCHANGED <<isStoped, running, server, ended, exited, hpc>>
      BY <1>2 DEF Signal, handlerVars
    <2>2. QED
      BY <1>0, <1>c, <2>1
  <1>3. CASE SyncStops
    <2>1. /\ signal /\ ended = "no" /\ ended' = "stop"
          /\ UNCHANGED <<signal, isStoped, running, server, exited, hpc>>
      BY <1>3 DEF SyncStops, handlerVars
    <2>2. QED
      BY <1>0, <1>c, <2>1
  <1>4. CASE SyncRuns
    <2>1. /\ ended = "no" /\ ended' \in {"error", "no"}
          /\ UNCHANGED <<signal, isStoped, running, server, exited, hpc>>
      BY <1>4 DEF SyncRuns, handlerVars
    <2>2. QED
      BY <1>0, <1>c, <2>1
  <1>5. CASE WorkersRun \/ UNCHANGED allVars
    <2>1. UNCHANGED <<signal, isStoped, running, server, ended, exited, hpc>>
      BY <1>5 DEF WorkersRun, allVars, serverVars, stopVars, handlerVars
    <2>2. QED
      BY <1>0, <1>c, <2>1
  <1>6. CASE MainExits
    <2>1. /\ ended # "no" /\ running = 0 /\ exited' = TRUE
          /\ UNCHANGED <<signal, isStoped, running, server, ended, hpc>>
      BY <1>6 DEF MainExits, handlerVars
    <2>2. Cardinality(Counted) = 0 /\ server # "down"
      BY <1>0, <2>1
    <2>3. IsFiniteSet(Counted)
      <3>1. Counted \in SUBSET Handlers /\ IsFiniteSet(Handlers)
        BY ServerAssumption DEF Counted
      <3>2. QED
        BY <3>1, FS_Subset
    <2>4. Counted = {}
      BY <2>2, <2>3, FS_EmptySet
    <2>5. \A h \in Handlers : hpc[h] \notin Working
      BY <1>s, <2>4 DEF Counted
    <2>6. QED
      BY <1>0, <1>c, <2>1, <2>5
  <1>7. ASSUME NEW h \in Handlers, NEW r, Enter(h, r)
        PROVE  Goal
    <2>1. /\ hpc[h] = "idle" /\ server = "up" /\ To(h, "enter")
          /\ UNCHANGED <<signal, isStoped, running, server, ended, exited>>
      BY <1>7 DEF Enter, At, stopVars
    <2>2. hpc' \in [Handlers -> Busy \cup {"idle", "enter"}]
      BY <1>0, <2>1 DEF To
    <2>3. /\ Counted' = Counted
          /\ hpc'[h] = "enter" /\ \A g \in Handlers \ {h} : hpc'[g] = hpc[g]
      BY <1>0, <2>1, CountedMoves
    <2>4. QED
      BY <1>0, <1>s, <2>1, <2>2, <2>3
  <1>8. ASSUME NEW h \in Handlers, Handler(h)
        PROVE  Goal
    <2>1. UNCHANGED <<signal, server, ended, exited>>
      BY <1>8, HandlerMoves
    <2>2. \/ hpc[h] = "enter" /\ To(h, "check") /\ running' = running + 1 /\ UNCHANGED isStoped
          \/ hpc[h] = "check" /\ signal /\ To(h, "leave") /\ running' = running /\ isStoped'
          \/ hpc[h] = "check" /\ ~signal /\ UNCHANGED <<running, isStoped>>
             /\ \E to \in Working : To(h, to)
          \/ hpc[h] \in Working /\ UNCHANGED <<running, isStoped>>
             /\ (UNCHANGED hpc \/ \E to \in Working \cup {"reply", "error"} : To(h, to))
          \/ hpc[h] \in {"reply", "error", "leave"} /\ To(h, "idle") /\ running' = running - 1
             /\ UNCHANGED isStoped
      BY <1>8, HandlerMoves
    <2>3. isStoped' \in BOOLEAN
      <3>1. isStoped' = TRUE \/ isStoped' = isStoped
        BY <1>8 DEF Handler, CountIn, CheckStop, Leave, ReadCount, ReadHeader, Answer, FromCache,
           FromFile, stopVars
      <3>2. QED
        BY <1>0, <3>1
    <2>4. server = "up"
      BY <1>0, <2>2 DEF Working
    <2>5. ASSUME hpc' = hpc, running' = running PROVE Goal
      BY <1>0, <1>c, <2>1, <2>3, <2>5
    <2>6. ASSUME NEW to \in Busy \cup {"idle", "enter"}, To(h, to),
                 running' = IF hpc[h] \in {"idle", "enter"} /\ to \notin {"idle", "enter"}
                            THEN running + 1
                            ELSE IF hpc[h] \notin {"idle", "enter"} /\ to \in {"idle", "enter"}
                            THEN running - 1 ELSE running,
                 to \in Working => ~signal \/ hpc[h] \in Working
          PROVE  Goal
      <3>1. hpc' \in [Handlers -> Busy \cup {"idle", "enter"}]
        BY <1>0, <2>6 DEF To
      <3>2. hpc'[h] = to /\ \A g \in Handlers \ {h} : hpc'[g] = hpc[g]
        BY <1>0, <2>6, CountedMoves
      <3>3. running' = Cardinality(Counted')
        <4>1. running = Cardinality(Counted)
          BY <1>0, <2>4
        <4>2. QED
          BY <1>0, <2>6, <4>1, CountedMoves
      <3>4. exited' /\ ended' = "stop" => \A g \in Handlers : hpc'[g] \notin Working
        BY <1>0, <2>1, <2>6, <3>2
      <3>5. QED
        BY <1>0, <2>1, <2>3, <2>4, <3>1, <3>3, <3>4
    <2>7. CASE hpc[h] = "enter" /\ To(h, "check") /\ running' = running + 1
      BY <2>6, <2>7 DEF Busy, Working
    <2>8. CASE hpc[h] = "check" /\ To(h, "leave") /\ running' = running
      BY <2>6, <2>8 DEF Busy, Working
    <2>9. ASSUME NEW to \in Working, hpc[h] = "check", ~signal, running' = running, To(h, to)
          PROVE  Goal
      BY <1>s, <2>6, <2>9
    <2>10. ASSUME NEW to \in Working \cup {"reply", "error"}, hpc[h] \in Working,
                  running' = running, To(h, to)
           PROVE  Goal
      <3>1. to \in Busy /\ hpc[h] \notin {"idle", "enter"}
        BY <1>s, <2>10 DEF Busy
      <3>2. QED
        BY <1>s, <2>6, <2>10, <3>1
    <2>11. CASE hpc[h] \in {"reply", "error", "leave"} /\ To(h, "idle") /\ running' = running - 1
      BY <2>6, <2>11 DEF Working
    <2>12. QED
      BY <2>2, <2>5, <2>7, <2>8, <2>9, <2>10, <2>11
  <1>9. QED
    BY <1>1, <1>2, <1>3, <1>4, <1>5, <1>6, <1>7, <1>8 DEF ServerNext

(* The invariant of the stopping holds in every reachable state. *)
LEMMA StopInductive == ServerSpec => []StopInv
  <1>1. ServerInit => StopInv
    <2> SUFFICES ASSUME ServerInit PROVE StopInv
      OBVIOUS
    <2>1. /\ signal = FALSE /\ isStoped = FALSE /\ running = -1 /\ server = "down" /\ ended = "no"
          /\ exited = FALSE /\ hpc = [h \in Handlers |-> "idle"]
      BY DEF ServerInit
    <2>2. ServerTypeOK
      BY <2>1 DEF ServerTypeOK
    <2>3. QED
      BY <2>1, <2>2 DEF StopInv, SyncOutlivesRequests
  <1>2. QED
    BY <1>1, StopStep, PTL DEF ServerSpec

(* The type invariant of the server: countRunningServerThreads counts       *)
(* exactly the requests between its increment and its decrement.            *)
THEOREM ServerTypes == ServerSpec => []ServerTypeOK
  <1>1. StopInv => ServerTypeOK
    BY DEF StopInv
  <1>2. QED
    BY <1>1, StopInductive, PTL

(* After a stop signal main destroys sync only when no request works on it, *)
(* and no request begins to afterwards, for any number of handlers.         *)
THEOREM OutlivesRequests == ServerSpec => []SyncOutlivesRequests
  <1>1. StopInv => SyncOutlivesRequests
    BY DEF StopInv
  <1>2. QED
    BY <1>1, StopInductive, PTL

-----------------------------------------------------------------------------
(* What the requests read *)

(* What Append gives. *)
LEMMA AppendIs ==
    ASSUME NEW S, NEW l \in Seq(S), NEW x \in S
    PROVE  /\ Append(l, x) \in Seq(S)
           /\ Len(l) \in Nat
           /\ Len(Append(l, x)) = Len(l) + 1
           /\ Append(l, x)[Len(l) + 1] = x
           /\ \A i \in 1..Len(l) : Append(l, x)[i] = l[i]
  OBVIOUS

(* What Head and Tail give. *)
LEMMA TailIs ==
    ASSUME NEW S, NEW t \in Seq(S), t # <<>>
    PROVE  /\ Tail(t) \in Seq(S)
           /\ Len(t) \in Nat \ {0}
           /\ Len(Tail(t)) = Len(t) - 1
           /\ Head(t) = t[1] /\ t[1] \in S
           /\ \A i \in 1..(Len(t) - 1) : Tail(t)[i] = t[i + 1]
  OBVIOUS

(* A list of numbers whose bound may be negative, when it is empty. *)
LEMMA NumberList ==
    ASSUME NEW m \in Int, NEW f \in [1..m -> Int]
    PROVE  f \in Seq(Int) /\ (\A k \in 1..Len(f) : k \in 1..m)
  <1>1. CASE m >= 0
    <2>1. f \in Seq(Int) /\ Len(f) = m
      BY <1>1
    <2>2. QED
      BY <2>1
  <1>2. CASE m < 0
    <2>1. 1..m = 1..0
      BY <1>2
    <2>2. f \in [1..0 -> Int]
      BY <2>1
    <2>3. f \in Seq(Int) /\ Len(f) = 0
      BY <2>2
    <2>4. QED
      BY <2>3
  <1>3. QED
    BY <1>1, <1>2

(* The numbers that getBlocks goes through, whatever the count was. *)
LEMMA NumbersRight ==
    ASSUME NEW r \in RequestType, r.kind \in Ranges, NEW count \in Int, NEW hs
    PROVE  Numbers(r, count) \in Seq(Int) /\ RangeRight(r, "header", Numbers(r, count), <<>>, hs)
  <1> DEFINE t == Numbers(r, count)
  <1>0. r.begin \in Nat /\ r.cnt \in Nat
    BY DEF RequestType
  <1>1. CASE r.kind = "forward"
    <2> DEFINE end == IF count + 1 < r.begin + r.cnt THEN count + 1 ELSE r.begin + r.cnt
    <2>1. end - r.begin \in Int
      BY <1>0
    <2>2. t = [k \in 1..(end - r.begin) |-> r.begin + k - 1]
      BY <1>1 DEF Numbers
    <2> HIDE DEF end, t
    <2>3. t \in [1..(end - r.begin) -> Int] /\ \A k \in 1..(end - r.begin) : t[k] = r.begin + k - 1
      BY <1>0, <2>1, <2>2
    <2>4. t \in Seq(Int) /\ \A k \in 1..Len(t) : t[k] = r.begin + k - 1
      BY <2>1, <2>3, NumberList
    <2>5. Upwards(t, <<>>, r.begin)
      BY <1>0, <2>4 DEF Upwards
    <2>6. QED
      BY <1>1, <2>4, <2>5 DEF RangeRight, Found, t
  <1>2. CASE r.kind = "backward"
    <2> DEFINE from == count - r.begin
               m == IF r.cnt < from THEN r.cnt ELSE from
    <2>1. from \in Int /\ m \in Int
      BY <1>0
    <2>2. t = [k \in 1..m |-> from + 1 - k]
      BY <1>2 DEF Numbers
    <2> HIDE DEF from, m, t
    <2>3. t \in [1..m -> Int] /\ \A k \in 1..m : t[k] = from + 1 - k
      BY <2>1, <2>2
    <2>4. t \in Seq(Int) /\ \A k \in 1..Len(t) : t[k] = from + 1 - k
      BY <2>1, <2>3, NumberList
    <2>5. Downwards(t, <<>>, from)
      BY <2>1, <2>4 DEF Downwards
    <2>6. QED
      BY <1>2, <2>1, <2>4, <2>5 DEF RangeRight, Found, t
  <1>3. QED
    BY <1>1, <1>2 DEF Ranges

(* The header that is found under a number. *)
LEMMA LookedUp ==
    ASSUME IndInv, NEW x \in Int
    PROVE  /\ ByNumber(x) \in HeaderType
           /\ \/ ByNumber(x).number = NoNumber
              \/ /\ ByNumber(x).number = x /\ x \in 0..(Len(hashes) - 1)
                 /\ ByNumber(x).hash = hashes[x + 1]
           /\ \/ ByNumber(x) = NoHeader
              \/ /\ ByNumber(x).hash \in blocks
                 /\ ByNumber(x).pos = filePos[ByNumber(x).hash]
  <1>1. /\ hashes \in Seq(Hashes) /\ blocks \subseteq Hashes /\ filePos \in [Hashes -> Nat]
        /\ blockNumber \in [Hashes -> Nat \cup {NoNumber}] /\ ChainNumbered /\ Len(hashes) \in Nat
    BY DEF IndInv, ChainInv, BlockChainTypeOK
  <1>2. CASE x + 1 \in 1..Len(hashes)
    <2>1. hashes[x + 1] \in blocks /\ blockNumber[hashes[x + 1]] = x
      BY <1>1, <1>2 DEF ChainNumbered
    <2>2. ByNumber(x) = [hash |-> hashes[x + 1], number |-> x, pos |-> filePos[hashes[x + 1]]]
      BY <1>2, <2>1 DEF ByNumber, ByHash
    <2>3. QED
      BY <1>1, <1>2, <2>1, <2>2 DEF HeaderType
  <1>3. CASE x + 1 \notin 1..Len(hashes)
    BY <1>3 DEF ByNumber, NoHeader, HeaderType
  <1>4. QED
    BY <1>2, <1>3

(* One more header is looked up. *)
LEMMA RangeGoesOn ==
    ASSUME IndInv, NEW r \in RequestType, r.kind \in Ranges,
           NEW t \in Seq(Int), t # <<>>, NEW l \in Seq(HeaderType \cup DumpType),
           RangeRight(r, "header", t, l, hashes)
    PROVE  RangeRight(r, "header", Tail(t), Append(l, ByNumber(Head(t))), hashes)
  <1> DEFINE x == ByNumber(Head(t))
             m == Append(l, x)
             u == Tail(t)
  <1>1. /\ u \in Seq(Int) /\ Len(t) \in Nat \ {0} /\ Len(u) = Len(t) - 1
        /\ Head(t) = t[1] /\ t[1] \in Int /\ \A i \in 1..(Len(t) - 1) : u[i] = t[i + 1]
    BY TailIs
  <1>2. /\ x \in HeaderType
        /\ \/ x.number = NoNumber
           \/ /\ x.number = t[1] /\ t[1] \in 0..(Len(hashes) - 1)
              /\ x.hash = hashes[t[1] + 1]
    BY <1>1, LookedUp
  <1> HIDE DEF x
  <1>3. /\ Len(l) \in Nat /\ Len(m) = Len(l) + 1 /\ m[Len(l) + 1] = x
        /\ \A i \in 1..Len(l) : m[i] = l[i]
    BY <1>2, AppendIs
  <1> HIDE DEF m, u
  <1>4. Found(m, hashes)
    <2>1. Found(l, hashes)
      BY DEF RangeRight
    <2> SUFFICES ASSUME NEW k \in 1..Len(m)
                 PROVE  \/ m[k].number = NoNumber
                        \/ /\ m[k].number \in 0..(Len(hashes) - 1)
                           /\ m[k].hash = hashes[m[k].number + 1]
      BY DEF Found
    <2>2. CASE k \in 1..Len(l)
      BY <1>3, <2>1, <2>2 DEF Found
    <2>3. CASE k = Len(l) + 1
      BY <1>2, <1>3, <2>3
    <2>4. QED
      BY <1>3, <2>2, <2>3
  <1>5. ASSUME NEW first \in Int, Upwards(t, l, first) PROVE Upwards(u, m, first)
    <2>1. t[1] = first + Len(l)
      BY <1>1, <1>3, <1>5 DEF Upwards
    <2>2. \A k \in 1..Len(u) : u[k] = first + Len(m) + k - 1
      BY <1>1, <1>3, <1>5 DEF Upwards
    <2>3. ASSUME NEW k \in 1..Len(m)
          PROVE  m[k].number = NoNumber \/ m[k].number = first + k - 1
      <3>1. CASE k \in 1..Len(l)
        BY <1>3, <1>5, <3>1 DEF Upwards
      <3>2. CASE k = Len(l) + 1
        BY <1>2, <1>3, <2>1, <3>2
      <3>3. QED
        BY <1>3, <3>1, <3>2
    <2>4. QED
      BY <2>2, <2>3 DEF Upwards
  <1>6. ASSUME NEW first \in Int, Downwards(t, l, first) PROVE Downwards(u, m, first)
    <2>1. t[1] = first - Len(l)
      BY <1>1, <1>3, <1>6 DEF Downwards
    <2>2. \A k \in 1..Len(u) : u[k] = first - Len(m) - k + 1
      BY <1>1, <1>3, <1>6 DEF Downwards
    <2>3. ASSUME NEW k \in 1..Len(m)
          PROVE  m[k].number = NoNumber \/ m[k].number = first - k + 1
      <3>1. CASE k \in 1..Len(l)
        BY <1>3, <1>6, <3>1 DEF Downwards
      <3>2. CASE k = Len(l) + 1
        BY <1>2, <1>3, <2>1, <3>2
      <3>3. QED
        BY <1>3, <3>1, <3>2
    <2>4. QED
      BY <2>2, <2>3 DEF Downwards
  <1>7. r.begin \in Int
    BY DEF RequestType
  <1>8. QED
    BY <1>4, <1>5, <1>6, <1>7 DEF RangeRight, m, u, x

(* The chain grows. *)
LEMMA RangeKept ==
    ASSUME NEW r, NEW at, NEW t, NEW l, NEW hs, NEW hs2, Len(hs) \in Nat, Len(hs2) \in Nat,
           Len(hs2) >= Len(hs), \A i \in 1..Len(hs) : hs2[i] = hs[i],
           RangeRight(r, at, t, l, hs)
    PROVE  RangeRight(r, at, t, l, hs2)
  <1>1. Found(l, hs) => Found(l, hs2)
    <2> SUFFICES ASSUME Found(l, hs), NEW k \in 1..Len(l), l[k].number # NoNumber
                 PROVE  l[k].number \in 0..(Len(hs2) - 1) /\ l[k].hash = hs2[l[k].number + 1]
      BY DEF Found
    <2>1. l[k].number \in 0..(Len(hs) - 1) /\ l[k].hash = hs[l[k].number + 1]
      BY DEF Found
    <2>2. l[k].number + 1 \in 1..Len(hs)
      BY <2>1
    <2>3. QED
      BY <2>1, <2>2
  <1>2. QED
    BY <1>1 DEF RangeRight

(* What the synchronisation thread and the workers do to what the requests  *)
(* read: the chain grows, and a dump stays where it is.                     *)
LEMMA ReadSourcesKept ==
    ASSUME IndInv, StartInv, [ServerNext]_allVars
    PROVE  /\ StartInv'
           /\ Len(hashes) \in Nat /\ Len(hashes') \in Nat /\ Len(hashes') >= Len(hashes)
           /\ \A i \in 1..Len(hashes) : hashes'[i] = hashes[i]
           /\ \A h, p : DumpAt(h, p) => /\ p \in 1..Len(file')
                                        /\ \/ file'[p] = h
                                           \/ file'[p] = Torn /\ budget'["cut"] < Budget["cut"]
           /\ \A l : DumpsRightIn(l, budget["cut"]) => DumpsRightIn(l, budget'["cut"])
  <1>0. hashes \in Seq(Hashes) /\ Len(hashes) \in Nat /\ filePos \in [Hashes -> Nat]
    BY DEF IndInv, ChainInv, BlockChainTypeOK
  <1>1. CASE SyncStops
    <2>1. UNCHANGED <<hashes, filePos, file, budget>> /\ pc' = "dead"
      BY <1>1 DEF SyncStops, chainVars, diskVars, Goto
    <2>2. QED
      BY <1>0, <2>1 DEF StartInv, DumpAt
  <1>2. CASE UNCHANGED vars
    <2>1. UNCHANGED <<hashes, filePos, file, budget, pc>>
      BY <1>2 DEF vars, chainVars, diskVars
    <2>2. QED
      BY <1>0, <2>1 DEF StartInv, DumpAt
  <1>3. CASE SyncStep \/ WorkerStep
    <2>0. [Next]_vars
      BY <1>3 DEF Next
    <2>1. IndInv'
      BY <2>0, StepInd
    <2>2. Len(hashes') \in Nat
      <3>1. hashes' \in Seq(Hashes')
        BY <2>1 DEF IndInv, ChainInv, BlockChainTypeOK
      <3>2. QED
        BY <3>1
    <2>3. pc' = "start" => pc = "start" /\ UNCHANGED <<hashes, filePos>>
      BY <1>3 DEF SyncStep, WorkerStep, CacheThread, SaverThread, Load, Walk, LoadDone, LoadThrows,
         StartWorkers, RetryFromFile, RetryFromNetwork, RetryThrows, RetryDone, Push, Fed, Poll,
         PollThrows, Fetch, FetchEnds, FetchThrows, AppendDump, AppendCut, SaveTransactions, AddNew,
         AddKnown, AddDone, AddThrows, Remove, SaveBlock, SaveThrows, Pop, Finish, CacheBlock,
         WorkerSkips, WorkerRejects, WorkerSaves, WorkerThrows, Goto, Again, Offer, chainVars
    <2>4. pc = "start" => UNCHANGED hashes
      BY <1>3 DEF StartInv, SyncStep, WorkerStep, CacheThread, SaverThread, Load, LoadHeaders,
         Walk, LoadDone, LoadThrows,
         StartWorkers, RetryFromFile, RetryFromNetwork, RetryThrows, RetryDone, Push, Fed, Poll,
         PollThrows, Fetch, FetchEnds, FetchThrows, AppendDump, AppendCut, SaveTransactions, AddNew,
         AddKnown, AddDone, AddThrows, Remove, SaveBlock, SaveThrows, Pop, Finish, CacheBlock,
         WorkerSkips, WorkerRejects, WorkerSaves, WorkerThrows, chainVars, InHand
    <2>5. Len(hashes') >= Len(hashes) /\ \A i \in 1..Len(hashes) : hashes'[i] = hashes[i]
      BY <1>0, <2>0, <2>3, <2>4, PrefixKept DEF ChainPrefixKept
    <2>6. filePos'[Genesis] = 0
      <3>1. CASE Load
        BY <3>1, Markers DEF Load, LoadHeaders, IndInv, TypeOK
      <3>2. CASE AddNew
        <4>1. prevBi # Genesis
          BY <3>2, Markers DEF AddNew, IndInv, PhaseInv, InHand
        <4>2. QED
          BY <1>0, <3>2, <4>1 DEF AddNew, AddWithoutCalc, StartInv
      <3>3. CASE Remove
        <4>1. prevBi # Genesis
          BY <3>3, Markers DEF Remove, IndInv, PhaseInv, InHand
        <4>2. QED
          BY <1>0, <3>3, <4>1 DEF Remove, RemoveBlock, StartInv
      <3>4. CASE ~(Load \/ AddNew \/ Remove)
        <4>1. UNCHANGED filePos
          BY <1>3, <3>4 DEF SyncStep, WorkerStep, CacheThread, SaverThread, Walk, LoadDone,
             LoadThrows, StartWorkers, RetryFromFile, RetryFromNetwork, RetryThrows, RetryDone, Push,
             Fed, Poll, PollThrows, Fetch, FetchEnds, FetchThrows, AppendDump, AppendCut,
             SaveTransactions, AddKnown, AddDone, AddThrows, SaveBlock, SaveThrows, Pop, Finish,
             CacheBlock, WorkerSkips, WorkerRejects, WorkerSaves, WorkerThrows, chainVars,
             CalcWalk, CalcReturn, CalcThrow
        <4>2. QED
          BY <4>1 DEF StartInv
      <3>5. QED
        BY <3>1, <3>2, <3>3, <3>4
    <2>7. StartInv'
      BY <2>3, <2>6 DEF StartInv
    <2>8. \A h, p : DumpAt(h, p) => /\ p \in 1..Len(file')
                                    /\ \/ file'[p] = h
                                       \/ file'[p] = Torn /\ budget'["cut"] < Budget["cut"]
      BY <2>0, DumpAtKept
    <2>9. budget["cut"] < Budget["cut"] => budget'["cut"] < Budget["cut"]
      <3>1. budget["cut"] \in Nat /\ Budget["cut"] \in Nat
        BY SyncAssumption DEF IndInv, TypeOK, FaultKinds
      <3>2. budget'["cut"] \in Nat
        BY <2>1 DEF IndInv, TypeOK, FaultKinds
      <3>3. budget'["cut"] <= budget["cut"]
        BY <2>0, DumpKept
      <3>4. QED
        BY <3>1, <3>2, <3>3
    <2>10. \A l : DumpsRightIn(l, budget["cut"]) => DumpsRightIn(l, budget'["cut"])
      BY <2>9 DEF DumpsRightIn
    <2>11. QED
      BY <1>0, <2>2, <2>5, <2>7, <2>8, <2>10
  <1>4. SyncStops \/ UNCHANGED vars \/ SyncStep \/ WorkerStep
    BY DEF ServerNext, allVars, ServerStarts, ServerFails, Signal, SyncRuns, WorkersRun, MainExits,
       Enter, Handler, CountIn, CheckStop, Leave, ReadCount, ReadHeader, Answer, FromCache, FromFile
  <1>5. QED
    BY <1>1, <1>2, <1>3, <1>4

(* The requests stay where they are while the others work. *)
LEMMA ReadKept ==
    ASSUME IndInv, ReadInv, [ServerNext]_allVars, UNCHANGED handlerVars
    PROVE  ReadInv'
  <1>1. UNCHANGED <<hpc, req, todo, header, list>>
    BY DEF handlerVars
  <1>2. HandlerTypeOK'
    BY <1>1 DEF ReadInv, HandlerTypeOK
  <1>3. StartInv'
    BY ReadSourcesKept DEF ReadInv
  <1>4. ASSUME NEW h \in Handlers PROVE HandlerRight(h)'
    <2>1. HandlerRight(h)
      BY DEF ReadInv
    <2>2. RangeRight(req[h], hpc[h], todo[h], list[h], hashes')
      BY <2>1, RangeKept, ReadSourcesKept DEF HandlerRight, ReadInv
    <2>3. DumpsInv(h)'
      <3>1. DumpsRightIn(list[h], budget["cut"]) => DumpsRightIn(list[h], budget'["cut"])
        BY ReadSourcesKept DEF ReadInv
      <3>2. DumpAt(header[h].hash, header[h].pos) =>
               /\ header[h].pos \in 1..Len(file')
               /\ \/ file'[header[h].pos] = header[h].hash
                  \/ file'[header[h].pos] = Torn /\ budget'["cut"] < Budget["cut"]
        BY ReadSourcesKept DEF ReadInv
      <3>3. QED
        BY <1>1, <2>1, <3>1, <3>2 DEF HandlerRight, DumpsInv, DumpAt
    <2>4. QED
      BY <1>1, <2>1, <2>2, <2>3 DEF HandlerRight
  <1>5. QED
    BY <1>2, <1>3, <1>4 DEF ReadInv

(* One handler takes a step and the others do not. *)
LEMMA OneHandler ==
    ASSUME ReadInv, UNCHANGED vars, NEW h \in Handlers, HandlerTypeOK', HandlerRight(h)',
           \A g \in Handlers \ {h} : /\ hpc'[g] = hpc[g] /\ req'[g] = req[g] /\ todo'[g] = todo[g]
                                     /\ header'[g] = header[g] /\ list'[g] = list[g]
    PROVE  ReadInv'
  <1>1. UNCHANGED <<pc, hashes, filePos, file, budget>>
    BY DEF vars, chainVars, diskVars
  <1>2. StartInv'
    BY <1>1 DEF ReadInv, StartInv
  <1>3. ASSUME NEW g \in Handlers \ {h} PROVE HandlerRight(g)'
    BY <1>1, <1>3 DEF ReadInv, HandlerRight, DumpsInv, DumpAt
  <1>4. QED
    BY <1>2, <1>3 DEF ReadInv

(* A request comes, is counted, looks at the signal, and leaves. *)
LEMMA EnterRead ==
    ASSUME ReadInv, NEW h \in Handlers, (\E r \in Requests[h] : Enter(h, r)) \/ CountIn(h) \/ Leave(h)
    PROVE  ReadInv'
  <1>1. /\ HandlerTypeOK /\ HandlerRight(h)
        /\ DOMAIN hpc = Handlers /\ DOMAIN req = Handlers /\ DOMAIN todo = Handlers
        /\ DOMAIN header = Handlers /\ DOMAIN list = Handlers
    BY DEF ReadInv, HandlerTypeOK
  <1>2. CASE \E r \in Requests[h] : Enter(h, r)
    <2>1. PICK r \in Requests[h] : Enter(h, r)
      BY <1>2
    <2>2. r \in RequestType
      BY ServerAssumption DEF RequestType
    <2>3. HandlerTypeOK'
      BY <1>1, <2>1, <2>2 DEF Enter, To, HandlerTypeOK
    <2>4. hpc[h] = "idle" /\ hpc'[h] = "enter" /\ list'[h] = list[h] /\ UNCHANGED vars
      BY <1>1, <2>1 DEF Enter, To, At
    <2>5. HandlerRight(h)'
      BY <1>1, <2>4 DEF HandlerRight, Unlisted, RangeRight, DumpsInv, DumpsRightIn
    <2>6. QED
      BY <1>1, <2>1, <2>3, <2>4, <2>5, OneHandler DEF Enter, To
  <1>3. CASE CountIn(h)
    <2>3. HandlerTypeOK'
      BY <1>1, <1>3 DEF CountIn, To, HandlerTypeOK
    <2>4. hpc[h] = "enter" /\ hpc'[h] = "check" /\ list'[h] = list[h] /\ UNCHANGED vars
      BY <1>1, <1>3 DEF CountIn, To, At
    <2>5. HandlerRight(h)'
      BY <1>1, <2>4 DEF HandlerRight, Unlisted, RangeRight, DumpsInv, DumpsRightIn
    <2>6. QED
      BY <1>1, <1>3, <2>3, <2>4, <2>5, OneHandler DEF CountIn, To
  <1>4. CASE Leave(h)
    <2>1. NoRequest \in RequestType /\ NoHeader \in HeaderType
          /\ <<>> \in Seq(Int) /\ <<>> \in Seq(HeaderType \cup DumpType)
      BY DEF NoRequest, RequestType, NoHeader, HeaderType, NoHash, NoNumber
    <2>3. HandlerTypeOK'
      BY <1>1, <1>4, <2>1 DEF Leave, To, HandlerTypeOK
    <2>4. hpc'[h] = "idle" /\ list'[h] = <<>> /\ UNCHANGED vars
      BY <1>1, <1>4 DEF Leave, To
    <2>5. HandlerRight(h)'
      BY <2>4 DEF HandlerRight, Unlisted, RangeRight, DumpsInv, DumpsRightIn
    <2>6. QED
      BY <1>1, <1>4, <2>3, <2>4, <2>5, OneHandler DEF Leave, To
  <1>5. QED
    BY <1>2, <1>3, <1>4

(* What the work on a request begins with. *)
LEMMA BeginRead ==
    ASSUME IndInv, ReadInv, NEW h \in Handlers, CheckStop(h) \/ ReadCount(h)
    PROVE  ReadInv'
  <1>1. /\ HandlerTypeOK /\ HandlerRight(h) /\ req[h] \in RequestType
        /\ DOMAIN hpc = Handlers /\ DOMAIN req = Handlers /\ DOMAIN todo = Handlers
        /\ DOMAIN header = Handlers /\ DOMAIN list = Handlers
    BY DEF ReadInv, HandlerTypeOK
  <1>2. CASE CheckStop(h)
    <2>1. hpc[h] = "check" /\ list'[h] = list[h] /\ req'[h] = req[h] /\ list[h] = <<>>
      BY <1>1, <1>2 DEF CheckStop, At, HandlerRight, Unlisted
    <2>2. FirstTodo(req[h]) \in Seq(Int)
      <3>1. req[h].begin \in Nat /\ req[h].cnt \in Nat
        BY <1>1 DEF RequestType
      <3>2. <<req[h].begin>> \in Seq(Int) /\ [k \in 1..req[h].cnt |-> req[h].begin + k - 1] \in Seq(Int)
            /\ <<>> \in Seq(Int)
        BY <3>1
      <3>3. QED
        BY <3>2 DEF FirstTodo
    <2>3. HandlerTypeOK'
      BY <1>1, <1>2, <2>2 DEF CheckStop, To, HandlerTypeOK, FirstStep, Working
    <2>4. /\ hpc'[h] \in {"leave", "count", "header"} /\ UNCHANGED vars
          /\ (hpc'[h] = "header" => req[h].kind \notin Ranges)
          /\ (hpc'[h] = "count" => req[h].kind \in Ranges \cup {"count"})
      BY <1>1, <1>2 DEF CheckStop, To, FirstStep, Ranges
    <2>5. HandlerRight(h)'
      BY <2>1, <2>4 DEF HandlerRight, Unlisted, RangeRight, DumpsInv, DumpsRightIn
    <2>6. QED
      BY <1>1, <1>2, <2>3, <2>4, <2>5, OneHandler DEF CheckStop, To
  <1>3. CASE ReadCount(h)
    <2>0. CountReads \subseteq Int
      <3>1. Len(hashes) \in Nat
        BY DEF IndInv, ChainInv, BlockChainTypeOK
      <3>2. CountBlocks \in Int
        BY <3>1 DEF CountBlocks
      <3>3. Unlucky \subseteq Int
        BY ServerAssumption
      <3>4. CountReads = {CountBlocks} \cup Unlucky \/ CountReads = {CountBlocks}
        BY DEF CountReads
      <3>5. QED
        BY <3>2, <3>3, <3>4
    <2>1. /\ hpc[h] = "count" /\ list'[h] = list[h] /\ req' = req /\ list[h] = <<>>
          /\ header' = header /\ list' = list /\ UNCHANGED vars
          /\ req[h].kind \in Ranges \cup {"count"}
      BY <1>1, <1>3 DEF ReadCount, At, HandlerRight, Unlisted
    <2>2. CASE To(h, "reply") /\ todo' = todo /\ req[h].kind = "count"
      <3>1. HandlerTypeOK'
        BY <1>1, <2>1, <2>2 DEF To, HandlerTypeOK
      <3>2. hpc'[h] = "reply"
        BY <1>1, <2>2 DEF To
      <3>3. HandlerRight(h)'
        BY <2>1, <2>2, <3>2 DEF HandlerRight, Unlisted, RangeRight, DumpsInv, DumpsRightIn, Ranges
      <3>4. QED
        BY <1>1, <2>1, <2>2, <3>1, <3>3, OneHandler DEF To
    <2>3. ASSUME NEW count \in Int, To(h, "header"), todo' = [todo EXCEPT ![h] = Numbers(req[h], count)],
                 req[h].kind # "count"
          PROVE  ReadInv'
      <3>0. /\ req[h].kind \in Ranges
            /\ Numbers(req[h], count) \in Seq(Int)
            /\ RangeRight(req[h], "header", Numbers(req[h], count), <<>>, hashes)
        BY <1>1, <2>1, <2>3, NumbersRight
      <3>1. HandlerTypeOK'
        BY <1>1, <2>1, <2>3, <3>0 DEF To, HandlerTypeOK, Working
      <3>2. hpc'[h] = "header" /\ todo'[h] = Numbers(req[h], count) /\ hashes' = hashes
        BY <1>1, <2>1, <2>3 DEF To, vars, chainVars
      <3>3. HandlerRight(h)'
        BY <2>1, <3>0, <3>2 DEF HandlerRight, Unlisted, DumpsInv, DumpsRightIn, Ranges
      <3>4. QED
        BY <1>1, <2>1, <2>3, <3>1, <3>3, OneHandler DEF To
    <2>4. QED
      BY <1>3, <2>0, <2>2, <2>3 DEF ReadCount
  <1>5. QED
    BY <1>2, <1>3

(* A header is looked up under the lock of the chain. *)
LEMMA HeaderRead ==
    ASSUME IndInv, DumpInv, ReadInv, NEW h \in Handlers, ReadHeader(h)
    PROVE  ReadInv'
  <1> DEFINE x == LookUp(req[h], Head(todo[h]))
  <1>1. /\ HandlerTypeOK /\ HandlerRight(h) /\ req[h] \in RequestType
        /\ todo[h] \in Seq(Int) /\ list[h] \in Seq(HeaderType \cup DumpType)
        /\ DOMAIN hpc = Handlers /\ DOMAIN req = Handlers /\ DOMAIN todo = Handlers
        /\ DOMAIN header = Handlers /\ DOMAIN list = Handlers
    BY DEF ReadInv, HandlerTypeOK
  <1>2. /\ hpc[h] = "header" /\ todo[h] # <<>> /\ req' = req
        /\ header' = [header EXCEPT ![h] = x]
        /\ todo' = [todo EXCEPT ![h] = Tail(@)]
        /\ UNCHANGED <<pc, hashes, filePos, file, budget>> /\ UNCHANGED vars
    BY DEF ReadHeader, At, vars, chainVars, diskVars
  <1>3. Head(todo[h]) \in Int /\ Tail(todo[h]) \in Seq(Int)
    BY <1>1, <1>2, TailIs
  <1>4. x \in HeaderType
    <2>1. ByNumber(Head(todo[h])) \in HeaderType
      BY <1>3, LookedUp
    <2>2. ByHash(Head(todo[h])) \in HeaderType
      <3>1. NoHeader \in HeaderType
        BY DEF NoHeader, HeaderType, NoHash, NoNumber
      <3>2. /\ blocks \subseteq Hashes /\ filePos \in [Hashes -> Nat]
            /\ blockNumber \in [Hashes -> Nat \cup {NoNumber}]
        BY DEF IndInv, ChainInv, BlockChainTypeOK
      <3>3. QED
        BY <3>1, <3>2 DEF ByHash, HeaderType
    <2>3. QED
      BY <2>1, <2>2 DEF LookUp
  <1> HIDE DEF x
  <1>5. /\ header'[h] = x /\ todo'[h] = Tail(todo[h])
        /\ header' \in [Handlers -> HeaderType] /\ todo' \in [Handlers -> Seq(Int)]
    BY <1>1, <1>2, <1>3, <1>4 DEF HandlerTypeOK
  <1>6. CASE req[h].kind = "dumps"
    <2> DEFINE to == IF x.number = NoNumber THEN "error" ELSE "cache"
    <2>1. To(h, to) /\ list' = list
      BY <1>5, <1>6 DEF ReadHeader
    <2>2. hpc'[h] = to
      BY <1>1, <2>1 DEF To
    <2>3. HandlerTypeOK'
      BY <1>1, <1>2, <1>5, <2>1 DEF To, HandlerTypeOK, Working
    <2>4. x = NoHeader \/ (x.hash \in blocks /\ x.pos = filePos[x.hash])
      BY <1>3, <1>6, LookedUp DEF x, LookUp
    <2>5. SaveToFiles => x.pos = 0 \/ DumpAt(x.hash, x.pos)
      BY <2>4 DEF NoHeader, DumpInv, DumpNeverWrong, ReadInv, StartInv
    <2>6. (DumpAt(x.hash, x.pos) <=> DumpAt(header[h].hash, header[h].pos)')
      BY <1>2, <1>5 DEF DumpAt
    <2>7. DumpsInv(h)'
      BY <1>1, <1>2, <1>5, <2>1, <2>2, <2>5, <2>6 DEF HandlerRight, DumpsInv
    <2>8. HandlerRight(h)'
      BY <1>2, <1>6, <2>2, <2>7 DEF HandlerRight, Unlisted, RangeRight, Ranges
    <2>9. QED
      BY <1>1, <1>2, <2>1, <2>3, <2>8, OneHandler DEF To
  <1>7. CASE req[h].kind # "dumps"
    <2>1. hpc' = hpc /\ list' = [list EXCEPT ![h] = Append(@, x)]
      BY <1>5, <1>7 DEF ReadHeader
    <2>2. list'[h] = Append(list[h], x) /\ Append(list[h], x) \in Seq(HeaderType \cup DumpType)
      BY <1>1, <1>4, <2>1, AppendIs
    <2>3. HandlerTypeOK'
      BY <1>1, <1>2, <1>5, <2>1, <2>2 DEF HandlerTypeOK
    <2>4. RangeRight(req[h], "header", Tail(todo[h]), Append(list[h], x), hashes)
      <3>1. CASE req[h].kind \notin Ranges
        BY <3>1 DEF RangeRight
      <3>2. CASE req[h].kind \in Ranges
        <4>1. x = ByNumber(Head(todo[h]))
          BY <3>2 DEF x, LookUp, Ranges
        <4>2. QED
          BY <1>1, <1>2, <3>2, <4>1, RangeGoesOn DEF HandlerRight
      <3>3. QED
        BY <3>1, <3>2
    <2>5. HandlerRight(h)'
      BY <1>2, <1>5, <1>7, <2>1, <2>2, <2>4 DEF HandlerRight, Unlisted, DumpsInv
    <2>6. QED
      BY <1>1, <1>2, <2>1, <2>3, <2>5, OneHandler
  <1>8. QED
    BY <1>6, <1>7

(* The answer is sent, or refused. *)
LEMMA AnswerRead ==
    ASSUME ReadInv, NEW h \in Handlers, Answer(h)
    PROVE  ReadInv'
  <1>1. /\ HandlerTypeOK /\ HandlerRight(h) /\ DOMAIN hpc = Handlers
    BY DEF ReadInv, HandlerTypeOK
  <1>2. /\ hpc[h] = "header" /\ UNCHANGED <<req, todo, header, list>>
        /\ UNCHANGED <<hashes, file, budget>> /\ UNCHANGED vars
        /\ To(h, IF req[h].kind = "dumps" \/ Answerable(list[h]) THEN "reply" ELSE "error")
    BY DEF Answer, At, vars, chainVars, diskVars
  <1>3. HandlerTypeOK'
    BY <1>1, <1>2 DEF HandlerTypeOK, To
  <1>4. /\ hpc'[h] \in {"reply", "error"}
        /\ hpc'[h] = "reply" => req[h].kind = "dumps" \/ Answerable(list[h])
    BY <1>1, <1>2 DEF To
  <1>5. RangeRight(req[h], hpc'[h], todo[h], list[h], hashes)
    BY <1>1, <1>2, <1>4 DEF HandlerRight, RangeRight, Ranges
  <1>6. HandlerRight(h)'
    BY <1>1, <1>2, <1>4, <1>5 DEF HandlerRight, Unlisted, DumpsInv
  <1>7. QED
    BY <1>1, <1>2, <1>3, <1>6, OneHandler DEF To

(* A dump is taken from the cache or from the file. *)
LEMMA DumpRead ==
    ASSUME IndInv, ReadInv, NEW h \in Handlers, FromCache(h) \/ FromFile(h)
    PROVE  ReadInv'
  <1>1. /\ HandlerTypeOK /\ HandlerRight(h) /\ header[h] \in HeaderType
        /\ list[h] \in Seq(HeaderType \cup DumpType)
        /\ DOMAIN hpc = Handlers /\ DOMAIN list = Handlers
    BY DEF ReadInv, HandlerTypeOK
  <1>2. /\ hpc[h] \in {"cache", "file"} /\ UNCHANGED <<req, todo, header>>
        /\ UNCHANGED <<hashes, file, budget>> /\ UNCHANGED vars /\ req[h].kind = "dumps"
    BY <1>1 DEF FromCache, FromFile, At, vars, chainVars, diskVars, HandlerRight
  <1>3. CASE \E d \in Hashes \cup {NoHash, Torn} :
                /\ Collect(h, d) /\ To(h, "header")
                /\ d = header[h].hash \/ (d = Torn /\ budget["cut"] < Budget["cut"])
    <2>1. PICK d \in Hashes \cup {NoHash, Torn} :
                /\ Collect(h, d) /\ To(h, "header")
                /\ d = header[h].hash \/ (d = Torn /\ budget["cut"] < Budget["cut"])
      BY <1>3
    <2> DEFINE x == [hash |-> header[h].hash, dump |-> d]
    <2>2. x \in HeaderType \cup DumpType /\ x.dump = d /\ x.hash = header[h].hash
      BY <1>1 DEF HeaderType, DumpType
    <2>3. list' = [list EXCEPT ![h] = Append(@, x)] /\ hpc'[h] = "header"
      BY <1>1, <2>1 DEF Collect, To
    <2> HIDE DEF x
    <2> DEFINE m == Append(list[h], x)
    <2>4. /\ m \in Seq(HeaderType \cup DumpType) /\ Len(list[h]) \in Nat
          /\ Len(m) = Len(list[h]) + 1 /\ m[Len(list[h]) + 1] = x
          /\ \A i \in 1..Len(list[h]) : m[i] = list[h][i]
      BY <1>1, <2>2, AppendIs
    <2>5. list'[h] = m
      BY <1>1, <2>3
    <2> HIDE DEF m
    <2>6. HandlerTypeOK'
      <3>1. list' \in [Handlers -> Seq(HeaderType \cup DumpType)]
        BY <1>1, <2>3, <2>4 DEF HandlerTypeOK, m
      <3>2. QED
        BY <1>1, <1>2, <2>1, <3>1 DEF HandlerTypeOK, To, Working
    <2>7. DumpsRightIn(m, budget["cut"])
      <3>1. DumpsRightIn(list[h], budget["cut"])
        BY <1>1, <1>2 DEF HandlerRight, DumpsInv
      <3>2. QED
        BY <2>1, <2>2, <2>4, <3>1 DEF DumpsRightIn
    <2>8. HandlerRight(h)'
      BY <1>2, <2>3, <2>5, <2>7 DEF HandlerRight, Unlisted, DumpsInv, RangeRight, Ranges
    <2>9. QED
      BY <1>1, <1>2, <2>1, <2>3, <2>6, <2>8, OneHandler DEF To
  <1>4. CASE /\ list' = list
             /\ To(h, "error") \/ (To(h, "file") /\ SaveToFiles /\ hpc[h] = "cache")
    <2>1. HandlerTypeOK'
      BY <1>1, <1>2, <1>4 DEF HandlerTypeOK, To, Working
    <2>2. hpc'[h] = "error" \/ (hpc'[h] = "file" /\ SaveToFiles /\ hpc[h] = "cache")
      BY <1>1, <1>4 DEF To
    <2>3. HandlerRight(h)'
      BY <1>1, <1>2, <1>4, <2>2 DEF HandlerRight, Unlisted, DumpsInv, RangeRight, Ranges, DumpAt
    <2>4. QED
      BY <1>1, <1>2, <1>4, <2>1, <2>3, OneHandler DEF To
  <1>5. CASE FromCache(h)
    <2>1. header[h].hash \in Hashes \cup {NoHash, Torn}
      BY <1>1 DEF HeaderType
    <2>2. QED
      BY <1>3, <1>4, <1>5, <2>1 DEF FromCache, At
  <1>6. CASE FromFile(h)
    <2>1. CASE header[h].pos \in 1..Len(file)
      <3>1. file[header[h].pos] \in Hashes \cup {NoHash, Torn}
        <4>1. file \in Seq(Blocks \cup {Torn})
          BY DEF IndInv, TypeOK
        <4>2. file[header[h].pos] \in Blocks \cup {Torn}
          BY <2>1, <4>1
        <4>3. QED
          BY <4>2, Markers
      <3>2. SaveToFiles /\ DumpAt(header[h].hash, header[h].pos)
        BY <1>1, <1>2, <1>6, <2>1 DEF HandlerRight, DumpsInv, FromFile, At
      <3>3. QED
        BY <1>3, <1>6, <2>1, <3>1, <3>2 DEF FromFile, DumpAt
    <2>2. CASE header[h].pos \notin 1..Len(file)
      BY <1>4, <1>6, <2>2 DEF FromFile
    <2>3. QED
      BY <2>1, <2>2
  <1>7. QED
    BY <1>5, <1>6

(* The invariant of the reading holds in every reachable state. *)
LEMMA ReadInductive == ServerSpec => []ReadInv
  <1>1. ServerInit => ReadInv
    <2> SUFFICES ASSUME ServerInit PROVE ReadInv
      OBVIOUS
    <2>1. /\ hpc = [h \in Handlers |-> "idle"] /\ req = [h \in Handlers |-> NoRequest]
          /\ todo = [h \in Handlers |-> <<>>] /\ header = [h \in Handlers |-> NoHeader]
          /\ list = [h \in Handlers |-> <<>>] /\ InitBlockChain
      BY DEF ServerInit
    <2>2. NoRequest \in RequestType /\ NoHeader \in HeaderType
          /\ <<>> \in Seq(Int) /\ <<>> \in Seq(HeaderType \cup DumpType)
      BY DEF NoRequest, RequestType, NoHeader, HeaderType, NoHash, NoNumber
    <2>3. HandlerTypeOK
      BY <2>1, <2>2 DEF HandlerTypeOK
    <2>4. StartInv
      BY <2>1, Markers DEF InitBlockChain, StartInv
    <2>5. ASSUME NEW h \in Handlers PROVE HandlerRight(h)
      BY <2>1 DEF HandlerRight, Unlisted, RangeRight, DumpsInv, NoRequest
    <2>6. QED
      BY <2>3, <2>4, <2>5 DEF ReadInv
  <1>2. ASSUME IndInv, DumpInv, ReadInv, [ServerNext]_allVars
        PROVE  ReadInv'
    <2>1. CASE ServerStarts \/ ServerFails \/ Signal \/ SyncStops \/ SyncRuns \/ WorkersRun
               \/ MainExits \/ UNCHANGED allVars
      <3>1. UNCHANGED handlerVars
        BY <2>1 DEF ServerStarts, ServerFails, Signal, SyncStops, SyncRuns, WorkersRun, MainExits,
           allVars, serverVars
      <3>2. QED
        BY <1>2, <3>1, ReadKept
    <2>2. CASE \E h \in Handlers : \E r \in Requests[h] : Enter(h, r)
      BY <1>2, <2>2, EnterRead
    <2>3. CASE \E h \in Handlers : Handler(h)
      BY <1>2, <2>3, EnterRead, BeginRead, HeaderRead, AnswerRead, DumpRead DEF Handler
    <2>4. QED
      BY <1>2, <2>1, <2>2, <2>3 DEF ServerNext
  <1>3. QED
    BY <1>1, <1>2, ServerSync, PTL DEF ServerSpec

(* What getBlocks answers is a run of blocks of the chain in the order that *)
(* was asked for, for any requests, whatever an unlocked read of the count  *)
(* yields and however the chain grows meanwhile.                            *)
THEOREM RangesRight == ServerSpec => []RangeOnChain
  <1>1. ReadInv => RangeOnChain
    <2> SUFFICES ASSUME ReadInv, NEW h \in Handlers, hpc[h] = "reply", req[h].kind \in Ranges
                 PROVE  LET l == list[h]
                            up == IF req[h].kind = "forward" THEN 1 ELSE -1
                        IN /\ \A k \in 1..Len(l) : HasNumber(l[k].hash, l[k].number)
                           /\ \A k \in 1..(Len(l) - 1) : l[k + 1].number = l[k].number + up
                           /\ up = 1 /\ l # <<>> => l[1].number = req[h].begin
      BY DEF RangeOnChain, At, Ranges
    <2> DEFINE l == list[h]
    <2>1. /\ l \in Seq(HeaderType \cup DumpType) /\ Len(l) \in Nat
          /\ req[h].begin \in Nat
          /\ RangeRight(req[h], "reply", todo[h], l, hashes)
      BY DEF ReadInv, HandlerTypeOK, HandlerRight, RequestType
    <2>2. Found(l, hashes) /\ Answerable(l)
      BY <2>1 DEF RangeRight
    <2>3. l # <<>> => Len(l) >= 1
      BY <2>1
    <2> HIDE DEF l
    <2>4. \A k \in 1..Len(l) : /\ l[k].number \in 1..(Len(hashes) - 1)
                               /\ l[k].hash = hashes[l[k].number + 1]
                               /\ l[k].number # NoNumber
      BY <2>2 DEF Found, Answerable
    <2>5. \A k \in 1..Len(l) : HasNumber(l[k].hash, l[k].number)
      BY <2>4 DEF HasNumber, CountBlocks
    <2>6. CASE req[h].kind = "forward"
      <3>1. \A k \in 1..Len(l) : l[k].number = req[h].begin + k - 1
        BY <2>1, <2>4, <2>6 DEF RangeRight, Upwards
      <3>2. \A k \in 1..(Len(l) - 1) : l[k + 1].number = l[k].number + 1
        <4> SUFFICES ASSUME NEW k \in 1..(Len(l) - 1)
                     PROVE  l[k + 1].number = l[k].number + 1
          OBVIOUS
        <4>1. k \in 1..Len(l) /\ k + 1 \in 1..Len(l)
          BY <2>1
        <4>2. l[k].number = req[h].begin + k - 1 /\ l[k + 1].number = req[h].begin + (k + 1) - 1
          BY <3>1, <4>1
        <4>3. req[h].begin \in Int /\ k \in Int
          BY <2>1
        <4>4. \A x \in Int : x + (k + 1) - 1 = (x + k - 1) + 1
          BY <4>3
        <4>5. QED
          BY <4>2, <4>3, <4>4
      <3>3. l # <<>> => l[1].number = req[h].begin
        BY <2>1, <2>3, <3>1
      <3>4. QED
        BY <2>5, <2>6, <3>2, <3>3 DEF l
    <2>7. CASE req[h].kind = "backward"
      <3>1. PICK first \in Int : Downwards(todo[h], l, first)
        BY <2>1, <2>7 DEF RangeRight
      <3>2. \A k \in 1..Len(l) : l[k].number = first - k + 1
        BY <2>4, <3>1 DEF Downwards
      <3>3. \A k \in 1..(Len(l) - 1) : l[k + 1].number = l[k].number + (-1)
        BY <2>1, <3>2
      <3>4. QED
        BY <2>5, <2>7, <3>3 DEF l
    <2>8. QED
      BY <2>6, <2>7 DEF Ranges
  <1>2. QED
    BY <1>1, ReadInductive, PTL

(* The dump that is answered for a block is the dump of that block, however *)
(* the cache and the file change between the look-up and the read; or, when *)
(* a write to the file was cut short, what is left of the dump.             *)
THEOREM AnsweredDumps == ServerSpec => []DumpOfThatBlock
  <1>1. ReadInv => DumpOfThatBlock
    BY DEF ReadInv, HandlerRight, DumpsInv, DumpsRightIn, DumpOfThatBlock
  <1>2. QED
    BY <1>1, ReadInductive, PTL
=============================================================================
