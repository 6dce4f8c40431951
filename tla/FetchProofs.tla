---------------------------- MODULE FetchProofs -----------------------------
(***************************************************************************)
(* Proofs about BlockSource: the broadcast and the three caches of the     *)
(* network source, for any servers, answers and sizes of the batches, and  *)
(* the files.                                                              *)
(***************************************************************************)
EXTENDS BlockSource, FileSourceProofs, FiniteSetTheorems

(* The round of requests after a broadcast. *)
Loading == {"process", "header", "dump"}

(* serversSave names every server that has said n, each of them once, and   *)
(* none has said more.                                                      *)
Listed(n) ==
    /\ {serversSave[k] : k \in 1..Len(serversSave)} = {s \in Servers : said[s] = n}
    /\ Len(serversSave) = Cardinality({s \in Servers : said[s] = n})
    /\ \A s \in Servers : said[s] <= n

BroadcastInv ==
    /\ serversSave \in Seq(Servers)
    /\ pc = "broadcast" => /\ \A s \in asked : said[s] = None
                           /\ Listed(LastSoFar)
                           /\ lastBlock # None => serversSave # <<>>
    /\ pc \in Loading => lastBlock = known /\ Listed(known) /\ serversSave # <<>>

(* The headers kept are those of an interval; the block under a number is   *)
(* not above it.                                                            *)
HeadersInv ==
    /\ \A n \in DOMAIN headers : headers[n] \in 1..n
    /\ \A n, m \in DOMAIN headers : \A k \in n..m : k \in DOMAIN headers
    /\ pc = "dump" => header \in 1..cur

(* Where process is in its loop. *)
LoadInv ==
    /\ \A n \in DOMAIN advanced : advanced[n] \in 0..n
    /\ pc # "poll" => nextNum = count + 1
    /\ pc \in {"header", "dump"} =>
          /\ nextNum \in 1..known
          /\ cur \in nextNum..(nextNum + CountToLoad - 1)
          /\ DOMAIN advanced = nextNum..(cur - 1)

FetchInv == FetchTypeOK /\ BroadcastInv /\ HeadersInv /\ LoadInv /\ CachesFresh

-----------------------------------------------------------------------------
(* A set of numbers has a least one. *)
LEMMA MinIs ==
    ASSUME NEW S \in SUBSET Nat, S # {}
    PROVE  Min(S) \in S /\ \A n \in S : Min(S) <= n
  <1> DEFINE R == {p \in Nat \X Nat : p[1] < p[2]}
  <1>1. IsWellFoundedOn(R, Nat)
    BY NatLessThanWellFounded DEF OpToRel
  <1>2. \A n, m \in Nat : <<m, n>> \in R <=> m < n
    OBVIOUS
  <1> HIDE DEF R
  <1>3. PICK n \in S : \A m \in S : ~(<<m, n>> \in R)
    BY <1>1, WFMin
  <1>4. \A m \in S : n <= m
    <2> TAKE m \in S
    <2>1. n \in Nat /\ m \in Nat
      OBVIOUS
    <2>2. ~(m < n)
      BY <1>2, <1>3, <2>1
    <2>3. QED
      BY <2>1, <2>2
  <1>5. QED
    BY <1>4 DEF Min

(* The place that is asked for is never behind the place that is meant. *)
LEMMA AskedIs ==
    ASSUME NEW k \in Nat, NEW n \in Int
    PROVE  Asked(k, n) \in 0..k
  <1>1. BatchSize \in Nat /\ BatchSize >= 1
    BY FetchAssumption
  <1>2. k \div BatchSize \in Nat /\ k \div BatchSize <= k
    BY <1>1
  <1>3. QED
    BY <1>2 DEF Asked

(* The types that the proofs below keep needing. *)
LEMMA FetchFacts ==
    ASSUME FetchTypeOK
    PROVE  /\ MaxBlock \in Nat /\ MaxAdvanced \in Nat /\ MaxAdvanced >= 1
           /\ CountAdvanced \in Nat /\ CountAdvanced >= 1 /\ MaxFaults \in Nat
           /\ asked \subseteq Servers /\ said \in [Servers -> 0..MaxBlock \cup {None}]
           /\ lastBlock \in 0..MaxBlock \cup {None} /\ LastSoFar \in 0..MaxBlock
           /\ lastBlock # None => LastSoFar = lastBlock
           /\ count \in 0..MaxBlock /\ known \in 0..MaxBlock /\ nextNum \in 0..(MaxBlock + 1)
           /\ cur \in 0..(MaxBlock + 1) /\ faults \in 0..MaxFaults
  <1>1. /\ MaxBlock \in Nat \ {0} /\ MaxAdvanced \in Nat \ {0} /\ CountAdvanced \in Nat \ {0}
        /\ MaxFaults \in Nat
    BY FetchAssumption
  <1>2. QED
    BY <1>1 DEF FetchTypeOK, LastSoFar, None

-----------------------------------------------------------------------------
(* The broadcast *)

(* A server answers: those that gave the largest number so far are listed   *)
(* once each.                                                               *)
LEMMA SaysListed ==
    ASSUME FetchTypeOK, BroadcastInv, NEW s \in Servers, NEW n \in 0..MaxBlock, ServerSays(s, n)
    PROVE  /\ serversSave' \in Seq(Servers) /\ serversSave' # <<>>
           /\ \A t \in asked' : said'[t] = None
           /\ lastBlock' = LastSoFar' /\ lastBlock' \in 0..MaxBlock
           /\ Listed(LastSoFar)'
  <1>1. /\ pc = "broadcast" /\ s \in asked /\ asked' = asked \ {s} /\ said' = [said EXCEPT ![s] = n]
        /\ lastBlock' = (IF n > LastSoFar THEN n ELSE LastSoFar)
        /\ serversSave' = Keep(s, n)
    BY DEF ServerSays
  <1>2. /\ asked \subseteq Servers /\ said \in [Servers -> 0..MaxBlock \cup {None}]
        /\ LastSoFar \in 0..MaxBlock /\ MaxBlock \in Nat
    BY FetchFacts
  <1>3. /\ serversSave \in Seq(Servers) /\ Listed(LastSoFar) /\ \A t \in asked : said[t] = None
    BY <1>1 DEF BroadcastInv
  <1>4. /\ said'[s] = n /\ said[s] = None /\ \A t \in Servers : t # s => said'[t] = said[t]
        /\ \A t \in Servers : said[t] \in 0..MaxBlock \cup {None} /\ said[t] <= LastSoFar
    BY <1>1, <1>2, <1>3 DEF Listed
  <1>5. \A t \in asked' : said'[t] = None
    BY <1>1, <1>2, <1>3, <1>4
  <1>6. lastBlock' \in 0..MaxBlock /\ lastBlock' # None
    BY <1>1, <1>2 DEF None
  <1>7. lastBlock' = LastSoFar'
    BY <1>6 DEF LastSoFar
  <1> DEFINE Sayers(m) == {t \in Servers : said[t] = m}
             SayersNow(m) == {t \in Servers : said'[t] = m}
  <1>8. /\ {serversSave[k] : k \in 1..Len(serversSave)} = Sayers(LastSoFar)
        /\ Len(serversSave) = Cardinality(Sayers(LastSoFar))
        /\ IsFiniteSet(Sayers(LastSoFar)) /\ s \notin Sayers(LastSoFar)
    <2>1. IsFiniteSet(Servers) /\ Sayers(LastSoFar) \in SUBSET Servers
      BY FetchAssumption
    <2>2. IsFiniteSet(Sayers(LastSoFar))
      BY <2>1, FS_Subset
    <2>3. s \notin Sayers(LastSoFar)
      BY <1>2, <1>4 DEF None
    <2>4. QED
      BY <1>3, <2>2, <2>3 DEF Listed
  <1>9. SUFFICES /\ serversSave' \in Seq(Servers) /\ serversSave' # <<>>
                 /\ {serversSave'[k] : k \in 1..Len(serversSave')} = SayersNow(lastBlock')
                 /\ Len(serversSave') = Cardinality(SayersNow(lastBlock'))
                 /\ \A t \in Servers : said'[t] <= lastBlock'
    BY <1>5, <1>6, <1>7 DEF Listed
  <1>10. \A t \in Servers : said'[t] <= lastBlock'
    BY <1>1, <1>2, <1>4 DEF None
  <1>11. CASE n > LastSoFar
    <2>1. serversSave' = <<s>> /\ lastBlock' = n
      BY <1>1, <1>11 DEF Keep
    <2>2. SayersNow(n) = {s}
      BY <1>2, <1>4, <1>11 DEF None
    <2>3. /\ serversSave' \in Seq(Servers) /\ Len(serversSave') = 1 /\ serversSave'[1] = s
      BY <2>1
    <2>4. {serversSave'[k] : k \in 1..Len(serversSave')} = {s}
      BY <2>3
    <2>5. Cardinality({s}) = 1
      BY FS_Singleton
    <2>6. serversSave' # <<>>
      BY <2>1
    <2>7. QED
      BY <1>10, <2>1, <2>2, <2>3, <2>4, <2>5, <2>6
  <1>12. CASE n = LastSoFar
    <2>1. serversSave' = Append(serversSave, s) /\ lastBlock' = n
      BY <1>1, <1>2, <1>12 DEF Keep
    <2>2. SayersNow(n) = Sayers(LastSoFar) \cup {s}
      BY <1>2, <1>4, <1>12 DEF None
    <2>3. /\ serversSave' \in Seq(Servers) /\ Len(serversSave') = Len(serversSave) + 1
          /\ Len(serversSave) \in Nat /\ serversSave'[Len(serversSave) + 1] = s
          /\ \A k \in 1..Len(serversSave) : serversSave'[k] = serversSave[k]
      BY <1>3, <2>1, AppendIs
    <2>4. {serversSave'[k] : k \in 1..Len(serversSave')}
            = {serversSave[k] : k \in 1..Len(serversSave)} \cup {s}
      <3>1. \A k \in 1..Len(serversSave') : k \in 1..Len(serversSave) \/ k = Len(serversSave) + 1
        BY <2>3
      <3>2. \A k \in 1..Len(serversSave) : k \in 1..Len(serversSave')
        BY <2>3
      <3>3. Len(serversSave) + 1 \in 1..Len(serversSave')
        BY <2>3
      <3>4. QED
        BY <2>3, <3>1, <3>2, <3>3
    <2>5. Cardinality(SayersNow(n)) = Len(serversSave) + 1
      <3> HIDE DEF Sayers, SayersNow
      <3>1. QED
        BY <1>8, <2>2, FS_AddElement
    <2>6. serversSave' # <<>>
      <3>1. Len(<<>>) = 0 /\ Len(serversSave') # 0
        BY <2>3
      <3>2. QED
        BY <3>1
    <2> HIDE DEF Sayers, SayersNow
    <2>7. QED
      BY <1>8, <1>10, <2>1, <2>2, <2>3, <2>4, <2>5, <2>6
  <1>13. CASE n < LastSoFar
    <2>1. serversSave' = serversSave /\ lastBlock' = LastSoFar
      BY <1>1, <1>2, <1>13 DEF Keep
    <2>2. SayersNow(LastSoFar) = Sayers(LastSoFar)
      BY <1>2, <1>4, <1>13 DEF None
    <2>3. serversSave # <<>>
      <3>1. lastBlock # None
        BY <1>2, <1>13 DEF LastSoFar
      <3>2. QED
        BY <1>1, <3>1 DEF BroadcastInv
    <2> HIDE DEF Sayers, SayersNow
    <2>4. QED
      BY <1>3, <1>8, <1>10, <2>1, <2>2, <2>3
  <1>14. QED
    BY <1>2, <1>11, <1>12, <1>13

(* Every step keeps the invariant of the broadcast. *)
LEMMA BroadcastStep ==
    ASSUME FetchTypeOK, BroadcastInv, [Next]_vars
    PROVE  BroadcastInv'
  <1>1. CASE DoProcess
    <2>1. /\ pc' = "broadcast" /\ said' = [s \in Servers |-> None] /\ lastBlock' = None
          /\ serversSave' = <<>> /\ asked' = Servers
      BY <1>1 DEF DoProcess
    <2>2. {s \in Servers : said'[s] = 0} = {}
      BY <2>1 DEF None
    <2>3. /\ LastSoFar' = 0 /\ \A s \in Servers : said'[s] = None /\ said'[s] <= 0
      BY <2>1 DEF LastSoFar, None
    <2>4. Len(serversSave') = 0 /\ {serversSave'[k] : k \in 1..Len(serversSave')} = {}
          /\ serversSave' \in Seq(Servers)
      BY <2>1
    <2>5. Cardinality({}) = 0
      BY FS_EmptySet
    <2>6. Listed(LastSoFar)'
      BY <2>2, <2>3, <2>4, <2>5 DEF Listed
    <2>7. QED
      BY <2>1, <2>3, <2>4, <2>6 DEF BroadcastInv, Loading
  <1>2. ASSUME NEW s \in Servers, NEW n \in 0..MaxBlock, ServerSays(s, n)
        PROVE  BroadcastInv'
    <2>1. pc' = "broadcast"
      BY <1>2 DEF ServerSays
    <2>2. QED
      BY <1>2, <2>1, SaysListed DEF BroadcastInv, Loading
  <1>3. ASSUME NEW s \in Servers, ServerSilent(s)
        PROVE  BroadcastInv'
    BY <1>3 DEF ServerSilent, BroadcastInv, Listed, LastSoFar, Loading
  <1>4. CASE BroadcastEnds
    <2>1. /\ pc = "broadcast" /\ lastBlock # None /\ known' = lastBlock /\ pc' \in {"process", "poll"}
          /\ UNCHANGED <<asked, said, lastBlock, serversSave>>
      BY <1>4 DEF BroadcastEnds, broadcastVars
    <2>2. LastSoFar = lastBlock
      BY <2>1 DEF LastSoFar
    <2>3. QED
      BY <2>1, <2>2 DEF BroadcastInv, Listed, Loading
  <1>5. CASE ~(\/ DoProcess \/ BroadcastEnds
               \/ \E s \in Servers : ServerSilent(s) \/ \E n \in 0..MaxBlock : ServerSays(s, n))
    <2>1. /\ UNCHANGED <<asked, said, lastBlock, serversSave, known>>
          /\ pc' = "poll" \/ pc' = pc \/ (pc \in Loading /\ pc' \in Loading)
      BY <1>5 DEF Next, Step, vars, broadcastVars, NobodyAnswers, Deliver, Rethrow, EndOfKnown, StartLoad,
         HeaderKnown, HeadersLoaded, DumpKnown, DumpAlone, SignedAlone, DumpsLoaded, HeaderFails,
         DumpFails, Loaded, Loading
    <2>2. QED
      BY <2>1 DEF BroadcastInv, Listed, LastSoFar, Loading
  <1>6. QED
    BY <1>1, <1>2, <1>3, <1>4, <1>5

-----------------------------------------------------------------------------
(* The caches *)

(* Where process is while it loads. *)
LEMMA LoadFacts ==
    ASSUME FetchTypeOK, LoadInv, pc \in {"header", "dump"}
    PROVE  /\ nextNum \in 1..known /\ known \in 0..MaxBlock /\ MaxBlock \in Nat
           /\ CountToLoad \in 1..CountAdvanced /\ CountAdvanced \in Nat
           /\ nextNum + CountToLoad - 1 <= known
           /\ cur \in nextNum..(nextNum + CountToLoad - 1) /\ cur \in 1..known
           /\ DOMAIN advanced = nextNum..(cur - 1) /\ nextNum = count + 1
           /\ MaxAdvanced \in Nat /\ MaxAdvanced >= 1
  <1>1. /\ nextNum \in 1..known /\ known \in 0..MaxBlock /\ MaxBlock \in Nat
        /\ CountAdvanced \in Nat /\ CountAdvanced >= 1 /\ MaxAdvanced \in Nat /\ MaxAdvanced >= 1
        /\ cur \in nextNum..(nextNum + CountToLoad - 1)
        /\ DOMAIN advanced = nextNum..(cur - 1) /\ nextNum = count + 1
    BY FetchFacts DEF LoadInv
  <1>2. CountToLoad \in 1..CountAdvanced /\ CountToLoad <= known - nextNum + 1
    BY <1>1 DEF CountToLoad, Least
  <1>3. QED
    BY <1>1, <1>2

(* The headers that a request brings, or the first parts of it. *)
LEMMA HeadersUpToIs ==
    ASSUME FetchTypeOK, LoadInv, pc = "header", NEW k \in 0..CountHeaders
    PROVE  /\ CountHeaders \in 1..MaxAdvanced
           /\ DOMAIN HeadersUpTo(k) = cur..(cur + k - 1)
           /\ DOMAIN HeadersUpTo(k) \subseteq 1..known
           /\ Cardinality(DOMAIN HeadersUpTo(k)) <= MaxAdvanced
           /\ \A n \in DOMAIN HeadersUpTo(k) : HeadersUpTo(k)[n] \in 1..n
           /\ \A n, m \in DOMAIN HeadersUpTo(k) : \A i \in n..m : i \in DOMAIN HeadersUpTo(k)
  <1>1. cur \in 1..known /\ known \in Nat /\ MaxAdvanced \in Nat /\ MaxAdvanced >= 1
    BY LoadFacts
  <1>2. CountHeaders \in 1..MaxAdvanced /\ CountHeaders <= known - cur + 1
    BY <1>1 DEF CountHeaders, Least
  <1>3. k \in Nat /\ k <= MaxAdvanced /\ cur + k - 1 <= known
    BY <1>1, <1>2
  <1>4. DOMAIN HeadersUpTo(k) = cur..(cur + k - 1)
    BY DEF HeadersUpTo
  <1>5. ASSUME NEW n \in cur..(cur + k - 1) PROVE HeadersUpTo(k)[n] \in 1..n
    <2>1. n - cur \in Nat /\ CountHeaders \in Int /\ n \in Int
      BY <1>1, <1>2, <1>3
    <2>2. Asked(n - cur, CountHeaders) \in 0..(n - cur)
      BY <2>1, AskedIs
    <2>3. HeadersUpTo(k)[n] = cur + Asked(n - cur, CountHeaders)
      BY DEF HeadersUpTo
    <2>4. QED
      BY <1>1, <2>1, <2>2, <2>3
  <1>6. Cardinality(cur..(cur + k - 1)) <= MaxAdvanced
    <2>1. cur \in Int /\ cur + k - 1 \in Int
      BY <1>1, <1>3
    <2>2. Cardinality(cur..(cur + k - 1)) = IF cur > cur + k - 1 THEN 0 ELSE (cur + k - 1) - cur + 1
      BY <2>1, FS_Interval
    <2>3. QED
      BY <1>1, <1>3, <2>2
  <1>7. cur..(cur + k - 1) \subseteq 1..known
    BY <1>1, <1>3
  <1>8. \A n, m \in cur..(cur + k - 1) : \A i \in n..m : i \in cur..(cur + k - 1)
    BY <1>1, <1>3
  <1> HIDE DEF HeadersUpTo
  <1>9. QED
    BY <1>2, <1>4, <1>5, <1>6, <1>7, <1>8

(* The dumps that a request brings are those of headers that are kept. *)
LEMMA DumpsUpToIs ==
    ASSUME FetchTypeOK, HeadersInv, NEW k
    PROVE  DumpsUpTo(k) \subseteq Numbers
  <1>1. /\ DOMAIN headers \subseteq Numbers /\ \A n \in DOMAIN headers : headers[n] \in Numbers
        /\ MaxBlock \in Nat
    BY FetchFacts DEF FetchTypeOK
  <1>2. DumpRun \subseteq DOMAIN headers
    BY DEF DumpRun
  <1> DEFINE first == Min(DumpRun)
             all == Cardinality(DumpRun)
  <1>3. ASSUME NEW n \in DumpRun PROVE headers[first + Asked(n - first, all)] \in Numbers
    <2>1. DumpRun \in SUBSET Nat /\ DumpRun # {}
      BY <1>1, <1>2, <1>3 DEF Numbers
    <2>2. first \in DumpRun /\ first <= n
      BY <2>1, MinIs
    <2>3. all \in Nat
      <3>1. DumpRun \in SUBSET (1..MaxBlock) /\ IsFiniteSet(1..MaxBlock)
        BY <1>1, <1>2, FS_Interval DEF Numbers
      <3>2. IsFiniteSet(DumpRun)
        BY <3>1, FS_Subset
      <3>3. QED
        BY <3>2, FS_CardinalityType
    <2> HIDE DEF first, all
    <2>4. first \in Nat /\ n \in Nat /\ n - first \in Nat /\ all \in Int
      BY <2>1, <2>2, <2>3
    <2>5. Asked(n - first, all) \in 0..(n - first)
      BY <2>4, AskedIs
    <2>6. first + Asked(n - first, all) \in first..n
      BY <2>4, <2>5
    <2>7. first + Asked(n - first, all) \in DOMAIN headers
      BY <1>2, <2>2, <2>6 DEF HeadersInv
    <2>8. QED
      BY <1>1, <2>7
  <1>4. QED
    BY <1>3 DEF DumpsUpTo

(* A number has been loaded. *)
LEMMA LoadedIs ==
    ASSUME FetchTypeOK, LoadInv, CachesFresh, pc \in {"header", "dump"},
           NEW b \in 0..cur, Loaded(b)
    PROVE  /\ LoadInv'
           /\ DOMAIN advanced' \subseteq 1..known' /\ Cardinality(DOMAIN advanced') <= CountAdvanced
           /\ \A n \in DOMAIN advanced' : advanced'[n] \in Numbers \cup {Failed}
           /\ cur' \in 0..(MaxBlock + 1) /\ header' = 0 /\ pc' \in {"header", "process"}
           /\ UNCHANGED <<isVerifySign, broadcastVars, count, known, nextNum>>
  <1>1. /\ advanced' = Put(advanced, cur, b) /\ cur' = cur + 1 /\ header' = 0
        /\ pc' = (IF cur' < nextNum + CountToLoad THEN "header" ELSE "process")
        /\ UNCHANGED <<isVerifySign, broadcastVars, count, known, nextNum>>
    BY DEF Loaded
  <1>2. /\ nextNum \in 1..known /\ known \in 0..MaxBlock /\ MaxBlock \in Nat
        /\ CountToLoad \in 1..CountAdvanced /\ CountAdvanced \in Nat
        /\ nextNum + CountToLoad - 1 <= known
        /\ cur \in nextNum..(nextNum + CountToLoad - 1) /\ cur \in 1..known
        /\ DOMAIN advanced = nextNum..(cur - 1) /\ nextNum = count + 1
    BY LoadFacts
  <1>3. DOMAIN advanced' = nextNum..cur
    <2>1. DOMAIN advanced' = DOMAIN advanced \cup {cur}
      BY <1>1 DEF Put
    <2>2. (nextNum..(cur - 1)) \cup {cur} = nextNum..cur
      BY <1>2
    <2>3. QED
      BY <1>2, <2>1, <2>2
  <1>4. \A n \in DOMAIN advanced' : advanced'[n] \in 0..n
    <2>1. \A n \in DOMAIN advanced : advanced[n] \in 0..n
      BY DEF LoadInv
    <2>2. QED
      BY <1>1, <2>1 DEF Put
  <1>5. CountToLoad' = CountToLoad
    BY <1>1 DEF CountToLoad
  <1>6. LoadInv'
    <2>1. pc' \in {"header", "process"}
      BY <1>1
    <2>2. pc' = "header" => cur' \in nextNum..(nextNum + CountToLoad - 1)
      BY <1>1, <1>2
    <2>3. cur' - 1 = cur
      BY <1>1, <1>2
    <2>4. QED
      BY <1>1, <1>2, <1>3, <1>4, <1>5, <2>1, <2>2, <2>3 DEF LoadInv
  <1>7. DOMAIN advanced' \subseteq 1..known /\ cur' \in 0..(MaxBlock + 1)
    BY <1>1, <1>2, <1>3
  <1>8. Cardinality(DOMAIN advanced') <= CountAdvanced
    <2>1. nextNum \in Int /\ cur \in Int
      BY <1>2
    <2>2. Cardinality(nextNum..cur) = IF nextNum > cur THEN 0 ELSE cur - nextNum + 1
      BY <2>1, FS_Interval
    <2>3. QED
      BY <1>2, <1>3, <2>2
  <1>9. \A n \in DOMAIN advanced' : advanced'[n] \in Numbers \cup {Failed}
    <2>1. \A n \in 1..known : \A m \in 0..n : m \in Numbers \cup {Failed}
      BY <1>2 DEF Numbers, Failed
    <2>2. QED
      BY <1>4, <1>7, <2>1
  <1>10. QED
    BY <1>1, <1>6, <1>7, <1>8, <1>9

-----------------------------------------------------------------------------
(* The steps of the source *)

(* What the invariant says of everything but the broadcast; the parts that  *)
(* a step has to keep.                                                      *)
FetchRest == /\ isVerifySign \in BOOLEAN
             /\ count \in 0..MaxBlock /\ known \in 0..MaxBlock /\ nextNum \in 0..(MaxBlock + 1)
             /\ dumps \subseteq Numbers
             /\ cur \in 0..(MaxBlock + 1) /\ header \in Numbers \cup {0}
             /\ pc \in {"poll", "broadcast", "process", "header", "dump"}
             /\ faults \in 0..MaxFaults

HeadersFit ==
    /\ DOMAIN headers \subseteq 1..known
    /\ Cardinality(DOMAIN headers) <= MaxAdvanced
    /\ \A n \in DOMAIN headers : headers[n] \in 1..n
    /\ \A n, m \in DOMAIN headers : \A k \in n..m : k \in DOMAIN headers

AdvancedFit ==
    /\ DOMAIN advanced \subseteq 1..known
    /\ Cardinality(DOMAIN advanced) <= CountAdvanced
    /\ LoadInv

BroadcastTypes ==
    /\ asked \subseteq Servers
    /\ said \in [Servers -> 0..MaxBlock \cup {None}]
    /\ lastBlock \in 0..MaxBlock \cup {None}

(* The invariant in these parts. *)
LEMMA FetchParts ==
    FetchInv <=> /\ BroadcastTypes /\ FetchRest /\ BroadcastInv /\ HeadersFit /\ AdvancedFit
                 /\ pc = "dump" => header \in 1..cur
  <1>1. MaxBlock \in Nat
    BY FetchAssumption
  <1>2. ASSUME FetchInv
        PROVE  /\ BroadcastTypes /\ FetchRest /\ BroadcastInv /\ HeadersFit /\ AdvancedFit
               /\ pc = "dump" => header \in 1..cur
    BY <1>2 DEF FetchInv, FetchTypeOK, BroadcastTypes, FetchRest, HeadersFit, AdvancedFit, HeadersInv,
       CachesFresh
  <1>3. ASSUME BroadcastTypes, FetchRest, BroadcastInv, HeadersFit, AdvancedFit,
               pc = "dump" => header \in 1..cur
        PROVE  FetchInv
    <2>1. known \in 0..MaxBlock /\ 1..known \subseteq Numbers
      BY <1>1, <1>3 DEF FetchRest, Numbers
    <2>2. \A n \in 1..known : 1..n \subseteq Numbers /\ 0..n \subseteq Numbers \cup {Failed}
      BY <1>1, <2>1 DEF Numbers, Failed
    <2>3. \A n \in DOMAIN headers : headers[n] \in Numbers
      BY <1>3, <2>2 DEF HeadersFit
    <2>4. \A n \in DOMAIN advanced : advanced[n] \in Numbers \cup {Failed}
      BY <1>3, <2>2 DEF AdvancedFit, LoadInv
    <2>5. DOMAIN headers \subseteq Numbers /\ DOMAIN advanced \subseteq Numbers
      BY <1>3, <2>1 DEF HeadersFit, AdvancedFit
    <2>6. \A k \in 1..Len(serversSave) : serversSave[k] \in Servers
      BY <1>3 DEF BroadcastInv
    <2>7. FetchTypeOK
      BY <1>3, <2>3, <2>4, <2>5, <2>6 DEF FetchTypeOK, BroadcastTypes, FetchRest
    <2>8. HeadersInv /\ CachesFresh
      BY <1>3, <2>5 DEF HeadersFit, AdvancedFit, HeadersInv, CachesFresh
    <2>9. QED
      BY <1>3, <2>7, <2>8 DEF FetchInv, AdvancedFit
  <1>4. QED
    BY <1>2, <1>3

(* The same of the next state. *)
LEMMA FetchPartsNext ==
    ASSUME BroadcastTypes', FetchRest', BroadcastInv', HeadersFit', AdvancedFit',
           (pc = "dump" => header \in 1..cur)'
    PROVE  FetchInv'
  BY FetchParts, PTL

(* What a step needs of the invariant. *)
LEMMA FetchInvIs ==
    ASSUME FetchInv
    PROVE  /\ FetchTypeOK /\ BroadcastInv /\ HeadersInv /\ LoadInv /\ CachesFresh
           /\ BroadcastTypes /\ FetchRest /\ HeadersFit /\ AdvancedFit
           /\ pc = "dump" => header \in 1..cur
           /\ MaxBlock \in Nat /\ MaxAdvanced \in Nat /\ CountAdvanced \in Nat /\ MaxFaults \in Nat
           /\ CountAdvanced >= 1
  <1>1. FetchTypeOK /\ BroadcastInv /\ HeadersInv /\ LoadInv /\ CachesFresh
    BY DEF FetchInv
  <1>2. QED
    BY <1>1, FetchParts, FetchFacts

(* A cleared map. *)
LEMMA EmptyIs == DOMAIN Empty = {} /\ Cardinality({}) = 0
  BY FS_EmptySet DEF Empty

(* The steps of the broadcast keep the rest. *)
LEMMA BroadcastSteps ==
    ASSUME FetchInv,
           \/ DoProcess \/ BroadcastEnds \/ NobodyAnswers
           \/ \E s \in Servers : ServerSilent(s) \/ \E n \in 0..MaxBlock : ServerSays(s, n)
    PROVE  FetchInv'
  <1>0. /\ FetchTypeOK /\ BroadcastInv /\ LoadInv
        /\ BroadcastTypes /\ FetchRest /\ HeadersFit /\ AdvancedFit
        /\ MaxBlock \in Nat /\ MaxAdvanced \in Nat /\ CountAdvanced \in Nat
    BY FetchInvIs
  <1>1. BroadcastInv'
    BY <1>0, BroadcastStep DEF Next, Step
  <1>2. CASE DoProcess
    <2>1. BroadcastTypes' /\ FetchRest' /\ pc' # "dump"
      BY <1>0, <1>2 DEF DoProcess, BroadcastTypes, FetchRest, caches
    <2>2. HeadersFit'
      BY <1>0, <1>2 DEF DoProcess, HeadersFit, caches
    <2>3. AdvancedFit'
      BY <1>0, <1>2 DEF DoProcess, AdvancedFit, LoadInv, caches
    <2>4. QED
      BY <1>1, <2>1, <2>2, <2>3, FetchPartsNext
  <1>3. CASE BroadcastEnds
    <2>1. /\ pc = "broadcast" /\ lastBlock # None /\ known' = lastBlock
          /\ headers' = Empty /\ dumps' = {} /\ advanced' = Empty /\ pc' \in {"process", "poll"}
          /\ UNCHANGED <<isVerifySign, asked, said, lastBlock, serversSave, count, nextNum, cur, header, faults>>
      BY <1>3 DEF BroadcastEnds, broadcastVars
    <2>2. BroadcastTypes' /\ FetchRest' /\ pc' # "dump"
      BY <1>0, <2>1 DEF BroadcastTypes, FetchRest
    <2>3. HeadersFit'
      BY <1>0, <2>1, EmptyIs DEF HeadersFit
    <2>4. AdvancedFit'
      BY <1>0, <2>1, EmptyIs DEF AdvancedFit, LoadInv
    <2>5. QED
      BY <1>1, <2>2, <2>3, <2>4, FetchPartsNext
  <1>4. CASE \/ NobodyAnswers
             \/ \E s \in Servers : ServerSilent(s) \/ \E n \in 0..MaxBlock : ServerSays(s, n)
    <2>1. /\ UNCHANGED <<isVerifySign, headers, dumps, advanced, count, known, nextNum, cur, header, faults>>
          /\ pc = "broadcast" /\ pc' \in {"broadcast", "poll"}
      BY <1>4 DEF NobodyAnswers, ServerSilent, ServerSays, caches
    <2>2. FetchRest' /\ pc' # "dump"
      BY <1>0, <2>1 DEF FetchRest
    <2>3. HeadersFit'
      BY <1>0, <2>1 DEF HeadersFit
    <2>4. AdvancedFit'
      BY <1>0, <2>1 DEF AdvancedFit, LoadInv
    <2>5. BroadcastTypes'
      <3>1. CASE NobodyAnswers
        BY <1>0, <3>1 DEF NobodyAnswers, BroadcastTypes, broadcastVars
      <3>2. ASSUME NEW s \in Servers, ServerSilent(s)
            PROVE  BroadcastTypes'
        BY <1>0, <3>2 DEF ServerSilent, BroadcastTypes
      <3>3. ASSUME NEW s \in Servers, NEW n \in 0..MaxBlock, ServerSays(s, n)
            PROVE  BroadcastTypes'
        <4>1. lastBlock' \in 0..MaxBlock
          BY <1>0, <3>3, SaysListed
        <4>2. QED
          BY <1>0, <3>3, <4>1 DEF ServerSays, BroadcastTypes
      <3>4. QED
        BY <1>4, <3>1, <3>2, <3>3
    <2>6. QED
      BY <1>1, <2>2, <2>3, <2>4, <2>5, FetchPartsNext
  <1>5. QED
    BY <1>2, <1>3, <1>4

(* The steps of process that load nothing. *)
LEMMA ProcessSteps ==
    ASSUME FetchInv, Deliver \/ Rethrow \/ EndOfKnown \/ StartLoad
    PROVE  FetchInv'
  <1>0. /\ FetchTypeOK /\ BroadcastInv /\ LoadInv
        /\ BroadcastTypes /\ FetchRest /\ HeadersFit /\ AdvancedFit
        /\ MaxBlock \in Nat /\ MaxAdvanced \in Nat /\ CountAdvanced \in Nat /\ CountAdvanced >= 1
    BY FetchInvIs
  <1>1. BroadcastInv'
    BY <1>0, BroadcastStep DEF Next, Step
  <1>2. /\ pc = "process" /\ pc' \in {"poll", "process", "header"}
        /\ UNCHANGED <<isVerifySign, asked, said, lastBlock, serversSave, headers, dumps, known, header, faults>>
    BY DEF Deliver, Rethrow, EndOfKnown, StartLoad, broadcastVars, caches
  <1>3. BroadcastTypes' /\ HeadersFit' /\ pc' # "dump"
    BY <1>0, <1>2 DEF BroadcastTypes, HeadersFit
  <1>4. nextNum = count + 1 /\ count \in 0..MaxBlock /\ known \in 0..MaxBlock
    BY <1>0, <1>2 DEF LoadInv, FetchRest
  <1>5. CASE Deliver
    <2>1. /\ nextNum <= known /\ nextNum' = nextNum + 1 /\ UNCHANGED <<advanced, cur>>
          /\ \/ count' = count + 1 /\ pc' = pc
             \/ count' = count /\ pc' = "poll"
      BY <1>5 DEF Deliver, caches
    <2>2. FetchRest'
      BY <1>0, <1>2, <1>4, <2>1 DEF FetchRest
    <2>3. AdvancedFit'
      BY <1>0, <1>2, <1>4, <2>1 DEF AdvancedFit, LoadInv
    <2>4. QED
      BY <1>1, <1>3, <2>2, <2>3, FetchPartsNext
  <1>6. CASE Rethrow \/ EndOfKnown
    <2>1. pc' = "poll" /\ UNCHANGED <<advanced, cur, count, nextNum>>
      BY <1>6 DEF Rethrow, EndOfKnown, caches
    <2>2. FetchRest'
      BY <1>0, <1>2, <2>1 DEF FetchRest
    <2>3. AdvancedFit'
      BY <1>0, <1>2, <2>1 DEF AdvancedFit, LoadInv
    <2>4. QED
      BY <1>1, <1>3, <2>2, <2>3, FetchPartsNext
  <1>7. CASE StartLoad
    <2>1. /\ nextNum <= known /\ advanced' = Empty /\ cur' = nextNum /\ pc' = "header"
          /\ UNCHANGED <<count, nextNum>>
      BY <1>7 DEF StartLoad
    <2>2. FetchRest'
      BY <1>0, <1>2, <2>1 DEF FetchRest
    <2>3. CountToLoad' \in 1..CountAdvanced
      BY <1>0, <1>2, <1>4, <2>1 DEF CountToLoad, Least
    <2>4. nextNum..(nextNum - 1) = {}
      BY <1>4
    <2>5. AdvancedFit'
      <3>1. DOMAIN advanced' = {} /\ {} \subseteq 1..known' /\ Cardinality(DOMAIN advanced') <= CountAdvanced
        BY <1>0, <2>1, EmptyIs
      <3>2. /\ nextNum' \in 1..known' /\ nextNum' = count' + 1
            /\ cur' \in nextNum'..(nextNum' + CountToLoad' - 1)
        <4>1. PICK c \in 1..CountAdvanced : c = CountToLoad'
          BY <2>3
        <4>2. nextNum \in 1..known /\ nextNum \in nextNum..(nextNum + c - 1)
          BY <1>0, <1>4, <2>1
        <4>3. QED
          BY <1>2, <1>4, <2>1, <4>1, <4>2
      <3>3. LoadInv'
        BY <2>1, <2>4, <3>1, <3>2 DEF LoadInv
      <3>4. QED
        BY <3>1, <3>3 DEF AdvancedFit
    <2>6. QED
      BY <1>1, <1>3, <2>2, <2>5, FetchPartsNext
  <1>8. QED
    BY <1>5, <1>6, <1>7

(* The steps that find or load a header. *)
LEMMA HeaderSteps ==
    ASSUME FetchInv, HeaderKnown \/ HeadersLoaded \/ HeaderFails
    PROVE  FetchInv'
  <1>0. /\ FetchTypeOK /\ BroadcastInv /\ HeadersInv /\ LoadInv /\ CachesFresh
        /\ BroadcastTypes /\ FetchRest /\ HeadersFit /\ AdvancedFit
        /\ MaxBlock \in Nat /\ MaxFaults \in Nat
    BY FetchInvIs
  <1>1. BroadcastInv'
    BY <1>0, BroadcastStep DEF Next, Step
  <1>2. pc = "header"
    BY DEF HeaderKnown, HeadersLoaded, HeaderFails
  <1>3. /\ cur \in 1..known /\ known \in 0..MaxBlock
        /\ 1..cur \subseteq Numbers /\ 0 \in 0..cur
    BY <1>0, <1>2, LoadFacts DEF Numbers
  <1>4. ASSUME NEW k \in 0..CountHeaders, headers' = HeadersUpTo(k), known' = known
        PROVE  HeadersFit'
    <2>1. /\ DOMAIN headers' \subseteq 1..known /\ Cardinality(DOMAIN headers') <= MaxAdvanced
          /\ \A n \in DOMAIN headers' : headers'[n] \in 1..n
          /\ \A n, m \in DOMAIN headers' : \A i \in n..m : i \in DOMAIN headers'
      BY <1>0, <1>2, <1>4, HeadersUpToIs
    <2>2. QED
      BY <1>4, <2>1 DEF HeadersFit
  <1>5. CountHeaders \in Nat /\ CountHeaders >= 1 /\ CountHeaders \in 0..CountHeaders
    <2>1. MaxAdvanced \in Nat /\ MaxAdvanced >= 1
      BY <1>0, FetchFacts
    <2>2. QED
      BY <1>3, <2>1 DEF CountHeaders, Least
  <1>6. CASE HeaderKnown \/ HeadersLoaded
    <2>1. /\ pc' = "dump" /\ header' \in {headers[cur], headers'[cur]}
          /\ UNCHANGED <<asked, said, lastBlock, serversSave, isVerifySign, dumps, advanced, count, known,
                         nextNum, cur, faults>>
      BY <1>6 DEF HeaderKnown, HeadersLoaded, broadcastVars, caches
    <2>2. HeadersFit' /\ header' \in 1..cur
      <3>1. CASE HeaderKnown
        <4>1. cur \in DOMAIN headers /\ header' = headers[cur] /\ UNCHANGED headers
          BY <3>1 DEF HeaderKnown, caches
        <4>2. QED
          BY <1>0, <2>1, <4>1 DEF HeadersFit
      <3>2. CASE HeadersLoaded
        <4>1. headers' = HeadersUpTo(CountHeaders) /\ header' = headers'[cur]
          BY <3>2 DEF HeadersLoaded
        <4>2. HeadersFit'
          BY <1>4, <1>5, <2>1, <4>1
        <4>3. cur \in DOMAIN headers'
          <5>1. DOMAIN headers' = cur..(cur + CountHeaders - 1)
            BY <4>1 DEF HeadersUpTo
          <5>2. QED
            BY <1>3, <1>5, <5>1
        <4>4. QED
          BY <4>1, <4>2, <4>3 DEF HeadersFit
      <3>3. QED
        BY <1>6, <3>1, <3>2
    <2>3. BroadcastTypes' /\ FetchRest'
      BY <1>0, <1>3, <2>1, <2>2 DEF BroadcastTypes, FetchRest
    <2>4. AdvancedFit'
      BY <1>0, <1>2, <2>1 DEF AdvancedFit, LoadInv, CountToLoad
    <2>5. (pc = "dump" => header \in 1..cur)'
      BY <2>1, <2>2
    <2>6. QED
      BY <1>1, <2>2, <2>3, <2>4, <2>5, FetchPartsNext
  <1>7. CASE HeaderFails
    <2>1. /\ Loaded(Failed) /\ dumps' = dumps /\ faults < MaxFaults /\ faults' = faults + 1
          /\ \E k \in CutAfterParts(CountHeaders) : headers' = HeadersUpTo(k)
      BY <1>7 DEF HeaderFails, Fault
    <2>2. /\ LoadInv' /\ DOMAIN advanced' \subseteq 1..known' /\ Cardinality(DOMAIN advanced') <= CountAdvanced
          /\ cur' \in 0..(MaxBlock + 1) /\ header' = 0 /\ pc' \in {"header", "process"}
          /\ UNCHANGED <<isVerifySign, asked, said, lastBlock, serversSave, count, known, nextNum>>
      BY <1>0, <1>2, <1>3, <2>1, LoadedIs DEF Failed, broadcastVars
    <2>3. HeadersFit'
      <3>1. PICK k \in CutAfterParts(CountHeaders) : headers' = HeadersUpTo(k)
        BY <2>1
      <3>2. k \in 0..CountHeaders
        BY <1>5, <3>1 DEF CutAfterParts
      <3>3. QED
        BY <1>4, <2>2, <3>1, <3>2
    <2>4. BroadcastTypes' /\ FetchRest' /\ pc' # "dump"
      BY <1>0, <2>1, <2>2 DEF BroadcastTypes, FetchRest
    <2>5. AdvancedFit'
      BY <2>2 DEF AdvancedFit
    <2>6. QED
      BY <1>1, <2>3, <2>4, <2>5, FetchPartsNext
  <1>8. QED
    BY <1>6, <1>7

(* The steps that find or load a dump. *)
LEMMA DumpSteps ==
    ASSUME FetchInv, DumpKnown \/ DumpAlone \/ SignedAlone \/ DumpsLoaded \/ DumpFails
    PROVE  FetchInv'
  <1>0. /\ FetchTypeOK /\ BroadcastInv /\ HeadersInv /\ LoadInv /\ CachesFresh
        /\ BroadcastTypes /\ FetchRest /\ HeadersFit /\ AdvancedFit
        /\ pc = "dump" => header \in 1..cur
        /\ MaxBlock \in Nat /\ MaxFaults \in Nat
    BY FetchInvIs
  <1>1. BroadcastInv'
    BY <1>0, BroadcastStep DEF Next, Step
  <1>2. /\ pc = "dump" /\ UNCHANGED headers
        /\ Loaded(header) \/ Loaded(Failed)
        /\ faults' = faults \/ (faults < MaxFaults /\ faults' = faults + 1)
        /\ dumps' = dumps \/ \E k : dumps' = DumpsUpTo(k)
    BY DEF DumpKnown, DumpAlone, SignedAlone, DumpsLoaded, DumpFails, Fault
  <1>3. cur \in 1..known /\ known \in 0..MaxBlock /\ header \in 0..cur /\ Failed \in 0..cur
    BY <1>0, <1>2, LoadFacts DEF Failed
  <1>4. PICK b \in 0..cur : Loaded(b)
    BY <1>2, <1>3
  <1>5. /\ LoadInv' /\ DOMAIN advanced' \subseteq 1..known' /\ Cardinality(DOMAIN advanced') <= CountAdvanced
        /\ cur' \in 0..(MaxBlock + 1) /\ header' = 0 /\ pc' \in {"header", "process"}
        /\ UNCHANGED <<isVerifySign, asked, said, lastBlock, serversSave, count, known, nextNum>>
    BY <1>0, <1>2, <1>4, LoadedIs DEF broadcastVars
  <1>6. dumps' \subseteq Numbers
    BY <1>0, <1>2, DumpsUpToIs DEF FetchRest
  <1>7. BroadcastTypes' /\ FetchRest' /\ pc' # "dump"
    BY <1>0, <1>2, <1>5, <1>6 DEF BroadcastTypes, FetchRest
  <1>8. HeadersFit'
    BY <1>0, <1>2, <1>5 DEF HeadersFit
  <1>9. AdvancedFit'
    BY <1>5 DEF AdvancedFit
  <1>10. QED
    BY <1>1, <1>7, <1>8, <1>9, FetchPartsNext

-----------------------------------------------------------------------------
(* The theorems *)

(* A step of the other source changes nothing here. *)
LEMMA FetchSleeps == ASSUME FetchInv, UNCHANGED vars PROVE FetchInv'
  <1>0. /\ FetchTypeOK /\ BroadcastInv /\ HeadersInv /\ LoadInv /\ CachesFresh
        /\ BroadcastTypes /\ FetchRest /\ HeadersFit /\ AdvancedFit
        /\ pc = "dump" => header \in 1..cur
    BY FetchInvIs
  <1>1. BroadcastInv'
    BY <1>0, BroadcastStep
  <1>2. BroadcastTypes' /\ FetchRest'
    BY <1>0 DEF vars, broadcastVars, BroadcastTypes, FetchRest
  <1>3. HeadersFit'
    BY <1>0 DEF vars, HeadersFit
  <1>4. AdvancedFit'
    BY <1>0 DEF vars, AdvancedFit, LoadInv, CountToLoad
  <1>5. (pc = "dump" => header \in 1..cur)'
    BY <1>0 DEF vars
  <1>6. QED
    BY <1>1, <1>2, <1>3, <1>4, <1>5, FetchPartsNext

(* FetchInv is inductive. *)
LEMMA FetchStep == FetchInv /\ [Next]_vars => FetchInv'
  <1> SUFFICES ASSUME FetchInv, [Next]_vars PROVE FetchInv'
    OBVIOUS
  <1>1. CASE UNCHANGED vars
    BY <1>1, FetchSleeps
  <1>2. CASE \/ DoProcess \/ BroadcastEnds \/ NobodyAnswers
             \/ \E s \in Servers : ServerSilent(s) \/ \E n \in 0..MaxBlock : ServerSays(s, n)
    BY <1>2, BroadcastSteps
  <1>3. CASE Deliver \/ Rethrow \/ EndOfKnown \/ StartLoad
    BY <1>3, ProcessSteps
  <1>4. CASE HeaderKnown \/ HeadersLoaded \/ HeaderFails
    BY <1>4, HeaderSteps
  <1>5. CASE DumpKnown \/ DumpAlone \/ SignedAlone \/ DumpsLoaded \/ DumpFails
    BY <1>5, DumpSteps
  <1>6. QED
    BY <1>1, <1>2, <1>3, <1>4, <1>5 DEF Next, Step

(* Nothing is loaded at first. *)
LEMMA FetchStart == Init => FetchInv
  <1> SUFFICES ASSUME Init PROVE FetchInv
    OBVIOUS
  <1>1. MaxBlock \in Nat /\ MaxAdvanced \in Nat /\ CountAdvanced \in Nat /\ MaxFaults \in Nat
    BY FetchAssumption
  <1>2. BroadcastTypes /\ FetchRest /\ pc = "poll"
    BY <1>1 DEF Init, BroadcastTypes, FetchRest
  <1>3. BroadcastInv
    BY DEF Init, BroadcastInv, Loading
  <1>4. HeadersFit
    BY <1>1, EmptyIs DEF Init, HeadersFit
  <1>5. AdvancedFit
    BY <1>1, EmptyIs DEF Init, AdvancedFit, LoadInv
  <1>6. QED
    BY <1>2, <1>3, <1>4, <1>5, FetchParts

(* What the invariant says of the network source. *)
LEMMA FetchInvGives == FetchInv => FetchTypeOK /\ AskedServersHaveAll /\ CachesFresh /\ NeverAhead
  <1> SUFFICES ASSUME FetchInv PROVE FetchTypeOK /\ AskedServersHaveAll /\ CachesFresh /\ NeverAhead
    OBVIOUS
  <1>1. FetchTypeOK /\ BroadcastInv /\ LoadInv /\ CachesFresh
    BY FetchInvIs
  <1>2. AskedServersHaveAll
    BY <1>1 DEF BroadcastInv, AskedServersHaveAll, Listed, Loading
  <1>3. NeverAhead
    <2>1. count \in Nat
      BY <1>1, FetchFacts
    <2>2. QED
      BY <1>1, <2>1 DEF LoadInv, NeverAhead
  <1>4. QED
    BY <1>1, <1>2, <1>3

(* The invariants of both sources. *)
SourceInv == FetchInv /\ FileInv /\ getBlocksFromFile \in BOOLEAN

(* One source steps while the other sleeps, and both keep their invariants. *)
LEMMA SourceRight == SourceSpec => []SourceInv
  <1>1. SourceInit => SourceInv
    BY FetchStart, FileStart DEF SourceInit, SourceInv
  <1>2. SourceInv /\ [SourceNext]_sourceVars => SourceInv'
    <2> SUFFICES ASSUME SourceInv, [SourceNext]_sourceVars PROVE SourceInv'
      OBVIOUS
    <2>1. [Next]_vars
      BY DEF SourceNext, sourceVars, NetworkSteps, NetworkFaults, FileSteps, FileFaults, Sleeps, Next
    <2>2. [FileNext]_fileVars
      BY DEF SourceNext, sourceVars, NetworkSteps, NetworkFaults, FileSteps, FileFaults, Sleeps, FileNext
    <2>3. getBlocksFromFile' = getBlocksFromFile
      BY DEF SourceNext, sourceVars, NetworkSteps, NetworkFaults, FileSteps, FileFaults, Sleeps
    <2>4. QED
      BY <2>1, <2>2, <2>3, FetchStep, FileStep DEF SourceInv
  <1>3. QED
    BY <1>1, <1>2, PTL DEF SourceSpec

(* Every variable of either source keeps its type. *)
THEOREM SourceTypes == SourceSpec => []SourceTypeOK
  <1>1. SourceInv => SourceTypeOK
    BY FetchInvGives, FileInvGives DEF SourceInv, SourceTypeOK
  <1>2. QED
    BY <1>1, SourceRight, PTL

(* Whatever the order of the answers of getLastBlock, the blocks of the     *)
(* round are asked of exactly the servers that have the last of them.       *)
THEOREM ServersHaveAll == SourceSpec => []AskedServersHaveAll
  <1>1. SourceInv => AskedServersHaveAll
    BY FetchInvGives DEF SourceInv
  <1>2. QED
    BY <1>1, SourceRight, PTL

(* Nothing prefetched lies beyond what the servers said last, and the maps  *)
(* of the headers and of the blocks keep to their limits, whatever requests *)
(* and parts of requests fail.                                              *)
THEOREM CachesRight == SourceSpec => []CachesFresh
  <1>1. SourceInv => CachesFresh
    BY FetchInvGives DEF SourceInv
  <1>2. QED
    BY <1>1, SourceRight, PTL

(* Neither source hands a block to the chain before its parent: although a  *)
(* part of one element asks for the wrong place, that place is never behind *)
(* the one that is meant.                                                   *)
THEOREM ParentsRight == SourceSpec => []ParentsFirst
  <1>1. SourceInv => ParentsFirst
    BY FetchInvGives, FileInvGives DEF SourceInv, ParentsFirst
  <1>2. QED
    BY <1>1, SourceRight, PTL

(* While another node writes the files, over the deaths of both nodes, and  *)
(* until the reading one goes astray, no position in them passes a block    *)
(* that is missing beside it, but in the data base those whose own batch    *)
(* has failed.                                                              *)
THEOREM NothingLost == SourceSpec => []NothingSkipped
  <1>1. SourceInv => NothingSkipped
    BY FileInvGives DEF SourceInv
  <1>2. QED
    BY <1>1, SourceRight, PTL
=============================================================================
