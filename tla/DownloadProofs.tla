--------------------------- MODULE DownloadProofs ---------------------------
(***************************************************************************)
(* Proofs about Segments and Download, for any servers, connections, size  *)
(* of the queue and of the request: how makeSegments cuts the answer; where*)
(* the segments are while the threads take them, fail and give them back,  *)
(* which connection a thread uses, what is stored for each segment, and    *)
(* what the joined answers are.                                            *)
(***************************************************************************)
EXTENDS Download, TLAPS, FiniteSetTheorems, SequenceTheorems

-----------------------------------------------------------------------------
(* The segments *)

(* What integer division gives. *)
LEMMA DivFacts ==
    ASSUME NEW a \in Nat, NEW b \in Nat \ {0}
    PROVE  /\ a \div b \in Nat
           /\ b * (a \div b) <= a
           /\ a < b * (a \div b) + b
  BY SMT

(* The product of natural numbers grows with its factors. *)
LEMMA MulMono ==
    ASSUME NEW a \in Nat, NEW b \in Nat, NEW c \in Nat, NEW d \in Nat, a <= c, b <= d
    PROVE  a * b <= c * d
<1>1. a * b <= c * b
  BY SMT
<1>2. c * b <= c * d
  BY SMT
<1>3. QED
  BY <1>1, <1>2, SMT

Args == size \in Nat \ {0} /\ minSize \in Nat \ {0} /\ servers \in Nat \ {0}

(* There is a segment, the step is not zero (the assertion of makeSegments), *)
(* and all segments but the last together are shorter than the whole.        *)
LEMMA StepFits ==
    ASSUME Args
    PROVE  /\ CountSegments \in Nat \ {0}
           /\ Step \in Nat \ {0}
           /\ Step <= size
           /\ (CountSegments - 1) * Step < size
           /\ minSize = 1 => Step = 1 /\ CountSegments = size
<1> DEFINE c == (size + minSize - 1) \div minSize
           q == size \div CountSegments
<1>0. size \in Nat \ {0} /\ minSize \in Nat \ {0} /\ servers \in Nat \ {0}
  BY DEF Args
<1>1. c \in Nat /\ minSize * c <= size + minSize - 1 /\ size + minSize - 1 < minSize * c + minSize
  BY <1>0, DivFacts, size + minSize - 1 \in Nat
<1>2. c # 0
  <2>1. SUFFICES ASSUME c = 0 PROVE FALSE
    OBVIOUS
  <2>2. minSize * c = 0
    BY <2>1, <1>0, SMT
  <2>3. QED
    BY <2>2, <1>0, <1>1, SMT
<1>3. CountSegments \in Nat \ {0}
  BY <1>0, <1>1, <1>2 DEF CountSegments, Least
<1>4. q \in Nat /\ CountSegments * q <= size
  BY <1>0, <1>3, DivFacts
<1>5. Step = Least(size, Greatest(q, minSize))
  BY DEF Step
<1> HIDE DEF c, q
<1>6. Step \in Nat \ {0} /\ Step <= size /\ Step <= Greatest(q, minSize)
  BY <1>0, <1>4, <1>5 DEF Least, Greatest
<1>7. CASE q > minSize
  <2>1. Step <= q
    BY <1>6, <1>7 DEF Greatest
  <2>2. CountSegments * Step <= CountSegments * q
    BY <2>1, <1>3, <1>4, <1>6, MulMono
  <2>3. (CountSegments - 1) * Step = CountSegments * Step - Step
    BY <1>3, <1>6, SMT
  <2>4. (CountSegments - 1) * Step < size
    BY <2>2, <2>3, <1>0, <1>3, <1>4, <1>6, SMT
  <2>5. minSize # 1
    <3>1. SUFFICES ASSUME minSize = 1 PROVE FALSE
      OBVIOUS
    <3>2. CountSegments = size
      BY <3>1 DEF CountSegments
    <3>3. size * 2 <= size * q
      BY <3>1, <1>0, <1>4, <1>7, MulMono
    <3>4. QED
      BY <3>2, <3>3, <1>0, <1>4, SMT
  <2>6. QED
    BY <1>3, <1>6, <2>4, <2>5
<1>8. CASE ~(q > minSize)
  <2>1. Step <= minSize
    BY <1>6, <1>8 DEF Greatest
  <2>2. CASE minSize = 1
    <3>1. CountSegments = size /\ Step = 1
      BY <2>1, <2>2, <1>6 DEF CountSegments
    <3>2. QED
      BY <3>1, <1>0, <1>3, <1>6, SMT
  <2>3. CASE minSize # 1
    <3>1. CountSegments <= c
      BY <2>3, <1>0, <1>1 DEF CountSegments, Least, c
    <3>2. (CountSegments - 1) * Step <= (c - 1) * minSize
      BY <3>1, <2>1, <1>0, <1>1, <1>2, <1>3, <1>6, MulMono
    <3>3. (c - 1) * minSize = minSize * c - minSize
      BY <1>0, <1>1, SMT
    <3>4. (CountSegments - 1) * Step \in Int
      BY <1>3, <1>6, SMT
    <3>5. minSize * c \in Int
      BY <1>0, <1>1, SMT
    <3>6. (CountSegments - 1) * Step < size
      BY <3>2, <3>3, <3>4, <3>5, <1>0, <1>1, SMT
    <3>7. QED
      BY <3>6, <2>3, <1>3, <1>6
  <2>4. QED
    BY <2>2, <2>3
<1>9. QED
  BY <1>7, <1>8

(* The invariant: prevByte is i steps, or everything after the last segment, *)
(* the segments so far tile the bytes up to prevByte, and none is empty.     *)
AllGood ==
    \A k \in 1..Len(answer) :
        /\ answer[k].fromByte < answer[k].toByte
        /\ minSize = 1 => answer[k].toByte = answer[k].fromByte + 1

Adjoining ==
    \A k \in 1..Len(answer) :
        /\ answer[k].posInArray = k - 1
        /\ answer[k].fromByte = IF k = 1 THEN 0 ELSE answer[k - 1].toByte

SegInv ==
    /\ SegmentsTypeOK
    /\ Len(answer) = i
    /\ i < CountSegments => prevByte = i * Step
    /\ i = CountSegments => prevByte = size
    /\ i > 0 => answer[i].toByte = prevByte
    /\ i = 0 => prevByte = 0
    /\ Adjoining
    /\ AllGood

(* The arguments have the values that StepFits is about. *)
LEMMA TypedArgs == SegmentsTypeOK => Args
  BY SegmentsAssumption DEF SegmentsTypeOK, Args

(* A segment that begins at prevByte and ends behind it keeps the invariant. *)
LEMMA OneMore ==
    ASSUME SegInv, NEW to \in 0..size, i < CountSegments,
           answer' = Append(answer, Segment(prevByte, to, i)),
           prevByte' = to, i' = i + 1, UNCHANGED <<size, minSize, servers>>,
           i + 1 < CountSegments => to = (i + 1) * Step,
           i + 1 = CountSegments => to = size,
           prevByte < to,
           minSize = 1 => to = prevByte + 1
    PROVE  SegInv'
<1> DEFINE R == [fromByte : 0..size, toByte : 0..size, posInArray : 0..size]
           s == Segment(prevByte, to, i)
<1>1. Args
  BY TypedArgs DEF SegInv
<1>2. /\ CountSegments \in Nat /\ CountSegments' = CountSegments /\ Step' = Step
      /\ CountSegments <= size
  <2>1. CountSegments' = CountSegments /\ Step' = Step
    BY DEF CountSegments, Step, Least, Greatest
  <2>2. CountSegments \in Nat \ {0} /\ Step \in Nat \ {0} /\ (CountSegments - 1) * Step < size
    BY <1>1, StepFits
  <2>3. (CountSegments - 1) * 1 <= (CountSegments - 1) * Step
    BY <2>2, MulMono
  <2>4. (CountSegments - 1) * Step \in Int /\ size \in Int
    BY <2>2, <1>1 DEF Args
  <2>5. QED
    BY <2>1, <2>2, <2>3, <2>4
<1>3. /\ i \in Nat /\ prevByte \in 0..size /\ answer \in Seq(R) /\ Len(answer) = i
      /\ size \in Nat
  BY <1>2 DEF SegInv, SegmentsTypeOK
<1>4. s \in R /\ s.fromByte = prevByte /\ s.toByte = to /\ s.posInArray = i
  BY <1>2, <1>3 DEF Segment
<1> HIDE DEF s, R
<1>5. /\ answer' \in Seq(R) /\ Len(answer') = i + 1 /\ answer'[i + 1] = s
      /\ \A k \in 1..i : answer'[k] = answer[k]
  BY <1>3, <1>4 DEF s
<1>6. SegmentsTypeOK'
  BY <1>2, <1>3, <1>5 DEF SegInv, SegmentsTypeOK, R
<1>7. Adjoining'
  <2>1. SUFFICES ASSUME NEW k \in 1..(i + 1)
                 PROVE  /\ answer'[k].posInArray = k - 1
                        /\ answer'[k].fromByte = IF k = 1 THEN 0 ELSE answer'[k - 1].toByte
    BY <1>5 DEF Adjoining
  <2>2. CASE k \in 1..i
    BY <2>2, <1>3, <1>5 DEF SegInv, Adjoining
  <2>3. CASE k = i + 1
    <3>1. CASE i = 0
      BY <3>1, <2>3, <1>4, <1>5 DEF SegInv
    <3>2. CASE i > 0
      <4>1. answer'[i] = answer[i] /\ answer[i].toByte = prevByte
        BY <3>2, <1>3, <1>5 DEF SegInv
      <4>2. k # 1 /\ k - 1 = i
        BY <2>3, <3>2, <1>3
      <4>3. QED
        BY <4>1, <4>2, <2>3, <1>4, <1>5
    <3>3. QED
      BY <3>1, <3>2, <1>3
  <2>4. QED
    BY <2>2, <2>3, <1>3
<1>8. AllGood'
  <2>1. SUFFICES ASSUME NEW k \in 1..(i + 1)
                 PROVE  /\ answer'[k].fromByte < answer'[k].toByte
                        /\ minSize = 1 => answer'[k].toByte = answer'[k].fromByte + 1
    BY <1>5 DEF AllGood
  <2>2. CASE k \in 1..i
    BY <2>2, <1>3, <1>5 DEF SegInv, AllGood
  <2>3. CASE k = i + 1
    BY <2>3, <1>4, <1>5
  <2>4. QED
    BY <2>2, <2>3, <1>3
<1>9. /\ i' > 0 /\ answer'[i'].toByte = prevByte' /\ Len(answer') = i'
      /\ i' < CountSegments' => prevByte' = i' * Step'
      /\ i' = CountSegments' => prevByte' = size'
  BY <1>2, <1>3, <1>4, <1>5
<1>10. QED
  BY <1>6, <1>7, <1>8, <1>9 DEF SegInv

(* SegInv holds before the loop. *)
LEMMA SegStart == Init => SegInv
<1>1. SUFFICES ASSUME Init PROVE SegInv
  OBVIOUS
<1>2. Args
  BY <1>1, SegmentsAssumption DEF Init, Args
<1>3. CountSegments \in Nat \ {0} /\ Step \in Nat
  BY <1>2, StepFits
<1>4. size \in Nat \ {0} /\ 0 * Step = 0
  BY <1>2, <1>3 DEF Args
<1>5. QED
  BY <1>1, <1>3, <1>4 DEF Init, SegInv, SegmentsTypeOK, Adjoining, AllGood

(* Every turn of the loop keeps SegInv. *)
LEMMA SegStep == SegInv /\ [Next]_vars => SegInv'
<1>1. SUFFICES ASSUME SegInv, [Next]_vars PROVE SegInv'
  OBVIOUS
<1>2. /\ CountSegments \in Nat \ {0} /\ Step \in Nat \ {0}
      /\ (CountSegments - 1) * Step < size
      /\ minSize = 1 => Step = 1 /\ CountSegments = size
  BY <1>1, TypedArgs, StepFits DEF SegInv
<1>3. size \in Nat /\ i \in Nat /\ prevByte \in 0..size
  BY <1>1, <1>2 DEF SegInv, SegmentsTypeOK
<1>4. CASE Cut
  <2>1. i < CountSegments - 1 /\ prevByte = i * Step
    BY <1>1, <1>2, <1>3, <1>4 DEF Cut, SegInv
  <2>2. (i + 1) * Step = prevByte + Step
    BY <2>1, <1>2, <1>3, SMT
  <2>3. (i + 1) * Step <= (CountSegments - 1) * Step
    BY <2>1, <1>2, <1>3, MulMono
  <2>4. NextByte = prevByte + Step
    <3>1. prevByte + Step < size
      BY <2>2, <2>3, <1>2, <1>3, SMT
    <3>2. QED
      BY <3>1 DEF NextByte, Least
  <2>5. NextByte \in 0..size
    BY <2>2, <2>3, <2>4, <1>2, <1>3, SMT
  <2>6. QED
    BY <2>1, <2>2, <2>4, <2>5, <1>1, <1>2, <1>3, <1>4, OneMore DEF Cut
<1>5. CASE Last
  <2>1. i = CountSegments - 1 /\ prevByte = i * Step
    BY <1>1, <1>2, <1>3, <1>5 DEF Last, SegInv
  <2>2. prevByte < size
    BY <2>1, <1>2
  <2>3. minSize = 1 => size = prevByte + 1
    BY <2>1, <1>2, <1>3, SMT
  <2>4. QED
    BY <2>1, <2>2, <2>3, <1>1, <1>2, <1>3, <1>5, OneMore DEF Last
<1>6. CASE UNCHANGED vars
  BY <1>1, <1>6 DEF SegInv, SegmentsTypeOK, Adjoining, AllGood, CountSegments, Step,
                    Least, Greatest, vars
<1>7. QED
  BY <1>1, <1>4, <1>5, <1>6 DEF Next

(* SegInv is an invariant of the loop. *)
THEOREM SegInductive == Spec => []SegInv
  BY SegStart, SegStep, PTL DEF Spec

(* makeSegments tiles the answer: joining the segments in the order of the   *)
(* array gives all bytes, for every size and number of connections.          *)
THEOREM SegmentsTile == Spec => []Tiled
<1>1. SegInv => Tiled
  <2>1. SUFFICES ASSUME SegInv PROVE Tiled
    OBVIOUS
  <2>2. CountSegments \in Nat \ {0}
    BY <2>1, TypedArgs, StepFits DEF SegInv
  <2>3. QED
    BY <2>1, <2>2 DEF SegInv, Tiled, Adjoining
<1>2. QED
  BY <1>1, SegInductive, PTL

(* No segment is empty, for every size, least size and number of connections. *)
THEOREM SegmentsNonempty == Spec => []NoEmptySegment
<1>1. SegInv => NoEmptySegment
  BY DEF SegInv, AllGood, NoEmptySegment, Nonempty
<1>2. QED
  BY <1>1, SegInductive, PTL

(* A list of questions is cut into single questions, so that the assertion   *)
(* of P2P_Ips::requests never fails.                                         *)
THEOREM QuestionsSingle == Spec => []SingleQuestions
<1>1. SegInv => SingleQuestions
  BY DEF SegInv, AllGood, SingleQuestions
<1>2. QED
  BY <1>1, SegInductive, PTL

-----------------------------------------------------------------------------
(* The download *)

(* Where a thread has a segment in hand. *)
Busy == {"ask", "request", "count", "failed"}

(* The types, closer than P2PTypeOK: only what was pushed goes round. *)
PoolTypeOK ==
    /\ mpc \in {"idle", "push", "wait", "join"}
    /\ reliable \subseteq Servers
    /\ count \in Nat /\ pushed \in 0..count
    /\ mpc = "push" => pushed < count
    /\ queue \in Seq(1..pushed) /\ Len(queue) <= QueueSize
    /\ stopped \in BOOLEAN /\ result \in BOOLEAN
    /\ tpc \in [Threads -> {"pop", "ask", "request", "count", "failed", "exit", "gone"}]
    /\ segment \in [Threads -> 0..pushed]
    /\ curlIndex \in [Threads -> {None} \cup Nat]
    /\ answers \subseteq 1..pushed
    /\ unknown \in 0..MaxUnknown

(* A segment is in the queue once, or in one hand, or answered. *)
PlaceInv ==
    /\ \A j, k \in 1..Len(queue) : queue[j] = queue[k] => j = k
    /\ \A k \in 1..Len(queue) : queue[k] \notin answers
    /\ \A k \in 1..Len(queue) : \A t \in Threads : segment[t] # queue[k]
    /\ \A t, u \in Threads : segment[t] # 0 /\ segment[t] = segment[u] => t = u
    /\ \A t \in Threads : tpc[t] \in Busy <=> segment[t] # 0
    /\ \A t \in Threads : segment[t] \in answers <=> tpc[t] = "count"

(* The threads of a server have the connections 0, 1, ... in the order in   *)
(* which they first asked.                                                  *)
CurlInv ==
    /\ \A t \in Threads : curlIndex[t] # None => curlIndex[t] < Cardinality(Used(t))
    /\ \A t, u \in Threads : t # u /\ t[1] = u[1] /\ curlIndex[t] # None => curlIndex[t] # curlIndex[u]
    /\ \A t \in Threads : tpc[t] \in {"request", "count", "failed"} => curlIndex[t] # None

(* The segments that a thread has counted, and the threads that have gone. *)
Counted == {s \in answers : \A t \in Threads : segment[t] # s}
Gone    == {t \in Threads : tpc[t] = "gone"}

CountInv ==
    /\ success = Cardinality(Counted)
    /\ mpc = "idle" => Gone = Threads
    /\ exited \in 0..Cardinality(Threads)
    /\ mpc # "idle" => exited = Cardinality(Gone)

(* The bytes of a segment. *)
Bytes(s) == [k \in 1..(s.toByte - s.fromByte) |-> s.fromByte + k]

(* The segments are those of makeSegments; what is stored for an answered   *)
(* segment are its bytes.                                                   *)
StoreInv ==
    /\ CountSegments <= MaxSegments
    /\ count # 0 => count = CountSegments /\ Len(answer) = count
    /\ mpc # "idle" \/ reliable # {} => count # 0
    /\ result => success = count /\ mpc = "idle" /\ count # 0
    /\ responses \in Seq(Seq(1..size)) /\ Len(responses) = count
    /\ \A k \in answers : responses[k] = Bytes(answer[k])

(* No segment is lost and no part of the dump looks like a message: the     *)
(* threads of a server that answers work until the end.                     *)
Plain == unknown = 0 /\ ~\E k \in 1..Len(answer) : LooksLikeJson(answer[k])

SufficesInv ==
    Plain =>
        /\ mpc \in {"push", "wait"} =>
              /\ ~stopped
              /\ \A t \in Threads : t[1] \in reliable => tpc[t] \notin {"failed", "exit", "gone"}
        /\ mpc = "join" /\ reliable # {} => success = count
        /\ mpc = "idle" /\ reliable # {} => result

PoolInv == PoolTypeOK /\ PlaceInv /\ CurlInv /\ CountInv

DownloadInv == SegInv /\ PoolInv /\ StoreInv /\ SufficesInv

-----------------------------------------------------------------------------
(* Joining *)

(* A set of numbers has a least one. *)
LEMMA LeastOf ==
    ASSUME NEW S \in SUBSET Nat, S # {}
    PROVE  \E n \in S : \A m \in S : n <= m
  <1> DEFINE R == {p \in Nat \X Nat : p[1] < p[2]}
  <1>1. IsWellFoundedOn(R, Nat)
    BY NatLessThanWellFounded DEF OpToRel
  <1>2. \A n, m \in Nat : <<m, n>> \in R <=> m < n
    OBVIOUS
  <1> HIDE DEF R
  <1>3. PICK n \in S : \A m \in S : ~(<<m, n>> \in R)
    BY <1>1, WFMin
  <1>4. \A m \in S : n <= m
    <2> TAKE m \in S
    <2>1. n \in Nat /\ m \in Nat
      OBVIOUS
    <2>2. ~(m < n)
      BY <1>2, <1>3, <2>1
    <2>3. QED
      BY <2>1, <2>2
  <1>5. QED
    BY <1>4

(* FlattenSeq is what every function is that satisfies its recursive        *)
(* definition: there is at least the one given, and no two of them differ   *)
(* at a least place.                                                        *)
LEMMA FlattenIs ==
    ASSUME NEW seqs, Len(seqs) \in Nat \ {0}, NEW g,
           g = [k \in 1..Len(seqs) |-> IF k = 1 THEN seqs[k] ELSE g[k - 1] \o seqs[k]]
    PROVE  SX!FlattenSeq(seqs) = g[Len(seqs)]
  <1> DEFINE n == Len(seqs)
             Def(f) == f = [k \in 1..n |-> IF k = 1 THEN seqs[k] ELSE f[k - 1] \o seqs[k]]
             flat == CHOOSE f : Def(f)
  <1>1. Def(g)
    OBVIOUS
  <1>2. SX!FlattenSeq(seqs) = flat[n]
    BY DEF SX!FlattenSeq
  <1> HIDE DEF Def
  <1>3. Def(flat)
    BY <1>1
  <1>4. \A f : Def(f) => \A k \in 1..n : f[k] = IF k = 1 THEN seqs[k] ELSE f[k - 1] \o seqs[k]
    BY DEF Def
  <1> HIDE DEF flat
  <1>5. \A k \in 1..n : flat[k] = g[k]
    <2> DEFINE D == {k \in 1..n : flat[k] # g[k]}
    <2>1. SUFFICES ASSUME D # {} PROVE FALSE
      OBVIOUS
    <2>2. D \in SUBSET Nat
      OBVIOUS
    <2>3. PICK m \in D : \A k \in D : m <= k
      BY <2>1, <2>2, LeastOf
    <2>4. m \in 1..n /\ flat[m] # g[m]
      OBVIOUS
    <2>5. m # 1 => flat[m - 1] = g[m - 1]
      <3>1. SUFFICES ASSUME m # 1 PROVE m - 1 \in 1..n /\ m - 1 \notin D
        OBVIOUS
      <3>2. m \in Nat /\ m - 1 \in 1..n /\ ~(m <= m - 1)
        BY <2>4, <3>1
      <3>3. QED
        BY <2>3, <3>2
    <2>6. flat[m] = g[m]
      <3>1. /\ flat[m] = IF m = 1 THEN seqs[m] ELSE flat[m - 1] \o seqs[m]
            /\ g[m] = IF m = 1 THEN seqs[m] ELSE g[m - 1] \o seqs[m]
        BY <1>1, <1>3, <1>4, <2>4, Zenon
      <3>2. CASE m = 1
        BY <3>1, <3>2, Zenon
      <3>3. CASE m # 1
        BY <2>5, <3>1, <3>3, Zenon
      <3>4. QED
        BY <3>2, <3>3
    <2>7. QED
      BY <2>4, <2>6
  <1>6. n \in 1..n
    OBVIOUS
  <1>7. QED
    BY <1>2, <1>5, <1>6, Zenon

(* The numbers up to a, and then those up to b, are the numbers up to b. *)
LEMMA UpTo ==
    ASSUME NEW a \in Nat, NEW b \in Nat, a <= b
    PROVE  [k \in 1..a |-> k] \o [k \in 1..(b - a) |-> a + k] = [k \in 1..b |-> k]
  <1> DEFINE p == [k \in 1..a |-> k]
             q == [k \in 1..(b - a) |-> a + k]
             r == [k \in 1..b |-> k]
  <1>1. p \in Seq(Nat) /\ q \in Seq(Nat) /\ Len(p) = a /\ Len(q) = b - a
    OBVIOUS
  <1>2. /\ \A k \in 1..a : p[k] = k
        /\ \A k \in 1..(b - a) : q[k] = a + k
    OBVIOUS
  <1> HIDE DEF p, q
  <1>3. /\ p \o q \in Seq(Nat) /\ Len(p \o q) = b
        /\ \A k \in 1..b : (p \o q)[k] = IF k <= a THEN p[k] ELSE q[k - a]
    BY <1>1, ConcatProperties
  <1>4. r \in Seq(Nat) /\ Len(r) = b /\ \A k \in 1..b : r[k] = k
    OBVIOUS
  <1>5. p \o q = r
    <2> HIDE DEF r
    <2>1. \A k \in 1..b : (p \o q)[k] = r[k]
      BY <1>2, <1>3, <1>4
    <2>2. QED
      BY <1>3, <1>4, <2>1, SeqEqual
  <1>6. QED
    BY <1>5 DEF p, q

(* The segments of the answer, for whoever needs them. *)
LEMMA SegmentFacts ==
    ASSUME SegInv
    PROVE  /\ size \in Nat \ {0} /\ CountSegments \in Nat \ {0} /\ Len(answer) \in Nat
           /\ \A k \in 1..Len(answer) :
                /\ answer[k].fromByte \in Nat /\ answer[k].toByte \in Nat
                /\ answer[k].fromByte < answer[k].toByte /\ answer[k].toByte <= size
                /\ answer[k].posInArray = k - 1
                /\ answer[k].fromByte = IF k = 1 THEN 0 ELSE answer[k - 1].toByte
           /\ Len(answer) = CountSegments => answer[Len(answer)].toByte = size
  <1> DEFINE R == [fromByte : 0..size, toByte : 0..size, posInArray : 0..size]
  <1>1. size \in Nat \ {0} /\ CountSegments \in Nat \ {0}
    BY TypedArgs, StepFits DEF SegInv, Args
  <1>2. answer \in Seq(R) /\ Len(answer) = i
    BY DEF SegInv, SegmentsTypeOK
  <1> HIDE DEF R
  <1>3. Len(answer) \in Nat /\ \A k \in 1..Len(answer) : answer[k] \in R
    BY <1>2
  <1>4. ASSUME NEW k \in 1..Len(answer)
        PROVE  /\ answer[k].fromByte \in Nat /\ answer[k].toByte \in Nat
               /\ answer[k].fromByte < answer[k].toByte /\ answer[k].toByte <= size
               /\ answer[k].posInArray = k - 1
               /\ answer[k].fromByte = IF k = 1 THEN 0 ELSE answer[k - 1].toByte
    <2>1. answer[k].fromByte \in 0..size /\ answer[k].toByte \in 0..size
      BY <1>3 DEF R
    <2>2. QED
      BY <1>1, <2>1 DEF SegInv, Adjoining, AllGood
  <1>5. Len(answer) = CountSegments => answer[Len(answer)].toByte = size
    BY <1>1, <1>2 DEF SegInv
  <1>6. QED
    BY <1>1, <1>3, <1>4, <1>5

(* The bytes of all segments, joined in their order, are the dump. *)
LEMMA JoinedRight ==
    ASSUME SegInv, Len(answer) = CountSegments, Len(responses) = Len(answer),
           \A k \in 1..Len(answer) : responses[k] = Bytes(answer[k])
    PROVE  Joined = dump
  <1> DEFINE n == Len(answer)
             to(k) == answer[k].toByte
             g == [k \in 1..n |-> [j \in 1..to(k) |-> j]]
  <1>1. /\ size \in Nat \ {0} /\ n \in Nat \ {0} /\ to(n) = size
        /\ \A k \in 1..n : /\ to(k) \in Nat /\ answer[k].fromByte \in Nat /\ answer[k].fromByte <= to(k)
                           /\ answer[k].fromByte = IF k = 1 THEN 0 ELSE to(k - 1)
    BY SegmentFacts
  <1>2. ASSUME NEW k \in 1..n
        PROVE  g[k] = IF k = 1 THEN responses[k] ELSE g[k - 1] \o responses[k]
    <2>1. /\ to(k) \in Nat /\ answer[k].fromByte \in Nat /\ answer[k].fromByte <= to(k)
          /\ answer[k].fromByte = IF k = 1 THEN 0 ELSE to(k - 1)
      BY <1>1
    <2>2. g[k] = [j \in 1..to(k) |-> j]
      OBVIOUS
    <2>3. responses[k] = [j \in 1..(to(k) - answer[k].fromByte) |-> answer[k].fromByte + j]
      BY DEF Bytes
    <2>4. CASE k = 1
      <3>1. answer[k].fromByte = 0
        BY <2>1, <2>4
      <3>2. to(k) - 0 = to(k) /\ \A j \in 1..to(k) : 0 + j = j
        BY <2>1
      <3>3. QED
        BY <2>2, <2>3, <2>4, <3>1, <3>2
    <2>5. CASE k # 1
      <3>1. k - 1 \in 1..n
        BY <1>1, <2>5
      <3>2. g[k - 1] = [j \in 1..to(k - 1) |-> j]
        BY <3>1
      <3>3. to(k - 1) = answer[k].fromByte /\ to(k - 1) \in Nat /\ to(k - 1) <= to(k)
        BY <2>1, <2>5
      <3> HIDE DEF to, g
      <3>4. [j \in 1..to(k - 1) |-> j] \o [j \in 1..(to(k) - to(k - 1)) |-> to(k - 1) + j]
              = [j \in 1..to(k) |-> j]
        BY <2>1, <3>3, UpTo
      <3>5. responses[k] = [j \in 1..(to(k) - to(k - 1)) |-> to(k - 1) + j]
        BY <2>3, <3>3
      <3>6. g[k] = g[k - 1] \o responses[k]
        BY <2>2, <3>2, <3>4, <3>5
      <3>7. QED
        BY <2>5, <3>6
    <2>6. QED
      BY <2>4, <2>5
  <1>3. DOMAIN g = 1..n /\ g = [k \in 1..n |-> g[k]]
    OBVIOUS
  <1>4. g[n] = [j \in 1..size |-> j]
    BY <1>1
  <1> HIDE DEF g, to
  <1>5. g = [k \in 1..n |-> IF k = 1 THEN responses[k] ELSE g[k - 1] \o responses[k]]
    BY <1>2, <1>3
  <1>6. SX!FlattenSeq(responses) = g[n]
    BY <1>1, <1>5, FlattenIs
  <1>7. QED
    BY <1>4, <1>6 DEF Joined, dump

-----------------------------------------------------------------------------
(* The threads and the queue *)

(* The threads are finitely many, and those of one server are no more than  *)
(* its connections.                                                         *)
LEMMA ThreadFacts ==
    /\ IsFiniteSet(Threads) /\ Threads # {} /\ Cardinality(Threads) \in Nat
    /\ CountConnections \in Nat \ {0} /\ QueueSize \in Nat \ {0} /\ MaxSegments \in Nat \ {0}
    /\ MaxUnknown \in Nat
    /\ \A T \in SUBSET Threads : IsFiniteSet(T) /\ Cardinality(T) \in Nat /\ Cardinality(T) <= Cardinality(Threads)
    /\ \A t \in Threads : \A T \in SUBSET Threads :
            (\A u \in T : u[1] = t[1]) => Cardinality(T) <= CountConnections
  <1>1. /\ CountConnections \in Nat \ {0} /\ QueueSize \in Nat \ {0} /\ MaxSegments \in Nat \ {0}
        /\ MaxUnknown \in Nat /\ IsFiniteSet(Servers) /\ Servers # {}
    BY P2PAssumption
  <1>2. IsFiniteSet(1..CountConnections) /\ Cardinality(1..CountConnections) = CountConnections
    BY <1>1, FS_Interval
  <1>3. IsFiniteSet(Threads) /\ Cardinality(Threads) \in Nat
    BY <1>1, <1>2, FS_Product, FS_CardinalityType DEF Threads
  <1>4. Threads # {}
    <2>1. PICK s \in Servers : TRUE
      BY <1>1
    <2>2. <<s, 1>> \in Threads
      BY <1>1 DEF Threads
    <2>3. QED
      BY <2>2
  <1>5. ASSUME NEW T \in SUBSET Threads
        PROVE  IsFiniteSet(T) /\ Cardinality(T) \in Nat /\ Cardinality(T) <= Cardinality(Threads)
    BY <1>3, FS_Subset, FS_CardinalityType
  <1>6. ASSUME NEW t \in Threads, NEW T \in SUBSET Threads, \A u \in T : u[1] = t[1]
        PROVE  Cardinality(T) <= CountConnections
    <2> DEFINE own == {t[1]} \X (1..CountConnections)
    <2>1. IsFiniteSet({t[1]}) /\ Cardinality({t[1]}) = 1
      BY FS_Singleton
    <2>2. IsFiniteSet(own) /\ Cardinality(own) = 1 * CountConnections
      BY <1>2, <2>1, FS_Product
    <2>3. T \in SUBSET own
      <3>1. ASSUME NEW u \in T PROVE u \in own
        <4>1. u \in Servers \X (1..CountConnections) /\ u[1] = t[1]
          BY <1>6 DEF Threads
        <4>2. QED
          BY <4>1
      <3>2. QED
        BY <3>1
    <2> HIDE DEF own
    <2>4. Cardinality(T) <= Cardinality(own)
      BY <2>2, <2>3, FS_Subset
    <2>5. QED
      BY <1>1, <2>2, <2>4
  <1>7. QED
    BY <1>1, <1>3, <1>4, <1>5, <1>6

(* What Append gives. *)
LEMMA AppendIs ==
    ASSUME NEW S, NEW l \in Seq(S), NEW x \in S
    PROVE  /\ Append(l, x) \in Seq(S)
           /\ Len(l) \in Nat
           /\ Len(Append(l, x)) = Len(l) + 1
           /\ Append(l, x)[Len(l) + 1] = x
           /\ \A k \in 1..Len(l) : Append(l, x)[k] = l[k]
  OBVIOUS

(* What Head and Tail give. *)
LEMMA TailIs ==
    ASSUME NEW S, NEW l \in Seq(S), l # <<>>
    PROVE  /\ Tail(l) \in Seq(S)
           /\ Len(l) \in Nat \ {0}
           /\ Len(Tail(l)) = Len(l) - 1
           /\ Head(l) = l[1] /\ l[1] \in S
           /\ \A k \in 1..(Len(l) - 1) : Tail(l)[k] = l[k + 1]
  OBVIOUS

(* What a thread does. *)
ThreadActs(t) == ThreadStep(t) \/ Answer(t) \/ RequestFails(t)

(* A call begins: every thread is there, and nothing is answered. *)
LEMMA CallPool ==
    ASSUME NEW n \in Nat \ {0}, NEW up \in SUBSET Servers, PoolInv, Call(n, up)
    PROVE  PoolInv'
  <1>0. /\ mpc' = "push" /\ count' = n /\ reliable' = up /\ pushed' = 0
        /\ queue' = <<>> /\ stopped' = FALSE /\ result' = FALSE
        /\ tpc' = [t \in Threads |-> "pop"]
        /\ segment' = [t \in Threads |-> 0]
        /\ curlIndex' = [t \in Threads |-> None]
        /\ answers' = {} /\ success' = 0 /\ exited' = 0 /\ unknown' = unknown
    BY DEF Call
  <1>1. PoolTypeOK'
    <2>1. queue' \in Seq(1..pushed') /\ Len(queue') <= QueueSize
      BY <1>0, ThreadFacts
    <2>2. pushed' \in 0..count' /\ pushed' < count' /\ unknown' \in 0..MaxUnknown
      BY <1>0 DEF PoolTypeOK, PoolInv
    <2>3. /\ tpc' \in [Threads -> {"pop", "ask", "request", "count", "failed", "exit", "gone"}]
          /\ segment' \in [Threads -> 0..pushed'] /\ curlIndex' \in [Threads -> {None} \cup Nat]
          /\ answers' \subseteq 1..pushed'
      BY <1>0
    <2>4. QED
      BY <1>0, <2>1, <2>2, <2>3 DEF PoolTypeOK
  <1>2. PlaceInv'
    BY <1>0 DEF PlaceInv, Busy
  <1>3. CurlInv'
    BY <1>0 DEF CurlInv
  <1>4. CountInv'
    <2>1. Counted' = {} /\ Gone' = {}
      BY <1>0 DEF Counted, Gone
    <2>2. QED
      BY <1>0, <2>1, FS_EmptySet, ThreadFacts DEF CountInv
  <1>5. QED
    BY <1>1, <1>2, <1>3, <1>4 DEF PoolInv

(* The caller pushes a segment that is nowhere yet. *)
LEMMA PushPool ==
    ASSUME PoolInv, Push
    PROVE  PoolInv'
  <1>0. /\ mpc = "push" /\ Len(queue) < QueueSize /\ queue' = Append(queue, pushed + 1)
        /\ pushed' = pushed + 1 /\ mpc' = IF pushed' = count THEN "wait" ELSE "push"
        /\ UNCHANGED <<count, reliable, stopped, result, tpc, segment, curlIndex, answers, success, exited,
                       unknown>>
    BY DEF Push, threads
  <1>1. PoolTypeOK /\ PlaceInv /\ CurlInv /\ CountInv
    BY DEF PoolInv
  <1>2. /\ pushed \in Nat /\ count \in Nat /\ pushed < count /\ queue \in Seq(1..pushed)
        /\ segment \in [Threads -> 0..pushed] /\ answers \subseteq 1..pushed
    BY <1>0, <1>1 DEF PoolTypeOK
  <1>3. /\ 1..pushed \subseteq 1..(pushed + 1) /\ pushed + 1 \in 1..(pushed + 1)
        /\ 0..pushed \subseteq 0..(pushed + 1)
    BY <1>2
  <1>4. queue \in Seq(1..(pushed + 1))
    BY <1>2, <1>3
  <1>5. /\ queue' \in Seq(1..pushed') /\ Len(queue) \in Nat /\ Len(queue') = Len(queue) + 1
        /\ queue'[Len(queue) + 1] = pushed + 1
        /\ \A k \in 1..Len(queue) : queue'[k] = queue[k] /\ queue[k] \in 1..pushed
    BY <1>0, <1>2, <1>3, <1>4, AppendIs
  <1>6. PoolTypeOK'
    <2>1. pushed' \in 0..count /\ (mpc' = "push" => pushed' < count) /\ Len(queue') <= QueueSize
      BY <1>0, <1>2, <1>5, ThreadFacts
    <2>2. segment' \in [Threads -> 0..pushed'] /\ answers' \subseteq 1..pushed'
      BY <1>0, <1>2, <1>3
    <2>3. QED
      BY <1>0, <1>1, <1>5, <2>1, <2>2 DEF PoolTypeOK
  <1>7. PlaceInv'
    <2>1. \A k \in 1..Len(queue') : k \in 1..Len(queue) \/ (k = Len(queue) + 1 /\ queue'[k] = pushed + 1)
      BY <1>5
    <2>2. \A j \in 1..pushed : j # pushed + 1
      BY <1>2
    <2>3. \A j, k \in 1..Len(queue') : queue'[j] = queue'[k] => j = k
      BY <1>1, <1>5, <2>1, <2>2 DEF PlaceInv
    <2>4. \A k \in 1..Len(queue') : queue'[k] \notin answers
      BY <1>1, <1>2, <1>5, <2>1, <2>2 DEF PlaceInv
    <2>5. \A k \in 1..Len(queue') : \A t \in Threads : segment[t] # queue'[k]
      <3>1. \A t \in Threads : segment[t] # pushed + 1
        BY <1>2
      <3>2. QED
        BY <1>1, <1>5, <2>1, <3>1 DEF PlaceInv
    <2>6. QED
      BY <1>0, <1>1, <2>3, <2>4, <2>5 DEF PlaceInv
  <1>8. CurlInv'
    BY <1>0, <1>1 DEF CurlInv, Used
  <1>9. CountInv'
    <2>1. Counted' = Counted /\ Gone' = Gone /\ mpc' # "idle"
      BY <1>0 DEF Counted, Gone
    <2>2. QED
      BY <1>0, <1>1, <2>1 DEF CountInv
  <1>10. QED
    BY <1>6, <1>7, <1>8, <1>9 DEF PoolInv

(* The caller stops waiting, and returns when all threads have gone. *)
LEMMA ReturnPool ==
    ASSUME PoolInv, Stop \/ Return
    PROVE  PoolInv'
  <1>0. /\ mpc # "idle" /\ mpc' \in {"join", "idle"} /\ stopped' \in {stopped, TRUE}
        /\ result' \in {result, success = count}
        /\ mpc' = "idle" => \A t \in Threads : tpc[t] = "gone"
        /\ UNCHANGED <<count, reliable, pushed, queue, tpc, segment, curlIndex, answers, success, exited,
                       unknown>>
    BY DEF Stop, Return, threads
  <1>1. PoolTypeOK /\ PlaceInv /\ CurlInv /\ CountInv
    BY DEF PoolInv
  <1>2. PoolTypeOK'
    BY <1>0, <1>1 DEF PoolTypeOK
  <1>3. PlaceInv' /\ CurlInv'
    BY <1>0, <1>1 DEF PlaceInv, CurlInv, Used
  <1>4. CountInv'
    <2>1. Counted' = Counted /\ Gone' = Gone /\ (mpc' = "idle" => Gone = Threads)
      BY <1>0 DEF Counted, Gone
    <2>2. QED
      BY <1>0, <1>1, <2>1 DEF CountInv
  <1>5. QED
    BY <1>2, <1>3, <1>4 DEF PoolInv

(* What the steps of a thread have in common. *)
LEMMA ThreadKeeps ==
    ASSUME NEW t \in Threads, PoolInv, ThreadActs(t)
    PROVE  /\ PoolTypeOK /\ PlaceInv /\ CurlInv /\ CountInv
           /\ UNCHANGED <<mpc, count, reliable, pushed, stopped, result>>
           /\ mpc # "idle" /\ tpc[t] # "gone"
           /\ \A u \in Threads : u # t => tpc'[u] = tpc[u] /\ segment'[u] = segment[u] /\ curlIndex'[u] = curlIndex[u]
           /\ pushed \in Nat /\ queue \in Seq(1..pushed) /\ Len(queue) \in Nat
           /\ \A k \in 1..Len(queue) : queue[k] \in 1..pushed
           /\ \A u \in Threads : segment[u] \in 0..pushed
           /\ answers \subseteq 1..pushed
  <1>1. PoolTypeOK /\ PlaceInv /\ CurlInv /\ CountInv
    BY DEF PoolInv
  <1>2. UNCHANGED <<mpc, count, reliable, pushed, stopped, result>> /\ tpc[t] # "gone"
    BY DEF ThreadActs, ThreadStep, Pop, PopStopped, TakeCurl, CountSuccess, GiveBack, Exit, Unwind, Answer,
       RequestFails, caller
  <1>3. mpc # "idle"
    BY <1>1, <1>2 DEF CountInv, Gone
  <1>4. \A u \in Threads : u # t => tpc'[u] = tpc[u] /\ segment'[u] = segment[u] /\ curlIndex'[u] = curlIndex[u]
    BY <1>1 DEF PoolTypeOK, ThreadActs, ThreadStep, Pop, PopStopped, TakeCurl, CountSuccess, GiveBack, Exit, Unwind,
       Answer, RequestFails
  <1>5. pushed \in Nat /\ queue \in Seq(1..pushed)
    BY <1>1 DEF PoolTypeOK
  <1>6. Len(queue) \in Nat /\ \A k \in 1..Len(queue) : queue[k] \in 1..pushed
    BY <1>5
  <1>7. (\A u \in Threads : segment[u] \in 0..pushed) /\ answers \subseteq 1..pushed
    BY <1>1 DEF PoolTypeOK
  <1>8. QED
    BY <1>1, <1>2, <1>3, <1>4, <1>5, <1>6, <1>7

(* The steps of a thread keep the types. *)
LEMMA ThreadTypes ==
    ASSUME NEW t \in Threads, PoolInv, ThreadActs(t)
    PROVE  PoolTypeOK'
  <1>0. /\ PoolTypeOK /\ UNCHANGED <<mpc, count, reliable, pushed, stopped, result>>
        /\ pushed \in Nat /\ queue \in Seq(1..pushed) /\ Len(queue) \in Nat
        /\ \A u \in Threads : segment[u] \in 0..pushed
        /\ segment \in [Threads -> 0..pushed] /\ answers \subseteq 1..pushed
        /\ PlaceInv
    BY ThreadKeeps DEF PoolTypeOK
  <1> DEFINE Places == {"pop", "ask", "request", "count", "failed", "exit", "gone"}
  <1>1. tpc' \in [Threads -> Places]
    BY <1>0 DEF PoolTypeOK, ThreadActs, ThreadStep, Pop, PopStopped, TakeCurl, CountSuccess, GiveBack, Exit,
       Unwind, Answer, RequestFails
  <1>2. tpc[t] \in Busy => segment[t] \in 1..pushed
    BY <1>0 DEF PlaceInv
  <1>3. queue' \in Seq(1..pushed) /\ Len(queue') <= QueueSize
    <2>1. CASE Pop(t)
      <3>1. queue # <<>> /\ queue' = Tail(queue)
        BY <2>1 DEF Pop
      <3>2. /\ queue' \in Seq(1..pushed) /\ Len(queue) \in Nat /\ Len(queue') = Len(queue) - 1
        BY <1>0, <3>1, TailIs
      <3>3. QED
        BY <1>0, <3>2, ThreadFacts DEF PoolTypeOK
    <2>2. CASE GiveBack(t)
      <3>1. tpc[t] \in Busy /\ Len(queue) < QueueSize /\ queue' = Append(queue, segment[t])
        BY <2>2 DEF GiveBack, Busy
      <3>2. queue' \in Seq(1..pushed) /\ Len(queue') = Len(queue) + 1
        BY <1>0, <1>2, <3>1, AppendIs
      <3>3. QED
        BY <1>0, <3>1, <3>2, ThreadFacts
    <2>3. CASE ~Pop(t) /\ ~GiveBack(t)
      <3>1. queue' = queue
        BY <2>3 DEF ThreadActs, ThreadStep, PopStopped, TakeCurl, CountSuccess, Exit, Unwind, Answer, RequestFails
      <3>2. QED
        BY <1>0, <3>1 DEF PoolTypeOK
    <2>4. QED
      BY <2>1, <2>2, <2>3
  <1>4. segment' \in [Threads -> 0..pushed]
    <2>1. CASE Pop(t)
      <3>1. segment' = [segment EXCEPT ![t] = Head(queue)] /\ queue # <<>>
        BY <2>1 DEF Pop
      <3>2. Head(queue) \in 1..pushed
        BY <1>0, <3>1, TailIs
      <3>3. QED
        BY <1>0, <3>1, <3>2
    <2>2. CASE ~Pop(t)
      <3>1. segment' = segment \/ segment' = [segment EXCEPT ![t] = 0]
        BY <2>2 DEF ThreadActs, ThreadStep, PopStopped, TakeCurl, CountSuccess, GiveBack, Exit, Unwind, Answer,
           RequestFails
      <3>2. QED
        BY <1>0, <3>1
    <2>3. QED
      BY <2>1, <2>2
  <1>5. curlIndex' \in [Threads -> {None} \cup Nat]
    <2>1. CASE TakeCurl(t)
      <3>1. curlIndex' = [curlIndex EXCEPT ![t] = IF @ = None THEN Cardinality(Used(t)) ELSE @]
        BY <2>1 DEF TakeCurl
      <3>2. Cardinality(Used(t)) \in Nat
        BY ThreadFacts DEF Used
      <3>3. QED
        BY <1>0, <3>1, <3>2 DEF PoolTypeOK
    <2>2. CASE ~TakeCurl(t)
      <3>1. curlIndex' = curlIndex
        BY <2>2 DEF ThreadActs, ThreadStep, Pop, PopStopped, CountSuccess, GiveBack, Exit, Unwind, Answer,
           RequestFails
      <3>2. QED
        BY <1>0, <3>1 DEF PoolTypeOK
    <2>3. QED
      BY <2>1, <2>2
  <1>6. answers' \subseteq 1..pushed
    <2>1. CASE Answer(t)
      BY <1>0, <1>2, <2>1 DEF Answer, Busy
    <2>2. CASE ~Answer(t)
      BY <1>0, <2>2 DEF ThreadActs, ThreadStep, Pop, PopStopped, TakeCurl, CountSuccess, GiveBack, Exit, Unwind,
         RequestFails
    <2>3. QED
      BY <2>1, <2>2
  <1>7. unknown' \in 0..MaxUnknown
    <2>1. unknown \in 0..MaxUnknown /\ MaxUnknown \in Nat
      BY <1>0, ThreadFacts DEF PoolTypeOK
    <2>2. unknown' = unknown \/ (unknown < MaxUnknown /\ unknown' = unknown + 1)
      BY DEF ThreadActs, ThreadStep, Pop, PopStopped, TakeCurl, CountSuccess, GiveBack, Exit, Unwind, Answer,
         RequestFails
    <2>3. QED
      BY <2>1, <2>2
  <1>8. QED
    BY <1>0, <1>1, <1>3, <1>4, <1>5, <1>6, <1>7 DEF PoolTypeOK

(* The steps of a thread leave every segment in one place. *)
LEMMA ThreadPlaces ==
    ASSUME NEW t \in Threads, PoolInv, ThreadActs(t)
    PROVE  PlaceInv'
  <1>0. /\ PoolTypeOK /\ PlaceInv
        /\ \A u \in Threads : u # t => tpc'[u] = tpc[u] /\ segment'[u] = segment[u]
        /\ pushed \in Nat /\ queue \in Seq(1..pushed) /\ Len(queue) \in Nat
        /\ \A k \in 1..Len(queue) : queue[k] \in 1..pushed
        /\ \A u \in Threads : segment[u] \in 0..pushed
        /\ answers \subseteq 1..pushed
    BY ThreadKeeps
  <1>1. 0 \notin 1..pushed /\ 0 \notin answers
    BY <1>0
  <1>2. CASE Pop(t)
    <2>1. /\ tpc[t] = "pop" /\ queue # <<>> /\ segment' = [segment EXCEPT ![t] = Head(queue)]
          /\ queue' = Tail(queue) /\ tpc' = [tpc EXCEPT ![t] = "ask"] /\ answers' = answers
      BY <1>2 DEF Pop
    <2>2. /\ Len(queue) \in Nat \ {0} /\ Len(queue') = Len(queue) - 1 /\ Head(queue) = queue[1]
          /\ \A k \in 1..(Len(queue) - 1) : queue'[k] = queue[k + 1]
      BY <1>0, <2>1, TailIs
    <2>3. tpc'[t] = "ask" /\ segment'[t] = queue[1] /\ segment'[t] \in 1..pushed /\ segment'[t] # 0
      BY <1>0, <1>1, <2>1, <2>2 DEF PoolTypeOK
    <2>4. \A k \in 1..Len(queue') : k + 1 \in 1..Len(queue) /\ queue'[k] = queue[k + 1] /\ k + 1 # 1
      BY <2>2
    <2>5. \A j, k \in 1..Len(queue') : queue'[j] = queue'[k] => j = k
      <3> SUFFICES ASSUME NEW j \in 1..Len(queue'), NEW k \in 1..Len(queue'), queue'[j] = queue'[k]
                   PROVE  j = k
        OBVIOUS
      <3>1. queue[j + 1] = queue[k + 1] /\ j + 1 \in 1..Len(queue) /\ k + 1 \in 1..Len(queue)
        BY <2>4
      <3>2. j + 1 = k + 1
        BY <1>0, <3>1 DEF PlaceInv
      <3>3. QED
        BY <2>2, <3>2
    <2>6. 1 \in 1..Len(queue)
      BY <2>2
    <2>7. ASSUME NEW k \in 1..Len(queue')
          PROVE  queue'[k] \notin answers /\ \A u \in Threads : segment'[u] # queue'[k]
      <3>1. queue'[k] \notin answers /\ \A u \in Threads : segment[u] # queue'[k]
        BY <1>0, <2>4 DEF PlaceInv
      <3>2. segment'[t] # queue'[k]
        BY <1>0, <2>3, <2>4, <2>6 DEF PlaceInv
      <3>3. QED
        BY <1>0, <3>1, <3>2
    <2>8. \A u \in Threads : u # t => segment'[u] # segment'[t]
      BY <1>0, <2>3, <2>6 DEF PlaceInv
    <2>9. segment'[t] \notin answers
      BY <1>0, <2>3, <2>6 DEF PlaceInv
    <2>10. QED
      BY <1>0, <2>1, <2>3, <2>5, <2>7, <2>8, <2>9 DEF PlaceInv, Busy
  <1>3. CASE Answer(t)
    <2>1. /\ tpc[t] = "request" /\ answers' = answers \cup {segment[t]} /\ tpc' = [tpc EXCEPT ![t] = "count"]
          /\ UNCHANGED <<queue, segment>>
      BY <1>3 DEF Answer
    <2>2. tpc'[t] = "count"
      BY <1>0, <2>1 DEF PoolTypeOK
    <2>3. \A u \in Threads : u # t => segment[u] # segment[t]
      BY <1>0, <2>1 DEF PlaceInv, Busy
    <2>4. \A k \in 1..Len(queue) : queue[k] \notin answers'
      BY <1>0, <2>1 DEF PlaceInv
    <2>5. QED
      BY <1>0, <2>1, <2>2, <2>3, <2>4 DEF PlaceInv, Busy
  <1>4. CASE CountSuccess(t) \/ Unwind(t)
    <2>1. /\ tpc[t] \in Busy /\ segment' = [segment EXCEPT ![t] = 0] /\ UNCHANGED <<queue, answers>>
          /\ tpc' = [tpc EXCEPT ![t] = "pop"] \/ tpc' = [tpc EXCEPT ![t] = "exit"]
      BY <1>4 DEF CountSuccess, Unwind, Busy
    <2>2. tpc'[t] \in {"pop", "exit"} /\ segment'[t] = 0
      BY <1>0, <2>1 DEF PoolTypeOK
    <2>3. \A k \in 1..Len(queue) : queue[k] # 0
      BY <1>0, <1>1
    <2>4. QED
      BY <1>0, <1>1, <2>1, <2>2, <2>3 DEF PlaceInv, Busy
  <1>5. CASE GiveBack(t)
    <2>1. /\ tpc[t] = "failed" /\ queue' = Append(queue, segment[t]) /\ answers' = answers
          /\ segment' = [segment EXCEPT ![t] = 0] /\ tpc' = [tpc EXCEPT ![t] = "exit"]
      BY <1>5 DEF GiveBack
    <2>2. tpc'[t] = "exit" /\ segment'[t] = 0
      BY <1>0, <2>1 DEF PoolTypeOK
    <2>3. segment[t] # 0 /\ segment[t] \in 1..pushed /\ segment[t] \notin answers
      BY <1>0, <2>1 DEF PlaceInv, Busy
    <2>4. /\ Len(queue') = Len(queue) + 1 /\ queue'[Len(queue) + 1] = segment[t]
          /\ \A k \in 1..Len(queue) : queue'[k] = queue[k]
      BY <1>0, <2>1, <2>3, AppendIs
    <2>5. \A k \in 1..Len(queue') : k \in 1..Len(queue) \/ k = Len(queue) + 1
      BY <1>0, <2>4
    <2>6. \A k \in 1..Len(queue) : queue[k] # segment[t] /\ queue[k] # 0
      BY <1>0, <1>1 DEF PlaceInv
    <2>7. \A j, k \in 1..Len(queue') : queue'[j] = queue'[k] => j = k
      <3>1. \A j, k \in 1..Len(queue) : queue[j] = queue[k] => j = k
        BY <1>0 DEF PlaceInv
      <3>2. QED
        BY <2>4, <2>5, <2>6, <3>1
    <2>8. \A k \in 1..Len(queue') : queue'[k] \notin answers
      BY <1>0, <2>3, <2>4, <2>5 DEF PlaceInv
    <2>9. ASSUME NEW k \in 1..Len(queue'), NEW u \in Threads
          PROVE  segment'[u] # queue'[k]
      <3>1. CASE u = t
        BY <2>2, <2>3, <2>4, <2>5, <2>6, <3>1
      <3>2. CASE u # t
        <4>1. segment'[u] = segment[u] /\ segment[u] # segment[t]
          BY <1>0, <2>3, <3>2 DEF PlaceInv
        <4>2. QED
          BY <1>0, <2>4, <2>5, <4>1 DEF PlaceInv
      <3>3. QED
        BY <3>1, <3>2
    <2>10. QED
      BY <1>0, <1>1, <2>1, <2>2, <2>7, <2>8, <2>9 DEF PlaceInv, Busy
  <1>6. CASE PopStopped(t) \/ TakeCurl(t) \/ RequestFails(t) \/ Exit(t)
    <2>1. UNCHANGED <<queue, segment, answers>>
      BY <1>6 DEF PopStopped, TakeCurl, RequestFails, Exit
    <2>2. (tpc'[t] \in Busy <=> tpc[t] \in Busy) /\ tpc[t] # "count" /\ tpc'[t] # "count"
      BY <1>0, <1>6 DEF PoolTypeOK, PopStopped, TakeCurl, RequestFails, Exit, Busy
    <2>3. QED
      BY <1>0, <2>1, <2>2 DEF PlaceInv
  <1>7. QED
    BY <1>2, <1>3, <1>4, <1>5, <1>6 DEF ThreadActs, ThreadStep

(* The threads of a server get different connections, and enough of them. *)
LEMMA ThreadCurls ==
    ASSUME NEW t \in Threads, PoolInv, ThreadActs(t)
    PROVE  CurlInv'
  <1>0. /\ PoolTypeOK /\ CurlInv
        /\ \A u \in Threads : u # t => tpc'[u] = tpc[u] /\ curlIndex'[u] = curlIndex[u]
        /\ curlIndex \in [Threads -> {None} \cup Nat]
    BY ThreadKeeps DEF PoolTypeOK
  <1>1. CASE TakeCurl(t) /\ curlIndex[t] = None
    <2> DEFINE c == Cardinality(Used(t))
    <2>1. tpc[t] = "ask" /\ curlIndex' = [curlIndex EXCEPT ![t] = c]
      BY <1>0, <1>1 DEF TakeCurl
    <2>2. IsFiniteSet(Used(t)) /\ c \in Nat /\ t \notin Used(t)
      BY <1>1, ThreadFacts DEF Used
    <2>3. c # None /\ curlIndex'[t] = c
      BY <1>0, <2>1, <2>2 DEF None
    <2>4. ASSUME NEW u \in Threads, u[1] = t[1]
          PROVE  Used(u) = Used(t) /\ Used(u)' = Used(t) \cup {t} /\ Cardinality(Used(u)') = c + 1
      <3>1. Used(u) = Used(t)
        BY <2>4 DEF Used
      <3>2. Used(u)' = Used(t) \cup {t}
        BY <1>0, <2>3, <2>4 DEF Used
      <3>3. Cardinality(Used(t) \cup {t}) = c + 1
        BY <2>2, FS_AddElement
      <3>4. QED
        BY <3>1, <3>2, <3>3
    <2>5. ASSUME NEW u \in Threads, u[1] # t[1]
          PROVE  Used(u)' = Used(u)
      BY <1>0, <2>5 DEF Used
    <2> HIDE DEF c
    <2>6. ASSUME NEW u \in Threads, curlIndex'[u] # None
          PROVE  curlIndex'[u] < Cardinality(Used(u)')
      <3>1. CASE u[1] # t[1]
        <4>1. u # t
          BY <3>1
        <4>2. QED
          BY <1>0, <2>5, <2>6, <3>1, <4>1 DEF CurlInv
      <3>2. CASE u = t
        BY <2>2, <2>3, <2>4, <3>2
      <3>3. CASE u[1] = t[1] /\ u # t
        <4>1. curlIndex'[u] = curlIndex[u] /\ curlIndex[u] \in Nat /\ curlIndex[u] < c
          BY <1>0, <2>4, <2>6, <3>3 DEF CurlInv, c
        <4>2. QED
          BY <2>2, <2>4, <3>3, <4>1
      <3>4. QED
        BY <3>1, <3>2, <3>3
    <2>7. ASSUME NEW u \in Threads, u # t, u[1] = t[1], curlIndex[u] # None
          PROVE  curlIndex[u] # c
      <3>1. curlIndex[u] \in Nat /\ curlIndex[u] < c
        BY <1>0, <2>4, <2>7 DEF CurlInv, c
      <3>2. QED
        BY <2>2, <3>1
    <2>8. ASSUME NEW u \in Threads, NEW v \in Threads, u # v, u[1] = v[1], curlIndex'[u] # None
          PROVE  curlIndex'[u] # curlIndex'[v]
      <3>1. CASE u = t
        BY <1>0, <2>3, <2>7, <2>8, <3>1
      <3>2. CASE v = t
        BY <1>0, <2>3, <2>7, <2>8, <3>2
      <3>3. CASE u # t /\ v # t
        BY <1>0, <2>8, <3>3 DEF CurlInv
      <3>4. QED
        BY <3>1, <3>2, <3>3
    <2>9. \A u \in Threads : tpc'[u] \in {"request", "count", "failed"} => curlIndex'[u] # None
      BY <1>0, <2>3 DEF CurlInv
    <2>10. QED
      BY <2>6, <2>8, <2>9 DEF CurlInv
  <1>2. CASE ~(TakeCurl(t) /\ curlIndex[t] = None)
    <2>1. curlIndex' = curlIndex
      <3>1. CASE TakeCurl(t)
        BY <1>0, <1>2, <3>1 DEF TakeCurl
      <3>2. CASE ~TakeCurl(t)
        BY <3>2 DEF ThreadActs, ThreadStep, Pop, PopStopped, CountSuccess, GiveBack, Exit, Unwind, Answer,
           RequestFails
      <3>3. QED
        BY <3>1, <3>2
    <2>2. tpc'[t] \in {"request", "count", "failed"} => curlIndex[t] # None
      <3>1. CASE TakeCurl(t)
        BY <1>2, <3>1
      <3>2. CASE ~TakeCurl(t)
        <4>1. tpc'[t] \in {"request", "count", "failed"} => tpc[t] \in {"request", "count", "failed"}
          BY <1>0, <3>2 DEF PoolTypeOK, ThreadActs, ThreadStep, Pop, PopStopped, CountSuccess, GiveBack, Exit,
             Unwind, Answer, RequestFails
        <4>2. QED
          BY <1>0, <4>1 DEF CurlInv
      <3>3. QED
        BY <3>1, <3>2
    <2>3. QED
      BY <1>0, <2>1, <2>2 DEF CurlInv, Used
  <1>3. QED
    BY <1>1, <1>2

(* A success is counted once for every answered segment, an exit once for   *)
(* every thread that has gone.                                              *)
LEMMA ThreadCounts ==
    ASSUME NEW t \in Threads, PoolInv, ThreadActs(t)
    PROVE  CountInv'
  <1>0. /\ PoolTypeOK /\ PlaceInv /\ CountInv /\ mpc # "idle" /\ mpc' = mpc
        /\ \A u \in Threads : u # t => tpc'[u] = tpc[u] /\ segment'[u] = segment[u]
        /\ pushed \in Nat /\ answers \subseteq 1..pushed
        /\ queue \in Seq(1..pushed)
        /\ segment \in [Threads -> 0..pushed]
    BY ThreadKeeps DEF PoolTypeOK
  <1>1. success' = Cardinality(Counted')
    <2>1. CASE CountSuccess(t)
      <3>1. /\ tpc[t] = "count" /\ success' = success + 1 /\ segment' = [segment EXCEPT ![t] = 0] /\ answers' = answers
        BY <2>1 DEF CountSuccess
      <3>2. segment[t] \in answers /\ segment[t] # 0 /\ segment'[t] = 0 /\ 0 \notin answers
        BY <1>0, <3>1 DEF PlaceInv, Busy
      <3>3. \A u \in Threads : u # t => segment[u] # segment[t]
        BY <1>0, <3>2 DEF PlaceInv
      <3>4. Counted' = Counted \cup {segment[t]} /\ segment[t] \notin Counted
        BY <1>0, <3>1, <3>2, <3>3 DEF Counted
      <3>5. IsFiniteSet(Counted)
        <4>0. 1 \in Int /\ pushed \in Int
          BY <1>0
        <4>1. IsFiniteSet(1..pushed)
          BY <4>0, FS_Interval
        <4>2. Counted \in SUBSET (1..pushed)
          BY <1>0 DEF Counted
        <4>3. QED
          BY <4>1, <4>2, FS_Subset
      <3>6. Cardinality(Counted \cup {segment[t]}) = Cardinality(Counted) + 1
        BY <3>4, <3>5, FS_AddElement
      <3>7. QED
        BY <1>0, <3>1, <3>4, <3>6 DEF CountInv
    <2>2. CASE ~CountSuccess(t)
      <3>1. success' = success
        BY <2>2 DEF ThreadActs, ThreadStep, Pop, PopStopped, TakeCurl, GiveBack, Exit, Unwind, Answer, RequestFails
      <3>2. Counted' = Counted
        <4>1. CASE Answer(t)
          <5>1. answers' = answers \cup {segment[t]} /\ segment' = segment
            BY <4>1 DEF Answer
          <5>2. QED
            BY <5>1 DEF Counted
        <4>2. CASE Pop(t)
          <5>1. queue # <<>> /\ segment' = [segment EXCEPT ![t] = Head(queue)] /\ answers' = answers /\ tpc[t] = "pop"
            BY <4>2 DEF Pop
          <5>2. Head(queue) = queue[1] /\ 1 \in 1..Len(queue)
            BY <1>0, <5>1, TailIs
          <5>3. segment'[t] \notin answers /\ segment[t] \notin answers
            BY <1>0, <5>1, <5>2 DEF PlaceInv
          <5>4. QED
            BY <1>0, <5>1, <5>3 DEF Counted
        <4>3. CASE ~Answer(t) /\ ~Pop(t)
          <5>1. answers' = answers /\ (segment' = segment \/ (tpc[t] # "count" /\ segment' = [segment EXCEPT ![t] = 0]))
            BY <2>2, <4>3 DEF ThreadActs, ThreadStep, PopStopped, TakeCurl, GiveBack, Exit, Unwind, RequestFails
          <5>2. 0 \notin answers
            BY <1>0
          <5>3. tpc[t] # "count" => segment[t] \notin answers
            BY <1>0 DEF PlaceInv
          <5>4. QED
            BY <1>0, <5>1, <5>2, <5>3 DEF Counted
        <4>4. QED
          BY <4>1, <4>2, <4>3
      <3>3. QED
        BY <1>0, <3>1, <3>2 DEF CountInv
    <2>3. QED
      BY <2>1, <2>2
  <1>2. exited' = Cardinality(Gone')
    <2>1. exited = Cardinality(Gone) /\ IsFiniteSet(Gone)
      BY <1>0, ThreadFacts DEF CountInv, Gone
    <2>2. CASE Exit(t)
      <3>1. tpc[t] = "exit" /\ exited' = exited + 1 /\ tpc'[t] = "gone"
        BY <1>0, <2>2 DEF Exit, PoolTypeOK
      <3>2. Gone' = Gone \cup {t} /\ t \notin Gone
        BY <1>0, <3>1 DEF Gone
      <3>3. QED
        BY <2>1, <3>1, <3>2, FS_AddElement
    <2>3. CASE ~Exit(t)
      <3>1. exited' = exited /\ tpc'[t] # "gone" /\ tpc[t] # "gone"
        BY <1>0, <2>3 DEF PoolTypeOK, ThreadActs, ThreadStep, Pop, PopStopped, TakeCurl, CountSuccess, GiveBack,
           Unwind, Answer, RequestFails
      <3>2. Gone' = Gone
        BY <1>0, <3>1 DEF Gone
      <3>3. QED
        BY <2>1, <3>1, <3>2
    <2>4. QED
      BY <2>2, <2>3
  <1>3. exited' \in 0..Cardinality(Threads)
    <2>1. Gone' \in SUBSET Threads
      BY DEF Gone
    <2>2. QED
      BY <1>2, <2>1, ThreadFacts
  <1>4. QED
    BY <1>0, <1>1, <1>2, <1>3 DEF CountInv

(* Every step of a thread keeps the invariant. *)
LEMMA ThreadPool ==
    ASSUME NEW t \in Threads, PoolInv, ThreadActs(t)
    PROVE  PoolInv'
  BY ThreadTypes, ThreadPlaces, ThreadCurls, ThreadCounts DEF PoolInv

(* No more segments are counted than there are; when all are, all are       *)
(* answered.                                                                *)
LEMMA CountFacts ==
    ASSUME PoolInv
    PROVE  /\ success \in 0..count
           /\ success = count => answers = 1..count
  <1>1. /\ count \in Nat /\ pushed \in 0..count /\ answers \subseteq 1..pushed
        /\ success = Cardinality(Counted)
    BY DEF PoolInv, PoolTypeOK, CountInv
  <1>2. IsFiniteSet(1..count) /\ Cardinality(1..count) = count
    BY <1>1, FS_Interval
  <1>3. answers \in SUBSET (1..count) /\ Counted \in SUBSET answers
    BY <1>1 DEF Counted
  <1>4. /\ IsFiniteSet(Counted) /\ Cardinality(Counted) <= count
        /\ Cardinality(Counted) = count => Counted = 1..count
    BY <1>2, <1>3, FS_Subset
  <1>5. Cardinality(Counted) \in Nat
    BY <1>4, FS_CardinalityType
  <1>6. Cardinality(Counted) = count => answers = 1..count
    BY <1>3, <1>4
  <1> HIDE DEF Counted
  <1>7. QED
    BY <1>1, <1>4, <1>5, <1>6

(* The bound as an implication. *)
LEMMA CountBound == PoolInv => success \in 0..count
  BY CountFacts

(* The bound of the next state. *)
LEMMA CountBoundNext == ASSUME PoolInv' PROVE (success \in 0..count)'
  BY CountBound, PTL

-----------------------------------------------------------------------------
(* What is stored *)

(* A function on an interval is a sequence. *)
LEMMA FcnIsSeq ==
    ASSUME NEW S, NEW n \in Nat, NEW f \in [1..n -> S]
    PROVE  f \in Seq(S) /\ Len(f) = n
  OBVIOUS

(* The cache and the file give the same bytes, and as many as were asked    *)
(* for.                                                                     *)
LEMMA AnswerBytes ==
    ASSUME SegInv, NEW k \in 1..Len(answer)
    PROVE  /\ FromCache(answer[k]) = Bytes(answer[k])
           /\ FromFile(answer[k]) = Bytes(answer[k])
           /\ Bytes(answer[k]) \in Seq(1..size)
           /\ SizeFits(answer[k], Bytes(answer[k]))
  <1> DEFINE from == answer[k].fromByte
             to == answer[k].toByte
             sub == SubSeq(dump, from + 1, to)
  <1>1. from \in Nat /\ to \in Nat /\ from < to /\ to <= size /\ size \in Nat
    BY SegmentFacts
  <1>2. Bytes(answer[k]) = [j \in 1..(to - from) |-> from + j]
    BY DEF Bytes
  <1>3. DOMAIN dump = 1..size /\ \A j \in 1..size : dump[j] = j
    BY DEF dump
  <1> HIDE DEF from, to
  <1>4. to - from \in Nat /\ \A j \in 1..(to - from) : from + j \in 1..size
    BY <1>1
  <1>5. /\ Bytes(answer[k]) \in Seq(1..size) /\ Len(Bytes(answer[k])) = to - from
        /\ \A j \in 1..(to - from) : Bytes(answer[k])[j] = from + j
    <2> DEFINE b == [j \in 1..(to - from) |-> from + j]
    <2>1. b \in [1..(to - from) -> 1..size] /\ \A j \in 1..(to - from) : b[j] = from + j
      BY <1>4
    <2> HIDE DEF b
    <2>2. b \in Seq(1..size) /\ Len(b) = to - from
      BY <1>4, <2>1, FcnIsSeq
    <2>3. QED
      BY <1>2, <2>1, <2>2 DEF b
  <1>6. sub \in Seq(1..size) /\ Len(sub) = to - from /\ \A j \in 1..(to - from) : sub[j] = from + j
    <2>1. \A j \in (from + 1)..to : dump[j] \in 1..size
      BY <1>1, <1>3
    <2>2. from + 1 \in Int /\ to \in Int
      BY <1>1
    <2>3. /\ sub \in Seq(1..size)
          /\ Len(sub) = IF from + 1 <= to THEN to - (from + 1) + 1 ELSE 0
          /\ \A j \in 1..(to - (from + 1) + 1) : sub[j] = dump[(from + 1) + j - 1]
      BY <2>1, <2>2, SubSeqProperties
    <2> HIDE DEF sub
    <2>4. Len(sub) = to - from /\ to - (from + 1) + 1 = to - from
      BY <1>1, <2>3
    <2>5. \A j \in 1..(to - from) : (from + 1) + j - 1 = from + j
      BY <1>1
    <2>6. QED
      BY <1>3, <1>4, <2>3, <2>4, <2>5
  <1>7. sub = Bytes(answer[k])
    BY <1>5, <1>6, SeqEqual
  <1>8. FromCache(answer[k]) = sub
    BY DEF FromCache, from, to
  <1>9. FromFile(answer[k]) = sub
    <2>1. ~(from >= size) /\ ~(to > size)
      BY <1>1
    <2>2. QED
      BY <2>1 DEF FromFile, from, to
  <1>10. SizeFits(answer[k], Bytes(answer[k]))
    BY <1>5 DEF SizeFits, from, to
  <1>11. QED
    BY <1>5, <1>7, <1>8, <1>9, <1>10

(* The steps in which the segments, the caller and the threads take turns. *)
LEMMA DownloadMoves ==
    ASSUME DownloadInv, [DownloadNext]_allVars
    PROVE  \/ (Cut \/ Last) /\ UNCHANGED <<processVars, responses>>
           \/ /\ UNCHANGED vars /\ Len(answer) = CountSegments
              /\ \E up \in SUBSET Servers : Call(Len(answer), up)
              /\ responses' = [k \in 1..Len(answer) |-> <<>>]
           \/ UNCHANGED <<vars, responses>> /\ (Push \/ Stop \/ Return)
           \/ \E t \in Threads : /\ ThreadActs(t) /\ UNCHANGED vars
                                 /\ Answer(t) => Respond(t)
                                 /\ ~Answer(t) => responses' = responses
                                 /\ RequestFails(t) => NoResponse(t)
           \/ UNCHANGED allVars
  <1>1. CASE Caller
    BY <1>1 DEF Caller, Cutting, Request, Processing, CallerStep
  <1>2. ASSUME NEW t \in Threads, Thread(t)
        PROVE  /\ ThreadActs(t) /\ UNCHANGED vars
               /\ Answer(t) => Respond(t)
               /\ ~Answer(t) => responses' = responses
               /\ RequestFails(t) => NoResponse(t)
    <2>0. tpc \in [Threads -> {"pop", "ask", "request", "count", "failed", "exit", "gone"}]
      BY DEF DownloadInv, PoolInv, PoolTypeOK
    <2>1. Answer(t) => tpc[t] = "request" /\ tpc'[t] = "count"
      BY <2>0 DEF Answer
    <2>2. RequestFails(t) => tpc[t] = "request" /\ tpc'[t] = "failed"
      BY <2>0 DEF RequestFails
    <2>3. CASE Respond(t)
      <3>1. Answer(t) /\ UNCHANGED vars
        BY <2>3 DEF Respond
      <3>2. ~RequestFails(t)
        BY <2>1, <2>2, <3>1
      <3>3. QED
        BY <2>3, <3>1, <3>2 DEF ThreadActs
    <2>4. CASE NoResponse(t)
      <3>1. RequestFails(t) /\ UNCHANGED <<vars, responses>>
        BY <2>4 DEF NoResponse
      <3>2. ~Answer(t)
        BY <2>1, <2>2, <3>1
      <3>3. QED
        BY <2>4, <3>1, <3>2 DEF ThreadActs
    <2>5. CASE Working(t)
      <3>1. ThreadStep(t) /\ UNCHANGED <<vars, responses>>
        BY <2>5 DEF Working
      <3>2. tpc[t] = "request" => tpc'[t] \notin {"count", "failed"}
        BY <2>0, <3>1 DEF ThreadStep, Pop, PopStopped, TakeCurl, CountSuccess, GiveBack, Exit, Unwind
      <3>3. ~Answer(t) /\ ~RequestFails(t)
        BY <2>1, <2>2, <3>2
      <3>4. QED
        BY <3>1, <3>3 DEF ThreadActs
    <2>6. QED
      BY <1>2, <2>3, <2>4, <2>5 DEF Thread
  <1>3. QED
    BY <1>1, <1>2 DEF DownloadNext

(* What is cut, pushed and stored keeps StoreInv. *)
LEMMA StoreStep ==
    ASSUME DownloadInv, [DownloadNext]_allVars
    PROVE  StoreInv'
  <1>0. SegInv /\ PoolInv /\ StoreInv
    BY DEF DownloadInv
  <1>1. /\ CountSegments \in Nat \ {0} /\ Len(answer) \in Nat /\ i = Len(answer)
        /\ count \in Nat /\ pushed \in 0..count /\ answers \subseteq 1..pushed
        /\ responses \in Seq(Seq(1..size)) /\ Len(responses) = count
        /\ success \in 0..count
    BY <1>0, SegmentFacts, CountFacts DEF SegInv, PoolInv, PoolTypeOK, StoreInv
  <1>2. CountSegments' = CountSegments /\ size' = size
    BY DownloadMoves DEF vars, allVars, Cut, Last, CountSegments, Least
  <1>3. CASE (Cut \/ Last) /\ UNCHANGED <<processVars, responses>>
    <2>1. count = 0
      BY <1>0, <1>1, <1>3 DEF StoreInv, Cut, Last
    <2>2. /\ UNCHANGED <<mpc, count, reliable, result, answers, success, responses>>
          /\ answers = {} /\ mpc = "idle" /\ reliable = {} /\ ~result
      BY <1>0, <1>1, <1>3, <2>1 DEF processVars, caller, StoreInv
    <2>3. QED
      BY <1>0, <1>1, <1>2, <2>1, <2>2 DEF StoreInv
  <1>4. CASE /\ UNCHANGED vars /\ Len(answer) = CountSegments
             /\ \E up \in SUBSET Servers : Call(Len(answer), up)
             /\ responses' = [k \in 1..Len(answer) |-> <<>>]
    <2>1. count' = Len(answer) /\ mpc' = "push" /\ result' = FALSE /\ answers' = {} /\ answer' = answer
      BY <1>4 DEF Call, vars
    <2>2. responses' \in Seq(Seq(1..size)) /\ Len(responses') = Len(answer)
      <3>1. <<>> \in Seq(1..size)
        OBVIOUS
      <3>2. responses' \in [1..Len(answer) -> Seq(1..size)]
        BY <1>4, <3>1
      <3>3. QED
        BY <1>1, <3>2
    <2>3. QED
      BY <1>0, <1>1, <1>2, <1>4, <2>1, <2>2 DEF StoreInv
  <1>5. CASE UNCHANGED <<vars, responses>> /\ (Push \/ Stop \/ Return)
    <2>1. /\ UNCHANGED <<answer, responses, count, reliable, answers, success>> /\ mpc # "idle"
          /\ mpc' = "idle" => result' = (success = count)
          /\ mpc' # "idle" => result' = result
      BY <1>5 DEF vars, Push, Stop, Return
    <2>2. count # 0 /\ ~result
      BY <1>0, <2>1 DEF StoreInv
    <2>3. result' => success' = count' /\ mpc' = "idle" /\ count' # 0
      BY <2>1, <2>2
    <2>4. QED
      BY <1>0, <1>2, <2>1, <2>2, <2>3 DEF StoreInv
  <1>6. ASSUME NEW t \in Threads, ThreadActs(t), UNCHANGED vars,
               Answer(t) => Respond(t), ~Answer(t) => responses' = responses
        PROVE  StoreInv'
    <2>1. /\ UNCHANGED <<mpc, count, reliable, pushed, result>> /\ mpc # "idle" /\ answer' = answer
      BY <1>0, <1>6, ThreadKeeps DEF vars
    <2>2. count # 0 /\ ~result /\ count = CountSegments /\ Len(answer) = count
      BY <1>0, <2>1 DEF StoreInv
    <2>3. CASE ~Answer(t)
      <3>1. responses' = responses
        BY <1>6, <2>3
      <3>2. answers' = answers
        BY <1>6, <2>3 DEF ThreadActs, ThreadStep, Pop, PopStopped, TakeCurl, CountSuccess, GiveBack, Exit, Unwind,
           RequestFails
      <3>3. QED
        BY <1>0, <1>2, <2>1, <2>2, <3>1, <3>2 DEF StoreInv
    <2>4. CASE Answer(t)
      <3> DEFINE s == segment[t]
      <3>1. tpc[t] = "request" /\ answers' = answers \cup {s}
        BY <2>4 DEF Answer
      <3>2. s \in 1..pushed
        <4>1. s # 0 /\ s \in 0..pushed
          BY <1>0, <3>1 DEF PoolInv, PlaceInv, PoolTypeOK, Busy
        <4>2. QED
          BY <1>1, <4>1
      <3>3. s \in 1..Len(answer) /\ s \in 1..count
        BY <1>1, <2>2, <3>2
      <3>4. Place(t) = s
        <4>1. answer[s].posInArray = s - 1
          BY <1>0, <3>3, SegmentFacts
        <4>2. QED
          BY <3>3, <4>1 DEF Place, InHand
      <3>5. PICK bytes \in {FromCache(InHand(t)), FromFile(InHand(t))} : responses' = [responses EXCEPT ![Place(t)] = bytes]
        BY <1>6, <2>4 DEF Respond
      <3>6. bytes = Bytes(answer[s]) /\ bytes \in Seq(1..size)
        BY <1>0, <3>3, <3>5, AnswerBytes DEF InHand
      <3>7. responses' = [responses EXCEPT ![s] = bytes]
        BY <3>4, <3>5
      <3> HIDE DEF s
      <3>8. /\ responses' \in Seq(Seq(1..size)) /\ Len(responses') = count /\ responses'[s] = bytes
            /\ \A k \in 1..count : k # s => responses'[k] = responses[k]
        BY <1>1, <3>3, <3>6, <3>7
      <3>9. \A k \in answers' : responses'[k] = Bytes(answer[k])
        BY <1>0, <1>1, <3>1, <3>6, <3>8 DEF StoreInv
      <3>10. QED
        BY <1>0, <1>2, <2>1, <2>2, <3>8, <3>9 DEF StoreInv, Bytes
    <2>5. QED
      BY <2>3, <2>4
  <1>7. CASE UNCHANGED allVars
    BY <1>0, <1>2, <1>7 DEF StoreInv, allVars, vars, processVars, caller
  <1>8. QED
    BY <1>3, <1>4, <1>5, <1>6, <1>7, DownloadMoves

(* A server that answers is enough: its threads work on until everything is *)
(* answered.                                                                *)
LEMMA SufficesStep ==
    ASSUME DownloadInv, [DownloadNext]_allVars, PoolInv'
    PROVE  SufficesInv'
  <1>0. SegInv /\ PoolInv /\ StoreInv /\ SufficesInv
    BY DEF DownloadInv
  <1>1. CASE (Cut \/ Last) /\ UNCHANGED <<processVars, responses>>
    <2>1. i < CountSegments /\ i = Len(answer) /\ CountSegments \in Nat /\ i \in Nat
      BY <1>0, <1>1, SegmentFacts DEF Cut, Last, SegInv
    <2>2. mpc = "idle" /\ reliable = {} /\ mpc' = mpc /\ reliable' = reliable
      BY <1>0, <1>1, <2>1 DEF StoreInv, processVars, caller
    <2>3. QED
      BY <2>2 DEF SufficesInv
  <1>2. SUFFICES ASSUME UNCHANGED vars, Plain' PROVE SufficesInv'
    BY <1>1, DownloadMoves DEF SufficesInv, allVars
  <1>3. Plain
    <2>1. unknown \in Nat
      BY <1>0, ThreadFacts DEF PoolInv, PoolTypeOK
    <2>2. ASSUME NEW t \in Threads, ThreadActs(t)
          PROVE  unknown' = unknown \/ unknown' = unknown + 1
      BY <2>2 DEF ThreadActs, ThreadStep, Pop, PopStopped, TakeCurl, CountSuccess, GiveBack, Exit, Unwind, Answer,
         RequestFails
    <2>3. ASSUME Cut \/ Last, UNCHANGED <<processVars, responses>>
          PROVE  unknown' = unknown
      BY <2>3 DEF processVars
    <2>4. ASSUME NEW up, Call(Len(answer), up)
          PROVE  unknown' = unknown
      BY <2>4 DEF Call
    <2>5. ASSUME Push \/ Stop \/ Return
          PROVE  unknown' = unknown
      BY <2>5 DEF Push, Stop, Return
    <2>6. unknown' = unknown \/ unknown' = unknown + 1
      BY <2>2, <2>3, <2>4, <2>5, DownloadMoves DEF allVars, processVars
    <2>7. unknown = 0
      BY <1>2, <2>1, <2>6 DEF Plain
    <2>8. QED
      BY <1>2, <2>7 DEF Plain, LooksLikeJson, vars
  <1>4. unknown' = 0 /\ unknown = 0
    BY <1>2, <1>3 DEF Plain
  <1>5. CASE \E up \in SUBSET Servers : Call(Len(answer), up)
    BY <1>5 DEF Call, SufficesInv
  <1>6. CASE Push
    BY <1>0, <1>3, <1>6 DEF Push, SufficesInv, threads
  <1>7. CASE Stop
    <2>1. mpc = "wait" /\ Woken /\ mpc' = "join" /\ UNCHANGED <<success, count, reliable>>
      BY <1>7 DEF Stop
    <2>2. ASSUME reliable # {} PROVE success = count
      <3>1. PICK s \in Servers : s \in reliable
        BY <1>0, <2>2 DEF PoolInv, PoolTypeOK
      <3>2. <<s, 1>> \in Threads /\ <<s, 1>>[1] = s
        BY ThreadFacts DEF Threads
      <3>3. tpc[<<s, 1>>] # "gone"
        BY <1>0, <1>3, <2>1, <3>1, <3>2 DEF SufficesInv
      <3>4. Gone # Threads /\ Gone \in SUBSET Threads
        BY <3>2, <3>3 DEF Gone
      <3>5. Cardinality(Gone) # Cardinality(Threads)
        BY <3>4, ThreadFacts, FS_Subset
      <3>6. exited = Cardinality(Gone)
        BY <1>0, <2>1 DEF PoolInv, CountInv
      <3>7. QED
        BY <2>1, <3>5, <3>6 DEF Woken
    <2>3. QED
      BY <2>1, <2>2 DEF SufficesInv
  <1>8. CASE Return
    <2>1. mpc = "join" /\ mpc' = "idle" /\ result' = (success = count) /\ reliable' = reliable
      BY <1>8 DEF Return
    <2>2. QED
      BY <1>0, <1>3, <2>1 DEF SufficesInv
  <1>9. ASSUME NEW t \in Threads, ThreadActs(t), RequestFails(t) => NoResponse(t)
        PROVE  SufficesInv'
    <2>1. /\ UNCHANGED <<mpc, count, reliable, stopped, result>> /\ mpc # "idle"
          /\ \A u \in Threads : u # t => tpc'[u] = tpc[u]
      BY <1>0, <1>9, ThreadKeeps
    <2>2. CASE mpc \in {"push", "wait"}
      <3>1. /\ ~stopped
            /\ \A u \in Threads : u[1] \in reliable => tpc[u] \notin {"failed", "exit", "gone"}
        BY <1>0, <1>3, <2>2 DEF SufficesInv
      <3>2. ASSUME t[1] \in reliable PROVE tpc'[t] \notin {"failed", "exit", "gone"}
        <4>1. tpc[t] \notin {"failed", "exit", "gone"}
          BY <3>1, <3>2
        <4>2. tpc \in [Threads -> {"pop", "ask", "request", "count", "failed", "exit", "gone"}]
          BY <1>0 DEF PoolInv, PoolTypeOK
        <4>3. CASE RequestFails(t)
          <5>1. tpc[t] = "request" /\ NoResponse(t)
            BY <1>9, <4>3 DEF RequestFails
          <5>2. segment[t] \in 1..Len(answer)
            <6>1. segment[t] # 0 /\ segment[t] \in 0..pushed /\ pushed \in 0..count /\ count \in Nat
              BY <1>0, <5>1 DEF PoolInv, PlaceInv, PoolTypeOK, Busy
            <6>2. Len(answer) = count
              BY <1>0, <2>1 DEF StoreInv
            <6>3. QED
              BY <6>1, <6>2
          <5>3. \A bytes \in {FromCache(InHand(t)), FromFile(InHand(t))} : SizeFits(InHand(t), bytes)
            BY <1>0, <5>2, AnswerBytes DEF InHand
          <5>4. ~LooksLikeJson(InHand(t))
            BY <1>3, <5>2 DEF Plain, InHand
          <5>5. QED
            BY <3>2, <5>1, <5>3, <5>4 DEF NoResponse
        <4>4. CASE TakeCurl(t)
          <5>1. tpc[t] = "ask" /\ tpc' = [tpc EXCEPT ![t] = IF curlIndex'[t] < CountConnections THEN "request" ELSE "failed"]
            BY <4>4 DEF TakeCurl
          <5>2. curlIndex'[t] # None /\ curlIndex' \in [Threads -> {None} \cup Nat]
            <6>1. tpc'[t] \in {"request", "failed"}
              BY <4>2, <5>1
            <6>2. PoolTypeOK' /\ CurlInv'
              BY DEF PoolInv
            <6>3. QED
              BY <6>1, <6>2 DEF PoolTypeOK, CurlInv
          <5>3. curlIndex'[t] < Cardinality(Used(t)')
            BY <5>2 DEF PoolInv, CurlInv
          <5>4. Cardinality(Used(t)') <= CountConnections /\ Cardinality(Used(t)') \in Nat
            <6>1. Used(t)' \in SUBSET Threads /\ \A u \in Used(t)' : u[1] = t[1]
              BY DEF Used
            <6>2. QED
              BY <6>1, ThreadFacts
          <5>5. curlIndex'[t] \in Nat /\ CountConnections \in Nat
            BY <5>2, ThreadFacts
          <5>6. curlIndex'[t] < CountConnections
            BY <5>3, <5>4, <5>5
          <5>7. QED
            BY <4>2, <5>1, <5>6
        <4>5. CASE ~RequestFails(t) /\ ~TakeCurl(t)
          <5>1. ~Unwind(t)
            BY <1>4 DEF Unwind
          <5>2. QED
            BY <1>9, <3>1, <4>1, <4>2, <4>5, <5>1 DEF ThreadActs, ThreadStep, Pop, PopStopped, CountSuccess, GiveBack,
               Exit, Answer
        <4>6. QED
          BY <4>3, <4>4, <4>5
      <3>3. QED
        BY <2>1, <2>2, <3>1, <3>2 DEF SufficesInv
    <2>3. CASE mpc = "join"
      <3>1. ASSUME reliable # {} PROVE success' = count'
        <4>1. success = count
          BY <1>0, <1>3, <2>3, <3>1 DEF SufficesInv
        <4>2. success' = success \/ success' = success + 1
          BY <1>9 DEF ThreadActs, ThreadStep, Pop, PopStopped, TakeCurl, CountSuccess, GiveBack, Exit, Unwind, Answer,
             RequestFails
        <4>3. success' \in 0..count' /\ count \in Nat
          <5>1. count \in Nat
            BY <1>0 DEF PoolInv, PoolTypeOK
          <5>2. success' \in 0..count'
            BY CountBoundNext
          <5>3. QED
            BY <5>1, <5>2
        <4>4. QED
          BY <2>1, <4>1, <4>2, <4>3
      <3>2. QED
        BY <2>1, <2>3, <3>1 DEF SufficesInv
    <2>4. QED
      BY <1>0, <2>1, <2>2, <2>3 DEF PoolInv, PoolTypeOK
  <1>10. CASE UNCHANGED allVars
    BY <1>0, <1>3, <1>10 DEF SufficesInv, allVars, processVars, caller, threads
  <1>11. QED
    BY <1>1, <1>5, <1>6, <1>7, <1>8, <1>9, <1>10, DownloadMoves

-----------------------------------------------------------------------------
(* The theorems *)

(* At the start nothing is cut, asked or stored. *)
LEMMA DownloadStart == DownloadInit => DownloadInv
  <1> SUFFICES ASSUME DownloadInit PROVE DownloadInv
    OBVIOUS
  <1>1. SegInv
    BY SegStart DEF DownloadInit
  <1>2. /\ mpc = "idle" /\ count = 0 /\ reliable = {} /\ pushed = 0
        /\ queue = <<>> /\ stopped = FALSE /\ result = FALSE
        /\ tpc = [t \in Threads |-> "gone"] /\ segment = [t \in Threads |-> 0]
        /\ curlIndex = [t \in Threads |-> None]
        /\ answers = {} /\ success = 0 /\ exited = 0 /\ unknown = 0
        /\ responses = <<>> /\ CountSegments <= MaxSegments
    BY DEF DownloadInit, ProcessInit
  <1>3. PoolTypeOK
    <2>1. queue \in Seq(1..pushed) /\ Len(queue) <= QueueSize /\ unknown \in 0..MaxUnknown
      BY <1>2, ThreadFacts
    <2>2. pushed \in 0..count /\ count \in Nat
      BY <1>2
    <2>3. /\ tpc \in [Threads -> {"pop", "ask", "request", "count", "failed", "exit", "gone"}]
          /\ segment \in [Threads -> 0..pushed] /\ curlIndex \in [Threads -> {None} \cup Nat]
          /\ answers \subseteq 1..pushed
      BY <1>2
    <2>4. QED
      BY <1>2, <2>1, <2>2, <2>3 DEF PoolTypeOK
  <1>4. PlaceInv /\ CurlInv
    BY <1>2 DEF PlaceInv, CurlInv, Busy
  <1>5. CountInv
    <2>1. Counted = {} /\ Gone = Threads
      BY <1>2 DEF Counted, Gone
    <2>2. QED
      BY <1>2, <2>1, FS_EmptySet, ThreadFacts DEF CountInv
  <1>6. StoreInv
    BY <1>2 DEF StoreInv
  <1>7. SufficesInv
    BY <1>2 DEF SufficesInv
  <1>8. QED
    BY <1>1, <1>3, <1>4, <1>5, <1>6, <1>7 DEF DownloadInv, PoolInv

(* DownloadInv is inductive. *)
LEMMA DownloadStep == DownloadInv /\ [DownloadNext]_allVars => DownloadInv'
  <1> SUFFICES ASSUME DownloadInv, [DownloadNext]_allVars PROVE DownloadInv'
    OBVIOUS
  <1>0. SegInv /\ PoolInv
    BY DEF DownloadInv
  <1>1. SegInv'
    <2>1. [Next]_vars
      BY DownloadMoves DEF Next, allVars
    <2>2. QED
      BY <1>0, <2>1, SegStep
  <1>2. PoolInv'
    <2>1. CASE UNCHANGED processVars
      <3>1. UNCHANGED <<mpc, count, reliable, pushed, stopped, result, queue, tpc, segment, curlIndex, answers,
                        success, exited, unknown>>
        BY <2>1 DEF processVars, caller, threads
      <3>2. PoolTypeOK' /\ PlaceInv'
        BY <1>0, <3>1 DEF PoolInv, PoolTypeOK, PlaceInv
      <3>3. CurlInv'
        BY <1>0, <3>1 DEF PoolInv, CurlInv, Used
      <3>4. CountInv'
        BY <1>0, <3>1 DEF PoolInv, CountInv, Counted, Gone
      <3>5. QED
        BY <3>2, <3>3, <3>4 DEF PoolInv
    <2>2. CASE Len(answer) = CountSegments /\ \E up \in SUBSET Servers : Call(Len(answer), up)
      <3>1. Len(answer) \in Nat \ {0}
        BY <1>0, <2>2, SegmentFacts
      <3>2. QED
        BY <1>0, <2>2, <3>1, CallPool
    <2>3. QED
      BY <1>0, <2>1, <2>2, DownloadMoves, PushPool, ReturnPool, ThreadPool DEF allVars
  <1>3. StoreInv'
    BY StoreStep
  <1>4. SufficesInv'
    BY <1>2, SufficesStep
  <1>5. QED
    BY <1>1, <1>2, <1>3, <1>4 DEF DownloadInv

(* DownloadInv is an invariant of the download. *)
LEMMA DownloadRight == DownloadSpec => []DownloadInv
  BY DownloadStart, DownloadStep, PTL DEF DownloadSpec

(* Every variable keeps its type; the queue stays within its size, although *)
(* threads give segments back while the caller still pushes.                *)
THEOREM DownloadTypes == DownloadSpec => []DownloadTypeOK
  <1>1. DownloadInv => DownloadTypeOK
    <2> SUFFICES ASSUME DownloadInv PROVE DownloadTypeOK
      OBVIOUS
    <2>1. SegInv /\ PoolInv /\ StoreInv /\ PoolTypeOK /\ CountInv
      BY DEF DownloadInv, PoolInv
    <2>2. SegmentsTypeOK /\ responses \in Seq(Seq(1..size))
      BY <2>1 DEF SegInv, StoreInv
    <2>3. /\ count \in Nat /\ pushed \in 0..count /\ queue \in Seq(1..pushed)
          /\ segment \in [Threads -> 0..pushed] /\ answers \subseteq 1..pushed
      BY <2>1 DEF PoolTypeOK
    <2>4. 1..pushed \subseteq Pieces /\ 0..pushed \subseteq 0..count
      BY <2>3 DEF Pieces
    <2>5. queue \in Seq(Pieces) /\ segment \in [Threads -> 0..count] /\ answers \subseteq Pieces
      BY <2>3, <2>4
    <2>6. count \in 0..MaxSegments
      <3>1. count = 0 \/ count <= MaxSegments
        BY <2>1 DEF StoreInv
      <3>2. QED
        BY <2>3, <3>1, ThreadFacts
    <2>7. success \in 0..count /\ exited \in 0..Cardinality(Threads)
      BY <2>1, CountFacts DEF CountInv
    <2>8. P2PTypeOK
      BY <2>1, <2>3, <2>5, <2>6, <2>7 DEF P2PTypeOK, PoolTypeOK
    <2>9. QED
      BY <2>2, <2>8 DEF DownloadTypeOK
  <1>2. QED
    BY <1>1, DownloadRight, PTL

(* For any number of threads and segments: a segment that was pushed is in  *)
(* the queue once, or in one hand, or answered; none is answered twice.     *)
THEOREM PlacesRight == DownloadSpec => []OnePlace
  <1>1. DownloadInv => OnePlace
    <2> SUFFICES ASSUME DownloadInv PROVE OnePlace
      OBVIOUS
    <2>1. PlaceInv
      BY DEF DownloadInv, PoolInv
    <2>2. ASSUME NEW s \in Pieces
          PROVE  /\ Cardinality(Held(s)) <= 1
                 /\ Waiting(s) => Held(s) = {} /\ s \notin answers
                 /\ s \in answers => \A t \in Held(s) : tpc[t] = "count"
      <3>1. s # 0
        BY DEF Pieces
      <3>2. Held(s) = {} \/ \E t \in Threads : Held(s) = {t}
        <4>1. \A t, u \in Held(s) : t = u
          BY <2>1, <3>1 DEF PlaceInv, Held
        <4>2. QED
          BY <4>1 DEF Held
      <3>3. Cardinality(Held(s)) <= 1
        <4>1. Cardinality(Held(s)) \in {0, 1}
          BY <3>2, FS_EmptySet, FS_Singleton
        <4>2. QED
          BY <4>1
      <3>4. Waiting(s) => Held(s) = {} /\ s \notin answers
        BY <2>1 DEF PlaceInv, Waiting, Held
      <3>5. s \in answers => \A t \in Held(s) : tpc[t] = "count"
        BY <2>1 DEF PlaceInv, Held
      <3>6. QED
        BY <3>3, <3>4, <3>5
    <2>3. QED
      BY <2>1, <2>2 DEF OnePlace, PlaceInv
  <1>2. QED
    BY <1>1, DownloadRight, PTL

(* For any number of servers and connections: two threads never use one     *)
(* connection at the same time, and the assertion "curl instance not found" *)
(* never fails.                                                             *)
THEOREM ConnectionsRight == DownloadSpec => []OwnConnection
  <1>1. DownloadInv => OwnConnection
    <2> SUFFICES ASSUME DownloadInv PROVE OwnConnection
      OBVIOUS
    <2>1. CurlInv /\ PoolTypeOK
      BY DEF DownloadInv, PoolInv
    <2>2. ASSUME NEW t \in Threads, tpc[t] = "failed"
          PROVE  curlIndex[t] < CountConnections
      <3>1. curlIndex[t] \in Nat /\ curlIndex[t] < Cardinality(Used(t))
        BY <2>1, <2>2 DEF CurlInv, PoolTypeOK
      <3>2. Used(t) \in SUBSET Threads /\ \A u \in Used(t) : u[1] = t[1]
        BY DEF Used
      <3>3. Cardinality(Used(t)) <= CountConnections /\ Cardinality(Used(t)) \in Nat /\ CountConnections \in Nat
        BY <3>2, ThreadFacts
      <3>4. QED
        BY <3>1, <3>3
    <2>3. \A t, u \in Threads :
            tpc[t] = "request" /\ tpc[u] = "request" /\ t # u /\ t[1] = u[1] => curlIndex[t] # curlIndex[u]
      BY <2>1 DEF CurlInv
    <2>4. QED
      BY <2>2, <2>3 DEF OwnConnection
  <1>2. QED
    BY <1>1, DownloadRight, PTL

(* For dumps and lists of any size, cut for any number of threads: when     *)
(* process says that it has succeeded, the joined answers are the dump,     *)
(* whichever server answered which part and in which order.                 *)
THEOREM DumpJoined == DownloadSpec => []JoinedIsDump
  <1>1. DownloadInv => JoinedIsDump
    <2> SUFFICES ASSUME DownloadInv, result PROVE Joined = dump
      BY DEF JoinedIsDump
    <2>1. SegInv /\ PoolInv /\ StoreInv
      BY DEF DownloadInv
    <2>2. /\ success = count /\ count # 0 /\ count = CountSegments /\ Len(answer) = count
          /\ Len(responses) = count /\ \A k \in answers : responses[k] = Bytes(answer[k])
      BY <2>1 DEF StoreInv
    <2>3. answers = 1..count
      BY <2>1, <2>2, CountFacts
    <2>4. QED
      BY <2>1, <2>2, <2>3, JoinedRight
  <1>2. QED
    BY <1>1, DownloadRight, PTL

(* One server that answers is enough, however many others fail and whenever *)
(* they do, unless an unknown exception has lost a segment or a part of the *)
(* dump looks like a message.                                               *)
THEOREM OneIsEnough == DownloadSpec => []OneServerSuffices
  <1>1. DownloadInv => OneServerSuffices
    BY DEF DownloadInv, SufficesInv, Plain, OneServerSuffices
  <1>2. QED
    BY <1>1, DownloadRight, PTL

(* The segments of a download are those of makeSegments: they tile the      *)
(* answer, none is empty, and a list is cut into single questions.          *)
THEOREM DownloadSegments == DownloadSpec => [](Tiled /\ NoEmptySegment /\ SingleQuestions)
  <1>1. DownloadInit => Init
    BY DEF DownloadInit
  <1>2. DownloadInv /\ [DownloadNext]_allVars => [Next]_vars
    BY DownloadMoves DEF Next, allVars
  <1>3. DownloadSpec => Spec
    BY <1>1, <1>2, DownloadRight, PTL DEF DownloadSpec, Spec
  <1>4. QED
    BY <1>3, SegmentsTile, SegmentsNonempty, QuestionsSingle, PTL
=============================================================================
