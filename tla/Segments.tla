------------------------------ MODULE Segments ------------------------------
(***************************************************************************)
(* How P2P_Ips::requestImpl cuts a request into segments: the number of    *)
(* them and the loop of P2P::makeSegments.  request cuts a dump of         *)
(* responseSize bytes into segments of at least MIN_RESPONSE_SIZE bytes;   *)
(* requests cuts a list of responseSize questions into single ones.        *)
(***************************************************************************)
EXTENDS Integers, Sequences

CONSTANTS MaxSize,          \* bound of the model: responseSize
          MinResponseSize,  \* MIN_RESPONSE_SIZE, 1000 in the code
          MaxServers        \* bound of the model: requestServers.size()

ASSUME SegmentsAssumption ==
    {MaxSize, MinResponseSize, MaxServers} \subseteq Nat \ {0}

VARIABLES size, minSize, servers,  \* the arguments
          i, prevByte, answer      \* the locals of makeSegments

vars == <<size, minSize, servers, i, prevByte, answer>>

Least(a, b)    == IF a < b THEN a ELSE b
Greatest(a, b) == IF a > b THEN a ELSE b

\* Variant: the number of segments is rounded up once more.
CountSegmentsMore ==
    IF minSize = 1 THEN size ELSE Least(size \div minSize + 1, servers)

CountSegments ==
    IF minSize = 1 THEN size ELSE Least((size + minSize - 1) \div minSize, servers)

\* Variant: one segment too many is reckoned with, and no least size.
StepPlain == size \div (CountSegments + 1)

Step == Least(size, Greatest(size \div CountSegments, minSize))

Segment(from, to, pos) == [fromByte |-> from, toByte |-> to, posInArray |-> pos]

Init ==
    /\ size \in 1..MaxSize
    /\ minSize \in {1, MinResponseSize}
    /\ servers \in 1..MaxServers
    /\ i = 0 /\ prevByte = 0 /\ answer = <<>>

NextByte == Least(prevByte + Step, size)

Cut ==
    /\ i < CountSegments - 1
    /\ answer' = Append(answer, Segment(prevByte, NextByte, i))
    /\ prevByte' = NextByte
    /\ i' = i + 1
    /\ UNCHANGED <<size, minSize, servers>>

\* Variant: the last segment is as long as the others.
LastOfOneStep ==
    /\ i = CountSegments - 1
    /\ answer' = Append(answer, Segment(prevByte, prevByte + Step, i))
    /\ prevByte' = size
    /\ i' = i + 1
    /\ UNCHANGED <<size, minSize, servers>>

Last ==
    /\ i = CountSegments - 1
    /\ answer' = Append(answer, Segment(prevByte, size, i))
    /\ prevByte' = size
    /\ i' = i + 1
    /\ UNCHANGED <<size, minSize, servers>>

Next == Cut \/ Last

Spec == Init /\ [][Next]_vars

-----------------------------------------------------------------------------
(* Every variable has its type. *)
SegmentsTypeOK ==
    /\ size \in 1..MaxSize
    /\ minSize \in {1, MinResponseSize}
    /\ servers \in 1..MaxServers
    /\ i \in 0..CountSegments
    /\ prevByte \in 0..size
    /\ answer \in Seq([fromByte : 0..size, toByte : 0..size, posInArray : 0..size])

(* The segments tile the answer: each begins where the one before it ends,  *)
(* its place in the array is its place in the order, and the last one ends  *)
(* at the size.  Joining the answers in the order of the array, as request  *)
(* does, gives the whole dump.                                              *)
Tiled ==
    /\ \A k \in 1..Len(answer) :
        /\ answer[k].posInArray = k - 1
        /\ answer[k].fromByte = IF k = 1 THEN 0 ELSE answer[k - 1].toByte
    /\ Len(answer) = CountSegments => answer[Len(answer)].toByte = size

Nonempty(s) == s.fromByte < s.toByte

(* No segment is empty: a server is never asked for zero bytes, although    *)
(* the number of segments and the step are rounded in different directions. *)
NoEmptySegment == \A k \in 1..Len(answer) : Nonempty(answer[k])

(* A list of questions is cut into single questions, as the assertion       *)
(* "Incorrect call makeQsAndPortFunc" of requests says.                     *)
SingleQuestions ==
    minSize = 1 => \A k \in 1..Len(answer) : answer[k].toByte = answer[k].fromByte + 1
=============================================================================
