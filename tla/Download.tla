------------------------------ MODULE Download ------------------------------
(***************************************************************************)
(* P2P_Ips::requestImpl as a whole: a request is cut into segments (module *)
(* Segments), the threads of process fetch them from several servers at    *)
(* once (module P2PProcess), each server answers its part out of its cache *)
(* or out of its block file, and the answers are joined in their order.    *)
(*                                                                         *)
(* With minSize = MIN_RESPONSE_SIZE it is the download of one dump, which  *)
(* has the bytes 1, 2, ... size; with minSize = 1 it is a list of size     *)
(* questions, and the answer to question k is k.  The same request may be  *)
(* made again and again.                                                   *)
(***************************************************************************)
EXTENDS Segments, P2PProcess

SX == INSTANCE SequencesExt

CONSTANT Braced     \* the parts [from, to] whose answer begins with "{" and ends with "}"

ASSUME DownloadAssumption == Braced \subseteq Nat \X Nat

VARIABLE responses  \* `answers` of requestImpl: for each segment the bytes received

allVars == <<vars, processVars, responses>>

DownloadInit ==
    /\ Init
    /\ servers = Cardinality(Threads)     \* requestServers.size()
    /\ CountSegments <= MaxSegments
    /\ ProcessInit
    /\ responses = <<>>

-----------------------------------------------------------------------------
(* The other side: SyncImpl::getBlockDump of the server that is asked *)

dump == [k \in 1..size |-> k]

(* substr of the cached dump *)
FromCache(s) == SubSeq(dump, s.fromByte + 1, s.toByte)

(* getBlockDump of BlockchainRead, which reads the size of the block first *)
FromFile(s) ==
    IF s.fromByte >= size THEN <<>>
    ELSE SubSeq(dump, s.fromByte + 1, IF s.toByte > size THEN size ELSE s.toByte)

-----------------------------------------------------------------------------
(* requestImpl *)

Cutting == (Cut \/ Last) /\ UNCHANGED <<processVars, responses>>

(* P2P::process is called.  Which servers answer is fixed for the call. *)
Request(up) ==
    /\ Len(answer) = CountSegments
    /\ Call(Len(answer), up)
    /\ responses' = [k \in 1..Len(answer) |-> <<>>]
    /\ UNCHANGED vars

Processing == CallerStep /\ UNCHANGED <<vars, responses>>

InHand(t) == answer[segment[t]]

(* parseDumpBlockResponse takes a short answer in braces for the message of *)
(* an error: a part of a dump, or the dumps that answer one question of a   *)
(* list.                                                                    *)
LooksLikeJson(s) == <<s.fromByte, s.toByte>> \in Braced

(* isPrecisionSize *)
SizeFits(s, bytes) == minSize # 1 => Len(bytes) = s.toByte - s.fromByte

\* Variant: the answers are stored in the order in which they come.
PlaceByArrival(t) == Cardinality(answers) + 1

(* answers.at(segment.posInArray) *)
Place(t) == InHand(t).posInArray + 1

(* The response is stored. *)
Respond(t) ==
    /\ tpc[t] = "request"
    /\ \E bytes \in {FromCache(InHand(t)), FromFile(InHand(t))} :
        /\ SizeFits(InHand(t), bytes)
        /\ ~LooksLikeJson(InHand(t))
        /\ responses' = [responses EXCEPT ![Place(t)] = bytes]
    /\ Answer(t)
    /\ UNCHANGED vars

(* The server fails, or the answer is refused. *)
NoResponse(t) ==
    /\ tpc[t] = "request"
    /\ \/ t[1] \notin reliable
       \/ LooksLikeJson(InHand(t))
       \/ \E bytes \in {FromCache(InHand(t)), FromFile(InHand(t))} : ~SizeFits(InHand(t), bytes)
    /\ RequestFails(t)
    /\ UNCHANGED <<vars, responses>>

Working(t) == ThreadStep(t) /\ UNCHANGED <<vars, responses>>

-----------------------------------------------------------------------------
Caller == Cutting \/ (\E up \in SUBSET Servers : Request(up)) \/ Processing

Thread(t) == Respond(t) \/ NoResponse(t) \/ Working(t)

DownloadNext == Caller \/ \E t \in Threads : Thread(t)

DownloadSpec == DownloadInit /\ [][DownloadNext]_allVars

(* The caller and the threads run on, and every request ends: Curl::request *)
(* is called with a time limit of 5 seconds.                                *)
DownloadFairSpec ==
    DownloadSpec /\ WF_allVars(Caller) /\ \A t \in Threads : WF_allVars(Thread(t))

-----------------------------------------------------------------------------
(* What request returns. *)
Joined == SX!FlattenSeq(responses)

(* Every variable of the three modules has its type. *)
DownloadTypeOK ==
    /\ SegmentsTypeOK
    /\ P2PTypeOK
    /\ responses \in Seq(Seq(1..size))

(* When process says that it has succeeded, the answers joined in the order *)
(* of the array are the dump, or the answers to the questions in the order  *)
(* of the questions: whichever server answered which part, from its cache   *)
(* or from its file, in which order and after how many failures.            *)
JoinedIsDump == result => Joined = dump

(* One server that answers is enough: a call to which only that server      *)
(* answers, the others failing at any moment, ends with every segment       *)
(* answered, unless an unknown exception has lost one or the answer to one  *)
(* looks like a message.                                                    *)
OneServerSuffices ==
    /\ mpc = "idle" /\ reliable # {} /\ unknown = 0
    /\ ~\E k \in 1..Len(answer) : LooksLikeJson(answer[k])
    => result

(* Every call returns, whatever the servers do, as long as all exceptions   *)
(* are of the kind that pushes the segment back and the queue has room for  *)
(* all segments.                                                            *)
EveryCallReturns ==
    []<>(mpc = "idle" \/ unknown > 0 \/ count > QueueSize)
=============================================================================
