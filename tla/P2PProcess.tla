----------------------------- MODULE P2PProcess -----------------------------
(***************************************************************************)
(* P2P::process with the request function of P2P_Ips::requestImpl: one     *)
(* thread per connection takes segments from a shared queue, asks its      *)
(* server and writes the answer into the place of the segment; the caller  *)
(* waits until all segments are answered or all threads have gone.         *)
(*                                                                         *)
(* The calls come one after the other, all from the synchronisation        *)
(* thread.  BlockedQueue is external: push blocks while the queue is full, *)
(* pop blocks while it is empty and not stopped.                           *)
(*                                                                         *)
(* A segment is known here by its place, counted from 1; module Download   *)
(* puts makeSegments before this module and the servers' answers beside    *)
(* it, and has the specification.                                          *)
(***************************************************************************)
EXTENDS Integers, FiniteSets, Sequences

CONSTANTS Servers,           \* hintsServers
          CountConnections,  \* connections to every server
          MaxSegments,       \* bound of the model: segments of one call
          QueueSize,         \* the size of the queue, 1000 in the code
          MaxUnknown         \* bound of the model: exceptions that are not common::exception

ASSUME P2PAssumption ==
    /\ IsFiniteSet(Servers) /\ Servers # {}
    /\ {CountConnections, MaxSegments, QueueSize} \subseteq Nat \ {0}
    /\ MaxUnknown \in Nat

VARIABLES
    mpc,        \* where the caller is
    count,      \* segments.size()
    reliable,   \* the servers that answer all requests of this call
    pushed,     \* how many of them have been pushed
    queue,      \* blockedQueue
    stopped,    \* blockedQueue.stop() was called
    result,     \* what process returned
    tpc,        \* where each thread is
    segment,    \* the segment that a thread has in hand
    curlIndex,  \* curlsDistribution: the connection of a thread
    answers,    \* the segments whose answer is written
    success,    \* countSuccessRequests
    exited,     \* countExitThreads
    unknown     \* the exceptions of other kinds so far

caller == <<mpc, count, reliable, pushed, stopped, result>>
threads == <<tpc, segment, curlIndex>>
processVars == <<caller, queue, threads, answers, success, exited, unknown>>

(* getServersList: every server once per connection. *)
Threads  == Servers \X (1..CountConnections)
Pieces   == 1..count
None     == -1

ProcessInit ==
    /\ mpc = "idle" /\ count = 0 /\ reliable = {} /\ pushed = 0
    /\ queue = <<>> /\ stopped = FALSE /\ result = FALSE
    /\ tpc = [t \in Threads |-> "gone"]
    /\ segment = [t \in Threads |-> 0]
    /\ curlIndex = [t \in Threads |-> None]
    /\ answers = {} /\ success = 0 /\ exited = 0
    /\ unknown = 0

-----------------------------------------------------------------------------
(* The caller *)

Call(n, up) ==
    /\ mpc = "idle"
    /\ mpc' = "push" /\ count' = n /\ reliable' = up /\ pushed' = 0
    /\ queue' = <<>> /\ stopped' = FALSE /\ result' = FALSE
    /\ tpc' = [t \in Threads |-> "pop"]
    /\ segment' = [t \in Threads |-> 0]
    /\ curlIndex' = [t \in Threads |-> None]
    /\ answers' = {} /\ success' = 0 /\ exited' = 0
    /\ UNCHANGED unknown

Push ==
    /\ mpc = "push"
    /\ Len(queue) < QueueSize
    /\ queue' = Append(queue, pushed + 1)
    /\ pushed' = pushed + 1
    /\ mpc' = IF pushed' = count THEN "wait" ELSE "push"
    /\ UNCHANGED <<count, reliable, stopped, result, threads, answers, success, exited, unknown>>

\* Variant: one thread that has gone ends the call.
WokenByOne == success = count \/ exited > 0

(* The predicate of conditionWait. *)
Woken == success = count \/ exited = Cardinality(Threads)

Stop ==
    /\ mpc = "wait"
    /\ Woken
    /\ stopped' = TRUE
    /\ mpc' = "join"
    /\ UNCHANGED <<count, reliable, pushed, result, queue, threads, answers, success, exited, unknown>>

Return ==
    /\ mpc = "join"
    /\ \A t \in Threads : tpc[t] = "gone"
    /\ result' = (success = count)
    /\ mpc' = "idle"
    /\ UNCHANGED <<count, reliable, pushed, stopped, queue, threads, answers, success, exited, unknown>>

-----------------------------------------------------------------------------
(* A thread *)

Pop(t) ==
    /\ tpc[t] = "pop"
    /\ ~stopped
    /\ queue # <<>>
    /\ segment' = [segment EXCEPT ![t] = Head(queue)]
    /\ queue' = Tail(queue)
    /\ tpc' = [tpc EXCEPT ![t] = "ask"]
    /\ UNCHANGED <<caller, curlIndex, answers, success, exited, unknown>>

PopStopped(t) ==
    /\ tpc[t] = "pop"
    /\ stopped
    /\ tpc' = [tpc EXCEPT ![t] = "exit"]
    /\ UNCHANGED <<caller, queue, segment, curlIndex, answers, success, exited, unknown>>

\* Variant: the connections are counted over all servers.
UsedOverall(t) == {u \in Threads : curlIndex[u] # None}

(* The entries of curlDist, the map of the server of t. *)
Used(t) == {u \in Threads : u[1] = t[1] /\ curlIndex[u] # None}

(* requestFunction up to the request: the thread gets its connection.  The  *)
(* size on the right of the assignment is read before the entry is made.    *)
TakeCurl(t) ==
    /\ tpc[t] = "ask"
    /\ curlIndex' = [curlIndex EXCEPT ![t] =
                        IF @ = None THEN Cardinality(Used(t)) ELSE @]
    /\ tpc' = [tpc EXCEPT ![t] = IF curlIndex'[t] < CountConnections THEN "request" ELSE "failed"]
    /\ UNCHANGED <<caller, queue, segment, answers, success, exited, unknown>>

Answer(t) ==
    /\ tpc[t] = "request"
    /\ answers' = answers \cup {segment[t]}
    /\ tpc' = [tpc EXCEPT ![t] = "count"]
    /\ UNCHANGED <<caller, queue, segment, curlIndex, success, exited, unknown>>

(* No answer, one that does not parse, or one of another size. *)
RequestFails(t) ==
    /\ tpc[t] = "request"
    /\ tpc' = [tpc EXCEPT ![t] = "failed"]
    /\ UNCHANGED <<caller, queue, segment, curlIndex, answers, success, exited, unknown>>

CountSuccess(t) ==
    /\ tpc[t] = "count"
    /\ success' = success + 1
    /\ segment' = [segment EXCEPT ![t] = 0]
    /\ tpc' = [tpc EXCEPT ![t] = "pop"]
    /\ UNCHANGED <<caller, queue, curlIndex, answers, exited, unknown>>

\* Variant: the segment is not pushed back.
GiveBackNot(t) ==
    /\ tpc[t] = "failed"
    /\ segment' = [segment EXCEPT ![t] = 0]
    /\ tpc' = [tpc EXCEPT ![t] = "exit"]
    /\ UNCHANGED <<caller, queue, curlIndex, answers, success, exited, unknown>>

\* Variant: the segment is pushed back without waiting for room.
GiveBackAtOnce(t) ==
    /\ tpc[t] = "failed"
    /\ queue' = Append(queue, segment[t])
    /\ segment' = [segment EXCEPT ![t] = 0]
    /\ tpc' = [tpc EXCEPT ![t] = "exit"]
    /\ UNCHANGED <<caller, curlIndex, answers, success, exited, unknown>>

\* Variant: the segment is pushed back and the thread tries again as well.
GiveBackAndRetry(t) ==
    /\ tpc[t] = "failed"
    /\ Len(queue) < QueueSize
    /\ queue' = Append(queue, segment[t])
    /\ tpc' = [tpc EXCEPT ![t] = "request"]
    /\ UNCHANGED <<caller, segment, curlIndex, answers, success, exited, unknown>>

(* catch (const exception &) *)
GiveBack(t) ==
    /\ tpc[t] = "failed"
    /\ Len(queue) < QueueSize
    /\ queue' = Append(queue, segment[t])
    /\ segment' = [segment EXCEPT ![t] = 0]
    /\ tpc' = [tpc EXCEPT ![t] = "exit"]
    /\ UNCHANGED <<caller, curlIndex, answers, success, exited, unknown>>

(* Any other exception, or one of makeQsAndPost, which is called outside    *)
(* the inner try: nobody pushes the segment back.                           *)
Unwind(t) ==
    /\ tpc[t] \in {"ask", "request"}
    /\ unknown < MaxUnknown
    /\ unknown' = unknown + 1
    /\ segment' = [segment EXCEPT ![t] = 0]
    /\ tpc' = [tpc EXCEPT ![t] = "exit"]
    /\ UNCHANGED <<caller, queue, curlIndex, answers, success, exited>>

Exit(t) ==
    /\ tpc[t] = "exit"
    /\ exited' = exited + 1
    /\ tpc' = [tpc EXCEPT ![t] = "gone"]
    /\ UNCHANGED <<caller, queue, segment, curlIndex, answers, success, unknown>>

-----------------------------------------------------------------------------
CallerStep == Push \/ Stop \/ Return

(* The steps of a thread around its request. *)
ThreadStep(t) ==
    Pop(t) \/ PopStopped(t) \/ TakeCurl(t) \/ CountSuccess(t) \/ GiveBack(t) \/ Exit(t) \/ Unwind(t)

-----------------------------------------------------------------------------
(* Every variable has its type; the queue never exceeds its size. *)
P2PTypeOK ==
    /\ mpc \in {"idle", "push", "wait", "join"}
    /\ count \in 0..MaxSegments
    /\ reliable \subseteq Servers
    /\ pushed \in 0..count
    /\ queue \in Seq(Pieces) /\ Len(queue) <= QueueSize
    /\ stopped \in BOOLEAN /\ result \in BOOLEAN
    /\ tpc \in [Threads -> {"pop", "ask", "request", "count", "failed", "exit", "gone"}]
    /\ segment \in [Threads -> 0..count]
    /\ curlIndex \in [Threads -> {None} \cup Nat]
    /\ answers \subseteq Pieces
    /\ success \in 0..count
    /\ exited \in 0..Cardinality(Threads)
    /\ unknown \in 0..MaxUnknown

Waiting(s) == \E k \in 1..Len(queue) : queue[k] = s
Held(s)    == {t \in Threads : segment[t] = s}

(* A segment that was pushed is in one place at a time: it waits in the     *)
(* queue once, or one thread has it in hand, or it is answered and no       *)
(* thread asks for it again: two threads never write the same answer.       *)
OnePlace ==
    /\ \A j, k \in 1..Len(queue) : queue[j] = queue[k] => j = k
    /\ \A s \in Pieces :
        /\ Cardinality(Held(s)) <= 1
        /\ Waiting(s) => Held(s) = {} /\ s \notin answers
        /\ s \in answers => \A t \in Held(s) : tpc[t] = "count"

(* Two threads never use one connection at the same time, and no thread     *)
(* runs out of connections (the assertion "curl instance not found").       *)
OwnConnection ==
    /\ \A t \in Threads : tpc[t] = "failed" => curlIndex[t] < CountConnections
    /\ \A t, u \in Threads :
        tpc[t] = "request" /\ tpc[u] = "request" /\ t # u /\ t[1] = u[1]
            => curlIndex[t] # curlIndex[u]
=============================================================================
