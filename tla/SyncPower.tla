----------------------------- MODULE SyncPower ------------------------------
(***************************************************************************)
(* Sync with power failures.  Every batch is written with default          *)
(* WriteOptions and the block file is only closed: nothing is synced, the  *)
(* operating system writes back when it likes.  A power failure takes each *)
(* of the three stores back to what had been written back of it, each on   *)
(* its own: the main data base (headers, metadata and the progress of the  *)
(* main worker share one log), the data base of the node tests, and the    *)
(* block file.                                                             *)
(***************************************************************************)
EXTENDS Sync

VARIABLE synced   \* what has been written back of each store

powerVars == <<vars, synced>>

(* A log is cut behind a batch: what is recovered is an earlier state. *)
MainStore == [headers |-> dbHeaders, pos |-> dbPos, meta |-> dbMeta, saved |-> saved["main"]]
Stores    == [main |-> MainStore, nodeTest |-> saved["nodeTest"], file |-> Len(file)]

PowerInit ==
    /\ Init
    /\ synced = Stores

NodeRuns == Next /\ UNCHANGED synced

(* The operating system writes back one of the stores. *)
WriteBack(store) ==
    /\ synced[store] # Stores[store]
    /\ synced' = [synced EXCEPT ![store] = Stores[store]]
    /\ UNCHANGED vars

(* The block file has no log and is cut anywhere: behind a dump that was    *)
(* written back, or inside the one after it, which leaves a part.           *)
PowerFailure ==
    /\ Spend("crash")
    /\ Reset
    /\ dbHeaders' = synced.main.headers
    /\ dbPos' = synced.main.pos
    /\ dbMeta' = synced.main.meta
    /\ saved' = [main |-> synced.main.saved, nodeTest |-> synced.nodeTest]
    /\ \E part \in {<<>>, <<Torn>>} :
          /\ part # <<>> => synced.file < Len(file)
          /\ file' = SubSeq(file, 1, synced.file) \o part
    /\ UNCHANGED synced

PowerNext ==
    \/ NodeRuns
    \/ \E store \in DOMAIN Stores : WriteBack(store)
    \/ PowerFailure

PowerSpec == PowerInit /\ [][PowerNext]_powerVars

(* As in Sync; nothing is assumed of the writing back. *)
PowerFairSpec == PowerSpec /\ Fairness

-----------------------------------------------------------------------------
(* One death or power failure, and no other fault. *)
OneFailure ==
    \A kind \in FaultKinds : Happened(kind) => kind = "crash" /\ budget[kind] + 1 = Budget[kind]

(* One power failure, and no other fault, never stops the synchronisation:  *)
(* whichever of the stores was thrown back further, the chain grows again   *)
(* to the last block of the servers and every worker to the same number,    *)
(* also one that was ahead of the chain.  It is about numbers: what the     *)
(* file holds at the positions of old headers is not said to be right.      *)
(* When the headers were written back and the file was not, new dumps are   *)
(* appended where those positions lie, and getBlockDump serves the dump of  *)
(* another block from then on; no worker is fed it before the next start.   *)
EventuallyRecovered == <>[](OneFailure => CaughtUp)

(* The headers in the data base are a chain that ends in the block of the   *)
(* metadata.                                                                *)
HeadersLinked ==
    /\ dbMeta.blockHash \in dbHeaders \cup {NoHash}
    /\ \A h \in dbHeaders : prevHash[h] \in dbHeaders \cup {Genesis}
    /\ \A h \in dbHeaders : h = dbMeta.blockHash \/ \E c \in dbHeaders : prevHash[c] = h

(* The main worker has never saved a block that the data base, whose log    *)
(* holds its progress too, does not have the parent of.                     *)
MainHasParent ==
    saved["main"].hash # NoHash => prevHash[saved["main"].hash] \in dbHeaders \cup {Genesis}

(* What a power failure leaves is a chain, and the main worker is not ahead *)
(* of it by more than one block; from then on the data base is again the    *)
(* chain.                                                                   *)
LeftIsChain ==
    /\ DbIsChain
    /\ pc = "start" => HeadersLinked /\ MainHasParent
=============================================================================
