---------------------------- MODULE BlockSource -----------------------------
(***************************************************************************)
(* The source of new blocks that SyncImpl::initialize creates: the servers *)
(* (BlockFetch) or, with the option get_blocks_from_file, the block files  *)
(* (FileSource).  The choice is made once and the other source sleeps.     *)
(***************************************************************************)
EXTENDS BlockFetch, FileSource

VARIABLE getBlocksFromFile   \* the option

sourceVars == <<vars, fileVars, getBlocksFromFile>>

SourceInit ==
    /\ getBlocksFromFile \in BOOLEAN
    /\ Init /\ (getBlocksFromFile => ~isVerifySign)
    /\ FileInit

Sleeps(source) == UNCHANGED <<source, getBlocksFromFile>>

NetworkSteps  == ~getBlocksFromFile /\ Step /\ Sleeps(fileVars)
NetworkFaults == ~getBlocksFromFile /\ (HeaderFails \/ DumpFails) /\ Sleeps(fileVars)
FileSteps     == getBlocksFromFile /\ Reads /\ Sleeps(vars)
FileFaults    == getBlocksFromFile /\ (Writes \/ ReaderFaults) /\ Sleeps(vars)

SourceNext == NetworkSteps \/ NetworkFaults \/ FileSteps \/ FileFaults

SourceSpec == SourceInit /\ [][SourceNext]_sourceVars

(* The synchronisation thread runs on, and every request ends:              *)
(* Curl::request has a time limit.  Asked again and again, some server      *)
(* names the last block.  Nothing is assumed of the node that writes.       *)
SourceFairSpec ==
    /\ SourceSpec
    /\ WF_sourceVars(NetworkSteps) /\ WF_sourceVars(FileSteps)
    /\ SF_sourceVars(/\ ~getBlocksFromFile
                     /\ \E s \in Servers : ServerSays(s, MaxBlock)
                     /\ Sleeps(fileVars))

-----------------------------------------------------------------------------
(* Every variable of either source has its type. *)
SourceTypeOK == FetchTypeOK /\ FileTypeOK /\ getBlocksFromFile \in BOOLEAN

(* No block is handed to the chain before its parent is there, by either    *)
(* source: see NeverAhead and ReadInOrder.                                  *)
ParentsFirst == NeverAhead /\ ReadInOrder

(* From the servers every block comes in the end: see AllFetched. *)
ServersBringAll == getBlocksFromFile \/ AllFetched

(* From the files every block comes in the end that can be reached in them: *)
(* see AllRead.                                                             *)
FilesBringAll == ~getBlocksFromFile \/ AllRead
=============================================================================
