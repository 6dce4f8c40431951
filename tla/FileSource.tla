----------------------------- MODULE FileSource -----------------------------
(***************************************************************************)
(* FileBlockSource: new blocks are read from the block files of a folder   *)
(* (option get_blocks_from_file), to which another node appends meanwhile  *)
(* with saveBlockToFileBinary.  How far each file has been read is kept in *)
(* memory (allFiles) and, in the batch of each saved block, in the data    *)
(* base.                                                                   *)
(*                                                                         *)
(* A file is a sequence of dumps, a position the number of dumps before    *)
(* it; the files are numbered in the order of their names, the order in    *)
(* which they are written.  Block n has n - 1 as its parent.  The chain is *)
(* that of Sync as far as it matters here: it takes the block after the    *)
(* last one and refuses any other.                                         *)
(*                                                                         *)
(* The reading node is followed until it goes astray: it has loaded a data *)
(* base with a gap, or has taken bytes of two dumps for a block.  The      *)
(* option validate is off: the constructor of SyncImpl refuses the two     *)
(* together.                                                               *)
(***************************************************************************)
EXTENDS Integers, Sequences

CONSTANTS MaxWritten,   \* bound of the model: blocks that are written
          MaxFiles,     \* bound of the model: files of the folder
          MaxDeaths     \* bound of the model: how often either node dies

ASSUME FileSourceAssumption == {MaxWritten, MaxFiles, MaxDeaths} \subseteq Nat

VARIABLES
    folder,      \* the block files
    writer,      \* the other node: "idle", "part" in a dump, "whole" behind it
    written,     \* the blocks that the other node has saved
    allFiles,    \* FileBlockSource::allFiles: file -> position
    fileName,    \* the file that is open, or NoFile
    currPos,     \* the position in it
    inHand,      \* the block that process has returned
    chain,       \* countBlocks
    dbBlocks,    \* the blocks whose header is in the data base
    dbFiles,     \* the positions in the data base
    lost,        \* the blocks whose batch has failed
    at,          \* where synchronize is
    deaths       \* how often a node has died

writerVars == <<folder, writer, written>>
storedVars == <<dbBlocks, dbFiles, lost>>
readerVars == <<allFiles, fileName, currPos, inHand, chain, storedVars, at>>
fileVars   == <<writerVars, readerVars, deaths>>

NoFile == 0
Part   == 0                        \* a dump of which only a part is in the file
NoPos  == [f \in {} |-> 0]         \* no file is known

FileInit ==
    /\ folder = <<>> /\ writer = "idle" /\ written = 0
    /\ allFiles = NoPos /\ fileName = NoFile /\ currPos = 0
    /\ inHand = 0 /\ chain = 0
    /\ dbBlocks = {} /\ dbFiles = NoPos /\ lost = {}
    /\ at = "process"
    /\ deaths = 0

Dies == deaths < MaxDeaths /\ deaths' = deaths + 1

-----------------------------------------------------------------------------
(* The node that writes *)

LastFile == Len(folder)

(* The file of the next block is opened, and thereby made. *)
NewFile ==
    /\ writer = "idle"
    /\ Len(folder) < MaxFiles
    /\ folder # <<>> => folder[LastFile] # <<>>
    /\ folder' = Append(folder, <<>>)
    /\ UNCHANGED <<writer, written, readerVars, deaths>>

(* The length and the dump are streamed: a reader may see a part of them. *)
WriteBegins ==
    /\ writer = "idle"
    /\ folder # <<>>
    /\ written < MaxWritten
    /\ folder' = [folder EXCEPT ![LastFile] = Append(@, Part)]
    /\ writer' = "part"
    /\ UNCHANGED <<written, readerVars, deaths>>

WriteEnds ==
    /\ writer = "part"
    /\ folder' = [folder EXCEPT ![LastFile][Len(folder[LastFile])] = written + 1]
    /\ writer' = "whole"
    /\ UNCHANGED <<written, readerVars, deaths>>

WriterSaves ==
    /\ writer = "whole"
    /\ written' = written + 1
    /\ writer' = "idle"
    /\ UNCHANGED <<folder, readerVars, deaths>>

(* The dump stays as it is; the block is appended once more later. *)
WriterDies ==
    /\ writer # "idle"
    /\ Dies
    /\ writer' = "idle"
    /\ UNCHANGED <<folder, written, readerVars>>

-----------------------------------------------------------------------------
(* process *)

SetPos(files, f, p) == [g \in DOMAIN files \cup {f} |-> IF g = f THEN p ELSE files[g]]

\* Variant: a file that has been read to its end is taken again.
UnreadOrDone(f) == f \in DOMAIN allFiles => allFiles[f] <= Len(folder[f])

(* getNextFile: files that are new, or longer than what was read of them. *)
Unread(f) == f \in DOMAIN allFiles => allFiles[f] < Len(folder[f])

\* Variant: the directory is not sorted.
IsNextUnsorted(f) == Unread(f)

IsNext(f) == Unread(f) /\ \A g \in 1..(f - 1) : ~Unread(g)

OpenNext(f) ==
    /\ at = "process"
    /\ fileName = NoFile
    /\ IsNext(f)
    /\ fileName' = f
    /\ currPos' = IF f \in DOMAIN allFiles THEN allFiles[f] ELSE 0
    /\ UNCHANGED <<writerVars, allFiles, inHand, chain, storedVars, at, deaths>>

(* process returns false; synchronize calls it again half a second later. *)
NothingNew ==
    /\ at = "process"
    /\ fileName = NoFile
    /\ ~\E f \in 1..Len(folder) : Unread(f)
    /\ UNCHANGED fileVars

(* readNextBlockInfo *)
Whole == currPos < Len(folder[fileName]) /\ folder[fileName][currPos + 1] # Part

\* Variant: the position is stored as soon as the block is read.
ReadStores ==
    /\ at = "process"
    /\ fileName # NoFile
    /\ Whole
    /\ inHand' = folder[fileName][currPos + 1]
    /\ currPos' = currPos + 1
    /\ allFiles' = SetPos(allFiles, fileName, currPos')
    /\ dbFiles' = SetPos(dbFiles, fileName, currPos')
    /\ at' = "add"
    /\ UNCHANGED <<writerVars, fileName, chain, dbBlocks, lost, deaths>>

Read ==
    /\ at = "process"
    /\ fileName # NoFile
    /\ Whole
    /\ inHand' = folder[fileName][currPos + 1]
    /\ currPos' = currPos + 1
    /\ allFiles' = SetPos(allFiles, fileName, currPos')
    /\ at' = "add"
    /\ UNCHANGED <<writerVars, fileName, chain, storedVars, deaths>>

(* The end of the file, or a dump of which bytes are missing.  When other   *)
(* dumps have been appended to a part, their bytes make up its length.      *)
(* Either what is read cannot be parsed and process throws, again and again *)
(* at the same position ...                                                 *)
NotWhole ==
    /\ at = "process"
    /\ fileName # NoFile
    /\ ~Whole
    /\ fileName' = NoFile
    /\ UNCHANGED <<writerVars, allFiles, currPos, inHand, chain, storedVars, at, deaths>>

(* ... or it happens to be parsed.  Its hash is compared with nothing, so   *)
(* process returns it as a block, with a position inside the next dump.     *)
ReadMixed ==
    /\ at = "process"
    /\ fileName # NoFile
    /\ currPos + 1 < Len(folder[fileName])
    /\ folder[fileName][currPos + 1] = Part
    /\ at' = "astray"
    /\ UNCHANGED <<writerVars, allFiles, fileName, currPos, inHand, chain, storedVars, deaths>>

-----------------------------------------------------------------------------
(* synchronize, with a block in hand *)

AddBlock ==
    /\ at = "add"
    /\ inHand = chain + 1
    /\ chain' = chain + 1
    /\ at' = "save"
    /\ UNCHANGED <<writerVars, allFiles, fileName, currPos, inHand, storedVars, deaths>>

(* The exception of addBlock leads back to process, with the position       *)
(* behind the block.                                                        *)
Refuse ==
    /\ at = "add"
    /\ inHand # chain + 1
    /\ at' = "process"
    /\ UNCHANGED <<writerVars, allFiles, fileName, currPos, inHand, chain, storedVars, deaths>>

(* saveBlockToLeveldb: header and position in one batch. *)
Save ==
    /\ at = "save"
    /\ dbBlocks' = dbBlocks \cup {inHand}
    /\ dbFiles' = SetPos(dbFiles, fileName, currPos)
    /\ at' = "process"
    /\ UNCHANGED <<writerVars, allFiles, fileName, currPos, inHand, chain, lost, deaths>>

(* The batch fails.  The block stays on the chain, the position behind it,  *)
(* and the next batch stores that position without this header.             *)
SaveThrows ==
    /\ at = "save"
    /\ lost' = lost \cup {inHand}
    /\ at' = "process"
    /\ UNCHANGED <<writerVars, allFiles, fileName, currPos, inHand, chain, dbBlocks, dbFiles, deaths>>

-----------------------------------------------------------------------------
(* The process dies and starts again from the data base. *)

Holds(top) == dbBlocks = 1..top

BeginAgain ==
    /\ at # "astray"
    /\ Dies
    /\ allFiles' = dbFiles
    /\ fileName' = NoFile
    /\ currPos' = 0
    /\ inHand' = 0
    /\ UNCHANGED <<writerVars, storedVars>>

ReaderRestarts ==
    /\ BeginAgain
    /\ \E top \in 0..MaxWritten : Holds(top) /\ chain' = top
    /\ at' = "process"

(* A header is missing.  calcBlockchain throws, which ends synchronize, or  *)
(* takes the block above the gap for block 1 (see Sync).                    *)
LoadsGap ==
    /\ BeginAgain
    /\ ~\E top \in 0..MaxWritten : Holds(top)
    /\ chain' = 0
    /\ at' = "astray"

(* What a node does that has gone astray is not followed. *)
Astray == at = "astray" /\ UNCHANGED fileVars

-----------------------------------------------------------------------------
Writes == NewFile \/ WriteBegins \/ WriteEnds \/ WriterSaves \/ WriterDies

Reads ==
    \/ \E f \in 1..Len(folder) : OpenNext(f)
    \/ NothingNew \/ Read \/ NotWhole \/ AddBlock \/ Refuse \/ Save \/ Astray

ReaderFaults == ReadMixed \/ SaveThrows \/ ReaderRestarts \/ LoadsGap

FileNext == Writes \/ Reads \/ ReaderFaults

FileSpec == FileInit /\ [][FileNext]_fileVars

-----------------------------------------------------------------------------
Positions == UNION {[F -> 0..(MaxWritten + MaxDeaths)] : F \in SUBSET (1..MaxFiles)}

(* Every variable has its type; an open file is one of the folder. *)
FileTypeOK ==
    /\ Len(folder) <= MaxFiles
    /\ \A f \in 1..Len(folder) : \A k \in 1..Len(folder[f]) : folder[f][k] \in Part..MaxWritten
    /\ writer \in {"idle", "part", "whole"}
    /\ written \in 0..MaxWritten
    /\ allFiles \in Positions /\ dbFiles \in Positions
    /\ fileName \in NoFile..Len(folder)
    /\ currPos \in 0..(MaxWritten + MaxDeaths)
    /\ {inHand, chain} \subseteq 0..MaxWritten
    /\ dbBlocks \subseteq 1..MaxWritten /\ lost \subseteq 1..MaxWritten
    /\ at \in {"process", "add", "save", "astray"}
    /\ deaths \in 0..MaxDeaths

(* No position passes a block that is missing beside it, until the node     *)
(* goes astray: what lies before the positions in memory is on the chain or *)
(* in hand, and what lies before the positions in the data base has its     *)
(* header there, unless the batch of that very block has failed.  A part of *)
(* a dump is not passed.  So neither a restart nor the change of files,     *)
(* while the other node writes, loses a block whose batch did not fail.     *)
NothingSkipped ==
    at # "astray" =>
        /\ \A f \in DOMAIN allFiles : \A k \in 1..allFiles[f] :
            /\ folder[f][k] # Part
            /\ folder[f][k] <= chain \/ (at = "add" /\ folder[f][k] = inHand)
        /\ \A f \in DOMAIN dbFiles : \A k \in 1..dbFiles[f] :
            folder[f][k] \in dbBlocks \cup lost

(* A block is read only when its parent is on the chain, which would take   *)
(* an orphan for block 1 if it were empty.                                  *)
ReadInOrder == at = "add" => inHand <= chain + 1

(* The dumps that neither an unfinished dump nor an empty file lies before. *)
Reachable ==
    {folder[p[1]][p[2]] : p \in
        {p \in (1..Len(folder)) \X (1..(MaxWritten + MaxDeaths)) :
            /\ p[2] <= Len(folder[p[1]])
            /\ \A g \in 1..p[1] :
                /\ folder[g] # <<>>
                /\ \A j \in 1..Len(folder[g]) : (g < p[1] \/ j <= p[2]) => folder[g][j] # Part}}

(* In the end the chain has every block that was written, over restarts of  *)
(* both nodes, up to the first dump that its writer has left unfinished or  *)
(* the first file that it has left empty: nothing behind it is ever read,   *)
(* be it in another file.  Failed batches hold nothing up while the process *)
(* lives.  Excepted is the node that goes astray: it has been restarted     *)
(* from a data base with a gap that a failed batch left, or has read bytes  *)
(* of two dumps as one.                                                     *)
AllRead == <>[](at = "astray" \/ \A n \in 1..MaxWritten : n <= chain <=> n \in Reachable)
=============================================================================
