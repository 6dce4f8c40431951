-------------------------- MODULE FileSourceProofs --------------------------
(***************************************************************************)
(* Proofs about FileSource: a node that reads block files while another    *)
(* one appends to them, for any number of files and blocks, for any number *)
(* of deaths of either of them, and whatever batches fail.                 *)
(***************************************************************************)
EXTENDS FileSource, TLAPS

MaxPos == MaxWritten + MaxDeaths

(* Place (g, j) lies before place (f, k) in the folder. *)
Before(g, j, f, k) == g < f \/ (g = f /\ j < k)

FolderTypeOK ==
    /\ folder \in Seq(Seq(0..MaxWritten))
    /\ Len(folder) <= MaxFiles
    /\ \A f \in 1..Len(folder) :
          Len(folder[f]) <= written + deaths + (IF writer = "idle" THEN 0 ELSE 1)
    /\ writer \in {"idle", "part", "whole"}
    /\ written \in 0..MaxWritten
    /\ deaths \in 0..MaxDeaths

(* The node that writes: the dump it is at is the last of the folder, and   *)
(* behind the dump of a block lies no first dump of a later one but that of *)
(* the next.                                                                *)
WriterInv ==
    /\ writer # "idle" => folder # <<>> /\ folder[LastFile] # <<>> /\ written < MaxWritten
    /\ writer = "part" => folder[LastFile][Len(folder[LastFile])] = Part
    /\ writer = "whole" => folder[LastFile][Len(folder[LastFile])] = written + 1
    /\ written > 0 => \E g \in 1..Len(folder) : \E j \in 1..Len(folder[g]) : folder[g][j] = written
    /\ \A f \in 1..Len(folder) : \A k \in 1..Len(folder[f]) :
          folder[f][k] > 1 => \E g \in 1..Len(folder) : \E j \in 1..Len(folder[g]) :
                                  Before(g, j, f, k) /\ folder[g][j] = folder[f][k] - 1

(* Positions of files that lie within the folder fs. *)
Within(files, fs) ==
    \A f \in DOMAIN files : f \in 1..Len(fs) /\ files[f] \in 0..Len(fs[f])

(* What lies before the positions of memory, and of the data base. *)
ReadSoFar(files, fs, top, hand) ==
    \A f \in DOMAIN files : \A k \in 1..files[f] :
        fs[f][k] # Part /\ (fs[f][k] <= top \/ fs[f][k] = hand)

(* The files before the one that is open have been read to their end. *)
Opened(files, fs, name, p) ==
    name # NoFile =>
        /\ name \in 1..Len(fs)
        /\ p = IF name \in DOMAIN files THEN files[name] ELSE 0
        /\ \A g \in 1..(name - 1) : g \in DOMAIN files /\ files[g] = Len(fs[g])

ReaderInv ==
    /\ allFiles \in Positions /\ dbFiles \in Positions
    /\ fileName \in 0..MaxFiles
    /\ currPos \in 0..MaxPos
    /\ {inHand, chain} \subseteq 0..MaxWritten
    /\ dbBlocks \subseteq 1..MaxWritten /\ lost \subseteq 1..MaxWritten
    /\ at \in {"process", "add", "save", "astray"}
    /\ Within(allFiles, folder) /\ Within(dbFiles, folder)
    /\ Opened(allFiles, folder, fileName, currPos)
    /\ at \in {"add", "save"} => fileName # NoFile /\ fileName \in DOMAIN allFiles
    /\ at = "add" => inHand # Part /\ inHand <= chain + 1
    /\ at = "save" => inHand = chain /\ chain >= 1
    /\ at # "astray" => ReadSoFar(allFiles, folder, chain, IF at = "add" THEN inHand ELSE Part)

(* The last block of the chain whose batch has been tried. *)
Tried == IF at = "save" THEN chain - 1 ELSE chain

(* The positions of the data base pass no block above its last one; of the  *)
(* blocks of the chain it lacks only those whose batch has failed.          *)
StoredInv ==
    /\ \E m \in dbBlocks \cup {0} : ReadSoFar(dbFiles, folder, m, Part)
    /\ at # "astray" => dbBlocks \subseteq 1..Tried /\ 1..Tried \subseteq dbBlocks \cup lost

FileInv == FolderTypeOK /\ WriterInv /\ ReaderInv /\ StoredInv

-----------------------------------------------------------------------------
(* The folder *)

(* What the node that writes does to the folder: files grow at their end,   *)
(* and only the last one; whole dumps stay.                                 *)
Grows(fs, gs) ==
    /\ Len(gs) >= Len(fs)
    /\ \A f \in 1..Len(fs) :
          /\ f < Len(fs) => gs[f] = fs[f]
          /\ Len(gs[f]) >= Len(fs[f])
          /\ \A k \in 1..Len(fs[f]) : fs[f][k] # Part => gs[f][k] = fs[f][k]

(* What Append gives. *)
LEMMA AppendIs ==
    ASSUME NEW S, NEW l \in Seq(S), NEW x \in S
    PROVE  /\ Append(l, x) \in Seq(S)
           /\ Len(l) \in Nat
           /\ Len(Append(l, x)) = Len(l) + 1
           /\ Append(l, x)[Len(l) + 1] = x
           /\ \A i \in 1..Len(l) : Append(l, x)[i] = l[i]
  OBVIOUS

(* What a sequence has. *)
LEMMA SeqIs ==
    ASSUME NEW S, NEW l \in Seq(S)
    PROVE  Len(l) \in Nat /\ \A i \in 1..Len(l) : l[i] \in S
  OBVIOUS

(* The types that the proofs below keep needing. *)
LEMMA FolderFacts ==
    ASSUME FolderTypeOK
    PROVE  /\ MaxWritten \in Nat /\ MaxFiles \in Nat /\ MaxDeaths \in Nat /\ MaxPos \in Nat
           /\ Len(folder) \in Nat
           /\ \A f \in 1..Len(folder) : /\ folder[f] \in Seq(0..MaxWritten)
                                        /\ Len(folder[f]) \in Nat
                                        /\ \A k \in 1..Len(folder[f]) : folder[f][k] \in 0..MaxWritten
  <1>1. {MaxWritten, MaxFiles, MaxDeaths} \subseteq Nat
    BY FileSourceAssumption
  <1>2. folder \in Seq(Seq(0..MaxWritten)) /\ Len(folder) \in Nat
    BY DEF FolderTypeOK
  <1>3. \A f \in 1..Len(folder) : folder[f] \in Seq(0..MaxWritten)
    BY <1>2
  <1>4. \A s \in Seq(0..MaxWritten) : Len(s) \in Nat /\ \A k \in 1..Len(s) : s[k] \in 0..MaxWritten
    BY SeqIs
  <1>5. MaxPos \in Nat
    BY <1>1 DEF MaxPos
  <1>6. QED
    BY <1>1, <1>2, <1>3, <1>4, <1>5

(* A file is added to the folder. *)
LEMMA FileAdded ==
    ASSUME FolderTypeOK, NewFile
    PROVE  /\ folder' \in Seq(Seq(0..MaxWritten)) /\ Len(folder') = Len(folder) + 1
           /\ folder'[Len(folder) + 1] = <<>> /\ Len(folder'[Len(folder) + 1]) = 0
           /\ \A f \in 1..Len(folder) : folder'[f] = folder[f]
           /\ Grows(folder, folder')
  <1>1. <<>> \in Seq(0..MaxWritten) /\ folder \in Seq(Seq(0..MaxWritten)) /\ Len(<<>>) = 0
    BY DEF FolderTypeOK
  <1>2. /\ folder' \in Seq(Seq(0..MaxWritten)) /\ Len(folder') = Len(folder) + 1
        /\ folder'[Len(folder) + 1] = <<>>
        /\ \A f \in 1..Len(folder) : folder'[f] = folder[f]
    BY <1>1, AppendIs DEF NewFile
  <1>3. Len(folder) \in Nat /\ \A f \in 1..Len(folder) : Len(folder[f]) \in Nat
    BY FolderFacts
  <1>4. Grows(folder, folder')
    BY <1>2, <1>3 DEF Grows
  <1>5. QED
    BY <1>1, <1>2, <1>4

(* The last file gets a new sequence of dumps. *)
LEMMA LastReplaced ==
    ASSUME FolderTypeOK, folder # <<>>, NEW s \in Seq(0..MaxWritten),
           folder' = [folder EXCEPT ![LastFile] = s]
    PROVE  /\ folder' \in Seq(Seq(0..MaxWritten)) /\ Len(folder') = Len(folder)
           /\ LastFile \in 1..Len(folder) /\ folder'[LastFile] = s
           /\ \A f \in 1..Len(folder) : f # LastFile => folder'[f] = folder[f]
  <1>1. folder \in Seq(Seq(0..MaxWritten)) /\ Len(folder) \in Nat
    BY DEF FolderTypeOK
  <1>2. Len(folder) \in 1..Len(folder)
    BY <1>1
  <1>3. QED
    BY <1>1, <1>2 DEF LastFile

(* A dump is begun at the end of the last file. *)
LEMMA DumpBegun ==
    ASSUME FolderTypeOK, WriteBegins
    PROVE  /\ folder' \in Seq(Seq(0..MaxWritten)) /\ Len(folder') = Len(folder)
           /\ LastFile \in 1..Len(folder) /\ LastFile' = LastFile
           /\ Len(folder'[LastFile]) = Len(folder[LastFile]) + 1
           /\ folder'[LastFile][Len(folder[LastFile]) + 1] = Part
           /\ \A f \in 1..Len(folder) : f # LastFile => folder'[f] = folder[f]
           /\ \A f \in 1..Len(folder) : \A k \in 1..Len(folder[f]) : folder'[f][k] = folder[f][k]
           /\ Grows(folder, folder')
  <1>1. folder # <<>> /\ folder' = [folder EXCEPT ![LastFile] = Append(folder[LastFile], Part)]
    BY DEF WriteBegins
  <1>2. Len(folder) \in Nat /\ LastFile \in 1..Len(folder)
    BY <1>1, FolderFacts DEF LastFile, FolderTypeOK
  <1>3. folder[LastFile] \in Seq(0..MaxWritten) /\ Part \in 0..MaxWritten
    BY <1>2, FolderFacts DEF Part
  <1> DEFINE s == Append(folder[LastFile], Part)
  <1>4. /\ s \in Seq(0..MaxWritten) /\ Len(s) = Len(folder[LastFile]) + 1
        /\ s[Len(folder[LastFile]) + 1] = Part
        /\ \A k \in 1..Len(folder[LastFile]) : s[k] = folder[LastFile][k]
    BY <1>3, AppendIs
  <1> HIDE DEF s
  <1>5. /\ folder' \in Seq(Seq(0..MaxWritten)) /\ Len(folder') = Len(folder)
        /\ folder'[LastFile] = s
        /\ \A f \in 1..Len(folder) : f # LastFile => folder'[f] = folder[f]
    BY <1>1, <1>4, LastReplaced DEF s
  <1>6. \A f \in 1..Len(folder) : \A k \in 1..Len(folder[f]) : folder'[f][k] = folder[f][k]
    BY <1>4, <1>5
  <1>7. Grows(folder, folder')
    <2>1. ASSUME NEW f \in 1..Len(folder)
          PROVE  /\ f < Len(folder) => folder'[f] = folder[f]
                 /\ Len(folder'[f]) >= Len(folder[f])
      <3>1. Len(folder[f]) \in Nat
        BY FolderFacts
      <3>2. CASE f = LastFile
        BY <1>2, <1>4, <1>5, <3>1, <3>2 DEF LastFile
      <3>3. CASE f # LastFile
        BY <1>5, <3>1, <3>3
      <3>4. QED
        BY <3>2, <3>3
    <2>2. QED
      BY <1>2, <1>5, <1>6, <2>1 DEF Grows
  <1>8. QED
    BY <1>2, <1>4, <1>5, <1>6, <1>7 DEF LastFile

(* The dump is complete. *)
LEMMA DumpEnded ==
    ASSUME FolderTypeOK, WriterInv, WriteEnds
    PROVE  /\ folder' \in Seq(Seq(0..MaxWritten)) /\ Len(folder') = Len(folder)
           /\ LastFile \in 1..Len(folder) /\ LastFile' = LastFile
           /\ Len(folder[LastFile]) \in 1..Len(folder[LastFile])
           /\ folder[LastFile][Len(folder[LastFile])] = Part
           /\ folder'[LastFile][Len(folder[LastFile])] = written + 1
           /\ \A f \in 1..Len(folder) : Len(folder'[f]) = Len(folder[f])
           /\ \A f \in 1..Len(folder) : f # LastFile => folder'[f] = folder[f]
           /\ \A f \in 1..Len(folder) : \A k \in 1..Len(folder[f]) :
                 f # LastFile \/ k # Len(folder[LastFile]) => folder'[f][k] = folder[f][k]
           /\ Grows(folder, folder')
  <1> DEFINE n == Len(folder[LastFile])
             s == [folder[LastFile] EXCEPT ![n] = written + 1]
  <1>1. /\ folder # <<>> /\ folder[LastFile] # <<>> /\ written < MaxWritten
        /\ folder[LastFile][n] = Part
        /\ folder' = [folder EXCEPT ![LastFile] = s]
    BY DEF WriteEnds, WriterInv
  <1>2. Len(folder) \in Nat /\ LastFile \in 1..Len(folder)
    BY <1>1, FolderFacts DEF LastFile, FolderTypeOK
  <1>3. folder[LastFile] \in Seq(0..MaxWritten) /\ written + 1 \in 0..MaxWritten /\ n \in 1..n
    <2>1. folder[LastFile] \in Seq(0..MaxWritten) /\ n \in Nat
      BY <1>2, FolderFacts
    <2>2. n # 0
      BY <1>1, <2>1
    <2>3. written \in Nat /\ MaxWritten \in Nat
      BY FolderFacts DEF FolderTypeOK
    <2>4. written + 1 \in 0..MaxWritten
      BY <1>1, <2>3
    <2>5. n \in 1..n
      BY <2>1, <2>2
    <2>6. QED
      BY <2>1, <2>4, <2>5
  <1>4. /\ s \in Seq(0..MaxWritten) /\ Len(s) = n /\ s[n] = written + 1
        /\ \A k \in 1..n : k # n => s[k] = folder[LastFile][k]
    BY <1>3
  <1> HIDE DEF s
  <1>5. /\ folder' \in Seq(Seq(0..MaxWritten)) /\ Len(folder') = Len(folder)
        /\ folder'[LastFile] = s
        /\ \A f \in 1..Len(folder) : f # LastFile => folder'[f] = folder[f]
    BY <1>1, <1>4, LastReplaced
  <1>6. \A f \in 1..Len(folder) : \A k \in 1..Len(folder[f]) :
                 f # LastFile \/ k # n => folder'[f][k] = folder[f][k]
    BY <1>4, <1>5
  <1>7. \A f \in 1..Len(folder) : Len(folder'[f]) = Len(folder[f])
    BY <1>4, <1>5
  <1>8. Grows(folder, folder')
    <2> SUFFICES ASSUME NEW f \in 1..Len(folder)
                 PROVE  /\ f < Len(folder) => folder'[f] = folder[f]
                        /\ Len(folder'[f]) >= Len(folder[f])
                        /\ \A k \in 1..Len(folder[f]) :
                              folder[f][k] # Part => folder'[f][k] = folder[f][k]
      BY <1>2, <1>5 DEF Grows
    <2>1. f < Len(folder) => folder'[f] = folder[f]
      BY <1>2, <1>5 DEF LastFile
    <2>2. Len(folder'[f]) >= Len(folder[f])
      BY <1>7, FolderFacts
    <2>3. \A k \in 1..Len(folder[f]) : folder[f][k] # Part => folder'[f][k] = folder[f][k]
      BY <1>1, <1>6
    <2>4. QED
      BY <2>1, <2>2, <2>3
  <1>9. QED
    BY <1>1, <1>2, <1>3, <1>4, <1>5, <1>6, <1>7, <1>8 DEF LastFile

-----------------------------------------------------------------------------
(* The node that writes *)

(* Its steps keep the type of the folder. *)
LEMMA FolderTypeStep ==
    ASSUME FolderTypeOK, WriterInv, Writes
    PROVE  FolderTypeOK'
  <1>0. /\ MaxWritten \in Nat /\ MaxFiles \in Nat /\ MaxDeaths \in Nat /\ Len(folder) \in Nat
        /\ folder \in Seq(Seq(0..MaxWritten)) /\ Len(folder) <= MaxFiles
        /\ writer \in {"idle", "part", "whole"} /\ written \in 0..MaxWritten /\ deaths \in 0..MaxDeaths
        /\ \A f \in 1..Len(folder) :
              /\ Len(folder[f]) \in Nat
              /\ Len(folder[f]) <= written + deaths + (IF writer = "idle" THEN 0 ELSE 1)
    BY FolderFacts DEF FolderTypeOK
  <1>1. CASE NewFile
    <2>1. UNCHANGED <<writer, written, deaths>> /\ Len(folder) < MaxFiles
      BY <1>1 DEF NewFile
    <2>2. /\ folder' \in Seq(Seq(0..MaxWritten)) /\ Len(folder') = Len(folder) + 1
          /\ Len(folder'[Len(folder) + 1]) = 0
          /\ \A f \in 1..Len(folder) : folder'[f] = folder[f]
      BY <1>1, FileAdded
    <2>3. \A f \in 1..Len(folder') : f \in 1..Len(folder) \/ f = Len(folder) + 1
      BY <1>0, <2>2
    <2>4. ASSUME NEW f \in 1..Len(folder')
          PROVE  Len(folder'[f]) <= written' + deaths' + (IF writer' = "idle" THEN 0 ELSE 1)
      <3>1. CASE f \in 1..Len(folder)
        <4>1. folder'[f] = folder[f]
          BY <2>2, <3>1
        <4>2. Len(folder[f]) <= written + deaths + (IF writer = "idle" THEN 0 ELSE 1)
          BY <1>0, <3>1
        <4>3. QED
          BY <2>1, <4>1, <4>2
      <3>2. CASE f = Len(folder) + 1
        <4>1. Len(folder'[f]) = 0
          BY <2>2, <3>2
        <4>2. QED
          BY <1>0, <2>1, <4>1
      <3>3. QED
        BY <2>3, <3>1, <3>2
    <2>5. QED
      BY <1>0, <2>1, <2>2, <2>4 DEF FolderTypeOK
  <1>2. CASE WriteBegins
    <2>1. writer = "idle" /\ writer' = "part" /\ UNCHANGED <<written, deaths>>
      BY <1>2 DEF WriteBegins
    <2>2. /\ folder' \in Seq(Seq(0..MaxWritten)) /\ Len(folder') = Len(folder)
          /\ LastFile \in 1..Len(folder)
          /\ Len(folder'[LastFile]) = Len(folder[LastFile]) + 1
          /\ \A f \in 1..Len(folder) : f # LastFile => folder'[f] = folder[f]
      BY <1>2, DumpBegun
    <2>3. ASSUME NEW f \in 1..Len(folder)
          PROVE  Len(folder'[f]) <= written + deaths + 1
      <3>1. Len(folder[f]) \in Nat /\ Len(folder[f]) <= written + deaths + 0
        BY <1>0, <2>1
      <3>2. Len(folder'[f]) = Len(folder[f]) \/ Len(folder'[f]) = Len(folder[f]) + 1
        BY <2>2
      <3>3. QED
        BY <1>0, <3>1, <3>2
    <2>4. QED
      BY <1>0, <2>1, <2>2, <2>3 DEF FolderTypeOK
  <1>3. CASE WriteEnds
    <2>1. writer = "part" /\ writer' = "whole" /\ UNCHANGED <<written, deaths>>
      BY <1>3 DEF WriteEnds
    <2>2. /\ folder' \in Seq(Seq(0..MaxWritten)) /\ Len(folder') = Len(folder)
          /\ \A f \in 1..Len(folder) : Len(folder'[f]) = Len(folder[f])
      BY <1>3, DumpEnded
    <2>3. QED
      BY <1>0, <2>1, <2>2 DEF FolderTypeOK
  <1>4. CASE WriterSaves
    <2>1. /\ writer = "whole" /\ writer' = "idle" /\ written' = written + 1 /\ written < MaxWritten
          /\ UNCHANGED <<folder, deaths>>
      BY <1>4 DEF WriterSaves, WriterInv
    <2>2. QED
      BY <1>0, <2>1 DEF FolderTypeOK
  <1>5. CASE WriterDies
    <2>1. /\ writer # "idle" /\ writer' = "idle" /\ deaths' = deaths + 1 /\ deaths < MaxDeaths
          /\ UNCHANGED <<folder, written>>
      BY <1>5 DEF WriterDies, Dies
    <2>2. QED
      BY <1>0, <2>1 DEF FolderTypeOK
  <1>6. QED
    BY <1>1, <1>2, <1>3, <1>4, <1>5 DEF Writes

(* The folder only grows. *)
LEMMA FolderGrows ==
    ASSUME FolderTypeOK, WriterInv, Writes
    PROVE  Grows(folder, folder')
  <1>1. CASE UNCHANGED folder
    BY <1>1, FolderFacts DEF Grows
  <1>2. CASE ~UNCHANGED folder
    BY <1>2, FileAdded, DumpBegun, DumpEnded DEF Writes, WriterSaves, WriterDies
  <1>3. QED
    BY <1>1, <1>2

(* Block n - 1 lies before place (f, k) of the folder fs. *)
ParentBefore(fs, f, k, n) ==
    \E g \in 1..Len(fs) : \E j \in 1..Len(fs[g]) : Before(g, j, f, k) /\ fs[g][j] = n - 1

(* A block that is in the folder stays there. *)
LEMMA ParentKept ==
    ASSUME NEW fs, NEW gs, Len(fs) \in Nat, Len(gs) \in Nat, Grows(fs, gs),
           \A f \in 1..Len(fs) : Len(fs[f]) \in Nat /\ Len(gs[f]) \in Nat,
           NEW f, NEW k, NEW n \in Int, n > 1, ParentBefore(fs, f, k, n)
    PROVE  ParentBefore(gs, f, k, n)
  <1>1. PICK g \in 1..Len(fs) : \E j \in 1..Len(fs[g]) : Before(g, j, f, k) /\ fs[g][j] = n - 1
    BY DEF ParentBefore
  <1>2. PICK j \in 1..Len(fs[g]) : Before(g, j, f, k) /\ fs[g][j] = n - 1
    BY <1>1
  <1>3. gs[g][j] = n - 1
    BY <1>2 DEF Grows, Part
  <1>4. g \in 1..Len(gs) /\ j \in 1..Len(gs[g])
    BY DEF Grows
  <1>5. QED
    BY <1>2, <1>3, <1>4 DEF ParentBefore

(* Its steps keep its invariant. *)
LEMMA WriterStep ==
    ASSUME FolderTypeOK, WriterInv, Writes
    PROVE  WriterInv'
  <1>0. /\ MaxWritten \in Nat /\ Len(folder) \in Nat /\ written \in 0..MaxWritten
        /\ \A f \in 1..Len(folder) : /\ Len(folder[f]) \in Nat
                                     /\ \A k \in 1..Len(folder[f]) : folder[f][k] \in 0..MaxWritten
    BY FolderFacts DEF FolderTypeOK
  <1>1. /\ Len(folder') \in Nat
        /\ \A f \in 1..Len(folder') : Len(folder'[f]) \in Nat
    <2>1. folder' \in Seq(Seq(0..MaxWritten))
      BY FolderTypeStep DEF FolderTypeOK
    <2>2. QED
      BY <2>1, SeqIs
  <1>2. Grows(folder, folder')
    BY FolderGrows
  <1>3. \A f \in 1..Len(folder) : f \in 1..Len(folder')
    BY <1>0, <1>1, <1>2 DEF Grows
  <1>4. \A f \in 1..Len(folder) : \A k \in 1..Len(folder[f]) :
           folder[f][k] > 1 => ParentBefore(folder, f, k, folder[f][k])
    BY DEF WriterInv, ParentBefore
  <1>5. ASSUME NEW f \in 1..Len(folder), NEW k \in 1..Len(folder[f]), folder[f][k] > 1
        PROVE  ParentBefore(folder', f, k, folder[f][k])
    <2>1. folder[f][k] \in Int
      BY <1>0
    <2>2. ParentBefore(folder, f, k, folder[f][k])
      BY <1>4, <1>5
    <2>3. QED
      BY <1>0, <1>1, <1>2, <1>3, <1>5, <2>1, <2>2, ParentKept
  <1> DEFINE Saved(n) == \E g \in 1..Len(folder') : \E j \in 1..Len(folder'[g]) : folder'[g][j] = n
  <1>6. written > 0 => Saved(written)
    <2> SUFFICES ASSUME written > 0 PROVE Saved(written)
      OBVIOUS
    <2>1. PICK g \in 1..Len(folder) : \E j \in 1..Len(folder[g]) : folder[g][j] = written
      BY DEF WriterInv
    <2>2. PICK j \in 1..Len(folder[g]) : folder[g][j] = written
      BY <2>1
    <2>3. folder'[g][j] = written
      BY <1>0, <1>2, <2>2 DEF Grows, Part
    <2>4. g \in 1..Len(folder') /\ j \in 1..Len(folder'[g])
      BY <1>0, <1>1, <1>2, <1>3 DEF Grows
    <2>5. QED
      BY <2>3, <2>4
  <1> DEFINE Ordered(f, k) == folder'[f][k] > 1 => ParentBefore(folder', f, k, folder'[f][k])
  <1>7. ASSUME NEW f \in 1..Len(folder), NEW k \in 1..Len(folder[f]), folder'[f][k] = folder[f][k]
        PROVE  Ordered(f, k)
    BY <1>5, <1>7
  <1>w. ASSUME \A f \in 1..Len(folder') : \A k \in 1..Len(folder'[f]) : Ordered(f, k),
               written' > 0 => Saved(written'),
               \/ writer' = "idle"
               \/ /\ writer' = "part" /\ folder' # <<>> /\ folder'[LastFile'] # <<>>
                  /\ written' < MaxWritten
                  /\ folder'[LastFile'][Len(folder'[LastFile'])] = Part
               \/ /\ writer' = "whole" /\ folder' # <<>> /\ folder'[LastFile'] # <<>>
                  /\ written' < MaxWritten
                  /\ folder'[LastFile'][Len(folder'[LastFile'])] = written' + 1
        PROVE  WriterInv'
    BY <1>w DEF WriterInv, ParentBefore
  <1> HIDE DEF Ordered, Saved
  <1>8. CASE NewFile
    <2>1. writer' = "idle" /\ written' = written
      BY <1>8 DEF NewFile
    <2>2. /\ Len(folder') = Len(folder) + 1 /\ Len(folder'[Len(folder) + 1]) = 0
          /\ \A f \in 1..Len(folder) : folder'[f] = folder[f]
      BY <1>8, FileAdded
    <2>3. ASSUME NEW f \in 1..Len(folder'), NEW k \in 1..Len(folder'[f]) PROVE Ordered(f, k)
      <3>1. f # Len(folder) + 1
        <4>1. Len(folder'[f]) # 0
          BY <1>1
        <4>2. QED
          BY <2>2, <4>1
      <3>2. f \in 1..Len(folder)
        BY <1>0, <2>2, <3>1
      <3>3. QED
        BY <1>7, <2>2, <3>2
    <2>4. QED
      BY <1>6, <1>w, <2>1, <2>3
  <1>9. CASE WriteBegins
    <2>1. writer' = "part" /\ written' = written /\ written < MaxWritten
      BY <1>9 DEF WriteBegins
    <2>2. /\ Len(folder') = Len(folder) /\ LastFile \in 1..Len(folder) /\ LastFile' = LastFile
          /\ Len(folder'[LastFile]) = Len(folder[LastFile]) + 1
          /\ folder'[LastFile][Len(folder[LastFile]) + 1] = Part
          /\ \A f \in 1..Len(folder) : f # LastFile => folder'[f] = folder[f]
          /\ \A f \in 1..Len(folder) : \A k \in 1..Len(folder[f]) : folder'[f][k] = folder[f][k]
      BY <1>9, DumpBegun
    <2>3. ASSUME NEW f \in 1..Len(folder'), NEW k \in 1..Len(folder'[f]) PROVE Ordered(f, k)
      <3>1. f \in 1..Len(folder)
        BY <2>2
      <3>2. CASE k \in 1..Len(folder[f])
        BY <1>7, <2>2, <3>1, <3>2
      <3>3. CASE k \notin 1..Len(folder[f])
        <4>1. f = LastFile
          BY <2>2, <3>1, <3>3
        <4>2. k = Len(folder[LastFile]) + 1
          BY <1>0, <2>2, <3>3, <4>1
        <4>3. QED
          BY <2>2, <4>1, <4>2 DEF Ordered, Part
      <3>4. QED
        BY <3>2, <3>3
    <2>4. folder' # <<>> /\ folder'[LastFile] # <<>>
      <3>1. Len(folder') # 0 /\ Len(folder'[LastFile]) # 0
        BY <1>0, <2>2
      <3>2. Len(<<>>) = 0
        OBVIOUS
      <3>3. QED
        BY <3>1, <3>2
    <2>5. QED
      BY <1>6, <1>w, <2>1, <2>2, <2>3, <2>4
  <1>10. CASE WriteEnds
    <2> DEFINE n == Len(folder[LastFile])
    <2>1. writer' = "whole" /\ written' = written /\ written < MaxWritten
      BY <1>10 DEF WriteEnds, WriterInv
    <2>2. /\ Len(folder') = Len(folder) /\ LastFile \in 1..Len(folder) /\ LastFile' = LastFile
          /\ n \in 1..n /\ folder[LastFile][n] = Part /\ folder'[LastFile][n] = written + 1
          /\ \A f \in 1..Len(folder) : Len(folder'[f]) = Len(folder[f])
          /\ \A f \in 1..Len(folder) : \A k \in 1..Len(folder[f]) :
                f # LastFile \/ k # n => folder'[f][k] = folder[f][k]
      BY <1>10, DumpEnded
    <2>3. Ordered(LastFile, n)
      <3> SUFFICES ASSUME written > 0 PROVE ParentBefore(folder', LastFile, n, written + 1)
        BY <1>0, <2>2 DEF Ordered
      <3>1. PICK g \in 1..Len(folder) : \E j \in 1..Len(folder[g]) : folder[g][j] = written
        BY DEF WriterInv
      <3>2. PICK j \in 1..Len(folder[g]) : folder[g][j] = written
        BY <3>1
      <3>3. g # LastFile \/ j # n
        BY <2>2, <3>2 DEF Part
      <3>4. folder'[g][j] = (written + 1) - 1
        BY <1>0, <2>2, <3>2, <3>3
      <3>5. Before(g, j, LastFile, n)
        BY <1>0, <3>3 DEF Before, LastFile
      <3>6. g \in 1..Len(folder') /\ j \in 1..Len(folder'[g])
        BY <2>2
      <3>7. QED
        BY <3>4, <3>5, <3>6 DEF ParentBefore
    <2>4. ASSUME NEW f \in 1..Len(folder'), NEW k \in 1..Len(folder'[f]) PROVE Ordered(f, k)
      BY <1>7, <2>2, <2>3
    <2>5. folder' # <<>> /\ folder'[LastFile] # <<>>
      <3>1. Len(folder') # 0 /\ Len(folder'[LastFile]) # 0
        BY <1>0, <2>2
      <3>2. Len(<<>>) = 0
        OBVIOUS
      <3>3. QED
        BY <3>1, <3>2
    <2>6. Len(folder'[LastFile]) = n
      BY <2>2
    <2>7. QED
      BY <1>6, <1>w, <2>1, <2>2, <2>4, <2>5, <2>6
  <1>11. CASE WriterSaves \/ WriterDies
    <2>1. UNCHANGED folder /\ writer' = "idle"
      BY <1>11 DEF WriterSaves, WriterDies
    <2>2. ASSUME NEW f \in 1..Len(folder'), NEW k \in 1..Len(folder'[f]) PROVE Ordered(f, k)
      BY <1>7, <2>1
    <2>3. written' > 0 => Saved(written')
      <3>1. CASE WriterDies
        BY <1>6, <3>1 DEF WriterDies
      <3>2. CASE WriterSaves
        <4>1. /\ written' = written + 1 /\ folder # <<>> /\ folder[LastFile] # <<>>
              /\ folder[LastFile][Len(folder[LastFile])] = written + 1
          BY <3>2 DEF WriterSaves, WriterInv
        <4>2. LastFile \in 1..Len(folder)
          BY <1>0, <4>1 DEF LastFile, FolderTypeOK
        <4>3. folder[LastFile] \in Seq(0..MaxWritten)
          BY <4>2, FolderFacts
        <4>4. Len(folder[LastFile]) \in 1..Len(folder[LastFile])
          BY <4>1, <4>3
        <4>5. QED
          BY <2>1, <4>1, <4>2, <4>4 DEF Saved
      <3>3. QED
        BY <1>11, <3>1, <3>2
    <2>4. QED
      BY <1>w, <2>1, <2>2, <2>3
  <1>12. QED
    BY <1>8, <1>9, <1>10, <1>11 DEF Writes

-----------------------------------------------------------------------------
(* The node that reads *)

(* What is kept of a file beside the others. *)
LEMMA SetPosIs ==
    ASSUME NEW files \in Positions, NEW f \in 1..MaxFiles, NEW p \in 0..MaxPos
    PROVE  /\ SetPos(files, f, p) \in Positions
           /\ DOMAIN SetPos(files, f, p) = DOMAIN files \cup {f}
           /\ SetPos(files, f, p)[f] = p
           /\ \A g \in DOMAIN files : g # f => SetPos(files, f, p)[g] = files[g]
  <1>1. PICK F \in SUBSET (1..MaxFiles) : files \in [F -> 0..MaxPos]
    BY DEF Positions, MaxPos
  <1>2. SetPos(files, f, p) \in [F \cup {f} -> 0..MaxPos] /\ F \cup {f} \in SUBSET (1..MaxFiles)
    BY <1>1 DEF SetPos
  <1>3. SetPos(files, f, p) \in Positions
    BY <1>2 DEF Positions, MaxPos
  <1>4. QED
    BY <1>1, <1>3 DEF SetPos

(* The positions that are kept are those of files of the folder. *)
LEMMA PositionsAre ==
    ASSUME NEW files \in Positions
    PROVE  \A f \in DOMAIN files : f \in 1..MaxFiles /\ files[f] \in 0..MaxPos
  BY DEF Positions, MaxPos

(* What has been read stays read while the folder grows. *)
LEMMA ReadKept ==
    ASSUME NEW files, NEW fs, NEW gs, Len(fs) \in Nat, Len(gs) \in Nat, Grows(fs, gs),
           \A f \in 1..Len(fs) : Len(fs[f]) \in Nat /\ Len(gs[f]) \in Nat,
           Within(files, fs)
    PROVE  /\ Within(files, gs)
           /\ \A top, hand : ReadSoFar(files, fs, top, hand) => ReadSoFar(files, gs, top, hand)
           /\ \A name, p : Opened(files, fs, name, p) => Opened(files, gs, name, p)
  <1>1. \A f \in 1..Len(fs) : f \in 1..Len(gs) /\ \A p \in 0..Len(fs[f]) : p \in 0..Len(gs[f])
    BY DEF Grows
  <1>2. Within(files, gs)
    BY <1>1 DEF Within
  <1>3. ASSUME NEW top, NEW hand, ReadSoFar(files, fs, top, hand),
               NEW f \in DOMAIN files, NEW k \in 1..files[f]
        PROVE  gs[f][k] # Part /\ (gs[f][k] <= top \/ gs[f][k] = hand)
    <2>1. f \in 1..Len(fs) /\ k \in 1..Len(fs[f])
      BY DEF Within
    <2>2. fs[f][k] # Part /\ (fs[f][k] <= top \/ fs[f][k] = hand)
      BY <1>3 DEF ReadSoFar
    <2>3. QED
      BY <2>1, <2>2 DEF Grows
  <1>4. ASSUME NEW name, NEW p, Opened(files, fs, name, p), name # NoFile
        PROVE  Opened(files, gs, name, p)
    <2>1. /\ name \in 1..Len(fs) /\ name \in 1..Len(gs)
          /\ p = IF name \in DOMAIN files THEN files[name] ELSE 0
          /\ \A g \in 1..(name - 1) : g \in DOMAIN files /\ files[g] = Len(fs[g])
      BY <1>1, <1>4 DEF Opened
    <2>2. \A g \in 1..(name - 1) : g \in 1..Len(fs) /\ g < Len(fs)
      BY <2>1
    <2>3. \A g \in 1..(name - 1) : gs[g] = fs[g]
      BY <2>2 DEF Grows
    <2>4. QED
      BY <2>1, <2>3 DEF Opened
  <1>5. QED
    BY <1>2, <1>3, <1>4 DEF ReadSoFar, Opened

(* The node that writes does not disturb the one that reads. *)
LEMMA ReaderUndisturbed ==
    ASSUME FolderTypeOK, WriterInv, ReaderInv, StoredInv, Writes
    PROVE  ReaderInv' /\ StoredInv'
  <1>1. UNCHANGED <<allFiles, fileName, currPos, inHand, chain, dbBlocks, dbFiles, lost, at>>
    BY DEF Writes, NewFile, WriteBegins, WriteEnds, WriterSaves, WriterDies, readerVars, storedVars
  <1>2. Grows(folder, folder') /\ Len(folder) \in Nat /\ \A f \in 1..Len(folder) : Len(folder[f]) \in Nat
    BY FolderGrows, FolderFacts
  <1>3. Len(folder') \in Nat /\ \A f \in 1..Len(folder') : Len(folder'[f]) \in Nat
    <2>1. folder' \in Seq(Seq(0..MaxWritten))
      BY FolderTypeStep DEF FolderTypeOK
    <2>2. QED
      BY <2>1, SeqIs
  <1>4. \A f \in 1..Len(folder) : Len(folder'[f]) \in Nat
    BY <1>2, <1>3 DEF Grows
  <1>5. /\ Within(allFiles, folder') /\ Within(dbFiles, folder')
        /\ Opened(allFiles, folder', fileName, currPos)
        /\ at # "astray" => ReadSoFar(allFiles, folder', chain, IF at = "add" THEN inHand ELSE Part)
    BY <1>2, <1>3, <1>4, ReadKept DEF ReaderInv
  <1>6. ReaderInv'
    BY <1>1, <1>5 DEF ReaderInv
  <1>7. \E m \in dbBlocks \cup {0} : ReadSoFar(dbFiles, folder', m, Part)
    BY <1>2, <1>3, <1>4, ReadKept DEF ReaderInv, StoredInv
  <1>8. StoredInv'
    BY <1>1, <1>7 DEF StoredInv, Tried
  <1>9. QED
    BY <1>6, <1>8

(* A file is opened, or there is none to open, or the file is at its end;   *)
(* or the node goes astray.                                                 *)
LEMMA OpenStep ==
    ASSUME FolderTypeOK, ReaderInv,
           (\E f \in 1..Len(folder) : OpenNext(f)) \/ NothingNew \/ NotWhole \/ Astray \/ ReadMixed
    PROVE  ReaderInv'
  <1>1. CASE NothingNew \/ Astray
    BY <1>1 DEF NothingNew, Astray, fileVars, writerVars, readerVars, storedVars, ReaderInv
  <1>2. CASE NotWhole
    <2>1. fileName' = NoFile /\ UNCHANGED <<folder, allFiles, currPos, inHand, chain, dbBlocks, dbFiles, lost, at>>
          /\ at = "process"
      BY <1>2 DEF NotWhole, writerVars, storedVars
    <2>2. Opened(allFiles, folder, NoFile, currPos) /\ NoFile \in 0..MaxFiles
      BY FolderFacts DEF Opened, NoFile
    <2>3. QED
      BY <2>1, <2>2 DEF ReaderInv
  <1>3. ASSUME NEW f \in 1..Len(folder), OpenNext(f) PROVE ReaderInv'
    <2>1. /\ at = "process" /\ Unread(f) /\ (\A g \in 1..(f - 1) : ~Unread(g))
          /\ fileName' = f /\ currPos' = IF f \in DOMAIN allFiles THEN allFiles[f] ELSE 0
          /\ UNCHANGED <<folder, allFiles, inHand, chain, dbBlocks, dbFiles, lost, at>>
      BY <1>3 DEF OpenNext, IsNext, writerVars, storedVars
    <2>2. /\ Within(allFiles, folder) /\ allFiles \in Positions /\ Len(folder) \in Nat
          /\ Len(folder) <= MaxFiles /\ MaxFiles \in Nat /\ MaxPos \in Nat
      BY FolderFacts DEF ReaderInv, FolderTypeOK
    <2>3. f \in 0..MaxFiles /\ currPos' \in 0..MaxPos
      BY <2>1, <2>2, PositionsAre
    <2>4. Opened(allFiles, folder, f, currPos')
      <3>1. ASSUME NEW g \in 1..(f - 1) PROVE g \in DOMAIN allFiles /\ allFiles[g] = Len(folder[g])
        <4>1. g \in DOMAIN allFiles /\ ~(allFiles[g] < Len(folder[g]))
          BY <2>1 DEF Unread
        <4>2. g \in 1..Len(folder) /\ allFiles[g] \in 0..Len(folder[g]) /\ Len(folder[g]) \in Nat
          BY <2>2, <4>1, FolderFacts DEF Within
        <4>3. QED
          BY <4>1, <4>2
      <3>2. QED
        BY <2>1, <3>1 DEF Opened
    <2>5. QED
      BY <2>1, <2>3, <2>4 DEF ReaderInv
  <1>4. CASE ReadMixed
    <2>1. at' = "astray" /\ UNCHANGED <<folder, allFiles, fileName, currPos, inHand, chain, dbBlocks, dbFiles, lost>>
      BY <1>4 DEF ReadMixed, writerVars, storedVars
    <2>2. QED
      BY <2>1 DEF ReaderInv
  <1>5. QED
    BY <1>1, <1>2, <1>3, <1>4

(* A block is read: its parent has been read before. *)
LEMMA ReadStep ==
    ASSUME FolderTypeOK, WriterInv, ReaderInv, Read
    PROVE  ReaderInv'
  <1> DEFINE f == fileName
             p == currPos + 1
             n == folder[f][p]
             files == SetPos(allFiles, f, p)
  <1>1. /\ at = "process" /\ at' = "add" /\ f # NoFile /\ currPos < Len(folder[f]) /\ n # Part
        /\ inHand' = n /\ currPos' = p /\ allFiles' = files
        /\ UNCHANGED <<folder, fileName, chain, dbBlocks, dbFiles, lost>>
    BY DEF Read, Whole, writerVars, storedVars
  <1>2. /\ Len(folder) \in Nat /\ Len(folder) <= MaxFiles /\ MaxFiles \in Nat /\ MaxPos \in Nat
        /\ MaxWritten \in Nat /\ allFiles \in Positions /\ currPos \in Nat /\ chain \in 0..MaxWritten
        /\ f \in 0..MaxFiles
    BY FolderFacts DEF ReaderInv, FolderTypeOK
  <1>3. /\ f \in 1..Len(folder) /\ f \in 1..MaxFiles
        /\ currPos = IF f \in DOMAIN allFiles THEN allFiles[f] ELSE 0
        /\ \A g \in 1..(f - 1) : g \in DOMAIN allFiles /\ allFiles[g] = Len(folder[g])
    BY <1>1, <1>2 DEF ReaderInv, Opened
  <1>4. /\ Len(folder[f]) \in Nat /\ p \in 1..Len(folder[f])
        /\ \A k \in 1..Len(folder[f]) : folder[f][k] \in 0..MaxWritten
    <2>1. /\ Len(folder[f]) \in Nat
          /\ \A k \in 1..Len(folder[f]) : folder[f][k] \in 0..MaxWritten
      BY <1>3, FolderFacts
    <2>2. currPos \in Nat /\ currPos < Len(folder[f])
      BY <1>1, <1>2
    <2>3. p \in 1..Len(folder[f])
      BY <2>1, <2>2
    <2>4. QED
      BY <2>1, <2>3
  <1>5. p \in 0..MaxPos /\ Len(folder[f]) <= MaxPos
    <2>1. /\ Len(folder[f]) <= written + deaths + (IF writer = "idle" THEN 0 ELSE 1)
          /\ written \in 0..MaxWritten /\ deaths \in 0..MaxDeaths /\ MaxDeaths \in Nat
          /\ (writer # "idle" => written < MaxWritten)
      BY <1>3, FolderFacts DEF FolderTypeOK, WriterInv
    <2>2. Len(folder[f]) <= MaxWritten + MaxDeaths
      BY <1>2, <1>4, <2>1
    <2>3. MaxPos = MaxWritten + MaxDeaths
      BY DEF MaxPos
    <2>4. QED
      BY <1>2, <1>4, <2>2, <2>3
  <1> HIDE DEF p
  <1>6. /\ files \in Positions /\ DOMAIN files = DOMAIN allFiles \cup {f} /\ files[f] = p
        /\ \A g \in DOMAIN allFiles : g # f => files[g] = allFiles[g]
    <2>1. allFiles \in Positions /\ f \in 1..MaxFiles /\ p \in 0..MaxPos
      BY <1>2, <1>3, <1>5
    <2> HIDE DEF f
    <2>2. QED
      BY <2>1, SetPosIs
  <1>7. n \in 0..MaxWritten
    BY <1>4
  <1>8. \A g \in DOMAIN allFiles : \A k \in 1..allFiles[g] : folder[g][k] # Part /\ folder[g][k] <= chain
    <2>1. ReadSoFar(allFiles, folder, chain, Part)
      BY <1>1 DEF ReaderInv
    <2>2. QED
      BY <2>1 DEF ReadSoFar
  <1>9. n <= chain + 1
    <2>1. CASE n <= 1
      BY <1>2, <1>7, <2>1
    <2>2. CASE n > 1
      <3>1. PICK g \in 1..Len(folder) : \E j \in 1..Len(folder[g]) :
                Before(g, j, f, p) /\ folder[g][j] = n - 1
        BY <1>3, <1>4, <2>2 DEF WriterInv
      <3>2. PICK j \in 1..Len(folder[g]) : Before(g, j, f, p) /\ folder[g][j] = n - 1
        BY <3>1
      <3>3. CASE g < f
        <4>1. g \in DOMAIN allFiles /\ allFiles[g] = Len(folder[g])
          BY <1>3, <3>3
        <4>2. n - 1 <= chain
          BY <1>8, <3>2, <4>1
        <4>3. QED
          BY <1>2, <1>7, <4>2
      <3>4. CASE g = f /\ j < p
        <4>1. j \in 1..currPos
          BY <1>2, <3>2, <3>4 DEF p
        <4>2. f \in DOMAIN allFiles /\ allFiles[f] = currPos
          BY <1>2, <1>3, <4>1
        <4>3. n - 1 <= chain
          BY <1>8, <3>2, <3>4, <4>1, <4>2
        <4>4. QED
          BY <1>2, <1>7, <4>3
      <3>5. QED
        BY <3>2, <3>3, <3>4 DEF Before
    <2>3. QED
      BY <1>2, <1>7, <2>1, <2>2
  <1> HIDE DEF files
  <1>10. Within(files, folder)
    <2>1. \A g \in DOMAIN allFiles : g \in 1..Len(folder) /\ allFiles[g] \in 0..Len(folder[g])
      BY DEF ReaderInv, Within
    <2>2. QED
      BY <1>3, <1>4, <1>6, <2>1 DEF Within
  <1>11. Opened(files, folder, f, p)
    <2>1. \A g \in 1..(f - 1) : g # f
      BY <1>3
    <2>2. QED
      BY <1>3, <1>6, <2>1 DEF Opened
  <1>12. ReadSoFar(files, folder, chain, n)
    <2> SUFFICES ASSUME NEW g \in DOMAIN files, NEW k \in 1..files[g]
                 PROVE  folder[g][k] # Part /\ (folder[g][k] <= chain \/ folder[g][k] = n)
      BY DEF ReadSoFar
    <2>1. CASE g # f
      BY <1>6, <1>8, <2>1
    <2>2. CASE g = f /\ k = p
      BY <1>1, <2>2
    <2>3. CASE g = f /\ k # p
      <3>1. k \in 1..currPos
        BY <1>2, <1>6, <2>3 DEF p
      <3>2. f \in DOMAIN allFiles /\ allFiles[f] = currPos
        BY <1>2, <1>3, <3>1
      <3>3. QED
        BY <1>8, <2>3, <3>1, <3>2
    <2>4. QED
      BY <2>1, <2>2, <2>3
  <1> HIDE DEF p, n
  <1>13. f \in DOMAIN files
    BY <1>6
  <1>14. QED
    BY <1>1, <1>2, <1>5, <1>6, <1>7, <1>9, <1>10, <1>11, <1>12, <1>13 DEF ReaderInv

(* The block in hand goes on the chain, or is refused. *)
LEMMA AddStep ==
    ASSUME FolderTypeOK, ReaderInv, AddBlock \/ Refuse
    PROVE  ReaderInv'
  <1>0. /\ at = "add" /\ inHand \in 0..MaxWritten /\ chain \in 0..MaxWritten
        /\ MaxWritten \in Nat /\ inHand <= chain + 1
        /\ ReadSoFar(allFiles, folder, chain, inHand)
        /\ Within(allFiles, folder)
        /\ UNCHANGED <<folder, allFiles, fileName, currPos, inHand, dbBlocks, dbFiles, lost>>
    BY FolderFacts DEF ReaderInv, AddBlock, Refuse, writerVars, storedVars
  <1>1. \A f \in DOMAIN allFiles : \A k \in 1..allFiles[f] : folder[f][k] \in 0..MaxWritten
    <2>1. \A f \in DOMAIN allFiles : /\ f \in 1..Len(folder)
                                     /\ Len(folder[f]) \in Nat /\ allFiles[f] \in 0..Len(folder[f])
                                     /\ \A k \in 1..Len(folder[f]) : folder[f][k] \in 0..MaxWritten
      BY <1>0, FolderFacts DEF Within
    <2>2. QED
      BY <2>1
  <1>2. CASE AddBlock
    <2>1. inHand = chain + 1 /\ chain' = chain + 1 /\ at' = "save"
      BY <1>2 DEF AddBlock
    <2>2. ReadSoFar(allFiles, folder, chain + 1, Part)
      BY <1>0, <1>1, <2>1 DEF ReadSoFar
    <2>3. chain' \in 0..MaxWritten /\ chain' >= 1
      BY <1>0, <2>1
    <2>4. QED
      BY <1>0, <2>1, <2>2, <2>3 DEF ReaderInv
  <1>3. CASE Refuse
    <2>1. inHand # chain + 1 /\ chain' = chain /\ at' = "process"
      BY <1>3 DEF Refuse
    <2>2. inHand <= chain
      BY <1>0, <2>1
    <2>3. ReadSoFar(allFiles, folder, chain, Part)
      BY <1>0, <2>2 DEF ReadSoFar
    <2>4. QED
      BY <1>0, <2>1, <2>3 DEF ReaderInv
  <1>4. QED
    BY <1>2, <1>3

(* The block and the position behind it are saved in one batch, or the      *)
(* batch fails.                                                             *)
LEMMA SaveStep ==
    ASSUME FolderTypeOK, ReaderInv, Save \/ SaveThrows
    PROVE  ReaderInv'
  <1> DEFINE files == SetPos(dbFiles, fileName, currPos)
  <1>1. /\ at = "save" /\ at' = "process"
        /\ UNCHANGED <<folder, allFiles, fileName, currPos, inHand, chain>>
        /\ \/ dbBlocks' = dbBlocks \cup {chain} /\ dbFiles' = files /\ lost' = lost
           \/ dbBlocks' = dbBlocks /\ dbFiles' = dbFiles /\ lost' = lost \cup {chain}
    BY DEF Save, SaveThrows, writerVars, ReaderInv
  <1>2. /\ fileName \in 1..Len(folder) /\ fileName \in DOMAIN allFiles /\ allFiles[fileName] = currPos
        /\ fileName \in 1..MaxFiles
    <2>1. fileName # NoFile /\ fileName \in DOMAIN allFiles
      BY <1>1 DEF ReaderInv
    <2>2. QED
      BY <2>1, PositionsAre DEF ReaderInv, Opened
  <1>3. dbFiles \in Positions /\ currPos \in 0..MaxPos
    BY DEF ReaderInv
  <1>4. /\ files \in Positions /\ DOMAIN files = DOMAIN dbFiles \cup {fileName}
        /\ files[fileName] = currPos
        /\ \A g \in DOMAIN dbFiles : g # fileName => files[g] = dbFiles[g]
    BY <1>2, <1>3, SetPosIs
  <1> HIDE DEF files
  <1>5. Within(files, folder) /\ Within(dbFiles, folder)
    BY <1>2, <1>4 DEF ReaderInv, Within
  <1>6. /\ dbFiles' \in Positions /\ Within(dbFiles', folder)
        /\ dbBlocks' \subseteq 1..MaxWritten /\ lost' \subseteq 1..MaxWritten
    <2>1. chain \in 1..MaxWritten
      BY <1>1, FolderFacts DEF ReaderInv
    <2>2. QED
      BY <1>1, <1>3, <1>4, <1>5, <2>1 DEF ReaderInv
  <1>7. ReadSoFar(allFiles, folder, chain, Part)
    BY <1>1 DEF ReaderInv
  <1>8. QED
    BY <1>1, <1>6, <1>7 DEF ReaderInv

(* What lies before positions within the folder are numbers. *)
LEMMA PassedAre ==
    ASSUME FolderTypeOK, NEW files, Within(files, folder), NEW f \in DOMAIN files, NEW k \in 1..files[f]
    PROVE  folder[f][k] \in 0..MaxWritten
  <1>1. /\ f \in 1..Len(folder) /\ Len(folder[f]) \in Nat /\ files[f] \in 0..Len(folder[f])
        /\ \A i \in 1..Len(folder[f]) : folder[f][i] \in 0..MaxWritten
    BY FolderFacts DEF Within
  <1>2. k \in 1..Len(folder[f])
    BY <1>1
  <1>3. QED
    BY <1>1, <1>2

(* What is read up to a block is read up to a later one. *)
LEMMA ReadUpTo ==
    ASSUME FolderTypeOK, NEW files, Within(files, folder), NEW m \in Nat, NEW n \in Nat, m <= n,
           ReadSoFar(files, folder, m, Part)
    PROVE  ReadSoFar(files, folder, n, Part)
  <1> SUFFICES ASSUME NEW f \in DOMAIN files, NEW k \in 1..files[f]
               PROVE  folder[f][k] # Part /\ folder[f][k] <= n
    BY DEF ReadSoFar
  <1>1. folder[f][k] # Part /\ folder[f][k] <= m
    BY DEF ReadSoFar
  <1>2. folder[f][k] \in 0..MaxWritten /\ MaxWritten \in Nat
    BY PassedAre, FolderFacts
  <1>3. QED
    BY <1>1, <1>2

(* A saved block is above all that the positions of the data base pass; a   *)
(* batch that fails leaves a gap and is remembered.                         *)
LEMMA StoredStep ==
    ASSUME FolderTypeOK, ReaderInv, StoredInv, Save \/ SaveThrows
    PROVE  StoredInv'
  <1> DEFINE files == SetPos(dbFiles, fileName, currPos)
  <1>1. /\ at = "save" /\ at' = "process" /\ inHand = chain /\ chain \in Nat /\ chain >= 1
        /\ UNCHANGED <<folder, chain>>
        /\ Within(dbFiles, folder)
    BY FolderFacts DEF Save, SaveThrows, writerVars, ReaderInv
  <1>2. dbBlocks \subseteq 1..(chain - 1) /\ 1..(chain - 1) \subseteq dbBlocks \cup lost
    BY <1>1 DEF StoredInv, Tried
  <1>3. PICK m \in dbBlocks \cup {0} : ReadSoFar(dbFiles, folder, m, Part)
    BY DEF StoredInv
  <1>4. CASE Save
    <2>1. dbBlocks' = dbBlocks \cup {chain} /\ dbFiles' = files /\ lost' = lost
      BY <1>1, <1>4 DEF Save
    <2>2. /\ fileName \in DOMAIN allFiles /\ allFiles[fileName] = currPos /\ fileName \in 1..MaxFiles
          /\ ReadSoFar(allFiles, folder, chain, Part)
      <3>1. fileName # NoFile /\ fileName \in DOMAIN allFiles
        BY <1>1 DEF ReaderInv
      <3>2. QED
        BY <1>1, <3>1, PositionsAre DEF ReaderInv, Opened
    <2>3. /\ DOMAIN files = DOMAIN dbFiles \cup {fileName} /\ files[fileName] = currPos
          /\ \A g \in DOMAIN dbFiles : g # fileName => files[g] = dbFiles[g]
      BY <2>2, SetPosIs DEF ReaderInv
    <2> HIDE DEF files
    <2>4. m \in Nat /\ m <= chain
      BY <1>1, <1>2
    <2>5. ReadSoFar(dbFiles, folder, chain, Part)
      BY <1>1, <1>3, <2>4, ReadUpTo
    <2>6. ReadSoFar(files, folder, chain, Part)
      BY <2>2, <2>3, <2>5 DEF ReadSoFar
    <2>7. dbBlocks' \subseteq 1..chain /\ 1..chain \subseteq dbBlocks' \cup lost'
      BY <1>1, <1>2, <2>1
    <2>8. QED
      BY <1>1, <2>1, <2>6, <2>7 DEF StoredInv, Tried
  <1>5. CASE SaveThrows
    <2>1. dbBlocks' = dbBlocks /\ dbFiles' = dbFiles /\ lost' = lost \cup {chain}
      BY <1>1, <1>5 DEF SaveThrows
    <2>2. dbBlocks' \subseteq 1..chain /\ 1..chain \subseteq dbBlocks' \cup lost'
      BY <1>1, <1>2, <2>1
    <2>3. QED
      BY <1>1, <1>3, <2>1, <2>2 DEF StoredInv, Tried
  <1>6. QED
    BY <1>4, <1>5

(* The other steps of the reading node leave the data base alone. *)
LEMMA StoredKept ==
    ASSUME ReaderInv, StoredInv, Reads \/ ReadMixed, ~Save
    PROVE  StoredInv'
  <1>1. CASE AddBlock
    <2>1. /\ at = "add" /\ at' = "save" /\ chain' = chain + 1 /\ UNCHANGED <<folder, dbBlocks, dbFiles, lost>>
      BY <1>1 DEF AddBlock, writerVars, storedVars
    <2>2. chain \in Nat
      BY FileSourceAssumption DEF ReaderInv
    <2>3. QED
      BY <2>1, <2>2 DEF StoredInv, Tried
  <1>2. CASE ReadMixed
    <2>1. at' = "astray" /\ UNCHANGED <<folder, dbBlocks, dbFiles, lost>>
      BY <1>2 DEF ReadMixed, writerVars, storedVars
    <2>2. QED
      BY <2>1 DEF StoredInv
  <1>3. CASE ~AddBlock /\ ~ReadMixed
    <2>1. /\ at # "save" \/ at' = at
          /\ at' # "save" \/ at' = at
          /\ at # "astray" \/ at' = at
          /\ UNCHANGED <<folder, chain, dbBlocks, dbFiles, lost>>
      BY <1>3 DEF Reads, OpenNext, NothingNew, Read, NotWhole, Refuse, Astray, fileVars, readerVars,
         writerVars, storedVars
    <2>2. QED
      BY <2>1 DEF StoredInv, Tried
  <1>4. QED
    BY <1>1, <1>2, <1>3

(* The process begins again with what the data base has: with all blocks up *)
(* to its last one, or astray.                                              *)
LEMMA RestartStep ==
    ASSUME FolderTypeOK, ReaderInv, StoredInv, ReaderRestarts \/ LoadsGap
    PROVE  ReaderInv' /\ StoredInv'
  <1>1. /\ allFiles' = dbFiles /\ fileName' = NoFile /\ currPos' = 0 /\ inHand' = 0
        /\ UNCHANGED <<folder, dbBlocks, dbFiles, lost>>
    BY DEF ReaderRestarts, LoadsGap, BeginAgain, writerVars, storedVars
  <1>2. /\ Opened(dbFiles, folder, NoFile, 0) /\ NoFile \in 0..MaxFiles /\ 0 \in 0..MaxPos
        /\ 0 \in 0..MaxWritten
    BY FolderFacts DEF Opened, NoFile
  <1>3. CASE LoadsGap
    <2>1. at' = "astray" /\ chain' = 0
      BY <1>3 DEF LoadsGap
    <2>2. ReaderInv'
      BY <1>1, <1>2, <2>1 DEF ReaderInv
    <2>3. StoredInv'
      BY <1>1, <2>1 DEF StoredInv
    <2>4. QED
      BY <2>2, <2>3
  <1>4. CASE ReaderRestarts
    <2>1. at' = "process" /\ \E top \in 0..MaxWritten : Holds(top) /\ chain' = top
      BY <1>4 DEF ReaderRestarts
    <2>2. PICK top \in 0..MaxWritten : dbBlocks = 1..top /\ chain' = top
      BY <2>1 DEF Holds
    <2>3. PICK m \in dbBlocks \cup {0} : ReadSoFar(dbFiles, folder, m, Part)
      BY DEF StoredInv
    <2>4. m \in Nat /\ top \in Nat /\ m <= top
      BY <2>2
    <2>5. ReadSoFar(dbFiles, folder, top, Part)
      BY <2>3, <2>4, ReadUpTo DEF ReaderInv
    <2>6. ReaderInv'
      BY <1>1, <1>2, <2>1, <2>2, <2>5 DEF ReaderInv
    <2>7. StoredInv'
      BY <1>1, <2>1, <2>2, <2>3 DEF StoredInv, Tried
    <2>8. QED
      BY <2>6, <2>7
  <1>5. QED
    BY <1>3, <1>4

(* Every step keeps the invariant of the two nodes. *)
LEMMA FileStep ==
    ASSUME FileInv, [FileNext]_fileVars
    PROVE  FileInv'
  <1>1. CASE Writes
    BY <1>1, FolderTypeStep, WriterStep, ReaderUndisturbed DEF FileInv
  <1>2. CASE Reads \/ ReadMixed \/ SaveThrows
    <2>1. UNCHANGED <<folder, writer, written, deaths>>
      BY <1>2 DEF Reads, OpenNext, NothingNew, Read, NotWhole, AddBlock, Refuse, Save, Astray, ReadMixed,
         SaveThrows, writerVars, fileVars
    <2>2. FolderTypeOK' /\ WriterInv'
      BY <2>1 DEF FileInv, FolderTypeOK, WriterInv, LastFile
    <2>3. ReaderInv'
      BY <1>2, OpenStep, ReadStep, AddStep, SaveStep DEF Reads, FileInv
    <2>4. StoredInv'
      BY <1>2, StoredStep, StoredKept DEF FileInv
    <2>5. QED
      BY <2>2, <2>3, <2>4 DEF FileInv
  <1>3. CASE ReaderRestarts \/ LoadsGap
    <2>1. UNCHANGED <<folder, writer, written>> /\ deaths < MaxDeaths /\ deaths' = deaths + 1
      BY <1>3 DEF ReaderRestarts, LoadsGap, BeginAgain, writerVars, Dies
    <2>2. WriterInv'
      BY <2>1 DEF FileInv, WriterInv, LastFile
    <2>3. FolderTypeOK'
      BY <2>1, FolderFacts DEF FileInv, FolderTypeOK
    <2>4. QED
      BY <1>3, <2>2, <2>3, RestartStep DEF FileInv
  <1>4. CASE UNCHANGED fileVars
    BY <1>4 DEF fileVars, writerVars, readerVars, storedVars, FileInv, FolderTypeOK, WriterInv, ReaderInv,
       StoredInv, Tried, LastFile
  <1>5. QED
    BY <1>1, <1>2, <1>3, <1>4 DEF FileNext, ReaderFaults

(* The two nodes start with it. *)
LEMMA FileStart == FileInit => FileInv
  <1> SUFFICES ASSUME FileInit PROVE FileInv
    OBVIOUS
  <1>1. {MaxWritten, MaxFiles, MaxDeaths} \subseteq Nat /\ MaxPos \in Nat
    BY FileSourceAssumption DEF MaxPos
  <1>2. FolderTypeOK /\ WriterInv
    BY <1>1 DEF FileInit, FolderTypeOK, WriterInv
  <1>3. NoPos \in Positions /\ DOMAIN NoPos = {}
    <2>1. NoPos \in [{} -> 0..(MaxWritten + MaxDeaths)]
      BY DEF NoPos
    <2>2. QED
      BY <2>1 DEF Positions
  <1>4. ReaderInv
    BY <1>1, <1>3 DEF FileInit, ReaderInv, Within, Opened, ReadSoFar, NoFile
  <1>5. StoredInv
    BY <1>1, <1>3 DEF FileInit, StoredInv, Tried, ReadSoFar
  <1>6. QED
    BY <1>2, <1>4, <1>5 DEF FileInv

(* What the invariant says of the files that are read. *)
LEMMA FileInvGives == FileInv => FileTypeOK /\ NothingSkipped /\ ReadInOrder
  <1> SUFFICES ASSUME FileInv PROVE FileTypeOK /\ NothingSkipped /\ ReadInOrder
    OBVIOUS
  <1>0. FolderTypeOK /\ WriterInv /\ ReaderInv /\ StoredInv
    BY DEF FileInv
  <1>1. FileTypeOK
    <2>1. \A f \in 1..Len(folder) : \A k \in 1..Len(folder[f]) : folder[f][k] \in Part..MaxWritten
      BY <1>0, FolderFacts DEF Part
    <2>2. fileName \in NoFile..Len(folder)
      <3>1. fileName = NoFile \/ fileName \in 1..Len(folder)
        BY <1>0 DEF ReaderInv, Opened
      <3>2. QED
        BY <1>0, <3>1, FolderFacts DEF NoFile
    <2>3. QED
      BY <1>0, <2>1, <2>2 DEF FileTypeOK, FolderTypeOK, ReaderInv, MaxPos
  <1>2. NothingSkipped
    <2> SUFFICES ASSUME at # "astray" PROVE NothingSkipped
      BY DEF NothingSkipped
    <2>1. ASSUME NEW f \in DOMAIN allFiles, NEW k \in 1..allFiles[f]
          PROVE  /\ folder[f][k] # Part
                 /\ folder[f][k] <= chain \/ (at = "add" /\ folder[f][k] = inHand)
      BY <1>0 DEF ReaderInv, ReadSoFar
    <2>2. ASSUME NEW f \in DOMAIN dbFiles, NEW k \in 1..dbFiles[f]
          PROVE  folder[f][k] \in dbBlocks \cup lost
      <3>1. PICK m \in dbBlocks \cup {0} : ReadSoFar(dbFiles, folder, m, Part)
        BY <1>0 DEF StoredInv
      <3>2. folder[f][k] # Part /\ folder[f][k] <= m
        BY <3>1 DEF ReadSoFar
      <3>3. folder[f][k] \in Nat /\ chain \in Nat
        BY <1>0, PassedAre, FolderFacts DEF ReaderInv
      <3>4. dbBlocks \subseteq 1..Tried /\ 1..Tried \subseteq dbBlocks \cup lost
        BY <1>0 DEF StoredInv
      <3>5. Tried \in Int
        BY <3>3 DEF Tried
      <3>6. folder[f][k] \in 1..Tried
        BY <3>2, <3>3, <3>4, <3>5 DEF Part
      <3>7. QED
        BY <3>4, <3>6
    <2>3. QED
      BY <2>1, <2>2 DEF NothingSkipped
  <1>3. ReadInOrder
    BY <1>0 DEF ReaderInv, ReadInOrder
  <1>4. QED
    BY <1>1, <1>2, <1>3

(* Whatever the order in which the two nodes work and die and whatever      *)
(* batches fail: until the reading node goes astray no position passes a    *)
(* block that is missing beside it, but for a block in the data base whose  *)
(* own batch has failed; and no block is read before its parent is on the   *)
(* chain.                                                                   *)
THEOREM FilesRight == FileSpec => [](NothingSkipped /\ ReadInOrder)
  <1>1. FileSpec => []FileInv
    BY FileStart, FileStep, PTL DEF FileSpec
  <1>2. QED
    BY <1>1, FileInvGives, PTL
=============================================================================
