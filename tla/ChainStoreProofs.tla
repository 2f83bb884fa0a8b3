-------------------------- MODULE ChainStoreProofs --------------------------
(***************************************************************************)
(* The block store of ChainStore, for any number of blocks and crashes.    *)
(*                                                                         *)
(* First part: when no crash strikes a repair before its rewrite is        *)
(* durable and no `send` loads the file next to `run`, the store keeps     *)
(* every acknowledged block and implements DurableLog.                     *)
(*                                                                         *)
(* Second part: without these assumptions blocks may be lost, but what is  *)
(* served is still a chain that replays, and only a repair loses blocks.   *)
(***************************************************************************)
EXTENDS ChainStore, TLAPS

(***************************************************************************)
(* The inductive invariant.                                                *)
(***************************************************************************)
Kept(frames) == IsPrefix(acked, frames)

\* Loads exclude each other, and send does nothing but load.
OneProcess ==
  /\ pc["send"] \in {"down", "read", "truncated"}
  /\ pc["run"] = "down" \/ pc["send"] = "down"

\* Outside the window of a rewrite the file has all acknowledged blocks, ...
FileKeeps == (\A p \in Procs : pc[p] # "truncated") => Kept(file.frames)

\* ... and so has everything a power loss may leave.
MediumKeeps == ~rewritten => \A img \in survivors : Kept(img.frames)

\* A repair is about to write a file with all acknowledged blocks, and nobody
\* writes to the file it has truncated.
BufKeeps ==
  \A p \in Procs :
    /\ pc[p] \in {"read", "truncated"} => Readable(buf[p]) /\ Kept(buf[p].frames)
    /\ pc[p] = "truncated" => file = EmptyFile

\* run between the load and the append of a block.
OpenInv == pc["run"] = "open" => Clean(file) /\ chain = file.frames

UpInv ==
  pc["run"] = "up" =>
    /\ Kept(chain)
    /\ ~store.poisoned =>
         /\ Clean(file)
         /\ file.frames = chain
         /\ store.needs_magic <=> file = EmptyFile

\* run at each step of an append: memory is one block ahead of the file until
\* the frame is written.
AppendInv ==
  pc["run"] \in Appending =>
    /\ chain # <<>>
    /\ Kept(Front(chain))
    /\ pc["run"] = "magic" => file = EmptyFile
    /\ pc["run"] \in {"magic_sync", "frame"} => Readable(file)
    /\ pc["run"] \in {"frame", "frame_sync"} => ~store.needs_magic
    /\ pc["run"] # "frame_sync" => file.frames = Front(chain)
    /\ pc["run"] = "frame_sync" => Readable(file) /\ file.frames = chain

StoreInv ==
  /\ TypeOK
  /\ OneProcess
  /\ FileKeeps
  /\ MediumKeeps
  /\ BufKeeps
  /\ OpenInv
  /\ UpInv
  /\ AppendInv

-----------------------------------------------------------------------------
(***************************************************************************)
(* Prefixes of sequences of blocks.                                        *)
(***************************************************************************)

\* IsPrefix, element by element.
LEMMA PrefixElements ==
  ASSUME NEW s \in Seq(Block), NEW t \in Seq(Block)
  PROVE  IsPrefix(s, t) <=> Len(s) <= Len(t) /\ \A i \in 1 .. Len(s) : s[i] = t[i]
BY DEF IsPrefix

\* A chain is a prefix of itself.
LEMMA PrefixSelf ==
  ASSUME NEW s \in Seq(Block)
  PROVE  IsPrefix(s, s)
BY PrefixElements

\* Appending a block keeps every prefix.
LEMMA PrefixAppend ==
  ASSUME NEW s \in Seq(Block), NEW t \in Seq(Block), NEW b \in Block, IsPrefix(s, t)
  PROVE  Append(t, b) \in Seq(Block) /\ IsPrefix(s, Append(t, b))
<1> DEFINE u == Append(t, b)
<1>1. /\ u \in Seq(Block)
      /\ Len(u) = Len(t) + 1
      /\ \A i \in 1 .. Len(t) : u[i] = t[i]
  OBVIOUS
<1>2. Len(s) <= Len(t) /\ \A i \in 1 .. Len(s) : s[i] = t[i]
  BY PrefixElements, Zenon
<1>3. Len(s) \in Nat /\ Len(t) \in Nat
  OBVIOUS
<1> HIDE DEF u
<1>4. IsPrefix(s, u)
  BY <1>1, <1>2, <1>3, PrefixElements
<1> QED
  BY <1>1, <1>4, Zenon DEF u

\* All but the last block of a non-empty chain.
LEMMA FrontProperties ==
  ASSUME NEW t \in Seq(Block), t # <<>>
  PROVE  /\ Front(t) \in Seq(Block)
         /\ Last(t) \in Block
         /\ Len(Front(t)) = Len(t) - 1
         /\ \A i \in 1 .. Len(t) - 1 : Front(t)[i] = t[i]
         /\ Append(Front(t), Last(t)) = t
<1>1. Len(t) \in Nat /\ Len(t) > 0
  OBVIOUS
<1>2. Last(t) \in Block
  BY <1>1 DEF Last
<1>3. /\ Front(t) \in Seq(Block)
      /\ Len(Front(t)) = Len(t) - 1
      /\ \A i \in 1 .. Len(t) - 1 : Front(t)[i] = t[i]
  BY <1>1 DEF Front
<1>4. /\ Append(Front(t), Last(t)) \in Seq(Block)
      /\ Len(Append(Front(t), Last(t))) = Len(t)
  BY <1>1, <1>2, <1>3
<1>5. \A i \in 1 .. Len(t) : Append(Front(t), Last(t))[i] = t[i]
  BY <1>1, <1>2, <1>3 DEF Last
<1>6. Append(Front(t), Last(t)) = t
  BY <1>4, <1>5
<1> QED
  BY <1>2, <1>3, <1>6, Zenon

\* A prefix of all but the last block is a prefix.
LEMMA PrefixOfFront ==
  ASSUME NEW s \in Seq(Block), NEW t \in Seq(Block), t # <<>>, IsPrefix(s, Front(t))
  PROVE  IsPrefix(s, t)
BY FrontProperties, PrefixElements

\* All but the last block is a prefix.
LEMMA FrontPrefix ==
  ASSUME NEW t \in Seq(Block), t # <<>>
  PROVE  Len(t) = Len(Front(t)) + 1 /\ IsPrefix(Front(t), t)
<1>1. Len(t) \in Nat /\ Len(Front(t)) = Len(t) - 1
  BY FrontProperties
<1> QED
  BY <1>1 DEF IsPrefix, Front

\* Rolling an append back.
LEMMA FrontOfAppend ==
  ASSUME NEW t \in Seq(Block), NEW b \in Block
  PROVE  Append(t, b) # <<>> /\ Front(Append(t, b)) = t /\ Last(Append(t, b)) = b
BY DEF Front, Last

-----------------------------------------------------------------------------
(***************************************************************************)
(* What the writes to the file do to an image.                             *)
(***************************************************************************)

\* The empty file and a torn header are images without frames.
LEMMA EmptyImages ==
  /\ EmptyFile \in Images /\ EmptyFile.frames = <<>>
  /\ TornHead \in Images /\ TornHead.frames = <<>>
<1>1. <<>> \in Seq(Block)
  OBVIOUS
<1>2. \A h \in Heads : [head |-> h, frames |-> <<>>, tail |-> "none"] \in Images
  BY <1>1, Zenon DEF Images, Tails
<1>3. TornHead = [head |-> "torn", frames |-> <<>>, tail |-> "none"]
  BY DEF TornHead, EmptyFile
<1> QED
  BY <1>2, <1>3, Zenon DEF EmptyFile, Heads

\* A repair only drops what follows the last frame.
LEMMA RepairedImage ==
  ASSUME NEW img \in Images, Repairable(img)
  PROVE  /\ Repaired(img) \in Images
         /\ Repaired(img).frames = img.frames
         /\ Readable(Repaired(img))
BY Zenon DEF Images, Heads, Tails, Repairable, Repaired, Readable

\* Every prefix of the bytes of an image is an image.
LEMMA PartsAreImages ==
  ASSUME NEW img \in Images
  PROVE  PartsOf(img) \subseteq Images
<1>1. \A k \in 0 .. Len(img.frames) : SubSeq(img.frames, 1, k) \in Seq(Block)
  BY DEF Images
<1>2. Len(img.frames) \in Nat
  BY DEF Images
<1>3. \A k \in 0 .. Len(img.frames), t \in Tails :
        [img EXCEPT !.frames = SubSeq(@, 1, k), !.tail = t] \in Images
  BY <1>1, Zenon DEF Images
<1> DEFINE first == IF img.head = "v2" THEN 0 ELSE 1
           part(k, t) == [img EXCEPT !.frames = SubSeq(@, 1, k), !.tail = t]
<1>4. first .. Len(img.frames) \subseteq 0 .. Len(img.frames)
  BY <1>2
<1>5. PartsOf(img) =
        {EmptyFile, TornHead} \cup {part(k, t) : k \in first .. Len(img.frames), t \in Tails}
  BY DEF PartsOf
<1>6. \A k \in first .. Len(img.frames), t \in Tails : part(k, t) \in Images
  BY <1>3, <1>4, Zenon
<1> HIDE DEF first, part
<1> QED
  BY <1>5, <1>6, EmptyImages

\* An incomplete write leaves the frames as they were.
LEMMA PartialWrite ==
  ASSUME NEW img \in Images, NEW part \in WithPart(img)
  PROVE  part \in Images /\ part.frames = img.frames
BY EmptyImages DEF WithPart, Garbled, Images, Heads, Tails

\* A complete frame behind a readable file is one more frame.
LEMMA FrameWrite ==
  ASSUME NEW img \in Images, NEW b \in Block, Readable(img)
  PROVE  /\ WithFrame(img, b) \in Images
         /\ WithFrame(img, b).frames = Append(img.frames, b)
         /\ Readable(WithFrame(img, b))
BY DEF WithFrame, Readable, Images

\* The magic makes an empty file a readable one without frames.
LEMMA MagicWrite ==
  /\ WithMagic(EmptyFile) \in Images
  /\ WithMagic(EmptyFile).frames = <<>>
  /\ Readable(WithMagic(EmptyFile))
<1>1. <<>> \in Seq(Block)
  OBVIOUS
<1>2. WithMagic(EmptyFile) = [head |-> "v2", frames |-> <<>>, tail |-> "none"]
  BY Zenon DEF WithMagic, EmptyFile
<1> QED
  BY <1>1, <1>2 DEF Readable, Images, Heads, Tails

\* A file without error is empty or readable.
LEMMA CleanImage ==
  ASSUME NEW img \in Images
  PROVE  /\ Clean(img) <=> img = EmptyFile \/ Readable(img)
         /\ Readable(img) => img # EmptyFile /\ img.head # "none"
         /\ Clean(img) => (img.head = "none" <=> img = EmptyFile)
BY DEF Clean, Readable, EmptyFile, Images

-----------------------------------------------------------------------------
(***************************************************************************)
(* Every step preserves the invariant.                                     *)
(***************************************************************************)

\* run loads an intact file.
LEMMA LoadCleanKeeps ==
  ASSUME StoreInv, ~ConcurrentSend, LoadClean
  PROVE  StoreInv'
<1> USE DEF StoreInv
<1>1. TypeOK'
  BY Zenon DEF LoadClean, Loaded, TypeOK, Images, PCs, Loading, Procs, MayLoad
<1>2. pc["run"] = "down" /\ pc["send"] = "down" /\ pc'["send"] = "down"
      /\ pc'["run"] \in {"down", "open"}
  BY Zenon DEF LoadClean, Loaded, MayLoad, TypeOK, Procs
<1>3. OneProcess' /\ FileKeeps' /\ MediumKeeps' /\ BufKeeps'
  BY <1>2, Zenon DEF OneProcess, FileKeeps, MediumKeeps, BufKeeps, Kept, LoadClean, Procs
<1>4. pc'["run"] = "open" => chain' = file.frames
  BY Zenon DEF LoadClean, Loaded, TypeOK, Procs
<1>5. OpenInv'
  BY <1>4, Zenon DEF OpenInv, LoadClean, Clean, EmptyFile
<1>6. UpInv' /\ AppendInv'
  BY <1>2, Zenon DEF UpInv, AppendInv, Appending
<1> QED
  BY <1>1, <1>3, <1>5, <1>6, Zenon

\* A load that finds a short tail.
LEMMA LoadNeedsRepairKeeps ==
  ASSUME StoreInv, ~ConcurrentSend, NEW p \in Procs, LoadNeedsRepair(p)
  PROVE  StoreInv'
<1> USE DEF StoreInv
<1>1. /\ file \in Images
      /\ Repaired(file) \in Images
      /\ Repaired(file).frames = file.frames
      /\ Readable(Repaired(file))
  BY RepairedImage, Zenon DEF LoadNeedsRepair, TypeOK
<1>2. TypeOK'
  BY <1>1, Zenon DEF LoadNeedsRepair, TypeOK, PCs, Loading, Procs
<1>3. /\ pc["run"] = "down" /\ pc["send"] = "down"
      /\ pc' = [pc EXCEPT ![p] = "read"]
      /\ pc'["run"] \in {"down", "read"}
      /\ pc'["send"] \in {"down", "read"}
      /\ pc'["run"] = "down" \/ pc'["send"] = "down"
  BY Zenon DEF LoadNeedsRepair, MayLoad, TypeOK, Procs
<1>4. OneProcess' /\ FileKeeps' /\ MediumKeeps'
  BY <1>3, Zenon DEF OneProcess, FileKeeps, MediumKeeps, Kept, LoadNeedsRepair, Procs
<1>5. BufKeeps'
  BY <1>1, <1>3, Zenon DEF BufKeeps, FileKeeps, Kept, LoadNeedsRepair, TypeOK, Procs
<1>6. OpenInv' /\ UpInv' /\ AppendInv'
  BY <1>3, Zenon DEF OpenInv, UpInv, AppendInv, Appending
<1> QED
  BY <1>2, <1>4, <1>5, <1>6, Zenon

\* The truncation that opens the rewrite.
LEMMA RepairTruncatesKeeps ==
  ASSUME StoreInv, NEW p \in Procs, RepairTruncates(p)
  PROVE  StoreInv'
<1> USE DEF StoreInv
<1>1. TypeOK'
  BY EmptyImages, Zenon DEF RepairTruncates, TypeOK, PCs, Loading, Procs
<1>2. /\ pc' = [pc EXCEPT ![p] = "truncated"] /\ pc'[p] = "truncated"
      /\ pc["run"] \in {"down", "read"} /\ pc["send"] \in {"down", "read", "truncated"}
      /\ pc'["run"] \in {"down", "truncated"}
  BY Zenon DEF RepairTruncates, OneProcess, TypeOK, Procs
<1>3. OneProcess' /\ FileKeeps' /\ MediumKeeps' /\ BufKeeps'
  BY <1>2, Zenon DEF OneProcess, FileKeeps, MediumKeeps, BufKeeps, Kept,
                      RepairTruncates, TypeOK, Procs
<1>4. OpenInv' /\ UpInv' /\ AppendInv'
  BY <1>2, Zenon DEF OpenInv, UpInv, AppendInv, Appending
<1> QED
  BY <1>1, <1>3, <1>4, Zenon

\* The write that closes it.
LEMMA RepairWritesKeeps ==
  ASSUME StoreInv, NEW p \in Procs, RepairWrites(p)
  PROVE  StoreInv'
<1> USE DEF StoreInv
<1>1. buf[p] \in Images /\ PartsOf(buf[p]) \subseteq Images /\ Kept(buf[p].frames)
      /\ Readable(buf[p])
  BY PartsAreImages, Zenon DEF RepairWrites, BufKeeps, TypeOK
<1>2. file' = buf[p]
  BY Zenon DEF RepairWrites, BufKeeps
<1>3. TypeOK'
  BY <1>1, <1>2 DEF RepairWrites, Loaded, TypeOK, PCs, Loading, Procs, Images
<1>4. /\ pc'["send"] = "down"
      /\ pc'["run"] \in {"down", "open"}
      /\ pc'["run"] = "open" => p = "run" /\ chain' = buf[p].frames
  BY Zenon DEF RepairWrites, Loaded, OneProcess, TypeOK, Procs
<1>5. OneProcess' /\ FileKeeps' /\ MediumKeeps' /\ BufKeeps'
  BY <1>1, <1>2, <1>4, Zenon
  DEF OneProcess, FileKeeps, MediumKeeps, BufKeeps, Kept, RepairWrites, Procs
<1>6. OpenInv'
  BY <1>1, <1>2, <1>4, Zenon DEF OpenInv, Clean, Readable
<1>7. UpInv' /\ AppendInv'
  BY <1>4, Zenon DEF UpInv, AppendInv, Appending
<1> QED
  BY <1>3, <1>5, <1>6, <1>7, Zenon

\* run opens the file it has just loaded; it is intact, so it is not refused.
LEMMA OpenAppendKeeps ==
  ASSUME StoreInv, OpenAppend \/ OpenAppendRefuses
  PROVE  StoreInv'
<1> USE DEF StoreInv
<1>1. /\ pc["run"] = "open" /\ pc["send"] = "down"
      /\ Clean(file) /\ chain = file.frames /\ Kept(file.frames)
  BY Zenon DEF OpenAppend, OpenAppendRefuses, OneProcess, OpenInv, FileKeeps, Procs
<1>2. OpenAppend
  BY <1>1 DEF OpenAppendRefuses, Clean, EmptyFile
<1>3. /\ file.head = "none" <=> file = EmptyFile
      /\ file.head = "none" => store' = [poisoned |-> FALSE, needs_magic |-> TRUE]
      /\ file.head # "none" => store' = [poisoned |-> FALSE, needs_magic |-> FALSE]
  <2>1. file.head = "none" <=> file = EmptyFile
    BY <1>1, CleanImage, Zenon DEF TypeOK
  <2> QED
    BY <1>2, <2>1, Zenon DEF OpenAppend
<1>4. store' \in [poisoned : BOOLEAN, needs_magic : BOOLEAN]
  <2>1. \A a, b \in BOOLEAN :
          [poisoned |-> a, needs_magic |-> b] \in [poisoned : BOOLEAN, needs_magic : BOOLEAN]
    BY Zenon
  <2>2. (file.head = "none") \in BOOLEAN /\ FALSE \in BOOLEAN
    BY Zenon
  <2> QED
    BY <1>2, <2>1, <2>2, Zenon DEF OpenAppend
<1>5. TypeOK'
  BY <1>2, <1>4, Zenon DEF OpenAppend, TypeOK, PCs, Procs
<1>6. pc'["run"] = "up" /\ pc'["send"] = "down"
  BY <1>1, <1>2, Zenon DEF OpenAppend, TypeOK, Procs
<1>7. OneProcess' /\ FileKeeps' /\ MediumKeeps' /\ BufKeeps'
  BY <1>1, <1>2, <1>6, Zenon
  DEF OneProcess, FileKeeps, MediumKeeps, BufKeeps, Kept, OpenAppend, Procs
<1>8. UpInv'
  BY <1>1, <1>2, <1>3, Zenon DEF UpInv, Kept, OpenAppend, Clean, EmptyFile
<1>9. OpenInv' /\ AppendInv'
  BY <1>6, Zenon DEF OpenInv, AppendInv, Appending
<1> QED
  BY <1>5, <1>7, <1>8, <1>9, Zenon

\* A block is built in memory.
LEMMA BuildBlockKeeps ==
  ASSUME StoreInv, BuildBlock
  PROVE  StoreInv'
<1> USE DEF StoreInv
<1>1. /\ pc["run"] = "up" /\ pc["send"] = "down"
      /\ Kept(chain) /\ Clean(file) /\ file.frames = chain
      /\ store.needs_magic <=> file = EmptyFile
  BY Zenon DEF BuildBlock, OneProcess, UpInv
<1>2. NewBlock \in Block
  <2>1. CASE chain = <<>>
    BY <2>1 DEF NewBlock, Block, TypeOK
  <2>2. CASE chain # <<>>
    <3>1. Last(chain) \in Block
      BY <2>2, FrontProperties, Zenon DEF TypeOK
    <3> QED
      BY <2>2, <3>1 DEF NewBlock, Block, TypeOK
  <2> QED
    BY <2>1, <2>2, Zenon
<1>3. chain' \in Seq(Block) /\ chain' # <<>> /\ Front(chain') = chain
  BY <1>2, FrontOfAppend, PrefixSelf, PrefixAppend, Zenon DEF BuildBlock, TypeOK
<1>4. /\ pc'["send"] = "down"
      /\ pc'["run"] = IF store.needs_magic THEN "magic" ELSE "frame"
  BY <1>1, Zenon DEF BuildBlock, TypeOK, Procs
<1>5. TypeOK'
  BY <1>3 DEF BuildBlock, TypeOK, PCs, Appending, Procs
<1>6. OneProcess' /\ FileKeeps' /\ MediumKeeps' /\ BufKeeps'
  BY <1>1, <1>4
  DEF OneProcess, FileKeeps, MediumKeeps, BufKeeps, Kept, BuildBlock, Procs
<1>7. AppendInv'
  <2>1. store.needs_magic \/ Readable(file)
    BY <1>1, CleanImage, Zenon DEF TypeOK
  <2> QED
    BY <1>1, <1>3, <1>4, <2>1 DEF AppendInv, Appending, Kept, BuildBlock, Readable, EmptyFile
<1>8. OpenInv' /\ UpInv'
  BY <1>4, Zenon DEF OpenInv, UpInv
<1> QED
  BY <1>5, <1>6, <1>7, <1>8, Zenon

\* The steps of an append that succeed.
LEMMA WriteMagicKeeps ==
  ASSUME StoreInv, WriteMagic
  PROVE  StoreInv'
<1> USE DEF StoreInv
<1>1. /\ pc["run"] = "magic" /\ pc["send"] = "down"
      /\ pc'["run"] = "magic_sync" /\ pc'["send"] = "down"
  BY Zenon DEF WriteMagic, OneProcess, TypeOK, Procs
<1>2. /\ file = EmptyFile /\ file.frames = Front(chain)
      /\ chain # <<>> /\ Kept(Front(chain))
  BY <1>1, Zenon DEF AppendInv, Appending
<1>3. file' \in Images /\ file'.frames = file.frames /\ Readable(file')
  BY <1>2, MagicWrite, EmptyImages, Zenon DEF WriteMagic
<1>4. \A part \in WithPart(file) : part \in Images /\ part.frames = file.frames
  BY PartialWrite, Zenon DEF TypeOK
<1>5. TypeOK'
  BY <1>3, <1>4, Zenon DEF WriteMagic, TypeOK, PCs, Appending, Procs
<1>6. OneProcess' /\ FileKeeps' /\ MediumKeeps' /\ BufKeeps'
  BY <1>1, <1>2, <1>3, <1>4, Zenon
  DEF OneProcess, FileKeeps, MediumKeeps, BufKeeps, Kept, WriteMagic, Procs
<1>7. AppendInv'
  BY <1>1, <1>2, <1>3, Zenon DEF AppendInv, Kept, WriteMagic
<1>8. OpenInv' /\ UpInv'
  BY <1>1, Zenon DEF OpenInv, UpInv
<1> QED
  BY <1>5, <1>6, <1>7, <1>8, Zenon

\* The header is durable.
LEMMA SyncMagicKeeps ==
  ASSUME StoreInv, SyncMagic
  PROVE  StoreInv'
<1> USE DEF StoreInv
<1>1. /\ pc["run"] = "magic_sync" /\ pc["send"] = "down"
      /\ pc'["run"] = "frame" /\ pc'["send"] = "down"
  BY Zenon DEF SyncMagic, OneProcess, TypeOK, Procs
<1>2. /\ Readable(file) /\ file.frames = Front(chain)
      /\ chain # <<>> /\ Kept(Front(chain))
  BY <1>1, Zenon DEF AppendInv, Appending
<1>3. TypeOK'
  BY Zenon DEF SyncMagic, TypeOK, PCs, Appending, Procs
<1>4. OneProcess' /\ FileKeeps' /\ MediumKeeps' /\ BufKeeps'
  BY <1>1, <1>2, Zenon
  DEF OneProcess, FileKeeps, MediumKeeps, BufKeeps, Kept, SyncMagic, Procs
<1>5. AppendInv'
  BY <1>1, <1>2 DEF AppendInv, Kept, SyncMagic, Readable
<1>6. OpenInv' /\ UpInv'
  BY <1>1, Zenon DEF OpenInv, UpInv
<1> QED
  BY <1>3, <1>4, <1>5, <1>6, Zenon

\* The frame is in the file.
LEMMA WriteFrameKeeps ==
  ASSUME StoreInv, WriteFrame
  PROVE  StoreInv'
<1> USE DEF StoreInv
<1>1. /\ pc["run"] = "frame" /\ pc["send"] = "down"
      /\ pc'["run"] = "frame_sync" /\ pc'["send"] = "down"
  BY Zenon DEF WriteFrame, OneProcess, TypeOK, Procs
<1>2. /\ Readable(file) /\ file.frames = Front(chain)
      /\ chain # <<>> /\ Kept(Front(chain)) /\ ~store.needs_magic
  BY <1>1, Zenon DEF AppendInv, Appending
<1>3. file' \in Images /\ file'.frames = chain /\ Readable(file')
  BY <1>2, FrameWrite, FrontProperties DEF WriteFrame, TypeOK
<1>4. \A part \in WithPart(file) : part \in Images /\ part.frames = file.frames
  BY PartialWrite, Zenon DEF TypeOK
<1>5. Kept(chain)
  BY <1>2, PrefixOfFront, Zenon DEF Kept, TypeOK
<1>6. TypeOK'
  BY <1>3, <1>4, Zenon DEF WriteFrame, TypeOK, PCs, Appending, Procs
<1>7. OneProcess' /\ FileKeeps' /\ MediumKeeps' /\ BufKeeps'
  BY <1>1, <1>2, <1>3, <1>4, <1>5, Zenon
  DEF OneProcess, FileKeeps, MediumKeeps, BufKeeps, Kept, WriteFrame, Procs
<1>8. AppendInv'
  BY <1>1, <1>2, <1>3, Zenon DEF AppendInv, Kept, WriteFrame
<1>9. OpenInv' /\ UpInv'
  BY <1>1, Zenon DEF OpenInv, UpInv
<1> QED
  BY <1>6, <1>7, <1>8, <1>9, Zenon

\* The frame is durable and the append returns.
LEMMA SyncFrameKeeps ==
  ASSUME StoreInv, SyncFrame
  PROVE  StoreInv'
<1> USE DEF StoreInv
<1>1. /\ pc["run"] = "frame_sync" /\ pc["send"] = "down"
      /\ pc'["run"] = "up" /\ pc'["send"] = "down"
  BY Zenon DEF SyncFrame, OneProcess, TypeOK, Procs
<1>2. Readable(file) /\ file.frames = chain /\ ~store.needs_magic
  BY <1>1, Zenon DEF AppendInv, Appending
<1>3. TypeOK'
  BY Zenon DEF SyncFrame, TypeOK, PCs, Procs
<1>4. IsPrefix(chain, chain)
  BY PrefixSelf, Zenon DEF TypeOK
<1>5. OneProcess' /\ FileKeeps' /\ MediumKeeps' /\ BufKeeps'
  BY <1>1, <1>2, <1>4, Zenon
  DEF OneProcess, FileKeeps, MediumKeeps, BufKeeps, Kept, SyncFrame, Procs
<1>6. UpInv'
  <2>1. file # EmptyFile
    BY <1>2, CleanImage, Zenon DEF TypeOK
  <2> QED
    BY <1>1, <1>2, <1>4, <2>1, Zenon DEF UpInv, Kept, SyncFrame, Clean, Readable, EmptyFile
<1>7. OpenInv' /\ AppendInv'
  BY <1>1, Zenon DEF OpenInv, AppendInv, Appending
<1> QED
  BY <1>3, <1>5, <1>6, <1>7, Zenon

\* What an interrupted write of the append, or of no write, leaves.
LEMMA InterruptedAppend ==
  ASSUME StoreInv, NEW p \in Procs, pc[p] # "truncated", NEW img \in Interrupted(p)
  PROVE  img \in Images /\ img.frames = file.frames
BY PartialWrite, Zenon DEF StoreInv, TypeOK, Interrupted

\* A write or a sync of the append fails.
LEMMA AppendFailsKeeps ==
  ASSUME StoreInv, AppendFails
  PROVE  StoreInv'
<1> USE DEF StoreInv
<1>1. /\ pc["run"] \in Appending /\ pc["send"] = "down"
      /\ pc'["run"] = "up" /\ pc'["send"] = "down"
  BY Zenon DEF AppendFails, OneProcess, TypeOK, Procs, Appending
<1>2. chain # <<>> /\ Kept(Front(chain)) /\ Kept(file.frames)
  BY <1>1, Zenon DEF AppendInv, FileKeeps, Procs, Appending
<1>3. file' \in Images /\ file'.frames = file.frames
  BY <1>1, InterruptedAppend, Zenon DEF AppendFails, Appending, Procs
<1>4. chain' \in Seq(Block)
  BY <1>2, FrontProperties, Zenon DEF AppendFails, TypeOK
<1>5. store' \in [poisoned : BOOLEAN, needs_magic : BOOLEAN] /\ store'.poisoned
  BY Zenon DEF AppendFails, TypeOK
<1>6. TypeOK'
  BY <1>3, <1>4, <1>5, Zenon DEF AppendFails, TypeOK, PCs, Procs
<1>7. OneProcess' /\ FileKeeps' /\ MediumKeeps' /\ BufKeeps'
  BY <1>1, <1>2, <1>3, Zenon
  DEF OneProcess, FileKeeps, MediumKeeps, BufKeeps, Kept, AppendFails, Procs
<1>8. UpInv'
  BY <1>2, <1>5, Zenon DEF UpInv, Kept, AppendFails
<1>9. OpenInv' /\ AppendInv'
  BY <1>1, Zenon DEF OpenInv, AppendInv, Appending
<1> QED
  BY <1>6, <1>7, <1>8, <1>9, Zenon

\* A process ends outside the window of a rewrite.
LEMMA KillKeeps ==
  ASSUME StoreInv, ~RepairFaults, NEW p \in Procs, Kill(p)
  PROVE  StoreInv'
<1> USE DEF StoreInv
<1>1. /\ pc[p] # "down" /\ pc[p] # "truncated"
      /\ pc'["run"] = "down" /\ pc'["send"] = "down"
      /\ pc["run"] # "truncated" /\ pc["send"] # "truncated"
  BY Zenon DEF Kill, OneProcess, TypeOK, Procs
<1>2. file' \in Images /\ file'.frames = file.frames /\ Kept(file.frames)
  BY <1>1, InterruptedAppend, Zenon DEF Kill, FileKeeps, Procs
<1>3. chain' \in Seq(Block)
  BY DEF Kill, TypeOK
<1>4. rewritten' = rewritten
  BY <1>1, Zenon DEF Kill, TypeOK
<1>5. TypeOK'
  BY <1>2, <1>3, <1>4, Zenon DEF Kill, TypeOK, PCs, Procs
<1>6. OneProcess' /\ FileKeeps' /\ MediumKeeps' /\ BufKeeps'
  BY <1>1, <1>2, <1>4, Zenon
  DEF OneProcess, FileKeeps, MediumKeeps, BufKeeps, Kept, Kill, Procs
<1>7. OpenInv' /\ UpInv' /\ AppendInv'
  BY <1>1, Zenon DEF OpenInv, UpInv, AppendInv, Appending
<1> QED
  BY <1>5, <1>6, <1>7, Zenon

\* The power fails when no rewrite is pending.
LEMMA PowerLossKeeps ==
  ASSUME StoreInv, ~RepairFaults, PowerLoss
  PROVE  StoreInv'
<1> USE DEF StoreInv
<1>1. /\ pc'["run"] = "down" /\ pc'["send"] = "down"
      /\ file' \in Images /\ Kept(file'.frames)
  BY Zenon DEF PowerLoss, MediumKeeps, TypeOK, Procs
<1>2. chain' \in Seq(Block)
  BY DEF PowerLoss
<1>3. TypeOK'
  BY <1>1, <1>2, Zenon DEF PowerLoss, TypeOK, PCs, Procs
<1>4. OneProcess' /\ FileKeeps' /\ MediumKeeps' /\ BufKeeps'
  BY <1>1, Zenon DEF OneProcess, FileKeeps, MediumKeeps, BufKeeps, Kept, PowerLoss, Procs
<1>5. OpenInv' /\ UpInv' /\ AppendInv'
  BY <1>1, Zenon DEF OpenInv, UpInv, AppendInv, Appending
<1> QED
  BY <1>3, <1>4, <1>5, Zenon

-----------------------------------------------------------------------------
(***************************************************************************)
(* The theorems.                                                           *)
(***************************************************************************)

\* Every step of the store, or of nothing, preserves the invariant.
LEMMA StepKeeps ==
  ASSUME ~RepairFaults, ~ConcurrentSend, StoreInv, [Next]_vars
  PROVE  StoreInv'
<1>1. CASE Load
  BY <1>1, LoadCleanKeeps, LoadNeedsRepairKeeps, RepairTruncatesKeeps,
     RepairWritesKeeps, OpenAppendKeeps, Zenon DEF Load
<1>2. CASE AppendBlock
  BY <1>2, BuildBlockKeeps, WriteMagicKeeps, SyncMagicKeeps, WriteFrameKeeps,
     SyncFrameKeeps, AppendFailsKeeps, Zenon DEF AppendBlock
<1>3. CASE \E p \in Procs : Kill(p)
  BY <1>3, KillKeeps, Zenon
<1>4. CASE PowerLoss
  BY <1>4, PowerLossKeeps, Zenon
<1>5. CASE UNCHANGED vars
  BY <1>5 DEF vars, StoreInv, TypeOK, OneProcess, FileKeeps, MediumKeeps, BufKeeps,
     OpenInv, UpInv, AppendInv, Kept, Clean, Readable
<1> QED
  BY <1>1, <1>2, <1>3, <1>4, <1>5, Zenon DEF Next

\* A new or a legacy data directory satisfies it.
LEMMA InitKeeps ==
  ASSUME Init
  PROVE  StoreInv
<1>1. file \in Images /\ file.frames \in Seq(Block)
  <2> DEFINE b == [id |-> 1, parent |-> 0]
             old == [head |-> "legacy", frames |-> <<b>>, tail |-> "none"]
  <2>1. b \in Block
    BY DEF Block
  <2> HIDE DEF b
  <2>2. <<b>> \in Seq(Block)
    BY <2>1
  <2>3. old \in Images
    BY <2>2, Zenon DEF Images, Heads, Tails
  <2>4. file \in {EmptyFile, old}
    BY Zenon DEF Init, b
  <2> QED
    BY <2>3, <2>4, EmptyImages, Zenon DEF Images
<1>2. TypeOK
  <2>1. chain \in Seq(Block)
    BY DEF Init
  <2>2. built \in Nat
    BY <1>1 DEF Init
  <2>3. store \in [poisoned : BOOLEAN, needs_magic : BOOLEAN]
    BY Zenon DEF Init
  <2>4. acked \in Seq(Block) /\ survivors \subseteq Images /\ rewritten \in BOOLEAN
    BY <1>1, Zenon DEF Init
  <2>5. pc \in [Procs -> PCs] /\ buf \in [Procs -> Images]
    BY EmptyImages, Zenon DEF Init, PCs
  <2> QED
    BY <1>1, <2>1, <2>2, <2>3, <2>4, <2>5, Zenon DEF TypeOK, Init, Procs
<1>3. IsPrefix(acked, file.frames)
  BY <1>1, PrefixSelf, Zenon DEF Init
<1>4. pc["run"] = "down" /\ pc["send"] = "down"
  BY Zenon DEF Init, Procs
<1>5. OneProcess /\ FileKeeps /\ MediumKeeps /\ BufKeeps
  BY <1>3, <1>4, Zenon DEF Init, OneProcess, FileKeeps, MediumKeeps, BufKeeps, Kept, Procs
<1>6. OpenInv /\ UpInv /\ AppendInv
  BY <1>4, Zenon DEF OpenInv, UpInv, AppendInv, Appending
<1> QED
  BY <1>2, <1>5, <1>6, Zenon DEF StoreInv

\* The inductive invariant holds in every reachable state.
THEOREM StoreInvariant ==
  ASSUME ~RepairFaults, ~ConcurrentSend
  PROVE  Spec => []StoreInv
<1>1. Init => StoreInv
  BY InitKeeps, Zenon
<1>2. StoreInv /\ [Next]_vars => StoreInv'
  BY StepKeeps, Zenon
<1> QED
  BY <1>1, <1>2, PTL DEF Spec

\* No crash, failed append or repair of a short tail makes a node serve a chain
\* without a block whose append was acknowledged.
THEOREM AcknowledgedBlocksAreServed ==
  ASSUME ~RepairFaults, ~ConcurrentSend
  PROVE  Spec => []NoSilentLoss
<1>1. StoreInv => NoSilentLoss
  <2> SUFFICES ASSUME StoreInv, Serving PROVE IsPrefix(acked, chain)
    BY Zenon DEF NoSilentLoss
  <2>1. CASE pc["run"] = "up"
    BY <2>1, Zenon DEF StoreInv, UpInv, Kept
  <2>2. CASE pc["run"] \in Appending
    BY <2>2, PrefixOfFront, Zenon DEF StoreInv, AppendInv, TypeOK, Kept
  <2> QED
    BY <2>1, <2>2, Zenon DEF Serving
<1> QED
  BY <1>1, StoreInvariant, PTL

\* Between the appends of a healthy store, file and memory hold the same blocks.
THEOREM FileAndMemoryAgree ==
  ASSUME ~RepairFaults, ~ConcurrentSend
  PROVE  Spec => []MemoryMatchesFile
<1>1. StoreInv => MemoryMatchesFile
  BY Zenon DEF StoreInv, UpInv, MemoryMatchesFile
<1> QED
  BY <1>1, StoreInvariant, PTL

\* Whatever a power loss leaves has every acknowledged block.
THEOREM AcknowledgedBlocksAreDurable ==
  ASSUME ~RepairFaults, ~ConcurrentSend
  PROVE  Spec => []AckedOnMedium
<1>1. StoreInv => AckedOnMedium
  BY Zenon DEF StoreInv, MediumKeeps, Kept, AckedOnMedium
<1> QED
  BY <1>1, StoreInvariant, PTL

-----------------------------------------------------------------------------
(***************************************************************************)
(* The store implements DurableLog.                                        *)
(***************************************************************************)

\* Every step is an acknowledgement, a recovery, a stop, or invisible.
LEMMA StepRefines ==
  ASSUME ~RepairFaults, ~ConcurrentSend, StoreInv, StoreInv', [Next]_vars
  PROVE  [Log!Next]_(Log!vars)
<1> DEFINE run == pc["run"]
<1>1. /\ run = "up" => Serving = TRUE /\ View = chain
      /\ run \in Appending => Serving = TRUE /\ View = Front(chain)
      /\ run \notin {"up"} \cup Appending => Serving = FALSE /\ View = <<>>
  BY DEF Serving, View, Appending
<1>2. /\ run' = "up" => Serving' = TRUE /\ View' = chain'
      /\ run' \in Appending => Serving' = TRUE /\ View' = Front(chain')
      /\ run' \notin {"up"} \cup Appending => Serving' = FALSE /\ View' = <<>>
  BY DEF Serving, View, Appending
<1>3. /\ chain \in Seq(Block) /\ chain' \in Seq(Block) /\ acked \in Seq(Block)
      /\ pc \in [Procs -> PCs]
  BY Zenon DEF StoreInv, TypeOK
<1> DEFINE quiet == acked' = acked /\ View' = View /\ Serving' = Serving
<1>4. ASSUME quiet PROVE [Log!Next]_(Log!vars)
  BY <1>4, Zenon DEF Log!vars
<1>5. CASE Load
  <2>1. CASE LoadClean \/ \E p \in Procs :
               LoadNeedsRepair(p) \/ RepairTruncates(p) \/ RepairWrites(p)
    <3>1. acked' = acked
      BY <2>1, Zenon DEF LoadClean, LoadNeedsRepair, RepairTruncates, RepairWrites
    <3>2. run \notin {"up"} \cup Appending /\ run' \notin {"up"} \cup Appending
      BY <2>1, <1>3 DEF LoadClean, LoadNeedsRepair, RepairTruncates, RepairWrites,
                        Loaded, MayLoad, Appending, Procs, StoreInv, OneProcess
    <3> QED
      BY <3>1, <3>2, <1>1, <1>2, <1>4, Zenon
  <2>2. CASE OpenAppendRefuses
    <3>1. /\ acked' = acked
          /\ run \notin {"up"} \cup Appending /\ run' \notin {"up"} \cup Appending
      BY <2>2, <1>3, Zenon DEF OpenAppendRefuses, Appending, Procs
    <3> QED
      BY <3>1, <1>1, <1>2, <1>4, Zenon
  <2>3. CASE OpenAppend
    <3>1. acked' = acked /\ run = "open" /\ run' = "up"
      BY <2>3, <1>3, Zenon DEF OpenAppend, Procs
    <3>2. IsPrefix(acked, chain')
      BY <3>1, Zenon DEF StoreInv, UpInv, Kept
    <3>3. Log!IsPrefix(acked, chain')
      BY <3>2, Zenon DEF Log!IsPrefix, IsPrefix
    <3>4. Log!Recover
      BY <3>1, <3>3, <1>1, <1>2, <1>3, Zenon DEF Log!Recover, Appending
    <3> QED
      BY <3>4, Zenon DEF Log!Next
  <2> QED
    BY <1>5, <2>1, <2>2, <2>3, Zenon DEF Load
<1>6. CASE AppendBlock
  <2>1. CASE BuildBlock
    <3>1. acked' = acked /\ run = "up" /\ run' \in Appending
      BY <2>1, <1>3, Zenon DEF BuildBlock, Appending, Procs
    <3>2. Front(chain') = chain
      <4>1. \E b \in Block : chain' = Append(chain, b)
        <5>1. chain' = Append(chain, Last(chain'))  /\ chain' # <<>>
          BY <2>1, <1>3 DEF BuildBlock, Last
        <5>2. Last(chain') \in Block
          BY <5>1, <1>3, FrontProperties, Zenon
        <5> QED
          BY <5>1, <5>2, Zenon
      <4> QED
        BY <4>1, <1>3, FrontOfAppend, Zenon
    <3> QED
      BY <3>1, <3>2, <1>1, <1>2, <1>4, Zenon
  <2>2. CASE WriteMagic \/ SyncMagic \/ WriteFrame
    <3>1. acked' = acked /\ chain' = chain /\ run \in Appending /\ run' \in Appending
      BY <2>2, <1>3, Zenon DEF WriteMagic, SyncMagic, WriteFrame, Appending, Procs
    <3> QED
      BY <3>1, <1>1, <1>2, <1>4, Zenon
  <2>3. CASE SyncFrame
    <3>1. /\ run = "frame_sync" /\ run' = "up"
          /\ chain' = chain /\ acked' = chain /\ chain # <<>>
      BY <2>3, <1>3, Zenon DEF SyncFrame, Procs, StoreInv, AppendInv, Appending
    <3>2. Len(chain) = Len(Front(chain)) + 1 /\ IsPrefix(Front(chain), chain)
      BY <3>1, <1>3, FrontPrefix, Zenon
    <3>3. Log!IsPrefix(Front(chain), chain)
      BY <3>2, Zenon DEF Log!IsPrefix, IsPrefix
    <3>4. Log!Acknowledge
      BY <3>1, <3>2, <3>3, <1>1, <1>2, <1>3, Zenon DEF Log!Acknowledge, Appending
    <3> QED
      BY <3>4, Zenon DEF Log!Next
  <2>4. CASE AppendFails
    <3>1. acked' = acked /\ chain' = Front(chain) /\ run \in Appending /\ run' = "up"
      BY <2>4, <1>3, Zenon DEF AppendFails, Procs
    <3> QED
      BY <3>1, <1>1, <1>2, <1>4, Zenon
  <2> QED
    BY <1>6, <2>1, <2>2, <2>3, <2>4, Zenon DEF AppendBlock
<1>7. ASSUME acked' = acked, run' = "down" PROVE [Log!Next]_(Log!vars)
  <2>1. Serving' = FALSE /\ View' = <<>>
    BY <1>7, <1>2, Zenon DEF Appending
  <2>2. CASE Serving
    BY <1>7, <2>1, <2>2, Zenon DEF Log!Stop, Log!Next
  <2>3. CASE ~Serving
    <3>1. Serving = FALSE /\ View = <<>>
      BY <2>3, <1>1, Zenon
    <3> QED
      BY <1>4, <1>7, <2>1, <3>1, Zenon
  <2> QED
    BY <2>2, <2>3, Zenon
<1>8. CASE \E p \in Procs : Kill(p)
  BY <1>3, <1>7, <1>8, Zenon DEF Kill, Procs, StoreInv, OneProcess
<1>9. CASE PowerLoss
  BY <1>7, <1>9, Zenon DEF PowerLoss, Procs
<1>10. CASE UNCHANGED vars
  BY <1>4, <1>10, Zenon DEF vars, View, Serving
<1> QED
  BY <1>5, <1>6, <1>8, <1>9, <1>10, Zenon DEF Next

\* The store implements the abstract durable log.
THEOREM StoreRefinesLog ==
  ASSUME ~RepairFaults, ~ConcurrentSend
  PROVE  Spec => ImplementsDurableLog
<1>1. Init => Log!Init
  <2> SUFFICES ASSUME Init PROVE Log!Init
    BY Zenon
  <2>1. pc["run"] = "down"
    BY Zenon DEF Init, Procs
  <2>2. Serving = FALSE /\ View = <<>>
    BY <2>1 DEF Serving, View, Appending
  <2>3. acked \in Seq(Block)
    BY InitKeeps, Zenon DEF StoreInv, TypeOK
  <2> QED
    BY <2>2, <2>3, Zenon DEF Log!Init
<1>2. StoreInv /\ StoreInv' /\ [Next]_vars => [Log!Next]_(Log!vars)
  BY StepRefines, Zenon
<1> QED
  BY <1>1, <1>2, StoreInvariant, PTL DEF Spec, ImplementsDurableLog, Log!Spec

-----------------------------------------------------------------------------
(***************************************************************************)
(* With crashes inside a repair and a concurrent `send`.  Acknowledged     *)
(* blocks can be lost then, but what is served still replays, and only the *)
(* repair takes them out of the file.                                      *)
(*                                                                         *)
(* A block that is being appended is new: no image, and no acknowledged    *)
(* chain, has it.  Otherwise writing a frame could complete an             *)
(* acknowledged prefix that the file had lost, while an older image that   *)
(* lacks it may still be what a power loss leaves.                         *)
(***************************************************************************)
Old(frames, n) ==
  frames \in Seq(Block) /\ \A i \in 1 .. Len(frames) : frames[i].id <= n

OldImages(n) == {img \in Images : Old(img.frames, n)}

\* Everything stored or in memory was built before.
Stored ==
  /\ built \in Nat
  /\ file \in OldImages(built)
  /\ survivors \subseteq OldImages(built)
  /\ rewritten \in BOOLEAN
  /\ pc \in [Procs -> PCs]
  /\ buf \in [Procs -> OldImages(built)]
  /\ Old(chain, built)
  /\ store \in [poisoned : BOOLEAN, needs_magic : BOOLEAN]
  /\ Old(acked, built)

HasChain == {"open", "up"} \cup Appending

Linear == pc["run"] \in HasChain => Replays(chain)

Fresh ==
  pc["run"] \in Appending =>
    /\ chain # <<>>
    /\ Last(chain).id = built
    /\ \A i \in 1 .. Len(acked) : acked[i].id < built

\* Once a rewrite is synced, what a power loss leaves is no shorter than the file.
MediumFollows ==
  ~rewritten /\ Kept(file.frames) => \A img \in survivors : Kept(img.frames)

FaultInv == Stored /\ Linear /\ Fresh /\ MediumFollows

\* Images that hold no new block.
LEMMA OldParts ==
  ASSUME NEW n \in Nat, NEW img \in OldImages(n)
  PROVE  /\ EmptyFile \in OldImages(n) /\ TornHead \in OldImages(n)
         /\ Repaired(img) \in OldImages(n)
         /\ \A t \in Tails : [img EXCEPT !.tail = t] \in OldImages(n)
         /\ PartsOf(img) \subseteq OldImages(n)
<1>1. /\ img \in Images /\ img.frames \in Seq(Block) /\ Len(img.frames) \in Nat
      /\ \A i \in 1 .. Len(img.frames) : img.frames[i].id <= n
  BY DEF OldImages, Old
<1>2. EmptyFile \in OldImages(n) /\ TornHead \in OldImages(n)
  <2>1. Old(<<>>, n)
    BY DEF Old
  <2> QED
    BY <2>1, EmptyImages, Zenon DEF OldImages
<1>3. ASSUME NEW t \in Tails PROVE [img EXCEPT !.tail = t] \in OldImages(n)
  <2>1. [img EXCEPT !.tail = t] \in Images /\ [img EXCEPT !.tail = t].frames = img.frames
    BY <1>1, Zenon DEF Images
  <2> QED
    BY <1>1, <2>1, Zenon DEF OldImages, Old
<1>4. Repaired(img) \in OldImages(n)
  BY <1>3, Zenon DEF Repaired, Tails
<1>5. PartsOf(img) \subseteq OldImages(n)
  <2> DEFINE first == IF img.head = "v2" THEN 0 ELSE 1
             part(k, t) == [img EXCEPT !.frames = SubSeq(@, 1, k), !.tail = t]
  <2>1. PartsOf(img) =
          {EmptyFile, TornHead} \cup {part(k, t) : k \in first .. Len(img.frames), t \in Tails}
    BY DEF PartsOf
  <2>2. ASSUME NEW k \in first .. Len(img.frames), NEW t \in Tails
        PROVE  part(k, t) \in OldImages(n)
    <3>1. k \in 0 .. Len(img.frames)
      BY <1>1
    <3>2. part(k, t).frames = SubSeq(img.frames, 1, k)
      BY <1>1, Zenon DEF Images
    <3> HIDE DEF first, part
    <3>3. part(k, t) \in Images
      BY <1>1, <2>1, PartsAreImages
    <3>4. /\ SubSeq(img.frames, 1, k) \in Seq(Block) /\ Len(SubSeq(img.frames, 1, k)) = k
          /\ \A i \in 1 .. k : SubSeq(img.frames, 1, k)[i] = img.frames[i]
      BY <1>1, <3>1
    <3>5. Old(part(k, t).frames, n)
      BY <1>1, <3>1, <3>2, <3>4 DEF Old
    <3> QED
      BY <3>3, <3>5, Zenon DEF OldImages
  <2> HIDE DEF first, part
  <2> QED
    BY <1>2, <2>1, <2>2
<1> QED
  BY <1>2, <1>3, <1>4, <1>5, Zenon

\* The writes of an append, on any image.
LEMMA OldWrites ==
  ASSUME NEW n \in Nat, NEW img \in OldImages(n), NEW b \in Block, b.id <= n
  PROVE  /\ WithMagic(img) \in OldImages(n) /\ WithMagic(img).frames = img.frames
         /\ WithFrame(img, b) \in OldImages(n)
         /\ WithFrame(img, b).frames \in {img.frames, Append(img.frames, b)}
         /\ \A part \in WithPart(img) : part \in OldImages(n) /\ part.frames = img.frames
<1>1. /\ img \in Images /\ img.frames \in Seq(Block) /\ Len(img.frames) \in Nat
      /\ \A i \in 1 .. Len(img.frames) : img.frames[i].id <= n
  BY DEF OldImages, Old
<1>2. \A part \in WithPart(img) : part \in OldImages(n) /\ part.frames = img.frames
  BY <1>1, PartialWrite, Zenon DEF OldImages
<1>3. Garbled(img) \in OldImages(n) /\ Garbled(img).frames = img.frames
  BY <1>1, EmptyImages, Zenon DEF Garbled, OldImages, Images, Tails
<1>4. WithMagic(img) \in OldImages(n) /\ WithMagic(img).frames = img.frames
  BY <1>1, <1>3, Zenon DEF WithMagic, OldImages, Images, Heads
<1>5. CASE Readable(img)
  <2>1. WithFrame(img, b) \in Images /\ WithFrame(img, b).frames = Append(img.frames, b)
    BY <1>1, <1>5, FrameWrite, Zenon
  <2>2. Old(Append(img.frames, b), n)
    <3> DEFINE s == img.frames
               u == Append(s, b)
    <3>1. /\ u \in Seq(Block) /\ Len(u) = Len(s) + 1 /\ u[Len(s) + 1] = b
          /\ \A i \in 1 .. Len(s) : u[i] = s[i]
      BY <1>1
    <3> HIDE DEF u
    <3>2. \A i \in 1 .. Len(u) : i \in 1 .. Len(s) \/ i = Len(s) + 1
      BY <1>1, <3>1
    <3>3. Old(u, n)
      BY <1>1, <3>1, <3>2, Zenon DEF Old
    <3> QED
      BY <3>3, Zenon DEF u
  <2> QED
    BY <1>2, <1>4, <2>1, <2>2, Zenon DEF OldImages
<1>6. CASE ~Readable(img)
  BY <1>2, <1>3, <1>4, <1>6, Zenon DEF WithFrame
<1> QED
  BY <1>5, <1>6, Zenon


\* A block on the tip keeps the chain linear, and so does taking it back.
LEMMA LinearChains ==
  ASSUME Stored, Replays(chain)
  PROVE  /\ NewBlock \in Block /\ NewBlock.id = built + 1
         /\ Replays(Append(chain, NewBlock))
         /\ chain # <<>> => Replays(Front(chain))
<1>1. /\ chain \in Seq(Block) /\ Len(chain) \in Nat /\ DOMAIN chain = 1 .. Len(chain)
      /\ built \in Nat
  BY DEF Stored, Old
<1>2. NewBlock \in Block /\ NewBlock.id = built + 1
  <2>1. chain # <<>> => Last(chain) \in Block
    BY <1>1, FrontProperties, Zenon
  <2> QED
    BY <1>1, <2>1 DEF NewBlock, Block
<1>3. NewBlock.parent = IF Len(chain) + 1 = 1 THEN 0 ELSE chain[Len(chain) + 1 - 1].id
  BY <1>1 DEF NewBlock, Last
<1>4. Replays(Append(chain, NewBlock))
  <2> DEFINE u == Append(chain, NewBlock)
  <2>1. /\ DOMAIN u = 1 .. Len(chain) + 1 /\ u[Len(chain) + 1] = NewBlock
        /\ \A i \in 1 .. Len(chain) : u[i] = chain[i]
    BY <1>1, <1>2
  <2> HIDE DEF u
  <2>2. ASSUME NEW i \in 1 .. Len(chain) + 1
        PROVE  u[i].parent = IF i = 1 THEN 0 ELSE u[i - 1].id
    <3>1. i # 1 => i - 1 \in 1 .. Len(chain)
      BY <1>1
    <3>2. CASE i = Len(chain) + 1
      BY <1>3, <2>1, <3>1, <3>2
    <3>3. CASE i # Len(chain) + 1
      <4>1. i \in 1 .. Len(chain)
        BY <1>1, <3>3
      <4> QED
        BY <1>1, <2>1, <3>1, <4>1, Zenon DEF Replays
    <3> QED
      BY <3>2, <3>3, Zenon
  <2>3. Replays(u)
    BY <2>1, <2>2, Zenon DEF Replays
  <2> QED
    BY <2>3, Zenon DEF u
<1>5. ASSUME chain # <<>> PROVE Replays(Front(chain))
  <2>1. /\ Front(chain) \in Seq(Block) /\ Len(Front(chain)) = Len(chain) - 1
        /\ \A i \in 1 .. Len(chain) - 1 : Front(chain)[i] = chain[i]
    BY <1>1, <1>5, FrontProperties, Zenon
  <2>2. DOMAIN Front(chain) = 1 .. Len(chain) - 1
    BY <2>1
  <2>3. ASSUME NEW i \in 1 .. Len(chain) - 1
        PROVE  Front(chain)[i].parent = IF i = 1 THEN 0 ELSE Front(chain)[i - 1].id
    <3>1. i \in 1 .. Len(chain) /\ (i # 1 => i - 1 \in 1 .. Len(chain) - 1)
      BY <1>1
    <3> QED
      BY <1>1, <2>1, <3>1, Zenon DEF Replays
  <2> QED
    BY <2>2, <2>3, Zenon DEF Replays
<1> QED
  BY <1>2, <1>4, <1>5, Zenon

\* What a step does to the file and to what a power loss may leave of it.
FileRepaired ==
  rewritten' = TRUE /\ \E p \in Procs : pc[p] \in {"read", "truncated"}

FileSynced == survivors' = {file'} /\ rewritten' = FALSE /\ file' = file

FileLost ==
  /\ file' \in survivors /\ survivors' = {file'} /\ rewritten' = FALSE
  /\ acked' = acked

FileKept ==
  /\ UNCHANGED <<rewritten, acked>>
  /\ file'.frames = file.frames
  /\ \A img \in survivors' : img \in survivors \/ img.frames = file.frames

FileGrown ==
  /\ UNCHANGED <<rewritten, acked>>
  /\ pc["run"] \in Appending
  /\ file'.frames = Append(file.frames, Last(chain))
  /\ \A img \in survivors' : img \in survivors \/ img.frames \in {file.frames, file'.frames}

FileKind == FileRepaired \/ FileSynced \/ FileLost \/ FileKept \/ FileGrown

StoreStep == Stored' /\ Linear' /\ Fresh' /\ FileKind

\* A step of run or send that leaves image and chain alone.
LEMMA QuietStoreStep ==
  ASSUME FaultInv, UNCHANGED <<file, survivors, rewritten, buf, chain, built, acked>>,
         store' \in [poisoned : BOOLEAN, needs_magic : BOOLEAN],
         pc' \in [Procs -> PCs],
         pc'["run"] \in HasChain => pc["run"] \in HasChain,
         pc'["run"] \in Appending => pc["run"] \in Appending
  PROVE  StoreStep
<1>1. Stored' /\ Linear' /\ Fresh'
  BY Zenon DEF FaultInv, Stored, Linear, Fresh
<1> QED
  BY <1>1, Zenon DEF StoreStep, FileKind, FileKept

\* Loads.
LEMMA LoadStep ==
  ASSUME FaultInv, Load
  PROVE  StoreStep
<1>1. /\ Stored /\ built \in Nat /\ file \in OldImages(built) /\ pc \in [Procs -> PCs]
      /\ buf \in [Procs -> OldImages(built)]
      /\ Old(file.frames, built) /\ Old(chain, built)
  BY Zenon DEF FaultInv, Stored, OldImages
<1>2. Appending \subseteq HasChain /\ "down" \notin HasChain
      /\ Appending = {"magic", "magic_sync", "frame", "frame_sync"}
      /\ HasChain \cap {"read", "truncated"} = {} /\ "open" \notin Appending
  BY Zenon DEF HasChain, Appending
<1>3. ASSUME NEW p \in Procs, NEW frames, Old(frames, built), Loaded(p, frames),
             pc[p] \in {"down", "truncated"}
      PROVE  /\ pc' \in [Procs -> PCs] /\ Old(chain', built)
             /\ pc'["run"] \in HasChain => Replays(chain')
             /\ pc'["run"] \in Appending => pc["run"] \in Appending /\ chain' = chain
  <2>1. CASE p = "run" /\ Replays(frames)
    <3>1. chain' = frames /\ pc' = [pc EXCEPT !["run"] = "open"]
      BY <1>3, <2>1, Zenon DEF Loaded
    <3>2. pc' \in [Procs -> PCs] /\ pc'["run"] = "open"
      BY <1>1, <3>1, Zenon DEF Procs, PCs, Loading
    <3> QED
      BY <1>2, <1>3, <2>1, <3>1, <3>2, Zenon
  <2>2. CASE ~(p = "run" /\ Replays(frames))
    <3>1. chain' = chain /\ pc' = [pc EXCEPT ![p] = "down"]
      BY <1>3, <2>2, Zenon DEF Loaded
    <3>2. pc' \in [Procs -> PCs] /\ pc'["run"] \in {"down", pc["run"]}
      BY <1>1, <3>1, Zenon DEF Procs, PCs
    <3> QED
      BY <1>1, <1>2, <3>1, <3>2, Zenon DEF FaultInv, Linear
  <2> QED
    BY <2>1, <2>2, Zenon
<1>4. CASE LoadClean
  <2>1. /\ Loaded("run", file.frames) /\ "run" \in Procs /\ pc["run"] = "down"
        /\ UNCHANGED <<file, survivors, rewritten, buf, store, built, acked>>
    BY <1>4, Zenon DEF LoadClean, MayLoad, Procs
  <2>2. /\ pc' \in [Procs -> PCs] /\ Old(chain', built)
        /\ pc'["run"] \in HasChain => Replays(chain')
        /\ pc'["run"] \in Appending => pc["run"] \in Appending /\ chain' = chain
    BY <1>1, <1>3, <2>1, Zenon
  <2>3. Stored' /\ Linear' /\ Fresh'
    BY <2>1, <2>2, Zenon DEF FaultInv, Stored, Linear, Fresh
  <2> QED
    BY <2>1, <2>3, Zenon DEF StoreStep, FileKind, FileKept
<1>5. ASSUME NEW p \in Procs, LoadNeedsRepair(p)
      PROVE  StoreStep
  <2>1. /\ buf' = [buf EXCEPT ![p] = Repaired(file)] /\ pc' = [pc EXCEPT ![p] = "read"]
        /\ UNCHANGED <<file, survivors, rewritten, chain, store, built, acked>>
    BY <1>5, Zenon DEF LoadNeedsRepair
  <2>2. buf' \in [Procs -> OldImages(built)]
    BY <1>1, <2>1, OldParts, Zenon
  <2>3. pc' \in [Procs -> PCs] /\ pc'["run"] \in {"read", pc["run"]}
    BY <1>1, <2>1, Zenon DEF Procs, PCs, Loading
  <2>4. Stored' /\ Linear' /\ Fresh'
    BY <1>2, <2>1, <2>2, <2>3, Zenon DEF FaultInv, Stored, Linear, Fresh
  <2> QED
    BY <2>1, <2>4, Zenon DEF StoreStep, FileKind, FileKept
<1>6. ASSUME NEW p \in Procs, RepairTruncates(p)
      PROVE  StoreStep
  <2>1. /\ pc[p] = "read" /\ pc' = [pc EXCEPT ![p] = "truncated"]
        /\ file' = EmptyFile /\ survivors' = survivors \cup {EmptyFile} /\ rewritten' = TRUE
        /\ UNCHANGED <<buf, chain, store, built, acked>>
    BY <1>6, Zenon DEF RepairTruncates
  <2>2. EmptyFile \in OldImages(built)
    BY <1>1, OldParts, Zenon
  <2>3. pc' \in [Procs -> PCs] /\ pc'["run"] \in {"truncated", pc["run"]}
    BY <1>1, <2>1, Zenon DEF Procs, PCs, Loading
  <2>4. Stored' /\ Linear' /\ Fresh'
    BY <1>2, <2>1, <2>2, <2>3, Zenon DEF FaultInv, Stored, Linear, Fresh
  <2> QED
    BY <2>1, <2>4, Zenon DEF StoreStep, FileKind, FileRepaired
<1>7. ASSUME NEW p \in Procs, RepairWrites(p)
      PROVE  StoreStep
  <2>1. /\ pc[p] = "truncated" /\ Loaded(p, buf[p].frames)
        /\ file' = buf[p] \/ \E t \in Tails : file' = [buf[p] EXCEPT !.tail = t]
        /\ survivors' = survivors \cup PartsOf(buf[p]) \cup {file'} /\ rewritten' = TRUE
        /\ UNCHANGED <<buf, store, built, acked>>
    BY <1>7, Zenon DEF RepairWrites
  <2>2. buf[p] \in OldImages(built) /\ Old(buf[p].frames, built)
    BY <1>1, Zenon DEF OldImages
  <2>3. file' \in OldImages(built) /\ PartsOf(buf[p]) \subseteq OldImages(built)
    BY <1>1, <2>1, <2>2, OldParts, Zenon
  <2>4. /\ pc' \in [Procs -> PCs] /\ Old(chain', built)
        /\ pc'["run"] \in HasChain => Replays(chain')
        /\ pc'["run"] \in Appending => pc["run"] \in Appending /\ chain' = chain
    BY <1>3, <2>1, <2>2, Zenon
  <2>5. Stored' /\ Linear' /\ Fresh'
    BY <2>1, <2>3, <2>4, Zenon DEF FaultInv, Stored, Linear, Fresh
  <2> QED
    BY <2>1, <2>5, Zenon DEF StoreStep, FileKind, FileRepaired
<1>8. CASE OpenAppend
  <2>1. /\ pc["run"] = "open" /\ pc' = [pc EXCEPT !["run"] = "up"]
        /\ store' \in [poisoned : BOOLEAN, needs_magic : BOOLEAN]
        /\ UNCHANGED <<file, survivors, rewritten, buf, chain, built, acked>>
    BY <1>8, Zenon DEF OpenAppend
  <2>2. pc' \in [Procs -> PCs] /\ pc'["run"] = "up" /\ "up" \notin Appending
    BY <1>1, <2>1, Zenon DEF Procs, PCs, Appending
  <2> QED
    BY <2>1, <2>2, QuietStoreStep, Zenon DEF HasChain
<1>9. CASE OpenAppendRefuses
  <2>1. /\ pc' = [pc EXCEPT !["run"] = "down"] /\ chain' = <<>>
        /\ UNCHANGED <<file, survivors, rewritten, buf, store, built, acked>>
    BY <1>9, Zenon DEF OpenAppendRefuses
  <2>2. pc' \in [Procs -> PCs] /\ pc'["run"] = "down"
    BY <1>1, <2>1, Zenon DEF Procs, PCs
  <2>3. Old(<<>>, built)
    BY DEF Old
  <2>4. Stored' /\ Linear' /\ Fresh'
    BY <1>2, <2>1, <2>2, <2>3, Zenon DEF FaultInv, Stored, Linear, Fresh
  <2> QED
    BY <2>1, <2>4, Zenon DEF StoreStep, FileKind, FileKept
<1> QED
  BY <1>4, <1>5, <1>6, <1>7, <1>8, <1>9, Zenon DEF Load


\* What an interrupted write of p leaves.
LEMMA InterruptedImages ==
  ASSUME Stored, NEW p \in Procs, NEW img \in Interrupted(p)
  PROVE  /\ img \in OldImages(built)
         /\ pc[p] # "truncated" => img.frames = file.frames
<1>1. built \in Nat /\ file \in OldImages(built) /\ buf[p] \in OldImages(built)
  BY Zenon DEF Stored
<1>2. CASE pc[p] \in {"magic", "frame"}
  <2>1. img \in WithPart(file)
    BY <1>2, Zenon DEF Interrupted
  <2>2. file \in Images
    BY <1>1, Zenon DEF OldImages
  <2>3. img \in Images /\ img.frames = file.frames
    BY <2>1, <2>2, PartialWrite, Zenon
  <2> QED
    BY <1>1, <2>3, Zenon DEF OldImages
<1>3. CASE pc[p] = "truncated"
  BY <1>1, <1>3, OldParts, Zenon DEF Interrupted
<1>4. CASE pc[p] \notin {"magic", "frame", "truncated"}
  BY <1>1, <1>4, Zenon DEF Interrupted
<1> QED
  BY <1>2, <1>3, <1>4, Zenon

\* The steps of an append.
LEMMA AppendStep ==
  ASSUME FaultInv, AppendBlock
  PROVE  StoreStep
<1>1. /\ Stored /\ built \in Nat /\ file \in OldImages(built) /\ pc \in [Procs -> PCs]
      /\ buf \in [Procs -> OldImages(built)] /\ survivors \subseteq OldImages(built)
      /\ Old(chain, built) /\ chain \in Seq(Block) /\ Old(acked, built) /\ acked \in Seq(Block)
      /\ store \in [poisoned : BOOLEAN, needs_magic : BOOLEAN] /\ "run" \in Procs
  BY Zenon DEF FaultInv, Stored, Old, Procs
<1>2. /\ Appending = {"magic", "magic_sync", "frame", "frame_sync"}
      /\ HasChain = {"open", "up", "magic", "magic_sync", "frame", "frame_sync"}
      /\ {"up", "magic", "magic_sync", "frame", "frame_sync"} \subseteq PCs
  BY Zenon DEF HasChain, Appending, PCs
<1>3. /\ pc["run"] \in HasChain => Replays(chain)
      /\ pc["run"] \in Appending =>
           /\ chain # <<>> /\ Last(chain) \in Block /\ Last(chain).id = built
           /\ \A i \in 1 .. Len(acked) : acked[i].id < built
  BY <1>1, FrontProperties, Zenon DEF FaultInv, Linear, Fresh
<1>4. CASE BuildBlock
  <2>1. PICK at \in {"magic", "frame"} :
          /\ pc["run"] = "up" /\ pc' = [pc EXCEPT !["run"] = at]
          /\ chain' = Append(chain, NewBlock) /\ built' = built + 1
          /\ UNCHANGED <<file, survivors, rewritten, buf, store, acked>>
    BY <1>4, Zenon DEF BuildBlock
  <2>2. NewBlock \in Block /\ NewBlock.id = built + 1 /\ Replays(Append(chain, NewBlock))
    BY <1>1, <1>2, <1>3, <2>1, LinearChains, Zenon
  <2>3. pc' \in [Procs -> PCs] /\ pc'["run"] = at
    BY <1>1, <1>2, <2>1, Zenon
  <2>4. ASSUME NEW s, Old(s, built) PROVE Old(s, built + 1)
    <3>1. s \in Seq(Block) /\ \A i \in 1 .. Len(s) : s[i] \in Block /\ s[i].id <= built
      BY <2>4 DEF Old
    <3> QED
      BY <1>1, <3>1 DEF Old, Block
  <2>5. OldImages(built) \subseteq OldImages(built + 1)
    BY <2>4, Zenon DEF OldImages
  <2>6. /\ chain' \in Seq(Block) /\ Len(chain') = Len(chain) + 1 /\ Len(chain) \in Nat
        /\ chain'[Len(chain) + 1] = NewBlock /\ \A i \in 1 .. Len(chain) : chain'[i] = chain[i]
    BY <1>1, <2>1, <2>2
  <2>7. Old(chain', built + 1)
    <3>1. \A i \in 1 .. Len(chain') : i \in 1 .. Len(chain) \/ i = Len(chain) + 1
      BY <2>6
    <3>2. \A i \in 1 .. Len(chain) : chain[i].id <= built + 1
      BY <1>1, <2>4, Zenon DEF Old
    <3>3. NewBlock.id <= built + 1
      BY <1>1, <2>2
    <3> QED
      BY <2>6, <3>1, <3>2, <3>3, Zenon DEF Old
  <2>8. Stored'
    BY <1>1, <2>1, <2>3, <2>4, <2>5, <2>7 DEF FaultInv, Stored
  <2>9. \A i \in 1 .. Len(acked) : acked[i].id < built + 1
    <3>1. \A i \in 1 .. Len(acked) : acked[i] \in Block /\ acked[i].id <= built
      BY <1>1 DEF Old
    <3>2. \A b \in Block : b.id \in Nat
      BY Zenon DEF Block
    <3> QED
      BY <1>1, <3>1, <3>2
  <2>10. chain' # <<>> /\ Last(chain') = NewBlock
    BY <2>6 DEF Last
  <2>11. Linear' /\ Fresh'
    BY <2>1, <2>2, <2>9, <2>10, Zenon DEF Linear, Fresh
  <2> QED
    BY <2>1, <2>8, <2>11, Zenon DEF StoreStep, FileKind, FileKept
<1>5. CASE WriteMagic
  <2>1. /\ pc["run"] = "magic" /\ pc' = [pc EXCEPT !["run"] = "magic_sync"]
        /\ file' = WithMagic(file) /\ survivors' = survivors \cup WithPart(file) \cup {file'}
        /\ UNCHANGED <<rewritten, buf, chain, store, built, acked>>
    BY <1>5, Zenon DEF WriteMagic
  <2>2. /\ file' \in OldImages(built) /\ file'.frames = file.frames
        /\ \A part \in WithPart(file) : part \in OldImages(built) /\ part.frames = file.frames
    BY <1>1, <1>2, <1>3, <2>1, OldWrites
  <2>3. pc' \in [Procs -> PCs] /\ pc'["run"] = "magic_sync"
    BY <1>1, <1>2, <2>1, Zenon
  <2>4. Stored' /\ Linear' /\ Fresh'
    BY <1>1, <1>2, <1>3, <2>1, <2>2, <2>3, Zenon DEF FaultInv, Stored, Linear, Fresh
  <2> QED
    BY <2>1, <2>2, <2>4, Zenon DEF StoreStep, FileKind, FileKept
<1>6. CASE SyncMagic
  <2>1. /\ pc["run"] = "magic_sync" /\ pc' = [pc EXCEPT !["run"] = "frame"]
        /\ survivors' = {file} /\ rewritten' = FALSE
        /\ store' = [store EXCEPT !.needs_magic = FALSE]
        /\ UNCHANGED <<file, buf, chain, built, acked>>
    BY <1>6, Zenon DEF SyncMagic
  <2>2. pc' \in [Procs -> PCs] /\ pc'["run"] = "frame"
    BY <1>1, <1>2, <2>1, Zenon
  <2>3. Stored' /\ Linear' /\ Fresh'
    BY <1>1, <1>2, <1>3, <2>1, <2>2, Zenon DEF Stored, Linear, Fresh
  <2> QED
    BY <2>1, <2>3, Zenon DEF StoreStep, FileKind, FileSynced
<1>7. CASE WriteFrame
  <2>1. /\ pc["run"] = "frame" /\ pc' = [pc EXCEPT !["run"] = "frame_sync"]
        /\ file' = WithFrame(file, Last(chain))
        /\ survivors' = survivors \cup WithPart(file) \cup {file'}
        /\ UNCHANGED <<rewritten, buf, chain, store, built, acked>>
    BY <1>7, Zenon DEF WriteFrame
  <2>2. Last(chain) \in Block /\ Last(chain).id <= built
    BY <1>1, <1>2, <1>3, <2>1
  <2>3. /\ file' \in OldImages(built)
        /\ file'.frames \in {file.frames, Append(file.frames, Last(chain))}
        /\ \A part \in WithPart(file) : part \in OldImages(built) /\ part.frames = file.frames
    BY <1>1, <2>1, <2>2, OldWrites, Zenon
  <2>4. pc' \in [Procs -> PCs] /\ pc'["run"] = "frame_sync"
    BY <1>1, <1>2, <2>1, Zenon
  <2>5. Stored' /\ Linear' /\ Fresh'
    BY <1>1, <1>2, <1>3, <2>1, <2>3, <2>4, Zenon DEF FaultInv, Stored, Linear, Fresh
  <2>6. FileKept \/ FileGrown
    BY <1>2, <2>1, <2>3, Zenon DEF FileKept, FileGrown
  <2> QED
    BY <2>5, <2>6, Zenon DEF StoreStep, FileKind
<1>8. CASE SyncFrame
  <2>1. /\ pc["run"] = "frame_sync" /\ pc' = [pc EXCEPT !["run"] = "up"]
        /\ survivors' = {file} /\ rewritten' = FALSE /\ acked' = chain
        /\ UNCHANGED <<file, buf, chain, store, built>>
    BY <1>8, Zenon DEF SyncFrame
  <2>2. pc' \in [Procs -> PCs] /\ pc'["run"] = "up"
    BY <1>1, <1>2, <2>1, Zenon
  <2>3. Stored' /\ Linear' /\ Fresh'
    BY <1>1, <1>2, <1>3, <2>1, <2>2, Zenon DEF Stored, Linear, Fresh
  <2> QED
    BY <2>1, <2>3, Zenon DEF StoreStep, FileKind, FileSynced
<1>9. CASE AppendFails
  <2>1. /\ pc["run"] \in Appending /\ pc' = [pc EXCEPT !["run"] = "up"]
        /\ file' \in Interrupted("run") /\ survivors' = survivors \cup {file'}
        /\ store' = [store EXCEPT !.poisoned = TRUE] /\ chain' = Front(chain)
        /\ UNCHANGED <<rewritten, buf, built, acked>>
    BY <1>9, Zenon DEF AppendFails
  <2>2. pc' \in [Procs -> PCs] /\ pc'["run"] = "up" /\ pc["run"] # "truncated"
    BY <1>1, <1>2, <2>1, Zenon
  <2>3. file' \in OldImages(built) /\ file'.frames = file.frames
    BY <1>1, <2>1, <2>2, InterruptedImages, Zenon
  <2>4. Replays(Front(chain))
    BY <1>1, <1>2, <1>3, <2>1, LinearChains, Zenon
  <2>5. Old(Front(chain), built)
    <3>1. /\ Front(chain) \in Seq(Block) /\ Len(Front(chain)) = Len(chain) - 1
          /\ \A i \in 1 .. Len(chain) - 1 : Front(chain)[i] = chain[i]
      BY <1>1, <1>3, <2>1, FrontProperties, Zenon
    <3>2. 1 .. Len(chain) - 1 \subseteq 1 .. Len(chain)
      BY <1>1
    <3> QED
      BY <1>1, <3>1, <3>2, Zenon DEF Old
  <2>6. Stored' /\ Linear' /\ Fresh'
    BY <1>1, <1>2, <2>1, <2>2, <2>3, <2>4, <2>5, Zenon DEF FaultInv, Stored, Linear, Fresh
  <2> QED
    BY <2>1, <2>3, <2>6, Zenon DEF StoreStep, FileKind, FileKept
<1> QED
  BY <1>4, <1>5, <1>6, <1>7, <1>8, <1>9, Zenon DEF AppendBlock

\* The end of a process, and of the machine.
LEMMA EndStep ==
  ASSUME FaultInv, (\E p \in Procs : Kill(p)) \/ PowerLoss
  PROVE  StoreStep
<1>1. /\ Stored /\ built \in Nat /\ pc \in [Procs -> PCs] /\ survivors \subseteq OldImages(built)
      /\ Old(chain, built) /\ Old(<<>>, built) /\ "down" \in PCs /\ "run" \in Procs
      /\ rewritten \in BOOLEAN
  BY DEF FaultInv, Stored, Old, PCs, Procs
<1>2. "down" \notin HasChain /\ Appending \subseteq HasChain
  BY Zenon DEF HasChain, Appending
<1>3. ASSUME NEW p \in Procs, Kill(p)
      PROVE  StoreStep
  <2>1. /\ file' \in Interrupted(p) /\ survivors' = survivors \cup {file'}
        /\ pc' = [pc EXCEPT ![p] = "down"] /\ chain' = IF p = "run" THEN <<>> ELSE chain
        /\ rewritten' = (rewritten \/ pc[p] = "truncated")
        /\ UNCHANGED <<buf, store, built, acked>>
    BY <1>3, Zenon DEF Kill
  <2>2. file' \in OldImages(built) /\ (pc[p] # "truncated" => file'.frames = file.frames)
    BY <1>1, <2>1, InterruptedImages, Zenon
  <2>3. /\ pc' \in [Procs -> PCs] /\ pc'["run"] = IF p = "run" THEN "down" ELSE pc["run"]
        /\ Old(chain', built)
    BY <1>1, <2>1, Zenon
  <2>4. rewritten' \in BOOLEAN
    BY <2>1, Zenon
  <2>5. Stored'
    BY <1>1, <2>1, <2>2, <2>3, <2>4, Zenon DEF Stored
  <2>6. Linear' /\ Fresh'
    BY <1>2, <2>1, <2>3, Zenon DEF FaultInv, Linear, Fresh
  <2>7. CASE pc[p] = "truncated"
    <3>1. rewritten' = TRUE
      BY <2>1, <2>7, Zenon
    <3> QED
      BY <2>5, <2>6, <2>7, <3>1, Zenon DEF StoreStep, FileKind, FileRepaired
  <2>8. CASE pc[p] # "truncated"
    <3>1. rewritten' = rewritten
      BY <1>1, <2>1, <2>8, Zenon
    <3> QED
      BY <2>1, <2>2, <2>5, <2>6, <2>8, <3>1, Zenon DEF StoreStep, FileKind, FileKept
  <2> QED
    BY <2>7, <2>8, Zenon
<1>4. CASE PowerLoss
  <2>1. /\ file' \in survivors /\ survivors' = {file'} /\ rewritten' = FALSE
        /\ pc' = [p \in Procs |-> "down"] /\ chain' = <<>>
        /\ UNCHANGED <<buf, store, built, acked>>
    BY <1>4, Zenon DEF PowerLoss
  <2>2. Stored' /\ Linear' /\ Fresh'
    BY <1>1, <1>2, <2>1, Zenon DEF Stored, Linear, Fresh
  <2> QED
    BY <2>1, <2>2, Zenon DEF StoreStep, FileKind, FileLost
<1> QED
  BY <1>3, <1>4, Zenon


\* A prefix of a chain with one more block that lacks this block is a prefix of
\* the chain.
LEMMA PrefixWithoutLast ==
  ASSUME NEW s \in Seq(Block), NEW t \in Seq(Block), NEW b \in Block,
         IsPrefix(s, Append(t, b)), \A i \in 1 .. Len(s) : s[i] # b
  PROVE  IsPrefix(s, t)
<1> DEFINE u == Append(t, b)
<1>1. /\ u \in Seq(Block) /\ Len(u) = Len(t) + 1 /\ u[Len(t) + 1] = b
      /\ \A i \in 1 .. Len(t) : u[i] = t[i]
      /\ Len(s) \in Nat /\ Len(t) \in Nat
  OBVIOUS
<1>2. IsPrefix(s, u)
  BY Zenon
<1> HIDE DEF u
<1>3. Len(s) <= Len(u) /\ \A i \in 1 .. Len(s) : s[i] = u[i]
  BY <1>1, <1>2, PrefixElements, Zenon
<1>4. Len(s) # Len(t) + 1
  BY <1>1, <1>3
<1>5. Len(s) <= Len(t)
  BY <1>1, <1>3, <1>4
<1> QED
  BY <1>1, <1>3, <1>5, PrefixElements

\* Every step is one of these, and keeps what a power loss leaves in line with
\* the file.
LEMMA FaultStep ==
  ASSUME FaultInv, [Next]_vars
  PROVE  FaultInv' /\ FileKind
<1>1. StoreStep
  <2>1. CASE UNCHANGED vars
    BY <2>1, QuietStoreStep, Zenon DEF vars, FaultInv, Stored
  <2> QED
    BY <2>1, LoadStep, AppendStep, EndStep, Zenon DEF Next
<1>2. MediumFollows'
  <2> SUFFICES ASSUME ~rewritten', IsPrefix(acked', file'.frames), NEW img \in survivors'
               PROVE  IsPrefix(acked', img.frames)
    BY Zenon DEF MediumFollows, Kept
  <2>1. CASE FileRepaired
    BY <2>1, Zenon DEF FileRepaired
  <2>2. CASE FileSynced \/ FileLost
    BY <2>2, Zenon DEF FileSynced, FileLost
  <2>3. CASE FileKept
    BY <2>3, Zenon DEF FileKept, FaultInv, MediumFollows, Kept
  <2>4. CASE FileGrown
    <3>1. /\ acked \in Seq(Block) /\ file.frames \in Seq(Block) /\ chain \in Seq(Block)
          /\ chain # <<>> /\ Last(chain).id = built
          /\ \A i \in 1 .. Len(acked) : acked[i].id < built
          /\ built \in Nat
      BY <2>4, Zenon DEF FileGrown, FaultInv, Stored, Fresh, Old, OldImages
    <3>2. /\ UNCHANGED <<rewritten, acked>>
          /\ file'.frames = Append(file.frames, Last(chain))
          /\ \A x \in survivors' : x \in survivors \/ x.frames \in {file.frames, file'.frames}
      BY <2>4, Zenon DEF FileGrown
    <3>3. Last(chain) \in Block
      BY <3>1, FrontProperties, Zenon
    <3>4. \A i \in 1 .. Len(acked) : acked[i] # Last(chain)
      BY <3>1
    <3>5. IsPrefix(acked, file.frames)
      BY <3>1, <3>2, <3>3, <3>4, PrefixWithoutLast, Zenon
    <3> QED
      BY <3>2, <3>5, Zenon DEF FaultInv, MediumFollows, Kept
  <2> QED
    BY <1>1, <2>1, <2>2, <2>3, <2>4, Zenon DEF StoreStep, FileKind
<1> QED
  BY <1>1, <1>2, Zenon DEF StoreStep, FaultInv

\* A new directory, or one with a legacy file of one block.
LEMMA FaultInit ==
  ASSUME Init
  PROVE  FaultInv
<1>1. /\ file.frames = <<>> \/ file.frames = <<[id |-> 1, parent |-> 0]>>
      /\ built = Len(file.frames) /\ acked = file.frames /\ chain = <<>>
      /\ survivors = {file} /\ buf = [p \in Procs |-> EmptyFile]
      /\ pc = [p \in Procs |-> "down"]
  BY DEF Init, EmptyFile
<1>2. TypeOK
  BY InitKeeps, Zenon DEF StoreInv
<1>3. Old(file.frames, built)
  <2>1. file.frames \in Seq(Block)
    BY <1>2, Zenon DEF TypeOK, Images
  <2>2. CASE file.frames = <<>>
    BY <1>1, <2>1, <2>2 DEF Old
  <2>3. CASE file.frames = <<[id |-> 1, parent |-> 0]>>
    BY <1>1, <2>1, <2>3 DEF Old
  <2> QED
    BY <1>1, <2>2, <2>3, Zenon
<1>4. Old(<<>>, built)
  BY DEF Old
<1>5. Stored
  BY <1>1, <1>2, <1>3, <1>4, EmptyImages, Zenon DEF TypeOK, Stored, OldImages
<1>6. Linear /\ Fresh /\ MediumFollows
  BY <1>1, Zenon DEF Linear, Fresh, MediumFollows, HasChain, Appending, Procs
<1> QED
  BY <1>5, <1>6, Zenon DEF FaultInv

\* The weaker invariant holds with every fault.
THEOREM FaultInvariant == Spec => []FaultInv
<1>1. FaultInv /\ [Next]_vars => FaultInv'
  BY FaultStep, Zenon
<1> QED
  BY <1>1, FaultInit, PTL DEF Spec

\* What load_blockchain_from_disk and append_block let a node serve is a chain
\* from genesis, also when repairs are torn by crashes or race with `send`.
THEOREM ServedChainReplays == Spec => []ServesLinearChain
<1>1. FaultInv => ServesLinearChain
  BY Zenon DEF FaultInv, Linear, HasChain, ServesLinearChain, Serving
<1> QED
  BY <1>1, FaultInvariant, PTL

\* The file loses an acknowledged block only to a repair of
\* read_all_blocks_repairing_tail, or to a power loss before its rewrite was
\* synced: never to an append, a failed append, a kill or another power loss.
THEOREM LossComesFromRepairs == Spec => OnlyRepairsLoseBlocks
<1>1. FaultInv /\ [Next]_vars =>
        [IsPrefix(acked, file.frames) =>
           \/ IsPrefix(acked, file'.frames)
           \/ \E p \in Procs : pc[p] \in {"read", "truncated"}
           \/ rewritten]_vars
  <2> SUFFICES ASSUME FaultInv, [Next]_vars, IsPrefix(acked, file.frames), ~rewritten,
                      ~(\E p \in Procs : pc[p] \in {"read", "truncated"})
               PROVE  IsPrefix(acked, file'.frames)
    BY Zenon
  <2>1. CASE FileSynced \/ FileKept
    BY <2>1, Zenon DEF FileSynced, FileKept
  <2>2. CASE FileLost
    BY <2>2, Zenon DEF FileLost, FaultInv, MediumFollows, Kept
  <2>3. CASE FileGrown
    <3>1. /\ acked \in Seq(Block) /\ file.frames \in Seq(Block) /\ chain \in Seq(Block)
          /\ chain # <<>>
      BY <2>3, Zenon DEF FileGrown, FaultInv, Stored, Fresh, Old, OldImages
    <3>2. Last(chain) \in Block
      BY <3>1, FrontProperties, Zenon
    <3> QED
      BY <2>3, <3>1, <3>2, PrefixAppend, Zenon DEF FileGrown
  <2> QED
    BY <2>1, <2>2, <2>3, FaultStep, Zenon DEF FileKind, FileRepaired
<1> QED
  BY <1>1, FaultInvariant, PTL DEF Spec, OnlyRepairsLoseBlocks

\* send ends when its load does: only run opens the store and appends.
SendOnlyLoads ==
  pc \in [Procs -> PCs] /\ pc["send"] \in {"down", "read", "truncated"}

LEMMA SendStep ==
  ASSUME SendOnlyLoads, [Next]_vars
  PROVE  SendOnlyLoads'
<1> USE DEF SendOnlyLoads, Procs, PCs, Loading, Appending
<1>1. CASE UNCHANGED vars
  BY <1>1, Zenon DEF vars
<1>2. CASE LoadClean
  BY <1>2, Zenon DEF LoadClean, Loaded
<1>3. ASSUME NEW p \in Procs, LoadNeedsRepair(p) \/ RepairTruncates(p) \/ Kill(p)
      PROVE  SendOnlyLoads'
  BY <1>3, Zenon DEF LoadNeedsRepair, RepairTruncates, Kill
<1>4. ASSUME NEW p \in Procs, RepairWrites(p)
      PROVE  SendOnlyLoads'
  BY <1>4, Zenon DEF RepairWrites, Loaded
<1>5. CASE OpenAppend \/ OpenAppendRefuses
  BY <1>5, Zenon DEF OpenAppend, OpenAppendRefuses
<1>6. CASE BuildBlock
  BY <1>6, Zenon DEF BuildBlock
<1>7. CASE WriteMagic \/ SyncMagic \/ WriteFrame \/ SyncFrame \/ AppendFails
  BY <1>7, Zenon DEF WriteMagic, SyncMagic, WriteFrame, SyncFrame, AppendFails
<1>8. CASE PowerLoss
  BY <1>8, Zenon DEF PowerLoss
<1> QED
  BY <1>1, <1>2, <1>3, <1>4, <1>5, <1>6, <1>7, <1>8, Zenon DEF Next, Load, AppendBlock

\* The variables of the store have their types, and send never appends, with
\* every fault.
THEOREM TypeCorrect == Spec => []TypeOK
<1>1. FaultInv /\ SendOnlyLoads => TypeOK
  BY Zenon DEF FaultInv, Stored, Old, OldImages, TypeOK, SendOnlyLoads
<1>2. Init => SendOnlyLoads
  BY Zenon DEF Init, SendOnlyLoads, Procs, PCs
<1>3. SendOnlyLoads /\ [Next]_vars => SendOnlyLoads'
  BY SendStep, Zenon
<1> QED
  BY <1>1, <1>2, <1>3, FaultInvariant, PTL DEF Spec


=============================================================================
