----------------------------- MODULE ChainStore -----------------------------
(***************************************************************************)
(* The file chain.blocks (node/src/storage.rs): appends of `node run`      *)
(* frame by frame, poisoning, the repair of a short tail at load, and the  *)
(* crashes that may strike between two of their system calls.  Both `run`  *)
(* and `send` load the file (main.rs); only `run` appends to it.           *)
(*                                                                         *)
(* An image of the file is its header, its complete frames and what        *)
(* follows the last of them: nothing, 1-3 bytes ("short"), or more that is *)
(* not a readable frame ("long").  Header "none" is the empty file, "torn" *)
(* anything that is neither the V2 magic nor a legacy frame.               *)
(***************************************************************************)
EXTENDS Chains

CONSTANTS
  MaxBlocks,        \* bound: blocks ever built
  RepairFaults,     \* may a crash strike a repair before its rewrite is durable?
  ConcurrentSend    \* may `send` load the file while `run` is up?

ASSUME MaxBlocksAssumption == MaxBlocks \in Nat
ASSUME SwitchAssumption == RepairFaults \in BOOLEAN /\ ConcurrentSend \in BOOLEAN

\* id plays block_hash, parent previous_hash; 0 is the genesis block.
Block == [id : Nat \ {0}, parent : Nat]

Heads == {"none", "torn", "v2", "legacy"}
Tails == {"none", "short", "long"}
Images == [head : Heads, frames : Seq(Block), tail : Tails]

EmptyFile == [head |-> "none", frames |-> <<>>, tail |-> "none"]
TornHead == [EmptyFile EXCEPT !.head = "torn"]

Procs == {"run", "send"}

VARIABLES
  file,       \* chain.blocks as every process sees it
  survivors,  \* the images a power loss may leave on the medium
  rewritten,  \* a repair rewrote the file and nothing was synced since
  pc,         \* where each process is
  buf,        \* the repaired image a loading process is about to write
  chain,      \* run: blocks in memory, without genesis
  store,      \* run: BlockStore [poisoned, needs_magic (V2 and not v2_magic_on_disk)]
  built,      \* number of blocks built so far
  acked       \* history: the chain at the last append that returned Ok

vars == <<file, survivors, rewritten, pc, buf, chain, store, built, acked>>

Loading == {"read", "truncated", "open"}
Appending == {"magic", "magic_sync", "frame", "frame_sync"}
PCs == {"down", "up"} \cup Loading \cup Appending

\* The type of the state; `send` never gets further than a load.
TypeOK ==
  /\ file \in Images
  /\ survivors \subseteq Images
  /\ rewritten \in BOOLEAN
  /\ pc \in [Procs -> PCs]
  /\ pc["send"] \in {"down", "read", "truncated"}
  /\ buf \in [Procs -> Images]
  /\ chain \in Seq(Block)
  /\ store \in [poisoned : BOOLEAN, needs_magic : BOOLEAN]
  /\ built \in Nat
  /\ acked \in Seq(Block)

-----------------------------------------------------------------------------
(***************************************************************************)
(* Reading the file.                                                       *)
(***************************************************************************)

\* Replay through Blockchain::append_block: every block extends the one before.
Replays(frames) ==
  \A i \in DOMAIN frames :
    frames[i].parent = IF i = 1 THEN 0 ELSE frames[i - 1].id

\* read_all_blocks_repairing_tail succeeds without touching the file.
Clean(img) ==
  \/ img = EmptyFile
  \/ img.head \in {"v2", "legacy"} /\ img.tail = "none"

\* It truncates the file: an incomplete length prefix after a complete frame.
Repairable(img) ==
  img.head \in {"v2", "legacy"} /\ img.tail = "short" /\ img.frames # <<>>

\* Mutant of Repaired: the last complete frame goes too.
RepairedTooFar(img) == [img EXCEPT !.tail = "none", !.frames = Front(@)]

Repaired(img) == [img EXCEPT !.tail = "none"]

\* What is in the file while img is being written from its start.
PartsOf(img) ==
  {EmptyFile, TornHead} \cup
  {[img EXCEPT !.frames = SubSeq(@, 1, k), !.tail = t] :
     k \in (IF img.head = "v2" THEN 0 ELSE 1) .. Len(img.frames), t \in Tails}

-----------------------------------------------------------------------------
(***************************************************************************)
(* load_blockchain_from_disk, by either process.                           *)
(***************************************************************************)
MayLoad(p) ==
  /\ pc[p] = "down"
  /\ ConcurrentSend \/ \A q \in Procs : pc[q] = "down"

\* Mutant of Loaded: the blocks are taken over without replaying them.
LoadedUnchecked(p, frames) ==
  IF p = "run"
  THEN chain' = frames /\ pc' = [pc EXCEPT ![p] = "open"]
  ELSE chain' = chain /\ pc' = [pc EXCEPT ![p] = "down"]

\* Mutant of Loaded: send, too, goes on to open the store for appending.
LoadedByEither(p, frames) ==
  IF Replays(frames)
  THEN chain' = frames /\ pc' = [pc EXCEPT ![p] = "open"]
  ELSE chain' = chain /\ pc' = [pc EXCEPT ![p] = "down"]

\* The replayed chain is run's; send only reads a nonce from it, and ends.  A
\* file that does not parse or replay ends either process: a stuttering step.
Loaded(p, frames) ==
  IF p = "run" /\ Replays(frames)
  THEN chain' = frames /\ pc' = [pc EXCEPT ![p] = "open"]
  ELSE chain' = chain /\ pc' = [pc EXCEPT ![p] = "down"]

LoadClean ==
  /\ MayLoad("run")
  /\ Clean(file)
  /\ Loaded("run", file.frames)
  /\ UNCHANGED <<file, survivors, rewritten, buf, store, built, acked>>

LoadNeedsRepair(p) ==
  /\ MayLoad(p)
  /\ Repairable(file)
  /\ buf' = [buf EXCEPT ![p] = Repaired(file)]
  /\ pc' = [pc EXCEPT ![p] = "read"]
  /\ UNCHANGED <<file, survivors, rewritten, chain, store, built, acked>>

\* fs::write, first the truncation of File::create ...
RepairTruncates(p) ==
  /\ pc[p] = "read"
  /\ file' = EmptyFile
  /\ survivors' = survivors \cup {EmptyFile}
  /\ rewritten' = TRUE
  /\ pc' = [pc EXCEPT ![p] = "truncated"]
  /\ UNCHANGED <<buf, chain, store, built, acked>>

\* ... then the data, over whatever was written in between; no sync follows.
RepairWrites(p) ==
  /\ pc[p] = "truncated"
  /\ file' \in IF file = EmptyFile THEN {buf[p]}
               ELSE {[buf[p] EXCEPT !.tail = t] : t \in Tails}
  /\ survivors' = survivors \cup PartsOf(buf[p]) \cup {file'}
  /\ rewritten' = TRUE
  /\ Loaded(p, buf[p].frames)
  /\ UNCHANGED <<buf, store, built, acked>>

\* BlockStore::open_append decides the format from the header.
OpenAppend ==
  /\ pc["run"] = "open"
  /\ pc' = [pc EXCEPT !["run"] = "up"]
  /\ store' = [poisoned |-> FALSE, needs_magic |-> file.head = "none"]
  /\ UNCHANGED <<file, survivors, rewritten, buf, chain, built, acked>>

\* A header of 1-7 bytes, left there since the load, is refused.
OpenAppendRefuses ==
  /\ pc["run"] = "open"
  /\ file.head = "torn"
  /\ pc' = [pc EXCEPT !["run"] = "down"]
  /\ chain' = <<>>
  /\ UNCHANGED <<file, survivors, rewritten, buf, store, built, acked>>

-----------------------------------------------------------------------------
(***************************************************************************)
(* BlockStore::append_block, after the block was appended in memory.  The  *)
(* node mutex is held from BuildBlock until the append returns.            *)
(***************************************************************************)
NewBlock ==
  [id |-> built + 1, parent |-> IF chain = <<>> THEN 0 ELSE Last(chain).id]

BuildBlock ==
  /\ pc["run"] = "up"
  /\ ~store.poisoned
  /\ built < MaxBlocks
  /\ chain' = Append(chain, NewBlock)
  /\ built' = built + 1
  /\ pc' = [pc EXCEPT !["run"] = IF store.needs_magic THEN "magic" ELSE "frame"]
  /\ UNCHANGED <<file, survivors, rewritten, buf, store, acked>>

\* Every write goes to the current end of the file (O_APPEND): readable only
\* if the magic comes first, and a frame behind a header or a frame.
Readable(img) == img.head \in {"v2", "legacy"} /\ img.tail = "none"

Garbled(img) ==
  IF img = EmptyFile THEN TornHead ELSE [img EXCEPT !.tail = "long"]

WithMagic(img) ==
  IF img = EmptyFile THEN [img EXCEPT !.head = "v2"] ELSE Garbled(img)

WithFrame(img, b) ==
  IF Readable(img) THEN [img EXCEPT !.frames = Append(@, b)] ELSE Garbled(img)

WithPart(img) ==
  IF Readable(img) THEN {[img EXCEPT !.tail = t] : t \in Tails} ELSE {img, Garbled(img)}

WriteMagic ==
  /\ pc["run"] = "magic"
  /\ file' = WithMagic(file)
  /\ survivors' = survivors \cup WithPart(file) \cup {file'}
  /\ pc' = [pc EXCEPT !["run"] = "magic_sync"]
  /\ UNCHANGED <<rewritten, buf, chain, store, built, acked>>

SyncMagic ==
  /\ pc["run"] = "magic_sync"
  /\ survivors' = {file}
  /\ rewritten' = FALSE
  /\ store' = [store EXCEPT !.needs_magic = FALSE]
  /\ pc' = [pc EXCEPT !["run"] = "frame"]
  /\ UNCHANGED <<file, buf, chain, built, acked>>

WriteFrame ==
  /\ pc["run"] = "frame"
  /\ file' = WithFrame(file, Last(chain))
  /\ survivors' = survivors \cup WithPart(file) \cup {file'}
  /\ pc' = [pc EXCEPT !["run"] = "frame_sync"]
  /\ UNCHANGED <<rewritten, buf, chain, store, built, acked>>

\* Mutant of SyncFrame: the append returns without a sync.
SyncFrameSkipped ==
  /\ pc["run"] = "frame_sync"
  /\ acked' = chain
  /\ pc' = [pc EXCEPT !["run"] = "up"]
  /\ UNCHANGED <<file, survivors, rewritten, buf, chain, store, built>>

\* sync_all returns and so does append_block: the block may be shown to peers.
SyncFrame ==
  /\ pc["run"] = "frame_sync"
  /\ survivors' = {file}
  /\ rewritten' = FALSE
  /\ acked' = chain
  /\ pc' = [pc EXCEPT !["run"] = "up"]
  /\ UNCHANGED <<file, buf, chain, store, built>>

\* What the file may hold when the write that p is at does not complete.
Interrupted(p) ==
  CASE pc[p] \in {"magic", "frame"} -> WithPart(file)
    [] pc[p] = "truncated"         -> PartsOf(buf[p])
    [] OTHER                       -> {file}

\* Mutant of AppendFails: the store is not poisoned.
AppendFailsUnpoisoned ==
  /\ pc["run"] \in Appending
  /\ file' \in Interrupted("run")
  /\ survivors' = survivors \cup {file'}
  /\ chain' = Front(chain)
  /\ pc' = [pc EXCEPT !["run"] = "up"]
  /\ UNCHANGED <<rewritten, buf, store, built, acked>>

\* Mutant of AppendFails: memory keeps the block.
AppendFailsKeepsBlock ==
  /\ pc["run"] \in Appending
  /\ file' \in Interrupted("run")
  /\ survivors' = survivors \cup {file'}
  /\ store' = [store EXCEPT !.poisoned = TRUE]
  /\ pc' = [pc EXCEPT !["run"] = "up"]
  /\ UNCHANGED <<rewritten, buf, chain, built, acked>>

\* A write or sync of the append fails: poison the store and roll memory back.
AppendFails ==
  /\ pc["run"] \in Appending
  /\ file' \in Interrupted("run")
  /\ survivors' = survivors \cup {file'}
  /\ store' = [store EXCEPT !.poisoned = TRUE]
  /\ chain' = Front(chain)
  /\ pc' = [pc EXCEPT !["run"] = "up"]
  /\ UNCHANGED <<rewritten, buf, built, acked>>

-----------------------------------------------------------------------------
(***************************************************************************)
(* The end of a process, and of the machine.                               *)
(***************************************************************************)

\* p is killed, or returns with an error (a poisoned store, a failed repair).
Kill(p) ==
  /\ pc[p] # "down"
  /\ pc[p] = "truncated" => RepairFaults
  /\ file' \in Interrupted(p)
  /\ survivors' = survivors \cup {file'}
  /\ pc' = [pc EXCEPT ![p] = "down"]
  /\ chain' = IF p = "run" THEN <<>> ELSE chain
  /\ rewritten' = (rewritten \/ pc[p] = "truncated")
  /\ UNCHANGED <<buf, store, built, acked>>

PowerLoss ==
  /\ rewritten => RepairFaults
  /\ file' \in survivors
  /\ survivors' = {file'}
  /\ rewritten' = FALSE
  /\ pc' = [p \in Procs |-> "down"]
  /\ chain' = <<>>
  /\ UNCHANGED <<buf, store, built, acked>>

-----------------------------------------------------------------------------
\* A new data directory, or one with a file from before the V2 header.
Init ==
  /\ file \in {EmptyFile,
               [head |-> "legacy", frames |-> <<[id |-> 1, parent |-> 0]>>, tail |-> "none"]}
  /\ survivors = {file}
  /\ rewritten = FALSE
  /\ pc = [p \in Procs |-> "down"]
  /\ buf = [p \in Procs |-> EmptyFile]
  /\ chain = <<>>
  /\ store = [poisoned |-> FALSE, needs_magic |-> FALSE]
  /\ built = Len(file.frames)
  /\ acked = file.frames

AppendBlock ==
  \/ BuildBlock
  \/ WriteMagic
  \/ SyncMagic
  \/ WriteFrame
  \/ SyncFrame
  \/ AppendFails

Load ==
  \/ LoadClean
  \/ \E p \in Procs : LoadNeedsRepair(p) \/ RepairTruncates(p) \/ RepairWrites(p)
  \/ OpenAppend
  \/ OpenAppendRefuses

Next ==
  \/ Load
  \/ AppendBlock
  \/ \E p \in Procs : Kill(p)
  \/ PowerLoss

Spec == Init /\ [][Next]_vars

-----------------------------------------------------------------------------
(***************************************************************************)
(* Properties.                                                             *)
(***************************************************************************)
Serving == pc["run"] \in {"up"} \cup Appending

\* A node that is up has every block whose append was ever acknowledged: a
\* crash, a failed append or a repair never makes it silently start shorter.
NoSilentLoss == Serving => IsPrefix(acked, chain)

\* Between appends of a healthy store, file and memory hold the same blocks.
MemoryMatchesFile ==
  pc["run"] = "up" /\ ~store.poisoned => Clean(file) /\ file.frames = chain

\* Whatever a power loss leaves has every acknowledged block, except while a
\* rewrite by a repair is not yet synced.
AckedOnMedium ==
  ~rewritten => \A img \in survivors : IsPrefix(acked, img.frames)

\* The chain being served replays from genesis, whatever happened to the file.
ServesLinearChain == Serving => Replays(chain)

\* Only a repair, or a power loss before its rewrite was synced, takes an
\* acknowledged block out of the file.
OnlyRepairsLoseBlocks ==
  [][IsPrefix(acked, file.frames) =>
       \/ IsPrefix(acked, file'.frames)
       \/ \E p \in Procs : pc[p] \in {"read", "truncated"}
       \/ rewritten]_vars

\* The chain peers can be shown: without the block whose append is under way.
View ==
  CASE pc["run"] = "up"         -> chain
    [] pc["run"] \in Appending -> Front(chain)
    [] OTHER                    -> <<>>

Log == INSTANCE DurableLog WITH log <- acked, serving <- Serving, view <- View

\* The store implements the abstract durable log: appends are acknowledged one
\* block at a time and every restart recovers all that was acknowledged.
ImplementsDurableLog == Log!Spec

=============================================================================
