-------------------------------- MODULE Node --------------------------------
(***************************************************************************)
(* One data directory and the `node run` process that owns it              *)
(* (node/src/main.rs cmd_run, blockchain.rs, pending_tx_file.rs and the    *)
(* handlers of network.rs that change node state).                         *)
(*                                                                         *)
(* One mutex guards chain, pool and store.  The tick of cmd_run holds it   *)
(* from the drain of pending_tx.tril to the last peer sync; inbound        *)
(* sessions take it per message, so they run while the tick sleeps or      *)
(* gossips.  Steps of the tick are separate actions because the process    *)
(* may die between any two of them and `send` may append to the queue.     *)
(*                                                                         *)
(* A block is its timestamp and its transfers: its height is its place in  *)
(* the chain and its previous_hash the prefix before it, since only a      *)
(* block that extends the tip is ever accepted.                            *)
(***************************************************************************)
EXTENDS Mempool, Chains

CONSTANTS
  Peers,        \* number of configured --peers
  BookPeers,    \* number of further peers the peer book remembers
  PeerTx,       \* the transfers peers submit
  Wallet,       \* the address of the wallet `send` signs with
  Time,         \* the instants the wall clock and timestamps may show
  MaxDrift,     \* max_future_drift_secs
  MaxHeight,    \* bound: no network block is offered above this height
  MaxPending,   \* bound: entries of pending_tx.tril
  MaxNetTxs,    \* bound: transfers in a block offered by a peer
  Faults        \* the faults that may strike: "crash", "store", "queue"

ASSUME PeersAssumption == Peers \in Nat /\ BookPeers \in Nat
ASSUME WalletAssumption == Wallet \in Addr
ASSUME PeerTxAssumption == PeerTx \subseteq Tx
ASSUME TimeAssumption == Time \subseteq Nat /\ MaxDrift \in Nat
ASSUME BoundsAssumption == {MaxHeight, MaxPending, MaxNetTxs} \subseteq Nat
ASSUME FaultsAssumption == Faults \subseteq {"crash", "store", "queue"}

VARIABLES
  disk,             \* chain.blocks: the blocks a reload replays
  pending,          \* pending_tx.tril: [txs, torn]
  chain,            \* Blockchain::blocks without genesis
  ledger,           \* Blockchain::state
  pool,             \* Mempool
  poisoned,         \* BlockStore::poisoned
  sealing_allowed,  \* cmd_run: sealing_allowed
  pc,               \* where the run process is
  drain,            \* locals of drain_pending_file: [todo, before]
  sync,             \* locals of a round of sync_from_peer: [left, all_ok, appended]
  sealed,           \* cmd_run: height of the block sealed in this tick, or 0
  exposed           \* history: the longest chain a peer was given

files == <<disk, pending>>
ledgerVars == <<chain, ledger, poisoned>>
vars == <<files, ledgerVars, pool, sealing_allowed, pc, drain, sync, sealed, exposed>>

Block == [ts : Time, txs : Seq(Tx)]

PCs == {"down", "starting", "idle", "drain", "retry", "hygiene", "seal", "sync",
        "gossip"}

NoDrain == [todo |-> <<>>, before |-> <<>>]
NoSync == [left |-> 0, all_ok |-> TRUE, appended |-> FALSE]

TypeOK ==
  /\ disk \in Seq(Block)
  /\ pending \in [txs : Seq(Tx), torn : BOOLEAN]
  /\ chain \in Seq(Block)
  /\ ledger \in Ledgers
  /\ pool \in Pools
  /\ poisoned \in BOOLEAN
  /\ sealing_allowed \in BOOLEAN
  /\ pc \in PCs
  /\ drain \in [todo : Seq(Tx), before : Seq(Tx)]
  /\ sync \in [left : 0 .. Peers + BookPeers, all_ok : BOOLEAN, appended : BOOLEAN]
  /\ sealed \in Nat
  /\ exposed \in Seq(Block)

-----------------------------------------------------------------------------
(***************************************************************************)
(* Blockchain.                                                             *)
(***************************************************************************)
TipTime == IF chain = <<>> THEN 0 ELSE Last(chain).ts

\* Replaying blocks on the genesis ledger: [ok, ledger].
ReplayNext(acc, b) == IF acc.ok THEN ApplyAll(acc.ledger, b.txs) ELSE acc

rebuild_state_from_genesis(blocks) ==
  LET run[h \in 0 .. Len(blocks)] ==
        IF h = 0 THEN [ok |-> TRUE, ledger |-> Genesis]
        ELSE ReplayNext(run[h - 1], blocks[h])
  IN  run[Len(blocks)]

\* Block::basic_validate: the hash of a block always matches here.
BlockIsValid(b) ==
  /\ IsInjective(b.txs)
  /\ \A i \in DOMAIN b.txs : basic_validate(b.txs[i])

\* The minimum interval is 0: equal timestamps are in order.
validate_block_timestamps_vs_parent(b) == b.ts >= TipTime

validate_block_vs_local_time(b, now) == b.ts <= now + MaxDrift

\* Blockchain::append_block accepts b on the current tip.
append_block(b) ==
  /\ BlockIsValid(b)
  /\ validate_block_timestamps_vs_parent(b)
  /\ ApplyAll(ledger, b.txs).ok

\* The chain and the ledger advance by b and b is durable.
Commit(b) ==
  /\ chain' = Append(chain, b)
  /\ ledger' = ApplyAll(ledger, b.txs).ledger
  /\ disk' = Append(disk, b)
  /\ UNCHANGED poisoned

\* Mutant of RollBack: the block is taken back, the ledger is not.
RollBackKeepsLedger(b) ==
  /\ "store" \in Faults
  /\ poisoned' = TRUE
  /\ chain' = chain
  /\ ledger' = ApplyAll(ledger, b.txs).ledger
  /\ disk' \in {disk, Append(disk, b)}

\* Mutant of RollBack: the store is poisoned, memory is not rolled back.
RollBackForgotten(b) ==
  /\ "store" \in Faults
  /\ poisoned' = TRUE
  /\ chain' = Append(chain, b)
  /\ ledger' = ApplyAll(ledger, b.txs).ledger
  /\ disk' \in {disk, Append(disk, b)}

\* Mutant of RollBack: the error of the store is ignored.
RollBackIgnored(b) ==
  /\ "store" \in Faults
  /\ chain' = Append(chain, b)
  /\ ledger' = ApplyAll(ledger, b.txs).ledger
  /\ disk' \in {disk, Append(disk, b)}
  /\ UNCHANGED poisoned

\* BlockStore::append_block fails: the store is poisoned, the block may or may
\* not have reached the file, and rollback_last_block rebuilds the ledger.
RollBack(b) ==
  /\ "store" \in Faults
  /\ poisoned' = TRUE
  /\ chain' = chain
  /\ ledger' = rebuild_state_from_genesis(chain).ledger
  /\ disk' \in {disk, Append(disk, b)}

\* Blocks a peer may offer that try_append_network_block accepts at some time.
NetworkBlocks ==
  {b \in [ts : Time, txs : UNION {[1 .. n -> Tx] : n \in 0 .. MaxNetTxs}] :
     /\ Len(chain) < MaxHeight
     /\ \E now \in Time : validate_block_vs_local_time(b, now)
     /\ append_block(b)}

-----------------------------------------------------------------------------
(***************************************************************************)
(* Start, exit, crash.  The memory of the process is gone when it is down. *)
(***************************************************************************)
Down ==
  /\ pc' = "down"
  /\ chain' = <<>>
  /\ ledger' = Genesis
  /\ pool' = EmptyPool
  /\ poisoned' = FALSE
  /\ sealing_allowed' = FALSE
  /\ drain' = NoDrain
  /\ sync' = NoSync
  /\ sealed' = 0

Init ==
  /\ disk = <<>>
  /\ pending = [txs |-> <<>>, torn |-> FALSE]
  /\ chain = <<>>
  /\ ledger = Genesis
  /\ pool = EmptyPool
  /\ poisoned = FALSE
  /\ sealing_allowed = FALSE
  /\ pc = "down"
  /\ drain = NoDrain
  /\ sync = NoSync
  /\ sealed = 0
  /\ exposed = <<>>

\* cmd_run up to its initial catch-up: load_blockchain_from_disk, empty pool.
Start ==
  /\ pc = "down"
  /\ rebuild_state_from_genesis(disk).ok
  /\ chain' = disk
  /\ ledger' = rebuild_state_from_genesis(disk).ledger
  /\ sealing_allowed' = (Peers = 0)
  /\ sync' = [NoSync EXCEPT !.left = Peers]
  /\ pc' = IF Peers = 0 THEN "idle" ELSE "starting"
  /\ UNCHANGED <<files, pool, poisoned, drain, sealed, exposed>>

Crash ==
  /\ "crash" \in Faults
  /\ pc # "down"
  /\ Down
  /\ UNCHANGED <<files, exposed>>

-----------------------------------------------------------------------------
(***************************************************************************)
(* Tick, first part: drain pending_tx.tril into the pool.  The queue lock  *)
(* is held from DrainBegin to DrainEnd.                                    *)
(***************************************************************************)

\* The tick finds the store poisoned and cmd_run returns.
ExitPoisoned ==
  /\ pc = "idle"
  /\ poisoned
  /\ Down
  /\ UNCHANGED <<files, exposed>>

AfterDrain ==
  /\ drain' = NoDrain
  /\ IF ~sealing_allowed /\ Peers > 0
     THEN pc' = "retry" /\ sync' = [NoSync EXCEPT !.left = Peers]
     ELSE pc' = "hygiene" /\ UNCHANGED sync

DrainBegin ==
  /\ pc = "idle"
  /\ ~poisoned
  /\ ~pending.torn
  /\ drain' = [todo |-> pending.txs, before |-> clone_fifo(pool)]
  /\ pc' = "drain"
  /\ UNCHANGED <<files, ledgerVars, pool, sealing_allowed, sync, sealed, exposed>>

\* Lock, read or parse error: logged, the file is left as it is.
DrainUnreadable ==
  /\ pc = "idle"
  /\ ~poisoned
  /\ pending.torn \/ "queue" \in Faults
  /\ AfterDrain
  /\ UNCHANGED <<files, ledgerVars, pool, sealing_allowed, sealed, exposed>>

\* Mutant of Duplicate: a transfer that is already pooled is refused.
DuplicateRefused(tx) == FALSE

Duplicate(tx) == basic_validate(tx) /\ tx \in pool.txs

DrainOne ==
  /\ pc = "drain"
  /\ drain.todo # <<>>
  /\ LET tx == Head(drain.todo)
     IN  \/ DrainAccepts(pool, tx) /\ pool' = Insert(pool, tx)
         \/ Duplicate(tx) /\ UNCHANGED pool
  /\ drain' = [drain EXCEPT !.todo = Tail(@)]
  /\ UNCHANGED <<files, ledgerVars, sealing_allowed, pc, sync, sealed, exposed>>

\* The head of the queue is refused, or the queue is used up.
DrainStops ==
  drain.todo # <<>> =>
    ~DrainAccepts(pool, Head(drain.todo)) /\ ~Duplicate(Head(drain.todo))

\* Mutant of DrainEnd: the file is emptied, whatever was refused.
DrainEndEmpties ==
  /\ pc = "drain"
  /\ DrainStops
  /\ pending' = [pending EXCEPT !.txs = <<>>]
  /\ AfterDrain
  /\ UNCHANGED <<disk, ledgerVars, pool, sealing_allowed, sealed, exposed>>

\* write_pending_atomic replaces the file by what was not consumed.
DrainEnd ==
  /\ pc = "drain"
  /\ DrainStops
  /\ pending' = [pending EXCEPT !.txs = drain.todo]
  /\ AfterDrain
  /\ UNCHANGED <<disk, ledgerVars, pool, sealing_allowed, sealed, exposed>>

\* write_pending_atomic fails: the pool is put back, the file is unchanged.
DrainEndFails ==
  /\ "queue" \in Faults
  /\ pc = "drain"
  /\ DrainStops
  /\ pool' = restore_fifo(drain.before)
  /\ AfterDrain
  /\ UNCHANGED <<files, ledgerVars, sealing_allowed, sealed, exposed>>

-----------------------------------------------------------------------------
(***************************************************************************)
(* Peer sync, with the mutex held: sync_from_peer once per peer, at start, *)
(* while sealing is not allowed yet, and at the end of every tick.         *)
(***************************************************************************)
Syncing == pc \in {"starting", "retry", "sync"} /\ sync.left > 0

\* One block of a batch is appended and persisted; hygiene comes at the end.
SyncAppend(b) ==
  /\ Syncing
  /\ ~poisoned
  /\ b \in NetworkBlocks
  /\ Commit(b)
  /\ sync' = [sync EXCEPT !.appended = TRUE]
  /\ UNCHANGED <<pending, pool, sealing_allowed, pc, drain, sealed, exposed>>

NextPeer(ok) ==
  sync' = [left |-> sync.left - 1, all_ok |-> sync.all_ok /\ ok, appended |-> FALSE]

\* The peer has no more blocks, or the work budget of the call is used up.
SyncPeerOk ==
  /\ Syncing
  /\ ~poisoned
  /\ pool' = IF sync.appended THEN hygiene_vs_committed_ledger(pool, ledger) ELSE pool
  /\ NextPeer(TRUE)
  /\ UNCHANGED <<files, ledgerVars, sealing_allowed, pc, drain, sealed, exposed>>

\* The connection, the batch or a block of it is bad, or the store is poisoned.
\* Blocks appended before stay, and hygiene is skipped.
SyncPeerErr ==
  /\ Syncing
  /\ NextPeer(FALSE)
  /\ UNCHANGED <<files, ledgerVars, pool, sealing_allowed, pc, drain, sealed, exposed>>

\* Mutant of SyncPersistFails: the failure is not counted against the round.
SyncPersistFailsQuietly(b) ==
  /\ Syncing
  /\ ~poisoned
  /\ b \in NetworkBlocks
  /\ RollBack(b)
  /\ NextPeer(TRUE)
  /\ UNCHANGED <<pending, pool, sealing_allowed, pc, drain, sealed, exposed>>

SyncPersistFails(b) ==
  /\ Syncing
  /\ ~poisoned
  /\ b \in NetworkBlocks
  /\ RollBack(b)
  /\ NextPeer(FALSE)
  /\ UNCHANGED <<pending, pool, sealing_allowed, pc, drain, sealed, exposed>>

SyncsDone ==
  /\ pc \in {"starting", "retry", "sync"}
  /\ sync.left = 0
  /\ sealing_allowed' = (sealing_allowed \/ (pc # "sync" /\ sync.all_ok))
  /\ pc' = CASE pc = "starting" -> "idle"
             [] pc = "retry"    -> "hygiene"
             [] pc = "sync"     -> IF sealed > 0 THEN "gossip" ELSE "idle"
  /\ sync' = NoSync
  /\ UNCHANGED <<files, ledgerVars, pool, drain, sealed, exposed>>

-----------------------------------------------------------------------------
(***************************************************************************)
(* Tick, second part: hygiene, then one block from the pool.               *)
(***************************************************************************)
Hygiene ==
  /\ pc = "hygiene"
  /\ pool' = hygiene_vs_committed_ledger(pool, ledger)
  /\ pc' = "seal"
  /\ UNCHANGED <<files, ledgerVars, sealing_allowed, drain, sync, sealed, exposed>>

\* The sync that ends the tick: with --peers, from those of them and of the peer
\* book that are not in a cooldown.
AfterSeal ==
  \E n \in 0 .. (IF Peers = 0 THEN 0 ELSE Peers + BookPeers) :
    /\ sync' = [NoSync EXCEPT !.left = n]
    /\ pc' = "sync"

\* Sealing is off, or the selection sel is empty.
SealNothing(sel) ==
  /\ ~sealing_allowed \/ (~sel.err /\ sel.out = <<>>)
  /\ AfterSeal
  /\ UNCHANGED <<files, ledgerVars, pool, sealing_allowed, drain, sealed, exposed>>

SealedBlock(sel, now) == [ts |-> now, txs |-> sel.out]

\* The selection is an error, or the clock is behind the tip.
SealRefused(sel, now) ==
  /\ sealing_allowed
  /\ sel.err \/ (sel.out # <<>> /\ ~append_block(SealedBlock(sel, now)))
  /\ pool' = hygiene_vs_committed_ledger(pool, ledger)
  /\ AfterSeal
  /\ UNCHANGED <<files, ledgerVars, sealing_allowed, drain, sealed, exposed>>

Sealable(sel, now) ==
  /\ sealing_allowed
  /\ ~sel.err
  /\ sel.out # <<>>
  /\ append_block(SealedBlock(sel, now))

\* Only after the block is durable do its transfers leave the pool.
SealCommits(sel, now) ==
  /\ Sealable(sel, now)
  /\ Commit(SealedBlock(sel, now))
  /\ pool' = remove_by_tx_hashes(pool, Range(sel.out))
  /\ sealed' = Len(chain) + 1
  /\ AfterSeal
  /\ UNCHANGED <<pending, sealing_allowed, drain, exposed>>

\* The block cannot be persisted: roll back and return from cmd_run.
SealPersistFails(sel, now) ==
  /\ "store" \in Faults
  /\ Sealable(sel, now)
  /\ disk' \in {disk, Append(disk, SealedBlock(sel, now))}
  /\ Down
  /\ UNCHANGED <<pending, exposed>>

Seal ==
  /\ pc = "seal"
  /\ \E sel \in {ordered_candidates_for_seal(pool, ledger)}, now \in Time :
       \/ SealNothing(sel)
       \/ SealRefused(sel, now)
       \/ SealCommits(sel, now)
       \/ SealPersistFails(sel, now)

\* push_block_to_peer, without the mutex; peers may be unreachable.
Gossip ==
  /\ pc = "gossip"
  /\ \/ UNCHANGED exposed
     \/ /\ Peers > 0
        /\ sealed > Len(exposed)
        /\ exposed' = SubSeq(chain, 1, sealed)
  /\ sealed' = 0
  /\ pc' = "idle"
  /\ UNCHANGED <<files, ledgerVars, pool, sealing_allowed, drain, sync>>

-----------------------------------------------------------------------------
(***************************************************************************)
(* Inbound sessions: apply_predecoded under the mutex.                     *)
(***************************************************************************)
MutexFree == pc \in {"idle", "gossip"}

InboundTx(tx) ==
  /\ MutexFree
  /\ ~poisoned
  /\ pool' = try_submit(pool, tx)
  /\ UNCHANGED <<files, ledgerVars, sealing_allowed, pc, drain, sync, sealed, exposed>>

InboundBlock(b) ==
  /\ MutexFree
  /\ ~poisoned
  /\ b \in NetworkBlocks
  /\ Commit(b)
  /\ pool' = hygiene_vs_committed_ledger(pool, ledger')
  /\ UNCHANGED <<pending, sealing_allowed, pc, drain, sync, sealed, exposed>>

InboundBlockPersistFails(b) ==
  /\ MutexFree
  /\ ~poisoned
  /\ b \in NetworkBlocks
  /\ RollBack(b)
  /\ UNCHANGED <<pending, pool, sealing_allowed, pc, drain, sync, sealed, exposed>>

InboundGetBlocks ==
  /\ MutexFree
  /\ ~poisoned
  /\ exposed' = IF Len(chain) > Len(exposed) THEN chain ELSE exposed
  /\ UNCHANGED <<files, ledgerVars, pool, sealing_allowed, pc, drain, sync, sealed>>

-----------------------------------------------------------------------------
(***************************************************************************)
(* The queue file has other writers: `send` and the test UI load the chain *)
(* from disk, sign a transfer and append it under the queue lock.          *)
(***************************************************************************)
QueueLockFree == pc # "drain"

\* sign_transfer of the wallet, whose account the loaded chain must have.
Signs(tx) ==
  /\ tx.sender = Wallet
  /\ basic_validate(tx)
  /\ rebuild_state_from_genesis(disk).ledger[Wallet] # NoAccount

\* Behind a torn frame the new one cannot be read.
append_pending_transaction(tx) ==
  /\ QueueLockFree
  /\ Len(pending.txs) < MaxPending
  /\ pending' = [pending EXCEPT !.txs = IF pending.torn THEN @ ELSE Append(@, tx)]
  /\ UNCHANGED <<disk, ledgerVars, pool, sealing_allowed, pc, drain, sync, sealed, exposed>>

\* The nonce is the committed one of the chain `send` loaded; the node may have
\* committed more since.
Send(tx) ==
  /\ Signs(tx)
  /\ tx.nonce <= rebuild_state_from_genesis(disk).ledger[Wallet].nonce
  /\ append_pending_transaction(tx)

\* The form of the test UI takes any nonce.
UiSend(tx) == Signs(tx) /\ append_pending_transaction(tx)

\* `send` dies, or its write fails, inside the frame it appends.
SendTorn ==
  /\ "queue" \in Faults
  /\ QueueLockFree
  /\ pending' = [pending EXCEPT !.torn = TRUE]
  /\ UNCHANGED <<disk, ledgerVars, pool, sealing_allowed, pc, drain, sync, sealed, exposed>>

-----------------------------------------------------------------------------
Tick ==
  \/ ExitPoisoned
  \/ DrainBegin
  \/ DrainUnreadable
  \/ DrainOne
  \/ DrainEnd
  \/ DrainEndFails
  \/ \E b \in NetworkBlocks : SyncAppend(b) \/ SyncPersistFails(b)
  \/ SyncPeerOk
  \/ SyncPeerErr
  \/ SyncsDone
  \/ Hygiene
  \/ Seal
  \/ Gossip

Inbound ==
  \/ \E tx \in PeerTx : InboundTx(tx)
  \/ \E b \in NetworkBlocks : InboundBlock(b) \/ InboundBlockPersistFails(b)
  \/ InboundGetBlocks

Next ==
  \/ Start
  \/ Crash
  \/ Tick
  \/ Inbound
  \/ \E tx \in Tx : Send(tx) \/ UiSend(tx)
  \/ SendTorn

Spec == Init /\ [][Next]_vars

\* The tick loop keeps running: its sleep ends, the mutex is granted to it, and
\* a started process is started again when it is down.
FairSpec == Spec /\ WF_vars(Start) /\ WF_vars(Tick)

-----------------------------------------------------------------------------
(***************************************************************************)
(* Properties.                                                             *)
(***************************************************************************)
IsUp == pc # "down"

\* The ledger in memory is always the replay of the chain in memory, through
\* appends, failed persists and their rollback, and restarts; and what is on
\* disk always replays, so a restart is never refused for its content.
LedgerIsReplay ==
  /\ IsUp => ledger = rebuild_state_from_genesis(chain).ledger
  /\ rebuild_state_from_genesis(disk).ok

\* While the store is healthy, memory and disk hold the same chain at every
\* step.  Once it is poisoned, the disk may hold the one block that was rolled
\* back in memory, and nothing else.
MemoryMatchesDisk ==
  IsUp => \/ chain = disk
          \/ poisoned /\ IsPrefix(chain, disk) /\ Len(disk) = Len(chain) + 1

\* A block that was served or pushed to a peer is on disk, at the height it was
\* shown at: no crash, failed persist or restart takes it back.
ExposedIsDurable == IsPrefix(exposed, disk)

\* No transfer is committed twice, whichever way its copies reach the chain:
\* the queue file, a peer's submission, a peer's block, or a retry after a crash.
CommittedOnce ==
  \A h, g \in DOMAIN disk : \A i \in DOMAIN disk[h].txs, j \in DOMAIN disk[g].txs :
    disk[h].txs[i] = disk[g].txs[j] => h = g /\ i = j

FeesBurned(blocks) ==
  LET sum[h \in 0 .. Len(blocks)] ==
        IF h = 0 THEN 0 ELSE sum[h - 1] + FeesOf(blocks[h].txs)
  IN  sum[Len(blocks)]

\* Balances shrink by exactly the fees of the committed transfers: nothing is
\* minted or lost by transfers, self-transfers, new accounts or rollbacks.
SupplyIsConserved ==
  IsUp => total_balance_sum(ledger) + FeesBurned(chain) = total_balance_sum(Genesis)

\* The three structures of the pool agree, and it never exceeds its capacity,
\* whatever mix of submissions, evictions, hygiene, seals and restores.
PoolIsConsistent ==
  IndexMirrorsTxs(pool) /\ OrderMirrorsTxs(pool) /\ WithinCapacity(pool)

\* A tick never reaches the seal with a poisoned store: a sync of the same tick
\* that poisons it also fails, which keeps sealing disabled.
NeverSealsPoisoned == pc = "seal" /\ sealing_allowed => ~poisoned

\* Transfers the data directory and the pool hold for a later block.
Held == Range(pending.txs) \cup pool.txs

Committed(tx) == \E i \in DOMAIN chain : tx \in Range(chain[i].txs)

\* tx was the oldest entry of a full pool and made room for another one.
Evicted(tx) ==
  /\ Full(pool)
  /\ tx = Head(pool.order)
  /\ \E other \in Tx : pool'.order = Append(Tail(pool.order), other)

\* Why tx is not held any more, if it is not.
Explained(tx) ==
  \/ tx \in Held'
  \/ Committed(tx)'
  \/ ~Applies(ledger', tx)
  \/ Evicted(tx)
  \/ pc' = "down"

\* A queued or pooled transfer is never dropped without one of the reasons the
\* code has: it is committed, it cannot run next on the committed ledger, a full
\* pool evicted it, or the process (and its memory) is gone.
LossIsExplained == [][\A tx \in Held : Explained(tx)]_vars

Position(tx) == CHOOSE i \in DOMAIN pool.order : pool.order[i] = tx

\* The producer takes transfers out of the pool in their arrival order.
SealsInArrivalOrder ==
  [][sealed' > sealed =>
       LET txs == chain'[sealed'].txs
       IN  \A i, j \in DOMAIN txs :
             i < j => Position(txs[i]) < Position(txs[j])]_vars

\* tx waits for transfers with lower nonces.
FutureNonce(tx) ==
  ledger[tx.sender] # NoAccount /\ tx.nonce > ledger[tx.sender].nonce

\* The head of the queue file is refused because a transfer that waits has its
\* slot, or because such transfers fill the pool.
HeadBlocked ==
  /\ pending.txs # <<>>
  /\ LET tx == Head(pending.txs)
         inSlot == {other \in pool.txs \ {tx} : SlotOf(other) = SlotOf(tx)}
     IN  \/ \E other \in inSlot : FutureNonce(other)
         \/ Full(pool) /\ \A other \in pool.txs : FutureNonce(other)

\* The queue file is emptied or shortened from its head again and again, so that
\* every entry is consumed, unless it stands still for ever behind a head that
\* transfers with future nonces keep out of the pool: what they wait for may be
\* behind that head.
QueueIsConsumed ==
  \/ []<>(pending.txs = <<>>)
  \/ []<><<Len(pending'.txs) < Len(pending.txs)>>_pending
  \/ <>[]HeadBlocked

\* No transfer that could run next waits in the pool for ever: it is sealed, or
\* dropped, or another one is sealed in its place.
ExecutableIsSettled ==
  \A tx \in Tx : []<>~(tx \in pool.txs /\ Applies(ledger, tx))

=============================================================================
