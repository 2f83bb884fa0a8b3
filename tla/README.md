# Trilogicon node: a TLA+ model

This directory models the node of Trilogicon (`node/src`): one process per data
directory that keeps a linear chain of blocks, a ledger that is the replay of that
chain, a pool of transfers waiting for a block, and files that other processes touch as
well; the exchange of blocks between nodes; and the library that plans a change of
branch (`v3`), which the running node does not call yet. `PROJECT.json` maps every
definition to its source lines.

## The system

| part | source | state | operations |
|---|---|---|---|
| ledger | `state.rs`, `transaction.rs` | accounts: balance, nonce | `apply_transaction`; fees are burnt |
| pool | `mempool.rs` | `txs`, `order` (FIFO), `by_sender` | submit (evicts), drain insert (does not), select for a seal, hygiene, restore |
| chain | `blockchain.rs`, `block.rs`, `consensus.rs` | blocks, ledger | append, roll back the last block, replay |
| store | `storage.rs` | `chain.blocks`, `poisoned`, header seen | append (write, sync), load, repair of a short tail |
| queue | `pending_tx_file.rs` | `pending_tx.tril` | append by `send` and the test UI, drain by the tick |
| tick | `main.rs` `cmd_run` | `sealing_allowed`, position in the tick | start, drain, catch-up, hygiene, seal, sync, gossip, exit |
| inbound sessions | `network.rs` | slot counter, counters per session | accept, handshake, read, apply, write, drop |
| outbound sync | `network.rs`, `main.rs` | position in a call, blocks and rounds of it | handshake, pull batches within a budget, append, push a block |
| peer book | `peer_book.rs` | failure streaks, time of the last failure | record, candidates, cooldown, save |
| data directory | `data_dir_bind.rs`, `file_lock.rs`, `genesis.rs` | `genesis_bind.toml`, `genesis.toml`, wallet, two locks | `init`, verify, create, lock |
| V3 planning | `v3/*.rs` | none (pure) | block index, branch selection, reorg plan, preflight, sandbox |

How they interact: one mutex guards chain, pool, store and peer book. The tick holds
it from the drain to the last sync; sessions take it once per frame, so they run while
the tick sleeps or gossips. `send` and the test UI share no memory with the node: they
meet it in the queue file (with a lock) and in `chain.blocks` (without one). Two nodes
meet in a call of one to a session thread of the other, which needs the mutex of its
own node to answer.

What makes it hard: a persist that fails after memory has advanced; a crash between
any two system calls; a repair that rewrites the chain file; frames decoded before and
applied after the store is poisoned; copies of a transfer that arrive through the
queue, a peer and a block; a queue blocked by its head; counters updated by
compare-and-swap from several threads. `PROJECT.json` lists each at its line under
`hazards`.

## Modules

| module | models | uses |
|---|---|---|
| `Ledger` | accounts and `apply_transaction` with its width-limited arithmetic | |
| `Mempool` | the methods of the pool, on a record of its three structures | `Ledger` |
| `Node` | files, chain, pool and the `run` process; sessions by their effects | `Mempool`, `Chains` |
| `MCNode` | small instances of `Node` | `Node` |
| `Chains` | last, front and prefix of a chain | |
| `DurableLog` | abstract: what a block store promises | `Chains` |
| `ChainStore` | `chain.blocks` by system calls; implements `DurableLog` | `Chains`, `DurableLog` |
| `PeerSessions` | accept loop, slots, session threads and quotas | |
| `PeerBook` | the methods of the peer book, on a function from peers to entries | `Chains` |
| `Sync` | several nodes: ticks, catch-up, gate, sync calls, gossip, books | `PeerBook` |
| `MCSync` | six networks of two nodes | `Sync` |
| `DataDir` | `init`, `run`, `send` and the test UI on one directory | |
| `BlockIndex` | the V3 index, its walks and the fork search | |
| `Reorg` | branch selection, plan, preflight, replay, and a caller of them | `BlockIndex`, `Ledger` |
| `MCReorg` | all indexes over two small trees of blocks | `Reorg` |
| `LedgerProofs` | lemmas and theorems about ledgers and runs of recursive functions | `Ledger` |
| `NodeProofs` | theorems about the pool, about control and about data of a node | `Node`, `LedgerProofs` |
| `ReorgPlanProofs` | lemmas about the walks of the index and the plans they yield | `Reorg`, `LedgerProofs` |
| `ReorgProofs` | theorems about `Reorg`, and lemmas about its replays | `ReorgPlanProofs` |
| `ChainStoreProofs`, `PeerSessionsProofs`, `SyncProofs`, `DataDirProofs` | theorems | the module proved about |

**Ledger.** A ledger maps each address to `[balance, nonce]` or `NoAccount`. `Applies`
is the conjunction of the checks of `apply_transaction`, including the overflow of the
receiver's balance and of the nonce; amounts go up to `MaxU64`, which stands for
`u64::MAX`. A transfer carries the flag `authentic` in place of its hash, key and
signature; its identity (`tx_hash`) is the record itself.

**Mempool.** A pool is `[txs, order, by_sender]`, as in the code, so that disagreement
of the three is expressible. `ordered_candidates_for_seal` walks the order on a copy of
the ledger and returns `[err, out]`: the code gives up the whole selection when a
transfer with the expected nonce does not apply.

**Node.** `pc` is the place in the tick. Its steps are separate actions because the
process may die between two of them and `send` may append in between. A drain is
`DrainBegin`, `DrainOne`..., `DrainEnd` or `DrainEndFails`; a sync is `SyncAppend`...
ended by `SyncPeerOk`, `SyncPeerErr` or `SyncPersistFails`; `Seal` has the four
outcomes of `cmd_run`. `Commit` and `RollBack` are the two outcomes of "append in
memory, then persist": a failed persist leaves the block on disk or not, poisons the
store, and rebuilds the ledger. A peer is any source of blocks the chain accepts;
blocks it refuses change nothing but the outcome of the round. The history variable
`exposed` is the longest chain a peer was given. The nonce of `send` is at most the
committed one (the chain it loaded may be old by now); the UI takes any.

**ChainStore.** The file is `[head, frames, tail]`, with the tail "short" (1 to 3
bytes, which a load repairs) or "long" (which it refuses). `survivors` is the set of
images a power loss may leave: a write adds to it, a completed `sync_all` reduces it to
the file. A repair is two steps, as `fs::write` is: truncate, then write, with no sync.
Two switches separate what the code guarantees from what it does not:
`RepairFaults` (a crash may strike a repair that is not durable yet) and
`ConcurrentSend` (`send` may load while `run` is up). `Node` uses the guarantee: its
`disk` is the chain a reload finds.

**PeerSessions.** The compare-and-swap loops of `try_acquire` and `InboundPermit::drop`
are a load and a swap, each a step, so accept loop and ending sessions interleave. A
session's locals are a record; its frames are a transaction, a request for blocks, a
block of some height, or a bad payload. Setting up, applying and writing are separate
steps because the mutex is released in between. Of the node only height and poison
flag are here; `TickAppends` changes them.

**PeerBook, Sync.** A node's place is `pc` (initial catch-up, gate, sync at the end of a
tick, gossip, idle, down) with the peers still `todo` and the stage of its one outbound
connection. `Connect`, `Setup`, `Serve` and `Receive` are the steps of `sync_from_peer`
and of the session that answers it; `Setup`, `Serve` and `ApplyPush` need the mutex of
the node that answers, which that node holds while it syncs itself. A round ends a call
on an empty answer, on a spent budget, or on an error, and `Returns` records it: in the
book at the end of a tick, in `all_ok` before sealing is allowed. A block is the sequence
of the nodes that sealed it and its ancestors, so where it came from is visible; it does
not name its genesis, as in the code. A pushed block is a message that may be lost, late
or applied twice. `Crash`, a lost message, a failed append and a step of the clock are
bounded by `max_faults`; a clock that was set back stretches the cooldowns of the book and
of gossip alike. `told` and `cut` are history variables: the height a peer
showed, and the peers whose call the budget stopped.

**DataDir.** Each process runs one command at a time and `pc` names the system call it
is at. `init` tests, creates and writes each file separately; `run` and `send` check the
binding early, load, and then create the binding under its lock, by hard link or by the
rename of file systems without links. Locks disappear with the process that holds them,
which is what the kernel does for it. A document is its own commitment. An unwritten
`genesis.toml` parses as a genesis without accounts.

**BlockIndex, Reorg.** The index is a function from hashes to `[height, parent_hash]`.
All V3 operations are pure operators; a walk and a replay are functions of the number of
steps done. `ReplayAgreesWithLiveChain` assumes that the index has the height of the fork
right: the sandbox takes it from there, and the entry is the caller's.
The actions of `Reorg` are the callers' freedom: insert any entry, true or not, make a
plan, change the index behind it, and ask for a report with true or false bodies, parent
headers, fork ledger and expected ledger. `genuine` is the tree of blocks that exist;
`LiveChain` is the reference: what the live node's `append_block` makes of a branch.

## Runs

| run | bounds | result |
|---|---|---|
| `node` | 3 addresses, 5 transfers, `MaxU64` 3, pool of 2, 2 transfers per block, 1 configured and 1 remembered peer, 2 instants, 1 queue entry, 1 network block, all faults | 379,072 states, holds |
| `node_live` | solo, no faults, 4 affordable transfers of one sender with nonces 0, 1, 1, 2, queue of 2, pool of 2 | 18,065 states, holds |
| `node_stall` | solo, no faults, 2 transfers that cannot both be paid for | violated |
| `store_safe` | 4 blocks, repairs complete, no concurrent `send` | 11,188 states, holds |
| `store_faults` | 3 blocks, both switches on | 1,001,108 states, holds |
| `store_repair_crash` | 3 blocks, crash inside a repair | violated |
| `store_send_race` | 3 blocks, `send` beside `run` | violated |
| `sessions` | 3 connections, 2 slots, every quota 1 to 4 | 747,578 states, holds |
| `sessions_live` | 2 connections, frame limit below the application limit | 25,238 states, holds |
| `v3` | 4 hashes, heights to 2, 2 trees, reorg depth 1, `MaxU64` 5, 1 lie in index or material | 250,590 states, holds |
| `sync` | 6 networks of 2 nodes, batches of 2, budget of 2 rounds and 2 blocks, cooldown after 1 failure, backoff factor to 2, `MaxU32` 3 | 101,356 states, holds |
| `datadir` | 2 processes, 2 documents, 3 commands, 1 kill, 2 blocks | 127,174 states, holds |

What the properties say:

- **node**: the ledger is the replay of the chain and the disk always replays
  (`LedgerIsReplay`); memory and disk agree except for the one block whose persist
  failed (`MemoryMatchesDisk`); a block shown to a peer stays (`ExposedIsDurable`); no
  transfer is committed twice (`CommittedOnce`); balances shrink by exactly the fees
  (`SupplyIsConserved`); the pool's structures agree (`PoolIsConsistent`); no seal on a
  poisoned store (`NeverSealsPoisoned`); no transfer is dropped without a reason the
  code has (`LossIsExplained`); seals keep arrival order (`SealsInArrivalOrder`).
- **node_live**: the queue file keeps being shortened from its head, unless it stands
  still behind a head whose slot is taken by a pooled transfer that waits for a lower
  nonce, or which finds the pool full of such transfers (`QueueIsConsumed`). The drain
  stops at the first refusal, so what they wait for may be behind that head: two
  transfers with nonce 1 queued before the one with nonce 0 stop the queue for good, and
  the run reaches both cases. Every other refusal ends, and no executable transfer waits
  in the pool for ever (`ExecutableIsSettled`).
- **store_safe**: `send` never gets further than a load (in `TypeOK`); a serving node has every acknowledged block (`NoSilentLoss`), file
  and memory agree (`MemoryMatchesFile`), a power loss keeps acknowledged blocks
  (`AckedOnMedium`), and the store implements `DurableLog` (`ImplementsDurableLog`).
- **store_faults**: even then what is served replays (`ServesLinearChain`), and only a
  repair loses an acknowledged block (`OnlyRepairsLoseBlocks`).
- **sessions**, **sessions_live**: exact slots (`SlotsAreExact`), quotas
  (`QuotasHold`), silence after a failed persist (`PoisonSilencesSessions`), and every
  slot is returned (`SlotsAreReturned`).
- **v3**: the fork search finds the deepest common ancestor whatever was inserted
  (`ForkIsDeepestCommonAncestor`); the choice between tips does not depend on their
  order and never gives up more blocks than it adds (`SelectionNeverShortens`); a plan
  is valid exactly when the index of now would give it (`ValidPlanIsCurrent`); a replay
  succeeds only where the live node would, with the same ledger
  (`ReplayAgreesWithLiveChain`); a wrong ledger at the fork is noticed, up to accounts
  that hold nothing (`WrongForkStateIsCaught`).
- **sync**: no block crosses from one network to another (`NetworksStayApart`); with
  one sealer every node holds a prefix of its chain (`OneSealerOneChain`); sealing is
  allowed only after every configured peer has answered and was not ahead
  (`GateOpensAfterCatchUp`); every tick ends (`TickEnds`); a follower of the only sealer
  catches up once both stay up (`CatchesUp`). If the sealer itself has peers, the
  follower must also stop timing out: two nodes that sync from each other can hold their
  mutexes and time out in step for ever, and TLC shows such a behaviour when this
  hypothesis is dropped.
- **datadir**: the binding is never replaced (`BindingIsForever`); everything in a
  directory belongs to one genesis (`OneGenesisPerDirectory`); a node alone writes the
  file it has loaded (`LiveChainIsTheFile`); every command ends (`CommandsEnd`).

Three limits of the code are visible in how these are worded. A call that its budget
stopped counts as caught up (`main.rs:575`), and so does a peer on another branch of at
most the same height, which has nothing to send: the gate compares heights, not chains.
With two sealers chains part for good, so `OneSealerOneChain` and `CatchesUp` are about
one. The test UI queues a transfer before it ensures the binding, so
`OneGenesisPerDirectory` speaks of the queue entries of `send` only.

**Bounds.** The amounts are such that two balances together exceed `MaxU64`, so overflow
of a receiver happens; the five transfers create an account, overflow one, go to their
own sender, come from an account that must be created first, and are unsigned. A pool of
2 evicts; a block of 2 leaves entries behind. One network block and the seals on top of
it are enough for a stale pool entry, a copy of a committed transfer and a rolled back
block. Three blocks let the store lose one that is not the last. Three connections on
two slots make the accept loop refuse and retry. Four hashes are the smallest tree with
two branches of different length and one entry to spare for a lie. The six networks are
a follower of a sealer, the same where both seal, the same with a follower of another
genesis, a sealer whose follower learns of blocks by pushes only, two nodes that follow
each other, and two that do so with different genesis documents. A node with a peer of
another genesis never opens its gate, so it has no block to push: in the last network
nothing is sealed, and it is the third in which blocks of a foreign genesis are there to
be fetched. A chain of 3 is more than a call may take, so budgets are spent and batches
cut. The streak of failures passes the largest factor of the cooldown and reaches
`MaxU32`, where it saturates. Two processes and two documents are enough for every race
on the binding. Deadlock is checked except in the store runs, where a chain file that does not load really stops the
node until an operator acts, and in `datadir`, which ends with its last command.

**Fairness.** `Node!FairSpec` has weak fairness of `Start` and of the tick: `cmd_run`
loops with a sleep and is granted its mutex, and the operator restarts a node.
`PeerSessions!FairSpec` has weak fairness of each session thread, as every socket has
a read and (by default) a write timeout, and strong fairness of `DropCas`: a
compare-and-swap that can succeed again and again does. `Sync` has weak fairness of the
tick and of timeouts (every socket of a call has them) and strong fairness of `Setup`
and `Serve`: the session thread waits for a mutex that is released between ticks, and
gets it if that happens again and again; nothing keeps two nodes from timing out in step,
which is the hypothesis of `CatchesUp`. `DataDir` has weak fairness of every process:
it runs, and a blocking lock is granted when it is free. `node_live` has no peers on
purpose: a peer can fill the pool with transfers of future nonces, or resubmit a stale
nonce before each drain, and the queue then waits; that is how the code is built.

## Disagreements found

- `store_repair_crash`: the repair rewrites `chain.blocks` in place
  (`storage.rs:275`). Killed after the truncation it leaves an empty file, which is a
  valid empty chain to the next start; `docs/v2_scope.md:26` promises fail-closed
  startup.
- `store_send_race`: `send` loads, and may repair, without the run lock
  (`main.rs:437`). `run` is killed and leaves a short tail; `send` begins the repair and
  has truncated the file when `run` is started again, loads the empty file and comes up
  without blocks; then `send` writes the blocks back. The running node has an empty chain
  over a file that holds blocks, although `docs/protocol_invariants.md:24` promises that a
  reload reproduces the committed state.
- `node_stall`: one unaffordable transfer fails every selection
  (`mempool.rs:184`), while `docs/v2_scope.md:48` says the producer skips what is not
  executable; the comment at `mempool.rs:237` knows the gap.

## Proofs

All theorems hold for every value of the constants that the named assumptions of the
modules allow.

- **Control, in `NodeProofs`**. The inductive invariant `NodeInv` has five parts: chains are
  sequences of blocks; the control state has its types; a poisoned store implies that
  the tick is not at a seal with sealing enabled, and that a round of syncs which
  poisoned it has failed; memory equals disk, or lacks one block and is poisoned; what
  was exposed is a prefix of the disk and a block sealed in this tick is in the chain.
  The third part is the strengthening that `NeverSealsPoisoned` needs: the flag is
  read only at the start of the tick, so the proof must follow it through the syncs.
  Every action is one of five kinds (chain unchanged, grown, failed to grow, started,
  stopped); the preservation of the memory and exposure parts is proved once per kind.
  Results: `MemoryAgreesWithDisk`, `ShownBlocksAreDurable`,
  `SealingImpliesHealthyStore`.
- **`LedgerProofs`, and the pool in `NodeProofs`**. `Ledger`, `Mempool` and `Node` write each loop of
  the code as a recursive function of the number of steps done. The provers cannot use an
  induction theorem with a predicate as parameter, so `LedgerProofs` starts from the least
  element of a set of naturals: it shows that a function on `0 .. N` with a given step
  exists and is what the recursive definition gives, and then reasons about that run.
  Results on a block that applies: it uses each nonce once and leaves earlier nonces
  unusable (`ApplyAllSpends`), lowers the sum of balances by its fees (`ApplyAllBurns`),
  and can be read backwards: two ledgers from which it gives the same one were the same,
  but for accounts that hold nothing (`ApplyAllDetermines`). On the pool:
  `SubmissionKeepsPool`, `HygieneKeepsExecutable`, `SelectionInOrder`.
- **The data of a node, in `NodeProofs`**. `DataInv` is `NodeInv` with three parts more.
  The chain on disk and the one in memory replay, the latter to the ledger; a rolled back block is why the
  disk must be in it. The pool is consistent, and so is the snapshot a failed drain
  restores. `DrainInv` says where a transfer is in the middle of a drain: an entry of the
  file is still to be read or in the pool, and the pool holds nothing else but what it
  held before; without it neither end of a drain explains what it removes. Each action
  does one of five things to blocks and ledger, as above, and each is proved once.
  Results: `NodeTypeCorrect`, `LedgerReplaysChain`, `TransfersCommitOnce` (a committed
  transfer has a nonce below its sender's), `SupplyConserved`, `PoolStaysConsistent`,
  `EveryLossExplained`, `SealsInPoolOrder`. They assume finitely many addresses and
  transfers, as the model's sums and sets do.
- **`ChainStoreProofs`**, in two parts. For `~RepairFaults` and `~ConcurrentSend`,
  `StoreInv` says for each place of a process which image the file has relative to
  memory, and that every survivor has the acknowledged blocks unless a rewrite is
  pending. Results: `AcknowledgedBlocksAreServed`, `FileAndMemoryAgree`,
  `AcknowledgedBlocksAreDurable`, and `StoreRefinesLog`: initial states map to initial
  states of `DurableLog` and every step to an acknowledgement, a recovery, a stop or a
  stutter. For both switches in any position, `FaultInv` says that every image a process
  holds or a power loss may leave has no block newer than the last built, that a chain in memory
  is linear, that the block being appended is newer than every acknowledged one
  (`Fresh`: the torn write of it takes none away), and that once a rewrite is synced the
  medium keeps what the file keeps (`MediumFollows`: otherwise a crash long after the
  repair would be the step that loses the block). Results: `TypeCorrect`,
  `ServedChainReplays`, `LossComesFromRepairs`.
- **`PeerSessionsProofs`**. `SessionInv` is the types, the exact slot count and, per
  session, the quotas together with the fact that a transaction in hand is counted but
  not submitted. Results: `SlotCounterIsExact` (by the cardinality of the set of
  threads that own a permit), `SessionsStayWithinQuotas`, `SessionTypeCorrect`,
  `PoisonIsFinal`.
- **`SyncProofs`**, for any finite set of nodes, any peers, budgets and faults. The
  first two results are not inductive: a block is for a while in an answer or in a push.
  `SyncInv` says that a connection exists only in the places that make calls and, once
  set up, leads to a peer with the same genesis; that what a call has appended stays
  within its budget; that a block stands at its height; and then, for what a node holds
  in its chain, in an answer or in a push alike, that it was sealed under the node's
  genesis, and by the one sealer no higher than that sealer is. The first section shows
  that every step leaves blocks where they are or is one of four moves (seal, take,
  answer, send); the parts are then proved once per move. Results:
  `HandshakeSeparatesNetworks`, `FollowersHoldAPrefix`. The latter assumes what
  `ChainStore` shows, that an acknowledged block survives a restart: a sealer that
  forgot one could seal another. For the gate, `GateInv` follows a catch-up: as long as
  no call has failed, each configured peer is still in `todo` or is done, which means
  that it was heard and that the node is as high as it said or the budget stopped the
  call; an empty answer on its way means the former, also when the node has grown since
  by a push. It rests on the budget part of `SyncInv`, on chains that only grow while a
  node is up, and on a list of all peers at the start of a round. Result:
  `GateWaitsForPeers`. For the types, `TypeInv` adds what the limits rest on: an
  open connection has a round left; the gossip runs only after a seal, and a push holds a
  block; nothing a node holds, has sealed or has been sent is higher than the bound, as a
  sealer at the bound does not seal. The loop that filters the books is shown to give a
  list of items of its argument, and the books to keep their entries typed. Peers
  are listed in any one order (`ListedAssumption`). Result: `SyncTypeCorrect`.
- **`ReorgPlanProofs`, `ReorgProofs`**, for any hashes, trees of blocks, entries and
  lies. A *line* is a sequence of sound links: each entry names the one below as its
  parent and stands one higher. A walk is shown to follow the one longest line from its
  start and to stop for the reason its error gives, so two walks meet in the deepest
  common ancestor. A plan passes validation exactly when its segments are two disjoint
  lines on its fork and the fork leads down to a root. `Inv` says that the index is finite and typed, a plan has the
  fields of one, and a report is what `run_report` gave for some material of the caller.
  A replay that is Ok is a run of blocks, each with the right parent, height, timestamp
  and ledger. Going up from the fork, each body that was taken is the true block, as its
  hash is, and the live chain goes through the same ledgers. Going down from the old tip,
  `ApplyAllDetermines` gives the ledger below each block. Results: `ReorgTypeCorrect`,
  `ForkDeepest`, `NoShortening`, `ValidCurrent`, `ReplayAgrees`, `WrongForkStateCaught`.
- **`DataDirProofs`**, for any number of processes and documents. `DirInv` adds to the
  two safety invariants who holds which lock at which `pc`: the rename, which would
  replace a binding, is reached only under the lock and after the file was seen to be
  missing. Results: `DirectoryHasOneGenesis`, `NodeOwnsItsFile`,
  `BindingIsNeverReplaced`.

Every invariant and every action property that a passing run checks is also proved. Only
model-checked are the liveness properties (`QueueIsConsumed`, `ExecutableIsSettled`,
`SlotsAreReturned`, `TickEnds`, `CatchesUp`, `CommandsEnd`), as fairness is outside the
prover's reach.

## Not modelled

- Byte layouts (encoding, CRC, framing, TOML) and cryptography: their round trips are
  conversions that unit tests reach. Block and frame sizes in `Sync`: an answer that
  does not fit in a frame (`network.rs:650`) stalls a follower, and `CatchesUp` is about
  answers that fit.
- The command line, wording and logging, and the read-only views of the test UI: they
  change no shared state.
- The caches of seen hashes (`seen.rs`): the node creates them and never asks them.
  `push_tx_to_peer` and the methods of the peer book without
  a caller. The soft walk `path_to_genesis` of the block index and the counters of a
  sandbox report.
- The frame-size error of the store and the failed rollback (with the `FATAL:` exit it
  leads to), which the callers cannot reach; the synchronisation of directories; panics
  that poison the mutex; the replacement of the queue file on Windows. Errors that make
  `cmd_run` return early (listener, peer book) are covered by `Crash`.
- A torn `peer_book.toml` (`peer_book.rs:90`): the next start refuses it.
- A minimum interval between blocks: `min_block_interval_secs` is 0, its default. The
  partial frame that a failed append may leave is in `ChainStore` only: in `Node` the
  block is on disk or not. `DataDir` reads the files of a start in one step.

## What would come next

`Sync` with sizes of blocks, and with three nodes.
