------------------------------ MODULE Mempool ------------------------------
(***************************************************************************)
(* The in-memory queue of transfers waiting for a block                    *)
(* (node/src/mempool.rs), as operators on a pool                           *)
(*   txs        HashMap hash -> transaction                                *)
(*   order      VecDeque of hashes, oldest first                           *)
(*   by_sender  the hash that occupies a (sender, nonce) slot, or NoTx     *)
(* Each operator is one method; the module that owns a pool applies them   *)
(* under the node lock.                                                    *)
(***************************************************************************)
EXTENDS Ledger, FiniteSetsExt

CONSTANTS
  Capacity,     \* --mempool-capacity
  MaxBlockTxs,  \* transfers per sealed block (64 in node run)
  NoTx          \* an unoccupied (sender, nonce) slot

ASSUME CapacityAssumption == Capacity \in Nat \ {0}
ASSUME MaxBlockTxsAssumption == MaxBlockTxs \in Nat \ {0}
ASSUME NoTxAssumption == NoTx \notin Tx
ASSUME TxFiniteAssumption == IsFiniteSet(Tx)

Slot == Addr \X U64

Pools ==
  [txs : SUBSET Tx, order : Seq(Tx), by_sender : [Slot -> Tx \cup {NoTx}]]

SlotOf(tx) == <<tx.sender, tx.nonce>>

EmptyPool ==
  [txs |-> {}, order |-> <<>>, by_sender |-> [s \in Slot |-> NoTx]]

\* Mutant of RemoveTxHashes: the slots stay occupied.
RemoveKeepingSlots(pool, gone) == [pool EXCEPT !.txs = @ \ gone]

\* remove_tx_hash for each of a set of hashes: the slot of a transfer that was
\* in the pool is freed by its nonce; order is left to the caller.
RemoveTxHashes(pool, gone) ==
  LET slots == {SlotOf(tx) : tx \in gone \cap pool.txs}
  IN  [pool EXCEPT
         !.txs = @ \ gone,
         !.by_sender = [s \in Slot |-> IF s \in slots THEN NoTx ELSE @[s]]]

\* Pop the first n hashes of the queue and remove their transfers.
PopFront(pool, n) ==
  LET popped == {pool.order[i] : i \in 1 .. n}
  IN  [RemoveTxHashes(pool, popped)
         EXCEPT !.order = SubSeq(@, n + 1, Len(@))]

\* VecDeque::retain: the entries of a queue that are in keep, in their order.
Retain(order, keep) ==
  LET kept[n \in 0 .. Len(order)] ==
        IF n = 0 THEN <<>>
        ELSE IF order[n] \in keep THEN Append(kept[n - 1], order[n])
        ELSE kept[n - 1]
  IN  kept[Len(order)]

remove_by_tx_hashes(pool, gone) ==
  [RemoveTxHashes(pool, gone) EXCEPT !.order = Retain(@, Tx \ gone)]

\* The transfers held, oldest first: the snapshot a drain rolls back to.
clone_fifo(pool) == Retain(pool.order, pool.txs)

restore_fifo(fifo) ==
  LET inSlot(s) == {i \in DOMAIN fifo : SlotOf(fifo[i]) = s}
  IN  [txs |-> Range(fifo),
       order |-> fifo,
       by_sender |-> [s \in Slot |->
         IF inSlot(s) = {} THEN NoTx ELSE fifo[Max(inSlot(s))]]]

-----------------------------------------------------------------------------
(***************************************************************************)
(* Submission.                                                             *)
(***************************************************************************)

\* The checks shared by try_submit and try_submit_pending_drain.
Admissible(pool, tx) ==
  /\ basic_validate(tx)
  /\ tx \notin pool.txs
  /\ pool.by_sender[SlotOf(tx)] \in {NoTx, tx}

Full(pool) == Cardinality(pool.txs) >= Capacity

Insert(pool, tx) ==
  [txs |-> pool.txs \cup {tx},
   order |-> Append(pool.order, tx),
   by_sender |-> [pool.by_sender EXCEPT ![SlotOf(tx)] = tx]]

\* while len >= capacity { evict_oldest }: the shortest prefix of the queue
\* whose removal makes room.
EvictForRoom(pool) ==
  LET enough == {n \in 0 .. Len(pool.order) : ~Full(PopFront(pool, n))}
  IN  PopFront(pool, IF enough = {} THEN Len(pool.order) ELSE Min(enough))

\* The pool after try_submit: a peer's transfer evicts the oldest entries.
try_submit(pool, tx) ==
  IF ~Admissible(pool, tx) THEN pool
  ELSE LET room == EvictForRoom(pool)
       IN  IF Full(room) THEN room ELSE Insert(room, tx)

\* try_submit_pending_drain returns Ok: a full pool rejects, nothing is evicted.
DrainAccepts(pool, tx) == Admissible(pool, tx) /\ ~Full(pool)

-----------------------------------------------------------------------------
(***************************************************************************)
(* Selection for a block: walk the queue on a clone of the ledger.  An     *)
(* unknown sender or a future nonce is skipped; a stale nonce, or the      *)
(* expected nonce of a transfer that does not apply, is an error.          *)
(***************************************************************************)
Skipped(pool, acc, tx) ==
  \/ acc.err
  \/ Len(acc.out) >= MaxBlockTxs
  \/ tx \notin pool.txs
  \/ acc.ledger[tx.sender] = NoAccount
  \/ tx.nonce > acc.ledger[tx.sender].nonce

Visit(pool, acc, tx) ==
  IF Skipped(pool, acc, tx) THEN acc
  ELSE IF Applies(acc.ledger, tx)
  THEN [ledger |-> apply_transaction(acc.ledger, tx),
        out |-> Append(acc.out, tx), err |-> FALSE]
  ELSE [acc EXCEPT !.err = TRUE]

SelectFrom(pool, st, order) ==
  LET walk[n \in 0 .. Len(order)] ==
        IF n = 0 THEN [ledger |-> st, out |-> <<>>, err |-> FALSE]
        ELSE Visit(pool, walk[n - 1], order[n])
  IN  walk[Len(order)]

\* Mutant of ordered_candidates_for_seal: the newest transfer comes first.
SelectNewestFirst(pool, st) ==
  LET n == Len(pool.order)
  IN  SelectFrom(pool, st, [i \in 1 .. n |-> pool.order[n + 1 - i]])

ordered_candidates_for_seal(pool, st) == SelectFrom(pool, st, pool.order)

-----------------------------------------------------------------------------
(***************************************************************************)
(* Hygiene against the committed ledger.                                   *)
(***************************************************************************)
StaleNonce(st, tx) ==
  st[tx.sender] # NoAccount /\ tx.nonce < st[tx.sender].nonce

\* What the front purge drops while it is at the head of the queue.
NonviableHead(st, tx) ==
  \/ ~basic_validate(tx)
  \/ st[tx.sender] = NoAccount
  \/ StaleNonce(st, tx)
  \/ /\ tx.nonce = st[tx.sender].nonce
     /\ Cost(tx) \notin U64 \/ st[tx.sender].balance < Cost(tx)

purge_nonviable_under_committed_state(pool, st) ==
  LET stops == {i \in DOMAIN pool.order :
                  pool.order[i] \in pool.txs /\ ~NonviableHead(st, pool.order[i])}
  IN  PopFront(pool, IF stops = {} THEN Len(pool.order) ELSE Min(stops) - 1)

drop_stale_nonces_vs_committed(pool, st) ==
  remove_by_tx_hashes(pool, {tx \in pool.txs : StaleNonce(st, tx)})

drop_later_sender_nonce_conflicts_keep_fifo_first(pool) ==
  LET live == {i \in DOMAIN pool.order : pool.order[i] \in pool.txs}
      later == {j \in live : \E i \in live :
                  i < j /\ SlotOf(pool.order[i]) = SlotOf(pool.order[j])}
      rest == RemoveTxHashes(pool, {pool.order[j] : j \in later})
  IN  [rest EXCEPT !.order = Retain(@, rest.txs)]

\* Mutant of hygiene_vs_committed_ledger: nothing is dropped.
NoHygiene(pool, st) == pool

hygiene_vs_committed_ledger(pool, st) ==
  drop_later_sender_nonce_conflicts_keep_fifo_first(
    drop_stale_nonces_vs_committed(
      purge_nonviable_under_committed_state(pool, st), st))

-----------------------------------------------------------------------------
(***************************************************************************)
(* Consistency of a pool, for the invariants of the modules that own one.  *)
(***************************************************************************)

\* The slot index names exactly the transfers held, each under its own slot.
IndexMirrorsTxs(pool) ==
  /\ \A tx \in pool.txs : pool.by_sender[SlotOf(tx)] = tx
  /\ \A s \in Slot : pool.by_sender[s] # NoTx =>
       /\ pool.by_sender[s] \in pool.txs
       /\ SlotOf(pool.by_sender[s]) = s

\* The queue lists every transfer held exactly once.
OrderMirrorsTxs(pool) ==
  Range(pool.order) = pool.txs /\ Len(pool.order) = Cardinality(pool.txs)

WithinCapacity(pool) == Cardinality(pool.txs) <= Capacity

=============================================================================
