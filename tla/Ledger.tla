------------------------------- MODULE Ledger -------------------------------
(***************************************************************************)
(* The account ledger (node/src/state.rs) and the static validity of a     *)
(* transfer (node/src/transaction.rs).                                     *)
(*                                                                         *)
(* A ledger maps every address to an account or to NoAccount.  A transfer  *)
(* is a record that plays its own tx_hash, which covers every field but    *)
(* key and signature: hashes are compared only after basic_validate.  The  *)
(* flag authentic stands for everything basic_validate asks of addresses,  *)
(* key, signature, hash and sender binding.                                *)
(***************************************************************************)
EXTENDS Integers, Sequences, FiniteSets, Functions

CONSTANTS
  Addr,         \* the addresses that occur
  MaxU64,       \* the largest balance, amount, fee and nonce (u64::MAX, scaled)
  Tx,           \* the transfers that may be submitted or put in a block
  Genesis,      \* the ledger of height 0 (genesis allocations)
  NoAccount     \* "this address has no entry in State::accounts"

U64 == 0 .. MaxU64

Account == [balance : U64, nonce : U64]

Ledgers == [Addr -> Account \cup {NoAccount}]

Transfer ==
  [sender : Addr, receiver : Addr, amount : U64, fee : U64, nonce : U64,
   authentic : BOOLEAN]

ASSUME MaxU64Assumption == MaxU64 \in Nat
ASSUME TxAssumption == Tx \subseteq Transfer
ASSUME AddrAssumption == IsFiniteSet(Addr)
ASSUME NoAccountAssumption == NoAccount \notin Account
ASSUME GenesisAssumption == Genesis \in Ledgers

basic_validate(tx) == tx.amount # 0 /\ tx.authentic

Cost(tx) == tx.amount + tx.fee

\* Mutant of Applies: the receiver's balance is not checked for overflow.
AppliesUnchecked(st, tx) ==
  /\ basic_validate(tx)
  /\ Cost(tx) \in U64
  /\ st[tx.sender] # NoAccount
  /\ st[tx.sender].nonce = tx.nonce
  /\ st[tx.sender].balance >= Cost(tx)
  /\ tx.nonce + 1 \in U64

\* Mutant of Applies: any nonce is accepted.
AppliesAnyNonce(st, tx) ==
  /\ basic_validate(tx)
  /\ st[tx.sender] # NoAccount
  /\ st[tx.sender].balance >= Cost(tx)
  /\ st[tx.sender].nonce + 1 \in U64
  /\ \/ tx.receiver = tx.sender
     \/ st[tx.receiver] = NoAccount
     \/ st[tx.receiver].balance + tx.amount \in U64

(***************************************************************************)
(* apply_transaction returns Ok: every check of both branches (transfer to *)
(* another account and apply_self_transfer).  All arithmetic is checked,   *)
(* so a sum that leaves U64 is an error.                                   *)
(***************************************************************************)
Applies(st, tx) ==
  /\ basic_validate(tx)
  /\ Cost(tx) \in U64
  /\ st[tx.sender] # NoAccount
  /\ st[tx.sender].nonce = tx.nonce
  /\ st[tx.sender].balance >= Cost(tx)
  /\ tx.nonce + 1 \in U64
  /\ \/ tx.receiver = tx.sender
     \/ st[tx.receiver] = NoAccount
     \/ st[tx.receiver].balance + tx.amount \in U64

(***************************************************************************)
(* The ledger after a transfer that applies.  The fee is credited to       *)
(* nobody; a receiver without an account gets one with nonce 0.            *)
(***************************************************************************)
Debited(account, tx) ==
  [balance |-> account.balance - Cost(tx), nonce |-> account.nonce + 1]

Credited(account, tx) ==
  IF account = NoAccount
  THEN [balance |-> tx.amount, nonce |-> 0]
  ELSE [account EXCEPT !.balance = @ + tx.amount]

\* Mutant of apply_transaction: both accounts are read before either is written,
\* so a transfer to oneself loses its debit.
ApplyFromOldAccounts(st, tx) ==
  [st EXCEPT ![tx.sender] = Debited(@, tx),
             ![tx.receiver] = Credited(st[tx.receiver], tx)]

apply_transaction(st, tx) ==
  LET debited == [st EXCEPT ![tx.sender] = Debited(@, tx)]
  IN  [debited EXCEPT ![tx.receiver] = Credited(@, tx)]

(***************************************************************************)
(* A list of transfers applied in order: the loop of append_block over the *)
(* cloned state.  The flag ok is FALSE as soon as one of them fails.       *)
(***************************************************************************)
ApplyNext(acc, tx) ==
  IF acc.ok /\ Applies(acc.ledger, tx)
  THEN [ok |-> TRUE, ledger |-> apply_transaction(acc.ledger, tx)]
  ELSE [ok |-> FALSE, ledger |-> acc.ledger]

ApplyAll(st, txs) ==
  LET run[n \in 0 .. Len(txs)] ==
        IF n = 0 THEN [ok |-> TRUE, ledger |-> st] ELSE ApplyNext(run[n - 1], txs[n])
  IN  run[Len(txs)]

(***************************************************************************)
(* The sum of all balances.                                                *)
(***************************************************************************)
Balance(st, a) == IF st[a] = NoAccount THEN 0 ELSE st[a].balance

\* The accounts in some order.
Accounts == CHOOSE list \in Bijection(1 .. Cardinality(Addr), Addr) : TRUE

total_balance_sum(st) ==
  LET sum[n \in 0 .. Len(Accounts)] ==
        IF n = 0 THEN 0 ELSE sum[n - 1] + Balance(st, Accounts[n])
  IN  sum[Len(Accounts)]

\* The fees of a list of transfers, by which the sum shrinks.
FeesOf(txs) ==
  LET sum[n \in 0 .. Len(txs)] == IF n = 0 THEN 0 ELSE sum[n - 1] + txs[n].fee
  IN  sum[Len(txs)]

=============================================================================
