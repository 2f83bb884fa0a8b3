---------------------------- MODULE LedgerProofs ----------------------------
(***************************************************************************)
(* What applying transfers does to a ledger, for any accounts, amounts and *)
(* transfers: types, sequence numbers and the total of the balances.       *)
(*                                                                         *)
(* Induction is over sets of numbers: a statement about n is turned into   *)
(* the set of the n it holds for.  The first section derives that from the *)
(* least element of a nonempty set of naturals, and with it the existence  *)
(* of recursive functions on 0 .. N.                                       *)
(***************************************************************************)
EXTENDS Ledger, FiniteSetTheorems, WellFoundedInduction, TLAPS

(***************************************************************************)
(* Numbers and recursion.                                                  *)
(***************************************************************************)
\* A nonempty set of naturals has a least element.
LEMMA LeastElement ==
  ASSUME NEW T, T \subseteq Nat, T # {}
  PROVE  \E x \in T : \A y \in T : x <= y
<1> DEFINE R == {p \in Nat \X Nat : p[1] < p[2]}
<1>1. IsWellFoundedOn(R, Nat)
  BY NatLessThanWellFounded, Zenon DEF OpToRel
<1> HIDE DEF R
<1>2. PICK x \in T : \A y \in T : ~ (<<y, x>> \in R)
  BY <1>1, WFMin, Zenon
<1>3. ASSUME NEW y \in T
      PROVE  x <= y
  <2>1. x \in Nat /\ y \in Nat
    BY Zenon
  <2>2. <<y, x>> \in R <=> y < x
    BY <2>1, Zenon DEF R
  <2> QED
    BY <1>2, <2>1, <2>2
<1> QED
  BY <1>3, Zenon

\* Induction up to N: T is the set of the numbers the statement holds for.
LEMMA InductionUpTo ==
  ASSUME NEW N \in Nat, NEW T, 0 \in T,
         \A n \in 1 .. N : n - 1 \in T => n \in T
  PROVE  \A n \in 0 .. N : n \in T
<1> SUFFICES ASSUME NEW m \in 0 .. N, m \notin T
             PROVE  FALSE
  BY Zenon
<1> DEFINE U == (0 .. N) \ T
<1>1. PICK x \in U : \A y \in U : x <= y
  <2>1. U \subseteq Nat /\ U # {}
    OBVIOUS
  <2> HIDE DEF U
  <2> QED
    BY <2>1, LeastElement, Zenon
<1>2. x \in 1 .. N /\ x \notin T
  OBVIOUS
<1>3. x - 1 \in 0 .. N /\ x - 1 \notin U
  BY <1>1, <1>2
<1> QED
  BY <1>2, <1>3, Zenon

\* f solves the recursion with start value b and step function F.
Solves(f, N, V, b, F) ==
  /\ f \in [0 .. N -> V]
  /\ f[0] = b
  /\ \A n \in 1 .. N : f[n] = F[<<f[n - 1], n>>]

\* Every such recursion has a solution.
LEMMA RecursionExists ==
  ASSUME NEW N \in Nat, NEW V, NEW b \in V, NEW F \in [V \X (1 .. N) -> V]
  PROVE  \E f : Solves(f, N, V, b, F)
<1> DEFINE Good(f, m) == f[0] = b /\ \A n \in 1 .. m : f[n] = F[<<f[n - 1], n>>]
           T == {m \in 0 .. N : \E f \in [0 .. m -> V] : Good(f, m)}
<1>1. 0 \in T
  <2> DEFINE g == [n \in 0 .. 0 |-> b]
  <2>1. g \in [0 .. 0 -> V] /\ Good(g, 0)
    OBVIOUS
  <2> HIDE DEF g, Good
  <2> QED
    BY <2>1
<1>2. ASSUME NEW m \in 1 .. N, m - 1 \in T
      PROVE  m \in T
  <2>1. PICK f \in [0 .. m - 1 -> V] : Good(f, m - 1)
    BY <1>2, Zenon
  <2> DEFINE e == F[<<f[m - 1], m>>]
             g == [n \in 0 .. m |-> IF n = m THEN e ELSE f[n]]
  <2>2. e \in V
    OBVIOUS
  <2> HIDE DEF e
  <2>3. g \in [0 .. m -> V] /\ g[m] = e /\ \A n \in 0 .. m - 1 : g[n] = f[n]
    BY <2>2
  <2> HIDE DEF g
  <2>4. ASSUME NEW n \in 1 .. m
        PROVE  g[n] = F[<<g[n - 1], n>>]
    <3>1. g[n - 1] = f[n - 1]
      BY <2>3
    <3>2. CASE n = m
      BY <2>3, <3>1, <3>2, Zenon DEF e
    <3>3. CASE n # m
      <4>1. n \in 1 .. m - 1 /\ n \in 0 .. m - 1
        BY <3>3
      <4> QED
        BY <2>1, <2>3, <3>1, <4>1, Zenon
    <3> QED
      BY <3>2, <3>3, Zenon
  <2>5. Good(g, m)
    <3>1. g[0] = b
      BY <2>1, <2>3
    <3> QED
      BY <2>4, <3>1, Zenon
  <2> QED
    BY <2>3, <2>5
<1>3. N \in T
  <2> HIDE DEF T
  <2> QED
    BY <1>1, <1>2, InductionUpTo
<1> QED
  BY <1>3, Zenon DEF Solves

-----------------------------------------------------------------------------
(***************************************************************************)
(* One transfer.                                                           *)
(***************************************************************************)
\* The fields of a transfer.
LEMMA TxFields ==
  ASSUME NEW tx \in Tx
  PROVE  /\ tx.sender \in Addr /\ tx.receiver \in Addr
         /\ tx.amount \in Nat /\ tx.fee \in Nat /\ tx.nonce \in Nat
         /\ Cost(tx) = tx.amount + tx.fee
BY TxAssumption, MaxU64Assumption DEF Transfer, U64, Cost

\* The debit of a transfer that applies leaves a well-typed ledger.
LEMMA DebitType ==
  ASSUME NEW st \in Ledgers, NEW tx \in Tx, Applies(st, tx)
  PROVE  /\ Debited(st[tx.sender], tx) \in Account
         /\ [st EXCEPT ![tx.sender] = Debited(@, tx)] \in Ledgers
<1>1. /\ tx.sender \in Addr /\ Cost(tx) \in Nat
      /\ st[tx.sender] \in Account
      /\ st[tx.sender].balance >= Cost(tx)
      /\ st[tx.sender].nonce + 1 \in U64
  BY TxFields DEF Applies, Ledgers
<1>2. Debited(st[tx.sender], tx) \in Account
  BY <1>1, MaxU64Assumption DEF Account, U64, Debited
<1> QED
  BY <1>1, <1>2, Zenon DEF Ledgers

\* So does the credit: its overflow was checked, or it returns part of the debit.
LEMMA ApplyType ==
  ASSUME NEW st \in Ledgers, NEW tx \in Tx, Applies(st, tx)
  PROVE  /\ apply_transaction(st, tx) \in Ledgers
         /\ apply_transaction(st, tx)[tx.receiver] \in Account
<1> DEFINE mid == [st EXCEPT ![tx.sender] = Debited(@, tx)]
           a == mid[tx.receiver]
<1>1. /\ mid \in Ledgers /\ tx.sender \in Addr /\ tx.receiver \in Addr
      /\ tx.amount \in Nat /\ tx.fee \in Nat /\ Cost(tx) = tx.amount + tx.fee
      /\ a \in Account \cup {NoAccount}
  BY TxFields, DebitType, Zenon DEF Ledgers
<1>2. tx.amount \in U64
  BY TxAssumption, Zenon DEF Transfer
<1>3. a # NoAccount => a.balance + tx.amount \in U64
  <2>1. CASE tx.receiver = tx.sender
    <3>1. a = Debited(st[tx.sender], tx) /\ st[tx.sender] \in Account
      BY <1>1, <2>1, Zenon DEF Ledgers, Applies
    <3>2. /\ a.balance = st[tx.sender].balance - Cost(tx)
          /\ st[tx.sender].balance \in U64
          /\ st[tx.sender].balance >= Cost(tx)
      BY <3>1 DEF Debited, Applies, Account
    <3> QED
      BY <1>1, <3>2, MaxU64Assumption DEF U64
  <2>2. CASE tx.receiver # tx.sender
    <3>1. a = st[tx.receiver]
      BY <1>1, <2>2, Zenon DEF Ledgers
    <3> QED
      BY <2>2, <3>1, Zenon DEF Applies
  <2> QED
    BY <2>1, <2>2, Zenon
<1>4. Credited(a, tx) \in Account
  <2>1. CASE a = NoAccount
    BY <1>2, <2>1, MaxU64Assumption DEF Credited, Account, U64
  <2>2. CASE a # NoAccount
    <3>1. a \in Account
      BY <1>1, <2>2, Zenon
    <3> QED
      BY <1>3, <2>2, <3>1, Zenon DEF Credited, Account
  <2> QED
    BY <2>1, <2>2, Zenon
<1>5. apply_transaction(st, tx) = [mid EXCEPT ![tx.receiver] = Credited(a, tx)]
  BY Zenon DEF apply_transaction
<1> HIDE DEF mid, a
<1> QED
  BY <1>1, <1>4, <1>5, Zenon DEF Ledgers


\* The nonce of tx was used by its sender.
Spent(st, tx) == st[tx.sender] # NoAccount /\ tx.nonce < st[tx.sender].nonce

\* A transfer moves the nonce of its sender by one and no other nonce.
LEMMA NoncesAfter ==
  ASSUME NEW st \in Ledgers, NEW tx \in Tx, Applies(st, tx)
  PROVE  /\ apply_transaction(st, tx)[tx.sender] # NoAccount
         /\ apply_transaction(st, tx)[tx.sender].nonce = tx.nonce + 1
         /\ \A a \in Addr \ {tx.sender} : st[a] # NoAccount =>
              /\ apply_transaction(st, tx)[a] # NoAccount
              /\ apply_transaction(st, tx)[a].nonce = st[a].nonce
<1> DEFINE mid == [st EXCEPT ![tx.sender] = Debited(@, tx)]
           end == [mid EXCEPT ![tx.receiver] = Credited(mid[tx.receiver], tx)]
<1>1. apply_transaction(st, tx) = end
  BY Zenon DEF apply_transaction
<1>2. tx.sender \in Addr /\ tx.receiver \in Addr /\ mid \in Ledgers /\ end \in Ledgers
  BY <1>1, TxFields, DebitType, ApplyType, Zenon
<1>3. /\ mid[tx.sender] \in Account
      /\ mid[tx.sender].nonce = tx.nonce + 1
      /\ \A a \in Addr \ {tx.sender} : mid[a] = st[a]
  BY <1>2, DebitType, Zenon DEF Ledgers, Debited, Applies
<1> HIDE DEF mid
<1>4. ASSUME NEW a \in Addr, mid[a] # NoAccount
      PROVE  end[a] # NoAccount /\ end[a].nonce = mid[a].nonce
  <2>1. CASE a = tx.receiver
    <3>1. mid[a] \in Account
      BY <1>2, <1>4, Zenon DEF Ledgers
    <3>2. end[a] = [mid[a] EXCEPT !.balance = mid[a].balance + tx.amount]
      BY <1>2, <1>4, <2>1, Zenon DEF Ledgers, Credited
    <3>3. end[a].nonce = mid[a].nonce
      BY <3>1, <3>2, Zenon DEF Account
    <3>4. end[a] \in Account
      BY <1>1, <2>1, ApplyType, Zenon
    <3> QED
      BY <3>3, <3>4, NoAccountAssumption, Zenon
  <2>2. CASE a # tx.receiver
    BY <1>2, <1>4, <2>2, Zenon DEF Ledgers
  <2> QED
    BY <2>1, <2>2, Zenon
<1> QED
  BY <1>1, <1>2, <1>3, <1>4, NoAccountAssumption, Zenon

\* Nonces never go back, and a transfer that is applied is spent by it.
LEMMA SpentAfter ==
  ASSUME NEW st \in Ledgers, NEW tx \in Tx, Applies(st, tx)
  PROVE  /\ ~Spent(st, tx)
         /\ Spent(apply_transaction(st, tx), tx)
         /\ \A t \in Tx : Spent(st, t) => Spent(apply_transaction(st, tx), t)
<1>1. tx.nonce \in Nat /\ tx.sender \in Addr
  BY TxFields, Zenon
<1>2. ~Spent(st, tx)
  BY <1>1 DEF Spent, Applies
<1>3. Spent(apply_transaction(st, tx), tx)
  BY <1>1, NoncesAfter DEF Spent
<1>4. ASSUME NEW t \in Tx, Spent(st, t)
      PROVE  Spent(apply_transaction(st, tx), t)
  <2>1. t.nonce \in Nat /\ t.sender \in Addr
    BY TxFields, Zenon
  <2>2. CASE t.sender = tx.sender
    <3>1. t.nonce < tx.nonce
      BY <1>4, <2>2, Zenon DEF Spent, Applies
    <3> QED
      BY <1>1, <2>1, <2>2, <3>1, NoncesAfter DEF Spent
  <2>3. CASE t.sender # tx.sender
    BY <1>4, <2>1, <2>3, NoncesAfter, Zenon DEF Spent
  <2> QED
    BY <2>2, <2>3, Zenon
<1> QED
  BY <1>2, <1>3, <1>4, Zenon

-----------------------------------------------------------------------------
(***************************************************************************)
(* A list of transfers.                                                    *)
(***************************************************************************)
Results == [ok : BOOLEAN, ledger : Ledgers]

\* One step of the list.
LEMMA NextType ==
  ASSUME NEW acc \in Results, NEW tx \in Tx
  PROVE  ApplyNext(acc, tx) \in Results
<1>1. acc.ledger \in Ledgers
  BY Zenon DEF Results
<1>2. CASE acc.ok /\ Applies(acc.ledger, tx)
  BY <1>1, <1>2, ApplyType, Zenon DEF ApplyNext, Results
<1>3. CASE ~(acc.ok /\ Applies(acc.ledger, tx))
  BY <1>1, <1>3, Zenon DEF ApplyNext, Results
<1> QED
  BY <1>2, <1>3, Zenon

\* ApplyAll(st, txs) is the end of a run of these steps from st.
IsRun(run, st, txs) ==
  /\ run \in [0 .. Len(txs) -> Results]
  /\ run[0] = [ok |-> TRUE, ledger |-> st]
  /\ \A n \in 1 .. Len(txs) : run[n] = ApplyNext(run[n - 1], txs[n])
  /\ ApplyAll(st, txs) = run[Len(txs)]

\* There is such a run.
LEMMA ApplyAllRun ==
  ASSUME NEW st \in Ledgers, NEW txs \in Seq(Tx)
  PROVE  \E run : IsRun(run, st, txs)
<1> DEFINE N == Len(txs)
           b == [ok |-> TRUE, ledger |-> st]
           F == [p \in Results \X (1 .. N) |-> ApplyNext(p[1], txs[p[2]])]
           P(f) == f = [n \in 0 .. N |-> IF n = 0 THEN b ELSE ApplyNext(f[n - 1], txs[n])]
           run == CHOOSE f : P(f)
<1>1. N \in Nat /\ b \in Results
  BY DEF Results
<1>2. F \in [Results \X (1 .. N) -> Results]
  BY NextType
<1>3. PICK f : Solves(f, N, Results, b, F)
  <2> HIDE DEF N, F, b
  <2> QED
    BY <1>1, <1>2, RecursionExists, Zenon
<1>4. P(f)
  <2>1. ASSUME NEW n \in 1 .. N
        PROVE  f[n] = ApplyNext(f[n - 1], txs[n])
    <3>1. f[n - 1] \in Results
      BY <1>1, <1>3 DEF Solves
    <3>2. f[n] = F[<<f[n - 1], n>>]
      BY <1>3, Zenon DEF Solves
    <3> QED
      BY <3>1, <3>2, Zenon
  <2>2. \A n \in 0 .. N : f[n] = IF n = 0 THEN b ELSE ApplyNext(f[n - 1], txs[n])
    BY <1>1, <1>3, <2>1 DEF Solves
  <2>3. f \in [0 .. N -> Results]
    BY <1>3, Zenon DEF Solves
  <2> HIDE DEF b, N
  <2> QED
    BY <2>2, <2>3, Zenon
<1>5. P(run)
  <2> HIDE DEF P
  <2> QED
    BY <1>4, Zenon
<1>6. ApplyAll(st, txs) = run[N]
  BY Zenon DEF ApplyAll
<1> HIDE DEF run
<1>7. /\ run[0] = b
      /\ \A n \in 1 .. N : run[n] = ApplyNext(run[n - 1], txs[n])
  <2> HIDE DEF b, N
  <2> QED
    BY <1>1, <1>5
<1>8. \A n \in 0 .. N : run[n] \in Results
  <2> DEFINE T == {n \in 0 .. N : run[n] \in Results}
  <2>1. 0 \in T
    BY <1>1, <1>7
  <2>2. ASSUME NEW n \in 1 .. N, n - 1 \in T
        PROVE  n \in T
    <3>1. txs[n] \in Tx /\ run[n - 1] \in Results
      BY <2>2
    <3> QED
      BY <1>7, <3>1, NextType
  <2> HIDE DEF T
  <2>3. \A n \in 0 .. N : n \in T
    BY <1>1, <2>1, <2>2, InductionUpTo, Zenon
  <2> QED
    BY <2>3, Zenon DEF T
<1>9. run \in [0 .. N -> Results]
  BY <1>5, <1>8, Zenon
<1> QED
  BY <1>6, <1>7, <1>9, Zenon DEF IsRun

\* A run that is Ok was Ok all along, and no transfer of it failed.
LEMMA RunIsOk ==
  ASSUME NEW st \in Ledgers, NEW txs \in Seq(Tx), NEW run, IsRun(run, st, txs),
         NEW n \in 1 .. Len(txs), run[n].ok
  PROVE  /\ txs[n] \in Tx /\ run[n - 1].ledger \in Ledgers
         /\ run[n - 1].ok
         /\ Applies(run[n - 1].ledger, txs[n])
         /\ run[n].ledger = apply_transaction(run[n - 1].ledger, txs[n])
<1>1. n - 1 \in 0 .. Len(txs) /\ run[n - 1] \in Results /\ txs[n] \in Tx
  BY DEF IsRun
<1>2. run[n] = ApplyNext(run[n - 1], txs[n])
  BY Zenon DEF IsRun
<1> QED
  BY <1>1, <1>2 DEF ApplyNext, Results

\* The result of a list is a ledger.
LEMMA ApplyAllType ==
  ASSUME NEW st \in Ledgers, NEW txs \in Seq(Tx)
  PROVE  ApplyAll(st, txs) \in Results
<1>1. PICK run : IsRun(run, st, txs)
  BY ApplyAllRun, Zenon
<1> QED
  BY <1>1 DEF IsRun

\* What a list that append_block applies says about nonces: its transfers were not spent
\* before, are spent after, and occur once; what was spent stays spent.
THEOREM ApplyAllSpends ==
  ASSUME NEW st \in Ledgers, NEW txs \in Seq(Tx), ApplyAll(st, txs).ok
  PROVE  /\ \A i \in DOMAIN txs : ~Spent(st, txs[i])
         /\ \A i \in DOMAIN txs : Spent(ApplyAll(st, txs).ledger, txs[i])
         /\ \A t \in Tx : Spent(st, t) => Spent(ApplyAll(st, txs).ledger, t)
         /\ \A i, j \in DOMAIN txs : txs[i] = txs[j] => i = j
<1>1. PICK run : IsRun(run, st, txs)
  BY ApplyAllRun, Zenon
<1>2. Len(txs) \in Nat /\ DOMAIN txs = 1 .. Len(txs)
  OBVIOUS
<1> DEFINE Kept(n) == \A t \in Tx : Spent(st, t) => Spent(run[n].ledger, t)
           Used(n) == \A i \in 1 .. n : ~Spent(st, txs[i]) /\ Spent(run[n].ledger, txs[i])
           Once(n) == \A i, j \in 1 .. n : txs[i] = txs[j] => i = j
           T == {n \in 0 .. Len(txs) : run[n].ok => Kept(n) /\ Used(n) /\ Once(n)}
<1>3. 0 \in T
  BY <1>1, <1>2 DEF IsRun
<1>4. ASSUME NEW n \in 1 .. Len(txs), n - 1 \in T
      PROVE  n \in T
  <2> SUFFICES ASSUME run[n].ok
               PROVE  Kept(n) /\ Used(n) /\ Once(n)
    BY <1>2
  <2>1. /\ txs[n] \in Tx /\ run[n - 1].ledger \in Ledgers
        /\ run[n - 1].ok
        /\ Applies(run[n - 1].ledger, txs[n])
        /\ run[n].ledger = apply_transaction(run[n - 1].ledger, txs[n])
    BY <1>1, RunIsOk, Zenon
  <2>2. Kept(n - 1) /\ Used(n - 1) /\ Once(n - 1)
    BY <1>4, <2>1, Zenon
  <2>3. /\ ~Spent(run[n - 1].ledger, txs[n])
        /\ Spent(run[n].ledger, txs[n])
        /\ \A t \in Tx : Spent(run[n - 1].ledger, t) => Spent(run[n].ledger, t)
    BY <2>1, SpentAfter
  <2>4. Kept(n)
    BY <2>2, <2>3, Zenon
  <2>5. Used(n)
    <3> SUFFICES ASSUME NEW i \in 1 .. n
                 PROVE  ~Spent(st, txs[i]) /\ Spent(run[n].ledger, txs[i])
      BY Zenon
    <3>1. CASE i = n
      BY <2>1, <2>2, <2>3, <3>1, Zenon
    <3>2. CASE i # n
      <4>1. i \in 1 .. n - 1 /\ txs[i] \in Tx
        BY <1>2, <3>2
      <4> QED
        BY <2>2, <2>3, <4>1, Zenon
    <3> QED
      BY <3>1, <3>2, Zenon
  <2>6. Once(n)
    <3>1. ASSUME NEW i \in 1 .. n - 1
          PROVE  txs[i] # txs[n]
      BY <2>2, <2>3, Zenon
    <3> SUFFICES ASSUME NEW i \in 1 .. n, NEW j \in 1 .. n, txs[i] = txs[j]
                 PROVE  i = j
      BY Zenon
    <3>2. (i = n \/ i \in 1 .. n - 1) /\ (j = n \/ j \in 1 .. n - 1)
      OBVIOUS
    <3> QED
      BY <2>2, <3>1, <3>2, Zenon
  <2> QED
    BY <2>4, <2>5, <2>6, Zenon
<1>5. Len(txs) \in T
  <2> HIDE DEF T
  <2>1. \A n \in 0 .. Len(txs) : n \in T
    BY <1>2, <1>3, <1>4, InductionUpTo, Zenon
  <2> QED
    BY <1>2, <2>1
<1> QED
  BY <1>1, <1>2, <1>5, Zenon DEF IsRun

-----------------------------------------------------------------------------
(***************************************************************************)
(* The total of the balances.                                              *)
(***************************************************************************)
\* A balance is a natural number.
LEMMA BalanceType ==
  ASSUME NEW st \in Ledgers, NEW a \in Addr
  PROVE  Balance(st, a) \in Nat
<1>1. CASE st[a] = NoAccount
  BY <1>1, Zenon DEF Balance
<1>2. CASE st[a] # NoAccount
  <2>1. st[a] \in Account
    BY <1>2, Zenon DEF Ledgers
  <2> QED
    BY <1>2, <2>1, MaxU64Assumption DEF Balance, Account, U64
<1> QED
  BY <1>1, <1>2, Zenon

\* The list of accounts has every address once.
LEMMA AccountList ==
  /\ Accounts \in Seq(Addr)
  /\ \A i, j \in 1 .. Len(Accounts) : Accounts[i] = Accounts[j] => i = j
  /\ \A a \in Addr : \E i \in 1 .. Len(Accounts) : Accounts[i] = a
<1> DEFINE N == Cardinality(Addr)
<1>1. N \in Nat /\ ExistsBijection(1 .. N, Addr)
  BY AddrAssumption, FS_CardinalityType, Zenon
<1>2. Accounts \in Bijection(1 .. N, Addr)
  BY <1>1, Zenon DEF Accounts, ExistsBijection
<1> HIDE DEF N
<1>3. /\ Accounts \in [1 .. N -> Addr]
      /\ \A i, j \in 1 .. N : Accounts[i] = Accounts[j] => i = j
      /\ \A a \in Addr : \E i \in 1 .. N : Accounts[i] = a
  BY <1>2, Zenon DEF Bijection, Injection, Surjection, IsInjective
<1>4. Accounts \in Seq(Addr) /\ Len(Accounts) = N
  BY <1>1, <1>3
<1> QED
  BY <1>3, <1>4, Zenon

\* total_balance_sum(st) is the end of a sum over the listed accounts.
IsSum(sum, st) ==
  /\ sum \in [0 .. Len(Accounts) -> Nat]
  /\ sum[0] = 0
  /\ \A n \in 1 .. Len(Accounts) : sum[n] = sum[n - 1] + Balance(st, Accounts[n])
  /\ total_balance_sum(st) = sum[Len(Accounts)]

\* There is such a sum.
LEMMA BalanceSum ==
  ASSUME NEW st \in Ledgers
  PROVE  \E sum : IsSum(sum, st)
<1> DEFINE list == Accounts
           N == Len(list)
           F == [p \in Nat \X (1 .. N) |-> p[1] + Balance(st, list[p[2]])]
           P(f) == f = [n \in 0 .. N |-> IF n = 0 THEN 0 ELSE f[n - 1] + Balance(st, list[n])]
           sum == CHOOSE f : P(f)
<1>1. total_balance_sum(st) = sum[N]
  BY Zenon DEF total_balance_sum
<1>2. list \in Seq(Addr)
  BY AccountList, Zenon
<1> HIDE DEF list
<1>3. N \in Nat /\ \A n \in 1 .. N : Balance(st, list[n]) \in Nat
  BY <1>2, BalanceType
<1>4. F \in [Nat \X (1 .. N) -> Nat]
  BY <1>3
<1>5. PICK f : Solves(f, N, Nat, 0, F)
  <2> HIDE DEF N, F
  <2> QED
    BY <1>3, <1>4, RecursionExists, Zenon
<1>6. /\ f \in [0 .. N -> Nat]
      /\ f[0] = 0
      /\ \A n \in 1 .. N : f[n] = F[<<f[n - 1], n>>]
  <2> HIDE DEF N, F
  <2> QED
    BY <1>5, Zenon DEF Solves
<1>7. ASSUME NEW n \in 1 .. N
      PROVE  f[n] = f[n - 1] + Balance(st, list[n])
  <2>1. f[n - 1] \in Nat
    <3> HIDE DEF N, F
    <3> QED
      BY <1>3, <1>6
  <2> QED
    BY <1>6, <2>1, Zenon
<1> HIDE DEF N, F
<1>8. P(f)
  <2>1. \A n \in 0 .. N : f[n] = IF n = 0 THEN 0 ELSE f[n - 1] + Balance(st, list[n])
    BY <1>3, <1>6, <1>7
  <2> QED
    BY <1>6, <2>1, Zenon
<1>9. P(sum)
  <2> HIDE DEF P
  <2> QED
    BY <1>8, Zenon
<1> HIDE DEF sum
<1>10. /\ sum[0] = 0 /\ DOMAIN sum = 0 .. N
       /\ \A n \in 1 .. N : sum[n] = sum[n - 1] + Balance(st, list[n])
  BY <1>3, <1>9
<1>11. \A n \in 0 .. N : sum[n] \in Nat
  <2> DEFINE T == {n \in 0 .. N : sum[n] \in Nat}
  <2>1. 0 \in T
    BY <1>3, <1>10
  <2>2. ASSUME NEW n \in 1 .. N, n - 1 \in T
        PROVE  n \in T
    BY <1>3, <1>10, <2>2
  <2> HIDE DEF T
  <2>3. \A n \in 0 .. N : n \in T
    BY <1>3, <2>1, <2>2, InductionUpTo, Zenon
  <2> QED
    BY <2>3, Zenon DEF T
<1>12. sum \in [0 .. N -> Nat]
  BY <1>9, <1>11, Zenon
<1> QED
  BY <1>1, <1>10, <1>12, Zenon DEF IsSum, N, list

\* When one balance changes, the total changes by as much.
LEMMA OneBalanceChanges ==
  ASSUME NEW st \in Ledgers, NEW end \in Ledgers, NEW a \in Addr,
         \A b \in Addr \ {a} : Balance(end, b) = Balance(st, b)
  PROVE  total_balance_sum(end) - total_balance_sum(st) = Balance(end, a) - Balance(st, a)
<1> DEFINE list == Accounts
           N == Len(list)
<1>1. PICK s : IsSum(s, st)
  BY BalanceSum, Zenon
<1>2. PICK e : IsSum(e, end)
  BY BalanceSum, Zenon
<1>3. /\ list \in Seq(Addr)
      /\ \A i, j \in 1 .. N : list[i] = list[j] => i = j
      /\ \A x \in Addr : \E i \in 1 .. N : list[i] = x
  BY AccountList, Zenon
<1>4. PICK k \in 1 .. N : list[k] = a
  BY <1>3, Zenon
<1>5. /\ s \in [0 .. N -> Nat] /\ e \in [0 .. N -> Nat]
      /\ s[0] = 0 /\ e[0] = 0
      /\ \A n \in 1 .. N : /\ s[n] = s[n - 1] + Balance(st, list[n])
                           /\ e[n] = e[n - 1] + Balance(end, list[n])
      /\ total_balance_sum(st) = s[N] /\ total_balance_sum(end) = e[N]
  BY <1>1, <1>2, Zenon DEF IsSum
<1> HIDE DEF list
<1>6. N \in Nat /\ \A n \in 1 .. N : list[n] \in Addr
  BY <1>3
<1> HIDE DEF N
<1> DEFINE d == Balance(end, a) - Balance(st, a)
           T == {n \in 0 .. N : e[n] - s[n] = IF n < k THEN 0 ELSE d}
<1>7. d \in Int /\ Balance(end, a) \in Nat /\ Balance(st, a) \in Nat
  BY BalanceType
<1>8. 0 \in T
  BY <1>5, <1>6
<1>9. ASSUME NEW n \in 1 .. N, n - 1 \in T
      PROVE  n \in T
  <2>1. /\ s[n - 1] \in Nat /\ e[n - 1] \in Nat
        /\ e[n - 1] - s[n - 1] = IF n - 1 < k THEN 0 ELSE d
    BY <1>5, <1>6, <1>9, Zenon
  <2>2. Balance(st, list[n]) \in Nat /\ Balance(end, list[n]) \in Nat
    BY <1>6, BalanceType, Zenon
  <2>3. s[n] = s[n - 1] + Balance(st, list[n]) /\ e[n] = e[n - 1] + Balance(end, list[n])
    BY <1>5, Zenon
  <2>4. CASE n = k
    <3>1. e[n] - s[n] = d
      BY <1>4, <1>7, <2>1, <2>2, <2>3, <2>4
    <3> QED
      BY <2>4, <3>1
  <2>5. CASE n # k
    <3>1. list[n] \in Addr \ {a}
      BY <1>3, <1>4, <1>6, <2>5, Zenon DEF N
    <3>2. Balance(end, list[n]) = Balance(st, list[n])
      BY <3>1, Zenon
    <3>3. e[n] - s[n] = e[n - 1] - s[n - 1]
      BY <2>1, <2>2, <2>3, <3>2
    <3>4. n - 1 < k <=> n < k
      BY <2>5
    <3> HIDE DEF d
    <3> QED
      BY <2>1, <3>3, <3>4
  <2> QED
    BY <2>4, <2>5, Zenon
<1>10. N \in T
  <2> HIDE DEF T
  <2>1. \A n \in 0 .. N : n \in T
    BY <1>6, <1>8, <1>9, InductionUpTo, Zenon
  <2> QED
    BY <1>6, <2>1
<1> HIDE DEF d
<1>11. e[N] - s[N] = d
  BY <1>6, <1>10
<1> QED
  BY <1>5, <1>11, Zenon DEF d


\* The total is a natural number.
LEMMA TotalType ==
  ASSUME NEW st \in Ledgers
  PROVE  total_balance_sum(st) \in Nat
<1>1. PICK sum : IsSum(sum, st)
  BY BalanceSum, Zenon
<1>2. Len(Accounts) \in Nat
  BY AccountList
<1> QED
  BY <1>1, <1>2 DEF IsSum

\* A transfer moves its amount and burns its fee, also when sender and receiver
\* are the same account or the receiver had none.
LEMMA TotalAfter ==
  ASSUME NEW st \in Ledgers, NEW tx \in Tx, Applies(st, tx)
  PROVE  total_balance_sum(apply_transaction(st, tx)) + tx.fee = total_balance_sum(st)
<1> DEFINE mid == [st EXCEPT ![tx.sender] = Debited(@, tx)]
           end == apply_transaction(st, tx)
           s == tx.sender
           r == tx.receiver
<1>1. /\ s \in Addr /\ r \in Addr /\ tx.amount \in Nat /\ tx.fee \in Nat
      /\ Cost(tx) = tx.amount + tx.fee
  BY TxFields, Zenon
<1>2. mid \in Ledgers /\ end \in Ledgers /\ mid[s] \in Account /\ end[r] \in Account
  BY <1>1, DebitType, ApplyType, Zenon DEF Ledgers
<1>3. mid[s] = Debited(st[s], tx) /\ \A b \in Addr \ {s} : mid[b] = st[b]
  BY <1>1, Zenon DEF Ledgers
<1>4. end[r] = Credited(mid[r], tx) /\ \A b \in Addr \ {r} : end[b] = mid[b]
  BY <1>1, <1>2, Zenon DEF Ledgers, apply_transaction
<1> HIDE DEF mid, end
<1>5. Balance(mid, s) = Balance(st, s) - Cost(tx)
  <2>1. mid[s] # NoAccount /\ st[s] # NoAccount
    BY <1>2, NoAccountAssumption, Zenon DEF Applies
  <2> QED
    BY <1>3, <2>1 DEF Balance, Debited
<1>6. Balance(end, r) = Balance(mid, r) + tx.amount
  <2>1. end[r] # NoAccount
    BY <1>2, NoAccountAssumption, Zenon
  <2>2. CASE mid[r] = NoAccount
    BY <1>1, <1>4, <2>1, <2>2 DEF Balance, Credited
  <2>3. CASE mid[r] # NoAccount
    <3>1. mid[r] \in Account
      BY <1>1, <1>2, <2>3, Zenon DEF Ledgers
    <3> QED
      BY <1>4, <2>1, <2>3, <3>1, Zenon DEF Balance, Credited, Account
  <2> QED
    BY <2>2, <2>3, Zenon
<1>7. total_balance_sum(mid) - total_balance_sum(st) = Balance(mid, s) - Balance(st, s)
  <2>1. \A b \in Addr \ {s} : Balance(mid, b) = Balance(st, b)
    BY <1>3, Zenon DEF Balance
  <2> QED
    BY <1>1, <1>2, <2>1, OneBalanceChanges, Zenon
<1>8. total_balance_sum(end) - total_balance_sum(mid) = Balance(end, r) - Balance(mid, r)
  <2>1. \A b \in Addr \ {r} : Balance(end, b) = Balance(mid, b)
    BY <1>4, Zenon DEF Balance
  <2> QED
    BY <1>1, <1>2, <2>1, OneBalanceChanges, Zenon
<1>9. /\ total_balance_sum(st) \in Nat /\ total_balance_sum(mid) \in Nat
      /\ total_balance_sum(end) \in Nat
      /\ Balance(st, s) \in Nat /\ Balance(mid, r) \in Nat
  BY <1>1, <1>2, TotalType, BalanceType, Zenon
<1>10. total_balance_sum(end) + tx.fee = total_balance_sum(st)
  BY <1>1, <1>5, <1>6, <1>7, <1>8, <1>9
<1> QED
  BY <1>10, Zenon DEF end

\* FeesOf(txs) is the end of a sum over the list.
IsFeeSum(sum, txs) ==
  /\ sum \in [0 .. Len(txs) -> Nat]
  /\ sum[0] = 0
  /\ \A n \in 1 .. Len(txs) : sum[n] = sum[n - 1] + txs[n].fee
  /\ FeesOf(txs) = sum[Len(txs)]

\* There is such a sum.
LEMMA FeeSum ==
  ASSUME NEW txs \in Seq(Tx)
  PROVE  \E sum : IsFeeSum(sum, txs)
<1> DEFINE N == Len(txs)
           F == [p \in Nat \X (1 .. N) |-> p[1] + txs[p[2]].fee]
           P(f) == f = [n \in 0 .. N |-> IF n = 0 THEN 0 ELSE f[n - 1] + txs[n].fee]
           sum == CHOOSE f : P(f)
<1>1. FeesOf(txs) = sum[N]
  BY Zenon DEF FeesOf
<1>2. N \in Nat /\ \A n \in 1 .. N : txs[n].fee \in Nat
  <2>1. N \in Nat /\ \A n \in 1 .. N : txs[n] \in Tx
    OBVIOUS
  <2> QED
    BY <2>1, TxFields, Zenon
<1>3. F \in [Nat \X (1 .. N) -> Nat]
  BY <1>2
<1>4. PICK f : Solves(f, N, Nat, 0, F)
  <2> HIDE DEF N, F
  <2> QED
    BY <1>2, <1>3, RecursionExists, Zenon
<1>5. /\ f \in [0 .. N -> Nat]
      /\ f[0] = 0
      /\ \A n \in 1 .. N : f[n] = F[<<f[n - 1], n>>]
  <2> HIDE DEF N, F
  <2> QED
    BY <1>4, Zenon DEF Solves
<1>6. ASSUME NEW n \in 1 .. N
      PROVE  f[n] = f[n - 1] + txs[n].fee
  <2>1. f[n - 1] \in Nat
    <3> HIDE DEF N, F
    <3> QED
      BY <1>2, <1>5
  <2> QED
    BY <1>5, <2>1, Zenon
<1> HIDE DEF N, F
<1>7. P(f)
  <2>1. \A n \in 0 .. N : f[n] = IF n = 0 THEN 0 ELSE f[n - 1] + txs[n].fee
    BY <1>2, <1>5, <1>6
  <2> QED
    BY <1>5, <2>1, Zenon
<1>8. P(sum)
  <2> HIDE DEF P
  <2> QED
    BY <1>7, Zenon
<1> HIDE DEF sum
<1>9. /\ sum[0] = 0 /\ DOMAIN sum = 0 .. N
      /\ \A n \in 1 .. N : sum[n] = sum[n - 1] + txs[n].fee
  BY <1>2, <1>8
<1>10. \A n \in 0 .. N : sum[n] \in Nat
  <2> DEFINE T == {n \in 0 .. N : sum[n] \in Nat}
  <2>1. 0 \in T
    BY <1>2, <1>9
  <2>2. ASSUME NEW n \in 1 .. N, n - 1 \in T
        PROVE  n \in T
    <3>1. sum[n - 1] \in Nat /\ txs[n].fee \in Nat
      BY <1>2, <2>2, Zenon
    <3>2. sum[n] = sum[n - 1] + txs[n].fee
      BY <1>9, Zenon
    <3> QED
      BY <1>2, <3>1, <3>2
  <2> HIDE DEF T
  <2>3. \A n \in 0 .. N : n \in T
    BY <1>2, <2>1, <2>2, InductionUpTo, Zenon
  <2> QED
    BY <2>3, Zenon DEF T
<1>11. sum \in [0 .. N -> Nat]
  BY <1>8, <1>10, Zenon
<1> QED
  BY <1>1, <1>9, <1>11, Zenon DEF IsFeeSum, N

\* The fees of a list are a number.
LEMMA FeesType ==
  ASSUME NEW txs \in Seq(Tx)
  PROVE  FeesOf(txs) \in Nat
<1>1. PICK sum : IsFeeSum(sum, txs)
  BY FeeSum, Zenon
<1>2. Len(txs) \in 0 .. Len(txs)
  OBVIOUS
<1> QED
  BY <1>1, <1>2, Zenon DEF IsFeeSum

\* A list that append_block applies burns the fees of its transfers and nothing else.
THEOREM ApplyAllBurns ==
  ASSUME NEW st \in Ledgers, NEW txs \in Seq(Tx), ApplyAll(st, txs).ok
  PROVE  /\ FeesOf(txs) \in Nat
         /\ total_balance_sum(ApplyAll(st, txs).ledger) + FeesOf(txs) = total_balance_sum(st)
<1>1. PICK run : IsRun(run, st, txs)
  BY ApplyAllRun, Zenon
<1>2. PICK sum : IsFeeSum(sum, txs)
  BY FeeSum, Zenon
<1>3. Len(txs) \in Nat /\ total_balance_sum(st) \in Nat
  BY TotalType
<1> DEFINE Total(n) == total_balance_sum(run[n].ledger)
           T == {n \in 0 .. Len(txs) : run[n].ok => Total(n) + sum[n] = total_balance_sum(st)}
<1>4. 0 \in T
  <2>1. run[0].ledger = st /\ sum[0] = 0
    BY <1>1, <1>2 DEF IsRun, IsFeeSum
  <2> QED
    BY <1>3, <2>1
<1>5. ASSUME NEW n \in 1 .. Len(txs), n - 1 \in T
      PROVE  n \in T
  <2> SUFFICES ASSUME run[n].ok
               PROVE  Total(n) + sum[n] = total_balance_sum(st)
    BY <1>3
  <2>1. /\ txs[n] \in Tx /\ run[n - 1].ledger \in Ledgers
        /\ run[n - 1].ok
        /\ Applies(run[n - 1].ledger, txs[n])
        /\ run[n].ledger = apply_transaction(run[n - 1].ledger, txs[n])
    BY <1>1, RunIsOk, Zenon
  <2>2. Total(n) + txs[n].fee = Total(n - 1)
    BY <2>1, TotalAfter, Zenon
  <2>3. Total(n - 1) + sum[n - 1] = total_balance_sum(st)
    BY <1>5, <2>1, Zenon
  <2>4. sum[n - 1] \in Nat /\ sum[n] = sum[n - 1] + txs[n].fee
    BY <1>2, <1>3 DEF IsFeeSum
  <2>5. txs[n].fee \in Nat /\ Total(n) \in Nat /\ Total(n - 1) \in Nat
    BY <2>1, TxFields, TotalType, ApplyType, Zenon
  <2> DEFINE all == total_balance_sum(st)
             fee == txs[n].fee
  <2> HIDE DEF Total, all, fee
  <2>6. /\ Total(n) + fee = Total(n - 1) /\ Total(n - 1) + sum[n - 1] = all
        /\ sum[n] = sum[n - 1] + fee
        /\ {sum[n - 1], fee, Total(n), Total(n - 1)} \subseteq Nat
    BY <2>2, <2>3, <2>4, <2>5, Zenon DEF all, fee
  <2>7. Total(n) + sum[n] = all
    BY <2>6
  <2> QED
    BY <2>7, Zenon DEF all
<1>6. Len(txs) \in T
  <2> HIDE DEF T
  <2>1. \A n \in 0 .. Len(txs) : n \in T
    BY <1>3, <1>4, <1>5, InductionUpTo, Zenon
  <2> QED
    BY <1>3, <2>1
<1> QED
  BY <1>1, <1>2, <1>3, <1>6, Zenon DEF IsRun, IsFeeSum

-----------------------------------------------------------------------------
(***************************************************************************)
(* Backwards: a list of transfers that applies determines the ledger it    *)
(* began with, up to accounts that hold nothing and never sent.            *)
(***************************************************************************)
Holding(account) == IF account = NoAccount THEN [balance |-> 0, nonce |-> 0] ELSE account

LEMMA HoldingType ==
  ASSUME NEW x \in Account \cup {NoAccount}
  PROVE  /\ Holding(x) \in Account
         /\ Holding(x).balance \in Nat /\ Holding(x).nonce \in Nat
<1>1. Holding(x) \in Account
  BY MaxU64Assumption DEF Holding, Account, U64
<1> QED
  BY <1>1, MaxU64Assumption DEF Account, U64

Paid(tx, a) == IF a = tx.sender THEN Cost(tx) ELSE 0

Received(tx, a) == IF a = tx.receiver THEN tx.amount ELSE 0

Sent(tx, a) == IF a = tx.sender THEN 1 ELSE 0

\* What a transfer does to the holding of one address.
LEMMA HoldingAfter ==
  ASSUME NEW st \in Ledgers, NEW tx \in Tx, Applies(st, tx), NEW a \in Addr
  PROVE  /\ Holding(apply_transaction(st, tx)[a]).balance
              = Holding(st[a]).balance - Paid(tx, a) + Received(tx, a)
         /\ Holding(apply_transaction(st, tx)[a]).nonce = Holding(st[a]).nonce + Sent(tx, a)
<1> DEFINE mid == [st EXCEPT ![tx.sender] = Debited(@, tx)]
           end == [mid EXCEPT ![tx.receiver] = Credited(mid[tx.receiver], tx)]
<1>1. apply_transaction(st, tx) = end
  BY Zenon DEF apply_transaction
<1>2. /\ tx.sender \in Addr /\ tx.receiver \in Addr /\ mid \in Ledgers /\ end \in Ledgers
      /\ Cost(tx) \in Nat /\ tx.amount \in Nat
  <2>1. tx.sender \in Addr /\ tx.receiver \in Addr /\ mid \in Ledgers /\ end \in Ledgers
    BY <1>1, TxFields, DebitType, ApplyType, Zenon
  <2> HIDE DEF mid, end
  <2>2. Cost(tx) \in Nat /\ tx.amount \in Nat
    BY TxFields
  <2> QED
    BY <2>1, <2>2, Zenon
<1>3. PICK x, y, z : x = st[a] /\ y = mid[a] /\ z = end[a]
  OBVIOUS
<1>4. /\ x \in Account \cup {NoAccount} /\ y \in Account \cup {NoAccount}
      /\ z \in Account \cup {NoAccount}
  BY <1>2, <1>3, Zenon DEF Ledgers
<1>5. /\ a = tx.sender => x \in Account /\ y = Debited(x, tx) /\ y \in Account
      /\ a # tx.sender => y = x
      /\ a = tx.receiver => z = Credited(y, tx) /\ z \in Account
      /\ a # tx.receiver => z = y
  BY <1>1, <1>2, <1>3, DebitType, ApplyType, Zenon DEF Ledgers, Applies
<1>6. /\ Holding(y).balance = Holding(x).balance - Paid(tx, a)
      /\ Holding(y).nonce = Holding(x).nonce + Sent(tx, a)
  <2>1. CASE a = tx.sender
    <3>1. Holding(x) = x /\ Holding(y) = y
      BY <1>5, <2>1, NoAccountAssumption, Zenon DEF Holding
    <3>2. y.balance = x.balance - Cost(tx) /\ y.nonce = x.nonce + 1
      <4>1. /\ Debited(x, tx).balance = x.balance - Cost(tx)
            /\ Debited(x, tx).nonce = x.nonce + 1
        BY Zenon DEF Debited
      <4> QED
        BY <1>5, <2>1, <4>1, Zenon
    <3> QED
      BY <2>1, <3>1, <3>2, Zenon DEF Paid, Sent
  <2>2. CASE a # tx.sender
    <3>1. Holding(y) = Holding(x)
      BY <1>5, <2>2, Zenon
    <3>2. Paid(tx, a) = 0 /\ Sent(tx, a) = 0
      BY <2>2, Zenon DEF Paid, Sent
    <3> HIDE DEF mid, end
    <3> QED
      BY <1>4, <3>1, <3>2, HoldingType
  <2> QED
    BY <2>1, <2>2, Zenon
<1>7. /\ Holding(z).balance = Holding(y).balance + Received(tx, a)
      /\ Holding(z).nonce = Holding(y).nonce
  <2>1. CASE a = tx.receiver
    <3>1. Holding(z) = z /\ Received(tx, a) = tx.amount
      BY <1>5, <2>1, NoAccountAssumption, Zenon DEF Holding, Received
    <3>2. CASE y = NoAccount
      <4>1. z.balance = tx.amount /\ z.nonce = 0
        <5>1. Credited(NoAccount, tx).balance = tx.amount /\ Credited(NoAccount, tx).nonce = 0
          BY Zenon DEF Credited
        <5> QED
          BY <1>5, <2>1, <3>2, <5>1, Zenon
      <4>2. Holding(y).balance = 0 /\ Holding(y).nonce = 0
        BY <3>2, Zenon DEF Holding
      <4> HIDE DEF mid, end
      <4> QED
        BY <1>2, <3>1, <4>1, <4>2
    <3>3. CASE y # NoAccount
      <4>1. y \in Account /\ Holding(y) = y
        BY <1>4, <3>3, Zenon DEF Holding
      <4>2. z = [y EXCEPT !.balance = y.balance + tx.amount]
        BY <1>5, <2>1, <3>3, Zenon DEF Credited
      <4>3. z.balance = y.balance + tx.amount /\ z.nonce = y.nonce
        BY <4>1, <4>2, Zenon DEF Account
      <4> QED
        BY <3>1, <4>1, <4>3, Zenon
    <3> QED
      BY <3>2, <3>3, Zenon
  <2>2. CASE a # tx.receiver
    <3>1. Holding(z) = Holding(y) /\ Received(tx, a) = 0
      BY <1>5, <2>2, Zenon DEF Received
    <3> HIDE DEF mid, end
    <3> QED
      BY <1>4, <3>1, HoldingType
  <2> QED
    BY <2>1, <2>2, Zenon
<1> QED
  BY <1>1, <1>3, <1>6, <1>7, Zenon

\* Two ledgers that hold the same.
Alike(s, t) == \A a \in Addr : Holding(s[a]) = Holding(t[a])

\* Ledgers that are alike after a transfer were alike before it.
LEMMA AlikeBefore ==
  ASSUME NEW s \in Ledgers, NEW t \in Ledgers, NEW tx \in Tx, Applies(s, tx), Applies(t, tx),
         Alike(apply_transaction(s, tx), apply_transaction(t, tx))
  PROVE  Alike(s, t)
<1>1. SUFFICES ASSUME NEW a \in Addr
               PROVE  Holding(s[a]) = Holding(t[a])
  BY Zenon DEF Alike
<1>2. PICK x, y : x = Holding(s[a]) /\ y = Holding(t[a])
  OBVIOUS
<1>3. /\ x \in Account /\ x.balance \in Nat /\ x.nonce \in Nat
      /\ y \in Account /\ y.balance \in Nat /\ y.nonce \in Nat
  BY <1>2, HoldingType, Zenon DEF Ledgers
<1>4. Holding(apply_transaction(s, tx)[a]) = Holding(apply_transaction(t, tx)[a])
  BY Zenon DEF Alike
<1>5. /\ x.balance - Paid(tx, a) + Received(tx, a) = y.balance - Paid(tx, a) + Received(tx, a)
      /\ x.nonce + Sent(tx, a) = y.nonce + Sent(tx, a)
  <2>1. PICK u, v : u = apply_transaction(s, tx) /\ v = apply_transaction(t, tx)
    OBVIOUS
  <2>2. /\ Holding(u[a]).balance = x.balance - Paid(tx, a) + Received(tx, a)
        /\ Holding(u[a]).nonce = x.nonce + Sent(tx, a)
    BY <1>2, <2>1, HoldingAfter, Zenon
  <2>3. /\ Holding(v[a]).balance = y.balance - Paid(tx, a) + Received(tx, a)
        /\ Holding(v[a]).nonce = y.nonce + Sent(tx, a)
    BY <1>2, <2>1, HoldingAfter, Zenon
  <2>4. Holding(u[a]) = Holding(v[a])
    BY <1>4, <2>1, Zenon
  <2> QED
    BY <2>2, <2>3, <2>4, Zenon
<1>6. Paid(tx, a) \in Nat /\ Received(tx, a) \in Nat /\ Sent(tx, a) \in Nat
  BY TxFields DEF Paid, Received, Sent
<1>7. x.balance = y.balance /\ x.nonce = y.nonce
  BY <1>3, <1>5, <1>6
<1>8. x = y
  BY <1>3, <1>7 DEF Account
<1> QED
  BY <1>2, <1>8, Zenon

\* Ledgers that are alike after a list of transfers, applied to both, were alike
\* before: the transfers append_block applies lose nothing but the difference
\* between no account and an empty one.
THEOREM ApplyAllDetermines ==
  ASSUME NEW s \in Ledgers, NEW t \in Ledgers, NEW txs \in Seq(Tx),
         ApplyAll(s, txs).ok, ApplyAll(t, txs).ok,
         Alike(ApplyAll(s, txs).ledger, ApplyAll(t, txs).ledger)
  PROVE  Alike(s, t)
<1>1. PICK f : IsRun(f, s, txs)
  BY ApplyAllRun, Zenon
<1>2. PICK g : IsRun(g, t, txs)
  BY ApplyAllRun, Zenon
<1>3. PICK N \in Nat : N = Len(txs)
  OBVIOUS
<1> DEFINE Good(n) == f[n].ok /\ g[n].ok /\ Alike(f[n].ledger, g[n].ledger)
           T == {k \in 0 .. N : Good(N - k)}
<1>4. Good(N)
  BY <1>1, <1>2, <1>3, Zenon DEF IsRun
<1>5. 0 \in T
  <2> HIDE DEF Good
  <2> QED
    BY <1>4
<1>6. ASSUME NEW n \in 1 .. N, Good(n)
      PROVE  Good(n - 1)
  <2>1. /\ txs[n] \in Tx /\ f[n - 1].ledger \in Ledgers /\ f[n - 1].ok
        /\ Applies(f[n - 1].ledger, txs[n])
        /\ f[n].ledger = apply_transaction(f[n - 1].ledger, txs[n])
    BY <1>1, <1>3, <1>6, RunIsOk, Zenon
  <2>2. /\ g[n - 1].ledger \in Ledgers /\ g[n - 1].ok
        /\ Applies(g[n - 1].ledger, txs[n])
        /\ g[n].ledger = apply_transaction(g[n - 1].ledger, txs[n])
    BY <1>2, <1>3, <1>6, RunIsOk, Zenon
  <2> QED
    BY <1>6, <2>1, <2>2, AlikeBefore, Zenon
<1> HIDE DEF Good
<1>7. ASSUME NEW k \in 1 .. N, k - 1 \in T
      PROVE  k \in T
  <2>1. N - (k - 1) \in 1 .. N /\ (N - (k - 1)) - 1 = N - k /\ k \in 0 .. N
    OBVIOUS
  <2>2. Good(N - (k - 1))
    BY <1>7, Zenon
  <2>3. Good((N - (k - 1)) - 1)
    BY <1>6, <2>1, <2>2, Zenon
  <2> QED
    BY <2>1, <2>3, Zenon
<1>8. N \in T
  <2>1. \A k \in 0 .. N : k \in T
    <3> HIDE DEF T
    <3> QED
      BY <1>5, <1>7, InductionUpTo, Zenon
  <2> HIDE DEF T
  <2> QED
    BY <2>1
<1>9. Good(0)
  BY <1>8
<1>10. f[0].ledger = s /\ g[0].ledger = t
  BY <1>1, <1>2 DEF IsRun
<1> QED
  BY <1>9, <1>10, Zenon DEF Good

=============================================================================
