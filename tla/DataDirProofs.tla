--------------------------- MODULE DataDirProofs ---------------------------
(***************************************************************************)
(* Proofs about DataDir, for any number of processes, genesis documents,   *)
(* commands, kills and blocks.                                             *)
(***************************************************************************)
EXTENDS DataDir, TLAPS

Binding == {"bind_check", "bind_link", "bind_rename"}

Starting == {"files", "chain", "bind_lock", "up"} \cup Binding

(***************************************************************************)
(* The inductive invariant adds who holds which lock where.  Who is        *)
(* between the look at the binding and the end of ensure_binding_if_missing *)
(* holds the lock of the binding alone, so that a rename, which would      *)
(* replace a binding, still finds none.  A `run` past its first step, and  *)
(* the UI's probe, hold the run lock alone, so that nobody else appends.   *)
(***************************************************************************)
BindLockIsExclusive ==
  \A p \in Procs :
    /\ pc[p] \in Binding => bind_lock = {p}
    /\ pc[p] = "bind_rename" => bind = NoFile

RunLockIsExclusive ==
  \A p \in Procs :
    /\ cmd[p] = "run" /\ pc[p] \in Starting => run_lock = {p}
    /\ pc[p] = "probed" => run_lock = {p}
    /\ pc[p] = "up" => cmd[p] = "run"

DirInv ==
  /\ TypeOK
  /\ BindLockIsExclusive
  /\ RunLockIsExclusive
  /\ OneGenesisPerDirectory
  /\ LiveChainIsTheFile

USE DataDirAssumption

\* A command that returns leaves its locals well typed.
LEMMA ReturnTypes == \A p \in Procs : ProcsOK /\ Return(p) => ProcsOK'
  BY DEF ProcsOK, Return, Goto, Labels, HoldsKey, Commands, Genesis

\* A command that returns, and does not write the binding without its lock, gives no lock to anybody
\* and takes none from anybody else.
LEMMA ReturnLocks ==
  \A p \in Procs :
    DirInv /\ Return(p) /\ (bind' = bind \/ pc[p] \in Binding)
      => BindLockIsExclusive' /\ RunLockIsExclusive'
  BY DEF DirInv, TypeOK, ProcsOK, BindLockIsExclusive, RunLockIsExclusive, Return, Goto, Binding, Starting

\* The files keep their types: what `init` writes is a document, and what a process
\* binds, queues or seals under is a genesis.
LEMMA FilesStep == ASSUME TypeOK, [Next]_vars PROVE FilesOK'
<1> USE DEF TypeOK, FilesOK, ProcsOK, At, files
<1>1. CASE UNCHANGED vars
  BY <1>1 DEF vars
<1>2. ASSUME NEW p \in Procs,
             \/ Begin(p) \/ RunLock(p) \/ LoadFiles(p) \/ LoadChain(p) \/ BindLock(p)
             \/ BindCheck(p) \/ Overview(p) \/ Drain(p) \/ Stop(p) \/ Crash(p)
      PROVE  FilesOK'
  BY <1>2 DEF Begin, RunLock, LoadFiles, LoadChain, BindLock, BindCheck, Overview, Drain, Stop, Crash
<1>3. ASSUME NEW p \in Procs,
             \/ InitWallet(p) \/ InitWalletCreate(p) \/ InitWalletWrite(p)
             \/ InitGenesis(p) \/ InitGenesisCreate(p) \/ InitGenesisWrite(p)
      PROVE  FilesOK'
  BY <1>3 DEF InitWallet, InitWalletCreate, InitWalletWrite, InitGenesis,
              InitGenesisCreate, InitGenesisWrite, HoldsKey
<1>4. ASSUME NEW p \in Procs, BindLink(p) \/ BindRename(p) PROVE FilesOK'
  BY <1>4 DEF BindLink, BindRename
<1>5. ASSUME NEW p \in Procs, QueueTx(p) \/ UiQueueTx(p) PROVE FilesOK'
  BY <1>5 DEF QueueTx, UiQueueTx, append_pending_transaction
<1>6. ASSUME NEW p \in Procs, AppendBlock(p) PROVE FilesOK'
  BY <1>6 DEF AppendBlock, Block
<1>7. QED
  BY <1>1, <1>2, <1>3, <1>4, <1>5, <1>6 DEF Next, Step

\* The steps keep what a process holds in its type (all of the actions of DataDir).
LEMMA ProcsStep == ASSUME TypeOK, [Next]_vars PROVE ProcsOK'
<1> USE DEF TypeOK, ProcsOK, Labels, HoldsKey, Commands, Genesis, Goto, At, held, mine, locks
<1>1. CASE UNCHANGED vars
  BY <1>1 DEF vars
<1>2. ASSUME NEW p \in Procs, Begin(p) PROVE ProcsOK'
  BY <1>2 DEF Begin
<1>3. ASSUME NEW p \in Procs, InitWallet(p) PROVE ProcsOK'
  <2>1. CASE Return(p)
    BY <1>3, <2>1, ReturnTypes DEF InitWallet
  <2>2. CASE ~Return(p)
    BY <1>3, <2>2 DEF InitWallet
  <2>3. QED
    BY <2>1, <2>2
<1>4. ASSUME NEW p \in Procs, InitWalletCreate(p) PROVE ProcsOK'
  BY <1>4 DEF InitWalletCreate
<1>5. ASSUME NEW p \in Procs, InitWalletWrite(p) PROVE ProcsOK'
  <2>1. CASE Return(p)
    BY <1>5, <2>1, ReturnTypes DEF InitWalletWrite
  <2>2. CASE ~Return(p)
    BY <1>5, <2>2 DEF InitWalletWrite
  <2>3. QED
    BY <2>1, <2>2
<1>6. ASSUME NEW p \in Procs, InitGenesis(p) PROVE ProcsOK'
  <2>1. CASE Return(p)
    BY <1>6, <2>1, ReturnTypes DEF InitGenesis
  <2>2. CASE ~Return(p)
    BY <1>6, <2>2 DEF InitGenesis
  <2>3. QED
    BY <2>1, <2>2
<1>7. ASSUME NEW p \in Procs, InitGenesisCreate(p) PROVE ProcsOK'
  BY <1>7 DEF InitGenesisCreate
<1>8. ASSUME NEW p \in Procs, InitGenesisWrite(p) PROVE ProcsOK'
  BY <1>8, ReturnTypes DEF InitGenesisWrite
<1>9. ASSUME NEW p \in Procs, RunLock(p) PROVE ProcsOK'
  <2>1. CASE Return(p)
    BY <1>9, <2>1, ReturnTypes DEF RunLock
  <2>2. CASE ~Return(p)
    BY <1>9, <2>2 DEF RunLock
  <2>3. QED
    BY <2>1, <2>2
<1>10. ASSUME NEW p \in Procs, LoadFiles(p) PROVE ProcsOK'
  <2>1. CASE Return(p)
    BY <1>10, <2>1, ReturnTypes DEF LoadFiles, load_genesis_for_cmd, from_path
  <2>2. CASE ~Return(p)
    <3>1. PICK g \in load_genesis_for_cmd(p) :
            /\ doc' = [doc EXCEPT ![p] = g]
            /\ funded' = [funded EXCEPT ![p] = wallet = g]
      BY <1>10, <2>2 DEF LoadFiles
    <3>2. g \in Genesis
      BY DEF load_genesis_for_cmd, from_path, FilesOK
    <3>3. funded' \in [Procs -> BOOLEAN]
      <4>1. (wallet = g) \in BOOLEAN
        OBVIOUS
      <4>2. QED
        BY <3>1, <4>1, Zenon
    <3>4. doc' \in [Procs -> Genesis]
      BY <3>1, <3>2
    <3>5. /\ Goto(p, "chain")
          /\ UNCHANGED <<locks, cmd, seen>>
      BY <1>10, <2>2 DEF LoadFiles
    <3>6. \A q \in Procs : pc'[q] \in HoldsKey => doc'[q] \in Docs
      BY <3>1, <3>5
    <3>7. QED
      BY <3>3, <3>4, <3>5, <3>6
  <2>3. QED
    BY <2>1, <2>2
<1>11. ASSUME NEW p \in Procs, LoadChain(p) PROVE ProcsOK'
  <2>1. CASE Return(p)
    BY <1>11, <2>1, ReturnTypes DEF LoadChain
  <2>2. CASE ~Return(p)
    <3>1. /\ seen' = [seen EXCEPT ![p] = Len(chain)]
          /\ pc' = [pc EXCEPT ![p] = "account"] \/ pc' = [pc EXCEPT ![p] = "bind_lock"]
          /\ UNCHANGED <<locks, cmd, doc, funded>>
      BY <1>11, <2>2 DEF LoadChain
    <3>2. Len(chain) \in Nat
      BY DEF FilesOK
    <3>3. QED
      BY <3>1, <3>2
  <2>3. QED
    BY <2>1, <2>2
<1>12. ASSUME NEW p \in Procs, BindLock(p) PROVE ProcsOK'
  BY <1>12 DEF BindLock
<1>13. ASSUME NEW p \in Procs, BindCheck(p) PROVE ProcsOK'
  <2>1. CASE Return(p)
    BY <1>13, <2>1, ReturnTypes DEF BindCheck, read_binding_and_verify, Bound
  <2>2. CASE ~Return(p)
    BY <1>13, <2>2 DEF BindCheck, read_binding_and_verify, Bound
  <2>3. QED
    BY <2>1, <2>2
<1>14. ASSUME NEW p \in Procs, BindLink(p) PROVE ProcsOK'
  <2>1. CASE Return(p)
    BY <1>14, <2>1, ReturnTypes DEF BindLink, read_binding_and_verify, Bound
  <2>2. CASE ~Return(p)
    BY <1>14, <2>2 DEF BindLink, read_binding_and_verify, Bound
  <2>3. QED
    BY <2>1, <2>2
<1>15. ASSUME NEW p \in Procs, BindRename(p) PROVE ProcsOK'
  <2>1. CASE Return(p)
    BY <1>15, <2>1, ReturnTypes DEF BindRename, Bound
  <2>2. CASE ~Return(p)
    BY <1>15, <2>2 DEF BindRename, Bound
  <2>3. QED
    BY <2>1, <2>2
<1>16. ASSUME NEW p \in Procs, QueueTx(p) \/ UiQueueTx(p) PROVE ProcsOK'
  <2>1. CASE Return(p)
    BY <1>16, <2>1, ReturnTypes DEF QueueTx, UiQueueTx
  <2>2. CASE ~Return(p)
    BY <1>16, <2>2 DEF QueueTx, UiQueueTx
  <2>3. QED
    BY <2>1, <2>2
<1>17. ASSUME NEW p \in Procs, Overview(p) PROVE ProcsOK'
  <2>1. CASE Return(p)
    BY <1>17, <2>1, ReturnTypes DEF Overview
  <2>2. CASE ~Return(p)
    BY <1>17, <2>2 DEF Overview
  <2>3. QED
    BY <2>1, <2>2
<1>18. ASSUME NEW p \in Procs, AppendBlock(p) PROVE ProcsOK'
  BY <1>18 DEF AppendBlock, Block
<1>19. ASSUME NEW p \in Procs, Drain(p) PROVE ProcsOK'
  BY <1>19 DEF Drain
<1>20. ASSUME NEW p \in Procs, Stop(p) PROVE ProcsOK'
  BY <1>20, ReturnTypes DEF Stop
<1>21. ASSUME NEW p \in Procs, Crash(p) PROVE ProcsOK'
  BY <1>21, ReturnTypes DEF Crash
<1>22. QED
  BY <1>1, <1>2, <1>3, <1>4, <1>5, <1>6, <1>7, <1>8, <1>9, <1>10, <1>11, <1>12,
     <1>13, <1>14, <1>15, <1>16, <1>17, <1>18, <1>19, <1>20, <1>21
     DEF Next, Step

\* The locks stay exclusive: file_lock.rs gives one to one holder, and what a
\* process holds it gives back only when it leaves the steps the lock is for.
LEMMA LockStep ==
  ASSUME DirInv, [Next]_vars
  PROVE  BindLockIsExclusive' /\ RunLockIsExclusive'
<1> USE DEF DirInv, TypeOK, ProcsOK, BindLockIsExclusive, RunLockIsExclusive, Binding, Starting, Goto, At,
            held, mine, locks
<1>1. CASE UNCHANGED vars
  BY <1>1 DEF vars
<1>2. ASSUME NEW p \in Procs, Begin(p) PROVE BindLockIsExclusive' /\ RunLockIsExclusive'
  BY <1>2 DEF Begin
<1>3. ASSUME NEW p \in Procs, InitWallet(p) PROVE BindLockIsExclusive' /\ RunLockIsExclusive'
  <2>1. CASE Return(p)
    BY <1>3, <2>1, ReturnLocks DEF InitWallet
  <2>2. CASE ~Return(p)
    BY <1>3, <2>2 DEF InitWallet
  <2>3. QED
    BY <2>1, <2>2
<1>4. ASSUME NEW p \in Procs, InitWalletCreate(p) PROVE BindLockIsExclusive' /\ RunLockIsExclusive'
  BY <1>4 DEF InitWalletCreate
<1>5. ASSUME NEW p \in Procs, InitWalletWrite(p) PROVE BindLockIsExclusive' /\ RunLockIsExclusive'
  <2>1. CASE Return(p)
    BY <1>5, <2>1, ReturnLocks DEF InitWalletWrite
  <2>2. CASE ~Return(p)
    BY <1>5, <2>2 DEF InitWalletWrite
  <2>3. QED
    BY <2>1, <2>2
<1>6. ASSUME NEW p \in Procs, InitGenesis(p) PROVE BindLockIsExclusive' /\ RunLockIsExclusive'
  <2>1. CASE Return(p)
    BY <1>6, <2>1, ReturnLocks DEF InitGenesis
  <2>2. CASE ~Return(p)
    BY <1>6, <2>2 DEF InitGenesis
  <2>3. QED
    BY <2>1, <2>2
<1>7. ASSUME NEW p \in Procs, InitGenesisCreate(p) PROVE BindLockIsExclusive' /\ RunLockIsExclusive'
  BY <1>7 DEF InitGenesisCreate
<1>8. ASSUME NEW p \in Procs, InitGenesisWrite(p) PROVE BindLockIsExclusive' /\ RunLockIsExclusive'
  BY <1>8, ReturnLocks DEF InitGenesisWrite
<1>9. ASSUME NEW p \in Procs, RunLock(p) PROVE BindLockIsExclusive' /\ RunLockIsExclusive'
  <2>1. CASE Return(p)
    BY <1>9, <2>1, ReturnLocks DEF RunLock
  <2>2. CASE ~Return(p)
    BY <1>9, <2>2 DEF RunLock
  <2>3. QED
    BY <2>1, <2>2
<1>10. ASSUME NEW p \in Procs, LoadFiles(p) PROVE BindLockIsExclusive' /\ RunLockIsExclusive'
  <2>1. CASE Return(p)
    BY <1>10, <2>1, ReturnLocks DEF LoadFiles
  <2>2. CASE ~Return(p)
    BY <1>10, <2>2 DEF LoadFiles
  <2>3. QED
    BY <2>1, <2>2
<1>11. ASSUME NEW p \in Procs, LoadChain(p) PROVE BindLockIsExclusive' /\ RunLockIsExclusive'
  <2>1. CASE Return(p)
    BY <1>11, <2>1, ReturnLocks DEF LoadChain
  <2>2. CASE ~Return(p)
    BY <1>11, <2>2 DEF LoadChain
  <2>3. QED
    BY <2>1, <2>2
<1>12. ASSUME NEW p \in Procs, BindLock(p) PROVE BindLockIsExclusive' /\ RunLockIsExclusive'
  BY <1>12 DEF BindLock
<1>13. ASSUME NEW p \in Procs, BindCheck(p) PROVE BindLockIsExclusive' /\ RunLockIsExclusive'
  <2>1. CASE Return(p)
    BY <1>13, <2>1, ReturnLocks DEF BindCheck, read_binding_and_verify, Bound
  <2>2. CASE ~Return(p)
    BY <1>13, <2>2 DEF BindCheck, read_binding_and_verify, Bound
  <2>3. QED
    BY <2>1, <2>2
<1>14. ASSUME NEW p \in Procs, BindLink(p) PROVE BindLockIsExclusive' /\ RunLockIsExclusive'
  <2>1. CASE Return(p)
    BY <1>14, <2>1, ReturnLocks DEF BindLink, read_binding_and_verify, Bound
  <2>2. CASE ~Return(p)
    BY <1>14, <2>2 DEF BindLink, read_binding_and_verify, Bound
  <2>3. QED
    BY <2>1, <2>2
<1>15. ASSUME NEW p \in Procs, BindRename(p) PROVE BindLockIsExclusive' /\ RunLockIsExclusive'
  <2>1. CASE Return(p)
    BY <1>15, <2>1, ReturnLocks DEF BindRename, Bound
  <2>2. CASE ~Return(p)
    BY <1>15, <2>2 DEF BindRename, Bound
  <2>3. QED
    BY <2>1, <2>2
<1>16. ASSUME NEW p \in Procs, QueueTx(p) \/ UiQueueTx(p) PROVE BindLockIsExclusive' /\ RunLockIsExclusive'
  <2>1. CASE Return(p)
    BY <1>16, <2>1, ReturnLocks DEF QueueTx, UiQueueTx
  <2>2. CASE ~Return(p)
    BY <1>16, <2>2 DEF QueueTx, UiQueueTx
  <2>3. QED
    BY <2>1, <2>2
<1>17. ASSUME NEW p \in Procs, Overview(p) PROVE BindLockIsExclusive' /\ RunLockIsExclusive'
  <2>1. CASE Return(p)
    BY <1>17, <2>1, ReturnLocks DEF Overview
  <2>2. CASE ~Return(p)
    BY <1>17, <2>2 DEF Overview
  <2>3. QED
    BY <2>1, <2>2
<1>18. ASSUME NEW p \in Procs, AppendBlock(p) PROVE BindLockIsExclusive' /\ RunLockIsExclusive'
  BY <1>18 DEF AppendBlock
<1>19. ASSUME NEW p \in Procs, Drain(p) PROVE BindLockIsExclusive' /\ RunLockIsExclusive'
  BY <1>19 DEF Drain
<1>20. ASSUME NEW p \in Procs, Stop(p) PROVE BindLockIsExclusive' /\ RunLockIsExclusive'
  BY <1>20, ReturnLocks DEF Stop
<1>21. ASSUME NEW p \in Procs, Crash(p) PROVE BindLockIsExclusive' /\ RunLockIsExclusive'
  BY <1>21, ReturnLocks DEF Crash
<1>22. QED
  BY <1>1, <1>2, <1>3, <1>4, <1>5, <1>6, <1>7, <1>8, <1>9, <1>10, <1>11, <1>12,
     <1>13, <1>14, <1>15, <1>16, <1>17, <1>18, <1>19, <1>20, <1>21
     DEF Next, Step

\* Without a binding there is no block, nothing queued by `send`, and nobody past
\* ensure_binding_if_missing.
LEMMA UnboundIsUnused ==
  ASSUME DirInv, bind = NoFile
  PROVE  /\ chain = <<>>
         /\ \A tx \in queue : tx.via # "send"
         /\ \A p \in Procs : pc[p] # "up" /\ (pc[p] = "account" => cmd[p] # "send")
<1> USE DEF DirInv, TypeOK, FilesOK, ProcsOK, OneGenesisPerDirectory, Genesis, At
<1>1. NoFile \notin Genesis
  OBVIOUS
<1>2. \A i \in 1 .. Len(chain) : chain[i] \in Block
  OBVIOUS
<1>3. Len(chain) = 0
  BY <1>1, <1>2 DEF Block
<1>4. QED
  BY <1>1, <1>3

\* Nobody leaves the bound genesis: the processes, the blocks and the queue.
LEMMA GenesisStep ==
  ASSUME DirInv, [Next]_vars
  PROVE  OneGenesisPerDirectory'
<1> USE DEF DirInv, TypeOK, FilesOK, ProcsOK, OneGenesisPerDirectory, Goto, At, held, mine, locks, files
<1>1. CASE UNCHANGED vars
  BY <1>1 DEF vars
<1>2. ASSUME NEW p \in Procs, Begin(p) PROVE OneGenesisPerDirectory'
  BY <1>2 DEF Begin
<1>3. ASSUME NEW p \in Procs,
             \/ InitWallet(p) \/ InitWalletCreate(p) \/ InitWalletWrite(p)
             \/ InitGenesis(p) \/ InitGenesisCreate(p) \/ InitGenesisWrite(p)
      PROVE  OneGenesisPerDirectory'
  <2>1. CASE InitWallet(p)
    BY <2>1 DEF InitWallet, Return
  <2>2. CASE InitWalletCreate(p) \/ InitGenesisCreate(p)
    BY <2>2 DEF InitWalletCreate, InitGenesisCreate
  <2>3. CASE InitWalletWrite(p)
    BY <2>3 DEF InitWalletWrite, Return
  <2>4. CASE InitGenesis(p) \/ InitGenesisWrite(p)
    BY <2>4 DEF InitGenesis, InitGenesisWrite, Return
  <2>5. QED
    BY <1>3, <2>1, <2>2, <2>3, <2>4
<1>4. ASSUME NEW p \in Procs, RunLock(p) \/ LoadFiles(p) PROVE OneGenesisPerDirectory'
  BY <1>4 DEF RunLock, LoadFiles, Return
<1>5. ASSUME NEW p \in Procs, LoadChain(p) PROVE OneGenesisPerDirectory'
  BY <1>5 DEF LoadChain, Return
<1>6. ASSUME NEW p \in Procs, BindLock(p) PROVE OneGenesisPerDirectory'
  BY <1>6 DEF BindLock
<1>7. ASSUME NEW p \in Procs, BindCheck(p) PROVE OneGenesisPerDirectory'
  BY <1>7 DEF BindCheck, read_binding_and_verify, Bound, Return
<1>8. ASSUME NEW p \in Procs, BindLink(p) PROVE OneGenesisPerDirectory'
  <2>1. CASE bind # NoFile
    BY <1>8, <2>1 DEF BindLink, read_binding_and_verify, Bound, Return
  <2>2. CASE bind = NoFile
    BY <1>8, <2>2, UnboundIsUnused DEF BindLink, Bound, Return
  <2>3. QED
    BY <2>1, <2>2
<1>9. ASSUME NEW p \in Procs, BindRename(p) PROVE OneGenesisPerDirectory'
  <2>1. bind = NoFile
    BY <1>9 DEF BindRename, BindLockIsExclusive
  <2>2. CASE Return(p)
    BY <1>9, <2>1, <2>2, UnboundIsUnused DEF BindRename, Return
  <2>3. CASE ~Return(p)
    BY <1>9, <2>1, <2>3, UnboundIsUnused DEF BindRename, Bound
  <2>4. QED
    BY <2>2, <2>3
<1>10. ASSUME NEW p \in Procs, QueueTx(p) \/ UiQueueTx(p) PROVE OneGenesisPerDirectory'
  <2>1. CASE QueueTx(p)
    BY <2>1 DEF QueueTx, append_pending_transaction, Return
  <2>2. CASE UiQueueTx(p)
    <3>1. CASE Return(p)
      BY <2>2, <3>1 DEF UiQueueTx, append_pending_transaction, Return
    <3>2. CASE ~Return(p)
      BY <2>2, <3>2 DEF UiQueueTx, append_pending_transaction
    <3>3. QED
      BY <3>1, <3>2
  <2>3. QED
    BY <1>10, <2>1, <2>2
<1>11. ASSUME NEW p \in Procs, Overview(p) \/ Drain(p) PROVE OneGenesisPerDirectory'
  BY <1>11 DEF Overview, Drain, Return
<1>12. ASSUME NEW p \in Procs, AppendBlock(p) PROVE OneGenesisPerDirectory'
  BY <1>12 DEF AppendBlock, Block
<1>13. ASSUME NEW p \in Procs, Stop(p) \/ Crash(p) PROVE OneGenesisPerDirectory'
  BY <1>13 DEF Stop, Crash, Return
<1>14. QED
  BY <1>1, <1>2, <1>3, <1>4, <1>5, <1>6, <1>7, <1>8, <1>9, <1>10, <1>11, <1>12, <1>13
     DEF Next, Step

\* A node's copy of the chain follows the file.
LEMMA ChainStep ==
  ASSUME DirInv, [Next]_vars
  PROVE  LiveChainIsTheFile'
<1> USE DEF DirInv, TypeOK, FilesOK, ProcsOK, LiveChainIsTheFile, Goto, At, held, mine, locks
<1>1. CASE UNCHANGED vars
  BY <1>1 DEF vars
<1>2. ASSUME NEW p \in Procs, Return(p), chain' = chain PROVE LiveChainIsTheFile'
  BY <1>2 DEF Return
<1>3. ASSUME NEW p \in Procs, Begin(p) PROVE LiveChainIsTheFile'
  BY <1>3 DEF Begin
<1>4. ASSUME NEW p \in Procs,
             \/ InitWallet(p) \/ InitWalletCreate(p) \/ InitWalletWrite(p)
             \/ InitGenesis(p) \/ InitGenesisCreate(p) \/ InitGenesisWrite(p)
      PROVE  LiveChainIsTheFile'
  BY <1>2, <1>4 DEF InitWallet, InitWalletCreate, InitWalletWrite, InitGenesis,
                    InitGenesisCreate, InitGenesisWrite
<1>5. ASSUME NEW p \in Procs, RunLock(p) \/ LoadFiles(p) PROVE LiveChainIsTheFile'
  BY <1>2, <1>5 DEF RunLock, LoadFiles
<1>6. ASSUME NEW p \in Procs, LoadChain(p) PROVE LiveChainIsTheFile'
  BY <1>2, <1>6 DEF LoadChain
<1>7. ASSUME NEW p \in Procs, BindLock(p) \/ BindCheck(p) \/ BindLink(p) \/ BindRename(p)
      PROVE  LiveChainIsTheFile'
  <2>1. CASE Return(p)
    BY <1>2, <1>7, <2>1 DEF BindLock, BindCheck, BindLink, BindRename
  <2>2. CASE ~Return(p)
    BY <1>7, <2>2 DEF BindLock, BindCheck, BindLink, BindRename, read_binding_and_verify, Bound
  <2>3. QED
    BY <2>1, <2>2
<1>8. ASSUME NEW p \in Procs, QueueTx(p) \/ UiQueueTx(p) PROVE LiveChainIsTheFile'
  BY <1>2, <1>8 DEF QueueTx, UiQueueTx
<1>9. ASSUME NEW p \in Procs, AppendBlock(p) PROVE LiveChainIsTheFile'
  <2>1. \A q \in Procs :
          cmd[q] = "run" /\ pc[q] \in {"bind_lock", "bind_check", "bind_link", "bind_rename", "up"}
            => q = p
    BY <1>9 DEF AppendBlock, RunLockIsExclusive, Starting, Binding
  <2>2. Len(chain') = Len(chain) + 1
    BY <1>9 DEF AppendBlock
  <2>3. QED
    BY <1>9, <2>1, <2>2 DEF AppendBlock
<1>10. ASSUME NEW p \in Procs, Overview(p) \/ Drain(p) \/ Stop(p) \/ Crash(p)
       PROVE  LiveChainIsTheFile'
  BY <1>2, <1>10 DEF Overview, Drain, Stop, Crash
<1>11. QED
  BY <1>1, <1>3, <1>4, <1>5, <1>6, <1>7, <1>8, <1>9, <1>10 DEF Next, Step

\* Nothing replaces a binding.
LEMMA BindStep ==
  ASSUME DirInv, [Next]_vars, bind # NoFile
  PROVE  bind' = bind
  BY DEF DirInv, BindLockIsExclusive, At, Next, Step, vars, Begin, InitWallet, InitWalletCreate,
         InitWalletWrite, InitGenesis, InitGenesisCreate, InitGenesisWrite, RunLock, LoadFiles,
         LoadChain, BindLock, BindCheck, BindLink, BindRename, QueueTx, UiQueueTx, AppendBlock,
         Drain, Stop, Overview, Crash

\* The invariant holds of every reachable state of any number of processes on one
\* directory.
THEOREM DirInvariant == Spec => []DirInv
<1>1. Init => DirInv
  BY DEF Init, DirInv, TypeOK, FilesOK, ProcsOK, Labels, HoldsKey, Commands, Genesis, Binding,
         Starting, BindLockIsExclusive, RunLockIsExclusive, OneGenesisPerDirectory,
         LiveChainIsTheFile, At
<1>2. DirInv /\ [Next]_vars => DirInv'
  BY FilesStep, ProcsStep, LockStep, GenesisStep, ChainStep DEF DirInv, TypeOK
<1>3. QED
  BY <1>1, <1>2, PTL DEF Spec

\* One network per directory, whatever runs on it: nodes, queued transactions of
\* `send` and stored blocks belong to the genesis it is bound to.
THEOREM DirectoryHasOneGenesis == Spec => []OneGenesisPerDirectory
<1>1. DirInv => OneGenesisPerDirectory
  BY DEF DirInv
<1>2. QED
  BY <1>1, DirInvariant, PTL

\* The run lock makes a node's chain the chain in the file, from the load to the stop.
THEOREM NodeOwnsItsFile == Spec => []LiveChainIsTheFile
<1>1. DirInv => LiveChainIsTheFile
  BY DEF DirInv
<1>2. QED
  BY <1>1, DirInvariant, PTL

\* ensure_binding_if_missing never replaces a binding, by hard link or by rename.
THEOREM BindingIsNeverReplaced == Spec => BindingIsForever
<1>1. DirInv /\ [Next]_vars => [bind # NoFile => bind' = bind]_vars
  BY BindStep
<1>2. QED
  BY <1>1, DirInvariant, PTL DEF Spec, BindingIsForever
=============================================================================
