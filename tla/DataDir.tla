------------------------------ MODULE DataDir ------------------------------
(***************************************************************************)
(* Several processes on one data directory: the commands `init`, `run` and *)
(* `send` (node/src/main.rs), the requests of dev-test-ui, and what keeps  *)
(* them from mixing two networks in one directory: the binding of          *)
(* node/src/data_dir_bind.rs and the locks of node/src/file_lock.rs.       *)
(*                                                                         *)
(* A genesis document is a member of Docs, and stands for its commitment   *)
(* too.  A wallet is named after the document that `init` would write for  *)
(* it.  Every step is one group of system calls between which another      *)
(* process can run; the kernel frees the locks of a process that dies.     *)
(***************************************************************************)
EXTENDS Integers, Sequences, FiniteSets

CONSTANTS
  Procs,         \* process slots; a slot runs one command after another
  Docs,          \* genesis documents at hand
  EmptyGenesis,  \* what a genesis file without allocations says
  NoFile,
  EmptyFile,     \* a file that was created and not written
  MaxCommands,   \* commands started
  MaxCrashes,    \* processes that die halfway
  MaxBlocks      \* blocks of chain.blocks

ASSUME DataDirAssumption ==
  /\ Docs \cap {EmptyGenesis, NoFile, EmptyFile} = {}
  /\ NoFile \notin {EmptyGenesis, EmptyFile}
  /\ {MaxCommands, MaxCrashes, MaxBlocks} \subseteq Nat

Commands == {"init", "run", "send", "ui_send", "overview"}
Genesis == Docs \cup {EmptyGenesis}

\* A block remembers the document its sealer used and the documents it replays
\* under: no header field of a block commits to the genesis.
Block == [by : Genesis, replays : SUBSET Genesis]

Labels ==
  { "idle", "lock", "files", "chain", "bind_lock", "bind_check", "bind_link",
    "bind_rename", "account", "up", "probe", "probed",
    "wallet", "wallet_create", "wallet_write",
    "genesis", "genesis_create", "genesis_write" }

\* `init`, from when it has made a key.
HoldsKey == {"wallet_create", "wallet_write", "genesis", "genesis_create", "genesis_write"}

VARIABLES
  wallet,     \* wallet.seed: NoFile, EmptyFile or a key
  genesis,    \* genesis.toml: NoFile, EmptyFile or a document
  bind,       \* genesis_bind.toml: NoFile or the commitment in it
  chain,      \* chain.blocks
  queue,      \* pending_tx.tril: who queued a transaction, under which genesis
  run_lock,   \* who holds .node.run.lock
  bind_lock,  \* who holds .genesis_bind.lock
  pc, cmd,
  doc,        \* per process: the genesis it loaded
  funded,     \* per process: does the wallet it loaded have an allocation in it
  seen,       \* per process: the blocks its copy of the chain was built from
  commands, crashes

files == <<wallet, genesis>>
locks == <<run_lock, bind_lock>>
mine == <<cmd, doc, funded, seen>>
held == <<locks, mine>>
vars == <<files, bind, chain, queue, locks, pc, mine, commands, crashes>>

FilesOK ==
  /\ {wallet, genesis} \subseteq Docs \cup {NoFile, EmptyFile}
  /\ bind \in Genesis \cup {NoFile}
  /\ chain \in Seq(Block)
  /\ queue \subseteq [via : {"send", "ui_send"}, under : Genesis]
  /\ commands \in Nat /\ crashes \in Nat

ProcsOK ==
  /\ run_lock \subseteq Procs
  /\ bind_lock \subseteq Procs
  /\ pc \in [Procs -> Labels]
  /\ cmd \in [Procs -> Commands]
  /\ doc \in [Procs -> Genesis]
  /\ funded \in [Procs -> BOOLEAN]
  /\ seen \in [Procs -> Nat]
  /\ \A p \in Procs : pc[p] \in HoldsKey => doc[p] \in Docs

TypeOK == FilesOK /\ ProcsOK

\* A fresh directory, or one that an operator has copied a wallet and a genesis to.
Init ==
  /\ \/ wallet = NoFile /\ genesis = NoFile
     \/ wallet \in Docs /\ genesis \in Docs
  /\ bind = NoFile /\ chain = <<>> /\ queue = {}
  /\ run_lock = {} /\ bind_lock = {}
  /\ pc = [p \in Procs |-> "idle"]
  /\ cmd = [p \in Procs |-> "overview"]
  /\ doc = [p \in Procs |-> EmptyGenesis]
  /\ funded = [p \in Procs |-> FALSE]
  /\ seen = [p \in Procs |-> 0]
  /\ commands = 0 /\ crashes = 0

At(p, label) == pc[p] = label
Goto(p, label) == pc' = [pc EXCEPT ![p] = label]

\* The command returns, with a result or an error: its locals and its guards are
\* dropped.
Return(p) ==
  /\ Goto(p, "idle")
  /\ cmd' = [cmd EXCEPT ![p] = "overview"]
  /\ doc' = [doc EXCEPT ![p] = EmptyGenesis]
  /\ funded' = [funded EXCEPT ![p] = FALSE]
  /\ seen' = [seen EXCEPT ![p] = 0]
  /\ run_lock' = run_lock \ {p}
  /\ bind_lock' = bind_lock \ {p}

Begin(p) ==
  /\ At(p, "idle") /\ commands < MaxCommands
  /\ commands' = commands + 1
  /\ \E c \in Commands :
       /\ cmd' = [cmd EXCEPT ![p] = c]
       /\ Goto(p, CASE c = "init" -> "wallet"
                    [] c = "run" -> "lock"
                    [] c = "overview" -> "probe"
                    [] OTHER -> "files")
  /\ UNCHANGED <<files, bind, chain, queue, locks, doc, funded, seen, crashes>>

(***************************************************************************)
(* init: a wallet and, with --genesis-balance, a genesis that funds it.    *)
(* Each file is tested for, created empty, and written.                    *)
(***************************************************************************)

InitWallet(p) ==
  /\ At(p, "wallet")
  /\ \/ wallet # NoFile /\ Return(p)
     \/ /\ wallet = NoFile
        /\ \E key \in Docs \ {doc[q] : q \in Procs} : doc' = [doc EXCEPT ![p] = key]
        /\ Goto(p, "wallet_create") /\ UNCHANGED <<locks, cmd, funded, seen>>
  /\ UNCHANGED <<files, bind, chain, queue, commands, crashes>>

InitWalletCreate(p) ==
  /\ At(p, "wallet_create")
  /\ wallet' = EmptyFile
  /\ Goto(p, "wallet_write")
  /\ UNCHANGED <<genesis, bind, chain, queue, locks, mine, commands, crashes>>

InitWalletWrite(p) ==
  /\ At(p, "wallet_write")
  /\ wallet' = doc[p]
  /\ \/ Goto(p, "genesis") /\ UNCHANGED held
     \/ Return(p)
  /\ UNCHANGED <<genesis, bind, chain, queue, commands, crashes>>

InitGenesis(p) ==
  /\ At(p, "genesis")
  /\ \/ genesis # NoFile /\ Return(p)
     \/ genesis = NoFile /\ Goto(p, "genesis_create") /\ UNCHANGED held
  /\ UNCHANGED <<files, bind, chain, queue, commands, crashes>>

InitGenesisCreate(p) ==
  /\ At(p, "genesis_create")
  /\ genesis' = EmptyFile
  /\ Goto(p, "genesis_write")
  /\ UNCHANGED <<wallet, bind, chain, queue, locks, mine, commands, crashes>>

InitGenesisWrite(p) ==
  /\ At(p, "genesis_write")
  /\ genesis' = doc[p]
  /\ Return(p)
  /\ UNCHANGED <<wallet, bind, chain, queue, commands, crashes>>

(***************************************************************************)
(* run, send and the UI's send                                             *)
(***************************************************************************)

\* Mutant of RunLock: a lock that another process holds is no reason to stop.
RunLockIgnored(p) ==
  /\ At(p, "lock")
  /\ run_lock' = run_lock \cup {p}
  /\ Goto(p, "files")
  /\ UNCHANGED <<files, bind, chain, queue, bind_lock, mine, commands, crashes>>

\* try_acquire_exclusive: `run` does not wait.
RunLock(p) ==
  /\ At(p, "lock")
  /\ \/ run_lock # {} /\ Return(p)
     \/ /\ run_lock = {}
        /\ run_lock' = {p}
        /\ Goto(p, "files") /\ UNCHANGED <<bind_lock, mine>>
  /\ UNCHANGED <<files, bind, chain, queue, commands, crashes>>

\* A file without an allocations table is a genesis without accounts.
from_path(file) == IF file = EmptyFile THEN EmptyGenesis ELSE file

\* --genesis PATH, which the UI does not have, or the file in the directory.
load_genesis_for_cmd(p) ==
  {from_path(file) : file \in {genesis} \ {NoFile}}
    \cup (IF cmd[p] = "ui_send" THEN {} ELSE Docs)

verify_binding_if_present(g) == bind \in {NoFile, g}

\* The wallet (32 bytes), the genesis, and the early look at the binding.
LoadFiles(p) ==
  /\ At(p, "files")
  /\ \/ /\ \/ wallet \notin Docs
           \/ genesis = NoFile
           \/ \E g \in load_genesis_for_cmd(p) : ~verify_binding_if_present(g)
        /\ Return(p)
     \/ /\ wallet \in Docs
        /\ \E g \in load_genesis_for_cmd(p) :
             /\ verify_binding_if_present(g)
             /\ doc' = [doc EXCEPT ![p] = g]
             /\ funded' = [funded EXCEPT ![p] = wallet = g]
        /\ Goto(p, "chain") /\ UNCHANGED <<locks, cmd, seen>>
  /\ UNCHANGED <<files, bind, chain, queue, commands, crashes>>

\* load_blockchain_from_disk, or load_chain_readonly in the UI.
LoadChain(p) ==
  /\ At(p, "chain")
  /\ \/ /\ \E i \in 1 .. Len(chain) : doc[p] \notin chain[i].replays
        /\ Return(p)
     \/ /\ \A i \in 1 .. Len(chain) : doc[p] \in chain[i].replays
        /\ seen' = [seen EXCEPT ![p] = Len(chain)]
        /\ Goto(p, IF cmd[p] = "ui_send" THEN "account" ELSE "bind_lock")
        /\ UNCHANGED <<locks, cmd, doc, funded>>
  /\ UNCHANGED <<files, bind, chain, queue, commands, crashes>>

(***************************************************************************)
(* ensure_binding_if_missing                                               *)
(***************************************************************************)

\* Mutant of BindLock: the lock is not taken.
BindUnlocked(p) ==
  /\ At(p, "bind_lock")
  /\ Goto(p, "bind_check")
  /\ UNCHANGED <<files, bind, chain, queue, locks, mine, commands, crashes>>

\* acquire_exclusive: waits.
BindLock(p) ==
  /\ At(p, "bind_lock")
  /\ bind_lock = {}
  /\ bind_lock' = {p}
  /\ Goto(p, "bind_check")
  /\ UNCHANGED <<files, bind, chain, queue, run_lock, mine, commands, crashes>>

\* The directory is bound to the genesis of p: `run` opens the store, `send` goes
\* on to queue, the UI's request is done.
Bound(p) ==
  \/ /\ cmd[p] \in {"run", "send"}
     /\ Goto(p, IF cmd[p] = "run" THEN "up" ELSE "account")
     /\ bind_lock' = bind_lock \ {p}
     /\ UNCHANGED <<run_lock, mine>>
  \/ cmd[p] = "ui_send" /\ Return(p)

\* Mutant of read_binding_and_verify: a binding is enough, whichever it is.
BindingExists(p) == Bound(p)

read_binding_and_verify(p) == IF bind = doc[p] THEN Bound(p) ELSE Return(p)

\* Mutant of BindCheck: a mismatch is tried again from the top, lock in hand.
BindCheckAgain(p) ==
  /\ At(p, "bind_check")
  /\ \/ bind = doc[p] /\ Bound(p)
     \/ bind \notin {NoFile, doc[p]} /\ Goto(p, "bind_lock") /\ UNCHANGED held
     \/ bind = NoFile /\ Goto(p, "bind_link") /\ UNCHANGED held
  /\ UNCHANGED <<files, bind, chain, queue, commands, crashes>>

\* Is there a binding?  If not, the text is written and synced under another
\* name, which may fail.
BindCheck(p) ==
  /\ At(p, "bind_check")
  /\ \/ bind # NoFile /\ read_binding_and_verify(p)
     \/ bind = NoFile /\ Goto(p, "bind_link") /\ UNCHANGED held
     \/ bind = NoFile /\ Return(p)
  /\ UNCHANGED <<files, bind, chain, queue, commands, crashes>>

\* hard_link does not replace a file.  A file system without it is left to
\* rename, which does, after one more look.
BindLink(p) ==
  /\ At(p, "bind_link")
  /\ \/ bind = NoFile /\ bind' = doc[p] /\ Bound(p)
     \/ bind # NoFile /\ read_binding_and_verify(p) /\ UNCHANGED bind
     \/ bind = NoFile /\ Goto(p, "bind_rename") /\ UNCHANGED <<bind, held>>
  /\ UNCHANGED <<files, chain, queue, commands, crashes>>

BindRename(p) ==
  /\ At(p, "bind_rename")
  /\ \/ bind' = doc[p] /\ Bound(p)
     \/ Return(p) /\ UNCHANGED bind
  /\ UNCHANGED <<files, chain, queue, commands, crashes>>

\* The sender's account comes from the genesis or from a block.
HasAccount(p) == funded[p] \/ seen[p] > 0

append_pending_transaction(p) == queue' = queue \cup {[via |-> cmd[p], under |-> doc[p]]}

\* `send`: the transfer is signed and queued, or it cannot be.
QueueTx(p) ==
  /\ At(p, "account") /\ cmd[p] = "send"
  /\ \/ HasAccount(p) /\ append_pending_transaction(p)
     \/ UNCHANGED queue
  /\ Return(p)
  /\ UNCHANGED <<files, bind, chain, commands, crashes>>

\* send_inner of the UI, which has yet to bind the directory.
UiQueueTx(p) ==
  /\ At(p, "account") /\ cmd[p] = "ui_send"
  /\ \/ /\ HasAccount(p) /\ append_pending_transaction(p)
        /\ Goto(p, "bind_lock") /\ UNCHANGED held
     \/ Return(p) /\ UNCHANGED queue
  /\ UNCHANGED <<files, bind, chain, commands, crashes>>

(***************************************************************************)
(* A node that is up                                                       *)
(***************************************************************************)

\* A block is sealed or received, and stored.  Without accounts there is none.
AppendBlock(p) ==
  /\ At(p, "up") /\ Len(chain) < MaxBlocks
  /\ doc[p] # EmptyGenesis
  /\ \E others \in {{}, Genesis} :
       chain' = Append(chain, [by |-> doc[p], replays |-> others \cup {doc[p]}])
  /\ seen' = [seen EXCEPT ![p] = @ + 1]
  /\ UNCHANGED <<files, bind, queue, locks, pc, cmd, doc, funded, commands, crashes>>

Drain(p) ==
  /\ At(p, "up")
  /\ queue' = {}
  /\ UNCHANGED <<files, bind, chain, locks, pc, mine, commands, crashes>>

Stop(p) ==
  /\ At(p, "up")
  /\ Return(p)
  /\ UNCHANGED <<files, bind, chain, queue, commands, crashes>>

(***************************************************************************)
(* The UI's overview tries the run lock to see whether a node is up, and   *)
(* drops it.                                                               *)
(***************************************************************************)

Overview(p) ==
  /\ \/ /\ At(p, "probe") /\ genesis # NoFile /\ run_lock = {}
        /\ run_lock' = {p}
        /\ Goto(p, "probed") /\ UNCHANGED <<bind_lock, mine>>
     \/ /\ At(p, "probe") /\ (genesis = NoFile \/ run_lock # {})
        /\ Return(p)
     \/ At(p, "probed") /\ Return(p)
  /\ UNCHANGED <<files, bind, chain, queue, commands, crashes>>

\* A process is killed halfway.
Crash(p) ==
  /\ pc[p] \notin {"idle", "up"} /\ crashes < MaxCrashes
  /\ crashes' = crashes + 1
  /\ Return(p)
  /\ UNCHANGED <<files, bind, chain, queue, commands>>

Step(p) ==
  \/ InitWallet(p) \/ InitWalletCreate(p) \/ InitWalletWrite(p)
  \/ InitGenesis(p) \/ InitGenesisCreate(p) \/ InitGenesisWrite(p)
  \/ RunLock(p) \/ LoadFiles(p) \/ LoadChain(p)
  \/ BindLock(p) \/ BindCheck(p) \/ BindLink(p) \/ BindRename(p)
  \/ QueueTx(p) \/ UiQueueTx(p) \/ Overview(p)

Next == \E p \in Procs : Begin(p) \/ Step(p) \/ AppendBlock(p) \/ Drain(p) \/ Stop(p) \/ Crash(p)

\* A process that was started is scheduled.  Nothing is assumed of the operator,
\* and not that a node that is up has anything to do.
Fairness == \A p \in Procs : WF_vars(Step(p))

Spec == Init /\ [][Next]_vars /\ Fairness

(***************************************************************************)
(* Properties                                                              *)
(***************************************************************************)

\* A directory is bound once: whatever the processes, kills and file systems
\* without hard links, genesis_bind.toml is never replaced
\* (ensure_binding_if_missing).
BindingIsForever == [][bind # NoFile => bind' = bind]_vars

\* One network per directory: a node that is up, a `send` that is about to queue,
\* the transactions `send` has queued and the blocks in chain.blocks all belong
\* to the genesis the directory is bound to, although the early check of the
\* binding may be out of date by the time the chain is loaded.
OneGenesisPerDirectory ==
  /\ \A p \in Procs :
       At(p, "up") \/ (At(p, "account") /\ cmd[p] = "send") => bind = doc[p]
  /\ \A tx \in queue : tx.via = "send" => tx.under = bind
  /\ \A i \in 1 .. Len(chain) : chain[i].by = bind

\* The chain a starting or running node holds in memory is the chain in the file:
\* no other node has appended since it was read, because the run lock is taken
\* before the read and kept until the node stops (cmd_run).
LiveChainIsTheFile ==
  \A p \in Procs :
    cmd[p] = "run" /\ pc[p] \in {"bind_lock", "bind_check", "bind_link", "bind_rename", "up"}
      => seen[p] = Len(chain)

\* Every command ends, or becomes a node that is up: nobody waits forever for the
\* lock of the binding.
CommandsEnd == \A p \in Procs : pc[p] # "idle" ~> pc[p] \in {"idle", "up"}
=============================================================================
