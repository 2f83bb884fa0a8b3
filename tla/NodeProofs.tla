----------------------------- MODULE NodeProofs -----------------------------
(***************************************************************************)
(* Four groups of results that hold for any number of peers, any           *)
(* transfers, any capacity of the pool and any faults.                     *)
(*                                                                         *)
(* The store: what memory, disk and peers may disagree about, that is      *)
(* MemoryMatchesDisk, ExposedIsDurable and NeverSealsPoisoned of Node.     *)
(* That argument does not depend on what a block holds, so blocks are left *)
(* untyped there: SomeBlocks only says that chain, disk and exposed are    *)
(* sequences of something.                                                 *)
(*                                                                         *)
(* The pool: every method keeps it consistent (PoolOK), hygiene drops only *)
(* what cannot run, an eviction takes the one oldest transfer, and the     *)
(* selection for a block keeps the order of the queue.                     *)
(*                                                                         *)
(* Replay: what rebuild_state_from_genesis computes from a chain.          *)
(*                                                                         *)
(* The data: what blocks, ledger, pool and queue of a running node hold.   *)
(***************************************************************************)
EXTENDS Node, LedgerProofs

\* Leaves that name no prover are for Zenon.
USE Zenon

-----------------------------------------------------------------------------
(***************************************************************************)
(* The store.                                                              *)
(***************************************************************************)

SomeBlocks == \E S : disk \in Seq(S) /\ chain \in Seq(S) /\ exposed \in Seq(S)

\* Types of the variables that control the tick.
ControlTypes ==
  /\ pc \in PCs
  /\ poisoned \in BOOLEAN
  /\ sealing_allowed \in BOOLEAN
  /\ sync \in [left : Nat, all_ok : BOOLEAN, appended : BOOLEAN]
  /\ sealed \in Nat

\* A tick starts with a healthy store; if a sync of the tick poisons it, sealing
\* was not allowed and the round is marked as failed, so it stays disallowed.
PoisonInv ==
  /\ pc = "drain" => ~poisoned
  /\ pc = "retry" => ~sealing_allowed
  /\ pc = "retry" /\ poisoned => ~sync.all_ok
  /\ pc \in {"hygiene", "seal"} /\ poisoned => ~sealing_allowed

\* Memory and disk differ by at most the one block that poisoned the store.
MemoryInv ==
  IsUp => chain = disk \/ (poisoned /\ \E b : disk = Append(chain, b))

ExposedInv ==
  /\ IsPrefix(exposed, disk)
  /\ sealed <= Len(chain)
  /\ IsUp \/ sealed = 0

NodeInv == SomeBlocks /\ ControlTypes /\ PoisonInv /\ MemoryInv /\ ExposedInv

-----------------------------------------------------------------------------
(***************************************************************************)
(* Sequences.                                                              *)
(***************************************************************************)

\* A sequence stays one when its set of elements grows.
LEMMA MoreElements ==
  ASSUME NEW S, NEW s \in Seq(S), NEW b
  PROVE  s \in Seq(S \cup {b})
<1> DEFINE T == S \cup {b}
<1>1. Len(s) \in Nat /\ s \in [1 .. Len(s) -> S]
  BY SMT
<1>2. \A x \in S : x \in T
  OBVIOUS
<1> HIDE DEF T
<1>3. s \in [1 .. Len(s) -> T]
  BY <1>1, <1>2
<1>4. s \in Seq(T)
  BY <1>1, <1>3, SMT
<1> QED
  BY <1>4 DEF T

\* IsPrefix, element by element.
LEMMA PrefixElements ==
  ASSUME NEW S, NEW s \in Seq(S), NEW t \in Seq(S)
  PROVE  IsPrefix(s, t) <=> Len(s) <= Len(t) /\ \A i \in 1 .. Len(s) : s[i] = t[i]
BY SMT DEF IsPrefix

\* A sequence is a prefix of itself.
LEMMA PrefixReflexive ==
  ASSUME NEW S, NEW s \in Seq(S)
  PROVE  IsPrefix(s, s)
BY PrefixElements, SMT

\* Appending anything.
LEMMA AppendFacts ==
  ASSUME NEW S, NEW s \in Seq(S), NEW b
  PROVE  /\ Append(s, b) \in Seq(S \cup {b})
         /\ Len(Append(s, b)) = Len(s) + 1
         /\ \A i \in 1 .. Len(s) : Append(s, b)[i] = s[i]
<1>1. s \in Seq(S \cup {b})
  BY MoreElements
<1>2. b \in S \cup {b}
  OBVIOUS
<1> DEFINE T == S \cup {b}
<1> HIDE DEF T
<1>3. s \in Seq(T) /\ b \in T
  BY <1>1, <1>2 DEF T
<1>4. /\ Append(s, b) \in Seq(T)
      /\ Len(Append(s, b)) = Len(s) + 1
      /\ \A i \in 1 .. Len(s) : Append(s, b)[i] = s[i]
  BY <1>3, SMT
<1> QED
  BY <1>4 DEF T

\* A prefix stays one when a block is appended.
LEMMA PrefixOfAppend ==
  ASSUME NEW S, NEW s \in Seq(S), NEW t \in Seq(S), NEW b, IsPrefix(s, t)
  PROVE  IsPrefix(s, Append(t, b))
<1> DEFINE T == S \cup {b}
           u == Append(t, b)
<1>1. u \in Seq(T) /\ Len(u) = Len(t) + 1 /\ \A i \in 1 .. Len(t) : u[i] = t[i]
  BY AppendFacts
<1>2. s \in Seq(T)
  BY MoreElements
<1>3. Len(s) \in Nat /\ Len(t) \in Nat /\ Len(s) <= Len(t)
      /\ \A i \in 1 .. Len(s) : s[i] = t[i]
  BY PrefixElements, SMT
<1> HIDE DEF T, u
<1>4. Len(s) <= Len(u) /\ \A i \in 1 .. Len(s) : s[i] = u[i]
  BY <1>1, <1>3, SMT
<1>5. IsPrefix(s, u)
  BY <1>1, <1>2, <1>4, PrefixElements
<1> QED
  BY <1>5 DEF u

\* The first blocks of a chain.
LEMMA PrefixOfChain ==
  ASSUME NEW S, NEW s \in Seq(S), NEW n \in Nat, n <= Len(s)
  PROVE  SubSeq(s, 1, n) \in Seq(S) /\ IsPrefix(SubSeq(s, 1, n), s)
<1> DEFINE u == SubSeq(s, 1, n)
<1>1. u \in Seq(S) /\ Len(u) = n /\ \A i \in 1 .. n : u[i] = s[i]
  BY SMT
<1> HIDE DEF u
<1>2. IsPrefix(u, s)
  BY <1>1, PrefixElements
<1> QED
  BY <1>1, <1>2 DEF u

-----------------------------------------------------------------------------
(***************************************************************************)
(* The five things a step can do to chain, disk and store.                 *)
(***************************************************************************)
Unchanged ==
  /\ disk' = disk /\ chain' = chain /\ poisoned' = poisoned
  /\ pc = "down" <=> pc' = "down"

Grown ==
  /\ pc # "down" /\ pc' # "down" /\ ~poisoned
  /\ \E b : chain' = Append(chain, b) /\ disk' = Append(disk, b)

Failed ==
  /\ pc # "down" /\ pc' # "down" /\ ~poisoned /\ poisoned'
  /\ chain' = chain
  /\ \E b : disk' \in {disk, Append(disk, b)}

Started == pc = "down" /\ chain' = disk /\ disk' = disk

Stopped ==
  /\ pc' = "down" /\ chain' = <<>> /\ sealed' = 0
  /\ \E b : disk' \in {disk, Append(disk, b)}

\* What a step may show to a peer.
NothingShown == exposed' = exposed

Shown ==
  /\ Unchanged
  /\ pc # "down"
  /\ \/ ~poisoned /\ exposed' = chain
     \/ exposed' = SubSeq(chain, 1, sealed)

SealedStep == sealed' \in {0, sealed} \/ (Grown /\ sealed' = Len(chain) + 1)

Kind ==
  /\ Unchanged \/ Grown \/ Failed \/ Started \/ Stopped
  /\ NothingShown \/ Shown
  /\ SealedStep

\* A step of one of these kinds leaves chain, disk and exposed sequences.
LEMMA KindKeepsBlocks ==
  ASSUME NodeInv, Kind
  PROVE  SomeBlocks'
<1>1. PICK S : disk \in Seq(S) /\ chain \in Seq(S) /\ exposed \in Seq(S)
  BY DEF NodeInv, SomeBlocks
<1>2. exposed' \in Seq(S)
  <2>1. CASE NothingShown
    BY <1>1, <2>1 DEF NothingShown
  <2>2. CASE Shown
    <3>1. SubSeq(chain, 1, sealed) \in Seq(S)
      BY <1>1, PrefixOfChain DEF NodeInv, ExposedInv, ControlTypes
    <3> QED
      BY <1>1, <2>2, <3>1 DEF Shown
  <2> QED
    BY <2>1, <2>2 DEF Kind
<1>3. CASE Unchanged
  BY <1>1, <1>2, <1>3 DEF SomeBlocks, Unchanged
<1>4. CASE Grown
  <2>1. PICK b : chain' = Append(chain, b) /\ disk' = Append(disk, b)
    BY <1>4 DEF Grown
  <2>2. chain' \in Seq(S \cup {b}) /\ disk' \in Seq(S \cup {b})
    BY <1>1, <2>1, AppendFacts
  <2>3. exposed' \in Seq(S \cup {b})
    BY <1>2, MoreElements
  <2> QED
    BY <2>2, <2>3 DEF SomeBlocks
<1>5. ASSUME NEW b, disk' \in {disk, Append(disk, b)},
             \A T : chain \in Seq(T) => chain' \in Seq(T)
      PROVE  SomeBlocks'
  <2>1. disk \in Seq(S \cup {b}) /\ chain \in Seq(S \cup {b}) /\ exposed' \in Seq(S \cup {b})
    BY <1>1, <1>2, MoreElements
  <2>2. disk' \in Seq(S \cup {b})
    <3>1. Append(disk, b) \in Seq(S \cup {b})
      BY <1>1, AppendFacts
    <3> QED
      BY <1>5, <2>1, <3>1
  <2>3. chain' \in Seq(S \cup {b})
    BY <1>5, <2>1
  <2> QED
    BY <2>1, <2>2, <2>3 DEF SomeBlocks
<1>6. CASE Failed
  BY <1>5, <1>6, SMT DEF Failed
<1>7. CASE Stopped
  <2>1. \A T : chain' \in Seq(T)
    BY <1>7, SMT DEF Stopped
  <2> QED
    BY <1>5, <1>7, <2>1, SMT DEF Stopped
<1>8. CASE Started
  BY <1>1, <1>2, <1>8 DEF Started, SomeBlocks
<1> QED
  BY <1>3, <1>4, <1>6, <1>7, <1>8 DEF Kind

\* It leaves memory and disk at most the poisoning block apart.
LEMMA KindKeepsMemory ==
  ASSUME NodeInv, Kind
  PROVE  MemoryInv'
<1>1. CASE Unchanged
  BY <1>1 DEF NodeInv, MemoryInv, IsUp, Unchanged
<1>2. CASE Grown
  <2>1. chain = disk
    BY <1>2 DEF NodeInv, MemoryInv, IsUp, Grown
  <2> QED
    BY <1>2, <2>1 DEF MemoryInv, Grown
<1>3. CASE Failed
  <2>1. chain = disk
    BY <1>3 DEF NodeInv, MemoryInv, IsUp, Failed
  <2> QED
    BY <1>3, <2>1 DEF MemoryInv, Failed
<1>4. CASE Started
  BY <1>4 DEF Started, MemoryInv
<1>5. CASE Stopped
  BY <1>5 DEF Stopped, MemoryInv, IsUp
<1> QED
  BY <1>1, <1>2, <1>3, <1>4, <1>5 DEF Kind

\* What peers were shown stays on disk.
LEMMA KindKeepsExposed ==
  ASSUME NodeInv, Kind
  PROVE  ExposedInv'
<1>1. PICK S : disk \in Seq(S) /\ chain \in Seq(S) /\ exposed \in Seq(S)
  BY DEF NodeInv, SomeBlocks
<1>2. /\ IsPrefix(exposed, disk) /\ sealed \in Nat /\ sealed <= Len(chain)
      /\ Len(chain) \in Nat
      /\ pc = "down" => sealed = 0
  BY <1>1, SMT DEF NodeInv, ExposedInv, ControlTypes, IsUp
<1>3. IsPrefix(exposed', disk')
  <2>1. ASSUME NothingShown, NEW b, disk' \in {disk, Append(disk, b)}
        PROVE  IsPrefix(exposed', disk')
    <3>1. IsPrefix(exposed, Append(disk, b))
      BY <1>1, <1>2, PrefixOfAppend
    <3> QED
      BY <1>2, <2>1, <3>1 DEF NothingShown
  <2>2. CASE NothingShown
    <3>1. \E b : disk' \in {disk, Append(disk, b)}
      BY DEF Kind, Unchanged, Grown, Failed, Started, Stopped
    <3> QED
      BY <2>1, <2>2, <3>1, SMT
  <2>3. CASE Shown
    <3>1. /\ disk' = disk
          /\ exposed' = SubSeq(chain, 1, sealed) \/ (exposed' = chain /\ chain = disk)
      BY <2>3 DEF Shown, Unchanged, NodeInv, MemoryInv, IsUp
    <3>2. chain = disk \/ \E b : disk = Append(chain, b)
      BY <2>3 DEF Shown, NodeInv, MemoryInv, IsUp
    <3>3. IsPrefix(chain, chain)
      BY <1>1, PrefixElements, SMT
    <3>4. /\ SubSeq(chain, 1, sealed) \in Seq(S)
          /\ IsPrefix(SubSeq(chain, 1, sealed), chain)
      BY <1>1, <1>2, PrefixOfChain
    <3>5. \A b : IsPrefix(SubSeq(chain, 1, sealed), Append(chain, b))
      BY <1>1, <3>4, PrefixOfAppend
    <3> QED
      BY <3>1, <3>2, <3>3, <3>4, <3>5
  <2> QED
    BY <2>2, <2>3 DEF Kind
<1>4. sealed' <= Len(chain')
  <2>1. CASE Grown
    <3>1. Len(chain') = Len(chain) + 1
      BY <1>1, <2>1, AppendFacts DEF Grown
    <3> QED
      BY <1>2, <3>1, SMT DEF Kind, SealedStep
  <2>2. CASE ~Grown /\ (Unchanged \/ Failed)
    BY <1>2, <2>2, SMT DEF Kind, SealedStep, Unchanged, Failed
  <2>3. CASE ~Grown /\ Started
    <3>1. sealed' = 0 /\ Len(chain') \in Nat
      BY <1>1, <1>2, <2>3, SMT DEF Kind, SealedStep, Started
    <3> QED
      BY <3>1, SMT
  <2>4. CASE Stopped
    BY <2>4, SMT DEF Stopped
  <2> QED
    BY <2>1, <2>2, <2>3, <2>4 DEF Kind
<1>5. IsUp' \/ sealed' = 0
  BY <1>2 DEF Kind, SealedStep, Unchanged, Grown, Failed, Started, Stopped, IsUp
<1> QED
  BY <1>3, <1>4, <1>5 DEF ExposedInv

-----------------------------------------------------------------------------
(***************************************************************************)
(* Every action is of one of these kinds and keeps the control invariant.  *)
(***************************************************************************)
StepOK == Kind /\ ControlTypes' /\ PoisonInv'

\* A step that leaves chain, disk, store, exposed and sealed alone.
LEMMA QuietStep ==
  ASSUME NodeInv,
         disk' = disk, chain' = chain, poisoned' = poisoned,
         exposed' = exposed, sealed' = sealed,
         pc # "down", pc' \in PCs \ {"down"},
         sealing_allowed' \in BOOLEAN,
         sync' \in [left : Nat, all_ok : BOOLEAN, appended : BOOLEAN],
         PoisonInv'
  PROVE  StepOK
BY DEF StepOK, Kind, Unchanged, NothingShown, SealedStep, NodeInv, ControlTypes

\* After the drain: to the retry of the initial sync, or to hygiene.
LEMMA AfterDrainStep ==
  ASSUME NodeInv, AfterDrain, ~poisoned, poisoned' = poisoned,
         sealing_allowed' = sealing_allowed
  PROVE  /\ pc' \in PCs \ {"down"}
         /\ sync' \in [left : Nat, all_ok : BOOLEAN, appended : BOOLEAN]
         /\ PoisonInv'
<1>1. pc' \in {"retry", "hygiene"} /\ (pc' = "retry" => ~sealing_allowed)
  BY DEF AfterDrain
<1>2. sync' \in [left : Nat, all_ok : BOOLEAN, appended : BOOLEAN]
  BY PeersAssumption DEF AfterDrain, NoSync, NodeInv, ControlTypes
<1> QED
  BY <1>1, <1>2 DEF PoisonInv, PCs

\* The drain of the queue file.
LEMMA DrainSteps ==
  ASSUME NodeInv, DrainBegin \/ DrainUnreadable \/ DrainOne \/ DrainEnd \/ DrainEndFails
  PROVE  StepOK
<1>1. CASE DrainBegin
  <2>1. PoisonInv'
    BY <1>1 DEF DrainBegin, PoisonInv, ledgerVars
  <2> QED
    BY <1>1, <2>1, QuietStep DEF DrainBegin, files, ledgerVars, PCs, NodeInv, ControlTypes
<1>2. CASE DrainUnreadable
  BY <1>2, QuietStep, AfterDrainStep
  DEF DrainUnreadable, files, ledgerVars, NodeInv, ControlTypes
<1>3. CASE DrainOne
  <2>1. PoisonInv'
    BY <1>3 DEF DrainOne, PoisonInv, ledgerVars, NodeInv
  <2> QED
    BY <1>3, <2>1, QuietStep DEF DrainOne, files, ledgerVars, PCs, NodeInv, ControlTypes
<1>4. CASE DrainEnd \/ DrainEndFails
  <2>1. ~poisoned /\ pc # "down"
    BY <1>4 DEF DrainEnd, DrainEndFails, NodeInv, PoisonInv
  <2> QED
    BY <1>4, <2>1, QuietStep, AfterDrainStep
    DEF DrainEnd, DrainEndFails, files, ledgerVars, NodeInv, ControlTypes
<1> QED
  BY <1>1, <1>2, <1>3, <1>4

\* The end of the sync with one peer.
LEMMA NextPeerStep ==
  ASSUME NodeInv, Syncing, NEW ok \in BOOLEAN, NextPeer(ok)
  PROVE  /\ sync' \in [left : Nat, all_ok : BOOLEAN, appended : BOOLEAN]
         /\ sync'.all_ok => sync.all_ok /\ ok
         /\ pc \in {"starting", "retry", "sync"}
BY SMT DEF NodeInv, ControlTypes, Syncing, NextPeer

\* Peer sync without a new block.
LEMMA SyncSteps ==
  ASSUME NodeInv, SyncPeerOk \/ SyncPeerErr \/ SyncsDone
  PROVE  StepOK
<1>1. CASE SyncPeerOk \/ SyncPeerErr
  <2>1. /\ sync' \in [left : Nat, all_ok : BOOLEAN, appended : BOOLEAN]
        /\ sync'.all_ok => sync.all_ok
        /\ pc \in {"starting", "retry", "sync"}
    <3>1. Syncing /\ \E ok \in BOOLEAN : NextPeer(ok)
      BY <1>1 DEF SyncPeerOk, SyncPeerErr
    <3> QED
      BY <3>1, NextPeerStep
  <2>2. PoisonInv'
    <3>1. UNCHANGED <<pc, poisoned, sealing_allowed>>
      BY <1>1 DEF SyncPeerOk, SyncPeerErr, ledgerVars
    <3> QED
      BY <2>1, <3>1 DEF PoisonInv, NodeInv
  <2> QED
    BY <1>1, <2>1, <2>2, QuietStep
    DEF SyncPeerOk, SyncPeerErr, files, ledgerVars, PCs, NodeInv, ControlTypes
<1>2. CASE SyncsDone
  <2>1. /\ (pc = "retry" /\ pc' = "hygiene") \/ pc' \in {"idle", "gossip"}
        /\ pc # "down"
    BY <1>2 DEF SyncsDone
  <2>2. sync' \in [left : Nat, all_ok : BOOLEAN, appended : BOOLEAN]
    BY <1>2 DEF SyncsDone, NoSync
  <2>3. /\ sealing_allowed' \in BOOLEAN
        /\ pc = "retry" /\ poisoned => ~sealing_allowed'
    BY <1>2 DEF SyncsDone, NodeInv, PoisonInv
  <2>4. PoisonInv'
    BY <1>2, <2>1, <2>3 DEF SyncsDone, PoisonInv, ledgerVars
  <2> QED
    BY <1>2, <2>1, <2>2, <2>3, <2>4, QuietStep DEF SyncsDone, files, ledgerVars, PCs
<1> QED
  BY <1>1, <1>2

\* After the seal: to the sync with the peers that are due.
LEMMA AfterSealStep ==
  ASSUME AfterSeal
  PROVE  /\ pc' = "sync"
         /\ sync' \in [left : Nat, all_ok : BOOLEAN, appended : BOOLEAN]
<1>1. NoSync \in [left : Nat, all_ok : BOOLEAN, appended : BOOLEAN]
  BY DEF NoSync
<1>2. PICK n \in 0 .. (IF Peers = 0 THEN 0 ELSE Peers + BookPeers) :
             sync' = [NoSync EXCEPT !.left = n] /\ pc' = "sync"
  BY DEF AfterSeal
<1>3. n \in Nat
  BY PeersAssumption, SMT
<1> QED
  BY <1>1, <1>2, <1>3

\* The seal that commits nothing.
LEMMA SealQuietSteps ==
  ASSUME NodeInv, pc = "seal",
         \E sel, now : SealNothing(sel) \/ SealRefused(sel, now)
  PROVE  StepOK
<1>1. PICK sel, now : SealNothing(sel) \/ SealRefused(sel, now)
  OBVIOUS
<1>2. /\ pc' = "sync"
      /\ sync' \in [left : Nat, all_ok : BOOLEAN, appended : BOOLEAN]
  <2>1. AfterSeal
    BY <1>1 DEF SealNothing, SealRefused
  <2> QED
    BY <2>1, AfterSealStep
<1>3. PoisonInv'
  BY <1>2 DEF PoisonInv
<1> QED
  BY <1>1, <1>2, <1>3, QuietStep
  DEF SealNothing, SealRefused, files, ledgerVars, PCs, NodeInv, ControlTypes

\* The hygiene of the tick changes the pool only.
LEMMA HygieneStep ==
  ASSUME NodeInv, Hygiene
  PROVE  StepOK
<1>1. PoisonInv'
  BY DEF Hygiene, PoisonInv, ledgerVars, NodeInv
<1> QED
  BY <1>1, QuietStep DEF Hygiene, files, ledgerVars, PCs, NodeInv, ControlTypes

\* A step that changes nothing the control invariant reads.
LEMMA ControlUnchanged ==
  ASSUME NodeInv, pc' = pc, poisoned' = poisoned,
         sealing_allowed' = sealing_allowed, sync' = sync, sealed' \in Nat
  PROVE  ControlTypes' /\ PoisonInv'
<1>1. ControlTypes'
  BY DEF NodeInv, ControlTypes
<1>2. PoisonInv'
  BY DEF NodeInv, PoisonInv
<1> QED
  BY <1>1, <1>2

\* Submissions of peers and of `send`, which also run while the node is down.
LEMMA SubmissionSteps ==
  ASSUME NodeInv, (\E tx : InboundTx(tx) \/ Send(tx) \/ UiSend(tx)) \/ SendTorn \/ UNCHANGED vars
  PROVE  StepOK
<1>1. /\ UNCHANGED <<pc, poisoned, sealing_allowed, sync, sealed>>
      /\ UNCHANGED <<disk, chain, exposed>>
  BY DEF InboundTx, Send, UiSend, append_pending_transaction, SendTorn, files, ledgerVars,
               vars
<1>2. ControlTypes' /\ PoisonInv'
  BY <1>1, ControlUnchanged DEF NodeInv, ControlTypes
<1> QED
  BY <1>1, <1>2 DEF StepOK, Kind, Unchanged, NothingShown, SealedStep, NodeInv, ExposedInv

\* The process starts on what is on disk.
LEMMA StartStep ==
  ASSUME NodeInv, Start
  PROVE  StepOK
<1>1. /\ pc = "down" /\ pc' \in {"idle", "starting"}
      /\ disk' = disk /\ chain' = disk /\ UNCHANGED <<poisoned, exposed, sealed>>
  BY DEF Start, files
<1>2. /\ sealing_allowed' \in BOOLEAN
      /\ sync' \in [left : Nat, all_ok : BOOLEAN, appended : BOOLEAN]
  BY PeersAssumption DEF Start, NoSync
<1>3. ControlTypes' /\ PoisonInv'
  BY <1>1, <1>2 DEF NodeInv, ControlTypes, PoisonInv, PCs
<1> QED
  BY <1>1, <1>3 DEF StepOK, Kind, Started, NothingShown, SealedStep, NodeInv, ExposedInv

\* When the process is gone, the control variables are reset.
LEMMA DownStep ==
  ASSUME NodeInv, Down
  PROVE  ControlTypes' /\ PoisonInv'
BY DEF Down, NoSync, ControlTypes, PoisonInv, PCs

\* The process dies, exits on a poisoned store, or exits on a failed seal.
LEMMA StopSteps ==
  ASSUME NodeInv,
         \/ Crash
         \/ ExitPoisoned
         \/ \E sel, now : SealPersistFails(sel, now)
  PROVE  StepOK
<1>1. /\ Down
      /\ exposed' = exposed
      /\ disk' = disk \/ \E b : disk' = Append(disk, b)
  BY DEF Crash, ExitPoisoned, SealPersistFails, files
<1> QED
  BY <1>1, DownStep DEF StepOK, Kind, Stopped, NothingShown, SealedStep, Down

\* A block of a peer is committed.
LEMMA NetworkBlockSteps ==
  ASSUME NodeInv, \E b : SyncAppend(b) \/ InboundBlock(b)
  PROVE  StepOK
<1>1. PICK b : SyncAppend(b) \/ InboundBlock(b)
  OBVIOUS
<1>2. /\ Commit(b)
      /\ ~poisoned
      /\ pc # "down"
      /\ UNCHANGED <<pc, sealing_allowed, sealed, exposed>>
  BY <1>1 DEF SyncAppend, InboundBlock, Syncing, MutexFree
<1>3. /\ sync' \in [left : Nat, all_ok : BOOLEAN, appended : BOOLEAN]
      /\ sync'.all_ok = sync.all_ok
  BY <1>1 DEF SyncAppend, InboundBlock, NodeInv, ControlTypes
<1>4. Grown /\ UNCHANGED poisoned
  BY <1>2 DEF Commit, Grown
<1>5. ControlTypes'
  BY <1>2, <1>3, <1>4 DEF NodeInv, ControlTypes
<1>6. PoisonInv'
  BY <1>2, <1>3, <1>4 DEF NodeInv, PoisonInv
<1> QED
  BY <1>2, <1>4, <1>5, <1>6 DEF StepOK, Kind, NothingShown, SealedStep

\* The selection is sealed: PoisonInv says that the store is healthy.
LEMMA SealCommitStep ==
  ASSUME NodeInv, pc = "seal", \E sel, now : SealCommits(sel, now)
  PROVE  StepOK
<1>1. PICK sel, now : SealCommits(sel, now)
  OBVIOUS
<1>2. /\ sealing_allowed
      /\ Commit(SealedBlock(sel, now))
      /\ sealed' = Len(chain) + 1
      /\ AfterSeal
      /\ UNCHANGED <<sealing_allowed, exposed>>
  BY <1>1 DEF SealCommits, Sealable
<1>3. ~poisoned
  BY <1>2 DEF NodeInv, PoisonInv
<1>4. /\ pc' = "sync"
      /\ sync' \in [left : Nat, all_ok : BOOLEAN, appended : BOOLEAN]
  BY <1>2, AfterSealStep
<1>5. Grown /\ UNCHANGED poisoned
  BY <1>2, <1>3, <1>4 DEF Commit, Grown
<1>6. Len(chain) \in Nat
  BY SMT DEF NodeInv, SomeBlocks
<1>7. ControlTypes'
  BY <1>2, <1>4, <1>5, <1>6, SMT DEF NodeInv, ControlTypes, PCs
<1>8. PoisonInv'
  BY <1>4 DEF PoisonInv
<1> QED
  BY <1>2, <1>5, <1>7, <1>8 DEF StepOK, Kind, NothingShown, SealedStep

\* A block of a peer cannot be persisted.
LEMMA PersistFailSteps ==
  ASSUME NodeInv, \E b : SyncPersistFails(b) \/ InboundBlockPersistFails(b)
  PROVE  StepOK
<1>1. PICK b : SyncPersistFails(b) \/ InboundBlockPersistFails(b)
  OBVIOUS
<1>2. /\ RollBack(b)
      /\ ~poisoned
      /\ UNCHANGED <<pc, sealing_allowed, sealed, exposed>>
      /\ pc \in {"starting", "retry", "sync", "idle", "gossip"}
  BY <1>1 DEF SyncPersistFails, InboundBlockPersistFails, Syncing, MutexFree
<1>3. /\ sync' \in [left : Nat, all_ok : BOOLEAN, appended : BOOLEAN]
      /\ pc = "retry" => ~sync'.all_ok
  <2>1. CASE SyncPersistFails(b)
    BY <2>1, NextPeerStep DEF SyncPersistFails
  <2>2. CASE InboundBlockPersistFails(b)
    BY <2>2 DEF InboundBlockPersistFails, MutexFree, NodeInv, ControlTypes
  <2> QED
    BY <1>1, <2>1, <2>2
<1>4. Failed /\ poisoned' = TRUE
  <2>1. pc # "down" /\ pc' # "down"
    BY <1>2
  <2> QED
    BY <1>2, <2>1 DEF RollBack, Failed
<1>5. ControlTypes'
  BY <1>2, <1>3, <1>4 DEF NodeInv, ControlTypes
<1>6. PoisonInv'
  BY <1>2, <1>3, <1>4 DEF NodeInv, PoisonInv
<1> QED
  BY <1>2, <1>4, <1>5, <1>6 DEF StepOK, Kind, NothingShown, SealedStep

\* A chain, or the sealed block, is shown to a peer.
LEMMA ShowSteps ==
  ASSUME NodeInv, Gossip \/ InboundGetBlocks
  PROVE  StepOK
<1>1. CASE Gossip
  <2>1. /\ pc = "gossip" /\ pc' = "idle" /\ sealed' = 0
        /\ exposed' \in {exposed, SubSeq(chain, 1, sealed)}
        /\ UNCHANGED <<disk, chain, poisoned, sealing_allowed, sync>>
    BY <1>1 DEF Gossip, files, ledgerVars
  <2>2. ControlTypes' /\ PoisonInv'
    BY <2>1 DEF NodeInv, ControlTypes, PoisonInv, PCs
  <2> QED
    BY <2>1, <2>2 DEF StepOK, Kind, Unchanged, NothingShown, Shown, SealedStep
<1>2. CASE InboundGetBlocks
  <2>1. /\ pc # "down" /\ ~poisoned
        /\ exposed' \in {exposed, chain}
        /\ UNCHANGED <<pc, disk, chain, poisoned, sealing_allowed, sync, sealed>>
    BY <1>2 DEF InboundGetBlocks, MutexFree, files, ledgerVars
  <2>2. ControlTypes' /\ PoisonInv'
    BY <2>1, ControlUnchanged DEF NodeInv, ControlTypes
  <2> QED
    BY <2>1, <2>2 DEF StepOK, Kind, Unchanged, NothingShown, Shown, SealedStep
<1> QED
  BY <1>1, <1>2

-----------------------------------------------------------------------------
(***************************************************************************)
(* The invariant and the properties.                                       *)
(***************************************************************************)
\* A new data directory satisfies the invariant.
LEMMA InitKeeps ==
  ASSUME Init
  PROVE  NodeInv
<1>1. SomeBlocks
  <2>1. <<>> \in Seq({})
    BY SMT
  <2> QED
    BY <2>1 DEF Init, SomeBlocks
<1>2. ControlTypes /\ PoisonInv /\ MemoryInv
  BY DEF Init, ControlTypes, PoisonInv, MemoryInv, IsUp, NoSync, PCs
<1>3. ExposedInv
  <2>1. <<>> \in Seq({}) /\ Len(<<>>) = 0
    BY SMT
  <2>2. exposed \in Seq({}) /\ exposed = disk
    BY <2>1 DEF Init
  <2>3. IsPrefix(exposed, disk)
    BY <2>2, PrefixReflexive
  <2> QED
    BY <2>1, <2>3, SMT DEF Init, ExposedInv
<1> QED
  BY <1>1, <1>2, <1>3 DEF NodeInv

\* Every action keeps the invariant.
LEMMA NextKeeps ==
  ASSUME NodeInv, [Next]_vars
  PROVE  NodeInv'
<1>1. StepOK
  <2>1. CASE Start \/ Crash
    BY <2>1, StartStep, StopSteps
  <2>2. CASE Tick
    <3>1. CASE ExitPoisoned
      BY <3>1, StopSteps
    <3>2. CASE DrainBegin \/ DrainUnreadable \/ DrainOne \/ DrainEnd \/ DrainEndFails
      BY <3>2, DrainSteps
    <3>3. CASE \E b \in NetworkBlocks : SyncAppend(b) \/ SyncPersistFails(b)
      BY <3>3, NetworkBlockSteps, PersistFailSteps
    <3>4. CASE SyncPeerOk \/ SyncPeerErr \/ SyncsDone
      BY <3>4, SyncSteps
    <3>5. CASE Hygiene
      BY <3>5, HygieneStep
    <3>6. CASE Seal
      BY <3>6, SealQuietSteps, SealCommitStep, StopSteps DEF Seal
    <3>7. CASE Gossip
      BY <3>7, ShowSteps
    <3> QED
      BY <2>2, <3>1, <3>2, <3>3, <3>4, <3>5, <3>6, <3>7 DEF Tick
  <2>3. CASE Inbound
    BY <2>3, SubmissionSteps, NetworkBlockSteps, PersistFailSteps, ShowSteps DEF Inbound
  <2>4. CASE (\E tx \in Tx : Send(tx) \/ UiSend(tx)) \/ SendTorn \/ UNCHANGED vars
    BY <2>4, SubmissionSteps
  <2> QED
    BY <2>1, <2>2, <2>3, <2>4 DEF Next
<1> QED
  BY <1>1, KindKeepsBlocks, KindKeepsMemory, KindKeepsExposed DEF StepOK, NodeInv

\* The inductive invariant holds in every behaviour.
THEOREM NodeInvariant == Spec => []NodeInv
BY InitKeeps, NextKeeps, PTL DEF Spec

\* Memory and disk hold the same chain, except for the one block whose failed
\* persist poisoned the store (append_network_block_persist, cmd_run).
THEOREM MemoryAgreesWithDisk == Spec => []MemoryMatchesDisk
<1>1. NodeInv => MemoryMatchesDisk
  <2> SUFFICES ASSUME NodeInv, IsUp, chain # disk
               PROVE  poisoned /\ IsPrefix(chain, disk) /\ Len(disk) = Len(chain) + 1
    BY DEF MemoryMatchesDisk
  <2>1. poisoned /\ \E b : disk = Append(chain, b)
    BY DEF NodeInv, MemoryInv
  <2>2. PICK S : chain \in Seq(S)
    BY DEF NodeInv, SomeBlocks
  <2>3. IsPrefix(chain, chain)
    BY <2>2, PrefixReflexive
  <2> QED
    BY <2>1, <2>2, <2>3, AppendFacts, PrefixOfAppend
<1> QED
  BY <1>1, NodeInvariant, PTL

\* What peers were served or pushed is on disk at the height it was shown at
\* (OP_GET_BLOCKS of apply_predecoded, push_block_to_peer in cmd_run).
THEOREM ShownBlocksAreDurable == Spec => []ExposedIsDurable
<1>1. NodeInv => ExposedIsDurable
  BY DEF NodeInv, ExposedInv, ExposedIsDurable
<1> QED
  BY <1>1, NodeInvariant, PTL

\* A tick does not reach the seal with a poisoned store: the retry sync that
\* poisons it leaves sealing_allowed FALSE (cmd_run).
THEOREM SealingImpliesHealthyStore == Spec => []NeverSealsPoisoned
<1>1. NodeInv => NeverSealsPoisoned
  BY DEF NodeInv, PoisonInv, NeverSealsPoisoned
<1> QED
  BY <1>1, NodeInvariant, PTL

-----------------------------------------------------------------------------
(***************************************************************************)
(* The pool.                                                               *)
(***************************************************************************)

\* The queue has no transfer twice.
Distinct(order) ==
  \A i, j \in 1 .. Len(order) : order[i] = order[j] => i = j

\* PoolIsConsistent of Node for one pool, with Distinct for the length of the
\* queue.
PoolOK(mp) ==
  /\ mp \in Pools
  /\ Range(mp.order) = mp.txs
  /\ Distinct(mp.order)
  /\ IndexMirrorsTxs(mp)
  /\ WithinCapacity(mp)

-----------------------------------------------------------------------------
(***************************************************************************)
(* Queues.                                                                 *)
(***************************************************************************)
\* The elements of a queue.
LEMMA QueueElements ==
  ASSUME NEW s \in Seq(Tx)
  PROVE  /\ Range(s) \in SUBSET Tx
         /\ \A i \in 1 .. Len(s) : s[i] \in Range(s)
         /\ \A x \in Range(s) : \E i \in 1 .. Len(s) : s[i] = x
BY SMT DEF Range

\* A queue without duplicates is as long as the set of its elements is large.
LEMMA QueueLength ==
  ASSUME NEW s \in Seq(Tx), Distinct(s)
  PROVE  IsFiniteSet(Range(s)) /\ Cardinality(Range(s)) = Len(s)
<1>1. /\ Len(s) \in Nat /\ s \in [1 .. Len(s) -> Range(s)]
      /\ \A x \in Range(s) : \E i \in 1 .. Len(s) : s[i] = x
  BY QueueElements, SMT
<1>2. s \in Bijection(1 .. Len(s), Range(s))
  BY <1>1 DEF Bijection, Injection, Surjection, IsInjective, Distinct
<1>3. ExistsBijection(1 .. Len(s), Range(s))
  BY <1>2 DEF ExistsBijection
<1>4. IsFiniteSet(1 .. Len(s)) /\ Cardinality(1 .. Len(s)) = Len(s)
  <2>1. Len(s) \in Int /\ 1 \in Int
    BY <1>1, SMT
  <2>2. Cardinality(1 .. Len(s)) = IF 1 > Len(s) THEN 0 ELSE Len(s) - 1 + 1
    BY <2>1, FS_Interval
  <2>3. IsFiniteSet(1 .. Len(s))
    BY <2>1, FS_Interval
  <2> QED
    BY <1>1, <2>2, <2>3, SMT
<1> QED
  BY <1>3, <1>4, FS_Bijection

\* The length that OrderMirrorsTxs speaks of.
LEMMA PoolOrder ==
  ASSUME NEW mp, PoolOK(mp)
  PROVE  OrderMirrorsTxs(mp)
<1>1. mp.order \in Seq(Tx)
  BY DEF PoolOK, Pools
<1> QED
  BY <1>1, QueueLength DEF PoolOK, OrderMirrorsTxs

\* Retain(s, keep) is the end of a walk over s.
IsWalk(kept, s, keep) ==
  /\ kept[0] = <<>>
  /\ \A n \in 1 .. Len(s) :
       kept[n] = IF s[n] \in keep THEN Append(kept[n - 1], s[n]) ELSE kept[n - 1]
  /\ Retain(s, keep) = kept[Len(s)]

\* There is such a walk.
LEMMA RetainWalk ==
  ASSUME NEW s \in Seq(Tx), NEW keep
  PROVE  \E kept : IsWalk(kept, s, keep)
<1> DEFINE N == Len(s)
           Step(q, n) == IF s[n] \in keep THEN Append(q, s[n]) ELSE q
           F == [p \in Seq(Tx) \X (1 .. N) |-> Step(p[1], p[2])]
           P(f) == f = [n \in 0 .. N |-> IF n = 0 THEN <<>> ELSE Step(f[n - 1], n)]
           kept == CHOOSE f : P(f)
<1>1. Retain(s, keep) = kept[N]
  BY DEF Retain
<1>2. N \in Nat /\ <<>> \in Seq(Tx) /\ \A n \in 1 .. N : s[n] \in Tx
  BY SMT
<1>3. \A q \in Seq(Tx), n \in 1 .. N : Step(q, n) \in Seq(Tx)
  BY <1>2, SMT
<1> HIDE DEF Step
<1>4. F \in [Seq(Tx) \X (1 .. N) -> Seq(Tx)]
  <2> HIDE DEF N
  <2> QED
    BY <1>3
<1>5. PICK f : Solves(f, N, Seq(Tx), <<>>, F)
  <2> HIDE DEF N, F
  <2> QED
    BY <1>2, <1>4, RecursionExists
<1>6. /\ f \in [0 .. N -> Seq(Tx)]
      /\ f[0] = <<>>
      /\ \A n \in 1 .. N : f[n] = F[<<f[n - 1], n>>]
  <2> HIDE DEF N, F
  <2> QED
    BY <1>5 DEF Solves
<1> HIDE DEF N
<1>7. ASSUME NEW n \in 1 .. N
      PROVE  f[n] = Step(f[n - 1], n)
  <2>1. f[n - 1] \in Seq(Tx)
    <3> HIDE DEF F
    <3> QED
      BY <1>2, <1>6, SMT
  <2> QED
    BY <1>6, <2>1
<1> HIDE DEF F
<1>8. P(f)
  <2>1. \A n \in 0 .. N : f[n] = IF n = 0 THEN <<>> ELSE Step(f[n - 1], n)
    BY <1>2, <1>6, <1>7, SMT
  <2> QED
    BY <1>6, <2>1
<1>9. P(kept)
  <2> HIDE DEF P
  <2> QED
    BY <1>8
<1> HIDE DEF kept
<1>10. kept[0] = <<>> /\ \A n \in 1 .. N : kept[n] = Step(kept[n - 1], n)
  BY <1>2, <1>9, SMT
<1> QED
  BY <1>1, <1>10 DEF IsWalk, N, Step

\* Appending to a queue.
LEMMA QueueAppend ==
  ASSUME NEW s \in Seq(Tx), NEW x \in Tx
  PROVE  /\ Append(s, x) \in Seq(Tx)
         /\ Len(Append(s, x)) = Len(s) + 1
         /\ \A i \in 1 .. Len(s) : Append(s, x)[i] = s[i]
         /\ Append(s, x)[Len(s) + 1] = x
         /\ Range(Append(s, x)) = Range(s) \cup {x}
         /\ Distinct(s) /\ x \notin Range(s) => Distinct(Append(s, x))
<1> DEFINE q == Append(s, x)
<1>1. /\ q \in Seq(Tx) /\ Len(s) \in Nat /\ Len(q) = Len(s) + 1
      /\ \A i \in 1 .. Len(s) : q[i] = s[i]
      /\ q[Len(s) + 1] = x
  BY SMT
<1> HIDE DEF q
<1>2. \A i \in 1 .. Len(q) : i \in 1 .. Len(s) \/ i = Len(s) + 1
  BY <1>1, SMT
<1>3. Range(q) = Range(s) \cup {x}
  <2>1. ASSUME NEW y \in Range(q)
        PROVE  y \in Range(s) \cup {x}
    <3>1. PICK i \in 1 .. Len(q) : q[i] = y
      BY <1>1, QueueElements
    <3> QED
      BY <1>1, <1>2, <3>1, QueueElements
  <2>2. ASSUME NEW y \in Range(s) \cup {x}
        PROVE  y \in Range(q)
    <3>1. CASE y = x
      <4>1. Len(s) + 1 \in 1 .. Len(q)
        BY <1>1, SMT
      <4> QED
        BY <1>1, <3>1, <4>1, QueueElements
    <3>2. CASE y \in Range(s)
      <4>1. PICK i \in 1 .. Len(s) : s[i] = y
        BY <3>2, QueueElements
      <4>2. i \in 1 .. Len(q)
        BY <1>1, SMT
      <4> QED
        BY <1>1, <4>1, <4>2, QueueElements
    <3> QED
      BY <3>1, <3>2
  <2> QED
    BY <2>1, <2>2
<1>4. ASSUME Distinct(s), x \notin Range(s)
      PROVE  Distinct(q)
  <2> SUFFICES ASSUME NEW i \in 1 .. Len(q), NEW j \in 1 .. Len(q), q[i] = q[j]
               PROVE  i = j
    BY DEF Distinct
  <2>1. \A k \in 1 .. Len(s) : s[k] # x
    BY <1>4, QueueElements
  <2> QED
    BY <1>1, <1>2, <1>4, <2>1 DEF Distinct
<1> QED
  BY <1>1, <1>3, <1>4 DEF q

\* Retain keeps exactly the members of keep, and no duplicates appear.
LEMMA RetainFacts ==
  ASSUME NEW s \in Seq(Tx), NEW keep
  PROVE  /\ Retain(s, keep) \in Seq(Tx)
         /\ Range(Retain(s, keep)) = Range(s) \cap keep
         /\ Distinct(s) => Distinct(Retain(s, keep))
<1>1. PICK kept : IsWalk(kept, s, keep)
  BY RetainWalk
<1>2. Len(s) \in Nat /\ \A i \in 1 .. Len(s) : s[i] \in Tx
  BY SMT
<1> DEFINE First(n) == {s[i] : i \in 1 .. n}
           Good(n) == /\ kept[n] \in Seq(Tx)
                      /\ Range(kept[n]) = First(n) \cap keep
                      /\ Distinct(s) => Distinct(kept[n])
           T == {n \in 0 .. Len(s) : Good(n)}
<1>3. 0 \in T
  <2>1. kept[0] = <<>>
    BY <1>1 DEF IsWalk
  <2>2. Range(<<>>) = {} /\ First(0) = {}
    BY SMT DEF Range
  <2>3. Distinct(<<>>)
    BY SMT DEF Distinct
  <2> HIDE DEF First
  <2>4. Good(0)
    BY <2>1, <2>2, <2>3, SMT
  <2> HIDE DEF Good
  <2> QED
    BY <1>2, <2>4, SMT
<1>4. ASSUME NEW n \in 1 .. Len(s), n - 1 \in T
      PROVE  n \in T
  <2>1. Good(n - 1)
    BY <1>4
  <2>2. First(n) = First(n - 1) \cup {s[n]}
    <3>1. 1 .. n = (1 .. n - 1) \cup {n}
      BY <1>2, SMT
    <3> QED
      BY <3>1
  <2>3. Distinct(s) => s[n] \notin First(n - 1)
    BY <1>2, SMT DEF Distinct
  <2>4. kept[n] = IF s[n] \in keep THEN Append(kept[n - 1], s[n]) ELSE kept[n - 1]
    BY <1>1 DEF IsWalk
  <2> HIDE DEF First
  <2>5. CASE s[n] \in keep
    <3>1. /\ kept[n] \in Seq(Tx)
          /\ Range(kept[n]) = Range(kept[n - 1]) \cup {s[n]}
          /\ Distinct(kept[n - 1]) /\ s[n] \notin Range(kept[n - 1]) => Distinct(kept[n])
      BY <1>2, <2>1, <2>4, <2>5, QueueAppend, SMT
    <3> QED
      BY <1>2, <2>1, <2>2, <2>3, <2>5, <3>1, SMT
  <2>6. CASE s[n] \notin keep
    BY <1>2, <2>1, <2>2, <2>4, <2>6, SMT
  <2> QED
    BY <2>5, <2>6
<1>5. Good(Len(s))
  <2> HIDE DEF T
  <2>1. \A n \in 0 .. Len(s) : n \in T
    BY <1>2, <1>3, <1>4, InductionUpTo
  <2>2. Len(s) \in T
    BY <1>2, <2>1, SMT
  <2> QED
    BY <2>2 DEF T
<1>6. Range(s) = First(Len(s))
  BY <1>2, SMT DEF Range
<1> QED
  BY <1>1, <1>5, <1>6 DEF IsWalk


-----------------------------------------------------------------------------
(***************************************************************************)
(* Removal.                                                                *)
(***************************************************************************)
\* The parts of a consistent pool.
LEMMA PoolParts ==
  ASSUME NEW mp, PoolOK(mp)
  PROVE  /\ mp.txs \in SUBSET Tx /\ mp.order \in Seq(Tx)
         /\ mp.by_sender \in [Slot -> Tx \cup {NoTx}]
         /\ mp = [txs |-> mp.txs, order |-> mp.order, by_sender |-> mp.by_sender]
         /\ IsFiniteSet(mp.txs)
         /\ Cardinality(mp.txs) \in Nat
         /\ Cardinality(mp.txs) = Len(mp.order)
         /\ Cardinality(mp.txs) <= Capacity
<1>1. /\ mp.txs \in SUBSET Tx /\ mp.order \in Seq(Tx)
      /\ mp.by_sender \in [Slot -> Tx \cup {NoTx}]
      /\ mp = [txs |-> mp.txs, order |-> mp.order, by_sender |-> mp.by_sender]
  BY DEF PoolOK, Pools
<1>2. IsFiniteSet(mp.txs) /\ Cardinality(mp.txs) \in Nat
  BY <1>1, TxFiniteAssumption, FS_Subset, FS_CardinalityType
<1> QED
  BY <1>1, <1>2, PoolOrder DEF PoolOK, OrderMirrorsTxs, WithinCapacity

\* A transfer has a slot, and a slot has one transfer of the pool.
LEMMA SlotFacts ==
  ASSUME NEW tx \in Tx
  PROVE  /\ SlotOf(tx) \in Slot
         /\ SlotOf(tx)[1] = tx.sender /\ SlotOf(tx)[2] = tx.nonce
BY TxAssumption DEF SlotOf, Slot, Transfer

\* Freeing the slots of what is removed keeps slots and transfers in step.
LEMMA RemovalIndex ==
  ASSUME NEW mp, PoolOK(mp), NEW gone
  PROVE  /\ RemoveTxHashes(mp, gone).txs = mp.txs \ gone
         /\ RemoveTxHashes(mp, gone).order = mp.order
         /\ RemoveTxHashes(mp, gone).by_sender \in [Slot -> Tx \cup {NoTx}]
         /\ RemoveTxHashes(mp, gone) \in Pools
         /\ IndexMirrorsTxs(RemoveTxHashes(mp, gone))
<1> DEFINE slots == {SlotOf(tx) : tx \in gone \cap mp.txs}
           index == [s \in Slot |-> IF s \in slots THEN NoTx ELSE mp.by_sender[s]]
           r == RemoveTxHashes(mp, gone)
<1>1. /\ mp.txs \in SUBSET Tx /\ mp.order \in Seq(Tx)
      /\ mp.by_sender \in [Slot -> Tx \cup {NoTx}]
      /\ mp = [txs |-> mp.txs, order |-> mp.order, by_sender |-> mp.by_sender]
  BY PoolParts
<1>2. r = [txs |-> mp.txs \ gone, order |-> mp.order, by_sender |-> index]
  <2>1. r = [mp EXCEPT !.txs = mp.txs \ gone, !.by_sender = index]
    BY DEF RemoveTxHashes
  <2> HIDE DEF r, index
  <2> QED
    BY <1>1, <2>1
<1>3. \A s : s \in slots <=> \E tx \in gone \cap mp.txs : SlotOf(tx) = s
  OBVIOUS
<1> HIDE DEF slots
<1>4. index \in [Slot -> Tx \cup {NoTx}]
  BY <1>1
<1>5. \A s \in Slot : index[s] = IF s \in slots THEN NoTx ELSE mp.by_sender[s]
  OBVIOUS
<1> HIDE DEF index
<1>6. \A tx \in mp.txs : mp.by_sender[SlotOf(tx)] = tx
  BY DEF PoolOK, IndexMirrorsTxs
<1>7. ASSUME NEW tx \in mp.txs \ gone
      PROVE  index[SlotOf(tx)] = tx
  <2>1. SlotOf(tx) \in Slot
    BY <1>1, SlotFacts
  <2>2. SlotOf(tx) \notin slots
    BY <1>3, <1>6
  <2> QED
    BY <1>5, <1>6, <2>1, <2>2
<1>8. ASSUME NEW s \in Slot, index[s] # NoTx
      PROVE  index[s] \in mp.txs \ gone /\ SlotOf(index[s]) = s
  <2>1. s \notin slots /\ index[s] = mp.by_sender[s]
    BY <1>5, <1>8
  <2>2. mp.by_sender[s] \in mp.txs /\ SlotOf(mp.by_sender[s]) = s
    BY <1>8, <2>1 DEF PoolOK, IndexMirrorsTxs
  <2> QED
    BY <1>3, <2>1, <2>2
<1> HIDE DEF r
<1>9. r \in Pools /\ r.txs = mp.txs \ gone /\ r.order = mp.order /\ r.by_sender = index
  BY <1>1, <1>2, <1>4 DEF Pools
<1>10. IndexMirrorsTxs(r)
  BY <1>7, <1>8, <1>9 DEF IndexMirrorsTxs
<1> QED
  BY <1>4, <1>9, <1>10 DEF r

\* Removal with any queue q of what is left.
LEMMA RemovalOK ==
  ASSUME NEW mp, PoolOK(mp), NEW gone, NEW q \in Seq(Tx),
         Range(q) = mp.txs \ gone, Distinct(q)
  PROVE  /\ PoolOK([RemoveTxHashes(mp, gone) EXCEPT !.order = q])
         /\ [RemoveTxHashes(mp, gone) EXCEPT !.order = q].txs = mp.txs \ gone
         /\ [RemoveTxHashes(mp, gone) EXCEPT !.order = q].order = q
<1> DEFINE r == RemoveTxHashes(mp, gone)
           p == [r EXCEPT !.order = q]
<1>1. r \in Pools /\ r.txs = mp.txs \ gone /\ IndexMirrorsTxs(r)
  BY RemovalIndex
<1> HIDE DEF r
<1>2. p \in Pools /\ p.txs = mp.txs \ gone /\ p.order = q /\ p.by_sender = r.by_sender
  BY <1>1 DEF Pools
<1> HIDE DEF p
<1>3. IndexMirrorsTxs(p)
  BY <1>1, <1>2 DEF IndexMirrorsTxs
<1>4. WithinCapacity(p)
  <2>1. /\ IsFiniteSet(mp.txs) /\ Cardinality(mp.txs) <= Capacity
        /\ Cardinality(mp.txs) \in Nat
    BY PoolParts
  <2>2. mp.txs \ gone \in SUBSET mp.txs
    OBVIOUS
  <2>3. /\ Cardinality(mp.txs \ gone) <= Cardinality(mp.txs)
        /\ Cardinality(mp.txs \ gone) \in Nat
    BY <2>1, <2>2, FS_Subset, FS_CardinalityType
  <2> QED
    BY <1>2, <2>1, <2>3, CapacityAssumption, SMT DEF WithinCapacity
<1> QED
  BY <1>2, <1>3, <1>4 DEF PoolOK, p, r

\* remove_by_tx_hashes, after a block was sealed.
LEMMA RemoveByHashesOK ==
  ASSUME NEW mp, PoolOK(mp), NEW gone
  PROVE  /\ PoolOK(remove_by_tx_hashes(mp, gone))
         /\ remove_by_tx_hashes(mp, gone).txs = mp.txs \ gone
<1> DEFINE q == Retain(mp.order, Tx \ gone)
<1>1. /\ mp.order \in Seq(Tx) /\ mp.txs \in SUBSET Tx
      /\ Range(mp.order) = mp.txs /\ Distinct(mp.order)
  BY PoolParts DEF PoolOK
<1>2. q \in Seq(Tx) /\ Range(q) = mp.txs \cap (Tx \ gone) /\ Distinct(q)
  BY <1>1, RetainFacts
<1>3. RemoveTxHashes(mp, gone).order = mp.order
  BY RemovalIndex
<1>4. remove_by_tx_hashes(mp, gone) = [RemoveTxHashes(mp, gone) EXCEPT !.order = q]
  BY <1>3 DEF remove_by_tx_hashes
<1> HIDE DEF q
<1>5. Range(q) = mp.txs \ gone
  BY <1>1, <1>2
<1> QED
  BY <1>2, <1>4, <1>5, RemovalOK, SMT


\* The queue without its first n entries.
LEMMA QueueRest ==
  ASSUME NEW s \in Seq(Tx), Distinct(s), NEW n \in 0 .. Len(s)
  PROVE  /\ SubSeq(s, n + 1, Len(s)) \in Seq(Tx)
         /\ Range(SubSeq(s, n + 1, Len(s))) = Range(s) \ {s[i] : i \in 1 .. n}
         /\ Distinct(SubSeq(s, n + 1, Len(s)))
<1> DEFINE q == SubSeq(s, n + 1, Len(s))
<1>1. /\ Len(s) \in Nat /\ q \in Seq(Tx) /\ Len(q) = Len(s) - n
      /\ \A i \in 1 .. Len(q) : q[i] = s[n + i]
  BY SMT
<1> HIDE DEF q
<1>2. Range(q) = Range(s) \ {s[i] : i \in 1 .. n}
  <2>1. ASSUME NEW x \in Range(q)
        PROVE  x \in Range(s) \ {s[i] : i \in 1 .. n}
    <3>1. PICK i \in 1 .. Len(q) : q[i] = x
      BY <1>1, QueueElements
    <3>2. n + i \in 1 .. Len(s) /\ s[n + i] = x
      BY <1>1, <3>1, SMT
    <3>3. ASSUME NEW k \in 1 .. n
          PROVE  s[k] # x
      <4>1. k \in 1 .. Len(s) /\ k # n + i
        BY <1>1, SMT
      <4> QED
        BY <3>2, <4>1 DEF Distinct
    <3> QED
      BY <3>2, <3>3, QueueElements
  <2>2. ASSUME NEW x \in Range(s), x \notin {s[i] : i \in 1 .. n}
        PROVE  x \in Range(q)
    <3>1. PICK i \in 1 .. Len(s) : s[i] = x
      BY QueueElements
    <3>2. i \notin 1 .. n
      BY <2>2, <3>1
    <3>3. i - n \in 1 .. Len(q) /\ n + (i - n) = i
      BY <1>1, <3>2, SMT
    <3>4. q[i - n] = x
      BY <1>1, <3>1, <3>3
    <3> QED
      BY <1>1, <3>3, <3>4, QueueElements
  <2> QED
    BY <2>1, <2>2
<1>3. Distinct(q)
  <2> SUFFICES ASSUME NEW i \in 1 .. Len(q), NEW j \in 1 .. Len(q), q[i] = q[j]
               PROVE  i = j
    BY DEF Distinct
  <2>1. n + i \in 1 .. Len(s) /\ n + j \in 1 .. Len(s) /\ s[n + i] = s[n + j]
    BY <1>1, SMT
  <2>2. n + i = n + j
    BY <2>1 DEF Distinct
  <2> QED
    BY <2>2, SMT
<1> QED
  BY <1>1, <1>2, <1>3 DEF q

\* PopFront takes the first n transfers out.
LEMMA PopFrontOK ==
  ASSUME NEW mp, PoolOK(mp), NEW n \in 0 .. Len(mp.order)
  PROVE  /\ PoolOK(PopFront(mp, n))
         /\ PopFront(mp, n).txs = mp.txs \ {mp.order[i] : i \in 1 .. n}
         /\ PopFront(mp, n).order = SubSeq(mp.order, n + 1, Len(mp.order))
<1> DEFINE q == SubSeq(mp.order, n + 1, Len(mp.order))
           popped == {mp.order[i] : i \in 1 .. n}
<1>1. /\ mp.order \in Seq(Tx) /\ Range(mp.order) = mp.txs /\ Distinct(mp.order)
  BY PoolParts DEF PoolOK
<1>2. q \in Seq(Tx) /\ Range(q) = mp.txs \ popped /\ Distinct(q)
  BY <1>1, QueueRest
<1>3. RemoveTxHashes(mp, popped).order = mp.order
  BY RemovalIndex
<1>4. PopFront(mp, n) = [RemoveTxHashes(mp, popped) EXCEPT !.order = q]
  BY <1>3 DEF PopFront
<1> HIDE DEF q, popped
<1>5. /\ PoolOK([RemoveTxHashes(mp, popped) EXCEPT !.order = q])
      /\ [RemoveTxHashes(mp, popped) EXCEPT !.order = q].txs = mp.txs \ popped
      /\ [RemoveTxHashes(mp, popped) EXCEPT !.order = q].order = q
  BY <1>2, RemovalOK, SMT
<1> QED
  BY <1>4, <1>5 DEF q, popped

\* In particular none, or the head.
LEMMA PopNoneOrHead ==
  ASSUME NEW mp, PoolOK(mp)
  PROVE  /\ PopFront(mp, 0).txs = mp.txs
         /\ Len(mp.order) > 0 => PopFront(mp, 1).txs = mp.txs \ {mp.order[1]}
<1>1. Len(mp.order) \in Nat
  BY PoolParts
<1>2. PopFront(mp, 0).txs = mp.txs
  <2>1. 0 \in 0 .. Len(mp.order)
    BY <1>1, SMT
  <2>2. PopFront(mp, 0).txs = mp.txs \ {mp.order[i] : i \in 1 .. 0}
    BY <2>1, PopFrontOK
  <2>3. {mp.order[i] : i \in 1 .. 0} = {}
    BY SMT
  <2> QED
    BY <2>2, <2>3
<1>3. ASSUME Len(mp.order) > 0
      PROVE  PopFront(mp, 1).txs = mp.txs \ {mp.order[1]}
  <2>1. 1 \in 0 .. Len(mp.order)
    BY <1>1, <1>3, SMT
  <2>2. PopFront(mp, 1).txs = mp.txs \ {mp.order[i] : i \in 1 .. 1}
    BY <2>1, PopFrontOK
  <2>3. {mp.order[i] : i \in 1 .. 1} = {mp.order[1]}
    BY SMT
  <2> QED
    BY <2>2, <2>3
<1> QED
  BY <1>2, <1>3

\* The least member of a set of numbers.
LEMMA MinFacts ==
  ASSUME NEW T, T \subseteq Nat, T # {}
  PROVE  Min(T) \in T /\ \A y \in T : Min(T) <= y
<1>1. \E x \in T : \A y \in T : x <= y
  BY LeastElement
<1> QED
  BY <1>1 DEF Min

\* Eviction: nothing when there is room, else the one oldest transfer.
LEMMA EvictionOK ==
  ASSUME NEW mp, PoolOK(mp)
  PROVE  /\ PoolOK(EvictForRoom(mp))
         /\ ~Full(EvictForRoom(mp))
         /\ ~Full(mp) => EvictForRoom(mp) = PopFront(mp, 0)
         /\ Full(mp) => Len(mp.order) > 0 /\ EvictForRoom(mp) = PopFront(mp, 1)
<1> DEFINE N == Len(mp.order)
           enough == {n \in 0 .. N : ~Full(PopFront(mp, n))}
<1>1. /\ mp.order \in Seq(Tx) /\ Range(mp.order) = mp.txs /\ N \in Nat
      /\ IsFiniteSet(mp.txs) /\ Cardinality(mp.txs) = N /\ N <= Capacity
      /\ Capacity \in Nat \ {0}
  BY PoolParts, CapacityAssumption DEF PoolOK
<1>2. EvictForRoom(mp) = PopFront(mp, IF enough = {} THEN N ELSE Min(enough))
  BY DEF EvictForRoom
<1>3. enough \subseteq Nat
  BY <1>1, SMT
<1>4. CASE ~Full(mp)
  <2>1. PopFront(mp, 0).txs = mp.txs
    BY PopNoneOrHead
  <2>2. 0 \in enough
    BY <1>1, <1>4, <2>1, SMT DEF Full
  <2>3. Min(enough) = 0
    <3> HIDE DEF enough
    <3>1. Min(enough) \in enough /\ Min(enough) <= 0 /\ Min(enough) \in Nat
      BY <1>3, <2>2, MinFacts
    <3> QED
      BY <3>1, SMT
  <2>4. EvictForRoom(mp) = PopFront(mp, 0)
    <3> HIDE DEF enough
    <3> QED
      BY <1>2, <2>2, <2>3
  <2> QED
    BY <1>1, <1>4, <2>2, <2>4, PopFrontOK, SMT
<1>5. CASE Full(mp)
  <2>1. N = Capacity /\ 1 \in 0 .. N /\ 0 \in 0 .. N
    BY <1>1, <1>5, SMT DEF Full
  <2>2. PopFront(mp, 0).txs = mp.txs
    BY PopNoneOrHead
  <2>3. Cardinality(PopFront(mp, 1).txs) = N - 1
    <3>1. PopFront(mp, 1).txs = mp.txs \ {mp.order[1]}
      BY <1>1, <2>1, PopNoneOrHead, SMT
    <3>2. mp.order[1] \in mp.txs
      BY <1>1, <2>1, QueueElements, SMT
    <3>3. Cardinality(mp.txs \ {mp.order[1]}) = N - 1
      <4> DEFINE X == mp.txs
                 x == mp.order[1]
      <4>1. IsFiniteSet(X) /\ x \in X
        BY <1>1, <3>2
      <4> HIDE DEF X, x
      <4>2. Cardinality(X \ {x}) = Cardinality(X) - 1
        BY <4>1, FS_RemoveElement
      <4> QED
        BY <1>1, <4>2 DEF X, x
    <3> QED
      BY <3>1, <3>3
  <2>4. 0 \notin enough /\ 1 \in enough
    BY <1>1, <1>5, <2>1, <2>2, <2>3, SMT DEF Full
  <2>5. Min(enough) = 1
    <3> HIDE DEF enough
    <3>1. Min(enough) \in enough /\ Min(enough) <= 1 /\ Min(enough) \in Nat
      BY <1>3, <2>4, MinFacts
    <3> QED
      BY <2>4, <3>1, SMT
  <2>6. EvictForRoom(mp) = PopFront(mp, 1)
    <3> HIDE DEF enough
    <3> QED
      BY <1>2, <2>4, <2>5
  <2> QED
    BY <1>5, <2>1, <2>4, <2>6, PopFrontOK, SMT
<1> QED
  BY <1>4, <1>5


-----------------------------------------------------------------------------
(***************************************************************************)
(* Submission.                                                             *)
(***************************************************************************)
\* A slot that is not occupied stays so when transfers are removed.
LEMMA SlotStaysFree ==
  ASSUME NEW mp, PoolOK(mp), NEW room, PoolOK(room), room.txs \subseteq mp.txs,
         NEW tx \in Tx, Admissible(mp, tx)
  PROVE  tx \notin room.txs /\ room.by_sender[SlotOf(tx)] = NoTx
<1>1. tx \notin mp.txs /\ SlotOf(tx) \in Slot
  BY SlotFacts DEF Admissible
<1>2. mp.by_sender[SlotOf(tx)] = NoTx
  BY <1>1 DEF Admissible, PoolOK, IndexMirrorsTxs
<1>3. ASSUME room.by_sender[SlotOf(tx)] # NoTx
      PROVE  FALSE
  <2> DEFINE other == room.by_sender[SlotOf(tx)]
  <2>1. other \in room.txs /\ SlotOf(other) = SlotOf(tx)
    BY <1>1, <1>3 DEF PoolOK, IndexMirrorsTxs
  <2>2. mp.by_sender[SlotOf(other)] = other
    BY <2>1 DEF PoolOK, IndexMirrorsTxs
  <2> QED
    BY <1>2, <1>3, <2>1, <2>2
<1> QED
  BY <1>1, <1>3

\* Insertion into a pool with room, at a free slot.
LEMMA InsertOK ==
  ASSUME NEW mp, PoolOK(mp), ~Full(mp), NEW tx \in Tx,
         tx \notin mp.txs, mp.by_sender[SlotOf(tx)] = NoTx
  PROVE  /\ PoolOK(Insert(mp, tx))
         /\ Insert(mp, tx).txs = mp.txs \cup {tx}
         /\ Insert(mp, tx).order = Append(mp.order, tx)
<1> DEFINE p == Insert(mp, tx)
           index == [mp.by_sender EXCEPT ![SlotOf(tx)] = tx]
<1>1. /\ mp.txs \in SUBSET Tx /\ mp.order \in Seq(Tx)
      /\ mp.by_sender \in [Slot -> Tx \cup {NoTx}]
      /\ IsFiniteSet(mp.txs) /\ Cardinality(mp.txs) \in Nat
      /\ Range(mp.order) = mp.txs /\ Distinct(mp.order)
  BY PoolParts DEF PoolOK
<1>2. p = [txs |-> mp.txs \cup {tx}, order |-> Append(mp.order, tx), by_sender |-> index]
  BY DEF Insert
<1>3. SlotOf(tx) \in Slot
  BY SlotFacts
<1>4. /\ Append(mp.order, tx) \in Seq(Tx)
      /\ Range(Append(mp.order, tx)) = mp.txs \cup {tx}
      /\ Distinct(Append(mp.order, tx))
  BY <1>1, QueueAppend, SMT
<1>5. /\ index \in [Slot -> Tx \cup {NoTx}]
      /\ index[SlotOf(tx)] = tx
      /\ \A s \in Slot \ {SlotOf(tx)} : index[s] = mp.by_sender[s]
  BY <1>1, <1>3
<1> HIDE DEF p, index
<1>6. /\ p \in Pools /\ p.txs = mp.txs \cup {tx} /\ p.order = Append(mp.order, tx)
      /\ p.by_sender = index
  BY <1>1, <1>2, <1>4, <1>5 DEF Pools
<1>7. IndexMirrorsTxs(p)
  <2>1. ASSUME NEW t \in mp.txs \cup {tx}
        PROVE  index[SlotOf(t)] = t
    <3>1. CASE t = tx
      BY <1>5, <3>1
    <3>2. CASE t # tx
      <4>1. t \in Tx /\ SlotOf(t) \in Slot /\ mp.by_sender[SlotOf(t)] = t
        BY <1>1, <3>2, SlotFacts DEF PoolOK, IndexMirrorsTxs
      <4>2. SlotOf(t) # SlotOf(tx)
        BY <4>1, NoTxAssumption
      <4> QED
        BY <1>5, <4>1, <4>2
    <3> QED
      BY <3>1, <3>2
  <2>2. ASSUME NEW s \in Slot, index[s] # NoTx
        PROVE  index[s] \in mp.txs \cup {tx} /\ SlotOf(index[s]) = s
    <3>1. CASE s = SlotOf(tx)
      BY <1>5, <3>1
    <3>2. CASE s # SlotOf(tx)
      BY <1>5, <2>2, <3>2, SMT DEF PoolOK, IndexMirrorsTxs
    <3> QED
      BY <3>1, <3>2
  <2> QED
    BY <1>6, <2>1, <2>2 DEF IndexMirrorsTxs
<1>8. WithinCapacity(p)
  <2> DEFINE X == mp.txs
  <2>1. Cardinality(X) < Capacity /\ IsFiniteSet(X) /\ tx \notin X /\ Cardinality(X) \in Nat
    BY <1>1, CapacityAssumption, SMT DEF Full
  <2> HIDE DEF X
  <2>2. Cardinality(X \cup {tx}) = Cardinality(X) + 1
    BY <2>1, FS_AddElement
  <2>3. Cardinality(X \cup {tx}) <= Capacity
    BY <2>1, <2>2, CapacityAssumption, SMT
  <2> QED
    BY <1>6, <2>3 DEF WithinCapacity, X
<1> QED
  BY <1>4, <1>6, <1>7, <1>8 DEF PoolOK, p

\* try_submit keeps the pool consistent: a refused transfer changes nothing, an
\* accepted one is added, and only when the pool is full does the head of the
\* queue make room for it.
THEOREM SubmissionKeepsPool ==
  ASSUME NEW mp, PoolOK(mp), NEW tx \in Tx
  PROVE  /\ PoolOK(try_submit(mp, tx))
         /\ \/ mp.txs \subseteq try_submit(mp, tx).txs
            \/ /\ Full(mp)
               /\ mp.txs \ {Head(mp.order)} \subseteq try_submit(mp, tx).txs
               /\ try_submit(mp, tx).order = Append(Tail(mp.order), tx)
<1>1. CASE ~Admissible(mp, tx)
  BY <1>1 DEF try_submit
<1>2. CASE Admissible(mp, tx)
  <2> DEFINE room == EvictForRoom(mp)
  <2>1. /\ PoolOK(room) /\ ~Full(room)
        /\ ~Full(mp) => room = PopFront(mp, 0)
        /\ Full(mp) => Len(mp.order) > 0 /\ room = PopFront(mp, 1)
    BY EvictionOK
  <2>2. try_submit(mp, tx) = Insert(room, tx)
    BY <1>2, <2>1 DEF try_submit
  <2> HIDE DEF room
  <2>3. /\ ~Full(mp) => room.txs = mp.txs
        /\ Full(mp) => room.txs = mp.txs \ {mp.order[1]}
    BY <2>1, PopNoneOrHead
  <2>4. tx \notin room.txs /\ room.by_sender[SlotOf(tx)] = NoTx
    BY <1>2, <2>1, <2>3, SlotStaysFree
  <2>5. /\ PoolOK(Insert(room, tx))
        /\ Insert(room, tx).txs = room.txs \cup {tx}
        /\ Insert(room, tx).order = Append(room.order, tx)
    BY <2>1, <2>4, InsertOK
  <2>6. CASE ~Full(mp)
    BY <2>2, <2>3, <2>5, <2>6
  <2>7. CASE Full(mp)
    <3>1. mp.order \in Seq(Tx) /\ Len(mp.order) > 0 /\ 1 \in 0 .. Len(mp.order)
      BY <2>1, <2>7, PoolParts, SMT
    <3>2. room.order = SubSeq(mp.order, 2, Len(mp.order))
      <4>1. PopFront(mp, 1).order = SubSeq(mp.order, 1 + 1, Len(mp.order))
        BY <3>1, PopFrontOK
      <4> QED
        BY <2>1, <2>7, <4>1, SMT
    <3>3. mp.order # <<>> /\ Head(mp.order) = mp.order[1]
      BY <3>1, SMT
    <3>4. Tail(mp.order) = SubSeq(mp.order, 2, Len(mp.order))
      BY <3>1, <3>3, SMT
    <3> QED
      BY <2>2, <2>3, <2>5, <2>7, <3>2, <3>3, <3>4
  <2> QED
    BY <2>6, <2>7
<1> QED
  BY <1>1, <1>2


-----------------------------------------------------------------------------
(***************************************************************************)
(* Hygiene drops only what cannot run next on the ledger it looks at.      *)
(***************************************************************************)
\* What the two passes drop does not apply.
LEMMA NonviableFails ==
  ASSUME NEW st \in Ledgers, NEW tx \in Tx, StaleNonce(st, tx) \/ NonviableHead(st, tx)
  PROVE  ~Applies(st, tx)
<1> SUFFICES ASSUME Applies(st, tx)
             PROVE  FALSE
  OBVIOUS
<1>1. tx.sender \in Addr /\ tx.nonce \in Nat
  BY TxFields
<1>2. st[tx.sender] \in Account
  BY <1>1 DEF Applies, Ledgers
<1>3. st[tx.sender].nonce = tx.nonce /\ ~StaleNonce(st, tx)
  BY <1>1, SMT DEF Applies, StaleNonce
<1>4. st[tx.sender].balance \in Nat /\ Cost(tx) \in Nat
  BY <1>2, TxFields, MaxU64Assumption, SMT DEF Account, U64
<1>5. /\ basic_validate(tx) /\ st[tx.sender] # NoAccount
      /\ Cost(tx) \in U64 /\ st[tx.sender].balance >= Cost(tx)
  BY DEF Applies
<1>6. NonviableHead(st, tx)
  BY <1>3
<1> QED
  BY <1>3, <1>4, <1>5, <1>6, SMT DEF NonviableHead

\* The purge pops a prefix of the queue, all of it nonviable.
LEMMA PurgeOK ==
  ASSUME NEW mp, PoolOK(mp), NEW st \in Ledgers
  PROVE  /\ PoolOK(purge_nonviable_under_committed_state(mp, st))
         /\ purge_nonviable_under_committed_state(mp, st).txs \subseteq mp.txs
         /\ \A tx \in mp.txs \ purge_nonviable_under_committed_state(mp, st).txs :
              ~Applies(st, tx)
<1> DEFINE N == Len(mp.order)
           stops == {i \in DOMAIN mp.order :
                       mp.order[i] \in mp.txs /\ ~NonviableHead(st, mp.order[i])}
           n == IF stops = {} THEN N ELSE Min(stops) - 1
           popped == {mp.order[i] : i \in 1 .. n}
<1>1. /\ mp.order \in Seq(Tx) /\ mp.txs \in SUBSET Tx /\ Range(mp.order) = mp.txs
      /\ N \in Nat /\ DOMAIN mp.order = 1 .. N
  BY PoolParts, SMT DEF PoolOK
<1>2. purge_nonviable_under_committed_state(mp, st) = PopFront(mp, n)
  BY DEF purge_nonviable_under_committed_state
<1>3. stops \subseteq 1 .. N /\ stops \subseteq Nat
  BY <1>1, SMT
<1>4. \A i \in 1 .. N : i \notin stops => NonviableHead(st, mp.order[i])
  BY <1>1, QueueElements
<1> HIDE DEF stops, N
<1>5. n \in 0 .. N /\ \A i \in 1 .. n : i \in 1 .. N /\ i \notin stops
  <2>1. CASE stops = {}
    BY <1>1, <2>1, SMT
  <2>2. CASE stops # {}
    <3>1. Min(stops) \in stops /\ Min(stops) \in 1 .. N /\ \A y \in stops : Min(stops) <= y
      BY <1>3, <2>2, MinFacts
    <3>2. n = Min(stops) - 1
      BY <2>2
    <3> HIDE DEF n
    <3> QED
      BY <1>1, <3>1, <3>2, SMT
  <2> QED
    BY <2>1, <2>2
<1> HIDE DEF n
<1>6. PoolOK(PopFront(mp, n)) /\ PopFront(mp, n).txs = mp.txs \ popped
  BY <1>5, PopFrontOK DEF N
<1>7. ASSUME NEW tx \in mp.txs \ PopFront(mp, n).txs
      PROVE  ~Applies(st, tx)
  <2>1. PICK i \in 1 .. n : tx = mp.order[i]
    BY <1>6
  <2>2. NonviableHead(st, tx) /\ tx \in Tx
    BY <1>1, <1>4, <1>5, <2>1
  <2> QED
    BY <2>2, NonviableFails
<1> QED
  BY <1>2, <1>6, <1>7

\* The stale nonces behind the head go too.
LEMMA DropStaleOK ==
  ASSUME NEW mp, PoolOK(mp), NEW st \in Ledgers
  PROVE  /\ PoolOK(drop_stale_nonces_vs_committed(mp, st))
         /\ drop_stale_nonces_vs_committed(mp, st).txs \subseteq mp.txs
         /\ \A tx \in mp.txs \ drop_stale_nonces_vs_committed(mp, st).txs :
              ~Applies(st, tx)
<1> DEFINE gone == {tx \in mp.txs : StaleNonce(st, tx)}
<1>1. drop_stale_nonces_vs_committed(mp, st) = remove_by_tx_hashes(mp, gone)
  BY DEF drop_stale_nonces_vs_committed
<1>2. mp.txs \in SUBSET Tx
  BY PoolParts
<1>3. \A tx \in gone : tx \in Tx /\ StaleNonce(st, tx)
  BY <1>2
<1> HIDE DEF gone
<1>4. /\ PoolOK(remove_by_tx_hashes(mp, gone))
      /\ remove_by_tx_hashes(mp, gone).txs = mp.txs \ gone
  BY RemoveByHashesOK
<1>5. \A tx \in gone : ~Applies(st, tx)
  BY <1>3, NonviableFails
<1> QED
  BY <1>1, <1>4, <1>5

\* Two transfers of a consistent pool never share a slot ...
LEMMA SlotsAreDistinct ==
  ASSUME NEW mp, PoolOK(mp),
         NEW i \in 1 .. Len(mp.order), NEW j \in 1 .. Len(mp.order),
         SlotOf(mp.order[i]) = SlotOf(mp.order[j])
  PROVE  i = j
<1>1. mp.order[i] \in mp.txs /\ mp.order[j] \in mp.txs
  BY PoolParts, QueueElements, SMT DEF PoolOK
<1>2. mp.order[i] = mp.order[j]
  BY <1>1, SMT DEF PoolOK, IndexMirrorsTxs
<1> QED
  BY <1>2 DEF PoolOK, Distinct

\* ... so the pass that looks for later copies of a slot finds none.
LEMMA DropLaterOK ==
  ASSUME NEW mp, PoolOK(mp)
  PROVE  /\ PoolOK(drop_later_sender_nonce_conflicts_keep_fifo_first(mp))
         /\ drop_later_sender_nonce_conflicts_keep_fifo_first(mp).txs = mp.txs
<1> DEFINE live == {i \in DOMAIN mp.order : mp.order[i] \in mp.txs}
           later == {j \in live : \E i \in live :
                       i < j /\ SlotOf(mp.order[i]) = SlotOf(mp.order[j])}
           gone == {mp.order[j] : j \in later}
           rest == RemoveTxHashes(mp, gone)
           q == Retain(rest.order, rest.txs)
<1>1. /\ mp.order \in Seq(Tx) /\ Range(mp.order) = mp.txs /\ Distinct(mp.order)
      /\ Len(mp.order) \in Nat /\ DOMAIN mp.order = 1 .. Len(mp.order)
  BY PoolParts, SMT DEF PoolOK
<1>2. drop_later_sender_nonce_conflicts_keep_fifo_first(mp) = [rest EXCEPT !.order = q]
  BY DEF drop_later_sender_nonce_conflicts_keep_fifo_first
<1>3. live \subseteq 1 .. Len(mp.order)
  BY <1>1
<1> HIDE DEF live
<1>4. later = {}
  <2> SUFFICES ASSUME NEW j \in later
               PROVE  FALSE
    OBVIOUS
  <2>1. PICK i \in live : i < j /\ SlotOf(mp.order[i]) = SlotOf(mp.order[j])
    OBVIOUS
  <2>2. j \in live
    OBVIOUS
  <2>3. i = j
    BY <1>3, <2>1, <2>2, SlotsAreDistinct
  <2> QED
    BY <1>1, <1>3, <2>1, <2>2, <2>3, SMT
<1>5. gone = {}
  <2> HIDE DEF later
  <2> QED
    BY <1>4
<1> HIDE DEF gone
<1>6. rest.txs = mp.txs /\ rest.order = mp.order
  <2>1. rest.txs = mp.txs \ gone /\ rest.order = mp.order
    BY RemovalIndex
  <2> HIDE DEF rest
  <2> QED
    BY <1>5, <2>1
<1>7. q \in Seq(Tx) /\ Range(q) = mp.txs \ gone /\ Distinct(q)
  <2> HIDE DEF rest
  <2>1. q = Retain(mp.order, mp.txs)
    BY <1>6
  <2> HIDE DEF q
  <2>2. q \in Seq(Tx) /\ Range(q) = mp.txs \cap mp.txs /\ Distinct(q)
    BY <1>1, <2>1, RetainFacts
  <2> QED
    BY <1>5, <2>2
<1> HIDE DEF q
<1>8. /\ PoolOK([rest EXCEPT !.order = q])
      /\ [rest EXCEPT !.order = q].txs = mp.txs \ gone
  BY <1>7, RemovalOK
<1> QED
  BY <1>2, <1>5, <1>8

\* hygiene_vs_committed_ledger: its three passes keep the pool consistent and drop
\* no transfer that the committed ledger could execute.
THEOREM HygieneKeepsExecutable ==
  ASSUME NEW mp, PoolOK(mp), NEW st \in Ledgers
  PROVE  /\ PoolOK(hygiene_vs_committed_ledger(mp, st))
         /\ hygiene_vs_committed_ledger(mp, st).txs \subseteq mp.txs
         /\ \A tx \in mp.txs \ hygiene_vs_committed_ledger(mp, st).txs :
              ~Applies(st, tx)
<1> DEFINE p1 == purge_nonviable_under_committed_state(mp, st)
           p2 == drop_stale_nonces_vs_committed(p1, st)
           p3 == drop_later_sender_nonce_conflicts_keep_fifo_first(p2)
<1>1. hygiene_vs_committed_ledger(mp, st) = p3
  BY DEF hygiene_vs_committed_ledger
<1>2. PoolOK(p1) /\ p1.txs \subseteq mp.txs /\ \A tx \in mp.txs \ p1.txs : ~Applies(st, tx)
  BY PurgeOK
<1> HIDE DEF p1
<1>3. PoolOK(p2) /\ p2.txs \subseteq p1.txs /\ \A tx \in p1.txs \ p2.txs : ~Applies(st, tx)
  BY <1>2, DropStaleOK
<1> HIDE DEF p2
<1>4. PoolOK(p3) /\ p3.txs = p2.txs
  BY <1>3, DropLaterOK
<1> HIDE DEF p3
<1> QED
  BY <1>1, <1>2, <1>3, <1>4


-----------------------------------------------------------------------------
(***************************************************************************)
(* The snapshot a failed drain goes back to, and the empty pool.           *)
(***************************************************************************)
\* A list of transfers that can be a pool.
FifoOK(fifo) ==
  /\ fifo \in Seq(Tx)
  /\ Distinct(fifo)
  /\ \A i, j \in 1 .. Len(fifo) : SlotOf(fifo[i]) = SlotOf(fifo[j]) => i = j
  /\ Len(fifo) <= Capacity

\* The snapshot of a consistent pool is one, with the transfers of the pool.
LEMMA CloneOK ==
  ASSUME NEW mp, PoolOK(mp)
  PROVE  FifoOK(clone_fifo(mp)) /\ Range(clone_fifo(mp)) = mp.txs
<1> DEFINE fifo == clone_fifo(mp)
<1>1. /\ mp.order \in Seq(Tx) /\ Range(mp.order) = mp.txs /\ Distinct(mp.order)
      /\ Cardinality(mp.txs) <= Capacity
  BY PoolParts DEF PoolOK
<1>2. fifo \in Seq(Tx) /\ Range(fifo) = mp.txs \cap mp.txs /\ Distinct(fifo)
  BY <1>1, RetainFacts DEF clone_fifo
<1> HIDE DEF fifo
<1>3. Range(fifo) = mp.txs
  BY <1>2
<1>4. Len(fifo) <= Capacity
  BY <1>1, <1>2, <1>3, QueueLength
<1>5. ASSUME NEW i \in 1 .. Len(fifo), NEW j \in 1 .. Len(fifo),
             SlotOf(fifo[i]) = SlotOf(fifo[j])
      PROVE  i = j
  <2>1. fifo[i] \in mp.txs /\ fifo[j] \in mp.txs
    BY <1>2, <1>3, QueueElements
  <2>2. fifo[i] = fifo[j]
    BY <1>5, <2>1, SMT DEF PoolOK, IndexMirrorsTxs
  <2> QED
    BY <1>2, <2>2 DEF Distinct
<1> QED
  BY <1>2, <1>3, <1>4, <1>5 DEF FifoOK, fifo

\* The greatest member of a set of one number.
LEMMA MaxOfOne ==
  ASSUME NEW i \in Nat
  PROVE  Max({i}) = i
BY SMT DEF Max

\* restore_fifo rebuilds a consistent pool from it.
LEMMA RestoreOK ==
  ASSUME NEW fifo, FifoOK(fifo)
  PROVE  PoolOK(restore_fifo(fifo)) /\ restore_fifo(fifo).txs = Range(fifo)
<1> DEFINE inSlot(s) == {i \in DOMAIN fifo : SlotOf(fifo[i]) = s}
           At(s) == IF inSlot(s) = {} THEN NoTx ELSE fifo[Max(inSlot(s))]
           index == [s \in Slot |-> At(s)]
           p == restore_fifo(fifo)
<1>1. /\ fifo \in Seq(Tx) /\ Distinct(fifo) /\ Len(fifo) \in Nat
      /\ DOMAIN fifo = 1 .. Len(fifo)
      /\ Range(fifo) \in SUBSET Tx
  BY QueueElements, SMT DEF FifoOK
<1>2. p = [txs |-> Range(fifo), order |-> fifo, by_sender |-> index]
  BY DEF restore_fifo
<1>3. ASSUME NEW i \in 1 .. Len(fifo)
      PROVE  At(SlotOf(fifo[i])) = fifo[i]
  <2>1. inSlot(SlotOf(fifo[i])) = {i}
    BY <1>1 DEF FifoOK
  <2> HIDE DEF inSlot
  <2>2. Max(inSlot(SlotOf(fifo[i]))) = i
    BY <2>1, MaxOfOne, SMT
  <2> QED
    BY <2>1, <2>2
<1>4. ASSUME NEW s \in Slot
      PROVE  \/ At(s) = NoTx
             \/ \E i \in 1 .. Len(fifo) : At(s) = fifo[i] /\ SlotOf(fifo[i]) = s
  <2>1. CASE inSlot(s) = {}
    <3> HIDE DEF inSlot
    <3> QED
      BY <2>1
  <2>2. CASE inSlot(s) # {}
    <3>1. PICK i \in 1 .. Len(fifo) : SlotOf(fifo[i]) = s
      BY <1>1, <2>2
    <3> HIDE DEF At
    <3> QED
      BY <1>3, <3>1
  <2> QED
    BY <2>1, <2>2
<1> HIDE DEF At
<1>5. index \in [Slot -> Tx \cup {NoTx}] /\ \A s \in Slot : index[s] = At(s)
  BY <1>1, <1>4, SMT
<1> HIDE DEF index, p
<1>6. /\ p \in Pools /\ p.txs = Range(fifo) /\ p.order = fifo /\ p.by_sender = index
  BY <1>1, <1>2, <1>5 DEF Pools
<1>7. IndexMirrorsTxs(p)
  <2>1. ASSUME NEW tx \in Range(fifo)
        PROVE  index[SlotOf(tx)] = tx
    <3>1. PICK i \in 1 .. Len(fifo) : fifo[i] = tx
      BY <1>1, QueueElements
    <3>2. SlotOf(tx) \in Slot
      BY <1>1, SlotFacts
    <3> QED
      BY <1>3, <1>5, <3>1, <3>2
  <2>2. ASSUME NEW s \in Slot, index[s] # NoTx
        PROVE  index[s] \in Range(fifo) /\ SlotOf(index[s]) = s
    BY <1>1, <1>4, <1>5, <2>2, QueueElements, SMT
  <2> QED
    BY <1>6, <2>1, <2>2 DEF IndexMirrorsTxs
<1>8. WithinCapacity(p)
  BY <1>1, <1>6, QueueLength DEF WithinCapacity, FifoOK
<1> QED
  BY <1>1, <1>6, <1>7, <1>8 DEF PoolOK, p

\* A node starts with an empty pool.
LEMMA EmptyPoolOK ==
  PoolOK(EmptyPool) /\ EmptyPool.txs = {} /\ FifoOK(<<>>)
<1>1. EmptyPool \in Pools
  BY SMT DEF EmptyPool, Pools
<1>2. Range(<<>>) = {} /\ Distinct(<<>>)
  BY SMT DEF Range, Distinct
<1>3. EmptyPool.txs = {} /\ EmptyPool.order = <<>> /\ \A s \in Slot : EmptyPool.by_sender[s] = NoTx
  BY DEF EmptyPool
<1>4. IndexMirrorsTxs(EmptyPool)
  BY <1>3 DEF IndexMirrorsTxs
<1>5. WithinCapacity(EmptyPool)
  BY <1>3, FS_EmptySet, CapacityAssumption, SMT DEF WithinCapacity
<1> QED
  BY <1>1, <1>2, <1>3, <1>4, <1>5, CapacityAssumption, SMT DEF PoolOK, FifoOK


-----------------------------------------------------------------------------
(***************************************************************************)
(* Selection.                                                              *)
(***************************************************************************)
Selections == [ledger : Ledgers, out : Seq(Tx), err : BOOLEAN]

\* One visit takes the transfer, as the last one, or takes nothing.
LEMMA VisitFacts ==
  ASSUME NEW mp, NEW acc \in Selections, NEW tx \in Tx
  PROVE  /\ Visit(mp, acc, tx) \in Selections
         /\ Visit(mp, acc, tx).out \in {acc.out, Append(acc.out, tx)}
<1>1. acc.ledger \in Ledgers /\ acc.out \in Seq(Tx) /\ acc.err \in BOOLEAN
  BY DEF Selections
<1>2. CASE Skipped(mp, acc, tx)
  BY <1>2 DEF Visit
<1>3. CASE ~Skipped(mp, acc, tx) /\ Applies(acc.ledger, tx)
  <2> DEFINE st == apply_transaction(acc.ledger, tx)
  <2>1. st \in Ledgers
    BY <1>1, <1>3, ApplyType
  <2>2. Visit(mp, acc, tx) = [ledger |-> st, out |-> Append(acc.out, tx), err |-> FALSE]
    BY <1>3 DEF Visit
  <2> HIDE DEF st
  <2> QED
    BY <1>1, <2>1, <2>2, SMT DEF Selections
<1>4. CASE ~Skipped(mp, acc, tx) /\ ~Applies(acc.ledger, tx)
  BY <1>4 DEF Visit, Selections
<1> QED
  BY <1>2, <1>3, <1>4

\* ordered_candidates_for_seal(pool, st) is the end of a walk of visits.
IsSelection(walk, mp, st) ==
  /\ walk \in [0 .. Len(mp.order) -> Selections]
  /\ walk[0] = [ledger |-> st, out |-> <<>>, err |-> FALSE]
  /\ \A n \in 1 .. Len(mp.order) : walk[n] = Visit(mp, walk[n - 1], mp.order[n])
  /\ ordered_candidates_for_seal(mp, st) = walk[Len(mp.order)]

\* There is such a walk.
LEMMA SelectionWalk ==
  ASSUME NEW mp, mp.order \in Seq(Tx), NEW st \in Ledgers
  PROVE  \E walk : IsSelection(walk, mp, st)
<1> DEFINE N == Len(mp.order)
           b == [ledger |-> st, out |-> <<>>, err |-> FALSE]
           Step(acc, n) == Visit(mp, acc, mp.order[n])
           F == [p \in Selections \X (1 .. N) |-> Step(p[1], p[2])]
           P(f) == f = [n \in 0 .. N |-> IF n = 0 THEN b ELSE Step(f[n - 1], n)]
           walk == CHOOSE f : P(f)
<1>1. ordered_candidates_for_seal(mp, st) = walk[N]
  BY DEF ordered_candidates_for_seal, SelectFrom
<1>2. N \in Nat /\ \A n \in 1 .. N : mp.order[n] \in Tx
  BY SMT
<1>3. b \in Selections
  BY SMT DEF Selections
<1>4. \A acc \in Selections, n \in 1 .. N : Step(acc, n) \in Selections
  BY <1>2, VisitFacts
<1> HIDE DEF Step, b, N
<1>5. F \in [Selections \X (1 .. N) -> Selections]
  BY <1>4
<1>6. PICK f : Solves(f, N, Selections, b, F)
  <2> HIDE DEF F
  <2> QED
    BY <1>2, <1>3, <1>5, RecursionExists
<1>7. /\ f \in [0 .. N -> Selections]
      /\ f[0] = b
      /\ \A n \in 1 .. N : f[n] = F[<<f[n - 1], n>>]
  <2> HIDE DEF F
  <2> QED
    BY <1>6 DEF Solves
<1>8. ASSUME NEW n \in 1 .. N
      PROVE  f[n] = Step(f[n - 1], n)
  <2>1. f[n - 1] \in Selections
    <3> HIDE DEF F
    <3> QED
      BY <1>2, <1>7, SMT
  <2> QED
    BY <1>7, <2>1
<1> HIDE DEF F
<1>9. P(f)
  <2>1. \A n \in 0 .. N : f[n] = IF n = 0 THEN b ELSE Step(f[n - 1], n)
    BY <1>2, <1>7, <1>8, SMT
  <2> QED
    BY <1>7, <2>1
<1>10. P(walk)
  <2> HIDE DEF P
  <2> QED
    BY <1>9
<1> HIDE DEF walk
<1>11. walk[0] = b /\ \A n \in 1 .. N : walk[n] = Step(walk[n - 1], n)
  BY <1>2, <1>10, SMT
<1> DEFINE T == {n \in 0 .. N : walk[n] \in Selections}
<1>12. \A n \in 0 .. N : n \in T
  <2>1. 0 \in T
    BY <1>2, <1>3, <1>11, SMT
  <2>2. ASSUME NEW n \in 1 .. N, n - 1 \in T
        PROVE  n \in T
    BY <1>2, <1>4, <1>11, <2>2, SMT
  <2> HIDE DEF T
  <2> QED
    BY <1>2, <2>1, <2>2, InductionUpTo
<1>13. walk \in [0 .. N -> Selections]
  BY <1>10, <1>12
<1> QED
  BY <1>1, <1>11, <1>13 DEF IsSelection, N, b, Step

\* ordered_candidates_for_seal: the transfers selected are in the pool, and two of
\* them stand in the block as they stand in the queue.
THEOREM SelectionInOrder ==
  ASSUME NEW mp, PoolOK(mp), NEW st \in Ledgers
  PROVE  LET out == ordered_candidates_for_seal(mp, st).out
         IN  /\ out \in Seq(Tx)
             /\ Range(out) \subseteq mp.txs
             /\ \A k, l \in 1 .. Len(out), i, j \in 1 .. Len(mp.order) :
                  k < l /\ mp.order[i] = out[k] /\ mp.order[j] = out[l] => i < j
<1> DEFINE order == mp.order
           N == Len(order)
<1>1. order \in Seq(Tx) /\ Distinct(order) /\ Range(order) = mp.txs /\ N \in Nat
  BY PoolParts DEF PoolOK
<1>2. PICK walk : IsSelection(walk, mp, st)
  BY <1>1, SelectionWalk
<1>3. /\ walk[0] = [ledger |-> st, out |-> <<>>, err |-> FALSE]
      /\ \A n \in 1 .. N : walk[n] = Visit(mp, walk[n - 1], order[n])
      /\ \A n \in 0 .. N : walk[n] \in Selections /\ walk[n].out \in Seq(Tx)
      /\ ordered_candidates_for_seal(mp, st) = walk[N]
  BY <1>2 DEF IsSelection, Selections
<1>4. \A i, j \in 1 .. N : order[i] = order[j] => i = j
  BY <1>1 DEF Distinct
<1>5. \A i \in 1 .. N : order[i] \in Tx
  BY <1>1, SMT
<1> HIDE DEF order, N
<1> DEFINE Found(n) == \A k \in 1 .. Len(walk[n].out) :
                         \E i \in 1 .. n : order[i] = walk[n].out[k]
           Sorted(n) == \A k, l \in 1 .. Len(walk[n].out), i, j \in 1 .. N :
                          k < l /\ order[i] = walk[n].out[k] /\ order[j] = walk[n].out[l]
                            => i < j
           T == {n \in 0 .. N : Found(n) /\ Sorted(n)}
<1>6. 0 \in T
  <2>1. Len(walk[0].out) = 0
    BY <1>3, SMT
  <2> QED
    BY <1>1, <2>1, SMT
<1>7. ASSUME NEW n \in 1 .. N, n - 1 \in T
      PROVE  n \in T
  <2> DEFINE old == walk[n - 1].out
             new == walk[n].out
             tx == order[n]
  <2>1. n - 1 \in 0 .. N /\ n \in 0 .. N
    BY <1>1, SMT
  <2>2. old \in Seq(Tx) /\ new \in {old, Append(old, tx)} /\ tx \in Tx
    BY <1>3, <1>5, <2>1, VisitFacts
  <2>3. \A k \in 1 .. Len(old) : \E i \in 1 .. n - 1 : order[i] = old[k]
    BY <1>7
  <2>4. \A k, l \in 1 .. Len(old), i, j \in 1 .. N :
          k < l /\ order[i] = old[k] /\ order[j] = old[l] => i < j
    BY <1>7
  <2> HIDE DEF old, new, tx
  <2>5. CASE new = old
    <3>1. \A k \in 1 .. Len(new) : \E i \in 1 .. n : order[i] = new[k]
      BY <1>1, <2>3, <2>5, SMT
    <3>2. \A k, l \in 1 .. Len(new), i, j \in 1 .. N :
            k < l /\ order[i] = new[k] /\ order[j] = new[l] => i < j
      BY <2>4, <2>5
    <3> QED
      BY <2>1, <3>1, <3>2 DEF new
  <2>6. CASE new = Append(old, tx)
    <3>1. /\ Len(old) \in Nat /\ Len(new) = Len(old) + 1 /\ new[Len(old) + 1] = tx
          /\ \A k \in 1 .. Len(old) : new[k] = old[k]
      BY <2>2, <2>6, SMT
    <3>2. ASSUME NEW k \in 1 .. Len(new)
          PROVE  \E i \in 1 .. n : order[i] = new[k]
      <4>1. CASE k \in 1 .. Len(old)
        BY <1>1, <2>3, <3>1, <4>1, SMT
      <4>2. CASE k = Len(old) + 1
        BY <1>1, <3>1, <4>2, SMT DEF tx
      <4> QED
        BY <3>1, <4>1, <4>2, SMT
    <3>3. ASSUME NEW k \in 1 .. Len(new), NEW l \in 1 .. Len(new),
                 NEW i \in 1 .. N, NEW j \in 1 .. N,
                 k < l, order[i] = new[k], order[j] = new[l]
          PROVE  i < j
      <4>1. k \in 1 .. Len(old)
        BY <3>1, <3>3, SMT
      <4>2. CASE l \in 1 .. Len(old)
        BY <2>4, <3>1, <3>3, <4>1, <4>2
      <4>3. CASE l = Len(old) + 1
        <5>1. j = n
          BY <1>4, <3>1, <3>3, <4>3 DEF tx
        <5>2. PICK h \in 1 .. n - 1 : order[h] = old[k]
          BY <2>3, <4>1
        <5>3. h = i
          <6>1. h \in 1 .. N /\ order[h] = order[i]
            BY <1>1, <3>1, <3>3, <4>1, <5>2, SMT
          <6> QED
            BY <1>4, <6>1
        <5> QED
          BY <1>1, <5>1, <5>3, SMT
      <4> QED
        BY <3>1, <4>2, <4>3, SMT
    <3> QED
      BY <2>1, <3>2, <3>3 DEF new
  <2> QED
    BY <2>2, <2>5, <2>6
<1>8. Found(N) /\ Sorted(N)
  <2> HIDE DEF T
  <2>1. \A n \in 0 .. N : n \in T
    BY <1>1, <1>6, <1>7, InductionUpTo
  <2>2. N \in T
    BY <1>1, <2>1, SMT
  <2> QED
    BY <2>2 DEF T
<1> DEFINE out == walk[N].out
<1>9. out \in Seq(Tx)
  BY <1>1, <1>3, SMT
<1>10. \A k \in 1 .. Len(out) : out[k] \in mp.txs
  <2>1. \A i \in 1 .. N : order[i] \in mp.txs
    BY <1>1, QueueElements DEF N
  <2>2. \A k \in 1 .. Len(out) : \E i \in 1 .. N : order[i] = out[k]
    BY <1>8
  <2> QED
    BY <2>1, <2>2
<1> HIDE DEF out
<1>11. Range(out) \subseteq mp.txs
  BY <1>9, <1>10, QueueElements, SMT
<1> QED
  BY <1>3, <1>8, <1>9, <1>11 DEF out, order, N

-----------------------------------------------------------------------------
(***************************************************************************)
(* Replay of a chain from genesis.                                         *)
(***************************************************************************)
\* rebuild_state_from_genesis(blocks) is the end of a run over the blocks.
IsReplay(run, blocks) ==
  /\ run \in [0 .. Len(blocks) -> Results]
  /\ run[0] = [ok |-> TRUE, ledger |-> Genesis]
  /\ \A h \in 1 .. Len(blocks) : run[h] = ReplayNext(run[h - 1], blocks[h])
  /\ rebuild_state_from_genesis(blocks) = run[Len(blocks)]

\* One block.
LEMMA ReplayNextType ==
  ASSUME NEW acc \in Results, NEW b \in Block
  PROVE  ReplayNext(acc, b) \in Results
<1>1. acc.ledger \in Ledgers /\ b.txs \in Seq(Tx)
  BY DEF Results, Block
<1>2. ApplyAll(acc.ledger, b.txs) \in Results
  BY <1>1, ApplyAllType
<1> QED
  BY <1>2 DEF ReplayNext

\* There is such a run.
LEMMA ReplayRun ==
  ASSUME NEW blocks \in Seq(Block)
  PROVE  \E run : IsReplay(run, blocks)
<1> DEFINE N == Len(blocks)
           b == [ok |-> TRUE, ledger |-> Genesis]
           Step(acc, n) == ReplayNext(acc, blocks[n])
           F == [p \in Results \X (1 .. N) |-> Step(p[1], p[2])]
           P(f) == f = [h \in 0 .. N |-> IF h = 0 THEN b ELSE Step(f[h - 1], h)]
           run == CHOOSE f : P(f)
<1>1. rebuild_state_from_genesis(blocks) = run[N]
  BY DEF rebuild_state_from_genesis
<1>2. N \in Nat /\ \A n \in 1 .. N : blocks[n] \in Block
  BY SMT
<1>3. b \in Results
  BY GenesisAssumption DEF Results
<1>4. \A acc \in Results, n \in 1 .. N : Step(acc, n) \in Results
  BY <1>2, ReplayNextType
<1> HIDE DEF Step, b, N
<1>5. F \in [Results \X (1 .. N) -> Results]
  BY <1>4
<1>6. PICK f : Solves(f, N, Results, b, F)
  <2> HIDE DEF F
  <2> QED
    BY <1>2, <1>3, <1>5, RecursionExists
<1>7. /\ f \in [0 .. N -> Results]
      /\ f[0] = b
      /\ \A n \in 1 .. N : f[n] = F[<<f[n - 1], n>>]
  <2> HIDE DEF F
  <2> QED
    BY <1>6 DEF Solves
<1>8. ASSUME NEW n \in 1 .. N
      PROVE  f[n] = Step(f[n - 1], n)
  <2>1. f[n - 1] \in Results
    <3> HIDE DEF F
    <3> QED
      BY <1>2, <1>7, SMT
  <2> QED
    BY <1>7, <2>1
<1> HIDE DEF F
<1>9. P(f)
  <2>1. \A n \in 0 .. N : f[n] = IF n = 0 THEN b ELSE Step(f[n - 1], n)
    BY <1>2, <1>7, <1>8, SMT
  <2> QED
    BY <1>7, <2>1
<1>10. P(run)
  <2> HIDE DEF P
  <2> QED
    BY <1>9
<1> HIDE DEF run
<1>11. run[0] = b /\ \A n \in 1 .. N : run[n] = Step(run[n - 1], n)
  BY <1>2, <1>10, SMT
<1> DEFINE T == {n \in 0 .. N : run[n] \in Results}
<1>12. \A n \in 0 .. N : n \in T
  <2>1. 0 \in T
    BY <1>2, <1>3, <1>11, SMT
  <2>2. ASSUME NEW n \in 1 .. N, n - 1 \in T
        PROVE  n \in T
    BY <1>2, <1>4, <1>11, <2>2, SMT
  <2> HIDE DEF T
  <2> QED
    BY <1>2, <2>1, <2>2, InductionUpTo
<1>13. run \in [0 .. N -> Results]
  BY <1>10, <1>12
<1> QED
  BY <1>1, <1>11, <1>13 DEF IsReplay, N, b, Step

\* A replay ends in a ledger.
LEMMA ReplayType ==
  ASSUME NEW blocks \in Seq(Block)
  PROVE  /\ rebuild_state_from_genesis(blocks) \in Results
         /\ rebuild_state_from_genesis(blocks).ledger \in Ledgers
<1>1. PICK run : IsReplay(run, blocks)
  BY ReplayRun
<1>2. Len(blocks) \in 0 .. Len(blocks)
  BY SMT
<1>3. rebuild_state_from_genesis(blocks) \in Results
  BY <1>1, <1>2 DEF IsReplay
<1> QED
  BY <1>3 DEF Results

\* Without blocks it is the genesis ledger.
LEMMA ReplayEmpty ==
  rebuild_state_from_genesis(<<>>) = [ok |-> TRUE, ledger |-> Genesis]
<1> DEFINE none == <<>>
<1>1. none \in Seq(Block) /\ Len(none) = 0
  BY SMT
<1> HIDE DEF none
<1>2. PICK run : IsReplay(run, none)
  BY <1>1, ReplayRun
<1> QED
  BY <1>1, <1>2 DEF IsReplay, none

\* A block appended is replayed on what the blocks before it gave: the ledger
\* that append_block advances is the one a restart rebuilds.
LEMMA ReplayAppend ==
  ASSUME NEW blocks \in Seq(Block), NEW b \in Block
  PROVE  rebuild_state_from_genesis(Append(blocks, b))
           = ReplayNext(rebuild_state_from_genesis(blocks), b)
<1> DEFINE N == Len(blocks)
           more == Append(blocks, b)
<1>1. /\ more \in Seq(Block) /\ Len(more) = N + 1 /\ N \in Nat
      /\ more[N + 1] = b /\ \A n \in 1 .. N : more[n] = blocks[n]
  BY SMT
<1>2. PICK r : IsReplay(r, blocks)
  BY ReplayRun
<1> HIDE DEF more
<1>3. PICK s : IsReplay(s, more)
  BY <1>1, ReplayRun
<1>4. /\ r[0] = [ok |-> TRUE, ledger |-> Genesis]
      /\ \A n \in 1 .. N : r[n] = ReplayNext(r[n - 1], blocks[n])
      /\ rebuild_state_from_genesis(blocks) = r[N]
  BY <1>2 DEF IsReplay
<1> HIDE DEF N
<1>5. /\ s[0] = [ok |-> TRUE, ledger |-> Genesis]
      /\ \A n \in 1 .. N + 1 : s[n] = ReplayNext(s[n - 1], more[n])
      /\ rebuild_state_from_genesis(more) = s[N + 1]
  BY <1>1, <1>3 DEF IsReplay
<1> DEFINE T == {n \in 0 .. N : s[n] = r[n]}
<1>6. 0 \in T
  BY <1>1, <1>4, <1>5, SMT
<1>7. ASSUME NEW n \in 1 .. N, n - 1 \in T
      PROVE  n \in T
  <2>1. n \in 1 .. N + 1 /\ n \in 0 .. N
    BY <1>1, SMT
  <2>2. s[n] = ReplayNext(s[n - 1], blocks[n]) /\ s[n - 1] = r[n - 1]
    BY <1>1, <1>5, <1>7, <2>1
  <2> QED
    BY <1>4, <2>1, <2>2
<1>8. s[N] = r[N]
  <2> HIDE DEF T
  <2>1. \A n \in 0 .. N : n \in T
    BY <1>1, <1>6, <1>7, InductionUpTo
  <2>2. N \in T
    BY <1>1, <2>1, SMT
  <2> QED
    BY <2>2 DEF T
<1>9. s[N + 1] = ReplayNext(s[N], b)
  <2>1. N + 1 \in 1 .. N + 1 /\ (N + 1) - 1 = N
    BY <1>1, SMT
  <2> QED
    BY <1>1, <1>5, <2>1
<1> QED
  BY <1>4, <1>5, <1>8, <1>9, SMT DEF more

\* The transfers of the blocks of a chain.
LEMMA BlockParts ==
  ASSUME NEW blocks \in Seq(Block)
  PROVE  /\ Len(blocks) \in Nat /\ DOMAIN blocks = 1 .. Len(blocks)
         /\ \A n \in 1 .. Len(blocks) : blocks[n] \in Block /\ blocks[n].txs \in Seq(Tx)
<1>1. /\ Len(blocks) \in Nat /\ DOMAIN blocks = 1 .. Len(blocks)
      /\ \A n \in 1 .. Len(blocks) : blocks[n] \in Block
  BY SMT
<1>2. \A b \in Block : b.txs \in Seq(Tx)
  BY DEF Block
<1> QED
  BY <1>1, <1>2

\* A chain that replays has no transfer twice: each one was not spent before its
\* place and is spent from there on.
LEMMA ReplayedOnce ==
  ASSUME NEW blocks \in Seq(Block), rebuild_state_from_genesis(blocks).ok
  PROVE  \A h, g \in DOMAIN blocks :
           \A i \in DOMAIN blocks[h].txs, j \in DOMAIN blocks[g].txs :
             blocks[h].txs[i] = blocks[g].txs[j] => h = g /\ i = j
<1> DEFINE N == Len(blocks)
           txs(h) == blocks[h].txs
<1>1. N \in Nat /\ DOMAIN blocks = 1 .. N /\ \A h \in 1 .. N : txs(h) \in Seq(Tx)
  BY BlockParts
<1>2. PICK run : IsReplay(run, blocks)
  BY ReplayRun
<1>3. /\ \A n \in 1 .. N : run[n] = ReplayNext(run[n - 1], blocks[n])
      /\ \A n \in 0 .. N : run[n] \in Results
      /\ run[N].ok
  BY <1>2 DEF IsReplay
<1> HIDE DEF N
<1> DEFINE st(n) == run[n].ledger
           Used(n) == \A h \in 1 .. n : \A i \in DOMAIN txs(h) : Spent(st(n), txs(h)[i])
           Once(n) == \A h, g \in 1 .. n : \A i \in DOMAIN txs(h), j \in DOMAIN txs(g) :
                        txs(h)[i] = txs(g)[j] => h = g /\ i = j
           T == {n \in 0 .. N : run[n].ok => Used(n) /\ Once(n)}
<1>4. 0 \in T
  BY <1>1, SMT
<1>5. ASSUME NEW n \in 1 .. N, n - 1 \in T
      PROVE  n \in T
  <2> SUFFICES ASSUME run[n].ok
               PROVE  Used(n) /\ Once(n)
    BY <1>1, SMT
  <2>1. n - 1 \in 0 .. N /\ st(n - 1) \in Ledgers /\ txs(n) \in Seq(Tx)
    BY <1>1, <1>3, SMT DEF Results
  <2>2. run[n - 1].ok /\ run[n] = ApplyAll(st(n - 1), txs(n))
    BY <1>3 DEF ReplayNext
  <2>3. Used(n - 1) /\ Once(n - 1)
    BY <1>5, <2>2
  <2> HIDE DEF st, txs
  <2>4. /\ \A i \in DOMAIN txs(n) : ~Spent(st(n - 1), txs(n)[i])
        /\ \A i \in DOMAIN txs(n) : Spent(st(n), txs(n)[i])
        /\ \A t \in Tx : Spent(st(n - 1), t) => Spent(st(n), t)
        /\ \A i, j \in DOMAIN txs(n) : txs(n)[i] = txs(n)[j] => i = j
    <3>1. ApplyAll(st(n - 1), txs(n)).ok /\ ApplyAll(st(n - 1), txs(n)).ledger = st(n)
      BY <2>2 DEF st
    <3> QED
      BY <2>1, <3>1, ApplyAllSpends, SMT
  <2>5. \A h \in 1 .. n : h = n \/ h \in 1 .. n - 1
    BY <1>1, SMT
  <2>6. \A h \in 1 .. n - 1 : h \in 1 .. N
    BY <1>1, SMT
  <2>7. ASSUME NEW h \in 1 .. n, NEW i \in DOMAIN txs(h)
        PROVE  Spent(st(n), txs(h)[i])
    <3>1. CASE h = n
      BY <2>4, <3>1
    <3>2. CASE h \in 1 .. n - 1
      <4>1. Spent(st(n - 1), txs(h)[i])
        BY <2>3, <3>2
      <4>2. txs(h)[i] \in Tx
        BY <1>1, <2>6, <3>2, SMT
      <4> QED
        BY <2>4, <4>1, <4>2
    <3> QED
      BY <2>5, <3>1, <3>2
  <2>8. ASSUME NEW h \in 1 .. n, NEW g \in 1 .. n,
               NEW i \in DOMAIN txs(h), NEW j \in DOMAIN txs(g), txs(h)[i] = txs(g)[j]
        PROVE  h = g /\ i = j
    <3>1. CASE h \in 1 .. n - 1 /\ g \in 1 .. n - 1
      BY <2>3, <2>8, <3>1
    <3>2. CASE h = n /\ g = n
      BY <2>4, <2>8, <3>2
    <3>3. CASE h \in 1 .. n - 1 /\ g = n
      BY <2>3, <2>4, <2>8, <3>3, SMT
    <3>4. CASE h = n /\ g \in 1 .. n - 1
      BY <2>3, <2>4, <2>8, <3>4
    <3> QED
      BY <2>5, <3>1, <3>2, <3>3, <3>4, SMT
  <2> QED
    BY <2>7, <2>8
<1>6. Once(N)
  <2> HIDE DEF T
  <2>1. \A n \in 0 .. N : n \in T
    BY <1>1, <1>4, <1>5, InductionUpTo
  <2>2. N \in T
    BY <1>1, <2>1, SMT
  <2> QED
    BY <1>3, <2>2 DEF T
<1> QED
  BY <1>1, <1>6

\* FeesBurned(blocks) is the end of a sum over the blocks.
IsBurn(sum, blocks) ==
  /\ sum[0] = 0
  /\ \A n \in 1 .. Len(blocks) : sum[n] = sum[n - 1] + FeesOf(blocks[n].txs)
  /\ FeesBurned(blocks) = sum[Len(blocks)]

\* There is such a sum.
LEMMA BurnSum ==
  ASSUME NEW blocks \in Seq(Block)
  PROVE  \E sum : IsBurn(sum, blocks)
<1> DEFINE N == Len(blocks)
           fees(n) == FeesOf(blocks[n].txs)
           F == [p \in Nat \X (1 .. N) |-> p[1] + fees(p[2])]
           P(f) == f = [h \in 0 .. N |-> IF h = 0 THEN 0 ELSE f[h - 1] + fees(h)]
           sum == CHOOSE f : P(f)
<1>1. FeesBurned(blocks) = sum[N]
  BY DEF FeesBurned
<1>2. N \in Nat /\ \A n \in 1 .. N : fees(n) \in Nat
  <2>1. N \in Nat /\ \A n \in 1 .. N : blocks[n].txs \in Seq(Tx)
    BY BlockParts
  <2> QED
    BY <2>1, FeesType
<1> HIDE DEF fees, N
<1>3. F \in [Nat \X (1 .. N) -> Nat]
  BY <1>2, SMT
<1>4. PICK f : Solves(f, N, Nat, 0, F)
  <2> HIDE DEF F
  <2> QED
    BY <1>2, <1>3, RecursionExists
<1>5. /\ f \in [0 .. N -> Nat]
      /\ f[0] = 0
      /\ \A n \in 1 .. N : f[n] = F[<<f[n - 1], n>>]
  <2> HIDE DEF F
  <2> QED
    BY <1>4 DEF Solves
<1>6. ASSUME NEW n \in 1 .. N
      PROVE  f[n] = f[n - 1] + fees(n)
  <2>1. f[n - 1] \in Nat
    <3> HIDE DEF F
    <3> QED
      BY <1>2, <1>5, SMT
  <2> QED
    BY <1>5, <2>1
<1> HIDE DEF F
<1>7. P(f)
  <2>1. \A n \in 0 .. N : f[n] = IF n = 0 THEN 0 ELSE f[n - 1] + fees(n)
    BY <1>2, <1>5, <1>6, SMT
  <2> QED
    BY <1>5, <2>1
<1>8. P(sum)
  <2> HIDE DEF P
  <2> QED
    BY <1>7
<1> HIDE DEF sum
<1>9. sum[0] = 0 /\ \A n \in 1 .. N : sum[n] = sum[n - 1] + fees(n)
  BY <1>2, <1>8, SMT
<1> QED
  BY <1>1, <1>9 DEF IsBurn, N, fees

\* A chain that replays has burned its fees and nothing else.
LEMMA ReplayBurns ==
  ASSUME NEW blocks \in Seq(Block), rebuild_state_from_genesis(blocks).ok
  PROVE  total_balance_sum(rebuild_state_from_genesis(blocks).ledger) + FeesBurned(blocks)
           = total_balance_sum(Genesis)
<1> DEFINE N == Len(blocks)
<1>1. N \in Nat /\ \A n \in 1 .. N : blocks[n].txs \in Seq(Tx)
  BY BlockParts
<1>2. PICK run : IsReplay(run, blocks)
  BY ReplayRun
<1>3. PICK sum : IsBurn(sum, blocks)
  BY BurnSum
<1>4. /\ run[0] = [ok |-> TRUE, ledger |-> Genesis]
      /\ \A n \in 1 .. N : run[n] = ReplayNext(run[n - 1], blocks[n])
      /\ \A n \in 0 .. N : run[n] \in Results
      /\ rebuild_state_from_genesis(blocks) = run[N]
  BY <1>2 DEF IsReplay
<1>5. /\ sum[0] = 0
      /\ \A n \in 1 .. N : sum[n] = sum[n - 1] + FeesOf(blocks[n].txs)
      /\ FeesBurned(blocks) = sum[N]
  BY <1>3 DEF IsBurn
<1> HIDE DEF N
<1> DEFINE Total(n) == total_balance_sum(run[n].ledger)
           all == total_balance_sum(Genesis)
           T == {n \in 0 .. N : run[n].ok => sum[n] \in Nat /\ Total(n) + sum[n] = all}
<1>6. 0 \in T
  <2>1. all \in Nat
    BY GenesisAssumption, TotalType
  <2> QED
    BY <1>1, <1>4, <1>5, <2>1, SMT
<1>7. ASSUME NEW n \in 1 .. N, n - 1 \in T
      PROVE  n \in T
  <2> SUFFICES ASSUME run[n].ok
               PROVE  sum[n] \in Nat /\ Total(n) + sum[n] = all
    BY <1>1, SMT
  <2> DEFINE st == run[n - 1].ledger
             txs == blocks[n].txs
  <2>1. n - 1 \in 0 .. N /\ n \in 0 .. N /\ st \in Ledgers /\ txs \in Seq(Tx)
    BY <1>1, <1>4, SMT DEF Results
  <2>2. run[n - 1].ok /\ run[n] = ApplyAll(st, txs)
    BY <1>4 DEF ReplayNext
  <2>3. sum[n - 1] \in Nat /\ Total(n - 1) + sum[n - 1] = all
    BY <1>7, <2>2
  <2>4. Total(n - 1) \in Nat /\ Total(n) \in Nat
    BY <1>4, <2>1, TotalType DEF Results
  <2>5. FeesOf(txs) \in Nat /\ Total(n) + FeesOf(txs) = Total(n - 1)
    BY <2>1, <2>2, ApplyAllBurns
  <2>6. sum[n] = sum[n - 1] + FeesOf(txs)
    BY <1>5
  <2> DEFINE fees == FeesOf(txs)
  <2> HIDE DEF Total, fees, all
  <2>7. /\ Total(n) + fees = Total(n - 1) /\ Total(n - 1) + sum[n - 1] = all
        /\ sum[n] = sum[n - 1] + fees
        /\ {sum[n - 1], fees, Total(n), Total(n - 1)} \subseteq Nat
    BY <2>3, <2>4, <2>5, <2>6 DEF fees
  <2> QED
    BY <2>7, SMT
<1>8. run[N].ok => Total(N) + sum[N] = all
  <2> HIDE DEF T
  <2>1. \A n \in 0 .. N : n \in T
    BY <1>1, <1>6, <1>7, InductionUpTo
  <2>2. N \in T
    BY <1>1, <2>1, SMT
  <2> QED
    BY <2>2 DEF T
<1> QED
  BY <1>4, <1>5, <1>8

-----------------------------------------------------------------------------
(***************************************************************************)
(* What chain, ledger, pool and queue file hold.                           *)
(***************************************************************************)
BlockTypes == disk \in Seq(Block) /\ chain \in Seq(Block) /\ exposed \in Seq(Block)

\* LedgerIsReplay, with the chain in memory replaying too.
LedgerInv ==
  /\ ledger \in Ledgers
  /\ rebuild_state_from_genesis(disk).ok
  /\ IsUp => /\ rebuild_state_from_genesis(chain).ok
             /\ ledger = rebuild_state_from_genesis(chain).ledger

\* During a drain, what left the copy of the file is in the pool, what the pool
\* has beyond the snapshot is still in the file, and so is the rest of the copy.
DrainInv ==
  pc = "drain" => /\ Range(drain.todo) \subseteq Range(pending.txs)
                  /\ Range(pending.txs) \subseteq Range(drain.todo) \cup pool.txs
                  /\ pool.txs \subseteq Range(drain.before) \cup Range(pending.txs)

QueueInv ==
  /\ pending \in [txs : Seq(Tx), torn : BOOLEAN]
  /\ drain \in [todo : Seq(Tx), before : Seq(Tx)]
  /\ PoolOK(pool)
  /\ FifoOK(drain.before)
  /\ DrainInv

SyncBound == sync.left <= Peers + BookPeers

DataInv == NodeInv /\ BlockTypes /\ LedgerInv /\ QueueInv /\ SyncBound

-----------------------------------------------------------------------------
(***************************************************************************)
(* The five things a step can do to the blocks and the ledger.             *)
(***************************************************************************)
\* A block the ledger in memory takes.
Fits(b) == b \in Block /\ ApplyAll(ledger, b.txs).ok

LedgerKept ==
  UNCHANGED <<disk, chain, ledger>> /\ (pc = "down" <=> pc' = "down")

LedgerGrown ==
  pc # "down" /\ pc' # "down" /\ ~poisoned /\ \E b : Fits(b) /\ Commit(b)

LedgerRolledBack ==
  pc # "down" /\ pc' # "down" /\ ~poisoned /\ \E b : Fits(b) /\ RollBack(b)

LedgerStopped ==
  /\ Down
  /\ \/ disk' = disk
     \/ pc # "down" /\ ~poisoned /\ \E b : Fits(b) /\ disk' = Append(disk, b)

LedgerKind ==
  /\ LedgerKept \/ LedgerGrown \/ LedgerRolledBack \/ Start \/ LedgerStopped
  /\ exposed' \in {exposed, chain, SubSeq(chain, 1, sealed)}

\* A chain that replays still does with a block that applies to its ledger.
LEMMA ReplayGrows ==
  ASSUME NEW blocks \in Seq(Block), rebuild_state_from_genesis(blocks).ok,
         ledger \in Ledgers, ledger = rebuild_state_from_genesis(blocks).ledger,
         NEW b, Fits(b)
  PROVE  /\ Append(blocks, b) \in Seq(Block)
         /\ rebuild_state_from_genesis(Append(blocks, b)).ok
         /\ rebuild_state_from_genesis(Append(blocks, b)).ledger = ApplyAll(ledger, b.txs).ledger
         /\ ApplyAll(ledger, b.txs).ledger \in Ledgers
<1>1. b \in Block /\ b.txs \in Seq(Tx) /\ ApplyAll(ledger, b.txs).ok
  BY DEF Fits, Block
<1>2. Append(blocks, b) \in Seq(Block)
  BY <1>1, SMT
<1>3. rebuild_state_from_genesis(Append(blocks, b)) = ApplyAll(ledger, b.txs)
  BY <1>1, ReplayAppend DEF ReplayNext
<1>4. ApplyAll(ledger, b.txs).ledger \in Ledgers
  BY <1>1, ApplyAllType DEF Results
<1> QED
  BY <1>1, <1>2, <1>3, <1>4

\* Such a step keeps the types of the blocks and the ledger a replay of them.
LEMMA LedgerKindKeeps ==
  ASSUME DataInv, LedgerKind
  PROVE  BlockTypes' /\ LedgerInv'
<1>1. /\ disk \in Seq(Block) /\ chain \in Seq(Block) /\ exposed \in Seq(Block)
      /\ ledger \in Ledgers /\ rebuild_state_from_genesis(disk).ok
      /\ sealed \in Nat /\ sealed <= Len(chain)
  BY DEF DataInv, BlockTypes, LedgerInv, NodeInv, ControlTypes, ExposedInv
<1>2. pc # "down" => /\ rebuild_state_from_genesis(chain).ok
                     /\ ledger = rebuild_state_from_genesis(chain).ledger
  BY DEF DataInv, LedgerInv, IsUp
<1>3. pc # "down" /\ ~poisoned => chain = disk
  BY DEF DataInv, NodeInv, MemoryInv, IsUp
<1>4. exposed' \in Seq(Block)
  BY <1>1, PrefixOfChain DEF LedgerKind
<1>5. CASE LedgerKept
  BY <1>1, <1>2, <1>4, <1>5 DEF LedgerKept, BlockTypes, LedgerInv, IsUp
<1>6. CASE LedgerGrown
  <2>1. PICK b : Fits(b) /\ Commit(b)
    BY <1>6 DEF LedgerGrown
  <2>2. /\ Append(disk, b) \in Seq(Block)
        /\ rebuild_state_from_genesis(Append(disk, b)).ok
        /\ rebuild_state_from_genesis(Append(disk, b)).ledger = ApplyAll(ledger, b.txs).ledger
        /\ ApplyAll(ledger, b.txs).ledger \in Ledgers
    BY <1>1, <1>2, <1>3, <1>6, <2>1, ReplayGrows, SMT DEF LedgerGrown
  <2> QED
    BY <1>3, <1>4, <1>6, <2>1, <2>2 DEF Commit, LedgerGrown, BlockTypes, LedgerInv
<1>7. CASE LedgerRolledBack
  <2>1. PICK b : Fits(b) /\ RollBack(b)
    BY <1>7 DEF LedgerRolledBack
  <2>2. /\ Append(disk, b) \in Seq(Block)
        /\ rebuild_state_from_genesis(Append(disk, b)).ok
    BY <1>1, <1>2, <1>3, <1>7, <2>1, ReplayGrows, SMT DEF LedgerRolledBack
  <2>3. /\ chain' = chain /\ ledger' = ledger
        /\ disk' = disk \/ disk' = Append(disk, b)
    BY <1>2, <1>7, <2>1 DEF LedgerRolledBack, RollBack
  <2> QED
    BY <1>1, <1>2, <1>4, <1>7, <2>2, <2>3 DEF LedgerRolledBack, BlockTypes, LedgerInv
<1>8. CASE Start
  <2>1. /\ disk' = disk /\ chain' = disk
        /\ ledger' = rebuild_state_from_genesis(disk).ledger
    BY <1>8 DEF Start, files
  <2>2. rebuild_state_from_genesis(disk).ledger \in Ledgers
    BY <1>1, ReplayType
  <2> QED
    BY <1>1, <1>4, <2>1, <2>2, SMT DEF BlockTypes, LedgerInv
<1>9. CASE LedgerStopped
  <2>1. chain' = <<>> /\ ledger' = Genesis /\ pc' = "down"
    BY <1>9 DEF LedgerStopped, Down
  <2>2. disk' \in Seq(Block) /\ rebuild_state_from_genesis(disk').ok
    <3>1. CASE disk' = disk
      BY <1>1, <3>1
    <3>2. CASE disk' # disk
      <4>1. PICK b : Fits(b) /\ disk' = Append(disk, b)
        BY <1>9, <3>2 DEF LedgerStopped
      <4>2. /\ Append(disk, b) \in Seq(Block)
            /\ rebuild_state_from_genesis(Append(disk, b)).ok
        BY <1>1, <1>2, <1>3, <1>9, <3>2, <4>1, ReplayGrows, SMT DEF LedgerStopped
      <4> QED
        BY <4>1, <4>2
    <3> QED
      BY <3>1, <3>2
  <2>3. <<>> \in Seq(Block)
    BY SMT
  <2> QED
    BY <1>4, <2>1, <2>2, <2>3, GenesisAssumption, SMT DEF BlockTypes, LedgerInv, IsUp
<1> QED
  BY <1>5, <1>6, <1>7, <1>8, <1>9, SMT DEF LedgerKind

-----------------------------------------------------------------------------
(***************************************************************************)
(* What a step can do to the pool and the queue file.                      *)
(***************************************************************************)
\* The queue is in order after the step, and what it lost is explained.
QueueStep == QueueInv' /\ \A tx \in Held : Explained(tx)

\* The parts of the data invariant that these steps use.
LEMMA QueueParts ==
  ASSUME DataInv
  PROVE  /\ pending \in [txs : Seq(Tx), torn : BOOLEAN]
         /\ pending.txs \in Seq(Tx)
         /\ pending = [txs |-> pending.txs, torn |-> pending.torn]
         /\ drain \in [todo : Seq(Tx), before : Seq(Tx)]
         /\ drain = [todo |-> drain.todo, before |-> drain.before]
         /\ drain.todo \in Seq(Tx) /\ drain.before \in Seq(Tx)
         /\ PoolOK(pool) /\ FifoOK(drain.before)
         /\ DrainInv
         /\ ledger \in Ledgers
BY DEF DataInv, QueueInv, LedgerInv

\* Pool, file and drain are as they were.
LEMMA QueueKept ==
  ASSUME DataInv, UNCHANGED <<pending, pool, drain>>, pc' = "drain" => pc = "drain"
  PROVE  QueueStep
<1>1. QueueInv'
  BY QueueParts DEF QueueInv, DrainInv
<1> QED
  BY <1>1 DEF QueueStep, Explained, Held

\* Hygiene against the committed ledger.
LEMMA QueueCleaned ==
  ASSUME DataInv, ledger' \in Ledgers, pool' = hygiene_vs_committed_ledger(pool, ledger'),
         UNCHANGED <<pending, drain>>, pc' # "drain"
  PROVE  QueueStep
<1>1. /\ PoolOK(pool')
      /\ \A tx \in pool.txs \ pool'.txs : ~Applies(ledger', tx)
  BY QueueParts, HygieneKeepsExecutable
<1>2. QueueInv'
  BY <1>1, QueueParts DEF QueueInv, DrainInv
<1> QED
  BY <1>1, <1>2 DEF QueueStep, Explained, Held

\* The process is gone.
LEMMA QueueLost ==
  ASSUME DataInv, Down, UNCHANGED pending
  PROVE  QueueStep
<1>1. /\ pool' = EmptyPool /\ pc' = "down"
      /\ drain' = [todo |-> <<>>, before |-> <<>>]
  BY DEF Down, NoDrain
<1>2. PoolOK(EmptyPool) /\ FifoOK(<<>>) /\ <<>> \in Seq(Tx)
  BY EmptyPoolOK, SMT
<1>3. QueueInv'
  BY <1>1, <1>2, QueueParts DEF QueueInv, DrainInv
<1> QED
  BY <1>1, <1>3 DEF QueueStep, Explained

\* The drain is over, the pool is consistent and holds what the file no longer
\* does: nothing is lost.
LEMMA QueueDrained ==
  ASSUME DataInv, AfterDrain, PoolOK(pool'),
         pending' \in [txs : Seq(Tx), torn : BOOLEAN],
         Held \subseteq Held'
  PROVE  QueueStep
<1>1. drain' = [todo |-> <<>>, before |-> <<>>] /\ pc' # "drain"
  BY DEF AfterDrain, NoDrain
<1>2. FifoOK(<<>>) /\ <<>> \in Seq(Tx)
  BY EmptyPoolOK, SMT
<1>3. QueueInv'
  BY <1>1, <1>2 DEF QueueInv, DrainInv
<1> QED
  BY <1>3 DEF QueueStep, Explained

\* The drain starts with a copy of the file and of the pool.
LEMMA DrainBeginQueue ==
  ASSUME DataInv, DrainBegin
  PROVE  QueueStep
<1>1. /\ drain' = [todo |-> pending.txs, before |-> clone_fifo(pool)]
      /\ UNCHANGED <<pending, pool>>
  BY DEF DrainBegin, files
<1>2. FifoOK(clone_fifo(pool)) /\ Range(clone_fifo(pool)) = pool.txs
  BY QueueParts, CloneOK
<1>3. clone_fifo(pool) \in Seq(Tx)
  BY <1>2 DEF FifoOK
<1>4. drain' \in [todo : Seq(Tx), before : Seq(Tx)]
  BY <1>1, <1>3, QueueParts
<1>5. DrainInv'
  BY <1>1, <1>2 DEF DrainInv
<1>6. QueueInv'
  BY <1>1, <1>2, <1>4, <1>5, QueueParts DEF QueueInv
<1> QED
  BY <1>1, <1>6 DEF QueueStep, Explained, Held

\* The head of a queue and the rest.
LEMMA HeadAndTail ==
  ASSUME NEW s \in Seq(Tx), s # <<>>
  PROVE  /\ Head(s) \in Tx /\ Tail(s) \in Seq(Tx)
         /\ Range(s) = {Head(s)} \cup Range(Tail(s))
<1>1. /\ Len(s) \in Nat /\ Len(s) > 0 /\ Head(s) = s[1] /\ Tail(s) \in Seq(Tx)
      /\ Len(Tail(s)) = Len(s) - 1
      /\ \A i \in 1 .. Len(s) - 1 : Tail(s)[i] = s[i + 1]
  BY SMT
<1> DEFINE t == Tail(s)
<1> HIDE DEF t
<1>2. ASSUME NEW x \in Range(s)
      PROVE  x = s[1] \/ x \in Range(t)
  <2>1. PICK i \in 1 .. Len(s) : s[i] = x
    BY QueueElements
  <2>2. CASE i # 1
    <3>1. i - 1 \in 1 .. Len(t) /\ t[i - 1] = x
      BY <1>1, <2>1, <2>2, SMT DEF t
    <3> QED
      BY <1>1, <3>1, QueueElements DEF t
  <2> QED
    BY <2>1, <2>2
<1>3. ASSUME NEW x \in Range(t)
      PROVE  x \in Range(s)
  <2>1. PICK i \in 1 .. Len(t) : t[i] = x
    BY <1>1, QueueElements DEF t
  <2>2. i + 1 \in 1 .. Len(s) /\ s[i + 1] = x
    BY <1>1, <2>1, SMT DEF t
  <2> QED
    BY <2>2, QueueElements
<1>4. s[1] \in Range(s) /\ s[1] \in Tx
  <2>1. 1 \in 1 .. Len(s)
    BY <1>1, SMT
  <2> QED
    BY <2>1, QueueElements
<1> QED
  BY <1>1, <1>2, <1>3, <1>4 DEF t

\* One entry of the file moves to the pool, or is there already.
LEMMA DrainOneQueue ==
  ASSUME DataInv, DrainOne
  PROVE  QueueStep
<1> DEFINE tx == Head(drain.todo)
           rest == Tail(drain.todo)
<1>1. /\ pc = "drain" /\ pc' = pc /\ pending' = pending
      /\ drain' = [drain EXCEPT !.todo = rest]
      /\ drain.todo # <<>>
  BY DEF DrainOne, files
<1>2. tx \in Tx /\ rest \in Seq(Tx) /\ Range(drain.todo) = {tx} \cup Range(rest)
  BY <1>1, QueueParts, HeadAndTail, SMT
<1>3. \/ DrainAccepts(pool, tx) /\ pool' = Insert(pool, tx)
      \/ Duplicate(tx) /\ pool' = pool
  BY DEF DrainOne
<1> HIDE DEF tx, rest
<1>4. PoolOK(pool') /\ pool'.txs = pool.txs \cup {tx}
  <2>1. CASE Duplicate(tx) /\ pool' = pool
    BY <2>1, QueueParts DEF Duplicate
  <2>2. CASE DrainAccepts(pool, tx) /\ pool' = Insert(pool, tx)
    <3>1. Admissible(pool, tx) /\ ~Full(pool)
      BY <2>2 DEF DrainAccepts
    <3>2. tx \notin pool.txs /\ pool.by_sender[SlotOf(tx)] = NoTx
      BY <1>2, <3>1, QueueParts, SlotStaysFree, SMT
    <3> QED
      BY <1>2, <2>2, <3>1, <3>2, QueueParts, InsertOK, SMT
  <2> QED
    BY <1>3, <2>1, <2>2
<1>5. drain' = [todo |-> rest, before |-> drain.before]
  BY <1>1, QueueParts
<1>6. /\ Range(drain.todo) \subseteq Range(pending.txs)
      /\ Range(pending.txs) \subseteq Range(drain.todo) \cup pool.txs
      /\ pool.txs \subseteq Range(drain.before) \cup Range(pending.txs)
  BY <1>1, QueueParts DEF DrainInv
<1>7. DrainInv'
  BY <1>1, <1>2, <1>4, <1>5, <1>6, SMT DEF DrainInv
<1>8. QueueInv'
  BY <1>1, <1>2, <1>4, <1>5, <1>7, QueueParts, SMT DEF QueueInv
<1> QED
  BY <1>1, <1>4, <1>8 DEF QueueStep, Explained, Held

\* The file is rewritten with what was not consumed, or the pool is put back, or
\* the file could not be read.
LEMMA DrainEndQueue ==
  ASSUME DataInv, DrainUnreadable \/ DrainEnd \/ DrainEndFails
  PROVE  QueueStep
<1>1. CASE DrainUnreadable
  <2>1. AfterDrain /\ UNCHANGED <<pending, pool>>
    BY <1>1 DEF DrainUnreadable, files
  <2> QED
    BY <2>1, QueueParts, QueueDrained, SMT DEF Held
<1>2. CASE DrainEnd
  <2>1. /\ pc = "drain" /\ AfterDrain /\ pool' = pool
        /\ pending' = [pending EXCEPT !.txs = drain.todo]
    BY <1>2 DEF DrainEnd
  <2>2. pending' \in [txs : Seq(Tx), torn : BOOLEAN] /\ pending'.txs = drain.todo
    BY <2>1, QueueParts
  <2>3. Held \subseteq Held'
    BY <2>1, <2>2, QueueParts DEF Held, DrainInv
  <2> QED
    BY <2>1, <2>2, <2>3, QueueParts, QueueDrained, SMT
<1>3. CASE DrainEndFails
  <2>1. /\ pc = "drain" /\ AfterDrain /\ pending' = pending
        /\ pool' = restore_fifo(drain.before)
    BY <1>3 DEF DrainEndFails, files
  <2>2. PoolOK(pool') /\ pool'.txs = Range(drain.before)
    BY <2>1, QueueParts, RestoreOK
  <2>3. Held \subseteq Held'
    BY <2>1, <2>2, QueueParts DEF Held, DrainInv
  <2> QED
    BY <2>1, <2>2, <2>3, QueueParts, QueueDrained, SMT
<1> QED
  BY <1>1, <1>2, <1>3

\* A transfer of a peer: a full pool evicts its oldest one for it.
LEMMA InboundTxQueue ==
  ASSUME DataInv, NEW tx \in Tx, InboundTx(tx)
  PROVE  QueueStep
<1>1. /\ pool' = try_submit(pool, tx) /\ UNCHANGED <<pending, drain, pc>>
      /\ pc # "drain"
  BY DEF InboundTx, files, MutexFree
<1>2. /\ PoolOK(pool')
      /\ \/ pool.txs \subseteq pool'.txs
         \/ /\ Full(pool)
            /\ pool.txs \ {Head(pool.order)} \subseteq pool'.txs
            /\ pool'.order = Append(Tail(pool.order), tx)
  BY <1>1, QueueParts, SubmissionKeepsPool, SMT
<1>3. QueueInv'
  BY <1>1, <1>2, QueueParts DEF QueueInv, DrainInv
<1>4. ASSUME NEW t \in Held
      PROVE  Explained(t)
  <2>1. CASE t \in Held'
    BY <2>1 DEF Explained
  <2>2. CASE t \notin Held'
    <3>1. t \in pool.txs /\ t \notin pool'.txs
      BY <1>1, <2>2, SMT DEF Held
    <3>2. Evicted(t)
      BY <1>2, <3>1 DEF Evicted
    <3> QED
      BY <3>2 DEF Explained
  <2> QED
    BY <2>1, <2>2
<1> QED
  BY <1>3, <1>4 DEF QueueStep

\* `send` and the test UI append to the file, whole or torn.
LEMMA SendQueue ==
  ASSUME DataInv, (\E tx \in Tx : Send(tx) \/ UiSend(tx)) \/ SendTorn
  PROVE  QueueStep
<1>1. /\ UNCHANGED <<pool, drain, pc>> /\ pc # "drain"
      /\ \/ \E tx \in Tx : pending' = [pending EXCEPT !.txs = Append(@, tx)]
         \/ pending' = [pending EXCEPT !.txs = @]
         \/ pending' = [pending EXCEPT !.torn = TRUE]
  BY DEF Send, UiSend, append_pending_transaction, SendTorn, QueueLockFree
<1>2. /\ pending' \in [txs : Seq(Tx), torn : BOOLEAN]
      /\ Range(pending.txs) \subseteq Range(pending'.txs)
  <2>1. CASE \E tx \in Tx : pending' = [pending EXCEPT !.txs = Append(@, tx)]
    <3>1. PICK tx \in Tx : pending' = [pending EXCEPT !.txs = Append(pending.txs, tx)]
      BY <2>1
    <3>2. /\ Append(pending.txs, tx) \in Seq(Tx)
          /\ Range(Append(pending.txs, tx)) = Range(pending.txs) \cup {tx}
      BY QueueParts, QueueAppend
    <3>3. pending' = [txs |-> Append(pending.txs, tx), torn |-> pending.torn]
      BY <3>1, QueueParts
    <3> QED
      BY <3>2, <3>3, QueueParts
  <2>2. CASE \/ pending' = [pending EXCEPT !.txs = @]
             \/ pending' = [pending EXCEPT !.torn = TRUE]
    BY <2>2, QueueParts
  <2> QED
    BY <1>1, <2>1, <2>2, SMT
<1>3. QueueInv'
  BY <1>1, <1>2, QueueParts DEF QueueInv, DrainInv
<1> QED
  BY <1>1, <1>2, <1>3 DEF QueueStep, Explained, Held

-----------------------------------------------------------------------------
(***************************************************************************)
(* Every action, with the blocks it may commit.                            *)
(***************************************************************************)
\* The body of SealsInArrivalOrder.
SealOrder ==
  sealed' > sealed =>
    LET txs == chain'[sealed'].txs
    IN  \A i, j \in DOMAIN txs : i < j => Position(txs[i]) < Position(txs[j])

DataOK == LedgerKind /\ QueueStep /\ SyncBound' /\ SealOrder

\* A step that seals no block.
LEMMA NothingSealed ==
  ASSUME DataInv, sealed' \in {0, sealed}
  PROVE  SealOrder
<1>1. sealed \in Nat /\ ~(sealed' > sealed)
  BY SMT DEF DataInv, NodeInv, ControlTypes
<1> QED
  BY <1>1 DEF SealOrder

\* A block a peer offers, once accepted, fits.
LEMMA OfferedFits ==
  ASSUME NEW b \in NetworkBlocks
  PROVE  Fits(b)
<1>1. /\ b \in [ts : Time, txs : UNION {[1 .. n -> Tx] : n \in 0 .. MaxNetTxs}]
      /\ append_block(b)
  BY DEF NetworkBlocks
<1>2. PICK n \in 0 .. MaxNetTxs : b.txs \in [1 .. n -> Tx]
  BY <1>1
<1>3. n \in Nat
  BY BoundsAssumption, SMT
<1>4. b.txs \in Seq(Tx)
  BY <1>2, <1>3, SMT
<1>5. b \in Block
  BY <1>1, <1>4 DEF Block
<1> QED
  BY <1>1, <1>5 DEF Fits, append_block

\* The block sealed from the pool fits.
LEMMA SealedFits ==
  ASSUME DataInv, NEW now \in Time, NEW sel,
         sel = ordered_candidates_for_seal(pool, ledger), Sealable(sel, now)
  PROVE  Fits(SealedBlock(sel, now)) /\ sel.out \in Seq(Tx)
<1>1. sel.out \in Seq(Tx)
  BY QueueParts, SelectionInOrder
<1>2. SealedBlock(sel, now) \in Block
  BY <1>1 DEF SealedBlock, Block
<1> QED
  BY <1>1, <1>2 DEF Sealable, append_block, Fits

\* A step that leaves blocks and ledger alone while the process runs.
LEMMA QuietData ==
  ASSUME DataInv, UNCHANGED <<disk, chain, ledger>>, sealed' \in {0, sealed},
         exposed' \in {exposed, chain, SubSeq(chain, 1, sealed)},
         pc # "down", pc' # "down", QueueStep, SyncBound'
  PROVE  DataOK
BY NothingSealed DEF DataOK, LedgerKind, LedgerKept

\* Where the number of peers still to sync with comes from.
LEMMA SyncTypes ==
  ASSUME DataInv
  PROVE  /\ sync \in [left : Nat, all_ok : BOOLEAN, appended : BOOLEAN]
         /\ sync.left \in Nat /\ sync.left <= Peers + BookPeers
         /\ Peers \in Nat /\ BookPeers \in Nat
BY PeersAssumption DEF DataInv, NodeInv, ControlTypes, SyncBound

\* It starts at the number of --peers, or at 0 when there is no round.
LEMMA RoundBegins ==
  ASSUME NEW n \in Nat, n <= Peers + BookPeers, sync' = [NoSync EXCEPT !.left = n]
  PROVE  SyncBound'
BY DEF NoSync, SyncBound

\* Start and the ways a process ends without a seal.
LEMMA StartStopData ==
  ASSUME DataInv, Start \/ Crash \/ ExitPoisoned
  PROVE  DataOK
<1>1. CASE Start
  <2>1. /\ sync' = [NoSync EXCEPT !.left = Peers] /\ pc' # "drain"
        /\ UNCHANGED <<pending, pool, drain, sealed, exposed>>
    BY <1>1 DEF Start, files
  <2>2. SyncBound'
    BY <2>1, SyncTypes, RoundBegins, SMT
  <2> QED
    BY <1>1, <2>1, <2>2, QueueKept, NothingSealed, SMT DEF DataOK, LedgerKind
<1>2. CASE Crash \/ ExitPoisoned
  <2>1. Down /\ UNCHANGED <<disk, pending, exposed>> /\ sealed' = 0 /\ sync' = NoSync
    BY <1>2 DEF Crash, ExitPoisoned, Down, files
  <2>2. SyncBound'
    BY <2>1, SyncTypes, SMT DEF SyncBound, NoSync
  <2> QED
    BY <2>1, <2>2, QueueLost, NothingSealed DEF DataOK, LedgerKind, LedgerStopped
<1> QED
  BY <1>1, <1>2

\* The drain of the queue file.
LEMMA DrainData ==
  ASSUME DataInv, DrainBegin \/ DrainUnreadable \/ DrainOne \/ DrainEnd \/ DrainEndFails
  PROVE  DataOK
<1>1. QueueStep
  BY DrainBeginQueue, DrainOneQueue, DrainEndQueue
<1>2. /\ UNCHANGED <<disk, chain, ledger, sealed, exposed>>
      /\ pc # "down" /\ pc' # "down"
      /\ AfterDrain \/ sync' = sync
  BY DEF DrainBegin, DrainUnreadable, DrainOne, DrainEnd, DrainEndFails, AfterDrain,
         files, ledgerVars
<1>3. SyncBound'
  <2>1. sync' = sync \/ sync' = [NoSync EXCEPT !.left = Peers]
    BY <1>2 DEF AfterDrain
  <2> QED
    BY <2>1, SyncTypes, RoundBegins, SMT DEF SyncBound
<1> QED
  BY <1>1, <1>2, <1>3, QuietData

\* A round of peer sync, without a new block.
LEMMA SyncData ==
  ASSUME DataInv, SyncPeerOk \/ SyncPeerErr \/ SyncsDone
  PROVE  DataOK
<1>1. /\ UNCHANGED <<disk, chain, ledger, sealed, exposed, pending, drain>>
      /\ pc \in {"starting", "retry", "sync"} /\ pc' # "down" /\ pc' # "drain"
  <2>1. CASE SyncsDone
    BY <2>1 DEF SyncsDone, files, ledgerVars
  <2>2. CASE SyncPeerOk \/ SyncPeerErr
    BY <2>2 DEF SyncPeerOk, SyncPeerErr, Syncing, files, ledgerVars
  <2> QED
    BY <2>1, <2>2
<1>2. SyncBound'
  <2>1. CASE SyncsDone
    BY <2>1, SyncTypes DEF SyncsDone, NoSync, SyncBound
  <2>2. CASE SyncPeerOk \/ SyncPeerErr
    <3>1. sync'.left = sync.left - 1
      BY <2>2, SMT DEF SyncPeerOk, SyncPeerErr, NextPeer
    <3> QED
      BY <3>1, SyncTypes, SMT DEF SyncBound
  <2> QED
    BY <2>1, <2>2
<1>3. QueueStep
  <2>1. CASE pool' = pool
    BY <1>1, <2>1, QueueKept, SMT
  <2>2. CASE pool' # pool
    <3>1. pool' = hygiene_vs_committed_ledger(pool, ledger) /\ ledger' \in Ledgers
      BY <1>1, <2>2, QueueParts DEF SyncPeerOk, SyncPeerErr, SyncsDone
    <3> QED
      BY <1>1, <3>1, QueueCleaned, SMT
  <2> QED
    BY <2>1, <2>2
<1> QED
  BY <1>1, <1>2, <1>3, QuietData

\* A block of a peer: committed, or rolled back after a failed persist.
LEMMA NetworkBlockData ==
  ASSUME DataInv, NEW b \in NetworkBlocks,
         \/ SyncAppend(b) \/ SyncPersistFails(b)
         \/ InboundBlock(b) \/ InboundBlockPersistFails(b)
  PROVE  DataOK
<1>1. Fits(b)
  BY OfferedFits
<1>2. /\ UNCHANGED <<pending, drain, pc, sealed, exposed>>
      /\ pc \notin {"down", "drain"} /\ ~poisoned
      /\ Commit(b) \/ RollBack(b)
  BY DEF SyncAppend, SyncPersistFails, InboundBlock, InboundBlockPersistFails,
         Syncing, MutexFree
<1>3. LedgerKind
  BY <1>1, <1>2 DEF LedgerKind, LedgerGrown, LedgerRolledBack
<1>4. SyncBound'
  <2>1. sync'.left = sync.left \/ sync'.left = sync.left - 1
    <3>1. CASE SyncAppend(b)
      BY <3>1, SyncTypes DEF SyncAppend
    <3>2. CASE SyncPersistFails(b)
      BY <3>2 DEF SyncPersistFails, NextPeer
    <3>3. CASE InboundBlock(b) \/ InboundBlockPersistFails(b)
      BY <3>3 DEF InboundBlock, InboundBlockPersistFails
    <3> QED
      BY <3>1, <3>2, <3>3, SMT
  <2> QED
    BY <2>1, SyncTypes, SMT DEF SyncBound
<1>5. QueueStep
  <2>1. CASE SyncAppend(b) \/ SyncPersistFails(b) \/ InboundBlockPersistFails(b)
    <3>1. pool' = pool
      BY <2>1 DEF SyncAppend, SyncPersistFails, InboundBlockPersistFails
    <3> QED
      BY <1>2, <3>1, QueueKept, SMT
  <2>2. CASE InboundBlock(b)
    <3>1. pool' = hygiene_vs_committed_ledger(pool, ledger')
      BY <2>2 DEF InboundBlock
    <3>2. ledger' \in Ledgers
      BY <1>3, LedgerKindKeeps DEF LedgerInv
    <3> QED
      BY <1>2, <3>1, <3>2, QueueCleaned, SMT
  <2> QED
    BY <2>1, <2>2
<1> QED
  BY <1>2, <1>3, <1>4, <1>5, NothingSealed, SMT DEF DataOK

\* Submissions, and a stuttering step.
LEMMA SubmissionData ==
  ASSUME DataInv,
         \/ \E tx \in Tx : InboundTx(tx) \/ Send(tx) \/ UiSend(tx)
         \/ SendTorn
         \/ UNCHANGED vars
  PROVE  DataOK
<1>1. UNCHANGED <<disk, chain, ledger, pc, sync, sealed, exposed>>
  BY DEF InboundTx, Send, UiSend, append_pending_transaction, SendTorn, vars, files,
               ledgerVars
<1>2. QueueStep
  <2>1. CASE UNCHANGED vars
    BY <2>1, QueueKept DEF vars, files
  <2> QED
    BY <2>1, InboundTxQueue, SendQueue
<1>3. SyncBound'
  BY <1>1 DEF DataInv, SyncBound
<1> QED
  BY <1>1, <1>2, <1>3, NothingSealed, SMT DEF DataOK, LedgerKind, LedgerKept

\* What is shown to a peer, and the hygiene of the tick.
LEMMA ShowData ==
  ASSUME DataInv, Gossip \/ InboundGetBlocks \/ Hygiene
  PROVE  DataOK
<1>1. /\ UNCHANGED <<disk, chain, ledger, sync, pending, drain>>
      /\ pc # "down" /\ pc' # "down" /\ pc' # "drain"
      /\ sealed' \in {0, sealed}
      /\ exposed' \in {exposed, chain, SubSeq(chain, 1, sealed)}
  <2>1. CASE Gossip
    BY <2>1 DEF Gossip, files, ledgerVars
  <2>2. CASE InboundGetBlocks
    BY <2>2 DEF InboundGetBlocks, MutexFree, files, ledgerVars
  <2>3. CASE Hygiene
    BY <2>3 DEF Hygiene, files, ledgerVars
  <2> QED
    BY <2>1, <2>2, <2>3
<1>2. QueueStep
  <2>1. CASE pool' = pool
    BY <1>1, <2>1, QueueKept
  <2>2. CASE pool' # pool
    <3>1. pool' = hygiene_vs_committed_ledger(pool, ledger) /\ ledger' \in Ledgers
      BY <1>1, <2>2, QueueParts DEF Gossip, InboundGetBlocks, Hygiene
    <3> QED
      BY <1>1, <3>1, QueueCleaned
  <2> QED
    BY <2>1, <2>2
<1>3. SyncBound'
  BY <1>1 DEF DataInv, SyncBound
<1> QED
  BY <1>1, <1>2, <1>3, QuietData

\* The sync that follows a seal asks at most the peers and the peer book.
LEMMA AfterSealData ==
  ASSUME DataInv, AfterSeal
  PROVE  SyncBound' /\ pc' = "sync"
<1>1. PICK n \in 0 .. (IF Peers = 0 THEN 0 ELSE Peers + BookPeers) :
        sync' = [NoSync EXCEPT !.left = n] /\ pc' = "sync"
  BY DEF AfterSeal
<1>2. n \in Nat /\ n <= Peers + BookPeers
  BY SyncTypes, SMT
<1> QED
  BY <1>1, <1>2, RoundBegins

\* A transfer of the pool's order has one position there.
LEMMA PositionFacts ==
  ASSUME DataInv, NEW tx \in pool.txs
  PROVE  Position(tx) \in 1 .. Len(pool.order) /\ pool.order[Position(tx)] = tx
<1>1. pool.order \in Seq(Tx) /\ tx \in Range(pool.order)
  BY QueueParts, PoolParts DEF PoolOK
<1>2. DOMAIN pool.order = 1 .. Len(pool.order)
      /\ \E i \in DOMAIN pool.order : pool.order[i] = tx
  BY <1>1, SMT DEF Range
<1> QED
  BY <1>2 DEF Position

\* The sealed block has the transfers in the order they came to the pool.
LEMMA CommitSealsInOrder ==
  ASSUME DataInv, NEW now \in Time, NEW sel,
         sel = ordered_candidates_for_seal(pool, ledger), SealCommits(sel, now)
  PROVE  SealOrder
<1> DEFINE out == sel.out
<1>1. /\ out \in Seq(Tx) /\ Range(out) \subseteq pool.txs
      /\ \A k, l \in 1 .. Len(out), i, j \in 1 .. Len(pool.order) :
           k < l /\ pool.order[i] = out[k] /\ pool.order[j] = out[l] => i < j
  BY QueueParts, SelectionInOrder
<1>2. chain'[sealed'].txs = out
  <2>1. chain \in Seq(Block) /\ chain' = Append(chain, [ts |-> now, txs |-> out])
        /\ sealed' = Len(chain) + 1
    BY DEF DataInv, BlockTypes, SealCommits, Commit, SealedBlock
  <2>2. [ts |-> now, txs |-> out] \in Block
    BY <1>1 DEF Block
  <2>3. Append(chain, [ts |-> now, txs |-> out])[Len(chain) + 1] = [ts |-> now, txs |-> out]
    BY <2>1, <2>2, SMT
  <2> QED
    BY <2>1, <2>3, SMT
<1> HIDE DEF out
<1>3. DOMAIN out = 1 .. Len(out) /\ \A k \in 1 .. Len(out) : out[k] \in pool.txs
  BY <1>1, SMT DEF Range
<1>4. \A k, l \in DOMAIN out : k < l => Position(out[k]) < Position(out[l])
  BY <1>1, <1>3, PositionFacts
<1> QED
  BY <1>2, <1>4 DEF SealOrder

\* The sealed transfers leave the pool, and are committed.
LEMMA CommitQueue ==
  ASSUME DataInv, pc = "seal", NEW now \in Time, NEW sel,
         sel = ordered_candidates_for_seal(pool, ledger), SealCommits(sel, now)
  PROVE  QueueStep
<1> DEFINE b == SealedBlock(sel, now)
<1>1. /\ PoolOK(pool') /\ pool'.txs = pool.txs \ Range(sel.out)
      /\ UNCHANGED <<pending, drain>> /\ pc' # "drain"
      /\ chain' = Append(chain, b)
  BY QueueParts, RemoveByHashesOK, AfterSealData DEF SealCommits, Commit
<1>2. QueueInv'
  BY <1>1, QueueParts DEF QueueInv, DrainInv
<1>3. /\ Len(chain) + 1 \in DOMAIN Append(chain, b)
      /\ Append(chain, b)[Len(chain) + 1] = b
  <2>1. chain \in Seq(Block)
    BY DEF DataInv, BlockTypes
  <2>2. b \in Block
    BY SealedFits DEF SealCommits, Fits
  <2> HIDE DEF b
  <2> QED
    BY <2>1, <2>2, SMT
<1>4. ASSUME NEW tx \in Range(sel.out)
      PROVE  Committed(tx)'
  <2>1. tx \in Range(b.txs)
    BY <1>4 DEF SealedBlock
  <2> QED
    BY <1>1, <1>3, <2>1, SMT DEF Committed
<1> QED
  BY <1>1, <1>2, <1>4 DEF QueueStep, Explained, Held

\* The seal of a tick, with the selection of the pool.
LEMMA SealData ==
  ASSUME DataInv, Seal
  PROVE  DataOK
<1>1. PICK now \in Time :
        \E sel \in {ordered_candidates_for_seal(pool, ledger)} :
           \/ SealNothing(sel) \/ SealRefused(sel, now)
           \/ SealCommits(sel, now) \/ SealPersistFails(sel, now)
  BY DEF Seal
<1> DEFINE sel == ordered_candidates_for_seal(pool, ledger)
<1>2. \/ SealNothing(sel) \/ SealRefused(sel, now)
      \/ SealCommits(sel, now) \/ SealPersistFails(sel, now)
  BY <1>1
<1>3. pc = "seal" /\ ledger \in Ledgers
  BY QueueParts DEF Seal
<1> HIDE DEF sel
<1>4. CASE SealNothing(sel)
  <2>1. /\ UNCHANGED <<disk, chain, ledger, pending, pool, drain, sealed, exposed>>
        /\ AfterSeal
    BY <1>4 DEF SealNothing, files, ledgerVars
  <2>2. SyncBound' /\ pc' = "sync"
    BY <2>1, AfterSealData
  <2> QED
    BY <1>3, <2>1, <2>2, QueueKept, QuietData, SMT
<1>5. CASE SealRefused(sel, now)
  <2>1. /\ UNCHANGED <<disk, chain, ledger, pending, drain, sealed, exposed>>
        /\ pool' = hygiene_vs_committed_ledger(pool, ledger) /\ AfterSeal
    BY <1>5 DEF SealRefused, files, ledgerVars
  <2>2. SyncBound' /\ pc' = "sync"
    BY <2>1, AfterSealData
  <2> QED
    BY <1>3, <2>1, <2>2, QueueCleaned, QuietData, SMT
<1>6. ASSUME SealCommits(sel, now) \/ SealPersistFails(sel, now)
      PROVE  ~poisoned /\ Fits(SealedBlock(sel, now))
  BY <1>3, <1>6, SealedFits, SMT
     DEF sel, SealCommits, SealPersistFails, Sealable, DataInv, NodeInv, PoisonInv
<1>7. CASE SealCommits(sel, now)
  <2>1. Commit(SealedBlock(sel, now)) /\ AfterSeal /\ exposed' = exposed
    BY <1>7 DEF SealCommits
  <2>2. SyncBound' /\ pc' = "sync"
    BY <2>1, AfterSealData
  <2>3. QueueStep /\ SealOrder
    BY <1>3, <1>7, CommitQueue, CommitSealsInOrder DEF sel
  <2> QED
    BY <1>3, <1>6, <1>7, <2>1, <2>2, <2>3, SMT DEF DataOK, LedgerKind, LedgerGrown
<1>8. CASE SealPersistFails(sel, now)
  <2>1. /\ Down /\ UNCHANGED <<pending, exposed>> /\ sealed' = 0 /\ sync' = NoSync
        /\ disk' \in {disk, Append(disk, SealedBlock(sel, now))}
    BY <1>8 DEF SealPersistFails, Down
  <2>2. SyncBound'
    BY <2>1, SyncTypes, SMT DEF SyncBound, NoSync
  <2> QED
    BY <1>3, <1>6, <1>8, <2>1, <2>2, QueueLost, NothingSealed, SMT
       DEF DataOK, LedgerKind, LedgerStopped
<1> QED
  BY <1>2, <1>4, <1>5, <1>7, <1>8, SMT

\* Every step is of the kinds above.
LEMMA NextData ==
  ASSUME DataInv, [Next]_vars
  PROVE  DataOK
<1>1. CASE Start \/ Crash
  BY <1>1, StartStopData
<1>2. CASE Tick
  <2>1. CASE ExitPoisoned
    BY <2>1, StartStopData
  <2>2. CASE DrainBegin \/ DrainUnreadable \/ DrainOne \/ DrainEnd \/ DrainEndFails
    BY <2>2, DrainData
  <2>3. CASE \E b \in NetworkBlocks : SyncAppend(b) \/ SyncPersistFails(b)
    BY <2>3, NetworkBlockData
  <2>4. CASE SyncPeerOk \/ SyncPeerErr \/ SyncsDone
    BY <2>4, SyncData
  <2>5. CASE Hygiene \/ Gossip
    BY <2>5, ShowData
  <2>6. CASE Seal
    BY <2>6, SealData
  <2> QED
    BY <1>2, <2>1, <2>2, <2>3, <2>4, <2>5, <2>6, SMT DEF Tick
<1>3. CASE Inbound
  <2>1. CASE \E tx \in PeerTx : InboundTx(tx)
    BY <2>1, PeerTxAssumption, SubmissionData
  <2>2. CASE \E b \in NetworkBlocks : InboundBlock(b) \/ InboundBlockPersistFails(b)
    BY <2>2, NetworkBlockData
  <2>3. CASE InboundGetBlocks
    BY <2>3, ShowData
  <2> QED
    BY <1>3, <2>1, <2>2, <2>3 DEF Inbound
<1>4. CASE (\E tx \in Tx : Send(tx) \/ UiSend(tx)) \/ SendTorn \/ UNCHANGED vars
  BY <1>4, SubmissionData
<1> QED
  BY <1>1, <1>2, <1>3, <1>4, SMT DEF Next

\* The first state.
LEMMA InitData ==
  ASSUME Init
  PROVE  DataInv
<1>1. BlockTypes
  <2>1. <<>> \in Seq(Block)
    BY SMT
  <2> QED
    BY <2>1 DEF Init, BlockTypes
<1>2. LedgerInv
  BY ReplayEmpty, GenesisAssumption, SMT DEF Init, LedgerInv, IsUp
<1>3. QueueInv
  <2>1. <<>> \in Seq(Tx) /\ PoolOK(EmptyPool) /\ FifoOK(<<>>)
    BY EmptyPoolOK, SMT
  <2> QED
    BY <2>1 DEF Init, NoDrain, QueueInv, DrainInv
<1>4. SyncBound
  BY PeersAssumption, SMT DEF Init, NoSync, SyncBound
<1> QED
  BY <1>1, <1>2, <1>3, <1>4, InitKeeps, SMT DEF DataInv

\* Chain, ledger, pool and queue file keep agreeing, in every behaviour.
THEOREM DataInvariant == Spec => []DataInv
<1>1. DataInv /\ [Next]_vars => DataInv'
  <2> SUFFICES ASSUME DataInv, [Next]_vars
               PROVE  DataInv'
    OBVIOUS
  <2>1. DataOK
    BY NextData
  <2>2. NodeInv'
    BY NextKeeps DEF DataInv
  <2> QED
    BY <2>1, <2>2, LedgerKindKeeps DEF DataOK, QueueStep, DataInv
<1> QED
  BY <1>1, InitData, PTL DEF Spec

\* Type correctness of the node.
THEOREM NodeTypeCorrect == Spec => []TypeOK
<1>1. DataInv => TypeOK
  <2> SUFFICES ASSUME DataInv
               PROVE  TypeOK
    OBVIOUS
  <2>1. sync \in [left : 0 .. Peers + BookPeers, all_ok : BOOLEAN, appended : BOOLEAN]
    BY SyncTypes, SMT
  <2>2. pool \in Pools
    BY QueueParts DEF PoolOK
  <2> QED
    BY <2>1, <2>2 DEF DataInv, NodeInv, ControlTypes, BlockTypes, LedgerInv, QueueInv, TypeOK
<1> QED
  BY <1>1, DataInvariant, PTL

\* The ledger in memory is the replay of the chain in memory, also after
\* rollback_last_block, and the block file always replays at the next start.
THEOREM LedgerReplaysChain == Spec => []LedgerIsReplay
<1>1. DataInv => LedgerIsReplay
  BY DEF DataInv, LedgerInv, LedgerIsReplay
<1> QED
  BY <1>1, DataInvariant, PTL

\* No transfer is in the chain twice: a nonce is spent once (apply_transaction),
\* whichever way a second copy arrives.
THEOREM TransfersCommitOnce == Spec => []CommittedOnce
<1>1. DataInv => CommittedOnce
  BY ReplayedOnce, SMT DEF DataInv, BlockTypes, LedgerInv, CommittedOnce
<1> QED
  BY <1>1, DataInvariant, PTL

\* The balances of the ledger and the burned fees add up to the genesis supply.
THEOREM SupplyConserved == Spec => []SupplyIsConserved
<1>1. DataInv => SupplyIsConserved
  BY ReplayBurns, SMT DEF DataInv, BlockTypes, LedgerInv, SupplyIsConserved
<1> QED
  BY <1>1, DataInvariant, PTL

\* The pool's set, its index by sender and nonce and its FIFO order agree, within
\* capacity, after every operation of the node.
THEOREM PoolStaysConsistent == Spec => []PoolIsConsistent
<1>1. DataInv => PoolIsConsistent
  BY QueueParts, PoolOrder DEF PoolOK, PoolIsConsistent
<1> QED
  BY <1>1, DataInvariant, PTL

\* No step loses a queued or pooled transfer without one of the code's reasons.
THEOREM EveryLossExplained == Spec => LossIsExplained
<1>1. DataInv /\ [Next]_vars => [\A tx \in Held : Explained(tx)]_vars
  BY NextData DEF DataOK, QueueStep
<1> QED
  BY <1>1, DataInvariant, PTL DEF Spec, LossIsExplained

\* A sealed block has its transfers in the order in which the pool received them.
THEOREM SealsInPoolOrder == Spec => SealsInArrivalOrder
<1>1. DataInv /\ [Next]_vars =>
        [sealed' > sealed =>
           LET txs == chain'[sealed'].txs
           IN  \A i, j \in DOMAIN txs : i < j => Position(txs[i]) < Position(txs[j])]_vars
  BY NextData DEF DataOK, SealOrder
<1> QED
  BY <1>1, DataInvariant, PTL DEF Spec, SealsInArrivalOrder

=============================================================================
