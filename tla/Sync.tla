-------------------------------- MODULE Sync --------------------------------
(***************************************************************************)
(* Several nodes over the network: the catch-up and gossip part of         *)
(* `node run` (node/src/main.rs, cmd_run), sync_from_peer and              *)
(* push_block_to_peer (node/src/network.rs), and the sessions that answer  *)
(* them.  A node holds its mutex during all of a catch-up, network waits   *)
(* included, and a session needs the mutex of its own node to answer.      *)
(*                                                                         *)
(* A block is the list of the nodes that sealed it and its ancestors: its  *)
(* length is its height and its Front is its parent.  It does not commit   *)
(* to the genesis.  Ledger and pool are in Node, files in ChainStore: here *)
(* a node may have something to seal or not, and an append may fail.       *)
(***************************************************************************)
EXTENDS PeerBook

CONSTANTS
  Node,                  \* the nodes; a node is also its address
  Genesis,               \* the genesis commitments in use
  Networks,              \* the configurations considered
  Batch,                 \* MAX_BLOCKS_PER_BATCH
  MaxRoundsPerCall,      \* SyncWorkBudget::max_rounds_per_call
  MaxBlocksPerCall,      \* SyncWorkBudget::max_blocks_per_call
  GossipThreshold,       \* GOSSIP_FAIL_THRESHOLD
  GossipCooldown         \* GOSSIP_COOLDOWN_SECS, in ticks

\* --peers and genesis of every node, and the nodes that are given transactions.
\* Bounds: no node seals above max_height, and there are at most max_faults
\* crashes, failed appends, lost messages and clock steps.
Network ==
  [peers : [Node -> SUBSET Node], genesis : [Node -> Genesis], sealers : SUBSET Node,
   max_height : Nat, max_faults : Nat]

\* A call with a budget of zero is refused, so run always has one above zero.
validate_sync_work_budget == {MaxRoundsPerCall, MaxBlocksPerCall} \subseteq Nat \ {0}

ASSUME ListedAssumption ==
  \A S \in SUBSET Node : Listed(S) \in Seq(S) /\ Range(Listed(S)) = S
ASSUME NetworksAssumption == Networks \subseteq Network
ASSUME SyncAssumption ==
  /\ validate_sync_work_budget
  /\ Batch \in Nat \ {0}
  /\ {GossipThreshold, GossipCooldown} \subseteq Nat

VARIABLES
  peers,            \* --peers of every node (fixed)
  genesis,          \* the genesis of every node (fixed)
  sealers,          \* the nodes that are ever given transactions (fixed)
  bounds,           \* max_height and max_faults (fixed)
  pc,               \* where the main thread is
  todo,             \* the peers its loop has still to call
  all_ok,           \* no call of this loop failed
  sealing_allowed,
  chain,            \* Blockchain::blocks and chain.blocks, without the genesis block
  poisoned,         \* BlockStore::is_poisoned
  conn,             \* the outbound connection of the main thread, or NoConn
  total,            \* blocks appended in this call of sync_from_peer
  rounds,           \* rounds of this call
  told,             \* the height each peer had when it last answered in this loop
  cut,              \* the peers whose call of this loop stopped on the budget
  sealed,           \* the block to gossip, or NoBlock
  gossip,           \* failure streak and cooldown of gossip to each peer
  pushes,           \* blocks written to a peer that its session has not handled
  book,             \* the peer book in memory
  saved,            \* peer_book.toml
  faults            \* faults so far

config == <<peers, genesis, sealers, bounds>>
call == <<conn, total, rounds>>
loop == <<todo, all_ok, told, cut>>
vars == <<config, call, loop, pc, sealing_allowed, chain, poisoned, sealed, gossip,
          pushes, book, saved, faults>>

NoConn == [stage |-> "none"]
NoBlock == <<>>
Unheard == -1
NoCooldown == -1   \* none, or one that ended before the last tick

Height(n) == Len(chain[n])

Tip(n) == IF chain[n] = <<>> THEN <<>> ELSE Last(chain[n])

Up(n) == pc[n] # "down"

\* The listener is spawned after the first catch-up.
Listening(n) == pc[n] \notin {"down", "initial"}

\* The main thread holds the mutex from the start of a tick to the last sync.
MutexFree(n) == pc[n] \in {"idle", "gossip"}

Calling(n) == pc[n] \in {"initial", "gate", "sync"} /\ todo[n] # <<>>

\* The main thread of n is in a call to p.
Calls(n, p) == conn[n] # NoConn /\ Head(todo[n]) = p

Fault == faults < bounds.max_faults /\ faults' = faults + 1

-----------------------------------------------------------------------------
(***************************************************************************)
(* Start, tick and the loops over peers.                                   *)
(***************************************************************************)
Init ==
  /\ \E net \in Networks :
       /\ peers = net.peers /\ genesis = net.genesis /\ sealers = net.sealers
       /\ bounds = [max_height |-> net.max_height, max_faults |-> net.max_faults]
  /\ pc = [n \in Node |-> "down"]
  /\ todo = [n \in Node |-> <<>>]
  /\ all_ok = [n \in Node |-> TRUE]
  /\ sealing_allowed = [n \in Node |-> FALSE]
  /\ chain = [n \in Node |-> <<>>]
  /\ poisoned = [n \in Node |-> FALSE]
  /\ conn = [n \in Node |-> NoConn]
  /\ total = [n \in Node |-> 0]
  /\ rounds = [n \in Node |-> 0]
  /\ told = [n \in Node |-> [p \in Node |-> Unheard]]
  /\ cut = [n \in Node |-> {}]
  /\ sealed = [n \in Node |-> NoBlock]
  /\ gossip = [n \in Node |-> [p \in Node |-> [streak |-> 0, cooldown |-> NoCooldown]]]
  /\ pushes = {}
  /\ book = [n \in Node |-> <<>>]
  /\ saved = [n \in Node |-> <<>>]
  /\ faults = 0

BeginLoop(n, step, targets) ==
  /\ pc' = [pc EXCEPT ![n] = step]
  /\ todo' = [todo EXCEPT ![n] = targets]
  /\ all_ok' = [all_ok EXCEPT ![n] = TRUE]
  /\ told' = [told EXCEPT ![n] = [p \in Node |-> Unheard]]
  /\ cut' = [cut EXCEPT ![n] = {}]

\* peer_book.toml is read; some time dt has passed since it was written.
load_or_empty(n, dt) == Aged(saved[n], dt)

save(n, entries) == saved' = [saved EXCEPT ![n] = entries]

\* The book is merged with --peers and saved before the first catch-up.
Start(n) ==
  /\ pc[n] = "down"
  /\ \E dt \in {0, LongAgo} :
       LET merged == merge_seed(load_or_empty(n, dt), peers[n])
       IN  /\ book' = [book EXCEPT ![n] = merged]
           /\ save(n, merged)
  /\ sealing_allowed' = [sealing_allowed EXCEPT ![n] = (peers[n] = {})]
  /\ BeginLoop(n, IF peers[n] = {} THEN "idle" ELSE "initial", Listed(peers[n]))
  /\ poisoned' = [poisoned EXCEPT ![n] = FALSE]
  /\ gossip' = [gossip EXCEPT ![n] = [p \in Node |-> [streak |-> 0, cooldown |-> NoCooldown]]]
  /\ UNCHANGED <<config, call, chain, sealed, pushes, faults>>

\* Mutant of EndInitial: sealing is allowed once every peer was tried.
EndInitialTried(n) ==
  /\ pc[n] = "initial" /\ todo[n] = <<>>
  /\ sealing_allowed' = [sealing_allowed EXCEPT ![n] = TRUE]
  /\ save(n, book[n])
  /\ BeginLoop(n, "idle", <<>>)
  /\ UNCHANGED <<config, call, chain, poisoned, sealed, gossip, pushes, book, faults>>

\* The first catch-up is over; the listener starts.
EndInitial(n) ==
  /\ pc[n] = "initial" /\ todo[n] = <<>>
  /\ sealing_allowed' = [sealing_allowed EXCEPT ![n] = all_ok[n]]
  /\ save(n, book[n])
  /\ BeginLoop(n, "idle", <<>>)
  /\ UNCHANGED <<config, call, chain, poisoned, sealed, gossip, pushes, book, faults>>

\* The rest of the tick up to its end-of-tick sync, which a node without peers
\* does not have: a block is sealed and persisted, or there is none to seal.
SealThenSync(n, aged) ==
  /\ \/ UNCHANGED <<chain, sealed>>
     \/ /\ sealing_allowed'[n]
        /\ n \in sealers /\ Height(n) < bounds.max_height
        /\ chain' = [chain EXCEPT ![n] = Append(@, Append(Tip(n), n))]
        /\ sealed' = [sealed EXCEPT ![n] = IF peers[n] = {} THEN NoBlock ELSE Append(Tip(n), n)]
  /\ IF peers[n] = {} THEN BeginLoop(n, "idle", <<>>)
     ELSE BeginLoop(n, "sync",
            filter_available(aged, sync_candidates(aged, Listed(peers[n]))))

\* What is left of a cooldown after dt; a clock set back lengthens or revives it.
Cooled(g, dt) ==
  [g EXCEPT !.cooldown = IF @ = NoCooldown THEN NoCooldown ELSE @ - dt]

\* The sleep is over: the tick takes the mutex (a poisoned node exits instead).
\* Time has passed by dt.  While the gate is closed the peers are asked first.
Tick(n, dt) ==
  /\ pc[n] = "idle" /\ ~poisoned[n]
  /\ book' = [book EXCEPT ![n] = Aged(@, dt)]
  /\ gossip' = [gossip EXCEPT ![n] = [p \in Node |-> Cooled(gossip[n][p], dt)]]
  /\ UNCHANGED sealing_allowed
  /\ \/ /\ ~sealing_allowed[n]
        /\ BeginLoop(n, "gate", Listed(peers[n]))
        /\ UNCHANGED <<chain, sealed>>
     \/ /\ sealing_allowed[n]
        /\ SealThenSync(n, book'[n])
  /\ UNCHANGED <<config, call, poisoned, pushes, saved>>

Wake(n) == Tick(n, 1) /\ UNCHANGED faults

\* The same after the wall clock was set back.
WakeInThePast(n) == Tick(n, -1) /\ Fault

\* The peers were asked again because the gate was closed.
EndGate(n) ==
  /\ pc[n] = "gate" /\ todo[n] = <<>>
  /\ sealing_allowed' = [sealing_allowed EXCEPT ![n] = all_ok[n]]
  /\ SealThenSync(n, book[n])
  /\ UNCHANGED <<config, call, poisoned, gossip, pushes, book, saved, faults>>

\* The end-of-tick sync is over; the mutex is released before gossip.
EndSync(n) ==
  /\ pc[n] = "sync" /\ todo[n] = <<>>
  /\ save(n, book[n])
  /\ IF sealed[n] = NoBlock THEN BeginLoop(n, "idle", <<>>)
     ELSE BeginLoop(n, "gossip", Kept(Listed(peers[n]),
                                   {p \in peers[n] : gossip[n][p].cooldown <= 0}))
  /\ UNCHANGED <<config, call, sealing_allowed, chain, poisoned, sealed, gossip, pushes,
                 book, faults>>

EndGossip(n) ==
  /\ pc[n] = "gossip" /\ todo[n] = <<>>
  /\ sealed' = [sealed EXCEPT ![n] = NoBlock]
  /\ BeginLoop(n, "idle", <<>>)
  /\ UNCHANGED <<config, call, sealing_allowed, chain, poisoned, gossip, pushes, book,
                 saved, faults>>

\* The process ends: its connections break, and what was written to it is lost.
Dies(n) ==
  /\ BeginLoop(n, "down", <<>>)
  /\ conn' = [m \in Node |-> IF m = n THEN NoConn
                            ELSE IF Calls(m, n)
                            THEN [conn[m] EXCEPT !.stage = "broken"]
                            ELSE conn[m]]
  /\ total' = [total EXCEPT ![n] = 0]
  /\ rounds' = [rounds EXCEPT ![n] = 0]
  /\ sealed' = [sealed EXCEPT ![n] = NoBlock]
  /\ pushes' = {x \in pushes : x.to # n}
  /\ UNCHANGED <<config, sealing_allowed, chain, poisoned, gossip, book, saved>>

\* A sealed block cannot be persisted: it is rolled back and the node exits.  (If
\* the file kept the block, this is a seal and a Crash.)
SealFails(n) ==
  /\ pc[n] = "idle" /\ ~poisoned[n] /\ sealing_allowed[n]
  /\ n \in sealers /\ Height(n) < bounds.max_height
  /\ Fault
  /\ Dies(n)

ExitPoisoned(n) ==
  /\ pc[n] = "idle" /\ poisoned[n]
  /\ Dies(n)
  /\ UNCHANGED faults

Crash(n) ==
  /\ Up(n)
  /\ Fault
  /\ Dies(n)

-----------------------------------------------------------------------------
(***************************************************************************)
(* A call of sync_from_peer: rounds of connect, handshake, GET_BLOCKS and  *)
(* append.                                                                 *)
(***************************************************************************)
\* The call ended; outcome is "ok", "stopped" (on the budget) or "err".
Returns(n, outcome) ==
  LET p == Head(todo[n])
  IN  /\ conn' = [conn EXCEPT ![n] = NoConn]
      /\ total' = [total EXCEPT ![n] = 0]
      /\ rounds' = [rounds EXCEPT ![n] = 0]
      /\ todo' = [todo EXCEPT ![n] = Tail(@)]
      /\ IF pc[n] = "sync"
         THEN /\ book' = [book EXCEPT ![n] = IF outcome = "err" THEN record_fail(@, p)
                                            ELSE record_ok(@, p)]
              /\ UNCHANGED <<all_ok, cut>>
         ELSE /\ all_ok' = [all_ok EXCEPT ![n] = @ /\ outcome # "err"]
              /\ cut' = [cut EXCEPT ![n] = IF outcome = "stopped" THEN @ \cup {p} ELSE @]
              /\ UNCHANGED book

Rest == <<config, pc, sealing_allowed, sealed, gossip, saved>>

BudgetSpent(n) == total[n] >= MaxBlocksPerCall \/ rounds[n] >= MaxRoundsPerCall

\* The call is refused by a poisoned store, stops on the budget, or connects.
Connect(n) ==
  /\ Calling(n) /\ conn[n] = NoConn
  /\ \/ poisoned[n] /\ Returns(n, "err")
     \/ ~poisoned[n] /\ ~BudgetSpent(n) /\ ~Listening(Head(todo[n])) /\ Returns(n, "err")
     \/ ~poisoned[n] /\ BudgetSpent(n) /\ Returns(n, "stopped")
     \/ /\ ~poisoned[n] /\ ~BudgetSpent(n) /\ Listening(Head(todo[n]))
        /\ conn' = [conn EXCEPT ![n] = [stage |-> "hello"]]
        /\ UNCHANGED <<todo, all_ok, cut, total, rounds, book>>
  /\ UNCHANGED <<Rest, told, chain, poisoned, pushes, faults>>

\* Mutant of SameNetwork: the commitments are not compared.
AnyNetwork(n, p) == TRUE

\* handshake_responder and handshake_initiator compare commitments (and the wire
\* version, which is one here).
SameNetwork(n, p) == genesis[n] = genesis[p]

\* peer_session_setup and the handshake, by the session of p that serves n.
Setup(n, p) ==
  /\ Calls(n, p) /\ conn[n].stage = "hello"
  /\ MutexFree(p)
  /\ conn' = [conn EXCEPT ![n].stage = IF poisoned[p] \/ ~SameNetwork(n, p)
                                      THEN "broken" ELSE "ready"]
  /\ UNCHANGED <<config, loop, total, rounds, pc, sealing_allowed, chain, poisoned, sealed,
                 gossip, pushes, book, saved, faults>>

\* At most a batch of blocks, from a height on.
blocks_from_height_limited(p, from) ==
  SubSeq(chain[p], from, AtMost(from + Batch - 1, Height(p)))

\* GET_BLOCKS is answered from the first height n lacks.
Serve(n, p) ==
  /\ Calls(n, p) /\ conn[n].stage = "ready" /\ pc[n] # "gossip"
  /\ MutexFree(p)
  /\ conn' = [conn EXCEPT ![n] =
                IF poisoned[p] THEN [stage |-> "broken"]
                ELSE [stage |-> "answered",
                      batch |-> blocks_from_height_limited(p, Height(n) + 1)]]
  /\ told' = [told EXCEPT ![n][p] = IF poisoned[p] \/ pc[n] = "sync" THEN @ ELSE Height(p)]
  /\ UNCHANGED <<config, total, rounds, pc, todo, all_ok, cut, sealing_allowed, chain,
                 poisoned, sealed, gossip, pushes, book, saved, faults>>

\* Mutant of Extends: any block above the tip is taken.
ExtendsAbove(blocks, b) == Len(b) > Len(blocks)

\* try_append_network_block: the next height, and the tip as parent.
Extends(blocks, b) ==
  /\ Len(b) = Len(blocks) + 1
  /\ Front(b) = IF blocks = <<>> THEN <<>> ELSE Last(blocks)

validate_linear_sync_batch(blocks, batch) ==
  \A i \in DOMAIN batch : Extends(blocks \o SubSeq(batch, 1, i - 1), batch[i])

\* Mutant of Receive: the budget is only looked at before a round.
ReceiveWholeBatch(n) ==
  LET batch == conn[n].batch
  IN  /\ conn[n].stage = "answered"
      /\ \/ /\ batch = <<>>
           /\ Returns(n, "ok")
           /\ UNCHANGED chain
        \/ /\ batch # <<>> /\ ~validate_linear_sync_batch(chain[n], batch)
           /\ Returns(n, "err")
           /\ UNCHANGED chain
        \/ /\ batch # <<>> /\ validate_linear_sync_batch(chain[n], batch)
           /\ chain' = [chain EXCEPT ![n] = @ \o batch]
           /\ conn' = [conn EXCEPT ![n] = NoConn]
           /\ total' = [total EXCEPT ![n] = @ + Len(batch)]
           /\ rounds' = [rounds EXCEPT ![n] = @ + 1]
           /\ UNCHANGED <<todo, all_ok, cut, book>>
      /\ UNCHANGED <<Rest, told, poisoned, pushes, faults>>

\* The reply arrives: nothing new, a batch that does not extend the chain, or a
\* batch that is appended as far as the budget allows.  The byte budget may end
\* the call after any batch that was appended.
Receive(n) ==
  LET batch == conn[n].batch
      room == MaxBlocksPerCall - total[n]
      taken == SubSeq(batch, 1, AtMost(Len(batch), room))
  IN  /\ conn[n].stage = "answered"
      /\ \/ /\ batch = <<>>
           /\ Returns(n, "ok")
           /\ UNCHANGED chain
        \/ /\ batch # <<>> /\ ~validate_linear_sync_batch(chain[n], batch)
           /\ Returns(n, "err")
           /\ UNCHANGED chain
        \/ /\ batch # <<>> /\ validate_linear_sync_batch(chain[n], batch)
           /\ chain' = [chain EXCEPT ![n] = @ \o taken]
           /\ \/ Returns(n, "stopped")
              \/ /\ Len(batch) < room
                 /\ conn' = [conn EXCEPT ![n] = NoConn]
                 /\ total' = [total EXCEPT ![n] = @ + Len(taken)]
                 /\ rounds' = [rounds EXCEPT ![n] = @ + 1]
                 /\ UNCHANGED <<todo, all_ok, cut, book>>
      /\ UNCHANGED <<Rest, told, poisoned, pushes, faults>>

\* The same, but one of the appends cannot be persisted.  The block is rolled
\* back in memory, which the poisoned node shows to nobody; chain is what the
\* next start finds in the file, with that block or without it.
ReceiveFails(n) ==
  /\ conn[n].stage = "answered"
  /\ validate_linear_sync_batch(chain[n], conn[n].batch)
  /\ Fault
  /\ \E i \in DOMAIN conn[n].batch :
       /\ i <= MaxBlocksPerCall - total[n]
       /\ \E k \in {i - 1, i} :
            chain' = [chain EXCEPT ![n] = @ \o SubSeq(conn[n].batch, 1, k)]
  /\ poisoned' = [poisoned EXCEPT ![n] = TRUE]
  /\ Returns(n, "err")
  /\ UNCHANGED <<Rest, told, pushes>>

-----------------------------------------------------------------------------
(***************************************************************************)
(* Gossip of the sealed block, after the mutex is released.                *)
(***************************************************************************)
GossipReturns(n, ok) ==
  LET p == Head(todo[n])
      streak == gossip[n][p].streak + 1
  IN  /\ conn' = [conn EXCEPT ![n] = NoConn]
      /\ todo' = [todo EXCEPT ![n] = Tail(@)]
      /\ gossip' = [gossip EXCEPT ![n][p] =
                      IF ok THEN [@ EXCEPT !.streak = 0]
                      ELSE IF streak >= GossipThreshold
                      THEN [streak |-> 0, cooldown |-> GossipCooldown]
                      ELSE [@ EXCEPT !.streak = streak]]

GossipRest == <<config, total, rounds, all_ok, told, cut, pc, sealing_allowed, chain,
                poisoned, sealed, book, saved>>

GossipConnect(n) ==
  /\ pc[n] = "gossip" /\ todo[n] # <<>> /\ conn[n] = NoConn
  /\ \/ ~Listening(Head(todo[n])) /\ GossipReturns(n, FALSE)
     \/ /\ Listening(Head(todo[n]))
        /\ conn' = [conn EXCEPT ![n] = [stage |-> "hello"]]
        /\ UNCHANGED <<todo, gossip>>
  /\ UNCHANGED <<GossipRest, pushes, faults>>

\* The frame is written; nothing tells n what becomes of it.
Push(n, p) ==
  /\ Calls(n, p) /\ pc[n] = "gossip" /\ conn[n].stage = "ready"
  /\ pushes' = pushes \cup {[to |-> p, block |-> sealed[n]]}
  /\ GossipReturns(n, TRUE)
  /\ UNCHANGED <<GossipRest, faults>>

\* apply_predecoded, PredecodedInbound::Block: stale and unfit blocks are ignored
\* (the session quotas are in PeerSessions).
ApplyPush(x) ==
  /\ x \in pushes /\ MutexFree(x.to)
  /\ pushes' = pushes \ {x}
  /\ chain' = [chain EXCEPT ![x.to] =
                 IF ~poisoned[x.to] /\ Len(x.block) > Len(@) /\ Extends(@, x.block)
                 THEN Append(@, x.block) ELSE @]
  /\ UNCHANGED <<config, call, loop, pc, sealing_allowed, poisoned, sealed, gossip, book,
                 saved, faults>>

\* The block of a push cannot be persisted; the file may hold it all the same.
ApplyPushFails(x) ==
  /\ x \in pushes /\ MutexFree(x.to)
  /\ ~poisoned[x.to] /\ Extends(chain[x.to], x.block)
  /\ Fault
  /\ pushes' = pushes \ {x}
  /\ chain' \in {chain, [chain EXCEPT ![x.to] = Append(@, x.block)]}
  /\ poisoned' = [poisoned EXCEPT ![x.to] = TRUE]
  /\ UNCHANGED <<config, call, loop, pc, sealing_allowed, sealed, gossip, book, saved>>

-----------------------------------------------------------------------------
(***************************************************************************)
(* Calls that fail.                                                        *)
(***************************************************************************)
Waiting(n) == conn[n].stage \in {"hello", "ready"}

CallFails(n) ==
  \/ pc[n] = "gossip" /\ GossipReturns(n, FALSE) /\ UNCHANGED <<GossipRest, pushes>>
  \/ pc[n] # "gossip" /\ Returns(n, "err") /\ UNCHANGED <<Rest, told, chain, poisoned, pushes>>

\* The peer closed the connection.
Reset(n) ==
  /\ conn[n].stage = "broken"
  /\ CallFails(n)
  /\ UNCHANGED faults

\* Mutant of Timeout: after a read timeout the same peer is called again.
TimeoutRetries(n) ==
  /\ Waiting(n)
  /\ pc[Head(todo[n])] \in {"gate", "sync"}
  /\ conn' = [conn EXCEPT ![n] = NoConn]
  /\ UNCHANGED <<config, loop, total, rounds, pc, sealing_allowed, chain, poisoned, sealed,
                 gossip, pushes, book, saved, faults>>

\* The read timeout passes while the peer holds its mutex for calls of its own.
Timeout(n) ==
  /\ Waiting(n)
  /\ pc[Head(todo[n])] \in {"gate", "sync"}
  /\ CallFails(n)
  /\ UNCHANGED faults

\* The network fails at any moment of a call.
Lost(n) ==
  /\ conn[n] # NoConn
  /\ Fault
  /\ CallFails(n)

-----------------------------------------------------------------------------
NodeNext(n) ==
  \/ Start(n) \/ EndInitial(n) \/ Wake(n) \/ WakeInThePast(n) \/ EndGate(n)
  \/ EndSync(n) \/ EndGossip(n) \/ ExitPoisoned(n)
  \/ Connect(n) \/ Receive(n) \/ GossipConnect(n) \/ Reset(n) \/ Timeout(n)
  \/ SealFails(n) \/ ReceiveFails(n) \/ Crash(n) \/ Lost(n)

Next ==
  \/ \E n \in Node : NodeNext(n)
  \/ \E n, p \in Node : Setup(n, p) \/ Serve(n, p) \/ Push(n, p)
  \/ \E x \in pushes : ApplyPush(x) \/ ApplyPushFails(x)

\* What the main thread does by itself.
Main(n) ==
  \/ EndInitial(n) \/ Wake(n) \/ EndGate(n) \/ EndSync(n)
  \/ EndGossip(n) \/ ExitPoisoned(n) \/ Connect(n) \/ Receive(n) \/ GossipConnect(n)
  \/ Reset(n) \/ \E p \in Node : Push(n, p)

(***************************************************************************)
(* Threads run.  A session that waits for the mutex gets it sooner or      *)
(* later: it is free during every sleep of the tick.  Nothing makes the    *)
(* operator start a node.                                                  *)
(***************************************************************************)
Fairness ==
  \A n \in Node :
    /\ WF_vars(Main(n)) /\ WF_vars(Timeout(n))
    /\ SF_vars(\E p \in Node : Setup(n, p)) /\ SF_vars(\E p \in Node : Serve(n, p))

Spec == Init /\ [][Next]_vars /\ Fairness

-----------------------------------------------------------------------------
(***************************************************************************)
(* Properties.                                                             *)
(***************************************************************************)
Block == UNION {[1 .. k -> Node] : k \in 1 .. bounds.max_height}

\* The state is well typed; in particular todo is never empty during a call, and
\* a node that is down has no connection.
TypeOK ==
  /\ peers \in [Node -> SUBSET Node] /\ genesis \in [Node -> Genesis] /\ sealers \subseteq Node
  /\ pc \in [Node -> {"down", "initial", "idle", "gate", "sync", "gossip"}]
  /\ all_ok \in [Node -> BOOLEAN] /\ sealing_allowed \in [Node -> BOOLEAN]
  /\ poisoned \in [Node -> BOOLEAN]
  /\ \A n \in Node :
       /\ Range(todo[n]) \subseteq Node
       /\ conn[n] # NoConn => todo[n] # <<>> /\ pc[n] \in {"initial", "gate", "sync", "gossip"}
       /\ total[n] \in 0 .. MaxBlocksPerCall /\ rounds[n] \in 0 .. MaxRoundsPerCall
       /\ Range(chain[n]) \subseteq Block
       /\ sealed[n] \in Block \cup {NoBlock}
       /\ \A p \in DOMAIN book[n] : book[n][p] \in PeerEntry
  /\ \A x \in pushes : x.to \in Node /\ x.block \in Block
  /\ faults \in 0 .. bounds.max_faults

\* The handshake keeps networks apart, although a block does not name its
\* genesis: no node holds a block of a node with another genesis.
NetworksStayApart ==
  \A n \in Node : \A i \in DOMAIN chain[n] : \A s \in Range(chain[n][i]) :
    genesis[s] = genesis[n]

\* With one node that seals, all others hold a prefix of its chain, in whatever
\* order its blocks come by sync and by gossip, and whatever fails.
OneSealerOneChain ==
  \A s, n \in Node : sealers = {s} => IsPrefix(chain[n], chain[s])

\* When sealing becomes allowed, every configured peer has answered, and the node
\* is at least as high as each of them said, except for a peer whose call was
\* stopped by the budget.
GateOpensAfterCatchUp ==
  [][\A n \in Node : \A p \in peers[n] :
       ~sealing_allowed[n] /\ sealing_allowed'[n] =>
         /\ told[n][p] # Unheard
         /\ p \in cut[n] \/ told[n][p] <= Height(n)]_vars

\* A tick ends, and so does the catch-up at the start, even if two nodes wait for
\* each other with their mutexes held.
TickEnds ==
  \A n \in Node : []<>(pc[n] \in {"idle", "down"})

\* n configures the only sealer as its peer.
Follows(n, s) == sealers = {s} /\ s \in peers[n] /\ genesis[n] = genesis[s]

\* A node that follows the only sealer ends up with the chain of the sealer once
\* both stay up, whatever the book holds against that peer.  If the sealer has
\* peers of its own, both may hold their mutexes while they wait for each other
\* and time out together; then the calls of the follower must stop timing out.
CatchesUp ==
  \A n \in Node :
    /\ <>[](Up(n) /\ \A s \in sealers : Up(s))
    /\ <>[][\A s \in sealers : peers[s] # {} => ~Timeout(n)]_vars
    => <>[](\A s \in Node : Follows(n, s) => chain[n] = chain[s])

=============================================================================
