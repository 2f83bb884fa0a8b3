----------------------------- MODULE SyncProofs -----------------------------
(***************************************************************************)
(* Proofs about Sync, for any number of nodes, peers and faults, any       *)
(* batches and budgets, and any genesis of each node: how blocks move,     *)
(* where the blocks that a node holds come from, and what a node knows of  *)
(* its peers when it starts to seal.                                       *)
(***************************************************************************)
EXTENDS Sync, WellFoundedInduction, TLAPS

-----------------------------------------------------------------------------
(***************************************************************************)
(* Sequences.                                                              *)
(***************************************************************************)
LEMMA SameItems ==
  ASSUME NEW S, NEW s \in Seq(S), NEW t \in Seq(S), Len(s) = Len(t),
         \A i \in 1 .. Len(t) : s[i] = t[i]
  PROVE  s = t
  OBVIOUS

LEMMA Appended ==
  ASSUME NEW S, NEW x \in S, NEW s \in Seq(S)
  PROVE  /\ Append(s, x) \in Seq(S) /\ Append(s, x) = s \o <<x>>
         /\ Len(Append(s, x)) = Len(s) + 1 /\ Append(s, x)[Len(s) + 1] = x
         /\ \A i \in 1 .. Len(s) : Append(s, x)[i] = s[i]
  OBVIOUS

LEMMA Joined ==
  ASSUME NEW S, NEW s \in Seq(S), NEW t \in Seq(S)
  PROVE  /\ s \o t \in Seq(S) /\ Len(s \o t) = Len(s) + Len(t)
         /\ \A i \in 1 .. Len(s) : (s \o t)[i] = s[i]
         /\ \A i \in Len(s) + 1 .. Len(s) + Len(t) : (s \o t)[i] = t[i - Len(s)]
  OBVIOUS

LEMMA Rested ==
  ASSUME NEW S, NEW s \in Seq(S), s # <<>>
  PROVE  /\ Head(s) \in S /\ Tail(s) \in Seq(S) /\ Len(Tail(s)) = Len(s) - 1
         /\ \A i \in 1 .. Len(Tail(s)) : Tail(s)[i] = s[i + 1]
  OBVIOUS

LEMMA RestCovers ==
  ASSUME NEW S, NEW s \in Seq(S), s # <<>>, NEW i \in 1 .. Len(s)
  PROVE  s[i] = Head(s) \/ \E j \in 1 .. Len(Tail(s)) : Tail(s)[j] = s[i]
<1>1. CASE i = 1
  BY <1>1
<1>2. CASE i # 1
  <2>1. i - 1 \in 1 .. Len(Tail(s)) /\ Tail(s)[i - 1] = s[i]
    BY <1>2
  <2>2. QED
    BY <2>1, Zenon
<1>3. QED
  BY <1>1, <1>2

LEMMA Sliced ==
  ASSUME NEW S, NEW s, NEW a \in Int, NEW z \in Int, \A i \in a .. z : s[i] \in S
  PROVE  /\ SubSeq(s, a, z) \in Seq(S)
         /\ Len(SubSeq(s, a, z)) = IF z < a THEN 0 ELSE z - a + 1
         /\ \A i \in 1 .. z - a + 1 : SubSeq(s, a, z)[i] = s[a + i - 1]
  OBVIOUS

LEMMA WholeSlice ==
  ASSUME NEW S, NEW s \in Seq(S)
  PROVE  SubSeq(s, 1, Len(s)) = s
  OBVIOUS

-----------------------------------------------------------------------------
(***************************************************************************)
(* How blocks move.  Every step of every node, session or fault leaves     *)
(* blocks where they are or moves them in one of four ways (Moves).        *)
(***************************************************************************)
Blocks == Seq(Node)

Conns ==
  [stage : {"none", "hello", "ready", "broken"}]
    \cup [stage : {"answered", "broken"}, batch : Seq(Blocks)]

\* What a proof needs of the types of blocks and connections.
FlowOK ==
  /\ sealers \subseteq Node
  /\ pc \in [Node -> {"down", "initial", "idle", "gate", "sync", "gossip"}]
  /\ DOMAIN todo = Node
  /\ chain \in [Node -> Seq(Blocks)]
  /\ sealed \in [Node -> Blocks]
  /\ conn \in [Node -> Conns]
  /\ pushes \subseteq [to : Node, block : Blocks]

\* A connection belongs to the call at the head of todo, and has passed the
\* handshake once it is "ready".
CallsOK ==
  \A n \in Node :
    /\ conn[n] # NoConn => todo[n] # <<>> /\ pc[n] \in {"initial", "gate", "sync", "gossip"}
    /\ conn[n].stage = "ready" => genesis[Head(todo[n])] = genesis[n]

\* Block b is in the chain of n, is its newly sealed block, or is on its way to it.
Holds(n, b) ==
  \/ \E i \in 1 .. Len(chain[n]) : b = chain[n][i]
  \/ b = sealed[n]
  \/ conn[n].stage = "answered" /\ \E i \in 1 .. Len(conn[n].batch) : b = conn[n].batch[i]
  \/ [to |-> n, block |-> b] \in pushes

\* A call has never appended more than its budget.
BudgetOK == total \in [Node -> 0 .. MaxBlocksPerCall]


\* The budgets and the size of a batch are positive.
LEMMA Budgets == {MaxBlocksPerCall, MaxRoundsPerCall, Batch} \subseteq Nat \ {0}
  BY SyncAssumption, Zenon DEF validate_sync_work_budget

\* Changes of the control state only: blocks stay where they are or are dropped,
\* and a connection is the same, or fresh, or closed, or broken.
Quiet ==
  /\ UNCHANGED <<config, chain>>
  /\ sealed' \in [Node -> Blocks]
  /\ \A n \in Node : sealed'[n] \in {sealed[n], NoBlock}
  /\ conn' \in [Node -> Conns]
  /\ \A n \in Node : conn'[n].stage = "answered" => conn'[n] = conn[n]
  /\ pushes' \subseteq pushes

\* No block is a sequence too.
LEMMA NoBlockType == NoBlock \in Blocks
  BY DEF NoBlock, Blocks

\* A connection is closed, and its call may be over.
LEMMA Closed ==
  ASSUME FlowOK, CallsOK, NEW n \in Node, UNCHANGED <<config, pc, chain, sealed, pushes>>,
         conn' = [conn EXCEPT ![n] = NoConn],
         todo' \in {todo, [todo EXCEPT ![n] = Tail(@)]}
  PROVE  FlowOK' /\ CallsOK' /\ Quiet
<1>1. \A m \in Node : conn'[m] = IF m = n THEN NoConn ELSE conn[m]
  BY Zenon DEF FlowOK
<1>2. DOMAIN todo' = Node /\ \A m \in Node \ {n} : todo'[m] = todo[m]
  BY Zenon DEF FlowOK
<1>3. NoConn \in Conns /\ NoConn.stage = "none"
  BY Zenon DEF NoConn, Conns
<1>4. conn' \in [Node -> Conns]
  BY <1>3, Zenon DEF FlowOK
<1>5. FlowOK'
  BY <1>2, <1>4, Zenon DEF FlowOK, config
<1>6. CallsOK'
  BY <1>1, <1>2, <1>3 DEF CallsOK, config
<1>7. Quiet
  BY <1>1, <1>3, <1>4, Zenon DEF Quiet, FlowOK
<1>8. QED
  BY <1>5, <1>6, <1>7, Zenon

\* A connection is made for the call at the head of todo.
LEMMA Opened ==
  ASSUME FlowOK, CallsOK, NEW n \in Node, UNCHANGED <<config, pc, chain, sealed, pushes, todo>>,
         conn' = [conn EXCEPT ![n] = [stage |-> "hello"]],
         todo[n] # <<>>, pc[n] \in {"initial", "gate", "sync", "gossip"}
  PROVE  FlowOK' /\ CallsOK' /\ Quiet
<1>1. \A m \in Node : conn'[m] = IF m = n THEN [stage |-> "hello"] ELSE conn[m]
  BY Zenon DEF FlowOK
<1>2. conn' \in [Node -> Conns]
  BY Zenon DEF FlowOK, Conns
<1>3. FlowOK'
  BY <1>2, Zenon DEF FlowOK, config
<1>4. CallsOK'
  BY <1>1 DEF CallsOK, config
<1>5. Quiet
  BY <1>1, <1>2, Zenon DEF Quiet, FlowOK
<1>6. QED
  BY <1>3, <1>4, <1>5, Zenon

\* A loop begins on a thread that has no connection.
LEMMA LoopBegins ==
  ASSUME FlowOK, CallsOK, NEW n \in Node, UNCHANGED <<config, conn, chain, pushes>>,
         NEW step \in {"down", "initial", "idle", "gate", "sync", "gossip"}, NEW targets,
         pc[n] \in {"down", "idle"} \/ todo[n] = <<>>,
         BeginLoop(n, step, targets),
         sealed' \in {sealed, [sealed EXCEPT ![n] = NoBlock]}
  PROVE  FlowOK' /\ CallsOK' /\ Quiet
<1>1. conn[n] = NoConn /\ conn[n].stage # "ready"
  BY DEF CallsOK, NoConn
<1>2. /\ pc' \in [Node -> {"down", "initial", "idle", "gate", "sync", "gossip"}]
      /\ DOMAIN todo' = Node
      /\ \A m \in Node \ {n} : pc'[m] = pc[m] /\ todo'[m] = todo[m]
  BY Zenon DEF BeginLoop, FlowOK
<1>3. sealed' \in [Node -> Blocks] /\ \A m \in Node : sealed'[m] \in {sealed[m], NoBlock}
  BY NoBlockType, Zenon DEF FlowOK
<1>4. FlowOK'
  BY <1>2, <1>3, Zenon DEF FlowOK, config
<1>5. CallsOK'
  BY <1>1, <1>2 DEF CallsOK, config
<1>6. Quiet
  BY <1>3, Zenon DEF Quiet, FlowOK
<1>7. QED
  BY <1>4, <1>5, <1>6, Zenon

\* The calls that begin, end or fail.
LEMMA CallSteps ==
  ASSUME FlowOK, CallsOK, NEW n \in Node,
         \/ Connect(n) \/ GossipConnect(n) \/ Reset(n) \/ Timeout(n) \/ Lost(n)
  PROVE  FlowOK' /\ CallsOK' /\ Quiet
<1> USE DEF FlowOK
<1>1. CASE Connect(n)
  <2>1. UNCHANGED <<config, pc, chain, sealed, pushes>>
    BY <1>1, Zenon DEF Connect, Rest
  <2>2. CASE conn' = [conn EXCEPT ![n] = [stage |-> "hello"]] /\ UNCHANGED todo
    BY <1>1, <2>1, <2>2, Opened, Zenon DEF Connect, Calling
  <2>3. CASE \E outcome : Returns(n, outcome)
    BY <2>1, <2>3, Closed, Zenon DEF Returns
  <2>4. QED
    BY <1>1, <2>2, <2>3, Zenon DEF Connect
<1>2. CASE GossipConnect(n)
  <2>1. UNCHANGED <<config, pc, chain, sealed, pushes>>
    BY <1>2, Zenon DEF GossipConnect, GossipRest
  <2>2. CASE conn' = [conn EXCEPT ![n] = [stage |-> "hello"]] /\ UNCHANGED todo
    BY <1>2, <2>1, <2>2, Opened, Zenon DEF GossipConnect
  <2>3. CASE GossipReturns(n, FALSE)
    BY <2>1, <2>3, Closed, Zenon DEF GossipReturns
  <2>4. QED
    BY <1>2, <2>2, <2>3, Zenon DEF GossipConnect
<1>3. CASE Reset(n) \/ Timeout(n) \/ Lost(n)
  <2>1. CallFails(n)
    BY <1>3, Zenon DEF Reset, Timeout, Lost
  <2>2. UNCHANGED <<config, pc, chain, sealed, pushes>>
    BY <2>1, Zenon DEF CallFails, GossipRest, Rest
  <2>3. /\ conn' = [conn EXCEPT ![n] = NoConn]
        /\ todo' = [todo EXCEPT ![n] = Tail(@)]
    BY <2>1, Zenon DEF CallFails, GossipReturns, Returns
  <2>4. QED
    BY <2>2, <2>3, Closed, Zenon
<1>4. QED
  BY <1>1, <1>2, <1>3, Zenon

\* The start and the ends of the loops, without the seal.
LEMMA LoopSteps ==
  ASSUME FlowOK, CallsOK, NEW n \in Node,
         \/ Start(n) \/ EndInitial(n) \/ EndSync(n) \/ EndGossip(n)
  PROVE  FlowOK' /\ CallsOK' /\ Quiet
<1>1. CASE Start(n)
  BY <1>1, LoopBegins, Zenon DEF Start, call
<1>2. CASE EndInitial(n)
  BY <1>2, LoopBegins, Zenon DEF EndInitial, call
<1>3. CASE EndSync(n)
  <2>1. \/ BeginLoop(n, "idle", <<>>)
        \/ \E targets : BeginLoop(n, "gossip", targets)
    BY <1>3, Zenon DEF EndSync
  <2>2. UNCHANGED <<config, conn, chain, sealed, pushes>> /\ todo[n] = <<>>
    BY <1>3, Zenon DEF EndSync, call
  <2>3. QED
    BY <2>1, <2>2, LoopBegins, Zenon
<1>4. CASE EndGossip(n)
  BY <1>4, LoopBegins, Zenon DEF EndGossip, call
<1>5. QED
  BY <1>1, <1>2, <1>3, <1>4, Zenon

\* The process ends.
LEMMA DeathSteps ==
  ASSUME FlowOK, CallsOK, NEW n \in Node, SealFails(n) \/ ExitPoisoned(n) \/ Crash(n)
  PROVE  FlowOK' /\ CallsOK' /\ Quiet
<1>1. Dies(n)
  BY Zenon DEF SealFails, ExitPoisoned, Crash
<1>2. /\ UNCHANGED <<config, chain>> /\ pc' = [pc EXCEPT ![n] = "down"]
      /\ todo' = [todo EXCEPT ![n] = <<>>]
  BY <1>1, Zenon DEF Dies, BeginLoop
<1>3. /\ sealed' = [sealed EXCEPT ![n] = NoBlock]
      /\ pushes' \subseteq pushes
  BY <1>1, Zenon DEF Dies
<1>4. /\ conn' \in [Node -> Conns]
      /\ conn'[n] = NoConn
      /\ \A m \in Node \ {n} :
           \/ conn'[m] = conn[m]
           \/ conn[m] # NoConn /\ conn'[m].stage = "broken"
  BY <1>1 DEF Dies, Calls, FlowOK, Conns, NoConn
<1>5. sealed' \in [Node -> Blocks] /\ \A m \in Node : sealed'[m] \in {sealed[m], NoBlock}
  BY <1>3, NoBlockType, Zenon DEF FlowOK
<1>6. FlowOK' /\ Quiet
  <2>1. FlowOK'
    BY <1>2, <1>3, <1>4, <1>5, Zenon DEF FlowOK, config
  <2>2. \A m \in Node : conn'[m].stage = "answered" => conn'[m] = conn[m]
    BY <1>4 DEF NoConn
  <2>3. QED
    BY <1>2, <1>3, <1>4, <1>5, <2>1, <2>2, Zenon DEF Quiet
<1>7. CallsOK'
  <2>1. /\ genesis' = genesis /\ conn'[n] = NoConn
        /\ \A m \in Node \ {n} : pc'[m] = pc[m] /\ todo'[m] = todo[m]
    BY <1>2, <1>4, Zenon DEF FlowOK, config
  <2>2. ASSUME NEW m \in Node \ {n}
        PROVE  /\ conn'[m] # NoConn => conn[m] # NoConn
               /\ conn'[m].stage = "ready" => conn[m].stage = "ready"
    BY <1>4, Zenon
  <2>3. NoConn.stage # "ready"
    BY Zenon DEF NoConn
  <2>4. QED
    BY <2>1, <2>2, <2>3, Zenon DEF CallsOK
<1>8. QED
  BY <1>6, <1>7, Zenon

\* A block is sealed, or none, and a loop begins.
Seals(n) ==
  /\ n \in sealers /\ Height(n) < bounds.max_height
  /\ chain' = [chain EXCEPT ![n] = Append(@, Append(Tip(n), n))]
  /\ \E b \in {NoBlock, Append(Tip(n), n)} : sealed' = [sealed EXCEPT ![n] = b]
  /\ UNCHANGED <<config, conn, pushes>>

\* The tip of a chain is one of its blocks, or none.
LEMMA TipType ==
  ASSUME FlowOK, NEW n \in Node
  PROVE  /\ Tip(n) \in Blocks
         /\ chain[n] = <<>> => Tip(n) = <<>>
         /\ chain[n] # <<>> => Len(chain[n]) > 0 /\ Tip(n) = chain[n][Len(chain[n])]
         /\ Append(Tip(n), n) \in Blocks
<1>1. chain[n] \in Seq(Blocks)
  BY Zenon DEF FlowOK
<1>2. chain[n] # <<>> => Len(chain[n]) > 0 /\ chain[n][Len(chain[n])] \in Blocks
  BY <1>1
<1>3. Tip(n) \in Blocks
  BY <1>2, NoBlockType, Zenon DEF Tip, Last, NoBlock
<1>4. Append(Tip(n), n) \in Blocks
  BY <1>3 DEF Blocks
<1>5. QED
  BY <1>2, <1>3, <1>4, Zenon DEF Tip, Last

\* The steps of the tick that may seal.
LEMMA SealSteps ==
  ASSUME FlowOK, CallsOK, NEW n \in Node, Wake(n) \/ WakeInThePast(n) \/ EndGate(n)
  PROVE  FlowOK' /\ CallsOK' /\ (Quiet \/ Seals(n))
<1>1. /\ UNCHANGED <<config, conn, pushes>>
      /\ pc[n] \in {"down", "idle"} \/ todo[n] = <<>>
  BY Zenon DEF Wake, WakeInThePast, Tick, EndGate, call
<1>2. \E step \in {"down", "initial", "idle", "gate", "sync", "gossip"} : \E targets :
        BeginLoop(n, step, targets)
  <2>1. CASE \E dt : Tick(n, dt)
    BY <2>1, Zenon DEF Tick, SealThenSync
  <2>2. CASE EndGate(n)
    BY <2>2, Zenon DEF EndGate, SealThenSync
  <2>3. QED
    BY <2>1, <2>2, Zenon DEF Wake, WakeInThePast
<1>3. UNCHANGED <<chain, sealed>> \/ Seals(n)
  <2>1. CASE \E dt : Tick(n, dt)
    BY <1>1, <2>1, Zenon DEF Tick, SealThenSync, Seals
  <2>2. CASE EndGate(n)
    BY <1>1, <2>2, Zenon DEF EndGate, SealThenSync, Seals
  <2>3. QED
    BY <2>1, <2>2, Zenon DEF Wake, WakeInThePast
<1>4. CASE UNCHANGED <<chain, sealed>>
  BY <1>1, <1>2, <1>4, LoopBegins, Zenon
<1>5. CASE Seals(n)
  <2>1. PICK step \in {"down", "initial", "idle", "gate", "sync", "gossip"} : \E targets :
          BeginLoop(n, step, targets)
    BY <1>2, Zenon
  <2>2. /\ pc' \in [Node -> {"down", "initial", "idle", "gate", "sync", "gossip"}]
        /\ DOMAIN todo' = Node
        /\ \A m \in Node \ {n} : pc'[m] = pc[m] /\ todo'[m] = todo[m]
    BY <2>1 DEF BeginLoop, FlowOK
  <2>3. conn[n] = NoConn /\ conn[n].stage # "ready"
    BY <1>1 DEF CallsOK, NoConn
  <2>4. CallsOK'
    BY <1>1, <2>2, <2>3 DEF CallsOK, config
  <2>5. chain' \in [Node -> Seq(Blocks)]
    BY <1>5, TipType DEF Seals, FlowOK
  <2>6. sealed' \in [Node -> Blocks]
    <3>1. PICK b \in {NoBlock, Append(Tip(n), n)} : sealed' = [sealed EXCEPT ![n] = b]
      BY <1>5, Zenon DEF Seals
    <3>2. b \in Blocks
      BY TipType, NoBlockType, Zenon
    <3>3. QED
      BY <3>1, <3>2, Zenon DEF FlowOK
  <2>7. FlowOK'
    BY <1>1, <2>2, <2>5, <2>6, Zenon DEF FlowOK, config
  <2>8. QED
    BY <1>5, <2>4, <2>7, Zenon
<1>6. QED
  BY <1>3, <1>4, <1>5, Zenon

\* The handshake.
LEMMA SetupStep ==
  ASSUME FlowOK, CallsOK, NEW n \in Node, NEW p \in Node, Setup(n, p)
  PROVE  FlowOK' /\ CallsOK' /\ Quiet
<1>1. PICK stage \in {"broken", "ready"} :
        /\ conn' = [conn EXCEPT ![n].stage = stage]
        /\ stage = "ready" => genesis[n] = genesis[p]
  BY Zenon DEF Setup, SameNetwork
<1>2. /\ UNCHANGED <<config, pc, todo, chain, sealed, pushes>>
      /\ conn[n] # NoConn /\ conn[n].stage = "hello" /\ Head(todo[n]) = p
  BY Zenon DEF Setup, Calls, loop
<1>3. conn'[n] = [stage |-> stage]
  BY <1>1, <1>2, Zenon DEF FlowOK, Conns
<1>4. \A m \in Node \ {n} : conn'[m] = conn[m]
  BY <1>1, Zenon DEF FlowOK
<1>5. conn' \in [Node -> Conns]
  BY <1>1, <1>3, <1>4 DEF FlowOK, Conns
<1>6. FlowOK'
  BY <1>2, <1>5, Zenon DEF FlowOK, config
<1>7. CallsOK'
  BY <1>1, <1>2, <1>3, <1>4 DEF CallsOK, config
<1>8. Quiet
  BY <1>2, <1>3, <1>4, <1>5 DEF Quiet, FlowOK
<1>9. QED
  BY <1>6, <1>7, <1>8, Zenon

\* A request of n is answered with blocks of p, which is on the same network.
Answers(n, p) ==
  /\ UNCHANGED <<config, chain, sealed, pushes>>
  /\ genesis[p] = genesis[n]
  /\ \A m \in Node \ {n} : conn'[m] = conn[m]
  /\ conn'[n].stage = "answered" =>
       \A i \in 1 .. Len(conn'[n].batch) :
         \E j \in 1 .. Len(chain[p]) : conn'[n].batch[i] = chain[p][j]

\* GET_BLOCKS and its answer.
LEMMA ServeStep ==
  ASSUME FlowOK, CallsOK, NEW n \in Node, NEW p \in Node, Serve(n, p)
  PROVE  FlowOK' /\ CallsOK' /\ Answers(n, p)
<1> DEFINE batch == blocks_from_height_limited(p, Height(n) + 1)
           from == Height(n) + 1
           to == AtMost(from + Batch - 1, Height(p))
<1>1. /\ UNCHANGED <<config, pc, todo, chain, sealed, pushes>>
      /\ conn[n] # NoConn /\ conn[n].stage = "ready" /\ Head(todo[n]) = p
      /\ conn' \in {[conn EXCEPT ![n] = c] :
                      c \in {[stage |-> "broken"], [stage |-> "answered", batch |-> batch]}}
  BY Zenon DEF Serve, Calls
<1>2. chain[p] \in Seq(Blocks) /\ chain[n] \in Seq(Blocks)
  BY Zenon DEF FlowOK
<1>3. from \in Int /\ from >= 1 /\ to \in Int /\ to <= Len(chain[p])
  BY <1>2, Budgets DEF Height, AtMost
<1>4. \A i \in from .. to : i \in 1 .. Len(chain[p]) /\ chain[p][i] \in Blocks
  BY <1>2, <1>3
<1>5. batch = SubSeq(chain[p], from, to)
  BY Zenon DEF blocks_from_height_limited
<1>6. /\ batch \in Seq(Blocks)
      /\ Len(batch) = IF from <= to THEN to - from + 1 ELSE 0
      /\ \A i \in 1 .. to - from + 1 : batch[i] = chain[p][from + i - 1]
  <2> HIDE DEF batch, from, to
  <2>1. QED
    BY <1>3, <1>4, <1>5, Sliced
<1>7. \A i \in 1 .. Len(batch) : \E j \in 1 .. Len(chain[p]) : batch[i] = chain[p][j]
  <2> HIDE DEF batch, from, to
  <2>1. QED
    BY <1>3, <1>4, <1>6
<1>8. PICK c \in {[stage |-> "broken"], [stage |-> "answered", batch |-> batch]} :
        conn' = [conn EXCEPT ![n] = c]
  BY <1>1, Zenon
<1> HIDE DEF batch, from, to
<1>9. c \in Conns
  BY <1>6, <1>8 DEF Conns
<1>10. conn'[n] = c /\ \A m \in Node \ {n} : conn'[m] = conn[m]
  BY <1>8, Zenon DEF FlowOK
<1>11. FlowOK'
  BY <1>1, <1>8, <1>9, Zenon DEF FlowOK, config
<1>12. CallsOK'
  BY <1>1, <1>8, <1>10 DEF CallsOK, config
<1>13. Answers(n, p)
  BY <1>1, <1>7, <1>8, <1>10 DEF Answers, CallsOK
<1>14. QED
  BY <1>11, <1>12, <1>13, Zenon

\* n appends blocks that were on their way to it, each at its height.
Takes(n, t) ==
  /\ UNCHANGED <<config, sealed>>
  /\ t \in Seq(Blocks)
  /\ chain' = [chain EXCEPT ![n] = @ \o t]
  /\ \A i \in 1 .. Len(t) : Holds(n, t[i]) /\ Len(t[i]) = Len(chain[n]) + i
  /\ \A m \in Node : conn'[m].stage = "answered" => conn'[m] = conn[m]
  /\ pushes' \subseteq pushes

\* A batch that passed validate_linear_sync_batch has a block for every height
\* from the tip on, and so has a part of it from its start.
LEMMA LinearBatch ==
  ASSUME NEW blocks \in Seq(Blocks), NEW batch \in Seq(Blocks),
         validate_linear_sync_batch(blocks, batch),
         NEW k \in 0 .. Len(batch)
  PROVE  /\ SubSeq(batch, 1, k) \in Seq(Blocks)
         /\ Len(SubSeq(batch, 1, k)) = k
         /\ \A i \in 1 .. k : /\ SubSeq(batch, 1, k)[i] = batch[i]
                              /\ Len(batch[i]) = Len(blocks) + i
<1>1. \A j \in 0 .. Len(batch) :
        /\ SubSeq(batch, 1, j) \in Seq(Blocks)
        /\ Len(SubSeq(batch, 1, j)) = j
        /\ \A i \in 1 .. j : SubSeq(batch, 1, j)[i] = batch[i]
  <2>1. TAKE j \in 0 .. Len(batch)
  <2>2. \A i \in 1 .. j : batch[i] \in Blocks
    OBVIOUS
  <2>3. QED
    BY <2>2, Sliced
<1>2. ASSUME NEW i \in 1 .. k PROVE Len(batch[i]) = Len(blocks) + i
  <2>1. Extends(blocks \o SubSeq(batch, 1, i - 1), batch[i])
    BY DEF validate_linear_sync_batch
  <2>2. i - 1 \in 0 .. Len(batch)
    OBVIOUS
  <2>3. Len(blocks \o SubSeq(batch, 1, i - 1)) = Len(blocks) + (i - 1)
    BY <1>1, <2>2, Joined
  <2>4. QED
    BY <2>1, <2>3 DEF Extends
<1>3. QED
  BY <1>1, <1>2, Zenon

\* What the chain of n is after an append of t.
LEMMA TakenChain ==
  ASSUME FlowOK, NEW n \in Node, NEW t \in Seq(Blocks), chain' = [chain EXCEPT ![n] = @ \o t]
  PROVE  /\ chain' \in [Node -> Seq(Blocks)]
         /\ \A m \in Node \ {n} : chain'[m] = chain[m]
         /\ Len(chain'[n]) = Len(chain[n]) + Len(t)
         /\ \A i \in 1 .. Len(chain[n]) : chain'[n][i] = chain[n][i]
         /\ \A i \in Len(chain[n]) + 1 .. Len(chain[n]) + Len(t) :
              chain'[n][i] = t[i - Len(chain[n])]
<1>1. chain[n] \in Seq(Blocks) /\ chain \in [Node -> Seq(Blocks)]
  BY Zenon DEF FlowOK
<1>2. chain'[n] = chain[n] \o t /\ \A m \in Node \ {n} : chain'[m] = chain[m]
  BY <1>1, Zenon
<1>3. /\ chain[n] \o t \in Seq(Blocks)
      /\ Len(chain[n] \o t) = Len(chain[n]) + Len(t)
      /\ \A i \in 1 .. Len(chain[n]) + Len(t) :
           (chain[n] \o t)[i] = IF i <= Len(chain[n]) THEN chain[n][i] ELSE t[i - Len(chain[n])]
  BY <1>1, Joined
<1>4. chain' \in [Node -> Seq(Blocks)]
  BY <1>1, <1>3, Zenon
<1>5. QED
  BY <1>1, <1>2, <1>3, <1>4

\* The answer is appended, or a part of it, or not.
LEMMA ReceiveSteps ==
  ASSUME FlowOK, CallsOK, BudgetOK, NEW n \in Node, Receive(n) \/ ReceiveFails(n)
  PROVE  FlowOK' /\ CallsOK' /\ (Quiet \/ \E t : Takes(n, t))
<1> DEFINE batch == conn[n].batch
<1>1. /\ UNCHANGED <<config, pc, sealed, pushes>>
      /\ conn[n].stage = "answered"
      /\ conn' = [conn EXCEPT ![n] = NoConn]
      /\ todo' \in {todo, [todo EXCEPT ![n] = Tail(@)]}
  BY Zenon DEF Receive, ReceiveFails, Returns, Rest
<1>2. batch \in Seq(Blocks)
  BY <1>1, Zenon DEF FlowOK, Conns
<1>3. CASE UNCHANGED chain
  BY <1>1, <1>3, Closed, Zenon
<1>4. CASE ~UNCHANGED chain
  <2>1. \E k \in 0 .. Len(batch) :
          /\ validate_linear_sync_batch(chain[n], batch)
          /\ chain' = [chain EXCEPT ![n] = @ \o SubSeq(batch, 1, k)]
    <3>1. CASE Receive(n)
      <4>1. /\ batch # <<>> /\ validate_linear_sync_batch(chain[n], batch)
            /\ chain' = [chain EXCEPT ![n] = @ \o
                 SubSeq(batch, 1, AtMost(Len(batch), MaxBlocksPerCall - total[n]))]
        BY <1>4, <3>1, Zenon DEF Receive
      <4>2. total[n] \in 0 .. MaxBlocksPerCall
        BY Zenon DEF BudgetOK
      <4>3. AtMost(Len(batch), MaxBlocksPerCall - total[n]) \in 0 .. Len(batch)
        BY <1>2, <4>2, Budgets DEF AtMost
      <4>4. QED
        BY <4>1, <4>3, Zenon
    <3>2. CASE ReceiveFails(n)
      <4>1. PICK i \in DOMAIN batch : \E k \in {i - 1, i} :
              chain' = [chain EXCEPT ![n] = @ \o SubSeq(batch, 1, k)]
        BY <3>2, Zenon DEF ReceiveFails
      <4>2. i \in 1 .. Len(batch) /\ Len(batch) \in Nat
        BY <1>2, <4>1
      <4>3. \A k \in {i - 1, i} : k \in 0 .. Len(batch)
        <5> HIDE DEF batch
        <5> QED
          BY <4>2
      <4>4. validate_linear_sync_batch(chain[n], batch)
        BY <3>2, Zenon DEF ReceiveFails
      <4>5. QED
        BY <4>1, <4>3, <4>4, Zenon
    <3>3. QED
      BY <3>1, <3>2, Zenon
  <2>2. PICK k \in 0 .. Len(batch) :
          /\ validate_linear_sync_batch(chain[n], batch)
          /\ chain' = [chain EXCEPT ![n] = @ \o SubSeq(batch, 1, k)]
    BY <2>1, Zenon
  <2> DEFINE t == SubSeq(batch, 1, k)
  <2>3. chain[n] \in Seq(Blocks)
    BY Zenon DEF FlowOK
  <2>4. /\ t \in Seq(Blocks) /\ Len(t) = k
        /\ \A i \in 1 .. k : t[i] = batch[i] /\ Len(batch[i]) = Len(chain[n]) + i
    BY <1>2, <2>2, <2>3, LinearBatch, Zenon
  <2>5. chain' = [chain EXCEPT ![n] = @ \o t]
    BY <2>2, Zenon
  <2>6. Len(batch) \in Nat
    BY <1>2
  <2> HIDE DEF t
  <2>7. \A i \in 1 .. Len(t) : Holds(n, t[i]) /\ Len(t[i]) = Len(chain[n]) + i
    <3>1. TAKE i \in 1 .. Len(t)
    <3>2. i \in 1 .. k
      BY <2>4, Zenon
    <3>3. t[i] = batch[i] /\ Len(t[i]) = Len(chain[n]) + i
      BY <2>4, <3>2, Zenon
    <3>4. i \in 1 .. Len(batch)
      <4> HIDE DEF batch
      <4> QED
        BY <2>6, <3>2
    <3>5. Holds(n, batch[i])
      BY <1>1, <3>4, Zenon DEF Holds
    <3>6. QED
      BY <3>3, <3>5, Zenon
  <2>8. \A m \in Node : conn'[m] = IF m = n THEN NoConn ELSE conn[m]
    BY <1>1, Zenon DEF FlowOK
  <2>9. Takes(n, t)
    <3>1. \A m \in Node : conn'[m].stage = "answered" => conn'[m] = conn[m]
      BY <2>8 DEF NoConn
    <3>2. t \in Seq(Blocks)
      BY <2>4, Zenon
    <3>3. UNCHANGED <<config, sealed>> /\ pushes' \subseteq pushes
      BY <1>1, Zenon
    <3>4. QED
      BY <2>5, <2>7, <3>1, <3>2, <3>3, Zenon DEF Takes
  <2>10. chain' \in [Node -> Seq(Blocks)]
    BY <2>4, <2>9, TakenChain, Zenon DEF Takes
  <2>11. conn' \in [Node -> Conns] /\ DOMAIN todo' = Node
        /\ \A m \in Node \ {n} : todo'[m] = todo[m]
    BY <1>1, Zenon DEF FlowOK, Conns, NoConn
  <2>12. FlowOK'
    BY <1>1, <2>10, <2>11, Zenon DEF FlowOK, config
  <2>13. CallsOK'
    BY <1>1, <2>8, <2>11 DEF CallsOK, NoConn, config
  <2>14. QED
    BY <2>9, <2>12, <2>13, Zenon
<1>5. QED
  BY <1>3, <1>4, Zenon

\* A newly sealed block of n is sent to p, which is on the same network.
Sends(n, p) ==
  /\ UNCHANGED <<config, chain, sealed>>
  /\ genesis[p] = genesis[n]
  /\ \A m \in Node : conn'[m].stage = "answered" => conn'[m] = conn[m]
  /\ pushes' = pushes \cup {[to |-> p, block |-> sealed[n]]}

\* push_block_to_peer.
LEMMA PushStep ==
  ASSUME FlowOK, CallsOK, NEW n \in Node, NEW p \in Node, Push(n, p)
  PROVE  FlowOK' /\ CallsOK' /\ Sends(n, p)
<1>1. /\ UNCHANGED <<config, pc, chain, sealed>>
      /\ conn[n].stage = "ready" /\ Head(todo[n]) = p
      /\ conn' = [conn EXCEPT ![n] = NoConn]
      /\ todo' = [todo EXCEPT ![n] = Tail(@)]
      /\ pushes' = pushes \cup {[to |-> p, block |-> sealed[n]]}
  BY Zenon DEF Push, Calls, GossipReturns, GossipRest
<1>2. \A m \in Node : conn'[m] = IF m = n THEN NoConn ELSE conn[m]
  BY <1>1, Zenon DEF FlowOK
<1>3. conn' \in [Node -> Conns] /\ DOMAIN todo' = Node
      /\ \A m \in Node \ {n} : todo'[m] = todo[m]
  BY <1>1, Zenon DEF FlowOK, Conns, NoConn
<1>4. pushes' \subseteq [to : Node, block : Blocks]
  BY <1>1 DEF FlowOK
<1>5. FlowOK'
  BY <1>1, <1>3, <1>4, Zenon DEF FlowOK, config
<1>6. CallsOK'
  BY <1>1, <1>2, <1>3, Zenon DEF CallsOK, NoConn, config
<1>7. Sends(n, p)
  BY <1>1, <1>2 DEF Sends, CallsOK, NoConn
<1>8. QED
  BY <1>5, <1>6, <1>7, Zenon

\* A pushed block is handled by the session of its receiver.
LEMMA ApplySteps ==
  ASSUME FlowOK, CallsOK, NEW x \in pushes, ApplyPush(x) \/ ApplyPushFails(x)
  PROVE  FlowOK' /\ CallsOK' /\ (Quiet \/ \E n \in Node : \E t : Takes(n, t))
<1>1. /\ UNCHANGED <<config, call, loop, pc, sealed>>
      /\ pushes' = pushes \ {x}
  BY Zenon DEF ApplyPush, ApplyPushFails
<1>2. x.to \in Node /\ x.block \in Blocks /\ x = [to |-> x.to, block |-> x.block]
  BY Zenon DEF FlowOK
<1>3. CallsOK'
  BY <1>1, Zenon DEF CallsOK, config, call, loop
<1>4. CASE UNCHANGED chain
  <2>1. FlowOK'
    BY <1>1, <1>4, Zenon DEF FlowOK, config, call, loop
  <2>2. Quiet
    BY <1>1, <1>4, Zenon DEF Quiet, FlowOK, call
  <2>3. QED
    BY <1>3, <2>1, <2>2, Zenon
<1>5. CASE ~UNCHANGED chain
  <2> DEFINE n == x.to
             t == <<x.block>>
  <2>1. chain[n] \in Seq(Blocks) /\ chain \in [Node -> Seq(Blocks)]
    BY <1>2, Zenon DEF FlowOK
  <2>2. Extends(chain[n], x.block) /\ chain' = [chain EXCEPT ![n] = Append(chain[n], x.block)]
    BY <1>2, <1>5, <2>1 DEF ApplyPush, ApplyPushFails
  <2>3. t \in Seq(Blocks) /\ Len(t) = 1 /\ t[1] = x.block
    BY <1>2
  <2>4. Append(chain[n], x.block) = chain[n] \o t
    BY <1>2, <2>1, Appended, Zenon
  <2>5. chain' = [chain EXCEPT ![n] = @ \o t]
    BY <2>2, <2>4, Zenon
  <2>6. Holds(n, x.block) /\ Len(x.block) = Len(chain[n]) + 1
    BY <1>2, <2>2, Zenon DEF Holds, Extends
  <2> HIDE DEF t
  <2>7. Takes(n, t)
    BY <1>1, <2>3, <2>5, <2>6 DEF Takes, call
  <2>8. chain' \in [Node -> Seq(Blocks)]
    BY <1>2, <2>3, <2>5, TakenChain, Zenon
  <2>9. FlowOK'
    BY <1>1, <2>8, Zenon DEF FlowOK, config, call, loop
  <2>10. QED
    BY <1>2, <1>3, <2>7, <2>9, Zenon
<1>6. QED
  BY <1>4, <1>5, Zenon

-----------------------------------------------------------------------------
\* The budget of a call is respected by every step.
LEMMA BudgetStep == ASSUME BudgetOK, FlowOK, [Next]_vars PROVE BudgetOK'
<1> USE DEF BudgetOK
<1>1. CASE UNCHANGED total
  BY <1>1, Zenon
<1>2. ASSUME NEW n \in Node, total' = [total EXCEPT ![n] = 0] PROVE BudgetOK'
  BY <1>2, Budgets
<1>3. ASSUME NEW n \in Node, Receive(n) PROVE BudgetOK'
  <2> DEFINE batch == conn[n].batch
             room == MaxBlocksPerCall - total[n]
             taken == SubSeq(batch, 1, AtMost(Len(batch), room))
  <2>1. CASE \E outcome : Returns(n, outcome)
    BY <1>2, <2>1, Zenon DEF Returns
  <2>2. CASE Len(batch) < room /\ total' = [total EXCEPT ![n] = @ + Len(taken)]
    <3>1. batch \in Seq(Blocks)
      BY <1>3, Zenon DEF Receive, FlowOK, Conns
    <3>2. total[n] \in 0 .. MaxBlocksPerCall /\ Len(batch) \in Nat /\ room \in Int
      BY <3>1, Budgets
    <3>3. AtMost(Len(batch), room) = Len(batch)
      BY <2>2, <3>2 DEF AtMost
    <3>4. Len(taken) = Len(batch)
      BY <3>1, <3>3, WholeSlice, Zenon
    <3>5. total[n] + Len(taken) \in 0 .. MaxBlocksPerCall
      <4>1. MaxBlocksPerCall \in Nat /\ Len(batch) < MaxBlocksPerCall - total[n]
        BY <2>2, Budgets, Zenon
      <4> HIDE DEF taken, batch
      <4>2. QED
        BY <3>2, <3>4, <4>1
    <3>6. QED
      BY <2>2, <3>5, Zenon
  <2>3. QED
    BY <1>3, <2>1, <2>2, Zenon DEF Receive
<1>4. ASSUME NEW n \in Node, NodeNext(n) PROVE BudgetOK'
  <2>1. CASE \/ Start(n) \/ EndInitial(n) \/ Wake(n) \/ WakeInThePast(n) \/ EndGate(n)
             \/ EndSync(n) \/ EndGossip(n)
    BY <1>1, <2>1, Zenon DEF Start, EndInitial, Wake, WakeInThePast, Tick, EndGate,
                             EndSync, EndGossip, call
  <2>2. CASE ExitPoisoned(n) \/ SealFails(n) \/ Crash(n)
    BY <1>2, <2>2, Zenon DEF ExitPoisoned, SealFails, Crash, Dies
  <2>3. CASE Connect(n) \/ GossipConnect(n)
    BY <1>1, <1>2, <2>3, Zenon DEF Connect, Returns, GossipConnect, GossipRest
  <2>4. CASE Reset(n) \/ Timeout(n) \/ Lost(n)
    BY <1>1, <1>2, <2>4, Zenon DEF Reset, Timeout, Lost, CallFails, Returns, GossipRest
  <2>5. CASE ReceiveFails(n)
    BY <1>2, <2>5, Zenon DEF ReceiveFails, Returns
  <2>6. QED
    BY <1>3, <1>4, <2>1, <2>2, <2>3, <2>4, <2>5, Zenon DEF NodeNext
<1>5. ASSUME NEW n \in Node, NEW p \in Node, Setup(n, p) \/ Serve(n, p) \/ Push(n, p)
      PROVE  BudgetOK'
  BY <1>1, <1>5, Zenon DEF Setup, Serve, Push, GossipRest
<1>6. ASSUME NEW x \in pushes, ApplyPush(x) \/ ApplyPushFails(x) PROVE BudgetOK'
  BY <1>1, <1>6, Zenon DEF ApplyPush, ApplyPushFails, call
<1>7. QED
  BY <1>1, <1>4, <1>5, <1>6, Zenon DEF Next, vars, call

\* Every step moves blocks in one of these ways.
Moves ==
  \/ Quiet
  \/ \E n \in Node : Seals(n)
  \/ \E n \in Node : \E t : Takes(n, t)
  \/ \E n, p \in Node : Answers(n, p) \/ Sends(n, p)

\* The types and the calls stay right, and blocks move in no other way.
LEMMA FlowStep ==
  ASSUME FlowOK, CallsOK, BudgetOK, [Next]_vars
  PROVE  FlowOK' /\ CallsOK' /\ Moves
<1>1. CASE UNCHANGED vars
  <2>1. FlowOK' /\ CallsOK'
    BY <1>1, Zenon DEF vars, config, call, loop, FlowOK, CallsOK
  <2>2. Quiet
    BY <1>1, Zenon DEF vars, config, call, loop, FlowOK, Quiet
  <2>3. QED
    BY <2>1, <2>2, Zenon DEF Moves
<1>2. ASSUME NEW n \in Node, NodeNext(n) PROVE FlowOK' /\ CallsOK' /\ Moves
  BY <1>2, CallSteps, LoopSteps, DeathSteps, SealSteps, ReceiveSteps, Zenon DEF NodeNext, Moves
<1>3. ASSUME NEW n \in Node, NEW p \in Node, Setup(n, p) \/ Serve(n, p) \/ Push(n, p)
      PROVE  FlowOK' /\ CallsOK' /\ Moves
  BY <1>3, SetupStep, ServeStep, PushStep, Zenon DEF Moves
<1>4. ASSUME NEW x \in pushes, ApplyPush(x) \/ ApplyPushFails(x)
      PROVE  FlowOK' /\ CallsOK' /\ Moves
  BY <1>4, ApplySteps, Zenon DEF Moves
<1>5. QED
  BY <1>1, <1>2, <1>3, <1>4, Zenon DEF Next

-----------------------------------------------------------------------------
\* A block stands at its height.
HeightsOK == \A n \in Node : \A i \in 1 .. Len(chain[n]) : Len(chain[n][i]) = i

-----------------------------------------------------------------------------
(***************************************************************************)
(* What follows from the moves, without looking at the actions again.      *)
(***************************************************************************)
\* A chain only grows, and what it holds stays.
LEMMA ChainsGrow ==
  ASSUME FlowOK, Moves, NEW n \in Node
  PROVE  /\ Len(chain[n]) \in Nat /\ Len(chain'[n]) \in Nat
         /\ Len(chain'[n]) >= Len(chain[n])
         /\ \A i \in 1 .. Len(chain[n]) : chain'[n][i] = chain[n][i]
<1>1. chain[n] \in Seq(Blocks) /\ chain \in [Node -> Seq(Blocks)]
  BY Zenon DEF FlowOK
<1>2. CASE chain'[n] = chain[n]
  BY <1>1, <1>2
<1>3. CASE Seals(n)
  <2>1. chain'[n] = Append(chain[n], Append(Tip(n), n))
    BY <1>1, <1>3, Zenon DEF Seals
  <2>2. /\ Len(chain'[n]) = Len(chain[n]) + 1
        /\ \A i \in 1 .. Len(chain[n]) : chain'[n][i] = chain[n][i]
    BY <1>1, <2>1, TipType, Appended
  <2>3. QED
    BY <1>1, <2>2
<1>4. CASE \E t : Takes(n, t)
  <2>1. PICK t : Takes(n, t)
    BY <1>4, Zenon
  <2>2. t \in Seq(Blocks) /\ chain' = [chain EXCEPT ![n] = @ \o t]
    BY <2>1, Zenon DEF Takes
  <2>3. /\ Len(chain'[n]) = Len(chain[n]) + Len(t)
        /\ \A i \in 1 .. Len(chain[n]) : chain'[n][i] = chain[n][i]
    BY <2>2, TakenChain, Zenon
  <2>4. Len(t) \in Nat /\ Len(chain[n]) \in Nat
    BY <1>1, <2>2
  <2>5. QED
    BY <2>3, <2>4
<1>5. ASSUME NEW m \in Node \ {n}, Seals(m) \/ \E t : Takes(m, t) PROVE chain'[n] = chain[n]
  BY <1>1, <1>5, Zenon DEF Seals, Takes
<1>6. ASSUME Quiet \/ \E m, p \in Node : Answers(m, p) \/ Sends(m, p) PROVE chain'[n] = chain[n]
  BY <1>6, Zenon DEF Quiet, Answers, Sends
<1>7. Seals(n) \/ (\E t : Takes(n, t)) \/ chain'[n] = chain[n]
  BY <1>5, <1>6, Zenon DEF Moves
<1>8. QED
  BY <1>2, <1>3, <1>4, <1>7, Zenon

\* A block that n holds after a step was held before by a node of the same
\* network, or n has just sealed it on its tip.
LEMMA Provenance ==
  ASSUME FlowOK, FlowOK', Moves, NEW n \in Node, NEW b, Holds(n, b)'
  PROVE  \/ b = NoBlock
         \/ \E p \in Node : genesis[p] = genesis[n] /\ Holds(p, b)
         \/ Seals(n) /\ b = Append(Tip(n), n)
<1>1. CASE Quiet
  BY <1>1, Zenon DEF Quiet, Holds
<1>2. ASSUME NEW m \in Node, Seals(m)
      PROVE  Holds(n, b) \/ b = NoBlock \/ (m = n /\ b = Append(Tip(n), n))
  <2>1. conn' = conn /\ pushes' = pushes
    BY <1>2, Zenon DEF Seals
  <2>2. CASE m # n
    <3>1. chain'[n] = chain[n] /\ sealed'[n] = sealed[n]
      BY <1>2, <2>2, Zenon DEF Seals, FlowOK
    <3>2. QED
      BY <2>1, <3>1, Zenon DEF Holds
  <2>3. CASE m = n
    <3>1. sealed'[n] \in {NoBlock, Append(Tip(n), n)}
      BY <1>2, <2>3, Zenon DEF Seals, FlowOK
    <3>2. chain[n] \in Seq(Blocks) /\ chain'[n] = Append(chain[n], Append(Tip(n), n))
      BY <1>2, <2>3, Zenon DEF Seals, FlowOK
    <3>3. \A i \in 1 .. Len(chain'[n]) :
            \/ i \in 1 .. Len(chain[n]) /\ chain'[n][i] = chain[n][i]
            \/ chain'[n][i] = Append(Tip(n), n)
      BY <3>2, TipType, Appended
    <3>4. QED
      BY <2>1, <2>3, <3>1, <3>3, Zenon DEF Holds
  <2>4. QED
    BY <2>2, <2>3, Zenon
<1>3. ASSUME NEW m \in Node, NEW t, Takes(m, t) PROVE Holds(n, b)
  <2>1. /\ sealed' = sealed
        /\ pushes' \subseteq pushes
        /\ conn'[n].stage = "answered" => conn'[n] = conn[n]
    BY <1>3, Zenon DEF Takes
  <2>2. \A i \in 1 .. Len(chain'[n]) : Holds(n, chain'[n][i])
    <3>1. CASE m # n
      BY <1>3, <3>1, TakenChain, Zenon DEF Takes, Holds
    <3>2. CASE m = n
      <4>1. ASSUME NEW i \in 1 .. Len(chain'[n]) PROVE Holds(n, chain'[n][i])
        <5>1. chain[n] \in Seq(Blocks) /\ t \in Seq(Blocks)
          BY <1>3, Zenon DEF FlowOK, Takes
        <5>2. CASE i \in 1 .. Len(chain[n])
          BY <1>3, <3>2, <5>2, TakenChain, Zenon DEF Takes, Holds
        <5>3. CASE i \notin 1 .. Len(chain[n])
          <6>1. i \in Len(chain[n]) + 1 .. Len(chain[n]) + Len(t)
            BY <1>3, <3>2, <5>1, <5>3, TakenChain DEF Takes
          <6>2. i - Len(chain[n]) \in 1 .. Len(t)
            BY <5>1, <6>1
          <6>3. QED
            BY <1>3, <3>2, <6>1, <6>2, TakenChain DEF Takes
        <5>4. QED
          BY <5>2, <5>3, Zenon
      <4>2. QED
        BY <4>1, Zenon
    <3>3. QED
      BY <3>1, <3>2, Zenon
  <2>3. QED
    BY <2>1, <2>2, Zenon DEF Holds
<1>4. ASSUME NEW m \in Node, NEW p \in Node, Answers(m, p)
      PROVE  Holds(n, b) \/ (genesis[p] = genesis[n] /\ Holds(p, b))
  <2>1. CASE m # n
    BY <1>4, <2>1, Zenon DEF Answers, Holds
  <2>2. CASE m = n
    <3>1. chain' = chain /\ sealed' = sealed /\ pushes' = pushes /\ genesis[p] = genesis[n]
      BY <1>4, <2>2, Zenon DEF Answers
    <3>2. CASE \E i \in 1 .. Len(chain'[n]) : b = chain'[n][i]
      BY <3>1, <3>2, Zenon DEF Holds
    <3>3. CASE b = sealed'[n] \/ [to |-> n, block |-> b] \in pushes'
      BY <3>1, <3>3, Zenon DEF Holds
    <3>4. CASE /\ conn'[n].stage = "answered"
               /\ \E i \in 1 .. Len(conn'[n].batch) : b = conn'[n].batch[i]
      <4>1. \E j \in 1 .. Len(chain[p]) : b = chain[p][j]
        BY <1>4, <2>2, <3>4, Zenon DEF Answers
      <4>2. QED
        BY <3>1, <4>1, Zenon DEF Holds
    <3>5. QED
      BY <3>2, <3>3, <3>4, Zenon DEF Holds
  <2>3. QED
    BY <2>1, <2>2, Zenon
<1>5. ASSUME NEW m \in Node, NEW p \in Node, Sends(m, p)
      PROVE  Holds(n, b) \/ (genesis[m] = genesis[n] /\ Holds(m, b))
  BY <1>5, Zenon DEF Sends, Holds
<1>6. QED
  BY <1>1, <1>2, <1>3, <1>4, <1>5, Zenon DEF Moves

\* Blocks stay at their heights.
LEMMA HeightsStep == ASSUME FlowOK, FlowOK', Moves, HeightsOK PROVE HeightsOK'
<1> SUFFICES ASSUME NEW n \in Node, NEW i \in 1 .. Len(chain'[n])
             PROVE  Len(chain'[n][i]) = i
  BY Zenon DEF HeightsOK
<1>1. chain[n] \in Seq(Blocks) /\ chain'[n] \in Seq(Blocks) /\ chain \in [Node -> Seq(Blocks)]
  BY Zenon DEF FlowOK
<1>2. CASE i \in 1 .. Len(chain[n])
  BY <1>2, ChainsGrow, Zenon DEF HeightsOK
<1>3. CASE i \notin 1 .. Len(chain[n])
  <2>1. i > Len(chain[n]) /\ Len(chain'[n]) > Len(chain[n])
    BY <1>1, <1>3
  <2>2. CASE Seals(n)
    <3>1. chain'[n] = Append(chain[n], Append(Tip(n), n))
      BY <1>1, <2>2, Zenon DEF Seals
    <3>2. /\ Len(chain'[n]) = Len(chain[n]) + 1
          /\ chain'[n][Len(chain[n]) + 1] = Append(Tip(n), n)
      BY <1>1, <3>1, TipType, Appended
    <3>3. i = Len(chain[n]) + 1
      BY <1>1, <2>1, <3>2
    <3>4. Len(Tip(n)) = Len(chain[n])
      BY <1>1, TipType DEF HeightsOK
    <3>5. Len(Append(Tip(n), n)) = Len(Tip(n)) + 1
      BY TipType, Appended DEF Blocks
    <3>6. QED
      BY <3>2, <3>3, <3>4, <3>5, Zenon
  <2>3. CASE \E t : Takes(n, t)
    <3>1. PICK t : Takes(n, t)
      BY <2>3, Zenon
    <3>2. /\ t \in Seq(Blocks) /\ chain' = [chain EXCEPT ![n] = @ \o t]
          /\ \A k \in 1 .. Len(t) : Len(t[k]) = Len(chain[n]) + k
      BY <3>1, Zenon DEF Takes
    <3>3. /\ Len(chain'[n]) = Len(chain[n]) + Len(t)
          /\ \A k \in Len(chain[n]) + 1 .. Len(chain[n]) + Len(t) :
               chain'[n][k] = t[k - Len(chain[n])]
      BY <3>2, TakenChain, Zenon
    <3>4. /\ i \in Len(chain[n]) + 1 .. Len(chain[n]) + Len(t)
          /\ i - Len(chain[n]) \in 1 .. Len(t)
      BY <1>1, <2>1, <3>2, <3>3
    <3>5. chain'[n][i] = t[i - Len(chain[n])]
      BY <3>3, <3>4, Zenon
    <3>6. Len(t[i - Len(chain[n])]) = Len(chain[n]) + (i - Len(chain[n]))
      BY <3>2, <3>4, Zenon
    <3>7. QED
      BY <1>1, <3>5, <3>6
  <2>4. CASE chain'[n] = chain[n]
    BY <2>1, <2>4, <1>1
  <2>5. Seals(n) \/ (\E t : Takes(n, t)) \/ chain'[n] = chain[n]
    BY <1>1, Zenon DEF Moves, Quiet, Seals, Takes, Answers, Sends
  <2>6. QED
    BY <2>2, <2>3, <2>4, <2>5, Zenon
<1>4. QED
  BY <1>2, <1>3, Zenon

\* What a node holds was sealed under its genesis.
OneNetwork ==
  \A n \in Node, b \in Blocks : Holds(n, b) =>
    \A j \in 1 .. Len(b) : genesis[b[j]] = genesis[n]

\* With one sealer s, what a node holds was sealed by s and is no higher than s is.
OneSealer ==
  \A s, n \in Node, b \in Blocks : sealers = {s} /\ Holds(n, b) =>
    /\ Len(b) <= Len(chain[s])
    /\ \A j \in 1 .. Len(b) : b[j] = s

\* A new block of n is the tip of n, or nothing, with n added.
LEMMA NewBlock ==
  ASSUME FlowOK, NEW n \in Node, NEW b, b = Append(Tip(n), n)
  PROVE  /\ b \in Blocks /\ Len(b) = Len(Tip(n)) + 1
         /\ \A j \in 1 .. Len(b) : b[j] = n \/ (j \in 1 .. Len(Tip(n)) /\ b[j] = Tip(n)[j])
         /\ Tip(n) \in Blocks
         /\ Tip(n) = <<>> \/ Holds(n, Tip(n))
<1>1. Tip(n) \in Seq(Node)
  BY TipType, Zenon DEF Blocks
<1>2. /\ b \in Seq(Node) /\ Len(b) = Len(Tip(n)) + 1
      /\ \A j \in 1 .. Len(Tip(n)) : b[j] = Tip(n)[j]
      /\ b[Len(Tip(n)) + 1] = n
  BY <1>1, Appended
<1>3. \A j \in 1 .. Len(b) : b[j] = n \/ (j \in 1 .. Len(Tip(n)) /\ b[j] = Tip(n)[j])
  BY <1>1, <1>2
<1>4. chain[n] # <<>> => Len(chain[n]) \in 1 .. Len(chain[n])
  BY DEF FlowOK
<1>5. Tip(n) = <<>> \/ Holds(n, Tip(n))
  BY <1>4, TipType, Zenon DEF Holds
<1>6. QED
  BY <1>1, <1>2, <1>3, <1>5, Zenon DEF Blocks

\* The moves keep networks apart.
LEMMA NetworkStep ==
  ASSUME FlowOK, FlowOK', UNCHANGED config, Moves, OneNetwork PROVE OneNetwork'
<1> SUFFICES ASSUME NEW n \in Node, NEW b \in Blocks, Holds(n, b)', NEW j \in 1 .. Len(b)
             PROVE  genesis[b[j]] = genesis[n]
  BY Zenon DEF OneNetwork, config
<1>1. CASE b = NoBlock
  BY <1>1 DEF NoBlock
<1>2. CASE \E p \in Node : genesis[p] = genesis[n] /\ Holds(p, b)
  BY <1>2, Zenon DEF OneNetwork
<1>3. CASE b = Append(Tip(n), n)
  BY <1>3, NewBlock DEF OneNetwork
<1>4. QED
  BY <1>1, <1>2, <1>3, Provenance, Zenon

\* The moves keep to the chain of the only sealer.
LEMMA SealerStep ==
  ASSUME FlowOK, FlowOK', UNCHANGED config, Moves, HeightsOK, OneSealer PROVE OneSealer'
<1> SUFFICES ASSUME NEW s \in Node, NEW n \in Node, NEW b \in Blocks, sealers = {s}, Holds(n, b)'
             PROVE  /\ Len(b) <= Len(chain'[s])
                    /\ \A j \in 1 .. Len(b) : b[j] = s
  BY Zenon DEF OneSealer, config
<1>1. /\ Len(chain[s]) \in Nat /\ Len(chain'[s]) \in Nat /\ Len(chain'[s]) >= Len(chain[s])
      /\ Len(b) \in Nat
  BY ChainsGrow DEF Blocks
<1>2. CASE b = NoBlock
  BY <1>1, <1>2 DEF NoBlock
<1>3. CASE \E p \in Node : Holds(p, b)
  BY <1>1, <1>3 DEF OneSealer
<1>4. CASE Seals(n) /\ b = Append(Tip(n), n)
  <2>1. n = s
    BY <1>4, Zenon DEF Seals
  <2>2. \A j \in 1 .. Len(b) : b[j] = s
    BY <1>4, <2>1, NewBlock DEF OneSealer
  <2>3. chain[n] \in Seq(Blocks) /\ chain'[n] = Append(chain[n], b)
    BY <1>4, Zenon DEF Seals, FlowOK
  <2>4. Len(chain'[n]) = Len(chain[n]) + 1
    BY <2>3, Appended
  <2>5. Len(Tip(n)) = Len(chain[n])
    BY <2>3, TipType DEF HeightsOK
  <2>6. Len(b) = Len(chain[n]) + 1
    BY <1>4, <2>5, NewBlock, Zenon
  <2>7. QED
    BY <1>1, <2>1, <2>2, <2>4, <2>6
<1>5. QED
  BY <1>2, <1>3, <1>4, Provenance, Zenon

-----------------------------------------------------------------------------
(***************************************************************************)
(* The inductive invariant and what it gives.                              *)
(***************************************************************************)
SyncInv ==
  /\ FlowOK
  /\ CallsOK
  /\ BudgetOK
  /\ HeightsOK
  /\ OneNetwork
  /\ OneSealer

\* The invariant holds at the start: nobody has a block or a connection.
LEMMA SyncInit == Init => SyncInv
<1> SUFFICES ASSUME Init PROVE SyncInv
  BY Zenon
<1>1. PICK net \in Networks : sealers = net.sealers
  BY Zenon DEF Init
<1>2. sealers \subseteq Node
  BY <1>1, NetworksAssumption, Zenon DEF Network
<1>3. /\ chain = [n \in Node |-> <<>>] /\ sealed = [n \in Node |-> <<>>]
      /\ conn = [n \in Node |-> [stage |-> "none"]] /\ pushes = {}
      /\ pc = [n \in Node |-> "down"] /\ DOMAIN todo = Node
      /\ total = [n \in Node |-> 0]
  BY Zenon DEF Init, NoBlock, NoConn
<1>4. \A n \in Node : chain[n] = <<>> /\ sealed[n] = <<>> /\ conn[n] = NoConn
  BY <1>3, Zenon DEF NoConn
<1>5. FlowOK
  BY <1>2, <1>3, NoBlockType DEF FlowOK, Conns, NoBlock
<1>6. CallsOK
  BY <1>4 DEF CallsOK, NoConn
<1>7. BudgetOK
  <2>1. MaxBlocksPerCall \in Nat
    BY Budgets, Zenon
  <2>2. QED
    BY <1>3, <2>1 DEF BudgetOK
<1>8. HeightsOK
  BY <1>4 DEF HeightsOK
<1>9. \A n \in Node, b \in Blocks : Holds(n, b) => b = <<>>
  BY <1>3, <1>4 DEF Holds, NoConn
<1>10. OneNetwork
  BY <1>9 DEF OneNetwork
<1>11. OneSealer
  <2> SUFFICES ASSUME NEW s \in Node, NEW n \in Node, NEW b \in Blocks, Holds(n, b)
               PROVE  Len(b) <= Len(chain[s]) /\ \A j \in 1 .. Len(b) : b[j] = s
    BY Zenon DEF OneSealer
  <2>1. b = <<>> /\ chain[s] = <<>>
    BY <1>4, <1>9, Zenon
  <2>2. QED
    BY <2>1
<1>12. QED
  BY <1>5, <1>6, <1>7, <1>8, <1>10, <1>11, Zenon DEF SyncInv

\* Where blocks are and come from, in every reachable state of any network of
\* nodes with any crashes, lost messages and failed appends.
THEOREM SyncInvariant == Spec => []SyncInv
<1>1. Init => SyncInv
  BY SyncInit, Zenon
<1>2. SyncInv /\ [Next]_vars => SyncInv'
  <2> SUFFICES ASSUME SyncInv, [Next]_vars PROVE SyncInv'
    BY Zenon
  <2>1. FlowOK' /\ CallsOK' /\ Moves /\ BudgetOK'
    BY FlowStep, BudgetStep, Zenon DEF SyncInv
  <2>2. UNCHANGED config
    BY <2>1, Zenon DEF Moves, Quiet, Seals, Takes, Answers, Sends
  <2>3. HeightsOK' /\ OneNetwork' /\ OneSealer'
    BY <2>1, <2>2, HeightsStep, NetworkStep, SealerStep, Zenon DEF SyncInv
  <2>4. QED
    BY <2>1, <2>3, Zenon DEF SyncInv
<1>3. QED
  BY <1>1, <1>2, PTL DEF Spec

\* The handshakes of sync_from_peer and push_block_to_peer keep networks apart
\* for any number of nodes and genesis documents.
THEOREM HandshakeSeparatesNetworks == Spec => []NetworksStayApart
<1>1. SyncInv => NetworksStayApart
  <2> SUFFICES ASSUME SyncInv, NEW n \in Node, NEW i \in DOMAIN chain[n],
                      NEW s \in Range(chain[n][i])
               PROVE  genesis[s] = genesis[n]
    BY Zenon DEF NetworksStayApart
  <2>1. chain[n] \in Seq(Blocks) /\ i \in 1 .. Len(chain[n]) /\ chain[n][i] \in Blocks
    BY DEF SyncInv, FlowOK
  <2>2. Holds(n, chain[n][i])
    BY <2>1, Zenon DEF Holds
  <2>3. PICK j \in 1 .. Len(chain[n][i]) : s = chain[n][i][j]
    BY <2>1 DEF Range, Blocks
  <2>4. QED
    BY <2>1, <2>2, <2>3, Zenon DEF SyncInv, OneNetwork
<1>2. QED
  BY <1>1, SyncInvariant, PTL

\* With one node that seals, try_append_network_block and
\* validate_linear_sync_batch keep every other node on a prefix of its chain.
THEOREM FollowersHoldAPrefix == Spec => []OneSealerOneChain
<1>1. SyncInv => OneSealerOneChain
  <2> SUFFICES ASSUME SyncInv, NEW s \in Node, NEW n \in Node, sealers = {s}
               PROVE  IsPrefix(chain[n], chain[s])
    BY Zenon DEF OneSealerOneChain
  <2>1. chain[n] \in Seq(Blocks) /\ chain[s] \in Seq(Blocks)
    BY Zenon DEF SyncInv, FlowOK
  <2>2. ASSUME NEW m \in Node, NEW i \in 1 .. Len(chain[m])
        PROVE  /\ chain[m][i] \in Blocks /\ Len(chain[m][i]) = i /\ i <= Len(chain[s])
               /\ \A j \in 1 .. i : chain[m][i][j] = s
    <3>1. chain[m][i] \in Blocks /\ Holds(m, chain[m][i]) /\ Len(chain[m][i]) = i
      <4>1. chain[m] \in Seq(Blocks)
        BY Zenon DEF SyncInv, FlowOK
      <4>2. chain[m][i] \in Blocks
        BY <4>1
      <4>3. Holds(m, chain[m][i])
        BY Zenon DEF Holds
      <4>4. Len(chain[m][i]) = i
        BY Zenon DEF SyncInv, HeightsOK
      <4>5. QED
        BY <4>2, <4>3, <4>4, Zenon
    <3>2. QED
      BY <3>1 DEF SyncInv, OneSealer
  <2>3. Len(chain[n]) <= Len(chain[s])
    BY <2>1, <2>2
  <2>4. ASSUME NEW i \in 1 .. Len(chain[n]) PROVE chain[n][i] = chain[s][i]
    <3>1. i \in 1 .. Len(chain[s])
      BY <2>1, <2>3
    <3>2. chain[n][i] \in Seq(Node) /\ chain[s][i] \in Seq(Node)
          /\ Len(chain[n][i]) = i /\ Len(chain[s][i]) = i
          /\ \A j \in 1 .. i : chain[n][i][j] = chain[s][i][j]
      BY <2>2, <3>1, Zenon DEF Blocks
    <3>3. QED
      BY <3>2, SameItems, Zenon
  <2> DEFINE k == Len(chain[n])
  <2>5. k \in Nat /\ \A i \in 1 .. k : chain[n][i] \in Blocks /\ chain[s][i] \in Blocks
    BY <2>1, <2>3
  <2> HIDE DEF k
  <2>6. /\ SubSeq(chain[n], 1, k) \in Seq(Blocks) /\ Len(SubSeq(chain[n], 1, k)) = k
        /\ SubSeq(chain[s], 1, k) \in Seq(Blocks) /\ Len(SubSeq(chain[s], 1, k)) = k
        /\ \A i \in 1 .. k : /\ SubSeq(chain[n], 1, k)[i] = chain[n][i]
                             /\ SubSeq(chain[s], 1, k)[i] = chain[s][i]
    BY <2>5, Sliced
  <2>7. SubSeq(chain[n], 1, k) = SubSeq(chain[s], 1, k)
    BY <2>4, <2>6, SameItems DEF k
  <2>8. QED
    <3>1. SubSeq(chain[n], 1, k) = chain[n]
      BY <2>1, WholeSlice, Zenon DEF k
    <3>2. QED
      BY <2>3, <2>7, <3>1, Zenon DEF IsPrefix, k
<1>2. QED
  BY <1>1, SyncInvariant, PTL
-----------------------------------------------------------------------------
(***************************************************************************)
(* The gate for sealing: what a node knows of its peers while it asks them.*)
(***************************************************************************)
\* Peer p has answered n in this loop, and n is as high as p said, unless the
\* budget stopped the call.
CaughtUp(n, p) ==
  /\ told[n][p] # Unheard
  /\ p \in cut[n] \/ told[n][p] <= Height(n)

\* While all calls of the loop are ok, every peer is still to be called or done.
\* A call that has used some of its budget, or has an answer, has heard its peer.
Asking(n) ==
  pc[n] \in {"initial", "gate"} =>
    /\ todo[n] \in Seq(Node)
    /\ all_ok[n] => \A p \in peers[n] :
                      CaughtUp(n, p) \/ \E i \in 1 .. Len(todo[n]) : todo[n][i] = p
    /\ total[n] > 0 \/ rounds[n] > 0 => told[n][Head(todo[n])] # Unheard
    /\ conn[n].stage = "answered" =>
         /\ told[n][Head(todo[n])] # Unheard
         /\ conn[n].batch = <<>> => told[n][Head(todo[n])] <= Height(n)

\* Only a call of sync_from_peer uses a budget or gets an answer.
SyncCall(n) ==
  /\ total[n] > 0 \/ rounds[n] > 0 => todo[n] # <<>> /\ pc[n] \in {"initial", "gate", "sync"}
  /\ conn[n].stage = "answered" => pc[n] # "gossip"

GateTypes ==
  /\ peers \in [Node -> SUBSET Node]
  /\ DOMAIN all_ok = Node /\ DOMAIN sealing_allowed = Node /\ DOMAIN cut = Node
  /\ told \in [Node -> [Node -> Int]]
  /\ rounds \in [Node -> Nat]

\* The inductive invariant of the gate.
GateInv == GateTypes /\ \A n \in Node : SyncCall(n) /\ Asking(n)

\* Listed(S) has every member of S.
LEMMA ListedAll ==
  ASSUME NEW S \in SUBSET Node
  PROVE  /\ Listed(S) \in Seq(Node)
         /\ \A p \in S : \E i \in 1 .. Len(Listed(S)) : Listed(S)[i] = p
<1>1. Listed(S) \in Seq(S) /\ Range(Listed(S)) = S
  BY ListedAssumption, Zenon
<1>2. Listed(S) \in Seq(Node)
  BY <1>1
<1>3. \A p \in Range(Listed(S)) : \E i \in DOMAIN Listed(S) : Listed(S)[i] = p
  BY Zenon DEF Range
<1>4. QED
  BY <1>1, <1>2, <1>3

\* A step that leaves the loop and the call of m alone, and at most breaks or
\* closes its connection, takes nothing from what m knows: its chain only grows.
Untouched(m) ==
  /\ pc'[m] = pc[m] /\ todo'[m] = todo[m] /\ all_ok'[m] = all_ok[m]
  /\ told'[m] = told[m] /\ cut'[m] = cut[m]
  /\ total'[m] = total[m] /\ rounds'[m] = rounds[m]
  /\ conn'[m] = conn[m] \/ conn'[m].stage # "answered"

LEMMA UntouchedKnows ==
  ASSUME FlowOK, GateInv, CallsOK, BudgetOK, Moves, peers' = peers, NEW m \in Node, Untouched(m)
  PROVE  SyncCall(m)' /\ Asking(m)'
<1>1. SyncCall(m)'
  BY Zenon DEF GateInv, SyncCall, Untouched
<1>2. /\ Len(chain[m]) \in Nat /\ Len(chain'[m]) \in Nat
      /\ Len(chain'[m]) >= Len(chain[m])
  BY ChainsGrow, Zenon
<1>3. \A p \in Node : told[m][p] \in Int
  BY Zenon DEF GateInv, GateTypes
<1>4. \A p \in Node : CaughtUp(m, p) => CaughtUp(m, p)'
  BY <1>2, <1>3 DEF CaughtUp, Height, Untouched
<1>5. ASSUME pc[m] \in {"initial", "gate"} PROVE Asking(m)'
  <2>1. Asking(m) /\ todo[m] \in Seq(Node)
    BY <1>5, Zenon DEF GateInv, Asking
  <2>2. conn[m].stage = "answered" => todo[m] # <<>> /\ Head(todo[m]) \in Node
    BY <2>1 DEF CallsOK, NoConn
  <2>3. all_ok[m] => \A p \in peers[m] :
                       CaughtUp(m, p)' \/ \E i \in 1 .. Len(todo[m]) : todo[m][i] = p
    BY <1>4, <1>5, <2>1, Zenon DEF Asking, GateInv, GateTypes
  <2>4. conn'[m].stage = "answered" =>
          /\ told[m][Head(todo[m])] # Unheard
          /\ conn'[m].batch = <<>> => told[m][Head(todo[m])] <= Height(m)'
    <3>1. SUFFICES ASSUME conn'[m].stage = "answered"
                   PROVE  /\ told[m][Head(todo[m])] # Unheard
                          /\ conn'[m].batch = <<>> => told[m][Head(todo[m])] <= Height(m)'
      BY Zenon
    <3>2. conn'[m] = conn[m] /\ conn[m].stage = "answered"
      BY <3>1, Zenon DEF Untouched
    <3>3. /\ told[m][Head(todo[m])] # Unheard
          /\ conn[m].batch = <<>> => told[m][Head(todo[m])] <= Len(chain[m])
      BY <1>5, <2>1, <3>2, Zenon DEF Asking, Height
    <3>4. told[m][Head(todo[m])] \in Int
      BY <1>3, <2>2, <3>2, Zenon
    <3>5. QED
      BY <1>2, <3>2, <3>3, <3>4 DEF Height
  <2>5. QED
    BY <1>5, <2>1, <2>3, <2>4, Zenon DEF Asking, Untouched
<1>6. QED
  BY <1>1, <1>5, Zenon DEF Untouched, Asking


\* A loop begins, or the process ends, and no budget is in use.
LEMMA LoopKnows ==
  ASSUME FlowOK, GateInv, CallsOK, BudgetOK, Moves, peers' = peers, NEW n \in Node,
         NEW step, NEW targets, BeginLoop(n, step, targets),
         step \in {"initial", "gate"} => targets = Listed(peers[n]),
         DOMAIN sealing_allowed' = Node, rounds' \in [Node -> Nat],
         total'[n] = 0, rounds'[n] = 0, conn'[n].stage # "answered",
         \A m \in Node \ {n} : /\ total'[m] = total[m] /\ rounds'[m] = rounds[m]
                               /\ conn'[m] = conn[m] \/ conn'[m].stage # "answered"
  PROVE  GateInv'
<1>1. GateTypes'
  <2>1. [p \in Node |-> Unheard] \in [Node -> Int]
    BY DEF Unheard
  <2>2. told' \in [Node -> [Node -> Int]]
    BY <2>1, Zenon DEF BeginLoop, GateInv, GateTypes
  <2>3. DOMAIN all_ok' = Node /\ DOMAIN cut' = Node
    BY Zenon DEF BeginLoop, GateInv, GateTypes
  <2>4. QED
    BY <2>2, <2>3, Zenon DEF GateInv, GateTypes
<1>2. ASSUME NEW m \in Node \ {n} PROVE SyncCall(m)' /\ Asking(m)'
  <2>1. Untouched(m)
    BY Zenon DEF Untouched, BeginLoop, GateInv, GateTypes, FlowOK
  <2>2. QED
    BY <2>1, UntouchedKnows, Zenon
<1>3. SyncCall(n)'
  BY DEF SyncCall
<1>4. pc'[n] = step /\ todo'[n] = targets
  BY Zenon DEF BeginLoop, FlowOK
<1>5. ASSUME step \in {"initial", "gate"} PROVE Asking(n)'
  <2>1. /\ targets \in Seq(Node)
        /\ \A p \in peers[n] : \E i \in 1 .. Len(targets) : targets[i] = p
    <3>1. peers[n] \in SUBSET Node /\ targets = Listed(peers[n])
      BY <1>5, Zenon DEF GateInv, GateTypes
    <3>2. QED
      BY <3>1, ListedAll, Zenon
  <2>2. QED
    BY <1>4, <2>1 DEF Asking
<1>6. Asking(n)'
  BY <1>4, <1>5, Zenon DEF Asking
<1>7. QED
  BY <1>1, <1>2, <1>3, <1>6, Zenon DEF GateInv

\* A loop begins on a thread that is not in a call.
LEMMA IdleLoopKnows ==
  ASSUME FlowOK, GateInv, CallsOK, BudgetOK, Moves, peers' = peers, NEW n \in Node,
         NEW step, NEW targets, BeginLoop(n, step, targets), UNCHANGED call,
         pc[n] \in {"down", "idle"} \/ todo[n] = <<>>,
         step \in {"initial", "gate"} => targets = Listed(peers[n]),
         DOMAIN sealing_allowed' = Node
  PROVE  GateInv'
<1>1. conn[n].stage # "answered"
  BY DEF CallsOK, NoConn
<1>2. total[n] = 0 /\ rounds[n] = 0
  <2>1. total[n] \in Nat /\ rounds[n] \in Nat
    BY DEF BudgetOK, GateInv, GateTypes
  <2>2. ~(total[n] > 0 \/ rounds[n] > 0)
    BY Zenon DEF GateInv, SyncCall
  <2>3. QED
    BY <2>1, <2>2
<1>3. rounds \in [Node -> Nat]
  BY Zenon DEF GateInv, GateTypes
<1>4. QED
  BY <1>1, <1>2, <1>3, LoopKnows, Zenon DEF call

LEMMA LoopStepsKnow ==
  ASSUME FlowOK, GateInv, CallsOK, BudgetOK, Moves, NEW n \in Node,
         \/ Start(n) \/ EndInitial(n) \/ Wake(n) \/ WakeInThePast(n) \/ EndGate(n)
         \/ EndSync(n) \/ EndGossip(n)
  PROVE  GateInv'
<1> USE DEF config
<1>0. DOMAIN sealing_allowed = Node
  BY Zenon DEF GateInv, GateTypes
<1>1. CASE Start(n)
  <2> DEFINE step == IF peers[n] = {} THEN "idle" ELSE "initial"
  <2>1. /\ BeginLoop(n, step, Listed(peers[n])) /\ UNCHANGED <<call, peers>> /\ pc[n] = "down"
        /\ DOMAIN sealing_allowed' = Node
    BY <1>0, <1>1, Zenon DEF Start
  <2> HIDE DEF step
  <2>2. QED
    BY <2>1, IdleLoopKnows, Zenon
<1>2. CASE EndInitial(n)
  <2>1. /\ BeginLoop(n, "idle", <<>>) /\ UNCHANGED <<call, peers>> /\ todo[n] = <<>>
        /\ DOMAIN sealing_allowed' = Node
    BY <1>0, <1>2, Zenon DEF EndInitial
  <2>2. QED
    BY <2>1, IdleLoopKnows, Zenon
<1>3. ASSUME NEW aged, SealThenSync(n, aged), UNCHANGED <<call, peers>>,
             pc[n] = "idle" \/ todo[n] = <<>>, DOMAIN sealing_allowed' = Node
      PROVE  GateInv'
  <2>1. PICK step \in {"idle", "sync"} : \E targets : BeginLoop(n, step, targets)
    BY <1>3, Zenon DEF SealThenSync
  <2>2. QED
    BY <1>3, <2>1, IdleLoopKnows, Zenon
<1>4. ASSUME NEW dt, Tick(n, dt) PROVE GateInv'
  <2>1. UNCHANGED <<call, peers, sealing_allowed>> /\ pc[n] = "idle"
    BY <1>4, Zenon DEF Tick
  <2>2. CASE BeginLoop(n, "gate", Listed(peers[n]))
    BY <1>0, <2>1, <2>2, IdleLoopKnows, Zenon
  <2>3. CASE SealThenSync(n, book'[n])
    BY <1>0, <1>3, <2>1, <2>3, Zenon
  <2>4. QED
    BY <1>4, <2>2, <2>3, Zenon DEF Tick
<1>5. CASE EndGate(n)
  BY <1>0, <1>3, <1>5, Zenon DEF EndGate
<1>6. CASE EndSync(n)
  <2>1. UNCHANGED <<call, peers, sealing_allowed>> /\ todo[n] = <<>>
    BY <1>6, Zenon DEF EndSync
  <2>2. PICK step \in {"idle", "gossip"} : \E targets : BeginLoop(n, step, targets)
    BY <1>6, Zenon DEF EndSync
  <2>3. QED
    BY <1>0, <2>1, <2>2, IdleLoopKnows, Zenon
<1>7. CASE EndGossip(n)
  BY <1>0, <1>7, IdleLoopKnows, Zenon DEF EndGossip
<1>8. QED
  BY <1>1, <1>2, <1>4, <1>5, <1>6, <1>7, Zenon DEF Wake, WakeInThePast

LEMMA DeathStepsKnow ==
  ASSUME FlowOK, GateInv, CallsOK, BudgetOK, Moves, NEW n \in Node,
         SealFails(n) \/ ExitPoisoned(n) \/ Crash(n)
  PROVE  GateInv'
<1>1. Dies(n)
  BY Zenon DEF SealFails, ExitPoisoned, Crash
<1>2. BeginLoop(n, "down", <<>>) /\ UNCHANGED <<peers, sealing_allowed>>
  BY <1>1, Zenon DEF Dies, config
<1>3. /\ total'[n] = 0 /\ rounds'[n] = 0 /\ rounds' \in [Node -> Nat]
      /\ \A m \in Node \ {n} : total'[m] = total[m] /\ rounds'[m] = rounds[m]
  BY <1>1, Zenon DEF Dies, BudgetOK, GateInv, GateTypes
<1>4. /\ conn'[n].stage # "answered"
      /\ \A m \in Node \ {n} : conn'[m] = conn[m] \/ conn'[m].stage # "answered"
  BY <1>1 DEF Dies, NoConn, FlowOK, Conns
<1>5. DOMAIN sealing_allowed' = Node
  BY <1>2, Zenon DEF GateInv, GateTypes
<1>6. QED
  BY <1>2, <1>3, <1>4, <1>5, LoopKnows, Zenon


\* A call of sync_from_peer ends.  If it did not fail, its peer has answered, and
\* either the budget stopped it or the node is as high as the peer said.
LEMMA ReturnKnows ==
  ASSUME FlowOK, GateInv, CallsOK, BudgetOK, Moves, NEW n \in Node, NEW outcome,
         Returns(n, outcome), UNCHANGED <<peers, pc, told, sealing_allowed>>, todo[n] # <<>>,
         outcome # "err" /\ pc[n] \in {"initial", "gate"} =>
           /\ told[n][Head(todo[n])] # Unheard
           /\ outcome = "stopped" \/ told[n][Head(todo[n])] <= Height(n)
  PROVE  GateInv'
<1>0. PICK h : h = Head(todo[n])
  BY Zenon
<1>1. /\ conn' = [conn EXCEPT ![n] = NoConn] /\ total' = [total EXCEPT ![n] = 0]
      /\ rounds' = [rounds EXCEPT ![n] = 0] /\ todo' = [todo EXCEPT ![n] = Tail(@)]
  BY Zenon DEF Returns
<1>2. /\ DOMAIN all_ok' = Node /\ DOMAIN cut' = Node
      /\ \A m \in Node \ {n} : all_ok'[m] = all_ok[m] /\ cut'[m] = cut[m]
      /\ pc[n] # "sync" => /\ all_ok'[n] = (all_ok[n] /\ outcome # "err")
                          /\ cut'[n] = IF outcome = "stopped" THEN cut[n] \cup {h} ELSE cut[n]
  BY <1>0, Zenon DEF Returns, GateInv, GateTypes
<1>3. /\ conn'[n] = NoConn /\ total'[n] = 0 /\ rounds'[n] = 0 /\ todo'[n] = Tail(todo[n])
      /\ rounds' \in [Node -> Nat]
      /\ \A m \in Node \ {n} : /\ conn'[m] = conn[m] /\ total'[m] = total[m]
                               /\ rounds'[m] = rounds[m] /\ todo'[m] = todo[m]
  BY <1>1, Zenon DEF FlowOK, BudgetOK, GateInv, GateTypes
<1>4. GateTypes'
  BY <1>2, <1>3, Zenon DEF GateInv, GateTypes
<1>5. ASSUME NEW m \in Node \ {n} PROVE SyncCall(m)' /\ Asking(m)'
  <2>1. Untouched(m)
    BY <1>2, <1>3, Zenon DEF Untouched
  <2>2. QED
    BY <2>1, UntouchedKnows, Zenon
<1>6. SyncCall(n)'
  BY <1>3 DEF SyncCall, NoConn
<1>7. ASSUME pc[n] \in {"initial", "gate"} PROVE Asking(n)'
  <2>1. /\ todo[n] \in Seq(Node)
        /\ all_ok[n] => \A p \in peers[n] :
                          CaughtUp(n, p) \/ \E i \in 1 .. Len(todo[n]) : todo[n][i] = p
    BY <1>7, Zenon DEF GateInv, Asking
  <2>2. /\ Tail(todo[n]) \in Seq(Node)
        /\ \A i \in 1 .. Len(todo[n]) :
             todo[n][i] = h \/ \E j \in 1 .. Len(Tail(todo[n])) : Tail(todo[n])[j] = todo[n][i]
    BY <1>0, <2>1, Rested, RestCovers, Zenon
  <2>3. all_ok'[n] => all_ok[n] /\ outcome # "err"
    BY <1>2, <1>7, Zenon
  <2>4. Len(chain[n]) \in Nat /\ Len(chain'[n]) \in Nat /\ Len(chain'[n]) >= Len(chain[n])
    BY ChainsGrow, Zenon
  <2>5. \A p \in Node : told[n][p] \in Int
    BY Zenon DEF GateInv, GateTypes
  <2>6. cut'[n] = IF outcome = "stopped" THEN cut[n] \cup {h} ELSE cut[n]
    BY <1>2, <1>7, Zenon
  <2>7. \A p \in Node : CaughtUp(n, p) => CaughtUp(n, p)'
    BY <2>4, <2>5, <2>6 DEF CaughtUp, Height
  <2>8. h \in Node
    BY <1>0, <2>1
  <2>9. outcome # "err" => CaughtUp(n, h)'
    <3>1. outcome # "err" => /\ told[n][h] # Unheard
                             /\ outcome = "stopped" \/ told[n][h] <= Len(chain[n])
      BY <1>0, <1>7, Zenon DEF Height
    <3>2. outcome = "stopped" => h \in cut'[n]
      BY <2>6, Zenon
    <3>3. told[n][h] <= Len(chain[n]) => told[n][h] <= Len(chain'[n])
      BY <2>4, <2>5, <2>8
    <3>4. outcome # "err" => /\ told[n][h] # Unheard
                             /\ h \in cut'[n] \/ told[n][h] <= Len(chain'[n])
      BY <3>1, <3>2, <3>3, Zenon
    <3>5. QED
      BY <3>4, Zenon DEF CaughtUp, Height
  <2>10. ASSUME all_ok'[n], NEW p \in peers[n]
         PROVE  CaughtUp(n, p)' \/ \E j \in 1 .. Len(todo'[n]) : todo'[n][j] = p
    <3>1. p \in Node
      BY Zenon DEF GateInv, GateTypes
    <3>2. CaughtUp(n, p) \/ \E i \in 1 .. Len(todo[n]) : todo[n][i] = p
      BY <2>1, <2>3, <2>10, Zenon
    <3>3. CaughtUp(n, p) => CaughtUp(n, p)'
      BY <2>7, <3>1, Zenon
    <3>4. CaughtUp(n, h)'
      BY <2>3, <2>9, <2>10, Zenon
    <3>5. CASE \E i \in 1 .. Len(todo[n]) : todo[n][i] = p
      BY <1>3, <2>2, <3>4, <3>5, Zenon
    <3>6. QED
      BY <3>2, <3>3, <3>5, Zenon
  <2>11. conn'[n].stage # "answered" /\ ~(total'[n] > 0 \/ rounds'[n] > 0)
    BY <1>3 DEF NoConn
  <2>12. todo'[n] \in Seq(Node)
    BY <1>3, <2>2, Zenon
  <2>13. QED
    BY <2>10, <2>11, <2>12, Zenon DEF Asking
<1>8. Asking(n)'
  BY <1>7, Zenon DEF Asking
<1>9. QED
  BY <1>4, <1>5, <1>6, <1>8, Zenon DEF GateInv

\* A connection changes without an answer, and nothing else of the loops.
LEMMA ConnKnows ==
  ASSUME FlowOK, GateInv, CallsOK, BudgetOK, Moves,
         UNCHANGED <<peers, pc, loop, total, rounds, sealing_allowed>>,
         \A m \in Node : conn'[m] = conn[m] \/ conn'[m].stage # "answered"
  PROVE  GateInv'
<1>1. GateTypes'
  BY Zenon DEF GateInv, GateTypes, loop
<1>2. ASSUME NEW m \in Node PROVE SyncCall(m)' /\ Asking(m)'
  <2>1. Untouched(m)
    BY Zenon DEF Untouched, loop
  <2>2. QED
    BY <2>1, UntouchedKnows, Zenon
<1>3. QED
  BY <1>1, <1>2, Zenon DEF GateInv

\* Gossip has a loop of its own, and asks nobody for blocks.
LEMMA GossipKnows ==
  ASSUME FlowOK, GateInv, CallsOK, BudgetOK, Moves, NEW n \in Node, pc[n] = "gossip",
         UNCHANGED <<peers, total, rounds, all_ok, told, cut, pc, sealing_allowed>>,
         todo' = [todo EXCEPT ![n] = Tail(@)], conn' = [conn EXCEPT ![n] = NoConn]
  PROVE  GateInv'
<1>1. GateTypes'
  BY Zenon DEF GateInv, GateTypes
<1>2. ASSUME NEW m \in Node \ {n} PROVE SyncCall(m)' /\ Asking(m)'
  <2>1. Untouched(m)
    BY Zenon DEF Untouched, FlowOK
  <2>2. QED
    BY <2>1, UntouchedKnows, Zenon
<1>3. conn'[n].stage # "answered"
  BY Zenon DEF FlowOK, NoConn
<1>4. SyncCall(n)' /\ Asking(n)'
  BY <1>3, Zenon DEF SyncCall, Asking, GateInv
<1>5. QED
  BY <1>1, <1>2, <1>4, Zenon DEF GateInv


\* The calls that begin, end or fail.  A call stops on its budget only after a
\* round, so its peer has answered.
LEMMA CallStepsKnow ==
  ASSUME FlowOK, GateInv, CallsOK, BudgetOK, Moves, NEW n \in Node,
         \/ Connect(n) \/ GossipConnect(n) \/ Reset(n) \/ Timeout(n) \/ Lost(n)
  PROVE  GateInv'
<1>1. CASE Connect(n)
  <2>1. UNCHANGED <<peers, pc, told, sealing_allowed>> /\ todo[n] # <<>>
    BY <1>1, Zenon DEF Connect, Calling, Rest, config
  <2>2. CASE Returns(n, "err")
    BY <2>1, <2>2, ReturnKnows, Zenon
  <2>3. CASE BudgetSpent(n) /\ Returns(n, "stopped")
    <3>1. total[n] > 0 \/ rounds[n] > 0
      <4>1. total[n] \in Nat /\ rounds[n] \in Nat
        BY Budgets DEF BudgetOK, GateInv, GateTypes
      <4>2. total[n] >= MaxBlocksPerCall \/ rounds[n] >= MaxRoundsPerCall
        BY <2>3, Zenon DEF BudgetSpent
      <4>3. QED
        BY <4>1, <4>2, Budgets
    <3>2. pc[n] \in {"initial", "gate"} => told[n][Head(todo[n])] # Unheard
      BY <3>1, Zenon DEF GateInv, Asking
    <3>3. QED
      BY <2>1, <2>3, <3>2, ReturnKnows, Zenon
  <2>4. CASE /\ conn' = [conn EXCEPT ![n] = [stage |-> "hello"]]
             /\ UNCHANGED <<todo, all_ok, cut, total, rounds>>
    <3>1. \A m \in Node : conn'[m] = conn[m] \/ conn'[m].stage # "answered"
      BY <2>4, Zenon DEF FlowOK
    <3>2. QED
      BY <2>1, <2>4, <3>1, ConnKnows, Zenon DEF loop
  <2>5. QED
    BY <1>1, <2>2, <2>3, <2>4, Zenon DEF Connect
<1>2. CASE GossipConnect(n)
  <2>1. /\ UNCHANGED <<peers, total, rounds, all_ok, told, cut, pc, sealing_allowed>>
        /\ pc[n] = "gossip"
    BY <1>2, Zenon DEF GossipConnect, GossipRest, config
  <2>2. CASE GossipReturns(n, FALSE)
    BY <2>1, <2>2, GossipKnows, Zenon DEF GossipReturns
  <2>3. CASE conn' = [conn EXCEPT ![n] = [stage |-> "hello"]] /\ UNCHANGED todo
    <3>1. \A m \in Node : conn'[m] = conn[m] \/ conn'[m].stage # "answered"
      BY <2>3, Zenon DEF FlowOK
    <3>2. QED
      BY <2>1, <2>3, <3>1, ConnKnows, Zenon DEF loop
  <2>4. QED
    BY <1>2, <2>2, <2>3, Zenon DEF GossipConnect
<1>3. CASE Reset(n) \/ Timeout(n) \/ Lost(n)
  <2>1. CallFails(n) /\ conn[n] # NoConn
    <3>1. conn[n].stage \in {"broken", "hello", "ready"} => conn[n] # NoConn
      BY DEF NoConn
    <3>2. QED
      BY <1>3, <3>1, Zenon DEF Reset, Timeout, Lost, Waiting
  <2>2. todo[n] # <<>>
    BY <2>1, Zenon DEF CallsOK
  <2>3. CASE pc[n] = "gossip" /\ GossipReturns(n, FALSE) /\ UNCHANGED <<GossipRest, pushes>>
    BY <2>3, GossipKnows, Zenon DEF GossipReturns, GossipRest, config
  <2>4. CASE Returns(n, "err") /\ UNCHANGED <<Rest, told>>
    BY <2>2, <2>4, ReturnKnows, Zenon DEF Rest, config
  <2>5. QED
    BY <2>1, <2>3, <2>4, Zenon DEF CallFails
<1>4. QED
  BY <1>1, <1>2, <1>3, Zenon

\* A peer answers: told is its height, and the batch is empty only if the node
\* is as high.
LEMMA ServeKnows ==
  ASSUME FlowOK, GateInv, CallsOK, BudgetOK, Moves, NEW n \in Node, NEW p \in Node, Serve(n, p)
  PROVE  GateInv'
<1>1. /\ UNCHANGED <<peers, pc, todo, all_ok, cut, total, rounds, sealing_allowed, chain>>
      /\ p = Head(todo[n]) /\ pc[n] # "gossip" /\ todo[n] # <<>>
  BY Zenon DEF Serve, Calls, CallsOK, config
<1> DEFINE k == Len(chain[n])
           hp == Len(chain[p])
           batch == blocks_from_height_limited(p, k + 1)
<1>2. k \in Nat /\ hp \in Nat /\ chain[p] \in Seq(Blocks)
  BY DEF FlowOK
<1>3. batch = <<>> => hp <= k
  <2>1. SUFFICES ASSUME hp > k PROVE batch # <<>>
    BY <1>2
  <2> DEFINE to == AtMost((k + 1) + Batch - 1, hp)
  <2>2. to \in Nat /\ to >= k + 1 /\ to <= hp
    BY <1>2, <2>1, Budgets DEF AtMost
  <2>3. batch = SubSeq(chain[p], k + 1, to)
    BY Zenon DEF blocks_from_height_limited, Height
  <2> HIDE DEF to, batch, k, hp
  <2>4. Len(SubSeq(chain[p], k + 1, to)) = to - (k + 1) + 1
    <3>1. \A i \in k + 1 .. to : chain[p][i] \in Blocks
      BY <1>2, <2>2 DEF hp
    <3>2. k + 1 \in Int /\ to \in Int /\ k + 1 <= to
      BY <1>2, <2>2
    <3>3. QED
      BY <3>1, <3>2, <1>2, Sliced
  <2>5. Len(batch) > 0
    BY <1>2, <2>2, <2>3, <2>4
  <2>6. QED
    BY <2>5
<1>4. /\ \A m \in Node \ {n} : conn'[m] = conn[m] /\ told'[m] = told[m]
      /\ told' \in [Node -> [Node -> Int]]
      /\ \A q \in Node \ {p} : told'[n][q] = told[n][q]
      /\ told'[n][p] = IF poisoned[p] \/ pc[n] = "sync" THEN told[n][p] ELSE hp
      /\ conn'[n] = IF poisoned[p] THEN [stage |-> "broken"]
                    ELSE [stage |-> "answered", batch |-> batch]
  <2>1. told' = [told EXCEPT ![n][p] = IF poisoned[p] \/ pc[n] = "sync" THEN @ ELSE hp]
    BY Zenon DEF Serve, Height
  <2>2. conn' = [conn EXCEPT ![n] = IF poisoned[p] THEN [stage |-> "broken"]
                                    ELSE [stage |-> "answered", batch |-> batch]]
    BY Zenon DEF Serve, Height
  <2> HIDE DEF hp, batch
  <2>3. told \in [Node -> [Node -> Int]] /\ DOMAIN conn = Node
    BY Zenon DEF GateInv, GateTypes, FlowOK
  <2>4. /\ \A m \in Node \ {n} : conn'[m] = conn[m]
        /\ conn'[n] = IF poisoned[p] THEN [stage |-> "broken"]
                      ELSE [stage |-> "answered", batch |-> batch]
    BY <2>2, <2>3, Zenon
  <2>5. /\ \A m \in Node \ {n} : told'[m] = told[m]
        /\ \A q \in Node \ {p} : told'[n][q] = told[n][q]
        /\ told'[n][p] = IF poisoned[p] \/ pc[n] = "sync" THEN told[n][p] ELSE hp
    BY <2>1, <2>3, Zenon
  <2>6. told' \in [Node -> [Node -> Int]]
    BY <1>2, <2>1, <2>3
  <2>7. QED
    BY <2>4, <2>5, <2>6, Zenon
<1> HIDE DEF k, hp, batch
<1>5. GateTypes'
  BY <1>1, <1>4, Zenon DEF GateInv, GateTypes
<1>6. ASSUME NEW m \in Node \ {n} PROVE SyncCall(m)' /\ Asking(m)'
  <2>1. Untouched(m)
    BY <1>1, <1>4, Zenon DEF Untouched
  <2>2. QED
    BY <1>1, <2>1, UntouchedKnows, Zenon
<1>7. SyncCall(n)'
  BY <1>1, Zenon DEF SyncCall, GateInv
<1>8. ASSUME pc[n] \in {"initial", "gate"} PROVE Asking(n)'
  <2>1. Asking(n) /\ todo[n] \in Seq(Node)
    BY <1>8, Zenon DEF GateInv, Asking
  <2>2. todo[n][1] = p /\ 1 \in 1 .. Len(todo[n])
    BY <1>1, <2>1
  <2>3. ASSUME all_ok[n], NEW q \in peers[n]
        PROVE  CaughtUp(n, q)' \/ \E i \in 1 .. Len(todo[n]) : todo[n][i] = q
    <3>1. q \in Node
      BY Zenon DEF GateInv, GateTypes
    <3>2. CaughtUp(n, q) \/ \E i \in 1 .. Len(todo[n]) : todo[n][i] = q
      BY <1>8, <2>1, <2>3, Zenon DEF Asking
    <3>3. CASE q = p
      BY <2>2, <3>3, Zenon
    <3>4. CASE q # p
      BY <1>1, <1>4, <3>1, <3>2, <3>4, Zenon DEF CaughtUp, Height
    <3>5. QED
      BY <3>3, <3>4, Zenon
  <2>4. total[n] > 0 \/ rounds[n] > 0 => told'[n][p] # Unheard
    <3>1. total[n] > 0 \/ rounds[n] > 0 => told[n][p] # Unheard
      BY <1>1, <1>8, <2>1, Zenon DEF Asking
    <3>2. told'[n][p] = told[n][p] \/ told'[n][p] = hp
      BY <1>4, Zenon
    <3>3. QED
      BY <1>2, <3>1, <3>2 DEF Unheard
  <2>5. conn'[n].stage = "answered" =>
          /\ told'[n][p] # Unheard
          /\ conn'[n].batch = <<>> => told'[n][p] <= Height(n)'
    <3>1. SUFFICES ASSUME conn'[n].stage = "answered"
                   PROVE  /\ told'[n][p] # Unheard
                          /\ conn'[n].batch = <<>> => told'[n][p] <= k
      BY <1>1, <3>1, Zenon DEF Height, k
    <3>2. conn'[n].batch = batch /\ ~poisoned[p]
      BY <1>4, <3>1
    <3>3. told'[n][p] = hp
      BY <1>4, <1>8, <3>2, Zenon
    <3>4. QED
      BY <1>2, <1>3, <3>2, <3>3 DEF Unheard
  <2>6. QED
    BY <1>1, <2>1, <2>3, <2>4, <2>5, Zenon DEF Asking
<1>9. Asking(n)'
  BY <1>1, <1>8, Zenon DEF Asking
<1>10. QED
  BY <1>5, <1>6, <1>7, <1>9, Zenon DEF GateInv


\* An answer is handled: the call is over, or has a round more on its budget.
LEMMA ReceiveKnows ==
  ASSUME FlowOK, GateInv, CallsOK, BudgetOK, Moves, NEW n \in Node,
         Receive(n) \/ ReceiveFails(n)
  PROVE  GateInv'
<1>1. /\ UNCHANGED <<peers, pc, told, sealing_allowed>>
      /\ conn[n].stage = "answered"
  BY Zenon DEF Receive, ReceiveFails, Rest, config
<1>2. todo[n] # <<>> /\ pc[n] \in {"initial", "gate", "sync", "gossip"}
  <2>1. conn[n] # NoConn
    BY <1>1 DEF NoConn
  <2>2. QED
    BY <2>1, Zenon DEF CallsOK
<1>3. pc[n] \in {"initial", "gate"} =>
        /\ told[n][Head(todo[n])] # Unheard
        /\ conn[n].batch = <<>> => told[n][Head(todo[n])] <= Height(n)
  BY <1>1, Zenon DEF GateInv, Asking
<1>4. CASE Returns(n, "err")
  BY <1>1, <1>2, <1>4, ReturnKnows, Zenon
<1>5. CASE Returns(n, "stopped")
  BY <1>1, <1>2, <1>3, <1>5, ReturnKnows, Zenon
<1>6. CASE Returns(n, "ok") /\ conn[n].batch = <<>>
  BY <1>1, <1>2, <1>3, <1>6, ReturnKnows, Zenon
<1>7. CASE /\ conn' = [conn EXCEPT ![n] = NoConn]
           /\ \E d : total' = [total EXCEPT ![n] = d]
           /\ rounds' = [rounds EXCEPT ![n] = @ + 1]
           /\ UNCHANGED <<todo, all_ok, cut>>
           /\ pc[n] # "gossip"
  <2>1. /\ conn'[n] = NoConn
        /\ rounds' \in [Node -> Nat]
        /\ \A m \in Node \ {n} : /\ conn'[m] = conn[m] /\ total'[m] = total[m]
                                 /\ rounds'[m] = rounds[m]
    <3>1. DOMAIN conn = Node /\ DOMAIN total = Node /\ rounds \in [Node -> Nat]
      BY Zenon DEF FlowOK, BudgetOK, GateInv, GateTypes
    <3>2. PICK d : total' = [total EXCEPT ![n] = d]
      BY <1>7, Zenon
    <3>3. rounds' = [rounds EXCEPT ![n] = @ + 1] /\ conn' = [conn EXCEPT ![n] = NoConn]
      BY <1>7, Zenon
    <3>4. QED
      BY <3>1, <3>2, <3>3
  <2>2. GateTypes'
    BY <1>1, <1>7, <2>1, Zenon DEF GateInv, GateTypes
  <2>3. ASSUME NEW m \in Node \ {n} PROVE SyncCall(m)' /\ Asking(m)'
    <3>1. Untouched(m)
      BY <1>1, <1>7, <2>1, Zenon DEF Untouched
    <3>2. QED
      BY <1>1, <3>1, UntouchedKnows, Zenon
  <2>4. SyncCall(n)'
    BY <1>1, <1>2, <1>7, <2>1, Zenon DEF SyncCall, NoConn
  <2>5. ASSUME pc[n] \in {"initial", "gate"} PROVE Asking(n)'
    <3>1. Asking(n) /\ \A p \in Node : told[n][p] \in Int
      BY Zenon DEF GateInv, GateTypes
    <3>2. Len(chain[n]) \in Nat /\ Len(chain'[n]) \in Nat /\ Len(chain'[n]) >= Len(chain[n])
      BY ChainsGrow, Zenon
    <3>3. \A p \in Node : CaughtUp(n, p) => CaughtUp(n, p)'
      <4>1. told'[n] = told[n] /\ cut'[n] = cut[n]
        BY <1>1, <1>7, Zenon
      <4>2. \A p \in Node : told[n][p] <= Len(chain[n]) => told[n][p] <= Len(chain'[n])
        BY <3>1, <3>2
      <4>3. QED
        BY <4>1, <4>2, Zenon DEF CaughtUp, Height
    <3>4. peers[n] \subseteq Node
      BY Zenon DEF GateInv, GateTypes
    <3>5. conn'[n].stage # "answered"
      BY <2>1 DEF NoConn
    <3>6. QED
      BY <1>1, <1>3, <1>7, <2>5, <3>1, <3>3, <3>4, <3>5, Zenon DEF Asking
  <2>6. Asking(n)'
    BY <1>1, <2>5, Zenon DEF Asking
  <2>7. QED
    BY <2>2, <2>3, <2>4, <2>6, Zenon DEF GateInv
<1>8. pc[n] # "gossip"
  BY <1>1, Zenon DEF GateInv, SyncCall
<1>9. QED
  BY <1>4, <1>5, <1>6, <1>7, <1>8, Zenon DEF Receive, ReceiveFails

\* What sessions do: a handshake, a push that is written, and one that is handled.
LEMMA SessionStepsKnow ==
  ASSUME FlowOK, GateInv, CallsOK, BudgetOK, Moves
  PROVE  /\ \A n, p \in Node : Setup(n, p) \/ Push(n, p) => GateInv'
         /\ \A x \in pushes : ApplyPush(x) \/ ApplyPushFails(x) => GateInv'
<1>1. ASSUME NEW n \in Node, NEW p \in Node, Setup(n, p) PROVE GateInv'
  <2>1. UNCHANGED <<peers, pc, loop, total, rounds, sealing_allowed>>
    BY <1>1, Zenon DEF Setup, config
  <2>2. \A m \in Node : conn'[m] = conn[m] \/ conn'[m].stage # "answered"
    BY <1>1, Zenon DEF Setup, FlowOK, Conns
  <2>3. QED
    BY <2>1, <2>2, ConnKnows, Zenon
<1>2. ASSUME NEW n \in Node, NEW p \in Node, Push(n, p) PROVE GateInv'
  BY <1>2, GossipKnows, Zenon DEF Push, GossipReturns, GossipRest, config
<1>3. ASSUME NEW x \in pushes, ApplyPush(x) \/ ApplyPushFails(x) PROVE GateInv'
  <2>1. UNCHANGED <<peers, pc, loop, total, rounds, sealing_allowed, conn>>
    BY <1>3, Zenon DEF ApplyPush, ApplyPushFails, config, call
  <2>2. QED
    BY <2>1, ConnKnows, Zenon
<1>4. QED
  BY <1>1, <1>2, <1>3, Zenon

LEMMA GateStep ==
  ASSUME FlowOK, GateInv, CallsOK, BudgetOK, [Next]_vars
  PROVE  GateInv'
<1>1. Moves
  BY FlowStep, Zenon
<1>2. CASE UNCHANGED vars
  <2>1. UNCHANGED <<peers, pc, loop, total, rounds, sealing_allowed, conn>>
    BY <1>2, Zenon DEF vars, config, call
  <2>2. QED
    BY <1>1, <2>1, ConnKnows, Zenon
<1>3. ASSUME NEW n \in Node, NodeNext(n) PROVE GateInv'
  BY <1>1, <1>3, LoopStepsKnow, DeathStepsKnow, CallStepsKnow, ReceiveKnows, Zenon DEF NodeNext
<1>4. ASSUME NEW n \in Node, NEW p \in Node, Setup(n, p) \/ Serve(n, p) \/ Push(n, p)
      PROVE  GateInv'
  BY <1>1, <1>4, ServeKnows, SessionStepsKnow, Zenon
<1>5. ASSUME NEW x \in pushes, ApplyPush(x) \/ ApplyPushFails(x) PROVE GateInv'
  BY <1>1, <1>5, SessionStepsKnow, Zenon
<1>6. QED
  BY <1>2, <1>3, <1>4, <1>5, Zenon DEF Next

LEMMA GateInit == Init => GateInv
<1> SUFFICES ASSUME Init PROVE GateInv
  BY Zenon
<1>1. peers \in [Node -> SUBSET Node]
  <2>1. PICK net \in Networks : peers = net.peers
    BY Zenon DEF Init
  <2>2. QED
    BY <2>1, NetworksAssumption, Zenon DEF Network
<1>2. /\ all_ok = [n \in Node |-> TRUE] /\ sealing_allowed = [n \in Node |-> FALSE]
      /\ cut = [n \in Node |-> {}] /\ rounds = [n \in Node |-> 0]
      /\ total = [n \in Node |-> 0] /\ pc = [n \in Node |-> "down"]
      /\ told = [n \in Node |-> [p \in Node |-> Unheard]]
      /\ conn = [n \in Node |-> NoConn]
  BY Zenon DEF Init
<1>3. GateTypes
  <2>1. [p \in Node |-> Unheard] \in [Node -> Int]
    BY DEF Unheard
  <2>2. told \in [Node -> [Node -> Int]]
    BY <1>2, <2>1, Zenon
  <2>3. QED
    BY <1>1, <1>2, <2>2, Zenon DEF GateTypes
<1>4. ASSUME NEW n \in Node PROVE SyncCall(n) /\ Asking(n)
  BY <1>2 DEF SyncCall, Asking, NoConn
<1>5. QED
  BY <1>3, <1>4, Zenon DEF GateInv

\* What a node knows of its peers while it asks them, in every reachable state.
THEOREM GateInvariant == Spec => []GateInv
<1>1. Init => GateInv
  BY GateInit, Zenon
<1>2. SyncInv /\ GateInv /\ [Next]_vars => GateInv'
  BY GateStep, Zenon DEF SyncInv
<1>3. QED
  BY <1>1, <1>2, SyncInvariant, PTL DEF Spec


\* sealing_allowed of cmd_run: sealing becomes allowed only after a loop in which
\* every configured peer has answered and has nothing the node lacks, unless the
\* budget of the call has stopped it.
THEOREM GateWaitsForPeers == Spec => GateOpensAfterCatchUp
<1> DEFINE Opens == \A n \in Node : \A p \in peers[n] :
                      ~sealing_allowed[n] /\ sealing_allowed'[n] =>
                        /\ told[n][p] # Unheard
                        /\ p \in cut[n] \/ told[n][p] <= Height(n)
<1>1. GateInv /\ [Next]_vars => [Opens]_vars
  <2> SUFFICES ASSUME GateInv, Next,
                      NEW n \in Node, NEW p \in peers[n],
                      ~sealing_allowed[n], sealing_allowed'[n]
               PROVE  CaughtUp(n, p)
    BY Zenon DEF CaughtUp
  <2>1. DOMAIN sealing_allowed = Node
    BY Zenon DEF GateInv, GateTypes
  <2>2. ASSUME NEW m \in Node, pc[m] \in {"initial", "gate"}, todo[m] = <<>>,
               sealing_allowed' = [sealing_allowed EXCEPT ![m] = all_ok[m]]
        PROVE  CaughtUp(n, p)
    <3>1. m = n /\ all_ok[n]
      BY <2>1, <2>2, Zenon
    <3>2. CaughtUp(n, p) \/ \E i \in 1 .. Len(todo[n]) : todo[n][i] = p
      BY <2>2, <3>1, Zenon DEF GateInv, Asking
    <3>3. QED
      BY <2>2, <3>1, <3>2
  <2>3. ASSUME NEW m \in Node, Start(m) PROVE FALSE
    <3>1. m = n /\ peers[n] = {}
      BY <2>1, <2>3, Zenon DEF Start
    <3>2. QED
      BY <3>1, Zenon
  <2>4. ASSUME UNCHANGED sealing_allowed PROVE FALSE
    BY <2>4, Zenon
  <2>5. ASSUME NEW m \in Node, NodeNext(m) PROVE CaughtUp(n, p)
    <3>1. CASE EndInitial(m)
      BY <2>2, <3>1, Zenon DEF EndInitial
    <3>2. CASE EndGate(m)
      BY <2>2, <3>2, Zenon DEF EndGate
    <3>3. CASE Wake(m) \/ WakeInThePast(m) \/ EndSync(m) \/ EndGossip(m)
      BY <2>4, <3>3, Zenon DEF Wake, WakeInThePast, Tick, EndSync, EndGossip
    <3>4. CASE ExitPoisoned(m) \/ SealFails(m) \/ Crash(m)
      BY <2>4, <3>4, Zenon DEF ExitPoisoned, SealFails, Crash, Dies
    <3>5. CASE \/ Connect(m) \/ Receive(m) \/ GossipConnect(m) \/ Reset(m) \/ Timeout(m)
               \/ ReceiveFails(m) \/ Lost(m)
      BY <2>4, <3>5, Zenon DEF Connect, Receive, GossipConnect, Reset, Timeout, ReceiveFails, Lost,
                        CallFails, GossipRest, Rest
    <3>6. QED
      BY <2>3, <2>5, <3>1, <3>2, <3>3, <3>4, <3>5, Zenon DEF NodeNext
  <2>6. ASSUME NEW m \in Node, NEW q \in Node, Setup(m, q) \/ Serve(m, q) \/ Push(m, q)
        PROVE  FALSE
    BY <2>4, <2>6, Zenon DEF Setup, Serve, Push, GossipRest
  <2>7. ASSUME NEW x \in pushes, ApplyPush(x) \/ ApplyPushFails(x) PROVE FALSE
    BY <2>4, <2>7, Zenon DEF ApplyPush, ApplyPushFails
  <2>8. QED
    BY <2>5, <2>6, <2>7, Zenon DEF Next
<1>2. QED
  BY <1>1, GateInvariant, PTL DEF Spec, GateOpensAfterCatchUp
-----------------------------------------------------------------------------
(***************************************************************************)
(* The peers a loop is given: Kept selects from a sequence by recursion.   *)
(* Induction is over sets of numbers: a statement about n is turned into   *)
(* the set of the n it holds for.                                          *)
(***************************************************************************)
\* A nonempty set of naturals has a least element.
LEMMA LeastElement ==
  ASSUME NEW T, T \subseteq Nat, T # {}
  PROVE  \E x \in T : \A y \in T : x <= y
<1> DEFINE R == {p \in Nat \X Nat : p[1] < p[2]}
<1>1. IsWellFoundedOn(R, Nat)
  BY NatLessThanWellFounded, Zenon DEF OpToRel
<1> HIDE DEF R
<1>2. PICK x \in T : \A y \in T : ~ (<<y, x>> \in R)
  BY <1>1, WFMin, Zenon
<1>3. ASSUME NEW y \in T PROVE x <= y
  <2>1. x \in Nat /\ y \in Nat
    BY Zenon
  <2>2. <<y, x>> \in R <=> y < x
    BY <2>1, Zenon DEF R
  <2>3. QED
    BY <1>2, <2>1, <2>2
<1>4. QED
  BY <1>3, Zenon

\* Induction up to N: T is the set of the numbers the statement holds for.
LEMMA InductionUpTo ==
  ASSUME NEW N \in Nat, NEW T, 0 \in T, \A n \in 1 .. N : n - 1 \in T => n \in T
  PROVE  \A n \in 0 .. N : n \in T
<1> SUFFICES ASSUME NEW m \in 0 .. N, m \notin T PROVE FALSE
  BY Zenon
<1> DEFINE U == (0 .. N) \ T
<1>1. U \subseteq Nat /\ U # {}
  OBVIOUS
<1>2. PICK x \in U : \A y \in U : x <= y
  <2> HIDE DEF U
  <2>1. QED
    BY <1>1, LeastElement, Zenon
<1>3. x \in 1 .. N /\ x \notin T
  OBVIOUS
<1>4. x - 1 \in 0 .. N /\ x - 1 \notin U
  BY <1>2, <1>3
<1>5. QED
  BY <1>3, <1>4, Zenon

\* f is the recursion of Kept, up to m.
Keeps(f, m, s, S) ==
  f = [i \in 0 .. m |-> IF i = 0 THEN <<>>
                        ELSE IF s[i] \in S THEN Append(f[i - 1], s[i]) ELSE f[i - 1]]

\* Its steps, one by one.
StepsOf(f, m, s, S) ==
  /\ f[0] = <<>>
  /\ \A i \in 1 .. m : f[i] = IF s[i] \in S THEN Append(f[i - 1], s[i]) ELSE f[i - 1]

LEMMA KeepsSteps ==
  ASSUME NEW s, NEW S, NEW m \in Nat, NEW f, Keeps(f, m, s, S)
  PROVE  StepsOf(f, m, s, S)
<1> DEFINE F(i) == IF i = 0 THEN <<>>
                   ELSE IF s[i] \in S THEN Append(f[i - 1], s[i]) ELSE f[i - 1]
<1>1. f = [i \in 0 .. m |-> F(i)]
  BY Zenon DEF Keeps
<1>2. \A i \in 0 .. m : f[i] = F(i)
  <2> HIDE DEF F
  <2>1. QED
    BY <1>1, Zenon
<1>3. 0 \in 0 .. m /\ \A i \in 1 .. m : i \in 0 .. m /\ i # 0
  OBVIOUS
<1>4. F(0) = <<>>
  BY Zenon
<1>5. ASSUME NEW i \in 1 .. m
      PROVE  F(i) = IF s[i] \in S THEN Append(f[i - 1], s[i]) ELSE f[i - 1]
  BY <1>3, Zenon
<1>6. QED
  BY <1>2, <1>3, <1>4, <1>5, Zenon DEF StepsOf

\* Such a function exists.
LEMMA KeepsExists ==
  ASSUME NEW s, NEW S, NEW N \in Nat
  PROVE  \E f : Keeps(f, N, s, S)
<1> DEFINE T == {m \in 0 .. N : \E f : Keeps(f, m, s, S)}
<1>1. 0 \in T
  <2>1. Keeps([i \in 0 .. 0 |-> <<>>], 0, s, S)
    BY DEF Keeps
  <2>2. QED
    BY <2>1
<1>2. ASSUME NEW m \in 1 .. N, m - 1 \in T PROVE m \in T
  <2>1. PICK f : Keeps(f, m - 1, s, S)
    BY <1>2, Zenon
  <2> DEFINE e == IF s[m] \in S THEN Append(f[m - 1], s[m]) ELSE f[m - 1]
             g == [i \in 0 .. m |-> IF i = m THEN e ELSE f[i]]
  <2>2. \A i \in 0 .. m : g[i] = IF i = m THEN e ELSE f[i]
    BY Zenon
  <2>3. /\ f[0] = <<>>
        /\ \A i \in 1 .. m - 1 :
             f[i] = IF s[i] \in S THEN Append(f[i - 1], s[i]) ELSE f[i - 1]
    <3>1. m - 1 \in Nat
      OBVIOUS
    <3>2. StepsOf(f, m - 1, s, S)
      BY <2>1, <3>1, KeepsSteps, Zenon
    <3>3. QED
      BY <3>2, Zenon DEF StepsOf
  <2> HIDE DEF e
  <2>4. g[0] = <<>>
    BY <2>2, <2>3
  <2>5. ASSUME NEW i \in 1 .. m
        PROVE  g[i] = IF s[i] \in S THEN Append(g[i - 1], s[i]) ELSE g[i - 1]
    <3>1. g[i - 1] = f[i - 1]
      BY <2>2
    <3>2. CASE i = m
      <4>1. g[m] = e
        BY <2>2
      <4>2. QED
        BY <3>1, <3>2, <4>1, Zenon DEF e
    <3>3. CASE i # m
      <4>1. i \in 1 .. m - 1 /\ i \in 0 .. m
        BY <3>3
      <4>2. QED
        BY <2>2, <2>3, <3>1, <3>3, <4>1, Zenon
    <3>4. QED
      BY <3>2, <3>3, Zenon
  <2>6. \A i \in 0 .. m : i = 0 \/ i \in 1 .. m
    OBVIOUS
  <2>7. \A i \in 1 .. m : i # 0
    OBVIOUS
  <2> DEFINE h == [i \in 0 .. m |-> IF i = 0 THEN <<>>
                     ELSE IF s[i] \in S THEN Append(g[i - 1], s[i]) ELSE g[i - 1]]
  <2>8. \A i \in 0 .. m : g[i] = h[i]
    <3>1. ASSUME NEW i \in 0 .. m PROVE g[i] = h[i]
      <4> HIDE DEF g
      <4>1. CASE i = 0
        BY <2>4, <4>1, Zenon
      <4>2. CASE i # 0
        BY <2>5, <2>6, <4>2, Zenon
      <4>3. QED
        BY <4>1, <4>2, Zenon
    <3>2. QED
      BY <3>1, Zenon
  <2>9. g = h
    BY <2>8, Zenon
  <2>10. Keeps(g, m, s, S)
    <3> HIDE DEF g
    <3>1. QED
      BY <2>9, Zenon DEF Keeps
  <2>11. m \in 0 .. N
    OBVIOUS
  <2> HIDE DEF g
  <2>12. QED
    BY <2>10, <2>11, Zenon
<1> HIDE DEF T
<1>3. \A m \in 0 .. N : m \in T
  BY <1>1, <1>2, InductionUpTo, Zenon
<1>4. N \in 0 .. N
  OBVIOUS
<1>5. QED
  BY <1>3, <1>4, Zenon DEF T

\* What is kept of a sequence over V is a sequence over V.
LEMMA KeptType ==
  ASSUME NEW V, NEW s \in Seq(V), NEW S
  PROVE  Kept(s, S) \in Seq(V)
<1> DEFINE N == Len(s)
           kept == CHOOSE f : Keeps(f, N, s, S)
<1>1. N \in Nat /\ \A i \in 1 .. N : s[i] \in V
  OBVIOUS
<1>2. Kept(s, S) = kept[N]
  BY Zenon DEF Kept, Keeps
<1> HIDE DEF N
<1>3. Keeps(kept, N, s, S)
  BY <1>1, KeepsExists, Zenon
<1> HIDE DEF kept
<1>4. /\ kept[0] = <<>>
      /\ \A i \in 1 .. N :
           kept[i] = IF s[i] \in S THEN Append(kept[i - 1], s[i]) ELSE kept[i - 1]
  <2>1. StepsOf(kept, N, s, S)
    BY <1>1, <1>3, KeepsSteps, Zenon
  <2>2. QED
    BY <2>1, Zenon DEF StepsOf
<1> DEFINE T == {i \in 0 .. N : kept[i] \in Seq(V)}
<1>5. 0 \in T
  <2>1. 0 \in 0 .. N /\ <<>> \in Seq(V)
    BY <1>1
  <2>2. QED
    BY <1>4, <2>1, Zenon
<1>6. ASSUME NEW i \in 1 .. N, i - 1 \in T PROVE i \in T
  <2>1. i \in 0 .. N /\ kept[i - 1] \in Seq(V) /\ s[i] \in V
    BY <1>1, <1>6
  <2>2. Append(kept[i - 1], s[i]) \in Seq(V)
    BY <2>1, Appended, Zenon
  <2>3. QED
    BY <1>4, <2>1, <2>2, Zenon
<1>7. N \in 0 .. N
  BY <1>1
<1>8. N \in T
  <2> HIDE DEF T
  <2>1. QED
    BY <1>1, <1>5, <1>6, <1>7, InductionUpTo, Zenon
<1>9. QED
  BY <1>2, <1>8, Zenon

\* A book of peers: what is known of some of the nodes.
IsBook(f) == DOMAIN f \subseteq Node /\ \A p \in DOMAIN f : f[p] \in PeerEntry

\* The fields of an entry, and what they may be set to.
LEMMA EntryFields ==
  ASSUME NEW e \in PeerEntry
  PROVE  /\ e.fail_streak \in 0 .. MaxU32 /\ e.age \in Int
         /\ e.include_in_gossip \in BOOLEAN
         /\ \A k \in 0 .. MaxU32, t \in Int :
              [e EXCEPT !.fail_streak = k, !.age = t] \in PeerEntry
         /\ \A t \in Int : [e EXCEPT !.age = t] \in PeerEntry
         /\ \A g \in BOOLEAN : [e EXCEPT !.include_in_gossip = g] \in PeerEntry
  BY Zenon DEF PeerEntry

\* The numbers of the cooldown.
LEMMA CooldownNumbers ==
  /\ {MaxU32, CooldownMaxFactor, CooldownBase} \subseteq Nat /\ LongAgo \in Int
  /\ 0 \in 0 .. MaxU32
  /\ \A t, dt \in Int : AtMost(t + dt, LongAgo) \in Int
  /\ \A k \in 0 .. MaxU32 : AtMost(k + 1, MaxU32) \in 0 .. MaxU32
<1>1. {MaxU32, CooldownMaxFactor, CooldownBase} \subseteq Nat
  BY CooldownAssumption, Zenon
<1>2. LongAgo \in Int
  BY <1>1 DEF LongAgo
<1>3. QED
  BY <1>1, <1>2 DEF AtMost

LEMMA NewEntryType == NewEntry(TRUE) \in PeerEntry
  BY CooldownNumbers DEF NewEntry, PeerEntry

\* load_or_empty and the passing of time.
LEMMA AgedType ==
  ASSUME NEW f, IsBook(f), NEW dt \in Int
  PROVE  IsBook(Aged(f, dt))
<1>1. DOMAIN Aged(f, dt) = DOMAIN f
  BY Zenon DEF Aged
<1>2. ASSUME NEW p \in DOMAIN f PROVE Aged(f, dt)[p] \in PeerEntry
  <2>1. f[p] \in PeerEntry /\ Aged(f, dt)[p] = [f[p] EXCEPT !.age = AtMost(f[p].age + dt, LongAgo)]
    BY Zenon DEF Aged, IsBook
  <2>2. AtMost(f[p].age + dt, LongAgo) \in Int
    BY <2>1, EntryFields, CooldownNumbers, Zenon
  <2>3. QED
    BY <2>1, <2>2, EntryFields, Zenon
<1>3. QED
  BY <1>1, <1>2, Zenon DEF IsBook

LEMMA OrInsertType ==
  ASSUME NEW f, IsBook(f), NEW S \in SUBSET Node
  PROVE  /\ DOMAIN OrInsert(f, S) = DOMAIN f \cup S /\ IsBook(OrInsert(f, S))
         /\ OrInsert(f, S) = [a \in DOMAIN f \cup S |-> OrInsert(f, S)[a]]
<1>1. DOMAIN OrInsert(f, S) = DOMAIN f \cup S
  BY Zenon DEF OrInsert
<1>2. ASSUME NEW p \in DOMAIN f \cup S PROVE OrInsert(f, S)[p] \in PeerEntry
  BY NewEntryType, Zenon DEF OrInsert, IsBook
<1>3. OrInsert(f, S) = [a \in DOMAIN f \cup S |-> OrInsert(f, S)[a]]
  BY Zenon DEF OrInsert
<1>4. QED
  BY <1>1, <1>2, <1>3, Zenon DEF IsBook

\* The start merges the configured peers into the book.
LEMMA MergedType ==
  ASSUME NEW f, IsBook(f), NEW S \in SUBSET Node
  PROVE  IsBook(merge_seed(f, S))
<1> DEFINE g == OrInsert(f, S)
<1>1. DOMAIN g = DOMAIN f \cup S /\ IsBook(g)
  BY OrInsertType, Zenon
<1> HIDE DEF g
<1>2. merge_seed(f, S) = [a \in DOMAIN f \cup S |->
                            [g[a] EXCEPT !.include_in_gossip = g[a].include_in_gossip \/ a \in S]]
  BY Zenon DEF merge_seed, g
<1>3. ASSUME NEW a \in DOMAIN f \cup S PROVE merge_seed(f, S)[a] \in PeerEntry
  <2>1. g[a] \in PeerEntry /\ (g[a].include_in_gossip \/ a \in S) \in BOOLEAN
    BY <1>1, Zenon DEF IsBook
  <2>2. QED
    BY <1>2, <2>1, EntryFields, Zenon
<1>4. DOMAIN merge_seed(f, S) = DOMAIN f \cup S
  BY <1>2, Zenon
<1>5. QED
  BY <1>1, <1>3, <1>4, Zenon DEF IsBook

\* record_ok and record_fail.
LEMMA RecordedType ==
  ASSUME NEW f, IsBook(f), NEW p \in Node
  PROVE  IsBook(record_ok(f, p)) /\ IsBook(record_fail(f, p))
<1> DEFINE g == OrInsert(f, {p})
           ok == [g[p] EXCEPT !.fail_streak = 0, !.age = LongAgo]
           k == AtMost(g[p].fail_streak + 1, MaxU32)
           failed == OneMoreFailure(g[p])
<1>1. IsBook(g) /\ DOMAIN g = DOMAIN f \cup {p}
  <2>1. {p} \in SUBSET Node
    BY Zenon
  <2>2. QED
    BY <2>1, OrInsertType, Zenon
<1>2. record_ok(f, p) = [g EXCEPT ![p] = ok] /\ record_fail(f, p) = [g EXCEPT ![p] = failed]
  <2>1. record_ok(f, p) = [g EXCEPT ![p] = ok]
    BY SMT DEF record_ok
  <2>2. record_fail(f, p) = [g EXCEPT ![p] = failed]
    BY Zenon DEF record_fail
  <2>3. QED
    BY <2>1, <2>2, Zenon
<1> HIDE DEF g
<1>3. g[p] \in PeerEntry
  BY <1>1, Zenon DEF IsBook
<1>4. k \in 0 .. MaxU32 /\ 0 \in 0 .. MaxU32 /\ LongAgo \in Int /\ 0 \in Int
  <2>1. 0 \in Int
    OBVIOUS
  <2>2. g[p].fail_streak \in 0 .. MaxU32
    BY <1>3, EntryFields, Zenon
  <2>3. QED
    BY <2>1, <2>2, CooldownNumbers, Zenon
<1> HIDE DEF k
<1>5. ok \in PeerEntry /\ failed \in PeerEntry
  <2>1. failed = [g[p] EXCEPT !.fail_streak = k, !.age = 0]
    BY Zenon DEF OneMoreFailure, k
  <2>2. ok \in PeerEntry /\ [g[p] EXCEPT !.fail_streak = k, !.age = 0] \in PeerEntry
    BY <1>3, <1>4, EntryFields, Zenon
  <2> HIDE DEF ok, failed
  <2>3. QED
    BY <2>1, <2>2, Zenon
<1> HIDE DEF ok, failed
<1>6. ASSUME NEW e \in PeerEntry PROVE IsBook([g EXCEPT ![p] = e])
  BY <1>1, Zenon DEF IsBook
<1>7. QED
  BY <1>2, <1>5, <1>6, Zenon

\* The peers of the end-of-tick sync and of gossip are nodes.
LEMMA TargetsType ==
  ASSUME NEW f, IsBook(f), NEW S \in SUBSET Node, NEW K
  PROVE  /\ Kept(Listed(S), K) \in Seq(Node)
         /\ filter_available(f, sync_candidates(f, Listed(S))) \in Seq(Node)
<1> DEFINE L == Listed(S)
           others == {a \in DOMAIN f : a \notin Range(L) /\ f[a].include_in_gossip}
<1>1. L \in Seq(Node)
  BY ListedAll, Zenon
<1>2. others \in SUBSET Node
  BY Zenon DEF IsBook
<1>3. Listed(others) \in Seq(Node)
  <2> HIDE DEF others
  <2>1. QED
    BY <1>2, ListedAll, Zenon
<1>4. sync_candidates(f, L) \in Seq(Node)
  <2> HIDE DEF L
  <2>1. sync_candidates(f, L) = L \o Listed(others)
    BY Zenon DEF sync_candidates
  <2> HIDE DEF others
  <2>2. QED
    BY <1>1, <1>3, <2>1, Joined, Zenon
<1> HIDE DEF L
<1>5. QED
  BY <1>1, <1>4, KeptType, Zenon DEF filter_available, L

-----------------------------------------------------------------------------
(***************************************************************************)
(* The types of the main thread's loops, of the flags and of the books.    *)
(***************************************************************************)
TodoOK == todo \in [Node -> Seq(Node)]

FlagsOK ==
  /\ all_ok \in [Node -> BOOLEAN]
  /\ sealing_allowed \in [Node -> BOOLEAN]
  /\ poisoned \in [Node -> BOOLEAN]

Books(f) == DOMAIN f = Node /\ \A n \in Node : IsBook(f[n])

ControlOK ==
  /\ peers \in [Node -> SUBSET Node] /\ genesis \in [Node -> Genesis]
  /\ TodoOK /\ FlagsOK /\ Books(book) /\ Books(saved)

\* One entry of a function of books is replaced by a book.
LEMMA BookSet ==
  ASSUME NEW f, Books(f), NEW n \in Node, NEW e, IsBook(e)
  PROVE  Books([f EXCEPT ![n] = e])
  BY Zenon DEF Books

\* A loop over nodes begins.
LEMMA BeginTyped ==
  ASSUME TodoOK, FlagsOK, NEW n \in Node, NEW step, NEW targets \in Seq(Node),
         BeginLoop(n, step, targets)
  PROVE  TodoOK' /\ all_ok' \in [Node -> BOOLEAN]
  BY Zenon DEF TodoOK, FlagsOK, BeginLoop

\* A call returns: the next peer is called, and the book may be changed.
LEMMA ReturnTyped ==
  ASSUME TodoOK, FlagsOK, Books(book), NEW n \in Node, todo[n] # <<>>, NEW outcome,
         Returns(n, outcome)
  PROVE  TodoOK' /\ all_ok' \in [Node -> BOOLEAN] /\ Books(book')
<1>1. Tail(todo[n]) \in Seq(Node) /\ Head(todo[n]) \in Node
  BY Rested, Zenon DEF TodoOK
<1>2. TodoOK'
  BY <1>1, Zenon DEF TodoOK, Returns
<1>3. CASE pc[n] = "sync"
  <2> DEFINE e == IF outcome = "err" THEN record_fail(book[n], Head(todo[n]))
                  ELSE record_ok(book[n], Head(todo[n]))
  <2>1. IsBook(e)
    <3>1. IsBook(book[n])
      BY Zenon DEF Books
    <3>2. QED
      BY <1>1, <3>1, RecordedType, Zenon
  <2>2. book' = [book EXCEPT ![n] = e] /\ all_ok' = all_ok
    BY <1>3, Zenon DEF Returns
  <2> HIDE DEF e
  <2>3. Books(book')
    BY <2>1, <2>2, BookSet, Zenon
  <2>4. QED
    BY <1>2, <2>2, <2>3, Zenon DEF FlagsOK
<1>4. CASE pc[n] # "sync"
  <2>1. book' = book /\ all_ok' = [all_ok EXCEPT ![n] = @ /\ outcome # "err"]
    BY <1>4, Zenon DEF Returns
  <2>2. all_ok' \in [Node -> BOOLEAN]
    BY <2>1, Zenon DEF FlagsOK
  <2>3. QED
    BY <1>2, <2>1, <2>2, Zenon
<1>5. QED
  BY <1>3, <1>4, Zenon

\* The same for a push.
LEMMA GossipTyped ==
  ASSUME TodoOK, NEW n \in Node, todo[n] # <<>>, NEW ok, GossipReturns(n, ok)
  PROVE  TodoOK'
<1>1. Tail(todo[n]) \in Seq(Node)
  BY Rested, Zenon DEF TodoOK
<1>2. QED
  BY <1>1, Zenon DEF TodoOK, GossipReturns

\* The start reads, merges and saves the book.
LEMMA StartTyped ==
  ASSUME ControlOK, NEW n \in Node, Start(n)
  PROVE  ControlOK'
<1>1. PICK dt \in {0, LongAgo} :
        LET merged == merge_seed(load_or_empty(n, dt), peers[n])
        IN  /\ book' = [book EXCEPT ![n] = merged]
            /\ saved' = [saved EXCEPT ![n] = merged]
  BY Zenon DEF Start, save
<1> DEFINE merged == merge_seed(load_or_empty(n, dt), peers[n])
<1>2. IsBook(merged)
  <2>1. dt \in Int
    BY CooldownNumbers
  <2>2. IsBook(saved[n]) /\ peers[n] \in SUBSET Node
    BY Zenon DEF ControlOK, Books
  <2>3. IsBook(load_or_empty(n, dt))
    BY <2>1, <2>2, AgedType, Zenon DEF load_or_empty
  <2>4. QED
    BY <2>2, <2>3, MergedType, Zenon
<1>3. book' = [book EXCEPT ![n] = merged] /\ saved' = [saved EXCEPT ![n] = merged]
  BY <1>1, Zenon
<1> HIDE DEF merged
<1>4. Books(book') /\ Books(saved')
  BY <1>2, <1>3, BookSet, Zenon DEF ControlOK
<1>5. PICK step : BeginLoop(n, step, Listed(peers[n]))
  BY Zenon DEF Start
<1>6. Listed(peers[n]) \in Seq(Node)
  <2>1. peers[n] \in SUBSET Node
    BY Zenon DEF ControlOK
  <2>2. QED
    BY <2>1, ListedAll, Zenon
<1>7. TodoOK' /\ all_ok' \in [Node -> BOOLEAN]
  BY <1>5, <1>6, BeginTyped, Zenon DEF ControlOK
<1>8. sealing_allowed' \in [Node -> BOOLEAN] /\ poisoned' \in [Node -> BOOLEAN]
  BY Zenon DEF Start, ControlOK, FlagsOK
<1>9. UNCHANGED <<peers, genesis>>
  BY Zenon DEF Start, config
<1>10. QED
  BY <1>4, <1>7, <1>8, <1>9, Zenon DEF ControlOK, FlagsOK

\* The end-of-tick sync asks nodes.
LEMMA SealTyped ==
  ASSUME ControlOK, NEW n \in Node, NEW aged, IsBook(aged), SealThenSync(n, aged)
  PROVE  TodoOK' /\ all_ok' \in [Node -> BOOLEAN]
<1>1. peers[n] \in SUBSET Node /\ <<>> \in Seq(Node)
  BY DEF ControlOK
<1>2. filter_available(aged, sync_candidates(aged, Listed(peers[n]))) \in Seq(Node)
  BY <1>1, TargetsType, Zenon
<1>3. PICK step, targets : targets \in Seq(Node) /\ BeginLoop(n, step, targets)
  BY <1>1, <1>2, Zenon DEF SealThenSync
<1>4. QED
  BY <1>3, BeginTyped, Zenon DEF ControlOK

\* The tick.
LEMMA TickTyped ==
  ASSUME ControlOK, NEW n \in Node, NEW dt \in Int, Tick(n, dt)
  PROVE  ControlOK'
<1>1. IsBook(Aged(book[n], dt))
  <2>1. IsBook(book[n])
    BY Zenon DEF ControlOK, Books
  <2>2. QED
    BY <2>1, AgedType, Zenon
<1>2. book' = [book EXCEPT ![n] = Aged(book[n], dt)] /\ saved' = saved
  BY Zenon DEF Tick
<1>3. Books(book') /\ IsBook(book'[n])
  <2>1. Books(book')
    BY <1>1, <1>2, BookSet, Zenon DEF ControlOK
  <2>2. QED
    BY <2>1, Zenon DEF Books
<1>4. TodoOK' /\ all_ok' \in [Node -> BOOLEAN]
  <2>1. CASE SealThenSync(n, book'[n])
    BY <1>3, <2>1, SealTyped, Zenon
  <2>2. CASE BeginLoop(n, "gate", Listed(peers[n]))
    <3>1. peers[n] \in SUBSET Node
      BY Zenon DEF ControlOK
    <3>2. Listed(peers[n]) \in Seq(Node)
      BY <3>1, ListedAll, Zenon
    <3>3. QED
      BY <2>2, <3>2, BeginTyped, Zenon DEF ControlOK
  <2>3. QED
    BY <2>1, <2>2, Zenon DEF Tick
<1>5. UNCHANGED <<peers, genesis, sealing_allowed, poisoned>>
  BY Zenon DEF Tick, config
<1>6. QED
  BY <1>2, <1>3, <1>4, <1>5, Zenon DEF ControlOK, FlagsOK

\* The ends of the loops, and the end of the process.
LEMMA LoopTyped ==
  ASSUME ControlOK, NEW n \in Node,
         \/ EndInitial(n) \/ EndGate(n) \/ EndSync(n) \/ EndGossip(n)
         \/ SealFails(n) \/ ExitPoisoned(n) \/ Crash(n)
  PROVE  ControlOK'
<1>1. /\ TodoOK /\ FlagsOK /\ Books(book) /\ Books(saved) /\ IsBook(book[n])
      /\ peers[n] \in SUBSET Node
  BY Zenon DEF ControlOK, Books
<1>2. <<>> \in Seq(Node)
  OBVIOUS
<1>3. \A step : BeginLoop(n, step, <<>>) => TodoOK' /\ all_ok' \in [Node -> BOOLEAN]
  BY <1>1, <1>2, BeginTyped, Zenon
<1>4. Books([saved EXCEPT ![n] = book[n]])
  BY <1>1, BookSet, Zenon
<1>5. sealing_allowed' = sealing_allowed => sealing_allowed' \in [Node -> BOOLEAN]
  BY <1>1, Zenon DEF FlagsOK
<1>6. sealing_allowed' = [sealing_allowed EXCEPT ![n] = all_ok[n]] =>
        sealing_allowed' \in [Node -> BOOLEAN]
  BY <1>1, Zenon DEF FlagsOK
<1>7. SUFFICES /\ UNCHANGED <<config, poisoned, book>> /\ Books(saved')
               /\ sealing_allowed' \in [Node -> BOOLEAN]
               /\ TodoOK' /\ all_ok' \in [Node -> BOOLEAN]
  BY <1>1, Zenon DEF ControlOK, FlagsOK, config
<1>8. CASE EndInitial(n)
  BY <1>3, <1>4, <1>6, <1>8, Zenon DEF EndInitial, save
<1>9. CASE EndGate(n)
  <2>1. TodoOK' /\ all_ok' \in [Node -> BOOLEAN]
    BY <1>1, <1>9, SealTyped, Zenon DEF EndGate
  <2>2. QED
    BY <1>1, <1>6, <1>9, <2>1, Zenon DEF EndGate
<1>10. CASE EndSync(n)
  <2>1. Kept(Listed(peers[n]), {p \in peers[n] : gossip[n][p].cooldown <= 0}) \in Seq(Node)
    BY <1>1, TargetsType, Zenon
  <2>2. TodoOK' /\ all_ok' \in [Node -> BOOLEAN]
    BY <1>1, <1>3, <1>10, <2>1, BeginTyped, Zenon DEF EndSync
  <2>3. QED
    BY <1>4, <1>5, <1>10, <2>2, Zenon DEF EndSync, save
<1>11. CASE EndGossip(n)
  BY <1>1, <1>3, <1>5, <1>11, Zenon DEF EndGossip
<1>12. CASE SealFails(n) \/ ExitPoisoned(n) \/ Crash(n)
  <2>1. Dies(n)
    BY <1>12, Zenon DEF SealFails, ExitPoisoned, Crash
  <2>2. QED
    BY <1>1, <1>3, <1>5, <2>1, Zenon DEF Dies
<1>13. QED
  BY <1>8, <1>9, <1>10, <1>11, <1>12, Zenon

\* The steps of a call.
LEMMA CallTyped ==
  ASSUME ControlOK, CallsOK, NEW n \in Node,
         \/ Connect(n) \/ Receive(n) \/ ReceiveFails(n) \/ GossipConnect(n)
         \/ Reset(n) \/ Timeout(n) \/ Lost(n)
  PROVE  ControlOK'
<1>1. TodoOK /\ FlagsOK /\ Books(book) /\ Books(saved)
  BY Zenon DEF ControlOK
<1>2. SUFFICES /\ UNCHANGED <<config, saved, sealing_allowed>> /\ Books(book')
               /\ poisoned' \in [Node -> BOOLEAN]
               /\ TodoOK' /\ all_ok' \in [Node -> BOOLEAN]
  BY <1>1, Zenon DEF ControlOK, FlagsOK, config
<1>3. ASSUME todo[n] # <<>>, NEW outcome, Returns(n, outcome)
      PROVE  TodoOK' /\ all_ok' \in [Node -> BOOLEAN] /\ Books(book')
  BY <1>1, <1>3, ReturnTyped, Zenon
<1>4. ASSUME UNCHANGED <<todo, all_ok, book>>
      PROVE  TodoOK' /\ all_ok' \in [Node -> BOOLEAN] /\ Books(book')
  BY <1>1, <1>4, Zenon DEF TodoOK, FlagsOK
<1>5. ASSUME todo[n] # <<>>, NEW ok, GossipReturns(n, ok), UNCHANGED <<all_ok, book>>
      PROVE  TodoOK' /\ all_ok' \in [Node -> BOOLEAN] /\ Books(book')
  <2>1. TodoOK'
    BY <1>1, <1>5, GossipTyped, Zenon
  <2>2. QED
    BY <1>1, <1>5, <2>1, Zenon DEF FlagsOK
<1>6. /\ poisoned' = poisoned => poisoned' \in [Node -> BOOLEAN]
      /\ poisoned' = [poisoned EXCEPT ![n] = TRUE] => poisoned' \in [Node -> BOOLEAN]
  BY <1>1, Zenon DEF FlagsOK
<1>7. (conn[n] # NoConn => todo[n] # <<>>) /\ NoConn.stage = "none"
  BY Zenon DEF CallsOK, NoConn
<1>8. CASE Connect(n)
  <2>1. \/ \E outcome : Returns(n, outcome)
        \/ UNCHANGED <<todo, all_ok, book>>
    BY <1>8, Zenon DEF Connect
  <2>2. todo[n] # <<>> /\ UNCHANGED <<config, saved, sealing_allowed, poisoned>>
    BY <1>8, Zenon DEF Connect, Calling, Rest
  <2>3. QED
    BY <1>3, <1>4, <1>6, <2>1, <2>2, Zenon
<1>9. CASE Receive(n) \/ ReceiveFails(n)
  <2>1. conn[n].stage = "answered"
    BY <1>9, Zenon DEF Receive, ReceiveFails
  <2>2. todo[n] # <<>>
    BY <1>7, <2>1, Zenon
  <2>3. \/ \E outcome : Returns(n, outcome)
        \/ UNCHANGED <<todo, all_ok, book>>
    BY <1>9, Zenon DEF Receive, ReceiveFails
  <2>4. /\ UNCHANGED <<config, saved, sealing_allowed>>
        /\ poisoned' = poisoned \/ poisoned' = [poisoned EXCEPT ![n] = TRUE]
    BY <1>9, Zenon DEF Receive, ReceiveFails, Rest
  <2>5. QED
    BY <1>3, <1>4, <1>6, <2>2, <2>3, <2>4, Zenon
<1>10. CASE GossipConnect(n)
  <2>1. GossipReturns(n, FALSE) \/ UNCHANGED todo
    BY <1>10, Zenon DEF GossipConnect
  <2>2. todo[n] # <<>> /\ UNCHANGED <<config, saved, sealing_allowed, poisoned, all_ok, book>>
    BY <1>10, Zenon DEF GossipConnect, GossipRest
  <2>3. QED
    BY <1>4, <1>5, <1>6, <2>1, <2>2, Zenon
<1>11. CASE Reset(n) \/ Timeout(n) \/ Lost(n)
  <2>1. CallFails(n) /\ conn[n] # NoConn
    BY <1>7, <1>11, Zenon DEF Reset, Timeout, Lost, Waiting
  <2>2. todo[n] # <<>>
    BY <1>7, <2>1, Zenon
  <2>3. CASE GossipReturns(n, FALSE) /\ UNCHANGED GossipRest
    BY <1>5, <1>6, <2>2, <2>3, Zenon DEF GossipRest
  <2>4. CASE Returns(n, "err") /\ UNCHANGED <<Rest, poisoned>>
    BY <1>3, <1>6, <2>2, <2>4, Zenon DEF Rest
  <2>5. QED
    BY <2>1, <2>3, <2>4, Zenon DEF CallFails
<1>12. QED
  BY <1>8, <1>9, <1>10, <1>11, Zenon

\* Every step keeps these types.
LEMMA ControlStep == ASSUME ControlOK, CallsOK, FlowOK, [Next]_vars PROVE ControlOK'
<1>1. CASE UNCHANGED <<config, todo, all_ok, sealing_allowed, poisoned, book, saved>>
  BY <1>1, Zenon DEF ControlOK, TodoOK, FlagsOK, Books, config
<1>2. ASSUME NEW n \in Node, NodeNext(n) PROVE ControlOK'
  <2>1. 1 \in Int /\ -1 \in Int
    OBVIOUS
  <2>2. CASE Wake(n) \/ WakeInThePast(n)
    BY <2>1, <2>2, TickTyped, Zenon DEF Wake, WakeInThePast
  <2>3. QED
    BY <1>2, <2>2, StartTyped, LoopTyped, CallTyped, Zenon DEF NodeNext
<1>3. ASSUME NEW n \in Node, NEW p \in Node, Setup(n, p) \/ Serve(n, p) PROVE ControlOK'
  BY <1>1, <1>3, Zenon DEF Setup, Serve, loop
<1>4. ASSUME NEW n \in Node, NEW p \in Node, Push(n, p) PROVE ControlOK'
  <2>1. /\ todo[n] # <<>> /\ GossipReturns(n, TRUE)
        /\ UNCHANGED <<config, all_ok, sealing_allowed, poisoned, book, saved>>
    BY <1>4, Zenon DEF Push, Calls, CallsOK, GossipRest
  <2>2. TodoOK'
    BY <2>1, GossipTyped, Zenon DEF ControlOK
  <2>3. QED
    BY <2>1, <2>2, Zenon DEF ControlOK, FlagsOK, Books, config
<1>5. ASSUME NEW x \in pushes, ApplyPush(x) \/ ApplyPushFails(x) PROVE ControlOK'
  <2>1. UNCHANGED <<config, todo, all_ok, sealing_allowed, book, saved>>
    BY <1>5, Zenon DEF ApplyPush, ApplyPushFails, loop
  <2>2. poisoned' = poisoned \/ poisoned' = [poisoned EXCEPT ![x.to] = TRUE]
    BY <1>5, Zenon DEF ApplyPush, ApplyPushFails
  <2>3. poisoned' \in [Node -> BOOLEAN]
    BY <2>2, Zenon DEF ControlOK, FlagsOK
  <2>4. QED
    BY <2>1, <2>3, Zenon DEF ControlOK, TodoOK, FlagsOK, Books, config
<1>6. QED
  BY <1>1, <1>2, <1>3, <1>4, <1>5, Zenon DEF Next, vars, loop

-----------------------------------------------------------------------------
(***************************************************************************)
(* Rounds and faults stay within their bounds.                             *)
(***************************************************************************)
\* A call that has a connection has a round left.
RoundsOK ==
  \A n \in Node :
    /\ rounds[n] \in 0 .. MaxRoundsPerCall
    /\ conn[n] # NoConn => rounds[n] < MaxRoundsPerCall

\* What a step may do to the rounds of a call.
Rounding(n) ==
  \/ rounds'[n] = 0
  \/ rounds'[n] = rounds[n] /\ (conn'[n] # NoConn => conn[n] # NoConn)
  \/ rounds'[n] = rounds[n] /\ rounds[n] < MaxRoundsPerCall
  \/ rounds'[n] = rounds[n] + 1 /\ conn[n] # NoConn /\ conn'[n] = NoConn

LEMMA RoundsKept ==
  ASSUME RoundsOK, \A n \in Node : Rounding(n)
  PROVE  RoundsOK'
<1> SUFFICES ASSUME NEW n \in Node
             PROVE  /\ rounds'[n] \in 0 .. MaxRoundsPerCall
                    /\ conn'[n] # NoConn => rounds'[n] < MaxRoundsPerCall
  BY Zenon DEF RoundsOK
<1>1. MaxRoundsPerCall \in Nat \ {0}
  BY Budgets, Zenon
<1>2. /\ rounds[n] \in 0 .. MaxRoundsPerCall
      /\ conn[n] # NoConn => rounds[n] < MaxRoundsPerCall
  BY Zenon DEF RoundsOK
<1>3. Rounding(n)
  BY Zenon
<1>4. QED
  BY <1>1, <1>2, <1>3 DEF Rounding

\* The rounds of the other calls are left alone.
LEMMA OneCallRounds ==
  ASSUME FlowOK, NEW n \in Node, NEW c, conn' = [conn EXCEPT ![n] = c],
         rounds' = rounds \/ \E k : rounds' = [rounds EXCEPT ![n] = k],
         rounds \in [Node -> Nat], Rounding(n)
  PROVE  \A m \in Node : Rounding(m)
<1>1. \A m \in Node \ {n} : conn'[m] = conn[m] /\ rounds'[m] = rounds[m]
  BY Zenon DEF FlowOK
<1>2. QED
  BY <1>1, Zenon DEF Rounding

\* Every step respects the rounds of a call.
LEMMA RoundsStep ==
  ASSUME FlowOK, CallsOK, GateInv, RoundsOK, [Next]_vars
  PROVE  RoundsOK'
<1> SUFFICES \A m \in Node : Rounding(m)
  BY RoundsKept, Zenon
<1>0. rounds \in [Node -> Nat] /\ conn \in [Node -> Conns]
  BY Zenon DEF GateInv, GateTypes, FlowOK
<1>1. CASE UNCHANGED <<conn, rounds>>
  BY <1>1, Zenon DEF Rounding
<1>2. ASSUME NEW n \in Node, NEW outcome, Returns(n, outcome)
      PROVE  \A m \in Node : Rounding(m)
  <2>1. conn' = [conn EXCEPT ![n] = NoConn] /\ rounds' = [rounds EXCEPT ![n] = 0]
    BY <1>2, Zenon DEF Returns
  <2>2. Rounding(n)
    BY <1>0, <2>1, Zenon DEF Rounding
  <2>3. QED
    BY <1>0, <2>1, <2>2, OneCallRounds, Zenon
<1>3. ASSUME NEW n \in Node, NEW ok, GossipReturns(n, ok), UNCHANGED rounds
      PROVE  \A m \in Node : Rounding(m)
  <2>1. conn' = [conn EXCEPT ![n] = NoConn] /\ conn'[n] = NoConn
    BY <1>0, <1>3, Zenon DEF GossipReturns
  <2>2. Rounding(n)
    BY <1>3, <2>1, Zenon DEF Rounding
  <2>3. QED
    BY <1>0, <1>3, <2>1, <2>2, OneCallRounds, Zenon
<1>4. ASSUME NEW n \in Node, Dies(n) PROVE \A m \in Node : Rounding(m)
  <2>1. /\ rounds'[n] = 0
        /\ \A m \in Node \ {n} : /\ rounds'[m] = rounds[m]
                                 /\ conn'[m] # NoConn => conn[m] # NoConn
    BY <1>0, <1>4, Zenon DEF Dies, Calls
  <2>2. QED
    BY <2>1, Zenon DEF Rounding
<1>5. ASSUME NEW n \in Node, Connect(n) PROVE \A m \in Node : Rounding(m)
  <2>1. CASE \E outcome : Returns(n, outcome)
    BY <1>2, <2>1, Zenon
  <2>2. CASE ~BudgetSpent(n) /\ conn' = [conn EXCEPT ![n] = [stage |-> "hello"]] /\ rounds' = rounds
    <3>1. MaxRoundsPerCall \in Nat /\ rounds[n] \in Nat /\ ~(rounds[n] >= MaxRoundsPerCall)
      BY <1>0, <2>2, Budgets, Zenon DEF BudgetSpent
    <3>2. rounds[n] < MaxRoundsPerCall
      BY <3>1
    <3>3. Rounding(n)
      BY <2>2, <3>2, Zenon DEF Rounding
    <3>4. QED
      BY <1>0, <2>2, <3>3, OneCallRounds, Zenon
  <2>3. QED
    BY <1>5, <2>1, <2>2, Zenon DEF Connect
<1>6. ASSUME NEW n \in Node, GossipConnect(n) PROVE \A m \in Node : Rounding(m)
  <2>1. pc[n] = "gossip" /\ rounds' = rounds
    BY <1>6, Zenon DEF GossipConnect, GossipRest
  <2>2. CASE GossipReturns(n, FALSE)
    BY <1>3, <2>1, <2>2, Zenon
  <2>3. CASE conn' = [conn EXCEPT ![n] = [stage |-> "hello"]]
    <3>1. ~(rounds[n] > 0) /\ rounds[n] \in Nat
      BY <1>0, <2>1, Zenon DEF GateInv, SyncCall
    <3>2. rounds'[n] = 0
      BY <2>1, <3>1
    <3>3. Rounding(n)
      BY <3>2, Zenon DEF Rounding
    <3>4. QED
      BY <1>0, <2>1, <2>3, <3>3, OneCallRounds, Zenon
  <2>4. QED
    BY <1>6, <2>2, <2>3, Zenon DEF GossipConnect
<1>7. ASSUME NEW n \in Node, Receive(n) PROVE \A m \in Node : Rounding(m)
  <2>1. CASE \E outcome : Returns(n, outcome)
    BY <1>2, <2>1, Zenon
  <2>2. CASE conn' = [conn EXCEPT ![n] = NoConn] /\ rounds' = [rounds EXCEPT ![n] = @ + 1]
    <3>1. rounds'[n] = rounds[n] + 1 /\ conn'[n] = NoConn
      BY <1>0, <2>2, Zenon
    <3>2. conn[n].stage = "answered" /\ NoConn.stage = "none"
      BY <1>7, Zenon DEF Receive, NoConn
    <3>3. Rounding(n)
      BY <3>1, <3>2, Zenon DEF Rounding
    <3>4. QED
      BY <1>0, <2>2, <3>3, OneCallRounds, Zenon
  <2>3. QED
    BY <1>7, <2>1, <2>2, Zenon DEF Receive
<1>8. ASSUME NEW n \in Node, NodeNext(n) PROVE \A m \in Node : Rounding(m)
  <2>1. CASE \/ Start(n) \/ EndInitial(n) \/ Wake(n) \/ WakeInThePast(n) \/ EndGate(n)
             \/ EndSync(n) \/ EndGossip(n)
    BY <1>1, <2>1, Zenon DEF Start, EndInitial, Wake, WakeInThePast, Tick, EndGate,
                             EndSync, EndGossip, call
  <2>2. CASE ExitPoisoned(n) \/ SealFails(n) \/ Crash(n)
    BY <1>4, <2>2, Zenon DEF ExitPoisoned, SealFails, Crash
  <2>3. CASE Reset(n) \/ Timeout(n) \/ Lost(n)
    BY <1>2, <1>3, <2>3, Zenon DEF Reset, Timeout, Lost, CallFails, GossipRest
  <2>4. CASE ReceiveFails(n)
    BY <1>2, <2>4, Zenon DEF ReceiveFails
  <2>5. QED
    BY <1>5, <1>6, <1>7, <1>8, <2>1, <2>2, <2>3, <2>4, Zenon DEF NodeNext
<1>9. ASSUME NEW n \in Node, NEW p \in Node, Setup(n, p) \/ Serve(n, p)
      PROVE  \A m \in Node : Rounding(m)
  <2>1. rounds' = rounds /\ conn[n] # NoConn
    BY <1>9, Zenon DEF Setup, Serve, Calls
  <2>2. \E c : conn' = [conn EXCEPT ![n] = c]
    BY <1>9, Zenon DEF Setup, Serve
  <2>3. Rounding(n)
    BY <2>1, Zenon DEF Rounding
  <2>4. QED
    BY <1>0, <2>1, <2>2, <2>3, OneCallRounds, Zenon
<1>10. ASSUME NEW n \in Node, NEW p \in Node, Push(n, p) PROVE \A m \in Node : Rounding(m)
  BY <1>3, <1>10, Zenon DEF Push, GossipRest
<1>11. ASSUME NEW x \in pushes, ApplyPush(x) \/ ApplyPushFails(x)
       PROVE  \A m \in Node : Rounding(m)
  BY <1>1, <1>11, Zenon DEF ApplyPush, ApplyPushFails, call
<1>12. QED
  BY <1>1, <1>8, <1>9, <1>10, <1>11, Zenon DEF Next, vars, call

\* Faults are counted up to their bound.
FaultsOK ==
  /\ bounds.max_height \in Nat /\ bounds.max_faults \in Nat
  /\ faults \in 0 .. bounds.max_faults

LEMMA FaultsStep == ASSUME FaultsOK, bounds' = bounds, [Next]_vars PROVE FaultsOK'
<1>1. faults' = faults \/ Fault
  <2>1. ASSUME NEW n \in Node, NodeNext(n) PROVE faults' = faults \/ Fault
    <3>1. CASE Start(n) \/ EndInitial(n) \/ Wake(n) \/ WakeInThePast(n) \/ EndGate(n)
      BY <3>1, Zenon DEF Start, EndInitial, Wake, WakeInThePast, EndGate
    <3>2. CASE EndSync(n) \/ EndGossip(n) \/ ExitPoisoned(n) \/ SealFails(n) \/ Crash(n)
      BY <3>2, Zenon DEF EndSync, EndGossip, ExitPoisoned, SealFails, Crash
    <3>3. CASE Connect(n) \/ GossipConnect(n) \/ Reset(n) \/ Timeout(n) \/ Lost(n)
      BY <3>3, Zenon DEF Connect, GossipConnect, Reset, Timeout, Lost
    <3>4. CASE Receive(n) \/ ReceiveFails(n)
      BY <3>4, Zenon DEF Receive, ReceiveFails
    <3>5. QED
      BY <2>1, <3>1, <3>2, <3>3, <3>4, Zenon DEF NodeNext
  <2>2. ASSUME NEW n \in Node, NEW p \in Node, Setup(n, p) \/ Serve(n, p) \/ Push(n, p)
        PROVE  faults' = faults
    BY <2>2, Zenon DEF Setup, Serve, Push
  <2>3. ASSUME NEW x \in pushes, ApplyPush(x) \/ ApplyPushFails(x)
        PROVE  faults' = faults \/ Fault
    BY <2>3, Zenon DEF ApplyPush, ApplyPushFails
  <2>4. QED
    BY <2>1, <2>2, <2>3, Zenon DEF Next, vars
<1>2. QED
  BY <1>1 DEF FaultsOK, Fault

-----------------------------------------------------------------------------
(***************************************************************************)
(* The blocks that are kept, sealed and pushed.                            *)
(***************************************************************************)
\* Only a block is pushed.
GossipOK ==
  /\ \A n \in Node : pc[n] = "gossip" => sealed[n] # NoBlock
  /\ \A x \in pushes : x.block # NoBlock

\* A loop begins, and it is the loop of gossip only with a block to push.
LEMMA GossipLoop ==
  ASSUME FlowOK, GossipOK, NEW n \in Node, NEW step, NEW targets, BeginLoop(n, step, targets),
         step = "gossip" => sealed'[n] # NoBlock,
         \A m \in Node \ {n} : sealed'[m] = sealed[m],
         pushes' \subseteq pushes
  PROVE  GossipOK'
<1>1. pc'[n] = step /\ \A m \in Node \ {n} : pc'[m] = pc[m]
  BY Zenon DEF BeginLoop, FlowOK
<1>2. QED
  BY <1>1, Zenon DEF GossipOK

LEMMA GossipStep == ASSUME FlowOK, GossipOK, [Next]_vars PROVE GossipOK'
<1>1. CASE UNCHANGED <<pc, sealed>> /\ pushes' \subseteq pushes
  BY <1>1, Zenon DEF GossipOK
<1>2. ASSUME NEW n \in Node, NodeNext(n) PROVE GossipOK'
  <2>1. CASE Start(n) \/ EndInitial(n)
    <3>1. PICK step \in {"idle", "initial"} : \E targets : BeginLoop(n, step, targets)
      BY <2>1, Zenon DEF Start, EndInitial
    <3>2. UNCHANGED <<sealed, pushes>> /\ step # "gossip"
      BY <2>1, Zenon DEF Start, EndInitial
    <3>3. QED
      BY <3>1, <3>2, GossipLoop, Zenon
  <2>2. ASSUME NEW aged, SealThenSync(n, aged), UNCHANGED pushes PROVE GossipOK'
    <3>1. PICK step \in {"idle", "sync"} : \E targets : BeginLoop(n, step, targets)
      BY <2>2, Zenon DEF SealThenSync
    <3>2. \A m \in Node \ {n} : sealed'[m] = sealed[m]
      BY <2>2, Zenon DEF SealThenSync, FlowOK
    <3>3. step # "gossip"
      BY Zenon
    <3>4. QED
      BY <2>2, <3>1, <3>2, <3>3, GossipLoop, Zenon
  <2>3. CASE Wake(n) \/ WakeInThePast(n)
    <3>1. UNCHANGED pushes
      BY <2>3, Zenon DEF Wake, WakeInThePast, Tick
    <3>2. CASE BeginLoop(n, "gate", Listed(peers[n])) /\ UNCHANGED sealed
      BY <3>1, <3>2, GossipLoop, Zenon
    <3>3. CASE SealThenSync(n, book'[n])
      BY <2>2, <3>1, <3>3, Zenon
    <3>4. QED
      BY <2>3, <3>2, <3>3, Zenon DEF Wake, WakeInThePast, Tick
  <2>4. CASE EndGate(n)
    BY <2>2, <2>4, Zenon DEF EndGate
  <2>5. CASE EndSync(n)
    <3>1. UNCHANGED <<sealed, pushes>>
      BY <2>5, Zenon DEF EndSync
    <3>2. CASE sealed[n] = NoBlock
      <4>1. BeginLoop(n, "idle", <<>>)
        BY <2>5, <3>2, Zenon DEF EndSync
      <4>2. QED
        BY <3>1, <4>1, GossipLoop, Zenon
    <3>3. CASE sealed[n] # NoBlock
      <4>1. PICK targets : BeginLoop(n, "gossip", targets)
        BY <2>5, <3>3, Zenon DEF EndSync
      <4>2. QED
        BY <3>1, <3>3, <4>1, GossipLoop, Zenon
    <3>4. QED
      BY <3>2, <3>3, Zenon
  <2>6. CASE EndGossip(n)
    <3>1. /\ BeginLoop(n, "idle", <<>>) /\ pushes' = pushes
          /\ \A m \in Node \ {n} : sealed'[m] = sealed[m]
      BY <2>6, Zenon DEF EndGossip, FlowOK
    <3>2. QED
      BY <3>1, GossipLoop, Zenon
  <2>7. CASE SealFails(n) \/ ExitPoisoned(n) \/ Crash(n)
    <3>1. Dies(n)
      BY <2>7, Zenon DEF SealFails, ExitPoisoned, Crash
    <3>2. /\ BeginLoop(n, "down", <<>>) /\ pushes' \subseteq pushes
          /\ \A m \in Node \ {n} : sealed'[m] = sealed[m]
      BY <3>1, Zenon DEF Dies, FlowOK
    <3>3. QED
      BY <3>2, GossipLoop, Zenon
  <2>8. CASE Connect(n) \/ Receive(n) \/ ReceiveFails(n) \/ GossipConnect(n)
    BY <1>1, <2>8, Zenon DEF Connect, Receive, ReceiveFails, GossipConnect, Rest, GossipRest
  <2>9. CASE Reset(n) \/ Timeout(n) \/ Lost(n)
    BY <1>1, <2>9, Zenon DEF Reset, Timeout, Lost, CallFails, Rest, GossipRest
  <2>10. QED
    BY <1>2, <2>1, <2>3, <2>4, <2>5, <2>6, <2>7, <2>8, <2>9, Zenon DEF NodeNext
<1>3. ASSUME NEW n \in Node, NEW p \in Node, Setup(n, p) \/ Serve(n, p) PROVE GossipOK'
  BY <1>1, <1>3, Zenon DEF Setup, Serve
<1>4. ASSUME NEW n \in Node, NEW p \in Node, Push(n, p) PROVE GossipOK'
  <2>1. /\ pc[n] = "gossip" /\ UNCHANGED <<pc, sealed>>
        /\ pushes' = pushes \cup {[to |-> p, block |-> sealed[n]]}
    BY <1>4, Zenon DEF Push, GossipRest
  <2>2. \A x \in pushes' : x \in pushes \/ x.block = sealed[n]
    BY <2>1
  <2>3. QED
    BY <2>1, <2>2, Zenon DEF GossipOK
<1>5. ASSUME NEW x \in pushes, ApplyPush(x) \/ ApplyPushFails(x) PROVE GossipOK'
  BY <1>1, <1>5, Zenon DEF ApplyPush, ApplyPushFails
<1>6. QED
  BY <1>1, <1>2, <1>3, <1>4, <1>5, Zenon DEF Next, vars

\* No block is higher than the bound on sealing.
SizesOK == \A n \in Node, b \in Blocks : Holds(n, b) => Len(b) <= bounds.max_height

LEMMA SizesStep ==
  ASSUME FlowOK, FlowOK', UNCHANGED config, Moves, HeightsOK, FaultsOK, SizesOK
  PROVE  SizesOK'
<1> SUFFICES ASSUME NEW n \in Node, NEW b \in Blocks, Holds(n, b)'
             PROVE  Len(b) <= bounds.max_height
  BY Zenon DEF SizesOK, config
<1>1. bounds.max_height \in Nat
  BY Zenon DEF FaultsOK
<1>2. CASE b = NoBlock
  BY <1>1, <1>2 DEF NoBlock
<1>3. CASE \E p \in Node : Holds(p, b)
  BY <1>3, Zenon DEF SizesOK
<1>4. CASE Seals(n) /\ b = Append(Tip(n), n)
  <2>1. Len(chain[n]) < bounds.max_height
    BY <1>4, Zenon DEF Seals, Height
  <2>2. chain[n] \in Seq(Blocks)
    BY Zenon DEF FlowOK
  <2>3. Len(Tip(n)) = Len(chain[n])
    BY <2>2, TipType DEF HeightsOK
  <2>4. Len(b) = Len(chain[n]) + 1
    BY <1>4, <2>3, NewBlock, Zenon
  <2>5. QED
    BY <1>1, <2>1, <2>2, <2>4
<1>5. QED
  BY <1>2, <1>3, <1>4, Provenance, Zenon

\* A block that is held, is not empty and is no higher than the bound is a Block.
LEMMA HeldBlock ==
  ASSUME FaultsOK, SizesOK, NEW n \in Node, NEW b \in Blocks, Holds(n, b), b # NoBlock
  PROVE  b \in Block
<1> DEFINE k == Len(b)
<1>1. k \in Nat /\ k # 0 /\ b \in [1 .. k -> Node]
  BY DEF Blocks, NoBlock
<1>2. k <= bounds.max_height /\ bounds.max_height \in Nat
  BY Zenon DEF SizesOK, FaultsOK
<1> HIDE DEF k
<1>3. k \in 1 .. bounds.max_height
  BY <1>1, <1>2
<1>4. QED
  BY <1>1, <1>3, Zenon DEF Block

-----------------------------------------------------------------------------
\* The inductive invariant of the types, besides SyncInv and GateInv.
TypeInv == ControlOK /\ RoundsOK /\ FaultsOK /\ GossipOK /\ SizesOK

LEMMA TypeInit == Init => TypeInv
<1> SUFFICES ASSUME Init PROVE TypeInv
  BY Zenon
<1>1. PICK net \in Networks :
        /\ peers = net.peers /\ genesis = net.genesis
        /\ bounds = [max_height |-> net.max_height, max_faults |-> net.max_faults]
  BY Zenon DEF Init
<1>2. /\ net.peers \in [Node -> SUBSET Node] /\ net.genesis \in [Node -> Genesis]
      /\ net.max_height \in Nat /\ net.max_faults \in Nat
  BY NetworksAssumption, Zenon DEF Network
<1>3. bounds.max_height \in Nat /\ bounds.max_faults \in Nat
  BY <1>1, <1>2, Zenon
<1>4. FaultsOK
  <2>1. faults = 0
    BY Zenon DEF Init
  <2>2. QED
    BY <1>3, <2>1 DEF FaultsOK
<1>5. RoundsOK
  <2>1. \A n \in Node : rounds[n] = 0
    BY Zenon DEF Init
  <2>2. MaxRoundsPerCall \in Nat \ {0}
    BY Budgets, Zenon
  <2>3. QED
    BY <2>1, <2>2 DEF RoundsOK
<1>6. GossipOK
  BY Zenon DEF Init, GossipOK
<1>7. ControlOK
  <2>1. TodoOK
    <3>1. <<>> \in Seq(Node) /\ todo = [n \in Node |-> <<>>]
      BY DEF Init
    <3>2. QED
      BY <3>1, Zenon DEF TodoOK
  <2>2. FlagsOK
    BY Zenon DEF Init, FlagsOK
  <2>3. IsBook(<<>>)
    BY DEF IsBook
  <2>4. Books(book) /\ Books(saved)
    BY <2>3, Zenon DEF Init, Books
  <2>5. QED
    BY <1>1, <1>2, <2>1, <2>2, <2>4, Zenon DEF ControlOK
<1>8. SizesOK
  <2>1. \A n \in Node, b \in Blocks : Holds(n, b) => b = <<>>
    <3>1. /\ pushes = {}
          /\ \A n \in Node : chain[n] = <<>> /\ sealed[n] = <<>> /\ conn[n] = NoConn
      BY Zenon DEF Init, NoBlock
    <3>2. QED
      BY <3>1 DEF Holds, NoConn
  <2>2. QED
    BY <1>3, <2>1 DEF SizesOK
<1>9. QED
  BY <1>4, <1>5, <1>6, <1>7, <1>8, Zenon DEF TypeInv

\* Types, bounds and what is pushed, in every reachable state.
THEOREM TypeInvariant == Spec => []TypeInv
<1>1. Init => TypeInv
  BY TypeInit, Zenon
<1>2. TypeInv /\ SyncInv /\ SyncInv' /\ GateInv /\ [Next]_vars => TypeInv'
  <2> SUFFICES ASSUME TypeInv, SyncInv, SyncInv', GateInv, [Next]_vars PROVE TypeInv'
    BY Zenon
  <2>1. /\ FlowOK /\ FlowOK' /\ CallsOK /\ BudgetOK /\ HeightsOK
        /\ ControlOK /\ RoundsOK /\ FaultsOK /\ GossipOK /\ SizesOK
    BY Zenon DEF TypeInv, SyncInv
  <2>2. Moves
    BY <2>1, FlowStep, Zenon
  <2>3. UNCHANGED config
    BY <2>2, Zenon DEF Moves, Quiet, Seals, Takes, Answers, Sends
  <2>4. ControlOK' /\ RoundsOK' /\ GossipOK'
    BY <2>1, ControlStep, RoundsStep, GossipStep, Zenon
  <2>5. FaultsOK'
    BY <2>1, <2>3, FaultsStep, Zenon DEF config
  <2>6. SizesOK'
    BY <2>1, <2>2, <2>3, SizesStep, Zenon
  <2>7. QED
    BY <2>4, <2>5, <2>6, Zenon DEF TypeInv
<1>3. QED
  BY <1>1, <1>2, SyncInvariant, GateInvariant, PTL DEF Spec

\* Type correctness of the nodes of `node run`: in particular no call takes more
\* rounds or blocks than its budget, a call always has a peer, fail_streak stays
\* within its limit, and only real blocks are kept, sealed and pushed.
THEOREM SyncTypeCorrect == Spec => []TypeOK
<1>1. TypeInv /\ SyncInv => TypeOK
  <2> SUFFICES ASSUME TypeInv, SyncInv PROVE TypeOK
    BY Zenon
  <2>1. /\ FlowOK /\ CallsOK /\ BudgetOK /\ HeightsOK /\ ControlOK /\ RoundsOK /\ FaultsOK
        /\ GossipOK /\ SizesOK /\ TodoOK /\ FlagsOK
    BY Zenon DEF TypeInv, SyncInv, ControlOK
  <2>2. /\ peers \in [Node -> SUBSET Node] /\ genesis \in [Node -> Genesis]
        /\ sealers \subseteq Node
        /\ pc \in [Node -> {"down", "initial", "idle", "gate", "sync", "gossip"}]
        /\ all_ok \in [Node -> BOOLEAN] /\ sealing_allowed \in [Node -> BOOLEAN]
        /\ poisoned \in [Node -> BOOLEAN] /\ faults \in 0 .. bounds.max_faults
    BY <2>1, Zenon DEF FlowOK, ControlOK, FlagsOK, FaultsOK
  <2>3. ASSUME NEW n \in Node PROVE Range(todo[n]) \subseteq Node
    <3>1. todo[n] \in Seq(Node)
      BY <2>1, Zenon DEF TodoOK
    <3>2. \A i \in DOMAIN todo[n] : todo[n][i] \in Node
      BY <3>1
    <3>3. QED
      BY <3>2, Zenon DEF Range
  <2>4. ASSUME NEW n \in Node
        PROVE  /\ conn[n] # NoConn =>
                    todo[n] # <<>> /\ pc[n] \in {"initial", "gate", "sync", "gossip"}
               /\ total[n] \in 0 .. MaxBlocksPerCall /\ rounds[n] \in 0 .. MaxRoundsPerCall
    BY <2>1, Zenon DEF CallsOK, BudgetOK, RoundsOK
  <2>5. ASSUME NEW n \in Node PROVE Range(chain[n]) \subseteq Block
    <3>1. chain[n] \in Seq(Blocks)
      BY <2>1, Zenon DEF FlowOK
    <3>2. ASSUME NEW i \in DOMAIN chain[n] PROVE chain[n][i] \in Block
      <4>1. i \in 1 .. Len(chain[n]) /\ chain[n][i] \in Blocks
        BY <3>1
      <4>2. Len(chain[n][i]) = i /\ Holds(n, chain[n][i])
        BY <2>1, <4>1, Zenon DEF HeightsOK, Holds
      <4>3. chain[n][i] # NoBlock
        BY <3>1, <4>1, <4>2 DEF NoBlock
      <4>4. QED
        BY <2>1, <4>1, <4>2, <4>3, HeldBlock, Zenon
    <3>3. QED
      BY <3>2, Zenon DEF Range
  <2>6. ASSUME NEW n \in Node PROVE sealed[n] \in Block \cup {NoBlock}
    <3>1. sealed[n] \in Blocks /\ Holds(n, sealed[n])
      BY <2>1, Zenon DEF FlowOK, Holds
    <3>2. QED
      BY <2>1, <3>1, HeldBlock, Zenon
  <2>7. ASSUME NEW n \in Node PROVE \A p \in DOMAIN book[n] : book[n][p] \in PeerEntry
    BY <2>1, Zenon DEF ControlOK, Books, IsBook
  <2>8. ASSUME NEW x \in pushes PROVE x.to \in Node /\ x.block \in Block
    <3>1. x.to \in Node /\ x.block \in Blocks /\ x = [to |-> x.to, block |-> x.block]
      BY <2>1, Zenon DEF FlowOK
    <3>2. Holds(x.to, x.block) /\ x.block # NoBlock
      BY <2>1, <3>1, Zenon DEF Holds, GossipOK
    <3>3. QED
      BY <2>1, <3>1, <3>2, HeldBlock, Zenon
  <2>9. QED
    BY <2>2, <2>3, <2>4, <2>5, <2>6, <2>7, <2>8, Zenon DEF TypeOK
<1>2. QED
  BY <1>1, TypeInvariant, SyncInvariant, PTL

=============================================================================
