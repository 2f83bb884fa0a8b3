---------------------------- MODULE ReorgProofs ----------------------------
(***************************************************************************)
(* Theorems about Reorg: for every index of entries, right or wrong, every *)
(* tree of blocks and every material of the caller.                        *)
(***************************************************************************)
EXTENDS ReorgPlanProofs

\* Leaves that name no prover are for Zenon.
USE Zenon

-----------------------------------------------------------------------------
(***************************************************************************)
(* The live chain.                                                         *)
(***************************************************************************)
\* What append_block makes of b on the chain parent.
Appended(tree, b, parent) ==
  [ok |-> /\ parent.ok
          /\ b.height = tree[b.prev].height + 1
          /\ BlockIsValid(tree, b)
          /\ b.ts >= tree[b.prev].ts
          /\ ApplyAll(parent.ledger, b.txs).ok,
   ledger |-> ApplyAll(parent.ledger, b.txs).ledger]

\* The chain to x, given the chains to all blocks one step shorter.
Chained(tree, n, prior, x) ==
  IF x = GenesisHash THEN [ok |-> TRUE, ledger |-> Genesis]
  ELSE IF n = 0 \/ tree[x].prev \notin Hash THEN [ok |-> FALSE, ledger |-> Genesis]
  ELSE Appended(tree, tree[x], prior[tree[x].prev])

LEMMA TreeBlocks ==
  ASSUME NEW tree \in Trees, NEW h \in Hash
  PROVE  /\ tree[h].hash = h /\ tree[h].txs \in Seq(Tx)
         /\ tree[h].height \in Heights /\ tree[h].height \in Nat /\ tree[h].ts \in Nat
<1>1. tree[h] \in Block /\ tree[h].hash = h
  BY TreesAssumption
<1>2. tree[h].height \in Heights /\ tree[h].ts \in 0 .. MaxTs /\ tree[h].txs \in Seq(Tx)
  BY <1>1 DEF Block
<1>3. tree[h].height \in Nat /\ tree[h].ts \in Nat
  BY <1>2, HeightAssumption, ReorgBoundsAssumption, SMT DEF Heights
<1>4. QED
  BY <1>1, <1>2, <1>3

LEMMA ChainedType ==
  ASSUME NEW tree \in Trees, NEW n, NEW prior \in [Hash -> Results], NEW x \in Hash
  PROVE  Chained(tree, n, prior, x) \in Results
<1>1. [ok |-> TRUE, ledger |-> Genesis] \in Results
  BY GenesisAssumption DEF Results
<1>2. [ok |-> FALSE, ledger |-> Genesis] \in Results
  BY GenesisAssumption DEF Results
<1>3. ASSUME tree[x].prev \in Hash
      PROVE  Appended(tree, tree[x], prior[tree[x].prev]) \in Results
  <2>1. PICK b, parent : b = tree[x] /\ parent = prior[tree[x].prev]
    OBVIOUS
  <2>2. parent.ledger \in Ledgers
    BY <1>3, <2>1 DEF Results
  <2>3. b.txs \in Seq(Tx)
    BY <2>1, TreeBlocks
  <2>4. ApplyAll(parent.ledger, b.txs).ledger \in Ledgers
    BY <2>2, <2>3, ApplyAllType DEF Results
  <2>5. Appended(tree, b, parent) \in Results
    BY <2>4 DEF Appended, Results
  <2>6. QED
    BY <2>1, <2>5
<1>4. QED
  BY <1>1, <1>2, <1>3 DEF Chained

\* LiveChain unrolled: live[n] is right for the blocks of height up to n.
IsLive(tree, live) ==
  /\ \A n \in Heights : live[n] \in [Hash -> Results]
  /\ \A x \in Hash : live[0][x] = Chained(tree, 0, live[0], x)
  /\ \A n \in 1 .. MaxHeight, x \in Hash : live[n][x] = Chained(tree, n, live[n - 1], x)
  /\ \A h \in Hash : LiveChain(tree, h) = live[tree[h].height][h]

LEMMA ChainedAtZero ==
  ASSUME NEW tree, NEW f, NEW g, NEW x
  PROVE  Chained(tree, 0, f, x) = Chained(tree, 0, g, x)
BY DEF Chained

LEMMA LiveExists ==
  ASSUME NEW tree \in Trees
  PROVE  \E live : IsLive(tree, live)
<1> DEFINE N == MaxHeight
           V == [Hash -> Results]
           b == [x \in Hash |-> Chained(tree, 0, <<>>, x)]
           F == [p \in V \X (1 .. N) |-> [x \in Hash |-> Chained(tree, p[2], p[1], x)]]
           P(f) == f = [n \in Heights |-> [x \in Hash |-> Chained(tree, n, f[n - 1], x)]]
           live == CHOOSE f : P(f)
<1>1. \A h \in Hash : LiveChain(tree, h) = live[tree[h].height][h]
  BY DEF LiveChain, Chained, Appended
<1>2. N \in Nat
  BY HeightAssumption
<1>3. Heights = 0 .. N
  BY DEF Heights
<1>4. ASSUME NEW n, NEW prior \in V
      PROVE  [x \in Hash |-> Chained(tree, n, prior, x)] \in V
  BY ChainedType
<1>5. b \in V
  <2>1. PICK r : r \in Results
    <3>1. [ok |-> TRUE, ledger |-> Genesis] \in Results
      BY GenesisAssumption DEF Results
    <3>2. QED
      BY <3>1
  <2>2. PICK c : c = [x \in Hash |-> r]
    OBVIOUS
  <2>3. c \in V
    BY <2>1, <2>2
  <2>4. \A x \in Hash : Chained(tree, 0, <<>>, x) = Chained(tree, 0, c, x)
    BY ChainedAtZero
  <2>5. \A x \in Hash : Chained(tree, 0, c, x) \in Results
    BY <2>3, ChainedType
  <2>6. \A x \in Hash : Chained(tree, 0, <<>>, x) \in Results
    BY <2>4, <2>5
  <2>7. QED
    BY <2>6
<1>6. F \in [V \X (1 .. N) -> V]
  <2> HIDE DEF V, N
  <2>1. \A p \in V \X (1 .. N) : [x \in Hash |-> Chained(tree, p[2], p[1], x)] \in V
    BY <1>4
  <2>2. QED
    BY <2>1
<1> HIDE DEF b, V
<1>7. PICK f : Solves(f, N, V, b, F)
  <2> HIDE DEF N, F
  <2>1. QED
    BY <1>2, <1>5, <1>6, RecursionExists
<1>8. f \in [0 .. N -> V] /\ f[0] = b
  BY <1>7 DEF Solves
<1>9. P(f)
  <2>1. ASSUME NEW n \in 1 .. N
        PROVE  f[n] = [x \in Hash |-> Chained(tree, n, f[n - 1], x)]
    <3>1. n - 1 \in 0 .. N
      <4> HIDE DEF N
      <4>1. QED
        BY <1>2, SMT
    <3>2. f[n - 1] \in V
      BY <1>8, <3>1
    <3>3. f[n] = F[<<f[n - 1], n>>]
      BY <1>7 DEF Solves
    <3> HIDE DEF N
    <3>4. QED
      BY <3>2, <3>3
  <2> HIDE DEF N, F
  <2>2. f[0] = [x \in Hash |-> Chained(tree, 0, f[0 - 1], x)]
    <3>1. ASSUME NEW x \in Hash
          PROVE  Chained(tree, 0, <<>>, x) = Chained(tree, 0, f[0 - 1], x)
      BY ChainedAtZero
    <3>2. QED
      BY <1>8, <3>1 DEF b
  <2>3. \A n \in 0 .. N : n = 0 \/ n \in 1 .. N
    BY <1>2, SMT
  <2>4. \A n \in 0 .. N : f[n] = [x \in Hash |-> Chained(tree, n, f[n - 1], x)]
    BY <2>1, <2>2, <2>3
  <2>5. QED
    BY <1>3, <1>8, <2>4
<1>10. P(live)
  <2> HIDE DEF P
  <2>1. QED
    BY <1>9
<1> HIDE DEF live, F, N
<1>11. \A n \in 0 .. N : live[n] = [x \in Hash |-> Chained(tree, n, live[n - 1], x)]
  BY <1>3, <1>10
<1> HIDE DEF P
<1> DEFINE T == {n \in 0 .. N : live[n] \in V}
<1>12. (0 \in 0 .. N) /\ \A n \in 1 .. N : n \in 0 .. N
  BY <1>2, SMT
<1>13. 0 \in T
  <2>1. ASSUME NEW x \in Hash
        PROVE  Chained(tree, 0, <<>>, x) = Chained(tree, 0, live[0 - 1], x)
    BY ChainedAtZero
  <2>2. live[0] = b
    BY <1>11, <1>12, <2>1 DEF b
  <2>3. QED
    BY <1>5, <1>12, <2>2
<1>14. ASSUME NEW n \in 1 .. N, n - 1 \in T
       PROVE  n \in T
  <2>1. live[n - 1] \in V /\ n \in 0 .. N
    BY <1>12, <1>14
  <2>2. [x \in Hash |-> Chained(tree, n, live[n - 1], x)] \in V
    BY <1>4, <2>1
  <2>3. QED
    BY <1>11, <2>1, <2>2
<1>15. \A n \in 0 .. N : n \in T
  <2> HIDE DEF T
  <2>1. QED
    BY <1>2, <1>13, <1>14, InductionUpTo
<1>16. ASSUME NEW x \in Hash
       PROVE  live[0][x] = Chained(tree, 0, live[0], x)
  <2>1. live[0][x] = Chained(tree, 0, live[0 - 1], x)
    BY <1>11, <1>12
  <2>2. QED
    BY <2>1, ChainedAtZero
<1>17. \A n \in 1 .. N, x \in Hash : live[n][x] = Chained(tree, n, live[n - 1], x)
  BY <1>11, <1>12
<1>18. QED
  BY <1>1, <1>3, <1>15, <1>16, <1>17 DEF IsLive, V, N

\* A block goes on top of the chain to its parent, when it is one higher.
LEMMA LiveStep ==
  ASSUME NEW tree \in Trees, NEW h \in Hash, h # GenesisHash, NEW q \in Hash,
         tree[h].prev = q, tree[h].height = tree[q].height + 1
  PROVE  LiveChain(tree, h) = Appended(tree, tree[h], LiveChain(tree, q))
<1>1. PICK live : IsLive(tree, live)
  BY LiveExists
<1>2. PICK n \in Nat : n = tree[h].height /\ n \in Heights
  BY TreeBlocks
<1>3. PICK k \in Nat : k = tree[q].height
  BY TreeBlocks
<1>4. n = k + 1
  BY <1>2, <1>3
<1>5. n \in 1 .. MaxHeight /\ n - 1 = k /\ n # 0
  BY <1>2, <1>4, HeightAssumption, SMT DEF Heights
<1>6. live[n][h] = Chained(tree, n, live[n - 1], h)
  BY <1>1, <1>5 DEF IsLive
<1>7. Chained(tree, n, live[k], h) = Appended(tree, tree[h], live[k][q])
  BY <1>5 DEF Chained
<1>8. LiveChain(tree, h) = live[n][h] /\ LiveChain(tree, q) = live[k][q]
  BY <1>1, <1>2, <1>3 DEF IsLive
<1>9. QED
  BY <1>5, <1>6, <1>7, <1>8

LEMMA LiveType ==
  ASSUME NEW tree \in Trees, NEW h \in Hash
  PROVE  LiveChain(tree, h) \in Results
<1>1. PICK live : IsLive(tree, live)
  BY LiveExists
<1>2. tree[h].height \in Heights
  BY TreeBlocks
<1>3. live[tree[h].height] \in [Hash -> Results]
  BY <1>1, <1>2 DEF IsLive
<1>4. QED
  BY <1>1, <1>3 DEF IsLive

\* Every block of a live chain but the first is on top of a live chain.
LEMMA LiveDown ==
  ASSUME NEW tree \in Trees, NEW h \in Hash, h # GenesisHash, LiveChain(tree, h).ok
  PROVE  /\ tree[h].prev \in Hash
         /\ tree[h].height = tree[tree[h].prev].height + 1
         /\ LiveChain(tree, tree[h].prev).ok
         /\ ApplyAll(LiveChain(tree, tree[h].prev).ledger, tree[h].txs).ok
         /\ LiveChain(tree, h).ledger
              = ApplyAll(LiveChain(tree, tree[h].prev).ledger, tree[h].txs).ledger
<1>1. PICK live : IsLive(tree, live)
  BY LiveExists
<1>2. PICK n \in Nat : n = tree[h].height /\ n \in Heights
  BY TreeBlocks
<1>3. live[n][h].ok
  BY <1>1, <1>2 DEF IsLive
<1>4. [ok |-> FALSE, ledger |-> Genesis].ok = FALSE
  OBVIOUS
<1>5. n # 0 /\ tree[h].prev \in Hash
  <2>1. ASSUME NEW prior, NEW k, k = 0 \/ tree[h].prev \notin Hash
        PROVE  ~Chained(tree, k, prior, h).ok
    BY <1>4, <2>1 DEF Chained
  <2>2. n = 0 \/ n \in 1 .. MaxHeight
    BY <1>2, SMT DEF Heights
  <2>3. n = 0 => live[n][h] = Chained(tree, 0, live[0], h)
    BY <1>1 DEF IsLive
  <2>4. n \in 1 .. MaxHeight => live[n][h] = Chained(tree, n, live[n - 1], h)
    BY <1>1 DEF IsLive
  <2>5. QED
    BY <1>3, <2>1, <2>2, <2>3, <2>4
<1>6. PICK q \in Hash : q = tree[h].prev
  BY <1>5
<1>7. n \in 1 .. MaxHeight
  BY <1>2, <1>5, SMT DEF Heights
<1>8. live[n][h] = Appended(tree, tree[h], live[n - 1][q])
  <2>1. live[n][h] = Chained(tree, n, live[n - 1], h)
    BY <1>1, <1>7 DEF IsLive
  <2>2. QED
    BY <1>5, <1>6, <2>1 DEF Chained
<1>9. Appended(tree, tree[h], live[n - 1][q]).ok
  BY <1>3, <1>8
<1>10. tree[h].height = tree[q].height + 1
  BY <1>6, <1>9 DEF Appended
<1>11. LiveChain(tree, h) = Appended(tree, tree[h], LiveChain(tree, q))
  BY <1>6, <1>10, LiveStep
<1>12. PICK c : c = LiveChain(tree, q)
  OBVIOUS
<1>13. Appended(tree, tree[h], c).ok
  BY <1>11, <1>12
<1>14. c.ok /\ ApplyAll(c.ledger, tree[h].txs).ok
  BY <1>13 DEF Appended
<1>15. Appended(tree, tree[h], c).ledger = ApplyAll(c.ledger, tree[h].txs).ledger
  BY DEF Appended
<1>16. QED
  BY <1>6, <1>10, <1>11, <1>12, <1>14, <1>15

-----------------------------------------------------------------------------
(***************************************************************************)
(* Replay of a segment.                                                    *)
(***************************************************************************)
Outcomes == ReplaySandboxReplayError \cup {""}

Accs == [err : Outcomes, ledger : Ledgers]

LEMMA OutcomeNames ==
  /\ "IndexLinkMismatch" \in Outcomes /\ "IndexLinkMismatch" # ""
  /\ "BasicValidation" \in Outcomes /\ "BasicValidation" # ""
  /\ "StateTransition" \in Outcomes /\ "StateTransition" # ""
  /\ "MissingParentBlock" \in Outcomes /\ "MissingParentBlock" # ""
  /\ "TimestampPolicy" \in Outcomes /\ "TimestampPolicy" # ""
  /\ "" \in Outcomes
BY DEF Outcomes, ReplaySandboxReplayError

LEMMA OtherOutcomeNames ==
  /\ "MissingExpectedOldTipState" \in Outcomes /\ "MissingExpectedOldTipState" # ""
  /\ "MissingBlockBody" \in Outcomes /\ "MissingBlockBody" # ""
  /\ "OldTipStateMismatch" \in Outcomes /\ "OldTipStateMismatch" # ""
  /\ "SupplyAudit" \in Outcomes /\ "SupplyAudit" # ""
BY DEF Outcomes, ReplaySandboxReplayError

LEMMA TimestampOutcome ==
  ASSUME NEW m, NEW b
  PROVE  TimestampError(m, b) \in Outcomes
BY OutcomeNames DEF TimestampError

\* What it takes for a block to be applied, and what it does.
Took(tree, m, I, acc, h, end) ==
  /\ acc.err = ""
  /\ validate_block_against_index(I, m.blocks[h], h)
  /\ TimestampError(m, m.blocks[h]) = ""
  /\ BlockIsValid(tree, m.blocks[h])
  /\ ApplyAll(acc.ledger, m.blocks[h].txs).ok
  /\ end.ledger = ApplyAll(acc.ledger, m.blocks[h].txs).ledger

LEMMA BlockReplayed ==
  ASSUME NEW tree, NEW m, NEW I, NEW acc \in Accs, NEW h, m.blocks[h].txs \in Seq(Tx),
         NEW end, end = apply_block_to_state(tree, m, I, acc, h)
  PROVE  end \in Accs /\ (end.err = "" => Took(tree, m, I, acc, h, end))
<1>1. acc.err \in Outcomes /\ acc.ledger \in Ledgers
  BY DEF Accs
<1>2. PICK r : r = ApplyAll(acc.ledger, m.blocks[h].txs)
  OBVIOUS
<1>3. r \in Results
  BY <1>1, <1>2, ApplyAllType
<1>4. ASSUME NEW e \in Outcomes, e # "", NEW s, s = [acc EXCEPT !.err = e]
      PROVE  s \in Accs /\ s.err # ""
  <2>1. s \in Accs
    BY <1>4 DEF Accs
  <2>2. s.err = e
    BY <1>4 DEF Accs
  <2>3. QED
    BY <1>4, <2>1, <2>2
<1>5. end = IF acc.err # "" THEN acc
            ELSE IF ~validate_block_against_index(I, m.blocks[h], h)
            THEN [acc EXCEPT !.err = "IndexLinkMismatch"]
            ELSE IF TimestampError(m, m.blocks[h]) # ""
            THEN [acc EXCEPT !.err = TimestampError(m, m.blocks[h])]
            ELSE IF ~BlockIsValid(tree, m.blocks[h]) THEN [acc EXCEPT !.err = "BasicValidation"]
            ELSE IF ~r.ok THEN [acc EXCEPT !.err = "StateTransition"]
            ELSE [err |-> "", ledger |-> r.ledger]
  BY <1>2 DEF apply_block_to_state
<1>6. CASE acc.err # ""
  BY <1>5, <1>6
<1>7. CASE /\ acc.err = ""
           /\ ~validate_block_against_index(I, m.blocks[h], h)
  <2>1. end = [acc EXCEPT !.err = "IndexLinkMismatch"]
    BY <1>5, <1>7
  <2>2. QED
    BY <1>4, <2>1, OutcomeNames
<1>8. CASE /\ acc.err = ""
           /\ validate_block_against_index(I, m.blocks[h], h)
           /\ TimestampError(m, m.blocks[h]) # ""
  <2>1. end = [acc EXCEPT !.err = TimestampError(m, m.blocks[h])]
    BY <1>5, <1>8
  <2>2. QED
    BY <1>4, <1>8, <2>1, TimestampOutcome
<1>9. CASE /\ acc.err = ""
           /\ validate_block_against_index(I, m.blocks[h], h)
           /\ TimestampError(m, m.blocks[h]) = ""
           /\ ~BlockIsValid(tree, m.blocks[h])
  <2>1. end = [acc EXCEPT !.err = "BasicValidation"]
    BY <1>5, <1>9
  <2>2. QED
    BY <1>4, <2>1, OutcomeNames
<1>10. CASE /\ acc.err = ""
            /\ validate_block_against_index(I, m.blocks[h], h)
            /\ TimestampError(m, m.blocks[h]) = ""
            /\ BlockIsValid(tree, m.blocks[h]) /\ ~r.ok
  <2>1. end = [acc EXCEPT !.err = "StateTransition"]
    BY <1>5, <1>10
  <2>2. QED
    BY <1>4, <2>1, OutcomeNames
<1>11. CASE /\ acc.err = ""
            /\ validate_block_against_index(I, m.blocks[h], h)
            /\ TimestampError(m, m.blocks[h]) = ""
            /\ BlockIsValid(tree, m.blocks[h]) /\ r.ok
  <2>1. end = [err |-> "", ledger |-> r.ledger]
    BY <1>5, <1>11
  <2>2. [err |-> "", ledger |-> r.ledger] \in Accs
    BY <1>3, OutcomeNames DEF Accs, Results
  <2>3. [err |-> "", ledger |-> r.ledger].ledger = r.ledger
    OBVIOUS
  <2>4. QED
    BY <1>2, <1>11, <2>1, <2>2, <2>3 DEF Took
<1>12. QED
  BY <1>6, <1>7, <1>8, <1>9, <1>10, <1>11

\* ReplayBlocks as a run of its steps.
Replays(tree, m, I, hashes, run) ==
  /\ \A n \in 0 .. Len(hashes) : run[n] \in Accs
  /\ run[0].ledger = m.state_at_fork
  /\ \A n \in 1 .. Len(hashes) :
       run[n] = apply_block_to_state(tree, m, I, run[n - 1], hashes[n])
  /\ ReplayBlocks(tree, m, I, hashes) = run[Len(hashes)]

LEMMA ReplayRun ==
  ASSUME NEW tree, NEW m, NEW I, NEW S, NEW hashes \in Seq(S), m.state_at_fork \in Ledgers,
         \A h \in S : m.blocks[h].txs \in Seq(Tx)
  PROVE  \E run : Replays(tree, m, I, hashes, run)
<1> DEFINE Step(acc, n) == apply_block_to_state(tree, m, I, acc, hashes[n])
           b == [err |-> "", ledger |-> m.state_at_fork]
           P(f) == f = [n \in 0 .. Len(hashes) |-> IF n = 0 THEN b ELSE Step(f[n - 1], n)]
           run == CHOOSE f : P(f)
<1>1. ReplayBlocks(tree, m, I, hashes) = run[Len(hashes)]
  BY DEF ReplayBlocks
<1>2. b \in Accs /\ b.ledger = m.state_at_fork
  BY OutcomeNames DEF Accs
<1>3. PICK N \in Nat : N = Len(hashes)
  BY SMT
<1>4. \A n \in 1 .. N : hashes[n] \in S
  BY <1>3, SMT
<1>5. ASSUME NEW acc \in Accs, NEW n \in 1 .. N
      PROVE  Step(acc, n) \in Accs
  <2>1. m.blocks[hashes[n]].txs \in Seq(Tx)
    BY <1>4
  <2>2. QED
    BY <2>1, BlockReplayed
<1> HIDE DEF b, Step
<1> DEFINE F == [p \in Accs \X (1 .. N) |-> Step(p[1], p[2])]
<1>6. F \in [Accs \X (1 .. N) -> Accs]
  <2>1. \A p \in Accs \X (1 .. N) : Step(p[1], p[2]) \in Accs
    BY <1>5
  <2>2. QED
    BY <2>1
<1>7. PICK f : Solves(f, N, Accs, b, F)
  <2> HIDE DEF F
  <2>1. QED
    BY <1>2, <1>6, RecursionExists
<1>8. f \in [0 .. N -> Accs] /\ f[0] = b
  BY <1>7 DEF Solves
<1>9. \A n \in 0 .. N : n = 0 \/ (n \in 1 .. N /\ n - 1 \in 0 .. N /\ n # 0)
  BY SMT
<1>10. P(f)
  <2>1. ASSUME NEW n \in 1 .. N, n - 1 \in 0 .. N
        PROVE  f[n] = Step(f[n - 1], n)
    <3>1. f[n - 1] \in Accs
      BY <1>8, <2>1
    <3>2. f[n] = F[<<f[n - 1], n>>]
      BY <1>7 DEF Solves
    <3>3. QED
      BY <3>1, <3>2
  <2>2. \A n \in 0 .. N : f[n] = IF n = 0 THEN b ELSE Step(f[n - 1], n)
    BY <1>8, <1>9, <2>1
  <2>3. QED
    BY <1>3, <1>8, <2>2
<1>11. P(run)
  <2> HIDE DEF P
  <2>1. QED
    BY <1>10
<1> HIDE DEF run, F
<1>12. \A n \in 0 .. N : run[n] = IF n = 0 THEN b ELSE Step(run[n - 1], n)
  BY <1>3, <1>11
<1> HIDE DEF P
<1>13. (0 \in 0 .. N) /\ \A n \in 1 .. N : n \in 0 .. N /\ n # 0
  BY SMT
<1>14. run[0] = b /\ \A n \in 1 .. N : run[n] = Step(run[n - 1], n)
  BY <1>12, <1>13
<1> DEFINE T == {n \in 0 .. N : run[n] \in Accs}
<1>15. 0 \in T
  BY <1>2, <1>13, <1>14
<1>16. ASSUME NEW n \in 1 .. N, n - 1 \in T
       PROVE  n \in T
  BY <1>5, <1>13, <1>14, <1>16
<1>17. \A n \in 0 .. N : n \in T
  <2> HIDE DEF T
  <2>1. QED
    BY <1>15, <1>16, InductionUpTo
<1>18. QED
  BY <1>1, <1>2, <1>3, <1>14, <1>17 DEF Replays, Step

Clean(acc) == acc.err = ""

\* A replay without an error has applied every block.
LEMMA EveryBlockTaken ==
  ASSUME NEW tree, NEW m, NEW I, NEW S, NEW hashes \in Seq(S), m.state_at_fork \in Ledgers,
         \A h \in S : m.blocks[h].txs \in Seq(Tx),
         NEW run, Replays(tree, m, I, hashes, run), Clean(run[Len(hashes)])
  PROVE  \A n \in 1 .. Len(hashes) : Took(tree, m, I, run[n - 1], hashes[n], run[n])
<1>1. PICK N \in Nat : N = Len(hashes)
  BY SMT
<1>2. \A n \in 1 .. N : hashes[n] \in S /\ n - 1 \in 0 .. N
  BY <1>1, SMT
<1>3. ASSUME NEW n \in 1 .. N, run[n].err = ""
      PROVE  Took(tree, m, I, run[n - 1], hashes[n], run[n])
  <2>1. run[n - 1] \in Accs /\ m.blocks[hashes[n]].txs \in Seq(Tx)
    BY <1>1, <1>2 DEF Replays
  <2>2. run[n] = apply_block_to_state(tree, m, I, run[n - 1], hashes[n])
    BY <1>1 DEF Replays
  <2>3. QED
    BY <1>3, <2>1, <2>2, BlockReplayed
<1> DEFINE T == {k \in 0 .. N : run[N - k].err = ""}
<1>4. 0 \in T
  <2>1. N - 0 = N /\ 0 \in 0 .. N
    BY SMT
  <2>2. QED
    BY <1>1, <2>1 DEF Clean
<1>5. ASSUME NEW k \in 1 .. N, k - 1 \in T
      PROVE  k \in T
  <2>1. N - (k - 1) \in 1 .. N /\ (N - (k - 1)) - 1 = N - k /\ k \in 0 .. N
    BY SMT
  <2>2. run[N - (k - 1)].err = ""
    BY <1>5
  <2>3. run[(N - (k - 1)) - 1].err = ""
    BY <1>3, <2>1, <2>2 DEF Took
  <2>4. QED
    BY <2>1, <2>3
<1>6. \A k \in 0 .. N : k \in T
  <2> HIDE DEF T
  <2>1. QED
    BY <1>4, <1>5, InductionUpTo
<1>7. ASSUME NEW n \in 1 .. N
      PROVE  run[n].err = ""
  <2>1. N - n \in 0 .. N /\ N - (N - n) = n
    BY SMT
  <2>2. run[N - (N - n)].err = ""
    BY <1>6, <2>1
  <2>3. QED
    BY <2>1, <2>2
<1>8. QED
  BY <1>1, <1>3, <1>7

-----------------------------------------------------------------------------
(***************************************************************************)
(* A block that is replayed, and the live chain it is on.                  *)
(***************************************************************************)
TrueHeaders(tree, m) == \A h \in DOMAIN m.parents : m.parents[h] = tree[m.parents[h].hash]

TrueBody(tree, m, h) == h \in DOMAIN m.blocks => m.blocks[h] = tree[h]

\* What the tree says of a block that was applied on top of q.
Fits(tree, m, I, h, q) ==
  /\ m.blocks[h] = tree[h] /\ h # GenesisHash
  /\ tree[h].prev = q /\ tree[h].height = I[h].height

LEMMA TakenIsTrue ==
  ASSUME NEW tree \in Trees, NEW I, NEW h \in Hash, NEW q \in Hash, Sound(I, h, q),
         NEW m, NEW acc, NEW end, Took(tree, m, I, acc, h, end)
  PROVE  Fits(tree, m, I, h, q)
<1>1. PICK b : b = m.blocks[h]
  OBVIOUS
<1>2. b.hash = h /\ b.height = I[h].height /\ b.prev = I[h].parent_hash
  BY <1>1 DEF Took, validate_block_against_index
<1>3. b = tree[b.hash]
  BY <1>1 DEF Took, BlockIsValid
<1>4. b = tree[h] /\ b.prev = q
  BY <1>2, <1>3 DEF Sound
<1>5. h # GenesisHash
  BY <1>4, TreesAssumption, RootLinkAssumption
<1>6. QED
  BY <1>1, <1>2, <1>4, <1>5 DEF Fits

LEMMA NotBefore ==
  ASSUME NEW tree, NEW m, NEW b, NEW q, b.prev = q, b.height # 0, TimestampError(m, b) = "",
         TrueHeaders(tree, m), TrueBody(tree, m, q)
  PROVE  ~(b.ts < tree[q].ts)
<1>1. PICK P : P = resolve_parent_block(m, q)
  OBVIOUS
<1>2. P # {} /\ \A p \in P : p.hash = q /\ ~(b.ts < p.ts)
  BY <1>1, OutcomeNames DEF TimestampError
<1>3. CASE q \in DOMAIN m.parents
  <2>1. P = {m.parents[q]}
    BY <1>1, <1>3 DEF resolve_parent_block
  <2>2. m.parents[q].hash = q /\ ~(b.ts < m.parents[q].ts)
    BY <1>2, <2>1
  <2>3. QED
    BY <1>3, <2>2 DEF TrueHeaders
<1>4. CASE q \notin DOMAIN m.parents /\ q \in DOMAIN m.blocks
  <2>1. P = {m.blocks[q]}
    BY <1>1, <1>4 DEF resolve_parent_block
  <2>2. QED
    BY <1>2, <1>4, <2>1 DEF TrueBody
<1>5. CASE q \notin DOMAIN m.parents /\ q \notin DOMAIN m.blocks
  BY <1>1, <1>2, <1>5 DEF resolve_parent_block
<1>6. QED
  BY <1>3, <1>4, <1>5

\* The chain to h is live, st is its ledger and the index has its height.
Follows(tree, I, h, st) ==
  LiveChain(tree, h).ok /\ LiveChain(tree, h).ledger = st /\ I[h].height = tree[h].height

LEMMA ReplayedOnTop ==
  ASSUME NEW tree \in Trees, NEW I, NEW h \in Hash, NEW q \in Hash, Sound(I, h, q),
         NEW m, NEW acc, NEW end, Took(tree, m, I, acc, h, end),
         TrueHeaders(tree, m), TrueBody(tree, m, q), Follows(tree, I, q, acc.ledger)
  PROVE  TrueBody(tree, m, h) /\ Follows(tree, I, h, end.ledger)
<1>1. /\ m.blocks[h] = tree[h] /\ h # GenesisHash
      /\ tree[h].prev = q /\ tree[h].height = I[h].height
  <2>1. Fits(tree, m, I, h, q)
    BY TakenIsTrue
  <2>2. QED
    BY <2>1 DEF Fits
<1>2. /\ tree[h].height \in Nat /\ tree[h].ts \in Nat
      /\ tree[q].height \in Nat /\ tree[q].ts \in Nat
  BY TreeBlocks
<1>3. tree[h].height = tree[q].height + 1
  BY <1>1 DEF Sound, Follows
<1>4. tree[h].height # 0
  BY <1>2, <1>3, SMT
<1>5. TimestampError(m, tree[h]) = ""
  BY <1>1 DEF Took
<1>6. ~(tree[h].ts < tree[q].ts)
  BY <1>1, <1>4, <1>5, NotBefore
<1>7. tree[h].ts >= tree[q].ts
  BY <1>2, <1>6, SMT
<1>8. LiveChain(tree, h) = Appended(tree, tree[h], LiveChain(tree, q))
  BY <1>1, <1>3, LiveStep
<1>9. PICK r, s : /\ r = ApplyAll(acc.ledger, tree[h].txs) /\ s = LiveChain(tree, h)
  OBVIOUS
<1>10. BlockIsValid(tree, tree[h]) /\ r.ok /\ end.ledger = r.ledger
  BY <1>1, <1>9 DEF Took
<1>11. LiveChain(tree, q).ok /\ ApplyAll(LiveChain(tree, q).ledger, tree[h].txs) = r
  BY <1>9 DEF Follows
<1>12. s = [ok |-> /\ LiveChain(tree, q).ok
                   /\ tree[h].height = tree[tree[h].prev].height + 1
                   /\ BlockIsValid(tree, tree[h])
                   /\ tree[h].ts >= tree[tree[h].prev].ts
                   /\ r.ok,
            ledger |-> r.ledger]
  BY <1>8, <1>9, <1>11 DEF Appended
<1>13. s = [ok |-> TRUE, ledger |-> r.ledger]
  BY <1>1, <1>3, <1>7, <1>10, <1>11, <1>12
<1>14. s.ok /\ s.ledger = r.ledger
  BY <1>13
<1>15. QED
  BY <1>1, <1>9, <1>10, <1>14 DEF TrueBody, Follows

\* The chain to h is live and its ledger and st are alike.
Resembles(tree, h, st) == LiveChain(tree, h).ok /\ Alike(st, LiveChain(tree, h).ledger)

LEMMA ReplayedFrom ==
  ASSUME NEW tree \in Trees, NEW I, NEW h \in Hash, NEW q \in Hash, Sound(I, h, q),
         NEW m, NEW acc \in Accs, NEW end, Took(tree, m, I, acc, h, end),
         Resembles(tree, h, end.ledger)
  PROVE  Resembles(tree, q, acc.ledger)
<1>1. m.blocks[h] = tree[h] /\ h # GenesisHash /\ tree[h].prev = q
  <2>1. Fits(tree, m, I, h, q)
    BY TakenIsTrue
  <2>2. QED
    BY <2>1 DEF Fits
<1>2. LiveChain(tree, h).ok
  BY DEF Resembles
<1>3. PICK s, t, txs : s = acc.ledger /\ t = LiveChain(tree, q).ledger /\ txs = tree[h].txs
  OBVIOUS
<1>4. /\ LiveChain(tree, q).ok /\ ApplyAll(t, txs).ok
      /\ LiveChain(tree, h).ledger = ApplyAll(t, txs).ledger
  BY <1>1, <1>2, <1>3, LiveDown
<1>5. ApplyAll(s, txs).ok /\ end.ledger = ApplyAll(s, txs).ledger
  BY <1>1, <1>3 DEF Took
<1>6. Alike(ApplyAll(s, txs).ledger, ApplyAll(t, txs).ledger)
  BY <1>4, <1>5 DEF Resembles
<1>7. s \in Ledgers /\ t \in Ledgers /\ txs \in Seq(Tx)
  <2>1. LiveChain(tree, q) \in Results
    BY LiveType
  <2>2. QED
    BY <1>3, <2>1, TreeBlocks DEF Accs, Results
<1>8. Alike(s, t)
  BY <1>4, <1>5, <1>6, <1>7, ApplyAllDetermines
<1>9. QED
  BY <1>3, <1>4, <1>8 DEF Resembles

-----------------------------------------------------------------------------
(***************************************************************************)
(* A segment that is replayed, from the fork up.                           *)
(***************************************************************************)
At(f, a, n) == IF n = 0 THEN f ELSE a[n]

Linked(I, f, a) == \A n \in 1 .. Len(a) : Sound(I, a[n], At(f, a, n - 1))

TookAll(tree, m, I, a, run) ==
  \A n \in 1 .. Len(a) : Took(tree, m, I, run[n - 1], a[n], run[n])

LEMMA SegmentHashes ==
  ASSUME NEW f \in Hash, NEW a \in Seq(Hash)
  PROVE  /\ At(f, a, 0) = f
         /\ \A n \in 1 .. Len(a) : At(f, a, n) = a[n]
         /\ \A n \in 0 .. Len(a) : At(f, a, n) \in Hash
<1>1. \A n \in 1 .. Len(a) : n # 0 /\ a[n] \in Hash
  BY SMT
<1>2. \A n \in 0 .. Len(a) : n = 0 \/ n \in 1 .. Len(a)
  BY SMT
<1>3. QED
  BY <1>1, <1>2 DEF At

LEMMA SegmentOnTop ==
  ASSUME NEW tree \in Trees, NEW I, NEW f \in Hash, NEW a \in Seq(Hash), Linked(I, f, a),
         NEW m, NEW run, TookAll(tree, m, I, a, run),
         TrueHeaders(tree, m), TrueBody(tree, m, f), Follows(tree, I, f, run[0].ledger)
  PROVE  Follows(tree, I, At(f, a, Len(a)), run[Len(a)].ledger)
<1>1. PICK N \in Nat : N = Len(a)
  BY SMT
<1> DEFINE Good(n) == TrueBody(tree, m, At(f, a, n)) /\ Follows(tree, I, At(f, a, n), run[n].ledger)
           T == {n \in 0 .. N : Good(n)}
<1>2. 0 \in 0 .. N /\ N \in 0 .. N /\ \A n \in 1 .. N : n \in 0 .. N /\ n - 1 \in 0 .. N
  BY SMT
<1>3. 0 \in T
  BY <1>2, SegmentHashes
<1>4. ASSUME NEW n \in 1 .. N, n - 1 \in T
      PROVE  n \in T
  <2>1. PICK h, q : h = a[n] /\ q = At(f, a, n - 1)
    OBVIOUS
  <2>2. h \in Hash /\ q \in Hash /\ At(f, a, n) = h
    BY <1>1, <1>2, <2>1, SegmentHashes
  <2>3. Sound(I, h, q)
    BY <1>1, <2>1 DEF Linked
  <2>4. Took(tree, m, I, run[n - 1], h, run[n])
    BY <1>1, <2>1 DEF TookAll
  <2>5. TrueBody(tree, m, q) /\ Follows(tree, I, q, run[n - 1].ledger)
    BY <1>4, <2>1
  <2>6. TrueBody(tree, m, h) /\ Follows(tree, I, h, run[n].ledger)
    BY <2>2, <2>3, <2>4, <2>5, ReplayedOnTop
  <2>7. QED
    BY <1>2, <2>2, <2>6
<1>5. \A n \in 0 .. N : n \in T
  <2> HIDE DEF T
  <2>1. QED
    BY <1>3, <1>4, InductionUpTo
<1>6. QED
  BY <1>1, <1>2, <1>5

LEMMA SegmentFrom ==
  ASSUME NEW tree \in Trees, NEW I, NEW f \in Hash, NEW a \in Seq(Hash), Linked(I, f, a),
         NEW m, NEW run, TookAll(tree, m, I, a, run), \A n \in 0 .. Len(a) : run[n] \in Accs,
         Resembles(tree, At(f, a, Len(a)), run[Len(a)].ledger)
  PROVE  Resembles(tree, f, run[0].ledger)
<1>1. PICK N \in Nat : N = Len(a)
  BY SMT
<1> DEFINE Good(n) == Resembles(tree, At(f, a, n), run[n].ledger)
           T == {k \in 0 .. N : Good(N - k)}
<1>2. 0 \in 0 .. N /\ N \in 0 .. N /\ N - 0 = N /\ N - N = 0
  BY SMT
<1>3. 0 \in T
  BY <1>1, <1>2
<1>4. ASSUME NEW k \in 1 .. N, k - 1 \in T
      PROVE  k \in T
  <2>1. PICK n : n = N - (k - 1)
    OBVIOUS
  <2>2. n \in 1 .. N /\ n - 1 = N - k /\ n - 1 \in 0 .. N /\ n \in 0 .. N /\ k \in 0 .. N
    BY <2>1, SMT
  <2>3. PICK h, q : h = a[n] /\ q = At(f, a, n - 1)
    OBVIOUS
  <2>4. h \in Hash /\ q \in Hash /\ At(f, a, n) = h
    BY <1>1, <2>2, <2>3, SegmentHashes
  <2>5. Sound(I, h, q)
    BY <1>1, <2>2, <2>3 DEF Linked
  <2>6. Took(tree, m, I, run[n - 1], h, run[n]) /\ run[n - 1] \in Accs
    BY <1>1, <2>2, <2>3 DEF TookAll
  <2>7. Resembles(tree, h, run[n].ledger)
    BY <1>4, <2>1, <2>4
  <2>8. Resembles(tree, q, run[n - 1].ledger)
    <3>1. PICK acc, end : acc = run[n - 1] /\ end = run[n]
      OBVIOUS
    <3>2. /\ acc \in Accs /\ Took(tree, m, I, acc, h, end)
          /\ Resembles(tree, h, end.ledger)
      BY <2>6, <2>7, <3>1
    <3>3. Resembles(tree, q, acc.ledger)
      BY <2>4, <2>5, <3>2, ReplayedFrom
    <3>4. QED
      BY <3>1, <3>3
  <2>9. QED
    BY <2>2, <2>3, <2>8
<1>5. \A k \in 0 .. N : k \in T
  <2> HIDE DEF T
  <2>1. QED
    BY <1>3, <1>4, InductionUpTo
<1>6. Good(0)
  <2> HIDE DEF Good
  <2>1. QED
    BY <1>2, <1>5
<1>7. QED
  BY <1>6, SegmentHashes

-----------------------------------------------------------------------------
(***************************************************************************)
(* Replay on clones, with typed material.                                  *)
(***************************************************************************)
MaterialOK(m) ==
  m.state_at_fork \in Ledgers /\ \A h \in DOMAIN m.blocks : m.blocks[h].txs \in Seq(Tx)

\* What a replay of blocks that are all there gives.
Segment(tree, m, I, a) ==
  /\ ReplayBlocks(tree, m, I, a) \in Accs
  /\ Clean(ReplayBlocks(tree, m, I, a)) =>
       \E run : /\ TookAll(tree, m, I, a, run) /\ \A n \in 0 .. Len(a) : run[n] \in Accs
                /\ run[0].ledger = m.state_at_fork
                /\ run[Len(a)] = ReplayBlocks(tree, m, I, a)

LEMMA SegmentReplayed ==
  ASSUME NEW tree, NEW m, NEW I, MaterialOK(m), NEW a \in Seq(Hash),
         \A x \in Range(a) : x \in DOMAIN m.blocks
  PROVE  Segment(tree, m, I, a)
<1>1. PICK S : S = DOMAIN m.blocks
  OBVIOUS
<1>2. a \in Seq(S)
  <2>1. \A n \in 1 .. Len(a) : a[n] \in S
    BY <1>1, RangeOf
  <2>2. QED
    BY <2>1, SMT
<1>3. m.state_at_fork \in Ledgers /\ \A h \in S : m.blocks[h].txs \in Seq(Tx)
  BY <1>1 DEF MaterialOK
<1>4. PICK run : Replays(tree, m, I, a, run)
  BY <1>2, <1>3, ReplayRun
<1>5. Len(a) \in 0 .. Len(a)
  BY SMT
<1>6. run[Len(a)] \in Accs /\ ReplayBlocks(tree, m, I, a) = run[Len(a)]
  BY <1>4, <1>5 DEF Replays
<1>7. ASSUME Clean(run[Len(a)])
      PROVE  TookAll(tree, m, I, a, run)
  <2>1. \A n \in 1 .. Len(a) : Took(tree, m, I, run[n - 1], a[n], run[n])
    BY <1>2, <1>3, <1>4, <1>7, EveryBlockTaken
  <2>2. QED
    BY <2>1 DEF TookAll
<1>8. QED
  BY <1>4, <1>6, <1>7 DEF Replays, Segment

\* What a plan replays, from the fork up.
OldSegment(p) == Reverse(p.rollback_ordered)

Segments(p) == p.rollback_ordered \in Seq(Hash) /\ p.apply_ordered \in Seq(Hash)

\* What a successful replay has checked, and its result.
Succeeded(tree, m, I, p, res) ==
  /\ Segment(tree, m, I, OldSegment(p)) /\ Clean(ReplayBlocks(tree, m, I, OldSegment(p)))
  /\ p.rollback_ordered # <<>> => m.expected = {ReplayBlocks(tree, m, I, OldSegment(p)).ledger}
  /\ Segment(tree, m, I, p.apply_ordered) /\ Clean(ReplayBlocks(tree, m, I, p.apply_ordered))
  /\ res.ledger = ReplayBlocks(tree, m, I, p.apply_ordered).ledger
  /\ res.supply = total_balance_sum(res.ledger) /\ res.supply \in U64

ClonesOutcome(tree, m, I, p) ==
  LET res == run_replay_on_clones(tree, m, p, I)
  IN  res.err \in Outcomes /\ (res.err = "" => Succeeded(tree, m, I, p, res))

LEMMA ClonesReplayed ==
  ASSUME NEW tree, NEW m, NEW I, NEW p, MaterialOK(m), Segments(p)
  PROVE  ClonesOutcome(tree, m, I, p)
<1>1. PICK old, new, res, B :
        /\ old = ReplayBlocks(tree, m, I, OldSegment(p))
        /\ new = ReplayBlocks(tree, m, I, p.apply_ordered)
        /\ res = run_replay_on_clones(tree, m, p, I)
        /\ B = Range(p.rollback_ordered \o p.apply_ordered)
  OBVIOUS
<1> DEFINE Lost == p.rollback_ordered # <<>> /\ m.expected = {}
           Good == [err |-> "", ledger |-> new.ledger, supply |-> total_balance_sum(new.ledger)]
<1>2. res = IF Lost THEN [err |-> "MissingExpectedOldTipState"]
            ELSE IF ~(B \subseteq DOMAIN m.blocks) THEN [err |-> "MissingBlockBody"]
            ELSE IF old.err # "" THEN [err |-> old.err]
            ELSE IF OldTipMismatch(m, p, old) THEN [err |-> "OldTipStateMismatch"]
            ELSE IF new.err # "" THEN [err |-> new.err]
            ELSE IF SupplyOverflows(new.ledger) THEN [err |-> "SupplyAudit"]
            ELSE Good
  BY <1>1 DEF run_replay_on_clones, OldSegment
<1> DEFINE Done == res.err \in Outcomes /\ (res.err = "" => Succeeded(tree, m, I, p, res))
<1> HIDE DEF Lost, Good
<1>3. SUFFICES Done
  BY <1>1 DEF ClonesOutcome
<1>4. ASSUME NEW e \in Outcomes, e # "", res = [err |-> e]
      PROVE  Done
  <2>1. [err |-> e].err = e
    OBVIOUS
  <2>2. res.err = e
    BY <1>4, <2>1
  <2>3. QED
    BY <1>4, <2>2
<1>5. ASSUME B \subseteq DOMAIN m.blocks
      PROVE  /\ Segment(tree, m, I, OldSegment(p)) /\ Segment(tree, m, I, p.apply_ordered)
             /\ old.err \in Outcomes /\ new.err \in Outcomes
  <2>1. PICK s, t : s = p.rollback_ordered /\ t = p.apply_ordered
    OBVIOUS
  <2>2. s \in Seq(Hash) /\ t \in Seq(Hash)
    BY <2>1 DEF Segments
  <2>3. \A x : x \in B <=> x \in Range(s) \/ x \in Range(t)
    BY <1>1, <2>1, <2>2, JoinedRange
  <2>4. Reverse(s) \in Seq(Hash) /\ \A x : x \in Range(Reverse(s)) <=> x \in Range(s)
    BY <2>2, Reversed, ReversedElements
  <2>5. Segment(tree, m, I, Reverse(s))
    <3>1. \A x \in Range(Reverse(s)) : x \in DOMAIN m.blocks
      BY <1>5, <2>3, <2>4
    <3>2. QED
      BY <2>4, <3>1, SegmentReplayed
  <2>6. Segment(tree, m, I, t)
    <3>1. \A x \in Range(t) : x \in DOMAIN m.blocks
      BY <1>5, <2>3
    <3>2. QED
      BY <2>2, <3>1, SegmentReplayed
  <2>7. old \in Accs /\ new \in Accs
    BY <1>1, <2>1, <2>5, <2>6 DEF Segment, OldSegment
  <2>8. QED
    BY <2>1, <2>5, <2>6, <2>7 DEF OldSegment, Accs
<1>6. CASE Lost
  <2>1. res = [err |-> "MissingExpectedOldTipState"]
    BY <1>2, <1>6
  <2>2. QED
    BY <1>4, <2>1, OtherOutcomeNames
<1>7. CASE ~Lost /\ ~(B \subseteq DOMAIN m.blocks)
  <2>1. res = [err |-> "MissingBlockBody"]
    BY <1>2, <1>7
  <2>2. QED
    BY <1>4, <2>1, OtherOutcomeNames
<1>8. CASE ~Lost /\ B \subseteq DOMAIN m.blocks /\ old.err # ""
  <2>1. res = [err |-> old.err]
    BY <1>2, <1>8
  <2>2. QED
    BY <1>4, <1>5, <1>8, <2>1
<1>9. CASE ~Lost /\ B \subseteq DOMAIN m.blocks /\ old.err = "" /\ OldTipMismatch(m, p, old)
  <2>1. res = [err |-> "OldTipStateMismatch"]
    BY <1>2, <1>9
  <2>2. QED
    BY <1>4, <2>1, OtherOutcomeNames
<1>10. CASE /\ ~Lost /\ B \subseteq DOMAIN m.blocks /\ old.err = "" /\ ~OldTipMismatch(m, p, old)
           /\ new.err # ""
  <2>1. res = [err |-> new.err]
    BY <1>2, <1>10
  <2>2. QED
    BY <1>4, <1>5, <1>10, <2>1
<1>11. CASE /\ ~Lost /\ B \subseteq DOMAIN m.blocks /\ old.err = "" /\ ~OldTipMismatch(m, p, old)
            /\ new.err = "" /\ SupplyOverflows(new.ledger)
  <2>1. res = [err |-> "SupplyAudit"]
    BY <1>2, <1>11
  <2>2. QED
    BY <1>4, <2>1, OtherOutcomeNames
<1>12. CASE /\ ~Lost /\ B \subseteq DOMAIN m.blocks /\ old.err = "" /\ ~OldTipMismatch(m, p, old)
            /\ new.err = "" /\ ~SupplyOverflows(new.ledger)
  <2>1. res = Good
    BY <1>2, <1>12
  <2>2. Good.err = "" /\ Good.ledger = new.ledger /\ Good.supply = total_balance_sum(new.ledger)
    BY DEF Good
  <2>3. /\ res.err = "" /\ res.ledger = new.ledger
        /\ res.supply = total_balance_sum(res.ledger)
    BY <2>1, <2>2
  <2>4. res.supply \in U64
    BY <1>12, <2>3 DEF SupplyOverflows
  <2>5. p.rollback_ordered # <<>> => m.expected = {old.ledger}
    BY <1>12 DEF OldTipMismatch
  <2>6. Succeeded(tree, m, I, p, res)
    BY <1>1, <1>5, <1>12, <2>3, <2>4, <2>5 DEF Succeeded, Clean
  <2>7. QED
    BY <2>3, <2>6, OutcomeNames
<1>13. QED
  <2> HIDE DEF Done
  <2>1. QED
    BY <1>6, <1>7, <1>8, <1>9, <1>10, <1>11, <1>12

-----------------------------------------------------------------------------
(***************************************************************************)
(* Materials are typed, and hold no body of the fork.                      *)
(***************************************************************************)
MaterialOf(st, bl, ex, pa) ==
  [state_at_fork |-> st, blocks |-> bl, expected |-> ex, parents |-> pa]

IsMaterial(m, st, bl, ex, pa) == m = MaterialOf(st, bl, ex, pa)

LEMMA MaterialFields ==
  ASSUME NEW m, NEW st, NEW bl, NEW ex, NEW pa, IsMaterial(m, st, bl, ex, pa)
  PROVE  m.state_at_fork = st /\ m.blocks = bl
<1>1. /\ MaterialOf(st, bl, ex, pa).state_at_fork = st
      /\ MaterialOf(st, bl, ex, pa).blocks = bl
  BY DEF MaterialOf
<1>2. QED
  BY <1>1 DEF IsMaterial

LEMMA LedgersReplaced ==
  ASSUME NEW F, NEW st, NEW bl, NEW ex, NEW pa, IsMaterial(F, st, bl, ex, pa), NEW x, NEW y
  PROVE  IsMaterial(WithLedgers(F, x, y), x, bl, y, pa)
<1>1. WithLedgers(F, x, y) = [[F EXCEPT !.state_at_fork = x] EXCEPT !.expected = y]
  BY DEF WithLedgers
<1>2. [F EXCEPT !.state_at_fork = x] = MaterialOf(x, bl, ex, pa)
  BY SMT DEF MaterialOf, IsMaterial
<1>3. [MaterialOf(x, bl, ex, pa) EXCEPT !.expected = y] = MaterialOf(x, bl, y, pa)
  BY SMT DEF MaterialOf
<1>4. QED
  BY <1>1, <1>2, <1>3 DEF IsMaterial

LEMMA BodiesReplaced ==
  ASSUME NEW F, NEW st, NEW bl, NEW ex, NEW pa, IsMaterial(F, st, bl, ex, pa), NEW h, NEW x
  PROVE  /\ IsMaterial([F EXCEPT !.blocks = x], st, x, ex, pa)
         /\ IsMaterial([F EXCEPT !.blocks[h] = x], st, [bl EXCEPT ![h] = x], ex, pa)
         /\ IsMaterial([F EXCEPT !.blocks[h].ts = x],
                       st, [bl EXCEPT ![h] = [bl[h] EXCEPT !.ts = x]], ex, pa)
BY SMT DEF MaterialOf, IsMaterial

LEMMA ParentsReplaced ==
  ASSUME NEW F, NEW st, NEW bl, NEW ex, NEW pa, IsMaterial(F, st, bl, ex, pa), NEW h, NEW x
  PROVE  /\ \E z : IsMaterial([F EXCEPT !.parents = x], st, bl, ex, z)
         /\ \E z : IsMaterial([F EXCEPT !.parents[h] = x], st, bl, ex, z)
         /\ \E z : IsMaterial([F EXCEPT !.parents[h].ts = x], st, bl, ex, z)
<1>1. /\ IsMaterial([F EXCEPT !.parents = x], st, bl, ex, x)
      /\ IsMaterial([F EXCEPT !.parents[h] = x], st, bl, ex, [pa EXCEPT ![h] = x])
      /\ IsMaterial([F EXCEPT !.parents[h].ts = x],
                    st, bl, ex, [pa EXCEPT ![h] = [pa[h] EXCEPT !.ts = x]])
  BY SMT DEF MaterialOf, IsMaterial
<1>2. QED
  BY <1>1

BodiesOK(S, bl) == DOMAIN bl \subseteq S /\ \A h \in DOMAIN bl : bl[h].txs \in Seq(Tx)

LEMMA BodyChanged ==
  ASSUME NEW S, NEW bl, BodiesOK(S, bl), NEW h \in DOMAIN bl, NEW x, x.txs \in Seq(Tx)
  PROVE  BodiesOK(S, [bl EXCEPT ![h] = x])
<1>1. PICK c : c = [bl EXCEPT ![h] = x]
  OBVIOUS
<1>2. DOMAIN c = DOMAIN bl /\ \A y \in DOMAIN bl : c[y] = IF y = h THEN x ELSE bl[y]
  BY <1>1
<1>3. \A y \in DOMAIN bl : c[y].txs \in Seq(Tx)
  BY <1>2 DEF BodiesOK
<1>4. QED
  BY <1>1, <1>2, <1>3 DEF BodiesOK

LEMMA TimestampChanged ==
  ASSUME NEW b \in Block, NEW ts
  PROVE  [b EXCEPT !.ts = ts].txs \in Seq(Tx)
<1>1. [b EXCEPT !.ts = ts].txs = b.txs
  BY DEF Block
<1>2. QED
  BY <1>1 DEF Block

LEMMA SomeLedgersTyped ==
  ASSUME NEW tree \in Trees
  PROVE  SomeLedgers(tree) \subseteq Ledgers
<1>1. ASSUME NEW h \in Hash
      PROVE  LiveChain(tree, h).ledger \in Ledgers
  BY LiveType DEF Results
<1>2. 0 \in U64 /\ MaxU64 \in U64
  BY MaxU64Assumption, SMT DEF U64
<1>3. EmptyAccount \in Account /\ [balance |-> MaxU64, nonce |-> 0] \in Account
  BY <1>2 DEF EmptyAccount, Account
<1>4. WithEmptyAccounts(Genesis) \in Ledgers
  <2>1. \A a \in Addr : Genesis[a] \in Account \cup {NoAccount}
    BY GenesisAssumption DEF Ledgers
  <2>2. QED
    BY <1>3, <2>1 DEF WithEmptyAccounts, Ledgers
<1>5. [a \in Addr |-> [balance |-> MaxU64, nonce |-> 0]] \in Ledgers
  BY <1>3 DEF Ledgers
<1>6. QED
  BY <1>1, <1>4, <1>5 DEF SomeLedgers

\* The blocks of a plan.
PlanBlocks(p) == Range(p.rollback_ordered \o p.apply_ordered)

LEMMA FaithfulParts ==
  ASSUME NEW tree \in Trees, NEW p, p.fork_hash \in Hash, PlanBlocks(p) \subseteq Hash
  PROVE  \E st, ex, pa :
           /\ st \in Ledgers
           /\ IsMaterial(FaithfulMaterial(tree, p), st, [h \in PlanBlocks(p) |-> tree[h]], ex, pa)
<1>1. LiveChain(tree, p.fork_hash).ledger \in Ledgers
  BY LiveType DEF Results
<1>2. QED
  BY <1>1 DEF FaithfulMaterial, IsMaterial, MaterialOf, PlanBlocks

Typed(S, m) == MaterialOK(m) /\ DOMAIN m.blocks \subseteq S

LEMMA TypedOf ==
  ASSUME NEW S, NEW st \in Ledgers, NEW bl, BodiesOK(S, bl), NEW ex, NEW pa,
         NEW m, IsMaterial(m, st, bl, ex, pa)
  PROVE  Typed(S, m)
<1>1. m.state_at_fork = st /\ m.blocks = bl
  BY MaterialFields
<1>2. QED
  BY <1>1 DEF Typed, MaterialOK, BodiesOK

LEMMA MaterialsTyped ==
  ASSUME NEW tree \in Trees, NEW p, p.fork_hash \in Hash, PlanBlocks(p) \subseteq Hash,
         NEW m \in Materials(tree, p)
  PROVE  Typed(PlanBlocks(p), m)
<1>1. PICK B, bl : B = PlanBlocks(p) /\ bl = [h \in B |-> tree[h]]
  OBVIOUS
<1>2. PICK F : F = FaithfulMaterial(tree, p)
  OBVIOUS
<1>3. \/ m \in OtherLedgers(tree, F) \/ m \in OtherBodies(tree, F)
      \/ m \in OtherHeaders(tree, F, p.fork_hash)
  BY <1>2 DEF Materials
<1>4. PICK st, ex, pa : st \in Ledgers /\ IsMaterial(F, st, bl, ex, pa)
  BY <1>1, <1>2, FaithfulParts
<1>5. F.blocks = bl /\ DOMAIN bl = B
  BY <1>1, <1>4, MaterialFields
<1>6. \A h \in Hash : tree[h] \in Block
  BY TreesAssumption
<1>7. \A h \in B : bl[h] \in Block
  BY <1>1, <1>6
<1>8. BodiesOK(B, bl)
  BY <1>5, <1>7 DEF BodiesOK, Block
<1>9. ASSUME NEW x \in Ledgers, NEW c, BodiesOK(B, c), NEW y, NEW z, IsMaterial(m, x, c, y, z)
      PROVE  Typed(PlanBlocks(p), m)
  BY <1>1, <1>9, TypedOf
<1>10. ASSUME m \in OtherLedgers(tree, F)
       PROVE  Typed(PlanBlocks(p), m)
  <2>1. PICK x, y : x \in SomeLedgers(tree) /\ m = WithLedgers(F, x, y)
    BY <1>10, SMT DEF OtherLedgers
  <2>2. IsMaterial(m, x, bl, y, pa)
    BY <1>4, <2>1, LedgersReplaced
  <2>3. QED
    BY <1>8, <1>9, <2>1, <2>2, SomeLedgersTyped
<1>11. ASSUME m \in OtherBodies(tree, F)
       PROVE  Typed(PlanBlocks(p), m)
  <2>1. \/ \E h \in DOMAIN F.blocks :
             m = [F EXCEPT !.blocks = [x \in DOMAIN F.blocks \ {h} |-> F.blocks[x]]]
        \/ \E h \in DOMAIN F.blocks, ts \in 0 .. MaxTs : m = [F EXCEPT !.blocks[h].ts = ts]
        \/ \E h \in DOMAIN F.blocks, x \in Hash : m = [F EXCEPT !.blocks[h] = tree[x]]
    BY <1>11, SMT DEF OtherBodies
  <2>2. ASSUME NEW h \in B, m = [F EXCEPT !.blocks = [x \in B \ {h} |-> bl[x]]]
        PROVE  Typed(PlanBlocks(p), m)
    <3>1. PICK c : c = [x \in B \ {h} |-> bl[x]]
      OBVIOUS
    <3>2. BodiesOK(B, c)
      BY <1>5, <1>8, <3>1 DEF BodiesOK
    <3>3. m = [F EXCEPT !.blocks = c]
      BY <2>2, <3>1
    <3>4. IsMaterial(m, st, c, ex, pa)
      BY <1>4, <3>3, BodiesReplaced
    <3>5. QED
      BY <1>4, <1>9, <3>2, <3>4
  <2>3. ASSUME NEW h \in B, NEW ts, m = [F EXCEPT !.blocks[h].ts = ts]
        PROVE  Typed(PlanBlocks(p), m)
    <3>1. PICK x : x = [bl[h] EXCEPT !.ts = ts]
      OBVIOUS
    <3>2. x.txs \in Seq(Tx)
      BY <1>7, <3>1, TimestampChanged
    <3>3. BodiesOK(B, [bl EXCEPT ![h] = x])
      BY <1>5, <1>8, <3>2, BodyChanged
    <3>4. IsMaterial(m, st, [bl EXCEPT ![h] = x], ex, pa)
      BY <1>4, <2>3, <3>1, BodiesReplaced
    <3>5. QED
      BY <1>4, <1>9, <3>3, <3>4
  <2>4. ASSUME NEW h \in B, NEW x \in Hash, m = [F EXCEPT !.blocks[h] = tree[x]]
        PROVE  Typed(PlanBlocks(p), m)
    <3>1. tree[x].txs \in Seq(Tx)
      BY TreeBlocks
    <3>2. BodiesOK(B, [bl EXCEPT ![h] = tree[x]])
      BY <1>5, <1>8, <3>1, BodyChanged
    <3>3. IsMaterial(m, st, [bl EXCEPT ![h] = tree[x]], ex, pa)
      BY <1>4, <2>4, BodiesReplaced
    <3>4. QED
      BY <1>4, <1>9, <3>2, <3>3
  <2>5. QED
    BY <1>5, <2>1, <2>2, <2>3, <2>4
<1>12. ASSUME m \in OtherHeaders(tree, F, p.fork_hash)
       PROVE  Typed(PlanBlocks(p), m)
  <2>1. \/ m = [F EXCEPT !.parents = <<>>]
        \/ \E x \in Hash : m = [F EXCEPT !.parents[p.fork_hash] = tree[x]]
        \/ \E ts \in 0 .. MaxTs : m = [F EXCEPT !.parents[p.fork_hash].ts = ts]
    BY <1>12 DEF OtherHeaders
  <2>2. ASSUME m = [F EXCEPT !.parents = <<>>]
        PROVE  \E z : IsMaterial(m, st, bl, ex, z)
    BY <1>4, <2>2, ParentsReplaced
  <2>3. ASSUME NEW x, m = [F EXCEPT !.parents[p.fork_hash] = x]
        PROVE  \E z : IsMaterial(m, st, bl, ex, z)
    BY <1>4, <2>3, ParentsReplaced
  <2>4. ASSUME NEW ts, m = [F EXCEPT !.parents[p.fork_hash].ts = ts]
        PROVE  \E z : IsMaterial(m, st, bl, ex, z)
    BY <1>4, <2>4, ParentsReplaced
  <2>5. QED
    BY <1>4, <1>8, <1>9, <2>1, <2>2, <2>3, <2>4
<1>13. QED
  BY <1>3, <1>10, <1>11, <1>12

-----------------------------------------------------------------------------
(***************************************************************************)
(* A successful replay.                                                    *)
(***************************************************************************)

LEMMA LineLinked ==
  ASSUME NEW I, NEW path \in Seq(Hash), NEW f \in Hash, Line(I, Append(path, f))
  PROVE  /\ Linked(I, f, Reverse(path))
         /\ At(f, Reverse(path), Len(Reverse(path))) = Append(path, f)[1]
<1>1. PICK n \in Nat : n = Len(path)
  BY SMT
<1>2. PICK s, a : s = Append(path, f) /\ a = Reverse(path)
  OBVIOUS
<1>3. Len(a) = n /\ \A i \in 1 .. n : a[i] = path[n - i + 1]
  BY <1>1, <1>2, Reversed, ReversedElements
<1>4. s[n + 1] = f /\ \A i \in 1 .. n : s[i] = path[i]
  BY <1>1, <1>2, SMT
<1>5. Len(s) - 1 = n
  BY <1>1, <1>2, SMT
<1>6. \A i \in 1 .. n : Sound(I, s[i], s[i + 1])
  BY <1>2, <1>5 DEF Line
<1>7. \A j \in 1 .. n : n - j + 1 \in 1 .. n /\ j # 0
  BY SMT
<1>8. \A j \in 1 .. n : At(f, a, j) = s[n - j + 1]
  BY <1>3, <1>4, <1>7 DEF At
<1>9. At(f, a, 0) = s[n - 0 + 1]
  <2>1. n - 0 + 1 = n + 1
    BY SMT
  <2>2. QED
    BY <1>4, <2>1 DEF At
<1>10. \A j \in 0 .. n : At(f, a, j) = s[n - j + 1]
  <2>1. \A j \in 0 .. n : j = 0 \/ j \in 1 .. n
    BY SMT
  <2>2. QED
    BY <1>8, <1>9, <2>1
<1>11. ASSUME NEW k \in 1 .. n
       PROVE  Sound(I, a[k], At(f, a, k - 1))
  <2>1. k - 1 \in 0 .. n /\ n - (k - 1) + 1 = (n - k + 1) + 1
    BY SMT
  <2>2. a[k] = s[n - k + 1]
    BY <1>3, <1>4, <1>7
  <2>3. At(f, a, k - 1) = s[(n - k + 1) + 1]
    BY <1>10, <2>1
  <2>4. QED
    BY <1>6, <1>7, <2>2, <2>3
<1>12. At(f, a, n) = s[1]
  <2>1. n \in 0 .. n /\ n - n + 1 = 1
    BY SMT
  <2>2. QED
    BY <1>10, <2>1
<1>13. QED
  BY <1>2, <1>3, <1>11, <1>12 DEF Linked

LEMMA NewBranchLive ==
  ASSUME NEW tree \in Trees, NEW I, NEW p, p.fork_hash \in Hash, Segments(p),
         Linked(I, p.fork_hash, p.apply_ordered), p.fork_hash \notin PlanBlocks(p),
         NEW m, Typed(PlanBlocks(p), m), NEW res, Succeeded(tree, m, I, p, res),
         TrueHeaders(tree, m), Follows(tree, I, p.fork_hash, m.state_at_fork)
  PROVE  Follows(tree, I, At(p.fork_hash, p.apply_ordered, Len(p.apply_ordered)), res.ledger)
<1>1. PICK f, a : f = p.fork_hash /\ a = p.apply_ordered
  OBVIOUS
<1>2. f \in Hash /\ a \in Seq(Hash) /\ Linked(I, f, a)
  BY <1>1 DEF Segments
<1>3. /\ Segment(tree, m, I, a) /\ Clean(ReplayBlocks(tree, m, I, a))
      /\ res.ledger = ReplayBlocks(tree, m, I, a).ledger
  BY <1>1 DEF Succeeded
<1>4. PICK run : /\ TookAll(tree, m, I, a, run)
                 /\ run[0].ledger = m.state_at_fork
                 /\ run[Len(a)] = ReplayBlocks(tree, m, I, a)
  BY <1>3 DEF Segment
<1>5. TrueBody(tree, m, f)
  BY <1>1 DEF TrueBody, Typed
<1>6. Follows(tree, I, f, run[0].ledger)
  BY <1>1, <1>4
<1>7. Follows(tree, I, At(f, a, Len(a)), run[Len(a)].ledger)
  BY <1>2, <1>4, <1>5, <1>6, SegmentOnTop
<1>8. QED
  BY <1>1, <1>3, <1>4, <1>7

LEMMA OldBranchChecked ==
  ASSUME NEW tree \in Trees, NEW I, NEW p, p.fork_hash \in Hash, Segments(p),
         Linked(I, p.fork_hash, OldSegment(p)), NEW m, NEW res, Succeeded(tree, m, I, p, res),
         p.rollback_ordered # <<>>,
         NEW tip, tip = At(p.fork_hash, OldSegment(p), Len(OldSegment(p))),
         LiveChain(tree, tip).ok, m.expected = {LiveChain(tree, tip).ledger}
  PROVE  Alike(m.state_at_fork, LiveChain(tree, p.fork_hash).ledger)
<1>1. PICK f, a : f = p.fork_hash /\ a = OldSegment(p)
  OBVIOUS
<1>2. f \in Hash /\ a \in Seq(Hash) /\ Linked(I, f, a) /\ tip = At(f, a, Len(a))
  BY <1>1, Reversed DEF Segments, OldSegment
<1>3. /\ Segment(tree, m, I, a) /\ Clean(ReplayBlocks(tree, m, I, a))
      /\ m.expected = {ReplayBlocks(tree, m, I, a).ledger}
  BY <1>1 DEF Succeeded
<1>4. PICK run : /\ TookAll(tree, m, I, a, run) /\ \A n \in 0 .. Len(a) : run[n] \in Accs
                 /\ run[0].ledger = m.state_at_fork
                 /\ run[Len(a)] = ReplayBlocks(tree, m, I, a)
  BY <1>3 DEF Segment
<1>5. run[Len(a)].ledger = LiveChain(tree, tip).ledger
  BY <1>3, <1>4
<1>6. Resembles(tree, At(f, a, Len(a)), run[Len(a)].ledger)
  BY <1>2, <1>5 DEF Resembles, Alike
<1>7. Resembles(tree, f, run[0].ledger)
  BY <1>2, <1>4, <1>6, SegmentFrom
<1>8. QED
  BY <1>1, <1>4, <1>7 DEF Resembles

LEMMA AlikeFilled ==
  ASSUME NEW s, NEW t, Alike(s, t)
  PROVE  WithEmptyAccounts(s) = WithEmptyAccounts(t)
<1>1. \A a \in Addr : Holding(s[a]) = Holding(t[a])
  BY DEF Alike
<1>2. WithEmptyAccounts(s) = [a \in Addr |-> Holding(s[a])]
  BY DEF WithEmptyAccounts, Holding, EmptyAccount
<1>3. WithEmptyAccounts(t) = [a \in Addr |-> Holding(t[a])]
  BY DEF WithEmptyAccounts, Holding, EmptyAccount
<1>4. QED
  BY <1>1, <1>2, <1>3

-----------------------------------------------------------------------------
(***************************************************************************)
(* Reports.                                                                *)
(***************************************************************************)
Reported(tree, p, I, r) ==
  \E m \in Materials(tree, p) : r = Remembered(m, run_report(tree, m, p, I))

LEMMA PlanBlocksTyped ==
  ASSUME NEW p, Segments(p)
  PROVE  PlanBlocks(p) \subseteq Hash
<1>1. PICK s, t : s = p.rollback_ordered /\ t = p.apply_ordered
  OBVIOUS
<1>2. s \in Seq(Hash) /\ t \in Seq(Hash)
  BY <1>1 DEF Segments
<1>3. Range(s) \subseteq Hash /\ Range(t) \subseteq Hash
  BY <1>2, SMT DEF Range
<1>4. \A x : x \in Range(s \o t) <=> x \in Range(s) \/ x \in Range(t)
  BY <1>2, JoinedRange
<1>5. QED
  BY <1>1, <1>3, <1>4 DEF PlanBlocks

\* What a report says; a successful one has passed the checks of the plan.
ReportOK(tree, p, I, r) ==
  /\ r.replay = "Completed" => r.result.err \in Outcomes
  /\ ReplayOk(r) => /\ validate_against_index(I, p)
                    /\ Typed(PlanBlocks(p), r.material)
                    /\ Succeeded(tree, r.material, I, p, r.result)

LEMMA ReportChecked ==
  ASSUME NEW tree \in Trees, NEW I, NEW p, p.fork_hash \in Hash, Segments(p), NEW r,
         Reported(tree, p, I, r)
  PROVE  ReportOK(tree, p, I, r)
<1>1. PICK m \in Materials(tree, p) : r = Remembered(m, run_report(tree, m, p, I))
  BY DEF Reported
<1>2. PICK q, res : q = run_report(tree, m, p, I) /\ res = run_replay_on_clones(tree, m, p, I)
  OBVIOUS
<1>3. Typed(PlanBlocks(p), m)
  BY MaterialsTyped, PlanBlocksTyped
<1>4. res.err \in Outcomes /\ (res.err = "" => Succeeded(tree, m, I, p, res))
  <2>1. MaterialOK(m)
    BY <1>3 DEF Typed
  <2>2. ClonesOutcome(tree, m, I, p)
    BY <2>1, ClonesReplayed
  <2>3. QED
    BY <1>2, <2>2 DEF ClonesOutcome
<1>5. ASSUME NEW e, q = [replay |-> e], e # "Completed"
      PROVE  ReportOK(tree, p, I, r)
  <2>1. [replay |-> e].replay = e
    OBVIOUS
  <2>2. q.replay # "Completed"
    BY <1>5, <2>1
  <2>3. r = q
    BY <1>1, <1>2, <2>2 DEF Remembered, ReplayOk
  <2>4. QED
    BY <2>2, <2>3 DEF ReportOK, ReplayOk
<1>6. CASE ~validate_against_index(I, p)
  <2>1. q = [replay |-> "SkippedDueToStructuralInvalid"]
    BY <1>2, <1>6 DEF run_report
  <2>2. QED
    BY <1>5, <2>1
<1>7. CASE validate_against_index(I, p) /\ evaluate(p, I).verdict = "Rejected"
  <2>1. q = [replay |-> "SkippedDueToPolicy"]
    BY <1>2, <1>7 DEF run_report
  <2>2. QED
    BY <1>5, <2>1
<1>8. CASE validate_against_index(I, p) /\ evaluate(p, I).verdict # "Rejected"
  <2>1. q = [replay |-> "Completed", result |-> res]
    BY <1>2, <1>8 DEF run_report
  <2>2. /\ [replay |-> "Completed", result |-> res].replay = "Completed"
        /\ [replay |-> "Completed", result |-> res].result = res
    OBVIOUS
  <2>3. q.replay = "Completed" /\ q.result = res
    BY <2>1, <2>2
  <2>4. CASE res.err = ""
    <3>1. r = [replay |-> "Completed", result |-> res, material |-> m]
      BY <1>1, <1>2, <2>3, <2>4 DEF Remembered, ReplayOk
    <3>2. r.result = res /\ r.material = m
      BY <3>1
    <3>3. QED
      BY <1>3, <1>4, <1>8, <2>4, <3>2 DEF ReportOK
  <2>5. CASE res.err # ""
    <3>1. ~ReplayOk(q)
      BY <2>3, <2>5 DEF ReplayOk
    <3>2. r = q
      BY <1>1, <1>2, <3>1 DEF Remembered
    <3>3. QED
      BY <1>4, <2>3, <3>1, <3>2 DEF ReportOK
  <2>6. QED
    BY <2>4, <2>5
<1>9. QED
  BY <1>6, <1>7, <1>8

\* The result of a successful replay is typed.
LEMMA ResultTyped ==
  ASSUME NEW tree, NEW m, NEW I, NEW p, NEW res, Succeeded(tree, m, I, p, res)
  PROVE  res.ledger \in Ledgers /\ res.supply \in U64
<1>1. ReplayBlocks(tree, m, I, p.apply_ordered) \in Accs
  BY DEF Succeeded, Segment
<1>2. QED
  BY <1>1 DEF Succeeded, Accs

-----------------------------------------------------------------------------
(***************************************************************************)
(* The inductive invariant: the index is well formed, a plan is one        *)
(* try_from_tips made, a report is the one of some material for the plan   *)
(* held and the index as it is.                                            *)
(***************************************************************************)
Inv ==
  /\ genuine \in Trees
  /\ IndexOK(index)
  /\ plan # NoPlan => PlanOK(plan)
  /\ late \in BOOLEAN
  /\ plan = NoPlan => report = NoReport
  /\ report # NoReport => Reported(genuine, plan, index, report)

\* insert stores one entry and keeps the others.
LEMMA InsertKeeps ==
  ASSUME NEW I, IndexOK(I), NEW h \in Hash, NEW entry \in BlockIndexEntry
  PROVE  IndexOK(insert(I, h, entry))
<1>1. PICK J : J = insert(I, h, entry)
  OBVIOUS
<1>2. /\ DOMAIN J = DOMAIN I \cup {h}
      /\ \A x \in DOMAIN I \cup {h} : J[x] = IF x = h THEN entry ELSE I[x]
  BY <1>1 DEF insert
<1>3. IsFiniteSet(DOMAIN I \cup {h})
  BY FS_AddElement DEF IndexOK
<1>4. DOMAIN I \cup {h} \subseteq Hash
  BY DEF IndexOK
<1>5. ASSUME NEW x \in DOMAIN I \cup {h}
      PROVE  J[x] \in BlockIndexEntry
  <2>1. CASE x = h
    BY <1>2, <2>1
  <2>2. CASE x # h
    BY <1>2, <2>2 DEF IndexOK
  <2>3. QED
    BY <2>1, <2>2
<1>6. QED
  BY <1>1, <1>2, <1>3, <1>4, <1>5 DEF IndexOK

LEMMA InvInit == Init => Inv
<1>1. SUFFICES ASSUME Init PROVE Inv
  OBVIOUS
<1>2. DOMAIN <<>> = {}
  BY SMT
<1>3. IsFiniteSet({})
  BY FS_EmptySet
<1> DEFINE none == {}
<1>4. DOMAIN index = none /\ none \subseteq Hash /\ IsFiniteSet(none) /\ \A h \in none : FALSE
  BY <1>1, <1>2, <1>3 DEF Init
<1> HIDE DEF none
<1>5. IndexOK(index)
  BY <1>4 DEF IndexOK
<1>6. QED
  BY <1>1, <1>5 DEF Init, Inv

\* Every step keeps the invariant.  A report is made on what is held, and
\* everything that changes the plan or the index comes before it or drops it.
LEMMA InvNext == Inv /\ [Next]_vars => Inv'
<1>1. SUFFICES ASSUME Inv, [Next]_vars PROVE Inv'
  OBVIOUS
<1>2. ASSUME NEW h \in Hash, NEW entry \in Entries, Insert(h, entry)
      PROVE  Inv'
  <2>1. entry \in BlockIndexEntry
    BY EntriesAssumption
  <2>2. IndexOK(insert(index, h, entry))
    BY <1>1, <2>1, InsertKeeps DEF Inv
  <2>3. /\ genuine' = genuine /\ plan' = plan /\ report' = report /\ report = NoReport
        /\ index' = insert(index, h, entry) /\ late' = (plan # NoPlan)
    BY <1>2 DEF Insert
  <2>4. QED
    BY <1>1, <2>2, <2>3 DEF Inv
<1>3. ASSUME NEW old \in Hash, NEW new \in Hash, Plan(old, new)
      PROVE  Inv'
  <2>1. /\ genuine' = genuine /\ index' = index /\ late' = late /\ report' = report
        /\ plan = NoPlan /\ plan' = try_from_tips(index, old, new)
        /\ try_from_tips(index, old, new).err = ""
    BY <1>3 DEF Plan
  <2>2. IndexOK(index)
    BY <1>1 DEF Inv
  <2>3. PlanOK(plan')
    BY <2>1, <2>2, PlanTyped
  <2>4. QED
    BY <1>1, <2>1, <2>3 DEF Inv
<1>4. ASSUME NEW m \in Materials(genuine, plan), Report(m)
      PROVE  Inv'
  <2>1. /\ genuine' = genuine /\ index' = index /\ late' = late /\ plan' = plan
        /\ plan # NoPlan /\ report' = Remembered(m, run_report(genuine, m, plan, index))
    BY <1>4 DEF Report
  <2>2. Reported(genuine, plan, index, report')
    BY <2>1 DEF Reported
  <2>3. QED
    BY <1>1, <2>1, <2>2 DEF Inv
<1>5. CASE Drop
  BY <1>1, <1>5 DEF Drop, Inv
<1>6. CASE UNCHANGED vars
  BY <1>1, <1>6 DEF vars, Inv
<1>7. QED
  BY <1>1, <1>2, <1>3, <1>4, <1>5, <1>6 DEF Next

\* Whatever is inserted, the index is well formed and plans and reports are
\* what the code makes of it.
THEOREM ReorgInvariant == Spec => []Inv
BY InvInit, InvNext, PTL DEF Spec

\* The segments of a valid plan are linked to the fork and end in its tips.
ValidSegments(I, p) ==
  /\ Linked(I, p.fork_hash, p.apply_ordered) /\ Linked(I, p.fork_hash, OldSegment(p))
  /\ NewTip(p) = At(p.fork_hash, p.apply_ordered, Len(p.apply_ordered))
  /\ OldTip(p) = At(p.fork_hash, OldSegment(p), Len(OldSegment(p)))
  /\ p.fork_hash \notin PlanBlocks(p)

LEMMA ValidIsLinked ==
  ASSUME NEW I, IndexOK(I), NEW p, PlanOK(p), validate_against_index(I, p)
  PROVE  ValidSegments(I, p)
<1>1. PICK s, t, f : s = p.rollback_ordered /\ t = p.apply_ordered /\ f = p.fork_hash
  OBVIOUS
<1>2. s \in Seq(Hash) /\ t \in Seq(Hash) /\ f \in Hash
  BY <1>1 DEF PlanOK
<1>3. /\ HasAncestry(I, f) /\ f \notin Range(s \o t)
      /\ DescendsTo(I, s, f) /\ DescendsTo(I, Reverse(t), f)
  BY <1>1 DEF validate_against_index, HasAncestry
<1>4. Reverse(t) \in Seq(Hash) /\ Reverse(Reverse(t)) = t
  BY <1>2, Reversed
<1>5. Line(I, Append(s, f)) /\ Line(I, Append(Reverse(t), f))
  BY <1>2, <1>3, <1>4, DescentIsLine
<1>6. /\ Linked(I, f, Reverse(s))
      /\ At(f, Reverse(s), Len(Reverse(s))) = Append(s, f)[1]
  BY <1>2, <1>5, LineLinked
<1>7. /\ Linked(I, f, t)
      /\ At(f, t, Len(t)) = Append(Reverse(t), f)[1]
  BY <1>2, <1>4, <1>5, LineLinked
<1>8. OldTip(p) = Append(s, f)[1] /\ NewTip(p) = Append(Reverse(t), f)[1]
  BY <1>1, TipsOf
<1>9. QED
  BY <1>1, <1>3, <1>6, <1>7, <1>8 DEF ValidSegments, OldSegment, PlanBlocks

\* What Inv says of the report.
LEMMA InvReport ==
  ASSUME Inv, report # NoReport
  PROVE  /\ genuine \in Trees /\ IndexOK(index) /\ PlanOK(plan)
         /\ plan.fork_hash \in Hash /\ Segments(plan)
         /\ ReportOK(genuine, plan, index, report)
<1>1. /\ genuine \in Trees /\ IndexOK(index) /\ PlanOK(plan)
      /\ Reported(genuine, plan, index, report)
  BY DEF Inv
<1>2. plan.fork_hash \in Hash /\ Segments(plan)
  BY <1>1 DEF PlanOK, Segments
<1>3. QED
  BY <1>1, <1>2, ReportChecked

LEMMA NothingReported == ~(NoReport.replay = "Completed") /\ ~ReplayOk(NoReport)
BY DEF NoReport, ReplayOk

-----------------------------------------------------------------------------
(***************************************************************************)
(* The properties of Reorg, for any number of hashes, heights and lies.    *)
(***************************************************************************)

\* For every index a caller can fill, fork_slices_between_tips finds the deepest
\* common ancestor exactly when there is one under sound links, and its suffixes
\* are the rest of either ancestry.
THEOREM ForkDeepest == Spec => []ForkIsDeepestCommonAncestor
<1>1. Inv => ForkIsDeepestCommonAncestor
  <2>1. ASSUME Inv, NEW old \in Hash, NEW new \in Hash
        PROVE  ForkIsDeepest(index, old, new, fork_slices_between_tips(index, old, new))
    BY <2>1, SlicesAreDeepest DEF Inv
  <2>2. QED
    BY <2>1 DEF ForkIsDeepestCommonAncestor, ForkIsDeepest
<1>2. QED
  BY <1>1, ReorgInvariant, PTL

\* select_preferred_tip does not depend on the order of two candidates, and a
\* plan to the preferred one never rolls back more blocks than it applies.
THEOREM NoShortening == Spec => []SelectionNeverShortens
<1>1. Inv => SelectionNeverShortens
  <2>1. ASSUME Inv, NEW x \in DOMAIN index, NEW y \in DOMAIN index
        PROVE  NeverShortens(index, x, y)
    BY <2>1, SelectionRises DEF Inv
  <2>2. QED
    BY <2>1 DEF SelectionNeverShortens, NeverShortens, TipAt
<1>2. QED
  BY <1>1, ReorgInvariant, PTL

\* validate_against_index accepts a plan exactly when the index would still give
\* it for the same tips and its fork leads to a root without a parent.
THEOREM ValidCurrent == Spec => []ValidPlanIsCurrent
<1>1. Inv => ValidPlanIsCurrent
  <2>1. ASSUME Inv, plan # NoPlan
        PROVE  validate_against_index(index, plan) <=> IsCurrent(index, plan)
    <3>1. IndexOK(index) /\ PlanOK(plan)
      BY <2>1 DEF Inv
    <3>2. QED
      BY <3>1, ValidIsCurrent, CurrentIsValid
  <2>2. QED
    BY <2>1 DEF ValidPlanIsCurrent, IsCurrent, HasAncestry
<1>2. QED
  BY <1>1, ReorgInvariant, PTL

\* The state is well typed: a plan and a result name hashes, a replay that ran
\* ends with an outcome of the code, and a supply it reports fits in a u64.
THEOREM ReorgTypeCorrect == Spec => []TypeOK
<1>1. Inv => TypeOK
  <2>1. SUFFICES ASSUME Inv PROVE TypeOK
    OBVIOUS
  <2>2. /\ genuine \in Trees /\ late \in BOOLEAN /\ DOMAIN index \subseteq Hash
        /\ \A h \in DOMAIN index : index[h] \in BlockIndexEntry
    BY <2>1 DEF Inv, IndexOK
  <2>3. ASSUME plan # NoPlan
        PROVE  plan.fork_hash \in Hash /\ PlanBlocks(plan) \subseteq Hash
    <3>1. plan.fork_hash \in Hash /\ Segments(plan)
      BY <2>1, <2>3 DEF Inv, PlanOK, Segments
    <3>2. QED
      BY <3>1, PlanBlocksTyped
  <2>4. /\ report.replay = "Completed" => report.result.err \in Outcomes
        /\ ReplayOk(report) => report.result.ledger \in Ledgers /\ report.result.supply \in U64
    <3>1. CASE report = NoReport
      BY <3>1, NothingReported
    <3>2. CASE report # NoReport
      <4>1. ReportOK(genuine, plan, index, report)
        BY <2>1, <3>2, InvReport
      <4>2. ASSUME ReplayOk(report)
            PROVE  report.result.ledger \in Ledgers /\ report.result.supply \in U64
        <5>1. Succeeded(genuine, report.material, index, plan, report.result)
          BY <4>1, <4>2 DEF ReportOK
        <5>2. QED
          BY <5>1, ResultTyped
      <4>3. QED
        BY <4>1, <4>2 DEF ReportOK
    <3>3. QED
      BY <3>1, <3>2
  <2>5. QED
    BY <2>2, <2>3, <2>4 DEF TypeOK, PlanBlocks, Outcomes
<1>2. QED
  BY <1>1, ReorgInvariant, PTL

\* A replay that succeeds from the true ledger of a live fork block, of the
\* right height and with true parent headers, ends with the ledger of the live
\* chain to the new tip, whatever bodies and index say otherwise.
THEOREM ReplayAgrees == Spec => []ReplayAgreesWithLiveChain
<1>1. Inv => ReplayAgreesWithLiveChain
  <2>1. SUFFICES ASSUME Inv, ReplayOk(report), LiveChain(genuine, plan.fork_hash).ok,
                        report.material.state_at_fork = LiveChain(genuine, plan.fork_hash).ledger,
                        index[plan.fork_hash].height = genuine[plan.fork_hash].height,
                        TrueHeaders(genuine, report.material)
                 PROVE  /\ LiveChain(genuine, NewTip(plan)).ok
                        /\ report.result.ledger = LiveChain(genuine, NewTip(plan)).ledger
    BY DEF ReplayAgreesWithLiveChain, TrueHeaders
  <2>2. report # NoReport
    BY <2>1, NothingReported
  <2>3. /\ genuine \in Trees /\ IndexOK(index) /\ PlanOK(plan)
        /\ plan.fork_hash \in Hash /\ Segments(plan)
        /\ ReportOK(genuine, plan, index, report)
    BY <2>1, <2>2, InvReport
  <2>4. /\ validate_against_index(index, plan) /\ Typed(PlanBlocks(plan), report.material)
        /\ Succeeded(genuine, report.material, index, plan, report.result)
    BY <2>1, <2>3 DEF ReportOK
  <2>5. ValidSegments(index, plan)
    BY <2>3, <2>4, ValidIsLinked
  <2>6. Linked(index, plan.fork_hash, plan.apply_ordered) /\ plan.fork_hash \notin PlanBlocks(plan)
    BY <2>5 DEF ValidSegments
  <2>7. Follows(genuine, index, plan.fork_hash, report.material.state_at_fork)
    BY <2>1 DEF Follows
  <2>8. Follows(genuine, index, At(plan.fork_hash, plan.apply_ordered, Len(plan.apply_ordered)),
                report.result.ledger)
    BY <2>1, <2>3, <2>4, <2>6, <2>7, NewBranchLive
  <2>9. QED
    BY <2>5, <2>8 DEF ValidSegments, Follows
<1>2. QED
  BY <1>1, ReorgInvariant, PTL

\* A replay whose old branch ends with the true ledger of the live old tip has
\* started from the true ledger at the fork, but for accounts that hold nothing.
THEOREM WrongForkStateCaught == Spec => []WrongForkStateIsCaught
<1>1. Inv => WrongForkStateIsCaught
  <2>1. SUFFICES ASSUME Inv, ReplayOk(report), plan.rollback_ordered # <<>>,
                        LiveChain(genuine, OldTip(plan)).ok,
                        report.material.expected = {LiveChain(genuine, OldTip(plan)).ledger}
                 PROVE  WithEmptyAccounts(report.material.state_at_fork)
                          = WithEmptyAccounts(LiveChain(genuine, plan.fork_hash).ledger)
    BY DEF WrongForkStateIsCaught
  <2>2. report # NoReport
    BY <2>1, NothingReported
  <2>3. /\ genuine \in Trees /\ IndexOK(index) /\ PlanOK(plan)
        /\ plan.fork_hash \in Hash /\ Segments(plan)
        /\ ReportOK(genuine, plan, index, report)
    BY <2>1, <2>2, InvReport
  <2>4. /\ validate_against_index(index, plan)
        /\ Succeeded(genuine, report.material, index, plan, report.result)
    BY <2>1, <2>3 DEF ReportOK
  <2>5. ValidSegments(index, plan)
    BY <2>3, <2>4, ValidIsLinked
  <2>6. /\ Linked(index, plan.fork_hash, OldSegment(plan))
        /\ OldTip(plan) = At(plan.fork_hash, OldSegment(plan), Len(OldSegment(plan)))
    BY <2>5 DEF ValidSegments
  <2>7. Alike(report.material.state_at_fork, LiveChain(genuine, plan.fork_hash).ledger)
    BY <2>1, <2>3, <2>4, <2>6, OldBranchChecked
  <2>8. QED
    BY <2>7, AlikeFilled
<1>2. QED
  BY <1>1, ReorgInvariant, PTL

=============================================================================
