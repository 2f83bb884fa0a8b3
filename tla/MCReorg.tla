------------------------------ MODULE MCReorg ------------------------------
(***************************************************************************)
(* A small instance of Reorg: the genesis block 1, its children 2 and 3,   *)
(* and 4, a child of 2.                                                    *)
(***************************************************************************)
EXTENDS Reorg

CONSTANTS alice, bob, carol

MCGenesis ==
  [a \in Addr |-> CASE a = alice -> [balance |-> 3, nonce |-> 0]
                    [] a = bob   -> [balance |-> 2, nonce |-> 0]
                    [] OTHER     -> NoAccount]

Tr(receiver, amount, nonce) ==
  [sender |-> alice, receiver |-> receiver, amount |-> amount, fee |-> 0,
   nonce |-> nonce, authentic |-> TRUE]

ToCarol == Tr(carol, 1, 0)
ToBob == Tr(bob, 1, 0)
Later == Tr(carol, 1, 1)
TooMuch == Tr(bob, 4, 0)

MCTx == {ToCarol, ToBob, Later, TooMuch}

Blk(hash, height, prev, ts, txs) ==
  [hash |-> hash, height |-> height, prev |-> prev, ts |-> ts, txs |-> txs]

Tree(four_ts, three_txs) ==
  [h \in Hash |-> CASE h = 1 -> Blk(1, 0, RootLink, 0, <<>>)
                    [] h = 2 -> Blk(2, 1, 1, 1, <<ToCarol>>)
                    [] h = 3 -> Blk(3, 1, 1, 1, three_txs)
                    [] h = 4 -> Blk(4, 2, 2, four_ts, <<Later>>)]

\* Every block is acceptable, or 3 overspends and 4 is older than its parent.
MCTrees == {Tree(2, <<ToBob>>), Tree(0, <<TooMuch>>)}

\* Parents at any height above the root; at height 0, no parent, one that the
\* index knows, and the link of Block::genesis.
MCEntries ==
  [parent_hash : {EmptyHash, 1, 2, 3}, height : Heights \ {0}]
    \cup [parent_hash : {EmptyHash, 1, RootLink}, height : {0}]

=============================================================================
