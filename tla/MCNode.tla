------------------------------- MODULE MCNode -------------------------------
(***************************************************************************)
(* Small instances of Node.  Amounts are scaled to MaxU64 = 3, so that two *)
(* genesis balances together exceed it.                                    *)
(***************************************************************************)
EXTENDS Node

CONSTANTS alice, bob, carol

Tr(s, r, amount, fee, nonce) ==
  [sender |-> s, receiver |-> r, amount |-> amount, fee |-> fee,
   nonce |-> nonce, authentic |-> TRUE]

MCGenesis ==
  [a \in Addr |-> CASE a = alice -> [balance |-> 3, nonce |-> 0]
                    [] a = bob   -> [balance |-> 2, nonce |-> 0]
                    [] OTHER     -> NoAccount]

CreatesCarol == Tr(alice, carol, 1, 1, 0)
OverflowsBob == Tr(alice, bob, 2, 0, 0)
ToSelf       == Tr(alice, alice, 1, 0, 1)
FromCarol    == Tr(carol, bob, 1, 0, 0)
Unsigned     == [ToSelf EXCEPT !.authentic = FALSE]

MCTx == {CreatesCarol, OverflowsBob, ToSelf, FromCarol, Unsigned}

\* For liveness: every transfer alice may queue can be paid for in any order.  Two
\* have nonce 1, and those with nonces 1 and 2 fill a pool of 2.
MCFundedTx ==
  {Tr(alice, carol, 1, 0, 0), Tr(alice, carol, 1, 0, 1), ToSelf,
   Tr(alice, alice, 1, 0, 2)}

\* The transfer at nonce 1 cannot be paid for after the one at nonce 0.
MCOverspendingTx ==
  {Tr(alice, carol, 2, 0, 0), Tr(alice, carol, 2, 0, 1)}

=============================================================================
