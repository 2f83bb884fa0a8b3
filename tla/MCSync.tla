------------------------------- MODULE MCSync -------------------------------
(***************************************************************************)
(* Two nodes, as follower and producer or as mutual peers.                 *)
(***************************************************************************)
EXTENDS Sync, TLC

CONSTANTS a, b, g1, g2

Ext == INSTANCE SequencesExt

MCListed(S) == Ext!SetToSeq(S)

Net(of_a, of_b, genesis_of_b, S, height, n) ==
  [peers |-> (a :> of_a @@ b :> of_b), genesis |-> (a :> g1 @@ b :> genesis_of_b),
   sealers |-> S, max_height |-> height, max_faults |-> n]

\* One follows the other, on the same or on another genesis; one only pushes; or
\* both follow each other.
MCNetworks ==
  {Net({}, {a}, g1, {a}, 3, 2), Net({}, {a}, g1, {a, b}, 2, 1), Net({}, {a}, g2, {a, b}, 2, 1),
   Net({b}, {}, g1, {a}, 2, 2),
   Net({b}, {a}, g1, {a}, 1, 0), Net({b}, {a}, g2, {a, b}, 2, 1)}

=============================================================================
