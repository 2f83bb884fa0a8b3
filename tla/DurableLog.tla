----------------------------- MODULE DurableLog -----------------------------
(***************************************************************************)
(* What the block store promises the rest of the node: a log of blocks     *)
(* that only grows, and a process whose chain, whenever it serves one, is  *)
(* that log or an extension of it.                                         *)
(***************************************************************************)
EXTENDS Chains

CONSTANT Block    \* the blocks

VARIABLES
  log,      \* the blocks whose append was acknowledged
  serving,  \* is a process serving the log?
  view      \* the chain it serves; empty when there is none

vars == <<log, serving, view>>

Init ==
  /\ log \in Seq(Block)
  /\ serving = FALSE
  /\ view = <<>>

\* An append is acknowledged: one more block, in the log and in the view.
Acknowledge ==
  /\ serving
  /\ view' \in Seq(Block)
  /\ Len(view') = Len(view) + 1
  /\ IsPrefix(view, view')
  /\ log' = view'
  /\ UNCHANGED serving

\* A process starts serving.  It may find blocks that were written but never
\* acknowledged; it never finds fewer than were acknowledged.
Recover ==
  /\ ~serving
  /\ serving' = TRUE
  /\ view' \in Seq(Block)
  /\ IsPrefix(log, view')
  /\ UNCHANGED log

Stop ==
  /\ serving
  /\ serving' = FALSE
  /\ view' = <<>>
  /\ UNCHANGED log

Next == Acknowledge \/ Recover \/ Stop

Spec == Init /\ [][Next]_vars

=============================================================================
