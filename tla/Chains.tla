------------------------------- MODULE Chains -------------------------------
(***************************************************************************)
(* Sequences of blocks: the last one, all but the last one, prefixes, and  *)
(* the reverse.  (The definitions of SequencesExt, without the rest of     *)
(* that module, so that the proofs carry only these four.)                 *)
(***************************************************************************)
EXTENDS Naturals, Sequences

Last(c) == c[Len(c)]

Front(c) == SubSeq(c, 1, Len(c) - 1)

IsPrefix(c, d) == Len(c) <= Len(d) /\ SubSeq(d, 1, Len(c)) = c

Reverse(c) == [i \in 1 .. Len(c) |-> c[Len(c) - i + 1]]

=============================================================================
