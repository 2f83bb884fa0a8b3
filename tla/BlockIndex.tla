----------------------------- MODULE BlockIndex -----------------------------
(***************************************************************************)
(* The in-memory header index of V3 (node/src/v3/block_index.rs): block    *)
(* hash -> parent hash and height, walks toward the root, and the fork     *)
(* between two tips.                                                       *)
(*                                                                         *)
(* Hashes are positive numbers, whose order is the order of the hash       *)
(* strings; 0 is the empty string.  An index is a function on the hashes   *)
(* it holds.  Nothing guards insert: any entry may be stored, and stored   *)
(* over another one, so an index may have gaps, cycles and wrong heights.  *)
(* An operation returns a record whose field err is "" or the error.       *)
(***************************************************************************)
EXTENDS Integers, FiniteSets, Chains, Functions

CONSTANTS
  Hash,         \* the block hashes
  RootLink,     \* Block::genesis().previous_hash: not empty, no block's hash
  MaxHeight     \* the largest height (u64::MAX, scaled)

EmptyHash == 0

Heights == 0 .. MaxHeight

BlockIndexEntry ==
  [parent_hash : Hash \cup {EmptyHash, RootLink}, height : Heights]

ASSUME HashAssumption == Hash \subseteq Nat \ {EmptyHash}
ASSUME RootLinkAssumption == RootLink \notin Hash \cup {EmptyHash}
ASSUME HeightAssumption == MaxHeight \in Nat

insert(index, hash, entry) ==
  [h \in DOMAIN index \cup {hash} |-> IF h = hash THEN entry ELSE index[h]]

Known(index, hash) == hash \in DOMAIN index

-----------------------------------------------------------------------------
(***************************************************************************)
(* validated_parent_hash: what is wrong with the link from a known block   *)
(* to its parent, in the order the code looks.                             *)
(***************************************************************************)

\* Mutant of LinkError: the heights of child and parent are not compared.
LinkErrorNoHeights(index, block) ==
  LET parent == index[block].parent_hash
  IN  IF parent = block THEN "Cycle"
      ELSE IF ~Known(index, parent) THEN "MissingParentLink"
      ELSE ""

LinkError(index, block) ==
  LET parent == index[block].parent_hash
  IN  IF parent = block THEN "Cycle"
      ELSE IF ~Known(index, parent) THEN "MissingParentLink"
      ELSE IF index[parent].height + 1 \notin Heights THEN "MalformedAncestry"
      ELSE IF index[parent].height + 1 # index[block].height THEN "MalformedAncestry"
      ELSE ""

(***************************************************************************)
(* The loop path_from_tip_toward_genesis and fork_slices_between_tips have *)
(* in common: from tip along validated links until a block of the set stop *)
(* or of height 0, for at most len + 2 iterations.  path holds the blocks  *)
(* visited and then the current one; err is "walking" until the loop ends. *)
(***************************************************************************)
WalkStep(index, stop, w) ==
  LET cur == Last(w.path)
      Ends(err) == [w EXCEPT !.err = err]
  IN  IF w.err # "walking" THEN w
      ELSE IF cur \in Range(Front(w.path)) THEN Ends("Cycle")
      ELSE IF cur \in stop THEN Ends("")
      ELSE IF ~Known(index, cur) THEN Ends("UnknownBlock")
      ELSE IF index[cur].height = 0 THEN Ends("")
      ELSE IF LinkError(index, cur) # "" THEN Ends(LinkError(index, cur))
      ELSE [w EXCEPT !.path = Append(@, index[cur].parent_hash)]

Walk(index, tip, stop) ==
  LET limit == Cardinality(DOMAIN index) + 2
      walk[n \in 0 .. limit] ==
        IF n = 0 THEN [err |-> "walking", path |-> <<tip>>]
        ELSE WalkStep(index, stop, walk[n - 1])
  IN  IF walk[limit].err = "walking" THEN [walk[limit] EXCEPT !.err = "Cycle"]
      ELSE walk[limit]

path_from_tip_toward_genesis(index, tip) == Walk(index, tip, {})

Slices(err, fork, old, new) ==
  [err |-> err, fork_hash |-> fork, old_suffix |-> old, new_suffix |-> new]

\* The old branch to its root, the new one down to it, and the old one again down
\* to the fork.  A walk that ends at height 0 has met no fork.
fork_slices_between_tips(index, old_tip, new_tip) ==
  LET old == path_from_tip_toward_genesis(index, old_tip)
      new == Walk(index, new_tip, Range(old.path))
      fork == Last(new.path)
      back == Walk(index, old_tip, {fork})
      Err(e) == Slices(e, EmptyHash, <<>>, <<>>)
  IN  IF old.err # "" THEN Err(old.err)
      ELSE IF new.err # "" THEN Err(new.err)
      ELSE IF fork \notin Range(old.path) THEN Err("NoCommonAncestor")
      ELSE IF back.err # "" THEN Err(back.err)
      ELSE IF Last(back.path) # fork THEN Err("NoCommonAncestor")
      ELSE Slices("", fork, Front(back.path), Front(new.path))

\* validate_block_ancestry: the walk reaches a root, and that has no parent.
AncestryError(index, block) ==
  LET walk == path_from_tip_toward_genesis(index, block)
  IN  IF walk.err # "" THEN walk.err
      ELSE IF index[Last(walk.path)].parent_hash # EmptyHash THEN "MalformedAncestry"
      ELSE ""

-----------------------------------------------------------------------------
(***************************************************************************)
(* Reference: ancestors as the reflexive transitive closure of the sound   *)
(* links.                                                                  *)
(***************************************************************************)
SoundParent(index, h) ==
  {p \in DOMAIN index :
     /\ h \in DOMAIN index
     /\ index[h].height > 0
     /\ index[h].parent_hash = p
     /\ index[p].height + 1 = index[h].height}

\* All blocks reached from h by at most n sound links.
Ancestors(index, h) ==
  LET closure[n \in 0 .. MaxHeight] ==
        IF n = 0 THEN {h} \cap DOMAIN index
        ELSE closure[n - 1] \cup UNION {SoundParent(index, x) : x \in closure[n - 1]}
  IN  closure[MaxHeight]

Rooted(index, h) == \E r \in Ancestors(index, h) : index[r].height = 0

=============================================================================
