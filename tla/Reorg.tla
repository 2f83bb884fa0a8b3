-------------------------------- MODULE Reorg --------------------------------
(***************************************************************************)
(* Reorg planning of V3: branch_select.rs, reorg_plan.rs,                  *)
(* reorg_preflight.rs and replay_sandbox.rs, over a block index.  The live *)
(* node calls none of it; a caller fills an index, makes a plan, and later *)
(* asks for a report on that plan, when the index may have changed.        *)
(*                                                                         *)
(* A block hash commits to one block: genuine[h] is the block with hash h. *)
(* A block record of the caller may declare a hash that is not its own.    *)
(* Operators that recompute a hash take those blocks as tree.              *)
(***************************************************************************)
EXTENDS BlockIndex, Ledger

CONSTANTS
  Trees,           \* possible values of genuine: [Hash -> Block]
  Entries,         \* bound: the entries a caller inserts
  GenesisHash,     \* the hash of the genesis block
  MaxReorgDepth,   \* ReorgPreflightPolicy::max_reorg_depth
  MaxLies,         \* bound: wrong entries in an index that is planned on
  MaxTs            \* bound: the largest block timestamp

Block ==
  [hash : Hash, height : Heights, prev : Hash \cup {RootLink}, ts : 0 .. MaxTs,
   txs : Seq(Tx)]

ASSUME TreesAssumption ==
  \A tree \in Trees :
    /\ \A h \in Hash : tree[h] \in Block /\ tree[h].hash = h
    /\ tree[GenesisHash].height = 0 /\ tree[GenesisHash].prev = RootLink
ASSUME EntriesAssumption == Entries \subseteq BlockIndexEntry
ASSUME RootAssumption == GenesisHash \in Hash
ASSUME ReorgBoundsAssumption == {MaxReorgDepth, MaxLies, MaxTs} \subseteq Nat

VARIABLES
  genuine,   \* the block every hash commits to (fixed)
  index,     \* BlockIndex
  plan,      \* the ReorgPlan the caller holds, or NoPlan
  late,      \* the index changed after the plan was made
  report     \* the last ReplaySandboxReport with its material, or NoReport

vars == <<genuine, index, plan, late, report>>

NoPlan == [err |-> "none"]
NoReport == [replay |-> "none"]

-----------------------------------------------------------------------------
(***************************************************************************)
(* branch_select.rs: height first, then the larger hash.                   *)
(***************************************************************************)
\* Mutant of compare_tips_for_selection: only the heights are compared.
CompareHeights(a, b) == a.height > b.height

\* a is preferred over b.
compare_tips_for_selection(a, b) ==
  \/ a.height > b.height
  \/ a.height = b.height /\ a.block_hash > b.block_hash

\* max_by_key keeps the later one of two equal maxima.
select_preferred_tip(tips) ==
  LET best[n \in 1 .. Len(tips)] ==
        IF n = 1 \/ ~compare_tips_for_selection(best[n - 1], tips[n]) THEN tips[n]
        ELSE best[n - 1]
  IN  best[Len(tips)]

-----------------------------------------------------------------------------
(***************************************************************************)
(* reorg_plan.rs                                                           *)
(***************************************************************************)
from_fork_slices(slices) ==
  [err |-> "", fork_hash |-> slices.fork_hash,
   rollback_ordered |-> slices.old_suffix,
   apply_ordered |-> Reverse(slices.new_suffix)]

try_from_tips(idx, old_tip, new_tip) ==
  LET slices == fork_slices_between_tips(idx, old_tip, new_tip)
  IN  IF slices.err # "" THEN [err |-> slices.err] ELSE from_fork_slices(slices)

is_noop(p) == p.rollback_ordered = <<>> /\ p.apply_ordered = <<>>

\* Every block of path has an ancestry, and its parent is the next one; the
\* parent of the last one is the fork.
DescendsTo(idx, path, fork) ==
  \A i \in DOMAIN path :
    /\ AncestryError(idx, path[i]) = ""
    /\ idx[path[i]].parent_hash = IF i < Len(path) THEN path[i + 1] ELSE fork

\* Mutant of validate_against_index: the segments are checked, not their links.
ValidWithoutLinks(idx, p) ==
  /\ AncestryError(idx, p.fork_hash) = ""
  /\ IsInjective(p.rollback_ordered \o p.apply_ordered)
  /\ \A h \in Range(p.rollback_ordered \o p.apply_ordered) :
       h # p.fork_hash /\ AncestryError(idx, h) = ""

\* validate_against_index is Ok: no duplicates in or across the segments, the
\* fork in neither, and both segments descend to it.
validate_against_index(idx, p) ==
  /\ AncestryError(idx, p.fork_hash) = ""
  /\ IsInjective(p.rollback_ordered \o p.apply_ordered)
  /\ p.fork_hash \notin Range(p.rollback_ordered \o p.apply_ordered)
  /\ DescendsTo(idx, p.rollback_ordered, p.fork_hash)
  /\ DescendsTo(idx, Reverse(p.apply_ordered), p.fork_hash)

-----------------------------------------------------------------------------
(***************************************************************************)
(* reorg_preflight.rs                                                      *)
(***************************************************************************)
check_policy(rollback_depth) == rollback_depth <= MaxReorgDepth

evaluate(p, idx) ==
  IF ~validate_against_index(idx, p) THEN [policy |-> "NotEvaluated", verdict |-> "Rejected"]
  ELSE IF is_noop(p) THEN [policy |-> "Ok", verdict |-> "NoOp"]
  ELSE IF check_policy(Len(p.rollback_ordered))
  THEN [policy |-> "Ok", verdict |-> "Acceptable"]
  ELSE [policy |-> "Failed", verdict |-> "Rejected"]

-----------------------------------------------------------------------------
(***************************************************************************)
(* replay_sandbox.rs.  A material is [state_at_fork, blocks, expected,     *)
(* parents]: blocks and parents are functions on the hashes they are keyed *)
(* by, expected is {} or the set of the one ledger expected at the old tip. *)
(* Fingerprints are the ledgers themselves: their preimage is injective.   *)
(***************************************************************************)
ReplaySandboxReplayError ==
  { "MissingExpectedOldTipState", "MissingBlockBody", "IndexLinkMismatch", "OldTipStateMismatch",
    "BasicValidation", "StateTransition", "SupplyAudit", "MissingParentBlock",
    "TimestampPolicy" }

\* Mutant of validate_block_against_index: the parent is not compared.
LinkMatchesHeightOnly(idx, b, h) ==
  b.hash = h /\ Known(idx, h) /\ b.height = idx[h].height

validate_block_against_index(idx, b, h) ==
  /\ b.hash = h
  /\ Known(idx, h)
  /\ b.height = idx[h].height
  /\ b.prev = idx[h].parent_hash

\* Parent headers first, then the bodies; {} when neither has it.
resolve_parent_block(m, key) ==
  IF key \in DOMAIN m.parents THEN {m.parents[key]}
  ELSE IF key \in DOMAIN m.blocks THEN {m.blocks[key]}
  ELSE {}

\* The minimum interval is 0, so the sum of the code cannot overflow.
TimestampError(m, b) ==
  LET parent == resolve_parent_block(m, b.prev)
  IN  IF b.height = 0 THEN ""
      ELSE IF parent = {} THEN "MissingParentBlock"
      ELSE IF \E p \in parent : p.hash # b.prev THEN "IndexLinkMismatch"
      ELSE IF \E p \in parent : b.ts < p.ts THEN "TimestampPolicy"
      ELSE ""

\* Block::basic_validate: distinct valid transfers, and the declared hash is
\* the one the block really has.
BlockIsValid(tree, b) ==
  /\ IsInjective(b.txs)
  /\ \A i \in DOMAIN b.txs : basic_validate(b.txs[i])
  /\ b = tree[b.hash]

\* acc is [err, ledger]; nothing happens after an error.
apply_block_to_state(tree, m, idx, acc, h) ==
  LET b == m.blocks[h]
      applied == ApplyAll(acc.ledger, b.txs)
      Err(e) == [acc EXCEPT !.err = e]
  IN  IF acc.err # "" THEN acc
      ELSE IF ~validate_block_against_index(idx, b, h) THEN Err("IndexLinkMismatch")
      ELSE IF TimestampError(m, b) # "" THEN Err(TimestampError(m, b))
      ELSE IF ~BlockIsValid(tree, b) THEN Err("BasicValidation")
      ELSE IF ~applied.ok THEN Err("StateTransition")
      ELSE [err |-> "", ledger |-> applied.ledger]

ReplayBlocks(tree, m, idx, hashes) ==
  LET run[n \in 0 .. Len(hashes)] ==
        IF n = 0 THEN [err |-> "", ledger |-> m.state_at_fork]
        ELSE apply_block_to_state(tree, m, idx, run[n - 1], hashes[n])
  IN  run[Len(hashes)]

\* Mutant of SupplyOverflows: balances are summed without a check.
SupplyUnaudited(st) == FALSE

SupplyOverflows(st) == total_balance_sum(st) \notin U64

\* Mutant of OldTipMismatch: the old branch is replayed, its result not compared.
OldTipUnchecked(m, p, old) == FALSE

OldTipMismatch(m, p, old) == p.rollback_ordered # <<>> /\ m.expected # {old.ledger}

\* [err, ledger, supply]: the ledger after the new branch, on clones only.
run_replay_on_clones(tree, m, p, idx) ==
  LET old == ReplayBlocks(tree, m, idx, Reverse(p.rollback_ordered))
      new == ReplayBlocks(tree, m, idx, p.apply_ordered)
      Err(e) == [err |-> e]
  IN  IF p.rollback_ordered # <<>> /\ m.expected = {} THEN Err("MissingExpectedOldTipState")
      ELSE IF ~(Range(p.rollback_ordered \o p.apply_ordered) \subseteq DOMAIN m.blocks)
      THEN Err("MissingBlockBody")
      ELSE IF old.err # "" THEN Err(old.err)
      ELSE IF OldTipMismatch(m, p, old) THEN Err("OldTipStateMismatch")
      ELSE IF new.err # "" THEN Err(new.err)
      ELSE IF SupplyOverflows(new.ledger) THEN Err("SupplyAudit")
      ELSE [err |-> "", ledger |-> new.ledger, supply |-> total_balance_sum(new.ledger)]

\* The material is not touched unless the preflight lets the plan through.
run_report(tree, m, p, idx) ==
  IF ~validate_against_index(idx, p) THEN [replay |-> "SkippedDueToStructuralInvalid"]
  ELSE IF evaluate(p, idx).verdict = "Rejected" THEN [replay |-> "SkippedDueToPolicy"]
  ELSE [replay |-> "Completed", result |-> run_replay_on_clones(tree, m, p, idx)]

ReplayOk(r) == r.replay = "Completed" /\ r.result.err = ""

-----------------------------------------------------------------------------
(***************************************************************************)
(* Reference: the live chain that ends in block h, if append_block accepts *)
(* every block of it in turn: [ok, ledger].                                *)
(***************************************************************************)
LiveChain(tree, h) ==
  LET Appended(b, parent) ==
        LET applied == ApplyAll(parent.ledger, b.txs)
        IN  [ok |-> /\ parent.ok
                    /\ b.height = tree[b.prev].height + 1
                    /\ BlockIsValid(tree, b)
                    /\ b.ts >= tree[b.prev].ts
                    /\ applied.ok,
             ledger |-> applied.ledger]
      live[n \in Heights] ==
        [x \in Hash |->
           IF x = GenesisHash THEN [ok |-> TRUE, ledger |-> Genesis]
           ELSE IF n = 0 \/ tree[x].prev \notin Hash THEN [ok |-> FALSE, ledger |-> Genesis]
           ELSE Appended(tree[x], live[n - 1][tree[x].prev])]
  IN  live[tree[h].height][h]

-----------------------------------------------------------------------------
(***************************************************************************)
(* A caller of the library.                                                *)
(***************************************************************************)
\* What an index that copies blocks faithfully holds for h; the root must be
\* stored without the link Block::genesis carries.
FaithfulEntry(h) ==
  [parent_hash |-> IF h = GenesisHash THEN EmptyHash ELSE genuine[h].prev,
   height |-> genuine[h].height]

Lies == {h \in DOMAIN index : index[h] # FaithfulEntry(h)}

\* The material a careful caller supplies for p.
FaithfulMaterial(tree, p) ==
  LET Bodies(S) == [h \in S |-> tree[h]]
  IN  [state_at_fork |-> LiveChain(tree, p.fork_hash).ledger,
       blocks |-> Bodies(Range(p.rollback_ordered \o p.apply_ordered)),
       expected |-> IF p.rollback_ordered = <<>> THEN {}
                    ELSE {LiveChain(tree, Head(p.rollback_ordered)).ledger},
       parents |-> Bodies({p.fork_hash})]

EmptyAccount == [balance |-> 0, nonce |-> 0]

\* A ledger up to accounts that hold nothing and never sent.
WithEmptyAccounts(st) == [a \in Addr |-> IF st[a] = NoAccount THEN EmptyAccount ELSE st[a]]

\* Ledgers a caller may confuse with the right one, and one that is too rich.
SomeLedgers(tree) ==
  {LiveChain(tree, h).ledger : h \in Hash}
    \cup {WithEmptyAccounts(Genesis), [a \in Addr |-> [balance |-> MaxU64, nonce |-> 0]]}

WithLedgers(m, st, ex) == [m EXCEPT !.state_at_fork = st, !.expected = ex]

\* Bound: a material m with wrong ledgers,
OtherLedgers(tree, m) ==
  {WithLedgers(m, st, ex) :
     st \in SomeLedgers(tree), ex \in {{}} \cup {{l} : l \in SomeLedgers(tree)}}

\* or with one body missing, altered or wrong,
OtherBodies(tree, m) ==
  LET Without(h) == [x \in DOMAIN m.blocks \ {h} |-> m.blocks[x]]
  IN  {[m EXCEPT !.blocks = Without(h)] : h \in DOMAIN m.blocks}
      \cup {[m EXCEPT !.blocks[h].ts = ts] : h \in DOMAIN m.blocks, ts \in 0 .. MaxTs}
      \cup {[m EXCEPT !.blocks[h] = tree[x]] : h \in DOMAIN m.blocks, x \in Hash}

\* or without the right header of the fork.
OtherHeaders(tree, m, fork) ==
  {[m EXCEPT !.parents = <<>>]}
    \cup {[m EXCEPT !.parents[fork] = tree[x]] : x \in Hash}
    \cup {[m EXCEPT !.parents[fork].ts = ts] : ts \in 0 .. MaxTs}

Materials(tree, p) ==
  LET m == FaithfulMaterial(tree, p)
  IN  OtherLedgers(tree, m) \cup OtherBodies(tree, m) \cup OtherHeaders(tree, m, p.fork_hash)

Init ==
  /\ genuine \in Trees
  /\ index = <<>>
  /\ plan = NoPlan
  /\ late = FALSE
  /\ report = NoReport

\* Before a plan, or once while it is held.
Insert(h, entry) ==
  /\ report = NoReport
  /\ ~late
  /\ index' = insert(index, h, entry)
  /\ late' = (plan # NoPlan)
  /\ UNCHANGED <<genuine, plan, report>>

Plan(old_tip, new_tip) ==
  /\ plan = NoPlan
  /\ Cardinality(Lies) <= MaxLies
  /\ try_from_tips(index, old_tip, new_tip).err = ""
  /\ plan' = try_from_tips(index, old_tip, new_tip)
  /\ UNCHANGED <<genuine, index, late, report>>

\* The material is remembered with a replay that succeeds.
Remembered(m, r) ==
  IF ReplayOk(r) THEN [replay |-> r.replay, result |-> r.result, material |-> m] ELSE r

Report(m) ==
  /\ plan # NoPlan
  /\ report = NoReport
  /\ report' = Remembered(m, run_report(genuine, m, plan, index))
  /\ UNCHANGED <<genuine, index, plan, late>>

\* The caller drops the plan and what was reported on it.
Drop ==
  /\ plan # NoPlan
  /\ plan' = NoPlan
  /\ late' = FALSE
  /\ report' = NoReport
  /\ UNCHANGED <<genuine, index>>

Next ==
  \/ \E h \in Hash, entry \in Entries : Insert(h, entry)
  \/ \E old_tip, new_tip \in Hash : Plan(old_tip, new_tip)
  \/ plan # NoPlan /\ \E m \in Materials(genuine, plan) : Report(m)
  \/ Drop

Spec == Init /\ [][Next]_vars

-----------------------------------------------------------------------------
(***************************************************************************)
(* Properties.                                                             *)
(***************************************************************************)
OldTip(p) == Head(Append(p.rollback_ordered, p.fork_hash))

NewTip(p) == Last(<<p.fork_hash>> \o p.apply_ordered)

\* The state is well typed; in particular a completed replay reports a supply
\* that fits in a u64 (ReplaySandboxReplayOk::final_supply_total).
TypeOK ==
  /\ genuine \in Trees
  /\ DOMAIN index \subseteq Hash
  /\ \A h \in DOMAIN index : index[h] \in BlockIndexEntry
  /\ plan # NoPlan =>
       /\ plan.fork_hash \in Hash
       /\ Range(plan.rollback_ordered \o plan.apply_ordered) \subseteq Hash
  /\ late \in BOOLEAN
  /\ report.replay = "Completed" => report.result.err \in ReplaySandboxReplayError \cup {""}
  /\ ReplayOk(report) =>
       /\ report.result.ledger \in Ledgers
       /\ report.result.supply \in U64

\* fork_slices_between_tips answers with the deepest common ancestor exactly
\* when the two tips have one under sound links, whatever was inserted: the
\* suffixes are the rest of either ancestry, and NoCommonAncestor is said only
\* of two rooted branches that do not meet.
ForkIsDeepestCommonAncestor ==
  plan = NoPlan =>
    \A old, new \in Hash :
      LET s == fork_slices_between_tips(index, old, new)
          A == Ancestors(index, old)
          B == Ancestors(index, new)
      IN  /\ s.err = "" <=> Rooted(index, old) /\ A \cap B # {}
          /\ s.err = "NoCommonAncestor" <=>
               Rooted(index, old) /\ Rooted(index, new) /\ A \cap B = {}
          /\ s.err = "" =>
               /\ A \cap B = Ancestors(index, s.fork_hash)
               /\ Range(s.old_suffix) = A \ B
               /\ Range(s.new_suffix) = B \ A

\* select_preferred_tip gives the same tip for either order of its candidates,
\* and moving to it from the other one never gives up more blocks than it adds.
SelectionNeverShortens ==
  plan = NoPlan =>
    \A x, y \in DOMAIN index :
      LET Tip(h) == [height |-> index[h].height, block_hash |-> h]
          chosen == select_preferred_tip(<<Tip(x), Tip(y)>>)
          p == try_from_tips(index, IF chosen = Tip(x) THEN y ELSE x, chosen.block_hash)
      IN  /\ chosen = select_preferred_tip(<<Tip(y), Tip(x)>>)
          /\ p.err = "" => Len(p.rollback_ordered) <= Len(p.apply_ordered)

\* A plan passes validate_against_index exactly when the index as it is now
\* would give the same plan for the same tips, on a root without a parent: a
\* plan that went stale is refused.
ValidPlanIsCurrent ==
  plan # NoPlan =>
    (validate_against_index(index, plan) <=>
       /\ plan = try_from_tips(index, OldTip(plan), NewTip(plan))
       /\ AncestryError(index, plan.fork_hash) = "")

\* A replay that starts from the true ledger of a live fork block, whose height
\* the index has right, and sees true parent headers is Ok only if the live node
\* would accept the new branch, and it ends with the ledger the live node would
\* have.  The bodies and the rest of the index may be wrong.
ReplayAgreesWithLiveChain ==
  LET fork == LiveChain(genuine, plan.fork_hash)
      tip == LiveChain(genuine, NewTip(plan))
      m == report.material
  IN  /\ ReplayOk(report)
      /\ fork.ok /\ m.state_at_fork = fork.ledger
      /\ index[plan.fork_hash].height = genuine[plan.fork_hash].height
      /\ \A h \in DOMAIN m.parents : m.parents[h] = genuine[m.parents[h].hash]
      => tip.ok /\ report.result.ledger = tip.ledger

\* A wrong ledger at the fork does not pass the check of the old branch against
\* the true ledger at the old tip, but for accounts that hold nothing: a credit
\* makes a missing account and an empty one the same.
WrongForkStateIsCaught ==
  LET m == report.material
  IN  /\ ReplayOk(report)
      /\ plan.rollback_ordered # <<>>
      /\ LiveChain(genuine, OldTip(plan)).ok
      /\ m.expected = {LiveChain(genuine, OldTip(plan)).ledger}
      => WithEmptyAccounts(m.state_at_fork)
           = WithEmptyAccounts(LiveChain(genuine, plan.fork_hash).ledger)

=============================================================================
