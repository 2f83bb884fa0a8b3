------------------------------ MODULE PeerBook ------------------------------
(***************************************************************************)
(* The peer book (node/src/peer_book.rs): per address a streak of failed   *)
(* syncs and when the last one was.                                        *)
(*                                                                         *)
(* A book is a function on the addresses it holds.  An entry keeps the     *)
(* time since the last failure instead of the two clock readings that are  *)
(* subtracted; it is negative after the clock was set back.  last_ok_unix  *)
(* is written and never read.                                              *)
(***************************************************************************)
EXTENDS Integers, Chains, Functions

CONSTANTS
  CooldownThreshold,   \* FAIL_STREAK_COOLDOWN_THRESHOLD
  CooldownBase,        \* COOLDOWN_BASE_SECS, in ticks
  CooldownMaxFactor,   \* the largest multiple of it (8)
  MaxU32,              \* the largest fail_streak
  Listed(_)            \* a set of addresses in the order in which they are kept

ASSUME CooldownAssumption ==
  {CooldownThreshold, CooldownBase, CooldownMaxFactor, MaxU32} \subseteq Nat \ {0}

AtMost(x, y) == IF x <= y THEN x ELSE y

\* The items of s that are in S, in their order.
Kept(s, S) ==
  LET kept[i \in 0 .. Len(s)] ==
        IF i = 0 THEN <<>>
        ELSE IF s[i] \in S THEN Append(kept[i - 1], s[i]) ELSE kept[i - 1]
  IN  kept[Len(s)]

LongAgo == CooldownBase * CooldownMaxFactor

\* An age counts up to the longest cooldown: beyond it is_available does not tell
\* the difference.
PeerEntry ==
  [fail_streak : 0 .. MaxU32, age : Int, include_in_gossip : BOOLEAN]

NewEntry(gossiped) ==
  [fail_streak |-> 0, age |-> LongAgo, include_in_gossip |-> gossiped]

OrInsert(book, S) ==
  [a \in DOMAIN book \cup S |-> IF a \in DOMAIN book THEN book[a] ELSE NewEntry(TRUE)]

\* For every address of S: a call changes no other entry.
merge_seed(book, S) ==
  [a \in DOMAIN book \cup S |->
     [OrInsert(book, S)[a] EXCEPT !.include_in_gossip = @ \/ a \in S]]

\* The configured addresses, then the other ones that are gossiped.
sync_candidates(book, seeds) ==
  seeds \o Listed({a \in DOMAIN book : a \notin Range(seeds) /\ book[a].include_in_gossip})

\* Mutant of is_available: a peer that failed often enough is never tried again.
AvailableUntilThreshold(book, addr) ==
  addr \in DOMAIN book => book[addr].fail_streak < CooldownThreshold

is_available(book, addr) ==
  addr \in DOMAIN book =>
    \/ book[addr].fail_streak < CooldownThreshold
    \/ book[addr].age >= CooldownBase * AtMost(book[addr].fail_streak, CooldownMaxFactor)

filter_available(book, addrs) == Kept(addrs, {a \in Range(addrs) : is_available(book, a)})

\* The age is not read again before a failure sets it.
record_ok(book, addr) ==
  [OrInsert(book, {addr}) EXCEPT ![addr] = [@ EXCEPT !.fail_streak = 0, !.age = LongAgo]]

\* saturating_add on a u32.
OneMoreFailure(e) ==
  [e EXCEPT !.fail_streak = AtMost(@ + 1, MaxU32), !.age = 0]

record_fail(book, addr) == [OrInsert(book, {addr}) EXCEPT ![addr] = OneMoreFailure(@)]

\* Time passes by dt ticks; a negative dt is a clock that was set back.
Aged(book, dt) == [a \in DOMAIN book |-> [book[a] EXCEPT !.age = AtMost(@ + dt, LongAgo)]]

=============================================================================
