-------------------------- MODULE ReorgPlanProofs --------------------------
(***************************************************************************)
(* Lemmas about the walk down an index and the plan it yields: for every   *)
(* index of entries, right or wrong.                                       *)
(***************************************************************************)
EXTENDS Reorg, LedgerProofs

\* Leaves that name no prover are for Zenon.
USE Zenon

-----------------------------------------------------------------------------
(***************************************************************************)
(* Sequences.                                                              *)
(***************************************************************************)

LEMMA Extended ==
  ASSUME NEW S, NEW x \in S, NEW s \in Seq(S)
  PROVE  /\ Append(s, x) \in Seq(S) /\ Append(s, x) # <<>>
         /\ Len(Append(s, x)) = Len(s) + 1 /\ Append(s, x)[Len(s) + 1] = x
         /\ \A i \in 1 .. Len(s) : Append(s, x)[i] = s[i]
  BY SMT

LEMMA Sliced ==
  ASSUME NEW S, NEW s, NEW a \in Int, NEW z \in Int, \A i \in a .. z : s[i] \in S
  PROVE  /\ SubSeq(s, a, z) \in Seq(S)
         /\ Len(SubSeq(s, a, z)) = IF z < a THEN 0 ELSE z - a + 1
         /\ \A i \in 1 .. z - a + 1 : SubSeq(s, a, z)[i] = s[a + i - 1]
  BY SMT

LEMMA FrontParts ==
  ASSUME NEW S, NEW s \in Seq(S), s # <<>>
  PROVE  /\ Front(s) \in Seq(S) /\ Len(Front(s)) = Len(s) - 1
         /\ \A i \in 1 .. Len(s) - 1 : Front(s)[i] = s[i]
         /\ Last(s) = s[Len(s)] /\ Last(s) \in S
         /\ Len(s) \in Nat \ {0}
<1>1. Len(s) \in Nat \ {0} /\ s[Len(s)] \in S
  BY SMT
<1>2. /\ SubSeq(s, 1, Len(s) - 1) \in Seq(S) /\ Len(SubSeq(s, 1, Len(s) - 1)) = Len(s) - 1
      /\ \A i \in 1 .. Len(s) - 1 : SubSeq(s, 1, Len(s) - 1)[i] = s[i]
  <2> DEFINE t == SubSeq(s, 1, Len(s) - 1)
  <2>1. Len(s) - 1 \in Int /\ \A i \in 1 .. Len(s) - 1 : s[i] \in S
    BY <1>1, SMT
  <2>2. t \in Seq(S) /\ \A i \in 1 .. Len(s) - 1 - 1 + 1 : t[i] = s[1 + i - 1]
    BY <2>1, Sliced, SMT
  <2>3. Len(t) = Len(s) - 1
    <3>1. Len(t) = IF Len(s) - 1 < 1 THEN 0 ELSE Len(s) - 1 - 1 + 1
      BY <2>1, Sliced, SMT
    <3>2. PICK n \in Nat \ {0} : n = Len(s)
      BY <1>1
    <3>3. (IF n - 1 < 1 THEN 0 ELSE n - 1 - 1 + 1) = n - 1
      BY SMT
    <3>4. QED
      BY <3>1, <3>2, <3>3
  <2> HIDE DEF t
  <2>4. ASSUME NEW i \in 1 .. Len(s) - 1
        PROVE  t[i] = s[i]
    <3>1. i \in 1 .. Len(s) - 1 - 1 + 1 /\ 1 + i - 1 = i
      BY <1>1, SMT
    <3>2. QED
      BY <2>2, <3>1
  <2>5. QED
    BY <2>2, <2>3, <2>4 DEF t
<1>3. QED
  BY <1>1, <1>2 DEF Front, Last

LEMMA RangeOf ==
  ASSUME NEW S, NEW s \in Seq(S)
  PROVE  \A x : x \in Range(s) <=> \E i \in 1 .. Len(s) : x = s[i]
  BY SMT DEF Range

\* Reverse keeps length and elements, and undoes itself.
LEMMA Reversed ==
  ASSUME NEW S, NEW s \in Seq(S)
  PROVE  /\ Reverse(s) \in Seq(S) /\ Len(Reverse(s)) = Len(s)
         /\ Reverse(Reverse(s)) = s
<1>1. PICK n \in Nat : n = Len(s)
  BY SMT
<1>2. \A i \in 1 .. n : n - i + 1 \in 1 .. n /\ n - (n - i + 1) + 1 = i
  BY SMT
<1>3. \A i \in 1 .. n : s[i] \in S
  BY <1>1, SMT
<1>4. PICK t : t = Reverse(s)
  OBVIOUS
<1>5. t = [i \in 1 .. n |-> s[n - i + 1]]
  BY <1>1, <1>4 DEF Reverse
<1>6. t \in [1 .. n -> S]
  BY <1>2, <1>3, <1>5
<1>7. t \in Seq(S) /\ Len(t) = n
  BY <1>1, <1>6, SMT
<1>8. Reverse(t) = [i \in 1 .. n |-> t[n - i + 1]]
  BY <1>7 DEF Reverse
<1>9. ASSUME NEW i \in 1 .. n
      PROVE  t[n - i + 1] = s[i]
  BY <1>2, <1>5
<1>10. s = [i \in 1 .. n |-> s[i]]
  BY <1>1, SMT
<1>11. Reverse(t) = s
  BY <1>8, <1>9, <1>10
<1>12. QED
  BY <1>1, <1>4, <1>7, <1>11

LEMMA ReversedElements ==
  ASSUME NEW S, NEW s \in Seq(S)
  PROVE  /\ \A i \in 1 .. Len(s) : Reverse(s)[i] = s[Len(s) - i + 1]
         /\ \A x : x \in Range(Reverse(s)) <=> x \in Range(s)
<1>1. PICK n \in Nat : n = Len(s)
  BY SMT
<1>2. \A i \in 1 .. n : n - i + 1 \in 1 .. n /\ n - (n - i + 1) + 1 = i
  BY SMT
<1>3. \A i \in 1 .. n : Reverse(s)[i] = s[n - i + 1]
  BY <1>1 DEF Reverse
<1>4. \A x : x \in Range(s) <=> \E i \in 1 .. n : x = s[i]
  BY <1>1, RangeOf
<1>5. \A x : x \in Range(Reverse(s)) <=> \E i \in 1 .. n : x = Reverse(s)[i]
  BY <1>1, Reversed, RangeOf, SMT
<1>6. ASSUME NEW i \in 1 .. n
      PROVE  s[i] = Reverse(s)[n - i + 1]
  BY <1>2, <1>3
<1>7. ASSUME NEW x
      PROVE  x \in Range(Reverse(s)) <=> x \in Range(s)
  <2>1. ASSUME NEW i \in 1 .. n, x = s[i]
        PROVE  x \in Range(Reverse(s))
    BY <1>2, <1>5, <1>6, <2>1
  <2>2. ASSUME NEW i \in 1 .. n, x = Reverse(s)[i]
        PROVE  x \in Range(s)
    BY <1>2, <1>3, <1>4, <2>2
  <2>3. QED
    BY <1>4, <1>5, <2>1, <2>2
<1>8. QED
  BY <1>1, <1>3, <1>7

\* The elements of a concatenation.
LEMMA Joined ==
  ASSUME NEW S, NEW s \in Seq(S), NEW t \in Seq(S)
  PROVE  /\ s \o t \in Seq(S) /\ Len(s \o t) = Len(s) + Len(t)
         /\ \A i \in 1 .. Len(s) : (s \o t)[i] = s[i]
         /\ \A i \in 1 .. Len(t) : (s \o t)[Len(s) + i] = t[i]
BY SMT

LEMMA JoinedRange ==
  ASSUME NEW S, NEW s \in Seq(S), NEW t \in Seq(S)
  PROVE  \A x : x \in Range(s \o t) <=> x \in Range(s) \/ x \in Range(t)
<1>1. PICK n \in Nat, m \in Nat : n = Len(s) /\ m = Len(t)
  BY SMT
<1>2. PICK r : r = s \o t
  OBVIOUS
<1>3. /\ r \in Seq(S) /\ Len(r) = n + m
      /\ \A i \in 1 .. n : r[i] = s[i]
      /\ \A i \in 1 .. m : r[n + i] = t[i]
  BY <1>1, <1>2, Joined, SMT
<1>4. ASSUME NEW i \in 1 .. n + m
      PROVE  i \in 1 .. n \/ \E j \in 1 .. m : i = n + j
  <2>1. CASE i <= n
    BY <2>1, SMT
  <2>2. CASE ~(i <= n)
    <3>1. i - n \in 1 .. m /\ i = n + (i - n)
      BY <2>2, SMT
    <3>2. QED
      BY <3>1
  <2>3. QED
    BY <2>1, <2>2
<1>5. (\A i \in 1 .. n : i \in 1 .. n + m) /\ (\A i \in 1 .. m : n + i \in 1 .. n + m)
  BY SMT
<1>6. \A x : x \in Range(r) <=> \E i \in 1 .. n + m : x = r[i]
  <2>1. \A x : x \in Range(r) <=> \E i \in 1 .. Len(r) : x = r[i]
    BY <1>3, RangeOf
  <2>2. QED
    BY <1>3, <2>1
<1>7. \A x : x \in Range(s) <=> \E i \in 1 .. n : x = s[i]
  BY <1>1, RangeOf
<1>8. \A x : x \in Range(t) <=> \E i \in 1 .. m : x = t[i]
  BY <1>1, RangeOf
<1>9. ASSUME NEW x \in Range(r)
      PROVE  x \in Range(s) \/ x \in Range(t)
  <2>1. PICK i \in 1 .. n + m : x = r[i]
    BY <1>6
  <2>2. CASE i \in 1 .. n
    BY <1>3, <1>7, <2>1, <2>2
  <2>3. ASSUME NEW j \in 1 .. m, i = n + j
        PROVE  x \in Range(t)
    BY <1>3, <1>8, <2>1, <2>3
  <2>4. QED
    BY <1>4, <2>2, <2>3
<1>10. ASSUME NEW x \in Range(s)
       PROVE  x \in Range(r)
  BY <1>3, <1>5, <1>6, <1>7
<1>11. ASSUME NEW x \in Range(t)
       PROVE  x \in Range(r)
  BY <1>3, <1>5, <1>6, <1>8
<1>12. QED
  BY <1>2, <1>9, <1>10, <1>11

Distinct(s) == \A i, j \in 1 .. Len(s) : s[i] = s[j] => i = j

\* Two segments without duplicates, in or across them.
LEMMA JoinedDistinct ==
  ASSUME NEW S, NEW s \in Seq(S), NEW t \in Seq(S)
  PROVE  /\ IsInjective(s \o t) => \A x \in Range(t) : x \notin Range(s)
         /\ Distinct(s) /\ Distinct(t) /\ (\A x \in Range(t) : x \notin Range(s))
              => IsInjective(s \o t)
<1>1. PICK n \in Nat, m \in Nat : n = Len(s) /\ m = Len(t)
  BY SMT
<1>2. PICK r : r = s \o t
  OBVIOUS
<1>3. /\ r \in Seq(S) /\ Len(r) = n + m
      /\ \A i \in 1 .. n : r[i] = s[i]
      /\ \A i \in 1 .. m : r[n + i] = t[i]
  BY <1>1, <1>2, Joined, SMT
<1>4. DOMAIN r = 1 .. n + m
  BY <1>3, SMT
<1>5. \A x : x \in Range(s) <=> \E i \in 1 .. n : x = s[i]
  BY <1>1, RangeOf
<1>6. \A x : x \in Range(t) <=> \E i \in 1 .. m : x = t[i]
  BY <1>1, RangeOf
<1>7. ASSUME IsInjective(r), NEW x \in Range(t), x \in Range(s)
      PROVE  FALSE
  <2>1. PICK i \in 1 .. n : x = s[i]
    BY <1>5, <1>7
  <2>2. PICK j \in 1 .. m : x = t[j]
    BY <1>6
  <2>3. i \in 1 .. n + m /\ n + j \in 1 .. n + m /\ i # n + j
    BY SMT
  <2>4. QED
    BY <1>3, <1>4, <1>7, <2>1, <2>2, <2>3 DEF IsInjective
<1>8. ASSUME Distinct(s), Distinct(t), \A x \in Range(t) : x \notin Range(s),
             NEW i \in 1 .. n + m, NEW j \in 1 .. n + m, r[i] = r[j]
      PROVE  i = j
  <2>1. \A a, b \in 1 .. n : s[a] = s[b] => a = b
    BY <1>1, <1>8 DEF Distinct
  <2>2. \A a, b \in 1 .. m : t[a] = t[b] => a = b
    BY <1>1, <1>8 DEF Distinct
  <2>3. \A a \in 1 .. n, b \in 1 .. m : s[a] # t[b]
    BY <1>5, <1>6, <1>8
  <2>4. \A a \in 1 .. n + m : a \in 1 .. n \/ (a - n \in 1 .. m /\ n + (a - n) = a)
    BY SMT
  <2>5. CASE i \in 1 .. n /\ j \in 1 .. n
    BY <1>3, <1>8, <2>1, <2>5
  <2>6. CASE i \in 1 .. n /\ j - n \in 1 .. m /\ n + (j - n) = j
    <3>1. r[j] = t[j - n]
      BY <1>3, <2>6
    <3>2. QED
      BY <1>3, <1>8, <2>3, <2>6, <3>1
  <2>7. CASE j \in 1 .. n /\ i - n \in 1 .. m /\ n + (i - n) = i
    <3>1. r[i] = t[i - n]
      BY <1>3, <2>7
    <3>2. QED
      BY <1>3, <1>8, <2>3, <2>7, <3>1
  <2>8. CASE /\ i - n \in 1 .. m /\ n + (i - n) = i
             /\ j - n \in 1 .. m /\ n + (j - n) = j
    <3>1. r[i] = t[i - n] /\ r[j] = t[j - n]
      BY <1>3, <2>8
    <3>2. i - n = j - n
      BY <1>8, <2>2, <2>8, <3>1
    <3>3. QED
      BY <2>8, <3>2
  <2>9. QED
    BY <2>4, <2>5, <2>6, <2>7, <2>8
<1>9. QED
  BY <1>2, <1>4, <1>7, <1>8 DEF IsInjective

LEMMA ReversedDistinct ==
  ASSUME NEW S, NEW s \in Seq(S), Distinct(s)
  PROVE  Distinct(Reverse(s))
<1>1. PICK n \in Nat : n = Len(s)
  BY SMT
<1>2. Len(Reverse(s)) = n
  BY <1>1, Reversed
<1>3. \A i \in 1 .. n : Reverse(s)[i] = s[n - i + 1]
  BY <1>1, ReversedElements
<1>4. ASSUME NEW i \in 1 .. n, NEW j \in 1 .. n, Reverse(s)[i] = Reverse(s)[j]
      PROVE  i = j
  <2>1. n - i + 1 \in 1 .. n /\ n - j + 1 \in 1 .. n
    BY SMT
  <2>2. n - i + 1 = n - j + 1
    BY <1>1, <1>3, <1>4, <2>1 DEF Distinct
  <2>3. QED
    BY <2>2, SMT
<1>5. QED
  BY <1>2, <1>4 DEF Distinct

\* A sequence without repetitions in a finite set is no longer than the set.
LEMMA Pigeonhole ==
  ASSUME NEW S, IsFiniteSet(S), NEW s \in Seq(S),
         \A i, j \in 1 .. Len(s) : s[i] = s[j] => i = j
  PROVE  Len(s) <= Cardinality(S)
<1>1. Len(s) \in Nat /\ DOMAIN s = 1 .. Len(s) /\ Range(s) \subseteq S
  BY SMT DEF Range
<1>2. s \in Bijection(1 .. Len(s), Range(s))
  BY <1>1, SMT DEF Bijection, Injection, Surjection, IsInjective, Range
<1>3. ExistsBijection(1 .. Len(s), Range(s))
  BY <1>2, SMT DEF ExistsBijection
<1>4. IsFiniteSet(1 .. Len(s)) /\ Cardinality(1 .. Len(s)) = Len(s)
  <2>1. Cardinality(1 .. Len(s)) = IF 1 > Len(s) THEN 0 ELSE Len(s) - 1 + 1
    BY <1>1, FS_Interval, SMT
  <2>2. IsFiniteSet(1 .. Len(s))
    BY <1>1, FS_Interval, SMT
  <2>3. QED
    BY <1>1, <2>1, <2>2, SMT
<1>5. Cardinality(Range(s)) = Len(s)
  BY <1>3, <1>4, FS_Bijection
<1>6. Cardinality(Range(s)) <= Cardinality(S)
  BY <1>1, FS_Subset, SMT
<1>7. QED
  BY <1>5, <1>6, SMT

-----------------------------------------------------------------------------
(***************************************************************************)
(* Links and lines of links.                                               *)
(***************************************************************************)
\* What every caller can have put into an index.
IndexOK(I) ==
  /\ DOMAIN I \subseteq Hash /\ IsFiniteSet(DOMAIN I)
  /\ \A h \in DOMAIN I : I[h] \in BlockIndexEntry

\* p is the parent of x, one height below.
Sound(I, x, p) ==
  /\ x \in DOMAIN I /\ p \in DOMAIN I
  /\ I[x].height > 0 /\ I[x].parent_hash = p
  /\ I[p].height + 1 = I[x].height

\* A sequence of blocks, each followed by its parent.
Line(I, s) ==
  /\ s \in Seq(Hash) /\ s # <<>>
  /\ \A i \in 1 .. Len(s) - 1 : Sound(I, s[i], s[i + 1])

LinkErrors == {"Cycle", "MissingParentLink", "MalformedAncestry"}

LEMMA EntryHeight ==
  ASSUME NEW I, IndexOK(I), NEW h \in DOMAIN I
  PROVE  I[h].height \in Nat /\ I[h].height <= MaxHeight
  BY HeightAssumption, SMT DEF IndexOK, BlockIndexEntry, Heights

\* validated_parent_hash accepts a link exactly when it is sound.
LEMMA LinkIsSound ==
  ASSUME NEW I, IndexOK(I), NEW x \in DOMAIN I, I[x].height # 0
  PROVE  /\ LinkError(I, x) = "" => Sound(I, x, I[x].parent_hash)
         /\ LinkError(I, x) # "" => LinkError(I, x) \in LinkErrors /\ \A p : ~Sound(I, x, p)
<1> DEFINE q == I[x].parent_hash
<1>1. I[x].height \in Nat /\ I[x].height \in Heights /\ I[x].height > 0
  BY EntryHeight, HeightAssumption, SMT DEF Heights
<1>2. q \in DOMAIN I => I[q].height \in Nat
  BY EntryHeight
<1> HIDE DEF q
<1>3. LinkError(I, x) = IF q = x THEN "Cycle"
                        ELSE IF q \notin DOMAIN I THEN "MissingParentLink"
                        ELSE IF I[q].height + 1 \notin Heights THEN "MalformedAncestry"
                        ELSE IF I[q].height + 1 # I[x].height THEN "MalformedAncestry"
                        ELSE ""
  BY DEF LinkError, Known, q
<1>4. CASE q # x /\ q \in DOMAIN I /\ I[q].height + 1 = I[x].height
  <2>1. LinkError(I, x) = ""
    BY <1>1, <1>3, <1>4
  <2>2. Sound(I, x, q)
    BY <1>1, <1>4 DEF Sound, q
  <2>3. QED
    BY <2>1, <2>2 DEF q
<1>5. CASE ~(q # x /\ q \in DOMAIN I /\ I[q].height + 1 = I[x].height)
  <2>1. LinkError(I, x) \in LinkErrors /\ LinkError(I, x) # ""
    BY <1>3, <1>5 DEF LinkErrors
  <2>2. ASSUME NEW p, Sound(I, x, p)
        PROVE  FALSE
    <3>1. p = q /\ q \in DOMAIN I /\ I[q].height + 1 = I[x].height
      BY <2>2 DEF Sound, q
    <3>2. q # x
      BY <1>1, <3>1, SMT
    <3>3. QED
      BY <1>5, <3>1, <3>2
  <2>3. QED
    BY <2>1, <2>2
<1>6. QED
  BY <1>4, <1>5

\* Heights fall by one along a line.
LEMMA LineHeights ==
  ASSUME NEW I, IndexOK(I), NEW s, Line(I, s), s[1] \in DOMAIN I
  PROVE  /\ \A i \in 1 .. Len(s) : s[i] \in DOMAIN I /\ I[s[i]].height \in Nat
         /\ \A i, j \in 1 .. Len(s) : I[s[i]].height + i = I[s[j]].height + j
<1> DEFINE N == Len(s) - 1
           T == {n \in 0 .. N : s[n + 1] \in DOMAIN I /\ I[s[n + 1]].height + n = I[s[1]].height}
<1>1. Len(s) \in Nat \ {0} /\ N \in Nat /\ I[s[1]].height \in Nat
  BY EntryHeight, SMT DEF Line
<1>2. 0 \in T
  BY <1>1, SMT
<1>3. ASSUME NEW n \in 1 .. N, n - 1 \in T
      PROVE  n \in T
  <2>1. n \in 1 .. Len(s) - 1 /\ n \in 0 .. N
    BY <1>1, SMT
  <2>2. s[n] \in DOMAIN I /\ I[s[n]].height + (n - 1) = I[s[1]].height
    BY <1>3, <2>1, SMT
  <2>3. s[n + 1] \in DOMAIN I /\ I[s[n + 1]].height + 1 = I[s[n]].height
    BY <2>1 DEF Line, Sound
  <2>4. I[s[n]].height \in Nat /\ I[s[n + 1]].height \in Nat
    BY <2>2, <2>3, EntryHeight
  <2>5. I[s[n + 1]].height + n = I[s[1]].height
    BY <1>1, <2>1, <2>2, <2>3, <2>4, SMT
  <2>6. QED
    BY <2>1, <2>3, <2>5, SMT
<1>4. \A n \in 0 .. N : n \in T
  <2> HIDE DEF T, N
  <2>1. QED
    BY <1>1, <1>2, <1>3, InductionUpTo
<1>5. ASSUME NEW i \in 1 .. Len(s)
      PROVE  /\ s[i] \in DOMAIN I /\ I[s[i]].height \in Nat
             /\ I[s[i]].height + (i - 1) = I[s[1]].height
  <2>1. i - 1 \in 0 .. N /\ (i - 1) + 1 = i
    BY <1>1, SMT
  <2>2. s[i] \in DOMAIN I /\ I[s[i]].height + (i - 1) = I[s[1]].height
    BY <1>4, <2>1, SMT
  <2>3. QED
    BY <2>2, EntryHeight
<1>6. ASSUME NEW i \in 1 .. Len(s), NEW j \in 1 .. Len(s)
      PROVE  I[s[i]].height + i = I[s[j]].height + j
  <2>1. /\ I[s[i]].height \in Nat /\ I[s[i]].height + (i - 1) = I[s[1]].height
        /\ I[s[j]].height \in Nat /\ I[s[j]].height + (j - 1) = I[s[1]].height
    BY <1>5
  <2>2. PICK a \in Nat, b \in Nat : a = I[s[i]].height /\ b = I[s[j]].height
    BY <2>1
  <2>3. a + (i - 1) = b + (j - 1)
    BY <2>1, <2>2
  <2>4. a + i = b + j
    BY <1>1, <2>3, SMT
  <2>5. QED
    BY <2>2, <2>4
<1>7. QED
  BY <1>5, <1>6

\* So no block comes twice.
LEMMA LineInjective ==
  ASSUME NEW I, IndexOK(I), NEW s, Line(I, s), s[1] \in DOMAIN I,
         NEW i \in 1 .. Len(s), NEW j \in 1 .. Len(s), s[i] = s[j]
  PROVE  i = j
<1>1. PICK a \in Nat : a = I[s[i]].height /\ a = I[s[j]].height
  BY LineHeights
<1>2. I[s[i]].height + i = I[s[j]].height + j
  BY LineHeights, SMT
<1>3. QED
  BY <1>1, <1>2, SMT

\* A line goes on with the parent of its last block.
LEMMA LineExtends ==
  ASSUME NEW I, IndexOK(I), NEW s, Line(I, s), NEW p, Sound(I, Last(s), p)
  PROVE  Line(I, Append(s, p))
<1>1. s \in Seq(Hash) /\ s # <<>> /\ p \in Hash
  BY DEF Line, Sound, IndexOK
<1> DEFINE t == Append(s, p)
<1>2. /\ t \in Seq(Hash) /\ t # <<>> /\ Len(t) = Len(s) + 1 /\ t[Len(s) + 1] = p
      /\ \A i \in 1 .. Len(s) : t[i] = s[i]
  BY <1>1, Extended, SMT
<1>3. Len(s) \in Nat \ {0} /\ Last(s) = s[Len(s)]
  BY <1>1, FrontParts
<1> HIDE DEF t
<1>4. ASSUME NEW i \in 1 .. Len(t) - 1
      PROVE  Sound(I, t[i], t[i + 1])
  <2>1. CASE i = Len(s)
    <3>1. Len(s) \in 1 .. Len(s)
      BY <1>3, SMT
    <3>2. t[i] = Last(s) /\ t[i + 1] = p
      BY <1>2, <1>3, <2>1, <3>1
    <3>3. QED
      BY <3>2
  <2>2. CASE i # Len(s)
    <3>1. i \in 1 .. Len(s) - 1 /\ i \in 1 .. Len(s) /\ i + 1 \in 1 .. Len(s)
      BY <1>2, <1>3, <2>2, SMT
    <3>2. t[i] = s[i] /\ t[i + 1] = s[i + 1]
      BY <1>2, <3>1
    <3>3. QED
      BY <3>1, <3>2 DEF Line
  <2>3. QED
    BY <2>1, <2>2
<1>5. QED
  BY <1>2, <1>4 DEF Line, t

\* There is one line from a block: two of them agree as far as both go.
LEMMA LineUnique ==
  ASSUME NEW I, NEW s, NEW t, Line(I, s), Line(I, t), s[1] = t[1],
         NEW k \in 1 .. Len(s), k <= Len(t)
  PROVE  s[k] = t[k]
<1> DEFINE N == k - 1
           T == {n \in 0 .. N : s[n + 1] = t[n + 1]}
<1>1. Len(s) \in Nat /\ Len(t) \in Nat /\ N \in Nat /\ N + 1 = k /\ N \in 0 .. N
  BY SMT DEF Line
<1>2. 0 \in T
  BY <1>1, SMT
<1>3. ASSUME NEW n \in 1 .. N, n - 1 \in T
      PROVE  n \in T
  <2>1. n \in 1 .. Len(s) - 1 /\ n \in 1 .. Len(t) - 1 /\ n \in 0 .. N /\ (n - 1) + 1 = n
    BY <1>1, SMT
  <2>2. s[n] = t[n]
    BY <1>3, <2>1, SMT
  <2>3. Sound(I, s[n], s[n + 1]) /\ Sound(I, t[n], t[n + 1])
    BY <2>1 DEF Line
  <2>4. s[n + 1] = t[n + 1]
    BY <2>2, <2>3 DEF Sound
  <2>5. QED
    BY <2>1, <2>4
<1>4. N \in T
  <2> HIDE DEF T, N
  <2>1. QED
    BY <1>1, <1>2, <1>3, InductionUpTo
<1>5. QED
  BY <1>1, <1>4

-----------------------------------------------------------------------------
(***************************************************************************)
(* The walk.                                                               *)
(***************************************************************************)
WalkErrors == LinkErrors \cup {"UnknownBlock"}

Walks == [err : WalkErrors \cup {"", "walking"}, path : Seq(Hash) \ {<<>>}]

\* A walk follows the line from tip and passes no block of stop.  It ends well in
\* a block of stop or of height 0, and badly in an unknown block or in one without
\* a sound link.
Walked(I, tip, stop, w) ==
  /\ w \in Walks /\ Line(I, w.path) /\ w.path[1] = tip
  /\ \A i \in 1 .. Len(w.path) - 1 : w.path[i] \notin stop
  /\ w.err = "" =>
       \/ Last(w.path) \in stop
       \/ Last(w.path) \in DOMAIN I /\ I[Last(w.path)].height = 0
  /\ w.err \in WalkErrors =>
       /\ Last(w.path) \notin stop
       /\ Last(w.path) \in DOMAIN I => I[Last(w.path)].height # 0
       /\ \A p : ~Sound(I, Last(w.path), p)

\* One iteration of the loop.  Its check for a cycle never finds one.
LEMMA StepWalks ==
  ASSUME NEW I, IndexOK(I), NEW tip \in Hash, NEW stop, NEW w, Walked(I, tip, stop, w)
  PROVE  /\ Walked(I, tip, stop, WalkStep(I, stop, w))
         /\ WalkStep(I, stop, w).err = "walking" =>
              w.err = "walking" /\ Len(WalkStep(I, stop, w).path) = Len(w.path) + 1
<1> DEFINE v == WalkStep(I, stop, w)
           cur == Last(w.path)
           Ends(e) == [err |-> e, path |-> w.path]
<1> SUFFICES /\ Walked(I, tip, stop, v)
             /\ v.err = "walking" => w.err = "walking" /\ Len(v.path) = Len(w.path) + 1
  OBVIOUS
<1>0. w = [err |-> w.err, path |-> w.path]
  BY DEF Walked, Walks
<1>1. /\ w.path \in Seq(Hash) /\ w.path # <<>>
      /\ w.err \in WalkErrors \cup {"", "walking"}
  BY DEF Walked, Walks
<1>2. CASE w.err # "walking"
  <2>1. v = w
    BY <1>2 DEF WalkStep
  <2>2. QED
    BY <1>2, <2>1
<1>3. CASE w.err = "walking"
  <2>1. /\ cur \in Hash /\ Len(w.path) \in Nat \ {0} /\ cur = w.path[Len(w.path)]
        /\ Front(w.path) \in Seq(Hash) /\ Len(Front(w.path)) = Len(w.path) - 1
        /\ \A i \in 1 .. Len(w.path) - 1 : Front(w.path)[i] = w.path[i]
    BY <1>1, FrontParts
  <2>2. ASSUME NEW e PROVE [w EXCEPT !.err = e] = Ends(e)
    BY <1>0, SMT
  <2>3. cur \notin Range(Front(w.path))
    <3>1. SUFFICES ASSUME NEW i \in 1 .. Len(w.path) - 1, cur = w.path[i]
                   PROVE  FALSE
      <4>1. cur \in Range(Front(w.path)) <=>
              \E i \in 1 .. Len(Front(w.path)) : cur = Front(w.path)[i]
        BY <2>1, RangeOf, SMT
      <4>2. QED
        BY <2>1, <4>1
    <3>2. 1 \in 1 .. Len(w.path) - 1 /\ i \in 1 .. Len(w.path) /\ Len(w.path) \in 1 .. Len(w.path)
      BY <2>1, SMT
    <3>3. w.path[1] \in DOMAIN I
      BY <3>2 DEF Walked, Line, Sound
    <3>4. i = Len(w.path)
      BY <2>1, <3>1, <3>2, <3>3, LineInjective DEF Walked
    <3>5. QED
      BY <2>1, <3>4, SMT
  <2> HIDE DEF Ends
  <2>4. v = IF cur \in stop THEN Ends("")
            ELSE IF cur \notin DOMAIN I THEN Ends("UnknownBlock")
            ELSE IF I[cur].height = 0 THEN Ends("")
            ELSE IF LinkError(I, cur) # "" THEN Ends(LinkError(I, cur))
            ELSE [w EXCEPT !.path = Append(@, I[cur].parent_hash)]
    BY <1>3, <2>2, <2>3 DEF WalkStep, Known
  <2> HIDE DEF v
  <2>5. ASSUME NEW e \in WalkErrors \cup {""}, v = Ends(e),
               e = "" => cur \in stop \/ (cur \in DOMAIN I /\ I[cur].height = 0),
               e \in WalkErrors =>
                 /\ cur \notin stop
                 /\ cur \in DOMAIN I => I[cur].height # 0
                 /\ \A p : ~Sound(I, cur, p)
        PROVE  Walked(I, tip, stop, v) /\ v.err # "walking"
    <3>1. v.err = e /\ v.path = w.path
      BY <2>5 DEF Ends
    <3>2. v \in Walks
      BY <1>1, <2>5 DEF Ends, Walks
    <3>3. e # "walking"
      BY DEF WalkErrors, LinkErrors
    <3>4. QED
      BY <2>5, <3>1, <3>2, <3>3 DEF Walked
  <2>6. CASE cur \in stop
    <3>1. v = Ends("") /\ "" \in WalkErrors \cup {""} /\ "" \notin WalkErrors
      BY <2>4, <2>6 DEF WalkErrors, LinkErrors
    <3>2. QED
      BY <2>5, <2>6, <3>1
  <2>7. CASE cur \notin stop /\ cur \notin DOMAIN I
    <3>1. v = Ends("UnknownBlock") /\ "UnknownBlock" \in WalkErrors \cup {""}
      BY <2>4, <2>7 DEF WalkErrors
    <3>2. \A p : ~Sound(I, cur, p)
      BY <2>7 DEF Sound
    <3>3. "UnknownBlock" # ""
      BY SMT
    <3>4. QED
      BY <2>5, <2>7, <3>1, <3>2, <3>3
  <2>8. CASE cur \notin stop /\ cur \in DOMAIN I /\ I[cur].height = 0
    <3>1. v = Ends("") /\ "" \in WalkErrors \cup {""} /\ "" \notin WalkErrors
      BY <2>4, <2>8 DEF WalkErrors, LinkErrors
    <3>2. QED
      BY <2>5, <2>8, <3>1
  <2>9. CASE cur \notin stop /\ cur \in DOMAIN I /\ I[cur].height # 0 /\ LinkError(I, cur) # ""
    <3>1. v = Ends(LinkError(I, cur))
      BY <2>4, <2>9
    <3>2. LinkError(I, cur) \in LinkErrors /\ \A p : ~Sound(I, cur, p)
      BY <2>9, LinkIsSound
    <3>3. LinkError(I, cur) \in WalkErrors \cup {""}
      BY <3>2 DEF WalkErrors
    <3>4. QED
      BY <2>5, <2>9, <3>1, <3>2, <3>3
  <2>10. CASE cur \notin stop /\ cur \in DOMAIN I /\ I[cur].height # 0 /\ LinkError(I, cur) = ""
    <3> DEFINE p == I[cur].parent_hash
    <3>1. v = [w EXCEPT !.path = Append(@, p)]
      BY <2>4, <2>10
    <3>2. Sound(I, cur, p)
      BY <2>10, LinkIsSound
    <3>3. p \in Hash
      BY <3>2 DEF Sound, IndexOK
    <3> HIDE DEF p
    <3>4. v = [err |-> "walking", path |-> Append(w.path, p)]
      <4>1. PICK x : x = w.path
        OBVIOUS
      <4>2. w = [err |-> "walking", path |-> x]
        BY <1>0, <1>3, <4>1
      <4>3. v = [[err |-> "walking", path |-> x] EXCEPT !.path = Append(@, p)]
        BY <3>1, <4>2
      <4>4. [[err |-> "walking", path |-> x] EXCEPT !.path = Append(@, p)]
              = [err |-> "walking", path |-> Append(x, p)]
        BY SMT
      <4>5. QED
        BY <4>1, <4>3, <4>4
    <3>5. /\ v.err = "walking" /\ v.path = Append(w.path, p)
      BY <3>4, SMT
    <3>6. Line(I, v.path)
      BY <3>2, <3>5, LineExtends DEF Walked
    <3>7. /\ Len(v.path) = Len(w.path) + 1 /\ \A i \in 1 .. Len(w.path) : v.path[i] = w.path[i]
          /\ v.path \in Seq(Hash) /\ v.path # <<>>
      <4> DEFINE s == w.path
      <4>1. s \in Seq(Hash)
        BY <1>1
      <4> HIDE DEF s
      <4>2. /\ Append(s, p) \in Seq(Hash) /\ Append(s, p) # <<>> /\ Len(Append(s, p)) = Len(s) + 1
            /\ \A i \in 1 .. Len(s) : Append(s, p)[i] = s[i]
        BY <3>3, <4>1, Extended, SMT
      <4>3. QED
        BY <3>5, <4>2 DEF s
    <3>8. v.path[1] = tip
      <4>1. 1 \in 1 .. Len(w.path)
        BY <2>1, SMT
      <4>2. QED
        BY <3>7, <4>1 DEF Walked
    <3>9. ASSUME NEW i \in 1 .. Len(v.path) - 1
          PROVE  v.path[i] \notin stop
      <4>1. i \in 1 .. Len(w.path) /\ (i \in 1 .. Len(w.path) - 1 \/ i = Len(w.path))
        BY <2>1, <3>7, SMT
      <4>2. QED
        BY <2>1, <2>10, <3>7, <4>1 DEF Walked
    <3>10. v \in Walks
      BY <3>4, <3>5, <3>7, SMT DEF Walks
    <3>11. "walking" # "" /\ "walking" \notin WalkErrors
      BY SMT DEF WalkErrors, LinkErrors
    <3>12. Walked(I, tip, stop, v)
      BY <3>5, <3>6, <3>8, <3>9, <3>10, <3>11 DEF Walked
    <3>13. QED
      BY <1>3, <3>7, <3>12
  <2>11. QED
    BY <2>6, <2>7, <2>8, <2>9, <2>10
<1>4. QED
  BY <1>2, <1>3

\* A walk that is still going has not yet been everywhere.
LEMMA WalkingIsShort ==
  ASSUME NEW I, IndexOK(I), NEW s, Line(I, s)
  PROVE  Len(s) <= Cardinality(DOMAIN I) + 1
<1> DEFINE D == DOMAIN I
           n == Len(s)
           c == Cardinality(D)
<1>1. s \in Seq(Hash) /\ s # <<>> /\ n \in Nat \ {0} /\ c \in Nat /\ IsFiniteSet(D)
  BY FS_CardinalityType, FrontParts DEF Line, IndexOK
<1>2. CASE n = 1
  <2> HIDE DEF n, c
  <2>1. n <= c + 1
    BY <1>1, <1>2, SMT
  <2>2. QED
    BY <2>1 DEF n, c
<1>3. CASE n # 1
  <2> HIDE DEF D
  <2>1. 1 \in 1 .. n - 1 /\ n - 1 \in Nat /\ \A i \in 1 .. n - 1 : i \in 1 .. n
    <3> HIDE DEF n
    <3>1. QED
      BY <1>1, <1>3, SMT
  <2>2. \A i \in 1 .. n - 1 : s[i] \in D
    BY DEF Line, Sound, D
  <2>3. Front(s) \in Seq(D) /\ Len(Front(s)) = n - 1
    <3>1. /\ Front(s) \in Seq(Hash) /\ Len(Front(s)) = n - 1
          /\ \A i \in 1 .. n - 1 : Front(s)[i] = s[i]
      BY <1>1, FrontParts
    <3> HIDE DEF n
    <3>2. \A i \in 1 .. n - 1 : Front(s)[i] \in D
      BY <2>2, <3>1
    <3>3. QED
      BY <3>1, <3>2, SMT
  <2>4. ASSUME NEW i \in 1 .. n - 1, NEW j \in 1 .. n - 1, Front(s)[i] = Front(s)[j]
        PROVE  i = j
    <3>1. Front(s)[i] = s[i] /\ Front(s)[j] = s[j]
      BY <1>1, FrontParts
    <3>2. s[1] \in DOMAIN I
      BY <2>1, <2>2 DEF D
    <3>3. QED
      BY <2>1, <2>4, <3>1, <3>2, LineInjective
  <2> HIDE DEF n
  <2>5. n - 1 <= c
    BY <1>1, <2>3, <2>4, Pigeonhole
  <2> HIDE DEF c
  <2>6. n <= c + 1
    BY <1>1, <2>5, SMT
  <2>7. QED
    BY <2>6 DEF n, c, D
<1>4. QED
  BY <1>2, <1>3

\* The loop is a run of its iterations, and it ends within its limit.
LEMMA WalkEnds ==
  ASSUME NEW I, IndexOK(I), NEW tip \in Hash, NEW stop
  PROVE  Walked(I, tip, stop, Walk(I, tip, stop)) /\ Walk(I, tip, stop).err # "walking"
<1> DEFINE N == Cardinality(DOMAIN I) + 2
           V == {w \in Walks : Walked(I, tip, stop, w)}
           b == [err |-> "walking", path |-> <<tip>>]
           F == [p \in V \X (1 .. N) |-> WalkStep(I, stop, p[1])]
           P(f) == f = [n \in 0 .. N |-> IF n = 0 THEN b ELSE WalkStep(I, stop, f[n - 1])]
           run == CHOOSE f : P(f)
<1>1. Walk(I, tip, stop) = IF run[N].err = "walking" THEN [run[N] EXCEPT !.err = "Cycle"]
                           ELSE run[N]
  BY DEF Walk
<1>2. N \in Nat
  BY FS_CardinalityType, SMT DEF IndexOK
<1>3. b \in V
  <2>1. <<tip>> \in Seq(Hash) /\ <<tip>> # <<>> /\ Len(<<tip>>) = 1 /\ <<tip>>[1] = tip
    BY SMT
  <2>2. \A i \in 1 .. 1 - 1 : FALSE
    BY SMT
  <2>3. b \in Walks /\ b.err = "walking" /\ b.path = <<tip>>
    BY <2>1, SMT DEF Walks
  <2>4. Line(I, <<tip>>)
    BY <2>1, <2>2 DEF Line
  <2>5. "walking" # "" /\ "walking" \notin WalkErrors
    BY SMT DEF WalkErrors, LinkErrors
  <2> HIDE DEF b
  <2>6. Walked(I, tip, stop, b)
    BY <2>1, <2>2, <2>3, <2>4, <2>5 DEF Walked
  <2>7. QED
    BY <2>3, <2>6
<1>4. ASSUME NEW w \in V
      PROVE  /\ WalkStep(I, stop, w) \in V
             /\ WalkStep(I, stop, w).err = "walking" =>
                  w.err = "walking" /\ Len(WalkStep(I, stop, w).path) = Len(w.path) + 1
  <2>1. Walked(I, tip, stop, w)
    OBVIOUS
  <2> HIDE DEF V
  <2>2. /\ Walked(I, tip, stop, WalkStep(I, stop, w))
        /\ WalkStep(I, stop, w).err = "walking" =>
             w.err = "walking" /\ Len(WalkStep(I, stop, w).path) = Len(w.path) + 1
    BY <2>1, StepWalks
  <2>3. WalkStep(I, stop, w) \in V
    BY <2>2 DEF V, Walked
  <2>4. QED
    BY <2>2, <2>3
<1>5. F \in [V \X (1 .. N) -> V]
  <2> HIDE DEF V, N
  <2>1. \A p \in V \X (1 .. N) : WalkStep(I, stop, p[1]) \in V
    BY <1>4, SMT
  <2>2. QED
    BY <2>1
<1> HIDE DEF b, V
<1>6. PICK f : Solves(f, N, V, b, F)
  <2> HIDE DEF N, F
  <2>1. QED
    BY <1>2, <1>3, <1>5, RecursionExists
<1>7. P(f)
  <2>1. f \in [0 .. N -> V] /\ f[0] = b
    BY <1>6 DEF Solves
  <2>2. ASSUME NEW n \in 1 .. N
        PROVE  f[n] = WalkStep(I, stop, f[n - 1])
    <3>1. n - 1 \in 0 .. N
      <4> HIDE DEF N
      <4>1. QED
        BY <1>2, SMT
    <3>2. f[n - 1] \in V
      BY <2>1, <3>1
    <3>3. f[n] = F[<<f[n - 1], n>>]
      BY <1>6 DEF Solves
    <3> HIDE DEF N
    <3>4. QED
      BY <3>2, <3>3
  <2> HIDE DEF N, F
  <2>3. \A n \in 0 .. N : f[n] = IF n = 0 THEN b ELSE WalkStep(I, stop, f[n - 1])
    BY <1>2, <2>1, <2>2, SMT
  <2>4. QED
    BY <2>1, <2>3
<1>8. P(run)
  <2> HIDE DEF P
  <2>1. QED
    BY <1>7
<1> HIDE DEF run, F, N
<1>9. run[0] = b /\ \A n \in 1 .. N : run[n] = WalkStep(I, stop, run[n - 1])
  BY <1>2, <1>8, SMT
<1> HIDE DEF P
<1> DEFINE T == {n \in 0 .. N : /\ run[n] \in V
                                /\ run[n].err = "walking" => Len(run[n].path) = n + 1}
<1>10. 0 \in T
  <2>1. Len(b.path) = 0 + 1
    BY SMT DEF b
  <2>2. 0 \in 0 .. N
    BY <1>2, SMT
  <2>3. QED
    BY <1>3, <1>9, <2>1, <2>2
<1>11. ASSUME NEW n \in 1 .. N, n - 1 \in T
       PROVE  n \in T
  <2>1. n \in 0 .. N /\ (n - 1) + 1 + 1 = n + 1
    BY <1>2, SMT
  <2>2. run[n - 1] \in V /\ (run[n - 1].err = "walking" => Len(run[n - 1].path) = (n - 1) + 1)
    BY <1>11
  <2>3. run[n] = WalkStep(I, stop, run[n - 1])
    BY <1>9
  <2>4. QED
    BY <1>4, <2>1, <2>2, <2>3
<1>12. run[N] \in V /\ (run[N].err = "walking" => Len(run[N].path) = N + 1)
  <2> HIDE DEF T
  <2>1. \A n \in 0 .. N : n \in T
    BY <1>2, <1>10, <1>11, InductionUpTo
  <2>2. N \in T
    BY <1>2, <2>1, SMT
  <2>3. QED
    BY <2>2 DEF T
<1>13. Walked(I, tip, stop, run[N])
  BY <1>12 DEF V
<1>14. run[N].err # "walking"
  <2>1. SUFFICES ASSUME Len(run[N].path) = N + 1
                 PROVE  FALSE
    BY <1>12
  <2>2. N + 1 <= Cardinality(DOMAIN I) + 1
    BY <1>13, <2>1, WalkingIsShort DEF Walked
  <2>3. Cardinality(DOMAIN I) \in Nat
    BY FS_CardinalityType DEF IndexOK
  <2>4. QED
    BY <2>2, <2>3, SMT DEF N
<1>15. QED
  BY <1>1, <1>13, <1>14

-----------------------------------------------------------------------------
(***************************************************************************)
(* Ancestors: the blocks a line leads to.                                  *)
(***************************************************************************)
\* A line from h to x.
LineTo(I, s, h, x) == Line(I, s) /\ s[1] = h /\ Last(s) = x

LEMMA LineAlone ==
  ASSUME NEW I, NEW h \in Hash
  PROVE  LineTo(I, <<h>>, h, h) /\ Len(<<h>>) = 1
<1>1. <<h>> \in Seq(Hash) /\ <<h>> # <<>> /\ Len(<<h>>) = 1 /\ <<h>>[1] = h
  BY SMT
<1>2. \A i \in 1 .. 1 - 1 : FALSE
  BY SMT
<1>3. QED
  BY <1>1, <1>2 DEF Line, LineTo, Last

\* A line without its last block.
LEMMA LineShortened ==
  ASSUME NEW I, NEW s, Line(I, s), Len(s) # 1
  PROVE  /\ Line(I, Front(s)) /\ Front(s)[1] = s[1] /\ Len(Front(s)) = Len(s) - 1
         /\ Sound(I, Last(Front(s)), Last(s))
<1> DEFINE t == Front(s)
<1>1. /\ t \in Seq(Hash) /\ Len(t) = Len(s) - 1 /\ Last(s) = s[Len(s)]
      /\ \A i \in 1 .. Len(s) - 1 : t[i] = s[i]
      /\ Len(s) \in Nat \ {0}
  BY FrontParts DEF Line
<1> HIDE DEF t
<1>2. /\ Len(t) \in 1 .. Len(s) - 1 /\ Len(t) + 1 = Len(s) /\ 1 \in 1 .. Len(s) - 1
      /\ \A i \in 1 .. Len(t) - 1 : i \in 1 .. Len(s) - 1 /\ i + 1 \in 1 .. Len(s) - 1
  BY <1>1, SMT
<1>3. t # <<>> /\ Last(t) = s[Len(t)] /\ t[1] = s[1]
  BY <1>1, <1>2, SMT DEF Last
<1>4. Line(I, t)
  BY <1>1, <1>2, <1>3 DEF Line
<1>5. Sound(I, Last(t), Last(s))
  <2>1. Sound(I, s[Len(t)], s[Len(t) + 1])
    BY <1>2 DEF Line
  <2>2. QED
    BY <1>1, <1>2, <1>3, <2>1
<1>6. QED
  BY <1>1, <1>3, <1>4, <1>5 DEF t

\* A line is no longer than the height of its first block allows.
LEMMA LineFits ==
  ASSUME NEW I, IndexOK(I), NEW s, Line(I, s), s[1] \in DOMAIN I
  PROVE  Len(s) <= MaxHeight + 1
<1>1. Len(s) \in Nat \ {0}
  BY FrontParts DEF Line
<1>2. 1 \in 1 .. Len(s) /\ Len(s) \in 1 .. Len(s)
  BY <1>1, SMT
<1>3. PICK a \in Nat, z \in Nat : a = I[s[1]].height /\ z = I[s[Len(s)]].height
  BY <1>2, LineHeights
<1>4. a + 1 = z + Len(s)
  <2>1. I[s[1]].height + 1 = I[s[Len(s)]].height + Len(s)
    BY <1>2, LineHeights, SMT
  <2>2. QED
    BY <1>3, <2>1
<1>5. a <= MaxHeight
  BY <1>3, EntryHeight
<1>6. QED
  BY <1>1, <1>4, <1>5, HeightAssumption, SMT

\* One more stage of the closure.
ClosureStep(I, A) == A \cup UNION {SoundParent(I, x) : x \in A}

LEMMA ParentIsSound ==
  ASSUME NEW I, NEW x, NEW p
  PROVE  p \in SoundParent(I, x) <=> Sound(I, x, p)
  BY DEF SoundParent, Sound

\* Ancestors(I, h) are the blocks that lines from h lead to.
LEMMA AncestorLines ==
  ASSUME NEW I, IndexOK(I), NEW h \in Hash
  PROVE  \A x : x \in Ancestors(I, h) <=> h \in DOMAIN I /\ \E s : LineTo(I, s, h, x)
<1> DEFINE N == MaxHeight
           V == SUBSET DOMAIN I
           b == {h} \cap DOMAIN I
           F == [p \in V \X (1 .. N) |-> ClosureStep(I, p[1])]
           P(f) == f = [n \in 0 .. N |->
                          IF n = 0 THEN b
                          ELSE f[n - 1] \cup UNION {SoundParent(I, x) : x \in f[n - 1]}]
           run == CHOOSE f : P(f)
<1>1. Ancestors(I, h) = run[N]
  BY DEF Ancestors
<1>2. N \in Nat /\ b \in V
  BY HeightAssumption
<1>3. ASSUME NEW A \in V PROVE ClosureStep(I, A) \in V
  BY DEF ClosureStep, SoundParent
<1>4. F \in [V \X (1 .. N) -> V]
  <2> HIDE DEF V, N
  <2>1. \A p \in V \X (1 .. N) : ClosureStep(I, p[1]) \in V
    BY <1>3, SMT
  <2>2. QED
    BY <2>1
<1> HIDE DEF V, b, N
<1>5. PICK f : Solves(f, N, V, b, F)
  <2> HIDE DEF F
  <2>1. QED
    BY <1>2, <1>4, RecursionExists
<1>6. P(f)
  <2>1. f \in [0 .. N -> V] /\ f[0] = b
    BY <1>5 DEF Solves
  <2>2. ASSUME NEW n \in 1 .. N
        PROVE  f[n] = f[n - 1] \cup UNION {SoundParent(I, x) : x \in f[n - 1]}
    <3>1. n - 1 \in 0 .. N
      BY <1>2, SMT
    <3>2. f[n - 1] \in V
      BY <2>1, <3>1
    <3>3. f[n] = F[<<f[n - 1], n>>]
      BY <1>5 DEF Solves
    <3>4. f[n] = ClosureStep(I, f[n - 1])
      BY <3>2, <3>3
    <3>5. QED
      BY <3>4 DEF ClosureStep
  <2> HIDE DEF F
  <2>3. \A n \in 1 .. N : n # 0 /\ n \in 0 .. N
    BY <1>2, SMT
  <2>4. \A n \in 0 .. N : n = 0 \/ n \in 1 .. N
    BY <1>2, SMT
  <2>5. \A n \in 0 .. N : f[n] = IF n = 0 THEN b
                                 ELSE f[n - 1] \cup UNION {SoundParent(I, x) : x \in f[n - 1]}
    BY <2>1, <2>2, <2>3, <2>4
  <2>6. QED
    BY <2>1, <2>5
<1>7. P(run)
  <2> HIDE DEF P
  <2>1. QED
    BY <1>6
<1> HIDE DEF run, F
<1>8. run[0] = b /\ \A n \in 1 .. N : run[n] = ClosureStep(I, run[n - 1])
  <2>1. 0 \in 0 .. N /\ \A n \in 1 .. N : n \in 0 .. N /\ n # 0
    BY <1>2, SMT
  <2>2. QED
    BY <1>7, <2>1 DEF ClosureStep
<1> HIDE DEF P
<1> DEFINE Short(n, x) == h \in DOMAIN I /\ \E s : LineTo(I, s, h, x) /\ Len(s) <= n + 1
           T == {n \in 0 .. N : \A x : x \in run[n] <=> Short(n, x)}
<1>9. 0 \in T
  <2>1. ASSUME NEW x, x \in run[0] PROVE Short(0, x)
    <3>1. x = h /\ h \in DOMAIN I
      BY <1>8, <2>1 DEF b
    <3>2. LineTo(I, <<h>>, h, h) /\ Len(<<h>>) = 1
      BY LineAlone
    <3>3. Len(<<h>>) <= 0 + 1
      BY <3>2, SMT
    <3>4. QED
      BY <3>1, <3>2, <3>3
  <2>2. ASSUME NEW x, Short(0, x) PROVE x \in run[0]
    <3>1. PICK s : LineTo(I, s, h, x) /\ Len(s) <= 0 + 1
      BY <2>2
    <3>2. Len(s) \in Nat \ {0}
      BY <3>1, FrontParts DEF Line, LineTo
    <3>3. Len(s) = 1
      <4>1. PICK n \in Nat \ {0} : n = Len(s) /\ n <= 0 + 1
        BY <3>1, <3>2
      <4>2. n = 1
        BY <4>1, SMT
      <4>3. QED
        BY <4>1, <4>2
    <3>4. x = h
      BY <3>1, <3>3 DEF LineTo, Last
    <3>5. QED
      BY <1>8, <2>2, <3>4 DEF b
  <2>3. 0 \in 0 .. N
    BY <1>2, SMT
  <2>4. QED
    BY <2>1, <2>2, <2>3
<1>10. ASSUME NEW n \in 1 .. N, n - 1 \in T
       PROVE  n \in T
  <2>1. n \in 0 .. N /\ n - 1 \in Nat /\ (n - 1) + 1 = n /\ n \in Nat
    BY <1>2, SMT
  <2>2. \A x : x \in run[n - 1] <=> Short(n - 1, x)
    BY <1>10
  <2>3. run[n] = ClosureStep(I, run[n - 1])
    BY <1>8
  <2> HIDE DEF Short
  <2>4. \A x : x \in run[n] <=> x \in run[n - 1] \/ \E y \in run[n - 1] : Sound(I, y, x)
    BY <2>3, ParentIsSound DEF ClosureStep
  <2>5. ASSUME NEW x, x \in run[n] PROVE Short(n, x)
    <3>1. CASE x \in run[n - 1]
      <4>1. PICK s : h \in DOMAIN I /\ LineTo(I, s, h, x) /\ Len(s) <= (n - 1) + 1
        BY <2>2, <3>1 DEF Short
      <4>2. Len(s) \in Nat \ {0}
        BY <4>1, FrontParts DEF Line, LineTo
      <4>3. Len(s) <= n + 1
        BY <2>1, <4>1, <4>2, SMT
      <4>4. QED
        BY <4>1, <4>3 DEF Short
    <3>2. CASE \E y \in run[n - 1] : Sound(I, y, x)
      <4>1. PICK y \in run[n - 1] : Sound(I, y, x)
        BY <3>2
      <4>2. PICK s : h \in DOMAIN I /\ LineTo(I, s, h, y) /\ Len(s) <= (n - 1) + 1
        BY <2>2, <4>1 DEF Short
      <4>3. s \in Seq(Hash) /\ x \in Hash /\ Len(s) \in Nat \ {0}
        BY <4>1, <4>2, FrontParts DEF Line, LineTo, Sound, IndexOK
      <4>4. /\ Len(Append(s, x)) = Len(s) + 1 /\ Append(s, x)[Len(s) + 1] = x
            /\ \A i \in 1 .. Len(s) : Append(s, x)[i] = s[i]
        BY <4>3, Extended, SMT
      <4>5. 1 \in 1 .. Len(s) /\ Len(s) + 1 <= n + 1
        BY <2>1, <4>2, <4>3, SMT
      <4>6. Line(I, Append(s, x))
        BY <4>1, <4>2, LineExtends DEF LineTo
      <4>7. LineTo(I, Append(s, x), h, x)
        BY <4>2, <4>4, <4>5, <4>6 DEF LineTo, Last
      <4>8. QED
        BY <4>2, <4>4, <4>5, <4>7 DEF Short
    <3>3. QED
      BY <2>4, <2>5, <3>1, <3>2
  <2>6. ASSUME NEW x, Short(n, x) PROVE x \in run[n]
    <3>1. PICK s : h \in DOMAIN I /\ LineTo(I, s, h, x) /\ Len(s) <= n + 1
      BY <2>6 DEF Short
    <3>2. Len(s) \in Nat \ {0}
      BY <3>1, FrontParts DEF Line, LineTo
    <3>3. CASE Len(s) = 1
      <4>1. Len(s) <= (n - 1) + 1
        BY <2>1, <3>3, SMT
      <4>2. Short(n - 1, x)
        BY <3>1, <4>1 DEF Short
      <4>3. QED
        BY <2>2, <2>4, <4>2
    <3>4. CASE Len(s) # 1
      <4>1. /\ Line(I, Front(s)) /\ Front(s)[1] = h /\ Len(Front(s)) = Len(s) - 1
            /\ Sound(I, Last(Front(s)), x)
        BY <3>1, <3>4, LineShortened DEF LineTo
      <4>2. Len(s) - 1 <= (n - 1) + 1
        BY <2>1, <3>1, <3>2, SMT
      <4>3. Short(n - 1, Last(Front(s)))
        BY <3>1, <4>1, <4>2 DEF Short, LineTo
      <4>4. QED
        BY <2>2, <2>4, <4>1, <4>3
    <3>5. QED
      BY <3>3, <3>4
  <2>7. QED
    BY <2>1, <2>5, <2>6
<1>11. \A x : x \in run[N] <=> Short(N, x)
  <2> HIDE DEF T
  <2>1. \A n \in 0 .. N : n \in T
    BY <1>2, <1>9, <1>10, InductionUpTo
  <2>2. N \in T
    BY <1>2, <2>1, SMT
  <2>3. QED
    BY <2>2 DEF T
<1>12. ASSUME NEW x, NEW s, h \in DOMAIN I, LineTo(I, s, h, x) PROVE Len(s) <= N + 1
  BY <1>12, LineFits DEF LineTo, N
<1>13. QED
  BY <1>1, <1>11, <1>12

\* Ancestors are known, the block itself is one, and so is the parent of one.
LEMMA AncestorParts ==
  ASSUME NEW I, IndexOK(I), NEW h \in Hash
  PROVE  /\ Ancestors(I, h) \subseteq DOMAIN I
         /\ h \in DOMAIN I => h \in Ancestors(I, h)
         /\ h \notin DOMAIN I => Ancestors(I, h) = {}
         /\ \A x \in Ancestors(I, h) : \A y : Sound(I, x, y) => y \in Ancestors(I, h)
<1>1. ASSUME NEW x \in Ancestors(I, h)
      PROVE  x \in DOMAIN I
  <2>1. PICK s : h \in DOMAIN I /\ LineTo(I, s, h, x)
    BY AncestorLines
  <2>2. Len(s) \in Nat \ {0}
    BY <2>1, FrontParts DEF Line, LineTo
  <2>3. Len(s) \in 1 .. Len(s)
    BY <2>2, SMT
  <2>4. s[Len(s)] \in DOMAIN I
    BY <2>1, <2>3, LineHeights DEF LineTo
  <2>5. QED
    BY <2>1, <2>4 DEF LineTo, Last
<1>2. h \in DOMAIN I => h \in Ancestors(I, h)
  BY AncestorLines, LineAlone
<1>3. h \notin DOMAIN I => Ancestors(I, h) = {}
  BY AncestorLines
<1>4. ASSUME NEW x \in Ancestors(I, h), NEW y, Sound(I, x, y)
      PROVE  y \in Ancestors(I, h)
  <2>1. PICK s : h \in DOMAIN I /\ LineTo(I, s, h, x)
    BY AncestorLines
  <2>2. s \in Seq(Hash) /\ y \in Hash /\ Len(s) \in Nat \ {0}
    BY <1>4, <2>1, FrontParts DEF Line, LineTo, Sound, IndexOK
  <2>3. /\ Len(Append(s, y)) = Len(s) + 1 /\ Append(s, y)[Len(s) + 1] = y
        /\ \A i \in 1 .. Len(s) : Append(s, y)[i] = s[i]
    BY <2>2, Extended, SMT
  <2>4. 1 \in 1 .. Len(s)
    BY <2>2, SMT
  <2>5. Line(I, Append(s, y))
    BY <1>4, <2>1, LineExtends DEF LineTo
  <2>6. LineTo(I, Append(s, y), h, y)
    BY <2>1, <2>3, <2>4, <2>5 DEF LineTo, Last
  <2>7. QED
    BY <2>1, <2>6, AncestorLines
<1>5. QED
  BY <1>1, <1>2, <1>3, <1>4

\* A line that starts among the ancestors of h stays among them.
LEMMA LineStays ==
  ASSUME NEW I, IndexOK(I), NEW h \in Hash, NEW s, Line(I, s), s[1] \in Ancestors(I, h)
  PROVE  \A i \in 1 .. Len(s) : s[i] \in Ancestors(I, h)
<1> DEFINE N == Len(s) - 1
           T == {n \in 0 .. N : s[n + 1] \in Ancestors(I, h)}
<1>1. Len(s) \in Nat \ {0} /\ N \in Nat
  BY SMT DEF Line
<1>2. 0 \in T
  BY <1>1, SMT
<1>3. ASSUME NEW n \in 1 .. N, n - 1 \in T
      PROVE  n \in T
  <2>1. n \in 1 .. Len(s) - 1 /\ n \in 0 .. N /\ (n - 1) + 1 = n
    BY <1>1, SMT
  <2>2. s[n] \in Ancestors(I, h)
    BY <1>3, <2>1
  <2>3. Sound(I, s[n], s[n + 1])
    BY <2>1 DEF Line
  <2>4. QED
    BY <2>1, <2>2, <2>3, AncestorParts
<1>4. \A n \in 0 .. N : n \in T
  <2> HIDE DEF T, N
  <2>1. QED
    BY <1>1, <1>2, <1>3, InductionUpTo
<1>5. \A i \in 1 .. Len(s) : i - 1 \in 0 .. N /\ (i - 1) + 1 = i
  BY <1>1, SMT
<1>6. QED
  BY <1>4, <1>5

\* Ancestors of an ancestor are ancestors.
LEMMA AncestorsNest ==
  ASSUME NEW I, IndexOK(I), NEW h \in Hash, NEW x \in Ancestors(I, h)
  PROVE  Ancestors(I, x) \subseteq Ancestors(I, h)
<1>1. x \in Hash
  BY AncestorParts DEF IndexOK
<1>2. ASSUME NEW y \in Ancestors(I, x)
      PROVE  y \in Ancestors(I, h)
  <2>1. PICK s : LineTo(I, s, x, y)
    BY <1>1, AncestorLines
  <2>2. Len(s) \in Nat \ {0}
    BY <2>1, FrontParts DEF Line, LineTo
  <2>3. Len(s) \in 1 .. Len(s)
    BY <2>2, SMT
  <2>4. s[Len(s)] \in Ancestors(I, h)
    BY <2>1, <2>3, LineStays DEF LineTo
  <2>5. QED
    BY <2>1, <2>4 DEF LineTo, Last
<1>3. QED
  BY <1>2

\* A part of a line is a line.
LEMMA LinePart ==
  ASSUME NEW I, NEW s, Line(I, s), NEW a \in 1 .. Len(s), NEW z \in 1 .. Len(s), a <= z
  PROVE  LineTo(I, SubSeq(s, a, z), s[a], s[z])
<1> DEFINE t == SubSeq(s, a, z)
<1>1. s \in Seq(Hash) /\ Len(s) \in Nat
  BY SMT DEF Line
<1>2. \A i \in a .. z : s[i] \in Hash
  BY <1>1, SMT
<1>3. /\ t \in Seq(Hash) /\ Len(t) = IF z < a THEN 0 ELSE z - a + 1
      /\ \A i \in 1 .. z - a + 1 : t[i] = s[a + i - 1]
  BY <1>1, <1>2, Sliced, SMT
<1> HIDE DEF t
<1>4. /\ Len(t) = z - a + 1 /\ Len(t) \in Nat \ {0}
      /\ 1 \in 1 .. z - a + 1 /\ a + 1 - 1 = a
      /\ Len(t) \in 1 .. z - a + 1 /\ a + Len(t) - 1 = z
  BY <1>1, <1>3, SMT
<1>5. t # <<>> /\ t[1] = s[a] /\ Last(t) = s[z]
  <2>1. t # <<>>
    BY <1>4, SMT
  <2>2. t[1] = s[a + 1 - 1] /\ t[Len(t)] = s[a + Len(t) - 1]
    BY <1>3, <1>4
  <2>3. QED
    BY <1>4, <2>1, <2>2 DEF Last
<1>6. ASSUME NEW i \in 1 .. Len(t) - 1
      PROVE  Sound(I, t[i], t[i + 1])
  <2> DEFINE k == a + i - 1
  <2>1. /\ i \in 1 .. z - a + 1 /\ i + 1 \in 1 .. z - a + 1
        /\ k \in 1 .. Len(s) - 1 /\ a + (i + 1) - 1 = k + 1
    BY <1>1, <1>4, SMT
  <2>2. t[i] = s[k] /\ t[i + 1] = s[a + (i + 1) - 1]
    BY <1>3, <2>1
  <2>3. Sound(I, s[k], s[k + 1])
    BY <2>1 DEF Line
  <2>4. QED
    BY <2>1, <2>2, <2>3
<1>7. QED
  BY <1>3, <1>5, <1>6 DEF Line, LineTo, t

LEMMA LineLength ==
  ASSUME NEW I, NEW s, Line(I, s)
  PROVE  /\ Len(s) \in Nat \ {0} /\ 1 \in 1 .. Len(s) /\ Len(s) \in 1 .. Len(s)
         /\ Last(s) = s[Len(s)]
<1>1. Len(s) \in Nat \ {0} /\ Last(s) = s[Len(s)]
  BY FrontParts DEF Line
<1>2. 1 \in 1 .. Len(s) /\ Len(s) \in 1 .. Len(s)
  BY <1>1, SMT
<1>3. QED
  BY <1>1, <1>2

\* All blocks of a line but the last one.
LEMMA FrontRange ==
  ASSUME NEW I, NEW s, Line(I, s)
  PROVE  \A x : x \in Range(Front(s)) <=> \E i \in 1 .. Len(s) - 1 : x = s[i]
<1>1. /\ Front(s) \in Seq(Hash) /\ Len(Front(s)) = Len(s) - 1
      /\ \A i \in 1 .. Len(s) - 1 : Front(s)[i] = s[i]
  BY FrontParts DEF Line
<1>2. \A x : x \in Range(Front(s)) <=> \E i \in 1 .. Len(Front(s)) : x = Front(s)[i]
  BY <1>1, RangeOf, SMT
<1>3. QED
  BY <1>1, <1>2

LEMMA LineRange ==
  ASSUME NEW I, NEW s, Line(I, s)
  PROVE  Range(s) = Range(Front(s)) \cup {Last(s)}
<1>1. s \in Seq(Hash)
  BY DEF Line
<1>2. Len(s) \in Nat \ {0} /\ Last(s) = s[Len(s)]
  BY LineLength
<1>3. \A x : x \in Range(s) <=> \E i \in 1 .. Len(s) : x = s[i]
  BY <1>1, RangeOf, SMT
<1>4. \A x : x \in Range(Front(s)) <=> \E i \in 1 .. Len(s) - 1 : x = s[i]
  BY FrontRange
<1>5. /\ Len(s) \in 1 .. Len(s)
      /\ \A i \in 1 .. Len(s) : i = Len(s) \/ i \in 1 .. Len(s) - 1
      /\ \A i \in 1 .. Len(s) - 1 : i \in 1 .. Len(s)
  BY <1>2, SMT
<1>6. QED
  BY <1>2, <1>3, <1>4, <1>5

\* A line of more than one block starts with a sound link; a block of height 0 has none.
LEMMA LineStarts ==
  ASSUME NEW I, NEW s, Line(I, s), Len(s) # 1
  PROVE  Sound(I, s[1], s[2])
<1>1. Len(s) \in Nat \ {0}
  BY LineLength
<1>2. 1 \in 1 .. Len(s) - 1 /\ 1 + 1 = 2
  <2>1. PICK n \in Nat \ {0} : n = Len(s) /\ n # 1
    BY <1>1
  <2>2. 1 \in 1 .. n - 1 /\ 1 + 1 = 2
    BY <2>1, SMT
  <2>3. QED
    BY <2>1, <2>2
<1>3. Sound(I, s[1], s[1 + 1])
  BY <1>2 DEF Line
<1>4. QED
  BY <1>2, <1>3

LEMMA RootHasNoLink ==
  ASSUME NEW I, NEW x, I[x].height = 0, NEW p, Sound(I, x, p)
  PROVE  FALSE
<1>1. 0 > 0
  BY DEF Sound
<1>2. QED
  BY <1>1, SMT

\* The heights of two blocks of a line.
Drops(I, s, i, j) ==
  /\ I[s[i]].height \in Nat /\ I[s[j]].height \in Nat
  /\ I[s[i]].height + i = I[s[j]].height + j

LEMMA LineDrops ==
  ASSUME NEW I, IndexOK(I), NEW s, Line(I, s), s[1] \in DOMAIN I,
         NEW i \in 1 .. Len(s), NEW j \in 1 .. Len(s)
  PROVE  Drops(I, s, i, j)
  BY LineHeights, SMT DEF Drops

\* The longer one of two lines from a block goes on where the other one ends.
LEMMA LineGoesOn ==
  ASSUME NEW I, NEW s, NEW t, NEW h, NEW x, NEW y, LineTo(I, s, h, x), LineTo(I, t, h, y),
         Len(s) <= Len(t)
  PROVE  t[Len(s)] = x /\ LineTo(I, SubSeq(t, Len(s), Len(t)), x, y)
<1>1. Line(I, s) /\ Line(I, t) /\ s[1] = t[1]
  BY DEF LineTo
<1>2. /\ Len(s) \in Nat \ {0} /\ Len(s) \in 1 .. Len(s) /\ s[Len(s)] = x
      /\ Len(t) \in Nat \ {0} /\ Len(t) \in 1 .. Len(t) /\ t[Len(t)] = y
  BY <1>1, LineLength DEF LineTo
<1>3. s[Len(s)] = t[Len(s)]
  BY <1>1, <1>2, LineUnique, SMT
<1>4. Len(s) \in 1 .. Len(t)
  BY <1>2, SMT
<1>5. LineTo(I, SubSeq(t, Len(s), Len(t)), t[Len(s)], t[Len(t)])
  BY <1>1, <1>2, <1>4, LinePart, SMT
<1>6. QED
  BY <1>2, <1>3, <1>5

\* No ancestor is higher than the block.
LEMMA AncestorIsLower ==
  ASSUME NEW I, IndexOK(I), NEW h \in Hash, NEW x \in Ancestors(I, h)
  PROVE  I[h].height \in Nat /\ I[x].height \in Nat /\ I[x].height <= I[h].height
<1>1. PICK s : h \in DOMAIN I /\ LineTo(I, s, h, x)
  BY AncestorLines
<1>2. Line(I, s) /\ s[1] = h /\ s[1] \in DOMAIN I
  BY <1>1 DEF LineTo
<1>3. /\ Len(s) \in Nat \ {0} /\ 1 \in 1 .. Len(s) /\ Len(s) \in 1 .. Len(s)
      /\ s[Len(s)] = x
  BY <1>1, <1>2, LineLength DEF LineTo
<1>4. PICK a \in Nat, z \in Nat :
        a = I[s[1]].height /\ z = I[s[Len(s)]].height /\ a + 1 = z + Len(s)
  <2>1. Drops(I, s, 1, Len(s))
    BY <1>2, <1>3, LineDrops
  <2>2. QED
    BY <2>1 DEF Drops
<1>5. z <= a
  BY <1>3, <1>4, SMT
<1>6. QED
  BY <1>2, <1>3, <1>4, <1>5

\* The ancestors of the first block of a line are the line down to its last block,
\* and the ancestors of that one.
LEMMA LineAncestors ==
  ASSUME NEW I, IndexOK(I), NEW s, Line(I, s), s[1] \in DOMAIN I
  PROVE  /\ Last(s) \in DOMAIN I /\ s[1] \in Hash /\ Last(s) \in Hash
         /\ Ancestors(I, s[1]) = Range(Front(s)) \cup Ancestors(I, Last(s))
         /\ Range(Front(s)) \cap Ancestors(I, Last(s)) = {}
<1>1. \A x : x \in Range(Front(s)) <=> \E i \in 1 .. Len(s) - 1 : x = s[i]
  BY FrontRange
<1>2. /\ Len(s) \in Nat \ {0} /\ 1 \in 1 .. Len(s) /\ Len(s) \in 1 .. Len(s)
      /\ Last(s) = s[Len(s)]
  BY LineLength
<1>3. \A i \in 1 .. Len(s) : s[i] \in DOMAIN I
  BY LineHeights
<1>4. Last(s) \in DOMAIN I /\ s[1] \in Hash /\ Last(s) \in Hash
  BY <1>2, <1>3 DEF IndexOK
<1>5. \A i \in 1 .. Len(s) - 1 : i \in 1 .. Len(s)
  BY <1>2, SMT
<1>6. s[1] \in Ancestors(I, s[1])
  BY <1>4, AncestorParts
<1>7. \A i \in 1 .. Len(s) : s[i] \in Ancestors(I, s[1])
  BY <1>4, <1>6, LineStays
<1>8. ASSUME NEW x \in Ancestors(I, s[1]), x \notin Range(Front(s))
      PROVE  x \in Ancestors(I, Last(s))
  <2>1. LineTo(I, s, s[1], Last(s))
    BY DEF LineTo
  <2>2. PICK t : LineTo(I, t, s[1], x)
    BY <1>4, AncestorLines
  <2>3. Len(t) \in Nat \ {0} /\ t[Len(t)] = x
    BY <2>2, LineLength DEF LineTo
  <2>4. CASE Len(t) <= Len(s)
    <3>1. s[Len(t)] = x
      BY <2>1, <2>2, <2>4, LineGoesOn
    <3>2. Len(t) = Len(s) \/ Len(t) \in 1 .. Len(s) - 1
      BY <1>2, <2>3, <2>4, SMT
    <3>3. x = Last(s)
      BY <1>1, <1>2, <1>8, <3>1, <3>2
    <3>4. QED
      BY <1>4, <3>3, AncestorParts
  <2>5. CASE ~(Len(t) <= Len(s))
    <3>1. Len(s) <= Len(t)
      BY <1>2, <2>3, <2>5, SMT
    <3>2. LineTo(I, SubSeq(t, Len(s), Len(t)), Last(s), x)
      BY <2>1, <2>2, <3>1, LineGoesOn
    <3>3. QED
      BY <1>4, <3>2, AncestorLines
  <2>6. QED
    BY <2>4, <2>5
<1>9. Ancestors(I, Last(s)) \subseteq Ancestors(I, s[1])
  <2>1. Last(s) \in Ancestors(I, s[1])
    BY <1>2, <1>7
  <2>2. QED
    BY <1>4, <2>1, AncestorsNest
<1>10. ASSUME NEW i \in 1 .. Len(s) - 1, s[i] \in Ancestors(I, Last(s))
       PROVE  FALSE
  <2>1. i \in 1 .. Len(s)
    BY <1>5
  <2>2. Drops(I, s, i, Len(s))
    BY <1>2, <2>1, LineDrops
  <2>3. I[s[i]].height <= I[Last(s)].height
    BY <1>4, <1>10, AncestorIsLower
  <2>4. PICK a \in Nat, z \in Nat : a <= z /\ a + i = z + Len(s)
    BY <1>2, <2>2, <2>3 DEF Drops
  <2>5. QED
    BY <1>2, <2>4, SMT
<1>11. Range(Front(s)) \cap Ancestors(I, Last(s)) = {}
  BY <1>1, <1>10
<1>12. Range(Front(s)) \subseteq Ancestors(I, s[1])
  BY <1>1, <1>5, <1>7
<1>13. Ancestors(I, s[1]) = Range(Front(s)) \cup Ancestors(I, Last(s))
  BY <1>8, <1>9, <1>12
<1>14. QED
  BY <1>4, <1>11, <1>13

\* A block without a sound link has no other ancestor.
LEMMA AloneAncestors ==
  ASSUME NEW I, IndexOK(I), NEW x \in DOMAIN I, \A p : ~Sound(I, x, p)
  PROVE  Ancestors(I, x) = {x}
<1>1. x \in Hash
  BY DEF IndexOK
<1>2. ASSUME NEW y \in Ancestors(I, x)
      PROVE  y = x
  <2>1. PICK t : LineTo(I, t, x, y)
    BY <1>1, AncestorLines
  <2>2. Len(t) = 1
    BY <2>1, LineStarts DEF LineTo
  <2>3. QED
    BY <2>1, <2>2 DEF LineTo, Last
<1>3. QED
  BY <1>1, <1>2, AncestorParts

\* A walk ends, with an error or without.
LEMMA WalkResult ==
  ASSUME NEW I, IndexOK(I), NEW tip \in Hash, NEW stop, NEW w, w = Walk(I, tip, stop)
  PROVE  /\ w.err = "" \/ w.err \in WalkErrors
         /\ "" \notin WalkErrors /\ "NoCommonAncestor" \notin WalkErrors
         /\ LineTo(I, w.path, tip, Last(w.path))
         /\ \A x \in Range(Front(w.path)) : x \notin stop
         /\ Last(w.path) \in stop => w.err = ""
<1>1. Walked(I, tip, stop, w) /\ w.err # "walking"
  BY WalkEnds
<1>2. w.err \in WalkErrors \cup {"", "walking"} /\ Line(I, w.path)
  BY <1>1 DEF Walked, Walks
<1>3. "" \notin WalkErrors /\ "NoCommonAncestor" \notin WalkErrors
  BY SMT DEF WalkErrors, LinkErrors
<1>4. \A x \in Range(Front(w.path)) : x \notin stop
  <2>1. \A x : x \in Range(Front(w.path)) <=> \E i \in 1 .. Len(w.path) - 1 : x = w.path[i]
    BY <1>2, FrontRange
  <2>2. \A i \in 1 .. Len(w.path) - 1 : w.path[i] \notin stop
    BY <1>1 DEF Walked
  <2>3. SUFFICES ASSUME NEW x \in Range(Front(w.path)), x \in stop
                 PROVE  FALSE
    OBVIOUS
  <2>4. PICK i \in 1 .. Len(w.path) - 1 : x = w.path[i]
    BY <2>1
  <2>5. QED
    BY <2>2, <2>3, <2>4
<1>5. QED
  BY <1>1, <1>2, <1>3, <1>4 DEF Walked, LineTo

\* All that a walk tells when it meets no block of stop.
Missed(I, tip, stop, w) ==
  /\ Ancestors(I, tip) \cap stop = {}
  /\ w.err = "" <=> Rooted(I, tip)
  /\ w.err = "" =>
       /\ tip \in DOMAIN I
       /\ Ancestors(I, tip) = Range(w.path)
       /\ I[Last(w.path)].height = 0

\* Such a walk has been to all ancestors; it is Ok exactly when one of them has
\* height 0.
LEMMA WalkMisses ==
  ASSUME NEW I, IndexOK(I), NEW tip \in Hash, NEW stop, NEW w, w = Walk(I, tip, stop),
         Last(w.path) \notin stop
  PROVE  Missed(I, tip, stop, w)
<1> DEFINE s == w.path
<1>1. /\ w.err = "" \/ w.err \in WalkErrors
      /\ "" \notin WalkErrors
      /\ Line(I, s) /\ s[1] = tip
      /\ \A x \in Range(Front(s)) : x \notin stop
  <2>1. LineTo(I, s, tip, Last(s))
    BY WalkResult
  <2>2. \A x \in Range(Front(s)) : x \notin stop
    BY WalkResult
  <2>3. (w.err = "" \/ w.err \in WalkErrors) /\ "" \notin WalkErrors
    BY WalkResult
  <2>4. QED
    BY <2>1, <2>2, <2>3 DEF LineTo
<1>2. Walked(I, tip, stop, w)
  BY WalkEnds
<1>3. /\ w.err = "" => Last(s) \in DOMAIN I /\ I[Last(s)].height = 0
      /\ w.err \in WalkErrors =>
           /\ Last(s) \in DOMAIN I => I[Last(s)].height # 0
           /\ \A p : ~Sound(I, Last(s), p)
  BY <1>2 DEF Walked
<1>4. \A p : ~Sound(I, Last(s), p)
  BY <1>1, <1>3, RootHasNoLink
<1>5. /\ Range(s) = Range(Front(s)) \cup {Last(s)}
      /\ \A x : x \in Range(Front(s)) <=> \E i \in 1 .. Len(s) - 1 : x = s[i]
  BY <1>1, LineRange, FrontRange
<1>6. CASE tip \notin DOMAIN I
  <2>1. Ancestors(I, tip) = {}
    BY <1>6, AncestorParts
  <2>2. ~Rooted(I, tip)
    BY <2>1 DEF Rooted
  <2>3. Len(s) = 1
    BY <1>1, <1>6, LineStarts DEF Sound
  <2>4. Last(s) = tip
    BY <1>1, <2>3 DEF Last
  <2>5. QED
    BY <1>3, <1>6, <2>1, <2>2, <2>4 DEF Missed
<1>7. CASE tip \in DOMAIN I
  <2>1. /\ Last(s) \in DOMAIN I
        /\ Ancestors(I, tip) = Range(Front(s)) \cup Ancestors(I, Last(s))
    BY <1>1, <1>7, LineAncestors
  <2>2. Ancestors(I, Last(s)) = {Last(s)}
    BY <1>4, <2>1, AloneAncestors
  <2>3. Ancestors(I, tip) = Range(s)
    BY <1>5, <2>1, <2>2
  <2>4. Ancestors(I, tip) \cap stop = {}
    BY <1>1, <2>1, <2>2
  <2>5. w.err = "" => Rooted(I, tip)
    BY <1>3, <2>1, <2>2 DEF Rooted
  <2>6. ASSUME Rooted(I, tip) PROVE w.err = ""
    <3>1. PICK r \in Ancestors(I, tip) : I[r].height = 0
      BY <2>6 DEF Rooted
    <3>2. CASE r = Last(s)
      BY <1>1, <1>3, <2>1, <3>1, <3>2
    <3>3. CASE r # Last(s)
      <4>1. PICK i \in 1 .. Len(s) - 1 : r = s[i]
        BY <1>5, <2>1, <2>2, <3>3
      <4>2. Sound(I, r, s[i + 1])
        BY <1>1, <4>1 DEF Line
      <4>3. QED
        BY <3>1, <4>2, RootHasNoLink
    <3>4. QED
      BY <3>2, <3>3
  <2>7. QED
    BY <1>3, <1>7, <2>3, <2>4, <2>5, <2>6 DEF Missed
<1>8. QED
  BY <1>6, <1>7

\* The path toward genesis.
LEMMA PathToRoot ==
  ASSUME NEW I, IndexOK(I), NEW tip \in Hash, NEW w, w = path_from_tip_toward_genesis(I, tip)
  PROVE  /\ w.err = "" \/ w.err \in WalkErrors
         /\ w.err = "" <=> Rooted(I, tip)
         /\ w.err = "" =>
              /\ tip \in DOMAIN I
              /\ Ancestors(I, tip) = Range(w.path)
              /\ I[Last(w.path)].height = 0
         /\ LineTo(I, w.path, tip, Last(w.path))
<1> DEFINE none == {}
<1>1. w = Walk(I, tip, none) /\ Last(w.path) \notin none
  BY DEF path_from_tip_toward_genesis
<1> HIDE DEF none
<1>2. /\ w.err = "" \/ w.err \in WalkErrors
      /\ LineTo(I, w.path, tip, Last(w.path))
  BY <1>1, WalkResult
<1>3. Missed(I, tip, none, w)
  BY <1>1, WalkMisses
<1>4. QED
  BY <1>2, <1>3 DEF Missed

-----------------------------------------------------------------------------
(***************************************************************************)
(* The fork between two tips.                                              *)
(***************************************************************************)
\* Two lines down to fork, the second one without an ancestor of old before it.
Forked(I, old, new, k, q, fork) ==
  /\ old \in DOMAIN I /\ new \in DOMAIN I
  /\ LineTo(I, k, old, fork) /\ LineTo(I, q, new, fork)
  /\ Range(Front(q)) \cap Ancestors(I, old) = {}

\* The fork is the deepest common ancestor.
Splits(I, old, new, k, q, fork) ==
  /\ fork \in DOMAIN I /\ fork \in Hash
  /\ fork \in Ancestors(I, old) /\ fork \in Ancestors(I, new)
  /\ Ancestors(I, old) \cap Ancestors(I, new) = Ancestors(I, fork)
  /\ Range(Front(k)) = Ancestors(I, old) \ Ancestors(I, new)
  /\ Range(Front(q)) = Ancestors(I, new) \ Ancestors(I, old)

LEMMA ForkedAncestors ==
  ASSUME NEW I, IndexOK(I), NEW old \in Hash, NEW new \in Hash, NEW k, NEW q, NEW fork,
         Forked(I, old, new, k, q, fork)
  PROVE  Splits(I, old, new, k, q, fork)
<1> DEFINE A == Ancestors(I, old)
           B == Ancestors(I, new)
           C == Ancestors(I, fork)
<1>1. /\ Line(I, k) /\ k[1] = old /\ Last(k) = fork /\ k[1] \in DOMAIN I
      /\ Line(I, q) /\ q[1] = new /\ Last(q) = fork /\ q[1] \in DOMAIN I
  BY DEF Forked, LineTo
<1>2. /\ Last(k) \in DOMAIN I /\ Last(k) \in Hash
      /\ Ancestors(I, k[1]) = Range(Front(k)) \cup Ancestors(I, Last(k))
      /\ Range(Front(k)) \cap Ancestors(I, Last(k)) = {}
  BY <1>1, LineAncestors
<1>3. /\ Ancestors(I, q[1]) = Range(Front(q)) \cup Ancestors(I, Last(q))
      /\ Range(Front(q)) \cap Ancestors(I, Last(q)) = {}
  BY <1>1, LineAncestors
<1>4. /\ fork \in DOMAIN I /\ fork \in Hash
      /\ A = Range(Front(k)) \cup C /\ Range(Front(k)) \cap C = {}
      /\ B = Range(Front(q)) \cup C /\ Range(Front(q)) \cap C = {}
      /\ Range(Front(q)) \cap A = {}
  BY <1>1, <1>2, <1>3 DEF Forked
<1>5. fork \in C
  BY <1>4, AncestorParts
<1> HIDE DEF A, B, C
<1>6. /\ fork \in A /\ fork \in B /\ A \cap B = C
      /\ Range(Front(k)) = A \ B /\ Range(Front(q)) = B \ A
  BY <1>4, <1>5
<1>7. QED
  BY <1>4, <1>6 DEF A, B, C, Splits

\* The four answers of fork_slices_between_tips.
Answers(I, old, new, s) ==
  \/ s.err \in WalkErrors /\ ~Rooted(I, old)
  \/ /\ s.err \in WalkErrors /\ Rooted(I, old) /\ ~Rooted(I, new)
     /\ Ancestors(I, old) \cap Ancestors(I, new) = {}
  \/ /\ s.err = "NoCommonAncestor" /\ Rooted(I, old) /\ Rooted(I, new)
     /\ Ancestors(I, old) \cap Ancestors(I, new) = {}
  \/ /\ s.err = "" /\ Rooted(I, old)
     /\ \E k, q : /\ Forked(I, old, new, k, q, s.fork_hash)
                  /\ s = Slices("", s.fork_hash, Front(k), Front(q))

\* It gives no other answer; the third walk always meets the fork.
LEMMA SlicesAnswer ==
  ASSUME NEW I, IndexOK(I), NEW old \in Hash, NEW new \in Hash
  PROVE  Answers(I, old, new, fork_slices_between_tips(I, old, new))
<1> DEFINE a == path_from_tip_toward_genesis(I, old)
           b == Walk(I, new, Range(a.path))
           fork == Last(b.path)
           c == Walk(I, old, {fork})
           s == fork_slices_between_tips(I, old, new)
           Err(e) == Slices(e, EmptyHash, <<>>, <<>>)
<1>1. s = IF a.err # "" THEN Err(a.err)
          ELSE IF b.err # "" THEN Err(b.err)
          ELSE IF fork \notin Range(a.path) THEN Err("NoCommonAncestor")
          ELSE IF c.err # "" THEN Err(c.err)
          ELSE IF Last(c.path) # fork THEN Err("NoCommonAncestor")
          ELSE Slices("", fork, Front(c.path), Front(b.path))
  BY DEF fork_slices_between_tips
<1>2. ASSUME NEW e PROVE Err(e).err = e
  BY DEF Slices
<1>3. /\ a.err = "" \/ a.err \in WalkErrors
      /\ a.err = "" <=> Rooted(I, old)
      /\ a.err = "" => old \in DOMAIN I /\ Ancestors(I, old) = Range(a.path)
  BY PathToRoot
<1> DEFINE P == Range(a.path)
<1>4. /\ b.err = "" \/ b.err \in WalkErrors
      /\ "" \notin WalkErrors
      /\ LineTo(I, b.path, new, fork)
      /\ \A x \in Range(Front(b.path)) : x \notin P
      /\ fork \in P => b.err = ""
  BY WalkResult
<1>5. ASSUME fork \notin P PROVE Missed(I, new, P, b)
  BY <1>5, WalkMisses
<1> HIDE DEF a, b, s, Err, P
<1>6. CASE a.err # ""
  <2>1. s.err = a.err
    BY <1>1, <1>2, <1>6
  <2>2. QED
    BY <1>3, <1>6, <2>1 DEF Answers, s
<1>7. CASE a.err = "" /\ fork \notin P
  <2>1. s.err = IF b.err # "" THEN b.err ELSE "NoCommonAncestor"
    BY <1>1, <1>2, <1>7 DEF P
  <2>2. /\ Rooted(I, old) /\ Ancestors(I, new) \cap P = {} /\ P = Ancestors(I, old)
        /\ b.err = "" <=> Rooted(I, new)
    BY <1>3, <1>5, <1>7 DEF Missed, P
  <2>3. Ancestors(I, old) \cap Ancestors(I, new) = {}
    BY <2>2
  <2>4. CASE b.err = ""
    <3>1. s.err = "NoCommonAncestor" /\ Rooted(I, new)
      BY <2>1, <2>2, <2>4
    <3>2. QED
      BY <2>2, <2>3, <3>1 DEF Answers, s
  <2>5. CASE b.err # ""
    <3>1. s.err \in WalkErrors /\ ~Rooted(I, new)
      BY <1>4, <2>1, <2>2, <2>5
    <3>2. QED
      BY <2>2, <2>3, <3>1 DEF Answers, s
  <2>6. QED
    BY <2>4, <2>5
<1>8. CASE a.err = "" /\ fork \in P
  <2>1. /\ Rooted(I, old) /\ old \in DOMAIN I /\ P = Ancestors(I, old) /\ b.err = ""
    BY <1>3, <1>4, <1>8 DEF P
  <2>2. Last(c.path) = fork
    <3> DEFINE stop == {fork}
    <3>1. SUFFICES ASSUME Last(c.path) \notin stop PROVE FALSE
      OBVIOUS
    <3>2. fork \in stop
      OBVIOUS
    <3> HIDE DEF stop, fork
    <3>3. Missed(I, old, stop, c)
      BY <3>1, WalkMisses DEF stop
    <3>4. QED
      BY <1>8, <2>1, <3>2, <3>3 DEF Missed
  <2>3. c.err = "" /\ LineTo(I, c.path, old, fork)
    <3> DEFINE stop == {fork}
    <3>1. Last(c.path) \in stop
      BY <2>2
    <3> HIDE DEF stop, fork
    <3>2. c.err = "" /\ LineTo(I, c.path, old, Last(c.path))
      BY <3>1, WalkResult DEF stop
    <3>3. QED
      BY <2>2, <3>2
  <2> HIDE DEF c
  <2>4. s = Slices("", fork, Front(c.path), Front(b.path))
    BY <1>1, <1>8, <2>1, <2>2, <2>3 DEF P
  <2>5. s.err = "" /\ s.fork_hash = fork
    BY <2>4 DEF Slices
  <2>6. new \in DOMAIN I
    <3>1. fork \in DOMAIN I
      BY <1>8, <2>1, AncestorParts
    <3>2. CASE Len(b.path) = 1
      BY <1>4, <3>1, <3>2 DEF LineTo, Last
    <3>3. CASE Len(b.path) # 1
      BY <1>4, <3>3, LineStarts DEF LineTo, Sound
    <3>4. QED
      BY <3>2, <3>3
  <2>7. Range(Front(b.path)) \cap Ancestors(I, old) = {}
    BY <1>4, <2>1
  <2> HIDE DEF fork
  <2>8. Forked(I, old, new, c.path, b.path, fork)
    BY <1>4, <2>1, <2>3, <2>6, <2>7 DEF Forked
  <2>9. QED
    BY <2>1, <2>4, <2>5, <2>8 DEF Answers, s
<1>9. QED
  BY <1>6, <1>7, <1>8

\* Two lines between the same blocks are the same line.
LEMMA LinesAgree ==
  ASSUME NEW I, IndexOK(I), NEW h \in DOMAIN I, NEW x, NEW s, NEW t,
         LineTo(I, s, h, x), LineTo(I, t, h, x)
  PROVE  s = t
<1>1. /\ Line(I, s) /\ s[1] = h /\ Last(s) = x /\ s[1] \in DOMAIN I
      /\ Line(I, t) /\ t[1] = h /\ Last(t) = x /\ t[1] \in DOMAIN I
  BY DEF LineTo
<1>2. /\ Len(s) \in Nat \ {0} /\ 1 \in 1 .. Len(s) /\ Len(s) \in 1 .. Len(s) /\ s[Len(s)] = x
      /\ Len(t) \in Nat \ {0} /\ 1 \in 1 .. Len(t) /\ Len(t) \in 1 .. Len(t) /\ t[Len(t)] = x
  BY <1>1, LineLength
<1>3. Len(s) = Len(t)
  <2>1. Drops(I, s, 1, Len(s)) /\ Drops(I, t, 1, Len(t))
    BY <1>1, <1>2, LineDrops
  <2>2. PICK a \in Nat, z \in Nat : /\ a = I[h].height /\ z = I[x].height
                                    /\ a + 1 = z + Len(s) /\ a + 1 = z + Len(t)
    BY <1>1, <1>2, <2>1 DEF Drops
  <2>3. QED
    BY <1>2, <2>2, SMT
<1>4. ASSUME NEW i \in 1 .. Len(s) PROVE s[i] = t[i]
  <2>1. i <= Len(t)
    BY <1>2, <1>3, SMT
  <2>2. Line(I, s) /\ Line(I, t) /\ s[1] = t[1]
    BY <1>1
  <2>3. QED
    BY <2>1, <2>2, LineUnique, SMT
<1>5. s \in Seq(Hash) /\ t \in Seq(Hash)
  BY <1>1 DEF Line
<1>6. QED
  BY <1>3, <1>4, <1>5, SMT

LEMMA SameFork ==
  ASSUME NEW I, NEW old, NEW new, NEW k, NEW q, NEW f, Forked(I, old, new, k, q, f),
         NEW j, NEW p, NEW g, Forked(I, old, new, j, p, g), f \in Ancestors(I, old),
         Len(q) <= Len(p)
  PROVE  f = g
<1>1. LineTo(I, q, new, f) /\ LineTo(I, p, new, g) /\ Line(I, p) /\ Line(I, q)
  BY DEF Forked, LineTo
<1>2. /\ Len(q) \in Nat \ {0} /\ Len(p) \in Nat \ {0} /\ p[Len(p)] = g
  BY <1>1, LineLength DEF LineTo
<1>3. p[Len(q)] = f
  BY <1>1, LineGoesOn
<1>4. CASE Len(q) = Len(p)
  BY <1>2, <1>3, <1>4
<1>5. CASE Len(q) # Len(p)
  <2>1. Len(q) \in 1 .. Len(p) - 1
    BY <1>2, <1>5, SMT
  <2>2. f \in Range(Front(p))
    BY <1>1, <1>3, <2>1, FrontRange
  <2>3. QED
    BY <2>2 DEF Forked
<1>6. QED
  BY <1>4, <1>5

\* Only one pair of lines forks.
LEMMA ForkedOnce ==
  ASSUME NEW I, IndexOK(I), NEW old \in Hash, NEW new \in Hash,
         NEW k, NEW q, NEW f, Forked(I, old, new, k, q, f),
         NEW j, NEW p, NEW g, Forked(I, old, new, j, p, g)
  PROVE  k = j /\ q = p /\ f = g
<1>1. f \in Ancestors(I, old) /\ g \in Ancestors(I, old)
  BY ForkedAncestors DEF Splits
<1>2. Len(q) \in Nat /\ Len(p) \in Nat
  BY LineLength DEF Forked, LineTo
<1>3. Len(q) <= Len(p) \/ Len(p) <= Len(q)
  <2>1. PICK m \in Nat, n \in Nat : m = Len(q) /\ n = Len(p)
    BY <1>2
  <2>2. m <= n \/ n <= m
    BY SMT
  <2>3. QED
    BY <2>1, <2>2
<1>4. f = g
  BY <1>1, <1>3, SameFork
<1>5. /\ old \in DOMAIN I /\ new \in DOMAIN I
      /\ LineTo(I, k, old, f) /\ LineTo(I, j, old, f)
      /\ LineTo(I, q, new, f) /\ LineTo(I, p, new, f)
  BY <1>4 DEF Forked
<1>6. QED
  BY <1>4, <1>5, LinesAgree

\* So the slices are found when there are such lines.
Finds(I, old, new, k, q, fork) ==
  fork_slices_between_tips(I, old, new) = Slices("", fork, Front(k), Front(q))

LEMMA SlicesFound ==
  ASSUME NEW I, IndexOK(I), NEW old \in Hash, NEW new \in Hash, NEW k, NEW q, NEW fork,
         Forked(I, old, new, k, q, fork), Rooted(I, old)
  PROVE  Finds(I, old, new, k, q, fork)
<1>1. PICK s : s = fork_slices_between_tips(I, old, new)
  OBVIOUS
<1>2. Answers(I, old, new, s)
  BY <1>1, SlicesAnswer
<1>3. Ancestors(I, old) \cap Ancestors(I, new) # {}
  BY ForkedAncestors DEF Splits
<1>4. PICK j, p : /\ Forked(I, old, new, j, p, s.fork_hash)
                  /\ s = Slices("", s.fork_hash, Front(j), Front(p))
  BY <1>2, <1>3 DEF Answers
<1>5. j = k /\ p = q /\ s.fork_hash = fork
  BY <1>4, ForkedOnce
<1>6. QED
  BY <1>1, <1>4, <1>5 DEF Finds

\* Both suffixes are as long as the heights are apart.
Apart(I, old, new, k, q) ==
  \E a, b, z \in Nat : /\ a = I[old].height /\ b = I[new].height
                       /\ a = z + Len(Front(k)) /\ b = z + Len(Front(q))

LEMMA ForkedHeights ==
  ASSUME NEW I, IndexOK(I), NEW old \in Hash, NEW new \in Hash, NEW k, NEW q, NEW fork,
         Forked(I, old, new, k, q, fork)
  PROVE  Apart(I, old, new, k, q)
<1>1. /\ Line(I, k) /\ k[1] = old /\ Last(k) = fork /\ k[1] \in DOMAIN I
      /\ Line(I, q) /\ q[1] = new /\ Last(q) = fork /\ q[1] \in DOMAIN I
  BY DEF Forked, LineTo
<1>2. /\ Len(k) \in Nat \ {0} /\ 1 \in 1 .. Len(k) /\ Len(k) \in 1 .. Len(k) /\ k[Len(k)] = fork
      /\ Len(q) \in Nat \ {0} /\ 1 \in 1 .. Len(q) /\ Len(q) \in 1 .. Len(q) /\ q[Len(q)] = fork
  BY <1>1, LineLength
<1>3. Drops(I, k, 1, Len(k)) /\ Drops(I, q, 1, Len(q))
  BY <1>1, <1>2, LineDrops
<1>4. PICK a \in Nat, b \in Nat, z \in Nat :
        /\ a = I[old].height /\ b = I[new].height /\ z = I[fork].height
        /\ a + 1 = z + Len(k) /\ b + 1 = z + Len(q)
  BY <1>1, <1>2, <1>3 DEF Drops
<1>5. Len(Front(k)) = Len(k) - 1 /\ Len(Front(q)) = Len(q) - 1
  BY <1>1, FrontParts DEF Line
<1>6. a = z + (Len(k) - 1) /\ b = z + (Len(q) - 1)
  <2>1. PICK m \in Nat \ {0}, n \in Nat \ {0} :
          m = Len(k) /\ n = Len(q) /\ a + 1 = z + m /\ b + 1 = z + n
    BY <1>2, <1>4
  <2>2. a = z + (m - 1) /\ b = z + (n - 1)
    BY <2>1, SMT
  <2>3. QED
    BY <2>1, <2>2
<1>7. QED
  BY <1>4, <1>5, <1>6 DEF Apart

-----------------------------------------------------------------------------
(***************************************************************************)
(* Fork and tips.                                                          *)
(***************************************************************************)
\* What ForkIsDeepestCommonAncestor says of one pair of tips.
ForkIsDeepest(I, old, new, s) ==
  LET A == Ancestors(I, old)
      B == Ancestors(I, new)
  IN  /\ s.err = "" <=> Rooted(I, old) /\ A \cap B # {}
      /\ s.err = "NoCommonAncestor" <=> Rooted(I, old) /\ Rooted(I, new) /\ A \cap B = {}
      /\ s.err = "" =>
           /\ A \cap B = Ancestors(I, s.fork_hash)
           /\ Range(s.old_suffix) = A \ B
           /\ Range(s.new_suffix) = B \ A

LEMMA NotWalkErrors ==
  "" \notin WalkErrors /\ "NoCommonAncestor" \notin WalkErrors /\ "" # "NoCommonAncestor"
BY SMT DEF WalkErrors, LinkErrors

\* It holds in every index.
LEMMA SlicesAreDeepest ==
  ASSUME NEW I, IndexOK(I), NEW old \in Hash, NEW new \in Hash,
         NEW s, s = fork_slices_between_tips(I, old, new)
  PROVE  ForkIsDeepest(I, old, new, s)
<1>1. Answers(I, old, new, s)
  BY SlicesAnswer
<1>2. "" \notin WalkErrors /\ "NoCommonAncestor" \notin WalkErrors /\ "" # "NoCommonAncestor"
  BY NotWalkErrors
<1>3. CASE s.err # ""
  BY <1>1, <1>2, <1>3 DEF Answers, ForkIsDeepest
<1>4. CASE s.err = ""
  <2>1. PICK k, q : /\ Forked(I, old, new, k, q, s.fork_hash)
                    /\ s = Slices("", s.fork_hash, Front(k), Front(q))
    BY <1>1, <1>2, <1>4 DEF Answers
  <2>2. Rooted(I, old)
    BY <1>1, <1>2, <1>4 DEF Answers
  <2>3. s.old_suffix = Front(k) /\ s.new_suffix = Front(q)
    <3>1. Slices("", s.fork_hash, Front(k), Front(q)).old_suffix = Front(k)
      BY DEF Slices
    <3>2. Slices("", s.fork_hash, Front(k), Front(q)).new_suffix = Front(q)
      BY DEF Slices
    <3>3. QED
      BY <2>1, <3>1, <3>2
  <2>4. PICK fork : fork = s.fork_hash
    OBVIOUS
  <2>5. Forked(I, old, new, k, q, fork)
    BY <2>1, <2>4
  <2>6. Splits(I, old, new, k, q, fork)
    BY <2>5, ForkedAncestors
  <2>7. Ancestors(I, old) \cap Ancestors(I, new) # {}
    BY <2>6 DEF Splits
  <2>8. /\ Ancestors(I, old) \cap Ancestors(I, new) = Ancestors(I, s.fork_hash)
        /\ Range(s.old_suffix) = Ancestors(I, old) \ Ancestors(I, new)
        /\ Range(s.new_suffix) = Ancestors(I, new) \ Ancestors(I, old)
    BY <2>3, <2>4, <2>6 DEF Splits
  <2>9. QED
    BY <1>2, <1>4, <2>2, <2>7, <2>8 DEF ForkIsDeepest
<1>5. QED
  BY <1>3, <1>4

\* The plan for two lines that meet at fork.
PlanOf(fork, k, q) ==
  [err |-> "", fork_hash |-> fork, rollback_ordered |-> Front(k),
   apply_ordered |-> Reverse(Front(q))]

\* A plan is made exactly when the tips have a common ancestor.
Made(I, old, new, p) ==
  /\ Rooted(I, old)
  /\ \E k, q, fork : Forked(I, old, new, k, q, fork) /\ p = PlanOf(fork, k, q)

LEMMA PlanMade ==
  ASSUME NEW I, IndexOK(I), NEW old \in Hash, NEW new \in Hash,
         try_from_tips(I, old, new).err = ""
  PROVE  Made(I, old, new, try_from_tips(I, old, new))
<1> DEFINE p == try_from_tips(I, old, new)
<1>13. p.err = ""
  OBVIOUS
<1> HIDE DEF p
<1>1. PICK s : s = fork_slices_between_tips(I, old, new)
  OBVIOUS
<1>2. Answers(I, old, new, s)
  BY <1>1, SlicesAnswer
<1>3. p = IF s.err # "" THEN [err |-> s.err] ELSE from_fork_slices(s)
  BY <1>1 DEF p, try_from_tips
<1>4. s.err = ""
  <2>1. [err |-> s.err].err = s.err
    OBVIOUS
  <2>2. QED
    BY <1>3, <1>13, <2>1
<1>5. "" \notin WalkErrors
  BY NotWalkErrors
<1>6. PICK k, q : /\ Forked(I, old, new, k, q, s.fork_hash)
                  /\ s = Slices("", s.fork_hash, Front(k), Front(q))
  BY <1>2, <1>4, <1>5 DEF Answers
<1>7. PICK fork : fork = s.fork_hash
  OBVIOUS
<1>8. s = Slices("", fork, Front(k), Front(q))
  BY <1>6, <1>7
<1>9. from_fork_slices(Slices("", fork, Front(k), Front(q))) = PlanOf(fork, k, q)
  BY DEF from_fork_slices, Slices, PlanOf
<1>10. p = PlanOf(fork, k, q)
  BY <1>3, <1>4, <1>8, <1>9
<1>11. Rooted(I, old)
  BY <1>2, <1>4, <1>5 DEF Answers
<1>12. QED
  BY <1>6, <1>7, <1>10, <1>11 DEF Made, p

Planned(I, old, new, k, q, fork) == try_from_tips(I, old, new) = PlanOf(fork, k, q)

LEMMA PlanFound ==
  ASSUME NEW I, IndexOK(I), NEW old \in Hash, NEW new \in Hash, NEW k, NEW q, NEW fork,
         Forked(I, old, new, k, q, fork), Rooted(I, old)
  PROVE  Planned(I, old, new, k, q, fork)
<1>1. fork_slices_between_tips(I, old, new) = Slices("", fork, Front(k), Front(q))
  <2>1. Finds(I, old, new, k, q, fork)
    BY SlicesFound
  <2>2. QED
    BY <2>1 DEF Finds
<1>2. Slices("", fork, Front(k), Front(q)).err = ""
  BY DEF Slices
<1>3. from_fork_slices(Slices("", fork, Front(k), Front(q))) = PlanOf(fork, k, q)
  BY DEF from_fork_slices, Slices, PlanOf
<1>4. QED
  BY <1>1, <1>2, <1>3 DEF try_from_tips, Planned

HasAncestry(I, x) == AncestryError(I, x) = ""

\* A block has an ancestry exactly when one of its ancestors is a root without
\* a parent.
LEMMA AncestryRoot ==
  ASSUME NEW I, IndexOK(I), NEW x \in Hash
  PROVE  HasAncestry(I, x) <=>
           \E r \in Ancestors(I, x) : I[r].height = 0 /\ I[r].parent_hash = EmptyHash
<1>1. PICK w : w = path_from_tip_toward_genesis(I, x)
  OBVIOUS
<1>2. /\ w.err = "" <=> Rooted(I, x)
      /\ w.err = "" => /\ x \in DOMAIN I
                       /\ Ancestors(I, x) = Range(w.path)
                       /\ I[Last(w.path)].height = 0
      /\ LineTo(I, w.path, x, Last(w.path))
  BY <1>1, PathToRoot
<1>3. PICK s : s = w.path
  OBVIOUS
<1>4. Line(I, s) /\ s[1] = x
  BY <1>2, <1>3 DEF LineTo
<1>5. /\ Len(s) \in Nat \ {0} /\ 1 \in 1 .. Len(s) /\ Len(s) \in 1 .. Len(s)
      /\ Last(s) = s[Len(s)]
  BY <1>4, LineLength
<1>6. AncestryError(I, x) = IF w.err # "" THEN w.err
                            ELSE IF I[Last(s)].parent_hash # EmptyHash THEN "MalformedAncestry"
                            ELSE ""
  BY <1>1, <1>3 DEF AncestryError
<1>7. \A y : y \in Range(s) <=> \E i \in 1 .. Len(s) : y = s[i]
  BY <1>4, RangeOf, SMT DEF Line
<1>8. CASE w.err # ""
  BY <1>2, <1>6, <1>8 DEF Rooted, HasAncestry
<1>9. CASE w.err = ""
  <2>1. Last(s) \in Ancestors(I, x) /\ I[Last(s)].height = 0 /\ x \in DOMAIN I
    BY <1>2, <1>3, <1>5, <1>7, <1>9
  <2>2. ASSUME NEW r \in Ancestors(I, x), I[r].height = 0
        PROVE  r = Last(s)
    <3>1. PICK i \in 1 .. Len(s) : r = s[i]
      BY <1>2, <1>3, <1>7, <1>9
    <3>2. Drops(I, s, i, Len(s))
      BY <1>4, <1>5, <2>1, LineDrops
    <3>3. 0 + i = 0 + Len(s)
      BY <1>5, <2>1, <2>2, <3>1, <3>2 DEF Drops
    <3>4. PICK n \in Nat, m \in Nat : n = Len(s) /\ m = i
      BY <1>5, SMT
    <3>5. 0 + m = 0 + n => m = n
      BY SMT
    <3>6. QED
      BY <1>5, <3>1, <3>3, <3>4, <3>5
  <2>3. "MalformedAncestry" # ""
    BY SMT
  <2>4. HasAncestry(I, x) <=> I[Last(s)].parent_hash = EmptyHash
    BY <1>6, <1>9, <2>3 DEF HasAncestry
  <2>5. QED
    BY <2>1, <2>2, <2>4
<1>10. QED
  BY <1>8, <1>9

\* The ancestry of a block is one of its descendants.
LEMMA AncestryCarries ==
  ASSUME NEW I, IndexOK(I), NEW x \in Hash, NEW y \in Ancestors(I, x), HasAncestry(I, y)
  PROVE  HasAncestry(I, x)
<1>1. y \in Hash
  BY AncestorParts DEF IndexOK
<1>2. Ancestors(I, y) \subseteq Ancestors(I, x)
  BY AncestorsNest
<1>3. PICK r \in Ancestors(I, y) : I[r].height = 0 /\ I[r].parent_hash = EmptyHash
  BY <1>1, AncestryRoot
<1>4. QED
  BY <1>2, <1>3, AncestryRoot

\* A block with an ancestry is linked to its parent, if that is a block.
LEMMA AncestryLinks ==
  ASSUME NEW I, IndexOK(I), NEW x \in Hash, NEW y \in Hash, HasAncestry(I, x),
         I[x].parent_hash = y
  PROVE  Sound(I, x, y)
<1>1. PICK w : w = path_from_tip_toward_genesis(I, x)
  OBVIOUS
<1>2. LineTo(I, w.path, x, Last(w.path))
  BY <1>1, PathToRoot
<1>3. PICK s : s = w.path
  OBVIOUS
<1>4. Line(I, s) /\ s[1] = x
  BY <1>2, <1>3 DEF LineTo
<1>5. AncestryError(I, x) = IF w.err # "" THEN w.err
                            ELSE IF I[Last(s)].parent_hash # EmptyHash THEN "MalformedAncestry"
                            ELSE ""
  BY <1>1, <1>3 DEF AncestryError
<1>6. I[Last(s)].parent_hash = EmptyHash
  <2>1. "MalformedAncestry" # ""
    BY SMT
  <2>2. QED
    BY <1>5, <2>1 DEF HasAncestry
<1>7. EmptyHash # y
  BY HashAssumption
<1>8. Len(s) # 1
  BY <1>4, <1>6, <1>7, LineLength
<1>9. Sound(I, x, s[2])
  BY <1>4, <1>8, LineStarts
<1>10. QED
  BY <1>9 DEF Sound

\* A segment that descends to the fork is a line to it.
LEMMA DescentIsLine ==
  ASSUME NEW I, IndexOK(I), NEW path \in Seq(Hash), NEW fork \in Hash,
         HasAncestry(I, fork), DescendsTo(I, path, fork)
  PROVE  /\ Line(I, Append(path, fork)) /\ Append(path, fork)[1] \in DOMAIN I
         /\ Last(Append(path, fork)) = fork /\ Front(Append(path, fork)) = path
<1>1. PICK n \in Nat : n = Len(path)
  BY SMT
<1>2. PICK s : s = Append(path, fork)
  OBVIOUS
<1>3. /\ s \in Seq(Hash) /\ s # <<>> /\ Len(s) = n + 1 /\ s[n + 1] = fork
      /\ \A i \in 1 .. n : s[i] = path[i]
  BY <1>1, <1>2, Extended, SMT
<1>4. DOMAIN path = 1 .. n
  BY <1>1, SMT
<1>5. ASSUME NEW i \in 1 .. n
      PROVE  Sound(I, s[i], s[i + 1])
  <2>1. HasAncestry(I, path[i])
    BY <1>4 DEF DescendsTo, HasAncestry
  <2>2. I[path[i]].parent_hash = IF i < n THEN path[i + 1] ELSE fork
    BY <1>1, <1>4 DEF DescendsTo
  <2>3. i < n \/ i + 1 = n + 1
    BY SMT
  <2>4. i + 1 \in 1 .. n + 1 /\ (i < n => i + 1 \in 1 .. n)
    BY SMT
  <2>5. I[path[i]].parent_hash = s[i + 1]
    <3>1. CASE i < n
      BY <1>3, <2>2, <2>4, <3>1
    <3>2. CASE ~(i < n)
      BY <1>3, <2>2, <2>3, <3>2
    <3>3. QED
      BY <3>1, <3>2
  <2>6. s[i + 1] \in Hash /\ path[i] \in Hash
    BY <1>3, <1>4, <2>4, SMT
  <2>7. Sound(I, path[i], s[i + 1])
    BY <2>1, <2>5, <2>6, AncestryLinks
  <2>8. QED
    BY <1>3, <2>7
<1>6. (n + 1) - 1 = n
  BY SMT
<1>7. Line(I, s)
  BY <1>3, <1>5, <1>6 DEF Line
<1>8. s[1] \in DOMAIN I
  <2>1. CASE n = 0
    <3>1. n + 1 = 1
      BY <2>1, SMT
    <3>2. fork \in DOMAIN I
      BY AncestorParts, AncestryRoot
    <3>3. QED
      BY <1>3, <3>1, <3>2
  <2>2. CASE n # 0
    <3>1. 1 \in 1 .. n
      BY <2>2, SMT
    <3>2. QED
      BY <1>5, <3>1 DEF Sound
  <2>3. QED
    BY <2>1, <2>2
<1>9. /\ Front(s) \in Seq(Hash) /\ Len(Front(s)) = n
      /\ \A i \in 1 .. n : Front(s)[i] = s[i]
      /\ Last(s) = s[n + 1]
  BY <1>3, <1>6, FrontParts
<1>10. Front(s) = path
  BY <1>1, <1>3, <1>9, SMT
<1>11. QED
  BY <1>2, <1>3, <1>7, <1>8, <1>9, <1>10

\* A plan as Plan makes it.
PlanOK(p) ==
  /\ p = [err |-> "", fork_hash |-> p.fork_hash, rollback_ordered |-> p.rollback_ordered,
          apply_ordered |-> p.apply_ordered]
  /\ p.err = "" /\ p.fork_hash \in Hash
  /\ p.rollback_ordered \in Seq(Hash) /\ p.apply_ordered \in Seq(Hash)

LEMMA PlanFields ==
  ASSUME NEW fork, NEW k, NEW q
  PROVE  /\ PlanOf(fork, k, q).err = "" /\ PlanOf(fork, k, q).fork_hash = fork
         /\ PlanOf(fork, k, q).rollback_ordered = Front(k)
         /\ PlanOf(fork, k, q).apply_ordered = Reverse(Front(q))
BY DEF PlanOf

LEMMA PlanTyped ==
  ASSUME NEW I, IndexOK(I), NEW old \in Hash, NEW new \in Hash,
         try_from_tips(I, old, new).err = ""
  PROVE  PlanOK(try_from_tips(I, old, new))
<1>1. Made(I, old, new, try_from_tips(I, old, new))
  BY PlanMade
<1> DEFINE p == try_from_tips(I, old, new)
<1> HIDE DEF p
<1>8. PICK k, q, fork : Forked(I, old, new, k, q, fork) /\ p = PlanOf(fork, k, q)
  BY <1>1 DEF Made, p
<1>2. k \in Seq(Hash) /\ k # <<>> /\ q \in Seq(Hash) /\ q # <<>>
  BY <1>8 DEF Forked, LineTo, Line
<1>3. Front(k) \in Seq(Hash) /\ Front(q) \in Seq(Hash)
  BY <1>2, FrontParts
<1>4. Reverse(Front(q)) \in Seq(Hash)
  BY <1>3, Reversed
<1>5. fork \in Hash
  BY <1>8, ForkedAncestors DEF Splits
<1>6. PlanOK(PlanOf(fork, k, q))
  BY <1>3, <1>4, <1>5, PlanFields DEF PlanOK, PlanOf
<1>7. QED
  BY <1>8, <1>6 DEF p

\* The tips are where the two lines begin.
LEMMA TipsOf ==
  ASSUME NEW p, PlanOK(p)
  PROVE  /\ OldTip(p) = Append(p.rollback_ordered, p.fork_hash)[1]
         /\ NewTip(p) = Append(Reverse(p.apply_ordered), p.fork_hash)[1]
         /\ OldTip(p) \in Hash /\ NewTip(p) \in Hash
<1>1. PICK s, t, f : s = p.rollback_ordered /\ t = p.apply_ordered /\ f = p.fork_hash
  OBVIOUS
<1>2. s \in Seq(Hash) /\ t \in Seq(Hash) /\ f \in Hash
  BY <1>1 DEF PlanOK
<1>3. OldTip(p) = Head(Append(s, f)) /\ NewTip(p) = Last(<<f>> \o t)
  BY <1>1 DEF OldTip, NewTip
<1>4. Head(Append(s, f)) = Append(s, f)[1] /\ Append(s, f)[1] \in Hash
  BY <1>2, SMT
<1>5. PICK r, b : r = Reverse(t) /\ b = <<f>> \o t
  OBVIOUS
<1>6. PICK n \in Nat : n = Len(t)
  BY <1>2, SMT
<1>7. r \in Seq(Hash) /\ Len(r) = n
  BY <1>2, <1>5, <1>6, Reversed
<1>8. \A i \in 1 .. n : r[i] = t[n - i + 1]
  BY <1>2, <1>5, <1>6, ReversedElements
<1>9. /\ b \in Seq(Hash) /\ Len(b) = n + 1 /\ b # <<>> /\ b[1] = f
      /\ \A i \in 1 .. n : b[i + 1] = t[i]
  BY <1>2, <1>5, <1>6, SMT
<1>10. Last(b) = b[n + 1] /\ Last(b) \in Hash
  BY <1>9, FrontParts
<1>11. b[n + 1] = Append(r, f)[1]
  <2>1. CASE n = 0
    <3>1. n + 1 = 1
      BY <2>1, SMT
    <3>2. Append(r, f)[1] = f
      BY <1>2, <1>7, <2>1, SMT
    <3>3. QED
      BY <1>9, <3>1, <3>2
  <2>2. CASE n # 0
    <3>1. 1 \in 1 .. n /\ n \in 1 .. n /\ n - 1 + 1 = n
      BY <2>2, SMT
    <3>2. Append(r, f)[1] = r[1]
      BY <1>2, <1>7, <3>1, SMT
    <3>3. QED
      BY <1>8, <1>9, <3>1, <3>2
  <2>3. QED
    BY <2>1, <2>2
<1>12. QED
  BY <1>1, <1>3, <1>4, <1>5, <1>10, <1>11

\* What a valid plan is: two lines that meet at the fork and nowhere else.
Meets(I, old, new, p) ==
  \E k, q : Forked(I, old, new, k, q, p.fork_hash) /\ p = PlanOf(p.fork_hash, k, q)

LEMMA ValidIsForked ==
  ASSUME NEW I, IndexOK(I), NEW p, PlanOK(p), validate_against_index(I, p)
  PROVE  Meets(I, OldTip(p), NewTip(p), p)
<1>1. PICK s, t, f : s = p.rollback_ordered /\ t = p.apply_ordered /\ f = p.fork_hash
  OBVIOUS
<1>2. s \in Seq(Hash) /\ t \in Seq(Hash) /\ f \in Hash
  BY <1>1 DEF PlanOK
<1>3. PICK r : r = Reverse(t)
  OBVIOUS
<1>4. r \in Seq(Hash) /\ Reverse(r) = t
  BY <1>2, <1>3, Reversed
<1>5. \A x : x \in Range(r) <=> x \in Range(t)
  BY <1>2, <1>3, ReversedElements
<1>6. /\ HasAncestry(I, f) /\ IsInjective(s \o t)
      /\ DescendsTo(I, s, f) /\ DescendsTo(I, r, f)
  BY <1>1, <1>3 DEF validate_against_index, HasAncestry
<1>7. PICK k, q : k = Append(s, f) /\ q = Append(r, f)
  OBVIOUS
<1>8. /\ Line(I, k) /\ k[1] \in DOMAIN I /\ Last(k) = f /\ Front(k) = s
      /\ Line(I, q) /\ q[1] \in DOMAIN I /\ Last(q) = f /\ Front(q) = r
  BY <1>2, <1>4, <1>6, <1>7, DescentIsLine
<1>9. OldTip(p) = k[1] /\ NewTip(p) = q[1]
  BY <1>1, <1>3, <1>7, TipsOf
<1>10. Ancestors(I, k[1]) = Range(s) \cup Ancestors(I, f)
  BY <1>8, LineAncestors
<1>11. Range(r) \cap Ancestors(I, f) = {}
  BY <1>8, LineAncestors
<1>12. \A x \in Range(t) : x \notin Range(s)
  BY <1>2, <1>6, JoinedDistinct
<1>13. Range(Front(q)) \cap Ancestors(I, k[1]) = {}
  BY <1>5, <1>8, <1>10, <1>11, <1>12
<1>14. Forked(I, OldTip(p), NewTip(p), k, q, f)
  BY <1>8, <1>9, <1>13 DEF Forked, LineTo
<1>15. p = [err |-> "", fork_hash |-> f, rollback_ordered |-> s, apply_ordered |-> t]
  BY <1>1 DEF PlanOK
<1>16. p = PlanOf(f, k, q)
  BY <1>4, <1>8, <1>15 DEF PlanOf
<1>17. QED
  BY <1>1, <1>14, <1>16 DEF Meets

\* Lines have no duplicates, read in either direction.
LEMMA FrontDistinct ==
  ASSUME NEW I, IndexOK(I), NEW s, Line(I, s), s[1] \in DOMAIN I
  PROVE  Distinct(Front(s))
<1>1. Len(Front(s)) = Len(s) - 1 /\ \A i \in 1 .. Len(s) - 1 : Front(s)[i] = s[i]
  BY FrontParts DEF Line
<1>2. PICK n \in Nat : n = Len(s)
  BY LineLength
<1>3. \A i \in 1 .. n - 1 : i \in 1 .. n
  BY SMT
<1>4. ASSUME NEW i \in 1 .. n - 1, NEW j \in 1 .. n - 1, Front(s)[i] = Front(s)[j]
      PROVE  i = j
  BY <1>1, <1>2, <1>3, <1>4, LineInjective
<1>5. QED
  BY <1>1, <1>2, <1>4 DEF Distinct

\* The index gives the same plan for the same tips, and the fork has an ancestry.
IsCurrent(I, p) ==
  p = try_from_tips(I, OldTip(p), NewTip(p)) /\ HasAncestry(I, p.fork_hash)

LEMMA ValidIsCurrent ==
  ASSUME NEW I, IndexOK(I), NEW p, PlanOK(p), validate_against_index(I, p)
  PROVE  IsCurrent(I, p)
<1>1. PICK old, new, f : old = OldTip(p) /\ new = NewTip(p) /\ f = p.fork_hash
  OBVIOUS
<1>2. old \in Hash /\ new \in Hash /\ f \in Hash
  BY <1>1, TipsOf DEF PlanOK
<1>3. PICK k, q : Forked(I, old, new, k, q, f) /\ p = PlanOf(f, k, q)
  <2>1. Meets(I, OldTip(p), NewTip(p), p)
    BY ValidIsForked
  <2>2. QED
    BY <1>1, <2>1 DEF Meets
<1>4. HasAncestry(I, f)
  BY <1>1 DEF validate_against_index, HasAncestry
<1>5. f \in Ancestors(I, old)
  BY <1>2, <1>3, ForkedAncestors DEF Splits
<1>6. HasAncestry(I, old)
  BY <1>2, <1>4, <1>5, AncestryCarries
<1>7. Rooted(I, old)
  BY <1>2, <1>6, AncestryRoot DEF Rooted
<1>8. Planned(I, old, new, k, q, f)
  BY <1>2, <1>3, <1>7, PlanFound
<1>9. QED
  BY <1>1, <1>3, <1>4, <1>8 DEF Planned, IsCurrent

\* The blocks of a line to a block with an ancestry descend to it.
LEMMA LineDescends ==
  ASSUME NEW I, IndexOK(I), NEW s, Line(I, s), s[1] \in DOMAIN I, NEW f, Last(s) = f,
         HasAncestry(I, f)
  PROVE  DescendsTo(I, Front(s), f)
<1>1. /\ Len(s) \in Nat \ {0} /\ Len(s) \in 1 .. Len(s) /\ s[Len(s)] = f
  BY LineLength
<1>2. PICK n \in Nat : n + 1 = Len(s) /\ n = Len(s) - 1
  <2>1. PICK m \in Nat \ {0} : m = Len(s)
    BY <1>1
  <2>2. m - 1 \in Nat /\ (m - 1) + 1 = m
    BY SMT
  <2>3. QED
    BY <2>1, <2>2
<1>3. /\ Front(s) \in Seq(Hash) /\ Len(Front(s)) = n
      /\ \A i \in 1 .. n : Front(s)[i] = s[i]
  BY <1>2, FrontParts DEF Line
<1>4. DOMAIN Front(s) = 1 .. n
  BY <1>3, SMT
<1>5. ASSUME NEW i \in 1 .. n
      PROVE  /\ AncestryError(I, s[i]) = ""
             /\ I[s[i]].parent_hash = IF i < n THEN Front(s)[i + 1] ELSE f
  <2>1. Sound(I, s[i], s[i + 1])
    BY <1>2 DEF Line
  <2>2. i \in 1 .. n + 1 /\ n + 1 \in 1 .. n + 1 /\ i <= n + 1
    BY SMT
  <2>3. LineTo(I, SubSeq(s, i, n + 1), s[i], s[n + 1])
    BY <1>2, <2>2, LinePart
  <2>4. s[i] \in DOMAIN I /\ s[i] \in Hash
    BY <2>1 DEF Sound, IndexOK
  <2>5. f \in Ancestors(I, s[i])
    BY <1>1, <1>2, <2>3, <2>4, AncestorLines
  <2>6. HasAncestry(I, s[i])
    BY <2>4, <2>5, AncestryCarries
  <2>7. (i < n => i + 1 \in 1 .. n) /\ (~(i < n) => i + 1 = n + 1)
    BY SMT
  <2>8. I[s[i]].parent_hash = s[i + 1]
    BY <2>1 DEF Sound
  <2>9. s[i + 1] = IF i < n THEN Front(s)[i + 1] ELSE f
    BY <1>1, <1>2, <1>3, <2>7
  <2>10. QED
    BY <2>6, <2>8, <2>9 DEF HasAncestry
<1>6. QED
  BY <1>3, <1>4, <1>5 DEF DescendsTo

LEMMA CurrentIsValid ==
  ASSUME NEW I, IndexOK(I), NEW p, PlanOK(p), IsCurrent(I, p)
  PROVE  validate_against_index(I, p)
<1>1. PICK old, new : old = OldTip(p) /\ new = NewTip(p)
  OBVIOUS
<1>2. old \in Hash /\ new \in Hash
  BY <1>1, TipsOf
<1>3. p.err = ""
  BY DEF PlanOK
<1>4. Made(I, old, new, p)
  <2>1. p = try_from_tips(I, old, new)
    BY <1>1 DEF IsCurrent
  <2>2. QED
    BY <1>2, <1>3, <2>1, PlanMade
<1>5. PICK k, q, f : Forked(I, old, new, k, q, f) /\ p = PlanOf(f, k, q)
  BY <1>4 DEF Made
<1>6. /\ p.fork_hash = f /\ p.rollback_ordered = Front(k)
      /\ p.apply_ordered = Reverse(Front(q))
  <2>1. /\ PlanOf(f, k, q).fork_hash = f /\ PlanOf(f, k, q).rollback_ordered = Front(k)
        /\ PlanOf(f, k, q).apply_ordered = Reverse(Front(q))
    BY DEF PlanOf
  <2>2. QED
    BY <1>5, <2>1
<1>7. /\ Line(I, k) /\ k[1] \in DOMAIN I /\ Last(k) = f
      /\ Line(I, q) /\ q[1] \in DOMAIN I /\ Last(q) = f
  BY <1>5 DEF Forked, LineTo
<1>8. HasAncestry(I, f)
  BY <1>6 DEF IsCurrent
<1>9. DescendsTo(I, Front(k), f) /\ DescendsTo(I, Front(q), f)
  BY <1>7, <1>8, LineDescends
<1>10. PICK s, t, r : s = Front(k) /\ t = Front(q) /\ r = Reverse(t)
  OBVIOUS
<1>11. s \in Seq(Hash) /\ t \in Seq(Hash)
  BY <1>7, <1>10, FrontParts DEF Line
<1>12. r \in Seq(Hash) /\ Reverse(r) = t
  BY <1>10, <1>11, Reversed
<1>13. \A x : x \in Range(r) <=> x \in Range(t)
  BY <1>10, <1>11, ReversedElements
<1>14. Splits(I, old, new, k, q, f)
  BY <1>2, <1>5, ForkedAncestors
<1>15. (\A x \in Range(r) : x \notin Range(s)) /\ f \notin Range(s) /\ f \notin Range(r)
  BY <1>10, <1>13, <1>14 DEF Splits
<1>16. Distinct(s) /\ Distinct(t)
  BY <1>7, <1>10, FrontDistinct
<1>17. Distinct(r)
  BY <1>10, <1>11, <1>16, ReversedDistinct
<1>18. IsInjective(s \o r)
  BY <1>11, <1>12, <1>15, <1>16, <1>17, JoinedDistinct
<1>19. f \notin Range(s \o r)
  BY <1>11, <1>12, <1>15, JoinedRange
<1>20. QED
  BY <1>6, <1>8, <1>9, <1>10, <1>12, <1>18, <1>19 DEF validate_against_index, HasAncestry

\* max_by_key on two candidates.
LEMMA PreferredOfTwo ==
  ASSUME NEW a, NEW b
  PROVE  select_preferred_tip(<<a, b>>) = IF compare_tips_for_selection(a, b) THEN a ELSE b
<1> DEFINE t == <<a, b>>
           C(x, y) == compare_tips_for_selection(x, y)
           Q(f) == f = [n \in 1 .. Len(t) |-> IF n = 1 \/ ~C(f[n - 1], t[n]) THEN t[n]
                                              ELSE f[n - 1]]
           best == CHOOSE f : Q(f)
           g == [n \in 1 .. 2 |-> IF n = 1 THEN a ELSE IF C(a, b) THEN a ELSE b]
<1>1. select_preferred_tip(t) = best[Len(t)]
  BY DEF select_preferred_tip
<1>2. Len(t) = 2 /\ t[1] = a /\ t[2] = b
  BY SMT
<1> HIDE DEF t, C
<1>3. 1 .. 2 = {1, 2} /\ 2 - 1 = 1 /\ 2 # 1
  BY SMT
<1>4. g[1] = a /\ g[2] = IF C(a, b) THEN a ELSE b
  BY <1>3
<1>5. Q(g)
  <2>1. ASSUME NEW n \in 1 .. 2
        PROVE  g[n] = IF n = 1 \/ ~C(g[n - 1], t[n]) THEN t[n] ELSE g[n - 1]
    <3>1. CASE n = 1
      BY <1>2, <1>4, <3>1
    <3>2. CASE n = 2
      <4>1. g[n - 1] = a /\ t[n] = b
        BY <1>2, <1>3, <1>4, <3>2
      <4> HIDE DEF g
      <4>2. QED
        BY <1>3, <1>4, <3>2, <4>1
    <3>3. QED
      BY <1>3, <3>1, <3>2
  <2>2. g = [n \in 1 .. 2 |-> g[n]]
    OBVIOUS
  <2> HIDE DEF g
  <2>3. QED
    BY <1>2, <2>1, <2>2
<1>6. Q(best)
  <2> HIDE DEF Q, g
  <2>1. QED
    BY <1>5
<1> HIDE DEF best
<1>7. best[1] = a
  BY <1>2, <1>3, <1>6
<1>8. best[2] = IF ~C(best[1], b) THEN b ELSE best[1]
  BY <1>2, <1>3, <1>6
<1>9. QED
  BY <1>1, <1>2, <1>7, <1>8 DEF t, C

TipAt(I, h) == [height |-> I[h].height, block_hash |-> h]

\* The order of two tips.
LEMMA TipOrder ==
  ASSUME NEW I, IndexOK(I), NEW x \in DOMAIN I, NEW y \in DOMAIN I
  PROVE  /\ compare_tips_for_selection(TipAt(I, x), TipAt(I, y)) =>
              /\ ~compare_tips_for_selection(TipAt(I, y), TipAt(I, x))
              /\ I[y].height <= I[x].height
         /\ x = y \/ compare_tips_for_selection(TipAt(I, x), TipAt(I, y))
                  \/ compare_tips_for_selection(TipAt(I, y), TipAt(I, x))
         /\ TipAt(I, x) = TipAt(I, y) => x = y
         /\ TipAt(I, x).block_hash = x
<1>1. I[x].height \in Nat /\ I[y].height \in Nat
  BY EntryHeight
<1>2. x \in Nat /\ y \in Nat
  BY HashAssumption DEF IndexOK
<1>3. PICK a \in Nat, b \in Nat : a = I[x].height /\ b = I[y].height
  BY <1>1
<1>4. PICK s, t : s = TipAt(I, x) /\ t = TipAt(I, y)
  OBVIOUS
<1>5. s.height = a /\ s.block_hash = x /\ t.height = b /\ t.block_hash = y
  BY <1>3, <1>4 DEF TipAt
<1>6. /\ compare_tips_for_selection(s, t) <=> a > b \/ (a = b /\ x > y)
      /\ compare_tips_for_selection(t, s) <=> b > a \/ (b = a /\ y > x)
  BY <1>5 DEF compare_tips_for_selection
<1>7. /\ (a > b \/ (a = b /\ x > y)) => ~(b > a \/ (b = a /\ y > x)) /\ b <= a
      /\ x = y \/ (a > b \/ (a = b /\ x > y)) \/ (b > a \/ (b = a /\ y > x))
  BY <1>2, SMT
<1>8. QED
  BY <1>3, <1>4, <1>5, <1>6, <1>7

\* A plan to a tip that is at least as high rolls back no more than it applies.
LEMMA HigherTip ==
  ASSUME NEW I, IndexOK(I), NEW old \in DOMAIN I, NEW new \in DOMAIN I,
         I[old].height <= I[new].height, NEW p, Made(I, old, new, p)
  PROVE  Len(p.rollback_ordered) <= Len(p.apply_ordered)
<1>1. old \in Hash /\ new \in Hash
  BY DEF IndexOK
<1>2. PICK k, q, f : Forked(I, old, new, k, q, f) /\ p = PlanOf(f, k, q)
  BY DEF Made
<1>3. p.rollback_ordered = Front(k) /\ p.apply_ordered = Reverse(Front(q))
  <2>1. /\ PlanOf(f, k, q).rollback_ordered = Front(k)
        /\ PlanOf(f, k, q).apply_ordered = Reverse(Front(q))
    BY DEF PlanOf
  <2>2. QED
    BY <1>2, <2>1
<1>4. Front(q) \in Seq(Hash) /\ Front(k) \in Seq(Hash)
  BY <1>2, FrontParts DEF Forked, LineTo, Line
<1>5. Len(Reverse(Front(q))) = Len(Front(q))
  BY <1>4, Reversed
<1>6. PICK a \in Nat, b \in Nat, z \in Nat :
        /\ a = I[old].height /\ b = I[new].height
        /\ a = z + Len(Front(k)) /\ b = z + Len(Front(q))
  <2>1. Apart(I, old, new, k, q)
    BY <1>1, <1>2, ForkedHeights
  <2>2. QED
    BY <2>1 DEF Apart
<1>7. PICK m \in Nat, n \in Nat : m = Len(Front(k)) /\ n = Len(Front(q))
  BY <1>4, SMT
<1>8. a <= b /\ a = z + m /\ b = z + n => m <= n
  BY SMT
<1>9. a <= b
  BY <1>6
<1>10. QED
  BY <1>3, <1>5, <1>6, <1>7, <1>8, <1>9

\* What SelectionNeverShortens says of two candidates.
NeverShortens(I, x, y) ==
  LET chosen == select_preferred_tip(<<TipAt(I, x), TipAt(I, y)>>)
      p == try_from_tips(I, IF chosen = TipAt(I, x) THEN y ELSE x, chosen.block_hash)
  IN  /\ chosen = select_preferred_tip(<<TipAt(I, y), TipAt(I, x)>>)
      /\ p.err = "" => Len(p.rollback_ordered) <= Len(p.apply_ordered)

LEMMA PlansUp ==
  ASSUME NEW I, IndexOK(I), NEW old \in DOMAIN I, NEW new \in DOMAIN I,
         I[old].height <= I[new].height, try_from_tips(I, old, new).err = ""
  PROVE  Len(try_from_tips(I, old, new).rollback_ordered)
           <= Len(try_from_tips(I, old, new).apply_ordered)
<1>1. old \in Hash /\ new \in Hash
  BY DEF IndexOK
<1>2. Made(I, old, new, try_from_tips(I, old, new))
  BY <1>1, PlanMade
<1>3. PICK p : p = try_from_tips(I, old, new)
  OBVIOUS
<1>4. Len(p.rollback_ordered) <= Len(p.apply_ordered)
  BY <1>2, <1>3, HigherTip
<1>5. QED
  BY <1>3, <1>4

LEMMA SelectionRises ==
  ASSUME NEW I, IndexOK(I), NEW x \in DOMAIN I, NEW y \in DOMAIN I
  PROVE  NeverShortens(I, x, y)
<1>1. PICK s, t : s = TipAt(I, x) /\ t = TipAt(I, y)
  OBVIOUS
<1>2. PICK c : c = select_preferred_tip(<<s, t>>)
  OBVIOUS
<1>3. c = IF compare_tips_for_selection(s, t) THEN s ELSE t
  BY <1>2, PreferredOfTwo
<1>4. select_preferred_tip(<<t, s>>) = IF compare_tips_for_selection(t, s) THEN t ELSE s
  BY PreferredOfTwo
<1>5. /\ compare_tips_for_selection(s, t) =>
           ~compare_tips_for_selection(t, s) /\ I[y].height <= I[x].height
      /\ compare_tips_for_selection(t, s) =>
           ~compare_tips_for_selection(s, t) /\ I[x].height <= I[y].height
      /\ x = y \/ compare_tips_for_selection(s, t) \/ compare_tips_for_selection(t, s)
      /\ s.block_hash = x /\ t.block_hash = y
      /\ s = t => x = y
  BY <1>1, TipOrder
<1>6. c = select_preferred_tip(<<t, s>>)
  <2>1. x = y => s = t
    BY <1>1
  <2>2. QED
    BY <1>3, <1>4, <1>5, <2>1
<1>7. PICK old, new : old = (IF c = s THEN y ELSE x) /\ new = c.block_hash
  OBVIOUS
<1>8. /\ old \in DOMAIN I /\ new \in DOMAIN I
      /\ (old = y /\ new = x) \/ (old = x /\ new = y)
      /\ I[old].height <= I[new].height
  <2>1. I[x].height <= I[x].height
    <3>1. PICK a \in Nat : a = I[x].height
      BY EntryHeight
    <3>2. a <= a
      BY SMT
    <3>3. QED
      BY <3>1, <3>2
  <2>2. CASE x = y
    BY <1>3, <1>5, <1>7, <2>1, <2>2
  <2>3. CASE x # y /\ compare_tips_for_selection(s, t)
    BY <1>3, <1>5, <1>7, <2>3
  <2>4. CASE x # y /\ compare_tips_for_selection(t, s)
    BY <1>3, <1>5, <1>7, <2>4
  <2>5. QED
    BY <1>5, <2>2, <2>3, <2>4
<1>9. PICK p : p = try_from_tips(I, old, new)
  OBVIOUS
<1>10. p.err = "" => Len(p.rollback_ordered) <= Len(p.apply_ordered)
  BY <1>8, <1>9, PlansUp
<1>11. QED
  BY <1>1, <1>2, <1>6, <1>7, <1>9, <1>10 DEF NeverShortens

=============================================================================
