-------------------------- MODULE ThunkScriptsProofs ---------------------------
(***************************************************************************)
(* The generator of thunks, for texts, patterns and names of every length  *)
(* and any number of modules, versions and functions.                      *)
(*                                                                         *)
(* Suffix arrays.  ArrayOK says that the pairs stand for the first k       *)
(* characters: they compare as those do.  A turn of the loop makes ranks   *)
(* of the pairs, counting the places where the pair changes, and pairs of  *)
(* the ranks, which stand for twice as many characters.  When k reaches    *)
(* the length of the text the array is sorted.  That all of it is needed,  *)
(* and that the text must be terminated, is what the code does not say.    *)
(*                                                                         *)
(* The search.  The three loops are recursive functions: each is shown to  *)
(* obey its equation, for every turn leaves less, and then, by induction   *)
(* on what is left, to find its place in characters that do not fall.      *)
(* That characters do not fall among the suffixes that start alike is      *)
(* where the search needs the array sorted.                                *)
(*                                                                         *)
(* The lists of thunks.  Counting says what the counts mean in the middle  *)
(* of a module: a function that was counted as often as the files is in    *)
(* each file seen, one that was not counted is in none of them.  Listing   *)
(* says what the modules behind have left: their thunks are among the      *)
(* names to ignore; a name that is ignored, declared and not on the list   *)
(* of ignored functions has a thunk; and none was without a return type.   *)
(*                                                                         *)
(* The whole.  The table is read only after it was built, so the two parts *)
(* go on as they do alone.  The places matched for a name are all those in *)
(* the text but the greatest suffix, so that a name is found if one of     *)
(* them is a declaration.                                                  *)
(***************************************************************************)
EXTENDS ThunkScripts, Recursion, FiniteSetTheorems, SequenceTheorems

-------------------------------------------------------------------------------
(* Characters, and the order of the first k of them *)

\* A character of the text, or the 0 that is read behind its end.
Ch(p) == IF p \in Position THEN Char(p) ELSE 0

SameTo(k, p, q) == \A j \in 0 .. k - 1 : Ch(p + j) = Ch(q + j)

LessTo(k, p, q) ==
    \E i \in 0 .. k - 1 : SameTo(i, p, q) /\ Ch(p + i) < Ch(q + i)

TextOK == content \in Seq(Byte) /\ content # <<>>

\* The terminator is where no other character is like it.
LEMMA Characters ==
    ASSUME Terminated, TextOK
    PROVE  /\ Len(content) \in Nat \ {0} /\ N = Len(content) + 1
           /\ Len(content) \in Position
           /\ \A p \in 0 .. Len(content) - 1 : Ch(p) = content[p + 1] /\ Ch(p) \in Byte
           /\ Ch(Len(content)) = Terminator
           /\ \A p \in Nat : p >= N => Ch(p) = 0
           /\ \A p \in Nat : Ch(p) \in Nat
<1>1. Len(content) \in Nat \ {0} /\ N = Len(content) + 1
      BY DEF TextOK, N, txt
<1>2. \A p \in 0 .. Len(content) - 1 : Ch(p) = content[p + 1] /\ Ch(p) \in Byte
      BY <1>1 DEF TextOK, Ch, Position, Char, txt
<1>3. Ch(Len(content)) = Terminator
      BY <1>1 DEF TextOK, Ch, Position, Char, txt
<1>4. \A p \in Nat : p >= N => Ch(p) = 0
      BY <1>1 DEF Ch, Position
<1>5. ASSUME NEW p \in Nat PROVE Ch(p) \in Nat
  <2>1. p \in 0 .. Len(content) - 1 \/ p = Len(content) \/ p >= N
        BY <1>1
  <2>2. 1 \in Nat /\ 0 \in Nat /\ Byte \subseteq Nat
        BY SuffixArrayAssumption DEF SuffixArrayAssumption
  <2> QED BY <1>2, <1>3, <1>4, <2>1, <2>2 DEF Terminator
<1> QED BY <1>1, <1>2, <1>3, <1>4, <1>5 DEF Position

\* Two texts are the same so far, or one comes first.
LEMMA SameOrLess ==
    ASSUME Terminated, TextOK, NEW k \in Nat, NEW p \in Nat, NEW q \in Nat
    PROVE  /\ SameTo(k, p, q) \/ LessTo(k, p, q) \/ LessTo(k, q, p)
           /\ LessTo(k, p, q) => ~SameTo(k, p, q) /\ ~LessTo(k, q, p)
           /\ SameTo(k, p, q) => SameTo(k, q, p)
<1> DEFINE D == {j \in 0 .. k - 1 : Ch(p + j) # Ch(q + j)}
<1>1. \A j \in Nat : Ch(p + j) \in Nat /\ Ch(q + j) \in Nat
      BY Characters
<1>2. CASE D = {}
  <2>1. \A j \in 0 .. k - 1 : Ch(p + j) = Ch(q + j)
        BY <1>2
  <2>2. \A j \in 0 .. k - 1 : ~(Ch(p + j) < Ch(q + j)) /\ ~(Ch(q + j) < Ch(p + j))
        BY <1>1, <2>1
  <2> QED BY <2>1, <2>2 DEF SameTo, LessTo
<1>3. CASE D # {}
  <2>0. D \in SUBSET Nat
        OBVIOUS
  <2>1. PICK i \in D : \A j \in D : i <= j
        BY <1>3, <2>0, Least
  <2>2. SameTo(i, p, q) /\ SameTo(i, q, p)
        BY <2>1 DEF SameTo
  <2>3. Ch(p + i) < Ch(q + i) \/ Ch(q + i) < Ch(p + i)
        BY <1>1, <2>1
  <2>4. ASSUME NEW j \in 0 .. k - 1, SameTo(j, p, q) \/ SameTo(j, q, p), Ch(p + j) # Ch(q + j)
        PROVE  j = i
    <3>1. ~(i < j)
          BY <2>1, <2>4 DEF SameTo
    <3> QED BY <2>1, <2>4, <3>1
  <2>5. i \in 0 .. k - 1 /\ ~SameTo(k, p, q)
        BY <2>1 DEF SameTo
  <2>6. LessTo(k, p, q) <=> Ch(p + i) < Ch(q + i)
    <3>1. ASSUME LessTo(k, p, q) PROVE Ch(p + i) < Ch(q + i)
      <4>1. PICK j \in 0 .. k - 1 : SameTo(j, p, q) /\ Ch(p + j) < Ch(q + j)
            BY <3>1 DEF LessTo
      <4>2. Ch(p + j) # Ch(q + j)
            BY <1>1, <4>1
      <4> QED BY <2>4, <4>1, <4>2
    <3> QED BY <2>2, <2>5, <3>1 DEF LessTo
  <2>7. LessTo(k, q, p) <=> Ch(q + i) < Ch(p + i)
    <3>1. ASSUME LessTo(k, q, p) PROVE Ch(q + i) < Ch(p + i)
      <4>1. PICK j \in 0 .. k - 1 : SameTo(j, q, p) /\ Ch(q + j) < Ch(p + j)
            BY <3>1 DEF LessTo
      <4>2. Ch(p + j) # Ch(q + j)
            BY <1>1, <4>1
      <4> QED BY <2>4, <4>1, <4>2
    <3> QED BY <2>2, <2>5, <3>1 DEF LessTo
  <2>8. i \in Nat /\ ~(Ch(p + i) < Ch(q + i) /\ Ch(q + i) < Ch(p + i))
        BY <1>1, <2>5
  <2> QED BY <2>3, <2>5, <2>6, <2>7, <2>8
<1> QED BY <1>2, <1>3

\* The first k characters and the m behind them.
LEMMA Behind ==
    ASSUME NEW k \in Nat, NEW m \in Nat, NEW p \in Nat, NEW q \in Nat
    PROVE  /\ SameTo(k + m, p, q) <=> SameTo(k, p, q) /\ SameTo(m, p + k, q + k)
           /\ LessTo(k + m, p, q) <=>
                \/ LessTo(k, p, q)
                \/ SameTo(k, p, q) /\ LessTo(m, p + k, q + k)
<1>1. ASSUME NEW i \in Nat
      PROVE  SameTo(k + i, p, q) <=> SameTo(k, p, q) /\ SameTo(i, p + k, q + k)
  <2>1. ASSUME SameTo(k + i, p, q) PROVE SameTo(k, p, q) /\ SameTo(i, p + k, q + k)
    <3>1. SameTo(k, p, q)
          BY <2>1 DEF SameTo
    <3>2. ASSUME NEW j \in 0 .. i - 1 PROVE Ch(p + k + j) = Ch(q + k + j)
      <4>1. k + j \in 0 .. k + i - 1 /\ p + (k + j) = p + k + j /\ q + (k + j) = q + k + j
            OBVIOUS
      <4> QED BY <2>1, <4>1 DEF SameTo
    <3> QED BY <3>1, <3>2 DEF SameTo
  <2>2. ASSUME SameTo(k, p, q), SameTo(i, p + k, q + k), NEW j \in 0 .. k + i - 1
        PROVE  Ch(p + j) = Ch(q + j)
    <3>1. CASE j < k
          BY <2>2, <3>1 DEF SameTo
    <3>2. CASE j >= k
      <4>1. j - k \in 0 .. i - 1 /\ p + k + (j - k) = p + j /\ q + k + (j - k) = q + j
            BY <3>2
      <4> QED BY <2>2, <4>1 DEF SameTo
    <3> QED BY <3>1, <3>2
  <2> QED BY SMTT(30), <2>1, <2>2 DEF SameTo
<1>2. ASSUME LessTo(k + m, p, q), ~LessTo(k, p, q)
      PROVE  SameTo(k, p, q) /\ LessTo(m, p + k, q + k)
  <2>1. PICK i \in 0 .. k + m - 1 : SameTo(i, p, q) /\ Ch(p + i) < Ch(q + i)
        BY <1>2 DEF LessTo
  <2>2. ~(i < k)
        BY <1>2, <2>1 DEF LessTo
  <2>3. /\ i - k \in 0 .. m - 1 /\ i = k + (i - k)
        /\ p + k + (i - k) = p + i /\ q + k + (i - k) = q + i
        BY <2>1, <2>2
  <2>4. SameTo(k, p, q) /\ SameTo(i - k, p + k, q + k)
        BY <1>1, <2>1, <2>3
  <2> QED BY <2>1, <2>3, <2>4 DEF LessTo
<1>3. ASSUME SameTo(k, p, q), LessTo(m, p + k, q + k) PROVE LessTo(k + m, p, q)
  <2>1. PICK i \in 0 .. m - 1 : SameTo(i, p + k, q + k) /\ Ch(p + k + i) < Ch(q + k + i)
        BY <1>3 DEF LessTo
  <2>2. SameTo(k + i, p, q)
        BY <1>1, <1>3, <2>1
  <2>3. k + i \in 0 .. k + m - 1 /\ p + (k + i) = p + k + i /\ q + (k + i) = q + k + i
        BY <2>1
  <2> QED BY <2>1, <2>2, <2>3 DEF LessTo
<1>4. LessTo(k, p, q) => LessTo(k + m, p, q)
      BY DEF LessTo
<1> QED BY <1>1, <1>2, <1>3, <1>4

\* Two suffixes that are the same so far are both longer: the terminator is in
\* neither.
LEMMA SameIsWithin ==
    ASSUME Terminated, TextOK, NEW k \in Nat,
           NEW p \in Position, NEW q \in Position, p # q, SameTo(k, p, q)
    PROVE  p + k \in Position /\ q + k \in Position
<1>1. /\ Len(content) \in Nat /\ N = Len(content) + 1 /\ Terminator = 1
      /\ \A r \in Nat : Ch(r) = Terminator => r = Len(content)
      /\ Ch(Len(content)) = Terminator
  <2>1. ASSUME NEW r \in Nat, Ch(r) = Terminator PROVE r = Len(content)
    <3>1. r \in 0 .. Len(content) - 1 \/ r = Len(content) \/ r >= N
          BY Characters
    <3> QED BY <2>1, <3>1, Characters, SuffixArrayAssumption DEF SuffixArrayAssumption, Terminator
  <2> QED BY <2>1, Characters DEF Terminator
<1>2. p \in Nat /\ q \in Nat /\ p <= Len(content) /\ q <= Len(content)
      BY <1>1 DEF Position
<1>3. CASE p + k > Len(content)
  <2> DEFINE j == Len(content) - p
  <2>1. j \in 0 .. k - 1 /\ p + j = Len(content) /\ q + j \in Nat
        BY <1>1, <1>2, <1>3
  <2>2. q + j = Len(content)
        BY <1>1, <2>1 DEF SameTo
  <2> HIDE DEF j
  <2>3. p = q
        BY <1>1, <1>2, <2>1, <2>2
  <2> QED BY <2>3
<1>4. CASE q + k > Len(content)
  <2> DEFINE j == Len(content) - q
  <2>1. j \in 0 .. k - 1 /\ q + j = Len(content) /\ p + j \in Nat
        BY <1>1, <1>2, <1>4
  <2>2. p + j = Len(content)
        BY <1>1, <2>1 DEF SameTo
  <2> HIDE DEF j
  <2>3. p = q
        BY <1>1, <1>2, <2>1, <2>2
  <2> QED BY <2>3
<1> QED BY <1>1, <1>2, <1>3, <1>4 DEF Position

-------------------------------------------------------------------------------
(* Building *)

\* The pairs are ordered as the first k characters are.
PairsAreFirst(k) ==
    \A p, q \in Position :
       /\ Before(rank, next, p, q) <=> LessTo(k, p, q)
       /\ rank[p] = rank[q] /\ next[p] = next[q] <=> SameTo(k, p, q)

ArrayOK ==
    /\ TextOK
    /\ rank \in [Position -> Nat] /\ next \in [Position -> Nat]
    /\ su_index \in Sorted(rank, next)
    /\ \E k \in Nat \ {0} : length = 2 * k /\ k % 2 = 0 /\ PairsAreFirst(k)

\* A sorted array has each position once, and none after a greater one.
LEMMA SortedIsOrder ==
    ASSUME ArrayOK, Terminated
    PROVE  /\ TextOK /\ N \in Nat /\ Position = 0 .. N - 1
           /\ \A p \in Position : p \in Nat
           /\ \A p \in Position : rank[p] \in Nat /\ next[p] \in Nat
           /\ \A i \in Position : su_index[i] \in Position
           /\ \A p \in Position : \E i \in Position : su_index[i] = p
           /\ \A i, j \in Position : i # j => su_index[i] # su_index[j]
           /\ \A i, j \in Position : i < j => ~Before(rank, next, su_index[j], su_index[i])
<1>0. TextOK
      BY DEF ArrayOK
<1>1. N \in Nat
      BY <1>0, Characters
<1>2. \A p \in Position : rank[p] \in Nat /\ next[p] \in Nat
      BY DEF ArrayOK
<1>3. /\ su_index \in Bijection(Position, Position)
      /\ \A i, j \in Position : i < j => ~Before(rank, next, su_index[j], su_index[i])
      BY DEF ArrayOK, Sorted
<1>4. /\ \A i \in Position : su_index[i] \in Position
      /\ \A p \in Position : \E i \in Position : su_index[i] = p
      /\ \A i, j \in Position : i # j => su_index[i] # su_index[j]
      BY <1>3 DEF Bijection, Injection, Surjection, IsInjective
<1> QED BY <1>0, <1>1, <1>2, <1>3, <1>4 DEF Position

\* The places at which the pair changes.
Changes(i) == {j \in 1 .. i : \/ rank[su_index[j]] # rank[su_index[j - 1]]
                             \/ next[su_index[j]] # next[su_index[j - 1]]}

PairsSame(p, q) == rank[p] = rank[q] /\ next[p] = next[q]

\* Equal pairs stand together: between two places the pair changes if and only
\* if it is another at the end.
LEMMA ChangeBetween ==
    ASSUME ArrayOK, Terminated, NEW i \in Position, NEW j \in Position, i < j
    PROVE  PairsSame(su_index[i], su_index[j]) <=> Changes(i) = Changes(j)
<1>1. /\ N \in Nat /\ Position = 0 .. N - 1
      /\ \A k \in Position : su_index[k] \in Position
      /\ \A p \in Position : rank[p] \in Nat /\ next[p] \in Nat
      BY SortedIsOrder
<1>2. CASE \E k \in i + 1 .. j : ~PairsSame(su_index[i], su_index[k])
  <2> DEFINE D == {k \in i + 1 .. j : ~PairsSame(su_index[i], su_index[k])}
  <2>1. i \in Nat /\ j \in Nat /\ D \in SUBSET Nat /\ D # {}
    <3>1. i \in Nat /\ j \in Nat
          BY <1>1
    <3> QED BY <1>2, <3>1
  <2>2. PICK k \in D : \A l \in D : k <= l
        BY <2>1, Least
  <2>3. k \in Position /\ k - 1 \in Position /\ k \in 1 .. j /\ k > i
        BY <1>1, <2>2
  <2>4. PairsSame(su_index[i], su_index[k - 1])
    <3>1. CASE k - 1 = i
          BY <3>1 DEF PairsSame
    <3>2. CASE k - 1 # i
          BY <2>2, <2>3, <3>2
    <3> QED BY <3>1, <3>2
  <2>5. k \in Changes(j) /\ k \notin Changes(i)
        BY <1>1, <2>2, <2>3, <2>4 DEF Changes, PairsSame
  <2>6. ~PairsSame(su_index[i], su_index[j])
    <3>1. SUFFICES ASSUME PairsSame(su_index[i], su_index[j]) PROVE FALSE
          OBVIOUS
    <3>2. k < j
          BY <1>1, <2>2, <2>3, <3>1
    <3>3. /\ ~Before(rank, next, su_index[k], su_index[i])
          /\ ~Before(rank, next, su_index[j], su_index[k])
          BY <2>3, <3>2, SortedIsOrder
    <3>4. ~Before(rank, next, su_index[i], su_index[k])
          BY <3>1, <3>3 DEF Before, PairsSame
    <3> QED BY <1>1, <2>2, <2>3, <3>3, <3>4 DEF Before, PairsSame
  <2> QED BY <2>5, <2>6
<1>3. CASE \A k \in i + 1 .. j : PairsSame(su_index[i], su_index[k])
  <2>1. PairsSame(su_index[i], su_index[j])
        BY <1>1, <1>3
  <2>2. ASSUME NEW k \in 1 .. j, k \notin 1 .. i
        PROVE  PairsSame(su_index[k], su_index[k - 1])
    <3>1. PairsSame(su_index[i], su_index[k])
          BY <1>1, <1>3, <2>2
    <3>2. k - 1 = i \/ k - 1 \in i + 1 .. j
          BY <1>1, <2>2
    <3> QED BY <1>3, <3>1, <3>2 DEF PairsSame
  <2>3. Changes(i) = Changes(j)
        BY <1>1, <2>2 DEF Changes, PairsSame
  <2> QED BY <2>1, <2>3
<1> QED BY <1>2, <1>3

LEMMA ChangesCounted ==
    ASSUME ArrayOK, Terminated, NEW i \in Position
    PROVE  /\ IsFiniteSet(Changes(i)) /\ Cardinality(Changes(i)) \in Nat
           /\ NewRank[su_index[i]] = Cardinality(Changes(i))
<1>1. i \in Int /\ IsFiniteSet(1 .. i)
      BY FS_Interval, SortedIsOrder
<1>2. Changes(i) \subseteq 1 .. i
      BY DEF Changes
<1>3. IsFiniteSet(Changes(i)) /\ Cardinality(Changes(i)) \in Nat
      BY <1>1, <1>2, FS_Subset, FS_CardinalityType
<1>4. su_index[i] \in Position /\ i = CHOOSE k \in Position : su_index[k] = su_index[i]
      BY SortedIsOrder
<1> QED BY <1>3, <1>4 DEF NewRank, Changes

\* The new ranks are ordered as the pairs are.
LEMMA RanksFollowPairs ==
    ASSUME ArrayOK, Terminated, NEW p \in Position, NEW q \in Position
    PROVE  /\ NewRank[p] \in Nat
           /\ NewRank[p] < NewRank[q] <=> Before(rank, next, p, q)
           /\ NewRank[p] = NewRank[q] <=> PairsSame(p, q)
<1>1. PICK i \in Position, j \in Position : su_index[i] = p /\ su_index[j] = q
      BY SortedIsOrder
<1>2. /\ NewRank[p] = Cardinality(Changes(i)) /\ NewRank[q] = Cardinality(Changes(j))
      /\ NewRank[p] \in Nat /\ NewRank[q] \in Nat
      /\ IsFiniteSet(Changes(i)) /\ IsFiniteSet(Changes(j))
      BY <1>1, ChangesCounted
<1>3. i \in Nat /\ j \in Nat /\ rank[p] \in Nat /\ rank[q] \in Nat
      /\ next[p] \in Nat /\ next[q] \in Nat
      BY SortedIsOrder
<1>4. CASE i = j
      BY <1>1, <1>2, <1>3, <1>4 DEF Before, PairsSame
<1>5. CASE i < j
  <2>1. Changes(i) \subseteq Changes(j)
        BY <1>3, <1>5 DEF Changes
  <2>2. NewRank[p] <= NewRank[q] /\ (NewRank[p] = NewRank[q] <=> Changes(i) = Changes(j))
        BY <1>2, <2>1, FS_Subset
  <2>3. PairsSame(p, q) <=> Changes(i) = Changes(j)
        BY <1>1, <1>5, ChangeBetween
  <2>4. ~Before(rank, next, q, p)
        BY <1>1, <1>5, SortedIsOrder
  <2> QED BY <1>2, <1>3, <2>2, <2>3, <2>4 DEF Before, PairsSame
<1>6. CASE j < i
  <2>1. Changes(j) \subseteq Changes(i)
        BY <1>3, <1>6 DEF Changes
  <2>2. NewRank[q] <= NewRank[p] /\ (NewRank[p] = NewRank[q] <=> Changes(i) = Changes(j))
        BY <1>2, <2>1, FS_Subset
  <2>3. PairsSame(q, p) <=> Changes(j) = Changes(i)
        BY <1>1, <1>6, ChangeBetween
  <2>4. ~Before(rank, next, p, q)
        BY <1>1, <1>6, SortedIsOrder
  <2> QED BY <1>2, <1>3, <2>2, <2>3, <2>4 DEF Before, PairsSame
<1> QED BY <1>3, <1>4, <1>5, <1>6
\* Ranks of k characters, and of the k behind them, order by twice as many.
LEMMA TwiceAsMany ==
    ASSUME ArrayOK, Terminated, NEW k \in Nat, PairsAreFirst(k), NEW x,
           \A p \in Position : x[p] = IF p + k < N THEN NewRank[p + k] ELSE 0,
           NEW p \in Position, NEW q \in Position
    PROVE  /\ Before(NewRank, x, p, q) <=> LessTo(k + k, p, q)
           /\ NewRank[p] = NewRank[q] /\ x[p] = x[q] <=> SameTo(k + k, p, q)
<1>1. \A a, b \in Position : /\ NewRank[a] \in Nat
                             /\ NewRank[a] < NewRank[b] <=> LessTo(k, a, b)
                             /\ NewRank[a] = NewRank[b] <=> SameTo(k, a, b)
      BY RanksFollowPairs DEF PairsAreFirst, PairsSame
<1>0. TextOK /\ N \in Nat /\ Position = 0 .. N - 1
      BY SortedIsOrder
<1>2. p \in Nat /\ q \in Nat /\ p + k \in Nat /\ q + k \in Nat /\ k + k \in Nat
      BY <1>0
<1>3. CASE p = q
  <2>1. SameTo(k + k, p, q)
        BY <1>3 DEF SameTo
  <2>2. ~LessTo(k + k, p, q)
        BY <1>0, <1>2, <2>1, SameOrLess
  <2>3. x[p] \in Nat
    <3>1. p + k < N => p + k \in Position
          BY <1>0, <1>2
    <3> QED BY <1>1, <3>1
  <2> QED BY <1>1, <1>3, <2>1, <2>2, <2>3 DEF Before
<1>4. CASE p # q /\ SameTo(k, p, q)
  <2>1. p + k \in Position /\ q + k \in Position
        BY <1>0, <1>4, SameIsWithin
  <2>2. x[p] = NewRank[p + k] /\ x[q] = NewRank[q + k]
        BY <1>0, <1>2, <2>1
  <2>3. /\ x[p] < x[q] <=> LessTo(k, p + k, q + k)
        /\ x[p] = x[q] <=> SameTo(k, p + k, q + k)
        BY <1>1, <2>1, <2>2
  <2>4. ~LessTo(k, p, q)
        BY <1>0, <1>2, <1>4, SameOrLess
  <2> QED BY <1>1, <1>2, <1>4, <2>3, <2>4, Behind DEF Before
<1>5. CASE ~SameTo(k, p, q)
  <2>1. ~SameTo(k + k, p, q) /\ (LessTo(k + k, p, q) <=> LessTo(k, p, q))
        BY <1>0, <1>2, <1>5, Behind
  <2>2. NewRank[p] # NewRank[q] /\ (NewRank[p] < NewRank[q] <=> LessTo(k, p, q))
        BY <1>1, <1>5
  <2> QED BY <2>1, <2>2 DEF Before
<1> QED BY <1>3, <1>4, <1>5

\* A doubling keeps it.
LEMMA DoubleKeeps == Terminated /\ ArrayOK /\ Double => ArrayOK'
<1> SUFFICES ASSUME Terminated, ArrayOK, Double PROVE ArrayOK'
    OBVIOUS
<1> DEFINE x == [p \in Position |->
                    LET q == p + length \div 2 IN IF q < N THEN NewRank[q] ELSE 0]
<1>1. /\ rank' = NewRank /\ next' = x
      /\ su_index' \in Sorted(NewRank, x)
      /\ length' = 2 * length /\ content' = content
      BY DEF Double
<1>2. PICK k \in Nat \ {0} : length = 2 * k /\ k % 2 = 0 /\ PairsAreFirst(k)
      BY DEF ArrayOK
<1>3. length \div 2 = k /\ length' = 2 * (k + k) /\ (k + k) % 2 = 0
      BY <1>1, <1>2
<1>4. txt' = txt /\ N' = N /\ Position' = Position
      BY <1>1 DEF txt, N, Position
<1>5. \A p \in Position : x[p] = IF p + k < N THEN NewRank[p + k] ELSE 0
      BY <1>3
<1>6. NewRank \in [Position -> Nat] /\ x \in [Position -> Nat]
  <2>1. \A p \in Position : NewRank[p] \in Nat
        BY RanksFollowPairs
  <2>2. ASSUME NEW p \in Position PROVE x[p] \in Nat
    <3>1. p + k < N => p + k \in Position
          BY SortedIsOrder
    <3> QED BY <1>5, <2>1, <3>1
  <2>3. NewRank \in [Position -> Nat]
        BY <2>1 DEF NewRank
  <2> HIDE DEF x
  <2>4. x \in [Position -> Nat]
        BY <2>2 DEF x
  <2> QED BY <2>3, <2>4
<1> HIDE DEF x
<1>7. \A p, q \in Position :
         /\ Before(NewRank, x, p, q) <=> LessTo(k + k, p, q)
         /\ NewRank[p] = NewRank[q] /\ x[p] = x[q] <=> SameTo(k + k, p, q)
      BY <1>2, <1>5, TwiceAsMany
<1>8. \A p, q \in Position : /\ SameTo(k + k, p, q)' <=> SameTo(k + k, p, q)
                             /\ LessTo(k + k, p, q)' <=> LessTo(k + k, p, q)
      BY <1>4 DEF SameTo, LessTo, Ch, Char
<1>9. PairsAreFirst(k + k)'
      BY <1>1, <1>4, <1>7, <1>8 DEF PairsAreFirst, Before
<1>10. (su_index \in Sorted(rank, next))'
       BY <1>1, <1>4 DEF Sorted, Before
<1>11. TextOK'
       BY <1>1 DEF ArrayOK, TextOK
<1>12. k + k \in Nat \ {0}
       BY <1>2
<1> QED BY <1>1, <1>3, <1>4, <1>6, <1>9, <1>10, <1>11, <1>12 DEF ArrayOK

\* And the first sort establishes it.
LEMMA ArrayFirst == Terminated /\ Init => ArrayOK
<1> SUFFICES ASSUME Terminated, Init PROVE ArrayOK
    OBVIOUS
<1>1. TextOK
  <2>1. PICK n \in 1 .. MaxText : content \in [1 .. n -> Byte]
        BY DEF Init
  <2>2. n \in Nat \ {0}
        BY SuffixArrayAssumption DEF SuffixArrayAssumption
  <2> QED BY <2>1, <2>2 DEF TextOK
<1>2. /\ N \in Nat /\ Position = 0 .. N - 1 /\ \A p \in Nat : Ch(p) \in Nat
      BY <1>1, Characters DEF Position
<1>3. \A p \in Position : rank[p] = Ch(p) /\ next[p] = Ch(p + 1)
      BY DEF Init, Ch
<1>4. rank \in [Position -> Nat] /\ next \in [Position -> Nat]
  <2>1. \A p \in Position : rank[p] \in Nat /\ next[p] \in Nat
        BY <1>2, <1>3
  <2> QED BY <2>1 DEF Init
<1>5. ASSUME NEW p \in Position, NEW q \in Position
      PROVE  /\ Before(rank, next, p, q) <=> LessTo(2, p, q)
             /\ rank[p] = rank[q] /\ next[p] = next[q] <=> SameTo(2, p, q)
  <2>1. p \in Nat /\ q \in Nat /\ p + 0 = p /\ q + 0 = q
        BY <1>2
  <2>2. \A i \in 0 .. 2 - 1 : i = 0 \/ i = 1
        OBVIOUS
  <2>3. SameTo(0, p, q) /\ (SameTo(1, p, q) <=> Ch(p) = Ch(q))
        BY <2>1 DEF SameTo
  <2>4. SameTo(2, p, q) <=> Ch(p) = Ch(q) /\ Ch(p + 1) = Ch(q + 1)
        BY <2>1, <2>2 DEF SameTo
  <2>5. LessTo(2, p, q) <=> Ch(p) < Ch(q) \/ (Ch(p) = Ch(q) /\ Ch(p + 1) < Ch(q + 1))
        BY <2>1, <2>2, <2>3 DEF LessTo
  <2> QED BY <1>3, <2>4, <2>5 DEF Before
<1>6. length = 2 * 2 /\ 2 % 2 = 0
      BY DEF Init
<1>7. PairsAreFirst(2)
      BY <1>5 DEF PairsAreFirst
<1> QED BY <1>1, <1>4, <1>6, <1>7 DEF ArrayOK, Init

\* When the loop has ended, all characters count.
LEMMA BuiltIsSorted ==
    ASSUME ArrayOK, Terminated, Built,
           NEW i \in Position, NEW j \in Position, i < j
    PROVE  LessTo(N, su_index[i], su_index[j])
<1>1. PICK k \in Nat \ {0} : length = 2 * k /\ PairsAreFirst(k)
      BY DEF ArrayOK
<1>2. N \in Nat /\ k >= N /\ TextOK
      BY <1>1, SortedIsOrder DEF Built
<1> DEFINE p == su_index[i]
           q == su_index[j]
<1>0. i \in Nat /\ j \in Nat /\ i # j
      BY SortedIsOrder
<1>3. p \in Position /\ q \in Position /\ p # q /\ p \in Nat /\ q \in Nat
      BY <1>0, SortedIsOrder
<1>4. ~LessTo(k, q, p)
      BY <1>1, <1>3, SortedIsOrder DEF PairsAreFirst
<1> HIDE DEF p, q
<1>5. ASSUME NEW m \in Nat, m >= N PROVE ~SameTo(m, p, q) /\ ~SameTo(m, q, p)
  <2>1. p + m \notin Position
        BY <1>2, <1>3, <1>5, SortedIsOrder
  <2>2. q + m \notin Position
        BY <1>2, <1>3, <1>5, SortedIsOrder
  <2> QED BY <1>2, <1>3, <2>1, <2>2, SameIsWithin
<1>6. LessTo(k, p, q)
      BY <1>2, <1>3, <1>4, <1>5, SameOrLess
<1>7. k - N \in Nat /\ k = N + (k - N)
      BY <1>2
<1>8. LessTo(N, p, q)
      BY <1>2, <1>3, <1>5, <1>6, <1>7, Behind
<1> QED BY <1>8 DEF p, q
\* A text c of n characters, which 0 follows; s is what it has from p on.
EndsAt(c, n)     == \A r \in Nat : (r >= n <=> c[r] = 0)
IsFrom(s, c, n, p) == \A i \in 1 .. n - p : s[i] = c[p + (i - 1)]

\* The order by the characters of the text, and that of its suffixes.
FirstIn(c, n, p, q) ==
    \E i \in 0 .. n - 1 : (\A j \in 0 .. i - 1 : c[p + j] = c[q + j]) /\ c[p + i] < c[q + i]
Shorter(s, a, t, b) ==
    \E k \in 0 .. a : k < b /\ (\A i \in 1 .. k : s[i] = t[i]) /\ (k = a \/ s[k + 1] < t[k + 1])

LEMMA LessByCharacters ==
    ASSUME NEW n \in Nat, NEW c \in [Nat -> Nat], NEW p \in 0 .. n - 1, NEW q \in 0 .. n - 1,
           EndsAt(c, n), NEW s, NEW t, IsFrom(s, c, n, p), IsFrom(t, c, n, q)
    PROVE  FirstIn(c, n, p, q) <=> Shorter(s, n - p, t, n - q)
<1> USE DEF EndsAt, IsFrom
<1>1. ASSUME NEW i \in 0 .. n - 1, \A j \in 0 .. i - 1 : c[p + j] = c[q + j], c[p + i] < c[q + i]
      PROVE  Shorter(s, n - p, t, n - q)
  <2>2. q + i < n
    <3>1. p + i \in Nat /\ q + i \in Nat
          OBVIOUS
    <3>2. c[q + i] # 0
          BY <1>1, <3>1
    <3> QED BY <3>1, <3>2
  <2>3. p + i <= n
    <3>1. SUFFICES ASSUME p + i > n PROVE FALSE
          OBVIOUS
    <3>2. i - 1 \in 0 .. i - 1 /\ p + (i - 1) >= n /\ q + (i - 1) < n
          BY <2>2, <3>1
    <3>3. c[p + (i - 1)] = c[q + (i - 1)]
          BY <1>1, <3>2
    <3>4. p + (i - 1) \in Nat /\ q + (i - 1) \in Nat
          BY <3>1, <3>2
    <3> QED BY <3>2, <3>3, <3>4
  <2>4. \A j \in 1 .. i : s[j] = t[j]
    <3>1. SUFFICES ASSUME NEW j \in 1 .. i PROVE s[j] = t[j]
          OBVIOUS
    <3>2. j \in 1 .. n - p /\ j \in 1 .. n - q /\ j - 1 \in 0 .. i - 1
          BY <2>2, <2>3
    <3>3. c[p + (j - 1)] = c[q + (j - 1)]
          BY <1>1, <3>2
    <3> QED BY <3>2, <3>3
  <2>5. CASE p + i = n
    <3>1. i = n - p /\ i \in 0 .. n - p /\ i < n - q
          BY <2>2, <2>5
    <3> QED BY <2>4, <3>1 DEF Shorter
  <2>6. CASE p + i < n
    <3>1. i \in 0 .. n - p /\ i < n - q /\ i + 1 \in 1 .. n - p /\ i + 1 \in 1 .. n - q
          BY <2>2, <2>6
    <3>2. s[i + 1] = c[p + i] /\ t[i + 1] = c[q + i]
          BY <3>1
    <3> QED BY <1>1, <2>4, <3>1, <3>2 DEF Shorter
  <2> QED BY <2>3, <2>5, <2>6
<1>2. ASSUME Shorter(s, n - p, t, n - q)
      PROVE  \E i \in 0 .. n - 1 : (\A j \in 0 .. i - 1 : c[p + j] = c[q + j]) /\ c[p + i] < c[q + i]
  <2>1. PICK i \in 0 .. n - p : i < n - q /\ (\A j \in 1 .. i : s[j] = t[j])
                                /\ (i = n - p \/ s[i + 1] < t[i + 1])
        BY <1>2 DEF Shorter
  <2>2. i \in 0 .. n - 1 /\ i <= n - p /\ i < n - q
        BY <2>1
  <2>3. ASSUME NEW j \in 0 .. i - 1 PROVE c[p + j] = c[q + j]
    <3>2. j + 1 \in 1 .. i /\ j + 1 \in 1 .. n - p /\ j + 1 \in 1 .. n - q /\ (j + 1) - 1 = j
          BY <2>2
    <3>3. s[j + 1] = t[j + 1]
          BY <2>1, <2>2, <3>2
    <3>4. s[j + 1] = c[p + ((j + 1) - 1)] /\ t[j + 1] = c[q + ((j + 1) - 1)]
          BY <3>2
    <3> QED BY <3>2, <3>3, <3>4
  <2>4. c[p + i] < c[q + i]
    <3>1. CASE i = n - p
      <4>0. p + i \in Nat /\ q + i \in Nat /\ p + i >= n /\ ~(q + i >= n)
            BY <2>2, <3>1
      <4>1. c[p + i] = 0 /\ c[q + i] # 0 /\ c[q + i] \in Nat
            BY <4>0
      <4> QED BY <4>1
    <3>2. CASE i # n - p
      <4>1. i + 1 \in 1 .. n - p /\ i + 1 \in 1 .. n - q /\ (i + 1) - 1 = i
            BY <2>2, <3>2
      <4>2. s[i + 1] < t[i + 1]
            BY <2>1, <2>2, <3>2
      <4>3. s[i + 1] = c[p + ((i + 1) - 1)] /\ t[i + 1] = c[q + ((i + 1) - 1)]
            BY <4>1
      <4> QED BY <4>1, <4>2, <4>3
    <3> QED BY <3>1, <3>2
  <2> QED BY <2>2, <2>3, <2>4
<1> QED BY <1>1, <1>2 DEF FirstIn

\* The text by its characters.
LEMMA TextIs ==
    ASSUME Terminated, TextOK
    PROVE  /\ N \in Nat /\ Position = 0 .. N - 1
           /\ \A r \in Nat : Ch(r) \in Nat /\ (r >= N <=> Ch(r) = 0)
           /\ txt \in Seq(Nat) /\ Len(txt) = N
           /\ \A p \in Position : txt[p + 1] = Ch(p)
<1>1. Len(content) \in Nat /\ N = Len(content) + 1
      BY Characters
<1>2. N \in Nat /\ Position = 0 .. N - 1
      BY <1>1 DEF Position
<1>3. ASSUME NEW r \in Nat PROVE Ch(r) \in Nat /\ (r >= N <=> Ch(r) = 0)
  <2>1. CASE r >= N
        BY <2>1, Characters
  <2>2. CASE r < N
    <3>1. r \in 0 .. Len(content) - 1 \/ r = Len(content)
          BY <1>1, <2>2
    <3>2. Ch(r) \in Byte \/ Ch(r) = Terminator
          BY <3>1, Characters
    <3>3. Ch(r) # 0
          BY <3>2, SuffixArrayAssumption DEF SuffixArrayAssumption, Terminator
    <3> QED BY <1>2, <2>2, <3>3, Characters
  <2> QED BY <1>2, <2>1, <2>2
<1>4. txt \in Seq(Nat) /\ Len(txt) = N
  <2>1. Byte \subseteq Nat /\ content \in Seq(Byte)
        BY SuffixArrayAssumption DEF SuffixArrayAssumption, TextOK
  <2>2. content \in Seq(Nat)
        BY <2>1, SeqMonotonic
  <2> QED BY <2>2 DEF txt, N, Terminator
<1>5. ASSUME NEW p \in Position PROVE txt[p + 1] = Ch(p)
      BY <1>5 DEF Ch, Char
<1> QED BY <1>2, <1>3, <1>4, <1>5

LEMMA SuffixIs ==
    ASSUME NEW w \in Seq(Nat), NEW p \in 0 .. Len(w) - 1
    PROVE  /\ Len(SubSeq(w, p + 1, Len(w))) = Len(w) - p
           /\ SubSeq(w, p + 1, Len(w)) \in Seq(Nat)
           /\ \A i \in 1 .. Len(w) - p : SubSeq(w, p + 1, Len(w))[i] = w[(p + (i - 1)) + 1]
<1> DEFINE n == Len(w)
           s == SubSeq(w, p + 1, n)
<1>1. n \in Nat /\ p + 1 \in 1 .. n
      OBVIOUS
<1>2. Len(s) = n - p /\ s \in Seq(Nat)
      BY <1>1
<1>3. ASSUME NEW i \in 1 .. n - p PROVE s[i] = w[(p + (i - 1)) + 1]
  <2>1. s[i] = w[(p + 1) + i - 1]
        BY SMTT(30), <1>1, <1>2
  <2>2. (p + 1) + i - 1 = (p + (i - 1)) + 1
        BY <1>1
  <2> QED BY <2>1, <2>2
<1> QED BY <1>2, <1>3

\* The order of the first N characters is the order of the suffixes.
LEMMA LessToIsLess ==
    ASSUME Terminated, TextOK, NEW p \in Position, NEW q \in Position
    PROVE  LessTo(N, p, q) <=> Less(Suffix(p), Suffix(q))
<1> DEFINE c == [r \in Nat |-> Ch(r)]
<1>1. /\ N \in Nat /\ Position = 0 .. N - 1 /\ Len(txt) = N /\ txt \in Seq(Nat)
      /\ \A r \in Position : txt[r + 1] = Ch(r)
      BY TextIs
<1>2. c \in [Nat -> Nat] /\ \A r \in Nat : (r >= N <=> c[r] = 0)
      BY TextIs
<1>3. ASSUME NEW r \in Position
      PROVE  /\ Len(Suffix(r)) = N - r /\ Suffix(r) \in Seq(Nat)
             /\ \A i \in 1 .. N - r : Suffix(r)[i] = c[r + (i - 1)]
  <2>1. /\ Len(Suffix(r)) = N - r /\ Suffix(r) \in Seq(Nat)
        /\ \A i \in 1 .. N - r : Suffix(r)[i] = txt[(r + (i - 1)) + 1]
        BY <1>1, SuffixIs DEF Suffix
  <2>2. ASSUME NEW i \in 1 .. N - r PROVE txt[(r + (i - 1)) + 1] = c[r + (i - 1)]
    <3>1. r + (i - 1) \in Position /\ r + (i - 1) \in Nat
          BY <1>1
    <3> QED BY <1>1, <3>1
  <2> QED BY <2>1, <2>2
<1>4. FirstIn(c, N, p, q) <=> Shorter(Suffix(p), N - p, Suffix(q), N - q)
  <2>1. N \in Nat /\ p \in 0 .. N - 1 /\ q \in 0 .. N - 1
        BY <1>1
  <2>2. EndsAt(c, N) /\ IsFrom(Suffix(p), c, N, p) /\ IsFrom(Suffix(q), c, N, q)
    <3> HIDE DEF c
    <3> QED BY <1>2, <1>3 DEF EndsAt, IsFrom
  <2> HIDE DEF c
  <2> QED BY <1>2, <2>1, <2>2, LessByCharacters
<1>5. Less(Suffix(p), Suffix(q)) <=> Shorter(Suffix(p), N - p, Suffix(q), N - q)
      BY <1>3 DEF Less, Shorter
<1>6. ASSUME NEW i \in 0 .. N - 1
      PROVE  /\ c[p + i] = Ch(p + i) /\ c[q + i] = Ch(q + i)
             /\ \A j \in 0 .. i - 1 : c[p + j] = Ch(p + j) /\ c[q + j] = Ch(q + j)
      BY <1>1
<1> HIDE DEF c
<1>7. ASSUME NEW i \in 0 .. N - 1
      PROVE  (\A j \in 0 .. i - 1 : c[p + j] = c[q + j]) <=> SameTo(i, p, q)
      BY <1>6 DEF SameTo
<1> QED BY <1>4, <1>5, <1>6, <1>7 DEF LessTo, FirstIn

\* Whatever the sorts leave of the order of equal pairs, the ranks are those of
\* the characters sorted so far.
LEMMA ArrayHolds == Terminated => (Spec => []ArrayOK)
<1> SUFFICES ASSUME Terminated PROVE Spec => []ArrayOK
    OBVIOUS
<1>1. Init => ArrayOK
      BY ArrayFirst
<1>2. ArrayOK /\ [Double]_vars => ArrayOK'
  <2>1. ASSUME ArrayOK, UNCHANGED vars PROVE ArrayOK'
    <3>1. /\ Position' = Position /\ UNCHANGED <<content, su_index, rank, next, length>>
          /\ \A k : PairsAreFirst(k)' <=> PairsAreFirst(k)
          BY <2>1 DEF vars, PairsAreFirst, SameTo, LessTo, Ch, Char, Position, N, txt, Before
    <3>2. Sorted(rank, next)' = Sorted(rank, next)
          BY <3>1 DEF Sorted, Before
    <3> QED BY <2>1, <3>1, <3>2 DEF ArrayOK, TextOK
  <2> QED BY <2>1, DoubleKeeps
<1> QED BY <1>1, <1>2, PTL DEF Spec

\* For texts of every length: when the loop ends the positions are in the order
\* of their suffixes (buildSuffixArray).
THEOREM SuffixesSortedHolds == Terminated => (Spec => []SuffixesSorted)
<1> SUFFICES ASSUME Terminated PROVE Spec => []SuffixesSorted
    OBVIOUS
<1>1. Spec => []ArrayOK
      BY ArrayHolds
<1>2. ArrayOK => SuffixesSorted
  <2>1. SUFFICES ASSUME ArrayOK, Built, NEW i \in 1 .. N - 1
                 PROVE  Less(Suffix(su_index[i - 1]), Suffix(su_index[i]))
        BY DEF SuffixesSorted
  <2>0. N \in Nat /\ Position = 0 .. N - 1
        BY <2>1, SortedIsOrder
  <2>2. i - 1 \in Position /\ i \in Position /\ i - 1 < i
        BY <2>0
  <2>3. su_index[i - 1] \in Position /\ su_index[i] \in Position /\ TextOK
        BY <2>1, <2>2, SortedIsOrder
  <2>4. LessTo(N, su_index[i - 1], su_index[i])
        BY <2>1, <2>2, BuiltIsSorted
  <2> QED BY <2>3, <2>4, LessToIsLess
<1> QED BY <1>1, <1>2, PTL

-------------------------------------------------------------------------------
(* The search *)

LEMMA MidIs ==
    ASSUME NEW low \in Int, NEW high \in Int, low <= high
    PROVE  Mid(low, high) \in Int /\ low <= Mid(low, high) /\ Mid(low, high) <= high
BY DEF Mid

\* The ranges that a search can come to, empty ones included.
RangesUsed == {r \in Ranges : r.low <= r.high + 1}

LEMMA RangeTypes ==
    ASSUME TextOK
    PROVE  /\ Len(content) \in Nat \ {0}
           /\ \A r \in Ranges : r.low \in Int /\ r.high \in Int
           /\ \A l, h \in Int : [low |-> l, high |-> h] \in Ranges
                                   <=> 0 <= l /\ l <= Len(content) /\ -1 <= h /\ h < Len(content)
           /\ \A r \in Ranges : 0 <= r.low /\ r.low <= Len(content)
                                /\ -1 <= r.high /\ r.high < Len(content)
<1>1. Len(content) \in Nat \ {0}
      BY DEF TextOK
<1> QED BY <1>1 DEF Ranges

\* How much is left.
Width(r) == IF r.low > r.high THEN 0 ELSE r.high - r.low + 1

Above(r) == [low |-> Mid(r.low, r.high) + 1, high |-> r.high]
Below(r) == [low |-> r.low, high |-> Mid(r.low, r.high) - 1]

LEMMA Halves ==
    ASSUME TextOK, NEW r \in Ranges, r.low <= r.high
    PROVE  /\ Mid(r.low, r.high) \in Int /\ r.low <= Mid(r.low, r.high) /\ Mid(r.low, r.high) <= r.high
           /\ Above(r) \in Ranges /\ Width(Above(r)) < Width(r) /\ Above(r).low <= Above(r).high + 1
           /\ Below(r) \in Ranges /\ Width(Below(r)) < Width(r) /\ Below(r).low <= Below(r).high + 1
<1>1. /\ r.low \in Int /\ r.high \in Int /\ 0 <= r.low /\ r.low <= Len(content)
      /\ -1 <= r.high /\ r.high < Len(content) /\ Len(content) \in Nat
      BY RangeTypes
<1>2. PICK mid \in Int : mid = Mid(r.low, r.high) /\ r.low <= mid /\ mid <= r.high
      BY <1>1, MidIs
<1>3. /\ Above(r) = [low |-> mid + 1, high |-> r.high]
      /\ Below(r) = [low |-> r.low, high |-> mid - 1]
      BY <1>2 DEF Above, Below
<1>4. /\ 0 <= mid + 1 /\ mid + 1 <= Len(content) /\ mid + 1 \in Int
      /\ -1 <= mid - 1 /\ mid - 1 < Len(content) /\ mid - 1 \in Int
      BY <1>1, <1>2
<1>5. Above(r) \in Ranges /\ Below(r) \in Ranges
      BY <1>1, <1>3, <1>4, RangeTypes
<1>6. /\ Above(r).low = mid + 1 /\ Above(r).high = r.high
      /\ Below(r).low = r.low /\ Below(r).high = mid - 1
      BY <1>3
<1>7. Width(Above(r)) < Width(r) /\ Width(Below(r)) < Width(r)
      BY <1>1, <1>2, <1>6 DEF Width
<1> QED BY <1>1, <1>2, <1>5, <1>6, <1>7

LEMMA WidthIsNat ==
    ASSUME TextOK, NEW r \in Ranges PROVE Width(r) \in Nat
<1>1. r.low \in Int /\ r.high \in Int
      BY RangeTypes
<1> QED BY <1>1 DEF Width

\* The characters of a range do not fall.
Rising(off, low, high) ==
    \A i, j \in low .. high : i <= j => CharAt(i, off) <= CharAt(j, off)

IsFirstNotBelow(char, off, r, result) ==
    /\ result \in r.low .. r.high + 1
    /\ Rising(off, r.low, r.high) =>
          /\ \A i \in r.low .. result - 1 : CharAt(i, off) < char
          /\ \A i \in result .. r.high : CharAt(i, off) >= char

IsLastNotAbove(char, off, r, result) ==
    /\ result \in r.low - 1 .. r.high
    /\ Rising(off, r.low, r.high) =>
          /\ \A i \in r.low .. result : CharAt(i, off) <= char
          /\ \A i \in result + 1 .. r.high : CharAt(i, off) > char

CharsOK(off) == \A i \in 0 .. Len(content) - 1 : CharAt(i, off) \in Nat

\* The loop obeys its equation: every turn leaves less.
LEMMA FirstNotBelowLoop ==
    ASSUME TextOK, NEW char, NEW off
    PROVE  \E loop : /\ \A r \in Ranges :
                           loop[r] = IF r.low > r.high THEN r.low
                                     ELSE IF char > CharAt(Mid(r.low, r.high), off)
                                          THEN loop[Above(r)] ELSE loop[Below(r)]
                     /\ \A range : FirstNotBelow(char, off, range) = loop[range]
<1> DEFINE body(f, r) == IF r.low > r.high THEN r.low
                         ELSE IF char > CharAt(Mid(r.low, r.high), off)
                              THEN f[Above(r)] ELSE f[Below(r)]
           F == [r \in Ranges |-> [f \in [Ranges -> Int] |-> body(f, r)]]
           m == [r \in Ranges |-> Width(r)]
           loop == CHOOSE f : f = [r \in Ranges |-> body(f, r)]
<1>1. Recursive(Ranges, Int, m, F)
  <2>1. \A r \in Ranges : r.low \in Int
        BY RangeTypes
  <2>2. \A r \in Ranges : Width(r) \in Nat
        BY WidthIsNat
  <2>3. \A r \in Ranges : r.low > r.high \/ (Above(r) \in Ranges /\ Below(r) \in Ranges
                                             /\ Width(Above(r)) < Width(r)
                                             /\ Width(Below(r)) < Width(r))
    <3>1. \A r \in Ranges : r.low \in Int /\ r.high \in Int
          BY RangeTypes
    <3> QED BY <3>1, Halves
  <2>4. ASSUME NEW r \in Ranges, NEW g \in [Ranges -> Int] PROVE F[r][g] \in Int /\ F[r][g] = body(g, r)
        BY <2>1, <2>3
  <2>5. ASSUME NEW r \in Ranges, NEW g \in [Ranges -> Int], NEW h \in [Ranges -> Int],
               \A y \in Ranges : m[y] < m[r] => g[y] = h[y]
        PROVE  F[r][g] = F[r][h]
    <3>1. body(g, r) = body(h, r)
          BY <2>3, <2>5
    <3> HIDE DEF F
    <3> QED BY <2>4, <3>1
  <2> HIDE DEF F
  <2> QED BY <2>2, <2>4, <2>5 DEF Recursive
<1>2. PICK g \in [Ranges -> Int] : \A r \in Ranges : g[r] = F[r][g]
  <2> HIDE DEF F, m
  <2> QED BY <1>1, RecursionDefines
<1>3. g = [r \in Ranges |-> body(g, r)]
      BY <1>2
<1>4. loop = [r \in Ranges |-> body(loop, r)]
  <2> HIDE DEF body
  <2> QED BY <1>3
<1>5. \A range : FirstNotBelow(char, off, range) = loop[range]
      BY DEF FirstNotBelow, Above, Below
<1>6. \A r \in Ranges : loop[r] = body(loop, r)
  <2> HIDE DEF loop, body
  <2> QED BY <1>4
<1> HIDE DEF loop
<1> QED BY <1>5, <1>6

LEMMA FirstNotBelowIs ==
    ASSUME TextOK, NEW char \in Nat, NEW off, CharsOK(off), NEW range \in RangesUsed
    PROVE  IsFirstNotBelow(char, off, range, FirstNotBelow(char, off, range))
<1>1. PICK loop : /\ \A r \in Ranges :
                        loop[r] = IF r.low > r.high THEN r.low
                                  ELSE IF char > CharAt(Mid(r.low, r.high), off)
                                       THEN loop[Above(r)] ELSE loop[Below(r)]
                  /\ \A r : FirstNotBelow(char, off, r) = loop[r]
      BY FirstNotBelowLoop
<1> DEFINE T == {n \in Nat : \A r \in RangesUsed :
                    Width(r) = n => IsFirstNotBelow(char, off, r, loop[r])}
<1>2. ASSUME NEW n \in Nat, \A k \in Nat : k < n => k \in T PROVE n \in T
  <2>1. SUFFICES ASSUME NEW r \in RangesUsed, Width(r) = n
                 PROVE  IsFirstNotBelow(char, off, r, loop[r])
        OBVIOUS
  <2>2. /\ r \in Ranges /\ r.low \in Int /\ r.high \in Int /\ r.low <= r.high + 1
        /\ 0 <= r.low /\ r.high < Len(content) /\ Len(content) \in Nat
        BY <2>1, RangeTypes DEF RangesUsed
  <2>3. CASE r.low > r.high
    <3>1. loop[r] = r.low
          BY <1>1, <2>2, <2>3
    <3> QED BY <2>2, <2>3, <3>1 DEF IsFirstNotBelow
  <2>4. CASE r.low <= r.high
    <3>0. PICK mid \in Int : mid = Mid(r.low, r.high) /\ r.low <= mid /\ mid <= r.high
          BY <2>2, <2>4, MidIs
    <3>1. CharAt(mid, off) \in Nat
          BY <2>2, <3>0 DEF CharsOK
    <3>2. ASSUME NEW half \in RangesUsed, Width(half) < Width(r)
          PROVE  IsFirstNotBelow(char, off, half, loop[half])
          BY <1>2, <2>1, <3>2, WidthIsNat DEF RangesUsed
    <3>3. /\ Above(r) \in RangesUsed /\ Width(Above(r)) < Width(r)
          /\ Below(r) \in RangesUsed /\ Width(Below(r)) < Width(r)
          BY <2>2, <2>4, Halves DEF RangesUsed
    <3>4. /\ Above(r).low = mid + 1 /\ Above(r).high = r.high
          /\ Below(r).low = r.low /\ Below(r).high = mid - 1
          BY <3>0 DEF Above, Below
    <3>5. CASE char > CharAt(mid, off)
      <4>1. loop[r] = loop[Above(r)]
            BY <1>1, <2>2, <2>4, <3>0, <3>5
      <4>2. PICK v : v = loop[r] /\ IsFirstNotBelow(char, off, Above(r), v)
            BY <3>2, <3>3, <4>1
      <4>3. v \in mid + 1 .. r.high + 1
            BY <3>4, <4>2 DEF IsFirstNotBelow
      <4>4. ASSUME Rising(off, r.low, r.high)
            PROVE  /\ \A i \in r.low .. v - 1 : CharAt(i, off) < char
                   /\ \A i \in v .. r.high : CharAt(i, off) >= char
        <5>1. Rising(off, mid + 1, r.high)
              BY <2>2, <3>0, <4>4 DEF Rising
        <5>2. /\ \A i \in mid + 1 .. v - 1 : CharAt(i, off) < char
              /\ \A i \in v .. r.high : CharAt(i, off) >= char
              BY <3>4, <4>2, <5>1 DEF IsFirstNotBelow
        <5>3. ASSUME NEW i \in r.low .. mid PROVE CharAt(i, off) < char
          <6>1. CharAt(i, off) <= CharAt(mid, off)
                BY <2>2, <3>0, <4>4 DEF Rising
          <6>2. CharAt(i, off) \in Nat
                BY <2>2, <3>0 DEF CharsOK
          <6> QED BY <3>1, <3>5, <6>1, <6>2
        <5> QED BY <2>2, <3>0, <4>3, <5>2, <5>3
      <4> QED BY <2>2, <3>0, <4>2, <4>3, <4>4 DEF IsFirstNotBelow
    <3>6. CASE ~(char > CharAt(mid, off))
      <4>1. loop[r] = loop[Below(r)]
            BY <1>1, <2>2, <2>4, <3>0, <3>6
      <4>2. PICK v : v = loop[r] /\ IsFirstNotBelow(char, off, Below(r), v)
            BY <3>2, <3>3, <4>1
      <4>3. v \in r.low .. mid
        <5>1. v \in r.low .. (mid - 1) + 1
              BY <3>4, <4>2 DEF IsFirstNotBelow
        <5> QED BY <3>0, <5>1
      <4>4. ASSUME Rising(off, r.low, r.high)
            PROVE  /\ \A i \in r.low .. v - 1 : CharAt(i, off) < char
                   /\ \A i \in v .. r.high : CharAt(i, off) >= char
        <5>1. Rising(off, r.low, mid - 1)
              BY <2>2, <3>0, <4>4 DEF Rising
        <5>2. /\ \A i \in r.low .. v - 1 : CharAt(i, off) < char
              /\ \A i \in v .. mid - 1 : CharAt(i, off) >= char
              BY <3>4, <4>2, <5>1 DEF IsFirstNotBelow
        <5>3. ASSUME NEW i \in mid .. r.high PROVE CharAt(i, off) >= char
          <6>1. CharAt(mid, off) <= CharAt(i, off)
                BY <2>2, <3>0, <4>4 DEF Rising
          <6>2. CharAt(i, off) \in Nat
                BY <2>2, <3>0 DEF CharsOK
          <6> QED BY <3>1, <3>6, <6>1, <6>2
        <5> QED BY <2>2, <3>0, <4>3, <5>2, <5>3
      <4> QED BY <2>2, <3>0, <4>2, <4>3, <4>4 DEF IsFirstNotBelow
    <3> QED BY <3>5, <3>6
  <2> QED BY <2>2, <2>3, <2>4
<1> HIDE DEF T
<1>3. Nat \subseteq T
      BY <1>2, Induction
<1>4. Width(range) \in T /\ range \in RangesUsed
      BY <1>3, WidthIsNat DEF RangesUsed
<1> QED BY <1>1, <1>4 DEF T

LEMMA LastNotAboveLoop ==
    ASSUME TextOK, NEW char, NEW off
    PROVE  \E loop : /\ \A r \in Ranges :
                           loop[r] = IF r.low > r.high THEN r.high
                                     ELSE IF char < CharAt(Mid(r.low, r.high), off)
                                          THEN loop[Below(r)] ELSE loop[Above(r)]
                     /\ \A range : LastNotAbove(char, off, range) = loop[range]
<1> DEFINE body(f, r) == IF r.low > r.high THEN r.high
                         ELSE IF char < CharAt(Mid(r.low, r.high), off)
                              THEN f[Below(r)] ELSE f[Above(r)]
           F == [r \in Ranges |-> [f \in [Ranges -> Int] |-> body(f, r)]]
           m == [r \in Ranges |-> Width(r)]
           loop == CHOOSE f : f = [r \in Ranges |-> body(f, r)]
<1>1. Recursive(Ranges, Int, m, F)
  <2>1. \A r \in Ranges : r.high \in Int
        BY RangeTypes
  <2>2. \A r \in Ranges : Width(r) \in Nat
        BY WidthIsNat
  <2>3. \A r \in Ranges : r.low > r.high \/ (Above(r) \in Ranges /\ Below(r) \in Ranges
                                             /\ Width(Above(r)) < Width(r)
                                             /\ Width(Below(r)) < Width(r))
    <3>1. \A r \in Ranges : r.low \in Int /\ r.high \in Int
          BY RangeTypes
    <3> QED BY <3>1, Halves
  <2>4. ASSUME NEW r \in Ranges, NEW g \in [Ranges -> Int] PROVE F[r][g] \in Int /\ F[r][g] = body(g, r)
        BY <2>1, <2>3
  <2>5. ASSUME NEW r \in Ranges, NEW g \in [Ranges -> Int], NEW h \in [Ranges -> Int],
               \A y \in Ranges : m[y] < m[r] => g[y] = h[y]
        PROVE  F[r][g] = F[r][h]
    <3>1. body(g, r) = body(h, r)
          BY <2>3, <2>5
    <3> HIDE DEF F
    <3> QED BY <2>4, <3>1
  <2> HIDE DEF F
  <2> QED BY <2>2, <2>4, <2>5 DEF Recursive
<1>2. PICK g \in [Ranges -> Int] : \A r \in Ranges : g[r] = F[r][g]
  <2> HIDE DEF F, m
  <2> QED BY <1>1, RecursionDefines
<1>3. g = [r \in Ranges |-> body(g, r)]
      BY <1>2
<1>4. loop = [r \in Ranges |-> body(loop, r)]
  <2> HIDE DEF body
  <2> QED BY <1>3
<1>5. \A range : LastNotAbove(char, off, range) = loop[range]
      BY DEF LastNotAbove, Above, Below
<1>6. \A r \in Ranges : loop[r] = body(loop, r)
  <2> HIDE DEF loop, body
  <2> QED BY <1>4
<1> HIDE DEF loop
<1> QED BY <1>5, <1>6

LEMMA LastNotAboveIs ==
    ASSUME TextOK, NEW char \in Nat, NEW off, CharsOK(off), NEW range \in RangesUsed
    PROVE  IsLastNotAbove(char, off, range, LastNotAbove(char, off, range))
<1>1. PICK loop : /\ \A r \in Ranges :
                        loop[r] = IF r.low > r.high THEN r.high
                                  ELSE IF char < CharAt(Mid(r.low, r.high), off)
                                       THEN loop[Below(r)] ELSE loop[Above(r)]
                  /\ \A r : LastNotAbove(char, off, r) = loop[r]
      BY LastNotAboveLoop
<1> DEFINE T == {n \in Nat : \A r \in RangesUsed :
                    Width(r) = n => IsLastNotAbove(char, off, r, loop[r])}
<1>2. ASSUME NEW n \in Nat, \A k \in Nat : k < n => k \in T PROVE n \in T
  <2>1. SUFFICES ASSUME NEW r \in RangesUsed, Width(r) = n
                 PROVE  IsLastNotAbove(char, off, r, loop[r])
        OBVIOUS
  <2>2. /\ r \in Ranges /\ r.low \in Int /\ r.high \in Int /\ r.low <= r.high + 1
        /\ 0 <= r.low /\ r.high < Len(content) /\ Len(content) \in Nat
        BY <2>1, RangeTypes DEF RangesUsed
  <2>3. CASE r.low > r.high
    <3>1. loop[r] = r.high
          BY <1>1, <2>2, <2>3
    <3> QED BY <2>2, <2>3, <3>1 DEF IsLastNotAbove
  <2>4. CASE r.low <= r.high
    <3>0. PICK mid \in Int : mid = Mid(r.low, r.high) /\ r.low <= mid /\ mid <= r.high
          BY <2>2, <2>4, MidIs
    <3>1. CharAt(mid, off) \in Nat
          BY <2>2, <3>0 DEF CharsOK
    <3>2. ASSUME NEW half \in RangesUsed, Width(half) < Width(r)
          PROVE  IsLastNotAbove(char, off, half, loop[half])
          BY <1>2, <2>1, <3>2, WidthIsNat DEF RangesUsed
    <3>3. /\ Above(r) \in RangesUsed /\ Width(Above(r)) < Width(r)
          /\ Below(r) \in RangesUsed /\ Width(Below(r)) < Width(r)
          BY <2>2, <2>4, Halves DEF RangesUsed
    <3>4. /\ Above(r).low = mid + 1 /\ Above(r).high = r.high
          /\ Below(r).low = r.low /\ Below(r).high = mid - 1
          BY <3>0 DEF Above, Below
    <3>5. CASE char < CharAt(mid, off)
      <4>1. loop[r] = loop[Below(r)]
            BY <1>1, <2>2, <2>4, <3>0, <3>5
      <4>2. PICK v : v = loop[r] /\ IsLastNotAbove(char, off, Below(r), v)
            BY <3>2, <3>3, <4>1
      <4>3. v \in r.low - 1 .. mid - 1
            BY <3>4, <4>2 DEF IsLastNotAbove
      <4>4. ASSUME Rising(off, r.low, r.high)
            PROVE  /\ \A i \in r.low .. v : CharAt(i, off) <= char
                   /\ \A i \in v + 1 .. r.high : CharAt(i, off) > char
        <5>1. Rising(off, r.low, mid - 1)
              BY <2>2, <3>0, <4>4 DEF Rising
        <5>2. /\ \A i \in r.low .. v : CharAt(i, off) <= char
              /\ \A i \in v + 1 .. mid - 1 : CharAt(i, off) > char
              BY <3>4, <4>2, <5>1 DEF IsLastNotAbove
        <5>3. ASSUME NEW i \in mid .. r.high PROVE CharAt(i, off) > char
          <6>1. CharAt(mid, off) <= CharAt(i, off)
                BY <2>2, <3>0, <4>4 DEF Rising
          <6>2. CharAt(i, off) \in Nat
                BY <2>2, <3>0 DEF CharsOK
          <6> QED BY <3>1, <3>5, <6>1, <6>2
        <5> QED BY <2>2, <3>0, <4>3, <5>2, <5>3
      <4> QED BY <2>2, <3>0, <4>2, <4>3, <4>4 DEF IsLastNotAbove
    <3>6. CASE ~(char < CharAt(mid, off))
      <4>1. loop[r] = loop[Above(r)]
            BY <1>1, <2>2, <2>4, <3>0, <3>6
      <4>2. PICK v : v = loop[r] /\ IsLastNotAbove(char, off, Above(r), v)
            BY <3>2, <3>3, <4>1
      <4>3. v \in mid .. r.high
        <5>1. v \in (mid + 1) - 1 .. r.high
              BY <3>4, <4>2 DEF IsLastNotAbove
        <5> QED BY <3>0, <5>1
      <4>4. ASSUME Rising(off, r.low, r.high)
            PROVE  /\ \A i \in r.low .. v : CharAt(i, off) <= char
                   /\ \A i \in v + 1 .. r.high : CharAt(i, off) > char
        <5>1. Rising(off, mid + 1, r.high)
              BY <2>2, <3>0, <4>4 DEF Rising
        <5>2. /\ \A i \in mid + 1 .. v : CharAt(i, off) <= char
              /\ \A i \in v + 1 .. r.high : CharAt(i, off) > char
              BY <3>4, <4>2, <5>1 DEF IsLastNotAbove
        <5>3. ASSUME NEW i \in r.low .. mid PROVE CharAt(i, off) <= char
          <6>1. CharAt(i, off) <= CharAt(mid, off)
                BY <2>2, <3>0, <4>4 DEF Rising
          <6>2. CharAt(i, off) \in Nat
                BY <2>2, <3>0 DEF CharsOK
          <6> QED BY <3>1, <3>6, <6>1, <6>2
        <5> QED BY <2>2, <3>0, <4>3, <5>2, <5>3
      <4> QED BY <2>2, <3>0, <4>2, <4>3, <4>4 DEF IsLastNotAbove
    <3> QED BY <3>5, <3>6
  <2> QED BY <2>2, <2>3, <2>4
<1> HIDE DEF T
<1>3. Nat \subseteq T
      BY <1>2, Induction
<1>4. Width(range) \in T /\ range \in RangesUsed
      BY <1>3, WidthIsNat DEF RangesUsed
<1> QED BY <1>1, <1>4 DEF T

\* The doubled steps end: every turn goes on by at least one.
LEMMA GallopLoop ==
    ASSUME TextOK, NEW char, NEW off, NEW range \in Ranges
    PROVE  \E loop :
              /\ \A s \in Steps :
                    loop[s] = IF s.new_high <= range.high /\ CharAt(s.new_high, off) = char
                              THEN loop[[low      |-> s.new_high,
                                         new_high |-> s.new_high + s.delta,
                                         delta    |-> 2 * s.delta]]
                              ELSE [low  |-> s.low,
                                    high |-> IF s.new_high <= range.high THEN s.new_high
                                                                         ELSE range.high]
              /\ Gallop(char, off, range) = loop[[low |-> range.low, new_high |-> range.low, delta |-> 1]]
<1> DEFINE onward(s)  == [low |-> s.new_high, new_high |-> s.new_high + s.delta, delta |-> 2 * s.delta]
           result(s)  == [low  |-> s.low,
                          high |-> IF s.new_high <= range.high THEN s.new_high ELSE range.high]
           body(f, s) == IF s.new_high <= range.high /\ CharAt(s.new_high, off) = char
                         THEN f[onward(s)] ELSE result(s)
           left(s)    == IF s.new_high > range.high THEN 0 ELSE range.high - s.new_high + 1
           V == [low : Int, high : Int]
           F == [s \in Steps |-> [f \in [Steps -> V] |-> body(f, s)]]
           m == [s \in Steps |-> left(s)]
           loop == CHOOSE f : f = [s \in Steps |-> body(f, s)]
<1>1. Recursive(Steps, V, m, F)
  <2>1. range.low \in Int /\ range.high \in Int
        BY RangeTypes
  <2>2. \A s \in Steps : s.new_high \in Nat /\ s.low \in Nat /\ s.delta \in Nat \ {0}
        BY DEF Steps
  <2>3. ASSUME NEW s \in Steps
        PROVE  /\ left(s) \in Nat /\ result(s) \in V /\ onward(s) \in Steps
               /\ s.new_high <= range.high => left(onward(s)) < left(s)
    <3>1. s.new_high \in Nat /\ s.low \in Nat /\ s.delta \in Nat \ {0}
          BY <2>2
    <3>2. s.new_high + s.delta \in Nat /\ 2 * s.delta \in Nat \ {0} /\ onward(s).new_high = s.new_high + s.delta
          BY <3>1
    <3>3. onward(s) \in Steps
          BY <3>1, <3>2 DEF Steps
    <3> QED BY <2>1, <3>1, <3>2, <3>3
  <2>4. ASSUME NEW s \in Steps, NEW g \in [Steps -> V] PROVE F[s][g] \in V /\ F[s][g] = body(g, s)
    <3> HIDE DEF V, onward, result
    <3> QED BY <2>3
  <2>5. ASSUME NEW s \in Steps, NEW g \in [Steps -> V], NEW h \in [Steps -> V],
               \A y \in Steps : m[y] < m[s] => g[y] = h[y]
        PROVE  F[s][g] = F[s][h]
    <3>1. s.new_high <= range.high => g[onward(s)] = h[onward(s)]
      <4> HIDE DEF onward, left
      <4> QED BY <2>3, <2>5
    <3>2. body(g, s) = body(h, s)
      <4> HIDE DEF onward, result
      <4> QED BY <3>1
    <3> HIDE DEF F, body
    <3> QED BY <2>4, <3>2
  <2>6. V # {}
    <3>1. [low |-> 0, high |-> 0] \in V
          OBVIOUS
    <3> QED BY <3>1
  <2>7. m \in [Steps -> Nat]
    <3> HIDE DEF left
    <3> QED BY <2>3
  <2> HIDE DEF F, m, V
  <2> QED BY <2>4, <2>5, <2>6, <2>7 DEF Recursive
<1>2. PICK g \in [Steps -> V] : \A s \in Steps : g[s] = F[s][g]
  <2> HIDE DEF F, m, V
  <2> QED BY <1>1, RecursionDefines
<1>3. g = [s \in Steps |-> body(g, s)]
  <2> HIDE DEF V, body
  <2> QED BY <1>2
<1>4. loop = [s \in Steps |-> body(loop, s)]
  <2> HIDE DEF body
  <2> QED BY <1>3
<1>5. Gallop(char, off, range) = loop[[low |-> range.low, new_high |-> range.low, delta |-> 1]]
      BY DEF Gallop
<1>6. \A s \in Steps : loop[s] = body(loop, s)
  <2> HIDE DEF loop, body
  <2> QED BY <1>4
<1> HIDE DEF loop
<1> QED BY <1>5, <1>6

IsGallop(char, off, range, result) ==
    /\ result \in RangesUsed /\ range.low <= result.low /\ result.high <= range.high
    /\ /\ Rising(off, range.low, range.high)
       /\ \A i \in range.low .. range.high : CharAt(i, off) >= char
       => /\ \A i \in range.low .. result.low - 1 : CharAt(i, off) = char
          /\ \A i \in result.high + 1 .. range.high : CharAt(i, off) > char

LEMMA GallopIs ==
    ASSUME TextOK, NEW char \in Nat, NEW off, CharsOK(off), NEW range \in RangesUsed
    PROVE  IsGallop(char, off, range, Gallop(char, off, range))
<1> DEFINE onward(s)  == [low |-> s.new_high, new_high |-> s.new_high + s.delta, delta |-> 2 * s.delta]
           result(s)  == [low  |-> s.low,
                          high |-> IF s.new_high <= range.high THEN s.new_high ELSE range.high]
           left(s)    == IF s.new_high > range.high THEN 0 ELSE range.high - s.new_high + 1
           onlyAbove  == /\ Rising(off, range.low, range.high)
                         /\ \A i \in range.low .. range.high : CharAt(i, off) >= char
           sofar(s)   == /\ range.low <= s.low /\ s.low <= s.new_high /\ s.low <= range.high + 1
                         /\ onlyAbove => \A i \in range.low .. s.low - 1 : CharAt(i, off) = char
<1>0. /\ range \in Ranges /\ range.low \in Nat /\ range.high \in Int /\ range.low <= range.high + 1
      /\ range.high < Len(content) /\ Len(content) \in Nat /\ -1 <= range.high
      BY RangeTypes DEF RangesUsed
<1>1. PICK loop : /\ \A s \in Steps : loop[s] = IF s.new_high <= range.high /\ CharAt(s.new_high, off) = char
                                                THEN loop[onward(s)] ELSE result(s)
                  /\ Gallop(char, off, range) = loop[[low |-> range.low, new_high |-> range.low, delta |-> 1]]
      BY <1>0, GallopLoop
<1> DEFINE T == {n \in Nat : \A s \in Steps :
                    left(s) = n /\ sofar(s) => IsGallop(char, off, range, loop[s])}
<1>t. ASSUME NEW s \in Steps
      PROVE  /\ s.new_high \in Nat /\ s.low \in Nat /\ s.delta \in Nat \ {0}
             /\ left(s) \in Nat
             /\ onward(s) \in Steps /\ onward(s).low = s.new_high /\ onward(s).new_high = s.new_high + s.delta
             /\ s.new_high <= range.high => left(onward(s)) < left(s)
  <2>1. s.new_high \in Nat /\ s.low \in Nat /\ s.delta \in Nat \ {0}
        BY DEF Steps
  <2>2. s.new_high + s.delta \in Nat /\ 2 * s.delta \in Nat \ {0} /\ onward(s).new_high = s.new_high + s.delta
        BY <2>1
  <2>3. onward(s) \in Steps
        BY <2>1, <2>2 DEF Steps
  <2>4. left(s) \in Nat
        BY <1>0, <2>1
  <2>5. s.new_high <= range.high => left(onward(s)) < left(s)
    <3>1. PICK k \in Nat : k = onward(s).new_high /\ k > s.new_high
      <4>1. s.new_high + s.delta \in Nat /\ s.new_high + s.delta > s.new_high
            BY <2>1
      <4> HIDE DEF onward
      <4> QED BY <2>2, <4>1
    <3>2. left(onward(s)) = IF k > range.high THEN 0 ELSE range.high - k + 1
          BY <3>1
    <3> HIDE DEF onward
    <3> QED BY <1>0, <2>1, <3>1, <3>2
  <2> QED BY <2>1, <2>2, <2>3, <2>4, <2>5
<1>2. ASSUME NEW n \in Nat, \A k \in Nat : k < n => k \in T PROVE n \in T
  <2>1. SUFFICES ASSUME NEW s \in Steps, left(s) = n, sofar(s)
                 PROVE  IsGallop(char, off, range, loop[s])
        OBVIOUS
  <2>2. s.new_high \in Nat /\ s.low \in Nat /\ s.delta \in Nat \ {0}
        BY <1>t
  <2>3. CASE s.new_high <= range.high /\ CharAt(s.new_high, off) = char
    <3>1. loop[s] = loop[onward(s)]
      <4> HIDE DEF onward, result
      <4> QED BY <1>1, <2>3
    <3>2. sofar(onward(s))
      <4>1. ASSUME onlyAbove, NEW i \in range.low .. s.new_high - 1 PROVE CharAt(i, off) = char
        <5>1. i \in range.low .. range.high /\ s.new_high \in range.low .. range.high /\ i <= s.new_high
              BY SMTT(30), <1>0, <2>1, <2>2, <2>3
        <5>2. CharAt(i, off) <= CharAt(s.new_high, off) /\ CharAt(i, off) >= char
              BY <4>1, <5>1 DEF Rising
        <5>3. CharAt(i, off) \in Nat
              BY <1>0, <5>1 DEF CharsOK
        <5> QED BY <2>3, <5>2, <5>3
      <4>2. onward(s).low = s.new_high /\ onward(s).new_high = s.new_high + s.delta
            BY <1>t
      <4> HIDE DEF onward, onlyAbove
      <4> QED BY SMTT(30), <1>0, <2>1, <2>2, <2>3, <4>1, <4>2
    <3>3. left(onward(s)) \in T /\ onward(s) \in Steps
      <4> HIDE DEF left, onward, T
      <4> QED BY <1>2, <1>t, <2>1, <2>3
    <3> HIDE DEF left, onward, sofar
    <3> QED BY <3>1, <3>2, <3>3
  <2>4. CASE ~(s.new_high <= range.high /\ CharAt(s.new_high, off) = char)
    <3>1. loop[s] = result(s)
      <4> HIDE DEF onward, result
      <4> QED BY <1>1, <2>4
    <3>2. PICK v : v = loop[s]
          OBVIOUS
    <3>3. v.low = s.low /\ v.high = IF s.new_high <= range.high THEN s.new_high ELSE range.high
          BY <3>1, <3>2
    <3>4. v \in RangesUsed /\ range.low <= v.low /\ v.high <= range.high
      <4>1. v = [low |-> s.low, high |-> v.high]
            BY <3>1, <3>2
      <4>2. v.high \in Int /\ s.low <= v.high + 1 /\ v.high <= range.high /\ -1 <= v.high
            BY <1>0, <2>1, <2>2, <3>3
      <4>3. v \in Ranges
            BY <1>0, <2>1, <2>2, <4>1, <4>2, RangeTypes
      <4> QED BY <2>1, <3>3, <4>2, <4>3 DEF RangesUsed
    <3>5. ASSUME onlyAbove, NEW i \in v.high + 1 .. range.high PROVE CharAt(i, off) > char
      <4>1. CASE s.new_high <= range.high
        <5>1. i \in range.low .. range.high /\ s.new_high \in range.low .. range.high /\ s.new_high <= i
              BY SMTT(30), <1>0, <2>1, <2>2, <3>3, <4>1
        <5>2. CharAt(s.new_high, off) <= CharAt(i, off) /\ CharAt(s.new_high, off) >= char
              BY <3>5, <5>1 DEF Rising
        <5>3. CharAt(i, off) \in Nat /\ CharAt(s.new_high, off) \in Nat
              BY <1>0, <5>1 DEF CharsOK
        <5> QED BY <2>4, <4>1, <5>2, <5>3
      <4>2. CASE s.new_high > range.high
            BY <1>0, <3>3, <2>2, <4>2
      <4> QED BY <1>0, <2>2, <4>1, <4>2
    <3>6. onlyAbove => \A i \in range.low .. v.low - 1 : CharAt(i, off) = char
          BY <2>1, <3>3
    <3> QED BY <3>2, <3>4, <3>5, <3>6 DEF IsGallop
  <2> QED BY <2>3, <2>4
<1> HIDE DEF T
<1>3. Nat \subseteq T
      BY <1>2, Induction
<1>4. PICK s \in Steps : s = [low |-> range.low, new_high |-> range.low, delta |-> 1]
  <2>1. 1 \in Nat \ {0}
        OBVIOUS
  <2>2. [low |-> range.low, new_high |-> range.low, delta |-> 1] \in Steps
        BY <1>0, <2>1 DEF Steps
  <2> QED BY <2>2
<1>5. sofar(s)
      BY <1>0, <1>4
<1>6. left(s) \in T
      BY <1>3, <1>t
<1>7. IsGallop(char, off, range, loop[s])
      BY <1>5, <1>6 DEF T
<1> QED BY <1>1, <1>4, <1>7

IsFound(char, off, range, result) ==
    /\ result \in RangesUsed
    /\ Rising(off, range.low, range.high) =>
          \A i \in range.low .. range.high : i \in result.low .. result.high <=> CharAt(i, off) = char
    /\ range.low <= result.low /\ result.high <= range.high

LEMMA SearchRangeIs ==
    ASSUME TextOK, NEW char \in Nat, NEW off, CharsOK(off), NEW range \in RangesUsed
    PROVE  IsFound(char, off, range, binary_search_range(char, off, range))
<1>0. /\ range \in Ranges /\ range.low \in Nat /\ range.high \in Int /\ range.low <= range.high + 1
      /\ range.high < Len(content) /\ Len(content) \in Nat /\ -1 <= range.high
      BY RangeTypes DEF RangesUsed
<1>1. PICK low : low = FirstNotBelow(char, off, range)
      OBVIOUS
<1>2. IsFirstNotBelow(char, off, range, low)
      BY <1>1, FirstNotBelowIs
<1>3. low \in range.low .. range.high + 1
      BY <1>2 DEF IsFirstNotBelow
<1>4. PICK r : r = [low |-> low, high |-> range.high]
      OBVIOUS
<1>5. r \in RangesUsed /\ r.low = low /\ r.high = range.high
  <2>1. r.low = low /\ r.high = range.high
        BY <1>4
  <2>2. r \in Ranges
        BY <1>0, <1>3, <1>4, RangeTypes
  <2> QED BY <1>0, <1>3, <2>1, <2>2 DEF RangesUsed
<1>6. PICK g : g = Gallop(char, off, r)
      OBVIOUS
<1>7. IsGallop(char, off, r, g)
      BY <1>5, <1>6, GallopIs
<1>8. g \in RangesUsed /\ low <= g.low /\ g.high <= range.high /\ g.low \in Int /\ g.high \in Int /\ g.low <= g.high + 1
      BY <1>5, <1>7, RangeTypes DEF IsGallop, RangesUsed
<1>9. PICK high : high = LastNotAbove(char, off, g)
      OBVIOUS
<1>10. IsLastNotAbove(char, off, g, high)
      BY <1>8, <1>9, LastNotAboveIs
<1>11. high \in g.low - 1 .. g.high
      BY <1>10 DEF IsLastNotAbove
<1>12. binary_search_range(char, off, range) = [low |-> low, high |-> high]
      BY <1>1, <1>4, <1>6, <1>9 DEF binary_search_range
<1>13. PICK v : v = binary_search_range(char, off, range)
      OBVIOUS
<1>14. v.low = low /\ v.high = high
      BY <1>12, <1>13
<1>15. v \in RangesUsed
  <2>1. low \in Int /\ high \in Int /\ 0 <= low /\ low <= Len(content) /\ -1 <= high /\ high < Len(content) /\ low <= high + 1
        BY SMTT(30), <1>0, <1>3, <1>8, <1>11
  <2>2. v \in Ranges
        BY <1>12, <1>13, <2>1, RangeTypes
  <2> QED BY <1>14, <2>1, <2>2 DEF RangesUsed
<1>16. ASSUME Rising(off, range.low, range.high), NEW i \in range.low .. range.high
       PROVE  i \in low .. high <=> CharAt(i, off) = char
  <2>1. Rising(off, low, range.high) /\ Rising(off, g.low, g.high)
    <3>1. low .. range.high \subseteq range.low .. range.high
          BY <1>0, <1>3
    <3>2. g.low .. g.high \subseteq range.low .. range.high
          BY <1>0, <1>3, <1>8
    <3> QED BY <1>16, <3>1, <3>2 DEF Rising
  <2>2. /\ \A j \in range.low .. low - 1 : CharAt(j, off) < char
        /\ \A j \in low .. range.high : CharAt(j, off) >= char
        BY <1>2, <1>16 DEF IsFirstNotBelow
  <2>3. /\ \A j \in low .. g.low - 1 : CharAt(j, off) = char
        /\ \A j \in g.high + 1 .. range.high : CharAt(j, off) > char
        BY <1>5, <1>7, <2>1, <2>2 DEF IsGallop
  <2>4. /\ \A j \in g.low .. high : CharAt(j, off) <= char
        /\ \A j \in high + 1 .. g.high : CharAt(j, off) > char
        BY <1>10, <2>1 DEF IsLastNotAbove
  <2>5. CharAt(i, off) \in Nat
        BY <1>0 DEF CharsOK
  <2>6. CASE i < low
        BY <1>0, <1>3, <2>2, <2>5, <2>6
  <2>7. CASE low <= i /\ i < g.low
        BY <1>0, <1>3, <1>8, <1>11, <2>3, <2>7
  <2>8. CASE g.low <= i /\ i <= high
        BY <1>0, <1>3, <1>8, <1>11, <2>2, <2>4, <2>5, <2>8
  <2>9. CASE high < i /\ i <= g.high /\ g.low <= i
        BY <1>0, <1>3, <1>8, <1>11, <2>4, <2>5, <2>9
  <2>10. CASE g.high < i /\ g.low <= i
        BY SMTT(30), <1>0, <1>3, <1>8, <1>11, <2>3, <2>5, <2>10
  <2> QED BY <1>0, <1>3, <1>8, <1>11, <2>6, <2>7, <2>8, <2>9, <2>10
<1>17. range.low <= low /\ high <= range.high
      BY <1>0, <1>3, <1>8, <1>11
<1>18. IsFound(char, off, range, v)
      BY <1>14, <1>15, <1>16, <1>17 DEF IsFound
<1> QED BY <1>13, <1>18

\* The search is one step for every character of the pattern.
LEMMA SearchSteps ==
    ASSUME TextOK, NEW pattern \in Seq(Nat), \A off \in Nat : CharsOK(off)
    PROVE  \E narrowed :
              /\ \A i \in 0 .. Len(pattern) :
                    narrowed[i] = IF i = 0 THEN [low |-> 0, high |-> Len(content) - 1]
                                  ELSE binary_search_range(pattern[i], i - 1, narrowed[i - 1])
              /\ binary_search(pattern) = narrowed[Len(pattern)]
<1> DEFINE first      == [low |-> 0, high |-> Len(content) - 1]
           S          == 0 .. Len(pattern)
           body(f, i) == IF i = 0 THEN first
                         ELSE binary_search_range(pattern[i], i - 1, f[i - 1])
           F          == [i \in S |-> [f \in [S -> RangesUsed] |-> body(f, i)]]
           m          == [i \in S |-> i]
           narrowed   == CHOOSE f : f = [i \in S |-> body(f, i)]
<1>0. first \in RangesUsed
  <2>1. Len(content) \in Nat \ {0}
        BY RangeTypes
  <2>2. first \in Ranges
        BY <2>1, RangeTypes
  <2> QED BY <2>1, <2>2 DEF RangesUsed
<1>1. Recursive(S, RangesUsed, m, F)
  <2>1. ASSUME NEW i \in S, i # 0
        PROVE  /\ i - 1 \in S /\ i - 1 \in Nat /\ pattern[i] \in Nat /\ m[i - 1] < m[i]
        BY <2>1
  <2>2. ASSUME NEW i \in S, NEW g \in [S -> RangesUsed] PROVE body(g, i) \in RangesUsed
    <3>1. CASE i = 0
          BY <1>0, <3>1
    <3>2. CASE i # 0
      <4>1. g[i - 1] \in RangesUsed /\ pattern[i] \in Nat /\ CharsOK(i - 1)
            BY <2>1, <3>2
      <4>2. IsFound(pattern[i], i - 1, g[i - 1], binary_search_range(pattern[i], i - 1, g[i - 1]))
            BY <4>1, SearchRangeIs
      <4> QED BY <3>2, <4>2 DEF IsFound
    <3> QED BY <3>1, <3>2
  <2>3. ASSUME NEW i \in S, NEW g \in [S -> RangesUsed] PROVE F[i][g] \in RangesUsed /\ F[i][g] = body(g, i)
    <3> HIDE DEF body
    <3> QED BY <2>2
  <2>4. ASSUME NEW i \in S, NEW g \in [S -> RangesUsed], NEW h \in [S -> RangesUsed],
               \A y \in S : m[y] < m[i] => g[y] = h[y]
        PROVE  F[i][g] = F[i][h]
    <3>1. i # 0 => g[i - 1] = h[i - 1]
      <4> HIDE DEF m, S
      <4> QED BY <2>1, <2>4
    <3>2. body(g, i) = body(h, i)
          BY <3>1
    <3> HIDE DEF F, body
    <3> QED BY <2>3, <3>2
  <2>5. m \in [S -> Nat] /\ RangesUsed # {}
        BY <1>0
  <2> HIDE DEF F, m, S
  <2> QED BY <2>3, <2>4, <2>5 DEF Recursive
<1>2. PICK g \in [S -> RangesUsed] : \A i \in S : g[i] = F[i][g]
  <2> HIDE DEF F, m, S
  <2> QED BY <1>1, RecursionDefines
<1>3. g = [i \in S |-> body(g, i)]
  <2> HIDE DEF S, body
  <2> QED BY <1>2
<1>4. narrowed = [i \in S |-> body(narrowed, i)]
  <2> HIDE DEF body
  <2> QED BY <1>3
<1>5. binary_search(pattern) = narrowed[Len(pattern)]
      BY DEF binary_search
<1>6. \A i \in S : narrowed[i] = body(narrowed, i)
  <2> HIDE DEF narrowed, body, S
  <2> QED BY <1>4
<1> HIDE DEF narrowed
<1> QED BY <1>5, <1>6

\* The i-th suffix starts with the first k characters of the pattern.
Matches(i, pattern, k) == \A j \in 0 .. k - 1 : CharAt(i, j) = pattern[j + 1]

ArrayBuilt == Terminated /\ ArrayOK /\ Built

\* What is read in a suffix are the characters of the text, and 0 for its end.
IsRead(i, off, p) ==
    /\ CharAt(i, off) \in Nat /\ p + off \in Nat
    /\ p + off < Len(content) => Ch(p + off) \in Byte /\ CharAt(i, off) = Ch(p + off)
    /\ p + off >= Len(content) => Ch(p + off) \in {0, Terminator} /\ CharAt(i, off) = 0

LEMMA CharsRead ==
    ASSUME ArrayBuilt
    PROVE  /\ TextOK
           /\ \A i \in 0 .. Len(content) - 1 : i \in Position /\ su_index[i] \in Position
           /\ \A i \in 0 .. Len(content) - 1, off \in Nat : IsRead(i, off, su_index[i])
           /\ \A off \in Nat : CharsOK(off)
<1>0. TextOK /\ Terminated /\ ArrayOK
      BY SortedIsOrder DEF ArrayBuilt
<1>1. Len(content) \in Nat /\ N = Len(content) + 1 /\ Position = 0 .. N - 1
      BY <1>0, Characters, SortedIsOrder
<1>2. ASSUME NEW i \in 0 .. Len(content) - 1, NEW off \in Nat
      PROVE  i \in Position /\ su_index[i] \in Position /\ IsRead(i, off, su_index[i])
  <2>1. i \in Position
        BY <1>1
  <2>2. su_index[i] \in Position /\ su_index[i] \in Nat
        BY <1>0, <2>1, SortedIsOrder
  <2>3. PICK p \in Nat : p = su_index[i] + off
        BY <2>2
  <2>4. CASE p < Len(content)
    <3>1. p \in 0 .. Len(content) - 1
          BY <1>1, <2>4
    <3>2. Ch(p) = content[p + 1] /\ Ch(p) \in Byte
          BY <1>0, <3>1, Characters
    <3>3. CharAt(i, off) = Ch(p) /\ Ch(p) \in Nat
          BY <2>3, <2>4, <3>2, SuffixArrayAssumption DEF CharAt, Content, SuffixArrayAssumption
    <3> QED BY SMTT(30), <1>1, <2>1, <2>2, <2>3, <2>4, <3>2, <3>3 DEF IsRead
  <2>5. CASE p >= Len(content)
    <3>1. Ch(p) \in {0, Terminator}
      <4>1. p = Len(content) \/ p >= N
            BY <1>1, <2>5
      <4> QED BY <1>0, <4>1, Characters
    <3>2. CharAt(i, off) = 0
          BY <1>1, <2>3, <2>5 DEF CharAt, Content
    <3> QED BY <1>1, <2>1, <2>2, <2>3, <2>5, <3>1, <3>2 DEF IsRead
  <2> QED BY <1>1, <2>4, <2>5
<1>3. \A off \in Nat : CharsOK(off)
      BY <1>2 DEF CharsOK, IsRead
<1>4. \A i \in 0 .. Len(content) - 1 : i \in Position /\ su_index[i] \in Position
  <2>1. 0 \in Nat
        OBVIOUS
  <2> QED BY <1>2, <2>1
<1> QED BY <1>0, <1>2, <1>3, <1>4

\* Among suffixes that start alike the next character does not fall.
LEMMA RisesWhereSame ==
    ASSUME ArrayBuilt, NEW pattern \in Seq(Byte), NEW k \in 0 .. Len(pattern),
           NEW low \in 0 .. Len(content), NEW high \in -1 .. Len(content) - 1,
           \A i \in low .. high : Matches(i, pattern, k)
    PROVE  Rising(k, low, high)
<1>1. SUFFICES ASSUME NEW i \in low .. high, NEW j \in low .. high, i < j
               PROVE  CharAt(i, k) <= CharAt(j, k)
  <2>1. Len(content) \in Nat /\ \A i \in low .. high : i \in 0 .. Len(content) - 1
    <3>1. Len(content) \in Nat
          BY CharsRead, RangeTypes
    <3> QED BY <3>1
  <2>2. \A i \in low .. high : CharAt(i, k) \in Nat
    <3>1. CharsOK(k)
          BY CharsRead
    <3> QED BY <2>1, <3>1 DEF CharsOK
  <2> QED BY <2>1, <2>2 DEF Rising
<1>2. Len(content) \in Nat
      BY CharsRead, RangeTypes
<1>3. i \in 0 .. Len(content) - 1 /\ j \in 0 .. Len(content) - 1
      BY <1>2
<1> DEFINE p == su_index[i]
           q == su_index[j]
<1>4. p \in Position /\ q \in Position /\ i \in Position /\ j \in Position
      BY <1>3, CharsRead
<1>5. LessTo(N, p, q)
      BY <1>1, <1>4, BuiltIsSorted DEF ArrayBuilt
<1>6. SameTo(k, p, q)
  <2>1. SUFFICES ASSUME NEW d \in 0 .. k - 1 PROVE Ch(p + d) = Ch(q + d)
        BY DEF SameTo
  <2>2. CharAt(i, d) = pattern[d + 1] /\ CharAt(j, d) = pattern[d + 1] /\ d \in Nat
        BY <1>1 DEF Matches
  <2>3. pattern[d + 1] \in Byte /\ pattern[d + 1] # 0
        BY SuffixArrayAssumption DEF SuffixArrayAssumption
  <2>4. CharAt(i, d) = Ch(p + d) /\ CharAt(j, d) = Ch(q + d)
    <3>1. IsRead(i, d, p) /\ IsRead(j, d, q)
          BY <1>3, <2>2, CharsRead
    <3>2. p + d \in Int /\ q + d \in Int
          BY <3>1 DEF IsRead
    <3> HIDE DEF p, q
    <3> QED BY <1>2, <2>2, <2>3, <3>1, <3>2 DEF IsRead
  <2> QED BY <2>2, <2>4
<1>7. N \in Nat /\ TextOK /\ Terminated /\ p \in Nat /\ q \in Nat
      BY <1>4, SortedIsOrder DEF ArrayBuilt
<1>8. \A d \in Nat : Ch(p + d) \in Nat /\ Ch(q + d) \in Nat
  <2>1. \A d \in Nat : p + d \in Nat /\ q + d \in Nat
        BY SMTT(30), <1>7
  <2>2. \A c \in Nat : Ch(c) \in Nat
        BY <1>7, Characters
  <2> QED BY <2>1, <2>2
<1>9. Ch(p + k) <= Ch(q + k)
  <2>1. PICK d \in 0 .. N - 1 : SameTo(d, p, q) /\ Ch(p + d) < Ch(q + d)
        BY <1>5 DEF LessTo
  <2>2. CASE d < k
    <3>1. Ch(p + d) = Ch(q + d)
          BY <1>6, <1>7, <2>2 DEF SameTo
    <3> QED BY <1>7, <1>8, <2>1, <3>1
  <2>3. CASE d = k
        BY SMTT(30), <1>8, <2>1, <2>3
  <2>4. CASE d > k
    <3>1. Ch(p + k) = Ch(q + k)
          BY <1>7, <2>1, <2>4 DEF SameTo
    <3> QED BY <1>8, <3>1
  <2> QED BY <1>7, <2>2, <2>3, <2>4
<1>10. IsRead(i, k, p) /\ IsRead(j, k, q)
       BY <1>3, CharsRead
<1>11. \A b \in Byte : b \in Nat /\ b > 1
       BY SuffixArrayAssumption DEF SuffixArrayAssumption, Terminator
<1> HIDE DEF p, q
<1>12. /\ CharAt(i, k) \in Nat /\ CharAt(j, k) \in Nat
       /\ Ch(p + k) \in Nat /\ Ch(q + k) \in Nat /\ p + k \in Nat /\ q + k \in Nat
       BY <1>8, <1>10 DEF IsRead
<1>13. CASE p + k >= Len(content)
  <2>1. CharAt(i, k) = 0
        BY <1>10, <1>13 DEF IsRead
  <2> QED BY <1>12, <2>1
<1>14. CASE p + k < Len(content)
  <2>1. CharAt(i, k) = Ch(p + k) /\ Ch(p + k) > 1
        BY <1>10, <1>11, <1>14 DEF IsRead
  <2>2. Ch(q + k) > 1
        BY <1>9, <1>12, <2>1
  <2>3. q + k < Len(content)
    <3>1. q + k >= Len(content) => Ch(q + k) \in {0, 1}
          BY <1>10 DEF IsRead, Terminator
    <3> QED BY <1>2, <1>12, <2>2, <3>1
  <2>4. CharAt(j, k) = Ch(q + k)
        BY <1>10, <2>3 DEF IsRead
  <2> QED BY <1>9, <2>1, <2>4
<1> QED BY <1>2, <1>12, <1>13, <1>14

\* After k steps the range is where the first k characters of the pattern are.
LEMMA Narrowed ==
    ASSUME ArrayBuilt, NEW pattern \in Seq(Byte)
    PROVE  /\ binary_search(pattern) \in RangesUsed
           /\ \A i \in 0 .. Len(content) - 1 :
                 i \in binary_search(pattern).low .. binary_search(pattern).high
                    <=> Matches(i, pattern, Len(pattern))
<1>1. TextOK /\ (\A off \in Nat : CharsOK(off)) /\ Len(content) \in Nat \ {0}
      BY CharsRead, RangeTypes
<1>2. pattern \in Seq(Nat) /\ Len(pattern) \in Nat /\ \A i \in 1 .. Len(pattern) : pattern[i] \in Nat
  <2>1. Byte \subseteq Nat
        BY SuffixArrayAssumption DEF SuffixArrayAssumption
  <2>0. \A i \in 1 .. Len(pattern) : pattern[i] \in Byte
        OBVIOUS
  <2>2. \A i \in 1 .. Len(pattern) : pattern[i] \in Nat
    <3> QED BY ONLY <2>0, <2>1
  <2> QED BY <2>2, SeqMonotonic
<1>3. PICK narrowed :
              /\ \A i \in 0 .. Len(pattern) :
                    narrowed[i] = IF i = 0 THEN [low |-> 0, high |-> Len(content) - 1]
                                  ELSE binary_search_range(pattern[i], i - 1, narrowed[i - 1])
              /\ binary_search(pattern) = narrowed[Len(pattern)]
      BY <1>1, <1>2, SearchSteps
<1> DEFINE Right(k) == /\ narrowed[k] \in RangesUsed
                       /\ \A i \in 0 .. Len(content) - 1 :
                             i \in narrowed[k].low .. narrowed[k].high <=> Matches(i, pattern, k)
           T == {k \in Nat : k <= Len(pattern) => Right(k)}
<1>4. 0 \in T
  <2>1. PICK v : v = narrowed[0]
        OBVIOUS
  <2>2. v = [low |-> 0, high |-> Len(content) - 1]
        BY <1>2, <1>3, <2>1
  <2>3. v \in Ranges
        BY <1>1, <2>2, RangeTypes
  <2>4. v.low = 0 /\ v.high = Len(content) - 1
        BY <2>2
  <2>5. v \in RangesUsed
        BY <1>1, <2>3, <2>4 DEF RangesUsed
  <2>6. \A i \in 0 .. Len(content) - 1 : i \in v.low .. v.high /\ Matches(i, pattern, 0)
        BY <2>4 DEF Matches
  <2> QED BY <2>1, <2>5, <2>6
<1>5. ASSUME NEW k \in Nat, k \in T PROVE k + 1 \in T
  <2>1. SUFFICES ASSUME k + 1 <= Len(pattern) PROVE Right(k + 1)
        OBVIOUS
  <2>2. Right(k)
        BY <1>2, <1>5, <2>1
  <2>3. PICK r : r = narrowed[k]
        OBVIOUS
  <2>4. /\ r \in RangesUsed /\ r.low \in 0 .. Len(content) /\ r.high \in -1 .. Len(content) - 1
        /\ \A i \in 0 .. Len(content) - 1 : i \in r.low .. r.high <=> Matches(i, pattern, k)
    <3>1. r \in RangesUsed
          BY <2>2, <2>3
    <3>2. r.low \in 0 .. Len(content) /\ r.high \in -1 .. Len(content) - 1
          BY <3>1 DEF RangesUsed, Ranges
    <3> QED BY <2>2, <2>3, <3>1, <3>2
  <2>5. PICK v : v = narrowed[k + 1]
        OBVIOUS
  <2>6. v = binary_search_range(pattern[k + 1], k, r)
    <3>1. k + 1 \in 0 .. Len(pattern) /\ k + 1 # 0 /\ (k + 1) - 1 = k
          BY <1>2, <2>1
    <3> QED BY <1>3, <2>3, <2>5, <3>1
  <2>7. pattern[k + 1] \in Nat /\ k + 1 \in 1 .. Len(pattern) /\ k \in 0 .. Len(pattern)
        BY <1>2, <2>1
  <2>8. IsFound(pattern[k + 1], k, r, v)
        BY <1>1, <2>4, <2>6, <2>7, SearchRangeIs
  <2>9. Rising(k, r.low, r.high)
    <3>1. \A i \in r.low .. r.high : Matches(i, pattern, k)
      <4>1. \A i \in r.low .. r.high : i \in 0 .. Len(content) - 1
            BY <1>1, <2>4
      <4> QED BY <2>4, <4>1
    <3> QED BY <2>4, <2>7, <3>1, RisesWhereSame
  <2>10. ASSUME NEW i \in 0 .. Len(content) - 1
         PROVE  i \in v.low .. v.high <=> Matches(i, pattern, k + 1)
    <3>1. Matches(i, pattern, k + 1) <=> Matches(i, pattern, k) /\ CharAt(i, k) = pattern[k + 1]
      <4>1. 0 .. (k + 1) - 1 = (0 .. k - 1) \cup {k}
            OBVIOUS
      <4> QED BY ONLY <4>1 DEF Matches
    <3>2. i \in r.low .. r.high => (i \in v.low .. v.high <=> CharAt(i, k) = pattern[k + 1])
          BY <2>8, <2>9 DEF IsFound
    <3>3. i \in v.low .. v.high => i \in r.low .. r.high
      <4>1. v.low \in Int /\ v.high \in Int /\ r.low <= v.low /\ v.high <= r.high
            BY <1>1, <2>8, RangeTypes DEF IsFound, RangesUsed
      <4> QED BY <2>4, <4>1
    <3> QED BY <2>4, <3>1, <3>2, <3>3
  <2>11. v \in RangesUsed
         BY <2>8 DEF IsFound
  <2> QED BY <2>5, <2>10, <2>11
<1> HIDE DEF T
<1>6. Nat \subseteq T
      BY <1>4, <1>5, StepInduction
<1>7. Right(Len(pattern))
      BY <1>2, <1>6 DEF T
<1> QED BY <1>3, <1>7

\* The characters of a pattern are found where it occurs.
LEMMA MatchIsOccurrence ==
    ASSUME ArrayBuilt, NEW pattern \in Seq(Byte), NEW i \in 0 .. Len(content) - 1
    PROVE  Matches(i, pattern, Len(pattern)) <=> OccursAt(pattern, su_index[i])
<1> DEFINE p == su_index[i]
           L == Len(content)
           k == Len(pattern)
<1>1. /\ TextOK /\ content \in Seq(Byte) /\ L \in Nat \ {0} /\ k \in Nat
      /\ p \in Nat /\ p <= L
      /\ \A off \in Nat : IsRead(i, off, p)
  <2>1. TextOK /\ Terminated /\ ArrayOK /\ p \in Position
        BY CharsRead DEF ArrayBuilt
  <2>2. N = L + 1 /\ L \in Nat \ {0} /\ Position = 0 .. N - 1
        BY <2>1, Characters, SortedIsOrder
  <2> QED BY <2>1, <2>2, CharsRead DEF TextOK
<1>2. \A j \in 1 .. k : pattern[j] \in Byte /\ pattern[j] # 0
      BY SuffixArrayAssumption DEF SuffixArrayAssumption
<1>3. ASSUME NEW j \in Nat
      PROVE  CharAt(i, j) = IF p + j < L THEN content[p + j + 1] ELSE 0
      BY <1>1 DEF CharAt, Content
<1> DEFINE rest == SubSeq(content, p + 1, L)
<1>4. Len(rest) = L - p /\ \A j \in 1 .. L - p : rest[j] = content[p + j]
      BY SMTT(30), <1>1
<1> HIDE DEF rest, p, L, k
<1>5. OccursAt(pattern, p) <=> k <= L - p /\ \A j \in 1 .. k : pattern[j] = content[p + j]
  <2>1. OccursAt(pattern, p) <=> k <= L - p /\ SubSeq(pattern, 1, k) = SubSeq(rest, 1, k)
        BY <1>4 DEF OccursAt, IsPrefix, rest, p, L, k
  <2>2. ASSUME k <= L - p
        PROVE  /\ SubSeq(pattern, 1, k) = [j \in 1 .. k |-> pattern[j]]
               /\ SubSeq(rest, 1, k) = [j \in 1 .. k |-> content[p + j]]
    <3>1. pattern \in Seq(Byte) /\ rest \in Seq(Byte)
          BY <1>1, SuffixArrayAssumption DEF rest, L
    <3>2. SubSeq(pattern, 1, k) = [j \in 1 .. k |-> pattern[j]]
          BY <1>1, <3>1 DEF k
    <3>3. SubSeq(rest, 1, k) = [j \in 1 .. k |-> rest[j]]
          BY <1>1, <1>4, <2>2, <3>1
    <3>4. \A j \in 1 .. k : rest[j] = content[p + j]
          BY <1>1, <1>4, <2>2
    <3> QED BY <3>2, <3>3, <3>4
  <2>3. ASSUME k <= L - p
        PROVE  [j \in 1 .. k |-> pattern[j]] = [j \in 1 .. k |-> content[p + j]]
                  <=> \A j \in 1 .. k : pattern[j] = content[p + j]
        OBVIOUS
  <2> QED BY <2>1, <2>2, <2>3
<1>6. ASSUME NEW j \in 1 .. k
      PROVE  CharAt(i, j - 1) = pattern[j] <=> p + j <= L /\ pattern[j] = content[p + j]
  <2>1. CharAt(i, j - 1) = IF p + (j - 1) < L THEN content[p + (j - 1) + 1] ELSE 0
        BY <1>1, <1>3
  <2>2. p + (j - 1) + 1 = p + j /\ (p + (j - 1) < L <=> p + j <= L)
        BY <1>1
  <2> QED BY <1>2, <2>1, <2>2
<1>7. Matches(i, pattern, k) <=> \A j \in 1 .. k : CharAt(i, j - 1) = pattern[j]
  <2>1. ASSUME Matches(i, pattern, k), NEW j \in 1 .. k PROVE CharAt(i, j - 1) = pattern[j]
    <3>1. j - 1 \in 0 .. k - 1 /\ (j - 1) + 1 = j
          BY <1>1
    <3> QED BY <2>1, <3>1 DEF Matches
  <2>2. ASSUME \A j \in 1 .. k : CharAt(i, j - 1) = pattern[j] PROVE Matches(i, pattern, k)
    <3>1. ASSUME NEW j \in 0 .. k - 1 PROVE CharAt(i, j) = pattern[j + 1]
      <4>1. j + 1 \in 1 .. k /\ (j + 1) - 1 = j
            BY <1>1
      <4> QED BY <2>2, <4>1
    <3> QED BY <3>1 DEF Matches
  <2> QED BY <2>1, <2>2
<1>8. (\A j \in 1 .. k : p + j <= L) <=> k <= L - p
  <2>1. CASE k = 0
        BY <1>1, <2>1
  <2>2. CASE k # 0
    <3>1. k \in 1 .. k
          BY <1>1, <2>2
    <3> QED BY <1>1, <3>1
  <2> QED BY <2>1, <2>2
<1>9. Matches(i, pattern, k) <=> OccursAt(pattern, p)
      BY <1>5, <1>6, <1>7, <1>8
<1> QED BY <1>9 DEF p, k

\* For texts and patterns of every length: a search finds exactly the places
\* where its pattern occurs, the greatest suffix excepted, where it does not
\* look (binary_search of scripts/suffix-array.ts).
THEOREM SearchFindsAllHolds == Terminated => (Spec => []SearchFindsAll)
<1> SUFFICES ASSUME Terminated PROVE Spec => []SearchFindsAll
    OBVIOUS
<1>1. ArrayOK => SearchFindsAll
  <2>1. SUFFICES ASSUME ArrayOK, Built,
                        NEW n \in 1 .. MaxPattern, NEW pattern \in [1 .. n -> Byte],
                        NEW i \in 0 .. Len(content) - 1
                 PROVE  i \in binary_search(pattern).low .. binary_search(pattern).high
                           <=> OccursAt(pattern, su_index[i])
        BY DEF SearchFindsAll
  <2>2. ArrayBuilt
        BY <2>1 DEF ArrayBuilt
  <2>3. pattern \in Seq(Byte)
    <3>1. n \in Nat
          BY SuffixArrayAssumption DEF SuffixArrayAssumption
    <3> QED BY <3>1
  <2> QED BY <2>2, <2>3, Narrowed, MatchIsOccurrence
<1>2. Spec => []ArrayOK
      BY ArrayHolds
<1> QED BY <1>1, <1>2, PTL

-------------------------------------------------------------------------------
(* The lists of thunks *)

\* The files of the present module that were looked at.
Seen == {f \in File \ filesExports : StartsWith(f, DllNameList[dll])}

Counting ==
    /\ dll = 0 => fileCount = 0 /\ funcCountMap = NoneCounted
    /\ dll \in 1 .. Len(DllNameList) =>
          \A k \in Name :
             /\ funcCountMap[k] <= fileCount
             /\ funcCountMap[k] = fileCount => \A f \in Seen : k \in ExportList(f)
             /\ funcCountMap[k] = 0 => \A f \in Seen : k \notin ExportList(f)
             /\ funcCountMap[k] > 0 => \E f \in Seen : k \in ExportList(f)

ThunkTypeOK ==
    /\ dll \in 0 .. Len(DllNameList) + 1
    /\ filesExports \subseteq File
    /\ versionOf \in [File -> Module]
    /\ exports \in [File -> SUBSET Name]
    /\ basic \in [Module -> SUBSET Name] /\ delta \in [Module -> SUBSET Name]
    /\ funcCountMap \in [Name -> Nat] /\ fileCount \in Nat

\* A file that counts for a module of the list exports the function.
IsExported(k) == \E f \in File, i \in DOMAIN DllNameList :
                    StartsWith(f, DllNameList[i]) /\ k \in ExportList(f)

Listing ==
    /\ ApisToIgnore \subseteq keysToIgnore
    /\ \A m \in Module : Thunks(m) \subseteq keysToIgnore
    /\ \A i \in DOMAIN DllNameList : i >= dll => Thunks(DllNameList[i]) = {}
    /\ \A k \in (keysToIgnore \cap declared) \ ApisToIgnore :
          \E m \in Module : k \in Thunks(m)
    /\ keysToIgnore \cap untyped \subseteq ApisToIgnore
    /\ \A i \in DOMAIN DllNameList, f \in File :
          i < dll /\ StartsWith(f, DllNameList[i]) => ExportList(f) \subseteq keysToIgnore
    /\ \A m \in Module : \A k \in Thunks(m) : k \in declared /\ IsExported(k)
    /\ dll = 0 => keysToIgnore = ApisToIgnore

Apart ==
    \A m \in Module :
       /\ basic[m] \cap delta[m] = {}
       /\ Thunks(m) \cap ApisToIgnore = {}
       /\ \A l \in Module \ {m} : Thunks(m) \cap Thunks(l) = {}

ThunkInv == ThunkTypeOK /\ Counting /\ Listing /\ Apart /\ BasicIsInEveryVersion

-------------------------------------------------------------------------------
(* Every step keeps the invariant *)

\* The files are listed before anything is written.
LEMMA GetFilesInductive == ThunkInv /\ GetFiles => ThunkInv'
<1> SUFFICES ASSUME ThunkInv, GetFiles PROVE ThunkInv'
    OBVIOUS
<1>1. \A m \in Module : Thunks(m) \subseteq ApisToIgnore /\ Thunks(m) \cap ApisToIgnore = {}
    BY DEF ThunkInv, Listing, Apart, GetFiles
<1>2. \A m \in Module : Thunks(m) = {} /\ Thunks(m)' = {} /\ basic[m] = {}
    BY <1>1 DEF Thunks, GetFiles
<1>3. ThunkTypeOK'
    BY ListAssumption DEF ThunkInv, ThunkTypeOK, GetFiles
<1>4. Counting'
    <2>1. dll' = 1 /\ Seen' = {} /\ fileCount' = 0 /\ \A k \in Name : funcCountMap'[k] = 0
        BY DEF ThunkInv, Counting, GetFiles, Seen, NoneCounted
    <2> QED BY <2>1 DEF Counting
<1>5. Listing'
    <2>1. dll' = 1 /\ keysToIgnore' = ApisToIgnore
        BY DEF ThunkInv, Listing, GetFiles
    <2>2. \A i \in DOMAIN DllNameList : DllNameList[i] \in Module /\ ~(i < 1)
        BY ListAssumption
    <2>3. ~(dll' = 0)
        BY <2>1
    <2> QED BY <1>2, <2>1, <2>2, <2>3 DEF Listing
<1>6. Apart'
    BY <1>2 DEF Apart, GetFiles, ThunkInv, Thunks
<1>7. BasicIsInEveryVersion'
    BY <1>2 DEF BasicIsInEveryVersion, GetFiles
<1> QED BY <1>3, <1>4, <1>5, <1>6, <1>7 DEF ThunkInv

\* What a step leaves alone keeps what it says.
LEMMA Kept ==
    ASSUME Listing, Apart, BasicIsInEveryVersion,
           UNCHANGED <<input, dll, keysToIgnore, basic, delta>>
    PROVE  Listing' /\ Apart' /\ BasicIsInEveryVersion'
<1>1. \A f, m : StartsWith(f, m)' <=> StartsWith(f, m)
    BY DEF StartsWith, input
<1>2. \A f : ExportList(f)' = ExportList(f)
    BY DEF ExportList, input
<1>3. \A k : IsExported(k)' <=> IsExported(k)
    BY <1>1, <1>2 DEF IsExported
<1> QED BY <1>1, <1>2, <1>3 DEF Listing, Apart, BasicIsInEveryVersion, Thunks, input

\* A file that is read keeps the meaning of the counts.
LEMMA ReadFileInductive ==
    ASSUME ThunkInv, NEW f \in File, ReadFile(f) PROVE ThunkInv'
<1>1. /\ f \in filesExports /\ filesExports' = filesExports \ {f}
      /\ UNCHANGED <<input, dll, keysToIgnore, basic, delta>>
      /\ dll \in 1 .. Len(DllNameList)
    BY DEF ReadFile, Running
<1>2. Listing' /\ Apart' /\ BasicIsInEveryVersion'
    BY <1>1, Kept DEF ThunkInv
<1>3. \A g \in File : ExportList(g)' = ExportList(g)
    BY <1>1 DEF ExportList, input
<1>4. \A g, m : StartsWith(g, m)' = StartsWith(g, m)
    BY <1>1 DEF StartsWith, input
<1>5. \A k \in Name : funcCountMap[k] \in Nat /\ fileCount \in Nat
    BY DEF ThunkInv, ThunkTypeOK
<1>6. CASE StartsWith(f, DllNameList[dll])
    <2>1. /\ fileCount' = fileCount + 1
          /\ funcCountMap' = [k \in Name |->
                 funcCountMap[k] + IF k \in ExportList(f) THEN 1 ELSE 0]
        BY <1>6 DEF ReadFile
    <2>2. Seen' = Seen \cup {f}
        BY <1>1, <1>4, <1>6 DEF Seen
    <2>3. ASSUME NEW k \in Name
          PROVE  /\ funcCountMap'[k] <= fileCount'
                 /\ funcCountMap'[k] = fileCount' => \A g \in Seen' : k \in ExportList(g)'
                 /\ funcCountMap'[k] = 0 => \A g \in Seen' : k \notin ExportList(g)'
                 /\ funcCountMap'[k] > 0 => \E g \in Seen' : k \in ExportList(g)'
        <3>1. /\ funcCountMap[k] <= fileCount
              /\ funcCountMap[k] = fileCount => \A g \in Seen : k \in ExportList(g)
              /\ funcCountMap[k] = 0 => \A g \in Seen : k \notin ExportList(g)
              /\ funcCountMap[k] > 0 => \E g \in Seen : k \in ExportList(g)
            BY <1>1 DEF ThunkInv, Counting
        <3>2. CASE k \in ExportList(f)
            <4>1. funcCountMap'[k] = funcCountMap[k] + 1
                BY <2>1, <3>2
            <4>2. /\ funcCountMap'[k] <= fileCount'
                  /\ funcCountMap'[k] # 0
                  /\ funcCountMap'[k] = fileCount' => funcCountMap[k] = fileCount
                BY <1>5, <2>1, <3>1, <4>1
            <4> QED BY <1>3, <2>2, <3>1, <3>2, <4>2 DEF Seen
        <3>3. CASE k \notin ExportList(f)
            <4>1. funcCountMap'[k] = funcCountMap[k]
                BY <1>5, <2>1, <3>3
            <4>2. /\ funcCountMap'[k] <= fileCount'
                  /\ funcCountMap'[k] # fileCount'
                BY <1>5, <2>1, <3>1, <4>1
            <4> QED BY <1>3, <2>2, <3>1, <3>3, <4>1, <4>2 DEF Seen
        <3> QED BY <3>2, <3>3
    <2>4. Counting'
        BY <1>1, <2>3 DEF Counting
    <2>5. ThunkTypeOK'
        <3>1. funcCountMap' \in [Name -> Nat] /\ fileCount' \in Nat
            BY <1>5, <2>1 DEF ThunkInv, ThunkTypeOK
        <3> QED BY <1>1, <3>1 DEF ThunkInv, ThunkTypeOK, input
    <2> QED BY <1>2, <2>4, <2>5 DEF ThunkInv
<1>7. CASE ~StartsWith(f, DllNameList[dll])
    <2>1. UNCHANGED <<fileCount, funcCountMap>>
        BY <1>7 DEF ReadFile
    <2>2. Seen' = Seen
        BY <1>1, <1>4, <1>7 DEF Seen
    <2>3. Counting'
        BY <1>1, <1>3, <2>1, <2>2 DEF ThunkInv, Counting, Seen
    <2>4. ThunkTypeOK'
        BY <1>1, <2>1 DEF ThunkInv, ThunkTypeOK, input
    <2> QED BY <1>2, <2>3, <2>4 DEF ThunkInv
<1> QED BY <1>6, <1>7

\* The lists of a module leave all others alone.
LEMMA WriteThunksInductive == ThunkInv /\ WriteThunks => ThunkInv'
<1> SUFFICES ASSUME ThunkInv, WriteThunks PROVE ThunkInv'
    OBVIOUS
<1>0. PICK m \in Module : m = DllNameList[dll]
    BY ListAssumption DEF WriteThunks, Running
<1> DEFINE KeysJoin == {k \in Parsed : funcCountMap[k] = fileCount}
<1>1. /\ dll \in 1 .. Len(DllNameList) /\ Len(DllNameList) \in Nat
      /\ filesExports = {} /\ m = DllNameList[dll]
      /\ dll \in DOMAIN DllNameList
    BY <1>0, ListAssumption DEF WriteThunks, Running
<1>2. /\ basic' = [basic EXCEPT ![m] = KeysJoin]
      /\ delta' = [delta EXCEPT ![m] = Parsed \ KeysJoin]
      /\ keysToIgnore' = keysToIgnore \cup AllKeys
      /\ dll' = dll + 1 /\ filesExports' = File /\ fileCount' = 0
      /\ funcCountMap' = NoneCounted
      /\ UNCHANGED input
    BY <1>0 DEF WriteThunks, NextModule
<1>3. /\ Parsed \subseteq Name /\ Parsed \subseteq AllKeys
      /\ Parsed \cap keysToIgnore = {}
      /\ AllKeys \subseteq Name
    BY DEF Parsed, AllKeys
<1>4. \A l \in Module : basic[l] \subseteq Name /\ delta[l] \subseteq Name
    BY DEF ThunkInv, ThunkTypeOK
<1>5. /\ KeysJoin \subseteq Parsed
      /\ basic'[m] = KeysJoin /\ delta'[m] = Parsed \ KeysJoin
      /\ \A l \in Module \ {m} : basic'[l] = basic[l] /\ delta'[l] = delta[l]
    BY <1>1, <1>2 DEF ThunkInv, ThunkTypeOK
<1> HIDE DEF KeysJoin
<1>6. /\ Thunks(m)' = Parsed
      /\ \A l \in Module \ {m} : Thunks(l)' = Thunks(l)
    BY <1>5 DEF Thunks
<1>7. Thunks(m) = {}
    BY <1>1 DEF ThunkInv, Listing
<1>8. \A f \in File : ExportList(f)' = ExportList(f)
    BY <1>2 DEF ExportList, input
<1>9. \A f \in File : StartsWith(f, m) <=> f \in Seen
    BY <1>1 DEF Seen
<1>10. ASSUME NEW k \in Name
       PROVE  /\ funcCountMap[k] \in Nat /\ fileCount \in Nat
              /\ funcCountMap[k] = fileCount => \A f \in Seen : k \in ExportList(f)
              /\ funcCountMap[k] = 0 => \A f \in Seen : k \notin ExportList(f)
              /\ funcCountMap[k] > 0 => \E f \in Seen : k \in ExportList(f)
    BY <1>1 DEF ThunkInv, Counting, ThunkTypeOK
<1>11. ThunkTypeOK'
    <2>1. basic' \in [Module -> SUBSET Name] /\ delta' \in [Module -> SUBSET Name]
        BY <1>2, <1>3, <1>5 DEF ThunkInv, ThunkTypeOK
    <2>2. funcCountMap' \in [Name -> Nat] /\ fileCount' \in Nat
        BY <1>2 DEF NoneCounted
    <2>3. dll' \in 0 .. Len(DllNameList) + 1
        BY <1>1, <1>2
    <2> QED BY <1>2, <2>1, <2>2, <2>3 DEF ThunkInv, ThunkTypeOK, input
<1>12. Counting'
    <2>1. dll' # 0 /\ Seen' = {}
        BY <1>1, <1>2 DEF Seen
    <2>2. fileCount' = 0 /\ \A k \in Name : funcCountMap'[k] = 0
        BY <1>2 DEF NoneCounted
    <2> QED BY <2>1, <2>2 DEF Counting
<1>13. Listing'
    <2>1. ApisToIgnore \subseteq keysToIgnore' /\ dll' # 0
        BY <1>1, <1>2 DEF ThunkInv, Listing
    <2>2. \A l \in Module : Thunks(l)' \subseteq keysToIgnore'
        BY <1>2, <1>3, <1>6 DEF ThunkInv, Listing
    <2>3. ASSUME NEW i \in DOMAIN DllNameList, i >= dll' PROVE Thunks(DllNameList[i])' = {}
        <3>1. i > dll /\ i >= dll /\ i # dll
            BY <1>1, <1>2, <2>3, ListAssumption
        <3>2. DllNameList[i] \in Module \ {m}
            BY <1>1, <3>1, ListAssumption
        <3>3. Thunks(DllNameList[i]) = {}
            BY <3>1 DEF ThunkInv, Listing
        <3> QED BY <1>6, <3>2, <3>3
    <2>4. ASSUME NEW k \in (keysToIgnore' \cap declared') \ ApisToIgnore
          PROVE  \E l \in Module : k \in Thunks(l)'
        <3>1. CASE k \in keysToIgnore
            <4>1. PICK l \in Module : k \in Thunks(l)
                BY <1>2, <2>4, <3>1 DEF ThunkInv, Listing, input
            <4>2. l # m
                BY <1>7, <4>1
            <4> QED BY <1>6, <4>1, <4>2
        <3>2. CASE k \notin keysToIgnore
            <4>1. k \in Parsed
                BY <1>2, <2>4, <3>2 DEF Parsed, input
            <4> QED BY <1>1, <1>6, <4>1
        <3> QED BY <3>1, <3>2
    <2>5. ASSUME NEW i \in DOMAIN DllNameList, NEW f \in File, i < dll',
                 StartsWith(f, DllNameList[i])'
          PROVE  ExportList(f)' \subseteq keysToIgnore'
        <3>1. i <= dll /\ StartsWith(f, DllNameList[i])
            BY <1>1, <1>2, <2>5, ListAssumption DEF input, StartsWith
        <3>2. CASE i = dll
            <4>1. f \in Seen
                BY <1>0, <1>9, <3>1, <3>2
            <4>2. ExportList(f) \subseteq Name
                BY DEF ExportList, ThunkInv, ThunkTypeOK
            <4>3. ASSUME NEW k \in ExportList(f) PROVE funcCountMap[k] > 0
                <5>1. k \in Name
                    BY <4>2
                <5>2. funcCountMap[k] # 0
                    BY <1>10, <4>1, <5>1
                <5>3. funcCountMap[k] \in Nat
                    BY <1>10, <5>1
                <5> QED BY <5>2, <5>3
            <4> QED BY <1>2, <1>8, <4>2, <4>3 DEF AllKeys
        <3>3. CASE i # dll
            <4>1. i < dll
                BY <1>1, <3>1, <3>3, ListAssumption
            <4>2. ExportList(f) \subseteq keysToIgnore
                BY <3>1, <4>1 DEF ThunkInv, Listing
            <4> QED BY <1>2, <1>8, <4>2
        <3> QED BY <3>2, <3>3
    <2>6. ASSUME NEW k \in Name, IsExported(k) PROVE IsExported(k)'
        BY <1>2, <1>8, <2>6 DEF IsExported, StartsWith, input
    <2>7. ASSUME NEW k \in Parsed PROVE k \in declared' /\ IsExported(k)
        <3>1. k \in Name /\ k \in declared /\ funcCountMap[k] > 0
            BY DEF Parsed, AllKeys
        <3>2. PICK f \in Seen : k \in ExportList(f)
            BY <1>10, <3>1
        <3>3. f \in File /\ StartsWith(f, DllNameList[dll])
            BY DEF Seen
        <3> QED BY <1>1, <1>2, <3>1, <3>2, <3>3 DEF IsExported, input
    <2>8. ASSUME NEW l \in Module, NEW k \in Thunks(l)' PROVE k \in declared' /\ IsExported(k)'
        <3>1. CASE l = m
            BY <1>3, <1>6, <2>6, <2>7, <3>1
        <3>2. CASE l # m
            <4>1. k \in Thunks(l) /\ k \in Name
                BY <1>4, <1>6, <3>2 DEF Thunks
            <4>2. k \in declared /\ IsExported(k)
                BY <4>1 DEF ThunkInv, Listing
            <4> QED BY <1>2, <2>6, <4>1, <4>2 DEF input
        <3> QED BY <3>1, <3>2
    <2>9. keysToIgnore' \cap untyped' \subseteq ApisToIgnore
        <3>1. Refused = {} /\ keysToIgnore \cap untyped \subseteq ApisToIgnore
            BY DEF WriteThunks, ThunkInv, Listing
        <3> QED BY <1>2, <3>1 DEF Refused, input
    <2> QED BY <2>1, <2>2, <2>3, <2>4, <2>5, <2>8, <2>9 DEF Listing
<1>14. Apart'
    <2>1. \A l \in Module : /\ basic[l] \cap delta[l] = {}
                            /\ Thunks(l) \cap ApisToIgnore = {}
                            /\ Thunks(l) \subseteq keysToIgnore
        BY DEF ThunkInv, Apart, Listing
    <2>2. ApisToIgnore \subseteq keysToIgnore
        BY DEF ThunkInv, Listing
    <2>3. \A l \in Module : basic'[l] \cap delta'[l] = {}
        BY <1>5, <2>1
    <2>4. \A l \in Module : Thunks(l)' \cap ApisToIgnore = {}
        BY <1>3, <1>6, <2>1, <2>2
    <2>5. ASSUME NEW l \in Module, NEW j \in Module \ {l}
          PROVE  Thunks(l)' \cap Thunks(j)' = {}
        <3>1. Thunks(l) \cap Thunks(j) = {}
            BY DEF ThunkInv, Apart
        <3> QED BY <1>3, <1>6, <2>1, <3>1
    <2> QED BY <2>3, <2>4, <2>5 DEF Apart
<1>15. BasicIsInEveryVersion'
    <2> SUFFICES ASSUME NEW l \in Module, NEW f \in File, StartsWith(f, l)'
                 PROVE  basic'[l] \subseteq ExportList(f)'
        BY DEF BasicIsInEveryVersion
    <2>1. StartsWith(f, l) /\ ExportList(f)' = ExportList(f)
        BY <1>2, <1>8 DEF input, StartsWith
    <2>2. CASE l = m
        <3>1. f \in Seen
            BY <1>9, <2>1, <2>2
        <3>2. ASSUME NEW k \in KeysJoin PROVE k \in ExportList(f)
            <4>1. k \in Name /\ funcCountMap[k] = fileCount
                BY <1>3 DEF KeysJoin
            <4> QED BY <1>10, <3>1, <4>1
        <3> QED BY <1>5, <2>1, <2>2, <3>2
    <2>3. CASE l # m
        BY <1>5, <2>1, <2>3 DEF ThunkInv, BasicIsInEveryVersion
    <2> QED BY <2>2, <2>3
<1> QED BY <1>11, <1>12, <1>13, <1>14, <1>15 DEF ThunkInv

\* Every step keeps the invariant.
LEMMA ThunkInductive == ThunkInv /\ [ThunkNext]_thunkVars => ThunkInv'
<1> SUFFICES ASSUME ThunkInv, [ThunkNext]_thunkVars PROVE ThunkInv'
    OBVIOUS
<1>1. CASE GetFiles
    BY <1>1, GetFilesInductive
<1>2. CASE WriteThunks
    BY <1>2, WriteThunksInductive
<1>3. CASE Stop \/ UNCHANGED thunkVars
    <2>1. UNCHANGED <<input, dll, filesExports, fileCount, funcCountMap, keysToIgnore,
                      basic, delta>>
        BY <1>3 DEF Stop, thunkVars
    <2>2. Listing' /\ Apart' /\ BasicIsInEveryVersion'
        BY <2>1, Kept DEF ThunkInv
    <2>3. ThunkTypeOK'
        BY <2>1 DEF ThunkInv, ThunkTypeOK, input
    <2>4. Counting'
        BY <2>1 DEF ThunkInv, Counting, Seen, StartsWith, ExportList, input
    <2> QED BY <2>2, <2>3, <2>4 DEF ThunkInv
<1>4. CASE \E f \in File : ReadFile(f)
    BY <1>4, ReadFileInductive
<1> QED BY <1>1, <1>2, <1>3, <1>4 DEF ThunkNext

\* The invariant holds when the script starts.
LEMMA ThunkFirst == ThunkInit => ThunkInv
<1> SUFFICES ASSUME ThunkInit PROVE ThunkInv
    OBVIOUS
<1>1. \A m \in Module : basic[m] = {} /\ delta[m] = {} /\ Thunks(m) = {}
    BY DEF ThunkInit, Thunks
<1>2. \A i \in DOMAIN DllNameList : DllNameList[i] \in Module /\ ~(i < 0)
    BY ListAssumption
<1>3. ThunkTypeOK
    BY ListAssumption DEF ThunkInit, ThunkTypeOK, NoneCounted
<1>4. Counting
    BY DEF ThunkInit, Counting
<1>5. Listing
    BY <1>1, <1>2 DEF ThunkInit, Listing
<1>6. Apart /\ BasicIsInEveryVersion
    BY <1>1 DEF Apart, BasicIsInEveryVersion
<1> QED BY <1>3, <1>4, <1>5, <1>6 DEF ThunkInv

-------------------------------------------------------------------------------
(* The theorems *)

\* However the exports of the modules and their versions overlap, no function
\* gets two thunks, and none that is declared goes without (exportFiles,
\* keysToIgnore).
THEOREM EachHasOneThunkHolds ==
    ThunkSpec => []EachHasOneThunk
<1>1. ThunkInit => ThunkInv
    BY ThunkFirst
<1>2. ThunkInv /\ [ThunkNext]_thunkVars => ThunkInv'
    BY ThunkInductive
<1>3. ThunkInv => EachHasOneThunk
    <2> SUFFICES ASSUME ThunkInv, Finished,
                        NEW f \in File, NEW k \in declared \ ApisToIgnore,
                        versionOf[f] \in Range(DllNameList), k \in ExportList(f)
                 PROVE  \E m \in Module : k \in Thunks(m)
        BY DEF ThunkInv, Apart, EachHasOneThunk
    <2>1. PICK i \in DOMAIN DllNameList : versionOf[f] = DllNameList[i]
        BY DEF Range
    <2>2. i < dll
        BY ListAssumption DEF Finished, ThunkInv, ThunkTypeOK
    <2>3. k \in keysToIgnore
        BY <2>1, <2>2 DEF ThunkInv, Listing, StartsWith
    <2> QED BY <2>3 DEF ThunkInv, Listing
<1> QED BY <1>1, <1>2, <1>3, PTL DEF ThunkSpec

\* A function of a basic list is in what was read of every file that counts for
\* the module, which is nothing where a file could not be read (exportFiles,
\* KeysJoin).
THEOREM BasicIsInEveryVersionHolds ==
    ThunkSpec => []BasicIsInEveryVersion
<1>1. ThunkInit => ThunkInv
    BY ThunkFirst
<1>2. ThunkInv /\ [ThunkNext]_thunkVars => ThunkInv'
    BY ThunkInductive
<1>3. ThunkInv => BasicIsInEveryVersion
    BY DEF ThunkInv
<1> QED BY <1>1, <1>2, <1>3, PTL DEF ThunkSpec

\* When all modules are through, a declared function has a thunk if and only if
\* a file that counts for a module of the list exports it, and it is not to be
\* ignored; and the return type of such a function was read.
LEMMA ThunksInTheEnd ==
    ASSUME ThunkInv, Finished, NEW k \in Name
    PROVE  /\ Thunked(k) <=> k \in declared /\ Wanted(k)
           /\ Wanted(k) => k \notin untyped
<1>0. /\ Wanted(k) <=> k \notin ApisToIgnore /\ IsExported(k)
      /\ Thunked(k) <=> \E m \in Module : k \in Thunks(m)
      BY DEF Wanted, Thunked, IsExported
<1>1. ASSUME NEW m \in Module, k \in Thunks(m)
      PROVE  k \in declared /\ k \notin ApisToIgnore /\ IsExported(k)
      BY <1>1 DEF ThunkInv, Listing, Apart
<1>2. ASSUME k \notin ApisToIgnore, IsExported(k) PROVE k \in keysToIgnore
  <2>1. PICK f \in File, i \in DOMAIN DllNameList : StartsWith(f, DllNameList[i]) /\ k \in ExportList(f)
        BY <1>2 DEF IsExported
  <2>2. i < dll
        BY ListAssumption DEF Finished, ThunkInv, ThunkTypeOK
  <2> QED BY <2>1, <2>2 DEF ThunkInv, Listing
<1>3. ASSUME k \in declared, k \notin ApisToIgnore, IsExported(k)
      PROVE  \E m \in Module : k \in Thunks(m)
      BY <1>2, <1>3 DEF ThunkInv, Listing
<1>4. ASSUME k \notin ApisToIgnore, IsExported(k) PROVE k \notin untyped
      BY <1>2, <1>4 DEF ThunkInv, Listing
<1> QED BY <1>0, <1>1, <1>3, <1>4

-------------------------------------------------------------------------------
(* The whole *)

\* A name that is found is one that the headers declare, and a declaration that
\* does not have it found is at the greatest suffix.
LEMMA FoundIsDeclared ==
    ASSUME ArrayBuilt, NEW k \in Name
    PROVE  /\ k \in Found => Declarations(k) # {}
           /\ \A p \in Declarations(k) : k \in Found \/ Greatest(p)
<1> DEFINE n == Len(Bytes[k])
           L == Len(content)
           between(b, c) == <<b>> \o Bytes[k] \o <<c>>
           open(b) == <<b>> \o Bytes[k]
           here(b) == LET range == binary_search(open(b))
                      IN {i \in range.low .. range.high :
                             Content(su_index[i] + 1 + Len(Bytes[k])) \in FunctionPrefixTable}
<1>2. /\ Bytes[k] \in Seq(Byte) /\ FunctionPrefixTable \subseteq Byte
      /\ \A c \in FunctionPrefixTable : c # 0 /\ c \in Byte
      BY NameAssumption, SuffixArrayAssumption
<1>3. /\ Terminated /\ ArrayOK /\ TextOK /\ Built /\ L \in Nat \ {0}
      /\ N = L + 1 /\ Position = 0 .. N - 1
  <2>1. Terminated /\ ArrayOK /\ TextOK /\ Built
        BY CharsRead DEF ArrayBuilt
  <2> QED BY <2>1, Characters, SortedIsOrder
<1>4. ASSUME NEW b \in FunctionPrefixTable, NEW c \in FunctionPrefixTable
      PROVE  /\ open(b) \in Seq(Byte) /\ Len(open(b)) = n + 1 /\ n \in Nat
             /\ between(b, c) \in Seq(Byte) /\ Len(between(b, c)) = n + 2
             /\ between(b, c)[n + 2] = c
             /\ \A j \in 1 .. n + 1 : between(b, c)[j] = open(b)[j]
      BY <1>2
<1>5. ASSUME NEW b \in FunctionPrefixTable, NEW c \in FunctionPrefixTable,
             NEW i \in 0 .. L - 1
      PROVE  Matches(i, between(b, c), n + 2)
                <=> Matches(i, open(b), n + 1) /\ CharAt(i, n + 1) = c
  <2>1. 0 .. (n + 2) - 1 = (0 .. (n + 1) - 1) \cup {n + 1} /\ (n + 1) + 1 = n + 2
        BY <1>4
  <2>2. \A j \in 0 .. (n + 1) - 1 : between(b, c)[j + 1] = open(b)[j + 1]
    <3>1. \A j \in 0 .. (n + 1) - 1 : j + 1 \in 1 .. n + 1
          BY <1>4
    <3> HIDE DEF between, open
    <3> QED BY <1>4, <3>1
  <2>3. between(b, c)[n + 2] = c
        BY <1>4
  <2> HIDE DEF between, open, n
  <2> QED BY <2>1, <2>2, <2>3 DEF Matches
<1>6. ASSUME NEW i \in 0 .. L - 1
      PROVE  CharAt(i, n + 1) = Content(su_index[i] + 1 + Len(Bytes[k]))
  <2>1. su_index[i] \in Nat /\ n \in Nat
    <3>1. su_index[i] \in Position
          BY CharsRead
    <3> QED BY <1>2, <1>3, <3>1
  <2>2. su_index[i] + (n + 1) = su_index[i] + 1 + n
        BY <2>1
  <2> QED BY <2>2 DEF CharAt
<1>7. ASSUME NEW b \in FunctionPrefixTable
      PROVE  /\ \A i : i \in binary_search(open(b)).low .. binary_search(open(b)).high
                          => i \in 0 .. L - 1
             /\ \A i \in 0 .. L - 1 :
                   i \in binary_search(open(b)).low .. binary_search(open(b)).high
                      <=> Matches(i, open(b), n + 1)
  <2>1. PICK r : r = binary_search(open(b))
        OBVIOUS
  <2>2. open(b) \in Seq(Byte) /\ Len(open(b)) = n + 1
        BY <1>4
  <2> HIDE DEF open, n
  <2>3. r \in RangesUsed /\ \A i \in 0 .. L - 1 : i \in r.low .. r.high <=> Matches(i, open(b), n + 1)
        BY <2>1, <2>2, Narrowed
  <2>4. r.low \in Int /\ r.high \in Int /\ 0 <= r.low /\ r.high < L
        BY <1>3, <2>3, RangeTypes DEF RangesUsed
  <2>5. \A i : i \in r.low .. r.high => i \in 0 .. L - 1
        BY <1>3, <2>4
  <2> QED BY <2>1, <2>3, <2>5
<1>8. ASSUME NEW i
      PROVE  i \in matchedIndex(k) <=>
                /\ i \in 0 .. L - 1
                /\ \E b, c \in FunctionPrefixTable : Matches(i, between(b, c), n + 2)
  <2>1. i \in matchedIndex(k) <=> \E b \in FunctionPrefixTable : i \in here(b)
    <3>1. matchedIndex(k) = UNION {here(b) : b \in FunctionPrefixTable}
          BY DEF matchedIndex
    <3> HIDE DEF here
    <3> QED BY <3>1
  <2>2. ASSUME NEW b \in FunctionPrefixTable
        PROVE  i \in here(b) <=>
                  /\ i \in 0 .. L - 1 /\ Matches(i, open(b), n + 1)
                  /\ CharAt(i, n + 1) \in FunctionPrefixTable
    <3>1. i \in here(b) <=>
             /\ i \in binary_search(open(b)).low .. binary_search(open(b)).high
             /\ Content(su_index[i] + 1 + Len(Bytes[k])) \in FunctionPrefixTable
      <4> HIDE DEF open
      <4> QED OBVIOUS
    <3> HIDE DEF here, open, n, L
    <3> QED BY <1>6, <1>7, <3>1
  <2> HIDE DEF here, open, between, n, L
  <2> QED BY <1>5, <2>1, <2>2
<1>9. ASSUME NEW b \in FunctionPrefixTable, NEW c \in FunctionPrefixTable, NEW i \in 0 .. L - 1
      PROVE  Matches(i, between(b, c), n + 2) <=> OccursAt(between(b, c), su_index[i])
  <2>1. between(b, c) \in Seq(Byte) /\ Len(between(b, c)) = n + 2
        BY <1>4
  <2> HIDE DEF between, n
  <2> QED BY <2>1, MatchIsOccurrence
<1>10. ASSUME NEW b \in FunctionPrefixTable, NEW c \in FunctionPrefixTable, NEW i \in 0 .. L - 1,
              OccursAt(between(b, c), su_index[i])
       PROVE  su_index[i] \in 0 .. L - 1
  <2>1. CharAt(i, 0) # 0
    <3>1. Matches(i, between(b, c), n + 2)
          BY <1>9, <1>10
    <3>2. between(b, c)[1] = b /\ 0 \in 0 .. (n + 2) - 1
          BY <1>2, <1>4
    <3>3. CharAt(i, 0) = b
      <4> HIDE DEF between, n
      <4> QED BY <3>1, <3>2 DEF Matches
    <3> QED BY <1>2, <3>3
  <2>2. su_index[i] \in Nat
        BY <1>3, CharsRead, SortedIsOrder
  <2> QED BY <1>3, <2>1, <2>2 DEF CharAt, Content
<1>11. ASSUME NEW p \in 0 .. L - 1, NEW q \in Position, Less(Suffix(p), Suffix(q))
       PROVE  \E i \in 0 .. L - 1 : su_index[i] = p
  <2>1. p \in Position
        BY <1>3
  <2>2. PICK i \in Position : su_index[i] = p
        BY <1>3, <2>1, SortedIsOrder
  <2>3. PICK j \in Position : su_index[j] = q
        BY <1>3, SortedIsOrder
  <2>4. LessTo(N, p, q)
        BY <1>3, <1>11, <2>1, LessToIsLess
  <2>5. N \in Nat /\ p \in Nat /\ q \in Nat
        BY <1>3, <2>1
  <2>6. ~SameTo(N, p, q) /\ ~LessTo(N, q, p)
        BY <1>3, <2>4, <2>5, SameOrLess
  <2>7. i # j
    <3>1. SUFFICES ASSUME p = q PROVE FALSE
          BY <2>2, <2>3
    <3> QED BY <2>4, <2>6, <3>1
  <2>8. ~(j < i)
        BY <1>3, <2>2, <2>3, <2>6, BuiltIsSorted
  <2>9. i \in 0 .. L - 1
        BY <1>3, <2>7, <2>8
  <2> QED BY <2>2, <2>9
<1> HIDE DEF between, n, L
<1>12. k \in Found <=> \E i \in matchedIndex(k) : HasTail(su_index[i] + 1 + n)
       BY DEF Found, n
<1>13. ASSUME NEW p
       PROVE  p \in Declarations(k) <=>
                 /\ p \in 0 .. L - 1 /\ HasTail(p + 1 + n)
                 /\ \E b, c \in FunctionPrefixTable : OccursAt(between(b, c), p)
       BY DEF Declarations, between, n, L
<1>14. ASSUME k \in Found PROVE Declarations(k) # {}
  <2>1. PICK i \in matchedIndex(k) : HasTail(su_index[i] + 1 + n)
        BY <1>12, <1>14
  <2>2. PICK b \in FunctionPrefixTable, c \in FunctionPrefixTable :
           i \in 0 .. L - 1 /\ OccursAt(between(b, c), su_index[i])
        BY <1>8, <1>9
  <2>3. su_index[i] \in 0 .. L - 1
        BY <1>10, <2>2
  <2> QED BY <1>13, <2>1, <2>2, <2>3
<1>15. ASSUME NEW p \in Declarations(k), ~Greatest(p) PROVE k \in Found
  <2>1. PICK q \in Position : Less(Suffix(p), Suffix(q))
        BY <1>15 DEF Greatest
  <2>2. PICK i \in 0 .. L - 1 : su_index[i] = p
        BY <1>11, <1>13, <2>1
  <2>3. PICK b \in FunctionPrefixTable, c \in FunctionPrefixTable :
           OccursAt(between(b, c), p)
        BY <1>13
  <2>4. i \in matchedIndex(k)
        BY <1>8, <1>9, <2>2, <2>3
  <2> QED BY <1>12, <1>13, <2>2, <2>4
<1> QED BY <1>14, <1>15

\* The script does what MergeFile does, on a table that stays as it was built.
THEOREM ImplementsBoth == SpecAll => Spec /\ ThunkSpec
<1>1. InitAll => Init /\ ThunkInit
      BY DEF InitAll
<1>2. [NextAll]_allVars => [Double]_vars /\ [ThunkNext]_thunkVars
      BY DEF NextAll, allVars, Build, Export
<1> QED BY <1>1, <1>2, PTL DEF SpecAll, Spec, ThunkSpec

\* When the script runs the table is built, and the names found are those that
\* the headers declare, but for what the greatest suffix may hide.
TableRead ==
    dll # 0 =>
       /\ Built
       /\ \A k \in Name :
             /\ k \in declared \cup untyped => Declarations(k) # {}
             /\ \A p \in Declarations(k) : k \in declared \cup untyped \/ Greatest(p)

\* While the table stays as it is, so do the declarations in it.
LEMMA DeclarationsStay ==
    ASSUME UNCHANGED vars
    PROVE  /\ \A k : Declarations(k)' = Declarations(k)
           /\ \A p : Greatest(p)' <=> Greatest(p)
           /\ Built' <=> Built
<1>1. UNCHANGED <<content, su_index, rank, next, length>>
      BY DEF vars
<1>2. UNCHANGED txt /\ UNCHANGED N /\ UNCHANGED Position
      BY <1>1 DEF txt, N, Position
<1>3. /\ \A s, p : OccursAt(s, p)' <=> OccursAt(s, p)
      /\ \A p : Suffix(p)' = Suffix(p)
      BY <1>1, <1>2 DEF OccursAt, Suffix
<1>4. \A p, q : Less(Suffix(p), Suffix(q))' <=> Less(Suffix(p), Suffix(q))
      BY <1>3 DEF Less
<1>5. \A p : HasTail(p)' <=> HasTail(p)
      BY <1>1 DEF HasTail, Content
<1>6. \A p : Greatest(p)' <=> Greatest(p)
      BY <1>2, <1>4 DEF Greatest
<1>7. ASSUME NEW k PROVE Declarations(k)' = Declarations(k)
      BY <1>1, <1>3, <1>5 DEF Declarations
<1> QED BY <1>1, <1>2, <1>6, <1>7 DEF Built

\* For every text, every list of modules and whatever their versions export: in
\* the end a function has a thunk only if it is wanted and the headers declare
\* it, and only a declaration at the greatest suffix of the text can be missed.
THEOREM DeclaredIsThunkedHolds == Terminated => (SpecAll => []DeclaredIsThunked)
<1> SUFFICES ASSUME Terminated PROVE SpecAll => []DeclaredIsThunked
    OBVIOUS
<1>1. SpecAll => []ArrayOK
      BY ImplementsBoth, ArrayHolds, PTL
<1>2. SpecAll => []ThunkInv
  <2>1. ThunkInit => ThunkInv
        BY ThunkFirst
  <2>2. ThunkInv /\ [ThunkNext]_thunkVars => ThunkInv'
        BY ThunkInductive
  <2> QED BY <2>1, <2>2, ImplementsBoth, PTL DEF ThunkSpec
<1>3. InitAll => TableRead
      BY DEF InitAll, ThunkInit, TableRead
<1>4. ArrayOK /\ ThunkInv /\ TableRead /\ [NextAll]_allVars => TableRead'
  <2> SUFFICES ASSUME ArrayOK, ThunkInv, TableRead, [NextAll]_allVars PROVE TableRead'
      OBVIOUS
  <2>1. CASE Build
    <3>1. UNCHANGED thunkVars /\ length < 2 * N
          BY <2>1 DEF Build, Double
    <3>2. length \in Nat /\ N \in Nat
          BY SortedIsOrder DEF ArrayOK
    <3>3. ~Built
          BY <3>1, <3>2 DEF Built
    <3> QED BY <3>1, <3>3 DEF TableRead, thunkVars
  <2>2. CASE Export
    <3>1. Built /\ UNCHANGED vars
          BY <2>2 DEF Export
    <3>2. ArrayBuilt
          BY <3>1 DEF ArrayBuilt
    <3>3. CASE dll = 0
      <4>1. declared' \cup untyped' = Found
            BY <2>2, <3>3 DEF Export
      <4> QED BY <3>1, <3>2, <4>1, FoundIsDeclared, DeclarationsStay DEF TableRead
    <3>4. CASE dll # 0
      <4>1. UNCHANGED <<declared, untyped>>
            BY <2>2, <3>4 DEF Export, ThunkNext, GetFiles, WriteThunks, Stop, ReadFile, input
      <4> QED BY <3>1, <3>4, <4>1, DeclarationsStay DEF TableRead
    <3> QED BY <3>3, <3>4
  <2>3. CASE UNCHANGED allVars
    <3>1. UNCHANGED vars /\ UNCHANGED <<dll, declared, untyped>>
          BY <2>3 DEF allVars, thunkVars, input
    <3> QED BY <3>1, DeclarationsStay DEF TableRead
  <2> QED BY <2>1, <2>2, <2>3 DEF NextAll
<1>5. ThunkInv /\ TableRead => DeclaredIsThunked
  <2> SUFFICES ASSUME ThunkInv, TableRead, Finished, NEW k \in Name
               PROVE  /\ Thunked(k) => Wanted(k) /\ Declarations(k) # {}
                      /\ Wanted(k) /\ ~Thunked(k) => \A p \in Declarations(k) : Greatest(p)
      BY DEF DeclaredIsThunked
  <2>1. dll # 0
        BY ListAssumption DEF Finished
  <2>2. /\ k \in declared \cup untyped => Declarations(k) # {}
        /\ \A p \in Declarations(k) : k \in declared \cup untyped \/ Greatest(p)
        BY <2>1 DEF TableRead
  <2> QED BY <2>2, ThunksInTheEnd
<1> QED BY <1>1, <1>2, <1>3, <1>4, <1>5, PTL DEF SpecAll
===============================================================================
