----------------------------- MODULE SuffixArray ------------------------------
(***************************************************************************)
(* The suffix arrays of scripts/suffix-array.ts and of                     *)
(* src/suffix-array-gen.cpp, which builds them by the same algorithm, and  *)
(* the search in them.                                                     *)
(*                                                                         *)
(* A suffix starts with a rank, first its character, and the rank of what  *)
(* follows.  The suffixes are sorted by these pairs; places in that order  *)
(* are the new ranks, of twice as many characters.  Nothing orders the     *)
(* suffixes with equal pairs: neither std::sort nor the comparison of the  *)
(* script, which calls each of two equal values the greater.               *)
(*                                                                         *)
(* Positions count from 0, as in the code.                                 *)
(***************************************************************************)
EXTENDS Integers, Sequences, FiniteSets, SequencesExt, TLC

CONSTANTS Byte,           \* bytes that texts are made of, none less than 2
          MaxText,        \* length of the longest text
          MaxPattern,     \* length of the longest pattern to search for
          Terminated      \* the generator ends the text with the byte 1

Terminator == 1

\* Characters are above the terminator and above the 0 that stands for the end.
ASSUME SuffixArrayAssumption ==
    /\ Byte \subseteq Nat \ {0, Terminator}
    /\ MaxText \in Nat /\ MaxPattern \in Nat

VARIABLES
    content,      \* the file
    su_index,     \* positions in the order of their suffixes
    rank, next,   \* su_body, by position
    length        \* the loop variable: what the next pairs will stand for

vars == <<content, su_index, rank, next, length>>

-------------------------------------------------------------------------------
(* The text *)

txt == IF Terminated THEN Append(content, Terminator) ELSE content
N   == Len(txt)
Position == 0 .. N - 1

Char(p) == txt[p + 1]

\* sa.content[p] ?? 0: the file has no terminator.
Content(p) == IF p < Len(content) THEN content[p + 1] ELSE 0

-------------------------------------------------------------------------------
(* Building *)

Before(r, x, p, q) == r[p] < r[q] \/ (r[p] = r[q] /\ x[p] < x[q])

\* The orders that sorting by rank and next may leave.
Sorted(r, x) ==
    {order \in Bijection(Position, Position) :
        \A i, j \in Position : i < j => ~Before(r, x, order[j], order[i])}

\* The place of each suffix: it changes where a pair does.
NewRank == [p \in Position |->
    LET i == CHOOSE i \in Position : su_index[i] = p
        changes == {j \in 1 .. i : \/ rank[su_index[j]] # rank[su_index[j - 1]]
                                   \/ next[su_index[j]] # next[su_index[j - 1]]}
    IN Cardinality(changes)]

Init ==
    /\ content \in UNION {[1 .. n -> Byte] : n \in 1 .. MaxText}
    /\ rank = [p \in Position |-> Char(p)]
    /\ next = [p \in Position |-> IF p + 1 \in Position THEN Char(p + 1) ELSE 0]
    /\ su_index \in Sorted(rank, next)
    /\ length = 4

\* A plausible bug of Double: what follows is looked up one place too far.
Double_TooFar ==
    /\ length < 2 * N
    /\ LET r == NewRank
           x == [p \in Position |->
                    LET q == p + length \div 2 + 1 IN IF q < N THEN r[q] ELSE 0]
       IN /\ rank' = r /\ next' = x
          /\ su_index' \in Sorted(r, x)
    /\ length' = 2 * length
    /\ UNCHANGED content

\* One turn of the loop.
Double ==
    /\ length < 2 * N
    /\ LET r == NewRank
           x == [p \in Position |->
                    LET q == p + length \div 2 IN IF q < N THEN r[q] ELSE 0]
       IN /\ rank' = r /\ next' = x
          /\ su_index' \in Sorted(r, x)
    /\ length' = 2 * length
    /\ UNCHANGED content

Built == length >= 2 * N

Spec == Init /\ [][Double]_vars

-------------------------------------------------------------------------------
(* Searching *)

\* The character of the i-th suffix that is compared.
CharAt(i, off) == Content(su_index[i] + off)

Mid(low, high) == high - (high - low) \div 2

\* What is left to be searched.
Ranges == [low : 0 .. Len(content), high : -1 .. Len(content) - 1]

\* The variables of the loop that doubles its steps.
Steps == [low : Nat, new_high : Nat, delta : Nat \ {0}]

\* The three loops of binary_search_range: the first place in the range whose
\* character is not below this one;
FirstNotBelow(char, off, range) ==
    LET loop[r \in Ranges] ==
            LET mid == Mid(r.low, r.high)
            IN IF r.low > r.high THEN r.low
               ELSE IF char > CharAt(mid, off) THEN loop[[low |-> mid + 1, high |-> r.high]]
                                               ELSE loop[[low |-> r.low, high |-> mid - 1]]
    IN loop[range]

\* from there on in doubled steps, while the character is this one, to a place
\* that has it and one that has not or is the last;
Gallop(char, off, range) ==
    LET loop[s \in Steps] ==
            IF s.new_high <= range.high /\ CharAt(s.new_high, off) = char
            THEN loop[[low |-> s.new_high, new_high |-> s.new_high + s.delta, delta |-> 2 * s.delta]]
            ELSE [low  |-> s.low,
                  high |-> IF s.new_high <= range.high THEN s.new_high ELSE range.high]
    IN loop[[low |-> range.low, new_high |-> range.low, delta |-> 1]]

\* and the last place between them whose character is not above.
LastNotAbove(char, off, range) ==
    LET loop[r \in Ranges] ==
            LET mid == Mid(r.low, r.high)
            IN IF r.low > r.high THEN r.high
               ELSE IF char < CharAt(mid, off) THEN loop[[low |-> r.low, high |-> mid - 1]]
                                               ELSE loop[[low |-> mid + 1, high |-> r.high]]
    IN loop[range]

\* A plausible bug of binary_search_range: without the doubled steps the last
\* loop is given only the first place.
binary_search_range_NoGallop(char, off, range) ==
    LET low == FirstNotBelow(char, off, range)
    IN [low |-> low,
        high |-> LastNotAbove(char, off,
                     [low |-> low, high |-> IF low <= range.high THEN low ELSE range.high])]

binary_search_range(char, off, range) ==
    LET low == FirstNotBelow(char, off, range)
    IN [low  |-> low,
        high |-> LastNotAbove(char, off, Gallop(char, off, [low |-> low, high |-> range.high]))]

\* The range starts without the greatest suffix: with its terminator the text
\* has one suffix more than the file has characters.
binary_search(pattern) ==
    LET narrowed[i \in 0 .. Len(pattern)] ==
            IF i = 0 THEN [low |-> 0, high |-> Len(content) - 1]
            ELSE binary_search_range(pattern[i], i - 1, narrowed[i - 1])
    IN narrowed[Len(pattern)]

-------------------------------------------------------------------------------
(* Safety *)

\* The order of characters, and a text before every longer one it starts.
Less(s, t) ==
    \E k \in 0 .. Len(s) :
       /\ k < Len(t)
       /\ \A i \in 1 .. k : s[i] = t[i]
       /\ k = Len(s) \/ s[k + 1] < t[k + 1]

Suffix(p) == SubSeq(txt, p + 1, N)

\* When the loop ends the positions are in the order of their suffixes.
SuffixesSorted ==
    Built => \A i \in 1 .. N - 1 : Less(Suffix(su_index[i - 1]), Suffix(su_index[i]))

OccursAt(s, p) == IsPrefix(s, SubSeq(content, p + 1, Len(content)))

\* A search finds exactly the places where its pattern occurs, the greatest
\* suffix excepted, where it does not look.
SearchFindsAll ==
    Built => \A pattern \in UNION {[1 .. n -> Byte] : n \in 1 .. MaxPattern} :
                LET range == binary_search(pattern)
                IN \A i \in 0 .. Len(content) - 1 :
                      i \in range.low .. range.high <=> OccursAt(pattern, su_index[i])
===============================================================================
