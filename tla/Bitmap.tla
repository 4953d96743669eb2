-------------------------------- MODULE Bitmap --------------------------------
(***************************************************************************)
(* win-polyfill-core/bitmap.h: a pool of numbers.  RtlFindClearBitsAndSet  *)
(* takes a run of numbers that nobody has, RtlClearBits gives it back.     *)
(* The buffer is worked on byte by byte: part of a byte at either end,     *)
(* whole bytes between.                                                    *)
(*                                                                         *)
(* A bitmap is the set of the positions of its bits that are 1, and a mask *)
(* the set of the positions within a byte.  RtlFindClearBits is a function *)
(* of ntdll.  The repository has no caller: the one modelled gives back    *)
(* what it took, and makes one call at a time.                             *)
(***************************************************************************)
EXTENDS Integers, FiniteSets

CONSTANTS SizeOfBitMap,   \* number of bits
          NumbersToFind,  \* lengths of the runs that are asked for
          MaxOwned        \* bound: runs that are out at a time

ASSUME BitmapAssumption ==
    /\ SizeOfBitMap \in Nat
    /\ NumbersToFind \subseteq Nat \ {0}

VARIABLES Buffer,  \* the bits that are set
          owned    \* history: the runs that are out, <<first, length>>

bitmapVars == <<Buffer, owned>>

FillMask(n) == 0 .. n - 1
ZeroMask(n) == n .. 7

\* The bits of a mask, in byte b.
Bits(b, mask) == {8 * b + i : i \in mask}

\* Number bits from the first of byte b on: whole bytes and the rest.
FromByte(b, Number) ==
    LET whole == IF Number > 8 THEN Number \div 8 ELSE 0
    IN (UNION {Bits(b + k, 0 .. 7) : k \in 0 .. whole - 1})
       \cup Bits(b + whole, FillMask(Number - 8 * whole))

\* A plausible bug of Run: a first byte that is begun does not shorten the run.
Run_Long(StartingIndex, Number) ==
    LET CurrentByte == StartingIndex \div 8
        BitOffset   == StartingIndex % 8
    IN IF BitOffset + Number <= 8
          THEN Bits(CurrentByte, {BitOffset + i : i \in FillMask(Number)})
          ELSE IF BitOffset > 0
                  THEN Bits(CurrentByte, ZeroMask(BitOffset))
                       \cup FromByte(CurrentByte + 1, Number)
                  ELSE FromByte(CurrentByte, Number)

\* The bits from StartingIndex on, as the code divides them into bytes: all in
\* one byte, or in a first byte that is begun, whole bytes, and the rest.
Run(StartingIndex, Number) ==
    LET CurrentByte == StartingIndex \div 8
        BitOffset   == StartingIndex % 8
    IN IF BitOffset + Number <= 8
          THEN Bits(CurrentByte, {BitOffset + i : i \in FillMask(Number)})
          ELSE IF BitOffset > 0
                  THEN Bits(CurrentByte, ZeroMask(BitOffset))
                       \cup FromByte(CurrentByte + 1, Number - (8 - BitOffset))
                  ELSE FromByte(CurrentByte, Number)

RtlSetBits(map, StartingIndex, NumberToSet) ==
    map \cup Run(StartingIndex, NumberToSet)

RtlClearBits(map, StartingIndex, NumberToClear) ==
    map \ Run(StartingIndex, NumberToClear)

\* RtlSetBit and RtlClearBit: one bit, found by a shift and a mask.
RtlSetBit(map, BitNumber) == map \cup Bits(BitNumber \div 8, {BitNumber % 8})
RtlClearBit(map, BitPos) == map \ Bits(BitPos \div 8, {BitPos % 8})

Numbers(r) == r[1] .. r[1] + r[2] - 1

\* RtlInitializeBitMap, on a buffer that is clear.
BitmapInit == Buffer = {} /\ owned = {}

\* ntdll answers with the first number of some run that is clear and inside
\* the bitmap, if there is one.
RtlFindClearBitsAndSet(n) ==
    /\ Cardinality(owned) < MaxOwned
    /\ \E s \in 0 .. SizeOfBitMap - n :
          /\ Numbers(<<s, n>>) \cap Buffer = {}
          /\ Buffer' = RtlSetBits(Buffer, s, n)
          /\ owned' = owned \cup {<<s, n>>}

\* A number that the caller knows to be free.
TakeOne(s) ==
    /\ Cardinality(owned) < MaxOwned
    /\ s \notin Buffer
    /\ Buffer' = RtlSetBit(Buffer, s)
    /\ owned' = owned \cup {<<s, 1>>}

GiveBack(r) ==
    /\ Buffer' = RtlClearBits(Buffer, r[1], r[2])
    /\ owned' = owned \ {r}

GiveBackOne(r) ==
    /\ r[2] = 1
    /\ Buffer' = RtlClearBit(Buffer, r[1])
    /\ owned' = owned \ {r}

BitmapNext ==
    \/ \E n \in NumbersToFind : RtlFindClearBitsAndSet(n)
    \/ \E s \in 0 .. SizeOfBitMap - 1 : TakeOne(s)
    \/ \E r \in owned : GiveBack(r) \/ GiveBackOne(r)

BitmapSpec == BitmapInit /\ [][BitmapNext]_bitmapVars

-------------------------------------------------------------------------------
(* Safety *)

\* Nobody has a number that another one has, and the bits that are set are
\* those of the numbers that are out, whatever bytes the runs begin and end in.
BitsAreTheNumbersOut ==
    /\ Buffer = UNION {Numbers(r) : r \in owned}
    /\ \A q, r \in owned : q # r => Numbers(q) \cap Numbers(r) = {}
    /\ Buffer \subseteq 0 .. SizeOfBitMap - 1
===============================================================================
