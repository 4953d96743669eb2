------------------------------ MODULE PartsProofs ------------------------------
(***************************************************************************)
(* The parts that work alone, for all sizes.                               *)
(*                                                                         *)
(* LdrRelocateImage succeeds only at the end of the table, for every width *)
(* of its counter, every size of the table and whatever sizes are read.    *)
(* A bitmap sets and clears the bits it is asked for and no others, for    *)
(* every size and wherever a run begins and ends.  call_once_context runs  *)
(* its function once, for any threads.  The generator of the overriding    *)
(* library writes the bytes of every function, for lists of any length.    *)
(* The loader finds what Windows has, and keeps its trees and its table,   *)
(* for any modules and on any release.                                     *)
(***************************************************************************)
EXTENDS LdrReloc, Bitmap, CallOnce, ExportGen, LdrIndexes,
        Recursion, FiniteSetTheorems, SequenceTheorems, TLAPS

-------------------------------------------------------------------------------
(* The walk through the relocation table *)

\* What is left, where the walk is and the bytes of odd sizes that it is behind
\* add up to the size of the table, but for the wraps of the counter: no more than
\* two, for a block is eight bytes long at least, and no memory is mapped so far.
Balanced ==
    /\ tableSize \in TableSizes
    /\ TotalCountBytes \in 0 .. Word - 1
    /\ NextBlock \in 0 .. Mapped
    /\ odd \in Nat /\ 8 * odd <= NextBlock
    /\ status \in {"walking", "success"} =>
          \/ TotalCountBytes + NextBlock + odd = tableSize
          \/ TotalCountBytes + NextBlock + odd = tableSize + Word
          \/ TotalCountBytes + NextBlock + odd = tableSize + 2 * Word
    /\ status = "success" => TotalCountBytes = 0

\* A block's end is as far off as its size says, less one byte if that is odd, and
\* a block shorter than its header ends behind all memory.
LEMMA BlockEnd ==
    ASSUME NEW s \in BlockSizes
    PROVE  /\ s \in 0 .. Word - 1 /\ s % 2 \in {0, 1} /\ s % 2 <= s
           /\ s >= SizeOfHeader => s - (s % 2) >= SizeOfHeader
           /\ s >= SizeOfHeader => SizeOfHeader + 2 * Offsets(s) = s - (s % 2)
           /\ s < SizeOfHeader  => SizeOfHeader + 2 * Offsets(s) = s - (s % 2) + Word
<1>1. s \in 0 .. Word - 1
      BY RelocAssumption DEF RelocAssumption
<1>2. PICK w \in Nat : Word = 2 * w
  <2>1. ASSUME NEW n \in Nat, n % 2 = 0
        PROVE  n \div 2 \in Nat /\ n = 2 * (n \div 2)
        BY <2>1
  <2> QED BY <2>1, RelocAssumption DEF RelocAssumption
<1>3. PICK r \in Nat, o \in {0, 1} : s = 2 * r + o /\ s % 2 = o
  <2>1. ASSUME NEW n \in Nat
        PROVE  n \div 2 \in Nat /\ n % 2 \in {0, 1} /\ n = 2 * (n \div 2) + (n % 2)
        OBVIOUS
  <2> QED BY <1>1, <2>1
<1>4. \A k \in Int : (2 * k) \div 2 = k /\ (2 * k + 1) \div 2 = k
      OBVIOUS
<1>5. CASE s >= SizeOfHeader
  <2>1. Minus(s, SizeOfHeader) = 2 * (r - 4) + o
        BY <1>3, <1>5 DEF Minus, SizeOfHeader
  <2>2. Offsets(s) = r - 4
        BY <1>4, <2>1 DEF Offsets
  <2> QED BY <1>1, <1>3, <1>5, <2>2 DEF SizeOfHeader
<1>6. CASE s < SizeOfHeader
  <2>1. Minus(s, SizeOfHeader) = 2 * (r - 4 + w) + o
        BY <1>2, <1>3, <1>6 DEF Minus, SizeOfHeader
  <2>2. Offsets(s) = r - 4 + w
        BY <1>4, <2>1 DEF Offsets
  <2> QED BY <1>1, <1>2, <1>3, <1>6, <2>2 DEF SizeOfHeader
<1> QED BY <1>1, <1>5, <1>6, <1>3 DEF SizeOfHeader

\* Less than three wraps.
LEMMA ThreeWraps ==
    ASSUME NEW count \in Nat, NEW at \in Nat, NEW n \in Nat, NEW size \in Nat, NEW w \in Nat,
           count < w, at < w, 8 * n <= at
    PROVE  count + at + n < size + 3 * w
<1>1. n <= at
      OBVIOUS
<1> QED BY <1>1

\* Subtraction stays in the counter, and is off by at most one wrap.
LEMMA MinusWraps ==
    ASSUME NEW a \in 0 .. Word - 1, NEW b \in 0 .. Word - 1
    PROVE  /\ Minus(a, b) \in 0 .. Word - 1
           /\ Minus(a, b) = a - b \/ Minus(a, b) = a - b + Word
BY RelocAssumption DEF RelocAssumption, Minus

LEMMA BalancedInit == RelocInit => Balanced
BY RelocAssumption DEF RelocAssumption, RelocInit, Balanced

LEMMA BalancedNext == Balanced /\ [RelocNext]_relocVars => Balanced'
<1> SUFFICES ASSUME Balanced, [RelocNext]_relocVars
             PROVE  Balanced'
    OBVIOUS
<1> USE RelocAssumption DEF RelocAssumption, Balanced
<1>1. ASSUME NEW s \in BlockSizes, Apply(s)
      PROVE  Balanced'
  <2> DEFINE o == s % 2
  <2>1. /\ s \in 0 .. Word - 1 /\ o \in {0, 1} /\ o <= s
        /\ s >= SizeOfHeader => s - o >= SizeOfHeader
        /\ s >= SizeOfHeader => SizeOfHeader + 2 * Offsets(s) = s - o
        /\ s < SizeOfHeader  => SizeOfHeader + 2 * Offsets(s) = s - o + Word
        BY BlockEnd
  <2>2. /\ Minus(TotalCountBytes, s) \in 0 .. Word - 1
        /\ \/ Minus(TotalCountBytes, s) = TotalCountBytes - s
           \/ Minus(TotalCountBytes, s) = TotalCountBytes - s + Word
        BY <2>1, MinusWraps
  <2>3. SizeOfHeader \in Nat /\ Offsets(s) \in Int
        BY <2>1 DEF SizeOfHeader, Offsets, Minus
  <2> DEFINE end == NextBlock + SizeOfHeader + 2 * Offsets(s)
  <2>4. CASE end > Mapped
        BY <1>1, <2>2, <2>4 DEF Apply
  <2>5. CASE ~(end > Mapped)
    <3>1. s >= SizeOfHeader /\ end = NextBlock + s - o
      <4> HIDE DEF o
      <4> QED BY <2>1, <2>3, <2>5
    <3>2. /\ NextBlock' = NextBlock + s - o /\ odd' = odd + o
          /\ TotalCountBytes' = Minus(TotalCountBytes, s)
          /\ status' = IF TotalCountBytes' = 0 THEN "success" ELSE "walking"
          /\ tableSize' = tableSize /\ status = "walking"
          BY <1>1, <2>5, <3>1 DEF Apply
    <3> HIDE DEF o
    <3>3. NextBlock' \in 0 .. Mapped /\ odd' \in Nat /\ 8 * odd' <= NextBlock'
          BY <2>1, <2>5, <3>1, <3>2 DEF SizeOfHeader
    <3>4. \/ TotalCountBytes' + NextBlock' + odd' = TotalCountBytes + NextBlock + odd
          \/ TotalCountBytes' + NextBlock' + odd' = TotalCountBytes + NextBlock + odd + Word
          BY <2>1, <2>2, <3>2
    <3>5. TotalCountBytes' \in 0 .. Word - 1
          BY <2>2, <3>2
    <3>6. TotalCountBytes' + NextBlock' + odd' < tableSize + 3 * Word
      <4>1. tableSize' \in Nat /\ tableSize' = tableSize /\ Word \in Nat
            BY <3>2
      <4>2. NextBlock' \in Nat /\ NextBlock' < Word
            BY <3>3
      <4>3. TotalCountBytes' \in Nat /\ TotalCountBytes' < Word
            BY <3>5
      <4> QED BY <3>3, <4>1, <4>2, <4>3, ThreeWraps
    <3> QED BY <3>2, <3>3, <3>4, <3>5, <3>6
  <2> QED BY <2>4, <2>5
<1>2. ASSUME NEW s \in BlockSizes, Reject(s)
      PROVE  Balanced'
      BY <1>2, BlockEnd, MinusWraps DEF Reject
<1>3. CASE UNCHANGED relocVars
      BY <1>3 DEF relocVars
<1> QED BY <1>1, <1>2, <1>3 DEF RelocNext

\* LdrRelocateImage: success means that the blocks fill the table, but for a byte
\* of each block of odd size.
THEOREM SuccessMeansWholeTableHolds == RelocSpec => []SuccessMeansWholeTable
<1>1. Balanced => SuccessMeansWholeTable
      BY RelocAssumption DEF RelocAssumption, Balanced, SuccessMeansWholeTable
<1> QED BY <1>1, BalancedInit, BalancedNext, PTL DEF RelocSpec

-------------------------------------------------------------------------------
(* The bitmap *)

\* The byte and the bit of a number make the number.
LEMMA ByteAndBit ==
    ASSUME NEW n \in Nat
    PROVE  n \div 8 \in Nat /\ n % 8 \in 0 .. 7 /\ n = 8 * (n \div 8) + (n % 8)
<1>1. n \div 8 \in Nat
    OBVIOUS
<1>2. n % 8 \in 0 .. 7
    OBVIOUS
<1>3. n = 8 * (n \div 8) + (n % 8)
    OBVIOUS
<1> QED BY <1>1, <1>2, <1>3

\* Whole bytes one after another.
LEMMA WholeBytes ==
    ASSUME NEW b \in Nat, NEW w \in Nat
    PROVE  UNION {Bits(b + k, 0 .. 7) : k \in 0 .. w - 1} = 8 * b .. 8 * (b + w) - 1
<1> DEFINE bytes == UNION {Bits(b + k, 0 .. 7) : k \in 0 .. w - 1}
<1>1. ASSUME NEW x \in bytes PROVE x \in 8 * b .. 8 * (b + w) - 1
    <2>1. PICK k \in 0 .. w - 1 : x \in Bits(b + k, 0 .. 7)
        OBVIOUS
    <2>2. PICK i \in 0 .. 7 : x = 8 * (b + k) + i
        BY <2>1 DEF Bits
    <2> QED BY <2>2
<1>2. ASSUME NEW x \in 8 * b .. 8 * (b + w) - 1 PROVE x \in bytes
    <2>1. x \in Nat /\ x \div 8 \in Nat /\ x % 8 \in 0 .. 7 /\ x = 8 * (x \div 8) + (x % 8)
        BY ByteAndBit
    <2>2. PICK k \in 0 .. w - 1 : x \div 8 = b + k
        <3>1. x \div 8 - b \in 0 .. w - 1
            BY <2>1
        <3> QED BY <2>1, <3>1
    <2>3. x \in Bits(b + k, 0 .. 7)
        BY <2>1, <2>2 DEF Bits
    <2> QED BY <2>3
<1> QED BY <1>1, <1>2

\* The bits of a mask of consecutive positions.
LEMMA Consecutive ==
    ASSUME NEW b \in Nat, NEW i \in Nat, NEW j \in Int
    PROVE  Bits(b, i .. j) = 8 * b + i .. 8 * b + j
<1>1. ASSUME NEW x \in 8 * b + i .. 8 * b + j PROVE x \in Bits(b, i .. j)
    <2>1. x - 8 * b \in i .. j /\ x = 8 * b + (x - 8 * b)
        OBVIOUS
    <2> QED BY <2>1 DEF Bits
<1> QED BY <1>1 DEF Bits

\* Whole bytes and the rest are the numbers from the first of a byte on.
LEMMA FromByteOn ==
    ASSUME NEW b \in Nat, NEW m \in Nat \ {0}
    PROVE  FromByte(b, m) = 8 * b .. 8 * b + m - 1
<1>1. PICK w \in Nat : w = IF m > 8 THEN m \div 8 ELSE 0
    BY ByteAndBit
<1>2. m - 8 * w \in Nat
    BY <1>1, ByteAndBit
<1>3. FromByte(b, m) = (UNION {Bits(b + k, 0 .. 7) : k \in 0 .. w - 1})
                          \cup Bits(b + w, FillMask(m - 8 * w))
    BY <1>1 DEF FromByte
<1>4. UNION {Bits(b + k, 0 .. 7) : k \in 0 .. w - 1} = 8 * b .. 8 * (b + w) - 1
    BY WholeBytes
<1>5. Bits(b + w, FillMask(m - 8 * w)) = 8 * (b + w) .. 8 * b + m - 1
    <2>1. b + w \in Nat /\ 0 \in Nat /\ m - 8 * w - 1 \in Int
        BY <1>2
    <2>2. Bits(b + w, 0 .. m - 8 * w - 1) = 8 * (b + w) + 0 .. 8 * (b + w) + (m - 8 * w - 1)
        BY <2>1, Consecutive
    <2> QED BY <2>2, <1>2 DEF FillMask
<1>6. 8 * b <= 8 * (b + w) /\ 8 * (b + w) <= 8 * b + m
    BY <1>2
<1>7. FromByte(b, m) = (8 * b .. 8 * (b + w) - 1) \cup (8 * (b + w) .. 8 * b + m - 1)
    BY <1>3, <1>4, <1>5
<1> QED BY <1>6, <1>7

\* The masks and bytes of a run are its numbers, wherever it begins and ends.
LEMMA RunIsTheNumbers ==
    ASSUME NEW s \in Nat, NEW n \in Nat \ {0}
    PROVE  Run(s, n) = s .. s + n - 1
<1>1. PICK q \in Nat, o \in 0 .. 7 : q = s \div 8 /\ o = s % 8 /\ s = 8 * q + o
    BY ByteAndBit
<1>2. CASE o + n <= 8
    <2>1. {o + i : i \in FillMask(n)} = o .. o + n - 1
        <3>1. ASSUME NEW x \in o .. o + n - 1 PROVE x \in {o + i : i \in FillMask(n)}
            <4>1. x - o \in FillMask(n) /\ x = o + (x - o)
                BY DEF FillMask
            <4> QED BY <4>1
        <3> QED BY <3>1 DEF FillMask
    <2>2. Run(s, n) = Bits(q, o .. o + n - 1)
        BY <1>1, <1>2, <2>1 DEF Run
    <2>3. Bits(q, o .. o + n - 1) = 8 * q + o .. 8 * q + (o + n - 1)
        <3>1. o \in Nat /\ o + n - 1 \in Int
            OBVIOUS
        <3> QED BY <3>1, Consecutive
    <2> QED BY <1>1, <2>2, <2>3
<1>3. CASE o + n > 8 /\ o > 0
    <2>1. n - (8 - o) \in Nat \ {0} /\ o \in Nat /\ 7 \in Int /\ q + 1 \in Nat
        BY <1>3
    <2>2. Run(s, n) = Bits(q, o .. 7) \cup FromByte(q + 1, n - (8 - o))
        <3>1. ~(o + n <= 8) /\ o > 0
            BY <1>3
        <3> QED BY <1>1, <3>1, Zenon DEF Run, ZeroMask
    <2>3. Bits(q, o .. 7) = 8 * q + o .. 8 * q + 7
        BY <2>1, Consecutive
    <2>4. FromByte(q + 1, n - (8 - o)) = 8 * (q + 1) .. 8 * (q + 1) + (n - (8 - o)) - 1
        BY <2>1, FromByteOn
    <2>5. Run(s, n) = (8 * q + o .. 8 * q + 7)
                         \cup (8 * (q + 1) .. 8 * (q + 1) + (n - (8 - o)) - 1)
        BY <2>2, <2>3, <2>4
    <2>6. /\ 8 * q + o = s
          /\ 8 * (q + 1) = 8 * q + 7 + 1
          /\ 8 * (q + 1) + (n - (8 - o)) - 1 = s + n - 1
        BY <1>1
    <2>7. Run(s, n) = (s .. 8 * q + 7) \cup (8 * q + 7 + 1 .. s + n - 1)
        BY <2>5, <2>6
    <2>8. s <= 8 * q + 7 /\ 8 * q + 7 <= s + n - 1
        BY <1>1, <1>3
    <2> QED BY <2>7, <2>8
<1>4. CASE o + n > 8 /\ o = 0
    <2>1. Run(s, n) = FromByte(q, n)
        BY <1>1, <1>4 DEF Run
    <2>2. FromByte(q, n) = 8 * q .. 8 * q + n - 1
        BY FromByteOn
    <2> QED BY <1>1, <1>4, <2>1, <2>2
<1> QED BY <1>2, <1>3, <1>4

\* Each run that is out lies in the bitmap.
Inside == \A r \in owned : /\ r[1] \in Nat /\ r[2] \in Nat \ {0}
                           /\ r[1] + r[2] <= SizeOfBitMap
                           /\ r = <<r[1], r[2]>>

\* What a run takes and gives back are its numbers.
LEMMA OneRun ==
    ASSUME NEW s \in Nat, NEW n \in Nat \ {0}
    PROVE  /\ Run(s, n) = Numbers(<<s, n>>)
           /\ Bits(s \div 8, {s % 8}) = Numbers(<<s, 1>>)
<1>1. Run(s, n) = Numbers(<<s, n>>)
    BY RunIsTheNumbers DEF Numbers
<1>2. Bits(s \div 8, {s % 8}) = {s}
    <2>1. Bits(s \div 8, {s % 8}) = {8 * (s \div 8) + (s % 8)}
        BY DEF Bits
    <2> QED BY <2>1, ByteAndBit
<1>3. Numbers(<<s, 1>>) = {s}
    BY DEF Numbers
<1> QED BY <1>1, <1>2, <1>3

\* Taking a run of numbers that nobody has keeps the invariant.
LEMMA Taken ==
    ASSUME Inside, BitsAreTheNumbersOut,
           NEW s \in Nat, NEW n \in Nat \ {0}, s + n <= SizeOfBitMap,
           Numbers(<<s, n>>) \cap Buffer = {},
           Buffer' = Buffer \cup Numbers(<<s, n>>), owned' = owned \cup {<<s, n>>}
    PROVE  Inside' /\ BitsAreTheNumbersOut'
<1>1. Inside'
    BY DEF Inside
<1>2. \A r \in owned : Numbers(r) \subseteq Buffer
    BY DEF BitsAreTheNumbersOut
<1>3. Buffer' = UNION {Numbers(r) : r \in owned'}
    BY DEF BitsAreTheNumbersOut
<1>4. \A q, r \in owned' : q # r => Numbers(q) \cap Numbers(r) = {}
    BY <1>2 DEF BitsAreTheNumbersOut
<1>5. Numbers(<<s, n>>) \subseteq 0 .. SizeOfBitMap - 1
    BY BitmapAssumption DEF BitmapAssumption, Numbers
<1> QED BY <1>1, <1>3, <1>4, <1>5 DEF BitsAreTheNumbersOut

\* Giving a run back keeps the invariant.
LEMMA Returned ==
    ASSUME Inside, BitsAreTheNumbersOut, NEW r \in owned,
           Buffer' = Buffer \ Numbers(r), owned' = owned \ {r}
    PROVE  Inside' /\ BitsAreTheNumbersOut'
<1>1. Inside'
    BY DEF Inside
<1>2. Buffer' = UNION {Numbers(q) : q \in owned'}
    <2>1. \A q \in owned' : Numbers(q) \cap Numbers(r) = {}
        BY DEF BitsAreTheNumbersOut
    <2> QED BY <2>1 DEF BitsAreTheNumbersOut
<1> QED BY <1>1, <1>2 DEF BitsAreTheNumbersOut

\* No number has two owners, and the bits that are set are those of the numbers
\* that are out, for every size of the bitmap and of the runs.
THEOREM BitsAreTheNumbersOutHolds == BitmapSpec => []BitsAreTheNumbersOut
<1>1. BitmapInit => Inside /\ BitsAreTheNumbersOut
    BY DEF BitmapInit, Inside, BitsAreTheNumbersOut
<1>2. Inside /\ BitsAreTheNumbersOut /\ [BitmapNext]_bitmapVars
         => Inside' /\ BitsAreTheNumbersOut'
    <2> SUFFICES ASSUME Inside, BitsAreTheNumbersOut, [BitmapNext]_bitmapVars
                 PROVE  Inside' /\ BitsAreTheNumbersOut'
        OBVIOUS
    <2>1. ASSUME NEW n \in NumbersToFind, RtlFindClearBitsAndSet(n)
          PROVE  Inside' /\ BitsAreTheNumbersOut'
        <3>1. n \in Nat \ {0} /\ SizeOfBitMap \in Nat
            BY BitmapAssumption DEF BitmapAssumption
        <3>2. PICK s \in 0 .. SizeOfBitMap - n :
                 /\ Numbers(<<s, n>>) \cap Buffer = {}
                 /\ Buffer' = RtlSetBits(Buffer, s, n)
                 /\ owned' = owned \cup {<<s, n>>}
            BY <2>1 DEF RtlFindClearBitsAndSet
        <3>3. s \in Nat /\ s + n <= SizeOfBitMap
            BY <3>1
        <3>4. Buffer' = Buffer \cup Numbers(<<s, n>>)
            BY <3>1, <3>2, <3>3, OneRun DEF RtlSetBits
        <3> QED BY <3>1, <3>2, <3>3, <3>4, Taken
    <2>2. ASSUME NEW s \in 0 .. SizeOfBitMap - 1, TakeOne(s)
          PROVE  Inside' /\ BitsAreTheNumbersOut'
        <3>1. s \in Nat /\ s + 1 <= SizeOfBitMap
            BY BitmapAssumption DEF BitmapAssumption
        <3>2. Numbers(<<s, 1>>) = {s}
            BY <3>1 DEF Numbers
        <3>3. Buffer' = Buffer \cup Numbers(<<s, 1>>)
            BY <2>2, <3>1, OneRun DEF TakeOne, RtlSetBit
        <3>4. Numbers(<<s, 1>>) \cap Buffer = {} /\ owned' = owned \cup {<<s, 1>>}
            BY <2>2, <3>2 DEF TakeOne
        <3> QED BY <3>1, <3>3, <3>4, Taken
    <2>3. ASSUME NEW r \in owned, GiveBack(r) \/ GiveBackOne(r)
          PROVE  Inside' /\ BitsAreTheNumbersOut'
        <3>1. r[1] \in Nat /\ r[2] \in Nat \ {0} /\ r = <<r[1], r[2]>>
            BY DEF Inside
        <3>2. Buffer' = Buffer \ Numbers(r) /\ owned' = owned \ {r}
            BY <2>3, <3>1, OneRun DEF GiveBack, GiveBackOne, RtlClearBits, RtlClearBit
        <3> QED BY <3>2, Returned
    <2>4. CASE UNCHANGED bitmapVars
        BY <2>4 DEF bitmapVars, Inside, BitsAreTheNumbersOut
    <2> QED BY <2>1, <2>2, <2>3, <2>4 DEF BitmapNext
<1> QED BY <1>1, <1>2, PTL DEF BitmapSpec

-------------------------------------------------------------------------------
(* call_once_context *)

Winner(t) == pc[t] \in {"entering", "running", "reentered", "finishing"}

\* The flag says Loading exactly while one thread is between its two
\* exchanges, and the counts follow that thread.
OnceInv ==
    /\ TypeOK
    /\ (flag = OnceLoading) <=> (\E t \in Thread : Winner(t))
    /\ \A t, u \in Thread : Winner(t) /\ Winner(u) => t = u
    /\ flag = OnceInit => started = 0 /\ finished = 0
    /\ \A t \in Thread :
         /\ pc[t] = "entering" => started = 0 /\ finished = 0
         /\ pc[t] \in {"running", "reentered"} => started = 1 /\ finished = 0 /\ func[t] # NullFunc
         /\ pc[t] = "finishing" => started <= 1 /\ finished = started
         /\ pc[t] = "spinning" => flag # OnceInit
    /\ flag = OnceFinished => started <= 1 /\ finished = started
    /\ ReturnedAfterRun

\* OnceInv holds before the first call.
LEMMA OnceInvInit == Init => OnceInv
  BY DEF Init, OnceInv, TypeOK, Winner, ReturnedAfterRun, OnceInit, OnceLoading, OnceFinished

\* OnceInv is kept by every step.
LEMMA OnceInvStep == OnceInv /\ [Next]_vars => OnceInv'
<1> SUFFICES ASSUME OnceInv, [Next]_vars PROVE OnceInv'
  OBVIOUS
<1> USE DEF OnceInv, TypeOK, Winner, ReturnedAfterRun, OnceInit, OnceLoading, OnceFinished
<1>1. CASE UNCHANGED vars
  BY <1>1 DEF vars
<1>2. ASSUME NEW t \in Thread, NEW f \in Func \cup {NullFunc}, Call(t, f) PROVE OnceInv'
  <2>1. CASE flag = OnceInit
    BY <1>2, <2>1 DEF Call, CanCall
  <2>2. CASE flag = OnceLoading
    BY <1>2, <2>2 DEF Call, CanCall
  <2>3. CASE flag = OnceFinished
    BY <1>2, <2>3 DEF Call, CanCall
  <2> QED BY <2>1, <2>2, <2>3
<1>3. ASSUME NEW t \in Thread, Enter(t) PROVE OnceInv'
  <2>1. flag = OnceLoading /\ pc[t] = "entering" /\ started = 0 /\ finished = 0
    BY <1>3 DEF Enter
  <2>2. \A u \in Thread \ {t} : ~Winner(u) /\ pc[u] # "returned"
    BY <2>1
  <2>3. CASE func[t] # NullFunc
    BY <1>3, <2>1, <2>2, <2>3 DEF Enter
  <2>4. CASE func[t] = NullFunc
    BY <1>3, <2>1, <2>2, <2>4 DEF Enter
  <2> QED BY <2>3, <2>4
<1>4. ASSUME NEW t \in Thread, FuncReturns(t) PROVE OnceInv'
  <2>1. flag = OnceLoading /\ pc[t] = "running" /\ started = 1 /\ finished = 0
    BY <1>4 DEF FuncReturns
  <2>2. \A u \in Thread \ {t} : ~Winner(u) /\ pc[u] # "returned"
    BY <2>1
  <2> QED BY <1>4, <2>1, <2>2 DEF FuncReturns
<1>7. ASSUME NEW t \in Thread, Reenter(t) PROVE OnceInv'
  <2>1. flag = OnceLoading /\ pc[t] = "running" /\ started = 1 /\ finished = 0
    BY <1>7 DEF Reenter
  <2>2. \A u \in Thread \ {t} : ~Winner(u) /\ pc[u] # "returned"
    BY <2>1
  <2> QED BY <1>7, <2>1, <2>2 DEF Reenter
<1>5. ASSUME NEW t \in Thread, Finish(t) PROVE OnceInv'
  BY <1>5 DEF Finish
<1>6. ASSUME NEW t \in Thread, Spin(t) PROVE OnceInv'
  BY <1>6 DEF Spin
<1> QED
  BY <1>1, <1>2, <1>3, <1>4, <1>5, <1>6, <1>7 DEF Next, Step

\* Every variable keeps its type.
THEOREM CallOnceTypeCorrect == Spec => []TypeOK
<1>1. OnceInv => TypeOK
  BY DEF OnceInv
<1> QED BY <1>1, OnceInvInit, OnceInvStep, PTL DEF Spec

\* The function runs at most once for a flag (the compare-exchange picks one
\* thread, and the flag never goes back to OnceInit).
THEOREM RunsOnceHolds == Spec => []RunsOnce
<1>1. OnceInv => RunsOnce
  <2> SUFFICES ASSUME OnceInv PROVE started <= 1
    BY DEF RunsOnce
  <2>1. CASE flag = OnceInit
    BY <2>1 DEF OnceInv, TypeOK
  <2>2. CASE flag = OnceLoading
    BY <2>2 DEF OnceInv, TypeOK, Winner
  <2>3. CASE flag = OnceFinished
    BY <2>3 DEF OnceInv, TypeOK
  <2> QED BY <2>1, <2>2, <2>3 DEF OnceInv, TypeOK
<1> QED BY <1>1, OnceInvInit, OnceInvStep, PTL DEF Spec

\* No call of call_once_context returns before the function has finished.
THEOREM ReturnedAfterRunHolds == Spec => []ReturnedAfterRun
<1>1. OnceInv => ReturnedAfterRun
  BY DEF OnceInv
<1> QED BY <1>1, OnceInvInit, OnceInvStep, PTL DEF Spec

-------------------------------------------------------------------------------
(* The export generator *)

GenTypes ==
    /\ lists \in Seq(Seq(TypeSizes)) /\ functions \in Seq(Seq(TypeSizes))
    /\ Len(functions) = Len(lists)
    /\ toAdd \in Seq(TypeSizes)
    /\ block \in [number : Nat, capacity : Nat]
    /\ \E S : rows \in Seq(S)

\* A declaration has a result, and no argument is void.
Declared ==
    \A i \in DOMAIN lists :
       lists[i] # <<>> /\ \A k \in DOMAIN lists[i] : k > 1 => lists[i][k] # 0

\* The elements are what was declared; what the last one lacks is still to be
\* added, and the address it is added at is that element's, where it now is.
SoFar ==
    /\ \A i \in DOMAIN lists : i < Len(lists) => functions[i] = lists[i]
    /\ lists = <<>> => toAdd = <<>>
    /\ lists # <<>> => /\ functions[Len(lists)] \o toAdd = lists[Len(lists)]
                       /\ info = <<block.number, Len(lists)>>

RowsLast ==
    /\ rows # <<>> => toAdd = <<>>
    /\ Len(rows) <= Len(lists)

GenInv == GenTypes /\ Declared /\ SoFar /\ RowsLast /\ RowsAreComplete

LEMMA GenInvInit == GenInit => GenInv
BY DEF GenInit, GenInv, GenTypes, Declared, SoFar, RowsLast, RowsAreComplete

LEMMA Lengths ==
    ASSUME GenTypes
    PROVE  /\ Len(lists) \in Nat /\ Len(rows) \in Nat
           /\ DOMAIN lists = 1 .. Len(lists) /\ DOMAIN functions = 1 .. Len(lists)
           /\ DOMAIN rows = 1 .. Len(rows)
           /\ lists = <<>> <=> Len(lists) = 0
           /\ rows = <<>> <=> Len(rows) = 0
BY DEF GenTypes

\* When nothing is left to be added every element is complete.
LEMMA AllThere ==
    ASSUME GenTypes, SoFar, toAdd = <<>>
    PROVE  \A i \in 1 .. Len(lists) : functions[i] = lists[i]
<1> SUFFICES ASSUME NEW i \in 1 .. Len(lists) PROVE functions[i] = lists[i]
    OBVIOUS
<1>0. Len(lists) \in Nat
      BY Lengths
<1>1. CASE i < Len(lists)
      BY <1>1, Lengths DEF SoFar
<1>2. CASE i = Len(lists)
  <2>1. i \in DOMAIN functions /\ lists # <<>>
        BY <1>2, Lengths
  <2>2. functions[i] \in Seq(TypeSizes)
        BY <2>1 DEF GenTypes
  <2>3. functions[i] \o <<>> = functions[i]
        BY <2>2
  <2> QED BY <1>2, <2>1, <2>3 DEF SoFar
<1>3. i \in 1 .. Len(lists)
      OBVIOUS
<1> QED BY <1>0, <1>1, <1>2, <1>3

\* A type moved from what is to be added to what has been added.
LEMMA MovedOver ==
    ASSUME NEW S, NEW s \in Seq(S), NEW rest \in Seq(S), rest # <<>>
    PROVE  Append(s, Head(rest)) \o Tail(rest) = s \o rest
<1>1. Append(s, Head(rest)) \in Seq(S) /\ Tail(rest) \in Seq(S)
      OBVIOUS
<1>2. /\ Len(Append(s, Head(rest)) \o Tail(rest)) = Len(s) + Len(rest)
      /\ Len(s \o rest) = Len(s) + Len(rest)
      BY <1>1
<1>3. ASSUME NEW k \in 1 .. Len(s) + Len(rest)
      PROVE  (Append(s, Head(rest)) \o Tail(rest))[k] = (s \o rest)[k]
      BY <1>1
<1> QED BY <1>1, <1>2, <1>3

LEMMA GenInvNext == GenInv /\ [GenNext]_genVars => GenInv'
<1> SUFFICES ASSUME GenInv, [GenNext]_genVars PROVE GenInv'
    OBVIOUS
<1> USE ExportGenAssumption DEF ExportGenAssumption
<1>1. CASE UNCHANGED genVars
      BY <1>1 DEF genVars, GenInv, GenTypes, Declared, SoFar, RowsLast, RowsAreComplete, StackBytes
<1>2. ASSUME DefineThunk PROVE GenInv'
  <2>1. PICK n \in 0 .. MaxArguments, result \in TypeSizes :
           \E arguments \in [1 .. n -> TypeSizes \ {0}] :
              function_info_alloca(<<result>> \o arguments)
        BY <1>2 DEF DefineThunk
  <2>2. PICK arguments \in [1 .. n -> TypeSizes \ {0}] :
              function_info_alloca(<<result>> \o arguments)
        BY <2>1
  <2> DEFINE types == <<result>> \o arguments
  <2>3. /\ types \in Seq(TypeSizes) /\ types # <<>>
        /\ \A k \in DOMAIN types : k > 1 => types[k] # 0
    <3>1. arguments \in Seq(TypeSizes) /\ Len(arguments) = n
          BY SMT
    <3>2. types \in Seq(TypeSizes) /\ Len(types) = n + 1
          BY <3>1
    <3>3. \A k \in 2 .. n + 1 : types[k] = arguments[k - 1]
          BY <3>1
    <3> QED BY <3>2, <3>3
  <2> HIDE DEF types
  <2>4. PICK b \in PushBack :
           /\ block' = b
           /\ functions' = Append(functions, <<>>)
           /\ info' = <<b.number, Len(functions) + 1>>
           /\ lists' = Append(lists, types)
           /\ toAdd' = types
        BY <2>2 DEF function_info_alloca, types
  <2>5. block' \in [number : Nat, capacity : Nat]
        BY <2>4 DEF PushBack, GenInv, GenTypes
  <2>6. /\ rows = <<>> /\ rows' = <<>> /\ toAdd = <<>>
        /\ exported' = exported /\ warned' = warned
        BY <1>2 DEF DefineThunk
  <2>7. /\ lists' \in Seq(Seq(TypeSizes)) /\ functions' \in Seq(Seq(TypeSizes))
        /\ Len(lists') = Len(lists) + 1 /\ Len(functions') = Len(lists) + 1
        /\ lists'[Len(lists) + 1] = types /\ functions'[Len(lists) + 1] = <<>>
        /\ \A i \in 1 .. Len(lists) : lists'[i] = lists[i] /\ functions'[i] = functions[i]
        BY <2>3, <2>4 DEF GenInv, GenTypes
  <2>8. \A i \in 1 .. Len(lists) : functions[i] = lists[i]
    BY <2>6, AllThere DEF GenInv
  <2>9. <<>> \o types = types
        BY <2>3
  <2>10. RowsAreComplete'
        BY <2>6 DEF GenInv, RowsAreComplete
  <2>11. \A i \in DOMAIN lists' : 
             lists'[i] # <<>> /\ \A k \in DOMAIN lists'[i] : k > 1 => lists'[i][k] # 0
    <3>1. DOMAIN lists' = 1 .. Len(lists) + 1
          BY <2>7
    <3>2. GenTypes /\ Declared
          BY DEF GenInv
    <3>3. Len(lists) \in Nat /\ DOMAIN lists = 1 .. Len(lists)
          BY <3>2, Lengths
    <3> SUFFICES ASSUME NEW j \in 1 .. Len(lists) + 1
                 PROVE  lists'[j] # <<>> /\ \A k \in DOMAIN lists'[j] : k > 1 => lists'[j][k] # 0
        BY <3>1
    <3>4. CASE j = Len(lists) + 1
          BY <2>3, <2>7, <3>4
    <3>5. CASE j # Len(lists) + 1
      <4>1. j \in DOMAIN lists
            BY <3>3, <3>5
      <4> QED BY <2>7, <3>2, <3>3, <4>1 DEF Declared
    <3> QED BY <3>4, <3>5
  <2>12. GenTypes'
        BY <2>3, <2>4, <2>5, <2>6, <2>7 DEF GenInv, GenTypes
  <2>13. Declared'
        BY <2>11 DEF Declared
  <2>14. SoFar'
    <3>1. DOMAIN lists' = 1 .. Len(lists) + 1 /\ lists' # <<>>
          BY <2>7
    <3>2. Len(lists) \in Nat /\ Len(functions) = Len(lists)
          BY Lengths DEF GenInv, GenTypes
    <3>3. \A j \in DOMAIN lists' : j < Len(lists') => functions'[j] = lists'[j]
      <4> SUFFICES ASSUME NEW j \in 1 .. Len(lists) + 1, j < Len(lists) + 1
                   PROVE  functions'[j] = lists'[j]
          BY <2>7, <3>1
      <4>1. j \in 1 .. Len(lists)
            BY <3>2
      <4> QED BY <2>7, <2>8, <4>1
    <3>4. functions'[Len(lists')] \o toAdd' = lists'[Len(lists')]
          BY <2>4, <2>7, <2>9
    <3>5. info' = <<block'.number, Len(lists')>>
          BY <2>4, <2>7, <3>2
    <3> QED BY <3>1, <3>3, <3>4, <3>5 DEF SoFar
  <2>15. RowsLast'
        BY <2>6, <2>7, Len(lists) \in Nat DEF GenInv, GenTypes, RowsLast
  <2> QED BY <2>10, <2>12, <2>13, <2>14, <2>15 DEF GenInv
<1>3. ASSUME function_info_add_parameter PROVE GenInv'
  <2> DEFINE n    == Len(lists)
             last == functions[n]
  <2>1. /\ n \in Nat /\ n > 0 /\ info = <<block.number, n>> /\ toAdd # <<>>
        /\ rows = <<>> /\ rows' = <<>> /\ exported' = exported /\ warned' = warned
        /\ lists' = lists /\ block' = block /\ info' = info
        /\ functions' = [functions EXCEPT ![n] = Append(last, Head(toAdd))]
        /\ toAdd' = Tail(toAdd)
    <3>1. GenTypes /\ SoFar /\ RowsLast
          BY DEF GenInv
    <3>2. /\ n \in Nat /\ (lists = <<>> <=> n = 0)
          BY <3>1, Lengths
    <3>3. toAdd # <<>> /\ lists # <<>> /\ info = <<block.number, n>>
          BY <1>3, <3>1 DEF function_info_add_parameter, SoFar
    <3>4. info[1] = block.number /\ info[2] = n
          BY <3>3
    <3> QED BY <1>3, <3>1, <3>2, <3>3, <3>4 DEF function_info_add_parameter, RowsLast
  <2>2. last \in Seq(TypeSizes) /\ Head(toAdd) \in TypeSizes /\ Tail(toAdd) \in Seq(TypeSizes)
        BY <2>1 DEF GenInv, GenTypes
  <2>3. Append(last, Head(toAdd)) \o Tail(toAdd) = last \o toAdd
        BY <2>1, <2>2, MovedOver DEF GenInv, GenTypes
  <2>4. /\ functions' \in Seq(Seq(TypeSizes)) /\ Len(functions') = n
        /\ functions'[n] = Append(last, Head(toAdd))
        /\ \A i \in 1 .. n : i < n => functions'[i] = functions[i]
        BY SMTT(30), <2>1, <2>2 DEF GenInv, GenTypes
  <2>5. RowsAreComplete'
        BY <2>1, <2>4 DEF GenInv, RowsAreComplete
  <2>6. functions[n] \o toAdd = lists[n]
        BY <2>1 DEF GenInv, SoFar
  <2>7. GenTypes'
        BY <2>1, <2>2, <2>4 DEF GenInv, GenTypes
  <2>8. Declared'
        BY <2>1 DEF GenInv, Declared
  <2>9. SoFar'
        BY <2>1, <2>3, <2>4, <2>6, Lengths DEF GenInv, SoFar, last
  <2>10. RowsLast'
        BY <2>1 DEF GenInv, RowsLast
  <2> QED BY <2>5, <2>7, <2>8, <2>9, <2>10 DEF GenInv
<1>4. ASSUME WriteFunction PROVE GenInv'
  <2> DEFINE i    == Len(rows) + 1
             Args == IF functions[i] = <<>> THEN <<>> ELSE Tail(functions[i])
             total_size == Sum([k \in DOMAIN Args |-> IF Args[k] <= 4 THEN 4 ELSE Args[k]])
             bad  == \E k \in DOMAIN Args : Args[k] > 4 /\ Args[k] % 4 # 0
  <2>1. /\ lists # <<>> /\ toAdd = <<>> /\ i <= Len(lists) /\ i \in Nat \ {0}
        /\ rows' = Append(rows, <<i, total_size>>)
        /\ exported' = Append(exported, i)
        /\ warned' = IF bad THEN warned \cup {i} ELSE warned
        /\ UNCHANGED <<lists, functions, block, info, toAdd>>
    <3>1. Len(functions) = Len(lists) /\ Len(lists) \in Nat /\ Len(rows) \in Nat
          BY Lengths DEF GenInv, GenTypes
    <3> QED BY <1>4, <3>1 DEF WriteFunction
  <2>2. functions[i] = lists[i] /\ lists[i] \in Seq(TypeSizes) /\ lists[i] # <<>>
    <3>1. i \in 1 .. Len(lists) /\ i \in DOMAIN lists
          BY <2>1 DEF GenInv, GenTypes
    <3>2. functions[i] = lists[i]
          BY <2>1, <3>1, AllThere DEF GenInv
    <3> QED BY <3>1, <3>2 DEF GenInv, GenTypes, Declared
  <2>3. Args = Tail(lists[i]) /\ Args \in Seq(TypeSizes)
        BY <2>2
  <2>4. \A k \in DOMAIN Args : Args[k] \in Nat /\ Args[k] # 0
    <3>1. \A k \in DOMAIN Args : Args[k] = lists[i][k + 1] /\ k + 1 \in DOMAIN lists[i] /\ k + 1 > 1
          BY <2>2, <2>3
    <3>2. \A j \in DOMAIN lists[i] : j > 1 => lists[i][j] # 0
          BY <2>1, i \in DOMAIN lists DEF GenInv, GenTypes, Declared
    <3>3. \A k \in DOMAIN Args : Args[k] \in TypeSizes
          BY <2>3
    <3> HIDE DEF Args
    <3> QED BY <3>1, <3>2, <3>3
  <2> HIDE DEF Args
  <2>5. bad \/ total_size = StackBytes(lists[i])
    <3>1. ASSUME ~bad, NEW k \in DOMAIN Args
          PROVE  (IF Args[k] <= 4 THEN 4 ELSE Args[k]) = 4 * ((Args[k] + 3) \div 4)
          BY <2>4, <3>1
    <3>2. ASSUME ~bad
          PROVE  [k \in DOMAIN Args |-> IF Args[k] <= 4 THEN 4 ELSE Args[k]]
                    = [k \in DOMAIN Args |-> 4 * ((Args[k] + 3) \div 4)]
          BY <3>1, <3>2
    <3> HIDE DEF bad
    <3> QED BY <2>3, <3>2 DEF StackBytes
  <2> HIDE DEF bad, total_size, i
  <2>6. PICK S : rows \in Seq(S)
        BY DEF GenInv, GenTypes
  <2>7. rows \in Seq(S \cup {<<i, total_size>>})
        BY <2>6
  <2>8. /\ rows' \in Seq(S \cup {<<i, total_size>>}) /\ Len(rows') = i
        /\ rows'[i] = <<i, total_size>>
        /\ \A j \in DOMAIN rows : rows'[j] = rows[j]
        /\ DOMAIN rows' = 1 .. i /\ DOMAIN rows = 1 .. i - 1
        BY <2>1, <2>7 DEF i
  <2>9. exported' = [j \in DOMAIN rows' |-> j]
    <3>1. exported = [j \in 1 .. i - 1 |-> j] /\ exported \in Seq(Nat) /\ Len(exported) = i - 1
          BY <2>1, <2>8 DEF GenInv, RowsAreComplete
    <3> QED BY <2>1, <2>8, <3>1
  <2>10. ASSUME NEW j \in DOMAIN rows'
        PROVE  rows'[j][1] = j /\ (rows'[j][2] = StackBytes(lists'[j]) \/ j \in warned')
    <3>1. CASE j = i
          BY <2>1, <2>5, <2>8, <3>1
    <3>2. CASE j # i
          BY <2>1, <2>8, <3>2 DEF GenInv, RowsAreComplete
    <3> QED BY <3>1, <3>2
  <2>11. RowsAreComplete'
        BY <2>1, <2>9, <2>10 DEF RowsAreComplete, GenInv, GenTypes
  <2>12. GenTypes' /\ Declared' /\ SoFar'
        BY <2>1, <2>8 DEF GenInv, GenTypes, Declared, SoFar
  <2>13. RowsLast'
        BY <2>1, <2>8 DEF RowsLast
  <2> QED BY <2>11, <2>12, <2>13 DEF GenInv
<1> QED BY <1>1, <1>2, <1>3, <1>4 DEF GenNext

\* However many functions there are, whatever their types and however the
\* vector moves its elements as it grows, the rows are those of the functions
\* declared, with the bytes of their arguments.
THEOREM RowsAreCompleteHolds == GenSpec => []RowsAreComplete
<1>1. GenInv => RowsAreComplete
  BY DEF GenInv
<1> QED BY <1>1, GenInvInit, GenInvNext, PTL DEF GenSpec

-------------------------------------------------------------------------------
(* The loader's indexes: the hash of a name *)

\* What a hash is from letter to letter.
LEMMA HashByLetter ==
    ASSUME NEW s \in Seq(Nat), NEW a \in Int, NEW b \in Int
    PROVE  \E x \in [0 .. Len(s) -> 0 .. 31] :
              /\ Hash(s, a, b) = x[Len(s)] /\ x[0] = 0
              /\ \A n \in 1 .. Len(s) : x[n] = (a * x[n - 1] + b * s[n]) % 32
<1> DEFINE S == 0 .. Len(s)
           V == 0 .. 31
           next(p, c) == (a * p + b * c) % 32
           body(f, n) == IF n = 0 THEN 0 ELSE next(f[n - 1], s[n])
           F == [n \in S |-> [f \in [S -> V] |-> body(f, n)]]
           m == [n \in S |-> n]
           sofar == CHOOSE f : f = [n \in S |-> body(f, n)]
<1>0. Len(s) \in Nat /\ \A n \in S : n # 0 => n - 1 \in S /\ s[n] \in Nat
      OBVIOUS
<1>13. ASSUME NEW p \in V, NEW c \in Nat PROVE next(p, c) \in V
  <2>1. \A i \in Int : i % 32 \in 0 .. 31
        OBVIOUS
  <2>2. a * p \in Int /\ b * c \in Int
        OBVIOUS
  <2> DEFINE i == a * p + b * c
  <2>3. i \in Int
        BY <2>2
  <2> HIDE DEF i
  <2>4. i % 32 \in 0 .. 31
        BY <2>1, <2>3
  <2> QED BY <2>4 DEF i
<1> HIDE DEF next
<1>1. Recursive(S, V, m, F)
  <2>1. V # {} /\ m \in [S -> Nat]
        BY <1>0
  <2>2. ASSUME NEW n \in S, NEW f \in [S -> V] PROVE F[n][f] \in V
    <3>1. CASE n = 0
          BY <3>1
    <3>2. CASE n # 0
      <4>1. f[n - 1] \in V /\ s[n] \in Nat
            BY <1>0, <3>2
      <4> QED BY <1>13, <3>2, <4>1
    <3> QED BY <3>1, <3>2
  <2>3. ASSUME NEW n \in S, NEW f \in [S -> V], NEW g \in [S -> V],
               \A y \in S : m[y] < m[n] => f[y] = g[y]
        PROVE  F[n][f] = F[n][g]
    <3>1. n # 0 => f[n - 1] = g[n - 1]
          BY <1>0, <2>3
    <3> QED BY <3>1
  <2> HIDE DEF S, V, m, F
  <2> QED BY <2>1, <2>2, <2>3 DEF Recursive
<1> HIDE DEF body
<1>2. PICK g \in [S -> V] : \A n \in S : g[n] = F[n][g]
  <2> HIDE DEF S, V, m, F
  <2> QED BY <1>1, RecursionDefines
<1>3. g = [n \in S |-> body(g, n)]
      BY <1>2
<1> HIDE DEF S, V, F, m
<1>4. sofar = [n \in S |-> body(sofar, n)]
      BY <1>3
<1> HIDE DEF sofar
<1>5. \A n \in S : sofar[n] = body(sofar, n)
      BY <1>4
<1> DEFINE T == {n \in Nat : n \in S => sofar[n] \in V}
<1>6. 0 \in T
      BY <1>5 DEF body, V
<1>7. ASSUME NEW n \in Nat, n \in T PROVE n + 1 \in T
  <2>1. SUFFICES ASSUME n + 1 \in S PROVE sofar[n + 1] \in V
        OBVIOUS
  <2>2. n \in S /\ sofar[n] \in V /\ s[n + 1] \in Nat
        BY <1>0, <1>7, <2>1 DEF S
  <2>3. n + 1 # 0 /\ (n + 1) - 1 = n
        OBVIOUS
  <2>4. sofar[n + 1] = next(sofar[n], s[n + 1])
        BY <1>5, <2>1, <2>3 DEF body
  <2> QED BY <1>13, <2>2, <2>4
<1> HIDE DEF T
<1>8. Nat \subseteq T
      BY <1>6, <1>7, StepInduction
<1>9. sofar \in [S -> V]
      BY <1>4, <1>8 DEF T, S
<1>10. Hash(s, a, b) = sofar[Len(s)]
      BY DEF Hash, sofar, body, S, next
<1>11. ASSUME NEW n \in 1 .. Len(s)
       PROVE  sofar[n] = next(sofar[n - 1], s[n])
      BY <1>0, <1>5 DEF body, S
<1>12. sofar[0] = 0
      BY <1>0, <1>5 DEF body, S
<1> QED BY <1>9, <1>10, <1>11, <1>12 DEF S, V, next

\* Multipliers that are the same modulo 32 make the same hash.
LEMMA SameHash ==
    ASSUME NEW s \in Seq(Nat), NEW a \in Int, NEW b \in Int, NEW c \in Int, NEW d \in Int
    PROVE  (\A i, j \in Int : (a * i + b * j) % 32 = (c * i + d * j) % 32)
              => Hash(s, a, b) = Hash(s, c, d) /\ Hash(s, a, b) \in 0 .. 31
<1> DEFINE P(i, j) == (a * i + b * j) % 32
           Q(i, j) == (c * i + d * j) % 32
<1>0. Len(s) \in Nat
      OBVIOUS
<1>1. PICK x \in [0 .. Len(s) -> 0 .. 31] :
              /\ Hash(s, a, b) = x[Len(s)] /\ x[0] = 0
              /\ \A n \in 1 .. Len(s) : x[n] = P(x[n - 1], s[n])
      BY HashByLetter
<1>2. PICK y \in [0 .. Len(s) -> 0 .. 31] :
              /\ Hash(s, c, d) = y[Len(s)] /\ y[0] = 0
              /\ \A n \in 1 .. Len(s) : y[n] = Q(y[n - 1], s[n])
      BY HashByLetter
<1> HIDE DEF P, Q
<1>3. ASSUME \A i, j \in Int : P(i, j) = Q(i, j)
      PROVE  x[Len(s)] = y[Len(s)]
  <2> DEFINE T == {n \in Nat : n <= Len(s) => x[n] = y[n]}
  <2>1. 0 \in T
        BY <1>1, <1>2
  <2>2. ASSUME NEW n \in Nat, n \in T PROVE n + 1 \in T
    <3>1. SUFFICES ASSUME n + 1 <= Len(s) PROVE x[n + 1] = y[n + 1]
          OBVIOUS
    <3>2. /\ n <= Len(s) /\ n \in 0 .. Len(s) /\ n + 1 \in 1 .. Len(s)
          /\ (n + 1) - 1 = n
          BY <1>0, <3>1
    <3>3. x[n] = y[n] /\ x[n] \in Int /\ s[n + 1] \in Int
      <4>1. x[n] = y[n]
            BY <2>2, <3>2
      <4>2. x[n] \in 0 .. 31
            BY <3>2
      <4>3. s[n + 1] \in Nat
            BY <3>2
      <4>4. \A i \in 0 .. 31 : i \in Int
            OBVIOUS
      <4>5. \A i \in Nat : i \in Int
            OBVIOUS
      <4> QED BY <4>1, <4>2, <4>3, <4>4, <4>5, Zenon
    <3>4. x[n + 1] = P(x[n], s[n + 1]) /\ y[n + 1] = Q(y[n], s[n + 1])
          BY <1>1, <1>2, <3>2
    <3> QED BY <1>3, <3>3, <3>4
  <2> HIDE DEF T
  <2>3. Nat \subseteq T
        BY <2>1, <2>2, StepInduction
  <2> QED BY <1>0, <2>3 DEF T
<1>4. x[Len(s)] \in 0 .. 31
  <2>1. Len(s) \in 0 .. Len(s)
        BY <1>0
  <2> QED BY <2>1
<1>5. (\A i, j \in Int : P(i, j) = Q(i, j))
         => Hash(s, a, b) = Hash(s, c, d) /\ Hash(s, a, b) \in 0 .. 31
      BY <1>1, <1>2, <1>3, <1>4
<1> QED BY <1>5 DEF P, Q

\* 0x1003F and x65599 are -1 modulo 32.
LEMMA MinusOne ==
    ASSUME NEW s \in Seq(Nat)
    PROVE  /\ Hash(s, 1, 65599) = Hash(s, 1, -1)
           /\ Hash(s, 65599, 1) = Hash(s, -1, 1)
           /\ Hash(s, 1, 65599) \in 0 .. 31 /\ Hash(s, 65599, 1) \in 0 .. 31
<1>1. \A i, j \in Int : (1 * i + 65599 * j) % 32 = (1 * i + -1 * j) % 32
      BY SMTT(30)
<1>2. \A i, j \in Int : (65599 * i + 1 * j) % 32 = (-1 * i + 1 * j) % 32
      BY SMTT(30)
<1>3. 1 \in Int /\ -1 \in Int /\ 65599 \in Int
      OBVIOUS
<1>4. Hash(s, 1, 65599) = Hash(s, 1, -1) /\ Hash(s, 1, 65599) \in 0 .. 31
  <2>1. Hash(s, 1, 65599) = Hash(s, 1, 0 - 1) /\ Hash(s, 1, 65599) \in 0 .. 31
        BY <1>1, <1>3, SameHash
  <2> QED BY <2>1
<1>5. Hash(s, 65599, 1) = Hash(s, -1, 1) /\ Hash(s, 65599, 1) \in 0 .. 31
  <2>1. Hash(s, 65599, 1) = Hash(s, 0 - 1, 1) /\ Hash(s, 65599, 1) \in 0 .. 31
        BY <1>2, <1>3, SameHash
  <2> QED BY <2>1
<1> QED BY <1>4, <1>5

-------------------------------------------------------------------------------
(* Releases *)

LEMMA FirstOfFamilies ==
    /\ SYSTEM_NT_5_1_RTM = 5 * 16777216 + 65536 + 2600
    /\ SYSTEM_NT_6_0_RTM = 6 * 16777216 + 6000
    /\ SYSTEM_NT_6_1_RTM = 6 * 16777216 + 65536 + 7600
    /\ SYSTEM_NT_6_2_RTM = 6 * 16777216 + 2 * 65536 + 9200
BY DEF SYSTEM_NT_5_1_RTM, SYSTEM_NT_6_0_RTM, SYSTEM_NT_6_1_RTM, SYSTEM_NT_6_2_RTM,
       MakeSystemVersionCompact

\* The comparisons of versions tell the families of releases apart.
LEMMA Families ==
    ASSUME NEW r \in Release
    PROVE  LET v == GetSystemVersionCompact(r) IN
           /\ v \in Nat
           /\ v >= SYSTEM_NT_5_1_RTM <=> ~Before(r, 5, 1)
           /\ v >= SYSTEM_NT_6_0_RTM <=> ~Before(r, 6, 0)
           /\ v >= SYSTEM_NT_6_1_RTM <=> ~Before(r, 6, 1)
           /\ v >= SYSTEM_NT_6_2_RTM <=> ~Before(r, 6, 2)
<1> DEFINE M == r.major
           m == r.minor
           b == r.build
           p == r.csd
           v == GetSystemVersionCompact(r)
<1>1. IsRelease(r)
      BY IndexesAssumption DEF IndexesAssumption
<1>2. /\ M \in Nat /\ m \in Nat /\ b \in Nat /\ p \in Nat
      /\ m < 256 /\ b < 65536 /\ p < 65536
      BY <1>1, SMT DEF IsRelease
<1>3. /\ M = 5 /\ m = 1 => b >= 2600
      /\ M = 6 /\ m = 0 => b >= 6000
      /\ M = 6 /\ m = 1 => b >= 7600
      /\ M = 6 /\ m = 2 => b >= 9200
      BY <1>1, SMT DEF IsRelease
<1>4. v = M * 16777216 + m * 65536 + b + ((p \div 256) \div 256)
      BY SMT DEF GetSystemVersionCompact, MakeSystemVersionCompact
<1>5. /\ Before(r, 5, 1) <=> M < 5 \/ (M = 5 /\ m < 1)
      /\ Before(r, 6, 0) <=> M < 6 \/ (M = 6 /\ m < 0)
      /\ Before(r, 6, 1) <=> M < 6 \/ (M = 6 /\ m < 1)
      /\ Before(r, 6, 2) <=> M < 6 \/ (M = 6 /\ m < 2)
      BY SMT DEF Before
<1> HIDE DEF M, m, b, p, v
<1>6. (p \div 256) \div 256 = 0
      BY <1>2, SMT
<1>7. v = M * 16777216 + m * 65536 + b
      BY <1>2, <1>4, <1>6, SMT
<1>8. /\ v >= 5 * 16777216 + 1 * 65536 + 2600 <=> ~ (M < 5 \/ (M = 5 /\ m < 1))
      /\ v >= 6 * 16777216 + 0 * 65536 + 6000 <=> ~ (M < 6 \/ (M = 6 /\ m < 0))
      /\ v >= 6 * 16777216 + 1 * 65536 + 7600 <=> ~ (M < 6 \/ (M = 6 /\ m < 1))
      /\ v >= 6 * 16777216 + 2 * 65536 + 9200 <=> ~ (M < 6 \/ (M = 6 /\ m < 2))
      BY <1>2, <1>3, <1>7, SMTT(30)
<1>9. v \in Nat
      BY <1>2, <1>7, SMT
<1>10. /\ v >= SYSTEM_NT_5_1_RTM <=> ~Before(r, 5, 1)
       /\ v >= SYSTEM_NT_6_0_RTM <=> ~Before(r, 6, 0)
       /\ v >= SYSTEM_NT_6_1_RTM <=> ~Before(r, 6, 1)
       /\ v >= SYSTEM_NT_6_2_RTM <=> ~Before(r, 6, 2)
      BY <1>5, <1>8, FirstOfFamilies, SMT
<1> QED BY <1>9, <1>10, SMT DEF v

\* Names are hashed as Windows does on every release.
LEMMA HashIsRight ==
    ASSUME NEW r \in Release, NEW d \in Dll
    PROVE  /\ LdrpHashEntry(GetSystemVersionCompact(r), d) = WindowsBucket(r, d)
           /\ WindowsBucket(r, d) \in Buckets
<1> DEFINE v == GetSystemVersionCompact(r)
           s == BaseDllName[d]
<1>1. s \in Seq(Nat) /\ s # <<>>
      BY IndexesAssumption DEF IndexesAssumption
<1>2. s[1] \in Nat
      BY <1>1
<1>3. (s[1] - 65) % 32 = (s[1] - 1) % 32 /\ (s[1] - 1) % 32 \in 0 .. 31
      BY <1>2
<1>4. /\ Hash(s, 1, 65599) = Hash(s, 1, -1) /\ Hash(s, 65599, 1) = Hash(s, -1, 1)
      /\ Hash(s, 1, 65599) \in 0 .. 31 /\ Hash(s, 65599, 1) \in 0 .. 31
      BY <1>1, MinusOne
<1>5. /\ v \in Nat
      /\ v >= SYSTEM_NT_6_0_RTM <=> ~Before(r, 6, 0)
      /\ v >= SYSTEM_NT_6_1_RTM <=> ~Before(r, 6, 1)
      /\ v >= SYSTEM_NT_6_2_RTM <=> ~Before(r, 6, 2)
      BY Families
<1>6. /\ SYSTEM_NT_6_0_RTM \in Nat /\ SYSTEM_NT_6_1_RTM \in Nat /\ SYSTEM_NT_6_2_RTM \in Nat
      /\ SYSTEM_NT_6_0_RTM < SYSTEM_NT_6_1_RTM /\ SYSTEM_NT_6_1_RTM < SYSTEM_NT_6_2_RTM
      BY FirstOfFamilies
<1> HIDE DEF v, s
<1>7. CASE v < SYSTEM_NT_6_0_RTM
      BY <1>3, <1>5, <1>6, <1>7 DEF LdrpHashEntry, WindowsBucket, Buckets, v, s
<1>8. CASE v >= SYSTEM_NT_6_0_RTM /\ v < SYSTEM_NT_6_1_RTM
      BY <1>3, <1>5, <1>6, <1>8 DEF LdrpHashEntry, WindowsBucket, Buckets, v, s
<1>9. CASE v >= SYSTEM_NT_6_1_RTM /\ v < SYSTEM_NT_6_2_RTM
      BY <1>4, <1>5, <1>6, <1>9 DEF LdrpHashEntry, WindowsBucket, Buckets, v, s
<1>10. CASE v >= SYSTEM_NT_6_2_RTM
      BY <1>4, <1>5, <1>6, <1>10 DEF LdrpHashEntry, WindowsBucket, Buckets, v, s
<1> QED BY <1>5, <1>6, <1>7, <1>8, <1>9, <1>10

-------------------------------------------------------------------------------
(* The trees *)

LEMMA OrderOfNodes ==
    ASSUME NEW t \in Tree, NEW a \in Dll, NEW b \in Dll
    PROVE  /\ \A c \in Dll : Less(t, a, b) /\ Less(t, b, c) => Less(t, a, c)
           /\ ~ (Less(t, a, b) /\ Less(t, b, a))
           /\ LET cmp == LdrpRbTreeCompare(t, a, b) IN
              a # b => /\ cmp \in {-1, 1}
                       /\ cmp < 0 => Less(t, a, b)
                       /\ cmp > 0 => Less(t, b, a)
<1> USE IndexesAssumption DEF IndexesAssumption
<1>1. \A c \in Dll : DllBase[c] \in Nat /\ TimeDateStamp[c] \in Nat /\ SizeOfImage[c] \in Nat
      OBVIOUS
<1>2. a # b => DllBase[a] # DllBase[b]
      OBVIOUS
<1> QED BY SMTT(30), <1>1, <1>2 DEF Less, LdrpRbTreeCompare, LdrpRbTreeCompareTimeStamp, Compare

LEMMA InsertedAt ==
    ASSUME NEW S, NEW s \in Seq(S), NEW e \in S, NEW i \in 1 .. Len(s) + 1
    PROVE  /\ InsertAt(s, i, e) \in Seq(S) /\ Len(InsertAt(s, i, e)) = Len(s) + 1
           /\ \A k \in 1 .. Len(s) + 1 :
                 InsertAt(s, i, e)[k] = IF k < i THEN s[k] ELSE IF k = i THEN e ELSE s[k - 1]
<1> DEFINE front == SubSeq(s, 1, i - 1)
           back  == SubSeq(s, i, Len(s))
           left  == front \o <<e>>
<1>0. Len(s) \in Nat /\ i \in Int /\ \A k \in 1 .. Len(s) : s[k] \in S
      OBVIOUS
<1>1. /\ front \in Seq(S) /\ Len(front) = i - 1
      /\ \A k \in 1 .. i - 1 : front[k] = s[k]
      BY <1>0, SubSeqProperties
<1>2. /\ back \in Seq(S) /\ Len(back) = Len(s) - i + 1
      /\ \A k \in 1 .. Len(s) - i + 1 : back[k] = s[i + k - 1]
      BY <1>0, SubSeqProperties
<1>3. <<e>> \in Seq(S) /\ Len(<<e>>) = 1 /\ <<e>>[1] = e
      OBVIOUS
<1> HIDE DEF front, back
<1>4. /\ left \in Seq(S) /\ Len(left) = i
      /\ \A k \in 1 .. i : left[k] = IF k < i THEN s[k] ELSE e
  <2>1. /\ left \in Seq(S) /\ Len(left) = Len(front) + 1
        /\ \A k \in 1 .. Len(front) + 1 :
              left[k] = IF k <= Len(front) THEN front[k] ELSE <<e>>[k - Len(front)]
        BY <1>1, <1>3, ConcatProperties
  <2> QED BY <1>0, <1>1, <1>3, <2>1
<1> HIDE DEF left
<1>5. /\ left \o back \in Seq(S) /\ Len(left \o back) = Len(left) + Len(back)
      /\ \A k \in 1 .. Len(left) + Len(back) :
            (left \o back)[k] = IF k <= Len(left) THEN left[k] ELSE back[k - Len(left)]
      BY <1>2, <1>4, ConcatProperties
<1>6. InsertAt(s, i, e) = left \o back
      BY DEF InsertAt, left, front, back
<1>7. ASSUME NEW k \in 1 .. Len(s) + 1
      PROVE  (left \o back)[k] = IF k < i THEN s[k] ELSE IF k = i THEN e ELSE s[k - 1]
  <2>1. CASE k <= i
        BY <1>0, <1>2, <1>4, <1>5, <2>1
  <2>2. CASE k > i
    <3>1. (left \o back)[k] = back[k - i] /\ k - i \in 1 .. Len(s) - i + 1
          BY <1>0, <1>2, <1>4, <1>5, <2>2
    <3>2. back[k - i] = s[k - 1]
          BY <1>0, <1>2, <3>1
    <3> QED BY <2>2, <3>1, <3>2
  <2>3. k <= i \/ k > i
        BY <1>0
  <2> QED BY <2>1, <2>2, <2>3
<1> QED BY <1>0, <1>2, <1>4, <1>5, <1>6, <1>7

LEMMA RemovedAt ==
    ASSUME NEW S, NEW s \in Seq(S), NEW i \in 1 .. Len(s)
    PROVE  /\ RemoveAt(s, i) \in Seq(S) /\ Len(RemoveAt(s, i)) = Len(s) - 1
           /\ \A k \in 1 .. Len(s) - 1 :
                 RemoveAt(s, i)[k] = IF k < i THEN s[k] ELSE s[k + 1]
<1> DEFINE front == SubSeq(s, 1, i - 1)
           back  == SubSeq(s, i + 1, Len(s))
<1>0. Len(s) \in Nat /\ i \in Int /\ i + 1 \in Int /\ \A k \in 1 .. Len(s) : s[k] \in S
      OBVIOUS
<1>1. /\ front \in Seq(S) /\ Len(front) = i - 1
      /\ \A k \in 1 .. i - 1 : front[k] = s[k]
      BY <1>0, SubSeqProperties
<1>2. /\ back \in Seq(S) /\ Len(back) = Len(s) - i
      /\ \A k \in 1 .. Len(s) - i : back[k] = s[i + k]
  <2>1. \A k \in i + 1 .. Len(s) : s[k] \in S
        BY <1>0
  <2>2. /\ back \in Seq(S) /\ Len(back) = IF i + 1 <= Len(s) THEN Len(s) - (i + 1) + 1 ELSE 0
        /\ \A k \in 1 .. Len(s) - (i + 1) + 1 : back[k] = s[(i + 1) + k - 1]
        BY <1>0, <2>1, SubSeqProperties
  <2> QED BY <1>0, <2>2
<1> HIDE DEF front, back
<1>5. /\ front \o back \in Seq(S) /\ Len(front \o back) = Len(front) + Len(back)
      /\ \A k \in 1 .. Len(front) + Len(back) :
            (front \o back)[k] = IF k <= Len(front) THEN front[k] ELSE back[k - Len(front)]
      BY <1>1, <1>2, ConcatProperties
<1>6. RemoveAt(s, i) = front \o back
      BY DEF RemoveAt, front, back
<1>7. ASSUME NEW k \in 1 .. Len(s) - 1
      PROVE  (front \o back)[k] = IF k < i THEN s[k] ELSE s[k + 1]
  <2>1. CASE k < i
        BY <1>0, <1>1, <1>2, <1>5, <2>1
  <2>2. CASE k >= i
    <3>1. (front \o back)[k] = back[k - (i - 1)] /\ k - (i - 1) \in 1 .. Len(s) - i
          BY <1>0, <1>1, <1>2, <1>5, <2>2
    <3>2. i + (k - (i - 1)) = k + 1
          BY <1>0
    <3>3. back[k - (i - 1)] = s[i + (k - (i - 1))]
          BY <1>2, <3>1
    <3> QED BY <1>0, <2>2, <3>1, <3>2, <3>3
  <2>3. k < i \/ k >= i
        BY <1>0
  <2> QED BY <2>1, <2>2, <2>3
<1>8. Len(front) + Len(back) = Len(s) - 1
      BY <1>0, <1>1, <1>2
<1> QED BY <1>5, <1>6, <1>7, <1>8

\* A node put where those before it are less and those after it greater.
LEMMA PutInOrder ==
    ASSUME NEW t \in Tree, NEW D, NEW nodes \in Seq(Dll), InOrder(t, nodes, D),
           NEW d \in Dll, t # "BaseAddressIndex" => d # ntdll,
           NEW i \in 1 .. Len(nodes) + 1,
           \A k \in 1 .. Len(nodes) : k < i => Less(t, nodes[k], d),
           \A k \in 1 .. Len(nodes) : k >= i => Less(t, d, nodes[k])
    PROVE  /\ InsertAt(nodes, i, d) \in Seq(Dll)
           /\ InOrder(t, InsertAt(nodes, i, d), D \cup {d})
<1> DEFINE new == InsertAt(nodes, i, d)
           n == Len(nodes)
<1>0. n \in Nat /\ i \in Int /\ DOMAIN nodes = 1 .. n
      OBVIOUS
<1>1. /\ new \in Seq(Dll) /\ Len(new) = n + 1
      /\ \A k \in 1 .. n + 1 : new[k] = IF k < i THEN nodes[k] ELSE IF k = i THEN d ELSE nodes[k - 1]
  <2>1. /\ InsertAt(nodes, i, d) \in Seq(Dll) /\ Len(InsertAt(nodes, i, d)) = Len(nodes) + 1
        /\ \A k \in 1 .. Len(nodes) + 1 :
              InsertAt(nodes, i, d)[k] = IF k < i THEN nodes[k] ELSE IF k = i THEN d ELSE nodes[k - 1]
    <3> HIDE DEF new, n
    <3> QED BY InsertedAt
  <2> QED BY <2>1
<1>2. DOMAIN new = 1 .. n + 1
      BY <1>1
<1> HIDE DEF new, n
<1>3. Range(new) = Range(nodes) \cup {d}
  <2>1. ASSUME NEW k \in 1 .. n + 1 PROVE new[k] \in Range(nodes) \cup {d}
    <3>1. CASE k < i
          BY <1>0, <1>1, <3>1 DEF Range, n
    <3>2. CASE k = i
          BY <1>1, <3>2
    <3>3. CASE k > i
      <4>1. k - 1 \in 1 .. n /\ new[k] = nodes[k - 1]
            BY <1>0, <1>1, <3>3
      <4> QED BY <1>0, <4>1 DEF Range
    <3> QED BY <1>0, <3>1, <3>2, <3>3
  <2>2. ASSUME NEW k \in 1 .. n PROVE nodes[k] \in Range(new)
    <3>1. CASE k < i
      <4>1. k \in 1 .. n + 1 /\ new[k] = nodes[k]
            BY <1>0, <1>1, <3>1
      <4> QED BY <1>2, <4>1 DEF Range
    <3>2. CASE k >= i
      <4>1. k + 1 \in 1 .. n + 1 /\ new[k + 1] = nodes[k]
            BY <1>0, <1>1, <3>2
      <4> QED BY <1>2, <4>1 DEF Range
    <3> QED BY <1>0, <3>1, <3>2
  <2>3. d \in Range(new)
    <3>1. i \in 1 .. n + 1 /\ new[i] = d
          BY <1>0, <1>1 DEF n
    <3> QED BY <1>2, <3>1 DEF Range
  <2> QED BY <1>0, <1>2, <2>1, <2>2, <2>3 DEF Range
<1>4. Range(new) = Nodes(t, D \cup {d})
      BY <1>3 DEF Nodes, InOrder
<1>5. ASSUME NEW j \in 1 .. n + 1, NEW k \in 1 .. n + 1, j < k
      PROVE  Less(t, new[j], new[k])
  <2>0. \A x, y \in 1 .. n : x < y => Less(t, nodes[x], nodes[y])
        BY <1>0 DEF InOrder
  <2>1. CASE k < i
        BY <1>0, <1>1, <1>5, <2>0, <2>1 DEF n
  <2>2. CASE k = i
        BY <1>0, <1>1, <1>5, <2>2 DEF n
  <2>3. CASE k > i
    <3>0. k - 1 \in 1 .. n /\ new[k] = nodes[k - 1]
          BY <1>0, <1>1, <2>3
    <3>1. CASE j < i
      <4>1. new[j] = nodes[j] /\ j \in 1 .. n /\ j < k - 1
            BY <1>0, <1>1, <1>5, <2>3, <3>1 DEF n
      <4> QED BY <2>0, <3>0, <4>1
    <3>2. CASE j = i
      <4>1. new[j] = d /\ k - 1 >= i
            BY <1>0, <1>1, <2>3, <3>2
      <4> QED BY <3>0, <4>1 DEF n
    <3>3. CASE j > i
      <4>1. new[j] = nodes[j - 1] /\ j - 1 \in 1 .. n /\ j - 1 < k - 1
            BY <1>0, <1>1, <1>5, <2>3, <3>3
      <4> QED BY <2>0, <3>0, <4>1
    <3> QED BY <1>0, <3>1, <3>2, <3>3
  <2> QED BY <1>0, <2>1, <2>2, <2>3
<1> QED BY <1>1, <1>2, <1>4, <1>5 DEF InOrder, new

\* What is left when a node is taken out.
LEMMA TakenOut ==
    ASSUME NEW t \in Tree, NEW D, NEW nodes \in Seq(Dll), InOrder(t, nodes, D),
           D \subseteq Dll, NEW d \in Nodes(t, D)
    PROVE  LET i == CHOOSE i \in DOMAIN nodes : nodes[i] = d IN
           /\ RemoveAt(nodes, i) \in Seq(Dll)
           /\ InOrder(t, RemoveAt(nodes, i), D \ {d})
<1> DEFINE n == Len(nodes)
           i == CHOOSE j \in DOMAIN nodes : nodes[j] = d
           new == RemoveAt(nodes, i)
<1>0. n \in Nat /\ DOMAIN nodes = 1 .. n
      OBVIOUS
<1>1. i \in 1 .. n /\ nodes[i] = d
  <2>1. \E j \in DOMAIN nodes : nodes[j] = d
        BY DEF InOrder, Range
  <2> QED BY <1>0, <2>1
<1> HIDE DEF i
<1>2. /\ new \in Seq(Dll) /\ Len(new) = n - 1
      /\ \A k \in 1 .. n - 1 : new[k] = IF k < i THEN nodes[k] ELSE nodes[k + 1]
      BY <1>1, RemovedAt
<1>3. DOMAIN new = 1 .. n - 1
      BY <1>2
<1>4. \A x, y \in 1 .. n : x < y => Less(t, nodes[x], nodes[y])
      BY <1>0 DEF InOrder
<1>5. \A x \in 1 .. n : nodes[x] \in Dll
      BY <1>0
<1> HIDE DEF new, n
<1>6. ASSUME NEW k \in 1 .. n, nodes[k] = d PROVE k = i
  <2>1. k < i \/ k = i \/ i < k
        BY <1>0, <1>1
  <2>2. ~ Less(t, d, d)
        BY <1>1, <1>5, OrderOfNodes
  <2> QED BY <1>1, <1>4, <1>6, <2>1, <2>2
<1>7. Range(new) = Range(nodes) \ {d}
  <2>1. ASSUME NEW k \in 1 .. n - 1 PROVE new[k] \in Range(nodes) \ {d}
    <3>1. CASE k < i
      <4>1. k \in 1 .. n /\ k # i /\ new[k] = nodes[k]
            BY <1>0, <1>1, <1>2, <3>1
      <4> QED BY <1>0, <1>6, <4>1 DEF Range
    <3>2. CASE k >= i
      <4>1. k + 1 \in 1 .. n /\ k + 1 # i /\ new[k] = nodes[k + 1]
            BY <1>0, <1>1, <1>2, <3>2
      <4> QED BY <1>0, <1>6, <4>1 DEF Range
    <3> QED BY <1>0, <1>1, <3>1, <3>2
  <2>2. ASSUME NEW k \in 1 .. n, nodes[k] # d PROVE nodes[k] \in Range(new)
    <3>1. CASE k < i
      <4>1. k \in 1 .. n - 1 /\ new[k] = nodes[k]
            BY <1>0, <1>1, <1>2, <3>1
      <4> QED BY <1>3, <4>1 DEF Range
    <3>2. CASE k > i
      <4>1. k - 1 \in 1 .. n - 1 /\ new[k - 1] = nodes[k]
            BY <1>0, <1>1, <1>2, <3>2
      <4> QED BY <1>3, <4>1 DEF Range
    <3> QED BY <1>0, <1>1, <2>2, <3>1, <3>2
  <2> QED BY <1>0, <1>3, <2>1, <2>2 DEF Range
<1>8. Range(new) = Nodes(t, D \ {d})
      BY <1>7 DEF Nodes, InOrder
<1>9. ASSUME NEW j \in 1 .. n - 1, NEW k \in 1 .. n - 1, j < k
      PROVE  Less(t, new[j], new[k])
  <2> DEFINE at(x) == IF x < i THEN x ELSE x + 1
  <2>1. /\ at(j) \in 1 .. n /\ at(k) \in 1 .. n /\ at(j) < at(k)
        BY <1>0, <1>1, <1>9
  <2>2. new[j] = nodes[at(j)] /\ new[k] = nodes[at(k)]
        BY <1>2
  <2> HIDE DEF at
  <2> QED BY <1>4, <2>1, <2>2
<1>10. new \in Seq(Dll) /\ InOrder(t, new, D \ {d})
      BY <1>2, <1>3, <1>8, <1>9 DEF InOrder
<1> QED BY <1>10 DEF new, i

\* An insertion, wherever the roots of the subtrees are, puts the node in its
\* place.
LEMMA InsertionInOrder ==
    ASSUME NEW t \in Tree, NEW D, tree[t] \in Seq(Dll), InOrder(t, tree[t], D),
           NEW d \in Dll, d \notin Nodes(t, D), t # "BaseAddressIndex" => d # ntdll
    PROVE  \A new \in LdrpRbTreeInsert(t, d) :
              new \in Seq(Dll) /\ InOrder(t, new, D \cup {d})
<1> DEFINE nodes == tree[t]
           n     == Len(nodes)
           S     == (1 .. n + 1) \X (0 .. n)
           V     == SUBSET Seq(Dll)
           cmp(root) == LdrpRbTreeCompare(t, d, nodes[root])
           next(x, root) == IF cmp(root) < 0 THEN <<x[1], root - 1>> ELSE <<root + 1, x[2]>>
           turn(f, x, root) == IF cmp(root) = 0 THEN {nodes} ELSE f[next(x, root)]
           body(f, x) == IF x[1] > x[2] THEN {InsertAt(nodes, x[1], d)}
                         ELSE UNION {turn(f, x, root) : root \in x[1] .. x[2]}
           F     == [x \in S |-> [f \in [S -> V] |-> body(f, x)]]
           m     == [x \in S |-> IF x[1] > x[2] THEN 0 ELSE x[2] - x[1] + 1]
           below == CHOOSE f : f = [x \in S |-> body(f, x)]
<1>0. /\ n \in Nat /\ DOMAIN nodes = 1 .. n
      /\ \A k \in 1 .. n : nodes[k] \in Dll
      OBVIOUS
<1>1. \A x \in S : x[1] \in 1 .. n + 1 /\ x[2] \in 0 .. n /\ x = <<x[1], x[2]>>
      OBVIOUS
<1>2. ASSUME NEW root \in 1 .. n
      PROVE  /\ cmp(root) \in {-1, 1}
             /\ cmp(root) < 0 => Less(t, d, nodes[root])
             /\ cmp(root) > 0 => Less(t, nodes[root], d)
  <2>1. nodes[root] \in Nodes(t, D)
        BY <1>0 DEF InOrder, Range
  <2> QED BY <1>0, <2>1, OrderOfNodes
<1>3. LdrpRbTreeInsert(t, d) = below[<<1, n>>]
      BY DEF LdrpRbTreeInsert
<1>20. \A x \in S : InsertAt(nodes, x[1], d) \in Seq(Dll)
      BY <1>0, <1>1, InsertedAt
<1> HIDE DEF cmp
<1>4. ASSUME NEW x \in S, NEW root \in x[1] .. x[2]
      PROVE  /\ root \in 1 .. n /\ next(x, root) \in S
             /\ m[next(x, root)] < m[x]
  <2>1. root \in 1 .. n /\ x[1] <= root /\ root <= x[2] /\ x[1] \in Int /\ x[2] \in Int
        BY <1>0, <1>1
  <2>2. <<x[1], root - 1>> \in S /\ <<root + 1, x[2]>> \in S
        BY <1>0, <1>1, <2>1
  <2>3. m[x] = x[2] - x[1] + 1
        BY <2>1
  <2>4. m[<<x[1], root - 1>>] < m[x] /\ m[<<root + 1, x[2]>>] < m[x]
        BY <2>1, <2>2, <2>3
  <2> QED BY <2>1, <2>2, <2>4
<1>5. m \in [S -> Nat]
      BY <1>0, <1>1
<1> HIDE DEF next, nodes, m, S, n
<1>6. Recursive(S, V, m, F)
  <2>1. ASSUME NEW x \in S, NEW f \in [S -> V] PROVE F[x][f] \in V
    <3>1. CASE x[1] > x[2]
          BY <1>20, <3>1
    <3>2. CASE ~ (x[1] > x[2])
      <4>1. ASSUME NEW root \in x[1] .. x[2] PROVE turn(f, x, root) \in V
            BY <1>0, <1>4 DEF nodes
      <4> HIDE DEF turn
      <4> QED BY <3>2, <4>1
    <3> QED BY <3>1, <3>2
  <2>2. ASSUME NEW x \in S, NEW f \in [S -> V], NEW g \in [S -> V],
               \A y \in S : m[y] < m[x] => f[y] = g[y]
        PROVE  F[x][f] = F[x][g]
    <3>1. ASSUME NEW root \in x[1] .. x[2] PROVE turn(f, x, root) = turn(g, x, root)
          BY <1>4, <2>2
    <3> HIDE DEF turn
    <3>2. {turn(f, x, root) : root \in x[1] .. x[2]} = {turn(g, x, root) : root \in x[1] .. x[2]}
          BY <3>1
    <3>3. body(f, x) = body(g, x)
          BY <3>2
    <3> HIDE DEF body
    <3> QED BY <3>3
  <2>3. V # {}
        OBVIOUS
  <2> HIDE DEF V, F
  <2> QED BY <1>5, <2>1, <2>2, <2>3 DEF Recursive
<1> HIDE DEF body
<1>7. PICK g \in [S -> V] : \A x \in S : g[x] = F[x][g]
  <2> HIDE DEF V, F
  <2> QED BY <1>6, RecursionDefines
<1>8. g = [x \in S |-> body(g, x)]
      BY <1>7
<1> HIDE DEF V, F
<1>9. below = [x \in S |-> body(below, x)]
      BY <1>8
<1> HIDE DEF below
<1>10. \A x \in S : below[x] = body(below, x)
      BY <1>9
<1> DEFINE good(new) == new \in Seq(Dll) /\ InOrder(t, new, D \cup {d})
           between(x) == /\ x[1] <= x[2] + 1
                         /\ \A k \in 1 .. n : k < x[1] => Less(t, nodes[k], d)
                         /\ \A k \in 1 .. n : k > x[2] => Less(t, d, nodes[k])
           T == {i \in Nat : \A x \in S : m[x] = i /\ between(x) => \A new \in below[x] : good(new)}
<1>11. ASSUME NEW i \in Nat, \A k \in Nat : k < i => k \in T PROVE i \in T
  <2> SUFFICES ASSUME NEW x \in S, m[x] = i, between(x), NEW new \in below[x]
               PROVE  good(new)
      OBVIOUS
  <2>0. x[1] \in 1 .. n + 1 /\ x[2] \in 0 .. n /\ n \in Nat
        BY <1>0, <1>1
  <2>1. CASE x[1] > x[2]
    <3>1. new = InsertAt(nodes, x[1], d)
          BY <1>10, <2>1 DEF body
    <3>2. /\ \A k \in 1 .. n : k < x[1] => Less(t, nodes[k], d)
          /\ \A k \in 1 .. n : k >= x[1] => Less(t, d, nodes[k])
          BY <2>0, <2>1
    <3> HIDE DEF between, T
    <3>3. nodes \in Seq(Dll) /\ InOrder(t, nodes, D) /\ n = Len(nodes)
          BY DEF nodes, n
    <3> QED BY <2>0, <3>1, <3>2, <3>3, PutInOrder
  <2>2. CASE ~ (x[1] > x[2])
    <3>1. PICK root \in x[1] .. x[2] : new \in turn(below, x, root)
      <4> HIDE DEF turn, between, good, T
      <4>1. below[x] = UNION {turn(below, x, root) : root \in x[1] .. x[2]}
            BY <1>10, <2>2 DEF body
      <4> QED BY <4>1
    <3>2. root \in 1 .. n /\ next(x, root) \in S /\ m[next(x, root)] < m[x]
          BY <1>4
    <3>3. new \in below[next(x, root)]
          BY <1>2, <3>1, <3>2
    <3>4. between(next(x, root))
      <4>0. \A a, b, c \in Dll : Less(t, a, b) /\ Less(t, b, c) => Less(t, a, c)
            BY OrderOfNodes
      <4>1. \A j, k \in 1 .. n : j < k => Less(t, nodes[j], nodes[k])
            BY <1>0 DEF InOrder, nodes
      <4>2. CASE cmp(root) < 0
        <5>1. Less(t, d, nodes[root])
              BY <1>2, <3>2, <4>2
        <5>2. \A k \in 1 .. n : k > root - 1 => Less(t, d, nodes[k])
              BY <1>0, <3>2, <4>0, <4>1, <5>1
        <5>3. next(x, root) = <<x[1], root - 1>>
              BY <4>2 DEF next
        <5>4. x[1] <= (root - 1) + 1
              BY <2>0, <3>2
        <5>5. between(<<x[1], root - 1>>)
              BY <5>2, <5>4
        <5> HIDE DEF between
        <5> QED BY <5>3, <5>5
      <4>3. CASE ~ (cmp(root) < 0)
        <5>1. Less(t, nodes[root], d)
              BY <1>2, <3>2, <4>3
        <5>2. \A k \in 1 .. n : k < root + 1 => Less(t, nodes[k], d)
              BY <1>0, <3>2, <4>0, <4>1, <5>1
        <5>3. next(x, root) = <<root + 1, x[2]>>
              BY <4>3 DEF next
        <5> QED BY <2>0, <3>2, <5>2, <5>3
      <4> QED BY <4>2, <4>3
    <3>5. m[next(x, root)] \in T
          BY <1>5, <1>11, <3>2
    <3> HIDE DEF between, good
    <3> QED BY <3>2, <3>3, <3>4, <3>5
  <2> QED BY <2>1, <2>2
<1> HIDE DEF T
<1>12. Nat \subseteq T
      BY <1>11, Induction
<1>13. <<1, n>> \in S /\ between(<<1, n>>)
      BY <1>0 DEF S
<1>14. \A new \in below[<<1, n>>] : good(new)
      BY <1>5, <1>12, <1>13 DEF T
<1> QED BY <1>3, <1>14 DEF nodes, n

-------------------------------------------------------------------------------
(* What is found, and what comes and goes *)

IndexTypes ==
    /\ release \in Release /\ heapOfLdr \in HeapsOfLdr(release)
    /\ initOrder \subseteq Windows
    /\ \E P \in Places :
          /\ headerAt \in [Tree -> P] /\ copies \in [Tree -> SUBSET P]
    /\ \A t \in Tree : headerAt[t] \notin copies[t]
    /\ tree \in [Tree -> Seq(Dll)]
    /\ DOMAIN bucket \subseteq Dll

\* Nothing is loaded from memory before the state is filled, with the version of
\* this Windows.
Filled ==
    /\ peb = Null => DOMAIN bucket = Windows
    /\ peb # Null => peb.SystemVersion = GetSystemVersionCompact(release)

IndexInv == IndexTypes /\ Filled /\ FoundIsRight /\ IndexesAgree

LEMMA IndexInvInit == IndexesInit => IndexInv
<1> SUFFICES ASSUME IndexesInit PROVE IndexInv
    OBVIOUS
<1> USE IndexesAssumption DEF IndexesAssumption, IndexesInit
<1>1. tree \in [Tree -> Seq(Dll)]
  <2>1. Cardinality(Windows) \in Nat
        BY FS_CardinalityType
  <2>2. ASSUME NEW n \in 0 .. Cardinality(Windows) PROVE [1 .. n -> Windows] \subseteq Seq(Dll)
    <3>1. n \in Nat
          BY <2>1
    <3>2. Windows \subseteq Dll
          BY DEF Dll
    <3> SUFFICES ASSUME NEW f \in [1 .. n -> Windows] PROVE f \in Seq(Dll)
        OBVIOUS
    <3> QED BY <3>1, <3>2
  <2>3. ASSUME NEW t \in Tree PROVE tree[t] \in Seq(Dll)
    <3>1. tree[t] \in UNION {[1 .. n -> Windows] : n \in 0 .. Cardinality(Windows)}
          BY Zenon
    <3>2. PICK n \in 0 .. Cardinality(Windows) : tree[t] \in [1 .. n -> Windows]
          BY <3>1, Zenon
    <3> QED BY <2>2, <3>2, Zenon
  <2>4. tree = [t \in Tree |-> tree[t]]
        BY Zenon
  <2> QED BY <2>3, <2>4, Zenon
<1>2. DOMAIN bucket = Windows
      BY Zenon
<1>3. IndexTypes
  <2>1. PICK P \in Places :
           /\ headerAt \in {h \in [Tree -> P] : \A t, u \in Tree : t # u => h[t] # h[u]}
           /\ copies \in {c \in [Tree -> SUBSET (P \ Range(headerAt))] :
                             \A t, u \in Tree : t # u => c[t] \cap c[u] = {}}
        BY Zenon
  <2>2. /\ headerAt \in [Tree -> P] /\ copies \in [Tree -> SUBSET P]
        /\ \A t \in Tree : headerAt[t] \notin copies[t]
        BY <2>1 DEF Range
  <2>3. /\ release \in Release /\ heapOfLdr \in HeapsOfLdr(release)
        /\ initOrder \subseteq Windows
        BY Zenon
  <2> QED BY <1>1, <1>2, <2>1, <2>2, <2>3 DEF IndexTypes, Dll
<1>4. Filled /\ FoundIsRight
      BY <1>2 DEF Filled, FoundIsRight
<1>5. IndexesAgree
      BY <1>2 DEF IndexesAgree
<1> QED BY <1>3, <1>4, <1>5 DEF IndexInv

LEMMA Boundaries ==
    /\ SYSTEM_NT_5_1_RTM \in Nat /\ SYSTEM_NT_6_0_RTM \in Nat
    /\ SYSTEM_NT_6_1_RTM \in Nat /\ SYSTEM_NT_6_2_RTM \in Nat
    /\ SYSTEM_NT_5_1_RTM < SYSTEM_NT_6_0_RTM /\ SYSTEM_NT_6_0_RTM < SYSTEM_NT_6_1_RTM
    /\ SYSTEM_NT_6_1_RTM < SYSTEM_NT_6_2_RTM
BY FirstOfFamilies, SMT

LEMMA HeapIsRight ==
    ASSUME IndexTypes
    PROVE  LdrpFindHeap(GetSystemVersionCompact(release)) = heapOfLdr
<1> DEFINE v == GetSystemVersionCompact(release)
<1>1. release \in Release /\ heapOfLdr \in HeapsOfLdr(release)
      BY DEF IndexTypes
<1>2. /\ v \in Nat
      /\ v >= SYSTEM_NT_5_1_RTM <=> ~Before(release, 5, 1)
      /\ v >= SYSTEM_NT_6_0_RTM <=> ~Before(release, 6, 0)
      /\ v >= SYSTEM_NT_6_1_RTM <=> ~Before(release, 6, 1)
      BY <1>1, Families
<1> HIDE DEF v
<1>3. LdrpFindHeap(v) = heapOfLdr
  <2>1. CASE v < SYSTEM_NT_5_1_RTM
        BY <1>1, <1>2, <2>1, Boundaries DEF LdrpFindHeap, HeapsOfLdr
  <2>2. CASE v >= SYSTEM_NT_5_1_RTM /\ v < SYSTEM_NT_6_0_RTM
        BY <1>1, <1>2, <2>2, Boundaries DEF LdrpFindHeap, HeapsOfLdr
  <2>3. CASE v >= SYSTEM_NT_6_0_RTM /\ v < SYSTEM_NT_6_1_RTM
        BY <1>1, <1>2, <2>3, Boundaries DEF LdrpFindHeap, HeapsOfLdr
  <2>4. CASE v >= SYSTEM_NT_6_1_RTM
        BY <1>1, <1>2, <2>4, Boundaries DEF LdrpFindHeap, HeapsOfLdr
  <2> QED BY <1>2, Boundaries, <2>1, <2>2, <2>3, <2>4
<1> QED BY <1>3 DEF v

\* What is taken for the header of a tree is the first of the header and the words
\* that equal it: only there the root stands at all, or the leftmost node does.
LEMMA TreeIsFound ==
    ASSUME IndexTypes, NEW t \in Tree, NEW root \in DOMAIN tree[t]
    PROVE  LdrpFindRbTree(t, root) =
              IF ~hasData THEN Null
              ELSE IF \E c \in copies[t] : c < headerAt[t] THEN "copy" ELSE t
<1> DEFINE H == copies[t] \cup {headerAt[t]}
           M == {w \in 0 .. DataWords - 2 : /\ Data(t, root, w) = tree[t][root]
                                            /\ Data(t, root, w + 1) = tree[t][1]}
<1>1. /\ H \subseteq 0 .. DataWords - 2 /\ headerAt[t] \notin copies[t]
      /\ \A a, b \in H : a - b \notin {-1, 1}
  <2>1. PICK P \in Places : headerAt \in [Tree -> P] /\ copies \in [Tree -> SUBSET P]
        BY DEF IndexTypes
  <2>2. H \subseteq P
        BY <2>1
  <2>3. P \subseteq 0 .. DataWords - 2 /\ \A a, b \in P : a - b \notin {-1, 1}
        BY DEF Places
  <2> QED BY <2>2, <2>3 DEF IndexTypes
<1>2. /\ tree[t][root] # Null /\ DataWords \in Nat
  <2>1. tree[t] \in Seq(Dll)
        BY DEF IndexTypes
  <2> QED BY <2>1, IndexesAssumption DEF IndexesAssumption
<1>3. ASSUME NEW w \in Int
      PROVE  Data(t, root, w) = IF w \in H THEN tree[t][root]
                                ELSE IF w - 1 \in H THEN tree[t][1] ELSE Null
  <2>1. Data(t, root, w) = CASE w \in H     -> tree[t][root]
                             [] w - 1 \in H -> tree[t][1]
                             [] OTHER       -> Null
        BY DEF Data
  <2>2. w \in H => w - 1 \notin H
    <3>1. w - (w - 1) = 1
          OBVIOUS
    <3> HIDE DEF H
    <3> QED BY <1>1, <3>1
  <2> HIDE DEF H
  <2> QED BY <2>1, <2>2
<1> HIDE DEF H
<1>4. H \subseteq M
  <2> SUFFICES ASSUME NEW h \in H PROVE h \in M
      OBVIOUS
  <2>1. h \in 0 .. DataWords - 2 /\ h \in Int /\ h + 1 \in Int /\ (h + 1) - 1 = h
        BY <1>1, <1>2
  <2>2. h + 1 \notin H
    <3>1. (h + 1) - h = 1
          BY <2>1
    <3> QED BY <1>1, <3>1
  <2> QED BY <1>3, <2>1, <2>2
<1>5. ASSUME NEW w \in M PROVE \E h \in H : h <= w
  <2>1. w \in Int /\ Data(t, root, w) = tree[t][root]
        BY <1>2
  <2>2. w \in H \/ w - 1 \in H
        BY <1>2, <1>3, <2>1
  <2> QED BY <2>1, <2>2
<1>6. PICK m \in H : \A h \in H : m <= h
  <2>1. H \in SUBSET Nat /\ H # {}
        BY <1>1 DEF H
  <2> QED BY <2>1, Least
<1>7. Min(M) = m /\ M # {}
  <2>1. m \in M /\ \A w \in M : m <= w
    <3>1. M \subseteq Int /\ H \subseteq Int
          BY <1>1, <1>2
    <3> HIDE DEF M
    <3> QED BY <1>4, <1>5, <1>6, <3>1
  <2>2. M \subseteq Int
        BY <1>2
  <2> HIDE DEF M
  <2>3. \A x \in M : (\A w \in M : x <= w) => x = m
        BY <2>1, <2>2
  <2> QED BY <2>1, <2>3 DEF Min
<1>8. m = headerAt[t] <=> ~ \E c \in copies[t] : c < headerAt[t]
  <2>1. H \subseteq Int
        BY <1>1
  <2> QED BY <1>1, <1>6, <2>1 DEF H
<1>9. LdrpFindRbTree(t, root) = IF ~hasData \/ M = {} THEN Null
                                ELSE IF Min(M) = headerAt[t] THEN t ELSE "copy"
      BY DEF LdrpFindRbTree
<1> HIDE DEF M
<1> QED BY <1>7, <1>8, <1>9

LEMMA HashTableIsFound ==
    ASSUME IndexInv, peb = Null
    PROVE  LdrpFindHashTable(GetSystemVersionCompact(release)) =
              IF \E d \in initOrder : \A e \in Windows \ {d} :
                    WindowsBucket(release, e) # WindowsBucket(release, d)
                 THEN 0 ELSE Null
<1> DEFINE v == GetSystemVersionCompact(release)
           Alone(d)  == \A e \in DOMAIN bucket \ {d} : bucket[e] # bucket[d]
           Candidates == {bucket[d] - LdrpHashEntry(v, d) : d \in {e \in initOrder : Alone(e)}}
           Tables == {table \in Candidates : LdrpIsValidHashTable(v, table)}
           Right(d) == \A e \in Windows \ {d} : WindowsBucket(release, e) # WindowsBucket(release, d)
<1>1. /\ release \in Release /\ initOrder \subseteq Windows /\ DOMAIN bucket = Windows
      /\ Windows \subseteq Dll /\ ~astray
      BY DEF IndexInv, IndexTypes, Filled, FoundIsRight, Dll
<1>2. \A d \in Windows : bucket[d] = WindowsBucket(release, d)
      BY <1>1 DEF IndexInv, IndexesAgree
<1>3. \A d \in Windows : bucket[d] = LdrpHashEntry(v, d) /\ bucket[d] \in Buckets
      BY <1>1, <1>2, HashIsRight
<1>4. LdrpFindHashTable(v) = IF Tables = {} THEN Null ELSE CHOOSE table \in Tables : TRUE
      BY DEF LdrpFindHashTable
<1> HIDE DEF v
<1>5. \A d \in Windows : Alone(d) <=> Right(d)
      BY <1>1, <1>2
<1> HIDE DEF Alone, Right
<1>6. \A d \in Windows : bucket[d] - LdrpHashEntry(v, d) = 0
      BY <1>3 DEF Buckets
<1>7. LdrpIsValidHashTable(v, 0)
  <2>1. \A i \in Buckets : 0 + i \in Buckets
        BY DEF Buckets
  <2>2. \A d \in Windows : bucket[d] = 0 + LdrpHashEntry(v, d)
        BY <1>3 DEF Buckets
  <2> QED BY <1>1, <2>1, <2>2 DEF LdrpIsValidHashTable
<1>8. CASE \E d \in initOrder : Right(d)
  <2>1. PICK d \in initOrder : Alone(d)
        BY <1>1, <1>5, <1>8
  <2>2. 0 \in Candidates
        BY <1>1, <1>6, <2>1
  <2>3. Tables = {0}
        BY <1>1, <1>6, <1>7, <2>2
  <2> HIDE DEF Tables
  <2>4. LdrpFindHashTable(v) = 0
        BY <1>4, <2>3
  <2> QED BY <1>8, <2>4 DEF v, Right
<1>9. CASE ~ \E d \in initOrder : Right(d)
  <2>1. Tables = {}
        BY <1>1, <1>5, <1>9
  <2> HIDE DEF Tables
  <2>2. LdrpFindHashTable(v) = Null
        BY <1>4, <2>1
  <2> QED BY <1>9, <2>2 DEF v, Right
<1> QED BY <1>8, <1>9

LEMMA DiscoverIsRight == IndexInv /\ Discover => IndexInv'
<1> SUFFICES ASSUME IndexInv, Discover PROVE IndexInv'
    OBVIOUS
<1> DEFINE v == GetSystemVersionCompact(release)
<1>0. IndexTypes /\ Filled /\ FoundIsRight /\ IndexesAgree
      BY DEF IndexInv
<1>1. PICK index \in [Tree -> Tree \cup {"copy", Null}] :
         /\ \A t \in Tree :
               IF v < SYSTEM_NT_6_2_RTM THEN index[t] = Null
               ELSE \E root \in DOMAIN tree[t] : index[t] = LdrpFindRbTree(t, root)
         /\ peb' = [SystemVersion |-> v,     LdrpHeap      |-> LdrpFindHeap(v),
                    Index         |-> index, LdrpHashTable |-> LdrpFindHashTable(v)]
      BY DEF Discover
<1>2. peb = Null /\ UNCHANGED <<release, heapOfLdr, initOrder, place, tree, bucket, astray>>
      BY DEF Discover
<1>3. /\ peb'.SystemVersion = v /\ peb'.LdrpHeap = LdrpFindHeap(v)
      /\ peb'.Index = index /\ peb'.LdrpHashTable = LdrpFindHashTable(v)
      BY <1>1
<1>4. release \in Release
      BY <1>0 DEF IndexTypes
<1>5. index = [t \in Tree |->
                 IF ~HasTrees(release) \/ ~hasData THEN Null
                 ELSE IF \E c \in copies[t] : c < headerAt[t] THEN "copy" ELSE t]
  <2>1. v \in Nat /\ (v >= SYSTEM_NT_6_2_RTM <=> HasTrees(release))
        BY <1>4, Families DEF HasTrees
  <2>2. SYSTEM_NT_6_2_RTM \in Nat
        BY Boundaries
  <2> HIDE DEF v
  <2>3. ASSUME NEW t \in Tree
        PROVE  index[t] = IF ~HasTrees(release) \/ ~hasData THEN Null
                          ELSE IF \E c \in copies[t] : c < headerAt[t] THEN "copy" ELSE t
        BY <1>0, <1>1, <2>1, <2>2, TreeIsFound
  <2> QED BY <2>3
<1>6. ~astray
      BY <1>0, <1>2 DEF FoundIsRight
<1> HIDE DEF v
<1>7. FoundIsRight'
  <2>1. LdrpFindHeap(v) = heapOfLdr
        BY <1>0, HeapIsRight DEF v
  <2>2. LdrpFindHashTable(v) =
              IF \E d \in initOrder : \A e \in Windows \ {d} :
                    WindowsBucket(release, e) # WindowsBucket(release, d)
                 THEN 0 ELSE Null
        BY <1>2, HashTableIsFound DEF v
  <2>3. \A d \in Windows : WindowsBucket(release, d)' = WindowsBucket(release, d)
        BY <1>2
  <2>4. HasTrees(release)' = HasTrees(release) /\ UNCHANGED <<hasData, headerAt, copies>>
        BY <1>2 DEF place
  <2> QED BY <1>2, <1>3, <1>5, <1>6, <2>1, <2>2, <2>3, <2>4 DEF FoundIsRight
<1>8. IndexTypes' /\ Filled'
      BY <1>0, <1>2, <1>3 DEF IndexTypes, Filled, place, v
<1>9. IndexesAgree'
      BY <1>0, <1>2 DEF IndexesAgree
<1> QED BY <1>7, <1>8, <1>9 DEF IndexInv

LEMMA LoadIsRight ==
    ASSUME IndexInv, NEW d \in Memory, Load(d) PROVE IndexInv'
<1> DEFINE v == GetSystemVersionCompact(release)
<1>0. IndexTypes /\ Filled /\ FoundIsRight /\ IndexesAgree
      BY DEF IndexInv
<1>1. /\ peb # Null /\ ~astray /\ d \notin DOMAIN bucket
      /\ UNCHANGED <<release, heapOfLdr, initOrder, place, peb>>
      /\ peb.SystemVersion = v /\ release \in Release
      BY <1>0 DEF Load, Filled, IndexTypes
<1>2. /\ d \in Dll /\ d # ntdll
      /\ HasTrees(release) <=> v >= SYSTEM_NT_6_2_RTM
      BY <1>1, IndexesAssumption, Families DEF IndexesAssumption, Dll, HasTrees
<1>3. /\ LdrpHashEntry(v, d) = WindowsBucket(release, d)
      /\ WindowsBucket(release, d) \in Int
      BY <1>1, <1>2, HashIsRight DEF Buckets
<1> HIDE DEF v
<1>4. /\ tree' \in [Tree -> Seq(Dll)]
      /\ HasTrees(release) => \A t \in Tree : InOrder(t, tree'[t], DOMAIN bucket \cup {d})
  <2>1. CASE HasTrees(release)
    <3>1. PICK b \in LdrpRbTreeInsert("BaseAddressIndex", d),
               m \in LdrpRbTreeInsert("MappingInfoIndex", d) :
                  tree' = [t \in Tree |-> IF t = "BaseAddressIndex" THEN b ELSE m]
          BY <1>1, <1>2, <2>1 DEF Load
    <3>2. ASSUME NEW t \in Tree
          PROVE  \A new \in LdrpRbTreeInsert(t, d) :
                    new \in Seq(Dll) /\ InOrder(t, new, DOMAIN bucket \cup {d})
      <4>1. tree[t] \in Seq(Dll) /\ InOrder(t, tree[t], DOMAIN bucket)
            BY <1>0, <1>1, <2>1 DEF IndexTypes, IndexesAgree
      <4>2. d \notin Nodes(t, DOMAIN bucket)
            BY <1>1 DEF Nodes
      <4> QED BY <1>2, <4>1, <4>2, InsertionInOrder
    <3> QED BY <3>1, <3>2 DEF Tree
  <2>2. CASE ~HasTrees(release)
    <3>1. tree' = tree
          BY <1>1, <1>2, <2>2 DEF Load
    <3> QED BY <1>0, <2>2, <3>1 DEF IndexTypes
  <2> QED BY <2>1, <2>2
<1>5. CASE peb.LdrpHashTable = Null
  <2>1. astray' /\ bucket' = bucket
        BY <1>5 DEF Load
  <2>2. FoundIsRight'
    <3>1. HasTrees(release)' = HasTrees(release) /\ UNCHANGED <<hasData, headerAt, copies>>
          BY <1>1 DEF place
    <3> QED BY <1>0, <1>1, <1>5, <2>1, <3>1 DEF FoundIsRight
  <2>3. IndexTypes'
        BY <1>0, <1>1, <1>4, <2>1 DEF IndexTypes, place
  <2> QED BY <1>0, <1>1, <2>1, <2>2, <2>3 DEF IndexInv, Filled, IndexesAgree
<1>6. CASE peb.LdrpHashTable # Null
  <2>1. /\ astray' = ("copy" \in Range(peb.Index))
        /\ bucket' = [e \in DOMAIN bucket \cup {d} |->
                         IF e = d THEN peb.LdrpHashTable + LdrpHashEntry(peb.SystemVersion, d)
                         ELSE bucket[e]]
        BY <1>6 DEF Load
  <2>2. peb.LdrpHashTable = 0
        BY <1>0, <1>1, <1>6 DEF FoundIsRight
  <2>3. /\ DOMAIN bucket' = DOMAIN bucket \cup {d}
        /\ \A e \in DOMAIN bucket' : bucket'[e] = WindowsBucket(release, e)
        BY <1>0, <1>1, <1>3, <2>1, <2>2 DEF IndexesAgree
  <2>4. FoundIsRight'
    <3>1. HasTrees(release)' = HasTrees(release) /\ UNCHANGED <<hasData, headerAt, copies, peb>>
          BY <1>1 DEF place
    <3>2. astray' => \E t \in Tree : peb.Index[t] = "copy"
      <4>1. DOMAIN peb.Index = Tree
            BY <1>0, <1>1 DEF FoundIsRight
      <4> QED BY <2>1, <4>1 DEF Range
    <3> QED BY <1>0, <1>1, <3>1, <3>2 DEF FoundIsRight
  <2>5. IndexesAgree'
        BY <1>1, <1>4, <2>3 DEF IndexesAgree
  <2>6. IndexTypes'
        BY <1>0, <1>1, <1>2, <1>4, <2>3 DEF IndexTypes, place
  <2> QED BY <1>0, <1>1, <2>3, <2>4, <2>5, <2>6 DEF IndexInv, Filled
<1> QED BY <1>5, <1>6

LEMMA UnloadIsRight ==
    ASSUME IndexInv, NEW d \in Memory, Unload(d) PROVE IndexInv'
<1> DEFINE v == GetSystemVersionCompact(release)
           D == DOMAIN bucket
<1>0. IndexTypes /\ Filled /\ FoundIsRight /\ IndexesAgree
      BY DEF IndexInv
<1>1. /\ ~astray /\ d \in D /\ d \notin Windows
      /\ UNCHANGED <<release, heapOfLdr, initOrder, place, peb, astray>>
      /\ bucket' = [e \in D \ {d} |-> bucket[e]]
      BY IndexesAssumption DEF Unload, IndexesAssumption
<1>2. peb # Null /\ peb.SystemVersion = v /\ release \in Release
      BY <1>0, <1>1 DEF Filled, IndexTypes
<1>3. HasTrees(release) <=> v >= SYSTEM_NT_6_2_RTM
      BY <1>2, Families DEF HasTrees
<1> HIDE DEF v
<1>4. /\ DOMAIN bucket' = D \ {d}
      /\ \A e \in DOMAIN bucket' : bucket'[e] = WindowsBucket(release, e)
      BY <1>0, <1>1 DEF IndexesAgree
<1>5. /\ tree' \in [Tree -> Seq(Dll)]
      /\ HasTrees(release) => \A t \in Tree : InOrder(t, tree'[t], D \ {d})
  <2>1. CASE HasTrees(release)
    <3>1. tree' = [t \in Tree |-> RemoveAt(tree[t], CHOOSE i \in DOMAIN tree[t] : tree[t][i] = d)]
          BY <1>2, <1>3, <2>1 DEF Unload
    <3>2. ASSUME NEW t \in Tree
          PROVE  tree'[t] \in Seq(Dll) /\ InOrder(t, tree'[t], D \ {d})
      <4>1. tree[t] \in Seq(Dll) /\ InOrder(t, tree[t], D) /\ D \subseteq Dll
            BY <1>0, <1>1, <2>1 DEF IndexTypes, IndexesAgree
      <4>2. d \in Nodes(t, D)
            BY <1>1, IndexesAssumption DEF Nodes, IndexesAssumption
      <4>3. LET i == CHOOSE i \in DOMAIN tree[t] : tree[t][i] = d IN
            RemoveAt(tree[t], i) \in Seq(Dll) /\ InOrder(t, RemoveAt(tree[t], i), D \ {d})
            BY <4>1, <4>2, TakenOut
      <4> QED BY <3>1, <4>3
    <3> QED BY <3>1, <3>2
  <2>2. CASE ~HasTrees(release)
    <3>1. tree' = tree
          BY <1>2, <1>3, <2>2 DEF Unload
    <3> QED BY <1>0, <2>2, <3>1 DEF IndexTypes
  <2> QED BY <2>1, <2>2
<1>6. FoundIsRight'
      BY <1>0, <1>1 DEF FoundIsRight, place
<1>7. IndexesAgree'
      BY <1>1, <1>4, <1>5 DEF IndexesAgree
<1>8. IndexTypes'
      BY <1>0, <1>1, <1>4, <1>5 DEF IndexTypes, place
<1> QED BY <1>0, <1>1, <1>2, <1>6, <1>7, <1>8 DEF IndexInv, Filled

LEMMA IndexInvNext == IndexInv /\ [IndexesNext]_indexVars => IndexInv'
<1> SUFFICES ASSUME IndexInv, [IndexesNext]_indexVars PROVE IndexInv'
    OBVIOUS
<1>1. CASE UNCHANGED indexVars
      BY <1>1 DEF indexVars, place, IndexInv, IndexTypes, Filled, FoundIsRight, IndexesAgree
<1> QED BY <1>1, DiscoverIsRight, LoadIsRight, UnloadIsRight DEF IndexesNext

\* On every release, whatever its modules are called and wherever they are, what
\* the code finds is what Windows has, unless there is no .data, or words before a
\* header equal it, or no module to be initialised is alone in its bucket.
THEOREM FoundIsRightHolds == IndexesSpec => []FoundIsRight
<1>1. IndexInv => FoundIsRight
      BY DEF IndexInv
<1> QED BY <1>1, IndexInvInit, IndexInvNext, PTL DEF IndexesSpec

\* However many modules come and go, copies of one image included, the trees and
\* the hash table stay as Windows searches them.
THEOREM IndexesAgreeHolds == IndexesSpec => []IndexesAgree
<1>1. IndexInv => IndexesAgree
      BY DEF IndexInv
<1> QED BY <1>1, IndexInvInit, IndexInvNext, PTL DEF IndexesSpec
===============================================================================
