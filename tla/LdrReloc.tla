------------------------------- MODULE LdrReloc -------------------------------
(***************************************************************************)
(* LdrRelocateImage of win-polyfill-core/loader.h: the walk through the    *)
(* blocks of the relocation table.  The size of each block is subtracted   *)
(* from an unsigned count of bytes, and the walk ends when that is 0.      *)
(* LdrProcessRelocationBlock, of ntdll, applies a block and returns the    *)
(* address behind it.                                                      *)
(*                                                                         *)
(* Each address is read once, so the size that a block has is chosen when  *)
(* it is read, also behind the end of the table.  Nothing says that it is  *)
(* even: of an odd size the last byte belongs to no offset, and the next   *)
(* block begins there.  What LdrpLink does with the result is in LdrLoad.  *)
(***************************************************************************)
EXTENDS Integers

CONSTANTS Word,        \* what a ULONG can count to: 2^32
          Mapped,      \* bytes that are mapped from the table on
          TableSizes,  \* sizes that the data directory may give
          BlockSizes   \* values that a SizeOfBlock may have

SizeOfHeader == 8   \* sizeof(IMAGE_BASE_RELOCATION)

ASSUME RelocAssumption ==
    /\ Word \in Nat /\ Mapped \in Nat /\ Mapped < Word
    /\ SizeOfHeader <= Word /\ Word % 2 = 0
    /\ TableSizes \subseteq 0 .. Word - 1 /\ BlockSizes \subseteq 0 .. Word - 1

VARIABLES tableSize,        \* Size of the data directory
          TotalCountBytes,  \* bytes left
          NextBlock,        \* where the next block is, counted from the table
          odd,              \* history: how many blocks had an odd size
          status            \* "walking", or how the walk ended

relocVars == <<tableSize, TotalCountBytes, NextBlock, odd, status>>

RelocInit ==
    /\ tableSize \in TableSizes
    /\ TotalCountBytes = tableSize
    /\ NextBlock = 0 /\ odd = 0
    /\ status = IF tableSize = 0 THEN "success" ELSE "walking"

\* Unsigned subtraction.
Minus(a, b) == IF b <= a THEN a - b ELSE a - b + Word

\* A plausible bug of Offsets: the header is not subtracted.
Offsets_WithHeader(SizeOfBlock) == SizeOfBlock \div 2

\* The offsets of fixups that a block of this size has.
Offsets(SizeOfBlock) == Minus(SizeOfBlock, SizeOfHeader) \div 2

\* The block is applied; one that reaches out of mapped memory ends the walk
\* with an exception, which the caller catches.
Apply(SizeOfBlock) ==
    /\ status = "walking"
    /\ TotalCountBytes' = Minus(TotalCountBytes, SizeOfBlock)
    /\ LET end == NextBlock + SizeOfHeader + 2 * Offsets(SizeOfBlock) IN
          IF end > Mapped
             THEN status' = "exception" /\ UNCHANGED <<NextBlock, odd>>
             ELSE /\ NextBlock' = end /\ odd' = odd + (SizeOfBlock % 2)
                  /\ status' = IF TotalCountBytes' = 0 THEN "success" ELSE "walking"
    /\ UNCHANGED tableSize

\* A fixup of unknown type: LdrProcessRelocationBlock returns null.
Reject(SizeOfBlock) ==
    /\ status = "walking"
    /\ Offsets(SizeOfBlock) > 0 /\ NextBlock + SizeOfHeader < Mapped
    /\ TotalCountBytes' = Minus(TotalCountBytes, SizeOfBlock)
    /\ status' = "invalid"
    /\ UNCHANGED <<tableSize, NextBlock, odd>>

RelocNext == \E s \in BlockSizes : Apply(s) \/ Reject(s)

RelocSpec == RelocInit /\ [][RelocNext]_relocVars

-------------------------------------------------------------------------------
(* Safety *)

\* Success is reported only when the sizes of the blocks add up to the size of
\* the table, but for one wrap of the counter.  Then, although no size is compared
\* with what is left, the blocks fill the table exactly if no size was odd: one
\* that reaches over the end, or is shorter than its header, never leads to
\* success.  A block of odd size leaves the walk one byte behind.
SuccessMeansWholeTable ==
    status = "success" => /\ odd = 0 => NextBlock = tableSize
                          /\ NextBlock + odd \in {tableSize, tableSize + Word}
===============================================================================
