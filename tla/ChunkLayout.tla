---------------------------- MODULE ChunkLayout ----------------------------
(***************************************************************************)
(* The arithmetic of ChunkPool (src/src/chunk.rs): how a request is put    *)
(* into a size class and where a packed chunk lands in its page.           *)
(***************************************************************************)
EXTENDS Integers

CONSTANTS
  PageBytes,     \* page_size() of the underlying PagePool
  DefaultAlign   \* ChunkPool::DEFAULT_ALIGN, the alignment a source promises

ASSUME LayoutAssumption == PageBytes \in Nat \ {0} /\ DefaultAlign \in Nat \ {0}

Threshold == PageBytes \div 2

\* align_up: (value + align - 1) & !(align - 1).  The mask clears the bits
\* below a power of two.
AlignUp(value, align) == LET v == value + align - 1 IN v - (v % align)

\* Mutant: the dispatch makes no allowance for padding.
ClassNoPad(size, align) ==
  IF size = 0 THEN "zero"
  ELSE IF size <= Threshold THEN "packed"
  ELSE IF size > PageBytes \/ align > DefaultAlign THEN "oversized" ELSE "dedicated"

\* The dispatch of allocate_aligned.
Class(size, align) ==
  IF size = 0 THEN "zero"
  ELSE IF align <= DefaultAlign
    THEN IF size > PageBytes THEN "oversized"
         ELSE IF size > Threshold THEN "dedicated" ELSE "packed"
  ELSE IF size <= Threshold /\ size + (align - 1) <= PageBytes
    THEN "packed" ELSE "oversized"

\* Mutant: the offset is aligned instead of the address.
PackedOffsetRelative(base, offset, align) == AlignUp(offset, align)

\* allocate_packed aligns the absolute address base + offset.
PackedOffset(base, offset, align) == AlignUp(base + offset, align) - base

\* Mutant: the size is left out of the comparison.
FitsIgnoresSize(base, offset, size, align) == PackedOffset(base, offset, align) <= PageBytes

Fits(base, offset, size, align) == PackedOffset(base, offset, align) + size <= PageBytes
=============================================================================
