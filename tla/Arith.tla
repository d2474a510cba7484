------------------------------- MODULE Arith -------------------------------
(***************************************************************************)
(* The parts of the code that are arithmetic on words, sizes and addresses,*)
(* side by side: each has its own constants and variables, and they share  *)
(* no state.                                                               *)
(***************************************************************************)
EXTENDS Integers, Sequences

CONSTANTS
  WordBits, IntBits, Cells, Things, Doubles,                        \* values
  SizeBits, CmpIntBits, Text,                                       \* comparison
  M_PAGE_SIZE, HeaderSize, WordSize, LongBits, IdBits, MarksPerWord,
  CellSizes, PoolAddrs, MaxUsed,                                    \* pools
  OSPage, MapPage, Space, Sizes, MaxOther,                          \* mapping
  BufWord, UInt32Bits, NoBlock                                      \* buffers

VARIABLES
  v, mem, made,
  key1, key2, func, order,
  gc_cell_pool_size, cell, cell_num, bitmap_size, pool, begin, bitmap, free_cells, marks, wild,
  pc, m_size, pu8, ours, others, mapped, moved, stray,
  block, b_size, lost

Value == INSTANCE MValue
Compare == INSTANCE MCmp WITH IntBits <- CmpIntBits, result <- order
Layout == INSTANCE PoolLayout
Map == INSTANCE GcMap WITH M_PAGE_SIZE <- MapPage, size <- m_size, result <- mapped
Buf == INSTANCE GcBuf WITH WordSize <- BufWord, size <- b_size
-----------------------------------------------------------------------------
\* m_value.h: a value decodes as what it was made from, where its bits suffice.
DecodesAsMade == Value!DecodesAsMade

\* m_cmp.h: the order that trees and hash tables rely on, and where it ends.
CmpIsOrder == Compare!CmpIsOrder

\* m_gc_obj.c: the layout of a pool, and the way from a cell back to it.
CellsFound == Layout!CellsFound

\* m_gc_obj.c: packed marks are the marks of the cells, through every sweep.
MarksUnpacked == Layout!MarksUnpacked

\* m_gc_map.c: gc_mmap returns an aligned range, mapped as a whole.
PoolMapped == Map!PoolMapped

\* m_gc_buf.c: a buffer is as long as its owner believes, and is not lost.
BufferHolds == Buf!BufferHolds
=============================================================================
