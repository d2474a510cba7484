------------------------------- MODULE GcBuf -------------------------------
(***************************************************************************)
(* The buffers of src/m_gc_buf.c, and a client that keeps one buffer with  *)
(* the size it last asked for, as the new-born stack is kept.  Integer     *)
(* widths are scaled; no request exceeds half of the address space.        *)
(***************************************************************************)
EXTENDS Integers

CONSTANTS
  WordSize,    \* sizeof(uintptr_t)
  SizeBits,    \* width of size_t
  UInt32Bits,  \* width of uint32_t
  NoBlock

BufAssumption ==
  /\ WordSize \in Nat \ {0} /\ UInt32Bits \in Nat /\ SizeBits \in Nat /\ UInt32Bits < SizeBits
  /\ WordSize < 2^(UInt32Bits)
  /\ \A k \in 1 .. SizeBits : 2^(k - 1) \in Nat \ {0} /\ 2^k = 2 * 2^(k - 1)
  /\ NoBlock \notin 0 .. 2^SizeBits

VARIABLES
  block,   \* bytes of the memory block the client's pointer refers to, or NoBlock
  size,    \* the size the client believes it has
  lost     \* sizes of buffers that nobody refers to and nobody freed

vars == <<block, size, lost>>

Request == 0 .. 2^(SizeBits - 1) - 1

\* Mutant: down to a multiple of the word size.
gc_size_align_down(n) == n - (n % WordSize)

gc_size_align(n) == (((n + WordSize - 1) \div WordSize) * WordSize) % 2^SizeBits

\* malloc and realloc succeed or return NULL.
Alloc(n) ==
  \/ block' = gc_size_align(n) /\ size' = n
  \/ block' = NoBlock /\ size' = 0

m_gc_alloc_buf(n) ==
  /\ block = NoBlock
  /\ Alloc(n)
  /\ UNCHANGED lost

\* The size is converted to uint32_t; nothing happens when that leaves 0.
Released == size % 2^UInt32Bits # 0
Lost == IF Released THEN lost ELSE lost \cup {size}

m_gc_free_buf ==
  /\ block # NoBlock
  /\ block' = NoBlock /\ size' = 0
  /\ lost' = Lost

\* A client that gets NULL for a size other than 0 keeps what it has.
m_gc_realloc_buf(n) ==
  /\ block # NoBlock
  /\ \/ size = 0 /\ Alloc(n) /\ lost' = lost \cup {size}
     \/ size # 0 /\ n = 0 /\ block' = NoBlock /\ size' = 0 /\ lost' = Lost
     \/ size # 0 /\ n # 0 /\ n <= size /\ size' = n /\ UNCHANGED <<block, lost>>
     \/ size # 0 /\ n > size /\ block' = gc_size_align(n) /\ size' = n /\ UNCHANGED lost
     \/ size # 0 /\ n > size /\ UNCHANGED vars

Init == block = NoBlock /\ size = 0 /\ lost = {}

Next ==
  \/ \E n \in Request : m_gc_alloc_buf(n) \/ m_gc_realloc_buf(n)
  \/ m_gc_free_buf

Spec == Init /\ [][Next]_vars
-----------------------------------------------------------------------------
\* Through any sequence of growing, shrinking and growing again the block is at
\* least as long as the size its owner relies on, and the only buffers that are
\* lost are those whose size is 0 in the 32 bits m_gc_free_buf takes.
BufferHolds ==
  /\ block # NoBlock => size <= block
  /\ \A n \in lost : n % 2^UInt32Bits = 0
=============================================================================
