----------------------------- MODULE PoolLayout -----------------------------
(***************************************************************************)
(* A cell pool of src/m_gc_obj.c in bytes and bits, where GcObj has cells  *)
(* and a function from cells to marks: the pool size taken from the        *)
(* environment, how many cells fit beside the bitmap, how the address of a *)
(* cell leads to its pool and its index, and marks packed into words.      *)
(*                                                                         *)
(* The code mixes widths: sizes are size_t, the number of cells and the    *)
(* index of a cell become int, and the sweep multiplies in uint32_t.  All  *)
(* of them wrap here as they do there.  Only the int that counts more than *)
(* 2^31 cells down overflows without a definition; it is taken to wrap.    *)
(*                                                                         *)
(* marks is what the marks of the cells should be, and wild tells whether  *)
(* memory that was not meant has been written, after which nothing is said *)
(* of the program any more; the code has neither.                          *)
(***************************************************************************)
EXTENDS Integers, FiniteSets, FiniteSetsExt

CONSTANTS
  M_PAGE_SIZE,
  HeaderSize,     \* sizeof(M_GCCellPool), a multiple of the word size
  WordSize,       \* sizeof(uintptr_t)
  LongBits,       \* width of long and of size_t
  IdBits,         \* width of int and of uint32_t
  MarksPerWord,   \* marks in a uint32_t, 16 in the code
  CellSizes,      \* sizes of the object types, multiples of the word size
  PoolAddrs,      \* addresses gc_mmap may return, multiples of M_PAGE_SIZE
  MaxUsed         \* bound: cells in use

LayoutAssumption ==
  /\ WordSize \in Nat \ {0, 1} /\ MarksPerWord \in Nat \ {0}
  /\ \A n \in {LongBits, IdBits} :
       n \in Nat \ {0} /\ \A k \in 1 .. n : 2^(k - 1) \in Nat \ {0} /\ 2^k = 2 * 2^(k - 1)
  /\ \A k \in 1 .. MarksPerWord : 4^(k - 1) \in Nat \ {0} /\ 4^k = 4 * 4^(k - 1)
  /\ \E k \in 0 .. LongBits - 2 : M_PAGE_SIZE = 2^k
  /\ M_PAGE_SIZE % WordSize = 0
  /\ HeaderSize \in 0 .. M_PAGE_SIZE - 1 /\ HeaderSize % WordSize = 0
  /\ (WordSize * 8) % (MarksPerWord * 2) = 0
  /\ \A c \in CellSizes : c \in Nat \ {0} /\ c % WordSize = 0
  /\ \A p \in PoolAddrs : p \in Nat \ {0} /\ p % M_PAGE_SIZE = 0

VARIABLES
  gc_cell_pool_size,  \* 0 before gc_obj_startup
  cell,               \* descr->size
  cell_num, bitmap_size,   \* of the stub
  pool,               \* address, 0 while there is none
  begin,              \* pool->begin
  bitmap,             \* its words
  free_cells,         \* addresses
  marks,
  wild

stubVars == <<gc_cell_pool_size, cell, cell_num, bitmap_size>>
vars == <<stubVars, pool, begin, bitmap, free_cells, marks, wild>>

GC_MARK_UNUSED == 0
GC_MARK_WHITE  == 1
GC_MARK_GRAY   == 2
GC_MARK_BLACK  == 3
-----------------------------------------------------------------------------
\* A long that is compared with a size_t becomes one.
Unsigned(n) == n % 2^LongBits
LongMax == 2^(LongBits - 1) - 1

\* A size_t that becomes an int.
ToInt(n) ==
  LET u == n % 2^IdBits
  IN  IF u < 2^(IdBits - 1) THEN u ELSE u - 2^IdBits

\* gc_cell_pool_size when strtol makes n of M_GC_CELL_POOL_SIZE: n if it is a
\* power of 2 larger than a page (the loop ends at the first v >= n, or at 0
\* when the last bit is shifted out), else a page.
PoolSizeOf(n) ==
  LET v == {2^k : k \in 0 .. LongBits - 1} \cap (Unsigned(n) .. 2^LongBits)
  IN  IF n # LongMax /\ Unsigned(n) > M_PAGE_SIZE /\ v # {} /\ Unsigned(n) = Min(v)
        THEN Unsigned(n)
        ELSE M_PAGE_SIZE

M_ALIGN_UP(n, a) == ((n + a - 1) \div a) * a

\* Mutant: the bits are rounded up to bytes and not to words.
BitmapSizeTight(num) == M_ALIGN_UP(num * 2, 8) \div 8

\* Bytes of a bitmap for num cells, in whole words.
BitmapSize(num) == M_ALIGN_UP(num * 2, WordSize * 8) \div 8

\* In size_t, as the loop compares.
Fits(num, c, pool_size) == Unsigned(num * c + BitmapSize(num)) <= pool_size - HeaderSize

\* The loop of gc_obj_startup: the first number that fits, going down.  Where
\* the bits of the pool do not fit into size_t it starts lower.
CellNum(c, pool_size) ==
  LET first == Unsigned((pool_size - HeaderSize) * 8) \div (c * 8 + 2)
  IN  Max({num \in 0 .. first : Fits(num, c, pool_size)})

Ids == 0 .. cell_num - 1
Addr(id) == begin + id * cell

\* The cells gc_alloc_pool lists: it counts them down in an int, through the
\* negative numbers when the int came out negative.
Listed == 0 .. (cell_num % 2^IdBits) - 1

gc_obj_get_pool(ptr) == ptr - (ptr % gc_cell_pool_size)

gc_obj_get_id(ptr) == ToInt((ptr - begin) \div cell)
-----------------------------------------------------------------------------
\* A word is a number whose digits to the base 4 are marks.
MarkIn(w, k) == (w \div 4^k) % 4

gc_obj_get_bitmap(id) == MarkIn(bitmap[id \div MarksPerWord], id % MarksPerWord)

\* w with mark in place of its mark k.
SetMark(w, k, mark) == w + (mark - MarkIn(w, k)) * 4^k

gc_obj_set_bitmap(id, flags) ==
  [bitmap EXCEPT ![id \div MarksPerWord] = SetMark(@, id % MarksPerWord, flags)]

\* Mutant: the loop over a word ends at the first unused cell.
LastMarkFirst(w) ==
  Min({MarksPerWord - 1} \cup {k \in 0 .. MarksPerWord - 1 : MarkIn(w, k) = GC_MARK_UNUSED})

\* The shift at which nothing is left of flags: the last mark that is set.
LastMark(w) == Max({k \in 0 .. MarksPerWord - 1 : MarkIn(w, k) # GC_MARK_UNUSED})

\* The marks the sweep looks at: in words that are not 0, up to the last.
SweptIn(w) == IF w = 0 THEN {} ELSE 0 .. LastMark(w)

SweptMark(mark) ==
  CASE mark = GC_MARK_WHITE -> GC_MARK_UNUSED
    [] mark = GC_MARK_BLACK -> GC_MARK_WHITE
    [] OTHER -> mark

\* The loop over the marks of a word: flags is w, upto[k] the word in the bitmap
\* after k marks.
SweptWord(w) ==
  LET upto[k \in 0 .. MarksPerWord] ==
        IF k = 0 THEN w
        ELSE IF k - 1 \in SweptIn(w)
               THEN SetMark(upto[k - 1], k - 1, SweptMark(MarkIn(w, k - 1)))
               ELSE upto[k - 1]
  IN  upto[MarksPerWord]

\* The white cells it meets, and where it takes them to be: it finds the first
\* cell of a word with a product of 32 bits, the others by going on from it.
SweptIds ==
  {id \in Ids : /\ id % MarksPerWord \in SweptIn(bitmap[id \div MarksPerWord])
                /\ gc_obj_get_bitmap(id) = GC_MARK_WHITE}

SweptAddr(id) ==
  LET first == (id \div MarksPerWord) * MarksPerWord
  IN  begin + ((first * cell) % 2^IdBits) + (id % MarksPerWord) * cell

HaveBlack ==
  \E n \in DOMAIN bitmap : \E k \in SweptIn(bitmap[n]) : MarkIn(bitmap[n], k) = GC_MARK_BLACK
-----------------------------------------------------------------------------
gc_obj_startup(n) ==
  /\ gc_cell_pool_size = 0
  /\ gc_cell_pool_size' = PoolSizeOf(n)
  /\ cell' \in CellSizes
  /\ cell_num' = CellNum(cell', gc_cell_pool_size')
  /\ bitmap_size' = BitmapSize(cell_num')
  /\ UNCHANGED <<pool, begin, bitmap, free_cells, marks, wild>>

gc_alloc_pool ==
  /\ gc_cell_pool_size # 0 /\ pool = 0
  /\ pool' \in PoolAddrs
  /\ bitmap' = [w \in 0 .. (bitmap_size * 4) \div MarksPerWord - 1 |-> 0]
  /\ begin' = pool' + HeaderSize + bitmap_size
  /\ free_cells' = {begin' + id * cell : id \in Listed}
  /\ marks' = [id \in Ids |-> GC_MARK_UNUSED]
  /\ UNCHANGED <<stubVars, wild>>

\* The cell of gc_alloc_obj, whose pool is the head of the list.  The mark of a
\* negative index lies before the bitmap.
gc_alloc_obj(id) ==
  /\ pool # 0 /\ Addr(id) \in free_cells
  /\ Cardinality(Listed) - Cardinality(free_cells) < MaxUsed
  /\ free_cells' = free_cells \ {Addr(id)}
  /\ wild' = (gc_obj_get_id(Addr(id)) < 0)
  /\ bitmap' = IF wild' THEN bitmap
               ELSE gc_obj_set_bitmap(gc_obj_get_id(Addr(id)), GC_MARK_WHITE)
  /\ marks' = [marks EXCEPT ![id] = GC_MARK_WHITE]
  /\ UNCHANGED <<stubVars, pool, begin>>

\* gc_mark_with_color(GC_MARK_BLACK), on an address that leads to its pool.
gc_mark(id) ==
  LET ptr == Addr(id)
  IN  /\ pool # 0 /\ marks[id] # GC_MARK_UNUSED
      /\ gc_obj_get_pool(ptr) = pool /\ gc_obj_get_bitmap(gc_obj_get_id(ptr)) = GC_MARK_WHITE
      /\ bitmap' = gc_obj_set_bitmap(gc_obj_get_id(ptr), GC_MARK_BLACK)
      /\ marks' = [marks EXCEPT ![id] = GC_MARK_BLACK]
      /\ UNCHANGED <<stubVars, pool, begin, free_cells, wild>>

gc_sweep_pool ==
  /\ pool # 0
  /\ IF HaveBlack
       THEN /\ bitmap' = [n \in DOMAIN bitmap |-> SweptWord(bitmap[n])]
            /\ free_cells' = free_cells \cup {SweptAddr(id) : id \in SweptIds}
            /\ marks' = [id \in Ids |-> SweptMark(marks[id])]
            /\ UNCHANGED <<pool, begin>>
       ELSE pool' = 0 /\ begin' = 0 /\ bitmap' = <<>> /\ free_cells' = {} /\ marks' = <<>>
  /\ wild' = (\E id \in SweptIds : SweptAddr(id) # Addr(id))
  /\ UNCHANGED stubVars

Init ==
  /\ gc_cell_pool_size = 0 /\ cell = 0 /\ cell_num = 0 /\ bitmap_size = 0
  /\ pool = 0 /\ begin = 0
  /\ bitmap = <<>> /\ free_cells = {} /\ marks = <<>> /\ wild = FALSE

Next ==
  \/ /\ ~wild
     /\ \/ \E n \in -LongMax - 1 .. LongMax : gc_obj_startup(n)
        \/ gc_alloc_pool
        \/ \E id \in DOMAIN marks : gc_alloc_obj(id) \/ gc_mark(id)
        \/ gc_sweep_pool
  \/ wild /\ UNCHANGED vars

Spec == Init /\ [][Next]_vars
-----------------------------------------------------------------------------
\* Whatever M_GC_CELL_POOL_SIZE says: the pool is a power of 2 not below a page,
\* header, bitmap and cells share it without overlap, the bitmap has a mark for
\* every cell and the cells are aligned to words.  One more cell would not fit,
\* unless the bits of the pool are too many for size_t, where room is left.  The
\* address of a cell gives its pool when the pool lies at a multiple of its
\* size, as every pool of one page does, and gives its index when this is an
\* int, as it always is in a pool of at most 2^IdBits bytes.
CellsFound ==
  pool # 0 =>
    /\ gc_cell_pool_size >= M_PAGE_SIZE /\ \E k \in 0 .. LongBits : gc_cell_pool_size = 2^k
    /\ bitmap_size * 4 >= cell_num
    /\ Addr(cell_num) <= pool + gc_cell_pool_size
    /\ (gc_cell_pool_size - HeaderSize) * 8 < 2^LongBits =>
         (cell_num + 1) * cell + BitmapSize(cell_num + 1) > gc_cell_pool_size - HeaderSize
    /\ gc_cell_pool_size <= 2^IdBits => cell_num <= 2^(IdBits - 1)
    /\ \A id \in Ids :
         /\ Addr(id) % WordSize = 0
         /\ (\A b \in 0 .. cell - 1 : gc_obj_get_id(Addr(id) + b) = id) <=> id < 2^(IdBits - 1)
         /\ gc_obj_get_pool(Addr(id)) = pool <=> pool % gc_cell_pool_size = 0

\* The packed bitmap says of every cell what was last done to it, through any
\* sequence of allocations, marks and sweeps: words that are skipped and marks
\* after the last that is set lose nothing; and the cells on the free list are
\* exactly the unused ones, at their addresses.  This ends when memory that was
\* not meant is written, which takes a pool of more than 2^IdBits bytes; only
\* there can cells be left off the list.
MarksUnpacked ==
  /\ wild => gc_cell_pool_size > 2^IdBits
  /\ pool # 0 /\ ~wild =>
       /\ \A id \in Ids : gc_obj_get_bitmap(id) = marks[id]
       /\ free_cells = {Addr(id) : id \in {i \in Listed : marks[i] = GC_MARK_UNUSED}}
       /\ gc_cell_pool_size <= 2^IdBits => Listed = Ids
=============================================================================
