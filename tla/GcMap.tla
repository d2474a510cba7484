------------------------------- MODULE GcMap -------------------------------
(***************************************************************************)
(* gc_mmap and gc_munmap of src/m_gc_map.c: memory aligned to M_PAGE_SIZE, *)
(* which a build may define larger than the pages of the system.  Addresses*)
(* are in bytes, what is mapped is a set of system pages.  The rest of the *)
(* process maps and unmaps memory between any two calls of gc_mmap.        *)
(***************************************************************************)
EXTENDS Integers, FiniteSets

CONSTANTS
  OSPage,        \* page size of the system
  M_PAGE_SIZE,   \* a multiple of it
  Space,         \* numbers of the system pages that can be mapped
  Sizes,         \* values of gc_cell_pool_size
  MaxOther       \* bound: system pages the rest of the process maps

MapAssumption ==
  /\ OSPage \in Nat \ {0} /\ M_PAGE_SIZE \in Nat \ {0} /\ M_PAGE_SIZE % OSPage = 0
  /\ Space \subseteq Nat /\ \A n \in Space : n * OSPage >= M_PAGE_SIZE
  /\ MaxOther \in Nat
  /\ \A n \in Sizes : n \in Nat \ {0} /\ n % M_PAGE_SIZE = 0

VARIABLES
  pc,       \* "idle", the next attempt of gc_mmap, or "done"
  size, pu8,
  ours,     \* system pages mapped for the caller of gc_mmap
  others,   \* system pages mapped for the rest of the process
  result,   \* what gc_mmap returned, 0 is NULL
  moved,    \* a mapping was not put at the address that was asked for
  stray     \* gc_mmap unmapped a page it had not mapped

vars == <<pc, size, pu8, ours, others, result, moved, stray>>

Pages(a, n) == {p \in Space : a < (p + 1) * OSPage /\ p * OSPage < a + n}
PageCount(n) == (n + OSPage - 1) \div OSPage
Free == Space \ (ours \cup others)
Fits(a, n) == Pages(a, n) \subseteq Free /\ Cardinality(Pages(a, n)) = PageCount(n)

\* Addresses mmap may return: a hint that is free is taken, any other place is
\* as good when it is not, or when there is no hint (0).
Mapped(hint, n) ==
  IF hint # 0 /\ Fits(hint, n) THEN {hint} ELSE {a \in {p * OSPage : p \in Space} : Fits(a, n)}

Offset(a) == a % M_PAGE_SIZE
AlignedUp(n) == ((n + M_PAGE_SIZE - 1) \div M_PAGE_SIZE) * M_PAGE_SIZE

\* gc_mmap returns r, having mapped and unmapped these pages on the way.
Return(r, mapped, unmapped) ==
  /\ result' = r /\ pc' = "done"
  /\ ours' = (ours \cup mapped) \ unmapped
  /\ stray' = (stray \/ ~(unmapped \subseteq ours \cup mapped))
  /\ UNCHANGED <<size, others>>
-----------------------------------------------------------------------------
\* The first attempt: memory that happens to be aligned.  When mmap fails the
\* NULL of sys_mmap passes for an aligned address and is returned.
gc_mmap(n) ==
  /\ pc = "idle"
  /\ size' = AlignedUp(n)
  /\ moved' = FALSE
  /\ \/ /\ result' = 0 /\ pu8' = 0 /\ pc' = "done"
        /\ UNCHANGED ours
     \/ \E a \in Mapped(0, size') :
          /\ pu8' = a
          /\ ours' = Pages(a, size')
          /\ IF Offset(a) = 0
               THEN result' = a /\ pc' = "done"
               ELSE result' = 0 /\ pc' = "after"
  /\ UNCHANGED <<others, stray>>

\* The second: enlarge it at its end and cut off its beginning.  Wherever the
\* system puts the addition, the result is the same.
map_after ==
  LET diff == M_PAGE_SIZE - Offset(pu8)
      hint == pu8 + size
  IN  /\ pc = "after"
      /\ \/ \E a \in Mapped(hint, diff) :
              /\ Return(pu8 + diff, Pages(a, diff), Pages(pu8, diff))
              /\ moved' = (a # hint)
         \/ pc' = "before" /\ UNCHANGED <<size, ours, others, result, moved, stray>>
      /\ UNCHANGED pu8

\* The third: enlarge it at its beginning and cut off its end.  When that
\* fails too, all of it is given back.
map_before ==
  LET diff == Offset(pu8)
      hint == pu8 - diff
  IN  /\ pc = "before"
      /\ \/ \E a \in Mapped(hint, diff) :
              /\ Return(hint, Pages(a, diff), Pages(pu8 + size - diff, diff))
              /\ moved' = (a # hint)
         \/ /\ pc' = "big" /\ ours' = ours \ Pages(pu8, size)
            /\ UNCHANGED <<size, others, result, moved, stray>>
      /\ UNCHANGED pu8

\* Mutant: the bytes cut off the front are not taken off the rest.
TailLong(head) == M_PAGE_SIZE - 1

\* Bytes after the result in the big buffer, when head are before it.
Tail(head) == M_PAGE_SIZE - 1 - head

\* The last: a buffer large enough to hold an aligned one.
map_big ==
  LET n == size + M_PAGE_SIZE - 1
  IN  /\ pc = "big"
      /\ \/ \E a \in Mapped(0, n) :
              LET head == IF Offset(a) = 0 THEN 0 ELSE M_PAGE_SIZE - Offset(a)
              IN  Return(a + head, Pages(a, n),
                         Pages(a, head) \cup Pages(a + head + size, Tail(head)))
         \/ Return(0, {}, {})
      /\ UNCHANGED <<pu8, moved>>

\* The caller unmaps it: whatever is in that range goes, and what was put
\* elsewhere stays mapped.
gc_munmap ==
  /\ pc = "done"
  /\ LET range == IF result = 0 THEN {} ELSE Pages(result, size)
     IN  others' = (others \cup ours) \ range
  /\ pc' = "idle" /\ ours' = {} /\ result' = 0 /\ pu8' = 0 /\ size' = 0 /\ moved' = FALSE
  /\ UNCHANGED stray

\* malloc, other libraries: one page at a time.
Others ==
  /\ \/ \E p \in Free : Cardinality(others) < MaxOther /\ others' = others \cup {p}
     \/ \E p \in others : others' = others \ {p}
  /\ UNCHANGED <<pc, size, pu8, ours, result, moved, stray>>

Init ==
  /\ pc = "idle" /\ size = 0 /\ pu8 = 0 /\ ours = {} /\ others = {} /\ result = 0
  /\ moved = FALSE /\ stray = FALSE

Next == (\E n \in Sizes : gc_mmap(n)) \/ map_after \/ map_before \/ map_big \/ gc_munmap \/ Others

Spec == Init /\ [][Next]_vars
-----------------------------------------------------------------------------
\* gc_mmap returns memory aligned to M_PAGE_SIZE of which every page, and no
\* other, is mapped for the caller, whichever attempt succeeds and whatever the
\* rest of the process maps meanwhile; a call that fails leaves nothing mapped;
\* and no attempt unmaps what it has not mapped.  Not so when the system puts
\* an addition elsewhere than asked, which the code does not notice.
PoolMapped ==
  /\ ~stray
  /\ pc = "done" =>
       IF result = 0
         THEN ours = {}
         ELSE Offset(result) = 0 /\ (moved \/ ours = Pages(result, size))
=============================================================================
