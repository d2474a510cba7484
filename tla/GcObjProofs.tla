---------------------------- MODULE GcObjProofs -----------------------------
(***************************************************************************)
(* The object heap, for any number of threads, pools, cells and types: its *)
(* structure, what protects the objects that are referred to, and what the *)
(* collector keeps and frees.                                              *)
(***************************************************************************)
EXTENDS GcObj, DataLemmas

HeapType ==
  /\ type \in [Pool -> Type \cup {None}]
  /\ bitmap \in [Pool -> [Cell -> Mark]]
  /\ free_cells \in [Pool -> SUBSET Cell]
  /\ usable \subseteq Pool /\ full \subseteq Pool /\ todo \subseteq Pool

\* No object is ever gray: gc_mark_with_color colours black or not at all.
NoGray == \A p \in Pool : \A c \in Cell : bitmap[p][c] # "GRAY"

\* Only a running gc_sweep holds pools off their lists.
SweepHoldsPools == at # "sweep" => todo = {}

HeapInv ==
  /\ HeapType
  /\ FreeMatchesBitmap
  /\ PoolsListed
  /\ NoGray
  /\ SweepHoldsPools
-----------------------------------------------------------------------------
LEMMA InitHeap == Init => HeapInv
  BY HeapAssumption DEF Init, HeapInv, HeapType, Mark, FreeMatchesBitmap, PoolsListed, Mapped,
     NoGray, SweepHoldsPools

LEMMA NextHeap == HeapInv /\ [Next]_vars => HeapInv'
  <1> SUFFICES ASSUME HeapInv, [Next]_vars PROVE HeapInv'
    OBVIOUS
  <1> USE HeapAssumption
  <1>1. ASSUME NEW t \in Thread, NEW ty \in Type, m_gc_alloc_obj(t, ty) PROVE HeapInv'
    <2>1. PICK p \in IF UsablePools(ty) # {} THEN UsablePools(ty) ELSE Pool \ Mapped :
            \E c \in FreeIn(p) :
              /\ type' = [type EXCEPT ![p] = ty]
              /\ free_cells' = [free_cells EXCEPT ![p] = FreeIn(p) \ {c}]
              /\ bitmap' = [bitmap EXCEPT ![p] = AllocMarks(p, c)]
              /\ usable' = IF PoolFilled(p, c) THEN usable \ {p} ELSE usable \cup {p}
              /\ full' = IF PoolFilled(p, c) THEN full \cup {p} ELSE full
      BY <1>1 DEF m_gc_alloc_obj
    <2>2. PICK c \in FreeIn(p) :
              /\ type' = [type EXCEPT ![p] = ty]
              /\ free_cells' = [free_cells EXCEPT ![p] = FreeIn(p) \ {c}]
              /\ bitmap' = [bitmap EXCEPT ![p] = AllocMarks(p, c)]
              /\ usable' = IF PoolFilled(p, c) THEN usable \ {p} ELSE usable \cup {p}
              /\ full' = IF PoolFilled(p, c) THEN full \cup {p} ELSE full
      BY <2>1
    <2>3. p \in Pool /\ (p \in usable \/ p \in Pool \ Mapped)
      BY <2>1 DEF UsablePools, HeapInv, HeapType
    <2>4. FreeIn(p) \subseteq Cell /\ c \in Cell
      BY <2>2, <2>3 DEF FreeIn, HeapInv, HeapType
    <2>5. todo' = todo /\ todo = {} /\ at' \in {"idle", "pause"}
      BY <1>1 DEF m_gc_alloc_obj, gc_collect_objs, Mutator, HeapInv, SweepHoldsPools
    <2>6. HeapType'
      BY <2>2, <2>3, <2>4, <2>5 DEF HeapInv, HeapType, AllocMarks, Mark
    <2>7. Mapped' = Mapped \cup {p}
      BY <2>2, <2>3 DEF Mapped, HeapInv, HeapType
    <2>8. FreeMatchesBitmap'
      <3>1. \A d \in Cell : bitmap'[p][d] = (IF d = c THEN "WHITE" ELSE IF p \in usable THEN bitmap[p][d] ELSE "UNUSED")
        BY <2>2, <2>3 DEF AllocMarks, HeapInv, HeapType
      <3>2. free_cells'[p] = FreeIn(p) \ {c}
        BY <2>2, <2>3 DEF HeapInv, HeapType
      <3>3. p \in usable => free_cells[p] = {d \in Cell : bitmap[p][d] = "UNUSED"}
        BY DEF HeapInv, FreeMatchesBitmap, PoolsListed
      <3>4. free_cells'[p] = {d \in Cell : bitmap'[p][d] = "UNUSED"}
        BY <2>4, <3>1, <3>2, <3>3 DEF FreeIn
      <3>5. \A q \in Mapped : q # p => free_cells'[q] = free_cells[q] /\ bitmap'[q] = bitmap[q]
        BY <2>2 DEF HeapInv, HeapType, Mapped
      <3>6. QED
        BY <2>7, <3>4, <3>5 DEF FreeMatchesBitmap, HeapInv
    <2>9. PoolsListed'
      BY <2>2, <2>3, <2>4, <2>5, <2>7 DEF PoolsListed, HeapInv, HeapType, PoolFilled, FreeIn
    <2>10. NoGray'
      BY <2>2, <2>3 DEF NoGray, HeapInv, HeapType, AllocMarks
    <2>11. QED
      BY <2>5, <2>6, <2>8, <2>9, <2>10 DEF HeapInv, SweepHoldsPools
  <1>2. ASSUME NEW r \in pending, gc_mark_with_color(r) PROVE HeapInv'
    <2>1. /\ UNCHANGED <<type, free_cells, usable, full, todo, at>>
          /\ \/ UNCHANGED bitmap
             \/ \E c \in Resolve(r) :
                  /\ bitmap[r.pool][c] = "WHITE"
                  /\ bitmap' = [bitmap EXCEPT ![r.pool][c] = MarkColor(r.no_ptr, type[r.pool])]
      BY <1>2 DEF gc_mark_with_color, grayVars
    <2>2. CASE UNCHANGED bitmap
      BY <2>1, <2>2 DEF HeapInv, HeapType, FreeMatchesBitmap, PoolsListed, NoGray,
         SweepHoldsPools, Mapped
    <2>3. ASSUME NEW c,
                 bitmap[r.pool][c] = "WHITE",
                 bitmap' = [bitmap EXCEPT ![r.pool][c] = MarkColor(r.no_ptr, type[r.pool])]
          PROVE  HeapInv'
      <3> DEFINE q == r.pool
                 color == MarkColor(r.no_ptr, type[r.pool])
      <3>1. color \in {"WHITE", "BLACK"}
        BY DEF MarkColor
      <3>2. bitmap' = [bitmap EXCEPT ![q] = [bitmap[q] EXCEPT ![c] = color]] /\ bitmap[q][c] = "WHITE"
        BY <2>3
      <3> HIDE DEF q, color
      <3>3. bitmap' \in [Pool -> [Cell -> Mark]]
        BY <3>1, <3>2 DEF HeapInv, HeapType, Mark
      <3>4. \A p \in Pool : \A d \in Cell :
              \/ bitmap'[p][d] = bitmap[p][d]
              \/ bitmap[p][d] = "WHITE" /\ bitmap'[p][d] \in {"WHITE", "BLACK"}
        BY <3>1, <3>2 DEF HeapInv, HeapType
      <3>5. FreeMatchesBitmap' /\ NoGray'
        BY <2>1, <3>4 DEF HeapInv, FreeMatchesBitmap, NoGray, Mapped
      <3>6. QED
        BY <2>1, <3>3, <3>5 DEF HeapInv, HeapType, PoolsListed, SweepHoldsPools, Mapped
    <2>4. QED
      BY <2>1, <2>2, <2>3
  <1>3. CASE gc_sweep
    BY <1>3 DEF gc_sweep, HeapInv, HeapType, FreeMatchesBitmap, PoolsListed, NoGray,
       SweepHoldsPools, Mapped
  <1>4. ASSUME NEW p \in todo, gc_sweep_pool(p) PROVE HeapInv'
    <2> DEFINE white == CellsMarked(p, "WHITE")
               black == CellsMarked(p, "BLACK")
               free  == free_cells[p] \cup white
    <2>1. /\ at = "sweep" /\ at' = at /\ p \in Pool
          /\ todo' = todo \ {p}
          /\ bitmap' = [bitmap EXCEPT ![p] =
               [c \in Cell |-> IF c \in white THEN "UNUSED"
                               ELSE IF c \in black THEN "WHITE" ELSE bitmap[p][c]]]
          /\ free_cells' = [free_cells EXCEPT ![p] = free]
          /\ type' = IF black = {} THEN [type EXCEPT ![p] = None] ELSE type
          /\ usable' = IF black # {} /\ free # {} THEN usable \cup {p} ELSE usable
          /\ full' = IF black # {} /\ free = {} THEN full \cup {p} ELSE full
      BY <1>4 DEF gc_sweep_pool, HeapInv, HeapType
    <2>2. \A c \in Cell :
            bitmap'[p][c] = IF bitmap[p][c] \in {"UNUSED", "WHITE"} THEN "UNUSED" ELSE "WHITE"
      BY <2>1 DEF CellsMarked, HeapInv, HeapType, Mark, NoGray
    <2>3. \A q \in Pool : q # p => bitmap'[q] = bitmap[q] /\ free_cells'[q] = free_cells[q]
      BY <2>1 DEF HeapInv, HeapType
    <2>4. HeapType'
      BY <2>1 DEF HeapInv, HeapType, Mark, CellsMarked
    <2>5. p \in Mapped /\ Mapped' = IF black = {} THEN Mapped \ {p} ELSE Mapped
      BY <2>1 DEF HeapInv, HeapType, PoolsListed, Mapped
    <2>6. free_cells[p] = {c \in Cell : bitmap[p][c] = "UNUSED"}
      BY <2>5 DEF HeapInv, FreeMatchesBitmap
    <2>7. free_cells'[p] = free
      BY <2>1 DEF HeapInv, HeapType
    <2>8. free_cells'[p] = {c \in Cell : bitmap'[p][c] = "UNUSED"}
      BY <2>2, <2>6, <2>7 DEF CellsMarked
    <2>9. FreeMatchesBitmap'
      BY <2>3, <2>5, <2>8 DEF HeapInv, FreeMatchesBitmap, Mapped
    <2>10. PoolsListed'
      <3>1. p \notin usable \cup full
        BY DEF HeapInv, PoolsListed
      <3>2. Mapped' = usable' \cup full' \cup todo'
        BY <2>1, <2>5, <3>1 DEF HeapInv, PoolsListed
      <3>3. usable' \cap full' = {} /\ todo' \cap (usable' \cup full') = {}
        BY <2>1, <3>1 DEF HeapInv, PoolsListed
      <3>4. (\A q \in usable' : free_cells'[q] # {}) /\ (\A q \in full' : free_cells'[q] = {})
        BY <2>1, <2>3, <2>7, <3>1 DEF HeapInv, HeapType, PoolsListed
      <3>5. QED
        BY <3>2, <3>3, <3>4 DEF PoolsListed
    <2>11. NoGray' /\ SweepHoldsPools'
      BY <2>1, <2>2, <2>3 DEF HeapInv, NoGray, SweepHoldsPools
    <2>12. QED
      BY <2>4, <2>9, <2>10, <2>11 DEF HeapInv
  <1>5. ASSUME UNCHANGED <<type, bitmap, free_cells, usable, full, todo>>,
               at' = "sweep" => at = "sweep", at = "sweep" => todo = {} \/ at' = "sweep"
        PROVE  HeapInv'
    BY <1>5 DEF HeapInv, HeapType, FreeMatchesBitmap, PoolsListed, NoGray, SweepHoldsPools, Mapped
  <1>6. ASSUME NEW t \in Thread, NEW oid \in DOMAIN nb_stack[t],
               m_gc_add_obj(t, oid) \/ m_gc_add_root(t, oid) PROVE HeapInv'
    BY <1>5, <1>6 DEF m_gc_add_obj, m_gc_add_root, poolVars, ctlVars
  <1>7. ASSUME NEW t \in Thread, NEW level \in 0 .. MaxNb, m_gc_set_nb_level(t, level) PROVE HeapInv'
    BY <1>5, <1>7 DEF m_gc_set_nb_level, poolVars, ctlVars
  <1>8. ASSUME NEW t \in Thread,
               (\E f \in {"full", "increment"} : m_gc_run(t, f)) \/ m_thread_check(t) PROVE HeapInv'
    BY <1>5, <1>8 DEF m_gc_run, gc_collect_objs, m_thread_check, poolVars, Mutator
  <1>9. CASE gc_obj_shutdown
    BY <1>5, <1>9 DEF gc_obj_shutdown, poolVars
  <1>10. CASE m_thread_pause_all \/ gc_mark_root \/ mark_root_done \/ gc_mark_objs
    BY <1>5, <1>10 DEF m_thread_pause_all, gc_mark_root, mark_root_done, gc_mark_objs, CaseDone, poolVars
  <1>11. CASE skip_marking \/ sweep_done \/ compact
    BY <1>5, <1>11 DEF skip_marking, sweep_done, compact, CaseDone, poolVars
  <1>12. CASE UNCHANGED vars
    BY <1>5, <1>12 DEF vars, poolVars, ctlVars
  <1>13. QED
    BY <1>1, <1>2, <1>3, <1>4, <1>6, <1>7, <1>8, <1>9, <1>10, <1>11, <1>12 DEF Next, Client, Collect

LEMMA HeapInvariance == Spec => []HeapInv
  BY InitHeap, NextHeap, PTL DEF Spec

\* In every reachable state the free list of a mapped pool holds exactly the
\* cells whose mark is UNUSED.
THEOREM FreeListsExact == Spec => []FreeMatchesBitmap
  <1>1. HeapInv => FreeMatchesBitmap
    BY DEF HeapInv
  <1>2. QED
    BY <1>1, HeapInvariance, PTL

\* In every reachable state every mapped pool is on the one list that its
\* free cells ask for, or is being swept.
THEOREM PoolListsExact == Spec => []PoolsListed
  <1>1. HeapInv => PoolsListed
    BY DEF HeapInv
  <1>2. QED
    BY <1>1, HeapInvariance, PTL
-----------------------------------------------------------------------------
(***************************************************************************)
(* References that stay good (Kept), whatever increments collections are   *)
(* made in and whatever is published.  When no collection is incremental   *)
(* and only objects without pointers are declared valid, the use the tests *)
(* of the repository make of the heap, these are all references.           *)
(***************************************************************************)
RefType ==
  /\ nb_stack \in [Thread -> Seq(Ref)]
  /\ roots \subseteq Ref

\* gc_mark_with_color blackens what the reference leads to.
Blackens(r) == r.no_ptr \/ r.as \notin PtrType

\* What gc_do_collect is doing goes with its status; only the shutdown clears.
StageInv ==
  /\ ~down => flags # "clear"
  /\ at = "mark" => gc_status = "MARK_ROOT"
  /\ at = "sweep" => gc_status = "SWEEP"
  /\ at \in {"idle", "pause", "switch"} => gc_status # "MARK_ROOT"

Black(r) == bitmap[r.pool][r.cell] = "BLACK"

\* A reference leads to an allocated object, black from its visit by
\* gc_mark_root to the sweep of its pool, through all increments in between.
Protected(r) ==
  /\ Allocated(r)
  /\ at = "mark" => r \in pending \/ Black(r)
  /\ (at \in {"idle", "pause", "switch"} /\ gc_status \in {"MARK_OBJ", "SWEEP"}) => Black(r)
  /\ (at = "sweep" /\ r.pool \in todo) => Black(r)

LiveInv ==
  /\ RefType
  /\ StageInv
  /\ ~down => \A r \in References : Kept(r) => Protected(r)

\* Whole collections leave gc_status idle.
PhaseInv ==
  /\ flags # "increment"
  /\ ~down => flags # "clear"
  /\ at \in {"idle", "pause"} => gc_status = "IDLE"
  /\ at = "mark" => gc_status = "MARK_ROOT"
  /\ at = "switch" => gc_status # "MARK_ROOT"

\* With whole collections and published objects without pointers, every
\* reference is kept.
AllKept == PhaseInv /\ \A r \in References : Kept(r)

\* What the set of references is made of.
LEMMA ReferenceCases ==
  ASSUME RefType
  PROVE  /\ References \subseteq Ref
         /\ \A r : r \in References <=>
              r \in roots \/ \E t \in Thread : \E i \in DOMAIN nb_stack[t] : r = nb_stack[t][i]
  <1>1. \A r : r \in References <=>
          r \in roots \/ \E t \in Thread : \E i \in DOMAIN nb_stack[t] : r = nb_stack[t][i]
    <2>1. ASSUME NEW t \in Thread, NEW r
          PROVE  r \in Entries(t) <=> \E i \in DOMAIN nb_stack[t] : r = nb_stack[t][i]
      BY DEF Entries
    <2>2. \A r : r \in References <=> r \in roots \/ \E t \in Thread : r \in Entries(t)
      BY DEF References
    <2>3. QED
      BY <2>1, <2>2
  <1>2. \A t \in Thread : \A i \in DOMAIN nb_stack[t] : nb_stack[t][i] \in Ref
    BY DEF RefType
  <1>3. QED
    BY <1>1, <1>2 DEF RefType

LEMMA ReferenceCasesPrimed ==
  ASSUME RefType'
  PROVE  /\ References' \subseteq Ref
         /\ \A r : r \in References' <=>
              r \in roots' \/ \E t \in Thread : \E i \in DOMAIN nb_stack'[t] : r = nb_stack'[t][i]
  <1>1. \A r : r \in References' <=>
          r \in roots' \/ \E t \in Thread : \E i \in DOMAIN nb_stack'[t] : r = nb_stack'[t][i]
    <2>1. ASSUME NEW t \in Thread, NEW r
          PROVE  r \in (Entries(t))' <=> \E i \in DOMAIN nb_stack'[t] : r = nb_stack'[t][i]
      BY DEF Entries
    <2>2. \A r : r \in References' <=> r \in roots' \/ \E t \in Thread : r \in (Entries(t))'
      BY DEF References
    <2>3. QED
      BY <2>1, <2>2
  <1>2. \A t \in Thread : \A i \in DOMAIN nb_stack'[t] : nb_stack'[t][i] \in Ref
    BY DEF RefType
  <1>3. QED
    BY <1>1, <1>2 DEF RefType

LEMMA InitLive == Init => LiveInv /\ AllKept
  BY DEF Init, LiveInv, RefType, StageInv, PhaseInv, AllKept, References, Entries

\* Every step keeps the objects that are kept protected.
LEMMA NextLive == HeapInv /\ LiveInv /\ [Next]_vars => LiveInv'
  <1> SUFFICES ASSUME HeapInv, LiveInv, [Next]_vars PROVE LiveInv'
    OBVIOUS
  <1> USE HeapAssumption
  <1>0. RefType /\ References \subseteq Ref
    BY ReferenceCases DEF LiveInv
  <1>1. ASSUME NEW t \in Thread, NEW ty \in Type, m_gc_alloc_obj(t, ty) PROVE LiveInv'
    <2>1. PICK p \in IF UsablePools(ty) # {} THEN UsablePools(ty) ELSE Pool \ Mapped :
            \E c \in FreeIn(p) :
              /\ type' = [type EXCEPT ![p] = ty]
              /\ bitmap' = [bitmap EXCEPT ![p] = AllocMarks(p, c)]
              /\ nb_stack' = [nb_stack EXCEPT ![t] = Append(@, NewRef(p, c, ty))]
      BY <1>1 DEF m_gc_alloc_obj
    <2>2. PICK c \in FreeIn(p) :
              /\ type' = [type EXCEPT ![p] = ty]
              /\ bitmap' = [bitmap EXCEPT ![p] = AllocMarks(p, c)]
              /\ nb_stack' = [nb_stack EXCEPT ![t] = Append(@, NewRef(p, c, ty))]
      BY <2>1
    <2>0. PICK new : new = NewRef(p, c, ty)
      OBVIOUS
    <2>3. p \in Pool /\ c \in Cell /\ ((p \in usable /\ type[p] = ty) \/ type[p] = None)
      BY <2>1, <2>2 DEF UsablePools, FreeIn, HeapInv, HeapType, Mapped
    <2>4. new \in Ref
      BY <2>0, <2>3 DEF Ref, NewRef
    <2>5. nb_stack' = [nb_stack EXCEPT ![t] = Append(@, new)] /\ roots' = roots
      BY <1>1, <2>0, <2>2 DEF m_gc_alloc_obj
    <2>6. RefType'
      BY <1>0, <2>4, <2>5 DEF RefType
    <2>7. References' \subseteq References \cup {new}
      <3>1. ASSUME NEW u \in Thread, NEW i \in DOMAIN nb_stack'[u]
            PROVE  nb_stack'[u][i] = new \/ (i \in DOMAIN nb_stack[u] /\ nb_stack'[u][i] = nb_stack[u][i])
        BY <1>0, <2>4, <2>5, <3>1 DEF RefType
      <3>2. QED
        BY <1>0, <2>5, <2>6, <3>1, ReferenceCases, ReferenceCasesPrimed
    <2>8. StageInv' /\ at \in {"idle", "pause"} /\ at' \in {"idle", "pause"} /\ gc_status' = gc_status
      BY <1>1 DEF m_gc_alloc_obj, gc_collect_objs, Mutator, LiveInv, StageInv
    <2>9. Kept(new) => (Protected(new))'
      BY <2>0, <2>2, <2>3, <2>8 DEF NewRef, Kept, Protected, Allocated, AllocMarks, HeapInv, HeapType
    <2>10. down' = down
      BY <1>1 DEF m_gc_alloc_obj
    <2>11. ASSUME NEW r \in References, Kept(r), ~down PROVE (Protected(r))'
      <3>1. Allocated(r) /\ Protected(r) /\ r \in Ref
        BY <1>0, <2>11 DEF LiveInv, Protected
      <3>2. type'[r.pool] = r.as /\ bitmap'[r.pool][r.cell] # "UNUSED"
        BY <2>2, <2>3, <3>1 DEF Allocated, AllocMarks, HeapInv, HeapType, Ref
      <3>3. Black(r) => bitmap'[r.pool][r.cell] = "BLACK"
        <4>1. free_cells[p] = {d \in Cell : bitmap[p][d] = "UNUSED"} \/ p \notin usable
          BY DEF HeapInv, FreeMatchesBitmap, PoolsListed
        <4>2. r.pool = p => p \in usable
          BY <2>1, <3>1 DEF UsablePools, Allocated, Ref, Mapped, HeapInv, PoolsListed
        <4>3. r.pool = p /\ Black(r) => r.cell # c
          BY <2>2, <4>1, <4>2 DEF FreeIn, Black
        <4>4. QED
          BY <2>2, <2>3, <3>1, <4>2, <4>3 DEF Black, AllocMarks, HeapInv, HeapType, Ref
      <3>4. QED
        BY <2>8, <3>1, <3>2, <3>3 DEF Protected, Allocated, Black
    <2>12. QED
      BY <2>6, <2>7, <2>8, <2>9, <2>10, <2>11 DEF LiveInv, Kept
  <1>2. ASSUME NEW t \in Thread, NEW oid \in DOMAIN nb_stack[t], m_gc_add_obj(t, oid) PROVE LiveInv'
    <2> DEFINE old == nb_stack[t][oid]
               new == [old EXCEPT !.no_ptr = FALSE]
    <2>1. old \in References /\ old \in Ref /\ old.no_ptr
      BY <1>0, <1>2, ReferenceCases DEF m_gc_add_obj
    <2>2. new \in Ref /\ new.pool = old.pool /\ new.cell = old.cell /\ new.as = old.as /\ new.late = old.late
      BY <2>1 DEF Ref
    <2>3. /\ nb_stack' = [nb_stack EXCEPT ![t] = [nb_stack[t] EXCEPT ![oid] = new]]
          /\ roots' = roots /\ at \in {"idle", "pause"} /\ down' = down
          /\ UNCHANGED <<type, bitmap, at, gc_status, flags, pending, todo>>
      BY <1>2 DEF m_gc_add_obj, Mutator, poolVars, ctlVars
    <2>4. Kept(new) => Kept(old)
      BY <2>1, <2>2 DEF Kept
    <2> HIDE DEF new, old
    <2>5. RefType'
      <3>1. [nb_stack[t] EXCEPT ![oid] = new] \in Seq(Ref)
        BY <1>0, <1>2, <2>2 DEF RefType
      <3>2. QED
        BY <1>0, <2>3, <3>1 DEF RefType
    <2>6. References' \subseteq References \cup {new}
      <3>1. ASSUME NEW u \in Thread, NEW i \in DOMAIN nb_stack'[u]
            PROVE  nb_stack'[u][i] = new \/ (i \in DOMAIN nb_stack[u] /\ nb_stack'[u][i] = nb_stack[u][i])
        BY <1>0, <2>3, <3>1 DEF RefType
      <3>2. QED
        BY <1>0, <2>3, <2>5, <3>1, ReferenceCases, ReferenceCasesPrimed
    <2>7. ~down => \A r \in References \cup {new} : Kept(r) => (Protected(r))'
      BY <2>1, <2>2, <2>3, <2>4 DEF LiveInv, Protected, Allocated, Black
    <2>8. QED
      BY <2>3, <2>5, <2>6, <2>7 DEF LiveInv, StageInv
  <1>3. ASSUME NEW t \in Thread, NEW level \in 0 .. MaxNb, m_gc_set_nb_level(t, level) PROVE LiveInv'
    <2>1. /\ nb_stack' = [nb_stack EXCEPT ![t] = SubSeq(nb_stack[t], 1, level)]
          /\ level < Len(nb_stack[t]) /\ level \in Nat
          /\ roots' = roots /\ down' = down
          /\ UNCHANGED <<type, bitmap, at, gc_status, flags, pending, todo>>
      BY <1>3 DEF m_gc_set_nb_level, poolVars, ctlVars
    <2>2. nb_stack[t] \in Seq(Ref)
      BY <1>0 DEF RefType
    <2>3. /\ SubSeq(nb_stack[t], 1, level) \in Seq(Ref)
          /\ \A i \in DOMAIN SubSeq(nb_stack[t], 1, level) :
               i \in DOMAIN nb_stack[t] /\ SubSeq(nb_stack[t], 1, level)[i] = nb_stack[t][i]
      BY <2>1, <2>2
    <2>4. RefType'
      BY <1>0, <2>1, <2>3 DEF RefType
    <2>5. References' \subseteq References
      <3>1. ASSUME NEW u \in Thread, NEW i \in DOMAIN nb_stack'[u]
            PROVE  i \in DOMAIN nb_stack[u] /\ nb_stack'[u][i] = nb_stack[u][i]
        BY <1>0, <2>1, <2>3, <3>1 DEF RefType
      <3>2. QED
        BY <1>0, <2>1, <2>4, <3>1, ReferenceCases, ReferenceCasesPrimed
    <2>6. QED
      BY <2>1, <2>4, <2>5 DEF LiveInv, StageInv, Kept, Protected, Allocated, Black
  <1>4. ASSUME NEW t \in Thread, NEW oid \in DOMAIN nb_stack[t], m_gc_add_root(t, oid) PROVE LiveInv'
    <2>1. /\ roots' = roots \cup {nb_stack[t][oid]} /\ nb_stack' = nb_stack /\ down' = down
          /\ UNCHANGED <<type, bitmap, at, gc_status, flags, pending, todo>>
      BY <1>4 DEF m_gc_add_root, poolVars, ctlVars
    <2>2. nb_stack[t][oid] \in References
      BY <1>0, ReferenceCases
    <2>3. RefType'
      BY <1>0, <2>1, <2>2 DEF RefType
    <2>4. References' \subseteq References
      BY <1>0, <2>1, <2>2, <2>3, ReferenceCases, ReferenceCasesPrimed
    <2>5. QED
      BY <2>1, <2>3, <2>4 DEF LiveInv, StageInv, Kept, Protected, Allocated, Black
  <1>5. ASSUME UNCHANGED <<nb_stack, roots>> PROVE RefType' /\ References' = References
    BY <1>0, <1>5 DEF RefType, References, Entries
  <1>6. ASSUME NEW t \in Thread,
               (\E f \in {"full", "increment"} : m_gc_run(t, f)) \/ m_thread_check(t) PROVE LiveInv'
    BY <1>5, <1>6 DEF m_gc_run, gc_collect_objs, m_thread_check, Mutator, LiveInv, StageInv, Kept, Protected, Allocated, Black,
       poolVars, clientVars
  <1>7. CASE gc_obj_shutdown
    BY <1>5, <1>7 DEF gc_obj_shutdown, LiveInv, StageInv, poolVars, clientVars
  <1>8. CASE m_thread_pause_all \/ gc_mark_root
    BY <1>5, <1>8 DEF m_thread_pause_all, gc_mark_root, LiveInv, StageInv, Kept, Protected, Allocated, Black,
       poolVars, clientVars
  <1>9. ASSUME NEW r \in pending, gc_mark_with_color(r) PROVE LiveInv'
    <2>1. /\ at = "mark" /\ pending' = pending \ {r}
          /\ UNCHANGED <<type, nb_stack, roots, at, gc_status, flags, todo, down>>
      BY <1>9 DEF gc_mark_with_color, clientVars
    <2>2. RefType' /\ References' = References /\ StageInv'
      BY <1>5, <2>1 DEF LiveInv, StageInv
    <2>3. \/ UNCHANGED bitmap
          \/ \E c : /\ bitmap[r.pool][c] = "WHITE"
                    /\ bitmap' = [bitmap EXCEPT ![r.pool] =
                         [bitmap[r.pool] EXCEPT ![c] = MarkColor(r.no_ptr, type[r.pool])]]
      BY <1>9 DEF gc_mark_with_color
    <2>4. \A p \in Pool : \A d \in Cell :
            \/ bitmap'[p][d] = bitmap[p][d]
            \/ bitmap[p][d] = "WHITE" /\ bitmap'[p][d] \in {"WHITE", "BLACK"}
      <3>1. MarkColor(r.no_ptr, type[r.pool]) \in {"WHITE", "BLACK"}
        BY DEF MarkColor
      <3> DEFINE color == MarkColor(r.no_ptr, type[r.pool])
                 q == r.pool
      <3>2. CASE UNCHANGED bitmap
        BY <3>2
      <3>3. ASSUME NEW c, bitmap[q][c] = "WHITE",
                   bitmap' = [bitmap EXCEPT ![q] = [bitmap[q] EXCEPT ![c] = color]]
            PROVE  \A p \in Pool : \A d \in Cell :
                     \/ bitmap'[p][d] = bitmap[p][d]
                     \/ bitmap[p][d] = "WHITE" /\ bitmap'[p][d] \in {"WHITE", "BLACK"}
        <4>1. color \in {"WHITE", "BLACK"}
          BY <3>1
        <4> HIDE DEF color, q
        <4>2. QED
          BY <3>3, <4>1 DEF HeapInv, HeapType
      <3>4. QED
        BY <2>3, <3>2, <3>3
    <2>5. ASSUME r \in References, Kept(r), ~down PROVE bitmap'[r.pool][r.cell] = "BLACK"
      <3>1. r \in Ref /\ Allocated(r) /\ Blackens(r)
        BY <1>0, <2>5 DEF LiveInv, Protected, Kept, Blackens
      <3>2. type[r.pool] # None /\ Resolve(r) = {r.cell} /\ MarkColor(r.no_ptr, type[r.pool]) = "BLACK"
        BY <3>1 DEF Allocated, Resolve, MarkColor, Blackens, Ref
      <3>3. bitmap[r.pool][r.cell] \in {"WHITE", "BLACK"}
        BY <3>1 DEF Allocated, HeapInv, HeapType, NoGray, Mark, Ref
      <3>4. IF bitmap[r.pool][r.cell] = "WHITE"
              THEN bitmap' = [bitmap EXCEPT ![r.pool] = [bitmap[r.pool] EXCEPT ![r.cell] = "BLACK"]]
              ELSE bitmap' = bitmap
        BY <1>9, <3>2 DEF gc_mark_with_color
      <3>5. QED
        BY <3>1, <3>3, <3>4 DEF HeapInv, HeapType, Ref
    <2>6. ASSUME NEW s \in References, Kept(s), ~down PROVE (Protected(s))'
      <3>1. s \in Ref /\ Protected(s)
        BY <1>0, <2>6 DEF LiveInv
      <3>2. (Allocated(s))'
        BY <2>1, <2>4, <3>1 DEF Protected, Allocated, Ref
      <3>3. s = r \/ s \in pending' \/ bitmap'[s.pool][s.cell] = "BLACK"
        BY <2>1, <2>4, <3>1 DEF Protected, Black, Ref
      <3>4. s \in pending' \/ bitmap'[s.pool][s.cell] = "BLACK"
        BY <2>5, <2>6, <3>3
      <3>5. QED
        BY <2>1, <3>2, <3>4 DEF Protected, Black
    <2>7. QED
      BY <2>1, <2>2, <2>6 DEF LiveInv
  <1>10. CASE mark_root_done
    BY <1>5, <1>10 DEF mark_root_done, CaseDone, LiveInv, StageInv, Kept, Protected, Allocated, Black,
       poolVars, clientVars
  <1>11. CASE gc_mark_objs
    BY <1>5, <1>11 DEF gc_mark_objs, CaseDone, LiveInv, StageInv, Kept, Protected, Allocated, Black,
       poolVars, clientVars
  <1>12. CASE skip_marking
    BY <1>5, <1>12 DEF skip_marking, LiveInv, StageInv, poolVars, clientVars
  <1>13. CASE gc_sweep
    BY <1>5, <1>13 DEF gc_sweep, LiveInv, StageInv, Kept, Protected, Allocated, Black, clientVars
  <1>14. ASSUME NEW p \in todo, gc_sweep_pool(p) PROVE LiveInv'
    <2>1. /\ at = "sweep" /\ p \in Pool /\ todo' = todo \ {p}
          /\ bitmap' = [bitmap EXCEPT ![p] =
               [c \in Cell |-> IF c \in CellsMarked(p, "WHITE") THEN "UNUSED"
                               ELSE IF c \in CellsMarked(p, "BLACK") THEN "WHITE" ELSE bitmap[p][c]]]
          /\ type' = IF CellsMarked(p, "BLACK") = {} THEN [type EXCEPT ![p] = None] ELSE type
          /\ UNCHANGED <<nb_stack, roots, at, gc_status, flags, pending, down>>
      BY <1>14 DEF gc_sweep_pool, HeapInv, HeapType, clientVars
    <2>2. ASSUME NEW r \in References, Kept(r), ~down PROVE (Protected(r))'
      <3>1. r \in Ref /\ Protected(r)
        BY <1>0, <2>2 DEF LiveInv
      <3>2. CASE r.pool = p
        <4>1. Black(r) /\ Allocated(r) /\ r.cell \in CellsMarked(p, "BLACK")
          BY <1>14, <2>1, <3>1, <3>2 DEF Protected, Black, CellsMarked, Ref
        <4>2. bitmap'[p][r.cell] = "WHITE" /\ type' = type
          BY <2>1, <3>1, <4>1, <3>2 DEF CellsMarked, HeapInv, HeapType, Ref
        <4>3. QED
          BY <2>1, <3>2, <4>1, <4>2 DEF Protected, Allocated
      <3>3. CASE r.pool # p
        <4>1. bitmap'[r.pool] = bitmap[r.pool] /\ type'[r.pool] = type[r.pool]
          BY <2>1, <3>1, <3>3 DEF HeapInv, HeapType, Ref
        <4>2. QED
          BY <2>1, <3>1, <4>1 DEF Protected, Allocated, Black
      <3>4. QED
        BY <3>2, <3>3
    <2>3. QED
      BY <1>5, <2>1, <2>2 DEF LiveInv, StageInv
  <1>15. CASE sweep_done
    BY <1>5, <1>15 DEF sweep_done, CaseDone, LiveInv, StageInv, Kept, Protected, Allocated, Black,
       poolVars, clientVars
  <1>16. CASE compact
    BY <1>5, <1>16 DEF compact, LiveInv, StageInv, Kept, Protected, Allocated, Black, poolVars, clientVars
  <1>17. CASE UNCHANGED vars
    BY <1>5, <1>17 DEF vars, LiveInv, StageInv, Kept, Protected, Allocated, Black,
       poolVars, clientVars, ctlVars
  <1>18. QED
    BY <1>1, <1>2, <1>3, <1>4, <1>6, <1>7, <1>8, <1>9, <1>10, <1>11, <1>12, <1>13, <1>14,
       <1>15, <1>16, <1>17 DEF Next, Client, Collect

\* Every step keeps all references kept, when no collection is incremental and
\* only objects without pointers are declared valid.
LEMMA NextAllKept ==
  ASSUME Increment = FALSE, Published \cap PtrType = {}
  PROVE  HeapInv /\ LiveInv /\ AllKept /\ [Next]_vars => LiveInv' /\ AllKept'
  <1> SUFFICES ASSUME HeapInv, LiveInv, AllKept, [Next]_vars PROVE LiveInv' /\ AllKept'
    OBVIOUS
  <1> USE HeapAssumption
  <1>0. RefType /\ References \subseteq Ref /\ RefType' /\ LiveInv'
    BY ReferenceCases, NextLive DEF LiveInv
  <1> SUFFICES AllKept'
    BY <1>0
  <1>1. ASSUME NEW t \in Thread, NEW ty \in Type, m_gc_alloc_obj(t, ty) PROVE AllKept'
    <2> PICK p \in Pool : \E c : nb_stack' = [nb_stack EXCEPT ![t] = Append(@, NewRef(p, c, ty))]
      BY <1>1 DEF m_gc_alloc_obj, UsablePools, HeapInv, HeapType
    <2>1. PICK c : nb_stack' = [nb_stack EXCEPT ![t] = Append(@, NewRef(p, c, ty))]
      OBVIOUS
    <2> DEFINE new == NewRef(p, c, ty)
    <2>2. PhaseInv' /\ roots' = roots /\ gc_status = "IDLE"
      BY <1>1 DEF m_gc_alloc_obj, gc_collect_objs, Mutator, AllKept, PhaseInv
    <2>3. Kept(new)
      BY <2>2 DEF NewRef, Kept
    <2> HIDE DEF new
    <2>4. ASSUME NEW u \in Thread, NEW i \in DOMAIN nb_stack'[u]
          PROVE  nb_stack'[u][i] = new \/ (i \in DOMAIN nb_stack[u] /\ nb_stack'[u][i] = nb_stack[u][i])
      BY <1>0, <2>1, <2>4 DEF RefType, new
    <2>5. QED
      BY <1>0, <2>2, <2>3, <2>4, ReferenceCases, ReferenceCasesPrimed DEF AllKept
  <1>2. ASSUME NEW t \in Thread, NEW oid \in DOMAIN nb_stack[t], m_gc_add_obj(t, oid) PROVE AllKept'
    <2> DEFINE old == nb_stack[t][oid]
               new == [old EXCEPT !.no_ptr = FALSE]
    <2>1. old \in References /\ old \in Ref /\ old.as \in Published
      BY <1>0, <1>2, ReferenceCases DEF m_gc_add_obj
    <2>2. Kept(new)
      BY <2>1 DEF Ref, Kept, AllKept
    <2>3. /\ nb_stack' = [nb_stack EXCEPT ![t] = [nb_stack[t] EXCEPT ![oid] = new]]
          /\ roots' = roots /\ UNCHANGED <<at, gc_status, flags, down>>
      BY <1>2 DEF m_gc_add_obj, ctlVars
    <2> HIDE DEF new, old
    <2>4. ASSUME NEW u \in Thread, NEW i \in DOMAIN nb_stack'[u]
          PROVE  nb_stack'[u][i] = new \/ (i \in DOMAIN nb_stack[u] /\ nb_stack'[u][i] = nb_stack[u][i])
      BY <1>0, <2>3, <2>4 DEF RefType
    <2>5. QED
      BY <1>0, <2>2, <2>3, <2>4, ReferenceCases, ReferenceCasesPrimed DEF AllKept, PhaseInv
  <1>3. ASSUME NEW t \in Thread, NEW level \in 0 .. MaxNb, m_gc_set_nb_level(t, level) PROVE AllKept'
    <2>1. /\ nb_stack' = [nb_stack EXCEPT ![t] = SubSeq(nb_stack[t], 1, level)]
          /\ level < Len(nb_stack[t]) /\ level \in Nat
          /\ roots' = roots /\ UNCHANGED <<at, gc_status, flags, down>>
      BY <1>3 DEF m_gc_set_nb_level, ctlVars
    <2>2. nb_stack[t] \in Seq(Ref)
      BY <1>0 DEF RefType
    <2>3. \A i \in DOMAIN SubSeq(nb_stack[t], 1, level) :
            i \in DOMAIN nb_stack[t] /\ SubSeq(nb_stack[t], 1, level)[i] = nb_stack[t][i]
      BY <2>1, <2>2
    <2>4. ASSUME NEW u \in Thread, NEW i \in DOMAIN nb_stack'[u]
          PROVE  i \in DOMAIN nb_stack[u] /\ nb_stack'[u][i] = nb_stack[u][i]
      BY <1>0, <2>1, <2>3, <2>4 DEF RefType
    <2>5. QED
      BY <1>0, <2>1, <2>4, ReferenceCases, ReferenceCasesPrimed DEF AllKept, PhaseInv
  <1>4. ASSUME NEW t \in Thread, NEW oid \in DOMAIN nb_stack[t], m_gc_add_root(t, oid) PROVE AllKept'
    <2>1. /\ roots' = roots \cup {nb_stack[t][oid]} /\ nb_stack' = nb_stack
          /\ UNCHANGED <<at, gc_status, flags, down>>
      BY <1>4 DEF m_gc_add_root, ctlVars
    <2>2. nb_stack[t][oid] \in References
      BY <1>0, ReferenceCases
    <2>3. References' \subseteq References
      BY <1>0, <2>1, <2>2, ReferenceCases, ReferenceCasesPrimed
    <2>4. QED
      BY <2>1, <2>3 DEF AllKept, PhaseInv
  <1>5. ASSUME UNCHANGED <<nb_stack, roots>>, PhaseInv' PROVE AllKept'
    BY <1>5 DEF AllKept, References, Entries
  <1>6. ASSUME NEW t \in Thread, NEW f \in {"full", "increment"}, m_gc_run(t, f) PROVE AllKept'
    BY <1>5, <1>6 DEF m_gc_run, gc_collect_objs, Mutator, AllKept, PhaseInv, clientVars
  <1>7. ASSUME NEW t \in Thread, m_thread_check(t) PROVE AllKept'
    BY <1>5, <1>7 DEF m_thread_check, Mutator, AllKept, PhaseInv, clientVars
  <1>8. CASE gc_obj_shutdown
    BY <1>5, <1>8 DEF gc_obj_shutdown, AllKept, PhaseInv, clientVars
  <1>9. CASE m_thread_pause_all \/ gc_mark_root
    BY <1>5, <1>9 DEF m_thread_pause_all, gc_mark_root, AllKept, PhaseInv, clientVars
  <1>10. ASSUME NEW r \in pending, gc_mark_with_color(r) PROVE AllKept'
    BY <1>5, <1>10 DEF gc_mark_with_color, AllKept, PhaseInv, clientVars
  <1>11. CASE mark_root_done
    BY <1>5, <1>11 DEF mark_root_done, CaseDone, AllKept, PhaseInv, clientVars
  <1>12. CASE gc_mark_objs
    <2>1. at' = "switch" /\ gc_status' # "MARK_ROOT" /\ UNCHANGED <<flags, down, nb_stack, roots>>
      BY <1>12 DEF gc_mark_objs, CaseDone, AllKept, PhaseInv, clientVars
    <2>2. QED
      BY <1>5, <2>1 DEF AllKept, PhaseInv
  <1>13. CASE skip_marking \/ gc_sweep
    BY <1>5, <1>13 DEF skip_marking, gc_sweep, AllKept, PhaseInv, clientVars
  <1>14. ASSUME NEW p \in todo, gc_sweep_pool(p) PROVE AllKept'
    BY <1>5, <1>14 DEF gc_sweep_pool, AllKept, PhaseInv, clientVars
  <1>15. CASE sweep_done \/ compact
    BY <1>5, <1>15 DEF sweep_done, compact, CaseDone, AllKept, PhaseInv, clientVars
  <1>16. CASE UNCHANGED vars
    BY <1>5, <1>16 DEF vars, AllKept, PhaseInv, clientVars, ctlVars
  <1>17. QED
    BY <1>0, <1>1, <1>2, <1>3, <1>4, <1>6, <1>7, <1>8, <1>9, <1>10, <1>11, <1>12, <1>13, <1>14,
       <1>15, <1>16 DEF Next, Client, Collect

\* A collection in increments frees nothing a client refers to but objects
\* allocated between its marking and its sweep, and published ones with
\* pointers: for any threads, pools, cells and types, whole and incremental
\* collections mixed in any order.
THEOREM OnlyLateOrPublishedLost == Spec => []KeptAllocated
  <1>1. LiveInv => KeptAllocated
    BY DEF LiveInv, Protected, KeptAllocated
  <1>2. QED
    BY <1>1, InitLive, NextLive, HeapInvariance, PTL DEF Spec

\* No object that a new-born stack or the root table refers to is ever freed,
\* and its pool is never unmapped, as long as collections are whole and only
\* objects without pointers are declared valid.
THEOREM InUseNeverFreed ==
  ASSUME Increment = FALSE, Published \cap PtrType = {}
  PROVE  Spec => []ReachableAllocated
  <1>1. LiveInv /\ AllKept => ReachableAllocated
    BY DEF LiveInv, AllKept, Protected, ReachableAllocated
  <1>2. HeapInv /\ LiveInv /\ AllKept /\ [Next]_vars => LiveInv' /\ AllKept'
    BY NextAllKept
  <1>3. QED
    BY <1>1, <1>2, InitLive, HeapInvariance, PTL DEF Spec

\* An allocation takes a free cell, and no new-born object is in a free cell.
LEMMA NextNoAlias ==
  HeapInv /\ LiveInv /\ AllKept /\ NoAlias /\ [Next]_vars => NoAlias'
  <1> SUFFICES ASSUME HeapInv, LiveInv, AllKept, NoAlias, [Next]_vars PROVE NoAlias'
    OBVIOUS
  <1> USE HeapAssumption
  <1>0. RefType /\ References \subseteq Ref
    BY ReferenceCases DEF LiveInv
  <1>1. ASSUME NEW t \in Thread, NEW ty \in Type, m_gc_alloc_obj(t, ty) PROVE NoAlias'
    <2>1. PICK p \in IF UsablePools(ty) # {} THEN UsablePools(ty) ELSE Pool \ Mapped :
            \E c \in FreeIn(p) :
              nb_stack' = [nb_stack EXCEPT ![t] = Append(@, NewRef(p, c, ty))]
      BY <1>1 DEF m_gc_alloc_obj
    <2>2. PICK c \in FreeIn(p) :
            nb_stack' = [nb_stack EXCEPT ![t] = Append(@, NewRef(p, c, ty))]
      BY <2>1
    <2> DEFINE new == NewRef(p, c, ty)
               last == Len(nb_stack[t]) + 1
    <2>3. /\ p \in Pool /\ c \in Cell
          /\ type[p] = None \/ (p \in usable /\ type[p] # None /\ bitmap[p][c] = "UNUSED")
      <3>1. usable \subseteq Mapped /\ Mapped \subseteq Pool
        BY DEF HeapInv, PoolsListed, Mapped
      <3>2. CASE p \in usable
        <4>1. free_cells[p] = {d \in Cell : bitmap[p][d] = "UNUSED"}
          BY <3>1, <3>2 DEF HeapInv, FreeMatchesBitmap
        <4>2. QED
          BY <2>2, <3>1, <3>2, <4>1 DEF FreeIn, Mapped
      <3>3. CASE p \in Pool \ Mapped
        <4>1. p \notin usable /\ type[p] = None
          BY <3>1, <3>3 DEF Mapped
        <4>2. c \in Cell
          BY <2>2, <4>1 DEF FreeIn
        <4>3. QED
          BY <3>3, <4>1, <4>2
      <3>4. QED
        BY <2>1, <3>2, <3>3 DEF UsablePools
    <2>4. down' = down /\ ~down
      BY <1>1 DEF m_gc_alloc_obj, Mutator
    <2>5. ASSUME NEW u \in Thread, NEW i \in DOMAIN nb_stack[u] PROVE Address(u, i) # <<p, c>>
      <3>1. nb_stack[u][i] \in Ref /\ Allocated(nb_stack[u][i])
        BY <1>0, <2>4, ReferenceCases DEF LiveInv, AllKept, Protected
      <3>2. QED
        BY <2>3, <3>1 DEF Address, Allocated, Ref
    <2>6. /\ \A u \in Thread : \A i \in DOMAIN nb_stack'[u] :
               \/ i \in DOMAIN nb_stack[u] /\ nb_stack'[u][i] = nb_stack[u][i]
               \/ u = t /\ i = last /\ nb_stack'[u][i] = new
      BY <1>0, <2>2 DEF RefType
    <2>7. new.pool = p /\ new.cell = c
      BY DEF NewRef
    <2> HIDE DEF new
    <2>8. QED
      BY <2>4, <2>5, <2>6, <2>7 DEF NoAlias, Address
  <1>2. ASSUME NEW t \in Thread, NEW oid \in DOMAIN nb_stack[t], m_gc_add_obj(t, oid) PROVE NoAlias'
    <2>1. /\ nb_stack' = [nb_stack EXCEPT ![t] = [nb_stack[t] EXCEPT ![oid] =
                [nb_stack[t][oid] EXCEPT !.no_ptr = FALSE]]]
          /\ down' = down
      BY <1>2 DEF m_gc_add_obj
    <2>2. \A u \in Thread : \A i \in DOMAIN nb_stack'[u] :
            /\ i \in DOMAIN nb_stack[u]
            /\ nb_stack'[u][i].pool = nb_stack[u][i].pool
            /\ nb_stack'[u][i].cell = nb_stack[u][i].cell
      <3>1. nb_stack[t][oid] \in Ref
        BY <1>0, ReferenceCases
      <3>2. QED
        BY <1>0, <2>1, <3>1 DEF RefType, Ref
    <2>3. QED
      BY <2>1, <2>2 DEF NoAlias, Address
  <1>3. ASSUME NEW t \in Thread, NEW level \in 0 .. MaxNb, m_gc_set_nb_level(t, level) PROVE NoAlias'
    <2>1. /\ nb_stack' = [nb_stack EXCEPT ![t] = SubSeq(nb_stack[t], 1, level)]
          /\ level < Len(nb_stack[t]) /\ level \in Nat /\ down' = down
      BY <1>3 DEF m_gc_set_nb_level
    <2>2. nb_stack[t] \in Seq(Ref)
      BY <1>0 DEF RefType
    <2>3. \A i \in DOMAIN SubSeq(nb_stack[t], 1, level) :
            i \in DOMAIN nb_stack[t] /\ SubSeq(nb_stack[t], 1, level)[i] = nb_stack[t][i]
      BY <2>1, <2>2
    <2>4. \A u \in Thread : \A i \in DOMAIN nb_stack'[u] :
            i \in DOMAIN nb_stack[u] /\ nb_stack'[u][i] = nb_stack[u][i]
      BY <1>0, <2>1, <2>3 DEF RefType
    <2>5. \A u \in Thread : \A i \in DOMAIN nb_stack'[u] :
            i \in DOMAIN nb_stack[u] /\ (Address(u, i))' = Address(u, i)
      BY <2>4 DEF Address
    <2>6. down' = down
      BY <2>1
    <2>7. QED
      BY <2>5, <2>6 DEF NoAlias
  <1>4. ASSUME nb_stack' = nb_stack, down => down' PROVE NoAlias'
    BY <1>4 DEF NoAlias, Address
  <1>5. ASSUME NEW t \in Thread, NEW oid \in DOMAIN nb_stack[t], m_gc_add_root(t, oid) PROVE NoAlias'
    BY <1>4, <1>5 DEF m_gc_add_root
  <1>6. ASSUME NEW t \in Thread,
               (\E f \in {"full", "increment"} : m_gc_run(t, f)) \/ m_thread_check(t) PROVE NoAlias'
    BY <1>4, <1>6 DEF m_gc_run, gc_collect_objs, m_thread_check, clientVars
  <1>7. CASE gc_obj_shutdown \/ Collect
    BY <1>4, <1>7 DEF gc_obj_shutdown, Collect, m_thread_pause_all, gc_mark_root, mark_root_done, gc_mark_objs, skip_marking, gc_sweep,
       sweep_done, compact, gc_mark_with_color, gc_sweep_pool, clientVars
  <1>8. CASE UNCHANGED vars
    BY <1>4, <1>8 DEF vars, clientVars
  <1>9. QED
    BY <1>1, <1>2, <1>3, <1>5, <1>6, <1>7, <1>8 DEF Next, Client

\* Two allocations that are both still on a new-born stack never share a cell,
\* whatever was allocated, dropped and collected in between.
THEOREM NoSharedCell ==
  ASSUME Increment = FALSE, Published \cap PtrType = {}
  PROVE  Spec => []NoAlias
  <1>1. Init => NoAlias
    BY DEF Init, NoAlias
  <1>2. HeapInv /\ LiveInv /\ AllKept /\ [Next]_vars => LiveInv' /\ AllKept'
    BY NextAllKept
  <1>3. HeapInv /\ LiveInv /\ AllKept /\ NoAlias /\ [Next]_vars => NoAlias'
    BY NextNoAlias
  <1>4. QED
    BY <1>1, <1>2, <1>3, InitLive, HeapInvariance, PTL DEF Spec
-----------------------------------------------------------------------------
(***************************************************************************)
(* What the collector keeps and frees: the size it keeps of the heap, the  *)
(* types of all its variables, the room of the new-born stacks, and what   *)
(* is left after a collection and after the shutdown.                      *)
(***************************************************************************)

\* The cells in use of each type, for pools that are as HeapInv says.
LEMMA UsedFinite ==
  ASSUME NEW ty \in Type
  PROVE  IsFiniteSet(UsedOf(ty)) /\ Cardinality(UsedOf(ty)) \in Nat
  <1>1. IsFiniteSet(Pool \X Cell)
    BY HeapAssumption, FS_Product
  <1>2. UsedOf(ty) \in SUBSET (Pool \X Cell)
    BY DEF UsedOf, Mapped
  <1>3. QED
    BY <1>1, <1>2, FS_Subset, FS_CardinalityType

\* The same after a step.
LEMMA UsedFinitePrimed ==
  ASSUME NEW ty \in Type
  PROVE  IsFiniteSet(UsedOf(ty)') /\ Cardinality(UsedOf(ty)') \in Nat
  <1>1. IsFiniteSet(Pool \X Cell)
    BY HeapAssumption, FS_Product
  <1>2. UsedOf(ty)' \in SUBSET (Pool \X Cell)
    BY DEF UsedOf, Mapped
  <1>3. QED
    BY <1>1, <1>2, FS_Subset, FS_CardinalityType

\* Products of natural numbers.
LEMMA Product ==
  /\ \A a, b \in Nat : a * b \in Nat
  /\ \A a, b, c \in Nat : a * (b + c) = a * b + a * c
  OBVIOUS

\* The bytes in use of each type are a number.
LEMMA UsedSizeType == UsedSize \in [Type -> Nat]
  <1>1. ASSUME NEW ty \in Type PROVE Size[ty] * Cardinality(UsedOf(ty)) \in Nat
    <2>1. Size[ty] \in Nat /\ Cardinality(UsedOf(ty)) \in Nat
      BY HeapAssumption, UsedFinite
    <2>2. QED
      BY <2>1, Product
  <1>2. QED
    BY <1>1 DEF UsedSize

\* The same after a step.
LEMMA UsedSizeTypePrimed == UsedSize' \in [Type -> Nat]
  <1>1. ASSUME NEW ty \in Type PROVE Size[ty] * Cardinality(UsedOf(ty)') \in Nat
    <2>1. Size[ty] \in Nat /\ Cardinality(UsedOf(ty)') \in Nat
      BY HeapAssumption, UsedFinitePrimed
    <2>2. QED
      BY <2>1, Product
  <1>2. QED
    BY <1>1 DEF UsedSize

\* The kept size is a natural number when it is exact.
LEMMA SizeIsNat == SizeExact => gc_allocated_size \in Nat
  <1>1. Sum(UsedSize, Type) \in Nat
    BY HeapAssumption, UsedSizeType, SumType
  <1>2. QED
    BY <1>1 DEF SizeExact, Sum

\* It is exact after a step that changes the objects in use of one type and
\* adds the difference to it.
LEMMA SizeStep ==
  ASSUME SizeExact, NEW ty \in Type,
         \A y \in Type : y # ty => UsedOf(y)' = UsedOf(y),
         gc_allocated_size' =
           gc_allocated_size + Size[ty] * Cardinality(UsedOf(ty)') - Size[ty] * Cardinality(UsedOf(ty))
  PROVE  SizeExact'
  <1>1. \A y \in Type : y # ty => UsedSize'[y] = UsedSize[y]
    BY DEF UsedSize
  <1>2. /\ UsedSize'[ty] = Size[ty] * Cardinality(UsedOf(ty)')
        /\ UsedSize[ty] = Size[ty] * Cardinality(UsedOf(ty))
    BY DEF UsedSize
  <1>3. UsedSize \in [Type -> Nat] /\ UsedSize' \in [Type -> Nat]
    BY UsedSizeType, UsedSizeTypePrimed
  <1>4. Sum(UsedSize', Type) = Sum(UsedSize, Type) + UsedSize'[ty] - UsedSize[ty]
    BY <1>1, <1>3, HeapAssumption, SumUpdate
  <1>5. gc_allocated_size = Sum(UsedSize, Type)
    BY DEF SizeExact, Sum
  <1>6. gc_allocated_size' = Sum(UsedSize', Type)
    BY <1>2, <1>4, <1>5
  <1>7. QED
    BY <1>6 DEF SizeExact, Sum, MapThenSumSet, MapThenFoldSet

\* Nothing is in use at the start.
LEMMA InitSize == Init => SizeExact
  <1> SUFFICES ASSUME Init PROVE SizeExact
    OBVIOUS
  <1>1. ASSUME NEW ty \in Type PROVE UsedSize[ty] = 0
    <2>1. UsedOf(ty) = {}
      BY DEF Init, UsedOf, Mapped
    <2>2. Cardinality(UsedOf(ty)) = 0 /\ Size[ty] \in Nat
      BY <2>1, FS_EmptySet, HeapAssumption
    <2>3. QED
      BY <2>2 DEF UsedSize
  <1>2. Sum(UsedSize, Type) = 0
    BY <1>1, HeapAssumption, UsedSizeType, SumType
  <1>3. QED
    BY <1>2 DEF SizeExact, Sum, Init

\* Every step accounts for what it allocates or frees.
LEMMA NextSize == HeapInv /\ SizeExact /\ [Next]_vars => SizeExact'
  <1> SUFFICES ASSUME HeapInv, SizeExact, [Next]_vars PROVE SizeExact'
    OBVIOUS
  <1> USE HeapAssumption
  <1>0. gc_allocated_size \in Nat
    BY SizeIsNat
  <1>1. ASSUME NEW t \in Thread, NEW ty \in Type, m_gc_alloc_obj(t, ty) PROVE SizeExact'
    <2>1. PICK p \in IF UsablePools(ty) # {} THEN UsablePools(ty) ELSE Pool \ Mapped :
            \E c \in FreeIn(p) :
              /\ type' = [type EXCEPT ![p] = ty]
              /\ bitmap' = [bitmap EXCEPT ![p] = AllocMarks(p, c)]
      BY <1>1 DEF m_gc_alloc_obj
    <2>2. PICK c \in FreeIn(p) :
              /\ type' = [type EXCEPT ![p] = ty]
              /\ bitmap' = [bitmap EXCEPT ![p] = AllocMarks(p, c)]
      BY <2>1
    <2>3. /\ p \in Pool /\ c \in Cell
          /\ \/ p \in usable /\ type[p] = ty /\ bitmap[p][c] = "UNUSED"
             \/ p \notin usable /\ type[p] = None
      <3>1. usable \subseteq Mapped /\ Mapped \subseteq Pool
        BY DEF HeapInv, PoolsListed, Mapped
      <3>2. CASE p \in usable /\ type[p] = ty
        BY <2>2, <3>1, <3>2 DEF FreeIn, HeapInv, FreeMatchesBitmap
      <3>3. CASE p \in Pool \ Mapped
        BY <2>2, <3>1, <3>3 DEF FreeIn, Mapped
      <3>4. QED
        BY <2>1, <3>2, <3>3 DEF UsablePools
    <2>4. \A q \in Pool : q # p => type'[q] = type[q] /\ bitmap'[q] = bitmap[q]
      BY <2>2 DEF HeapInv, HeapType
    <2>5. /\ type'[p] = ty
          /\ \A d \in Cell : bitmap'[p][d] = IF d = c THEN "WHITE"
                                             ELSE IF p \in usable THEN bitmap[p][d] ELSE "UNUSED"
      BY <2>2, <2>3 DEF HeapInv, HeapType, AllocMarks
    <2>6. ASSUME NEW y \in Type, y # ty PROVE UsedOf(y)' = UsedOf(y)
      BY <2>3, <2>4, <2>5, <2>6 DEF UsedOf, Mapped
    <2>7. UsedOf(ty)' = UsedOf(ty) \cup {<<p, c>>}
      <3>1. ASSUME NEW x \in Pool \X Cell
            PROVE  x \in UsedOf(ty)' <=> x \in UsedOf(ty) \/ x = <<p, c>>
        <4>1. CASE x[1] = p
          BY <2>3, <2>5, <4>1 DEF UsedOf, Mapped
        <4>2. CASE x[1] # p
          BY <2>4, <4>2 DEF UsedOf, Mapped
        <4>3. QED
          BY <4>1, <4>2
      <3>2. UsedOf(ty) \subseteq Pool \X Cell /\ UsedOf(ty)' \subseteq Pool \X Cell
        BY DEF UsedOf, Mapped
      <3>3. QED
        BY <2>3, <3>1, <3>2
    <2>8. <<p, c>> \notin UsedOf(ty)
      BY <2>3 DEF UsedOf, Mapped
    <2>9. Cardinality(UsedOf(ty)') = Cardinality(UsedOf(ty)) + 1
      BY <2>7, <2>8, UsedFinite, FS_AddElement
    <2>10. Size[ty] * Cardinality(UsedOf(ty)') = Size[ty] * Cardinality(UsedOf(ty)) + Size[ty]
      <3> DEFINE n == Cardinality(UsedOf(ty))
      <3>1. n \in Nat /\ Size[ty] \in Nat
        BY UsedFinite
      <3> HIDE DEF n
      <3>2. Size[ty] * (n + 1) = Size[ty] * n + Size[ty]
        BY <3>1
      <3>3. QED
        BY <2>9, <3>2 DEF n
    <2>11. gc_allocated_size' = gc_allocated_size + Size[ty]
      BY <1>1 DEF m_gc_alloc_obj
    <2>12. Size[ty] * Cardinality(UsedOf(ty)) \in Nat /\ Size[ty] \in Nat
      BY UsedFinite, Product
    <2>13. gc_allocated_size' =
             gc_allocated_size + Size[ty] * Cardinality(UsedOf(ty)') - Size[ty] * Cardinality(UsedOf(ty))
      BY <1>0, <2>10, <2>11, <2>12
    <2>14. QED
      BY <2>6, <2>13, SizeStep
  <1>2. ASSUME NEW p \in todo, gc_sweep_pool(p) PROVE SizeExact'
    <2> DEFINE white == CellsMarked(p, "WHITE")
               black == CellsMarked(p, "BLACK")
    <2>1. /\ p \in Pool
          /\ bitmap' = [bitmap EXCEPT ![p] =
               [c \in Cell |-> IF c \in white THEN "UNUSED"
                               ELSE IF c \in black THEN "WHITE" ELSE bitmap[p][c]]]
          /\ type' = IF black = {} THEN [type EXCEPT ![p] = None] ELSE type
          /\ gc_allocated_size' = gc_allocated_size - SweptSize(p)
      BY <1>2 DEF gc_sweep_pool, HeapInv, HeapType
    <2>2. PICK ty \in Type : ty = type[p]
      BY <1>2 DEF HeapInv, HeapType, PoolsListed, Mapped
    <2>3. \A c \in Cell :
            bitmap'[p][c] = IF bitmap[p][c] \in {"UNUSED", "WHITE"} THEN "UNUSED" ELSE "WHITE"
      BY <2>1 DEF CellsMarked, HeapInv, HeapType, Mark, NoGray
    <2>4. \A q \in Pool : q # p => type'[q] = type[q] /\ bitmap'[q] = bitmap[q]
      BY <2>1 DEF HeapInv, HeapType
    <2>5. \/ type'[p] = ty
          \/ type'[p] = None /\ \A c \in Cell : bitmap[p][c] # "BLACK"
      BY <2>1, <2>2 DEF CellsMarked, HeapInv, HeapType
    <2>6. \A c \in Cell : bitmap[p][c] \in {"UNUSED", "WHITE", "BLACK"}
      BY <2>1 DEF HeapInv, HeapType, Mark, NoGray
    <2>7. white = {c \in Cell : bitmap[p][c] = "WHITE"}
      BY DEF CellsMarked
    <2> HIDE DEF white, black
    <2>8. ASSUME NEW y \in Type, y # ty PROVE UsedOf(y)' = UsedOf(y)
      BY <2>1, <2>2, <2>4, <2>5, <2>8 DEF UsedOf, Mapped
    <2>9. UsedOf(ty)' = UsedOf(ty) \ ({p} \X white)
      <3>1. ASSUME NEW x \in Pool \X Cell
            PROVE  x \in UsedOf(ty)' <=> x \in UsedOf(ty) /\ x \notin {p} \X white
        <4>1. CASE x[1] = p
          BY <2>2, <2>3, <2>5, <2>6, <2>7, <4>1 DEF UsedOf, Mapped
        <4>2. CASE x[1] # p
          BY <2>4, <4>2 DEF UsedOf, Mapped
        <4>3. QED
          BY <4>1, <4>2
      <3>2. UsedOf(ty) \subseteq Pool \X Cell /\ UsedOf(ty)' \subseteq Pool \X Cell
        BY DEF UsedOf, Mapped
      <3>3. QED
        BY <3>1, <3>2
    <2>10. {p} \X white \subseteq UsedOf(ty)
      BY <2>1, <2>2, <2>7 DEF UsedOf, Mapped
    <2> DEFINE n == Cardinality(UsedOf(ty)')
               m == Cardinality(white)
    <2>11. IsFiniteSet(white) /\ m \in Nat
      <3>1. white \in SUBSET Cell
        BY <2>7
      <3>2. QED
        BY <3>1, FS_Subset, FS_CardinalityType
    <2>12. Cardinality({p} \X white) = m
      <3>1. IsFiniteSet({p}) /\ Cardinality({p}) = 1
        BY FS_Singleton
      <3>2. Cardinality({p} \X white) = 1 * m
        BY <2>11, <3>1, FS_Product
      <3>3. QED
        BY <2>11, <3>2
    <2>13. Cardinality(UsedOf(ty)) = n + m /\ n \in Nat
      <3>1. UsedOf(ty) \cap ({p} \X white) = {p} \X white
        BY <2>10
      <3>2. n = Cardinality(UsedOf(ty)) - Cardinality(UsedOf(ty) \cap ({p} \X white))
        BY <2>2, <2>9, UsedFinite, FS_Difference
      <3>3. n \in Nat /\ Cardinality(UsedOf(ty)) \in Nat
        BY <2>2, UsedFinite, UsedFinitePrimed
      <3>4. Cardinality(UsedOf(ty) \cap ({p} \X white)) = m
        BY <2>12, <3>1
      <3> DEFINE k == Cardinality(UsedOf(ty))
      <3>5. n = k - m
        BY <3>2, <3>4
      <3> HIDE DEF n, m, k
      <3>6. k = n + m
        BY <2>11, <3>3, <3>5 DEF k
      <3>7. QED
        BY <3>3, <3>6 DEF k
    <2>14. SweptSize(p) = Size[ty] * m
      BY <2>2 DEF SweptSize, white
    <2> HIDE DEF n, m
    <2>15. Size[ty] \in Nat
      BY <2>2
    <2>16. Size[ty] * (n + m) = Size[ty] * n + Size[ty] * m /\ Size[ty] * n \in Nat /\ Size[ty] * m \in Nat
      BY <2>11, <2>13, <2>15, Product
    <2>17. gc_allocated_size' = gc_allocated_size + Size[ty] * n - Size[ty] * (n + m)
      BY <1>0, <2>1, <2>14, <2>16
    <2>18. QED
      BY <2>2, <2>8, <2>13, <2>17, SizeStep DEF n
  <1>3. ASSUME NEW r \in pending, gc_mark_with_color(r) PROVE SizeExact'
    <2>1. UNCHANGED <<type, gc_allocated_size>>
      BY <1>3 DEF gc_mark_with_color, sizeVars
    <2>2. \/ UNCHANGED bitmap
          \/ \E c : /\ bitmap[r.pool][c] = "WHITE"
                    /\ bitmap' = [bitmap EXCEPT ![r.pool] =
                         [bitmap[r.pool] EXCEPT ![c] = MarkColor(r.no_ptr, type[r.pool])]]
      BY <1>3 DEF gc_mark_with_color
    <2>3. \A p \in Pool : \A d \in Cell : bitmap'[p][d] = "UNUSED" <=> bitmap[p][d] = "UNUSED"
      <3>1. CASE UNCHANGED bitmap
        BY <3>1
      <3> DEFINE color == MarkColor(r.no_ptr, type[r.pool])
                 q == r.pool
      <3>2. color \in {"WHITE", "BLACK"}
        BY DEF MarkColor
      <3>3. ASSUME NEW c, bitmap[q][c] = "WHITE",
                   bitmap' = [bitmap EXCEPT ![q] = [bitmap[q] EXCEPT ![c] = color]]
            PROVE  \A p \in Pool : \A d \in Cell : bitmap'[p][d] = "UNUSED" <=> bitmap[p][d] = "UNUSED"
        <4> HIDE DEF color, q
        <4>1. QED
          BY <3>2, <3>3 DEF HeapInv, HeapType
      <3>4. QED
        BY <2>2, <3>1, <3>3
    <2>4. \A y \in Type : UsedOf(y)' = UsedOf(y)
      BY <2>1, <2>3 DEF UsedOf, Mapped
    <2>5. UsedSize' = UsedSize
      BY <2>4 DEF UsedSize
    <2>6. gc_allocated_size' = Sum(UsedSize', Type)
      BY <2>1, <2>5 DEF SizeExact, Sum
    <2>7. QED
      BY <2>6 DEF SizeExact, Sum, MapThenSumSet, MapThenFoldSet
  <1>4. ASSUME UNCHANGED <<type, bitmap, gc_allocated_size>> PROVE SizeExact'
    <2>1. UsedSize' = UsedSize
      BY <1>4 DEF UsedSize, UsedOf, Mapped
    <2>2. gc_allocated_size' = Sum(UsedSize', Type)
      BY <1>4, <2>1 DEF SizeExact, Sum
    <2>3. QED
      BY <2>2 DEF SizeExact, Sum, MapThenSumSet, MapThenFoldSet
  <1>5. ASSUME NEW t \in Thread, NEW oid \in DOMAIN nb_stack[t],
               m_gc_add_obj(t, oid) \/ m_gc_add_root(t, oid) PROVE SizeExact'
    BY <1>4, <1>5 DEF m_gc_add_obj, m_gc_add_root, poolVars, sizeVars
  <1>6. ASSUME NEW t \in Thread, NEW level \in 0 .. MaxNb, m_gc_set_nb_level(t, level) PROVE SizeExact'
    BY <1>4, <1>6 DEF m_gc_set_nb_level, poolVars, sizeVars
  <1>7. ASSUME NEW t \in Thread,
               (\E f \in {"full", "increment"} : m_gc_run(t, f)) \/ m_thread_check(t) PROVE SizeExact'
    BY <1>4, <1>7 DEF m_gc_run, m_thread_check, poolVars, sizeVars
  <1>8. CASE gc_obj_shutdown \/ m_thread_pause_all \/ gc_mark_root \/ mark_root_done \/ gc_mark_objs
    BY <1>4, <1>8 DEF gc_obj_shutdown, m_thread_pause_all, gc_mark_root, mark_root_done,
       gc_mark_objs, poolVars, sizeVars
  <1>9. CASE skip_marking \/ gc_sweep \/ sweep_done \/ compact
    BY <1>4, <1>9 DEF skip_marking, gc_sweep, sweep_done, compact, poolVars, sizeVars
  <1>10. CASE UNCHANGED vars
    BY <1>4, <1>10 DEF vars, poolVars, sizeVars
  <1>11. QED
    BY <1>1, <1>2, <1>3, <1>5, <1>6, <1>7, <1>8, <1>9, <1>10 DEF Next, Client, Collect

\* In every reachable state gc_allocated_size is the sum of the sizes of the
\* objects in use: the additions of gc_alloc_obj and the subtractions of
\* gc_sweep_pool never drift apart and never underflow.
THEOREM SizeNeverDrifts == Spec => []SizeExact
  BY InitSize, NextSize, HeapInvariance, PTL DEF Spec
-----------------------------------------------------------------------------
(***************************************************************************)
(* The types of the variables, and the size of the new-born stacks.        *)
(***************************************************************************)
ClientType ==
  /\ RefType
  /\ nb_size \in [Thread -> Nat]
  /\ pending \subseteq Ref

CollectorType ==
  /\ gray_stack \subseteq Pool \X Cell /\ gc_need_scan_gray \in BOOLEAN
  /\ gc_status \in Status /\ at \in {"idle", "pause", "switch", "mark", "sweep"}
  /\ flags \in {"full", "increment", "clear"} /\ waiting \subseteq Thread
  /\ fault \in BOOLEAN /\ down \in BOOLEAN

TypeInv == ClientType /\ NbFits /\ CollectorType /\ gc_last_allocated_size \in Nat

\* The larger of two numbers.
LEMMA MaxOfTwo ==
  ASSUME NEW a \in Nat, NEW b \in Nat
  PROVE  Max({a, b}) \in Nat /\ Max({a, b}) >= a /\ Max({a, b}) >= b
  <1>1. \E x \in {a, b} : \A y \in {a, b} : x >= y
    <2>1. CASE a >= b
      BY <2>1
    <2>2. CASE ~(a >= b)
      BY <2>2
    <2>3. QED
      BY <2>1, <2>2
  <1>2. Max({a, b}) \in {a, b} /\ \A y \in {a, b} : Max({a, b}) >= y
    BY <1>1 DEF Max
  <1>3. QED
    BY <1>2

\* Types at the start.
LEMMA InitType == Init => TypeInv
  <1> SUFFICES ASSUME Init PROVE TypeInv
    OBVIOUS
  <1>1. ClientType /\ gc_last_allocated_size \in Nat
    BY DEF Init, ClientType, RefType
  <1>2. NbFits
    <2>1. Len(<<>>) = 0
      OBVIOUS
    <2>2. QED
      BY <2>1 DEF Init, NbFits
  <1>3. CollectorType
    BY DEF Init, CollectorType, Status
  <1>4. QED
    BY <1>1, <1>2, <1>3 DEF TypeInv

\* Every step keeps the types of the collector's variables.
LEMMA NextCollectorType == CollectorType /\ [Next]_vars => CollectorType'
  <1> SUFFICES ASSUME CollectorType, [Next]_vars PROVE CollectorType'
    OBVIOUS
  <1> USE DEF CollectorType, Status
  <1>1. ASSUME NEW t \in Thread, NEW ty \in Type, m_gc_alloc_obj(t, ty) PROVE CollectorType'
    BY <1>1 DEF m_gc_alloc_obj, gc_collect_objs, grayVars
  <1>2. ASSUME NEW t \in Thread, NEW oid \in DOMAIN nb_stack[t],
               m_gc_add_obj(t, oid) \/ m_gc_add_root(t, oid) PROVE CollectorType'
    BY <1>2 DEF m_gc_add_obj, m_gc_add_root, grayVars, ctlVars
  <1>3. ASSUME NEW t \in Thread, NEW level \in 0 .. MaxNb, m_gc_set_nb_level(t, level) PROVE CollectorType'
    BY <1>3 DEF m_gc_set_nb_level, grayVars, ctlVars
  <1>4. ASSUME NEW t \in Thread, NEW f \in {"full", "increment"}, m_gc_run(t, f) PROVE CollectorType'
    BY <1>4 DEF m_gc_run, gc_collect_objs, grayVars
  <1>5. ASSUME NEW t \in Thread, m_thread_check(t) PROVE CollectorType'
    BY <1>5 DEF m_thread_check, grayVars
  <1>6. CASE gc_obj_shutdown
    BY <1>6 DEF gc_obj_shutdown, grayVars
  <1>7. CASE m_thread_pause_all
    BY <1>7 DEF m_thread_pause_all, grayVars
  <1>8. CASE gc_mark_root
    BY <1>8 DEF gc_mark_root, grayVars
  <1>9. ASSUME NEW r \in pending, gc_mark_with_color(r) PROVE CollectorType'
    <2>1. MarkColor(r.no_ptr, type[r.pool]) # "GRAY"
      BY DEF MarkColor
    <2>2. UNCHANGED grayVars /\ (fault' = TRUE \/ fault' = fault)
      BY <1>9, <2>1 DEF gc_mark_with_color
    <2>3. UNCHANGED <<gc_status, at, flags, waiting, down>>
      BY <1>9 DEF gc_mark_with_color
    <2>4. QED
      BY <2>2, <2>3 DEF grayVars
  <1>10. CASE mark_root_done
    BY <1>10 DEF mark_root_done, CaseDone, grayVars
  <1>11. CASE gc_mark_objs
    <2>0. gc_need_scan_gray' \in BOOLEAN
      <3>1. \/ gc_need_scan_gray' = gc_need_scan_gray
            \/ gc_need_scan_gray' = (Cardinality(GrayCells) > GrayStackSize)
        BY <1>11 DEF gc_mark_objs
      <3>2. (Cardinality(GrayCells) > GrayStackSize) \in BOOLEAN
        OBVIOUS
      <3>3. QED
        BY <3>1, <3>2
    <2>1. /\ gray_stack' = {}
          /\ gc_status' \in {"MARK_OBJ", "SWEEP"}
          /\ at' \in {"idle", "switch"}
          /\ waiting' \in {{}, waiting}
          /\ UNCHANGED <<flags, fault, down>>
      BY <1>11 DEF gc_mark_objs, CaseDone
    <2>2. QED
      BY <2>0, <2>1
  <1>12. CASE skip_marking
    BY <1>12 DEF skip_marking, grayVars
  <1>13. CASE gc_sweep
    BY <1>13 DEF gc_sweep, grayVars
  <1>14. ASSUME NEW p \in todo, gc_sweep_pool(p) PROVE CollectorType'
    BY <1>14 DEF gc_sweep_pool, grayVars
  <1>15. CASE sweep_done
    BY <1>15 DEF sweep_done, CaseDone, grayVars
  <1>16. CASE compact
    BY <1>16 DEF compact, grayVars
  <1>17. CASE UNCHANGED vars
    BY <1>17 DEF vars, grayVars, ctlVars
  <1>18. QED
    BY <1>1, <1>2, <1>3, <1>4, <1>5, <1>6, <1>7, <1>8, <1>9, <1>10, <1>11, <1>12, <1>13, <1>14,
       <1>15, <1>16, <1>17 DEF Next, Client, Collect

\* What a push, a cleared flag, a dropped suffix and a new root do to the
\* references of the clients.
LEMMA NextClientType ==
  HeapInv /\ ClientType /\ NbFits /\ [Next]_vars => ClientType' /\ NbFits'
  <1> SUFFICES ASSUME HeapInv, ClientType, NbFits, [Next]_vars PROVE ClientType' /\ NbFits'
    OBVIOUS
  <1> USE HeapAssumption
  <1>0. /\ References \subseteq Ref
        /\ \A t \in Thread : nb_stack[t] \in Seq(Ref) /\ Len(nb_stack[t]) \in Nat /\ nb_size[t] \in Nat
    BY ReferenceCases DEF ClientType, RefType
  <1>1. ASSUME NEW t \in Thread, NEW ty \in Type, m_gc_alloc_obj(t, ty) PROVE ClientType' /\ NbFits'
    <2>1. PICK p \in IF UsablePools(ty) # {} THEN UsablePools(ty) ELSE Pool \ Mapped :
            \E c \in FreeIn(p) :
              nb_stack' = [nb_stack EXCEPT ![t] = Append(@, NewRef(p, c, ty))]
      BY <1>1 DEF m_gc_alloc_obj
    <2>2. PICK c \in FreeIn(p) :
            nb_stack' = [nb_stack EXCEPT ![t] = Append(@, NewRef(p, c, ty))]
      BY <2>1
    <2> DEFINE new == NewRef(p, c, ty)
    <2>3. new \in Ref
      BY <2>1, <2>2 DEF UsablePools, FreeIn, HeapInv, HeapType, Ref, NewRef
    <2>4. /\ nb_stack' = [nb_stack EXCEPT ![t] = Append(nb_stack[t], new)]
          /\ nb_size' = [nb_size EXCEPT ![t] = NbGrown(t)]
          /\ UNCHANGED <<roots, pending>>
      BY <1>1, <2>2 DEF m_gc_alloc_obj
    <2> HIDE DEF new
    <2>5. Append(nb_stack[t], new) \in Seq(Ref) /\ Len(Append(nb_stack[t], new)) = Len(nb_stack[t]) + 1
      BY <1>0, <2>3
    <2>6. NbGrown(t) \in Nat /\ NbGrown(t) >= Len(nb_stack[t]) + 1
      <3> DEFINE n == nb_size[t]
                 l == Len(nb_stack[t])
      <3>1. n \in Nat /\ l \in Nat /\ l <= n
        BY <1>0 DEF NbFits
      <3>2. Max({2 * n, NbFirst}) \in Nat /\ Max({2 * n, NbFirst}) >= 2 * n /\ Max({2 * n, NbFirst}) >= NbFirst
        <4> HIDE DEF n
        <4>1. 2 * n \in Nat /\ NbFirst \in Nat
          BY <3>1
        <4>2. QED
          BY <4>1, MaxOfTwo
      <3>3. NbGrown(t) = IF l = n THEN Max({2 * n, NbFirst}) ELSE n
        BY DEF NbGrown
      <3> HIDE DEF n, l
      <3>4. NbGrown(t) \in Nat /\ NbGrown(t) >= l + 1
        BY <3>1, <3>2, <3>3
      <3>5. QED
        BY <3>4 DEF l
    <2>7. ClientType'
      BY <2>4, <2>5, <2>6 DEF ClientType, RefType
    <2>8. NbFits'
      <3>1. ASSUME NEW u \in Thread PROVE Len(nb_stack'[u]) <= nb_size'[u]
        <4>1. CASE u = t
          BY <1>0, <2>4, <2>5, <2>6, <4>1 DEF ClientType, RefType
        <4>2. CASE u # t
          BY <2>4, <4>2 DEF ClientType, RefType, NbFits
        <4>3. QED
          BY <4>1, <4>2
      <3>2. QED
        BY <3>1 DEF NbFits
    <2>9. QED
      BY <2>7, <2>8
  <1>2. ASSUME NEW t \in Thread, NEW oid \in DOMAIN nb_stack[t], m_gc_add_obj(t, oid)
        PROVE  ClientType' /\ NbFits'
    <2> DEFINE new == [nb_stack[t][oid] EXCEPT !.no_ptr = FALSE]
    <2>1. /\ nb_stack' = [nb_stack EXCEPT ![t] = [nb_stack[t] EXCEPT ![oid] = new]]
          /\ UNCHANGED <<nb_size, roots, pending>>
      BY <1>2 DEF m_gc_add_obj, ctlVars
    <2>2. new \in Ref
      <3>1. nb_stack[t][oid] \in Ref
        BY <1>0
      <3>2. QED
        BY <3>1 DEF Ref
    <2> HIDE DEF new
    <2>3. /\ [nb_stack[t] EXCEPT ![oid] = new] \in Seq(Ref)
          /\ Len([nb_stack[t] EXCEPT ![oid] = new]) = Len(nb_stack[t])
      BY <1>0, <1>2, <2>2
    <2>4. QED
      BY <2>1, <2>3 DEF ClientType, RefType, NbFits
  <1>3. ASSUME NEW t \in Thread, NEW level \in 0 .. MaxNb, m_gc_set_nb_level(t, level)
        PROVE  ClientType' /\ NbFits'
    <2>1. /\ nb_stack' = [nb_stack EXCEPT ![t] = SubSeq(nb_stack[t], 1, level)]
          /\ level < Len(nb_stack[t]) /\ level \in Nat
          /\ UNCHANGED <<nb_size, roots, pending>>
      BY <1>3 DEF m_gc_set_nb_level, ctlVars
    <2>2. SubSeq(nb_stack[t], 1, level) \in Seq(Ref) /\ Len(SubSeq(nb_stack[t], 1, level)) = level
      BY <1>0, <2>1
    <2>3. ClientType'
      BY <2>1, <2>2 DEF ClientType, RefType
    <2>4. ASSUME NEW u \in Thread PROVE Len(nb_stack'[u]) <= nb_size'[u]
      <3>1. CASE u = t
        BY <1>0, <2>1, <2>2, <3>1 DEF ClientType, RefType, NbFits
      <3>2. CASE u # t
        BY <2>1, <3>2 DEF ClientType, RefType, NbFits
      <3>3. QED
        BY <3>1, <3>2
    <2>5. QED
      BY <2>3, <2>4 DEF NbFits
  <1>4. ASSUME NEW t \in Thread, NEW oid \in DOMAIN nb_stack[t], m_gc_add_root(t, oid)
        PROVE  ClientType' /\ NbFits'
    <2>1. roots' = roots \cup {nb_stack[t][oid]} /\ UNCHANGED <<nb_stack, nb_size, pending>>
      BY <1>4 DEF m_gc_add_root, ctlVars
    <2>2. nb_stack[t][oid] \in Ref
      BY <1>0
    <2>3. QED
      BY <2>1, <2>2 DEF ClientType, RefType, NbFits
  <1>5. CASE gc_mark_root
    BY <1>0, <1>5 DEF gc_mark_root, clientVars, ClientType, RefType, NbFits
  <1>6. ASSUME UNCHANGED <<nb_stack, nb_size, roots>>, pending' \subseteq pending
        PROVE  ClientType' /\ NbFits'
    BY <1>6 DEF ClientType, RefType, NbFits
  <1>7. ASSUME NEW t \in Thread,
               (\E f \in {"full", "increment"} : m_gc_run(t, f)) \/ m_thread_check(t)
        PROVE  ClientType' /\ NbFits'
    BY <1>6, <1>7 DEF m_gc_run, m_thread_check, clientVars
  <1>8. CASE gc_obj_shutdown \/ m_thread_pause_all \/ mark_root_done \/ gc_mark_objs
    BY <1>6, <1>8 DEF gc_obj_shutdown, m_thread_pause_all, mark_root_done, gc_mark_objs, clientVars
  <1>9. CASE skip_marking \/ gc_sweep \/ sweep_done \/ compact
    BY <1>6, <1>9 DEF skip_marking, gc_sweep, sweep_done, compact, clientVars
  <1>10. ASSUME NEW r \in pending, gc_mark_with_color(r) PROVE ClientType' /\ NbFits'
    BY <1>6, <1>10 DEF gc_mark_with_color, clientVars
  <1>11. ASSUME NEW p \in todo, gc_sweep_pool(p) PROVE ClientType' /\ NbFits'
    BY <1>6, <1>11 DEF gc_sweep_pool, clientVars
  <1>12. CASE UNCHANGED vars
    BY <1>6, <1>12 DEF vars, clientVars, ctlVars
  <1>13. QED
    BY <1>1, <1>2, <1>3, <1>4, <1>5, <1>7, <1>8, <1>9, <1>10, <1>11, <1>12 DEF Next, Client, Collect

\* The size a collection starts from stays a size.
LEMMA NextLastSize ==
  SizeExact /\ gc_last_allocated_size \in Nat /\ [Next]_vars => gc_last_allocated_size' \in Nat
  <1> SUFFICES ASSUME SizeExact, gc_last_allocated_size \in Nat, [Next]_vars
               PROVE  gc_last_allocated_size' \in Nat
    OBVIOUS
  <1>1. gc_last_allocated_size' \in {gc_last_allocated_size, gc_allocated_size}
    BY DEF Next, Client, Collect, m_gc_alloc_obj, m_gc_add_obj, m_gc_add_root, m_gc_set_nb_level,
       m_gc_run, m_thread_check, gc_obj_shutdown, m_thread_pause_all, gc_mark_root, mark_root_done,
       gc_mark_objs, skip_marking, gc_sweep, sweep_done, compact, gc_mark_with_color, gc_sweep_pool,
       sizeVars, vars
  <1>2. QED
    BY <1>1, SizeIsNat

\* Every step keeps the types.
LEMMA NextType == HeapInv /\ SizeExact /\ TypeInv /\ [Next]_vars => TypeInv'
  BY NextCollectorType, NextClientType, NextLastSize DEF TypeInv

\* The types are an invariant.
LEMMA TypeInvariance == Spec => []TypeInv
  BY InitType, NextType, HeapInvariance, SizeNeverDrifts, PTL DEF Spec

\* Every variable of the heap keeps its type; gc_allocated_size, which only
\* subtractions could take out of the natural numbers, because it is exact.
THEOREM HeapTypeCorrect == Spec => []TypeOK
  <1>1. HeapInv /\ SizeExact /\ TypeInv => TypeOK
    BY SizeIsNat DEF HeapInv, HeapType, TypeInv, ClientType, RefType, CollectorType, TypeOK
  <1>2. QED
    BY <1>1, HeapInvariance, SizeNeverDrifts, TypeInvariance, PTL

\* The new-born stack of a thread always has room for the objects on it: it
\* grows, from nothing too, before a push that would not fit.
THEOREM NbStackFits == Spec => []NbFits
  <1>1. TypeInv => NbFits
    BY DEF TypeInv
  <1>2. QED
    BY <1>1, TypeInvariance, PTL
-----------------------------------------------------------------------------
(***************************************************************************)
(* What a collection leaves, when no collection is incremental: black      *)
(* marks are gone when it ends, so the collection of gc_obj_shutdown,      *)
(* which marks nothing, finds nothing black and unmaps every pool.         *)
(***************************************************************************)
NoBlack(p) == \A c \in Cell : bitmap[p][c] # "BLACK"

\* Only between gc_mark_root and the sweep of its pool is an object black.
BlackInv ==
  /\ (at \in {"idle", "pause"} \/ (at = "switch" /\ gc_status \in {"IDLE", "COMPACT"})) =>
       \A p \in Mapped : NoBlack(p)
  /\ at = "sweep" => \A p \in Mapped \ todo : NoBlack(p)

\* The last collection: nothing is marked and no pool survives its sweep.
ShutdownInv ==
  down =>
    /\ flags = "clear" /\ at # "mark"
    /\ \A p \in Mapped : NoBlack(p)
    /\ at = "sweep" => Mapped \subseteq todo
    /\ (at \in {"idle", "pause"} \/ (at = "switch" /\ gc_status = "COMPACT")) => Mapped = {}

\* No collection runs at the start.
LEMMA InitBlack == Init => PhaseInv /\ BlackInv /\ ShutdownInv
  BY DEF Init, PhaseInv, BlackInv, ShutdownInv, NoBlack, Mapped

\* Every step keeps what holds of the marks in each phase.
LEMMA NextBlack ==
  ASSUME Increment = FALSE
  PROVE  HeapInv /\ PhaseInv /\ BlackInv /\ ShutdownInv /\ [Next]_vars
           => PhaseInv' /\ BlackInv' /\ ShutdownInv'
  <1> DEFINE Goal == PhaseInv' /\ BlackInv' /\ ShutdownInv'
  <1> SUFFICES ASSUME HeapInv, PhaseInv, BlackInv, ShutdownInv, [Next]_vars PROVE Goal
    OBVIOUS
  <1> USE HeapAssumption
  <1>1. ASSUME NEW t \in Thread, NEW ty \in Type, m_gc_alloc_obj(t, ty) PROVE Goal
    <2>1. PICK p \in IF UsablePools(ty) # {} THEN UsablePools(ty) ELSE Pool \ Mapped :
            \E c \in FreeIn(p) :
              /\ type' = [type EXCEPT ![p] = ty]
              /\ bitmap' = [bitmap EXCEPT ![p] = AllocMarks(p, c)]
      BY <1>1 DEF m_gc_alloc_obj
    <2>2. PICK c \in FreeIn(p) :
              /\ type' = [type EXCEPT ![p] = ty]
              /\ bitmap' = [bitmap EXCEPT ![p] = AllocMarks(p, c)]
      BY <2>1
    <2>3. /\ at \in {"idle", "pause"} /\ ~down /\ ~down'
          /\ at' \in {"idle", "pause"} /\ gc_status' = gc_status /\ flags' \in {flags, "full"}
      BY <1>1 DEF m_gc_alloc_obj, gc_collect_objs, Mutator
    <2>4. p \in Pool /\ (p \in usable => p \in Mapped)
      BY <2>1 DEF UsablePools, HeapInv, HeapType, PoolsListed
    <2>5. \A q \in Pool : q # p => type'[q] = type[q] /\ bitmap'[q] = bitmap[q]
      BY <2>2 DEF HeapInv, HeapType
    <2>6. \A d \in Cell : bitmap'[p][d] = IF d = c THEN "WHITE"
                                          ELSE IF p \in usable THEN bitmap[p][d] ELSE "UNUSED"
      BY <2>2, <2>4 DEF HeapInv, HeapType, AllocMarks
    <2>7. \A q \in Mapped : NoBlack(q)
      BY <2>3 DEF BlackInv
    <2>8. (\A q \in Mapped : NoBlack(q))'
      BY <2>4, <2>5, <2>6, <2>7 DEF NoBlack, Mapped
    <2>9. QED
      BY <2>3, <2>8 DEF PhaseInv, BlackInv, ShutdownInv
  <1>2. ASSUME UNCHANGED <<type, bitmap>>
        PROVE  Mapped' = Mapped /\ \A p : NoBlack(p)' = NoBlack(p)
    BY <1>2 DEF Mapped, NoBlack
  <1>3. ASSUME NEW t \in Thread, NEW oid \in DOMAIN nb_stack[t],
               m_gc_add_obj(t, oid) \/ m_gc_add_root(t, oid) PROVE Goal
    BY <1>2, <1>3 DEF m_gc_add_obj, m_gc_add_root, poolVars, ctlVars, PhaseInv, BlackInv, ShutdownInv
  <1>4. ASSUME NEW t \in Thread, NEW level \in 0 .. MaxNb, m_gc_set_nb_level(t, level) PROVE Goal
    BY <1>2, <1>4 DEF m_gc_set_nb_level, poolVars, ctlVars, PhaseInv, BlackInv, ShutdownInv
  <1>5. ASSUME NEW t \in Thread, NEW f \in {"full", "increment"}, m_gc_run(t, f) PROVE Goal
    BY <1>2, <1>5 DEF m_gc_run, gc_collect_objs, Mutator, poolVars, PhaseInv, BlackInv, ShutdownInv
  <1>6. ASSUME NEW t \in Thread, m_thread_check(t) PROVE Goal
    BY <1>2, <1>6 DEF m_thread_check, Mutator, poolVars, PhaseInv, BlackInv, ShutdownInv
  <1>7. CASE gc_obj_shutdown
    BY <1>2, <1>7 DEF gc_obj_shutdown, poolVars, PhaseInv, BlackInv, ShutdownInv
  <1>8. CASE m_thread_pause_all
    BY <1>2, <1>8 DEF m_thread_pause_all, poolVars, PhaseInv, BlackInv, ShutdownInv
  <1>9. CASE gc_mark_root
    BY <1>2, <1>9 DEF gc_mark_root, poolVars, PhaseInv, BlackInv, ShutdownInv
  <1>10. ASSUME NEW r \in pending, gc_mark_with_color(r) PROVE Goal
    BY <1>10 DEF gc_mark_with_color, PhaseInv, BlackInv, ShutdownInv
  <1>11. CASE mark_root_done
    BY <1>2, <1>11 DEF mark_root_done, CaseDone, poolVars, PhaseInv, BlackInv, ShutdownInv
  <1>12. CASE gc_mark_objs
    <2>1. /\ at = "switch" /\ at' = "switch" /\ gc_status' \in {"MARK_OBJ", "SWEEP"} /\ flags # "clear"
          /\ UNCHANGED <<type, bitmap, flags, down, todo>>
      BY <1>12 DEF gc_mark_objs, CaseDone, PhaseInv, poolVars
    <2>2. QED
      BY <1>2, <2>1 DEF PhaseInv, BlackInv, ShutdownInv
  <1>13. CASE skip_marking
    BY <1>2, <1>13 DEF skip_marking, poolVars, PhaseInv, BlackInv, ShutdownInv
  <1>14. CASE gc_sweep
    <2>1. Mapped' = todo' /\ \A p : NoBlack(p)' = NoBlack(p)
      BY <1>2, <1>14 DEF gc_sweep, HeapInv, PoolsListed, SweepHoldsPools
    <2>2. QED
      BY <1>2, <1>14, <2>1 DEF gc_sweep, PhaseInv, BlackInv, ShutdownInv
  <1>15. ASSUME NEW p \in todo, gc_sweep_pool(p) PROVE Goal
    <2>1. /\ at = "sweep" /\ at' = at /\ p \in Pool /\ todo' = todo \ {p}
          /\ bitmap' = [bitmap EXCEPT ![p] =
               [c \in Cell |-> IF c \in CellsMarked(p, "WHITE") THEN "UNUSED"
                               ELSE IF c \in CellsMarked(p, "BLACK") THEN "WHITE" ELSE bitmap[p][c]]]
          /\ type' = IF CellsMarked(p, "BLACK") = {} THEN [type EXCEPT ![p] = None] ELSE type
          /\ UNCHANGED <<gc_status, flags, down>>
      BY <1>15 DEF gc_sweep_pool, HeapInv, HeapType
    <2>2. NoBlack(p)'
      BY <2>1 DEF NoBlack, CellsMarked, HeapInv, HeapType
    <2>3. \A q \in Pool : q # p => type'[q] = type[q] /\ NoBlack(q)' = NoBlack(q)
      BY <2>1 DEF NoBlack, HeapInv, HeapType
    <2>4. Mapped' \subseteq Mapped /\ (NoBlack(p) => Mapped' = Mapped \ {p})
      BY <2>1 DEF Mapped, NoBlack, CellsMarked, HeapInv, HeapType
    <2>5. p \in Mapped /\ Mapped \subseteq Pool
      BY DEF HeapInv, PoolsListed, Mapped
    <2>6. BlackInv'
      BY <2>1, <2>2, <2>3, <2>4, <2>5 DEF BlackInv
    <2>7. ShutdownInv'
      BY <2>1, <2>2, <2>3, <2>4, <2>5 DEF ShutdownInv
    <2>8. QED
      BY <2>1, <2>6, <2>7 DEF PhaseInv
  <1>16. CASE sweep_done
    BY <1>2, <1>16 DEF sweep_done, CaseDone, poolVars, PhaseInv, BlackInv, ShutdownInv
  <1>17. CASE compact
    BY <1>2, <1>17 DEF compact, poolVars, PhaseInv, BlackInv, ShutdownInv
  <1>18. CASE UNCHANGED vars
    BY <1>2, <1>18 DEF vars, poolVars, ctlVars, PhaseInv, BlackInv, ShutdownInv
  <1>19. QED
    BY <1>1, <1>3, <1>4, <1>5, <1>6, <1>7, <1>8, <1>9, <1>10, <1>11, <1>12, <1>13, <1>14,
       <1>15, <1>16, <1>17, <1>18 DEF Next, Client, Collect

\* When gc_obj_shutdown has returned no pool is mapped and the kept size is
\* 0, whatever was still referenced, as long as no collection is incremental
\* (one left after its sweep would make the shutdown end without sweeping).
THEOREM NothingSurvivesShutdown ==
  ASSUME Increment = FALSE
  PROVE  Spec => []ShutdownFreesAll
  <1>1. ASSUME SizeExact, Mapped = {} PROVE gc_allocated_size = 0
    <2>1. ASSUME NEW ty \in Type PROVE UsedSize[ty] = 0
      <3>1. UsedOf(ty) = {}
        BY <1>1 DEF UsedOf
      <3>2. Cardinality(UsedOf(ty)) = 0 /\ Size[ty] \in Nat
        BY <3>1, FS_EmptySet, HeapAssumption
      <3>3. QED
        BY <3>2 DEF UsedSize
    <2>2. Sum(UsedSize, Type) = 0
      BY <2>1, HeapAssumption, UsedSizeType, SumType
    <2>3. QED
      BY <1>1, <2>2 DEF SizeExact, Sum
  <1>2. SizeExact /\ ShutdownInv => ShutdownFreesAll
    BY <1>1 DEF ShutdownInv, ShutdownFreesAll
  <1>3. HeapInv /\ PhaseInv /\ BlackInv /\ ShutdownInv /\ [Next]_vars
          => PhaseInv' /\ BlackInv' /\ ShutdownInv'
    BY NextBlack
  <1>4. QED
    BY <1>2, <1>3, InitBlack, HeapInvariance, SizeNeverDrifts, PTL DEF Spec
-----------------------------------------------------------------------------
(***************************************************************************)
(* A whole collection keeps nothing but what is referenced.                *)
(***************************************************************************)
Referenced(p, c) == \E r \in References : r.pool = p /\ r.cell = c

BlackReferenced(p) == \A c \in Cell : bitmap[p][c] = "BLACK" => Referenced(p, c)
UsedReferenced(p) == \A c \in Cell : bitmap[p][c] # "UNUSED" => Referenced(p, c)

\* Only what a reference leads to is blackened, and only what was black is
\* still in use in a pool that has been swept.
GarbageInv ==
  ~down =>
    /\ at = "mark" => pending \subseteq References
    /\ (at = "mark" \/ (at = "switch" /\ gc_status \in {"MARK_OBJ", "SWEEP"})) =>
         \A p \in Mapped : BlackReferenced(p)
    /\ at = "sweep" => \A p \in Mapped : IF p \in todo THEN BlackReferenced(p) ELSE UsedReferenced(p)
    /\ (at = "switch" /\ gc_status = "COMPACT") => \A p \in Mapped : UsedReferenced(p)

\* Nothing is garbage at the start.
LEMMA InitGarbage == Init => GarbageInv
  BY DEF Init, GarbageInv

\* Every step keeps: what survives the cycle is referenced.
LEMMA NextGarbage ==
  HeapInv /\ LiveInv /\ AllKept /\ BlackInv /\ GarbageInv /\ [Next]_vars => GarbageInv'
  <1> SUFFICES ASSUME HeapInv, LiveInv, AllKept, BlackInv, GarbageInv, [Next]_vars PROVE GarbageInv'
    OBVIOUS
  <1> USE HeapAssumption
  <1>1. ASSUME at' \in {"idle", "pause"} PROVE GarbageInv'
    BY <1>1 DEF GarbageInv
  <1>2. ASSUME NEW t \in Thread, Client(t) PROVE GarbageInv'
    BY <1>1, <1>2 DEF Client, m_gc_alloc_obj, m_gc_add_obj, m_gc_add_root, m_gc_set_nb_level,
       m_gc_run, m_thread_check, gc_collect_objs, Mutator, ctlVars
  <1>3. CASE gc_obj_shutdown
    BY <1>3 DEF gc_obj_shutdown, GarbageInv
  <1>4. ASSUME UNCHANGED <<type, bitmap, nb_stack, roots>>
        PROVE  /\ Mapped' = Mapped /\ References' = References
               /\ \A p : BlackReferenced(p)' = BlackReferenced(p) /\ UsedReferenced(p)' = UsedReferenced(p)
    <2>1. Mapped' = Mapped /\ References' = References
      BY <1>4 DEF Mapped, References, Entries
    <2>2. QED
      BY <1>4, <2>1 DEF BlackReferenced, UsedReferenced, Referenced
  <1>5. CASE m_thread_pause_all
    <2>1. /\ at = "pause" /\ gc_status' = "IDLE" /\ at' = "switch"
      BY <1>5 DEF m_thread_pause_all, AllKept, PhaseInv
    <2>2. QED
      BY <2>1 DEF GarbageInv
  <1>6. CASE gc_mark_root
    <2>1. /\ at' = "mark" /\ pending' = References
          /\ at = "switch" /\ gc_status = "IDLE"
          /\ UNCHANGED <<type, bitmap, nb_stack, roots>>
      BY <1>6 DEF gc_mark_root, poolVars, clientVars
    <2>2. \A p \in Mapped : BlackReferenced(p)
      BY <2>1 DEF BlackInv, NoBlack, BlackReferenced
    <2>3. QED
      BY <1>4, <2>1, <2>2 DEF GarbageInv
  <1>7. ASSUME NEW r \in pending, gc_mark_with_color(r) PROVE GarbageInv'
    <2>1. /\ at = "mark" /\ pending' = pending \ {r}
          /\ UNCHANGED <<type, nb_stack, roots, at, gc_status, todo, down>>
      BY <1>7 DEF gc_mark_with_color, clientVars
    <2>2. SUFFICES ASSUME ~down PROVE GarbageInv'
      BY <2>1 DEF GarbageInv
    <2>3. Mapped' = Mapped /\ References' = References
      BY <2>1 DEF Mapped, References, Entries
    <2>4. r \in References /\ r \in Ref /\ Allocated(r)
      BY <2>1, <2>2, ReferenceCases DEF GarbageInv, LiveInv, AllKept, Protected
    <2>5. type[r.pool] # None /\ Resolve(r) = {r.cell}
      BY <2>4 DEF Allocated, Resolve, Ref
    <2>6. \/ UNCHANGED bitmap
          \/ bitmap' = [bitmap EXCEPT ![r.pool] =
               [bitmap[r.pool] EXCEPT ![r.cell] = MarkColor(r.no_ptr, type[r.pool])]]
      BY <1>7, <2>5 DEF gc_mark_with_color
    <2>7. \A p \in Pool : \A c \in Cell :
            bitmap'[p][c] = bitmap[p][c] \/ (p = r.pool /\ c = r.cell)
      BY <2>4, <2>6 DEF HeapInv, HeapType, Ref
    <2>8. \A p \in Mapped : BlackReferenced(p)
      BY <2>1, <2>2 DEF GarbageInv
    <2>9. \A p \in Mapped : \A c \in Cell : bitmap'[p][c] = "BLACK" => Referenced(p, c)
      BY <2>4, <2>7, <2>8 DEF BlackReferenced, Referenced, Mapped
    <2>10. (\A p \in Mapped : BlackReferenced(p))'
      BY <2>3, <2>9 DEF BlackReferenced, Referenced
    <2>11. QED
      BY <2>1, <2>2, <2>3, <2>10 DEF GarbageInv
  <1>8. CASE mark_root_done
    <2>1. /\ at = "mark" /\ at' = "switch" /\ gc_status' = "MARK_OBJ"
          /\ UNCHANGED <<type, bitmap, nb_stack, roots, down>>
      BY <1>8 DEF mark_root_done, CaseDone, AllKept, PhaseInv, poolVars, clientVars
    <2>2. QED
      BY <1>4, <2>1 DEF GarbageInv
  <1>9. CASE gc_mark_objs
    <2>1. /\ at = "switch" /\ gc_status = "MARK_OBJ"
          /\ at' = "switch" /\ gc_status' \in {"MARK_OBJ", "SWEEP"}
          /\ UNCHANGED <<type, bitmap, nb_stack, roots, down>>
      BY <1>9 DEF gc_mark_objs, CaseDone, AllKept, PhaseInv, poolVars, clientVars
    <2>2. QED
      BY <1>4, <2>1 DEF GarbageInv
  <1>10. CASE skip_marking
    <2>1. down /\ down'
      BY <1>10 DEF skip_marking, AllKept, PhaseInv
    <2>2. QED
      BY <2>1 DEF GarbageInv
  <1>11. CASE gc_sweep
    <2>1. /\ at = "switch" /\ gc_status = "SWEEP" /\ at' = "sweep"
          /\ UNCHANGED <<type, bitmap, nb_stack, roots, down>>
      BY <1>11 DEF gc_sweep, clientVars
    <2>2. Mapped = todo'
      BY <1>11 DEF gc_sweep, HeapInv, PoolsListed, SweepHoldsPools
    <2>3. QED
      BY <1>4, <2>1, <2>2 DEF GarbageInv
  <1>12. ASSUME NEW p \in todo, gc_sweep_pool(p) PROVE GarbageInv'
    <2>1. /\ at = "sweep" /\ p \in Pool /\ todo' = todo \ {p}
          /\ bitmap' = [bitmap EXCEPT ![p] =
               [c \in Cell |-> IF c \in CellsMarked(p, "WHITE") THEN "UNUSED"
                               ELSE IF c \in CellsMarked(p, "BLACK") THEN "WHITE" ELSE bitmap[p][c]]]
          /\ type' = IF CellsMarked(p, "BLACK") = {} THEN [type EXCEPT ![p] = None] ELSE type
          /\ UNCHANGED <<nb_stack, roots, at, down>>
      BY <1>12 DEF gc_sweep_pool, HeapInv, HeapType, clientVars
    <2>2. Mapped' \subseteq Mapped /\ p \in Mapped /\ Mapped \subseteq Pool
      BY <2>1 DEF Mapped, HeapInv, HeapType, PoolsListed
    <2>3. References' = References
      BY <2>1 DEF References, Entries
    <2>4. \A c \in Cell : bitmap'[p][c] # "UNUSED" => bitmap[p][c] = "BLACK"
      BY <2>1 DEF CellsMarked, HeapInv, HeapType, NoGray, Mark
    <2>5. \A q \in Pool : q # p => bitmap'[q] = bitmap[q]
      BY <2>1 DEF HeapInv, HeapType
    <2>6. ASSUME ~down PROVE UsedReferenced(p)'
      BY <2>1, <2>2, <2>3, <2>4, <2>6 DEF GarbageInv, BlackReferenced, UsedReferenced, Referenced
    <2>7. \A q \in Mapped : q # p => /\ BlackReferenced(q)' = BlackReferenced(q)
                                     /\ UsedReferenced(q)' = UsedReferenced(q)
      BY <2>2, <2>3, <2>5 DEF BlackReferenced, UsedReferenced, Referenced
    <2>8. QED
      BY <2>1, <2>2, <2>6, <2>7 DEF GarbageInv
  <1>13. CASE sweep_done
    <2>1. /\ at = "sweep" /\ todo = {} /\ at' = "switch" /\ gc_status' = "COMPACT"
          /\ UNCHANGED <<type, bitmap, nb_stack, roots, down>>
      BY <1>13 DEF sweep_done, CaseDone, AllKept, PhaseInv, poolVars, clientVars
    <2>2. QED
      BY <1>4, <2>1 DEF GarbageInv
  <1>14. CASE compact
    BY <1>1, <1>14 DEF compact
  <1>15. CASE UNCHANGED vars
    <2>1. UNCHANGED <<type, bitmap, nb_stack, roots, at, gc_status, pending, todo, down>>
      BY <1>15 DEF vars, poolVars, clientVars, ctlVars
    <2>2. QED
      BY <1>4, <2>1 DEF GarbageInv
  <1>16. QED
    BY <1>2, <1>3, <1>5, <1>6, <1>7, <1>8, <1>9, <1>10, <1>11, <1>12, <1>13, <1>14, <1>15
       DEF Next, Collect

\* After a whole collection every cell in use is one that a new-born stack or
\* a root refers to, as long as collections are whole and only objects
\* without pointers are declared valid.
THEOREM NoGarbageKept ==
  ASSUME Increment = FALSE, Published \cap PtrType = {}
  PROVE  Spec => []GarbageCollected
  <1>1. ShutdownInv /\ GarbageInv => GarbageCollected
    <2> SUFFICES ASSUME ShutdownInv, GarbageInv, at = "switch", gc_status = "COMPACT", flags = "full",
                        NEW x \in Mapped \X Cell, bitmap[x[1]][x[2]] # "UNUSED"
                 PROVE  \E r \in References : <<r.pool, r.cell>> = x
      BY DEF GarbageCollected
    <2>1. ~down
      BY DEF ShutdownInv
    <2>2. x[1] \in Mapped /\ x[2] \in Cell /\ x = <<x[1], x[2]>>
      OBVIOUS
    <2>3. Referenced(x[1], x[2])
      BY <2>1, <2>2 DEF GarbageInv, UsedReferenced
    <2>4. QED
      BY <2>2, <2>3 DEF Referenced
  <1>2. HeapInv /\ LiveInv /\ AllKept /\ [Next]_vars => LiveInv' /\ AllKept'
    BY NextAllKept
  <1>3. HeapInv /\ PhaseInv /\ BlackInv /\ ShutdownInv /\ [Next]_vars
          => PhaseInv' /\ BlackInv' /\ ShutdownInv'
    BY NextBlack
  <1>4. HeapInv /\ LiveInv /\ AllKept /\ BlackInv /\ GarbageInv /\ [Next]_vars => GarbageInv'
    BY NextGarbage
  <1>5. QED
    BY <1>1, <1>2, <1>3, <1>4, InitLive, InitBlack, InitGarbage, HeapInvariance, PTL DEF Spec
=============================================================================
