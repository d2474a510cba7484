------------------------------- MODULE GcObj -------------------------------
(***************************************************************************)
(* The object heap of src/m_gc_obj.c: cell pools with their bitmap and     *)
(* free list, the new-born stacks of the threads, and the collector        *)
(* (mark root, mark objects, sweep, compact), whole or incremental.        *)
(*                                                                         *)
(* A collection begins when every thread waits for it (at = "pause" until  *)
(* then), so no mutator acts while one is running; module MThread says how *)
(* far that is true.  The loops of the collector are steps of their own:   *)
(* one per marked reference and one per swept pool.  The single linked     *)
(* lists (free cells, pools) are sets: which element a pop or a traversal  *)
(* takes next is left open.                                                *)
(*                                                                         *)
(* The scan functions of all types are empty (src/m_gc_funcs.c): an object *)
(* refers to no other, references come from new-born stacks and roots.     *)
(***************************************************************************)
EXTENDS Naturals, Sequences, FiniteSets, FiniteSetsExt

CONSTANTS
  Thread,
  Pool,           \* addresses gc_mmap may return: the bound on mapped pools
  Cell,           \* cells of a pool (cell_num, the same for every type here)
  Type,           \* object types
  PtrType,        \* types with M_GC_OBJ_FL_PTR
  Size,           \* descr->size of each type
  None,           \* no type: the pool is not mapped
  BeginSize,      \* gc_begin_size
  GrayStackSize,
  NbFirst,        \* first size of a new-born stack, 32 in the code
  MaxNb,          \* bound: new-born objects of a thread
  MaxRoots,       \* bound: root objects
  Published,      \* types whose objects the clients declare valid (m_gc_add_obj)
  Increment,      \* TRUE: clients also call m_gc_run(M_GC_COLLECT_FL_INCREMENT)
  Shutdown        \* TRUE: the process ends with m_gc_shutdown

ASSUME HeapAssumption ==
  /\ IsFiniteSet(Pool) /\ IsFiniteSet(Cell) /\ Cell # {} /\ IsFiniteSet(Type)
  /\ PtrType \subseteq Type /\ Published \subseteq Type
  /\ None \notin Type
  /\ Size \in [Type -> Nat \ {0}]
  /\ BeginSize \in Nat /\ GrayStackSize \in Nat \ {0}
  /\ NbFirst \in Nat \ {0} /\ MaxNb \in Nat /\ MaxRoots \in Nat
  /\ Increment \in BOOLEAN /\ Shutdown \in BOOLEAN

VARIABLES
  type,           \* pool->type, None when the pool is not mapped
  bitmap,         \* mark of each cell of each pool
  free_cells,     \* pool->free_cells
  usable, full,   \* usable_pools and full_pools, of all stubs together
  nb_stack, nb_size,
  roots,          \* the objects in gc_root_hash
  gray_stack, gc_need_scan_gray,
  gc_status,
  at,             \* where gc_do_collect is: "idle" when it is not running
  flags,          \* its argument
  waiting,        \* threads that are paused for it
  pending,        \* references gc_mark_root has still to visit
  todo,           \* pools gc_sweep has still to visit
  gc_allocated_size, gc_last_allocated_size,
  fault,          \* a read of a pool that is not mapped
  down            \* m_gc_shutdown has been called

poolVars   == <<type, bitmap, free_cells, usable, full>>
clientVars == <<nb_stack, nb_size, roots>>
grayVars   == <<gray_stack, gc_need_scan_gray>>
ctlVars    == <<gc_status, at, flags, waiting, pending, todo>>
sizeVars   == <<gc_allocated_size, gc_last_allocated_size>>
vars == <<poolVars, clientVars, grayVars, ctlVars, sizeVars, fault, down>>

Mark   == {"UNUSED", "WHITE", "GRAY", "BLACK"}
Status == {"IDLE", "MARK_ROOT", "MARK_OBJ", "SWEEP", "COMPACT"}

\* A reference: the object's address, the type it was allocated with, and
\* GC_NB_FL_NO_PTR.  late is a history variable for the property KeptAllocated:
\* the object was allocated between the marking and the sweep of a collection.
Ref == [pool : Pool, cell : Cell, as : Type, no_ptr : BOOLEAN, late : BOOLEAN]

Entries(t) == {nb_stack[t][i] : i \in DOMAIN nb_stack[t]}
References == (UNION {Entries(t) : t \in Thread}) \cup roots

Mapped == {p \in Pool : type[p] # None}
Mutator(t) == at \in {"idle", "pause"} /\ t \notin waiting /\ ~down /\ ~fault
Collector == at # "idle" /\ ~fault
-----------------------------------------------------------------------------
(***************************************************************************)
(* What the clients call.                                                  *)
(***************************************************************************)

UsablePools(ty) == {p \in usable : type[p] = ty}

\* gc_alloc_pool: the free cells of a pool mapped for the allocation.
FreeIn(p) == IF p \in usable THEN free_cells[p] ELSE Cell

\* Mutant: the mark of the new object is not set.
AllocMarksUnset(p, c) ==
  [d \in Cell |-> IF p \in usable THEN bitmap[p][d] ELSE "UNUSED"]

\* The bitmap of pool p, cleared when it is new, with the mark of the new object.
AllocMarks(p, c) ==
  [d \in Cell |-> IF d = c THEN "WHITE"
                  ELSE IF p \in usable THEN bitmap[p][d] ELSE "UNUSED"]

\* Mutant: a pool that lost its last free cell stays on the usable list.
PoolFilledNever(p, c) == FALSE

\* The pool moves to the full list when it has no free cell left.
PoolFilled(p, c) == FreeIn(p) = {c}

\* Mutant: the stack grows one object too late.
NbGrownLate(t) ==
  IF Len(nb_stack[t]) > nb_size[t] THEN Max({2 * nb_size[t], NbFirst}) ELSE nb_size[t]

\* nsize = M_MAX(nb_size * 2, 32) when the stack is full.
NbGrown(t) ==
  IF Len(nb_stack[t]) = nb_size[t] THEN Max({2 * nb_size[t], NbFirst}) ELSE nb_size[t]

\* The test at the end of gc_alloc_obj.
ThresholdCrossed(size) ==
  size >= BeginSize /\ size * 2 > gc_last_allocated_size * 3

\* gc_collect_objs: the first thread to call it will collect, any other waits
\* for that collection.
gc_collect_objs(t, f) ==
  /\ waiting' = waiting \cup {t}
  /\ IF at = "idle" THEN at' = "pause" /\ flags' = f ELSE UNCHANGED <<at, flags>>

\* The entry of a new object, which is not initialised.
NewRef(p, c, ty) ==
  [pool |-> p, cell |-> c, as |-> ty, no_ptr |-> TRUE,
   late |-> gc_status \in {"MARK_OBJ", "SWEEP"}]

\* m_gc_alloc_obj: a cell of a usable pool, or of a pool mapped for it, goes
\* on the caller's new-born stack, not yet initialised, and is marked white;
\* the caller may then have to collect.
m_gc_alloc_obj(t, ty) ==
  /\ Mutator(t) /\ Len(nb_stack[t]) < MaxNb
  /\ \E p \in IF UsablePools(ty) # {} THEN UsablePools(ty) ELSE Pool \ Mapped :
       \E c \in FreeIn(p) :
         /\ type' = [type EXCEPT ![p] = ty]
         /\ free_cells' = [free_cells EXCEPT ![p] = FreeIn(p) \ {c}]
         /\ bitmap' = [bitmap EXCEPT ![p] = AllocMarks(p, c)]
         /\ usable' = IF PoolFilled(p, c) THEN usable \ {p} ELSE usable \cup {p}
         /\ full' = IF PoolFilled(p, c) THEN full \cup {p} ELSE full
         /\ nb_stack' = [nb_stack EXCEPT ![t] = Append(@, NewRef(p, c, ty))]
  /\ nb_size' = [nb_size EXCEPT ![t] = NbGrown(t)]
  /\ gc_allocated_size' = gc_allocated_size + Size[ty]
  /\ IF ThresholdCrossed(gc_allocated_size')
       THEN gc_collect_objs(t, "full")
       ELSE UNCHANGED <<at, flags, waiting>>
  /\ UNCHANGED <<roots, grayVars, gc_status, pending, todo,
                 gc_last_allocated_size, fault, down>>

\* m_gc_add_obj: the object is initialised, its flag is cleared.
m_gc_add_obj(t, oid) ==
  /\ Mutator(t) /\ oid \in DOMAIN nb_stack[t]
  /\ nb_stack[t][oid].as \in Published /\ nb_stack[t][oid].no_ptr
  /\ nb_stack' = [nb_stack EXCEPT ![t][oid].no_ptr = FALSE]
  /\ UNCHANGED <<poolVars, nb_size, roots, grayVars, ctlVars, sizeVars, fault, down>>

\* m_gc_set_nb_level: the objects above the level are dropped.
m_gc_set_nb_level(t, level) ==
  /\ Mutator(t) /\ level < Len(nb_stack[t])
  /\ nb_stack' = [nb_stack EXCEPT ![t] = SubSeq(@, 1, level)]
  /\ UNCHANGED <<poolVars, nb_size, roots, grayVars, ctlVars, sizeVars, fault, down>>

\* m_gc_add_root of a published object the thread holds.
m_gc_add_root(t, oid) ==
  /\ Mutator(t) /\ oid \in DOMAIN nb_stack[t]
  /\ ~nb_stack[t][oid].no_ptr
  /\ Cardinality(roots) < MaxRoots
  /\ roots' = roots \cup {nb_stack[t][oid]}
  /\ UNCHANGED <<poolVars, nb_stack, nb_size, grayVars, ctlVars, sizeVars, fault, down>>

m_gc_run(t, f) ==
  /\ Mutator(t)
  /\ f = "increment" => Increment
  /\ gc_collect_objs(t, f)
  /\ UNCHANGED <<poolVars, clientVars, grayVars, gc_status, pending, todo, sizeVars, fault, down>>

\* Mutant: the thread does not count itself as paused.
m_thread_check_uncounted(t) ==
  /\ Mutator(t) /\ at = "pause"
  /\ UNCHANGED vars

\* m_thread_check, which pauses the thread while thread_pause_flag is set.
m_thread_check(t) ==
  /\ Mutator(t) /\ at = "pause"
  /\ waiting' = waiting \cup {t}
  /\ UNCHANGED <<poolVars, clientVars, grayVars, gc_status, at, flags, pending, todo,
                 sizeVars, fault, down>>

\* Mutant: the last collection marks what is still referenced.
gc_obj_shutdown_marking ==
  /\ at = "idle" /\ ~down /\ ~fault /\ Shutdown
  /\ down' = TRUE
  /\ at' = "switch" /\ flags' = "full"
  /\ UNCHANGED <<poolVars, clientVars, grayVars, gc_status, waiting, pending, todo,
                 sizeVars, fault>>

\* gc_obj_shutdown, from m_gc_shutdown at the end of the process.
gc_obj_shutdown ==
  /\ at = "idle" /\ ~down /\ ~fault /\ Shutdown
  /\ down' = TRUE
  /\ at' = "switch" /\ flags' = "clear"
  /\ UNCHANGED <<poolVars, clientVars, grayVars, gc_status, waiting, pending, todo,
                 sizeVars, fault>>
-----------------------------------------------------------------------------
(***************************************************************************)
(* gc_do_collect: a switch on gc_status whose cases fall through, left     *)
(* after each of them by an incremental collection.                        *)
(***************************************************************************)

\* m_thread_pause_all returns when every thread is paused.
m_thread_pause_all ==
  /\ Collector /\ at = "pause" /\ waiting = Thread
  /\ at' = "switch"
  /\ UNCHANGED <<poolVars, clientVars, grayVars, gc_status, flags, waiting, pending, todo,
                 sizeVars, fault, down>>

\* The end of a case; m_thread_resume_all follows the end of the function.
CaseDone(status) ==
  /\ gc_status' = status
  /\ at' = IF flags = "increment" THEN "idle" ELSE "switch"
  /\ waiting' = IF flags = "increment" THEN {} ELSE waiting

\* Mutant: the new-born stacks are not visited.
gc_mark_root_hash_only ==
  /\ Collector /\ at = "switch" /\ gc_status = "IDLE" /\ flags # "clear"
  /\ gc_status' = "MARK_ROOT" /\ at' = "mark"
  /\ gc_need_scan_gray' = FALSE
  /\ pending' = roots
  /\ UNCHANGED <<poolVars, clientVars, gray_stack, flags, waiting, todo, sizeVars,
                 fault, down>>

\* Entry of gc_mark_root: the references gc_mark_nb_stacks and
\* gc_mark_root_hash will visit.
gc_mark_root ==
  /\ Collector /\ at = "switch" /\ gc_status = "IDLE" /\ flags # "clear"
  /\ gc_status' = "MARK_ROOT" /\ at' = "mark"
  /\ gc_need_scan_gray' = FALSE
  /\ pending' = References
  /\ UNCHANGED <<poolVars, clientVars, gray_stack, flags, waiting, todo, sizeVars,
                 fault, down>>

gc_push_gray_stack(r) ==
  IF Cardinality(gray_stack) = GrayStackSize
    THEN gc_need_scan_gray' = TRUE /\ UNCHANGED gray_stack
    ELSE gray_stack' = gray_stack \cup {r} /\ UNCHANGED gc_need_scan_gray

\* gc_obj_get_pool and gc_obj_get_id: which cell an address is taken for.  A
\* stale address in a pool mapped again with cells of another size may be
\* anywhere in it.
Resolve(r) ==
  IF Size[type[r.pool]] = Size[r.as] THEN {r.cell} ELSE Cell

\* Mutant: the type is not looked at.
MarkColorAnyType(no_ptr, ty) ==
  IF no_ptr THEN "BLACK" ELSE "WHITE"

\* The colour a white object gets: no_ptr is set_flags == GC_MARK_BLACK, which
\* gc_mark_nb_stacks passes for objects that are not initialised.  flags keeps
\* the colour it was read with when neither test holds.
MarkColor(no_ptr, ty) ==
  IF no_ptr \/ ty \notin PtrType THEN "BLACK" ELSE "WHITE"

\* gc_mark_with_color, for one reference of a new-born stack or of the roots.
gc_mark_with_color(r) ==
  /\ Collector /\ at = "mark" /\ r \in pending
  /\ pending' = pending \ {r}
  /\ IF type[r.pool] = None
       THEN fault' = TRUE /\ UNCHANGED <<bitmap, grayVars>>
       ELSE /\ \E c \in Resolve(r) :
                 IF bitmap[r.pool][c] = "WHITE"
                   THEN LET color == MarkColor(r.no_ptr, type[r.pool])
                        IN  /\ bitmap' = [bitmap EXCEPT ![r.pool][c] = color]
                            /\ IF color = "GRAY" THEN gc_push_gray_stack(<<r.pool, c>>)
                                                 ELSE UNCHANGED grayVars
                   ELSE UNCHANGED <<bitmap, grayVars>>
            /\ UNCHANGED fault
  /\ UNCHANGED <<type, free_cells, usable, full, clientVars, gc_status, at, flags,
                 waiting, todo, sizeVars, down>>

mark_root_done ==
  /\ Collector /\ at = "mark" /\ pending = {}
  /\ CaseDone("MARK_OBJ")
  /\ UNCHANGED <<poolVars, clientVars, grayVars, flags, pending, todo, sizeVars, fault, down>>

GrayCells == {x \in Mapped \X Cell : bitmap[x[1]][x[2]] = "GRAY"}

\* gc_mark_objs: with an empty stack and a scan pending, the gray cells that
\* fit are pushed again (gc_scan_gray, gc_scan_pool_gray); the stack is then
\* emptied, the scan functions finding nothing.  The case is repeated until
\* nothing is left to scan.
gc_mark_objs ==
  /\ Collector /\ at = "switch" /\ gc_status = "MARK_OBJ" /\ flags # "clear"
  /\ LET scan == gray_stack = {} /\ gc_need_scan_gray
         more == IF scan THEN Cardinality(GrayCells) > GrayStackSize ELSE gc_need_scan_gray
     IN  /\ gray_stack' = {}
         /\ gc_need_scan_gray' = more
         /\ CaseDone(IF more THEN "MARK_OBJ" ELSE "SWEEP")
  /\ UNCHANGED <<poolVars, clientVars, flags, pending, todo, sizeVars, fault, down>>

\* M_GC_COLLECT_FL_CLEAR: nothing is marked.
skip_marking ==
  /\ Collector /\ at = "switch" /\ gc_status \in {"IDLE", "MARK_OBJ"} /\ flags = "clear"
  /\ gc_status' = "SWEEP"
  /\ UNCHANGED <<poolVars, clientVars, grayVars, at, flags, waiting, pending, todo,
                 sizeVars, fault, down>>

\* Mutant: only the full pools are swept.
gc_sweep_full_only ==
  /\ Collector /\ at = "switch" /\ gc_status = "SWEEP"
  /\ at' = "sweep" /\ todo' = full
  /\ full' = {}
  /\ UNCHANGED <<type, bitmap, free_cells, usable, clientVars, grayVars, gc_status, flags,
                 waiting, pending, sizeVars, fault, down>>

\* gc_sweep takes the pools of every stub off their lists ...
gc_sweep ==
  /\ Collector /\ at = "switch" /\ gc_status = "SWEEP"
  /\ at' = "sweep" /\ todo' = usable \cup full
  /\ usable' = {} /\ full' = {}
  /\ UNCHANGED <<type, bitmap, free_cells, clientVars, grayVars, gc_status, flags,
                 waiting, pending, sizeVars, fault, down>>

CellsMarked(p, mark) == {c \in Cell : bitmap[p][c] = mark}

\* Mutant: the size of a whole pool is taken off.
SweptSizeOfPool(p) == Size[type[p]] * Cardinality(Cell)

\* Mutant: the size is taken off once per pool.
SweptSizeOnce(p) == IF CellsMarked(p, "WHITE") = {} THEN 0 ELSE Size[type[p]]

\* gc_allocated_size -= descr->size for every collected cell.
SweptSize(p) == Size[type[p]] * Cardinality(CellsMarked(p, "WHITE"))

\* ... and gc_sweep_pool frees the white cells of each, whitens the black ones
\* and lists the pool again, or unmaps it when nothing in it was black.
gc_sweep_pool(p) ==
  /\ Collector /\ at = "sweep" /\ p \in todo
  /\ todo' = todo \ {p}
  /\ LET white == CellsMarked(p, "WHITE")
         black == CellsMarked(p, "BLACK")
         free  == free_cells[p] \cup white
     IN  /\ bitmap' = [bitmap EXCEPT ![p] =
              [c \in Cell |-> IF c \in white THEN "UNUSED"
                              ELSE IF c \in black THEN "WHITE" ELSE bitmap[p][c]]]
         /\ free_cells' = [free_cells EXCEPT ![p] = free]
         /\ type' = IF black = {} THEN [type EXCEPT ![p] = None] ELSE type
         /\ usable' = IF black # {} /\ free # {} THEN usable \cup {p} ELSE usable
         /\ full' = IF black # {} /\ free = {} THEN full \cup {p} ELSE full
         /\ gc_allocated_size' = gc_allocated_size - SweptSize(p)
  /\ UNCHANGED <<clientVars, grayVars, gc_status, at, flags, waiting,
                 pending, gc_last_allocated_size, fault, down>>

\* Mutant: gc_status stays where it is, the next increment sweeps again.
sweep_done_again ==
  /\ Collector /\ at = "sweep" /\ todo = {}
  /\ gc_last_allocated_size' = gc_allocated_size
  /\ CaseDone("SWEEP")
  /\ UNCHANGED <<poolVars, clientVars, grayVars, flags, pending, todo,
                 gc_allocated_size, fault, down>>

sweep_done ==
  /\ Collector /\ at = "sweep" /\ todo = {}
  /\ gc_last_allocated_size' = gc_allocated_size
  /\ CaseDone("COMPACT")
  /\ UNCHANGED <<poolVars, clientVars, grayVars, flags, pending, todo,
                 gc_allocated_size, fault, down>>

compact ==
  /\ Collector /\ at = "switch" /\ gc_status = "COMPACT"
  /\ gc_status' = "IDLE" /\ at' = "idle" /\ waiting' = {}
  /\ UNCHANGED <<poolVars, clientVars, grayVars, flags, pending, todo, sizeVars, fault, down>>
-----------------------------------------------------------------------------
\* gc_obj_startup, m_gc_startup.
Init ==
  /\ type = [p \in Pool |-> None]
  /\ bitmap = [p \in Pool |-> [c \in Cell |-> "UNUSED"]]
  /\ free_cells = [p \in Pool |-> Cell]
  /\ usable = {} /\ full = {}
  /\ nb_stack = [t \in Thread |-> <<>>] /\ nb_size = [t \in Thread |-> 0]
  /\ roots = {}
  /\ gray_stack = {} /\ gc_need_scan_gray = FALSE
  /\ gc_status = "IDLE" /\ at = "idle" /\ flags = "full"
  /\ waiting = {} /\ pending = {} /\ todo = {}
  /\ gc_allocated_size = 0 /\ gc_last_allocated_size = 0
  /\ fault = FALSE /\ down = FALSE

Client(t) ==
  \/ \E ty \in Type : m_gc_alloc_obj(t, ty)
  \/ \E oid \in DOMAIN nb_stack[t] : m_gc_add_obj(t, oid) \/ m_gc_add_root(t, oid)
  \/ \E level \in 0 .. MaxNb : m_gc_set_nb_level(t, level)
  \/ \E f \in {"full", "increment"} : m_gc_run(t, f)
  \/ m_thread_check(t)

Collect ==
  \/ m_thread_pause_all
  \/ gc_mark_root \/ mark_root_done \/ gc_mark_objs \/ skip_marking
  \/ gc_sweep \/ sweep_done \/ compact
  \/ \E r \in pending : gc_mark_with_color(r)
  \/ \E p \in todo : gc_sweep_pool(p)

Next ==
  \/ \E t \in Thread : Client(t)
  \/ gc_obj_shutdown
  \/ Collect

Spec == Init /\ [][Next]_vars

\* The thread that collects is scheduled, and a thread in the environment calls
\* m_thread_check again and again.
FairSpec == Spec /\ WF_vars(Collect) /\ \A t \in Thread : WF_vars(m_thread_check(t))
-----------------------------------------------------------------------------
TypeOK ==
  /\ type \in [Pool -> Type \cup {None}]
  /\ bitmap \in [Pool -> [Cell -> Mark]]
  /\ free_cells \in [Pool -> SUBSET Cell]
  /\ usable \subseteq Pool /\ full \subseteq Pool /\ todo \subseteq Pool
  /\ nb_stack \in [Thread -> Seq(Ref)] /\ nb_size \in [Thread -> Nat]
  /\ roots \subseteq Ref /\ pending \subseteq Ref
  /\ gray_stack \subseteq Pool \X Cell /\ gc_need_scan_gray \in BOOLEAN
  /\ gc_status \in Status /\ at \in {"idle", "pause", "switch", "mark", "sweep"}
  /\ flags \in {"full", "increment", "clear"} /\ waiting \subseteq Thread
  /\ gc_allocated_size \in Nat /\ gc_last_allocated_size \in Nat
  /\ fault \in BOOLEAN /\ down \in BOOLEAN

\* A cell is on the free list exactly when its mark is UNUSED: no cell in use
\* is ever handed out again and none is lost, whatever the order of
\* allocations and of the steps of collections, whole or incremental.
FreeMatchesBitmap ==
  \A p \in Mapped : free_cells[p] = {c \in Cell : bitmap[p][c] = "UNUSED"}

\* A mapped pool is on exactly one list, the one its free cells ask for: an
\* allocation never pops from an empty free list, and no pool is forgotten
\* between the lists that gc_sweep empties and rebuilds.
PoolsListed ==
  /\ Mapped = usable \cup full \cup todo
  /\ usable \cap full = {} /\ todo \cap (usable \cup full) = {}
  /\ \A p \in usable : free_cells[p] # {}
  /\ \A p \in full : free_cells[p] = {}

UsedOf(ty) == {x \in Mapped \X Cell : type[x[1]] = ty /\ bitmap[x[1]][x[2]] # "UNUSED"}

UsedSize == [ty \in Type |-> Size[ty] * Cardinality(UsedOf(ty))]

\* The size the threshold is computed from is the size of the objects.
SizeExact == gc_allocated_size = MapThenSumSet(LAMBDA ty : UsedSize[ty], Type)

\* A push never writes past the end of the new-born stack.
NbFits == \A t \in Thread : Len(nb_stack[t]) <= nb_size[t]

\* An object a client can still reach (new-born stack or root) is allocated,
\* in a pool of its type.
Allocated(r) == type[r.pool] = r.as /\ bitmap[r.pool][r.cell] # "UNUSED"
ReachableAllocated == ~down => \A r \in References : Allocated(r)

\* What a collection in increments may take from a client that still refers to
\* it: an object allocated after the roots were marked, which is white when the
\* sweep comes, and one with pointers that was declared valid.  Nothing else is
\* lost, whatever the client allocates, publishes, drops and collects, whole or
\* in part, between two increments, and although its references to lost objects
\* still lead the marking into pools that hold other objects by then.
Kept(r) == ~r.late /\ (r.no_ptr \/ r.as \notin PtrType)
KeptAllocated == ~down => \A r \in References : Kept(r) => Allocated(r)

Address(t, i) == <<nb_stack[t][i].pool, nb_stack[t][i].cell>>

\* Two new-born objects are never the same cell: no live object is handed to
\* a second allocation.
NoAlias ==
  ~down =>
    \A t, u \in Thread : \A i \in DOMAIN nb_stack[t], j \in DOMAIN nb_stack[u] :
      Address(t, i) = Address(u, j) => t = u /\ i = j

\* Once gc_obj_shutdown returns no object and no pool is left.
ShutdownFreesAll == (down /\ at = "idle") => (Mapped = {} /\ gc_allocated_size = 0)

\* After a whole collection nothing unreachable is left: every cell in use is
\* one that a new-born stack or a root refers to.
GarbageCollected ==
  (at = "switch" /\ gc_status = "COMPACT" /\ flags = "full") =>
    \A x \in Mapped \X Cell :
      bitmap[x[1]][x[2]] # "UNUSED" => \E r \in References : <<r.pool, r.cell>> = x

\* A collection ends.
CollectionEnds == at # "idle" ~> (at = "idle" \/ fault)
=============================================================================
