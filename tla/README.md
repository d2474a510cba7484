# Ming: a TLA+ verification project

Ming is the run-time library of a small actor language, written in C. What the
repository holds so far is its foundation: a garbage collector that stops all
threads, the thread registry this needs, and the containers both are built on.
This directory models that foundation in TLA+, checks it with TLC on small
instances and proves its central invariants with TLAPS for instances of any size.

Source paths below are relative to the repository root as it appears in
`PROJECT.json` (`src/src/...` for the library, `src/include/...` for headers).

## 1. Inventory

| Component | State | Operations | Correct when |
|---|---|---|---|
| Thread registry and stop-the-world, `m_thread.c` | `m_thread_list`, `m_thread_num`, `m_paused_thread_num`, the paused flag of each thread, `thread_pause_flag`, two condition variables | `thread_register`, `thread_key_destructor`, `m_thread_leave/enter/check`, `m_thread_pause_all/resume_all` | counters mean what they say, nobody runs beside the collector, every collection ends and everybody resumes |
| Object heap and collector, `m_gc_obj.c` | cell pools (bitmap, free list), two pool lists per type, new-born stacks, gray stack, `gc_status`, allocated sizes | `m_gc_alloc_obj`, `m_gc_add_obj`, `m_gc_set_nb_level`, `m_gc_run`, `gc_obj_shutdown`; inside: mark, sweep, compact | nothing reachable is freed, no cell is handed out twice, garbage goes, bitmap and lists agree |
| Root table, `m_gc_root.c` | a hash table of reference-counted nodes | `m_gc_add_root`, `m_gc_remove_root`, shutdown | an object is a root exactly while it has outstanding adds |
| Hash table, `m_hash.h` | bucket lists, size | lookup, insert, remove, resize, deinit, three traversals | a set with unique keys; traversals that remove see everything once |
| Red black tree, `m_rbtree.h` | links and colours | lookup, insert, remove, deinit, traversals in both directions | a balanced search tree; traversals that remove see everything in order |
| Lists, `m_list.h` | links | init, append, prepend, remove, push, pop | rings and chains stay well linked |
| Page mapping, `m_gc_map.c` | none | `gc_mmap`, `gc_munmap` | aligned memory, mapped as a whole, nothing else unmapped |
| Buffers, `m_gc_buf.c`, `m_malloc.h` | none | alloc, realloc, free | blocks as long as their owners believe, none lost |
| Start and shutdown, `m_startup.c`, `m_gc.c` | `once` | `m_startup`, the `shutdown` of atexit | order of dependencies; it ends |
| Actor threads, `m_thread.c` | `actor_thread_list`, `thread_exit_flag`, a condition variable | `m_thread_create`, `thread_entry`, `m_thread_shutdown` | all of them have ended when what they use goes |
| Log, `m_log.c` | file, level, lock | `m_log`, start, shutdown | the lock and the file outlive their users |
| Values, `m_value.h` | none | constructors, tests, getters | a value decodes as what it was made from |
| Comparison, `m_cmp.h` | none | four functions | an order on the keys that occur |
| Atomics, macros, data types of the language | none | declarations | - |

How they interact. A thread enters the environment (`m_thread_enter`), allocates
(`m_gc_alloc_obj` pushes the object on its own new-born stack), publishes
(`m_gc_add_obj`), roots (`m_gc_add_root`) and drops (`m_gc_set_nb_level`) objects.
`m_gc_lock` protects the heap, the root table and the thread registry together.
A collection is started by the thread whose allocation crosses the threshold, or
by `m_gc_run`: it sets `thread_pause_flag`, waits until all registered threads are
paused, *releases* `m_gc_lock`, marks from the new-born stacks of all threads of
`m_thread_list` and from the root table, sweeps, takes the lock again and resumes.

What is hard here: the counters that decide that the world is stopped are moved by
six functions; a condition variable is signalled outside the lock in one place
and not at all in another; the collector walks the thread list without the lock;
a collection may be left in the middle (incremental) and resumed with other
flags; the containers are modified under running traversals; and the rebalance
loops of the tree hold pointers across rotations; actors are created without a
lock and must have ended before the shutdown destroys what they sleep on; and the
arithmetic of tags, pools and alignments is only ever exercised at a few of its
inputs. `PROJECT.json` lists these
hazards one by one with the line where each bites and the properties that watch it.

## 2. Modules

| Module | Models | Notes |
|---|---|---|
| `MList` | the functions of `m_list.h` | pure operators on link functions, used by `MThread` and `Lists` |
| `Lists` | a client of `m_list.h` | the safe loops, against sequences; `ContainerProofs` |
| `MThread` | `m_thread.c`, `gc_collect_objs`, the walk of `gc_mark_nb_stacks` | `MThreadProofs` holds the theorems |
| `GcObj` | `m_gc_obj.c` | `GcObjProofs` holds the theorems |
| `MHash` | the functions of `m_hash.h` | pure operators on `[lists, size]` |
| `HashTable` | a client of `m_hash.h` | extends `MHash`, implements `KeyedSet`; `ContainerProofs` |
| `GcRoot` | `m_gc_root.c` | extends `MHash`; `ContainerProofs` |
| `RBTree` | `m_rbtree.h` | implements `KeyedSet`; `TreeLemmas` says what its operators do to a tree, `TreeProofs` holds the theorems |
| `Lifecycle` | `m_startup.c`, `m_gc.c`, `m_log.c`, the actors of `m_thread.c` | startup, application, actors, shutdown as interleaved threads; `LifecycleProofs` |
| `PoolLayout` | a cell pool of `m_gc_obj.c` in bytes and bits | what `GcObj` abstracts: sizes, addresses, packed marks |
| `GcMap` | `m_gc_map.c` | the attempts of `gc_mmap` |
| `GcBuf` | `m_gc_buf.c` | a client that keeps one buffer |
| `MValue` | `m_value.h` | 64 bit builds, scaled widths |
| `MCmp` | `m_cmp.h` | scaled widths |
| `Arith` | - | the five modules above side by side, each with its own constants and variables; `ArithProofs` |
| `DataLemmas` | - | what the proofs share: induction, sums, sequences |
| `KeyedSet` | what a container promises | abstract: a set of nodes, at most one per key |
| `MC*` | instances for TLC | constants, symmetry; `MCContainers` and `MCArith` hold several modules that share no state, of which each behaviour exercises one |

Operators keep the names of the functions they model. An operator whose comment
begins with "Mutant:" is a deliberately wrong variant of the definition below it;
no specification uses it. Replacing the definition by its mutant must make one
named property fail (the list is in `PROJECT.json`), which shows that the property
depends on that piece of code.

### MThread

A critical section of `m_gc_lock` is one action, because nothing outside the lock
reads what it protects - except in the places the model takes apart:

* `m_thread_enter` of a thread without data drops the lock before
  `thread_register` takes it again: two actions (`pc = "registering"` between them);
* `m_thread_leave` signals after its unlock: `leave_signal`;
* the collection runs unlocked: `walk_begin`, `walk_step` (once per thread of the
  list) and `walk_end`, with everything that needs only the lock going on beside it;
* `thread_key_destructor` frees the thread data after its unlock: `free_thread`.

A condition variable is the set of threads blocked on it. `Signalled` and
`SpuriousWakeup` model pthreads (external): a signal wakes one waiter, a wait may
return for no reason, and a woken thread tests its loop condition again. When the
walk stands on a freed `M_Thread` the next pointer it reads may be anything.
`late` remembers which threads registered after the world had stopped; it is there
for the properties only. Collections follow one another without a bound.

### GcObj

The heap side of a collection. A reference is an address (pool and cell), the type
it was allocated as and the flag `GC_NB_FL_NO_PTR`. The single linked lists of free
cells and of pools are sets: which cell is popped and which pool comes next is left
open. `gc_alloc_obj` is one action with all it does, down to the threshold test.
From `gc_collect_objs` on, `at = "pause"`: the other threads go on (and may
allocate, or cross the threshold too and join) until all of them wait; then the
switch of `gc_do_collect` runs, one step per case, per marked reference and per
swept pool. `fault` records the read of an unmapped pool.
The scan functions of all types are empty in `m_gc_funcs.c`, so objects refer to
nothing and the gray stack is only ever filled by `gc_mark_with_color`.
A failed `gc_mmap` makes the allocation return NULL with nothing changed.
A reference has a history field `late`, for the properties only: whether it was
allocated between the marking and the sweep of an incremental collection.
The overflow of the gray stack and `gc_scan_gray` are modelled but never exercised: with
the colour the code really assigns (see `heap_published`) nothing is pushed.

The constants `Published` and `Increment` choose what the clients do: for which
types `m_gc_add_obj` is called, and whether `m_gc_run` is called with
`M_GC_COLLECT_FL_INCREMENT`. All properties of structure hold for every choice;
that no referenced object is freed holds only for the restricted one (see
Findings), and `KeptAllocated` says what can be lost under the others.

### MHash, HashTable, GcRoot

A table is its bucket lists and its size. The places a `M_HashNode **` can point to
are pairs of list and index. `HashTable` is a client that follows the comment of
`m_hash_insert` (look up, resize or not, insert) and runs the two traversals in
whose body nodes may be removed, one step per iteration. `GcRoot` uses the same
operators with the key function of the source, which returns the address of the
node and not of the object. `Rehashed` is the loop of `m_hash_resize`, which pushes
the nodes one by one on the lists of the new buffer. In both models the first buffer has `MinLists = 1`
list instead of 9, so that growing happens with few nodes.

### RBTree

Links and colours are one record that `m_rbt_rotate_left/right` transform.
`m_rbt_insert` and `m_rbt_remove` are an entry action, one action per iteration of
their loops, and for remove the final unlinking with the locals remembered from the
entry (`rm`). Keys are integers with their exact order. The loops that only read the
tree (first, last, next and previous node, lookup) are recursive functions that take
`Steps` steps and stay where they are when the link they follow is NULL; `Steps` is the
number of nodes, and the proofs show that no path is longer.

### Lists

One double and one single linked list with the sequences they stand for. The
links of freed nodes are `Junk`, so a loop that reads a freed node, or the head of
a list that was meanwhile emptied, leaves the expected order. The single linked
loop is the one of `gc_sweep`: the head is copied and emptied, and the body frees
each node or pushes it on the emptied list.

### Lifecycle

Resources (locks, condition variable, log file, key, heap) are `none`, `up` or
`down`; `misused` collects those a call uses when they are not up, and destroying
a condition variable with waiters misuses it. `m_log` is two steps with the lock
held between them. The push of `m_thread_create` is its two assignments, for no
lock protects it. Main makes the first call of `m_startup` and returns from main
when the application threads that are not `Stragglers` have ended.

### PoolLayout, GcMap, GcBuf, MValue, MCmp

Numbers keep their widths, scaled down; a `size_t` or a cast to `int` is a
remainder. `PoolLayout` has the widths of the code's mixture: sizes and their products in
`size_t` (`LongBits`), the count of the cells to list, the index of a cell and the
product in `gc_sweep_pool` in an `int` or `uint32_t` (`IdBits`). Where these cut a number
off, the program writes memory it did not mean: `wild` is set and the behaviour is not
followed any further. `PoolLayout` runs a pool through startup, mapping, allocation, marking
and sweep on packed words (the loop over the marks of a word is the function `upto`
of `SweptWord`), beside `marks`, the function from cells to marks that `GcObj` uses in
its place. `GcMap` counts in system pages smaller than
`M_PAGE_SIZE`, which is where the unaligned cases come from (with equal pages the
first attempt always succeeds); mmap, munmap and the rest of the process are
external. A mapping that is not put at the hint sets `moved`. `MValue` and `MCmp`
are called once per behaviour segment with every input; what a double is, is left open
(`Converted` from an integer or `Stored` bits).

## 3. Runs

Passing runs:

| Run | Instance | Shows |
|---|---|---|
| `thread_world` | 3 threads, any number of collections, exits from outside and inside the environment, fairness | `TypeOK`, `CountersExact`, `AssertionsHold`, `ListMatchesRegistration`, `StoppedExceptLate`, `StacksMarkedBeforeSweep`, `CollectionCompletesUnlessInsideExit`, `PausedThreadResumes` |
| `heap_structure` | 1 thread, 2 pools of 2 cells, 2 types, all published, whole and incremental collections | `FreeMatchesBitmap`, `PoolsListed`, `SizeExact`, `NbFits`, `KeptAllocated`, `TypeOK` |
| `heap_live` | 2 threads, 2 roots, whole collections, published doubles, fairness | `ReachableAllocated`, `NoAlias`, `GarbageCollected`, `ShutdownFreesAll`, `CollectionEnds` |
| `containers` | hash table: 5 nodes, 2 of them with one key; roots: 2 objects, 5 nodes, 2 references; tree: 7 keys, fairness; lists: 4 nodes | `SizeExact`, `FoundByKey`, `TraversalComplete`, `ImplementsKeyedSet`; `RootsKept`; `SearchTree`, `RedBlack`, `TraversalOrdered`, `CallsReturn`, `TreeImplementsKeyedSet`; `ListIsSequence`, `ListTraversalOrdered` |
| `process` | Main, 2 application threads, 2 actors, both log files, 3 levels, fairness | `NoDeadObjectUsed`, `AllThreadsStopped`, `ShutdownCompletes` |
| `arithmetic` | see `MCArith` for the widths | `DecodesAsMade`, `CmpIsOrder`, `CellsFound`, `MarksUnpacked`, `PoolMapped`, `BufferHolds` |

Bounds. Three threads are a collector, one that is paused and one that is
registering, leaving or exiting. The number of collections is not bounded, so a resume may
meet the next pause any number of times.
Two pools of two cells make a pool full, partly used and empty, and let a pool be
unmapped and mapped again for the other type (with cells of another size).
`heap_structure` follows one thread with two new-born objects (the stack grows
twice); `heap_live` follows two threads with one each and two roots, which fills
both pools and lets one thread allocate while the other waits for the world to stop. `BeginSize = 3` makes
allocations of size 1 and 2 cross the threshold in some orders. Five hash nodes
make the table grow at 0 and at 3 nodes (list counts 1 and 3) with collisions.
Seven keys reach every case of both rebalance loops, each on both sides (TLC's
coverage shows no expression of them unused).
Four list nodes give both lists a first, a middle and a last node. Two actors are
one that sleeps and one that is only starting when the shutdown broadcasts.
The widths of `MCArith` are the smallest that keep every case: ints of 8 bits in
words of 16; keys four times the range of an int and more; pools of 1 to 32 pages of
16 bytes with 1 to 53 cells, so that bitmaps have one word and several, a `size_t` of 10
bits in which the bits of the largest pools wrap, and an `int` of 5 bits that indices,
counts and the product of the sweep exceed in pools of more than 32 bytes; a system page that is
a quarter of `M_PAGE_SIZE`, with room for the largest request when nobody else holds
memory and not otherwise. At most two cells of a pool are in use (`MaxUsed`), which
is enough for a gap between marks inside a word.
Deadlock checking is off only where the process ends (`gc_obj_shutdown`,
`gc_root_hash_shutdown`).

Fairness. `MThread`: a thread in the middle of a call is scheduled
(`WF(Continue(t))`), a thread woken in `m_thread_enter` runs on, and a thread in the
environment calls `m_thread_check` again and again, which is what that function is
for. This does not make a paused thread run again while collections follow one another:
it is woken, but the next collection may set `thread_pause_flag` before it takes the
lock and tests the flag. `PausedThreadResumes` therefore has the hypothesis that from
some point on nobody starts a collection (`CollectionsStop`). Nothing is assumed about leaving, entering, exiting or spurious wakeups.
`GcObj`: the collecting thread is scheduled and the others call `m_thread_check`.
`RBTree`: a running call runs on. `Lifecycle`: the shutdown, actors and threads
inside `m_log` are scheduled; application threads need not do anything.

### Findings

Six runs end in a violation; each property states what the repository says of
itself, and `PROJECT.json` quotes the line.

| Run | What happens |
|---|---|
| `thread_late` | A first `m_thread_enter` passes the flag test, the world stops without it, it registers and runs beside the collector. |
| `thread_freed` | A thread that left exits during the walk and frees the node the collector stands on. |
| `thread_lostwakeup` | A thread exits from inside; the collector waiting for it is never woken. |
| `heap_published` | `gc_mark_with_color` never colours gray: a published string, object, array, closure or frame stays white and is swept while its owner holds it. |
| `root_removed` | `gc_root_get_key` returns the node, so `m_gc_remove_root` finds nothing. |
| `actors_unjoined` | Two `m_thread_create` calls lose a list node; the shutdown does not join that actor and destroys the lock and condition variable it uses. |

Further findings have no run of their own; a passing property states the exact range in
which the code is right:

* `m_value_get_int` casts to 32 bits before it shifts: integers of 29 bits survive (`DecodesAsMade`);
* `m_value_from_double` returns a pointer without a tag: the value is no number (`DecodesAsMade`);
* `m_int_cmp_func` and `m_ptr_cmp_func` take keys 2^32 apart for equal (`CmpIsOrder`);
* `gc_mmap` does not look where a hinted mapping was put (`PoolMapped`, which excludes `moved`);
* in pools of more than 4 GB the sweep's `id * descr->size` wraps in 32 bits, indices and the
  number of listed cells do not fit in an `int` (`CellsFound` and `MarksUnpacked` name the sizes
  up to which all is well), and where `size * 8` wraps in `size_t` room is left at the end of the pool;
* pools larger than a page need an alignment `gc_mmap` does not give (`CellsFound`);
* buffers whose size is 0 in 32 bits are never freed (`BufferHolds`);
* `m_hash_foreach_value_safe` computes the container of NULL (not modelled: nodes have no container);
  harmless where the node is the first member, as in `tests/hash_test.c`.

The passing properties say how far the damage goes: in `thread_late` only late
threads run (`StoppedExceptLate`), the structure of the heap survives the heap
finding (`heap_structure`), roots are kept, never lost (`RootsKept`), collections end
unless a thread exits from inside (`CollectionCompletesUnlessInsideExit`), every stack
is marked unless the walk met a freed node (`StacksMarkedBeforeSweep`), and with
actors created by one thread at a time all of them are joined (`process`).

Incremental collections have two gaps of their own. An object allocated between
the increment that marks the roots and the one that sweeps is white and is freed,
and `gc_obj_shutdown` in the middle of an incremental collection resumes at
`gc_status` and leaves objects behind. The flag is private to the library and no
code passes it yet, so these are recorded as hazards. `KeptAllocated` bounds the first: under any mixture of
whole and incremental collections only objects allocated in that gap, and published ones with
pointers, are lost. `ReachableAllocated` and
`ShutdownFreesAll` are claims about whole collections (`Increment = TRUE` in
`MCGcObj_live.cfg` refutes both).

## 4. Proofs

All proofs are for arbitrary constants that satisfy the assumption of the module
they are about: any finite sets of threads, pools, cells, types, nodes and actors,
any widths and page sizes. Every property of the passing runs is proved so, except
the five that need fairness. The modules that `Arith` puts together are used through INSTANCE, so their
assumptions are hypotheses of the theorems (`ASSUME Map!MapAssumption PROVE ...`), and
`MCArith` has TLC evaluate them for the instance that is checked.

| Module | Theorems (and the property each states) |
|---|---|
| `MThreadProofs` | `TypeCorrect` (`TypeOK`), `CountersAreExact`, `AssertionsNeverFail` (`AssertionsHold`), `WorldIsStopped` (`StoppedExceptLate`), `ListIsRegistration` (`ListMatchesRegistration`), `WalkMarksAll` (`StacksMarkedBeforeSweep`) |
| `GcObjProofs` | `FreeListsExact` (`FreeMatchesBitmap`), `PoolListsExact` (`PoolsListed`), `OnlyLateOrPublishedLost` (`KeptAllocated`), `InUseNeverFreed` (`ReachableAllocated`), `NoSharedCell` (`NoAlias`), `SizeNeverDrifts` (`SizeExact`), `HeapTypeCorrect` (`TypeOK`), `NbStackFits` (`NbFits`), `NothingSurvivesShutdown` (`ShutdownFreesAll`), `NoGarbageKept` (`GarbageCollected`) |
| `LifecycleProofs` | `NothingUsedDead` (`NoDeadObjectUsed`), `ActorsJoined` (`AllThreadsStopped`) |
| `ContainerProofs` | `SizeIsExact` (`SizeExact`), `EveryNodeFound` (`FoundByKey`), `TraversalsComplete` (`TraversalComplete`), `HashIsKeyedSet` (`ImplementsKeyedSet`), `RootsStay` (`RootsKept`), `ListsAreSequences` (`ListIsSequence`), `SafeLoopsComplete` (`ListTraversalOrdered`) |
| `TreeProofs` (on `TreeLemmas`) | `TreeSearchable` (`SearchTree`), `TreeIsRedBlack` (`RedBlack`), `TreeTraversalsOrdered` (`TraversalOrdered`), `TreeIsKeyedSet` (`TreeImplementsKeyedSet`) |
| `ArithProofs` | `BuffersHold` (`BufferHolds`), `PoolsMapped` (`PoolMapped`), `ComparisonOrders` (`CmpIsOrder`), `ValuesDecode` (`DecodesAsMade`), `PoolsLaidOut` (`CellsFound`), `MarksPacked` (`MarksUnpacked`) |

`MThreadProofs`. The inductive invariant joins the type invariant, the meaning of
each program location (which locations are registered, which paused:
`AssertionsHold`), `CountersExact`, the ring of `m_thread_list`, and the relation
between `gc_thread`, `thread_pause_flag` and the location of the collector.
`StoppedExceptLate` needs all of them: at the moment `m_thread_pause_all` sees equal
counters, `CountersExact` makes the finite sets of registered and of paused threads
equal, and afterwards no action clears a flag while `thread_pause_flag` is set.
`WalkInv` follows `gc_mark_nb_stacks` along a list that changes under it: going on from
where the walk stands, one meets every thread of the stopped world whose stack is not
marked yet. "Meets" is said of all sets that contain the place of the walk and are
closed under the next pointers (`Meets`), which needs no induction along the list. A
registration appends behind all of them; an exit unlinks a thread, which keeps its own
pointers until it is freed, so a walk that stands on it still gets back to the list. That
the walk reads no freed thread is the hypothesis of the property: the run
`thread_freed` shows that the code does not ensure it.

`GcObjProofs`. `HeapInv` (types, `FreeMatchesBitmap`, `PoolsListed`, no gray cell, a
pool is off its lists only during a sweep) is inductive for every use of the heap
and gives the theorems of structure.
`LiveInv` says what protects an object between its allocation and its release: it is
allocated in a pool of its type; during the marking it is still to be visited or
already black; after the marking, and until its pool has been swept, it is black.
It is inductive for every use of the heap when it is said of the references that are kept
(`Kept`: not `late`, and not a published object with pointers), and gives
`OnlyLateOrPublishedLost`. Under the assumptions `Increment = FALSE` and
`Published \cap PtrType = {}` all references are kept (`AllKept`); both are necessary: see
the finding `heap_published` and the gaps of incremental collections. Then it gives
`InUseNeverFreed` and, with `FreeMatchesBitmap`, `NoSharedCell`.

The rest of `GcObjProofs`. `SizeExact` is inductive beside `HeapInv`: an allocation turns one
unused cell of a pool of the type into a used one, a sweep subtracts the size of the
type once per white cell, and the sum over the types (finite:
`IsFiniteSet(Type)` is part of `HeapAssumption`) changes at one type only. `TypeInv`
holds the types of the collector and `NbFits`; that `gc_allocated_size` stays a
natural number is the exactness. `BlackInv` says in which phases an object
can be black: none is between collections, hence the collection of `gc_obj_shutdown`,
which marks nothing, finds every pool without black cells and unmaps it
(`ShutdownInv`). `GarbageInv` follows a collection phase by phase: what is black is
referenced, and in a swept pool what is in use was black. Both need
`Increment = FALSE`; TLC refutes them otherwise.

`LifecycleProofs`. `Needed` gives for every place of Main the resources that startup
has brought up and shutdown has not yet taken down. `LifeInv` says that they
are up, that workers run only between, who may be inside `m_log`, that no actor sleeps
after the broadcast, and that the actor list is a chain of exactly the actors that
have been pushed and not joined, also between the two assignments of the push. The hypotheses
`Creators = {Main}` and `Stragglers = {}` are necessary: the finding `actors_unjoined`
and section 5 say what happens without them.

`ContainerProofs`. `TableInv` says that each list holds nodes that its position selects,
none twice, with unique keys, and that `size` counts them; a resize keeps it because
pushing the nodes one by one puts each on the list it is looked for on. `LoopInv`
gives a traversal its place: what it has shown is disjoint from what is left from
there on, and together they are what there was at the start, although the body removes
the node the loop stands on. Each step of the table is a step of `KeyedSet` or a
stutter. `RootInv` does the same for the root table, whose lookups find nothing.

For the lists: the sequence a list stands for is a path of its links in both
directions (`DInv`, `SInv`); `DLoopInv` says that what is left of the list in the loop's
direction ends as what the loop must visit ends, with the saved pointer one ahead;
`SLoopInv` that the links of nodes not yet reached are untouched although visited nodes
are pushed on the emptied list.

`TreeLemmas`, `TreeProofs`. A tree is described by the set `N` of its nodes and a
function `f` that says which nodes are below each of them (`Shape`): the sets below
the children of a node lie on the right sides of it and make up, with the node, the set
below it, and parent pointers are the inverse of child pointers. `f` exists beside the
program's state and is quantified away in the invariant. It makes the arguments local:
`FromBelow` and `FromAbove` are induction over a tree, a rotation changes `f` at two
nodes (`RotateLeftShape`), unlinking takes one node out of every set (`SplicedShape`), and
the size of `f[n]` is the rank that shows that a walk ends within `Steps` (`RankDown`,
`RankUp`), from which `LeftmostIs`, `NextIs`, `LookupIs` and their mirror images say what
the walks return.

Black heights are a function `e` from nodes to numbers such that the two subtrees of
each node have the same height and a node adds its weight to it: a red node 0, a black
one 1 (`Levels`). While
`m_rbt_remove` runs, two nodes weigh something else (`Weights`): the node that leaves
its place nothing, and the node the loop of `m_rbt_remove_rebalance` stands on one more
than its colour says, to make up for the missing black. `RedBlackBut(t, N, X, s, c)` is a
red black tree in which only the nodes `X` may have a red parent, `s` is the first of these
nodes and `c` the second. The loops only move the exception: `Inserting` allows it at the
new red node, `Rebalancing` at the loop's node, `Unlinking` at the node that leaves its
place. Each branch of each loop has a lemma (`InsertRecolour`, `InsertRotateOk`,
`RemoveTurned`, `RemoveRecoloured`, `RemoveRotated`, ...), with one lemma for each side.
`Removing` says what the locals that `m_rbt_remove` reads before
the loop are worth after it: `Kept` shows for every rotation of the loop that the node
`succ` is still a child of the same parent on the same side, has the same children and is
still below the left child of the node to remove, which the code relies on without
looking again. The body of a traversal removes the node the loop has already gone
on from, so the invariant `Walked` only has to know that what is before the position has
been met and what is not is still in the tree.

`ArithProofs`. Quotient and remainder are determined by what they satisfy
(`DivModUnique`); smaller powers divide larger ones (`PowerDivides`). `MapInv` gives
the pages `gc_mmap` holds before each attempt, counted in system pages from page
boundaries, so that the arithmetic of every attempt is that of intervals. A packed word
is a number whose digits are marks: `SetMarkIs` says that setting a digit changes no
other, `NotSwept` that marks the sweep does not look at are those of unused cells, and
with them `SweptWordIs` is an induction over the loop. `LayoutInv` puts the layout of a pool, the
bitmap and the free list together; `SmallPool` bounds the number of cells of a pool of at most
`2^IdBits` bytes, where nothing that is cut off is lost (`NoWrap`, `ToIntIs`). The theorems about pools,
mappings and values state where they stop: room that is left when `size_t` does not hold the bits
of a pool, indices beyond `int`, mappings put elsewhere than asked (`moved`), doubles without a tag. `ValueInv` and `CmpInv` are what one call establishes; their proofs
are the arithmetic of tags and of remainders of remainders.

Two devices recur. Induction over an interval or a finite set is proved once from
the well-founded order of the library as a statement about a set (`Induction`,
`MinimalSubset` in `DataLemmas`), and used to show that a recursive function has a solution
and what it computes (sums, `FlattenSeq`, `Rehashed`, `SweptWord`, the walks of `RBTree`). And the provers do
not evaluate `2^k` for a variable `k`: the assumptions of `GcBuf`, `MCmp`, `MValue` and
`PoolLayout` spell out the recurrence `2^k = 2 * 2^(k-1)` (and that of 4) up to the
widths they use, which is arithmetic and restricts nothing; TLC evaluates it.
Assumptions that do restrict are what the code fixes: page sizes are powers of 2
(`M_PAGE_SIZE` is 4096) and multiples of the word size, addresses are natural
numbers, object sizes are multiples of a word.

Only model-checked: everything under fairness (`CollectionCompletesUnlessInsideExit`,
`PausedThreadResumes`, `CollectionEnds`, `CallsReturn`, `ShutdownCompletes`), which TLAPS does not
reach.

## 5. Not modelled

* `m_atomic.h` wraps compiler builtins nobody calls; the headers of the language's data
  types declare structures without operations; `gc_alloc_buf`, `gc_realloc_buf` and
  `gc_free_buf` are empty and compiled out; the generator in `build/` runs at build time.
* What a line of the log looks like (`M_LOG_PATTERN` and the fields of `m_log`).
* The 32 bit variant of `m_value.h`.
* The `_value` forms of the container loops, which are the same loops on containers.
* Threads that still run when main returns, and a process whose startup and exit happen on
  different threads: `Lifecycle` has the first as the constant `Stragglers` (the run has the
  empty set, any other value refutes `NoDeadObjectUsed`), and assumes Main for the second.
* Objects that refer to objects: the scan functions are empty in the source.

## 6. Plan

Done: all modules of section 2 with their runs, and the proofs of section 4.

Left: `MThread` composed with `GcObj`, so that late threads meet the heap. The two share
only the moments at which the world stops and resumes; `GcObj` waits in `at = "pause"`
until every other thread waits too, which `MThread` shows to be true of all but late ones.
