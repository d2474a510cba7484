------------------------------- MODULE GcRoot -------------------------------
(***************************************************************************)
(* The root table of src/m_gc_root.c: a hash table of reference-counted    *)
(* nodes, each naming an object that gc_mark_root_hash marks.  Both calls  *)
(* run under m_gc_lock from end to end, so each is one step.               *)
(*                                                                         *)
(* Objects and nodes are addresses.  gc_root_get_key returns the address   *)
(* of the M_GCRootNode, while the two calls look up the address of the     *)
(* object.                                                                 *)
(***************************************************************************)
EXTENDS MHash

CONSTANTS
  Object,     \* addresses of objects
  NodeAddr,   \* addresses m_gc_alloc_buf may return: the bound on live nodes
  MaxRef      \* bound: m_gc_add_root calls of one object not yet undone

ASSUME RootAssumption ==
  /\ Object \subseteq Nat /\ NodeAddr \subseteq Nat
  /\ Object \cap NodeAddr = {} /\ 0 \notin Object
  /\ MaxRef \in Nat

VARIABLES
  gc_root_hash,
  ptr, ref,      \* the fields of the nodes, 0 in a node that is not allocated
  added,         \* adds of each object that have not been undone by a remove
  up             \* gc_root_hash_shutdown has not run

rootVars == <<gc_root_hash, ptr, ref, added, up>>

\* m_node_value(node, M_GCRootNode, node): the node itself.
gc_root_get_key == [n \in NodeAddr |-> n]

Found(p) ==
  {gc_root_hash.lists[place.pos][place.i] :
     place \in m_hash_lookup(gc_root_hash, gc_root_get_key, p)}

\* A node for p: counted once more if the table has one, else allocated and
\* inserted under the key value of p.
m_gc_add_root(p) ==
  /\ up /\ added[p] < MaxRef
  /\ added' = [added EXCEPT ![p] = @ + 1]
  /\ IF Found(p) # {}
       THEN /\ \E n \in Found(p) : ref' = [ref EXCEPT ![n] = @ + 1]
            /\ UNCHANGED <<gc_root_hash, ptr>>
       ELSE \E n \in NodeAddr \ Nodes(gc_root_hash) :
              /\ ref' = [ref EXCEPT ![n] = 1]
              /\ ptr' = [ptr EXCEPT ![n] = p]
              /\ gc_root_hash' = m_hash_insert_with_kv(
                   m_hash_resize(gc_root_hash, gc_root_get_key), n, p)
  /\ UNCHANGED up

\* The client gives back a root it added: the node is removed with its last
\* reference; nothing happens when the table has no node for p.
m_gc_remove_root(p) ==
  /\ up /\ added[p] > 0
  /\ added' = [added EXCEPT ![p] = @ - 1]
  /\ IF Found(p) = {}
       THEN UNCHANGED <<gc_root_hash, ptr, ref>>
       ELSE \E place \in m_hash_lookup(gc_root_hash, gc_root_get_key, p), n \in Found(p) :
              IF ref[n] = 1
                THEN /\ gc_root_hash' = m_hash_remove_from_prev(gc_root_hash, place)
                     /\ ptr' = [ptr EXCEPT ![n] = 0]
                     /\ ref' = [ref EXCEPT ![n] = 0]
                ELSE /\ ref' = [ref EXCEPT ![n] = @ - 1]
                     /\ UNCHANGED <<gc_root_hash, ptr>>
  /\ UNCHANGED up

\* m_hash_deinit frees every node.
gc_root_hash_shutdown ==
  /\ up /\ up' = FALSE
  /\ gc_root_hash' = m_hash_init
  /\ ptr' = [n \in NodeAddr |-> 0]
  /\ ref' = [n \in NodeAddr |-> 0]
  /\ UNCHANGED added

RootInit ==
  /\ gc_root_hash = m_hash_init
  /\ ptr = [n \in NodeAddr |-> 0]
  /\ ref = [n \in NodeAddr |-> 0]
  /\ added = [p \in Object |-> 0]
  /\ up = TRUE

RootNext ==
  \/ \E p \in Object : m_gc_add_root(p) \/ m_gc_remove_root(p)
  \/ gc_root_hash_shutdown

RootSpec == RootInit /\ [][RootNext]_rootVars
-----------------------------------------------------------------------------
Rooted(p) == \E n \in Nodes(gc_root_hash) : ptr[n] = p

\* An object that was added and not given back has a node that
\* gc_mark_root_hash visits, although the nodes are rehashed under another key
\* than the one they were inserted with.
RootsKept == up => \A p \in Object : added[p] > 0 => Rooted(p)

\* include/m_gc.h: "Remove an root object."  An object given back as often as
\* it was added is no root any more.
RemovedIsNoRoot == \A p \in Object : added[p] = 0 => ~Rooted(p)
=============================================================================
